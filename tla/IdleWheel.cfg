SPECIFICATION FairSpec
CONSTANTS
  Conns = {c1, c2, c3}
  nIdleSeconds = 3
INVARIANTS TypeOK WheelCountsSilence
PROPERTIES ImplementsIdleTimer SilentIsClosed
