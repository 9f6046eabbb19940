SPECIFICATION Spec
CONSTANTS
  Signals <- MCSignals
  Block = 200
  MaxBlocks = 2
  MaxBytes = 2
INVARIANTS TypeOK
INVARIANTS AdaptationBounded
INVARIANTS InStep
INVARIANTS CodeIsStable
CHECK_DEADLOCK FALSE
