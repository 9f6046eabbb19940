SPECIFICATION FairSpec
CONSTANTS
  c1 = c1
  c2 = c2
  l1 = l1
  l2 = l2
  NoConn = NoConn
  Conns <- MCConns
  Loops <- MCLoops
  nIdleSeconds = 2
INVARIANTS TypeOK UpHasDecoder HeardIsKept DeathExplained
PROPERTIES DecoderFreed
