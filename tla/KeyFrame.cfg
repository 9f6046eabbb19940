SPECIFICATION Spec
CONSTANTS
  Bytes = {0, 1, 65, 101}
  MaxSize = 8
INVARIANTS TypeOK ScanFindsKeyFrame
