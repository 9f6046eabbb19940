SPECIFICATION Spec
CONSTANTS
  nb_samples = 4
  StagingBytes = 16
  AudioLens = {0, 2, 6, 8}
  MaxInits = 2
  MaxPcm = 30
  MaxFrames = 1
INVARIANT EachCodecClosed
