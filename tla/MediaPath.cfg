SPECIFICATION PathSpec
CONSTANTS
  nb_samples = 4
  StagingBytes = 16
  AudioLens <- MCAudioLens
  OutBytes = 8
  Frames <- MCFrames
  MaxInits = 3
  MaxPcm = 26
  MaxFrames = 1
INVARIANTS PathTypeOK PushingIsReady AudioClock HeaderGetsTrailer PublishedIsSafe LastInitIsFreed PcmOfFrames LeakOnlyAfterEmptyFrame
PROPERTIES ImplementsRtmpStream
