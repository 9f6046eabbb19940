SPECIFICATION FairSpec
CONSTANT Streams <- MCStreams
INVARIANTS TypeOK IdleLeavesNoWork Lossless InOrder AbortOnlyAfterShutdown CompletedIsSound SentAsItsLastPacket
PROPERTIES ImplementsFrameAssembly HandlerReturns
