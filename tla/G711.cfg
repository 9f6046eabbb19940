SPECIFICATION RelaySpec
CONSTANT PcmSamples <- AllSamples
INVARIANTS ULawIsAccurate ALawIsAccurate
PROPERTIES RelayIsStable
