SPECIFICATION RelaySpec
CONSTANT PcmSamples <- AllSamples
INVARIANT ALawAccurate
