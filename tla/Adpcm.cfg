SPECIFICATION Spec
CONSTANTS
  Samples <- MCSamples
  Starts <- MCStarts
  Misstarts <- MCMisstarts
  JunkSteps <- MCJunkSteps
  MaxSamples = 3
INVARIANTS TypeOK InStep TracksInput MisstartFades
