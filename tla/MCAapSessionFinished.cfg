CONSTANTS
  MaxTries = 4
  MaxPkts = 1
  MaxCtx = 1

SPECIFICATION Spec

INVARIANT StartedMeansFinished
