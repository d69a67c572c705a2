CONSTANTS
  NumBufs = 4
  Chans = {3, 4}
  MsgsPerRead = 2
  MaxEmpty = 1

SPECIFICATION FairSpec

INVARIANT TypeOK

PROPERTIES
  NothingSwallowed
  MicTold
  Drained
  LossReported
