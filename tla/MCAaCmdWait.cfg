CONSTANTS
  NumBufs = 4
  Chans = {3}
  MsgsPerRead = 2
  MaxEmpty = 1

SPECIFICATION Spec

PROPERTY ReceivesOnlyWhenEmpty
