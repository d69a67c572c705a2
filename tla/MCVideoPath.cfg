CONSTANTS
  MaxFrags = 3
  MaxUnits = 5
  Others <- WholeMessages
  NumBufs = 4
  Frames <- AllUnits
  TooBig <- LargeUnits
  Nothing = Nothing
  Stored = Stored
  Refused = Refused

SPECIFICATION PathSpec

INVARIANTS
  PathTypeOK
  AssemblyFits
  QueuedInOrder

PROPERTIES
  UnitsHandedWhole
  FifoImplemented
