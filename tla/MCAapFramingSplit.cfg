CONSTANTS
  MaxRead = 20
  MaxLen = 5
  Splits = {1, 2, 3}

SPECIFICATION Spec

INVARIANT WholePackets
