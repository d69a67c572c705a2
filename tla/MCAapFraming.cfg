CONSTANTS
  MaxRead = 20
  MaxLen = 5
  Splits = {}

SPECIFICATION Spec

INVARIANTS
  TypeOK
  WholePackets
  BytesAccounted
  NextUntouched
