CONSTANTS
  Places <- ThePlaces
  QueueLen = 4
  None = None
  BuffSize = 2
  HeadSize = 1
  CmdSize = 3
  Results <- ReadResults
  IntLimit = 4
  MaxCaptures = 2
  MaxInputs = 2
  MicData = MicData
  NumBuffers = 1

SPECIFICATION FairSpec

INVARIANTS
  TypeOK
  CodecInUse
  Gestures
  Settled

PROPERTIES
  HandedOver
  CaughtUp
  Exits

CHECK_DEADLOCK FALSE
