CONSTANTS
  MaxTries = 2
  MaxPkts = 2
  MaxCtx = 1
  Chans = {"CTR", "AUD", "VID", "SEN", "TOU", "MIC"}
  Asked = {11, 13}
  Sids = {0, 1}
  MaxQueue = 2
  MaxOpen = 2

SPECIFICATION ChanFairSpec

INVARIANTS
  ChanTypeOK
  LinkAgreement
  EncryptedMeansFinished
  ResultAgrees
  AnswersAwaited
  NothingForgotten

PROPERTIES
  ContextsGivenBack
  NoSendWhenDown
  LinkImplemented
  CallsReturn
