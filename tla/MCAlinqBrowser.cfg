CONSTANTS
  artists = artists
  all = all
  ui = ui
  player = player
  Threads = {ui, player}
  i1 = i1
  i2 = i2
  Items = {i1, i2}
  Groups <- TheGroups
  AllFiles = all
  Args <- TheArgs
  OtherCalls <- PlayerCalls
  Root = Root
  None = None
  NotSelected = NotSelected
  MaxTries = 2
  MaxLates = 1

SPECIFICATION FairSpec

INVARIANTS
  TypeOK
  Backlog
  CountsHonest

PROPERTIES
  AnswersOwn
  LockReleased
