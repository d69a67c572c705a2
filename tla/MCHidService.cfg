SPECIFICATION FairSpec
CONSTANTS
  Threads = {t1, t2}
  Chunks = 4
CHECK_DEADLOCK FALSE
INVARIANT TypeOK NoStuckKey TickMeansOpen
PROPERTY KeyReleased

