SPECIFICATION Spec
CONSTANTS
  Threads = {t1, t2}
  Chunks = 4
CHECK_DEADLOCK FALSE
INVARIANT StartedMeansListens

