CONSTANTS
  Thread = {t1, t2}
  Task = {k1, r}
  Repeating = {r}
  Delta = 1
  Horizon = 2
SPECIFICATION FairSpec
PROPERTIES QueuedRuns StopEnds
CHECK_DEADLOCK FALSE
