CONSTANTS
  Master = m
  Worker = {w1, w2}
  Interruptible = {w1, w2, m}
  Check = {c1, c2}
  BatchSize = 2
  MaxBlocks = 2
SPECIFICATION FairSpec
INVARIANTS AnswerIsRight IdleWhenOpened
PROPERTIES WaitReturns
CHECK_DEADLOCK FALSE
