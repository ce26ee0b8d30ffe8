CONSTANTS
  s = s
  a = a
  b = b
  None = None
  Nodes = {s, a, b}
  Links <- MCLinks
  Signers = {s}
  Values = {1}
  Skew <- MCSkew
  Future = 0
  Stale = 0
  Starts <- MCStarts
  Watched <- MCWatched
  MaxTime = 1
  MaxUpdates = 2
  MaxRestarts = 1
SPECIFICATION SporkSpec
PROPERTIES  RelayReaches
CHECK_DEADLOCK FALSE
