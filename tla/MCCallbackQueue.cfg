CONSTANTS
  Thread = {t1, t2}
  Net = {n}
  Group = {}
  Rpc = {r1}
  Shut = shut
  Limit = 0
  Resends = TRUE
  MaxCalls = 2
SPECIFICATION FairSpec
INVARIANTS SendCaughtUp AllDelivered
PROPERTIES  Delivered CallsReturn 
CHECK_DEADLOCK FALSE
