CONSTANTS
  p1 = p1
  p2 = p2
  a1 = a1
  a2 = a2
  a3 = a3
  c1 = c1
  c2 = c2
  c3 = c3
  t1 = t1
  t2 = t2
  t3 = t3
  t4 = t4
  None = None
  Genesis = Genesis
  Peers = {p1, p2}
  Blocks = {a1, a2, a3, c1, c2, c3}
  Prev <- MCPrev
  Height <- MCHeight
  Unconnectable = {c2}
  MaxInTransit = 1
  Window = 1
  StallTimeout = 0
  BlockTimeout = 1
  BanScore = 2
  Txs = {t1, t2, t3, t4}
  Parents <- MCParents
  BlockTxs <- MCBlockTxs
  Refused = {}
  Punished = {t4}
  Big = {}
  MaxOrphans = 1
  MapAskForMax = 0
  Retry = 1
  Worlds <- MCWorlds
  MaxInbox = 1
SPECIFICATION Spec
INVARIANTS InFlightExact  OrphansExact
PROPERTIES RequestsEnd TxFetched
CHECK_DEADLOCK FALSE
