CONSTANTS
  g = g
  a1 = a1
  a2 = a2
  b1 = b1
  b2 = b2
  c2 = c2
  Genesis = g
  Null = Null
  Parent <- MCParent
  ChainWork <- MCWork
  Addresses <- MCAddresses
  Block = {g, a1, a2, b1, b2, c2}
  Valid = {g, a1, a2, b1}
  NonFinal = {c2}
  PoS = {a2}
  MaxReorg = 2
  InvalidateAt = {"idle"}
  Worlds <- MCWorlds
  MaxRestarts = 1
  MaxInvalidates = 2
SPECIFICATION FairSpec
INVARIANTS CandidatesExact TipIsBest ActiveNotFailed
PROPERTIES ProgressBeforeUnlock ActivationEnds
CHECK_DEADLOCK FALSE
