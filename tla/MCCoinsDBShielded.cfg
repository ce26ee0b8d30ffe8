CONSTANTS
  g = g
  a1 = a1
  a2 = a2
  b1 = b1
  o1 = o1
  o2 = o2
  o3 = o3
  Genesis = g
  Spent = Spent
  Absent = Absent
  Null = Null
  Block <- MCBlock
  Parent <- MCParent
  Outpoint <- MCOutpoint
  Creates <- MCCreates
  Spends <- MCSpends
  Shielded <- MCShielded
  UtxoAt <- MCUtxoAt
  ShieldedAt <- MCShieldedAt
  FreshDatabase = FALSE
  DirectFlush = FALSE
  WriteErrors = FALSE
SPECIFICATION Spec
CHECK_DEADLOCK FALSE
INVARIANTS BestBlockNamesShielded
