CONSTANTS
  Nullifier = {n1, n2}
  Note = {c1, c2}
  NoEntry = NoEntry
  n1 = n1
  n2 = n2
  c1 = c1
  c2 = c2
  MaxNotes = 2
  MaxHeight = 2
SYMMETRY Symmetric
SPECIFICATION SaplingSpec
INVARIANTS
  NoDoubleSpend
  TipFollowsChain
