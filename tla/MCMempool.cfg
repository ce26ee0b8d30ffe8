CONSTANTS
  a = a
  b = b
  c = c
  d = d
  s = s
  u = u
  w = w
  k = k
  v = v
  f = f
  x = x
  y = y
  z = z
  n1 = n1
  n2 = n2
  None = None
  Tx = {a, b, c, d, s, u, w, k, v, f}
  Coin = {x, y, z}
  Nullifier = {n1, n2}
  CoinBase = {k}
  Refused = {u}
  Outpoint <- MCOutpoint
  Inputs <- MCInputs
  Nullifiers <- MCNullifiers
  Anchor <- MCAnchor
  Size <- MCSize
  Fee <- MCFee
  LockTime <- MCLockTime
  Blocks <- MCBlocks
  Worlds <- MCWorlds
  Maturity = 2
  LimitAncestors = 3
  LimitDescendants = 3
  Expiry = 1
  MaxDisconnected = 2
  Deltas = {2}
SPECIFICATION Spec
INVARIANTS PoolIsMinable SpendsExact SumsExact 
CHECK_DEADLOCK FALSE
