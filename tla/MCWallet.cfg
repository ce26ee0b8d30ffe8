CONSTANTS
  c0 = c0
  pay = pay
  rival = rival
  send = send
  stake = stake
  ext = ext
  G = G
  A1 = A1
  A2 = A2
  B1 = B1
  B2 = B2
  C2 = C2
  C3 = C3
  None = None
  Tx <- MCTx
  Coin = {ext}
  Inputs <- MCInputs
  Mine <- MCMine
  CoinStake = {stake}
  Own = {send}
  Block <- MCBlock
  Genesis = G
  Parent <- MCParent
  Content <- MCContent
  MaxPending = 1
SPECIFICATION Spec
INVARIANTS
  
  SyncAssertsHold
  InMempoolExact
  
  
