---------------------------- MODULE MCCoinsCache ----------------------------
EXTENDS CoinsCache, TLC

Symmetric == Permutations(Outpoint) \cup Permutations(Coin) \cup Permutations(Block)
=============================================================================
