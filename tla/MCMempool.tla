------------------------------ MODULE MCMempool ------------------------------
(* Chains a-b-c and a conflict d, two shielded spends of one note and one   *)
(* that builds on them, a coinbase k and its spend v.                       *)
EXTENDS Mempool

CONSTANTS a, b, c, d, s, u, w, k, v, f, x, y, z, n1, n2

MCOutpoint == {<<h, 0>> : h \in {a, b, c, v, k, x, y, z}} \cup {<<a, 1>>}
MCInputs == [t \in Tx |->
  CASE t = a -> {<<x, 0>>} [] t = b -> {<<a, 0>>} [] t = c -> {<<b, 0>>, <<a, 1>>}
    [] t = d -> {<<x, 0>>} [] t = s -> {<<y, 0>>} [] t = v -> {<<k, 0>>} [] t = f -> {<<v, 0>>} [] OTHER -> {}]
MCNullifiers == [t \in Tx |-> IF t \in {s, u} THEN {n1} ELSE IF t = w THEN {n2} ELSE {}]
MCAnchor == [t \in Tx |-> IF t = w THEN <<s>> ELSE << >>]
MCSize == [t \in Tx |-> IF t = c THEN 2 ELSE 1]
MCFee == [t \in Tx |-> CASE t = a -> 1 [] t = b -> 3 [] OTHER -> 2]
MCLockTime == [t \in Tx |-> IF t = v THEN 1 ELSE 0]
MCBlocks == {<< >>, <<a>>, <<a, b>>, <<d>>, <<b>>, <<s>>, <<u>>, <<w>>, <<k>>, <<v>>}
World(txs, max, times, nb, nr, nd, rs) ==
  [tx |-> txs, maxmempool |-> max, maxTime |-> times, maxBlocks |-> nb,
   maxReorgs |-> nr, maxDeltas |-> nd, maxRestarts |-> rs]
MCWorlds == {World({a, b, c, d}, 9, 0, 3, 2, 1, 0),
             World({a, b, c, d, s}, 3, 2, 1, 0, 1, 0),
             World({s, u, w, a}, 9, 0, 3, 2, 0, 0),
             World({k, v, f, d}, 9, 0, 4, 2, 0, 0),
             World({a, b, s}, 9, 1, 0, 0, 1, 2)}
=============================================================================
