------------------------------ MODULE MCCoinsDB ------------------------------
(* A genesis block with a branch of two blocks and one of one block.  Output o1 *)
(* is created on both branches; o2 is created and spent within one block; o3 is *)
(* created by a1 and spent by a2.                                               *)
EXTENDS CoinsDB

CONSTANTS g, a1, a2, b1, o1, o2, o3

MCBlock == {g, a1, a2, b1}
MCParent == [b \in {a1, a2, b1} |-> IF b = a2 THEN a1 ELSE g]
MCOutpoint == {o1, o2, o3}
MCCreates == [b \in MCBlock |->
  CASE b = a1 -> {o1, o3} [] b = a2 -> {o2} [] b = b1 -> {o1} [] OTHER -> {}]
MCSpends == [b \in MCBlock |-> IF b = a2 THEN {o2, o3} ELSE {}]
MCShielded == {a2, b1}
MCUtxoAt[b \in MCBlock] ==
  IF b = g THEN [o \in MCOutpoint |-> Spent] ELSE ConnectCoins(MCUtxoAt[MCParent[b]], b)
MCShieldedAt[b \in MCBlock] ==
  IF b = g THEN {} ELSE MCShieldedAt[MCParent[b]] \cup ({b} \cap MCShielded)
=============================================================================
