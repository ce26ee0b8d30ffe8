----------------------------- MODULE MCChainState -----------------------------
(* A genesis block with branches a, b and c; every block adds one unit of work.  *)
(* Blocks without a sequence number are ordered by address: one way or the other.*)
EXTENDS ChainState

CONSTANTS g, a1, a2, b1, b2, c2

MCParent == [b \in Block \ {g} |->
  CASE b \in {a2, c2} -> a1 [] b = b2 -> b1 [] OTHER -> g]
MCWork == [b \in Block |-> Cardinality(Anc[b])]
MCUp == [b \in Block |->
  CASE b = g -> 1 [] b = a1 -> 2 [] b = a2 -> 3 [] b = b1 -> 4 [] b = b2 -> 5 [] b = c2 -> 6]
MCAddresses == {MCUp, [b \in Block |-> 7 - MCUp[b]]}
MCWorlds == {[blocks |-> Block, rpcs |-> FALSE], [blocks |-> Block \ {c2}, rpcs |-> TRUE]}
=============================================================================
