--------------------------- MODULE MCSaplingCache ---------------------------
(* A small instance of SaplingCache: two nullifiers, two notes that may take *)
(* the same place in the tree on two branches, chains of two blocks.         *)
EXTENDS SaplingCache, TLC

Symmetric == Permutations(Nullifier) \cup Permutations(Note)
=============================================================================
