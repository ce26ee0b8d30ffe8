------------------------------ MODULE MCWallet ------------------------------
(***************************************************************************)
(* c0 pays the wallet twice in the first block.  pay is a payment from a   *)
(* coin of others that rival spends elsewhere; send spends the payment and *)
(* an output of c0, which stake spends too, in the other branch.  The      *)
(* branch of C2 has send in a later block.                                 *)
(***************************************************************************)
EXTENDS Wallet

CONSTANTS c0, pay, rival, send, stake, ext, G, A1, A2, B1, B2, C2, C3

MCTx == {c0, pay, rival, send, stake}
MCInputs ==
  [t \in MCTx |-> CASE t = c0 -> {}
                    [] t \in {pay, rival} -> {<<ext, 0>>}
                    [] t = send -> {<<pay, 0>>, <<c0, 0>>}
                    [] t = stake -> {<<c0, 0>>}]
MCMine == {<<c0, 0>>, <<c0, 1>>, <<pay, 0>>, <<send, 0>>, <<stake, 0>>}
MCBlock == {G, A1, A2, B1, B2, C2, C3}
MCParent ==
  [b \in MCBlock \ {G} |-> CASE b \in {A1, B1} -> G [] b \in {A2, C2} -> A1 [] b = B2 -> B1 [] b = C3 -> C2]
MCContent ==
  [b \in MCBlock |-> CASE b = G -> <<c0>> [] b = A1 -> <<pay>> [] b = A2 -> <<send>> [] b = C2 -> << >> [] b = C3 -> <<send>>
                       [] b = B1 -> <<rival>> [] b = B2 -> <<stake>>]
=============================================================================
