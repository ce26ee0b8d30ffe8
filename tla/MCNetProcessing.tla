--------------------------- MODULE MCNetProcessing ---------------------------
(***************************************************************************)
(* Instances of NetProcessing.  Two branches leave genesis, a1 a2 a3 and   *)
(* c1 c2 c3; c2 does not connect.  Transaction t2 spends t1, t3 spends     *)
(* both, and t4 spends t1 and is invalid.                                  *)
(***************************************************************************)
EXTENDS NetProcessing

CONSTANTS p1, p2, a1, a2, a3, c1, c2, c3, t1, t2, t3, t4

MCPrev == [b \in Blocks |->
  CASE b = a2 -> a1 [] b = a3 -> a2 [] b = c2 -> c1 [] b = c3 -> c2 [] OTHER -> Genesis]
MCHeight == [b \in Blocks \cup {Genesis} |->
  CASE b = Genesis -> 0 [] b \in {a1, c1} -> 1 [] b \in {a2, c2} -> 2 [] b \in {a3, c3} -> 3]
MCParents == [t \in Txs |-> CASE t = t1 -> {} [] t = t3 -> {t1, t2} [] OTHER -> {t1}]
MCBlockTxs == [b \in Blocks \cup {Genesis} |-> IF b = a1 THEN {t1} ELSE {}]

Version == [type |-> "version", of |-> None]
Says(type, S) == {[type |-> type, of |-> x] : x \in S}
Index0(data, headers) == [b \in Index |->
  CASE b \in data \cup {Genesis} -> "data" [] b \in headers -> "header" [] OTHER -> "none"]

Verack == [type |-> "verack", of |-> None]

(* A peer that says hello and then sends S. *)
Polite(S) == <<{Version}, {Verack}, S>>
Nobody == <<{}, {}, {}>>
Quiet ==
  [start |-> Index0({}, {}), up |-> {p1, p2}, peers |-> {p1, p2}, inbound |-> {}, old |-> {}, answering |-> {},
   sends |-> [p \in Peers |-> [h \in 0..2 |-> {}]], verdicts |-> {}, local |-> {}, closing |-> {},
   watch |-> [peer |-> p1, block |-> a1, tx |-> t1]]
Follow(w, p) == [w EXCEPT !.watch.peer = p]
Sending12(s1, s2) == [p \in Peers |-> [h \in 0..2 |-> IF p = p1 THEN s1[h + 1] ELSE s2[h + 1]]]
Alone == [Quiet EXCEPT !.up = {p1}, !.peers = {p1}]

(* Headers of three blocks are known, and both peers have the last block.  *)
Download == [Quiet EXCEPT !.start = Index0({}, {a1, a2, a3}),
               !.sends = Sending12(Polite(Says("inv", {a3}) \cup Says("block", {a1})), Polite(Says("inv", {a3})))]
(* A block is asked of a peer that sends another, while its connection     *)
(* breaks or somebody asks to disconnect it.                               *)
Revived == [Alone EXCEPT !.start = Index0({}, {a1}), !.verdicts = {"good"}, !.closing = {p1},
              !.sends = Sending12(Polite(Says("inv", {a1}) \cup Says("block", {c1})), Nobody)]
(* The same with one peer that connected to us, and one that comes later.  *)
Prefer == [Quiet EXCEPT !.start = Index0({}, {a1}), !.up = {p2}, !.inbound = {p2}, !.closing = {p1},
             !.sends = Sending12(Polite(Says("inv", {a1})), Polite(Says("inv", {a1})))]
(* A peer of the protocol version that a spork makes obsolete.             *)
Obsolete == [Alone EXCEPT !.up = {}, !.old = {p1}, !.verdicts = {"good"},
               !.sends = Sending12(Polite(Says("block", {a1, a2, a3})), Nobody)]
(* A peer sends blocks that may be refused, and its connection may break.  *)
Closing == [Alone EXCEPT !.up = {}, !.verdicts = Verdicts, !.local = {a1}, !.closing = {p1},
              !.sends = Sending12(<<{Version} \cup Says("block", {a1}), {Version, Verack}, Says("block", {a1})>>, Nobody)]
(* A block that does not connect is found out when its child comes.        *)
Fork == [Alone EXCEPT !.start = Index0({a1, a2, c1}, {}), !.verdicts = {"good"}, !.local = {a3},
           !.sends = Sending12(Polite(Says("block", {c2, c3})), Nobody)]
(* Transactions in any order, and a block that holds one.                  *)
Orphan == [Alone EXCEPT !.verdicts = {"good"}, !.local = {a1},
             !.sends = Sending12(Polite(Says("invtx", {t1}) \cup Says("tx", {t1, t2, t3})), Nobody)]
(* An invalid orphan, of a peer that may leave.                            *)
Invalid == [Quiet EXCEPT !.closing = {p2},
              !.sends = Sending12(Polite(Says("tx", {t1})), Polite(Says("tx", {t2, t4})))]
(* One peer announces and never answers, the other does both.              *)
Silent == [Quiet EXCEPT !.answering = {p2},
             !.sends = Sending12(Polite(Says("invtx", {t1})), Polite(Says("invtx", {t1})))]
MCWorlds ==
  {Download, Follow(Download, p2), Revived, Prefer, Follow(Prefer, p2), Obsolete, Closing, Fork, Orphan, Invalid,
   Follow(Silent, p2)}
=============================================================================
