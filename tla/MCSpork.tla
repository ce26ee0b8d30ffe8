------------------------------ MODULE MCSpork ------------------------------
(* A signer, a node that it connects to, and a third one behind that. *)
EXTENDS Spork
CONSTANTS s, a, b
MCLinks == {<<s, a>>, <<b, a>>}
MCSkew == [n \in Nodes |-> IF n = b THEN 0 ELSE 1]
MCWatched == {[from |-> a, to |-> b, time |-> 1]}
Old == [nValue |-> 1, nTimeSigned |-> 0]
MCStarts == {[n \in Nodes |-> IF n = b THEN Old ELSE None]}
=============================================================================
