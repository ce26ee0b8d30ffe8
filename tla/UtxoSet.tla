------------------------------ MODULE UtxoSet ------------------------------
(***************************************************************************)
(* What the stack of coin caches promises: three plain maps from outpoints *)
(* to coins, and the block the lower two stand for.  `disk' is what the    *)
(* coin database holds, `utxo' is what pcoinsTip answers, and `draft' is   *)
(* what the short-lived view of one ConnectBlock or DisconnectBlock        *)
(* answers while it is open.  There are no flags, no entries that may or   *)
(* may not be cached, and reading, evicting and flushing change no answer. *)
(***************************************************************************)
CONSTANTS Outpoint, Coin, Spent, Block, Null

VARIABLES disk, utxo, draft, open, diskBlock, utxoBlock

vars == <<disk, utxo, draft, open, diskBlock, utxoBlock>>

Init ==
  /\ disk \in [Outpoint -> Coin \cup {Spent}]
  /\ utxo = disk
  /\ draft = utxo
  /\ open = FALSE
  /\ diskBlock \in Block \cup {Null}
  /\ utxoBlock = diskBlock

Open ==
  /\ ~open
  /\ open' = TRUE
  /\ UNCHANGED <<disk, utxo, draft, diskBlock, utxoBlock>>

\* An output is created, restored or spent in the open view only.
Change(o, c) ==
  /\ open
  /\ draft' = [draft EXCEPT ![o] = c]
  /\ UNCHANGED <<disk, utxo, open, diskBlock, utxoBlock>>

\* The block's changes reach pcoinsTip all at once, with its best block ...
Commit(b) ==
  /\ open
  /\ open' = FALSE
  /\ utxo' = draft
  /\ utxoBlock' = b
  /\ UNCHANGED <<disk, draft, diskBlock>>

\* ... or not at all.
Discard ==
  /\ open
  /\ open' = FALSE
  /\ draft' = utxo
  /\ UNCHANGED <<disk, utxo, diskBlock, utxoBlock>>

\* What pcoinsTip answers becomes what the database holds.
Persist ==
  /\ ~open
  /\ disk' = utxo
  /\ diskBlock' = utxoBlock
  /\ UNCHANGED <<utxo, draft, open, utxoBlock>>

Next ==
  \/ Open
  \/ \E o \in Outpoint, c \in Coin \cup {Spent} : Change(o, c)
  \/ \E b \in Block : Commit(b)
  \/ Discard
  \/ Persist

Spec == Init /\ [][Next]_vars
=============================================================================
