--------------------------- MODULE MempoolInvariant ---------------------------
(***************************************************************************)
(* The parts of the inductive invariant of Mempool, what an operation does *)
(* to the entries, and the hypothesis that the proofs make.                *)
(***************************************************************************)
EXTENDS Mempool

Spends(c, p) == \E o \in Inputs[c] : o[1] = p

-----------------------------------------------------------------------------
(* The entries and their indexes. *)

EntryTypes ==
  /\ pool \subseteq Tx
  /\ parents \in [Tx -> SUBSET Tx] /\ children \in [Tx -> SUBSET Tx]
  /\ mapNextTx \in [Outpoint -> Tx \cup {None}]
  /\ mapSaplingNullifiers \in [Nullifier -> Tx \cup {None}]

(* The links are kept on both sides, and only between a transaction of the *)
(* pool and one that spends from it.                                       *)
LinksAgree ==
  \A x, y \in Tx : /\ y \in children[x] <=> x \in parents[y]
                   /\ y \in children[x] => x \in pool /\ y \in pool /\ Spends(y, x)

EntriesInv == EntryTypes /\ SpendsExact /\ LinksAgree

(* What a step does to the entries, sums aside. *)
Kept == UNCHANGED <<pool, parents, children, mapNextTx, mapSaplingNullifiers>>
Removes(stage) ==
  /\ stage \subseteq pool /\ pool' = pool \ stage
  /\ mapNextTx' = [o \in Outpoint |-> IF o \in Spent(stage) THEN None ELSE mapNextTx[o]]
  /\ mapSaplingNullifiers' = [n \in Nullifier |->
       IF \E t \in stage : n \in Nullifiers[t] THEN None ELSE mapSaplingNullifiers[n]]
  /\ parents' = [t \in Tx |-> IF t \in stage THEN {}
                              ELSE parents[t] \ {r \in stage : t \in children[r]}]
  /\ children' = [t \in Tx |-> IF t \in stage THEN {}
                               ELSE children[t] \ {r \in stage : t \in parents[r]}]
Adds(t) ==
  /\ t \in Tx /\ Acceptable(t) /\ pool' = pool \cup {t}
  /\ mapNextTx' = [o \in Outpoint |->
       IF o \in Inputs[t] /\ mapNextTx[o] = None THEN t ELSE mapNextTx[o]]
  /\ mapSaplingNullifiers' = [n \in Nullifier |->
       IF n \in Nullifiers[t] THEN t ELSE mapSaplingNullifiers[n]]
  /\ parents' = [parents EXCEPT ![t] = MemPoolParents(t)]
  /\ children' = [x \in Tx |-> IF x \in MemPoolParents(t) THEN children[x] \cup {t} ELSE children[x]]
Kids(t) == ({mapNextTx[o] : o \in Outputs({t})} \ {None}) \ Range(vHashUpdate)
Links(t) ==
  /\ t \in pool
  /\ children' = [children EXCEPT ![t] = @ \cup Kids(t)]
  /\ parents' = [x \in Tx |-> IF x \in Kids(t) THEN parents[x] \cup {t} ELSE parents[x]]
  /\ UNCHANGED <<pool, mapNextTx, mapSaplingNullifiers>>

-----------------------------------------------------------------------------
(* Where the thread is. *)

Returning == pc = "readded" \/ (pc = "trim" /\ ret = "readded")

ControlTypes ==
  /\ chain \in Seq(Blocks)
  /\ pc \in {"idle", "limit", "trim", "reorg", "block", "conflict", "readd", "readded", "link", "purge"}
  /\ ret \in {"idle", "readded"} /\ fBlocksDisconnected \in BOOLEAN
  /\ todo \in Seq(Tx) /\ disconnectpool \subseteq Tx /\ vHashUpdate \in Seq(Tx) /\ linkAt \in Nat

Phases ==
  /\ pc \in {"idle", "limit", "purge"} => ~fBlocksDisconnected
  /\ pc = "trim" /\ ret = "idle" => ~fBlocksDisconnected
  /\ pc = "limit" => ret = "idle"
  /\ pc \in {"reorg", "readd", "readded", "link"} => fBlocksDisconnected
  /\ pc = "trim" /\ ret = "readded" => fBlocksDisconnected
  /\ ~fBlocksDisconnected \/ pc = "link" => disconnectpool = {}
  /\ ~(pc \in {"readd", "link"} \/ Returning) => vHashUpdate = << >>
  /\ pc = "link" => linkAt <= Len(vHashUpdate)
  /\ Returning \/ pc = "conflict" => todo # << >>
  /\ pc = "conflict" => Head(todo) \notin pool

FileInv ==
  /\ load \in [at : Nat, given : BOOLEAN, left : SUBSET Tx, done : BOOLEAN]
  /\ \A i \in DOMAIN file.entries : file.entries[i].tx \in Tx
  /\ load.given => load.at \in DOMAIN file.entries

ControlInv == ControlTypes /\ Phases /\ FileInv

(* What has its descendants with it. *)
Closed(D) == D \subseteq pool /\ \A x \in D : children[x] \subseteq D

-----------------------------------------------------------------------------
(* Under the hypothesis below the pool can be mined and its links are      *)
(* complete.  A connected block is worked through transaction by           *)
(* transaction: those left are pending, the other confirmed ones applied.  *)

Left == IF pc \in {"block", "conflict"} THEN todo ELSE << >>
Pending == Range(Left)
Applied == Confirmed \ Pending

(* Transactions put back after a reorganization, and those of them that    *)
(* are not linked yet to their children that stayed in the pool.           *)
Resurrected == Range(vHashUpdate) \cup IF Returning THEN {Head(todo)} ELSE {}
Unlinked == IF pc = "link" THEN {vHashUpdate[i] : i \in 1..linkAt} ELSE Resurrected

(* A transaction is in one block, and spends from that or earlier ones. *)
ChainInv ==
  /\ \A i, j \in DOMAIN chain : \A t \in Tx : t \in Range(chain[i]) /\ t \in Range(chain[j]) => i = j
  /\ \A i \in DOMAIN chain : \A t \in Range(chain[i]) : \A o \in Inputs[t] :
       o[1] \in Coin \/ \E j \in 1..i : o[1] \in Range(chain[j])

(* Nothing spends from a pending transaction but later pending ones. *)
PendingInv ==
  /\ Pending \subseteq Confirmed
  /\ \A t \in Applied : \A o \in Inputs[t] : o[1] \notin Pending
  /\ \A i, j \in DOMAIN Left : i <= j => \A o \in Inputs[Left[i]] : o[1] # Left[j]

(* Pool, chain and disconnected transactions are apart. *)
ApartInv ==
  /\ pool \cap Applied = {} /\ pool \cap CoinBase = {}
  /\ disconnectpool \cap pool = {} /\ disconnectpool \cap Confirmed = {}

(* What was put back spends from the chain or from what was put back       *)
(* before it, and what is still to be put back spends from nothing else in *)
(* the pool.                                                               *)
ReorgInv ==
  /\ Resurrected \subseteq pool
  /\ \A t \in Resurrected : \A o \in Inputs[t] : o[1] \in Resurrected \cup Coin \cup Confirmed
  /\ \A t \in disconnectpool : \A o \in Inputs[t] : o[1] \in pool => o[1] \in Resurrected

(* The links miss only children of transactions that were put back. *)
LinksInv ==
  \A p, c \in pool : Spends(c, p) =>
    c \in children[p] \/ (p \in Unlinked /\ c \notin Resurrected)

(* Every input is in the pool, comes back, or is a coin; the coins and     *)
(* notes are unspent but for pending transactions; the anchors are known.  *)
AvailInv ==
  \A t \in pool :
    /\ \A o \in Inputs[t] :
         \/ o[1] \in pool \cup disconnectpool
         \/ o[1] \in Coin \cup Confirmed /\ \A u \in Applied : o \notin Inputs[u]
    /\ Nullifiers[t] # {} => Anchor[t] \in Anchors
    /\ \A u \in Applied : Nullifiers[t] \cap Nullifiers[u] = {}

(* Outside reorganizations time locks are over and coinbases mature. *)
SettledInv ==
  ~fBlocksDisconnected /\ pc # "purge" =>
    \A t \in pool : CheckFinalTx(t) /\ \A o \in Inputs[t] : ~Immature(o)

(* The hypothesis: the pool never exceeds its limit while transactions of  *)
(* disconnected blocks are put back.                                       *)
ReorgFits == pc = "trim" /\ ret = "readded" => ~(totalTxSize > world.maxmempool)

MinableInv ==
  ChainInv /\ PendingInv /\ ApartInv /\ ReorgInv /\ LinksInv /\ AvailInv /\ SettledInv

(* Transactions are being put back. *)
Back == pc \in {"readd", "link"} \/ Returning

-----------------------------------------------------------------------------
(* What the sums of the entries rest on besides: which operation a step    *)
(* is, in which order transactions come back, and the fee deltas.          *)

(* Nothing put back has other descendants yet. *)
KidsInv == \A x \in Resurrected : children[x] \subseteq Resurrected

(* What was put back last spends from what was put back before. *)
OrderInv ==
  /\ \A i, j \in DOMAIN vHashUpdate : vHashUpdate[i] = vHashUpdate[j] => i = j
  /\ \A i, j \in DOMAIN vHashUpdate : Spends(vHashUpdate[j], vHashUpdate[i]) => i < j
  /\ Returning => /\ Head(todo) \notin Range(vHashUpdate)
                  /\ \A u \in Resurrected : ~Spends(u, Head(todo))

(* The fee delta of an entry is the one in mapDeltas. *)
DeltasInv ==
  /\ feeDelta \in [Tx -> Int] /\ mapDeltas \in [Tx -> Int]
  /\ \A t \in pool : feeDelta[t] = mapDeltas[t]
  /\ \A i \in DOMAIN file.entries : file.entries[i].nFeeDelta \in Int
  /\ file.rest \in [Tx -> Int]

BackInv == OrderInv /\ DeltasInv /\ (pc # "link" => KidsInv)

(* Outside linking a step does one of these to the entries, or nothing:    *)
(* what leaves takes its descendants along or, mined, leaves no parents    *)
(* behind.                                                                 *)
OneOperation ==
  \/ \E D : Closed(D) /\ RemoveStaged(D, FALSE)
  \/ \E D : D \subseteq pool /\ (\A x \in D : parents[x] \subseteq D) /\ RemoveStaged(D, TRUE)
  \/ \E t \in Tx : t \notin pool /\ \E nTime : addUnchecked(t, nTime)
  \/ \E t \in Tx, k \in Int : Prioritise(t, k)
  \/ UNCHANGED entries

(* The steps of UpdateTransactionsFromBlock. *)
Linkings == AllReAdded \/ UpdateTransactionsFromBlock \/ AllLinked
===============================================================================
