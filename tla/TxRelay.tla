------------------------------- MODULE TxRelay -------------------------------
(***************************************************************************)
(* How transactions are asked for and what becomes of the ones that come:  *)
(* mapAskFor and mapAlreadyAskedFor, the orphans and the filter of recent  *)
(* rejections.  The memory pool is a set here; module Mempool has it in    *)
(* full.  Times count down to the moment of the request.                   *)
(***************************************************************************)
EXTENDS BlockDownload

CONSTANTS
  Txs, Parents,
  BlockTxs,         \* the transactions of a block
  Refused,          \* not accepted, and nobody is punished
  Punished,         \* not accepted, and the sender is banned
  Big,              \* over the size AddOrphanTx takes
  MaxOrphans,       \* -maxorphantx
  MapAskForMax,     \* MAPASKFOR_MAX_SZ
  Retry             \* two minutes

ASSUME RelayAssumption ==
  /\ Parents \in [Txs -> SUBSET Txs] /\ BlockTxs \in [Index -> SUBSET Txs]
  /\ Refused \cup Punished \cup Big \subseteq Txs /\ None \notin Txs
  /\ IsFiniteSet(Txs) /\ MaxOrphans \in Nat /\ MapAskForMax \in Nat /\ Retry \in Nat \ {0}

VARIABLES
  pool,
  mapAlreadyAskedFor,       \* None, or the time left (negative: the time since)
  mapAskFor,                \* of a peer: the entries, each a transaction and the time left
  asked,                    \* of a peer: the getdata it has not answered
  mapOrphanTransactions,    \* None, or the peer it came from
  mapOrphanTransactionsByPrev,
  recentRejects, hashRecentRejectsChainTip,
  loop                      \* the locals of the TX handler

asking == <<mapAlreadyAskedFor, mapAskFor, asked>>
orphanVars == <<mapOrphanTransactions, mapOrphanTransactionsByPrev>>
rejectVars == <<recentRejects, hashRecentRejectsChainTip>>
relayVars == <<pool, asking, orphanVars, rejectVars, loop>>

NoLoop == [work |-> << >>, todo |-> {}, erase |-> {}, setMisbehaving |-> {}]
Orphans == {t \in Txs : mapOrphanTransactions[t] # None}
ConfirmedBy(b) == UNION {BlockTxs[x] : x \in Chain[b]}
Confirmed == ConfirmedBy(tip)

RelayTypeOK ==
  /\ pool \subseteq Txs
  /\ mapAlreadyAskedFor \in [Txs -> Int \cup {None}]
  /\ mapAskFor \in [Peers -> Seq([tx : Txs, in : Nat])] /\ asked \in [Peers -> SUBSET Txs]
  /\ mapOrphanTransactions \in [Txs -> Peers \cup {None}]
  /\ mapOrphanTransactionsByPrev \in [Txs -> SUBSET Txs]
  /\ recentRejects \subseteq Txs /\ hashRecentRejectsChainTip \in Index \cup {None}
  /\ loop \in [work : Seq(Txs), todo : SUBSET Txs, erase : SUBSET Txs, setMisbehaving : SUBSET Peers]

-----------------------------------------------------------------------------
(* AlreadyHave; the filter is emptied first when the tip has changed.      *)
Rejects == IF tip # hashRecentRejectsChainTip THEN {} ELSE recentRejects
AlreadyHave(t) == t \in Rejects \cup pool \cup Confirmed \cup Orphans
RefreshRejects == recentRejects' = Rejects /\ hashRecentRejectsChainTip' = tip

(* CNode::AskFor *)
AskFor(p, t) ==
  LET in == IF mapAlreadyAskedFor[t] = None \/ mapAlreadyAskedFor[t] + Retry < 0 THEN 0
            ELSE mapAlreadyAskedFor[t] + Retry
  IN IF Len(mapAskFor[p]) > MapAskForMax THEN UNCHANGED asking
     ELSE /\ mapAlreadyAskedFor' = [mapAlreadyAskedFor EXCEPT ![t] = in]
          /\ mapAskFor' = [mapAskFor EXCEPT ![p] = Append(@, [tx |-> t, in |-> in])]
          /\ UNCHANGED asked

(* An inv of a transaction. *)
TxAnnounced(p, t) ==
  /\ RefreshRejects
  /\ IF AlreadyHave(t) THEN UNCHANGED asking ELSE AskFor(p, t)

(* Mutant: what another peer was asked for is not asked for again. *)
RequestTxsOnce(p) ==
  LET Due(e) == e.in = 0
      Later(e) == e.in # 0
      due == SelectSeq(mapAskFor[p], Due)
      txs == {due[i].tx : i \in DOMAIN due} \ UNION {asked[x] : x \in Peers}
  IN /\ mapAskFor' = [mapAskFor EXCEPT ![p] = SelectSeq(@, Later)]
     /\ asked' = [asked EXCEPT ![p] = @ \cup {t \in txs : ~AlreadyHave(t)}]
     /\ IF txs = {} THEN UNCHANGED rejectVars ELSE RefreshRejects
     /\ UNCHANGED mapAlreadyAskedFor

(* The end of SendMessages: every entry that is due is asked for, unless   *)
(* the transaction has come meanwhile.                                     *)
RequestTxs(p) ==
  LET Due(e) == e.in = 0
      Later(e) == e.in # 0
      due == SelectSeq(mapAskFor[p], Due)
      txs == {due[i].tx : i \in DOMAIN due}
  IN /\ mapAskFor' = [mapAskFor EXCEPT ![p] = SelectSeq(@, Later)]
     /\ asked' = [asked EXCEPT ![p] = @ \cup {t \in txs : ~AlreadyHave(t)}]
     /\ IF txs = {} THEN UNCHANGED rejectVars ELSE RefreshRejects
     /\ UNCHANGED mapAlreadyAskedFor

(* Time passes. *)
CountDown ==
  /\ mapAlreadyAskedFor' = [t \in Txs |->
       IF mapAlreadyAskedFor[t] = None \/ mapAlreadyAskedFor[t] <= -Retry THEN mapAlreadyAskedFor[t]
       ELSE mapAlreadyAskedFor[t] - 1]
  /\ mapAskFor' = [p \in Peers |-> [i \in DOMAIN mapAskFor[p] |->
       [mapAskFor[p][i] EXCEPT !.in = IF @ = 0 THEN 0 ELSE @ - 1]]]
  /\ UNCHANGED asked

-----------------------------------------------------------------------------
(* Orphans. *)

AddOrphanTx(m, p, t) == IF m[t] # None \/ t \in Big THEN m ELSE [m EXCEPT ![t] = p]

(* LimitOrphanTxSize evicts orphans at random: what may be left.           *)
LimitOrphanTxSize(m) ==
  LET all == {t \in Txs : m[t] # None}
      n == Cardinality(all) IN
  {[t \in Txs |-> IF t \in S THEN None ELSE m[t]] :
     S \in {X \in SUBSET all : Cardinality(X) = IF n > MaxOrphans THEN n - MaxOrphans ELSE 0}}

(* Every insertion into and erasure from mapOrphanTransactions is followed *)
(* by the same of the index by previous transaction.                       *)
SetOrphans(m) ==
  /\ mapOrphanTransactions' = m
  /\ mapOrphanTransactionsByPrev' = [x \in Txs |->
       (mapOrphanTransactionsByPrev[x]
          \ {t \in Orphans : m[t] = None /\ x \in Parents[t]})
       \cup {t \in Txs \ Orphans : m[t] # None /\ x \in Parents[t]}]

(* Mutant: the index by previous transaction is forgotten. *)
EraseOrphansKeepIndex(S) ==
  /\ mapOrphanTransactions' = [t \in Txs |-> IF t \in S THEN None ELSE mapOrphanTransactions[t]]
  /\ UNCHANGED mapOrphanTransactionsByPrev

EraseOrphans(S) == SetOrphans([t \in Txs |-> IF t \in S THEN None ELSE mapOrphanTransactions[t]])

-----------------------------------------------------------------------------
(* The TX handler, under cs_main from end to end. *)

fMissingInputs(t) == t \notin pool \cup Confirmed /\ ~(Parents[t] \subseteq pool \cup Confirmed)
Acceptable(t) ==
  t \notin pool \cup Confirmed \cup Refused \cup Punished /\ Parents[t] \subseteq pool \cup Confirmed

TxArrives(p, t) ==
  /\ mapAlreadyAskedFor' = [mapAlreadyAskedFor EXCEPT ![t] = None]
  /\ asked' = [asked EXCEPT ![p] = @ \ {t}]
  /\ UNCHANGED <<mapAskFor, hashRecentRejectsChainTip>>
  /\ \/ /\ Acceptable(t)
        /\ pool' = pool \cup {t}
        /\ loop' = [NoLoop EXCEPT !.work = <<t>>]
        /\ UNCHANGED <<orphanVars, recentRejects, score>>
     \/ /\ fMissingInputs(t)
        /\ \E m \in LimitOrphanTxSize(AddOrphanTx(mapOrphanTransactions, p, t)) : SetOrphans(m)
        /\ UNCHANGED <<pool, loop, recentRejects, score>>
     \/ /\ ~Acceptable(t) /\ ~fMissingInputs(t)
        /\ recentRejects' = IF t \in pool THEN recentRejects ELSE recentRejects \cup {t}
        /\ Misbehaving(IF t \in Punished THEN {p} ELSE {}, BanScore)
        /\ UNCHANGED <<pool, loop, orphanVars>>

(* The next transaction of vWorkQueue. *)
NextWork ==
  /\ loop.todo = {} /\ loop.work # << >>
  /\ loop' = [loop EXCEPT !.todo = mapOrphanTransactionsByPrev[Head(loop.work)], !.work = Tail(@)]
  /\ UNCHANGED <<pool, asking, orphanVars, rejectVars, score>>

(* One orphan that spends it. *)
TryOrphan(o) ==
  LET fromPeer == mapOrphanTransactions[o] IN
  /\ o \in loop.todo
  /\ \/ /\ fromPeer \in loop.setMisbehaving \/ fMissingInputs(o)
        /\ loop' = [loop EXCEPT !.todo = @ \ {o}]
        /\ UNCHANGED <<pool, recentRejects, score>>
     \/ /\ fromPeer \notin loop.setMisbehaving /\ Acceptable(o)
        /\ pool' = pool \cup {o}
        /\ loop' = [loop EXCEPT !.todo = @ \ {o}, !.work = Append(@, o), !.erase = @ \cup {o}]
        /\ UNCHANGED <<recentRejects, score>>
     \/ /\ fromPeer \notin loop.setMisbehaving /\ ~Acceptable(o) /\ ~fMissingInputs(o)
        /\ recentRejects' = recentRejects \cup {o}
        /\ LET guilty == IF o \in Punished THEN {fromPeer} ELSE {} IN
           /\ Misbehaving(guilty, BanScore)
           /\ loop' = [loop EXCEPT !.todo = @ \ {o}, !.erase = @ \cup {o}, !.setMisbehaving = @ \cup guilty]
        /\ UNCHANGED pool
  /\ UNCHANGED <<asking, orphanVars, hashRecentRejectsChainTip>>

(* vEraseQueue *)
EndOfWork ==
  /\ loop.todo = {} /\ loop.work = << >>
  /\ EraseOrphans(loop.erase)
  /\ loop' = NoLoop
  /\ UNCHANGED <<pool, asking, rejectVars, score>>

(* A block is connected or disconnected. *)
TipMoves == pool' = (pool \cup Confirmed) \ ConfirmedBy(tip')

RelayInit ==
  /\ pool = {} /\ mapAlreadyAskedFor = [t \in Txs |-> None]
  /\ mapAskFor = [p \in Peers |-> << >>] /\ asked = [p \in Peers |-> {}]
  /\ mapOrphanTransactions = [t \in Txs |-> None]
  /\ mapOrphanTransactionsByPrev = [t \in Txs |-> {}]
  /\ recentRejects = {} /\ hashRecentRejectsChainTip = None
  /\ loop = NoLoop
=============================================================================
