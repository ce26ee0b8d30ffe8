---------------------------- MODULE BlockDownload ----------------------------
(***************************************************************************)
(* Which blocks are asked of which peer.  The block index, what each peer  *)
(* is known to have, the blocks in flight and the moving download window,  *)
(* all protected by cs_main.  NetProcessing says when the handlers run.    *)
(*                                                                         *)
(* A header is in the index without its block when AcceptBlock fails after *)
(* AcceptBlockHeader without a verdict, or when an earlier session left it *)
(* there.  Times are ages in ticks, half the target spacing each.          *)
(***************************************************************************)
EXTENDS Integers, Sequences, FiniteSets

CONSTANTS
  Peers, None,
  Blocks, Genesis, Prev, Height,
  Unconnectable,    \* blocks that ConnectBlock refuses
  MaxInTransit,     \* MAX_BLOCKS_IN_TRANSIT_PER_PEER
  Window,           \* BLOCK_DOWNLOAD_WINDOW
  StallTimeout,     \* BLOCK_STALLING_TIMEOUT
  BlockTimeout,     \* the 4 of "(4 + nValidatedQueuedBefore)"
  BanScore          \* -banscore, in units of the smallest penalty

Index == Blocks \cup {Genesis}

ASSUME DownloadAssumption ==
  /\ None \notin Peers \cup Index /\ Genesis \notin Blocks
  /\ Prev \in [Blocks -> Index] /\ Height \in [Index -> Nat] /\ Height[Genesis] = 0
  /\ \A b \in Blocks : Height[b] = Height[Prev[b]] + 1
  /\ Unconnectable \subseteq Blocks
  /\ MaxInTransit \in Nat /\ Window \in Nat /\ StallTimeout \in Nat /\ BlockTimeout \in Nat
  /\ BanScore \in Nat \ {0}

VARIABLES
  status,           \* of every block: "none", "header", "data" or "failed"
  tip,              \* chainActive.Tip()
  pindexBestKnownBlock, hashLastUnknownBlock, pindexLastCommonBlock,
  nStallingSince,   \* None, or for how long
  vBlocksInFlight, nBlocksInFlight,
  mapBlocksInFlight,
  queued,           \* of a block in flight: its age and nValidatedQueuedBefore
  nQueuedValidatedHeaders,
  mapBlockSource,
  present,          \* the peers of mapNodeState
  nMisbehavior, fShouldBan

peerBlocks == <<pindexBestKnownBlock, hashLastUnknownBlock, pindexLastCommonBlock>>
flight == <<nStallingSince, vBlocksInFlight, nBlocksInFlight, mapBlocksInFlight, queued,
            nQueuedValidatedHeaders>>
chainVars == <<status, tip, mapBlockSource>>
score == <<nMisbehavior, fShouldBan>>
downloadVars == <<chainVars, peerBlocks, flight, present, score>>

(* The blocks that pprev leads to from b, b included. *)
Chain == [b \in Index |-> {a \in Index : \A S \in SUBSET Index :
  b \in S /\ (\A x \in S \ {Genesis} : Prev[x] \in S) => a \in S}]

Statuses == {"none", "header", "data", "failed"}

DownloadTypeOK ==
  /\ status \in [Index -> Statuses] /\ tip \in Index
  /\ pindexBestKnownBlock \in [Peers -> Index \cup {None}]
  /\ hashLastUnknownBlock \in [Peers -> Blocks \cup {None}]
  /\ pindexLastCommonBlock \in [Peers -> Index \cup {None}]
  /\ nStallingSince \in [Peers -> Nat \cup {None}]
  /\ vBlocksInFlight \in [Peers -> Seq(Blocks)] /\ nBlocksInFlight \in [Peers -> Int]
  /\ mapBlocksInFlight \in [Blocks -> Peers \cup {None}]
  /\ queued \in [Blocks -> [age : Nat, before : Int]]
  /\ nQueuedValidatedHeaders \in Int
  /\ mapBlockSource \in [Blocks -> Peers \cup {None}]
  /\ present \subseteq Peers
  /\ nMisbehavior \in [Peers -> 0..BanScore] /\ fShouldBan \subseteq Peers

Known(b) == status[b] # "none"
InFlight(b) == mapBlocksInFlight[b] # None
HaveChain(st, b) == \A x \in Chain[b] : st[x] = "data"    \* nChainTx
Highest(S) == CHOOSE b \in S : \A x \in S : Height[x] <= Height[b]

(* Misbehaving for a set of peers; a score past the threshold does not     *)
(* count any further.                                                      *)
Misbehaving(S, howmuch) ==
  LET Sum(p) == nMisbehavior[p] + howmuch IN
  /\ nMisbehavior' = [p \in Peers |-> IF p \in S \cap present
       THEN IF Sum(p) < BanScore THEN Sum(p) ELSE BanScore ELSE nMisbehavior[p]]
  /\ fShouldBan' = fShouldBan \cup {p \in S \cap present : nMisbehavior[p] < BanScore /\ Sum(p) >= BanScore}

-----------------------------------------------------------------------------
(* What a peer has. *)

Better(old, b) == IF old = None \/ Height[b] >= Height[old] THEN b ELSE old

(* ProcessBlockAvailability *)
AvailableBest(p) ==
  LET h == hashLastUnknownBlock[p] IN
  IF h # None /\ Known(h)
  THEN Better(pindexBestKnownBlock[p], h) ELSE pindexBestKnownBlock[p]
StillUnknown(p) ==
  LET h == hashLastUnknownBlock[p] IN
  IF h # None /\ Known(h) THEN None ELSE h

UpdateBlockAvailability(p, b) ==
  /\ pindexBestKnownBlock' = [pindexBestKnownBlock EXCEPT
       ![p] = IF Known(b) THEN Better(AvailableBest(p), b) ELSE AvailableBest(p)]
  /\ hashLastUnknownBlock' = [hashLastUnknownBlock EXCEPT
       ![p] = IF Known(b) THEN StillUnknown(p) ELSE b]
  /\ UNCHANGED pindexLastCommonBlock

-----------------------------------------------------------------------------
(* Blocks in flight. *)

Erase(q, b) ==
  LET i == CHOOSE j \in DOMAIN q : q[j] = b IN
  [j \in 1..(Len(q) - 1) |-> IF j < i THEN q[j] ELSE q[j + 1]]

MarkBlockAsReceived(b) ==
  IF InFlight(b)
  THEN LET p == mapBlocksInFlight[b] IN
       /\ mapBlocksInFlight' = [mapBlocksInFlight EXCEPT ![b] = None]
       /\ vBlocksInFlight' = [vBlocksInFlight EXCEPT ![p] = Erase(@, b)]
       /\ nBlocksInFlight' = [nBlocksInFlight EXCEPT ![p] = @ - 1]
       /\ nStallingSince' = [nStallingSince EXCEPT ![p] = None]
       /\ nQueuedValidatedHeaders' = nQueuedValidatedHeaders - 1
       /\ UNCHANGED queued
  ELSE UNCHANGED flight

(* Where the chains part: from the last common block known, or a guess.    *)
LastCommonAncestor(p, best) ==
  LET guess == IF pindexLastCommonBlock[p] # None THEN pindexLastCommonBlock[p]
               ELSE CHOOSE b \in Chain[tip] : Height[b] = IF Height[best] < Height[tip] THEN Height[best] ELSE Height[tip]
  IN Highest(Chain[guess] \cap Chain[best])

(* FindNextBlocksToDownload walks from the last common block towards the   *)
(* peer's best one, and stops at a block that failed, behind the window or *)
(* when it has enough.  common is pindexLastCommonBlock afterwards, take   *)
(* the blocks to ask for, staller the peer that keeps the window from      *)
(* moving.                                                                 *)
FindNextBlocksToDownload(p, best, from) ==
  LET count == MaxInTransit - nBlocksInFlight[p]
      walk == {b \in Chain[best] : Height[from] < Height[b] /\ Height[b] <= Height[from] + Window + 1}
      valid == {b \in walk : \A x \in walk : Height[x] <= Height[b] => status[x] # "failed"}
      missing == {b \in valid : status[b] # "data" /\ ~InFlight(b)}
      within == {b \in missing : Height[b] <= Height[from] + Window}
      Below(b, S) == {x \in S : Height[x] < Height[b]}
      take == {b \in within : Cardinality(Below(b, within)) < count}
      seen == IF Cardinality(within) >= count THEN Below(Highest(take), valid)
              ELSE IF missing # within THEN Below(Highest(missing), valid) ELSE valid
      linked == {b \in seen : HaveChain(status, b)}
      waiting == {b \in seen : status[b] # "data" /\ InFlight(b)}
      waitingfor == IF waiting = {} THEN None
                    ELSE mapBlocksInFlight[CHOOSE b \in waiting : \A x \in waiting : Height[b] <= Height[x]]
  IN [common |-> IF linked = {} THEN from ELSE Highest(linked),
      take |-> take,
      staller |-> IF take = {} /\ missing # within /\ waitingfor # p THEN waitingfor ELSE None]

(* The last part of SendMessages: MarkBlockAsInFlight for each block, in   *)
(* the order of their heights, and the staller is marked.                  *)
Request(p, next) ==
  LET Before(b) == Cardinality({x \in next.take : Height[x] < Height[b]})
      q == [i \in 1..Cardinality(next.take) |-> CHOOSE b \in next.take : Before(b) = i - 1]
  IN
  /\ pindexLastCommonBlock' = [pindexLastCommonBlock EXCEPT ![p] = next.common]
  /\ vBlocksInFlight' = [vBlocksInFlight EXCEPT ![p] = @ \o q]
  /\ nBlocksInFlight' = [nBlocksInFlight EXCEPT ![p] = @ + Len(q)]
  /\ mapBlocksInFlight' = [b \in Blocks |-> IF b \in next.take THEN p ELSE mapBlocksInFlight[b]]
  /\ queued' = [b \in Blocks |-> IF b \in next.take
       THEN [age |-> 0, before |-> nQueuedValidatedHeaders + Before(b)] ELSE queued[b]]
  /\ nQueuedValidatedHeaders' = nQueuedValidatedHeaders + Len(q)
  /\ nStallingSince' =
       IF next.staller # None /\ nBlocksInFlight[p] = 0
       THEN [nStallingSince EXCEPT ![next.staller] = IF @ = None THEN 0 ELSE @] ELSE nStallingSince

RequestBlocks(p) ==
  \E best \in {AvailableBest(p)} :
    /\ pindexBestKnownBlock' = [pindexBestKnownBlock EXCEPT ![p] = best]
    /\ hashLastUnknownBlock' = [hashLastUnknownBlock EXCEPT ![p] = StillUnknown(p)]
    /\ IF best = None \/ Height[best] < Height[tip]
       THEN UNCHANGED <<pindexLastCommonBlock, flight>>    \* nothing interesting
       ELSE \E from \in {LastCommonAncestor(p, best)} :
            \E next \in {FindNextBlocksToDownload(p, best, from)} : Request(p, next)

(* When SendMessages gives up on a peer. *)
Stalled(p) == nStallingSince[p] # None /\ nStallingSince[p] > StallTimeout
Limit(b) == BlockTimeout + queued[b].before
(* Mutant: only a peer that stalls the window can time out. *)
TimedOutStaller(p) ==
  /\ nStallingSince[p] # None /\ vBlocksInFlight[p] # << >>
  /\ queued[Head(vBlocksInFlight[p])].age > Limit(Head(vBlocksInFlight[p]))

TimedOut(p) ==
  vBlocksInFlight[p] # << >> /\ queued[Head(vBlocksInFlight[p])].age > Limit(Head(vBlocksInFlight[p]))

(* Mutant: the entries of mapBlocksInFlight stay. *)
ForgetPeerKeepFlight(p) ==
  /\ vBlocksInFlight' = [vBlocksInFlight EXCEPT ![p] = << >>]
  /\ nBlocksInFlight' = [nBlocksInFlight EXCEPT ![p] = 0]
  /\ nStallingSince' = [nStallingSince EXCEPT ![p] = None]
  /\ pindexBestKnownBlock' = [pindexBestKnownBlock EXCEPT ![p] = None]
  /\ hashLastUnknownBlock' = [hashLastUnknownBlock EXCEPT ![p] = None]
  /\ pindexLastCommonBlock' = [pindexLastCommonBlock EXCEPT ![p] = None]
  /\ present' = present \ {p}
  /\ nMisbehavior' = [nMisbehavior EXCEPT ![p] = 0] /\ fShouldBan' = fShouldBan \ {p}
  /\ UNCHANGED <<mapBlocksInFlight, queued, nQueuedValidatedHeaders, chainVars>>

(* The part of FinalizeNode about blocks; nQueuedValidatedHeaders keeps    *)
(* counting what was in flight.                                            *)
ForgetPeer(p) ==
  /\ mapBlocksInFlight' = [b \in Blocks |->
       IF \E i \in DOMAIN vBlocksInFlight[p] : vBlocksInFlight[p][i] = b THEN None ELSE mapBlocksInFlight[b]]
  /\ vBlocksInFlight' = [vBlocksInFlight EXCEPT ![p] = << >>]
  /\ nBlocksInFlight' = [nBlocksInFlight EXCEPT ![p] = 0]
  /\ nStallingSince' = [nStallingSince EXCEPT ![p] = None]
  /\ pindexBestKnownBlock' = [pindexBestKnownBlock EXCEPT ![p] = None]
  /\ hashLastUnknownBlock' = [hashLastUnknownBlock EXCEPT ![p] = None]
  /\ pindexLastCommonBlock' = [pindexLastCommonBlock EXCEPT ![p] = None]
  /\ present' = present \ {p}
  /\ nMisbehavior' = [nMisbehavior EXCEPT ![p] = 0] /\ fShouldBan' = fShouldBan \ {p}
  /\ UNCHANGED <<queued, nQueuedValidatedHeaders, chainVars>>

(* Time passes.  An age counts up to the limit it is compared with.        *)
Age ==
  /\ queued' = [b \in Blocks |->
       IF InFlight(b) /\ queued[b].age <= Limit(b) THEN [queued[b] EXCEPT !.age = @ + 1] ELSE queued[b]]
  /\ nStallingSince' = [p \in Peers |->
       IF nStallingSince[p] # None /\ ~Stalled(p) THEN nStallingSince[p] + 1 ELSE nStallingSince[p]]
  /\ UNCHANGED <<vBlocksInFlight, nBlocksInFlight, mapBlocksInFlight, nQueuedValidatedHeaders>>

-----------------------------------------------------------------------------
(* The chain, as far as the peer logic sees it.  The verdicts are those of *)
(* CheckBlock and AcceptBlock: "bad" before the header is stored, "late"   *)
(* after it without a verdict on the header, "failed" with one, "good".    *)

Verdicts == {"bad", "late", "failed", "good"}

(* ProcessNewBlock: the block is stored, and the best chain is activated.  *)
(* A block that does not connect is marked, and BlockChecked looks for the *)
(* peer it came from.                                                      *)
Stored(b, v) ==
  IF status[b] \in {"data", "failed"} \/ v = "bad" \/ status[Prev[b]] = "failed" THEN status
  ELSE [status EXCEPT ![b] = CASE v = "late" -> "header" [] v = "failed" -> "failed" [] v = "good" -> "data"]

ProcessNewBlock(b, v) ==
  LET st == Stored(b, v)
      linked == {x \in Index : HaveChain(st, x)}
      higher == {x \in linked : Chain[x] \cap Unconnectable = {} /\ Height[x] > Height[tip]}
      newTip == IF higher = {} THEN tip ELSE Highest(higher)
      refused == {y \in Unconnectable \cap linked :
                    /\ Chain[y] \cap Unconnectable = {y}
                    /\ \E x \in linked : y \in Chain[x] /\ Height[x] > Height[newTip]}
      checked == refused \cup (Chain[newTip] \ Chain[tip])
  IN
  /\ status' = [x \in Index |-> IF x \in refused THEN "failed" ELSE st[x]]
  /\ tip' = newTip
  /\ mapBlockSource' = [x \in Blocks |-> IF x \in checked THEN None ELSE mapBlockSource[x]]
  /\ Misbehaving({mapBlockSource[y] : y \in refused}, BanScore)

DownloadInit(start) ==
  /\ status = start /\ tip = Highest({b \in Index : HaveChain(start, b)})
  /\ pindexBestKnownBlock = [p \in Peers |-> None]
  /\ hashLastUnknownBlock = [p \in Peers |-> None]
  /\ pindexLastCommonBlock = [p \in Peers |-> None]
  /\ nStallingSince = [p \in Peers |-> None]
  /\ vBlocksInFlight = [p \in Peers |-> << >>] /\ nBlocksInFlight = [p \in Peers |-> 0]
  /\ mapBlocksInFlight = [b \in Blocks |-> None]
  /\ queued = [b \in Blocks |-> [age |-> 0, before |-> 0]]
  /\ nQueuedValidatedHeaders = 0
  /\ mapBlockSource = [b \in Blocks |-> None]
  /\ nMisbehavior = [p \in Peers |-> 0] /\ fShouldBan = {}

-----------------------------------------------------------------------------
(* mapBlocksInFlight, the lists and the counts per peer agree, a block is  *)
(* asked of one peer at most, of a peer that exists, and never more than   *)
(* MAX_BLOCKS_IN_TRANSIT_PER_PEER of one; who is said to stall owes a      *)
(* block (MarkBlockAsInFlight, MarkBlockAsReceived, FinalizeNode).         *)
InFlightExact ==
  \A p \in Peers :
    LET q == vBlocksInFlight[p] IN
    /\ nBlocksInFlight[p] = Len(q) /\ Len(q) <= MaxInTransit
    /\ \A b \in Blocks : mapBlocksInFlight[b] = p <=> \E i \in DOMAIN q : q[i] = b
    /\ \A i, j \in DOMAIN q : q[i] = q[j] => i = j
    /\ \A i \in DOMAIN q : Known(q[i])
    /\ q # << >> => p \in present
    /\ nStallingSince[p] # None => q # << >>
=============================================================================
