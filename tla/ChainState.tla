----------------------------- MODULE ChainState -----------------------------
(***************************************************************************)
(* The block index and the choice of the active chain: blocks and headers  *)
(* arrive in any order, ActivateBestChain moves the tip, RPCs invalidate   *)
(* and reconsider blocks, and the node restarts.                           *)
(*                                                                         *)
(* ActivateBestChain holds m_cs_chainstate while it runs but gives up      *)
(* cs_main between its rounds.  pc says where it is: "idle" (not running), *)
(* "free" (between rounds), and "find", "step" and "end" inside a round,   *)
(* where no other action can happen.  Every other action is a section      *)
(* under cs_main.                                                          *)
(***************************************************************************)
EXTENDS Naturals, FiniteSets

CONSTANTS
  Block, Genesis, Parent,
  ChainWork,      \* nChainWork
  Valid,          \* blocks ConnectBlock accepts
  NonFinal,       \* blocks ContextualCheckBlock rejects
  PoS,            \* proof-of-stake blocks
  MaxReorg,       \* -maxreorg
  Null,
  Addresses,      \* ways the index entries may lie in memory
  InvalidateAt,   \* values of pc at which invalidateblock is called
  Worlds,         \* the blocks there are, and whether RPCs are called
  MaxRestarts,    \* bound: restarts
  MaxInvalidates  \* bound: calls of invalidateblock

\* The blocks that pprev leads to from b, b included.
Anc == [b \in Block |->
  {a \in Block : \A S \in SUBSET Block :
     b \in S /\ (\A x \in S \ {Genesis} : Parent[x] \in S) => a \in S}]
Height(b) == Cardinality(Anc[b]) - 1

ASSUME ChainAssumption ==
  /\ Genesis \in Block /\ Null \notin Block
  /\ Parent \in [Block \ {Genesis} -> Block]
  /\ ChainWork \in [Block -> Nat]
  /\ \A b \in Block \ {Genesis} : ChainWork[Parent[b]] < ChainWork[b]
  /\ Genesis \in Valid /\ Valid \subseteq Block
  /\ NonFinal \subseteq Block \ Valid /\ PoS \subseteq Block
  /\ MaxReorg \in Nat \ {0}
  /\ Addresses \subseteq [Block -> Nat] /\ Addresses # {}
  /\ \A a \in Addresses : \A b, c \in Block : a[b] = a[c] => b = c
  /\ InvalidateAt \subseteq {"idle", "free"}
  /\ Worlds \subseteq [blocks : SUBSET Block, rpcs : BOOLEAN]
  /\ MaxRestarts \in Nat /\ MaxInvalidates \in Nat

VARIABLES
  known,         \* mapBlockIndex
  data,          \* entries with BLOCK_HAVE_DATA
  linked,        \* entries with nChainTx
  unlinked,      \* mapBlocksUnlinked, by the child
  failedValid,   \* BLOCK_FAILED_VALID
  failedChild,   \* BLOCK_FAILED_CHILD
  seq, nextSeq,  \* nSequenceId, nBlockSequenceId
  addr,          \* addresses of the entries
  candidates,    \* setBlockIndexCandidates
  tip,           \* chainActive.Tip()
  savedTip,      \* the best block of the chainstate on disk
  pc,            \* ActivateBestChain
  mostWork,      \* its pindexMostWork, kept from round to round
  startTip,      \* starting_tip of the round
  oldTip,        \* pindexOldTip of the step
  progress,      \* blocks_connected
  due,           \* a call of ActivateBestChain is on its way
  restarts, invalidates,
  world          \* one of Worlds: never changes

index == <<known, data, linked, unlinked>>
failed == <<failedValid, failedChild>>
order == <<seq, nextSeq, addr>>
round == <<pc, mostWork, startTip, oldTip, progress>>
bounds == <<restarts, invalidates, world>>
vars == <<known, data, linked, unlinked, failedValid, failedChild, seq, nextSeq, addr,
          candidates, tip, savedTip, pc, mostWork, startTip, oldTip, progress, due,
          restarts, invalidates, world>>

TypeOK ==
  /\ known \in SUBSET Block /\ data \in SUBSET known /\ linked \in SUBSET data
  /\ unlinked \in SUBSET data
  /\ failedValid \in SUBSET known /\ failedChild \in SUBSET known
  /\ seq \in [Block -> Nat] /\ nextSeq \in Nat /\ addr \in Addresses
  /\ candidates \in SUBSET linked
  /\ tip \in linked /\ savedTip \in linked
  /\ pc \in {"idle", "free", "find", "step", "end"}
  /\ mostWork \in known \cup {Null}
  /\ startTip \in known /\ oldTip \in known
  /\ progress \in BOOLEAN /\ due \in BOOLEAN
  /\ restarts \in 0 .. MaxRestarts /\ invalidates \in 0 .. MaxInvalidates

Failed == failedValid \cup failedChild
Unlocked == pc \in {"idle", "free"}

\* CBlockIndexWorkComparator, for sequence numbers s and addresses m: x sorts
\* before y.
Before(s, m, x, y) ==
  \/ ChainWork[x] < ChainWork[y]
  \/ /\ ChainWork[x] = ChainWork[y]
     /\ s[x] > s[y] \/ (s[x] = s[y] /\ m[x] > m[y])

Worse(x, y) == Before(seq, addr, x, y)

-----------------------------------------------------------------------------
(* Blocks and headers arrive. *)

\* The parent is known and not failed.
GetPrevIndex(b) == Parent[b] \in known \ Failed

\* The block is not too far below the tip; the rules on the header alone (time,
\* version, checkpoints) hold.
ContextualCheckBlockHeader(b) == Height(tip) < Height(b) + MaxReorg

\* A headers message: AcceptBlockHeader adds the entry.
AcceptBlockHeader(b) ==
  /\ Unlocked
  /\ b \notin known
  /\ GetPrevIndex(b) /\ ContextualCheckBlockHeader(b)
  /\ known' = known \cup {b}
  /\ UNCHANGED <<data, linked, unlinked, failed, order, candidates, tip, savedTip, round,
                 due, bounds>>

\* The descendants of b that have data and were waiting for it, b included.
Waiting(b) ==
  {x \in unlinked \cup {b} : b \in Anc[x] /\ \A y \in Anc[x] : b \in Anc[y] => y \in unlinked \cup {b}}

\* Numbers for the blocks of L, parents first.
Numberings(L) ==
  {s \in [L -> nextSeq .. nextSeq + Cardinality(L) - 1] :
     \A x, y \in L : x # y /\ x \in Anc[y] => s[x] < s[y]}

Injective(s) == \A x, y \in DOMAIN s : s[x] = s[y] => x = y

\* Mutant: descendants that were waiting are linked but not made candidates.
ReceivedBlockTransactionsAlone(b) ==
  /\ data' = data \cup {b}
  /\ IF Parent[b] \notin linked
     THEN unlinked' = unlinked \cup {b} /\ UNCHANGED <<linked, seq, nextSeq, candidates>>
     ELSE LET L == Waiting(b) IN
          \E s \in Numberings(L) :
            LET numbered == [x \in Block |-> IF x \in L THEN s[x] ELSE seq[x]] IN
            /\ Injective(s)
            /\ seq' = numbered /\ nextSeq' = nextSeq + Cardinality(L)
            /\ linked' = linked \cup L /\ unlinked' = unlinked \ L
            /\ candidates' = candidates \cup {x \in {b} : ~Before(numbered, addr, x, tip)}

\* ReceivedBlockTransactions: the entry has data; with all its ancestors' data it
\* is linked, and so are the blocks that were waiting for it, each a candidate
\* unless it is worse than the tip.
ReceivedBlockTransactions(b) ==
  /\ data' = data \cup {b}
  /\ IF Parent[b] \notin linked
     THEN unlinked' = unlinked \cup {b} /\ UNCHANGED <<linked, seq, nextSeq, candidates>>
     ELSE LET L == Waiting(b) IN
          \E s \in Numberings(L) :
            LET numbered == [x \in Block |-> IF x \in L THEN s[x] ELSE seq[x]] IN
            /\ Injective(s)
            /\ seq' = numbered /\ nextSeq' = nextSeq + Cardinality(L)
            /\ linked' = linked \cup L /\ unlinked' = unlinked \ L
            /\ candidates' = candidates \cup {x \in L : ~Before(numbered, addr, x, tip)}

\* AcceptBlock on a proof-of-stake block of a fork reads the fork back to the
\* active chain: its blocks are on disk, and fewer than -maxreorg.
ForkAcceptable(b) ==
  b \in PoS /\ Parent[b] # tip =>
    /\ Anc[Parent[b]] \ Anc[tip] \subseteq data /\ Parent[b] \in data
    /\ Cardinality(Anc[Parent[b]] \ Anc[tip]) < MaxReorg

\* AcceptBlock once the header is accepted: a block already stored is accepted
\* again, and a block refused here leaves an entry without data.  A stake that is
\* spent on the active chain is refused when the block extends the tip.
AcceptBlock(b) ==
  \/ /\ b \in data
     /\ due' = TRUE
     /\ UNCHANGED <<data, linked, unlinked, failedValid, seq, nextSeq, candidates>>
  \/ /\ b \in NonFinal \ data
     /\ failedValid' = failedValid \cup {b}
     /\ UNCHANGED <<data, linked, unlinked, seq, nextSeq, candidates, due>>
  \/ /\ b \notin NonFinal \cup data
     /\ ~ForkAcceptable(b) \/ (b \in PoS \ Valid /\ Parent[b] = tip)
     /\ UNCHANGED <<data, linked, unlinked, failedValid, seq, nextSeq, candidates, due>>
  \/ /\ b \notin NonFinal \cup data
     /\ ForkAcceptable(b)
     /\ ReceivedBlockTransactions(b)
     /\ due' = TRUE
     /\ UNCHANGED failedValid

\* ProcessNewBlock on a block that passes CheckBlock; ActivateBestChain is called
\* when it is accepted.
ProcessNewBlock(b) ==
  /\ Unlocked
  /\ GetPrevIndex(b)
  /\ IF b \in known THEN b \notin Failed ELSE ContextualCheckBlockHeader(b)
  /\ known' = known \cup {b}
  /\ AcceptBlock(b)
  /\ UNCHANGED <<failedChild, addr, tip, savedTip, round, bounds>>

\* The block message is for blocks without an entry.  submitblock and the miner
\* hand in others too: submitblock looks at the entry before ProcessNewBlock takes
\* cs_main, and the entry may have changed since.
ReceiveBlock(b) == b \notin known /\ ProcessNewBlock(b)
SubmitBlock(b) == b \in known /\ ProcessNewBlock(b)

-----------------------------------------------------------------------------
(* ActivateBestChain. *)

StartActivate ==
  /\ pc = "idle" /\ due
  /\ pc' = "free" /\ due' = FALSE
  /\ mostWork' = Null
  /\ UNCHANGED <<index, failed, order, candidates, tip, savedTip, startTip, oldTip, progress,
                 bounds>>

\* cs_main is taken for a round.
StartRound ==
  /\ pc = "free"
  /\ pc' = "find"
  /\ startTip' = tip /\ progress' = FALSE
  /\ UNCHANGED <<index, failed, order, candidates, tip, savedTip, mostWork, oldTip, due, bounds>>

BestCandidate == CHOOSE c \in candidates : \A d \in candidates : ~Worse(c, d)

\* Failed blocks between the candidate and the active chain.
FailedOnPath(c) == (Anc[c] \ Anc[tip]) \cap Failed

\* FindMostWorkChain drops the best candidate: the walk down from it meets a
\* failed block, and it and what is above it leave the candidates.
DropCandidate ==
  /\ pc = "find" /\ mostWork = Null
  /\ candidates # {} /\ FailedOnPath(BestCandidate) # {}
  /\ LET c == BestCandidate
         met == CHOOSE x \in FailedOnPath(c) : \A y \in FailedOnPath(c) : y \in Anc[x]
         above == {x \in Anc[c] : met \in Anc[x]}
     IN  /\ candidates' = candidates \ above
         /\ failedChild' = failedChild \cup (above \ {met})
  /\ UNCHANGED <<index, failedValid, order, tip, savedTip, round, due, bounds>>

\* The block to go for: the one of the last round, or the best candidate.
Found == IF mostWork # Null THEN mostWork ELSE IF candidates = {} THEN Null ELSE BestCandidate

\* Mutant: the ancestors of the best candidate are not looked at.
SettledUnchecked == TRUE

Settled == mostWork = Null /\ candidates # {} => FailedOnPath(BestCandidate) = {}

\* There is something to do.
StartStep ==
  /\ pc = "find" /\ Settled
  /\ Found \notin {Null, tip}
  /\ mostWork' = Found
  /\ pc' = "step" /\ oldTip' = tip
  /\ UNCHANGED <<index, failed, order, candidates, tip, savedTip, startTip, progress, due, bounds>>

\* There is not: a round without progress is the last one.
LeaveRound ==
  /\ pc = "find" /\ Settled
  /\ Found \in {Null, tip}
  /\ mostWork' = Found
  /\ pc' = IF progress /\ Found = Null THEN "free" ELSE "idle"
  /\ UNCHANGED <<index, failed, order, candidates, tip, savedTip, startTip, oldTip, progress,
                 due, bounds>>

\* A chainstate flush in the middle of a step saves the tip it has.
Saved == savedTip' \in {savedTip, tip'}

DisconnectTip ==
  /\ pc = "step"
  /\ tip \notin Anc[mostWork]
  /\ tip' = Parent[tip] /\ Saved
  /\ UNCHANGED <<index, failed, order, candidates, round, due, bounds>>

\* The next block towards mostWork.
Following == CHOOSE b \in Anc[mostWork] \ Anc[tip] : Parent[b] = tip

\* PruneBlockIndexCandidates.
Pruned(t) == {c \in candidates : ~Worse(c, t)}

\* ConnectTip succeeds; the step is over when the tip has more work than at its
\* start, or is there.
ConnectTip ==
  /\ pc = "step"
  /\ tip \in Anc[mostWork] /\ tip # mostWork
  /\ Following \in Valid
  /\ tip' = Following /\ Saved
  /\ candidates' = Pruned(tip')
  /\ pc' = IF ChainWork[tip'] > ChainWork[oldTip] \/ tip' = mostWork THEN "end" ELSE "step"
  /\ UNCHANGED <<index, failed, order, mostWork, startTip, oldTip, progress, due, bounds>>

\* Mutant: the invalid block stays a candidate and is not marked.
ConnectTipForgets ==
  /\ pc = "step"
  /\ tip \in Anc[mostWork] /\ tip # mostWork
  /\ Following \notin Valid
  /\ mostWork' = Null /\ pc' = "end"
  /\ UNCHANGED <<index, failed, order, candidates, tip, savedTip, startTip, oldTip, progress, due, bounds>>

\* Mutant: ActivateBestChain gives up at the first invalid block.
ConnectTipGivesUp ==
  /\ pc = "step"
  /\ tip \in Anc[mostWork] /\ tip # mostWork
  /\ Following \notin Valid
  /\ failedValid' = failedValid \cup {Following}
  /\ candidates' = candidates \ {Following}
  /\ mostWork' = Null /\ pc' = "idle"
  /\ UNCHANGED <<index, failedChild, order, tip, savedTip, startTip, oldTip, progress, due, bounds>>

\* ConnectTip meets an invalid block: InvalidBlockFound, and pindexMostWork is
\* looked for again.
ConnectTipInvalid ==
  /\ pc = "step"
  /\ tip \in Anc[mostWork] /\ tip # mostWork
  /\ Following \notin Valid
  /\ failedValid' = failedValid \cup {Following}
  /\ candidates' = candidates \ {Following}
  /\ mostWork' = Null /\ pc' = "end"
  /\ UNCHANGED <<index, failedChild, order, tip, savedTip, startTip, oldTip, progress, due, bounds>>

\* Mutant: cs_main is released after every step.
EndStepReleases ==
  /\ pc = "end" \/ (pc = "step" /\ tip = mostWork)
  /\ progress' = TRUE
  /\ pc' = IF mostWork = tip THEN "idle" ELSE "free"
  /\ UNCHANGED <<index, failed, order, candidates, tip, savedTip, mostWork, startTip, oldTip,
                 due, bounds>>

\* The end of a step: another one under the same lock while the tip is worse than
\* it was, otherwise the round is over, and so is everything once mostWork is the
\* tip.  A step that only disconnects ends here at once.
EndStep ==
  /\ pc = "end" \/ (pc = "step" /\ tip = mostWork)
  /\ progress' = TRUE
  /\ pc' = IF Worse(tip, startTip) THEN "find" ELSE IF mostWork = tip THEN "idle" ELSE "free"
  /\ UNCHANGED <<index, failed, order, candidates, tip, savedTip, mostWork, startTip, oldTip,
                 due, bounds>>

-----------------------------------------------------------------------------
(* RPCs and restarts. *)

Reached(t, fv, fc) == {x \in linked \ (fv \cup fc) : ~Worse(x, t)}

\* invalidateblock: the block and the active blocks above it are marked and
\* disconnected, and the entries that are now as good as the tip are candidates
\* again.  ActivateBestChain is not called.
InvalidateBlock(b) ==
  /\ pc \in InvalidateAt /\ Unlocked
  /\ world.rpcs /\ invalidates < MaxInvalidates
  /\ b \in known \ {Genesis}
  /\ LET gone == {x \in Anc[tip] : b \in Anc[x]}
         fv == failedValid \cup {b}
         fc == failedChild \cup gone
     IN  /\ failedValid' = fv /\ failedChild' = fc
         /\ tip' = IF b \in Anc[tip] THEN Parent[b] ELSE tip
         /\ Saved
         /\ candidates' = (candidates \ (gone \cup {b})) \cup Reached(tip', fv, fc)
  /\ invalidates' = invalidates + 1
  /\ UNCHANGED <<index, order, round, due, restarts, world>>

\* reconsiderblock: descendants and ancestors lose their marks, the descendants
\* better than the tip become candidates.  ActivateBestChain is not called.
ReconsiderBlock(b) ==
  /\ world.rpcs /\ Unlocked
  /\ b \in known
  /\ LET below == {x \in Failed : b \in Anc[x]}
         cleared == below \cup Anc[b]
     IN  /\ cleared \cap Failed # {}
         /\ failedValid' = failedValid \ cleared /\ failedChild' = failedChild \ cleared
         /\ candidates' = candidates \cup {x \in below \cap linked : Worse(tip, x)}
  /\ UNCHANGED <<index, order, tip, savedTip, round, due, bounds>>

NoSeq == [b \in Block |-> 0]

\* LoadBlockIndexDB, then LoadChainTip: sequence numbers are gone, candidates are
\* the valid linked entries, less those worse than the tip.
LoadedCandidates(fc, m) ==
  {x \in linked \ (failedValid \cup fc) : ~Before(NoSeq, m, x, savedTip)}

\* The process ends, having written the block index, and starts again with the
\* chainstate as it was saved.  BLOCK_FAILED_CHILD marks of FindMostWorkChain may
\* not have been written: it does not put their entries in setDirtyBlockIndex.
Restart ==
  /\ ~world.rpcs /\ restarts < MaxRestarts
  /\ restarts' = restarts + 1
  /\ tip' = savedTip
  /\ failedChild' \in SUBSET failedChild
  /\ addr' \in Addresses
  /\ candidates' = LoadedCandidates(failedChild', addr')
  /\ seq' = NoSeq /\ nextSeq' = 1
  /\ pc' = "idle" /\ due' = TRUE
  /\ mostWork' = Null /\ startTip' = savedTip /\ oldTip' = savedTip /\ progress' = FALSE
  /\ UNCHANGED <<index, failedValid, savedTip, invalidates, world>>

\* The chainstate is flushed at the end of ActivateBestChain or at shutdown.
SaveTip ==
  /\ Unlocked /\ savedTip # tip
  /\ savedTip' = tip
  /\ UNCHANGED <<index, failed, order, candidates, tip, round, due, bounds>>

-----------------------------------------------------------------------------
Init ==
  /\ known = {Genesis} /\ data = {Genesis} /\ linked = {Genesis} /\ unlinked = {}
  /\ failedValid = {} /\ failedChild = {}
  /\ seq = [b \in Block |-> IF b = Genesis THEN 1 ELSE 0] /\ nextSeq = 2
  /\ addr \in Addresses
  /\ candidates = {Genesis}
  /\ tip = Genesis /\ savedTip = Genesis
  /\ pc = "idle" /\ mostWork = Null /\ startTip = Genesis /\ oldTip = Genesis
  /\ progress = FALSE /\ due = FALSE
  /\ restarts = 0 /\ invalidates = 0 /\ world \in Worlds

Activate ==
  \/ StartActivate \/ StartRound \/ DropCandidate \/ StartStep \/ LeaveRound
  \/ DisconnectTip \/ ConnectTip \/ ConnectTipInvalid \/ EndStep

Next ==
  \/ \E b \in world.blocks \ {Genesis} :
       AcceptBlockHeader(b) \/ ReceiveBlock(b) \/ SubmitBlock(b)
       \/ InvalidateBlock(b) \/ ReconsiderBlock(b)
  \/ Activate
  \/ SaveTip \/ Restart

Spec == Init /\ [][Next]_vars

\* A call of ActivateBestChain runs to its end.
FairSpec == Spec /\ WF_vars(Activate)

-----------------------------------------------------------------------------
(* Properties. *)

\* CheckBlockIndex: outside cs_main, a block that sorts at least as good as the
\* tip, has all its data and no failed ancestor is a candidate, and every candidate
\* is as good as the tip.  It holds as long as neither RPC is called.
CandidatesExact ==
  ~world.rpcs /\ Unlocked =>
    /\ \A b \in linked : ~Worse(b, tip) /\ Anc[b] \cap failedValid = {} => b \in candidates
    /\ \A b \in candidates : ~Worse(b, tip)

\* No block marked failed is active.
ActiveNotFailed == Unlocked => Anc[tip] \cap Failed = {}

\* Whenever no call of ActivateBestChain is running or on its way, the tip is the
\* best there is: a known block with all its data and more work has a failed
\* ancestor.  The RPCs do not call ActivateBestChain, so it is about the others.
TipIsBest ==
  ~world.rpcs /\ pc = "idle" /\ ~due =>
    \A b \in linked : ChainWork[b] > ChainWork[tip] => Anc[b] \cap Failed # {}

\* "We absolutely may not unlock cs_main until we've made forward progress": a
\* round never ends with a tip that sorts worse than the one it started from.  It
\* needs that one to be a candidate, and reconsiderblock does not see to it.
ProgressBeforeUnlock ==
  [][~world.rpcs /\ ~Unlocked /\ Unlocked' /\ restarts' = restarts
       => ~Worse(tip, startTip)]_vars

\* Every call of ActivateBestChain ends, whatever arrives, is refused or turns out to
\* be invalid in the meantime: without RPCs, as reconsiderblock called for ever makes
\* it try an invalid block for ever.
ActivationEnds == ~world.rpcs /\ pc # "idle" ~> pc = "idle"
=============================================================================
