------------------------------ MODULE CoinsDB ------------------------------
(***************************************************************************)
(* The chainstate database across flushes, crashes and restarts:           *)
(* CCoinsViewDB::BatchWrite, which writes pcoinsTip in several LevelDB     *)
(* batches, FlushStateToDisk around it, and ReplayBlocks and LoadChainTip, *)
(* which bring the node up again from whatever a crash left behind.        *)
(*                                                                         *)
(* The blocks are a fixed tree.  A coin is the block that created it: two  *)
(* branches may create the same output at different heights.  Batches are  *)
(* arbitrary sets of entries, since the map is unordered and the batch     *)
(* size is counted in bytes.  The shielded state is the set of the blocks  *)
(* with shielded data that have been applied to it.                        *)
(***************************************************************************)
EXTENDS Naturals, FiniteSets

CONSTANTS
  Block, Genesis,    \* the block tree ...
  Parent,            \* ... and pprev, for every block but Genesis
  Outpoint,
  Creates, Spends,   \* the outputs a block creates and those its inputs spend
  Shielded,          \* blocks with shielded data
  Spent, Absent, Null,
  UtxoAt,            \* the unspent coins after a block
  ShieldedAt,        \* the shielded blocks up to a block
  FreshDatabase,     \* the node starts with an empty chainstate
  DirectFlush,       \* the dashboard and GetEligableStakeAmount are in use
  WriteErrors        \* LevelDB writes may fail

\* One block applied to, and taken from, a map of coins.  An output created and
\* spent in one block ends up spent; undo data holds the coins as they were.
ConnectCoins(u, b) ==
  [o \in Outpoint |-> IF o \in Spends[b] THEN Spent
                      ELSE IF o \in Creates[b] THEN b ELSE u[o]]

\* Mutant: the undo restores inputs but leaves the outputs of the block.
DisconnectCoinsKeepsOutputs(u, b) ==
  [o \in Outpoint |-> IF o \in Spends[b] THEN UtxoAt[Parent[b]][o] ELSE u[o]]

DisconnectCoins(u, b) ==
  [o \in Outpoint |-> IF o \in Creates[b] THEN Spent
                      ELSE IF o \in Spends[b] THEN UtxoAt[Parent[b]][o] ELSE u[o]]

Touched(b) == Creates[b] \cup Spends[b]

ASSUME TreeAssumption ==
  /\ Genesis \in Block
  /\ Parent \in [Block \ {Genesis} -> Block]
  /\ Creates \in [Block -> SUBSET Outpoint]
  /\ Spends \in [Block -> SUBSET Outpoint]
  /\ Shielded \subseteq Block \ {Genesis}
  /\ Spent \notin Block /\ Absent \notin Block \cup {Spent} /\ Null \notin Block
  /\ FreshDatabase \in BOOLEAN /\ DirectFlush \in BOOLEAN /\ WriteErrors \in BOOLEAN

\* UtxoAt and ShieldedAt are what connecting the blocks one by one gives, and no
\* block creates an output that is still unspent (BIP34).
ASSUME StateAssumption ==
  /\ UtxoAt \in [Block -> [Outpoint -> Block \cup {Spent}]]
  /\ UtxoAt[Genesis] = [o \in Outpoint |-> Spent]
  /\ Creates[Genesis] = {} /\ Spends[Genesis] = {}
  /\ ShieldedAt \in [Block -> SUBSET Block]
  /\ ShieldedAt[Genesis] = {}
  /\ \A b \in Block \ {Genesis} :
       /\ UtxoAt[b] = ConnectCoins(UtxoAt[Parent[b]], b)
       /\ ShieldedAt[b] = ShieldedAt[Parent[b]] \cup ({b} \cap Shielded)
       /\ b \notin ShieldedAt[Parent[b]]
       /\ \A o \in Creates[b] : UtxoAt[Parent[b]][o] = Spent

\* The block and its ancestors: what pprev leads to from it.
Chain == [b \in Block |->
  {a \in Block : \A S \in SUBSET Block :
     b \in S /\ (\A x \in S \ {Genesis} : Parent[x] \in S) => a \in S}]

VARIABLES
  mode,       \* "run", "flush", "stop", "replay", "down" or "failed"
  index,      \* mapBlockIndex, and ...
  undo,       \* ... the blocks in it whose nUndoPos is set
  diskIndex, diskUndo,   \* the same in the block index database
  tip,        \* the block pcoinsTip stands for; the block replay has reached
  cache,      \* the dirty coins of pcoinsTip, or of the cache of ReplayBlocks
  shielded,   \* the shielded state pcoinsTip, or that cache, answers
  dbCoins, dbShielded,   \* coin records, shielded records
  dbBest,     \* DB_BEST_BLOCK
  dbHeads,    \* DB_HEAD_BLOCKS: <<new, old>>, or <<>>
  pending,    \* outpoints BatchWrite has still to write
  caller,     \* who called Flush: the node, PrepareShutdown, the GUI, or replay
  flushes,    \* flushes PrepareShutdown has still to do
  loss        \* history: entries were "lost" by a failed write, then "committed"

mem == <<index, undo, tip, cache, shielded>>
disk == <<diskIndex, diskUndo>>
db == <<dbCoins, dbShielded, dbBest, dbHeads>>
vars == <<mode, index, undo, diskIndex, diskUndo, tip, cache, shielded,
          dbCoins, dbShielded, dbBest, dbHeads, pending, caller, flushes, loss>>

Coins == Block \cup {Spent}
NoCache == [o \in Outpoint |-> Absent]

TypeOK ==
  /\ mode \in {"run", "flush", "stop", "replay", "down", "failed"}
  /\ index \in SUBSET Block /\ undo \in SUBSET Block
  /\ diskIndex \in SUBSET Block /\ diskUndo \in SUBSET Block
  /\ tip \in Block
  /\ cache \in [Outpoint -> Coins \cup {Absent}]
  /\ shielded \in SUBSET Block
  /\ dbCoins \in [Outpoint -> Coins]
  /\ dbShielded \in SUBSET Block
  /\ dbBest \in Block \cup {Null}
  /\ dbHeads \in {<<>>} \cup (Block \X (Block \cup {Null}))
  /\ pending \in SUBSET Outpoint
  /\ caller \in {"node", "shutdown", "gui", "replay"}
  /\ flushes \in 0 .. 2
  /\ loss \in {"none", "lost", "committed"}

Dirty == {o \in Outpoint : cache[o] # Absent}

\* What the cache answers.
View == [o \in Outpoint |-> IF o \in Dirty THEN cache[o] ELSE dbCoins[o]]

\* The cache after an operation that leaves `coins' in the view, having written
\* the entries of block b.
Written(coins, b) == [o \in Outpoint |-> IF o \in Touched(b) THEN coins[o] ELSE cache[o]]

-----------------------------------------------------------------------------
(* The running node. *)

\* AcceptBlock: the block is on disk and in mapBlockIndex.
AcceptBlock(b) ==
  /\ mode = "run"
  /\ b \notin index /\ Parent[b] \in index
  /\ index' = index \cup {b}
  /\ UNCHANGED <<mode, undo, disk, tip, cache, shielded, db, pending, caller, flushes, loss>>

\* ConnectTip: the inputs exist and the shielded tree has the root the header
\* names, which it has when all earlier blocks are in it.
ConnectTip(b) ==
  /\ mode = "run"
  /\ b \in index \ {Genesis} /\ Parent[b] = tip
  /\ \A o \in Spends[b] \ Creates[b] : View[o] # Spent
  /\ shielded = ShieldedAt[tip]
  /\ tip' = b
  /\ cache' = Written(ConnectCoins(View, b), b)
  /\ shielded' = shielded \cup ({b} \cap Shielded)
  /\ undo' = undo \cup {b}
  /\ UNCHANGED <<mode, index, disk, db, pending, caller, flushes, loss>>

\* DisconnectTip: the undo must be clean.
DisconnectTip ==
  /\ mode = "run"
  /\ tip # Genesis /\ tip \in undo
  /\ \A o \in Creates[tip] \ Spends[tip] : View[o] = tip
  /\ \A o \in Spends[tip] : View[o] = Spent
  /\ tip' = Parent[tip]
  /\ cache' = Written(DisconnectCoins(View, tip), tip)
  /\ shielded' = shielded \ {tip}
  /\ UNCHANGED <<mode, index, undo, disk, db, pending, caller, flushes, loss>>

\* FlushStateToDisk, when only the block index is due.
PeriodicWrite ==
  /\ mode = "run"
  /\ diskIndex' = index /\ diskUndo' = undo
  /\ UNCHANGED <<mode, mem, db, pending, caller, flushes, loss>>

\* AbortNode, or a shutdown the user asks for: PrepareShutdown flushes twice.
StartShutdown ==
  /\ mode = "run"
  /\ mode' = "stop"
  /\ flushes' = 2
  /\ UNCHANGED <<mem, disk, db, pending, caller, loss>>

BeginBatchWrite(who) ==
  /\ mode' = "flush"
  /\ caller' = who
  /\ pending' = Dirty

\* Mutant: the chainstate is flushed without the block index.
FlushStateToDiskNoIndex ==
  /\ \/ mode = "run" /\ BeginBatchWrite("node") /\ UNCHANGED flushes
     \/ mode = "stop" /\ flushes > 0 /\ BeginBatchWrite("shutdown") /\ flushes' = flushes - 1
  /\ UNCHANGED <<mem, disk, db, loss>>

\* FlushStateToDisk with a full flush: block files and block index first, then
\* pcoinsTip->Flush() begins.
FlushStateToDisk ==
  /\ \/ mode = "run" /\ BeginBatchWrite("node") /\ UNCHANGED flushes
     \/ mode = "stop" /\ flushes > 0 /\ BeginBatchWrite("shutdown") /\ flushes' = flushes - 1
  /\ diskIndex' = index /\ diskUndo' = undo
  /\ UNCHANGED <<mem, db, loss>>

\* pcoinsTip->Flush() called by the dashboard and by GetEligableStakeAmount.
FlushDirectly ==
  /\ DirectFlush
  /\ mode = "run"
  /\ BeginBatchWrite("gui")
  /\ UNCHANGED <<mem, disk, db, flushes, loss>>

-----------------------------------------------------------------------------
(* CCoinsViewDB::BatchWrite. *)

\* The block the database comes from: its best block, or the old head when it is
\* in the middle of a transition.
OldTip == IF dbBest = Null /\ dbHeads # <<>> THEN dbHeads[2] ELSE dbBest

\* BatchWrite asserts that a transition it continues goes to the same block.
SameTransition == dbBest = Null /\ dbHeads # <<>> => dbHeads[1] = tip

WriteCoins(S) == [o \in Outpoint |-> IF o \in S THEN cache[o] ELSE dbCoins[o]]

\* A batch is full and is written; the first one marks the transition.
WritePartial(S) ==
  /\ mode = "flush" /\ SameTransition
  /\ S # {}
  /\ dbCoins' = WriteCoins(S)
  /\ dbBest' = Null
  /\ dbHeads' = <<tip, OldTip>>
  /\ pending' = pending \ S
  /\ UNCHANGED <<mode, mem, disk, dbShielded, caller, flushes, loss>>

AfterFlush == IF caller # "shutdown" THEN "run" ELSE IF flushes = 0 THEN "down" ELSE "stop"

\* The last batch: the rest of the coins, the shielded records, and the mark.
WriteFinal ==
  /\ mode = "flush" /\ SameTransition
  /\ dbCoins' = WriteCoins(pending)
  /\ dbShielded' = shielded
  /\ dbBest' = tip
  /\ dbHeads' = <<>>
  /\ pending' = {}
  /\ cache' = NoCache
  /\ mode' = AfterFlush
  /\ loss' = IF loss = "none" THEN "none" ELSE "committed"
  /\ UNCHANGED <<index, undo, tip, shielded, disk, caller, flushes>>

\* WriteBatch throws.  The entries of all batches so far, the failed one
\* included, are gone from the map, those not reached yet are still there; the
\* shielded entries are gone when the last batch fails.
\* FlushStateToDisk catches the exception, and calls AbortNode; in replay and in
\* the GUI it ends the process.
WriteFails(S) ==
  /\ WriteErrors
  /\ mode = "flush" /\ SameTransition
  /\ cache' = [o \in Outpoint |-> IF o \in pending \ S THEN cache[o] ELSE Absent]
  /\ shielded' \in {shielded} \cup (IF S = pending THEN {dbShielded} ELSE {})
  /\ pending' = {}
  /\ \/ caller = "node" /\ mode' = "stop" /\ flushes' = 2
     \/ caller = "shutdown" /\ mode' = AfterFlush /\ UNCHANGED flushes
     \/ caller \in {"gui", "replay"} /\ mode' = "down" /\ UNCHANGED flushes
  /\ loss' = IF loss = "committed" THEN loss ELSE IF mode' = "down" THEN "none" ELSE "lost"
  /\ UNCHANGED <<index, undo, tip, disk, db, caller>>

\* The process dies: what is in memory is lost.
Crash ==
  /\ mode \in {"run", "flush", "stop", "replay"}
  /\ mode' = "down"
  /\ cache' = NoCache
  /\ pending' = {}
  /\ loss' = IF loss = "committed" THEN loss ELSE "none"
  /\ UNCHANGED <<index, undo, tip, shielded, disk, db, caller, flushes>>

-----------------------------------------------------------------------------
(* Starting up. *)

\* LoadBlockIndex, then LoadChainTip, on a database in a consistent state.  With
\* an empty chainstate only the genesis block may be known: it is connected.
Start ==
  /\ mode = "down"
  /\ dbHeads = <<>>
  /\ index' = diskIndex \cup {Genesis} /\ undo' = diskUndo
  /\ cache' = NoCache
  /\ shielded' = dbShielded
  /\ IF dbBest = Null
     THEN /\ tip' = Genesis
          /\ mode' = IF index' = {Genesis} THEN "run" ELSE "failed"
     ELSE /\ tip' = dbBest
          /\ mode' = IF dbBest \in index' THEN "run" ELSE "failed"
  /\ UNCHANGED <<disk, db, pending, caller, flushes, loss>>

\* ReplayBlocks finds the two heads; the old one is null when the first flush
\* was interrupted.
StartReplay ==
  /\ mode = "down"
  /\ dbHeads # <<>>
  /\ index' = diskIndex \cup {Genesis} /\ undo' = diskUndo
  /\ cache' = NoCache
  /\ shielded' = dbShielded
  /\ tip' = IF dbHeads[2] = Null THEN Genesis ELSE dbHeads[2]
  /\ mode' = IF dbHeads[1] \in index' /\ dbHeads[2] \in index' \cup {Null}
             THEN "replay" ELSE "failed"
  /\ UNCHANGED <<disk, db, pending, caller, flushes, loss>>

\* Rollback along the old branch: a DISCONNECT_UNCLEAN result is accepted, and the
\* genesis block, which is on every branch, is never disconnected.
ReplayBack ==
  /\ mode = "replay"
  /\ tip # Genesis /\ tip \notin Chain[dbHeads[1]]
  /\ IF tip \in undo
     THEN /\ tip' = Parent[tip]
          /\ cache' = Written(DisconnectCoins(View, tip), tip)
          /\ shielded' = shielded \ {tip}
          /\ mode' = "replay"
     ELSE /\ mode' = "failed"
          /\ UNCHANGED <<tip, cache, shielded>>
  /\ UNCHANGED <<index, undo, disk, db, pending, caller, flushes, loss>>

\* Mutant: roll forward adds the outputs and forgets the inputs.
RollforwardCoinsAddsOnly(u, b) ==
  [o \in Outpoint |-> IF o \in Creates[b] THEN b ELSE u[o]]

RollforwardCoins(u, b) == ConnectCoins(u, b)

\* RollforwardBlock applies the transparent part of the next block only.
ReplayForward(b) ==
  /\ mode = "replay"
  /\ tip \in Chain[dbHeads[1]]
  /\ b \in Chain[dbHeads[1]] \ {Genesis} /\ Parent[b] = tip
  /\ tip' = b
  /\ cache' = Written(RollforwardCoins(View, b), b)
  /\ UNCHANGED <<mode, index, undo, shielded, disk, db, pending, caller, flushes, loss>>

\* SetBestBlock and cache.Flush(); LoadChainTip then takes the same tip.
ReplayDone ==
  /\ mode = "replay"
  /\ tip = dbHeads[1]
  /\ BeginBatchWrite("replay")
  /\ UNCHANGED <<mem, disk, db, flushes, loss>>

-----------------------------------------------------------------------------
Init ==
  /\ mode = "down"
  /\ index = {Genesis} /\ undo = {}
  /\ diskIndex = (IF FreshDatabase THEN {} ELSE {Genesis}) /\ diskUndo = {}
  /\ tip = Genesis
  /\ cache = NoCache
  /\ shielded = {}
  /\ dbCoins = UtxoAt[Genesis]
  /\ dbShielded = {}
  /\ dbBest = (IF FreshDatabase THEN Null ELSE Genesis)
  /\ dbHeads = <<>>
  /\ pending = {}
  /\ caller = "node"
  /\ flushes = 0
  /\ loss = "none"

Next ==
  \/ \E b \in Block \ {Genesis} : AcceptBlock(b) \/ ConnectTip(b) \/ ReplayForward(b)
  \/ DisconnectTip
  \/ PeriodicWrite \/ StartShutdown \/ FlushStateToDisk \/ FlushDirectly
  \/ \E S \in SUBSET pending : WritePartial(S) \/ WriteFails(S)
  \/ WriteFinal
  \/ Crash
  \/ Start \/ StartReplay \/ ReplayBack \/ ReplayDone

Spec == Init /\ [][Next]_vars

-----------------------------------------------------------------------------
(* Properties. *)

\* In between batches every coin record is the old or the new block's: what makes
\* ReplayBlocks sound, "both writing a UTXO and deleting a UTXO are idempotent".
TransitionIsMixture ==
  dbHeads # <<>> =>
    \A o \in Outpoint :
      dbCoins[o] \in {UtxoAt[dbHeads[1]][o],
                      UtxoAt[IF dbHeads[2] = Null THEN Genesis ELSE dbHeads[2]][o]}

\* A database that names a best block holds exactly the coins unspent after that
\* block, whenever the process died, replays that were interrupted included.
BestBlockNamesCoins == dbBest # Null => dbCoins = UtxoAt[dbBest]

\* A failed write by itself damages nothing: only a later flush that completes, as
\* PrepareShutdown's does, can make the database name a block whose coins it does
\* not hold.  A crash instead of that flush is always recovered from.
FailedWriteIsRecoverable ==
  loss # "committed" => BestBlockNamesCoins /\ TransitionIsMixture

\* Only entries of the cache wait to be written, and only during BatchWrite.
PendingInv ==
  /\ pending \subseteq Dirty
  /\ mode # "flush" => pending = {}
  /\ mode = "replay" => dbHeads # <<>>

\* The inductive invariant behind them: while nothing was lost for good, the
\* dirty entries are the tip's coins, and so is every record that is not waiting
\* to be written; during replay a coin is the one of the block reached or of the
\* new head.
CoinsInv ==
  loss # "committed" =>
    /\ BestBlockNamesCoins
    /\ TransitionIsMixture
    /\ dbBest = Null /\ dbHeads = <<>> => dbCoins = UtxoAt[Genesis]
    /\ loss = "lost" => mode \in {"stop", "flush"}
    /\ mode \in {"run", "stop", "flush"} =>
         /\ \A o \in Dirty : cache[o] = UtxoAt[tip][o]
         /\ loss = "none" => \A o \in Outpoint \ Dirty : dbCoins[o] = UtxoAt[tip][o]
    /\ mode = "flush" /\ loss = "none" =>
         \A o \in Outpoint \ pending : dbCoins[o] = UtxoAt[tip][o]
    /\ mode = "replay" =>
         \A o \in Outpoint : View[o] \in {UtxoAt[tip][o], UtxoAt[dbHeads[1]][o]}

\* What the running node's caches answer is the coins unspent after its tip, until a
\* failed write takes entries from them and the node is stopped.
ViewIsTip == mode \in {"run", "flush"} /\ loss = "none" => View = UtxoAt[tip]

\* The blocks the chainstate names as its best block or as heads of a transition.
Named == {dbBest} \cup {dbHeads[i] : i \in DOMAIN dbHeads}

\* Flushing the chainstate "can only be done if the blocks / block index write was
\* also done": every block the chainstate names is in the block index on disk, unless
\* the last flush was one of those that bypass FlushStateToDisk.
ChainstateRefersToIndex == caller # "gui" => Named \subseteq diskIndex \cup {Genesis, Null}

\* The inductive invariant behind it: block indexes are closed under pprev; while the
\* node is up the one in memory holds the one on disk, every block the chainstate
\* names, and the tip; what is flushed after the index is in the index; and a
\* chainstate in transition names no best block.
IndexInv ==
  /\ ChainstateRefersToIndex
  /\ \A b \in index : b # Genesis => Parent[b] \in index \cup {Genesis}
  /\ mode \in {"run", "flush", "stop", "replay"} =>
       /\ diskIndex \subseteq index
       /\ Named \subseteq index \cup {Genesis, Null}
       /\ mode # "replay" => tip \in index \cup {Genesis}
  /\ \A b \in diskIndex : b # Genesis => Parent[b] \in diskIndex \cup {Genesis}
  /\ mode = "replay" \/ (mode = "flush" /\ caller # "gui") => index \subseteq diskIndex \cup {Genesis}
  /\ dbHeads # <<>> => dbBest = Null

\* A restart succeeds after any crash, without a reindex, unless the last flush was
\* one of those that bypass FlushStateToDisk.
StartupSucceeds == caller # "gui" => mode # "failed"

\* The inductive invariant behind it, for a database that is not new: the blocks that
\* a replay of the transition would roll back, those of the old head's branch that are
\* not on the new one, have their undo data on disk; in memory, so have the blocks
\* between the chainstate on disk and the tip, and those a replay has rolled back.
UndoInv ==
  /\ StartupSucceeds
  /\ dbHeads = <<>> => dbBest # Null
  /\ dbHeads # <<>> => dbHeads[2] # Null
  /\ dbHeads # <<>> /\ caller # "gui" => Chain[dbHeads[2]] \ Chain[dbHeads[1]] \subseteq diskUndo
  /\ mode = "run" => dbHeads = <<>>
  /\ mode \in {"flush", "stop"} /\ dbHeads # <<>> => dbHeads[1] = tip
  /\ mode \in {"run", "flush", "stop"} => Chain[OldTip] \ Chain[tip] \subseteq undo
  /\ mode = "flush" /\ caller # "gui" => undo \subseteq diskUndo
  /\ mode = "replay" =>
       /\ undo = diskUndo
       /\ tip \in Chain[dbHeads[1]] \cup Chain[dbHeads[2]]
       /\ Chain[dbHeads[2]] \ (Chain[dbHeads[1]] \cup Chain[tip]) \subseteq undo

\* "In the last batch, mark the database as consistent with hashBlock again": a
\* best block names the shielded records too.
BestBlockNamesShielded == dbBest # Null => dbShielded = ShieldedAt[dbBest]
=============================================================================
