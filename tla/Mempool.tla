------------------------------- MODULE Mempool -------------------------------
(***************************************************************************)
(* The memory pool and its bookkeeping while transactions arrive, blocks   *)
(* are connected and disconnected, fees are reprioritised, transactions    *)
(* expire, the pool is trimmed to its limit and survives a restart.        *)
(*                                                                         *)
(* AcceptToMemoryPool and ActivateBestChainStep keep cs_main and           *)
(* mempool.cs while they run.  pc says where they are; when it is "idle"   *)
(* the locks are free, and only then do other threads look at the pool.    *)
(*                                                                         *)
(* A transaction's content is given by constants.  Its checks that depend  *)
(* on nothing else (CheckTransaction, IsStandardTx, fees, scripts) are the *)
(* set Refused.  Memory usage is the sum of the sizes; signature           *)
(* operations and the package limits by size, which follow the counts, and *)
(* the rolling minimum fee, which acceptance never reads, are left out.    *)
(***************************************************************************)
EXTENDS Integers, Sequences, FiniteSets, FiniteSetsExt, Functions

CONSTANTS
  Tx, Coin, None,
  Outpoint,       \* pairs <<transaction or old coin, index>>
  Inputs,         \* vin
  Nullifier, Nullifiers,  \* of the shielded spends; a shielded transaction has some
  Anchor,         \* their anchor: the shielded transactions its tree was built from
  CoinBase,       \* coinbase and coinstake transactions
  Refused,        \* transactions blocks may hold but policy refuses
  Size, Fee, LockTime,
  Maturity,       \* nCoinbaseMaturity
  Blocks,         \* contents of the blocks that may arrive
  LimitAncestors, LimitDescendants,   \* -limitancestorcount, -limitdescendantcount
  Expiry,         \* -mempoolexpiry
  MaxDisconnected,  \* MAX_DISCONNECTED_TX_POOL_SIZE, in transactions
  Deltas,         \* fee deltas given to prioritisetransaction
  Worlds          \* runs: the transactions, -maxmempool and bounds

ASSUME MempoolAssumption ==
  /\ None \notin Tx /\ Tx \cap Coin = {}
  /\ Outpoint \subseteq (Tx \cup Coin) \X Nat
  /\ Inputs \in [Tx -> SUBSET Outpoint]
  /\ Nullifiers \in [Tx -> SUBSET Nullifier]
  /\ Anchor \in [Tx -> Seq(Tx)]
  /\ CoinBase \subseteq Tx /\ Refused \subseteq Tx
  /\ \A t \in CoinBase : Inputs[t] = {} /\ Nullifiers[t] = {}
  /\ \A t \in Tx \ (CoinBase \cup Refused) : Inputs[t] # {} \/ Nullifiers[t] # {}
  /\ Size \in [Tx -> Nat \ {0}] /\ Fee \in [Tx -> Nat] /\ LockTime \in [Tx -> Nat]
  /\ Blocks \subseteq Seq(Tx)
  /\ Maturity \in Nat /\ Expiry \in Nat /\ MaxDisconnected \in Nat
  /\ LimitAncestors \in Nat /\ LimitDescendants \in Nat
  /\ Deltas \subseteq Int

(* The id of a transaction is a hash over its inputs, so that none spends  *)
(* from itself, through others or not: of some transactions, one spends    *)
(* from none of them.                                                      *)
ASSUME HashAssumption ==
  \A S \in SUBSET Tx : S # {} => \E t \in S : \A o \in Inputs[t] : o[1] \notin S

VARIABLES
  world,          \* [tx, maxmempool, maxTime, maxBlocks, maxReorgs, maxDeltas, maxRestarts]
  chain,          \* chainActive above the old coins: the contents of its blocks
  pool,           \* the transactions of mapTx
  time, feeDelta, \* nTime and feeDelta of the entries
  desc, anc,      \* sums with descendants and with ancestors
  parents, children,  \* mapLinks
  mapNextTx,
  mapSaplingNullifiers,
  mapDeltas,
  totalTxSize,
  now,
  pc, ret,        \* where the thread with the locks is, and where trimming returns to
  todo,           \* transactions of the connected block left to treat, or the
                  \* disconnected one that was just accepted again
  fBlocksDisconnected,
  disconnectpool, insertion_order,  \* queuedTx: its transactions and their places
  fAddToMempool,
  vHashUpdate,    \* transactions accepted again
  linkAt,         \* the next of them UpdateTransactionsFromBlock treats
  file,           \* mempool.dat: [entries, rest], the entries in order
  load,           \* LoadMempool: [at, given, left, done], the next entry, whether its
                  \* delta was given, the deltas left over, IsLoaded
  saved,          \* what the pool was when it was dumped
  blocks, reorgs, deltas, restarts  \* bounds

entries == <<pool, time, feeDelta, desc, anc, parents, children,
             mapNextTx, mapSaplingNullifiers, totalTxSize>>
queuedTx == <<disconnectpool, insertion_order>>
reorg == <<fBlocksDisconnected, queuedTx, fAddToMempool, vHashUpdate, linkAt>>
disk == <<file, load, saved>>
bounds == <<blocks, reorgs, deltas, restarts>>
vars == <<world, chain, entries, mapDeltas, now, pc, ret, todo, reorg, disk, bounds>>

Zero == [count |-> 0, size |-> 0, fees |-> 0]
Sums == [count : Int, size : Int, fees : Int]

TypeOK ==
  /\ chain \in Seq(Blocks)
  /\ pool \subseteq Tx /\ time \in [Tx -> Nat] /\ feeDelta \in [Tx -> Int]
  /\ desc \in [Tx -> Sums] /\ anc \in [Tx -> Sums]
  /\ parents \in [Tx -> SUBSET pool] /\ children \in [Tx -> SUBSET pool]
  /\ mapNextTx \in [Outpoint -> pool \cup {None}]
  /\ mapSaplingNullifiers \in [Nullifier -> pool \cup {None}]
  /\ mapDeltas \in [Tx -> Int] /\ totalTxSize \in Int /\ now \in Nat
  /\ pc \in {"idle", "limit", "trim", "reorg", "block", "conflict", "readd", "readded", "link", "purge"}
  /\ ret \in {"idle", "readded"}
  /\ todo \in Seq(Tx) /\ disconnectpool \subseteq Tx /\ insertion_order \in [Tx -> Nat]
  /\ load \in [at : Nat, given : BOOLEAN, left : SUBSET Tx, done : BOOLEAN]
  /\ fBlocksDisconnected \in BOOLEAN /\ fAddToMempool \in BOOLEAN
  /\ vHashUpdate \in Seq(Tx) /\ linkAt \in Nat

-----------------------------------------------------------------------------
(* What the active chain offers. *)

Outputs(S) == {o \in Outpoint : o[1] \in S}
Spent(S) == UNION {Inputs[t] : t \in S}
Confirmed == UNION {Range(chain[i]) : i \in DOMAIN chain}
Utxo == Outputs(Coin \cup Confirmed) \ Spent(Confirmed)
SpentNullifiers == UNION {Nullifiers[t] : t \in Confirmed}
Shielded == {t \in Tx : Nullifiers[t] # {}}
Root(c) ==
  LET root[i \in 0..Len(c)] ==
        IF i = 0 THEN << >> ELSE root[i - 1] \o SelectSeq(c[i], LAMBDA t : t \in Shielded)
  IN root[Len(c)]
Anchors == {Root(SubSeq(chain, 1, i)) : i \in 0..Len(chain)}

CheckFinalTx(t) == LockTime[t] < Len(chain) + 1
HeightOf(t) == CHOOSE i \in DOMAIN chain : t \in Range(chain[i])
Immature(o) == o[1] \in CoinBase /\ Len(chain) + 1 - HeightOf(o[1]) < Maturity

HaveShieldedRequirements(t) ==
  Nullifiers[t] # {} => Nullifiers[t] \cap SpentNullifiers = {} /\ Anchor[t] \in Anchors

(* ConnectBlock accepts the transactions of b in this order. *)
ConnectBlock(b) ==
  \A i \in DOMAIN b :
    LET before == {b[j] : j \in 1..(i - 1)} IN
    /\ b[i] \notin Confirmed \cup before
    /\ b[i] \in CoinBase => i = 1
    /\ Inputs[b[i]] \subseteq (Utxo \cup Outputs(before)) \ Spent(before)
    /\ \A o \in Inputs[b[i]] : o[1] \notin before => ~Immature(o)
    /\ \A o \in Inputs[b[i]] : o[1] \in before => o[1] \notin CoinBase
    /\ \A u \in before : Nullifiers[u] \cap Nullifiers[b[i]] = {}
    /\ HaveShieldedRequirements(b[i]) /\ CheckFinalTx(b[i])

-----------------------------------------------------------------------------
(* Walking the links. *)

(* Everything reached from S: the least set with S that the links stay in. *)
Reach(links, S) ==
  LET closed == {C \in SUBSET (pool \cup S) : S \subseteq C /\ \A t \in C : links[t] \subseteq C}
  IN {t \in pool \cup S : \A C \in closed : t \in C}

CalculateDescendants(S) == Reach(children, S)
CalculateMemPoolAncestors(t) == Reach(parents, parents[t])

GetModifiedFee(t) == Fee[t] + feeDelta[t]
SumOf(S) == [count |-> Cardinality(S),
             size |-> MapThenSumSet(LAMBDA t : Size[t], S),
             fees |-> MapThenSumSet(GetModifiedFee, S)]
Plus(a, b) == [count |-> a.count + b.count, size |-> a.size + b.size, fees |-> a.fees + b.fees]
Minus(a, b) == [count |-> a.count - b.count, size |-> a.size - b.size, fees |-> a.fees - b.fees]

-----------------------------------------------------------------------------
(* The operations of CTxMemPool that the handlers are made of. *)

MemPoolParents(t) == {p \in pool : \E o \in Inputs[t] : o[1] = p}

addUnchecked(t, nTime) ==
  LET up == MemPoolParents(t)
      ancestors == Reach(parents, up)
      own == [count |-> 1, size |-> Size[t], fees |-> Fee[t] + mapDeltas[t]]
  IN
  /\ pool' = pool \cup {t}
  /\ time' = [time EXCEPT ![t] = nTime]
  /\ feeDelta' = [feeDelta EXCEPT ![t] = mapDeltas[t]]
  /\ mapNextTx' = [o \in Outpoint |->
       IF o \in Inputs[t] /\ mapNextTx[o] = None THEN t ELSE mapNextTx[o]]
  /\ mapSaplingNullifiers' = [n \in Nullifier |->
       IF n \in Nullifiers[t] THEN t ELSE mapSaplingNullifiers[n]]
  /\ parents' = [parents EXCEPT ![t] = up]
  /\ children' = [x \in Tx |-> IF x \in up THEN children[x] \cup {t} ELSE children[x]]
  /\ desc' = [x \in Tx |-> IF x = t THEN own ELSE
                           IF x \in ancestors THEN Plus(desc[x], own) ELSE desc[x]]
  /\ anc' = [anc EXCEPT ![t] = Plus(own, SumOf(ancestors))]
  /\ totalTxSize' = totalTxSize + Size[t]

(* Mutant: the nullifiers of a removed transaction stay behind. *)
RemoveStagedKeepNullifiers(stage, updateDescendants) ==
  /\ pool' = pool \ stage
  /\ time' = [t \in Tx |-> IF t \in stage THEN 0 ELSE time[t]]
  /\ feeDelta' = [t \in Tx |-> IF t \in stage THEN 0 ELSE feeDelta[t]]
  /\ mapNextTx' = [o \in Outpoint |-> IF o \in Spent(stage) THEN None ELSE mapNextTx[o]]
  /\ desc' = [t \in Tx |-> IF t \in stage THEN Zero ELSE desc[t]]
  /\ anc' = [t \in Tx |-> IF t \in stage THEN Zero ELSE anc[t]]
  /\ totalTxSize' = totalTxSize - SumOf(stage).size
  /\ UNCHANGED <<mapSaplingNullifiers, parents, children>>

RemoveStaged(stage, updateDescendants) ==
  /\ pool' = pool \ stage
  /\ time' = [t \in Tx |-> IF t \in stage THEN 0 ELSE time[t]]
  /\ feeDelta' = [t \in Tx |-> IF t \in stage THEN 0 ELSE feeDelta[t]]
  /\ mapNextTx' = [o \in Outpoint |-> IF o \in Spent(stage) THEN None ELSE mapNextTx[o]]
  /\ mapSaplingNullifiers' = [n \in Nullifier |->
       IF \E t \in stage : n \in Nullifiers[t] THEN None ELSE mapSaplingNullifiers[n]]
  /\ parents' = [t \in Tx |-> IF t \in stage THEN {}
                              ELSE parents[t] \ {r \in stage : t \in children[r]}]
  /\ children' = [t \in Tx |-> IF t \in stage THEN {}
                               ELSE children[t] \ {r \in stage : t \in parents[r]}]
  /\ desc' = [t \in Tx |-> IF t \in stage THEN Zero ELSE
       Minus(desc[t], SumOf({r \in stage : t \in CalculateMemPoolAncestors(r)}))]
  /\ anc' = [t \in Tx |-> IF t \in stage THEN Zero ELSE
       IF updateDescendants
       THEN Minus(anc[t], SumOf({r \in stage : t \in CalculateDescendants({r})}))
       ELSE anc[t]]
  /\ totalTxSize' = totalTxSize - SumOf(stage).size

(* What removeRecursive removes: t with its descendants or, when t is not *)
(* in the pool, whatever spends its outputs.                              *)
Recursive(t) ==
  CalculateDescendants(
    IF t \in pool THEN {t} ELSE {mapNextTx[o] : o \in Outputs({t})} \ {None})

-----------------------------------------------------------------------------
(* AcceptToMemoryPool *)

WithinPackageLimits(t) ==
  LET ancestors == Reach(parents, MemPoolParents(t)) IN
  /\ Cardinality(ancestors) + 1 <= LimitAncestors
  /\ \A a \in ancestors : desc[a].count + 1 <= LimitDescendants

Acceptable(t) ==
  /\ t \notin CoinBase \cup Refused \cup pool
  /\ CheckFinalTx(t)
  /\ \A o \in Inputs[t] : mapNextTx[o] = None
  /\ \A n \in Nullifiers[t] : mapSaplingNullifiers[n] = None
  /\ Outputs({t}) \cap Utxo = {}
  /\ \A o \in Inputs[t] : o[1] \in pool \/ (o \in Utxo /\ ~Immature(o))
  /\ HaveShieldedRequirements(t)
  /\ WithinPackageLimits(t)

AcceptToMemoryPool(t) ==
  /\ pc = "idle" /\ t \in world.tx
  /\ Acceptable(t)
  /\ addUnchecked(t, now)
  /\ pc' = "limit" /\ ret' = "idle"
  /\ UNCHANGED <<world, chain, mapDeltas, now, todo, reorg, disk, bounds>>

(* LimitMempoolSize: expiry, then trimming. *)
Expire ==
  /\ pc = "limit"
  /\ RemoveStaged(CalculateDescendants({t \in pool : time[t] < now - Expiry}), FALSE)
  /\ pc' = "trim"
  /\ UNCHANGED <<world, chain, mapDeltas, now, ret, todo, reorg, disk, bounds>>

(* CompareTxMemPoolEntryByDescendantScore: the fee rate of the entry, or   *)
(* of the entry with its descendants when that is better.                  *)
Score(t) ==
  IF desc[t].fees * Size[t] > GetModifiedFee(t) * desc[t].size
  THEN <<desc[t].fees, desc[t].size>> ELSE <<GetModifiedFee(t), Size[t]>>
Worse(t, u) ==
  LET f1 == Score(t)[1] * Score(u)[2]
      f2 == Score(u)[1] * Score(t)[2]
  IN f1 < f2 \/ (f1 = f2 /\ time[t] > time[u])

TrimToSize ==
  /\ pc = "trim" /\ totalTxSize > world.maxmempool
  /\ \E t \in pool :
       /\ \A u \in pool : ~Worse(u, t)
       /\ RemoveStaged(CalculateDescendants({t}), FALSE)
  /\ UNCHANGED <<world, chain, mapDeltas, now, pc, ret, todo, reorg, disk, bounds>>

Trimmed ==
  /\ pc = "trim" /\ totalTxSize <= world.maxmempool
  /\ pc' = ret
  /\ UNCHANGED <<world, chain, entries, mapDeltas, now, ret, todo, reorg, disk, bounds>>

-----------------------------------------------------------------------------
(* prioritisetransaction *)

Prioritise(t, d) ==
  /\ mapDeltas' = [mapDeltas EXCEPT ![t] = @ + d]
  /\ IF t \in pool
     THEN LET df == [Zero EXCEPT !.fees = d] IN
          /\ feeDelta' = [feeDelta EXCEPT ![t] = mapDeltas'[t]]
          /\ desc' = [x \in Tx |-> IF x = t \/ x \in CalculateMemPoolAncestors(t)
                                   THEN Plus(desc[x], df) ELSE desc[x]]
          /\ anc' = [anc EXCEPT ![t] = Plus(@, df)]
     ELSE UNCHANGED <<feeDelta, desc, anc>>
  /\ UNCHANGED <<pool, time, parents, children, mapNextTx, mapSaplingNullifiers, totalTxSize>>

PrioritiseTransaction(t, d) ==
  /\ pc = "idle" /\ t \in world.tx /\ deltas < world.maxDeltas
  /\ deltas' = deltas + 1
  /\ Prioritise(t, d)
  /\ UNCHANGED <<world, chain, now, pc, ret, todo, reorg, blocks, reorgs, restarts, disk>>

-----------------------------------------------------------------------------
(* ActivateBestChainStep: blocks are disconnected, then connected, then    *)
(* the disconnected transactions go back to the pool.  InvalidateBlock     *)
(* does the same without connecting.                                       *)

DisconnectTip ==
  /\ pc \in {"idle", "reorg"} /\ chain # << >>
  /\ pc = "idle" => reorgs < world.maxReorgs
  /\ reorgs' = IF pc = "idle" THEN reorgs + 1 ELSE reorgs
  /\ chain' = SubSeq(chain, 1, Len(chain) - 1)
  /\ pc' = "reorg" /\ fBlocksDisconnected' = TRUE
  /\ LET block == chain[Len(chain)]
         queued == disconnectpool \cup Range(block)
         last == Max({0} \cup Range(insertion_order))
         place == [t \in queued |->
                     IF t \in disconnectpool THEN insertion_order[t]
                     ELSE last + Len(block) - (CHOOSE i \in DOMAIN block : block[i] = t) + 1]
         dropped == {t \in queued : Cardinality({u \in queued : place[u] >= place[t]}) > MaxDisconnected}
         anchored == IF Root(chain') = Root(chain) THEN {}
                     ELSE {t \in pool \cap Shielded : Anchor[t] = Root(chain)}
     IN /\ disconnectpool' = queued \ dropped
        /\ insertion_order' = [t \in Tx |-> IF t \in queued \ dropped THEN place[t] ELSE 0]
        /\ RemoveStaged(UNION {Recursive(t) : t \in dropped \cup anchored}, FALSE)
  /\ UNCHANGED <<world, mapDeltas, now, ret, todo, fAddToMempool, vHashUpdate, linkAt, blocks, deltas, restarts, disk>>

ConnectTip(b) ==
  /\ pc \in {"idle", "reorg"} /\ blocks < world.maxBlocks /\ Range(b) \subseteq world.tx
  /\ ConnectBlock(b)
  /\ blocks' = blocks + 1
  /\ chain' = Append(chain, b) /\ todo' = b
  /\ disconnectpool' = disconnectpool \ Range(b)
  /\ insertion_order' = [t \in Tx |-> IF t \in Range(b) THEN 0 ELSE insertion_order[t]]
  /\ pc' = "block"
  /\ UNCHANGED <<world, entries, mapDeltas, now, ret, fBlocksDisconnected, fAddToMempool,
                 vHashUpdate, linkAt, reorgs, deltas, restarts, disk>>

(* Mutant: descendants of a mined transaction keep it in their sums. *)
RemoveMinedNoUpdate ==
  /\ pc = "block" /\ todo # << >>
  /\ RemoveStaged(pool \cap {Head(todo)}, FALSE)
  /\ pc' = "conflict"
  /\ UNCHANGED <<world, chain, mapDeltas, now, ret, todo, reorg, disk, bounds>>

(* removeForBlock, one transaction at a time: the transaction itself, *)
(* then removeConflicts.                                              *)
RemoveMined ==
  /\ pc = "block" /\ todo # << >>
  /\ RemoveStaged(pool \cap {Head(todo)}, TRUE)
  /\ pc' = "conflict"
  /\ UNCHANGED <<world, chain, mapDeltas, now, ret, todo, reorg, disk, bounds>>

Conflicts(t) ==
  ({mapNextTx[o] : o \in Inputs[t]} \cup {mapSaplingNullifiers[n] : n \in Nullifiers[t]})
    \ {None, t}

(* removeConflicts takes them one by one and clears the fee delta of each, *)
(* removeForBlock then clears that of the mined transaction.               *)
RemoveConflicts ==
  /\ pc = "conflict"
  /\ \E t \in Conflicts(Head(todo)) :
       /\ RemoveStaged(Recursive(t), FALSE)
       /\ mapDeltas' = [mapDeltas EXCEPT ![t] = 0]
  /\ UNCHANGED <<world, chain, now, pc, ret, todo, reorg, disk, bounds>>

ConflictsRemoved ==
  /\ pc = "conflict" /\ Conflicts(Head(todo)) = {}
  /\ mapDeltas' = [mapDeltas EXCEPT ![Head(todo)] = 0]
  /\ todo' = Tail(todo) /\ pc' = "block"
  /\ UNCHANGED <<world, chain, entries, now, ret, reorg, disk, bounds>>

BlockConnected ==
  /\ pc = "block" /\ todo = << >>
  /\ pc' = IF fBlocksDisconnected THEN "reorg" ELSE "idle"
  /\ UNCHANGED <<world, chain, entries, mapDeltas, now, ret, todo, reorg, disk, bounds>>

-----------------------------------------------------------------------------
(* UpdateMempoolForReorg; without fAddToMempool after a failure to connect *)
(* or disconnect a block.                                                  *)

UpdateMempoolForReorg(fAdd) ==
  /\ pc = "reorg"
  /\ fAddToMempool' = fAdd /\ vHashUpdate' = << >> /\ pc' = "readd"
  /\ UNCHANGED <<world, chain, entries, mapDeltas, now, ret, todo, fBlocksDisconnected,
                 queuedTx, linkAt, disk, bounds>>

(* The oldest transaction of the disconnected blocks comes first.  Its size *)
(* limit is overridden, but AcceptToMemoryPool ends with TrimToSize anyway. *)
ReAdd ==
  /\ pc = "readd"
  /\ \E t \in disconnectpool :
       /\ \A u \in disconnectpool : insertion_order[u] <= insertion_order[t]
       /\ disconnectpool' = disconnectpool \ {t}
       /\ insertion_order' = [insertion_order EXCEPT ![t] = 0]
       /\ IF fAddToMempool /\ Acceptable(t)
          THEN addUnchecked(t, now) /\ pc' = "trim" /\ ret' = "readded" /\ todo' = <<t>>
          ELSE RemoveStaged(Recursive(t), FALSE) /\ UNCHANGED <<pc, ret, todo>>
  /\ UNCHANGED <<world, chain, mapDeltas, now, fBlocksDisconnected, fAddToMempool,
                 vHashUpdate, linkAt, disk, bounds>>

ReAdded ==
  /\ pc = "readded" /\ pc' = "readd" /\ todo' = << >>
  /\ LET t == Head(todo) IN
     IF t \in pool
     THEN vHashUpdate' = Append(vHashUpdate, t) /\ UNCHANGED entries
     ELSE RemoveStaged(Recursive(t), FALSE) /\ UNCHANGED vHashUpdate
  /\ UNCHANGED <<world, chain, mapDeltas, now, ret, fBlocksDisconnected, queuedTx,
                 fAddToMempool, linkAt, disk, bounds>>

AllReAdded ==
  /\ pc = "readd" /\ disconnectpool = {}
  /\ linkAt' = Len(vHashUpdate) /\ pc' = "link"
  /\ UNCHANGED <<world, chain, entries, mapDeltas, now, ret, todo, fBlocksDisconnected,
                 queuedTx, fAddToMempool, vHashUpdate, disk, bounds>>

(* UpdateTransactionsFromBlock: from the last to the first, each is linked *)
(* to its children in the pool and takes part in their sums.               *)
UpdateTransactionsFromBlock ==
  /\ pc = "link" /\ linkAt > 0
  /\ LET t == vHashUpdate[linkAt]
         included == Range(vHashUpdate)
         kids == ({mapNextTx[o] : o \in Outputs({t})} \ {None}) \ included
         links == [children EXCEPT ![t] = @ \cup kids]
         below == Reach(links, {t}) \ (included \cup {t})
         own == [count |-> 1, size |-> Size[t], fees |-> GetModifiedFee(t)]
     IN IF t \in pool
        THEN /\ children' = links
             /\ parents' = [x \in Tx |-> IF x \in kids THEN parents[x] \cup {t} ELSE parents[x]]
             /\ desc' = [desc EXCEPT ![t] = Plus(@, SumOf(below))]
             /\ anc' = [x \in Tx |-> IF x \in below THEN Plus(anc[x], own) ELSE anc[x]]
        ELSE UNCHANGED <<children, parents, desc, anc>>
  /\ linkAt' = linkAt - 1
  /\ UNCHANGED <<world, chain, pool, time, feeDelta, mapNextTx, mapSaplingNullifiers, totalTxSize,
                 mapDeltas, now, pc, ret, todo, fBlocksDisconnected, queuedTx,
                 fAddToMempool, vHashUpdate, disk, bounds>>

AllLinked ==
  /\ pc = "link" /\ linkAt = 0 /\ pc' = "purge"
  /\ vHashUpdate' = << >> /\ fBlocksDisconnected' = FALSE /\ fAddToMempool' = FALSE
  /\ UNCHANGED <<world, chain, entries, mapDeltas, now, ret, todo, queuedTx, linkAt, disk, bounds>>

(* removeForReorg: what is no longer final, or spends an immature coinbase. *)
SpendsCoinbase(t) == \E o \in Inputs[t] : o[1] \in CoinBase

(* Mutant: only time locks are looked at, not the maturity of coinbases. *)
RemoveForReorgFinalOnly ==
  /\ pc = "purge"
  /\ RemoveStaged(CalculateDescendants({t \in pool : ~CheckFinalTx(t)}), FALSE)
  /\ pc' = "limit" /\ ret' = "idle"
  /\ UNCHANGED <<world, chain, mapDeltas, now, todo, reorg, disk, bounds>>

RemoveForReorg ==
  /\ pc = "purge"
  /\ RemoveStaged(CalculateDescendants(
       {t \in pool :
          \/ ~CheckFinalTx(t)
          \/ /\ SpendsCoinbase(t)
             /\ \E o \in Inputs[t] : o[1] \notin pool /\ (o \notin Utxo \/ Immature(o))}), FALSE)
  /\ pc' = "limit" /\ ret' = "idle"
  /\ UNCHANGED <<world, chain, mapDeltas, now, todo, reorg, disk, bounds>>

-----------------------------------------------------------------------------
(* Restart: Shutdown dumps the pool if it was loaded, a crash does not.    *)
(* LoadMempool then runs beside the other threads: it gives an entry its   *)
(* fee delta, and takes the locks again to accept it.                      *)

(* Mutant: the entries are dumped by fee rate, children before parents. *)
SortedByScore(q) ==
  \A i, j \in DOMAIN q : i < j =>
    GetModifiedFee(q[i]) * Size[q[j]] >= GetModifiedFee(q[j]) * Size[q[i]]

(* GetSortedDepthAndScore *)
Sorted(q) ==
  \A i, j \in DOMAIN q : i < j =>
    \/ anc[q[i]].count < anc[q[j]].count
    \/ /\ anc[q[i]].count = anc[q[j]].count
       /\ GetModifiedFee(q[i]) * Size[q[j]] >= GetModifiedFee(q[j]) * Size[q[i]]

DumpMempool ==
  \E q \in Bijection(1..Cardinality(pool), pool) :
    /\ Sorted(q)
    /\ file' = [entries |-> [i \in DOMAIN q |->
                               [tx |-> q[i], nTime |-> time[q[i]], nFeeDelta |-> feeDelta[q[i]]]],
                rest |-> [t \in Tx |-> IF t \in pool THEN 0 ELSE mapDeltas[t]]]
    /\ saved' = [pool |-> pool, mapDeltas |-> mapDeltas, chain |-> chain, now |-> now, deltas |-> deltas]

Restart(crash) ==
  /\ pc = "idle" /\ restarts < world.maxRestarts /\ restarts' = restarts + 1
  /\ IF crash \/ ~load.done THEN UNCHANGED <<file, saved>> ELSE DumpMempool
  /\ load' = [at |-> 1, given |-> FALSE, left |-> {t \in Tx : file'.rest[t] # 0}, done |-> FALSE]
  /\ RemoveStaged(pool, FALSE)
  /\ mapDeltas' = [t \in Tx |-> 0]
  /\ UNCHANGED <<world, chain, now, pc, ret, todo, reorg, blocks, reorgs, deltas>>

LoadDelta ==
  /\ pc = "idle" /\ load.at \in DOMAIN file.entries /\ ~load.given
  /\ LET e == file.entries[load.at] IN Prioritise(e.tx, e.nFeeDelta)
  /\ load' = [load EXCEPT !.given = TRUE]
  /\ UNCHANGED <<world, chain, now, pc, ret, todo, reorg, file, saved, bounds>>

LoadEntry ==
  /\ pc = "idle" /\ load.given
  /\ LET e == file.entries[load.at] IN
     IF e.nTime + Expiry > now /\ Acceptable(e.tx)
     THEN addUnchecked(e.tx, e.nTime) /\ pc' = "limit" /\ ret' = "idle"
     ELSE UNCHANGED <<entries, pc, ret>>
  /\ load' = [load EXCEPT !.at = @ + 1, !.given = FALSE]
  /\ UNCHANGED <<world, chain, mapDeltas, now, todo, reorg, file, saved, bounds>>

(* The deltas left over are of transactions outside the file.  Some may *)
(* have come into the pool meanwhile.                                   *)
LoadRest ==
  /\ pc = "idle" /\ load.at > Len(file.entries)
  /\ \E t \in load.left : /\ Prioritise(t, file.rest[t])
                          /\ load' = [load EXCEPT !.left = @ \ {t}]
  /\ UNCHANGED <<world, chain, now, pc, ret, todo, reorg, file, saved, bounds>>

SetIsLoaded ==
  /\ pc = "idle" /\ ~load.done /\ load.at > Len(file.entries) /\ load.left = {}
  /\ load' = [load EXCEPT !.done = TRUE]
  /\ UNCHANGED <<world, chain, entries, mapDeltas, now, pc, ret, todo, reorg, file, saved, bounds>>

Tick ==
  /\ pc = "idle" /\ now < world.maxTime /\ now' = now + 1
  /\ UNCHANGED <<world, chain, entries, mapDeltas, pc, ret, todo, reorg, disk, bounds>>

-----------------------------------------------------------------------------
Init ==
  /\ world \in Worlds /\ chain = << >>
  /\ pool = {} /\ totalTxSize = 0 /\ now = 0
  /\ time = [t \in Tx |-> 0] /\ feeDelta = [t \in Tx |-> 0] /\ mapDeltas = [t \in Tx |-> 0]
  /\ desc = [t \in Tx |-> Zero] /\ anc = [t \in Tx |-> Zero]
  /\ parents = [t \in Tx |-> {}] /\ children = [t \in Tx |-> {}]
  /\ mapNextTx = [o \in Outpoint |-> None] /\ mapSaplingNullifiers = [n \in Nullifier |-> None]
  /\ pc = "idle" /\ ret = "idle" /\ todo = << >>
  /\ fBlocksDisconnected = FALSE /\ disconnectpool = {} /\ fAddToMempool = FALSE
  /\ insertion_order = [t \in Tx |-> 0] /\ vHashUpdate = << >> /\ linkAt = 0
  /\ file = [entries |-> << >>, rest |-> mapDeltas] /\ saved = None
  /\ load = [at |-> 1, given |-> FALSE, left |-> {}, done |-> FALSE]
  /\ blocks = 0 /\ reorgs = 0 /\ deltas = 0 /\ restarts = 0

Next ==
  \/ \E t \in Tx : AcceptToMemoryPool(t)
  \/ \E t \in Tx, d \in Deltas : PrioritiseTransaction(t, d)
  \/ Expire \/ TrimToSize \/ Trimmed
  \/ DisconnectTip
  \/ \E b \in Blocks : ConnectTip(b)
  \/ RemoveMined \/ RemoveConflicts \/ ConflictsRemoved \/ BlockConnected
  \/ \E fAdd \in BOOLEAN : UpdateMempoolForReorg(fAdd)
  \/ ReAdd \/ ReAdded \/ AllReAdded
  \/ UpdateTransactionsFromBlock \/ AllLinked \/ RemoveForReorg
  \/ \E crash \in BOOLEAN : Restart(crash)
  \/ LoadDelta \/ LoadEntry \/ LoadRest \/ SetIsLoaded
  \/ Tick

Spec == Init /\ [][Next]_vars

-----------------------------------------------------------------------------
(* CTxMemPool::check, "Check that every mempool transaction's inputs refer *)
(* to available coins, or other mempool tx's", its nullifiers are unspent  *)
(* and its anchors known: every pool transaction could be mined next after *)
(* those it depends on, coins mature and time locks over.                  *)
PoolIsMinable ==
  pc = "idle" => \A t \in pool :
    /\ \A o \in Inputs[t] : o[1] \in pool \/ (o \in Utxo /\ ~Immature(o))
    /\ HaveShieldedRequirements(t) /\ CheckFinalTx(t)

(* mapNextTx and mapSaplingNullifiers name exactly the spends of the       *)
(* transactions of the pool, at every step: no two of them conflict, and   *)
(* no entry outlives its transaction.                                      *)
SpendsExact ==
  /\ \A o \in Outpoint, t \in Tx : mapNextTx[o] = t <=> (t \in pool /\ o \in Inputs[t])
  /\ \A n \in Nullifier, t \in Tx :
       mapSaplingNullifiers[n] = t <=> (t \in pool /\ n \in Nullifiers[t])

(* What the sums and links are when they are recomputed from the pool. *)
TrueParents == [t \in Tx |-> IF t \in pool THEN MemPoolParents(t) ELSE {}]
TrueChildren == [t \in Tx |-> {c \in pool : t \in TrueParents[c]}]
LinksExact == parents = TrueParents /\ children = TrueChildren

(* Whenever the locks are free the links are the spends between pool       *)
(* transactions, and counts and sizes with ancestors and with descendants, *)
(* fees with descendants and the total size equal what check() computes    *)
(* from scratch, whatever was added, mined, evicted or reorganized.        *)
SumsExact ==
  pc = "idle" =>
    /\ LinksExact
    /\ totalTxSize = SumOf(pool).size
    /\ \A t \in pool :
         /\ desc[t] = SumOf(Reach(TrueChildren, {t}))
         /\ [anc[t] EXCEPT !.fees = 0] = [SumOf(Reach(TrueParents, {t})) EXCEPT !.fees = 0]

(* CTxMemPool::check asserts GetModFeesWithAncestors() == nFeesCheck. *)
AncestorFeesExact ==
  pc = "idle" => \A t \in pool : anc[t].fees = SumOf(Reach(TrueParents, {t})).fees

(* What was dumped is back once the pool is loaded, with its fee deltas,   *)
(* if nothing expired or changed meanwhile, no other transaction took its  *)
(* inputs and there is room for all: the order of the dump lets every      *)
(* entry find its parents, and an interrupted load or a crash does not     *)
(* lose or repeat deltas.                                                  *)
RestartKeepsPool ==
  /\ pc = "idle" /\ load.done /\ saved # None
  /\ chain = saved.chain /\ now = saved.now /\ deltas = saved.deltas
  /\ SumOf(world.tx).size <= world.maxmempool
  /\ \A t \in saved.pool : \A u \in world.tx \ {t} :
       Inputs[t] \cap Inputs[u] = {} /\ Nullifiers[t] \cap Nullifiers[u] = {}
  /\ \A i \in DOMAIN file.entries : file.entries[i].nTime + Expiry > now
  => saved.pool \subseteq pool /\ mapDeltas = saved.mapDeltas
=============================================================================
