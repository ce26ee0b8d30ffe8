------------------------------- MODULE Wallet -------------------------------
(***************************************************************************)
(* The transactions of a wallet and how they follow the chain and the      *)
(* memory pool, of which the wallet hears through the callback queue,      *)
(* later and one callback at a time.                                       *)
(*                                                                         *)
(* The chain and the pool change under cs_main, the wallet under           *)
(* cs_wallet; an RPC that sends or abandons takes both, and so sees a pool *)
(* and a chain the wallet may not have heard of yet.  A failed assertion   *)
(* ends the process as a crash does.  After either, the chain is that of   *)
(* the last flush, the pool is empty, and the wallet is read from its file *)
(* and scans the blocks after its locator.                                 *)
(***************************************************************************)
EXTENDS Integers, Sequences, FiniteSets, SequencesExt

CONSTANTS
  Tx, None,
  Coin,           \* transactions of others, always in the chain
  Inputs,         \* of a transaction: outpoints <<transaction or coin, n>>
  Mine,           \* the outputs that IsMine
  CoinStake,      \* coinbase and coinstake transactions
  Own,            \* what the user may send
  Block, Genesis, Parent, Content,
  MaxPending      \* bound: callbacks pending when the pool changes or a flush is due

ASSUME WalletAssumption ==
  /\ None \notin Tx \cup Block /\ Tx \cap Coin = {}
  /\ Inputs \in [Tx -> SUBSET ((Tx \cup Coin) \X Nat)] /\ Mine \subseteq Tx \X Nat
  /\ CoinStake \subseteq Tx /\ Own \subseteq Tx \ CoinStake
  /\ Genesis \in Block /\ Parent \in [Block \ {Genesis} -> Block]
  /\ Content \in [Block -> Seq(Tx)]
  /\ MaxPending \in Nat

VARIABLES
  tip, pool,                \* chainActive.Tip() and the memory pool
  disk,                     \* the tip of the chainstate on disk
  queue,                    \* the callbacks pending
  mapWallet,                \* None, or m_confirm: status and hashBlock
  fInMempool,
  m_last_block_processed, m_last_block_processed_height,
  db, bestblock,            \* the wallet's file: transactions and locator
  created,                  \* transactions made and not committed yet
  fFirstLoad,               \* postInitProcess is still to come
  forgot                    \* history: see Restart

node == <<tip, pool, disk, queue>>
wallet == <<mapWallet, fInMempool, m_last_block_processed, m_last_block_processed_height>>
file == <<db, bestblock>>
vars == <<node, wallet, file, created, fFirstLoad, forgot>>

Chain ==
  LET up[b \in Block] == IF b = Genesis THEN {b} ELSE {b} \cup up[Parent[b]]
  IN [b \in Block |-> up[b]]
nHeight == [b \in Block |-> Cardinality(Chain[b]) - 1]
At == [b \in Block |-> [h \in 0..nHeight[b] |-> CHOOSE x \in Chain[b] : nHeight[x] = h]]
Fork == [a, b \in Block |-> At[a][Cardinality(Chain[a] \cap Chain[b]) - 1]]
TxsOf(b) == ToSet(Content[b])
InChain == [b \in Block |-> UNION {TxsOf(x) : x \in Chain[b]}]

Statuses == {"unconfirmed", "confirmed", "conflicted", "abandoned"}
Confirmation == [status : Statuses, block : Block \cup {None}]
Plain(status) == [status |-> status, block |-> None]
In(b) == [status |-> "confirmed", block |-> b]

Callback ==
  [type : {"added", "removed"}, of : Tx] \cup [type : {"disconnected", "bestchain"}, of : Block]
  \cup [type : {"connected"}, of : Block, conflicted : SUBSET Tx]

TypeOK ==
  /\ tip \in Block /\ pool \subseteq Tx /\ disk \in Block /\ queue \in Seq(Callback)
  /\ mapWallet \in [Tx -> Confirmation \cup {None}] /\ fInMempool \subseteq Tx
  /\ m_last_block_processed \in Block /\ m_last_block_processed_height \in Nat
  /\ db \in [Tx -> Confirmation \cup {None}] /\ bestblock \in Block
  /\ created \subseteq Own /\ fFirstLoad \in BOOLEAN
  /\ forgot \subseteq Block

Known == {t \in Tx : mapWallet[t] # None}

-----------------------------------------------------------------------------
(* The memory pool.  P is a pool and b the tip it goes with. *)

SpentBy(S) == UNION {Inputs[t] : t \in S}
Acceptable(t, P, b) ==
  LET there == P \cup InChain[b] IN
  /\ t \notin CoinStake \cup there
  /\ \A o \in Inputs[t] : o[1] \in Coin \cup there /\ o \notin SpentBy(there)

(* removeRecursive: of what is in S and of what spends from it, what is in *)
(* P.  A member of S need not be in the pool itself.                       *)
RECURSIVE WithDescendants(_, _)
WithDescendants(P, S) ==
  LET more == {t \in P \ S : \E o \in Inputs[t] : o[1] \in S} IN
  IF more = {} THEN S \cap P ELSE WithDescendants(P, S \cup more)

Added(t) == [type |-> "added", of |-> t]
Removed(order) == [i \in DOMAIN order |-> [type |-> "removed", of |-> order[i]]]

AcceptToMemoryPool(t) ==
  /\ Len(queue) < MaxPending /\ (t \in Own => mapWallet[t] # None)
  /\ Acceptable(t, pool, tip)
  /\ pool' = pool \cup {t} /\ queue' = Append(queue, Added(t))
  /\ UNCHANGED <<tip, disk, wallet, file, created, fFirstLoad, forgot>>

(* Mutant: what spends from it stays. *)
EvictAlone(t) ==
  /\ Len(queue) < MaxPending /\ t \in pool
  /\ pool' = pool \ {t} /\ queue' = queue \o Removed(<<t>>)
  /\ UNCHANGED <<tip, disk, wallet, file, created, fFirstLoad, forgot>>

(* Expiry, trimming: in the order of the hashes, which is any. *)
Evict(t) ==
  /\ Len(queue) < MaxPending /\ t \in pool
  /\ LET gone == WithDescendants(pool, {t}) IN
     /\ pool' = pool \ gone
     /\ \E order \in SetToSeqs(gone) : queue' = queue \o Removed(order)
  /\ UNCHANGED <<tip, disk, wallet, file, created, fFirstLoad, forgot>>

-----------------------------------------------------------------------------
(* ActivateBestChainStep, under cs_main and mempool.cs.  It stops at the   *)
(* first block with more work than the old tip.  A block that holds one of *)
(* the wallet's transactions comes after the wallet sent it.               *)

(* removeForBlock, with the transactions that conflict.  s.calls are the   *)
(* BlockConnected callbacks to come.                                       *)
ConnectTip(s, b) ==
  LET conflicts == {t \in s.pool \ TxsOf(b) : Inputs[t] \cap SpentBy(TxsOf(b)) # {}}
      gone == WithDescendants(s.pool \ TxsOf(b), conflicts)
  IN [s EXCEPT !.pool = @ \ (TxsOf(b) \cup gone),
               !.calls = Append(@, [type |-> "connected", of |-> b, conflicted |-> gone])]

(* UpdateMempoolForReorg, one transaction. *)
Resurrect(s, t, b) ==
  IF Acceptable(t, s.pool, b)
  THEN [s EXCEPT !.pool = @ \cup {t}, !.queue = Append(@, Added(t))]
  ELSE LET gone == WithDescendants(s.pool, {t}) IN
       [s EXCEPT !.pool = @ \ gone, !.queue = @ \o Removed(SetToSeq(gone))]

ActivateBestChainStep(b) ==
  LET fork == Fork[tip, b]
      down == [i \in 1..(nHeight[tip] - nHeight[fork]) |-> At[tip][nHeight[tip] - i + 1]]
      up == [i \in 1..(nHeight[b] - nHeight[fork]) |-> At[b][nHeight[fork] + i]]
      disconnected == [i \in DOMAIN down |-> [type |-> "disconnected", of |-> down[i]]]
      back == SelectSeq(FlattenSeq([i \in DOMAIN down |-> Content[down[Len(down) - i + 1]]]),
                        LAMBDA t : t \notin UNION {TxsOf(up[i]) : i \in DOMAIN up})
      connected == FoldLeft(ConnectTip, [pool |-> pool, queue |-> queue \o disconnected, calls |-> << >>], up)
      after == FoldLeft(LAMBDA s, t : Resurrect(s, t, b), connected, back)
  IN /\ Len(queue) <= MaxPending /\ nHeight[b] = nHeight[tip] + 1
     /\ \A i \in DOMAIN up : TxsOf(up[i]) \cap Own \subseteq Known
     /\ tip' = b /\ pool' = after.pool /\ queue' = after.queue \o after.calls
     /\ UNCHANGED <<disk, wallet, file, created, fFirstLoad, forgot>>

(* The chainstate is flushed, and the wallet is told to write its locator, *)
(* or one of the two.                                                      *)
FlushStateToDisk(fDoFullFlush, fSetChain) ==
  /\ Len(queue) <= MaxPending /\ (fDoFullFlush \/ fSetChain)
  /\ disk' = IF fDoFullFlush THEN tip ELSE disk
  /\ queue' = IF fSetChain THEN Append(queue, [type |-> "bestchain", of |-> tip]) ELSE queue
  /\ UNCHANGED <<tip, pool, wallet, file, created, fFirstLoad, forgot>>

-----------------------------------------------------------------------------
(* What the wallet makes of its transactions: mw is a mapWallet and h the  *)
(* height last processed.                                                  *)

GetDepthInMainChain(mw, h, t) ==
  IF mw[t].status \in {"unconfirmed", "abandoned"} THEN 0
  ELSE (h - nHeight[mw[t].block] + 1) * (IF mw[t].status = "conflicted" THEN -1 ELSE 1)

(* mapTxSpends. *)
SpendersOf(mw, o) == {t \in Tx : mw[t] # None /\ o \in Inputs[t]}
Spending == [t \in Tx |-> {u \in Tx : \E o \in Inputs[u] : o[1] = t}]
ChildrenOf(mw, t) == {u \in Spending[t] : mw[u] # None}

IsMine(t) == \E o \in Mine : o[1] = t
IsFromMe(mw, t) == \E o \in Inputs[t] \cap Mine : mw[o[1]] # None

(* The transactions that the todo sets of MarkConflicted and of            *)
(* AbandonTransaction reach: the children of those that change.            *)
RECURSIVE Reached(_, _, _)
Reached(mw, todo, changes) ==
  LET more == UNION {ChildrenOf(mw, t) : t \in todo \cap changes} \ todo IN
  IF more = {} THEN todo ELSE Reached(mw, todo \cup more, changes)

MarkConflicted(mw, h, b, t) ==
  LET conflictconfirms == -(h - nHeight[b] + 1)
      less == {u \in Tx : mw[u] # None /\ conflictconfirms < GetDepthInMainChain(mw, h, u)}
      marked == Reached(mw, {t}, less) \cap less
  IN IF conflictconfirms >= 0 THEN mw
     ELSE [u \in Tx |-> IF u \in marked THEN [status |-> "conflicted", block |-> b] ELSE mw[u]]

(* s.ok: the assertions of AddToWallet have held. *)
AddToWallet(s, t, confirm) ==
  [mw |-> IF s.mw[t] = None \/ s.mw[t].status # confirm.status
          THEN [s.mw EXCEPT ![t] = confirm] ELSE s.mw,
   h |-> s.h,
   ok |-> s.ok /\ (s.mw[t] # None /\ s.mw[t].status = confirm.status => s.mw[t] = confirm)]

AddToWalletIfInvolvingMe(s, t, confirm) ==
  LET rivals == UNION {SpendersOf(s.mw, o) : o \in Inputs[t]} \ {t}
      marked == IF confirm.block = None THEN s
                ELSE [s EXCEPT !.mw = FoldLeft(LAMBDA mw, u : MarkConflicted(mw, s.h, confirm.block, u),
                                               s.mw, SetToSeq(rivals))]
  IN IF s.mw[t] # None \/ IsMine(t) \/ IsFromMe(s.mw, t)
     THEN AddToWallet(marked, t, confirm) ELSE marked

SyncTransactions(s, txs, confirm) ==
  FoldLeft(LAMBDA r, t : AddToWalletIfInvolvingMe(r, t, confirm), s, txs)

(* Every change of a transaction is written when it is made. *)
Write(file1, mw1, mw2) == [t \in Tx |-> IF mw2[t] # mw1[t] THEN mw2[t] ELSE file1[t]]

-----------------------------------------------------------------------------
(* The callbacks, each under cs_wallet. *)

(* Mutant: a disconnected block leaves its transactions confirmed. *)
SyncedKeepsConfirmed(c) ==
  LET s == [mw |-> mapWallet, h |-> m_last_block_processed_height, ok |-> TRUE] IN
  CASE c.type = "added" -> SyncTransactions(s, <<c.of>>, Plain("unconfirmed"))
    [] c.type = "connected" -> SyncTransactions([s EXCEPT !.h = nHeight[c.of]], Content[c.of], In(c.of))
    [] c.type = "disconnected" -> [s EXCEPT !.h = nHeight[c.of] - 1]
    [] OTHER -> s

Synced(c) ==
  LET s == [mw |-> mapWallet, h |-> m_last_block_processed_height, ok |-> TRUE] IN
  CASE c.type = "added" -> SyncTransactions(s, <<c.of>>, Plain("unconfirmed"))
    [] c.type = "connected" -> SyncTransactions([s EXCEPT !.h = nHeight[c.of]], Content[c.of], In(c.of))
    [] c.type = "disconnected" ->
         SyncTransactions([s EXCEPT !.h = nHeight[c.of] - 1], Content[c.of], Plain("unconfirmed"))
    [] OTHER -> s

TransactionAddedToMempool(c) ==
  /\ c.type = "added"
  /\ fInMempool' = fInMempool \cup ({c.of} \cap {t \in Tx : mapWallet'[t] # None})
  /\ UNCHANGED <<m_last_block_processed, bestblock, forgot>>

TransactionRemovedFromMempool(c) ==
  /\ c.type = "removed"
  /\ fInMempool' = fInMempool \ {c.of}
  /\ UNCHANGED <<m_last_block_processed, bestblock, forgot>>

(* Mutant: the conflicts the block removed from the pool are not passed on. *)
BlockConnectedKeepsConflicts(c) ==
  /\ c.type = "connected"
  /\ m_last_block_processed' = c.of
  /\ fInMempool' = fInMempool \ TxsOf(c.of)
  /\ UNCHANGED <<bestblock, forgot>>

BlockConnected(c) ==
  /\ c.type = "connected"
  /\ m_last_block_processed' = c.of
  /\ fInMempool' = fInMempool \ (TxsOf(c.of) \cup c.conflicted)
  /\ UNCHANGED <<bestblock, forgot>>

(* The hash is that of the block that went, the height that of its parent. *)
BlockDisconnected(c) ==
  /\ c.type = "disconnected"
  /\ m_last_block_processed' = c.of /\ forgot' = forgot \ {c.of}
  /\ UNCHANGED <<fInMempool, bestblock>>

SetBestChain(c) ==
  /\ c.type = "bestchain"
  /\ bestblock' = c.of
  /\ UNCHANGED <<fInMempool, m_last_block_processed, forgot>>

RunCallback ==
  /\ queue # << >> /\ queue' = Tail(queue)
  /\ \E s \in {Synced(Head(queue))} :
        /\ mapWallet' = s.mw /\ m_last_block_processed_height' = s.h
        /\ db' = Write(db, mapWallet, s.mw)
  /\ \/ TransactionAddedToMempool(Head(queue)) \/ TransactionRemovedFromMempool(Head(queue))
     \/ BlockConnected(Head(queue)) \/ BlockDisconnected(Head(queue)) \/ SetBestChain(Head(queue))
  /\ UNCHANGED <<tip, pool, disk, created, fFirstLoad>>

-----------------------------------------------------------------------------
(* Spending. *)

InMempool(t) == t \in fInMempool
Depth(t) == GetDepthInMainChain(mapWallet, m_last_block_processed_height, t)

(* Mutant: only confirmed transactions spend. *)
IsSpentConfirmed(o) == \E t \in SpendersOf(mapWallet, o) : Depth(t) > 0

(* Only a coinstake needs the pool to count: it cannot be sent again. *)
IsSpent(o) ==
  \E t \in SpendersOf(mapWallet, o) :
     \/ Depth(t) > 0
     \/ /\ Depth(t) = 0 /\ mapWallet[t].status # "abandoned"
        /\ t \in CoinStake => InMempool(t)

IsTrusted(t) ==
  \/ Depth(t) >= 1
  \/ /\ Depth(t) = 0 /\ InMempool(t) /\ IsFromMe(mapWallet, t)
     /\ \A o \in Inputs[t] : o[1] \in Known /\ o \in Mine

(* No coinstake matures within the blocks of the model. *)
AvailableCoins == {o \in Mine : o[1] \in Known \ CoinStake /\ IsTrusted(o[1]) /\ ~IsSpent(o)}

(* The coins are chosen and signed for, and the user sends later, or never. *)
CreateTransaction(t) ==
  /\ ~fFirstLoad /\ t \in Own \ created /\ mapWallet[t] = None /\ Inputs[t] \subseteq AvailableCoins
  /\ created' = created \cup {t}
  /\ UNCHANGED <<node, wallet, file, fFirstLoad, forgot>>

(* The loop of AbandonTransaction, for t that may be abandoned: s has a    *)
(* mapWallet and the flags.  An assertion fails at the transactions of bad.*)
MayAbandon(s, t) == GetDepthInMainChain(s.mw, m_last_block_processed_height, t) = 0 /\ t \notin s.in
Abandon(s, t) ==
  LET depth(u) == GetDepthInMainChain(s.mw, m_last_block_processed_height, u)
      change == {u \in Tx : s.mw[u] # None /\ depth(u) = 0 /\ s.mw[u].status # "abandoned"}
      visited == Reached(s.mw, {t}, change)
  IN [abandoned |-> visited \cap change,
      bad |-> {u \in visited : depth(u) > 0 \/ u \in change \cap s.in}]
Abandoned(mw, S) == [t \in Tx |-> IF t \in S THEN Plain("abandoned") ELSE mw[t]]

(* CWalletTx::AcceptToMemoryPool, under cs_main: s.added are the callbacks. *)
TryAccept(s, t) ==
  IF t \in s.pool THEN s
  ELSE IF Acceptable(t, s.pool, tip)
  THEN [s EXCEPT !.pool = @ \cup {t}, !.in = @ \cup {t}, !.added = Append(@, Added(t))]
  ELSE [s EXCEPT !.in = @ \ {t}]

(* Accepting, and abandoning what is not accepted and is in give. *)
AcceptOrAbandon(s, t, give) ==
  LET r == TryAccept(s, t) IN
  IF t \in give /\ (t \in s.pool \/ t \notin r.pool) /\ MayAbandon(r, t)
  THEN LET a == Abandon(r, t) IN
       [r EXCEPT !.mw = Abandoned(@, a.abandoned), !.bad = @ \cup a.bad]
  ELSE r

Holding(mw) == [mw |-> mw, in |-> fInMempool, pool |-> pool, added |-> << >>, bad |-> {}]
Apply(s) ==
  /\ s.bad = {}
  /\ mapWallet' = s.mw /\ db' = Write(db, mapWallet, s.mw)
  /\ fInMempool' = s.in /\ pool' = s.pool /\ queue' = queue \o s.added
  /\ UNCHANGED <<tip, disk, m_last_block_processed, m_last_block_processed_height, bestblock, forgot>>

CommitTransaction(t) ==
  /\ t \in created /\ created' = created \ {t}
  /\ Apply(AcceptOrAbandon(Holding([mapWallet EXCEPT ![t] = Plain("unconfirmed")]), t, {t}))
  /\ UNCHANGED fFirstLoad

-----------------------------------------------------------------------------
(* The end of the process and the next start: ReadDB, the chain of the     *)
(* last flush, and a scan from the last block of the locator that is in it.*)

Seen ==
  IF m_last_block_processed_height = nHeight[m_last_block_processed]
  THEN m_last_block_processed ELSE Parent[m_last_block_processed]

(* Mutant: what the file says is taken as it is. *)
LoadToWalletAsIs(c) == c

LoadToWallet(c) ==
  IF c # None /\ c.block \notin Chain[disk] \cup {None} THEN Plain("unconfirmed") ELSE c

ScanForWalletTransactions(mw, blocks) ==
  FoldLeft(LAMBDA s, b : SyncTransactions(s, Content[b], In(b)),
           [mw |-> mw, h |-> nHeight[disk], ok |-> TRUE], blocks)

Rescanned ==
  LET from == nHeight[Fork[bestblock, disk]] IN
  IF from = nHeight[disk] THEN << >>
  ELSE [i \in 1..(nHeight[disk] - from + 1) |-> At[disk][from + i - 1]]

(* forgot is not in the program: the blocks of the chain that are not      *)
(* scanned, as the locator has them, although the wallet had last seen     *)
(* them disconnected or, after an earlier start, not yet connected again.  *)
Restart(saved) ==
  /\ LET loaded == [t \in Tx |-> LoadToWallet(saved[t])] IN
     \E s \in {ScanForWalletTransactions(loaded, Rescanned)} :
        /\ s.ok /\ mapWallet' = s.mw /\ db' = Write(saved, loaded, s.mw)
  /\ tip' = disk /\ pool' = {} /\ queue' = << >> /\ fInMempool' = {} /\ created' = {}
  /\ m_last_block_processed' = disk /\ m_last_block_processed_height' = nHeight[disk]
  /\ bestblock' = IF Rescanned = << >> THEN bestblock ELSE disk
  /\ forgot' = {b \in Chain[disk] : b \notin Chain[Seen] \ forgot} \ ToSet(Rescanned)
  /\ fFirstLoad' = TRUE
  /\ UNCHANGED disk

Crash == Restart(db)

(* A failed assertion of AbandonTransaction ends the process with any part *)
(* of the work done.                                                       *)
Abort(s) ==
  /\ s.bad # {}
  /\ \E done \in SUBSET ({t \in Known : s.mw[t] # mapWallet[t]} \ s.bad) : Restart(Abandoned(db, done))

(* postInitProcess, when blocks and transactions may already arrive.       *)
(* order is that of insertion, in which no transaction comes before one it *)
(* spends from; old are the transactions of more than twelve hours.        *)
ReacceptWalletTransactions ==
  LET pending == {t \in Known \ CoinStake : Depth(t) = 0 /\ mapWallet[t].status # "abandoned"} IN
  /\ fFirstLoad
  /\ \E order \in {q \in SetToSeqs(pending) : \A i, j \in DOMAIN q :
                      i < j => q[j] \notin {o[1] : o \in Inputs[q[i]]}},
        old \in SUBSET pending :
        \E s \in {FoldLeft(LAMBDA r, t : AcceptOrAbandon(r, t, old), Holding(mapWallet), order)} :
           \/ Apply(s) /\ fFirstLoad' = FALSE /\ UNCHANGED created
           \/ Abort(s)

(* The RPC, at any moment once calls are answered. *)
AbandonTransaction(t) ==
  /\ ~fFirstLoad /\ mapWallet[t] # None /\ MayAbandon(Holding(mapWallet), t)
  /\ \E a \in {Abandon(Holding(mapWallet), t)} : \E s \in {[Holding(mapWallet) EXCEPT !.mw = Abandoned(@, a.abandoned), !.bad = a.bad]} :
        \/ a.abandoned # {} /\ Apply(s) /\ UNCHANGED <<created, fFirstLoad>>
        \/ Abort(s)

Init ==
  /\ tip = Genesis /\ pool = {} /\ disk = Genesis /\ queue = << >>
  /\ mapWallet = [t \in Tx |-> IF t \in TxsOf(Genesis) /\ IsMine(t) THEN In(Genesis) ELSE None]
  /\ fInMempool = {} /\ m_last_block_processed = Genesis /\ m_last_block_processed_height = 0
  /\ db = mapWallet /\ bestblock = Genesis
  /\ created = {} /\ fFirstLoad = TRUE /\ forgot = {}

Next ==
  \/ \E t \in Tx : AcceptToMemoryPool(t) \/ Evict(t)
  \/ \E b \in Block : ActivateBestChainStep(b)
  \/ \E fDoFullFlush, fSetChain \in BOOLEAN : FlushStateToDisk(fDoFullFlush, fSetChain)
  \/ RunCallback
  \/ \E t \in Tx : CreateTransaction(t) \/ CommitTransaction(t) \/ AbandonTransaction(t)
  \/ ReacceptWalletTransactions
  \/ Crash

Spec == Init /\ [][Next]_vars

-----------------------------------------------------------------------------
(* BlockConnected, BlockDisconnected, MarkConflicted and the scan of a     *)
(* start keep the wallet in step.  At any moment, whatever callbacks are   *)
(* pending, a transaction is confirmed in exactly the block that holds it  *)
(* in the chain up to the block last processed, and all there that         *)
(* concerns the wallet is in it, the blocks of forgot excepted.  One that  *)
(* is in conflict with a block there spends what a transaction of the      *)
(* block spends, or descends from one that does.  And a locator about to   *)
(* be written is that of the block last processed.                         *)
WalletFollows ==
  LET seen == Chain[Seen]
      rivals(b) == {u \in Known \ TxsOf(b) : Inputs[u] \cap SpentBy(TxsOf(b)) # {}} IN
  /\ \A t \in Known : mapWallet[t].status = "confirmed" =>
        mapWallet[t].block \in seen /\ t \in TxsOf(mapWallet[t].block)
  /\ \A b \in seen \ forgot : \A t \in TxsOf(b) :
        t \in Known \/ IsMine(t) \/ IsFromMe(mapWallet, t) => mapWallet[t] = In(b)
  /\ \A t \in Known : mapWallet[t].status = "conflicted" /\ mapWallet[t].block \in seen =>
        t \in Reached(mapWallet, rivals(mapWallet[t].block), Tx)
  /\ queue # << >> /\ Head(queue).type = "bestchain" => Head(queue).of = Seen

(* AddToWallet: "assert(wtx.m_confirm.hashBlock == wtxIn.m_confirm.hashBlock)" *)
(* and its like never fail in a callback or in the scan of a start, however    *)
(* reorganizations, crashes and reacceptance come together.                    *)
SyncAssertsHold ==
  /\ queue # << >> => Synced(Head(queue)).ok
  /\ ScanForWalletTransactions([t \in Tx |-> LoadToWallet(db[t])], Rescanned).ok

(* fInMempool is set by sending and by the callbacks, in an order of its   *)
(* own: once no callback is pending it is what the pool says.              *)
InMempoolExact == queue = << >> => fInMempool \cap Known = pool \cap Known

(* AvailableCoins: once no callback is pending, every coin offered is an   *)
(* output of the chain or the pool that neither spends, so that what       *)
(* CreateTransaction builds can be accepted.                               *)
OffersExact ==
  queue = << >> /\ forgot = {} =>
     \A o \in AvailableCoins :
        o[1] \in pool \cup InChain[tip] /\ o \notin SpentBy(pool \cup InChain[tip])

(* AbandonTransaction: "If the orig tx was not in block/mempool, none of   *)
(* its spends can be in mempool", once no callback is pending.             *)
AbandonSafe ==
  queue = << >> /\ forgot = {} => \A t \in Known :
     MayAbandon(Holding(mapWallet), t) => Abandon(Holding(mapWallet), t).bad = {}
=============================================================================
