----------------------------- MODULE CoinsCache -----------------------------
(***************************************************************************)
(* The coin caches of coins.cpp: the database CCoinsViewDB at the bottom,  *)
(* the long-lived cache pcoinsTip on top of it, and the short-lived        *)
(* CCoinsViewCache that ConnectTip and DisconnectTip open on pcoinsTip for *)
(* one block and then flush or drop.  All of it runs under cs_main, so an  *)
(* operation of a cache is one step; the operations of a block interleave  *)
(* freely with reads, evictions and flushes.                               *)
(*                                                                         *)
(* A coin is an opaque value: its amount, script and height are never told *)
(* apart by the caches.  The shielded half of the caches is in             *)
(* SaplingCache, the crash behaviour of the database in CoinsDB.           *)
(***************************************************************************)
CONSTANTS
  Outpoint,  \* the transaction outputs the model talks about
  Coin,      \* unspent coins
  Spent,     \* the null coin: Coin::IsSpent()
  Absent,    \* no entry in a cache's map
  Block,     \* block hashes
  Null       \* the null hash a cache starts with

\* A CCoinsCacheEntry: the coin and its flags.
Entry == [coin : Coin \cup {Spent}, flags : SUBSET {"DIRTY", "FRESH"}]

ASSUME CacheAssumption ==
  /\ Spent \notin Coin
  /\ Absent \notin Entry
  /\ Null \notin Block

VARIABLES
  db,         \* chainstate database: outpoint -> coin, Spent when there is no record
  tip,        \* pcoinsTip->cacheCoins
  view,       \* cacheCoins of the view of the block being processed
  open,       \* whether that view exists
  dbBlock,    \* DB_BEST_BLOCK, Null in a new database
  tipBlock    \* pcoinsTip->hashBlock, Null until first asked for

cacheVars == <<db, tip, view, open, dbBlock, tipBlock>>

Empty == [o \in Outpoint |-> Absent]

CacheTypeOK ==
  /\ db \in [Outpoint -> Coin \cup {Spent}]
  /\ tip \in [Outpoint -> Entry \cup {Absent}]
  /\ view \in [Outpoint -> Entry \cup {Absent}]
  /\ open \in BOOLEAN
  /\ dbBlock \in Block \cup {Null}
  /\ tipBlock \in Block \cup {Null}

-----------------------------------------------------------------------------
(* The operations of one cache, as functions of one entry of its map. *)

Has(e) == e # Absent
Dirty(e) == "DIRTY" \in e.flags
Fresh(e) == "FRESH" \in e.flags

\* FetchCoin: an entry already there is kept; otherwise the parent's coin is
\* copied, and the copy of a spent coin is FRESH.
FetchCoin(e, found, coin) ==
  IF Has(e) \/ ~found THEN e
  ELSE [coin |-> coin, flags |-> IF coin = Spent THEN {"FRESH"} ELSE {}]

\* AddCoin throws when it would replace an unspent coin it was not told about.
AddCoinThrows(e, overwrite) == ~overwrite /\ Has(e) /\ e.coin # Spent

AddCoin(e, c, overwrite) ==
  LET flags == IF Has(e) THEN e.flags ELSE {}
      fresh == ~overwrite /\ "DIRTY" \notin flags
  IN  [coin |-> c,
       flags |-> flags \cup {"DIRTY"} \cup IF fresh THEN {"FRESH"} ELSE {}]

\* SpendCoin, on the entry FetchCoin has found.
SpendCoin(e) ==
  IF ~Has(e) \/ Fresh(e) THEN Absent
  ELSE [coin |-> Spent, flags |-> e.flags \cup {"DIRTY"}]

\* CCoinsViewCache::BatchWrite, for one entry p of the parent and c of the child.
BatchWriteThrows(p, c) ==
  Has(c) /\ Dirty(c) /\ Fresh(c) /\ Has(p) /\ p.coin # Spent

\* Mutant: the FRESH flag of the child is copied onto an existing parent entry.
BatchWriteCopiesFresh(p, c) ==
  IF ~Has(c) \/ ~Dirty(c) THEN p
  ELSE IF ~Has(p)
       THEN IF Fresh(c) /\ c.coin = Spent THEN Absent ELSE c
       ELSE IF Fresh(p) /\ c.coin = Spent
            THEN Absent
            ELSE [coin |-> c.coin, flags |-> p.flags \cup c.flags]

BatchWrite(p, c) ==
  IF ~Has(c) \/ ~Dirty(c) THEN p
  ELSE IF ~Has(p)
       THEN IF Fresh(c) /\ c.coin = Spent THEN Absent ELSE c
       ELSE IF Fresh(p) /\ c.coin = Spent
            THEN Absent
            ELSE [coin |-> c.coin, flags |-> p.flags \cup {"DIRTY"}]

\* CCoinsViewDB::BatchWrite, for one record: DIRTY entries are written or erased.
DbWrite(coin, e) == IF Has(e) /\ Dirty(e) THEN e.coin ELSE coin

\* Mutant: Uncache looks at FRESH only, and drops an entry that was modified.
UncachedDirty(e) == IF Has(e) /\ ~Fresh(e) THEN Absent ELSE e

\* Uncache drops an entry that carries no flag.
Uncached(e) == IF Has(e) /\ ~Dirty(e) /\ ~Fresh(e) THEN Absent ELSE e

-----------------------------------------------------------------------------
(* Reading through the stack. *)

TipFetched(o) == FetchCoin(tip[o], db[o] # Spent, db[o])

\* A miss in the view asks pcoinsTip, which caches what it reads as well.
TipAsked(o) == IF Has(view[o]) THEN tip[o] ELSE TipFetched(o)

ViewFetched(o) == FetchCoin(view[o], Has(TipFetched(o)), TipFetched(o).coin)

\* HaveCoin on the view.
HaveCoin(o) == Has(ViewFetched(o)) /\ ViewFetched(o).coin # Spent

GetBestBlock(cached, base) == IF cached = Null THEN base ELSE cached

\* What each layer answers for an outpoint, and the block it stands for.
CoinOf(e, below) == IF Has(e) THEN e.coin ELSE below
TipCoin(o) == CoinOf(tip[o], db[o])
ViewCoin(o) == CoinOf(view[o], TipCoin(o))
TipBest == GetBestBlock(tipBlock, dbBlock)

-----------------------------------------------------------------------------
(* Processing a block: ConnectTip and DisconnectTip open a view, ConnectBlock *)
(* and DisconnectBlock work on it.                                            *)

\* Both first compare view.GetBestBlock() with the block they expect, which
\* caches it in the view and in pcoinsTip.
OpenView ==
  /\ ~open
  /\ open' = TRUE
  /\ view' = Empty
  /\ tipBlock' = TipBest
  /\ UNCHANGED <<db, tip, dbBlock>>

\* HaveInputs, AccessCoin, GetValueIn: reads that fill the caches.
ReadInView(o) ==
  /\ open
  /\ tip' = [tip EXCEPT ![o] = TipAsked(o)]
  /\ view' = [view EXCEPT ![o] = ViewFetched(o)]
  /\ UNCHANGED <<db, open, dbBlock, tipBlock>>

\* UpdateCoins, spending an input, and DisconnectBlock, removing an output.
SpendInView(o) ==
  /\ open
  /\ tip' = [tip EXCEPT ![o] = TipAsked(o)]
  /\ view' = [view EXCEPT ![o] = SpendCoin(ViewFetched(o))]
  /\ UNCHANGED <<db, open, dbBlock, tipBlock>>

\* UpdateCoins, adding an output: AddCoins with check = false, which relies on
\* the output not existing yet (BIP34: a transaction id is never repeated).
AddInView(o, c) ==
  /\ open
  /\ ViewCoin(o) = Spent
  /\ ~AddCoinThrows(view[o], FALSE)
  /\ view' = [view EXCEPT ![o] = AddCoin(view[o], c, FALSE)]
  /\ UNCHANGED <<db, tip, open, dbBlock, tipBlock>>

\* ApplyTxInUndo, and AddCoins with check = true: HaveCoin decides whether the
\* addition is an overwrite.
RestoreInView(o, c) ==
  /\ open
  /\ ~AddCoinThrows(ViewFetched(o), HaveCoin(o))
  /\ tip' = [tip EXCEPT ![o] = TipAsked(o)]
  /\ view' = [view EXCEPT ![o] = AddCoin(ViewFetched(o), c, HaveCoin(o))]
  /\ UNCHANGED <<db, open, dbBlock, tipBlock>>

\* ConnectBlock and DisconnectBlock end with SetBestBlock(b); view.Flush() then
\* merges every entry into pcoinsTip, and the view goes.  BatchWrite must not
\* throw on any of them.
FlushView(b) ==
  /\ open
  /\ \A o \in Outpoint : ~BatchWriteThrows(tip[o], view[o])
  /\ open' = FALSE
  /\ tip' = [o \in Outpoint |-> BatchWrite(tip[o], view[o])]
  /\ tipBlock' = b
  /\ view' = Empty
  /\ UNCHANGED <<db, dbBlock>>

\* ConnectBlock failed, or the view only served a check.
DropView ==
  /\ open
  /\ open' = FALSE
  /\ view' = Empty
  /\ UNCHANGED <<db, tip, dbBlock, tipBlock>>

-----------------------------------------------------------------------------
(* pcoinsTip on its own. *)

\* Reads by the mempool, the wallet and RPC.
ReadTip(o) ==
  /\ ~open
  /\ tip' = [tip EXCEPT ![o] = TipFetched(o)]
  /\ UNCHANGED <<db, view, open, dbBlock, tipBlock>>

\* AcceptToMemoryPool rejected a transaction and lets go of its inputs.
Uncache(o) ==
  /\ ~open
  /\ tip' = [tip EXCEPT ![o] = Uncached(tip[o])]
  /\ UNCHANGED <<db, view, open, dbBlock, tipBlock>>

\* pcoinsTip->Flush(), from FlushStateToDisk.  BatchWrite asserts that the
\* block it is given is not null.
FlushTip ==
  /\ ~open
  /\ tipBlock # Null
  /\ db' = [o \in Outpoint |-> DbWrite(db[o], tip[o])]
  /\ dbBlock' = tipBlock
  /\ tip' = Empty
  /\ UNCHANGED <<view, open, tipBlock>>

\* An existing database, or a new one; LoadChainTip has asked pcoinsTip for its
\* best block.
CacheInit ==
  /\ \/ db \in [Outpoint -> Coin \cup {Spent}] /\ dbBlock \in Block
     \/ db = [o \in Outpoint |-> Spent] /\ dbBlock = Null
  /\ tip = Empty
  /\ view = Empty
  /\ open = FALSE
  /\ tipBlock = dbBlock

CacheNext ==
  \/ OpenView
  \/ \E o \in Outpoint : ReadInView(o) \/ SpendInView(o)
  \/ \E o \in Outpoint, c \in Coin : AddInView(o, c) \/ RestoreInView(o, c)
  \/ \E b \in Block : FlushView(b)
  \/ DropView
  \/ \E o \in Outpoint : ReadTip(o) \/ Uncache(o)
  \/ FlushTip

CacheSpec == CacheInit /\ [][CacheNext]_cacheVars

-----------------------------------------------------------------------------
(* Properties. *)

\* An entry is faithful to the parent view's coin when FRESH means what coins.h
\* says (the parent has no unspent coin) and an entry that is not DIRTY agrees
\* with the parent.
Faithful(e, below) ==
  Has(e) => /\ Fresh(e) => below = Spent
            /\ ~Dirty(e) => e.coin = below

\* The flags of every cached entry mean what coins.h says they mean, however
\* fetches, spends, additions, evictions and flushes are interleaved: so skipping
\* an entry that is not DIRTY, and erasing one that is FRESH, loses nothing.
FlagsMeanWhatTheySay ==
  \A o \in Outpoint : Faithful(tip[o], db[o]) /\ Faithful(view[o], TipCoin(o))

\* The inductive invariant: types, flags, and an empty map when no view exists.
CacheInv == CacheTypeOK /\ FlagsMeanWhatTheySay /\ (~open => view = Empty)

\* Neither of the two logic errors can be thrown while a block is processed:
\* "Adding new coin that replaces non-pruned entry" (AddCoin, when the outputs of
\* a transaction are new) and "FRESH flag misapplied" (BatchWrite).
NoLogicError ==
  open => \A o \in Outpoint :
            /\ ViewCoin(o) = Spent => ~AddCoinThrows(view[o], FALSE)
            /\ ~AddCoinThrows(ViewFetched(o), HaveCoin(o))
            /\ ~BatchWriteThrows(tip[o], view[o])

\* The caches implement plain maps: whatever was cached, evicted, marked FRESH or
\* flushed, pcoinsTip and the open view answer as if there were no cache.
Flat ==
  INSTANCE UtxoSet WITH
    disk      <- db,
    utxo      <- [o \in Outpoint |-> TipCoin(o)],
    draft     <- [o \in Outpoint |-> ViewCoin(o)],
    diskBlock <- dbBlock,
    utxoBlock <- TipBest

ImplementsUtxoSet == Flat!Spec
=============================================================================
