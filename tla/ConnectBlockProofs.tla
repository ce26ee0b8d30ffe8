------------------------- MODULE ConnectBlockProofs -------------------------
(***************************************************************************)
(* Proofs about the parts ConnectBlock works with while it validates a     *)
(* block: the coin caches it reads and spends from (CoinsCache), for every *)
(* set of outpoints, coins and blocks, the queue its script checks run on  *)
(* (CheckQueue), for any number of workers, checks and blocks, and the     *)
(* nullifiers and anchors of the caches (SaplingCache), for any            *)
(* nullifiers, notes and numbers of blocks and leaves.                     *)
(*                                                                         *)
(* CheckQueue: a section is proved in two parts.  Mid says what holds of   *)
(* the values a section has computed when it reaches the inner loop,       *)
(* thread t counted apart; the three entries establish it, and the inner   *)
(* loop turns it into the invariant.                                       *)
(*                                                                         *)
(* CoinsCache: the first lemmas are about one entry of a cache, and the    *)
(* theorems lift them to the maps.                                         *)
(***************************************************************************)
EXTENDS CoinsCache, CheckQueue, SaplingCache, FiniteSetTheorems, TLAPS

-----------------------------------------------------------------------------
\* A place in a cache's map, and what a view can answer for an outpoint.
Slot == Entry \cup {Absent}
Answer == Coin \cup {Spent}

\* FetchCoin copies the parent's answer: the view's own answer does not change.
LEMMA FetchLemma ==
  ASSUME NEW e \in Slot, NEW below \in Answer, NEW found \in BOOLEAN,
         Faithful(e, below), ~found => below = Spent
  PROVE  /\ FetchCoin(e, found, below) \in Slot
         /\ Faithful(FetchCoin(e, found, below), below)
         /\ CoinOf(FetchCoin(e, found, below), below) = CoinOf(e, below)
         /\ (Has(FetchCoin(e, found, below)) \/ below = Spent)
BY CacheAssumption DEF CacheAssumption, Slot, Answer, Entry, Faithful, FetchCoin, CoinOf, Has, Dirty, Fresh

\* SpendCoin makes the view answer that the coin is spent.
LEMMA SpendLemma ==
  ASSUME NEW e \in Slot, NEW below \in Answer,
         Faithful(e, below), Has(e) \/ below = Spent
  PROVE  /\ SpendCoin(e) \in Slot
         /\ Faithful(SpendCoin(e), below)
         /\ CoinOf(SpendCoin(e), below) = Spent
BY CacheAssumption DEF CacheAssumption, Slot, Answer, Entry, Faithful, SpendCoin, CoinOf, Has, Dirty, Fresh

\* AddCoin makes the view answer with the new coin, provided the caller tells it
\* when there is a coin to overwrite.
LEMMA AddLemma ==
  ASSUME NEW e \in Slot, NEW below \in Answer, NEW c \in Coin,
         NEW overwrite \in BOOLEAN, Faithful(e, below),
         overwrite \/ CoinOf(e, below) = Spent
  PROVE  /\ AddCoin(e, c, overwrite) \in Entry
         /\ Faithful(AddCoin(e, c, overwrite), below)
         /\ CoinOf(AddCoin(e, c, overwrite), below) = c
BY CacheAssumption DEF CacheAssumption, Slot, Answer, Entry, Faithful, AddCoin, CoinOf, Has, Dirty, Fresh

\* BatchWrite makes the parent answer as the child did.
LEMMA BatchWriteLemma ==
  ASSUME NEW p \in Slot, NEW c \in Slot, NEW below \in Answer,
         Faithful(p, below), Faithful(c, CoinOf(p, below))
  PROVE  /\ BatchWrite(p, c) \in Slot
         /\ Faithful(BatchWrite(p, c), below)
         /\ CoinOf(BatchWrite(p, c), below) = CoinOf(c, CoinOf(p, below))
         /\ ~BatchWriteThrows(p, c)
BY CacheAssumption
   DEF CacheAssumption, Slot, Answer, Entry, Faithful, BatchWrite, BatchWriteThrows, CoinOf, Has, Dirty, Fresh

\* Writing the DIRTY entries makes the database hold what the cache answered.
LEMMA DbWriteLemma ==
  ASSUME NEW e \in Slot, NEW below \in Answer, Faithful(e, below)
  PROVE  DbWrite(below, e) = CoinOf(e, below) /\ DbWrite(below, e) \in Answer
BY Zenon, CacheAssumption DEF CacheAssumption, Slot, Answer, Entry, Faithful, DbWrite, CoinOf, Has, Dirty, Fresh

\* Uncache changes no answer.
LEMMA UncacheLemma ==
  ASSUME NEW e \in Slot, NEW below \in Answer, Faithful(e, below)
  PROVE  /\ Uncached(e) \in Slot
         /\ Faithful(Uncached(e), below)
         /\ CoinOf(Uncached(e), below) = CoinOf(e, below)
BY Zenon, CacheAssumption
   DEF CacheAssumption, Slot, Answer, Entry, Faithful, Uncached, CoinOf, Has, Dirty, Fresh

-----------------------------------------------------------------------------
(* Reading through the stack. *)

\* A fetch through pcoinsTip fills its cache and changes no answer.
LEMMA TipReadLemma ==
  ASSUME CacheInv, NEW o \in Outpoint
  PROVE  /\ TipCoin(o) \in Answer
         /\ TipFetched(o) \in Slot
         /\ Faithful(TipFetched(o), db[o])
         /\ CoinOf(TipFetched(o), db[o]) = TipCoin(o)
         /\ Has(TipFetched(o)) \/ TipCoin(o) = Spent
         /\ TipAsked(o) \in Slot
         /\ Faithful(TipAsked(o), db[o])
         /\ CoinOf(TipAsked(o), db[o]) = TipCoin(o)
<1>1. tip[o] \in Slot /\ db[o] \in Answer /\ Faithful(tip[o], db[o])
  BY Zenon DEF CacheInv, CacheTypeOK, FlagsMeanWhatTheySay, Slot, Answer
<1>2. TipCoin(o) \in Answer
  BY Zenon, <1>1 DEF TipCoin, CoinOf, Slot, Answer, Entry, Has
<1>3. /\ TipFetched(o) \in Slot
      /\ Faithful(TipFetched(o), db[o])
      /\ CoinOf(TipFetched(o), db[o]) = TipCoin(o)
      /\ Has(TipFetched(o)) \/ db[o] = Spent
  BY Zenon, <1>1, FetchLemma DEF TipFetched, TipCoin
<1>4. Has(TipFetched(o)) \/ TipCoin(o) = Spent
  BY Zenon, <1>3 DEF CoinOf
<1> QED
  BY Zenon, <1>1, <1>2, <1>3, <1>4 DEF TipAsked, TipCoin

\* A fetch through the view fills both caches and changes no answer.
LEMMA ViewReadLemma ==
  ASSUME CacheInv, NEW o \in Outpoint
  PROVE  /\ ViewCoin(o) \in Answer
         /\ ViewFetched(o) \in Slot
         /\ Faithful(ViewFetched(o), TipCoin(o))
         /\ CoinOf(ViewFetched(o), TipCoin(o)) = ViewCoin(o)
         /\ Has(ViewFetched(o)) \/ TipCoin(o) = Spent
         /\ HaveCoin(o) <=> ViewCoin(o) # Spent
<1>1. view[o] \in Slot /\ Faithful(view[o], TipCoin(o))
  BY Zenon DEF CacheInv, CacheTypeOK, FlagsMeanWhatTheySay, Slot
<1>2. ViewCoin(o) \in Answer
  BY Zenon, <1>1, TipReadLemma DEF ViewCoin, CoinOf, Slot, Answer, Entry, Has
<1>3. ViewFetched(o) = FetchCoin(view[o], Has(TipFetched(o)), TipCoin(o))
  BY Zenon, TipReadLemma DEF ViewFetched, FetchCoin, CoinOf
<1>4. Has(TipFetched(o)) \in BOOLEAN
  BY Zenon DEF Has
<1>5. /\ ViewFetched(o) \in Slot
      /\ Faithful(ViewFetched(o), TipCoin(o))
      /\ CoinOf(ViewFetched(o), TipCoin(o)) = ViewCoin(o)
      /\ Has(ViewFetched(o)) \/ TipCoin(o) = Spent
  BY <1>1, <1>3, <1>4, TipReadLemma, FetchLemma DEF ViewCoin
<1> QED
  BY Zenon, <1>2, <1>5 DEF HaveCoin, CoinOf

-----------------------------------------------------------------------------
(* The invariant, and what each kind of step does to the answers. *)

\* What the steps that change at most one entry of each cache have in common.
LEMMA EntryStep ==
  ASSUME CacheInv,
         NEW o \in Outpoint, NEW t \in Slot, NEW v \in Slot,
         Faithful(t, db[o]), CoinOf(t, db[o]) = TipCoin(o),
         Faithful(v, TipCoin(o)), open \/ v = view[o],
         tip' = [tip EXCEPT ![o] = t],
         view' = [view EXCEPT ![o] = v],
         UNCHANGED <<db, open, dbBlock, tipBlock>>
  PROVE  /\ CacheInv'
         /\ TipBest' = TipBest
         /\ \A x \in Outpoint :
              /\ TipCoin(x)' = TipCoin(x)
              /\ ViewCoin(x)' = IF x = o THEN CoinOf(v, TipCoin(o)) ELSE ViewCoin(x)
<1>1. CacheTypeOK'
  BY Zenon DEF CacheInv, CacheTypeOK, Slot
<1>2. ASSUME NEW x \in Outpoint
      PROVE  /\ TipCoin(x)' = TipCoin(x)
             /\ Faithful(tip[x], db[x])'
             /\ Faithful(view[x], TipCoin(x))'
             /\ ViewCoin(x)' = IF x = o THEN CoinOf(v, TipCoin(o)) ELSE ViewCoin(x)
  <2>1. /\ tip'[x] = IF x = o THEN t ELSE tip[x]
        /\ view'[x] = IF x = o THEN v ELSE view[x]
        /\ db'[x] = db[x]
    BY Zenon DEF CacheInv, CacheTypeOK
  <2>2. Faithful(tip[x], db[x]) /\ Faithful(view[x], TipCoin(x))
    BY Zenon DEF CacheInv, FlagsMeanWhatTheySay
  <2>3. TipCoin(x)' = TipCoin(x)
    BY Zenon, <2>1 DEF TipCoin
  <2> QED
    BY <2>1, <2>2, <2>3 DEF ViewCoin, Faithful
<1>3. (~open => view = Empty)'
  BY Zenon DEF CacheInv, CacheTypeOK, Empty
<1> QED
  BY Zenon, <1>1, <1>2, <1>3 DEF CacheInv, FlagsMeanWhatTheySay, TipBest

\* The steps that read or evict: no answer changes.
LEMMA QuietStep ==
  ASSUME CacheInv,
         NEW o \in Outpoint, NEW t \in Slot, NEW v \in Slot,
         Faithful(t, db[o]), CoinOf(t, db[o]) = TipCoin(o),
         Faithful(v, TipCoin(o)), CoinOf(v, TipCoin(o)) = ViewCoin(o),
         open \/ v = view[o],
         tip' = [tip EXCEPT ![o] = t],
         view' = [view EXCEPT ![o] = v],
         UNCHANGED <<db, open, dbBlock, tipBlock>>
  PROVE  CacheInv' /\ UNCHANGED Flat!vars
<1>1. /\ CacheInv'
      /\ TipBest' = TipBest
      /\ \A x \in Outpoint : TipCoin(x)' = TipCoin(x) /\ ViewCoin(x)' = ViewCoin(x)
  BY Zenon, EntryStep
<1>2. [x \in Outpoint |-> ViewCoin(x)]' = [x \in Outpoint |-> ViewCoin(x)]
  BY Zenon, <1>1
<1>3. [x \in Outpoint |-> TipCoin(x)]' = [x \in Outpoint |-> TipCoin(x)]
  BY Zenon, <1>1
<1> QED
  BY Zenon, <1>1, <1>2, <1>3 DEF Flat!vars

LEMMA ReadStep ==
  ASSUME CacheInv, NEW o \in Outpoint,
         ReadInView(o) \/ ReadTip(o) \/ Uncache(o)
  PROVE  CacheInv' /\ UNCHANGED Flat!vars
<1>0. /\ tip[o] \in Slot /\ view[o] \in Slot /\ db[o] \in Answer
      /\ Faithful(tip[o], db[o]) /\ Faithful(view[o], TipCoin(o))
      /\ CoinOf(tip[o], db[o]) = TipCoin(o)
      /\ CoinOf(view[o], TipCoin(o)) = ViewCoin(o)
      /\ view = [view EXCEPT ![o] = view[o]]
  BY Zenon DEF CacheInv, CacheTypeOK, FlagsMeanWhatTheySay, Slot, Answer, TipCoin, ViewCoin
<1>1. CASE ReadInView(o)
  <2>1. open /\ UNCHANGED <<db, open, dbBlock, tipBlock>>
    BY Zenon, <1>1 DEF ReadInView
  <2> QED
    BY Zenon, <1>1, <2>1, TipReadLemma, ViewReadLemma, QuietStep DEF ReadInView
<1>2. CASE ReadTip(o)
  <2>1. UNCHANGED <<db, open, dbBlock, tipBlock>> /\ view' = [view EXCEPT ![o] = view[o]]
    BY Zenon, <1>0, <1>2 DEF ReadTip
  <2> QED
    BY Zenon, <1>0, <1>2, <2>1, TipReadLemma, QuietStep DEF ReadTip
<1>3. CASE Uncache(o)
  <2>1. UNCHANGED <<db, open, dbBlock, tipBlock>> /\ view' = [view EXCEPT ![o] = view[o]]
    BY Zenon, <1>0, <1>3 DEF Uncache
  <2>2. /\ Uncached(tip[o]) \in Slot
        /\ Faithful(Uncached(tip[o]), db[o])
        /\ CoinOf(Uncached(tip[o]), db[o]) = TipCoin(o)
    BY Zenon, <1>0, UncacheLemma
  <2> QED
    BY Zenon, <1>0, <1>3, <2>1, <2>2, QuietStep DEF Uncache
<1> QED
  BY Zenon, <1>1, <1>2, <1>3

\* The steps that change the open view: its answer for one outpoint changes.
LEMMA ChangeStep ==
  ASSUME CacheInv, open,
         NEW o \in Outpoint, NEW t \in Slot, NEW v \in Slot,
         Faithful(t, db[o]), CoinOf(t, db[o]) = TipCoin(o),
         Faithful(v, TipCoin(o)),
         tip' = [tip EXCEPT ![o] = t],
         view' = [view EXCEPT ![o] = v],
         UNCHANGED <<db, open, dbBlock, tipBlock>>
  PROVE  CacheInv' /\ Flat!Change(o, CoinOf(v, TipCoin(o)))
<1>1. /\ CacheInv'
      /\ TipBest' = TipBest
      /\ \A x \in Outpoint :
           /\ TipCoin(x)' = TipCoin(x)
           /\ ViewCoin(x)' = IF x = o THEN CoinOf(v, TipCoin(o)) ELSE ViewCoin(x)
  BY Zenon, EntryStep
<1>2. [x \in Outpoint |-> ViewCoin(x)]'
        = [[x \in Outpoint |-> ViewCoin(x)] EXCEPT ![o] = CoinOf(v, TipCoin(o))]
  BY Zenon, <1>1
<1>3. [x \in Outpoint |-> TipCoin(x)]' = [x \in Outpoint |-> TipCoin(x)]
  BY Zenon, <1>1
<1> QED
  BY Zenon, <1>1, <1>2, <1>3 DEF Flat!Change

LEMMA SpendStep ==
  ASSUME CacheInv, NEW o \in Outpoint, SpendInView(o)
  PROVE  CacheInv' /\ Flat!Change(o, Spent)
<1>1. /\ SpendCoin(ViewFetched(o)) \in Slot
      /\ Faithful(SpendCoin(ViewFetched(o)), TipCoin(o))
      /\ CoinOf(SpendCoin(ViewFetched(o)), TipCoin(o)) = Spent
  BY Zenon, TipReadLemma, ViewReadLemma, SpendLemma
<1>2. open /\ UNCHANGED <<db, open, dbBlock, tipBlock>>
  BY Zenon DEF SpendInView
<1> QED
  BY Zenon, <1>1, <1>2, TipReadLemma, ChangeStep DEF SpendInView

LEMMA AddStep ==
  ASSUME CacheInv, NEW o \in Outpoint, NEW c \in Coin, AddInView(o, c)
  PROVE  CacheInv' /\ Flat!Change(o, c)
<1>0. /\ tip[o] \in Slot /\ view[o] \in Slot /\ db[o] \in Answer
      /\ Faithful(tip[o], db[o]) /\ Faithful(view[o], TipCoin(o))
  BY Zenon DEF CacheInv, CacheTypeOK, FlagsMeanWhatTheySay, Slot, Answer
<1>1. /\ AddCoin(view[o], c, FALSE) \in Slot
      /\ Faithful(AddCoin(view[o], c, FALSE), TipCoin(o))
      /\ CoinOf(AddCoin(view[o], c, FALSE), TipCoin(o)) = c
  <2>1. TipCoin(o) \in Answer
    BY Zenon, TipReadLemma
  <2>2. CoinOf(view[o], TipCoin(o)) = Spent
    BY Zenon DEF AddInView, ViewCoin
  <2>3. /\ AddCoin(view[o], c, FALSE) \in Entry
        /\ Faithful(AddCoin(view[o], c, FALSE), TipCoin(o))
        /\ CoinOf(AddCoin(view[o], c, FALSE), TipCoin(o)) = c
    BY Zenon, <1>0, <2>1, <2>2, AddLemma
  <2> QED
    BY Zenon, <2>3 DEF Slot
<1>2. tip' = [tip EXCEPT ![o] = tip[o]]
  BY Zenon DEF AddInView, CacheInv, CacheTypeOK
<1>3. open /\ UNCHANGED <<db, open, dbBlock, tipBlock>>
  BY Zenon DEF AddInView
<1>4. CoinOf(tip[o], db[o]) = TipCoin(o)
  BY Zenon DEF TipCoin
<1> QED
  BY Zenon, <1>0, <1>1, <1>2, <1>3, <1>4, ChangeStep DEF AddInView

LEMMA RestoreStep ==
  ASSUME CacheInv, NEW o \in Outpoint, NEW c \in Coin, RestoreInView(o, c)
  PROVE  CacheInv' /\ Flat!Change(o, c)
<1>1. HaveCoin(o) \in BOOLEAN
  BY Zenon DEF HaveCoin
<1>2. /\ AddCoin(ViewFetched(o), c, HaveCoin(o)) \in Slot
      /\ Faithful(AddCoin(ViewFetched(o), c, HaveCoin(o)), TipCoin(o))
      /\ CoinOf(AddCoin(ViewFetched(o), c, HaveCoin(o)), TipCoin(o)) = c
  BY <1>1, TipReadLemma, ViewReadLemma, AddLemma DEF Slot
<1>3. open /\ UNCHANGED <<db, open, dbBlock, tipBlock>>
  BY Zenon DEF RestoreInView
<1> QED
  BY Zenon, <1>2, <1>3, TipReadLemma, ChangeStep DEF RestoreInView

\* Flushing the view: pcoinsTip answers as the view did.
LEMMA FlushViewStep ==
  ASSUME CacheInv, NEW b \in Block, FlushView(b)
  PROVE  CacheInv' /\ Flat!Commit(b)
<1>1. ASSUME NEW x \in Outpoint
      PROVE  /\ tip'[x] \in Slot
             /\ Faithful(tip[x], db[x])'
             /\ Faithful(view[x], TipCoin(x))'
             /\ TipCoin(x)' = ViewCoin(x)
             /\ ViewCoin(x)' = ViewCoin(x)
  <2>1. /\ tip[x] \in Slot /\ view[x] \in Slot /\ db[x] \in Answer
        /\ Faithful(tip[x], db[x]) /\ Faithful(view[x], CoinOf(tip[x], db[x]))
    BY Zenon DEF CacheInv, CacheTypeOK, FlagsMeanWhatTheySay, Slot, Answer, TipCoin
  <2>2. /\ tip'[x] = BatchWrite(tip[x], view[x])
        /\ view'[x] = Absent
        /\ db'[x] = db[x]
    BY Zenon DEF FlushView, Empty
  <2>3. /\ BatchWrite(tip[x], view[x]) \in Slot
        /\ Faithful(BatchWrite(tip[x], view[x]), db[x])
        /\ CoinOf(BatchWrite(tip[x], view[x]), db[x])
             = CoinOf(view[x], CoinOf(tip[x], db[x]))
    BY Zenon, <2>1, BatchWriteLemma
  <2> QED
    BY Zenon, <2>2, <2>3 DEF TipCoin, ViewCoin, Faithful, CoinOf, Has
<1>2. CacheTypeOK'
  BY Zenon, <1>1 DEF FlushView, CacheInv, CacheTypeOK, Empty, Slot
<1>3. CacheInv'
  BY Zenon, <1>1, <1>2 DEF CacheInv, FlagsMeanWhatTheySay, FlushView
<1>4. TipBest' = b
  BY Zenon, CacheAssumption DEF CacheAssumption, FlushView, TipBest, GetBestBlock
<1> QED
  BY Zenon, <1>1, <1>3, <1>4 DEF Flat!Commit, FlushView

\* Flushing pcoinsTip: the database holds what pcoinsTip answered.
LEMMA FlushTipStep ==
  ASSUME CacheInv, FlushTip
  PROVE  CacheInv' /\ Flat!Persist
<1>1. ASSUME NEW x \in Outpoint
      PROVE  /\ db'[x] = TipCoin(x)
             /\ db'[x] \in Answer
             /\ Faithful(tip[x], db[x])'
             /\ Faithful(view[x], TipCoin(x))'
             /\ TipCoin(x)' = TipCoin(x)
             /\ ViewCoin(x)' = ViewCoin(x)
  <2>1. tip[x] \in Slot /\ db[x] \in Answer /\ Faithful(tip[x], db[x])
    BY Zenon DEF CacheInv, CacheTypeOK, FlagsMeanWhatTheySay, Slot, Answer
  <2>2. /\ db'[x] = DbWrite(db[x], tip[x])
        /\ tip'[x] = Absent
        /\ view'[x] = Absent
        /\ view[x] = Absent
    BY Zenon DEF FlushTip, Empty, CacheInv
  <2>3. DbWrite(db[x], tip[x]) = TipCoin(x) /\ DbWrite(db[x], tip[x]) \in Answer
    BY Zenon, <2>1, DbWriteLemma DEF TipCoin
  <2> QED
    BY Zenon, <2>2, <2>3 DEF TipCoin, ViewCoin, Faithful, CoinOf, Has
<1>2. CacheTypeOK'
  BY Zenon, <1>1 DEF FlushTip, CacheInv, CacheTypeOK, Empty, Answer
<1>3. CacheInv'
  BY Zenon, <1>1, <1>2 DEF CacheInv, FlagsMeanWhatTheySay, FlushTip
<1>4. dbBlock' = TipBest /\ TipBest' = TipBest
  BY Zenon DEF FlushTip, TipBest, GetBestBlock
<1>5. db' = [x \in Outpoint |-> TipCoin(x)]
  BY Zenon, <1>1 DEF FlushTip
<1> QED
  BY Zenon, <1>1, <1>3, <1>4, <1>5 DEF Flat!Persist, FlushTip

\* Opening and dropping the view.
LEMMA OpenViewStep ==
  ASSUME CacheInv, OpenView
  PROVE  CacheInv' /\ Flat!Open
<1>1. CacheInv'
  BY Zenon, CacheAssumption DEF CacheAssumption, CacheInv, CacheTypeOK, FlagsMeanWhatTheySay,
     OpenView, Empty, TipBest, GetBestBlock, TipCoin
<1>2. TipBest' = TipBest
  BY Zenon DEF OpenView, TipBest, GetBestBlock
<1>3. view' = view /\ tip' = tip /\ db' = db
  BY Zenon DEF OpenView, CacheInv
<1> QED
  BY Zenon, <1>1, <1>2, <1>3 DEF Flat!Open, OpenView, TipCoin, ViewCoin

LEMMA DropViewStep ==
  ASSUME CacheInv, DropView
  PROVE  CacheInv' /\ Flat!Discard
<1>1. ASSUME NEW x \in Outpoint
      PROVE  /\ TipCoin(x)' = TipCoin(x)
             /\ ViewCoin(x)' = TipCoin(x)
             /\ Faithful(tip[x], db[x])'
             /\ Faithful(view[x], TipCoin(x))'
  BY Zenon DEF DropView, CacheInv, FlagsMeanWhatTheySay, TipCoin, ViewCoin, CoinOf, Has,
         Faithful, Empty
<1>2. CacheInv'
  BY Zenon, <1>1 DEF DropView, CacheInv, CacheTypeOK, FlagsMeanWhatTheySay, Empty
<1>3. TipBest' = TipBest
  BY Zenon DEF DropView, TipBest
<1> QED
  BY Zenon, <1>1, <1>2, <1>3 DEF Flat!Discard, DropView

-----------------------------------------------------------------------------
(* Every step keeps the invariant and is a step of UtxoSet, or changes none of *)
(* its maps.                                                                   *)

LEMMA InitLemma ==
  ASSUME CacheInit
  PROVE  CacheInv /\ Flat!Init
<1>1. /\ db \in [Outpoint -> Coin \cup {Spent}]
      /\ dbBlock \in Block \cup {Null}
      /\ tipBlock = dbBlock /\ open = FALSE /\ tip = Empty /\ view = Empty
  BY Zenon DEF CacheInit
<1>2. CacheInv
  BY Zenon, <1>1 DEF CacheInv, CacheTypeOK, FlagsMeanWhatTheySay, Faithful, Has, Empty
<1>3. TipBest = dbBlock
  BY Zenon, <1>1 DEF TipBest, GetBestBlock
<1>4. \A o \in Outpoint : TipCoin(o) = db[o] /\ ViewCoin(o) = db[o]
  BY Zenon, <1>1 DEF TipCoin, ViewCoin, CoinOf, Has, Empty
<1>5. /\ [o \in Outpoint |-> TipCoin(o)] = db
      /\ [o \in Outpoint |-> ViewCoin(o)] = db
  BY Zenon, <1>1, <1>4
<1> QED
  BY Zenon, <1>1, <1>2, <1>3, <1>5 DEF Flat!Init

LEMMA StepLemma ==
  ASSUME CacheInv, [CacheNext]_cacheVars
  PROVE  CacheInv' /\ [Flat!Next]_(Flat!vars)
<1>1. CASE OpenView
  BY Zenon, <1>1, OpenViewStep DEF Flat!Next
<1>2. ASSUME NEW o \in Outpoint, ReadInView(o) \/ ReadTip(o) \/ Uncache(o)
      PROVE  CacheInv' /\ UNCHANGED Flat!vars
  BY Zenon, <1>2, ReadStep
<1>3. ASSUME NEW o \in Outpoint, SpendInView(o)
      PROVE  CacheInv' /\ Flat!Next
  BY Zenon, <1>3, SpendStep DEF Flat!Next
<1>4. ASSUME NEW o \in Outpoint, NEW c \in Coin, AddInView(o, c) \/ RestoreInView(o, c)
      PROVE  CacheInv' /\ Flat!Next
  <2>1. CacheInv' /\ Flat!Change(o, c)
    BY Zenon, <1>4, AddStep, RestoreStep
  <2> QED
    BY Zenon, <2>1 DEF Flat!Next
<1>5. ASSUME NEW b \in Block, FlushView(b)
      PROVE  CacheInv' /\ Flat!Next
  BY Zenon, <1>5, FlushViewStep DEF Flat!Next
<1>6. CASE DropView
  BY Zenon, <1>6, DropViewStep DEF Flat!Next
<1>7. CASE FlushTip
  BY Zenon, <1>7, FlushTipStep DEF Flat!Next
<1>8. CASE UNCHANGED cacheVars
  BY Zenon, <1>8 DEF cacheVars, CacheInv, CacheTypeOK, FlagsMeanWhatTheySay, TipCoin, ViewCoin,
              TipBest, Flat!vars
<1> QED
  BY Zenon, <1>1, <1>2, <1>3, <1>4, <1>5, <1>6, <1>7, <1>8 DEF CacheNext

\* The types hold and the DIRTY and FRESH flags mean what coins.h says, in every
\* reachable state of the caches.
THEOREM FlagsCorrect == CacheSpec => [](CacheTypeOK /\ FlagsMeanWhatTheySay)
<1>1. CacheInit => CacheInv
  BY Zenon, InitLemma
<1>2. CacheInv /\ [CacheNext]_cacheVars => CacheInv'
  BY Zenon, StepLemma
<1>3. CacheInv => CacheTypeOK /\ FlagsMeanWhatTheySay
  BY Zenon DEF CacheInv
<1> QED
  BY <1>1, <1>2, <1>3, PTL DEF CacheSpec

\* Neither AddCoin nor BatchWrite can throw its logic error.
THEOREM NoLogicErrorThrown == CacheSpec => []NoLogicError
<1>1. CacheInit => CacheInv
  BY Zenon, InitLemma
<1>2. CacheInv /\ [CacheNext]_cacheVars => CacheInv'
  BY Zenon, StepLemma
<1>3. CacheInv => NoLogicError
  <2> SUFFICES ASSUME CacheInv, NEW o \in Outpoint
               PROVE  /\ ViewCoin(o) = Spent => ~AddCoinThrows(view[o], FALSE)
                      /\ ~AddCoinThrows(ViewFetched(o), HaveCoin(o))
                      /\ ~BatchWriteThrows(tip[o], view[o])
    BY Zenon DEF NoLogicError
  <2>1. ViewCoin(o) = Spent => ~AddCoinThrows(view[o], FALSE)
    BY Zenon DEF AddCoinThrows, ViewCoin, CoinOf
  <2>2. ~AddCoinThrows(ViewFetched(o), HaveCoin(o))
    BY Zenon DEF AddCoinThrows, HaveCoin
  <2>3. ~BatchWriteThrows(tip[o], view[o])
    BY Zenon, BatchWriteLemma
       DEF CacheInv, CacheTypeOK, FlagsMeanWhatTheySay, Slot, Answer, TipCoin
  <2> QED
    BY Zenon, <2>1, <2>2, <2>3
<1> QED
  BY <1>1, <1>2, <1>3, PTL DEF CacheSpec

\* The layered caches implement the flat maps of UtxoSet: caching, eviction, the
\* FRESH optimisation and flushing are invisible, and a block's changes reach
\* pcoinsTip together or not at all.
THEOREM CachesAreTransparent == CacheSpec => ImplementsUtxoSet
<1>1. CacheInit => CacheInv /\ Flat!Init
  BY Zenon, InitLemma
<1>2. CacheInv /\ [CacheNext]_cacheVars => CacheInv' /\ [Flat!Next]_(Flat!vars)
  BY Zenon, StepLemma
<1> QED
  BY <1>1, <1>2, PTL DEF CacheSpec, ImplementsUtxoSet, Flat!Spec

-----------------------------------------------------------------------------
\* The threads that have a batch, and those in a wait.
Busy(p) == {t \in Thread : p[t] = "work"}
Waiters(p) == {t \in Thread : p[t] \in {"wait", "woken"}}

\* The checks in the queue and in the batches of the threads other than t.
Rest(t) == queue \cup UNION {vChecks[u] : u \in Thread \ {t}}

\* Where the master is.
MasterPlace ==
  /\ pc[Master] # "gone"
  /\ control = "none" => nTodo = 0 /\ fAllOk
  /\ control # "none" => result = "none"
  /\ control \in {"none", "open"} => pc[Master] = "out"

Batches ==
  /\ \A t \in Thread : vChecks[t] # {} <=> pc[t] = "work"
  /\ Outstanding \subseteq added

Counts ==
  /\ nTotal = nIdle + Cardinality(Busy(pc))
  /\ nIdle >= Cardinality(Waiters(pc))

\* What fAllOk and the threads' copies of it say of the block's checks.
Verdict ==
  /\ control # "none" /\ fAllOk => added \ Outstanding \subseteq good
  /\ ~fAllOk => ~(added \subseteq good)
  /\ \A t \in Thread : pc[t] = "work" /\ ~fOk[t] => ~(added \subseteq good)
  /\ AnswerIsRight

Consistent == MasterPlace /\ Batches /\ TodoExact /\ Counts /\ Verdict

\* The values a section has when thread t reaches the inner loop.
Mid(t, idle, total, todo, allOk, p) ==
  /\ idle \in Nat /\ total \in Nat /\ todo \in Nat /\ allOk \in BOOLEAN
  /\ p \in [Thread -> {"out", "work", "wait", "woken", "gone"}]
  /\ todo = Cardinality(Rest(t))
  /\ total = idle + Cardinality(Busy(p) \ {t}) + 1
  /\ idle >= Cardinality(Waiters(p) \ {t})
  /\ \A u \in Thread \ {t} : p[u] = "work" <=> pc[u] = "work"
  /\ p[Master] = pc[Master] \/ (pc[Master] = "wait" /\ p[Master] = "woken")
  /\ t = Master => p = pc /\ control \in {"wait", "drop"}
  /\ control # "dead"
  /\ control # "none" /\ allOk => added \ Rest(t) \subseteq good
  /\ ~allOk => ~(added \subseteq good)
  /\ control = "none" => todo = 0 /\ allOk

-----------------------------------------------------------------------------
\* Threads and checks are finite.
LEMMA Finite ==
  /\ IsFiniteSet(Thread)
  /\ \A S \in SUBSET Thread : IsFiniteSet(S) /\ Cardinality(S) \in Nat
  /\ \A S \in SUBSET Check : IsFiniteSet(S) /\ Cardinality(S) \in Nat
<1>1. IsFiniteSet({Master})
  BY Zenon, FS_Singleton
<1>2. IsFiniteSet(Thread)
  BY Zenon, <1>1, FS_Union, QueueAssumption DEF QueueAssumption, Thread
<1>3. ASSUME NEW S \in SUBSET Thread PROVE IsFiniteSet(S) /\ Cardinality(S) \in Nat
  BY Zenon, <1>2, FS_Subset, FS_CardinalityType
<1>4. ASSUME NEW S \in SUBSET Check PROVE IsFiniteSet(S) /\ Cardinality(S) \in Nat
  BY Zenon, FS_Subset, FS_CardinalityType, QueueAssumption DEF QueueAssumption
<1> QED
  BY Zenon, <1>2, <1>3, <1>4

\* The size of a disjoint union.
LEMMA DisjointUnion ==
  ASSUME NEW S, NEW T, IsFiniteSet(S), IsFiniteSet(T), S \cap T = {}
  PROVE  Cardinality(S \cup T) = Cardinality(S) + Cardinality(T)
<1>1. Cardinality(S \cap T) = 0
  BY Zenon, FS_EmptySet
<1>2. Cardinality(S \cup T) = Cardinality(S) + Cardinality(T) - Cardinality(S \cap T)
  BY Zenon, FS_Union
<1>3. Cardinality(S) \in Nat /\ Cardinality(T) \in Nat
  BY Zenon, FS_CardinalityType
<1> QED
  BY <1>1, <1>2, <1>3

\* A batch is never empty.
LEMMA ShareLemma ==
  ASSUME NEW idle \in Nat, NEW total \in Nat, queue \in SUBSET Check
  PROVE  Share(idle, total) # 0
<1>1. Cardinality(queue) \in Nat
  BY Zenon, Finite
<1>2. Cardinality(queue) \div (total + idle + 1) \in Nat
  BY <1>1
<1>3. BatchSize \in Nat
  BY Zenon, QueueAssumption DEF QueueAssumption
<1> QED
  BY <1>2, <1>3 DEF Share, Least

\* The inner loop ends with the invariant.
LEMMA InnerLemma ==
  ASSUME TypeOK, Consistent, NEW t \in Thread,
         NEW idle, NEW total, NEW todo, NEW allOk, NEW p,
         Mid(t, idle, total, todo, allOk, p),
         Inner(t, idle, total, todo, allOk, p)
  PROVE  TypeOK' /\ Consistent'
<1> Master \in Thread
  BY Zenon DEF Thread
<1>a. Rest(t) \in SUBSET Check
  BY DEF TypeOK, Rest
<1>b. UNCHANGED <<added, good, blocks>> /\ nTodo' = todo
  BY Zenon DEF Inner, block
<1>c. Rest(t) \subseteq added
  BY Zenon DEF Consistent, Batches, Rest, Outstanding
<1>1. CASE queue = {} /\ t = Master /\ todo = 0 /\ Return(idle, total, allOk)
  <2> USE <1>1
  <2>1. Rest(t) = {}
    BY Zenon, <1>a, Finite, FS_EmptySet DEF Mid
  <2>2. Outstanding' = {}
    BY <2>1 DEF Return, Outstanding, Rest, TypeOK
  <2>3. Busy(pc') = Busy(p) \ {t} /\ Waiters(pc') = Waiters(p) \ {t}
    BY Zenon DEF Return, Busy, Waiters, TypeOK, Mid
  <2>4. Cardinality(Busy(p) \ {t}) \in Nat /\ Cardinality(Waiters(p) \ {t}) \in Nat
    BY Zenon, Finite DEF Busy, Waiters
  <2>5. TypeOK'
    BY <1>b, <2>4 DEF TypeOK, Return, Mid
  <2>6. MasterPlace'
    BY Zenon, <1>b DEF MasterPlace, Return, TypeOK
  <2>7. Batches'
    BY Zenon, <2>2 DEF Batches, Consistent, Return, TypeOK
  <2>8. TodoExact'
    BY Zenon, <1>b, <2>2, FS_EmptySet DEF TodoExact, Consistent, Return, TypeOK
  <2>9. Counts'
    <3>1. Cardinality(Busy(pc')) = Cardinality(Busy(p) \ {t})
          /\ Cardinality(Waiters(pc')) = Cardinality(Waiters(p) \ {t})
      BY Zenon, <2>3
    <3>2. nTotal' = idle + Cardinality(Busy(p) \ {t}) /\ nIdle' = idle
      BY <2>4 DEF Return, Mid
    <3> QED
      BY Zenon, <2>4, <3>1, <3>2 DEF Counts, Mid
  <2>10. Verdict'
    <3>1. allOk <=> added \subseteq good
      BY Zenon, <2>1 DEF Mid
    <3> QED
      BY Zenon, <1>b, <3>1 DEF Verdict, Consistent, Return, AnswerIsRight, TypeOK, Mid
  <2> QED
    BY Zenon, <2>5, <2>6, <2>7, <2>8, <2>9, <2>10 DEF Consistent
<1>2. CASE queue = {} /\ ~(t = Master /\ todo = 0) /\ Sleep(t, idle, total, allOk, p)
  <2> USE <1>2
  <2>1. pc' \in [Thread -> {"out", "work", "wait", "woken", "gone"}]
        /\ (\A u \in Thread \ {t} : pc'[u] = p[u]) /\ pc'[t] \in {"wait", "gone", "out"}
    BY Zenon DEF Sleep, Throw, Mid
  <2>2. Outstanding' = Rest(t)
    BY Zenon DEF Sleep, Outstanding, Rest, TypeOK
  <2>3. Busy(pc') = Busy(p) \ {t} /\ Waiters(pc') \subseteq (Waiters(p) \ {t}) \cup {t}
    BY Zenon, <2>1 DEF Busy, Waiters
  <2>4. Cardinality(Busy(p) \ {t}) \in Nat /\ Cardinality(Waiters(p) \ {t}) \in Nat
        /\ IsFiniteSet(Waiters(p) \ {t}) /\ IsFiniteSet((Waiters(p) \ {t}) \cup {t})
    BY Zenon, Finite DEF Busy, Waiters
  <2>5. Cardinality((Waiters(p) \ {t}) \cup {t}) = Cardinality(Waiters(p) \ {t}) + 1
    BY Zenon, <2>4, FS_AddElement
  <2>6. Cardinality(Waiters(pc')) \in Nat
        /\ Cardinality(Waiters(pc')) <= Cardinality((Waiters(p) \ {t}) \cup {t})
    <3>1. Waiters(pc') \in SUBSET Thread
      BY Zenon DEF Waiters
    <3> QED
      BY Zenon, <3>1, <2>3, <2>4, FS_Subset, Finite
  <2>7. control' \in {control, "drop", "dead"} /\ (t # Master => control' = control)
    BY Zenon DEF Sleep, Throw
  <2>8. TypeOK'
    <3>1. request' \in [Thread -> {"none", "made", "taken"}]
      BY Zenon DEF Sleep, Throw, TypeOK
    <3>2. vChecks' \in [Thread -> SUBSET Check] /\ control' \in {"none", "open", "wait", "drop", "dead"}
      BY Zenon, <2>7 DEF Sleep, TypeOK
    <3>3. nIdle' \in Nat /\ nTotal' \in Nat /\ nTodo' \in Nat /\ fAllOk' \in BOOLEAN
      BY <1>b DEF Sleep, Mid
    <3>4. UNCHANGED <<queue, fOk, result>>
      BY Zenon DEF Sleep
    <3> QED
      BY Zenon, <1>b, <2>1, <3>1, <3>2, <3>3, <3>4 DEF TypeOK
  <2>9. MasterPlace'
    BY Zenon, <1>b, <2>1, <2>7 DEF MasterPlace, Consistent, Sleep, Throw, Mid
  <2>10. Batches'
    <3>1. ASSUME NEW u \in Thread PROVE vChecks'[u] # {} <=> pc'[u] = "work"
      BY <2>1 DEF Batches, Consistent, Sleep, Mid, TypeOK
    <3> QED
      BY Zenon, <3>1, <2>2, <1>b, <1>c DEF Batches
  <2>11. TodoExact'
    BY Zenon, <1>b, <2>2 DEF TodoExact, Consistent, Sleep, TypeOK, Mid
  <2>12. Counts'
    BY <2>3, <2>4, <2>5, <2>6 DEF Counts, Sleep, Mid
  <2>13. Verdict'
    <3>1. ASSUME NEW u \in Thread, pc'[u] = "work", ~fOk'[u] PROVE ~(added \subseteq good)
      BY Zenon, <3>1, <2>1 DEF Verdict, Consistent, Sleep, Mid
    <3>2. result' = result /\ fAllOk' = allOk
      BY Zenon DEF Sleep
    <3>3. control # "none" => control' # "none"
      BY Zenon, <2>7
    <3>4. control' # "none" => control # "none"
      BY Zenon, <2>7 DEF Mid
    <3> QED
      BY Zenon, <1>b, <2>2, <3>1, <3>2, <3>4 DEF Verdict, Consistent, AnswerIsRight, Mid
  <2> QED
    BY Zenon, <2>8, <2>9, <2>10, <2>11, <2>12, <2>13 DEF Consistent
<1>3. CASE queue # {} /\ Take(t, idle, total, allOk, p)
  <2> USE <1>3
  <2>0. PICK batch \in SUBSET queue :
           /\ Cardinality(batch) = Share(idle, total)
           /\ queue' = queue \ batch
           /\ vChecks' = [vChecks EXCEPT ![t] = batch]
    BY Zenon DEF Take
  <2>1. batch # {} /\ batch \in SUBSET Check
    BY Zenon, <2>0, ShareLemma, FS_EmptySet DEF TypeOK, Mid
  <2>2. Outstanding' = Rest(t)
    BY Zenon, <2>0 DEF Outstanding, Rest, TypeOK
  <2>3. Busy(pc') = (Busy(p) \ {t}) \cup {t} /\ Waiters(pc') = Waiters(p) \ {t}
    BY Zenon DEF Take, Busy, Waiters, Mid
  <2>4. Cardinality(Busy(p) \ {t}) \in Nat /\ IsFiniteSet(Busy(p) \ {t})
        /\ Cardinality(Waiters(p) \ {t}) \in Nat
    BY Zenon, Finite DEF Busy, Waiters
  <2>5. Cardinality((Busy(p) \ {t}) \cup {t}) = Cardinality(Busy(p) \ {t}) + 1
    BY Zenon, <2>4, FS_AddElement
  <2>6. control # "none"
    <3>1. Rest(t) # {}
      BY Zenon DEF Rest
    <3> QED
      BY Zenon, <3>1, <1>a, Finite, FS_EmptySet DEF Mid
  <2>7. TypeOK'
    BY Zenon, <1>b, <2>0, <2>1 DEF TypeOK, Take, Mid
  <2>8. MasterPlace'
    BY Zenon, <2>6 DEF MasterPlace, Consistent, Take, Mid
  <2>9. Batches'
    <3>1. ASSUME NEW u \in Thread PROVE vChecks'[u] # {} <=> pc'[u] = "work"
      BY Zenon, <2>0, <2>1 DEF Batches, Consistent, Take, Mid, TypeOK
    <3> QED
      BY Zenon, <3>1, <2>2, <1>b, <1>c DEF Batches
  <2>10. TodoExact'
    <3>1. ASSUME NEW u \in Thread PROVE vChecks'[u] \cap queue' = {}
      BY Zenon, <2>0 DEF TodoExact, Consistent, TypeOK
    <3>2. ASSUME NEW u \in Thread, NEW v \in Thread, u # v
          PROVE  vChecks'[u] \cap vChecks'[v] = {}
      BY Zenon, <2>0, <3>2 DEF TodoExact, Consistent, TypeOK
    <3> QED
      BY Zenon, <1>b, <2>2, <3>1, <3>2 DEF TodoExact, Mid
  <2>11. Counts'
    <3>1. Cardinality(Busy(pc')) = Cardinality(Busy(p) \ {t}) + 1
          /\ Cardinality(Waiters(pc')) = Cardinality(Waiters(p) \ {t})
      BY Zenon, <2>3, <2>5
    <3>2. nTotal' = idle + Cardinality(Busy(p) \ {t}) + 1 /\ nIdle' = idle
      BY Zenon, <2>4 DEF Take, Mid
    <3> QED
      BY <2>4, <3>1, <3>2 DEF Counts, Mid
  <2>12. Verdict'
    <3>1. ASSUME NEW u \in Thread, pc'[u] = "work", ~fOk'[u] PROVE ~(added \subseteq good)
      <4>1. CASE u = t
        BY Zenon, <3>1, <4>1 DEF Take, Mid, TypeOK
      <4>2. CASE u # t
        BY Zenon, <3>1, <4>2 DEF Take, Mid, TypeOK, Verdict, Consistent
      <4> QED
        BY Zenon, <4>1, <4>2
    <3>2. result' = result /\ fAllOk' = allOk /\ control' = control
      BY Zenon DEF Take
    <3> QED
      BY Zenon, <1>b, <2>2, <3>1, <3>2 DEF Verdict, Consistent, AnswerIsRight, Mid
  <2> QED
    BY Zenon, <2>7, <2>8, <2>9, <2>10, <2>11, <2>12 DEF Consistent
<1> QED
  BY Zenon, <1>1, <1>2, <1>3 DEF Inner

\* A thread that enters Loop is counted, and has no batch yet.
LEMMA EnterStep ==
  ASSUME TypeOK, Consistent, NEW t \in Thread, EnterLoop(t)
  PROVE  TypeOK' /\ Consistent'
<1> Master \in Thread
  BY Zenon DEF Thread
<1>1. vChecks[t] = {} /\ t \notin Busy(pc) /\ t \notin Waiters(pc)
  BY Zenon DEF EnterLoop, Consistent, Batches, Busy, Waiters
<1>2. Rest(t) = Outstanding
  BY Zenon, <1>1 DEF Rest, Outstanding
<1>3. Busy(pc) \ {t} = Busy(pc) /\ Waiters(pc) \ {t} = Waiters(pc)
  BY Zenon, <1>1
<1>4. Cardinality(Busy(pc)) \in Nat
  BY Zenon, Finite DEF Busy
<1>5. Mid(t, nIdle, nTotal + 1, nTodo, fAllOk, pc)
  <2>1. nTotal + 1 = nIdle + Cardinality(Busy(pc) \ {t}) + 1
    BY Zenon, <1>3, <1>4 DEF TypeOK, Consistent, Counts
  <2>2. nIdle >= Cardinality(Waiters(pc) \ {t})
    BY Zenon, <1>3 DEF Consistent, Counts
  <2>3. nTodo = Cardinality(Rest(t))
    BY Zenon, <1>2 DEF Consistent, TodoExact
  <2> QED
    BY <1>2, <2>1, <2>2, <2>3 DEF Mid, TypeOK, EnterLoop, Consistent, MasterPlace, Verdict
<1> QED
  BY Zenon, <1>5, InnerLemma DEF EnterLoop

\* A thread that finishes its batch takes the batch off nTodo.
LEMMA FinishStep ==
  ASSUME TypeOK, Consistent, NEW t \in Thread, FinishBatch(t)
  PROVE  TypeOK' /\ Consistent'
<1> DEFINE ok == fOk[t] /\ vChecks[t] \subseteq good
           todo == nTodo - Cardinality(vChecks[t])
           p == IF todo = 0 /\ t # Master /\ pc[Master] = "wait"
                THEN [pc EXCEPT ![Master] = "woken"] ELSE pc
<1> Master \in Thread
  BY Zenon DEF Thread
<1>1. pc[t] = "work" /\ vChecks[t] # {} /\ t \in Busy(pc) /\ t \notin Waiters(pc)
  BY Zenon DEF FinishBatch, Consistent, Batches, Busy, Waiters
<1>2. Rest(t) = Outstanding \ vChecks[t] /\ Outstanding = Rest(t) \cup vChecks[t]
      /\ Rest(t) \cap vChecks[t] = {}
  BY DEF Rest, Outstanding, Consistent, TodoExact, TypeOK
<1>3. todo = Cardinality(Rest(t)) /\ todo \in Nat
  <2>1. Rest(t) \in SUBSET Check /\ vChecks[t] \in SUBSET Check
    BY DEF Rest, TypeOK
  <2>2. Cardinality(Outstanding) = Cardinality(Rest(t)) + Cardinality(vChecks[t])
    BY Zenon, <1>2, <2>1, Finite, DisjointUnion
  <2>3. Cardinality(Rest(t)) \in Nat /\ Cardinality(vChecks[t]) \in Nat
    BY Zenon, <2>1, Finite
  <2>4. nTodo = Cardinality(Outstanding)
    BY Zenon DEF Consistent, TodoExact
  <2> QED
    BY <2>2, <2>3, <2>4
<1> HIDE DEF todo
<1>4. p \in [Thread -> {"out", "work", "wait", "woken", "gone"}]
      /\ Busy(p) = Busy(pc) /\ Waiters(p) = Waiters(pc)
      /\ (\A u \in Thread \ {t} : p[u] = "work" <=> pc[u] = "work")
      /\ (p[Master] = pc[Master] \/ (pc[Master] = "wait" /\ p[Master] = "woken"))
  BY Zenon DEF TypeOK, Busy, Waiters
<1> HIDE DEF p
<1>5. Cardinality(Busy(pc)) = Cardinality(Busy(pc) \ {t}) + 1
      /\ Cardinality(Busy(pc)) \in Nat /\ Cardinality(Busy(pc) \ {t}) \in Nat
  <2>1. IsFiniteSet(Busy(pc)) /\ Cardinality(Busy(pc)) \in Nat /\ Cardinality(Busy(pc) \ {t}) \in Nat
    BY Zenon, Finite DEF Busy
  <2>2. Cardinality(Busy(pc) \ {t}) = Cardinality(Busy(pc)) - 1
    BY Zenon, <1>1, <2>1, FS_RemoveElement
  <2> QED
    BY <2>1, <2>2
<1>6. Waiters(pc) \ {t} = Waiters(pc)
  BY Zenon, <1>1
<1>7. Mid(t, nIdle, nTotal, todo, fAllOk /\ ok, p)
  <2>1. nTotal = nIdle + Cardinality(Busy(p) \ {t}) + 1
    BY <1>4, <1>5 DEF TypeOK, Consistent, Counts
  <2>2. nIdle >= Cardinality(Waiters(p) \ {t})
    BY Zenon, <1>4, <1>6 DEF Consistent, Counts
  <2>3. control # "dead" /\ control # "none" /\ (t = Master => p = pc /\ control \in {"wait", "drop"})
    <3>1. nTodo # 0
      <4>1. Cardinality(vChecks[t]) \in Nat /\ Cardinality(vChecks[t]) # 0
        BY Zenon, <1>1, Finite, FS_EmptySet DEF TypeOK
      <4> QED
        BY <4>1, <1>3 DEF TypeOK, todo
    <3> QED
      BY Zenon, <1>1, <3>1 DEF FinishBatch, Consistent, MasterPlace, TypeOK, p
  <2>4. fAllOk /\ ok => added \ Rest(t) \subseteq good
    BY Zenon, <1>2, <2>3 DEF Consistent, Verdict
  <2>5. ~(fAllOk /\ ok) => ~(added \subseteq good)
    <3>1. vChecks[t] \subseteq added
      BY Zenon, <1>2 DEF Consistent, Batches
    <3> QED
      BY Zenon, <1>1, <3>1 DEF Consistent, Verdict
  <2>6. (fAllOk /\ ok) \in BOOLEAN /\ nIdle \in Nat /\ nTotal \in Nat
    BY Zenon DEF TypeOK
  <2> HIDE DEF ok
  <2> QED
    BY Zenon, <1>3, <1>4, <2>1, <2>2, <2>3, <2>4, <2>5, <2>6 DEF Mid
<1>8. Inner(t, nIdle, nTotal, todo, fAllOk /\ ok, p)
  BY Zenon DEF FinishBatch, todo, p
<1> QED
  BY Zenon, <1>7, <1>8, InnerLemma

\* A thread that wakes is idle no more.
LEMMA WakeStep ==
  ASSUME TypeOK, Consistent, NEW t \in Thread, Wake(t)
  PROVE  TypeOK' /\ Consistent'
<1> Master \in Thread
  BY Zenon DEF Thread
<1>1. vChecks[t] = {} /\ t \notin Busy(pc) /\ t \in Waiters(pc)
  BY Zenon DEF Wake, Consistent, Batches, Busy, Waiters
<1>2. Rest(t) = Outstanding
  BY Zenon, <1>1 DEF Rest, Outstanding
<1>3. Cardinality(Busy(pc) \ {t}) = Cardinality(Busy(pc)) /\ Cardinality(Busy(pc)) \in Nat
  <2>1. Busy(pc) \ {t} = Busy(pc)
    BY Zenon, <1>1
  <2> QED
    BY Zenon, <2>1, Finite DEF Busy
<1>4. Cardinality(Waiters(pc)) = Cardinality(Waiters(pc) \ {t}) + 1
      /\ Cardinality(Waiters(pc) \ {t}) \in Nat
  <2>1. IsFiniteSet(Waiters(pc)) /\ Cardinality(Waiters(pc)) \in Nat
        /\ Cardinality(Waiters(pc) \ {t}) \in Nat
    BY Zenon, Finite DEF Waiters
  <2>2. Cardinality(Waiters(pc) \ {t}) = Cardinality(Waiters(pc)) - 1
    BY Zenon, <1>1, <2>1, FS_RemoveElement
  <2> QED
    BY <2>1, <2>2
<1>5. nIdle - 1 \in Nat /\ nIdle - 1 >= Cardinality(Waiters(pc) \ {t})
  BY <1>4 DEF TypeOK, Consistent, Counts
<1>6. nTotal = (nIdle - 1) + Cardinality(Busy(pc) \ {t}) + 1
  BY <1>3 DEF TypeOK, Consistent, Counts
<1>7. nTodo = Cardinality(Rest(t))
  BY Zenon, <1>2 DEF Consistent, TodoExact
<1>8. t = Master => control \in {"wait", "drop"}
  BY Zenon DEF Wake, Consistent, MasterPlace, TypeOK
<1>9. Mid(t, nIdle - 1, nTotal, nTodo, fAllOk, pc)
  <2>1. control # "none" /\ fAllOk => added \ Rest(t) \subseteq good
    BY Zenon, <1>2 DEF Consistent, Verdict
  <2>2. (~fAllOk => ~(added \subseteq good)) /\ (control = "none" => nTodo = 0 /\ fAllOk)
    BY Zenon DEF Consistent, Verdict, MasterPlace
  <2> QED
    BY Zenon, <1>5, <1>6, <1>7, <1>8, <2>1, <2>2 DEF Mid, TypeOK, Wake
<1> QED
  BY Zenon, <1>9, InnerLemma DEF Wake

\* The invariant is inductive.
LEMMA ConsistentStep ==
  ASSUME TypeOK, Consistent, [Next]_vars
  PROVE  TypeOK' /\ Consistent'
<1> Master \in Thread
  BY Zenon DEF Thread
<1>1. ASSUME NEW t \in Thread, EnterLoop(t) PROVE TypeOK' /\ Consistent'
  BY Zenon, <1>1, EnterStep
<1>2. ASSUME NEW t \in Thread, FinishBatch(t) PROVE TypeOK' /\ Consistent'
  BY Zenon, <1>2, FinishStep
<1>3. ASSUME NEW t \in Thread, Wake(t) PROVE TypeOK' /\ Consistent'
  BY Zenon, <1>3, WakeStep
<1>4. ASSUME NEW t \in Thread, Interrupted(t) PROVE TypeOK' /\ Consistent'
  <2> USE <1>4
  <2>1. UNCHANGED <<queue, nIdle, nTotal, nTodo, fAllOk, vChecks, fOk, result, added, good, blocks>>
    BY Zenon DEF Interrupted, counters, block
  <2>2. pc' \in [Thread -> {"out", "work", "wait", "woken", "gone"}] /\ pc[t] \in {"wait", "woken"}
        /\ (\A u \in Thread \ {t} : pc'[u] = pc[u]) /\ pc'[t] \in {"gone", "out"}
        /\ (t = Master => pc'[t] = "out")
    BY Zenon DEF Interrupted, Throw, TypeOK
  <2>3. (t # Master => control' = control) /\ (t = Master => control' \in {"drop", "dead"})
        /\ (t = Master => control \in {"wait", "drop"})
    BY Zenon DEF Interrupted, Throw, Consistent, MasterPlace, TypeOK
  <2>4. Busy(pc') = Busy(pc) /\ Waiters(pc') \subseteq Waiters(pc)
    BY Zenon, <2>2 DEF Busy, Waiters
  <2>5. Cardinality(Waiters(pc')) \in Nat /\ Cardinality(Waiters(pc)) \in Nat
        /\ Cardinality(Waiters(pc')) <= Cardinality(Waiters(pc))
    BY Zenon, <2>4, Finite, FS_Subset DEF Waiters
  <2>6. Outstanding' = Outstanding
    BY Zenon, <2>1 DEF Outstanding
  <2>7. TypeOK'
    <3>1. request' \in [Thread -> {"none", "made", "taken"}]
      BY Zenon DEF Interrupted, Throw, TypeOK
    <3> QED
      BY Zenon, <2>1, <2>2, <2>3, <3>1 DEF TypeOK
  <2>8. Counts'
    <3>1. nIdle' >= Cardinality(Waiters(pc'))
      BY <2>1, <2>5 DEF Consistent, Counts, TypeOK
    <3> QED
      BY Zenon, <2>1, <2>4, <3>1 DEF Consistent, Counts
  <2>9. MasterPlace'
    BY Zenon, <2>1, <2>2, <2>3 DEF Consistent, MasterPlace
  <2>10. Batches' /\ TodoExact'
    BY Zenon, <2>1, <2>2, <2>6 DEF Consistent, Batches, TodoExact
  <2>11. Verdict'
    BY Zenon, <2>1, <2>2, <2>3, <2>6 DEF Consistent, Verdict, AnswerIsRight
  <2> QED
    BY Zenon, <2>7, <2>8, <2>9, <2>10, <2>11 DEF Consistent
<1>5. ASSUME NEW t \in Thread, SpuriousWake(t) PROVE TypeOK' /\ Consistent'
  <2> USE <1>5
  <2>1. UNCHANGED <<queue, nIdle, nTotal, nTodo, fAllOk, vChecks, fOk, request, control, result,
                    added, good, blocks>>
    BY Zenon DEF SpuriousWake, counters, block
  <2>2. pc' \in [Thread -> {"out", "work", "wait", "woken", "gone"}] /\ pc[t] = "wait"
        /\ (\A u \in Thread \ {t} : pc'[u] = pc[u]) /\ pc'[t] = "woken"
    BY Zenon DEF SpuriousWake, TypeOK
  <2>3. Busy(pc') = Busy(pc) /\ Waiters(pc') = Waiters(pc)
    BY Zenon, <2>2 DEF Busy, Waiters
  <2>4. Outstanding' = Outstanding
    BY Zenon, <2>1 DEF Outstanding
  <2>5. TypeOK'
    BY Zenon, <2>1, <2>2 DEF TypeOK
  <2>6. Counts'
    BY Zenon, <2>1, <2>3 DEF Consistent, Counts
  <2>7. MasterPlace'
    BY Zenon, <2>1, <2>2 DEF Consistent, MasterPlace
  <2>8. Batches' /\ TodoExact'
    BY Zenon, <2>1, <2>2, <2>4 DEF Consistent, Batches, TodoExact
  <2>9. Verdict'
    BY Zenon, <2>1, <2>2, <2>4 DEF Consistent, Verdict, AnswerIsRight
  <2> QED
    BY Zenon, <2>5, <2>6, <2>7, <2>8, <2>9 DEF Consistent
<1>6. ASSUME NEW t \in Thread, Interrupt(t) PROVE TypeOK' /\ Consistent'
  <2>1. /\ UNCHANGED <<queue, nIdle, nTotal, nTodo, fAllOk, pc, vChecks, fOk, control, result, added, good, blocks>>
        /\ request' = [request EXCEPT ![t] = "made"]
    BY Zenon, <1>6 DEF Interrupt, counters, block
  <2>2. TypeOK'
    BY Zenon, <2>1 DEF TypeOK
  <2>3. Outstanding' = Outstanding /\ Busy(pc)' = Busy(pc) /\ Waiters(pc)' = Waiters(pc)
    BY Zenon, <2>1 DEF Outstanding, Busy, Waiters
  <2>4. MasterPlace' /\ Counts'
    BY Zenon, <2>1, <2>3 DEF Consistent, MasterPlace, Counts
  <2>5. Batches' /\ TodoExact'
    BY Zenon, <2>1, <2>3 DEF Consistent, Batches, TodoExact
  <2>6. Verdict'
    BY Zenon, <2>1, <2>3 DEF Consistent, Verdict, AnswerIsRight
  <2> QED
    BY Zenon, <2>2, <2>4, <2>5, <2>6 DEF Consistent
<1>7. CASE CloseControl
  <2>1. /\ UNCHANGED <<queue, nIdle, nTotal, nTodo, fAllOk, pc, vChecks, fOk, request, result, added, good, blocks>>
        /\ control = "open" /\ control' \in {"wait", "drop"}
    BY Zenon, <1>7 DEF CloseControl, counters, block
  <2>2. TypeOK'
    BY Zenon, <2>1 DEF TypeOK
  <2>3. Outstanding' = Outstanding /\ Busy(pc)' = Busy(pc) /\ Waiters(pc)' = Waiters(pc)
    BY Zenon, <2>1 DEF Outstanding, Busy, Waiters
  <2>4. MasterPlace' /\ Counts'
    BY Zenon, <2>1, <2>3 DEF Consistent, MasterPlace, Counts
  <2>5. Batches' /\ TodoExact'
    BY Zenon, <2>1, <2>3 DEF Consistent, Batches, TodoExact
  <2>6. Verdict'
    BY Zenon, <2>1, <2>3 DEF Consistent, Verdict, AnswerIsRight
  <2> QED
    BY Zenon, <2>2, <2>4, <2>5, <2>6 DEF Consistent
<1>8. CASE OpenControl
  <2> USE <1>8
  <2>1. UNCHANGED <<queue, nIdle, nTotal, nTodo, fAllOk, pc, vChecks, fOk, request>>
    BY Zenon DEF OpenControl, counters
  <2>2. Outstanding = {} /\ Outstanding' = {}
    <3>1. Outstanding \in SUBSET Check /\ Cardinality(Outstanding) = 0
      BY DEF OpenControl, Consistent, MasterPlace, TodoExact, TypeOK, Outstanding
    <3> QED
      BY Zenon, <2>1, <3>1, Finite, FS_EmptySet DEF Outstanding
  <2>3. \A t \in Thread : pc[t] # "work"
    BY <2>2 DEF Consistent, Batches, Outstanding
  <2>4. TypeOK'
    <3>1. blocks' \in 0 .. MaxBlocks
      BY QueueAssumption DEF OpenControl, TypeOK, QueueAssumption
    <3>2. added' \in SUBSET Check /\ good' \in SUBSET Check /\ control' = "open" /\ result' = "none"
      BY Zenon DEF OpenControl
    <3> QED
      BY Zenon, <2>1, <3>1, <3>2 DEF TypeOK
  <2>5. MasterPlace' /\ Batches' /\ TodoExact' /\ Counts'
    BY Zenon, <2>1, <2>2 DEF OpenControl, Consistent, MasterPlace, Batches, TodoExact, Counts
  <2>6. Verdict'
    BY Zenon, <2>1, <2>2, <2>3 DEF OpenControl, Consistent, Verdict, MasterPlace, AnswerIsRight
  <2> QED
    BY Zenon, <2>4, <2>5, <2>6 DEF Consistent
<1>9. ASSUME NEW S \in SUBSET Check, Add(S) PROVE TypeOK' /\ Consistent'
  <2> USE <1>9
  <2>1. UNCHANGED <<nIdle, nTotal, fAllOk, vChecks, fOk, request, control, good, result, blocks>>
    BY Zenon DEF Add
  <2>2. pc' \in [Thread -> {"out", "work", "wait", "woken", "gone"}]
        /\ \A u \in Thread : pc'[u] = pc[u] \/ (u # Master /\ pc[u] = "wait" /\ pc'[u] = "woken")
    <3>1. PICK woken \in Notified(S) :
             pc' = [t \in Thread |-> IF t \in woken THEN "woken" ELSE pc[t]]
      BY Zenon DEF Add
    <3>2. woken \subseteq {w \in Worker : pc[w] = "wait"}
      BY Zenon, <3>1 DEF Notified
    <3> QED
      BY Zenon, <3>1, <3>2, QueueAssumption DEF QueueAssumption, TypeOK
  <2>3. Busy(pc') = Busy(pc) /\ Waiters(pc') = Waiters(pc)
    BY Zenon, <2>2 DEF Busy, Waiters
  <2>4. Outstanding' = Outstanding \cup S /\ Outstanding \cap S = {}
    BY <2>1 DEF Add, Outstanding, Consistent, Batches
  <2>5. Cardinality(S) \in Nat /\ nTodo' = Cardinality(Outstanding') /\ nTodo' \in Nat
    <3>1. Outstanding \in SUBSET Check
      BY DEF Outstanding, TypeOK
    <3>2. Cardinality(Outstanding \cup S) = Cardinality(Outstanding) + Cardinality(S)
      BY Zenon, <3>1, <2>4, Finite, DisjointUnion
    <3>3. Cardinality(S) \in Nat
      BY Zenon, Finite
    <3> QED
      BY <2>4, <3>2, <3>3 DEF Add, Consistent, TodoExact, TypeOK
  <2>6. TypeOK'
    BY Zenon, <2>1, <2>2, <2>5 DEF Add, TypeOK
  <2>7. MasterPlace'
    BY Zenon, <2>1, <2>2 DEF Add, Consistent, MasterPlace
  <2>8. Batches'
    BY Zenon, <2>1, <2>2, <2>4 DEF Add, Consistent, Batches
  <2>9. TodoExact'
    <3>1. \A t \in Thread : vChecks[t] \cap S = {}
      BY <2>4 DEF Outstanding
    <3> QED
      BY Zenon, <2>1, <2>5, <3>1 DEF Add, Consistent, TodoExact
  <2>10. Counts'
    BY Zenon, <2>1, <2>3 DEF Consistent, Counts
  <2>11. Verdict'
    <3>1. \A t \in Thread : pc'[t] = "work" => pc[t] = "work"
      BY Zenon, <2>2
    <3>2. added' = added \cup S /\ result = "none" /\ control # "none"
      BY Zenon DEF Add, Consistent, MasterPlace
    <3> QED
      BY Zenon, <2>1, <2>4, <3>1, <3>2 DEF Consistent, Verdict, AnswerIsRight
  <2> QED
    BY Zenon, <2>6, <2>7, <2>8, <2>9, <2>10, <2>11 DEF Consistent
<1>10. CASE UNCHANGED vars
  <2>1. TypeOK'
    BY Zenon, <1>10 DEF vars, TypeOK
  <2>2. MasterPlace' /\ Batches'
    BY Zenon, <1>10 DEF vars, Consistent, MasterPlace, Batches, Outstanding
  <2>3. TodoExact'
    BY Zenon, <1>10 DEF vars, Consistent, TodoExact, Outstanding
  <2>4. Counts'
    BY Zenon, <1>10 DEF vars, Consistent, Counts
  <2>5. Verdict'
    BY Zenon, <1>10 DEF vars, Consistent, Verdict, AnswerIsRight, Outstanding
  <2> QED
    BY Zenon, <2>1, <2>2, <2>3, <2>4, <2>5 DEF Consistent
<1> QED
  BY Zenon, <1>1, <1>2, <1>3, <1>4, <1>5, <1>6, <1>7, <1>8, <1>9, <1>10 DEF Next

\* Initially nobody is in Loop and there is nothing to check.
LEMMA ConsistentInit == Init => TypeOK /\ Consistent
<1> SUFFICES ASSUME Init PROVE TypeOK /\ Consistent
  BY Zenon
<1> Master \in Thread
  BY Zenon DEF Thread
<1>1. Outstanding = {} /\ Busy(pc) = {} /\ Waiters(pc) = {}
  BY Zenon DEF Init, Outstanding, Busy, Waiters
<1>2. TypeOK
  BY QueueAssumption DEF Init, TypeOK, QueueAssumption
<1>3. MasterPlace /\ Batches /\ Verdict
  BY Zenon, <1>1 DEF Init, MasterPlace, Batches, Verdict, AnswerIsRight
<1>4. TodoExact /\ Counts
  BY <1>1, FS_EmptySet DEF Init, TodoExact, Counts
<1> QED
  BY Zenon, <1>2, <1>3, <1>4 DEF Consistent

\* Every variable keeps its type, and Consistent holds throughout: in particular nIdle
\* and nTotal never fall below zero.
THEOREM QueueConsistent == Spec => [](TypeOK /\ Consistent)
<1>1. TypeOK /\ Consistent /\ [Next]_vars => (TypeOK /\ Consistent)'
  BY Zenon, ConsistentStep
<1> QED
  BY <1>1, ConsistentInit, PTL DEF Spec

\* nTodo counts the checks in the queue and in the batches, each once, whatever the
\* interleaving of Add and the sections of Loop.
THEOREM TodoCorrect == Spec => []TodoExact
<1>1. Consistent => TodoExact
  BY Zenon DEF Consistent
<1> QED
  BY <1>1, QueueConsistent, PTL

\* CCheckQueueControl::Wait answers true exactly when all the checks of its block
\* succeed.
THEOREM AnswerCorrect == Spec => []AnswerIsRight
<1>1. Consistent => AnswerIsRight
  BY Zenon DEF Consistent, Verdict
<1> QED
  BY <1>1, QueueConsistent, PTL

\* The assert in the constructor of CCheckQueueControl never fails.
THEOREM IdleCorrect == Spec => []IdleWhenOpened
<1>1. TypeOK /\ Consistent => IdleWhenOpened
  <2> SUFFICES ASSUME TypeOK, Consistent, control = "none" PROVE IsIdle
    BY Zenon DEF IdleWhenOpened
  <2>1. nTodo = 0 /\ fAllOk
    BY Zenon DEF Consistent, MasterPlace
  <2>2. Outstanding = {}
    <3>1. Outstanding \in SUBSET Check
      BY DEF Outstanding, TypeOK
    <3> QED
      BY Zenon, <2>1, <3>1, Finite, FS_EmptySet DEF Consistent, TodoExact
  <2>3. Busy(pc) = {}
    BY <2>2 DEF Consistent, Batches, Outstanding, Busy
  <2>4. nTotal = nIdle
    BY <2>3, FS_EmptySet DEF Consistent, Counts, TypeOK
  <2> QED
    BY Zenon, <2>1, <2>4 DEF IsIdle
<1> QED
  BY <1>1, QueueConsistent, PTL

-----------------------------------------------------------------------------
(* SaplingCache *)

BlockRecord == [nfs : Seq(Nullifier), tree : Tree]
Spending == {blockNfs[k] : k \in DOMAIN blockNfs}

NfTypes ==
  /\ chain \in Seq(BlockRecord)
  /\ dbNf \subseteq Nullifier
  /\ tipNf \in [Nullifier -> NfEntry \cup {NoEntry}]
  /\ viewNf \in [Nullifier -> NfEntry \cup {NoEntry}]
  /\ phase \in {"idle", "connect"}
  /\ blockNfs \in Seq(Nullifier)

(* A clean entry of pcoinsTip is what the database says. *)
NfClean == \A n \in Nullifier :
  HasEntry(tipNf[n]) /\ "DIRTY" \notin tipNf[n] => ("ENTERED" \in tipNf[n] <=> n \in dbNf)

NfFollows == \A n \in Nullifier : "ENTERED" \in TipNfFetched(n) <=> n \in ChainNfs

(* While a block is being connected, the view has what its spends reveal.  *)
NfView == phase = "connect" =>
  /\ \A n \in Nullifier : viewNf[n] = IF n \in Spending THEN {"ENTERED", "DIRTY"} ELSE NoEntry
  /\ \A k, l \in DOMAIN blockNfs : blockNfs[k] = blockNfs[l] => k = l
  /\ Spending \cap ChainNfs = {}

NfInv == NfTypes /\ NfClean /\ NfFollows /\ NfView /\ NoDoubleSpend

AnchorTypes ==
  /\ dbAnchor \in [Tree -> Tree \cup {NoEntry}]
  /\ dbBest \in Tree \cup {NoEntry}
  /\ tipAnchor \in [Tree -> AnchorEntry \cup {NoEntry}]
  /\ tipBest \in Tree \cup {NoEntry}
  /\ viewAnchor \in [Tree -> AnchorEntry \cup {NoEntry}]
  /\ tree \in Tree

(* Records and entries hold the tree of their root; a clean entry is what  *)
(* the database says.                                                      *)
AnchorClean ==
  /\ dbAnchor[EmptyTree] = NoEntry
  /\ \A t \in Tree :
       /\ dbAnchor[t] \in {t, NoEntry}
       /\ HasEntry(tipAnchor[t]) => tipAnchor[t].tree = t
       /\ HasEntry(tipAnchor[t]) /\ "DIRTY" \notin tipAnchor[t].flags =>
            ("ENTERED" \in tipAnchor[t].flags <=> DbTree(t) # NoEntry)

AnchorFollows ==
  /\ \A t \in Tree : Entered(TipAnchorFetched(t)) <=> t \in ChainTrees
  /\ GetBestAnchor = LastTree

(* A later tree is longer or the same, so that the last one, when it is    *)
(* popped, is not that of an earlier block.                                *)
NotShorter(t, u) == Len(t) <= Len(u) /\ (Len(t) = Len(u) => t = u)
TreesGrow == \A i, j \in DOMAIN chain : i <= j => NotShorter(chain[i].tree, chain[j].tree)

AnchorView == phase = "connect" =>
  /\ tipBest = LastTree
  /\ \A t \in Tree : HasEntry(viewAnchor[t]) => "DIRTY" \notin viewAnchor[t].flags
  /\ NotShorter(LastTree, tree)

AnchorInv == AnchorTypes /\ AnchorClean /\ AnchorFollows /\ TreesGrow /\ AnchorView

Inv == NfInv /\ AnchorInv

-----------------------------------------------------------------------------
(* Sequences. *)

LEMMA SeqLen ==
  ASSUME NEW S, NEW s \in Seq(S)
  PROVE  Len(s) \in Nat /\ DOMAIN s = 1 .. Len(s) /\ s \in [1 .. Len(s) -> S]
OBVIOUS

LEMMA SeqElement ==
  ASSUME NEW S, NEW s \in Seq(S), NEW i \in 1 .. Len(s)
  PROVE  s[i] \in S
OBVIOUS

LEMMA SeqEmpty ==
  ASSUME NEW S
  PROVE  /\ << >> \in Seq(S) /\ Len(<< >>) = 0
         /\ \A s \in Seq(S) : s # << >> => Len(s) \in Nat \ {0}
OBVIOUS

LEMMA SeqAppend ==
  ASSUME NEW S, NEW s \in Seq(S), NEW e \in S
  PROVE  Append(s, e) \in Seq(S) /\ Len(Append(s, e)) = Len(s) + 1
OBVIOUS

LEMMA SeqPrefix ==
  ASSUME NEW S, NEW s \in Seq(S), NEW n \in 0 .. Len(s)
  PROVE  /\ SubSeq(s, 1, n) \in Seq(S) /\ Len(SubSeq(s, 1, n)) = n
         /\ \A i \in 1 .. n : SubSeq(s, 1, n)[i] = s[i]
OBVIOUS

-----------------------------------------------------------------------------
(* The chain and its trees. *)

LEMMA TreeFacts ==
  /\ EmptyTree \in Tree /\ EmptyTree # NoEntry
  /\ \A t \in Tree : t \in Seq(Note) /\ t # NoEntry /\ (Len(t) = 0 => t = EmptyTree)
  /\ \A t \in Tree, c \in Note : Len(t) < MaxNotes => Append(t, c) \in Tree
<1>1. \A t \in Tree : t \in Seq(Note) /\ t \in [1 .. Len(t) -> Note] /\ Len(t) \in 0 .. MaxNotes
  BY SaplingAssumption DEF Tree
<1>2. EmptyTree \in Tree
  BY SaplingAssumption DEF Tree, EmptyTree
<1>3. ASSUME NEW t \in Tree, NEW c \in Note, Len(t) < MaxNotes PROVE Append(t, c) \in Tree
  <2>1. Append(t, c) \in Seq(Note) /\ Len(Append(t, c)) = Len(t) + 1
    BY Zenon, <1>1, SeqAppend
  <2>2. Append(t, c) \in [1 .. Len(t) + 1 -> Note]
    BY Zenon, <2>1, SeqLen
  <2> QED
    BY <1>1, <1>3, <2>2, SaplingAssumption DEF Tree
<1>4. \A t \in Tree : Len(t) = 0 => t = EmptyTree
  BY <1>1 DEF EmptyTree
<1> QED
  BY Zenon, <1>1, <1>2, <1>3, <1>4, SaplingAssumption

LEMMA ChainAppend ==
  ASSUME chain \in Seq(BlockRecord), NEW b \in BlockRecord, chain' = Append(chain, b)
  PROVE  /\ chain' \in Seq(BlockRecord)
         /\ ChainNfs' = ChainNfs \cup Revealed(b)
         /\ ChainTrees' = ChainTrees \cup {b.tree}
         /\ LastTree' = b.tree
<1>1. /\ chain' \in Seq(BlockRecord) /\ DOMAIN chain' = 1 .. Len(chain) + 1
      /\ DOMAIN chain = 1 .. Len(chain) /\ Len(chain) \in Nat /\ Len(chain') = Len(chain) + 1
      /\ chain'[Len(chain) + 1] = b
      /\ \A i \in DOMAIN chain : i \in DOMAIN chain' /\ chain'[i] = chain[i]
      /\ \A i \in DOMAIN chain' : i \in DOMAIN chain \/ i = Len(chain) + 1
  OBVIOUS
<1>2. LastTree' = b.tree
  BY <1>1 DEF LastTree
<1>3. ChainNfs' = ChainNfs \cup Revealed(b)
  <2>1. ChainNfs' = UNION {Revealed(chain'[i]) : i \in DOMAIN chain'}
    BY Zenon DEF ChainNfs, Revealed
  <2> QED
    BY <1>1, <2>1 DEF ChainNfs
<1>4. ChainTrees' = ChainTrees \cup {b.tree}
  BY <1>1 DEF ChainTrees
<1> QED
  BY Zenon, <1>1, <1>2, <1>3, <1>4

LEMMA ChainPop ==
  ASSUME chain \in Seq(BlockRecord), chain # << >>, chain' = SubSeq(chain, 1, Len(chain) - 1)
  PROVE  /\ chain[Len(chain)] \in BlockRecord /\ PrevTree \in Tree
         /\ chain' \in Seq(BlockRecord)
         /\ DOMAIN chain' \subseteq DOMAIN chain /\ \A i \in DOMAIN chain' : chain'[i] = chain[i]
         /\ LastTree' = PrevTree /\ LastTree = chain[Len(chain)].tree
         /\ ChainNfs = ChainNfs' \cup Revealed(chain[Len(chain)])
         /\ ChainTrees = ChainTrees' \cup {LastTree}
         /\ NoDoubleSpend => ChainNfs' \cap Revealed(chain[Len(chain)]) = {}
         /\ TreesGrow /\ LastTree # PrevTree => LastTree \notin ChainTrees'
<1> DEFINE n == Len(chain)
<1>1. /\ n \in Nat /\ n >= 1 /\ DOMAIN chain = 1 .. n /\ chain' \in Seq(BlockRecord)
      /\ DOMAIN chain' = 1 .. n - 1 /\ Len(chain') = n - 1
      /\ \A i \in DOMAIN chain' : chain'[i] = chain[i]
      /\ \A i \in DOMAIN chain : chain[i] \in BlockRecord
  <2>1. n \in Nat /\ n >= 1 /\ DOMAIN chain = 1 .. n /\ \A i \in DOMAIN chain : chain[i] \in BlockRecord
    BY SeqEmpty, SeqLen, SeqElement
  <2>2. \A i \in 1 .. n - 1 : chain[i] \in BlockRecord
    BY <2>1
  <2> HIDE DEF n
  <2>3. /\ SubSeq(chain, 1, n - 1) \in Seq(BlockRecord)
        /\ Len(SubSeq(chain, 1, n - 1)) = n - 1
        /\ \A i \in 1 .. n - 1 : SubSeq(chain, 1, n - 1)[i] = chain[i]
    BY <2>1, <2>2, SeqPrefix
  <2>4. chain' = SubSeq(chain, 1, n - 1)
    BY Zenon DEF n
  <2> QED
    BY Zenon, <2>1, <2>3, <2>4, SeqLen
<1> HIDE DEF n
<1>2. n - 1 \in DOMAIN chain' <=> n # 1
  BY <1>1
<1>3. LastTree' = PrevTree /\ LastTree = chain[n].tree /\ PrevTree \in Tree
  <2>1. LastTree = chain[n].tree
    BY Zenon, <1>1 DEF LastTree, n
  <2>2. chain' = << >> <=> n = 1
    <3>1. Len(<< >>) = 0 /\ \A q \in Seq(BlockRecord) : q # << >> => Len(q) # 0
      BY Zenon, SeqEmpty
    <3>2. chain' \in Seq(BlockRecord) /\ Len(chain') = n - 1 /\ n \in Nat
      BY Zenon, <1>1
    <3>3. chain' = << >> => Len(chain') = 0
      BY Zenon, <3>1
    <3>4. chain' # << >> => Len(chain') # 0
      BY Zenon, <3>1, <3>2
    <3> QED
      BY <3>2, <3>3, <3>4
  <2>3. LastTree' = PrevTree
    BY Zenon, <1>1, <1>2, <2>2 DEF LastTree, PrevTree, n
  <2>4. PrevTree \in Tree
    <3>1. CASE n = 1
      BY Zenon, <3>1, TreeFacts DEF PrevTree, n
    <3>2. CASE n # 1
      <4>1. n - 1 \in DOMAIN chain
        BY <1>1, <3>2
      <4>2. chain[n - 1] \in BlockRecord
        BY Zenon, <1>1, <4>1
      <4>3. chain[n - 1].tree \in Tree
        BY Zenon, <4>2 DEF BlockRecord
      <4> QED
        BY Zenon, <3>2, <4>3 DEF PrevTree, n
    <3> QED
      BY Zenon, <3>1, <3>2
  <2> QED
    BY Zenon, <2>1, <2>3, <2>4
<1>4. ChainNfs' = UNION {Revealed(chain[i]) : i \in 1 .. n - 1}
  <2>1. ChainNfs' = UNION {Revealed(chain'[i]) : i \in DOMAIN chain'}
    BY Zenon DEF ChainNfs, Revealed
  <2> QED
    BY Zenon, <1>1, <2>1
<1> DEFINE last == Revealed(chain[n])
<1>5. ChainNfs = ChainNfs' \cup last
  <2>1. \A i : i \in DOMAIN chain <=> i \in 1 .. n - 1 \/ i = n
    BY <1>1
  <2>2. \A x : x \in ChainNfs <=> \E i \in DOMAIN chain : x \in Revealed(chain[i])
    BY Zenon DEF ChainNfs
  <2>3. \A x : x \in ChainNfs' <=> \E i \in 1 .. n - 1 : x \in Revealed(chain[i])
    BY Zenon, <1>4
  <2> HIDE DEF last
  <2>4. \A x : x \in ChainNfs <=> x \in ChainNfs' \/ x \in last
    BY Zenon, <2>1, <2>2, <2>3 DEF last
  <2> QED
    BY Zenon, <2>4
<1>6. ChainTrees' = {EmptyTree} \cup {chain[i].tree : i \in 1 .. n - 1}
  BY Zenon, <1>1 DEF ChainTrees
<1>7. ChainTrees = ChainTrees' \cup {LastTree}
  <2>1. \A i : i \in DOMAIN chain <=> i \in 1 .. n - 1 \/ i = n
    BY <1>1
  <2> QED
    BY Zenon, <1>3, <1>6, <2>1 DEF ChainTrees
<1>8. ASSUME NoDoubleSpend PROVE ChainNfs' \cap Revealed(chain[n]) = {}
  BY <1>1, <1>4, <1>8 DEF NoDoubleSpend, Revealed
<1>9. ASSUME TreesGrow, LastTree # PrevTree PROVE LastTree \notin ChainTrees'
  <2>1. CASE n = 1
    BY SMTT(30), <1>1, <1>3, <1>6, <1>9, <2>1 DEF PrevTree
  <2>2. CASE n # 1
    <3>1. PrevTree = chain[n - 1].tree /\ n - 1 \in DOMAIN chain /\ n \in DOMAIN chain /\ n - 1 <= n
      BY <1>1, <2>2 DEF PrevTree, n
    <3>a. NotShorter(PrevTree, LastTree)
      BY Zenon, <1>3, <1>9, <3>1 DEF TreesGrow
    <3>b. LastTree \in Tree
      BY Zenon, <1>1, <1>3, <3>1 DEF BlockRecord
    <3>2. Len(PrevTree) < Len(LastTree) /\ Len(PrevTree) \in Nat /\ Len(LastTree) \in Nat
      BY <1>3, <1>9, <3>a, <3>b, TreeFacts DEF NotShorter
    <3>3. ASSUME NEW i \in 1 .. n - 1 PROVE Len(chain[i].tree) <= Len(PrevTree)
      <4>1. i \in DOMAIN chain /\ i <= n - 1
        BY <1>1
      <4>2. NotShorter(chain[i].tree, chain[n - 1].tree)
        BY Zenon, <1>9, <3>1, <4>1 DEF TreesGrow
      <4> QED
        BY Zenon, <3>1, <4>2 DEF NotShorter
    <3>4. LastTree # EmptyTree
      BY <3>2 DEF EmptyTree
    <3> QED
      BY <1>6, <3>2, <3>3, <3>4
  <2> QED
    BY Zenon, <2>1, <2>2
<1> QED
  BY <1>1, <1>3, <1>5, <1>7, <1>8, <1>9
-----------------------------------------------------------------------------
(* Nullifiers. *)

(* GetNullifier on pcoinsTip changes no answer. *)
LEMMA NfRead ==
  ASSUME NfTypes, NfClean, NfFollows, UNCHANGED <<dbNf, chain>>, NEW n \in Nullifier,
         tipNf' \in {tipNf, [tipNf EXCEPT ![n] = TipNfFetched(n)]}
  PROVE  /\ tipNf' \in [Nullifier -> NfEntry \cup {NoEntry}]
         /\ NfClean' /\ NfFollows' /\ ChainNfs' = ChainNfs
<1>1. TipNfFetched(n) \in NfEntry \cup {NoEntry}
  BY Zenon DEF NfTypes, TipNfFetched, FetchNullifier, NfEntry
<1>2. tipNf' \in [Nullifier -> NfEntry \cup {NoEntry}]
  BY Zenon, <1>1 DEF NfTypes
<1>3. \A x \in Nullifier : tipNf'[x] = tipNf[x] \/ tipNf'[x] = TipNfFetched(x)
  BY Zenon DEF NfTypes
<1>4. ChainNfs' = ChainNfs
  BY DEF ChainNfs, Revealed
<1>5. NfClean'
  BY Zenon, <1>3 DEF NfClean, TipNfFetched, FetchNullifier, HasEntry
<1>6. NfFollows'
  BY Zenon, <1>3, <1>4, SaplingAssumption DEF NfFollows, TipNfFetched, FetchNullifier, HasEntry
<1> QED
  BY Zenon, <1>2, <1>4, <1>5, <1>6

LEMMA NfStart == ASSUME NfInv, StartConnect PROVE NfInv'
<1>2. /\ tipNf' = tipNf /\ chain' = chain /\ dbNf' = dbNf /\ blockNfs' = << >> /\ viewNf' = NoNf
      /\ phase' = "connect"
  BY Zenon DEF StartConnect, dbVars
<1>3. ChainNfs' = ChainNfs /\ Spending' = {}
  BY <1>2 DEF ChainNfs, Revealed, Spending
<1>4. NfTypes' /\ NfView'
  BY <1>2, <1>3 DEF NfInv, NfTypes, NfView, NoNf
<1>5. NfClean' /\ NfFollows' /\ NoDoubleSpend'
  BY <1>2, <1>3 DEF NfInv, NfClean, NfFollows, NoDoubleSpend, TipNfFetched
<1> QED
  BY Zenon, <1>4, <1>5 DEF NfInv

LEMMA NfSpend ==
  ASSUME NfInv, NEW n \in Nullifier, NEW t \in Tree, ConnectSpend(n, t) PROVE NfInv'
<1>1. /\ phase = "connect" /\ phase' = phase /\ chain' = chain /\ dbNf' = dbNf
      /\ tipNf' \in {tipNf, [tipNf EXCEPT ![n] = TipNfFetched(n)]}
      /\ viewNf' = [viewNf EXCEPT ![n] = {"ENTERED", "DIRTY"}]
      /\ blockNfs' = Append(blockNfs, n)
      /\ "ENTERED" \notin ViewNfFetched(n)
  BY Zenon DEF ConnectSpend, HaveShieldedRequirements, dbVars, NfInv, NfTypes
<1>2. /\ tipNf' \in [Nullifier -> NfEntry \cup {NoEntry}] /\ NfClean' /\ NfFollows' /\ ChainNfs' = ChainNfs
  BY Zenon, <1>1, NfRead DEF NfInv
<1>3. n \notin Spending /\ n \notin ChainNfs
  <2>1. viewNf[n] = NoEntry /\ n \notin Spending
    BY Zenon, <1>1, SaplingAssumption DEF ViewNfFetched, FetchNullifier, HasEntry, NfInv, NfView, NfEntry
  <2> QED
    BY Zenon, <1>1, <2>1 DEF ViewNfFetched, FetchNullifier, HasEntry, NfInv, NfFollows
<1>4. /\ blockNfs \in Seq(Nullifier) /\ blockNfs' \in Seq(Nullifier)
      /\ DOMAIN blockNfs = 1 .. Len(blockNfs) /\ Len(blockNfs) \in Nat /\ DOMAIN blockNfs' = 1 .. Len(blockNfs) + 1
      /\ blockNfs'[Len(blockNfs) + 1] = n /\ \A k \in DOMAIN blockNfs : blockNfs'[k] = blockNfs[k]
  BY <1>1 DEF NfInv, NfTypes
<1>5. Spending' = Spending \cup {n}
  BY <1>4 DEF Spending
<1>6. \A k, l \in DOMAIN blockNfs' : blockNfs'[k] = blockNfs'[l] => k = l
  <2>1. \A k \in DOMAIN blockNfs : blockNfs[k] # n
    BY Zenon, <1>3 DEF Spending
  <2>2. \A k, l \in DOMAIN blockNfs : blockNfs[k] = blockNfs[l] => k = l
    BY Zenon, <1>1 DEF NfInv, NfView
  <2>3. \A k \in DOMAIN blockNfs' : k \in DOMAIN blockNfs \/ k = Len(blockNfs) + 1
    BY <1>4
  <2> QED
    BY Zenon, <1>4, <2>1, <2>2, <2>3
<1>7. NfView'
  <2>1. \A x \in Nullifier : viewNf'[x] = IF x \in Spending' THEN {"ENTERED", "DIRTY"} ELSE NoEntry
    BY Zenon, <1>1, <1>5 DEF NfInv, NfView, NfTypes
  <2>2. Spending' \cap ChainNfs' = {}
    BY Zenon, <1>1, <1>2, <1>3, <1>5 DEF NfInv, NfView
  <2> QED
    BY Zenon, <1>6, <2>1, <2>2 DEF NfView
<1>8. NfTypes'
  BY Zenon, <1>1, <1>2, <1>4 DEF NfInv, NfTypes, NfEntry
<1>9. NoDoubleSpend'
  BY <1>1 DEF NfInv, NoDoubleSpend
<1> QED
  BY Zenon, <1>2, <1>7, <1>8, <1>9 DEF NfInv

LEMMA NfFinish == ASSUME NfInv, tree \in Tree, FinishConnect PROVE NfInv'
<1> DEFINE b == [nfs |-> blockNfs, tree |-> tree]
<1>1. /\ phase = "connect" /\ phase' = "idle" /\ chain' = Append(chain, b) /\ dbNf' = dbNf
      /\ tipNf' = [n \in Nullifier |-> MergeNf(tipNf[n], viewNf[n])]
      /\ viewNf' = NoNf /\ blockNfs' = << >>
  BY Zenon DEF FinishConnect, dbVars
<1>2. b \in BlockRecord /\ Revealed(b) = Spending
  BY Zenon DEF BlockRecord, NfInv, NfTypes, Revealed, Spending
<1>3. chain \in Seq(BlockRecord)
  BY Zenon DEF NfInv, NfTypes
<1> HIDE DEF b
<1>4. chain' \in Seq(BlockRecord) /\ ChainNfs' = ChainNfs \cup Spending
  BY Zenon, <1>1, <1>2, <1>3, ChainAppend
<1>5. ASSUME NEW n \in Nullifier
      PROVE  /\ tipNf'[n] = MergeNf(tipNf[n], IF n \in Spending THEN {"ENTERED", "DIRTY"} ELSE NoEntry)
             /\ tipNf[n] \in NfEntry \cup {NoEntry}
  BY Zenon, <1>1 DEF NfInv, NfView, NfTypes
<1>6. ASSUME NEW n \in Nullifier
      PROVE  /\ n \notin Spending => tipNf'[n] = tipNf[n]
             /\ n \in Spending => /\ "ENTERED" \in tipNf'[n] /\ tipNf'[n] \in NfEntry
                                  /\ tipNf'[n] = tipNf[n] \/ "DIRTY" \in tipNf'[n]
  <2>1. CASE n \notin Spending
    BY Zenon, <1>5, <2>1 DEF MergeNf, HasEntry
  <2>2. CASE n \in Spending
    BY Zenon, <1>5, <2>2, SaplingAssumption DEF MergeNf, HasEntry, NfEntry
  <2> QED
    BY Zenon, <2>1, <2>2
<1>7. NfTypes'
  BY <1>1, <1>4, <1>5, <1>6 DEF NfInv, NfTypes, NoNf
<1>8. NfClean'
  BY Zenon, <1>1, <1>6 DEF NfInv, NfClean
<1>9. NfFollows'
  BY Zenon, <1>1, <1>4, <1>6, SaplingAssumption DEF NfInv, NfFollows, TipNfFetched, FetchNullifier, HasEntry
<1>10. NoDoubleSpend'
  <2>1. /\ DOMAIN chain = 1 .. Len(chain) /\ Len(chain) \in Nat /\ DOMAIN chain' = 1 .. Len(chain) + 1
        /\ \A i \in DOMAIN chain : chain'[i] = chain[i]
        /\ chain'[Len(chain) + 1] = b
    BY SMTT(30), <1>1, <1>2, <1>3
  <2>2. \A i \in DOMAIN chain : \A k \in DOMAIN chain[i].nfs : chain[i].nfs[k] \in ChainNfs
    BY DEF ChainNfs, Revealed
  <2>3. b.nfs = blockNfs /\ \A k \in DOMAIN blockNfs : blockNfs[k] \in Spending
    BY Zenon DEF b, Spending
  <2>4. Spending \cap ChainNfs = {} /\ \A k, l \in DOMAIN blockNfs : blockNfs[k] = blockNfs[l] => k = l
    BY Zenon, <1>1 DEF NfInv, NfView
  <2>5. ASSUME NEW i \in DOMAIN chain', NEW j \in DOMAIN chain',
               NEW k \in DOMAIN chain'[i].nfs, NEW l \in DOMAIN chain'[j].nfs,
               chain'[i].nfs[k] = chain'[j].nfs[l]
        PROVE  i = j /\ k = l
    <3>1. CASE i \in DOMAIN chain /\ j \in DOMAIN chain
      BY <2>1, <2>5, <3>1 DEF NfInv, NoDoubleSpend
    <3>2. CASE i \in DOMAIN chain /\ j = Len(chain) + 1
      BY Zenon, <2>1, <2>2, <2>3, <2>4, <2>5, <3>2
    <3>3. CASE j \in DOMAIN chain /\ i = Len(chain) + 1
      BY Zenon, <2>1, <2>2, <2>3, <2>4, <2>5, <3>3
    <3>4. CASE i = Len(chain) + 1 /\ j = Len(chain) + 1
      BY Zenon, <2>1, <2>3, <2>4, <2>5, <3>4
    <3> QED
      BY SMTT(30), <2>1, <3>1, <3>2, <3>3, <3>4
  <2> QED
    BY Zenon, <2>5 DEF NoDoubleSpend
<1> QED
  BY Zenon, <1>1, <1>7, <1>8, <1>9, <1>10 DEF NfInv, NfView

LEMMA NfDisconnect == ASSUME NfInv, DisconnectTip PROVE NfInv'
<1> DEFINE nfs == Revealed(chain[Len(chain)])
<1>1. /\ phase = "idle" /\ phase' = phase /\ chain # << >> /\ chain' = SubSeq(chain, 1, Len(chain) - 1)
      /\ dbNf' = dbNf /\ viewNf' = viewNf /\ blockNfs' = blockNfs
      /\ tipNf' = [n \in Nullifier |-> IF n \in nfs THEN MergeNf(tipNf[n], {"DIRTY"}) ELSE tipNf[n]]
  BY Zenon DEF DisconnectTip, dbVars, viewVars
<1>2. chain \in Seq(BlockRecord)
  BY Zenon DEF NfInv, NfTypes
<1> HIDE DEF nfs
<1>3. /\ chain' \in Seq(BlockRecord) /\ ChainNfs = ChainNfs' \cup nfs /\ ChainNfs' \cap nfs = {}
      /\ DOMAIN chain' \subseteq DOMAIN chain /\ \A i \in DOMAIN chain' : chain'[i] = chain[i]
  BY Zenon, <1>1, <1>2, ChainPop DEF nfs, NfInv
<1>4. ASSUME NEW n \in Nullifier
      PROVE  /\ tipNf[n] \in NfEntry \cup {NoEntry}
             /\ n \notin nfs => tipNf'[n] = tipNf[n]
             /\ n \in nfs => /\ "ENTERED" \notin tipNf'[n] /\ tipNf'[n] \in NfEntry
                             /\ tipNf'[n] = tipNf[n] \/ "DIRTY" \in tipNf'[n]
  <2>1. tipNf[n] \in NfEntry \cup {NoEntry}
    BY Zenon DEF NfInv, NfTypes
  <2>2. CASE n \notin nfs
    BY Zenon, <1>1, <2>1, <2>2
  <2>3. CASE n \in nfs
    <3>1. tipNf'[n] = MergeNf(tipNf[n], {"DIRTY"})
      BY Zenon, <1>1, <2>3
    <3>2. {"DIRTY"} # NoEntry /\ "ENTERED" # "DIRTY"
      BY Zenon, SaplingAssumption DEF NfEntry
    <3> QED
      BY <2>1, <2>3, <3>1, <3>2 DEF MergeNf, HasEntry, NfEntry
  <2> QED
    BY Zenon, <2>1, <2>2, <2>3
<1>5. NfTypes'
  BY Zenon, <1>1, <1>3, <1>4 DEF NfInv, NfTypes
<1>6. NfClean'
  BY Zenon, <1>1, <1>4 DEF NfInv, NfClean
<1>7. NfFollows'
  BY Zenon, <1>1, <1>3, <1>4, SaplingAssumption DEF NfInv, NfFollows, TipNfFetched, FetchNullifier, HasEntry
<1>8. NoDoubleSpend'
  BY SMTT(30), <1>3 DEF NfInv, NoDoubleSpend
<1> QED
  BY Zenon, <1>1, <1>5, <1>6, <1>7, <1>8 DEF NfInv, NfView

LEMMA NfFlush == ASSUME NfInv, Flush PROVE NfInv'
<1>1. /\ phase = "idle" /\ phase' = phase /\ chain' = chain /\ viewNf' = viewNf /\ blockNfs' = blockNfs
      /\ dbNf' = {n \in Nullifier : DbNfAfter(n)} /\ tipNf' = NoNf
  BY Zenon DEF Flush, viewVars
<1>2. ChainNfs' = ChainNfs
  BY <1>1 DEF ChainNfs, Revealed
<1>3. \A n \in Nullifier : DbNfAfter(n) <=> n \in ChainNfs
  BY Zenon DEF DbNfAfter, NfInv, NfClean, NfFollows, TipNfFetched, FetchNullifier, HasEntry
<1>4. \A n \in Nullifier : tipNf'[n] = NoEntry
  BY Zenon, <1>1 DEF NoNf
<1>5. NfFollows' /\ NfClean'
  BY Zenon, <1>1, <1>2, <1>3, <1>4 DEF NfFollows, NfClean, TipNfFetched, FetchNullifier, HasEntry
<1>6. NfTypes'
  BY Zenon, <1>1 DEF NfInv, NfTypes, NoNf
<1> QED
  BY <1>1, <1>5, <1>6 DEF NfInv, NfView, NoDoubleSpend

LEMMA NfOthers ==
  ASSUME NfInv,
         \/ \E n \in Nullifier, t \in Tree : CheckAgainstTip(n, t)
         \/ \E c \in Note : ConnectOutput(c)
         \/ FailConnect
         \/ UNCHANGED saplingVars
  PROVE  NfInv'
<1>1. CASE \E n \in Nullifier, t \in Tree : CheckAgainstTip(n, t)
  <2> PICK n \in Nullifier, t \in Tree : CheckAgainstTip(n, t)
    BY Zenon, <1>1
  <2>1. /\ phase = "idle" /\ phase' = phase /\ chain' = chain /\ dbNf' = dbNf /\ viewNf' = viewNf
        /\ blockNfs' = blockNfs /\ tipNf' = [tipNf EXCEPT ![n] = TipNfFetched(n)]
    BY Zenon DEF CheckAgainstTip, dbVars, viewVars
  <2>2. tipNf' \in [Nullifier -> NfEntry \cup {NoEntry}] /\ NfClean' /\ NfFollows'
    BY Zenon, <2>1, NfRead DEF NfInv
  <2> QED
    BY <2>1, <2>2 DEF NfInv, NfTypes, NfView, NoDoubleSpend
<1>2. ASSUME UNCHANGED <<chain, dbNf, tipNf>> PROVE NfClean' /\ NfFollows' /\ NoDoubleSpend' /\ ChainNfs' = ChainNfs
  <2>1. ChainNfs' = ChainNfs
    BY <1>2 DEF ChainNfs, Revealed
  <2>2. \A n \in Nullifier : TipNfFetched(n)' = TipNfFetched(n)
    BY Zenon, <1>2 DEF TipNfFetched
  <2>3. NfClean'
    BY Zenon, <1>2 DEF NfInv, NfClean
  <2>4. NfFollows'
    BY Zenon, <2>1, <2>2 DEF NfInv, NfFollows
  <2>5. NoDoubleSpend'
    BY <1>2 DEF NfInv, NoDoubleSpend
  <2> QED
    BY Zenon, <2>1, <2>3, <2>4, <2>5
<1>3. CASE UNCHANGED <<chain, dbNf, tipNf, viewNf, phase, blockNfs>>
  <2>1. Spending' = Spending /\ NfTypes'
    BY Zenon, <1>3 DEF Spending, NfInv, NfTypes
  <2> QED
    BY Zenon, <1>2, <1>3, <2>1 DEF NfInv, NfView
<1>4. CASE FailConnect
  BY <1>2, <1>4 DEF FailConnect, dbVars, tipVars, NfInv, NfTypes, NfView, NoNf
<1> QED
  BY Zenon, <1>1, <1>3, <1>4 DEF ConnectOutput, dbVars, tipVars, saplingVars

-----------------------------------------------------------------------------
(* Anchors. *)

LEMMA FetchedAnchor ==
  ASSUME AnchorTypes, AnchorClean, NEW t \in Tree
  PROVE  /\ TipAnchorFetched(t) \in AnchorEntry \cup {NoEntry}
         /\ HasEntry(TipAnchorFetched(t)) => TipAnchorFetched(t).tree = t
         /\ DbTree(t) \in {t, NoEntry}
<1>1. DbTree(t) \in {t, NoEntry}
  BY Zenon DEF AnchorClean, DbTree
<1> QED
  BY Zenon, <1>1 DEF AnchorTypes, AnchorClean, TipAnchorFetched, FetchAnchor, HasEntry, AnchorEntry

LEMMA ChainSame ==
  ASSUME chain' = chain
  PROVE  ChainTrees' = ChainTrees /\ LastTree' = LastTree /\ (TreesGrow => TreesGrow')
BY Zenon DEF ChainTrees, LastTree, TreesGrow

LEMMA LastTreeType ==
  ASSUME chain \in Seq(BlockRecord) PROVE LastTree \in Tree /\ LastTree \in ChainTrees
<1>1. CASE chain = << >>
  BY Zenon, <1>1, TreeFacts DEF LastTree, ChainTrees
<1>2. CASE chain # << >>
  <2>1. Len(chain) \in DOMAIN chain /\ chain[Len(chain)] \in BlockRecord
    BY <1>2
  <2> QED
    BY Zenon, <1>2, <2>1 DEF LastTree, ChainTrees, BlockRecord
<1> QED
  BY Zenon, <1>1, <1>2

(* GetSaplingAnchorAt and GetBestAnchor on pcoinsTip change no answer. *)
LEMMA AnchorRead ==
  ASSUME AnchorTypes, AnchorClean, AnchorFollows, chain \in Seq(BlockRecord),
         UNCHANGED <<dbAnchor, dbBest, chain>>, NEW t \in Tree,
         tipAnchor' \in {tipAnchor, [tipAnchor EXCEPT ![t] = TipAnchorFetched(t)]},
         tipBest' \in {tipBest, GetBestAnchor}
  PROVE  /\ tipAnchor' \in [Tree -> AnchorEntry \cup {NoEntry}] /\ tipBest' \in Tree \cup {NoEntry}
         /\ AnchorClean' /\ AnchorFollows'
<1>1. tipAnchor' \in [Tree -> AnchorEntry \cup {NoEntry}] /\ tipBest' \in Tree \cup {NoEntry}
  BY Zenon, FetchedAnchor, LastTreeType DEF AnchorTypes, AnchorFollows
<1>2. \A x \in Tree : tipAnchor'[x] = tipAnchor[x] \/ tipAnchor'[x] = TipAnchorFetched(x)
  BY Zenon DEF AnchorTypes
<1>3. ChainTrees' = ChainTrees /\ LastTree' = LastTree
  BY Zenon, ChainSame
<1>4. \A x \in Tree : DbTree(x)' = DbTree(x)
  BY Zenon DEF DbTree
<1>5. ASSUME NEW x \in Tree
      PROVE  /\ TipAnchorFetched(x)' = TipAnchorFetched(x)
             /\ HasEntry(tipAnchor'[x]) => tipAnchor'[x].tree = x
             /\ HasEntry(tipAnchor'[x]) /\ "DIRTY" \notin tipAnchor'[x].flags =>
                  ("ENTERED" \in tipAnchor'[x].flags <=> DbTree(x) # NoEntry)
  <2>1. TipAnchorFetched(x)' = FetchAnchor(tipAnchor'[x], DbTree(x) # NoEntry, DbTree(x))
    BY Zenon, <1>4 DEF TipAnchorFetched
  <2>2. DbTree(x) # NoEntry => [flags |-> {"ENTERED"}, tree |-> DbTree(x)] \in AnchorEntry
    BY Zenon, FetchedAnchor DEF AnchorEntry
  <2>3. CASE tipAnchor'[x] = tipAnchor[x]
    BY Zenon, <2>1, <2>3 DEF AnchorClean, TipAnchorFetched
  <2>4. CASE tipAnchor'[x] = TipAnchorFetched(x)
    <3>1. TipAnchorFetched(x)' = TipAnchorFetched(x)
      BY Zenon, <2>1, <2>2, <2>4, SaplingAssumption DEF TipAnchorFetched, FetchAnchor, HasEntry
    <3>2. HasEntry(tipAnchor'[x]) => tipAnchor'[x].tree = x
      BY Zenon, <2>4, FetchedAnchor
    <3>3. CASE HasEntry(tipAnchor[x])
      BY Zenon, <2>3, <2>4, <3>1, <3>2, <3>3 DEF TipAnchorFetched, FetchAnchor, AnchorClean
    <3>4. CASE ~HasEntry(tipAnchor[x])
      BY <2>2, <2>4, <3>1, <3>2, <3>4 DEF TipAnchorFetched, FetchAnchor, HasEntry
    <3> QED
      BY Zenon, <3>3, <3>4
  <2> QED
    BY Zenon, <1>2, <2>3, <2>4
<1>6. AnchorClean'
  BY Zenon, <1>4, <1>5 DEF AnchorClean
<1>7. GetBestAnchor' = LastTree'
  <2>1. LastTree # NoEntry
    BY Zenon, LastTreeType, TreeFacts
  <2> QED
    BY Zenon, <1>3, <2>1 DEF AnchorFollows, GetBestAnchor
<1>8. \A x \in Tree : Entered(TipAnchorFetched(x))' <=> x \in ChainTrees'
  BY Zenon, <1>3, <1>5 DEF AnchorFollows, Entered, HasEntry
<1> QED
  BY Zenon, <1>1, <1>6, <1>7, <1>8 DEF AnchorFollows

LEMMA AnchorStart == ASSUME AnchorInv, chain \in Seq(BlockRecord), StartConnect PROVE AnchorInv'
<1> DEFINE a == GetBestAnchor
<1>1. /\ chain' = chain /\ dbAnchor' = dbAnchor /\ dbBest' = dbBest
      /\ tipBest' = a /\ tipAnchor' = [tipAnchor EXCEPT ![a] = TipAnchorFetched(a)]
      /\ tree' = TipAnchorFetched(a).tree /\ Entered(TipAnchorFetched(a))
      /\ viewAnchor' = [NoAnchor EXCEPT ![a] = FetchAnchor(NoEntry, TRUE, TipAnchorFetched(a).tree)]
  BY Zenon DEF StartConnect, dbVars
<1>2. a = LastTree /\ a \in Tree
  BY Zenon, LastTreeType DEF AnchorInv, AnchorFollows
<1> HIDE DEF a
<1>3. /\ tipAnchor' \in [Tree -> AnchorEntry \cup {NoEntry}] /\ tipBest' \in Tree \cup {NoEntry}
      /\ AnchorClean' /\ AnchorFollows'
  BY Zenon, <1>1, <1>2, AnchorRead DEF a, AnchorInv
<1>4. tree' = LastTree
  BY Zenon, <1>1, <1>2, FetchedAnchor DEF AnchorInv, Entered
<1>5. ChainTrees' = ChainTrees /\ LastTree' = LastTree /\ TreesGrow'
  BY Zenon, <1>1, ChainSame DEF AnchorInv
<1>6. /\ viewAnchor' \in [Tree -> AnchorEntry \cup {NoEntry}]
      /\ \A t \in Tree : viewAnchor'[t] = NoEntry \/ viewAnchor'[t].flags = {"ENTERED"}
  BY Zenon, <1>1, <1>2, <1>4 DEF NoAnchor, FetchAnchor, HasEntry, AnchorEntry
<1>7. AnchorTypes'
  BY Zenon, <1>1, <1>2, <1>3, <1>4, <1>6 DEF AnchorInv, AnchorTypes
<1>8. AnchorView'
  <2>1. NotShorter(LastTree, tree')
    BY <1>2, <1>4, TreeFacts DEF NotShorter
  <2>2. NotShorter(LastTree, tree)'
    BY Zenon, <1>5, <2>1 DEF NotShorter
  <2>3. tipBest' = LastTree'
    BY Zenon, <1>1, <1>2, <1>5
  <2>4. (\A t \in Tree : HasEntry(viewAnchor[t]) => "DIRTY" \notin viewAnchor[t].flags)'
    BY <1>6 DEF HasEntry
  <2> QED
    BY Zenon, <2>2, <2>3, <2>4 DEF AnchorView
<1> QED
  BY Zenon, <1>3, <1>5, <1>7, <1>8 DEF AnchorInv

LEMMA AnchorSpend ==
  ASSUME AnchorInv, chain \in Seq(BlockRecord), NEW n \in Nullifier, NEW t \in Tree, ConnectSpend(n, t)
  PROVE  AnchorInv'
<1>1. /\ chain' = chain /\ dbAnchor' = dbAnchor /\ dbBest' = dbBest /\ tipBest' = tipBest
      /\ tree' = tree /\ phase' = phase /\ phase = "connect"
      /\ tipAnchor' \in {tipAnchor, [tipAnchor EXCEPT ![t] = TipAnchorFetched(t)]}
      /\ viewAnchor' = [viewAnchor EXCEPT ![t] = ViewAnchorFetched(t)]
      /\ Entered(ViewAnchorFetched(t))
  BY Zenon DEF ConnectSpend, HaveShieldedRequirements, dbVars, AnchorInv, AnchorTypes
<1>2. /\ tipAnchor' \in [Tree -> AnchorEntry \cup {NoEntry}]
      /\ AnchorClean' /\ AnchorFollows'
  BY Zenon, <1>1, AnchorRead DEF AnchorInv
<1>3. ViewAnchorFetched(t) \in AnchorEntry \cup {NoEntry} /\ "DIRTY" \notin ViewAnchorFetched(t).flags
  <2>1. CASE HasEntry(viewAnchor[t])
    BY Zenon, <1>1, <2>1 DEF ViewAnchorFetched, FetchAnchor, AnchorInv, AnchorTypes, AnchorView
  <2>2. CASE ~HasEntry(viewAnchor[t])
    BY Zenon, <1>1, <2>2, FetchedAnchor
    DEF ViewAnchorFetched, FetchAnchor, AnchorInv, AnchorTypes, AnchorEntry, Entered, HasEntry
  <2> QED
    BY Zenon, <2>1, <2>2
<1>4. ChainTrees' = ChainTrees /\ LastTree' = LastTree /\ TreesGrow'
  BY Zenon, <1>1, ChainSame DEF AnchorInv
<1>5. AnchorTypes' /\ AnchorView'
  BY Zenon, <1>1, <1>2, <1>3, <1>4 DEF AnchorInv, AnchorTypes, AnchorView
<1> QED
  BY Zenon, <1>2, <1>4, <1>5 DEF AnchorInv

LEMMA AnchorOutput ==
  ASSUME AnchorInv, chain \in Seq(BlockRecord), NEW c \in Note, ConnectOutput(c) PROVE AnchorInv'
<1>1. /\ phase = "connect" /\ Len(tree) < MaxNotes /\ tree' = Append(tree, c)
      /\ UNCHANGED <<chain, dbAnchor, dbBest, tipAnchor, tipBest, viewAnchor, phase>>
  BY Zenon DEF ConnectOutput, dbVars, tipVars
<1>2. tree \in Tree /\ tree \in Seq(Note) /\ LastTree \in Seq(Note)
  BY Zenon, LastTreeType, TreeFacts DEF AnchorInv, AnchorTypes
<1>3. tree' \in Tree /\ Len(tree') = Len(tree) + 1
  BY Zenon, <1>1, <1>2, TreeFacts, SeqAppend
<1>4. ChainTrees' = ChainTrees /\ LastTree' = LastTree /\ TreesGrow'
  BY Zenon, <1>1, ChainSame DEF AnchorInv
<1>5. NotShorter(LastTree, tree)'
  <2>1. Len(LastTree) \in Nat /\ Len(tree) \in Nat /\ Len(LastTree) <= Len(tree)
    BY Zenon, <1>1, <1>2, SeqLen DEF AnchorInv, AnchorView, NotShorter
  <2> QED
    BY <1>3, <1>4, <2>1 DEF NotShorter
<1>6. AnchorTypes' /\ AnchorView'
  BY Zenon, <1>1, <1>3, <1>4, <1>5 DEF AnchorInv, AnchorTypes, AnchorView
<1>7. AnchorClean' /\ AnchorFollows'
  BY Zenon, <1>1, <1>4, TreeFacts, AnchorRead DEF AnchorInv
<1> QED
  BY Zenon, <1>4, <1>6, <1>7 DEF AnchorInv

(* What the entries must be like for the answers to follow a new chain. *)
LEMMA AnchorMerged ==
  ASSUME AnchorTypes, AnchorClean, AnchorFollows, UNCHANGED <<dbAnchor, dbBest>>, NEW u \in Tree,
         tipAnchor' \in [Tree -> AnchorEntry \cup {NoEntry}],
         \A t \in Tree \ {u} : tipAnchor'[t] = tipAnchor[t] /\ (t \in ChainTrees' <=> t \in ChainTrees),
         HasEntry(tipAnchor'[u]) /\ tipAnchor'[u].tree = u /\ "DIRTY" \in tipAnchor'[u].flags,
         "ENTERED" \in tipAnchor'[u].flags <=> u \in ChainTrees'
  PROVE  AnchorClean' /\ \A t \in Tree : Entered(TipAnchorFetched(t))' <=> t \in ChainTrees'
<1>1. \A t \in Tree : DbTree(t)' = DbTree(t)
  BY Zenon DEF DbTree
<1>2. AnchorClean'
  BY Zenon, <1>1 DEF AnchorClean, HasEntry
<1>3. ASSUME NEW t \in Tree, t # u PROVE TipAnchorFetched(t)' = TipAnchorFetched(t)
  BY Zenon, <1>1, <1>3 DEF TipAnchorFetched
<1>4. TipAnchorFetched(u)' = tipAnchor'[u]
  BY Zenon DEF TipAnchorFetched, FetchAnchor, HasEntry
<1> QED
  BY Zenon, <1>2, <1>3, <1>4 DEF AnchorFollows, Entered, HasEntry

LEMMA LastLongest ==
  ASSUME chain \in Seq(BlockRecord), TreesGrow, NEW t \in ChainTrees
  PROVE  t \in Tree /\ NotShorter(t, LastTree)
<1>1. CASE t = EmptyTree
  BY <1>1, LastTreeType, TreeFacts DEF NotShorter, EmptyTree
<1>2. CASE t # EmptyTree
  <2>1. PICK i \in DOMAIN chain : t = chain[i].tree
    BY Zenon, <1>2 DEF ChainTrees
  <2>2. DOMAIN chain = 1 .. Len(chain) /\ Len(chain) \in Nat /\ chain[i] \in BlockRecord
    BY Zenon, SeqLen, SeqElement
  <2>3. LastTree = chain[Len(chain)].tree /\ Len(chain) \in DOMAIN chain /\ i <= Len(chain)
    BY <2>2, SeqEmpty DEF LastTree
  <2> QED
    BY Zenon, <2>1, <2>2, <2>3 DEF TreesGrow, BlockRecord
<1> QED
  BY Zenon, <1>1, <1>2

LEMMA AnchorFinish ==
  ASSUME AnchorInv, chain \in Seq(BlockRecord), blockNfs \in Seq(Nullifier), FinishConnect PROVE AnchorInv'
<1> DEFINE b == [nfs |-> blockNfs, tree |-> tree]
           anchors == PushAnchor(viewAnchor, tipBest, tree)
<1>1. /\ phase = "connect" /\ phase' = "idle" /\ chain' = Append(chain, b)
      /\ dbAnchor' = dbAnchor /\ dbBest' = dbBest /\ tipBest' = tree
      /\ tipAnchor' = [t \in Tree |-> MergeAnchor(tipAnchor[t], anchors[t])]
      /\ viewAnchor' = NoAnchor /\ tree' = EmptyTree
  BY Zenon DEF FinishConnect, dbVars
<1>2. tree \in Tree /\ b \in BlockRecord /\ b.tree = tree /\ LastTree \in Tree /\ tipBest = LastTree
  BY Zenon, <1>1, LastTreeType DEF AnchorInv, AnchorTypes, AnchorView, BlockRecord
<1> HIDE DEF b
<1>3. ChainTrees' = ChainTrees \cup {tree} /\ LastTree' = tree
  BY Zenon, <1>1, <1>2, ChainAppend
<1>4. TreesGrow'
  <2>1. /\ DOMAIN chain = 1 .. Len(chain) /\ Len(chain) \in Nat /\ DOMAIN chain' = 1 .. Len(chain) + 1
        /\ \A i \in DOMAIN chain : chain'[i] = chain[i] /\ chain[i].tree \in Tree
        /\ chain'[Len(chain) + 1] = b
    <3>1. /\ DOMAIN chain = 1 .. Len(chain) /\ Len(chain) \in Nat /\ DOMAIN chain' = 1 .. Len(chain) + 1
          /\ \A i \in DOMAIN chain : chain'[i] = chain[i]
          /\ chain'[Len(chain) + 1] = b
      BY <1>1, <1>2
    <3>2. \A i \in DOMAIN chain : chain[i] \in BlockRecord
      BY Zenon, <3>1, SeqElement
    <3> QED
      BY Zenon, <3>1, <3>2 DEF BlockRecord
  <2>2. NotShorter(tree, tree)
    BY <1>2, TreeFacts DEF NotShorter
  <2>3. ASSUME NEW i \in DOMAIN chain PROVE NotShorter(chain[i].tree, tree)
    <3>1. chain[i].tree \in ChainTrees
      BY Zenon DEF ChainTrees
    <3>2. NotShorter(chain[i].tree, LastTree) /\ NotShorter(LastTree, tree)
      BY Zenon, <1>1, <3>1, LastLongest DEF AnchorInv, AnchorView
    <3>3. Len(chain[i].tree) \in Nat /\ Len(LastTree) \in Nat /\ Len(tree) \in Nat
      BY Zenon, <1>2, <2>1, TreeFacts, SeqLen
    <3> QED
      BY <3>2, <3>3 DEF NotShorter
  <2>4. ASSUME NEW i \in DOMAIN chain', NEW j \in DOMAIN chain', i <= j
        PROVE  NotShorter(chain'[i].tree, chain'[j].tree)
    <3>1. CASE j \in DOMAIN chain
      BY SMTT(30), <2>1, <2>4, <3>1 DEF AnchorInv, TreesGrow
    <3>2. CASE j \notin DOMAIN chain
      BY SMTT(30), <1>2, <2>1, <2>2, <2>3, <2>4, <3>2
    <3> QED
      BY Zenon, <3>1, <3>2
  <2> QED
    BY Zenon, <2>4 DEF TreesGrow, NotShorter
<1>5. GetBestAnchor' = LastTree'
  BY Zenon, <1>1, <1>2, <1>3, TreeFacts DEF GetBestAnchor
<1>6. \A t \in Tree : MergeAnchor(tipAnchor[t], viewAnchor[t]) = tipAnchor[t]
  BY Zenon, <1>1 DEF MergeAnchor, AnchorInv, AnchorView
<1>7. CASE tree = tipBest
  <2>1. tipAnchor' = tipAnchor /\ ChainTrees' = ChainTrees
    BY Zenon, <1>1, <1>2, <1>3, <1>6, <1>7, LastTreeType DEF PushAnchor, AnchorInv, AnchorTypes
  <2>2. AnchorClean' /\ \A t \in Tree : Entered(TipAnchorFetched(t))' <=> t \in ChainTrees'
    BY Zenon, <1>1, <2>1 DEF AnchorInv, AnchorClean, AnchorFollows, DbTree, TipAnchorFetched, Entered
  <2>3. AnchorTypes'
    BY Zenon, <1>1, <1>2, <2>1, TreeFacts DEF AnchorInv, AnchorTypes, NoAnchor
  <2> QED
    BY Zenon, <1>1, <1>4, <1>5, <2>2, <2>3 DEF AnchorInv, AnchorFollows, AnchorView
<1>8. CASE tree # tipBest
  <2> DEFINE e == [flags |-> {"ENTERED", "DIRTY"}, tree |-> tree]
  <2>1. anchors = [viewAnchor EXCEPT ![tree] = e]
    BY Zenon, <1>8 DEF PushAnchor
  <2>2. e \in AnchorEntry /\ HasEntry(e)
    BY Zenon, <1>2, SaplingAssumption DEF AnchorEntry, HasEntry
  <2> HIDE DEF anchors
  <2>3. \A t \in Tree \ {tree} : tipAnchor'[t] = tipAnchor[t]
    BY Zenon, <1>1, <1>6, <2>1 DEF AnchorInv, AnchorTypes
  <2>4. tipAnchor'[tree] = MergeAnchor(tipAnchor[tree], e)
    BY Zenon, <1>1, <1>2, <2>1 DEF AnchorInv, AnchorTypes
  <2>5. tree \notin ChainTrees
    <3>1. Len(LastTree) < Len(tree)
      <4>1. NotShorter(LastTree, tree) /\ Len(LastTree) \in Nat /\ Len(tree) \in Nat
        BY Zenon, <1>1, <1>2, TreeFacts, SeqLen DEF AnchorInv, AnchorView
      <4> QED
        BY <1>2, <1>8, <4>1 DEF NotShorter
    <3>2. \A t \in ChainTrees : Len(t) <= Len(LastTree) /\ Len(t) \in Nat /\ Len(LastTree) \in Nat
      BY Zenon, <1>2, LastLongest, TreeFacts, SeqLen DEF AnchorInv, NotShorter
    <3> QED
      BY <3>1, <3>2
  <2>6. HasEntry(tipAnchor[tree]) => "ENTERED" \notin tipAnchor[tree].flags /\ tipAnchor[tree].tree = tree
    BY Zenon, <1>2, <2>5 DEF AnchorInv, AnchorFollows, AnchorClean, Entered, TipAnchorFetched, FetchAnchor
  <2>7. tipAnchor'[tree] = e
    <3>1. {"DIRTY"} \cup (e.flags \cap {"ENTERED"}) = e.flags /\ e.tree = tree
      BY Zenon
    <3>2. "DIRTY" \in e.flags /\ "ENTERED" \in e.flags
      BY Zenon
    <3> QED
      BY Zenon, <2>2, <2>4, <2>6, <3>1, <3>2 DEF MergeAnchor
  <2>8. tipAnchor' \in [Tree -> AnchorEntry \cup {NoEntry}]
    <3>1. tipAnchor' = [t \in Tree |-> tipAnchor'[t]]
      BY Zenon, <1>1
    <3>2. \A t \in Tree : tipAnchor'[t] \in AnchorEntry \cup {NoEntry}
      BY Zenon, <2>2, <2>3, <2>7 DEF AnchorInv, AnchorTypes
    <3> QED
      BY Zenon, <3>1, <3>2
  <2>9. AnchorClean' /\ \A t \in Tree : Entered(TipAnchorFetched(t))' <=> t \in ChainTrees'
    <3>1. AnchorTypes /\ AnchorClean /\ AnchorFollows /\ tree \in Tree /\ UNCHANGED <<dbAnchor, dbBest>>
      BY Zenon, <1>1, <1>2 DEF AnchorInv
    <3>2. \A t \in Tree \ {tree} : tipAnchor'[t] = tipAnchor[t] /\ (t \in ChainTrees' <=> t \in ChainTrees)
      BY Zenon, <1>3, <2>3
    <3>3. HasEntry(tipAnchor'[tree]) /\ tipAnchor'[tree].tree = tree /\ "DIRTY" \in tipAnchor'[tree].flags
      BY <2>2, <2>7
    <3>4. "ENTERED" \in tipAnchor'[tree].flags <=> tree \in ChainTrees'
      BY <1>3, <2>7
    <3> QED
      BY Zenon, <2>8, <3>1, <3>2, <3>3, <3>4, AnchorMerged
  <2>10. AnchorTypes'
    BY Zenon, <1>1, <1>2, <2>8, TreeFacts DEF AnchorInv, AnchorTypes, NoAnchor
  <2> QED
    BY Zenon, <1>1, <1>4, <1>5, <2>9, <2>10 DEF AnchorInv, AnchorFollows, AnchorView
<1> QED
  BY Zenon, <1>7, <1>8

LEMMA AnchorDisconnect ==
  ASSUME AnchorInv, chain \in Seq(BlockRecord), DisconnectTip PROVE AnchorInv'
<1> DEFINE a == GetBestAnchor
           brought == BringBestAnchorIntoCache
           anchors == PopAnchor(NoAnchor, a, brought[a], PrevTree)
<1>1. /\ phase = "idle" /\ phase' = phase /\ chain # << >> /\ chain' = SubSeq(chain, 1, Len(chain) - 1)
      /\ dbAnchor' = dbAnchor /\ dbBest' = dbBest /\ tipBest' = PrevTree
      /\ tipAnchor' = [t \in Tree |-> MergeAnchor(brought[t], anchors[t])]
      /\ viewAnchor' = viewAnchor /\ tree' = tree
  BY Zenon DEF DisconnectTip, dbVars, viewVars
<1>2. a = LastTree /\ a \in Tree /\ a \in ChainTrees
  BY Zenon, LastTreeType DEF AnchorInv, AnchorFollows
<1>3. /\ PrevTree \in Tree /\ LastTree' = PrevTree /\ ChainTrees = ChainTrees' \cup {LastTree}
      /\ LastTree # PrevTree => LastTree \notin ChainTrees'
      /\ DOMAIN chain' \subseteq DOMAIN chain /\ \A i \in DOMAIN chain' : chain'[i] = chain[i]
      /\ chain' \in Seq(BlockRecord)
  BY Zenon, <1>1, ChainPop DEF AnchorInv
<1>4. TreesGrow'
  BY <1>3 DEF AnchorInv, TreesGrow, NotShorter
<1>5. GetBestAnchor' = LastTree'
  BY Zenon, <1>1, <1>3, TreeFacts DEF GetBestAnchor
<1>6. \A x : MergeAnchor(x, NoEntry) = x
  BY Zenon DEF MergeAnchor, HasEntry
<1>7. CASE a = PrevTree
  <2>1. brought = tipAnchor /\ anchors = NoAnchor
    BY Zenon, <1>7 DEF BringBestAnchorIntoCache, PopAnchor
  <2>2. tipAnchor' = tipAnchor
    BY Zenon, <1>1, <1>6, <2>1 DEF NoAnchor, AnchorInv, AnchorTypes
  <2>3. ChainTrees' = ChainTrees
    <3>1. LastTree' \in ChainTrees'
      BY <1>3, LastTreeType, TreeFacts DEF LastTree, ChainTrees, BlockRecord
    <3> QED
      BY Zenon, <1>2, <1>3, <1>7, <3>1
  <2>4. AnchorClean' /\ \A t \in Tree : Entered(TipAnchorFetched(t))' <=> t \in ChainTrees'
    BY Zenon, <1>1, <2>2, <2>3 DEF AnchorInv, AnchorClean, AnchorFollows, DbTree, TipAnchorFetched, Entered
  <2>5. AnchorTypes'
    BY Zenon, <1>1, <1>3, <2>2 DEF AnchorInv, AnchorTypes
  <2> QED
    BY Zenon, <1>1, <1>4, <1>5, <2>4, <2>5 DEF AnchorInv, AnchorFollows, AnchorView
<1>8. CASE a # PrevTree
  <2> DEFINE f == TipAnchorFetched(a)
             e == [flags |-> {"DIRTY"}, tree |-> a]
  <2>1. HasEntry(f) /\ "ENTERED" \in f.flags /\ f.tree = a
    BY Zenon, <1>2, FetchedAnchor DEF AnchorInv, AnchorFollows, Entered
  <2>2. brought = [tipAnchor EXCEPT ![a] = f]
    BY Zenon, <1>8 DEF BringBestAnchorIntoCache
  <2>3. brought[a] = f /\ \A t \in Tree \ {a} : brought[t] = tipAnchor[t]
    BY Zenon, <1>2, <2>2 DEF AnchorInv, AnchorTypes
  <2> HIDE DEF f, brought
  <2>4. anchors = [NoAnchor EXCEPT ![a] = e]
    BY Zenon, <1>8, <2>1, <2>3 DEF PopAnchor, TreeOf
  <2>5. e \in AnchorEntry /\ HasEntry(e)
    BY Zenon, <1>2, SaplingAssumption DEF AnchorEntry, HasEntry
  <2>6. anchors[a] = e /\ \A t \in Tree \ {a} : anchors[t] = NoEntry
    BY Zenon, <1>2, <2>4 DEF NoAnchor
  <2> HIDE DEF anchors, a
  <2>7. \A t \in Tree \ {a} : tipAnchor'[t] = tipAnchor[t]
    BY Zenon, <1>1, <1>6, <2>3, <2>6
  <2>8. tipAnchor'[a] = e
    <3>1. tipAnchor'[a] = MergeAnchor(f, e)
      BY Zenon, <1>1, <1>2, <2>3, <2>6
    <3>2. {"DIRTY"} \cup (e.flags \cap {"ENTERED"}) = e.flags /\ e.tree = a
      BY Zenon
    <3>3. "DIRTY" \in e.flags /\ "ENTERED" \notin e.flags
      BY Zenon
    <3> QED
      BY Zenon, <2>1, <2>5, <3>1, <3>2, <3>3 DEF MergeAnchor
  <2>9. tipAnchor' \in [Tree -> AnchorEntry \cup {NoEntry}]
    <3>1. tipAnchor' = [t \in Tree |-> tipAnchor'[t]]
      BY Zenon, <1>1
    <3>2. \A t \in Tree : tipAnchor'[t] \in AnchorEntry \cup {NoEntry}
      BY Zenon, <2>5, <2>7, <2>8 DEF AnchorInv, AnchorTypes
    <3> QED
      BY Zenon, <3>1, <3>2
  <2>10. AnchorClean' /\ \A t \in Tree : Entered(TipAnchorFetched(t))' <=> t \in ChainTrees'
    <3>1. "ENTERED" \in tipAnchor'[a].flags <=> a \in ChainTrees'
      BY SMTT(30), <1>2, <1>3, <1>8, <2>8
    <3>2. HasEntry(tipAnchor'[a]) /\ tipAnchor'[a].tree = a /\ "DIRTY" \in tipAnchor'[a].flags
      BY <2>5, <2>8
    <3>3. \A t \in Tree \ {a} : tipAnchor'[t] = tipAnchor[t] /\ (t \in ChainTrees' <=> t \in ChainTrees)
      BY Zenon, <1>2, <1>3, <2>7
    <3> QED
      BY Zenon, <1>1, <1>2, <2>9, <3>1, <3>2, <3>3, AnchorMerged DEF AnchorInv
  <2>11. AnchorTypes'
    BY Zenon, <1>1, <1>3, <2>9 DEF AnchorInv, AnchorTypes
  <2> QED
    BY Zenon, <1>1, <1>4, <1>5, <2>10, <2>11 DEF AnchorInv, AnchorFollows, AnchorView
<1> QED
  BY Zenon, <1>7, <1>8

LEMMA AnchorFlush == ASSUME AnchorInv, chain \in Seq(BlockRecord), Flush PROVE AnchorInv'
<1>1. /\ phase = "idle" /\ phase' = phase /\ chain' = chain /\ viewAnchor' = viewAnchor /\ tree' = tree
      /\ dbAnchor' = [t \in Tree |-> DbAnchorAfter(t)]
      /\ dbBest' = IF tipBest # NoEntry THEN tipBest ELSE dbBest
      /\ tipAnchor' = NoAnchor /\ tipBest' = tipBest
  BY Zenon DEF Flush, viewVars
<1>2. ChainTrees' = ChainTrees /\ LastTree' = LastTree /\ TreesGrow'
  BY Zenon, <1>1, ChainSame DEF AnchorInv
<1>3. EmptyTree \in ChainTrees /\ EmptyTree \in Tree
  BY Zenon, TreeFacts DEF ChainTrees
<1>4. DbAnchorAfter(EmptyTree) = NoEntry
  BY Zenon, <1>3 DEF DbAnchorAfter, AnchorInv, AnchorClean
<1>5. ASSUME NEW t \in Tree, t # EmptyTree
      PROVE  DbAnchorAfter(t) \in {t, NoEntry} /\ (DbAnchorAfter(t) # NoEntry <=> t \in ChainTrees)
  <2>1. DbTree(t) = dbAnchor[t] /\ t # NoEntry
    BY Zenon, <1>5, TreeFacts DEF DbTree
  <2>2. CASE HasEntry(tipAnchor[t])
    BY Zenon, <1>5, <2>1, <2>2
    DEF DbAnchorAfter, AnchorInv, AnchorClean, AnchorFollows, TipAnchorFetched, FetchAnchor, Entered
  <2>3. CASE ~HasEntry(tipAnchor[t])
    <3>1. Entered(TipAnchorFetched(t)) <=> DbTree(t) # NoEntry
      <4>1. CASE DbTree(t) = NoEntry
        BY Zenon, <2>3, <4>1 DEF TipAnchorFetched, FetchAnchor, Entered, HasEntry
      <4>2. CASE DbTree(t) # NoEntry
        <5>1. TipAnchorFetched(t) = [flags |-> {"ENTERED"}, tree |-> DbTree(t)]
          BY Zenon, <2>3, <4>2 DEF TipAnchorFetched, FetchAnchor
        <5>2. TipAnchorFetched(t) \in AnchorEntry
          BY <4>2, <5>1, FetchedAnchor DEF AnchorInv, AnchorEntry
        <5>3. TipAnchorFetched(t) # NoEntry
          BY Zenon, <5>2, SaplingAssumption
        <5>4. "ENTERED" \in TipAnchorFetched(t).flags
          BY <5>1
        <5> QED
          BY Zenon, <4>2, <5>3, <5>4 DEF Entered, HasEntry
      <4> QED
        BY Zenon, <4>1, <4>2
    <3> QED
      BY Zenon, <1>5, <2>1, <2>3, <3>1 DEF DbAnchorAfter, AnchorInv, AnchorClean, AnchorFollows
  <2> QED
    BY Zenon, <2>2, <2>3
<1>6. \A t \in Tree : tipAnchor'[t] = NoEntry
  BY Zenon, <1>1 DEF NoAnchor
<1>7. \A t \in Tree : DbTree(t)' = IF t \in ChainTrees THEN t ELSE NoEntry
  BY Zenon, <1>1, <1>3, <1>5 DEF DbTree
<1>8. AnchorClean'
  BY Zenon, <1>1, <1>3, <1>4, <1>5, <1>6 DEF AnchorClean, HasEntry
<1>9. ASSUME NEW t \in Tree PROVE Entered(TipAnchorFetched(t))' <=> t \in ChainTrees'
  <2>1. TipAnchorFetched(t)' = IF t \in ChainTrees THEN [flags |-> {"ENTERED"}, tree |-> t] ELSE NoEntry
    BY Zenon, <1>6, <1>7, TreeFacts DEF TipAnchorFetched, FetchAnchor, HasEntry
  <2>2. [flags |-> {"ENTERED"}, tree |-> t] # NoEntry
    BY Zenon, SaplingAssumption DEF AnchorEntry
  <2> QED
    BY <1>2, <2>1, <2>2 DEF Entered, HasEntry
<1>10. GetBestAnchor' = LastTree'
  BY Zenon, <1>1, <1>2 DEF AnchorInv, AnchorFollows, GetBestAnchor
<1>11. AnchorTypes'
  <2>1. \A t \in Tree : DbAnchorAfter(t) \in Tree \cup {NoEntry}
    BY Zenon, <1>4, <1>5
  <2> QED
    BY Zenon, <1>1, <2>1 DEF AnchorInv, AnchorTypes, NoAnchor
<1> QED
  BY Zenon, <1>1, <1>2, <1>8, <1>9, <1>10, <1>11 DEF AnchorInv, AnchorFollows, AnchorView

LEMMA AnchorOthers ==
  ASSUME AnchorInv, chain \in Seq(BlockRecord),
         \/ \E n \in Nullifier, t \in Tree : CheckAgainstTip(n, t)
         \/ FailConnect
         \/ UNCHANGED saplingVars
  PROVE  AnchorInv'
<1>1. /\ UNCHANGED <<chain, dbAnchor, dbBest, tipBest>>
      /\ \E t \in Tree : tipAnchor' \in {tipAnchor, [tipAnchor EXCEPT ![t] = TipAnchorFetched(t)]}
  <2>1. ASSUME NEW n \in Nullifier, NEW t \in Tree, CheckAgainstTip(n, t)
        PROVE  tipAnchor' \in {tipAnchor, [tipAnchor EXCEPT ![t] = TipAnchorFetched(t)]}
    BY Zenon, <2>1 DEF CheckAgainstTip, AnchorInv, AnchorTypes
  <2> QED
    BY Zenon, <2>1, TreeFacts DEF CheckAgainstTip, FailConnect, saplingVars, dbVars, tipVars
<1>2. /\ tipAnchor' \in [Tree -> AnchorEntry \cup {NoEntry}]
      /\ AnchorClean' /\ AnchorFollows'
  BY Zenon, <1>1, AnchorRead DEF AnchorInv
<1>3. ChainTrees' = ChainTrees /\ LastTree' = LastTree /\ TreesGrow'
  BY Zenon, <1>1, ChainSame DEF AnchorInv
<1>4. \/ UNCHANGED <<viewAnchor, tree, phase>>
      \/ viewAnchor' = NoAnchor /\ tree' = EmptyTree /\ phase' = "idle"
  BY Zenon DEF CheckAgainstTip, FailConnect, saplingVars, viewVars
<1>5. AnchorTypes'
  BY Zenon, <1>1, <1>2, <1>4, TreeFacts DEF AnchorInv, AnchorTypes, NoAnchor
<1>6. AnchorView'
  BY Zenon, <1>1, <1>3, <1>4 DEF AnchorInv, AnchorView, NotShorter
<1> QED
  BY Zenon, <1>2, <1>3, <1>5, <1>6 DEF AnchorInv

-----------------------------------------------------------------------------
LEMMA InitInv == ASSUME SaplingInit PROVE Inv
<1>0. chain = << >> /\ DOMAIN chain = {} /\ chain \in Seq(BlockRecord) /\ blockNfs \in Seq(Nullifier)
  <2>1. chain = << >> /\ blockNfs = << >>
    BY Zenon DEF SaplingInit
  <2>2. DOMAIN chain = {}
    BY <2>1
  <2> QED
    BY Zenon, <2>1, <2>2, SeqEmpty
<1>1. ChainNfs = {} /\ ChainTrees = {EmptyTree} /\ LastTree = EmptyTree
  <2>1. ChainNfs = {}
    BY Zenon, <1>0 DEF ChainNfs
  <2>2. ChainTrees = {EmptyTree}
    BY Zenon, <1>0 DEF ChainTrees
  <2> QED
    BY Zenon, <1>0, <2>1, <2>2 DEF LastTree
<1>2. NfTypes /\ NfClean /\ NfFollows
  <2>1. \A n \in Nullifier : tipNf[n] = NoEntry /\ n \notin dbNf
    BY Zenon DEF SaplingInit, NoNf
  <2>2. NfTypes
    BY Zenon, <1>0 DEF SaplingInit, NfTypes, NoNf
  <2>3. NfClean
    BY Zenon, <2>1 DEF NfClean, HasEntry
  <2>4. NfFollows
    BY Zenon, <1>1, <2>1 DEF NfFollows, TipNfFetched, FetchNullifier, HasEntry
  <2> QED
    BY Zenon, <2>2, <2>3, <2>4
<1>3. NfView /\ NoDoubleSpend
  <2>1. NfView
    BY Zenon DEF SaplingInit, NfView
  <2> QED
    BY Zenon, <1>0, <2>1 DEF NoDoubleSpend
<1>4. AnchorTypes /\ AnchorClean
  BY Zenon, TreeFacts DEF SaplingInit, AnchorTypes, AnchorClean, NoAnchor, HasEntry
<1>5. ASSUME NEW t \in Tree PROVE Entered(TipAnchorFetched(t)) <=> t = EmptyTree
  <2>1. tipAnchor[t] = NoEntry /\ dbAnchor[t] = NoEntry
    BY Zenon DEF SaplingInit, NoAnchor
  <2>2. TipAnchorFetched(t) = IF t = EmptyTree THEN [flags |-> {"ENTERED"}, tree |-> t] ELSE NoEntry
    BY Zenon, <2>1, TreeFacts DEF TipAnchorFetched, FetchAnchor, DbTree, HasEntry
  <2>3. [flags |-> {"ENTERED"}, tree |-> t] # NoEntry
    BY Zenon, SaplingAssumption DEF AnchorEntry
  <2> QED
    BY <2>2, <2>3 DEF Entered, HasEntry
<1>6. AnchorFollows /\ TreesGrow /\ AnchorView
  <2>1. GetBestAnchor = LastTree
    BY Zenon, <1>1 DEF SaplingInit, GetBestAnchor
  <2>2. AnchorFollows
    BY Zenon, <1>1, <1>5, <2>1 DEF AnchorFollows
  <2>3. TreesGrow
    BY Zenon, <1>0 DEF TreesGrow
  <2>4. AnchorView
    BY Zenon DEF SaplingInit, AnchorView
  <2> QED
    BY Zenon, <2>2, <2>3, <2>4
<1> QED
  BY Zenon, <1>2, <1>3, <1>4, <1>6 DEF Inv, NfInv, AnchorInv

LEMMA StepInv == ASSUME Inv, [SaplingNext]_saplingVars PROVE Inv'
<1> USE DEF Inv
<1>0. chain \in Seq(BlockRecord) /\ blockNfs \in Seq(Nullifier) /\ tree \in Tree
  BY Zenon DEF NfInv, NfTypes, AnchorInv, AnchorTypes
<1>1. CASE StartConnect
  BY Zenon, <1>0, <1>1, NfStart, AnchorStart
<1>2. CASE \E n \in Nullifier, t \in Tree : ConnectSpend(n, t)
  BY Zenon, <1>0, <1>2, NfSpend, AnchorSpend
<1>3. CASE \E c \in Note : ConnectOutput(c)
  BY Zenon, <1>0, <1>3, NfOthers, AnchorOutput
<1>4. CASE FinishConnect
  BY Zenon, <1>0, <1>4, NfFinish, AnchorFinish
<1>5. CASE DisconnectTip
  BY Zenon, <1>0, <1>5, NfDisconnect, AnchorDisconnect
<1>6. CASE Flush
  BY Zenon, <1>0, <1>6, NfFlush, AnchorFlush
<1>7. CASE \/ \E n \in Nullifier, t \in Tree : CheckAgainstTip(n, t)
           \/ FailConnect
           \/ UNCHANGED saplingVars
  BY Zenon, <1>0, <1>7, NfOthers, AnchorOthers
<1> QED
  BY Zenon, <1>1, <1>2, <1>3, <1>4, <1>5, <1>6, <1>7 DEF SaplingNext

(* The inductive invariant of the shielded caches.                         *)
THEOREM SaplingInvariant == SaplingSpec => []Inv
<1>1. SaplingInit => Inv
  BY Zenon, InitInv
<1>2. Inv /\ [SaplingNext]_saplingVars => Inv'
  BY Zenon, StepInv
<1> QED
  BY <1>1, <1>2, PTL DEF SaplingSpec

(* No two spends of the active chain reveal the same nullifier, whatever   *)
(* ConnectBlock, DisconnectBlock, the mempool's reads and the flushes do   *)
(* to the caches in between.                                               *)
THEOREM NoNoteSpentTwice == SaplingSpec => []NoDoubleSpend
<1>1. Inv => NoDoubleSpend
  BY Zenon DEF Inv, NfInv
<1> QED
  BY <1>1, SaplingInvariant, PTL

(* pcoinsTip answers GetNullifier, GetSaplingAnchorAt and GetBestAnchor as *)
(* the active chain says.                                                  *)
THEOREM CachesFollowChain == SaplingSpec => []TipFollowsChain
<1>1. Inv => TipFollowsChain
  BY Zenon DEF Inv, NfInv, AnchorInv, NfFollows, AnchorFollows, TipFollowsChain
<1> QED
  BY <1>1, SaplingInvariant, PTL
=============================================================================
