---------------------------- MODULE SaplingCache ----------------------------
(***************************************************************************)
(* The shielded half of the coin caches: the nullifiers already revealed   *)
(* and the anchors (roots of the note commitment tree) a spend may refer   *)
(* to, in the database, in pcoinsTip and in the view of the block being    *)
(* processed, while blocks are connected, disconnected and flushed.        *)
(*                                                                         *)
(* A note commitment tree is the sequence of its leaves, and stands for    *)
(* its own root: the hash is taken to be injective.  A cache entry still   *)
(* carries the tree it was filled with, so that a wrong tree under a right *)
(* root can be told apart.                                                 *)
(***************************************************************************)
EXTENDS Naturals, Sequences

CONSTANTS
  Nullifier,  \* nullifiers of notes that can be spent
  Note,       \* note commitments
  NoEntry,    \* no entry, no record
  MaxNotes,   \* bound: leaves of a tree
  MaxHeight   \* bound: blocks above the last one before Sapling

Tree == UNION {[1 .. n -> Note] : n \in 0 .. MaxNotes}
EmptyTree == <<>>

\* CNullifiersCacheEntry is its flags, `entered' among them; an
\* CAnchorsSaplingCacheEntry has a tree too.
NfEntry == SUBSET {"ENTERED", "DIRTY"}
AnchorEntry == [flags : SUBSET {"ENTERED", "DIRTY"}, tree : Tree]

ASSUME SaplingAssumption ==
  /\ MaxNotes \in Nat /\ MaxHeight \in Nat
  /\ \A e \in NfEntry : e # NoEntry
  /\ \A e \in AnchorEntry : e # NoEntry
  /\ \A t \in Tree : t # NoEntry

VARIABLES
  chain,       \* the active chain: what each block reveals, and its final tree
  dbNf, dbAnchor, dbBest,        \* chainstate records
  tipNf, tipAnchor, tipBest,     \* pcoinsTip's maps and hashSaplingAnchor
  viewNf, viewAnchor,            \* the maps of the view of one block
  phase,       \* "connect" while ConnectBlock runs on the view
  tree,        \* ConnectBlock's sapling_tree
  blockNfs     \* nullifiers the transactions connected so far reveal, in order

dbVars == <<dbNf, dbAnchor, dbBest>>
tipVars == <<tipNf, tipAnchor, tipBest>>
viewVars == <<viewNf, viewAnchor, phase, tree, blockNfs>>
saplingVars == <<chain, dbNf, dbAnchor, dbBest, tipNf, tipAnchor, tipBest,
                 viewNf, viewAnchor, phase, tree, blockNfs>>

SaplingTypeOK ==
  /\ chain \in Seq([nfs : Seq(Nullifier), tree : Tree])
  /\ Len(chain) <= MaxHeight
  /\ dbNf \in SUBSET Nullifier
  /\ dbAnchor \in [Tree -> Tree \cup {NoEntry}]
  /\ dbBest \in Tree \cup {NoEntry}
  /\ tipNf \in [Nullifier -> NfEntry \cup {NoEntry}]
  /\ tipAnchor \in [Tree -> AnchorEntry \cup {NoEntry}]
  /\ tipBest \in Tree \cup {NoEntry}
  /\ viewNf \in [Nullifier -> NfEntry \cup {NoEntry}]
  /\ viewAnchor \in [Tree -> AnchorEntry \cup {NoEntry}]
  /\ phase \in {"idle", "connect"}
  /\ tree \in Tree
  /\ blockNfs \in Seq(Nullifier)

NoNf == [n \in Nullifier |-> NoEntry]
NoAnchor == [t \in Tree |-> NoEntry]

-----------------------------------------------------------------------------
(* Reading: one layer asks the one below it and remembers the answer. *)

HasEntry(e) == e # NoEntry

\* GetNullifier remembers negative answers as well.
FetchNullifier(e, below) ==
  IF HasEntry(e) THEN e ELSE IF below THEN {"ENTERED"} ELSE {}

TipNfFetched(n) == FetchNullifier(tipNf[n], n \in dbNf)
ViewNfFetched(n) == FetchNullifier(viewNf[n], "ENTERED" \in TipNfFetched(n))

\* GetSaplingAnchorAt remembers only the anchors it finds.
FetchAnchor(e, found, t) ==
  IF HasEntry(e) \/ ~found THEN e ELSE [flags |-> {"ENTERED"}, tree |-> t]

Entered(e) == HasEntry(e) /\ "ENTERED" \in e.flags

\* The database knows the empty root without a record.
DbTree(t) == IF t = EmptyTree THEN EmptyTree ELSE dbAnchor[t]
TipAnchorFetched(t) == FetchAnchor(tipAnchor[t], DbTree(t) # NoEntry, DbTree(t))
ViewAnchorFetched(t) ==
  FetchAnchor(viewAnchor[t], Entered(TipAnchorFetched(t)), TipAnchorFetched(t).tree)

\* GetBestAnchor: pcoinsTip asks the database once, the database answers the
\* empty root when it has no record.
GetBestAnchor ==
  IF tipBest # NoEntry THEN tipBest
  ELSE IF dbBest # NoEntry THEN dbBest ELSE EmptyTree

-----------------------------------------------------------------------------
(* Writing: the merge of a view's entry into its parent. *)

MergeNf(p, c) ==
  IF ~HasEntry(c) \/ "DIRTY" \notin c THEN p
  ELSE IF ~HasEntry(p) THEN {"DIRTY"} \cup (c \cap {"ENTERED"})
  ELSE IF ("ENTERED" \in p) = ("ENTERED" \in c) THEN p
  ELSE {"DIRTY"} \cup (c \cap {"ENTERED"})

\* The tree of an entry the parent already holds is kept.
MergeAnchor(p, c) ==
  IF ~HasEntry(c) \/ "DIRTY" \notin c.flags THEN p
  ELSE IF ~HasEntry(p) THEN [flags |-> {"DIRTY"} \cup (c.flags \cap {"ENTERED"}),
                             tree |-> c.tree]
  ELSE IF ("ENTERED" \in p.flags) = ("ENTERED" \in c.flags) THEN p
  ELSE [flags |-> {"DIRTY"} \cup (c.flags \cap {"ENTERED"}), tree |-> p.tree]

\* BatchWriteNullifiers and BatchWriteAnchors of the database.
DbNfAfter(n) ==
  IF HasEntry(tipNf[n]) /\ "DIRTY" \in tipNf[n] THEN "ENTERED" \in tipNf[n] ELSE n \in dbNf

\* Mutant: a popped anchor is skipped instead of erased.
DbAnchorAfterNoErase(t) ==
  IF ~HasEntry(tipAnchor[t]) \/ "ENTERED" \notin tipAnchor[t].flags \/ t = EmptyTree
  THEN dbAnchor[t] ELSE tipAnchor[t].tree

DbAnchorAfter(t) ==
  IF ~HasEntry(tipAnchor[t]) \/ "DIRTY" \notin tipAnchor[t].flags THEN dbAnchor[t]
  ELSE IF "ENTERED" \notin tipAnchor[t].flags THEN NoEntry
  ELSE IF t = EmptyTree THEN dbAnchor[t]
  ELSE tipAnchor[t].tree

\* AbstractPushAnchor on the entry of the new root.
PushAnchor(anchors, current, t) ==
  IF current = t THEN anchors
  ELSE [anchors EXCEPT ![t] = [flags |-> {"ENTERED", "DIRTY"}, tree |-> t]]

\* operator[] makes an entry with an empty tree.
TreeOf(e) == IF HasEntry(e) THEN e.tree ELSE EmptyTree

\* AbstractPopAnchor: the current root leaves, its tree is kept in the entry.
PopAnchor(anchors, current, fetched, to) ==
  IF current = to THEN anchors
  ELSE [anchors EXCEPT ![current] = [flags |-> {"DIRTY"}, tree |-> TreeOf(fetched)]]

-----------------------------------------------------------------------------
(* ConnectTip. *)

\* ConnectBlock asks the view for the best anchor and its tree.
StartConnect ==
  /\ phase = "idle"
  /\ Len(chain) < MaxHeight
  /\ Entered(TipAnchorFetched(GetBestAnchor))
  /\ phase' = "connect"
  /\ tipBest' = GetBestAnchor
  /\ tipAnchor' = [tipAnchor EXCEPT ![GetBestAnchor] = TipAnchorFetched(GetBestAnchor)]
  /\ viewNf' = NoNf
  /\ viewAnchor' = [NoAnchor EXCEPT ![GetBestAnchor] =
                      FetchAnchor(NoEntry, TRUE, TipAnchorFetched(GetBestAnchor).tree)]
  /\ tree' = TipAnchorFetched(GetBestAnchor).tree
  /\ blockNfs' = <<>>
  /\ UNCHANGED <<chain, dbVars, tipNf>>

\* Mutant: HaveShieldedRequirements asks pcoinsTip, where the block's earlier
\* transactions have not been recorded.
HaveShieldedRequirementsOfTip(n, t) ==
  /\ "ENTERED" \notin TipNfFetched(n)
  /\ Entered(ViewAnchorFetched(t))

\* HaveShieldedRequirements of a spend revealing n under anchor t.
HaveShieldedRequirements(n, t) ==
  /\ "ENTERED" \notin ViewNfFetched(n)
  /\ Entered(ViewAnchorFetched(t))

\* A shielded transaction spends a note under anchor t: the reads fill the
\* caches, SetNullifiers(tx, true) records the nullifier in the view.  One spend
\* stands for the transaction: CheckTransaction rejects a nullifier repeated in one.
ConnectSpend(n, t) ==
  /\ phase = "connect"
  /\ HaveShieldedRequirements(n, t)
  /\ tipNf' = [tipNf EXCEPT ![n] = IF HasEntry(viewNf[n]) THEN @ ELSE TipNfFetched(n)]
  /\ tipAnchor' = [tipAnchor EXCEPT ![t] = IF HasEntry(viewAnchor[t]) THEN @ ELSE TipAnchorFetched(t)]
  /\ viewNf' = [viewNf EXCEPT ![n] = {"ENTERED", "DIRTY"}]
  /\ viewAnchor' = [viewAnchor EXCEPT ![t] = ViewAnchorFetched(t)]
  /\ blockNfs' = Append(blockNfs, n)
  /\ UNCHANGED <<chain, dbVars, tipBest, phase, tree>>

\* A shielded output is appended to ConnectBlock's tree.
ConnectOutput(c) ==
  /\ phase = "connect"
  /\ Len(tree) < MaxNotes
  /\ tree' = Append(tree, c)
  /\ UNCHANGED <<chain, dbVars, tipVars, viewNf, viewAnchor, phase, blockNfs>>

\* The block fails a check: the view is dropped.
FailConnect ==
  /\ phase = "connect"
  /\ phase' = "idle"
  /\ viewNf' = NoNf
  /\ viewAnchor' = NoAnchor
  /\ tree' = EmptyTree
  /\ blockNfs' = <<>>
  /\ UNCHANGED <<chain, dbVars, tipVars>>

\* PushAnchor(sapling_tree), then view.Flush().
FinishConnect ==
  /\ phase = "connect"
  /\ LET anchors == PushAnchor(viewAnchor, tipBest, tree)
     IN  tipAnchor' = [t \in Tree |-> MergeAnchor(tipAnchor[t], anchors[t])]
  /\ tipNf' = [n \in Nullifier |-> MergeNf(tipNf[n], viewNf[n])]
  /\ tipBest' = tree
  /\ chain' = Append(chain, [nfs |-> blockNfs, tree |-> tree])
  /\ phase' = "idle"
  /\ viewNf' = NoNf
  /\ viewAnchor' = NoAnchor
  /\ tree' = EmptyTree
  /\ blockNfs' = <<>>
  /\ UNCHANGED dbVars

-----------------------------------------------------------------------------
(* DisconnectTip, reads of pcoinsTip, and FlushStateToDisk. *)

Revealed(b) == {b.nfs[k] : k \in DOMAIN b.nfs}

\* The final tree of the block below the last one.
PrevTree == IF Len(chain) = 1 THEN EmptyTree ELSE chain[Len(chain) - 1].tree

\* BringBestAnchorIntoCache, when there is an anchor to pop.
BringBestAnchorIntoCache ==
  IF GetBestAnchor = PrevTree THEN tipAnchor
  ELSE [tipAnchor EXCEPT ![GetBestAnchor] = TipAnchorFetched(GetBestAnchor)]

\* DisconnectBlock clears the block's nullifiers and pops its anchor in a view,
\* which is flushed.
DisconnectTip ==
  /\ phase = "idle"
  /\ chain # <<>>
  /\ LET nfs == Revealed(chain[Len(chain)])
         brought == BringBestAnchorIntoCache
         anchors == PopAnchor(NoAnchor, GetBestAnchor, brought[GetBestAnchor], PrevTree)
     IN  /\ tipNf' = [n \in Nullifier |->
                        IF n \in nfs THEN MergeNf(tipNf[n], {"DIRTY"}) ELSE tipNf[n]]
         /\ tipAnchor' = [t \in Tree |-> MergeAnchor(brought[t], anchors[t])]
  /\ tipBest' = PrevTree
  /\ chain' = SubSeq(chain, 1, Len(chain) - 1)
  /\ UNCHANGED <<dbVars, viewVars>>

\* AcceptToMemoryPool checks a shielded transaction against pcoinsTip.
CheckAgainstTip(n, t) ==
  /\ phase = "idle"
  /\ tipNf' = [tipNf EXCEPT ![n] = TipNfFetched(n)]
  /\ tipAnchor' = [tipAnchor EXCEPT ![t] =
                     IF "ENTERED" \in TipNfFetched(n) THEN @ ELSE TipAnchorFetched(t)]
  /\ UNCHANGED <<chain, dbVars, tipBest, viewVars>>

\* pcoinsTip->Flush(): the best anchor is written only when it is known.
Flush ==
  /\ phase = "idle"
  /\ dbNf' = {n \in Nullifier : DbNfAfter(n)}
  /\ dbAnchor' = [t \in Tree |-> DbAnchorAfter(t)]
  /\ dbBest' = IF tipBest # NoEntry THEN tipBest ELSE dbBest
  /\ tipNf' = NoNf
  /\ tipAnchor' = NoAnchor
  /\ UNCHANGED <<chain, tipBest, viewVars>>

SaplingInit ==
  /\ chain = <<>>
  /\ dbNf = {} /\ dbAnchor = NoAnchor /\ dbBest = NoEntry
  /\ tipNf = NoNf /\ tipAnchor = NoAnchor /\ tipBest = NoEntry
  /\ viewNf = NoNf /\ viewAnchor = NoAnchor
  /\ phase = "idle" /\ tree = EmptyTree /\ blockNfs = <<>>

SaplingNext ==
  \/ StartConnect
  \/ \E n \in Nullifier, t \in Tree : ConnectSpend(n, t) \/ CheckAgainstTip(n, t)
  \/ \E c \in Note : ConnectOutput(c)
  \/ FailConnect
  \/ FinishConnect
  \/ DisconnectTip
  \/ Flush

SaplingSpec == SaplingInit /\ [][SaplingNext]_saplingVars

-----------------------------------------------------------------------------
(* Properties. *)

ChainNfs == UNION {Revealed(chain[i]) : i \in DOMAIN chain}
ChainTrees == {EmptyTree} \cup {chain[i].tree : i \in DOMAIN chain}
LastTree == IF chain = <<>> THEN EmptyTree ELSE chain[Len(chain)].tree

\* No note is spent twice: neither two blocks of the active chain nor two spends of
\* one block reveal the same nullifier, whatever was disconnected, read or flushed
\* in between.
NoDoubleSpend ==
  \A i, j \in DOMAIN chain :
    \A k \in DOMAIN chain[i].nfs, l \in DOMAIN chain[j].nfs :
      chain[i].nfs[k] = chain[j].nfs[l] => i = j /\ k = l

\* pcoinsTip answers for nullifiers and anchors exactly what the active chain
\* says: a nullifier is spent when a block of the chain reveals it, an anchor is
\* known when it is the final root of a block of the chain.
TipFollowsChain ==
  /\ \A n \in Nullifier : "ENTERED" \in TipNfFetched(n) <=> n \in ChainNfs
  /\ \A t \in Tree : Entered(TipAnchorFetched(t)) <=> t \in ChainTrees
  /\ GetBestAnchor = LastTree

=============================================================================
