------------------------- MODULE MempoolSumsProofs -------------------------
(***************************************************************************)
(* The sums of the pool stay exact: what MempoolProofs says of the steps   *)
(* and MempoolSumLemmas of the operations, put together.  And what rests   *)
(* on exact counts: the order of mempool.dat.                              *)
(***************************************************************************)
EXTENDS MempoolProofs, MempoolSumLemmas

(* The inductive invariant. *)
SumsBase == EntriesInv /\ ControlInv /\ MinableInv /\ BackInv /\ SumsInv

LEMMA InitSumsBase ==
  ASSUME Init
  PROVE  SumsBase
BY Zenon, InitControl, InitMinable, InitBack, InitSums DEF SumsBase, SumsInv

LEMMA SumsBaseStep ==
  ASSUME SumsBase, ReorgFits, [Next]_vars
  PROVE  SumsBase'
<1>0. EntriesInv /\ ControlInv /\ MinableInv /\ BackInv /\ SumsInv
  BY Zenon DEF SumsBase
<1>1. EntriesInv' /\ ControlInv' /\ MinableInv'
  BY Zenon, <1>0, EntriesStep, ControlStep, MinableStep
<1>2. BackInv' /\ (Linkings \/ UNCHANGED vars \/ (OneOperation /\ pc # "link" /\ pc' # "link"))
  BY Zenon, <1>0, <1>1, BackStep
<1>3. SumsInv'
  BY Zenon, <1>0, <1>1, <1>2, SumsStep
<1> QED
  BY Zenon, <1>1, <1>2, <1>3 DEF SumsBase

(* Whenever the locks are free, counts and sizes with ancestors and with   *)
(* descendants, fees with descendants and the total size equal what        *)
(* CTxMemPool::check computes from scratch, for any transactions and any   *)
(* order of arrivals, fee deltas, blocks, reorganizations, expiry,         *)
(* trimming and restarts, if trimming never has to evict while the         *)
(* transactions of disconnected blocks are put back.                       *)
THEOREM SumsStayExact == Spec /\ []ReorgFits => []SumsExact
<1>1. Init => SumsBase
  BY Zenon, InitSumsBase
<1>2. SumsBase /\ ReorgFits /\ [Next]_vars => SumsBase'
  BY Zenon, SumsBaseStep
<1>3. SumsBase => SumsExact
  <2> SUFFICES ASSUME SumsBase, pc = "idle" PROVE SumsExact
    BY Zenon DEF SumsExact
  <2>1. EntriesInv /\ LinksExact /\ SumTypes /\ Plain
    BY Zenon, MinableWhenIdle DEF SumsBase, SumsInv
  <2> QED
    BY Zenon, <2>1, SumsWhenPlain
<1> QED
  BY <1>1, <1>2, <1>3, PTL DEF Spec

-----------------------------------------------------------------------------
(* The order of the dump. *)

(* mempool.dat names a transaction after everything it spends from: an     *)
(* entry that LoadMempool gives to the pool finds its parents there, or    *)
(* they were refused.                                                      *)
FileOrdered ==
  \A i, j \in DOMAIN file.entries : Spends(file.entries[j].tx, file.entries[i].tx) => i < j

\* No entry is its own ancestor.
LEMMA NoCycle ==
  ASSUME EntriesInv, NEW y \in pool, NEW x \in parents[y]
  PROVE  x \in pool /\ y \notin Above(x)
<1>1. pool \subseteq Tx /\ StaysIn(pool, parents)
  BY Zenon, GraphFacts
<1>2. x \in pool
  BY Zenon, <1>1 DEF StaysIn
<1>3. \A z \in pool : z \in Above(z) /\ \A u \in Above(z) : u \in pool /\ parents[u] \subseteq Above(z)
  BY Zenon, <1>1, WalkLeast DEF Above
<1>4. SUFFICES ASSUME y \in Above(x) PROVE FALSE
  BY Zenon, <1>2
<1> DEFINE C == {z \in Above(x) : y \in Above(z)}
<1>5. C \in SUBSET Tx /\ x \in C /\ C # {}
  BY Zenon, <1>1, <1>2, <1>3, <1>4
<1>6. PICK t \in C : \A o \in Inputs[t] : o[1] \notin C
  BY Zenon, <1>5, HashAssumption DEF HashAssumption
<1>7. t \in pool /\ t \in Above(x) /\ y \in Above(t)
  BY Zenon, <1>2, <1>3
<1>8. \A z \in parents[t] : z \notin C
  <2>1. \A z \in parents[t] : Spends(t, z)
    BY Zenon, <1>1, <1>7 DEF EntriesInv, EntryTypes, LinksAgree, StaysIn
  <2> QED
    BY Zenon, <2>1, <1>6 DEF Spends
<1>9. t # y
  BY Zenon, <1>5, <1>8
<1>10. PICK z \in parents[t] : y \in Above(z)
  <2>1. Above(t) = {t} \cup {u \in pool : \E z \in parents[t] : u \in Above(z)}
    BY SMTT(30), <1>1, <1>7, WalkStep DEF Above
  <2> QED
    BY Zenon, <2>1, <1>7, <1>9
<1>11. z \in Above(x)
  BY Zenon, <1>2, <1>3, <1>7
<1> QED
  BY Zenon, <1>8, <1>10, <1>11

\* An entry has more ancestors than its parents have.
LEMMA ParentsCountLess ==
  ASSUME EntriesInv, SumTypes, Plain, NEW y \in pool, NEW x \in parents[y]
  PROVE  anc[x].count < anc[y].count
<1>1. pool \subseteq Tx /\ StaysIn(pool, parents) /\ x \in pool /\ y \notin Above(x)
  BY Zenon, GraphFacts, NoCycle
<1>2. /\ y \in Above(y) /\ Above(y) \subseteq pool
      /\ \A u \in Above(y) : parents[u] \subseteq Above(y)
  BY Zenon, <1>1, WalkLeast DEF Above
<1>3. x \in Above(y)
  BY Zenon, <1>2
<1>4. Above(x) \in SUBSET Above(y)
  BY Zenon, <1>1, <1>3, WalkOn DEF Above
<1>5. IsFiniteSet(Above(y))
  BY Zenon, <1>2, FS_Subset DEF SumTypes
<1>6. Above(x) # Above(y)
  BY Zenon, <1>1, <1>2
<1>7. IsFiniteSet(Above(x)) /\ Cardinality(Above(x)) <= Cardinality(Above(y))
      /\ Cardinality(Above(y)) # Cardinality(Above(x))
  BY Zenon, <1>4, <1>5, <1>6, FS_Subset
<1>8. Cardinality(Above(x)) \in Nat /\ Cardinality(Above(y)) \in Nat
  BY Zenon, <1>5, <1>7, FS_CardinalityType
<1>9. anc[x].count = Cardinality(Above(x)) /\ anc[y].count = Cardinality(Above(y))
  BY Zenon, <1>1 DEF Plain, SumsAre
<1> QED
  BY SMTT(30), <1>7, <1>8, <1>9

\* DumpMempool writes parents before children.
LEMMA DumpOrdered ==
  ASSUME EntriesInv, SumTypes, Plain, LinksExact, DumpMempool
  PROVE  FileOrdered'
<1>1. PICK q \in Bijection(1..Cardinality(pool), pool) :
        /\ Sorted(q)
        /\ file'.entries = [i \in DOMAIN q |->
                              [tx |-> q[i], nTime |-> time[q[i]], nFeeDelta |-> feeDelta[q[i]]]]
  BY SMT DEF DumpMempool
<1>2. q \in [1..Cardinality(pool) -> pool] /\ DOMAIN q = 1..Cardinality(pool)
  BY SMT DEF Bijection, Injection
<1>3. DOMAIN file'.entries = DOMAIN q /\ \A i \in DOMAIN q : file'.entries[i].tx = q[i]
  BY SMTT(30), <1>1
<1>4. ASSUME NEW i \in DOMAIN q, NEW j \in DOMAIN q, Spends(q[j], q[i]) PROVE i < j
  <2>1. q[i] \in pool /\ q[j] \in pool /\ q[j] \in Tx
    BY SMTT(30), <1>2 DEF EntriesInv, EntryTypes
  <2>2. q[i] \in parents[q[j]]
    BY Zenon, <1>4, <2>1 DEF LinksExact, TrueParents, MemPoolParents, Spends
  <2>3. anc[q[i]].count < anc[q[j]].count
    BY Zenon, <2>1, <2>2, ParentsCountLess
  <2>4. anc[q[i]].count \in Int /\ anc[q[j]].count \in Int
    BY SMTT(30), <2>1 DEF EntriesInv, EntryTypes, SumTypes, Sums
  <2>5. j < i => anc[q[j]].count < anc[q[i]].count \/ anc[q[j]].count = anc[q[i]].count
    BY Zenon, <1>1 DEF Sorted
  <2>6. i \in Int /\ j \in Int /\ (i = j => anc[q[i]].count = anc[q[j]].count)
    BY SMTT(30), <1>2
  <2> QED
    BY SMTT(30), <2>3, <2>4, <2>5, <2>6
<1> QED
  BY Zenon, <1>3, <1>4 DEF FileOrdered

\* Only a restart writes the file.
LEMMA FileWritten ==
  ASSUME [Next]_vars
  PROVE  UNCHANGED file \/ (pc = "idle" /\ DumpMempool)
<1> USE DEF disk
<1>1. ASSUME NEW t \in Tx, AcceptToMemoryPool(t) PROVE UNCHANGED file
  BY Zenon, <1>1 DEF AcceptToMemoryPool
<1>2. ASSUME NEW t \in Tx, NEW d \in Deltas, PrioritiseTransaction(t, d) PROVE UNCHANGED file
  BY Zenon, <1>2 DEF PrioritiseTransaction
<1>3. Expire \/ TrimToSize \/ Trimmed => UNCHANGED file
  BY Zenon DEF Expire, TrimToSize, Trimmed
<1>4. DisconnectTip => UNCHANGED file
  BY Zenon DEF DisconnectTip
<1>5. ASSUME NEW b \in Blocks, ConnectTip(b) PROVE UNCHANGED file
  BY Zenon, <1>5 DEF ConnectTip
<1>6. RemoveMined \/ RemoveConflicts \/ ConflictsRemoved \/ BlockConnected => UNCHANGED file
  BY Zenon DEF RemoveMined, RemoveConflicts, ConflictsRemoved, BlockConnected
<1>7. ASSUME NEW fAdd \in BOOLEAN, UpdateMempoolForReorg(fAdd) PROVE UNCHANGED file
  BY Zenon, <1>7 DEF UpdateMempoolForReorg
<1>8. ReAdd \/ ReAdded \/ AllReAdded => UNCHANGED file
  BY Zenon DEF ReAdd, ReAdded, AllReAdded
<1>9. UpdateTransactionsFromBlock \/ AllLinked \/ RemoveForReorg => UNCHANGED file
  BY Zenon DEF UpdateTransactionsFromBlock, AllLinked, RemoveForReorg
<1>10. ASSUME NEW crash \in BOOLEAN, Restart(crash) PROVE UNCHANGED file \/ (pc = "idle" /\ DumpMempool)
  BY Zenon, <1>10 DEF Restart
<1>11. LoadDelta \/ LoadEntry \/ LoadRest \/ SetIsLoaded \/ Tick => UNCHANGED file
  BY Zenon DEF LoadDelta, LoadEntry, LoadRest, SetIsLoaded, Tick
<1>12. UNCHANGED vars => UNCHANGED file
  BY Zenon DEF vars
<1> QED
  BY Zenon, <1>1, <1>2, <1>3, <1>4, <1>5, <1>6, <1>7, <1>8, <1>9, <1>10, <1>11, <1>12 DEF Next

(* However the pool came to be, what DumpMempool leaves in mempool.dat     *)
(* sorted by number of ancestors names parents before children, and stays  *)
(* so over crashes, for LoadMempool to accept them in that order.  Rests   *)
(* on the counts being exact, and on transaction ids hashing the inputs.   *)
THEOREM DumpsParentsFirst == Spec /\ []ReorgFits => []FileOrdered
<1>1. Init => SumsBase /\ FileOrdered
  <2>1. Init => FileOrdered
    BY SMT DEF Init, FileOrdered
  <2> QED
    BY Zenon, <2>1, InitSumsBase
<1>2. SumsBase /\ FileOrdered /\ ReorgFits /\ [Next]_vars => SumsBase' /\ FileOrdered'
  <2> SUFFICES ASSUME SumsBase, FileOrdered, ReorgFits, [Next]_vars PROVE SumsBase' /\ FileOrdered'
    BY Zenon
  <2>1. SumsBase'
    BY Zenon, SumsBaseStep
  <2>2. CASE UNCHANGED file
    BY Zenon, <2>1, <2>2 DEF FileOrdered
  <2>3. CASE pc = "idle" /\ DumpMempool
    <3>1. EntriesInv /\ SumTypes /\ Plain /\ LinksExact
      BY Zenon, <2>3, MinableWhenIdle DEF SumsBase, SumsInv
    <3> QED
      BY Zenon, <2>1, <2>3, <3>1, DumpOrdered
  <2> QED
    BY Zenon, <2>1, <2>2, <2>3, FileWritten
<1> QED
  BY <1>1, <1>2, PTL DEF Spec
=============================================================================
