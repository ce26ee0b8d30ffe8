---------------------------- MODULE MempoolProofs ----------------------------
(***************************************************************************)
(* Proofs about Mempool, for any transactions, blocks, limits and any      *)
(* order of arrivals, blocks, reorganizations, expiry and restarts.  The   *)
(* definitions are in MempoolInvariant.                                    *)
(***************************************************************************)
EXTENDS MempoolInvariant, TLAPS

LEMMA RemoveEffect ==
  ASSUME NEW stage, NEW u, stage \subseteq pool, RemoveStaged(stage, u)
  PROVE  Removes(stage)
BY Zenon DEF RemoveStaged, Removes

LEMMA AddEffect ==
  ASSUME NEW t \in Tx, NEW nTime, Acceptable(t), addUnchecked(t, nTime)
  PROVE  Adds(t)
BY Zenon DEF addUnchecked, Adds

LEMMA EntriesKept ==
  ASSUME EntriesInv, Kept
  PROVE  EntriesInv'
<1>1. EntryTypes'
  BY Zenon DEF EntriesInv, EntryTypes, Kept
<1>2. SpendsExact'
  BY Zenon DEF EntriesInv, SpendsExact, Kept
<1>3. LinksAgree'
  BY Zenon DEF EntriesInv, LinksAgree, Kept, Spends
<1> QED
  BY Zenon, <1>1, <1>2, <1>3 DEF EntriesInv

LEMMA EntriesRemoved ==
  ASSUME EntriesInv, NEW stage, Removes(stage)
  PROVE  EntriesInv'
<1>1. EntryTypes /\ SpendsExact /\ LinksAgree
  BY Zenon DEF EntriesInv
<1>2. EntryTypes'
  <2>1. \A o \in Outpoint : mapNextTx[o] \in Tx \cup {None}
    BY Zenon, <1>1 DEF EntryTypes
  <2>2. \A n \in Nullifier : mapSaplingNullifiers[n] \in Tx \cup {None}
    BY Zenon, <1>1 DEF EntryTypes
  <2>3. \A t \in Tx : parents[t] \in SUBSET Tx /\ children[t] \in SUBSET Tx
    BY Zenon, <1>1 DEF EntryTypes
  <2>4. pool' \subseteq Tx
    BY Zenon, <1>1 DEF EntryTypes, Removes
  <2>5. mapNextTx' \in [Outpoint -> Tx \cup {None}]
    BY Zenon, <2>1 DEF Removes
  <2>6. mapSaplingNullifiers' \in [Nullifier -> Tx \cup {None}]
    BY Zenon, <2>2 DEF Removes
  <2>7. parents' \in [Tx -> SUBSET Tx] /\ children' \in [Tx -> SUBSET Tx]
    BY Zenon, <2>3 DEF Removes
  <2> QED
    BY Zenon, <2>4, <2>5, <2>6, <2>7 DEF EntryTypes
<1>3. SpendsExact'
  <2>1. ASSUME NEW o \in Outpoint, NEW t \in Tx
        PROVE  mapNextTx'[o] = t <=> (t \in pool' /\ o \in Inputs[t])
    <3>1. mapNextTx'[o] = IF o \in Spent(stage) THEN None ELSE mapNextTx[o]
      BY Zenon DEF Removes
    <3>2. mapNextTx[o] = t <=> (t \in pool /\ o \in Inputs[t])
      BY Zenon, <1>1 DEF SpendsExact
    <3>3. None # t
      BY Zenon, MempoolAssumption DEF MempoolAssumption
    <3>4. pool' = pool \ stage /\ stage \subseteq pool /\ pool \subseteq Tx
      BY Zenon, <1>1 DEF Removes, EntryTypes
    <3>5. CASE o \in Spent(stage)
      <4>1. PICK r \in stage : o \in Inputs[r]
        BY Zenon, <3>5 DEF Spent
      <4>2. mapNextTx[o] = r
        BY Zenon, <4>1, <3>4, <1>1 DEF SpendsExact
      <4> QED
        BY Zenon, <4>1, <4>2, <3>1, <3>2, <3>3, <3>4, <3>5
    <3>6. CASE o \notin Spent(stage)
      <4>1. t \in stage => o \notin Inputs[t]
        BY Zenon, <3>6 DEF Spent
      <4> QED
        BY Zenon, <4>1, <3>1, <3>2, <3>4, <3>6
    <3> QED
      BY Zenon, <3>5, <3>6
  <2>2. ASSUME NEW n \in Nullifier, NEW t \in Tx
        PROVE  mapSaplingNullifiers'[n] = t <=> (t \in pool' /\ n \in Nullifiers[t])
    <3>1. mapSaplingNullifiers'[n] =
            IF \E r \in stage : n \in Nullifiers[r] THEN None ELSE mapSaplingNullifiers[n]
      BY Zenon DEF Removes
    <3>2. mapSaplingNullifiers[n] = t <=> (t \in pool /\ n \in Nullifiers[t])
      BY Zenon, <1>1 DEF SpendsExact
    <3>3. None # t
      BY Zenon, MempoolAssumption DEF MempoolAssumption
    <3>4. pool' = pool \ stage /\ stage \subseteq pool /\ pool \subseteq Tx
      BY Zenon, <1>1 DEF Removes, EntryTypes
    <3>5. CASE \E r \in stage : n \in Nullifiers[r]
      <4>1. PICK r \in stage : n \in Nullifiers[r]
        BY Zenon, <3>5
      <4>2. mapSaplingNullifiers[n] = r
        BY Zenon, <4>1, <3>4, <1>1 DEF SpendsExact
      <4> QED
        BY Zenon, <4>1, <4>2, <3>1, <3>2, <3>3, <3>4, <3>5
    <3> QED
      BY Zenon, <3>1, <3>2, <3>4, <3>5
  <2> QED
    BY Zenon, <2>1, <2>2 DEF SpendsExact
<1>4. LinksAgree'
  <2> SUFFICES ASSUME NEW x \in Tx, NEW y \in Tx
               PROVE  /\ y \in children'[x] <=> x \in parents'[y]
                      /\ y \in children'[x] => x \in pool' /\ y \in pool' /\ Spends(y, x)
    BY Zenon DEF LinksAgree, Spends
  <2>1. /\ y \in children[x] <=> x \in parents[y]
        /\ y \in children[x] => x \in pool /\ y \in pool /\ Spends(y, x)
    BY Zenon, <1>1 DEF LinksAgree
  <2>2. y \in children'[x] <=> x \notin stage /\ y \in children[x] /\ ~(y \in stage /\ x \in parents[y])
    BY Zenon DEF Removes
  <2>3. x \in parents'[y] <=> y \notin stage /\ x \in parents[y] /\ ~(x \in stage /\ y \in children[x])
    BY Zenon DEF Removes
  <2> QED
    BY Zenon, <2>1, <2>2, <2>3 DEF Removes
<1> QED
  BY Zenon, <1>2, <1>3, <1>4 DEF EntriesInv

LEMMA EntriesAdded ==
  ASSUME EntriesInv, NEW t, Adds(t)
  PROVE  EntriesInv' /\ t \notin pool
<1>1. EntryTypes /\ SpendsExact /\ LinksAgree
  BY Zenon DEF EntriesInv
<1>2. /\ t \in Tx /\ t \notin pool /\ pool' = pool \cup {t}
      /\ \A o \in Inputs[t] : mapNextTx[o] = None
      /\ \A n \in Nullifiers[t] : mapSaplingNullifiers[n] = None
  BY Zenon DEF Adds, Acceptable
<1>3. /\ \A o \in Outpoint : mapNextTx[o] \in Tx \cup {None}
      /\ \A n \in Nullifier : mapSaplingNullifiers[n] \in Tx \cup {None}
      /\ \A x \in Tx : parents[x] \in SUBSET Tx /\ children[x] \in SUBSET Tx
      /\ pool \subseteq Tx
  BY Zenon, <1>1 DEF EntryTypes
<1>4. MemPoolParents(t) \subseteq pool
  BY Zenon DEF MemPoolParents
<1>5. EntryTypes'
  <2>1. mapNextTx' \in [Outpoint -> Tx \cup {None}]
    BY Zenon, <1>2, <1>3 DEF Adds
  <2>2. mapSaplingNullifiers' \in [Nullifier -> Tx \cup {None}]
    BY Zenon, <1>2, <1>3 DEF Adds
  <2>3. children' \in [Tx -> SUBSET Tx]
    BY Zenon, <1>2, <1>3 DEF Adds
  <2>4. parents' \in [Tx -> SUBSET Tx]
    BY <1>1, <1>2, <1>3, <1>4 DEF Adds, EntryTypes
  <2> QED
    BY Zenon, <1>2, <1>3, <2>1, <2>2, <2>3, <2>4 DEF EntryTypes
<1>6. SpendsExact'
  <2>1. ASSUME NEW o \in Outpoint, NEW u \in Tx
        PROVE  mapNextTx'[o] = u <=> (u \in pool' /\ o \in Inputs[u])
    <3>1. mapNextTx'[o] = IF o \in Inputs[t] /\ mapNextTx[o] = None THEN t ELSE mapNextTx[o]
      BY Zenon DEF Adds
    <3>2. mapNextTx[o] = u <=> (u \in pool /\ o \in Inputs[u])
      BY Zenon, <1>1 DEF SpendsExact
    <3>3. None # u
      BY Zenon, MempoolAssumption DEF MempoolAssumption
    <3> QED
      BY Zenon, <3>1, <3>2, <3>3, <1>2
  <2>2. ASSUME NEW n \in Nullifier, NEW u \in Tx
        PROVE  mapSaplingNullifiers'[n] = u <=> (u \in pool' /\ n \in Nullifiers[u])
    <3>1. mapSaplingNullifiers'[n] = IF n \in Nullifiers[t] THEN t ELSE mapSaplingNullifiers[n]
      BY Zenon DEF Adds
    <3>2. mapSaplingNullifiers[n] = u <=> (u \in pool /\ n \in Nullifiers[u])
      BY Zenon, <1>1 DEF SpendsExact
    <3>3. None # u
      BY Zenon, MempoolAssumption DEF MempoolAssumption
    <3> QED
      BY Zenon, <3>1, <3>2, <3>3, <1>2
  <2> QED
    BY Zenon, <2>1, <2>2 DEF SpendsExact
<1>7. LinksAgree'
  <2> SUFFICES ASSUME NEW x \in Tx, NEW y \in Tx
               PROVE  /\ y \in children'[x] <=> x \in parents'[y]
                      /\ y \in children'[x] => x \in pool' /\ y \in pool' /\ Spends(y, x)
    BY Zenon DEF LinksAgree, Spends
  <2>1. /\ y \in children[x] <=> x \in parents[y]
        /\ y \in children[x] => x \in pool /\ y \in pool /\ Spends(y, x)
    BY Zenon, <1>1 DEF LinksAgree
  <2>2. y \in children'[x] <=> y \in children[x] \/ (y = t /\ x \in MemPoolParents(t))
    BY Zenon DEF Adds
  <2>3. parents'[y] = IF y = t THEN MemPoolParents(t) ELSE parents[y]
    BY Zenon, <1>1 DEF Adds, EntryTypes
  <2>4. x \in MemPoolParents(t) <=> x \in pool /\ Spends(t, x)
    BY Zenon DEF MemPoolParents, Spends
  <2> QED
    BY Zenon, <2>1, <2>2, <2>3, <2>4, <1>2
<1> QED
  BY Zenon, <1>2, <1>5, <1>6, <1>7 DEF EntriesInv

LEMMA EntriesLinked ==
  ASSUME EntriesInv, NEW t, Links(t)
  PROVE  EntriesInv' /\ Kids(t) = {c \in pool \ Range(vHashUpdate) : Spends(c, t)}
<1>1. EntryTypes /\ SpendsExact /\ LinksAgree
  BY Zenon DEF EntriesInv
<1>2. t \in pool /\ t \in Tx
  BY Zenon, <1>1 DEF Links, EntryTypes
<1>3. Kids(t) = {c \in pool \ Range(vHashUpdate) : Spends(c, t)}
  <2>1. ASSUME NEW c \in Kids(t)
        PROVE  c \in pool \ Range(vHashUpdate) /\ Spends(c, t)
    <3>1. PICK o \in Outputs({t}) : c = mapNextTx[o]
      BY Zenon DEF Kids
    <3>2. o \in Outpoint /\ o[1] = t /\ c \in Tx
      BY Zenon, <3>1, <1>1 DEF Outputs, EntryTypes, Kids
    <3>3. c \in pool /\ o \in Inputs[c]
      BY Zenon, <3>1, <3>2, <1>1 DEF SpendsExact
    <3> QED
      BY Zenon, <3>2, <3>3 DEF Kids, Spends
  <2>2. ASSUME NEW c \in pool \ Range(vHashUpdate), Spends(c, t)
        PROVE  c \in Kids(t)
    <3>1. PICK o \in Inputs[c] : o[1] = t
      BY Zenon, <2>2 DEF Spends
    <3>2. c \in Tx /\ c # None
      BY Zenon, <1>1, MempoolAssumption DEF EntryTypes, MempoolAssumption
    <3>3. o \in Outpoint
      BY Zenon, <3>1, <3>2, MempoolAssumption DEF MempoolAssumption
    <3>4. mapNextTx[o] = c /\ o \in Outputs({t})
      BY Zenon, <3>1, <3>2, <3>3, <1>1 DEF SpendsExact, Outputs
    <3> QED
      BY Zenon, <3>2, <3>4 DEF Kids
  <2> QED
    BY Zenon, <2>1, <2>2
<1>4. EntryTypes'
  <2>1. Kids(t) \subseteq Tx
    BY Zenon, <1>1, <1>3 DEF EntryTypes
  <2>2. children' \in [Tx -> SUBSET Tx]
    BY <1>1, <1>2, <2>1 DEF Links, EntryTypes
  <2>3. parents' \in [Tx -> SUBSET Tx]
    BY <1>1, <1>2, <2>1 DEF Links, EntryTypes
  <2> QED
    BY Zenon, <2>2, <2>3, <1>1 DEF EntryTypes, Links
<1>5. SpendsExact'
  BY Zenon, <1>1 DEF SpendsExact, Links
<1>6. LinksAgree'
  <2> SUFFICES ASSUME NEW x \in Tx, NEW y \in Tx
               PROVE  /\ y \in children'[x] <=> x \in parents'[y]
                      /\ y \in children'[x] => x \in pool' /\ y \in pool' /\ Spends(y, x)
    BY Zenon DEF LinksAgree, Spends
  <2>1. /\ y \in children[x] <=> x \in parents[y]
        /\ y \in children[x] => x \in pool /\ y \in pool /\ Spends(y, x)
    BY Zenon, <1>1 DEF LinksAgree
  <2>2. children'[x] = IF x = t THEN children[t] \cup Kids(t) ELSE children[x]
    BY Zenon, <1>1 DEF Links, EntryTypes
  <2>3. x \in parents'[y] <=> x \in parents[y] \/ (y \in Kids(t) /\ x = t)
    BY Zenon DEF Links
  <2>4. y \in children'[x] <=> y \in children[x] \/ (y \in Kids(t) /\ x = t)
    BY Zenon, <2>2
  <2>5. y \in Kids(t) => y \in pool /\ Spends(y, t)
    BY Zenon, <1>3
  <2>6. pool' = pool
    BY Zenon DEF Links
  <2> QED
    BY Zenon, <2>1, <2>3, <2>4, <2>5, <2>6, <1>2
<1> QED
  BY Zenon, <1>3, <1>4, <1>5, <1>6 DEF EntriesInv

-----------------------------------------------------------------------------
(* Walking the links. *)

\* CalculateDescendants: the least set with S that the links stay in.
LEMMA DescendantsLemma ==
  ASSUME EntriesInv, NEW S \in SUBSET pool
  PROVE  /\ S \subseteq CalculateDescendants(S) /\ CalculateDescendants(S) \subseteq pool
         /\ \A x \in CalculateDescendants(S) : children[x] \subseteq CalculateDescendants(S)
         /\ \A C \in SUBSET pool :
              S \subseteq C /\ (\A x \in C : children[x] \subseteq C) => CalculateDescendants(S) \subseteq C
<1> DEFINE D == CalculateDescendants(S)
           closed == {C \in SUBSET pool : S \subseteq C /\ \A t \in C : children[t] \subseteq C}
<1>1. pool \cup S = pool
  BY Zenon
<1>2. D = {t \in pool : \A C \in closed : t \in C}
  BY Zenon, <1>1 DEF CalculateDescendants, Reach
<1>3. \A x \in pool : children[x] \subseteq pool
  <2>1. \A x \in pool : x \in Tx /\ children[x] \subseteq Tx
    BY Zenon DEF EntriesInv, EntryTypes
  <2> QED
    BY Zenon, <2>1 DEF EntriesInv, LinksAgree
<1> HIDE DEF D
<1>4. S \subseteq D /\ D \subseteq pool
  BY Zenon, <1>2
<1>5. ASSUME NEW x \in D, NEW y \in children[x]
      PROVE  y \in D
  <2>1. y \in pool
    BY Zenon, <1>3, <1>4
  <2>2. \A C \in closed : y \in C
    BY Zenon, <1>2
  <2> QED
    BY Zenon, <1>2, <2>1, <2>2
<1>6. \A C \in closed : D \subseteq C
  BY Zenon, <1>2
<1>7. \A C \in SUBSET pool : S \subseteq C /\ (\A x \in C : children[x] \subseteq C) => D \subseteq C
  BY Zenon, <1>6
<1> QED
  BY Zenon, <1>4, <1>5, <1>7 DEF D

\* removeRecursive: a set the links stay in, with the transaction, or with all that
\* spends from it when it is not in the pool, and no larger than it has to be.
LEMMA RecursiveLemma ==
  ASSUME EntriesInv, NEW t \in Tx
  PROVE  /\ Recursive(t) \subseteq pool
         /\ \A x \in Recursive(t) : children[x] \subseteq Recursive(t)
         /\ t \in pool => t \in Recursive(t)
         /\ t \notin pool => \A c \in pool : Spends(c, t) => c \in Recursive(t)
         /\ t \notin pool => \A C \in SUBSET pool :
              /\ \A c \in pool : Spends(c, t) => c \in C
              /\ \A x \in C : children[x] \subseteq C
              => Recursive(t) \subseteq C
<1> DEFINE start == IF t \in pool THEN {t} ELSE {mapNextTx[o] : o \in Outputs({t})} \ {None}
<1>1. EntryTypes /\ SpendsExact
  BY Zenon DEF EntriesInv
<1>2. t \notin pool => start = {c \in pool : Spends(c, t)}
  <2>1. ASSUME t \notin pool, NEW c \in start
        PROVE  c \in pool /\ Spends(c, t)
    <3>1. PICK o \in Outputs({t}) : c = mapNextTx[o]
      BY Zenon, <2>1
    <3>2. o \in Outpoint /\ o[1] = t /\ c \in Tx
      BY Zenon, <3>1, <1>1, <2>1 DEF Outputs, EntryTypes
    <3>3. c \in pool /\ o \in Inputs[c]
      BY Zenon, <3>1, <3>2, <1>1 DEF SpendsExact
    <3> QED
      BY Zenon, <3>2, <3>3 DEF Spends
  <2>2. ASSUME t \notin pool, NEW c \in pool, Spends(c, t)
        PROVE  c \in start
    <3>1. PICK o \in Inputs[c] : o[1] = t
      BY Zenon, <2>2 DEF Spends
    <3>2. c \in Tx /\ c # None
      BY Zenon, <1>1, MempoolAssumption DEF EntryTypes, MempoolAssumption
    <3>3. o \in Outpoint
      BY Zenon, <3>1, <3>2, MempoolAssumption DEF MempoolAssumption
    <3>4. mapNextTx[o] = c /\ o \in Outputs({t})
      BY Zenon, <3>1, <3>2, <3>3, <1>1 DEF SpendsExact, Outputs
    <3> QED
      BY Zenon, <2>2, <3>2, <3>4
  <2> QED
    BY Zenon, <2>1, <2>2
<1>3. start \in SUBSET pool /\ (t \in pool => t \in start)
  BY Zenon, <1>2
<1>4. Recursive(t) = CalculateDescendants(start)
  BY Zenon DEF Recursive
<1> HIDE DEF start
<1>5. /\ start \subseteq Recursive(t) /\ Recursive(t) \subseteq pool
      /\ \A x \in Recursive(t) : children[x] \subseteq Recursive(t)
      /\ \A C \in SUBSET pool :
           start \subseteq C /\ (\A x \in C : children[x] \subseteq C) => Recursive(t) \subseteq C
  <2> DEFINE D == CalculateDescendants(start)
  <2>1. /\ start \subseteq D /\ D \subseteq pool
        /\ \A x \in D : children[x] \subseteq D
        /\ \A C \in SUBSET pool :
             start \subseteq C /\ (\A x \in C : children[x] \subseteq C) => D \subseteq C
    BY Zenon, <1>3, DescendantsLemma
  <2>2. Recursive(t) = D
    BY Zenon, <1>4
  <2> HIDE DEF D
  <2> QED
    BY Zenon, <2>1, <2>2
<1>6. t \notin pool => \A c \in pool : Spends(c, t) => c \in Recursive(t)
  BY Zenon, <1>2, <1>5
<1>7. ASSUME t \notin pool, NEW C \in SUBSET pool,
             \A c \in pool : Spends(c, t) => c \in C,
             \A x \in C : children[x] \subseteq C
      PROVE  Recursive(t) \subseteq C
  <2>1. start \subseteq C
    BY Zenon, <1>2, <1>7
  <2> QED
    BY Zenon, <1>5, <1>7, <2>1
<1> QED
  BY Zenon, <1>3, <1>5, <1>6, <1>7

-----------------------------------------------------------------------------
(* Each step adds, removes or links, or leaves the entries alone.  What    *)
(* has its descendants with it is closed.                                  *)

LEMMA ConflictsLemma ==
  ASSUME EntriesInv, NEW t \in Tx
  PROVE  /\ Conflicts(t) \subseteq pool
         /\ \A c \in pool \ {t} : Inputs[c] \cap Inputs[t] # {} => c \in Conflicts(t)
         /\ \A c \in pool \ {t} : Nullifiers[c] \cap Nullifiers[t] # {} => c \in Conflicts(t)
<1>1. EntryTypes /\ SpendsExact
  BY Zenon DEF EntriesInv
<1>2. pool \subseteq Tx /\ None \notin Tx
  BY Zenon, <1>1, MempoolAssumption DEF EntryTypes, MempoolAssumption
<1>3. \A u \in Tx : Inputs[u] \subseteq Outpoint /\ Nullifiers[u] \subseteq Nullifier
  BY Zenon, MempoolAssumption DEF MempoolAssumption
<1>4. ASSUME NEW c \in Conflicts(t)
      PROVE  c \in pool
  <2>1. CASE \E o \in Inputs[t] : c = mapNextTx[o]
    <3>1. PICK o \in Inputs[t] : c = mapNextTx[o]
      BY Zenon, <2>1
    <3>2. o \in Outpoint /\ c \in Tx
      BY Zenon, <3>1, <1>1, <1>3 DEF EntryTypes, Conflicts
    <3> QED
      BY Zenon, <3>1, <3>2, <1>1 DEF SpendsExact
  <2>2. CASE \E n \in Nullifiers[t] : c = mapSaplingNullifiers[n]
    <3>1. PICK n \in Nullifiers[t] : c = mapSaplingNullifiers[n]
      BY Zenon, <2>2
    <3>2. n \in Nullifier /\ c \in Tx
      BY Zenon, <3>1, <1>1, <1>3 DEF EntryTypes, Conflicts
    <3> QED
      BY Zenon, <3>1, <3>2, <1>1 DEF SpendsExact
  <2> QED
    BY Zenon, <2>1, <2>2 DEF Conflicts
<1>5. ASSUME NEW c \in pool \ {t}, NEW o \in Inputs[c] \cap Inputs[t]
      PROVE  c \in Conflicts(t)
  <2>1. c \in Tx /\ o \in Outpoint /\ c # None
    BY Zenon, <1>2, <1>3
  <2>2. mapNextTx[o] = c
    BY Zenon, <2>1, <1>1 DEF SpendsExact
  <2> QED
    BY Zenon, <2>1, <2>2 DEF Conflicts
<1>6. ASSUME NEW c \in pool \ {t}, NEW n \in Nullifiers[c] \cap Nullifiers[t]
      PROVE  c \in Conflicts(t)
  <2>1. c \in Tx /\ n \in Nullifier /\ c # None
    BY Zenon, <1>2, <1>3
  <2>2. mapSaplingNullifiers[n] = c
    BY Zenon, <2>1, <1>1 DEF SpendsExact
  <2> QED
    BY Zenon, <2>1, <2>2 DEF Conflicts
<1> QED
  BY Zenon, <1>4, <1>5, <1>6

\* What DisconnectTip removes from the pool.
Anchored ==
  IF Root(chain') = Root(chain) THEN {} ELSE {t \in pool \cap Shielded : Anchor[t] = Root(chain)}
Disconnecting == disconnectpool \cup Range(chain[Len(chain)])
Orphaned == UNION {Recursive(t) : t \in (Disconnecting \ disconnectpool') \cup Anchored}

LEMMA DisconnectEffect ==
  ASSUME EntriesInv, ControlInv, DisconnectTip
  PROVE  /\ chain # << >> /\ chain[Len(chain)] \in Seq(Tx)
         /\ disconnectpool' \subseteq Disconnecting /\ Disconnecting \subseteq Tx
         /\ RemoveStaged(Orphaned, FALSE) /\ Removes(Orphaned) /\ Closed(Orphaned)
<1>1. ControlTypes /\ chain # << >>
  BY Zenon DEF ControlInv, DisconnectTip
<1>2. chain[Len(chain)] \in Seq(Tx)
  <2>1. Len(chain) \in DOMAIN chain
    BY <1>1 DEF ControlTypes
  <2>2. chain[Len(chain)] \in Blocks
    BY <1>1, <2>1 DEF ControlTypes
  <2> QED
    BY Zenon, <2>2, MempoolAssumption DEF MempoolAssumption
<1> DEFINE block == chain[Len(chain)]
           queued == disconnectpool \cup Range(block)
           last == Max({0} \cup Range(insertion_order))
           place == [t \in queued |->
                       IF t \in disconnectpool THEN insertion_order[t]
                       ELSE last + Len(block) - (CHOOSE i \in DOMAIN block : block[i] = t) + 1]
           dropped == {t \in queued : Cardinality({u \in queued : place[u] >= place[t]}) > MaxDisconnected}
<1>3. /\ disconnectpool' = queued \ dropped
      /\ RemoveStaged(UNION {Recursive(t) : t \in dropped \cup Anchored}, FALSE)
  BY Zenon DEF DisconnectTip, Anchored
<1> HIDE DEF place
<1>4. dropped = Disconnecting \ disconnectpool' /\ disconnectpool' \subseteq Disconnecting
  BY Zenon, <1>3 DEF Disconnecting
<1> HIDE DEF dropped
<1>5. RemoveStaged(Orphaned, FALSE)
  BY Zenon, <1>3, <1>4 DEF Orphaned
<1>6. Disconnecting \subseteq Tx /\ Anchored \subseteq Tx
  <2>1. Range(chain[Len(chain)]) \subseteq Tx
    BY <1>2 DEF Range
  <2>2. Anchored \subseteq Tx
    BY Zenon DEF Anchored, EntriesInv, EntryTypes
  <2> QED
    BY Zenon, <1>1, <2>1, <2>2 DEF ControlTypes, Disconnecting
<1>7. ASSUME NEW x \in Orphaned
      PROVE  x \in pool /\ children[x] \subseteq Orphaned
  <2>1. PICK t \in (Disconnecting \ disconnectpool') \cup Anchored : x \in Recursive(t)
    BY Zenon DEF Orphaned
  <2>2. t \in Tx /\ Recursive(t) \subseteq Orphaned
    BY Zenon, <1>6 DEF Orphaned
  <2> QED
    BY Zenon, <2>1, <2>2, RecursiveLemma
<1> QED
  BY Zenon, <1>1, <1>2, <1>4, <1>5, <1>6, <1>7, RemoveEffect DEF Closed

LEMMA HeadOfTodo ==
  ASSUME ControlInv, todo # << >>
  PROVE  /\ Head(todo) \in Tx /\ Tail(todo) \in Seq(Tx)
         /\ Range(todo) = {Head(todo)} \cup Range(Tail(todo)) /\ Range(todo) \subseteq Tx
<1>1. todo \in Seq(Tx)
  BY Zenon DEF ControlInv, ControlTypes
<1>2. Head(todo) \in Tx /\ Tail(todo) \in Seq(Tx) /\ Range(todo) \subseteq Tx
  BY <1>1 DEF Range
<1>3. Range(todo) = {Head(todo)} \cup Range(Tail(todo))
  <2>1. /\ Len(todo) \in Nat \ {0} /\ DOMAIN todo = 1..Len(todo) /\ Head(todo) = todo[1]
        /\ DOMAIN Tail(todo) = 1..(Len(todo) - 1)
        /\ \A i \in 1..(Len(todo) - 1) : Tail(todo)[i] = todo[i + 1]
    BY <1>1
  <2>2. ASSUME NEW i \in DOMAIN todo PROVE todo[i] \in {Head(todo)} \cup Range(Tail(todo))
    <3>1. CASE i = 1
      BY <3>1, <2>1
    <3>2. CASE i # 1
      <4>1. i - 1 \in 1..(Len(todo) - 1) /\ Tail(todo)[i - 1] = todo[(i - 1) + 1] /\ (i - 1) + 1 = i
        BY <3>2, <2>1
      <4> QED
        BY Zenon, <4>1, <2>1 DEF Range
    <3> QED
      BY Zenon, <3>1, <3>2
  <2>3. ASSUME NEW i \in DOMAIN Tail(todo) PROVE Tail(todo)[i] \in Range(todo)
    <3>1. i + 1 \in DOMAIN todo /\ Tail(todo)[i] = todo[i + 1]
      BY <2>1
    <3> QED
      BY Zenon, <3>1 DEF Range
  <2>4. Head(todo) \in Range(todo)
    <3>1. 1 \in DOMAIN todo
      BY <2>1
    <3> QED
      BY Zenon, <2>1, <3>1 DEF Range
  <2> QED
    BY Zenon, <2>2, <2>3, <2>4 DEF Range
<1> QED
  BY Zenon, <1>2, <1>3

LEMMA ExpireEffect ==
  ASSUME EntriesInv, Expire
  PROVE  \E D : Removes(D) /\ Closed(D)
<1> DEFINE old == {t \in pool : time[t] < now - Expiry}
<1>1. RemoveStaged(CalculateDescendants(old), FALSE)
  BY Zenon DEF Expire
<1> QED
  BY Zenon, <1>1, DescendantsLemma, RemoveEffect DEF Closed

LEMMA TrimEffect ==
  ASSUME EntriesInv, TrimToSize
  PROVE  \E D : Removes(D) /\ Closed(D)
<1>1. PICK t \in pool : RemoveStaged(CalculateDescendants({t}), FALSE)
  BY Zenon DEF TrimToSize
<1>2. {t} \in SUBSET pool
  BY Zenon
<1> QED
  BY Zenon, <1>1, <1>2, DescendantsLemma, RemoveEffect DEF Closed

LEMMA MinedEffect ==
  ASSUME RemoveMined
  PROVE  Removes(pool \cap {Head(todo)})
<1>1. RemoveStaged(pool \cap {Head(todo)}, TRUE)
  BY Zenon DEF RemoveMined
<1>2. pool \cap {Head(todo)} \subseteq pool
  BY Zenon
<1> QED
  BY Zenon, <1>1, <1>2, RemoveEffect

LEMMA ConflictEffect ==
  ASSUME EntriesInv, ControlInv, RemoveConflicts
  PROVE  \E D : Removes(D) /\ Closed(D)
<1>1. PICK t \in Conflicts(Head(todo)) : RemoveStaged(Recursive(t), FALSE)
  BY Zenon DEF RemoveConflicts
<1>2. todo # << >>
  BY Zenon DEF ControlInv, Phases, RemoveConflicts
<1>3. t \in Tx
  BY Zenon, <1>2, HeadOfTodo, ConflictsLemma DEF EntriesInv, EntryTypes
<1> QED
  BY Zenon, <1>1, <1>3, RecursiveLemma, RemoveEffect DEF Closed

LEMMA ReAddEffect ==
  ASSUME EntriesInv, ControlInv, ReAdd
  PROVE  \E t \in disconnectpool :
           /\ disconnectpool' = disconnectpool \ {t}
           /\ \/ Adds(t) /\ pc' = "trim" /\ ret' = "readded" /\ todo' = <<t>>
              \/ /\ Removes(Recursive(t)) /\ Closed(Recursive(t))
                 /\ UNCHANGED <<pc, ret, todo>>
<1>1. PICK t \in disconnectpool :
        /\ disconnectpool' = disconnectpool \ {t}
        /\ \/ Acceptable(t) /\ addUnchecked(t, now) /\ pc' = "trim" /\ ret' = "readded" /\ todo' = <<t>>
           \/ RemoveStaged(Recursive(t), FALSE) /\ UNCHANGED <<pc, ret, todo>>
  BY Zenon DEF ReAdd
<1>2. t \in Tx
  BY Zenon DEF ControlInv, ControlTypes
<1>3. Acceptable(t) /\ addUnchecked(t, now) => Adds(t)
  BY Zenon, <1>2, AddEffect
<1>4. RemoveStaged(Recursive(t), FALSE) => Removes(Recursive(t)) /\ Closed(Recursive(t))
  BY Zenon, <1>2, RecursiveLemma, RemoveEffect DEF Closed
<1> QED
  BY Zenon, <1>1, <1>3, <1>4

LEMMA ReAddedEffect ==
  ASSUME EntriesInv, ControlInv, ReAdded
  PROVE  /\ todo # << >> /\ Head(todo) \in Tx
         /\ \/ Head(todo) \in pool /\ vHashUpdate' = Append(vHashUpdate, Head(todo)) /\ Kept
            \/ /\ Head(todo) \notin pool /\ UNCHANGED vHashUpdate
               /\ Removes(Recursive(Head(todo))) /\ Closed(Recursive(Head(todo)))
<1>1. todo # << >> /\ Head(todo) \in Tx
  BY Zenon, HeadOfTodo DEF ControlInv, Phases, ReAdded, Returning
<1>2. CASE Head(todo) \in pool
  BY Zenon, <1>1, <1>2 DEF ReAdded, entries, Kept
<1>3. CASE Head(todo) \notin pool
  <2>1. RemoveStaged(Recursive(Head(todo)), FALSE) /\ UNCHANGED vHashUpdate
    BY Zenon, <1>3 DEF ReAdded
  <2> QED
    BY Zenon, <1>1, <1>3, <2>1, RecursiveLemma, RemoveEffect DEF Closed
<1> QED
  BY Zenon, <1>2, <1>3

LEMMA LinkEffect ==
  ASSUME EntriesInv, ControlInv, UpdateTransactionsFromBlock
  PROVE  \/ Links(vHashUpdate[linkAt])
         \/ vHashUpdate[linkAt] \notin pool /\ Kept
<1>1. CASE vHashUpdate[linkAt] \in pool
  BY Zenon, <1>1 DEF UpdateTransactionsFromBlock, Links, Kids
<1>2. CASE vHashUpdate[linkAt] \notin pool
  BY Zenon, <1>2 DEF UpdateTransactionsFromBlock, Kept
<1> QED
  BY Zenon, <1>1, <1>2

LEMMA PurgeEffect ==
  ASSUME EntriesInv, RemoveForReorg
  PROVE  \E D : /\ Removes(D) /\ Closed(D)
                /\ \A t \in pool \ D : CheckFinalTx(t)
                /\ \A t \in pool \ D : SpendsCoinbase(t) =>
                     \A o \in Inputs[t] : o[1] \in pool \/ (o \in Utxo /\ ~Immature(o))
<1> DEFINE bad == {t \in pool :
              \/ ~CheckFinalTx(t)
              \/ /\ SpendsCoinbase(t)
                 /\ \E o \in Inputs[t] : o[1] \notin pool /\ (o \notin Utxo \/ Immature(o))}
<1>1. RemoveStaged(CalculateDescendants(bad), FALSE)
  BY Zenon DEF RemoveForReorg
<1>2. bad \in SUBSET pool
  BY Zenon
<1>3. \A t \in pool \ bad : CheckFinalTx(t) /\ (SpendsCoinbase(t) =>
                     \A o \in Inputs[t] : o[1] \in pool \/ (o \in Utxo /\ ~Immature(o)))
  BY Zenon
<1> HIDE DEF bad
<1>4. PICK D : D = CalculateDescendants(bad)
  BY Zenon
<1>5. bad \subseteq D /\ Closed(D)
  BY Zenon, <1>2, <1>4, DescendantsLemma DEF Closed
<1>6. Removes(D)
  BY Zenon, <1>1, <1>4, <1>5, RemoveEffect DEF Closed
<1> QED
  BY Zenon, <1>3, <1>5, <1>6

LEMMA RestartEffect ==
  ASSUME NEW crash, Restart(crash)
  PROVE  Removes(pool)
<1>1. RemoveStaged(pool, FALSE) /\ pool \subseteq pool
  BY Zenon DEF Restart
<1> QED
  BY Zenon, <1>1, RemoveEffect

LEMMA LoadEffect ==
  ASSUME ControlInv, LoadEntry
  PROVE  \/ \E t \in Tx : Adds(t) /\ pc' = "limit" /\ ret' = "idle"
         \/ Kept /\ UNCHANGED <<pc, ret>>
<1>1. file.entries[load.at].tx \in Tx
  BY Zenon DEF ControlInv, FileInv, LoadEntry
<1> QED
  BY Zenon, <1>1, AddEffect DEF LoadEntry, entries, Kept

-----------------------------------------------------------------------------
(* The indexes are exact at every step. *)

LEMMA EntriesStep ==
  ASSUME EntriesInv, ControlInv, [Next]_vars
  PROVE  EntriesInv'
<1>1. ASSUME NEW t \in Tx, AcceptToMemoryPool(t) PROVE EntriesInv'
  BY Zenon, <1>1, AddEffect, EntriesAdded DEF AcceptToMemoryPool
<1>2. ASSUME NEW t \in Tx, NEW d \in Deltas, PrioritiseTransaction(t, d) PROVE EntriesInv'
  BY Zenon, <1>2, EntriesKept DEF PrioritiseTransaction, Kept, Prioritise
<1>3. ASSUME Expire PROVE EntriesInv'
  BY Zenon, <1>3, ExpireEffect, EntriesRemoved
<1>4. ASSUME TrimToSize PROVE EntriesInv'
  BY Zenon, <1>4, TrimEffect, EntriesRemoved
<1>5. ASSUME Trimmed PROVE EntriesInv'
  BY Zenon, <1>5, EntriesKept DEF Trimmed, Kept, entries
<1>6. ASSUME DisconnectTip PROVE EntriesInv'
  BY Zenon, <1>6, DisconnectEffect, EntriesRemoved
<1>7. ASSUME NEW b \in Blocks, ConnectTip(b) PROVE EntriesInv'
  BY Zenon, <1>7, EntriesKept DEF ConnectTip, Kept, entries
<1>8. ASSUME RemoveMined PROVE EntriesInv'
  BY Zenon, <1>8, MinedEffect, EntriesRemoved
<1>9. ASSUME RemoveConflicts PROVE EntriesInv'
  BY Zenon, <1>9, ConflictEffect, EntriesRemoved
<1>10. ASSUME ConflictsRemoved PROVE EntriesInv'
  BY Zenon, <1>10, EntriesKept DEF ConflictsRemoved, Kept, entries
<1>11. ASSUME BlockConnected PROVE EntriesInv'
  BY Zenon, <1>11, EntriesKept DEF BlockConnected, Kept, entries
<1>12. ASSUME NEW fAdd \in BOOLEAN, UpdateMempoolForReorg(fAdd) PROVE EntriesInv'
  BY Zenon, <1>12, EntriesKept DEF UpdateMempoolForReorg, Kept, entries
<1>13. ASSUME ReAdd PROVE EntriesInv'
  BY Zenon, <1>13, ReAddEffect, EntriesAdded, EntriesRemoved
<1>14. ASSUME ReAdded PROVE EntriesInv'
  BY Zenon, <1>14, ReAddedEffect, EntriesKept, EntriesRemoved
<1>15. ASSUME AllReAdded PROVE EntriesInv'
  BY Zenon, <1>15, EntriesKept DEF AllReAdded, Kept, entries
<1>16. ASSUME UpdateTransactionsFromBlock PROVE EntriesInv'
  BY Zenon, <1>16, LinkEffect, EntriesLinked, EntriesKept
<1>17. ASSUME AllLinked PROVE EntriesInv'
  BY Zenon, <1>17, EntriesKept DEF AllLinked, Kept, entries
<1>18. ASSUME RemoveForReorg PROVE EntriesInv'
  BY Zenon, <1>18, PurgeEffect, EntriesRemoved
<1>19. ASSUME NEW crash \in BOOLEAN, Restart(crash) PROVE EntriesInv'
  BY Zenon, <1>19, RestartEffect, EntriesRemoved
<1>20. ASSUME LoadDelta PROVE EntriesInv'
  BY Zenon, <1>20, EntriesKept DEF LoadDelta, Kept, Prioritise
<1>21. ASSUME LoadEntry PROVE EntriesInv'
  BY Zenon, <1>21, LoadEffect, EntriesAdded, EntriesKept
<1>22. ASSUME LoadRest PROVE EntriesInv'
  BY Zenon, <1>22, EntriesKept DEF LoadRest, Kept, Prioritise
<1>23. ASSUME SetIsLoaded PROVE EntriesInv'
  BY Zenon, <1>23, EntriesKept DEF SetIsLoaded, Kept, entries
<1>24. ASSUME Tick PROVE EntriesInv'
  BY Zenon, <1>24, EntriesKept DEF Tick, Kept, entries
<1>25. CASE UNCHANGED vars
  BY Zenon, <1>25, EntriesKept DEF vars, entries, Kept
<1> QED
  BY Zenon, <1>1, <1>2, <1>3, <1>4, <1>5, <1>6, <1>7, <1>8, <1>9, <1>10, <1>11, <1>12, <1>13, <1>14, <1>15, <1>16, <1>17, <1>18, <1>19, <1>20, <1>21, <1>22, <1>23, <1>24, <1>25 DEF Next

LEMMA ControlStep ==
  ASSUME EntriesInv, ControlInv, [Next]_vars
  PROVE  ControlInv'
<1>0. ControlTypes /\ Phases /\ FileInv
  BY Zenon DEF ControlInv
<1> USE DEF reorg, queuedTx, disk
<1> DEFINE SameFile == UNCHANGED <<file, load>>
<1>b. << >> \in Seq(Tx)
  OBVIOUS
<1>a. SameFile => FileInv'
  BY Zenon, <1>0 DEF FileInv
<1>1. ASSUME NEW t \in Tx, AcceptToMemoryPool(t) PROVE ControlInv'
  <2>1. ControlTypes'
    BY Zenon, <1>0, <1>1 DEF ControlTypes, AcceptToMemoryPool
  <2>2. Phases'
    BY Zenon, <1>0, <1>1 DEF Phases, Returning, ControlTypes, AcceptToMemoryPool, entries
  <2>3. FileInv'
    BY Zenon, <1>a, <1>1 DEF AcceptToMemoryPool
  <2> QED
    BY Zenon, <2>1, <2>2, <2>3 DEF ControlInv
<1>2. ASSUME NEW t \in Tx, NEW d \in Deltas, PrioritiseTransaction(t, d) PROVE ControlInv'
  <2>1. ControlTypes'
    BY Zenon, <1>0, <1>2 DEF ControlTypes, PrioritiseTransaction
  <2>2. Phases'
    BY Zenon, <1>0, <1>2 DEF Phases, Returning, ControlTypes, PrioritiseTransaction, entries
  <2>3. FileInv'
    BY Zenon, <1>a, <1>2 DEF PrioritiseTransaction
  <2> QED
    BY Zenon, <2>1, <2>2, <2>3 DEF ControlInv
<1>3. ASSUME Expire PROVE ControlInv'
  <2>1. ControlTypes'
    BY Zenon, <1>0, <1>3 DEF ControlTypes, Expire
  <2>2. Phases'
    BY Zenon, <1>0, <1>3 DEF Phases, Returning, ControlTypes, Expire, entries
  <2>3. FileInv'
    BY Zenon, <1>a, <1>3 DEF Expire
  <2> QED
    BY Zenon, <2>1, <2>2, <2>3 DEF ControlInv
<1>4. ASSUME TrimToSize PROVE ControlInv'
  <2>1. ControlTypes'
    BY Zenon, <1>0, <1>4 DEF ControlTypes, TrimToSize
  <2>2. Phases'
    BY Zenon, <1>0, <1>4 DEF Phases, Returning, ControlTypes, TrimToSize, entries
  <2>3. FileInv'
    BY Zenon, <1>a, <1>4 DEF TrimToSize
  <2> QED
    BY Zenon, <2>1, <2>2, <2>3 DEF ControlInv
<1>5. ASSUME Trimmed PROVE ControlInv'
  <2>1. ControlTypes'
    BY Zenon, <1>0, <1>5 DEF ControlTypes, Trimmed
  <2>2. Phases'
    BY Zenon, <1>0, <1>5 DEF Phases, Returning, ControlTypes, Trimmed, entries
  <2>3. FileInv'
    BY Zenon, <1>a, <1>5 DEF Trimmed
  <2> QED
    BY Zenon, <2>1, <2>2, <2>3 DEF ControlInv
<1>6. ASSUME DisconnectTip PROVE ControlInv'
  <2>1. ControlTypes'
    <3>1. chain' \in Seq(Blocks)
      BY <1>0, <1>6 DEF ControlTypes, DisconnectTip
    <3>2. disconnectpool' \subseteq Tx
      BY Zenon, <1>6, DisconnectEffect
    <3> QED
      BY Zenon, <1>0, <1>6, <3>1, <3>2 DEF ControlTypes, DisconnectTip
  <2>2. Phases'
    BY Zenon, <1>0, <1>6 DEF Phases, Returning, ControlTypes, DisconnectTip, entries
  <2>3. FileInv'
    BY Zenon, <1>a, <1>6 DEF DisconnectTip
  <2> QED
    BY Zenon, <2>1, <2>2, <2>3 DEF ControlInv
<1>7. ASSUME NEW b \in Blocks, ConnectTip(b) PROVE ControlInv'
  <2>1. ControlTypes'
    <3>1. chain' \in Seq(Blocks) /\ b \in Seq(Tx)
      BY <1>0, <1>7, MempoolAssumption DEF MempoolAssumption, ControlTypes, ConnectTip
    <3> QED
      BY Zenon, <1>0, <1>7, <3>1 DEF ControlTypes, ConnectTip
  <2>2. Phases'
    BY Zenon, <1>0, <1>7 DEF Phases, Returning, ControlTypes, ConnectTip, entries
  <2>3. FileInv'
    BY Zenon, <1>a, <1>7 DEF ConnectTip
  <2> QED
    BY Zenon, <2>1, <2>2, <2>3 DEF ControlInv
<1>8. ASSUME RemoveMined PROVE ControlInv'
  <2>1. ControlTypes'
    BY Zenon, <1>0, <1>8 DEF ControlTypes, RemoveMined
  <2>2. Phases'
    <3>1. Head(todo)' \notin pool'
      BY Zenon, <1>8, MinedEffect DEF RemoveMined, Removes
    <3> QED
      BY Zenon, <1>0, <1>8, <3>1 DEF Phases, Returning, RemoveMined
  <2>3. FileInv'
    BY Zenon, <1>a, <1>8 DEF RemoveMined
  <2> QED
    BY Zenon, <2>1, <2>2, <2>3 DEF ControlInv
<1>9. ASSUME RemoveConflicts PROVE ControlInv'
  <2>1. ControlTypes'
    BY Zenon, <1>0, <1>9 DEF ControlTypes, RemoveConflicts
  <2>2. Phases'
    <3>1. pool' \subseteq pool /\ Head(todo)' = Head(todo)
      BY Zenon, <1>9, ConflictEffect DEF RemoveConflicts, Removes
    <3> QED
      BY Zenon, <1>0, <1>9, <3>1 DEF Phases, Returning, RemoveConflicts
  <2>3. FileInv'
    BY Zenon, <1>a, <1>9 DEF RemoveConflicts
  <2> QED
    BY Zenon, <2>1, <2>2, <2>3 DEF ControlInv
<1>10. ASSUME ConflictsRemoved PROVE ControlInv'
  <2>1. ControlTypes'
    <3>1. Tail(todo) \in Seq(Tx)
      BY Zenon, <1>0, <1>10, HeadOfTodo DEF Phases, ConflictsRemoved
    <3> QED
      BY Zenon, <1>0, <1>10, <3>1 DEF ControlTypes, ConflictsRemoved
  <2>2. Phases'
    BY Zenon, <1>0, <1>10 DEF Phases, Returning, ControlTypes, ConflictsRemoved, entries
  <2>3. FileInv'
    BY Zenon, <1>a, <1>10 DEF ConflictsRemoved
  <2> QED
    BY Zenon, <2>1, <2>2, <2>3 DEF ControlInv
<1>11. ASSUME BlockConnected PROVE ControlInv'
  <2>1. ControlTypes'
    BY Zenon, <1>0, <1>11 DEF ControlTypes, BlockConnected
  <2>2. Phases'
    BY Zenon, <1>0, <1>11 DEF Phases, Returning, ControlTypes, BlockConnected, entries
  <2>3. FileInv'
    BY Zenon, <1>a, <1>11 DEF BlockConnected
  <2> QED
    BY Zenon, <2>1, <2>2, <2>3 DEF ControlInv
<1>12. ASSUME NEW fAdd \in BOOLEAN, UpdateMempoolForReorg(fAdd) PROVE ControlInv'
  <2>1. ControlTypes'
    BY Zenon, <1>0, <1>b, <1>12 DEF ControlTypes, UpdateMempoolForReorg
  <2>2. Phases'
    BY Zenon, <1>0, <1>12 DEF Phases, Returning, ControlTypes, UpdateMempoolForReorg, entries
  <2>3. FileInv'
    BY Zenon, <1>a, <1>12 DEF UpdateMempoolForReorg
  <2> QED
    BY Zenon, <2>1, <2>2, <2>3 DEF ControlInv
<1>13. ASSUME ReAdd PROVE ControlInv'
  <2>0. PICK t \in disconnectpool :
           /\ disconnectpool' = disconnectpool \ {t}
           /\ \/ pc' = "trim" /\ ret' = "readded" /\ todo' = <<t>>
              \/ UNCHANGED <<pc, ret, todo>>
    BY Zenon, <1>13, ReAddEffect
  <2>1. ControlTypes'
    <3>1. <<t>> \in Seq(Tx)
      BY <1>0 DEF ControlTypes
    <3>2. UNCHANGED <<chain, fBlocksDisconnected, vHashUpdate, linkAt>>
      BY Zenon, <1>13 DEF ReAdd
    <3> QED
      BY Zenon, <1>0, <2>0, <3>1, <3>2 DEF ControlTypes
  <2>2. Phases'
    <3>1. <<t>> # << >>
      OBVIOUS
    <3>2. pc = "readd" /\ UNCHANGED <<fBlocksDisconnected, vHashUpdate, linkAt>>
      BY Zenon, <1>13 DEF ReAdd
    <3> QED
      BY Zenon, <1>0, <2>0, <3>1, <3>2 DEF Phases, Returning
  <2>3. FileInv'
    BY Zenon, <1>a, <1>13 DEF ReAdd
  <2> QED
    BY Zenon, <2>1, <2>2, <2>3 DEF ControlInv
<1>14. ASSUME ReAdded PROVE ControlInv'
  <2>1. ControlTypes'
    <3>1. vHashUpdate' \in Seq(Tx)
      <4>1. Append(vHashUpdate, Head(todo)) \in Seq(Tx)
        BY <1>0, <1>14, ReAddedEffect DEF ControlTypes
      <4> QED
        BY Zenon, <1>0, <1>14, ReAddedEffect, <4>1 DEF ControlTypes
    <3> QED
      BY Zenon, <1>0, <1>b, <1>14, <3>1 DEF ControlTypes, ReAdded
  <2>2. Phases'
    BY Zenon, <1>0, <1>14 DEF Phases, Returning, ControlTypes, ReAdded, entries
  <2>3. FileInv'
    BY Zenon, <1>a, <1>14 DEF ReAdded
  <2> QED
    BY Zenon, <2>1, <2>2, <2>3 DEF ControlInv
<1>15. ASSUME AllReAdded PROVE ControlInv'
  <2>0. Len(vHashUpdate) \in Nat /\ Len(vHashUpdate) <= Len(vHashUpdate)
    BY <1>0 DEF ControlTypes
  <2>1. ControlTypes'
    BY Zenon, <1>0, <2>0, <1>15 DEF ControlTypes, AllReAdded
  <2>2. Phases'
    BY Zenon, <1>0, <2>0, <1>15 DEF Phases, Returning, AllReAdded
  <2>3. FileInv'
    BY Zenon, <1>a, <1>15 DEF AllReAdded
  <2> QED
    BY Zenon, <2>1, <2>2, <2>3 DEF ControlInv
<1>16. ASSUME UpdateTransactionsFromBlock PROVE ControlInv'
  <2>0. linkAt' \in Nat /\ linkAt' <= Len(vHashUpdate)
    <3>1. linkAt \in Nat /\ linkAt > 0 /\ linkAt' = linkAt - 1 /\ linkAt <= Len(vHashUpdate)
      BY Zenon, <1>0, <1>16 DEF ControlTypes, Phases, UpdateTransactionsFromBlock
    <3>2. Len(vHashUpdate) \in Nat
      BY <1>0 DEF ControlTypes
    <3> QED
      BY <3>1, <3>2
  <2>1. ControlTypes'
    BY Zenon, <1>0, <2>0, <1>16 DEF ControlTypes, UpdateTransactionsFromBlock
  <2>2. Phases'
    BY Zenon, <1>0, <2>0, <1>16 DEF Phases, Returning, UpdateTransactionsFromBlock
  <2>3. FileInv'
    BY Zenon, <1>a, <1>16 DEF UpdateTransactionsFromBlock
  <2> QED
    BY Zenon, <2>1, <2>2, <2>3 DEF ControlInv
<1>17. ASSUME AllLinked PROVE ControlInv'
  <2>1. ControlTypes'
    BY Zenon, <1>0, <1>b, <1>17 DEF ControlTypes, AllLinked
  <2>2. Phases'
    BY Zenon, <1>0, <1>17 DEF Phases, Returning, ControlTypes, AllLinked, entries
  <2>3. FileInv'
    BY Zenon, <1>a, <1>17 DEF AllLinked
  <2> QED
    BY Zenon, <2>1, <2>2, <2>3 DEF ControlInv
<1>18. ASSUME RemoveForReorg PROVE ControlInv'
  <2>1. ControlTypes'
    BY Zenon, <1>0, <1>18 DEF ControlTypes, RemoveForReorg
  <2>2. Phases'
    BY Zenon, <1>0, <1>18 DEF Phases, Returning, ControlTypes, RemoveForReorg, entries
  <2>3. FileInv'
    BY Zenon, <1>a, <1>18 DEF RemoveForReorg
  <2> QED
    BY Zenon, <2>1, <2>2, <2>3 DEF ControlInv
<1>19. ASSUME NEW crash \in BOOLEAN, Restart(crash) PROVE ControlInv'
  <2>1. ControlTypes'
    BY Zenon, <1>0, <1>19 DEF ControlTypes, Restart
  <2>2. Phases'
    BY Zenon, <1>0, <1>19 DEF Phases, Returning, ControlTypes, Restart, entries
  <2>3. FileInv'
    <3>1. load' \in [at : Nat, given : BOOLEAN, left : SUBSET Tx, done : BOOLEAN] /\ ~load'.given
      BY <1>19 DEF Restart
    <3>2. \A i \in DOMAIN file'.entries : file'.entries[i].tx \in Tx
      <4>1. CASE UNCHANGED file
        BY Zenon, <1>0, <4>1 DEF FileInv
      <4>2. CASE DumpMempool
        <5>1. PICK q \in Bijection(1..Cardinality(pool), pool) :
                file' = [entries |-> [i \in DOMAIN q |->
                               [tx |-> q[i], nTime |-> time[q[i]], nFeeDelta |-> feeDelta[q[i]]]],
                         rest |-> [t \in Tx |-> IF t \in pool THEN 0 ELSE mapDeltas[t]]]
          BY Zenon, <4>2 DEF DumpMempool
        <5>2. \A i \in DOMAIN q : q[i] \in Tx
          <6>1. q \in [1..Cardinality(pool) -> pool]
            BY Zenon DEF Bijection, Injection
          <6> QED
            BY Zenon, <6>1 DEF EntriesInv, EntryTypes
        <5>3. file'.entries = [i \in DOMAIN q |->
                               [tx |-> q[i], nTime |-> time[q[i]], nFeeDelta |-> feeDelta[q[i]]]]
          BY Zenon, <5>1
        <5>4. ASSUME NEW i \in DOMAIN q PROVE file'.entries[i].tx = q[i]
          <6>1. file'.entries[i] = [tx |-> q[i], nTime |-> time[q[i]], nFeeDelta |-> feeDelta[q[i]]]
            BY Zenon, <5>3
          <6> QED
            BY <6>1
        <5>5. DOMAIN file'.entries = DOMAIN q
          BY Zenon, <5>3
        <5> QED
          BY Zenon, <5>2, <5>4, <5>5
      <4> QED
        BY Zenon, <1>19, <4>1, <4>2 DEF Restart
    <3> QED
      BY Zenon, <3>1, <3>2 DEF FileInv
  <2> QED
    BY Zenon, <2>1, <2>2, <2>3 DEF ControlInv
<1>20. ASSUME LoadDelta PROVE ControlInv'
  <2>1. ControlTypes'
    BY Zenon, <1>0, <1>20 DEF ControlTypes, LoadDelta
  <2>2. Phases'
    BY Zenon, <1>0, <1>20 DEF Phases, Returning, ControlTypes, LoadDelta, entries
  <2>3. FileInv'
    BY Zenon, <1>0, <1>20 DEF FileInv, LoadDelta
  <2> QED
    BY Zenon, <2>1, <2>2, <2>3 DEF ControlInv
<1>21. ASSUME LoadEntry PROVE ControlInv'
  <2>1. ControlTypes'
    BY Zenon, <1>0, <1>21 DEF ControlTypes, LoadEntry
  <2>2. Phases'
    BY Zenon, <1>0, <1>21 DEF Phases, Returning, ControlTypes, LoadEntry, entries
  <2>3. FileInv'
    <3>1. load' = [load EXCEPT !.at = @ + 1, !.given = FALSE] /\ file' = file
      BY Zenon, <1>21 DEF LoadEntry
    <3>2. load' \in [at : Nat, given : BOOLEAN, left : SUBSET Tx, done : BOOLEAN] /\ ~load'.given
      <4>1. load.at + 1 \in Nat
        BY <1>0 DEF FileInv
      <4> QED
        BY Zenon, <1>0, <3>1, <4>1 DEF FileInv
    <3> QED
      BY Zenon, <1>0, <3>1, <3>2 DEF FileInv
  <2> QED
    BY Zenon, <2>1, <2>2, <2>3 DEF ControlInv
<1>22. ASSUME LoadRest PROVE ControlInv'
  <2>1. ControlTypes'
    BY Zenon, <1>0, <1>22 DEF ControlTypes, LoadRest
  <2>2. Phases'
    BY Zenon, <1>0, <1>22 DEF Phases, Returning, ControlTypes, LoadRest, entries
  <2>3. FileInv'
    BY <1>0, <1>22 DEF FileInv, LoadRest
  <2> QED
    BY Zenon, <2>1, <2>2, <2>3 DEF ControlInv
<1>23. ASSUME SetIsLoaded PROVE ControlInv'
  <2>1. ControlTypes'
    BY Zenon, <1>0, <1>23 DEF ControlTypes, SetIsLoaded
  <2>2. Phases'
    BY Zenon, <1>0, <1>23 DEF Phases, Returning, ControlTypes, SetIsLoaded, entries
  <2>3. FileInv'
    BY Zenon, <1>0, <1>23 DEF FileInv, SetIsLoaded
  <2> QED
    BY Zenon, <2>1, <2>2, <2>3 DEF ControlInv
<1>24. ASSUME Tick PROVE ControlInv'
  <2>1. ControlTypes'
    BY Zenon, <1>0, <1>24 DEF ControlTypes, Tick
  <2>2. Phases'
    BY Zenon, <1>0, <1>24 DEF Phases, Returning, ControlTypes, Tick, entries
  <2>3. FileInv'
    BY Zenon, <1>a, <1>24 DEF Tick
  <2> QED
    BY Zenon, <2>1, <2>2, <2>3 DEF ControlInv
<1>25. CASE UNCHANGED vars
  BY Zenon, <1>0, <1>25 DEF vars, entries, ControlInv, ControlTypes, Phases, FileInv, Returning
<1> QED
  BY Zenon, <1>1, <1>2, <1>3, <1>4, <1>5, <1>6, <1>7, <1>8, <1>9, <1>10, <1>11, <1>12, <1>13, <1>14, <1>15, <1>16, <1>17, <1>18, <1>19, <1>20, <1>21, <1>22, <1>23, <1>24, <1>25 DEF Next

LEMMA InitControl ==
  ASSUME Init
  PROVE  EntriesInv /\ ControlInv
<1>1. EntryTypes
  BY Zenon DEF Init, EntryTypes
<1>2. SpendsExact
  <2>1. pool = {} /\ None \notin Tx
    BY Zenon, MempoolAssumption DEF Init, MempoolAssumption
  <2>2. \A o \in Outpoint : mapNextTx[o] = None
    BY Zenon DEF Init
  <2>3. \A n \in Nullifier : mapSaplingNullifiers[n] = None
    BY Zenon DEF Init
  <2> QED
    BY Zenon, <2>1, <2>2, <2>3 DEF SpendsExact
<1>3. LinksAgree
  <2>1. \A x \in Tx : parents[x] = {} /\ children[x] = {}
    BY Zenon DEF Init
  <2> QED
    BY Zenon, <2>1 DEF LinksAgree
<1>4. ControlTypes
  <2>1. << >> \in Seq(Blocks) /\ << >> \in Seq(Tx) /\ 0 \in Nat
    OBVIOUS
  <2> QED
    BY Zenon, <2>1 DEF Init, ControlTypes
<1>5. Phases
  BY Zenon DEF Init, Phases, Returning
<1>6. FileInv
  BY DEF Init, FileInv
<1> QED
  BY Zenon, <1>1, <1>2, <1>3, <1>4, <1>5, <1>6 DEF EntriesInv, ControlInv

(* mapNextTx and mapSaplingNullifiers name exactly the spends of the pool  *)
(* at every step of acceptance, expiry, trimming, block connection,        *)
(* reorganization, restart and loading, with no bound on any of them.      *)
THEOREM IndexesExact == Spec => []SpendsExact
<1>1. Init => EntriesInv /\ ControlInv
  BY Zenon, InitControl
<1>2. EntriesInv /\ ControlInv /\ [Next]_vars => (EntriesInv /\ ControlInv)'
  BY Zenon, EntriesStep, ControlStep
<1>3. EntriesInv => SpendsExact
  BY Zenon DEF EntriesInv
<1> QED
  BY <1>1, <1>2, <1>3, PTL DEF Spec

-----------------------------------------------------------------------------
(* Under ReorgFits the pool can be mined and its links are complete. *)

LEMMA SameChain ==
  ASSUME chain' = chain
  PROVE  Confirmed' = Confirmed /\ Anchors' = Anchors /\ (ChainInv => ChainInv')
<1>1. Confirmed' = Confirmed
  BY Zenon DEF Confirmed
<1>2. Anchors' = Anchors
  BY Zenon DEF Anchors
<1>3. ChainInv => ChainInv'
  BY Zenon DEF ChainInv
<1> QED
  BY Zenon, <1>1, <1>2, <1>3

LEMMA ConfirmedTypes ==
  ASSUME ControlInv
  PROVE  /\ Confirmed \subseteq Tx
         /\ ChainInv => \A t \in Confirmed : \A o \in Inputs[t] : o[1] \in Coin \cup Confirmed
<1>1. chain \in Seq(Blocks)
  BY Zenon DEF ControlInv, ControlTypes
<1>2. ASSUME NEW i \in DOMAIN chain PROVE Range(chain[i]) \subseteq Tx
  <2>1. chain[i] \in Blocks
    BY <1>1
  <2>2. chain[i] \in Seq(Tx)
    BY Zenon, <2>1, MempoolAssumption DEF MempoolAssumption
  <2> QED
    BY <2>2 DEF Range
<1>3. Confirmed \subseteq Tx
  BY Zenon, <1>2 DEF Confirmed
<1>4. ASSUME ChainInv, NEW t \in Confirmed, NEW o \in Inputs[t]
      PROVE  o[1] \in Coin \cup Confirmed
  <2>1. PICK i \in DOMAIN chain : t \in Range(chain[i])
    BY Zenon DEF Confirmed
  <2>2. o[1] \in Coin \/ \E j \in 1..i : o[1] \in Range(chain[j])
    BY Zenon, <1>4, <2>1 DEF ChainInv
  <2>3. 1..i \subseteq DOMAIN chain
    BY <1>1
  <2> QED
    BY Zenon, <2>2, <2>3 DEF Confirmed
<1> QED
  BY Zenon, <1>3, <1>4

LEMMA ClosedApart ==
  ASSUME MinableInv, NEW S, Closed(S), S \cap Unlinked = {}
  PROVE  \A p \in S, c \in pool \ S : ~Spends(c, p)
BY Zenon DEF MinableInv, LinksInv, Closed

\* Entries leave the pool, or none does: with all that spends from them, or, when
\* they were mined, alone.
LEMMA ShrinkKeeps ==
  ASSUME EntriesInv, MinableInv, chain' = chain, Left' = Left,
         Resurrected' = Resurrected \/ (Resurrected' = {} /\ disconnectpool = {}),
         NEW S, S \cap Resurrected = {}, pool' = pool \ S,
         \A p \in S, c \in pool \ S : Spends(c, p) => p \in Pending,
         disconnectpool' \subseteq disconnectpool,
         \A c \in pool' : \A o \in Inputs[c] : o[1] \in disconnectpool => o[1] \in disconnectpool'
  PROVE  ChainInv' /\ PendingInv' /\ ApartInv' /\ ReorgInv' /\ AvailInv'
<1>1. Confirmed' = Confirmed /\ Anchors' = Anchors /\ ChainInv'
  BY Zenon, SameChain DEF MinableInv
<1>2. Pending' = Pending /\ Applied' = Applied
  BY Zenon, <1>1 DEF Pending, Applied
<1>3. PendingInv'
  <2>1. PendingInv
    BY Zenon DEF MinableInv
  <2> QED
    BY <2>1, <1>1, <1>2 DEF PendingInv
<1>4. ApartInv'
  <2>1. pool' \subseteq pool
    BY Zenon
  <2> QED
    BY Zenon, <1>1, <1>2, <2>1 DEF MinableInv, ApartInv
<1>5. ReorgInv'
  <2>1. CASE Resurrected' = Resurrected
    BY Zenon, <2>1, <1>1 DEF MinableInv, ReorgInv
  <2>2. CASE Resurrected' = {} /\ disconnectpool = {}
    BY Zenon, <2>2, <1>1 DEF ReorgInv
  <2> QED
    BY Zenon, <2>1, <2>2
<1>6. AvailInv'
  <2> SUFFICES ASSUME NEW t \in pool'
               PROVE  /\ \A o \in Inputs[t] :
                           \/ o[1] \in pool' \cup disconnectpool'
                           \/ o[1] \in Coin \cup Confirmed /\ \A u \in Applied : o \notin Inputs[u]
                      /\ Nullifiers[t] # {} => Anchor[t] \in Anchors
                      /\ \A u \in Applied : Nullifiers[t] \cap Nullifiers[u] = {}
    BY Zenon, <1>1, <1>2 DEF AvailInv
  <2>1. t \in pool \ S
    BY Zenon
  <2>2. ASSUME NEW o \in Inputs[t], o[1] \in pool, o[1] \notin pool'
        PROVE  o[1] \in Coin \cup Confirmed /\ \A u \in Applied : o \notin Inputs[u]
    <3>1. o[1] \in Pending
      BY Zenon, <2>1, <2>2 DEF Spends
    <3> QED
      BY Zenon, <3>1 DEF MinableInv, PendingInv
  <2>3. /\ \A o \in Inputs[t] :
             \/ o[1] \in pool \cup disconnectpool
             \/ o[1] \in Coin \cup Confirmed /\ \A u \in Applied : o \notin Inputs[u]
        /\ Nullifiers[t] # {} => Anchor[t] \in Anchors
        /\ \A u \in Applied : Nullifiers[t] \cap Nullifiers[u] = {}
    BY Zenon, <2>1 DEF MinableInv, AvailInv
  <2> QED
    BY Zenon, <2>2, <2>3
<1> QED
  BY Zenon, <1>1, <1>3, <1>4, <1>5, <1>6

LEMMA LinksKept ==
  ASSUME LinksInv, Resurrected' = Resurrected, Unlinked' = Unlinked, pool' \subseteq pool,
         \A p, c \in pool' : c \in children[p] => c \in children'[p]
  PROVE  LinksInv'
BY Zenon DEF LinksInv, Spends

\* Accepting a transaction, a new one or one of a disconnected block.
LEMMA AddKeeps ==
  ASSUME EntriesInv, ControlInv, MinableInv, NEW t, Adds(t), chain' = chain,
         disconnectpool' = disconnectpool \ {t}, Left = << >>, Left' = << >>,
         Unlinked = Resurrected, Unlinked' = Resurrected',
         \/ t \in disconnectpool /\ Resurrected' = Resurrected \cup {t}
         \/ disconnectpool = {} /\ Resurrected = {} /\ Resurrected' = {}
  PROVE  ChainInv' /\ PendingInv' /\ ApartInv' /\ ReorgInv' /\ LinksInv' /\ AvailInv'
<1>1. Confirmed' = Confirmed /\ Anchors' = Anchors /\ ChainInv'
  BY Zenon, SameChain DEF MinableInv
<1>2. Pending = {} /\ Pending' = {} /\ Applied = Confirmed /\ Applied' = Confirmed
  <2>1. Range(<< >>) = {}
    BY DEF Range
  <2> QED
    BY Zenon, <1>1, <2>1 DEF Pending, Applied
<1>3. /\ t \in Tx /\ t \notin pool /\ t \notin Coin /\ t \notin CoinBase \cup Refused
      /\ pool' = pool \cup {t} /\ pool \subseteq Tx
  BY Zenon, MempoolAssumption DEF MempoolAssumption, Adds, Acceptable, EntriesInv, EntryTypes
<1>4. /\ \A o \in Inputs[t] : \/ o[1] \in pool
                              \/ o[1] \in Coin \cup Confirmed /\ \A u \in Confirmed : o \notin Inputs[u]
      /\ Nullifiers[t] # {} => Anchor[t] \in Anchors
      /\ \A u \in Confirmed : Nullifiers[t] \cap Nullifiers[u] = {}
  <2>1. ASSUME NEW o \in Inputs[t], o[1] \notin pool
        PROVE  o[1] \in Coin \cup Confirmed /\ \A u \in Confirmed : o \notin Inputs[u]
    <3>1. o \in Utxo
      BY Zenon, <2>1 DEF Adds, Acceptable
    <3> QED
      BY Zenon, <3>1 DEF Utxo, Outputs, Spent
  <2>2. /\ Nullifiers[t] # {} => Anchor[t] \in Anchors
        /\ Nullifiers[t] # {} => Nullifiers[t] \cap SpentNullifiers = {}
    BY Zenon DEF Adds, Acceptable, HaveShieldedRequirements
  <2>3. \A u \in Confirmed : Nullifiers[u] \subseteq SpentNullifiers
    BY Zenon DEF SpentNullifiers
  <2> QED
    BY Zenon, <2>1, <2>2, <2>3
<1>5. t \notin Confirmed
  <2>2. CASE t \in Confirmed
    <3>1. \A o \in Inputs[t] : o[1] \in Coin \cup Confirmed
      BY Zenon, <2>2, ConfirmedTypes DEF MinableInv
    <3>2. \A o \in Inputs[t] : o[1] \notin pool
      BY Zenon, <3>1, <1>2, <1>3, MempoolAssumption DEF MempoolAssumption, MinableInv, ApartInv
    <3>3. Inputs[t] = {}
      BY Zenon, <3>2, <1>4, <2>2
    <3>4. Nullifiers[t] = {}
      BY Zenon, <1>4, <2>2
    <3> QED
      BY Zenon, <3>3, <3>4, <1>3, MempoolAssumption DEF MempoolAssumption
  <2> QED
    BY Zenon, <2>2
<1>6. ~Spends(t, t)
  BY Zenon, <1>3, <1>4, <1>5 DEF Spends
<1>7. ASSUME NEW c \in pool, Spends(c, t)
      PROVE  t \in disconnectpool /\ c \notin Resurrected
  <2>1. PICK o \in Inputs[c] : o[1] = t
    BY Zenon, <1>7 DEF Spends
  <2>2. t \in disconnectpool
    BY Zenon, <2>1, <1>3, <1>5 DEF MinableInv, AvailInv
  <2>3. c \notin Resurrected
    BY Zenon, <2>1, <1>3, <1>5 DEF MinableInv, ReorgInv
  <2> QED
    BY Zenon, <2>2, <2>3
<1>8. PendingInv'
  <2>1. PendingInv /\ Left' = Left
    BY Zenon DEF MinableInv
  <2>2. Pending' = Pending /\ Applied' = Applied
    BY Zenon, <1>2
  <2> QED
    BY <2>1, <2>2, <1>1 DEF PendingInv
<1>9. ApartInv'
  BY Zenon, <1>1, <1>2, <1>3, <1>5 DEF MinableInv, ApartInv
<1>10. ReorgInv'
  <2>1. Resurrected' \subseteq pool'
    BY Zenon, <1>3 DEF MinableInv, ReorgInv
  <2>2. ASSUME NEW u \in Resurrected', NEW o \in Inputs[u]
        PROVE  o[1] \in Resurrected' \cup Coin \cup Confirmed
    <3>1. CASE u = t
      BY Zenon, <3>1, <1>4, <2>2 DEF MinableInv, ReorgInv
    <3>2. CASE u # t
      <4>1. u \in Resurrected /\ Resurrected \subseteq Resurrected'
        BY Zenon, <3>2, <2>2
      <4> QED
        BY Zenon, <4>1 DEF MinableInv, ReorgInv
    <3> QED
      BY Zenon, <3>1, <3>2
  <2>3. ASSUME NEW u \in disconnectpool', NEW o \in Inputs[u], o[1] \in pool'
        PROVE  o[1] \in Resurrected'
    BY Zenon, <2>3, <1>3 DEF MinableInv, ReorgInv
  <2> QED
    BY Zenon, <2>1, <2>2, <2>3, <1>1 DEF ReorgInv
<1>11. LinksInv'
  <2> SUFFICES ASSUME NEW p \in pool', NEW c \in pool', Spends(c, p)
               PROVE  c \in children'[p] \/ (p \in Resurrected' /\ c \notin Resurrected')
    BY Zenon DEF LinksInv, Spends
  <2>1. p \in Tx /\ (c \in children'[p] <=> c \in children[p] \/ (c = t /\ p \in MemPoolParents(t)))
    BY Zenon, <1>3 DEF Adds
  <2>2. CASE c = t
    BY Zenon, <2>1, <2>2, <1>3, <1>6 DEF MemPoolParents, Spends
  <2>3. CASE c # t /\ p = t
    BY Zenon, <2>3, <1>3, <1>7
  <2>4. CASE c # t /\ p # t
    BY Zenon, <2>1, <2>4, <1>3 DEF MinableInv, LinksInv
  <2> QED
    BY Zenon, <2>2, <2>3, <2>4
<1>12. AvailInv'
  <2> SUFFICES ASSUME NEW u \in pool'
               PROVE  /\ \A o \in Inputs[u] :
                           \/ o[1] \in pool' \cup disconnectpool'
                           \/ o[1] \in Coin \cup Confirmed /\ \A w \in Confirmed : o \notin Inputs[w]
                      /\ Nullifiers[u] # {} => Anchor[u] \in Anchors
                      /\ \A w \in Confirmed : Nullifiers[u] \cap Nullifiers[w] = {}
    BY Zenon, <1>1, <1>2 DEF AvailInv
  <2>1. CASE u = t
    BY Zenon, <2>1, <1>3, <1>4
  <2>2. CASE u \in pool
    <3>1. /\ \A o \in Inputs[u] :
                \/ o[1] \in pool \cup disconnectpool
                \/ o[1] \in Coin \cup Confirmed /\ \A w \in Confirmed : o \notin Inputs[w]
          /\ Nullifiers[u] # {} => Anchor[u] \in Anchors
          /\ \A w \in Confirmed : Nullifiers[u] \cap Nullifiers[w] = {}
      BY Zenon, <2>2, <1>2 DEF MinableInv, AvailInv
    <3>2. pool \cup disconnectpool \subseteq pool' \cup disconnectpool'
      BY Zenon, <1>3
    <3> QED
      BY Zenon, <3>1, <3>2
  <2> QED
    BY Zenon, <2>1, <2>2, <1>3
<1> QED
  BY Zenon, <1>1, <1>8, <1>9, <1>10, <1>11, <1>12

\* removeStaged keeps the links between the entries that stay.
LEMMA RemovesKeepsLinks ==
  ASSUME EntriesInv, NEW S, Removes(S)
  PROVE  \A p, c \in pool' : c \in children[p] => c \in children'[p]
<1>1. \A p \in pool' : p \in Tx /\ p \notin S
  BY Zenon DEF Removes, EntriesInv, EntryTypes
<1> QED
  BY Zenon, <1>1 DEF Removes

\* A refused transaction of a disconnected block goes with what spends from it, but
\* nothing that was put back does.
LEMMA RefusedApart ==
  ASSUME EntriesInv, ControlInv, MinableInv, Left = << >>, NEW t \in disconnectpool
  PROVE  Recursive(t) \cap Resurrected = {}
<1>1. /\ t \in Tx /\ t \notin pool /\ t \notin Confirmed /\ Tx \cap Coin = {}
      /\ pool \subseteq Tx
  BY Zenon, MempoolAssumption
     DEF MempoolAssumption, MinableInv, ApartInv, ControlInv, ControlTypes, EntriesInv, EntryTypes
<1>2. pool \cap Confirmed = {}
  <2>1. Range(<< >>) = {}
    BY DEF Range
  <2> QED
    BY Zenon, <2>1 DEF MinableInv, ApartInv, Applied, Pending
<1> DEFINE C == pool \ Resurrected
<1>3. \A y \in Resurrected, x \in Tx : Spends(y, x) => x \in Resurrected \cup Confirmed
  BY Zenon, <1>1 DEF MinableInv, ReorgInv, Spends
<1>4. Resurrected \subseteq pool
  BY Zenon DEF MinableInv, ReorgInv
<1>5. \A c \in pool : Spends(c, t) => c \in C
  BY Zenon, <1>1, <1>3, <1>4
<1>6. ASSUME NEW x \in C, NEW y \in children[x] PROVE y \in C
  <2>1. x \in Tx /\ x \in pool /\ x \notin Resurrected /\ y \in Tx
    BY Zenon, <1>1 DEF EntriesInv, EntryTypes
  <2>2. y \in pool /\ Spends(y, x)
    BY Zenon, <2>1 DEF EntriesInv, LinksAgree
  <2> QED
    BY Zenon, <2>1, <2>2, <1>2, <1>3
<1>7. Recursive(t) \subseteq C
  <2>1. C \in SUBSET pool
    BY Zenon
  <2> HIDE DEF C
  <2> QED
    BY Zenon, <2>1, <1>1, <1>5, <1>6, RecursiveLemma
<1> QED
  BY Zenon, <1>7

LEMMA RefuseKeeps ==
  ASSUME EntriesInv, ControlInv, MinableInv, chain' = chain, Left = << >>, Left' = << >>,
         Resurrected' = Resurrected, Unlinked = Resurrected, Unlinked' = Resurrected,
         NEW t \in disconnectpool, disconnectpool' = disconnectpool \ {t},
         Removes(Recursive(t)), Closed(Recursive(t))
  PROVE  ChainInv' /\ PendingInv' /\ ApartInv' /\ ReorgInv' /\ LinksInv' /\ AvailInv'
<1>1. PICK S : S = Recursive(t)
  BY Zenon
<1>2. Removes(S) /\ Closed(S) /\ S \cap Resurrected = {} /\ S \cap Unlinked = {}
  BY Zenon, <1>1, RefusedApart
<1>3. \A p \in S, c \in pool \ S : ~Spends(c, p)
  BY Zenon, <1>2, ClosedApart
<1>4. t \in Tx /\ t \notin pool
  BY Zenon DEF MinableInv, ApartInv, ControlInv, ControlTypes
<1>5. \A c \in pool : Spends(c, t) => c \in S
  BY Zenon, <1>1, <1>4, RecursiveLemma
<1>6. pool' = pool \ S
  BY Zenon, <1>2 DEF Removes
<1>7. \A c \in pool' : \A o \in Inputs[c] : o[1] \in disconnectpool => o[1] \in disconnectpool'
  BY Zenon, <1>5, <1>6 DEF Spends
<1>8. \A p, c \in pool' : c \in children[p] => c \in children'[p]
  BY Zenon, <1>2, RemovesKeepsLinks
<1>9. LinksInv'
  BY Zenon, <1>6, <1>8, LinksKept DEF MinableInv
<1>10. disconnectpool' \subseteq disconnectpool
  BY Zenon
<1> QED
  BY Zenon, <1>2, <1>3, <1>6, <1>7, <1>9, <1>10, ShrinkKeeps

\* The first pending transaction has left the pool with its conflicts.
LEMMA ApplyKeeps ==
  ASSUME EntriesInv, ControlInv, MinableInv, ConflictsRemoved,
         Resurrected = {}, Resurrected' = {}, Unlinked = {}, Unlinked' = {}
  PROVE  ChainInv' /\ PendingInv' /\ ApartInv' /\ ReorgInv' /\ LinksInv' /\ AvailInv'
<1> DEFINE h == Head(todo)
<1>1. /\ chain' = chain /\ pool' = pool /\ children' = children /\ disconnectpool' = disconnectpool
      /\ Left = todo /\ Left' = Tail(todo) /\ h \notin pool /\ todo # << >>
  BY Zenon DEF ConflictsRemoved, Left, entries, reorg, queuedTx, ControlInv, Phases
<1>2. h \in Tx /\ Tail(todo) \in Seq(Tx) /\ todo \in Seq(Tx) /\ Range(todo) = {h} \cup Range(Tail(todo))
  BY Zenon, <1>1, HeadOfTodo DEF ControlInv, ControlTypes
<1>3. Confirmed' = Confirmed /\ Anchors' = Anchors /\ ChainInv'
  BY Zenon, <1>1, SameChain DEF MinableInv
<1>4. /\ Pending = Range(todo) /\ Pending' = Range(Tail(todo)) /\ Pending' \subseteq Pending
      /\ Applied' \subseteq Applied \cup {h}
  BY Zenon, <1>1, <1>2, <1>3 DEF Pending, Applied
<1>5. PendingInv
  BY Zenon DEF MinableInv
<1>6. \A o \in Inputs[h] : o[1] \notin Pending
  <2>1. ASSUME NEW o \in Inputs[h], NEW j \in DOMAIN todo PROVE o[1] # todo[j]
    <3>1. 1 \in DOMAIN todo /\ 1 <= j /\ h = todo[1]
      BY <1>1, <1>2
    <3> QED
      BY Zenon, <3>1, <1>1, <1>5 DEF PendingInv
  <2> QED
    BY Zenon, <2>1, <1>4 DEF Range
<1>7. PendingInv'
  <2>1. Pending' \subseteq Confirmed
    BY Zenon, <1>4, <1>5 DEF PendingInv
  <2>2. ASSUME NEW t \in Applied', NEW o \in Inputs[t] PROVE o[1] \notin Pending'
    BY Zenon, <1>4, <1>5, <1>6 DEF PendingInv
  <2>3. ASSUME NEW i \in DOMAIN Tail(todo), NEW j \in DOMAIN Tail(todo), i <= j,
               NEW o \in Inputs[Tail(todo)[i]]
        PROVE  o[1] # Tail(todo)[j]
    <3>1. /\ i + 1 \in DOMAIN todo /\ j + 1 \in DOMAIN todo /\ i + 1 <= j + 1
          /\ Tail(todo)[i] = todo[i + 1] /\ Tail(todo)[j] = todo[j + 1]
      BY <1>1, <1>2, <2>3
    <3> QED
      BY Zenon, <3>1, <1>1, <1>5 DEF PendingInv
  <2>4. \A i, j \in DOMAIN Left' : i <= j => \A o \in Inputs[Left'[i]] : o[1] # Left'[j]
    BY <2>3, <1>1
  <2> QED
    BY Zenon, <2>1, <2>2, <2>4, <1>3 DEF PendingInv
<1>8. ApartInv'
  BY Zenon, <1>1, <1>3, <1>4 DEF MinableInv, ApartInv
<1>9. ReorgInv' /\ LinksInv'
  BY Zenon, <1>1, <1>3 DEF MinableInv, ReorgInv, LinksInv, Spends
<1>10. \A c \in pool : Inputs[c] \cap Inputs[h] = {} /\ Nullifiers[c] \cap Nullifiers[h] = {}
  <2>1. Conflicts(h) = {}
    BY Zenon DEF ConflictsRemoved
  <2> QED
    BY Zenon, <2>1, <1>1, <1>2, ConflictsLemma
<1>11. AvailInv'
  <2> SUFFICES ASSUME NEW t \in pool
               PROVE  /\ \A o \in Inputs[t] :
                           \/ o[1] \in pool \cup disconnectpool
                           \/ o[1] \in Coin \cup Confirmed /\ \A u \in Applied' : o \notin Inputs[u]
                      /\ Nullifiers[t] # {} => Anchor[t] \in Anchors
                      /\ \A u \in Applied' : Nullifiers[t] \cap Nullifiers[u] = {}
    BY Zenon, <1>1, <1>3 DEF AvailInv
  <2>1. /\ \A o \in Inputs[t] :
             \/ o[1] \in pool \cup disconnectpool
             \/ o[1] \in Coin \cup Confirmed /\ \A u \in Applied : o \notin Inputs[u]
        /\ Nullifiers[t] # {} => Anchor[t] \in Anchors
        /\ \A u \in Applied : Nullifiers[t] \cap Nullifiers[u] = {}
    BY Zenon DEF MinableInv, AvailInv
  <2>2. \A o \in Inputs[t] : o \notin Inputs[h]
    BY Zenon, <1>10
  <2>3. ASSUME NEW u \in Applied' PROVE Nullifiers[t] \cap Nullifiers[u] = {}
    BY Zenon, <2>1, <1>4, <1>10
  <2>4. ASSUME NEW o \in Inputs[t], \A u \in Applied : o \notin Inputs[u], NEW u \in Applied'
        PROVE  o \notin Inputs[u]
    BY Zenon, <2>2, <2>4, <1>4
  <2> QED
    BY Zenon, <2>1, <2>3, <2>4
<1> QED
  BY Zenon, <1>3, <1>7, <1>8, <1>9, <1>11

LEMMA PrefixOfAppend ==
  ASSUME NEW X, NEW s \in Seq(X), NEW x \in X, NEW i \in 0..Len(s)
  PROVE  SubSeq(Append(s, x), 1, i) = SubSeq(s, 1, i)
OBVIOUS

LEMMA Prefixes ==
  ASSUME NEW X, NEW s \in Seq(X), s # << >>
  PROVE  /\ SubSeq(s, 1, Len(s)) = s
         /\ SubSeq(s, 1, Len(s) - 1) \in Seq(X) /\ Len(SubSeq(s, 1, Len(s) - 1)) = Len(s) - 1
         /\ \A i \in 1..(Len(s) - 1) : SubSeq(s, 1, Len(s) - 1)[i] = s[i]
         /\ \A i \in 0..(Len(s) - 1) : SubSeq(SubSeq(s, 1, Len(s) - 1), 1, i) = SubSeq(s, 1, i)
<1>1. SubSeq(s, 1, Len(s)) = s
  OBVIOUS
<1>2. SubSeq(s, 1, Len(s) - 1) \in Seq(X) /\ Len(SubSeq(s, 1, Len(s) - 1)) = Len(s) - 1
  <2>1. Len(s) \in Nat /\ Len(s) >= 1
    OBVIOUS
  <2>2. \A i \in 1..(Len(s) - 1) : s[i] \in X
    BY <2>1
  <2>3. SubSeq(s, 1, Len(s) - 1) \in Seq(X)
    BY <2>1, <2>2
  <2>4. Len(SubSeq(s, 1, Len(s) - 1)) = Len(s) - 1
    <3>1. PICK m \in Nat : m = Len(s) - 1
      BY <2>1
    <3>2. Len(SubSeq(s, 1, m)) = m
      BY <2>1, <3>1
    <3> QED
      BY <3>1, <3>2
  <2> QED
    BY Zenon, <2>3, <2>4
<1>3. \A i \in 1..(Len(s) - 1) : SubSeq(s, 1, Len(s) - 1)[i] = s[i]
  OBVIOUS
<1>4. ASSUME NEW i \in 0..(Len(s) - 1)
      PROVE  SubSeq(SubSeq(s, 1, Len(s) - 1), 1, i) = SubSeq(s, 1, i)
  <2>1. PICK q \in Seq(X) : q = SubSeq(s, 1, Len(s) - 1)
    BY Zenon, <1>2
  <2>2. Len(q) = Len(s) - 1 /\ \A k \in 1..Len(q) : q[k] = s[k]
    BY <2>1, <1>2, <1>3
  <2>3. SubSeq(q, 1, i) = SubSeq(s, 1, i)
    BY <2>2
  <2> QED
    BY <2>1, <2>3
<1> QED
  BY Zenon, <1>1, <1>2, <1>3, <1>4

\* ConnectBlock: the transactions are new, and spend coins or from before them.
LEMMA BlockInOrder ==
  ASSUME ControlInv, NEW b \in Seq(Tx), ConnectBlock(b)
  PROVE  /\ Range(b) \subseteq Tx /\ Range(b) \cap Confirmed = {}
         /\ \A i \in DOMAIN b : \A o \in Inputs[b[i]] :
              o[1] \in Coin \cup Confirmed \/ \E k \in 1..(i - 1) : o[1] = b[k]
         /\ \A i, j \in DOMAIN b : i <= j => \A o \in Inputs[b[i]] : o[1] # b[j]
<1>1. Confirmed \subseteq Tx /\ Tx \cap Coin = {}
  BY Zenon, ConfirmedTypes, MempoolAssumption DEF MempoolAssumption
<1>2. \A i \in DOMAIN b : b[i] \in Tx
  OBVIOUS
<1>3. ASSUME NEW i \in DOMAIN b
      PROVE  /\ b[i] \notin Confirmed /\ \A k \in 1..(i - 1) : b[i] # b[k]
             /\ \A o \in Inputs[b[i]] :
                  o[1] \in Coin \cup Confirmed \/ \E k \in 1..(i - 1) : o[1] = b[k]
  <2> DEFINE before == {b[j] : j \in 1..(i - 1)}
  <2>1. b[i] \notin Confirmed \cup before /\ Inputs[b[i]] \subseteq (Utxo \cup Outputs(before)) \ Spent(before)
    BY Zenon DEF ConnectBlock
  <2>2. \A o \in Outputs(before) : \E k \in 1..(i - 1) : o[1] = b[k]
    BY Zenon DEF Outputs
  <2>3. \A o \in Utxo : o[1] \in Coin \cup Confirmed
    BY Zenon DEF Utxo, Outputs
  <2>4. \A k \in 1..(i - 1) : b[k] \in before
    BY Zenon
  <2> HIDE DEF before
  <2> QED
    BY Zenon, <2>1, <2>2, <2>3, <2>4
<1>4. Range(b) \subseteq Tx /\ Range(b) \cap Confirmed = {}
  <2>1. \A i \in DOMAIN b : b[i] \in Tx /\ b[i] \notin Confirmed
    BY Zenon, <1>2, <1>3
  <2>2. \A t \in Range(b) : \E i \in DOMAIN b : t = b[i]
    BY Zenon DEF Range
  <2> QED
    BY Zenon, <2>1, <2>2
<1>5. ASSUME NEW i \in DOMAIN b, NEW j \in DOMAIN b, i <= j, NEW o \in Inputs[b[i]]
      PROVE  o[1] # b[j]
  <2>1. CASE o[1] \in Coin \cup Confirmed
    BY Zenon, <2>1, <1>1, <1>2, <1>3
  <2>2. CASE \E k \in 1..(i - 1) : o[1] = b[k]
    <3>1. PICK k \in 1..(i - 1) : o[1] = b[k]
      BY Zenon, <2>2
    <3>2. k \in 1..(j - 1)
      BY <1>5
    <3> QED
      BY Zenon, <3>1, <3>2, <1>3
  <2> QED
    BY Zenon, <2>1, <2>2, <1>3
<1> QED
  BY Zenon, <1>3, <1>4, <1>5

LEMMA ConnectKeeps ==
  ASSUME EntriesInv, ControlInv, MinableInv, NEW b \in Blocks, ConnectTip(b),
         Resurrected = {}, Resurrected' = {}, Unlinked = {}, Unlinked' = {}
  PROVE  ChainInv' /\ PendingInv' /\ ApartInv' /\ ReorgInv' /\ LinksInv' /\ AvailInv' /\ SettledInv'
<1>1. /\ chain \in Seq(Blocks) /\ b \in Seq(Tx) /\ chain' = Append(chain, b) /\ ConnectBlock(b)
      /\ pool' = pool /\ children' = children /\ disconnectpool' = disconnectpool \ Range(b)
      /\ Left = << >> /\ Left' = b /\ fBlocksDisconnected' = fBlocksDisconnected /\ pc # "purge"
  BY Zenon, MempoolAssumption DEF MempoolAssumption, ConnectTip, Left, entries, ControlInv, ControlTypes
<1> DEFINE n == Len(chain)
<1>2. /\ n \in Nat /\ DOMAIN chain = 1..n /\ DOMAIN chain' = 1..(n + 1)
      /\ Len(chain') = n + 1 /\ n + 1 \in 1..(n + 1)
      /\ chain'[n + 1] = b /\ \A i \in 1..n : chain'[i] = chain[i] /\ i \in 1..(n + 1)
      /\ \A i \in 1..(n + 1) : i \in 1..n \/ i = n + 1
      /\ \A i \in 1..n : 1..i \subseteq 1..n
  BY <1>1
<1> HIDE DEF n
<1>3. Confirmed' = Confirmed \cup Range(b)
  <2>1. \A t \in Confirmed' : t \in Confirmed \cup Range(b)
    BY Zenon, <1>2 DEF Confirmed
  <2>2. \A t \in Confirmed : t \in Confirmed'
    BY Zenon, <1>2 DEF Confirmed
  <2>3. \A t \in Range(b) : t \in Confirmed'
    BY Zenon, <1>2 DEF Confirmed
  <2> QED
    BY Zenon, <2>1, <2>2, <2>3
<1>4. /\ Range(b) \subseteq Tx /\ Range(b) \cap Confirmed = {}
      /\ \A i \in DOMAIN b : \A o \in Inputs[b[i]] :
           o[1] \in Coin \cup Confirmed \/ \E k \in 1..(i - 1) : o[1] = b[k]
      /\ \A i, j \in DOMAIN b : i <= j => \A o \in Inputs[b[i]] : o[1] # b[j]
  BY Zenon, <1>1, BlockInOrder
<1>5. Pending = {} /\ Applied = Confirmed /\ Pending' = Range(b) /\ Applied' = Confirmed
  <2>1. Range(<< >>) = {}
    BY DEF Range
  <2> QED
    BY Zenon, <2>1, <1>1, <1>3, <1>4 DEF Pending, Applied
<1>6. \A t \in Confirmed : \A o \in Inputs[t] : o[1] \in Coin \cup Confirmed
  BY Zenon, ConfirmedTypes DEF MinableInv
<1>7. \A t \in Range(b) : \A o \in Inputs[t] : o[1] \in Coin \cup Confirmed \cup Range(b)
  <2> SUFFICES ASSUME NEW i \in DOMAIN b, NEW o \in Inputs[b[i]]
               PROVE  o[1] \in Coin \cup Confirmed \cup Range(b)
    BY Zenon DEF Range
  <2>1. 1..(i - 1) \subseteq DOMAIN b
    BY <1>1
  <2> QED
    BY Zenon, <2>1, <1>4 DEF Range
<1>8. ChainInv'
  <2>1. ASSUME NEW i \in DOMAIN chain', NEW j \in DOMAIN chain', NEW t \in Tx,
               t \in Range(chain'[i]), t \in Range(chain'[j])
        PROVE  i = j
    <3>1. CASE i \in 1..n /\ j \in 1..n
      BY Zenon, <2>1, <3>1, <1>2 DEF MinableInv, ChainInv
    <3>2. \A k \in 1..n : t \in Range(chain'[k]) => t \in Confirmed
      BY Zenon, <1>2 DEF Confirmed
    <3> QED
      BY Zenon, <2>1, <3>1, <3>2, <1>2, <1>4
  <2>2. ASSUME NEW i \in DOMAIN chain', NEW t \in Range(chain'[i]), NEW o \in Inputs[t]
        PROVE  o[1] \in Coin \/ \E j \in 1..i : o[1] \in Range(chain'[j])
    <3>1. CASE i \in 1..n
      <4>1. o[1] \in Coin \/ \E j \in 1..i : o[1] \in Range(chain[j])
        BY Zenon, <3>1, <1>2 DEF MinableInv, ChainInv
      <4> QED
        BY Zenon, <3>1, <4>1, <1>2
    <3>2. CASE i = n + 1
      <4>1. o[1] \in Coin \cup Confirmed \cup Range(b)
        BY Zenon, <3>2, <1>2, <1>7
      <4>2. o[1] \in Confirmed \cup Range(b) => \E j \in 1..(n + 1) : o[1] \in Range(chain'[j])
        BY Zenon, <1>2 DEF Confirmed
      <4> QED
        BY Zenon, <3>2, <4>1, <4>2
    <3> QED
      BY Zenon, <3>1, <3>2, <1>2
  <2> QED
    BY Zenon, <2>1, <2>2 DEF ChainInv
<1>9. Tx \cap Coin = {}
  BY Zenon, MempoolAssumption DEF MempoolAssumption
<1>10. PendingInv'
  <2>1. \A t \in Confirmed : \A o \in Inputs[t] : o[1] \notin Range(b)
    BY Zenon, <1>4, <1>6, <1>9
  <2>2. \A i, j \in DOMAIN Left' : i <= j => \A o \in Inputs[Left'[i]] : o[1] # Left'[j]
    BY <1>1, <1>4
  <2> QED
    BY Zenon, <2>1, <2>2, <1>3, <1>5 DEF PendingInv
<1>11. ApartInv'
  BY Zenon, <1>1, <1>3, <1>5 DEF MinableInv, ApartInv
<1>12. ReorgInv' /\ LinksInv'
  BY Zenon, <1>1 DEF MinableInv, ReorgInv, LinksInv, Spends
<1>13. Anchors \subseteq Anchors'
  <2> SUFFICES ASSUME NEW i \in 0..Len(chain)
               PROVE  Root(SubSeq(chain, 1, i)) \in Anchors'
    BY Zenon DEF Anchors
  <2>1. SubSeq(chain', 1, i) = SubSeq(chain, 1, i)
    BY Zenon, <1>1, PrefixOfAppend
  <2>2. i \in 0..Len(chain')
    BY <1>1
  <2> QED
    BY Zenon, <2>1, <2>2 DEF Anchors
<1>14. AvailInv'
  <2> SUFFICES ASSUME NEW t \in pool
               PROVE  /\ \A o \in Inputs[t] :
                           \/ o[1] \in pool \cup disconnectpool'
                           \/ /\ o[1] \in Coin \cup Confirmed'
                              /\ \A u \in Confirmed : o \notin Inputs[u]
                      /\ Nullifiers[t] # {} => Anchor[t] \in Anchors'
                      /\ \A u \in Confirmed : Nullifiers[t] \cap Nullifiers[u] = {}
    BY Zenon, <1>1, <1>5 DEF AvailInv
  <2>1. /\ \A o \in Inputs[t] :
             \/ o[1] \in pool \cup disconnectpool
             \/ o[1] \in Coin \cup Confirmed /\ \A u \in Confirmed : o \notin Inputs[u]
        /\ Nullifiers[t] # {} => Anchor[t] \in Anchors
        /\ \A u \in Confirmed : Nullifiers[t] \cap Nullifiers[u] = {}
    BY Zenon, <1>5 DEF MinableInv, AvailInv
  <2>2. ASSUME NEW o \in Inputs[t], o[1] \in disconnectpool
        PROVE  /\ o[1] \in disconnectpool' \/ o[1] \in Confirmed'
               /\ \A u \in Confirmed : o \notin Inputs[u]
    <3>1. o[1] \notin Coin \cup Confirmed
      BY Zenon, <2>2, <1>9 DEF MinableInv, ApartInv, ControlInv, ControlTypes
    <3> QED
      BY Zenon, <3>1, <2>2, <1>1, <1>3, <1>6
  <2> QED
    BY Zenon, <2>1, <2>2, <1>3, <1>13
<1>15. SettledInv'
  <2> SUFFICES ASSUME ~fBlocksDisconnected, NEW t \in pool
               PROVE  CheckFinalTx(t)' /\ \A o \in Inputs[t] : ~Immature(o)'
    BY Zenon, <1>1 DEF SettledInv
  <2>1. t \in Tx /\ CheckFinalTx(t) /\ \A o \in Inputs[t] : ~Immature(o)
    BY Zenon, <1>1 DEF MinableInv, SettledInv, EntriesInv, EntryTypes
  <2>2. CheckFinalTx(t)'
    <3>1. LockTime[t] \in Nat /\ LockTime[t] < n + 1
      BY Zenon, <2>1, MempoolAssumption DEF MempoolAssumption, CheckFinalTx, n
    <3>2. LockTime[t] < Len(chain') + 1
      BY <3>1, <1>2
    <3> QED
      BY Zenon, <3>2 DEF CheckFinalTx
  <2>3. ASSUME NEW o \in Inputs[t] PROVE ~Immature(o)'
    <3>1. SUFFICES ASSUME o[1] \in CoinBase, Len(chain') + 1 - HeightOf(o[1])' < Maturity
                   PROVE  FALSE
      BY Zenon DEF Immature
    <3> DEFINE x == o[1]
    <3>2. x \in Tx /\ x \in Confirmed
      BY Zenon, <3>1, <1>5, <1>9, MempoolAssumption
         DEF MempoolAssumption, MinableInv, AvailInv, ApartInv, ControlInv, Phases
    <3>3. PICK k \in 1..n : x \in Range(chain[k])
      BY Zenon, <3>2, <1>2 DEF Confirmed
    <3>4. HeightOf(x) = k
      <4>1. \A i \in DOMAIN chain : x \in Range(chain[i]) => i = k
        BY Zenon, <3>2, <3>3, <1>2 DEF MinableInv, ChainInv
      <4> QED
        BY Zenon, <3>3, <4>1, <1>2 DEF HeightOf
    <3>5. HeightOf(x)' = k
      <4>1. k \in DOMAIN chain' /\ x \in Range(chain'[k])
        BY Zenon, <3>3, <1>2
      <4>2. \A i \in DOMAIN chain' : x \in Range(chain'[i]) => i = k
        BY Zenon, <3>2, <4>1, <1>8 DEF ChainInv
      <4> QED
        BY Zenon, <4>1, <4>2 DEF HeightOf
    <3>6. ~(n + 1 - k < Maturity)
      BY Zenon, <2>1, <3>1, <3>4 DEF Immature, n
    <3>7. n + 1 + 1 - k < Maturity
      BY Zenon, <3>1, <3>5, <1>2
    <3>8. Maturity \in Nat
      BY Zenon, MempoolAssumption DEF MempoolAssumption
    <3> QED
      BY <3>6, <3>7, <3>8, <1>2
  <2> QED
    BY Zenon, <2>2, <2>3
<1> QED
  BY Zenon, <1>8, <1>10, <1>11, <1>12, <1>14, <1>15

LEMMA DisconnectKeeps ==
  ASSUME EntriesInv, ControlInv, MinableInv, DisconnectTip,
         Resurrected = {}, Resurrected' = {}, Unlinked = {}, Unlinked' = {}
  PROVE  ChainInv' /\ PendingInv' /\ ApartInv' /\ ReorgInv' /\ LinksInv' /\ AvailInv' /\ SettledInv'
<1>1. /\ chain \in Seq(Blocks) /\ chain # << >> /\ chain' = SubSeq(chain, 1, Len(chain) - 1)
      /\ Left = << >> /\ Left' = << >> /\ fBlocksDisconnected'
  BY Zenon DEF DisconnectTip, Left, ControlInv, ControlTypes
<1>2. /\ disconnectpool' \subseteq Disconnecting /\ Disconnecting \subseteq Tx
      /\ Removes(Orphaned) /\ Closed(Orphaned)
  BY Zenon, DisconnectEffect
<1> DEFINE n == Len(chain)
           block == chain[n]
<1>3. /\ n \in Nat \ {0} /\ DOMAIN chain = 1..n /\ Len(chain') = n - 1
      /\ DOMAIN chain' = 1..(n - 1) /\ \A i \in 1..(n - 1) : chain'[i] = chain[i]
      /\ \A i \in 1..n : i \in 1..(n - 1) \/ i = n
      /\ \A i \in 1..(n - 1) : i \in 1..n /\ i # n /\ 1..i \subseteq 1..(n - 1)
      /\ n \in 1..n
  <2>1. chain' \in Seq(Blocks) /\ Len(chain') = n - 1 /\ \A i \in 1..(n - 1) : chain'[i] = chain[i]
    BY Zenon, <1>1, Prefixes
  <2>2. n \in Nat \ {0} /\ DOMAIN chain = 1..n
    BY <1>1
  <2> HIDE DEF n
  <2> QED
    BY <2>1, <2>2
<1>4. Disconnecting = disconnectpool \cup Range(block)
  BY Zenon DEF Disconnecting
<1> HIDE DEF n
<1>5. Confirmed = Confirmed' \cup Range(block)
  <2>1. \A t \in Confirmed' : t \in Confirmed
    BY Zenon, <1>3 DEF Confirmed
  <2>2. \A t \in Range(block) : t \in Confirmed
    BY Zenon, <1>3 DEF Confirmed
  <2>3. \A t \in Confirmed : t \in Confirmed' \cup Range(block)
    BY Zenon, <1>3 DEF Confirmed
  <2> QED
    BY Zenon, <2>1, <2>2, <2>3
<1>6. Range(block) \subseteq Tx /\ Range(block) \cap Confirmed' = {}
  <2>1. Range(block) \subseteq Tx
    BY Zenon, <1>2, <1>4
  <2>2. ASSUME NEW t \in Range(block), NEW i \in 1..(n - 1), t \in Range(chain[i]) PROVE FALSE
    BY Zenon, <2>1, <2>2, <1>3 DEF MinableInv, ChainInv
  <2>3. \A t \in Confirmed' : \E i \in 1..(n - 1) : t \in Range(chain[i])
    BY Zenon, <1>3 DEF Confirmed
  <2> QED
    BY Zenon, <2>1, <2>2, <2>3
<1>7. Pending = {} /\ Applied = Confirmed /\ Pending' = {} /\ Applied' = Confirmed'
  <2>1. Range(<< >>) = {}
    BY DEF Range
  <2> QED
    BY Zenon, <2>1, <1>1 DEF Pending, Applied
<1> HIDE DEF block
<1>8. pool \cap Confirmed = {} /\ pool' = pool \ Orphaned
  BY Zenon, <1>2, <1>7 DEF MinableInv, ApartInv, Removes
<1>9. ChainInv'
  <2>1. ASSUME NEW i \in DOMAIN chain', NEW j \in DOMAIN chain', NEW t \in Tx,
               t \in Range(chain'[i]), t \in Range(chain'[j])
        PROVE  i = j
    BY Zenon, <2>1, <1>3 DEF MinableInv, ChainInv
  <2>2. ASSUME NEW i \in DOMAIN chain', NEW t \in Range(chain'[i]), NEW o \in Inputs[t]
        PROVE  o[1] \in Coin \/ \E j \in 1..i : o[1] \in Range(chain'[j])
    <3>1. o[1] \in Coin \/ \E j \in 1..i : o[1] \in Range(chain[j])
      BY Zenon, <1>3 DEF MinableInv, ChainInv
    <3> QED
      BY Zenon, <3>1, <1>3
  <2> QED
    BY Zenon, <2>1, <2>2 DEF ChainInv
<1>10. PendingInv'
  <2>1. \A i, j \in DOMAIN Left' : i <= j => \A o \in Inputs[Left'[i]] : o[1] # Left'[j]
    BY <1>1
  <2> QED
    BY Zenon, <2>1, <1>7 DEF PendingInv
<1>11. Disconnecting \cap pool = {} /\ Disconnecting \cap Confirmed' = {}
  BY Zenon, <1>4, <1>5, <1>6, <1>8 DEF MinableInv, ApartInv
<1>12. ApartInv'
  <2>1. pool' \subseteq pool /\ Confirmed' \subseteq Confirmed
    BY Zenon, <1>5, <1>8
  <2> QED
    BY Zenon, <2>1, <1>2, <1>7, <1>8, <1>11 DEF MinableInv, ApartInv
<1>13. ReorgInv'
  <2>1. ASSUME NEW t \in Disconnecting, NEW o \in Inputs[t] PROVE o[1] \notin pool
    <3>1. CASE t \in disconnectpool
      BY Zenon, <3>1 DEF MinableInv, ReorgInv
    <3>2. CASE t \in Confirmed
      <4>1. o[1] \in Coin \cup Confirmed
        BY Zenon, <3>2, ConfirmedTypes DEF MinableInv
      <4> QED
        BY Zenon, <4>1, <1>8, MempoolAssumption DEF MempoolAssumption, EntriesInv, EntryTypes
    <3> QED
      BY Zenon, <3>1, <3>2, <1>4, <1>5
  <2> QED
    BY Zenon, <2>1, <1>2, <1>8 DEF ReorgInv
<1>14. LinksInv'
  <2>1. \A p, c \in pool' : c \in children[p] => c \in children'[p]
    BY Zenon, <1>2, RemovesKeepsLinks
  <2> QED
    BY Zenon, <2>1, <1>8 DEF MinableInv, LinksInv, Spends
<1>15. \A p \in Orphaned, c \in pool' : ~Spends(c, p)
  <2>1. Orphaned \cap Unlinked = {}
    BY Zenon
  <2> QED
    BY Zenon, <2>1, <1>2, <1>8, ClosedApart
<1>16. ASSUME NEW t \in Disconnecting \ disconnectpool', NEW c \in pool' PROVE ~Spends(c, t)
  <2>1. t \in Tx /\ t \notin pool /\ c \in pool /\ c \notin Orphaned
    BY Zenon, <1>2, <1>8, <1>11
  <2>2. Spends(c, t) => c \in Recursive(t)
    BY Zenon, <2>1, RecursiveLemma
  <2>3. Recursive(t) \subseteq Orphaned
    BY Zenon DEF Orphaned
  <2> QED
    BY Zenon, <2>1, <2>2, <2>3
<1>17. ASSUME NEW t \in pool', Nullifiers[t] # {} PROVE Anchor[t] \in Anchors'
  <2>1. t \in pool /\ t \in Tx /\ t \notin Orphaned
    BY Zenon, <1>8 DEF EntriesInv, EntryTypes
  <2>2. PICK i \in 0..n : Anchor[t] = Root(SubSeq(chain, 1, i))
    BY Zenon, <2>1, <1>17 DEF MinableInv, AvailInv, Anchors, n
  <2>3. CASE i \in 0..(n - 1)
    <3>1. SubSeq(chain', 1, i) = SubSeq(chain, 1, i)
      BY Zenon, <2>3, <1>1, Prefixes DEF n
    <3>2. i \in 0..Len(chain')
      BY Zenon, <2>3, <1>3
    <3> QED
      BY Zenon, <2>2, <3>1, <3>2 DEF Anchors
  <2>4. CASE i = n
    <3>1. Anchor[t] = Root(chain)
      BY Zenon, <2>2, <2>4, <1>1, Prefixes DEF n
    <3>2. t \notin Anchored
      <4>1. t \in Recursive(t)
        BY Zenon, <2>1, RecursiveLemma
      <4> QED
        BY Zenon, <4>1, <2>1 DEF Orphaned
    <3>3. Root(chain') = Root(chain)
      BY Zenon, <3>1, <3>2, <2>1, <1>17 DEF Anchored, Shielded
    <3>4. SubSeq(chain', 1, Len(chain')) = chain' /\ Len(chain') \in 0..Len(chain')
      <4>1. chain' \in Seq(Blocks)
        BY Zenon, <1>1, Prefixes
      <4> QED
        BY <4>1
    <3> QED
      BY Zenon, <3>1, <3>3, <3>4 DEF Anchors
  <2>5. i \in 0..(n - 1) \/ i = n
    BY <1>3
  <2> QED
    BY Zenon, <2>3, <2>4, <2>5
<1>18. AvailInv'
  <2> SUFFICES ASSUME NEW t \in pool'
               PROVE  /\ \A o \in Inputs[t] :
                           \/ o[1] \in pool' \cup disconnectpool'
                           \/ o[1] \in Coin \cup Confirmed' /\ \A u \in Confirmed' : o \notin Inputs[u]
                      /\ \A u \in Confirmed' : Nullifiers[t] \cap Nullifiers[u] = {}
    BY Zenon, <1>7, <1>17 DEF AvailInv
  <2>1. t \in pool
    BY Zenon, <1>8
  <2>2. \A u \in Confirmed' : Nullifiers[t] \cap Nullifiers[u] = {}
    BY Zenon, <2>1, <1>5, <1>7 DEF MinableInv, AvailInv
  <2>3. ASSUME NEW o \in Inputs[t]
        PROVE  \/ o[1] \in pool' \cup disconnectpool'
               \/ o[1] \in Coin \cup Confirmed' /\ \A u \in Confirmed' : o \notin Inputs[u]
    <3>1. \/ o[1] \in pool \cup disconnectpool
          \/ o[1] \in Coin \cup Confirmed /\ \A u \in Confirmed : o \notin Inputs[u]
      BY Zenon, <2>1, <1>7 DEF MinableInv, AvailInv
    <3>2. o[1] \in pool => o[1] \in pool'
      BY Zenon, <1>8, <1>15 DEF Spends
    <3>3. o[1] \in Disconnecting => o[1] \in disconnectpool'
      BY Zenon, <1>16 DEF Spends
    <3> QED
      BY Zenon, <3>1, <3>2, <3>3, <1>4, <1>5
  <2> QED
    BY Zenon, <2>2, <2>3
<1>19. SettledInv'
  BY Zenon, <1>1 DEF SettledInv
<1> QED
  BY Zenon, <1>9, <1>10, <1>12, <1>13, <1>14, <1>18, <1>19

LEMMA NothingBack ==
  ASSUME ControlInv, ControlInv'
  PROVE  /\ ~Back => Resurrected = {} /\ Unlinked = {}
         /\ ~Back' => Resurrected' = {} /\ Unlinked' = {}
<1>1. Range(<< >>) = {}
  BY DEF Range
<1>2. /\ ~Back => vHashUpdate = << >> /\ ~Returning /\ pc # "link"
      /\ ~Back' => vHashUpdate' = << >> /\ ~Returning' /\ pc' # "link"
  BY Zenon DEF ControlInv, Phases, Back
<1> QED
  BY Zenon, <1>1, <1>2 DEF Resurrected, Unlinked

LEMMA StayKeeps ==
  ASSUME EntriesInv, MinableInv, Kept, chain' = chain, disconnectpool' = disconnectpool, Left' = Left,
         Resurrected' = Resurrected, Unlinked' = Unlinked
  PROVE  ChainInv' /\ PendingInv' /\ ApartInv' /\ ReorgInv' /\ LinksInv' /\ AvailInv'
<1>1. pool' = pool /\ children' = children
  BY Zenon DEF Kept
<1>2. LinksInv'
  BY Zenon, <1>1, LinksKept DEF MinableInv
<1>3. pool' = pool \ {} /\ {} \cap Resurrected = {}
  BY Zenon, <1>1
<1>4. \A p \in {}, c \in pool \ {} : Spends(c, p) => p \in Pending
  BY Zenon
<1> QED
  BY Zenon, <1>2, <1>3, <1>4, ShrinkKeeps

LEMMA CutKeeps ==
  ASSUME EntriesInv, ControlInv, ControlInv', MinableInv, ~Back, ~Back',
         chain' = chain, disconnectpool' = disconnectpool, Left' = Left,
         NEW S, Removes(S), Closed(S)
  PROVE  ChainInv' /\ PendingInv' /\ ApartInv' /\ ReorgInv' /\ LinksInv' /\ AvailInv'
<1>1. Resurrected = {} /\ Unlinked = {} /\ Resurrected' = {} /\ Unlinked' = {}
  BY Zenon, NothingBack
<1>2. pool' = pool \ S /\ pool' \subseteq pool
  BY Zenon DEF Removes
<1>3. LinksInv'
  BY Zenon, <1>1, <1>2, RemovesKeepsLinks, LinksKept DEF MinableInv
<1>4. \A p \in S, c \in pool \ S : ~Spends(c, p)
  <2>1. S \cap Unlinked = {}
    BY Zenon, <1>1
  <2> QED
    BY Zenon, <2>1, ClosedApart
<1>5. S \cap Resurrected = {} /\ Resurrected' = Resurrected
  BY Zenon, <1>1
<1> QED
  BY Zenon, <1>2, <1>3, <1>4, <1>5, ShrinkKeeps

LEMMA SettledKeeps ==
  ASSUME MinableInv, chain' = chain, pool' \subseteq pool,
         ~fBlocksDisconnected' /\ pc' # "purge" => ~fBlocksDisconnected /\ pc # "purge"
  PROVE  SettledInv'
<1>1. \A t \in pool : CheckFinalTx(t)' <=> CheckFinalTx(t)
  BY Zenon DEF CheckFinalTx
<1>2. \A t \in pool : \A o \in Inputs[t] : Immature(o)' <=> Immature(o)
  BY Zenon DEF Immature, HeightOf
<1> QED
  BY Zenon, <1>1, <1>2 DEF MinableInv, SettledInv

LEMMA AcceptKeeps ==
  ASSUME EntriesInv, ControlInv, ControlInv', MinableInv, NEW t, Adds(t),
         pc = "idle", pc' = "limit", UNCHANGED <<chain, disconnectpool, fBlocksDisconnected>>
  PROVE  MinableInv'
<1>1. Resurrected = {} /\ Unlinked = {} /\ Resurrected' = {} /\ Unlinked' = {}
  BY Zenon, NothingBack DEF Back, Returning
<1>2. disconnectpool = {} /\ disconnectpool' = disconnectpool \ {t} /\ Left = << >> /\ Left' = << >>
  BY Zenon DEF ControlInv, Phases, Left
<1>3. ChainInv' /\ PendingInv' /\ ApartInv' /\ ReorgInv' /\ LinksInv' /\ AvailInv'
  BY Zenon, <1>1, <1>2, AddKeeps
<1>4. SettledInv'
  <2>1. ~fBlocksDisconnected /\ pool' = pool \cup {t}
    BY Zenon DEF ControlInv, Phases, Adds
  <2>2. \A u \in pool' : CheckFinalTx(u)' <=> CheckFinalTx(u)
    BY Zenon DEF CheckFinalTx
  <2>3. \A u \in pool' : \A o \in Inputs[u] : Immature(o)' <=> Immature(o)
    BY Zenon DEF Immature, HeightOf
  <2>4. CheckFinalTx(t) /\ \A o \in Inputs[t] : o[1] \in pool \/ ~Immature(o)
    BY Zenon DEF Adds, Acceptable
  <2>5. \A o \in Inputs[t] : ~Immature(o)
    BY Zenon, <2>4 DEF MinableInv, ApartInv, Immature
  <2>6. \A u \in pool : CheckFinalTx(u) /\ \A o \in Inputs[u] : ~Immature(o)
    BY Zenon, <2>1 DEF MinableInv, SettledInv
  <2> QED
    BY Zenon, <2>1, <2>2, <2>3, <2>4, <2>5, <2>6 DEF SettledInv
<1> QED
  BY Zenon, <1>3, <1>4 DEF MinableInv

LEMMA MinedKeeps ==
  ASSUME EntriesInv, ControlInv, ControlInv', MinableInv, RemoveMined
  PROVE  MinableInv'
<1> DEFINE S == pool \cap {Head(todo)}
<1>1. /\ chain' = chain /\ disconnectpool' = disconnectpool /\ Left = todo /\ Left' = todo
      /\ todo # << >> /\ ~Back /\ ~Back' /\ UNCHANGED fBlocksDisconnected /\ pc # "purge"
  BY Zenon DEF RemoveMined, Left, Back, Returning, reorg, queuedTx
<1>2. Resurrected = {} /\ Unlinked = {} /\ Resurrected' = {} /\ Unlinked' = {}
  BY Zenon, <1>1, NothingBack
<1>3. Head(todo) \in Pending
  BY Zenon, <1>1, HeadOfTodo DEF Pending
<1>4. Removes(S) /\ \A p \in S : p \in Pending
  BY Zenon, <1>3, MinedEffect
<1> HIDE DEF S
<1>5. pool' = pool \ S /\ pool' \subseteq pool
  BY Zenon, <1>4 DEF Removes
<1>6. LinksInv'
  BY Zenon, <1>2, <1>4, <1>5, RemovesKeepsLinks, LinksKept DEF MinableInv
<1>7. S \cap Resurrected = {} /\ Resurrected' = Resurrected /\ Left' = Left
  BY Zenon, <1>1, <1>2
<1>8. ChainInv' /\ PendingInv' /\ ApartInv' /\ ReorgInv' /\ AvailInv'
  BY Zenon, <1>1, <1>4, <1>5, <1>7, ShrinkKeeps
<1>9. SettledInv'
  BY Zenon, <1>1, <1>5, SettledKeeps
<1> QED
  BY Zenon, <1>6, <1>8, <1>9 DEF MinableInv

LEMMA ReAddKeeps ==
  ASSUME EntriesInv, ControlInv, ControlInv', MinableInv, ReAdd
  PROVE  MinableInv'
<1>1. /\ pc = "readd" /\ chain' = chain /\ vHashUpdate' = vHashUpdate
      /\ fBlocksDisconnected /\ fBlocksDisconnected' = fBlocksDisconnected
  BY Zenon DEF ReAdd, ControlInv, Phases
<1>2. PICK t \in disconnectpool :
           /\ disconnectpool' = disconnectpool \ {t}
           /\ \/ Adds(t) /\ pc' = "trim" /\ ret' = "readded" /\ todo' = <<t>>
              \/ /\ Removes(Recursive(t)) /\ Closed(Recursive(t))
                 /\ UNCHANGED <<pc, ret, todo>>
  BY Zenon, ReAddEffect
<1>3. Left = << >> /\ Left' = << >> /\ Resurrected = Range(vHashUpdate) /\ Unlinked = Resurrected
  BY Zenon, <1>1, <1>2 DEF Left, Unlinked, Resurrected, Returning
<1>4. ChainInv' /\ PendingInv' /\ ApartInv' /\ ReorgInv' /\ LinksInv' /\ AvailInv'
  <2>1. CASE Adds(t) /\ pc' = "trim" /\ ret' = "readded" /\ todo' = <<t>>
    <3>1. Head(<<t>>) = t
      OBVIOUS
    <3>2. Resurrected' = Resurrected \cup {t} /\ Unlinked' = Resurrected'
      BY Zenon, <1>1, <1>3, <2>1, <3>1 DEF Unlinked, Resurrected, Returning
    <3> QED
      BY Zenon, <1>1, <1>2, <1>3, <2>1, <3>2, AddKeeps
  <2>2. CASE /\ Removes(Recursive(t)) /\ Closed(Recursive(t))
             /\ UNCHANGED <<pc, ret, todo>>
    <3>1. Resurrected' = Resurrected /\ Unlinked' = Resurrected
      BY Zenon, <1>1, <1>3, <2>2 DEF Unlinked, Resurrected, Returning
    <3> QED
      BY Zenon, <1>1, <1>2, <1>3, <2>2, <3>1, RefuseKeeps
  <2> QED
    BY Zenon, <1>2, <2>1, <2>2
<1>5. SettledInv'
  BY Zenon, <1>1 DEF SettledInv
<1> QED
  BY Zenon, <1>4, <1>5 DEF MinableInv

LEMMA ReAddedKeeps ==
  ASSUME EntriesInv, ControlInv, MinableInv, ReAdded
  PROVE  MinableInv'
<1>1. /\ pc = "readded" /\ pc' = "readd" /\ chain' = chain /\ disconnectpool' = disconnectpool
      /\ fBlocksDisconnected /\ fBlocksDisconnected' = fBlocksDisconnected
  BY Zenon DEF ReAdded, ControlInv, Phases, queuedTx
<1>2. Resurrected = Range(vHashUpdate) \cup {Head(todo)} /\ Unlinked = Resurrected
  BY Zenon, <1>1 DEF Resurrected, Unlinked, Returning
<1>3. Head(todo) \in pool
  BY Zenon, <1>2 DEF MinableInv, ReorgInv
<1>4. vHashUpdate' = Append(vHashUpdate, Head(todo)) /\ Kept /\ Head(todo) \in Tx
  BY Zenon, <1>3, ReAddedEffect
<1>5. Resurrected' = Resurrected /\ Unlinked' = Unlinked
  <2>1. Range(Append(vHashUpdate, Head(todo))) = Range(vHashUpdate) \cup {Head(todo)}
    <3>1. vHashUpdate \in Seq(Tx)
      BY Zenon DEF ControlInv, ControlTypes
    <3> QED
      BY <3>1, <1>4 DEF Range
  <2>2. Resurrected' = Range(vHashUpdate') /\ Unlinked' = Resurrected'
    BY Zenon, <1>1 DEF Resurrected, Unlinked, Returning
  <2> QED
    BY Zenon, <2>1, <2>2, <1>2, <1>4
<1>6. Left = << >> /\ Left' = << >>
  BY Zenon, <1>1 DEF Left
<1>7. ChainInv' /\ PendingInv' /\ ApartInv' /\ ReorgInv' /\ LinksInv' /\ AvailInv'
  BY Zenon, <1>1, <1>4, <1>5, <1>6, StayKeeps
<1>8. SettledInv'
  BY Zenon, <1>1 DEF SettledInv
<1> QED
  BY Zenon, <1>7, <1>8 DEF MinableInv

LEMMA LinkKeeps ==
  ASSUME EntriesInv, ControlInv, MinableInv, UpdateTransactionsFromBlock
  PROVE  MinableInv'
<1> DEFINE t == vHashUpdate[linkAt]
<1>1. /\ pc = "link" /\ pc' = "link" /\ chain' = chain /\ disconnectpool' = disconnectpool
      /\ fBlocksDisconnected /\ fBlocksDisconnected' = fBlocksDisconnected
      /\ vHashUpdate' = vHashUpdate /\ linkAt > 0 /\ linkAt' = linkAt - 1 /\ pool' = pool
  BY Zenon DEF UpdateTransactionsFromBlock, ControlInv, Phases, queuedTx
<1>2. /\ Resurrected = Range(vHashUpdate) /\ Resurrected' = Resurrected /\ Left = << >> /\ Left' = << >>
      /\ Unlinked = {vHashUpdate[i] : i \in 1..linkAt} /\ Unlinked' = {vHashUpdate[i] : i \in 1..linkAt'}
  BY Zenon, <1>1 DEF Resurrected, Unlinked, Returning, Left
<1>3. \A p \in Unlinked : p # t => p \in Unlinked'
  <2>1. ASSUME NEW i \in 1..linkAt, i # linkAt PROVE i \in 1..linkAt'
    <3>1. linkAt \in Nat
      BY Zenon DEF ControlInv, ControlTypes
    <3> QED
      BY <3>1, <1>1, <2>1
  <2> QED
    BY Zenon, <2>1, <1>2
<1>4. ASSUME NEW p \in pool, NEW c \in pool, Spends(c, p)
      PROVE  c \in children'[p] \/ (p \in Unlinked' /\ c \notin Resurrected)
  <2>1. c \in children[p] \/ (p \in Unlinked /\ c \notin Resurrected)
    BY Zenon, <1>4 DEF MinableInv, LinksInv
  <2>2. CASE t \notin pool /\ Kept
    BY Zenon, <2>1, <2>2, <1>3 DEF Kept
  <2>3. CASE Links(t)
    <3>1. p \in Tx /\ children \in [Tx -> SUBSET Tx]
      BY Zenon DEF EntriesInv, EntryTypes
    <3>2. children'[p] = IF p = t THEN children[p] \cup Kids(t) ELSE children[p]
      BY Zenon, <2>3, <3>1 DEF Links
    <3>3. Kids(t) = {k \in pool \ Range(vHashUpdate) : Spends(k, t)}
      BY Zenon, <2>3, EntriesLinked
    <3>4. CASE p = t
      BY Zenon, <3>2, <3>3, <3>4, <2>1, <1>2, <1>4
    <3>5. CASE p # t
      BY Zenon, <3>2, <3>5, <2>1, <1>3
    <3> QED
      BY Zenon, <3>4, <3>5
  <2> QED
    BY Zenon, <2>2, <2>3, LinkEffect
<1>5. LinksInv'
  BY Zenon, <1>1, <1>2, <1>4 DEF LinksInv, Spends
<1>6. ChainInv' /\ PendingInv' /\ ApartInv' /\ ReorgInv' /\ AvailInv'
  <2>1. pool' = pool \ {} /\ {} \cap Resurrected = {}
    BY Zenon, <1>1
  <2>2. \A p \in {}, c \in pool \ {} : Spends(c, p) => p \in Pending
    BY Zenon
  <2>3. Left' = Left /\ disconnectpool' \subseteq disconnectpool
    BY Zenon, <1>1, <1>2
  <2> QED
    BY Zenon, <2>1, <2>2, <2>3, <1>1, <1>2, ShrinkKeeps
<1>7. SettledInv'
  BY Zenon, <1>1 DEF SettledInv
<1> QED
  BY Zenon, <1>5, <1>6, <1>7 DEF MinableInv

LEMMA AllLinkedKeeps ==
  ASSUME EntriesInv, ControlInv, ControlInv', MinableInv, AllLinked
  PROVE  MinableInv'
<1>1. /\ pc = "link" /\ linkAt = 0 /\ pc' = "purge" /\ chain' = chain /\ disconnectpool' = disconnectpool
      /\ pool' = pool /\ children' = children /\ disconnectpool = {} /\ Left = << >> /\ Left' = << >>
  BY Zenon DEF AllLinked, ControlInv, Phases, queuedTx, entries, Left
<1>2. Resurrected' = {} /\ Unlinked' = {}
  BY Zenon, <1>1, NothingBack DEF Back, Returning
<1>3. Unlinked = {}
  <2>1. 1..0 = {}
    OBVIOUS
  <2> QED
    BY Zenon, <2>1, <1>1 DEF Unlinked
<1>4. LinksInv'
  BY Zenon, <1>1, <1>2, <1>3 DEF MinableInv, LinksInv, Spends
<1>5. ChainInv' /\ PendingInv' /\ ApartInv' /\ ReorgInv' /\ AvailInv'
  <2>1. pool' = pool \ {} /\ {} \cap Resurrected = {}
    BY Zenon, <1>1
  <2>2. \A p \in {}, c \in pool \ {} : Spends(c, p) => p \in Pending
    BY Zenon
  <2>3. Left' = Left /\ disconnectpool' \subseteq disconnectpool
    BY Zenon, <1>1
  <2> QED
    BY Zenon, <2>1, <2>2, <2>3, <1>1, <1>2, ShrinkKeeps
<1>6. SettledInv'
  BY Zenon, <1>1 DEF SettledInv
<1> QED
  BY Zenon, <1>4, <1>5, <1>6 DEF MinableInv

LEMMA PurgeKeeps ==
  ASSUME EntriesInv, ControlInv, ControlInv', MinableInv, RemoveForReorg
  PROVE  MinableInv'
<1>1. /\ pc = "purge" /\ pc' = "limit" /\ ret' = "idle" /\ chain' = chain
      /\ disconnectpool' = disconnectpool /\ Left' = Left /\ ~Back /\ ~Back'
  BY Zenon DEF RemoveForReorg, reorg, queuedTx, Left, Back, Returning
<1>2. PICK D : /\ Removes(D) /\ Closed(D)
               /\ \A t \in pool \ D : CheckFinalTx(t)
               /\ \A t \in pool \ D : SpendsCoinbase(t) =>
                     \A o \in Inputs[t] : o[1] \in pool \/ (o \in Utxo /\ ~Immature(o))
  BY Zenon, PurgeEffect
<1>3. ChainInv' /\ PendingInv' /\ ApartInv' /\ ReorgInv' /\ LinksInv' /\ AvailInv'
  BY Zenon, <1>1, <1>2, CutKeeps
<1>4. SettledInv'
  <2>1. pool' = pool \ D
    BY Zenon, <1>2 DEF Removes
  <2>2. ASSUME NEW t \in pool \ D, NEW o \in Inputs[t] PROVE ~Immature(o)
    BY Zenon, <1>2 DEF SpendsCoinbase, Immature, MinableInv, ApartInv
  <2>3. \A t \in pool : CheckFinalTx(t)' <=> CheckFinalTx(t)
    BY Zenon, <1>1 DEF CheckFinalTx
  <2>4. \A t \in pool : \A o \in Inputs[t] : Immature(o)' <=> Immature(o)
    BY Zenon, <1>1 DEF Immature, HeightOf
  <2> QED
    BY Zenon, <2>1, <2>2, <2>3, <2>4, <1>2 DEF SettledInv
<1> QED
  BY Zenon, <1>3, <1>4 DEF MinableInv

\* What a step that leaves the entries and the reorganization alone keeps.
Steady ==
  /\ Kept /\ UNCHANGED <<chain, disconnectpool, fBlocksDisconnected>> /\ Left' = Left
  /\ Resurrected' = Resurrected /\ Unlinked' = Unlinked /\ (pc = "purge" <=> pc' = "purge")

LEMMA SteadyKeeps ==
  ASSUME EntriesInv, MinableInv, Steady
  PROVE  MinableInv'
<1>1. ChainInv' /\ PendingInv' /\ ApartInv' /\ ReorgInv' /\ LinksInv' /\ AvailInv'
  BY Zenon, StayKeeps DEF Steady
<1>2. SettledInv'
  BY Zenon, SettledKeeps DEF Steady, Kept
<1> QED
  BY Zenon, <1>1, <1>2 DEF MinableInv

LEMMA TrimmingKeeps ==
  ASSUME EntriesInv, ControlInv, ControlInv', MinableInv, ~Back, ~Back', Left' = Left,
         UNCHANGED <<chain, disconnectpool, fBlocksDisconnected>>, pc # "purge",
         NEW D, Removes(D), Closed(D)
  PROVE  MinableInv'
<1>1. ChainInv' /\ PendingInv' /\ ApartInv' /\ ReorgInv' /\ LinksInv' /\ AvailInv'
  BY Zenon, CutKeeps
<1>2. SettledInv'
  BY Zenon, SettledKeeps DEF Removes
<1> QED
  BY Zenon, <1>1, <1>2 DEF MinableInv

LEMMA MinableStep ==
  ASSUME EntriesInv, ControlInv, MinableInv, ReorgFits, [Next]_vars
  PROVE  MinableInv'
<1> USE DEF reorg, queuedTx
<1>0. ControlInv'
  BY Zenon, ControlStep
<1>1. ASSUME NEW t \in Tx, AcceptToMemoryPool(t) PROVE MinableInv'
  BY Zenon, <1>0, <1>1, AddEffect, AcceptKeeps DEF AcceptToMemoryPool
<1>2. ASSUME NEW t \in Tx, NEW d \in Deltas, PrioritiseTransaction(t, d) PROVE MinableInv'
  <2>1. Kept /\ UNCHANGED <<chain, disconnectpool, fBlocksDisconnected, vHashUpdate, todo, pc, ret, linkAt>>
    BY Zenon, <1>2 DEF PrioritiseTransaction, Prioritise, Kept
  <2>2. Steady
    BY Zenon, <2>1 DEF Steady, Left, Resurrected, Unlinked, Returning
  <2> QED
    BY Zenon, <2>2, SteadyKeeps
<1>3. ASSUME Expire PROVE MinableInv'
  <2>1. /\ ~Back /\ ~Back' /\ Left' = Left /\ pc # "purge"
        /\ UNCHANGED <<chain, disconnectpool, fBlocksDisconnected>>
    BY Zenon, <1>3 DEF Expire, Back, Returning, Left, ReorgFits, ControlInv, Phases
  <2> QED
    BY Zenon, <1>0, <1>3, <2>1, ExpireEffect, TrimmingKeeps
<1>4. ASSUME TrimToSize PROVE MinableInv'
  <2>1. /\ ~Back /\ ~Back' /\ Left' = Left /\ pc # "purge"
        /\ UNCHANGED <<chain, disconnectpool, fBlocksDisconnected>>
    BY Zenon, <1>4 DEF TrimToSize, Back, Returning, Left, ReorgFits, ControlInv, Phases
  <2> QED
    BY Zenon, <1>0, <1>4, <2>1, TrimEffect, TrimmingKeeps
<1>5. ASSUME Trimmed PROVE MinableInv'
  <2>1. /\ Kept /\ UNCHANGED <<chain, disconnectpool, fBlocksDisconnected, vHashUpdate, todo, ret>>
        /\ pc = "trim" /\ pc' = ret /\ ret \in {"idle", "readded"}
    BY Zenon, <1>5 DEF Trimmed, entries, Kept, ControlInv, ControlTypes
  <2>2. Left' = Left /\ Resurrected' = Resurrected /\ Unlinked' = Unlinked
    BY Zenon, <2>1 DEF Left, Resurrected, Unlinked, Returning
  <2>3. Steady
    BY Zenon, <2>1, <2>2 DEF Steady
  <2> QED
    BY Zenon, <2>3, SteadyKeeps
<1>6. ASSUME DisconnectTip PROVE MinableInv'
  <2>1. ~Back /\ ~Back'
    BY Zenon, <1>6 DEF DisconnectTip, Back, Returning
  <2> QED
    BY Zenon, <1>0, <1>6, <2>1, NothingBack, DisconnectKeeps DEF MinableInv
<1>7. ASSUME NEW b \in Blocks, ConnectTip(b) PROVE MinableInv'
  <2>1. ~Back /\ ~Back'
    BY Zenon, <1>7 DEF ConnectTip, Back, Returning
  <2> QED
    BY Zenon, <1>0, <1>7, <2>1, NothingBack, ConnectKeeps DEF MinableInv
<1>8. ASSUME RemoveMined PROVE MinableInv'
  BY Zenon, <1>0, <1>8, MinedKeeps
<1>9. ASSUME RemoveConflicts PROVE MinableInv'
  <2>1. /\ ~Back /\ ~Back' /\ Left' = Left /\ pc # "purge"
        /\ UNCHANGED <<chain, disconnectpool, fBlocksDisconnected>>
    BY Zenon, <1>9 DEF RemoveConflicts, Back, Returning, Left, ReorgFits, ControlInv, Phases
  <2> QED
    BY Zenon, <1>0, <1>9, <2>1, ConflictEffect, TrimmingKeeps
<1>10. ASSUME ConflictsRemoved PROVE MinableInv'
  <2>1. /\ ~Back /\ ~Back' /\ pc # "purge" /\ pool' = pool
        /\ UNCHANGED <<chain, fBlocksDisconnected>>
    BY Zenon, <1>10 DEF ConflictsRemoved, Back, Returning, entries
  <2>2. ChainInv' /\ PendingInv' /\ ApartInv' /\ ReorgInv' /\ LinksInv' /\ AvailInv'
    BY Zenon, <1>0, <1>10, <2>1, NothingBack, ApplyKeeps
  <2>3. SettledInv'
    BY Zenon, <2>1, SettledKeeps
  <2> QED
    BY Zenon, <2>2, <2>3 DEF MinableInv
<1>11. ASSUME BlockConnected PROVE MinableInv'
  <2>1. /\ Kept /\ UNCHANGED <<chain, disconnectpool, fBlocksDisconnected>>
        /\ ~Back /\ ~Back' /\ Left = << >> /\ Left' = << >> /\ pc # "purge" /\ pc' # "purge"
    BY Zenon, <1>11 DEF BlockConnected, entries, Kept, Back, Returning, Left
  <2>2. Steady
    BY Zenon, <1>0, <2>1, NothingBack DEF Steady
  <2> QED
    BY Zenon, <2>2, SteadyKeeps
<1>12. ASSUME NEW fAdd \in BOOLEAN, UpdateMempoolForReorg(fAdd) PROVE MinableInv'
  <2>1. /\ Kept /\ UNCHANGED <<chain, disconnectpool, fBlocksDisconnected>>
        /\ ~Back /\ Left = << >> /\ Left' = << >> /\ pc = "reorg" /\ pc' = "readd" /\ vHashUpdate' = << >>
    BY Zenon, <1>12 DEF UpdateMempoolForReorg, entries, Kept, Back, Returning, Left
  <2>2. Range(<< >>) = {}
    BY DEF Range
  <2>3. Resurrected' = {} /\ Unlinked' = {} /\ Resurrected = {} /\ Unlinked = {}
    BY Zenon, <1>0, <2>1, <2>2, NothingBack DEF Resurrected, Unlinked, Returning
  <2>4. Steady
    BY Zenon, <2>1, <2>3 DEF Steady
  <2> QED
    BY Zenon, <2>4, SteadyKeeps
<1>13. ASSUME ReAdd PROVE MinableInv'
  BY Zenon, <1>0, <1>13, ReAddKeeps
<1>14. ASSUME ReAdded PROVE MinableInv'
  BY Zenon, <1>0, <1>14, ReAddedKeeps
<1>15. ASSUME AllReAdded PROVE MinableInv'
  <2>1. /\ Kept /\ UNCHANGED <<chain, disconnectpool, fBlocksDisconnected, vHashUpdate>>
        /\ pc = "readd" /\ pc' = "link" /\ linkAt' = Len(vHashUpdate) /\ Left = << >> /\ Left' = << >>
    BY Zenon, <1>15 DEF AllReAdded, entries, Kept, Left
  <2>2. {vHashUpdate[k] : k \in 1..Len(vHashUpdate)} = Range(vHashUpdate)
    <3>1. DOMAIN vHashUpdate = 1..Len(vHashUpdate)
      BY DEF ControlInv, ControlTypes
    <3> QED
      BY Zenon, <3>1 DEF Range
  <2>3. Resurrected' = Resurrected /\ Unlinked' = Unlinked
    BY Zenon, <2>1, <2>2 DEF Resurrected, Unlinked, Returning
  <2>4. Steady
    BY Zenon, <2>1, <2>3 DEF Steady
  <2> QED
    BY Zenon, <2>4, SteadyKeeps
<1>16. ASSUME UpdateTransactionsFromBlock PROVE MinableInv'
  BY Zenon, <1>0, <1>16, LinkKeeps
<1>17. ASSUME AllLinked PROVE MinableInv'
  BY Zenon, <1>0, <1>17, AllLinkedKeeps
<1>18. ASSUME RemoveForReorg PROVE MinableInv'
  BY Zenon, <1>0, <1>18, PurgeKeeps
<1>19. ASSUME NEW crash \in BOOLEAN, Restart(crash) PROVE MinableInv'
  <2>1. /\ ~Back /\ ~Back' /\ Left' = Left /\ pc # "purge"
        /\ UNCHANGED <<chain, disconnectpool, fBlocksDisconnected>>
    BY Zenon, <1>19 DEF Restart, Back, Returning, Left
  <2>2. Closed(pool)
    BY Zenon DEF Closed, EntriesInv, EntryTypes, LinksAgree
  <2> QED
    BY Zenon, <1>0, <1>19, <2>1, <2>2, RestartEffect, TrimmingKeeps
<1>20. ASSUME LoadDelta PROVE MinableInv'
  <2>1. Kept /\ UNCHANGED <<chain, disconnectpool, fBlocksDisconnected, vHashUpdate, todo, pc, ret, linkAt>>
    BY Zenon, <1>20 DEF LoadDelta, Prioritise, Kept
  <2>2. Steady
    BY Zenon, <2>1 DEF Steady, Left, Resurrected, Unlinked, Returning
  <2> QED
    BY Zenon, <2>2, SteadyKeeps
<1>21. ASSUME LoadEntry PROVE MinableInv'
  <2>1. pc = "idle" /\ UNCHANGED <<chain, disconnectpool, fBlocksDisconnected, vHashUpdate, todo, linkAt>>
    BY Zenon, <1>21 DEF LoadEntry
  <2>2. ASSUME NEW t \in Tx, Adds(t), pc' = "limit" PROVE MinableInv'
    BY Zenon, <1>0, <2>1, <2>2, AcceptKeeps
  <2>3. CASE Kept /\ UNCHANGED <<pc, ret>>
    <3>1. Steady
      BY Zenon, <2>1, <2>3 DEF Steady, Left, Resurrected, Unlinked, Returning
    <3> QED
      BY Zenon, <3>1, SteadyKeeps
  <2> QED
    BY Zenon, <1>21, <2>2, <2>3, LoadEffect
<1>22. ASSUME LoadRest PROVE MinableInv'
  <2>1. Kept /\ UNCHANGED <<chain, disconnectpool, fBlocksDisconnected, vHashUpdate, todo, pc, ret, linkAt>>
    BY Zenon, <1>22 DEF LoadRest, Prioritise, Kept
  <2>2. Steady
    BY Zenon, <2>1 DEF Steady, Left, Resurrected, Unlinked, Returning
  <2> QED
    BY Zenon, <2>2, SteadyKeeps
<1>23. ASSUME SetIsLoaded PROVE MinableInv'
  <2>1. Kept /\ UNCHANGED <<chain, disconnectpool, fBlocksDisconnected, vHashUpdate, todo, pc, ret, linkAt>>
    BY Zenon, <1>23 DEF SetIsLoaded, entries, Kept
  <2>2. Steady
    BY Zenon, <2>1 DEF Steady, Left, Resurrected, Unlinked, Returning
  <2> QED
    BY Zenon, <2>2, SteadyKeeps
<1>24. ASSUME Tick PROVE MinableInv'
  <2>1. Kept /\ UNCHANGED <<chain, disconnectpool, fBlocksDisconnected, vHashUpdate, todo, pc, ret, linkAt>>
    BY Zenon, <1>24 DEF Tick, entries, Kept
  <2>2. Steady
    BY Zenon, <2>1 DEF Steady, Left, Resurrected, Unlinked, Returning
  <2> QED
    BY Zenon, <2>2, SteadyKeeps
<1>25. CASE UNCHANGED vars
  <2>1. Kept /\ UNCHANGED <<chain, disconnectpool, fBlocksDisconnected, vHashUpdate, todo, pc, ret, linkAt>>
    BY Zenon, <1>25 DEF vars, entries, Kept
  <2>2. Steady
    BY Zenon, <2>1 DEF Steady, Left, Resurrected, Unlinked, Returning
  <2> QED
    BY Zenon, <2>2, SteadyKeeps
<1> QED
  BY Zenon, <1>1, <1>2, <1>3, <1>4, <1>5, <1>6, <1>7, <1>8, <1>9, <1>10, <1>11, <1>12, <1>13, <1>14, <1>15, <1>16, <1>17, <1>18, <1>19, <1>20, <1>21, <1>22, <1>23, <1>24, <1>25 DEF Next

LEMMA InitMinable ==
  ASSUME Init
  PROVE  MinableInv
<1>1. /\ chain = << >> /\ pool = {} /\ disconnectpool = {} /\ Left = << >> /\ vHashUpdate = << >>
      /\ ~Returning /\ pc # "link"
  BY Zenon DEF Init, Left, Returning
<1>2. Range(<< >>) = {} /\ DOMAIN << >> = {}
  BY DEF Range
<1>3. ChainInv
  BY <1>1, <1>2 DEF ChainInv
<1>4. Confirmed = {}
  BY <1>1, <1>2 DEF Confirmed
<1>5. Resurrected = {} /\ Unlinked = {}
  BY Zenon, <1>1, <1>2 DEF Resurrected, Unlinked
<1>6. PendingInv
  BY <1>1, <1>2, <1>4 DEF PendingInv, Pending, Applied
<1>7. ApartInv /\ ReorgInv /\ LinksInv /\ AvailInv /\ SettledInv
  BY Zenon, <1>1, <1>5 DEF ApartInv, ReorgInv, LinksInv, AvailInv, SettledInv
<1> QED
  BY Zenon, <1>3, <1>6, <1>7 DEF MinableInv

LEMMA MinableWhenIdle ==
  ASSUME EntriesInv, ControlInv, MinableInv, pc = "idle"
  PROVE  PoolIsMinable /\ LinksExact
<1>1. ~fBlocksDisconnected /\ disconnectpool = {} /\ Left = << >> /\ pool \subseteq Tx
  BY Zenon DEF ControlInv, Phases, Left, EntriesInv, EntryTypes
<1>2. Range(<< >>) = {}
  BY DEF Range
<1>3. Applied = Confirmed
  BY Zenon, <1>1, <1>2 DEF Applied, Pending
<1>4. Unlinked = {}
  <2>1. vHashUpdate = << >> /\ ~Returning
    BY Zenon DEF ControlInv, Phases, Returning
  <2> QED
    BY Zenon, <2>1, <1>2 DEF Unlinked, Resurrected
<1>5. PoolIsMinable
  <2> SUFFICES ASSUME NEW t \in pool
               PROVE  /\ \A o \in Inputs[t] : o[1] \in pool \/ (o \in Utxo /\ ~Immature(o))
                      /\ HaveShieldedRequirements(t) /\ CheckFinalTx(t)
    BY Zenon DEF PoolIsMinable
  <2>1. CheckFinalTx(t) /\ \A o \in Inputs[t] : ~Immature(o)
    BY Zenon, <1>1 DEF MinableInv, SettledInv
  <2>2. /\ \A o \in Inputs[t] : \/ o[1] \in pool
                                \/ o[1] \in Coin \cup Confirmed /\ \A u \in Confirmed : o \notin Inputs[u]
        /\ Nullifiers[t] # {} => Anchor[t] \in Anchors
        /\ \A u \in Confirmed : Nullifiers[t] \cap Nullifiers[u] = {}
    BY Zenon, <1>1, <1>3 DEF MinableInv, AvailInv
  <2>3. \A o \in Inputs[t] : o \in Outpoint
    BY Zenon, <1>1, MempoolAssumption DEF MempoolAssumption
  <2>4. ASSUME NEW o \in Inputs[t], o[1] \notin pool PROVE o \in Utxo
    BY Zenon, <2>2, <2>3, <2>4 DEF Utxo, Outputs, Spent
  <2>5. Nullifiers[t] \cap SpentNullifiers = {}
    BY Zenon, <2>2 DEF SpentNullifiers
  <2> QED
    BY Zenon, <2>1, <2>2, <2>4, <2>5 DEF HaveShieldedRequirements
<1>6. \A x, y \in Tx : y \in children[x] <=> x \in pool /\ y \in pool /\ Spends(y, x)
  BY Zenon, <1>4 DEF MinableInv, LinksInv, EntriesInv, LinksAgree
<1>7. parents = TrueParents
  <2>1. ASSUME NEW x \in Tx PROVE parents[x] = TrueParents[x]
    <3>1. \A y \in Tx : y \in parents[x] <=> x \in children[y]
      BY Zenon DEF EntriesInv, LinksAgree
    <3>2. TrueParents[x] = IF x \in pool THEN {p \in pool : Spends(x, p)} ELSE {}
      BY Zenon DEF TrueParents, MemPoolParents, Spends
    <3>3. parents[x] \subseteq Tx /\ TrueParents[x] \subseteq Tx
      BY Zenon, <3>2, <1>1 DEF EntriesInv, EntryTypes
    <3>4. \A y \in Tx : y \in TrueParents[x] <=> x \in pool /\ y \in pool /\ Spends(x, y)
      BY Zenon, <3>2
    <3> QED
      BY Zenon, <3>1, <3>3, <3>4, <1>6
  <2>2. parents \in [Tx -> SUBSET Tx] /\ DOMAIN TrueParents = Tx
    BY Zenon DEF EntriesInv, EntryTypes, TrueParents
  <2>3. TrueParents = [x \in Tx |-> TrueParents[x]]
    BY Zenon DEF TrueParents
  <2> QED
    BY Zenon, <2>1, <2>2, <2>3
<1>8. children = TrueChildren
  <2>1. ASSUME NEW x \in Tx PROVE children[x] = TrueChildren[x]
    <3>1. TrueChildren[x] = {c \in pool : x \in parents[c]}
      BY Zenon, <1>7 DEF TrueChildren
    <3>2. \A y \in Tx : y \in children[x] <=> x \in parents[y]
      BY Zenon DEF EntriesInv, LinksAgree
    <3>3. children[x] \subseteq pool
      BY Zenon, <1>6 DEF EntriesInv, EntryTypes
    <3> QED
      BY Zenon, <3>1, <3>2, <3>3, <1>1
  <2>2. children \in [Tx -> SUBSET Tx]
    BY Zenon DEF EntriesInv, EntryTypes
  <2>3. TrueChildren = [x \in Tx |-> TrueChildren[x]]
    BY Zenon DEF TrueChildren
  <2> QED
    BY Zenon, <2>1, <2>2, <2>3
<1> QED
  BY Zenon, <1>5, <1>7, <1>8 DEF LinksExact

(* Every pool transaction can be mined after those it depends on whenever  *)
(* the locks are free, however blocks, reorganizations, arrivals, expiry   *)
(* and restarts interleave, if trimming never has to evict while the       *)
(* transactions of disconnected blocks are put back.                       *)
THEOREM PoolStaysMinable == Spec /\ []ReorgFits => []PoolIsMinable
<1>1. Init => EntriesInv /\ ControlInv /\ MinableInv
  BY Zenon, InitControl, InitMinable
<1>2. EntriesInv /\ ControlInv /\ MinableInv /\ ReorgFits /\ [Next]_vars
        => (EntriesInv /\ ControlInv /\ MinableInv)'
  BY Zenon, EntriesStep, ControlStep, MinableStep
<1>3. EntriesInv /\ ControlInv /\ MinableInv => PoolIsMinable
  <2>1. CASE pc # "idle"
    BY Zenon, <2>1 DEF PoolIsMinable
  <2> QED
    BY Zenon, <2>1, MinableWhenIdle
<1> QED
  BY <1>1, <1>2, <1>3, PTL DEF Spec

(* Whenever the locks are free mapLinks holds exactly the spends between   *)
(* pool transactions, on both sides, also after a reorganization put       *)
(* parents back under children that had stayed: what SumsExact says of     *)
(* the links, under the same condition.                                    *)
THEOREM LinksStayExact == Spec /\ []ReorgFits => [](pc = "idle" => LinksExact)
<1>1. Init => EntriesInv /\ ControlInv /\ MinableInv
  BY Zenon, InitControl, InitMinable
<1>2. EntriesInv /\ ControlInv /\ MinableInv /\ ReorgFits /\ [Next]_vars
        => (EntriesInv /\ ControlInv /\ MinableInv)'
  BY Zenon, EntriesStep, ControlStep, MinableStep
<1>3. EntriesInv /\ ControlInv /\ MinableInv => (pc = "idle" => LinksExact)
  BY Zenon, MinableWhenIdle
<1> QED
  BY <1>1, <1>2, <1>3, PTL DEF Spec

-----------------------------------------------------------------------------
(* Which operation a step is, in which order transactions come back, and  *)
(* the fee deltas.                                                         *)

\* Nothing was put back, so that there is nothing to order.
LEMMA NothingPutBack ==
  ASSUME vHashUpdate' = << >>, ~Returning', pc' # "link"
  PROVE  OrderInv' /\ KidsInv'
<1>1. DOMAIN << >> = {} /\ Range(<< >>) = {}
  BY DEF Range
<1>2. OrderInv'
  BY Zenon, <1>1 DEF OrderInv
<1>3. KidsInv'
  BY Zenon, <1>1 DEF KidsInv, Resurrected
<1> QED
  BY Zenon, <1>2, <1>3

\* That is so outside the steps that put transactions back.
LEMMA NotBack ==
  ASSUME ControlInv', ~Back'
  PROVE  OrderInv' /\ KidsInv'
<1>1. vHashUpdate' = << >> /\ ~Returning' /\ pc' # "link"
  BY Zenon DEF ControlInv, Phases, Back
<1> QED
  BY Zenon, <1>1, NothingPutBack

\* Nor does the order change when nothing is put back.
LEMMA OrderSame ==
  ASSUME OrderInv, vHashUpdate' = vHashUpdate,
         Returning' => Returning /\ todo' = todo
  PROVE  OrderInv'
<1>1. /\ \A i, j \in DOMAIN vHashUpdate' : vHashUpdate'[i] = vHashUpdate'[j] => i = j
      /\ \A i, j \in DOMAIN vHashUpdate' : Spends(vHashUpdate'[j], vHashUpdate'[i]) => i < j
  BY DEF OrderInv
<1>2. Returning' => /\ Head(todo') \notin Range(vHashUpdate')
                    /\ \A u \in Resurrected' : ~Spends(u, Head(todo'))
  BY Zenon DEF OrderInv, Resurrected
<1> QED
  BY Zenon, <1>1, <1>2 DEF OrderInv, Spends

\* The next transaction that comes back may spend from the ones before it.
LEMMA OrderAppend ==
  ASSUME NEW q \in Seq(Tx), NEW x \in Tx, x \notin Range(q),
         \A i, j \in DOMAIN q : q[i] = q[j] => i = j,
         \A i, j \in DOMAIN q : Spends(q[j], q[i]) => i < j,
         \A u \in Range(q) \cup {x} : ~Spends(u, x)
  PROVE  /\ \A i, j \in DOMAIN Append(q, x) : Append(q, x)[i] = Append(q, x)[j] => i = j
         /\ \A i, j \in DOMAIN Append(q, x) : Spends(Append(q, x)[j], Append(q, x)[i]) => i < j
<1>1. PICK r, n : r = Append(q, x) /\ n = Len(q) + 1
  BY Zenon
<1>2. /\ DOMAIN r = 1..n /\ DOMAIN q = 1..(n - 1) /\ n \in Nat /\ r[n] = x
      /\ \A i \in 1..(n - 1) : r[i] = q[i]
  BY <1>1
<1>3. \A i \in DOMAIN r : i \in DOMAIN q \/ i = n
  BY <1>2
<1>4. \A i \in DOMAIN q : i < n /\ r[i] = q[i] /\ q[i] \in Range(q)
  BY <1>2 DEF Range
<1>5. ASSUME NEW i \in DOMAIN r, NEW j \in DOMAIN r
      PROVE  /\ r[i] = r[j] => i = j
             /\ Spends(r[j], r[i]) => i < j
  <2>1. CASE i \in DOMAIN q /\ j \in DOMAIN q
    BY Zenon, <2>1, <1>4
  <2>2. CASE i = n /\ j \in DOMAIN q
    BY Zenon, <2>2, <1>2, <1>4
  <2>3. CASE i \in DOMAIN q /\ j = n
    BY Zenon, <2>3, <1>2, <1>4
  <2>4. CASE i = n /\ j = n
    BY Zenon, <2>4, <1>2
  <2> QED
    BY Zenon, <2>1, <2>2, <2>3, <2>4, <1>3
<1> QED
  BY Zenon, <1>1, <1>5

\* What comes back next is spent by nothing that came back before.
LEMMA OrderReAdd ==
  ASSUME EntriesInv, ControlInv, MinableInv, OrderInv, KidsInv, pc = "readd", NEW t \in disconnectpool,
         Adds(t), vHashUpdate' = vHashUpdate, pc' = "trim", ret' = "readded", todo' = <<t>>
  PROVE  OrderInv' /\ KidsInv'
<1>1. PICK R : R = Resurrected
  BY Zenon
<1>2. Head(todo') = t
  OBVIOUS
<1>3. Returning' /\ Resurrected' = R \cup {t} /\ R = Range(vHashUpdate)
  BY Zenon, <1>1, <1>2 DEF Resurrected, Returning
<1>4. /\ t \in Tx /\ t \notin pool /\ t \notin Confirmed /\ t \notin Coin
      /\ R \subseteq pool /\ pool \subseteq Tx
  BY Zenon, <1>1, MempoolAssumption
     DEF MempoolAssumption, MinableInv, ApartInv, ReorgInv, ControlInv, ControlTypes, EntriesInv, EntryTypes
<1>5. \A u \in R : ~Spends(u, t)
  <2> SUFFICES ASSUME NEW u \in R, NEW o \in Inputs[u], o[1] = t PROVE FALSE
    BY Zenon DEF Spends
  <2>1. o[1] \in R \cup Coin \cup Confirmed
    BY Zenon, <1>1 DEF MinableInv, ReorgInv
  <2> QED
    BY Zenon, <2>1, <1>4
<1>6. ~Spends(t, t)
  <2> SUFFICES ASSUME NEW o \in Inputs[t], o[1] = t PROVE FALSE
    BY Zenon DEF Spends
  <2>1. o \in Utxo
    BY Zenon, <1>4 DEF Adds, Acceptable
  <2> QED
    BY Zenon, <2>1, <1>4 DEF Utxo, Outputs
<1>7. OrderInv'
  <2>1. /\ \A i, j \in DOMAIN vHashUpdate' : vHashUpdate'[i] = vHashUpdate'[j] => i = j
        /\ \A i, j \in DOMAIN vHashUpdate' : Spends(vHashUpdate'[j], vHashUpdate'[i]) => i < j
    BY DEF OrderInv
  <2>2. Head(todo') \notin Range(vHashUpdate') /\ \A u \in Resurrected' : ~Spends(u, Head(todo'))
    BY Zenon, <1>2, <1>3, <1>4, <1>5, <1>6
  <2> QED
    BY Zenon, <2>1, <2>2 DEF OrderInv, Spends
<1>8. KidsInv'
  <2> SUFFICES ASSUME NEW x \in R \cup {t} PROVE children'[x] \subseteq R \cup {t}
    BY Zenon, <1>3 DEF KidsInv
  <2>1. x \in Tx /\ children'[x] \subseteq children[x] \cup {t}
    BY Zenon, <1>4 DEF Adds
  <2>2. CASE x \in R
    BY Zenon, <2>1, <2>2, <1>1 DEF KidsInv
  <2>3. CASE x = t
    <3>1. children[t] = {}
      <4>1. children[t] \subseteq Tx
        BY Zenon, <1>4 DEF EntriesInv, EntryTypes
      <4> QED
        BY Zenon, <4>1, <1>4 DEF EntriesInv, LinksAgree
    <3> QED
      BY Zenon, <3>1, <2>1, <2>3
  <2> QED
    BY Zenon, <2>2, <2>3
<1> QED
  BY Zenon, <1>7, <1>8

\* A mined entry has no parents left in the pool.
LEMMA MinedHasNoParents ==
  ASSUME EntriesInv, ControlInv, MinableInv, RemoveMined, Head(todo) \in pool
  PROVE  parents[Head(todo)] = {}
<1>1. PICK h : h = Head(todo)
  BY Zenon
<1>2. pc = "block" /\ todo # << >> /\ Left = todo /\ todo \in Seq(Tx)
  BY Zenon DEF RemoveMined, Left, ControlInv, ControlTypes
<1>3. 1 \in DOMAIN todo /\ todo[1] = h /\ \A j \in DOMAIN todo : 1 <= j
  BY <1>1, <1>2
<1>4. h \in pool /\ h \in Tx /\ h \in Pending /\ pool \subseteq Tx
  BY Zenon, <1>1, <1>2, HeadOfTodo DEF Pending, EntriesInv, EntryTypes
<1>5. ASSUME NEW p \in parents[h] PROVE FALSE
  <2>1. p \in Tx
    BY Zenon, <1>4 DEF EntriesInv, EntryTypes
  <2>2. p \in pool /\ Spends(h, p)
    BY Zenon, <2>1, <1>4 DEF EntriesInv, LinksAgree
  <2>3. PICK o \in Inputs[h] : o[1] = p
    BY Zenon, <2>2 DEF Spends
  <2>4. p \in Coin \cup Confirmed
    <3>1. h \in Confirmed /\ ChainInv
      BY Zenon, <1>4 DEF MinableInv, PendingInv
    <3> QED
      BY Zenon, <3>1, <2>3, ConfirmedTypes
  <2>5. p \notin Coin
    BY Zenon, <2>1, MempoolAssumption DEF MempoolAssumption
  <2>6. p \in Pending
    BY Zenon, <2>2, <2>4, <2>5 DEF MinableInv, ApartInv, Applied
  <2>7. PICK j \in DOMAIN todo : todo[j] = p
    BY Zenon, <2>6, <1>2 DEF Pending, Range
  <2> QED
    BY Zenon, <2>3, <2>7, <1>2, <1>3 DEF MinableInv, PendingInv
<1>6. \A p : p \notin parents[h]
  BY Zenon, <1>5
<1> QED
  BY Zenon, <1>1, <1>6

\* mapDeltas and the entries agree when entries go, come or are given a delta.
LEMMA DeltasRemoved ==
  ASSUME EntriesInv, DeltasInv, NEW D, NEW u, RemoveStaged(D, u),
         UNCHANGED file, mapDeltas' \in [Tx -> Int], \A x \in pool \ D : mapDeltas'[x] = mapDeltas[x]
  PROVE  DeltasInv'
<1>1. pool' = pool \ D /\ \A x \in pool' : feeDelta'[x] = feeDelta[x]
  <2>1. pool \subseteq Tx
    BY Zenon DEF EntriesInv, EntryTypes
  <2> QED
    BY Zenon, <2>1 DEF RemoveStaged
<1>2. feeDelta' \in [Tx -> Int]
  BY DEF RemoveStaged, DeltasInv
<1> QED
  BY Zenon, <1>1, <1>2 DEF DeltasInv

LEMMA DeltasAdded ==
  ASSUME EntriesInv, DeltasInv, NEW t \in Tx, NEW nTime, addUnchecked(t, nTime),
         UNCHANGED <<file, mapDeltas>>
  PROVE  DeltasInv'
<1>1. pool' = pool \cup {t} /\ feeDelta' = [feeDelta EXCEPT ![t] = mapDeltas[t]] /\ pool \subseteq Tx
  BY Zenon DEF addUnchecked, EntriesInv, EntryTypes
<1>2. \A x \in pool' : feeDelta'[x] = mapDeltas[x]
  BY Zenon, <1>1 DEF DeltasInv
<1>3. feeDelta' \in [Tx -> Int]
  BY <1>1 DEF DeltasInv
<1> QED
  BY Zenon, <1>2, <1>3 DEF DeltasInv

LEMMA DeltasPrioritised ==
  ASSUME EntriesInv, DeltasInv, NEW t \in Tx, NEW k \in Int, Prioritise(t, k),
         UNCHANGED file
  PROVE  DeltasInv'
<1>1. mapDeltas \in [Tx -> Int] /\ pool \subseteq Tx /\ pool' = pool
  BY Zenon DEF DeltasInv, EntriesInv, EntryTypes, Prioritise
<1>2. mapDeltas' = [mapDeltas EXCEPT ![t] = mapDeltas[t] + k]
  BY Zenon DEF Prioritise
<1>3. mapDeltas' \in [Tx -> Int] /\ \A x \in Tx \ {t} : mapDeltas'[x] = mapDeltas[x]
  BY <1>1, <1>2
<1>4. ASSUME NEW x \in pool PROVE feeDelta'[x] = mapDeltas'[x]
  <2>1. feeDelta' = IF t \in pool THEN [feeDelta EXCEPT ![t] = mapDeltas'[t]] ELSE feeDelta
    BY Zenon DEF Prioritise
  <2>2. feeDelta[x] = mapDeltas[x] /\ x \in Tx /\ feeDelta \in [Tx -> Int]
    BY Zenon, <1>1 DEF DeltasInv
  <2>3. CASE x = t
    BY Zenon, <2>1, <2>2, <2>3
  <2>4. CASE x # t
    BY Zenon, <2>1, <2>2, <2>4, <1>3
  <2> QED
    BY Zenon, <2>3, <2>4
<1>5. feeDelta' \in [Tx -> Int]
  <2>1. feeDelta' = IF t \in pool THEN [feeDelta EXCEPT ![t] = mapDeltas'[t]] ELSE feeDelta
    BY Zenon DEF Prioritise
  <2>2. PICK f, v : f = feeDelta /\ v = mapDeltas'[t]
    BY Zenon
  <2>3. f \in [Tx -> Int] /\ v \in Int
    BY Zenon, <1>3, <2>2 DEF DeltasInv
  <2>4. [f EXCEPT ![t] = v] \in [Tx -> Int]
    BY <2>3
  <2> QED
    BY Zenon, <2>1, <2>2, <2>3, <2>4
<1> QED
  BY Zenon, <1>1, <1>3, <1>4, <1>5 DEF DeltasInv

LEMMA DeltasKept ==
  ASSUME DeltasInv, UNCHANGED <<entries, mapDeltas, file>>
  PROVE  DeltasInv'
BY Zenon DEF DeltasInv, entries

\* Where nothing is being put back the deltas are all there is to show.
LEMMA BackSettled ==
  ASSUME ControlInv', ~Back', DeltasInv'
  PROVE  BackInv'
BY Zenon, NotBack DEF BackInv

\* The entries stay as they are.
LEMMA BackSteady ==
  ASSUME ControlInv', BackInv, ~Back', UNCHANGED <<entries, mapDeltas, file>>
  PROVE  BackInv' /\ OneOperation
<1>1. DeltasInv'
  BY Zenon, DeltasKept DEF BackInv
<1>2. OneOperation
  BY Zenon DEF OneOperation
<1> QED
  BY Zenon, <1>1, <1>2, BackSettled

\* Entries leave with their descendants.
LEMMA BackCut ==
  ASSUME EntriesInv, ControlInv', BackInv, ~Back', NEW D, Closed(D), RemoveStaged(D, FALSE),
         UNCHANGED <<file, mapDeltas>>
  PROVE  BackInv' /\ OneOperation
<1>1. /\ DeltasInv /\ UNCHANGED file /\ mapDeltas' \in [Tx -> Int]
      /\ \A x \in pool \ D : mapDeltas'[x] = mapDeltas[x]
  BY Zenon DEF BackInv, DeltasInv
<1>2. DeltasInv'
  BY Zenon, <1>1, DeltasRemoved
<1>3. OneOperation
  BY Zenon DEF OneOperation
<1> QED
  BY Zenon, <1>2, <1>3, BackSettled

\* A transaction is accepted, from the network or from the file.
LEMMA BackAccept ==
  ASSUME EntriesInv, ControlInv', BackInv, pc' = "limit", NEW t \in Tx,
         Acceptable(t), NEW nTime, addUnchecked(t, nTime), UNCHANGED <<file, mapDeltas>>
  PROVE  BackInv' /\ OneOperation
<1>1. t \notin pool /\ ~Back' /\ DeltasInv
  BY Zenon DEF Acceptable, Back, Returning, BackInv
<1>2. DeltasInv'
  BY Zenon, <1>1, DeltasAdded
<1>3. OneOperation
  BY Zenon, <1>1 DEF OneOperation
<1> QED
  BY Zenon, <1>1, <1>2, <1>3, BackSettled

\* A transaction is given a fee delta.
LEMMA BackDelta ==
  ASSUME EntriesInv, ControlInv', BackInv, pc' = "idle", NEW t \in Tx, NEW k \in Int,
         Prioritise(t, k), UNCHANGED file
  PROVE  BackInv' /\ OneOperation
<1>1. DeltasInv'
  BY Zenon, DeltasPrioritised DEF BackInv
<1>2. OneOperation
  BY Zenon DEF OneOperation
<1>3. ~Back'
  BY Zenon DEF Back, Returning
<1> QED
  BY Zenon, <1>1, <1>2, <1>3, BackSettled

\* What removals remove is closed.
LEMMA DescendantsClosed ==
  ASSUME EntriesInv, NEW S, S \subseteq pool
  PROVE  Closed(CalculateDescendants(S))
<1>1. S \in SUBSET pool
  BY Zenon
<1> QED
  BY <1>1, DescendantsLemma DEF Closed

LEMMA RecursiveClosed ==
  ASSUME EntriesInv, NEW t \in Tx
  PROVE  Closed(Recursive(t)) /\ (t \in pool => t \in Recursive(t))
BY Zenon, RecursiveLemma DEF Closed

\* The steps that only remove.
LEMMA BackLimit ==
  ASSUME EntriesInv, ControlInv, ControlInv', BackInv, ReorgFits,
         Expire \/ TrimToSize \/ DisconnectTip \/ RemoveForReorg
  PROVE  BackInv' /\ OneOperation
<1>1. UNCHANGED <<file, mapDeltas>> /\ ~Back'
  BY Zenon DEF Expire, TrimToSize, DisconnectTip, RemoveForReorg, disk, Back, Returning, ReorgFits,
     ControlInv, Phases
<1>2. CASE Expire
  <2>1. PICK S : S = {t \in pool : time[t] < now - Expiry}
    BY Zenon
  <2>2. RemoveStaged(CalculateDescendants(S), FALSE) /\ Closed(CalculateDescendants(S))
    BY Zenon, <1>2, <2>1, DescendantsClosed DEF Expire
  <2> QED
    BY Zenon, <1>1, <2>2, BackCut
<1>3. CASE TrimToSize
  <2>1. PICK t \in pool : RemoveStaged(CalculateDescendants({t}), FALSE)
    BY Zenon, <1>3 DEF TrimToSize
  <2>2. Closed(CalculateDescendants({t}))
    BY Zenon, DescendantsClosed
  <2> QED
    BY Zenon, <1>1, <2>1, <2>2, BackCut
<1>4. CASE DisconnectTip
  <2>1. RemoveStaged(Orphaned, FALSE) /\ Closed(Orphaned)
    BY Zenon, <1>4, DisconnectEffect
  <2> QED
    BY Zenon, <1>1, <2>1, BackCut
<1>5. CASE RemoveForReorg
  <2>1. PICK S : S = {t \in pool :
            \/ ~CheckFinalTx(t)
            \/ /\ SpendsCoinbase(t)
               /\ \E o \in Inputs[t] : o[1] \notin pool /\ (o \notin Utxo \/ Immature(o))}
    BY Zenon
  <2>2. RemoveStaged(CalculateDescendants(S), FALSE)
    BY Zenon, <1>5, <2>1 DEF RemoveForReorg
  <2>3. Closed(CalculateDescendants(S))
    BY Zenon, <2>1, DescendantsClosed
  <2> QED
    BY Zenon, <1>1, <2>2, <2>3, BackCut
<1> QED
  BY Zenon, <1>2, <1>3, <1>4, <1>5

\* removeConflicts clears the delta of what it removes.
LEMMA BackConflict ==
  ASSUME EntriesInv, ControlInv, ControlInv', BackInv, RemoveConflicts
  PROVE  BackInv' /\ OneOperation
<1>1. pc = "conflict" /\ Head(todo) \in Tx
  BY Zenon, HeadOfTodo DEF RemoveConflicts, ControlInv, Phases
<1>2. PICK t \in Conflicts(Head(todo)) :
        RemoveStaged(Recursive(t), FALSE) /\ mapDeltas' = [mapDeltas EXCEPT ![t] = 0]
  BY Zenon DEF RemoveConflicts
<1>3. t \in pool /\ t \in Tx
  BY Zenon, <1>1, <1>2, ConflictsLemma DEF EntriesInv, EntryTypes
<1>4. Closed(Recursive(t)) /\ t \in Recursive(t)
  BY Zenon, <1>3, RecursiveClosed
<1>5. UNCHANGED file /\ ~Back' /\ DeltasInv /\ mapDeltas \in [Tx -> Int] /\ pool \subseteq Tx
  BY Zenon DEF RemoveConflicts, disk, Back, Returning, BackInv, DeltasInv, EntriesInv, EntryTypes
<1>6. mapDeltas' \in [Tx -> Int] /\ \A x \in Tx : x # t => mapDeltas'[x] = mapDeltas[x]
  BY <1>2, <1>3, <1>5
<1>7. \A x \in pool \ Recursive(t) : mapDeltas'[x] = mapDeltas[x]
  BY Zenon, <1>4, <1>5, <1>6
<1>8. DeltasInv'
  BY Zenon, <1>2, <1>5, <1>6, <1>7, DeltasRemoved
<1>9. OneOperation
  BY Zenon, <1>2, <1>4 DEF OneOperation
<1> QED
  BY Zenon, <1>5, <1>8, <1>9, BackSettled

\* removeForBlock, the transaction itself and then the end of its conflicts.
LEMMA BackMined ==
  ASSUME EntriesInv, ControlInv, ControlInv', MinableInv, BackInv, RemoveMined
  PROVE  BackInv' /\ OneOperation
<1>1. PICK D : D = pool \cap {Head(todo)}
  BY Zenon
<1>2. RemoveStaged(D, TRUE) /\ UNCHANGED <<file, mapDeltas>> /\ ~Back'
  BY Zenon, <1>1 DEF RemoveMined, disk, Back, Returning
<1>3. D \subseteq pool /\ \A x \in D : parents[x] \subseteq D
  BY Zenon, <1>1, MinedHasNoParents
<1>4. /\ DeltasInv /\ UNCHANGED file /\ mapDeltas' \in [Tx -> Int]
      /\ \A x \in pool \ D : mapDeltas'[x] = mapDeltas[x]
  BY Zenon, <1>2 DEF BackInv, DeltasInv
<1>5. DeltasInv'
  BY Zenon, <1>2, <1>4, DeltasRemoved
<1>6. OneOperation
  BY Zenon, <1>2, <1>3 DEF OneOperation
<1> QED
  BY Zenon, <1>2, <1>5, <1>6, BackSettled

LEMMA BackApplied ==
  ASSUME EntriesInv, ControlInv, ControlInv', BackInv, ConflictsRemoved
  PROVE  BackInv' /\ OneOperation
<1>1. /\ pc = "conflict" /\ ~Back' /\ UNCHANGED entries /\ UNCHANGED file
      /\ mapDeltas' = [mapDeltas EXCEPT ![Head(todo)] = 0]
  BY Zenon DEF ConflictsRemoved, Back, Returning, disk
<1>2. Head(todo) \in Tx /\ Head(todo) \notin pool /\ pool \subseteq Tx /\ mapDeltas \in [Tx -> Int]
  BY Zenon, <1>1, HeadOfTodo DEF ControlInv, Phases, EntriesInv, EntryTypes, BackInv, DeltasInv
<1>3. mapDeltas' \in [Tx -> Int] /\ \A x \in Tx : x # Head(todo) => mapDeltas'[x] = mapDeltas[x]
  BY <1>1, <1>2
<1>4. DeltasInv'
  BY Zenon, <1>1, <1>2, <1>3 DEF DeltasInv, BackInv, entries
<1>5. OneOperation
  BY Zenon, <1>1 DEF OneOperation
<1> QED
  BY Zenon, <1>1, <1>4, <1>5, BackSettled

\* A restart empties the pool; the file it leaves holds integers.
LEMMA BackRestart ==
  ASSUME EntriesInv, ControlInv, ControlInv', BackInv, NEW crash, Restart(crash)
  PROVE  BackInv' /\ OneOperation
<1>1. /\ ~Back' /\ RemoveStaged(pool, FALSE) /\ mapDeltas' = [t \in Tx |-> 0]
      /\ DeltasInv /\ feeDelta \in [Tx -> Int] /\ mapDeltas \in [Tx -> Int]
  BY Zenon DEF Restart, Back, Returning, BackInv, DeltasInv
<1>2. Closed(pool)
  <2>1. ASSUME NEW x \in pool, NEW y \in children[x] PROVE y \in pool
    <3>1. x \in Tx /\ y \in Tx
      BY Zenon DEF EntriesInv, EntryTypes
    <3> QED
      BY Zenon, <3>1 DEF EntriesInv, LinksAgree
  <2> QED
    BY Zenon, <2>1 DEF Closed
<1>3. pool' = {}
  <2>1. pool' = pool \ pool
    BY Zenon, <1>1 DEF RemoveStaged
  <2> QED
    BY Zenon, <2>1
<1>4. mapDeltas' \in [Tx -> Int] /\ feeDelta' \in [Tx -> Int]
  BY <1>1 DEF RemoveStaged
<1>5. \A i \in DOMAIN file'.entries : file'.entries[i].nFeeDelta \in Int
  <2>1. CASE UNCHANGED file
    BY Zenon, <2>1, <1>1 DEF DeltasInv
  <2>2. CASE DumpMempool
    <3>1. PICK q \in Bijection(1..Cardinality(pool), pool) :
            file'.entries = [i \in DOMAIN q |->
                               [tx |-> q[i], nTime |-> time[q[i]], nFeeDelta |-> feeDelta[q[i]]]]
      BY <2>2 DEF DumpMempool
    <3>2. \A i \in DOMAIN q : q[i] \in pool
      BY DEF Bijection, Injection
    <3>3. \A i \in DOMAIN q : feeDelta[q[i]] \in Int
      BY <3>2, <1>1 DEF EntriesInv, EntryTypes
    <3> QED
      BY SMTT(30), <3>1, <3>3
  <2> QED
    BY Zenon, <2>1, <2>2 DEF Restart
<1>6. file'.rest \in [Tx -> Int]
  <2>1. CASE UNCHANGED file
    BY Zenon, <2>1, <1>1 DEF DeltasInv
  <2>2. CASE DumpMempool
    <3>1. file'.rest = [t \in Tx |-> IF t \in pool THEN 0 ELSE mapDeltas[t]]
      BY <2>2 DEF DumpMempool
    <3> QED
      BY SMTT(30), <3>1, <1>1
  <2> QED
    BY Zenon, <2>1, <2>2 DEF Restart
<1>7. DeltasInv'
  BY Zenon, <1>3, <1>4, <1>5, <1>6 DEF DeltasInv
<1>8. OneOperation
  BY Zenon, <1>1, <1>2 DEF OneOperation
<1> QED
  BY Zenon, <1>1, <1>7, <1>8, BackSettled

\* A transaction of a disconnected block comes back, or goes with what spends from it.
LEMMA BackReAdd ==
  ASSUME EntriesInv, ControlInv, MinableInv, BackInv, ReAdd
  PROVE  BackInv' /\ OneOperation
<1>1. /\ pc = "readd" /\ UNCHANGED <<file, mapDeltas>> /\ vHashUpdate' = vHashUpdate
      /\ ~Returning /\ pc # "link"
  BY Zenon DEF ReAdd, disk, Returning
<1>2. OrderInv /\ KidsInv /\ DeltasInv
  BY Zenon, <1>1 DEF BackInv
<1>3. PICK t \in disconnectpool :
        \/ /\ Acceptable(t) /\ addUnchecked(t, now) /\ pc' = "trim" /\ ret' = "readded" /\ todo' = <<t>>
        \/ RemoveStaged(Recursive(t), FALSE) /\ UNCHANGED <<pc, ret, todo>>
  BY Zenon DEF ReAdd
<1>4. t \in Tx
  BY Zenon DEF ControlInv, ControlTypes
<1>5. CASE Acceptable(t) /\ addUnchecked(t, now) /\ pc' = "trim" /\ ret' = "readded" /\ todo' = <<t>>
  <2>1. t \notin pool /\ Adds(t)
    BY Zenon, <1>4, <1>5, AddEffect DEF Acceptable
  <2>2. DeltasInv'
    BY Zenon, <1>1, <1>2, <1>4, <1>5, DeltasAdded
  <2>3. OrderInv' /\ KidsInv'
    BY Zenon, <1>1, <1>2, <1>5, <2>1, OrderReAdd
  <2>4. OneOperation
    BY Zenon, <1>4, <1>5, <2>1 DEF OneOperation
  <2> QED
    BY Zenon, <2>2, <2>3, <2>4 DEF BackInv
<1>6. CASE RemoveStaged(Recursive(t), FALSE) /\ UNCHANGED <<pc, ret, todo>>
  <2>1. Closed(Recursive(t)) /\ Recursive(t) \subseteq pool
    BY Zenon, <1>4, RecursiveClosed DEF Closed
  <2>2. DeltasInv'
    <3>1. mapDeltas' \in [Tx -> Int] /\ (\A x \in pool \ Recursive(t) : mapDeltas'[x] = mapDeltas[x])
      BY Zenon, <1>1, <1>2 DEF DeltasInv
    <3> QED
      BY Zenon, <1>1, <1>2, <1>6, <3>1, DeltasRemoved
  <2>3. ~Returning' /\ Resurrected' = Resurrected
    BY Zenon, <1>1, <1>6 DEF Resurrected, Returning
  <2>4. OrderInv'
    BY Zenon, <1>1, <1>2, <2>3, OrderSame
  <2>5. KidsInv'
    <3>1. \A x \in Tx : children'[x] \subseteq children[x]
      BY Zenon, <1>6 DEF RemoveStaged
    <3>2. Resurrected \subseteq Tx
      BY Zenon DEF MinableInv, ReorgInv, EntriesInv, EntryTypes
    <3> QED
      BY Zenon, <1>2, <2>3, <3>1, <3>2 DEF KidsInv
  <2>6. OneOperation
    BY Zenon, <1>6, <2>1 DEF OneOperation
  <2> QED
    BY Zenon, <2>2, <2>4, <2>5, <2>6 DEF BackInv
<1> QED
  BY Zenon, <1>3, <1>5, <1>6

\* It is noted for linking; ReorgFits keeps it in the pool.
LEMMA BackReAdded ==
  ASSUME EntriesInv, ControlInv, MinableInv, BackInv, ReAdded
  PROVE  BackInv' /\ OneOperation
<1>1. PICK t, q : t = Head(todo) /\ q = vHashUpdate
  BY Zenon
<1>2. /\ pc = "readded" /\ pc # "link" /\ pc' = "readd" /\ UNCHANGED <<file, mapDeltas>>
      /\ Returning /\ ~Returning'
  BY Zenon DEF ReAdded, disk, Returning
<1>3. OrderInv /\ KidsInv /\ DeltasInv
  BY Zenon, <1>2 DEF BackInv
<1>4. /\ t \in pool /\ t \in Tx /\ q \in Seq(Tx) /\ Resurrected = Range(q) \cup {t}
  BY Zenon, <1>1, <1>2 DEF Resurrected, MinableInv, ReorgInv, EntriesInv, EntryTypes, ControlInv, ControlTypes
<1>5. vHashUpdate' = Append(q, t) /\ UNCHANGED entries
  BY Zenon, <1>1, <1>4 DEF ReAdded
<1>6. DeltasInv' /\ OneOperation
  BY Zenon, <1>2, <1>3, <1>5, DeltasKept DEF OneOperation
<1>7. OrderInv'
  <2>1. /\ t \notin Range(q)
        /\ \A i, j \in DOMAIN q : q[i] = q[j] => i = j
        /\ \A i, j \in DOMAIN q : Spends(q[j], q[i]) => i < j
        /\ \A u \in Range(q) \cup {t} : ~Spends(u, t)
    BY Zenon, <1>1, <1>2, <1>3, <1>4 DEF OrderInv
  <2>2. /\ \A i, j \in DOMAIN Append(q, t) : Append(q, t)[i] = Append(q, t)[j] => i = j
        /\ \A i, j \in DOMAIN Append(q, t) : Spends(Append(q, t)[j], Append(q, t)[i]) => i < j
    BY Zenon, <1>4, <2>1, OrderAppend
  <2> QED
    BY Zenon, <1>2, <1>5, <2>2 DEF OrderInv, Spends
<1>8. KidsInv'
  <2>1. PICK r : r = Append(q, t)
    BY Zenon
  <2>2. Range(r) = Range(q) \cup {t}
    BY <1>4, <2>1 DEF Range
  <2>3. Resurrected' = Resurrected
    BY Zenon, <1>2, <1>4, <1>5, <2>1, <2>2 DEF Resurrected
  <2> QED
    BY Zenon, <1>3, <1>5, <2>3 DEF KidsInv, entries
<1> QED
  BY Zenon, <1>6, <1>7, <1>8 DEF BackInv

\* Trimming ends.
LEMMA BackTrimmed ==
  ASSUME ControlInv, BackInv, Trimmed
  PROVE  BackInv' /\ OneOperation
<1>1. /\ pc # "link" /\ UNCHANGED entries /\ UNCHANGED <<file, mapDeltas>>
      /\ vHashUpdate' = vHashUpdate /\ todo' = todo
  BY Zenon DEF Trimmed, disk, reorg
<1>2. Returning' <=> Returning
  BY Zenon DEF Trimmed, Returning, ControlInv, ControlTypes
<1>3. Resurrected' = Resurrected
  BY Zenon, <1>1, <1>2 DEF Resurrected
<1>4. DeltasInv' /\ OneOperation
  BY Zenon, <1>1, DeltasKept DEF BackInv, OneOperation
<1>5. OrderInv'
  BY Zenon, <1>1, <1>2, OrderSame DEF BackInv
<1>6. KidsInv'
  BY Zenon, <1>1, <1>3 DEF BackInv, KidsInv, entries
<1> QED
  BY Zenon, <1>4, <1>5, <1>6 DEF BackInv

\* Putting back starts.
LEMMA BackReorg ==
  ASSUME BackInv, NEW fAdd, UpdateMempoolForReorg(fAdd)
  PROVE  BackInv' /\ OneOperation
<1>1. /\ UNCHANGED entries /\ UNCHANGED <<file, mapDeltas>>
      /\ vHashUpdate' = << >> /\ ~Returning' /\ pc' # "link"
  BY Zenon DEF UpdateMempoolForReorg, disk, Returning
<1>2. DeltasInv' /\ OneOperation
  BY Zenon, <1>1, DeltasKept DEF BackInv, OneOperation
<1>3. OrderInv' /\ KidsInv'
  BY Zenon, <1>1, NothingPutBack
<1> QED
  BY Zenon, <1>2, <1>3 DEF BackInv

\* Linking starts, goes on and ends.
LEMMA BackLink ==
  ASSUME ControlInv', BackInv, AllReAdded \/ UpdateTransactionsFromBlock \/ AllLinked
  PROVE  BackInv'
<1>1. UNCHANGED <<pool, feeDelta, file, mapDeltas>>
  BY Zenon DEF AllReAdded, UpdateTransactionsFromBlock, AllLinked, entries, disk
<1>2. DeltasInv'
  BY Zenon, <1>1 DEF BackInv, DeltasInv
<1>3. CASE AllLinked
  <2>1. ~Back'
    BY Zenon, <1>3 DEF AllLinked, Back, Returning
  <2> QED
    BY Zenon, <1>2, <2>1, BackSettled
<1>4. CASE AllReAdded \/ UpdateTransactionsFromBlock
  <2>1. pc' = "link" /\ vHashUpdate' = vHashUpdate /\ ~Returning'
    BY Zenon, <1>4 DEF AllReAdded, UpdateTransactionsFromBlock, Returning
  <2>2. OrderInv'
    BY Zenon, <2>1, OrderSame DEF BackInv
  <2> QED
    BY Zenon, <1>2, <2>1, <2>2 DEF BackInv
<1> QED
  BY Zenon, <1>3, <1>4

\* The entries and the deltas of the file.
LEMMA BackLoad ==
  ASSUME EntriesInv, ControlInv, ControlInv', BackInv, LoadDelta \/ LoadEntry \/ LoadRest
  PROVE  BackInv' /\ OneOperation
<1>1. CASE LoadDelta
  <2>1. PICK e : e = file.entries[load.at]
    BY Zenon
  <2>2. /\ pc' = "idle" /\ UNCHANGED file /\ Prioritise(e.tx, e.nFeeDelta)
        /\ load.at \in DOMAIN file.entries
    BY Zenon, <1>1, <2>1 DEF LoadDelta
  <2>3. e.tx \in Tx /\ e.nFeeDelta \in Int
    BY Zenon, <2>1, <2>2 DEF ControlInv, FileInv, BackInv, DeltasInv
  <2> QED
    BY Zenon, <2>2, <2>3, BackDelta
<1>2. CASE LoadEntry
  <2>1. PICK e : e = file.entries[load.at]
    BY Zenon
  <2>2. pc = "idle" /\ UNCHANGED <<file, mapDeltas>> /\ e.tx \in Tx
    BY Zenon, <1>2, <2>1 DEF LoadEntry, ControlInv, FileInv
  <2>3. CASE Acceptable(e.tx) /\ addUnchecked(e.tx, e.nTime) /\ pc' = "limit"
    BY Zenon, <2>2, <2>3, BackAccept
  <2>4. CASE UNCHANGED <<entries, pc, ret>>
    <3>1. ~Back' /\ UNCHANGED <<entries, mapDeltas, file>>
      BY Zenon, <2>2, <2>4 DEF Back, Returning
    <3> QED
      BY Zenon, <3>1, BackSteady
  <2> QED
    BY Zenon, <1>2, <2>1, <2>3, <2>4 DEF LoadEntry
<1>3. CASE LoadRest
  <2>1. PICK t \in load.left : Prioritise(t, file.rest[t])
    BY Zenon, <1>3 DEF LoadRest
  <2>2. pc' = "idle" /\ UNCHANGED file
    BY Zenon, <1>3 DEF LoadRest
  <2>3. t \in Tx
    <3>1. load.left \in SUBSET Tx
      BY DEF ControlInv, FileInv
    <3> QED
      BY Zenon, <3>1
  <2>4. file.rest[t] \in Int
    <3>1. PICK f : f = file.rest
      BY Zenon
    <3>2. f \in [Tx -> Int]
      BY Zenon, <3>1 DEF BackInv, DeltasInv
    <3>3. f[t] \in Int
      BY <3>2, <2>3
    <3> QED
      BY Zenon, <3>1, <3>3
  <2> QED
    BY Zenon, <2>1, <2>2, <2>3, <2>4, BackDelta
<1> QED
  BY Zenon, <1>1, <1>2, <1>3

\* Every step keeps the order and the deltas, and is one of the operations.
LEMMA BackStep ==
  ASSUME EntriesInv, ControlInv, MinableInv, BackInv, ReorgFits, [Next]_vars
  PROVE  /\ BackInv'
         /\ Linkings \/ UNCHANGED vars \/ (OneOperation /\ pc # "link" /\ pc' # "link")
<1> DEFINE Goal == BackInv' /\ (OneOperation \/ Linkings \/ UNCHANGED vars)
<1>1. ControlInv'
  BY Zenon, ControlStep
<1>2. ASSUME NEW t \in Tx, AcceptToMemoryPool(t) PROVE Goal
  <2>1. pc' = "limit" /\ Acceptable(t) /\ addUnchecked(t, now) /\ UNCHANGED <<file, mapDeltas>>
    BY Zenon, <1>2 DEF AcceptToMemoryPool, disk
  <2> QED
    BY Zenon, <1>1, <2>1, BackAccept
<1>3. ASSUME NEW t \in Tx, NEW d \in Deltas, PrioritiseTransaction(t, d) PROVE Goal
  <2>1. pc' = "idle" /\ Prioritise(t, d) /\ UNCHANGED file
    BY Zenon, <1>3 DEF PrioritiseTransaction, disk
  <2>2. d \in Int
    BY Zenon, MempoolAssumption DEF MempoolAssumption
  <2> QED
    BY Zenon, <1>1, <2>1, <2>2, BackDelta
<1>4. ASSUME Expire \/ TrimToSize \/ DisconnectTip \/ RemoveForReorg PROVE Goal
  BY Zenon, <1>1, <1>4, BackLimit
<1>5. ASSUME Trimmed PROVE Goal
  BY Zenon, <1>5, BackTrimmed
<1>6. ASSUME (\E b \in Blocks : ConnectTip(b)) \/ BlockConnected \/ SetIsLoaded \/ Tick PROVE Goal
  <2>1. ~Back' /\ UNCHANGED <<entries, mapDeltas, file>>
    BY Zenon, <1>6 DEF ConnectTip, BlockConnected, SetIsLoaded, Tick, disk, Back, Returning
  <2> QED
    BY Zenon, <1>1, <2>1, BackSteady
<1>7. ASSUME RemoveMined PROVE Goal
  BY Zenon, <1>1, <1>7, BackMined
<1>8. ASSUME RemoveConflicts PROVE Goal
  BY Zenon, <1>1, <1>8, BackConflict
<1>9. ASSUME ConflictsRemoved PROVE Goal
  BY Zenon, <1>1, <1>9, BackApplied
<1>10. ASSUME NEW fAdd \in BOOLEAN, UpdateMempoolForReorg(fAdd) PROVE Goal
  BY Zenon, <1>10, BackReorg
<1>11. ASSUME ReAdd PROVE Goal
  BY Zenon, <1>11, BackReAdd
<1>12. ASSUME ReAdded PROVE Goal
  BY Zenon, <1>12, BackReAdded
<1>13. ASSUME Linkings PROVE Goal
  BY Zenon, <1>1, <1>13, BackLink DEF Linkings
<1>14. ASSUME NEW crash \in BOOLEAN, Restart(crash) PROVE Goal
  BY Zenon, <1>1, <1>14, BackRestart
<1>15. ASSUME LoadDelta \/ LoadEntry \/ LoadRest PROVE Goal
  BY Zenon, <1>1, <1>15, BackLoad
<1>16. ASSUME UNCHANGED vars PROVE Goal
  <2>1. UNCHANGED <<entries, children, mapDeltas, file, pc, ret, todo, vHashUpdate>>
    BY Zenon, <1>16 DEF vars, entries, reorg, disk
  <2>2. Returning' = Returning /\ Resurrected' = Resurrected
    BY Zenon, <2>1 DEF Returning, Resurrected
  <2>3. DeltasInv'
    BY Zenon, <2>1, DeltasKept DEF BackInv
  <2>4. OrderInv'
    BY Zenon, <2>1, <2>2, OrderSame DEF BackInv
  <2>5. pc' # "link" => KidsInv'
    BY Zenon, <2>1, <2>2 DEF BackInv, KidsInv
  <2> QED
    BY Zenon, <1>16, <2>3, <2>4, <2>5 DEF BackInv
<1>17. Goal
  BY Zenon, <1>2, <1>3, <1>4, <1>5, <1>6, <1>7, <1>8, <1>9, <1>10, <1>11, <1>12, <1>13, <1>14, <1>15,
     <1>16 DEF Next, Linkings
<1>18. Linkings \/ UNCHANGED vars \/ (pc # "link" /\ pc' # "link")
  <2>1. ASSUME pc = "link" PROVE Linkings \/ UNCHANGED vars
    BY Zenon, <2>1 DEF Next, Linkings, AcceptToMemoryPool, PrioritiseTransaction, Expire, TrimToSize, Trimmed,
       DisconnectTip, ConnectTip, RemoveMined, RemoveConflicts, ConflictsRemoved, BlockConnected,
       UpdateMempoolForReorg, ReAdd, ReAdded, RemoveForReorg, Restart, LoadDelta, LoadEntry, LoadRest,
       SetIsLoaded, Tick
  <2>2. ASSUME pc' = "link", pc # "link" PROVE Linkings
    BY Zenon, <2>2 DEF Next, Linkings, vars, AcceptToMemoryPool, PrioritiseTransaction, Expire, TrimToSize, Trimmed,
       DisconnectTip, ConnectTip, RemoveMined, RemoveConflicts, ConflictsRemoved, BlockConnected,
       UpdateMempoolForReorg, ReAdd, ReAdded, RemoveForReorg, Restart, LoadDelta, LoadEntry, LoadRest,
       SetIsLoaded, Tick, ControlInv, ControlTypes
  <2> QED
    BY Zenon, <2>1, <2>2
<1> QED
  BY Zenon, <1>17, <1>18

\* A node starts with nothing to put back.
LEMMA InitBack ==
  ASSUME Init
  PROVE  BackInv
<1>1. /\ pool = {} /\ pc = "idle" /\ vHashUpdate = << >>
      /\ feeDelta = [t \in Tx |-> 0] /\ mapDeltas = [t \in Tx |-> 0]
      /\ file = [entries |-> << >>, rest |-> mapDeltas]
  BY Zenon DEF Init
<1>2. ~Returning
  BY Zenon, <1>1 DEF Returning
<1>3. DOMAIN << >> = {} /\ Range(<< >>) = {}
  BY DEF Range
<1>4. OrderInv /\ KidsInv
  BY Zenon, <1>1, <1>2, <1>3 DEF OrderInv, KidsInv, Resurrected
<1>5. file.entries = << >> /\ file.rest = mapDeltas /\ mapDeltas \in [Tx -> Int] /\ feeDelta \in [Tx -> Int]
  BY <1>1
<1> QED
  BY Zenon, <1>1, <1>3, <1>4, <1>5 DEF BackInv, DeltasInv
==============================================================================
