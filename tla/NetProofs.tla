------------------------------ MODULE NetProofs ------------------------------
(***************************************************************************)
(* Proofs about BlockDownload and NetProcessing, for any peers, blocks,    *)
(* transactions, worlds, limits and numbers of messages.                   *)
(*                                                                         *)
(* The chain of a block is finite and has one block of each height, so the *)
(* blocks FindNextBlocksToDownload takes can be put in order and are no    *)
(* more than the peer has room for.  Download, the invariant, says that    *)
(* the block index is closed under pprev, that what the peers have is in   *)
(* it, and that the maps of the blocks in flight agree; each operation on  *)
(* them preserves it.  With it, the counts of syncing and preferred peers, *)
(* the orphan maps and the maps of blocks in flight are exact.             *)
(***************************************************************************)
EXTENDS NetProcessing, FiniteSetTheorems, WellFoundedInduction, TLAPS

-----------------------------------------------------------------------------
(* The block tree and the order of a chain. *)

(* A chain holds its block, goes back to genesis one block at a time, and  *)
(* is the least such set (CBlockIndex::pprev).                             *)
LEMMA ChainLemma ==
  ASSUME NEW b \in Index
  PROVE  /\ Chain[b] \in SUBSET Index /\ b \in Chain[b]
         /\ \A x \in Chain[b] \ {Genesis} : Prev[x] \in Chain[b]
         /\ \A S \in SUBSET Index :
              b \in S /\ (\A x \in S \ {Genesis} : Prev[x] \in S) => Chain[b] \subseteq S
<1>1. \A x \in Index \ {Genesis} : Prev[x] \in Index
  BY Zenon, DownloadAssumption DEF Index
<1> DEFINE Closed(S) == b \in S /\ (\A x \in S \ {Genesis} : Prev[x] \in S)
<1>2. Chain[b] = {a \in Index : \A S \in SUBSET Index : Closed(S) => a \in S}
  BY Zenon DEF Chain
<1>3. ASSUME NEW x \in Chain[b] \ {Genesis} PROVE Prev[x] \in Chain[b]
  <2>1. x \in Index \ {Genesis} /\ \A S \in SUBSET Index : Closed(S) => x \in S
    BY Zenon, <1>2, <1>3
  <2>2. \A S \in SUBSET Index : Closed(S) => Prev[x] \in S
    BY Zenon, <2>1
  <2> QED
    BY Zenon, <1>1, <1>2, <2>1, <2>2
<1>4. \A S \in SUBSET Index : Closed(S) => Chain[b] \subseteq S
  BY Zenon, <1>2
<1>5. Chain[b] \in SUBSET Index /\ b \in Chain[b]
  BY Zenon, <1>2
<1> QED
  BY Zenon, <1>3, <1>4, <1>5

(* A chain is its last block and the chain before that. *)
LEMMA ChainStep ==
  ASSUME NEW b \in Blocks
  PROVE  Chain[b] \subseteq {b} \cup Chain[Prev[b]]
<1>1. b \in Index /\ Prev[b] \in Index
  BY Zenon, DownloadAssumption DEF Index
<1> DEFINE S == {b} \cup Chain[Prev[b]]
<1>2. S \in SUBSET Index /\ b \in S
  BY Zenon, <1>1, ChainLemma
<1>3. \A x \in S \ {Genesis} : Prev[x] \in S
  BY Zenon, <1>1, ChainLemma
<1>4. \A T \in SUBSET Index :
        b \in T /\ (\A x \in T \ {Genesis} : Prev[x] \in T) => Chain[b] \subseteq T
  BY Zenon, <1>1, ChainLemma
<1> HIDE DEF S
<1>5. Chain[b] \subseteq S
  BY Zenon, <1>2, <1>3, <1>4
<1> QED
  BY Zenon, <1>5 DEF S

(* The blocks of a chain are no higher than its last one. *)
LEMMA ChainHeight ==
  ASSUME NEW b \in Index
  PROVE  \A x \in Chain[b] : Height[x] \in 0..Height[b]
<1> DEFINE S == {x \in Index : Height[x] <= Height[b]}
<1>1. \A x \in Index : Height[x] \in Nat
  BY Zenon, DownloadAssumption
<1>2. \A x \in S \ {Genesis} : Prev[x] \in S
  <2> TAKE x \in S \ {Genesis}
  <2>1. x \in Blocks /\ Prev[x] \in Index /\ Height[x] = Height[Prev[x]] + 1
    BY Zenon, DownloadAssumption DEF Index
  <2> QED
    BY <1>1, <2>1
<1>3. b \in S
  BY <1>1
<1>4. Chain[b] \subseteq S
  BY Zenon, <1>2, <1>3, ChainLemma
<1> QED
  BY <1>1, <1>4

(* A set of natural numbers that is not empty has a least one. *)
LEMMA Least ==
  ASSUME NEW T \in SUBSET Nat, T # {}
  PROVE  \E x \in T : \A y \in T : x <= y
<1> DEFINE R == OpToRel(<, Nat)
<1>1. IsWellFoundedOn(R, Nat)
  BY Zenon, NatLessThanWellFounded
<1>2. \A x, y \in Nat : x < y => <<x, y>> \in R
  BY Zenon DEF OpToRel
<1> HIDE DEF R
<1>3. \E x \in T : \A y \in T : ~(<<y, x>> \in R)
  BY Zenon, <1>1, WFMin
<1>4. PICK x \in T : \A y \in T : ~(<<y, x>> \in R)
  BY Zenon, <1>3
<1>5. \A y \in T : ~(y < x)
  BY <1>2, <1>4, Zenon
<1>6. \A y \in T : x <= y
  BY <1>5
<1> QED
  BY Zenon, <1>6

(* A set of blocks that is not empty has a lowest one. *)
LEMMA Lowest ==
  ASSUME NEW S \in SUBSET Index, S # {}
  PROVE  \E b \in S : \A x \in S : Height[b] <= Height[x]
<1> DEFINE T == {Height[x] : x \in S}
<1>1. T \in SUBSET Nat /\ T # {}
  BY DownloadAssumption
<1> HIDE DEF T
<1>2. PICK n \in T : \A y \in T : n <= y
  BY Zenon, <1>1, Least
<1> QED
  BY Zenon, <1>2 DEF T

(* Blocks of one height in one chain are the same: a lowest chain in which *)
(* they are not would have a lower one before it.                          *)
LEMMA ChainInjective ==
  ASSUME NEW b \in Index
  PROVE  \A x, y \in Chain[b] : Height[x] = Height[y] => x = y
<1> DEFINE Bad == {c \in Index : \E x, y \in Chain[c] : Height[x] = Height[y] /\ x # y}
<1>1. ASSUME Bad # {} PROVE FALSE
  <2>1. Bad \in SUBSET Index
    BY Zenon
  <2> HIDE DEF Bad
  <2>2. PICK c \in Bad : \A d \in Bad : Height[c] <= Height[d]
    BY Zenon, <1>1, <2>1, Lowest
  <2>3. c \in Index
    BY Zenon, <2>1
  <2>4. PICK x, y \in Chain[c] : Height[x] = Height[y] /\ x # y
    BY Zenon DEF Bad
  <2>5. CASE c = Genesis
    <3>1. Chain[c] \subseteq {Genesis}
      BY Zenon, <2>3, <2>5, ChainLemma
    <3> QED
      BY Zenon, <2>4, <3>1
  <2>6. CASE c # Genesis
    <3>1. c \in Blocks /\ Prev[c] \in Index /\ Height[c] = Height[Prev[c]] + 1
      BY Zenon, <2>3, <2>6, DownloadAssumption DEF Index
    <3>2. Height[c] \in Nat /\ Height[Prev[c]] \in Nat
      BY Zenon, <2>3, <3>1, DownloadAssumption
    <3>3. Chain[c] \subseteq {c} \cup Chain[Prev[c]]
      BY Zenon, <3>1, ChainStep
    <3>4. \A z \in Chain[Prev[c]] : Height[z] \in 0..Height[Prev[c]]
      BY Zenon, <3>1, ChainHeight
    <3>5. \A z \in Chain[Prev[c]] : Height[z] # Height[c]
      BY <3>1, <3>2, <3>4
    <3>6. x \in Chain[Prev[c]] /\ y \in Chain[Prev[c]]
      BY Zenon, <2>4, <3>3, <3>5
    <3>7. Prev[c] \in Bad
      BY Zenon, <2>4, <3>1, <3>6 DEF Bad
    <3> QED
      BY <2>2, <3>1, <3>2, <3>7
  <2> QED
    BY Zenon, <2>5, <2>6
<1> QED
  BY Zenon, <1>1

(* A chain is finite, and so is every part of it. *)
LEMMA ChainFinite ==
  ASSUME NEW b \in Index, NEW S \in SUBSET Chain[b]
  PROVE  IsFiniteSet(S)
<1> DEFINE f == [x \in Chain[b] |-> Height[x]]
<1>1. Height[b] \in Nat
  BY Zenon, DownloadAssumption
<1>2. f \in [Chain[b] -> 0..Height[b]]
  BY Zenon, ChainHeight
<1>3. \A x, y \in Chain[b] : f[x] = f[y] => x = y
  BY Zenon, ChainInjective
<1>4. f \in Injection(Chain[b], 0..Height[b])
  BY Zenon, <1>2, <1>3 DEF Injection, IsInjective
<1>5. IsFiniteSet(0..Height[b])
  BY <1>1, FS_Interval
<1> HIDE DEF f
<1>6. IsFiniteSet(Chain[b])
  BY Zenon, <1>4, <1>5, FS_Injection
<1> QED
  BY Zenon, <1>6, FS_Subset

(* How many blocks of S are lower than b. *)
Rank(b, S) == Cardinality({x \in S : Height[x] < Height[b]})

(* The ranks in a set of blocks of different heights are different, and    *)
(* less than the number of blocks.                                         *)
LEMMA Ranks ==
  ASSUME NEW S \in SUBSET Index, IsFiniteSet(S),
         \A x, y \in S : Height[x] = Height[y] => x = y
  PROVE  /\ Cardinality(S) \in Nat
         /\ \A b \in S : Rank(b, S) \in 0..(Cardinality(S) - 1)
         /\ \A a, b \in S : Rank(a, S) = Rank(b, S) => a = b
<1> DEFINE Low(b) == {x \in S : Height[x] < Height[b]}
<1>1. \A x \in S : Height[x] \in Nat
  BY Zenon, DownloadAssumption
<1>2. ASSUME NEW b \in S
      PROVE  IsFiniteSet(Low(b)) /\ Rank(b, S) \in Nat /\ Rank(b, S) < Cardinality(S)
  <2>1. b \notin Low(b) /\ Low(b) \in SUBSET S
    BY <1>1, <1>2
  <2>2. Low(b) # S
    BY Zenon, <1>2, <2>1
  <2> HIDE DEF Low
  <2>3. IsFiniteSet(Low(b)) /\ Cardinality(Low(b)) <= Cardinality(S) /\ Cardinality(Low(b)) # Cardinality(S)
    BY Zenon, <2>1, <2>2, FS_Subset
  <2>4. Cardinality(Low(b)) \in Nat /\ Cardinality(S) \in Nat
    BY Zenon, <2>3, FS_CardinalityType
  <2>5. Cardinality(Low(b)) < Cardinality(S)
    BY <2>3, <2>4
  <2>6. Rank(b, S) = Cardinality(Low(b))
    BY Zenon DEF Rank, Low
  <2> QED
    BY Zenon, <2>3, <2>4, <2>5, <2>6
<1>3. ASSUME NEW a \in S, NEW b \in S, Height[a] < Height[b] PROVE Rank(a, S) # Rank(b, S)
  <2>1. a \notin Low(a) /\ a \in Low(b) /\ Low(a) \in SUBSET Low(b)
    BY <1>1, <1>3
  <2>2. IsFiniteSet(Low(b))
    BY Zenon, <1>2
  <2>3. Rank(a, S) = Cardinality(Low(a)) /\ Rank(b, S) = Cardinality(Low(b))
    BY Zenon DEF Rank
  <2> HIDE DEF Low
  <2>4. Low(a) # Low(b)
    BY Zenon, <2>1
  <2>5. Cardinality(Low(a)) # Cardinality(Low(b))
    BY Zenon, <2>1, <2>2, <2>4, FS_Subset
  <2> QED
    BY Zenon, <2>3, <2>5
<1>4. ASSUME NEW a \in S, NEW b \in S, Rank(a, S) = Rank(b, S) PROVE a = b
  <2>1. ~(Height[a] < Height[b]) /\ ~(Height[b] < Height[a])
    BY Zenon, <1>3, <1>4
  <2>2. Height[a] = Height[b]
    BY <1>1, <2>1
  <2> QED
    BY Zenon, <2>2
<1>5. Cardinality(S) \in Nat
  BY Zenon, FS_CardinalityType
<1> HIDE DEF Low
<1>6. \A b \in S : Rank(b, S) \in Nat /\ Rank(b, S) < Cardinality(S)
  BY Zenon, <1>2
<1>7. \A b \in S : Rank(b, S) \in 0..(Cardinality(S) - 1)
  BY <1>5, <1>6
<1>8. \A a, b \in S : Rank(a, S) = Rank(b, S) => a = b
  BY Zenon, <1>4
<1> QED
  BY Zenon, <1>5, <1>7, <1>8

(* So each rank below the number of blocks is that of a block. *)
LEMMA RanksAll ==
  ASSUME NEW S \in SUBSET Index, IsFiniteSet(S),
         \A x, y \in S : Height[x] = Height[y] => x = y
  PROVE  \A i \in 1..Cardinality(S) : \E b \in S : Rank(b, S) = i - 1
<1> DEFINE n == Cardinality(S)
           f == [b \in S |-> Rank(b, S)]
<1>1. n \in Nat /\ f \in [S -> 0..(n - 1)] /\ \A a, b \in S : f[a] = f[b] => a = b
  BY Zenon, Ranks
<1>2. f \in Injection(S, 0..(n - 1))
  BY Zenon, <1>1 DEF Injection, IsInjective
<1>3. IsFiniteSet(0..(n - 1)) /\ Cardinality(0..(n - 1)) = n
  <2>1. 0 \in Int /\ n - 1 \in Int
    BY <1>1
  <2>2. /\ IsFiniteSet(0..(n - 1))
        /\ Cardinality(0..(n - 1)) = IF 0 > n - 1 THEN 0 ELSE (n - 1) - 0 + 1
    BY Zenon, <2>1, FS_Interval
  <2> QED
    BY <1>1, <2>2
<1>4. \A b \in S : f[b] = Rank(b, S)
  BY Zenon
<1> HIDE DEF f
<1>5. f \in Surjection(S, 0..(n - 1))
  BY Zenon, <1>2, <1>3, FS_Injection
<1>6. \A j \in 0..(n - 1) : \E b \in S : f[b] = j
  BY Zenon, <1>5 DEF Surjection
<1> SUFFICES ASSUME NEW i \in 1..n PROVE \E b \in S : Rank(b, S) = i - 1
  BY Zenon
<1>7. i - 1 \in 0..(n - 1)
  BY <1>1
<1> QED
  BY Zenon, <1>4, <1>6, <1>7

(* At most n blocks have a rank below n. *)
LEMMA RanksBelow ==
  ASSUME NEW S \in SUBSET Index, IsFiniteSet(S), NEW n \in Nat,
         \A x, y \in S : Height[x] = Height[y] => x = y
  PROVE  Cardinality({b \in S : Rank(b, S) < n}) <= n
<1> DEFINE T == {b \in S : Rank(b, S) < n}
           f == [b \in T |-> Rank(b, S)]
<1>1. \A b \in S : Rank(b, S) \in Nat
  BY Ranks
<1>2. f \in [T -> 0..(n - 1)] /\ \A a, b \in T : f[a] = f[b] => a = b
  BY <1>1, Ranks
<1>3. f \in Injection(T, 0..(n - 1))
  BY Zenon, <1>2 DEF Injection, IsInjective
<1>4. IsFiniteSet(0..(n - 1)) /\ Cardinality(0..(n - 1)) = n
  <2>1. 0 \in Int /\ n - 1 \in Int
    OBVIOUS
  <2>2. /\ IsFiniteSet(0..(n - 1))
        /\ Cardinality(0..(n - 1)) = IF 0 > n - 1 THEN 0 ELSE (n - 1) - 0 + 1
    BY Zenon, <2>1, FS_Interval
  <2> QED
    BY <2>2
<1> HIDE DEF f, T
<1>5. Cardinality(T) <= Cardinality(0..(n - 1))
  BY Zenon, <1>3, <1>4, FS_Injection
<1> QED
  BY Zenon, <1>4, <1>5 DEF T

-----------------------------------------------------------------------------
(* The block index, and what the peers are known to have. *)

(* The genesis block has its data, and a block is in the index only with   *)
(* the one before it.                                                      *)
IndexInv ==
  /\ status \in [Index -> Statuses] /\ status[Genesis] = "data"
  /\ \A b \in Blocks : Known(b) => Known(Prev[b])

(* pindexBestKnownBlock is in the index. *)
KnowsInv ==
  /\ pindexBestKnownBlock \in [Peers -> Index \cup {None}]
  /\ hashLastUnknownBlock \in [Peers -> Blocks \cup {None}]
  /\ \A p \in Peers : pindexBestKnownBlock[p] # None => Known(pindexBestKnownBlock[p])

(* The maps and lists of the blocks in flight. *)
FlightInv ==
  /\ vBlocksInFlight \in [Peers -> Seq(Blocks)] /\ nBlocksInFlight \in [Peers -> Nat]
  /\ mapBlocksInFlight \in [Blocks -> Peers \cup {None}]
  /\ nStallingSince \in [Peers -> Nat \cup {None}]
  /\ InFlightExact

(* The chain of a block of the index is in the index. *)
LEMMA ChainKnown ==
  ASSUME IndexInv, NEW b \in Index, Known(b)
  PROVE  \A x \in Chain[b] : Known(x)
<1> DEFINE S == {x \in Index : Known(x)}
<1>1. \A x \in S \ {Genesis} : Prev[x] \in S
  BY Zenon, DownloadAssumption DEF IndexInv, Index
<1>2. S \in SUBSET Index /\ b \in S
  BY Zenon
<1> HIDE DEF S
<1>3. Chain[b] \subseteq S
  BY Zenon, <1>1, <1>2, ChainLemma
<1> QED
  BY Zenon, <1>3 DEF S

(* ProcessNewBlock never takes a block out of the index, and puts one in   *)
(* only after the one before it.                                           *)
LEMMA ProcessIndex ==
  ASSUME IndexInv, NEW b \in Blocks, NEW v \in Verdicts, Known(Prev[b]), ProcessNewBlock(b, v)
  PROVE  IndexInv' /\ \A x \in Index : Known(x) => Known(x)'
<1> DEFINE st == Stored(b, v)
<1>1. b \in Index /\ b # Genesis /\ Genesis \in Index
  BY Zenon, DownloadAssumption DEF Index
<1>2. /\ st \in [Index -> Statuses] /\ \A x \in Index : x # b => st[x] = status[x]
      /\ status[b] # "none" => st[b] # "none"
  BY Zenon, <1>1 DEF IndexInv, Stored, Verdicts, Statuses
<1>3. /\ status' \in [Index -> Statuses]
      /\ \A x \in Index : \/ status'[x] = st[x]
                          \/ status'[x] = "failed" /\ x \in Unconnectable /\ HaveChain(st, x)
  <2> HIDE DEF st
  <2> QED
    BY Zenon, <1>2 DEF ProcessNewBlock, st, Statuses
<1> HIDE DEF st
<1>4. \A x \in Index : Known(x) => Known(x)'
  BY Zenon, <1>2, <1>3 DEF Known
<1>5. \A x \in Index : HaveChain(st, x) => st[x] = "data"
  BY Zenon, ChainLemma DEF HaveChain
<1>6. \A x \in Index : Known(x)' => Known(x) \/ x = b
  BY Zenon, <1>2, <1>3, <1>5 DEF Known
<1>7. status'[Genesis] = "data"
  BY Zenon, <1>1, <1>2, <1>3, DownloadAssumption DEF IndexInv
<1>8. ASSUME NEW x \in Blocks, Known(x)' PROVE Known(Prev[x])'
  <2>1. x \in Index /\ Prev[x] \in Index
    BY Zenon, DownloadAssumption DEF Index
  <2>2. Known(Prev[x])
    BY Zenon, <1>6, <1>8, <2>1 DEF IndexInv
  <2> QED
    BY Zenon, <1>4, <2>1, <2>2
<1> QED
  BY Zenon, <1>3, <1>4, <1>7, <1>8 DEF IndexInv

(* ProcessBlockAvailability finds a block of the index. *)
LEMMA Available ==
  ASSUME KnowsInv, NEW p \in Peers
  PROVE  /\ AvailableBest(p) \in Index \cup {None} /\ StillUnknown(p) \in Blocks \cup {None}
         /\ AvailableBest(p) # None => Known(AvailableBest(p))
  BY Zenon, DownloadAssumption DEF KnowsInv, AvailableBest, StillUnknown, Better, Index

-----------------------------------------------------------------------------
(* The blocks to ask for. *)

(* Two sequences with no element twice and none in common. *)
LEMMA Concat ==
  ASSUME NEW S, NEW s \in Seq(S), NEW t \in Seq(S),
         \A i, j \in DOMAIN s : s[i] = s[j] => i = j,
         \A i, j \in DOMAIN t : t[i] = t[j] => i = j,
         \A i \in DOMAIN s : \A j \in DOMAIN t : s[i] # t[j]
  PROVE  /\ s \o t \in Seq(S) /\ Len(s \o t) = Len(s) + Len(t)
         /\ \A i, j \in DOMAIN (s \o t) : (s \o t)[i] = (s \o t)[j] => i = j
         /\ \A i \in DOMAIN s : i \in DOMAIN (s \o t) /\ (s \o t)[i] = s[i]
         /\ \A i \in DOMAIN t : Len(s) + i \in DOMAIN (s \o t) /\ (s \o t)[Len(s) + i] = t[i]
         /\ \A i \in DOMAIN (s \o t) : \/ i \in DOMAIN s /\ (s \o t)[i] = s[i]
                                       \/ i - Len(s) \in DOMAIN t /\ (s \o t)[i] = t[i - Len(s)]
<1> DEFINE r == s \o t
<1>1. /\ r \in Seq(S) /\ Len(r) = Len(s) + Len(t) /\ Len(s) \in Nat /\ Len(t) \in Nat
      /\ DOMAIN s = 1..Len(s) /\ DOMAIN t = 1..Len(t) /\ DOMAIN r = 1..(Len(s) + Len(t))
  OBVIOUS
<1>2. \A i \in 1..(Len(s) + Len(t)) : r[i] = IF i <= Len(s) THEN s[i] ELSE t[i - Len(s)]
  OBVIOUS
<1> HIDE DEF r
<1>3. \A i \in DOMAIN s : i \in DOMAIN r /\ r[i] = s[i]
  BY <1>1, <1>2
<1>4. \A i \in DOMAIN t : Len(s) + i \in DOMAIN r /\ r[Len(s) + i] = t[i]
  BY <1>1, <1>2
<1>5. \A i \in DOMAIN r : \/ i \in DOMAIN s /\ r[i] = s[i]
                          \/ i - Len(s) \in DOMAIN t /\ r[i] = t[i - Len(s)]
  BY <1>1, <1>2
<1>6. ASSUME NEW i \in DOMAIN r, NEW j \in DOMAIN r, r[i] = r[j] PROVE i = j
  <2>1. CASE i \in DOMAIN s /\ r[i] = s[i] /\ j \in DOMAIN s /\ r[j] = s[j]
    BY Zenon, <1>6, <2>1
  <2>2. CASE i - Len(s) \in DOMAIN t /\ r[i] = t[i - Len(s)] /\ j - Len(s) \in DOMAIN t /\ r[j] = t[j - Len(s)]
    <3>1. i - Len(s) = j - Len(s)
      BY Zenon, <1>6, <2>2
    <3> QED
      BY <1>1, <3>1
  <2> QED
    BY Zenon, <1>5, <1>6, <2>1, <2>2
<1> QED
  BY Zenon, <1>1, <1>3, <1>4, <1>5, <1>6 DEF r

(* A function on 1..n is a sequence of length n. *)
LEMMA AsSequence ==
  ASSUME NEW S, NEW n \in Nat, NEW f \in [1..n -> S]
  PROVE  f \in Seq(S) /\ Len(f) = n
  OBVIOUS

(* A set of blocks of one chain in the order of their heights. *)
ByHeight(T) == [i \in 1..Cardinality(T) |-> CHOOSE b \in T : Rank(b, T) = i - 1]

(* It has every block of the set once. *)
LEMMA Sorted ==
  ASSUME NEW T \in SUBSET Blocks, IsFiniteSet(T),
         \A x, y \in T : Height[x] = Height[y] => x = y
  PROVE  /\ ByHeight(T) \in Seq(Blocks) /\ Len(ByHeight(T)) = Cardinality(T)
         /\ \A i, j \in DOMAIN ByHeight(T) : ByHeight(T)[i] = ByHeight(T)[j] => i = j
         /\ \A b \in Blocks : b \in T <=> \E i \in DOMAIN ByHeight(T) : ByHeight(T)[i] = b
<1> DEFINE q == ByHeight(T)
<1>1. T \in SUBSET Index
  BY Zenon DEF Index
<1>2. Cardinality(T) \in Nat
  BY Zenon, FS_CardinalityType
<1>3. \A i \in 1..Cardinality(T) : q[i] \in T /\ Rank(q[i], T) = i - 1
  BY Zenon, <1>1, RanksAll DEF ByHeight
<1>4. DOMAIN q = 1..Cardinality(T)
  BY Zenon DEF ByHeight
<1>5. q \in [1..Cardinality(T) -> Blocks]
  BY Zenon, <1>3 DEF ByHeight
<1> HIDE DEF q
<1>6. q \in Seq(Blocks) /\ Len(q) = Cardinality(T)
  BY <1>2, <1>5, AsSequence, Zenon
<1>7. ASSUME NEW i \in DOMAIN q, NEW j \in DOMAIN q, q[i] = q[j] PROVE i = j
  <2>1. i - 1 = j - 1 /\ i \in Int /\ j \in Int
    BY <1>2, <1>3, <1>4, <1>7
  <2> QED
    BY <2>1
<1>8. ASSUME NEW b \in T PROVE \E i \in DOMAIN q : q[i] = b
  <2>1. Rank(b, T) \in 0..(Cardinality(T) - 1)
    BY Zenon, <1>1, Ranks
  <2>2. Rank(b, T) + 1 \in 1..Cardinality(T) /\ (Rank(b, T) + 1) - 1 = Rank(b, T)
    BY <1>2, <2>1
  <2>3. q[Rank(b, T) + 1] \in T /\ Rank(q[Rank(b, T) + 1], T) = Rank(b, T)
    BY Zenon, <1>3, <2>2
  <2>4. q[Rank(b, T) + 1] = b
    BY Zenon, <1>1, <2>3, Ranks
  <2> QED
    BY Zenon, <1>4, <2>2, <2>4
<1>9. ASSUME NEW b \in Blocks, NEW i \in DOMAIN q, q[i] = b PROVE b \in T
  BY Zenon, <1>3, <1>4, <1>9
<1>10. \A b \in Blocks : b \in T <=> \E i \in DOMAIN q : q[i] = b
  BY Zenon, <1>8, <1>9
<1>11. \A i, j \in DOMAIN q : q[i] = q[j] => i = j
  BY Zenon, <1>7
<1> QED
  BY Zenon, <1>6, <1>10, <1>11 DEF q

(* FindNextBlocksToDownload returns blocks of the index that are not in    *)
(* flight, of different heights and no more than the peer has room for,    *)
(* and as the staller a peer that owes a block.                            *)
LEMMA NextBlocks ==
  ASSUME IndexInv, FlightInv, NEW p \in Peers, nBlocksInFlight[p] < MaxInTransit,
         NEW best \in Index, Known(best), NEW from,
         NEW next, next = FindNextBlocksToDownload(p, best, from)
  PROVE  /\ next.take \in SUBSET Blocks /\ IsFiniteSet(next.take)
         /\ \A b \in next.take : Known(b) /\ ~InFlight(b)
         /\ \A x, y \in next.take : Height[x] = Height[y] => x = y
         /\ nBlocksInFlight[p] + Cardinality(next.take) <= MaxInTransit
         /\ next.staller # None => next.staller \in Peers /\ vBlocksInFlight[next.staller] # << >>
<1> DEFINE
  count == MaxInTransit - nBlocksInFlight[p]
  walk == {b \in Chain[best] : Height[from] < Height[b] /\ Height[b] <= Height[from] + Window + 1}
  valid == {b \in walk : \A x \in walk : Height[x] <= Height[b] => status[x] # "failed"}
  missing == {b \in valid : status[b] # "data" /\ ~InFlight(b)}
  within == {b \in missing : Height[b] <= Height[from] + Window}
  Below(b, S) == {x \in S : Height[x] < Height[b]}
  take == {b \in within : Cardinality(Below(b, within)) < count}
  seen == IF Cardinality(within) >= count THEN Below(Highest(take), valid)
          ELSE IF missing # within THEN Below(Highest(missing), valid) ELSE valid
  waiting == {b \in seen : status[b] # "data" /\ InFlight(b)}
  waitingfor == IF waiting = {} THEN None
                ELSE mapBlocksInFlight[CHOOSE b \in waiting : \A x \in waiting : Height[b] <= Height[x]]
<1>1. /\ next.take = take
      /\ next.staller = IF take = {} /\ missing # within /\ waitingfor # p THEN waitingfor ELSE None
  BY Zenon DEF FindNextBlocksToDownload
<1>2. count \in Nat /\ nBlocksInFlight[p] \in Nat /\ MaxInTransit \in Nat
  BY DownloadAssumption DEF FlightInv
<1>3. valid \in SUBSET Chain[best]
  BY Zenon
<1>4. missing \in SUBSET valid /\ \A b \in missing : status[b] # "data" /\ ~InFlight(b)
  BY Zenon
<1>5. within \in SUBSET missing
  BY Zenon
<1>6. seen \in SUBSET valid
  BY Zenon
<1>7. waiting \in SUBSET seen /\ \A b \in waiting : status[b] # "data" /\ InFlight(b)
  BY Zenon
<1>8. take = {b \in within : Rank(b, within) < count}
  BY Zenon DEF Rank
<1> HIDE DEF walk, valid, missing, within, Below, take, seen, waiting
<1>9. Chain[best] \in SUBSET Index /\ \A b \in Chain[best] : Known(b)
  BY Zenon, ChainLemma, ChainKnown
<1>10. \A b \in Index : status[b] # "data" => b \in Blocks
  BY Zenon DEF IndexInv, Index
<1>11. take \in SUBSET within /\ within \in SUBSET Chain[best]
  BY Zenon, <1>3, <1>4, <1>5, <1>8
<1>12. take \in SUBSET Blocks /\ \A b \in take : Known(b) /\ ~InFlight(b)
  BY Zenon, <1>4, <1>5, <1>9, <1>10, <1>11
<1>13. IsFiniteSet(within) /\ IsFiniteSet(take)
  BY Zenon, <1>11, ChainFinite, FS_Subset
<1>14. \A x, y \in within : Height[x] = Height[y] => x = y
  BY Zenon, <1>11, ChainInjective
<1>15. Cardinality(take) <= count
  <2>1. within \in SUBSET Index
    BY Zenon, <1>9, <1>11
  <2> QED
    BY <1>2, <1>8, <1>13, <1>14, <2>1, RanksBelow, Zenon
<1>16. nBlocksInFlight[p] + Cardinality(take) <= MaxInTransit
  <2>1. Cardinality(take) \in Nat
    BY Zenon, <1>13, FS_CardinalityType
  <2> QED
    BY <1>2, <1>15, <2>1
<1>17. ASSUME next.staller # None PROVE next.staller \in Peers /\ vBlocksInFlight[next.staller] # << >>
  <2>1. waiting # {} /\ next.staller = waitingfor
    BY Zenon, <1>1, <1>17
  <2>2. waiting \in SUBSET Chain[best] /\ waiting \in SUBSET Index
    BY Zenon, <1>3, <1>6, <1>7, <1>9
  <2>3. \E b \in waiting : \A x \in waiting : Height[b] <= Height[x]
    BY Zenon, <2>1, <2>2, Lowest
  <2>4. PICK b \in waiting : next.staller = mapBlocksInFlight[b]
    BY Zenon, <2>1, <2>3
  <2>5. b \in Blocks /\ InFlight(b)
    BY Zenon, <1>7, <1>10, <2>2
  <2>6. next.staller \in Peers
    BY Zenon, <2>4, <2>5 DEF FlightInv, InFlight
  <2>7. \E i \in DOMAIN vBlocksInFlight[next.staller] : vBlocksInFlight[next.staller][i] = b
    BY <2>4, <2>5, <2>6 DEF FlightInv, InFlightExact
  <2> QED
    BY <2>6, <2>7
<1>18. \A x, y \in take : Height[x] = Height[y] => x = y
  BY Zenon, <1>11, <1>14
<1> QED
  BY Zenon, <1>1, <1>12, <1>13, <1>16, <1>17, <1>18

(* MarkBlockAsInFlight for each of the blocks keeps the maps exact. *)
LEMMA RequestFlight ==
  ASSUME IndexInv, FlightInv, NEW p \in present, p \in Peers, nBlocksInFlight[p] < MaxInTransit,
         NEW best \in Index, Known(best), NEW from,
         NEW next, next = FindNextBlocksToDownload(p, best, from), Request(p, next),
         UNCHANGED <<status, present>>
  PROVE  FlightInv'
<1> DEFINE q == ByHeight(next.take)
           old == vBlocksInFlight[p]
           new == old \o q
<1>1. /\ next.take \in SUBSET Blocks /\ IsFiniteSet(next.take)
      /\ \A b \in next.take : Known(b) /\ ~InFlight(b)
      /\ \A x, y \in next.take : Height[x] = Height[y] => x = y
      /\ nBlocksInFlight[p] + Cardinality(next.take) <= MaxInTransit
      /\ next.staller # None => next.staller \in Peers /\ vBlocksInFlight[next.staller] # << >>
  BY NextBlocks
<1>2. /\ vBlocksInFlight' = [vBlocksInFlight EXCEPT ![p] = @ \o q]
      /\ nBlocksInFlight' = [nBlocksInFlight EXCEPT ![p] = @ + Len(q)]
  BY Zenon DEF Request, Rank, ByHeight
<1>3. /\ mapBlocksInFlight' = [b \in Blocks |-> IF b \in next.take THEN p ELSE mapBlocksInFlight[b]]
      /\ nStallingSince' = IF next.staller # None /\ nBlocksInFlight[p] = 0
           THEN [nStallingSince EXCEPT ![next.staller] = IF @ = None THEN 0 ELSE @] ELSE nStallingSince
  BY Zenon DEF Request
<1>4. /\ q \in Seq(Blocks) /\ Len(q) = Cardinality(next.take)
      /\ \A i, j \in DOMAIN q : q[i] = q[j] => i = j
      /\ \A b \in Blocks : b \in next.take <=> \E i \in DOMAIN q : q[i] = b
  BY Zenon, <1>1, Sorted
<1>c. Len(q) = Cardinality(next.take) /\ Len(q) \in Nat
  BY <1>4
<1>5. /\ old \in Seq(Blocks) /\ Len(old) = nBlocksInFlight[p] /\ nBlocksInFlight[p] \in Nat
      /\ \A i, j \in DOMAIN old : old[i] = old[j] => i = j
      /\ \A b \in Blocks : mapBlocksInFlight[b] = p <=> \E i \in DOMAIN old : old[i] = b
      /\ \A i \in DOMAIN old : Known(old[i])
      /\ nStallingSince[p] # None => old # << >>
  BY Zenon DEF FlightInv, InFlightExact
<1>6. vBlocksInFlight'[p] = new /\ nBlocksInFlight'[p] = nBlocksInFlight[p] + Len(q)
  BY Zenon, <1>2 DEF FlightInv
<1> HIDE DEF q, old
<1>7. \A i \in DOMAIN q : q[i] \in Blocks /\ q[i] \in next.take
  <2>1. q \in Seq(Blocks)
    BY Zenon, <1>4
  <2>2. \A b \in Blocks : (\E i \in DOMAIN q : q[i] = b) => b \in next.take
    BY Zenon, <1>4
  <2>3. \A i \in DOMAIN q : q[i] \in Blocks
    BY <2>1
  <2> QED
    BY Zenon, <2>2, <2>3
<1>8. \A i \in DOMAIN old : old[i] \in Blocks /\ old[i] \notin next.take
  <2>1. \A i \in DOMAIN old : old[i] \in Blocks
    BY <1>5
  <2>2. \A i \in DOMAIN old : mapBlocksInFlight[old[i]] = p
    BY Zenon, <1>5, <2>1
  <2>3. p # None
    BY Zenon, DownloadAssumption
  <2>4. \A i \in DOMAIN old : InFlight(old[i])
    BY Zenon, <2>2, <2>3 DEF InFlight
  <2> QED
    BY Zenon, <1>1, <2>1, <2>4
<1>9. /\ new \in Seq(Blocks) /\ Len(new) = Len(old) + Len(q)
      /\ \A i, j \in DOMAIN new : new[i] = new[j] => i = j
      /\ \A i \in DOMAIN old : i \in DOMAIN new /\ new[i] = old[i]
      /\ \A i \in DOMAIN q : Len(old) + i \in DOMAIN new /\ new[Len(old) + i] = q[i]
      /\ \A i \in DOMAIN new : \/ i \in DOMAIN old /\ new[i] = old[i]
                               \/ i - Len(old) \in DOMAIN q /\ new[i] = q[i - Len(old)]
  <2>1. \A i \in DOMAIN old : \A j \in DOMAIN q : old[i] # q[j]
    BY Zenon, <1>7, <1>8
  <2> QED
    BY <1>4, <1>5, <2>1, Concat, Zenon
<1> HIDE DEF new
<1>10. vBlocksInFlight' \in [Peers -> Seq(Blocks)] /\ nBlocksInFlight' \in [Peers -> Nat]
  <2>1. nBlocksInFlight[p] + Len(q) \in Nat
    BY <1>4, <1>5
  <2> QED
    BY Zenon, <1>2, <1>6, <1>9, <2>1 DEF FlightInv, new, old
<1>11. mapBlocksInFlight' \in [Blocks -> Peers \cup {None}]
  BY Zenon, <1>3 DEF FlightInv
<1>12. nStallingSince' \in [Peers -> Nat \cup {None}]
  BY Zenon, <1>1, <1>3 DEF FlightInv
<1>13. \A r \in Peers : nStallingSince'[r] # None => nStallingSince[r] # None \/ vBlocksInFlight[r] # << >>
  BY Zenon, <1>1, <1>3 DEF FlightInv
<1>14. \A b \in Blocks : mapBlocksInFlight'[b] = p <=> \E i \in DOMAIN new : new[i] = b
  <2> TAKE b \in Blocks
  <2>1. mapBlocksInFlight'[b] = p <=> b \in next.take \/ mapBlocksInFlight[b] = p
    BY Zenon, <1>3
  <2>2. (\E i \in DOMAIN new : new[i] = b) <=> (\E i \in DOMAIN old : old[i] = b) \/ (\E i \in DOMAIN q : q[i] = b)
    BY <1>9
  <2> QED
    BY Zenon, <1>4, <1>5, <2>1, <2>2
<1>15. ASSUME NEW i \in DOMAIN new PROVE status'[new[i]] # "none"
  <2>1. CASE i \in DOMAIN old /\ new[i] = old[i]
    BY Zenon, <1>5, <2>1 DEF Known
  <2>2. CASE i - Len(old) \in DOMAIN q /\ new[i] = q[i - Len(old)]
    BY Zenon, <1>1, <1>7, <2>2 DEF Known
  <2> QED
    BY Zenon, <1>9, <2>1, <2>2
<1>16. /\ nBlocksInFlight'[p] = Len(new) /\ Len(new) <= MaxInTransit
  <2>1. Len(old) = nBlocksInFlight[p] /\ nBlocksInFlight[p] \in Nat
    BY Zenon, <1>5
  <2>2. Len(new) = Len(old) + Len(q)
    BY Zenon, <1>9
  <2>3. nBlocksInFlight[p] + Cardinality(next.take) <= MaxInTransit
    BY Zenon, <1>1
  <2> QED
    BY Zenon, <1>6, <1>c, <2>1, <2>2, <2>3
<1>17. nStallingSince'[p] # None => new # << >>
  <2>1. ASSUME nStallingSince'[p] # None PROVE old # << >>
    BY Zenon, <1>5, <1>13, <2>1 DEF old
  <2>2. old # << >> => Len(old) # 0
    BY <1>5
  <2>3. Len(new) = Len(old) + Len(q)
    BY Zenon, <1>9
  <2>4. Len(old) \in Nat
    BY Zenon, <1>5
  <2>5. Len(old) # 0 => new # << >>
    BY <1>c, <2>3, <2>4
  <2> QED
    BY Zenon, <2>1, <2>2, <2>5
<1>18. ASSUME NEW r \in Peers, r # p
       PROVE  /\ vBlocksInFlight'[r] = vBlocksInFlight[r] /\ nBlocksInFlight'[r] = nBlocksInFlight[r]
              /\ \A b \in Blocks : mapBlocksInFlight'[b] = r <=> mapBlocksInFlight[b] = r
              /\ nStallingSince'[r] # None => vBlocksInFlight[r] # << >>
  <2>1. vBlocksInFlight'[r] = vBlocksInFlight[r] /\ nBlocksInFlight'[r] = nBlocksInFlight[r]
    BY Zenon, <1>2, <1>18 DEF FlightInv
  <2>2. \A b \in Blocks : mapBlocksInFlight'[b] = r <=> mapBlocksInFlight[b] = r
    BY Zenon, <1>1, <1>3, <1>18, DownloadAssumption DEF InFlight
  <2>3. nStallingSince'[r] # None => vBlocksInFlight[r] # << >>
    BY Zenon, <1>13 DEF FlightInv, InFlightExact
  <2> QED
    BY Zenon, <2>1, <2>2, <2>3
<1>19. InFlightExact'
  <2> SUFFICES ASSUME NEW r \in Peers
               PROVE  /\ nBlocksInFlight'[r] = Len(vBlocksInFlight'[r]) /\ Len(vBlocksInFlight'[r]) <= MaxInTransit
                      /\ \A b \in Blocks : mapBlocksInFlight'[b] = r
                           <=> \E i \in DOMAIN vBlocksInFlight'[r] : vBlocksInFlight'[r][i] = b
                      /\ \A i, j \in DOMAIN vBlocksInFlight'[r] :
                           vBlocksInFlight'[r][i] = vBlocksInFlight'[r][j] => i = j
                      /\ \A i \in DOMAIN vBlocksInFlight'[r] : status'[vBlocksInFlight'[r][i]] # "none"
                      /\ vBlocksInFlight'[r] # << >> => r \in present'
                      /\ nStallingSince'[r] # None => vBlocksInFlight'[r] # << >>
    BY Zenon DEF InFlightExact, Known
  <2>1. CASE r = p
    BY <1>6, <1>9, <1>14, <1>15, <1>16, <1>17, <2>1, Zenon
  <2>2. CASE r # p
    <3>1. /\ nBlocksInFlight[r] = Len(vBlocksInFlight[r]) /\ Len(vBlocksInFlight[r]) <= MaxInTransit
          /\ \A b \in Blocks : mapBlocksInFlight[b] = r
               <=> \E i \in DOMAIN vBlocksInFlight[r] : vBlocksInFlight[r][i] = b
          /\ \A i, j \in DOMAIN vBlocksInFlight[r] : vBlocksInFlight[r][i] = vBlocksInFlight[r][j] => i = j
          /\ \A i \in DOMAIN vBlocksInFlight[r] : Known(vBlocksInFlight[r][i])
          /\ vBlocksInFlight[r] # << >> => r \in present
      BY Zenon DEF FlightInv, InFlightExact
    <3>2. \A i \in DOMAIN vBlocksInFlight[r] : status'[vBlocksInFlight[r][i]] # "none"
      BY Zenon, <3>1 DEF Known
    <3>3. /\ vBlocksInFlight'[r] = vBlocksInFlight[r] /\ nBlocksInFlight'[r] = nBlocksInFlight[r]
          /\ \A b \in Blocks : mapBlocksInFlight'[b] = r <=> mapBlocksInFlight[b] = r
          /\ nStallingSince'[r] # None => vBlocksInFlight[r] # << >>
      BY Zenon, <1>18, <2>2
    <3> QED
      BY <3>1, <3>2, <3>3
  <2> QED
    BY Zenon, <2>1, <2>2
<1> QED
  BY Zenon, <1>10, <1>11, <1>12, <1>19 DEF FlightInv

-----------------------------------------------------------------------------
(* The operations, one after the other. *)

Download == IndexInv /\ KnowsInv /\ FlightInv

(* No block leaves the index. *)
Grows == \A x \in Index : status[x] # "none" => status'[x] # "none"

(* The lists stay as they are. *)
LEMMA FlightKept ==
  ASSUME FlightInv, Grows, UNCHANGED flight, present \subseteq present'
  PROVE  FlightInv'
<1>1. UNCHANGED <<vBlocksInFlight, nBlocksInFlight, mapBlocksInFlight, nStallingSince>>
  BY Zenon DEF flight
<1>2. ASSUME NEW p \in Peers, NEW i \in DOMAIN vBlocksInFlight[p]
      PROVE  status'[vBlocksInFlight[p][i]] # "none"
  <2>1. vBlocksInFlight[p][i] \in Index
    BY DEF FlightInv, Index
  <2>2. status[vBlocksInFlight[p][i]] # "none"
    BY Zenon DEF FlightInv, InFlightExact, Known
  <2> QED
    BY Zenon, <2>1, <2>2 DEF Grows
<1>3. InFlightExact'
  BY <1>1, <1>2 DEF FlightInv, InFlightExact, Known
<1> QED
  BY Zenon, <1>1, <1>3 DEF FlightInv

(* What the peers have stays known. *)
LEMMA KnowsKept ==
  ASSUME KnowsInv, Grows, UNCHANGED <<pindexBestKnownBlock, hashLastUnknownBlock>>
  PROVE  KnowsInv'
<1>1. \A p \in Peers : pindexBestKnownBlock'[p] # None => status'[pindexBestKnownBlock'[p]] # "none"
  BY Zenon DEF KnowsInv, Known, Grows
<1> QED
  BY Zenon, <1>1 DEF KnowsInv, Known

(* The index is left alone. *)
LEMMA IndexKept ==
  ASSUME IndexInv, UNCHANGED status
  PROVE  IndexInv' /\ Grows
  BY Zenon DEF IndexInv, Known, Grows

(* Nothing of this changes, but peers may come. *)
LEMMA DownloadKept ==
  ASSUME Download, present \subseteq present',
         UNCHANGED <<status, pindexBestKnownBlock, hashLastUnknownBlock, flight>>
  PROVE  Download' /\ Grows
<1>1. IndexInv /\ KnowsInv /\ FlightInv
  BY Zenon DEF Download
<1>2. IndexInv' /\ Grows
  BY Zenon, <1>1, IndexKept
<1>3. KnowsInv'
  BY Zenon, <1>1, <1>2, KnowsKept
<1>4. FlightInv'
  BY Zenon, <1>1, <1>2, FlightKept
<1> QED
  BY Zenon, <1>2, <1>3, <1>4 DEF Download

(* Nothing is in flight at the start. *)
LEMMA StartDownload ==
  ASSUME NEW start \in [Index -> Statuses], start[Genesis] = "data",
         \A b \in Blocks : start[b] # "none" => start[Prev[b]] # "none", DownloadInit(start)
  PROVE  Download
<1>1. IndexInv
  BY Zenon DEF DownloadInit, IndexInv, Known
<1>2. KnowsInv
  BY Zenon DEF DownloadInit, KnowsInv
<1>3. \A p \in Peers : p # None
  BY Zenon, DownloadAssumption
<1>4. MaxInTransit \in Nat
  BY Zenon, DownloadAssumption
<1>5. /\ vBlocksInFlight = [p \in Peers |-> << >>] /\ nBlocksInFlight = [p \in Peers |-> 0]
      /\ mapBlocksInFlight = [b \in Blocks |-> None] /\ nStallingSince = [p \in Peers |-> None]
  BY Zenon DEF DownloadInit
<1>6. InFlightExact
  BY <1>3, <1>4, <1>5 DEF InFlightExact
<1>7. FlightInv
  BY <1>5, <1>6 DEF FlightInv
<1> QED
  BY Zenon, <1>1, <1>2, <1>7 DEF Download

(* FinalizeNode takes the blocks of its peer, and no other, out of         *)
(* mapBlocksInFlight.                                                      *)
LEMMA ForgetDownload ==
  ASSUME Download, NEW p \in Peers, ForgetPeer(p)
  PROVE  Download' /\ Grows
<1>0. IndexInv /\ KnowsInv /\ FlightInv /\ UNCHANGED status
  BY Zenon DEF Download, ForgetPeer, chainVars
<1>1. /\ mapBlocksInFlight' = [b \in Blocks |->
           IF \E i \in DOMAIN vBlocksInFlight[p] : vBlocksInFlight[p][i] = b THEN None ELSE mapBlocksInFlight[b]]
      /\ vBlocksInFlight' = [vBlocksInFlight EXCEPT ![p] = << >>]
      /\ nBlocksInFlight' = [nBlocksInFlight EXCEPT ![p] = 0]
      /\ nStallingSince' = [nStallingSince EXCEPT ![p] = None]
      /\ present' = present \ {p}
  BY Zenon, <1>0 DEF ForgetPeer
<1>2. /\ vBlocksInFlight' \in [Peers -> Seq(Blocks)] /\ nBlocksInFlight' \in [Peers -> Nat]
      /\ mapBlocksInFlight' \in [Blocks -> Peers \cup {None}]
      /\ nStallingSince' \in [Peers -> Nat \cup {None}]
  BY <1>0, <1>1 DEF FlightInv
<1>3. \A b \in Blocks : \/ mapBlocksInFlight[b] = p /\ mapBlocksInFlight'[b] = None
                        \/ mapBlocksInFlight[b] # p /\ mapBlocksInFlight'[b] = mapBlocksInFlight[b]
  BY <1>0, <1>1 DEF FlightInv, InFlightExact
<1>4. \A r \in Peers : r # None
  BY Zenon, DownloadAssumption
<1>5. MaxInTransit \in Nat
  BY Zenon, DownloadAssumption
<1>6. InFlightExact'
  <2> SUFFICES ASSUME NEW r \in Peers
               PROVE  /\ nBlocksInFlight'[r] = Len(vBlocksInFlight'[r]) /\ Len(vBlocksInFlight'[r]) <= MaxInTransit
                      /\ \A b \in Blocks : mapBlocksInFlight'[b] = r
                           <=> \E i \in DOMAIN vBlocksInFlight'[r] : vBlocksInFlight'[r][i] = b
                      /\ \A i, j \in DOMAIN vBlocksInFlight'[r] :
                           vBlocksInFlight'[r][i] = vBlocksInFlight'[r][j] => i = j
                      /\ \A i \in DOMAIN vBlocksInFlight'[r] : status'[vBlocksInFlight'[r][i]] # "none"
                      /\ vBlocksInFlight'[r] # << >> => r \in present'
                      /\ nStallingSince'[r] # None => vBlocksInFlight'[r] # << >>
    BY Zenon DEF InFlightExact, Known
  <2>1. CASE r = p
    <3>1. vBlocksInFlight'[r] = << >> /\ nBlocksInFlight'[r] = 0 /\ nStallingSince'[r] = None
      BY Zenon, <1>0, <1>1, <2>1 DEF FlightInv
    <3>2. \A b \in Blocks : mapBlocksInFlight'[b] # r
      BY Zenon, <1>3, <1>4, <2>1
    <3>3. Len(vBlocksInFlight'[r]) = 0 /\ DOMAIN vBlocksInFlight'[r] = {}
      BY <3>1
    <3> QED
      BY <1>5, <3>1, <3>2, <3>3
  <2>2. CASE r # p
    <3>1. /\ vBlocksInFlight'[r] = vBlocksInFlight[r] /\ nBlocksInFlight'[r] = nBlocksInFlight[r]
          /\ nStallingSince'[r] = nStallingSince[r] /\ (r \in present => r \in present')
      BY Zenon, <1>0, <1>1, <2>2 DEF FlightInv
    <3>2. \A b \in Blocks : mapBlocksInFlight'[b] = r <=> mapBlocksInFlight[b] = r
      BY Zenon, <1>3, <1>4, <2>2
    <3>3. /\ nBlocksInFlight[r] = Len(vBlocksInFlight[r]) /\ Len(vBlocksInFlight[r]) <= MaxInTransit
          /\ \A b \in Blocks : mapBlocksInFlight[b] = r
               <=> \E i \in DOMAIN vBlocksInFlight[r] : vBlocksInFlight[r][i] = b
          /\ \A i, j \in DOMAIN vBlocksInFlight[r] : vBlocksInFlight[r][i] = vBlocksInFlight[r][j] => i = j
          /\ \A i \in DOMAIN vBlocksInFlight[r] : Known(vBlocksInFlight[r][i])
          /\ vBlocksInFlight[r] # << >> => r \in present
          /\ nStallingSince[r] # None => vBlocksInFlight[r] # << >>
      BY Zenon, <1>0 DEF FlightInv, InFlightExact
    <3>4. \A i \in DOMAIN vBlocksInFlight[r] : status'[vBlocksInFlight[r][i]] # "none"
      BY Zenon, <1>0, <3>3 DEF Known
    <3> QED
      BY <3>1, <3>2, <3>3, <3>4
  <2> QED
    BY Zenon, <2>1, <2>2
<1>7. IndexInv' /\ Grows
  BY Zenon, <1>0, IndexKept
<1>8. KnowsInv'
  BY Zenon, <1>0 DEF KnowsInv, ForgetPeer, Known
<1>9. FlightInv'
  BY Zenon, <1>2, <1>6 DEF FlightInv
<1> QED
  BY Zenon, <1>7, <1>8, <1>9 DEF Download

(* An inv names a block that its peer has. *)
LEMMA UpdateDownload ==
  ASSUME Download, NEW p \in Peers, NEW b \in Blocks, UpdateBlockAvailability(p, b),
         UNCHANGED <<status, flight, present>>
  PROVE  Download' /\ Grows
<1> DEFINE new == IF Known(b) THEN Better(AvailableBest(p), b) ELSE AvailableBest(p)
           unknown == IF Known(b) THEN StillUnknown(p) ELSE b
<1>0. IndexInv /\ KnowsInv /\ FlightInv
  BY Zenon DEF Download
<1>1. b \in Index
  BY Zenon DEF Index
<1>2. /\ pindexBestKnownBlock' = [pindexBestKnownBlock EXCEPT ![p] = new]
      /\ hashLastUnknownBlock' = [hashLastUnknownBlock EXCEPT ![p] = unknown]
  BY Zenon DEF UpdateBlockAvailability
<1>3. /\ AvailableBest(p) \in Index \cup {None} /\ StillUnknown(p) \in Blocks \cup {None}
      /\ AvailableBest(p) # None => Known(AvailableBest(p))
  BY Zenon, <1>0, Available
<1>4. new \in Index \cup {None} /\ unknown \in Blocks \cup {None}
  BY Zenon, <1>1, <1>3 DEF Better
<1>5. new # None => status[new] # "none"
  BY Zenon, <1>3 DEF Better, Known
<1> HIDE DEF new, unknown
<1>6. /\ pindexBestKnownBlock' \in [Peers -> Index \cup {None}]
      /\ hashLastUnknownBlock' \in [Peers -> Blocks \cup {None}]
  BY Zenon, <1>0, <1>2, <1>4 DEF KnowsInv
<1>7. \A r \in Peers : pindexBestKnownBlock'[r] # None => status'[pindexBestKnownBlock'[r]] # "none"
  BY Zenon, <1>0, <1>2, <1>5 DEF KnowsInv, Known
<1>8. KnowsInv'
  BY Zenon, <1>6, <1>7 DEF KnowsInv, Known
<1>9. IndexInv' /\ Grows
  BY Zenon, <1>0, IndexKept
<1> QED
  BY Zenon, <1>0, <1>8, <1>9, FlightKept DEF Download

(* Blocks are asked for while the peer has room. *)
LEMMA RequestDownload ==
  ASSUME Download, NEW p \in Peers, p \in present, nBlocksInFlight[p] < MaxInTransit, RequestBlocks(p),
         UNCHANGED <<status, present>>
  PROVE  Download' /\ Grows
<1> DEFINE best == AvailableBest(p)
<1>0. IndexInv /\ KnowsInv /\ FlightInv
  BY Zenon DEF Download
<1>1. /\ pindexBestKnownBlock' = [pindexBestKnownBlock EXCEPT ![p] = best]
      /\ hashLastUnknownBlock' = [hashLastUnknownBlock EXCEPT ![p] = StillUnknown(p)]
      /\ \/ UNCHANGED flight
         \/ best # None /\ \E from, next : next = FindNextBlocksToDownload(p, best, from) /\ Request(p, next)
  BY Zenon DEF RequestBlocks
<1>2. /\ best \in Index \cup {None} /\ StillUnknown(p) \in Blocks \cup {None}
      /\ best # None => Known(best)
  BY Zenon, <1>0, Available
<1> HIDE DEF best
<1>3. IndexInv' /\ Grows
  BY Zenon, <1>0, IndexKept
<1>4. /\ pindexBestKnownBlock' \in [Peers -> Index \cup {None}]
      /\ hashLastUnknownBlock' \in [Peers -> Blocks \cup {None}]
  BY Zenon, <1>0, <1>1, <1>2 DEF KnowsInv
<1>5. \A r \in Peers : pindexBestKnownBlock'[r] # None => status'[pindexBestKnownBlock'[r]] # "none"
  BY Zenon, <1>0, <1>1, <1>2 DEF KnowsInv, Known
<1>6. KnowsInv'
  BY Zenon, <1>4, <1>5 DEF KnowsInv, Known
<1>7. CASE UNCHANGED flight
  BY Zenon, <1>0, <1>3, <1>6, <1>7, FlightKept DEF Download
<1>8. CASE best # None /\ \E from, next : next = FindNextBlocksToDownload(p, best, from) /\ Request(p, next)
  <2>1. PICK from, next : next = FindNextBlocksToDownload(p, best, from) /\ Request(p, next)
    BY Zenon, <1>8
  <2>2. best \in Index /\ Known(best)
    BY Zenon, <1>2, <1>8
  <2>3. FlightInv'
    BY Zenon, <1>0, <2>1, <2>2, RequestFlight
  <2> QED
    BY Zenon, <1>3, <1>6, <2>3 DEF Download
<1> QED
  BY Zenon, <1>1, <1>7, <1>8

(* A block is processed: the index grows. *)
LEMMA ProcessDownload ==
  ASSUME Download, NEW b \in Blocks, NEW v \in Verdicts, Known(Prev[b]), ProcessNewBlock(b, v),
         UNCHANGED <<peerBlocks, flight, present>>
  PROVE  Download' /\ Grows
<1>0. IndexInv /\ KnowsInv /\ FlightInv
  BY Zenon DEF Download
<1>1. IndexInv' /\ \A x \in Index : Known(x) => Known(x)'
  BY Zenon, <1>0, ProcessIndex
<1>2. Grows
  BY Zenon, <1>1 DEF Known, Grows
<1>3. KnowsInv'
  BY Zenon, <1>0, <1>2, KnowsKept DEF peerBlocks
<1>4. FlightInv'
  BY Zenon, <1>0, <1>2, FlightKept
<1> QED
  BY Zenon, <1>1, <1>2, <1>3, <1>4 DEF Download

(* The clock: who did not stall does not. *)
LEMMA AgeDownload ==
  ASSUME Download, Age, UNCHANGED <<status, peerBlocks, present>>
  PROVE  Download' /\ Grows
<1>0. IndexInv /\ KnowsInv /\ FlightInv
  BY Zenon DEF Download
<1>1. /\ UNCHANGED <<vBlocksInFlight, nBlocksInFlight, mapBlocksInFlight>>
      /\ nStallingSince' = [p \in Peers |->
           IF nStallingSince[p] # None /\ ~Stalled(p) THEN nStallingSince[p] + 1 ELSE nStallingSince[p]]
  BY Zenon DEF Age
<1>2. IndexInv' /\ Grows
  BY Zenon, <1>0, IndexKept
<1>3. KnowsInv'
  BY Zenon, <1>0, <1>2, KnowsKept DEF peerBlocks
<1>4. \A p \in Peers : /\ nStallingSince'[p] \in Nat \cup {None}
                       /\ nStallingSince'[p] # None => nStallingSince[p] # None
  BY <1>0, <1>1 DEF FlightInv
<1>5. nStallingSince' \in [Peers -> Nat \cup {None}]
  BY Zenon, <1>1, <1>4
<1>6. InFlightExact'
  BY <1>0, <1>1, <1>4 DEF FlightInv, InFlightExact, Known
<1>7. FlightInv'
  BY Zenon, <1>0, <1>1, <1>5, <1>6 DEF FlightInv
<1> QED
  BY Zenon, <1>2, <1>3, <1>7 DEF Download

(* A block that is not in the index is in flight from nobody. *)
LEMMA UnknownNotInFlight ==
  ASSUME FlightInv, NEW b \in Blocks, ~Known(b)
  PROVE  ~InFlight(b)
<1>1. mapBlocksInFlight[b] \in Peers \cup {None}
  BY Zenon DEF FlightInv
<1>2. ASSUME NEW r \in Peers, mapBlocksInFlight[b] = r PROVE FALSE
  <2>1. \E i \in DOMAIN vBlocksInFlight[r] : vBlocksInFlight[r][i] = b
    BY <1>2 DEF FlightInv, InFlightExact
  <2>2. \A i \in DOMAIN vBlocksInFlight[r] : Known(vBlocksInFlight[r][i])
    BY Zenon DEF FlightInv, InFlightExact
  <2> QED
    BY Zenon, <2>1, <2>2
<1> QED
  BY Zenon, <1>1, <1>2 DEF InFlight

-----------------------------------------------------------------------------
(* The whole of net_processing. *)

(* mapNodeState has the nodes that are linked or wait for deletion, and    *)
(* the message handler works on nodes it holds a reference to.             *)
NodesInv ==
  /\ world \in Worlds
  /\ node \in [Peers -> {"new", "linked", "removed", "gone"}]
  /\ present = {p \in Peers : node[p] \in {"linked", "removed"}}
  /\ m = [pc |-> m.pc, refs |-> m.refs, left |-> m.left, cur |-> m.cur, blk |-> m.blk, dos |-> m.dos]
  /\ m.refs \subseteq present /\ m.left \subseteq m.refs
  /\ m.pc \notin {"idle", "round"} => m.cur \in m.refs

(* A peer that does not exist has not shaken hands. *)
CountsInv ==
  /\ handshake \in [Peers -> 0..2]
  /\ \A p \in Peers \ present : handshake[p] = 0
  /\ CountsExact

OrphansInv ==
  /\ mapOrphanTransactions \in [Txs -> Peers \cup {None}]
  /\ mapOrphanTransactionsByPrev \in [Txs -> SUBSET Txs]
  /\ OrphansExact

Inv == NodesInv /\ CountsInv /\ OrphansInv

-----------------------------------------------------------------------------
(* Init. *)

(* At the start no orphan is known, nobody syncs, and the peers that are   *)
(* up have shaken hands.                                                   *)
LEMMA InitInv == Init => Inv
<1> SUFFICES ASSUME Init PROVE Inv
  BY Zenon
<1>1. world \in Worlds /\ world.up \subseteq Peers
  BY Zenon, NetAssumption DEF Init
<1>2. NodesInv
  BY Zenon, <1>1 DEF Init, NodesInv, Idle
<1>3. {p \in present : Preferred(p)} = world.up \ world.inbound
  BY <1>1 DEF Init, Preferred
<1>4. CountsInv
  <2>1. CountsExact
    BY <1>1, <1>3, FS_EmptySet, Zenon DEF Init, CountsExact
  <2> QED
    BY <1>1, <2>1 DEF Init, CountsInv
<1>5. Orphans = {}
  BY Zenon DEF Init, RelayInit, Orphans
<1>6. OrphansInv
  BY <1>5, FS_EmptySet, RelayAssumption DEF Init, RelayInit, OrphansInv, OrphansExact
<1> QED
  BY Zenon, <1>2, <1>4, <1>6 DEF Inv

-----------------------------------------------------------------------------
(* The nodes and the references. *)

(* What InitializeNode, RemoveNode and FinalizeNode do to a node keeps     *)
(* every reference of the message handler valid: FinalizeNode waits until  *)
(* there is none.                                                          *)
LEMMA SocketNodes ==
  ASSUME NodesInv, NEW p \in Peers, InitializeNode(p) \/ RemoveNode(p) \/ FinalizeNode(p)
  PROVE  NodesInv'
<1>1. CASE InitializeNode(p)
  BY Zenon, <1>1 DEF NodesInv, InitializeNode
<1>2. CASE RemoveNode(p)
  BY Zenon, <1>2 DEF NodesInv, RemoveNode, downloadVars
<1>3. CASE FinalizeNode(p)
  BY Zenon, <1>3 DEF NodesInv, FinalizeNode, ForgetPeer
<1> QED
  BY Zenon, <1>1, <1>2, <1>3

(* ProcessMessages and SendMessages go on with a node of the copy of       *)
(* vNodes.                                                                 *)
LEMMA HandleNodes ==
  ASSUME NodesInv, NEW p \in Peers, Handle(p)
  PROVE  NodesInv' /\ p \in present /\ present' = present
<1>1. PICK type, pc, blk : TakeBlock(p, type, pc, blk) /\ pc \in {"send", "orphans", "block"}
  BY Zenon DEF Handle, TooEarly, OnVersion, OnVerack, OnInv, OnInvTx, OnTx, OnBlock, Take
<1>2. present' = present
  BY Zenon DEF Handle, TooEarly, OnVersion, OnVerack, OnInv, OnInvTx, OnTx, OnBlock, downloadVars
<1> QED
  BY Zenon, <1>1, <1>2 DEF NodesInv, TakeBlock

(* The same of SendMessages. *)
LEMMA SendNodes ==
  ASSUME NodesInv, NEW p \in Peers, SendNothing(p) \/ SendMessages(p)
  PROVE  NodesInv' /\ p \in present /\ present' = present
<1>1. Sending(p) /\ Sent(p) /\ UNCHANGED <<present, world, node>>
  BY Zenon DEF SendNothing, SendMessages, downloadVars, connVars
<1> QED
  BY Zenon, <1>1 DEF NodesInv, Sending, Sent

(* The other steps of the message handler take references to linked nodes, *)
(* drop all of them, or keep them.                                         *)
LEMMA HandlerNodes ==
  ASSUME NodesInv,
         \/ StartRound \/ EndRound \/ OrphanWork \/ OnBlockProcess \/ OnBlockEnd
         \/ \E p \in Peers : SkipNode(p)
  PROVE  NodesInv' /\ present' = present
<1>1. CASE StartRound
  BY Zenon, <1>1 DEF NodesInv, StartRound, vNodes, downloadVars, connVars
<1>2. CASE EndRound
  BY Zenon, <1>2 DEF NodesInv, EndRound, Idle, downloadVars, connVars
<1>3. CASE OrphanWork
  BY Zenon, <1>3 DEF NodesInv, OrphanWork, connVars
<1>4. CASE OnBlockProcess
  <2>1. PICK dos : m' = [m EXCEPT !.pc = "accepted", !.dos = dos]
    BY Zenon, <1>4 DEF OnBlockProcess
  <2>2. UNCHANGED <<world, node, present>> /\ m.pc = "block"
    BY Zenon, <1>4 DEF OnBlockProcess, connVars
  <2> QED
    BY Zenon, <2>1, <2>2 DEF NodesInv
<1>5. CASE OnBlockEnd
  BY Zenon, <1>5 DEF NodesInv, OnBlockEnd
<1>6. CASE \E p \in Peers : SkipNode(p)
  BY <1>6 DEF NodesInv, SkipNode, downloadVars, connVars
<1> QED
  BY Zenon, <1>1, <1>2, <1>3, <1>4, <1>5, <1>6

-----------------------------------------------------------------------------
(* The counts. *)

PreferredPeers == {p \in present : Preferred(p)}

(* Both counts are of finite sets. *)
LEMMA CountsFinite ==
  ASSUME NodesInv, CountsInv
  PROVE  /\ IsFiniteSet(fSyncStarted) /\ nSyncStarted \in Nat
         /\ IsFiniteSet(PreferredPeers) /\ nPreferredDownload = Cardinality(PreferredPeers)
         /\ nPreferredDownload \in Nat
<1>1. fSyncStarted \in SUBSET Peers /\ PreferredPeers \in SUBSET Peers
  BY Zenon DEF NodesInv, CountsInv, CountsExact, PreferredPeers
<1>2. IsFiniteSet(fSyncStarted) /\ IsFiniteSet(PreferredPeers)
  BY Zenon, <1>1, NetAssumption, FS_Subset
<1>3. Cardinality(fSyncStarted) \in Nat /\ Cardinality(PreferredPeers) \in Nat
  BY Zenon, <1>2, FS_CardinalityType
<1> QED
  BY Zenon, <1>2, <1>3 DEF CountsInv, CountsExact, PreferredPeers

(* A step that leaves handshake, mapNodeState and the counts alone.        *)
LEMMA CountsKept ==
  ASSUME CountsInv, UNCHANGED <<world, present, handshake, syncVars>>
  PROVE  CountsInv'
<1>1. PreferredPeers' = PreferredPeers
  BY Zenon DEF PreferredPeers, Preferred
<1>2. CountsExact'
  BY Zenon, <1>1 DEF CountsInv, CountsExact, PreferredPeers, syncVars
<1> QED
  BY Zenon, <1>2 DEF CountsInv

(* A new node is not counted yet. *)
LEMMA CountsInitialize ==
  ASSUME NodesInv, CountsInv, NEW p \in Peers, InitializeNode(p)
  PROVE  CountsInv'
<1>1. handshake[p] = 0 /\ handshake \in [Peers -> 0..2]
  BY Zenon DEF NodesInv, CountsInv, InitializeNode
<1>2. PreferredPeers' = PreferredPeers
  BY <1>1 DEF InitializeNode, PreferredPeers, Preferred
<1>3. CountsExact'
  BY Zenon, <1>2 DEF CountsInv, CountsExact, PreferredPeers, InitializeNode, syncVars
<1> QED
  BY Zenon, <1>3 DEF CountsInv, InitializeNode

(* FinalizeNode takes the node out of both counts. *)
LEMMA CountsFinalize ==
  ASSUME NodesInv, CountsInv, NEW p \in Peers, FinalizeNode(p)
  PROVE  CountsInv'
<1>1. p \in present /\ present' = present \ {p} /\ handshake' = [handshake EXCEPT ![p] = 0]
  BY Zenon DEF NodesInv, FinalizeNode, ForgetPeer
<1>2. PreferredPeers' = PreferredPeers \ {p} /\ (p \in PreferredPeers <=> Preferred(p))
  BY Zenon, <1>1 DEF PreferredPeers, Preferred, FinalizeNode, CountsInv, NodesInv
<1>3. nPreferredDownload' = Cardinality(PreferredPeers')
  BY Zenon, <1>2, CountsFinite, FS_RemoveElement DEF FinalizeNode
<1>4. nSyncStarted' = Cardinality(fSyncStarted')
  BY Zenon, CountsFinite, FS_RemoveElement DEF FinalizeNode, CountsInv, CountsExact
<1>5. fSyncStarted' \subseteq present'
  BY Zenon, <1>1 DEF FinalizeNode, CountsInv, CountsExact
<1>6. CountsExact'
  BY Zenon, <1>3, <1>4, <1>5 DEF CountsExact, PreferredPeers
<1> QED
  BY <1>1, <1>6 DEF CountsInv

(* The handlers: only VERSION changes a count, and only the first one of a *)
(* node that goes on.                                                      *)
LEMMA CountsHandle ==
  ASSUME NodesInv, CountsInv, NEW p \in Peers, Handle(p)
  PROVE  CountsInv'
<1>0. p \in present /\ present' = present /\ present \subseteq Peers
  BY Zenon, HandleNodes DEF NodesInv
<1>1. world' = world
  BY Zenon DEF Handle, TooEarly, OnVersion, OnVerack, OnInv, OnInvTx, OnTx, OnBlock, Take, TakeBlock
<1>2. CASE TooEarly(p) \/ OnInv(p) \/ OnInvTx(p) \/ OnTx(p) \/ OnBlock(p)
  <2>1. UNCHANGED <<handshake, syncVars>>
    BY Zenon, <1>2 DEF TooEarly, OnInv, OnInvTx, OnTx, OnBlock
  <2> QED
    BY Zenon, <1>0, <1>1, <2>1, CountsKept
<1>3. CASE OnVerack(p)
  <2>1. UNCHANGED syncVars /\ handshake[p] > 0 /\ handshake' = [handshake EXCEPT ![p] = 2]
    BY Zenon, <1>3 DEF OnVerack
  <2>2. PreferredPeers' = PreferredPeers
    BY <1>0, <1>1, <2>1 DEF PreferredPeers, Preferred, CountsInv
  <2>3. CountsExact'
    BY Zenon, <1>0, <2>1, <2>2 DEF CountsInv, CountsExact, PreferredPeers, syncVars
  <2> QED
    BY <1>0, <2>1, <2>3 DEF CountsInv
<1>4. CASE OnVersion(p) /\ UNCHANGED <<handshake, nPreferredDownload>>
  <2>1. UNCHANGED syncVars
    BY Zenon, <1>4 DEF OnVersion, syncVars
  <2> QED
    BY Zenon, <1>0, <1>1, <1>4, <2>1, CountsKept
<1>5. CASE OnVersion(p) /\ ~UNCHANGED <<handshake, nPreferredDownload>>
  <2>1. /\ handshake[p] = 0 /\ handshake' = [handshake EXCEPT ![p] = 1]
        /\ nPreferredDownload' = IF p \in world.inbound THEN nPreferredDownload ELSE nPreferredDownload + 1
        /\ UNCHANGED <<fSyncStarted, nSyncStarted>>
    BY Zenon, <1>5 DEF OnVersion
  <2>2. /\ p \notin PreferredPeers
        /\ PreferredPeers' = IF p \in world.inbound THEN PreferredPeers ELSE PreferredPeers \cup {p}
    <3>1. handshake'[p] = 1 /\ \A r \in present : r # p => handshake'[r] = handshake[r]
      BY Zenon, <1>0, <2>1 DEF CountsInv, NodesInv
    <3>2. \A r \in present : r # p => (Preferred(r)' <=> Preferred(r))
      BY Zenon, <1>1, <3>1 DEF Preferred
    <3>3. ~Preferred(p) /\ (Preferred(p)' <=> p \notin world.inbound)
      BY <1>1, <2>1, <3>1 DEF Preferred
    <3>4. \A r \in present : Preferred(r)' <=> Preferred(r) \/ (r = p /\ p \notin world.inbound)
      BY Zenon, <3>2, <3>3
    <3>5. PreferredPeers' = {r \in present : Preferred(r) \/ (r = p /\ p \notin world.inbound)}
      BY Zenon, <1>0, <3>4 DEF PreferredPeers
    <3> QED
      BY Zenon, <1>0, <3>3, <3>5 DEF PreferredPeers
  <2>3. nPreferredDownload' = Cardinality(PreferredPeers')
    BY Zenon, <2>1, <2>2, CountsFinite, FS_AddElement
  <2>4. CountsExact'
    BY Zenon, <1>0, <2>1, <2>3 DEF CountsInv, CountsExact, PreferredPeers
  <2> QED
    BY <1>0, <2>1, <2>4 DEF CountsInv
<1> QED
  BY Zenon, <1>2, <1>3, <1>4, <1>5 DEF Handle

(* SendMessages counts a node whose sync it starts, once. *)
LEMMA CountsSend ==
  ASSUME NodesInv, CountsInv, NEW p \in Peers, SendNothing(p) \/ SendMessages(p)
  PROVE  CountsInv'
<1>0. p \in present /\ present' = present
  BY Zenon, SendNodes
<1>1. CASE UNCHANGED syncVars
  <2>1. UNCHANGED <<world, handshake>>
    BY Zenon DEF SendNothing, SendMessages, connVars
  <2> QED
    BY Zenon, <1>0, <1>1, <2>1, CountsKept
<1>2. CASE ~UNCHANGED syncVars
  <2>1. /\ p \notin fSyncStarted /\ fSyncStarted' = fSyncStarted \cup {p}
        /\ nSyncStarted' = nSyncStarted + 1
        /\ UNCHANGED <<nPreferredDownload, world, handshake>>
    BY Zenon, <1>2 DEF SendNothing, SendMessages, syncVars
  <2>2. nSyncStarted' = Cardinality(fSyncStarted')
    BY Zenon, <2>1, CountsFinite, FS_AddElement DEF CountsInv, CountsExact
  <2>3. PreferredPeers' = PreferredPeers
    BY Zenon, <1>0, <2>1 DEF PreferredPeers, Preferred
  <2>4. CountsExact'
    BY Zenon, <1>0, <2>1, <2>2, <2>3 DEF CountsInv, CountsExact, PreferredPeers
  <2> QED
    BY Zenon, <1>0, <2>1, <2>4 DEF CountsInv
<1> QED
  BY Zenon, <1>1, <1>2

-----------------------------------------------------------------------------
(* The orphans. *)

OrphansIn(om) == {t \in Txs : om[t] # None}

(* The orphans are finitely many. *)
LEMMA OrphansFinite ==
  ASSUME NEW S \in SUBSET Txs
  PROVE  IsFiniteSet(S) /\ Cardinality(S) \in Nat
  BY Zenon, RelayAssumption, FS_Subset, FS_CardinalityType

(* LimitOrphanTxSize leaves no more than -maxorphantx, and adds nothing.   *)
LEMMA LimitLemma ==
  ASSUME NEW om \in [Txs -> Peers \cup {None}], NEW left \in LimitOrphanTxSize(om)
  PROVE  /\ left \in [Txs -> Peers \cup {None}]
         /\ \A t \in Txs : left[t] \in {om[t], None}
         /\ Cardinality(OrphansIn(left)) <= MaxOrphans
<1> DEFINE all == OrphansIn(om)
           n == Cardinality(all)
<1>1. PICK S \in SUBSET all :
        /\ Cardinality(S) = IF n > MaxOrphans THEN n - MaxOrphans ELSE 0
        /\ left = [t \in Txs |-> IF t \in S THEN None ELSE om[t]]
  BY Zenon DEF LimitOrphanTxSize, OrphansIn
<1>2. OrphansIn(left) = all \ S /\ all \cap S = S
  BY Zenon, <1>1 DEF OrphansIn
<1>3. IsFiniteSet(all) /\ n \in Nat
  BY Zenon, OrphansFinite DEF OrphansIn
<1>4. Cardinality(OrphansIn(left)) = n - Cardinality(S)
  BY Zenon, <1>2, <1>3, FS_Difference
<1>5. Cardinality(OrphansIn(left)) <= MaxOrphans
  <2> HIDE DEF n, all
  <2> QED
    BY <1>1, <1>3, <1>4, RelayAssumption
<1> QED
  BY Zenon, <1>1, <1>5

(* The index by previous transaction goes with the orphans, whatever is    *)
(* added or erased.                                                        *)
LEMMA SetOrphansLemma ==
  ASSUME OrphansInv, NEW om \in [Txs -> Peers \cup {None}], SetOrphans(om),
         \A t \in OrphansIn(om) : om[t] \in present',
         Cardinality(OrphansIn(om)) <= MaxOrphans
  PROVE  OrphansInv'
<1>1. Orphans' = OrphansIn(om) /\ mapOrphanTransactions' = om
  BY Zenon DEF Orphans, OrphansIn, SetOrphans
<1>2. \A x \in Txs : mapOrphanTransactionsByPrev'[x] = {t \in OrphansIn(om) : x \in Parents[t]}
  <2> SUFFICES ASSUME NEW x \in Txs
               PROVE  mapOrphanTransactionsByPrev'[x] = {t \in OrphansIn(om) : x \in Parents[t]}
    BY Zenon
  <2>1. mapOrphanTransactionsByPrev'[x] =
          (mapOrphanTransactionsByPrev[x] \ {t \in Orphans : om[t] = None /\ x \in Parents[t]})
          \cup {t \in Txs \ Orphans : om[t] # None /\ x \in Parents[t]}
    BY Zenon DEF SetOrphans
  <2>2. mapOrphanTransactionsByPrev[x] = {t \in Orphans : x \in Parents[t]}
    BY Zenon DEF OrphansInv, OrphansExact
  <2> QED
    BY Zenon, <2>1, <2>2 DEF OrphansIn, Orphans
<1>3. OrphansExact'
  BY Zenon, <1>1, <1>2 DEF OrphansExact
<1>4. mapOrphanTransactionsByPrev' \in [Txs -> SUBSET Txs]
  BY Zenon DEF SetOrphans, OrphansInv
<1> QED
  BY Zenon, <1>1, <1>3, <1>4 DEF OrphansInv

(* Erasing leaves fewer. *)
LEMMA EraseLemma ==
  ASSUME OrphansInv, NEW S, EraseOrphans(S), \A t \in Orphans \ S : mapOrphanTransactions[t] \in present'
  PROVE  OrphansInv'
<1> DEFINE om == [t \in Txs |-> IF t \in S THEN None ELSE mapOrphanTransactions[t]]
<1>1. om \in [Txs -> Peers \cup {None}]
  BY Zenon DEF OrphansInv
<1>2. OrphansIn(om) = Orphans \ S
  BY Zenon DEF OrphansIn, Orphans
<1>3. IsFiniteSet(Orphans) /\ Cardinality(Orphans) \in Nat
  BY Zenon, OrphansFinite DEF Orphans
<1>4. Cardinality(OrphansIn(om)) \in Nat /\ Cardinality(OrphansIn(om)) <= Cardinality(Orphans)
  <2>1. Orphans \ S \in SUBSET Orphans /\ Orphans \ S \in SUBSET Txs
    BY Zenon DEF Orphans
  <2>2. Cardinality(Orphans \ S) <= Cardinality(Orphans)
    BY Zenon, <1>3, <2>1, FS_Subset
  <2>3. Cardinality(Orphans \ S) \in Nat
    BY Zenon, <2>1, OrphansFinite
  <2> QED
    BY Zenon, <1>2, <2>2, <2>3
<1>5. Cardinality(OrphansIn(om)) <= MaxOrphans
  <2>1. Cardinality(Orphans) <= MaxOrphans /\ MaxOrphans \in Nat
    BY Zenon, RelayAssumption DEF OrphansInv, OrphansExact
  <2> HIDE DEF om
  <2> QED
    BY <1>3, <1>4, <2>1
<1>6. \A t \in OrphansIn(om) : om[t] \in present'
  BY Zenon, <1>2 DEF Orphans
<1>7. SetOrphans(om)
  BY Zenon DEF EraseOrphans
<1> HIDE DEF om
<1> QED
  BY Zenon, <1>1, <1>5, <1>6, <1>7, SetOrphansLemma

(* A step that leaves the orphans alone and deletes no node. *)
LEMMA OrphansKept ==
  ASSUME OrphansInv, UNCHANGED orphanVars, present \subseteq present'
  PROVE  OrphansInv'
<1>1. Orphans' = Orphans
  BY Zenon DEF Orphans, orphanVars
<1>2. OrphansExact'
  BY Zenon, <1>1 DEF OrphansInv, OrphansExact, orphanVars
<1> QED
  BY Zenon, <1>2 DEF OrphansInv, orphanVars

(* TX stores an orphan of a peer that exists; FinalizeNode erases those of *)
(* the peer (EraseOrphansFor).                                             *)
LEMMA OrphansTx ==
  ASSUME NodesInv, OrphansInv, NEW p \in Peers, OnTx(p)
  PROVE  OrphansInv'
<1>0. p \in present /\ present' = present
  BY Zenon, HandleNodes DEF Handle
<1>1. CASE UNCHANGED orphanVars
  BY Zenon, <1>0, <1>1, OrphansKept
<1>2. CASE ~UNCHANGED orphanVars
  <2> DEFINE om == AddOrphanTx(mapOrphanTransactions, p, Of(p))
  <2>1. PICK left \in LimitOrphanTxSize(om) : SetOrphans(left)
    BY Zenon, <1>2 DEF OnTx, TxArrives
  <2>2. om \in [Txs -> Peers \cup {None}] /\ \A t \in Txs : om[t] \in {mapOrphanTransactions[t], p}
    BY Zenon DEF AddOrphanTx, OrphansInv
  <2> HIDE DEF om
  <2>3. /\ left \in [Txs -> Peers \cup {None}]
        /\ \A t \in Txs : left[t] \in {om[t], None}
        /\ Cardinality(OrphansIn(left)) <= MaxOrphans
    BY Zenon, <2>2, LimitLemma
  <2>4. \A t \in OrphansIn(left) : left[t] \in present'
    BY Zenon, <1>0, <2>2, <2>3 DEF OrphansIn, OrphansInv, OrphansExact, Orphans
  <2> QED
    BY Zenon, <2>1, <2>3, <2>4, SetOrphansLemma
<1> QED
  BY Zenon, <1>1, <1>2

(* FinalizeNode. *)
LEMMA OrphansFinalize ==
  ASSUME OrphansInv, NEW p \in Peers, FinalizeNode(p)
  PROVE  OrphansInv'
<1>1. present' = present \ {p} /\ EraseOrphans({t \in Txs : mapOrphanTransactions[t] = p})
  BY Zenon DEF FinalizeNode, ForgetPeer
<1>2. \A t \in Orphans \ {t \in Txs : mapOrphanTransactions[t] = p} : mapOrphanTransactions[t] \in present'
  BY Zenon, <1>1 DEF OrphansInv, OrphansExact, Orphans
<1> QED
  BY Zenon, <1>1, <1>2, EraseLemma

(* The loop over the orphans erases at its end. *)
LEMMA OrphansWork ==
  ASSUME OrphansInv, OrphanWork
  PROVE  OrphansInv'
<1>0. present' = present
  BY Zenon DEF OrphanWork
<1>1. CASE UNCHANGED orphanVars
  BY Zenon, <1>0, <1>1, OrphansKept
<1>2. CASE EraseOrphans(loop.erase)
  BY Zenon, <1>0, <1>2, EraseLemma DEF OrphansInv, OrphansExact
<1> QED
  BY Zenon, <1>1, <1>2 DEF OrphanWork, NextWork, TryOrphan, EndOfWork

-----------------------------------------------------------------------------
(* Every step. *)

(* What leaves all three parts alone. *)
LEMMA OtherSteps ==
  ASSUME Inv, UNCHANGED <<world, node, present, m, handshake, syncVars, orphanVars>>
  PROVE  Inv'
<1>1. NodesInv'
  BY Zenon DEF Inv, NodesInv
<1> QED
  BY Zenon, <1>1, CountsKept, OrphansKept DEF Inv

(* Every step preserves the invariant. *)
LEMMA StepInv == Inv /\ [Next]_vars => Inv'
<1> SUFFICES ASSUME Inv, [Next]_vars PROVE Inv'
  BY Zenon
<1>0. NodesInv /\ CountsInv /\ OrphansInv
  BY Zenon DEF Inv
<1>1. CASE \E p \in Peers : InitializeNode(p)
  <2>1. PICK p \in Peers : InitializeNode(p)
    BY Zenon, <1>1
  <2>2. UNCHANGED orphanVars /\ present \subseteq present'
    BY Zenon, <2>1 DEF InitializeNode, relayVars
  <2> QED
    BY Zenon, <1>0, <2>1, <2>2, SocketNodes, CountsInitialize, OrphansKept DEF Inv
<1>2. CASE \E p \in Peers : FinalizeNode(p)
  BY Zenon, <1>0, <1>2, SocketNodes, CountsFinalize, OrphansFinalize DEF Inv
<1>3. CASE \E p \in Peers : RemoveNode(p)
  <2>1. PICK p \in Peers : RemoveNode(p)
    BY Zenon, <1>3
  <2>2. UNCHANGED <<world, present, handshake, syncVars, orphanVars>>
    BY Zenon, <2>1 DEF RemoveNode, downloadVars, relayVars
  <2> QED
    BY Zenon, <1>0, <2>1, <2>2, SocketNodes, CountsKept, OrphansKept DEF Inv
<1>4. CASE \E p \in Peers : OnTx(p)
  BY Zenon, <1>0, <1>4, HandleNodes, CountsHandle, OrphansTx DEF Inv, Handle
<1>5. CASE \E p \in Peers : Handle(p) /\ ~OnTx(p)
  <2>1. PICK p \in Peers : Handle(p) /\ ~OnTx(p)
    BY Zenon, <1>5
  <2>2. UNCHANGED orphanVars
    BY Zenon, <2>1 DEF Handle, TooEarly, OnVersion, OnVerack, OnInv, OnInvTx, OnBlock, relayVars
  <2> QED
    BY Zenon, <1>0, <2>1, <2>2, HandleNodes, CountsHandle, OrphansKept DEF Inv
<1>6. CASE \E p \in Peers : SendNothing(p) \/ SendMessages(p)
  <2>1. PICK p \in Peers : SendNothing(p) \/ SendMessages(p)
    BY Zenon, <1>6
  <2>2. UNCHANGED orphanVars
    BY Zenon, <2>1 DEF SendNothing, SendMessages, relayVars
  <2> QED
    BY Zenon, <1>0, <2>1, <2>2, SendNodes, CountsSend, OrphansKept DEF Inv
<1>7. CASE OrphanWork
  <2>1. UNCHANGED <<world, present, handshake, syncVars>>
    BY Zenon, <1>7 DEF OrphanWork, connVars
  <2> QED
    BY Zenon, <1>0, <1>7, <2>1, HandlerNodes, CountsKept, OrphansWork DEF Inv
<1>8. CASE StartRound \/ EndRound \/ OnBlockProcess \/ OnBlockEnd \/ \E p \in Peers : SkipNode(p)
  <2>1. UNCHANGED <<world, handshake, syncVars, orphanVars>>
    BY Zenon, <1>8 DEF StartRound, EndRound, OnBlockProcess, OnBlockEnd, SkipNode, connVars, relayVars
  <2> QED
    BY Zenon, <1>0, <1>8, <2>1, HandlerNodes, CountsKept, OrphansKept DEF Inv
<1>9. CASE \/ \E p \in Peers : SocketClosed(p) \/ DisconnectNode(p)
           \/ \E p \in Peers : \E msg \in Sends(p) : Receive(p, msg)
           \/ \E b \in Blocks : LocalBlock(b)
           \/ EnforceProtocol \/ Tick
           \/ UNCHANGED vars
  <2>1. UNCHANGED <<world, node, present, m, handshake, syncVars, orphanVars>>
    BY Zenon, <1>9 DEF SocketClosed, DisconnectNode, Receive, LocalBlock, EnforceProtocol, Tick, vars, downloadVars,
                relayVars, connVars
  <2> QED
    BY Zenon, <2>1, OtherSteps
<1> QED
  BY Zenon, <1>1, <1>2, <1>3, <1>4, <1>5, <1>6, <1>7, <1>8, <1>9 DEF Next, Handler

(* The inductive invariant of the connections. *)
THEOREM NetInvariant == Spec => []Inv
  BY InitInv, StepInv, PTL DEF Spec

(* nSyncStarted and nPreferredDownload are exact for any peers, whatever   *)
(* the order of handshakes, disconnections and FinalizeNode.               *)
THEOREM SyncCountsExact == Spec => []CountsExact
<1>1. Inv => CountsExact
  BY Zenon DEF Inv, CountsInv
<1> QED
  BY <1>1, NetInvariant, PTL

(* The orphan maps agree, hold orphans of existing peers only and stay     *)
(* within -maxorphantx, for any transactions and peers.                    *)
THEOREM OrphanMapsExact == Spec => []OrphansExact
<1>1. Inv => OrphansExact
  BY Zenon DEF Inv, OrphansInv
<1> QED
  BY <1>1, NetInvariant, PTL

-----------------------------------------------------------------------------
(* The blocks in flight. *)

(* The block that the BLOCK handler is at has its predecessor in the index. *)
HandlerInv == m.pc = "block" => m.blk \in Blocks /\ Known(Prev[m.blk])

(* What waits in the queues announces or holds blocks of the tree. *)
InboxInv ==
  \E S : /\ inbox \in [Peers -> Seq(S)]
         /\ \A msg \in S : msg.type \in {"inv", "block"} => msg.of \in Blocks

Flight == Download /\ HandlerInv /\ InboxInv

(* The handler is not at a block, or nothing of it changes. *)
LEMMA HandlerKept ==
  ASSUME HandlerInv, Grows, m' = m \/ m'.pc # "block"
  PROVE  HandlerInv'
<1>1. \A b \in Blocks : Prev[b] \in Index
  BY Zenon, DownloadAssumption
<1>2. m'.pc = "block" => m'.blk \in Blocks /\ status'[Prev[m'.blk]] # "none"
  BY Zenon, <1>1 DEF HandlerInv, Known, Grows
<1> QED
  BY Zenon, <1>2 DEF HandlerInv, Known

(* The queues are left alone. *)
LEMMA InboxKept ==
  ASSUME InboxInv, UNCHANGED inbox
  PROVE  InboxInv'
  BY Zenon DEF InboxInv

(* Nothing is in flight at the start. *)
LEMMA InitFlight == Init => Flight
<1> SUFFICES ASSUME Init PROVE Flight
  BY Zenon
<1>1. world \in Worlds /\ DownloadInit(world.start)
  BY Zenon DEF Init
<1>2. /\ world.start \in [Index -> Statuses] /\ world.start[Genesis] = "data"
      /\ \A b \in Blocks : world.start[b] # "none" => world.start[Prev[b]] # "none"
  BY Zenon, <1>1, NetAssumption
<1>3. Download
  BY Zenon, <1>1, <1>2, StartDownload
<1>4. HandlerInv
  BY Zenon DEF Init, HandlerInv, Idle
<1>5. inbox \in [Peers -> Seq({})]
  BY DEF Init
<1>6. InboxInv
  BY <1>5 DEF InboxInv
<1> QED
  BY Zenon, <1>3, <1>4, <1>6 DEF Flight

(* FinalizeNode forgets a peer, with what waits from it. *)
LEMMA FinalizeFlight ==
  ASSUME Flight, NEW p \in Peers, FinalizeNode(p)
  PROVE  Flight'
<1>0. Download /\ HandlerInv /\ InboxInv
  BY Zenon DEF Flight
<1>1. UNCHANGED m /\ ForgetPeer(p) /\ inbox' = [inbox EXCEPT ![p] = << >>]
  BY Zenon DEF FinalizeNode
<1>2. Download' /\ Grows
  BY Zenon, <1>0, <1>1, ForgetDownload
<1>3. HandlerInv'
  BY Zenon, <1>0, <1>1, <1>2, HandlerKept
<1>4. PICK S : /\ inbox \in [Peers -> Seq(S)]
               /\ \A msg \in S : msg.type \in {"inv", "block"} => msg.of \in Blocks
  BY Zenon, <1>0 DEF InboxInv
<1>5. inbox' \in [Peers -> Seq(S)]
  BY <1>1, <1>4
<1>6. InboxInv'
  BY Zenon, <1>4, <1>5 DEF InboxInv
<1> QED
  BY Zenon, <1>2, <1>3, <1>6 DEF Flight

(* A message is queued. *)
LEMMA ReceiveFlight ==
  ASSUME Flight, CountsInv, NodesInv, NEW p \in Peers, NEW msg \in Sends(p), Receive(p, msg)
  PROVE  Flight'
<1>0. Download /\ HandlerInv /\ InboxInv
  BY Zenon DEF Flight
<1>1. /\ UNCHANGED <<status, pindexBestKnownBlock, hashLastUnknownBlock, flight, present, m>>
      /\ inbox' = [inbox EXCEPT ![p] = Append(@, msg)]
  BY Zenon DEF Receive, downloadVars, chainVars, peerBlocks
<1>2. msg.type \in {"inv", "block"} => msg.of \in Blocks
  <2>1. handshake[p] \in 0..2 /\ world \in Worlds
    BY Zenon DEF CountsInv, NodesInv
  <2>2. world.sends[p][handshake[p]] \subseteq Message
    BY Zenon, <2>1, NetAssumption
  <2>3. CASE msg \in Message
    BY Zenon, <2>3 DEF Message
  <2>4. CASE msg \in Answers(p)
    BY Zenon, <2>4 DEF Answers
  <2> QED
    BY Zenon, <2>2, <2>3, <2>4 DEF Sends
<1>3. PICK S : /\ inbox \in [Peers -> Seq(S)]
               /\ \A x \in S : x.type \in {"inv", "block"} => x.of \in Blocks
  BY Zenon, <1>0 DEF InboxInv
<1> DEFINE T == S \cup {msg}
<1>4. \A x \in T : x.type \in {"inv", "block"} => x.of \in Blocks
  BY Zenon, <1>2, <1>3
<1>5. msg \in T /\ \A r \in Peers : inbox[r] \in Seq(T)
  BY <1>3
<1> HIDE DEF T
<1>6. Append(inbox[p], msg) \in Seq(T)
  BY <1>5
<1>7. inbox' \in [Peers -> Seq(T)]
  BY Zenon, <1>1, <1>3, <1>5, <1>6
<1>8. InboxInv'
  BY Zenon, <1>4, <1>7 DEF InboxInv
<1>9. Download' /\ Grows
  BY Zenon, <1>0, <1>1, DownloadKept
<1>10. HandlerInv'
  BY Zenon, <1>0, <1>1, <1>9, HandlerKept
<1> QED
  BY Zenon, <1>8, <1>9, <1>10 DEF Flight

(* A handler takes the first message of a queue. *)
LEMMA TakeInbox ==
  ASSUME InboxInv, NEW p \in Peers, inbox[p] # << >>, inbox' = [inbox EXCEPT ![p] = Tail(@)]
  PROVE  InboxInv' /\ (Head(inbox[p]).type \in {"inv", "block"} => Of(p) \in Blocks)
<1>1. PICK S : /\ inbox \in [Peers -> Seq(S)]
               /\ \A x \in S : x.type \in {"inv", "block"} => x.of \in Blocks
  BY Zenon DEF InboxInv
<1>2. inbox[p] \in Seq(S)
  BY Zenon, <1>1
<1>3. Head(inbox[p]) \in S /\ Tail(inbox[p]) \in Seq(S)
  BY <1>2
<1>4. inbox' \in [Peers -> Seq(S)]
  BY Zenon, <1>1, <1>3
<1> QED
  BY Zenon, <1>1, <1>3, <1>4 DEF InboxInv, Of

(* The handlers.  MarkBlockAsReceived finds nothing to do: it is called    *)
(* for a block that is not in the index, and so in flight from nobody.     *)
LEMMA HandleFlight ==
  ASSUME Flight, NodesInv, NEW p \in Peers, Handle(p)
  PROVE  Flight'
<1>0. Download /\ HandlerInv /\ InboxInv /\ FlightInv
  BY Zenon DEF Flight, Download
<1>1. /\ inbox[p] # << >> /\ inbox' = [inbox EXCEPT ![p] = Tail(@)]
      /\ UNCHANGED <<status, present>>
  BY Zenon DEF Handle, TooEarly, OnVersion, OnVerack, OnInv, OnInvTx, OnTx, OnBlock, Take, TakeBlock, downloadVars,
         chainVars
<1>2. InboxInv' /\ (Head(inbox[p]).type \in {"inv", "block"} => Of(p) \in Blocks)
  BY Zenon, <1>0, <1>1, TakeInbox
<1>3. CASE TooEarly(p) \/ OnVersion(p) \/ OnVerack(p) \/ OnInvTx(p) \/ OnTx(p)
  <2>1. UNCHANGED <<pindexBestKnownBlock, hashLastUnknownBlock, flight>>
    BY Zenon, <1>3 DEF TooEarly, OnVersion, OnVerack, OnInvTx, OnTx, downloadVars, peerBlocks
  <2>2. \E pc \in {"send", "orphans"} : m' = [m EXCEPT !.pc = pc, !.cur = p, !.left = @ \ {p}, !.blk = None]
    BY Zenon, <1>3 DEF TooEarly, OnVersion, OnVerack, OnInvTx, OnTx, Take, TakeBlock
  <2>3. m'.pc # "block"
    BY Zenon, <2>2 DEF NodesInv
  <2>4. Download' /\ Grows
    BY Zenon, <1>0, <1>1, <2>1, DownloadKept
  <2> QED
    BY Zenon, <1>0, <1>2, <2>3, <2>4, HandlerKept DEF Flight
<1>4. CASE OnInv(p)
  <2>1. UNCHANGED flight /\ UpdateBlockAvailability(p, Of(p)) /\ Head(inbox[p]).type = "inv"
    BY Zenon, <1>4 DEF OnInv, Take, TakeBlock
  <2>2. m' = [m EXCEPT !.pc = "send", !.cur = p, !.left = @ \ {p}, !.blk = None]
    BY Zenon, <1>4 DEF OnInv, Take, TakeBlock
  <2>3. m'.pc # "block"
    BY Zenon, <2>2 DEF NodesInv
  <2>4. Of(p) \in Blocks
    BY Zenon, <1>2, <2>1
  <2>5. Download' /\ Grows
    BY Zenon, <1>0, <1>1, <2>1, <2>4, UpdateDownload
  <2> QED
    BY Zenon, <1>0, <1>2, <2>3, <2>5, HandlerKept DEF Flight
<1>5. CASE OnBlock(p)
  <2>1. UNCHANGED <<pindexBestKnownBlock, hashLastUnknownBlock>> /\ Head(inbox[p]).type = "block"
    BY Zenon, <1>5 DEF OnBlock, Take, TakeBlock, peerBlocks
  <2>2. Of(p) \in Blocks
    BY Zenon, <1>2, <2>1
  <2>3. CASE UNCHANGED flight /\ Take(p, "block", "send")
    <3>1. m' = [m EXCEPT !.pc = "send", !.cur = p, !.left = @ \ {p}, !.blk = None]
      BY Zenon, <2>3 DEF Take, TakeBlock
    <3>2. m'.pc # "block"
      BY Zenon, <3>1 DEF NodesInv
    <3>3. Download' /\ Grows
      BY Zenon, <1>0, <1>1, <2>1, <2>3, DownloadKept
    <3> QED
      BY Zenon, <1>0, <1>2, <3>2, <3>3, HandlerKept DEF Flight
  <2>4. CASE /\ TakeBlock(p, "block", "block", Of(p))
             /\ Known(Prev[Of(p)]) /\ ~Known(Of(p)) /\ MarkBlockAsReceived(Of(p))
    <3>1. m' = [m EXCEPT !.pc = "block", !.cur = p, !.left = @ \ {p}, !.blk = Of(p)]
      BY Zenon, <2>4 DEF TakeBlock
    <3>2. m'.blk = Of(p)
      BY Zenon, <3>1 DEF NodesInv
    <3>3. ~InFlight(Of(p))
      BY Zenon, <1>0, <2>2, <2>4, UnknownNotInFlight
    <3>4. UNCHANGED flight
      BY Zenon, <2>4, <3>3 DEF MarkBlockAsReceived
    <3>5. Download'
      BY Zenon, <1>0, <1>1, <2>1, <3>4, DownloadKept
    <3>6. status'[Prev[Of(p)]] # "none"
      BY Zenon, <1>1, <2>4 DEF Known
    <3>7. HandlerInv'
      BY Zenon, <2>2, <3>2, <3>6 DEF HandlerInv, Known
    <3> QED
      BY Zenon, <1>2, <3>5, <3>7 DEF Flight
  <2> QED
    BY Zenon, <1>5, <2>3, <2>4 DEF OnBlock
<1> QED
  BY Zenon, <1>3, <1>4, <1>5 DEF Handle

(* SendMessages: blocks are asked for, or nothing changes here. *)
LEMMA SendFlight ==
  ASSUME Flight, NodesInv, NEW p \in Peers, SendNothing(p) \/ SendMessages(p)
  PROVE  Flight'
<1>0. Download /\ HandlerInv /\ InboxInv
  BY Zenon DEF Flight
<1>1. Sent(p) /\ UNCHANGED <<status, present, inbox>>
  BY Zenon DEF SendNothing, SendMessages, downloadVars, chainVars, connVars
<1>2. m'.pc # "block"
  BY Zenon, <1>1 DEF Sent, NodesInv
<1>3. p \in present
  BY Zenon, SendNodes
<1>4. ASSUME UNCHANGED <<peerBlocks, flight>> PROVE Download' /\ Grows
  BY Zenon, <1>0, <1>1, <1>4, DownloadKept DEF peerBlocks
<1>5. ASSUME nBlocksInFlight[p] < MaxInTransit, RequestBlocks(p) PROVE Download' /\ Grows
  BY Zenon, <1>0, <1>1, <1>3, <1>5, RequestDownload
<1>6. Download' /\ Grows
  BY Zenon, <1>4, <1>5 DEF SendNothing, SendMessages, downloadVars
<1> QED
  BY Zenon, <1>0, <1>1, <1>2, <1>6, HandlerKept, InboxKept DEF Flight

(* A block is processed: the index grows. *)
LEMMA ProcessFlight ==
  ASSUME Flight, NodesInv, OnBlockProcess \/ \E b \in Blocks : LocalBlock(b)
  PROVE  Flight'
<1>0. Download /\ HandlerInv /\ InboxInv
  BY Zenon DEF Flight
<1>1. UNCHANGED <<peerBlocks, flight, present, inbox>>
  BY Zenon DEF OnBlockProcess, LocalBlock, connVars
<1>2. world.verdicts \subseteq Verdicts
  BY Zenon, NetAssumption DEF NodesInv
<1>3. \E b \in Blocks : \E v \in Verdicts : Known(Prev[b]) /\ ProcessNewBlock(b, v)
  <2>1. CASE OnBlockProcess
    <3>1. m.blk \in Blocks /\ Known(Prev[m.blk])
      BY Zenon, <1>0, <2>1 DEF OnBlockProcess, HandlerInv
    <3>2. \E v \in world.verdicts : ProcessNewBlock(m.blk, v)
      BY Zenon, <2>1 DEF OnBlockProcess
    <3> QED
      BY Zenon, <1>2, <3>1, <3>2
  <2>2. CASE \E b \in Blocks : LocalBlock(b)
    BY Zenon, <1>2, <2>2 DEF LocalBlock
  <2> QED
    BY Zenon, <2>1, <2>2
<1>4. Download' /\ Grows
  BY Zenon, <1>0, <1>1, <1>3, ProcessDownload
<1>5. m' = m \/ m'.pc # "block"
  <2>1. CASE OnBlockProcess
    <3>1. PICK dos : m' = [m EXCEPT !.pc = "accepted", !.dos = dos]
      BY Zenon, <2>1 DEF OnBlockProcess
    <3> QED
      BY Zenon, <3>1 DEF NodesInv
  <2>2. CASE \E b \in Blocks : LocalBlock(b)
    BY Zenon, <2>2 DEF LocalBlock
  <2> QED
    BY Zenon, <2>1, <2>2
<1> QED
  BY Zenon, <1>0, <1>1, <1>4, <1>5, HandlerKept, InboxKept DEF Flight

(* The clock. *)
LEMMA TickFlight ==
  ASSUME Flight, Tick
  PROVE  Flight'
<1>0. Download /\ HandlerInv /\ InboxInv
  BY Zenon DEF Flight
<1>1. Age /\ UNCHANGED <<status, peerBlocks, present, inbox, m>>
  BY Zenon DEF Tick, chainVars, connVars
<1>2. Download' /\ Grows
  BY Zenon, <1>0, <1>1, AgeDownload
<1> QED
  BY Zenon, <1>0, <1>1, <1>2, HandlerKept, InboxKept DEF Flight

(* The other steps change nothing of this. *)
LEMMA OtherFlight ==
  ASSUME Flight,
         UNCHANGED <<status, pindexBestKnownBlock, hashLastUnknownBlock, flight, inbox>>,
         present \subseteq present', m' = m \/ m'.pc # "block"
  PROVE  Flight'
<1>0. Download /\ HandlerInv /\ InboxInv
  BY Zenon DEF Flight
<1>1. Download' /\ Grows
  BY Zenon, <1>0, DownloadKept
<1> QED
  BY Zenon, <1>0, <1>1, HandlerKept, InboxKept DEF Flight

(* Every step preserves the invariant. *)
LEMMA StepFlight == Inv /\ Flight /\ [Next]_vars => Flight'
<1> SUFFICES ASSUME Inv, Flight, [Next]_vars PROVE Flight'
  BY Zenon
<1>0. NodesInv /\ CountsInv
  BY Zenon DEF Inv
<1>1. CASE \E p \in Peers : FinalizeNode(p)
  BY Zenon, <1>1, FinalizeFlight
<1>2. CASE \E p \in Peers : \E msg \in Sends(p) : Receive(p, msg)
  BY Zenon, <1>0, <1>2, ReceiveFlight
<1>3. CASE \E p \in Peers : Handle(p)
  BY Zenon, <1>0, <1>3, HandleFlight
<1>4. CASE \E p \in Peers : SendNothing(p) \/ SendMessages(p)
  BY Zenon, <1>0, <1>4, SendFlight
<1>5. CASE OnBlockProcess \/ \E b \in Blocks : LocalBlock(b)
  BY Zenon, <1>0, <1>5, ProcessFlight
<1>6. CASE Tick
  BY Zenon, <1>6, TickFlight
<1>7. CASE \/ \E p \in Peers : InitializeNode(p) \/ SocketClosed(p) \/ DisconnectNode(p) \/ RemoveNode(p)
           \/ EnforceProtocol \/ UNCHANGED vars
  <2>1. /\ UNCHANGED <<status, pindexBestKnownBlock, hashLastUnknownBlock, flight, inbox, m>>
        /\ present \subseteq present'
    BY Zenon, <1>7 DEF InitializeNode, SocketClosed, DisconnectNode, RemoveNode, EnforceProtocol, vars, downloadVars,
                chainVars, peerBlocks, connVars
  <2> QED
    BY Zenon, <2>1, OtherFlight
<1>8. CASE StartRound \/ EndRound \/ OrphanWork \/ OnBlockEnd \/ \E p \in Peers : SkipNode(p)
  <2>1. UNCHANGED <<status, pindexBestKnownBlock, hashLastUnknownBlock, flight, inbox, present>>
    BY Zenon, <1>8 DEF StartRound, EndRound, OrphanWork, OnBlockEnd, SkipNode, downloadVars, chainVars, peerBlocks, connVars
  <2>2. m' = m \/ m'.pc # "block"
    <3>1. CASE StartRound
      <4>1. m' = [m EXCEPT !.pc = "round", !.refs = vNodes, !.left = vNodes]
        BY Zenon, <3>1 DEF StartRound
      <4> QED
        BY Zenon, <1>0, <4>1 DEF NodesInv
    <3>2. CASE EndRound
      BY Zenon, <3>2 DEF EndRound, Idle
    <3>3. CASE OrphanWork
      <4>1. m' = m \/ m' = [m EXCEPT !.pc = "send"]
        BY Zenon, <3>3 DEF OrphanWork
      <4> QED
        BY Zenon, <1>0, <4>1 DEF NodesInv
    <3>4. CASE OnBlockEnd
      <4>1. m' = [m EXCEPT !.pc = "send", !.blk = None, !.dos = 0]
        BY Zenon, <3>4 DEF OnBlockEnd
      <4> QED
        BY Zenon, <1>0, <4>1 DEF NodesInv
    <3>5. CASE \E p \in Peers : SkipNode(p)
      <4>1. PICK p \in Peers : m.pc = "round" /\ m' = [m EXCEPT !.left = @ \ {p}]
        BY Zenon, <3>5 DEF SkipNode
      <4> QED
        BY Zenon, <1>0, <4>1 DEF NodesInv
    <3> QED
      BY Zenon, <1>8, <3>1, <3>2, <3>3, <3>4, <3>5
  <2> QED
    BY Zenon, <2>1, <2>2, OtherFlight
<1> QED
  BY Zenon, <1>1, <1>2, <1>3, <1>4, <1>5, <1>6, <1>7, <1>8 DEF Next, Handler

(* The inductive invariant of the blocks in flight. *)
LEMMA FlightInvariant == Spec => []Flight
<1>1. Init /\ [][Next]_vars /\ []Inv => []Flight
  BY InitFlight, StepFlight, PTL
<1> QED
  BY <1>1, NetInvariant, PTL DEF Spec

(* mapBlocksInFlight, the lists and the counts of blocks in flight agree,  *)
(* and a peer that stalls owes a block, for any block tree, peers and      *)
(* limits (MarkBlockAsInFlight, FinalizeNode, FindNextBlocksToDownload).   *)
THEOREM InFlightMapsExact == Spec => []InFlightExact
<1>1. Flight => InFlightExact
  BY Zenon DEF Flight, Download, FlightInv
<1> QED
  BY <1>1, FlightInvariant, PTL

(* The BLOCK handler never takes a block out of flight, for any blocks and *)
(* peers: where it calls MarkBlockAsReceived the block is not in the       *)
(* index, and only blocks of the index are in flight.                      *)
THEOREM BlockHandlerNeverMarks == Spec => [][\A p \in Peers : OnBlock(p) => UNCHANGED flight]_vars
<1> DEFINE Leaves == \A p \in Peers : OnBlock(p) => UNCHANGED flight
<1>1. Flight => Leaves
  <2> SUFFICES ASSUME Flight, NEW p \in Peers, OnBlock(p) PROVE UNCHANGED flight
    BY Zenon
  <2>1. InboxInv /\ FlightInv
    BY Zenon DEF Flight, Download
  <2>2. inbox[p] # << >> /\ Head(inbox[p]).type = "block" /\ inbox' = [inbox EXCEPT ![p] = Tail(@)]
    BY Zenon DEF OnBlock, Take, TakeBlock
  <2>3. Of(p) \in Blocks
    BY Zenon, <2>1, <2>2, TakeInbox
  <2>4. CASE ~Known(Of(p)) /\ MarkBlockAsReceived(Of(p))
    BY Zenon, <2>1, <2>3, <2>4, UnknownNotInFlight DEF MarkBlockAsReceived
  <2> QED
    BY Zenon, <2>4 DEF OnBlock
<1> HIDE DEF Leaves
<1>2. []Flight => [][Leaves]_vars
  BY <1>1, PTL
<1> QED
  BY <1>2, FlightInvariant, PTL DEF Leaves
=============================================================================
