-------------------------- MODULE ChainStateProofs --------------------------
(***************************************************************************)
(* Proofs about ChainState, for every tree of blocks, any amounts of work  *)
(* and any number of blocks, rounds and restarts.                          *)
(***************************************************************************)
EXTENDS ChainState, FiniteSetTheorems, WellFoundedInduction, TLAPS

-----------------------------------------------------------------------------
(* The tree of blocks. *)

\* The assumptions on the tree and on the order of its blocks.
LEMMA TreeFacts ==
  /\ Genesis \in Block /\ Null \notin Block
  /\ \A b \in Block \ {Genesis} : Parent[b] \in Block /\ ChainWork[Parent[b]] < ChainWork[b]
  /\ \A b \in Block : ChainWork[b] \in Nat
  /\ Addresses \subseteq [Block -> Nat]
BY Zenon, ChainAssumption DEF ChainAssumption

\* The ancestors of a block are the least set that holds it and is closed under pprev.
LEMMA AncLemma ==
  ASSUME NEW b \in Block
  PROVE  /\ Anc[b] \in SUBSET Block
         /\ b \in Anc[b]
         /\ \A a \in Anc[b] \ {Genesis} : Parent[a] \in Anc[b]
         /\ \A S \in SUBSET Block :
              b \in S /\ (\A x \in S \ {Genesis} : Parent[x] \in S) => Anc[b] \subseteq S
<1> DEFINE Closed(S) == \A x \in S \ {Genesis} : Parent[x] \in S
<1>1. Anc[b] = {a \in Block : \A S \in SUBSET Block : b \in S /\ Closed(S) => a \in S}
  BY Zenon DEF Anc
<1> HIDE DEF Closed
<1>2. Anc[b] \in SUBSET Block /\ b \in Anc[b]
  BY Zenon, <1>1
<1>3. \A S \in SUBSET Block : b \in S /\ Closed(S) => Anc[b] \subseteq S
  BY Zenon, <1>1
<1>4. ASSUME NEW a \in Anc[b], a # Genesis PROVE Parent[a] \in Anc[b]
  <2>1. a \in Block /\ Parent[a] \in Block
    BY Zenon, <1>2, <1>4, TreeFacts
  <2>2. ASSUME NEW S \in SUBSET Block, b \in S, Closed(S) PROVE Parent[a] \in S
    <3>1. a \in S
      BY Zenon, <1>3, <2>2
    <3> QED
      BY Zenon, <3>1, <2>2, <1>4 DEF Closed
  <2> QED
    BY Zenon, <2>1, <2>2, <1>1
<1> QED
  BY Zenon, <1>2, <1>3, <1>4 DEF Closed

\* An ancestor's ancestors are ancestors.
LEMMA AncTransitive ==
  ASSUME NEW b \in Block, NEW a \in Anc[b]
  PROVE  a \in Block /\ Anc[a] \subseteq Anc[b]
<1>1. a \in Block /\ Anc[b] \in SUBSET Block
  BY Zenon, AncLemma
<1>2. \A x \in Anc[b] \ {Genesis} : Parent[x] \in Anc[b]
  BY Zenon, AncLemma
<1>3. \A S \in SUBSET Block :
        a \in S /\ (\A x \in S \ {Genesis} : Parent[x] \in S) => Anc[a] \subseteq S
  BY Zenon, <1>1, AncLemma
<1> QED
  BY Zenon, <1>1, <1>2, <1>3

\* The ancestors of a block are the block itself and its parent's.
LEMMA AncStep ==
  ASSUME NEW b \in Block \ {Genesis}
  PROVE  Anc[b] = {b} \cup Anc[Parent[b]]
<1> DEFINE S == {b} \cup Anc[Parent[b]]
<1>1. Parent[b] \in Block
  BY Zenon, TreeFacts
<1>2. Parent[b] \in Anc[b] /\ b \in Anc[b]
  BY Zenon, AncLemma
<1>3. S \subseteq Anc[b]
  BY Zenon, <1>2, AncTransitive
<1>4. S \in SUBSET Block /\ b \in S
  BY Zenon, <1>1, AncLemma
<1>5. \A x \in S \ {Genesis} : Parent[x] \in S
  BY Zenon, <1>1, AncLemma
<1>6. \A T \in SUBSET Block :
        b \in T /\ (\A x \in T \ {Genesis} : Parent[x] \in T) => Anc[b] \subseteq T
  BY Zenon, AncLemma
<1>7. Anc[b] \subseteq S
  BY Zenon, <1>4, <1>5, <1>6
<1> QED
  BY Zenon, <1>3, <1>7

\* The genesis block has no other ancestor.
LEMMA AncGenesis == Anc[Genesis] = {Genesis}
<1>1. Genesis \in Block
  BY Zenon, TreeFacts
<1>2. Genesis \in Anc[Genesis]
  BY Zenon, <1>1, AncLemma
<1>3. \A S \in SUBSET Block :
        Genesis \in S /\ (\A x \in S \ {Genesis} : Parent[x] \in S) => Anc[Genesis] \subseteq S
  BY Zenon, <1>1, AncLemma
<1>4. Anc[Genesis] \subseteq {Genesis}
  BY Zenon, <1>1, <1>3
<1> QED
  BY Zenon, <1>2, <1>4

\* A block has more work than its other ancestors.
LEMMA AncWork ==
  ASSUME NEW b \in Block, NEW a \in Anc[b]
  PROVE  a = b \/ ChainWork[a] < ChainWork[b]
<1> DEFINE S == {x \in Block : x = b \/ ChainWork[x] < ChainWork[b]}
<1>1. ASSUME NEW x \in S, x # Genesis PROVE Parent[x] \in S
  BY <1>1, TreeFacts
<1>2. \A T \in SUBSET Block :
        b \in T /\ (\A x \in T \ {Genesis} : Parent[x] \in T) => Anc[b] \subseteq T
  BY Zenon, AncLemma
<1>3. S \in SUBSET Block /\ b \in S
  BY Zenon
<1>4. Anc[b] \subseteq S
  BY Zenon, <1>1, <1>2, <1>3
<1> QED
  BY Zenon, <1>4

\* Of two ancestors of a block one is an ancestor of the other.
LEMMA AncLinear ==
  ASSUME NEW b \in Block, NEW a \in Anc[b], NEW c \in Anc[b]
  PROVE  a \in Anc[c] \/ c \in Anc[a]
<1>b. a \in Block /\ c \in Block
  BY Zenon, AncLemma
<1> DEFINE S == {x \in Block : x \in Anc[c] \/ c \in Anc[x]}
<1>1. ASSUME NEW x \in S, x # Genesis PROVE Parent[x] \in S
  <2>1. x \in Block /\ Parent[x] \in Block
    BY Zenon, <1>1, TreeFacts
  <2>2. CASE x \in Anc[c]
    BY Zenon, <2>1, <2>2, <1>1, <1>b, AncLemma
  <2>3. CASE c \in Anc[x] /\ x # c
    BY Zenon, <2>1, <2>3, <1>1, AncStep
  <2>4. x = c => x \in Anc[c]
    BY Zenon, <1>b, AncLemma
  <2> QED
    BY Zenon, <2>2, <2>3, <2>4, <1>1
<1>2. \A T \in SUBSET Block :
        b \in T /\ (\A x \in T \ {Genesis} : Parent[x] \in T) => Anc[b] \subseteq T
  BY Zenon, AncLemma
<1>3. S \in SUBSET Block /\ b \in S
  BY Zenon
<1>4. Anc[b] \subseteq S
  BY Zenon, <1>1, <1>2, <1>3
<1> QED
  BY Zenon, <1>4

\* A set of natural numbers that is not empty has a least one.
LEMMA Least ==
  ASSUME NEW T \in SUBSET Nat, T # {}
  PROVE  \E x \in T : \A y \in T : x <= y
<1> DEFINE R == OpToRel(<, Nat)
<1>1. IsWellFoundedOn(R, Nat)
  BY Zenon, NatLessThanWellFounded
<1>2. \A x, y \in Nat : x < y => <<x, y>> \in R
  BY Zenon DEF OpToRel
<1> HIDE DEF R
<1>3. \E x \in T : \A y \in T : ~(<<y, x>> \in R)
  BY Zenon, <1>1, WFMin
<1>4. PICK x \in T : \A y \in T : ~(<<y, x>> \in R)
  BY Zenon, <1>3
<1>5. \A y \in T : ~(y < x)
  BY <1>2, <1>4, Zenon
<1>6. \A y \in T : x <= y
  BY <1>5
<1> QED
  BY Zenon, <1>6

\* A set of blocks that is not empty has one of least work.
LEMMA LeastWork ==
  ASSUME NEW S \in SUBSET Block, S # {}
  PROVE  \E x \in S : \A y \in S : ChainWork[x] <= ChainWork[y]
<1> DEFINE T == {ChainWork[x] : x \in S}
<1>1. T \in SUBSET Nat /\ T # {}
  BY Zenon, TreeFacts
<1> HIDE DEF T
<1>2. PICK n \in T : \A y \in T : n <= y
  BY Zenon, <1>1, Least
<1> QED
  BY Zenon, <1>2 DEF T

\* Every block descends from the genesis block.
LEMMA GenesisCommon ==
  ASSUME NEW b \in Block
  PROVE  Genesis \in Anc[b]
<1>1. Anc[b] \in SUBSET Block /\ Anc[b] # {}
  BY Zenon, AncLemma
<1>2. PICK x \in Anc[b] : \A y \in Anc[b] : ChainWork[x] <= ChainWork[y]
  BY Zenon, <1>1, LeastWork
<1>3. ASSUME x # Genesis PROVE FALSE
  <2>1. Parent[x] \in Anc[b]
    BY Zenon, <1>3, AncLemma
  <2>2. ChainWork[Parent[x]] < ChainWork[x] /\ ChainWork[Parent[x]] \in Nat /\ ChainWork[x] \in Nat
    BY Zenon, <1>1, <1>3, TreeFacts
  <2> QED
    BY <2>1, <2>2, <1>2
<1> QED
  BY Zenon, <1>3

\* A block that is not w's chain end has a child on that chain.
LEMMA NextOnChain ==
  ASSUME NEW w \in Block, NEW t \in Anc[w], t # w
  PROVE  \E b \in Anc[w] \ Anc[t] : Parent[b] = t
<1> DEFINE S == {x \in Anc[w] : t \in Anc[x] /\ x # t}
<1>t. t \in Block
  BY Zenon, AncLemma
<1>1. S \in SUBSET Block /\ w \in S
  BY Zenon, AncLemma
<1>2. PICK x \in S : \A y \in S : ChainWork[x] <= ChainWork[y]
  BY Zenon, <1>1, LeastWork
<1>3. x # Genesis
  BY Zenon, <1>1, <1>2, AncGenesis
<1>4. /\ x \in Block \ {Genesis} /\ Parent[x] \in Block
      /\ ChainWork[Parent[x]] < ChainWork[x] /\ ChainWork[Parent[x]] \in Nat /\ ChainWork[x] \in Nat
  BY Zenon, <1>1, <1>2, <1>3, TreeFacts
<1>5. Parent[x] \in Anc[w]
  BY Zenon, <1>2, <1>3, AncLemma
<1>6. t \in Anc[Parent[x]]
  BY Zenon, <1>2, <1>4, AncStep
<1>7. Parent[x] = t
  BY <1>2, <1>4, <1>5, <1>6
<1>8. x \notin Anc[t]
  <2>1. SUFFICES ASSUME x \in Anc[t] PROVE FALSE
    BY Zenon
  <2>2. x = t \/ ChainWork[x] < ChainWork[t]
    BY Zenon, <2>1, <1>t, AncWork
  <2> QED
    BY <2>2, <1>2, <1>4, <1>7
<1> QED
  BY Zenon, <1>2, <1>7, <1>8

-----------------------------------------------------------------------------
(* CBlockIndexWorkComparator. *)

\* It is a strict order, and not being worse is transitive.
LEMMA OrderLemma ==
  ASSUME NEW s \in [Block -> Nat], NEW m \in [Block -> Nat],
         NEW x \in Block, NEW y \in Block
  PROVE  /\ ~Before(s, m, x, x)
         /\ Before(s, m, x, y) => ~Before(s, m, y, x)
         /\ ChainWork[x] < ChainWork[y] => Before(s, m, x, y)
         /\ \A z \in Block : ~Before(s, m, x, y) /\ ~Before(s, m, y, z) => ~Before(s, m, x, z)
<1>1. ChainWork[x] \in Nat /\ ChainWork[y] \in Nat /\ s[x] \in Nat /\ s[y] \in Nat
      /\ m[x] \in Nat /\ m[y] \in Nat
  BY Zenon, TreeFacts
<1>2. ASSUME NEW z \in Block, ~Before(s, m, x, y), ~Before(s, m, y, z)
      PROVE  ~Before(s, m, x, z)
  <2>1. ChainWork[z] \in Nat /\ s[z] \in Nat /\ m[z] \in Nat
    BY Zenon, TreeFacts
  <2> QED
    BY <1>1, <1>2, <2>1 DEF Before
<1> QED
  BY <1>1, <1>2 DEF Before

\* A descendant is not worse than its ancestor.
LEMMA AncNotBefore ==
  ASSUME NEW s \in [Block -> Nat], NEW m \in [Block -> Nat],
         NEW b \in Block, NEW a \in Anc[b]
  PROVE  ~Before(s, m, b, a)
<1>1. a \in Block /\ (a = b \/ ChainWork[a] < ChainWork[b])
  BY Zenon, AncLemma, AncWork
<1> QED
  BY <1>1, OrderLemma

\* The comparison looks at the sequence numbers of its two blocks only.
LEMMA BeforeSame ==
  ASSUME NEW s, NEW t, NEW m, NEW x, NEW y, s[x] = t[x], s[y] = t[y]
  PROVE  Before(s, m, x, y) <=> Before(t, m, x, y)
BY Zenon DEF Before

\* Blocks whose work is bounded have one of greatest work.
LEMMA GreatestWork ==
  ASSUME NEW S \in SUBSET Block, S # {}, NEW n \in Nat, \A c \in S : ChainWork[c] <= n
  PROVE  \E c \in S : \A d \in S : ChainWork[d] <= ChainWork[c]
<1> DEFINE T == {n - ChainWork[c] : c \in S}
<1>w. \A c \in S : ChainWork[c] \in Nat
  BY Zenon, TreeFacts
<1>1. T \in SUBSET Nat /\ T # {}
  BY <1>w
<1> HIDE DEF T
<1>2. PICK k \in T : \A j \in T : k <= j
  BY Zenon, <1>1, Least
<1>3. PICK c \in S : k = n - ChainWork[c]
  BY Zenon, <1>2 DEF T
<1>4. ASSUME NEW d \in S PROVE ChainWork[d] <= ChainWork[c]
  <2>1. n - ChainWork[d] \in T
    BY Zenon DEF T
  <2>2. n - ChainWork[c] <= n - ChainWork[d]
    BY Zenon, <2>1, <1>2, <1>3
  <2> QED
    BY <2>2, <1>w
<1> QED
  BY Zenon, <1>4

\* They have a best one, too.
LEMMA BestExists ==
  ASSUME NEW s \in [Block -> Nat], NEW m \in [Block -> Nat],
         NEW S \in SUBSET Block, S # {},
         NEW n \in Nat, \A c \in S : ChainWork[c] <= n
  PROVE  \E c \in S : \A d \in S : ~Before(s, m, c, d)
<1>w. \A c \in S : ChainWork[c] \in Nat /\ s[c] \in Nat /\ m[c] \in Nat
  BY Zenon, TreeFacts
<1>4. PICK c1 \in S : \A d \in S : ChainWork[d] <= ChainWork[c1]
  BY Zenon, GreatestWork
<1> DEFINE S2 == {c \in S : ChainWork[c] = ChainWork[c1]}
           T2 == {s[c] : c \in S2}
<1>5. T2 \in SUBSET Nat /\ T2 # {}
  BY Zenon, <1>w
<1> HIDE DEF T2
<1>6. PICK k2 \in T2 : \A j \in T2 : k2 <= j
  BY Zenon, <1>5, Least
<1>7. PICK c2 \in S2 : k2 = s[c2]
  BY Zenon, <1>6 DEF T2
<1>8. \A d \in S2 : s[c2] <= s[d]
  BY Zenon, <1>6, <1>7 DEF T2
<1> DEFINE S3 == {c \in S2 : s[c] = s[c2]}
           T3 == {m[c] : c \in S3}
<1>9. T3 \in SUBSET Nat /\ T3 # {}
  BY Zenon, <1>w
<1> HIDE DEF T3
<1>10. PICK k3 \in T3 : \A j \in T3 : k3 <= j
  BY Zenon, <1>9, Least
<1>11. PICK c3 \in S3 : k3 = m[c3]
  BY Zenon, <1>10 DEF T3
<1>12. \A d \in S3 : m[c3] <= m[d]
  BY Zenon, <1>10, <1>11 DEF T3
<1>13. ASSUME NEW d \in S PROVE ~Before(s, m, c3, d)
  <2>1. /\ c3 \in S /\ ChainWork[c3] = ChainWork[c1] /\ s[c3] = s[c2]
        /\ ChainWork[d] <= ChainWork[c3]
    BY Zenon, <1>4, <1>11
  <2>2. ChainWork[d] = ChainWork[c3] => s[c3] <= s[d]
    BY Zenon, <2>1, <1>8
  <2>3. ChainWork[d] = ChainWork[c3] /\ s[c3] = s[d] => m[c3] <= m[d]
    BY Zenon, <2>1, <1>12
  <2> QED
    BY <2>1, <2>2, <2>3, <1>w DEF Before
<1> QED
  BY Zenon, <1>11, <1>13

-----------------------------------------------------------------------------
(* The inductive invariant. *)

\* The index: linked blocks have linked ancestors and wait for nothing, and what the
\* activation heads for or came from is linked.
IndexInv ==
  /\ IsFiniteSet(known)
  /\ \E m \in known : \A b \in known : ChainWork[b] <= ChainWork[m]
  /\ unlinked \cap linked = {}
  /\ \A b \in linked : Anc[b] \subseteq linked
  /\ mostWork \in linked \cup {Null} /\ startTip \in linked /\ oldTip \in linked
  /\ pc = "step" => mostWork # Null
  /\ world \in Worlds

\* Blocks that are, or were when the round began, active are valid and not failed, and
\* nothing failed lies on the way to the block the activation heads for.
ActiveInv ==
  /\ Anc[tip] \subseteq Valid \ Failed
  /\ Anc[savedTip] \subseteq Valid
  /\ ~world.rpcs => Anc[savedTip] \cap Failed = {}
  /\ ~Unlocked => Anc[startTip] \subseteq Valid \ Failed
  /\ pc # "idle" /\ mostWork # Null => Anc[mostWork] \cap Failed = {}

\* Between steps the tip is on the way to mostWork; within one it is there or still on
\* the way back from the old tip, which is not better than the one of the round.
RoundInv ==
  /\ pc \in {"free", "find", "end"} /\ mostWork # Null => tip \in Anc[mostWork]
  /\ pc = "find" => ~Worse(startTip, tip)
  /\ pc = "step" => ~Worse(startTip, oldTip) /\ tip \in Anc[mostWork] \cup Anc[oldTip]

Sound(b) == Anc[b] \cap failedValid = {}

\* Without RPCs: the candidates are complete above the tip and, in a round, above the
\* tip it began with; the block the activation heads for is the best there is, unless
\* a block has arrived since, and so is the tip once nothing is left to do.
BestInv ==
  ~world.rpcs =>
    /\ \A b \in linked : ~Worse(b, tip) /\ Sound(b) /\ (Unlocked \/ ~Worse(b, startTip))
                           => b \in candidates
    /\ \A c \in candidates : ~Worse(c, tip)
    /\ \A x \in failedChild : ~Sound(x)
    /\ ~Unlocked /\ mostWork # Null => ~Worse(mostWork, startTip)
    /\ pc # "idle" /\ mostWork # Null /\ ~due =>
         \A b \in linked : Sound(b) => ~Worse(mostWork, b)
    /\ pc = "idle" /\ ~due => \A b \in linked : Worse(tip, b) => ~Sound(b)

-----------------------------------------------------------------------------
(* What the actions do. *)

\* A header or a block arrives, and the blocks of L are linked.
Arrives(b, L) ==
  /\ Unlocked
  /\ known' = known \cup {b}
  /\ data \subseteq data' /\ data' \subseteq data \cup {b}
  /\ L \subseteq data' \ linked
  /\ linked' = linked \cup L
  /\ unlinked' \subseteq data' \ linked'
  /\ \A x \in L : Anc[x] \subseteq linked'
  /\ seq' \in [Block -> Nat] /\ nextSeq' \in Nat
  /\ \A x \in linked : seq'[x] = seq[x]
  /\ candidates' = candidates \cup {x \in L : ~Before(seq', addr, x, tip)}
  /\ failedValid \subseteq failedValid' /\ failedValid' \subseteq failedValid \cup ({b} \ data)
  /\ due' \in BOOLEAN /\ (due \/ L # {} => due')
  /\ UNCHANGED <<failedChild, addr, tip, savedTip, pc, mostWork, startTip, oldTip, progress,
                 restarts, invalidates, world>>

\* ReceivedBlockTransactions links blocks whose ancestors are then all linked.
LEMMA LinkLemma ==
  ASSUME TypeOK, IndexInv, NEW b \in Block \ {Genesis}, b \notin data,
         Parent[b] \in linked
  PROVE  LET L == Waiting(b) IN
         /\ IsFiniteSet(L) /\ Cardinality(L) \in Nat
         /\ L \subseteq (data \cup {b}) \ linked
         /\ \A x \in L : Anc[x] \subseteq linked \cup L
<1> DEFINE L == Waiting(b)
           W == unlinked \cup {b}
<1>w. W \in SUBSET Block /\ W \subseteq (data \cup {b}) \ linked
  BY Zenon DEF TypeOK, IndexInv
<1>l. \A x \in Block : x \in L <=> x \in W /\ b \in Anc[x] /\ \A y \in Anc[x] : b \in Anc[y] => y \in W
  BY Zenon, <1>w DEF Waiting
<1>s. L \subseteq W
  BY Zenon DEF Waiting
<1> HIDE DEF L
<1>1. IsFiniteSet(W)
  <2>1. IsFiniteSet(unlinked)
    BY Zenon, FS_Subset DEF TypeOK, IndexInv
  <2> QED
    BY Zenon, <2>1, FS_AddElement
<1>2. IsFiniteSet(L) /\ Cardinality(L) \in Nat
  BY Zenon, <1>1, <1>s, FS_Subset, FS_CardinalityType
<1>3. ASSUME NEW x \in L, NEW y \in Anc[x] PROVE y \in linked \cup L
  <2>0. x \in Block /\ b \in Anc[x] /\ y \in Block
    BY Zenon, <1>3, <1>s, <1>w, <1>l, AncLemma
  <2>1. CASE b \in Anc[y]
    <3>1. y \in W /\ \A z \in Anc[y] : z \in Anc[x]
      BY Zenon, <2>0, <2>1, <1>3, <1>l, <1>s, AncTransitive
    <3> QED
      BY Zenon, <3>1, <2>0, <2>1, <1>3, <1>l
  <2>2. CASE b \notin Anc[y]
    <3>1. y \in Anc[b] /\ y # b
      BY Zenon, <2>0, <2>2, <1>3, AncLinear, AncLemma
    <3>2. y \in Anc[Parent[b]]
      BY Zenon, <3>1, AncStep
    <3> QED
      BY Zenon, <3>2 DEF IndexInv
  <2> QED
    BY Zenon, <2>1, <2>2
<1> QED
  BY Zenon, <1>2, <1>3, <1>s, <1>w DEF L

\* Headers and blocks arrive as Arrives says, whatever comes of them.
LEMMA ArrivalLemma ==
  ASSUME TypeOK, IndexInv, NEW b \in Block \ {Genesis},
         AcceptBlockHeader(b) \/ ReceiveBlock(b) \/ SubmitBlock(b)
  PROVE  \E L \in SUBSET Block : Arrives(b, L)
<1>t. /\ seq \in [Block -> Nat] /\ nextSeq \in Nat /\ due \in BOOLEAN
      /\ unlinked \subseteq data \ linked
      /\ linked \subseteq data
  BY Zenon DEF TypeOK, IndexInv
<1>1. CASE AcceptBlockHeader(b)
  <2>1. Arrives(b, {})
    BY Zenon, <1>1, <1>t DEF AcceptBlockHeader, Arrives, failed, order, round, bounds
  <2> QED
    BY Zenon, <2>1
<1>2. CASE ProcessNewBlock(b)
  <2>1. /\ Unlocked /\ known' = known \cup {b} /\ AcceptBlock(b)
        /\ UNCHANGED <<failedChild, addr, tip, savedTip, pc, mostWork, startTip, oldTip,
                       progress, restarts, invalidates, world>>
    BY Zenon, <1>2 DEF ProcessNewBlock, round, bounds
  <2>2. CASE b \notin NonFinal \cup data /\ ReceivedBlockTransactions(b)
             /\ due' = TRUE /\ UNCHANGED failedValid
    <3>1. CASE Parent[b] \notin linked
      <4>1. /\ data' = data \cup {b} /\ unlinked' = unlinked \cup {b}
            /\ UNCHANGED <<linked, seq, nextSeq, candidates>>
        BY Zenon, <2>2, <3>1 DEF ReceivedBlockTransactions
      <4>2. Arrives(b, {})
        BY Zenon, <1>t, <2>1, <2>2, <4>1 DEF Arrives
      <4> QED
        BY Zenon, <4>2
    <3>2. CASE Parent[b] \in linked
      <4> DEFINE L == Waiting(b)
      <4>1. /\ IsFiniteSet(L) /\ Cardinality(L) \in Nat
            /\ L \subseteq (data \cup {b}) \ linked
            /\ \A x \in L : Anc[x] \subseteq linked \cup L
        BY Zenon, <2>2, <3>2, LinkLemma
      <4>2. PICK s \in Numberings(L) :
              /\ seq' = [x \in Block |-> IF x \in L THEN s[x] ELSE seq[x]]
              /\ nextSeq' = nextSeq + Cardinality(L)
              /\ linked' = linked \cup L /\ unlinked' = unlinked \ L
              /\ candidates' = candidates \cup
                   {x \in L : ~Before([y \in Block |-> IF y \in L THEN s[y] ELSE seq[y]], addr, x, tip)}
        BY Zenon, <2>2, <3>2 DEF ReceivedBlockTransactions
      <4>3. data' = data \cup {b}
        BY Zenon, <2>2 DEF ReceivedBlockTransactions
      <4>4. \A x \in L : s[x] \in Nat
        BY <4>1, <4>2, <1>t DEF Numberings
      <4> HIDE DEF L
      <4>5. seq' \in [Block -> Nat] /\ \A x \in linked : seq'[x] = seq[x]
        BY Zenon, <4>1, <4>2, <4>4, <1>t DEF TypeOK
      <4>6. candidates' = candidates \cup {x \in L : ~Before(seq', addr, x, tip)}
        BY Zenon, <4>2
      <4>7. L \in SUBSET Block
        BY Zenon, <4>1 DEF TypeOK
      <4>9. unlinked' \subseteq data' \ linked'
        BY Zenon, <4>2, <4>3, <1>t
      <4>10. nextSeq' \in Nat
        BY <4>1, <4>2, <1>t
      <4>11. Arrives(b, L)
        BY Zenon, <2>1, <2>2, <4>1, <4>2, <4>3, <4>5, <4>6, <4>9, <4>10 DEF Arrives
      <4> QED
        BY Zenon, <4>7, <4>11
    <3> QED
      BY Zenon, <3>1, <3>2
  <2>3. CASE /\ UNCHANGED <<data, linked, unlinked, seq, nextSeq, candidates>>
             /\ failedValid \subseteq failedValid' /\ failedValid' \subseteq failedValid \cup ({b} \ data)
             /\ due' \in BOOLEAN /\ (due => due')
    <3>1. Arrives(b, {})
      BY Zenon, <2>1, <2>3, <1>t DEF Arrives
    <3> QED
      BY Zenon, <3>1
  <2> QED
    BY Zenon, <2>1, <2>2, <2>3, <1>t DEF AcceptBlock
<1> QED
  BY Zenon, <1>1, <1>2 DEF ReceiveBlock, SubmitBlock

\* The next block towards mostWork is a child of the tip.
LEMMA FollowLemma ==
  ASSUME TypeOK, IndexInv, pc = "step", tip \in Anc[mostWork], tip # mostWork
  PROVE  /\ Following \in Anc[mostWork] \ Anc[tip]
         /\ Following \in linked
         /\ Anc[Following] = {Following} \cup Anc[tip]
         /\ ChainWork[tip] < ChainWork[Following]
<1>1. mostWork \in linked /\ mostWork \in Block /\ tip \in Block
  BY Zenon DEF TypeOK, IndexInv
<1>2. \E b \in Anc[mostWork] \ Anc[tip] : Parent[b] = tip
  BY Zenon, <1>1, NextOnChain
<1>3. Following \in Anc[mostWork] \ Anc[tip] /\ Parent[Following] = tip
  BY Zenon, <1>2 DEF Following
<1>4. Following \in linked
  BY Zenon, <1>1, <1>3 DEF IndexInv
<1>5. Following \in Block \ {Genesis}
  BY Zenon, <1>1, <1>3, <1>4, GenesisCommon DEF TypeOK
<1>6. Anc[Following] = {Following} \cup Anc[tip]
  BY Zenon, <1>3, <1>5, AncStep
<1>7. ChainWork[tip] < ChainWork[Following]
  BY Zenon, <1>3, <1>5, TreeFacts
<1> QED
  BY Zenon, <1>3, <1>4, <1>6, <1>7

\* setBlockIndexCandidates has a last element.
LEMMA BestLemma ==
  ASSUME TypeOK, IndexInv, candidates # {}
  PROVE  BestCandidate \in candidates /\ \A d \in candidates : ~Worse(BestCandidate, d)
<1>1. seq \in [Block -> Nat] /\ addr \in [Block -> Nat] /\ candidates \in SUBSET Block
  BY Zenon, TreeFacts DEF TypeOK
<1>2. PICK m \in known : \A b \in known : ChainWork[b] <= ChainWork[m]
  BY Zenon DEF IndexInv
<1>3. ChainWork[m] \in Nat /\ \A c \in candidates : ChainWork[c] <= ChainWork[m]
  BY Zenon, <1>2, TreeFacts DEF TypeOK
<1>4. \E c \in candidates : \A d \in candidates : ~Before(seq, addr, c, d)
  BY Zenon, <1>1, <1>3, BestExists
<1> QED
  BY Zenon, <1>4 DEF BestCandidate, Worse

\* FindMostWorkChain drops a failed block that is not active, and blocks above it.
LEMMA DropLemma ==
  ASSUME TypeOK, IndexInv, DropCandidate
  PROVE  \E met \in Failed \ Anc[tip], above \in SUBSET linked :
           /\ \A x \in above : met \in Anc[x]
           /\ candidates' = candidates \ above
           /\ failedChild' = failedChild \cup (above \ {met})
<1> DEFINE c == BestCandidate
           F == FailedOnPath(c)
           met == CHOOSE x \in F : \A y \in F : y \in Anc[x]
           above == {x \in Anc[c] : met \in Anc[x]}
<1>1. c \in linked /\ c \in Block /\ Anc[c] \subseteq linked /\ F # {}
  BY Zenon, BestLemma DEF DropCandidate, TypeOK, IndexInv
<1>2. candidates' = candidates \ above /\ failedChild' = failedChild \cup (above \ {met})
  BY Zenon DEF DropCandidate
<1>f. F \subseteq Anc[c] /\ F \subseteq Failed \ Anc[tip]
  BY Zenon DEF FailedOnPath
<1> HIDE DEF c, F
<1>3. \A x \in F : x \in Block /\ ChainWork[x] <= ChainWork[c] /\ ChainWork[x] \in Nat /\ ChainWork[c] \in Nat
  BY <1>1, <1>f, AncLemma, AncWork, TreeFacts
<1>4. PICK x \in F : \A y \in F : ChainWork[y] <= ChainWork[x]
  BY Zenon, <1>1, <1>3, GreatestWork
<1>5. ASSUME NEW y \in F PROVE y \in Anc[x]
  <2>1. x \in Anc[c] /\ y \in Anc[c] /\ y \in Block /\ x \in Block
    BY Zenon, <1>3, <1>f
  <2>2. y \in Anc[x] \/ x \in Anc[y]
    BY Zenon, <2>1, <1>1, AncLinear
  <2>3. x \in Anc[y] => x = y
    BY <2>1, <1>3, <1>4, AncWork
  <2> QED
    BY Zenon, <2>1, <2>2, <2>3, AncLemma
<1>6. met \in F
  BY Zenon, <1>5
<1> HIDE DEF met
<1>7. met \in Failed \ Anc[tip]
  BY Zenon, <1>6, <1>f
<1>8. above \in SUBSET linked /\ \A z \in above : met \in Anc[z]
  BY Zenon, <1>1
<1> HIDE DEF above
<1> QED
  BY Zenon, <1>2, <1>7, <1>8

-----------------------------------------------------------------------------
(* Types and the index. *)

\* What arrives keeps the types and the index in order.
LEMMA ArrivalTypes ==
  ASSUME TypeOK, IndexInv, NEW b \in Block, NEW L \in SUBSET Block, Arrives(b, L)
  PROVE  TypeOK' /\ IndexInv'
<1>1. TypeOK'
  BY Zenon DEF TypeOK, Arrives
<1>2. IsFiniteSet(known')
  BY Zenon, FS_AddElement DEF Arrives, IndexInv
<1>3. \E m \in known' : \A x \in known' : ChainWork[x] <= ChainWork[m]
  <2>1. PICK m \in known : \A x \in known : ChainWork[x] <= ChainWork[m]
    BY Zenon DEF IndexInv
  <2>2. ChainWork[m] \in Nat /\ ChainWork[b] \in Nat /\ \A x \in known : ChainWork[x] \in Nat
    BY Zenon, TreeFacts DEF TypeOK
  <2>3. CASE ChainWork[b] <= ChainWork[m]
    BY Zenon, <2>1, <2>3 DEF Arrives
  <2>4. CASE ChainWork[m] <= ChainWork[b]
    BY <2>1, <2>2, <2>4 DEF Arrives
  <2> QED
    BY <2>2, <2>3, <2>4
<1>4. /\ unlinked' \cap linked' = {}
      /\ \A x \in linked' : Anc[x] \subseteq linked'
  BY Zenon DEF Arrives, IndexInv
<1>5. /\ mostWork' \in linked' \cup {Null} /\ startTip' \in linked' /\ oldTip' \in linked'
      /\ pc' = "step" => mostWork' # Null
      /\ world' \in Worlds
  BY Zenon DEF Arrives, IndexInv
<1> QED
  BY Zenon, <1>1, <1>2, <1>3, <1>4, <1>5 DEF IndexInv

\* A step that leaves the index and the order of the blocks alone keeps IndexInv when
\* what it heads for and came from is linked.
LEMMA IndexSame ==
  ASSUME IndexInv, UNCHANGED <<known, data, linked, unlinked, world>>,
         mostWork' \in linked \cup {Null}, startTip' \in linked, oldTip' \in linked,
         pc' = "step" => mostWork' # Null
  PROVE  IndexInv'
BY Zenon DEF IndexInv

\* The parent of a linked block is linked.
LEMMA ParentLinked ==
  ASSUME TypeOK, IndexInv, NEW b \in linked, b # Genesis
  PROVE  Parent[b] \in linked /\ b \in Block
<1>1. b \in Block /\ Anc[b] \subseteq linked
  BY Zenon DEF TypeOK, IndexInv
<1>2. Parent[b] \in Anc[b]
  BY Zenon, <1>1, AncLemma
<1> QED
  BY Zenon, <1>1, <1>2

\* Every step keeps the types and the index in order.
LEMMA TypeStep ==
  ASSUME TypeOK, IndexInv, [Next]_vars
  PROVE  TypeOK' /\ IndexInv'
<1>b. ASSUME NEW b \in world.blocks PROVE b \in Block
  BY Zenon, ChainAssumption DEF ChainAssumption, IndexInv
<1>f. Found \in linked \cup {Null} /\ Null \notin linked
  BY Zenon, BestLemma, TreeFacts DEF Found, TypeOK, IndexInv
<1>1. ASSUME NEW b \in world.blocks \ {Genesis},
             AcceptBlockHeader(b) \/ ReceiveBlock(b) \/ SubmitBlock(b)
      PROVE  TypeOK' /\ IndexInv'
  BY Zenon, <1>1, <1>b, ArrivalLemma, ArrivalTypes
<1>2. ASSUME NEW b \in world.blocks \ {Genesis}, InvalidateBlock(b)
      PROVE  TypeOK' /\ IndexInv'
  <2>1. /\ UNCHANGED <<known, data, linked, unlinked, seq, nextSeq, addr, pc, mostWork, startTip,
                       oldTip, progress, due, restarts, world>>
        /\ b \in known \ {Genesis}
        /\ failedValid' = failedValid \cup {b}
        /\ failedChild' = failedChild \cup {x \in Anc[tip] : b \in Anc[x]}
        /\ tip' = IF b \in Anc[tip] THEN Parent[b] ELSE tip
        /\ savedTip' \in {savedTip, tip'}
        /\ candidates' \subseteq candidates \cup linked
        /\ invalidates < MaxInvalidates /\ invalidates' = invalidates + 1
    BY Zenon, <1>2 DEF InvalidateBlock, Saved, Reached, index, order, round
  <2>2. Anc[tip] \subseteq linked
    BY Zenon DEF TypeOK, IndexInv
  <2>3. tip' \in linked
    BY Zenon, <2>1, <2>2, ParentLinked DEF TypeOK
  <2>4. invalidates' \in 0 .. MaxInvalidates
    BY <2>1, ChainAssumption DEF ChainAssumption, TypeOK
  <2>5. TypeOK'
    BY Zenon, <2>1, <2>2, <2>3, <2>4 DEF TypeOK
  <2> QED
    BY Zenon, <2>1, <2>5, IndexSame DEF IndexInv
<1>3. ASSUME NEW b \in world.blocks \ {Genesis}, ReconsiderBlock(b)
      PROVE  TypeOK' /\ IndexInv'
  <2>1. /\ UNCHANGED <<known, data, linked, unlinked, seq, nextSeq, addr, pc, mostWork, startTip,
                       oldTip, progress, due, restarts, invalidates, world, tip, savedTip>>
        /\ failedValid' \subseteq failedValid /\ failedChild' \subseteq failedChild
        /\ candidates' \subseteq candidates \cup linked
    BY Zenon, <1>3 DEF ReconsiderBlock, index, order, round, bounds
  <2>2. TypeOK'
    BY Zenon, <2>1 DEF TypeOK
  <2> QED
    BY Zenon, <2>1, <2>2, IndexSame DEF IndexInv
<1>4. CASE StartActivate
  <2>1. TypeOK'
    BY Zenon, <1>4 DEF StartActivate, TypeOK, index, failed, order, bounds
  <2> QED
    BY Zenon, <1>4, <2>1, IndexSame DEF StartActivate, IndexInv, index, bounds
<1>5. CASE StartRound
  <2>1. TypeOK'
    BY Zenon, <1>5 DEF StartRound, TypeOK, index, failed, order, bounds
  <2> QED
    BY Zenon, <1>5, <2>1, IndexSame DEF StartRound, IndexInv, TypeOK, index, bounds
<1>6. CASE DropCandidate
  <2>1. PICK met \in Failed \ Anc[tip], above \in SUBSET linked :
           /\ candidates' = candidates \ above
           /\ failedChild' = failedChild \cup (above \ {met})
    BY Zenon, <1>6, DropLemma
  <2>2. UNCHANGED <<known, data, linked, unlinked, failedValid, seq, nextSeq, addr, tip, savedTip,
                    pc, mostWork, startTip, oldTip, progress, due, restarts, invalidates, world>>
    BY Zenon, <1>6 DEF DropCandidate, index, order, round, bounds
  <2>3. TypeOK'
    BY Zenon, <2>1, <2>2 DEF TypeOK
  <2> QED
    BY Zenon, <2>2, <2>3, IndexSame DEF IndexInv
<1>7. CASE StartStep
  <2>1. /\ UNCHANGED <<known, data, linked, unlinked, failedValid, failedChild, seq, nextSeq, addr,
                       candidates, tip, savedTip, startTip, progress, due, restarts, invalidates, world>>
        /\ mostWork' = Found /\ Found # Null /\ pc' = "step" /\ oldTip' = tip
    BY Zenon, <1>7 DEF StartStep, index, failed, order, bounds
  <2>2. TypeOK'
    BY Zenon, <2>1, <1>f DEF TypeOK
  <2> QED
    BY Zenon, <2>1, <2>2, <1>f, IndexSame DEF IndexInv, TypeOK
<1>8. CASE LeaveRound
  <2>1. /\ UNCHANGED <<known, data, linked, unlinked, failedValid, failedChild, seq, nextSeq, addr,
                       candidates, tip, savedTip, startTip, oldTip, progress, due, restarts,
                       invalidates, world>>
        /\ mostWork' = Found /\ pc' \in {"free", "idle"}
    BY Zenon, <1>8 DEF LeaveRound, index, failed, order, bounds
  <2>2. TypeOK'
    BY Zenon, <2>1, <1>f DEF TypeOK
  <2> QED
    BY Zenon, <2>1, <2>2, <1>f, IndexSame DEF IndexInv
<1>9. CASE DisconnectTip
  <2>1. /\ UNCHANGED <<known, data, linked, unlinked, failedValid, failedChild, seq, nextSeq, addr,
                       candidates, pc, mostWork, startTip, oldTip, progress, due, restarts,
                       invalidates, world>>
        /\ pc = "step" /\ tip \notin Anc[mostWork]
        /\ tip' = Parent[tip] /\ savedTip' \in {savedTip, tip'}
    BY Zenon, <1>9 DEF DisconnectTip, Saved, index, failed, order, round, bounds
  <2>2. tip # Genesis
    BY Zenon, <2>1, GenesisCommon DEF IndexInv, TypeOK
  <2>3. tip' \in linked
    BY Zenon, <2>1, <2>2, ParentLinked DEF TypeOK
  <2>4. TypeOK'
    BY Zenon, <2>1, <2>3 DEF TypeOK
  <2> QED
    BY Zenon, <2>1, <2>4, IndexSame DEF IndexInv
<1>10. CASE ConnectTip
  <2>1. /\ UNCHANGED <<known, data, linked, unlinked, failedValid, failedChild, seq, nextSeq, addr,
                       mostWork, startTip, oldTip, progress, due, restarts, invalidates, world>>
        /\ candidates' \subseteq candidates
        /\ tip' = Following /\ savedTip' \in {savedTip, tip'}
        /\ pc = "step" /\ pc' \in {"step", "end"}
    BY Zenon, <1>10 DEF ConnectTip, Saved, Pruned, index, failed, order, bounds
  <2>2. Following \in linked
    BY Zenon, <1>10, FollowLemma DEF ConnectTip
  <2>3. TypeOK'
    BY Zenon, <2>1, <2>2 DEF TypeOK
  <2> QED
    BY Zenon, <2>1, <2>3, IndexSame DEF IndexInv
<1>11. CASE ConnectTipInvalid
  <2>1. /\ UNCHANGED <<known, data, linked, unlinked, failedChild, seq, nextSeq, addr, tip, savedTip,
                       startTip, oldTip, progress, due, restarts, invalidates, world>>
        /\ candidates' \subseteq candidates
        /\ failedValid' = failedValid \cup {Following}
        /\ mostWork' = Null /\ pc' = "end"
    BY Zenon, <1>11 DEF ConnectTipInvalid, index, order, bounds
  <2>2. Following \in linked
    BY Zenon, <1>11, FollowLemma DEF ConnectTipInvalid
  <2>3. TypeOK'
    BY Zenon, <2>1, <2>2 DEF TypeOK
  <2> QED
    BY Zenon, <2>1, <2>3, IndexSame DEF IndexInv
<1>12. CASE EndStep
  <2>1. /\ UNCHANGED <<known, data, linked, unlinked, failedValid, failedChild, seq, nextSeq, addr,
                       candidates, tip, savedTip, mostWork, startTip, oldTip, due, restarts,
                       invalidates, world>>
        /\ pc' \in {"find", "idle", "free"} /\ progress' = TRUE
    BY Zenon, <1>12 DEF EndStep, index, failed, order, bounds
  <2>2. TypeOK'
    BY Zenon, <2>1 DEF TypeOK
  <2> QED
    BY Zenon, <2>1, <2>2, IndexSame DEF IndexInv
<1>13. CASE SaveTip
  <2>1. TypeOK'
    BY Zenon, <1>13 DEF SaveTip, TypeOK, index, failed, order, round, bounds
  <2> QED
    BY Zenon, <1>13, <2>1, IndexSame DEF SaveTip, IndexInv, index, round, bounds
<1>14. CASE Restart
  <2>1. /\ UNCHANGED <<known, data, linked, unlinked, failedValid, savedTip, invalidates, world>>
        /\ failedChild' \subseteq failedChild /\ addr' \in Addresses
        /\ candidates' \subseteq linked
        /\ seq' = NoSeq /\ nextSeq' = 1
        /\ tip' = savedTip /\ startTip' = savedTip /\ oldTip' = savedTip /\ mostWork' = Null
        /\ pc' = "idle" /\ due' = TRUE /\ progress' = FALSE
        /\ restarts < MaxRestarts /\ restarts' = restarts + 1
    BY Zenon, <1>14 DEF Restart, LoadedCandidates, index
  <2>2. restarts' \in 0 .. MaxRestarts
    BY <2>1, ChainAssumption DEF ChainAssumption, TypeOK
  <2>3. TypeOK'
    BY Zenon, <2>1, <2>2 DEF TypeOK, NoSeq
  <2> QED
    BY Zenon, <2>1, <2>3, IndexSame DEF TypeOK
<1>15. CASE UNCHANGED vars
  <2>1. TypeOK'
    BY Zenon, <1>15 DEF vars, TypeOK
  <2> QED
    BY Zenon, <1>15, <2>1, IndexSame DEF vars, IndexInv
<1> QED
  BY Zenon, <1>1, <1>2, <1>3, <1>4, <1>5, <1>6, <1>7, <1>8, <1>9, <1>10, <1>11, <1>12, <1>13, <1>14,
     <1>15 DEF Next, Activate

-----------------------------------------------------------------------------
(* The other invariants, action by action. *)

Inv == TypeOK /\ IndexInv /\ ActiveInv /\ RoundInv /\ BestInv

Kept == ActiveInv' /\ RoundInv' /\ BestInv'

\* The kinds of the things compared.
LEMMA Kinds ==
  ASSUME TypeOK, IndexInv
  PROVE  /\ seq \in [Block -> Nat] /\ addr \in [Block -> Nat]
         /\ linked \subseteq Block /\ linked \subseteq data /\ candidates \subseteq linked
         /\ tip \in linked /\ savedTip \in linked /\ startTip \in linked /\ oldTip \in linked
         /\ mostWork # Null => mostWork \in linked
         /\ Null \notin linked
BY Zenon, TreeFacts DEF TypeOK, IndexInv

\* Worse is a strict order.
LEMMA WorseLemma ==
  ASSUME TypeOK, IndexInv, NEW x \in linked, NEW y \in linked
  PROVE  /\ ~Worse(x, x)
         /\ Worse(x, y) => ~Worse(y, x)
         /\ x \in Anc[y] => ~Worse(y, x)
         /\ \A z \in linked : ~Worse(x, y) /\ ~Worse(y, z) => ~Worse(x, z)
<1>1. /\ seq \in [Block -> Nat] /\ addr \in [Block -> Nat] /\ x \in Block /\ y \in Block
      /\ linked \subseteq Block
  BY Zenon, Kinds
<1>2. /\ ~Before(seq, addr, x, x)
      /\ Before(seq, addr, x, y) => ~Before(seq, addr, y, x)
      /\ \A z \in Block : ~Before(seq, addr, x, y) /\ ~Before(seq, addr, y, z) => ~Before(seq, addr, x, z)
  BY Zenon, <1>1, OrderLemma
<1>3. x \in Anc[y] => ~Before(seq, addr, y, x)
  BY Zenon, <1>1, AncNotBefore
<1> QED
  BY Zenon, <1>1, <1>2, <1>3 DEF Worse

\* Headers and blocks that arrive keep the invariant: what they mark failed has no data
\* yet, and what they link is a candidate if it is good enough.
LEMMA ArrivalKeeps ==
  ASSUME Inv, NEW b \in Block, NEW L \in SUBSET Block, Arrives(b, L)
  PROVE  Kept
<1>k. /\ linked \subseteq data /\ tip \in linked /\ savedTip \in linked /\ startTip \in linked
      /\ mostWork # Null => mostWork \in linked
      /\ \A x \in linked : Anc[x] \subseteq linked
  BY Zenon, Kinds DEF Inv, IndexInv
<1>1. \A x \in linked : Anc[x] \cap failedValid' = Anc[x] \cap failedValid
  BY Zenon, <1>k DEF Arrives
<1>2. \A x \in linked : Anc[x] \cap Failed' = Anc[x] \cap Failed
  BY Zenon, <1>1 DEF Failed, Arrives
<1>3. ActiveInv'
  BY <1>2, <1>k DEF Inv, ActiveInv, Arrives, Unlocked
<1>4. RoundInv'
  BY Zenon DEF Inv, RoundInv, Arrives, Unlocked
<1>5. \A x \in linked, y \in linked : Before(seq', addr, x, y) <=> Before(seq, addr, x, y)
  BY Zenon, BeforeSame DEF Arrives
<1>6. ASSUME ~world.rpcs PROVE BestInv'
  <2>1. ASSUME NEW x \in linked', ~Before(seq', addr, x, tip), Anc[x] \cap failedValid' = {}
        PROVE  x \in candidates'
    <3>1. CASE x \in linked
      <4>1. ~Worse(x, tip) /\ Sound(x)
        BY Zenon, <2>1, <3>1, <1>1, <1>5, <1>k DEF Worse, Sound
      <4>2. x \in candidates
        BY Zenon, <4>1, <3>1, <1>6 DEF Inv, BestInv, Arrives
      <4> QED
        BY Zenon, <4>2 DEF Arrives
    <3>2. CASE x \in L
      BY Zenon, <2>1, <3>2 DEF Arrives
    <3> QED
      BY Zenon, <3>1, <3>2 DEF Arrives
  <2>2. ASSUME NEW c \in candidates' PROVE ~Before(seq', addr, c, tip)
    <3>1. CASE c \in candidates
      <4>1. ~Worse(c, tip) /\ c \in linked
        BY Zenon, <3>1, <1>6, Kinds DEF Inv, BestInv
      <4> QED
        BY Zenon, <4>1, <1>5, <1>k DEF Worse
    <3> QED
      BY Zenon, <3>1 DEF Arrives
  <2>3. ASSUME NEW x \in failedChild' PROVE Anc[x] \cap failedValid' # {}
    BY Zenon, <1>6 DEF Inv, BestInv, Sound, Arrives
  <2>4. ASSUME ~due' PROVE ~due /\ linked' = linked
    BY Zenon, <2>4 DEF Arrives
  <2>5. ASSUME pc # "idle", mostWork # Null, ~due', NEW x \in linked', Anc[x] \cap failedValid' = {}
        PROVE  ~Before(seq', addr, mostWork, x)
    <3>1. x \in linked /\ ~due
      BY Zenon, <2>5, <2>4
    <3>2. Sound(x)
      BY Zenon, <2>5, <3>1, <1>1 DEF Sound
    <3>3. ~Worse(mostWork, x)
      BY Zenon, <2>5, <3>1, <3>2, <1>6 DEF Inv, BestInv
    <3> QED
      BY Zenon, <2>5, <3>1, <3>3, <1>5, <1>k DEF Worse
  <2>6. ASSUME pc = "idle", ~due', NEW x \in linked', Before(seq', addr, tip, x)
        PROVE  Anc[x] \cap failedValid' # {}
    <3>1. x \in linked /\ ~due
      BY Zenon, <2>6, <2>4
    <3>2. Worse(tip, x)
      BY Zenon, <2>6, <3>1, <1>5, <1>k DEF Worse
    <3>3. ~Sound(x)
      BY Zenon, <2>6, <3>1, <3>2, <1>6 DEF Inv, BestInv
    <3> QED
      BY Zenon, <3>1, <3>3, <1>1 DEF Sound
  <2>7. /\ UNCHANGED <<tip, pc, mostWork, world, addr, startTip>> /\ Unlocked' /\ Unlocked
    BY Zenon DEF Arrives, Unlocked
  <2> QED
    BY Zenon, <2>1, <2>2, <2>3, <2>5, <2>6, <2>7 DEF BestInv, Worse, Sound
<1>7. world.rpcs => BestInv'
  BY Zenon DEF BestInv, Arrives
<1> QED
  BY Zenon, <1>3, <1>4, <1>6, <1>7 DEF Kept

\* invalidateblock keeps it: the new tip is below everything it marks.
LEMMA InvalidateKeeps ==
  ASSUME Inv, NEW b \in Block \ {Genesis}, InvalidateBlock(b), InvalidateAt \subseteq {"idle"}
  PROVE  Kept
<1>1. /\ UNCHANGED <<pc, world>> /\ pc = "idle" /\ world.rpcs
      /\ failedValid' = failedValid \cup {b}
      /\ failedChild' = failedChild \cup {x \in Anc[tip] : b \in Anc[x]}
      /\ tip' = IF b \in Anc[tip] THEN Parent[b] ELSE tip
      /\ savedTip' \in {savedTip, tip'}
  BY Zenon DEF InvalidateBlock, Saved, round
<1>2. tip \in Block /\ Parent[b] \in Block /\ ChainWork[Parent[b]] < ChainWork[b]
      /\ ChainWork[Parent[b]] \in Nat /\ ChainWork[b] \in Nat
  BY Zenon, Kinds, TreeFacts DEF Inv
<1>3. tip' \in Anc[tip] /\ Anc[tip'] \subseteq Anc[tip]
  <2>1. tip' \in Anc[tip]
    BY Zenon, <1>1, <1>2, AncLemma
  <2> QED
    BY Zenon, <2>1, <1>2, AncTransitive
<1>4. b \notin Anc[tip']
  <2>1. CASE b \in Anc[tip]
    <3>1. b \in Anc[Parent[b]] => b = Parent[b] \/ ChainWork[b] < ChainWork[Parent[b]]
      BY Zenon, <1>2, AncWork
    <3> QED
      BY <3>1, <2>1, <1>1, <1>2
  <2>2. CASE b \notin Anc[tip]
    BY Zenon, <2>2, <1>1
  <2> QED
    BY Zenon, <2>1, <2>2
<1>5. ASSUME NEW x \in Anc[tip'] PROVE b \notin Anc[x]
  <2>1. tip' \in Block
    BY Zenon, <1>1, <1>2
  <2>2. Anc[x] \subseteq Anc[tip']
    BY Zenon, <2>1, AncTransitive
  <2> QED
    BY Zenon, <2>2, <1>4
<1>6. Anc[tip'] \cap Failed' = {}
  <2>1. Anc[tip'] \cap Failed = {}
    BY Zenon, <1>3 DEF Inv, ActiveInv
  <2> QED
    BY Zenon, <2>1, <1>1, <1>4, <1>5 DEF Failed
<1>7. Anc[tip'] \subseteq Valid /\ Anc[savedTip'] \subseteq Valid
  BY Zenon, <1>1, <1>3 DEF Inv, ActiveInv
<1>8. ActiveInv'
  BY Zenon, <1>1, <1>6, <1>7 DEF ActiveInv, Unlocked
<1> QED
  BY Zenon, <1>1, <1>8 DEF Kept, RoundInv, BestInv

\* reconsiderblock keeps it: it only clears marks.
LEMMA ReconsiderKeeps ==
  ASSUME Inv, NEW b \in Block, ReconsiderBlock(b)
  PROVE  Kept
<1>1. /\ UNCHANGED <<tip, savedTip, seq, addr, pc, mostWork, startTip, oldTip, world>>
      /\ world.rpcs /\ Unlocked
      /\ failedValid' \subseteq failedValid /\ failedChild' \subseteq failedChild
  BY Zenon DEF ReconsiderBlock, order, round, bounds
<1>2. ActiveInv'
  BY Zenon, <1>1 DEF Inv, ActiveInv, Failed, Unlocked
<1>3. RoundInv'
  BY Zenon, <1>1 DEF Inv, RoundInv, Unlocked
<1> QED
  BY Zenon, <1>1, <1>2, <1>3 DEF Kept, BestInv

\* A call of ActivateBestChain starts with no block to head for.
LEMMA StartActivateKeeps ==
  ASSUME Inv, StartActivate
  PROVE  Kept
<1>1. /\ UNCHANGED <<linked, failedValid, failedChild, seq, addr, candidates, tip, savedTip,
                     startTip, oldTip, world>>
      /\ pc = "idle" /\ pc' = "free" /\ mostWork' = Null
  BY Zenon DEF StartActivate, index, failed, order, bounds
<1>2. ActiveInv'
  BY Zenon, <1>1 DEF Inv, ActiveInv, Failed, Unlocked
<1>3. RoundInv'
  BY Zenon, <1>1 DEF RoundInv
<1>4. BestInv'
  BY Zenon, <1>1 DEF Inv, BestInv, Worse, Sound, Unlocked
<1> QED
  BY Zenon, <1>2, <1>3, <1>4 DEF Kept

\* A round starts from a tip that is not worse than itself.
LEMMA StartRoundKeeps ==
  ASSUME Inv, StartRound
  PROVE  Kept
<1>1. /\ UNCHANGED <<linked, failedValid, failedChild, seq, addr, candidates, tip, savedTip,
                     mostWork, oldTip, due, world>>
      /\ pc = "free" /\ pc' = "find" /\ startTip' = tip
  BY Zenon DEF StartRound, index, failed, order, bounds
<1>2. ActiveInv'
  BY Zenon, <1>1 DEF Inv, ActiveInv, Failed, Unlocked
<1>3. ~Worse(tip, tip) /\ (mostWork # Null => tip \in Anc[mostWork] /\ ~Worse(mostWork, tip))
  BY Zenon, <1>1, Kinds, WorseLemma DEF Inv, RoundInv
<1>4. RoundInv'
  BY Zenon, <1>1, <1>3 DEF RoundInv, Worse
<1>5. BestInv'
  BY Zenon, <1>1, <1>3 DEF Inv, BestInv, Worse, Sound, Unlocked
<1> QED
  BY Zenon, <1>2, <1>4, <1>5 DEF Kept

\* FindMostWorkChain keeps it: what it drops and marks has a failed ancestor.
LEMMA DropKeeps ==
  ASSUME Inv, DropCandidate
  PROVE  Kept
<1>1. /\ UNCHANGED <<linked, failedValid, seq, addr, tip, savedTip, pc, mostWork, startTip,
                     oldTip, due, world>>
      /\ pc = "find" /\ mostWork = Null
  BY Zenon DEF DropCandidate, index, order, round, bounds
<1>2. PICK met \in Failed \ Anc[tip], above \in SUBSET linked :
        /\ \A x \in above : met \in Anc[x]
        /\ candidates' = candidates \ above
        /\ failedChild' = failedChild \cup (above \ {met})
  BY Zenon, DropLemma DEF Inv
<1>k. /\ tip \in linked /\ savedTip \in linked /\ startTip \in linked /\ linked \subseteq Block
  BY Zenon, Kinds DEF Inv
<1>3. ASSUME NEW t \in linked, Anc[t] \cap Failed = {} PROVE Anc[t] \cap Failed' = {}
  <2>1. ASSUME NEW x \in Anc[t] PROVE x \notin above
    <3>1. Anc[x] \subseteq Anc[t]
      BY Zenon, <1>k, AncTransitive
    <3> QED
      BY Zenon, <3>1, <1>2, <1>3
  <2> QED
    BY Zenon, <2>1, <1>1, <1>2, <1>3 DEF Failed
<1>4. ActiveInv'
  <2>1. Anc[tip] \cap Failed' = {} /\ Anc[startTip] \cap Failed' = {}
    BY Zenon, <1>1, <1>3, <1>k DEF Inv, ActiveInv, Unlocked
  <2>2. ~world.rpcs => Anc[savedTip] \cap Failed' = {}
    BY Zenon, <1>3, <1>k DEF Inv, ActiveInv
  <2> QED
    BY Zenon, <2>1, <2>2, <1>1 DEF Inv, ActiveInv, Unlocked
<1>5. RoundInv'
  BY Zenon, <1>1 DEF Inv, RoundInv, Worse
<1>6. ASSUME ~world.rpcs, NEW x \in above PROVE ~Sound(x)
  <2>1. met \in Anc[x] /\ x \in Block /\ Anc[met] \subseteq Anc[x] /\ met \in Block
    BY Zenon, <1>2, <1>k, <1>6, AncTransitive
  <2>2. ~Sound(met)
    <3>1. met \in failedChild => ~Sound(met)
      BY Zenon, <1>6 DEF Inv, BestInv
    <3>2. met \in failedValid => ~Sound(met)
      BY Zenon, <2>1, AncLemma DEF Sound
    <3> QED
      BY Zenon, <3>1, <3>2, <1>2 DEF Failed
  <2> QED
    BY Zenon, <2>1, <2>2 DEF Sound
<1>7. BestInv'
  <2>1. SUFFICES ASSUME ~world.rpcs PROVE BestInv'
    BY Zenon, <1>1 DEF BestInv
  <2>2. \A b \in linked : ~Worse(b, tip) /\ Sound(b) /\ ~Worse(b, startTip) => b \in candidates \ above
    BY Zenon, <2>1, <1>1, <1>6 DEF Inv, BestInv
  <2>3. \A x \in failedChild' : ~Sound(x)
    BY Zenon, <2>1, <1>2, <1>6 DEF Inv, BestInv
  <2>4. \A c \in candidates' : ~Worse(c, tip)
    BY Zenon, <2>1, <1>2 DEF Inv, BestInv
  <2> QED
    BY Zenon, <2>2, <2>3, <2>4, <1>1, <1>2 DEF BestInv, Worse, Sound, Unlocked
<1> QED
  BY Zenon, <1>4, <1>5, <1>7 DEF Kept

\* What FindMostWorkChain returns: nothing on the way to it failed, and without RPCs
\* there is something to return, it is not worse than the tip of the round, and it is
\* the best there is unless a block has arrived since it was first found.
LEMMA FoundLemma ==
  ASSUME Inv, pc = "find", Settled
  PROVE  /\ Found # Null => Found \in linked /\ Anc[Found] \cap Failed = {}
         /\ ~world.rpcs => /\ Found # Null
                           /\ ~Worse(Found, startTip)
                           /\ ~due => \A b \in linked : Sound(b) => ~Worse(Found, b)
<1>k. /\ tip \in linked /\ startTip \in linked /\ candidates \subseteq linked
      /\ mostWork # Null => mostWork \in linked
      /\ Null \notin linked
  BY Zenon, Kinds DEF Inv
<1>1. CASE mostWork # Null
  <2>1. Found = mostWork
    BY Zenon, <1>1 DEF Found
  <2>2. Anc[mostWork] \cap Failed = {}
    BY Zenon, <1>1 DEF Inv, ActiveInv
  <2>3. ~world.rpcs => /\ ~Worse(mostWork, startTip)
                       /\ ~due => \A b \in linked : Sound(b) => ~Worse(mostWork, b)
    BY Zenon, <1>1 DEF Inv, BestInv, Unlocked
  <2> QED
    BY Zenon, <1>1, <1>k, <2>1, <2>2, <2>3
<1>2. CASE mostWork = Null
  <2>1. candidates # {} => /\ Found = BestCandidate /\ Found \in candidates
                           /\ \A d \in candidates : ~Worse(Found, d)
                           /\ FailedOnPath(Found) = {}
    BY Zenon, <1>2, BestLemma DEF Found, Settled, Inv
  <2>2. candidates = {} => Found = Null
    BY Zenon, <1>2 DEF Found
  <2>3. candidates # {} => Anc[Found] \cap Failed = {}
    BY Zenon, <2>1 DEF FailedOnPath, Inv, ActiveInv
  <2>4. ASSUME ~world.rpcs PROVE startTip \in candidates
    <3>1. ~Worse(startTip, tip)
      BY Zenon DEF Inv, RoundInv
    <3>2. ~Worse(startTip, startTip)
      BY Zenon, <1>k, WorseLemma DEF Inv
    <3>3. Sound(startTip)
      BY Zenon DEF Inv, ActiveInv, Unlocked, Failed, Sound
    <3> QED
      BY Zenon, <2>4, <3>1, <3>2, <3>3, <1>k DEF Inv, BestInv
  <2>5. ASSUME ~world.rpcs, NEW b \in linked, Sound(b) PROVE ~Worse(Found, b)
    <3>1. Found \in linked /\ ~Worse(Found, startTip)
      BY Zenon, <2>1, <2>4, <2>5, <1>k
    <3>2. CASE ~Worse(b, tip) /\ ~Worse(b, startTip)
      <4>1. b \in candidates
        BY Zenon, <2>5, <3>2 DEF Inv, BestInv
      <4> QED
        BY Zenon, <4>1, <2>1
    <3>3. ASSUME ~Worse(startTip, b) PROVE ~Worse(Found, b)
      <4>1. \A z \in linked : ~Worse(Found, startTip) /\ ~Worse(startTip, z) => ~Worse(Found, z)
        BY Zenon, <3>1, <1>k, WorseLemma DEF Inv
      <4> QED
        BY Zenon, <4>1, <3>1, <3>3
    <3>4. CASE Worse(b, startTip)
      <4>1. ~Worse(startTip, b)
        BY Zenon, <3>4, <1>k, WorseLemma DEF Inv
      <4> QED
        BY Zenon, <4>1, <3>3
    <3>5. CASE Worse(b, tip)
      <4>1. ~Worse(tip, b)
        BY Zenon, <3>5, <1>k, WorseLemma DEF Inv
      <4>2. ~Worse(startTip, tip)
        BY Zenon DEF Inv, RoundInv
      <4>3. \A z \in linked : ~Worse(startTip, tip) /\ ~Worse(tip, z) => ~Worse(startTip, z)
        BY Zenon, <1>k, WorseLemma DEF Inv
      <4> QED
        BY Zenon, <4>1, <4>2, <4>3, <3>3
    <3> QED
      BY Zenon, <3>2, <3>4, <3>5
  <2> QED
    BY Zenon, <2>1, <2>2, <2>3, <2>4, <2>5, <1>k
<1> QED
  BY Zenon, <1>1, <1>2

\* What is not worse than a tip that is not worse than the first one of the round.
LEMMA NotWorseThanStart ==
  ASSUME Inv, ~world.rpcs, ~Worse(tip, startTip),
         NEW b \in linked, ~Worse(b, tip), Sound(b)
  PROVE  b \in candidates
<1>1. tip \in linked /\ startTip \in linked
  BY Zenon, Kinds DEF Inv
<1>2. \A z \in linked : ~Worse(b, tip) /\ ~Worse(tip, z) => ~Worse(b, z)
  BY Zenon, <1>1, WorseLemma DEF Inv
<1>3. ~Worse(b, startTip)
  BY Zenon, <1>1, <1>2
<1> QED
  BY Zenon, <1>3 DEF Inv, BestInv

\* A step starts towards a block without failed ancestors.
LEMMA StartStepKeeps ==
  ASSUME Inv, StartStep
  PROVE  Kept
<1>1. /\ UNCHANGED <<linked, failedValid, failedChild, seq, addr, candidates, tip, savedTip,
                     startTip, due, world>>
      /\ pc = "find" /\ pc' = "step" /\ Settled
      /\ mostWork' = Found /\ Found # Null /\ oldTip' = tip
  BY Zenon DEF StartStep, index, failed, order, bounds
<1>2. /\ Anc[Found] \cap Failed = {}
      /\ ~world.rpcs => /\ ~Worse(Found, startTip)
                        /\ ~due => \A b \in linked : Sound(b) => ~Worse(Found, b)
  BY Zenon, <1>1, FoundLemma
<1>3. tip \in Anc[tip]
  BY Zenon, Kinds, AncLemma DEF Inv
<1> HIDE DEF Found
<1>4. ActiveInv'
  BY Zenon, <1>1, <1>2 DEF Inv, ActiveInv, Failed, Unlocked
<1>5. RoundInv'
  BY Zenon, <1>1, <1>3 DEF Inv, RoundInv, Worse
<1>6. BestInv'
  <2>1. SUFFICES ASSUME ~world.rpcs PROVE BestInv'
    BY Zenon, <1>1 DEF BestInv
  <2>2. /\ ~Before(seq, addr, Found, startTip)
        /\ ~due => \A b \in linked : Anc[b] \cap failedValid = {} => ~Before(seq, addr, Found, b)
    BY Zenon, <2>1, <1>2 DEF Worse, Sound
  <2> QED
    BY Zenon, <2>1, <2>2, <1>1 DEF Inv, BestInv, Worse, Sound, Unlocked
<1> QED
  BY Zenon, <1>4, <1>5, <1>6 DEF Kept

\* A round that finds nothing better than the tip ends with a tip that is not worse
\* than the one it began with, unless RPCs were called.
LEMMA LeaveRoundKeeps ==
  ASSUME Inv, LeaveRound
  PROVE  /\ Kept
         /\ ~world.rpcs => ~Worse(tip, startTip)
<1>1. /\ UNCHANGED <<linked, failedValid, failedChild, seq, addr, candidates, tip, savedTip,
                     startTip, oldTip, due, world>>
      /\ pc = "find" /\ Settled /\ Found \in {Null, tip} /\ mostWork' = Found
      /\ pc' = (IF progress /\ Found = Null THEN "free" ELSE "idle")
  BY Zenon DEF LeaveRound, index, failed, order, bounds
<1>2. ActiveInv'
  BY Zenon, <1>1 DEF Inv, ActiveInv, Failed, Unlocked
<1>3. RoundInv'
  BY Zenon, <1>1 DEF RoundInv
<1>4. ASSUME ~world.rpcs
      PROVE  /\ Found = tip /\ ~Worse(tip, startTip)
             /\ ~due => \A b \in linked : Sound(b) => ~Worse(tip, b)
  BY Zenon, <1>1, <1>4, FoundLemma
<1>5. BestInv'
  <2>1. SUFFICES ASSUME ~world.rpcs PROVE BestInv'
    BY Zenon, <1>1 DEF BestInv
  <2>2. pc' = "idle"
    BY Zenon, <2>1, <1>1, <1>4, Kinds DEF Inv
  <2>3. \A b \in linked : ~Worse(b, tip) /\ Sound(b) => b \in candidates
    BY Zenon, <2>1, <1>4, NotWorseThanStart
  <2>4. ~due => \A b \in linked : Worse(tip, b) => ~Sound(b)
    BY Zenon, <2>1, <1>4
  <2>5. (\A c \in candidates : ~Worse(c, tip)) /\ (\A x \in failedChild : ~Sound(x))
    BY Zenon, <2>1 DEF Inv, BestInv
  <2> QED
    BY Zenon, <2>2, <2>3, <2>4, <2>5, <1>1 DEF BestInv, Worse, Sound, Unlocked
<1> QED
  BY Zenon, <1>2, <1>3, <1>4, <1>5 DEF Kept

\* DisconnectTip keeps it: the tip is still on the way back from the old one.
LEMMA DisconnectKeeps ==
  ASSUME Inv, DisconnectTip
  PROVE  Kept
<1>1. /\ UNCHANGED <<linked, failedValid, failedChild, seq, addr, candidates, pc, mostWork,
                     startTip, oldTip, due, world>>
      /\ pc = "step" /\ tip \notin Anc[mostWork]
      /\ tip' = Parent[tip] /\ savedTip' \in {savedTip, tip'}
  BY Zenon DEF DisconnectTip, Saved, index, failed, order, round, bounds
<1>k. /\ tip \in linked /\ startTip \in linked /\ oldTip \in linked /\ mostWork \in linked
      /\ linked \subseteq Block /\ candidates \subseteq linked
  BY Zenon, <1>1, Kinds DEF Inv, IndexInv
<1>2. tip # Genesis
  BY Zenon, <1>1, <1>k, GenesisCommon
<1>3. tip' \in Anc[tip] /\ tip' \in linked
  BY Zenon, <1>1, <1>2, <1>k, AncLemma, ParentLinked DEF Inv
<1>4. Anc[tip'] \subseteq Anc[tip]
  BY Zenon, <1>3, <1>k, AncTransitive
<1>5. tip \in Anc[oldTip] /\ Parent[tip] \in Anc[oldTip]
  <2>1. tip \in Anc[oldTip]
    BY Zenon, <1>1 DEF Inv, RoundInv
  <2> QED
    BY Zenon, <2>1, <1>2, <1>k, AncLemma
<1>6. ActiveInv'
  BY Zenon, <1>1, <1>4 DEF Inv, ActiveInv, Failed, Unlocked
<1>7. RoundInv'
  BY Zenon, <1>1, <1>5 DEF Inv, RoundInv, Worse
<1>8. ~Worse(startTip, tip)
  <2>1. ~Worse(startTip, oldTip) /\ ~Worse(oldTip, tip)
    BY Zenon, <1>1, <1>5, <1>k, WorseLemma DEF Inv, RoundInv
  <2>2. \A z \in linked : ~Worse(startTip, oldTip) /\ ~Worse(oldTip, z) => ~Worse(startTip, z)
    BY Zenon, <1>k, WorseLemma DEF Inv
  <2> QED
    BY Zenon, <2>1, <2>2, <1>k
<1>9. BestInv'
  <2>1. SUFFICES ASSUME ~world.rpcs PROVE BestInv'
    BY Zenon, <1>1 DEF BestInv
  <2>2. ASSUME NEW b \in linked, Sound(b), ~Worse(b, startTip) PROVE b \in candidates
    <3>1. \A z \in linked : ~Worse(b, startTip) /\ ~Worse(startTip, z) => ~Worse(b, z)
      BY Zenon, <1>k, WorseLemma DEF Inv
    <3>2. ~Worse(b, tip)
      BY Zenon, <3>1, <2>2, <1>8, <1>k
    <3> QED
      BY Zenon, <3>2, <2>1, <2>2 DEF Inv, BestInv
  <2>3. ASSUME NEW c \in candidates PROVE ~Worse(c, Parent[tip])
    <3>1. ~Worse(c, tip) /\ ~Worse(tip, Parent[tip])
      BY Zenon, <2>1, <1>1, <1>3, <1>k, WorseLemma DEF Inv, BestInv
    <3>2. \A z \in linked : ~Worse(c, tip) /\ ~Worse(tip, z) => ~Worse(c, z)
      BY Zenon, <1>k, WorseLemma DEF Inv
    <3> QED
      BY Zenon, <3>1, <3>2, <1>1, <1>3
  <2> QED
    BY Zenon, <2>1, <2>2, <2>3, <1>1 DEF Inv, BestInv, Worse, Sound, Unlocked
<1> QED
  BY Zenon, <1>6, <1>7, <1>9 DEF Kept

\* ConnectTip keeps it: what it prunes is worse than the new tip.
LEMMA ConnectKeeps ==
  ASSUME Inv, ConnectTip
  PROVE  Kept
<1>1. /\ UNCHANGED <<linked, failedValid, failedChild, seq, addr, mostWork, startTip, oldTip,
                     due, world>>
      /\ pc = "step" /\ pc' \in {"step", "end"}
      /\ tip' = Following /\ Following \in Valid /\ savedTip' \in {savedTip, tip'}
      /\ candidates' = {c \in candidates : ~Worse(c, Following)}
  BY Zenon DEF ConnectTip, Saved, Pruned, index, failed, order, bounds
<1>2. /\ Following \in Anc[mostWork] /\ Following \in linked
      /\ Anc[Following] = {Following} \cup Anc[tip]
  BY Zenon, FollowLemma DEF ConnectTip, Inv
<1>k. tip \in linked /\ tip \in Anc[Following] /\ mostWork # Null
  BY Zenon, <1>1, <1>2, Kinds, AncLemma DEF Inv, IndexInv
<1> HIDE DEF Following
<1>3. Following \notin Failed
  BY Zenon, <1>1, <1>2, <1>k DEF Inv, ActiveInv
<1>4. Anc[tip'] \subseteq Valid \ Failed
  BY Zenon, <1>1, <1>2, <1>3 DEF Inv, ActiveInv
<1>5. ActiveInv'
  BY Zenon, <1>1, <1>4 DEF Inv, ActiveInv, Failed, Unlocked
<1>6. RoundInv'
  BY Zenon, <1>1, <1>2 DEF Inv, RoundInv, Worse
<1>7. BestInv'
  <2>1. SUFFICES ASSUME ~world.rpcs PROVE BestInv'
    BY Zenon, <1>1 DEF BestInv
  <2>2. ASSUME NEW b \in linked, ~Worse(b, Following), Sound(b), ~Worse(b, startTip)
        PROVE  b \in candidates
    <3>1. ~Worse(Following, tip)
      BY Zenon, <1>2, <1>k, WorseLemma DEF Inv
    <3>2. \A z \in linked : ~Worse(b, Following) /\ ~Worse(Following, z) => ~Worse(b, z)
      BY Zenon, <1>2, WorseLemma DEF Inv
    <3>3. ~Worse(b, tip)
      BY Zenon, <2>2, <3>1, <3>2, <1>k
    <3> QED
      BY Zenon, <3>3, <2>1, <2>2 DEF Inv, BestInv
  <2> QED
    BY Zenon, <2>1, <2>2, <1>1 DEF Inv, BestInv, Worse, Sound, Unlocked
<1> QED
  BY Zenon, <1>5, <1>6, <1>7 DEF Kept

\* An invalid block keeps it: it was never active, and the tip of the round was.
LEMMA ConnectInvalidKeeps ==
  ASSUME Inv, ConnectTipInvalid
  PROVE  Kept
<1>1. /\ UNCHANGED <<linked, failedChild, seq, addr, tip, savedTip, startTip, oldTip, due, world>>
      /\ pc = "step" /\ pc' = "end" /\ mostWork' = Null
      /\ Following \notin Valid
      /\ failedValid' = failedValid \cup {Following}
      /\ candidates' = candidates \ {Following}
  BY Zenon DEF ConnectTipInvalid, index, order, bounds
<1> HIDE DEF Following
<1>2. ActiveInv'
  BY Zenon, <1>1 DEF Inv, ActiveInv, Failed, Unlocked
<1>3. RoundInv'
  BY Zenon, <1>1 DEF RoundInv
<1>4. BestInv'
  <2>1. SUFFICES ASSUME ~world.rpcs PROVE BestInv'
    BY Zenon, <1>1 DEF BestInv
  <2>2. ASSUME NEW b \in linked, Anc[b] \cap failedValid' = {} PROVE Sound(b) /\ b # Following
    <3>1. b \in Anc[b]
      BY Zenon, Kinds, AncLemma DEF Inv
    <3> QED
      BY Zenon, <3>1, <2>2, <1>1 DEF Sound
  <2>3. ASSUME NEW b \in linked, Anc[b] \cap failedValid' = {}, ~Worse(b, tip), ~Worse(b, startTip)
        PROVE  b \in candidates'
    <3>1. Sound(b) /\ b # Following
      BY Zenon, <2>2, <2>3
    <3>2. b \in candidates
      BY Zenon, <3>1, <2>1, <2>3 DEF Inv, BestInv
    <3> QED
      BY Zenon, <3>1, <3>2, <1>1
  <2>4. \A c \in candidates' : ~Worse(c, tip)
    BY Zenon, <2>1, <1>1 DEF Inv, BestInv
  <2>5. \A x \in failedChild : Anc[x] \cap failedValid' # {}
    BY Zenon, <2>1, <1>1 DEF Inv, BestInv, Sound
  <2> QED
    BY Zenon, <2>3, <2>4, <2>5, <1>1 DEF BestInv, Worse, Sound, Unlocked
<1> QED
  BY Zenon, <1>2, <1>3, <1>4 DEF Kept

\* The end of a step keeps it: cs_main is free only when the tip is not worse.
LEMMA EndStepKeeps ==
  ASSUME Inv, EndStep
  PROVE  Kept
<1>1. /\ UNCHANGED <<linked, failedValid, failedChild, seq, addr, candidates, tip, savedTip,
                     mostWork, startTip, oldTip, due, world>>
      /\ pc = "end" \/ (pc = "step" /\ tip = mostWork)
      /\ pc' = IF Worse(tip, startTip) THEN "find" ELSE IF mostWork = tip THEN "idle" ELSE "free"
  BY Zenon DEF EndStep, index, failed, order, bounds
<1>k. tip \in linked /\ startTip \in linked /\ tip \in Anc[tip] /\ Null \notin linked
  BY Zenon, Kinds, AncLemma DEF Inv
<1>2. ActiveInv'
  BY Zenon, <1>1 DEF Inv, ActiveInv, Failed, Unlocked
<1>3. RoundInv'
  <2>1. mostWork # Null => tip \in Anc[mostWork]
    BY Zenon, <1>1, <1>k DEF Inv, RoundInv
  <2>2. Worse(tip, startTip) => ~Worse(startTip, tip)
    BY Zenon, <1>k, WorseLemma DEF Inv
  <2> QED
    BY Zenon, <1>1, <2>1, <2>2 DEF RoundInv, Worse
<1>4. BestInv'
  <2>1. SUFFICES ASSUME ~world.rpcs PROVE BestInv'
    BY Zenon, <1>1 DEF BestInv
  <2>b. /\ \A c \in candidates : ~Worse(c, tip)
        /\ \A x \in failedChild : ~Sound(x)
        /\ mostWork # Null => ~Worse(mostWork, startTip)
        /\ mostWork # Null /\ ~due => \A b \in linked : Sound(b) => ~Worse(mostWork, b)
    BY Zenon, <2>1, <1>1 DEF Inv, BestInv, Unlocked
  <2>2. CASE Worse(tip, startTip)
    <3>1. pc' = "find"
      BY Zenon, <2>2, <1>1
    <3>2. \A b \in linked : ~Worse(b, tip) /\ Sound(b) /\ ~Worse(b, startTip) => b \in candidates
      BY Zenon, <2>1, <1>1 DEF Inv, BestInv
    <3> QED
      BY Zenon, <3>1, <3>2, <2>b, <1>1 DEF BestInv, Worse, Sound, Unlocked
  <2>3. CASE ~Worse(tip, startTip)
    <3>1. \A b \in linked : ~Worse(b, tip) /\ Sound(b) => b \in candidates
      BY Zenon, <2>1, <2>3, NotWorseThanStart
    <3>2. pc' \in {"idle", "free"} /\ (pc' = "idle" => mostWork = tip)
      BY Zenon, <2>3, <1>1
    <3>3. pc' = "idle" /\ ~due => \A b \in linked : Worse(tip, b) => ~Sound(b)
      BY Zenon, <3>2, <2>b, <1>k
    <3> QED
      BY Zenon, <3>1, <3>2, <3>3, <2>b, <1>1 DEF BestInv, Worse, Sound, Unlocked
  <2> QED
    BY Zenon, <2>2, <2>3
<1> QED
  BY Zenon, <1>2, <1>3, <1>4 DEF Kept

\* A flush of the chainstate keeps it.
LEMMA SaveTipKeeps ==
  ASSUME Inv, SaveTip
  PROVE  Kept
<1>1. /\ UNCHANGED <<linked, failedValid, failedChild, seq, addr, candidates, tip, pc, mostWork,
                     startTip, oldTip, due, world>>
      /\ savedTip' = tip
  BY Zenon DEF SaveTip, index, failed, order, round, bounds
<1>2. ActiveInv'
  BY Zenon, <1>1 DEF Inv, ActiveInv, Failed, Unlocked
<1>3. RoundInv'
  BY Zenon, <1>1 DEF Inv, RoundInv, Worse
<1>4. BestInv'
  BY Zenon, <1>1 DEF Inv, BestInv, Worse, Sound, Unlocked
<1> QED
  BY Zenon, <1>2, <1>3, <1>4 DEF Kept

\* A restart keeps it: the candidates are found again from the index.
LEMMA RestartKeeps ==
  ASSUME Inv, Restart
  PROVE  Kept
<1>1. /\ UNCHANGED <<linked, failedValid, savedTip, world>>
      /\ ~world.rpcs
      /\ failedChild' \subseteq failedChild
      /\ candidates' = {x \in linked \ (failedValid \cup failedChild') :
                          ~Before(seq', addr', x, savedTip)}
      /\ tip' = savedTip /\ mostWork' = Null /\ pc' = "idle" /\ due' = TRUE
  BY Zenon DEF Restart, LoadedCandidates, index
<1>2. ActiveInv'
  BY Zenon, <1>1 DEF Inv, ActiveInv, Failed, Unlocked
<1>3. RoundInv'
  BY Zenon, <1>1 DEF RoundInv
<1>4. ASSUME NEW b \in linked, Sound(b) PROVE b \notin failedValid \cup failedChild'
  <2>1. b \in Anc[b]
    BY Zenon, Kinds, AncLemma DEF Inv
  <2>2. b \notin failedChild
    BY Zenon, <1>1, <1>4 DEF Inv, BestInv
  <2> QED
    BY Zenon, <2>1, <2>2, <1>1, <1>4 DEF Sound
<1>5. \A x \in failedChild' : ~Sound(x)
  BY Zenon, <1>1 DEF Inv, BestInv
<1>6. BestInv'
  BY Zenon, <1>1, <1>4, <1>5 DEF BestInv, Worse, Sound, Unlocked
<1> QED
  BY Zenon, <1>2, <1>3, <1>6 DEF Kept

-----------------------------------------------------------------------------
(* The theorems. *)

\* The invariant holds when the node starts on a new data directory.
LEMMA InitInv == Init => Inv
<1> SUFFICES ASSUME Init PROVE Inv
  BY Zenon
<1>g. /\ Genesis \in Block /\ Anc[Genesis] = {Genesis} /\ Genesis \in Valid
      /\ ChainWork[Genesis] \in Nat /\ MaxRestarts \in Nat /\ MaxInvalidates \in Nat
  BY Zenon, TreeFacts, AncGenesis, ChainAssumption DEF ChainAssumption
<1>1. TypeOK
  <2>1. seq \in [Block -> Nat] /\ nextSeq \in Nat
    BY Zenon DEF Init
  <2>2. restarts \in 0 .. MaxRestarts /\ invalidates \in 0 .. MaxInvalidates
    BY <1>g DEF Init
  <2>3. /\ known \in SUBSET Block /\ data \in SUBSET known /\ linked \in SUBSET data
        /\ unlinked \in SUBSET data
        /\ failedValid \in SUBSET known /\ failedChild \in SUBSET known
        /\ candidates \in SUBSET linked
    BY Zenon, <1>g DEF Init
  <2>4. /\ tip \in linked /\ savedTip \in linked /\ startTip \in known /\ oldTip \in known
        /\ mostWork \in known \cup {Null} /\ addr \in Addresses
        /\ pc \in {"idle", "free", "find", "step", "end"}
        /\ progress \in BOOLEAN /\ due \in BOOLEAN
    BY Zenon DEF Init
  <2> QED
    BY Zenon, <2>1, <2>2, <2>3, <2>4 DEF TypeOK
<1>2. IndexInv
  <2>1. IsFiniteSet({Genesis})
    BY Zenon, FS_Singleton
  <2> QED
    BY <2>1, <1>g DEF Init, IndexInv
<1>3. ActiveInv
  BY Zenon, <1>g DEF Init, ActiveInv, Failed, Unlocked
<1>4. RoundInv
  BY Zenon DEF Init, RoundInv
<1>5. BestInv
  <2>1. ~Worse(Genesis, Genesis)
    BY Zenon, <1>1, <1>2, WorseLemma DEF Init
  <2> QED
    BY Zenon, <2>1 DEF Init, BestInv, Unlocked
<1> QED
  BY Zenon, <1>1, <1>2, <1>3, <1>4, <1>5 DEF Inv

\* Every step keeps the invariant, as long as invalidateblock does not come in between
\* two rounds of a running ActivateBestChain.
LEMMA InvStep ==
  ASSUME Inv, [Next]_vars, InvalidateAt \subseteq {"idle"}
  PROVE  Inv'
<1>t. TypeOK' /\ IndexInv'
  BY Zenon, TypeStep DEF Inv
<1>b. ASSUME NEW b \in world.blocks PROVE b \in Block
  BY Zenon, ChainAssumption DEF ChainAssumption, Inv, IndexInv
<1>1. ASSUME NEW b \in world.blocks \ {Genesis},
             AcceptBlockHeader(b) \/ ReceiveBlock(b) \/ SubmitBlock(b)
      PROVE  Kept
  <2>1. PICK L \in SUBSET Block : Arrives(b, L)
    BY Zenon, <1>1, <1>b, ArrivalLemma DEF Inv
  <2> QED
    BY Zenon, <2>1, <1>b, ArrivalKeeps
<1>2. ASSUME NEW b \in world.blocks \ {Genesis}, InvalidateBlock(b) PROVE Kept
  BY Zenon, <1>2, <1>b, InvalidateKeeps
<1>3. ASSUME NEW b \in world.blocks \ {Genesis}, ReconsiderBlock(b) PROVE Kept
  BY Zenon, <1>3, <1>b, ReconsiderKeeps
<1>4. Activate => Kept
  BY Zenon, StartActivateKeeps, StartRoundKeeps, DropKeeps, StartStepKeeps, LeaveRoundKeeps,
     DisconnectKeeps, ConnectKeeps, ConnectInvalidKeeps, EndStepKeeps DEF Activate
<1>5. SaveTip \/ Restart => Kept
  BY Zenon, SaveTipKeeps, RestartKeeps
<1>6. UNCHANGED vars => Kept
  <2>1. SUFFICES ASSUME UNCHANGED vars PROVE Kept
    BY Zenon
  <2>2. ActiveInv'
    BY Zenon, <2>1 DEF vars, Inv, ActiveInv, Failed, Unlocked
  <2>3. RoundInv'
    BY Zenon, <2>1 DEF vars, Inv, RoundInv, Worse
  <2>4. BestInv'
    BY Zenon, <2>1 DEF vars, Inv, BestInv, Worse, Sound, Unlocked
  <2> QED
    BY Zenon, <2>2, <2>3, <2>4 DEF Kept
<1>7. Kept
  BY Zenon, <1>1, <1>2, <1>3, <1>4, <1>5, <1>6 DEF Next
<1> QED
  BY Zenon, <1>t, <1>7 DEF Inv, Kept

\* The invariant always holds.
LEMMA Invariance == InvalidateAt \subseteq {"idle"} => (Spec => []Inv)
<1> SUFFICES ASSUME InvalidateAt \subseteq {"idle"} PROVE Spec => []Inv
  BY Zenon
<1>1. Inv /\ [Next]_vars => Inv'
  BY Zenon, InvStep
<1> QED
  BY <1>1, InitInv, PTL DEF Spec

\* Type correctness, with linked blocks having linked ancestors: whenever the RPCs come.
THEOREM TypeCorrect == Spec => [](TypeOK /\ IndexInv)
<1>1. Init => TypeOK /\ IndexInv
  BY Zenon, InitInv DEF Inv
<1> QED
  BY <1>1, TypeStep, PTL DEF Spec

\* setBlockIndexCandidates holds exactly what CheckBlockIndex asks for whenever cs_main
\* is free, without RPCs.
THEOREM CandidatesAreExact == InvalidateAt \subseteq {"idle"} => (Spec => []CandidatesExact)
<1> SUFFICES ASSUME InvalidateAt \subseteq {"idle"} PROVE Spec => []CandidatesExact
  BY Zenon
<1>1. Inv => CandidatesExact
  BY Zenon DEF Inv, BestInv, CandidatesExact, Sound
<1> QED
  BY <1>1, Invariance, PTL

\* No failed block is active while cs_main is free, invalidateblock and reconsiderblock
\* included, as long as invalidateblock does not come between two rounds.
THEOREM ActiveIsNotFailed == InvalidateAt \subseteq {"idle"} => (Spec => []ActiveNotFailed)
<1> SUFFICES ASSUME InvalidateAt \subseteq {"idle"} PROVE Spec => []ActiveNotFailed
  BY Zenon
<1>1. Inv => ActiveNotFailed
  BY Zenon DEF Inv, ActiveInv, ActiveNotFailed
<1> QED
  BY <1>1, Invariance, PTL

\* Once no call of ActivateBestChain is running or on its way, no known block with all
\* its data and more work than the tip is without a failed ancestor.
THEOREM TipIsTheBest == InvalidateAt \subseteq {"idle"} => (Spec => []TipIsBest)
<1> SUFFICES ASSUME InvalidateAt \subseteq {"idle"} PROVE Spec => []TipIsBest
  BY Zenon
<1>1. Inv => TipIsBest
  <2> SUFFICES ASSUME Inv, ~world.rpcs, pc = "idle", ~due, NEW b \in linked,
                      ChainWork[b] > ChainWork[tip]
               PROVE  Anc[b] \cap Failed # {}
    BY Zenon DEF TipIsBest
  <2>1. Worse(tip, b)
    BY Zenon, Kinds, TreeFacts DEF Inv, Worse, Before
  <2>2. ~Sound(b)
    BY Zenon, <2>1 DEF Inv, BestInv
  <2> QED
    BY Zenon, <2>2 DEF Sound, Failed
<1> QED
  BY <1>1, Invariance, PTL

\* ActivateBestChain never gives up cs_main with a tip that is worse than the one it
\* took it with, whatever turns out to be invalid on the way.
THEOREM ProgressMade == InvalidateAt \subseteq {"idle"} => (Spec => ProgressBeforeUnlock)
<1> SUFFICES ASSUME InvalidateAt \subseteq {"idle"} PROVE Spec => ProgressBeforeUnlock
  BY Zenon
<1> DEFINE Ends == ~world.rpcs /\ ~Unlocked /\ Unlocked' /\ restarts' = restarts
<1>1. ASSUME Inv, Next, Ends PROVE ~Worse(tip, startTip)
  <2>1. LeaveRound => ~Worse(tip, startTip)
    BY Zenon, <1>1, LeaveRoundKeeps
  <2>2. EndStep => ~Worse(tip, startTip)
    BY Zenon, <1>1 DEF EndStep, Unlocked
  <2>3. ~Restart
    BY <1>1 DEF Restart, Inv, TypeOK
  <2>4. ~StartActivate /\ ~StartRound /\ ~StartStep /\ ~ConnectTip /\ ~ConnectTipInvalid
    BY Zenon, <1>1 DEF StartActivate, StartRound, StartStep, ConnectTip, ConnectTipInvalid, Unlocked
  <2>5. ~DropCandidate /\ ~DisconnectTip
    BY Zenon, <1>1 DEF DropCandidate, DisconnectTip, round, Unlocked
  <2>6. ~SaveTip
    BY Zenon, <1>1 DEF SaveTip
  <2>7. ~\E b \in world.blocks \ {Genesis} :
          AcceptBlockHeader(b) \/ ReceiveBlock(b) \/ SubmitBlock(b) \/ InvalidateBlock(b) \/ ReconsiderBlock(b)
    BY Zenon, <1>1 DEF AcceptBlockHeader, ReceiveBlock, SubmitBlock, ProcessNewBlock, InvalidateBlock,
                ReconsiderBlock
  <2> QED
    BY Zenon, <1>1, <2>1, <2>2, <2>3, <2>4, <2>5, <2>6, <2>7 DEF Next, Activate
<1>2. Inv /\ [Next]_vars => [Ends => ~Worse(tip, startTip)]_vars
  BY Zenon, <1>1
<1> QED
  BY <1>2, Invariance, PTL DEF Spec, ProgressBeforeUnlock
=============================================================================
