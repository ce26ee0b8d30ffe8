------------------------- MODULE MempoolSumLemmas -------------------------
(***************************************************************************)
(* What every operation of CTxMemPool does to the sums it keeps with the   *)
(* entries.  The code updates them in place; what they should be is a sum  *)
(* over everything reached through the links.  The first part is about     *)
(* sums and about walks through links in general, the second shows that    *)
(* the updates of the code follow them.  Induction over a finite set is    *)
(* done with a minimal counterexample.  Leaves are tried with Zenon; those *)
(* that need arithmetic, or a set as an instance, say SMT.                 *)
(***************************************************************************)
EXTENDS MempoolInvariant, FiniteSetTheorems, WellFoundedInduction, TLAPS

USE Zenon

-----------------------------------------------------------------------------
(* Sums over finite sets. *)

Total(w, S) == MapThenSumSet(LAMBDA t : w[t], S)

First(s) == CHOOSE x \in s : TRUE
IsIter(f, w, S) ==
  f = [s \in SUBSET S |-> IF s = {} THEN 0 ELSE w[First(s)] + f[s \ {First(s)}]]

\* A sum is the value of the function MapThenSumSet chooses.
LEMMA TotalIsIter ==
  ASSUME NEW w, NEW S
  PROVE  Total(w, S) = (CHOOSE f : IsIter(f, w, S))[S]
BY DEF Total, MapThenSumSet, MapThenFoldSet, IsIter, First

\* Induction over finite sets: a set of subsets has a minimal one.
LEMMA MinimalSet ==
  ASSUME NEW S, IsFiniteSet(S), NEW T \in SUBSET (SUBSET S), T # {}
  PROVE  \E s \in T : \A u \in T : ~(u \subseteq s /\ u # s)
<1> DEFINE R == StrictSubsetOrdering(S)
<1>1. IsWellFoundedOn(R, FiniteSubsetsOf(S))
  BY FS_StrictSubsetOrderingWellFounded
<1>2. T \subseteq FiniteSubsetsOf(S)
  BY FS_Subset DEF FiniteSubsetsOf
<1> HIDE DEF R
<1>3. PICK s \in T : \A u \in T : ~(<<u, s>> \in R)
  BY <1>1, <1>2, WFMin
<1>4. \A u \in T : u \subseteq s /\ u # s => <<u, s>> \in R
  BY SMT DEF R, StrictSubsetOrdering
<1>5. \A u \in T : ~(u \subseteq s /\ u # s)
  BY <1>3, <1>4
<1> QED
  BY <1>5

\* At most one function follows the recursion of a sum, and at least one does.
LEMMA IterUnique ==
  ASSUME NEW w, NEW S, NEW T, IsFiniteSet(S), NEW f, NEW g, IsIter(f, w, S), IsIter(g, w, T),
         NEW s \in SUBSET (S \cap T)
  PROVE  f[s] = g[s]
<1> DEFINE bad == {u \in SUBSET (S \cap T) : f[u] # g[u]}
<1> SUFFICES ASSUME bad # {} PROVE FALSE
  OBVIOUS
<1>1. bad \in SUBSET (SUBSET S)
  OBVIOUS
<1>d. \A u : u \in bad <=> u \in SUBSET (S \cap T) /\ f[u] # g[u]
  OBVIOUS
<1> HIDE DEF bad
<1>2. PICK u \in bad : \A v \in bad : ~(v \subseteq u /\ v # u)
  BY SMT, <1>1, MinimalSet
<1>3. u \in SUBSET S /\ u \in SUBSET T /\ f[u] # g[u]
  BY <1>2, <1>d
<1> DEFINE x == First(u)
           v == u \ {x}
<1>4. /\ f[u] = IF u = {} THEN 0 ELSE w[x] + f[v]
      /\ g[u] = IF u = {} THEN 0 ELSE w[x] + g[v]
  BY <1>3 DEF IsIter
<1>5. u # {} => x \in u
  BY DEF First
<1>6. u # {} => v \in SUBSET (S \cap T) /\ v \subseteq u /\ v # u
  BY <1>3, <1>5
<1>7. u # {} => f[v] = g[v]
  BY <1>2, <1>6, <1>d
<1> QED
  BY <1>3, <1>4, <1>7

LEMMA IterExists ==
  ASSUME NEW w, NEW S, IsFiniteSet(S)
  PROVE  \E f : IsIter(f, w, S)
<1> DEFINE bad == {s \in SUBSET S : ~\E f : IsIter(f, w, s)}
<1> SUFFICES ASSUME bad # {} PROVE FALSE
  OBVIOUS
<1>1. bad \in SUBSET (SUBSET S)
  OBVIOUS
<1>d. \A u : u \in bad <=> u \in SUBSET S /\ ~\E f : IsIter(f, w, u)
  OBVIOUS
<1> HIDE DEF bad
<1>2. PICK s \in bad : \A u \in bad : ~(u \subseteq s /\ u # s)
  BY SMT, <1>1, MinimalSet
<1>3. s \in SUBSET S /\ ~\E f : IsIter(f, w, s)
  BY <1>2, <1>d
<1>4. \A u \in SUBSET s : u # s => \E f : IsIter(f, w, u)
  BY <1>2, <1>3, <1>d
<1> DEFINE it(u) == CHOOSE f : IsIter(f, w, u)
           h == [u \in SUBSET s |-> IF u = {} THEN 0
                                     ELSE w[First(u)] + it(u \ {First(u)})[u \ {First(u)}]]
<1>5. \A u \in SUBSET s : u # s => IsIter(it(u), w, u)
  BY <1>4
<1>6. \A u \in SUBSET s : IsFiniteSet(u)
  BY <1>3, FS_Subset
<1>7. ASSUME NEW u \in SUBSET s, u # s
      PROVE  h[u] = it(u)[u]
  <2> DEFINE x == First(u)
             v == u \ {x}
  <2>1. IsIter(it(u), w, u)
    BY <1>5, <1>7
  <2> HIDE DEF it
  <2>2. it(u)[u] = IF u = {} THEN 0 ELSE w[x] + it(u)[v]
    BY <2>1 DEF IsIter
  <2>3. h[u] = IF u = {} THEN 0 ELSE w[x] + it(v)[v]
    OBVIOUS
  <2>4. u # {} => x \in u
    BY DEF First
  <2>5. u # {} => v \in SUBSET s /\ v # s /\ v \in SUBSET (u \cap v)
    BY <2>4, <1>7
  <2>6. u # {} => IsIter(it(v), w, v)
    BY <2>5, <1>5
  <2>7. ASSUME u # {} PROVE it(u)[v] = it(v)[v]
    <3>1. IsIter(it(u), w, u) /\ IsIter(it(v), w, v) /\ v \in SUBSET (u \cap v) /\ IsFiniteSet(u)
      BY <2>1, <2>5, <2>6, <2>7, <1>6
    <3> HIDE DEF v, h
    <3> QED
      BY SMT, <3>1, IterUnique
  <2> QED
    BY <2>2, <2>3, <2>7
<1> HIDE DEF it
<1>8. ASSUME NEW u \in SUBSET s
      PROVE  h[u] = IF u = {} THEN 0 ELSE w[First(u)] + h[u \ {First(u)}]
  <2> DEFINE x == First(u)
             v == u \ {x}
  <2>1. h[u] = IF u = {} THEN 0 ELSE w[x] + it(v)[v]
    OBVIOUS
  <2>2. u # {} => x \in u
    BY DEF First
  <2>3. u # {} => v \in SUBSET s /\ v # s
    BY <2>2
  <2>4. u # {} => h[v] = it(v)[v]
    BY <2>3, <1>7
  <2> QED
    BY <2>1, <2>4
<1>9. h = [u \in SUBSET s |-> IF u = {} THEN 0 ELSE w[First(u)] + h[u \ {First(u)}]]
  BY <1>8
<1>10. IsIter(h, w, s)
  BY <1>9 DEF IsIter
<1> QED
  BY <1>3, <1>10

\* What the recursion of a sum means.
LEMMA TotalStep ==
  ASSUME NEW w, NEW S, IsFiniteSet(S)
  PROVE  /\ S = {} => Total(w, S) = 0
         /\ S # {} => \E x \in S : Total(w, S) = w[x] + Total(w, S \ {x})
<1> DEFINE f == CHOOSE h : IsIter(h, w, S)
           x == First(S)
           U == S \ {x}
           g == CHOOSE h : IsIter(h, w, U)
<1>1. IsIter(f, w, S)
  BY IterExists
<1>2. IsFiniteSet(U)
  BY FS_Subset
<1>3. IsIter(g, w, U)
  BY <1>2, IterExists
<1>4. Total(w, S) = f[S] /\ Total(w, U) = g[U]
  BY TotalIsIter
<1> HIDE DEF f, g
<1>5. f[S] = IF S = {} THEN 0 ELSE w[x] + f[U]
  BY <1>1 DEF IsIter
<1>6. f[U] = g[U]
  <2>1. U \in SUBSET (S \cap U)
    OBVIOUS
  <2> HIDE DEF U
  <2> QED
    BY SMT, <1>1, <1>3, <2>1, IterUnique
<1>7. S # {} => x \in S
  BY DEF First
<1> QED
  BY <1>4, <1>5, <1>6, <1>7

\* A sum of integers is an integer.
LEMMA TotalType ==
  ASSUME NEW w, NEW S, IsFiniteSet(S), \A x \in S : w[x] \in Int
  PROVE  Total(w, S) \in Int
<1> DEFINE bad == {s \in SUBSET S : Total(w, s) \notin Int}
<1> SUFFICES ASSUME bad # {} PROVE FALSE
  OBVIOUS
<1>1. bad \in SUBSET (SUBSET S)
  OBVIOUS
<1>d. \A u : u \in bad <=> u \in SUBSET S /\ Total(w, u) \notin Int
  OBVIOUS
<1> HIDE DEF bad
<1>2. PICK u \in bad : \A v \in bad : ~(v \subseteq u /\ v # u)
  BY SMT, <1>1, MinimalSet
<1>3. u \in SUBSET S /\ Total(w, u) \notin Int /\ IsFiniteSet(u)
  BY <1>2, <1>d, FS_Subset
<1>4. u # {}
  BY SMT, <1>3, TotalStep
<1>5. PICK x \in u : Total(w, u) = w[x] + Total(w, u \ {x})
  BY <1>3, <1>4, TotalStep
<1>6. u \ {x} \subseteq u /\ u \ {x} # u /\ u \ {x} \in SUBSET S
  BY <1>3
<1>7. Total(w, u \ {x}) \in Int
  BY <1>2, <1>6, <1>d
<1>8. w[x] \in Int
  BY <1>3
<1> QED
  BY SMT, <1>3, <1>5, <1>7, <1>8

\* The order in which a sum is taken does not matter.
LEMMA TotalRemove ==
  ASSUME NEW w, NEW S, IsFiniteSet(S), \A x \in S : w[x] \in Int, NEW x \in S
  PROVE  Total(w, S) = w[x] + Total(w, S \ {x})
<1> DEFINE bad == {s \in SUBSET S : \E y \in s : Total(w, s) # w[y] + Total(w, s \ {y})}
<1> SUFFICES ASSUME bad # {} PROVE FALSE
  OBVIOUS
<1>1. bad \in SUBSET (SUBSET S)
  OBVIOUS
<1>d. \A u : u \in bad <=> u \in SUBSET S /\ \E y \in u : Total(w, u) # w[y] + Total(w, u \ {y})
  OBVIOUS
<1> HIDE DEF bad
<1>2. PICK u \in bad : \A v \in bad : ~(v \subseteq u /\ v # u)
  BY SMT, <1>1, MinimalSet
<1>3. u \in SUBSET S /\ IsFiniteSet(u)
  BY <1>2, <1>d, FS_Subset
<1>4. PICK y \in u : Total(w, u) # w[y] + Total(w, u \ {y})
  BY <1>2, <1>d
<1>5. PICK c \in u : Total(w, u) = w[c] + Total(w, u \ {c})
  BY <1>3, <1>4, TotalStep
<1>6. c # y
  BY <1>4, <1>5
<1>7. ASSUME NEW a \in u, NEW b \in u, a # b
      PROVE  Total(w, u \ {a}) = w[b] + Total(w, u \ {a, b})
  <2>1. u \ {a} \in SUBSET S /\ u \ {a} \subseteq u /\ u \ {a} # u /\ b \in u \ {a}
    BY <1>3, <1>7
  <2>2. Total(w, u \ {a}) = w[b] + Total(w, (u \ {a}) \ {b})
    BY <2>1, <1>2, <1>d
  <2>3. (u \ {a}) \ {b} = u \ {a, b}
    OBVIOUS
  <2> QED
    BY <2>2, <2>3
<1>8. PICK r : r = u \ {c, y}
  OBVIOUS
<1>9. Total(w, u \ {c}) = w[y] + Total(w, r) /\ Total(w, u \ {y}) = w[c] + Total(w, r)
  <2>1. u \ {c, y} = u \ {y, c}
    OBVIOUS
  <2> QED
    BY <2>1, <1>6, <1>7, <1>8
<1>10. IsFiniteSet(r) /\ r \subseteq S
  BY <1>3, <1>8, FS_Subset
<1>11. Total(w, r) \in Int /\ w[c] \in Int /\ w[y] \in Int
  BY <1>3, <1>10, TotalType
<1> QED
  BY SMT, <1>4, <1>5, <1>9, <1>11

\* The sum of two sets apart is the sum of their sums.
LEMMA TotalUnion ==
  ASSUME NEW w, NEW A, NEW B, IsFiniteSet(A), IsFiniteSet(B), A \cap B = {},
         \A x \in A \cup B : w[x] \in Int
  PROVE  Total(w, A \cup B) = Total(w, A) + Total(w, B)
<1> DEFINE bad == {s \in SUBSET B : Total(w, A \cup s) # Total(w, A) + Total(w, s)}
<1> SUFFICES ASSUME bad # {} PROVE FALSE
  OBVIOUS
<1>1. bad \in SUBSET (SUBSET B)
  OBVIOUS
<1>d. \A u : u \in bad <=> u \in SUBSET B /\ Total(w, A \cup u) # Total(w, A) + Total(w, u)
  OBVIOUS
<1> HIDE DEF bad
<1>2. PICK u \in bad : \A v \in bad : ~(v \subseteq u /\ v # u)
  BY SMT, <1>1, MinimalSet
<1>3. u \in SUBSET B /\ IsFiniteSet(u)
  BY <1>2, <1>d, FS_Subset
<1>4. Total(w, A) \in Int
  BY TotalType
<1>5. u # {}
  <2>1. ASSUME u = {} PROVE FALSE
    <3>1. A \cup u = A /\ Total(w, u) = 0
      BY <2>1, <1>3, TotalStep
    <3> QED
      BY SMT, <1>2, <1>d, <1>4, <3>1
  <2> QED
    BY <2>1
<1>6. PICK x : x \in u
  BY <1>5
<1>7. PICK v : v = u \ {x}
  OBVIOUS
<1>8. v \in SUBSET B /\ v \subseteq u /\ v # u /\ IsFiniteSet(v)
  BY <1>3, <1>6, <1>7, FS_Subset
<1>9. Total(w, A \cup v) = Total(w, A) + Total(w, v)
  BY <1>2, <1>8, <1>d
<1>10. (A \cup u) \ {x} = A \cup v /\ x \in A \cup u
  BY <1>3, <1>6, <1>7
<1>11. IsFiniteSet(A \cup u)
  BY <1>3, FS_Union
<1>12. Total(w, A \cup u) = w[x] + Total(w, A \cup v)
  <2>1. \A y \in A \cup u : w[y] \in Int
    BY <1>3
  <2>2. PICK W : W = A \cup u
    OBVIOUS
  <2>3. Total(w, W) = w[x] + Total(w, W \ {x})
    BY SMT, <2>1, <2>2, <1>10, <1>11, TotalRemove
  <2> QED
    BY <2>2, <2>3, <1>10
<1>13. Total(w, u) = w[x] + Total(w, v)
  <2>1. \A y \in u : w[y] \in Int
    BY <1>3
  <2> QED
    BY SMT, <2>1, <1>3, <1>6, <1>7, TotalRemove
<1>14. Total(w, v) \in Int /\ w[x] \in Int
  <2>1. \A y \in v : w[y] \in Int
    BY <1>8
  <2> QED
    BY <2>1, <1>3, <1>6, <1>8, TotalType
<1>15. Total(w, A \cup u) # Total(w, A) + Total(w, u)
  BY <1>2, <1>d
<1> QED
  BY SMT, <1>4, <1>9, <1>12, <1>13, <1>14, <1>15

\* A sum depends only on the weights of its members.
LEMMA TotalSame ==
  ASSUME NEW w, NEW v, NEW S, IsFiniteSet(S), \A x \in S : w[x] = v[x]
  PROVE  Total(w, S) = Total(v, S)
<1> DEFINE f == CHOOSE h : IsIter(h, w, S)
           g == CHOOSE h : IsIter(h, v, S)
<1>1. IsIter(f, w, S) /\ IsIter(g, v, S)
  BY IterExists
<1>2. Total(w, S) = f[S] /\ Total(v, S) = g[S]
  BY TotalIsIter
<1> HIDE DEF f, g
<1>3. \A u \in SUBSET S : u # {} => w[First(u)] = v[First(u)]
  BY DEF First
<1>4. g = [u \in SUBSET S |-> IF u = {} THEN 0 ELSE v[First(u)] + g[u \ {First(u)}]]
  BY <1>1 DEF IsIter
<1>5. ASSUME NEW u \in SUBSET S
      PROVE  (IF u = {} THEN 0 ELSE v[First(u)] + g[u \ {First(u)}])
              = (IF u = {} THEN 0 ELSE w[First(u)] + g[u \ {First(u)}])
  BY <1>3
<1>6. IsIter(g, w, S)
  <2>1. [u \in SUBSET S |-> IF u = {} THEN 0 ELSE v[First(u)] + g[u \ {First(u)}]]
        = [u \in SUBSET S |-> IF u = {} THEN 0 ELSE w[First(u)] + g[u \ {First(u)}]]
    BY <1>5
  <2> QED
    BY <1>4, <2>1 DEF IsIter
<1>7. S \in SUBSET (S \cap S)
  OBVIOUS
<1> QED
  BY SMT, <1>1, <1>2, <1>6, <1>7, IterUnique

-----------------------------------------------------------------------------
(* Walks through links. *)

\* What is reached from x in P through the links L: the least set with x that L stays in.
Walk(P, L, x) == {y \in P : \A C \in SUBSET P : x \in C /\ (\A u \in C : L[u] \subseteq C) => y \in C}
StaysIn(P, L) == \A u \in P : L[u] \subseteq P
Inverse2(P, L, M) == \A u, v \in P : v \in L[u] <=> u \in M[v]

\* A walk has its start, stays in the links and is in every set that does.
LEMMA WalkLeast ==
  ASSUME NEW P, NEW L, StaysIn(P, L), NEW x \in P
  PROVE  /\ x \in Walk(P, L, x) /\ Walk(P, L, x) \subseteq P
         /\ \A u \in Walk(P, L, x) : L[u] \subseteq Walk(P, L, x)
         /\ \A C \in SUBSET P : x \in C /\ (\A u \in C : L[u] \subseteq C) => Walk(P, L, x) \subseteq C
<1>1. x \in Walk(P, L, x) /\ Walk(P, L, x) \subseteq P
  BY DEF Walk
<1>2. ASSUME NEW u \in Walk(P, L, x), NEW v \in L[u] PROVE v \in Walk(P, L, x)
  <2>1. u \in P /\ v \in P
    BY <1>1 DEF StaysIn
  <2>2. ASSUME NEW C \in SUBSET P, x \in C, \A z \in C : L[z] \subseteq C PROVE v \in C
    <3>1. u \in C
      BY <2>2 DEF Walk
    <3> QED
      BY <2>2, <3>1
  <2> QED
    BY <2>1, <2>2 DEF Walk
<1>3. ASSUME NEW C \in SUBSET P, x \in C, \A u \in C : L[u] \subseteq C PROVE Walk(P, L, x) \subseteq C
  BY <1>3 DEF Walk
<1> QED
  BY <1>1, <1>2, <1>3

\* Walking on from what is reached reaches nothing new.
LEMMA WalkOn ==
  ASSUME NEW P, NEW L, StaysIn(P, L), NEW x \in P, NEW y \in Walk(P, L, x)
  PROVE  Walk(P, L, y) \subseteq Walk(P, L, x)
<1>1. PICK W : W = Walk(P, L, x)
  OBVIOUS
<1>2. y \in P /\ W \in SUBSET P /\ y \in W /\ \A u \in W : L[u] \subseteq W
  BY <1>1, WalkLeast
<1>3. Walk(P, L, y) \subseteq W
  BY <1>2, WalkLeast
<1> QED
  BY <1>1, <1>3

\* Half of the duality: backwards along M from whatever L leads to.
LEMMA WalkBack ==
  ASSUME NEW P, NEW L, NEW M, StaysIn(P, L), StaysIn(P, M), Inverse2(P, L, M),
         NEW x \in P, NEW y \in Walk(P, L, x)
  PROVE  x \in Walk(P, M, y)
<1> DEFINE C == {z \in P : x \in Walk(P, M, z)}
<1>1. C \in SUBSET P /\ x \in C
  BY WalkLeast
<1>2. ASSUME NEW z \in C, NEW v \in L[z] PROVE v \in C
  <2>1. z \in P /\ v \in P /\ x \in Walk(P, M, z)
    BY DEF StaysIn
  <2>2. z \in M[v]
    BY <2>1 DEF Inverse2
  <2>3. v \in Walk(P, M, v) /\ \A u \in Walk(P, M, v) : M[u] \subseteq Walk(P, M, v)
    BY <2>1, WalkLeast
  <2>4. z \in Walk(P, M, v)
    BY <2>2, <2>3
  <2>5. Walk(P, M, z) \subseteq Walk(P, M, v)
    BY <2>1, <2>4, WalkOn
  <2> QED
    BY <2>1, <2>5
<1>3. \A u \in C : L[u] \subseteq C
  BY <1>2
<1>4. PICK D : D = C
  OBVIOUS
<1>5. Walk(P, L, x) \subseteq D
  BY <1>1, <1>3, <1>4, WalkLeast
<1> QED
  BY <1>4, <1>5

\* Who walks down to y from x walks up to x from y.
LEMMA WalkDual ==
  ASSUME NEW P, NEW L, NEW M, StaysIn(P, L), StaysIn(P, M), Inverse2(P, L, M),
         NEW x \in P, NEW y \in P
  PROVE  y \in Walk(P, L, x) <=> x \in Walk(P, M, y)
<1>1. Inverse2(P, M, L)
  BY DEF Inverse2
<1> QED
  BY <1>1, WalkBack

\* Without a set that the links stay in, the rest reaches what it did.
LEMMA WalkCut ==
  ASSUME NEW P, NEW L, NEW K, NEW S \in SUBSET P, StaysIn(P, L), \A u \in S : L[u] \subseteq S,
         \A u \in P \ S : K[u] = L[u] \ S, NEW x \in P \ S
  PROVE  Walk(P \ S, K, x) = Walk(P, L, x) \ S
<1>1. PICK Q : Q = P \ S
  OBVIOUS
<1>2. PICK W : W = Walk(P, L, x)
  OBVIOUS
<1>3. PICK V : V = Walk(Q, K, x)
  OBVIOUS
<1>4. x \in W /\ W \subseteq P /\ (\A u \in W : L[u] \subseteq W) /\ x \in P /\ x \in Q
  BY <1>1, <1>2, WalkLeast
<1>5. StaysIn(Q, K)
  BY <1>1 DEF StaysIn
<1>6. x \in V /\ V \subseteq Q /\ \A u \in V : K[u] \subseteq V
  BY <1>3, <1>4, <1>5, WalkLeast
<1>7. V \subseteq W \ S
  <2>0. ASSUME NEW u \in W \ S PROVE K[u] \subseteq W \ S
    <3>1. u \in P \ S /\ L[u] \subseteq W
      BY <1>4
    <3>2. K[u] = L[u] \ S
      BY <3>1
    <3> QED
      BY <3>1, <3>2
  <2>1. W \ S \in SUBSET Q /\ x \in W \ S /\ \A u \in W \ S : K[u] \subseteq W \ S
    <3>1. W \ S \in SUBSET Q
      BY <1>1, <1>4
    <3>2. x \in W \ S
      BY <1>4
    <3> QED
      BY <2>0, <3>1, <3>2
  <2>2. PICK C : C = W \ S
    OBVIOUS
  <2>3. C \in SUBSET Q /\ x \in C /\ \A u \in C : K[u] \subseteq C
    BY <2>1, <2>2
  <2>4. V \subseteq C
    BY <2>3, <1>3, <1>4, <1>5, WalkLeast
  <2> QED
    BY <2>2, <2>4
<1>8. W \subseteq V \cup S
  <2>1. V \cup S \in SUBSET P /\ x \in V \cup S
    BY <1>1, <1>6
  <2>2. ASSUME NEW u \in V \cup S PROVE L[u] \subseteq V \cup S
    <3>1. CASE u \in S
      BY <3>1
    <3>2. CASE u \in V
      <4>1. K[u] \subseteq V /\ K[u] = L[u] \ S
        BY <3>2, <1>1, <1>6
      <4> QED
        BY <4>1
    <3> QED
      BY <3>1, <3>2
  <2>3. PICK C : C = V \cup S
    OBVIOUS
  <2>4. C \in SUBSET P /\ x \in C /\ \A u \in C : L[u] \subseteq C
    BY <2>1, <2>2, <2>3
  <2>5. W \subseteq C
    BY <2>4, <1>2, <1>4, WalkLeast
  <2> QED
    BY <2>3, <2>5
<1>9. V = W \ S
  BY <1>1, <1>6, <1>7, <1>8
<1> QED
  BY <1>1, <1>2, <1>3, <1>9

\* More links from t change only what leads to t.
LEMMA WalkMore ==
  ASSUME NEW P, NEW L, NEW K, NEW t \in P, StaysIn(P, L), StaysIn(P, K),
         \A u \in P \ {t} : K[u] = L[u], L[t] \subseteq K[t], NEW x \in P
  PROVE  /\ Walk(P, L, x) \subseteq Walk(P, K, x)
         /\ t \notin Walk(P, L, x) => Walk(P, K, x) = Walk(P, L, x)
<1>1. PICK W : W = Walk(P, L, x)
  OBVIOUS
<1>2. PICK V : V = Walk(P, K, x)
  OBVIOUS
<1>3. x \in W /\ W \in SUBSET P /\ \A u \in W : L[u] \subseteq W
  BY <1>1, WalkLeast
<1>4. x \in V /\ V \in SUBSET P /\ \A u \in V : K[u] \subseteq V
  BY <1>2, WalkLeast
<1>5. \A u \in V : L[u] \subseteq V
  BY <1>4
<1>6. W \subseteq V
  BY <1>1, <1>4, <1>5, WalkLeast
<1>7. ASSUME t \notin W PROVE V \subseteq W
  <2>1. \A u \in W : K[u] \subseteq W
    BY <1>3, <1>7
  <2> QED
    BY <2>1, <1>2, <1>3, WalkLeast
<1> QED
  BY <1>1, <1>2, <1>6, <1>7

\* Q and K have a new t, without links of its own, that U links to.
WithNew(P, Q, L, K, U, t) ==
  /\ t \notin P /\ (\A u : u \in Q <=> u \in P \/ u = t) /\ U \subseteq P /\ StaysIn(P, L)
  /\ (\A u \in U : K[u] = L[u] \cup {t}) /\ (\A u \in P \ U : K[u] = L[u]) /\ K[t] = {}

\* What reaches U reaches t too.
ReachesNew(P, Q, L, K, U, t) ==
  /\ Walk(Q, K, t) = {t}
  /\ \A x \in P : \A y : y \in Walk(Q, K, x) <=>
       y \in Walk(P, L, x) \/ (y = t /\ \E u \in U : u \in Walk(P, L, x))

LEMMA WalkAdd ==
  ASSUME NEW P, NEW Q, NEW L, NEW K, NEW U, NEW t, WithNew(P, Q, L, K, U, t)
  PROVE  ReachesNew(P, Q, L, K, U, t)
<1> t \notin P /\ U \in SUBSET P /\ StaysIn(P, L) /\ K[t] = {}
  BY DEF WithNew
<1> \A u \in U : K[u] = L[u] \cup {t}
  BY DEF WithNew
<1> \A u \in P : K[u] = IF u \in U THEN L[u] \cup {t} ELSE L[u]
  BY DEF WithNew
<1>1. \A u : u \in Q <=> u \in P \/ u = t
  BY DEF WithNew
<1>2. StaysIn(Q, K) /\ t \in Q
  BY <1>1 DEF StaysIn
<1>3. Walk(Q, K, t) = {t}
  <2>1. {t} \in SUBSET Q /\ t \in {t} /\ \A u \in {t} : K[u] \subseteq {t}
    BY <1>1
  <2>2. PICK C : C = {t}
    OBVIOUS
  <2>3. C \in SUBSET Q /\ t \in C /\ \A u \in C : K[u] \subseteq C
    BY <2>1, <2>2
  <2>4. t \in Walk(Q, K, t) /\ Walk(Q, K, t) \subseteq C
    BY SMT, <2>3, <1>2, WalkLeast
  <2> QED
    BY <2>2, <2>4
<1>4. ASSUME NEW x \in P
      PROVE  \A y : y \in Walk(Q, K, x) <=>
               y \in Walk(P, L, x) \/ (y = t /\ \E u \in U : u \in Walk(P, L, x))
  <2>1. PICK W : W = Walk(P, L, x)
    OBVIOUS
  <2>2. PICK V : V = Walk(Q, K, x)
    OBVIOUS
  <2>3. x \in W /\ W \in SUBSET P /\ \A u \in W : L[u] \subseteq W
    BY <2>1, WalkLeast
  <2>4. x \in Q
    BY <1>1
  <2>5. x \in V /\ V \in SUBSET Q /\ \A u \in V : K[u] \subseteq V
    BY <2>2, <2>4, <1>2, WalkLeast
  <2>6. PICK D : D = W \cup {z \in {t} : \E u \in U : u \in W}
    OBVIOUS
  <2>7. V \subseteq D
    <3>1. D \in SUBSET Q /\ x \in D
      BY <2>3, <2>6, <1>1
    <3>2. ASSUME NEW u \in D, NEW v \in K[u] PROVE v \in D
      <4>1. u # t
        OBVIOUS
      <4>2. u \in W /\ u \in P
        BY <4>1, <2>3, <2>6
      <4>3. v \in L[u] \/ (v = t /\ u \in U)
        BY <4>2
      <4> QED
        BY <4>2, <4>3, <2>3, <2>6
    <3>3. \A u \in D : K[u] \subseteq D
      BY <3>2
    <3> QED
      BY <3>1, <3>3, <2>2, <2>4, <1>2, WalkLeast
  <2>8. W \subseteq V
    <3>1. V \cap P \in SUBSET P /\ x \in V \cap P
      BY <2>5
    <3>2. ASSUME NEW u \in V \cap P, NEW v \in L[u] PROVE v \in V \cap P
      <4>1. v \in P
        BY DEF StaysIn
      <4>2. v \in K[u]
        OBVIOUS
      <4> QED
        BY <4>1, <4>2, <2>5
    <3>3. \A u \in V \cap P : L[u] \subseteq V \cap P
      BY <3>2
    <3>4. PICK C : C = V \cap P
      OBVIOUS
    <3>5. W \subseteq C
      BY <3>1, <3>3, <3>4, <2>1, WalkLeast
    <3> QED
      BY <3>4, <3>5
  <2>9. ASSUME NEW u \in U, u \in W PROVE t \in V
    <3>1. u \in V /\ t \in K[u]
      BY <2>8, <2>9
    <3> QED
      BY <3>1, <2>5
  <2>10. V = D
    BY <2>6, <2>7, <2>8, <2>9
  <2> QED
    BY <2>1, <2>2, <2>6, <2>10
<1> QED
  BY <1>3, <1>4 DEF ReachesNew

-----------------------------------------------------------------------------
(* The sums of the code: counts, sizes and modified fees. *)

ModFee(d) == [t \in Tx |-> Fee[t] + d[t]]
SumWith(d, S) ==
  [count |-> Cardinality(S), size |-> Total(Size, S), fees |-> Total(ModFee(d), S)]

\* The fees of an entry set, whichever way they are written.
LEMMA FeesAreTotal ==
  ASSUME NEW d, NEW S \in SUBSET Tx, IsFiniteSet(S)
  PROVE  MapThenSumSet(LAMBDA t : Fee[t] + d[t], S) = Total(ModFee(d), S)
<1> DEFINE P(f) == f = [s \in SUBSET S |-> IF s = {} THEN 0
                          ELSE (Fee[First(s)] + d[First(s)]) + f[s \ {First(s)}]]
           g == CHOOSE f : P(f)
           f0 == CHOOSE f : IsIter(f, ModFee(d), S)
<1>1. MapThenSumSet(LAMBDA t : Fee[t] + d[t], S) = g[S]
  BY DEF MapThenSumSet, MapThenFoldSet, First
<1>2. ASSUME NEW s \in SUBSET S, s # {} PROVE ModFee(d)[First(s)] = Fee[First(s)] + d[First(s)]
  <2>1. First(s) \in Tx
    BY <1>2 DEF First
  <2> QED
    BY <2>1 DEF ModFee
<1>3. ASSUME NEW f
      PROVE  [s \in SUBSET S |-> IF s = {} THEN 0
                ELSE (Fee[First(s)] + d[First(s)]) + f[s \ {First(s)}]]
             = [s \in SUBSET S |-> IF s = {} THEN 0 ELSE ModFee(d)[First(s)] + f[s \ {First(s)}]]
  <2>1. ASSUME NEW s \in SUBSET S
        PROVE  (IF s = {} THEN 0 ELSE (Fee[First(s)] + d[First(s)]) + f[s \ {First(s)}])
               = (IF s = {} THEN 0 ELSE ModFee(d)[First(s)] + f[s \ {First(s)}])
    BY <1>2
  <2> QED
    BY <2>1
<1>4. \A f : P(f) <=> IsIter(f, ModFee(d), S)
  BY <1>3 DEF IsIter
<1>5. IsIter(f0, ModFee(d), S)
  BY IterExists
<1>6. P(g)
  <2>1. \E f : P(f)
    BY <1>4, <1>5
  <2> HIDE DEF P
  <2> QED
    BY <2>1
<1>7. IsIter(g, ModFee(d), S)
  BY <1>4, <1>6
<1>8. Total(ModFee(d), S) = f0[S]
  BY TotalIsIter
<1>9. S \in SUBSET (S \cap S)
  OBVIOUS
<1> HIDE DEF g, f0, P
<1>10. g[S] = f0[S]
  BY SMT, <1>5, <1>7, <1>9, IterUnique
<1> QED
  BY <1>1, <1>8, <1>10

\* SumOf of the code is the sum with the fee deltas of the entries.
LEMMA SumOfIs ==
  ASSUME NEW S \in SUBSET Tx, IsFiniteSet(S)
  PROVE  SumOf(S) = SumWith(feeDelta, S)
<1>1. MapThenSumSet(LAMBDA t : Fee[t] + feeDelta[t], S) = Total(ModFee(feeDelta), S)
  BY FeesAreTotal
<1> QED
  BY <1>1 DEF SumOf, SumWith, GetModifiedFee, Total, MapThenSumSet, MapThenFoldSet

\* Its parts are integers.
LEMMA SumParts ==
  ASSUME NEW d \in [Tx -> Int], NEW S \in SUBSET Tx, IsFiniteSet(S)
  PROVE  /\ Cardinality(S) \in Int /\ Total(Size, S) \in Int /\ Total(ModFee(d), S) \in Int
         /\ SumWith(d, S) \in Sums
<1>1. Cardinality(S) \in Int
  BY SMT, FS_CardinalityType
<1>2. \A x \in S : Size[x] \in Int
  BY SMT, MempoolAssumption DEF MempoolAssumption
<1>3. \A x \in S : ModFee(d)[x] \in Int
  BY SMT, MempoolAssumption DEF MempoolAssumption, ModFee
<1>4. Total(Size, S) \in Int /\ Total(ModFee(d), S) \in Int
  BY <1>2, <1>3, TotalType
<1> QED
  BY <1>1, <1>4 DEF SumWith, Sums

\* Sums of sets apart add up, those of a part are taken away.
LEMMA SumUnion ==
  ASSUME NEW d \in [Tx -> Int], NEW A \in SUBSET Tx, NEW B \in SUBSET Tx,
         IsFiniteSet(A), IsFiniteSet(B), A \cap B = {}
  PROVE  /\ IsFiniteSet(A \cup B)
         /\ SumWith(d, A \cup B) = Plus(SumWith(d, A), SumWith(d, B))
<1>1. IsFiniteSet(A \cup B) /\ Cardinality(A \cup B) = Cardinality(A) + Cardinality(B)
  <2>1. /\ IsFiniteSet(A \cup B)
        /\ Cardinality(A \cup B) = Cardinality(A) + Cardinality(B) - Cardinality(A \cap B)
    BY FS_Union
  <2>2. Cardinality(A \cap B) = 0
    BY FS_EmptySet
  <2>3. Cardinality(A) \in Nat /\ Cardinality(B) \in Nat
    BY FS_CardinalityType
  <2> QED
    BY SMT, <2>1, <2>2, <2>3
<1>2. \A x \in A \cup B : Size[x] \in Int
  BY SMT, MempoolAssumption DEF MempoolAssumption
<1>3. \A x \in A \cup B : ModFee(d)[x] \in Int
  BY SMT, MempoolAssumption DEF MempoolAssumption, ModFee
<1>4. /\ Total(Size, A \cup B) = Total(Size, A) + Total(Size, B)
      /\ Total(ModFee(d), A \cup B) = Total(ModFee(d), A) + Total(ModFee(d), B)
  BY <1>2, <1>3, TotalUnion
<1> QED
  BY <1>1, <1>4 DEF SumWith, Plus

LEMMA SumLess ==
  ASSUME NEW d \in [Tx -> Int], NEW A \in SUBSET Tx, NEW B \in SUBSET A, IsFiniteSet(A)
  PROVE  /\ IsFiniteSet(B) /\ IsFiniteSet(A \ B)
         /\ SumWith(d, A \ B) = Minus(SumWith(d, A), SumWith(d, B))
<1>1. PICK C : C = A \ B
  OBVIOUS
<1>2. C \cup B = A /\ C \cap B = {} /\ C \in SUBSET Tx /\ B \in SUBSET Tx
  BY <1>1
<1>3. IsFiniteSet(B) /\ IsFiniteSet(C)
  BY <1>1, FS_Subset
<1>4. SumWith(d, A) = Plus(SumWith(d, C), SumWith(d, B))
  BY <1>2, <1>3, SumUnion
<1>5. /\ Cardinality(B) \in Int /\ Total(Size, B) \in Int /\ Total(ModFee(d), B) \in Int
      /\ Cardinality(C) \in Int /\ Total(Size, C) \in Int /\ Total(ModFee(d), C) \in Int
  BY <1>2, <1>3, SumParts
<1>6. SumWith(d, C) = Minus(SumWith(d, A), SumWith(d, B))
  BY SMT, <1>4, <1>5 DEF SumWith, Plus, Minus
<1> QED
  BY <1>1, <1>3, <1>6

\* The sums of nothing and of one entry.
LEMMA SumEmpty ==
  ASSUME NEW d
  PROVE  IsFiniteSet({}) /\ SumWith(d, {}) = Zero
<1>1. IsFiniteSet({}) /\ Cardinality({}) = 0
  BY FS_EmptySet
<1>2. Total(Size, {}) = 0 /\ Total(ModFee(d), {}) = 0
  BY <1>1, TotalStep
<1> QED
  BY <1>1, <1>2 DEF SumWith, Zero

LEMMA SumOne ==
  ASSUME NEW d \in [Tx -> Int], NEW t \in Tx
  PROVE  /\ IsFiniteSet({t})
         /\ SumWith(d, {t}) = [count |-> 1, size |-> Size[t], fees |-> Fee[t] + d[t]]
<1>1. IsFiniteSet({t}) /\ Cardinality({t}) = 1
  BY FS_Singleton
<1>2. ASSUME NEW w, w[t] \in Int PROVE Total(w, {t}) = w[t]
  <2>1. {t} \ {t} = {} /\ IsFiniteSet({}) /\ Total(w, {}) = 0
    <3>1. IsFiniteSet({})
      BY FS_EmptySet
    <3> QED
      BY <3>1, TotalStep
  <2>2. \A x \in {t} : w[x] \in Int
    BY <1>2
  <2>3. Total(w, {t}) = w[t] + Total(w, {t} \ {t})
    BY SMT, <1>1, <2>2, TotalRemove
  <2>4. Total(w, {t}) = w[t] + 0
    BY <2>1, <2>3
  <2> QED
    BY SMT, <2>4, <1>2
<1>3. Size[t] \in Int /\ ModFee(d)[t] \in Int /\ ModFee(d)[t] = Fee[t] + d[t]
  BY SMT, MempoolAssumption DEF MempoolAssumption, ModFee
<1>4. Total(Size, {t}) = Size[t] /\ Total(ModFee(d), {t}) = Fee[t] + d[t]
  BY <1>2, <1>3
<1> QED
  BY <1>1, <1>4 DEF SumWith

\* Sums when deltas stay, and when one of them changes.
LEMMA SumSame ==
  ASSUME NEW d, NEW e, NEW S \in SUBSET Tx, IsFiniteSet(S), \A t \in S : d[t] = e[t]
  PROVE  SumWith(d, S) = SumWith(e, S)
<1>1. \A t \in S : ModFee(d)[t] = ModFee(e)[t]
  BY DEF ModFee
<1>2. Total(ModFee(d), S) = Total(ModFee(e), S)
  BY <1>1, TotalSame
<1> QED
  BY <1>2 DEF SumWith

LEMMA SumShift ==
  ASSUME NEW d \in [Tx -> Int], NEW e \in [Tx -> Int], NEW S \in SUBSET Tx, IsFiniteSet(S),
         NEW t \in S, NEW k \in Int, e[t] = d[t] + k, \A x \in S \ {t} : e[x] = d[x]
  PROVE  SumWith(e, S) = Plus(SumWith(d, S), [Zero EXCEPT !.fees = k])
<1>1. PICK R : R = S \ {t}
  OBVIOUS
<1>2. R \in SUBSET Tx /\ t \in Tx /\ {t} \in SUBSET Tx /\ R \cup {t} = S /\ R \cap {t} = {}
  BY <1>1
<1>3. IsFiniteSet(R) /\ IsFiniteSet({t})
  BY <1>1, FS_Subset, FS_Singleton
<1>4. /\ SumWith(e, S) = Plus(SumWith(e, R), SumWith(e, {t}))
      /\ SumWith(d, S) = Plus(SumWith(d, R), SumWith(d, {t}))
  BY <1>2, <1>3, SumUnion
<1>5. SumWith(e, R) = SumWith(d, R)
  BY <1>1, <1>2, <1>3, SumSame
<1>6. /\ SumWith(d, {t}) = [count |-> 1, size |-> Size[t], fees |-> Fee[t] + d[t]]
      /\ SumWith(e, {t}) = [count |-> 1, size |-> Size[t], fees |-> Fee[t] + e[t]]
  BY <1>2, SumOne
<1>7. /\ Cardinality(R) \in Int /\ Total(Size, R) \in Int /\ Total(ModFee(d), R) \in Int
  BY <1>2, <1>3, SumParts
<1>8. Size[t] \in Int /\ Fee[t] \in Int /\ d[t] \in Int
  BY SMT, <1>2, MempoolAssumption DEF MempoolAssumption
<1> QED
  BY SMT, <1>4, <1>5, <1>6, <1>7, <1>8 DEF SumWith, Plus, Zero

-----------------------------------------------------------------------------
(* The sums. *)

Below(x) == Walk(pool, children, x)
Above(x) == Walk(pool, parents, x)

\* An entry's sums are those of A above it and B below it, ancestor fees aside.
SumsAre(x, A, B) ==
  /\ desc[x] = SumWith(feeDelta, B)
  /\ anc[x].count = Cardinality(A) /\ anc[x].size = Total(Size, A)

SumTypes ==
  /\ IsFiniteSet(pool) /\ feeDelta \in [Tx -> Int]
  /\ desc \in [Tx -> Sums] /\ anc \in [Tx -> Sums]
  /\ totalTxSize = Total(Size, pool)

Plain == \A x \in pool : SumsAre(x, Above(x), Below(x))

\* The links are between entries, children against parents.
LEMMA GraphFacts ==
  ASSUME EntriesInv
  PROVE  /\ pool \subseteq Tx /\ StaysIn(pool, children) /\ StaysIn(pool, parents)
         /\ Inverse2(pool, children, parents) /\ Inverse2(pool, parents, children)
<1>1. \A x \in pool : x \in Tx /\ children[x] \subseteq Tx /\ parents[x] \subseteq Tx
  BY DEF EntriesInv, EntryTypes
<1>2. StaysIn(pool, children) /\ StaysIn(pool, parents)
  BY <1>1 DEF EntriesInv, LinksAgree, StaysIn
<1>3. Inverse2(pool, children, parents) /\ Inverse2(pool, parents, children)
  BY <1>1 DEF EntriesInv, LinksAgree, Inverse2
<1> QED
  BY <1>1, <1>2, <1>3

LEMMA GraphFactsNext ==
  ASSUME EntriesInv'
  PROVE  /\ pool' \subseteq Tx /\ StaysIn(pool', children') /\ StaysIn(pool', parents')
         /\ Inverse2(pool', children', parents') /\ Inverse2(pool', parents', children')
<1>1. \A x \in pool' : x \in Tx /\ children'[x] \subseteq Tx /\ parents'[x] \subseteq Tx
  BY DEF EntriesInv, EntryTypes
<1>2. StaysIn(pool', children') /\ StaysIn(pool', parents')
  BY <1>1 DEF EntriesInv, LinksAgree, StaysIn
<1>3. Inverse2(pool', children', parents') /\ Inverse2(pool', parents', children')
  BY <1>1 DEF EntriesInv, LinksAgree, Inverse2
<1> QED
  BY <1>1, <1>2, <1>3

\* A walk is its start and the walks from its links.
LEMMA WalkStep ==
  ASSUME NEW P, NEW L, StaysIn(P, L), NEW x \in P
  PROVE  Walk(P, L, x) = {x} \cup {y \in P : \E z \in L[x] : y \in Walk(P, L, z)}
<1> DEFINE C0 == {x} \cup {y \in P : \E z \in L[x] : y \in Walk(P, L, z)}
<1>1. PICK C : C = C0
  OBVIOUS
<1>2. /\ \A y : y \in C <=> y = x \/ (y \in P /\ \E z \in L[x] : y \in Walk(P, L, z))
  BY <1>1
<1>3. C \in SUBSET P /\ x \in C
  BY <1>2
<1>4. ASSUME NEW u \in C, NEW v \in L[u] PROVE v \in C
  <2>1. u \in P /\ v \in P /\ L[x] \subseteq P
    BY <1>3 DEF StaysIn
  <2>2. CASE u = x
    <3>1. v \in Walk(P, L, v)
      BY <2>1, WalkLeast
    <3> QED
      BY <2>1, <2>2, <3>1, <1>2
  <2>3. CASE \E z \in L[x] : u \in Walk(P, L, z)
    <3>1. PICK z \in L[x] : u \in Walk(P, L, z)
      BY <2>3
    <3>2. \A w \in Walk(P, L, z) : L[w] \subseteq Walk(P, L, z)
      BY <2>1, WalkLeast
    <3> QED
      BY <2>1, <3>1, <3>2, <1>2
  <2> QED
    BY <2>2, <2>3, <1>2
<1>5. Walk(P, L, x) \subseteq C
  BY <1>3, <1>4, WalkLeast
<1>6. ASSUME NEW y \in C PROVE y \in Walk(P, L, x)
  <2>1. x \in Walk(P, L, x) /\ \A u \in Walk(P, L, x) : L[u] \subseteq Walk(P, L, x)
    BY WalkLeast
  <2>2. ASSUME NEW z \in L[x], y \in Walk(P, L, z) PROVE y \in Walk(P, L, x)
    BY <2>1, <2>2, WalkOn
  <2> QED
    BY <2>1, <2>2, <1>2
<1> QED
  BY <1>1, <1>5, <1>6

\* Reach from several starts is a walk from one of them.
LEMMA ReachWalk ==
  ASSUME NEW L, StaysIn(pool, L), NEW S \in SUBSET pool
  PROVE  Reach(L, S) = {y \in pool : \E s \in S : y \in Walk(pool, L, s)}
<1> DEFINE closed == {C \in SUBSET pool : S \subseteq C /\ \A t \in C : L[t] \subseteq C}
<1>1. pool \cup S = pool
  OBVIOUS
<1>2. \A y : y \in Reach(L, S) <=> y \in pool /\ \A C \in closed : y \in C
  BY <1>1 DEF Reach
<1>3. PICK T : T = {y \in pool : \E s \in S : y \in Walk(pool, L, s)}
  OBVIOUS
<1>4. \A y : y \in T <=> y \in pool /\ \E s \in S : y \in Walk(pool, L, s)
  BY <1>3
<1>5. T \in SUBSET pool /\ S \subseteq T
  BY <1>4, WalkLeast
<1>6. ASSUME NEW u \in T PROVE L[u] \subseteq T
  <2>1. PICK s \in S : u \in Walk(pool, L, s)
    BY <1>4
  <2>2. L[u] \subseteq Walk(pool, L, s) /\ L[u] \subseteq pool
    BY <2>1, <1>5, WalkLeast DEF StaysIn
  <2> QED
    BY <2>2, <1>4
<1>7. T \in closed
  BY <1>5, <1>6
<1>8. ASSUME NEW y \in T, NEW C \in closed PROVE y \in C
  <2>1. PICK s \in S : y \in Walk(pool, L, s)
    BY <1>4
  <2>2. C \in SUBSET pool /\ s \in C /\ (\A u \in C : L[u] \subseteq C)
    OBVIOUS
  <2>3. Walk(pool, L, s) \subseteq C
    BY <2>2, WalkLeast
  <2> QED
    BY <2>1, <2>3
<1>9. \A y : y \in Reach(L, S) <=> y \in T
  BY <1>2, <1>5, <1>7, <1>8
<1> QED
  BY <1>3, <1>9

\* The two walks of the code, and which entries are on both ends.
LEMMA Ancestry ==
  ASSUME EntriesInv, NEW x \in pool, NEW r \in pool
  PROVE  /\ x \in Above(r) <=> r \in Below(x)
         /\ (x = r \/ x \in CalculateMemPoolAncestors(r)) <=> r \in Below(x)
         /\ x \in CalculateDescendants({r}) <=> x \in Below(r)
<1>1. /\ pool \subseteq Tx /\ StaysIn(pool, children) /\ StaysIn(pool, parents)
      /\ Inverse2(pool, children, parents)
  BY GraphFacts
<1>2. x \in Above(r) <=> r \in Below(x)
  BY <1>1, WalkDual DEF Above, Below
<1>3. parents[r] \in SUBSET pool /\ {r} \in SUBSET pool
  BY <1>1 DEF StaysIn
<1>4. x \in CalculateMemPoolAncestors(r) <=> \E s \in parents[r] : x \in Walk(pool, parents, s)
  <2>1. Reach(parents, parents[r]) = {y \in pool : \E s \in parents[r] : y \in Walk(pool, parents, s)}
    BY SMT, <1>1, <1>3, ReachWalk
  <2> QED
    BY <2>1 DEF CalculateMemPoolAncestors
<1>5. Above(r) = {r} \cup {y \in pool : \E z \in parents[r] : y \in Walk(pool, parents, z)}
  BY SMT, <1>1, WalkStep DEF Above
<1>6. x \in CalculateDescendants({r}) <=> x \in Below(r)
  <2>1. Reach(children, {r}) = {y \in pool : \E s \in {r} : y \in Walk(pool, children, s)}
    BY SMT, <1>1, <1>3, ReachWalk
  <2> QED
    BY <2>1 DEF CalculateDescendants, Below
<1> QED
  BY <1>2, <1>4, <1>5, <1>6

\* When the links are complete, the sums are what check() computes from scratch.
LEMMA SumsWhenPlain ==
  ASSUME EntriesInv, SumTypes, Plain, LinksExact
  PROVE  SumsExact
<1>1. parents = TrueParents /\ children = TrueChildren
  BY DEF LinksExact
<1>2. /\ pool \in SUBSET Tx /\ IsFiniteSet(pool) /\ anc \in [Tx -> Sums]
      /\ StaysIn(pool, children) /\ StaysIn(pool, parents)
  BY GraphFacts DEF SumTypes
<1>3. totalTxSize = SumOf(pool).size
  <2>1. SumOf(pool) = SumWith(feeDelta, pool)
    BY SMT, <1>2, SumOfIs
  <2>2. SumWith(feeDelta, pool).size = Total(Size, pool)
    BY SMT DEF SumWith
  <2> QED
    BY <2>1, <2>2 DEF SumTypes
<1>4. ASSUME NEW t \in pool
      PROVE  /\ desc[t] = SumOf(Reach(TrueChildren, {t}))
             /\ [anc[t] EXCEPT !.fees = 0] = [SumOf(Reach(TrueParents, {t})) EXCEPT !.fees = 0]
  <2>1. ASSUME NEW L, StaysIn(pool, L)
        PROVE  /\ Reach(L, {t}) = Walk(pool, L, t) /\ Walk(pool, L, t) \in SUBSET Tx
               /\ IsFiniteSet(Walk(pool, L, t))
    <3>1. {t} \in SUBSET pool
      OBVIOUS
    <3>2. Reach(L, {t}) = {y \in pool : \E s \in {t} : y \in Walk(pool, L, s)}
      BY SMT, <2>1, <3>1, ReachWalk
    <3>3. PICK B : B = Walk(pool, L, t) /\ B \subseteq pool
      BY DEF Walk
    <3>4. Reach(L, {t}) = B
      BY SMT, <3>2, <3>3
    <3>5. IsFiniteSet(B)
      BY <1>2, <3>3, FS_Subset
    <3> QED
      BY <1>2, <3>3, <3>4, <3>5
  <2>2. PICK A, B : A = Above(t) /\ B = Below(t)
    OBVIOUS
  <2>3. /\ Reach(TrueChildren, {t}) = B /\ Reach(TrueParents, {t}) = A
        /\ A \in SUBSET Tx /\ B \in SUBSET Tx /\ IsFiniteSet(A) /\ IsFiniteSet(B)
    BY <1>1, <1>2, <2>1, <2>2 DEF Above, Below
  <2>4. SumOf(A) = SumWith(feeDelta, A) /\ SumOf(B) = SumWith(feeDelta, B)
    BY SMT, <2>3, SumOfIs
  <2>5. desc[t] = SumWith(feeDelta, B) /\ anc[t].count = Cardinality(A) /\ anc[t].size = Total(Size, A)
    BY <2>2 DEF Plain, SumsAre
  <2>6. PICK a, w : a = anc[t] /\ w = SumWith(feeDelta, A)
    OBVIOUS
  <2>7. a \in Sums
    BY SMT, <1>2, <2>6
  <2>8. /\ w = [count |-> Cardinality(A), size |-> Total(Size, A), fees |-> Total(ModFee(feeDelta), A)]
        /\ a.count = Cardinality(A) /\ a.size = Total(Size, A)
    BY <2>5, <2>6 DEF SumWith
  <2>9. [a EXCEPT !.fees = 0] = [w EXCEPT !.fees = 0]
    <3>1. [a EXCEPT !.fees = 0] = [count |-> a.count, size |-> a.size, fees |-> 0]
      BY SMT, <2>7 DEF Sums
    <3>2. [w EXCEPT !.fees = 0] = [count |-> a.count, size |-> a.size, fees |-> 0]
      BY SMT, <2>8
    <3> QED
      BY <3>1, <3>2
  <2> QED
    BY <2>3, <2>4, <2>5, <2>6, <2>9
<1> QED
  BY <1>3, <1>4 DEF SumsExact

\* A node starts with an empty pool.
LEMMA InitSums ==
  ASSUME Init
  PROVE  SumTypes /\ Plain /\ pc = "idle"
<1>1. /\ pool = {} /\ totalTxSize = 0 /\ pc = "idle" /\ feeDelta = [t \in Tx |-> 0]
      /\ desc = [t \in Tx |-> Zero] /\ anc = [t \in Tx |-> Zero]
  BY DEF Init
<1>2. IsFiniteSet({}) /\ SumWith(feeDelta, {}) = Zero
  BY SumEmpty
<1>3. Total(Size, {}) = 0
  BY SMT, <1>2 DEF SumWith, Zero
<1>4. /\ feeDelta \in [Tx -> Int] /\ desc \in [Tx -> Sums] /\ anc \in [Tx -> Sums]
  BY SMT, <1>1 DEF Zero, Sums
<1> QED
  BY <1>1, <1>2, <1>3, <1>4 DEF SumTypes, Plain

-----------------------------------------------------------------------------
(* Entries leave, are mined, arrive or get a fee delta. *)

\* What RemoveStaged leaves of the links and of the types.
LEMMA RemovedTypes ==
  ASSUME EntriesInv, SumTypes, NEW D, D \subseteq pool, NEW u, RemoveStaged(D, u)
  PROVE  /\ SumTypes' /\ pool' = pool \ D /\ IsFiniteSet(D)
         /\ \A x \in pool' : feeDelta'[x] = feeDelta[x]
         /\ \A x \in pool \ D : children'[x] = children[x] \ D /\ parents'[x] = parents[x] \ D
<1>1. /\ pool \subseteq Tx /\ IsFiniteSet(pool) /\ feeDelta \in [Tx -> Int]
      /\ desc \in [Tx -> Sums] /\ anc \in [Tx -> Sums] /\ totalTxSize = Total(Size, pool)
  BY DEF SumTypes, EntriesInv, EntryTypes
<1>2. /\ pool' = pool \ D /\ pool' \subseteq pool
      /\ feeDelta' = [t \in Tx |-> IF t \in D THEN 0 ELSE feeDelta[t]]
      /\ desc' = [t \in Tx |-> IF t \in D THEN Zero ELSE
           Minus(desc[t], SumOf({r \in D : t \in CalculateMemPoolAncestors(r)}))]
      /\ anc' = [t \in Tx |-> IF t \in D THEN Zero ELSE
           IF u THEN Minus(anc[t], SumOf({r \in D : t \in CalculateDescendants({r})})) ELSE anc[t]]
      /\ totalTxSize' = totalTxSize - SumOf(D).size
  BY DEF RemoveStaged
<1>3. IsFiniteSet(D) /\ IsFiniteSet(pool')
  BY <1>1, <1>2, FS_Subset
<1>4. feeDelta' \in [Tx -> Int]
  BY SMT, <1>1, <1>2
<1>5. ASSUME NEW S \in SUBSET D PROVE SumOf(S) \in Sums
  <2>1. S \in SUBSET Tx /\ IsFiniteSet(S)
    BY <1>1, <1>3, FS_Subset
  <2> QED
    BY SMT, <2>1, <1>1, SumOfIs, SumParts
<1>6. Zero \in Sums /\ \A a, b \in Sums : Minus(a, b) \in Sums
  BY SMT DEF Zero, Sums, Minus
<1>7. desc' \in [Tx -> Sums]
  <2>1. ASSUME NEW t \in Tx PROVE SumOf({r \in D : t \in CalculateMemPoolAncestors(r)}) \in Sums
    BY <1>5
  <2> QED
    BY <2>1, <1>1, <1>2, <1>6
<1>8. anc' \in [Tx -> Sums]
  <2>1. ASSUME NEW t \in Tx PROVE SumOf({r \in D : t \in CalculateDescendants({r})}) \in Sums
    BY <1>5
  <2> QED
    BY <2>1, <1>1, <1>2, <1>6
<1>9. totalTxSize' = Total(Size, pool')
  <2>1. SumOf(D) = SumWith(feeDelta, D)
    BY SMT, <1>1, <1>3, SumOfIs
  <2>2. SumWith(feeDelta, pool \ D) = Minus(SumWith(feeDelta, pool), SumWith(feeDelta, D))
    BY SMT, <1>1, SumLess
  <2> QED
    BY SMT, <2>1, <2>2, <1>1, <1>2 DEF SumWith, Minus
<1>10. \A x \in pool' : feeDelta'[x] = feeDelta[x]
  BY <1>1, <1>2
<1>11. ASSUME NEW x \in pool \ D
       PROVE  children'[x] = children[x] \ D /\ parents'[x] = parents[x] \ D
  <2>1. /\ children'[x] = children[x] \ {r \in D : x \in parents[r]}
        /\ parents'[x] = parents[x] \ {r \in D : x \in children[r]}
    BY <1>1 DEF RemoveStaged
  <2>2. /\ \A r \in D : x \in parents[r] <=> r \in children[x]
        /\ \A r \in D : x \in children[r] <=> r \in parents[x]
    BY <1>1 DEF EntriesInv, LinksAgree
  <2> QED
    BY <2>1, <2>2
<1> QED
  BY <1>2, <1>3, <1>4, <1>7, <1>8, <1>9, <1>10, <1>11 DEF SumTypes

\* Taking entries out of a set takes their sum out.
LEMMA SumCut ==
  ASSUME NEW d \in [Tx -> Int], NEW A \in SUBSET Tx, IsFiniteSet(A), NEW D
  PROVE  IsFiniteSet(A \ D) /\ SumWith(d, A \ D) = Minus(SumWith(d, A), SumWith(d, A \cap D))
<1>1. A \cap D \in SUBSET A /\ A \ (A \cap D) = A \ D
  OBVIOUS
<1>2. /\ IsFiniteSet(A \ (A \cap D))
      /\ SumWith(d, A \ (A \cap D)) = Minus(SumWith(d, A), SumWith(d, A \cap D))
  BY SMT, <1>1, SumLess
<1> QED
  BY <1>1, <1>2

\* The same when the deltas of the entries that go are cleared.
LEMMA SumTaken ==
  ASSUME NEW d \in [Tx -> Int], NEW e \in [Tx -> Int], NEW A \in SUBSET Tx, IsFiniteSet(A),
         NEW D, \A x \in A \ D : e[x] = d[x]
  PROVE  SumWith(e, A \ D) = Minus(SumWith(d, A), SumWith(d, A \cap D))
<1>1. IsFiniteSet(A \ D) /\ SumWith(d, A \ D) = Minus(SumWith(d, A), SumWith(d, A \cap D))
  BY SumCut
<1>2. A \ D \in SUBSET Tx
  OBVIOUS
<1>3. SumWith(e, A \ D) = SumWith(d, A \ D)
  BY SMT, <1>1, <1>2, SumSame
<1> QED
  BY <1>1, <1>3

\* Counts and sizes do not depend on fees.
LEMMA SumFields ==
  ASSUME NEW a, NEW b, NEW c, b.count = a.count, b.size = a.size
  PROVE  /\ Minus(b, c).count = Minus(a, c).count /\ Minus(b, c).size = Minus(a, c).size
         /\ Plus(b, c).count = Plus(a, c).count /\ Plus(b, c).size = Plus(a, c).size
BY SMT DEF Minus, Plus

\* Entries leave with their descendants: what is left loses those below it.
LEMMA SumsRemoved ==
  ASSUME EntriesInv, EntriesInv', SumTypes, Plain, NEW D, Closed(D), RemoveStaged(D, FALSE)
  PROVE  SumTypes' /\ Plain'
<1>1. D \subseteq pool /\ \A x \in D : children[x] \subseteq D
  BY DEF Closed
<1>2. /\ SumTypes' /\ pool' = pool \ D /\ IsFiniteSet(D)
      /\ \A x \in pool' : feeDelta'[x] = feeDelta[x]
      /\ \A x \in pool \ D : children'[x] = children[x] \ D
  BY <1>1, RemovedTypes
<1>3. /\ pool \subseteq Tx /\ StaysIn(pool, children) /\ StaysIn(pool, parents)
      /\ Inverse2(pool, children, parents) /\ D \in SUBSET pool
  BY <1>1, GraphFacts
<1>4. /\ StaysIn(pool', children') /\ StaysIn(pool', parents') /\ Inverse2(pool', children', parents')
  BY GraphFactsNext
<1>5. \A x \in pool \ D : Walk(pool \ D, children', x) = Walk(pool, children, x) \ D
  BY SMT, <1>1, <1>2, <1>3, WalkCut
<1>6. \A x \in pool' : Below(x)' = Below(x) \ D
  BY <1>2, <1>5 DEF Below
<1>7. ASSUME NEW x \in pool' PROVE Above(x)' = Above(x)
  <2>1. x \in pool /\ x \notin D
    BY <1>2
  <2>2. Above(x)' \subseteq pool' /\ Above(x) \subseteq pool
    BY DEF Above, Walk
  <2>3. ASSUME NEW z \in pool' PROVE z \in Above(x)' <=> z \in Above(x)
    <3>1. z \in pool
      BY <1>2
    <3>2. x \in Walk(pool', children', z) <=> z \in Walk(pool', parents', x)
      BY SMT, <1>4, WalkDual
    <3>3. x \in Walk(pool, children, z) <=> z \in Walk(pool, parents, x)
      BY SMT, <1>3, <2>1, <3>1, WalkDual
    <3> QED
      BY <3>2, <3>3, <2>1, <1>6 DEF Above, Below
  <2>4. ASSUME NEW z \in Above(x) PROVE z \in pool'
    <3>1. z \in pool
      BY <2>2
    <3>2. x \in Walk(pool, children, z)
      BY SMT, <1>3, <2>1, <3>1, WalkDual DEF Above
    <3>3. z \in D => Walk(pool, children, z) \subseteq D
      BY <1>1, <1>3, WalkLeast
    <3> QED
      BY <3>1, <3>2, <3>3, <2>1, <1>2
  <2> QED
    BY <2>2, <2>3, <2>4
<1>8. ASSUME NEW x \in pool' PROVE SumsAre(x, Above(x), Below(x))'
  <2>1. x \in pool /\ x \notin D /\ x \in Tx
    BY <1>2, <1>3
  <2>2. /\ desc'[x] = Minus(desc[x], SumOf({r \in D : x \in CalculateMemPoolAncestors(r)}))
        /\ anc'[x] = anc[x]
    BY <2>1 DEF RemoveStaged
  <2>3. PICK B : B = Below(x)
    OBVIOUS
  <2>4. {r \in D : x \in CalculateMemPoolAncestors(r)} = B \cap D
    BY <2>1, <2>3, <1>1, Ancestry
  <2>5. B \in SUBSET pool /\ B \in SUBSET Tx /\ IsFiniteSet(B) /\ B \cap D \in SUBSET Tx /\ IsFiniteSet(B \cap D)
    <3>1. B \subseteq pool /\ B \cap D \subseteq D
      BY <2>3 DEF Below, Walk
    <3>2. IsFiniteSet(pool)
      BY DEF SumTypes
    <3> QED
      BY <3>1, <3>2, <1>2, <1>3, FS_Subset
  <2>6. feeDelta \in [Tx -> Int] /\ feeDelta' \in [Tx -> Int] /\ \A y \in B \ D : feeDelta'[y] = feeDelta[y]
    BY <1>2, <2>5 DEF SumTypes
  <2>7. SumWith(feeDelta', B \ D) = Minus(SumWith(feeDelta, B), SumWith(feeDelta, B \cap D))
    BY SMT, <2>5, <2>6, SumTaken
  <2>8. SumOf(B \cap D) = SumWith(feeDelta, B \cap D)
    BY SMT, <2>5, SumOfIs
  <2>9. SumsAre(x, Above(x), B)
    BY <2>1, <2>3 DEF Plain
  <2>10. desc'[x] = SumWith(feeDelta', B \ D)
    BY <2>2, <2>4, <2>7, <2>8, <2>9 DEF SumsAre
  <2>11. Below(x)' = B \ D /\ Above(x)' = Above(x)
    BY <2>3, <1>6, <1>7
  <2> QED
    BY <2>2, <2>9, <2>10, <2>11 DEF SumsAre
<1> QED
  BY <1>2, <1>8 DEF Plain

\* An entry without parents is mined: what is left loses it above.
LEMMA SumsMined ==
  ASSUME EntriesInv, EntriesInv', SumTypes, Plain, NEW D, D \subseteq pool,
         \A x \in D : parents[x] \subseteq D, RemoveStaged(D, TRUE)
  PROVE  SumTypes' /\ Plain'
<1>1. /\ SumTypes' /\ pool' = pool \ D /\ IsFiniteSet(D)
      /\ \A x \in pool' : feeDelta'[x] = feeDelta[x]
      /\ \A x \in pool \ D : parents'[x] = parents[x] \ D
  BY RemovedTypes
<1>2. /\ pool \subseteq Tx /\ StaysIn(pool, children) /\ StaysIn(pool, parents)
      /\ Inverse2(pool, parents, children) /\ D \in SUBSET pool
  BY GraphFacts
<1>3. /\ StaysIn(pool', children') /\ StaysIn(pool', parents') /\ Inverse2(pool', parents', children')
  BY GraphFactsNext
<1>4. \A x \in pool \ D : Walk(pool \ D, parents', x) = Walk(pool, parents, x) \ D
  BY SMT, <1>1, <1>2, WalkCut
<1>5. \A x \in pool' : Above(x)' = Above(x) \ D
  BY <1>1, <1>4 DEF Above
<1>6. ASSUME NEW x \in pool \ D, NEW z \in D PROVE z \notin Below(x)
  <2>1. x \in pool /\ z \in pool /\ x \notin D
    OBVIOUS
  <2>2. x \in Walk(pool, parents, z) <=> z \in Walk(pool, children, x)
    BY SMT, <1>2, <2>1, WalkDual
  <2>3. Walk(pool, parents, z) \subseteq D
    BY <1>2, WalkLeast
  <2> QED
    BY <2>1, <2>2, <2>3 DEF Below
<1>7. ASSUME NEW x \in pool' PROVE Below(x)' = Below(x)
  <2>1. x \in pool /\ x \notin D
    BY <1>1
  <2>2. Below(x)' \subseteq pool' /\ Below(x) \subseteq pool
    BY DEF Below, Walk
  <2>3. ASSUME NEW z \in pool' PROVE z \in Below(x)' <=> z \in Below(x)
    <3>1. z \in pool
      BY <1>1
    <3>2. x \in Walk(pool', parents', z) <=> z \in Walk(pool', children', x)
      BY SMT, <1>3, WalkDual
    <3>3. x \in Walk(pool, parents, z) <=> z \in Walk(pool, children, x)
      BY SMT, <1>2, <2>1, <3>1, WalkDual
    <3> QED
      BY <3>2, <3>3, <2>1, <1>5 DEF Above, Below
  <2>4. \A z \in Below(x) : z \in pool'
    BY <2>1, <2>2, <1>1, <1>6
  <2> QED
    BY <2>2, <2>3, <2>4
<1>8. ASSUME NEW x \in pool' PROVE SumsAre(x, Above(x), Below(x))'
  <2>1. x \in pool /\ x \notin D /\ x \in Tx
    BY <1>1, <1>2
  <2>2. /\ desc'[x] = Minus(desc[x], SumOf({r \in D : x \in CalculateMemPoolAncestors(r)}))
        /\ anc'[x] = Minus(anc[x], SumOf({r \in D : x \in CalculateDescendants({r})}))
    BY <2>1 DEF RemoveStaged
  <2>3. PICK A, B : A = Above(x) /\ B = Below(x)
    OBVIOUS
  <2>4. {r \in D : x \in CalculateMemPoolAncestors(r)} = {}
    BY <2>1, <1>6, Ancestry
  <2>5. {r \in D : x \in CalculateDescendants({r})} = A \cap D
    BY <2>1, <2>3, Ancestry
  <2>6. /\ A \in SUBSET Tx /\ IsFiniteSet(A) /\ A \cap D \in SUBSET Tx /\ IsFiniteSet(A \cap D)
        /\ B \in SUBSET Tx /\ IsFiniteSet(B) /\ B \subseteq pool
    <3>1. A \subseteq pool /\ B \subseteq pool /\ A \cap D \subseteq D
      BY <2>3 DEF Above, Below, Walk
    <3>2. IsFiniteSet(pool)
      BY DEF SumTypes
    <3> QED
      BY <3>1, <3>2, <1>1, <1>2, FS_Subset
  <2>7. feeDelta \in [Tx -> Int] /\ feeDelta' \in [Tx -> Int] /\ {} \in SUBSET Tx /\ B \ {} = B /\ B \cap {} = {}
    BY <1>1 DEF SumTypes
  <2>8. SumsAre(x, A, B)
    BY <2>1, <2>3 DEF Plain
  <2>9. desc'[x] = SumWith(feeDelta', B)
    <3>1. SumOf({}) = SumWith(feeDelta, {}) /\ SumWith(feeDelta, {}) = Zero
      BY SMT, <2>7, SumOfIs, SumEmpty
    <3>2. desc[x] \in Sums
      BY <2>1 DEF SumTypes
    <3>3. Minus(desc[x], Zero) = desc[x]
      BY SMT, <3>2 DEF Sums, Minus, Zero
    <3>4. \A y \in B : feeDelta'[y] = feeDelta[y]
      BY <1>1, <1>6, <2>1, <2>3, <2>6
    <3>5. SumWith(feeDelta, B) = SumWith(feeDelta', B)
      BY SMT, <3>4, <2>6, SumSame
    <3> QED
      BY <2>2, <2>4, <2>8, <3>1, <3>3, <3>5 DEF SumsAre
  <2>10. anc'[x].count = Cardinality(A \ D) /\ anc'[x].size = Total(Size, A \ D)
    <3>1. SumWith(feeDelta, A \ D) = Minus(SumWith(feeDelta, A), SumWith(feeDelta, A \cap D))
      <4>1. feeDelta \in [Tx -> Int] /\ A \in SUBSET Tx /\ IsFiniteSet(A)
        BY <2>6, <2>7
      <4> QED
        BY <4>1, SumCut
    <3>2. SumOf(A \cap D) = SumWith(feeDelta, A \cap D)
      BY SMT, <2>6, SumOfIs
    <3>3. anc[x].count = SumWith(feeDelta, A).count /\ anc[x].size = SumWith(feeDelta, A).size
      BY SMT, <2>8 DEF SumsAre, SumWith
    <3>4. anc'[x] = Minus(anc[x], SumWith(feeDelta, A \cap D))
      BY <3>2, <2>2, <2>5
    <3>5. PICK a, b, c : a = SumWith(feeDelta, A) /\ b = anc[x] /\ c = SumWith(feeDelta, A \cap D)
      OBVIOUS
    <3>6. anc'[x].count = SumWith(feeDelta, A \ D).count /\ anc'[x].size = SumWith(feeDelta, A \ D).size
      <4>1. b.count = a.count /\ b.size = a.size
        BY <3>3, <3>5
      <4>2. Minus(b, c).count = Minus(a, c).count /\ Minus(b, c).size = Minus(a, c).size
        BY SMTT(30), <4>1, SumFields
      <4> QED
        BY <4>2, <3>1, <3>4, <3>5
    <3>7. /\ SumWith(feeDelta, A \ D).count = Cardinality(A \ D)
          /\ SumWith(feeDelta, A \ D).size = Total(Size, A \ D)
      BY SMT DEF SumWith
    <3> QED
      BY <3>6, <3>7
  <2>11. Above(x)' = A \ D /\ Below(x)' = B
    BY <2>3, <1>5, <1>7
  <2> QED
    BY <2>9, <2>10, <2>11 DEF SumsAre
<1> QED
  BY <1>1, <1>8 DEF Plain

\* A new entry: those above it have it below, and it has them above.
LEMMA SumsAdded ==
  ASSUME EntriesInv, EntriesInv', SumTypes, Plain, NEW t \in Tx, t \notin pool, NEW nTime,
         mapDeltas[t] \in Int, addUnchecked(t, nTime)
  PROVE  SumTypes' /\ Plain'
<1>1. PICK up, above, own :
        /\ up = MemPoolParents(t) /\ above = Reach(parents, up)
        /\ own = [count |-> 1, size |-> Size[t], fees |-> Fee[t] + mapDeltas[t]]
  OBVIOUS
<1>2. /\ pool' = pool \cup {t}
      /\ feeDelta' = [feeDelta EXCEPT ![t] = mapDeltas[t]]
      /\ children' = [x \in Tx |-> IF x \in up THEN children[x] \cup {t} ELSE children[x]]
      /\ desc' = [x \in Tx |-> IF x = t THEN own ELSE
                               IF x \in above THEN Plus(desc[x], own) ELSE desc[x]]
      /\ anc' = [anc EXCEPT ![t] = Plus(own, SumOf(above))]
      /\ totalTxSize' = totalTxSize + Size[t]
  BY <1>1 DEF addUnchecked
<1>3. /\ pool \subseteq Tx /\ IsFiniteSet(pool) /\ feeDelta \in [Tx -> Int]
      /\ desc \in [Tx -> Sums] /\ anc \in [Tx -> Sums] /\ totalTxSize = Total(Size, pool)
      /\ Size[t] \in Int /\ Fee[t] \in Int
  <2>1. Size[t] \in Int /\ Fee[t] \in Int
    BY SMT, MempoolAssumption DEF MempoolAssumption
  <2> QED
    BY <2>1 DEF SumTypes, EntriesInv, EntryTypes
<1>4. /\ StaysIn(pool, children) /\ StaysIn(pool, parents) /\ Inverse2(pool, children, parents)
      /\ Inverse2(pool, parents, children)
  BY GraphFacts
<1>5. /\ StaysIn(pool', children') /\ StaysIn(pool', parents') /\ Inverse2(pool', children', parents')
  BY GraphFactsNext
<1>6. up \in SUBSET pool /\ above \subseteq pool
  <2>1. up \subseteq pool
    BY <1>1 DEF MemPoolParents
  <2> QED
    BY <2>1, <1>1 DEF Reach
<1>7. ASSUME NEW x \in pool PROVE x \in above <=> \E u \in up : u \in Below(x)
  <2>1. above = {y \in pool : \E s \in up : y \in Walk(pool, parents, s)}
    BY SMTT(30), <1>1, <1>4, <1>6, ReachWalk
  <2>2. ASSUME NEW u \in up PROVE x \in Walk(pool, parents, u) <=> u \in Walk(pool, children, x)
    BY SMT, <1>4, <1>6, WalkDual
  <2> QED
    BY <2>1, <2>2 DEF Below
<1>8. /\ Below(t)' = {t}
      /\ \A x \in pool : Below(x)' = IF x \in above THEN Below(x) \cup {t} ELSE Below(x)
  <2>1. \A u \in pool : children'[u] = IF u \in up THEN children[u] \cup {t} ELSE children[u]
    BY <1>2, <1>3
  <2>2. children'[t] = {}
    <3>1. children'[t] = children[t]
      BY <1>2, <1>6
    <3>2. children[t] \subseteq Tx
      BY DEF EntriesInv, EntryTypes
    <3> QED
      BY <3>1, <3>2 DEF EntriesInv, LinksAgree
  <2>3. /\ Walk(pool', children', t) = {t}
        /\ \A x \in pool : \A y : y \in Walk(pool', children', x) <=>
             y \in Walk(pool, children, x) \/ (y = t /\ \E u \in up : u \in Walk(pool, children, x))
    <3>1. (\A u : u \in pool' <=> u \in pool \/ u = t) /\ up \in SUBSET pool /\ StaysIn(pool, children)
      BY <1>2, <1>4, <1>6
    <3>2. /\ \A u \in up : children'[u] = children[u] \cup {t}
          /\ \A u \in pool \ up : children'[u] = children[u]
      BY <2>1, <1>6
    <3>3. WithNew(pool, pool', children, children', up, t)
      BY <2>2, <3>1, <3>2 DEF WithNew
    <3>4. ReachesNew(pool, pool', children, children', up, t)
      BY <3>3, WalkAdd
    <3> QED
      BY <3>4 DEF ReachesNew
  <2>4. \A x \in pool : \A y : y \in Below(x)' <=> y \in Below(x) \/ (y = t /\ x \in above)
    BY <2>3, <1>2, <1>7 DEF Below
  <2>5. ASSUME NEW x \in pool PROVE Below(x)' = IF x \in above THEN Below(x) \cup {t} ELSE Below(x)
    <3>1. \A y : y \in Below(x)' <=> y \in Below(x) \/ (y = t /\ x \in above)
      BY <2>4
    <3>2. PICK B, C : B = Below(x) /\ C = Below(x)'
      OBVIOUS
    <3>3. ASSUME x \in above PROVE C = B \cup {t}
      <4>1. \A y : y \in C <=> y \in B \cup {t}
        BY <3>1, <3>2, <3>3
      <4> QED
        BY SMT, <4>1
    <3>4. ASSUME x \notin above PROVE C = B
      <4>1. \A y : y \in C <=> y \in B
        BY <3>1, <3>2, <3>4
      <4> QED
        BY <4>1
    <3> QED
      BY <3>2, <3>3, <3>4
  <2>6. Below(t)' = {t}
    BY <2>3, <1>2 DEF Below
  <2> QED
    BY <2>5, <2>6
<1>9. ASSUME NEW x \in pool', NEW z \in pool' PROVE z \in Above(x)' <=> x \in Below(z)'
  <2>1. x \in Walk(pool', children', z) <=> z \in Walk(pool', parents', x)
    BY SMT, <1>5, WalkDual
  <2> QED
    BY <2>1 DEF Above, Below
<1>10. \A x \in pool, z \in pool : z \in Above(x) <=> x \in Below(z)
  BY Ancestry
<1>11. \A x : Above(x)' \subseteq pool' /\ Above(x) \subseteq pool /\ Below(x) \subseteq pool
  BY DEF Above, Below, Walk
<1>12. Above(t)' = above \cup {t} /\ \A x \in pool : Above(x)' = Above(x)
  <2>1. \A z \in pool : /\ t \in Below(z)' <=> z \in above
                        /\ \A x \in pool : x \in Below(z)' <=> x \in Below(z)
    <3> SUFFICES ASSUME NEW z \in pool
                 PROVE  /\ t \in Below(z)' <=> z \in above
                        /\ \A x \in pool : x \in Below(z)' <=> x \in Below(z)
      OBVIOUS
    <3>1. t \notin Below(z)
      BY <1>11
    <3>2. CASE z \in above
      BY <1>8, <3>1, <3>2
    <3>3. CASE z \notin above
      BY <1>8, <3>1, <3>3
    <3> QED
      BY <3>2, <3>3
  <2>2. t \in pool' /\ pool \subseteq pool' /\ \A z \in pool' : z = t \/ z \in pool
    BY <1>2
  <2>3. \A z \in pool' : z \in Above(t)' <=> z \in above \cup {t}
    BY <2>1, <2>2, <1>6, <1>8, <1>9
  <2>4. ASSUME NEW x \in pool PROVE Above(x)' = Above(x)
    <3>1. x \in pool' /\ x # t
      BY <2>2
    <3>2. t \notin Above(x)' /\ t \notin Above(x)
      BY <2>2, <3>1, <1>8, <1>9, <1>11
    <3>3. \A z \in pool : z \in Above(x)' <=> z \in Above(x)
      BY <2>1, <2>2, <3>1, <1>9, <1>10
    <3> QED
      BY <2>2, <3>2, <3>3, <1>11
  <2>5. Above(t)' = above \cup {t}
    BY <2>2, <2>3, <1>6, <1>11
  <2> QED
    BY <2>4, <2>5
<1>13. /\ feeDelta' \in [Tx -> Int] /\ feeDelta'[t] = mapDeltas[t]
       /\ \A x \in pool : feeDelta'[x] = feeDelta[x]
  BY SMTT(30), <1>2, <1>3
<1>14. own = SumWith(feeDelta', {t}) /\ IsFiniteSet({t}) /\ own \in Sums
  BY SMTT(30), <1>1, <1>13, SumOne, SumParts
<1>15. ASSUME NEW S \in SUBSET pool
       PROVE  /\ S \in SUBSET Tx /\ IsFiniteSet(S) /\ S \cap {t} = {} /\ {t} \in SUBSET Tx
              /\ SumWith(feeDelta', S) = SumWith(feeDelta, S)
              /\ SumWith(feeDelta', S \cup {t}) = Plus(SumWith(feeDelta, S), own)
  <2>1. S \in SUBSET Tx /\ IsFiniteSet(S) /\ S \cap {t} = {} /\ {t} \in SUBSET Tx
    BY <1>3, FS_Subset
  <2>2. \A x \in S : feeDelta[x] = feeDelta'[x]
    BY <1>13
  <2>3. SumWith(feeDelta, S) = SumWith(feeDelta', S)
    BY SMTT(30), <2>1, <2>2, SumSame
  <2>4. SumWith(feeDelta', S \cup {t}) = Plus(SumWith(feeDelta', S), SumWith(feeDelta', {t}))
    BY SMTT(30), <2>1, <1>13, <1>14, SumUnion
  <2> QED
    BY <2>1, <2>3, <2>4, <1>14
<1>16. SumOf(above) = SumWith(feeDelta, above) /\ SumOf(above) \in Sums
  <2>1. above \in SUBSET Tx /\ IsFiniteSet(above)
    BY <1>6, <1>15
  <2> QED
    BY SMT, <2>1, <1>3, SumOfIs, SumParts
<1>17. \A a, b \in Sums : Plus(a, b) \in Sums
  BY SMT DEF Sums, Plus
<1>18. SumTypes'
  <2>1. IsFiniteSet(pool')
    <3>1. IsFiniteSet(pool \cup {t})
      BY <1>3, <1>14, FS_Union
    <3> QED
      BY <3>1, <1>2
  <2>2. desc' \in [Tx -> Sums]
    <3>1. ASSUME NEW x \in Tx
          PROVE  (IF x = t THEN own ELSE IF x \in above THEN Plus(desc[x], own) ELSE desc[x]) \in Sums
      <4>1. desc[x] \in Sums
        BY <1>3
      <4>2. Plus(desc[x], own) \in Sums
        BY <4>1, <1>14, <1>17
      <4> QED
        BY <4>1, <4>2, <1>14
    <3>2. desc' = [x \in Tx |-> IF x = t THEN own ELSE
                               IF x \in above THEN Plus(desc[x], own) ELSE desc[x]]
      BY <1>2
    <3> QED
      BY <3>1, <3>2
  <2>3. anc' \in [Tx -> Sums]
    BY SMT, <1>2, <1>3, <1>14, <1>16, <1>17
  <2>4. totalTxSize' = Total(Size, pool')
    <3>1. SumWith(feeDelta', pool \cup {t}) = Plus(SumWith(feeDelta, pool), own)
      BY <1>15
    <3> QED
      BY <3>1, <1>1, <1>2, <1>3 DEF SumWith, Plus
  <2> QED
    BY <1>13, <2>1, <2>2, <2>3, <2>4 DEF SumTypes
<1>19. ASSUME NEW x \in pool PROVE SumsAre(x, Above(x), Below(x))'
  <2>1. SumsAre(x, Above(x), Below(x)) /\ x # t /\ x \in Tx /\ Below(x) \in SUBSET pool
    BY <1>3, <1>11 DEF Plain
  <2>2. anc'[x] = anc[x]
    BY <1>2, <1>3, <2>1
  <2>3. desc'[x] = IF x \in above THEN Plus(desc[x], own) ELSE desc[x]
    BY <1>2, <2>1
  <2>4. /\ SumWith(feeDelta', Below(x)) = SumWith(feeDelta, Below(x))
        /\ SumWith(feeDelta', Below(x) \cup {t}) = Plus(SumWith(feeDelta, Below(x)), own)
    BY <2>1, <1>15
  <2>5. desc'[x] = SumWith(feeDelta', Below(x)')
    BY <2>1, <2>3, <2>4, <1>8 DEF SumsAre
  <2> QED
    BY <2>1, <2>2, <2>5, <1>12 DEF SumsAre
<1>20. SumsAre(t, Above(t), Below(t))'
  <2>1. desc'[t] = own /\ anc'[t] = Plus(own, SumOf(above))
    BY <1>2, <1>3
  <2>2. SumWith(feeDelta', above \cup {t}) = Plus(SumWith(feeDelta, above), own)
    BY <1>6, <1>15
  <2>3. anc'[t].count = SumWith(feeDelta', above \cup {t}).count
    BY SMTT(30), <2>1, <2>2, <1>14, <1>16 DEF Plus, Sums
  <2>4. anc'[t].size = SumWith(feeDelta', above \cup {t}).size
    BY SMTT(30), <2>1, <2>2, <1>14, <1>16 DEF Plus, Sums
  <2>5. anc'[t].count = Cardinality(Above(t)') /\ anc'[t].size = Total(Size, Above(t)')
    BY SMT, <2>3, <2>4, <1>12 DEF SumWith
  <2> QED
    BY <2>1, <2>5, <1>8, <1>14 DEF SumsAre
<1> QED
  BY <1>2, <1>18, <1>19, <1>20 DEF Plain

\* A fee delta goes to the entry and to all that have it below.
LEMMA SumsPrioritised ==
  ASSUME EntriesInv, SumTypes, Plain, NEW t \in Tx, NEW k \in Int,
         mapDeltas \in [Tx -> Int], t \in pool => feeDelta[t] = mapDeltas[t], Prioritise(t, k)
  PROVE  SumTypes' /\ Plain'
<1>1. UNCHANGED <<pool, parents, children, totalTxSize>>
  BY DEF Prioritise
<1>2. \A x : Above(x)' = Above(x) /\ Below(x)' = Below(x)
  BY <1>1 DEF Above, Below
<1>3. CASE t \notin pool
  <2>1. feeDelta' = feeDelta /\ desc' = desc /\ anc' = anc
    BY <1>3 DEF Prioritise
  <2>2. SumTypes'
    BY <2>1, <1>1 DEF SumTypes
  <2>3. Plain'
    BY <2>1, <1>1, <1>2 DEF Plain, SumsAre
  <2> QED
    BY <2>2, <2>3
<1>4. CASE t \in pool
  <2>1. PICK df : df = [Zero EXCEPT !.fees = k]
    OBVIOUS
  <2>2. df = [count |-> 0, size |-> 0, fees |-> k] /\ df \in Sums
    BY SMT, <2>1 DEF Zero, Sums
  <2>3. /\ pool \subseteq Tx /\ IsFiniteSet(pool) /\ feeDelta \in [Tx -> Int]
        /\ desc \in [Tx -> Sums] /\ anc \in [Tx -> Sums] /\ totalTxSize = Total(Size, pool)
    BY DEF SumTypes, EntriesInv, EntryTypes
  <2>4. /\ desc' = [x \in Tx |-> IF x = t \/ x \in CalculateMemPoolAncestors(t)
                                 THEN Plus(desc[x], df) ELSE desc[x]]
        /\ anc' = [anc EXCEPT ![t] = Plus(anc[t], df)]
        /\ feeDelta' = [feeDelta EXCEPT ![t] = mapDeltas'[t]]
        /\ mapDeltas' = [mapDeltas EXCEPT ![t] = mapDeltas[t] + k]
    BY <1>4, <2>1 DEF Prioritise
  <2>5. /\ feeDelta' \in [Tx -> Int] /\ feeDelta'[t] = feeDelta[t] + k
        /\ \A x \in pool \ {t} : feeDelta'[x] = feeDelta[x]
    BY SMTT(30), <1>4, <2>3, <2>4
  <2>6. \A a \in Sums : Plus(a, df) \in Sums /\ Plus(a, df).count = a.count /\ Plus(a, df).size = a.size
    BY SMT, <2>2 DEF Plus, Sums
  <2>7. SumTypes'
    <3>1. desc' \in [Tx -> Sums]
      BY <2>3, <2>4, <2>6
    <3>2. anc' \in [Tx -> Sums]
      BY SMT, <2>3, <2>4, <2>6
    <3> QED
      BY <3>1, <3>2, <2>3, <2>5, <1>1 DEF SumTypes
  <2>8. ASSUME NEW x \in pool PROVE SumsAre(x, Above(x), Below(x))'
    <3>1. SumsAre(x, Above(x), Below(x)) /\ x \in Tx
      BY <2>3 DEF Plain
    <3>2. anc'[x].count = anc[x].count /\ anc'[x].size = anc[x].size
      <4>1. anc[x] \in Sums /\ anc'[x] = IF x = t THEN Plus(anc[x], df) ELSE anc[x]
        BY <2>3, <2>4, <3>1
      <4> QED
        BY <4>1, <2>6
    <3>3. PICK B : B = Below(x)
      OBVIOUS
    <3>4. B \in SUBSET pool /\ B \in SUBSET Tx /\ IsFiniteSet(B)
      <4>1. B \subseteq pool
        BY <3>3 DEF Below, Walk
      <4> QED
        BY <4>1, <2>3, FS_Subset
    <3>5. (x = t \/ x \in CalculateMemPoolAncestors(t)) <=> t \in B
      BY <1>4, <3>3, Ancestry
    <3>6. desc'[x] = SumWith(feeDelta', B)
      <4>1. CASE t \in B
        <5>1. SumWith(feeDelta', B) = Plus(SumWith(feeDelta, B), [Zero EXCEPT !.fees = k])
          <6>1. \A y \in B \ {t} : feeDelta'[y] = feeDelta[y]
            BY <3>4, <2>5
          <6> QED
            BY SMTT(30), <4>1, <6>1, <2>3, <2>5, <3>4, SumShift
        <5>2. desc'[x] = Plus(desc[x], df)
          BY <4>1, <3>1, <3>5, <2>4
        <5> QED
          BY <5>1, <5>2, <2>1, <3>1, <3>3 DEF SumsAre
      <4>2. CASE t \notin B
        <5>1. \A y \in B : feeDelta[y] = feeDelta'[y]
          BY <4>2, <3>4, <2>5
        <5>2. SumWith(feeDelta, B) = SumWith(feeDelta', B)
          BY SMT, <5>1, <3>4, SumSame
        <5>3. desc'[x] = desc[x]
          BY <4>2, <3>1, <3>5, <2>4
        <5> QED
          BY <5>2, <5>3, <3>1, <3>3 DEF SumsAre
      <4> QED
        BY <4>1, <4>2
    <3> QED
      BY <3>1, <3>2, <3>3, <3>6, <1>2 DEF SumsAre
  <2> QED
    BY <2>7, <2>8, <1>1 DEF Plain
<1> QED
  BY <1>3, <1>4

-----------------------------------------------------------------------------
(* While the links of transactions that were put back are completed, those *)
(* still unlinked count only others that were put back.                    *)

Counts(x, y) == y \in Below(x) /\ (x \in Unlinked => y \in Resurrected)
CountedBelow(x) == {y \in pool : Counts(x, y)}
CountedAbove(y) == {x \in pool : Counts(x, y)}
Linking == \A x \in pool : SumsAre(x, CountedAbove(x), CountedBelow(x))

\* Counting as plain walks, when nothing else is left out.
LEMMA CountsPlain ==
  ASSUME EntriesInv, \A x \in pool : x \in Unlinked => Below(x) \subseteq Resurrected
  PROVE  \A x \in pool : CountedBelow(x) = Below(x) /\ CountedAbove(x) = Above(x)
<1> SUFFICES ASSUME NEW x \in pool
             PROVE  CountedBelow(x) = Below(x) /\ CountedAbove(x) = Above(x)
  OBVIOUS
<1>1. Below(x) \subseteq pool /\ Above(x) \subseteq pool
  BY DEF Below, Above, Walk
<1>2. CountedBelow(x) = Below(x)
  <2>1. \A y \in pool : y \in CountedBelow(x) <=> y \in Below(x)
    BY DEF CountedBelow, Counts
  <2>2. CountedBelow(x) \subseteq pool
    BY DEF CountedBelow
  <2> QED
    BY SMT, <1>1, <2>1, <2>2
<1>3. CountedAbove(x) = Above(x)
  <2>1. \A y \in pool : y \in CountedAbove(x) <=> x \in Below(y)
    BY DEF CountedAbove, Counts
  <2>2. \A y \in pool : y \in Above(x) <=> x \in Below(y)
    BY Ancestry
  <2>3. CountedAbove(x) \subseteq pool
    BY DEF CountedAbove
  <2> QED
    BY SMT, <1>1, <2>1, <2>2, <2>3
<1> QED
  BY <1>2, <1>3

\* When linking starts those put back count only each other, as they did.
LEMMA SumsAllReAdded ==
  ASSUME EntriesInv, EntriesInv', ControlInv, MinableInv, SumTypes, Plain, KidsInv, AllReAdded
  PROVE  SumTypes' /\ Linking'
<1>1. UNCHANGED entries /\ UNCHANGED vHashUpdate /\ pc' = "link" /\ pc = "readd"
  BY DEF AllReAdded
<1>2. UNCHANGED <<pool, children, parents, feeDelta, desc, anc, totalTxSize>>
  BY <1>1 DEF entries
<1>3. SumTypes' /\ \A x : Below(x)' = Below(x) /\ Above(x)' = Above(x)
  BY <1>2 DEF SumTypes, Below, Above
<1>4. Resurrected' = Resurrected /\ Unlinked' \subseteq Resurrected
  <2>1. Resurrected' = Range(vHashUpdate) /\ Resurrected = Range(vHashUpdate)
    BY <1>1 DEF Resurrected, Returning
  <2>2. {vHashUpdate[k] : k \in 1..Len(vHashUpdate)} = Range(vHashUpdate)
    <3>1. DOMAIN vHashUpdate = 1..Len(vHashUpdate)
      BY SMT DEF ControlInv, ControlTypes
    <3> QED
      BY <3>1 DEF Range
  <2>3. linkAt' = Len(vHashUpdate)
    BY DEF AllReAdded
  <2> QED
    BY <2>1, <2>2, <2>3, <1>1 DEF Unlinked
<1>5. ASSUME NEW x \in Resurrected PROVE Below(x) \subseteq Resurrected
  <2>1. x \in pool /\ Resurrected \in SUBSET pool
    BY DEF MinableInv, ReorgInv
  <2>2. StaysIn(pool, children)
    BY GraphFacts
  <2>3. PICK R : R = Resurrected
    OBVIOUS
  <2>4. R \in SUBSET pool /\ x \in R /\ \A u \in R : children[u] \subseteq R
    BY <2>1, <2>3 DEF KidsInv
  <2> QED
    BY <2>1, <2>2, <2>3, <2>4, WalkLeast DEF Below
<1>6. \A x \in pool' : CountedBelow(x)' = Below(x)' /\ CountedAbove(x)' = Above(x)'
  <2>1. \A x \in pool' : x \in Unlinked' => Below(x)' \subseteq Resurrected'
    BY <1>3, <1>4, <1>5
  <2> SUFFICES ASSUME NEW x \in pool'
               PROVE  CountedBelow(x)' = Below(x)' /\ CountedAbove(x)' = Above(x)'
    OBVIOUS
  <2>2. Below(x)' \subseteq pool' /\ Above(x)' \subseteq pool'
    BY DEF Below, Above, Walk
  <2>3. \A y \in pool' : y \in CountedBelow(x)' <=> y \in Below(x)'
    BY <2>1 DEF CountedBelow, Counts
  <2>4. \A y \in pool' : y \in CountedAbove(x)' <=> x \in Below(y)'
    BY <2>1 DEF CountedAbove, Counts
  <2>5. \A y \in pool' : y \in Above(x)' <=> x \in Below(y)'
    BY <1>2, <1>3, Ancestry
  <2>6. CountedBelow(x)' \subseteq pool' /\ CountedAbove(x)' \subseteq pool'
    BY DEF CountedBelow, CountedAbove
  <2> QED
    BY <2>2, <2>3, <2>4, <2>5, <2>6
<1>7. ASSUME NEW x \in pool' PROVE SumsAre(x, CountedAbove(x), CountedBelow(x))'
  <2>1. SumsAre(x, Above(x), Below(x))
    BY <1>2 DEF Plain
  <2> QED
    BY <2>1, <1>2, <1>3, <1>6 DEF SumsAre
<1> QED
  BY <1>3, <1>7 DEF Linking

\* When it ends nothing is left out.
LEMMA SumsAllLinked ==
  ASSUME EntriesInv, SumTypes, Linking, AllLinked
  PROVE  SumTypes' /\ Plain'
<1>1. UNCHANGED entries /\ pc = "link" /\ linkAt = 0
  BY DEF AllLinked
<1>2. UNCHANGED <<pool, children, parents, feeDelta, desc, anc, totalTxSize>>
  BY <1>1 DEF entries
<1>3. SumTypes' /\ \A x : Below(x)' = Below(x) /\ Above(x)' = Above(x)
  BY <1>2 DEF SumTypes, Below, Above
<1>4. Unlinked = {}
  <2>1. 1..0 = {}
    BY SMT
  <2> QED
    BY <2>1, <1>1 DEF Unlinked
<1>5. \A x \in pool : CountedBelow(x) = Below(x) /\ CountedAbove(x) = Above(x)
  BY <1>4, CountsPlain
<1>6. ASSUME NEW x \in pool' PROVE SumsAre(x, Above(x), Below(x))'
  <2>1. SumsAre(x, Above(x), Below(x))
    BY <1>2, <1>5 DEF Linking
  <2> QED
    BY <2>1, <1>2, <1>3 DEF SumsAre
<1> QED
  BY <1>3, <1>6 DEF Plain

\* Where the linking of the next transaction starts from.
LEMMA LinkOrder ==
  ASSUME EntriesInv, ControlInv, MinableInv, OrderInv, UpdateTransactionsFromBlock,
         NEW t, t = vHashUpdate[linkAt]
  PROVE  /\ t \in Resurrected /\ t \in Unlinked /\ t \notin Unlinked' /\ Unlinked = Unlinked' \cup {t}
         /\ Resurrected = Range(vHashUpdate) /\ Resurrected' = Resurrected
         /\ Unlinked \subseteq Resurrected /\ Resurrected \subseteq pool
         /\ \A y \in pool \ Resurrected : children[y] \cap Resurrected = {}
         /\ \A y \in pool \ Unlinked : children[y] \cap Unlinked = {}
<1>1. /\ pc = "link" /\ pc' = "link" /\ vHashUpdate' = vHashUpdate /\ linkAt > 0 /\ linkAt' = linkAt - 1
  BY DEF UpdateTransactionsFromBlock
<1>2. vHashUpdate \in Seq(Tx) /\ linkAt \in Nat /\ linkAt <= Len(vHashUpdate)
  BY <1>1 DEF ControlInv, ControlTypes, Phases
<1>3. /\ Resurrected = Range(vHashUpdate) /\ Resurrected' = Resurrected
      /\ Unlinked = {vHashUpdate[i] : i \in 1..linkAt} /\ Unlinked' = {vHashUpdate[i] : i \in 1..linkAt'}
  BY <1>1 DEF Resurrected, Unlinked, Returning
<1>4. /\ DOMAIN vHashUpdate = 1..Len(vHashUpdate) /\ linkAt \in 1..linkAt /\ linkAt \notin 1..linkAt'
      /\ \A i \in 1..linkAt : i \in 1..Len(vHashUpdate) /\ (i \in 1..linkAt' \/ i = linkAt)
      /\ \A i \in 1..linkAt' : i \in 1..linkAt
      /\ \A i \in 1..linkAt, j \in 1..Len(vHashUpdate) : j < i => j \in 1..linkAt
  BY SMT, <1>1, <1>2
<1>5. Unlinked \subseteq Resurrected /\ t \in Unlinked /\ Unlinked = Unlinked' \cup {t}
  <2>1. Unlinked \subseteq Resurrected /\ t \in Unlinked
    BY <1>3, <1>4 DEF Range
  <2>2. \A y : y \in Unlinked <=> y \in Unlinked' \cup {t}
    BY <1>3, <1>4
  <2> QED
    BY SMT, <2>1, <2>2
<1>6. t \notin Unlinked'
  BY <1>3, <1>4 DEF OrderInv
<1>7. Resurrected \subseteq pool /\ pool \subseteq Tx
  BY DEF MinableInv, ReorgInv, EntriesInv, EntryTypes
<1>8. ASSUME NEW y \in pool, NEW c \in children[y] PROVE Spends(c, y) /\ c \in pool
  <2>1. y \in Tx /\ c \in Tx
    BY <1>7 DEF EntriesInv, EntryTypes
  <2> QED
    BY <2>1 DEF EntriesInv, LinksAgree
<1>9. ASSUME NEW y \in pool, NEW c \in children[y], c \in Resurrected PROVE y \in Resurrected
  <2>1. y \in Resurrected \cup Coin \cup Confirmed
    <3>1. PICK o \in Inputs[c] : o[1] = y
      BY <1>8 DEF Spends
    <3> QED
      BY <3>1, <1>9 DEF MinableInv, ReorgInv
  <2>2. y \notin Coin
    BY <1>7, MempoolAssumption DEF MempoolAssumption
  <2>3. y \notin Confirmed
    <3>1. Range(<< >>) = {}
      BY SMT DEF Range
    <3>2. Applied = Confirmed
      BY <1>1, <3>1 DEF Applied, Pending, Left
    <3> QED
      BY <3>2 DEF MinableInv, ApartInv
  <2> QED
    BY <2>1, <2>2, <2>3
<1>10. ASSUME NEW y \in pool, NEW c \in children[y], c \in Unlinked PROVE y \in Unlinked
  <2>1. Spends(c, y) /\ y \in Resurrected
    BY <1>5, <1>8, <1>9, <1>10
  <2>2. PICK i \in 1..linkAt : c = vHashUpdate[i]
    BY <1>3, <1>10
  <2>3. PICK j \in 1..Len(vHashUpdate) : y = vHashUpdate[j]
    BY <2>1, <1>3, <1>4 DEF Range
  <2>4. j < i
    BY <2>1, <2>2, <2>3, <1>4 DEF OrderInv
  <2> QED
    BY <2>3, <2>4, <1>3, <1>4
<1> QED
  BY <1>3, <1>5, <1>6, <1>7, <1>9, <1>10

\* K has more links than L from t in U, to what is outside R; R and U are not linked to.
LinksOut(P, L, K, R, U, t) ==
  /\ StaysIn(P, L) /\ StaysIn(P, K) /\ R \subseteq P /\ U \subseteq R /\ t \in U
  /\ (\A u \in P \ {t} : K[u] = L[u]) /\ L[t] \subseteq K[t] /\ (K[t] \ L[t]) \cap R = {}
  /\ (\A y \in P \ R : L[y] \cap R = {}) /\ (\A y \in P \ U : L[y] \cap U = {})

\* Walks from outside U are the same, and all find the same of R.
SameWalks(P, L, K, R, U) ==
  /\ \A x \in P \ U : Walk(P, K, x) = Walk(P, L, x)
  /\ \A x \in P : Walk(P, K, x) \cap R = Walk(P, L, x) \cap R

\* What stays when t is linked to its other children.
LEMMA LinkWalks ==
  ASSUME NEW P, NEW L, NEW K, NEW R, NEW U, NEW t, LinksOut(P, L, K, R, U, t)
  PROVE  SameWalks(P, L, K, R, U)
<1> /\ StaysIn(P, L) /\ StaysIn(P, K) /\ R \in SUBSET P /\ U \in SUBSET R /\ t \in U
    /\ L[t] \subseteq K[t] /\ (K[t] \ L[t]) \cap R = {}
  BY DEF LinksOut
<1> \A u \in P \ {t} : K[u] = L[u]
  BY DEF LinksOut
<1> \A y \in P \ R : L[y] \cap R = {}
  BY DEF LinksOut
<1> \A y \in P \ U : L[y] \cap U = {}
  BY DEF LinksOut
<1>1. t \in P /\ t \in R
  OBVIOUS
<1>2. ASSUME NEW x \in P \ U PROVE Walk(P, K, x) = Walk(P, L, x)
  <2>1. PICK C : C = P \ U
    OBVIOUS
  <2>2. C \in SUBSET P /\ x \in C /\ \A u \in C : L[u] \subseteq C
    BY <2>1 DEF StaysIn
  <2>3. Walk(P, L, x) \subseteq C
    BY <2>2, WalkLeast
  <2>4. t \notin Walk(P, L, x) /\ x \in P
    BY <2>1, <2>3
  <2> QED
    BY SMT, <2>4, <1>1, WalkMore
<1>3. ASSUME NEW x \in P PROVE Walk(P, K, x) \cap R = Walk(P, L, x) \cap R
  <2>1. Walk(P, L, x) \subseteq Walk(P, K, x)
    BY SMT, <1>1, WalkMore
  <2>2. PICK W : W = Walk(P, L, x)
    OBVIOUS
  <2>3. W \subseteq P /\ x \in W /\ \A u \in W : L[u] \subseteq W
    BY <2>2, WalkLeast
  <2>4. PICK C : C = W \cup (P \ R)
    OBVIOUS
  <2>5. ASSUME NEW u \in C, NEW v \in K[u] PROVE v \in C
    <3>1. u \in P /\ v \in P
      BY <2>3, <2>4 DEF StaysIn
    <3>2. v \in L[u] \/ v \notin R
      BY <3>1
    <3>3. u \in W \/ u \in P \ R
      BY <2>4
    <3> QED
      BY <3>1, <3>2, <3>3, <2>3, <2>4
  <2>6. C \in SUBSET P /\ x \in C /\ \A u \in C : K[u] \subseteq C
    BY <2>3, <2>4, <2>5
  <2>7. Walk(P, K, x) \subseteq C
    BY <2>6, WalkLeast
  <2> QED
    BY <2>1, <2>2, <2>4, <2>7
<1> QED
  BY <1>2, <1>3 DEF SameWalks

\* What a transaction counts changes for t alone, by what is below it.
LEMMA LinkCounts ==
  ASSUME EntriesInv, EntriesInv', ControlInv, MinableInv, OrderInv, UpdateTransactionsFromBlock,
         NEW t, t = vHashUpdate[linkAt], NEW below, below = Reach(children', {t}) \ (Range(vHashUpdate) \cup {t}),
         Links(t)
  PROVE  /\ below \subseteq pool
         /\ \A x, y \in pool : Counts(x, y)' <=> Counts(x, y) \/ (x = t /\ y \in below)
         /\ \A y \in below : ~Counts(t, y)
<1>1. PICK R, U : R = Resurrected /\ U = Unlinked
  OBVIOUS
<1>2. /\ t \in R /\ t \in U /\ t \notin Unlinked' /\ U = Unlinked' \cup {t}
      /\ R = Range(vHashUpdate) /\ Resurrected' = R
      /\ U \subseteq R /\ R \subseteq pool
      /\ \A y \in pool \ R : children[y] \cap R = {}
      /\ \A y \in pool \ U : children[y] \cap U = {}
  BY <1>1, LinkOrder
<1>3. pool \subseteq Tx /\ pool' = pool /\ StaysIn(pool, children) /\ t \in pool /\ t \in Tx
  BY <1>2, GraphFacts DEF Links
<1>4. StaysIn(pool, children')
  BY <1>3, GraphFactsNext
<1>5. /\ \A u \in pool \ {t} : children'[u] = children[u]
      /\ children'[t] = children[t] \cup Kids(t) /\ Kids(t) \cap R = {}
  <2>1. children \in [Tx -> SUBSET Tx] /\ children' = [children EXCEPT ![t] = children[t] \cup Kids(t)]
    BY DEF EntriesInv, EntryTypes, Links
  <2>2. Kids(t) \cap R = {}
    BY <1>2 DEF Kids
  <2> QED
    BY <2>1, <2>2, <1>3
<1>6. /\ \A x \in pool \ U : Walk(pool, children', x) = Walk(pool, children, x)
      /\ \A x \in pool : Walk(pool, children', x) \cap R = Walk(pool, children, x) \cap R
  <2>1. children[t] \subseteq children'[t] /\ (children'[t] \ children[t]) \cap R = {}
    BY <1>5
  <2>2. LinksOut(pool, children, children', R, U, t)
    BY <1>2, <1>3, <1>4, <1>5, <2>1 DEF LinksOut
  <2>3. SameWalks(pool, children, children', R, U)
    BY <2>2, LinkWalks
  <2> QED
    BY <2>3 DEF SameWalks
<1>7. /\ \A x \in pool \ U : Below(x)' = Below(x)
      /\ \A x \in pool : \A y \in R : y \in Below(x)' <=> y \in Below(x)
  BY <1>3, <1>6 DEF Below
<1>8. \A y : y \in below <=> y \in Below(t)' /\ y \notin R
  <2>1. Reach(children', {t}) = {y \in pool : \E s \in {t} : y \in Walk(pool, children', s)}
    <3>1. {t} \in SUBSET pool
      BY <1>3
    <3> QED
      BY SMT, <3>1, <1>4, ReachWalk
  <2>2. PICK W : W = Walk(pool, children', t)
    OBVIOUS
  <2>3. W \subseteq pool /\ Below(t)' = W /\ t \in R
    BY <2>2, <1>2, <1>3 DEF Below, Walk
  <2>4. \A y : y \in Reach(children', {t}) <=> y \in W
    BY <2>1, <2>2, <2>3
  <2> QED
    BY <2>3, <2>4, <1>2
<1>9. below \subseteq pool
  BY <1>3, <1>8 DEF Below, Walk
<1>10. ASSUME NEW x \in pool, NEW y \in pool
       PROVE  Counts(x, y)' <=> Counts(x, y) \/ (x = t /\ y \in below)
  <2>1. /\ Counts(x, y)' <=> y \in Below(x)' /\ (x \in Unlinked' => y \in R)
        /\ Counts(x, y) <=> y \in Below(x) /\ (x \in U => y \in R)
    BY <1>1, <1>2 DEF Counts
  <2>2. CASE x \notin U
    BY <2>1, <2>2, <1>2, <1>7
  <2>3. CASE x \in Unlinked'
    BY <2>1, <2>3, <1>2, <1>7
  <2>4. CASE x = t
    BY <2>1, <2>4, <1>2, <1>7, <1>8
  <2> QED
    BY <2>2, <2>3, <2>4, <1>2
<1>11. \A y \in below : ~Counts(t, y)
  BY <1>1, <1>2, <1>8 DEF Counts
<1> QED
  BY <1>9, <1>10, <1>11

\* UpdateTransactionsFromBlock adds to the sums what is counted from now on.
LEMMA SumsLinked ==
  ASSUME EntriesInv, EntriesInv', ControlInv, MinableInv, OrderInv, SumTypes, Linking,
         UpdateTransactionsFromBlock
  PROVE  SumTypes' /\ Linking'
<1>1. PICK t : t = vHashUpdate[linkAt]
  OBVIOUS
<1>2. t \in pool /\ t \in Tx /\ pool \subseteq Tx
  <2>1. t \in Resurrected /\ Resurrected \subseteq pool
    BY <1>1, LinkOrder
  <2> QED
    BY <2>1 DEF EntriesInv, EntryTypes
<1>3. Links(t) /\ UNCHANGED <<pool, feeDelta, totalTxSize>>
  <2>1. Links(t)
    BY <1>1, <1>2 DEF UpdateTransactionsFromBlock, Links, Kids
  <2> QED
    BY <2>1 DEF UpdateTransactionsFromBlock
<1>4. PICK below, own :
        /\ below = Reach(children', {t}) \ (Range(vHashUpdate) \cup {t})
        /\ own = [count |-> 1, size |-> Size[t], fees |-> GetModifiedFee(t)]
  OBVIOUS
<1>5. /\ desc' = [desc EXCEPT ![t] = Plus(desc[t], SumOf(below))]
      /\ anc' = [x \in Tx |-> IF x \in below THEN Plus(anc[x], own) ELSE anc[x]]
  BY <1>1, <1>2, <1>4 DEF UpdateTransactionsFromBlock
<1>6. /\ below \subseteq pool
      /\ \A x, y \in pool : Counts(x, y)' <=> Counts(x, y) \/ (x = t /\ y \in below)
      /\ \A y \in below : ~Counts(t, y)
  <2>1. below = Reach(children', {t}) \ (Range(vHashUpdate) \cup {t})
    BY <1>4
  <2> QED
    BY SMTT(30), <1>1, <1>3, <2>1, LinkCounts
<1>7. /\ IsFiniteSet(pool) /\ feeDelta \in [Tx -> Int]
      /\ desc \in [Tx -> Sums] /\ anc \in [Tx -> Sums] /\ totalTxSize = Total(Size, pool)
  BY DEF SumTypes
<1>8. \A S \in SUBSET pool : S \in SUBSET Tx /\ IsFiniteSet(S)
  BY <1>2, <1>7, FS_Subset
<1>9. SumOf(below) = SumWith(feeDelta, below) /\ SumOf(below) \in Sums
  <2>1. below \in SUBSET Tx /\ IsFiniteSet(below)
    BY <1>6, <1>8
  <2> QED
    BY SMT, <2>1, <1>7, SumOfIs, SumParts
<1>10. own = SumWith(feeDelta, {t}) /\ IsFiniteSet({t}) /\ own \in Sums /\ {t} \in SUBSET Tx
  BY <1>2, <1>4, <1>7, SumOne, SumParts DEF GetModifiedFee
<1>11. SumTypes'
  <2>1. \A a, b \in Sums : Plus(a, b) \in Sums
    BY SMT DEF Sums, Plus
  <2>2. desc' \in [Tx -> Sums]
    BY SMT, <2>1, <1>2, <1>5, <1>7, <1>9
  <2>3. anc' \in [Tx -> Sums]
    BY <2>1, <1>5, <1>7, <1>10
  <2> QED
    BY <2>2, <2>3, <1>3, <1>7 DEF SumTypes
<1>12. \A x : CountedAbove(x) \in SUBSET pool /\ CountedBelow(x) \in SUBSET pool
  BY DEF CountedAbove, CountedBelow
<1>13. ASSUME NEW x \in pool PROVE desc'[x] = SumWith(feeDelta, CountedBelow(x)')
  <2>1. PICK B, C : B = CountedBelow(x) /\ C = CountedBelow(x)'
    OBVIOUS
  <2>2. /\ \A y : y \in B <=> y \in pool /\ Counts(x, y)
        /\ \A y : y \in C <=> y \in pool /\ Counts(x, y)'
    BY <2>1, <1>3 DEF CountedBelow
  <2>3. desc[x] = SumWith(feeDelta, B)
    BY <2>1 DEF Linking, SumsAre
  <2>4. CASE x = t
    <3>1. \A y : y \in C <=> y \in B \cup below
      BY <2>2, <2>4, <1>6
    <3>2. C = B \cup below
      BY SMT, <3>1
    <3>3. B \cap below = {}
      BY <2>2, <2>4, <1>6
    <3>4. B \in SUBSET Tx /\ IsFiniteSet(B) /\ below \in SUBSET Tx /\ IsFiniteSet(below)
      BY <2>1, <1>6, <1>8, <1>12
    <3>5. SumWith(feeDelta, B \cup below) = Plus(SumWith(feeDelta, B), SumWith(feeDelta, below))
      BY SMTT(30), <3>3, <3>4, <1>7, SumUnion
    <3>6. desc'[x] = Plus(desc[x], SumOf(below))
      BY <2>4, <1>2, <1>5, <1>7
    <3> QED
      BY <3>2, <3>5, <3>6, <2>1, <2>3, <1>9
  <2>5. CASE x # t
    <3>1. \A y : y \in C <=> y \in B
      BY <2>2, <2>5, <1>6
    <3>2. C = B
      BY SMT, <3>1
    <3>3. desc'[x] = desc[x]
      BY <2>5, <1>2, <1>5, <1>7
    <3> QED
      BY <3>2, <3>3, <2>1, <2>3
  <2> QED
    BY <2>4, <2>5
<1>14. ASSUME NEW x \in pool
       PROVE  anc'[x].count = Cardinality(CountedAbove(x)') /\ anc'[x].size = Total(Size, CountedAbove(x)')
  <2>1. PICK A, C : A = CountedAbove(x) /\ C = CountedAbove(x)'
    OBVIOUS
  <2>2. /\ \A y : y \in A <=> y \in pool /\ Counts(y, x)
        /\ \A y : y \in C <=> y \in pool /\ Counts(y, x)'
    BY <2>1, <1>3 DEF CountedAbove
  <2>3. anc[x].count = Cardinality(A) /\ anc[x].size = Total(Size, A)
    BY <2>1 DEF Linking, SumsAre
  <2>4. anc'[x] = IF x \in below THEN Plus(anc[x], own) ELSE anc[x]
    BY <1>2, <1>5
  <2>5. CASE x \in below
    <3>1. \A y : y \in C <=> y \in A \cup {t}
      BY <2>2, <2>5, <1>2, <1>6
    <3>2. C = A \cup {t}
      BY SMT, <3>1
    <3>3. A \cap {t} = {}
      BY <2>2, <2>5, <1>6
    <3>4. A \in SUBSET Tx /\ IsFiniteSet(A)
      BY <2>1, <1>8, <1>12
    <3>5. SumWith(feeDelta, A \cup {t}) = Plus(SumWith(feeDelta, A), SumWith(feeDelta, {t}))
      BY SMTT(30), <3>3, <3>4, <1>7, <1>10, SumUnion
    <3>6. PICK a, b : a = SumWith(feeDelta, A) /\ b = anc[x]
      OBVIOUS
    <3>7. b.count = a.count /\ b.size = a.size
      BY SMTT(30), <2>3, <3>6 DEF SumWith
    <3>8. Plus(b, own).count = Plus(a, own).count /\ Plus(b, own).size = Plus(a, own).size
      BY SMT, <3>7, SumFields
    <3>9. anc'[x].count = SumWith(feeDelta, C).count /\ anc'[x].size = SumWith(feeDelta, C).size
      BY <2>4, <2>5, <3>2, <3>5, <3>6, <3>8, <1>10
    <3>10. SumWith(feeDelta, C).count = Cardinality(C) /\ SumWith(feeDelta, C).size = Total(Size, C)
      BY SMT DEF SumWith
    <3> QED
      BY <3>9, <3>10, <2>1
  <2>6. CASE x \notin below
    <3>1. \A y : y \in C <=> y \in A
      BY <2>2, <2>6, <1>6
    <3>2. C = A
      BY SMT, <3>1
    <3> QED
      BY <3>2, <2>1, <2>3, <2>4, <2>6
  <2> QED
    BY <2>5, <2>6
<1>15. ASSUME NEW x \in pool' PROVE SumsAre(x, CountedAbove(x), CountedBelow(x))'
  BY <1>3, <1>13, <1>14 DEF SumsAre
<1> QED
  BY <1>11, <1>15 DEF Linking

-----------------------------------------------------------------------------
(* The inductive invariant: the sums are exact at every step but those     *)
(* that link what was put back, where Linking says what they leave out.    *)
SumsInv ==
  /\ SumTypes
  /\ pc # "link" => Plain
  /\ pc = "link" => Linking

\* The entries stay as they are.
LEMMA SumsKept ==
  ASSUME SumTypes, Plain, UNCHANGED entries
  PROVE  SumTypes' /\ Plain'
<1>1. UNCHANGED <<pool, feeDelta, desc, anc, parents, children, totalTxSize>>
  BY DEF entries
<1> QED
  BY <1>1 DEF SumTypes, Plain, SumsAre, Above, Below

\* Linking, a step that does nothing and each operation keep the invariant.
LEMMA SumsStep ==
  ASSUME EntriesInv, EntriesInv', ControlInv, MinableInv, BackInv, SumsInv,
         Linkings \/ UNCHANGED vars \/ (OneOperation /\ pc # "link" /\ pc' # "link")
  PROVE  SumsInv'
<1>1. CASE OneOperation /\ pc # "link" /\ pc' # "link"
  <2>1. SumTypes /\ Plain /\ mapDeltas \in [Tx -> Int] /\ \A t \in pool : feeDelta[t] = mapDeltas[t]
    BY <1>1 DEF SumsInv, BackInv, DeltasInv
  <2>2. ASSUME NEW D, Closed(D), RemoveStaged(D, FALSE) PROVE SumTypes' /\ Plain'
    BY <2>1, <2>2, SumsRemoved
  <2>3. ASSUME NEW D, D \subseteq pool, \A x \in D : parents[x] \subseteq D, RemoveStaged(D, TRUE)
        PROVE  SumTypes' /\ Plain'
    BY <2>1, <2>3, SumsMined
  <2>4. ASSUME NEW t \in Tx, t \notin pool, NEW nTime, addUnchecked(t, nTime) PROVE SumTypes' /\ Plain'
    <3>1. mapDeltas[t] \in Int
      BY SMT, <2>1
    <3> QED
      BY <2>1, <2>4, <3>1, SumsAdded
  <2>5. ASSUME NEW t \in Tx, NEW k \in Int, Prioritise(t, k) PROVE SumTypes' /\ Plain'
    BY <2>1, <2>5, SumsPrioritised
  <2>6. CASE UNCHANGED entries
    BY <1>1, <2>1, <2>6, SumsKept DEF SumsInv
  <2> QED
    BY <1>1, <2>2, <2>3, <2>4, <2>5, <2>6 DEF OneOperation, SumsInv
<1>2. CASE AllReAdded
  <2>1. pc # "link" /\ pc' = "link"
    BY <1>2 DEF AllReAdded
  <2> QED
    BY <1>2, <2>1, SumsAllReAdded DEF SumsInv, BackInv
<1>3. CASE UpdateTransactionsFromBlock
  <2>1. pc = "link" /\ pc' = "link"
    BY <1>3 DEF UpdateTransactionsFromBlock
  <2> QED
    BY <1>3, <2>1, SumsLinked DEF SumsInv, BackInv
<1>4. CASE AllLinked
  <2>1. pc = "link" /\ pc' # "link"
    BY <1>4 DEF AllLinked
  <2> QED
    BY <1>4, <2>1, SumsAllLinked DEF SumsInv
<1>5. CASE UNCHANGED vars
  <2>1. UNCHANGED <<entries, pool, feeDelta, desc, anc, children, totalTxSize, pc, ret, todo, vHashUpdate, linkAt>>
    BY <1>5 DEF vars, entries, reorg
  <2>2. Resurrected' = Resurrected /\ Unlinked' = Unlinked
    BY <2>1 DEF Returning, Resurrected, Unlinked
  <2>3. SumTypes' /\ (Plain => Plain')
    BY <2>1, SumsKept DEF SumsInv, SumTypes
  <2>4. Linking => Linking'
    BY <2>1, <2>2 DEF Linking, SumsAre, CountedAbove, CountedBelow, Counts, Below
  <2> QED
    BY <2>1, <2>3, <2>4 DEF SumsInv
<1> QED
  BY <1>1, <1>2, <1>3, <1>4, <1>5 DEF Linkings
===========================================================================
