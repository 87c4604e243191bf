---------------------------- MODULE DocTreeProofs ----------------------------
(* Proofs about DocTree, for any documents and devices, batches of any     *)
(* length and any limit of a walk.                                         *)
EXTENDS DocTree, FiniteSetTheorems, WellFoundedInduction, TLAPS

(* A set of numbers has a smallest: what an induction over a walk or a     *)
(* batch rests on, the set being where the claim fails.                    *)
LEMMA SmallestNumber ==
    ASSUME NEW Bad \in SUBSET Nat, Bad # {}
    PROVE  \E m \in Bad : \A n \in Bad : m <= n
<1>1. PICK m \in Bad : \A n \in Bad : ~(<<n, m>> \in OpToRel(<, Nat))
  BY NatLessThanWellFounded, WFMin
<1>2. \A n \in Bad : <<n, m>> \in OpToRel(<, Nat) <=> n < m
  BY DEF OpToRel
<1>3. \A n \in Bad : n \in Nat /\ m \in Nat /\ ~(n < m)
  BY <1>1, <1>2
<1>4. \A n \in Bad : m <= n
  BY <1>3
<1>5. QED
  BY <1>4

(* There is what a number of steps makes of a value.                       *)
LEMMA Recursion ==
    ASSUME NEW V, NEW a \in V, NEW L \in Nat, NEW step \in [1..L -> [V -> V]]
    PROVE  \E f \in [0..L -> V] : f[0] = a /\ \A n \in 1..L : f[n] = step[n][f[n - 1]]
<1> DEFINE Is(f, m) == f[0] = a /\ \A n \in 1..m : f[n] = step[n][f[n - 1]]
           Bad == {m \in 0..L : ~ \E f \in [0..m -> V] : Is(f, m)}
<1>1. SUFFICES ASSUME Bad # {} PROVE FALSE
  <2>1. L \in 0..L
    OBVIOUS
  <2>2. QED
    BY <1>1, <2>1
<1>2. PICK m \in Bad : \A n \in Bad : m <= n
  <2>1. Bad \in SUBSET Nat
    OBVIOUS
  <2> HIDE DEF Bad
  <2>2. QED
    BY <1>1, <2>1, SmallestNumber
<1>3. m # 0
  <2>1. [n \in 0..0 |-> a] \in [0..0 -> V] /\ Is([n \in 0..0 |-> a], 0)
    OBVIOUS
  <2>2. QED
    BY <2>1, <1>2
<1>4. m - 1 \in 0..L /\ m - 1 \notin Bad /\ m \in 1..L
  BY <1>2, <1>3
<1>5. PICK f \in [0..(m - 1) -> V] : Is(f, m - 1)
  BY <1>4
<1> DEFINE g == [n \in 0..m |-> IF n = m THEN step[m][f[m - 1]] ELSE f[n]]
<1>6. g \in [0..m -> V]
  <2>1. m - 1 \in 0..(m - 1) /\ \A n \in 0..m : n # m => n \in 0..(m - 1)
    BY <1>4
  <2>2. f[m - 1] \in V /\ step[m] \in [V -> V]
    BY <1>4, <1>5, <2>1
  <2>3. step[m][f[m - 1]] \in V
    BY <2>2
  <2>4. QED
    BY <1>5, <2>1, <2>3
<1>7. Is(g, m)
  <2>1. g[0] = a
    BY <1>4, <1>5
  <2>2. ASSUME NEW n \in 1..m PROVE g[n] = step[n][g[n - 1]]
    <3>1. n \in 0..m /\ n - 1 \in 0..m /\ n - 1 # m
      BY <1>4
    <3>2. g[n - 1] = f[n - 1]
      BY <3>1
    <3>3. CASE n = m
      BY <3>1, <3>2, <3>3
    <3>4. CASE n # m
      <4>1. n \in 1..(m - 1) /\ g[n] = f[n]
        BY <1>4, <3>1, <3>4
      <4>2. QED
        BY <1>5, <3>2, <4>1
    <3>5. QED
      BY <3>3, <3>4
  <2>3. QED
    BY <2>1, <2>2
<1>8. QED
  BY <1>2, <1>6, <1>7
-----------------------------------------------------------------------------
(* A walk over a table: the start, then each parent, then NoId for good.   *)
Steps(t, u) ==
    /\ u \in [0..WalkLimit -> Ids \cup {NoId}]
    /\ \A n \in 1..WalkLimit :
          /\ u[n - 1] = NoId => u[n] = NoId
          /\ u[n - 1] # NoId => u[n] = t[u[n - 1]].parent

LEMMA Walk ==
    ASSUME NEW at, NEW t \in Tables(at), NEW i \in Ids \cup {NoId}
    PROVE  Steps(t, Up(t, i)) /\ Up(t, i)[0] = i
<1> DEFINE V == Ids \cup {NoId}
           over == [x \in V |-> IF x = NoId THEN NoId ELSE t[x].parent]
           step == [n \in 1..WalkLimit |-> over]
           Is(f) == f = [n \in 0..WalkLimit |->
                           IF n = 0 THEN i ELSE IF f[n - 1] = NoId THEN NoId ELSE t[f[n - 1]].parent]
<1>1. over \in [V -> V]
  BY DEF Tables
<1>2. step \in [1..WalkLimit -> [V -> V]] /\ WalkLimit \in Nat /\ i \in V
  BY <1>1, DocTreeAssumption
<1>3. PICK f \in [0..WalkLimit -> V] : f[0] = i /\ \A n \in 1..WalkLimit : f[n] = step[n][f[n - 1]]
  <2> HIDE DEF V, step
  <2>1. QED
    BY <1>2, Recursion
<1>4. Is(f)
  <2>1. ASSUME NEW n \in 0..WalkLimit, n # 0
        PROVE  f[n] = IF f[n - 1] = NoId THEN NoId ELSE t[f[n - 1]].parent
    <3>1. n \in 1..WalkLimit /\ n - 1 \in 0..WalkLimit
      BY <2>1, <1>2
    <3>2. f[n - 1] \in V /\ f[n] = over[f[n - 1]]
      BY <1>3, <3>1
    <3>3. QED
      BY <3>2
  <2>2. QED
    BY <1>3, <2>1
<1>5. Is(Up(t, i))
  <2>1. Up(t, i) = CHOOSE g : Is(g)
    BY DEF Up
  <2> HIDE DEF Is
  <2>2. QED
    BY <1>4, <2>1
<1>6. \A n \in 0..WalkLimit : ~(Up(t, i)[n] # f[n])
  <2> DEFINE Bad == {n \in 0..WalkLimit : Up(t, i)[n] # f[n]}
  <2>1. SUFFICES ASSUME Bad # {} PROVE FALSE
    OBVIOUS
  <2>2. PICK m \in Bad : \A n \in Bad : m <= n
    <3>1. Bad \in SUBSET Nat
      OBVIOUS
    <3> HIDE DEF Bad
    <3>2. QED
      BY <2>1, <3>1, SmallestNumber
  <2>3. m # 0 /\ m \in 0..WalkLimit
    BY <1>2, <1>3, <1>5, <2>2
  <2>4. m - 1 \in 0..WalkLimit /\ m - 1 \notin Bad
    <3>1. m - 1 \in 0..WalkLimit /\ ~(m <= m - 1)
      BY <2>3, <1>2
    <3>2. m - 1 \in Bad => m <= m - 1
      BY <2>2
    <3>3. QED
      BY <3>1, <3>2
  <2>5. Up(t, i)[m - 1] = f[m - 1]
    BY <2>4
  <2>6. Up(t, i)[m] = f[m]
    BY <1>4, <1>5, <2>3, <2>5
  <2>7. QED
    BY <2>2, <2>6
<1>7. DOMAIN Up(t, i) = 0..WalkLimit /\ Up(t, i) = [n \in 0..WalkLimit |-> Up(t, i)[n]]
  BY <1>5
<1>8. Up(t, i) = f
  BY <1>3, <1>6, <1>7
<1>9. Steps(t, f)
  <2>1. ASSUME NEW n \in 1..WalkLimit
        PROVE  /\ f[n - 1] = NoId => f[n] = NoId
               /\ f[n - 1] # NoId => f[n] = t[f[n - 1]].parent
    <3>1. n \in 0..WalkLimit /\ n # 0
      OBVIOUS
    <3>2. f[n] = IF f[n - 1] = NoId THEN NoId ELSE t[f[n - 1]].parent
      BY <1>4, <3>1
    <3>3. QED
      BY <3>2
  <2>2. QED
    BY <1>3, <2>1 DEF Steps
<1>10. QED
  BY <1>3, <1>8, <1>9

(* What holds at first and at each step of a sequence holds at its end.    *)
LEMMA Through ==
    ASSUME NEW C \in Nat, NEW f, NEW G, f[0] \in G[0],
           \A n \in 1..C : f[n - 1] \in G[n - 1] => f[n] \in G[n]
    PROVE  \A n \in 0..C : f[n] \in G[n]
<1> DEFINE Bad == {n \in 0..C : f[n] \notin G[n]}
<1>1. SUFFICES ASSUME Bad # {} PROVE FALSE
  OBVIOUS
<1>2. PICK m \in Bad : \A n \in Bad : m <= n
  <2>1. Bad \in SUBSET Nat
    OBVIOUS
  <2> HIDE DEF Bad
  <2>2. QED
    BY <1>1, <2>1, SmallestNumber
<1>3. m \in 1..C /\ f[m] \notin G[m]
  BY <1>2
<1>4. m - 1 \in 0..C /\ ~(m <= m - 1)
  BY <1>3
<1>5. m - 1 \notin Bad
  BY <1>2, <1>4
<1>6. f[m - 1] \in G[m - 1]
  BY <1>4, <1>5
<1>7. QED
  BY <1>3, <1>6

-----------------------------------------------------------------------------
(* What holds of the table besides its types.  M: what was made out of its *)
(* place, or is to be by the batch that is being replayed.                 *)

Rooted(t) ==
    \A i \in Ids : /\ ~t[i].there => t[i].parent = NoId /\ ~t[i].space
                   /\ t[i].parent # NoId => t[t[i].parent].there

Placed(t, M) ==
    \A i \in Ids : t[i].there /\ i \notin M =>
        IF t[i].space THEN t[i].parent = NoId ELSE t[i].parent = NoId => t[i].structTs = 0

(* A walk up to a Space misses nothing that is above.                      *)
Level(t, M) == (\A i \in M : ~t[i].space) \/ Cardinality(Ids) <= WalkLimit

Tree(t, M) == Placed(t, M) /\ (Level(t, M) => NoneUnderItself(t))

(* The way up from a parent to a Space at the root leaves any set of       *)
(* documents it is in, and not at a document it does not pass.             *)
LEMMA Climb ==
    ASSUME NEW at, NEW t \in Tables(at), NEW M \in SUBSET Ids, Placed(t, M),
           \A x \in M : ~t[x].space, NEW i \in Ids, NEW p \in Ids,
           i \notin Above(t, p), InSpace(t, p), NEW S \in SUBSET Ids, p \in S
    PROVE  \E x \in S : x # i /\ t[x].parent \notin S
<1> DEFINE u == Up(t, p)
<1>1. Steps(t, u) /\ u[0] = p
  BY Walk
<1>2. Above(t, p) = {u[n] : n \in 0..(WalkLimit - 1)} \ {NoId}
  BY DEF Above
<1>3. PICK n \in 0..(WalkLimit - 1) :
         (\A m \in 0..n : u[m] # NoId /\ t[u[m]].there) /\ t[u[n]].space
  BY DEF InSpace
<1> HIDE DEF u
<1>4. n \in Nat /\ n \in 0..WalkLimit /\ n <= WalkLimit - 1 /\ WalkLimit \in Nat
  BY DocTreeAssumption
<1> DEFINE K == {k \in 0..n : u[n - k] \in S}
<1>5. n \in K
  <2>1. n - n = 0 /\ n \in 0..n
    BY <1>4
  <2>2. QED
    BY <1>1, <2>1
<1>6. PICK k \in K : \A j \in K : k <= j
  <2>1. K \in SUBSET Nat
    BY <1>4
  <2>0. K # {}
    BY <1>5
  <2> HIDE DEF K
  <2>2. QED
    BY <2>0, <2>1, SmallestNumber
<1>7. k \in 0..n /\ u[n - k] \in S /\ n - k \in 0..(WalkLimit - 1)
  BY <1>4, <1>6
<1>8. u[n - k] # NoId /\ u[n - k] # i
  BY <1>2, <1>7, DocTreeAssumption
<1>9. t[u[n - k]].parent \notin S
  <2>1. CASE k = 0
    <3>1. n - k = n /\ n \in 0..n
      BY <1>4, <2>1
    <3>2. u[n] \in Ids /\ t[u[n]].there /\ t[u[n]].space
      BY <1>3, <1>7, <3>1
    <3>3. t[u[n]].parent = NoId
      BY <3>2 DEF Placed
    <3>4. QED
      BY <3>1, <3>3, DocTreeAssumption
  <2>2. CASE k # 0
    <3>1. k - 1 \in 0..n /\ ~(k <= k - 1)
      BY <1>7, <2>2, <1>4
    <3>2. u[n - (k - 1)] \notin S
      BY <1>6, <3>1
    <3>3. n - (k - 1) \in 1..WalkLimit /\ (n - (k - 1)) - 1 = n - k
      BY <1>4, <1>7, <2>2
    <3>4. u[n - (k - 1)] = t[u[n - k]].parent
      BY <1>1, <1>8, <3>3 DEF Steps
    <3>5. QED
      BY <3>2, <3>4
  <2>3. QED
    BY <2>1, <2>2
<1>10. QED
  BY <1>7, <1>8, <1>9

(* As does a walk that is long enough to meet every document.              *)
LEMMA LongWalk ==
    ASSUME NEW at, NEW t \in Tables(at), NoneUnderItself(t), Cardinality(Ids) <= WalkLimit,
           NEW i \in Ids, NEW p \in Ids, i \notin Above(t, p), NEW S \in SUBSET Ids, p \in S
    PROVE  \E x \in S : x # i /\ t[x].parent \notin S
<1> DEFINE u == Up(t, p)
           L == WalkLimit - 1
<1>1. SUFFICES ASSUME \A x \in S : x # i => t[x].parent \in S PROVE FALSE
  OBVIOUS
<1>2. Steps(t, u) /\ u[0] = p
  BY Walk
<1>3. Above(t, p) = {u[n] : n \in 0..L} \ {NoId}
  BY DEF Above
<1> HIDE DEF u
<1>4. /\ IsFiniteSet(Ids) /\ WalkLimit \in Nat /\ Cardinality(Ids) \in Nat
      /\ Cardinality(Ids \ {i}) = Cardinality(Ids) - 1 /\ IsFiniteSet(Ids \ {i})
      /\ Cardinality(Ids \ {i}) \in Nat
  BY DocTreeAssumption, FS_CardinalityType, FS_RemoveElement
<1>5. L \in Nat /\ 0 \in 0..L
  BY <1>4
<1> DEFINE In == [n \in 0..L |-> S \ {i}]
<1>6. u[0] \in In[0]
  <2>1. p # NoId
    BY DocTreeAssumption
  <2>2. QED
    BY <1>2, <1>3, <1>5, <2>1
<1>7. ASSUME NEW n \in 1..L, u[n - 1] \in In[n - 1] PROVE u[n] \in In[n]
  <2>1. n \in 1..WalkLimit /\ n \in 0..L /\ n - 1 \in 0..L
    BY <1>4
  <2>2. u[n - 1] \in S /\ u[n - 1] # i
    BY <1>7, <2>1
  <2>3. u[n] = t[u[n - 1]].parent
    BY <1>2, <2>1, <2>2, DocTreeAssumption DEF Steps
  <2>4. u[n] \in S
    BY <1>1, <2>2, <2>3
  <2>5. u[n] # i
    BY <1>3, <2>1, <2>4, DocTreeAssumption
  <2>6. QED
    BY <2>1, <2>4, <2>5
<1> HIDE DEF L
<1>8. \A n \in 0..L : u[n] \in In[n]
  <2> HIDE DEF In
  <2>1. QED
    BY <1>5, <1>6, <1>7, Through
<1>9. \A n \in 0..L : u[n] \in S /\ u[n] # i
  BY <1>8
<1> DEFINE f == [n \in 0..L |-> u[n]]
<1>10. f \in [0..L -> Ids \ {i}]
  BY <1>9
<1>11. PICK x, y \in 0..L : x # y /\ f[x] = f[y]
  <2>1. IsFiniteSet(0..L) /\ Cardinality(0..L) = L + 1
    BY <1>5, FS_Interval
  <2>2. Cardinality(Ids \ {i}) < Cardinality(0..L)
    BY <1>4, <2>1 DEF L
  <2> HIDE DEF f
  <2>3. QED
    BY <1>4, <1>10, <2>1, <2>2, FS_PigeonHole
<1>12. PICK a, c \in 0..L : a < c /\ u[a] = u[c]
  BY <1>5, <1>11
<1> DEFINE Loop == {u[n] : n \in a..(c - 1)}
<1>13. ASSUME NEW n \in a..(c - 1) PROVE u[n] \in Ids /\ t[u[n]].parent \in Loop
  <2>1. n \in 0..L /\ n + 1 \in 1..WalkLimit /\ (n + 1) - 1 = n /\ a \in a..(c - 1)
    BY <1>4, <1>5, <1>12 DEF L
  <2>2. u[n] \in Ids /\ u[n] # NoId
    BY <1>9, <2>1, DocTreeAssumption
  <2>3. u[n + 1] = t[u[n]].parent
    BY <1>2, <2>1, <2>2 DEF Steps
  <2>4. CASE n = c - 1
    <3>1. n + 1 = c
      BY <1>5, <1>12, <2>4
    <3>2. QED
      BY <1>12, <2>1, <2>2, <2>3, <3>1
  <2>5. CASE n # c - 1
    <3>1. n + 1 \in a..(c - 1)
      BY <1>5, <1>12, <2>5
    <3>2. QED
      BY <2>2, <2>3, <3>1
  <2>6. QED
    BY <2>4, <2>5
<1>14. Loop \in SUBSET Ids /\ Loop # {} /\ \A z \in Loop : t[z].parent \in Loop
  <2>1. a \in a..(c - 1)
    BY <1>5, <1>12
  <2>2. QED
    BY <1>13, <2>1
<1> HIDE DEF Loop
<1>15. QED
  BY <1>14 DEF NoneUnderItself

(* A move the check lets through.                                          *)
LEMMA MovedFounded ==
    ASSUME NEW at, NEW t \in Tables(at), NEW M \in SUBSET Ids, Tree(t, M), Level(t, M),
           NEW i \in Ids, NEW p \in Ids, NEW u, i \notin Above(t, p), InSpace(t, p),
           u[i].parent = p, \A j \in Ids \ {i} : u[j].parent = t[j].parent
    PROVE  NoneUnderItself(u)
<1> SUFFICES ASSUME NEW S \in SUBSET Ids, S # {} PROVE \E j \in S : u[j].parent \notin S
  BY DEF NoneUnderItself
<1>1. CASE i \notin S
  <2>1. PICK j \in S : t[j].parent \notin S
    BY DEF Tree, NoneUnderItself
  <2>2. QED
    BY <1>1, <2>1
<1>2. CASE i \in S /\ p \notin S
  BY <1>2
<1>3. CASE p \in S
  <2>1. PICK j \in S : j # i /\ t[j].parent \notin S
    BY <1>3, Climb, LongWalk DEF Tree, Level
  <2>2. QED
    BY <2>1
<1>4. QED
  BY <1>1, <1>2, <1>3

(* A row put under one that is there, where nothing is under it yet.       *)
LEMMA MadeFounded ==
    ASSUME NEW t, NoneUnderItself(t), NEW i \in Ids, NEW p, p # i, NEW u,
           \A j \in Ids : t[j].parent # i,
           u[i].parent = p, \A j \in Ids \ {i} : u[j].parent = t[j].parent
    PROVE  NoneUnderItself(u)
<1> SUFFICES ASSUME NEW S \in SUBSET Ids, S # {} PROVE \E j \in S : u[j].parent \notin S
  BY DEF NoneUnderItself
<1>1. CASE S \ {i} # {}
  <2>1. PICK j \in S \ {i} : t[j].parent \notin S \ {i}
    BY <1>1 DEF NoneUnderItself
  <2>2. QED
    BY <2>1
<1>2. CASE S \ {i} = {}
  <2>1. S = {i}
    BY <1>2
  <2>2. QED
    BY <2>1
<1>3. QED
  BY <1>1, <1>2

(* A document at the root is under itself alone.                           *)
LEMMA RootAlone ==
    ASSUME NEW t, NEW j \in Ids, t[j].parent = NoId, NEW i \in Ids, j \in Subtree(t, i)
    PROVE  i = j
<1> DEFINE Others == Ids \ {j}
<1>1. SUFFICES ASSUME i # j PROVE FALSE
  OBVIOUS
<1>2. i \in Others /\ \A k \in Ids : t[k].parent \in Others => k \in Others
  BY <1>1, DocTreeAssumption
<1>3. Others \in SUBSET Ids /\ j \notin Others
  OBVIOUS
<1> HIDE DEF Others
<1>4. QED
  BY <1>2, <1>3 DEF Subtree
-----------------------------------------------------------------------------
(* A finite set with a claim that fails on some subset has a smallest one  *)
(* it fails on.                                                            *)
LEMMA SmallestSubset ==
    ASSUME NEW S, IsFiniteSet(S), NEW Bad \in SUBSET (SUBSET S), Bad # {}
    PROVE  \E T \in Bad : \A U \in Bad : U \subseteq T => U = T
<1>1. IsWellFoundedOn(StrictSubsetOrdering(S), SUBSET S)
  BY FS_StrictSubsetOrderingWellFounded, FS_FiniteSubsetsOfFinite
<1>2. PICK T \in Bad : \A U \in Bad : ~(<<U, T>> \in StrictSubsetOrdering(S))
  BY <1>1, WFMin
<1>3. QED
  BY <1>2 DEF StrictSubsetOrdering

(* A finite set can be put in the order of its elements' keys.             *)
Sorts(s, T, key) ==
    /\ \A x \in T : \E n \in DOMAIN s : s[n] = x
    /\ \A n \in DOMAIN s : \A m \in 1..(n - 1) : key[s[m]] < key[s[n]]

LEMMA SortExists ==
    ASSUME NEW S, IsFiniteSet(S), NEW B \in Nat, NEW key \in [S -> 0..B],
           \A x, y \in S : key[x] = key[y] => x = y
    PROVE  \E s \in [1..Cardinality(S) -> S] : Sorts(s, S, key)
<1> DEFINE Bad == {T \in SUBSET S : ~ \E s \in [1..Cardinality(T) -> T] : Sorts(s, T, key)}
<1>1. SUFFICES ASSUME Bad # {} PROVE FALSE
  OBVIOUS
<1>2. PICK T \in Bad : \A U \in Bad : U \subseteq T => U = T
  <2>1. Bad \in SUBSET (SUBSET S)
    OBVIOUS
  <2> HIDE DEF Bad
  <2>2. QED
    BY <1>1, <2>1, SmallestSubset
<1>3. T \in SUBSET S /\ IsFiniteSet(T) /\ Cardinality(T) \in Nat
  BY <1>2, FS_Subset, FS_CardinalityType
<1>4. T # {}
  <2>1. SUFFICES ASSUME T = {} PROVE FALSE
    OBVIOUS
  <2>2. Cardinality(T) = 0
    BY <2>1, FS_EmptySet
  <2>3. 1..Cardinality(T) = {}
    BY <2>2
  <2>4. [n \in {} |-> 0] \in [1..Cardinality(T) -> T] /\ DOMAIN [n \in {} |-> 0] = {}
    BY <2>3
  <2>5. Sorts([n \in {} |-> 0], T, key)
    BY <2>1, <2>4 DEF Sorts
  <2>6. QED
    BY <1>2, <2>4, <2>5
<1>5. PICK x \in T : \A y \in T : key[y] <= key[x]
  <2> DEFINE Left == {n \in 0..B : \E y \in T : n = B - key[y]}
  <2>1. \A y \in T : B - key[y] \in Left
    BY <1>3
  <2>2. Left \in SUBSET Nat
    OBVIOUS
  <2>3. Left # {}
    BY <1>4, <2>1
  <2>4. PICK m \in Left : \A n \in Left : m <= n
    <3> HIDE DEF Left
    <3>1. QED
      BY <2>2, <2>3, SmallestNumber
  <2>5. PICK x \in T : m = B - key[x]
    BY <2>4
  <2>6. ASSUME NEW y \in T PROVE key[y] <= key[x]
    <3>1. B - key[x] <= B - key[y]
      BY <2>1, <2>4, <2>5
    <3>2. key[x] \in Nat /\ key[y] \in Nat
      BY <1>3
    <3>3. QED
      BY <3>1, <3>2
  <2>7. QED
    BY <2>6
<1> DEFINE U == T \ {x}
           c == Cardinality(T)
<1>6. IsFiniteSet(U) /\ Cardinality(U) = c - 1 /\ c \in Nat /\ c # 0
  <2>1. IsFiniteSet(U) /\ Cardinality(U) = c - 1
    BY <1>3, <1>5, FS_RemoveElement
  <2>2. Cardinality(U) \in Nat
    BY <2>1, FS_CardinalityType
  <2>3. QED
    BY <1>3, <2>1, <2>2
<1>7. U \notin Bad /\ U \in SUBSET S
  BY <1>2, <1>3, <1>5
<1> HIDE DEF c
<1>8. PICK r \in [1..(c - 1) -> U] : Sorts(r, U, key)
  BY <1>6, <1>7
<1> DEFINE s == [n \in 1..c |-> IF n = c THEN x ELSE r[n]]
<1>9. s \in [1..c -> T]
  <2>1. \A n \in 1..c : n # c => n \in 1..(c - 1)
    BY <1>6
  <2>2. \A n \in 1..c : n # c => r[n] \in T
    BY <1>8, <2>1
  <2>3. QED
    BY <1>5, <2>2
<1>10. Sorts(s, T, key)
  <2>1. ASSUME NEW y \in T PROVE \E n \in 1..c : s[n] = y
    <3>1. CASE y = x
      BY <1>6, <3>1
    <3>2. CASE y # x
      <4>1. PICK n \in 1..(c - 1) : r[n] = y
        BY <1>8, <3>2 DEF Sorts
      <4>2. n \in 1..c /\ n # c
        BY <1>6
      <4>3. QED
        BY <4>1, <4>2
    <3>3. QED
      BY <3>1, <3>2
  <2>2. ASSUME NEW n \in 1..c, NEW m \in 1..(n - 1) PROVE key[s[m]] < key[s[n]]
    <3>1. m \in 1..(c - 1) /\ m \in 1..c /\ m # c
      BY <1>6
    <3>2. s[m] = r[m] /\ r[m] \in U
      BY <1>8, <3>1
    <3>3. CASE n = c
      <4>1. s[n] = x /\ s[m] \in T /\ s[m] # x
        BY <3>2, <3>3
      <4>2. key[s[m]] <= key[x] /\ key[s[m]] # key[x]
        BY <1>3, <1>5, <4>1
      <4>3. key[s[m]] \in Nat /\ key[x] \in Nat
        BY <1>3, <4>1
      <4>4. QED
        BY <4>1, <4>2, <4>3
    <3>4. CASE n # c
      <4>1. n \in 1..(c - 1) /\ s[n] = r[n]
        BY <1>6, <3>4
      <4>2. key[r[m]] < key[r[n]]
        BY <1>8, <4>1 DEF Sorts
      <4>3. QED
        BY <3>2, <4>1, <4>2
    <3>5. QED
      BY <3>3, <3>4
  <2>3. DOMAIN s = 1..c
    OBVIOUS
  <2> HIDE DEF s
  <2>4. QED
    BY <2>1, <2>2, <2>3 DEF Sorts
<1>11. QED
  <2>1. \E q \in [1..Cardinality(T) -> T] : Sorts(q, T, key)
    BY <1>9, <1>10 DEF c
  <2>2. QED
    BY <1>2, <2>1

(* A queue a device can have: its creates of documents of their own and    *)
(* never under themselves, in an order a parent's precede its children's,  *)
(* and all else at times of its own.                                       *)
Orderly(ops, at) ==
    /\ IsFiniteSet(ops) /\ ops \subseteq Op
    /\ \A a \in ops : a.op = "create" => a.parent # a.id
    /\ \A a, b \in ops :
          /\ a.op = "create" /\ b.op = "create" /\ a.id = b.id => a = b
          /\ a.op # "create" /\ b.op # "create" /\ a.ts = b.ts => a = b
    /\ \E rank \in [ops -> 0..at] : \A a, b \in ops :
          a.op = "create" /\ b.op = "create" =>
              (rank[a] = rank[b] => a = b) /\ (b.parent = a.id => rank[a] < rank[b])

(* The replay's order exists: every operation once, none after one it must *)
(* precede.                                                                *)
LEMMA Order ==
    ASSUME NEW at \in Nat, NEW ops, Orderly(ops, at)
    PROVE  /\ Sorted(ops) \in [1..Cardinality(ops) -> ops] /\ Cardinality(ops) \in Nat
           /\ \A o \in ops : \E n \in 1..Cardinality(ops) : Sorted(ops)[n] = o
           /\ \A n \in 1..Cardinality(ops) : \A m \in 1..(n - 1) :
                 ~First(Sorted(ops)[n], Sorted(ops)[m])
<1>1. PICK rank \in [ops -> 0..at] : \A a, b \in ops :
          a.op = "create" /\ b.op = "create" =>
              (rank[a] = rank[b] => a = b) /\ (b.parent = a.id => rank[a] < rank[b])
  BY DEF Orderly
<1> DEFINE key == [o \in ops |-> IF o.op = "create" THEN rank[o] ELSE o.ts + at]
           B == MaxTs + at
<1>2. B \in Nat /\ IsFiniteSet(ops) /\ Cardinality(ops) \in Nat /\ MaxTs \in Nat
  BY DocTreeAssumption, FS_CardinalityType DEF Orderly
<1>3. \A o \in ops : o.ts \in 1..MaxTs /\ rank[o] \in 0..at
  <2>1. \A o \in ops : o.ts \in 1..MaxTs
    BY DEF Orderly, Op
  <2>2. QED
    BY <2>1, <1>1
<1>4. \A o \in ops : key[o] \in 0..B
  BY <1>2, <1>3
<1>5. ASSUME NEW a \in ops, NEW b \in ops, First(a, b) PROVE key[a] < key[b]
  <2>1. CASE b.op = "create"
    <3>1. a.op = "create" /\ b.parent = a.id
      BY <1>5, <2>1 DEF First
    <3>2. QED
      BY <1>1, <2>1, <3>1
  <2>2. CASE b.op # "create" /\ a.op = "create"
    BY <1>3, <2>2
  <2>3. CASE b.op # "create" /\ a.op # "create"
    <3>1. a.ts < b.ts
      BY <1>5, <2>3 DEF First
    <3>2. QED
      BY <1>3, <2>3, <3>1
  <2>4. QED
    BY <2>1, <2>2, <2>3
<1>6. ASSUME NEW a \in ops, NEW b \in ops, key[a] = key[b] PROVE a = b
  <2>1. CASE a.op = "create" /\ b.op = "create"
    BY <1>1, <1>6, <2>1
  <2>2. CASE a.op # "create" /\ b.op # "create"
    <3>1. a.ts = b.ts
      BY <1>3, <1>6, <2>2
    <3>2. QED
      BY <2>2, <3>1 DEF Orderly
  <2>3. CASE ~(a.op = "create" <=> b.op = "create")
    BY <1>3, <1>6, <2>3
  <2>4. QED
    BY <2>1, <2>2, <2>3
<1>7. key \in [ops -> 0..B]
  BY <1>4
<1> HIDE DEF key, B
<1>8. PICK s \in [1..Cardinality(ops) -> ops] : Sorts(s, ops, key)
  BY <1>2, <1>6, <1>7, SortExists
<1> DEFINE Is(r) == /\ \A o \in ops : \E n \in DOMAIN r : r[n] = o
                    /\ \A n \in DOMAIN r : \A m \in 1..(n - 1) : ~First(r[n], r[m])
<1>9. Is(s)
  <2>1. ASSUME NEW n \in 1..Cardinality(ops), NEW m \in 1..(n - 1), First(s[n], s[m]) PROVE FALSE
    <3>1. m \in 1..Cardinality(ops)
      BY <1>2
    <3>2. s[m] \in ops /\ s[n] \in ops
      BY <3>1
    <3>3. key[s[m]] < key[s[n]]
      BY <1>8, <2>1 DEF Sorts
    <3>4. key[s[n]] < key[s[m]]
      BY <1>5, <2>1, <3>2
    <3>5. key[s[m]] \in Nat /\ key[s[n]] \in Nat
      BY <1>2, <1>7, <3>2
    <3>6. QED
      BY <3>3, <3>4, <3>5
  <2>2. QED
    BY <1>8, <2>1 DEF Sorts
<1>10. Sorted(ops) = CHOOSE r \in [1..Cardinality(ops) -> ops] : Is(r)
  BY DEF Sorted
<1>11. Sorted(ops) \in [1..Cardinality(ops) -> ops] /\ Is(Sorted(ops))
  <2> HIDE DEF Is
  <2>1. QED
    BY <1>9, <1>10
<1>12. QED
  BY <1>2, <1>11
-----------------------------------------------------------------------------
(* What an operation does, by its kind.                                    *)
LEMMA ByKind ==
    ASSUME NEW t, NEW o \in Op, NEW at
    PROVE  /\ o.op \in {"create", "delete", "reposition", "update_properties", "update_status"}
           /\ o.op = "create" => Apply(t, o, at) = Create(t, o)
           /\ o.op = "delete" => Apply(t, o, at) = DeleteOp(t, o, at)
           /\ o.op = "reposition" => Apply(t, o, at) = Reposition(t, o)
           /\ o.op = "update_properties" => Apply(t, o, at) = Rename(t, o)
           /\ o.op = "update_status" => Apply(t, o, at) = UpdateStatus(t, o)
  BY DEF Op, Apply

Rows(at) == [there : BOOLEAN, space : BOOLEAN, parent : Ids \cup {NoId}, status : SUBSET Bits,
             statusTs : 0..at, structTs : 0..at, propsTs : 0..at]

LEMMA TableOfRows == ASSUME NEW at PROVE Tables(at) = [Ids -> Rows(at)]
  BY DEF Tables, Rows

(* A new row is what it was asked to be.                                   *)
LEMMA NewRow ==
    ASSUME NEW at \in Nat, NEW space \in BOOLEAN, NEW parent \in Ids \cup {NoId}, NEW ts \in 0..at
    PROVE  /\ RowAt(space, parent, ts) \in Rows(at) /\ RowAt(space, parent, ts).there
           /\ RowAt(space, parent, ts).space = space /\ RowAt(space, parent, ts).parent = parent
           /\ RowAt(space, parent, ts).structTs = ts /\ RowAt(space, parent, ts).propsTs = ts
           /\ RowAt(space, parent, ts).status = {}
<1>1. NoRow \in Rows(at) /\ NoRow.status = {}
  BY DEF NoRow, Rows
<1>2. RowAt(space, parent, ts) \in Rows(at)
  BY <1>1 DEF RowAt, Rows
<1>3. QED
  BY <1>1, <1>2 DEF RowAt, Rows

LEMMA Statuses ==
    ASSUME NEW at \in Nat, NEW t \in Tables(at), NEW S, NEW status \in SUBSET Bits, NEW ts \in 0..at
    PROVE  SetStatus(t, S, status, ts) \in Tables(at)
  BY DEF SetStatus, Tables

LEMMA ApplyType ==
    ASSUME NEW at \in Nat, NEW t \in Tables(at), NEW o \in Op, o.ts <= at
    PROVE  Apply(t, o, at) \in Tables(at)
<1>1. /\ o.id \in Ids /\ o.ts \in 1..at /\ o.parent \in Ids \cup {NoId} /\ o.status \in SUBSET Bits
      /\ o.space \in BOOLEAN
  BY DocTreeAssumption DEF Op
<1>2. Create(t, o) \in Tables(at)
  <2>1. o.ts \in 0..at
    BY <1>1
  <2>2. RowAt(o.space, o.parent, o.ts) \in Rows(at)
    BY <1>1, <2>1, NewRow
  <2>3. t \in [Ids -> Rows(at)]
    BY TableOfRows
  <2>4. Create(t, o) \in [Ids -> Rows(at)]
    BY <1>1, <2>2, <2>3 DEF Create
  <2>5. QED
    BY <2>4, TableOfRows
<1>3. DeleteOp(t, o, at) \in Tables(at)
  <2>1. {"deleted"} \in SUBSET Bits /\ at \in 0..at
    BY DEF Bits
  <2>2. QED
    BY <2>1, Statuses DEF DeleteOp
<1>4. Reposition(t, o) \in Tables(at)
  BY <1>1 DEF Reposition, Tables
<1>5. Rename(t, o) \in Tables(at)
  BY <1>1 DEF Rename, Tables
<1>6. UpdateStatus(t, o) \in Tables(at)
  <2>1. o.ts \in 0..at
    BY <1>1
  <2>2. QED
    BY <1>1, <2>1, Statuses DEF UpdateStatus
<1>7. QED
  BY <1>2, <1>3, <1>4, <1>5, <1>6, ByKind

(* What an operation leaves of each row: clocks that advance, and a parent *)
(* that only a newer move changes.                                         *)
Later(r, q) ==
    r.there =>
        /\ q.there
        /\ q.structTs >= r.structTs /\ q.propsTs >= r.propsTs /\ q.statusTs >= r.statusTs
        /\ q.parent # r.parent => q.structTs > r.structTs

LEMMA StatusesLater ==
    ASSUME NEW at \in Nat, NEW t \in Tables(at), NEW S, NEW status, NEW ts \in Nat,
           \A i \in Ids : i \in S => ts >= t[i].statusTs, NEW i \in Ids
    PROVE  Later(t[i], SetStatus(t, S, status, ts)[i])
<1>1. t[i] \in Rows(at)
  BY TableOfRows
<1>2. QED
  BY <1>1 DEF SetStatus, Later, Rows

LEMMA ApplyLater ==
    ASSUME NEW at \in Nat, NEW t \in Tables(at), NEW o \in Op, o.ts <= at, NEW i \in Ids
    PROVE  Later(t[i], Apply(t, o, at)[i])
<1>1. o.id \in Ids /\ o.ts \in 1..at /\ o.ts \in Nat
  BY DocTreeAssumption DEF Op
<1>2. \A j \in Ids : t[j] \in Rows(at)
  BY TableOfRows
<1>3. Later(t[i], t[i])
  BY <1>2 DEF Later, Rows
<1>4. Later(t[i], Create(t, o)[i])
  BY <1>1, <1>2, <1>3 DEF Create, Later, Tables
<1>5. Later(t[i], DeleteOp(t, o, at)[i])
  <2>1. \A j \in Ids : at >= t[j].statusTs
    BY <1>2 DEF Rows
  <2>2. QED
    BY <1>3, <2>1, StatusesLater DEF DeleteOp
<1>6. Later(t[i], Reposition(t, o)[i])
  BY <1>1, <1>2, <1>3 DEF Reposition, Later, Tables
<1>7. Later(t[i], Rename(t, o)[i])
  BY <1>1, <1>2, <1>3 DEF Rename, Later, Tables
<1>8. Later(t[i], UpdateStatus(t, o)[i])
  <2>1. CASE t[o.id].there /\ o.ts > t[o.id].statusTs
    <3>1. \A j \in Ids : j \in {o.id} => o.ts >= t[j].statusTs
      BY <1>1, <1>2, <2>1 DEF Rows
    <3>2. Later(t[i], SetStatus(t, {o.id}, o.status, o.ts)[i])
      BY <1>1, <3>1, StatusesLater
    <3>3. QED
      BY <2>1, <3>2 DEF UpdateStatus
  <2>2. CASE ~(t[o.id].there /\ o.ts > t[o.id].statusTs)
    BY <1>3, <2>2 DEF UpdateStatus
  <2>3. QED
    BY <2>1, <2>2
<1>9. QED
  BY <1>4, <1>5, <1>6, <1>7, <1>8, ByKind

(* Two tables of rows alike in kind, place and the time of their last move. *)
SameShape(t, u) ==
    \A i \in Ids : /\ u[i].there = t[i].there /\ u[i].space = t[i].space
                   /\ u[i].parent = t[i].parent /\ u[i].structTs = t[i].structTs

HomeAtRoot(t) == t[Home].there /\ t[Home].space /\ t[Home].parent = NoId

(* What each change to a table keeps.                                      *)
Kept(t, u, M) ==
    /\ Rooted(u)
    /\ Tree(t, M) /\ HomeAtRoot(t) => Tree(u, M) /\ HomeAtRoot(u)

LEMMA MoreAstray == ASSUME NEW t, NEW M \in SUBSET Ids, NEW N \in SUBSET Ids, M \subseteq N, Tree(t, M)
                    PROVE  Tree(t, N)
  BY DEF Tree, Placed, Level

LEMMA SameTree ==
    ASSUME NEW at, NEW t \in Tables(at), NEW u, Rooted(t), SameShape(t, u), NEW M \in SUBSET Ids
    PROVE  Kept(t, u, M)
<1>1. \A i \in Ids : t[i].parent \in Ids \cup {NoId}
  BY DEF Tables
<1>2. Rooted(u)
  BY <1>1 DEF Rooted, SameShape
<1>3. NoneUnderItself(t) => NoneUnderItself(u)
  BY DEF NoneUnderItself, SameShape
<1>4. (Placed(t, M) => Placed(u, M)) /\ (Level(u, M) => Level(t, M))
  BY DEF Placed, Level, SameShape
<1>5. HomeAtRoot(t) => HomeAtRoot(u)
  BY DocTreeAssumption DEF HomeAtRoot, SameShape
<1>6. QED
  BY <1>2, <1>3, <1>4, <1>5 DEF Kept, Tree

LEMMA StatusesSameShape ==
    ASSUME NEW at, NEW t \in Tables(at), NEW S, NEW status, NEW ts
    PROVE  SameShape(t, SetStatus(t, S, status, ts))
  BY DEF SameShape, SetStatus, Tables

(* A row made at the root or under one that is there; out of its place, it *)
(* is known to be, or is a page at clock zero.                             *)
LEMMA MadeTree ==
    ASSUME NEW at, NEW t \in Tables(at), Rooted(t), NEW i \in Ids, ~t[i].there,
           NEW p \in Ids \cup {NoId}, p # NoId => t[p].there, NEW u, u[i].there, u[i].parent = p,
           \A j \in Ids \ {i} : u[j] = t[j], NEW M \in SUBSET Ids, u[i].space \in BOOLEAN,
           OutOfPlace(u[i].space, p) => i \in M \/ (~u[i].space /\ u[i].structTs = 0)
    PROVE  Kept(t, u, M)
<1>1. /\ \A j \in Ids : t[j].parent # i /\ t[j].parent \in Ids \cup {NoId}
      /\ p # i /\ ~t[i].space
  BY DocTreeAssumption DEF Rooted, Tables
<1>2. Rooted(u)
  <2> SUFFICES ASSUME NEW j \in Ids
               PROVE  /\ ~u[j].there => u[j].parent = NoId /\ ~u[j].space
                      /\ u[j].parent # NoId => u[u[j].parent].there
    BY DEF Rooted
  <2>1. CASE j = i
    BY <1>1, <2>1
  <2>2. CASE j # i
    BY <1>1, <2>2 DEF Rooted
  <2>3. QED
    BY <2>1, <2>2
<1>3. NoneUnderItself(t) => NoneUnderItself(u)
  BY <1>1, MadeFounded
<1>4. Placed(t, M) => Placed(u, M)
  <2> SUFFICES ASSUME Placed(t, M), NEW j \in Ids, u[j].there, j \notin M
               PROVE  IF u[j].space THEN u[j].parent = NoId
                      ELSE u[j].parent = NoId => u[j].structTs = 0
    BY DEF Placed
  <2>1. CASE j = i
    BY <2>1 DEF OutOfPlace
  <2>2. CASE j # i
    BY <2>2 DEF Placed
  <2>3. QED
    BY <2>1, <2>2
<1>5. Level(u, M) => Level(t, M)
  BY <1>1 DEF Level
<1>6. HomeAtRoot(t) => HomeAtRoot(u)
  BY DocTreeAssumption DEF HomeAtRoot
<1>7. QED
  BY <1>2, <1>3, <1>4, <1>5, <1>6 DEF Kept, Tree

(* A move the check lets through.                                          *)
LEMMA MovedTree ==
    ASSUME NEW at, NEW t \in Tables(at), Rooted(t), NEW i \in Ids, t[i].there,
           NEW p \in Ids \cup {NoId}, MayMove(t, i, p), NEW ts, NEW M \in SUBSET Ids
    PROVE  Kept(t, [t EXCEPT ![i].parent = p, ![i].structTs = ts], M)
<1> DEFINE u == [t EXCEPT ![i].parent = p, ![i].structTs = ts]
<1>1. \A j \in Ids : /\ u[j].there = t[j].there /\ u[j].space = t[j].space
                     /\ j # i => u[j] = t[j]
                     /\ t[j].parent \in Ids \cup {NoId}
  BY DEF Tables
<1>2. u[i].parent = p
  BY DEF Tables
<1> HIDE DEF u
<1>3. IF t[i].space THEN p = NoId ELSE p \in Ids /\ i \notin Above(t, p) /\ InSpace(t, p)
  BY DEF MayMove
<1>4. p # NoId => t[p].there
  <2>1. SUFFICES ASSUME p # NoId PROVE t[p].there
    OBVIOUS
  <2>2. PICK n \in 0..(WalkLimit - 1) : \A m \in 0..n : t[Up(t, p)[m]].there
    BY <1>3, <2>1 DEF InSpace
  <2>3. 0 \in 0..n /\ Up(t, p)[0] = p
    BY Walk
  <2>4. QED
    BY <2>2, <2>3
<1>5. Rooted(u)
  <2> SUFFICES ASSUME NEW j \in Ids
               PROVE  /\ ~u[j].there => u[j].parent = NoId /\ ~u[j].space
                      /\ u[j].parent # NoId => u[u[j].parent].there
    BY DEF Rooted
  <2>1. CASE j = i
    BY <1>1, <1>2, <1>4, <2>1
  <2>2. CASE j # i
    BY <1>1, <2>2 DEF Rooted
  <2>3. QED
    BY <2>1, <2>2
<1>6. Placed(t, M) => Placed(u, M)
  <2> SUFFICES ASSUME Placed(t, M), NEW j \in Ids, u[j].there, j \notin M
               PROVE  IF u[j].space THEN u[j].parent = NoId
                      ELSE u[j].parent = NoId => u[j].structTs = 0
    BY DEF Placed
  <2>1. CASE j = i
    BY <1>1, <1>2, <1>3, <2>1, DocTreeAssumption
  <2>2. CASE j # i
    BY <1>1, <2>2 DEF Placed
  <2>3. QED
    BY <2>1, <2>2
<1>7. Level(u, M) => Level(t, M)
  BY <1>1 DEF Level
<1>8. ASSUME Tree(t, M), Level(t, M) PROVE NoneUnderItself(u)
  <2>1. CASE p = NoId
    <3> SUFFICES ASSUME NEW S \in SUBSET Ids, S # {} PROVE \E j \in S : u[j].parent \notin S
      BY DEF NoneUnderItself
    <3>1. PICK j \in S : t[j].parent \notin S
      BY <1>8 DEF Tree, NoneUnderItself
    <3>2. u[j].parent = t[j].parent \/ u[j].parent = NoId
      BY <1>1, <1>2, <2>1
    <3>3. QED
      BY <3>1, <3>2, DocTreeAssumption
  <2>2. CASE p # NoId
    <3>1. p \in Ids /\ i \notin Above(t, p) /\ InSpace(t, p)
      BY <1>3, <2>2
    <3>2. \A j \in Ids \ {i} : u[j].parent = t[j].parent
      BY <1>1
    <3>3. QED
      BY <1>2, <1>8, <3>1, <3>2, MovedFounded
  <2>3. QED
    BY <2>1, <2>2
<1>9. HomeAtRoot(t) => HomeAtRoot(u)
  BY <1>1, <1>2, <1>3, DocTreeAssumption DEF HomeAtRoot
<1>10. QED
  BY <1>5, <1>6, <1>7, <1>8, <1>9 DEF Kept, Tree, u

LEMMA ApplyTree ==
    ASSUME NEW at \in Nat, NEW t \in Tables(at), Rooted(t), NEW o \in Op, o.ts <= at, ~Fails(t, o),
           NEW M \in SUBSET Ids,
           o.op = "create" /\ ~t[o.id].there /\ OutOfPlace(o.space, o.parent) => o.id \in M
    PROVE  Kept(t, Apply(t, o, at), M)
<1>1. o.id \in Ids /\ o.parent \in Ids \cup {NoId} /\ o.space \in BOOLEAN /\ o.ts \in 0..at
  BY DocTreeAssumption DEF Op
<1>2. Kept(t, t, M)
  BY DEF Kept
<1>3. ASSUME o.op = "create" PROVE Kept(t, Create(t, o), M)
  <2>1. CASE t[o.id].there
    BY <1>2, <2>1 DEF Create
  <2>2. CASE ~t[o.id].there
    <3> DEFINE u == Create(t, o)
               row == RowAt(o.space, o.parent, o.ts)
    <3>1. u = [t EXCEPT ![o.id] = row]
      BY <2>2 DEF Create
    <3>2. row.there /\ row.parent = o.parent /\ row.space = o.space
      BY DEF RowAt, NoRow
    <3> HIDE DEF row
    <3>3. u[o.id] = row /\ \A j \in Ids \ {o.id} : u[j] = t[j]
      BY <1>1, <3>1 DEF Tables
    <3>4. o.parent # NoId => t[o.parent].there
      BY <1>3, <2>2 DEF Fails
    <3> HIDE DEF u
    <3>5. Kept(t, u, M)
      BY <1>1, <1>3, <2>2, <3>2, <3>3, <3>4, MadeTree
    <3>6. QED
      BY <3>5 DEF u
  <2>3. QED
    BY <2>1, <2>2
<1>4. Kept(t, DeleteOp(t, o, at), M)
  BY <1>2, SameTree, StatusesSameShape DEF DeleteOp
<1>5. Kept(t, Reposition(t, o), M)
  BY <1>1, <1>2, MovedTree DEF Reposition
<1>6. Kept(t, Rename(t, o), M)
  <2>1. SameShape(t, [t EXCEPT ![o.id].propsTs = o.ts])
    BY DEF SameShape, Tables
  <2>2. QED
    BY <1>2, <2>1, SameTree DEF Rename
<1>7. Kept(t, UpdateStatus(t, o), M)
  BY <1>2, SameTree, StatusesSameShape DEF UpdateStatus
<1>8. QED
  BY <1>3, <1>4, <1>5, <1>6, <1>7, ByKind
-----------------------------------------------------------------------------
(* The home neither in the trash nor deleted.                              *)
Safe(t) == t[Home].status \cap {"trashed", "deleted"} = {}

LEMMA HomeAlone ==
    ASSUME NEW t, HomeAtRoot(t), NEW i \in Ids, Home \in Subtree(t, i)
    PROVE  i = Home
  BY DocTreeAssumption, RootAlone DEF HomeAtRoot

LEMMA ApplySafe ==
    ASSUME NEW at \in Nat, NEW t \in Tables(at), NEW o \in Op, HomeAtRoot(t), Safe(t),
           ~(o.op = "update_status" /\ o.id = Home)
    PROVE  Safe(Apply(t, o, at))
<1>1. o.id \in Ids /\ Home \in Ids
  BY DocTreeAssumption DEF Op
<1>2. Safe(Create(t, o))
  BY <1>1 DEF Create, Safe, HomeAtRoot, Tables
<1>3. Safe(DeleteOp(t, o, at))
  <2>1. o.id # Home => Home \notin Subtree(t, o.id)
    BY <1>1, HomeAlone
  <2>2. o.id # Home => Safe(SetStatus(t, Subtree(t, o.id), {"deleted"}, at))
    BY <1>1, <2>1 DEF SetStatus, Safe
  <2>3. QED
    BY <2>2 DEF DeleteOp, Deletes
<1>4. Safe(Reposition(t, o)) /\ Safe(Rename(t, o))
  BY <1>1 DEF Reposition, Rename, Safe, Tables
<1>5. o.id # Home => Safe(UpdateStatus(t, o))
  BY <1>1 DEF UpdateStatus, SetStatus, Safe
<1>6. QED
  BY <1>2, <1>3, <1>4, <1>5, ByKind

(* A row comes to be by its create alone, and its properties' time is that *)
(* of the create or of a later rename.                                     *)
LEMMA ApplyRow ==
    ASSUME NEW at \in Nat, NEW t \in Tables(at), NEW o \in Op, NEW i \in Ids
    PROVE  LET u == Apply(t, o, at)
               makes == o.op = "create" /\ o.id = i /\ ~t[i].there
               renames == o.op = "update_properties" /\ o.id = i /\ t[i].there /\ o.ts > t[i].propsTs
           IN  /\ u[i].there <=> t[i].there \/ makes
               /\ makes => u[i].propsTs = o.ts
               /\ renames => u[i].propsTs = o.ts
               /\ ~makes /\ ~renames => u[i].propsTs = t[i].propsTs
<1>1. o.id \in Ids
  BY DEF Op
<1> DEFINE Same(u) == /\ u[i].there <=> t[i].there
                      /\ u[i].propsTs = t[i].propsTs
<1>2. \A S, status, ts : Same(SetStatus(t, S, status, ts))
  BY DEF SetStatus, Tables
<1>3. Same(DeleteOp(t, o, at)) /\ Same(UpdateStatus(t, o))
  BY <1>2 DEF DeleteOp, UpdateStatus
<1>4. Same(Reposition(t, o))
  BY <1>1 DEF Reposition, Tables
<1>5. CASE o.op = "create"
  <2>1. Apply(t, o, at) = Create(t, o)
    BY <1>5, ByKind
  <2>2. CASE t[o.id].there
    BY <1>5, <2>1, <2>2 DEF Create
  <2>3. CASE ~t[o.id].there
    <3>1. Create(t, o) = [t EXCEPT ![o.id] = RowAt(o.space, o.parent, o.ts)]
      BY <2>3 DEF Create
    <3>2. o.id = i => Create(t, o)[i] = RowAt(o.space, o.parent, o.ts)
      BY <1>1, <3>1 DEF Tables
    <3>3. o.id # i => Create(t, o)[i] = t[i]
      BY <1>1, <3>1 DEF Tables
    <3>4. RowAt(o.space, o.parent, o.ts).there /\ RowAt(o.space, o.parent, o.ts).propsTs = o.ts
      BY DEF RowAt
    <3>5. QED
      BY <1>5, <2>1, <2>3, <3>2, <3>3, <3>4
  <2>4. QED
    BY <2>2, <2>3
<1>6. CASE o.op = "update_properties"
  <2>1. Apply(t, o, at) = Rename(t, o)
    BY <1>6, ByKind
  <2>2. CASE t[o.id].there /\ o.ts > t[o.id].propsTs
    <3>1. Rename(t, o) = [t EXCEPT ![o.id].propsTs = o.ts]
      BY <2>2 DEF Rename
    <3>2. /\ Rename(t, o)[i].there = t[i].there
          /\ Rename(t, o)[i].propsTs = IF o.id = i THEN o.ts ELSE t[i].propsTs
      BY <1>1, <3>1 DEF Tables
    <3>3. QED
      BY <1>6, <2>1, <2>2, <3>2
  <2>3. CASE ~(t[o.id].there /\ o.ts > t[o.id].propsTs)
    BY <1>6, <2>1, <2>3 DEF Rename
  <2>4. QED
    BY <2>2, <2>3
<1>7. CASE o.op \in {"delete", "reposition", "update_status"}
  BY <1>3, <1>4, <1>7, ByKind
<1>8. QED
  BY <1>5, <1>6, <1>7, ByKind
-----------------------------------------------------------------------------
(* The tables a batch goes through.                                        *)
Passes(t, ops, at, f) ==
    /\ f[0] = t /\ \A n \in 0..Cardinality(ops) : f[n] \in Tables(at)
    /\ \A n \in 1..Cardinality(ops) : f[n] = Apply(f[n - 1], Sorted(ops)[n], at)

LEMMA Replayed ==
    ASSUME NEW at \in Nat, NEW t \in Tables(at), NEW ops, Orderly(ops, at), \A o \in ops : o.ts <= at
    PROVE  \E f : /\ Passes(t, ops, at, f)
                 /\ Replay(t, ops, at).docs = f[Cardinality(ops)]
                 /\ Replay(t, ops, at).refused =
                       \E n \in 1..Cardinality(ops) : Fails(f[n - 1], Sorted(ops)[n])
<1> DEFINE s == Sorted(ops)
           C == Cardinality(ops)
           V == Tables(at)
           step == [n \in 1..C |-> [u \in V |-> Apply(u, s[n], at)]]
           Is(f) == f = [n \in 0..C |-> IF n = 0 THEN t ELSE Apply(f[n - 1], s[n], at)]
           after == CHOOSE f : Is(f)
<1>1. s \in [1..C -> ops] /\ C \in Nat
  BY Order
<1>2. /\ Replay(t, ops, at).docs = after[C]
      /\ Replay(t, ops, at).refused = \E n \in DOMAIN s : Fails(after[n - 1], s[n])
  BY DEF Replay
<1> HIDE DEF s, C
<1>3. \A n \in 1..C : \A u \in V : Apply(u, s[n], at) \in V
  BY <1>1, ApplyType DEF Orderly
<1>4. step \in [1..C -> [V -> V]]
  BY <1>3
<1>5. PICK f \in [0..C -> V] : f[0] = t /\ \A n \in 1..C : f[n] = step[n][f[n - 1]]
  <2> HIDE DEF V, step
  <2>1. t \in V /\ C \in Nat /\ step \in [1..C -> [V -> V]]
    BY <1>1, <1>4 DEF V
  <2> HIDE DEF C
  <2>2. QED
    BY <2>1, Recursion
<1>6. Is(f)
  <2>1. ASSUME NEW n \in 0..C, n # 0 PROVE f[n] = Apply(f[n - 1], s[n], at)
    <3>1. n \in 1..C /\ n - 1 \in 0..C
      BY <1>1, <2>1
    <3>2. f[n - 1] \in V
      BY <1>5, <3>1
    <3>3. QED
      BY <1>5, <3>1, <3>2
  <2>2. QED
    BY <1>5, <2>1
<1>7. Is(after)
  <2> HIDE DEF Is
  <2>1. QED
    BY <1>6
<1>8. after[0] = t /\ \A n \in 1..C : after[n] = Apply(after[n - 1], s[n], at)
  <2>1. 0 \in 0..C /\ \A n \in 1..C : n \in 0..C /\ n # 0
    BY <1>1
  <2> HIDE DEF after
  <2>2. QED
    BY <1>7, <2>1
<1> HIDE DEF after, V
<1>9. \A n \in 0..C : after[n] \in V
  <2> DEFINE G == [n \in 0..C |-> V]
  <2>1. after[0] \in G[0]
    BY <1>1, <1>8 DEF V
  <2>2. ASSUME NEW n \in 1..C, after[n - 1] \in G[n - 1] PROVE after[n] \in G[n]
    BY <1>1, <1>3, <1>8, <2>2
  <2> HIDE DEF G
  <2>3. \A n \in 0..C : after[n] \in G[n]
    BY <1>1, <2>1, <2>2, Through
  <2>4. QED
    BY <2>3 DEF G
<1>10. DOMAIN s = 1..C
  BY <1>1
<1>11. QED
  BY <1>2, <1>8, <1>9, <1>10 DEF Passes, s, C, V

LEMMA ReplayLater ==
    ASSUME NEW at \in Nat, NEW t \in Tables(at), NEW ops, Orderly(ops, at), \A o \in ops : o.ts <= at
    PROVE  /\ Replay(t, ops, at).docs \in Tables(at)
           /\ \A i \in Ids : Later(t[i], Replay(t, ops, at).docs[i])
<1> DEFINE s == Sorted(ops)
           C == Cardinality(ops)
<1>1. PICK f : Passes(t, ops, at, f) /\ Replay(t, ops, at).docs = f[C]
  BY Replayed
<1>2. s \in [1..C -> ops] /\ C \in Nat /\ ops \subseteq Op
  BY Order DEF Orderly
<1> DEFINE V == {u \in Tables(at) : \A i \in Ids : Later(t[i], u[i])}
           G == [n \in 0..C |-> V]
<1>3. f[0] \in G[0]
  BY <1>1, <1>2 DEF Passes, Later, Tables
<1>4. ASSUME NEW n \in 1..C, f[n - 1] \in G[n - 1] PROVE f[n] \in G[n]
  <2>1. n - 1 \in 0..C /\ n \in 0..C /\ s[n] \in Op /\ s[n].ts <= at
    BY <1>2
  <2>2. f[n - 1] \in V /\ f[n] \in Tables(at) /\ f[n] = Apply(f[n - 1], s[n], at)
    BY <1>1, <1>4, <2>1 DEF Passes
  <2>3. ASSUME NEW i \in Ids PROVE Later(t[i], f[n][i])
    <3>1. Later(t[i], f[n - 1][i]) /\ Later(f[n - 1][i], f[n][i])
      BY <2>1, <2>2, ApplyLater
    <3>2. \A u \in Tables(at) : /\ u[i].structTs \in Nat /\ u[i].propsTs \in Nat
                                /\ u[i].statusTs \in Nat
      BY DEF Tables
    <3>3. QED
      BY <2>2, <3>1, <3>2 DEF Later
  <2>4. QED
    BY <2>1, <2>2, <2>3
<1> HIDE DEF G
<1>5. \A n \in 0..C : f[n] \in G[n]
  BY <1>2, <1>3, <1>4, Through
<1>6. f[C] \in V
  BY <1>2, <1>5 DEF G
<1>7. QED
  BY <1>1, <1>6

(* A row that is there stays.                                              *)
LEMMA Stays ==
    ASSUME NEW at \in Nat, NEW t, NEW ops, Orderly(ops, at), NEW f, Passes(t, ops, at, f),
           NEW i \in Ids, NEW k \in 0..Cardinality(ops), f[k][i].there,
           NEW n \in 0..Cardinality(ops), k <= n
    PROVE  f[n][i].there
<1> DEFINE C == Cardinality(ops)
           G == [m \in 0..C |-> IF m < k THEN Tables(at) ELSE {u \in Tables(at) : u[i].there}]
<1>1. /\ Sorted(ops) \in [1..C -> ops] /\ C \in Nat /\ ops \subseteq Op
      /\ \A m \in 0..C : f[m] \in Tables(at)
      /\ \A m \in 1..C : f[m] = Apply(f[m - 1], Sorted(ops)[m], at)
  BY Order DEF Orderly, Passes
<1> HIDE DEF C
<1>2. f[0] \in G[0]
  <2>1. 0 \in 0..C /\ (0 < k \/ 0 = k)
    BY <1>1 DEF C
  <2>2. QED
    BY <1>1, <2>1
<1>3. ASSUME NEW m \in 1..C, f[m - 1] \in G[m - 1] PROVE f[m] \in G[m]
  <2>1. m - 1 \in 0..C /\ m \in 0..C /\ k \in 0..C
    BY <1>1 DEF C
  <2>2. CASE m <= k
    BY <1>1, <2>1, <2>2
  <2>3. CASE ~(m <= k)
    <3>1. ~(m - 1 < k) /\ ~(m < k)
      BY <1>1, <2>1, <2>3
    <3>2. f[m - 1] \in Tables(at) /\ f[m - 1][i].there /\ Sorted(ops)[m] \in Op
      BY <1>1, <1>3, <2>1, <3>1
    <3>3. f[m][i].there
      BY <1>1, <3>2, ApplyRow
    <3>4. QED
      BY <1>1, <2>1, <3>1, <3>3
  <2>4. QED
    BY <2>2, <2>3
<1> HIDE DEF G
<1>4. \A m \in 0..C : f[m] \in G[m]
  BY <1>1, <1>2, <1>3, Through
<1>5. ~(n < k) /\ n \in 0..C
  BY <1>1 DEF C
<1>6. QED
  BY <1>4, <1>5 DEF G

(* The documents a batch would make out of their place.                    *)
Strays(t, ops) ==
    {o.id : o \in {p \in ops : p.op = "create" /\ ~t[p.id].there /\ OutOfPlace(p.space, p.parent)}}

(* A batch that the foreign key lets through.                              *)
LEMMA ReplayTree ==
    ASSUME NEW at \in Nat, NEW t \in Tables(at), NEW ops, Orderly(ops, at), \A o \in ops : o.ts <= at,
           Rooted(t), ~Replay(t, ops, at).refused, NEW M \in SUBSET Ids, Strays(t, ops) \subseteq M
    PROVE  /\ Kept(t, Replay(t, ops, at).docs, M)
           /\ Tree(t, M) /\ HomeAtRoot(t) /\ Safe(t)
              /\ (\A o \in ops : ~(o.op = "update_status" /\ o.id = Home)) =>
                 Safe(Replay(t, ops, at).docs)
<1> DEFINE s == Sorted(ops)
           C == Cardinality(ops)
           Sound == Tree(t, M) /\ HomeAtRoot(t)
           Guarded == Sound /\ Safe(t) /\ \A o \in ops : ~(o.op = "update_status" /\ o.id = Home)
<1>1. PICK f : /\ Passes(t, ops, at, f) /\ Replay(t, ops, at).docs = f[C]
               /\ \A n \in 1..C : ~Fails(f[n - 1], s[n])
  BY Replayed
<1>2. s \in [1..C -> ops] /\ C \in Nat /\ ops \subseteq Op
  BY Order DEF Orderly
<1> DEFINE V == {u \in Tables(at) : /\ Rooted(u) /\ (Sound => Tree(u, M) /\ HomeAtRoot(u))
                                   /\ (Guarded => Safe(u))}
           G == [n \in 0..C |-> V]
<1>3. f[0] \in G[0]
  BY <1>1, <1>2 DEF Passes
<1>4. ASSUME NEW n \in 1..C, f[n - 1] \in G[n - 1] PROVE f[n] \in G[n]
  <2>1. /\ n - 1 \in 0..C /\ n \in 0..C /\ s[n] \in ops /\ s[n] \in Op /\ s[n].ts <= at
        /\ 0 \in 0..C /\ 0 <= n - 1
    BY <1>2
  <2>2. f[n - 1] \in V /\ f[n] \in Tables(at) /\ f[n] = Apply(f[n - 1], s[n], at)
    BY <1>1, <1>4, <2>1 DEF Passes
  <2>3. ~f[n - 1][s[n].id].there => ~t[s[n].id].there
    <3>1. s[n].id \in Ids /\ f[0] = t
      BY <1>1, <2>1 DEF Op, Passes
    <3>2. QED
      BY <1>1, <2>1, <3>1, Stays
  <2>4. Kept(f[n - 1], f[n], M)
    <3>1. s[n].op = "create" /\ ~f[n - 1][s[n].id].there /\ OutOfPlace(s[n].space, s[n].parent) =>
             s[n].id \in M
      BY <2>1, <2>3 DEF Strays
    <3>2. Rooted(f[n - 1]) /\ ~Fails(f[n - 1], s[n]) /\ f[n - 1] \in Tables(at)
      BY <1>1, <2>2
    <3>3. QED
      BY <2>1, <2>2, <3>1, <3>2, ApplyTree
  <2>5. Guarded => Safe(f[n])
    <3>1. Guarded => ~(s[n].op = "update_status" /\ s[n].id = Home)
      BY <2>1
    <3>2. QED
      BY <2>1, <2>2, <3>1, ApplySafe
  <2> HIDE DEF Sound, Guarded
  <2>6. f[n] \in V
    BY <2>2, <2>4, <2>5 DEF Kept
  <2>7. QED
    BY <2>1, <2>6
<1> HIDE DEF G
<1>5. \A n \in 0..C : f[n] \in G[n]
  BY <1>2, <1>3, <1>4, Through
<1>6. f[C] \in V
  BY <1>2, <1>5 DEF G
<1>7. QED
  BY <1>1, <1>6 DEF Kept

(* A batch with the parent of each document it makes, or whose parents the *)
(* server has, is not refused, whatever the times of its operations.       *)
LEMMA NotRefused ==
    ASSUME NEW at \in Nat, NEW t \in Tables(at), NEW ops, Orderly(ops, at), \A o \in ops : o.ts <= at,
           \A o \in ops : o.op = "create" /\ o.parent # NoId =>
               t[o.parent].there \/ \E p \in ops : p.op = "create" /\ p.id = o.parent
    PROVE  ~Replay(t, ops, at).refused
<1> DEFINE s == Sorted(ops)
           C == Cardinality(ops)
<1>1. PICK f : /\ Passes(t, ops, at, f)
               /\ Replay(t, ops, at).refused = \E n \in 1..C : Fails(f[n - 1], s[n])
  BY Replayed
<1>2. /\ s \in [1..C -> ops] /\ C \in Nat /\ ops \subseteq Op
      /\ \A o \in ops : \E n \in 1..C : s[n] = o
      /\ \A n \in 1..C : \A m \in 1..(n - 1) : ~First(s[n], s[m])
  BY Order DEF Orderly
<1>3. /\ f[0] = t /\ \A n \in 0..C : f[n] \in Tables(at)
      /\ \A n \in 1..C : f[n] = Apply(f[n - 1], s[n], at)
  BY <1>1 DEF Passes
<1>4. SUFFICES ASSUME NEW n \in 1..C, Fails(f[n - 1], s[n]) PROVE FALSE
  BY <1>1
<1> DEFINE o == s[n]
<1>5. /\ o \in ops /\ o \in Op /\ o.op = "create" /\ o.parent # NoId /\ o.parent \in Ids
      /\ ~f[n - 1][o.parent].there /\ n - 1 \in 0..C /\ 0 \in 0..C /\ 0 <= n - 1
  BY <1>2, <1>4 DEF Fails, Op
<1>6. ~t[o.parent].there
  BY <1>1, <1>3, <1>5, Stays
<1>7. PICK m \in 1..C : s[m].op = "create" /\ s[m].id = o.parent
  BY <1>2, <1>5, <1>6
<1>8. m # n
  BY <1>5, <1>7 DEF Orderly
<1>9. ~(m > n)
  <2>1. First(s[m], s[n])
    BY <1>5, <1>7 DEF First
  <2>2. m > n => n \in 1..(m - 1)
    OBVIOUS
  <2>3. QED
    BY <1>2, <2>1, <2>2
<1>10. m <= n - 1 /\ m \in 0..C /\ m - 1 \in 0..C
  BY <1>2, <1>8, <1>9
<1>11. f[m][o.parent].there
  <2>1. f[m] = Apply(f[m - 1], s[m], at) /\ f[m - 1] \in Tables(at) /\ s[m] \in Op
    BY <1>2, <1>3, <1>10
  <2>2. QED
    BY <1>5, <1>7, <2>1, ApplyRow
<1>12. f[n - 1][o.parent].there
  <2> HIDE DEF o
  <2>1. QED
    BY <1>1, <1>5, <1>10, <1>11, Stays
<1>13. QED
  BY <1>5, <1>12
-----------------------------------------------------------------------------
(* The latest of some times.                                               *)
Latest(x, times) == x \in times /\ \A y \in times : y <= x

(* The renames of a document among the operations a batch has replayed.    *)
Renames(ops, i) == {o.ts : o \in {p \in ops : p.id = i /\ p.op = "update_properties"}}

(* From when a row is there, each of its renames counts, and nothing else. *)
LEMMA RenamesCount ==
    ASSUME NEW at \in Nat, NEW t, NEW ops, Orderly(ops, at), NEW f, Passes(t, ops, at, f),
           NEW i \in Ids, NEW k \in 0..Cardinality(ops), f[k][i].there,
           \A n \in 1..k : Sorted(ops)[n].op # "update_properties" \/ Sorted(ops)[n].id # i
    PROVE  LET u == f[Cardinality(ops)]
           IN  u[i].there /\ Latest(u[i].propsTs, {f[k][i].propsTs} \cup Renames(ops, i))
<1> DEFINE s == Sorted(ops)
           C == Cardinality(ops)
           base == f[k][i].propsTs
           Done(n) == {s[m].ts : m \in {q \in (k + 1)..n : s[q].id = i /\ s[q].op = "update_properties"}}
           V(n) == {u \in Tables(at) : u[i].there /\ Latest(u[i].propsTs, {base} \cup Done(n))}
           G == [n \in 0..C |-> IF n < k THEN Tables(at) ELSE V(n)]
<1>1. /\ s \in [1..C -> ops] /\ C \in Nat /\ ops \subseteq Op /\ k \in Nat /\ k <= C
      /\ \A o \in ops : \E n \in 1..C : s[n] = o
  BY Order DEF Orderly
<1>2. /\ \A n \in 0..C : f[n] \in Tables(at)
      /\ \A n \in 1..C : f[n] = Apply(f[n - 1], s[n], at)
  BY DEF Passes
<1>3. \A m \in 1..C : s[m] \in Op /\ s[m].ts \in Nat
  BY <1>1, DocTreeAssumption DEF Op
<1> HIDE DEF s, C
<1>4. f[k] \in V(k)
  <2>1. Done(k) = {} /\ f[k] \in Tables(at) /\ base \in Nat
    BY <1>1, <1>2 DEF Tables
  <2>2. Latest(f[k][i].propsTs, {base} \cup Done(k))
    BY <2>1 DEF Latest
  <2>3. QED
    BY <2>1, <2>2
<1>5. ASSUME NEW n \in 1..C, n > k, f[n - 1] \in V(n - 1) PROVE f[n] \in V(n)
  <2>1. n - 1 \in 0..C /\ n \in 0..C /\ (n - 1) + 1 = n
    BY <1>1
  <2>2. /\ f[n - 1] \in Tables(at) /\ f[n] \in Tables(at) /\ f[n] = Apply(f[n - 1], s[n], at)
        /\ f[n - 1][i].there
        /\ f[n - 1][i].propsTs \in Nat
    BY <1>2, <1>5, <2>1 DEF Tables
  <2> DEFINE x == f[n - 1][i].propsTs
             renames == s[n].op = "update_properties" /\ s[n].id = i
  <2>3. /\ f[n][i].there
        /\ renames /\ s[n].ts > x => f[n][i].propsTs = s[n].ts
        /\ ~(renames /\ s[n].ts > x) => f[n][i].propsTs = x
    BY <1>3, <2>2, ApplyRow
  <2>4. Done(n) = Done(n - 1) \cup {y \in {s[n].ts} : renames}
    <3>1. (k + 1)..n = ((k + 1)..(n - 1)) \cup {n}
      BY <1>1, <1>5
    <3>2. QED
      BY <3>1
  <2>5. Latest(x, {base} \cup Done(n - 1))
    BY <1>5
  <2>6. \A y \in {base} \cup Done(n - 1) : y \in Nat
    <3>1. base \in Nat
      BY <1>1, <1>2 DEF Tables
    <3>2. \A q \in (k + 1)..(n - 1) : q \in 1..C
      BY <1>1, <2>1
    <3>3. QED
      BY <1>3, <3>1, <3>2
  <2> HIDE DEF Done, x, base
  <2>7. Latest(f[n][i].propsTs, {base} \cup Done(n))
    <3>1. s[n].ts \in Nat /\ x \in Nat
      BY <1>3, <2>2 DEF x
    <3>2. CASE renames /\ s[n].ts > x
      <4>1. f[n][i].propsTs = s[n].ts /\ Done(n) = Done(n - 1) \cup {s[n].ts}
        BY <2>3, <2>4, <3>2
      <4>2. \A y \in {base} \cup Done(n - 1) : y <= s[n].ts
        <5>1. \A y \in {base} \cup Done(n - 1) : y <= x /\ y \in Nat
          BY <2>5, <2>6 DEF Latest
        <5>2. \A y \in Nat : y <= x => y <= s[n].ts
          BY <3>1, <3>2
        <5>3. QED
          BY <5>1, <5>2
      <4>3. QED
        BY <3>1, <4>1, <4>2 DEF Latest
    <3>3. CASE ~(renames /\ s[n].ts > x)
      <4>1. f[n][i].propsTs = x
        BY <2>3, <3>3
      <4>2. \A y \in Done(n) : y \in Done(n - 1) \/ y <= x
        BY <2>4, <3>1, <3>3
      <4>3. Done(n - 1) \subseteq Done(n)
        BY <2>4
      <4>4. QED
        BY <2>5, <4>1, <4>2, <4>3 DEF Latest
    <3>4. QED
      BY <3>2, <3>3
  <2>8. QED
    BY <2>2, <2>3, <2>7
<1>6. f[0] \in G[0]
  <2>1. 0 \in 0..C /\ (k # 0 => 0 < k)
    BY <1>1
  <2> HIDE DEF V
  <2>2. QED
    BY <1>1, <1>2, <1>4, <2>1
<1>7. ASSUME NEW n \in 1..C, f[n - 1] \in G[n - 1] PROVE f[n] \in G[n]
  <2>1. n - 1 \in 0..C /\ n \in 0..C
    BY <1>1
  <2> HIDE DEF V
  <2>2. CASE n < k
    BY <1>2, <2>1, <2>2
  <2>3. CASE n = k
    BY <1>4, <2>1, <2>3
  <2>4. CASE n > k
    <3>1. ~(n - 1 < k) /\ ~(n < k)
      BY <1>1, <2>4
    <3>2. f[n - 1] \in V(n - 1)
      BY <1>7, <2>1, <3>1
    <3>3. QED
      BY <1>5, <2>1, <2>4, <3>1, <3>2
  <2>5. QED
    BY <1>1, <2>2, <2>3, <2>4
<1> HIDE DEF G
<1>8. \A n \in 0..C : f[n] \in G[n]
  BY <1>1, <1>6, <1>7, Through
<1>9. f[C] \in V(C)
  <2>1. C \in 0..C /\ ~(C < k)
    BY <1>1
  <2> HIDE DEF V
  <2>2. QED
    BY <1>8, <2>1 DEF G
<1>10. Done(C) = Renames(ops, i)
  <2>1. ASSUME NEW o \in ops, o.id = i, o.op = "update_properties" PROVE o.ts \in Done(C)
    <3>1. PICK n \in 1..C : s[n] = o
      BY <1>1
    <3>2. n \in (k + 1)..C
      <4>1. n \notin 1..k
        BY <2>1, <3>1 DEF s
      <4>2. QED
        BY <1>1, <4>1
    <3>3. QED
      BY <2>1, <3>1, <3>2
  <2>2. \A q \in (k + 1)..C : q \in 1..C
    BY <1>1
  <2>3. QED
    BY <1>1, <2>1, <2>2 DEF Renames
<1>11. QED
  BY <1>9, <1>10 DEF C

(* What a batch makes of a row: there from its create on, its properties   *)
(* those of the latest of what it had, its create and its renames.         *)
Makes(ops, i) == {o.ts : o \in {p \in ops : p.id = i /\ p.op = "create"}}

LEMMA ReplayRow ==
    ASSUME NEW at \in Nat, NEW t \in Tables(at), NEW ops, Orderly(ops, at), \A o \in ops : o.ts <= at,
           NEW i \in Ids
    PROVE  LET u == Replay(t, ops, at).docs
           IN  /\ t[i].there =>
                     u[i].there /\ Latest(u[i].propsTs, {t[i].propsTs} \cup Renames(ops, i))
               /\ ~t[i].there /\ Makes(ops, i) # {} =>
                     u[i].there /\ Latest(u[i].propsTs, Makes(ops, i) \cup Renames(ops, i))
               /\ ~t[i].there /\ Makes(ops, i) = {} => ~u[i].there
<1> DEFINE s == Sorted(ops)
           C == Cardinality(ops)
           u == Replay(t, ops, at).docs
<1>1. PICK f : Passes(t, ops, at, f) /\ u = f[C]
  BY Replayed
<1>2. /\ s \in [1..C -> ops] /\ C \in Nat /\ ops \subseteq Op
      /\ \A o \in ops : \E n \in 1..C : s[n] = o
      /\ \A n \in 1..C : \A m \in 1..(n - 1) : ~First(s[n], s[m])
  BY Order DEF Orderly
<1>3. /\ f[0] = t /\ \A n \in 0..C : f[n] \in Tables(at)
      /\ \A n \in 1..C : f[n] = Apply(f[n - 1], s[n], at)
  BY <1>1 DEF Passes
<1> HIDE DEF u
<1>4. ASSUME t[i].there
      PROVE  u[i].there /\ Latest(u[i].propsTs, {t[i].propsTs} \cup Renames(ops, i))
  <2>1. 0 \in 0..C /\ f[0][i].there /\ f[0][i].propsTs = t[i].propsTs /\ 1..0 = {}
    BY <1>2, <1>3, <1>4
  <2>2. \A n \in 1..0 : s[n].op # "update_properties" \/ s[n].id # i
    BY <2>1
  <2>3. u[i].there /\ Latest(u[i].propsTs, {f[0][i].propsTs} \cup Renames(ops, i))
    BY <1>1, <2>1, <2>2, RenamesCount
  <2>4. QED
    BY <2>1, <2>3
<1>5. ASSUME ~t[i].there, NEW K \in Nat, K <= C,
             \A n \in 1..K : ~(s[n].op = "create" /\ s[n].id = i)
      PROVE  ~f[K][i].there
  <2> DEFINE G == [n \in 0..K |-> {v \in Tables(at) : ~v[i].there}]
  <2>1. f[0] \in G[0]
    BY <1>3, <1>5
  <2>2. ASSUME NEW n \in 1..K, f[n - 1] \in G[n - 1] PROVE f[n] \in G[n]
    <3>1. n - 1 \in 0..K /\ n \in 0..K /\ n - 1 \in 0..C /\ n \in 1..C /\ n \in 0..C
      BY <1>2, <1>5
    <3>2. /\ f[n] = Apply(f[n - 1], s[n], at) /\ f[n - 1] \in Tables(at) /\ f[n] \in Tables(at)
          /\ s[n] \in Op /\ ~f[n - 1][i].there
      BY <1>2, <1>3, <2>2, <3>1
    <3>3. ~(s[n].op = "create" /\ s[n].id = i)
      BY <1>5
    <3>4. ~f[n][i].there
      BY <3>2, <3>3, ApplyRow
    <3>5. QED
      BY <3>1, <3>2, <3>4
  <2> HIDE DEF G
  <2>3. \A n \in 0..K : f[n] \in G[n]
    BY <1>5, <2>1, <2>2, Through
  <2>4. QED
    BY <1>5, <2>3 DEF G
<1>6. ASSUME ~t[i].there, Makes(ops, i) = {} PROVE ~u[i].there
  <2>1. ASSUME NEW n \in 1..C, s[n].op = "create", s[n].id = i PROVE FALSE
    <3>1. s[n] \in ops
      BY <1>2
    <3>2. s[n].ts \in Makes(ops, i)
      BY <2>1, <3>1 DEF Makes
    <3>3. QED
      BY <1>6, <3>2
  <2>2. QED
    BY <1>1, <1>2, <1>5, <1>6, <2>1
<1>7. ASSUME ~t[i].there, Makes(ops, i) # {}
      PROVE  u[i].there /\ Latest(u[i].propsTs, Makes(ops, i) \cup Renames(ops, i))
  <2> DEFINE Made == {n \in 1..C : s[n].op = "create" /\ s[n].id = i}
  <2>1. PICK k \in Made : \A n \in Made : k <= n
    <3>1. Made # {} /\ Made \in SUBSET Nat
      BY <1>2, <1>7 DEF Makes
    <3> HIDE DEF Made
    <3>2. QED
      BY <3>1, SmallestNumber
  <2>2. /\ k \in 1..C /\ s[k].op = "create" /\ s[k].id = i
        /\ Makes(ops, i) = {s[k].ts}
    BY <1>2, <2>1 DEF Makes, Orderly
  <2>3. ASSUME NEW n \in 1..(k - 1)
        PROVE  s[n].op = "create" /\ s[n].id # i
    <3>1. n \in 1..C /\ k \in 1..C /\ ~First(s[k], s[n]) /\ ~(k <= n)
      BY <1>2, <2>2
    <3>2. s[n].op = "create"
      BY <2>2, <3>1 DEF First
    <3>3. QED
      BY <2>1, <3>1, <3>2
  <2>4. k - 1 \in Nat /\ k - 1 <= C /\ k - 1 \in 0..C /\ k \in 0..C
    BY <1>2, <2>2
  <2>5. ~f[k - 1][i].there
    <3>1. \A n \in 1..(k - 1) : ~(s[n].op = "create" /\ s[n].id = i)
      BY <2>3
    <3>2. QED
      BY <1>5, <1>7, <2>4, <3>1
  <2>6. f[k][i].there /\ f[k][i].propsTs = s[k].ts
    <3>1. f[k] = Apply(f[k - 1], s[k], at) /\ f[k - 1] \in Tables(at) /\ s[k] \in Op
      BY <1>2, <1>3, <2>2, <2>4
    <3>2. QED
      BY <2>2, <2>5, <3>1, ApplyRow
  <2>7. \A n \in 1..k : s[n].op # "update_properties" \/ s[n].id # i
    <3>1. \A n \in 1..k : n = k \/ n \in 1..(k - 1)
      BY <1>2, <2>2
    <3>2. QED
      BY <2>2, <2>3, <3>1
  <2>8. u[i].there /\ Latest(u[i].propsTs, {f[k][i].propsTs} \cup Renames(ops, i))
    BY <1>1, <2>4, <2>6, <2>7, RenamesCount
  <2>9. QED
    BY <2>2, <2>6, <2>8
<1>8. QED
  BY <1>4, <1>6, <1>7 DEF u
-----------------------------------------------------------------------------
(* What each device has to send: a queue that can be sorted, of creates    *)
(* under documents some device has made.                                   *)
Queues ==
    \A d \in Devices :
        /\ Orderly(outbox[d], now)
        /\ \A o \in outbox[d] :
              /\ o.ts <= now
              /\ o.op = "create" => o.id \in made /\ o.parent \in made \cup {NoId}

(* A row there was made by somebody and has the latest properties; one not *)
(* there has no properties.                                                *)
Known ==
    \A i \in Ids :
        /\ docs[i].there => i \in made /\ docs[i].propsTs = renamed[i]
        /\ ~docs[i].there => renamed[i] = 0
        /\ renamed[i] <= now

(* No PUT has changed a parent or a type.                                  *)
Checked == unguarded \cap {"move", "type"} = {}

Treed == Checked => Tree(docs, astray) /\ HomeAtRoot(docs)

IInv == TypeOK /\ Queues /\ Known /\ Rooted(docs) /\ Treed /\ HomeSafe

LEMMA TablesGrow ==
    ASSUME NEW a \in Nat, NEW b \in Nat, a <= b
    PROVE  Tables(a) \subseteq Tables(b)
<1>1. 0..a \subseteq 0..b
  OBVIOUS
<1>2. QED
  BY <1>1 DEF Tables

(* Time, whether it passes or not.                                         *)
LEMMA Clock ==
    ASSUME TypeOK
    PROVE  /\ now \in Nat /\ now + 1 \in Nat /\ now \in 0..MaxTs /\ MaxTs \in Nat
           /\ docs \in Tables(now + 1) /\ docs \in Tables(now) /\ astray \in SUBSET Ids
           /\ Tick => now' \in 0..MaxTs /\ now' = now + 1 /\ now + 1 \in 1..MaxTs
<1>1. now \in Nat /\ now \in 0..MaxTs /\ MaxTs \in Nat /\ astray \in SUBSET Ids
  BY DocTreeAssumption DEF TypeOK
<1>2. docs \in Tables(now)
  BY DEF TypeOK
<1>3. docs \in Tables(now + 1)
  BY <1>1, <1>2, TablesGrow
<1>4. Tick => now' \in 0..MaxTs /\ now' = now + 1 /\ now + 1 \in 1..MaxTs
  BY <1>1 DEF Tick
<1>5. QED
  BY <1>1, <1>2, <1>3, <1>4

LEMMA OrderlyLater ==
    ASSUME NEW a \in Nat, NEW b \in Nat, a <= b, NEW ops, Orderly(ops, a)
    PROVE  Orderly(ops, b)
<1>1. PICK rank \in [ops -> 0..a] : \A x, y \in ops :
          x.op = "create" /\ y.op = "create" =>
              (rank[x] = rank[y] => x = y) /\ (y.parent = x.id => rank[x] < rank[y])
  BY DEF Orderly
<1>2. rank \in [ops -> 0..b]
  OBVIOUS
<1>3. QED
  BY <1>1, <1>2 DEF Orderly

LEMMA QueuesKept ==
    ASSUME IInv, outbox' = outbox, now' \in {now, now + 1}, made \subseteq made'
    PROVE  Queues'
<1>1. now \in Nat /\ now' \in Nat /\ now <= now'
  BY Clock DEF IInv
<1>2. \A d \in Devices : \A o \in outbox[d] : o.ts \in Nat
  BY DocTreeAssumption DEF IInv, TypeOK, Op
<1>3. \A d \in Devices : \A o \in outbox[d] : o.ts <= now'
  BY <1>1, <1>2 DEF IInv, Queues
<1>4. \A d \in Devices : Orderly(outbox[d], now')
  BY <1>1, OrderlyLater DEF IInv, Queues
<1>5. QED
  BY <1>3, <1>4 DEF IInv, Queues, Orderly

(* A step that changes no row's presence or properties.                    *)
Unnamed(t, u) == \A i \in Ids : u[i].there = t[i].there /\ u[i].propsTs = t[i].propsTs

LEMMA KnownKept ==
    ASSUME IInv, now' \in {now, now + 1}, made \subseteq made', renamed' = renamed, Unnamed(docs, docs')
    PROVE  Known'
<1>1. now \in Nat /\ \A i \in Ids : renamed[i] \in Nat
  BY Clock, DocTreeAssumption DEF IInv, TypeOK
<1>2. \A i \in Ids : renamed[i] <= now'
  BY <1>1 DEF IInv, Known
<1>3. QED
  BY <1>2 DEF IInv, Known, Unnamed

(* A table that one of the changes above made of the last.                 *)
LEMMA TreedKept ==
    ASSUME IInv, Kept(docs, docs', astray'), astray \subseteq astray', astray' \in SUBSET Ids,
           unguarded \subseteq unguarded'
    PROVE  Rooted(docs)' /\ Treed'
<1>1. Rooted(docs')
  BY DEF Kept
<1>2. SUFFICES ASSUME Checked' PROVE Tree(docs', astray') /\ HomeAtRoot(docs')
  BY <1>1 DEF Treed, Rooted, Tree, Placed, Level, NoneUnderItself, HomeAtRoot
<1>3. Tree(docs, astray) /\ HomeAtRoot(docs) /\ astray \in SUBSET Ids
  BY <1>2, Clock DEF IInv, Treed, Checked
<1>4. Tree(docs, astray')
  BY <1>3, MoreAstray
<1>5. QED
  BY <1>3, <1>4 DEF Kept

LEMMA Start == Init => IInv
<1> SUFFICES ASSUME Init PROVE IInv
  OBVIOUS
<1>1. Home \in Ids /\ Home # NoId /\ 0 \in 0..MaxTs /\ MaxTs \in Nat /\ made \subseteq Ids
      /\ Home \in made
  BY DocTreeAssumption DEF Init
<1>2. ASSUME NEW i \in Ids
      PROVE  /\ docs[i] \in Rows(0) /\ docs[i].propsTs = 0 /\ docs[i].status = {}
             /\ docs[i].structTs = 0
             /\ docs[i].there <=> i \in made
             /\ docs[i].space <=> i = Home
             /\ docs[i].parent = IF i \in made /\ i # Home THEN Home ELSE NoId
  <2>1. docs[i] = IF i = Home THEN RowAt(TRUE, NoId, 0)
                  ELSE IF i \in made THEN RowAt(FALSE, Home, 0) ELSE NoRow
    BY DEF Init
  <2>5. 0 \in Nat /\ 0 \in 0..0 /\ NoId \in Ids \cup {NoId} /\ Home \in Ids \cup {NoId}
    BY <1>1
  <2>2. CASE i = Home
    BY <1>1, <2>1, <2>2, <2>5 DEF RowAt, NoRow, Rows
  <2>3. CASE i # Home /\ i \in made
    BY <1>1, <2>1, <2>3, <2>5 DEF RowAt, NoRow, Rows
  <2>4. CASE i # Home /\ i \notin made
    BY <1>1, <2>1, <2>4 DEF NoRow, Rows
  <2>6. QED
    BY <1>1, <2>2, <2>3, <2>4
<1>3. docs \in Tables(0)
  <2>1. docs \in [Ids -> Rows(0)]
    BY <1>2 DEF Init
  <2>2. QED
    BY <2>1, TableOfRows
<1>4. TypeOK
  BY <1>1, <1>3 DEF Init, TypeOK
<1>5. Queues
  <2>1. Orderly({}, 0)
    <3>1. [x \in {} |-> 0] \in [{} -> 0..0]
      OBVIOUS
    <3>2. QED
      BY <3>1, FS_EmptySet DEF Orderly
  <2>2. QED
    BY <2>1 DEF Init, Queues
<1>6. Known
  <2>1. \A i \in Ids : renamed[i] = 0 /\ now = 0
    BY DEF Init
  <2>2. \A i \in Ids : docs[i].there => i \in made
    BY <1>2
  <2>3. \A i \in Ids : docs[i].propsTs = 0
    BY <1>2
  <2>4. QED
    BY <2>1, <2>2, <2>3 DEF Known
<1>7. Rooted(docs) /\ HomeAtRoot(docs)
  BY <1>1, <1>2 DEF Rooted, HomeAtRoot
<1>8. Placed(docs, astray)
  BY <1>1, <1>2 DEF Placed
<1>9. NoneUnderItself(docs)
  <2> SUFFICES ASSUME NEW S \in SUBSET Ids, S # {} PROVE \E i \in S : docs[i].parent \notin S
    BY DEF NoneUnderItself
  <2>1. CASE Home \in S
    BY <1>1, <1>2, <2>1, DocTreeAssumption
  <2>2. CASE Home \notin S
    BY <1>2, <2>2, DocTreeAssumption
  <2>3. QED
    BY <2>1, <2>2
<1>10. HomeSafe
  BY <1>1, <1>2 DEF HomeSafe
<1>11. QED
  BY <1>4, <1>5, <1>6, <1>7, <1>8, <1>9, <1>10 DEF IInv, Treed, Tree
-----------------------------------------------------------------------------
LEMMA QueueKeeps ==
    ASSUME IInv, Tick, NEW d \in Devices, NEW o \in Op, o.ts <= now + 1, Queue(d, o),
           made \subseteq made', made' \subseteq Ids, o.op # "create" => o.ts = now + 1,
           o.op = "create" => /\ o.id \notin made /\ o.id \in made'
                              /\ o.parent \in made \cup {NoId}
    PROVE  IInv'
<1> DEFINE old == outbox[d]
           new == old \cup {o}
<1>1. /\ outbox' = [outbox EXCEPT ![d] = new] /\ UNCHANGED <<docs, renamed, astray, unguarded>>
      /\ now' = now + 1 /\ now \in Nat /\ old \subseteq Op
  BY Clock DEF Queue, IInv, TypeOK
<1>2. TypeOK'
  <2>1. docs' \in Tables(now)'
    BY <1>1, Clock DEF IInv, Tables
  <2>2. QED
    BY <1>1, <2>1, Clock DEF IInv, TypeOK
<1>3. Orderly(old, now) /\ \A a \in old : a.ts <= now
  BY DEF IInv, Queues
<1>4. \A a \in old : a.op = "create" => a.id \in made /\ a.parent \in made \cup {NoId}
  BY DEF IInv, Queues
<1>5. Orderly(new, now + 1)
  <2>1. IsFiniteSet(new) /\ new \subseteq Op
    BY <1>1, <1>3, FS_AddElement DEF Orderly
  <2>2. o.op = "create" => o.parent # o.id
    BY DocTreeAssumption DEF Op
  <2>3. \A a \in new : a.op = "create" => a.parent # a.id
    BY <1>3, <2>2 DEF Orderly
  <2>4. \A a \in old : a.op # "create" /\ o.op # "create" => a.ts # o.ts
    <3>1. \A a \in old : a.ts \in Nat /\ a.ts <= now
      <4>1. \A a \in Op : a.ts \in Nat
        BY DocTreeAssumption DEF Op
      <4>2. QED
        BY <1>1, <1>3, <4>1
    <3>2. o.op # "create" => o.ts = now + 1 /\ now \in Nat
      BY <1>1
    <3> HIDE DEF old
    <3>3. QED
      BY <3>1, <3>2
  <2>5. \A a \in old : a.op = "create" /\ o.op = "create" => a.id # o.id /\ a.parent # o.id
    <3>1. o.id # NoId
      BY DocTreeAssumption DEF Op
    <3> HIDE DEF old
    <3>2. QED
      BY <1>4, <3>1
  <2>6. ASSUME NEW a \in new, NEW b \in new
        PROVE  /\ a.op = "create" /\ b.op = "create" /\ a.id = b.id => a = b
               /\ a.op # "create" /\ b.op # "create" /\ a.ts = b.ts => a = b
    <3>1. CASE a \in old /\ b \in old
      BY <1>3, <3>1 DEF Orderly
    <3>2. CASE a \in old /\ b = o
      BY <2>4, <2>5, <3>2
    <3>3. CASE a = o /\ b \in old
      BY <2>4, <2>5, <3>3
    <3>4. CASE a = o /\ b = o
      BY <3>4
    <3>5. QED
      BY <3>1, <3>2, <3>3, <3>4
  <2>7. \E rank \in [new -> 0..(now + 1)] : \A a, b \in new :
           a.op = "create" /\ b.op = "create" =>
               (rank[a] = rank[b] => a = b) /\ (b.parent = a.id => rank[a] < rank[b])
    <3>1. PICK was \in [old -> 0..now] : \A a, b \in old :
             a.op = "create" /\ b.op = "create" =>
                 (was[a] = was[b] => a = b) /\ (b.parent = a.id => was[a] < was[b])
      BY <1>3 DEF Orderly
    <3> DEFINE rank == [a \in new |-> IF a \in old THEN was[a] ELSE now + 1]
    <3>2. rank \in [new -> 0..(now + 1)]
      BY <1>1
    <3>3. /\ \A a \in old : rank[a] = was[a] /\ was[a] \in 0..now
          /\ o \notin old => rank[o] = now + 1
      OBVIOUS
    <3>4. \A a \in new : a = o \/ a \in old
      OBVIOUS
    <3> HIDE DEF rank, new, old
    <3>5. ASSUME NEW a \in new, NEW b \in new, a.op = "create", b.op = "create"
          PROVE  (rank[a] = rank[b] => a = b) /\ (b.parent = a.id => rank[a] < rank[b])
      <4>1. CASE a \in old /\ b \in old
        BY <3>1, <3>3, <3>5, <4>1
      <4>2. CASE a \in old /\ b \notin old
        <5>1. b = o
          BY <3>4, <4>2
        <5>2. rank[a] \in 0..now /\ rank[b] = now + 1
          BY <3>3, <4>2, <5>1
        <5>3. QED
          BY <1>1, <5>2
      <4>3. CASE a \notin old /\ b \in old
        <5>1. a = o
          BY <3>4, <4>3
        <5>2. rank[b] \in 0..now /\ rank[a] = now + 1 /\ b.parent # a.id
          BY <2>5, <3>3, <3>5, <4>3, <5>1
        <5>3. QED
          BY <1>1, <5>2
      <4>4. CASE a \notin old /\ b \notin old
        <5>1. a = o /\ b = o
          BY <3>4, <4>4
        <5>2. QED
          BY <2>2, <3>5, <5>1
      <4>5. QED
        BY <4>1, <4>2, <4>3, <4>4
    <3>6. QED
      BY <3>2, <3>5
  <2> HIDE DEF new, old
  <2>8. QED
    BY <2>1, <2>3, <2>6, <2>7 DEF Orderly
<1>6. Queues'
  <2> SUFFICES ASSUME NEW e \in Devices
               PROVE  /\ Orderly(outbox'[e], now')
                      /\ \A a \in outbox'[e] :
                            /\ a.ts <= now'
                            /\ a.op = "create" => a.id \in made' /\ a.parent \in made' \cup {NoId}
    BY DEF Queues, Orderly
  <2>1. outbox'[e] = IF e = d THEN new ELSE outbox[e]
    BY <1>1 DEF IInv, TypeOK
  <2>2. \A a \in outbox[e] : a.ts \in Nat
    BY DocTreeAssumption DEF IInv, TypeOK, Op
  <2>3. \A a \in outbox[e] : /\ a.ts <= now'
                             /\ a.op = "create" => a.id \in made' /\ a.parent \in made' \cup {NoId}
    BY <1>1, <2>2 DEF IInv, Queues
  <2>4. o.ts <= now' /\ (o.op = "create" => o.id \in made' /\ o.parent \in made' \cup {NoId})
    BY <1>1
  <2>5. Orderly(outbox[e], now')
    <3>1. Orderly(outbox[e], now) /\ now \in Nat /\ now' \in Nat /\ now <= now'
      BY <1>1 DEF IInv, Queues
    <3>2. QED
      BY <3>1, OrderlyLater
  <2>6. Orderly(new, now')
    BY <1>1, <1>5
  <2> HIDE DEF new
  <2>7. QED
    BY <2>1, <2>3, <2>4, <2>5, <2>6 DEF new
<1>7. Known'
  BY <1>1, KnownKept DEF Unnamed
<1>8. Rooted(docs)' /\ Treed'
  <2>1. Kept(docs, docs', astray') /\ astray' = astray /\ astray \in SUBSET Ids
    BY <1>1, Clock DEF IInv, Kept
  <2>2. QED
    BY <1>1, <2>1, TreedKept
<1>9. HomeSafe'
  BY <1>1 DEF IInv, HomeSafe
<1>10. QED
  BY <1>2, <1>6, <1>7, <1>8, <1>9 DEF IInv

LEMMA MakeKeeps ==
    ASSUME IInv, NEW d \in Devices, NEW i \in Ids, NEW space \in BOOLEAN,
           NEW parent \in Ids \cup {NoId}, MakeDocument(d, i, space, parent) \/ MakeChange(d, i)
    PROVE  IInv'
<1>1. /\ now + 1 \in 1..MaxTs /\ {} \in SUBSET Bits /\ {"trashed"} \in SUBSET Bits
      /\ NoId \in Ids \cup {NoId} /\ Tick /\ now \in Nat /\ MaxTs \in Nat
  BY Clock DEF IInv, Bits, MakeDocument, MakeChange
<1>2. CASE MakeDocument(d, i, space, parent)
  <2>1. PICK ts \in 1..(now + 1) :
           Queue(d, [op |-> "create", id |-> i, ts |-> ts, space |-> space, parent |-> parent,
                     status |-> {}])
    BY <1>2 DEF MakeDocument
  <2> DEFINE o == [op |-> "create", id |-> i, ts |-> ts, space |-> space, parent |-> parent,
                   status |-> {}]
  <2>2. i \notin made /\ made' = made \cup {i} /\ parent \in made \cup {NoId} /\ made' \subseteq Ids
    BY <1>2 DEF MakeDocument, IInv, TypeOK
  <2>3. o \in Op /\ o.ts <= now + 1 /\ o.op = "create" /\ o.id = i /\ o.parent = parent
    <3>1. ts \in 1..MaxTs /\ ts <= now + 1
      BY <1>1
    <3>2. QED
      BY <1>1, <3>1 DEF Op
  <2> HIDE DEF o
  <2>4. Queue(d, o)
    BY <2>1 DEF o
  <2>5. QED
    BY <1>1, <2>2, <2>3, <2>4, QueueKeeps
<1>3. CASE MakeChange(d, i)
  <2>1. PICK kind \in {"delete", "reposition", "update_properties", "update_status"},
             p \in Ids \cup {NoId}, status \in SUBSET Bits :
                Queue(d, MakeOp(kind, i, p, status))
    BY <1>1, <1>3 DEF MakeChange
  <2>2. /\ MakeOp(kind, i, p, status) \in Op /\ MakeOp(kind, i, p, status).ts = now + 1
        /\ MakeOp(kind, i, p, status).op # "create"
    BY <1>1 DEF MakeOp, Op
  <2>3. made' = made /\ made \subseteq Ids
    BY <1>3 DEF MakeChange, IInv, TypeOK
  <2>4. QED
    BY <1>1, <2>1, <2>2, <2>3, QueueKeeps
<1>4. QED
  BY <1>2, <1>3

LEMMA EnsureKeeps == ASSUME IInv, NEW i \in Ids, EnsureDocument(i) PROVE IInv'
<1> DEFINE row == RowAt(FALSE, NoId, 0)
<1>1. /\ i \in made /\ ~docs[i].there /\ docs' = [docs EXCEPT ![i] = row]
      /\ UNCHANGED <<now, made, outbox, renamed, astray, unguarded>>
      /\ docs \in Tables(now) /\ now \in Nat /\ astray \in SUBSET Ids
  BY Clock DEF EnsureDocument, IInv
<1>2. /\ row \in Rows(now) /\ row.there /\ row.space = FALSE /\ row.parent = NoId
      /\ row.structTs = 0 /\ row.propsTs = 0 /\ row.status = {}
  <2>1. 0 \in 0..now /\ NoId \in Ids \cup {NoId}
    BY <1>1
  <2>2. QED
    BY <1>1, <2>1 DEF RowAt, NoRow, Rows
<1> HIDE DEF row
<1>3. docs'[i] = row /\ \A j \in Ids \ {i} : docs'[j] = docs[j]
  BY <1>1 DEF Tables
<1>4. TypeOK'
  <2>1. docs' \in [Ids -> Rows(now)]
    <3>1. docs \in [Ids -> Rows(now)]
      BY <1>1, TableOfRows
    <3>2. QED
      BY <1>1, <1>2, <3>1
  <2>2. docs' \in Tables(now)
    BY <1>1, <2>1, TableOfRows
  <2>3. QED
    BY <1>1, <2>2 DEF IInv, TypeOK, Tables
<1>5. Queues'
  BY <1>1, QueuesKept
<1>6. Known'
  BY <1>1, <1>2, <1>3 DEF IInv, Known
<1>7. Rooted(docs)' /\ Treed'
  <2>1. NoId \in Ids \cup {NoId} /\ Rooted(docs)
    BY DEF IInv
  <2>2. docs'[i].there /\ docs'[i].parent = NoId /\ docs'[i].space = FALSE /\ docs'[i].structTs = 0
    BY <1>2, <1>3
  <2>3. Kept(docs, docs', astray)
    BY <1>1, <1>3, <2>1, <2>2, MadeTree
  <2>4. QED
    BY <1>1, <2>3, TreedKept
<1>8. HomeSafe'
  BY <1>1, <1>2, <1>3, DocTreeAssumption DEF IInv, HomeSafe
<1>9. QED
  BY <1>4, <1>5, <1>6, <1>7, <1>8 DEF IInv

LEMMA PostKeeps ==
    ASSUME IInv, NEW i \in Ids, NEW space \in BOOLEAN, NEW parent \in Ids \cup {NoId},
           Post(i, space, parent)
    PROVE  IInv'
<1> DEFINE row == RowAt(space, parent, now + 1)
<1>1. /\ i \notin made /\ (parent # NoId => docs[parent].there)
      /\ made' = made \cup {i} /\ docs' = [docs EXCEPT ![i] = row]
      /\ renamed' = [renamed EXCEPT ![i] = now + 1] /\ UNCHANGED <<outbox, unguarded>>
      /\ astray' = IF OutOfPlace(space, parent) THEN astray \cup {i} ELSE astray
      /\ now' = now + 1 /\ now + 1 \in 1..MaxTs /\ now \in Nat /\ docs \in Tables(now + 1)
      /\ astray \in SUBSET Ids
  BY Clock DEF Post, IInv
<1>2. ~docs[i].there
  BY <1>1 DEF IInv, Known
<1>3. /\ row \in Rows(now + 1) /\ row.there /\ row.space = space /\ row.parent = parent
      /\ row.propsTs = now + 1 /\ row.status = {}
  <2>1. now + 1 \in 0..(now + 1) /\ now + 1 \in Nat
    BY <1>1
  <2>2. QED
    BY <2>1, NewRow
<1> HIDE DEF row
<1>4. docs'[i] = row /\ \A j \in Ids \ {i} : docs'[j] = docs[j]
  BY <1>1 DEF Tables
<1>5. TypeOK'
  <2>1. docs' \in Tables(now + 1)
    <3>1. docs \in [Ids -> Rows(now + 1)]
      BY <1>1, TableOfRows
    <3>2. docs' \in [Ids -> Rows(now + 1)]
      BY <1>1, <1>3, <3>1
    <3>3. QED
      BY <1>1, <3>2, TableOfRows
  <2>2. renamed' \in [Ids -> 0..MaxTs] /\ now' \in 0..MaxTs /\ made' \subseteq Ids /\ astray' \subseteq Ids
    BY <1>1, DocTreeAssumption DEF IInv, TypeOK
  <2>3. QED
    BY <1>1, <2>1, <2>2 DEF IInv, TypeOK, Tables
<1>6. Queues'
  BY <1>1, QueuesKept
<1>7. Known'
  <2> SUFFICES ASSUME NEW j \in Ids
               PROVE  /\ docs'[j].there => j \in made' /\ docs'[j].propsTs = renamed'[j]
                      /\ ~docs'[j].there => renamed'[j] = 0
                      /\ renamed'[j] <= now'
    BY DEF Known
  <2>1. renamed'[j] = IF j = i THEN now + 1 ELSE renamed[j]
    BY <1>1 DEF IInv, TypeOK
  <2>2. renamed[j] \in Nat /\ renamed[j] <= now
    BY DocTreeAssumption DEF IInv, TypeOK, Known
  <2>3. QED
    BY <1>1, <1>3, <1>4, <2>1, <2>2 DEF IInv, Known
<1>8. Rooted(docs)' /\ Treed'
  <2>1. Rooted(docs) /\ astray' \in SUBSET Ids /\ astray \subseteq astray'
    BY <1>1 DEF IInv
  <2>2. docs'[i].there /\ docs'[i].parent = parent /\ docs'[i].space = space
    BY <1>3, <1>4
  <2>3. OutOfPlace(docs'[i].space, parent) => i \in astray'
    BY <1>1, <2>2
  <2>4. Kept(docs, docs', astray')
    BY <1>1, <1>2, <1>4, <2>1, <2>2, <2>3, MadeTree
  <2>5. QED
    BY <1>1, <2>1, <2>4, TreedKept
<1>9. HomeSafe'
  BY <1>1, <1>3, <1>4, DocTreeAssumption DEF IInv, HomeSafe
<1>10. QED
  BY <1>5, <1>6, <1>7, <1>8, <1>9 DEF IInv

LEMMA PatchKeeps ==
    ASSUME IInv, NEW i \in Ids, NEW parent \in Ids \cup {NoId}, PatchReposition(i, parent)
    PROVE  IInv'
<1>1. PICK ts \in {now, now + 1} :
        docs' = [docs EXCEPT ![i].parent = parent, ![i].structTs = ts]
  BY DEF PatchReposition
<1>2. /\ docs[i].there /\ MayMove(docs, i, parent)
      /\ UNCHANGED <<made, outbox, renamed, astray, unguarded>>
      /\ now' = now + 1 /\ now' \in 0..MaxTs /\ now \in Nat /\ docs \in Tables(now + 1)
      /\ astray \in SUBSET Ids
  BY Clock DEF PatchReposition, IInv
<1>3. ts \in 0..(now + 1)
  BY <1>1, <1>2
<1>4. docs' \in Tables(now + 1)
  BY <1>1, <1>2, <1>3 DEF Tables
<1>5. /\ Unnamed(docs, docs') /\ \A j \in Ids : docs'[j].status = docs[j].status
  BY <1>1, <1>2 DEF Unnamed, Tables
<1>6. TypeOK'
  BY <1>2, <1>4 DEF IInv, TypeOK, Tables
<1>7. Queues' /\ Known'
  BY <1>2, <1>5, QueuesKept, KnownKept
<1>8. Rooted(docs)' /\ Treed'
  <2>1. Rooted(docs)
    BY DEF IInv
  <2>2. Kept(docs, docs', astray)
    BY <1>1, <1>2, <2>1, MovedTree
  <2>3. QED
    BY <1>2, <2>2, TreedKept
<1>9. HomeSafe'
  BY <1>2, <1>5, DocTreeAssumption DEF IInv, HomeSafe
<1>10. QED
  BY <1>6, <1>7, <1>8, <1>9 DEF IInv

(* The row a PUT leaves, and its clocks.                                   *)
LEMMA PutRow ==
    ASSUME IInv, NEW i \in Ids, NEW space \in BOOLEAN, NEW parent \in Ids \cup {NoId},
           NEW renames \in BOOLEAN, Put(i, space, parent, renames)
    PROVE  /\ docs' \in Tables(now + 1) /\ \A j \in Ids \ {i} : docs'[j] = docs[j]
           /\ docs'[i].there = docs[i].there /\ docs'[i].space = space /\ docs'[i].parent = parent
           /\ docs'[i].structTs = docs[i].structTs /\ docs'[i].statusTs = docs[i].statusTs
           /\ docs'[i].status = docs[i].status
           /\ docs'[i].propsTs = IF renames THEN now + 1 ELSE docs[i].propsTs
<1> DEFINE ts == IF renames THEN now + 1 ELSE docs[i].propsTs
<1>1. /\ docs' = [docs EXCEPT ![i].space = space, ![i].parent = parent,
                              ![i].propsTs = IF renames THEN now + 1 ELSE @]
      /\ docs \in Tables(now + 1) /\ now + 1 \in Nat
  BY Clock DEF Put, IInv
<1>2. docs \in [Ids -> Rows(now + 1)]
  BY <1>1, TableOfRows
<1>3. docs' = [docs EXCEPT ![i] = [docs[i] EXCEPT !.space = space, !.parent = parent, !.propsTs = ts]]
  BY <1>1, <1>2 DEF Rows
<1>4. docs[i] \in Rows(now + 1) /\ ts \in 0..(now + 1)
  BY <1>1, <1>2 DEF Rows
<1> DEFINE row == [docs[i] EXCEPT !.space = space, !.parent = parent, !.propsTs = ts]
<1> HIDE DEF ts
<1>5. /\ row \in Rows(now + 1)
      /\ row.there = docs[i].there /\ row.space = space /\ row.parent = parent
      /\ row.structTs = docs[i].structTs /\ row.statusTs = docs[i].statusTs
      /\ row.status = docs[i].status /\ row.propsTs = ts
  BY <1>4 DEF Rows
<1> HIDE DEF row
<1>6. docs' = [docs EXCEPT ![i] = row]
  BY <1>3 DEF row
<1>7. docs' \in [Ids -> Rows(now + 1)] /\ docs'[i] = row /\ \A j \in Ids \ {i} : docs'[j] = docs[j]
  BY <1>2, <1>5, <1>6
<1>8. docs' \in Tables(now + 1)
  BY <1>7, TableOfRows
<1>9. QED
  BY <1>5, <1>7, <1>8 DEF ts

LEMMA PutKeeps ==
    ASSUME IInv, NEW i \in Ids, NEW space \in BOOLEAN, NEW parent \in Ids \cup {NoId},
           NEW renames \in BOOLEAN, Put(i, space, parent, renames)
    PROVE  IInv'
<1>1. /\ docs[i].there /\ UNCHANGED <<made, outbox, astray>>
      /\ (parent # NoId => docs[parent].there)
      /\ unguarded' = unguarded \cup (IF parent # docs[i].parent THEN {"move"} ELSE {})
                                \cup (IF space # docs[i].space THEN {"type"} ELSE {})
      /\ renamed' = IF renames THEN [renamed EXCEPT ![i] = now + 1] ELSE renamed
      /\ now' = now + 1 /\ now' \in 0..MaxTs /\ now \in Nat /\ docs \in Tables(now + 1)
      /\ astray \in SUBSET Ids
  BY Clock DEF Put, IInv
<1>2. /\ docs' \in Tables(now + 1) /\ \A j \in Ids \ {i} : docs'[j] = docs[j]
      /\ docs'[i].there = docs[i].there /\ docs'[i].space = space /\ docs'[i].parent = parent
      /\ docs'[i].structTs = docs[i].structTs /\ docs'[i].status = docs[i].status
      /\ docs'[i].propsTs = IF renames THEN now + 1 ELSE docs[i].propsTs
  BY PutRow
<1>3. TypeOK'
  <2>1. renamed' \in [Ids -> 0..MaxTs]
    BY <1>1 DEF IInv, TypeOK
  <2>2. unguarded' \subseteq {"move", "type", "status"}
    BY <1>1 DEF IInv, TypeOK
  <2>3. QED
    BY <1>1, <1>2, <2>1, <2>2 DEF IInv, TypeOK, Tables
<1>4. Queues'
  BY <1>1, QueuesKept
<1>5. Known'
  <2> SUFFICES ASSUME NEW j \in Ids
               PROVE  /\ docs'[j].there => j \in made' /\ docs'[j].propsTs = renamed'[j]
                      /\ ~docs'[j].there => renamed'[j] = 0
                      /\ renamed'[j] <= now'
    BY DEF Known
  <2>1. renamed'[j] = IF j = i /\ renames THEN now + 1 ELSE renamed[j]
    BY <1>1 DEF IInv, TypeOK
  <2>2. renamed[j] \in Nat /\ renamed[j] <= now
    BY DocTreeAssumption DEF IInv, TypeOK, Known
  <2>3. /\ docs'[j].there = docs[j].there
        /\ docs'[j].propsTs = IF j = i /\ renames THEN now + 1 ELSE docs[j].propsTs
    BY <1>2
  <2>4. j = i => docs[j].there
    BY <1>1
  <2>5. QED
    BY <1>1, <2>1, <2>2, <2>3, <2>4 DEF IInv, Known
<1>6. Rooted(docs')
  <2>1. Rooted(docs) /\ \A j \in Ids : docs[j].parent \in Ids \cup {NoId}
    BY <1>1 DEF IInv, Tables
  <2>2. \A j \in Ids : docs'[j].there = docs[j].there
    BY <1>2
  <2>3. QED
    BY <1>1, <1>2, <2>1, <2>2 DEF Rooted
<1>7. Rooted(docs)' /\ Treed'
  <2>1. CASE Checked'
    <3>1. parent = docs[i].parent /\ space = docs[i].space
      BY <1>1, <2>1 DEF Checked
    <3>2. SameShape(docs, docs')
      BY <1>2, <3>1 DEF SameShape
    <3>3. Kept(docs, docs', astray)
      BY <1>1, <3>2, SameTree DEF IInv
    <3>4. QED
      BY <1>1, <3>3, TreedKept
  <2>2. CASE ~Checked'
    BY <1>6, <2>2 DEF Treed, Rooted
  <2>3. QED
    BY <2>1, <2>2
<1>8. HomeSafe'
  <2>1. docs'[Home].status = docs[Home].status
    BY <1>2, DocTreeAssumption
  <2>2. QED
    BY <1>1, <2>1 DEF IInv, HomeSafe
<1>9. QED
  BY <1>3, <1>4, <1>5, <1>7, <1>8 DEF IInv
-----------------------------------------------------------------------------
(* The requests that change nothing but a status.                          *)
LEMMA StatusKeeps ==
    ASSUME IInv, Tick, UNCHANGED <<made, outbox, renamed, astray, unguarded>>,
           docs' \in Tables(now + 1), SameShape(docs, docs'), Unnamed(docs, docs'),
           unguarded = {} => Safe(docs')
    PROVE  IInv'
<1>1. now' = now + 1 /\ now' \in 0..MaxTs /\ docs \in Tables(now) /\ astray \in SUBSET Ids
  BY Clock DEF IInv
<1>2. TypeOK'
  BY <1>1 DEF IInv, TypeOK, Tables
<1>3. Queues' /\ Known'
  BY <1>1, QueuesKept, KnownKept
<1>4. Rooted(docs)' /\ Treed'
  <2>1. Kept(docs, docs', astray)
    BY <1>1, SameTree DEF IInv
  <2>2. QED
    BY <1>1, <2>1, TreedKept
<1>5. HomeSafe'
  BY DEF HomeSafe, Safe
<1>6. QED
  BY <1>2, <1>3, <1>4, <1>5 DEF IInv

LEMMA TrashKeeps ==
    ASSUME IInv, NEW i \in Ids, NEW bits \in {{}, {"trashed"}}, Trash(i, bits)
    PROVE  IInv'
<1>1. /\ Tick /\ UNCHANGED <<made, outbox, renamed, astray, unguarded>> /\ (bits # {} => i # Home)
      /\ docs' = [j \in Ids |->
            IF j \in Subtree(docs, i)
            THEN [docs[j] EXCEPT !.status = (@ \ {"trashed"}) \cup bits, !.statusTs = now + 1]
            ELSE docs[j]]
      /\ docs \in Tables(now + 1) /\ docs \in Tables(now)
      /\ now + 1 \in Nat /\ bits \in SUBSET Bits
  BY Clock DEF Trash, IInv, Bits
<1>2. now + 1 \in 0..(now + 1)
  <2>1. now \in Nat
    BY Clock DEF IInv
  <2>2. QED
    BY <2>1
<1>3. docs' \in Tables(now + 1)
  <2>1. \A j \in Ids : (docs[j].status \ {"trashed"}) \cup bits \in SUBSET Bits
    BY <1>1 DEF Tables
  <2>2. \A j \in Ids : docs[j] \in Rows(now + 1)
    BY <1>1, TableOfRows
  <2> DEFINE row(j) == [docs[j] EXCEPT !.status = (@ \ {"trashed"}) \cup bits, !.statusTs = now + 1]
  <2>3. \A j \in Ids : row(j) \in Rows(now + 1)
    BY <1>2, <2>1, <2>2 DEF Rows
  <2> HIDE DEF row
  <2>4. docs' = [j \in Ids |-> IF j \in Subtree(docs, i) THEN row(j) ELSE docs[j]]
    BY <1>1 DEF row
  <2>5. docs' \in [Ids -> Rows(now + 1)]
    BY <2>2, <2>3, <2>4
  <2>6. QED
    BY <2>5, TableOfRows
<1>4. SameShape(docs, docs') /\ Unnamed(docs, docs')
  BY <1>1 DEF SameShape, Unnamed, Tables
<1>5. ASSUME unguarded = {} PROVE Safe(docs')
  <2>1. HomeAtRoot(docs) /\ Safe(docs) /\ Home \in Ids
    BY <1>5, DocTreeAssumption DEF IInv, Treed, Checked, HomeSafe, Safe
  <2>2. bits # {} => Home \notin Subtree(docs, i)
    BY <1>1, <2>1, HomeAlone
  <2>3. docs'[Home].status = docs[Home].status \/
        (bits = {} /\ docs'[Home].status = docs[Home].status \ {"trashed"})
    BY <1>1, <2>1, <2>2 DEF Tables
  <2>4. QED
    BY <2>1, <2>3 DEF Safe
<1>6. QED
  BY <1>1, <1>3, <1>4, <1>5, StatusKeeps

LEMMA ArchiveKeeps ==
    ASSUME IInv, NEW i \in Ids, NEW bits \in {{}, {"archived"}}, Archive(i, bits)
    PROVE  IInv'
<1>1. /\ Tick /\ UNCHANGED <<made, outbox, renamed, astray, unguarded>>
      /\ docs' = [docs EXCEPT ![i].status = (@ \ {"archived"}) \cup bits, ![i].statusTs = now + 1]
      /\ docs \in Tables(now + 1) /\ now + 1 \in Nat /\ bits \in SUBSET Bits
  BY Clock DEF Archive, IInv, Bits
<1>2. docs' \in Tables(now + 1)
  <2>1. (docs[i].status \ {"archived"}) \cup bits \in SUBSET Bits
    BY <1>1 DEF Tables
  <2>2. now + 1 \in 0..(now + 1)
    BY <1>1
  <2>3. QED
    BY <1>1, <2>1, <2>2 DEF Tables
<1>3. SameShape(docs, docs') /\ Unnamed(docs, docs')
  BY <1>1 DEF SameShape, Unnamed, Tables
<1>4. ASSUME unguarded = {} PROVE Safe(docs')
  <2>1. Safe(docs) /\ Home \in Ids
    BY <1>4, DocTreeAssumption DEF IInv, HomeSafe, Safe
  <2>2. docs'[Home].status = docs[Home].status \/
        docs'[Home].status = (docs[Home].status \ {"archived"}) \cup bits
    BY <1>1, <2>1 DEF Tables
  <2>3. QED
    BY <2>1, <2>2 DEF Safe
<1>5. QED
  BY <1>1, <1>2, <1>3, <1>4, StatusKeeps

LEMMA DeleteKeeps == ASSUME IInv, NEW i \in Ids, Delete(i) PROVE IInv'
<1>1. /\ Tick /\ UNCHANGED <<made, outbox, renamed, astray, unguarded>> /\ i # Home
      /\ docs' = SetStatus(docs, Subtree(docs, i), {"deleted"}, now + 1)
      /\ docs \in Tables(now + 1) /\ now + 1 \in Nat /\ now + 1 \in 0..(now + 1)
      /\ {"deleted"} \in SUBSET Bits
  BY Clock DEF Delete, IInv, Bits
<1>2. docs' \in Tables(now + 1)
  BY <1>1, Statuses
<1>3. SameShape(docs, docs') /\ Unnamed(docs, docs')
  BY <1>1 DEF SameShape, Unnamed, Tables, SetStatus
<1>4. ASSUME unguarded = {} PROVE Safe(docs')
  <2>1. HomeAtRoot(docs) /\ Safe(docs) /\ Home \in Ids
    BY <1>4, DocTreeAssumption DEF IInv, Treed, Checked, HomeSafe, Safe
  <2>2. Home \notin Subtree(docs, i)
    BY <1>1, <2>1, HomeAlone
  <2>3. QED
    BY <1>1, <2>1, <2>2 DEF Safe, SetStatus
<1>5. QED
  BY <1>1, <1>2, <1>3, <1>4, StatusKeeps
-----------------------------------------------------------------------------
(* The latest of some times is the one a batch records.                    *)
LEMMA LatestChosen ==
    ASSUME NEW times \in SUBSET Nat, NEW x, Latest(x, times)
    PROVE  (CHOOSE ts \in times : \A other \in times : other <= ts) = x
<1>1. x \in times /\ \A y \in times : y <= x
  BY DEF Latest
<1> DEFINE c == CHOOSE ts \in times : \A other \in times : other <= ts
<1>2. c \in times /\ \A y \in times : y <= c
  BY <1>1
<1>3. c \in Nat /\ x \in Nat /\ c <= x /\ x <= c
  BY <1>1, <1>2
<1>4. QED
  BY <1>3

LEMMA SyncKeeps == ASSUME IInv, NEW d \in Devices, SyncStructural(d) PROVE IInv'
<1> DEFINE ops == outbox[d]
           u == Replay(docs, ops, now).docs
           Ts(i, kinds) == {o.ts : o \in {p \in ops : p.id = i /\ p.op \in kinds}}
           Given(i) == {renamed[i]} \cup (IF u[i].there THEN Ts(i, {"update_properties"}) ELSE {})
                       \cup (IF docs[i].there THEN {} ELSE Ts(i, {"create"}))
           Chosen(i) == CHOOSE ts \in Given(i) : \A other \in Given(i) : other <= ts
           Homely == \E o \in ops : o.id = Home /\ o.op = "update_status"
<1>1. /\ ~Replay(docs, ops, now).refused /\ docs' = u /\ UNCHANGED <<now, made>>
      /\ outbox' = [outbox EXCEPT ![d] = {}] \/ outbox' = outbox
      /\ astray' = astray \cup Strays(docs, ops)
      /\ unguarded' = unguarded \cup (IF Homely THEN {"status"} ELSE {})
  BY DEF SyncStructural, Strays
<1>2. renamed' = [i \in Ids |-> Chosen(i)]
  BY Zenon DEF SyncStructural
<1> HIDE DEF Chosen
<1>3. /\ now \in Nat /\ now \in 0..MaxTs /\ MaxTs \in Nat /\ docs \in Tables(now) /\ Orderly(ops, now)
      /\ \A o \in ops : o.ts <= now
      /\ \A o \in ops : o.op = "create" => o.id \in made
  BY Clock DEF IInv, Queues
<1> HIDE DEF u, ops
<1>4. u \in Tables(now)
  BY <1>3, ReplayLater DEF u
<1>5. ASSUME NEW i \in Ids
      PROVE  /\ renamed'[i] \in Nat /\ renamed'[i] <= now
             /\ u[i].there => i \in made /\ u[i].propsTs = renamed'[i]
             /\ ~u[i].there => renamed'[i] = 0
  <2>1. /\ docs[i].there => i \in made /\ docs[i].propsTs = renamed[i]
        /\ ~docs[i].there => renamed[i] = 0
        /\ renamed[i] <= now /\ renamed[i] \in Nat
    BY DocTreeAssumption DEF IInv, Known, TypeOK
  <2>2. /\ docs[i].there =>
              u[i].there /\ Latest(u[i].propsTs, {docs[i].propsTs} \cup Renames(ops, i))
        /\ ~docs[i].there /\ Makes(ops, i) # {} =>
              u[i].there /\ Latest(u[i].propsTs, Makes(ops, i) \cup Renames(ops, i))
        /\ ~docs[i].there /\ Makes(ops, i) = {} => ~u[i].there
    BY <1>3, ReplayRow DEF u
  <2>3. /\ \A y \in Renames(ops, i) \cup Makes(ops, i) : y \in Nat /\ y <= now
        /\ Makes(ops, i) # {} => i \in made
    <3>1. \A o \in ops : o.ts \in Nat
      BY <1>3, DocTreeAssumption DEF Orderly, Op
    <3>2. QED
      BY <1>3, <3>1 DEF Renames, Makes
  <2>4. Given(i) = {renamed[i]} \cup (IF u[i].there THEN Renames(ops, i) ELSE {})
                    \cup (IF docs[i].there THEN {} ELSE Makes(ops, i))
    BY DEF Renames, Makes
  <2> HIDE DEF Given
  <2>5. \A y \in Given(i) : y \in Nat /\ y <= now
    BY <2>1, <2>3, <2>4
  <2>6. u[i].there => Latest(u[i].propsTs, Given(i)) /\ i \in made
    <3>1. CASE docs[i].there
      <4>1. Given(i) = {docs[i].propsTs} \cup Renames(ops, i)
        BY <2>1, <2>2, <3>1, <2>4
      <4>2. QED
        BY <2>1, <2>2, <3>1, <4>1
    <3>2. CASE ~docs[i].there /\ Makes(ops, i) # {}
      <4>1. Given(i) = {0} \cup (Makes(ops, i) \cup Renames(ops, i))
        BY <2>1, <2>2, <3>2, <2>4
      <4>2. Latest(u[i].propsTs, Makes(ops, i) \cup Renames(ops, i))
        BY <2>2, <3>2
      <4>3. u[i].propsTs \in Nat
        BY <2>3, <4>2 DEF Latest
      <4>4. Latest(u[i].propsTs, Given(i))
        BY <4>1, <4>2, <4>3 DEF Latest
      <4>5. QED
        BY <2>3, <3>2, <4>4
    <3>3. QED
      BY <2>2, <3>1, <3>2
  <2>7. ~u[i].there => Latest(0, Given(i))
    <3>1. ~u[i].there => Given(i) = {0} /\ ~docs[i].there /\ Makes(ops, i) = {}
      BY <2>1, <2>2, <2>4
    <3>2. QED
      BY <3>1 DEF Latest
  <2>8. renamed'[i] = CHOOSE ts \in Given(i) : \A other \in Given(i) : other <= ts
    BY <1>2 DEF Chosen
  <2>9. \A x : Latest(x, Given(i)) => renamed'[i] = x /\ x \in Given(i)
    <3>1. SUFFICES ASSUME NEW x, Latest(x, Given(i)) PROVE renamed'[i] = x /\ x \in Given(i)
      OBVIOUS
    <3>2. Given(i) \in SUBSET Nat
      BY <2>5
    <3>3. (CHOOSE ts \in Given(i) : \A other \in Given(i) : other <= ts) = x
      BY <3>1, <3>2, LatestChosen
    <3>4. QED
      BY <2>8, <3>1, <3>3 DEF Latest
  <2>10. CASE u[i].there
    <3>1. renamed'[i] = u[i].propsTs /\ renamed'[i] \in Given(i)
      BY <2>6, <2>9, <2>10
    <3>2. QED
      BY <2>5, <2>6, <2>10, <3>1
  <2>11. CASE ~u[i].there
    BY <2>1, <2>5, <2>7, <2>9, <2>11
  <2>12. QED
    BY <2>10, <2>11
<1>6. Known'
  BY <1>1, <1>5 DEF Known
<1>7. TypeOK'
  <2>1. docs' \in Tables(now')
    BY <1>1, <1>4
  <2>4. astray' \subseteq Ids
    <3>1. Strays(docs, ops) \subseteq Ids
      BY <1>3 DEF Strays, Orderly, Op
    <3>2. QED
      BY <1>1, <3>1, Clock DEF IInv
  <2>2. renamed' \in [Ids -> 0..MaxTs]
    <3>1. \A i \in Ids : Chosen(i) \in 0..MaxTs
      <4>1. now <= MaxTs /\ MaxTs \in Nat
        BY <1>3
      <4>2. \A i \in Ids : renamed'[i] = Chosen(i)
        BY <1>2
      <4>3. QED
        BY <1>3, <1>5, <4>1, <4>2
    <3>2. QED
      BY <1>2, <3>1
  <2>3. QED
    BY <1>1, <2>1, <2>2, <2>4 DEF IInv, TypeOK, Tables
<1>8. Queues'
  <2>1. Orderly({}, now)
    <3>1. [x \in {} |-> 0] \in [{} -> 0..now]
      OBVIOUS
    <3>2. QED
      BY <3>1, FS_EmptySet DEF Orderly
  <2>2. \A e \in Devices : outbox'[e] = {} \/ outbox'[e] = outbox[e]
    BY <1>1 DEF IInv, TypeOK
  <2>3. \A e \in Devices :
           /\ Orderly(outbox[e], now)
           /\ \A o \in outbox[e] :
                 /\ o.ts <= now
                 /\ o.op = "create" => o.id \in made /\ o.parent \in made \cup {NoId}
    BY DEF IInv, Queues
  <2>4. \A e \in Devices :
           /\ Orderly(outbox'[e], now)
           /\ \A o \in outbox'[e] :
                 /\ o.ts <= now
                 /\ o.op = "create" => o.id \in made /\ o.parent \in made \cup {NoId}
    BY <2>1, <2>2, <2>3
  <2>5. QED
    BY <1>1, <2>4 DEF Queues, Orderly
<1>9. /\ Rooted(docs) /\ astray \in SUBSET Ids /\ astray' \in SUBSET Ids
      /\ Strays(docs, ops) \subseteq astray' /\ astray \subseteq astray'
  <2>1. Strays(docs, ops) \in SUBSET Ids
    BY <1>3 DEF Strays, Orderly, Op
  <2>2. QED
    BY <1>1, <2>1, Clock DEF IInv
<1>10. Rooted(docs)' /\ Treed'
  <2>1. Kept(docs, docs', astray')
    BY <1>1, <1>3, <1>9, ReplayTree DEF u
  <2>2. QED
    BY <1>1, <1>9, <2>1, TreedKept
<1>11. HomeSafe'
  <2>1. SUFFICES ASSUME unguarded = {}, ~Homely PROVE Safe(u)
    BY <1>1 DEF HomeSafe, Safe
  <2>2. Tree(docs, astray') /\ HomeAtRoot(docs) /\ Safe(docs)
    <3>1. Tree(docs, astray) /\ HomeAtRoot(docs) /\ Safe(docs)
      BY <2>1 DEF IInv, Treed, Checked, HomeSafe, Safe
    <3>2. QED
      BY <1>9, <3>1, MoreAstray
  <2>3. \A o \in ops : ~(o.op = "update_status" /\ o.id = Home)
    BY <2>1
  <2>4. QED
    BY <1>1, <1>3, <1>9, <2>2, <2>3, ReplayTree DEF u
<1>12. QED
  BY <1>6, <1>7, <1>8, <1>10, <1>11 DEF IInv

(* Every handler and every device's step.                                  *)
LEMMA NextKeeps == ASSUME IInv, Next PROVE IInv'
<1>1. ASSUME NEW d \in Devices, NEW i \in Ids, NEW space \in BOOLEAN,
             NEW parent \in Ids \cup {NoId}, MakeDocument(d, i, space, parent)
      PROVE  IInv'
  BY <1>1, MakeKeeps
<1>2. ASSUME NEW d \in Devices, NEW i \in Ids, MakeChange(d, i) PROVE IInv'
  <2>1. TRUE \in BOOLEAN /\ NoId \in Ids \cup {NoId}
    OBVIOUS
  <2>2. QED
    BY <1>2, <2>1, MakeKeeps
<1>3. ASSUME NEW d \in Devices, SyncStructural(d) PROVE IInv'
  BY <1>3, SyncKeeps
<1>4. ASSUME NEW i \in Ids, EnsureDocument(i) PROVE IInv'
  BY <1>4, EnsureKeeps
<1>5. ASSUME NEW i \in Ids, NEW parent \in Ids \cup {NoId}, PatchReposition(i, parent)
      PROVE  IInv'
  BY <1>5, PatchKeeps
<1>6. ASSUME NEW i \in Ids, NEW parent \in Ids \cup {NoId}, NEW space \in BOOLEAN,
             Post(i, space, parent) \/ \E renames \in BOOLEAN : Put(i, space, parent, renames)
      PROVE  IInv'
  BY <1>6, PostKeeps, PutKeeps
<1>7. ASSUME NEW i \in Ids, NEW bits \in {{}, {"trashed"}}, Trash(i, bits) PROVE IInv'
  BY <1>7, TrashKeeps
<1>8. ASSUME NEW i \in Ids, NEW bits \in {{}, {"archived"}}, Archive(i, bits) PROVE IInv'
  BY <1>8, ArchiveKeeps
<1>9. ASSUME NEW i \in Ids, Delete(i) PROVE IInv'
  BY <1>9, DeleteKeeps
<1>10. QED
  BY <1>1, <1>2, <1>3, <1>4, <1>5, <1>6, <1>7, <1>8, <1>9 DEF Next

(* The queues, the rows' properties, the tree and the home, together: each *)
(* handler keeps all of them.                                              *)
THEOREM Inductive == Spec => []IInv
<1>1. ASSUME IInv, UNCHANGED vars PROVE IInv'
  BY <1>1 DEF vars, IInv, TypeOK, Queues, Orderly, Known, Rooted, Treed, Checked, Tree, Placed,
              Level, NoneUnderItself, HomeAtRoot, HomeSafe, Tables
<1>2. IInv /\ [Next]_vars => IInv'
  BY <1>1, NextKeeps
<1>3. QED
  BY Start, <1>2, PTL DEF Spec

(* Every row and queued operation has its kind's fields, and no row a time *)
(* that has not come.                                                      *)
THEOREM TypeCorrect == Spec => []TypeOK
<1>1. IInv => TypeOK
  BY DEF IInv
<1>2. QED
  BY <1>1, Inductive, PTL

(* Whatever the devices did without knowing of each other's moves, and in  *)
(* whatever order their batches come: every parent is there, what was made *)
(* in its place stays in it and, if no Space was made in a document or no  *)
(* walk is too short, no document is under itself.  And no batch is refused *)
(* that has the parents of what it makes, whatever its operations' times.  *)
THEOREM TreeKept == Spec => []TreeOK
<1>1. ASSUME IInv PROVE TreeOK
  <2>1. /\ now \in Nat /\ docs \in Tables(now) /\ Rooted(docs)
        /\ \A d \in Devices : Orderly(outbox[d], now) /\ \A o \in outbox[d] : o.ts <= now
    BY <1>1, Clock DEF IInv, Queues
  <2>2. \A i \in Ids : docs[i].parent # NoId => docs[docs[i].parent].there
    BY <2>1 DEF Rooted
  <2>3. unguarded \cap {"move", "type"} = {} => Tree(docs, astray)
    BY <1>1 DEF IInv, Treed, Checked
  <2>4. unguarded \cap {"move", "type"} = {} =>
           /\ \A i \in Ids : docs[i].there /\ i \notin astray =>
                 IF docs[i].space THEN docs[i].parent = NoId
                 ELSE docs[i].parent = NoId => docs[i].structTs = 0
           /\ (\A i \in astray : ~docs[i].space) \/ Cardinality(Ids) <= WalkLimit =>
                 NoneUnderItself(docs)
    BY <2>3 DEF Tree, Placed, Level
  <2>5. ASSUME NEW d \in Devices,
               \A o \in outbox[d] : o.op = "create" /\ o.parent # NoId =>
                   docs[o.parent].there \/ \E p \in outbox[d] : p.op = "create" /\ p.id = o.parent
        PROVE  ~Replay(docs, outbox[d], now).refused
    BY <2>1, <2>5, NotRefused
  <2>6. QED
    BY <2>2, <2>4, <2>5 DEF TreeOK
<1>2. QED
  BY <1>1, Inductive, PTL

(* The home stays out of the trash but by the two ways nothing guards.     *)
THEOREM HomeStays == Spec => []HomeSafe
<1>1. IInv => HomeSafe
  BY DEF IInv
<1>2. QED
  BY <1>1, Inductive, PTL

(* The properties stored are the latest sent, in whatever order they came. *)
THEOREM RenamesKept == Spec => []LatestRenameWins
<1>1. IInv => LatestRenameWins
  BY DEF IInv, Known, LatestRenameWins
<1>2. QED
  BY <1>1, Inductive, PTL

(* No handler takes a clock back or moves a document but by a later move.  *)
Advance ==
    \A i \in Ids :
        docs[i].there =>
            /\ docs'[i].structTs >= docs[i].structTs /\ docs'[i].propsTs >= docs[i].propsTs
            /\ docs'[i].statusTs >= docs[i].statusTs
            /\ docs'[i].parent # docs[i].parent /\ "move" \notin unguarded' =>
                   docs'[i].structTs > docs[i].structTs

LEMMA AdvanceIfLater ==
    ASSUME \A i \in Ids : Later(docs[i], docs'[i])
    PROVE  Advance
  BY DEF Later, Advance

LEMMA Still == ASSUME TypeOK, docs' = docs PROVE Advance
<1>1. \A i \in Ids : Later(docs[i], docs[i])
  BY Clock DEF Later, Tables
<1>2. QED
  BY <1>1, AdvanceIfLater

LEMMA StepAdvances == ASSUME IInv, Next PROVE Advance
<1>1. /\ TypeOK /\ now \in Nat /\ docs \in Tables(now)
      /\ \A i \in Ids : /\ docs[i].structTs \in 0..now /\ docs[i].propsTs \in 0..now
                        /\ docs[i].statusTs \in 0..now
  BY Clock DEF IInv, Tables
<1>2. \A j \in Ids : Later(docs[j], docs[j])
  BY <1>1 DEF Later
<1>3. ASSUME docs' = docs PROVE Advance
  BY <1>1, <1>3, Still
<1>4. ASSUME NEW d \in Devices, SyncStructural(d) PROVE Advance
  <2>1. docs' = Replay(docs, outbox[d], now).docs
    BY <1>4 DEF SyncStructural
  <2>2. Orderly(outbox[d], now) /\ \A o \in outbox[d] : o.ts <= now
    BY DEF IInv, Queues
  <2>3. \A i \in Ids : Later(docs[i], docs'[i])
    BY <1>1, <2>1, <2>2, ReplayLater
  <2>4. QED
    BY <2>3, AdvanceIfLater
<1>5. ASSUME NEW i \in Ids, NEW row, ~docs[i].there, docs' = [docs EXCEPT ![i] = row] PROVE Advance
  <2>1. \A j \in Ids : j # i => docs'[j] = docs[j]
    BY <1>1, <1>5 DEF Tables
  <2>2. \A j \in Ids : Later(docs[j], docs'[j])
    BY <1>2, <1>5, <2>1 DEF Later
  <2>3. QED
    BY <2>2, AdvanceIfLater
<1>6. ASSUME NEW i \in Ids, NEW parent \in Ids \cup {NoId}, PatchReposition(i, parent) PROVE Advance
  <2>1. PICK ts \in {now, now + 1} :
           /\ ts > docs[i].structTs
           /\ docs' = [docs EXCEPT ![i].parent = parent, ![i].structTs = ts]
    BY <1>6 DEF PatchReposition
  <2>2. \A j \in Ids : Later(docs[j], docs'[j])
    BY <1>1, <1>2, <2>1 DEF Later, Tables
  <2>3. QED
    BY <2>2, AdvanceIfLater
<1>7. ASSUME NEW i \in Ids, NEW space \in BOOLEAN, NEW parent \in Ids \cup {NoId},
             NEW renames \in BOOLEAN, Put(i, space, parent, renames)
      PROVE  Advance
  <2>1. /\ \A j \in Ids \ {i} : docs'[j] = docs[j]
        /\ docs'[i].there = docs[i].there /\ docs'[i].parent = parent
        /\ docs'[i].structTs = docs[i].structTs /\ docs'[i].statusTs = docs[i].statusTs
        /\ docs'[i].propsTs = IF renames THEN now + 1 ELSE docs[i].propsTs
    BY <1>7, PutRow
  <2>2. parent # docs[i].parent => "move" \in unguarded'
    BY <1>7 DEF Put
  <2>3. docs'[i].propsTs >= docs[i].propsTs
    BY <1>1, <2>1
  <2>4. QED
    BY <1>1, <2>1, <2>2, <2>3 DEF Advance
<1>8. ASSUME NEW i \in Ids, NEW bits, Trash(i, bits) PROVE Advance
  <2>1. \A j \in Ids :
           /\ j \notin Subtree(docs, i) => docs'[j] = docs[j]
           /\ j \in Subtree(docs, i) => docs'[j] =
                 [docs[j] EXCEPT !.status = (@ \ {"trashed"}) \cup bits, !.statusTs = now + 1]
    BY <1>8 DEF Trash
  <2>2. \A j \in Ids : /\ docs'[j].there = docs[j].there /\ docs'[j].parent = docs[j].parent
                       /\ docs'[j].structTs = docs[j].structTs
                       /\ docs'[j].propsTs = docs[j].propsTs
                       /\ docs'[j].statusTs \in {docs[j].statusTs, now + 1}
    BY <1>1, <2>1 DEF Tables
  <2>3. \A j \in Ids : Later(docs[j], docs'[j])
    BY <1>1, <2>2 DEF Later
  <2>4. QED
    BY <2>3, AdvanceIfLater
<1>9. ASSUME NEW i \in Ids, NEW bits, Archive(i, bits) PROVE Advance
  <2>1. docs' = [docs EXCEPT ![i].status = (@ \ {"archived"}) \cup bits, ![i].statusTs = now + 1]
    BY <1>9 DEF Archive
  <2>2. \A j \in Ids : Later(docs[j], docs'[j])
    BY <1>1, <1>2, <2>1 DEF Later, Tables
  <2>3. QED
    BY <2>2, AdvanceIfLater
<1>10. ASSUME NEW i \in Ids, Delete(i) PROVE Advance
  <2>1. docs' = SetStatus(docs, Subtree(docs, i), {"deleted"}, now + 1)
    BY <1>10 DEF Delete
  <2>2. now + 1 \in Nat /\ \A j \in Ids : now + 1 >= docs[j].statusTs
    BY <1>1
  <2>3. \A j \in Ids : Later(docs[j], docs'[j])
    BY <1>1, <2>1, <2>2, StatusesLater
  <2>4. QED
    BY <2>3, AdvanceIfLater
<1>11. ASSUME NEW i \in Ids, NEW space, NEW parent, Post(i, space, parent) PROVE Advance
  <2>1. i \notin made /\ docs' = [docs EXCEPT ![i] = RowAt(space, parent, now + 1)]
    BY <1>11 DEF Post
  <2>2. ~docs[i].there
    BY <2>1 DEF IInv, Known
  <2>3. QED
    BY <1>5, <2>1, <2>2
<1>12. ASSUME NEW i \in Ids, EnsureDocument(i) PROVE Advance
  BY <1>5, <1>12 DEF EnsureDocument
<1>13. ASSUME NEW d \in Devices, NEW i \in Ids,
              \/ MakeChange(d, i)
              \/ \E space \in BOOLEAN, parent \in Ids \cup {NoId} : MakeDocument(d, i, space, parent)
       PROVE  Advance
  <2>1. docs' = docs
    BY <1>13 DEF MakeChange, MakeDocument, Queue
  <2>2. QED
    BY <1>3, <2>1
<1>14. QED
  BY <1>4, <1>6, <1>7, <1>8, <1>9, <1>10, <1>11, <1>12, <1>13 DEF Next

(* A replayed or late batch undoes no later move, rename or status.        *)
THEOREM LaterMovesStand == Spec => ClocksAdvance
<1>1. ASSUME IInv, [Next]_vars PROVE [Advance]_vars
  BY <1>1, StepAdvances
<1>2. IInv /\ [Next]_vars => [Advance]_vars
  BY <1>1
<1>3. QED
  BY <1>2, Inductive, PTL DEF Spec, ClocksAdvance, Advance
==============================================================================
