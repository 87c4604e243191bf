------------------------- MODULE AttachmentsProofs --------------------------
(* Proofs about Attachments, for any accounts, any finite set of ids, any  *)
(* limits and any number of requests waiting for the bucket: first facts   *)
(* about sums over finite sets, then the types, then the balances of the   *)
(* accounts, then the files on the disk.                                   *)
EXTENDS Attachments, FiniteSetTheorems, TLAPS

-----------------------------------------------------------------------------
(* Among some subsets of a finite set there is one that holds no other of  *)
(* them. Each fact about sums is proved from it: of the sets that refute   *)
(* the fact take a smallest one, and remove an element from that.          *)
LEMMA SmallestSubset ==
    ASSUME NEW S, IsFiniteSet(S), NEW Bad \in SUBSET (SUBSET S), Bad # {}
    PROVE  \E T \in Bad : \A U \in Bad : U \subseteq T => U = T
<1>1. IsWellFoundedOn(StrictSubsetOrdering(S), SUBSET S)
  BY FS_StrictSubsetOrderingWellFounded, FS_FiniteSubsetsOfFinite
<1>2. PICK T \in Bad : \A U \in Bad : ~(<<U, T>> \in StrictSubsetOrdering(S))
  BY <1>1, WFMin
<1>3. QED
  BY <1>2 DEF StrictSubsetOrdering

(* The element a fold takes next, and what it computes over each subset of *)
(* S.                                                                      *)
First(s) == CHOOSE x \in s : TRUE
Sums(w, S, f) ==
    f = [s \in SUBSET S |-> IF s = {} THEN 0 ELSE w[First(s)] + f[s \ {First(s)}]]

(* Two such functions agree where the weights do.                          *)
LEMMA SumsAgree ==
    ASSUME NEW w, NEW v, NEW S, NEW T, NEW f, NEW g, IsFiniteSet(S),
           Sums(w, S, f), Sums(v, T, g), S \subseteq T,
           \A x \in S : w[x] = v[x]
    PROVE  f[S] = g[S]
<1> DEFINE Bad == {U \in SUBSET S : f[U] # g[U]}
<1> SUFFICES ASSUME Bad # {} PROVE FALSE
  OBVIOUS
<1>1. PICK U \in Bad : \A V \in Bad : V \subseteq U => V = U
  <2>1. Bad \in SUBSET (SUBSET S)
    OBVIOUS
  <2> HIDE DEF Bad
  <2>2. QED
    BY <2>1, SmallestSubset
<1>2. /\ f[U] = IF U = {} THEN 0 ELSE w[First(U)] + f[U \ {First(U)}]
      /\ g[U] = IF U = {} THEN 0 ELSE v[First(U)] + g[U \ {First(U)}]
  BY <1>1 DEF Sums
<1>3. U # {}
  BY <1>1, <1>2
<1>4. First(U) \in U
  BY <1>3 DEF First
<1>5. f[U \ {First(U)}] = g[U \ {First(U)}]
  BY <1>1, <1>4
<1>6. QED
  BY <1>1, <1>2, <1>4, <1>5

(* There is one: the recursion of a fold over a finite set has a solution. *)
LEMMA SumsExist ==
    ASSUME NEW w, NEW S, IsFiniteSet(S)
    PROVE  \E f : Sums(w, S, f)
<1> DEFINE Bad == {T \in SUBSET S : ~ \E f : Sums(w, T, f)}
<1> SUFFICES ASSUME Bad # {} PROVE FALSE
  OBVIOUS
<1>1. PICK T \in Bad : \A V \in Bad : V \subseteq T => V = T
  <2>1. Bad \in SUBSET (SUBSET S)
    OBVIOUS
  <2> HIDE DEF Bad
  <2>2. QED
    BY <2>1, SmallestSubset
<1>2. \A V \in SUBSET T : IsFiniteSet(V)
  BY <1>1, FS_Subset
<1> DEFINE At(V) == CHOOSE f : Sums(w, V, f)
           G(V) == IF V = {} THEN 0 ELSE
                   IF V = T THEN w[First(T)] + At(T \ {First(T)})[T \ {First(T)}] ELSE At(V)[V]
           g == [V \in SUBSET T |-> G(V)]
<1>3. \A V \in SUBSET T : V # T => Sums(w, V, At(V))
  BY <1>1
<1>4. \A V \in SUBSET T : V # T /\ V # {} =>
          At(V)[V] = w[First(V)] + At(V \ {First(V)})[V \ {First(V)}]
  <2> SUFFICES ASSUME NEW V \in SUBSET T, V # T, V # {}
               PROVE  At(V)[V] = w[First(V)] + At(V \ {First(V)})[V \ {First(V)}]
    OBVIOUS
  <2>1. First(V) \in V
    BY DEF First
  <2>2. Sums(w, V, At(V)) /\ Sums(w, V \ {First(V)}, At(V \ {First(V)}))
    BY <1>3, <2>1
  <2>3. At(V)[V] = w[First(V)] + At(V)[V \ {First(V)}]
    BY <2>2 DEF Sums
  <2>4. At(V \ {First(V)})[V \ {First(V)}] = At(V)[V \ {First(V)}]
    <3> HIDE DEF At
    <3> QED BY <2>2, SumsAgree, <1>2
  <2>5. QED
    BY <2>3, <2>4
<1>5. At({})[{}] = 0 \/ T = {}
  BY <1>3 DEF Sums
<1>6. Sums(w, T, g)
  <2> SUFFICES \A V \in SUBSET T :
                   g[V] = IF V = {} THEN 0 ELSE w[First(V)] + g[V \ {First(V)}]
    <3> HIDE DEF G
    <3> QED BY DEF Sums
  <2> TAKE V \in SUBSET T
  <2>1. CASE V = {}
    BY <2>1
  <2>2. CASE V # {}
    <3> DEFINE U == V \ {First(V)}
    <3>1. First(V) \in V /\ U # T /\ U \in SUBSET T
      BY <2>2 DEF First
    <3>2. g[U] = At(U)[U]
      <4> HIDE DEF At
      <4> QED BY <3>1, <1>5
    <3>3. g[V] = w[First(V)] + At(U)[U]
      <4> HIDE DEF At
      <4> QED BY <2>2, <1>4
    <3>4. QED
      BY <2>2, <3>2, <3>3
  <2>3. QED
    BY <2>1, <2>2
<1>7. QED
  BY <1>1, <1>6

(* So the sum over a finite set is what the recursion says.                *)
LEMMA SumIs ==
    ASSUME NEW w, NEW S, IsFiniteSet(S)
    PROVE  \E f : Sums(w, S, f) /\ SumFunctionOnSet(w, S) = f[S]
<1> DEFINE f == CHOOSE f : Sums(w, S, f)
<1>1. Sums(w, S, f)
  BY SumsExist
<1>2. SumFunctionOnSet(w, S) = f[S]
  BY DEF SumFunctionOnSet, FoldFunctionOnSet, MapThenFoldSet, Sums, First
<1>3. QED
  BY <1>1, <1>2

(* Equal weights, equal sums.                                              *)
LEMMA SumSame ==
    ASSUME NEW w, NEW v, NEW S, IsFiniteSet(S), \A x \in S : w[x] = v[x]
    PROVE  SumFunctionOnSet(w, S) = SumFunctionOnSet(v, S)
<1>1. PICK f : Sums(w, S, f) /\ SumFunctionOnSet(w, S) = f[S]
  BY SumIs
<1>2. PICK g : Sums(v, S, g) /\ SumFunctionOnSet(v, S) = g[S]
  BY SumIs
<1>3. QED
  BY <1>1, <1>2, SumsAgree

(* Nothing adds up to 0.                                                   *)
LEMMA SumEmpty == \A w : SumFunctionOnSet(w, {}) = 0
<1> TAKE w
<1>1. PICK f : Sums(w, {}, f) /\ SumFunctionOnSet(w, {}) = f[{}]
  BY SumIs, FS_EmptySet
<1>2. QED
  BY <1>1 DEF Sums

(* The sum of a set is the first element's weight and the sum of the rest. *)
LEMMA SumStep ==
    ASSUME NEW w, NEW S, IsFiniteSet(S), S # {}
    PROVE  /\ First(S) \in S
           /\ SumFunctionOnSet(w, S) = w[First(S)] + SumFunctionOnSet(w, S \ {First(S)})
<1>1. First(S) \in S
  BY DEF First
<1> DEFINE U == S \ {First(S)}
<1>2. PICK f : Sums(w, S, f) /\ SumFunctionOnSet(w, S) = f[S]
  BY SumIs
<1>3. IsFiniteSet(U)
  BY FS_Subset
<1>4. PICK g : Sums(w, U, g) /\ SumFunctionOnSet(w, U) = g[U]
  BY <1>3, SumIs
<1>5. f[U] = g[U]
  <2>1. U \subseteq S
    OBVIOUS
  <2> HIDE DEF U
  <2>2. QED
    BY <1>2, <1>3, <1>4, <2>1, SumsAgree
<1>6. f[S] = w[First(S)] + f[U]
  BY <1>2 DEF Sums
<1>7. QED
  BY <1>1, <1>2, <1>4, <1>5, <1>6

(* Natural weights have a natural sum.                                     *)
LEMMA SumNat ==
    ASSUME NEW w, NEW S, IsFiniteSet(S), \A x \in S : w[x] \in Nat
    PROVE  SumFunctionOnSet(w, S) \in Nat
<1> DEFINE Bad == {T \in SUBSET S : SumFunctionOnSet(w, T) \notin Nat}
<1> SUFFICES ASSUME Bad # {} PROVE FALSE
  OBVIOUS
<1>1. PICK T \in Bad : \A V \in Bad : V \subseteq T => V = T
  <2>1. Bad \in SUBSET (SUBSET S)
    OBVIOUS
  <2> HIDE DEF Bad
  <2>2. QED
    BY <2>1, SmallestSubset
<1>2. T # {} /\ IsFiniteSet(T)
  <2>1. IsFiniteSet(T)
    BY <1>1, FS_Subset
  <2>2. T # {}
    <3> SUFFICES ASSUME T = {} PROVE FALSE
      OBVIOUS
    <3>1. \A u : SumFunctionOnSet(u, T) = 0
      BY SumEmpty
    <3>2. QED
      BY <1>1, <3>1
  <2>3. QED
    BY <2>1, <2>2
<1>3. First(T) \in T /\ SumFunctionOnSet(w, T) = w[First(T)] + SumFunctionOnSet(w, T \ {First(T)})
  BY <1>2, SumStep
<1>4. SumFunctionOnSet(w, T \ {First(T)}) \in Nat
  BY <1>1, <1>3
<1>5. QED
  BY <1>1, <1>3, <1>4

(* Any element may be taken out first: the order of a sum does not matter. *)
LEMMA SumWithout ==
    ASSUME NEW w, NEW S, IsFiniteSet(S), \A x \in S : w[x] \in Nat, NEW a \in S
    PROVE  SumFunctionOnSet(w, S) = w[a] + SumFunctionOnSet(w, S \ {a})
<1> DEFINE Sum(T) == SumFunctionOnSet(w, T)
           Bad == {T \in SUBSET S : \E x \in T : Sum(T) # w[x] + Sum(T \ {x})}
<1>0. \A T \in SUBSET S : IsFiniteSet(T) /\ Sum(T) \in Nat
  BY FS_Subset, SumNat
<1>s. \A T \in SUBSET S : T # {} => First(T) \in T /\ Sum(T) = w[First(T)] + Sum(T \ {First(T)})
  BY <1>0, SumStep
<1> SUFFICES ASSUME Bad # {} PROVE FALSE
  OBVIOUS
<1>1. PICK T \in Bad : \A V \in Bad : V \subseteq T => V = T
  <2>1. Bad \in SUBSET (SUBSET S)
    OBVIOUS
  <2> HIDE DEF Bad
  <2>2. QED
    BY <2>1, SmallestSubset
<1> HIDE DEF Sum
<1>2. PICK x \in T : Sum(T) # w[x] + Sum(T \ {x})
  BY <1>1
<1> DEFINE c == First(T)
<1>3. c \in T /\ Sum(T) = w[c] + Sum(T \ {c})
  BY <1>1, <1>2, <1>s
<1>4. c # x
  BY <1>2, <1>3
<1> HIDE DEF c
<1>5. Sum(T \ {c}) = w[x] + Sum((T \ {c}) \ {x})
  BY <1>1, <1>2, <1>3, <1>4
<1>6. Sum(T \ {x}) = w[c] + Sum((T \ {x}) \ {c})
  BY <1>1, <1>2, <1>3, <1>4
<1>7. (T \ {x}) \ {c} = (T \ {c}) \ {x}
  OBVIOUS
<1>8. w[c] \in Nat /\ w[x] \in Nat /\ Sum((T \ {c}) \ {x}) \in Nat
  BY <1>0, <1>1, <1>2, <1>3
<1> DEFINE rest == Sum((T \ {c}) \ {x})
<1>9. Sum(T) = w[c] + (w[x] + rest) /\ Sum(T \ {x}) = w[c] + rest
  BY <1>3, <1>5, <1>6, <1>7
<1> HIDE DEF rest
<1>10. w[c] + (w[x] + rest) = w[x] + (w[c] + rest)
  <2>1. rest \in Nat
    BY <1>8 DEF rest
  <2>2. \A p, q, r \in Nat : p + (q + r) = q + (p + r)
    OBVIOUS
  <2>3. QED
    BY <1>8, <2>1, <2>2
<1>11. QED
  BY <1>2, <1>9, <1>10

(* Smaller weights, smaller sum.                                           *)
LEMMA SumLess ==
    ASSUME NEW w, NEW v, NEW S, IsFiniteSet(S),
           \A x \in S : w[x] \in Nat /\ v[x] \in Nat /\ w[x] <= v[x]
    PROVE  SumFunctionOnSet(w, S) <= SumFunctionOnSet(v, S)
<1> DEFINE Bad == {T \in SUBSET S : ~(SumFunctionOnSet(w, T) <= SumFunctionOnSet(v, T))}
<1> SUFFICES ASSUME Bad # {} PROVE FALSE
  OBVIOUS
<1>1. PICK T \in Bad : \A V \in Bad : V \subseteq T => V = T
  <2>1. Bad \in SUBSET (SUBSET S)
    OBVIOUS
  <2> HIDE DEF Bad
  <2>2. QED
    BY <2>1, SmallestSubset
<1>2. T # {} /\ IsFiniteSet(T)
  <2>1. IsFiniteSet(T)
    BY <1>1, FS_Subset
  <2>2. T # {}
    <3> SUFFICES ASSUME T = {} PROVE FALSE
      OBVIOUS
    <3>1. \A u : SumFunctionOnSet(u, T) = 0
      BY SumEmpty
    <3>2. QED
      BY <1>1, <3>1
  <2>3. QED
    BY <2>1, <2>2
<1>3. /\ First(T) \in T
      /\ SumFunctionOnSet(w, T) = w[First(T)] + SumFunctionOnSet(w, T \ {First(T)})
      /\ SumFunctionOnSet(v, T) = v[First(T)] + SumFunctionOnSet(v, T \ {First(T)})
  BY <1>2, SumStep
<1>4. SumFunctionOnSet(w, T \ {First(T)}) <= SumFunctionOnSet(v, T \ {First(T)})
  BY <1>1, <1>3
<1>5. /\ SumFunctionOnSet(w, T \ {First(T)}) \in Nat /\ SumFunctionOnSet(v, T \ {First(T)}) \in Nat
  BY <1>1, <1>3, SumNat, FS_Subset
<1>6. QED
  BY <1>1, <1>3, <1>4, <1>5

(* Weights of 0 add up to 0.                                               *)
LEMMA SumZero ==
    ASSUME NEW w, NEW S, IsFiniteSet(S), \A x \in S : w[x] = 0
    PROVE  SumFunctionOnSet(w, S) = 0
<1> DEFINE Bad == {T \in SUBSET S : SumFunctionOnSet(w, T) # 0}
<1> SUFFICES ASSUME Bad # {} PROVE FALSE
  OBVIOUS
<1>1. PICK T \in Bad : \A V \in Bad : V \subseteq T => V = T
  <2>1. Bad \in SUBSET (SUBSET S)
    OBVIOUS
  <2> HIDE DEF Bad
  <2>2. QED
    BY <2>1, SmallestSubset
<1>2. T # {} /\ IsFiniteSet(T)
  <2>1. IsFiniteSet(T)
    BY <1>1, FS_Subset
  <2>2. T # {}
    BY <1>1, SumEmpty
  <2>3. QED
    BY <2>1, <2>2
<1>3. First(T) \in T /\ SumFunctionOnSet(w, T) = w[First(T)] + SumFunctionOnSet(w, T \ {First(T)})
  BY <1>2, SumStep
<1>4. SumFunctionOnSet(w, T \ {First(T)}) = 0
  BY <1>1, <1>3
<1>5. QED
  BY <1>1, <1>3, <1>4

(* The first-order facts for functions over one finite set. *)
LEMMA TotalNat ==
    ASSUME NEW D, IsFiniteSet(D), NEW w \in [D -> Nat]
    PROVE  SumFunction(w) \in Nat
BY SumNat DEF SumFunction

(* Smaller everywhere, smaller in total.                                   *)
LEMMA TotalLess ==
    ASSUME NEW D, IsFiniteSet(D), NEW w \in [D -> Nat], NEW v \in [D -> Nat],
           \A x \in D : w[x] <= v[x]
    PROVE  SumFunction(w) <= SumFunction(v)
<1>1. \A x \in D : w[x] \in Nat /\ v[x] \in Nat /\ w[x] <= v[x]
  OBVIOUS
<1>2. QED
  BY <1>1, SumLess DEF SumFunction

(* A change at one place changes the total by as much.                     *)
LEMMA TotalChange ==
    ASSUME NEW D, IsFiniteSet(D), NEW w \in [D -> Nat], NEW v \in [D -> Nat], NEW a \in D,
           \A x \in D \ {a} : w[x] = v[x]
    PROVE  SumFunction(v) + w[a] = SumFunction(w) + v[a]
<1>1. /\ SumFunction(w) = w[a] + SumFunctionOnSet(w, D \ {a})
      /\ SumFunction(v) = v[a] + SumFunctionOnSet(v, D \ {a})
  BY SumWithout DEF SumFunction
<1>2. SumFunctionOnSet(w, D \ {a}) = SumFunctionOnSet(v, D \ {a}) /\ SumFunctionOnSet(w, D \ {a}) \in Nat
  BY SumSame, SumNat, FS_Subset
<1>3. w[a] \in Nat /\ v[a] \in Nat
  OBVIOUS
<1>4. QED
  BY <1>1, <1>2, <1>3
-----------------------------------------------------------------------------
(* A row that is there names its account and a size an upload may declare. *)
RowsWhole ==
    \A i \in Ids :
        IF row[i].status = "none" THEN row[i] = NoRow
        ELSE row[i].owner \in Accounts /\ row[i].expected \in AnySize

(* A request that waits names its id, its account and such a size.         *)
RequestsWhole ==
    \A r \in Requests : req[r].t # "idle" =>
        req[r].id \in Ids /\ req[r].owner \in Accounts /\ req[r].size \in AnySize

(* With no bucket, nothing waits for it.                                   *)
LocalIsQuiet ==
    ~bucket => /\ \A r \in Requests : req[r].t = "idle"
               /\ sweep = {} /\ removing = NoId

(* The types, by the variables that change together.                       *)
ModeShape == bucket \in BOOLEAN /\ hosted \in BOOLEAN /\ LocalIsQuiet
RowShape == row \in [Ids -> Row] /\ RowsWhole
HoldShape == hold \in [Ids -> Hold]
DiskShape == object \in [Ids -> Bytes] /\ writing \in [Ids -> Put]
UrlShape == urls \in [Ids -> SUBSET AnySize]
ReqShape == req \in [Requests -> Request] /\ RequestsWhole
JobShape == sweep \subseteq Ids /\ removing \in Ids \cup {NoId}
HistoryShape == unsettled \subseteq Accounts /\ unheld \subseteq Accounts /\ unlinked \subseteq Ids

(* What every step keeps about the types of the variables.                 *)
Shape ==
    /\ ModeShape /\ RowShape /\ HoldShape /\ DiskShape /\ UrlShape /\ ReqShape /\ JobShape
    /\ HistoryShape

(* What the assumption says of the sizes and of the empty records.         *)
LEMMA SizesFacts ==
    /\ AnySize \subseteq Nat \ {0} /\ Bytes \subseteq Nat /\ 0 \in Bytes /\ AnySize \subseteq Bytes
    /\ \A i \in Ids : Sizes[i] \subseteq AnySize
    /\ NoRow \in Row /\ NoHold \in Hold /\ NoPut \in Put /\ NoReq \in Request
    /\ \A i \in Ids : UploaderOf[i] \in Accounts
    /\ Host \in Accounts
BY AttachmentsAssumption DEF AnySize, Bytes, NoRow, NoHold, NoPut, NoReq, Row, Hold, Put, Request

(* The account charged is an account.                                      *)
LEMMA ChargedType == \A i \in Ids : Charged(i) \in Accounts
BY SizesFacts DEF Charged

(* The initial state has the types.                                        *)
LEMMA InitShape == Init => Shape
<1> SUFFICES ASSUME Init PROVE Shape
  OBVIOUS
<1> USE SizesFacts DEF Init
<1>1. ModeShape
  BY DEF ModeShape, LocalIsQuiet, NoReq
<1>2. RowShape
  BY DEF RowShape, RowsWhole, NoRow
<1>3. HoldShape /\ DiskShape /\ UrlShape /\ JobShape /\ HistoryShape
  BY DEF HoldShape, DiskShape, UrlShape, JobShape, HistoryShape
<1>4. ReqShape
  BY DEF ReqShape, RequestsWhole, NoReq
<1>5. QED
  BY <1>1, <1>2, <1>3, <1>4 DEF Shape

(* What a step leaves alone keeps its shape. *)
LEMMA UnchangedShapes ==
    ASSUME Shape
    PROVE  /\ UNCHANGED row => RowShape'
           /\ UNCHANGED hold => HoldShape'
           /\ UNCHANGED disk => DiskShape'
           /\ UNCHANGED urls => UrlShape'
           /\ UNCHANGED req => ReqShape'
           /\ UNCHANGED job => JobShape'
           /\ UNCHANGED history => HistoryShape'
           /\ UNCHANGED <<bucket, hosted, req, job>> => ModeShape'
<1> USE DEF Shape
<1>1. UNCHANGED row => RowShape'
  BY DEF RowShape, RowsWhole
<1>2. UNCHANGED req => ReqShape'
  BY DEF ReqShape, RequestsWhole
<1>3. UNCHANGED <<bucket, hosted, req, job>> => ModeShape'
  BY DEF ModeShape, LocalIsQuiet, job
<1>4. QED
  BY <1>1, <1>2, <1>3 DEF HoldShape, DiskShape, UrlShape, JobShape, HistoryShape, disk, job, history

(* The changes of a row that the actions are made of. *)
LEMMA RowChanges ==
    ASSUME RowShape, NEW i \in Ids
    PROVE  /\ \A owner \in Accounts, size \in AnySize :
                  row' = [row EXCEPT ![i] = [status |-> "pending", owner |-> owner,
                                             expected |-> size, size |-> 0]] => RowShape'
           /\ row' = [row EXCEPT ![i] = NoRow] => RowShape'
           /\ row[i] # NoRow /\ row' = [row EXCEPT ![i].status = "deleted"] => RowShape'
           /\ \A size \in Bytes :
                  Pending(i) /\ row' = [row EXCEPT ![i].status = "confirmed", ![i].size = size]
                      => RowShape'
<1> USE SizesFacts
<1>1. ASSUME NEW owner \in Accounts, NEW size \in AnySize,
             row' = [row EXCEPT ![i] = [status |-> "pending", owner |-> owner,
                                        expected |-> size, size |-> 0]]
      PROVE  RowShape'
  BY <1>1 DEF RowShape, RowsWhole, Row
<1>2. ASSUME row' = [row EXCEPT ![i] = NoRow] PROVE RowShape'
  BY <1>2 DEF RowShape, RowsWhole, NoRow
<1>3. ASSUME row[i] # NoRow, row' = [row EXCEPT ![i].status = "deleted"] PROVE RowShape'
  BY <1>3 DEF RowShape, RowsWhole, Row
<1>4. ASSUME NEW size \in Bytes, Pending(i),
             row' = [row EXCEPT ![i].status = "confirmed", ![i].size = size]
      PROVE  RowShape'
  BY <1>4 DEF RowShape, RowsWhole, Row, Pending
<1>5. QED
  BY <1>1, <1>2, <1>3, <1>4

(* Each action keeps the types: presign, ...                               *)
LEMMA PresignShape ==
    ASSUME Shape, NEW r \in Requests, NEW i \in Ids, NEW size \in Sizes[i], Presign(r, i, size)
    PROVE  Shape'
<1> USE SizesFacts
<1>1. size \in AnySize /\ Charged(i) \in Accounts
  BY ChargedType
<1>2. HoldShape'
  BY <1>1 DEF Presign, Reserve, Shape, HoldShape, Hold
<1>3. RowShape' /\ UrlShape' /\ ReqShape' /\ ModeShape'
  <2>1. CASE bucket
    <3>1. RowShape' /\ UrlShape'
      BY <2>1, UnchangedShapes DEF Presign, Shape
    <3>2. ReqShape'
      <4> DEFINE there == row[i] # NoRow
      <4>1. there \in BOOLEAN
        OBVIOUS
      <4>2. req' = [req EXCEPT ![r] = [t |-> "presign", id |-> i, size |-> size, stored |-> 0,
                                       owner |-> Charged(i), existed |-> there]]
        BY <2>1 DEF Presign
      <4> HIDE DEF there
      <4>3. QED
        BY <1>1, <4>1, <4>2 DEF Shape, ReqShape, RequestsWhole, Request
    <3>3. ModeShape'
      BY <2>1 DEF Presign, Shape, ModeShape, LocalIsQuiet
    <3>4. QED
      BY <3>1, <3>2, <3>3
  <2>2. CASE ~bucket
    <3>1. RowShape'
      BY <1>1, <2>2, RowChanges DEF Presign, Shape
    <3>2. UrlShape' /\ ReqShape' /\ ModeShape'
      BY <1>1, <2>2, UnchangedShapes DEF Presign, Shape, UrlShape
    <3>3. QED
      BY <3>1, <3>2
  <2>3. QED
    BY <2>1, <2>2
<1>4. DiskShape' /\ JobShape' /\ HistoryShape'
  BY UnchangedShapes DEF Presign
<1>5. QED
  BY <1>2, <1>3, <1>4 DEF Shape

(* The rest is unchanged but for the request, which ends. *)
LEMMA RequestEnds ==
    ASSUME Shape, NEW r \in Requests, req' = [req EXCEPT ![r] = NoReq], UNCHANGED <<bucket, hosted, job>>
    PROVE  ReqShape' /\ ModeShape'
<1>1. ReqShape'
  BY SizesFacts DEF Shape, ReqShape, RequestsWhole, NoReq
<1>2. ModeShape'
  BY DEF Shape, ModeShape, LocalIsQuiet, job, NoReq, ReqShape
<1>3. QED
  BY <1>1, <1>2

(* What the steps below share.                                             *)
LEMMA ReleaseShape ==
    ASSUME HoldShape, NEW S, Release(S)
    PROVE  HoldShape'
BY SizesFacts DEF Release, HoldShape

(* Signing the URL, ...                                                    *)
LEMMA PresignSignedShape ==
    ASSUME Shape, NEW r \in Requests, PresignSigned(r)
    PROVE  Shape'
<1> DEFINE q == req[r]
<1>1. q.id \in Ids /\ q.owner \in Accounts /\ q.size \in AnySize
  BY DEF PresignSigned, Shape, ReqShape, RequestsWhole
<1>2. RowShape'
  BY <1>1, RowChanges, UnchangedShapes DEF PresignSigned, Refresh, Shape
<1>3. UrlShape'
  BY <1>1 DEF PresignSigned, Shape, UrlShape
<1>4. ReqShape' /\ ModeShape'
  BY RequestEnds DEF PresignSigned
<1>5. HoldShape' /\ DiskShape' /\ JobShape' /\ HistoryShape'
  BY UnchangedShapes DEF PresignSigned
<1>6. QED
  BY <1>2, <1>3, <1>4, <1>5 DEF Shape

LEMMA PresignFailedShape ==
    ASSUME Shape, NEW r \in Requests, PresignFailed(r)
    PROVE  Shape'
<1>1. HoldShape'
  BY ReleaseShape DEF PresignFailed, Shape
<1>2. ReqShape' /\ ModeShape'
  BY RequestEnds DEF PresignFailed
<1>3. RowShape' /\ UrlShape' /\ DiskShape' /\ JobShape' /\ HistoryShape'
  BY UnchangedShapes DEF PresignFailed
<1>4. QED
  BY <1>1, <1>2, <1>3 DEF Shape

(* The uploads.                                                            *)
LEMMA UploadShape ==
    ASSUME Shape, NEW i \in Ids,
           PutStart(i) \/ PutFail(i) \/ \E size \in Sizes[i] : PutObject(i, size) \/ PutEnd(i, size)
    PROVE  Shape'
<1>1. UNCHANGED <<bucket, hosted, ledger, urls, req, job, history>>
  BY DEF PutStart, PutFail, PutObject, PutEnd
<1>2. object' \in [Ids -> Bytes]
  BY SizesFacts DEF PutStart, PutFail, PutObject, PutEnd, Shape, DiskShape
<1>3. writing' \in [Ids -> Put]
  <2>1. CASE PutStart(i)
    <3>1. [size |-> row[i].expected, part |-> TRUE] \in Put
      BY DEF Shape, RowShape, Row, Put
    <3>2. QED
      BY <2>1, <3>1 DEF PutStart, Shape, DiskShape
  <2>2. CASE PutFail(i) \/ \E size \in Sizes[i] : PutObject(i, size) \/ PutEnd(i, size)
    BY <2>2, SizesFacts DEF PutFail, PutObject, PutEnd, Shape, DiskShape
  <2>3. QED
    BY <2>1, <2>2
<1>4. QED
  BY <1>1, <1>2, <1>3, UnchangedShapes DEF Shape, DiskShape, ledger

(* The parts of a confirm.                                                 *)
LEMMA RemoveFilesShape ==
    ASSUME DiskShape, NEW S, NEW stuck, RemoveFiles(S, stuck)
    PROVE  DiskShape'
<1>1. object' \in [Ids -> Bytes]
  BY SizesFacts DEF RemoveFiles, DiskShape
<1>2. \A i \in Ids : writing[i] \in Put /\ [writing[i] EXCEPT !.part = FALSE] \in Put
  BY DEF DiskShape, Put
<1>3. PICK T : writing' = [i \in Ids |-> IF i \in T THEN [writing[i] EXCEPT !.part = FALSE]
                                        ELSE writing[i]]
  BY DEF RemoveFiles
<1>4. QED
  BY <1>1, <1>2, <1>3 DEF DiskShape

LEMMA ForgetShape ==
    ASSUME RowShape, NEW i \in Ids, Forget(i)
    PROVE  RowShape'
BY RowChanges DEF Forget

LEMMA ConfirmAttachmentShape ==
    ASSUME RowShape, HistoryShape, NEW i \in Ids, NEW owner \in Accounts, NEW size \in Bytes,
           ConfirmAttachment(i, owner, size)
    PROVE  RowShape' /\ HistoryShape'
<1>1. CASE ~Pending(i)
  BY <1>1 DEF ConfirmAttachment, RowShape, RowsWhole, HistoryShape, history
<1>2. CASE Pending(i)
  <2>1. RowShape'
    BY <1>2, RowChanges DEF ConfirmAttachment
  <2>2. row[i].owner \in Accounts
    BY <1>2 DEF RowShape, RowsWhole, Pending
  <2>3. HistoryShape'
    BY <1>2, <2>2 DEF ConfirmAttachment, HistoryShape
  <2>4. QED
    BY <2>1, <2>3
<1>3. QED
  BY <1>1, <1>2

LEMMA SettleShape ==
    ASSUME Shape, NEW i \in Ids, NEW owner \in Accounts, NEW expected, NEW stored \in Bytes,
           Settle(i, owner, expected, stored)
    PROVE  RowShape' /\ HoldShape' /\ DiskShape' /\ HistoryShape'
<1>1. CASE stored = 0
  BY <1>1, UnchangedShapes DEF Settle, ledger
<1>2. CASE stored # 0 /\ stored = expected
  BY <1>2, UnchangedShapes, ConfirmAttachmentShape, ReleaseShape DEF Settle, Shape
<1>3. CASE stored # 0 /\ stored # expected
  <2>1. HoldShape'
    BY <1>3, ReleaseShape DEF Settle, Shape
  <2>2. HistoryShape'
    BY <1>3 DEF Settle, Shape, HistoryShape, RowShape, RowsWhole, Confirmed, history
  <2>3. RowShape'
    BY <1>3, RowChanges, ForgetShape, UnchangedShapes DEF Settle, Shape
  <2>4. DiskShape'
    BY <1>3, RemoveFilesShape, UnchangedShapes DEF Settle, Shape
  <2>5. QED
    BY <2>1, <2>2, <2>3, <2>4
<1>4. QED
  BY <1>1, <1>2, <1>3

(* The confirms.                                                           *)
LEMMA ConfirmLocalShape ==
    ASSUME Shape, NEW i \in Ids, ConfirmLocal(i)
    PROVE  Shape'
<1>1. row[i].owner \in Accounts /\ object[i] \in Bytes
  BY DEF ConfirmLocal, Shape, RowShape, RowsWhole, Pending, DiskShape
<1>2. RowShape' /\ HoldShape' /\ DiskShape' /\ HistoryShape'
  BY <1>1, SettleShape DEF ConfirmLocal
<1>3. QED
  BY <1>2, UnchangedShapes DEF ConfirmLocal, Shape

LEMMA ConfirmAskShape ==
    ASSUME Shape, NEW r \in Requests, NEW i \in Ids, ConfirmAsk(r, i)
    PROVE  Shape'
<1>1. row[i].owner \in Accounts /\ row[i].expected \in AnySize
  BY DEF ConfirmAsk, Shape, RowShape, RowsWhole, Pending
<1>2. ReqShape'
  BY <1>1, SizesFacts DEF ConfirmAsk, Shape, ReqShape, RequestsWhole, Request
<1>3. ModeShape'
  BY DEF ConfirmAsk, Shape, ModeShape, LocalIsQuiet
<1>4. QED
  BY <1>2, <1>3, UnchangedShapes DEF ConfirmAsk, Shape, ledger

LEMMA HeadShape ==
    ASSUME Shape, NEW r \in Requests, Head(r)
    PROVE  Shape'
<1>1. req[r].id \in Ids /\ object[req[r].id] \in Bytes
  BY DEF Head, Shape, ReqShape, RequestsWhole, DiskShape
<1>2. ReqShape'
  BY <1>1 DEF Head, Shape, ReqShape, RequestsWhole, Request
<1>3. ModeShape'
  BY DEF Head, Shape, ModeShape, LocalIsQuiet, job, ReqShape
<1>4. QED
  BY <1>2, <1>3, UnchangedShapes DEF Head, Shape, ledger

LEMMA ConfirmEndShape ==
    ASSUME Shape, NEW r \in Requests, ConfirmEnd(r)
    PROVE  Shape'
<1>1. req[r].id \in Ids /\ req[r].owner \in Accounts /\ req[r].stored \in Bytes
  BY DEF ConfirmEnd, Shape, ReqShape, RequestsWhole, Request
<1>2. RowShape' /\ HoldShape' /\ DiskShape' /\ HistoryShape'
  BY <1>1, SettleShape DEF ConfirmEnd
<1>3. ReqShape' /\ ModeShape'
  BY RequestEnds DEF ConfirmEnd
<1>4. QED
  BY <1>2, <1>3, UnchangedShapes DEF ConfirmEnd, Shape

LEMMA ConfirmFailedShape ==
    ASSUME Shape, NEW r \in Requests, ConfirmFailed(r)
    PROVE  Shape'
<1>1. ReqShape' /\ ModeShape'
  BY RequestEnds DEF ConfirmFailed
<1>2. QED
  BY <1>1, UnchangedShapes DEF ConfirmFailed, Shape, ledger

(* The deletions and the cleanup job.                                      *)
LEMMA RetireShape ==
    ASSUME RowShape, NEW i \in Ids, row[i].status \in {"pending", "confirmed"}, Retire(i)
    PROVE  RowShape'
<1>1. row[i] # NoRow
  BY DEF NoRow
<1>2. QED
  BY <1>1, RowChanges DEF Retire

LEMMA DeleteShape ==
    ASSUME Shape, NEW i \in Ids, Delete(i)
    PROVE  Shape'
<1>1. RowShape'
  BY ForgetShape, RetireShape DEF Delete, Shape
<1>2. HoldShape'
  BY ReleaseShape DEF Delete, Shape
<1>3. DiskShape'
  BY RemoveFilesShape, UnchangedShapes DEF Delete, Shape
<1>4. HistoryShape'
  BY DEF Delete, Shape, HistoryShape
<1>5. QED
  BY <1>1, <1>2, <1>3, <1>4, UnchangedShapes DEF Delete, Shape

LEMMA CleanLocalShape ==
    ASSUME Shape, CleanLocal
    PROVE  Shape'
<1>0. PICK S \in Listed \ {{}} : \E stuck \in SUBSET S :
         /\ RemoveFiles(S, stuck) /\ Release(S \ stuck)
         /\ row' = [i \in Ids |-> IF i \in S \ stuck THEN NoRow ELSE row[i]]
  BY DEF CleanLocal
<1>1. PICK stuck \in SUBSET S :
         /\ RemoveFiles(S, stuck) /\ Release(S \ stuck)
         /\ row' = [i \in Ids |-> IF i \in S \ stuck THEN NoRow ELSE row[i]]
  BY <1>0
<1>2. RowShape'
  BY <1>1, SizesFacts DEF Shape, RowShape, RowsWhole, NoRow
<1>3. HoldShape' /\ DiskShape'
  BY <1>1, ReleaseShape, RemoveFilesShape DEF Shape
<1>4. QED
  BY <1>2, <1>3, UnchangedShapes DEF CleanLocal, Shape

LEMMA CleanStartShape ==
    ASSUME Shape, CleanStart
    PROVE  Shape'
<1>1. JobShape'
  BY DEF CleanStart, Listed, Shape, JobShape
<1>2. ModeShape'
  BY DEF CleanStart, Shape, ModeShape, LocalIsQuiet
<1>3. QED
  BY <1>1, <1>2, UnchangedShapes DEF CleanStart, Shape, ledger

LEMMA CleanObjectShape ==
    ASSUME Shape, NEW i \in Ids, CleanObject(i)
    PROVE  Shape'
<1>1. JobShape' /\ ModeShape'
  BY DEF CleanObject, Shape, JobShape, ModeShape, LocalIsQuiet
<1>2. DiskShape'
  BY SizesFacts DEF CleanObject, Shape, DiskShape
<1>3. QED
  BY <1>1, <1>2, UnchangedShapes DEF CleanObject, Shape, ledger

LEMMA CleanFailedShape ==
    ASSUME Shape, NEW i \in Ids, CleanFailed(i)
    PROVE  Shape'
<1>1. JobShape' /\ ModeShape'
  BY DEF CleanFailed, Shape, JobShape, ModeShape, LocalIsQuiet
<1>2. QED
  BY <1>1, UnchangedShapes DEF CleanFailed, Shape, ledger

LEMMA CleanRowShape ==
    ASSUME Shape, CleanRow
    PROVE  Shape'
<1>1. removing \in Ids
  BY DEF CleanRow, Shape, JobShape
<1>2. RowShape' /\ HoldShape'
  BY <1>1, ForgetShape, ReleaseShape DEF CleanRow, Shape
<1>3. JobShape' /\ ModeShape'
  BY DEF CleanRow, Shape, JobShape, ModeShape, LocalIsQuiet
<1>4. QED
  BY <1>2, <1>3, UnchangedShapes DEF CleanRow, Shape

(* Expiry, crashes, reconciliation.                                        *)
LEMMA ExpireShape ==
    ASSUME Shape, NEW i \in Ids, Expire(i)
    PROVE  Shape'
<1>1. HoldShape' /\ UrlShape'
  BY SizesFacts DEF Expire, Shape, HoldShape, UrlShape
<1>2. QED
  BY <1>1, UnchangedShapes DEF Expire, Shape

LEMMA StopsShape ==
    ASSUME Shape, Stops
    PROVE  /\ HoldShape' /\ ReqShape' /\ JobShape' /\ ModeShape' /\ UrlShape'
           /\ object' \in [Ids -> Bytes] => DiskShape'
<1> USE SizesFacts DEF Stops, Shape
<1>1. /\ HoldShape' /\ UrlShape' /\ JobShape'
      /\ object' \in [Ids -> Bytes] => DiskShape'
  BY DEF HoldShape, DiskShape, UrlShape, JobShape
<1>2. ReqShape'
  BY DEF ReqShape, RequestsWhole, NoReq
<1>3. ModeShape'
  BY DEF ModeShape, LocalIsQuiet, NoReq
<1>4. QED
  BY <1>1, <1>2, <1>3

LEMMA CrashShape ==
    ASSUME Shape, Stops, UNCHANGED <<object, row, history>>
    PROVE  Shape'
<1>1. object' \in [Ids -> Bytes]
  BY DEF Shape, DiskShape
<1>2. QED
  BY <1>1, StopsShape, UnchangedShapes DEF Shape

LEMMA CrashInConfirmShape ==
    ASSUME Shape, NEW i \in Ids, CrashInConfirm(i)
    PROVE  Shape'
<1>1. object[i] \in Bytes /\ row[i].owner \in Accounts
  BY DEF CrashInConfirm, Shape, DiskShape, RowShape, RowsWhole, Pending
<1>2. RowShape'
  BY <1>1, RowChanges DEF CrashInConfirm, Shape
<1>3. HistoryShape'
  BY <1>1 DEF CrashInConfirm, Shape, HistoryShape
<1>4. object' \in [Ids -> Bytes]
  BY DEF CrashInConfirm, Shape, DiskShape
<1>5. QED
  BY <1>2, <1>3, <1>4, StopsShape DEF CrashInConfirm, Shape

LEMMA CrashInDeleteShape ==
    ASSUME Shape, NEW i \in Ids, CrashInDelete(i)
    PROVE  Shape'
<1>1. row[i].owner \in Accounts /\ row[i] # NoRow
  BY DEF CrashInDelete, Shape, RowShape, RowsWhole, Confirmed, NoRow
<1>2. RowShape'
  BY <1>1, RowChanges DEF CrashInDelete, Shape
<1>3. HistoryShape'
  BY <1>1 DEF CrashInDelete, Shape, HistoryShape
<1>4. object' \in [Ids -> Bytes]
  BY SizesFacts DEF CrashInDelete, Shape, DiskShape
<1>5. QED
  BY <1>2, <1>3, <1>4, StopsShape DEF CrashInDelete, Shape

LEMMA CrashInUnlinkShape ==
    ASSUME Shape, NEW i \in Ids, CrashInUnlink(i)
    PROVE  Shape'
<1>1. RowShape' /\ HistoryShape'
  BY UnchangedShapes DEF CrashInUnlink, Shape, HistoryShape
<1>2. object' \in [Ids -> Bytes]
  BY SizesFacts DEF CrashInUnlink, Shape, DiskShape
<1>3. QED
  BY <1>1, <1>2, StopsShape DEF CrashInUnlink, Shape

LEMMA ReconcileShape ==
    ASSUME Shape, NEW a \in Accounts, Reconcile(a)
    PROVE  Shape'
<1>1. HistoryShape'
  BY DEF Reconcile, Shape, HistoryShape
<1>2. QED
  BY <1>1, UnchangedShapes DEF Reconcile, Shape

LEMMA GetHostedShape ==
    ASSUME Shape, GetHosted
    PROVE  Shape'
<1>1. ModeShape'
  BY DEF GetHosted, Shape, ModeShape, LocalIsQuiet, job
<1>2. QED
  BY <1>1, UnchangedShapes DEF GetHosted, Shape, ledger

(* The types are inductive on their own.                                   *)
LEMMA NextShape ==
    ASSUME Shape, [Next]_vars
    PROVE  Shape'
<1>1. CASE UNCHANGED vars
  BY <1>1, UnchangedShapes DEF vars, ledger, Shape
<1>2. ASSUME NEW r \in Requests,
             \/ \E i \in Ids : ConfirmAsk(r, i) \/ \E size \in Sizes[i] : Presign(r, i, size)
             \/ PresignSigned(r) \/ PresignFailed(r) \/ Head(r) \/ ConfirmEnd(r) \/ ConfirmFailed(r)
      PROVE  Shape'
  BY <1>2, PresignShape, PresignSignedShape, PresignFailedShape, ConfirmAskShape, HeadShape,
     ConfirmEndShape, ConfirmFailedShape
<1>3. ASSUME NEW i \in Ids,
             \/ \E size \in Sizes[i] : PutObject(i, size) \/ PutEnd(i, size)
             \/ PutStart(i) \/ PutFail(i) \/ PutThrows(i)
      PROVE  Shape'
  BY <1>3, UploadShape, CrashShape DEF PutThrows
<1>4. ASSUME NEW i \in Ids,
             \/ ConfirmLocal(i) \/ Delete(i) \/ CleanObject(i) \/ CleanFailed(i) \/ Expire(i)
             \/ CrashInConfirm(i) \/ CrashInDelete(i) \/ CrashInUnlink(i)
      PROVE  Shape'
  BY <1>4, ConfirmLocalShape, DeleteShape, CleanObjectShape, CleanFailedShape, ExpireShape,
     CrashInConfirmShape, CrashInDeleteShape, CrashInUnlinkShape
<1>5. CASE \/ \E a \in Accounts : Reconcile(a)
           \/ CleanLocal \/ CleanStart \/ CleanRow \/ Crash \/ GetHosted
  BY <1>5, ReconcileShape, CleanLocalShape, CleanStartShape, CleanRowShape, CrashShape,
     GetHostedShape DEF Crash
<1>6. QED
  BY <1>1, <1>2, <1>3, <1>4, <1>5 DEF Next
-----------------------------------------------------------------------------
(* Of one account: its counter is in range and is its ledger unless a      *)
(* change was missed; and one whose room was kept has nothing in its       *)
(* ledger that its counter has not, even then. This last part is what      *)
(* RoomKept needs: a reconcile raises the counter to the ledger.           *)
AccountOK(a) ==
    /\ used[a] \in 0..MaxUsed /\ LedgerSum(a) <= MaxUsed
    /\ a \notin unsettled => used[a] = LedgerSum(a)
    /\ a \notin unheld /\ Limit[a] # NoLimit =>
           LedgerSum(a) <= used[a] /\ used[a] + ReservedFor(a) <= Limit[a]

(* The same of every account.                                              *)
Balances ==
    /\ used \in [Accounts -> 0..MaxUsed]
    /\ \A a \in Accounts : AccountOK(a)

(* What is added up are natural numbers over a finite set, ...             *)
LEMMA Natural ==
    /\ \A h \in [Ids -> Hold] : \A a :
           [i \in Ids |-> IF h[i].user = a THEN h[i].bytes ELSE 0] \in [Ids -> Nat]
    /\ \A t \in [Ids -> Row] : \A a :
           [i \in Ids |-> IF t[i].status = "confirmed" /\ t[i].owner = a THEN t[i].size ELSE 0]
               \in [Ids -> Nat]
    /\ IsFiniteSet(Ids)
<1>1. Bytes \subseteq Nat
  BY SizesFacts
<1>2. QED
  BY <1>1, AttachmentsAssumption DEF Hold, Row

(* ... so the sums are natural numbers, before a step and after it.        *)
LEMMA SumsNatural ==
    /\ HoldShape => \A a : ReservedFor(a) \in Nat /\ HeldFor(a) \in [Ids -> Nat]
    /\ HoldShape' => \A a : ReservedFor(a)' \in Nat /\ HeldFor(a)' \in [Ids -> Nat]
    /\ RowShape => \A a : LedgerSum(a) \in Nat /\ CountedFor(a) \in [Ids -> Nat]
    /\ RowShape' => \A a : LedgerSum(a)' \in Nat /\ CountedFor(a)' \in [Ids -> Nat]
<1>1. /\ HoldShape => \A a : HeldFor(a) \in [Ids -> Nat]
      /\ HoldShape' => \A a : HeldFor(a)' \in [Ids -> Nat]
      /\ RowShape => \A a : CountedFor(a) \in [Ids -> Nat]
      /\ RowShape' => \A a : CountedFor(a)' \in [Ids -> Nat]
  BY Natural DEF HoldShape, RowShape, HeldFor, CountedFor, Confirmed
<1>2. \A w \in [Ids -> Nat] : SumFunction(w) \in Nat
  BY Natural, TotalNat
<1>3. QED
  BY <1>1, <1>2 DEF ReservedFor, LedgerSum

(* Releasing holds lowers what is reserved.                                *)
LEMMA ReleaseLess ==
    ASSUME HoldShape, HoldShape', \A i \in Ids : hold'[i] = hold[i] \/ hold'[i] = NoHold, NEW a
    PROVE  ReservedFor(a)' <= ReservedFor(a)
<1>1. \A i \in Ids : HeldFor(a)'[i] <= HeldFor(a)[i]
  <2>1. \A i \in Ids : HeldFor(a)[i] \in Nat
    BY SumsNatural
  <2>2. QED
    BY <2>1 DEF HeldFor, NoHold
<1>2. QED
  BY <1>1, SumsNatural, TotalLess, Natural DEF ReservedFor

(* The sums change by what changes at one id.                              *)
LEMMA HoldChange ==
    ASSUME HoldShape, HoldShape', NEW i \in Ids, \A j \in Ids \ {i} : hold'[j] = hold[j], NEW a
    PROVE  ReservedFor(a)' + HeldFor(a)[i] = ReservedFor(a) + HeldFor(a)'[i]
<1>1. \A j \in Ids \ {i} : HeldFor(a)[j] = HeldFor(a)'[j]
  BY DEF HeldFor
<1>2. QED
  BY <1>1, SumsNatural, TotalChange, Natural DEF ReservedFor

LEMMA LedgerChange ==
    ASSUME RowShape, RowShape', NEW i \in Ids, \A j \in Ids \ {i} : row'[j] = row[j], NEW a
    PROVE  LedgerSum(a)' + CountedFor(a)[i] = LedgerSum(a) + CountedFor(a)'[i]
<1>1. \A j \in Ids \ {i} : CountedFor(a)[j] = CountedFor(a)'[j]
  BY DEF CountedFor, Confirmed
<1>2. QED
  BY <1>1, SumsNatural, TotalChange, Natural DEF LedgerSum

(* Rows that are not confirmed count for nothing.                          *)
LEMMA LedgerSame ==
    ASSUME \A i \in Ids : row'[i] = row[i] \/ (~Confirmed(i) /\ ~Confirmed(i)'), NEW a
    PROVE  CountedFor(a)' = CountedFor(a) /\ LedgerSum(a)' = LedgerSum(a)
<1>1. CountedFor(a)' = CountedFor(a)
  BY DEF CountedFor, Confirmed
<1>2. QED
  BY <1>1 DEF LedgerSum

(* A step that leaves counters and ledger alone, and promises nothing new. *)
LEMMA QuietBalances ==
    ASSUME Shape, Shape', Balances, UNCHANGED <<used, unsettled, unheld>>,
           \A a \in Accounts : LedgerSum(a)' = LedgerSum(a) /\ ReservedFor(a)' <= ReservedFor(a)
    PROVE  Balances'
<1> SUFFICES ASSUME NEW a \in Accounts PROVE AccountOK(a)'
  BY DEF Balances
<1>1. AccountOK(a) /\ LedgerSum(a)' = LedgerSum(a) /\ ReservedFor(a)' <= ReservedFor(a)
  BY DEF Balances
<1>2. used'[a] = used[a] /\ unsettled' = unsettled /\ unheld' = unheld
  OBVIOUS
<1>3. ReservedFor(a) \in Nat /\ ReservedFor(a)' \in Nat /\ LedgerSum(a) \in Nat
  BY SumsNatural DEF Shape
<1>4. Limit[a] # NoLimit => Limit[a] \in Nat
  BY AttachmentsAssumption
<1>5. QED
  BY <1>1, <1>2, <1>3, <1>4 DEF AccountOK

(* A confirmed row goes and its bytes are given back.                      *)
LEMMA GiveBackBalances ==
    ASSUME Shape, Shape', Balances, NEW i \in Ids, GiveBack(i), Confirmed(i)' = FALSE,
           \A j \in Ids \ {i} : row'[j] = row[j], UNCHANGED <<unsettled, unheld>>,
           \A a \in Accounts : ReservedFor(a)' <= ReservedFor(a)
    PROVE  Balances'
<1>0. MaxUsed \in Nat
  BY AttachmentsAssumption
<1>1. \A a \in Accounts :
         /\ LedgerSum(a) \in Nat /\ LedgerSum(a)' \in Nat /\ used[a] \in 0..MaxUsed
         /\ ReservedFor(a) \in Nat /\ ReservedFor(a)' \in Nat
         /\ Limit[a] # NoLimit => Limit[a] \in Nat
  BY SumsNatural, AttachmentsAssumption DEF Shape, Balances
<1>2. ASSUME NEW a \in Accounts, ~(Confirmed(i) /\ row[i].owner = a)
      PROVE  used'[a] = used[a] /\ LedgerSum(a)' = LedgerSum(a)
  <2>1. CountedFor(a)[i] = 0 /\ CountedFor(a)'[i] = 0
    BY <1>2 DEF CountedFor
  <2>2. LedgerSum(a)' = LedgerSum(a)
    BY <2>1, <1>1, LedgerChange DEF Shape
  <2>3. used'[a] = used[a]
    BY <1>2 DEF GiveBack, Balances
  <2>4. QED
    BY <2>2, <2>3
<1>3. ASSUME NEW a \in Accounts, Confirmed(i), row[i].owner = a
      PROVE  /\ row[i].size \in Nat
             /\ LedgerSum(a)' + row[i].size = LedgerSum(a)
             /\ used'[a] = IF used[a] > row[i].size THEN used[a] - row[i].size ELSE 0
  <2>1. CountedFor(a)[i] = row[i].size /\ CountedFor(a)'[i] = 0
    BY <1>3 DEF CountedFor
  <2>2. row[i].size \in Nat
    BY SizesFacts DEF Shape, RowShape, Row
  <2>3. LedgerSum(a)' + row[i].size = LedgerSum(a)
    BY <2>1, <2>2, <1>1, LedgerChange DEF Shape
  <2>4. QED
    BY <1>3, <2>2, <2>3 DEF GiveBack, Balances
<1>4. used' \in [Accounts -> 0..MaxUsed]
  <2>1. DOMAIN used' = Accounts /\ used' = [a \in Accounts |-> used'[a]]
    BY DEF GiveBack, Balances
  <2>2. \A a \in Accounts : used'[a] \in 0..MaxUsed
    BY <1>0, <1>1, <1>2, <1>3
  <2>3. QED
    BY <2>1, <2>2
<1>5. ASSUME NEW a \in Accounts PROVE AccountOK(a)'
  <2>1. AccountOK(a) /\ ReservedFor(a)' <= ReservedFor(a) /\ used'[a] \in 0..MaxUsed
        /\ unsettled' = unsettled /\ unheld' = unheld
    BY <1>4 DEF Balances
  <2>2. CASE ~(Confirmed(i) /\ row[i].owner = a)
    BY <1>1, <1>2, <2>1, <2>2 DEF AccountOK
  <2>3. CASE Confirmed(i) /\ row[i].owner = a
    BY <1>0, <1>1, <1>3, <2>1, <2>3 DEF AccountOK
  <2>4. QED
    BY <2>2, <2>3
<1>6. QED
  BY <1>4, <1>5 DEF Balances

(* A presign promises bytes only where Fits finds room.                    *)
LEMMA PresignBalances ==
    ASSUME Shape, Shape', Balances, NEW r \in Requests, NEW i \in Ids, NEW size \in Sizes[i],
           Presign(r, i, size)
    PROVE  Balances'
<1> DEFINE owner == Charged(i)
<1>1. owner \in Accounts /\ size \in Nat
  BY ChargedType, SizesFacts
<1>2. ~Confirmed(i) /\ Reserve(owner, i, size) /\ UNCHANGED <<used, history>>
  BY DEF Presign
<1>3. \A a \in Accounts : LedgerSum(a)' = LedgerSum(a)
  <2>1. \A j \in Ids : row'[j] = row[j] \/ (~Confirmed(j) /\ ~Confirmed(j)')
    BY DEF Presign, Confirmed, Shape, RowShape
  <2>2. QED
    BY <2>1, LedgerSame
<1>4. CASE Limit[owner] = NoLimit
  <2>1. hold' = hold
    BY <1>2, <1>4 DEF Reserve
  <2>2. \A a \in Accounts : ReservedFor(a)' <= ReservedFor(a)
    BY <2>1, ReleaseLess DEF Shape
  <2>3. QED
    BY <1>2, <1>3, <2>2, QuietBalances DEF history
<1>5. CASE Limit[owner] # NoLimit
  <2>1. hold' = [hold EXCEPT ![i] = [user |-> owner, bytes |-> size]]
    BY <1>2, <1>5 DEF Reserve
  <2>2. ASSUME NEW a \in Accounts PROVE AccountOK(a)'
    <3> HIDE DEF owner
    <3>1. /\ AccountOK(a) /\ used'[a] = used[a] /\ used[a] \in 0..MaxUsed
          /\ unsettled' = unsettled /\ unheld' = unheld
      BY <1>2 DEF Balances, history
    <3>2. ReservedFor(a)' + HeldFor(a)[i] = ReservedFor(a) + HeldFor(a)'[i]
      <4>1. \A j \in Ids \ {i} : hold'[j] = hold[j]
        BY <2>1
      <4>2. QED
        BY <4>1, HoldChange DEF Shape
    <3>3. /\ ReservedFor(a) \in Nat /\ ReservedFor(a)' \in Nat /\ LedgerSum(a) \in Nat
          /\ HeldFor(a)[i] \in Nat
          /\ Limit[a] # NoLimit => Limit[a] \in Nat
      BY SumsNatural, AttachmentsAssumption DEF Shape
    <3>4. HeldFor(a)'[i] = IF owner = a THEN size ELSE 0
      BY <2>1 DEF HeldFor, Shape, HoldShape
    <3>5. CASE owner # a
      <4>1. ReservedFor(a)' <= ReservedFor(a)
        BY <3>2, <3>3, <3>4, <3>5
      <4>2. QED
        BY <1>3, <3>1, <3>3, <4>1 DEF AccountOK
    <3>6. CASE owner = a
      <4>1. used[a] + (ReservedFor(a) - HeldFor(a)[i]) + size <= Limit[a]
        BY <1>2, <1>5, <3>6 DEF Reserve, Fits, HeldFor, owner
      <4>2. used[a] + ReservedFor(a)' <= Limit[a]
        BY <1>1, <3>1, <3>2, <3>3, <3>4, <3>6, <4>1
      <4>3. QED
        BY <1>3, <3>1, <3>3, <4>2 DEF AccountOK
    <3>7. QED
      BY <3>5, <3>6
  <2>3. QED
    BY <1>2, <2>2 DEF Balances
<1>6. QED
  BY <1>4, <1>5

(* A confirm charges the account it read, which may not be the row's any   *)
(* more: then both have missed a change, and what was held covers the      *)
(* charge only when it was held for that account.                          *)
LEMMA ConfirmBalances ==
    ASSUME Shape, Shape', Balances, NEW i \in Ids, NEW owner \in Accounts, NEW size \in Bytes,
           ConfirmAttachment(i, owner, size), Release({i})
    PROVE  Balances'
<1>0. \A a \in Accounts : ReservedFor(a)' <= ReservedFor(a)
  BY ReleaseLess DEF Release, Shape
<1>1. CASE ~Pending(i)
  <2>1. UNCHANGED <<row, used, history>>
    BY <1>1 DEF ConfirmAttachment
  <2>2. \A a \in Accounts : LedgerSum(a)' = LedgerSum(a)
    BY <2>1, LedgerSame
  <2>3. QED
    BY <1>0, <2>1, <2>2, QuietBalances DEF history
<1>2. CASE Pending(i)
  <2> DEFINE other == row[i].owner
  <2>1. /\ InBound({owner, other}, size)
        /\ row' = [row EXCEPT ![i].status = "confirmed", ![i].size = size]
        /\ used' = [used EXCEPT ![owner] = @ + size]
        /\ unsettled' = IF other = owner THEN unsettled ELSE unsettled \cup {owner, other}
        /\ unheld' = unheld \cup {a \in {owner, other} :
                                     Limit[a] # NoLimit /\ ~(a = owner /\ Holds(i, a, size))}
    BY <1>2 DEF ConfirmAttachment
  <2>2. other \in Accounts /\ size \in Nat /\ MaxUsed \in Nat
    BY <1>2, SizesFacts, AttachmentsAssumption DEF Shape, RowShape, RowsWhole, Pending
  <2>3. \A a \in Accounts :
           /\ used[a] \in 0..MaxUsed /\ LedgerSum(a) \in Nat
           /\ ReservedFor(a) \in Nat /\ ReservedFor(a)' \in Nat
           /\ Limit[a] # NoLimit => Limit[a] \in Nat
    BY SumsNatural, AttachmentsAssumption DEF Shape, Balances
  <2>4. \A a \in Accounts : LedgerSum(a)' = LedgerSum(a) + IF other = a THEN size ELSE 0
    <3> TAKE a \in Accounts
    <3>1. CountedFor(a)[i] = 0 /\ CountedFor(a)'[i] = IF other = a THEN size ELSE 0
      BY <1>2, <2>1 DEF CountedFor, Confirmed, Pending, Shape, RowShape, Row
    <3>2. LedgerSum(a)' + CountedFor(a)[i] = LedgerSum(a) + CountedFor(a)'[i]
      <4>1. \A j \in Ids \ {i} : row'[j] = row[j]
        BY <2>1 DEF Shape, RowShape
      <4>2. QED
        BY <4>1, LedgerChange DEF Shape
    <3>3. LedgerSum(a)' \in Nat /\ LedgerSum(a) \in Nat
      BY SumsNatural DEF Shape
    <3>4. QED
      BY <2>2, <3>1, <3>2, <3>3
  <2>5. \A a \in Accounts : used'[a] = used[a] + IF owner = a THEN size ELSE 0
    BY <2>1, <2>2, <2>3 DEF Balances
  <2>6. used' \in [Accounts -> 0..MaxUsed]
    <3>1. used[owner] + size \in 0..MaxUsed
      BY <2>1, <2>2, <2>3 DEF InBound
    <3>2. QED
      BY <2>1, <3>1 DEF Balances
  <2> HIDE DEF other
  <2>7. ASSUME NEW a \in Accounts PROVE AccountOK(a)'
    <3>1. AccountOK(a) /\ used'[a] \in 0..MaxUsed
      BY <2>6 DEF Balances
    <3>2. LedgerSum(a)' <= MaxUsed
      BY <2>1, <2>2, <2>3, <2>4, <3>1 DEF InBound, AccountOK
    <3>3. a \notin unsettled' => used'[a] = LedgerSum(a)'
      BY <2>1, <2>4, <2>5, <3>1 DEF AccountOK
    <3>4. ASSUME a \notin unheld', Limit[a] # NoLimit
          PROVE  LedgerSum(a)' <= used'[a] /\ used'[a] + ReservedFor(a)' <= Limit[a]
      <4>1. a \notin unheld /\ LedgerSum(a) <= used[a] /\ used[a] + ReservedFor(a) <= Limit[a]
        BY <2>1, <3>1, <3>4 DEF AccountOK
      <4>2. CASE a # owner
        <5>1. a # other
          BY <2>1, <3>4, <4>2
        <5>2. QED
          BY <1>0, <2>3, <2>4, <2>5, <3>4, <4>1, <4>2, <5>1
      <4>3. CASE a = owner
        <5>1. hold[i].user = a /\ hold[i].bytes >= size
          BY <2>1, <3>4, <4>3 DEF Holds
        <5>2. HeldFor(a)[i] = hold[i].bytes /\ hold[i].bytes \in Nat /\ HeldFor(a)'[i] = 0
          BY <5>1, SizesFacts DEF HeldFor, Release, NoHold, Shape, HoldShape, Hold
        <5>3. ReservedFor(a)' + HeldFor(a)[i] = ReservedFor(a) + HeldFor(a)'[i]
          <6>1. \A j \in Ids \ {i} : hold'[j] = hold[j]
            BY DEF Release
          <6>2. QED
            BY <6>1, HoldChange DEF Shape
        <5>4. QED
          BY <2>2, <2>3, <2>4, <2>5, <3>4, <4>1, <4>3, <5>1, <5>2, <5>3
      <4>4. QED
        BY <4>2, <4>3
    <3>5. QED
      BY <3>1, <3>2, <3>3, <3>4 DEF AccountOK
  <2>8. QED
    BY <2>6, <2>7 DEF Balances
<1>3. QED
  BY <1>1, <1>2

(* A row taken back without its bytes given back: what the counter misses. *)
LEMMA UncountedBalances ==
    ASSUME Shape, Shape', Balances, NEW i \in Ids, Confirmed(i)' = FALSE,
           \A j \in Ids \ {i} : row'[j] = row[j], UNCHANGED <<used, unheld>>,
           unsettled' = IF Confirmed(i) THEN unsettled \cup {row[i].owner} ELSE unsettled,
           \A a \in Accounts : ReservedFor(a)' <= ReservedFor(a)
    PROVE  Balances'
<1>1. \A a \in Accounts :
         /\ LedgerSum(a) \in Nat /\ LedgerSum(a)' \in Nat /\ used[a] \in 0..MaxUsed
         /\ ReservedFor(a) \in Nat /\ ReservedFor(a)' \in Nat
         /\ CountedFor(a)[i] \in Nat
         /\ Limit[a] # NoLimit => Limit[a] \in Nat
  BY SumsNatural, AttachmentsAssumption DEF Shape, Balances
<1>2. \A a \in Accounts : LedgerSum(a)' + CountedFor(a)[i] = LedgerSum(a)
  <2> TAKE a \in Accounts
  <2>1. CountedFor(a)'[i] = 0
    BY DEF CountedFor
  <2>2. QED
    BY <1>1, <2>1, LedgerChange DEF Shape
<1>3. ASSUME NEW a \in Accounts PROVE AccountOK(a)'
  <2>1. AccountOK(a) /\ used'[a] = used[a]
    BY DEF Balances
  <2>2. a \notin unsettled' => a \notin unsettled /\ CountedFor(a)[i] = 0
    BY DEF CountedFor
  <2>3. QED
    BY <1>1, <1>2, <2>1, <2>2, AttachmentsAssumption DEF AccountOK
<1>4. QED
  BY <1>3 DEF Balances

(* What a confirm does with the size it measured.                          *)
LEMMA SettleBalances ==
    ASSUME Shape, Shape', Balances, NEW i \in Ids, NEW owner \in Accounts, NEW expected,
           NEW stored \in Bytes, Settle(i, owner, expected, stored)
    PROVE  Balances'
<1>1. CASE stored = 0
  <2>1. UNCHANGED <<row, used, hold, history>>
    BY <1>1 DEF Settle, ledger
  <2>2. \A a \in Accounts : LedgerSum(a)' = LedgerSum(a) /\ ReservedFor(a)' <= ReservedFor(a)
    BY <2>1, LedgerSame, ReleaseLess DEF Shape
  <2>3. QED
    BY <2>1, <2>2, QuietBalances DEF history
<1>2. CASE stored # 0 /\ stored = expected
  BY <1>2, ConfirmBalances DEF Settle
<1>3. CASE stored # 0 /\ stored # expected
  <2>1. Release({i}) /\ UNCHANGED unheld
    BY <1>3 DEF Settle, history
  <2>2. \A a \in Accounts : ReservedFor(a)' <= ReservedFor(a)
    BY <2>1, ReleaseLess DEF Release, Shape
  <2>3. CASE /\ row' = IF row[i] = NoRow THEN row ELSE [row EXCEPT ![i].status = "deleted"]
             /\ UNCHANGED used
             /\ unsettled' = IF Confirmed(i) THEN unsettled \cup {row[i].owner} ELSE unsettled
    <3>1. Confirmed(i)' = FALSE /\ \A j \in Ids \ {i} : row'[j] = row[j]
      BY <2>3 DEF Confirmed, NoRow, Shape, RowShape, Row
    <3>2. QED
      BY <2>1, <2>2, <2>3, <3>1, UncountedBalances
  <2>4. CASE Forget(i) /\ UNCHANGED history
    <3>1. row' = [row EXCEPT ![i] = NoRow] /\ GiveBack(i)
      BY <2>4 DEF Forget
    <3>2. Confirmed(i)' = FALSE /\ \A j \in Ids \ {i} : row'[j] = row[j]
      BY <3>1 DEF Confirmed, NoRow, Shape, RowShape
    <3>3. QED
      BY <2>2, <2>4, <3>1, <3>2, GiveBackBalances DEF history
  <2>5. QED
    BY <1>3, <2>3, <2>4 DEF Settle
<1>4. QED
  BY <1>1, <1>2, <1>3

(* Steps that touch no counter and confirm, or take back, nothing.         *)
LEMMA NothingCounted ==
    ASSUME Shape, Shape', Balances, UNCHANGED <<used, unsettled, unheld>>,
           \A i \in Ids : row'[i] = row[i] \/ (~Confirmed(i) /\ ~Confirmed(i)'),
           \A i \in Ids : hold'[i] = hold[i] \/ hold'[i] = NoHold
    PROVE  Balances'
<1>1. \A a \in Accounts : LedgerSum(a)' = LedgerSum(a)
  BY LedgerSame
<1>2. \A a \in Accounts : ReservedFor(a)' <= ReservedFor(a)
  BY ReleaseLess DEF Shape
<1>3. QED
  BY <1>1, <1>2, QuietBalances

(* The steps of a request that charge nothing.                             *)
LEMMA RequestBalances ==
    ASSUME Shape, Shape', Balances, NEW r \in Requests,
           \/ PresignSigned(r) \/ PresignFailed(r) \/ Head(r) \/ ConfirmFailed(r)
           \/ \E i \in Ids : ConfirmAsk(r, i)
    PROVE  Balances'
<1>1. UNCHANGED <<used, history>>
  BY DEF PresignSigned, PresignFailed, Head, ConfirmFailed, ConfirmAsk, ledger
<1>2. \A i \in Ids : hold'[i] = hold[i] \/ hold'[i] = NoHold
  BY DEF PresignSigned, PresignFailed, Head, ConfirmFailed, ConfirmAsk, ledger, Release
<1>3. \A i \in Ids : row'[i] = row[i] \/ (~Confirmed(i) /\ ~Confirmed(i)')
  <2>1. CASE PresignSigned(r)
    BY <2>1 DEF PresignSigned, Refresh, Confirmed, NoRow, Shape, RowShape
  <2>2. CASE ~PresignSigned(r)
    BY <2>2 DEF PresignFailed, Head, ConfirmFailed, ConfirmAsk, ledger
  <2>3. QED
    BY <2>1, <2>2
<1>4. QED
  BY <1>1, <1>2, <1>3, NothingCounted DEF history

(* The confirms, the deletions and the cleanup job.                        *)
LEMMA ConfirmEndBalances ==
    ASSUME Shape, Shape', Balances, NEW r \in Requests, ConfirmEnd(r)
    PROVE  Balances'
<1>1. req[r].id \in Ids /\ req[r].owner \in Accounts /\ req[r].stored \in Bytes
  BY DEF ConfirmEnd, Shape, ReqShape, RequestsWhole, Request
<1>2. QED
  BY <1>1, SettleBalances DEF ConfirmEnd

LEMMA ConfirmLocalBalances ==
    ASSUME Shape, Shape', Balances, NEW i \in Ids, ConfirmLocal(i)
    PROVE  Balances'
<1>1. row[i].owner \in Accounts /\ object[i] \in Bytes
  BY DEF ConfirmLocal, Shape, RowShape, RowsWhole, Pending, DiskShape
<1>2. QED
  BY <1>1, SettleBalances DEF ConfirmLocal

LEMMA DeleteBalances ==
    ASSUME Shape, Shape', Balances, NEW i \in Ids, Delete(i)
    PROVE  Balances'
<1>1. Release({i}) /\ GiveBack(i) /\ UNCHANGED <<unsettled, unheld>>
  BY DEF Delete, Retire, Forget
<1>2. Confirmed(i)' = FALSE /\ \A j \in Ids \ {i} : row'[j] = row[j]
  BY DEF Delete, Retire, Forget, Confirmed, NoRow, Shape, RowShape, Row
<1>3. \A a \in Accounts : ReservedFor(a)' <= ReservedFor(a)
  BY <1>1, ReleaseLess DEF Release, Shape
<1>4. QED
  BY <1>1, <1>2, <1>3, GiveBackBalances

LEMMA CleanRowBalances ==
    ASSUME Shape, Shape', Balances, CleanRow
    PROVE  Balances'
<1>1. PICK i \in Ids : i = removing
  BY DEF CleanRow, Shape, JobShape
<1>2. /\ Release({i}) /\ GiveBack(i) /\ UNCHANGED <<unsettled, unheld>>
      /\ row' = [row EXCEPT ![i] = NoRow]
  BY <1>1 DEF CleanRow, Forget, history
<1>3. Confirmed(i)' = FALSE /\ \A j \in Ids \ {i} : row'[j] = row[j]
  BY <1>1, <1>2 DEF Confirmed, NoRow, Shape, RowShape
<1>4. \A a \in Accounts : ReservedFor(a)' <= ReservedFor(a)
  BY <1>2, ReleaseLess DEF Release, Shape
<1>5. QED
  BY <1>1, <1>2, <1>3, <1>4, GiveBackBalances

(* The rows the job drops on the disk are of uploads never confirmed: what *)
(* it gives back is nothing.                                               *)
LEMMA CleanLocalBalances ==
    ASSUME Shape, Shape', Balances, CleanLocal
    PROVE  Balances'
<1>1. \E L \in Listed : \E S \in SUBSET L :
         /\ Release(S)
         /\ row' = [i \in Ids |-> IF i \in S THEN NoRow ELSE row[i]]
         /\ used' = [a \in Accounts |->
                       LET back == SumFunctionOnSet(CountedFor(a), S)
                       IN  IF used[a] > back THEN used[a] - back ELSE 0]
  <2>1. \A L : \A stuck \in SUBSET L : L \ stuck \in SUBSET L
    OBVIOUS
  <2>2. QED
    BY <2>1 DEF CleanLocal
<1>d. \A L \in Listed : \A S \in SUBSET L : S \in SUBSET Ids /\ \A i \in S : ~Confirmed(i)
  BY DEF Listed, Pending, Confirmed
<1>2. PICK S \in SUBSET Ids :
         /\ \A i \in S : ~Confirmed(i)
         /\ Release(S)
         /\ row' = [i \in Ids |-> IF i \in S THEN NoRow ELSE row[i]]
         /\ used' = [a \in Accounts |->
                       LET back == SumFunctionOnSet(CountedFor(a), S)
                       IN  IF used[a] > back THEN used[a] - back ELSE 0]
  BY <1>1, <1>d, Zenon
<1>3. \A a : SumFunctionOnSet(CountedFor(a), S) = 0
  <2> TAKE a
  <2>1. IsFiniteSet(S)
    BY <1>2, Natural, FS_Subset
  <2>2. \A i \in S : CountedFor(a)[i] = 0
    BY <1>2 DEF CountedFor
  <2>3. QED
    BY <2>1, <2>2, SumZero
<1>4. used' = used
  <2>1. \A a \in Accounts : used[a] \in Nat
    BY DEF Balances
  <2>2. \A a \in Accounts : used'[a] = used[a]
    BY <1>2, <1>3, <2>1
  <2>3. DOMAIN used' = Accounts /\ used' = [a \in Accounts |-> used'[a]]
    BY <1>2
  <2>4. QED
    BY <2>2, <2>3 DEF Balances
<1>5. \A i \in Ids : row'[i] = row[i] \/ (~Confirmed(i) /\ ~Confirmed(i)')
  BY <1>2 DEF Confirmed, NoRow
<1>6. \A i \in Ids : hold'[i] = hold[i] \/ hold'[i] = NoHold
  BY <1>2 DEF Release
<1>7. QED
  BY <1>4, <1>5, <1>6, NothingCounted DEF CleanLocal, history

(* Uploads, expiry and crashes with nothing half done.                     *)
LEMMA QuietStepsBalance ==
    ASSUME Shape, Shape', Balances,
           \/ Crash \/ CleanStart \/ GetHosted
           \/ \E i \in Ids :
                 \/ PutStart(i) \/ PutFail(i) \/ PutThrows(i) \/ CleanObject(i) \/ CleanFailed(i)
                 \/ Expire(i) \/ CrashInUnlink(i)
                 \/ \E size \in Sizes[i] : PutObject(i, size) \/ PutEnd(i, size)
    PROVE  Balances'
<1>1. UNCHANGED <<row, used, unsettled, unheld>>
  BY DEF PutStart, PutFail, PutThrows, PutObject, PutEnd, CleanObject, CleanFailed, Expire, Crash,
         CleanStart, GetHosted, CrashInUnlink, Stops, ledger, history
<1>2. \A i \in Ids : hold'[i] = hold[i] \/ hold'[i] = NoHold
  BY DEF PutStart, PutFail, PutThrows, PutObject, PutEnd, CleanObject, CleanFailed, Expire, Crash,
         CleanStart, GetHosted, CrashInUnlink, Stops, ledger, Shape, HoldShape
<1>3. QED
  BY <1>1, <1>2, NothingCounted

(* A crash between the row and the counter leaves the account unsettled.   *)
LEMMA CrashInDeleteBalances ==
    ASSUME Shape, Shape', Balances, NEW i \in Ids, CrashInDelete(i)
    PROVE  Balances'
<1>1. Stops /\ Confirmed(i) /\ UNCHANGED <<used, unheld>> /\ unsettled' = unsettled \cup {row[i].owner}
  BY DEF CrashInDelete
<1>2. \A a \in Accounts : ReservedFor(a)' <= ReservedFor(a)
  BY <1>1, ReleaseLess DEF Stops, Shape
<1>3. Confirmed(i)' = FALSE /\ \A j \in Ids \ {i} : row'[j] = row[j]
  BY DEF CrashInDelete, Confirmed, NoRow, Shape, RowShape, Row
<1>4. QED
  BY <1>1, <1>2, <1>3, UncountedBalances

LEMMA CrashInConfirmBalances ==
    ASSUME Shape, Shape', Balances, NEW i \in Ids, CrashInConfirm(i)
    PROVE  Balances'
<1> DEFINE owner == row[i].owner
           size == object[i]
<1>1. /\ Pending(i) /\ Stops /\ InBound({owner}, size) /\ used' = used
      /\ row' = [row EXCEPT ![i].status = "confirmed", ![i].size = size]
      /\ unsettled' = unsettled \cup {owner}
      /\ unheld' = unheld \cup {a \in {owner} : Limit[a] # NoLimit}
  BY DEF CrashInConfirm
<1>2. owner \in Accounts /\ size \in Nat /\ MaxUsed \in Nat
  BY <1>1, SizesFacts, AttachmentsAssumption DEF Shape, RowShape, RowsWhole, Pending, DiskShape
<1>3. \A a \in Accounts : ReservedFor(a)' <= ReservedFor(a)
  BY <1>1, ReleaseLess DEF Stops, Shape
<1>4. \A a \in Accounts :
         /\ used[a] \in 0..MaxUsed /\ LedgerSum(a) \in Nat
         /\ ReservedFor(a) \in Nat /\ ReservedFor(a)' \in Nat
         /\ Limit[a] # NoLimit => Limit[a] \in Nat
  BY SumsNatural, AttachmentsAssumption DEF Shape, Balances
<1>5. \A a \in Accounts : LedgerSum(a)' = LedgerSum(a) + IF owner = a THEN size ELSE 0
  <2> TAKE a \in Accounts
  <2>1. CountedFor(a)[i] = 0 /\ CountedFor(a)'[i] = IF owner = a THEN size ELSE 0
    BY <1>1 DEF CountedFor, Confirmed, Pending, Shape, RowShape, Row
  <2>2. LedgerSum(a)' + CountedFor(a)[i] = LedgerSum(a) + CountedFor(a)'[i]
    <3>1. \A j \in Ids \ {i} : row'[j] = row[j]
      BY <1>1 DEF Shape, RowShape
    <3>2. QED
      BY <3>1, LedgerChange DEF Shape
  <2>3. LedgerSum(a)' \in Nat /\ LedgerSum(a) \in Nat
    BY SumsNatural DEF Shape
  <2>4. QED
    BY <1>2, <2>1, <2>2, <2>3
<1> HIDE DEF owner, size
<1>6. ASSUME NEW a \in Accounts PROVE AccountOK(a)'
  <2>1. AccountOK(a) /\ used'[a] = used[a]
    BY <1>1 DEF Balances
  <2>2. CASE a # owner
    BY <1>1, <1>3, <1>4, <1>5, <2>1, <2>2 DEF AccountOK
  <2>3. CASE a = owner
    BY <1>1, <1>2, <1>4, <1>5, <2>1, <2>3 DEF AccountOK, InBound
  <2>4. QED
    BY <2>2, <2>3
<1>7. QED
  BY <1>1, <1>6 DEF Balances

(* A reconcile puts the counter where the ledger is.                       *)
LEMMA ReconcileBalances ==
    ASSUME Shape, Shape', Balances, NEW b \in Accounts, Reconcile(b)
    PROVE  Balances'
<1>1. /\ used' = [used EXCEPT ![b] = LedgerSum(b)] /\ unsettled' = unsettled \ {b}
      /\ UNCHANGED <<row, hold, unheld>>
  BY DEF Reconcile, ReconcileUsage
<1>2. \A a \in Accounts : LedgerSum(a)' = LedgerSum(a) /\ ReservedFor(a)' = ReservedFor(a)
  BY <1>1 DEF LedgerSum, CountedFor, Confirmed, ReservedFor, HeldFor
<1>3. \A a \in Accounts :
         /\ LedgerSum(a) \in Nat /\ ReservedFor(a) \in Nat /\ used[a] \in 0..MaxUsed
         /\ Limit[a] # NoLimit => Limit[a] \in Nat
  BY SumsNatural, AttachmentsAssumption DEF Shape, Balances
<1>4. ASSUME NEW a \in Accounts PROVE AccountOK(a)' /\ used'[a] \in 0..MaxUsed
  <2>1. AccountOK(a) /\ used'[a] = IF a = b THEN LedgerSum(a) ELSE used[a]
    BY <1>1 DEF Balances
  <2>2. QED
    BY <1>1, <1>2, <1>3, <2>1, AttachmentsAssumption DEF AccountOK
<1>5. QED
  BY <1>1, <1>4 DEF Balances

(* Nothing is stored and nothing promised at first.                        *)
LEMMA InitBalances == Init => Balances
<1> SUFFICES ASSUME Init PROVE Balances
  OBVIOUS
<1>1. MaxUsed \in Nat /\ used = [a \in Accounts |-> 0] /\ unsettled = {} /\ unheld = {}
  BY AttachmentsAssumption DEF Init
<1>2. \A a : LedgerSum(a) = 0 /\ ReservedFor(a) = 0
  <2> TAKE a
  <2>1. \A i \in Ids : CountedFor(a)[i] = 0 /\ HeldFor(a)[i] = 0
    BY DEF Init, CountedFor, Confirmed, HeldFor, NoRow, NoHold
  <2>2. DOMAIN CountedFor(a) = Ids /\ DOMAIN HeldFor(a) = Ids /\ IsFiniteSet(Ids)
    BY AttachmentsAssumption DEF CountedFor, HeldFor
  <2>3. QED
    BY <2>1, <2>2, SumZero DEF LedgerSum, ReservedFor, SumFunction
<1>3. ASSUME NEW a \in Accounts PROVE AccountOK(a)
  <2>1. Limit[a] # NoLimit => Limit[a] \in Nat
    BY AttachmentsAssumption
  <2>2. QED
    BY <1>1, <1>2, <2>1 DEF AccountOK
<1>4. QED
  BY <1>1, <1>3 DEF Balances

(* Every step keeps the balances.                                          *)
LEMMA NextBalances ==
    ASSUME Shape, Shape', Balances, [Next]_vars
    PROVE  Balances'
<1>1. CASE UNCHANGED vars
  BY <1>1, NothingCounted DEF vars, ledger, history
<1>2. ASSUME NEW r \in Requests,
             \/ \E i \in Ids : ConfirmAsk(r, i) \/ \E size \in Sizes[i] : Presign(r, i, size)
             \/ PresignSigned(r) \/ PresignFailed(r) \/ Head(r) \/ ConfirmEnd(r) \/ ConfirmFailed(r)
      PROVE  Balances'
  BY <1>2, PresignBalances, RequestBalances, ConfirmEndBalances
<1>3. ASSUME NEW i \in Ids, ConfirmLocal(i) \/ Delete(i) \/ CrashInConfirm(i) \/ CrashInDelete(i)
      PROVE  Balances'
  BY <1>3, ConfirmLocalBalances, DeleteBalances, CrashInConfirmBalances, CrashInDeleteBalances
<1>4. CASE \/ \E a \in Accounts : Reconcile(a)
           \/ CleanLocal \/ CleanRow
  BY <1>4, ReconcileBalances, CleanLocalBalances, CleanRowBalances
<1>5. CASE \/ Crash \/ CleanStart \/ GetHosted
           \/ \E i \in Ids :
                 \/ PutStart(i) \/ PutFail(i) \/ PutThrows(i) \/ CleanObject(i) \/ CleanFailed(i)
                 \/ Expire(i) \/ CrashInUnlink(i)
                 \/ \E size \in Sizes[i] : PutObject(i, size) \/ PutEnd(i, size)
  BY <1>5, QuietStepsBalance
<1>6. QED
  BY <1>1, <1>2, <1>3, <1>4, <1>5 DEF Next
-----------------------------------------------------------------------------
(* On the disk, an attachment that is confirmed after a step keeps the     *)
(* file it had, or is given one.                                           *)
LEMMA FileKept ==
    ASSUME ConfirmedHasFile, UNCHANGED bucket,
           \A i \in Ids \ unlinked' : ~bucket /\ Confirmed(i)' =>
               \/ Confirmed(i) /\ object'[i] = object[i] /\ i \notin unlinked
               \/ object'[i] # 0
    PROVE  ConfirmedHasFile'
BY DEF ConfirmedHasFile

(* The file goes with the row, and no other does.                          *)
LEMMA ForgottenFile ==
    ASSUME Shape, NEW i \in Ids, NEW stuck \in SUBSET {i}, RemoveFiles({i}, stuck),
           \/ row' = [row EXCEPT ![i] = NoRow] \/ row' = [row EXCEPT ![i].status = "deleted"],
           NEW j \in Ids, Confirmed(j)'
    PROVE  Confirmed(j) /\ object'[j] = object[j] /\ j # i
<1>1. \A k \in Ids \ {i} : object'[k] = object[k] /\ row'[k] = row[k]
  BY DEF RemoveFiles, Shape, RowShape
<1>2. j # i
  BY DEF Confirmed, NoRow, Shape, RowShape, Row
<1>3. QED
  BY <1>1, <1>2 DEF Confirmed

(* With no bucket no request waits, and a presign leaves a pending row.    *)
LEMMA RequestFile ==
    ASSUME Shape, ConfirmedHasFile, NEW r \in Requests,
           \/ \E i \in Ids : ConfirmAsk(r, i) \/ \E size \in Sizes[i] : Presign(r, i, size)
           \/ PresignSigned(r) \/ PresignFailed(r) \/ Head(r) \/ ConfirmEnd(r) \/ ConfirmFailed(r)
    PROVE  ConfirmedHasFile'
<1>1. UNCHANGED bucket
  BY DEF Presign, ConfirmAsk, PresignSigned, PresignFailed, Head, ConfirmEnd, ConfirmFailed
<1>2. ~bucket => req[r].t = "idle"
  BY DEF Shape, ModeShape, LocalIsQuiet
<1>3. ASSUME ~bucket, NEW j \in Ids, Confirmed(j)'
      PROVE  Confirmed(j) /\ object'[j] = object[j] /\ unlinked' = unlinked
  <2>1. PICK i \in Ids : \E size \in Sizes[i] : Presign(r, i, size)
    BY <1>2, <1>3 DEF PresignSigned, PresignFailed, Head, ConfirmEnd, ConfirmFailed, ConfirmAsk
  <2>2. QED
    BY <1>3, <2>1 DEF Presign, Confirmed, disk, history, Shape, RowShape
<1>4. QED
  BY <1>1, <1>3, FileKept

(* A local confirm has just measured the file.                             *)
LEMMA ConfirmLocalFile ==
    ASSUME Shape, ConfirmedHasFile, NEW i \in Ids, ConfirmLocal(i) \/ CrashInConfirm(i)
    PROVE  ConfirmedHasFile'
<1>1. UNCHANGED <<bucket, unlinked>>
  BY DEF ConfirmLocal, CrashInConfirm, Stops, Settle, ConfirmAttachment, history
<1>2. row \in [Ids -> Row] /\ object \in [Ids -> Bytes] /\ (Pending(i) => row[i].expected # 0)
  BY SizesFacts DEF Shape, RowShape, RowsWhole, DiskShape, Pending
<1>3. ASSUME ~bucket, NEW j \in Ids, Confirmed(j)'
      PROVE  (Confirmed(j) /\ object'[j] = object[j]) \/ object'[j] # 0
  <2>1. CASE CrashInConfirm(i)
    BY <1>2, <1>3, <2>1 DEF CrashInConfirm, Stops, Confirmed
  <2>2. CASE ConfirmLocal(i) /\ object[i] = row[i].expected
    BY <1>2, <1>3, <2>2 DEF ConfirmLocal, Settle, ConfirmAttachment, Confirmed, disk
  <2>3. CASE ConfirmLocal(i) /\ object[i] = 0
    BY <1>2, <1>3, <2>3 DEF ConfirmLocal, Settle, Confirmed, disk, ledger
  <2>4. CASE ConfirmLocal(i) /\ object[i] # 0 /\ object[i] # row[i].expected
    <3>1. \/ row' = [row EXCEPT ![i] = NoRow] /\ RemoveFiles({i}, {})
          \/ row' = [row EXCEPT ![i].status = "deleted"] /\ RemoveFiles({i}, {i})
      BY <1>3, <2>4 DEF ConfirmLocal, Settle, Forget, Pending, NoRow
    <3>2. QED
      BY <1>3, <3>1, ForgottenFile
  <2>5. QED
    BY <2>1, <2>2, <2>3, <2>4
<1>4. QED
  BY <1>1, <1>3, FileKept

(* The row of a file that goes is not confirmed after that, but where a    *)
(* DELETE stops between the two.                                           *)
LEMMA DropFile ==
    ASSUME Shape, ConfirmedHasFile,
           CleanLocal \/ \E i \in Ids : Delete(i) \/ CrashInDelete(i) \/ CrashInUnlink(i)
    PROVE  ConfirmedHasFile'
<1>1. UNCHANGED bucket
  BY DEF CleanLocal, Delete, CrashInDelete, CrashInUnlink, Stops
<1>2. row \in [Ids -> Row] /\ object \in [Ids -> Bytes]
  BY DEF Shape, RowShape, DiskShape
<1>3. ASSUME ~bucket, NEW j \in Ids \ unlinked', Confirmed(j)'
      PROVE  Confirmed(j) /\ object'[j] = object[j] /\ j \notin unlinked
  <2>1. CASE CleanLocal
    <3>1. PICK S \in Listed \ {{}} : \E stuck \in SUBSET S :
             RemoveFiles(S, stuck) /\ row' = [i \in Ids |-> IF i \in S \ stuck THEN NoRow ELSE row[i]]
      BY <2>1 DEF CleanLocal
    <3>2. j \notin S /\ Confirmed(j)
      BY <1>2, <1>3, <3>1 DEF Listed, Pending, Confirmed, NoRow
    <3>3. unlinked' = unlinked
      BY <2>1 DEF CleanLocal, history
    <3>4. QED
      BY <1>3, <3>1, <3>2, <3>3 DEF RemoveFiles
  <2>2. CASE \E i \in Ids : Delete(i)
    <3>1. PICK i \in Ids : Delete(i)
      BY <2>2
    <3>2. \/ row' = [row EXCEPT ![i] = NoRow] /\ RemoveFiles({i}, {})
          \/ row' = [row EXCEPT ![i].status = "deleted"] /\ RemoveFiles({i}, {i})
      BY <1>3, <3>1 DEF Delete, Forget, Retire
    <3>3. unlinked' = unlinked \ {i}
      BY <3>1 DEF Delete
    <3>4. QED
      BY <1>3, <3>2, <3>3, ForgottenFile
  <2>3. CASE \E i \in Ids : CrashInDelete(i)
    BY <1>2, <1>3, <2>3 DEF CrashInDelete, Confirmed, NoRow, Row
  <2>4. CASE \E i \in Ids : CrashInUnlink(i)
    BY <1>2, <1>3, <2>4 DEF CrashInUnlink, Confirmed
  <2>5. QED
    BY <2>1, <2>2, <2>3, <2>4
<1>4. QED
  BY <1>1, <1>3, FileKept

(* The other steps change a file by finishing a PUT, which leaves one.     *)
LEMMA OtherFile ==
    ASSUME Shape, ConfirmedHasFile,
           \/ \E a \in Accounts : Reconcile(a)
           \/ CleanStart \/ CleanRow \/ Crash \/ GetHosted
           \/ \E i \in Ids :
                 \/ PutStart(i) \/ PutFail(i) \/ PutThrows(i) \/ CleanObject(i) \/ CleanFailed(i)
                 \/ Expire(i)
                 \/ \E size \in Sizes[i] : PutObject(i, size) \/ PutEnd(i, size)
    PROVE  ConfirmedHasFile'
<1>1. UNCHANGED <<bucket, unlinked>>
  BY DEF Reconcile, CleanStart, CleanRow, Crash, GetHosted, PutStart, PutFail, PutThrows, Stops,
         CleanObject, CleanFailed, Expire, PutObject, PutEnd, history
<1>2. ~bucket => sweep = {} /\ removing = NoId
  BY DEF Shape, ModeShape, LocalIsQuiet
<1>3. ~bucket => UNCHANGED row
  BY <1>2 DEF Reconcile, CleanStart, CleanRow, Crash, GetHosted, PutStart, PutFail, PutThrows,
              CleanObject, CleanFailed, Expire, PutObject, PutEnd, ledger
<1>4. ASSUME ~bucket, NEW j \in Ids PROVE object'[j] = object[j] \/ object'[j] # 0
  <2>1. object \in [Ids -> Bytes]
    BY DEF Shape, DiskShape
  <2>2. CASE \E i \in Ids : \E size \in Sizes[i] : PutEnd(i, size)
    BY <2>1, <2>2, SizesFacts DEF PutEnd
  <2>3. CASE ~\E i \in Ids : \E size \in Sizes[i] : PutEnd(i, size)
    <3>1. UNCHANGED object
      BY <1>2, <1>4, <2>3 DEF Reconcile, CleanStart, CleanRow, Crash, GetHosted, PutStart, PutFail,
            PutThrows, CleanObject, CleanFailed, Expire, PutObject, Stops, disk
    <3>2. QED
      BY <3>1
  <2>4. QED
    BY <2>2, <2>3
<1>5. QED
  BY <1>1, <1>3, <1>4, FileKept DEF Confirmed

(* Every step keeps the files.                                             *)
LEMMA NextFile == Shape /\ ConfirmedHasFile /\ [Next]_vars => ConfirmedHasFile'
<1> SUFFICES ASSUME Shape, ConfirmedHasFile, [Next]_vars PROVE ConfirmedHasFile'
  OBVIOUS
<1>1. CASE UNCHANGED vars
  BY <1>1 DEF vars, ledger, disk, history, ConfirmedHasFile, Confirmed
<1>2. CASE Next
  BY <1>2, RequestFile, ConfirmLocalFile, DropFile, OtherFile DEF Next
<1>3. QED
  BY <1>1, <1>2
-----------------------------------------------------------------------------
(* The inductive invariant.                                                *)
IInv == Shape /\ Balances /\ ConfirmedHasFile

(* It holds in every state that can be reached.                            *)
LEMMA Inductive == Spec => []IInv
<1>1. Init => IInv
  BY InitShape, InitBalances DEF IInv, Init, ConfirmedHasFile, Confirmed, NoRow
<1>2. IInv /\ [Next]_vars => IInv'
  BY NextShape, NextBalances, NextFile DEF IInv
<1>3. QED
  BY <1>1, <1>2, PTL DEF Spec

(* Rows, counters, holds, objects, uploads, URLs, requests and the cleanup *)
(* job keep their types; no counter goes beyond its bound or below zero.   *)
THEOREM TypeCorrect == Spec => []TypeOK
<1>1. IInv => TypeOK
  BY DEF IInv, Shape, ModeShape, RowShape, HoldShape, DiskShape, UrlShape, ReqShape, JobShape,
         HistoryShape, Balances, TypeOK
<1>2. QED
  BY <1>1, Inductive, PTL

(* Whatever order confirms, deletions, cleanups and reconciliations take,  *)
(* used_bytes of an account is the sum of its confirmed rows, unless the   *)
(* process stopped between the two or the row changed account while a      *)
(* confirm waited for the bucket (quota.ts, registry.ts).                  *)
THEOREM CountersMatchLedger == Spec => []UsageMatchesLedger
<1>1. IInv => UsageMatchesLedger
  BY DEF IInv, Balances, AccountOK, UsageMatchesLedger
<1>2. QED
  BY <1>1, Inductive, PTL

(* However many uploads of an account are in flight, what it has stored    *)
(* and what tryReserve promised them fit its limit together, until it is   *)
(* charged for bytes it no longer held.                                    *)
THEOREM PromisesFitLimit == Spec => []RoomKept
<1>1. IInv => RoomKept
  BY DEF IInv, Balances, AccountOK, RoomKept
<1>2. QED
  BY <1>1, Inductive, PTL

(* With no bucket, no interleaving of PUT /content, confirm, DELETE and    *)
(* the cleanup job leaves a confirmed row without its file, not even when  *)
(* a file cannot be removed; only a stop inside a DELETE does, until the   *)
(* DELETE is repeated.                                                     *)
THEOREM LocalFilesKept == Spec => []ConfirmedHasFile
<1>1. IInv => ConfirmedHasFile
  BY DEF IInv
<1>2. QED
  BY <1>1, Inductive, PTL

(* A confirmed attachment is never undone by a late answer of a newer      *)
(* upload, an expiry, a failed PUT or a crash elsewhere: only by a DELETE, *)
(* or with a bucket by a job or a confirm that began before.               *)
THEOREM ConfirmedIsFinal == Spec => ConfirmedStays
<1> DEFINE Allowed(i) ==
      \/ Delete(i) \/ CrashInDelete(i)
      \/ removing = i
      \/ \E r \in Requests : /\ req[r].id = i /\ req[r].t = "headed"
                             /\ req[r].stored # req[r].size /\ ConfirmEnd(r)
<1>1. ASSUME Shape, [Next]_vars, NEW i \in Ids, Confirmed(i), row'[i] # row[i] PROVE Allowed(i)
  <2> USE <1>1
  <2>1. row \in [Ids -> Row] /\ row' # row
    BY DEF Shape, RowShape
  <2>2. CASE \E r \in Requests : PresignSigned(r)
    BY <2>1, <2>2 DEF PresignSigned, Refresh, Confirmed, NoRow
  <2>3. CASE \E r \in Requests : ConfirmEnd(r)
    <3>1. PICK r \in Requests : ConfirmEnd(r)
      BY <2>3
    <3>2. req[r].id \in Ids
      BY <3>1 DEF ConfirmEnd, Shape, ReqShape, RequestsWhole
    <3>3. req[r].id = i /\ req[r].t = "headed" /\ req[r].stored # req[r].size
      BY <2>1, <3>1, <3>2
      DEF ConfirmEnd, Settle, ConfirmAttachment, Forget, Confirmed, Pending, ledger
    <3>4. QED
      BY <3>1, <3>3
  <2>4. CASE \E j \in Ids : ConfirmLocal(j) \/ CrashInConfirm(j)
    BY <2>1, <2>4 DEF ConfirmLocal, CrashInConfirm, Settle, ConfirmAttachment, Forget, Confirmed,
                      Pending, ledger
  <2>5. CASE \E j \in Ids : Delete(j) \/ CrashInDelete(j) \/ CrashInUnlink(j)
    BY <2>1, <2>5 DEF Delete, CrashInDelete, CrashInUnlink, Forget, Retire
  <2>6. CASE CleanLocal
    BY <2>1, <2>6 DEF CleanLocal, Listed, Confirmed, Pending
  <2>7. CASE CleanRow
    BY <2>1, <2>7 DEF CleanRow, Forget, Shape, JobShape
  <2>8. CASE \E r \in Requests, j \in Ids : \E size \in Sizes[j] : Presign(r, j, size)
    BY <2>1, <2>8 DEF Presign, Confirmed
  <2>9. CASE \/ UNCHANGED vars \/ Crash \/ CleanStart \/ GetHosted
             \/ \E a \in Accounts : Reconcile(a)
             \/ \E r \in Requests :
                   \/ PresignFailed(r) \/ Head(r) \/ ConfirmFailed(r)
                   \/ \E j \in Ids : ConfirmAsk(r, j)
             \/ \E j \in Ids :
                   \/ PutStart(j) \/ PutFail(j) \/ PutThrows(j) \/ CleanObject(j)
                   \/ CleanFailed(j) \/ Expire(j)
                   \/ \E size \in Sizes[j] : PutObject(j, size) \/ PutEnd(j, size)
    BY <2>1, <2>9 DEF vars, ledger, Crash, CleanStart, GetHosted, Reconcile, PresignFailed, Head,
          ConfirmFailed, ConfirmAsk, PutStart, PutFail, PutThrows, CleanObject, CleanFailed,
          Expire, PutObject, PutEnd
  <2>10. QED
    BY <2>2, <2>3, <2>4, <2>5, <2>6, <2>7, <2>8, <2>9 DEF Next
<1>2. Shape /\ [Next]_vars =>
        [\A i \in Ids : Confirmed(i) /\ row'[i] # row[i] => Allowed(i)]_vars
  BY <1>1
<1> HIDE DEF Allowed
<1>3. IInv => Shape
  BY DEF IInv
<1>4. Spec => [][\A i \in Ids : Confirmed(i) /\ row'[i] # row[i] => Allowed(i)]_vars
  BY <1>2, <1>3, Inductive, PTL DEF Spec
<1>5. QED
  BY <1>4 DEF ConfirmedStays, Allowed
=============================================================================
