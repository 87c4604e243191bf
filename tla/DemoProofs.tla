----------------------------- MODULE DemoProofs ------------------------------
(* Proofs about Demo, for any accounts, any cap, any lengths of a demo and *)
(* of a trial (in hours) and any units of time in an hour.                 *)
EXTENDS Demo, FiniteSetTheorems, TLAPS

(* The times the model computes, a product only ever of Hour and a         *)
(* constant.                                                               *)
LEMMA Times ==
    /\ Hour * DemoHours \in Nat /\ Hour * TrialHours \in Nat /\ Hour \in Nat \ {0}
    /\ Overrun \in Nat /\ Hour <= Overrun /\ Hour * DemoHours <= Hour * TrialHours + Overrun
    /\ MaxEnd = MaxTime + Hour * DemoHours + Hour * TrialHours + Hour
    /\ MaxTime \in Nat
<1>1. \A h, a \in Nat : h * a \in Nat
  OBVIOUS
<1>2. \A h, a, b \in Nat : h * (a + b) = h * a + h * b
  OBVIOUS
<1>3. Hour * DemoHours \in Nat /\ Hour * TrialHours \in Nat /\ Hour * 1 = Hour
  BY <1>1, DemoAssumption
<1>4. Hour * (DemoHours + TrialHours + 1) = Hour * DemoHours + Hour * TrialHours + Hour
  <2>1. Hour * ((DemoHours + TrialHours) + 1) = Hour * (DemoHours + TrialHours) + Hour * 1
    BY <1>2, DemoAssumption
  <2>2. Hour * (DemoHours + TrialHours) = Hour * DemoHours + Hour * TrialHours
    BY <1>2, DemoAssumption
  <2>3. QED
    BY <1>3, <2>1, <2>2
<1>5. Overrun \in Nat /\ Hour <= Overrun /\ Hour * DemoHours <= Hour * TrialHours + Overrun
  <2>1. CASE DemoHours > TrialHours + 1
    <3>1. PICK k \in Nat : DemoHours = TrialHours + (1 + k)
      <4>1. DemoHours - TrialHours - 1 \in Nat
            /\ DemoHours = TrialHours + (1 + (DemoHours - TrialHours - 1))
        BY <2>1, DemoAssumption
      <4>2. QED
        BY <4>1
    <3>2. Overrun = Hour * (1 + k)
      <4>1. DemoHours - TrialHours = 1 + k
        BY <3>1, DemoAssumption
      <4>2. QED
        BY <2>1, <4>1 DEF Overrun
    <3>3. Hour * (1 + k) = Hour + Hour * k /\ Hour * k \in Nat
      BY <1>1, <1>2, <1>3, DemoAssumption
    <3>4. Hour * DemoHours = Hour * TrialHours + Hour * (1 + k)
      BY <1>2, <3>1, DemoAssumption
    <3>5. QED
      BY <1>3, <3>2, <3>3, <3>4, DemoAssumption
  <2>2. CASE ~(DemoHours > TrialHours + 1)
    <3>1. PICK k \in Nat : TrialHours + 1 = DemoHours + k
      <4>1. TrialHours + 1 - DemoHours \in Nat
            /\ TrialHours + 1 = DemoHours + (TrialHours + 1 - DemoHours)
        BY <2>2, DemoAssumption
      <4>2. QED
        BY <4>1
    <3>2. Hour * TrialHours + Hour = Hour * (TrialHours + 1)
      BY <1>2, <1>3, DemoAssumption
    <3>3. Hour * (TrialHours + 1) = Hour * DemoHours + Hour * k /\ Hour * k \in Nat
      BY <1>1, <1>2, <3>1, DemoAssumption
    <3>4. Overrun = Hour
      BY <1>3, <2>2 DEF Overrun
    <3>5. QED
      BY <1>3, <3>2, <3>3, <3>4, DemoAssumption
  <2>3. QED
    BY <2>1, <2>2
<1>6. QED
  BY <1>3, <1>4, <1>5, DemoAssumption DEF MaxEnd

(* Rounding up to whole hours adds less than one.                          *)
LEMMA WholeHours ==
    ASSUME NEW h \in Nat \ {0}, NEW left \in Nat
    PROVE  LET hours == (left + h - 1) \div h
           IN  /\ hours \in Nat
               /\ h * hours \in Nat
               /\ h * hours <= left + h - 1
<1> DEFINE x == left + h - 1
           hours == x \div h
<1>1. x \in Nat
  OBVIOUS
<1> HIDE DEF x
<1>2. hours \in Nat /\ h * hours <= x
  BY <1>1
<1>3. h * hours \in Nat
  BY <1>2
<1>4. QED
  BY <1>2, <1>3 DEF x
-----------------------------------------------------------------------------
(* The accounts there are.                                                 *)
Present == {id \in Ids : HasRow(id)}

(* The types.                                                              *)
Shape ==
    /\ now \in 0..MaxTime
    /\ rows \in [Ids -> Row \cup {None}]
    /\ file \in [Ids -> Databases \cup {None}] /\ cache \in [Ids -> Databases \cup {None}]
    /\ session \in [Ids -> 0..MaxEnd]
    /\ socket \subseteq Ids /\ made \subseteq Ids
    /\ late \subseteq made /\ stranded \subseteq made

(* An id not used yet has nothing, so a new account's sessions are its own, *)
(* and end with it until it is given a trial.  None is given longer than a *)
(* demo or a trial from now: so another trial never shortens one.          *)
Fresh ==
    /\ socket \subseteq made
    /\ \A id \in Ids : HasRow(id) \/ session[id] # 0 => id \in made
    /\ \A id \in Ids : HasRow(id) =>
          IF rows[id].trial THEN rows[id].until <= now + Hour * TrialHours
          ELSE session[id] <= rows[id].until /\ rows[id].until <= now + Hour * DemoHours

(* The cap, with the finiteness a cardinality is worth something for.      *)
Capped == IsFiniteSet(Present) /\ Cardinality(Present) <= MaxDemo

(* The inductive invariant.                                                *)
IInv == Shape /\ Fresh /\ Capped /\ PurgedIsGone /\ SessionEndsWithAccount

(* There is nothing at first.                                              *)
LEMMA InitOK == Init => IInv
<1> SUFFICES ASSUME Init PROVE IInv
  OBVIOUS
<1>1. Present = {} /\ Shape /\ Fresh /\ PurgedIsGone /\ SessionEndsWithAccount
  <2>1. MaxEnd \in Nat /\ MaxTime \in Nat
    BY Times
  <2>2. QED
    BY <2>1 DEF Init, Present, HasRow, Shape, Fresh, PurgedIsGone, SessionEndsWithAccount
<1>2. Capped
  BY <1>1, FS_EmptySet, DemoAssumption DEF Capped
<1>3. QED
  BY <1>1, <1>2 DEF IInv

(* The rows a step leaves are among those there were, or there was room    *)
(* for the one it adds.                                                    *)
LEMMA CapKept ==
    ASSUME Capped,
           \/ Present' \subseteq Present
           \/ RoomForOne /\ \E id \in Ids : Present' \subseteq Present \cup {id}
    PROVE  Capped'
<1>1. IsFiniteSet(Present) /\ Cardinality(Present) \in Nat /\ MaxDemo \in Nat
  BY FS_CardinalityType, DemoAssumption DEF Capped
<1>2. CASE Present' \subseteq Present
  <2>1. IsFiniteSet(Present') /\ Cardinality(Present') <= Cardinality(Present)
    BY <1>1, <1>2, FS_Subset
  <2>2. Cardinality(Present') \in Nat /\ Cardinality(Present) <= MaxDemo
    BY <2>1, FS_CardinalityType DEF Capped
  <2>3. QED
    BY <1>1, <2>1, <2>2 DEF Capped
<1>3. ASSUME RoomForOne, NEW id \in Ids, Present' \subseteq Present \cup {id} PROVE Capped'
  <2>1. Cardinality(Present) < MaxDemo
    BY <1>3 DEF RoomForOne, Present
  <2>2. IsFiniteSet(Present \cup {id}) /\ Cardinality(Present \cup {id}) <= Cardinality(Present) + 1
    BY <1>1, FS_AddElement
  <2>3. IsFiniteSet(Present') /\ Cardinality(Present') <= Cardinality(Present \cup {id})
    BY <1>3, <2>2, FS_Subset
  <2>4. Cardinality(Present') \in Nat /\ Cardinality(Present \cup {id}) \in Nat
    BY <2>2, <2>3, FS_CardinalityType
  <2>5. QED
    BY <1>1, <2>1, <2>2, <2>3, <2>4 DEF Capped
<1>4. QED
  BY <1>2, <1>3

(* Opening an account's database, by whoever still may.                    *)
LEMMA OpenFacts ==
    ASSUME Shape, NEW id \in Ids, id \in made, Open(id)
    PROVE  /\ file' \in [Ids -> Databases \cup {None}] /\ cache' \in [Ids -> Databases \cup {None}]
           /\ late' \subseteq made
           /\ \A j \in Ids \ {id} : file'[j] = file[j] /\ cache'[j] = cache[j]
           /\ file'[id] = file[id] \/ file[id] = None
           /\ {file[id], cache[id]} \subseteq {None, "fresh"} =>
                 {file'[id], cache'[id]} \subseteq {None, "fresh"}
           /\ late' = IF HasRow(id) THEN late ELSE late \cup {id}
BY DemoAssumption DEF Shape, Open, Opened, Databases

(* Whatever opens a database: a request, a HELLO, a write of a socket.     *)
LEMMA OpeningSteps ==
    ASSUME IInv, NEW id \in Ids, Request(id) \/ Hello(id) \/ SocketWrite(id)
    PROVE  IInv'
<1> USE DEF IInv
<1>1. /\ id \in made /\ Open(id) /\ UNCHANGED <<now, rows, session, made, stranded>>
      /\ socket' = socket \/ (HasRow(id) /\ socket' = socket \cup {id})
  <2>1. Valid(id) => session[id] # 0
    BY DEF Valid, Shape
  <2>2. CASE Request(id)
    <3>1. session[id] # 0 /\ Open(id) /\ UNCHANGED <<now, rows, session, socket, made, stranded>>
      BY <2>1, <2>2 DEF Request
    <3>2. \A j \in Ids : session[j] # 0 => j \in made
      BY DEF Fresh
    <3>3. QED
      BY <3>1, <3>2
  <2>3. CASE Hello(id)
    BY <2>3 DEF Hello, Fresh
  <2>4. CASE SocketWrite(id)
    BY <2>4 DEF SocketWrite, Fresh
  <2>5. QED
    BY <2>2, <2>3, <2>4
<1>2. Shape'
  BY <1>1, OpenFacts DEF Shape
<1>3. Fresh' /\ SessionEndsWithAccount' /\ Present' = Present
  BY <1>1 DEF Fresh, HasRow, SessionEndsWithAccount, Present
<1>4. Capped'
  BY <1>3, CapKept
<1>5. PurgedIsGone'
  BY <1>1, OpenFacts DEF PurgedIsGone, HasRow, Shape
<1>6. QED
  BY <1>2, <1>3, <1>4, <1>5

(* A trial makes an account that had one last at least as long as before.  *)
LEMMA FreeTrialStep ==
    ASSUME IInv, NEW id \in Ids, FreeTrial(id)
    PROVE  IInv'
<1> USE DEF IInv
<1> DEFINE trial == [until |-> now + Hour * TrialHours, trial |-> TRUE]
<1>1. id \in made /\ HasRow(id) /\ Open(id) /\ rows' = [rows EXCEPT ![id] = trial]
  BY DEF FreeTrial, Fresh
<1>2. trial \in Row
  BY Times DEF Row, Shape
<1>3. trial.until = now + Hour * TrialHours
  OBVIOUS
<1> HIDE DEF trial
<1>4. Shape'
  <2>1. UNCHANGED <<now, session, socket, made, stranded>>
    BY DEF FreeTrial
  <2>2. QED
    BY <1>1, <1>2, <2>1, OpenFacts DEF Shape
<1>5. \A j \in Ids : HasRow(j)' <=> HasRow(j)
  BY <1>1, <1>2, DemoAssumption DEF HasRow, Shape
<1>6. Present' = Present /\ Capped'
  BY <1>5, CapKept DEF Present
<1>a. trial.trial = TRUE
  BY DEF trial
<1>7. Fresh'
  <2>1. \A j \in Ids \ {id} : rows'[j] = rows[j]
    BY <1>1 DEF Shape
  <2>2. rows'[id] = trial
    BY <1>1 DEF Shape
  <2>3. QED
    BY <1>3, <1>5, <1>a, <2>1, <2>2, Times DEF FreeTrial, Fresh, Shape
<1>8. PurgedIsGone'
  BY <1>1, <1>5, OpenFacts DEF PurgedIsGone, FreeTrial, Shape
<1>9. SessionEndsWithAccount'
  <2> SUFFICES ASSUME NEW j \in Ids, HasRow(j)' PROVE session'[j] <= rows'[j].until + Overrun
    BY DEF SessionEndsWithAccount
  <2>1. HasRow(j) /\ session'[j] = session[j] /\ session[j] <= rows[j].until + Overrun
    BY <1>5 DEF SessionEndsWithAccount, FreeTrial
  <2>2. session[j] \in Nat /\ rows[j].until \in Nat /\ now \in Nat
    BY <2>1, Times DEF Shape, HasRow, Row
  <2>3. CASE j # id
    BY <1>1, <2>1, <2>3 DEF Shape
  <2>4. CASE j = id
    <3>1. rows'[j].until = now + Hour * TrialHours
      BY <1>1, <1>3, <2>4 DEF Shape
    <3>2. CASE rows[j].trial
      <4>1. rows[j].until <= now + Hour * TrialHours
        BY <2>1, <3>2 DEF Fresh
      <4>2. QED
        BY <2>1, <2>2, <3>1, <4>1, Times
    <3>3. CASE ~rows[j].trial
      <4>1. session[j] <= rows[j].until /\ rows[j].until <= now + Hour * DemoHours
        BY <2>1, <3>3 DEF Fresh
      <4>2. QED
        BY <2>1, <2>2, <3>1, <4>1, Times
    <3>4. QED
      BY <3>2, <3>3
  <2>5. QED
    BY <2>3, <2>4
<1>10. QED
  BY <1>4, <1>6, <1>7, <1>8, <1>9

(* What is gone when some accounts are, with or without their files.       *)
LEMMA WithoutFacts ==
    ASSUME Shape, NEW S \in SUBSET Ids
    PROVE  /\ Without(rows, S) \in [Ids -> Row \cup {None}]
           /\ Without(file, S) \in [Ids -> Databases \cup {None}]
           /\ Without(cache, S) \in [Ids -> Databases \cup {None}]
           /\ \A id \in Ids : /\ Without(rows, S)[id] = IF id \in S THEN None ELSE rows[id]
                              /\ Without(file, S)[id] = IF id \in S THEN None ELSE file[id]
                              /\ Without(cache, S)[id] = IF id \in S THEN None ELSE cache[id]
BY DEF Shape, Without

(* The accounts S go, all their files but those of "cut"; handles K close. *)
Purged(S, K, cut) ==
    /\ cut \subseteq S /\ S \subseteq K /\ K \subseteq Ids /\ cut \subseteq made
    /\ rows' = Without(rows, S) /\ file' = Without(file, S \ cut) /\ cache' = Without(cache, K)
    /\ socket' \subseteq socket /\ stranded' = stranded \cup cut
    /\ UNCHANGED <<now, session, made, late>>

(* Every way of purging keeps the invariant.                               *)
LEMMA PurgingSteps ==
    ASSUME IInv, NEW S, NEW K, NEW cut, Purged(S, K, cut)
    PROVE  IInv'
<1> USE DEF IInv, Purged
<1>1. Shape'
  BY WithoutFacts DEF Shape
<1>2. \A id \in Ids : HasRow(id)' => HasRow(id) /\ rows'[id] = rows[id]
  BY WithoutFacts DEF HasRow
<1>3. Fresh' /\ SessionEndsWithAccount'
  BY <1>2 DEF Fresh, SessionEndsWithAccount
<1>4. Capped'
  BY <1>2, CapKept DEF Present
<1>5. PurgedIsGone'
  BY WithoutFacts DEF PurgedIsGone, HasRow, Shape
<1>6. QED
  BY <1>1, <1>3, <1>4, <1>5

(* A new account has an id nothing was opened with yet.                    *)
LEMMA ProvisionSteps ==
    ASSUME IInv, NEW id \in Ids, Provision(id) \/ ProvisionCut(id)
    PROVE  IInv'
<1> USE DEF IInv
<1>1. PICK S \in SUBSET Ids, K \in SUBSET Ids :
         /\ S \subseteq K
         /\ rows' = [Without(rows, S) EXCEPT ![id] = NewRow]
         /\ \E left \in Databases \cup {None} : file' = [Without(file, S) EXCEPT ![id] = left]
         /\ \E left \in Databases \cup {None} : cache' = [Without(cache, K) EXCEPT ![id] = left]
         /\ session' = session \/ session' = [session EXCEPT ![id] = now + Hour * DemoHours]
         /\ socket' \subseteq socket
  <2>1. CASE Provision(id)
    <3>1. Without(rows, {}) = rows /\ Without(file, {}) = file /\ Without(cache, {}) = cache
      BY DEF Without, Shape
    <3>2. /\ rows' = [Without(rows, {}) EXCEPT ![id] = NewRow]
          /\ file' = [Without(file, {}) EXCEPT ![id] = "demo"]
          /\ cache' = [Without(cache, {}) EXCEPT ![id] = "demo"]
          /\ session' = [session EXCEPT ![id] = now + Hour * DemoHours]
          /\ socket' = socket
      BY <2>1, <3>1 DEF Provision
    <3>3. QED
      BY <3>2 DEF Databases
  <2>2. CASE ProvisionCut(id)
    <3>1. Without(cache, Ids) = [Without(cache, Ids) EXCEPT ![id] = None]
      BY DEF Without
    <3>2. Expired \in SUBSET Ids
      BY DEF Expired
    <3>3. QED
      BY <2>2, <3>1, <3>2 DEF ProvisionCut, Databases
  <2>3. QED
    BY <2>1, <2>2
<1>2. /\ id \notin made /\ RoomForOne /\ made' = made \cup {id}
      /\ UNCHANGED <<now, late, stranded>>
  BY DEF Provision, ProvisionCut
<1>3. NewRow \in Row /\ NewRow.until = now + Hour * DemoHours /\ NewRow # None
  <2>1. now + Hour * DemoHours \in 0..MaxEnd
    BY Times DEF Shape
  <2>2. NewRow \in Row /\ NewRow.until = now + Hour * DemoHours
    BY <2>1 DEF NewRow, Row
  <2>3. QED
    BY <2>2, DemoAssumption
<1>4. now + Hour * DemoHours \in 0..MaxEnd
  BY Times DEF Shape
<1>5. Shape'
  BY <1>1, <1>2, <1>3, <1>4, WithoutFacts DEF Shape
<1>6. /\ HasRow(id)' /\ rows'[id] = NewRow
      /\ \A j \in Ids \ {id} : /\ HasRow(j)' => HasRow(j) /\ rows'[j] = rows[j]
                              /\ session'[j] = session[j]
  BY <1>1, <1>3, WithoutFacts DEF HasRow, Shape
<1>7. session[id] = 0
  BY <1>2 DEF Fresh
<1>8. Fresh'
  <2>1. socket' \subseteq made'
    BY <1>1, <1>2 DEF Fresh
  <2>2. \A j \in Ids : HasRow(j)' \/ session'[j] # 0 => j \in made'
    BY <1>2, <1>6 DEF Fresh
  <2>3. ASSUME NEW j \in Ids, HasRow(j)'
        PROVE  IF rows'[j].trial THEN rows'[j].until <= now' + Hour * TrialHours
               ELSE session'[j] <= rows'[j].until /\ rows'[j].until <= now' + Hour * DemoHours
    <3>1. CASE j = id
      <4>1. NewRow.trial = FALSE
        BY DEF NewRow
      <4>2. session'[id] \in {0, now + Hour * DemoHours}
        BY <1>1, <1>7 DEF Shape
      <4>3. QED
        BY <1>2, <1>3, <1>6, <3>1, <4>1, <4>2, Times DEF Shape
    <3>2. CASE j # id
      BY <1>2, <1>6, <2>3, <3>2 DEF Fresh
    <3>3. QED
      BY <3>1, <3>2
  <2>4. QED
    BY <2>1, <2>2, <2>3 DEF Fresh
<1>9. Capped'
  BY <1>2, <1>6, CapKept DEF Present
<1>10. PurgedIsGone'
  <2> SUFFICES ASSUME NEW j \in made' \ stranded', ~HasRow(j)'
               PROVE  /\ {file'[j], cache'[j]} \subseteq {None, "fresh"}
                      /\ j \notin late' => file'[j] = None /\ cache'[j] = None
    BY DEF PurgedIsGone
  <2>1. j \in made \ stranded /\ j # id /\ j \in Ids
    BY <1>2, <1>6 DEF Shape
  <2>2. file'[j] = Without(file, S)[j] /\ cache'[j] = Without(cache, K)[j] /\ rows'[j] = Without(rows, S)[j]
    BY <1>1, <2>1, WithoutFacts
  <2>3. CASE j \in S
    BY <2>1, <2>2, <2>3, <1>1, WithoutFacts
  <2>4. CASE j \notin S
    BY <1>2, <2>1, <2>2, <2>4, <1>1, WithoutFacts DEF PurgedIsGone, HasRow
  <2>5. QED
    BY <2>3, <2>4
<1>11. SessionEndsWithAccount'
  <2> SUFFICES ASSUME NEW j \in Ids, HasRow(j)' PROVE session'[j] <= rows'[j].until + Overrun
    BY DEF SessionEndsWithAccount
  <2>1. CASE j = id
    BY <1>1, <1>3, <1>6, <1>7, <2>1, Times DEF Shape
  <2>2. CASE j # id
    BY <1>6, <2>2 DEF SessionEndsWithAccount
  <2>3. QED
    BY <2>1, <2>2
<1>12. QED
  BY <1>5, <1>8, <1>9, <1>10, <1>11

(* The hours of a session are those that are left, rounded up.             *)
LEMMA ReenterStep ==
    ASSUME IInv, NEW id \in Ids, Reenter(id)
    PROVE  IInv'
<1> USE DEF IInv
<1> DEFINE hours == (rows[id].until - now + Hour - 1) \div Hour
           end == now + Hour * HoursLeft(id)
<1>1. HasRow(id) /\ rows[id].until >= now /\ rows[id].until \in Nat /\ now \in Nat
  BY DEF Reenter, HasRow, Shape, Row
<1>2. hours \in Nat /\ Hour * hours \in Nat /\ Hour * hours <= (rows[id].until - now) + Hour - 1
  <2>1. rows[id].until - now \in Nat
    BY <1>1
  <2>2. QED
    BY <2>1, WholeHours, Times
<1>3. Hour * HoursLeft(id) \in Nat /\ end <= rows[id].until + Hour
  <2>1. HoursLeft(id) = IF hours < 1 THEN 1 ELSE hours
    BY DEF HoursLeft
  <2> HIDE DEF hours
  <2>2. Hour * 1 = Hour
    BY Times
  <2>3. QED
    BY <1>1, <1>2, <2>1, <2>2, Times
<1>4. rows[id].trial /\ rows[id].until <= now + Hour * TrialHours
  BY <1>1 DEF Reenter, Fresh
<1>5. end \in 0..MaxEnd
  BY <1>1, <1>3, <1>4, Times DEF Shape
<1> HIDE DEF end, hours
<1>6. /\ session' = [session EXCEPT ![id] = IF @ > end THEN @ ELSE end]
      /\ UNCHANGED <<now, rows, file, cache, socket, made, late, stranded>>
  BY DEF Reenter, end
<1>7. Shape' /\ Fresh'
  BY <1>1, <1>4, <1>5, <1>6 DEF Shape, Fresh, HasRow
<1>8. Present' = Present /\ Capped' /\ PurgedIsGone'
  BY <1>6, CapKept DEF Present, HasRow, PurgedIsGone
<1>9. SessionEndsWithAccount'
  <2>1. end \in Nat /\ end <= rows[id].until + Overrun
    BY <1>1, <1>3, <1>5, Times DEF end
  <2>2. QED
    BY <1>6, <2>1 DEF SessionEndsWithAccount, HasRow, Shape
<1>10. QED
  BY <1>7, <1>8, <1>9

(* Time passes, a socket closes.                                           *)
LEMMA QuietSteps ==
    ASSUME IInv, UNCHANGED vars \/ Tick \/ \E id \in Ids : Hangup(id)
    PROVE  IInv'
<1> USE DEF IInv
<1>1. /\ UNCHANGED <<rows, file, cache, session, made, late, stranded>>
      /\ socket' \subseteq socket
      /\ now' \in 0..MaxTime /\ now <= now'
  BY Times DEF vars, Tick, Hangup, Shape
<1>2. Shape' /\ PurgedIsGone' /\ SessionEndsWithAccount'
  BY <1>1 DEF Shape, PurgedIsGone, SessionEndsWithAccount, HasRow
<1>3. Present' = Present /\ Capped'
  BY <1>1, CapKept DEF Present, HasRow
<1>4. \A id \in Ids : HasRow(id) => rows[id].until \in Nat
  BY DEF Shape, HasRow, Row
<1>5. Fresh'
  BY <1>1, <1>4, Times DEF Fresh, HasRow, Shape
<1>6. QED
  BY <1>2, <1>3, <1>5

(* The ways of purging.                                                    *)
LEMMA PurgeSteps ==
    ASSUME IInv,
           Cleanup \/ Restart \/ \E id \in Ids : EndSession(id) \/ PurgeCut(id)
    PROVE  IInv'
<1>1. Expired \in SUBSET Ids
  BY DEF Expired
<1>2. CASE Cleanup
  <2>1. Purged(Expired, Expired, {})
    BY <1>1, <1>2 DEF Cleanup, Purge, Purged
  <2>2. QED
    BY <2>1, PurgingSteps
<1>3. CASE Restart
  <2>1. Purged(Expired, Ids, {})
    BY <1>1, <1>3 DEF Restart, Purged
  <2>2. QED
    BY <2>1, PurgingSteps
<1>4. ASSUME NEW id \in Ids, EndSession(id) PROVE IInv'
  <2>1. Purged({id}, {id}, {})
    BY <1>4 DEF EndSession, Purge, Purged
  <2>2. QED
    BY <2>1, PurgingSteps
<1>5. ASSUME NEW id \in Ids, PurgeCut(id) PROVE IInv'
  <2>1. id \in made /\ (Expired \cup {id}) \ {id} = Expired \ {id}
    BY <1>5 DEF PurgeCut, Expired, MayEnd, IInv, Fresh
  <2>2. Purged(Expired \cup {id}, Ids, {id})
    BY <1>1, <1>5, <2>1 DEF PurgeCut, Purged
  <2>3. QED
    BY <2>2, PurgingSteps
<1>6. QED
  BY <1>2, <1>3, <1>4, <1>5

(* It holds in every state that can be reached.                            *)
LEMMA Inductive == Spec => []IInv
<1>1. IInv /\ [Next]_vars => IInv'
  BY OpeningSteps, FreeTrialStep, ProvisionSteps, ReenterStep, PurgeSteps, QuietSteps DEF Next
<1>2. QED
  BY <1>1, InitOK, PTL DEF Spec
-----------------------------------------------------------------------------
(* Every variable keeps its type, and however provisions, trials, purges   *)
(* and stops interleave there are never more accounts than MAX_DEMO_USERS. *)
THEOREM TypeCorrect == Spec => []TypeOK
<1>1. IInv => TypeOK
  BY DEF IInv, Shape, Capped, Present, TypeOK
<1>2. QED
  BY <1>1, Inductive, PTL

(* What a purge removed does not come back from an open handle or a file:  *)
(* what a request of an older session opens is a new, empty database.      *)
THEOREM PurgeIsFinal == Spec => []PurgedIsGone
BY Inductive, PTL DEF IInv

(* A session given by the hour ends within an hour of its account, or      *)
(* within what a demo is longer than a trial, whichever of provision, a     *)
(* trial and its link came last.                                           *)
THEOREM SessionsEnd == Spec => []SessionEndsWithAccount
BY Inductive, PTL DEF IInv

(* No logout, purge of others, restart or second trial takes an account    *)
(* with a running trial away, shortens it, or touches its database.        *)
THEOREM TrialIsKept == Spec => TrialSurvives
<1> DEFINE Running(id) == HasRow(id) /\ rows[id].trial /\ rows[id].until >= now
           Kept(id) == /\ HasRow(id)' /\ rows'[id].trial /\ rows'[id].until >= rows[id].until
                       /\ file'[id] = file[id] \/ file[id] = None
<1>1. ASSUME IInv, [Next]_vars, NEW id \in Ids, Running(id) PROVE Kept(id)
  <2> USE <1>1 DEF IInv
  <2>1. /\ id \in made /\ id \notin Expired
        /\ rows[id].until \in Nat /\ rows[id].until <= now + Hour * TrialHours
    BY DEF Fresh, Expired, Shape, HasRow, Row
  <2>2. CASE UNCHANGED <<rows, file>>
    BY <2>1, <2>2 DEF HasRow
  <2>3. ASSUME NEW j \in Ids, Open(j), rows' = rows PROVE Kept(id)
    BY <2>1, <2>3 DEF Open, Opened, HasRow, Shape
  <2>4. ASSUME NEW j \in Ids, FreeTrial(j) PROVE Kept(id)
    <3> DEFINE trial == [until |-> now + Hour * TrialHours, trial |-> TRUE]
    <3>1. Open(j) /\ rows' = [rows EXCEPT ![j] = trial]
      BY <2>4 DEF FreeTrial
    <3>2. trial \in Row
      BY Times DEF Row, Shape
    <3>3. trial.until = now + Hour * TrialHours /\ trial.trial /\ trial # None
      BY <3>2, DemoAssumption
    <3> HIDE DEF trial
    <3>4. HasRow(id)' /\ rows'[id].trial /\ rows'[id].until >= rows[id].until
      BY <2>1, <3>1, <3>3, Times DEF HasRow, Shape
    <3>5. QED
      BY <3>1, <3>4 DEF Open, Opened, Shape
  <2>5. ASSUME NEW S, NEW T, id \notin S, id \notin T,
               rows' = Without(rows, S), file' = Without(file, T)
        PROVE  Kept(id)
    BY <2>1, <2>5 DEF Without, HasRow, Shape
  <2>6. ASSUME NEW j \in Ids, Provision(j) \/ ProvisionCut(j) PROVE Kept(id)
    <3>1. j # id
      BY <2>1, <2>6 DEF Provision, ProvisionCut
    <3>2. rows'[id] = rows[id] /\ file'[id] = file[id]
      BY <2>1, <2>6, <3>1 DEF Provision, ProvisionCut, Without, Shape
    <3>3. QED
      BY <2>1, <3>2 DEF HasRow
  <2>7. CASE Cleanup \/ Restart
    BY <2>1, <2>5, <2>7 DEF Cleanup, Purge, Restart
  <2>8. ASSUME NEW j \in Ids, EndSession(j) \/ PurgeCut(j) PROVE Kept(id)
    <3>1. j # id
      BY <2>1, <2>8 DEF EndSession, PurgeCut, MayEnd
    <3>2. id \notin {j} /\ id \notin Expired \cup {j} /\ id \notin Expired \ {j}
      BY <2>1, <3>1
    <3>3. QED
      BY <2>5, <2>8, <3>2 DEF EndSession, Purge, PurgeCut
  <2>9. ASSUME NEW j \in Ids, Request(j) \/ Hello(j) \/ SocketWrite(j) PROVE Kept(id)
    BY <2>3, <2>9 DEF Request, Hello, SocketWrite
  <2>10. CASE UNCHANGED vars \/ Tick \/ \E j \in Ids : Hangup(j) \/ Reenter(j)
    BY <2>2, <2>10 DEF vars, Tick, Hangup, Reenter
  <2>11. QED
    BY <2>4, <2>6, <2>7, <2>8, <2>9, <2>10 DEF Next
<1>2. IInv /\ [Next]_vars => [\A id \in Ids : Running(id) => Kept(id)]_vars
  BY <1>1
<1> HIDE DEF Running, Kept
<1>3. Spec => [][\A id \in Ids : Running(id) => Kept(id)]_vars
  BY <1>2, Inductive, PTL DEF Spec
<1>4. QED
  BY <1>3 DEF TrialSurvives, Running, Kept
=============================================================================
