-------------------------- MODULE ContentLogProofs --------------------------
(* Proofs about ContentLog, for any devices, any operations and any number *)
(* of rows.                                                                *)
EXTENDS ContentLog, TLAPS

(* Some row is the newest, so that Version is its id.                      *)
LogOrdered == rows = {} \/ \E r \in rows : \A s \in rows : s.id <= r.id

(* What a device read is older than the next row, and empty at version 0.  *)
ReadsBounded ==
    \A d \in Devices :
        read[d].seen < nextId /\ (read[d].seen = 0 => read[d].content = {})

LogInv == LogOrdered /\ ReadsBounded /\ VersionIdentifiesContent

(* What a device has not sent, its own copy has.                           *)
UnsentLocal == \A d \in Devices : unsent[d] \subseteq loc[d]

IInv == TypeOK /\ LogInv /\ HashDescribesContent /\ UnsentLocal /\ RoomUpToDate

(* What a write may keep of the log, and the rows it leaves.               *)
ContentOf(kept) == UNION {r.ops : r \in kept}
-----------------------------------------------------------------------------
LEMMA VersionInLog ==
    ASSUME TypeOK, LogOrdered
    PROVE  /\ rows = {} => Version = 0
           /\ rows # {} => \E r \in rows : r.id = Version
           /\ Version \in 0..MaxId /\ Version < nextId
<1> USE ContentLogAssumption
<1>1. CASE rows = {}
  BY <1>1 DEF TypeOK, Version
<1>2. CASE rows # {}
  <2> DEFINE c == CHOOSE r \in rows : \A s \in rows : s.id <= r.id
  <2>1. \E r \in rows : \A s \in rows : s.id <= r.id
    BY <1>2 DEF LogOrdered
  <2>2. c \in rows
    BY <2>1
  <2>3. Version = c.id
    BY <1>2 DEF Version
  <2> HIDE DEF c
  <2>4. c.id \in 1..MaxId /\ c.id < nextId
    BY <2>2 DEF TypeOK, Row
  <2>5. \E r \in rows : r.id = Version
    BY <2>2, <2>3
  <2>6. Version \in 0..MaxId /\ Version < nextId
    BY <2>3, <2>4
  <2>7. QED
    BY <1>2, <2>5, <2>6
<1>3. QED
  BY <1>1, <1>2

(* Inserting gives the log the version nextId, whatever it kept.           *)
LEMMA Inserted ==
    ASSUME TypeOK,
           NEW kept \in SUBSET rows, NEW ops \in SUBSET Ops, Insert(kept, ops)
    PROVE  /\ nextId' = nextId + 1 /\ nextId' \in 1..(MaxId + 1)
           /\ rows' \subseteq Row
           /\ \A r \in rows' : r.id < nextId' /\ \A s \in rows' : r.id = s.id => r = s
           /\ rows' # {} /\ LogOrdered'
           /\ Version' = nextId
           /\ Content' = ContentOf(kept) \cup ops
<1> USE ContentLogAssumption
<1> DEFINE new == [id |-> nextId, ops |-> ops]
<1>1. /\ nextId \in 1..MaxId
      /\ rows' = kept \cup {new}
      /\ nextId' = nextId + 1 /\ nextId' \in 1..(MaxId + 1)
  BY DEF Insert, TypeOK
<1>2. new \in Row /\ new.id = nextId /\ new.ops = ops
  BY <1>1 DEF Row
<1>3. \A r \in kept : r \in Row /\ r.id \in Nat /\ r.id < nextId
  BY DEF TypeOK, Row
<1>4. rows' \subseteq Row
  BY <1>1, <1>2, <1>3
<1>5. \A r \in rows' : r.id < nextId' /\ \A s \in rows' : r.id = s.id => r = s
  BY <1>1, <1>2, <1>3 DEF TypeOK
<1>6. new \in rows' /\ \A s \in rows' : s.id <= new.id
  BY <1>1, <1>2, <1>3
<1>7. LogOrdered'
  BY <1>6 DEF LogOrdered
<1>8. Version' = nextId
  <2> DEFINE c == CHOOSE r \in rows' : \A s \in rows' : s.id <= r.id
  <2>1. c \in rows' /\ \A s \in rows' : s.id <= c.id
    BY <1>6
  <2>2. Version' = c.id
    BY <1>6 DEF Version
  <2>3. c.id = nextId
    BY <2>1, <1>1, <1>2, <1>3, <1>6
  <2>4. QED
    BY <2>2, <2>3
<1>9. Content' = ContentOf(kept) \cup ops
  BY <1>1, <1>2 DEF Content, ContentOf
<1>10. QED
  BY <1>1, <1>4, <1>5, <1>6, <1>7, <1>8, <1>9

(* A write that leaves what devices read alone makes every reading stale.  *)
LEMMA InsertedLog ==
    ASSUME TypeOK, LogInv, UNCHANGED read,
           NEW kept \in SUBSET rows, NEW ops \in SUBSET Ops, Insert(kept, ops)
    PROVE  LogInv'
<1>1. nextId' = nextId + 1 /\ LogOrdered' /\ Version' = nextId
  BY Inserted
<1>2. \A d \in Devices : read[d].seen \in Nat /\ read[d].seen < nextId
  BY ContentLogAssumption DEF TypeOK, LogInv, ReadsBounded
<1>3. nextId \in Nat
  BY ContentLogAssumption DEF TypeOK
<1>4. ReadsBounded'
  BY <1>1, <1>2, <1>3 DEF LogInv, ReadsBounded
<1>5. VersionIdentifiesContent'
  BY <1>1, <1>2, <1>3 DEF VersionIdentifiesContent
<1>6. QED
  BY <1>1, <1>4, <1>5 DEF LogInv

(* A step that touches neither the rows nor the readings.                  *)
LEMMA QuietLog == LogInv /\ UNCHANGED <<rows, nextId, read>> => LogInv'
  BY DEF LogInv, LogOrdered, ReadsBounded, VersionIdentifiesContent, Version, Content
-----------------------------------------------------------------------------
(* What a device pushes or reads is a set of operations.                   *)
LEMMA InputsTyped ==
    ASSUME TypeOK, NEW d \in Devices, NEW ops \in SUBSET loc[d]
    PROVE  /\ ops \in SUBSET Ops /\ read[d].content \in SUBSET Ops
           /\ read[d].seen \in 0..MaxId /\ loc[d] \in SUBSET Ops
           /\ unsent[d] \in SUBSET Ops /\ Content \in SUBSET Ops
           /\ \A h \in HashFor(d, ops) : h \in SUBSET SUBSET Ops
<1>1. /\ ops \in SUBSET Ops /\ loc[d] \in SUBSET Ops /\ unsent[d] \in SUBSET Ops
      /\ read[d].content \in SUBSET Ops /\ read[d].seen \in 0..MaxId
  BY DEF TypeOK
<1>2. \A r \in rows : r.ops \in SUBSET Ops
  BY DEF TypeOK, Row
<1>3. Content \in SUBSET Ops
  BY <1>2 DEF Content
<1>4. \A h \in HashFor(d, ops) : h \in SUBSET SUBSET Ops
  BY <1>1 DEF HashFor, NoHash
<1>5. QED
  BY <1>1, <1>3, <1>4

LEMMA BroadcastTyped ==
    ASSUME TypeOK, NEW ops \in SUBSET Ops, NEW others, Broadcast(ops, others)
    PROVE  wire' \in [Devices -> SUBSET Ops]
  BY DEF TypeOK, Broadcast
-----------------------------------------------------------------------------
LEMMA TypeStep ==
    ASSUME TypeOK, LogOrdered, [Next]_vars
    PROVE  TypeOK'
<1> USE ContentLogAssumption
<1> DEFINE LogTyped == /\ nextId' \in 1..(MaxId + 1) /\ rows' \subseteq Row
                       /\ \A r \in rows' : r.id < nextId' /\ \A s \in rows' : r.id = s.id => r = s
           DevsTyped == /\ loc' \in [Devices -> SUBSET Ops] /\ unsent' \in [Devices -> SUBSET Ops]
                        /\ read' \in [Devices -> [seen : 0..MaxId, content : SUBSET Ops]]
                        /\ conn' \in [Devices -> BOOLEAN] /\ wire' \in [Devices -> SUBSET Ops]
           FlagsTyped == deleted' \in BOOLEAN /\ guarded' \in BOOLEAN /\ relayed' \in BOOLEAN
<1>t. LogTyped /\ hash' \in SUBSET SUBSET Ops /\ DevsTyped /\ FlagsTyped => TypeOK'
  BY DEF TypeOK
<1>q. UNCHANGED <<rows, nextId>> => LogTyped
  BY DEF TypeOK
<1>i. \A kept \in SUBSET rows : \A ops \in SUBSET Ops : Insert(kept, ops) => LogTyped
  BY Inserted
<1>a. \A ops \in SUBSET Ops : \A h \in SUBSET SUBSET Ops :
         AppendYjsUpdate(ops, h) \/ CompactYjsUpdates(ops, h) =>
             LogTyped /\ hash' \in SUBSET SUBSET Ops
  <2>1. rows \in SUBSET rows /\ {} \in SUBSET rows
    OBVIOUS
  <2> HIDE DEF LogTyped
  <2>2. QED
    BY <1>i, <2>1 DEF AppendYjsUpdate, CompactYjsUpdates
<1>h. NoHash \in SUBSET SUBSET Ops
  BY DEF NoHash
<1>l. UNCHANGED log => LogTyped /\ hash' \in SUBSET SUBSET Ops
  <2>1. UNCHANGED log => UNCHANGED <<rows, nextId>> /\ hash' = hash
    BY DEF log
  <2>2. hash \in SUBSET SUBSET Ops
    BY DEF TypeOK
  <2> HIDE DEF LogTyped
  <2>3. QED
    BY <1>q, <2>1, <2>2
<1>f. UNCHANGED <<deleted, guarded, relayed>> => FlagsTyped
  BY DEF TypeOK
<1>p. \A d \in Devices : \A ops \in SUBSET Ops : Pushed(d, ops) => DevsTyped
  <2> SUFFICES ASSUME NEW d \in Devices, NEW ops \in SUBSET Ops, Pushed(d, ops) PROVE DevsTyped
    OBVIOUS
  <2>1. wire' \in [Devices -> SUBSET Ops]
    BY BroadcastTyped DEF Pushed
  <2>2. unsent' \in [Devices -> SUBSET Ops]
    BY DEF TypeOK, Pushed
  <2>3. QED
    BY <2>1, <2>2 DEF TypeOK, Pushed
<1> HIDE DEF LogTyped
<1>1. ASSUME NEW d \in Devices, NEW o \in Ops, Edit(d, o) PROVE TypeOK'
  <2>1. DevsTyped
    BY <1>1 DEF Edit, TypeOK
  <2>2. QED
    BY <1>1, <2>1, <1>t, <1>l, <1>f DEF Edit
<1>2. ASSUME NEW d \in Devices, Read(d) PROVE TypeOK'
  <2>1. Version \in 0..MaxId
    BY VersionInLog
  <2>2. Content \in SUBSET Ops
    BY InputsTyped
  <2>3. [seen |-> Version, content |-> Content] \in [seen : 0..MaxId, content : SUBSET Ops]
    BY <2>1, <2>2
  <2>4. DevsTyped
    BY <1>2, <2>2, <2>3 DEF Read, TypeOK
  <2>5. QED
    BY <1>2, <2>4, <1>t, <1>l, <1>f DEF Read
<1>3. ASSUME NEW d \in Devices, Deliver(d) PROVE TypeOK'
  <2>1. DevsTyped
    BY <1>3 DEF Deliver, TypeOK
  <2>2. QED
    BY <1>3, <2>1, <1>t, <1>l, <1>f DEF Deliver
<1>4. ASSUME NEW d \in Devices, NEW ops \in SUBSET loc[d], Append(d, ops) PROVE TypeOK'
  <2>1. ops \in SUBSET Ops /\ \A h \in HashFor(d, ops) : h \in SUBSET SUBSET Ops
    BY InputsTyped
  <2>2. LogTyped /\ hash' \in SUBSET SUBSET Ops
    BY <1>4, <1>a, <1>h, <2>1 DEF Append
  <2>3. QED
    BY <1>4, <2>1, <2>2, <1>t, <1>f, <1>p DEF Append
<1>5. ASSUME NEW d \in Devices, NEW ops \in SUBSET loc[d], Replace(d, ops) PROVE TypeOK'
  <2>1. /\ read[d].content \cup ops \in SUBSET Ops
        /\ \A h \in HashFor(d, ops) : h \in SUBSET SUBSET Ops
    BY InputsTyped
  <2>2. LogTyped /\ hash' \in SUBSET SUBSET Ops
    BY <1>5, <1>a, <2>1 DEF Replace
  <2>3. QED
    BY <1>5, <2>1, <2>2, <1>t, <1>f, <1>p DEF Replace
<1>6. ASSUME NEW d \in Devices, NEW ops \in SUBSET loc[d], UnguardedPush(d, ops) PROVE TypeOK'
  <2>1. ops \in SUBSET Ops /\ {loc[d]} \in SUBSET SUBSET Ops
    BY InputsTyped
  <2>2. LogTyped /\ hash' \in SUBSET SUBSET Ops
    <3>1. PICK h \in {NoHash, {loc[d]}} : AppendYjsUpdate(ops, h) \/ CompactYjsUpdates(ops, h)
      BY <1>6 DEF UnguardedPush
    <3>2. h \in SUBSET SUBSET Ops
      BY <1>h, <2>1
    <3>3. QED
      BY <1>a, <2>1, <3>1, <3>2
  <2>3. FlagsTyped
    BY <1>6 DEF UnguardedPush, TypeOK
  <2>4. QED
    BY <1>6, <2>1, <2>2, <2>3, <1>t, <1>p DEF UnguardedPush
<1>7. ASSUME NEW d \in Devices, Stamp(d) PROVE TypeOK'
  <2>1. {read[d].content} \in SUBSET SUBSET Ops
    BY InputsTyped
  <2>2. DevsTyped /\ FlagsTyped
    BY <1>7 DEF Stamp, devs, TypeOK
  <2>3. QED
    BY <1>7, <2>1, <2>2, <1>t, <1>q DEF Stamp
<1>8. ASSUME NEW d \in Devices, Hello(d) PROVE TypeOK'
  <2>1. Content \in SUBSET Ops
    BY InputsTyped
  <2>2. wire' \in [Devices -> SUBSET Ops]
    BY <1>8, <2>1 DEF Hello, TypeOK
  <2>3. DevsTyped
    BY <1>8, <2>2 DEF Hello, TypeOK
  <2>4. FlagsTyped
    BY <1>8 DEF Hello, TypeOK
  <2>5. QED
    BY <1>8, <2>3, <2>4, <1>t, <1>l DEF Hello
<1>9. ASSUME NEW d \in Devices, SocketUpdate(d) PROVE TypeOK'
  <2>1. unsent[d] \in SUBSET Ops
    BY InputsTyped
  <2>2. LogTyped /\ hash' \in SUBSET SUBSET Ops
    BY <1>9, <2>1, <1>a, <1>h, <1>l DEF SocketUpdate
  <2>3. wire' \in [Devices -> SUBSET Ops]
    BY <1>9, <2>1, BroadcastTyped DEF SocketUpdate
  <2>4. DevsTyped
    BY <1>9, <2>3 DEF SocketUpdate, TypeOK
  <2>5. QED
    BY <1>9, <2>2, <2>4, <1>t, <1>f DEF SocketUpdate
<1>10. ASSUME NEW d \in Devices, Compact(d) PROVE TypeOK'
  <2>1. loc[d] \in SUBSET Ops
    BY InputsTyped
  <2>2. LogTyped /\ hash' \in SUBSET SUBSET Ops
    BY <1>10, <2>1, <1>a, <1>h, <1>l DEF Compact
  <2>3. DevsTyped /\ FlagsTyped
    BY <1>10 DEF Compact, TypeOK
  <2>4. QED
    BY <2>2, <2>3, <1>t
<1>11. ASSUME NEW d \in Devices, Disconnect(d) PROVE TypeOK'
  <2>1. DevsTyped
    BY <1>11 DEF Disconnect, TypeOK
  <2>2. QED
    BY <1>11, <2>1, <1>t, <1>l, <1>f DEF Disconnect
<1>12. ASSUME Delete PROVE TypeOK'
  <2>1. LogTyped /\ hash' \in SUBSET SUBSET Ops
    BY <1>12 DEF Delete, TypeOK, LogTyped
  <2>2. DevsTyped /\ FlagsTyped
    BY <1>12 DEF Delete, devs, TypeOK
  <2>3. QED
    BY <2>1, <2>2, <1>t
<1>13. ASSUME Restore PROVE TypeOK'
  <2>1. DevsTyped /\ FlagsTyped
    BY <1>13 DEF Restore, devs, TypeOK
  <2>2. QED
    BY <1>13, <2>1, <1>t, <1>l DEF Restore
<1>14. ASSUME MoveAcross PROVE TypeOK'
  <2>1. DevsTyped /\ FlagsTyped
    BY <1>14 DEF MoveAcross, devs, TypeOK
  <2>2. QED
    BY <1>14, <2>1, <1>t, <1>q, <1>h DEF MoveAcross
<1>15. CASE UNCHANGED vars
  <2>1. DevsTyped /\ FlagsTyped
    BY <1>15 DEF vars, devs, TypeOK
  <2>2. QED
    BY <1>15, <2>1, <1>t, <1>l DEF vars
<1>16. QED
  BY <1>1, <1>2, <1>3, <1>4, <1>5, <1>6, <1>7, <1>8, <1>9, <1>10, <1>11, <1>12, <1>13, <1>14,
     <1>15 DEF Next
-----------------------------------------------------------------------------
LEMMA InitInv == Init => IInv
<1> USE ContentLogAssumption
<1> SUFFICES ASSUME Init PROVE IInv
  OBVIOUS
<1>1. TypeOK
  <2>0. deleted \in BOOLEAN /\ guarded \in BOOLEAN /\ relayed \in BOOLEAN
    BY DEF Init
  <2>1. nextId \in 1..(MaxId + 1) /\ rows = {} /\ hash \in SUBSET SUBSET Ops
    BY DEF Init, NoHash
  <2>2. /\ loc \in [Devices -> SUBSET Ops] /\ unsent \in [Devices -> SUBSET Ops]
        /\ conn \in [Devices -> BOOLEAN] /\ wire \in [Devices -> SUBSET Ops]
    BY DEF Init
  <2>3. read \in [Devices -> [seen : 0..MaxId, content : SUBSET Ops]]
    BY DEF Init
  <2>4. QED
    BY <2>0, <2>1, <2>2, <2>3 DEF TypeOK
<1>2. Content = {}
  BY DEF Init, Content
<1>3. LogInv
  BY <1>2 DEF Init, LogInv, LogOrdered, ReadsBounded, VersionIdentifiesContent
<1>4. HashDescribesContent
  BY DEF Init, HashDescribesContent
<1>5. RoomUpToDate
  BY <1>2 DEF Init, RoomUpToDate
<1>6. UnsentLocal
  BY DEF Init, UnsentLocal
<1>7. QED
  BY <1>1, <1>3, <1>4, <1>5, <1>6 DEF IInv

(* A REST write that is not stale was made from the content it meets.      *)
LEMMA FreshReading ==
    ASSUME VersionIdentifiesContent, NEW d \in Devices, ~Stale(d)
    PROVE  read[d].content = Content
  BY DEF VersionIdentifiesContent, Stale

(* How a write over REST changes the log.                                  *)
LEMMA AppendInserts ==
    ASSUME NEW ops, NEW h, AppendYjsUpdate(ops, h)
    PROVE  \E kept \in SUBSET rows :
              /\ Insert(kept, ops) /\ ContentOf(kept) = Content
  BY DEF AppendYjsUpdate, ContentOf, Content

LEMMA CompactInserts ==
    ASSUME NEW ops, NEW h, CompactYjsUpdates(ops, h)
    PROVE  \E kept \in SUBSET rows :
              /\ Insert(kept, ops) /\ ContentOf(kept) = {}
  BY DEF CompactYjsUpdates, ContentOf

(* No step changes the log but by inserting a row, or by deleting them all *)
(* and leaving the readings; and a device only reads when the log stays.   *)
LEMMA LogStep ==
    ASSUME TypeOK, LogOrdered, [Next]_vars
    PROVE  \/ \E kept \in SUBSET rows : \E ops \in SUBSET Ops : Insert(kept, ops) /\ UNCHANGED read
           \/ \E d \in Devices : Read(d)
           \/ Delete
           \/ UNCHANGED <<rows, nextId, read>>
<1> DEFINE Written == \E kept \in SUBSET rows : \E ops \in SUBSET Ops : Insert(kept, ops)
<1>a. \A ops \in SUBSET Ops : \A h : AppendYjsUpdate(ops, h) \/ CompactYjsUpdates(ops, h) => Written
  BY AppendInserts, CompactInserts
<1> HIDE DEF Written
<1>1. ASSUME NEW d \in Devices, NEW ops \in SUBSET loc[d],
             Append(d, ops) \/ Replace(d, ops) \/ UnguardedPush(d, ops)
      PROVE  Written /\ UNCHANGED read
  <2>1. ops \in SUBSET Ops /\ read[d].content \cup ops \in SUBSET Ops
    BY InputsTyped
  <2>2. UNCHANGED read
    BY <1>1 DEF Append, Replace, UnguardedPush, Pushed
  <2>3. Written
    BY <1>1, <1>a, <2>1 DEF Append, Replace, UnguardedPush
  <2>4. QED
    BY <2>2, <2>3
<1>2. ASSUME NEW d \in Devices, SocketUpdate(d) \/ Compact(d)
      PROVE  (Written \/ UNCHANGED <<rows, nextId>>) /\ UNCHANGED read
  <2>1. unsent[d] \in SUBSET Ops /\ loc[d] \in SUBSET Ops
    BY InputsTyped
  <2>2. QED
    BY <1>2, <1>a, <2>1 DEF SocketUpdate, Compact, log
<1>3. ASSUME NEW d \in Devices, NEW o,
             Edit(d, o) \/ Deliver(d) \/ Stamp(d) \/ Hello(d) \/ Disconnect(d)
      PROVE  UNCHANGED <<rows, nextId, read>>
  BY <1>3 DEF Edit, Deliver, Stamp, Hello, Disconnect, log, devs
<1>4. Restore \/ MoveAcross \/ UNCHANGED vars => UNCHANGED <<rows, nextId, read>>
  BY DEF Restore, MoveAcross, vars, log, devs
<1>5. QED
  BY <1>1, <1>2, <1>3, <1>4 DEF Next, Written

LEMMA LogInvStep ==
    ASSUME TypeOK, LogInv, [Next]_vars
    PROVE  LogInv'
<1> USE ContentLogAssumption
<1>o. LogOrdered
  BY DEF LogInv
<1>1. ASSUME NEW kept \in SUBSET rows, NEW ops \in SUBSET Ops, Insert(kept, ops), UNCHANGED read
      PROVE  LogInv'
  BY <1>1, InsertedLog
<1>2. ASSUME NEW d \in Devices, Read(d) PROVE LogInv'
  <2>1. rows' = rows /\ nextId' = nextId /\ Version' = Version /\ Content' = Content
    BY <1>2 DEF Read, log, Version, Content
  <2>2. Version < nextId /\ (Version = 0 => Content = {})
    <3>1. \A r \in rows : r.id # 0
      BY DEF TypeOK, Row
    <3>2. rows = {} => Content = {}
      BY DEF Content
    <3>3. QED
      BY <1>o, <3>1, <3>2, VersionInLog
  <2>3. \A e \in Devices : read'[e] = IF e = d THEN [seen |-> Version, content |-> Content] ELSE read[e]
    BY <1>2 DEF Read, TypeOK
  <2>4. LogOrdered'
    BY <1>o, <2>1 DEF LogOrdered
  <2>5. ReadsBounded'
    BY <2>1, <2>2, <2>3 DEF LogInv, ReadsBounded
  <2>6. VersionIdentifiesContent'
    BY <2>1, <2>3 DEF LogInv, VersionIdentifiesContent
  <2>7. QED
    BY <2>4, <2>5, <2>6 DEF LogInv
<1>3. CASE Delete
  <2>1. rows' = {} /\ nextId' = nextId /\ read' = read /\ Content' = {}
    BY <1>3 DEF Delete, devs, Content
  <2>2. Version' = 0
    BY <2>1 DEF Version
  <2>3. QED
    BY <2>1, <2>2 DEF LogInv, LogOrdered, ReadsBounded, VersionIdentifiesContent
<1>4. CASE UNCHANGED <<rows, nextId, read>>
  BY <1>4, QuietLog
<1>5. QED
  BY <1>o, <1>1, <1>2, <1>3, <1>4, LogStep
-----------------------------------------------------------------------------
(* Content after an append is what was there and the blob; after a replace *)
(* by a device that is not stale, what it read and pushed.                 *)
LEMMA AppendedContent ==
    ASSUME TypeOK, NEW ops \in SUBSET Ops, NEW h, AppendYjsUpdate(ops, h)
    PROVE  rows' # {} /\ Content' = Content \cup ops /\ hash' = h
<1>1. PICK kept \in SUBSET rows : Insert(kept, ops) /\ ContentOf(kept) = Content
  BY AppendInserts
<1>2. rows' # {} /\ Content' = Content \cup ops
  BY <1>1, Inserted
<1>3. QED
  BY <1>2 DEF AppendYjsUpdate

LEMMA CompactedContent ==
    ASSUME TypeOK, NEW ops \in SUBSET Ops, NEW h, CompactYjsUpdates(ops, h)
    PROVE  rows' # {} /\ Content' = ops /\ hash' = h
<1>1. PICK kept \in SUBSET rows : Insert(kept, ops) /\ ContentOf(kept) = {}
  BY CompactInserts
<1>2. rows' # {} /\ Content' = ops
  BY <1>1, Inserted
<1>3. QED
  BY <1>2 DEF CompactYjsUpdates

LEMMA HashStep ==
    ASSUME TypeOK, LogInv, HashDescribesContent, [Next]_vars
    PROVE  HashDescribesContent'
<1>v. VersionIdentifiesContent
  BY DEF LogInv
<1>1. ASSUME NEW d \in Devices, NEW ops \in SUBSET loc[d], Append(d, ops)
      PROVE  HashDescribesContent'
  <2>1. ops \in SUBSET Ops
    BY InputsTyped
  <2>2. PICK h \in HashFor(d, ops) : AppendYjsUpdate(ops, IF Stale(d) THEN NoHash ELSE h)
    BY <1>1 DEF Append
  <2>3. Content' = Content \cup ops /\ hash' = IF Stale(d) THEN NoHash ELSE h
    BY <2>1, <2>2, AppendedContent
  <2>4. CASE Stale(d)
    BY <2>3, <2>4 DEF HashDescribesContent
  <2>5. CASE ~Stale(d)
    BY <1>v, <2>3, <2>5, FreshReading DEF HashDescribesContent, HashFor
  <2>6. QED
    BY <2>4, <2>5
<1>2. ASSUME NEW d \in Devices, NEW ops \in SUBSET loc[d], Replace(d, ops)
      PROVE  HashDescribesContent'
  <2>1. read[d].content \cup ops \in SUBSET Ops
    BY InputsTyped
  <2>2. PICK h \in HashFor(d, ops) : CompactYjsUpdates(read[d].content \cup ops, h)
    BY <1>2 DEF Replace
  <2>3. Content' = read[d].content \cup ops /\ hash' = h
    BY <2>1, <2>2, CompactedContent
  <2>4. QED
    BY <2>3 DEF HashDescribesContent, HashFor
<1>3. ASSUME NEW d \in Devices, NEW ops, UnguardedPush(d, ops) PROVE HashDescribesContent'
  BY <1>3 DEF UnguardedPush, HashDescribesContent
<1>4. ASSUME NEW d \in Devices, Stamp(d) PROVE HashDescribesContent'
  <2>1. Content' = Content /\ hash' = {read[d].content} /\ read[d].content = Content
    BY <1>v, <1>4, FreshReading DEF Stamp, Content
  <2>2. QED
    BY <2>1 DEF HashDescribesContent
<1>5. ASSUME NEW d \in Devices, SocketUpdate(d) PROVE HashDescribesContent'
  <2>1. CASE UNCHANGED log
    BY <1>5, <2>1 DEF SocketUpdate, log, HashDescribesContent, Content
  <2>2. CASE AppendYjsUpdate(unsent[d], NoHash)
    BY <2>2 DEF AppendYjsUpdate, HashDescribesContent
  <2>3. QED
    BY <1>5, <2>1, <2>2 DEF SocketUpdate
<1>6. ASSUME NEW d \in Devices, Compact(d) PROVE HashDescribesContent'
  BY <1>6 DEF Compact, CompactYjsUpdates, HashDescribesContent, log, Content
<1>7. CASE Delete \/ MoveAcross
  BY <1>7 DEF Delete, MoveAcross, HashDescribesContent
<1>8. ASSUME NEW d \in Devices, NEW o,
             Edit(d, o) \/ Read(d) \/ Deliver(d) \/ Hello(d) \/ Disconnect(d)
      PROVE  HashDescribesContent'
  BY <1>8 DEF Edit, Read, Deliver, Hello, Disconnect, log, HashDescribesContent, Content
<1>9. CASE Restore \/ UNCHANGED vars
  BY <1>9 DEF Restore, vars, log, HashDescribesContent, Content
<1>10. QED
  BY <1>1, <1>2, <1>3, <1>4, <1>5, <1>6, <1>7, <1>8, <1>9 DEF Next

LEMMA UnsentStep ==
    ASSUME TypeOK, UnsentLocal, [Next]_vars
    PROVE  UnsentLocal'
<1>1. ASSUME NEW d \in Devices, NEW o,
             Edit(d, o) \/ Read(d) \/ Deliver(d) \/ Stamp(d) \/ Hello(d) \/ Disconnect(d)
      PROVE  UnsentLocal'
  BY <1>1 DEF Edit, Read, Deliver, Stamp, Hello, Disconnect, devs, UnsentLocal, TypeOK
<1>2. ASSUME NEW d \in Devices, NEW ops, Pushed(d, ops) PROVE UnsentLocal'
  BY <1>2 DEF Pushed, UnsentLocal, TypeOK
<1>3. ASSUME NEW d \in Devices, SocketUpdate(d) \/ Compact(d) PROVE UnsentLocal'
  BY <1>3 DEF SocketUpdate, Compact, UnsentLocal, TypeOK
<1>4. CASE Delete \/ Restore \/ MoveAcross \/ UNCHANGED vars
  BY <1>4 DEF Delete, Restore, MoveAcross, vars, devs, UnsentLocal
<1>5. ASSUME NEW d \in Devices, NEW ops, Append(d, ops) \/ Replace(d, ops) \/ UnguardedPush(d, ops)
      PROVE  UnsentLocal'
  BY <1>2, <1>5 DEF Append, Replace, UnguardedPush
<1>6. QED
  BY <1>1, <1>3, <1>4, <1>5 DEF Next

LEMMA RoomStep ==
    ASSUME TypeOK, LogInv, UnsentLocal, RoomUpToDate, [Next]_vars
    PROVE  RoomUpToDate'
<1>v. VersionIdentifiesContent
  BY DEF LogInv
<1>b. ASSUME NEW ops \in SUBSET Ops, Broadcast(ops, Devices),
             Content' \subseteq Content \cup ops, UNCHANGED <<loc, conn, relayed>>
      PROVE  RoomUpToDate'
  BY <1>b DEF Broadcast, RoomUpToDate, TypeOK
<1>1. ASSUME NEW d \in Devices, NEW ops \in SUBSET loc[d], Append(d, ops) PROVE RoomUpToDate'
  <2>1. ops \in SUBSET Ops
    BY InputsTyped
  <2>2. Content' = Content \cup ops
    BY <1>1, <2>1, AppendedContent DEF Append
  <2>3. QED
    BY <1>1, <1>b, <2>1, <2>2 DEF Append, Pushed
<1>2. ASSUME NEW d \in Devices, NEW ops \in SUBSET loc[d], Replace(d, ops) PROVE RoomUpToDate'
  <2>1. read[d].content \cup ops \in SUBSET Ops
    BY InputsTyped
  <2>2. Content' = read[d].content \cup ops
    BY <1>2, <2>1, CompactedContent DEF Replace
  <2>3. QED
    BY <1>2, <1>b, <2>1, <2>2 DEF Replace, Pushed
<1>3. ASSUME NEW d \in Devices, NEW ops \in SUBSET loc[d], UnguardedPush(d, ops) PROVE RoomUpToDate'
  <2>1. ops \in SUBSET Ops
    BY InputsTyped
  <2>2. Content' \subseteq Content \cup ops
    BY <1>3, <2>1, AppendedContent, CompactedContent DEF UnguardedPush
  <2>3. QED
    BY <1>3, <1>b, <2>1, <2>2 DEF UnguardedPush, Pushed
<1>4. ASSUME NEW d \in Devices, SocketUpdate(d) PROVE RoomUpToDate'
  <2>1. unsent[d] \in SUBSET Ops
    BY InputsTyped
  <2>2. CASE UNCHANGED log
    BY <1>4, <2>2 DEF SocketUpdate, log, Broadcast, RoomUpToDate, Content, TypeOK
  <2>3. CASE AppendYjsUpdate(unsent[d], NoHash)
    <3>1. Content' = Content \cup unsent[d]
      BY <2>1, <2>3, AppendedContent
    <3>2. \A e \in Devices : wire'[e] = IF conn[e] /\ e # d THEN wire[e] \cup unsent[d] ELSE wire[e]
      BY <1>4 DEF SocketUpdate, Broadcast
    <3>3. UNCHANGED <<loc, conn, relayed>>
      BY <1>4 DEF SocketUpdate
    <3>4. QED
      BY <3>1, <3>2, <3>3 DEF RoomUpToDate, UnsentLocal
  <2>4. QED
    BY <1>4, <2>2, <2>3 DEF SocketUpdate
<1>5. ASSUME NEW d \in Devices, Compact(d) PROVE RoomUpToDate'
  BY <1>5 DEF Compact, RoomUpToDate
<1>6. ASSUME NEW d \in Devices, Hello(d) PROVE RoomUpToDate'
  BY <1>6 DEF Hello, log, RoomUpToDate, Content, TypeOK
<1>7. ASSUME NEW d \in Devices, NEW o,
             Edit(d, o) \/ Read(d) \/ Deliver(d) \/ Stamp(d) \/ Disconnect(d)
      PROVE  RoomUpToDate'
  <2>1. UNCHANGED <<Content, relayed>>
    BY <1>7 DEF Edit, Read, Deliver, Stamp, Disconnect, log, Content
  <2>2. \A e \in Devices : conn'[e] => conn[e] /\ loc[e] \cup wire[e] \subseteq loc'[e] \cup wire'[e]
    BY <1>7 DEF Edit, Read, Deliver, Stamp, Disconnect, devs, TypeOK
  <2>3. QED
    BY <2>1, <2>2 DEF RoomUpToDate
<1>8. CASE Delete
  <2>1. Content' = {}
    BY <1>8 DEF Delete, Content
  <2>2. QED
    BY <2>1 DEF RoomUpToDate
<1>9. CASE Restore \/ MoveAcross \/ UNCHANGED vars
  BY <1>9 DEF Restore, MoveAcross, vars, log, devs, RoomUpToDate, Content
<1>10. QED
  BY <1>1, <1>2, <1>3, <1>4, <1>5, <1>6, <1>7, <1>8, <1>9 DEF Next

LEMMA InvStep == IInv /\ [Next]_vars => IInv'
<1> SUFFICES ASSUME IInv, [Next]_vars PROVE IInv'
  OBVIOUS
<1>1. TypeOK /\ LogInv /\ LogOrdered /\ HashDescribesContent /\ UnsentLocal /\ RoomUpToDate
  BY DEF IInv, LogInv
<1>2. TypeOK' /\ LogInv'
  BY <1>1, TypeStep, LogInvStep
<1>3. HashDescribesContent' /\ UnsentLocal' /\ RoomUpToDate'
  BY <1>1, HashStep, UnsentStep, RoomStep
<1>4. QED
  BY <1>2, <1>3 DEF IInv

(* What the theorems below rest on holds of every state: no step of a      *)
(* device, of a route or of the relay breaks it.                           *)
THEOREM Invariant == Spec => []IInv
  BY InitInv, InvStep, PTL DEF Spec
-----------------------------------------------------------------------------
(* Every variable keeps its shape, and ids of rows are never used twice.   *)
THEOREM TypeCorrect == Spec => []TypeOK
<1>1. IInv => TypeOK
  BY DEF IInv
<1>2. QED
  BY <1>1, Invariant, PTL

(* The version a device read names one content for good.                   *)
THEOREM VersionsIdentifyContent == Spec => []VersionIdentifiesContent
<1>1. IInv => VersionIdentifiesContent
  BY DEF IInv, LogInv
<1>2. QED
  BY <1>1, Invariant, PTL

(* While REST writes are guarded, the stored hash is of what is stored.    *)
THEOREM HashesDescribeContent == Spec => []HashDescribesContent
<1>1. IInv => HashDescribesContent
  BY DEF IInv
<1>2. QED
  BY <1>1, Invariant, PTL

(* Whoever is in the room has, or is sent, all that is stored.             *)
THEOREM RoomsUpToDate == Spec => []RoomUpToDate
<1>1. IInv => RoomUpToDate
  BY DEF IInv
<1>2. QED
  BY <1>1, Invariant, PTL

LEMMA KeptStep ==
    ASSUME TypeOK, VersionIdentifiesContent, [Next]_vars, guarded', relayed', ~deleted'
    PROVE  Content \subseteq Content'
<1>1. ASSUME NEW d \in Devices, NEW ops \in SUBSET loc[d], Append(d, ops)
      PROVE  Content \subseteq Content'
  BY <1>1, InputsTyped, AppendedContent DEF Append
<1>2. ASSUME NEW d \in Devices, NEW ops \in SUBSET loc[d], Replace(d, ops)
      PROVE  Content \subseteq Content'
  <2>1. read[d].content \cup ops \in SUBSET Ops
    BY InputsTyped
  <2>2. Content' = read[d].content \cup ops
    BY <1>2, <2>1, CompactedContent DEF Replace
  <2>3. read[d].content = Content
    BY <1>2, FreshReading DEF Replace
  <2>4. QED
    BY <2>2, <2>3
<1>3. ASSUME NEW d \in Devices, SocketUpdate(d) PROVE Content \subseteq Content'
  <2>1. CASE UNCHANGED log
    BY <2>1 DEF log, Content
  <2>2. CASE AppendYjsUpdate(unsent[d], NoHash)
    BY <2>2, InputsTyped, AppendedContent
  <2>3. QED
    BY <1>3, <2>1, <2>2 DEF SocketUpdate
<1>4. ASSUME NEW d \in Devices, NEW ops PROVE ~UnguardedPush(d, ops) /\ ~Compact(d)
  BY DEF UnguardedPush, Compact
<1>5. ~Delete
  BY DEF Delete
<1>6. ASSUME NEW d \in Devices, NEW o,
             Edit(d, o) \/ Read(d) \/ Deliver(d) \/ Stamp(d) \/ Hello(d) \/ Disconnect(d)
      PROVE  Content' = Content
  BY <1>6 DEF Edit, Read, Deliver, Stamp, Hello, Disconnect, log, Content
<1>7. Restore \/ MoveAcross \/ UNCHANGED vars => Content' = Content
  BY DEF Restore, MoveAcross, vars, log, Content
<1>8. QED
  BY <1>1, <1>2, <1>3, <1>4, <1>5, <1>6, <1>7 DEF Next

(* While writes are guarded and no socket compacts, only a deletion loses  *)
(* anything that was stored.                                               *)
THEOREM NothingStoredIsLost == Spec => NoStoredOpLost
<1>1. IInv /\ [Next]_vars => [guarded' /\ relayed' /\ ~deleted' => Content \subseteq Content']_vars
  BY KeptStep DEF IInv, LogInv
<1>2. QED
  BY <1>1, Invariant, PTL DEF Spec, NoStoredOpLost
-----------------------------------------------------------------------------
(* ContentLog implements ContentStore, for any devices, operations and     *)
(* number of rows.                                                         *)

store == <<Content, Version, nextId, hash, guarded, relayed>>

(* Steps that leave the log and the two promises alone.                    *)
LEMMA QuietStep ==
    UNCHANGED <<log, guarded, relayed>> => UNCHANGED store
  BY DEF store, log, Content, Version

(* A row inserted: its id, never used before, is the new version.          *)
LEMMA AppendPuts ==
    ASSUME TypeOK, NEW ops \in SUBSET Ops, NEW h, AppendYjsUpdate(ops, h)
    PROVE  Store!Put(Content \cup ops) /\ hash' = h
<1>1. PICK kept \in SUBSET rows : Insert(kept, ops) /\ ContentOf(kept) = Content
  BY AppendInserts
<1>2. Content' = Content \cup ops /\ Version' = nextId /\ nextId' = nextId + 1
  BY <1>1, Inserted
<1>3. QED
  BY <1>2 DEF Store!Put, AppendYjsUpdate

LEMMA CompactPuts ==
    ASSUME TypeOK, NEW ops \in SUBSET Ops, NEW h, CompactYjsUpdates(ops, h)
    PROVE  Store!Put(ops) /\ hash' = h
<1>1. PICK kept \in SUBSET rows : Insert(kept, ops) /\ ContentOf(kept) = {}
  BY CompactInserts
<1>2. Content' = ops /\ Version' = nextId /\ nextId' = nextId + 1
  BY <1>1, Inserted
<1>3. QED
  BY <1>2 DEF Store!Put, CompactYjsUpdates

LEMMA AppendStep ==
    ASSUME TypeOK, VersionIdentifiesContent,
           NEW d \in Devices, NEW ops \in SUBSET loc[d], Append(d, ops)
    PROVE  Store!Grow
<1>1. ops \in SUBSET Ops
  BY InputsTyped
<1>2. PICK h \in HashFor(d, ops) : AppendYjsUpdate(ops, IF Stale(d) THEN NoHash ELSE h)
  BY DEF Append
<1>3. Store!Put(Content \cup ops) /\ hash' = IF Stale(d) THEN NoHash ELSE h
  BY <1>1, <1>2, AppendPuts
<1>4. hash' \in {{}, {Content \cup ops}}
  BY <1>2, <1>3, FreshReading DEF HashFor, NoHash
<1>5. UNCHANGED <<guarded, relayed>>
  BY DEF Append
<1>6. QED
  BY <1>1, <1>3, <1>4, <1>5 DEF Store!Grow, Store!NoHash

LEMMA ReplaceStep ==
    ASSUME TypeOK, VersionIdentifiesContent,
           NEW d \in Devices, NEW ops \in SUBSET loc[d], Replace(d, ops)
    PROVE  Store!Grow
<1>1. ops \in SUBSET Ops /\ read[d].content \cup ops \in SUBSET Ops
  BY InputsTyped
<1>2. read[d].content = Content
  BY FreshReading DEF Replace
<1>3. PICK h \in HashFor(d, ops) : CompactYjsUpdates(read[d].content \cup ops, h)
  BY DEF Replace
<1>4. Store!Put(Content \cup ops) /\ hash' = h
  BY <1>1, <1>2, <1>3, CompactPuts
<1>5. hash' \in {{}, {Content \cup ops}}
  BY <1>2, <1>3, <1>4 DEF HashFor, NoHash
<1>6. UNCHANGED <<guarded, relayed>>
  BY DEF Replace
<1>7. QED
  BY <1>1, <1>4, <1>5, <1>6 DEF Store!Grow, Store!NoHash

LEMMA PushStep ==
    ASSUME TypeOK, NEW d \in Devices, NEW ops \in SUBSET loc[d], UnguardedPush(d, ops)
    PROVE  Store!WriteUnguarded
<1>1. ops \in SUBSET Ops /\ loc[d] \in SUBSET Ops /\ Content \in SUBSET Ops
  BY InputsTyped
<1>2. PICK h \in {NoHash, {loc[d]}} : AppendYjsUpdate(ops, h) \/ CompactYjsUpdates(ops, h)
  BY DEF UnguardedPush
<1>3. PICK new \in SUBSET Ops : Store!Put(new) /\ hash' = h
  <2>1. CASE AppendYjsUpdate(ops, h)
    BY <1>1, <2>1, AppendPuts
  <2>2. CASE CompactYjsUpdates(ops, h)
    BY <1>1, <2>2, CompactPuts
  <2>3. QED
    BY <1>2, <2>1, <2>2
<1>4. hash' \in {{}, {loc[d]}}
  BY <1>2, <1>3 DEF NoHash
<1>5. guarded' = FALSE /\ relayed' = relayed
  BY DEF UnguardedPush
<1>6. QED
  BY <1>1, <1>3, <1>4, <1>5 DEF Store!WriteUnguarded, Store!NoHash

LEMMA SocketStep ==
    ASSUME TypeOK, NEW d \in Devices, SocketUpdate(d)
    PROVE  Store!Grow \/ UNCHANGED store
<1>1. unsent[d] \in SUBSET Ops /\ UNCHANGED <<guarded, relayed>>
  BY InputsTyped DEF SocketUpdate
<1>2. CASE UNCHANGED log
  BY <1>1, <1>2, QuietStep
<1>3. CASE AppendYjsUpdate(unsent[d], NoHash)
  <2>1. Store!Put(Content \cup unsent[d]) /\ hash' = {}
    BY <1>1, <1>3, AppendPuts DEF NoHash
  <2>2. QED
    BY <1>1, <2>1 DEF Store!Grow, Store!NoHash
<1>4. QED
  BY <1>2, <1>3 DEF SocketUpdate

LEMMA CompactStep ==
    ASSUME TypeOK, NEW d \in Devices, Compact(d)
    PROVE  Store!Compact \/ Store!Unrelayed
<1>1. loc[d] \in SUBSET Ops /\ relayed' = FALSE /\ guarded' = guarded
  BY InputsTyped DEF Compact
<1>2. CASE UNCHANGED log
  BY <1>1, <1>2 DEF Store!Unrelayed, log, Content, Version
<1>3. CASE CompactYjsUpdates(loc[d], NoHash)
  <2>1. Store!Put(loc[d]) /\ hash' = {}
    BY <1>1, <1>3, CompactPuts DEF NoHash
  <2>2. QED
    BY <1>1, <2>1 DEF Store!Compact, Store!NoHash
<1>4. QED
  BY <1>2, <1>3 DEF Compact

(* HELLO, its replay done or failed.                                       *)
LEMMA HelloStep ==
    ASSUME NEW d \in Devices, Hello(d)
    PROVE  Store!Unrelayed \/ UNCHANGED store
<1>1. UNCHANGED <<log, guarded>> /\ (relayed' = relayed \/ relayed' = FALSE)
  BY DEF Hello
<1>2. QED
  BY <1>1, QuietStep DEF Store!Unrelayed, log, Content, Version

LEMMA StampStep ==
    ASSUME VersionIdentifiesContent, NEW d \in Devices, Stamp(d)
    PROVE  Store!Stamp
<1>1. hash' = {Content} /\ UNCHANGED <<rows, nextId, guarded, relayed>>
  BY FreshReading DEF Stamp
<1>2. QED
  BY <1>1 DEF Store!Stamp, Content, Version

LEMMA DocumentStep ==
    ASSUME Delete \/ Restore \/ MoveAcross
    PROVE  Store!Delete \/ Store!Forget \/ UNCHANGED store
<1>1. CASE Delete
  <2>1. rows' = {} /\ UNCHANGED <<nextId, hash, guarded, relayed>>
    BY <1>1 DEF Delete
  <2>2. Content' = {} /\ Version' = 0
    BY <2>1 DEF Content, Version
  <2>3. QED
    BY <2>1, <2>2 DEF Store!Delete
<1>2. CASE Restore
  BY <1>2, QuietStep DEF Restore
<1>3. CASE MoveAcross
  BY <1>3 DEF MoveAcross, Store!Forget, Store!NoHash, NoHash, Content, Version
<1>4. QED
  BY <1>1, <1>2, <1>3

(* However reads, writes, frames and replays overlap, the rows keep what   *)
(* ContentStore promises of a document's content, its version and its hash *)
(* (storeYjsUpdate, stampYjsSvHash, yjsVersion).                           *)
THEOREM LogImplementsStore == Spec => ImplementsStore
<1>1. Init => Store!Init
  BY DEF Init, Store!Init, Store!NoHash, NoHash, Content, Version
<1>2. ASSUME IInv, [Next]_vars
      PROVE  [Store!Next]_store
  <2>0. TypeOK /\ VersionIdentifiesContent
    BY <1>2 DEF IInv, LogInv
  <2>1. CASE UNCHANGED vars
    BY <2>1, QuietStep DEF vars
  <2>2. ASSUME NEW d \in Devices, NEW o, Edit(d, o) \/ Read(d) \/ Deliver(d) \/ Disconnect(d)
        PROVE  UNCHANGED store
    BY <2>2, QuietStep DEF Edit, Read, Deliver, Disconnect
  <2>3. ASSUME NEW d \in Devices, NEW ops \in SUBSET loc[d],
               Append(d, ops) \/ Replace(d, ops) \/ UnguardedPush(d, ops)
        PROVE  Store!Next
    BY <2>0, <2>3, AppendStep, ReplaceStep, PushStep DEF Store!Next
  <2>4. ASSUME NEW d \in Devices, Stamp(d) \/ Hello(d) \/ SocketUpdate(d) \/ Compact(d)
        PROVE  Store!Next \/ UNCHANGED store
    BY <2>0, <2>4, StampStep, HelloStep, SocketStep, CompactStep DEF Store!Next
  <2>5. CASE Delete \/ Restore \/ MoveAcross
    BY <2>5, DocumentStep DEF Store!Next
  <2>6. CASE Next
    BY <2>2, <2>3, <2>4, <2>5, <2>6 DEF Next
  <2>7. QED
    BY <1>2, <2>1, <2>6
<1>3. [Store!Next]_store <=> [Store!Next]_(Store!vars)
  BY DEF store, Store!vars
<1>4. QED
  BY <1>1, <1>2, <1>3, Invariant, PTL DEF Spec, ImplementsStore, Store!Spec
=============================================================================
