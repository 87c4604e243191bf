--------------------------- MODULE SpaceKeysProofs ---------------------------
(* Proofs about SpaceKeys, for any accounts, devices and number of         *)
(* rotations.                                                              *)
EXTENDS SpaceKeys, TLAPS

(* No key a device holds or a user was ever given is newer than the        *)
(* Space's version; a key is named by the version it was minted for.       *)
VersionsBounded ==
    /\ CurrentKey \in Key /\ CurrentKey.ver = current
    /\ \A u \in Members : rows[u].key \in knows[u]
    /\ \A u \in Users : \A k \in knows[u] : k.ver <= current
    /\ \A d \in Devices : held[d] # NoRow =>
          /\ held[d].key \in Key
          /\ held[d].label \in 1..current
          /\ held[d].key.ver <= current

(* What a request carries, by its kind: a put or a create names a key its  *)
(* device held, a rotation a key one version newer than the one it replaces.            *)
RequestsOK ==
    \A d \in Devices :
        LET r == op[d]
        IN  /\ r.t = "put" => r.for \in Users
            /\ r.t \in {"put", "create"} =>
                  r.key \in Key /\ r.from <= current /\ r.key.ver <= current
            /\ r.t = "rotate" => /\ r.key \in Key /\ r.key.ver = r.from + 1
                                 /\ r.prev \in Key
                                 /\ r.from \in 1..(MaxVersion - 1) /\ r.from <= current

(* Until a fresh Space has an owner it has no rows, and only the account   *)
(* of the device that made it has its key or asks for anything.            *)
UntouchedBeforeOwner ==
    owner = NoUser /\ ~legacy =>
        /\ Members = {}
        /\ \A u \in Users : u # UserOf[Creator] => knows[u] = {}
        /\ \A d \in Devices : d # Creator => held[d] = NoRow /\ op[d] = NoOp

(* Without requests landing after a rotation: whoever takes a key for the  *)
(* current version, or prepares a request from it, has the current key.    *)
SealsAreCurrent ==
    stale = 0 =>
        /\ MembersHoldCurrentKey
        /\ \A d \in Devices : held[d] # NoRow /\ held[d].label = current =>
                                  held[d].key = CurrentKey
        /\ \A d \in Devices :
              op[d].from = current =>
                  /\ op[d].t \in {"put", "create"} => op[d].key = CurrentKey
                  /\ op[d].t = "rotate" => op[d].prev = CurrentKey
        /\ ChainUnbroken

IInv ==
    /\ TypeOK
    /\ VersionsBounded
    /\ RequestsOK
    /\ UntouchedBeforeOwner
    /\ LabelsCurrent
    /\ OwnerKeepsKey
    /\ DepartedNeedRotation
    /\ SealsAreCurrent

USE DEF NoRow, NoOp, NoChainEntry
-----------------------------------------------------------------------------
LEMMA InitInv == Init => IInv
<1> SUFFICES ASSUME Init PROVE IInv
  OBVIOUS
<1> USE SpaceKeysAssumption
<1>a. /\ owner = NoUser /\ current = 1 /\ pending = FALSE
      /\ chain = [v \in 2..MaxVersion |-> NoChainEntry]
      /\ op = [d \in Devices |-> NoOp] /\ stale = 0 /\ gone = {}
      /\ InitFresh \/ InitLegacy
  BY DEF Init
<1>0. FirstKey \in Key /\ FirstKey.ver = 1 /\ CurrentKey = FirstKey
  BY <1>a DEF Key, CurrentKey, FirstKey
<1>1. TypeOK
  <2>1. NoRow \in [key : Key \cup {NoKey}, label : Nat]
    OBVIOUS
  <2>2. [key |-> FirstKey, label |-> 1] \in [key : Key \cup {NoKey}, label : Nat]
    BY <1>0
  <2>3. rows \in [Users -> [key : Key \cup {NoKey}, label : Nat]]
    BY <1>a, <2>1, <2>2 DEF InitFresh, InitLegacy
  <2>4. held \in [Devices -> [key : Key \cup {NoKey}, label : Nat]]
    BY <1>a, <2>1, <2>2 DEF InitFresh, InitLegacy
  <2>5. knows \in [Users -> SUBSET Key] /\ created \subseteq Users
    <3>0. {FirstKey} \in SUBSET Key /\ {} \in SUBSET Key
      BY <1>0
    <3>1. CASE InitFresh
      BY <3>0, <3>1 DEF InitFresh
    <3>2. CASE InitLegacy
      BY <3>0, <3>2 DEF InitLegacy
    <3>3. QED
      BY <1>a, <3>1, <3>2
  <2>6. op \in [Devices -> Request]
    BY <1>a DEF Request
  <2>7. chain \in [2..MaxVersion -> [under : Key \cup {NoKey}, prev : Key \cup {NoKey}]]
    BY <1>a
  <2>8. owner \in Users \cup {NoUser} /\ current \in 1..MaxVersion
    BY <1>a
  <2>9. pending \in BOOLEAN
    BY <1>a
  <2>10. stale \in 0..MaxStale
    BY <1>a
  <2>11. legacy \in BOOLEAN
    BY <1>a DEF InitFresh, InitLegacy
  <2>12. gone \subseteq Demos
    BY <1>a
  <2>13. QED
    BY <2>3, <2>4, <2>5, <2>6, <2>7, <2>8, <2>9, <2>10, <2>11, <2>12 DEF TypeOK
<1>2. \A u \in Users : knows[u] = {} \/ knows[u] = {FirstKey}
  <2>1. CASE InitFresh
    BY <2>1 DEF InitFresh
  <2>2. CASE InitLegacy
    BY <2>2 DEF InitLegacy
  <2>3. QED
    BY <1>a, <2>1, <2>2
<1>3. \A u \in Members : rows[u] = [key |-> FirstKey, label |-> 1]
  <2>1. CASE InitFresh
    BY <2>1 DEF InitFresh, Members
  <2>2. CASE InitLegacy
    <3>1. PICK S \in SUBSET Users :
             rows = [u \in Users |-> IF u \in S THEN [key |-> FirstKey, label |-> 1] ELSE NoRow]
      BY <2>2 DEF InitLegacy
    <3>2. \A u \in Members : u \in S
      BY <3>1 DEF Members
    <3>3. QED
      BY <3>1, <3>2 DEF Members
  <2>3. QED
    BY <1>a, <2>1, <2>2
<1>4. \A d \in Devices : held[d] # NoRow => held[d] = [key |-> FirstKey, label |-> 1]
  BY <1>a DEF InitFresh, InitLegacy
<1>5. VersionsBounded
  <2>1. \A u \in Members : rows[u].key \in knows[u]
    <3>1. CASE InitFresh
      BY <3>1 DEF InitFresh, Members
    <3>2. CASE InitLegacy
      <4>0. [key |-> FirstKey, label |-> 1] # NoRow
        BY <1>0
      <4>1. \A u \in Members : u \in Users /\ rows[u] # NoRow /\ rows[u].key = FirstKey
        <5> TAKE u \in Members
        <5>1. u \in Users
          BY DEF Members
        <5>2. rows[u] = [key |-> FirstKey, label |-> 1]
          BY <1>3
        <5>3. QED
          BY <4>0, <5>1, <5>2
      <4>2. \A u \in Members : knows[u] = {FirstKey}
        BY <3>2, <4>1 DEF InitLegacy
      <4>3. QED
        BY <4>1, <4>2
    <3>3. QED
      BY <1>a, <3>1, <3>2
  <2>2. \A u \in Users : \A k \in knows[u] : k.ver <= current
    BY <1>a, <1>0, <1>2
  <2>3. \A d \in Devices : held[d] # NoRow =>
            held[d].key \in Key /\ held[d].label \in 1..current /\ held[d].key.ver <= current
    BY <1>a, <1>0, <1>4
  <2>4. QED
    BY <1>a, <1>0, <2>1, <2>2, <2>3 DEF VersionsBounded
<1>6. RequestsOK
  BY <1>a DEF RequestsOK
<1>7. UntouchedBeforeOwner
  <2> SUFFICES ASSUME ~legacy
               PROVE  /\ Members = {}
                      /\ \A u \in Users : u # UserOf[Creator] => knows[u] = {}
                      /\ \A d \in Devices : d # Creator => held[d] = NoRow /\ op[d] = NoOp
    BY DEF UntouchedBeforeOwner
  <2>1. InitFresh
    BY <1>a DEF InitLegacy
  <2>2. QED
    BY <1>a, <2>1 DEF InitFresh, Members
<1>8. LabelsCurrent /\ OwnerKeepsKey /\ DepartedNeedRotation
  BY <1>a, <1>3 DEF LabelsCurrent, OwnerKeepsKey, DepartedNeedRotation
<1>9. SealsAreCurrent
  BY <1>a, <1>0, <1>3, <1>4 DEF SealsAreCurrent, MembersHoldCurrentKey, ChainUnbroken
<1>10. QED
  BY <1>1, <1>5, <1>6, <1>7, <1>8, <1>9 DEF IInv

(* The steps a device takes on its own change nothing the server keeps.    *)
LEMMA DeviceSteps ==
    ASSUME IInv,
           UNCHANGED server,
           TypeOK', VersionsBounded', RequestsOK', UntouchedBeforeOwner', SealsAreCurrent'
    PROVE  IInv'
  BY DEF server, IInv, LabelsCurrent, OwnerKeepsKey, DepartedNeedRotation, Members, CurrentKey

LEMMA AskPutInv == ASSUME IInv, NEW d \in Devices, NEW u \in Users, AskPut(d, u) PROVE IInv'
<1> USE SpaceKeysAssumption DEF IInv, AskPut, Ask, server
<1>1. TypeOK'
  BY DEF TypeOK, Request, Key, VersionsBounded
<1>2. VersionsBounded'
  BY DEF VersionsBounded, CurrentKey, Members
<1>3. RequestsOK'
  BY DEF RequestsOK, VersionsBounded, TypeOK
<1>4. UntouchedBeforeOwner'
  BY DEF UntouchedBeforeOwner, Members, TypeOK
<1>5. SealsAreCurrent'
  BY DEF SealsAreCurrent, MembersHoldCurrentKey, ChainUnbroken, CurrentKey, Members, TypeOK
<1>6. QED
  BY <1>1, <1>2, <1>3, <1>4, <1>5, DeviceSteps

LEMMA CreateRequest ==
    ASSUME NEW from \in Nat, NEW key \in Key
    PROVE  [NoOp EXCEPT !.t = "create", !.from = from, !.key = key] \in Request
  BY DEF Request

LEMMA AskCreateInv == ASSUME IInv, NEW d \in Devices, AskCreate(d) PROVE IInv'
<1> USE SpaceKeysAssumption DEF IInv
<1>1. PICK from \in 1..current, key \in Key :
         /\ key.ver <= current
         /\ stale = 0 /\ from = current => key = CurrentKey
         /\ Ask(d, [NoOp EXCEPT !.t = "create", !.from = from, !.key = key])
  <2>1. CASE d = Creator /\ Ask(d, [NoOp EXCEPT !.t = "create", !.from = 1, !.key = FirstKey])
    <3>1. FirstKey \in Key /\ FirstKey.ver <= current /\ 1 \in 1..current
      BY DEF Key, FirstKey, TypeOK
    <3>2. current = 1 => FirstKey = CurrentKey
      BY DEF CurrentKey
    <3>3. stale = 0 /\ 1 = current => FirstKey = CurrentKey
      BY <3>2
    <3> HIDE DEF IInv
    <3>4. QED
      BY <2>1, <3>1, <3>3
  <2>2. CASE held[d] # NoRow
             /\ Ask(d, [NoOp EXCEPT !.t = "create", !.from = held[d].label, !.key = held[d].key])
    <3>1. held[d].key \in Key /\ held[d].label \in 1..current /\ held[d].key.ver <= current
      BY <2>2 DEF VersionsBounded
    <3>2. stale = 0 /\ held[d].label = current => held[d].key = CurrentKey
      BY <2>2 DEF SealsAreCurrent
    <3>3. QED
      BY <2>2, <3>1, <3>2
  <2>3. QED
    BY <2>1, <2>2 DEF AskCreate
<1>2. /\ op' = [op EXCEPT ![d] = [NoOp EXCEPT !.t = "create", !.from = from, !.key = key]]
      /\ UNCHANGED <<server, held>>
      /\ current \in Nat
  BY <1>1 DEF AskCreate, Ask, TypeOK
<1>3. d # Creator => held[d] # NoRow
  BY DEF AskCreate
<1> USE <1>1, <1>2 DEF server
<1>4. TypeOK'
  <2>1. [NoOp EXCEPT !.t = "create", !.from = from, !.key = key] \in Request
    <3>1. from \in Nat
      BY <1>2
    <3> HIDE <1>1, <1>2
    <3> HIDE DEF NoOp, IInv
    <3>2. QED
      BY <3>1, CreateRequest
  <2>2. op' \in [Devices -> Request]
    BY <2>1 DEF TypeOK
  <2>3. QED
    BY <2>2 DEF TypeOK
<1>5. VersionsBounded'
  BY DEF VersionsBounded, CurrentKey, Members
<1>6. RequestsOK'
  BY DEF RequestsOK, TypeOK
<1>7. UntouchedBeforeOwner'
  BY <1>3 DEF UntouchedBeforeOwner, Members, TypeOK
<1>8. SealsAreCurrent'
  BY DEF SealsAreCurrent, MembersHoldCurrentKey, ChainUnbroken, CurrentKey, Members, TypeOK
<1>9. QED
  BY <1>4, <1>5, <1>6, <1>7, <1>8, DeviceSteps

LEMMA AskRotateInv ==
    ASSUME IInv, NEW d \in Devices, NEW R \in SUBSET Users, AskRotate(d, R)
    PROVE  IInv'
<1> USE SpaceKeysAssumption DEF IInv, AskRotate, Ask, server
<1>0. /\ [ver |-> held[d].label + 1, by |-> d] \in Key
      /\ held[d].key \in Key /\ held[d].label \in 1..current
      /\ held[d].label \in 1..(MaxVersion - 1)
  BY DEF VersionsBounded, TypeOK, Key
<1>1. TypeOK'
  BY <1>0 DEF TypeOK, Request, Members
<1>2. VersionsBounded'
  BY DEF VersionsBounded, CurrentKey, Members
<1>3. RequestsOK'
  BY <1>0 DEF RequestsOK, TypeOK
<1>4. UntouchedBeforeOwner'
  BY DEF UntouchedBeforeOwner, Members, TypeOK
<1>5. SealsAreCurrent'
  BY DEF SealsAreCurrent, MembersHoldCurrentKey, ChainUnbroken, CurrentKey, Members, TypeOK
<1>6. QED
  BY <1>1, <1>2, <1>3, <1>4, <1>5, DeviceSteps

LEMMA GiveUpInv == ASSUME IInv, NEW d \in Devices, GiveUp(d) PROVE IInv'
<1> USE SpaceKeysAssumption DEF IInv, GiveUp, server
<1>1. TypeOK'
  BY DEF TypeOK, Request
<1>2. VersionsBounded'
  BY DEF VersionsBounded, CurrentKey, Members
<1>3. RequestsOK'
  BY DEF RequestsOK, TypeOK
<1>4. UntouchedBeforeOwner'
  BY DEF UntouchedBeforeOwner, Members, TypeOK
<1>5. SealsAreCurrent'
  BY DEF SealsAreCurrent, MembersHoldCurrentKey, ChainUnbroken, CurrentKey, Members, TypeOK
<1>6. QED
  BY <1>1, <1>2, <1>3, <1>4, <1>5, DeviceSteps

LEMMA FetchInv == ASSUME IInv, NEW d \in Devices, Fetch(d) PROVE IInv'
<1> USE SpaceKeysAssumption DEF IInv, Fetch, server
<1>1. TypeOK'
  BY DEF TypeOK
<1>2. VersionsBounded'
  <2>1. LET row == rows[UserOf[d]]
        IN  row.key \in Key /\ row.key.ver <= current /\ row.label \in 1..current
    BY DEF VersionsBounded, LabelsCurrent, Members, TypeOK
  <2>2. QED
    BY <2>1 DEF VersionsBounded, CurrentKey, Members, TypeOK
<1>3. RequestsOK'
  BY DEF RequestsOK, TypeOK
<1>4. UntouchedBeforeOwner'
  BY DEF UntouchedBeforeOwner, Members, TypeOK
<1>5. SealsAreCurrent'
  BY DEF SealsAreCurrent, MembersHoldCurrentKey, ChainUnbroken, CurrentKey, Members, TypeOK
<1>6. QED
  BY <1>1, <1>2, <1>3, <1>4, <1>5, DeviceSteps
-----------------------------------------------------------------------------
(* A key sealed for u at the Space's version, by an account that may.      *)
LEMMA UpsertInv ==
    ASSUME IInv, NEW u \in Users, NEW key \in Key, UpsertKey(u, key),
           key.ver <= current, stale' = 0 => stale = 0 /\ key = CurrentKey, stale' \in 0..MaxStale,
           owner = NoUser => (owner' = UserOf[Creator] /\ u = UserOf[Creator]) \/ (legacy /\ owner' = u),
           owner # NoUser => owner' = owner,
           UNCHANGED <<current, pending, chain, gone, legacy, held, op>>,
           created' \subseteq Users
    PROVE  IInv'
<1> USE SpaceKeysAssumption
<1>0. /\ rows' = [rows EXCEPT ![u] = [key |-> key, label |-> current]]
      /\ knows' = [v \in Users |-> IF v \in {u} THEN knows[v] \cup {key} ELSE knows[v]]
      /\ owner' \in Users /\ CurrentKey' = CurrentKey
  BY DEF UpsertKey, Learn, IInv, TypeOK, CurrentKey
<1>1. TypeOK'
  BY <1>0 DEF IInv, TypeOK
<1>2. Members' = Members \cup {u} /\ u \in Members'
  BY <1>0 DEF Members, IInv, TypeOK
<1>3. \A v \in Members' \ {u} : v \in Members /\ rows'[v] = rows[v]
  BY <1>0, <1>2 DEF IInv, TypeOK, Members
<1>4. rows'[u] = [key |-> key, label |-> current]
  BY <1>0 DEF IInv, TypeOK
<1>5. \A v \in Users \ {u} : knows'[v] = knows[v]
  BY <1>0
<1>6. knows'[u] = knows[u] \cup {key}
  BY <1>0
<1>7. VersionsBounded'
  <2>1. CurrentKey' \in Key /\ CurrentKey'.ver = current'
    BY <1>0 DEF IInv, VersionsBounded
  <2>2. \A v \in Members' : rows'[v].key \in knows'[v]
    <3>1. \A v \in Members' \ {u} : v \in Users /\ rows'[v].key \in knows'[v]
      BY <1>3, <1>5 DEF IInv, VersionsBounded, Members
    <3>2. rows'[u].key \in knows'[u]
      BY <1>4, <1>6
    <3>3. QED
      BY <3>1, <3>2
  <2>3. \A v \in Users : \A k \in knows'[v] : k.ver <= current'
    BY <1>5, <1>6 DEF IInv, VersionsBounded
  <2>4. QED
    BY <2>1, <2>2, <2>3 DEF IInv, VersionsBounded
<1>8. RequestsOK'
  BY DEF IInv, RequestsOK
<1>9. UntouchedBeforeOwner'
  BY <1>0 DEF UntouchedBeforeOwner
<1>10. LabelsCurrent'
  BY <1>2, <1>3, <1>4 DEF IInv, LabelsCurrent
<1>11. OwnerKeepsKey'
  BY <1>0, <1>2 DEF IInv, OwnerKeepsKey
<1>12. DepartedNeedRotation'
  BY <1>0, <1>2, <1>5 DEF IInv, DepartedNeedRotation, UntouchedBeforeOwner
<1>13. SealsAreCurrent'
  BY <1>0, <1>2, <1>3, <1>4 DEF IInv, SealsAreCurrent, MembersHoldCurrentKey, ChainUnbroken
<1>14. QED
  BY <1>1, <1>7, <1>8, <1>9, <1>10, <1>11, <1>12, <1>13 DEF IInv

LEMMA PutKeyInv == ASSUME IInv, NEW d \in Devices, PutKey(d) PROVE IInv'
<1> USE SpaceKeysAssumption DEF IInv, PutKey
<1>1. op[d].for \in Users /\ op[d].key \in Key /\ op[d].key.ver <= current
  BY DEF RequestsOK
<1>2. stale' \in 0..MaxStale /\ (stale' = 0 => stale = 0 /\ op[d].key = CurrentKey)
  BY DEF SealsAreCurrent, Arrive, TypeOK
<1>3. UNCHANGED <<current, pending, chain, gone, legacy, held, op, created>> /\ UpsertKey(op[d].for, op[d].key)
  OBVIOUS
<1>4. ASSUME owner # NoUser
      PROVE  owner' = owner
  BY <1>4 DEF RecordOwner
<1>5. ASSUME owner = NoUser, ~legacy
      PROVE  owner' = UserOf[Creator] /\ op[d].for = UserOf[Creator]
  <2>1. d = Creator /\ Members = {}
    BY <1>5 DEF UntouchedBeforeOwner
  <2>2. QED
    BY <1>5, <2>1 DEF MayPut, RecordOwner
<1>6. ASSUME owner = NoUser, legacy
      PROVE  owner' = op[d].for
  BY <1>6 DEF MayPut, RecordOwner, TypeOK
<1>7. QED
  BY <1>1, <1>2, <1>3, <1>4, <1>5, <1>6, UpsertInv DEF TypeOK

LEMMA SyncCreateInv == ASSUME IInv, NEW d \in Devices, SyncCreate(d) PROVE IInv'
<1> USE SpaceKeysAssumption DEF IInv, SyncCreate
<1>1. op[d].key \in Key /\ op[d].key.ver <= current
  BY DEF RequestsOK
<1>2. stale' \in 0..MaxStale /\ (stale' = 0 => stale = 0 /\ op[d].key = CurrentKey)
  BY DEF SealsAreCurrent, Arrive, TypeOK
<1>3. /\ UNCHANGED <<current, pending, chain, gone, legacy, held, op>>
      /\ UpsertKey(UserOf[d], op[d].key)
      /\ created' \subseteq Users /\ UserOf[d] \in Users
  BY DEF TypeOK
<1>4. owner' = IF owner = NoUser THEN UserOf[d] ELSE owner
  BY DEF RecordOwner
<1>5. owner = NoUser /\ ~legacy => d = Creator
  BY DEF UntouchedBeforeOwner
<1>6. QED
  BY <1>1, <1>2, <1>3, <1>4, <1>5, UpsertInv

LEMMA RotateInv == ASSUME IInv, NEW d \in Devices, Rotate(d) PROVE IInv'
<1> DEFINE r == op[d]
<1> USE SpaceKeysAssumption
<1>0. /\ r.t = "rotate" /\ MayRotate(UserOf[d], r)
      /\ rows' = [u \in Users |-> IF u \in r.keys THEN [key |-> r.key, label |-> current + 1]
                                  ELSE IF u \in r.remove THEN NoRow ELSE rows[u]]
      /\ knows' = [u \in Users |-> IF u \in r.keys THEN knows[u] \cup {r.key} ELSE knows[u]]
      /\ chain' = [chain EXCEPT ![current + 1] = [under |-> r.key, prev |-> r.prev]]
      /\ current' = current + 1
      /\ pending' = FALSE
      /\ UNCHANGED <<owner, created, gone, legacy, stale, held, op>>
  BY DEF Rotate, Learn
<1>1. /\ r.key \in Key /\ r.key.ver = current + 1 /\ r.prev \in Key
      /\ r.from = current /\ current \in 1..(MaxVersion - 1)
      /\ r.key # NoKey
  BY <1>0 DEF IInv, RequestsOK, MayRotate
<1>2. /\ owner # NoUser /\ owner = UserOf[d] /\ (owner \notin gone => owner \in r.keys)
      /\ r.keys \subseteq Members /\ Members \subseteq Users
      /\ \A u \in Users \ r.keys : u \in r.remove \/ u \notin Members
  BY <1>0 DEF IInv, MayRotate, OwnerKeepsKey, Members
<1>3. TypeOK'
  <2>1. rows' \in [Users -> [key : Key \cup {NoKey}, label : Nat]]
    BY <1>0, <1>1 DEF IInv, TypeOK
  <2>2. knows' \in [Users -> SUBSET Key]
    BY <1>0, <1>1 DEF IInv, TypeOK
  <2>3. chain' \in [2..MaxVersion -> [under : Key \cup {NoKey}, prev : Key \cup {NoKey}]]
    BY <1>0, <1>1 DEF IInv, TypeOK
  <2>4. current' \in 1..MaxVersion
    BY <1>0, <1>1
  <2>5. pending' \in BOOLEAN
    BY <1>0
  <2>6. QED
    BY <1>0, <2>1, <2>2, <2>3, <2>4, <2>5 DEF IInv, TypeOK
<1>4. Members' = r.keys
  <2>1. \A u \in r.keys : u \in Members'
    BY <1>0, <1>1, <1>2 DEF Members
  <2>2. \A u \in Users \ r.keys : rows'[u].key = NoKey
    BY <1>0, <1>2 DEF Members
  <2>3. QED
    BY <2>1, <2>2 DEF Members
<1>5. \A u \in Members' : rows'[u] = [key |-> r.key, label |-> current + 1]
  BY <1>0, <1>2, <1>4
<1>6. CurrentKey' = r.key
  BY <1>0, <1>1 DEF IInv, TypeOK, CurrentKey
<1>7. \A u \in Users \ Members' : r.key \notin knows'[u]
  BY <1>0, <1>1, <1>4 DEF IInv, VersionsBounded, TypeOK
<1>8. VersionsBounded'
  <2>1. \A u \in Members' : rows'[u].key \in knows'[u]
    BY <1>0, <1>2, <1>4, <1>5
  <2>2. \A u \in Users : \A k \in knows'[u] : k.ver <= current'
    <3> TAKE u \in Users
    <3>1. \A k \in knows[u] : k.ver \in Nat /\ k.ver <= current
      BY DEF IInv, VersionsBounded, TypeOK, Key
    <3>2. knows'[u] \subseteq knows[u] \cup {r.key}
      BY <1>0
    <3>3. QED
      BY <1>0, <1>1, <3>1, <3>2
  <2>3. \A e \in Devices : held'[e] # NoRow =>
            held'[e].key \in Key /\ held'[e].label \in 1..current' /\ held'[e].key.ver <= current'
    BY <1>0, <1>1 DEF IInv, VersionsBounded, TypeOK, Key
  <2>4. QED
    BY <1>0, <1>1, <1>6, <2>1, <2>2, <2>3 DEF VersionsBounded
<1>9. RequestsOK'
  BY <1>0, <1>1 DEF IInv, RequestsOK, TypeOK, Key, Request
<1>10. UntouchedBeforeOwner'
  BY <1>0, <1>2 DEF UntouchedBeforeOwner
<1>11. LabelsCurrent'
  BY <1>0, <1>5 DEF LabelsCurrent
<1>12. OwnerKeepsKey'
  BY <1>0, <1>2, <1>4 DEF OwnerKeepsKey
<1>13. DepartedNeedRotation'
  BY <1>6, <1>7 DEF DepartedNeedRotation
<1>14. SealsAreCurrent'
  <2> SUFFICES ASSUME stale = 0
               PROVE  /\ MembersHoldCurrentKey'
                      /\ \A e \in Devices : held'[e] # NoRow => held'[e].label # current'
                      /\ \A e \in Devices : op'[e].from = current' => op'[e].t = "none"
                      /\ ChainUnbroken'
    BY <1>0 DEF SealsAreCurrent
  <2>1. MembersHoldCurrentKey'
    BY <1>5, <1>6 DEF MembersHoldCurrentKey
  <2>2. \A e \in Devices : held'[e] # NoRow => held'[e].label # current'
    BY <1>0, <1>1 DEF IInv, VersionsBounded
  <2>3. \A e \in Devices : op'[e].from = current' => op'[e].t = "none"
    <3> SUFFICES ASSUME NEW e \in Devices, op[e].t # "none" PROVE op[e].from # current + 1
      BY <1>0
    <3>1. op[e].t \in {"put", "create", "rotate"}
      BY DEF IInv, TypeOK, Request
    <3>2. op[e].from <= current
      BY <3>1 DEF IInv, RequestsOK
    <3>3. op[e].from \in Nat
      BY DEF IInv, TypeOK, Request
    <3>4. QED
      BY <1>1, <3>2, <3>3
  <2>4. r.prev = CurrentKey
    BY <1>0, <1>1 DEF IInv, SealsAreCurrent
  <2>5. ChainUnbroken'
    <3> SUFFICES ASSUME NEW v \in 2..(current + 1)
                 PROVE  chain'[v].prev = IF v = 2 THEN FirstKey ELSE chain'[v - 1].under
      BY <1>0 DEF ChainUnbroken
    <3>1. CASE v = current + 1
      BY <1>0, <1>1, <2>4, <3>1 DEF IInv, TypeOK, CurrentKey
    <3>2. CASE v \in 2..current
      BY <1>0, <1>1, <3>2 DEF IInv, SealsAreCurrent, ChainUnbroken, TypeOK
    <3>3. QED
      BY <1>1, <3>1, <3>2
  <2>6. QED
    BY <2>1, <2>2, <2>3, <2>5
<1>15. QED
  BY <1>3, <1>8, <1>9, <1>10, <1>11, <1>12, <1>13, <1>14 DEF IInv

LEMMA LeaveInv == ASSUME IInv, NEW u \in Users, Leave(u) PROVE IInv'
<1> USE SpaceKeysAssumption
<1>0. /\ u \in Members /\ owner # u
      /\ rows' = [rows EXCEPT ![u] = NoRow]
      /\ owner # NoUser => pending'
      /\ pending' \in BOOLEAN
      /\ UNCHANGED <<owner, current, chain, created, gone, held, op, knows, legacy, stale>>
  BY DEF Leave, IInv, TypeOK
<1>1. TypeOK'
  BY <1>0 DEF IInv, TypeOK
<1>2. Members' = Members \ {u} /\ \A v \in Members' : rows'[v] = rows[v]
  BY <1>0 DEF IInv, TypeOK, Members
<1>3. CurrentKey' = CurrentKey
  BY <1>0 DEF CurrentKey
<1>4. VersionsBounded'
  BY <1>0, <1>2, <1>3 DEF IInv, VersionsBounded
<1>5. RequestsOK'
  BY <1>0 DEF IInv, RequestsOK
<1>6. UntouchedBeforeOwner'
  BY <1>0, <1>2 DEF IInv, UntouchedBeforeOwner
<1>7. LabelsCurrent' /\ OwnerKeepsKey'
  BY <1>0, <1>2 DEF IInv, LabelsCurrent, OwnerKeepsKey
<1>8. DepartedNeedRotation'
  BY <1>0 DEF DepartedNeedRotation
<1>9. SealsAreCurrent'
  BY <1>0, <1>2, <1>3 DEF IInv, SealsAreCurrent, MembersHoldCurrentKey, ChainUnbroken
<1>10. QED
  BY <1>1, <1>4, <1>5, <1>6, <1>7, <1>8, <1>9 DEF IInv
LEMMA PurgeInv == ASSUME IInv, NEW u \in Users, Purge(u) PROVE IInv'
<1> USE SpaceKeysAssumption
<1>0. /\ u \in Demos /\ gone' = gone \cup {u}
      /\ rows' = [rows EXCEPT ![u] = NoRow]
      /\ UNCHANGED <<owner, current, pending, chain, created, held, op, knows, legacy, stale>>
  BY DEF Purge
<1>1. TypeOK'
  BY <1>0 DEF IInv, TypeOK
<1>2. Members' = Members \ {u} /\ \A v \in Members' : rows'[v] = rows[v]
  BY <1>0 DEF IInv, TypeOK, Members
<1>3. CurrentKey' = CurrentKey
  BY <1>0 DEF CurrentKey
<1>4. VersionsBounded'
  BY <1>0, <1>2, <1>3 DEF IInv, VersionsBounded
<1>5. RequestsOK'
  BY <1>0 DEF IInv, RequestsOK
<1>6. UntouchedBeforeOwner'
  BY <1>0, <1>2 DEF IInv, UntouchedBeforeOwner
<1>7. LabelsCurrent' /\ OwnerKeepsKey'
  BY <1>0, <1>2 DEF IInv, LabelsCurrent, OwnerKeepsKey
<1>8. DepartedNeedRotation'
  BY <1>0, <1>2, <1>3 DEF IInv, DepartedNeedRotation
<1>9. SealsAreCurrent'
  BY <1>0, <1>2, <1>3 DEF IInv, SealsAreCurrent, MembersHoldCurrentKey, ChainUnbroken
<1>10. QED
  BY <1>1, <1>4, <1>5, <1>6, <1>7, <1>8, <1>9 DEF IInv
-----------------------------------------------------------------------------
LEMMA NextInv == IInv /\ [Next]_vars => IInv'
<1> SUFFICES ASSUME IInv, [Next]_vars PROVE IInv'
  OBVIOUS
<1>1. CASE UNCHANGED vars
  BY <1>1 DEF vars, server, IInv, TypeOK, VersionsBounded, RequestsOK, UntouchedBeforeOwner, LabelsCurrent,
     OwnerKeepsKey, DepartedNeedRotation, SealsAreCurrent, MembersHoldCurrentKey, ChainUnbroken,
     CurrentKey, Members
<1>2. ASSUME NEW d \in Devices, AskCreate(d)
      PROVE  IInv'
  BY <1>2, AskCreateInv
<1>3. ASSUME NEW d \in Devices, NEW u \in Users, AskPut(d, u)
      PROVE  IInv'
  BY <1>3, AskPutInv
<1>4. ASSUME NEW d \in Devices, NEW R \in SUBSET Users, AskRotate(d, R)
      PROVE  IInv'
  BY <1>4, AskRotateInv
<1>5. ASSUME NEW d \in Devices, GiveUp(d) \/ Fetch(d)
      PROVE  IInv'
  BY <1>5, GiveUpInv, FetchInv
<1>6. ASSUME NEW d \in Devices, PutKey(d) \/ SyncCreate(d) \/ Rotate(d)
      PROVE  IInv'
  BY <1>6, PutKeyInv, SyncCreateInv, RotateInv
<1>7. ASSUME NEW u \in Users, Leave(u) \/ Purge(u)
      PROVE  IInv'
  BY <1>7, LeaveInv, PurgeInv
<1>8. QED
  BY <1>1, <1>2, <1>3, <1>4, <1>5, <1>6, <1>7 DEF Next

LEMMA Invariance == Spec => []IInv
<1>1. QED
  BY InitInv, NextInv, PTL DEF Spec

(* Every row, chain entry and request keeps its shape, and the version     *)
(* never passes the bound on prepared rotations.                           *)
THEOREM TypeCorrect == Spec => []TypeOK
<1>1. IInv => TypeOK
  BY DEF IInv
<1>2. QED
  BY <1>1, Invariance, PTL

(* Whatever requests are delayed, repeated or lost, every row is labelled  *)
(* with the Space's version (upsertWorkspaceKey and the rotation agree).   *)
THEOREM RowsAtCurrentVersion == Spec => []LabelsCurrent
<1>1. IInv => LabelsCurrent
  BY DEF IInv
<1>2. QED
  BY <1>1, Invariance, PTL

(* A Space loses its owner's key with the owner alone (leave and rotate     *)
(* both refuse it), so until a purge the first-key path of PUT /key can    *)
(* never be taken again.                                                   *)
THEOREM OwnerNeverLockedOut == Spec => []OwnerKeepsKey
<1>1. IInv => OwnerKeepsKey
  BY DEF IInv
<1>2. QED
  BY <1>1, Invariance, PTL

(* A departed member who had the current key and was not purged is always  *)
(* matched by a raised rotation_pending, even when rotations, departures   *)
(* and creates that bring someone back race.                               *)
THEOREM DepartureIsFlagged == Spec => []DepartedNeedRotation
<1>1. IInv => DepartedNeedRotation
  BY DEF IInv
<1>2. QED
  BY <1>1, Invariance, PTL

(* A member who is not purged goes only with a rotation or a raised flag, a *)
(* rotation adds nobody, and only a rotation lowers the flag.                            *)
THEOREM RotationsOnlyShrink == Spec => MembershipSteps
<1>1. ASSUME IInv, [Next]_vars
      PROVE  [MembershipStep]_vars
  <2> USE SpaceKeysAssumption DEF MembershipStep
  <2>1. CASE UNCHANGED vars
    BY <2>1
  <2>2. ASSUME UNCHANGED <<rows, owner, current, pending>>
        PROVE  MembershipStep
    BY <2>2 DEF Members
  <2>3. ASSUME NEW d \in Devices,
               \/ AskCreate(d)
               \/ \E u \in Users : AskPut(d, u)
               \/ \E R \in SUBSET Users : AskRotate(d, R)
               \/ GiveUp(d) \/ Fetch(d)
        PROVE  MembershipStep
    BY <2>2, <2>3 DEF AskCreate, AskPut, AskRotate, GiveUp, Fetch, server
  <2>4. ASSUME NEW d \in Devices, PutKey(d) \/ SyncCreate(d)
        PROVE  MembershipStep
    <3>1. current' = current /\ pending' = pending
      BY <2>4 DEF PutKey, SyncCreate
    <3>2. CASE PutKey(d)
      <4>1. UpsertKey(op[d].for, op[d].key) /\ op[d].t = "put"
        BY <3>2 DEF PutKey
      <4>2. op[d].key # NoKey
        BY <1>1, <4>1 DEF IInv, RequestsOK, TypeOK
      <4>3. rows \in [Users -> [key : Key \cup {NoKey}, label : Nat]]
        BY <1>1 DEF IInv, TypeOK
      <4>4. \A u \in Members : u \in Members'
        BY <4>1, <4>2, <4>3 DEF UpsertKey, Members
      <4>5. QED
        BY <3>1, <4>4
    <3>3. CASE SyncCreate(d)
      <4>1. UpsertKey(UserOf[d], op[d].key) /\ op[d].t = "create"
        BY <3>3 DEF SyncCreate
      <4>2. op[d].key # NoKey
        BY <1>1, <4>1 DEF IInv, RequestsOK, TypeOK
      <4>3. rows \in [Users -> [key : Key \cup {NoKey}, label : Nat]]
        BY <1>1 DEF IInv, TypeOK
      <4>4. \A u \in Members : u \in Members'
        BY <4>1, <4>2, <4>3 DEF UpsertKey, Members
      <4>5. QED
        BY <3>1, <4>4
    <3>4. QED
      BY <2>4, <3>2, <3>3
  <2>5. ASSUME NEW d \in Devices, Rotate(d)
        PROVE  MembershipStep
    <3>1. current' = current + 1
      BY <2>5 DEF Rotate
    <3>2. current \in Nat
      BY <1>1 DEF IInv, TypeOK
    <3>3. op[d].keys \subseteq Members
      BY <2>5 DEF Rotate, MayRotate, Members
    <3>4. \A u \in Users \ op[d].keys : rows'[u] = NoRow \/ rows'[u] = rows[u]
      BY <2>5 DEF Rotate
    <3>5. Members' \subseteq Members
      BY <3>3, <3>4 DEF Members, NoRow
    <3>6. QED
      BY <3>1, <3>2, <3>5
  <2>6. ASSUME NEW u \in Users, Leave(u)
        PROVE  MembershipStep
    <3>1. owner = NoUser \/ pending'
      BY <2>6 DEF Leave
    <3>2. current' = current /\ (pending => pending')
      BY <2>6 DEF Leave
    <3>3. QED
      BY <3>1, <3>2
  <2>7. ASSUME NEW u \in Users, Purge(u)
        PROVE  MembershipStep
    <3>1. \A v \in Members : v \in Members' \cup gone'
      BY <2>7 DEF Purge, Members
    <3>2. current' = current /\ pending' = pending
      BY <2>7 DEF Purge
    <3>3. QED
      BY <3>1, <3>2
  <2>8. CASE Next
    BY <2>3, <2>4, <2>5, <2>6, <2>7, <2>8 DEF Next
  <2>9. QED
    BY <1>1, <2>1, <2>8
<1>2. QED
  BY <1>1, Invariance, PTL DEF Spec, MembershipSteps

(* Until a sealed key lands after a rotation it did not know, every member *)
(* holds the current version's key...                                      *)
THEOREM MembersCanOpenCurrent == Spec => []MembersHoldCurrentKey
<1>1. IInv => MembersHoldCurrentKey
  BY DEF IInv, SealsAreCurrent, MembersHoldCurrentKey
<1>2. QED
  BY <1>1, Invariance, PTL

(* ... and the chain leads from it down to every earlier one: rotations    *)
(* from several devices, delayed, repeated and lost, never lose a version. *)
THEOREM NoVersionLost == Spec => []ChainUnbroken
<1>1. IInv => ChainUnbroken
  BY DEF IInv, SealsAreCurrent, ChainUnbroken
<1>2. QED
  BY <1>1, Invariance, PTL
-----------------------------------------------------------------------------
(* SpaceKeys implements SpaceGroup, for any accounts, devices and number   *)
(* of rotations.                                                           *)

group == <<Members, owner, current, pending>>

(* Steps that change none of what the promise is about.                    *)
LEMMA QuietStep ==
    UNCHANGED <<rows, owner, current, pending>> => UNCHANGED group
  BY DEF group, Members

(* A sealed key makes its user a member, and takes nobody's place.         *)
LEMMA UpsertJoins ==
    ASSUME TypeOK, NEW u \in Users, NEW key \in Key, UpsertKey(u, key)
    PROVE  Members' = Members \cup {u}
<1>1. rows' = [rows EXCEPT ![u] = [key |-> key, label |-> current]]
  BY DEF UpsertKey
<1>2. key # NoKey
  BY SpaceKeysAssumption
<1>3. QED
  BY <1>1, <1>2 DEF Members, TypeOK

(* A key that lands with an owner recorded, or in a Space that gets its    *)
(* owner by it, founds or joins.                                           *)
LEMMA SealStep ==
    ASSUME TypeOK, NEW u \in Users, NEW key \in Key, UpsertKey(u, key),
           UNCHANGED <<current, pending>>,
           owner = NoUser => owner' = u,
           owner # NoUser => owner' = owner
    PROVE  Group!Found(u) \/ Group!Join(u)
<1>1. Members' = Members \cup {u}
  BY UpsertJoins
<1>2. CASE owner = NoUser
  BY <1>1, <1>2 DEF Group!Found
<1>3. CASE owner # NoUser
  BY <1>1, <1>3 DEF Group!Join
<1>4. QED
  BY <1>2, <1>3

LEMMA PutStep == ASSUME IInv, NEW d \in Devices, PutKey(d) PROVE Group!Next
<1> USE SpaceKeysAssumption
<1>1. /\ op[d].t = "put" /\ MayPut(UserOf[d], op[d].for) /\ UpsertKey(op[d].for, op[d].key)
      /\ IF UserOf[d] \in Members THEN owner' = owner ELSE RecordOwner(UserOf[d])
      /\ UNCHANGED <<current, pending>>
  BY DEF PutKey
<1>2. op[d].for \in Users /\ op[d].key \in Key
  BY <1>1 DEF IInv, RequestsOK
<1>3. UserOf[d] \in Users
  OBVIOUS
<1>4. owner = NoUser => owner' = op[d].for
  BY <1>1, <1>3 DEF MayPut, RecordOwner
<1>5. owner # NoUser => owner' = owner
  BY <1>1 DEF RecordOwner
<1>6. Group!Found(op[d].for) \/ Group!Join(op[d].for)
  BY <1>1, <1>2, <1>4, <1>5, SealStep DEF IInv
<1>7. QED
  BY <1>2, <1>6 DEF Group!Next

LEMMA CreateStep == ASSUME IInv, NEW d \in Devices, SyncCreate(d) PROVE Group!Next
<1> USE SpaceKeysAssumption
<1>1. /\ op[d].t = "create" /\ UpsertKey(UserOf[d], op[d].key) /\ RecordOwner(UserOf[d])
      /\ UNCHANGED <<current, pending>>
  BY DEF SyncCreate
<1>2. UserOf[d] \in Users /\ op[d].key \in Key
  BY <1>1 DEF IInv, RequestsOK
<1>3. Group!Found(UserOf[d]) \/ Group!Join(UserOf[d])
  BY <1>1, <1>2, SealStep DEF IInv, RecordOwner
<1>4. QED
  BY <1>2, <1>3 DEF Group!Next

LEMMA RotateStep == ASSUME IInv, NEW d \in Devices, Rotate(d) PROVE Group!Next
<1> USE SpaceKeysAssumption
<1> DEFINE r == op[d]
<1>1. /\ r.t = "rotate" /\ MayRotate(UserOf[d], r)
      /\ rows' = [u \in Users |-> IF u \in r.keys THEN [key |-> r.key, label |-> current + 1]
                                  ELSE IF u \in r.remove THEN NoRow ELSE rows[u]]
      /\ current' = current + 1 /\ pending' = FALSE /\ owner' = owner
  BY DEF Rotate
<1>2. r.key # NoKey
  BY <1>1 DEF IInv, RequestsOK
<1>3. owner # NoUser /\ r.remove \subseteq Members \ {owner} /\ r.keys = Members \ r.remove
  BY <1>1 DEF MayRotate
<1> HIDE DEF r
<1>4. Members' = Members \ r.remove
  BY <1>1, <1>2, <1>3 DEF Members, NoRow
<1>5. Group!Rotate(r.remove) /\ r.remove \in SUBSET Users
  BY <1>1, <1>3, <1>4 DEF Group!Rotate, Members
<1>6. QED
  BY <1>5 DEF Group!Next

LEMMA LeaveStep == ASSUME IInv, NEW u \in Users, Leave(u) PROVE Group!Next
<1>1. /\ u \in Members \ {owner}
      /\ rows' = [rows EXCEPT ![u] = NoRow]
      /\ pending' = IF owner = NoUser THEN pending ELSE TRUE
      /\ owner' = owner /\ current' = current
  BY DEF Leave
<1>2. Members' = Members \ {u}
  BY <1>1 DEF IInv, TypeOK, Members, NoRow
<1>3. pending' = (pending \/ owner # NoUser)
  <2>1. pending \in BOOLEAN
    BY DEF IInv, TypeOK
  <2>2. CASE owner = NoUser
    BY <1>1, <2>1, <2>2
  <2>3. CASE owner # NoUser
    BY <1>1, <2>3
  <2>4. QED
    BY <2>2, <2>3
<1>4. Group!Leave(u)
  BY <1>1, <1>2, <1>3 DEF Group!Leave
<1>5. QED
  BY <1>4 DEF Group!Next

LEMMA PurgeStep == ASSUME IInv, NEW u \in Users, Purge(u) PROVE Group!Next
<1>1. /\ u \in Demos /\ rows' = [rows EXCEPT ![u] = NoRow]
      /\ UNCHANGED <<owner, current, pending>>
  BY DEF Purge
<1>2. Members' = Members \ {u}
  BY <1>1 DEF IInv, TypeOK, Members, NoRow
<1>3. Group!Purge(u)
  BY <1>1, <1>2 DEF Group!Purge
<1>4. QED
  BY <1>3 DEF Group!Next

(* What a Space's rows, owner, version and flag do together is what        *)
(* SpaceGroup promises: no order of requests, late, repeated or lost, lets *)
(* someone in before there is an owner, the owner out, or a member out      *)
(* without a rotation done or to do, but for the purge of a demo account   *)
(* (routes/workspaces.ts).                                                 *)
THEOREM KeysImplementGroup == Spec => ImplementsGroup
<1>1. Init => Group!Init
  BY DEF Init, Group!Init, Members
<1>2. ASSUME IInv, [Next]_vars
      PROVE  [Group!Next]_group
  <2>1. CASE UNCHANGED vars
    BY <2>1, QuietStep DEF vars, server
  <2>3. ASSUME NEW d \in Devices,
               \/ AskCreate(d)
               \/ \E u \in Users : AskPut(d, u)
               \/ \E R \in SUBSET Users : AskRotate(d, R)
               \/ GiveUp(d) \/ Fetch(d)
        PROVE  UNCHANGED group
    BY <2>3, QuietStep DEF AskCreate, AskPut, AskRotate, GiveUp, Fetch, server
  <2>4. ASSUME NEW d \in Devices, PutKey(d) \/ SyncCreate(d) \/ Rotate(d)
        PROVE  Group!Next
    BY <1>2, <2>4, PutStep, CreateStep, RotateStep
  <2>5. ASSUME NEW u \in Users, Leave(u) \/ Purge(u)
        PROVE  Group!Next
    BY <1>2, <2>5, LeaveStep, PurgeStep
  <2>6. CASE Next
    BY <2>3, <2>4, <2>5, <2>6, QuietStep DEF Next
  <2>7. QED
    BY <1>2, <2>1, <2>6
<1>3. [Group!Next]_group <=> [Group!Next]_(Group!vars)
  BY DEF group, Group!vars
<1>4. QED
  BY <1>1, <1>2, <1>3, Invariance, PTL DEF Spec, ImplementsGroup, Group!Spec
=============================================================================
