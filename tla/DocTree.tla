------------------------------ MODULE DocTree -------------------------------
(***************************************************************************)
(* The document tree one user's devices share: the documents table, the    *)
(* handlers that change it and the replay of what a device did offline     *)
(* (routes/documents.ts, db/database.ts).  Each handler, and each replayed *)
(* batch, is one transaction.                                              *)
(*                                                                         *)
(* Left out: the order of siblings, what the properties say (a rename is   *)
(* named by its time), a status in a create, and of the types whether it   *)
(* is a Space's (workspace) or not.                                        *)
(***************************************************************************)
EXTENDS Naturals, FiniteSets

CONSTANTS
    Devices,
    Ids,
    Home,       \* the primary workspace, which registration made
    NoId,       \* a parent_id of NULL
    WalkLimit,  \* how far a walk up the tree goes; 50 in the code
    MaxTs,      \* bound: operations and requests the devices make
    MaxQueued   \* bound: operations a device makes between two syncs

ASSUME DocTreeAssumption ==
    /\ IsFiniteSet(Ids) /\ Home \in Ids /\ NoId \notin Ids
    /\ WalkLimit \in Nat /\ MaxTs \in Nat /\ MaxQueued \in Nat

VARIABLES
    docs,      \* the documents table
    now,       \* the time: the devices' clocks and the server's agree
    made,      \* the ids some device has made a document with
    outbox,    \* what each device did offline and has no answer to yet
    renamed,   \* history: the latest change of its properties each row was given
    astray,    \* history: the documents sent as a Space in a document or a page in none
    unguarded  \* history: what nothing checks and was done, by PUT or to the home's status

vars == <<docs, now, made, outbox, renamed, astray, unguarded>>

Bits == {"archived", "trashed", "deleted"}
NoRow == [there |-> FALSE, space |-> FALSE, parent |-> NoId, status |-> {}, statusTs |-> 0,
          structTs |-> 0, propsTs |-> 0]
RowAt(space, parent, ts) ==
    [NoRow EXCEPT !.there = TRUE, !.space = space, !.parent = parent, !.structTs = ts, !.propsTs = ts]

(* The table, its clocks no later than `at`.                               *)
Tables(at) ==
    [Ids -> [there : BOOLEAN, space : BOOLEAN, parent : Ids \cup {NoId}, status : SUBSET Bits,
             statusTs : 0..at, structTs : 0..at, propsTs : 0..at]]

Op == [op : {"create", "delete", "reposition", "update_properties", "update_status"},
       id : Ids, ts : 1..MaxTs, space : BOOLEAN, parent : Ids \cup {NoId}, status : SUBSET Bits]

(* An account just made, or one that has its documents, all in the home.   *)
Init ==
    /\ made \in {{Home}, Ids}
    /\ docs = [i \in Ids |-> IF i = Home THEN RowAt(TRUE, NoId, 0)
                            ELSE IF i \in made THEN RowAt(FALSE, Home, 0) ELSE NoRow]
    /\ now = 0
    /\ outbox = [d \in Devices |-> {}]
    /\ renamed = [i \in Ids |-> 0]
    /\ astray = {}
    /\ unguarded = {}
-----------------------------------------------------------------------------
(* Walks over a table t.                                                   *)

(* The document n steps above i, or NoId.                                  *)
Up(t, i) ==
    LET up[n \in 0..WalkLimit] ==
            IF n = 0 THEN i ELSE IF up[n - 1] = NoId THEN NoId ELSE t[up[n - 1]].parent
    IN  up

Above(t, i) == {Up(t, i)[n] : n \in 0..(WalkLimit - 1)} \ {NoId}

(* findWorkspaceId: the nearest Space, through rows that are there.        *)
InSpace(t, i) ==
    \E n \in 0..(WalkLimit - 1) :
        /\ \A m \in 0..n : Up(t, i)[m] # NoId /\ t[Up(t, i)[m]].there
        /\ t[Up(t, i)[n]].space

(* A row and all that is under it, however deep: what is in every set that *)
(* has the row and, with a document, its children.                         *)
Subtree(t, i) ==
    {j \in Ids : t[j].there /\ \A S \in SUBSET Ids :
        i \in S /\ (\A k \in Ids : t[k].parent \in S => k \in S) => j \in S}

(* Under a row that is under itself the recursive statements never end.    *)
Endless(t, i) == t[i].parent \in Subtree(t, i)

(* Mutant: not compared with what is above the new parent.                 *)
MayMoveInto(t, i, parent) ==
    IF t[i].space THEN parent = NoId ELSE parent # NoId /\ InSpace(t, parent)

(* checkMove.                                                              *)
MayMove(t, i, parent) ==
    IF t[i].space THEN parent = NoId
    ELSE parent # NoId /\ i \notin Above(t, parent) /\ InSpace(t, parent)

SetStatus(t, S, status, ts) ==
    [i \in Ids |-> IF i \in S THEN [t[i] EXCEPT !.status = status, !.statusTs = ts] ELSE t[i]]
-----------------------------------------------------------------------------
(* One operation of a batch, at the server's time `at`.                    *)

(* A row that is there already makes the create a repeated one.            *)
Create(t, o) ==
    IF t[o.id].there THEN t ELSE [t EXCEPT ![o.id] = RowAt(o.space, o.parent, o.ts)]

(* Mutant: the home is like any other Space.                               *)
DeletesAny(t, o) == t[o.id].there /\ o.ts > t[o.id].structTs

(* A delete is compared with the last move, and stamped with the server's  *)
(* time.                                                                   *)
Deletes(t, o) == t[o.id].there /\ o.id # Home /\ o.ts > t[o.id].structTs

(* Mutant: stamped past the server's time, so as to win every tie.         *)
DeleteAhead(t, o, at) ==
    IF Deletes(t, o) THEN SetStatus(t, Subtree(t, o.id), {"deleted"}, at + 1) ELSE t

DeleteOp(t, o, at) ==
    IF Deletes(t, o) THEN SetStatus(t, Subtree(t, o.id), {"deleted"}, at) ELSE t

(* Mutant: not compared with the last move.                                *)
RepositionAlways(t, o) ==
    IF t[o.id].there /\ MayMove(t, o.id, o.parent)
    THEN [t EXCEPT ![o.id].parent = o.parent, ![o.id].structTs = o.ts] ELSE t

Reposition(t, o) ==
    IF t[o.id].there /\ o.ts > t[o.id].structTs /\ MayMove(t, o.id, o.parent)
    THEN [t EXCEPT ![o.id].parent = o.parent, ![o.id].structTs = o.ts] ELSE t

(* Mutant: as before last_properties_ts: a newer move drops the rename.    *)
RenameByStruct(t, o) ==
    IF t[o.id].there /\ o.ts > t[o.id].structTs
    THEN [t EXCEPT ![o.id].propsTs = o.ts] ELSE t

Rename(t, o) ==
    IF t[o.id].there /\ o.ts > t[o.id].propsTs
    THEN [t EXCEPT ![o.id].propsTs = o.ts] ELSE t

UpdateStatus(t, o) ==
    IF t[o.id].there /\ o.ts > t[o.id].statusTs
    THEN SetStatus(t, {o.id}, o.status, o.ts) ELSE t

Apply(t, o, at) ==
    CASE o.op = "create" -> Create(t, o)
      [] o.op = "delete" -> DeleteOp(t, o, at)
      [] o.op = "reposition" -> Reposition(t, o)
      [] o.op = "update_properties" -> Rename(t, o)
      [] o.op = "update_status" -> UpdateStatus(t, o)

(* Creates come first, a parent's before its children's, and all else      *)
(* follows in the order it was done.  No create depends on any but its     *)
(* parents', so any order with these first stands for the code's.          *)
First(a, b) ==
    IF b.op = "create" THEN a.op = "create" /\ b.parent = a.id
    ELSE a.op = "create" \/ a.ts < b.ts

Sorted(ops) ==
    CHOOSE s \in [1..Cardinality(ops) -> ops] :
        /\ \A o \in ops : \E n \in DOMAIN s : s[n] = o
        /\ \A n \in DOMAIN s : \A m \in 1..(n - 1) : ~First(s[n], s[m])

(* The foreign key on parent_id: a create under no row ends the transaction *)
(* and undoes the batch.                                                   *)
Fails(t, o) ==
    o.op = "create" /\ ~t[o.id].there /\ o.parent # NoId /\ ~t[o.parent].there

(* A delete of what is under itself is never done with.                    *)
Hangs(t, o) == o.op = "delete" /\ Deletes(t, o) /\ Endless(t, o.id)

Replay(t, ops, at) ==
    LET s == Sorted(ops)
        after[n \in 0..Cardinality(ops)] == IF n = 0 THEN t ELSE Apply(after[n - 1], s[n], at)
    IN  [refused |-> \E n \in DOMAIN s : Fails(after[n - 1], s[n]),
         hung |-> \E n \in DOMAIN s : Hangs(after[n - 1], s[n]),
         docs |-> after[Cardinality(ops)]]
-----------------------------------------------------------------------------
(* What the devices do.                                                    *)

Tick == now < MaxTs /\ now' = now + 1

(* A device queues an operation; it may know nothing of the others' since. *)
Queue(d, o) ==
    /\ Cardinality(outbox[d]) < MaxQueued
    /\ outbox' = [outbox EXCEPT ![d] = @ \cup {o}]
    /\ UNCHANGED <<docs, renamed, astray, unguarded>>

(* A device creates what it thinks the server lacks: an id is made once,   *)
(* at the root or in a document that some device has made, which the       *)
(* server may not have, and perhaps after its child was (client_ts).       *)
MakeDocument(d, i, space, parent) ==
    /\ Tick
    /\ i \notin made /\ parent \in made \cup {NoId}
    /\ made' = made \cup {i}
    /\ \E ts \in 1..(now + 1) :
          Queue(d, [op |-> "create", id |-> i, ts |-> ts, space |-> space, parent |-> parent,
                    status |-> {}])

MakeOp(kind, i, parent, status) ==
    [op |-> kind, id |-> i, ts |-> now + 1, space |-> FALSE, parent |-> parent, status |-> status]

(* A change to a document the server has, or the device is about to make.  *)
MakeChange(d, i) ==
    /\ Tick
    /\ docs[i].there \/ \E o \in outbox[d] : o.op = "create" /\ o.id = i
    /\ \/ Queue(d, MakeOp("delete", i, NoId, {}))
       \/ \E parent \in Ids \cup {NoId} : Queue(d, MakeOp("reposition", i, parent, {}))
       \/ Queue(d, MakeOp("update_properties", i, NoId, {}))
       \/ \E status \in {{}, {"trashed"}} : Queue(d, MakeOp("update_status", i, NoId, status))
    /\ made' = made

(* A Space belongs at the root and all else inside a document; what makes  *)
(* documents checks neither.                                               *)
OutOfPlace(space, parent) == space <=> parent # NoId

(* POST /sync/structural; the answer may be lost and the batch sent again. *)
SyncStructural(d) ==
    LET r == Replay(docs, outbox[d], now)
        Ts(i, kinds) == {o.ts : o \in {p \in outbox[d] : p.id = i /\ p.op \in kinds}}
    IN  /\ outbox[d] # {} /\ ~r.refused /\ ~r.hung
        /\ docs' = r.docs
        /\ renamed' = [i \in Ids |->
              LET given == {renamed[i]} \cup (IF r.docs[i].there THEN Ts(i, {"update_properties"}) ELSE {})
                           \cup (IF docs[i].there THEN {} ELSE Ts(i, {"create"}))
              IN  CHOOSE ts \in given : \A other \in given : other <= ts]
        /\ \/ outbox' = [outbox EXCEPT ![d] = {}]
           \/ UNCHANGED outbox
        /\ astray' = astray \cup
              {o.id : o \in {p \in outbox[d] :
                  p.op = "create" /\ ~docs[p.id].there /\ OutOfPlace(p.space, p.parent)}}
        /\ unguarded' = unguarded \cup
              (IF \E o \in outbox[d] : o.id = Home /\ o.op = "update_status" THEN {"status"} ELSE {})
        /\ UNCHANGED <<now, made>>

(* ensureDocument: content reaches the server before the document does,    *)
(* and makes a page of it.                                                 *)
EnsureDocument(i) ==
    /\ i \in made /\ ~docs[i].there
    /\ docs' = [docs EXCEPT ![i] = RowAt(FALSE, NoId, 0)]
    /\ UNCHANGED <<now, made, outbox, renamed, astray, unguarded>>
-----------------------------------------------------------------------------
(* The requests of a device that is online, at the server's time.          *)

(* POST /: the server makes the id; any type, under any document.          *)
Post(i, space, parent) ==
    /\ Tick
    /\ i \notin made
    /\ parent # NoId => docs[parent].there
    /\ made' = made \cup {i}
    /\ docs' = [docs EXCEPT ![i] = RowAt(space, parent, now + 1)]
    /\ renamed' = [renamed EXCEPT ![i] = now + 1]
    /\ astray' = IF OutOfPlace(space, parent) THEN astray \cup {i} ELSE astray
    /\ UNCHANGED <<outbox, unguarded>>

(* PATCH /:id/reposition, at the time the device gives, earlier than now   *)
(* when the request was delayed.                                           *)
PatchReposition(i, parent) ==
    /\ Tick
    /\ docs[i].there /\ MayMove(docs, i, parent)
    /\ \E ts \in {now, now + 1} :
          /\ ts > docs[i].structTs
          /\ docs' = [docs EXCEPT ![i].parent = parent, ![i].structTs = ts]
    /\ UNCHANGED <<made, outbox, renamed, astray, unguarded>>

(* PUT /:id: other properties, another type, and any parent that is there  *)
(* or none.                                                                *)
Put(i, space, parent, renames) ==
    /\ Tick
    /\ docs[i].there
    /\ parent # NoId => docs[parent].there
    /\ docs' = [docs EXCEPT ![i].space = space, ![i].parent = parent,
                            ![i].propsTs = IF renames THEN now + 1 ELSE @]
    /\ renamed' = IF renames THEN [renamed EXCEPT ![i] = now + 1] ELSE renamed
    /\ unguarded' = unguarded \cup (IF parent # docs[i].parent THEN {"move"} ELSE {})
                              \cup (IF space # docs[i].space THEN {"type"} ELSE {})
    /\ UNCHANGED <<made, outbox, astray>>

(* PATCH /:id/trash and /untrash, with all that is under the document.     *)
Trash(i, bits) ==
    /\ Tick
    /\ docs[i].there /\ (bits # {} => i # Home) /\ ~Endless(docs, i)
    /\ docs' = [j \in Ids |->
          IF j \in Subtree(docs, i)
          THEN [docs[j] EXCEPT !.status = (@ \ {"trashed"}) \cup bits, !.statusTs = now + 1]
          ELSE docs[j]]
    /\ UNCHANGED <<made, outbox, renamed, astray, unguarded>>

(* PATCH /:id/archive and /unarchive, the document alone.                  *)
Archive(i, bits) ==
    /\ Tick
    /\ docs[i].there
    /\ docs' = [docs EXCEPT ![i].status = (@ \ {"archived"}) \cup bits, ![i].statusTs = now + 1]
    /\ UNCHANGED <<made, outbox, renamed, astray, unguarded>>

(* DELETE /:id                                                             *)
Delete(i) ==
    /\ Tick
    /\ docs[i].there /\ i # Home /\ ~Endless(docs, i)
    /\ docs' = SetStatus(docs, Subtree(docs, i), {"deleted"}, now + 1)
    /\ UNCHANGED <<made, outbox, renamed, astray, unguarded>>

Next ==
    \/ \E d \in Devices :
          \/ \E i \in Ids :
                \/ \E space \in BOOLEAN, parent \in Ids \cup {NoId} : MakeDocument(d, i, space, parent)
                \/ MakeChange(d, i)
          \/ SyncStructural(d)
    \/ \E i \in Ids :
          \/ EnsureDocument(i)
          \/ \E parent \in Ids \cup {NoId} :
                \/ \E space \in BOOLEAN :
                      Post(i, space, parent) \/ \E renames \in BOOLEAN : Put(i, space, parent, renames)
                \/ PatchReposition(i, parent)
          \/ \E bits \in {{}, {"trashed"}} : Trash(i, bits)
          \/ \E bits \in {{}, {"archived"}} : Archive(i, bits)
          \/ Delete(i)

Spec == Init /\ [][Next]_vars
-----------------------------------------------------------------------------
(* Every row and queued operation has its table's or its kind's fields, and *)
(* no row is stamped with a time that has not come.                        *)
TypeOK ==
    /\ now \in 0..MaxTs
    /\ docs \in Tables(now)
    /\ made \subseteq Ids
    /\ outbox \in [Devices -> SUBSET Op]
    /\ renamed \in [Ids -> 0..MaxTs]
    /\ astray \subseteq Ids
    /\ unguarded \subseteq {"move", "type", "status"}

(* No document is under itself, at any distance: of any documents, one has *)
(* its parent elsewhere.                                                   *)
NoneUnderItself(t) == \A S \in SUBSET Ids : S # {} => \E i \in S : t[i].parent \notin S

(* Every parent is there.  While no PUT has changed a parent or a type,    *)
(* what was made in its place stays in it, whatever moves the devices make *)
(* without knowing of each other's: a Space at the root, and all else in a *)
(* document, but for a page whose content came first, its clock at zero so *)
(* that any move can place it.  And no document is under itself, if no     *)
(* Space was made in a document (a walk up ends at one, so it may miss     *)
(* what is above it) or no walk is too short to see all the documents.     *)
(* The last clause is the replay's: a batch is refused for a parent that   *)
(* is nowhere, and never for the order of its operations' times.           *)
TreeOK ==
    /\ \A i \in Ids : docs[i].parent # NoId => docs[docs[i].parent].there
    /\ unguarded \cap {"move", "type"} = {} =>
          /\ \A i \in Ids : docs[i].there /\ i \notin astray =>
                IF docs[i].space THEN docs[i].parent = NoId
                ELSE docs[i].parent = NoId => docs[i].structTs = 0
          /\ (\A i \in astray : ~docs[i].space) \/ Cardinality(Ids) <= WalkLimit =>
                NoneUnderItself(docs)
    /\ \A d \in Devices :
          (\A o \in outbox[d] : o.op = "create" /\ o.parent # NoId =>
               docs[o.parent].there \/ \E p \in outbox[d] : p.op = "create" /\ p.id = o.parent) =>
          ~Replay(docs, outbox[d], now).refused

(* The home is never in the trash or deleted, alone or with a document     *)
(* above it, unless a PUT changed a parent or a type or an update_status   *)
(* operation named the home: nothing guards these (resolvePrimaryWorkspaceId). *)
HomeSafe == unguarded = {} => docs[Home].status \cap {"trashed", "deleted"} = {}

(* The properties stored are the latest that were sent for the row, in     *)
(* whatever order the batches and requests came and whatever moved it.  (A  *)
(* create that found the row there was a repeated one, and gave it none.)  *)
LatestRenameWins == \A i \in Ids : docs[i].there => docs[i].propsTs = renamed[i]

(* No handler takes a clock back, and a document changes its parent only   *)
(* with a later one, so a replayed or late batch undoes no later move.     *)
ClocksAdvance ==
    [][\A i \in Ids :
          docs[i].there =>
              /\ docs'[i].structTs >= docs[i].structTs /\ docs'[i].propsTs >= docs[i].propsTs
              /\ docs'[i].statusTs >= docs[i].statusTs
              /\ docs'[i].parent # docs[i].parent /\ "move" \notin unguarded' =>
                     docs'[i].structTs > docs[i].structTs]_vars
==============================================================================
