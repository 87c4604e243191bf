----------------------------- MODULE ContentLog -----------------------------
(***************************************************************************)
(* The content one user keeps of one document: the rows of yjs_updates and *)
(* documents.yjs_sv_hash (db/database.ts), reached through the REST routes *)
(* (routes/documents.ts) and the socket relay (relay.ts) by that user's    *)
(* devices.  Every handler is atomic; what interleaves is a device reading *)
(* the log and its write landing, perhaps again, after others have.        *)
(*                                                                         *)
(* The server stores sealed blobs it cannot read.  A blob is the set of    *)
(* editing operations in it: applying one twice, or in another order,      *)
(* changes nothing.  A hash is the singleton of the set it was computed of, *)
(* and NULL is no set.                                                     *)
(***************************************************************************)
EXTENDS Naturals

CONSTANTS
    Devices,
    Ops,      \* editing operations, each made once
    MaxId     \* bound: rows ever inserted

ASSUME ContentLogAssumption ==
    MaxId \in Nat \ {0}

VARIABLES
    rows,      \* the stored blobs, each with its AUTOINCREMENT id
    nextId,    \* the id the next row takes, kept by SQLite across deletions
    hash,      \* documents.yjs_sv_hash
    deleted,   \* documents.status & 4
    loc,       \* the operations each device's copy has
    unsent,    \* those it made and has not put on the server
    read,      \* what each device last read: the version, and the content at it
    conn,      \* whether it is in the document's room
    wire,      \* the operations on the way to it over its socket
    guarded,   \* history: every REST write so far named the version it had read
    relayed    \* history: no socket has sent a COMPACT frame yet, and no replay failed

log == <<rows, nextId, hash>>
devs == <<loc, unsent, read, conn, wire>>
vars == <<log, deleted, devs, guarded, relayed>>

NoHash == {}
Row == [id : 1..MaxId, ops : SUBSET Ops]
Content == UNION {r.ops : r \in rows}

(* Mutant: the id the next row will take.                                  *)
UpcomingVersion == nextId

(* yjsVersion: the newest row's id, 0 with none.                           *)
Version ==
    IF rows = {} THEN 0
    ELSE (CHOOSE r \in rows : \A s \in rows : s.id <= r.id).id

Init ==
    /\ rows = {} /\ nextId = 1 /\ hash = NoHash /\ deleted = FALSE
    /\ loc = [d \in Devices |-> {}]
    /\ unsent = [d \in Devices |-> {}]
    /\ read = [d \in Devices |-> [seen |-> 0, content |-> {}]]
    /\ conn = [d \in Devices |-> FALSE]
    /\ wire = [d \in Devices |-> {}]
    /\ guarded = TRUE /\ relayed = TRUE
-----------------------------------------------------------------------------
(* Storage.                                                                *)

(* Mutant: ids without AUTOINCREMENT, the largest one left and one more.   *)
InsertReusingIds(kept, ops) ==
    /\ nextId <= MaxId
    /\ \E id \in 1..MaxId :
          /\ \A r \in kept : r.id < id
          /\ id = 1 \/ \E r \in kept : r.id = id - 1
          /\ rows' = kept \cup {[id |-> id, ops |-> ops]}
    /\ nextId' = nextId + 1

Insert(kept, ops) ==
    /\ nextId <= MaxId
    /\ rows' = kept \cup {[id |-> nextId, ops |-> ops]}
    /\ nextId' = nextId + 1

(* Mutant: the hash of the content before the append stays.                *)
AppendKeepingHash(ops, h) == Insert(rows, ops) /\ hash' = IF h = NoHash THEN hash ELSE h

(* An append clears the hash unless it brings that of the new content.     *)
AppendYjsUpdate(ops, h) == Insert(rows, ops) /\ hash' = h

CompactYjsUpdates(ops, h) == Insert({}, ops) /\ hash' = h

(* Mutant: what was stored is relayed to nobody.                           *)
BroadcastToNone(ops, sender) == wire' = wire

(* Everyone in the room but the sender; a blob stored over REST has no     *)
(* sender and reaches the device that pushed it too.                       *)
Broadcast(ops, others) ==
    wire' = [d \in Devices |-> IF conn[d] /\ d \in others THEN wire[d] \cup ops ELSE wire[d]]

(* Mutant: whatever was stored since the device read.                      *)
NeverStale(d) == FALSE

Stale(d) == Version # read[d].seen
-----------------------------------------------------------------------------
(* The devices.                                                            *)

Edit(d, o) ==
    /\ \A e \in Devices : o \notin loc[e]
    /\ loc' = [loc EXCEPT ![d] = @ \cup {o}]
    /\ unsent' = [unsent EXCEPT ![d] = @ \cup {o}]
    /\ UNCHANGED <<log, deleted, read, conn, wire, guarded, relayed>>

(* GET /yjs: the device merges what is stored into its copy.               *)
Read(d) ==
    /\ read' = [read EXCEPT ![d] = [seen |-> Version, content |-> Content]]
    /\ loc' = [loc EXCEPT ![d] = @ \cup Content]
    /\ UNCHANGED <<log, deleted, unsent, conn, wire, guarded, relayed>>

Deliver(d) ==
    /\ wire[d] # {}
    /\ loc' = [loc EXCEPT ![d] = @ \cup wire[d]]
    /\ wire' = [wire EXCEPT ![d] = {}]
    /\ UNCHANGED <<log, deleted, unsent, read, conn, guarded, relayed>>
-----------------------------------------------------------------------------
(* REST writes.  What a device pushes, and the hash of that and what it    *)
(* read, are of any earlier moment: the request may have been under way.   *)

Pushed(d, ops) ==
    /\ unsent' = [unsent EXCEPT ![d] = @ \ ops]
    /\ Broadcast(ops, Devices)
    /\ UNCHANGED <<loc, read, conn>>

HashFor(d, ops) == {NoHash, {read[d].content \cup ops}}

(* POST /yjs with `seen`.                                                  *)
Append(d, ops) ==
    /\ \E h \in HashFor(d, ops) : AppendYjsUpdate(ops, IF Stale(d) THEN NoHash ELSE h)
    /\ Pushed(d, ops)
    /\ UNCHANGED <<deleted, guarded, relayed>>

(* POST /yjs with `seen` and `replace`: 409 when it would delete content   *)
(* the device did not read.                                                *)
Replace(d, ops) ==
    /\ ~Stale(d)
    /\ \E h \in HashFor(d, ops) : CompactYjsUpdates(read[d].content \cup ops, h)
    /\ Pushed(d, read[d].content \cup ops)
    /\ UNCHANGED <<deleted, guarded, relayed>>

(* PUT /yjs-hash: the hash of what the device read, if still stored.       *)
Stamp(d) ==
    /\ ~Stale(d)
    /\ hash' = {read[d].content}
    /\ UNCHANGED <<rows, nextId, deleted, devs, guarded, relayed>>

(* POST /sync/yjs-push, and POST /yjs without `seen`: stored as it comes.  *)
UnguardedPush(d, ops) ==
    /\ \E h \in {NoHash, {loc[d]}} : AppendYjsUpdate(ops, h) \/ CompactYjsUpdates(ops, h)
    /\ Pushed(d, ops)
    /\ guarded' = FALSE
    /\ UNCHANGED <<deleted, relayed>>
-----------------------------------------------------------------------------
(* The relay.                                                              *)

(* HELLO: the device joins the room and what is stored is replayed to it,  *)
(* or none of it when the read fails, which is only logged.                *)
Hello(d) ==
    /\ ~conn[d]
    /\ conn' = [conn EXCEPT ![d] = TRUE]
    /\ \/ wire' = [wire EXCEPT ![d] = Content] /\ relayed' = relayed
       \/ wire' = wire /\ relayed' = FALSE
    /\ UNCHANGED <<log, deleted, loc, unsent, read, guarded>>

(* UPDATE: a failed append is logged, and the peers hear of it either way. *)
SocketUpdate(d) ==
    /\ conn[d] /\ unsent[d] # {}
    /\ AppendYjsUpdate(unsent[d], NoHash) \/ UNCHANGED log
    /\ Broadcast(unsent[d], Devices \ {d})
    /\ unsent' = [unsent EXCEPT ![d] = {}]
    /\ UNCHANGED <<deleted, loc, read, conn, guarded, relayed>>

(* COMPACT: a snapshot of the device's copy, unguarded and not relayed.    *)
(* One that fails is logged too, and the device does not learn of it.      *)
Compact(d) ==
    /\ conn[d]
    /\ CompactYjsUpdates(loc[d], NoHash) \/ UNCHANGED log
    /\ unsent' = [unsent EXCEPT ![d] = {}]
    /\ relayed' = FALSE
    /\ UNCHANGED <<deleted, loc, read, conn, wire, guarded>>

Disconnect(d) ==
    /\ conn[d]
    /\ conn' = [conn EXCEPT ![d] = FALSE]
    /\ wire' = [wire EXCEPT ![d] = {}]
    /\ UNCHANGED <<log, deleted, loc, unsent, read, guarded, relayed>>
-----------------------------------------------------------------------------
(* What the document's own operations do to its content.                   *)

(* Tombstoned, alone or with an ancestor: the rows go, the hash does not.  *)
Delete ==
    /\ deleted' = TRUE
    /\ rows' = {}
    /\ UNCHANGED <<nextId, hash, devs, guarded, relayed>>

(* An update_status operation newer than the deletion.                     *)
Restore ==
    /\ deleted
    /\ deleted' = FALSE
    /\ UNCHANGED <<log, devs, guarded, relayed>>

(* The document, or an ancestor, moves to another Space.                   *)
MoveAcross ==
    /\ hash' = NoHash
    /\ UNCHANGED <<rows, nextId, deleted, devs, guarded, relayed>>

Next ==
    \/ \E d \in Devices :
          \/ \E o \in Ops : Edit(d, o)
          \/ Read(d)
          \/ Deliver(d)
          \/ \E ops \in SUBSET loc[d] \ {{}} :
                \/ Append(d, ops)
                \/ Replace(d, ops)
                \/ UnguardedPush(d, ops)
          \/ Stamp(d)
          \/ Hello(d)
          \/ SocketUpdate(d)
          \/ Compact(d)
          \/ Disconnect(d)
    \/ Delete
    \/ Restore
    \/ MoveAcross

Spec == Init /\ [][Next]_vars
-----------------------------------------------------------------------------
(* Rows have distinct ids below the next one, and every variable its shape. *)
TypeOK ==
    /\ nextId \in 1..(MaxId + 1)
    /\ rows \subseteq Row
    /\ \A r \in rows : r.id < nextId /\ \A s \in rows : r.id = s.id => r = s
    /\ hash \in SUBSET SUBSET Ops
    /\ deleted \in BOOLEAN
    /\ loc \in [Devices -> SUBSET Ops]
    /\ unsent \in [Devices -> SUBSET Ops]
    /\ read \in [Devices -> [seen : 0..MaxId, content : SUBSET Ops]]
    /\ conn \in [Devices -> BOOLEAN]
    /\ wire \in [Devices -> SUBSET Ops]
    /\ guarded \in BOOLEAN /\ relayed \in BOOLEAN

(* A version is one content for good: if the log is at the version a       *)
(* device read, it holds what the device read, whatever was appended,      *)
(* replaced and deleted in between (yjsVersion, database.ts).              *)
VersionIdentifiesContent ==
    \A d \in Devices : read[d].seen = Version => read[d].content = Content

(* While every REST write is guarded, a hash over stored content is the    *)
(* hash of exactly that content, so equal hashes mean equal content        *)
(* (storeYjsUpdate, stampYjsSvHash).                                       *)
HashDescribesContent == guarded /\ rows # {} /\ hash # NoHash => hash = {Content}

(* A device in the room has, or has on the way, all that is stored, unless *)
(* a COMPACT frame stored what nobody relayed, or a replay failed (HELLO,  *)
(* broadcastStored).                                                       *)
RoomUpToDate ==
    relayed => \A d \in Devices : conn[d] => Content \subseteq loc[d] \cup wire[d]

(* While writes are guarded and no socket compacts, nothing stored is lost *)
(* but by deleting the document: a replacing snapshot has read it all.     *)
NoStoredOpLost ==
    [][guarded' /\ relayed' /\ ~deleted' => Content \subseteq Content']_vars

(* The log with its rows, ids and races keeps the content as ContentStore   *)
(* promises, whatever reads, writes and frames overlap.                    *)
Store == INSTANCE ContentStore WITH content <- Content, version <- Version, fresh <- nextId

ImplementsStore == Store!Spec
==============================================================================
