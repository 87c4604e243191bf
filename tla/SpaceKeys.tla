------------------------------ MODULE SpaceKeys ------------------------------
(***************************************************************************)
(* The key rows, key state and key chain of one Space                      *)
(* (routes/workspaces.ts over db/registry.ts), and the devices whose       *)
(* requests reach them.  A handler runs to its end without yielding, so    *)
(* each is one action; what interleaves is a device reading the server and *)
(* its request landing, later, more than once, or never.                   *)
(*                                                                         *)
(* A sealed key is the key it holds.  A key is named by the version it was *)
(* minted for and the device that minted it, so two devices that prepare   *)
(* the same rotation mint different keys.                                  *)
(***************************************************************************)
EXTENDS Naturals

CONSTANTS
    Users,
    Devices,
    UserOf,      \* the account each device is signed in to
    Creator,     \* the device that makes the Space
    Demos,       \* the demo accounts, which are purged when their time ends
    NoUser,
    NoKey,
    MaxVersion,  \* bound: no device prepares a rotation beyond this version
    MaxStale     \* bound: requests carrying a sealed key that land after a rotation

Key == [ver : Nat, by : Devices]

ASSUME SpaceKeysAssumption ==
    /\ UserOf \in [Devices -> Users]
    /\ Creator \in Devices
    /\ Demos \subseteq Users
    /\ NoUser \notin Users
    /\ NoKey \notin Key
    /\ MaxVersion \in Nat \ {0}
    /\ MaxStale \in Nat

VARIABLES
    rows,     \* workspace_keys: what is sealed for each user, and its key_version
    owner,    \* workspace_key_state.owner_user_id; NoUser when there is no state row
    current,  \* workspace_key_state.current_version, 1 when there is no state row
    pending,  \* workspace_key_state.rotation_pending
    chain,    \* workspace_key_chain
    created,  \* the accounts whose own database has a document for the Space
    gone,     \* the accounts that were purged: no row in users
    held,     \* the newest key each device holds and the version it takes it for
    op,       \* the request each device has under way
    knows,    \* history: every key that was ever sealed for a user, or minted by one
    legacy,   \* history: the Space began with key rows and no state row
    stale     \* history: how many keys sealed before a rotation have landed after it

server == <<rows, owner, current, pending, chain, created, gone, knows, legacy, stale>>
vars == <<server, held, op>>

FirstKey == [ver |-> 1, by |-> Creator]
NoRow == [key |-> NoKey, label |-> 0]
NoOp == [t |-> "none", for |-> NoUser, from |-> 0, key |-> NoKey, prev |-> NoKey,
         keys |-> {}, remove |-> {}]

Request == [t : {"none", "put", "create", "rotate"}, for : Users \cup {NoUser},
            from : Nat, key : Key \cup {NoKey}, prev : Key \cup {NoKey},
            keys : SUBSET Users, remove : SUBSET Users]

Members == {u \in Users : rows[u].key # NoKey}
NoChainEntry == [under |-> NoKey, prev |-> NoKey]
CurrentKey == IF current = 1 THEN FirstKey ELSE chain[current].under

(* A Space its creator made and nobody has put on the server yet.          *)
InitFresh ==
    /\ rows = [u \in Users |-> NoRow]
    /\ created = {} /\ legacy = FALSE
    /\ held = [d \in Devices |-> IF d = Creator THEN [key |-> FirstKey, label |-> 1] ELSE NoRow]
    /\ knows = [u \in Users |-> IF u = UserOf[Creator] THEN {FirstKey} ELSE {}]

(* A Space with key rows and no state row: made before workspace_key_state, *)
(* or by a server that stopped between its first key and its owner.  A stop *)
(* in a batch undoes the document and not the key, which the registry has. *)
InitLegacy ==
    /\ \E S \in SUBSET Users :
          rows = [u \in Users |-> IF u \in S THEN [key |-> FirstKey, label |-> 1] ELSE NoRow]
    /\ created \in {{}, {UserOf[Creator]}} /\ legacy = TRUE
    /\ held = [d \in Devices |-> NoRow]
    /\ knows = [u \in Users |-> IF rows[u] = NoRow THEN {} ELSE {FirstKey}]

Init ==
    /\ InitFresh \/ InitLegacy
    /\ owner = NoUser
    /\ current = 1
    /\ pending = FALSE
    /\ gone = {}
    /\ chain = [v \in 2..MaxVersion |-> NoChainEntry]
    /\ op = [d \in Devices |-> NoOp]
    /\ stale = 0
-----------------------------------------------------------------------------
(* What a device prepares from what it last read.                          *)

Ask(d, request) == op[d] = NoOp /\ op' = [op EXCEPT ![d] = request]

(* A device seals the key it holds for u: itself, or someone it shares with. *)
AskPut(d, u) ==
    /\ held[d] # NoRow
    /\ Ask(d, [NoOp EXCEPT !.t = "put", !.for = u, !.from = held[d].label, !.key = held[d].key])
    /\ UNCHANGED <<server, held>>

(* A device queues the create of a Space its account has no document for:  *)
(* the one it made offline, or one whose key it was given once.            *)
AskCreate(d) ==
    /\ UserOf[d] \notin created
    /\ \/ d = Creator /\ Ask(d, [NoOp EXCEPT !.t = "create", !.from = 1, !.key = FirstKey])
       \/ /\ held[d] # NoRow
          /\ Ask(d, [NoOp EXCEPT !.t = "create", !.from = held[d].label, !.key = held[d].key])
    /\ UNCHANGED <<server, held>>

(* prepareRotation: the next key, the one before it sealed under it, and a *)
(* copy for each of the members listed now who are to remain.              *)
AskRotate(d, R) ==
    /\ held[d] # NoRow
    /\ held[d].label < MaxVersion
    /\ UserOf[d] \in Members
    /\ R \subseteq Members \ {UserOf[d]}
    /\ Ask(d, [NoOp EXCEPT !.t = "rotate", !.from = held[d].label, !.prev = held[d].key,
                           !.key = [ver |-> held[d].label + 1, by |-> d],
                           !.keys = Members \ R, !.remove = R])
    /\ UNCHANGED <<server, held>>

(* The answer came, was a refusal, or never will: the device stops asking. *)
GiveUp(d) ==
    /\ op[d] # NoOp
    /\ op' = [op EXCEPT ![d] = NoOp]
    /\ UNCHANGED <<server, held>>

(* GET /key, or the entries /api/auth/me returns.                          *)
Fetch(d) ==
    /\ UserOf[d] \in Members
    /\ held' = [held EXCEPT ![d] = rows[UserOf[d]]]
    /\ UNCHANGED <<server, op>>
-----------------------------------------------------------------------------
(* The handlers.  Each leaves the request in place, so that it may land    *)
(* again as a retry or a duplicate; GiveUp ends it.                        *)

(* A sealed key that reaches the server after a rotation it did not know.  *)
Arrive(r) ==
    IF r.from = current THEN stale' = stale ELSE stale < MaxStale /\ stale' = stale + 1

Learn(S, k) == knows' = [u \in Users |-> IF u \in S THEN knows[u] \cup {k} ELSE knows[u]]

(* Mutant: the column's default instead of the Space's version.            *)
UpsertKeyAtDefault(u, key) ==
    /\ rows' = [rows EXCEPT ![u] = [key |-> key, label |-> 1]]
    /\ Learn({u}, key)

(* A row written for a user takes the Space's current version, whatever    *)
(* key the sealed value holds.                                             *)
UpsertKey(u, key) ==
    /\ rows' = [rows EXCEPT ![u] = [key |-> key, label |-> current]]
    /\ Learn({u}, key)

(* INSERT OR IGNORE: only the first call gives the Space an owner.         *)
RecordOwner(u) == owner' = IF owner = NoUser THEN u ELSE owner

MayPut(caller, u) ==
    \/ caller \notin Members /\ u = caller /\ Members = {}
    \/ caller \in Members /\ owner = caller

PutKey(d) ==
    LET r == op[d]
        caller == UserOf[d]
    IN  /\ r.t = "put" /\ Arrive(r)
        /\ MayPut(caller, r.for)
        /\ UpsertKey(r.for, r.key)
        /\ IF caller \in Members THEN owner' = owner ELSE RecordOwner(caller)
        /\ UNCHANGED <<current, pending, chain, created, gone, legacy, held, op>>

(* The create operation of structural sync.  It looks for the document in  *)
(* the caller's own database, so it seals a key for whoever has none there, *)
(* a member or not (POST /documents and register do the same at once for   *)
(* an id nobody has yet).                                                  *)
SyncCreate(d) ==
    LET r == op[d]
    IN  /\ r.t = "create" /\ Arrive(r)
        /\ UserOf[d] \notin created
        /\ created' = created \cup {UserOf[d]}
        /\ UpsertKey(UserOf[d], r.key)
        /\ RecordOwner(UserOf[d])
        /\ UNCHANGED <<current, pending, chain, gone, legacy, held, op>>

(* Mutant: no comparison with the version the device prepared from.        *)
MayRotateFromAny(caller, r) ==
    /\ owner # NoUser /\ owner = caller
    /\ caller \notin r.remove
    /\ r.remove \subseteq Members
    /\ r.keys = Members \ r.remove

(* Mutant: a rotation may leave someone out.                               *)
MayRotateLeavingOut(caller, r) ==
    /\ owner # NoUser /\ owner = caller
    /\ r.from = current
    /\ caller \notin r.remove
    /\ r.keys \subseteq Members

(* Mutant: a rotation may name someone who is not a member.                *)
MayRotateAdding(caller, r) ==
    /\ owner # NoUser /\ owner = caller
    /\ r.from = current
    /\ caller \notin r.remove
    /\ r.remove \subseteq Members

MayRotate(caller, r) ==
    /\ owner # NoUser /\ owner = caller
    /\ r.from = current
    /\ caller \notin r.remove
    /\ r.remove \subseteq Members
    /\ r.keys = Members \ r.remove

Rotate(d) ==
    LET r == op[d]
        version == current + 1
    IN  /\ r.t = "rotate"
        /\ MayRotate(UserOf[d], r)
        /\ rows' = [u \in Users |-> IF u \in r.keys THEN [key |-> r.key, label |-> version]
                                    ELSE IF u \in r.remove THEN NoRow ELSE rows[u]]
        /\ Learn(r.keys, r.key)
        /\ chain' = [chain EXCEPT ![version] = [under |-> r.key, prev |-> r.prev]]
        /\ current' = version
        /\ pending' = FALSE
        /\ UNCHANGED <<owner, created, gone, legacy, stale, held, op>>

(* Mutant: the flag is not raised.                                         *)
LeaveUnflagged(u) ==
    /\ u \in Members
    /\ owner # u
    /\ rows' = [rows EXCEPT ![u] = NoRow]
    /\ UNCHANGED <<owner, current, pending, chain, created, gone, held, op, knows, legacy, stale>>

(* Mutant: the owner may leave.                                            *)
LeaveAnyone(u) ==
    /\ u \in Members
    /\ rows' = [rows EXCEPT ![u] = NoRow]
    /\ pending' = IF owner = NoUser THEN pending ELSE TRUE
    /\ UNCHANGED <<owner, current, chain, created, gone, held, op, knows, legacy, stale>>

(* DELETE /members/me; a Space with no state row has no flag to set.       *)
Leave(u) ==
    /\ u \in Members
    /\ owner # u
    /\ rows' = [rows EXCEPT ![u] = NoRow]
    /\ pending' = IF owner = NoUser THEN pending ELSE TRUE
    /\ UNCHANGED <<owner, current, chain, created, gone, held, op, knows, legacy, stale>>

(* The purge of a demo account takes its key rows, the owner's as well, and *)
(* raises no flag.  Its devices' session tokens may outlive it.            *)
Purge(u) ==
    /\ u \in Demos \ gone
    /\ rows' = [rows EXCEPT ![u] = NoRow]
    /\ gone' = gone \cup {u}
    /\ UNCHANGED <<owner, current, pending, chain, created, held, op, knows, legacy, stale>>

Next ==
    \/ \E d \in Devices :
          \/ AskCreate(d)
          \/ \E u \in Users : AskPut(d, u)
          \/ \E R \in SUBSET Users : AskRotate(d, R)
          \/ GiveUp(d)
          \/ Fetch(d)
          \/ PutKey(d)
          \/ SyncCreate(d)
          \/ Rotate(d)
    \/ \E u \in Users : Leave(u) \/ Purge(u)

Spec == Init /\ [][Next]_vars
-----------------------------------------------------------------------------
(* Every row, entry and request has the shape its table or handler gives it. *)
TypeOK ==
    /\ rows \in [Users -> [key : Key \cup {NoKey}, label : Nat]]
    /\ owner \in Users \cup {NoUser}
    /\ current \in 1..MaxVersion
    /\ pending \in BOOLEAN
    /\ chain \in [2..MaxVersion -> [under : Key \cup {NoKey}, prev : Key \cup {NoKey}]]
    /\ created \subseteq Users /\ gone \subseteq Demos
    /\ held \in [Devices -> [key : Key \cup {NoKey}, label : Nat]]
    /\ op \in [Devices -> Request]
    /\ knows \in [Users -> SUBSET Key]
    /\ legacy \in BOOLEAN
    /\ stale \in 0..MaxStale

(* Every member's row is at the Space's version: a rotation misses no      *)
(* member, and no later writer brings an older label back (the comment on  *)
(* upsertWorkspaceKey, registry.ts).                                       *)
LabelsCurrent == \A u \in Members : rows[u].label = current

(* Whoever once had the Space's current key and is no longer a member has  *)
(* left the owner a rotation to do: leaving raises the flag, and no        *)
(* rotation that lowers it seals its key for someone who left meanwhile.   *)
(* (A legacy Space has no flag to raise until it has an owner, and a purge  *)
(* raises none.)                                                           *)
DepartedNeedRotation ==
    owner # NoUser /\ ~legacy =>
        \A u \in Users \ (Members \cup gone) : CurrentKey \in knows[u] => pending

(* The owner of a Space always has a row for its key: it can neither leave *)
(* nor rotate itself out, so only its purge lets the Space be bootstrapped *)
(* again.                                                                  *)
OwnerKeepsKey == owner \notin gone \cup {NoUser} => owner \in Members

(* Until a key sealed before a rotation lands after it, every member holds *)
(* the key the newest chain entry is sealed under.                         *)
MembersHoldCurrentKey == stale = 0 => \A u \in Members : rows[u].key = CurrentKey

(* Until then, each entry opens with the key the entry above it yields,    *)
(* down to the first key: no version the Space's content was ever written  *)
(* under is out of a member's reach.                                       *)
ChainUnbroken ==
    stale = 0 =>
        \A v \in 2..current :
            chain[v].prev = IF v = 2 THEN FirstKey ELSE chain[v - 1].under

(* What registry.ts says of a row: the version of the Space key it holds   *)
(* is always the Space's current one.                                      *)
SealedAtCurrentVersion == \A u \in Members : rows[u].key.ver = current

(* Who is not purged disappears only with a rotation or with the flag      *)
(* raised; a rotation only ever lets members go, one version at a time;    *)
(* and the flag falls only with a rotation.                                *)
MembershipStep ==
    /\ (\E u \in Members : u \notin Members' \cup gone') =>
           current' = current + 1 \/ pending' \/ owner = NoUser
    /\ current' # current => current' = current + 1 /\ Members' \subseteq Members
    /\ pending /\ ~pending' => current' # current

MembershipSteps == [][MembershipStep]_vars

(* Requests that land late, twice or never change the members only as       *)
(* SpaceGroup promises: what the rows, the state row and the handlers do    *)
(* together is to found, join, leave and rotate.                           *)
Group == INSTANCE SpaceGroup WITH members <- Members, version <- current, flag <- pending

ImplementsGroup == Group!Spec
==============================================================================
