# Verification of ubimate-server

TLA+ models of the server under `src/apps/api` and of what its clients send it, checked with TLC. The safety
properties the runs check, and the two refinements, are proved with TLAPS for every number of devices,
accounts, documents, operations and rows; liveness is model-checked.
`A/` below stands for `src/apps/api/src/`.

## 1. The system

The server keeps documents that are encrypted by the clients: it stores sealed keys, sealed blobs and
positions in a tree, and cannot read any content. A client works offline and replays what it did; a user
has several devices, and a Space (a document of type `workspace`) can have several members.

Everything runs in one Node process. Databases are SQLite through `better-sqlite3`, whose calls are
synchronous, so a handler without an `await` on something outside the process runs to its end: **one
handler is one step**. What interleaves is

* a client reading, computing, and writing later: what it read is stale when its request lands;
* requests that are delayed, repeated after a lost answer, or never arrive;
* the few handlers that wait for something outside: the object store, the captcha, the mail server, the
  body of an upload;
* timers (cleanup, reconcile, the event throttle, pings) and stops of the process between two writes
  that are not in one transaction.

### Components

| Component | State | Operations | Talks to | What is hard |
|---|---|---|---|---|
| Space keys (`A/routes/workspaces.ts`, `A/db/registry.ts`) | `workspace_keys`, `workspace_key_state`, `workspace_key_chain` | GET key, keychain, members; PUT key; rotate; leave | sync (first key), attachments (owner, version), events | stale requests, racing rotations and departures |
| Document tree (`A/routes/documents.ts`) | `documents` | create, PUT, reposition, trash, archive, delete, structural sync | content log, events | offline batches replayed late, twice, out of order |
| Content log (`A/db/database.ts`, `A/routes/documents.ts`) | `yjs_updates`, `yjs_sv_hash` | GET, POST, PUT hash, check, push | relay, tree, events | snapshots and hashes computed from an old reading |
| Relay (`A/relay.ts`) | rooms of sockets | HELLO, UPDATE, COMPACT, AWARE, PING, close | content log | what a room sees while others write |
| Attachments (`A/routes/attachments.ts`, `A/lib/attachments.ts`, `A/lib/quota.ts`) | `attachments`, `usage`, holds in memory, files or bucket objects | presign, PUT, confirm, resolve, DELETE, cleanup, reconcile | Space keys, object store | waits in the middle, crashes, expiry |
| Object store (`A/lib/objectStore.ts`) | a bucket (external) | presignPut, presignGet, head, delete | attachments | every call takes time and may fail |
| Accounts (`A/routes/auth.ts`, `A/middleware/auth.ts`) | `users`, nonces in memory | challenge, register, login, me | captcha, user databases, Space keys | several writes, one wait |
| Demo accounts (`A/routes/demo.ts`, `A/db/demoSeeder.ts`) | demo rows of `users` | start, free trial, end, hourly purge | user databases | sessions that outlive a purged account |
| Administration, invitations (`A/routes/admin.ts`, `A/middleware/adminAuth.ts`) | `invitations` | invite, list, delete users, quotas | email, accounts | a wait for the mail server, deletion of users |
| User database cache (`A/db/userDb.ts`) | open handles | get, close | everything | reopening recreates a purged database |
| Document events (`A/lib/documentEvents.ts`) | SSE streams, a throttle per user | subscribe, broadcast | all writers | every change must be announced in the end |
| Server, keepalive (`A/index.ts`) | sockets | upgrade, ping round | relay | dropping the dead and only the dead |
| Storage port, schema, migrations (`packages/core`, `A/db/sqliteStoragePort.ts`) | `schema_version` | migrate | user databases | a stop half-way |
| Cryptography (`packages/crypto`) | a cache of keys | seal, open, prepare a rotation | clients | none beyond Space keys |
| Types, utils, captcha, email, analytics, health, usage, link previews, admin web application | - | pure functions, reads, outside calls | - | none a model would show |

### What makes each component right

* **Space keys.** Members' rows are at the Space's version; everyone who remains can open the newest
  version and walk down to every older one; whoever leaves is rotated out, or the owner is asked to, but for a
  demo account, whose purge asks nobody.
* **Document tree.** No move puts a document under itself or takes one out of its place, a batch is not refused
  for its order, the home stays, and of two changes of one kind the later wins.
* **Content log.** Nothing stored is lost by a write that did not read it; a hash says what is stored;
  whoever is in the room gets what is stored.
* **Attachments.** Counters are what the ledger adds up to, limits hold, a confirmed attachment stays
  and has its object.
* **Accounts.** A nonce is worth one attempt, and no other email's challenges spoil it; one account per email
  and per invitation; every account that ended its registration has a home it owns, wherever others stopped.
* **Demo accounts.** What is purged does not come back, a free trial is never purged early, no session opens
  the database long after its account, and the places under the cap come back.
* **Events and sockets.** Every stored change comes to the notice of every connected device, at most one event
  in a window, and of the sockets those are dropped that are silent, and all of them.
* **Migrations.** However often an open is cut short nothing stored is lost, and only a stop within the
  statements of a rebuild leaves a database that does not open.

The hazards behind each of these are listed line by line in `PROJECT.json`.

## 2. Modules

| Module | Models | Checked by | Proved in |
|---|---|---|---|
| `SpaceKeys` | key rows, owner, version, flag and chain of one Space, and the devices of its members | `MCSpaceKeys` | `SpaceKeysProofs` |
| `SpaceGroup` | abstract: what a Space's keys promise of its members | as `ImplementsGroup` in `MCSpaceKeys` | `SpaceKeysProofs` |
| `ContentLog` | one document's rows, hash and room, and one user's devices | `MCContentLog` | `ContentLogProofs` |
| `ContentStore` | abstract: what the log promises of the content, its version and its hash | as `ImplementsStore` in `MCContentLog` | `ContentLogProofs` |
| `Attachments` | ledger, counters, holds, objects, requests waiting for the bucket, the cleanup job | `MCAttachments` | `AttachmentsProofs` |
| `DocTree` | one user's documents, the offline queues of the devices, the replay | `MCDocTree` | `DocTreeProofs` |
| `SignIn` | the nonces of every email, their bound and their end, logins | `MCSignIn` | `AuthProofs` |
| `Accounts` | registration write by write, invitations, homes, deletion of users | `MCAccounts` | `AuthProofs` |
| `Demo` | demo accounts, their databases and open handles, sessions, sockets, trials, the hourly job | `MCDemo` | `DemoProofs` |
| `Events` | the streams of one user and the throttle of content events | `MCLiveUpdates` | `LiveUpdatesProofs` |
| `Keepalive` | the sockets, their rooms and the ping rounds | `MCLiveUpdates` | `LiveUpdatesProofs` |
| `LiveUpdates` | `Events` and `Keepalive` together, with the writes that feed both | `MCLiveUpdates` | `LiveUpdatesProofs` |
| `Migrations` | opening a user's database: schema, migrations, stops anywhere | `MCMigrations` | `MigrationsProofs` |

Each component module has CONSTANTS with a named ASSUME, one action per handler (or per part of a handler
between two waits), the properties at its end, and, next to the definition each concerns, a few `Mutant`
operators: plausible bugs nothing uses, with which `PROJECT.json` shows that a property can fail.
`PROJECT.json` maps every definition to the lines it models.
A module that another one extends together with a third (`Events`, `Keepalive`, `SignIn`) has its name in
`Init`, `TypeOK` and so on.

### SpaceKeys

`rows`, `owner`, `current`, `pending` and `chain` are the three tables; a sealed key is the key in it, and
a key is named by its version and the device that minted it, so that two devices preparing the same
rotation differ. A device keeps the newest key it was given (`held`) and at most one request (`op`),
prepared from what it had read; a handler leaves the request in place so that it can land again, and
`GiveUp` ends it. `PutKey`, `SyncCreate`, `Rotate`, `Leave` are the handlers with their checks and their
transaction; `Fetch` reads. A create in a structural sync looks for the document in the caller's own database
(`created`, the accounts that have it there), so any account may send one for a Space that exists and gets a row
in `workspace_keys` for the key it seals. `Purge` is what the end of a demo account does here: its rows go, the
owner's too, no flag is raised (`A/routes/demo.ts:183`, `:204`), and `gone` remembers it. A Space begins fresh, or
with rows and no state row: older than that table, or left by a stop between its first key and its owner, with
the creator's document or, where the stop undid the batch, without it.

`knows`, `legacy` and `stale` are history. `stale` counts sealed keys that land after a rotation their
sender did not know: PUT has no version to compare, so such a key is stored under the wrong label (the run
`space_keys_relabel`). `MembersHoldCurrentKey` and `ChainUnbroken` are about states before this happens;
the rest holds always. `DepartedNeedRotation`, `OwnerKeepsKey` and `MembershipStep` leave out who was purged:
of that the code promises nothing.

### ContentLog

A blob is the set of editing operations in it: applying one twice or in another order changes nothing.
A hash is the singleton of the set it was computed of. `Append`, `Replace`, `Stamp` are the guarded REST
writes, with what the device read and holds taken at *any* earlier moment, since the request may have
been under way; `UnguardedPush` is `sync/yjs-push` and an older client's POST; `Hello`, `SocketUpdate`,
`Compact`, `Disconnect` are the relay, with the failures the relay catches and only logs; `Delete`,
`Restore` and `MoveAcross` are what the tree's operations do to the content. The `await`s of these
handlers are on promises already resolved and nothing of another request runs between the read and the
write, which one synchronous transaction holds.

The history flags say which of the unguarded ways were taken: `guarded` falls with the first unguarded REST
write, `relayed` with the first COMPACT or failed replay. The code promises nothing about them, and the
properties say so in their premises.

### Attachments

A row, a counter, a hold in memory, an object, and the requests suspended at their wait for the bucket,
each with what it read before (`req`). On the disk a handler is one step, except the body of a PUT
(`PutStart`, `PutEnd`, `PutFail`); with a bucket presign, confirm and every turn of the cleanup job are
split at their wait, each of which may fail. On the disk a file may be one that cannot be removed: DELETE and
a confirm that found another size then mark the row deleted, and the cleanup job keeps it for its next turn. `Crash`
loses what is in memory; `CrashInConfirm` and `CrashInDelete` stop between a row and its counter, `CrashInUnlink`
between a file and its row. `Reconcile` is the daily job. `GetHosted` gives the
Space its owner while uploads are under way, which changes the account charged.

`unsettled` (accounts whose counter missed a change), `unheld` (accounts charged, at once or by the next
reconcile, for bytes nothing held) and `unlinked` (ids whose DELETE took the file, stopped, and has not been
repeated) are history. `Expire` takes the hold and the upload URL together, as the code gives both one
expiry, and not while a presign of that id waits.

### DocTree

`docs` is the table with its three clocks: of moves, of properties, of status; of a type it keeps whether it is a
Space's. A device queues operations (`MakeDocument`, `MakeChange`) and `SyncStructural` replays its whole queue in
the order the code sorts it, in one transaction that a parent that is nowhere undoes; the answer may be lost, so the
same queue may come again. A create may be of any type, under any document some device made or at the root, and its
time, which the client gives, may be earlier than its parent's: neither the replay nor `POST /` checks a placement. The
requests of an online device are an action each. `EnsureDocument` is content that comes before its document. Each
operation is a function of the table, so a replay is the composition of them over the sorted batch, in a recursive
function. `Sorted` is a sequence of the batch that `First` orders: creates first and a parent's before its children's,
then the rest by time. Where the code's order of creates differs (breadth first, children by id) neither create
depends on the other.

`Subtree` goes down however deep, as the recursive statements do. Under a document that is under itself these never
end (`Endless`): a batch that would meet one (`Hangs`), like one that is refused (`Fails`), is no step.

`astray` records the documents that were *made* out of place, a Space in a document or a page in none; `unguarded`
what no handler checks and was done later: a parent or a type changed by PUT, and a replayed status of the home.
`renamed` is the latest change of properties a row was given.

### The abstract specifications

`SpaceGroup` is a set of members, an owner, a version and a flag: the first key founds the group, nobody joins
before, the owner never leaves, and who else goes does so in a rotation, or leaves the flag up, or is purged.
`SpaceKeys` is shown to implement it with `members <- Members, version <- current, flag <- pending`: late, repeated
and lost requests, devices and chains are all steps of the group or none.

`ContentStore` is a set of operations that only grows, a version that is new with every change, and a hash that
is of the content or absent. `ContentLog` implements it with `content <- Content, version <- Version,
fresh <- nextId`. The two ways of which the code promises nothing, a write that names no version and a COMPACT
frame, are actions of the store too, which lower the flag that says so.

### SignIn

`nonceStore` is the Map of lists. A nonce is its number; a new one goes to the end of a list, so a list is in the
order of the numbers and is the set of its entries, and since all live 30 seconds they expire in that order
(`expired`). `Challenge` does what the handler does, `cleanupNonces` over all emails and then
`addNonce`; `Login` looks the account up first, then spends the nonce, then verifies the signature, whose
outcome is the parameter `right`. Any nonce ever issued may come in any number of logins. A restart empties the
store.

### Accounts

Registration waits for its captcha before it reads anything; from there to the end nothing else runs, so the
checks and the writes are one action. The writes are in two databases without a transaction: `Register` does
the first `n` of `Writes`, and anything short of all of them is a stop. The client names its first Space; if that
has an owner already (a registration sent again after its account was deleted), `recordSpaceOwner` leaves it as it
is, and the account is in `shared`. `PendingFor` is the row SQLite returns
for a query without an order, the oldest that matches. `InviteAnswered` and `InviteUnanswerable` are the two
ends of the wait for the mail server; in the second the row is gone and the process stops (Express 4 does not
catch what an async handler throws).

An account's Spaces are its own (`"key"`, `"owner"`, `"doc"` are the three writes that make it) and any other
(`"other"`). `Resolve` and `Enter` are `resolvePrimaryWorkspaceId`, which every sign-in calls and which settles
a home for an account without one.

### Demo

A database is `"demo"` when it holds what the account was seeded with, `"part"` when some, `"fresh"` when
opening it made it. `cache` is the same seen through the open handle, which on Linux outlives its file: this is
why a purge that removed files and left the handle open would show. `Open` is `getUserDb`, which asks for no
row; it is called by every request with a valid token and by every frame of a socket that once said HELLO.
`late` records an opening after a purge, `stranded` a stop between a row and its files. The lengths of a demo and of a
trial are two settings with no relation between them; `Overrun` is how far a session may outlast its account for it.

### Events, Keepalive, LiveUpdates

`Events` keeps what `pendingContent` keeps for one user: the ids, the timer, the time since the last event. Time
is counted up to the window and a timer may fire late. `Keepalive` keeps `wss.clients`, `wsAlive` and rooms;
`terminate` and its close handler are two steps. `LiveUpdates` takes both with `EXTENDS`, adds the writes, and
in `unheard` the documents stored since a device's stream opened that it has heard of neither way.

### Migrations

`documents` and `documents_new` with the columns a migration added, the types the CHECK admits and the rows;
`pc` is where the executor is. The columns are one transaction (`AddColumns`); a rebuild is `Begin`, `Create`,
`Copy`, `Drop`, `Rename`, `Record`, each of which commits. `Stop` may come after any of them, and the next
process may be a newer release, with more migrations. After a stop between `Drop` and `Rename` the schema makes
an empty `documents` before the migrations run.

## 3. Runs

Deadlock is checked except where the bound on versions, time, nonces or stored bytes ends every behaviour.

| Run | Instance | States | Shows |
|---|---|---|---|
| `space_keys` | owner with 2 devices, 1 other account with a device, 3 versions, 1 stale request, both accounts a demo's | 4.3 M | labels, flag, ownership and chain, under delayed, repeated and lost requests and purges; implements `SpaceGroup` |
| `content_log` | 2 devices, 2 operations, 3 rows | 437 k | a version is one content; hashes describe content; the room is up to date; implements `ContentStore` |
| `attachments` | 2 uploads, 2 accounts, limit 2, 1 request, disk and bucket | 3.3 M | counters match the ledger; promised bytes fit; on the disk a confirmed attachment has its file; with files that cannot be removed and stops |
| `attachments_overlap` | 1 upload, 2 requests | 111 k | what may take a confirmed attachment away when requests overlap |
| `doc_tree` | 2 devices, home and 2 documents, 3 moments, 2 queued operations each | 1.1 M | tree, batches in any order of times, home, renames, clocks, through late and repeated replays |
| `sign_in` | 2 emails, lists of 2, 5 nonces | 983 k | a nonce is worth one attempt; a prompt answer counts, whatever others ask for |
| `accounts` | 2 emails, 2 accounts, 3 invitations, with and without invitations required | 3.4 M | one account per email and invitation; homes are whole, with registrations cut anywhere |
| `demo` | 3 accounts, room for 2, 2 units in an hour, 3 units of time | 614 k | purged is gone, trials survive, sessions end, room comes back |
| `live_updates` | 2 devices, 2 documents, a window of 2 | 90 k | every stored change is heard of; the throttle holds; the silent are dropped, and only they |
| `migrations` | 2 documents, releases 1 to 9 | 190 k | nothing is lost; only a stop within a rebuild sticks |

Two runs with the same instances end in a state that a comment or a test of the repository says there is
none of; `PROJECT.json` quotes each under `findings`:

| Run | The repository says | What happens |
|---|---|---|
| `space_keys_relabel` | a row's key is at the Space's version (`A/db/registry.ts:89`) | a PUT prepared before a rotation lands after it and is labelled anew |
| `attachments_object` | a confirmed attachment has its object (`A/__tests__/attachmentsInvariants.test.ts:12`) | the cleanup job deletes the object of an upload that is confirmed, late or started again, while it waits for the bucket |

### Why the bounds are enough

* `MaxVersion = 3` has two rotations, so a chain of two entries, a request prepared two versions ago, and a
  rotation prepared from version 1 landing at version 2. Two devices of one account are needed for a race
  of rotations, one other member for departures; more users repeat the same cases. `MaxStale = 1` lets one
  sealed key land late, after which two properties say nothing and the others are still checked. `MCBound` is a bound
  too: of the owner's second device and the other account's only one is ever given a key, since what the two do to
  each other goes through the server's rows; and no stale key lands in a behaviour in which an account is purged.
* `MaxId = 3` stores, replaces and stores again after a deletion; two devices and two operations are the
  fewest for a write that has not seen another.
* Sizes 1 and 2 under a limit of 2 make two uploads that fit alone and not together, and an upload measured
  at another size than declared. `MaxUsed` bounds what over-limit confirms add up to; `Requests` bounds the
  requests that wait at once: one together with the cleanup job, then two.
* `MaxTs = 3` has two queued operations and a live one, or one device's two and another's. Two documents beside the
  home are the fewest that can be moved under each other. `WalkLimit = 3` is the number of ids, as 50 is meant to be
  past the depth of a tree; what a shorter walk misses is said below.
* `MaxNonces = 2` with 5 nonces fills the list of one email, pushes nonces out of it and still leaves some for the
  other email; 10 in the code is the same list with more room.
* Two accounts and two emails are the fewest for one email to be wanted twice and one token to be used twice;
  three invitations let one elapse, one be deleted and one be accepted, two of them for one email.
* In `demo` an hour is 2 units, so that a session rounded up to it outlives its account, and with demo and trial
  of 1 hour and 3 units of time both end within the bound. Three ids under a cap of two come to fill a place
  that another left.
* `Window = 2` has a moment within the window that is neither end of it. Two sockets and two rooms let one device
  be in the room of a change and the other not, or vanish from it.
* Two documents are a parent and its child (what migration 6 tells apart). Release 1 is the oldest that may have
  made the database, so that every rebuild runs over stored rows and content.
* Symmetry is used where nothing names a member of the set, and only with safety properties.

### Fairness

Only what the process does by itself is assumed to go on, each under weak fairness:

| Where | Fair | Why |
|---|---|---|
| `Demo` | `Cleanup` | `scheduleDemoCleanup` runs the job at start and then every hour; an expired row stays expired until the job or a trial, so it stays enabled |
| `LiveUpdates` | `TimePasses`, `TimerFires` | the clock, and a `setTimeout` that is due and cancelled by nothing; how late it fires is left open |
| `LiveUpdates` | `PingTimer` | a `setInterval` of 30 s that only the end of the process stops |
| `LiveUpdates` | `CloseHandler(c)` | `ws` emits `close` for a socket it terminated |

No request, client, answer or restart is assumed to happen, and a process may restart again and again. Under
this, `ExpiredIsPurged`, `StoredIsHeard` and `VanishedLeave` are liveness properties; `StoredIsHeard` takes a
stream that ends, or a process that stops, as the end of what it owes, since a client that connects asks for
all that changed.

## 4. Proofs

Every invariant and every action property that a passing run checks is a theorem about its specification, for all
values of the constants that satisfy the named assumption of the module; so are the two refinements. Each
follows from an inductive invariant (`IInv`; `SignInInv` for `SignIn`), with a lemma for each action, or for each
group of actions that changes the same part of the state. The assumptions say that the parameters are of their
kinds, that "none" is no value, and, for `Attachments`, that the set of attachment ids is finite, without which a
sum of their bytes means nothing. The bounds that TLC needs, on time, requests, queues or versions, are any
numbers here.

**SpaceKeys.** The properties are not inductive: that a rotation leaves every member with the current key
depends on what keys devices hold and requests carry. `IInv` adds

* `VersionsBounded`: no key anyone holds or was given is newer than the Space's version;
* `RequestsOK`: a put names a key its device held, a rotation a key one version above the one it replaces;
* `UntouchedBeforeOwner`: until a fresh Space has an owner, only the creator's device has a key or asks;
* `SealsAreCurrent`: while nothing stale has landed, every reading or request labelled with the current
  version has the current key.

A lemma per action shows that it preserves `IInv` (`UpsertInv` is shared by the three ways a row is
written). From there follow `TypeCorrect`, `RowsAtCurrentVersion`, `OwnerNeverLockedOut`,
`DepartureIsFlagged`, `MembersCanOpenCurrent`, `NoVersionLost` and, for steps, `RotationsOnlyShrink`.

**ContentLog.** `IInv` adds that some row is the newest (`LogOrdered`), that readings are older than the
next row and empty at version 0 (`ReadsBounded`), and that what a device has not sent its own copy has
(`UnsentLocal`). `Inserted` shows that any write makes the log's version the id just taken, `InsertedLog`
that every earlier reading is then stale, and the actions that write share both. From there follow
`VersionsIdentifyContent`, `HashesDescribeContent`, `RoomsUpToDate` and, for steps,
`NothingStoredIsLost`.

**Refinement.** `SpaceKeysProofs` proves `KeysImplementGroup`, `Spec => ImplementsGroup`: one lemma per action
that writes rows shows the step of the group it is (a join, a founding, a departure, a rotation), and that the
owner is a member comes from `IInv`. `ContentLogProofs` proves `LogImplementsStore`, `Spec => ImplementsStore`:
a guarded append grows the store since the version the device read is still the log's or its blob is added, a
guarded replacement since what it read is all there is, both from `IInv`. The properties `MembershipSteps` and
`NoStoredOpLost`, which the refinements contain, keep their theorems.

**Attachments.** What counts here is a sum over a ledger, and the sum of the model is a fold. `Sums` characterises
a fold over a finite set as a function on its subsets; that it exists, does not depend on the order in which
elements are taken, and changes by the difference of one element's weight when one weight changes, is proved
first, each by a smallest subset for which it would fail. `IInv` is `Shape` (types, and what a row, a waiting
request and the absence of a bucket imply of each other), `Balances` and `ConfirmedHasFile`. `Balances` is the
strengthening: for each account, the counter is the ledger unless a change was missed, and an account whose
promises were kept has nothing in its ledger that its counter has not, *even then*. Without this last part
`RoomKept` is not inductive, for a reconcile raises a counter to the ledger. From there follow `TypeCorrect`,
`CountersMatchLedger`, `PromisesFitLimit`, `LocalFilesKept` and, for steps, `ConfirmedIsFinal`.

**DocTree.** `TreeOK` is not inductive: a move keeps it because of where the walk up from the new parent ends, and a
replay because of how its queue can be sorted. `IInv` is `TypeOK`, `Queues`, `Known`, `Rooted` (a parent is there, and a
row that is not there has none), `Treed` and `HomeSafe`. `Treed` says, while no PUT has changed a parent or a type:
the home is a Space at the root; what was not made out of place is in its place (`Placed`); and, when a walk up can miss
nothing (`Level`: no Space was made in a document, or no walk is too short for all the documents), of any documents one
has its parent elsewhere (`NoneUnderItself`). `checkMove` keeps this: it lets a move through only when the walk
up from the new parent reaches a Space without passing the document. Where Spaces are at the root that Space is the
top of the tree, whatever the limit (`Climb`), so the limit of 50 may refuse a move that is right and never admits
one that is wrong; where one is in a document, the walk must have been long enough to pass all of them.

`Queues` says that what a device has queued can be sorted (`Orderly`): it is finite, changes have times of
their own, and the creates, whatever their times, can be ranked so that a parent's is before its children's, since a
device makes a document in one that was made before. From it `Order` shows that the sorted batch exists, and `Replayed`
that the recursion over it computes what it says; `ReplayLater`, `ReplayTree` and `ReplayRow` carry what one operation
keeps through a batch of any length. A create in the batch comes after its parent's, so the batch is refused only for a
parent that is neither there nor in it, which is the last clause of `TreeOK`. `ReplayRow` says what a batch makes of a
row's properties, the latest of what it had, its create and its renames in it, which with `Known` gives
`RenamesKept`. The other theorems are `TypeCorrect`, `TreeKept`, `HomeStays` (a document above the home would have
to be the parent of a Space at the root) and, for steps, `LaterMovesStand`.

**Accounts and SignIn** (`AuthProofs`). For `Accounts`, `Written` is added: no invitation is there before it was made, and
no account has the key of its own Space without the document, which is why a home settled on after a
registration cut short opens. For `SignIn`, `Lists` says that a list holds nonces of its own email, each once, and
that exactly the tried ones are consumed; `Listed`, that a live nonce is in its list until `MaxNonces` newer ones
were issued to its email, which compares two cardinalities: the newer entries of a list are among the nonces
issued since. From there follow `OneAccountPerInvitation`, `HomeOpens`, `NonceIsSpentOnce` and
`PromptAnswerIsAccepted`, and that no list outgrows its bound.

**Demo.** `Fresh` says that an id not used yet has neither socket nor session, that an account ends within a demo's
length, or a trial's, of now, and that before a trial no session outlasts it, so that what a trial may take from it is
within `Overrun`; `Capped`, that the set of accounts is finite and within the cap.
Every way of purging is one lemma (`Purged`). From there follow `PurgeIsFinal`, `SessionsEnd` and, for steps,
`TrialIsKept`.

**Migrations.** `Tabled` says which columns and types a table of each version has, `Whole` in which of the two tables
the documents are at each statement of a rebuild, `At` how far the executor can be given what is there. A
database left stuck by a stop has a fresh `documents` and a copy with every row: this state has to be described for
`NothingIsLost` and `OpensUnlessCut` to be inductive, since the server goes on trying to open it.

**Events and sockets** (`LiveUpdatesProofs`). `Scheduled` says that a timer's rest and the time since the last event add
up to the window, from which a late timer cannot send early; `Asked`, that a socket which has not answered in this
round was asked in an earlier one. From there follow `EventsApart`, `OnlyTheSilent` and `NothingForgotten`: what a
device has not heard of is among what waits, and what waits has a timer. This is the safety half of `StoredIsHeard`.

**Out of the prover's reach** and left to TLC: liveness and ENABLED, so `ExpiredIsPurged`, `StoredIsHeard` and
`VanishedLeave`. The library's induction theorems take an operator and cannot be used; where an
induction over numbers, subsets or a batch was needed, the proof takes a smallest counterexample (`SmallestNumber`,
`SmallestSubset`), which exists because the natural numbers and the subsets of a finite set are well founded.

## 5. What is left out

* Formats, encryption, HTTP codes and texts, logging, rate limits; the order of siblings and position
  strings; what properties say.
* Storage errors, but where the code catches them and goes on (the relay, the object store).
* An account that was never measured counts as 0 bytes used: `attachmentsUsed` measures it by the
  reconcile first, and with no row the ledger sums to 0.
* Uploads of no bytes, and accounts that are deleted, in `Attachments`; a Space whose owner's account is
  gone.
* In `DocTree`: a status carried by a create, and clocks of devices that disagree: the clocks of a model's devices
  and server agree, and a delayed request carries an earlier time.
* In `ContentLog` and `LiveUpdates`: rooms are by document name for all users of the process, storage and events
  are per user; the models have one user.
* In `Accounts`: a wait for the captcha is no action of its own, as nothing is read before it; a quota changed by
  an administrator; demo rows, which have their own module.
* In `Demo`: the keys of a demo account (their purge is in `SpaceKeys`), its uploads, rate limits.
* In `LiveUpdates`: `tree-changed`, `key-rotated` and `rotation-pending`, which are sent at once and kept nowhere.
* In `Migrations`: the registry's columns, added one by one if missing at every start; what a local backend does
  with the same list.
* Not modelled at all: position strings and the compaction threshold (pure functions), captcha, email, analytics,
  health, usage and link previews (reads and outside calls), the administration web application (a view over the
  routes).

### Seen while modelling, and not part of a run

* A replayed status may tombstone the home; a move does not ask whether the new parent is in the trash or deleted;
  a PUT may put a Space under a parent, make it a page, or make a cycle. A delete, a trash or an untrash above such
  a cycle does not end, as the statements over a subtree are recursive without removing repetitions (`UNION ALL`).
* A create may put a Space in a document. The walk of a later move ends at a Space, or after 50 steps, and misses what
  is above; with a tree deeper than the walk (`WalkLimit = 1` in the model is enough) a document can then be
  moved under itself. `TreeOK` says which of the two conditions rules this out.
* A sync create by any account, for the id of a Space that exists, gives that account a row in `workspace_keys`
  (`A/routes/documents.ts:355`, `:393`): who left before its database had the document is a member again, with the
  key it held, until the owner's next rotation.
* The purge of a demo owner removes the last rows that could open its Spaces, raises no flag, and where nobody else
  was a member lets the first PUT found the Space's keys again, under the owner recorded before.
* A stop within a DELETE on the disk, between the file and its row, leaves a confirmed attachment, still charged,
  without its file until it is deleted again (`A/routes/attachments.ts:323`).
* A replayed delete is compared with the clock of moves and not of status (`A/routes/documents.ts:414`), so it
  overrides a newer trash or archive, against `packages/types/src/index.ts:164-165`.
* A create that follows its content counts as repeated (`A/routes/documents.ts:363`) and its parent, properties
  and position are dropped; the page stays outside every Space until it is moved.
* A deletion removes a document's rows and keeps its hash (`A/db/database.ts:199`): after a restore, the check at
  sign-in passes over a document whose content is gone.
* A confirm does not ask whether its bytes are still held (`A/routes/attachments.ts:239`): two uploads whose holds
  lapsed are both charged, past the limit. With two confirms of one attachment on a bucket, one that measured an
  earlier upload marks the other's confirmed row deleted without giving its bytes back (`:235`), until the
  reconcile job does.
* A DELETE during a PUT takes the partial file, and `renameSync` at the end of the PUT throws in a callback
  (`A/routes/attachments.ts:198`; the action `PutThrows`).
* An invitation deleted while its mail is under way stops the process (`A/routes/admin.ts:355`). An elapsed
  invitation that is older than a pending one hides it from the check for a second (`:326`).
* DELETE of a user (`A/routes/admin.ts:198`) leaves the database, the keys and the objects, where the
  administration page asks to confirm that it "will permanently remove the account and all their data"; their
  tokens go on opening the database until they end.
* A registration cut before its home is recorded may, at a later sign-in, take another's Space that it was
  given as its home, for good.
* `sync/yjs-push` stores without announcing (`A/routes/documents.ts:779`), where `A/lib/documentEvents.ts:5` says
  `content-changed` tells that content was stored.
* A stop between the CREATE and the RENAME of a rebuild leaves `documents_new`, on which every later open fails:
  the owner is answered 401 for good, with all data still on the disk (`OnlyCutsStick`, `NothingLost`).

## 6. Plan

Done: the modules above, in the order of how much depends on them: keys, content, attachments, tree; then
accounts, demo accounts, events and sockets, migrations; then the two abstract specifications with their
refinements; then the proofs of all safety properties that the runs check.
Next, in this order:

1. An abstract specification of `Attachments` (an account's balance: promised, charged, given back) and of `DocTree`
   (of two changes of one kind the later stands), each with its refinement checked and proved.
2. Composition: a Space's rotation with the writes that name its version, its owner with the account an
   upload is charged to, and the deletion of an account with its attachments and keys.
3. Devices whose clocks disagree with the server's, in `DocTree`.
