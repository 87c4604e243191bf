---------------------------- MODULE Attachments -----------------------------
(***************************************************************************)
(* The attachment ledger, the usage counters, the bytes held for uploads   *)
(* in flight and the stored objects (routes/attachments.ts, lib/quota.ts,  *)
(* lib/attachments.ts), with the objects on the node's disk or in a        *)
(* bucket.  With a bucket, presign, confirm and the cleanup job each wait  *)
(* for it once, holding what they read before; on the disk they run to     *)
(* their end, and only the body of an upload takes time.                   *)
(***************************************************************************)
EXTENDS Naturals, FiniteSetsExt

CONSTANTS
    Accounts,
    Ids,         \* attachment ids
    UploaderOf,  \* the account that uploads each
    Host,        \* the account that owns the Space, once the Space has an owner
    Limit,       \* each account's quota in bytes, NoLimit when it has none
    Requests,    \* bound: requests waiting for the bucket at once
    Sizes,       \* the sizes an upload of each may declare
    MaxUsed,     \* bound: nothing is confirmed that takes a counter, or a ledger, beyond it
    NoLimit, NoId, NoAccount

ASSUME AttachmentsAssumption ==
    /\ IsFiniteSet(Ids)
    /\ UploaderOf \in [Ids -> Accounts]
    /\ Host \in Accounts
    /\ Limit \in [Accounts -> Nat \cup {NoLimit}]
    /\ Sizes \in [Ids -> SUBSET (Nat \ {0})] /\ MaxUsed \in Nat
    /\ NoLimit \notin Nat /\ NoId \notin Ids /\ NoAccount \notin Accounts

VARIABLES
    bucket,    \* whether an object store is configured
    hosted,    \* whether the Space has a recorded owner
    row,       \* the attachments table
    used,      \* usage.used_bytes, 0 for an account never measured
    hold,      \* the bytes promised to each id, in memory
    object,    \* the size of each stored object, 0 when there is none
    writing,   \* local PUTs under way: the size declared, and whether the partial file is there
    urls,      \* the sizes of the upload URLs given out for each id and not expired
    req,       \* the requests waiting for the bucket, with what they read
    sweep,     \* the rows the cleanup job has listed and not come to
    removing,  \* the one whose object it is waiting for the bucket to delete
    unsettled, \* history: accounts whose counter missed a change, not reconciled since
    unheld,    \* history: accounts charged, at once or by the next reconcile, for
               \* bytes nothing was holding for them
    unlinked   \* history: ids whose DELETE stopped with the file gone and the row there,
               \* until one is done

ledger == <<row, used, hold>>
disk == <<object, writing>>
job == <<sweep, removing>>
history == <<unsettled, unheld, unlinked>>
vars == <<bucket, hosted, ledger, disk, urls, req, job, history>>

NoRow == [status |-> "none", owner |-> NoAccount, expected |-> 0, size |-> 0]
NoHold == [user |-> NoAccount, bytes |-> 0]
NoPut == [size |-> 0, part |-> FALSE]
NoReq == [t |-> "idle", id |-> NoId, existed |-> FALSE, size |-> 0, owner |-> NoAccount, stored |-> 0]

Pending(i) == row[i].status = "pending"
Confirmed(i) == row[i].status = "confirmed"

(* chargedAccount: the Space's owner, whoever uploads.                     *)
Charged(i) == IF hosted THEN Host ELSE UploaderOf[i]

(* What each id holds of an account's room, and takes of it once confirmed. *)
HeldFor(a) == [i \in Ids |-> IF hold[i].user = a THEN hold[i].bytes ELSE 0]
CountedFor(a) == [i \in Ids |-> IF Confirmed(i) /\ row[i].owner = a THEN row[i].size ELSE 0]

ReservedFor(a) == SumFunction(HeldFor(a))
LedgerSum(a) == SumFunction(CountedFor(a))

Init ==
    /\ bucket \in BOOLEAN /\ hosted \in BOOLEAN
    /\ row = [i \in Ids |-> NoRow]
    /\ used = [a \in Accounts |-> 0]
    /\ hold = [i \in Ids |-> NoHold]
    /\ object = [i \in Ids |-> 0]
    /\ writing = [i \in Ids |-> NoPut]
    /\ urls = [i \in Ids |-> {}]
    /\ req = [r \in Requests |-> NoReq]
    /\ sweep = {} /\ removing = NoId
    /\ unsettled = {} /\ unheld = {} /\ unlinked = {}
-----------------------------------------------------------------------------
(* The ledger (lib/quota.ts).                                              *)

(* Mutant: what other uploads hold is not counted.                         *)
FitsAlone(a, i, bytes) == Limit[a] # NoLimit => used[a] + bytes <= Limit[a]

(* tryReserve: the id's own earlier hold is replaced, so does not count.   *)
Fits(a, i, bytes) ==
    Limit[a] # NoLimit =>
        used[a] + (ReservedFor(a) - IF hold[i].user = a THEN hold[i].bytes ELSE 0) + bytes
            <= Limit[a]

Reserve(a, i, bytes) ==
    /\ Fits(a, i, bytes)
    /\ hold' = IF Limit[a] = NoLimit THEN hold
               ELSE [hold EXCEPT ![i] = [user |-> a, bytes |-> bytes]]

Release(S) == hold' = [i \in Ids |-> IF i \in S THEN NoHold ELSE hold[i]]

(* The clamped subtraction of addUsedBytes.                                *)
GiveBack(i) ==
    used' = IF ~Confirmed(i) THEN used
            ELSE [used EXCEPT ![row[i].owner] = IF @ > row[i].size THEN @ - row[i].size ELSE 0]

(* Mutant: charged whether or not the row was still pending.               *)
ChargeTwice(i, owner, size) ==
    /\ row' = IF Pending(i) THEN [row EXCEPT ![i].status = "confirmed", ![i].size = size] ELSE row
    /\ used' = [used EXCEPT ![owner] = @ + size]
    /\ UNCHANGED history

InBound(S, size) == \A a \in S : used[a] + size <= MaxUsed /\ LedgerSum(a) + size <= MaxUsed

Holds(i, a, size) == hold[i].user = a /\ hold[i].bytes >= size

(* confirmAttachment: the row only if it is pending still, the account the *)
(* request read before it waited.                                          *)
ConfirmAttachment(i, owner, size) ==
    IF ~Pending(i) THEN UNCHANGED <<row, used, history>>
    ELSE /\ InBound({owner, row[i].owner}, size)
         /\ row' = [row EXCEPT ![i].status = "confirmed", ![i].size = size]
         /\ used' = [used EXCEPT ![owner] = @ + size]
         /\ unsettled' = IF row[i].owner = owner THEN unsettled
                         ELSE unsettled \cup {owner, row[i].owner}
         /\ unheld' = unheld \cup {a \in {owner, row[i].owner} :
                                      Limit[a] # NoLimit /\ ~(a = owner /\ Holds(i, a, size))}
         /\ UNCHANGED unlinked

(* forgetAttachment and retireAttachment.                                  *)
Forget(i) == row' = [row EXCEPT ![i] = NoRow] /\ GiveBack(i)
Retire(i) == row' = [row EXCEPT ![i].status = "deleted"] /\ GiveBack(i)

(* Mutant: the row is made pending again whatever it is.                   *)
RefreshAny(i, owner, size) ==
    row' = [row EXCEPT ![i] = [status |-> "pending", owner |-> owner, expected |-> size,
                               size |-> 0]]

(* refreshPendingAttachment leaves a confirmed row alone; no row, no effect. *)
Refresh(i, owner, size) ==
    row' = IF row[i].status \in {"pending", "deleted"}
           THEN [row EXCEPT ![i] = [status |-> "pending", owner |-> owner, expected |-> size,
                                    size |-> 0]]
           ELSE row
-----------------------------------------------------------------------------
(* Presign.                                                                *)

(* POST /presign up to the reservation, and on the disk to its end.        *)
Presign(r, i, size) ==
    LET owner == Charged(i)
    IN  /\ req[r] = NoReq
        /\ ~Confirmed(i)
        /\ Reserve(owner, i, size)
        /\ IF bucket
           THEN /\ req' = [req EXCEPT ![r] = [t |-> "presign", id |-> i, size |-> size, stored |-> 0,
                                              owner |-> owner, existed |-> row[i] # NoRow]]
                /\ UNCHANGED <<row, urls>>
           ELSE /\ row' = [row EXCEPT ![i] = [status |-> "pending", owner |-> owner,
                                              expected |-> size, size |-> 0]]
                /\ urls' = [urls EXCEPT ![i] = {size}]
                /\ req' = req
        /\ UNCHANGED <<bucket, hosted, used, disk, job, history>>

(* The URL is signed: the row read before the wait decides what is written, *)
(* and a second row for one id is an error that leaves the hold in place.  *)
PresignSigned(r) ==
    LET q == req[r]
    IN  /\ q.t = "presign"
        /\ req' = [req EXCEPT ![r] = NoReq]
        /\ IF q.existed
           THEN Refresh(q.id, q.owner, q.size) /\ urls' = [urls EXCEPT ![q.id] = @ \cup {q.size}]
           ELSE IF row[q.id] = NoRow
           THEN /\ row' = [row EXCEPT ![q.id] = [status |-> "pending", owner |-> q.owner,
                                                 expected |-> q.size, size |-> 0]]
                /\ urls' = [urls EXCEPT ![q.id] = @ \cup {q.size}]
           ELSE UNCHANGED <<row, urls>>
        /\ UNCHANGED <<bucket, hosted, used, hold, disk, job, history>>

(* Signing fails: the bytes are released.                                  *)
PresignFailed(r) ==
    /\ req[r].t = "presign"
    /\ req' = [req EXCEPT ![r] = NoReq]
    /\ Release({req[r].id})
    /\ UNCHANGED <<bucket, hosted, row, used, disk, urls, job, history>>
-----------------------------------------------------------------------------
(* Upload.                                                                 *)

(* A PUT straight to the bucket, of the size its URL was signed for.       *)
PutObject(i, size) ==
    /\ bucket
    /\ size \in urls[i]
    /\ object' = [object EXCEPT ![i] = size]
    /\ UNCHANGED <<bucket, hosted, ledger, writing, urls, req, job, history>>

(* PUT /content, until its body starts to arrive.                          *)
PutStart(i) ==
    /\ ~bucket
    /\ Pending(i) /\ urls[i] # {}
    /\ writing[i] = NoPut
    /\ writing' = [writing EXCEPT ![i] = [size |-> row[i].expected, part |-> TRUE]]
    /\ UNCHANGED <<bucket, hosted, ledger, object, urls, req, job, history>>

(* The whole body, or less of it when its length was not declared, is      *)
(* renamed onto the final name.                                            *)
PutEnd(i, size) ==
    /\ writing[i] # NoPut /\ writing[i].part
    /\ size <= writing[i].size
    /\ object' = [object EXCEPT ![i] = size]
    /\ writing' = [writing EXCEPT ![i] = NoPut]
    /\ UNCHANGED <<bucket, hosted, ledger, urls, req, job, history>>

(* The body breaks off or is too long: the partial file is removed.        *)
PutFail(i) ==
    /\ writing[i] # NoPut
    /\ writing' = [writing EXCEPT ![i] = NoPut]
    /\ UNCHANGED <<bucket, hosted, ledger, object, urls, req, job, history>>
-----------------------------------------------------------------------------
(* Confirm.                                                                *)

(* removeObject on the disk: the file and the partial one, unless the PUT  *)
(* has not created that yet. Of those it is stuck on, the first unlink     *)
(* fails, or only the second.                                              *)
RemoveFiles(S, stuck) ==
    /\ \E kept \in SUBSET stuck :
          object' = [i \in Ids |-> IF i \in S \ kept THEN 0 ELSE object[i]]
    /\ \E unopened \in SUBSET {i \in S : writing[i].part} :
          writing' = [i \in Ids |-> IF i \in S \ (stuck \cup unopened)
                                    THEN [writing[i] EXCEPT !.part = FALSE] ELSE writing[i]]

(* Mutant: the declared size is believed.                                  *)
SettleUnmeasured(i, owner, expected, stored) ==
    ConfirmAttachment(i, owner, expected) /\ Release({i}) /\ UNCHANGED disk

(* What is done with the measured size: nothing, a refusal, or the charge. *)
Settle(i, owner, expected, stored) ==
    IF stored = 0 THEN UNCHANGED <<ledger, disk, history>>
    ELSE IF stored = expected
    THEN ConfirmAttachment(i, owner, stored) /\ Release({i}) /\ UNCHANGED disk
    ELSE /\ Release({i})
         /\ \/ ~bucket /\ RemoveFiles({i}, {}) /\ Forget(i) /\ UNCHANGED history
            \/ /\ IF bucket THEN UNCHANGED disk ELSE RemoveFiles({i}, {i})
               /\ row' = IF row[i] = NoRow THEN row ELSE [row EXCEPT ![i].status = "deleted"]
               /\ unsettled' = IF Confirmed(i) THEN unsettled \cup {row[i].owner} ELSE unsettled
               /\ UNCHANGED <<used, unheld, unlinked>>

(* POST /confirm on the disk.                                              *)
ConfirmLocal(i) ==
    /\ ~bucket
    /\ Pending(i)
    /\ Settle(i, row[i].owner, row[i].expected, object[i])
    /\ UNCHANGED <<bucket, hosted, urls, req, job>>

(* POST /confirm with a bucket: it reads the row and asks for the size...  *)
ConfirmAsk(r, i) ==
    /\ bucket
    /\ req[r] = NoReq
    /\ Pending(i)
    /\ req' = [req EXCEPT ![r] = [t |-> "asked", id |-> i, existed |-> TRUE, stored |-> 0,
                                  size |-> row[i].expected, owner |-> row[i].owner]]
    /\ UNCHANGED <<bucket, hosted, ledger, disk, urls, job, history>>

(* ... the bucket measures the object...                                   *)
Head(r) ==
    /\ req[r].t = "asked"
    /\ req' = [req EXCEPT ![r].t = "headed", ![r].stored = object[req[r].id]]
    /\ UNCHANGED <<bucket, hosted, ledger, disk, urls, job, history>>

(* ... and the answer arrives, or an error does.                           *)
ConfirmEnd(r) ==
    LET q == req[r]
    IN  /\ q.t = "headed"
        /\ Settle(q.id, q.owner, q.size, q.stored)
        /\ req' = [req EXCEPT ![r] = NoReq]
        /\ UNCHANGED <<bucket, hosted, urls, job>>

ConfirmFailed(r) ==
    /\ req[r].t \in {"asked", "headed"}
    /\ req' = [req EXCEPT ![r] = NoReq]
    /\ UNCHANGED <<bucket, hosted, ledger, disk, urls, job, history>>
-----------------------------------------------------------------------------
(* Deletion and the cleanup job.                                           *)

(* DELETE /:id, by the uploader or the owner of the Space: a row whose     *)
(* object the process cannot remove, as a bucket's, is left to the job.    *)
Delete(i) ==
    /\ row[i].status \in {"pending", "confirmed"}
    /\ Release({i})
    /\ \/ ~bucket /\ RemoveFiles({i}, {}) /\ Forget(i)
       \/ (IF bucket THEN UNCHANGED disk ELSE RemoveFiles({i}, {i})) /\ Retire(i)
    /\ unlinked' = unlinked \ {i}
    /\ UNCHANGED <<bucket, hosted, urls, req, job, unsettled, unheld>>

(* What a run lists: the rows marked deleted, and those still pending an   *)
(* hour after their presign, whose URLs have long expired.                 *)
Listed ==
    {S \cup {i \in Ids : row[i].status = "deleted"} :
        S \in SUBSET {i \in Ids : Pending(i) /\ urls[i] = {}}}

(* On the disk the job does not wait between listing and dropping a row; a *)
(* row whose files it is stuck on stays for its next run.                  *)
CleanLocal ==
    /\ ~bucket
    /\ \E S \in Listed \ {{}} : \E stuck \in SUBSET S :
          /\ RemoveFiles(S, stuck)
          /\ row' = [i \in Ids |-> IF i \in S \ stuck THEN NoRow ELSE row[i]]
          /\ used' = [a \in Accounts |->
                         LET back == SumFunctionOnSet(CountedFor(a), S \ stuck)
                         IN  IF used[a] > back THEN used[a] - back ELSE 0]
          /\ Release(S \ stuck)
    /\ UNCHANGED <<bucket, hosted, urls, req, job, history>>

CleanStart ==
    /\ bucket /\ sweep = {} /\ removing = NoId
    /\ sweep' \in Listed \ {{}}
    /\ UNCHANGED <<bucket, hosted, ledger, disk, urls, req, removing, history>>

(* The bucket deletes the next one's object, ...                           *)
CleanObject(i) ==
    /\ removing = NoId /\ i \in sweep
    /\ sweep' = sweep \ {i}
    /\ removing' = i
    /\ object' = [object EXCEPT ![i] = 0]
    /\ UNCHANGED <<bucket, hosted, ledger, writing, urls, req, history>>

(* ... or the call fails, before the deletion or after it: the row stays.  *)
CleanFailed(i) ==
    /\ IF removing = NoId THEN i \in sweep /\ sweep' = sweep \ {i} ELSE i = removing /\ sweep' = sweep
    /\ removing' = NoId
    /\ UNCHANGED <<bucket, hosted, ledger, disk, urls, req, history>>

(* Its row goes, whatever it has become since it was listed.               *)
CleanRow ==
    /\ removing # NoId
    /\ Forget(removing)
    /\ Release({removing})
    /\ removing' = NoId
    /\ UNCHANGED <<bucket, hosted, disk, urls, req, sweep, history>>
-----------------------------------------------------------------------------
(* Time, crashes and the rest of the server.                               *)

(* A quarter of an hour after its presign, which itself takes far less.    *)
Expire(i) ==
    /\ hold[i] # NoHold \/ urls[i] # {}
    /\ \A r \in Requests : req[r].t = "presign" => req[r].id # i
    /\ hold' = [hold EXCEPT ![i] = NoHold]
    /\ urls' = [urls EXCEPT ![i] = {}]
    /\ UNCHANGED <<bucket, hosted, row, used, disk, req, job, history>>

(* The process stops: what it held in memory, and what it was doing, goes. *)
Stops ==
    /\ hold' = [i \in Ids |-> NoHold]
    /\ writing' = [i \in Ids |-> NoPut]
    /\ req' = [r \in Requests |-> NoReq]
    /\ sweep' = {} /\ removing' = NoId
    /\ UNCHANGED <<bucket, hosted, urls>>

Crash == Stops /\ UNCHANGED <<object, row, used, history>>

(* It stops between the row's change and the counter's.  Bound: an account *)
(* meets this once until it is reconciled.                                 *)
CrashInConfirm(i) ==
    /\ Pending(i) /\ object[i] = row[i].expected
    /\ row[i].owner \notin unsettled /\ InBound({row[i].owner}, object[i])
    /\ Stops
    /\ row' = [row EXCEPT ![i].status = "confirmed", ![i].size = object[i]]
    /\ unsettled' = unsettled \cup {row[i].owner}
    /\ unheld' = unheld \cup {a \in {row[i].owner} : Limit[a] # NoLimit}
    /\ UNCHANGED <<object, used, unlinked>>

(* The same in a DELETE, or in the job once it has removed the object.     *)
CrashInDelete(i) ==
    /\ Confirmed(i) /\ row[i].owner \notin unsettled
    /\ Stops
    /\ \/ /\ bucket => removing = i
          /\ row' = [row EXCEPT ![i] = NoRow]
          /\ object' = IF bucket THEN object ELSE [object EXCEPT ![i] = 0]
       \/ /\ row' = [row EXCEPT ![i].status = "deleted"]
          /\ object' = object \/ (~bucket /\ object' = [object EXCEPT ![i] = 0])
    /\ unsettled' = unsettled \cup {row[i].owner}
    /\ unlinked' = unlinked \ {i}
    /\ UNCHANGED <<used, unheld>>

(* Or a DELETE stops before that, when the file is gone already.           *)
CrashInUnlink(i) ==
    /\ ~bucket /\ Confirmed(i)
    /\ Stops
    /\ object' = [object EXCEPT ![i] = 0]
    /\ unlinked' = unlinked \cup {i}
    /\ UNCHANGED <<row, used, unsettled, unheld>>

(* renameSync throws in the pipeline's callback, where nothing catches it. *)
PutThrows(i) ==
    /\ writing[i] # NoPut /\ ~writing[i].part
    /\ Stops
    /\ UNCHANGED <<object, row, used, history>>

(* Mutant: pending uploads are added up with the confirmed ones.           *)
ReconcileAll(a) ==
    used' = [used EXCEPT ![a] = MapThenSumSet(LAMBDA i : row[i].expected,
                                              {i \in Ids : row[i].owner = a})]

ReconcileUsage(a) == used' = [used EXCEPT ![a] = LedgerSum(a)]

Reconcile(a) ==
    /\ ReconcileUsage(a)
    /\ unsettled' = unsettled \ {a}
    /\ UNCHANGED <<bucket, hosted, row, hold, disk, urls, req, job, unheld, unlinked>>

(* The Space's first key is put on the server, with its owner.             *)
GetHosted ==
    /\ ~hosted
    /\ hosted' = TRUE
    /\ UNCHANGED <<bucket, ledger, disk, urls, req, job, history>>

Next ==
    \/ \E r \in Requests :
          \/ \E i \in Ids : ConfirmAsk(r, i) \/ \E size \in Sizes[i] : Presign(r, i, size)
          \/ PresignSigned(r)
          \/ PresignFailed(r)
          \/ Head(r)
          \/ ConfirmEnd(r)
          \/ ConfirmFailed(r)
    \/ \E i \in Ids :
          \/ \E size \in Sizes[i] : PutObject(i, size) \/ PutEnd(i, size)
          \/ PutStart(i)
          \/ PutFail(i)
          \/ PutThrows(i)
          \/ ConfirmLocal(i)
          \/ Delete(i)
          \/ CleanObject(i)
          \/ CleanFailed(i)
          \/ Expire(i)
          \/ CrashInConfirm(i)
          \/ CrashInDelete(i)
          \/ CrashInUnlink(i)
    \/ \E a \in Accounts : Reconcile(a)
    \/ CleanLocal
    \/ CleanStart
    \/ CleanRow
    \/ Crash
    \/ GetHosted

Spec == Init /\ [][Next]_vars
-----------------------------------------------------------------------------
AnySize == UNION {Sizes[i] : i \in Ids}
Bytes == AnySize \cup {0}
Row == [status : {"none", "pending", "confirmed", "deleted"}, owner : Accounts \cup {NoAccount},
        expected : Bytes, size : Bytes]
Hold == [user : Accounts \cup {NoAccount}, bytes : Bytes]
Put == [size : Bytes, part : BOOLEAN]
Request == [t : {"idle", "presign", "asked", "headed"}, id : Ids \cup {NoId}, existed : BOOLEAN,
            size : Bytes, owner : Accounts \cup {NoAccount}, stored : Bytes]

(* A row's status, and everything held, promised, listed and under way.    *)
TypeOK ==
    /\ bucket \in BOOLEAN /\ hosted \in BOOLEAN
    /\ row \in [Ids -> Row]
    /\ used \in [Accounts -> 0..MaxUsed]
    /\ hold \in [Ids -> Hold]
    /\ object \in [Ids -> Bytes]
    /\ writing \in [Ids -> Put]
    /\ urls \in [Ids -> SUBSET AnySize]
    /\ req \in [Requests -> Request]
    /\ sweep \subseteq Ids /\ removing \in Ids \cup {NoId}
    /\ unsettled \subseteq Accounts /\ unheld \subseteq Accounts /\ unlinked \subseteq Ids

(* An account's counter is what its confirmed attachments add up to, but   *)
(* after a crash between the two, or an upload whose account changed while *)
(* its confirm waited, until the account is reconciled.                    *)
UsageMatchesLedger == \A a \in Accounts \ unsettled : used[a] = LedgerSum(a)

(* What a limited account has stored, and what its uploads in flight have  *)
(* been promised, fit its limit together, until it is charged for bytes it *)
(* no longer held (tryReserve, confirmAttachment).                         *)
RoomKept ==
    \A a \in Accounts \ unheld : Limit[a] # NoLimit => used[a] + ReservedFor(a) <= Limit[a]

(* A confirmed attachment changes only by a DELETE, or with a bucket by a  *)
(* wait that began before it was confirmed: a run of the cleanup job that  *)
(* listed it, or a confirm that measured an earlier upload's size.         *)
ConfirmedStays ==
    [][\A i \in Ids : Confirmed(i) /\ row'[i] # row[i] =>
           \/ Delete(i) \/ CrashInDelete(i)
           \/ removing = i
           \/ \E r \in Requests : /\ req[r].id = i /\ req[r].t = "headed"
                                  /\ req[r].stored # req[r].size /\ ConfirmEnd(r)]_vars

(* On the disk a confirmed attachment has its file, but where a DELETE was *)
(* stopped between the file and the row and has not been repeated.         *)
ConfirmedHasFile == ~bucket => \A i \in Ids \ unlinked : Confirmed(i) => object[i] # 0

(* What attachmentsInvariants.test.ts says must stay true however the      *)
(* operations interleave: a confirmed attachment has its object (but where *)
(* the process stopped inside a DELETE, which no interleaving shows).      *)
ConfirmedHasObject == \A i \in Ids \ unlinked : Confirmed(i) => object[i] # 0
==============================================================================
