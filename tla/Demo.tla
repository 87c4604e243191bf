-------------------------------- MODULE Demo --------------------------------
(***************************************************************************)
(* Demo accounts (routes/demo.ts): made without an email, seeded with a     *)
(* workspace (db/demoSeeder.ts), purged when the visitor leaves or the      *)
(* account expires, unless a free trial gives it longer.  An account is a   *)
(* row of users and a database in a file, which every request of a session  *)
(* opens, and so makes, without asking for the row (middleware/auth.ts,     *)
(* db/userDb.ts); the relay asks for it once, when a socket says HELLO.     *)
(*                                                                          *)
(* A database is None, "part" or "demo" when it holds some or all of what   *)
(* the account was seeded with, and "fresh" when opening it made it.        *)
(***************************************************************************)
EXTENDS Integers, FiniteSets

CONSTANTS
    Ids,         \* accounts, each named once
    None,
    MaxDemo,     \* MAX_DEMO_USERS
    Hour,        \* units of time in an hour: sessions are given by the hour
    DemoHours,   \* DEMO_EXPIRY_HOURS
    TrialHours,  \* DEMO_FREETRIAL_DAYS, in hours
    MaxTime      \* bound: when time stops

Databases == {"fresh", "part", "demo"}
MaxEnd == MaxTime + Hour * (DemoHours + TrialHours + 1)
Row == [until : 0..MaxEnd, trial : BOOLEAN]

ASSUME DemoAssumption ==
    /\ MaxDemo \in Nat /\ MaxTime \in Nat
    /\ Hour \in Nat \ {0}
    /\ DemoHours \in Nat \ {0} /\ TrialHours \in Nat \ {0}
    /\ None \notin Databases \cup Row

VARIABLES
    now,
    rows,      \* of users: until when, and whether there is a free trial's token
    file,      \* the database on the disk
    cache,     \* the database as the open handle sees it
    session,   \* when the last session given for the account ends
    socket,    \* accounts with a socket that said HELLO
    made,      \* history: ids used
    late,      \* history: accounts that something opened after they were purged
    stranded   \* history: accounts a stop took the row of and not the file

vars == <<now, rows, file, cache, session, socket, made, late, stranded>>

HasRow(id) == rows[id] # None
Expired == {id \in Ids : HasRow(id) /\ rows[id].until < now}

Init ==
    /\ now = 0
    /\ rows = [id \in Ids |-> None]
    /\ file = [id \in Ids |-> None] /\ cache = [id \in Ids |-> None]
    /\ session = [id \in Ids |-> 0]
    /\ socket = {}
    /\ made = {} /\ late = {} /\ stranded = {}
-----------------------------------------------------------------------------
(* Databases.                                                              *)

(* getUserDb: the open one, or the file's, made if there is none.          *)
Opened(id) ==
    IF cache[id] # None THEN cache[id] ELSE IF file[id] # None THEN file[id] ELSE "fresh"

Open(id) ==
    /\ cache' = [cache EXCEPT ![id] = Opened(id)]
    /\ file' = [file EXCEPT ![id] = IF cache[id] = None THEN Opened(id) ELSE @]
    /\ late' = IF HasRow(id) THEN late ELSE late \cup {id}

Without(f, S) == [id \in Ids |-> IF id \in S THEN None ELSE f[id]]

(* Mutant: the handle stays open, and in the cache.                        *)
PurgeKeepingOpen(S) ==
    /\ rows' = Without(rows, S)
    /\ file' = Without(file, S)
    /\ UNCHANGED cache

(* The row, the handle and the files of each of these accounts.            *)
Purge(S) ==
    /\ rows' = Without(rows, S)
    /\ cache' = Without(cache, S)
    /\ file' = Without(file, S)
-----------------------------------------------------------------------------
(* Provisioning.                                                           *)

(* Mutant: accounts with a trial are of another type and do not count.     *)
RoomBesidesTrials == Cardinality({id \in Ids : HasRow(id) /\ ~rows[id].trial}) < MaxDemo

(* countDemoUsers                                                          *)
RoomForOne == Cardinality({id \in Ids : HasRow(id)}) < MaxDemo

NewRow == [until |-> now + Hour * DemoHours, trial |-> FALSE]

(* POST /provision, once its captcha is verified: the row, the database,   *)
(* its documents, and a session as long as the account.                    *)
Provision(id) ==
    /\ id \notin made /\ RoomForOne
    /\ made' = made \cup {id}
    /\ rows' = [rows EXCEPT ![id] = NewRow]
    /\ file' = [file EXCEPT ![id] = "demo"] /\ cache' = [cache EXCEPT ![id] = "demo"]
    /\ session' = [session EXCEPT ![id] = now + Hour * DemoHours]
    /\ UNCHANGED <<now, socket, late, stranded>>

(* The server stops between two of these writes and starts, with the job   *)
(* below: nobody has a session for the account, which takes up room until  *)
(* it expires.                                                             *)
ProvisionCut(id) ==
    /\ id \notin made /\ RoomForOne
    /\ made' = made \cup {id}
    /\ rows' = [Without(rows, Expired) EXCEPT ![id] = NewRow]
    /\ \E left \in {None, "fresh", "part"} : file' = [Without(file, Expired) EXCEPT ![id] = left]
    /\ cache' = Without(cache, Ids) /\ socket' = {}
    /\ UNCHANGED <<now, session, late, stranded>>
-----------------------------------------------------------------------------
(* Sessions.                                                               *)

Valid(id) == now < session[id]

(* Any request of a session: requireAuth opens the database.               *)
Request(id) ==
    /\ Valid(id)
    /\ Open(id)
    /\ UNCHANGED <<now, rows, session, socket, made, stranded>>

(* HELLO over a socket, refused without a row.                             *)
Hello(id) ==
    /\ Valid(id) /\ HasRow(id)
    /\ Open(id)
    /\ socket' = socket \cup {id}
    /\ UNCHANGED <<now, rows, session, made, stranded>>

(* UPDATE or COMPACT over a socket that said HELLO, whenever that was.     *)
SocketWrite(id) ==
    /\ id \in socket
    /\ Open(id)
    /\ UNCHANGED <<now, rows, session, socket, made, stranded>>

Hangup(id) ==
    /\ id \in socket
    /\ socket' = socket \ {id}
    /\ UNCHANGED <<now, rows, file, cache, session, made, late, stranded>>

(* POST /freetrial: longer, from now, also when it has just expired.       *)
FreeTrial(id) ==
    /\ Valid(id) /\ HasRow(id)
    /\ Open(id)
    /\ rows' = [rows EXCEPT ![id] = [until |-> now + Hour * TrialHours, trial |-> TRUE]]
    /\ UNCHANGED <<now, session, socket, made, stranded>>

(* Mutant: whole days, as the trial is given in.                           *)
HoursLeftOfDay(id) == 24 * ((rows[id].until - now) \div (24 * Hour) + 1)

HoursLeft(id) ==
    LET hours == (rows[id].until - now + Hour - 1) \div Hour
    IN  IF hours < 1 THEN 1 ELSE hours

(* GET /freetrial/:token: a session for the hours that are left.           *)
Reenter(id) ==
    /\ HasRow(id) /\ rows[id].trial /\ rows[id].until >= now
    /\ session' = [session EXCEPT ![id] =
          IF @ > now + Hour * HoursLeft(id) THEN @ ELSE now + Hour * HoursLeft(id)]
    /\ UNCHANGED <<now, rows, file, cache, socket, made, late, stranded>>

(* Mutant: as before there were free trials.                               *)
MayEndAny(id) == HasRow(id)

(* A free trial outlives the visit.                                        *)
MayEnd(id) == HasRow(id) /\ ~rows[id].trial

(* POST /end-session, by a beacon or a logout: what a request does, then   *)
(* the purge of an account that is there.                                  *)
EndSession(id) ==
    /\ Valid(id) /\ MayEnd(id)
    /\ Purge({id})
    /\ UNCHANGED <<now, session, socket, made, late, stranded>>
-----------------------------------------------------------------------------
(* Time, the hourly job, and stops.                                        *)

Tick ==
    /\ now < MaxTime
    /\ now' = now + 1
    /\ UNCHANGED <<rows, file, cache, session, socket, made, late, stranded>>

(* Mutant: a trial's account is left to its link.                          *)
CleanupButTrials ==
    LET gone == {id \in Expired : ~rows[id].trial}
    IN  /\ gone # {}
        /\ Purge(gone)
        /\ UNCHANGED <<now, session, socket, made, late, stranded>>

(* runDemoCleanup                                                          *)
Cleanup ==
    /\ Expired # {}
    /\ Purge(Expired)
    /\ UNCHANGED <<now, session, socket, made, late, stranded>>

(* The server stops between the row of one and its files, in the job or in *)
(* an end-session, with some others purged: nothing will look for these    *)
(* files again.  It starts with the job.                                   *)
PurgeCut(id) ==
    /\ id \in Expired \/ (Valid(id) /\ MayEnd(id))
    /\ rows' = Without(rows, Expired \cup {id})
    /\ file' = Without(file, Expired \ {id})
    /\ cache' = Without(cache, Ids) /\ socket' = {}
    /\ stranded' = stranded \cup {id}
    /\ UNCHANGED <<now, session, made, late>>

(* It stops and starts: scheduleDemoCleanup runs the job at once.          *)
Restart ==
    /\ rows' = Without(rows, Expired)
    /\ file' = Without(file, Expired)
    /\ cache' = Without(cache, Ids) /\ socket' = {}
    /\ UNCHANGED <<now, session, made, late, stranded>>

Next ==
    \/ \E id \in Ids :
          \/ Provision(id) \/ ProvisionCut(id)
          \/ Request(id) \/ Hello(id) \/ SocketWrite(id) \/ Hangup(id)
          \/ FreeTrial(id) \/ Reenter(id) \/ EndSession(id)
          \/ PurgeCut(id)
    \/ Tick \/ Cleanup \/ Restart

(* The job runs every hour for as long as the server is up.                *)
Spec == Init /\ [][Next]_vars /\ WF_vars(Cleanup)
-----------------------------------------------------------------------------
(* There are no more accounts than the cap, trials included, and every     *)
(* variable has its shape.                                                 *)
TypeOK ==
    /\ now \in 0..MaxTime
    /\ rows \in [Ids -> Row \cup {None}]
    /\ Cardinality({id \in Ids : HasRow(id)}) <= MaxDemo
    /\ file \in [Ids -> Databases \cup {None}] /\ cache \in [Ids -> Databases \cup {None}]
    /\ session \in [Ids -> 0..MaxEnd]
    /\ socket \subseteq Ids /\ made \subseteq Ids
    /\ late \subseteq made /\ stranded \subseteq made

(* What a purged account had does not come back: neither the disk nor an   *)
(* open handle has it, and what there is was made by a session, or a       *)
(* socket, older than the purge.  But for a stop between row and file.     *)
PurgedIsGone ==
    \A id \in made \ stranded : ~HasRow(id) =>
        /\ {file[id], cache[id]} \subseteq {None, "fresh"}
        /\ id \notin late => file[id] = None /\ cache[id] = None

(* The hour a session is rounded up to or, where a trial is shorter than a *)
(* demo, what the demo's session was given beyond it.                      *)
Overrun == Hour * (IF DemoHours > TrialHours + 1 THEN DemoHours - TrialHours ELSE 1)

(* No session outlives the account it is for by more than that: past it,   *)
(* an account that expired is not opened again but over a socket that is   *)
(* still there.                                                            *)
SessionEndsWithAccount ==
    \A id \in Ids : HasRow(id) => session[id] <= rows[id].until + Overrun

(* Until it expires a free trial keeps its account, its database and its   *)
(* term, whatever tabs close, stops and purges of others happen.           *)
TrialSurvives ==
    [][\A id \in Ids :
          HasRow(id) /\ rows[id].trial /\ rows[id].until >= now =>
              /\ HasRow(id)' /\ rows'[id].trial /\ rows'[id].until >= rows[id].until
              /\ file'[id] = file[id] \/ file[id] = None]_vars

(* An account that expired is purged in the end, or given a free trial by  *)
(* a session that is still open: the places under the cap come back.       *)
ExpiredIsPurged == \A id \in Ids : (id \in Expired) ~> (id \notin Expired)
==============================================================================
