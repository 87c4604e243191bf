------------------------------ MODULE Accounts ------------------------------
(***************************************************************************)
(* How an account comes, what it has, and how it goes: registration with   *)
(* an invitation (routes/auth.ts), invitations and the deletion of users    *)
(* (routes/admin.ts), and the home each account has (resolvePrimaryWork-    *)
(* spaceId, db/registry.ts).                                                *)
(*                                                                          *)
(* Registration waits only for the captcha, before it reads anything, so    *)
(* its checks and writes are one step that may begin at any time.  The      *)
(* writes are in no transaction and in two databases: a stop of the server  *)
(* leaves the first few of them.  An account's own Space, the one made with *)
(* it, is "own"; any other one whose key it is given is "other".            *)
(***************************************************************************)
EXTENDS Naturals, Sequences

CONSTANTS
    Emails,
    Ids,              \* accounts, each named once and never again
    None,             \* no email, no invitation, no Space
    MaxInvitations    \* bound: invitations ever made; their numbers are their order

Invitation == [email : Emails, elapsed : BOOLEAN, accepted : BOOLEAN]

ASSUME AccountsAssumption ==
    /\ MaxInvitations \in Nat
    /\ None \notin Emails \cup Ids \cup Nat \cup Invitation
    /\ None \notin {"own", "other"}

VARIABLES
    gated,        \* REQUIRE_INVITATION
    users,        \* the email of each account that has a row
    pieces,       \* what there is of an account besides: its documents' database has
                  \* the home, keys it holds, and whether it owns its own Space
    home,         \* users.primary_workspace_id
    invitations,  \* None until made, and again when deleted
    made,         \* how many were made
    mailing,      \* those whose maker waits for the mail server
    born,         \* history: the invitation each account's registration used up
    shared,       \* history: accounts registered with a Space that had an owner
    cut           \* history: accounts whose registration a stop cut short

vars == <<gated, users, pieces, home, invitations, made, mailing, born, shared, cut>>

Invitations == 1..MaxInvitations
Pieces == {"doc", "key", "owner", "other"}

There(i) == invitations[i] # None
Unaccepted(i) == There(i) /\ ~invitations[i].accepted
Pending(i) == Unaccepted(i) /\ ~invitations[i].elapsed

Init ==
    /\ gated \in BOOLEAN
    /\ users = [id \in Ids |-> None]
    /\ pieces = [id \in Ids |-> {}]
    /\ home = [id \in Ids |-> None]
    /\ invitations = [i \in Invitations |-> None] /\ made = 0 /\ mailing = {}
    /\ born = [id \in Ids |-> None] /\ shared = {} /\ cut = {}
-----------------------------------------------------------------------------
(* Invitations.                                                            *)

(* getPendingInvitationByEmail is the oldest that was not accepted, and    *)
(* only that one is asked whether it has elapsed.                          *)
PendingFor(email) ==
    \E i \in Invitations :
        /\ Pending(i) /\ invitations[i].email = email
        /\ \A j \in 1..(i - 1) : ~(Unaccepted(j) /\ invitations[j].email = email)

(* POST /invitations, to the wait for the mail, if there is a mail server. *)
(* The client may set the end, and so an end that is past.                 *)
Invite(email) ==
    /\ made < MaxInvitations
    /\ ~PendingFor(email)
    /\ made' = made + 1
    /\ \E elapsed \in BOOLEAN :
          invitations' = [invitations EXCEPT ![made + 1] =
                            [email |-> email, elapsed |-> elapsed, accepted |-> FALSE]]
    /\ mailing' = mailing \cup {made + 1} \/ mailing' = mailing
    /\ UNCHANGED <<gated, users, pieces, home, born, shared, cut>>

(* The mail is sent, or not, and the row is read again for the answer.     *)
InviteAnswered(i) ==
    /\ i \in mailing /\ There(i)
    /\ mailing' = mailing \ {i}
    /\ UNCHANGED <<gated, users, pieces, home, invitations, made, born, shared, cut>>

(* Without a row the answer throws in an async handler, which Express 4    *)
(* does not catch: the process stops, and every handler that waits with it. *)
InviteUnanswerable(i) ==
    /\ i \in mailing /\ ~There(i)
    /\ mailing' = {}
    /\ UNCHANGED <<gated, users, pieces, home, invitations, made, born, shared, cut>>

(* An end comes, or was never set and INVITATION_TTL_MS have passed.       *)
Elapse(i) ==
    /\ Pending(i)
    /\ invitations' = [invitations EXCEPT ![i].elapsed = TRUE]
    /\ UNCHANGED <<gated, users, pieces, home, made, mailing, born, shared, cut>>

(* DELETE /invitations/:id                                                 *)
DeleteInvitation(i) ==
    /\ Unaccepted(i)
    /\ invitations' = [invitations EXCEPT ![i] = None]
    /\ UNCHANGED <<gated, users, pieces, home, made, mailing, born, shared, cut>>
-----------------------------------------------------------------------------
(* Registration.                                                           *)

(* Mutant: the key is written before the home document.                    *)
KeyBeforeDocument == <<"row", "key", "doc", "owner", "home", "accepted">>

(* The writes, in their order.                                             *)
Writes == <<"row", "doc", "key", "owner", "home", "accepted">>

(* Mutant: an invitation is good until it elapses.                         *)
AdmitsAgain(i) == IF gated THEN i # None /\ There(i) /\ ~invitations[i].elapsed ELSE i # None => There(i)

(* Whether a registration with this token, or none, goes on; a server that  *)
(* does not ask for one takes any.                                         *)
Admits(i) == IF gated THEN i # None /\ Pending(i) ELSE i # None => There(i)

(* Mutant: emails are not looked up.                                       *)
NeverTaken(email) == FALSE

Taken(email) == \E id \in Ids : users[id] = email

(* POST /register: the first so many writes, all of them but for a stop.   *)
(* The client names the Space: if it has an owner, recordSpaceOwner leaves  *)
(* it that one (a registration sent again once its account was deleted).    *)
Register(id, email, i, n, owned) ==
    LET written == {Writes[k] : k \in 1..n}
    IN  /\ users[id] = None /\ pieces[id] = {} /\ id \notin cut
        /\ Admits(i) /\ ~Taken(email)
        /\ users' = [users EXCEPT ![id] = email]
        /\ pieces' = [pieces EXCEPT ![id] = (written \cap Pieces) \ (IF owned THEN {"owner"} ELSE {})]
        /\ shared' = IF owned THEN shared \cup {id} ELSE shared
        /\ home' = IF "home" \in written THEN [home EXCEPT ![id] = "own"] ELSE home
        /\ IF "accepted" \in written /\ i # None
           THEN /\ invitations' = [invitations EXCEPT ![i].accepted = TRUE]
                /\ born' = IF gated \/ Unaccepted(i) THEN [born EXCEPT ![id] = i] ELSE born
           ELSE UNCHANGED <<invitations, born>>
        /\ IF n = Len(Writes) THEN UNCHANGED <<cut, mailing>>
           ELSE cut' = cut \cup {id} /\ mailing' = {}
        /\ UNCHANGED <<gated, made>>
-----------------------------------------------------------------------------
(* An account in use.                                                      *)

(* resolvePrimaryWorkspaceId: the home, or the Space of the oldest key.    *)
Resolve(id) ==
    IF home[id] # None THEN home[id]
    ELSE IF "key" \in pieces[id] THEN "own"
    ELSE IF "other" \in pieces[id] THEN "other"
    ELSE None

(* POST /login, /login/token, GET /me: they keep the home they resolve.    *)
Enter(id) ==
    /\ users[id] # None
    /\ home' = [home EXCEPT ![id] = Resolve(id)]
    /\ UNCHANGED <<gated, users, pieces, invitations, made, mailing, born, shared, cut>>

(* Another Space's key: its own second Space, or a member gives it one.    *)
JoinOther(id) ==
    /\ users[id] # None
    /\ pieces' = [pieces EXCEPT ![id] = @ \cup {"other"}]
    /\ UNCHANGED <<gated, users, home, invitations, made, mailing, born, shared, cut>>

(* DELETE /workspaces/:id/members/me, which an owner may not.              *)
LeaveSpace(id, piece) ==
    /\ users[id] # None /\ piece \in {"key", "other"} \cap pieces[id]
    /\ piece = "key" => "owner" \notin pieces[id]
    /\ pieces' = [pieces EXCEPT ![id] = @ \ {piece}]
    /\ UNCHANGED <<gated, users, home, invitations, made, mailing, born, shared, cut>>

(* DELETE /admin/users/:id: the row goes, and nothing else of these.       *)
DeleteUser(id) ==
    /\ users[id] # None
    /\ users' = [users EXCEPT ![id] = None]
    /\ home' = [home EXCEPT ![id] = None]
    /\ UNCHANGED <<gated, pieces, invitations, made, mailing, born, shared, cut>>

Next ==
    \/ \E email \in Emails : Invite(email)
    \/ \E i \in Invitations :
          InviteAnswered(i) \/ InviteUnanswerable(i) \/ Elapse(i) \/ DeleteInvitation(i)
    \/ \E id \in Ids :
          \/ \E email \in Emails, i \in Invitations \cup {None}, n \in 1..Len(Writes), owned \in BOOLEAN :
                Register(id, email, i, n, owned)
          \/ Enter(id)
          \/ JoinOther(id)
          \/ \E piece \in {"key", "other"} : LeaveSpace(id, piece)
          \/ DeleteUser(id)

Spec == Init /\ [][Next]_vars
-----------------------------------------------------------------------------
(* No two rows have one email, and every variable has its shape.           *)
TypeOK ==
    /\ gated \in BOOLEAN
    /\ users \in [Ids -> Emails \cup {None}]
    /\ \A id, other \in Ids : users[id] = users[other] /\ users[id] # None => id = other
    /\ pieces \in [Ids -> SUBSET Pieces]
    /\ home \in [Ids -> {None, "own", "other"}]
    /\ invitations \in [Invitations -> Invitation \cup {None}]
    /\ made \in 0..MaxInvitations /\ mailing \subseteq 1..made
    /\ born \in [Ids -> Invitations \cup {None}]
    /\ shared \subseteq Ids /\ cut \subseteq Ids

(* An invitation makes one account: two registrations under way with one   *)
(* token do not both end, and the invitation an account was made with      *)
(* stays, accepted, whatever is deleted.  Only a stop between the account   *)
(* and the mark on the invitation leaves it good for another (register).   *)
(* A server that requires none takes a used token too, for nothing: who     *)
(* brings it is not born of it.                                            *)
InvitationSpent ==
    \A id \in Ids : born[id] # None =>
        /\ There(born[id]) /\ invitations[born[id]].accepted
        /\ \A other \in Ids : born[other] = born[id] => other = id

(* An account whose registration ended has for good what it ended with:    *)
(* its home is its own Space, whose document is in its database and, but    *)
(* for one that had an owner, which it owns and whose key it holds,         *)
(* whatever Spaces it joins, makes and leaves.                              *)
(* Wherever a stop cut a registration short, a home that a later sign-in   *)
(* settles on is a Space whose document is there, or another's.            *)
HomeKept ==
    \A id \in Ids :
        /\ users[id] # None /\ id \notin cut =>
               /\ home[id] = "own" /\ "doc" \in pieces[id]
               /\ id \notin shared => {"key", "owner"} \subseteq pieces[id]
        /\ home[id] = "own" => "doc" \in pieces[id]
==============================================================================
