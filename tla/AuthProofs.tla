----------------------------- MODULE AuthProofs ------------------------------
(* Proofs about the two models of routes/auth.ts: Accounts, for any emails, *)
(* accounts and number of invitations, and SignIn, for any emails, bound on *)
(* a list and number of nonces.  They share no variable.                    *)
EXTENDS Accounts, SignIn, FiniteSetTheorems, TLAPS

(* What the properties rest on: no invitation is there before it is made,  *)
(* and no account holds the key of its own Space without its document,     *)
(* which is why a home settled on later is one that opens.                 *)
Written ==
    /\ \A i \in Invitations : There(i) => i <= made
    /\ \A id \in Ids : "key" \in pieces[id] => "doc" \in pieces[id]

IInv == TypeOK /\ Written /\ InvitationSpent /\ HomeKept

(* A registration cut short has done a first part of its writes.           *)
LEMMA FirstWrites ==
    ASSUME NEW n \in 1..Len(Writes)
    PROVE  LET written == {Writes[k] : k \in 1..n}
           IN  /\ "key" \in written => "doc" \in written
               /\ "home" \in written => "doc" \in written
               /\ n = Len(Writes) => {"doc", "key", "owner", "home"} \subseteq written
<1> DEFINE written == {Writes[k] : k \in 1..n}
<1>1. /\ Len(Writes) = 6 /\ Writes[1] = "row" /\ Writes[2] = "doc" /\ Writes[3] = "key"
      /\ Writes[4] = "owner" /\ Writes[5] = "home" /\ Writes[6] = "accepted"
  BY DEF Writes
<1>2. n \in 1..6
  BY <1>1
<1> HIDE DEF Writes
<1>3. n >= 2 => "doc" \in written
  BY <1>1, <1>2
<1>4. n = 6 => {"doc", "key", "owner", "home"} \subseteq written
  BY <1>1, <1>2
<1>5. n = 1 => written = {"row"}
  BY <1>1
<1>6. QED
  BY <1>1, <1>2, <1>3, <1>4, <1>5

LEMMA InitOK == Init => IInv
BY AccountsAssumption
DEF Init, IInv, TypeOK, Written, InvitationSpent, HomeKept, Invitations, There

(* No step but a registration gives an account its row, or marks an        *)
(* invitation: the others keep one part of the invariant each.             *)
LEMMA InvitationSteps ==
    ASSUME IInv,
           \/ \E email \in Emails : Invite(email)
           \/ \E i \in Invitations :
                 InviteAnswered(i) \/ InviteUnanswerable(i) \/ Elapse(i) \/ DeleteInvitation(i)
    PROVE  IInv'
<1> USE AccountsAssumption DEF IInv
<1>1. UNCHANGED <<gated, users, pieces, home, born, shared, cut>>
  BY DEF Invite, InviteAnswered, InviteUnanswerable, Elapse, DeleteInvitation
<1>2. HomeKept'
  BY <1>1 DEF HomeKept
<1>3. TypeOK' /\ Written'
  <2>1. ASSUME NEW email \in Emails, Invite(email) PROVE TypeOK' /\ Written'
    BY <1>1, <2>1 DEF Invite, TypeOK, Written, Invitations, Invitation, There
  <2>2. ASSUME NEW i \in Invitations, InviteAnswered(i) \/ InviteUnanswerable(i)
        PROVE  TypeOK' /\ Written'
    <3>1. invitations' = invitations /\ made' = made /\ mailing' \subseteq mailing
      BY <2>2 DEF InviteAnswered, InviteUnanswerable
    <3>2. mailing' \subseteq 1..made'
      BY <3>1 DEF TypeOK
    <3>3. QED
      BY <1>1, <3>1, <3>2 DEF TypeOK, Written, There
  <2>3. ASSUME NEW i \in Invitations, Elapse(i) PROVE TypeOK' /\ Written'
    BY <1>1, <2>3 DEF Elapse, Pending, Unaccepted, TypeOK, Written, Invitation, There
  <2>4. ASSUME NEW i \in Invitations, DeleteInvitation(i) PROVE TypeOK' /\ Written'
    BY <1>1, <2>4 DEF DeleteInvitation, TypeOK, Written, There
  <2>5. QED
    BY <2>1, <2>2, <2>3, <2>4
<1>4. ASSUME NEW i \in Invitations, There(i), invitations[i].accepted
      PROVE  There(i)' /\ invitations'[i].accepted
  <2>1. i # made + 1
    BY <1>4 DEF Written, TypeOK, Invitations
  <2>2. QED
    BY <1>3, <1>4, <2>1
    DEF Invite, InviteAnswered, InviteUnanswerable, Elapse, DeleteInvitation, Pending, Unaccepted,
        There, TypeOK, Invitation
<1>5. InvitationSpent'
  BY <1>1, <1>4 DEF InvitationSpent, TypeOK
<1>6. QED
  BY <1>2, <1>3, <1>5

LEMMA RegisterStep ==
    ASSUME IInv, NEW id \in Ids, NEW email \in Emails, NEW i \in Invitations \cup {None},
           NEW n \in 1..Len(Writes), NEW owned \in BOOLEAN, Register(id, email, i, n, owned)
    PROVE  IInv'
<1> USE AccountsAssumption DEF IInv
<1> DEFINE written == {Writes[k] : k \in 1..n}
<1>1. /\ "key" \in written => "doc" \in written
      /\ "home" \in written => "doc" \in written
      /\ n = Len(Writes) => {"doc", "key", "owner", "home"} \subseteq written
  BY FirstWrites
<1>2. /\ users[id] = None /\ pieces[id] = {} /\ id \notin cut
      /\ Admits(i) /\ ~Taken(email)
      /\ users' = [users EXCEPT ![id] = email]
      /\ pieces' = [pieces EXCEPT ![id] = (written \cap Pieces) \ (IF owned THEN {"owner"} ELSE {})]
      /\ shared' = IF owned THEN shared \cup {id} ELSE shared
      /\ home' = IF "home" \in written THEN [home EXCEPT ![id] = "own"] ELSE home
      /\ gated' = gated /\ made' = made
  BY DEF Register
<1>3. \/ invitations' = invitations /\ born' = born
      \/ /\ i # None
         /\ invitations' = [invitations EXCEPT ![i].accepted = TRUE]
         /\ \/ born' = born
            \/ born' = [born EXCEPT ![id] = i] /\ Unaccepted(i)
  BY <1>2 DEF Register, Admits, Pending
<1>4. \/ n = Len(Writes) /\ cut' = cut /\ mailing' = mailing
      \/ cut' = cut \cup {id} /\ mailing' = {}
  BY DEF Register
<1> HIDE DEF written
<1>5. i # None => i \in Invitations /\ There(i)
  BY <1>2 DEF Admits, Pending, Unaccepted
<1>6. invitations' \in [Invitations -> Invitation \cup {None}]
  <2>1. invitations \in [Invitations -> Invitation \cup {None}]
    BY DEF TypeOK
  <2>2. i # None => /\ invitations[i] \in Invitation
                    /\ [invitations[i] EXCEPT !.accepted = TRUE] \in Invitation
    BY <1>5, <2>1 DEF There, Invitation
  <2>3. QED
    BY <1>3, <1>5, <2>1, <2>2
<1>7. \A x, y \in Ids : users'[x] = users'[y] /\ users'[x] # None => x = y
  BY <1>2 DEF TypeOK, Taken
<1>8. TypeOK'
  BY <1>2, <1>3, <1>4, <1>5, <1>6, <1>7 DEF TypeOK
<1>9. Written'
  BY <1>1, <1>2, <1>3, <1>5 DEF Written, TypeOK, There, Pieces
<1>10. \A j \in Invitations : There(j) => There(j)' /\ (invitations[j].accepted => invitations'[j].accepted)
  <2>1. /\ invitations \in [Invitations -> Invitation \cup {None}]
        /\ i # None => invitations[i] \in Invitation
    BY <1>5 DEF There, TypeOK
  <2>2. i # None => LET marked == [invitations[i] EXCEPT !.accepted = TRUE]
                    IN  marked \in Invitation /\ marked.accepted
    BY <2>1 DEF Invitation
  <2>3. QED
    BY <1>3, <1>5, <2>1, <2>2 DEF There
<1>11. InvitationSpent'
  <2>1. CASE born' = born
    BY <1>10, <2>1 DEF InvitationSpent, TypeOK
  <2>2. CASE i # None /\ invitations' = [invitations EXCEPT ![i].accepted = TRUE]
             /\ born' = [born EXCEPT ![id] = i] /\ Unaccepted(i)
    <3>1. \A other \in Ids : born[other] # i
      BY <1>5, <2>2 DEF InvitationSpent, Unaccepted
    <3>2. There(i)' /\ invitations'[i].accepted
      BY <1>5, <1>10, <2>2 DEF TypeOK, There, Invitation
    <3>3. QED
      BY <1>5, <1>10, <2>2, <3>1, <3>2 DEF InvitationSpent, TypeOK
  <2>3. QED
    BY <1>3, <2>1, <2>2
<1>12. HomeKept'
  BY <1>1, <1>2, <1>4 DEF HomeKept, TypeOK, Pieces
<1>13. QED
  BY <1>8, <1>9, <1>11, <1>12

LEMMA AccountSteps ==
    ASSUME IInv, NEW id \in Ids,
           \/ Enter(id) \/ JoinOther(id) \/ DeleteUser(id)
           \/ \E piece \in {"key", "other"} : LeaveSpace(id, piece)
    PROVE  IInv'
<1> USE AccountsAssumption DEF IInv
<1>1. UNCHANGED <<gated, invitations, made, mailing, born, shared, cut>>
  BY DEF Enter, JoinOther, DeleteUser, LeaveSpace
<1>2. InvitationSpent'
  BY <1>1 DEF InvitationSpent, There
<1>3. TypeOK' /\ Written' /\ HomeKept'
  <2>1. CASE Enter(id)
    BY <1>1, <2>1 DEF Enter, Resolve, TypeOK, Written, HomeKept, There
  <2>2. CASE JoinOther(id)
    BY <1>1, <2>2 DEF JoinOther, TypeOK, Written, HomeKept, There, Pieces
  <2>3. CASE DeleteUser(id)
    BY <1>1, <2>3 DEF DeleteUser, TypeOK, Written, HomeKept, There
  <2>4. ASSUME NEW piece \in {"key", "other"}, LeaveSpace(id, piece)
        PROVE  TypeOK' /\ Written' /\ HomeKept'
    BY <1>1, <2>4 DEF LeaveSpace, TypeOK, Written, HomeKept, There, Pieces
  <2>5. QED
    BY <2>1, <2>2, <2>3, <2>4
<1>4. QED
  BY <1>2, <1>3

LEMMA Inductive == Spec => []IInv
<1>1. IInv /\ UNCHANGED vars => IInv'
  BY DEF IInv, TypeOK, Written, InvitationSpent, HomeKept, There, vars
<1>2. IInv /\ [Next]_vars => IInv'
  BY <1>1, InvitationSteps, RegisterStep, AccountSteps DEF Next
<1>3. QED
  BY <1>2, InitOK, PTL DEF Spec

(* Every variable keeps its type, and no two accounts have one email.      *)
THEOREM TypeCorrect == Spec => []TypeOK
BY Inductive, PTL DEF IInv

(* However registrations, stops, deletions and elapsing invitations        *)
(* interleave, an invitation makes at most one account, and stays accepted *)
(* for good (routes/auth.ts, POST /register).                              *)
THEOREM OneAccountPerInvitation == Spec => []InvitationSpent
BY Inductive, PTL DEF IInv

(* An account registered to the end keeps its own Space as its home, with  *)
(* its document and, unless the Space had an owner, its key, whatever      *)
(* Spaces it joins and leaves; one cut short never gets a home with no     *)
(* document (resolvePrimaryWorkspaceId).                                   *)
THEOREM HomeOpens == Spec => []HomeKept
BY Inductive, PTL DEF IInv
-----------------------------------------------------------------------------
(* SignIn.                                                                 *)

(* Among some subsets of a finite set there is one that holds no other.    *)
LEMMA SmallestSubset ==
    ASSUME NEW S, IsFiniteSet(S), NEW Some \in SUBSET (SUBSET S), Some # {}
    PROVE  \E T \in Some : \A U \in Some : U \subseteq T => U = T
<1>1. IsWellFoundedOn(StrictSubsetOrdering(S), SUBSET S)
  BY FS_StrictSubsetOrderingWellFounded, FS_FiniteSubsetsOfFinite
<1>2. PICK T \in Some : \A U \in Some : ~(<<U, T>> \in StrictSubsetOrdering(S))
  BY <1>1, WFMin
<1>3. QED
  BY <1>2 DEF StrictSubsetOrdering

(* No nonce is twice in a list.                                            *)
Distinct(entries) == \A x, y \in entries : x.nonce = y.nonce => x = y

(* A list that is not empty has an oldest entry.                           *)
LEMMA Oldest ==
    ASSUME NEW entries \in SUBSET NonceEntry, IsFiniteSet(entries), entries # {}
    PROVE  \E x \in entries : \A y \in entries : x.nonce <= y.nonce
<1> DEFINE Older(x) == {y \in entries : y.nonce < x.nonce}
           Some == {Older(x) : x \in entries}
<1>1. PICK T \in Some : \A U \in Some : U \subseteq T => U = T
  <2>1. Some \in SUBSET (SUBSET entries) /\ Some # {}
    OBVIOUS
  <2> HIDE DEF Some
  <2>2. QED
    BY <2>1, SmallestSubset
<1>2. PICK x \in entries : T = Older(x)
  BY <1>1
<1>3. \A y \in entries : y.nonce \in Nat
  BY DEF NonceEntry, Nonces
<1>4. ASSUME NEW y \in entries, y.nonce < x.nonce PROVE FALSE
  <2>1. Older(y) \subseteq Older(x)
    BY <1>3, <1>4
  <2>2. y \in Older(x) /\ y \notin Older(y)
    BY <1>3, <1>4
  <2>3. QED
    BY <1>1, <1>2, <2>1, <2>2
<1>5. QED
  BY <1>3, <1>4

(* What is kept of a list is no longer than its bound.                     *)
LEMMA NewestBound ==
    ASSUME NEW entries \in SUBSET NonceEntry, IsFiniteSet(entries), Distinct(entries)
    PROVE  IsFiniteSet(Newest(entries)) /\ Cardinality(Newest(entries)) <= MaxNonces
<1> DEFINE kept == Newest(entries)
<1>1. kept \subseteq entries /\ IsFiniteSet(kept)
  BY FS_Subset DEF Newest
<1>2. CASE kept = {}
  BY <1>1, <1>2, FS_EmptySet, SignInAssumption
<1>3. CASE kept # {}
  <2>1. PICK x \in kept : \A y \in kept : x.nonce <= y.nonce
    BY <1>1, <1>3, Oldest
  <2>2. kept \ {x} \subseteq Newer(entries, x)
    BY <1>1, <2>1 DEF Newer, Distinct, NonceEntry, Nonces
  <2>3. Cardinality(Newer(entries, x)) < MaxNonces
    BY <2>1 DEF Newest
  <2>4. IsFiniteSet(Newer(entries, x)) /\ Cardinality(kept \ {x}) <= Cardinality(Newer(entries, x))
    BY <2>2, FS_Subset DEF Newer
  <2>5. IsFiniteSet(kept \ {x}) /\ Cardinality(kept \ {x}) = Cardinality(kept) - 1
    BY <1>1, <2>1, FS_RemoveElement
  <2>6. Cardinality(kept) \in Nat /\ Cardinality(kept \ {x}) \in Nat /\ Cardinality(Newer(entries, x)) \in Nat
    BY <1>1, <2>4, <2>5, FS_CardinalityType
  <2>7. QED
    BY <1>1, <2>3, <2>4, <2>5, <2>6, SignInAssumption
<1>4. QED
  BY <1>2, <1>3
-----------------------------------------------------------------------------
(* The types.                                                              *)
Shape ==
    /\ accounts \subseteq Addresses
    /\ nonceStore \in [Addresses -> SUBSET NonceEntry]
    /\ issued \in Seq(Addresses) /\ Len(issued) <= MaxChallenges
    /\ expired \in 0..Len(issued) /\ lost \in 0..Len(issued)
    /\ tried \subseteq 1..Len(issued)
    /\ sessions \in [Nonces -> Nat]

(* A list holds nonces issued to its email, each once, and those are       *)
(* consumed that a login has brought.                                      *)
Short(e) == IsFiniteSet(nonceStore[e]) /\ Cardinality(nonceStore[e]) <= MaxNonces
Own(e) == \A x \in nonceStore[e] : x.nonce \in 1..Len(issued) /\ issued[x.nonce] = e
Spent(e) == \A x \in nonceStore[e] : x.consumed = (x.nonce \in tried)

Lists == \A e \in Addresses : Short(e) /\ Distinct(nonceStore[e]) /\ Own(e) /\ Spent(e)

(* A session is given to a nonce that was not tried before.                *)
Attempts == \A n \in Nonces : sessions[n] <= 1 /\ (n \notin tried => sessions[n] = 0)

(* A nonce that lives is in its list until enough newer ones were issued   *)
(* to its email, tried or not.                                             *)
Due(n) == n > expired /\ n > lost /\ Cardinality(IssuedSince(n)) < MaxNonces

Listed == \A n \in 1..Len(issued) : Due(n) => \E x \in nonceStore[issued[n]] : x.nonce = n

(* The inductive invariant.                                                *)
SignInInv == Shape /\ Lists /\ Attempts /\ Listed

(* No nonce was issued at first.                                           *)
LEMMA SignInStart == SignInInit => SignInInv
<1> SUFFICES ASSUME SignInInit PROVE SignInInv
  OBVIOUS
<1>1. Shape /\ Attempts /\ Listed
  BY SignInAssumption DEF SignInInit, Shape, Attempts, Listed
<1>2. Lists
  BY FS_EmptySet, SignInAssumption DEF SignInInit, Lists, Short, Own, Spent, Distinct
<1>3. QED
  BY <1>1, <1>2 DEF SignInInv

(* Nonces issued after n, before and after a challenge.                    *)
LEMMA SinceFacts ==
    ASSUME Shape, NEW n \in 1..Len(issued)
    PROVE  IsFiniteSet(IssuedSince(n)) /\ Cardinality(IssuedSince(n)) \in Nat
<1>1. IsFiniteSet((n + 1)..Len(issued))
  BY FS_Interval DEF Shape
<1>2. IsFiniteSet(IssuedSince(n))
  BY <1>1, FS_Subset DEF IssuedSince
<1>3. QED
  BY <1>2, FS_CardinalityType

(* An entry has no more newer ones in its list than nonces were issued     *)
(* since to its email.                                                     *)
LEMMA NewerAreSince ==
    ASSUME NEW entries \in SUBSET NonceEntry, NEW x \in entries, Distinct(entries),
           NEW since, IsFiniteSet(since),
           \A y \in entries : y.nonce > x.nonce => y.nonce \in since
    PROVE  Cardinality(Newer(entries, x)) <= Cardinality(since)
<1> DEFINE f == [y \in Newer(entries, x) |-> y.nonce]
<1>1. f \in [Newer(entries, x) -> since]
  BY DEF Newer
<1>2. f \in Injection(Newer(entries, x), since)
  BY <1>1 DEF Injection, IsInjective, Newer, Distinct
<1>3. QED
  BY <1>2, FS_Injection

(* A challenge prunes every list, and puts a new nonce into one.           *)
LEMMA ChallengeStep ==
    ASSUME SignInInv, NEW email \in Addresses, Challenge(email)
    PROVE  SignInInv'
<1> USE DEF SignInInv
<1> DEFINE len == Len(issued)
           new == [nonce |-> len + 1, consumed |-> FALSE]
           all == Unexpired(nonceStore[email]) \cup {new}
<1>1. /\ len \in Nat /\ len < MaxChallenges /\ issued' = Append(issued, email)
      /\ len + 1 \in Nonces /\ new \in NonceEntry
      /\ UNCHANGED <<accounts, expired, lost, tried, sessions>>
  BY SignInAssumption DEF Challenge, Shape, Nonces, NonceEntry
<1>2. /\ Len(issued)' = len + 1 /\ issued'[len + 1] = email /\ issued' \in Seq(Addresses)
      /\ \A n \in 1..len : issued'[n] = issued[n]
  BY <1>1 DEF Shape
<1>3. /\ nonceStore'[email] = Newest(all)
      /\ \A e \in Addresses \ {email} : nonceStore'[e] = Unexpired(nonceStore[e])
      /\ DOMAIN nonceStore' = Addresses
  <2>1. \A S : Unexpired(Unexpired(S)) = Unexpired(S)
    BY DEF Unexpired
  <2>2. QED
    BY <2>1 DEF Challenge, AddNonce, CleanupNonces
<1>4. /\ all \in SUBSET NonceEntry /\ IsFiniteSet(all) /\ Distinct(all) /\ new \in all
      /\ \A x \in all \ {new} : x \in nonceStore[email] /\ x.nonce \in 1..len
      /\ new.nonce = len + 1 /\ new.consumed = FALSE
  <2>1. Unexpired(nonceStore[email]) \subseteq nonceStore[email]
    BY DEF Unexpired
  <2>2. IsFiniteSet(Unexpired(nonceStore[email]))
    BY <2>1, FS_Subset DEF Lists, Short
  <2>3. IsFiniteSet(all)
    BY <2>2, FS_AddElement
  <2>4. all \in SUBSET NonceEntry /\ new \in all
    BY <1>1, <2>1 DEF Shape
  <2>5. \A x \in nonceStore[email] : x.nonce \in 1..len
    BY DEF Lists, Own
  <2>6. new.nonce = len + 1 /\ new.consumed = FALSE
    OBVIOUS
  <2>7. Distinct(all)
    <3>1. Distinct(nonceStore[email])
      BY DEF Lists
    <3>2. \A x \in all : x = new \/ x \in nonceStore[email]
      BY <2>1
    <3> HIDE DEF new, all
    <3>3. QED
      BY <1>1, <2>5, <2>6, <3>1, <3>2 DEF Distinct
  <2>8. QED
    BY <2>1, <2>3, <2>4, <2>5, <2>6, <2>7
<1> HIDE DEF new, all, len
<1>5. Shape'
  <2>1. Newest(all) \subseteq NonceEntry /\ \A e \in Addresses : Unexpired(nonceStore[e]) \subseteq NonceEntry
    BY <1>4 DEF Newest, Unexpired, Shape
  <2>2. nonceStore' \in [Addresses -> SUBSET NonceEntry]
    <3>1. nonceStore' = [e \in Addresses |-> nonceStore'[e]]
      BY DEF Challenge, AddNonce, CleanupNonces
    <3>2. QED
      BY <1>3, <2>1, <3>1
  <2>3. /\ Len(issued)' <= MaxChallenges /\ lost' \in 0..Len(issued)' /\ expired' \in 0..Len(issued)'
        /\ tried' \subseteq 1..Len(issued)'
    BY <1>1, <1>2, SignInAssumption DEF Shape, len
  <2>4. QED
    BY <1>1, <1>2, <2>2, <2>3 DEF Shape
<1>6. Attempts'
  BY <1>1 DEF Attempts
<1>7. Lists'
  <2> SUFFICES ASSUME NEW e \in Addresses
               PROVE  Short(e)' /\ Distinct(nonceStore[e])' /\ Own(e)' /\ Spent(e)'
    BY DEF Lists
  <2>0. Distinct(nonceStore[e]) /\ Own(e) /\ Spent(e) /\ Own(email) /\ Spent(email)
    BY DEF Lists
  <2>1. CASE e = email
    <3>1. IsFiniteSet(Newest(all)) /\ Cardinality(Newest(all)) <= MaxNonces
      BY <1>4, NewestBound
    <3>2. Newest(all) \subseteq all
      BY DEF Newest
    <3>3. ASSUME NEW x \in all
          PROVE  /\ x.nonce \in 1..(len + 1) /\ issued'[x.nonce] = email
                 /\ x.consumed = (x.nonce \in tried)
      <4>1. CASE x = new
        <5>1. x.nonce = len + 1 /\ x.consumed = FALSE
          BY <1>4, <4>1
        <5>2. (len + 1 \in tried) = FALSE
          BY <1>1 DEF Shape, len
        <5>3. x.nonce \in 1..(len + 1) /\ issued'[x.nonce] = email
          BY <1>1, <1>2, <5>1
        <5>4. x.consumed = (x.nonce \in tried)
          BY <5>1, <5>2
        <5>5. QED
          BY <5>3, <5>4
      <4>2. CASE x # new
        <5>1. x \in nonceStore[email] /\ x.nonce \in 1..len
          BY <1>4, <4>2
        <5>2. issued[x.nonce] = email /\ x.consumed = (x.nonce \in tried)
          BY <2>0, <5>1 DEF Own, Spent
        <5>3. QED
          BY <1>1, <1>2, <5>1, <5>2
      <4>3. QED
        BY <4>1, <4>2
    <3>4. Short(e)'
      BY <1>3, <2>1, <3>1 DEF Short
    <3>5. Distinct(nonceStore[e])'
      BY <1>3, <1>4, <2>1, <3>2 DEF Distinct
    <3>6. Own(e)'
      BY <1>2, <1>3, <2>1, <3>2, <3>3 DEF Own
    <3>7. Spent(e)'
      BY <1>1, <1>3, <2>1, <3>2, <3>3 DEF Spent
    <3>8. QED
      BY <3>4, <3>5, <3>6, <3>7
  <2>2. CASE e # email
    <3>1. nonceStore'[e] \subseteq nonceStore[e]
      BY <1>3, <2>2 DEF Unexpired
    <3>2. Short(e)'
      <4>1. Short(e) /\ MaxNonces \in Nat
        BY SignInAssumption DEF Lists
      <4>2. IsFiniteSet(nonceStore'[e]) /\ Cardinality(nonceStore'[e]) <= Cardinality(nonceStore[e])
        BY <3>1, <4>1, FS_Subset DEF Short
      <4>3. Cardinality(nonceStore'[e]) \in Nat /\ Cardinality(nonceStore[e]) \in Nat
        BY <4>1, <4>2, FS_CardinalityType DEF Short
      <4>4. QED
        BY <4>1, <4>2, <4>3 DEF Short
    <3>3. Distinct(nonceStore[e])'
      BY <2>0, <3>1 DEF Distinct
    <3>4. Own(e)'
      BY <1>1, <1>2, <2>0, <3>1 DEF Own, len
    <3>5. Spent(e)'
      BY <1>1, <2>0, <3>1 DEF Spent
    <3>6. QED
      BY <3>2, <3>3, <3>4, <3>5
  <2>3. QED
    BY <2>1, <2>2
<1>8. Listed'
  <2> SUFFICES ASSUME NEW n \in 1..(len + 1), Due(n)'
               PROVE  \E x \in nonceStore'[issued'[n]] : x.nonce = n
    BY <1>2 DEF Listed
  <2>1. IsFiniteSet(IssuedSince(n)') /\ Cardinality(IssuedSince(n)') < MaxNonces
        /\ Cardinality(IssuedSince(n)') \in Nat
    <3>1. IsFiniteSet((n + 1)..(len + 1))
      BY <1>1, FS_Interval
    <3>2. IsFiniteSet(IssuedSince(n)')
      BY <1>2, <3>1, FS_Subset DEF IssuedSince
    <3>3. QED
      BY <3>2, FS_CardinalityType DEF Due
  <2>2. \A x \in all : x.nonce = n /\ issued'[n] = email => x \in Newest(all)
    <3> SUFFICES ASSUME NEW x \in all, x.nonce = n, issued'[n] = email PROVE x \in Newest(all)
      OBVIOUS
    <3>1. \A y \in all : y.nonce > n => y.nonce \in IssuedSince(n)'
      <4> SUFFICES ASSUME NEW y \in all, y.nonce > n PROVE y.nonce \in IssuedSince(n)'
        OBVIOUS
      <4>1. y.nonce \in 1..(len + 1) /\ issued'[y.nonce] = email
        <5>1. CASE y = new
          BY <1>1, <1>2, <1>4, <5>1
        <5>2. CASE y # new
          <6>1. y \in nonceStore[email] /\ y.nonce \in 1..len
            BY <1>4, <5>2
          <6>2. issued[y.nonce] = email
            BY <6>1 DEF Lists, Own
          <6>3. QED
            BY <1>1, <1>2, <6>1, <6>2
        <5>3. QED
          BY <5>1, <5>2
      <4>2. QED
        BY <1>1, <1>2, <4>1 DEF IssuedSince
    <3>2. Cardinality(Newer(all, x)) <= Cardinality(IssuedSince(n)')
      BY <1>4, <2>1, <3>1, NewerAreSince
    <3>3. Cardinality(Newer(all, x)) \in Nat
      <4>1. IsFiniteSet(Newer(all, x))
        BY <1>4, FS_Subset DEF Newer
      <4>2. QED
        BY <4>1, FS_CardinalityType
    <3>4. QED
      BY <2>1, <3>2, <3>3, SignInAssumption DEF Newest
  <2>3. CASE n = len + 1
    BY <1>2, <1>3, <1>4, <2>2, <2>3
  <2>4. CASE n \in 1..len
    <3>1. IssuedSince(n) \subseteq IssuedSince(n)'
      BY <1>1, <1>2, <2>4 DEF IssuedSince, len
    <3>2. Due(n)
      <4>1. Cardinality(IssuedSince(n)) <= Cardinality(IssuedSince(n)')
        BY <2>1, <3>1, FS_Subset
      <4>2. Cardinality(IssuedSince(n)) \in Nat
        BY <2>4, SinceFacts DEF len
      <4>3. QED
        BY <1>1, <2>1, <4>1, <4>2, SignInAssumption DEF Due
    <3>3. PICK x \in nonceStore[issued[n]] : x.nonce = n
      BY <2>4, <3>2 DEF Listed, len
    <3>4. x \in Unexpired(nonceStore[issued[n]]) /\ issued'[n] = issued[n] /\ issued[n] \in Addresses
      BY <1>2, <2>4, <3>2, <3>3 DEF Unexpired, Live, Due, Shape, len
    <3>5. CASE issued[n] = email
      BY <1>3, <2>2, <3>3, <3>4, <3>5 DEF all
    <3>6. CASE issued[n] # email
      BY <1>3, <3>3, <3>4, <3>6
    <3>7. QED
      BY <3>5, <3>6
  <2>5. n = len + 1 \/ n \in 1..len
    BY <1>1
  <2>6. QED
    BY <2>3, <2>4, <2>5
<1>9. QED
  BY <1>5, <1>6, <1>7, <1>8

(* The entry a login brings stays in its list, consumed.                   *)
LEMMA LoginStep ==
    ASSUME SignInInv, NEW email \in Addresses, NEW nonce \in Nonces, NEW right \in BOOLEAN,
           Login(email, nonce, right)
    PROVE  SignInInv'
<1> USE DEF SignInInv
<1> DEFINE old == nonceStore[email]
           used == [nonce |-> nonce, consumed |-> TRUE]
           rest == {entry \in old : entry.nonce # nonce}
           new == rest \cup {used}
<1>1. /\ nonceStore' = [nonceStore EXCEPT ![email] = new]
      /\ tried' = tried \cup {nonce}
      /\ sessions' = IF right THEN [sessions EXCEPT ![nonce] = @ + 1] ELSE sessions
      /\ UNCHANGED <<accounts, issued, expired, lost>>
  BY DEF Login, Consumed
<1>2. PICK x \in old : x.nonce = nonce /\ ~x.consumed
  BY DEF Login, Usable
<1>3. /\ nonce \in 1..Len(issued) /\ issued[nonce] = email /\ nonce \notin tried
      /\ used \in NonceEntry /\ used.nonce = nonce /\ used.consumed = TRUE
      /\ IsFiniteSet(old) /\ Cardinality(old) <= MaxNonces /\ old \subseteq NonceEntry
      /\ Distinct(old)
  <2>1. Short(email) /\ Distinct(old) /\ Own(email) /\ Spent(email) /\ old \subseteq NonceEntry
    BY DEF Lists, Shape
  <2>2. nonce \in 1..Len(issued) /\ issued[nonce] = email
    BY <1>2, <2>1 DEF Own
  <2>3. nonce \notin tried
    BY <1>2, <2>1 DEF Spent
  <2>4. used \in NonceEntry
    BY DEF NonceEntry
  <2>5. QED
    BY <2>1, <2>2, <2>3, <2>4 DEF Short
<1>4. rest = old \ {x}
  BY <1>2, <1>3 DEF Distinct
<1>5. IsFiniteSet(new) /\ Cardinality(new) <= MaxNonces
  <2> HIDE DEF old, rest, used
  <2>1. IsFiniteSet(rest) /\ Cardinality(rest) = Cardinality(old) - 1
    <3>1. x \in old /\ IsFiniteSet(old)
      BY <1>2, <1>3
    <3>2. IsFiniteSet(old \ {x}) /\ Cardinality(old \ {x}) = Cardinality(old) - 1
      BY <3>1, FS_RemoveElement
    <3>3. QED
      BY <1>4, <3>2
  <2>2. /\ IsFiniteSet(new)
        /\ Cardinality(new) = IF used \in rest THEN Cardinality(rest) ELSE Cardinality(rest) + 1
    BY <2>1, FS_AddElement
  <2>3. Cardinality(rest) \in Nat /\ Cardinality(old) \in Nat /\ Cardinality(new) \in Nat
    BY <1>3, <2>1, <2>2, FS_CardinalityType
  <2>4. QED
    BY <1>3, <2>1, <2>2, <2>3, SignInAssumption
<1>6. Distinct(new)
  BY <1>3 DEF Distinct
<1>7. \A y \in new : y = used \/ (y \in old /\ y.nonce # nonce)
  OBVIOUS
<1>8. \A n \in Nat : (\E y \in old : y.nonce = n) => \E y \in new : y.nonce = n
  BY <1>3
<1> HIDE DEF used, rest, new
<1>9. /\ nonceStore'[email] = new /\ \A e \in Addresses \ {email} : nonceStore'[e] = nonceStore[e]
      /\ nonceStore' \in [Addresses -> SUBSET NonceEntry]
  BY <1>1, <1>3, <1>7 DEF Shape
<1>10. Shape'
  BY <1>1, <1>3, <1>9 DEF Shape
<1>11. Lists'
  <2> SUFFICES ASSUME NEW e \in Addresses
               PROVE  Short(e)' /\ Distinct(nonceStore[e])' /\ Own(e)' /\ Spent(e)'
    BY DEF Lists
  <2>0. Short(e) /\ Distinct(nonceStore[e]) /\ Own(e) /\ Spent(e)
    BY DEF Lists
  <2>1. CASE e = email
    <3>1. Short(e)' /\ Distinct(nonceStore[e])'
      BY <1>5, <1>6, <1>9, <2>1 DEF Short
    <3>2. Own(e)'
      BY <1>1, <1>3, <1>7, <1>9, <2>0, <2>1 DEF Own
    <3>3. Spent(e)'
      <4> SUFFICES ASSUME NEW y \in new PROVE y.consumed = (y.nonce \in tried')
        BY <1>9, <2>1 DEF Spent
      <4>1. CASE y = used
        <5>1. (nonce \in tried') = TRUE
          BY <1>1
        <5>2. QED
          BY <1>3, <4>1, <5>1
      <4>2. CASE y \in old /\ y.nonce # nonce
        <5>1. y.consumed = (y.nonce \in tried)
          BY <2>0, <2>1, <4>2 DEF Spent
        <5>2. (y.nonce \in tried') = (y.nonce \in tried)
          BY <1>1, <4>2
        <5>3. QED
          BY <5>1, <5>2
      <4>3. QED
        BY <1>7, <4>1, <4>2
    <3>4. QED
      BY <3>1, <3>2, <3>3
  <2>2. CASE e # email
    <3>1. nonceStore'[e] = nonceStore[e]
      BY <1>9, <2>2
    <3>2. Short(e)' /\ Distinct(nonceStore[e])' /\ Own(e)'
      BY <1>1, <2>0, <3>1 DEF Short, Own
    <3>3. \A y \in nonceStore[e] : y.nonce # nonce
      BY <1>3, <2>0, <2>2 DEF Own
    <3>4. Spent(e)'
      BY <1>1, <2>0, <3>1, <3>3 DEF Spent
    <3>5. QED
      BY <3>2, <3>4
  <2>3. QED
    BY <2>1, <2>2
<1>12. Attempts'
  BY <1>1, <1>3 DEF Attempts, Shape
<1>13. Listed'
  BY <1>1, <1>8, <1>9 DEF Listed, Due, IssuedSince, Shape
<1>14. QED
  BY <1>10, <1>11, <1>12, <1>13

(* Nonces expire, the lists are lost, accounts come and go.                *)
LEMMA OtherSteps ==
    ASSUME SignInInv,
           \/ UNCHANGED signInVars \/ Expire \/ Restart
           \/ \E email \in Addresses : AccountComes(email) \/ AccountGoes(email)
    PROVE  SignInInv'
<1> USE DEF SignInInv
<1>1. UNCHANGED <<issued, tried, sessions>> /\ accounts' \subseteq Addresses
  BY DEF signInVars, Expire, Restart, AccountComes, AccountGoes, Shape
<1>2. CASE Restart
  <2>1. Shape' /\ Attempts'
    BY <1>1, <1>2 DEF Restart, Shape, Attempts
  <2>2. Lists'
    BY <1>2, FS_EmptySet, SignInAssumption DEF Restart, Lists, Short, Own, Spent, Distinct
  <2>3. Listed'
    BY <1>1, <1>2 DEF Restart, Listed, Due, Shape
  <2>4. QED
    BY <2>1, <2>2, <2>3
<1>3. CASE ~Restart
  <2>1. UNCHANGED <<nonceStore, lost>> /\ expired' \in 0..Len(issued) /\ expired <= expired'
    BY <1>3 DEF signInVars, Expire, AccountComes, AccountGoes, Shape
  <2>2. Shape' /\ Attempts' /\ Lists'
    BY <1>1, <2>1 DEF Shape, Attempts, Lists, Short, Own, Spent
  <2>3. Listed'
    BY <1>1, <2>1 DEF Listed, Due, IssuedSince, Shape
  <2>4. QED
    BY <2>2, <2>3
<1>4. QED
  BY <1>2, <1>3

(* It holds in every state that can be reached.                            *)
LEMMA SignInInductive == SignInSpec => []SignInInv
<1>1. SignInInv /\ [SignInNext]_signInVars => SignInInv'
  BY ChallengeStep, LoginStep, OtherSteps DEF SignInNext
<1>2. QED
  BY <1>1, SignInStart, PTL DEF SignInSpec
-----------------------------------------------------------------------------
(* Every variable keeps its type, and no list of nonces, whoever asks for  *)
(* however many, is longer than MAX_NONCES_PER_EMAIL.                      *)
THEOREM SignInTypeCorrect == SignInSpec => []SignInTypeOK
<1>1. SignInInv => SignInTypeOK
  BY DEF SignInInv, Shape, Lists, Short, SignInTypeOK
<1>2. QED
  BY <1>1, SignInInductive, PTL

(* However logins are delayed and repeated and lists pruned, a nonce gives *)
(* one session at most, is spent by the first login that brings it, and is *)
(* good for the email it was issued to only (consumeNonce).                *)
THEOREM NonceIsSpentOnce == SignInSpec => []OneAttempt
<1>1. SignInInv => OneAttempt
  <2> SUFFICES ASSUME SignInInv PROVE OneAttempt
    OBVIOUS
  <2>1. ASSUME NEW e \in Addresses, NEW n, Usable(e, n)
        PROVE  n \in 1..Len(issued) /\ issued[n] = e /\ n \notin tried
    <3>1. PICK x \in nonceStore[e] : x.nonce = n /\ ~x.consumed
      BY <2>1 DEF Usable
    <3>2. Own(e) /\ Spent(e)
      BY DEF SignInInv, Lists
    <3>3. n \in 1..Len(issued) /\ issued[n] = e
      BY <3>1, <3>2 DEF Own
    <3>4. n \notin tried
      BY <3>1, <3>2 DEF Spent
    <3>5. QED
      BY <3>3, <3>4
  <2>2. QED
    BY <2>1 DEF SignInInv, Shape, Attempts, OneAttempt
<1>2. QED
  BY <1>1, SignInInductive, PTL

(* A nonce that lives, was not tried and has fewer than MAX_NONCES_PER_    *)
(* EMAIL newer ones of its email is accepted, whatever others ask for.     *)
THEOREM PromptAnswerIsAccepted == SignInSpec => []PromptAnswerCounts
<1>1. SignInInv => PromptAnswerCounts
  <2> SUFFICES ASSUME SignInInv, NEW n \in 1..Len(issued), Due(n), n \notin tried
               PROVE  Usable(issued[n], n)
    BY DEF PromptAnswerCounts, Due
  <2>1. issued[n] \in Addresses
    BY DEF SignInInv, Shape
  <2>2. PICK x \in nonceStore[issued[n]] : x.nonce = n
    BY DEF SignInInv, Listed
  <2>3. ~x.consumed /\ Live(x)
    BY <2>1, <2>2 DEF SignInInv, Lists, Spent, Due, Live
  <2>4. QED
    BY <2>2, <2>3 DEF Usable
<1>2. QED
  BY <1>1, SignInInductive, PTL
==============================================================================
