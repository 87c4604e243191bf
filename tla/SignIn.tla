------------------------------- MODULE SignIn -------------------------------
(***************************************************************************)
(* Signing in with a key pair (routes/auth.ts): a device asks for a nonce,  *)
(* signs it and sends both back.  The nonces of the last 30 seconds are in  *)
(* the memory of the server, a list for each email, so that several devices *)
(* of one person may sign in at once.                                       *)
(*                                                                          *)
(* A nonce is named by its number.  A new one goes to the end of the list,  *)
(* so a list is in the order of the numbers, and is the set of its entries. *)
(* All live equally long, so they expire in the order they were issued.     *)
(* Whatever was issued may be sent in any number of logins at any time:     *)
(* requests are delayed and repeated.                                       *)
(***************************************************************************)
EXTENDS Naturals, FiniteSets, Sequences

CONSTANTS
    Addresses,      \* emails, of accounts or of none
    MaxNonces,      \* MAX_NONCES_PER_EMAIL
    MaxChallenges   \* bound: nonces ever issued

ASSUME SignInAssumption ==
    /\ MaxNonces \in Nat \ {0}
    /\ MaxChallenges \in Nat \ {0}

VARIABLES
    accounts,   \* the emails with an account
    nonceStore, \* per email, the nonces kept
    issued,     \* history: whom each nonce was issued to
    expired,    \* the first so many nonces are past their time
    lost,       \* history: nonces issued before the server last started
    tried,      \* history: the nonces a login of their email has brought
    sessions    \* history: sessions given for each nonce

signInVars == <<accounts, nonceStore, issued, expired, lost, tried, sessions>>

Nonces == 1..MaxChallenges
NonceEntry == [nonce : Nonces, consumed : BOOLEAN]
Live(entry) == entry.nonce > expired

SignInInit ==
    /\ accounts = {}
    /\ nonceStore = [e \in Addresses |-> {}]
    /\ issued = <<>> /\ expired = 0 /\ lost = 0
    /\ tried = {}
    /\ sessions = [n \in Nonces |-> 0]
-----------------------------------------------------------------------------
(* The store.                                                              *)

Unexpired(entries) == {entry \in entries : Live(entry)}

Newer(entries, entry) == {other \in entries : other.nonce > entry.nonce}

(* Mutant: the store as it was, one nonce for each email.                  *)
NewestOne(entries) == {entry \in entries : Newer(entries, entry) = {}}

(* Mutant: one more than the bound.                                        *)
NewestAndOne(entries) ==
    {entry \in entries : Cardinality(Newer(entries, entry)) <= MaxNonces}

Newest(entries) == {entry \in entries : Cardinality(Newer(entries, entry)) < MaxNonces}

CleanupNonces == [e \in Addresses |-> Unexpired(nonceStore[e])]

AddNonce(store, email, nonce) ==
    [store EXCEPT ![email] = Newest(Unexpired(@) \cup {[nonce |-> nonce, consumed |-> FALSE]})]

(* Mutant: a consumed nonce is as good as a new one.                       *)
UsableTwice(email, nonce) ==
    \E entry \in nonceStore[email] : entry.nonce = nonce /\ Live(entry)

(* What consumeNonce finds.                                                *)
Usable(email, nonce) ==
    \E entry \in nonceStore[email] : entry.nonce = nonce /\ ~entry.consumed /\ Live(entry)

Consumed(email, nonce) ==
    [nonceStore EXCEPT ![email] =
        {entry \in @ : entry.nonce # nonce} \cup {[nonce |-> nonce, consumed |-> TRUE]}]
-----------------------------------------------------------------------------
(* GET /challenge, for any email, with an account or not.                  *)
Challenge(email) ==
    /\ Len(issued) < MaxChallenges
    /\ nonceStore' = AddNonce(CleanupNonces, email, Len(issued) + 1)
    /\ issued' = Append(issued, email)
    /\ UNCHANGED <<accounts, expired, lost, tried, sessions>>

(* POST /login and /login/token: the account is looked up first, then the  *)
(* nonce is spent, then the signature is verified.                         *)
Login(email, nonce, right) ==
    /\ email \in accounts
    /\ Usable(email, nonce)
    /\ nonceStore' = Consumed(email, nonce)
    /\ tried' = tried \cup {nonce}
    /\ sessions' = IF right THEN [sessions EXCEPT ![nonce] = @ + 1] ELSE sessions
    /\ UNCHANGED <<accounts, issued, expired, lost>>

(* The oldest nonce still live comes to its end; it leaves the store later. *)
Expire ==
    /\ expired < Len(issued)
    /\ expired' = expired + 1
    /\ UNCHANGED <<accounts, nonceStore, issued, lost, tried, sessions>>

(* The server stops and starts: the store was in its memory.               *)
Restart ==
    /\ nonceStore' = [e \in Addresses |-> {}]
    /\ lost' = Len(issued)
    /\ UNCHANGED <<accounts, issued, expired, tried, sessions>>

(* POST /register, and DELETE /admin/users: what is kept of an email's     *)
(* nonces does not change.                                                 *)
AccountComes(email) ==
    /\ email \notin accounts
    /\ accounts' = accounts \cup {email}
    /\ UNCHANGED <<nonceStore, issued, expired, lost, tried, sessions>>

AccountGoes(email) ==
    /\ email \in accounts
    /\ accounts' = accounts \ {email}
    /\ UNCHANGED <<nonceStore, issued, expired, lost, tried, sessions>>

SignInNext ==
    \/ \E email \in Addresses :
          \/ Challenge(email)
          \/ \E nonce \in Nonces, right \in BOOLEAN : Login(email, nonce, right)
          \/ AccountComes(email)
          \/ AccountGoes(email)
    \/ Expire
    \/ Restart

SignInSpec == SignInInit /\ [][SignInNext]_signInVars
-----------------------------------------------------------------------------
(* No list is longer than its bound, and every variable has its shape.     *)
SignInTypeOK ==
    /\ accounts \subseteq Addresses
    /\ nonceStore \in [Addresses -> SUBSET NonceEntry]
    /\ \A e \in Addresses : Cardinality(nonceStore[e]) <= MaxNonces
    /\ issued \in Seq(Addresses) /\ Len(issued) <= MaxChallenges
    /\ expired \in 0..Len(issued) /\ lost \in 0..Len(issued)
    /\ tried \subseteq 1..Len(issued)
    /\ sessions \in [Nonces -> Nat]

(* A nonce is worth one attempt, right or wrong: whatever is sent again,   *)
(* in whatever order lists are pruned, no second login passes with it, and *)
(* none but the email it was issued to can use it (consumeNonce).          *)
OneAttempt ==
    /\ \A n \in Nonces : sessions[n] <= 1
    /\ \A n \in tried : \A e \in Addresses : ~Usable(e, n)
    /\ \A e \in Addresses, n \in Nonces : Usable(e, n) => n <= Len(issued) /\ issued[n] = e

(* The nonces issued to the same email since.                              *)
IssuedSince(n) == {m \in (n + 1)..Len(issued) : issued[m] = issued[n]}

(* A device that answers its challenge in time is not refused for another  *)
(* device's sake: a nonce that has not expired and was not sent yet can be  *)
(* used unless the server restarted or MaxNonces were issued to its email  *)
(* since, whatever other emails ask for (the comment on nonceStore).       *)
PromptAnswerCounts ==
    \A n \in 1..Len(issued) :
        n > expired /\ n > lost /\ n \notin tried /\ Cardinality(IssuedSince(n)) < MaxNonces
            => Usable(issued[n], n)
==============================================================================
