---------------------------- MODULE ContentStore ----------------------------
(***************************************************************************)
(* What the server promises of one document's content: it only grows, each  *)
(* version is of one content for good, and the hash is of that content or   *)
(* there is none.  A write that names no version ends the promise of the    *)
(* hash and of growth, a COMPACT frame that of growth alone; deleting the   *)
(* document ends none.                                                     *)
(***************************************************************************)
EXTENDS Naturals

CONSTANT Ops

VARIABLES content, version, fresh, hash, guarded, relayed

vars == <<content, version, fresh, hash, guarded, relayed>>

NoHash == {}

Init ==
    /\ content = {} /\ version = 0 /\ fresh = 1
    /\ hash = NoHash
    /\ guarded = TRUE /\ relayed = TRUE

(* New content, at a version that no other content ever had.               *)
Put(new) == content' = new /\ version' = fresh /\ fresh' = fresh + 1

Grow ==
    \E more \in SUBSET Ops :
        /\ Put(content \cup more)
        /\ hash' \in {NoHash, {content \cup more}}
        /\ UNCHANGED <<guarded, relayed>>

Stamp == hash' = {content} /\ UNCHANGED <<content, version, fresh, guarded, relayed>>

Forget == hash' = NoHash /\ UNCHANGED <<content, version, fresh, guarded, relayed>>

Delete ==
    /\ content' = {} /\ version' = 0
    /\ UNCHANGED <<fresh, hash, guarded, relayed>>

WriteUnguarded ==
    /\ \E new, hashed \in SUBSET Ops : Put(new) /\ hash' \in {NoHash, {hashed}}
    /\ guarded' = FALSE
    /\ UNCHANGED relayed

Compact ==
    /\ \E new \in SUBSET Ops : Put(new)
    /\ hash' = NoHash /\ relayed' = FALSE
    /\ UNCHANGED guarded

(* What is relayed may not be all there is, and nothing else changes.      *)
Unrelayed == relayed' = FALSE /\ UNCHANGED <<content, version, fresh, hash, guarded>>

Next == Grow \/ Stamp \/ Forget \/ Delete \/ WriteUnguarded \/ Compact \/ Unrelayed

Spec == Init /\ [][Next]_vars
=============================================================================
