----------------------------- MODULE SpaceGroup -----------------------------
(***************************************************************************)
(* What the server promises of a Space's members: the first to bring a key  *)
(* founds it, only then does anyone join, whoever founded it stays, and who *)
(* else goes does so in a rotation or leaves one to do; but a demo account  *)
(* is purged when its time ends, whatever it is to the Space.               *)
(***************************************************************************)
EXTENDS Naturals

CONSTANTS Users, NoUser, Demos

VARIABLES members, owner, version, flag

vars == <<members, owner, version, flag>>

(* A Space from before owners were recorded has members and no owner.      *)
Init ==
    /\ members \in SUBSET Users /\ owner = NoUser
    /\ version = 1 /\ flag = FALSE

Found(u) ==
    /\ owner = NoUser
    /\ owner' = u /\ members' = members \cup {u}
    /\ UNCHANGED <<version, flag>>

Join(u) ==
    /\ owner # NoUser
    /\ members' = members \cup {u}
    /\ UNCHANGED <<owner, version, flag>>

Leave(u) ==
    /\ u \in members \ {owner}
    /\ members' = members \ {u}
    /\ flag' = (flag \/ owner # NoUser)
    /\ UNCHANGED <<owner, version>>

Purge(u) ==
    /\ u \in Demos
    /\ members' = members \ {u}
    /\ UNCHANGED <<owner, version, flag>>

Rotate(removed) ==
    /\ owner # NoUser /\ removed \subseteq members \ {owner}
    /\ members' = members \ removed
    /\ version' = version + 1 /\ flag' = FALSE
    /\ UNCHANGED owner

Next ==
    \/ \E u \in Users : Found(u) \/ Join(u) \/ Leave(u) \/ Purge(u)
    \/ \E removed \in SUBSET Users : Rotate(removed)

Spec == Init /\ [][Next]_vars
=============================================================================
