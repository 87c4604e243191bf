----------------------------- MODULE MCSpaceKeys -----------------------------
(***************************************************************************)
(* Instances of SpaceKeys for TLC: the account that makes the Space, with  *)
(* two devices that do not know of each other's requests, and one that     *)
(* joins, leaves, is rotated out, purged, and comes back, with a device.   *)
(***************************************************************************)
EXTENDS SpaceKeys

CONSTANTS ann, bob, a2, b1

MCUserOf == [d \in Devices |-> IF d = b1 THEN bob ELSE ann]

(* Bounds: of the owner's second device and the member's, one at most is   *)
(* ever given a key; and no stale key lands in a behaviour with a purge.   *)
MCBound ==
    /\ held[a2] = NoRow \/ held[b1] = NoRow
    /\ gone = {} \/ stale = 0
==============================================================================
