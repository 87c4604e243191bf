----------------------------- MODULE MCDocTree ------------------------------
(***************************************************************************)
(* Instances of DocTree for TLC.  The devices run the same actions and no  *)
(* document but the home is special, so both sets are symmetric; every     *)
(* property is a safety property.                                          *)
(***************************************************************************)
EXTENDS DocTree, TLC

MCSymmetry == Permutations(Devices) \cup Permutations(Ids \ {Home})
==============================================================================
