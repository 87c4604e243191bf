---------------------------- MODULE MCContentLog ----------------------------
(***************************************************************************)
(* Instances of ContentLog for TLC.  The devices run the same actions and  *)
(* no operation is special, so both sets are symmetric; every property is  *)
(* a safety property.                                                      *)
(***************************************************************************)
EXTENDS ContentLog, TLC

MCSymmetry == Permutations(Devices) \cup Permutations(Ops)
==============================================================================
