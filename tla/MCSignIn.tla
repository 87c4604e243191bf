------------------------------ MODULE MCSignIn ------------------------------
(***************************************************************************)
(* Instances of SignIn for TLC.  No email is special; every property is a   *)
(* safety property.                                                         *)
(***************************************************************************)
EXTENDS SignIn, TLC

MCSymmetry == Permutations(Addresses)
==============================================================================
