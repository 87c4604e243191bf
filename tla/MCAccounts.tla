----------------------------- MODULE MCAccounts -----------------------------
(***************************************************************************)
(* Instances of Accounts for TLC.  Neither emails nor accounts differ among *)
(* themselves; every property is a safety property.                         *)
(***************************************************************************)
EXTENDS Accounts, TLC

MCSymmetry == Permutations(Emails) \cup Permutations(Ids)
==============================================================================
