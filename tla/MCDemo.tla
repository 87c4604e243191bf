------------------------------- MODULE MCDemo -------------------------------
(***************************************************************************)
(* An instance of Demo for TLC.  There is a liveness property, so nothing   *)
(* is symmetric.                                                            *)
(***************************************************************************)
EXTENDS Demo
==============================================================================
