---------------------------- MODULE MCMigrations ----------------------------
(***************************************************************************)
(* An instance of Migrations for TLC: two documents, one of which may be    *)
(* the other's parent.                                                     *)
(***************************************************************************)
EXTENDS Migrations, TLC

Symmetry == Permutations(Ids)
=============================================================================
