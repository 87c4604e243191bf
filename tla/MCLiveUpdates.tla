--------------------------- MODULE MCLiveUpdates ---------------------------
(***************************************************************************)
(* An instance of LiveUpdates for TLC.  There are liveness properties, so   *)
(* nothing is symmetric.                                                    *)
(***************************************************************************)
EXTENDS LiveUpdates
==============================================================================
