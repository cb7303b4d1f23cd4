-------------------------- MODULE MCAndroidManager --------------------------
(***************************************************************************)
(* A small instance of AndroidManager for TLC.  Reachable is a liveness    *)
(* property, so no symmetry is used.                                       *)
(***************************************************************************)
EXTENDS AndroidManager

=============================================================================
