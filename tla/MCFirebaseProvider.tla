------------------------- MODULE MCFirebaseProvider -------------------------
(***************************************************************************)
(* A small instance of FirebaseProvider for TLC.  WaitEnds is a liveness   *)
(* property, so no symmetry is used.                                       *)
(***************************************************************************)
EXTENDS FirebaseProvider

=============================================================================
