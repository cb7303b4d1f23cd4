--------------------------- MODULE MCIosLifecycle ---------------------------
(***************************************************************************)
(* Small instances of IosLifecycle for TLC.  CallsEnd is a liveness        *)
(* property, so no symmetry is used.                                       *)
(***************************************************************************)
EXTENDS IosLifecycle

==============================================================================
