--------------------------- MODULE MCInstallations ---------------------------
(***************************************************************************)
(* A small instance of Installations for TLC: three devices of one account *)
(* over a limit of two, and time past all windows, which keep the order of *)
(* the code's 30, 45 and 90 days.                                          *)
(***************************************************************************)
EXTENDS Installations

==============================================================================
