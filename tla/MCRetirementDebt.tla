--------------------------- MODULE MCRetirementDebt ---------------------------
(***************************************************************************)
(* A small instance of RetirementDebt for TLC.                             *)
(***************************************************************************)
EXTENDS RetirementDebt, TLC

\* Workers are interchangeable, and so are targets.
Interchangeable == Permutations(Workers) \cup Permutations(Targets)

===============================================================================
