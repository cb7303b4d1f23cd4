----------------------------- MODULE MCScheduler -----------------------------
(***************************************************************************)
(* Small instances of Scheduler for TLC.  One tick of the clock stands for *)
(* the shortest budget; only the order of the budgets matters.             *)
(***************************************************************************)
EXTENDS SchedulerInvariant, TLC

\* Workers are interchangeable, and so are targets.
Interchangeable == Permutations(Workers) \cup Permutations(Targets)

==============================================================================
