-------------------------- MODULE ScheduleContract --------------------------
(***************************************************************************)
(* What a schedule promises its caller, without workers, leases or         *)
(* attempts (the Store contract of scheduler/schedule.go): a schedule is   *)
(* open until it is closed, only a replacement opens it again, its         *)
(* progress grows while one occurrence lasts, and occurrences move forward.*)
(***************************************************************************)
EXTENDS Integers

CONSTANTS Keys, Targets

VARIABLE sched    \* Keys -> [gen, phase, due, done]

Phases == {"none", "open", "closed"}

Only(k) == \A j \in Keys \ {k} : sched'[j] = sched[j]

Init ==
  sched = [k \in Keys |-> [gen |-> 0, phase |-> "none", due |-> 0, done |-> {}]]

\* A new schedule, or one that replaces the schedule stored under its key.
Schedule(k) ==
  /\ sched'[k].gen > sched[k].gen
  /\ sched'[k].phase = "open"
  /\ sched'[k].done = {}
  /\ Only(k)

Cancel(k) ==
  /\ sched[k].phase # "none"
  /\ sched'[k] = [sched[k] EXCEPT !.phase = "closed"]
  /\ Only(k)

\* The outcome of an attempt: more targets are done with, and perhaps it is over.
Record(k) ==
  /\ sched[k].phase = "open"
  /\ sched'[k].gen = sched[k].gen
  /\ sched'[k].due = sched[k].due
  /\ sched[k].done \subseteq sched'[k].done
  /\ sched'[k].phase \in {"open", "closed"}
  /\ Only(k)

\* A daily schedule moves on to a later occurrence.
MoveOn(k) ==
  /\ sched[k].phase = "open"
  /\ sched'[k].gen = sched[k].gen
  /\ sched'[k].phase = "open"
  /\ sched'[k].due > sched[k].due
  /\ sched'[k].done = {}
  /\ Only(k)

Next == \E k \in Keys : Schedule(k) \/ Cancel(k) \/ Record(k) \/ MoveOn(k)

Spec == Init /\ [][Next]_sched

=============================================================================
