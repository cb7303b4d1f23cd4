---------------------------- MODULE RetirementDebt ----------------------------
(***************************************************************************)
(* What the schedules owe: Scheduler, with a history of the installations  *)
(* that a provider reported as unregistered and that no retirement has     *)
(* disabled since.  The history steers nothing and reads no InvalidTargets *)
(* but those that a successful retirement was given, so a worker that      *)
(* drops one from its document is found out.                               *)
(***************************************************************************)
EXTENDS SchedulerInvariant

VARIABLES
  debt,   \* Workers -> what the job in the worker's hands owes
  owed    \* Keys -> what the last recorded attempt of the schedule left

debtVars == <<vars, debt, owed>>

Debts(w, S) == debt' = [debt EXCEPT ![w] = S]
Owes(k, S) == owed' = [owed EXCEPT ![k] = S]

DebtInit ==
  /\ Init
  /\ debt = [w \in Workers |-> {}]
  /\ owed = [k \in Keys |-> {}]

\* A worker takes over what earlier attempts left.
TakesOver(w) == ClaimWon(w) /\ Debts(w, owed[worker[w].key]) /\ UNCHANGED owed

\* The send reports more.
Learns(w) ==
  /\ \E unregistered, perm, unresolved \in SUBSET Targets :
       /\ SendReturns(w, unregistered, perm, unresolved)
       /\ Debts(w, debt[w] \cup unregistered)
  /\ UNCHANGED owed

\* A retirement that succeeds settles what it was given.
Repays(w) ==
  Retire(w) /\ Debts(w, debt[w] \ worker[w].updated.invalid) /\ UNCHANGED owed

\* The acknowledgement puts the rest on record, answered or not.
Records(w) ==
  /\ Finish(w) \/ FinishUnknown(w)
  /\ Owes(worker[w].key, debt[w])
  /\ Debts(w, {})

\* A worker that gets no acknowledgement through forgets; the schedule does not.
Forgets(w) == (FinishLost(w) \/ Abandon(w)) /\ Debts(w, {}) /\ UNCHANGED owed

\* A replacement is a new schedule, which owes nothing.
Replaces(k) == (PutOneOff(k) \/ PutDaily(k)) /\ Owes(k, {}) /\ UNCHANGED debt

OwesTheSame(w) ==
  /\ \/ StartTick(w) \/ EndTick(w) \/ Query(w) \/ ClaimLost(w) \/ ClaimUnknown(w)
     \/ LookupFails(w) \/ Lookup(w) \/ RetireFails(w)
     \/ \E t \in Targets : Accept(w, t)
  /\ UNCHANGED <<debt, owed>>

DebtStep(w) ==
  TakesOver(w) \/ Learns(w) \/ Repays(w) \/ Records(w) \/ Forgets(w) \/ OwesTheSame(w)

DebtNext ==
  \/ \E w \in Workers : DebtStep(w)
  \/ \E k \in Keys : Replaces(k)
  \/ (ChangeDevices \/ Advance \/ \E k \in Keys : Cancel(k)) /\ UNCHANGED <<debt, owed>>

DebtSpec == DebtInit /\ [][DebtNext]_debtVars

------------------------------------------------------------------------------
(* Property *)

\* "Failed retirement is persisted and retried without resending an acknowledged
\* target" (docs/architecture.md): whatever was reported as unregistered in an
\* attempt on record, and not retired since, is among the InvalidTargets that the
\* next attempt will retire, through failed and unanswered retirements, crashes and
\* lost leases; until then the schedule is not done and not at its next occurrence,
\* and the target is not sent to again.  A replacement starts without the debt, and a
\* schedule that failed for good or was canceled keeps it but is not tried again.
RetirementOutstanding ==
  \A k \in Keys : owed[k] # {} =>
    /\ owed[k] \subseteq docs[k].invalid
    /\ owed[k] \subseteq docs[k].completed
    /\ docs[k].state # "done"
    /\ docs[k].attempts > 0

===============================================================================
