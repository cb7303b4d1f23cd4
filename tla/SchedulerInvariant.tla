------------------------- MODULE SchedulerInvariant -------------------------
(***************************************************************************)
(* Why the properties of Scheduler hold: the facts about leases and        *)
(* deadlines that every step keeps.  Fencing needs nothing but the         *)
(* compare of Finish and fresh tokens; LeaseExclusion needs the budgets to *)
(* fit into the lease.                                                     *)
(***************************************************************************)
EXTENDS Scheduler

InFlightAt(s) == s.pc \in InFlight

\* u is the job j in the hands of deliver.
Underway(j, u) ==
  /\ u.gen = j.gen
  /\ u.daily = j.daily
  /\ u.state = "ready"
  /\ u.leaseToken = NoLease
  /\ u.dueAt = j.dueAt
  /\ u.dueAt <= u.availableAt
  /\ j.completed \subseteq u.completed

\* u is what deliver made of the job j.
Outcome(j, u) ==
  /\ u.gen = j.gen
  /\ u.state \in {"ready", "done", "failed"}
  /\ u.leaseToken = NoLease
  /\ u.dueAt <= u.availableAt
  /\ \/ u.dueAt = j.dueAt /\ j.completed \subseteq u.completed
     \/ u.dueAt > j.dueAt /\ u.state = "ready" /\ u.completed = {}

\* The stored documents and the tokens given out.
DocsOK ==
  \A k \in Keys :
    /\ docs[k].leaseToken < nextToken
    /\ docs[k].dueAt <= docs[k].availableAt
    /\ docs[k].gen <= puts

\* A worker whose token is still stored holds the stored job: nothing has come
\* between its claim and its acknowledgement.
FencedAt(s) ==
  /\ s.pc = "claim" => s.now <= clock
  /\ InFlightAt(s) =>
       /\ s.job.leaseToken # NoLease
       /\ s.job.leaseToken < nextToken
       /\ s.job.gen <= docs[s.key].gen
       /\ docs[s.key].leaseToken = s.job.leaseToken => docs[s.key] = s.job
       /\ s.job.state = "ready"
       /\ s.job.dueAt <= clock
       /\ IF s.pc = "ack" THEN Outcome(s.job, s.updated) ELSE Underway(s.job, s.updated)

\* The lease token fences: whoever passes the compare of Finish works on the very
\* document it claimed, so a Put, a Cancel or another claim shuts it out.
Fencing == DocsOK /\ \A w \in Workers : FencedAt(worker[w])

\* The deadline of a call leaves room for the acknowledgement before the lease ends.
InTimeAt(s) ==
  /\ s.pc = "claim" => clock <= s.now + ClaimLatency /\ s.deadline = s.now + ClaimLatency
  /\ InFlightAt(s) =>
       /\ clock <= s.deadline
       /\ s.deadline + (IF s.pc = "ack" THEN 0 ELSE AckTimeout) < s.job.availableAt

\* The stored document carries the worker's token, or was closed or replaced.
HoldsAt(s) ==
  InFlightAt(s) =>
    \/ docs[s.key].gen # s.job.gen
    \/ docs[s.key].state # "ready"
    \/ docs[s.key].leaseToken = s.job.leaseToken

\* As long as a worker is in flight nobody else can claim its schedule: what is
\* stored is the worker's own lease, which ends after the worker's last deadline.
LeaseExclusion == \A w \in Workers : InTimeAt(worker[w]) /\ HoldsAt(worker[w])

=============================================================================
