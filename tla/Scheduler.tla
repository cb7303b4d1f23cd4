------------------------------ MODULE Scheduler ------------------------------
(***************************************************************************)
(* One shard of the durable scheduler: the job documents of                *)
(* scheduler/firestore/store.go, the Worker.Tick loops of                  *)
(* scheduler/worker.go that claim, deliver and finish them, and the        *)
(* callers that put and cancel schedules meanwhile.                        *)
(*                                                                         *)
(* A Firestore transaction is one step.  Everything a worker keeps between *)
(* two store calls is in worker[w], so a claim, a replacement, a           *)
(* cancellation or another worker can come between any two of its calls.   *)
(***************************************************************************)
EXTENDS Integers

CONSTANTS
  Keys,          \* schedule keys of this shard
  Workers,       \* processes that run Tick on this shard
  Targets,       \* installation IDs of the recipient
  MaxAttempts,   \* scheduler.MaxAttempts
  TickLimit,     \* Tick's limit: jobs one invocation may claim
  Lease,         \* Worker.Lease
  SendTimeout,   \* Worker.SendTimeout: deadline of the attempt context
  AckTimeout,    \* deadline of the acknowledgement context
  ClaimLatency,  \* how long ClaimDue takes after its "now" was read
  RetryUnit,     \* the minute of the retry delays
  Day,           \* distance of two daily occurrences
  MaxClock, MaxPuts, MaxFaults    \* bounds of the model: time, Puts, faults

ASSUME KeysAssumption == Keys # {}
ASSUME ScheduleAssumption ==
  /\ MaxAttempts \in Nat \ {0}
  /\ TickLimit \in Nat \ {0}
  /\ Day \in Nat \ {0}
  /\ RetryUnit \in Nat
ASSUME TimeoutAssumption ==
  /\ Lease \in Nat \ {0}
  /\ SendTimeout \in Nat
  /\ AckTimeout \in Nat
  /\ ClaimLatency \in Nat
ASSUME BoundAssumption ==
  /\ MaxClock \in Nat
  /\ MaxPuts \in Nat
  /\ MaxFaults \in Nat

VARIABLES
  docs,       \* Keys -> job document ("absent" before the first Put)
  worker,     \* Workers -> the Tick in progress
  active,     \* installations ActiveTargets returns for the recipient
  clock,      \* w.Now(), one clock for all hosts
  nextToken,  \* rand.Text(): the next lease token, never used before
  puts,       \* number of Puts so far; it stamps each schedule's "gen"
  faults,     \* number of faults so far
  ledger      \* history of the current occurrence of each key

vars == <<docs, worker, active, clock, nextToken, puts, faults, ledger>>

------------------------------------------------------------------------------
(* Job documents *)

States == {"absent", "ready", "done", "failed", "canceled"}
NoLease == 0

\* lastError, the message and the identity fields are left out: they steer nothing.
\* gen is no field of the code: it tells a schedule from the one it replaced.
Job == [gen: Nat, daily: BOOLEAN, state: States, dueAt: Nat, availableAt: Nat,
        leaseToken: Nat, attempts: Nat, completed: SUBSET Targets,
        invalid: SUBSET Targets, permanent: BOOLEAN]

NoDoc == [gen |-> 0, daily |-> FALSE, state |-> "absent", dueAt |-> 0,
          availableAt |-> 0, leaseToken |-> NoLease, attempts |-> 0,
          completed |-> {}, invalid |-> {}, permanent |-> FALSE]

NewJob(gen, daily, due) ==
  [NoDoc EXCEPT !.gen = gen, !.daily = daily, !.state = "ready",
                !.dueAt = due, !.availableAt = due]

\* Daily.Next: the first occurrence strictly after the given instant.
DailyNext(after) == (after \div Day + 1) * Day

\* time.Minute << min(attempts-1, 4)
RetryDelay(attempts) ==
  RetryUnit * (IF attempts > 4 THEN 16 ELSE <<1, 2, 4, 8>>[attempts])

\* Faulty form of Retry: one attempt too many.
RetryOnceMore(u, now) ==
  IF u.attempts > MaxAttempts
    THEN [u EXCEPT !.state = "failed"]
    ELSE [u EXCEPT !.availableAt = now + RetryDelay(u.attempts)]

(* Worker.retry *)
Retry(u, now) ==
  IF u.attempts >= MaxAttempts
    THEN [u EXCEPT !.state = "failed"]
    ELSE [u EXCEPT !.availableAt = now + RetryDelay(u.attempts)]

\* The successful end of deliver for a one-off job.
Settle(u) ==
  [u EXCEPT !.attempts = 0, !.state = IF u.permanent THEN "failed" ELSE "done"]

\* The successful end of deliver for a daily job.
NextOccurrence(u, now) ==
  [u EXCEPT !.dueAt = DailyNext(now), !.availableAt = DailyNext(now),
            !.completed = {}, !.attempts = 0, !.permanent = FALSE]

\* The last lines of deliver: retry what is unresolved, otherwise move on.  The
\* second daily outcome is Daily.Next failing.
Conclusions(u, unresolved, now) ==
  IF unresolved
    THEN {Retry(u, now)}
    ELSE IF u.daily
           THEN {NextOccurrence(u, now), [u EXCEPT !.state = "failed"]}
           ELSE {Settle(u)}

------------------------------------------------------------------------------
(* A worker between two calls *)

InFlight == {"lookup", "send", "retire", "ack"}   \* it holds a claimed job
Timed == InFlight \cup {"claim"}                  \* a deadline bounds the call
AnyKey == CHOOSE k \in Keys : TRUE

WorkerState ==
  [pc: {"idle", "loop"} \cup Timed, left: Nat, now: Nat, deadline: Nat,
   key: Keys, job: Job, updated: Job,
   pending: SUBSET Targets,    \* targets of the send, then the unresolved ones
   taken: SUBSET Targets]      \* the provider took the message, not yet on record

Idle == [pc |-> "idle", left |-> 0, now |-> 0, deadline |-> 0, key |-> AnyKey,
         job |-> NoDoc, updated |-> NoDoc, pending |-> {}, taken |-> {}]

Become(w, state) == worker' = [worker EXCEPT ![w] = state]

\* w still works on the occurrence that the stored document is at.
Current(w) ==
  LET k == worker[w].key
  IN  /\ docs[k].gen = worker[w].job.gen
      /\ docs[k].dueAt = worker[w].job.dueAt

NoHistory == [starts |-> 0, accepted |-> [t \in Targets |-> 0],
              excused |-> [t \in Targets |-> 0]]

\* Sends of S whose outcome the stored document will never show.
Excuse(w, S) ==
  ledger' = IF Current(w)
              THEN [ledger EXCEPT ![worker[w].key].excused =
                      [t \in Targets |-> IF t \in S THEN @[t] + 1 ELSE @[t]]]
              ELSE ledger

------------------------------------------------------------------------------
Init ==
  /\ docs = [k \in Keys |-> NoDoc]
  /\ worker = [w \in Workers |-> Idle]
  /\ active \in SUBSET Targets
  /\ clock = 0
  /\ nextToken = 1
  /\ puts = 0
  /\ faults = 0
  /\ ledger = [k \in Keys |-> NoHistory]

(* Callers: the schedule API, the CLI, and device registration *)

\* Faulty form of Put: the progress of the old schedule is merged into the new one.
PutMerged(k, daily, due) ==
  /\ puts < MaxPuts
  /\ puts' = puts + 1
  /\ docs' = [docs EXCEPT ![k] = [NewJob(puts + 1, daily, due) EXCEPT
                                   !.completed = docs[k].completed]]
  /\ ledger' = [ledger EXCEPT ![k] = NoHistory]
  /\ UNCHANGED <<worker, active, clock, nextToken, faults>>

\* Faulty form of Put: it leaves the claim of the old schedule in place.
PutKeepsLease(k, daily, due) ==
  /\ puts < MaxPuts
  /\ puts' = puts + 1
  /\ docs' = [docs EXCEPT ![k] = [NewJob(puts + 1, daily, due) EXCEPT
                                   !.leaseToken = docs[k].leaseToken]]
  /\ ledger' = [ledger EXCEPT ![k] = NoHistory]
  /\ UNCHANGED <<worker, active, clock, nextToken, faults>>

\* Store.Put overwrites the document whatever it holds, a live claim included.
Put(k, daily, due) ==
  /\ puts < MaxPuts
  /\ puts' = puts + 1
  /\ docs' = [docs EXCEPT ![k] = NewJob(puts + 1, daily, due)]
  /\ ledger' = [ledger EXCEPT ![k] = NoHistory]
  /\ UNCHANGED <<worker, active, clock, nextToken, faults>>

PutOneOff(k) == \E due \in {clock, clock + 1} : Put(k, FALSE, due)
PutDaily(k) == Put(k, TRUE, DailyNext(clock))

\* Store.Cancel does not look at the state it overwrites.
Cancel(k) ==
  /\ docs[k].state # "absent"
  /\ docs' = [docs EXCEPT ![k].state = "canceled", ![k].leaseToken = NoLease]
  /\ UNCHANGED <<worker, active, clock, nextToken, puts, faults, ledger>>

\* A device of the recipient registers, or stops being eligible.
ChangeDevices ==
  /\ \E t \in Targets :
       active' = IF t \in active THEN active \ {t} ELSE active \cup {t}
  /\ UNCHANGED <<docs, worker, clock, nextToken, puts, faults, ledger>>

------------------------------------------------------------------------------
(* Worker.Tick: the claim *)

StartTick(w) ==
  /\ worker[w].pc = "idle"
  /\ Become(w, [Idle EXCEPT !.pc = "loop", !.left = TickLimit])
  /\ UNCHANGED <<docs, active, clock, nextToken, puts, faults, ledger>>

\* The loop condition n < limit, and its off-by-one form.
BudgetLeftInclusive(w) == worker[w].left >= 0
BudgetLeft(w) == worker[w].left > 0

EndTick(w) ==
  /\ worker[w].pc = "loop"
  /\ worker[w].left = 0
  /\ Become(w, Idle)
  /\ UNCHANGED <<docs, active, clock, nextToken, puts, faults, ledger>>

\* What a transaction takes for due; faulty: a job some worker once leased never is.
ClaimableUnleased(k, now) ==
  docs[k].state = "ready" /\ docs[k].leaseToken = NoLease /\ docs[k].availableAt <= now
Claimable(k, now) == docs[k].state = "ready" /\ docs[k].availableAt <= now

\* ClaimDue's query: the oldest due job, limit 1.  An empty answer ends the Tick.
Query(w) ==
  /\ worker[w].pc = "loop"
  /\ BudgetLeft(w)
  /\ LET due == {k \in Keys : Claimable(k, clock)}
     IN  \/ due = {} /\ Become(w, Idle)
         \/ \E k \in due :
              /\ \A j \in due : docs[k].availableAt <= docs[j].availableAt
              /\ Become(w, [worker[w] EXCEPT !.pc = "claim", !.key = k, !.now = clock,
                                             !.deadline = clock + ClaimLatency])
  /\ UNCHANGED <<docs, active, clock, nextToken, puts, faults, ledger>>

\* The transaction reads the document again; faulty: it trusts the query.
TrustQuery(w) == TRUE
StillDue(w) == Claimable(worker[w].key, worker[w].now)

\* The race was lost, and the Tick ends.
ClaimLost(w) ==
  /\ worker[w].pc = "claim"
  /\ ~StillDue(w)
  /\ Become(w, Idle)
  /\ UNCHANGED <<docs, active, clock, nextToken, puts, faults, ledger>>

\* Faulty form: the claim does not push availableAt past the lease.
LeasedWithoutTerm(k, now) == [docs[k] EXCEPT !.leaseToken = nextToken]
Leased(k, now) ==
  [docs[k] EXCEPT !.leaseToken = nextToken, !.availableAt = now + Lease]

CommitClaim(w) ==
  LET k == worker[w].key
  IN  /\ worker[w].pc = "claim"
      /\ StillDue(w)
      /\ docs' = [docs EXCEPT ![k] = Leased(k, worker[w].now)]
      /\ nextToken' = nextToken + 1
      /\ ledger' = [ledger EXCEPT ![k].starts = @ + 1]
      /\ UNCHANGED <<active, clock, puts>>

\* The job is this worker's; deliver starts, with its own deadline.
ClaimWon(w) ==
  LET job == Leased(worker[w].key, worker[w].now)
  IN  /\ CommitClaim(w)
      /\ Become(w, [worker[w] EXCEPT
                      !.pc = "lookup", !.now = 0, !.deadline = clock + SendTimeout,
                      !.job = job,
                      !.updated = [job EXCEPT !.leaseToken = NoLease, !.attempts = @ + 1]])
      /\ UNCHANGED faults

\* The transaction commits and the answer is lost: a lease nobody holds.
ClaimUnknown(w) ==
  /\ faults < MaxFaults
  /\ faults' = faults + 1
  /\ CommitClaim(w)
  /\ Become(w, Idle)

------------------------------------------------------------------------------
(* Worker.deliver *)

Acknowledge(w, updated) ==
  [worker[w] EXCEPT !.pc = "ack", !.updated = updated, !.pending = {},
                    !.deadline = clock + AckTimeout]

\* ActiveTargets fails: retry "target_lookup".
LookupFails(w) ==
  /\ worker[w].pc = "lookup"
  /\ Become(w, Acknowledge(w, Retry(worker[w].updated, clock)))
  /\ UNCHANGED <<docs, active, clock, nextToken, puts, faults, ledger>>

\* Targets this occurrence has on record as completed are not sent to again;
\* faulty: they are.
EveryTarget(w) == active
Unsent(w) == active \ worker[w].job.completed

Lookup(w) ==
  /\ worker[w].pc = "lookup"
  /\ Become(w, [worker[w] EXCEPT !.pc = "send",
                                 !.pending = Unsent(w)])
  /\ UNCHANGED <<docs, active, clock, nextToken, puts, faults, ledger>>

\* The provider takes the message for one target, before Send returns.
Accept(w, t) ==
  /\ worker[w].pc = "send"
  /\ t \in worker[w].pending \ worker[w].taken
  /\ Become(w, [worker[w] EXCEPT !.taken = @ \cup {t}])
  /\ ledger' = IF Current(w)
                 THEN [ledger EXCEPT ![worker[w].key].accepted[t] = @ + 1]
                 ELSE ledger
  /\ UNCHANGED <<docs, active, clock, nextToken, puts, faults>>

\* The completed targets after the send.
Recorded(s, unresolved) == s.updated.completed \cup (s.pending \ unresolved)

\* Sender.Send returns one result per target: ok (the provider took it),
\* unregistered, permanent, or unresolved, which says nothing about the provider.
\* An unregistered target is to be retired, and so is one an earlier attempt left.
SendReturns(w, unregistered, perm, unresolved) ==
  LET s == worker[w]
      updated == [s.updated EXCEPT
                    !.completed = Recorded(s, unresolved),
                    !.invalid = @ \cup unregistered,
                    !.permanent = @ \/ perm # {}]
  IN  /\ s.pc = "send"
      /\ unregistered \cup perm \cup unresolved \subseteq s.pending
      /\ s.pending \ (unregistered \cup perm \cup unresolved) \subseteq s.taken
      /\ unregistered \cap perm = {}
      /\ (unregistered \cup perm) \cap unresolved = {}
      /\ IF updated.invalid # {}
           THEN Become(w, [s EXCEPT !.pc = "retire", !.updated = updated,
                                    !.pending = unresolved, !.taken = @ \ unresolved])
           ELSE \E u \in Conclusions(updated, unresolved # {}, clock) :
                  Become(w, [Acknowledge(w, u) EXCEPT !.taken = @ \ unresolved])
      /\ Excuse(w, s.taken \cap unresolved)
      /\ UNCHANGED <<docs, active, clock, nextToken, puts, faults>>

\* DisablePushInstallations succeeds: nothing is left to retire.
Retire(w) ==
  LET updated == [worker[w].updated EXCEPT !.invalid = {}]
  IN  /\ worker[w].pc = "retire"
      /\ active' = active \ worker[w].updated.invalid
      /\ \E u \in Conclusions(updated, worker[w].pending # {}, clock) :
           Become(w, Acknowledge(w, u))
      /\ UNCHANGED <<docs, clock, nextToken, puts, faults, ledger>>

\* Faulty form: the IDs are cleared whether they were retired or not.
RetireFailsForgets(w) ==
  /\ worker[w].pc = "retire"
  /\ active' \in {active, active \ worker[w].updated.invalid}
  /\ Become(w, Acknowledge(w, Retry([worker[w].updated EXCEPT !.invalid = {}], clock)))
  /\ UNCHANGED <<docs, clock, nextToken, puts, faults, ledger>>

\* It fails, or its answer is lost after the commit: the job keeps the IDs.
RetireFails(w) ==
  /\ worker[w].pc = "retire"
  /\ active' \in {active, active \ worker[w].updated.invalid}
  /\ Become(w, Acknowledge(w, Retry(worker[w].updated, clock)))
  /\ UNCHANGED <<docs, clock, nextToken, puts, faults, ledger>>

------------------------------------------------------------------------------
(* Store.Finish *)

\* The compare of Finish's compare-and-set; faulty: the state alone is compared.
StillReady(w) == docs[worker[w].key].state = "ready"
LeaseHeld(w) ==
  LET k == worker[w].key
  IN  /\ worker[w].job.leaseToken # NoLease
      /\ docs[k].leaseToken = worker[w].job.leaseToken
      /\ docs[k].state = "ready"

CommitFinish(w) ==
  LET k == worker[w].key
  IN  /\ worker[w].pc = "ack"
      /\ LeaseHeld(w)
      /\ docs' = [docs EXCEPT ![k] = worker[w].updated]
      /\ ledger' = IF worker[w].updated.dueAt # docs[k].dueAt
                     THEN [ledger EXCEPT ![k] = NoHistory]
                     ELSE ledger
      /\ UNCHANGED <<active, clock, nextToken, puts>>

Finish(w) ==
  /\ CommitFinish(w)
  /\ Become(w, [Idle EXCEPT !.pc = "loop", !.left = worker[w].left - 1])
  /\ UNCHANGED faults

\* ErrLeaseLost ends the Tick; what the provider took is not recorded.
FinishLost(w) ==
  /\ worker[w].pc = "ack"
  /\ ~LeaseHeld(w)
  /\ Excuse(w, worker[w].taken)
  /\ Become(w, Idle)
  /\ UNCHANGED <<docs, active, clock, nextToken, puts, faults>>

\* The transaction commits and the answer is lost: Tick returns the error.
FinishUnknown(w) ==
  /\ faults < MaxFaults
  /\ faults' = faults + 1
  /\ CommitFinish(w)
  /\ Become(w, Idle)

\* The process dies, the context is canceled between two jobs, or a store call
\* fails without a commit: in each case nothing of this Tick is kept.
Abandon(w) ==
  /\ worker[w].pc # "idle"
  /\ faults < MaxFaults
  /\ faults' = faults + 1
  /\ Excuse(w, worker[w].taken)
  /\ Become(w, Idle)
  /\ UNCHANGED <<docs, active, clock, nextToken, puts>>

------------------------------------------------------------------------------
\* Time passes, but no call outlives its deadline.  Past MaxClock it goes on only
\* to the due time of a one-off job, so that the bound never cuts off a retry.
Advance ==
  /\ \/ clock < MaxClock
     \/ \E k \in Keys : /\ docs[k].state = "ready" /\ ~docs[k].daily
                        /\ docs[k].availableAt > clock
  /\ \A w \in Workers : worker[w].pc \in Timed => clock < worker[w].deadline
  /\ clock' = clock + 1
  /\ UNCHANGED <<docs, worker, active, nextToken, puts, faults, ledger>>

Send(w) ==
  \/ \E t \in Targets : Accept(w, t)
  \/ \E unregistered, perm, unresolved \in SUBSET Targets :
       SendReturns(w, unregistered, perm, unresolved)

WorkerStep(w) ==
  \/ StartTick(w) \/ EndTick(w) \/ Query(w) \/ ClaimLost(w) \/ ClaimWon(w)
  \/ LookupFails(w) \/ Lookup(w) \/ Send(w) \/ Retire(w) \/ RetireFails(w)
  \/ Finish(w) \/ FinishLost(w)

Fault(w) == ClaimUnknown(w) \/ FinishUnknown(w) \/ Abandon(w)

Next ==
  \/ \E k \in Keys : PutOneOff(k) \/ PutDaily(k) \/ Cancel(k)
  \/ ChangeDevices
  \/ \E w \in Workers : WorkerStep(w) \/ Fault(w)
  \/ Advance

Spec == Init /\ [][Next]_vars

\* Ticks are invoked again and again, and every call ends by its deadline.
Fairness == WF_vars(Advance) /\ \A w \in Workers : WF_vars(WorkerStep(w))
FairSpec == Spec /\ Fairness

------------------------------------------------------------------------------
(* Properties *)

\* Every variable has its type; a Tick never claims more jobs than its limit
\* allows (worker.go, the loop of Tick).
TypeOK ==
  /\ docs \in [Keys -> Job]
  /\ worker \in [Workers -> WorkerState]
  /\ active \subseteq Targets
  /\ clock \in Nat
  /\ nextToken \in Nat \ {NoLease}
  /\ puts \in Nat
  /\ faults \in Nat
  /\ ledger \in [Keys -> [starts: Nat, accepted: [Targets -> Nat],
                         excused: [Targets -> Nat]]]

\* "A stale lease cannot finish, overwrite a replacement, or resurrect a canceled
\* job" (schedule.go): whatever two workers, a Put and a Cancel interleave, a
\* document never goes back to a schedule it replaced, and one that is over
\* stays over unless it is replaced.
NoResurrection ==
  [][\A k \in Keys :
       /\ docs'[k].gen >= docs[k].gen
       /\ docs'[k].gen = docs[k].gen /\ docs[k].state \in {"done", "failed", "canceled"}
            => docs'[k].state \in {docs[k].state, "canceled"}]_vars

\* The schedule as its caller sees it: the state that Contract speaks of.
Phase(state) == CASE state = "absent" -> "none"
                  [] state = "ready"  -> "open"
                  [] OTHER            -> "closed"
CallersView ==
  [k \in Keys |-> [gen |-> docs[k].gen, phase |-> Phase(docs[k].state),
                  due |-> docs[k].dueAt, done |-> docs[k].completed]]
Contract == INSTANCE ScheduleContract WITH sched <- CallersView

\* Workers, leases, retries, crashes and lost answers implement the contract of a
\* schedule: progress grows, occurrences move forward, only a Put reopens.
ContractKept == Contract!Spec

\* Progress of an occurrence is never lost: the targets on record as completed
\* stay on record until the occurrence ends, through retries, crashes and lost
\* leases (deliver appends to Completed, only the next occurrence clears it).
ProgressKept ==
  [][\A k \in Keys : docs'[k].gen = docs[k].gen =>
       /\ docs'[k].dueAt >= docs[k].dueAt
       /\ docs'[k].dueAt = docs[k].dueAt => docs[k].completed \subseteq docs'[k].completed
     ]_vars

\* A lease excludes: no two workers are between claim and acknowledgement on the
\* same schedule.  It rests on the deadlines and not on the token, and holds when
\* claim, send and acknowledgement fit into the lease (the validation in Tick).
NoOverlap ==
  \A v, w \in Workers :
    /\ v # w
    /\ worker[v].pc \in InFlight /\ worker[w].pc \in InFlight
    /\ worker[v].key = worker[w].key
    => worker[v].job.gen # worker[w].job.gen

\* The provider takes a message for a target a second time only when the first
\* acceptance could not be recorded: an ambiguous answer, a crash, or a lease
\* lost to a replacement or cancellation ("successful targets persisted for an
\* occurrence are excluded from later attempts").
AtMostOnceRecorded ==
  \A k \in Keys, t \in Targets : ledger[k].accepted[t] <= ledger[k].excused[t] + 1

\* Retries end: an occurrence is claimed at most MaxAttempts times, and once more
\* for each attempt that a crash or a lost answer kept from being counted.  So "up to
\* five worker attempts" (docs/architecture.md) does not count workers that die.
StartsBounded ==
  \A k \in Keys :
    /\ ledger[k].starts <= MaxAttempts + faults
    /\ docs[k].state = "ready" => docs[k].attempts < MaxAttempts

\* A one-off schedule is eventually done, failed, canceled or replaced, whatever
\* crashes and lost answers its workers meet.
Settles ==
  \A k \in Keys, g \in 1 .. MaxPuts :
    (docs[k].gen = g /\ ~docs[k].daily /\ docs[k].state = "ready")
      ~> ~(docs[k].gen = g /\ docs[k].state = "ready")

\* "A five-minute lease covers a four-minute send budget and a separate 20-second
\* acknowledgement budget" (docs/architecture.md): while a worker holds a job,
\* its deadline comes before the end of its lease.
LeaseCoversDelivery ==
  \A w \in Workers :
    worker[w].pc \in InFlight => worker[w].deadline <= worker[w].job.availableAt

==============================================================================
