------------------------------- MODULE TickJob -------------------------------
(***************************************************************************)
(* The command line program around the scheduler (cmd/push-dispatch):      *)
(* "schedule" accepts a daily schedule, and executions of "tick", each of  *)
(* one or more Cloud Run tasks, deal the shards among themselves by        *)
(* shardRange and call Worker.Tick for one shard after the other.  A Tick  *)
(* that returns an error ends its task, and the task's other shards wait   *)
(* for the next execution.                                                 *)
(*                                                                         *)
(* One Tick of a shard is one step here; Scheduler has its inside.         *)
(***************************************************************************)
EXTENDS DailyRecurrence, Envelope

CONSTANTS
  Zones, LocalTimes, Messages,   \* what a caller of "schedule" may ask for
  ShardCount,
  Launches,             \* how "tick" may be deployed
  MaxClock, MaxErrors   \* bounds of the model: time, failing Ticks

Shards == 0 .. ShardCount - 1
Launch == [explicit: Int, count: Int]    \* explicit -1, count 0: flag, variables not set

ASSUME InputAssumption ==
  Zones \subseteq Zone /\ LocalTimes \subseteq Int /\ Messages \subseteq Message
ASSUME ShardAssumption == ShardCount \in Nat \ {0}
ASSUME LaunchAssumption == Launches \subseteq Launch
ASSUME BoundAssumption == MaxClock \in Nat /\ MaxErrors \in Nat

VARIABLES
  job,      \* the document of one daily schedule
  launch,   \* the deployment
  task,     \* index -> its loop over the shards; empty between executions
  ticked,   \* Shards -> Ticks of the shard in this execution
  clock,
  errors,   \* number of failed Ticks so far
  served    \* history: the due times that were delivered

vars == <<job, launch, task, ticked, clock, errors, served>>

NoJob == [state |-> "none", zone |-> [before |-> 0, at |-> 0, after |-> 0], local |-> 0,
          message |-> [text |-> TRUE, plain |-> TRUE, owned |-> "none", ttl |-> 0,
                       analytics |-> NoAnalytics, size |-> 0],
          shard |-> 0, due |-> 0, updatedAt |-> 0]

------------------------------------------------------------------------------
(* shardRange *)

Invalid == [ok |-> FALSE, first |-> 0, last |-> 0, stride |-> 1]
Range(first, last, stride) == [ok |-> TRUE, first |-> first, last |-> last, stride |-> stride]

\* Faulty form: one task for each shard is refused.
FewerThanShards(index, count) == count \in 1 .. ShardCount - 1 /\ index \in 0 .. count - 1
ValidPartition(index, count) == count \in 1 .. ShardCount /\ index \in 0 .. count - 1

ShardRange(explicit, index, count) ==
  IF explicit >= 0 THEN Range(explicit, explicit, 1)
  ELSE IF count = 0 THEN Range(0, ShardCount - 1, 1)
  ELSE IF ValidPartition(index, count) THEN Range(index, ShardCount - 1, count)
  ELSE Invalid

\* Cloud Run starts as many tasks as it tells each of; without it there is one.
Indexes(l) == 0 .. (IF l.count <= 1 THEN 0 ELSE l.count - 1)

StartedTask(l, index) ==
  LET range == ShardRange(l.explicit, index, l.count)
  IN  [pc |-> IF range.ok THEN "loop" ELSE "failed",
       next |-> range.first, last |-> range.last, stride |-> range.stride]

------------------------------------------------------------------------------
Init ==
  /\ job = NoJob
  /\ launch \in Launches
  /\ task = << >>
  /\ ticked = [s \in Shards |-> 0]
  /\ clock = 0
  /\ errors = 0
  /\ served = {}

\* "schedule": NewJob and Put.  The shard is a hash of the key.
Schedule(zone, local, message, shard) ==
  /\ job.state = "none"
  /\ ValidLocalTime(local)
  /\ AcceptSchedule(message)
  /\ \E due \in DailyNext(zone, local, clock) :
       job' = [state |-> "ready", zone |-> zone, local |-> local, message |-> message,
               shard |-> shard, due |-> due, updatedAt |-> clock]
  /\ UNCHANGED <<launch, task, ticked, clock, errors, served>>

\* A trigger starts the tasks of an execution.
StartExecution ==
  /\ task = << >>
  /\ task' = [index \in Indexes(launch) |-> StartedTask(launch, index)]
  /\ UNCHANGED <<job, launch, ticked, clock, errors, served>>

\* The job when its occurrence is delivered now.
NextJob(next) ==
  IF next = {} THEN [job EXCEPT !.state = "failed", !.updatedAt = clock]
  ELSE [job EXCEPT !.due = CHOOSE due \in next : TRUE, !.updatedAt = clock]

\* The adapter takes the message of the occurrence; one that it refuses it refuses at
\* every attempt, and the job ends as failed (Scheduler has the attempts).
Deliver ==
  IF ValidateMessage(MessageForOccurrence(job.message))
    THEN /\ job' = NextJob(DailyNext(job.zone, job.local, clock))
         /\ served' = served \cup {job.due}
    ELSE /\ job' = [job EXCEPT !.state = "failed", !.updatedAt = clock]
         /\ UNCHANGED served

\* What a Tick of a shard does to the job: it is delivered if it is due.
TickShard(shard) ==
  IF job.state = "ready" /\ job.shard = shard /\ job.due <= clock
    THEN Deliver
    ELSE UNCHANGED <<job, served>>

\* Which of its shards a task still has to tick; faulty: the last one is left out.
BeforeLast(t) == t.next < t.last
InLoop(t) == t.next <= t.last

Tick(i) ==
  /\ task[i].pc = "loop"
  /\ InLoop(task[i])
  /\ TickShard(task[i].next)
  /\ ticked' = [ticked EXCEPT ![task[i].next] = @ + 1]
  /\ task' = [task EXCEPT ![i].next = @ + task[i].stride]
  /\ UNCHANGED <<launch, clock, errors>>

\* The Tick returns an error, a lost lease or a failed store call, with or without
\* having delivered the job: the task returns it.
TickFails(i) ==
  /\ task[i].pc = "loop"
  /\ InLoop(task[i])
  /\ errors < MaxErrors
  /\ errors' = errors + 1
  /\ TickShard(task[i].next) \/ UNCHANGED <<job, served>>
  /\ task' = [task EXCEPT ![i].pc = "failed"]
  /\ UNCHANGED <<launch, ticked, clock>>

TaskEnds(i) ==
  /\ task[i].pc = "loop"
  /\ ~InLoop(task[i])
  /\ task' = [task EXCEPT ![i].pc = "done"]
  /\ UNCHANGED <<job, launch, ticked, clock, errors, served>>

Ended == task # << >> /\ \A i \in DOMAIN task : task[i].pc \in {"done", "failed"}

ExecutionEnds ==
  /\ Ended
  /\ task' = << >>
  /\ ticked' = [s \in Shards |-> 0]
  /\ UNCHANGED <<job, launch, clock, errors, served>>

\* An execution takes minutes, less than the coarse unit of the clock.
Advance ==
  /\ task = << >>
  /\ clock < MaxClock
  /\ clock' = clock + 1
  /\ UNCHANGED <<job, launch, task, ticked, errors, served>>

TaskStep(i) == Tick(i) \/ TaskEnds(i)

Next ==
  \/ \E zone \in Zones, local \in LocalTimes, message \in Messages, shard \in Shards :
       Schedule(zone, local, message, shard)
  \/ StartExecution
  \/ \E i \in DOMAIN task : TaskStep(i) \/ TickFails(i)
  \/ ExecutionEnds
  \/ Advance

Spec == Init /\ [][Next]_vars

\* Triggers come again and again, tasks run to their end.
Fairness ==
  /\ WF_vars(StartExecution) /\ WF_vars(ExecutionEnds)
  /\ \A i \in Shards : WF_vars(i \in DOMAIN task /\ TaskStep(i))
FairSpec == Spec /\ Fairness

------------------------------------------------------------------------------
(* Properties *)

\* The wall clock shows the local time at t, and it is the first time that it does on
\* that local date.
Fires(t) ==
  /\ WallTime(job.zone, t) = job.local
  /\ \A u \in (t - 2 * DayLen) .. (t - 1) :
       ~Shows(job.zone, u, LocalDate(job.zone, t), job.local)

\* "Next returns the first daily occurrence strictly after after", where "nonexistent
\* wall times are skipped; repeated wall times fire at the first occurrence only"
\* (schedule.go): the scan date by date finds what a walk through time would.
FirstOccurrence ==
  job.state # "none" =>
    /\ job.state = "ready"
    /\ job.due > job.updatedAt
    /\ Fires(job.due)
    /\ \A t \in (job.updatedAt + 1) .. (job.due - 1) : ~Fires(t)

\* A daily schedule is delivered at most once for a local date, also when the date
\* has the hour, or the whole day, twice ("never send twice during a repeated local
\* hour").
OncePerDate ==
  \A s, t \in served \cup {job.due} :
    s # t /\ job.state = "ready" => LocalDate(job.zone, s) # LocalDate(job.zone, t)

\* The tasks of an execution take all shards.
AllDealt == launch.explicit < 0 /\ launch.count \in 0 .. ShardCount

\* "Every shard is assigned once for 1..32 Cloud Run tasks" (main.go): an execution
\* whose tasks all end well has ticked each shard exactly once.
EveryShardOnce ==
  /\ Ended /\ AllDealt
  /\ \A i \in DOMAIN task : task[i].pc = "done"
  => \A s \in Shards : ticked[s] = 1

\* Every occurrence that comes due is itself delivered, on whatever shard it is and
\* however many tasks there are: a failing Tick takes the rest of its task along but not
\* the occurrence, and the adapter refuses none, because "the full provider envelope" is
\* built "during validation as well as delivery" (schedule.go).
Due == job.state = "ready" /\ job.due <= clock
LeavesUnserved ==
  Due /\ job.due \notin served' /\ (job'.state # "ready" \/ job'.due # job.due)

==============================================================================
