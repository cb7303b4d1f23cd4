--------------------------- MODULE SchedulerProofs ---------------------------
(***************************************************************************)
(* Theorems about Scheduler and RetirementDebt, for every value of their   *)
(* constants.                                                              *)
(***************************************************************************)
EXTENDS RetirementDebt, TLAPS

------------------------------------------------------------------------------
(* Type correctness.  RetryDelay is defined from the first attempt on, so  *)
(* the types rest on deliver having counted the attempt it is in, and on   *)
(* Tick claiming only while its limit is not reached.                      *)

CountedAt(s) ==
  /\ s.pc \in {"lookup", "send", "retire"} => s.updated.attempts >= 1
  /\ s.pc \in Timed => s.left >= 1

Counted == \A w \in Workers : CountedAt(worker[w])

\* Daily.Next is strictly after the instant it is given.
LEMMA DailyNextLater ==
  ASSUME NEW t \in Nat PROVE DailyNext(t) \in Nat /\ DailyNext(t) > t
BY ScheduleAssumption DEF DailyNext

LEMMA RetryDelayType ==
  ASSUME NEW n \in Nat, n >= 1 PROVE RetryDelay(n) \in Nat
BY ScheduleAssumption DEF RetryDelay

\* Whatever deliver concludes, it is a job document.
LEMMA RetryType ==
  ASSUME NEW u \in Job, u.attempts >= 1, NEW now \in Nat
  PROVE  Retry(u, now) \in Job
BY RetryDelayType DEF Retry, Job, States

LEMMA ConclusionsType ==
  ASSUME NEW u \in Job, u.attempts >= 1, NEW now \in Nat, NEW b \in BOOLEAN,
         NEW c \in Conclusions(u, b, now)
  PROVE  c \in Job
<1>1. Retry(u, now) \in Job
  BY RetryType
<1>2. Settle(u) \in Job
  BY DEF Settle, Job, States
<1>3. [u EXCEPT !.state = "failed"] \in Job
  BY DEF Job, States
<1>4. NextOccurrence(u, now) \in Job
  BY DailyNextLater DEF NextOccurrence, Job
<1> QED
  BY <1>1, <1>2, <1>3, <1>4 DEF Conclusions
History == [starts: Nat, accepted: [Targets -> Nat], excused: [Targets -> Nat]]
LedgerType == [Keys -> History]

LEMMA ConstantTypes ==
  /\ NoDoc \in Job
  /\ AnyKey \in Keys
  /\ Idle \in WorkerState
  /\ Idle.pc = "idle"
  /\ NoHistory \in History
<1>1. NoDoc \in Job
  BY DEF NoDoc, Job, States, NoLease
<1>2. AnyKey \in Keys
  BY KeysAssumption DEF AnyKey
<1>3. Idle \in WorkerState /\ Idle.pc = "idle"
  BY <1>1, <1>2 DEF Idle, WorkerState
<1>4. NoHistory \in History
  BY DEF NoHistory, History
<1> QED
  BY <1>1, <1>2, <1>3, <1>4

\* What the state of one worker has to satisfy.
WorkerOK(s) == s \in WorkerState /\ CountedAt(s)

LEMMA BecomeType ==
  ASSUME TypeOK, Counted, NEW w \in Workers, NEW s, WorkerOK(s), Become(w, s)
  PROVE  worker' \in [Workers -> WorkerState] /\ Counted'
BY DEF TypeOK, Counted, WorkerOK, Become

LEMMA AcknowledgeType ==
  ASSUME TypeOK, Counted, NEW w \in Workers, worker[w].pc \in Timed, NEW u \in Job
  PROVE  /\ Acknowledge(w, u) \in WorkerState
         /\ Acknowledge(w, u).pc = "ack"
         /\ Acknowledge(w, u).taken = worker[w].taken
         /\ WorkerOK(Acknowledge(w, u))
<1>1. worker[w] \in WorkerState /\ clock + AckTimeout \in Nat
  BY TimeoutAssumption DEF TypeOK
<1> QED
  BY <1>1 DEF Acknowledge, WorkerState, InFlight, Timed, WorkerOK, CountedAt, Counted

LEMMA ExcuseType ==
  ASSUME TypeOK, NEW w \in Workers, NEW S, Excuse(w, S)
  PROVE  ledger' \in LedgerType
<1>1. worker[w].key \in Keys
  BY DEF TypeOK, WorkerState
<1>2. CASE Current(w)
  <2> DEFINE k == worker[w].key
             e == [t \in Targets |-> IF t \in S THEN ledger[k].excused[t] + 1
                                              ELSE ledger[k].excused[t]]
  <2>1. ledger' = [ledger EXCEPT ![k] = [ledger[k] EXCEPT !.excused = e]]
    BY <1>2 DEF Excuse
  <2>2. ledger \in LedgerType /\ ledger[k] \in History
    BY <1>1 DEF TypeOK, LedgerType, History
  <2>3. e \in [Targets -> Nat]
    BY <2>2 DEF History
  <2>4. [ledger[k] EXCEPT !.excused = e] \in History
    BY <2>2, <2>3 DEF History
  <2> QED
    BY <1>1, <2>1, <2>2, <2>4 DEF LedgerType
<1>3. CASE ~Current(w)
  BY <1>3 DEF Excuse, TypeOK, LedgerType, History
<1> QED
  BY <1>2, <1>3

\* What is known of the state of a worker that is about to step.
LEMMA StateFacts ==
  ASSUME TypeOK, Counted, NEW w \in Workers
  PROVE  /\ worker[w] \in WorkerState
         /\ worker[w].job \in Job /\ worker[w].updated \in Job
         /\ worker[w].key \in Keys
         /\ worker[w].left \in Nat
         /\ worker[w].pending \subseteq Targets /\ worker[w].taken \subseteq Targets
         /\ worker[w].pc \in {"lookup", "send", "retire"} => worker[w].updated.attempts >= 1
         /\ worker[w].pc \in {"claim", "lookup", "send", "retire", "ack"} =>
              worker[w].pc \in Timed /\ worker[w].left >= 1
         /\ clock \in Nat
BY DEF TypeOK, Counted, CountedAt, WorkerState, Timed, InFlight

\* A send, under way or returning, leaves everything alone but the worker and the ledger.
SendFrame(w) == worker[w].pc = "send" /\ UNCHANGED <<docs, active, clock, nextToken, puts, faults>>

LEMMA SendFacts ==
  ASSUME NEW w \in Workers, Send(w)
  PROVE  SendFrame(w)
<1>1. ASSUME NEW t, Accept(w, t) PROVE SendFrame(w)
  BY <1>1 DEF Accept, SendFrame
<1>2. ASSUME NEW a, NEW b, NEW c, SendReturns(w, a, b, c) PROVE SendFrame(w)
  <2>1. worker[w].pc = "send"
    BY <1>2 DEF SendReturns
  <2>2. UNCHANGED <<docs, active, clock, nextToken, puts, faults>>
    BY <1>2 DEF SendReturns
  <2> QED
    BY <2>1, <2>2 DEF SendFrame
<1> QED
  BY <1>1, <1>2 DEF Send

LEMMA PutType ==
  ASSUME TypeOK, Counted, NEW k \in Keys, PutOneOff(k) \/ PutDaily(k)
  PROVE  TypeOK' /\ Counted'
<1>1. PICK daily \in BOOLEAN, due \in Nat : Put(k, daily, due)
  <2>1. clock \in Nat /\ clock + 1 \in Nat /\ DailyNext(clock) \in Nat
    BY DailyNextLater DEF TypeOK
  <2>2. CASE PutOneOff(k)
    BY <2>1, <2>2 DEF PutOneOff
  <2>3. CASE PutDaily(k)
    BY <2>1, <2>3 DEF PutDaily
  <2> QED
    BY <2>2, <2>3
<1>2. NewJob(puts + 1, daily, due) \in Job
  <2>1. NoDoc \in Job /\ puts + 1 \in Nat /\ daily \in BOOLEAN /\ due \in Nat
    BY ConstantTypes DEF TypeOK
  <2> QED
    BY <2>1 DEF NewJob, Job, States
<1>3. docs' \in [Keys -> Job] /\ ledger' \in LedgerType
  BY <1>1, <1>2, ConstantTypes DEF Put, TypeOK, LedgerType, History
<1> QED
  BY <1>1, <1>3 DEF Put, TypeOK, LedgerType, History, Counted

LEMMA CancelType ==
  ASSUME TypeOK, Counted, NEW k \in Keys, Cancel(k)
  PROVE  TypeOK' /\ Counted'
<1>1. docs' = [docs EXCEPT ![k] = [docs[k] EXCEPT !.state = "canceled",
                                                  !.leaseToken = NoLease]]
  BY DEF Cancel
<1>2. docs' \in [Keys -> Job]
  <2> DEFINE d == [docs[k] EXCEPT !.state = "canceled", !.leaseToken = NoLease]
  <2>1. docs[k] \in Job
    BY DEF TypeOK
  <2>2. d \in Job
    BY <2>1 DEF Job, States, NoLease
  <2> HIDE DEF d
  <2> QED
    BY <1>1, <2>2 DEF TypeOK, d
<1> QED
  BY <1>2 DEF Cancel, TypeOK, Counted

LEMMA LeasedType ==
  ASSUME TypeOK, NEW k \in Keys, NEW now \in Nat
  PROVE  Leased(k, now) \in Job
<1>1. docs[k] \in Job /\ nextToken \in Nat /\ now + Lease \in Nat
  BY TimeoutAssumption DEF TypeOK
<1> QED
  BY <1>1 DEF Leased, Job

LEMMA CommitClaimType ==
  ASSUME TypeOK, NEW w \in Workers, CommitClaim(w)
  PROVE  docs' \in [Keys -> Job] /\ nextToken' \in Nat \ {NoLease} /\ ledger' \in LedgerType
<1> DEFINE k == worker[w].key
<1>1. k \in Keys /\ worker[w].now \in Nat
  BY DEF TypeOK, WorkerState
<1>2. docs' \in [Keys -> Job]
  BY <1>1, LeasedType DEF CommitClaim, TypeOK
<1>3. ledger' = [ledger EXCEPT ![k] = [ledger[k] EXCEPT !.starts = ledger[k].starts + 1]]
  BY DEF CommitClaim
<1>4. ledger \in LedgerType /\ ledger[k] \in History
  BY <1>1 DEF TypeOK, LedgerType, History
<1>5. [ledger[k] EXCEPT !.starts = ledger[k].starts + 1] \in History
  BY <1>4 DEF History
<1>6. ledger' \in LedgerType
  BY <1>3, <1>4, <1>5 DEF LedgerType
<1>7. nextToken' \in Nat \ {NoLease}
  BY DEF CommitClaim, TypeOK, NoLease
<1> QED
  BY <1>2, <1>6, <1>7

LEMMA CommitFinishType ==
  ASSUME TypeOK, NEW w \in Workers, CommitFinish(w)
  PROVE  docs' \in [Keys -> Job] /\ ledger' \in LedgerType
<1>1. worker[w].key \in Keys /\ worker[w].updated \in Job
  BY DEF TypeOK, WorkerState
<1> QED
  BY <1>1, ConstantTypes DEF CommitFinish, TypeOK, LedgerType, History

LEMMA AcceptType ==
  ASSUME TypeOK, NEW w \in Workers, NEW t \in Targets, Accept(w, t)
  PROVE  ledger' \in LedgerType
<1> DEFINE k == worker[w].key
<1>1. k \in Keys
  BY DEF TypeOK, WorkerState
<1>2. CASE Current(w)
  <2>1. ledger' = [ledger EXCEPT ![k] = [ledger[k] EXCEPT !.accepted =
                     [ledger[k].accepted EXCEPT ![t] = ledger[k].accepted[t] + 1]]]
    BY <1>2 DEF Accept
  <2>2. ledger \in LedgerType /\ ledger[k] \in History
    BY <1>1 DEF TypeOK, LedgerType, History
  <2>3. [ledger[k].accepted EXCEPT ![t] = ledger[k].accepted[t] + 1] \in [Targets -> Nat]
    BY <2>2 DEF History
  <2>4. [ledger[k] EXCEPT !.accepted =
           [ledger[k].accepted EXCEPT ![t] = ledger[k].accepted[t] + 1]] \in History
    BY <2>2, <2>3 DEF History
  <2> QED
    BY <1>1, <2>1, <2>2, <2>4 DEF LedgerType
<1>3. CASE ~Current(w)
  BY <1>3 DEF Accept, TypeOK, LedgerType, History
<1> QED
  BY <1>2, <1>3

LEMMA PollType ==
  ASSUME TypeOK, Counted, NEW w \in Workers,
         StartTick(w) \/ EndTick(w) \/ Query(w) \/ ClaimLost(w)
  PROVE  TypeOK' /\ Counted'
<1>1. worker[w] \in WorkerState /\ clock \in Nat /\ clock + ClaimLatency \in Nat
  BY TimeoutAssumption DEF TypeOK
<1>2. PICK s : WorkerOK(s) /\ Become(w, s)
  <2>1. WorkerOK(Idle) /\ WorkerOK([Idle EXCEPT !.pc = "loop", !.left = TickLimit])
    BY ConstantTypes, ScheduleAssumption DEF WorkerOK, CountedAt, WorkerState, Timed, InFlight
  <2>2. ASSUME BudgetLeft(w)
        PROVE  \A k \in Keys :
                 WorkerOK([worker[w] EXCEPT !.pc = "claim", !.key = k, !.now = clock,
                                            !.deadline = clock + ClaimLatency])
    <3>1. worker[w].left \in Nat /\ worker[w].left >= 1
      BY <2>2, StateFacts DEF BudgetLeft
    <3> QED
      BY <1>1, <3>1 DEF WorkerOK, CountedAt, WorkerState, Timed
  <2>3. CASE Query(w)
    <3>1. BudgetLeft(w)
      BY <2>3 DEF Query
    <3>2. \/ Become(w, Idle)
          \/ \E k \in Keys :
               Become(w, [worker[w] EXCEPT !.pc = "claim", !.key = k, !.now = clock,
                                           !.deadline = clock + ClaimLatency])
      BY <2>3 DEF Query
    <3> QED
      BY <2>1, <2>2, <3>1, <3>2
  <2> QED
    BY <2>1, <2>3 DEF StartTick, EndTick, ClaimLost
<1>3. UNCHANGED <<docs, active, clock, nextToken, puts, faults, ledger>>
  BY DEF StartTick, EndTick, Query, ClaimLost
<1> QED
  BY <1>2, <1>3, BecomeType DEF TypeOK

LEMMA FirstUpdateType ==
  ASSUME NEW job \in Job
  PROVE  LET u == [job EXCEPT !.leaseToken = NoLease, !.attempts = job.attempts + 1]
         IN  u \in Job /\ u.attempts >= 1
<1>1. job.attempts \in Nat /\ job.attempts + 1 \in Nat /\ job.attempts + 1 >= 1
  BY DEF Job
<1> QED
  BY <1>1 DEF Job, NoLease

LEMMA ClaimType ==
  ASSUME TypeOK, Counted, NEW w \in Workers, ClaimWon(w) \/ ClaimUnknown(w)
  PROVE  TypeOK' /\ Counted'
<1> DEFINE job == Leased(worker[w].key, worker[w].now)
           updated == [job EXCEPT !.leaseToken = NoLease, !.attempts = job.attempts + 1]
           won == [worker[w] EXCEPT !.pc = "lookup", !.now = 0,
                     !.deadline = clock + SendTimeout, !.job = job, !.updated = updated]
<1>1. worker[w] \in WorkerState /\ clock + SendTimeout \in Nat
  BY TimeoutAssumption DEF TypeOK
<1>2. job \in Job
  BY <1>1, LeasedType DEF WorkerState
<1>3. updated \in Job /\ updated.attempts >= 1
  BY <1>2, FirstUpdateType
<1>4. WorkerOK(won) /\ WorkerOK(Idle)
  <2>1. worker[w].left >= 1
    BY StateFacts DEF ClaimWon, ClaimUnknown, CommitClaim
  <2> QED
    BY <1>1, <1>2, <1>3, <2>1, ConstantTypes DEF WorkerOK, CountedAt, WorkerState, Timed, InFlight
<1>5. Become(w, won) \/ Become(w, Idle)
  BY DEF ClaimWon, ClaimUnknown
<1>6. worker' \in [Workers -> WorkerState] /\ Counted'
  BY <1>4, <1>5, BecomeType
<1>7. CommitClaim(w) /\ faults' \in Nat
  BY DEF ClaimWon, ClaimUnknown, TypeOK
<1> QED
  BY <1>6, <1>7, CommitClaimType DEF CommitClaim, TypeOK, LedgerType, History

LEMMA LookupType ==
  ASSUME TypeOK, Counted, NEW w \in Workers, LookupFails(w) \/ Lookup(w)
  PROVE  TypeOK' /\ Counted'
<1>1. worker[w] \in WorkerState /\ clock \in Nat /\ Unsent(w) \subseteq Targets
  BY DEF TypeOK, Unsent
<1>2. worker[w].pc = "lookup" /\ worker[w].updated \in Job
         /\ worker[w].updated.attempts >= 1
  BY StateFacts DEF LookupFails, Lookup
<1>3. WorkerOK(Acknowledge(w, Retry(worker[w].updated, clock)))
  BY <1>1, <1>2, RetryType, AcknowledgeType, StateFacts
<1>4. WorkerOK([worker[w] EXCEPT !.pc = "send", !.pending = Unsent(w)])
  BY <1>1, <1>2, StateFacts DEF WorkerOK, CountedAt, WorkerState, Timed, InFlight
<1>5. worker' \in [Workers -> WorkerState] /\ Counted'
  BY <1>3, <1>4, BecomeType DEF LookupFails, Lookup
<1> QED
  BY <1>5 DEF LookupFails, Lookup, TypeOK

LEMMA SendType ==
  ASSUME TypeOK, Counted, NEW w \in Workers, Send(w)
  PROVE  TypeOK' /\ Counted'
<1>1. worker[w] \in WorkerState /\ clock \in Nat
  BY DEF TypeOK
<1>2. CASE \E t \in Targets : Accept(w, t)
  <2>1. PICK t \in Targets : Accept(w, t)
    BY <1>2
  <2>2. worker[w].taken \cup {t} \subseteq Targets
    BY <1>1 DEF WorkerState
  <2>3. WorkerOK([worker[w] EXCEPT !.taken = @ \cup {t}])
    BY <1>1, <2>1, <2>2, StateFacts DEF WorkerOK, CountedAt, WorkerState, Timed, InFlight, Accept
  <2>4. worker' \in [Workers -> WorkerState] /\ Counted'
    BY <2>1, <2>3, BecomeType DEF Accept
  <2> QED
    BY <2>1, <2>4, AcceptType DEF Accept, TypeOK, LedgerType, History
<1>3. CASE \E unregistered, perm, unresolved \in SUBSET Targets :
             SendReturns(w, unregistered, perm, unresolved)
  <2>1. PICK unregistered \in SUBSET Targets, perm \in SUBSET Targets,
             unresolved \in SUBSET Targets : SendReturns(w, unregistered, perm, unresolved)
    BY <1>3
  <2> DEFINE u == [worker[w].updated EXCEPT
                     !.completed = Recorded(worker[w], unresolved),
                     !.invalid = @ \cup unregistered,
                     !.permanent = @ \/ perm # {}]
             retiring == [worker[w] EXCEPT !.pc = "retire", !.updated = u,
                            !.pending = unresolved, !.taken = @ \ unresolved]
  <2>2. /\ worker[w].pc = "send" /\ worker[w].pc \in Timed /\ worker[w].left >= 1
        /\ worker[w].updated \in Job /\ worker[w].updated.attempts >= 1
        /\ worker[w].pending \subseteq Targets /\ worker[w].taken \subseteq Targets
    BY StateFacts, SendFacts DEF SendFrame
  <2>3. u \in Job /\ u.attempts >= 1
    <3>1. Recorded(worker[w], unresolved) \subseteq Targets
      BY <2>2 DEF Job, Recorded
    <3> QED
      BY <2>2, <3>1 DEF Job
  <2>4. WorkerOK(retiring)
    <3> HIDE DEF u
    <3>1. retiring \in WorkerState
      BY <1>1, <2>2, <2>3 DEF WorkerState, Timed, InFlight
    <3>2. retiring.updated = u /\ retiring.left = worker[w].left
      BY <1>1 DEF WorkerState
    <3> HIDE DEF retiring
    <3> QED
      BY <2>2, <2>3, <3>1, <3>2 DEF WorkerOK, CountedAt
  <2>5. ASSUME NEW c \in Conclusions(u, unresolved # {}, clock)
        PROVE  WorkerOK([Acknowledge(w, c) EXCEPT !.taken = @ \ unresolved])
    <3>1. c \in Job
      BY <1>1, <2>3, <2>5, ConclusionsType
    <3>2. /\ Acknowledge(w, c) \in WorkerState
          /\ Acknowledge(w, c).pc = "ack"
          /\ CountedAt(Acknowledge(w, c))
          /\ Acknowledge(w, c).taken = worker[w].taken
      BY <2>2, <3>1, AcknowledgeType DEF WorkerOK
    <3> HIDE DEF u
    <3> QED
      BY <2>2, <3>2 DEF WorkerOK, CountedAt, WorkerState
  <2>6. PICK s : WorkerOK(s) /\ Become(w, s)
    <3>1. \/ Become(w, retiring)
          \/ \E c \in Conclusions(u, unresolved # {}, clock) :
               Become(w, [Acknowledge(w, c) EXCEPT !.taken = @ \ unresolved])
      BY <2>1 DEF SendReturns
    <3> HIDE DEF u, retiring
    <3> QED
      BY <2>4, <2>5, <3>1
  <2>7. worker' \in [Workers -> WorkerState] /\ Counted'
    BY <2>6, BecomeType
  <2>8. ledger' \in LedgerType
    <3>1. Excuse(w, worker[w].taken \cap unresolved)
      BY <2>1 DEF SendReturns
    <3> QED
      BY <3>1, ExcuseType
  <2> HIDE DEF u, retiring
  <2> QED
    BY <2>7, <2>8, SendFacts DEF SendFrame, TypeOK, LedgerType, History
<1> QED
  BY <1>2, <1>3 DEF Send

LEMMA RetireType ==
  ASSUME TypeOK, Counted, NEW w \in Workers, Retire(w) \/ RetireFails(w)
  PROVE  TypeOK' /\ Counted'
<1> DEFINE u == [worker[w].updated EXCEPT !.invalid = {}]
<1>1. worker[w] \in WorkerState /\ clock \in Nat
  BY DEF TypeOK
<1>2. worker[w].updated \in Job /\ worker[w].updated.attempts >= 1
  BY StateFacts DEF Retire, RetireFails
<1>3. u \in Job /\ u.attempts >= 1
  BY <1>2 DEF Job
<1>4. \A c \in Conclusions(u, worker[w].pending # {}, clock) : WorkerOK(Acknowledge(w, c))
  BY <1>1, <1>3, ConclusionsType, AcknowledgeType, StateFacts DEF Retire, RetireFails
<1>5. WorkerOK(Acknowledge(w, Retry(worker[w].updated, clock)))
  BY <1>1, <1>2, RetryType, AcknowledgeType, StateFacts DEF Retire, RetireFails
<1>6. PICK s : WorkerOK(s) /\ Become(w, s)
  BY <1>4, <1>5 DEF Retire, RetireFails
<1>7. worker' \in [Workers -> WorkerState] /\ Counted'
  BY <1>6, BecomeType
<1> QED
  BY <1>7 DEF Retire, RetireFails, TypeOK

LEMMA FinishType ==
  ASSUME TypeOK, Counted, NEW w \in Workers,
         Finish(w) \/ FinishLost(w) \/ FinishUnknown(w) \/ Abandon(w)
  PROVE  TypeOK' /\ Counted'
<1>1. WorkerOK(Idle)
  BY ConstantTypes DEF WorkerOK, CountedAt, Timed, InFlight
<1>2. ASSUME Finish(w)
      PROVE  WorkerOK([Idle EXCEPT !.pc = "loop", !.left = worker[w].left - 1])
  <2>1. worker[w].left - 1 \in Nat
    BY <1>2, StateFacts DEF Finish, CommitFinish
  <2> QED
    BY <2>1, ConstantTypes DEF WorkerOK, CountedAt, WorkerState, Timed, InFlight
<1>3. PICK s : WorkerOK(s) /\ Become(w, s)
  BY <1>1, <1>2 DEF Finish, FinishLost, FinishUnknown, Abandon
<1>4. worker' \in [Workers -> WorkerState] /\ Counted'
  BY <1>3, BecomeType
<1>5. docs' \in [Keys -> Job] /\ ledger' \in LedgerType
  BY CommitFinishType, ExcuseType
  DEF Finish, FinishLost, FinishUnknown, Abandon, TypeOK
<1>6. faults' \in Nat
  BY DEF Finish, FinishLost, FinishUnknown, Abandon, TypeOK
<1> QED
  BY <1>4, <1>5, <1>6
  DEF Finish, FinishLost, FinishUnknown, Abandon, CommitFinish, TypeOK, LedgerType, History

LEMMA TypeStep ==
  ASSUME TypeOK, Counted, [Next]_vars PROVE TypeOK' /\ Counted'
<1>1. ASSUME NEW k \in Keys, PutOneOff(k) \/ PutDaily(k) \/ Cancel(k)
      PROVE  TypeOK' /\ Counted'
  BY <1>1, PutType, CancelType
<1>2. CASE ChangeDevices
  BY <1>2 DEF ChangeDevices, TypeOK, Counted
<1>3. ASSUME NEW w \in Workers, WorkerStep(w)
      PROVE  TypeOK' /\ Counted'
  BY <1>3, PollType, ClaimType, LookupType, SendType, RetireType, FinishType DEF WorkerStep
<1>4. ASSUME NEW w \in Workers, Fault(w)
      PROVE  TypeOK' /\ Counted'
  BY <1>4, ClaimType, FinishType DEF Fault
<1>5. CASE Advance
  BY <1>5 DEF Advance, TypeOK, Counted
<1>6. CASE UNCHANGED vars
  BY <1>6 DEF vars, TypeOK, Counted
<1> QED
  BY <1>1, <1>2, <1>3, <1>4, <1>5, <1>6 DEF Next

LEMMA TypeInit == Init => TypeOK /\ Counted
<1> SUFFICES ASSUME Init PROVE TypeOK /\ Counted
  OBVIOUS
<1>1. docs \in [Keys -> Job] /\ worker \in [Workers -> WorkerState] /\ ledger \in LedgerType
  BY ConstantTypes DEF Init, LedgerType
<1>2. Counted
  BY ConstantTypes DEF Init, Counted, CountedAt, Timed, InFlight
<1> QED
  BY <1>1, <1>2 DEF Init, TypeOK, LedgerType, History, NoLease

\* Every variable keeps its type, and no Tick claims more jobs than its limit
\* allows, however many workers, crashes and lost answers there are (Tick's loop,
\* deliver's count of attempts).
THEOREM TypeCorrect == Spec => []TypeOK
<1>1. TypeOK /\ Counted /\ [Next]_vars => (TypeOK /\ Counted)'
  BY TypeStep
<1> QED
  BY TypeInit, <1>1, PTL DEF Spec

------------------------------------------------------------------------------
(* Fencing is inductive.  An action that stores a document stores it without *)
(* a lease or with the next token, which no worker holds; so the snapshots of *)
(* the other workers stay true, and only the worker that moves needs a look.  *)

\* deliver keeps hold of its job: whatever it concludes is an outcome of it.
LEMMA RetryOutcome ==
  ASSUME NEW j \in Job, NEW u \in Job, NEW now \in Nat,
         Underway(j, u), u.attempts >= 1, j.dueAt <= now
  PROVE  Outcome(j, Retry(u, now))
<1>1. now + RetryDelay(u.attempts) \in Nat /\ now + RetryDelay(u.attempts) >= now
  BY RetryDelayType DEF Job
<1>2. CASE u.attempts >= MaxAttempts
  BY <1>2 DEF Retry, Outcome, Underway, Job
<1>3. CASE ~(u.attempts >= MaxAttempts)
  <2> DEFINE a == now + RetryDelay(u.attempts)
  <2>1. Retry(u, now) = [u EXCEPT !.availableAt = a]
    BY <1>3 DEF Retry
  <2>2. u.dueAt <= a /\ a \in Nat
    BY <1>1 DEF Underway, Job
  <2> HIDE DEF a
  <2> QED
    BY <2>1, <2>2 DEF Outcome, Underway, Job
<1> QED
  BY <1>2, <1>3

LEMMA ConclusionsOutcome ==
  ASSUME NEW j \in Job, NEW u \in Job, NEW now \in Nat, NEW b \in BOOLEAN,
         Underway(j, u), u.attempts >= 1, j.dueAt <= now,
         NEW c \in Conclusions(u, b, now)
  PROVE  Outcome(j, c)
<1>1. Outcome(j, Retry(u, now))
  BY RetryOutcome
<1>2. Outcome(j, Settle(u))
  BY DEF Settle, Outcome, Underway, Job
<1>3. Outcome(j, [u EXCEPT !.state = "failed"])
  BY DEF Outcome, Underway, Job
<1>4. Outcome(j, NextOccurrence(u, now))
  <2>1. DailyNext(now) \in Nat /\ DailyNext(now) > j.dueAt
    BY DailyNextLater DEF Job
  <2> QED
    BY <2>1 DEF NextOccurrence, Outcome, Underway, Job
<1> QED
  BY <1>1, <1>2, <1>3, <1>4 DEF Conclusions

\* What a step may do to the document of k.
Restored(k) ==
  \/ docs'[k] = docs[k]
  \/ docs'[k].gen >= docs[k].gen /\ docs'[k].leaseToken \in {NoLease, nextToken}

LEMMA SnapshotKept ==
  ASSUME TypeOK, TypeOK', NEW v \in Workers, FencedAt(worker[v]), worker'[v] = worker[v],
         clock' >= clock, nextToken' >= nextToken, \A k \in Keys : Restored(k)
  PROVE  FencedAt(worker[v])'
<1> DEFINE s == worker[v]
           k == s.key
<1>1. /\ s \in WorkerState /\ k \in Keys /\ s.job \in Job /\ s.now \in Nat
      /\ docs[k] \in Job /\ docs'[k] \in Job
      /\ clock \in Nat /\ clock' \in Nat /\ nextToken \in Nat /\ nextToken' \in Nat
  BY DEF TypeOK, WorkerState
<1>2. s.job.leaseToken \in Nat /\ s.job.gen \in Nat /\ s.job.dueAt \in Nat
        /\ docs[k].gen \in Nat /\ docs'[k].gen \in Nat
  BY <1>1 DEF Job
<1>3. Restored(k)
  BY <1>1
<1> QED
  BY <1>1, <1>2, <1>3 DEF FencedAt, InFlightAt, Restored, Outcome, Underway

LEMMA FencingFrom ==
  ASSUME TypeOK, TypeOK', Fencing, DocsOK', clock' >= clock, nextToken' >= nextToken,
         \A k \in Keys : Restored(k),
         \A v \in Workers : worker'[v] = worker[v] \/ FencedAt(worker[v])'
  PROVE  Fencing'
<1> SUFFICES ASSUME NEW v \in Workers PROVE FencedAt(worker[v])'
  BY DEF Fencing
<1>1. FencedAt(worker[v])
  BY DEF Fencing
<1> QED
  BY <1>1, SnapshotKept

\* A step that stores nothing.
LEMMA FencingQuiet ==
  ASSUME TypeOK, TypeOK', Fencing, UNCHANGED <<docs, nextToken, puts>>, clock' >= clock,
         \A v \in Workers : worker'[v] = worker[v] \/ FencedAt(worker[v])'
  PROVE  Fencing'
<1>1. DocsOK'
  BY DEF Fencing, DocsOK
<1>2. \A k \in Keys : Restored(k)
  BY DEF Restored
<1>3. nextToken' >= nextToken
  BY DEF TypeOK
<1> QED
  BY <1>1, <1>2, <1>3, FencingFrom

\* A step that stores a document without a lease: Put, Cancel, Finish.
LEMMA FencingUnleased ==
  ASSUME TypeOK, TypeOK', Fencing, NEW k \in Keys, NEW d \in Job,
         docs' = [docs EXCEPT ![k] = d],
         d.leaseToken = NoLease, d.gen >= docs[k].gen, d.gen <= puts', d.dueAt <= d.availableAt,
         puts' >= puts, UNCHANGED <<nextToken, clock>>,
         \A v \in Workers : worker'[v] = worker[v] \/ FencedAt(worker[v])'
  PROVE  Fencing'
<1>1. \A j \in Keys : docs'[j] = IF j = k THEN d ELSE docs[j]
  BY DEF TypeOK
<1>2. \A j \in Keys : docs[j].gen \in Nat
  BY DEF TypeOK, Job
<1>3. puts \in Nat /\ puts' \in Nat /\ nextToken \in Nat \ {0} /\ clock \in Nat
  BY DEF TypeOK, NoLease
<1>4. DocsOK'
  BY <1>1, <1>2, <1>3 DEF Fencing, DocsOK, NoLease
<1>5. \A j \in Keys : Restored(j)
  BY <1>1 DEF Restored
<1> QED
  BY <1>3, <1>4, <1>5, FencingFrom

LEMMA NewJobFields ==
  ASSUME NEW gen \in Nat, NEW daily \in BOOLEAN, NEW due \in Nat
  PROVE  LET d == NewJob(gen, daily, due)
         IN  /\ d \in Job /\ d.leaseToken = NoLease /\ d.gen = gen
             /\ d.dueAt = due /\ d.availableAt = due
<1>1. NoDoc \in Job /\ NoDoc.leaseToken = NoLease
  BY ConstantTypes DEF NoDoc
<1> QED
  BY <1>1 DEF NewJob, Job, States

LEMMA PutFencing ==
  ASSUME TypeOK, TypeOK', Fencing, NEW k \in Keys, PutOneOff(k) \/ PutDaily(k)
  PROVE  Fencing'
<1>1. PICK daily \in BOOLEAN, due \in Nat : Put(k, daily, due)
  <2>1. clock \in Nat /\ clock + 1 \in Nat /\ DailyNext(clock) \in Nat
    BY DailyNextLater DEF TypeOK
  <2>2. CASE PutOneOff(k)
    BY <2>1, <2>2 DEF PutOneOff
  <2>3. CASE PutDaily(k)
    BY <2>1, <2>3 DEF PutDaily
  <2> QED
    BY <2>2, <2>3
<1> DEFINE d == NewJob(puts + 1, daily, due)
<1>2. puts \in Nat /\ docs[k].gen \in Nat /\ docs[k].gen <= puts /\ NoDoc \in Job
  BY ConstantTypes DEF TypeOK, Job, Fencing, DocsOK
<1>3. /\ d \in Job /\ d.leaseToken = NoLease /\ d.gen = puts + 1
      /\ d.dueAt = due /\ d.availableAt = due
  <2>1. puts + 1 \in Nat
    BY <1>2
  <2> QED
    BY <2>1, NewJobFields
<1>4. /\ docs' = [docs EXCEPT ![k] = d] /\ puts' = puts + 1
      /\ UNCHANGED <<worker, nextToken, clock>>
  BY <1>1 DEF Put
<1> HIDE DEF d
<1>5. d.gen >= docs[k].gen /\ d.gen <= puts' /\ d.dueAt <= d.availableAt /\ puts' >= puts
  BY <1>2, <1>3, <1>4
<1>6. \A v \in Workers : worker'[v] = worker[v]
  BY <1>4
<1> QED
  BY <1>3, <1>4, <1>5, <1>6, FencingUnleased

LEMMA CancelFencing ==
  ASSUME TypeOK, TypeOK', Fencing, NEW k \in Keys, Cancel(k)
  PROVE  Fencing'
<1> DEFINE d == [docs[k] EXCEPT !.state = "canceled", !.leaseToken = NoLease]
<1>1. docs[k] \in Job /\ puts \in Nat /\ docs[k].gen \in Nat
  BY DEF TypeOK, Job
<1>2. docs[k].gen <= puts /\ docs[k].dueAt <= docs[k].availableAt
  BY DEF Fencing, DocsOK
<1>3. /\ d \in Job /\ d.leaseToken = NoLease /\ d.gen = docs[k].gen
      /\ d.dueAt <= d.availableAt
  BY <1>1, <1>2 DEF Job, States, NoLease
<1>4. docs' = [docs EXCEPT ![k] = d] /\ UNCHANGED <<worker, nextToken, clock, puts>>
  BY DEF Cancel
<1> HIDE DEF d
<1>5. d.gen >= docs[k].gen /\ d.gen <= puts' /\ puts' >= puts
  BY <1>1, <1>2, <1>3, <1>4
<1>6. \A v \in Workers : worker'[v] = worker[v]
  BY <1>4
<1> QED
  BY <1>3, <1>4, <1>5, <1>6, FencingUnleased

\* A worker that is not in flight keeps nothing to fence.
LEMMA IdleFenced ==
  ASSUME NEW s, s.pc \in {"idle", "loop"} PROVE FencedAt(s)
BY DEF FencedAt, InFlightAt, InFlight

LEMMA PollFencing ==
  ASSUME TypeOK, Counted, TypeOK', Fencing, NEW w \in Workers,
         StartTick(w) \/ EndTick(w) \/ Query(w) \/ ClaimLost(w)
  PROVE  Fencing'
<1> DEFINE Harmless(s) == s.pc \in {"idle", "loop"} \/ (s.pc = "claim" /\ s.now = clock)
           claim(k) == [worker[w] EXCEPT !.pc = "claim", !.key = k, !.now = clock,
                                         !.deadline = clock + ClaimLatency]
           loop == [Idle EXCEPT !.pc = "loop", !.left = TickLimit]
<1>1. PICK s : Become(w, s) /\ Harmless(s)
  <2>1. Harmless(Idle) /\ Harmless(loop)
    <3>1. Idle \in WorkerState /\ Idle.pc = "idle"
      BY ConstantTypes
    <3>2. loop.pc = "loop"
      BY <3>1 DEF WorkerState
    <3> HIDE DEF loop
    <3> QED
      BY <3>1, <3>2
  <2>2. \A k \in Keys : Harmless(claim(k))
    BY StateFacts DEF WorkerState
  <2>3. Become(w, Idle) \/ Become(w, loop) \/ \E k \in Keys : Become(w, claim(k))
    BY DEF StartTick, EndTick, Query, ClaimLost
  <2> HIDE DEF claim, loop, Harmless
  <2> QED
    BY <2>1, <2>2, <2>3
<1>2. UNCHANGED <<docs, clock, nextToken, puts>> /\ clock \in Nat
  BY DEF StartTick, EndTick, Query, ClaimLost, TypeOK
<1>3. worker'[w] = s /\ \A v \in Workers \ {w} : worker'[v] = worker[v]
  BY <1>1 DEF Become, TypeOK
<1>4. FencedAt(worker[w])'
  BY <1>1, <1>2, <1>3 DEF FencedAt, InFlightAt, InFlight
<1> QED
  BY <1>2, <1>3, <1>4, FencingQuiet

LEMMA ClaimFencing ==
  ASSUME TypeOK, Counted, TypeOK', Fencing, NEW w \in Workers,
         ClaimWon(w) \/ ClaimUnknown(w)
  PROVE  Fencing'
<1> DEFINE k == worker[w].key
           now == worker[w].now
           job == Leased(k, now)
           updated == [job EXCEPT !.leaseToken = NoLease, !.attempts = job.attempts + 1]
           won == [worker[w] EXCEPT !.pc = "lookup", !.now = 0,
                     !.deadline = clock + SendTimeout, !.job = job, !.updated = updated]
<1>1. /\ worker[w] \in WorkerState /\ k \in Keys /\ now \in Nat /\ clock \in Nat
      /\ docs[k] \in Job /\ nextToken \in Nat \ {NoLease} /\ now + Lease \in Nat
  BY TimeoutAssumption DEF TypeOK, WorkerState
<1>2. /\ worker[w].pc = "claim" /\ docs[k].state = "ready" /\ docs[k].availableAt <= now
      /\ docs' = [docs EXCEPT ![k] = job] /\ nextToken' = nextToken + 1
      /\ UNCHANGED <<clock, puts>>
  BY DEF ClaimWon, ClaimUnknown, CommitClaim, StillDue, Claimable
<1>3. now <= clock /\ docs[k].dueAt <= docs[k].availableAt /\ docs[k].gen <= puts
  BY <1>1, <1>2 DEF Fencing, DocsOK, FencedAt
<1>4. docs[k].dueAt \in Nat /\ docs[k].availableAt \in Nat /\ docs[k].gen \in Nat
        /\ docs[k].completed \subseteq Targets /\ docs[k].attempts \in Nat
  BY <1>1 DEF Job
<1>5. /\ job \in Job /\ job.gen = docs[k].gen /\ job.leaseToken = nextToken
      /\ job.state = "ready" /\ job.dueAt = docs[k].dueAt /\ job.dueAt <= clock
      /\ job.availableAt = now + Lease /\ job.dueAt <= job.availableAt
  <2>1. job = [docs[k] EXCEPT !.leaseToken = nextToken, !.availableAt = now + Lease]
    BY DEF Leased
  <2>2. docs[k].dueAt <= now + Lease /\ docs[k].dueAt <= clock
    BY <1>1, <1>2, <1>3, <1>4, TimeoutAssumption
  <2> HIDE DEF job
  <2> QED
    BY <1>1, <1>2, <2>1, <2>2 DEF Job
<1>6. Underway(job, updated)
  <2> HIDE DEF job
  <2> QED
    BY <1>5 DEF Underway, Job
<1>7. \A v \in Workers \ {w} : worker'[v] = worker[v]
  BY DEF ClaimWon, ClaimUnknown, Become, TypeOK
<1>8. docs'[k] = job /\ \A j \in Keys \ {k} : docs'[j] = docs[j]
  BY <1>1, <1>2 DEF TypeOK
<1>9. FencedAt(worker[w])'
  <2>1. CASE ClaimUnknown(w)
    <3>1. worker'[w] = Idle
      BY <2>1 DEF ClaimUnknown, Become, TypeOK
    <3> QED
      BY <3>1, ConstantTypes DEF FencedAt, InFlightAt, InFlight
  <2>2. CASE ClaimWon(w)
    <3>1. worker'[w] = won
      BY <2>2 DEF ClaimWon, Become, TypeOK
    <3>2. won.pc = "lookup" /\ won.job = job /\ won.updated = updated /\ won.key = k
      BY <1>1 DEF WorkerState
    <3> HIDE DEF won, updated, job
    <3> QED
      BY <1>1, <1>2, <1>4, <1>5, <1>6, <1>8, <3>1, <3>2 DEF FencedAt, InFlightAt, InFlight
  <2> QED
    BY <2>1, <2>2
<1> HIDE DEF job
<1>10. DocsOK'
  BY <1>1, <1>2, <1>3, <1>5, <1>8 DEF Fencing, DocsOK, NoLease, TypeOK, Job
<1>11. \A j \in Keys : Restored(j)
  BY <1>4, <1>5, <1>8 DEF Restored
<1>12. clock' >= clock /\ nextToken' >= nextToken
  BY <1>1, <1>2
<1> QED
  BY <1>7, <1>9, <1>10, <1>11, <1>12, FencingFrom

\* While it is in flight, a worker moves on with its job and its key.
LEMMA FlightFencing ==
  ASSUME TypeOK, TypeOK', Fencing, NEW w \in Workers, NEW s, Become(w, s),
         InFlightAt(worker[w]), InFlightAt(s),
         s.key = worker[w].key, s.job = worker[w].job,
         IF s.pc = "ack" THEN Outcome(s.job, s.updated) ELSE Underway(s.job, s.updated),
         UNCHANGED <<docs, nextToken, puts, clock>>
  PROVE  Fencing'
<1>1. worker'[w] = s /\ \A v \in Workers \ {w} : worker'[v] = worker[v]
  BY DEF Become, TypeOK
<1>2. FencedAt(worker[w])
  BY DEF Fencing
<1>3. s.pc # "claim"
  BY DEF InFlightAt, InFlight
<1>4. FencedAt(worker[w])'
  BY <1>1, <1>2, <1>3 DEF FencedAt, InFlightAt
<1>5. clock' >= clock
  BY DEF TypeOK
<1> QED
  BY <1>1, <1>4, <1>5, FencingQuiet

LEMMA AcknowledgeFields ==
  ASSUME TypeOK, NEW w \in Workers, NEW u
  PROVE  LET a == Acknowledge(w, u)
         IN  /\ a.pc = "ack" /\ a.updated = u /\ a.key = worker[w].key
             /\ a.job = worker[w].job /\ a.deadline = clock + AckTimeout
             /\ a \in [{"pc", "left", "now", "deadline", "key", "job", "updated",
                        "pending", "taken"} -> {a[f] : f \in DOMAIN a}]
<1>1. worker[w] \in WorkerState
  BY DEF TypeOK
<1> QED
  BY <1>1 DEF Acknowledge, WorkerState

LEMMA LookupFencing ==
  ASSUME TypeOK, Counted, TypeOK', Fencing, NEW w \in Workers, LookupFails(w) \/ Lookup(w)
  PROVE  Fencing'
<1> DEFINE failed == Acknowledge(w, Retry(worker[w].updated, clock))
           found == [worker[w] EXCEPT !.pc = "send", !.pending = Unsent(w)]
           j == worker[w].job
           u == worker[w].updated
<1>1. /\ worker[w] \in WorkerState /\ j \in Job /\ u \in Job /\ clock \in Nat
      /\ worker[w].pc = "lookup" /\ u.attempts >= 1
  BY StateFacts DEF LookupFails, Lookup
<1>2. InFlightAt(worker[w]) /\ Underway(j, u) /\ j.dueAt <= clock
  BY <1>1 DEF Fencing, FencedAt, InFlightAt, InFlight
<1>3. UNCHANGED <<docs, nextToken, puts, clock>>
  BY DEF LookupFails, Lookup
<1>4. CASE LookupFails(w)
  <2>1. Become(w, failed)
    BY <1>4 DEF LookupFails
  <2>2. Outcome(j, Retry(u, clock))
    BY <1>1, <1>2, RetryOutcome
  <2>3. /\ failed.pc = "ack" /\ failed.updated = Retry(u, clock)
        /\ failed.key = worker[w].key /\ failed.job = j
    BY AcknowledgeFields
  <2>4. InFlightAt(failed)
    BY <2>3 DEF InFlightAt, InFlight
  <2> HIDE DEF failed
  <2> QED
    BY <1>2, <1>3, <2>1, <2>2, <2>3, <2>4, FlightFencing
<1>5. CASE Lookup(w)
  <2>1. Become(w, found)
    BY <1>5 DEF Lookup
  <2>2. /\ found.pc = "send" /\ found.updated = u /\ found.key = worker[w].key
        /\ found.job = j
    BY <1>1 DEF WorkerState
  <2>3. InFlightAt(found)
    BY <2>2 DEF InFlightAt, InFlight
  <2> HIDE DEF found
  <2> QED
    BY <1>2, <1>3, <2>1, <2>2, <2>3, FlightFencing
<1> QED
  BY <1>4, <1>5

LEMMA SendFencing ==
  ASSUME TypeOK, Counted, TypeOK', Fencing, NEW w \in Workers, Send(w)
  PROVE  Fencing'
<1> DEFINE j == worker[w].job
<1>1. /\ worker[w] \in WorkerState /\ j \in Job /\ worker[w].updated \in Job
      /\ clock \in Nat /\ worker[w].pc = "send" /\ worker[w].updated.attempts >= 1
  BY StateFacts, SendFacts DEF SendFrame
<1>2. InFlightAt(worker[w]) /\ Underway(j, worker[w].updated) /\ j.dueAt <= clock
  BY <1>1 DEF Fencing, FencedAt, InFlightAt, InFlight
<1>3. UNCHANGED <<docs, nextToken, puts, clock>>
  BY SendFacts DEF SendFrame
<1>4. ASSUME NEW t \in Targets, Accept(w, t)
      PROVE  Fencing'
  <2> DEFINE s == [worker[w] EXCEPT !.taken = @ \cup {t}]
  <2>1. Become(w, s)
    BY <1>4 DEF Accept
  <2>2. /\ s.pc = "send" /\ s.updated = worker[w].updated /\ s.key = worker[w].key
        /\ s.job = j
    BY <1>1 DEF WorkerState
  <2>3. InFlightAt(s)
    BY <2>2 DEF InFlightAt, InFlight
  <2> HIDE DEF s
  <2> QED
    BY <1>2, <1>3, <2>1, <2>2, <2>3, FlightFencing
<1>5. ASSUME NEW unregistered \in SUBSET Targets, NEW perm \in SUBSET Targets,
             NEW unresolved \in SUBSET Targets,
             SendReturns(w, unregistered, perm, unresolved)
      PROVE  Fencing'
  <2> DEFINE u == [worker[w].updated EXCEPT
                     !.completed = Recorded(worker[w], unresolved),
                     !.invalid = @ \cup unregistered,
                     !.permanent = @ \/ perm # {}]
             retiring == [worker[w] EXCEPT !.pc = "retire", !.updated = u,
                            !.pending = unresolved, !.taken = @ \ unresolved]
             acking(c) == [Acknowledge(w, c) EXCEPT !.taken = @ \ unresolved]
  <2>1. worker[w].pending \subseteq Targets
    BY StateFacts
  <2>2. u \in Job /\ u.attempts >= 1 /\ Underway(j, u)
    <3>1. /\ Recorded(worker[w], unresolved) \subseteq Targets
          /\ worker[w].updated.completed \subseteq Recorded(worker[w], unresolved)
      BY <1>1, <2>1 DEF Job, Recorded
    <3> QED
      BY <1>1, <1>2, <3>1 DEF Underway, Job
  <2>3. \/ Become(w, retiring)
        \/ \E c \in Conclusions(u, unresolved # {}, clock) : Become(w, acking(c))
    BY <1>5 DEF SendReturns
  <2>4. /\ retiring.pc = "retire" /\ retiring.updated = u /\ retiring.key = worker[w].key
        /\ retiring.job = j
    BY <1>1 DEF WorkerState
  <2>5. InFlightAt(retiring)
    BY <2>4 DEF InFlightAt, InFlight
  <2>6. ASSUME NEW c \in Conclusions(u, unresolved # {}, clock), Become(w, acking(c))
        PROVE  Fencing'
    <3> HIDE DEF u
    <3>1. Outcome(j, c)
      BY <1>1, <1>2, <2>2, <2>6, ConclusionsOutcome
    <3>2. /\ acking(c).pc = "ack" /\ acking(c).updated = c
          /\ acking(c).key = worker[w].key /\ acking(c).job = j
      BY AcknowledgeFields
    <3>3. InFlightAt(acking(c))
      BY <3>2 DEF InFlightAt, InFlight
    <3> HIDE DEF acking
    <3> QED
      BY <1>2, <1>3, <2>6, <3>1, <3>2, <3>3, FlightFencing
  <2> HIDE DEF retiring, u
  <2>7. ASSUME Become(w, retiring)
        PROVE  Fencing'
    BY <1>2, <1>3, <2>2, <2>4, <2>5, <2>7, FlightFencing
  <2> QED
    BY <2>3, <2>6, <2>7
<1>6. CASE \E t \in Targets : Accept(w, t)
  BY <1>4, <1>6
<1>7. CASE \E unregistered, perm, unresolved \in SUBSET Targets :
             SendReturns(w, unregistered, perm, unresolved)
  BY <1>5, <1>7
<1> QED
  BY <1>6, <1>7 DEF Send

LEMMA RetireFencing ==
  ASSUME TypeOK, Counted, TypeOK', Fencing, NEW w \in Workers, Retire(w) \/ RetireFails(w)
  PROVE  Fencing'
<1> DEFINE j == worker[w].job
           u == worker[w].updated
           retired == [u EXCEPT !.invalid = {}]
           b == worker[w].pending # {}
<1>1. /\ worker[w] \in WorkerState /\ j \in Job /\ u \in Job
      /\ clock \in Nat /\ worker[w].pc = "retire" /\ u.attempts >= 1
  BY StateFacts DEF Retire, RetireFails
<1>2. InFlightAt(worker[w]) /\ Underway(j, u) /\ j.dueAt <= clock
  BY <1>1 DEF Fencing, FencedAt, InFlightAt, InFlight
<1>3. retired \in Job /\ Underway(j, retired) /\ retired.attempts >= 1
  BY <1>1, <1>2 DEF Underway, Job
<1>4. \/ Become(w, Acknowledge(w, Retry(u, clock)))
      \/ \E c \in Conclusions(retired, b, clock) : Become(w, Acknowledge(w, c))
  BY DEF Retire, RetireFails
<1>5. Outcome(j, Retry(u, clock))
  BY <1>1, <1>2, RetryOutcome
<1> HIDE DEF retired
<1>6. \A c \in Conclusions(retired, b, clock) : Outcome(j, c)
  BY <1>1, <1>2, <1>3, ConclusionsOutcome
<1>7. PICK c : Outcome(j, c) /\ Become(w, Acknowledge(w, c))
  BY <1>4, <1>5, <1>6
<1> DEFINE a == Acknowledge(w, c)
<1>8. a.pc = "ack" /\ a.updated = c /\ a.key = worker[w].key /\ a.job = j
  BY AcknowledgeFields
<1>9. InFlightAt(a)
  BY <1>8 DEF InFlightAt, InFlight
<1>10. UNCHANGED <<docs, nextToken, puts, clock>>
  BY DEF Retire, RetireFails
<1> HIDE DEF a
<1>11. Become(w, a)
  BY <1>7 DEF a
<1> QED
  BY <1>2, <1>7, <1>8, <1>9, <1>10, <1>11, FlightFencing

\* A worker whose Tick goes on or ends after an acknowledgement.
LEMMA LeavesFlight ==
  ASSUME TypeOK, Counted, NEW w \in Workers,
         Finish(w) \/ FinishLost(w) \/ FinishUnknown(w) \/ Abandon(w)
  PROVE  /\ worker'[w].pc \in {"idle", "loop"}
         /\ \A v \in Workers \ {w} : worker'[v] = worker[v]
<1>1. Become(w, Idle) \/ Become(w, [Idle EXCEPT !.pc = "loop", !.left = worker[w].left - 1])
  <2>1. CASE Finish(w)
    BY <2>1 DEF Finish
  <2>2. CASE FinishLost(w) \/ FinishUnknown(w) \/ Abandon(w)
    BY <2>2 DEF FinishLost, FinishUnknown, Abandon
  <2> QED
    BY <2>1, <2>2
<1>2. \A n : [Idle EXCEPT !.pc = "loop", !.left = n].pc = "loop"
  BY ConstantTypes DEF WorkerState
<1>3. PICK s : Become(w, s) /\ s.pc \in {"idle", "loop"}
  BY <1>1, <1>2, ConstantTypes
<1>4. worker \in [Workers -> WorkerState]
  BY DEF TypeOK
<1> QED
  BY <1>3, <1>4 DEF Become

\* Passing the compare of Finish, a worker replaces the very job it claimed.
LEMMA CommitFinishFacts ==
  ASSUME TypeOK, Fencing, NEW w \in Workers, CommitFinish(w)
  PROVE  /\ worker[w].key \in Keys
         /\ docs[worker[w].key] = worker[w].job
         /\ worker[w].job.state = "ready"
         /\ worker[w].updated \in Job
         /\ Outcome(worker[w].job, worker[w].updated)
<1>1. worker[w].pc = "ack" /\ LeaseHeld(w)
  BY DEF CommitFinish
<1>2. InFlightAt(worker[w]) /\ FencedAt(worker[w])
  BY <1>1 DEF InFlightAt, InFlight, Fencing
<1>3. worker[w].key \in Keys /\ worker[w].updated \in Job
  BY DEF TypeOK, WorkerState
<1> QED
  BY <1>1, <1>2, <1>3 DEF FencedAt, LeaseHeld

LEMMA FinishFencing ==
  ASSUME TypeOK, Counted, TypeOK', Fencing, NEW w \in Workers,
         Finish(w) \/ FinishLost(w) \/ FinishUnknown(w) \/ Abandon(w)
  PROVE  Fencing'
<1> DEFINE k == worker[w].key
           d == worker[w].updated
<1>1. \A v \in Workers : worker'[v] = worker[v] \/ FencedAt(worker[v])'
  BY LeavesFlight DEF FencedAt, InFlightAt, InFlight
<1>2. ASSUME CommitFinish(w), UNCHANGED <<clock, puts, nextToken>>
      PROVE  Fencing'
  <2>1. /\ k \in Keys /\ docs[k] = worker[w].job /\ d \in Job
        /\ Outcome(worker[w].job, d)
    BY <1>2, CommitFinishFacts
  <2>2. d.leaseToken = NoLease /\ d.gen = docs[k].gen /\ d.dueAt <= d.availableAt
    BY <2>1 DEF Outcome
  <2>3. docs[k].gen \in Nat /\ puts \in Nat /\ docs[k].gen <= puts
    BY <2>1 DEF TypeOK, Job, Fencing, DocsOK
  <2>4. d.gen >= docs[k].gen /\ d.gen <= puts' /\ puts' >= puts
    BY <1>2, <2>2, <2>3
  <2>5. docs' = [docs EXCEPT ![k] = d]
    BY <1>2 DEF CommitFinish
  <2> QED
    BY <1>1, <1>2, <2>1, <2>2, <2>4, <2>5, FencingUnleased
<1>3. ASSUME FinishLost(w) \/ Abandon(w)
      PROVE  Fencing'
  <2>1. UNCHANGED <<docs, nextToken, puts>> /\ clock' >= clock
    BY <1>3 DEF FinishLost, Abandon, TypeOK
  <2> QED
    BY <1>1, <2>1, FencingQuiet
<1> QED
  BY <1>2, <1>3 DEF Finish, FinishUnknown, CommitFinish

LEMMA FencingStep ==
  ASSUME TypeOK, Counted, TypeOK', Fencing, [Next]_vars PROVE Fencing'
<1>1. ASSUME NEW k \in Keys, PutOneOff(k) \/ PutDaily(k) \/ Cancel(k)
      PROVE  Fencing'
  BY <1>1, PutFencing, CancelFencing
<1>2. ASSUME NEW w \in Workers, WorkerStep(w) \/ Fault(w)
      PROVE  Fencing'
  BY <1>2, PollFencing, ClaimFencing, LookupFencing, SendFencing, RetireFencing,
     FinishFencing
  DEF WorkerStep, Fault
<1>3. ASSUME UNCHANGED <<docs, worker, nextToken, puts>>, clock' >= clock
      PROVE  Fencing'
  BY <1>3, FencingQuiet
<1>4. ChangeDevices \/ Advance \/ UNCHANGED vars
        => UNCHANGED <<docs, worker, nextToken, puts>> /\ clock' >= clock
  BY DEF ChangeDevices, Advance, vars, TypeOK
<1> QED
  BY <1>1, <1>2, <1>3, <1>4 DEF Next

LEMMA FencingInit == Init => Fencing
<1> SUFFICES ASSUME Init PROVE Fencing
  OBVIOUS
<1>1. DocsOK
  <2>1. NoDoc.leaseToken = 0 /\ NoDoc.dueAt = 0 /\ NoDoc.availableAt = 0 /\ NoDoc.gen = 0
    BY DEF NoDoc, NoLease
  <2>2. docs = [k \in Keys |-> NoDoc] /\ nextToken = 1 /\ puts = 0
    BY DEF Init
  <2>3. \A k \in Keys : /\ docs[k].leaseToken = 0 /\ docs[k].dueAt = 0
                        /\ docs[k].availableAt = 0 /\ docs[k].gen = 0
    BY <2>1, <2>2
  <2>4. SUFFICES ASSUME NEW k \in Keys
                 PROVE  /\ docs[k].leaseToken < nextToken
                        /\ docs[k].dueAt <= docs[k].availableAt
                        /\ docs[k].gen <= puts
    BY DEF DocsOK
  <2>5. docs[k].leaseToken < nextToken
    BY <2>2, <2>3
  <2>6. docs[k].dueAt <= docs[k].availableAt
    BY <2>2, <2>3
  <2>7. docs[k].gen <= puts
    BY <2>2, <2>3
  <2> QED
    BY <2>5, <2>6, <2>7
<1>2. \A w \in Workers : worker[w].pc = "idle"
  BY ConstantTypes DEF Init
<1> QED
  BY <1>1, <1>2 DEF Fencing, FencedAt, InFlightAt, InFlight

THEOREM FencingHolds == Spec => [](TypeOK /\ Counted /\ Fencing)
<1>1. TypeOK /\ Counted /\ Fencing /\ [Next]_vars => (TypeOK /\ Counted /\ Fencing)'
  BY TypeStep, FencingStep
<1> QED
  BY TypeInit, FencingInit, <1>1, PTL DEF Spec

------------------------------------------------------------------------------
(* What fencing is for: the promises to the caller of a schedule.            *)

\* The only steps that change a document: a Put, a Cancel, a claim, which touches
\* the lease alone, and a Finish with an outcome of the stored job.
LEMMA DocumentStep ==
  ASSUME TypeOK, Counted, Fencing, [Next]_vars
  PROVE  \/ UNCHANGED docs
         \/ \E k \in Keys, d \in Job :
              /\ docs' = [docs EXCEPT ![k] = d]
              /\ \/ d.gen > docs[k].gen /\ d.state = "ready" /\ d.completed = {}
                 \/ /\ docs[k].state # "absent"
                    /\ d = [docs[k] EXCEPT !.state = "canceled", !.leaseToken = NoLease]
                 \/ \E w \in Workers : d = Leased(k, worker[w].now)
                 \/ docs[k].state = "ready" /\ Outcome(docs[k], d)
<1> DEFINE Changed(k, d) ==
      /\ docs' = [docs EXCEPT ![k] = d]
      /\ \/ d.gen > docs[k].gen /\ d.state = "ready" /\ d.completed = {}
         \/ /\ docs[k].state # "absent"
            /\ d = [docs[k] EXCEPT !.state = "canceled", !.leaseToken = NoLease]
         \/ \E w \in Workers : d = Leased(k, worker[w].now)
         \/ docs[k].state = "ready" /\ Outcome(docs[k], d)
<1>1. ASSUME NEW k \in Keys, PutOneOff(k) \/ PutDaily(k)
      PROVE  \E d \in Job : Changed(k, d)
  <2>1. PICK daily \in BOOLEAN, due \in Nat : Put(k, daily, due)
    <3>1. clock \in Nat /\ clock + 1 \in Nat /\ DailyNext(clock) \in Nat
      BY DailyNextLater DEF TypeOK
    <3>2. CASE PutOneOff(k)
      BY <3>1, <3>2 DEF PutOneOff
    <3>3. CASE PutDaily(k)
      BY <3>1, <3>3 DEF PutDaily
    <3> QED
      BY <1>1, <3>2, <3>3
  <2> DEFINE d == NewJob(puts + 1, daily, due)
  <2>2. puts + 1 \in Nat /\ docs[k].gen < puts + 1
    BY DEF TypeOK, Job, Fencing, DocsOK
  <2>3. d \in Job /\ d.gen = puts + 1
    BY <2>2, NewJobFields
  <2>4. d.state = "ready" /\ d.completed = {}
    BY DEF NewJob, NoDoc
  <2>5. docs' = [docs EXCEPT ![k] = d]
    BY <2>1 DEF Put
  <2> HIDE DEF d
  <2> QED
    BY <2>2, <2>3, <2>4, <2>5
<1>2. ASSUME NEW k \in Keys, Cancel(k)
      PROVE  \E d \in Job : Changed(k, d)
  <2> DEFINE d == [docs[k] EXCEPT !.state = "canceled", !.leaseToken = NoLease]
  <2>1. d \in Job
    <3>1. docs[k] \in Job
      BY DEF TypeOK
    <3> QED
      BY <3>1 DEF Job, States, NoLease
  <2>2. docs' = [docs EXCEPT ![k] = d] /\ docs[k].state # "absent"
    BY <1>2 DEF Cancel
  <2> HIDE DEF d
  <2>3. d = [docs[k] EXCEPT !.state = "canceled", !.leaseToken = NoLease]
    BY DEF d
  <2> QED
    BY <2>1, <2>2, <2>3
<1>3. ASSUME NEW w \in Workers, CommitClaim(w)
      PROVE  \E k \in Keys, d \in Job : Changed(k, d)
  <2>1. worker[w].key \in Keys /\ worker[w].now \in Nat
    BY DEF TypeOK, WorkerState
  <2>2. Leased(worker[w].key, worker[w].now) \in Job
    BY <2>1, LeasedType
  <2>3. docs' = [docs EXCEPT ![worker[w].key] = Leased(worker[w].key, worker[w].now)]
    BY <1>3 DEF CommitClaim
  <2> QED
    BY <2>1, <2>2, <2>3
<1>4. ASSUME NEW w \in Workers, CommitFinish(w)
      PROVE  \E k \in Keys, d \in Job : Changed(k, d)
  <2>1. docs' = [docs EXCEPT ![worker[w].key] = worker[w].updated]
    BY <1>4 DEF CommitFinish
  <2>2. /\ worker[w].key \in Keys /\ worker[w].updated \in Job
        /\ docs[worker[w].key].state = "ready"
        /\ Outcome(docs[worker[w].key], worker[w].updated)
    BY <1>4, CommitFinishFacts
  <2>3. Changed(worker[w].key, worker[w].updated)
    BY <2>1, <2>2
  <2> HIDE DEF Changed
  <2> QED
    BY <2>2, <2>3
<1>5. ASSUME NEW w \in Workers, WorkerStep(w) \/ Fault(w)
      PROVE  CommitClaim(w) \/ CommitFinish(w) \/ UNCHANGED docs
  <2>1. StartTick(w) \/ EndTick(w) \/ Query(w) \/ ClaimLost(w) => UNCHANGED docs
    BY DEF StartTick, EndTick, Query, ClaimLost
  <2>2. LookupFails(w) \/ Lookup(w) \/ Retire(w) \/ RetireFails(w) => UNCHANGED docs
    BY DEF LookupFails, Lookup, Retire, RetireFails
  <2>3. Send(w) => UNCHANGED docs
    BY SendFacts DEF SendFrame
  <2>4. FinishLost(w) \/ Abandon(w) => UNCHANGED docs
    BY DEF FinishLost, Abandon
  <2>5. ClaimWon(w) \/ ClaimUnknown(w) => CommitClaim(w)
    BY DEF ClaimWon, ClaimUnknown
  <2>6. Finish(w) \/ FinishUnknown(w) => CommitFinish(w)
    BY DEF Finish, FinishUnknown
  <2> QED
    BY <1>5, <2>1, <2>2, <2>3, <2>4, <2>5, <2>6 DEF WorkerStep, Fault
<1>6. ChangeDevices \/ Advance \/ UNCHANGED vars => UNCHANGED docs
  BY DEF ChangeDevices, Advance, vars
<1> HIDE DEF Changed
<1>7. UNCHANGED docs \/ \E k \in Keys, d \in Job : Changed(k, d)
  BY <1>1, <1>2, <1>3, <1>4, <1>5, <1>6 DEF Next
<1> QED
  BY <1>7 DEF Changed

\* The four ways a document changes, in the caller's terms.
Untouched(k) ==
  /\ docs'[k].gen = docs[k].gen /\ docs'[k].dueAt = docs[k].dueAt
  /\ docs'[k].state = docs[k].state /\ docs'[k].completed = docs[k].completed
Replaced(k) ==
  docs'[k].gen > docs[k].gen /\ docs'[k].state = "ready" /\ docs'[k].completed = {}
CanceledBy(k) ==
  /\ docs[k].state # "absent" /\ docs'[k].state = "canceled"
  /\ docs'[k].gen = docs[k].gen /\ docs'[k].dueAt = docs[k].dueAt
  /\ docs'[k].completed = docs[k].completed
Concluded(k) == docs[k].state = "ready" /\ Outcome(docs[k], docs'[k])

LEMMA DocumentKept ==
  ASSUME TypeOK, Counted, Fencing, [Next]_vars
  PROVE  \/ \A k \in Keys : Untouched(k)
         \/ \E j \in Keys : /\ \A k \in Keys \ {j} : docs'[k] = docs[k]
                            /\ Untouched(j) \/ Replaced(j) \/ CanceledBy(j) \/ Concluded(j)
<1>1. CASE UNCHANGED docs
  BY <1>1 DEF Untouched
<1>2. CASE ~UNCHANGED docs
  <2>1. PICK j \in Keys, d \in Job :
          /\ docs' = [docs EXCEPT ![j] = d]
          /\ \/ d.gen > docs[j].gen /\ d.state = "ready" /\ d.completed = {}
             \/ /\ docs[j].state # "absent"
                /\ d = [docs[j] EXCEPT !.state = "canceled", !.leaseToken = NoLease]
             \/ \E w \in Workers : d = Leased(j, worker[w].now)
             \/ docs[j].state = "ready" /\ Outcome(docs[j], d)
    BY <1>2, DocumentStep
  <2>2. docs'[j] = d /\ docs[j] \in Job /\ \A k \in Keys \ {j} : docs'[k] = docs[k]
    BY <2>1 DEF TypeOK
  <2>3. CASE d.gen > docs[j].gen /\ d.state = "ready" /\ d.completed = {}
    BY <2>2, <2>3 DEF Replaced
  <2>4. CASE /\ docs[j].state # "absent"
             /\ d = [docs[j] EXCEPT !.state = "canceled", !.leaseToken = NoLease]
    <3>1. /\ d.state = "canceled" /\ d.gen = docs[j].gen /\ d.dueAt = docs[j].dueAt
          /\ d.completed = docs[j].completed
      BY <2>2, <2>4 DEF Job
    <3> QED
      BY <2>2, <2>4, <3>1 DEF CanceledBy
  <2>5. CASE \E w \in Workers : d = Leased(j, worker[w].now)
    <3>1. /\ d.state = docs[j].state /\ d.gen = docs[j].gen /\ d.dueAt = docs[j].dueAt
          /\ d.completed = docs[j].completed
      BY <2>2, <2>5 DEF Leased, Job
    <3> QED
      BY <2>2, <3>1 DEF Untouched
  <2>6. CASE docs[j].state = "ready" /\ Outcome(docs[j], d)
    BY <2>2, <2>6 DEF Concluded
  <2> QED
    BY <2>1, <2>2, <2>3, <2>4, <2>5, <2>6
<1> QED
  BY <1>1, <1>2

LEMMA OneDocumentKept ==
  ASSUME TypeOK, Counted, Fencing, [Next]_vars, NEW k \in Keys
  PROVE  Untouched(k) \/ Replaced(k) \/ CanceledBy(k) \/ Concluded(k)
<1>1. CASE \A j \in Keys : Untouched(j)
  BY <1>1
<1>2. CASE \E j \in Keys : /\ \A i \in Keys \ {j} : docs'[i] = docs[i]
                           /\ Untouched(j) \/ Replaced(j) \/ CanceledBy(j) \/ Concluded(j)
  <2>1. PICK j \in Keys : /\ \A i \in Keys \ {j} : docs'[i] = docs[i]
                          /\ Untouched(j) \/ Replaced(j) \/ CanceledBy(j) \/ Concluded(j)
    BY <1>2
  <2>2. CASE k = j
    BY <2>1, <2>2 DEF Untouched, Replaced, CanceledBy, Concluded
  <2>3. CASE k # j
    <3>1. docs'[k] = docs[k]
      BY <2>1, <2>3 DEF Untouched, Replaced, CanceledBy, Concluded
    <3>2. Untouched(k)
      BY <3>1 DEF Untouched
    <3> QED
      BY <3>2
  <2> QED
    BY <2>2, <2>3
<1> QED
  BY <1>1, <1>2, DocumentKept

\* "A stale lease cannot finish, overwrite a replacement, or resurrect a canceled
\* job" (the Store contract in schedule.go), for any number of workers and keys
\* and any timing: the theorem needs no assumption on the lease.
THEOREM NoResurrectionHolds == Spec => NoResurrection
<1>1. TypeOK /\ Counted /\ Fencing /\ [Next]_vars
        => [\A k \in Keys :
             /\ docs'[k].gen >= docs[k].gen
             /\ docs'[k].gen = docs[k].gen /\ docs[k].state \in {"done", "failed", "canceled"}
                  => docs'[k].state \in {docs[k].state, "canceled"}]_vars
  <2> SUFFICES ASSUME TypeOK, Counted, Fencing, [Next]_vars, NEW k \in Keys
               PROVE  /\ docs'[k].gen >= docs[k].gen
                      /\ docs'[k].gen = docs[k].gen
                         /\ docs[k].state \in {"done", "failed", "canceled"}
                           => docs'[k].state \in {docs[k].state, "canceled"}
    OBVIOUS
  <2>1. docs[k].gen \in Nat /\ docs'[k].gen \in Nat
    BY TypeStep DEF TypeOK, Job
  <2> QED
    BY <2>1, OneDocumentKept DEF Untouched, Replaced, CanceledBy, Concluded, Outcome
<1> QED
  BY FencingHolds, <1>1, PTL DEF Spec, NoResurrection

\* Progress of an occurrence is never lost (deliver appends to Completed, and Finish
\* writes it over the very document deliver read).
THEOREM ProgressKeptHolds == Spec => ProgressKept
<1>1. TypeOK /\ Counted /\ Fencing /\ [Next]_vars
        => [\A k \in Keys : docs'[k].gen = docs[k].gen =>
             /\ docs'[k].dueAt >= docs[k].dueAt
             /\ docs'[k].dueAt = docs[k].dueAt
                  => docs[k].completed \subseteq docs'[k].completed]_vars
  <2> SUFFICES ASSUME TypeOK, Counted, Fencing, [Next]_vars, NEW k \in Keys,
                      docs'[k].gen = docs[k].gen
               PROVE  /\ docs'[k].dueAt >= docs[k].dueAt
                      /\ docs'[k].dueAt = docs[k].dueAt
                           => docs[k].completed \subseteq docs'[k].completed
    OBVIOUS
  <2>1. /\ docs[k].gen \in Nat /\ docs'[k].gen \in Nat
        /\ docs[k].dueAt \in Nat /\ docs'[k].dueAt \in Nat
    BY TypeStep DEF TypeOK, Job
  <2> QED
    BY <2>1, OneDocumentKept DEF Untouched, Replaced, CanceledBy, Concluded, Outcome
<1> QED
  BY FencingHolds, <1>1, PTL DEF Spec, ProgressKept

------------------------------------------------------------------------------
(* Scheduler implements ScheduleContract.                                    *)

LEMMA ViewFields ==
  ASSUME NEW k \in Keys
  PROVE  /\ CallersView[k].gen = docs[k].gen
         /\ CallersView[k].phase = Phase(docs[k].state)
         /\ CallersView[k].due = docs[k].dueAt
         /\ CallersView[k].done = docs[k].completed
BY DEF CallersView

LEMMA ViewFieldsNext ==
  ASSUME NEW k \in Keys
  PROVE  /\ CallersView'[k].gen = docs'[k].gen
         /\ CallersView'[k].phase = Phase(docs'[k].state)
         /\ CallersView'[k].due = docs'[k].dueAt
         /\ CallersView'[k].done = docs'[k].completed
BY DEF CallersView

LEMMA PhaseOf ==
  /\ \A state : Phase(state) = "open" <=> state = "ready"
  /\ \A state : Phase(state) = "none" <=> state = "absent"
  /\ \A state \in {"done", "failed", "canceled"} : Phase(state) = "closed"
BY DEF Phase

\* A step that leaves the caller's view of a document alone.
LEMMA ViewUntouched ==
  ASSUME NEW k \in Keys, Untouched(k)
  PROVE  CallersView'[k] = CallersView[k]
BY DEF Untouched, CallersView

LEMMA ContractStep ==
  ASSUME TypeOK, TypeOK', Counted, Fencing, [Next]_vars
  PROVE  Contract!Next \/ UNCHANGED CallersView
<1>1. CASE \A k \in Keys : Untouched(k)
  BY <1>1 DEF Untouched, CallersView
<1>2. ASSUME NEW j \in Keys, \A k \in Keys \ {j} : docs'[k] = docs[k],
             Untouched(j) \/ Replaced(j) \/ CanceledBy(j) \/ Concluded(j)
      PROVE  Contract!Next \/ UNCHANGED CallersView
  <2>1. Contract!Only(j)
    BY <1>2 DEF Contract!Only, CallersView
  <2>2. CASE Untouched(j)
    BY <1>2, <2>2 DEF Untouched, CallersView
  <2>3. CASE Replaced(j)
    <3>1. Contract!Schedule(j)
      BY <2>1, <2>3, ViewFields, ViewFieldsNext, PhaseOf DEF Replaced, Contract!Schedule
    <3> QED
      BY <3>1 DEF Contract!Next
  <2>4. CASE CanceledBy(j)
    <3>1. CallersView'[j] = [CallersView[j] EXCEPT !.phase = "closed"]
      BY <2>4 DEF CanceledBy, CallersView, Phase
    <3>2. CallersView[j].phase # "none"
      BY <2>4, ViewFields, PhaseOf DEF CanceledBy
    <3>3. Contract!Cancel(j)
      BY <2>1, <3>1, <3>2 DEF Contract!Cancel
    <3> QED
      BY <3>3 DEF Contract!Next
  <2>5. CASE Concluded(j)
    <3>1. docs[j].state = "ready" /\ Outcome(docs[j], docs'[j])
      BY <2>5 DEF Concluded
    <3>2. CallersView[j].phase = "open"
      BY <3>1, ViewFields, PhaseOf
    <3>3. CallersView'[j].phase \in {"open", "closed"}
      BY <3>1, ViewFieldsNext, PhaseOf DEF Outcome
    <3>4. CASE docs'[j].dueAt = docs[j].dueAt /\ docs[j].completed \subseteq docs'[j].completed
      <4>1. Contract!Record(j)
        BY <2>1, <3>1, <3>2, <3>3, <3>4, ViewFields, ViewFieldsNext
        DEF Outcome, Contract!Record
      <4> QED
        BY <4>1 DEF Contract!Next
    <3>5. CASE docs'[j].dueAt > docs[j].dueAt /\ docs'[j].state = "ready"
                 /\ docs'[j].completed = {}
      <4>1. Contract!MoveOn(j)
        BY <2>1, <3>1, <3>2, <3>5, ViewFields, ViewFieldsNext, PhaseOf
        DEF Outcome, Contract!MoveOn
      <4> QED
        BY <4>1 DEF Contract!Next
    <3> QED
      BY <3>1, <3>4, <3>5 DEF Outcome
  <2> QED
    BY <1>2, <2>2, <2>3, <2>4, <2>5
<1> QED
  BY <1>1, <1>2, DocumentKept

\* Workers, leases, retries, crashes, lost answers, replacements and cancellations
\* together implement what a schedule promises its caller: progress grows,
\* occurrences move forward, and only a Put opens a schedule again.
THEOREM ContractHolds == Spec => ContractKept
<1>1. Init => Contract!Init
  <2> SUFFICES ASSUME Init PROVE Contract!Init
    OBVIOUS
  <2>1. docs = [k \in Keys |-> NoDoc]
    BY DEF Init
  <2>2. NoDoc.gen = 0 /\ NoDoc.state = "absent" /\ NoDoc.dueAt = 0 /\ NoDoc.completed = {}
    BY DEF NoDoc
  <2> QED
    BY <2>1, <2>2 DEF Contract!Init, CallersView, Phase
<1>2. TypeOK /\ Counted /\ Fencing /\ [Next]_vars => [Contract!Next]_CallersView
  BY TypeStep, ContractStep
<1> QED
  BY <1>1, <1>2, FencingHolds, PTL DEF Spec, ContractKept, Contract!Spec

------------------------------------------------------------------------------
(* A lease excludes, provided that claim, send and acknowledgement fit into  *)
(* it.  The invariant joins LeaseExclusion, which keeps other claims away,   *)
(* and NoOverlap, which keeps another worker's Finish away from the lease.   *)

BudgetsFit == ClaimLatency + SendTimeout + AckTimeout < Lease

Exclusive == LeaseExclusion /\ NoOverlap

LEMMA NumberTypes ==
  ASSUME TypeOK, NEW w \in Workers
  PROVE  /\ clock \in Nat /\ worker[w].deadline \in Nat /\ worker[w].now \in Nat
         /\ worker[w].job.availableAt \in Nat /\ worker[w].job.gen \in Nat
         /\ Lease \in Nat /\ SendTimeout \in Nat /\ AckTimeout \in Nat
         /\ ClaimLatency \in Nat
BY TimeoutAssumption DEF TypeOK, WorkerState, Job

\* One worker moves, no document changes.
LEMMA ExclusiveMove ==
  ASSUME TypeOK, Exclusive, NEW w \in Workers, NEW s, Become(w, s),
         UNCHANGED <<docs, clock>>, InTimeAt(s),
         InFlightAt(s) =>
           InFlightAt(worker[w]) /\ s.key = worker[w].key /\ s.job = worker[w].job
  PROVE  Exclusive'
<1>1. worker'[w] = s /\ \A v \in Workers \ {w} : worker'[v] = worker[v]
  BY DEF Become, TypeOK
<1>2. ASSUME NEW v \in Workers
      PROVE  (InTimeAt(worker[v]) /\ HoldsAt(worker[v]))'
  <2>1. InTimeAt(worker[v]) /\ HoldsAt(worker[v]) /\ HoldsAt(worker[w])
    BY DEF Exclusive, LeaseExclusion
  <2> QED
    BY <1>1, <2>1 DEF InTimeAt, HoldsAt, InFlightAt
<1>3. NoOverlap'
  BY <1>1 DEF Exclusive, NoOverlap, InFlightAt
<1> QED
  BY <1>2, <1>3 DEF Exclusive, LeaseExclusion

\* A document changes in a way that leaves every worker in flight its claim on it,
\* or takes the document away from it.
LEMMA ExclusiveStore ==
  ASSUME TypeOK, Exclusive, UNCHANGED clock,
         \A v \in Workers : \/ worker'[v].pc \in {"idle", "loop"}
                            \/ worker'[v] = worker[v] /\ HoldsAt(worker[v])'
  PROVE  Exclusive'
<1>1. ASSUME NEW v \in Workers
      PROVE  (InTimeAt(worker[v]) /\ HoldsAt(worker[v]))'
  BY DEF Exclusive, LeaseExclusion, InTimeAt, HoldsAt, InFlightAt, InFlight
<1>2. NoOverlap'
  BY DEF Exclusive, NoOverlap, InFlight
<1> QED
  BY <1>1, <1>2 DEF Exclusive, LeaseExclusion

LEMMA PutExclusive ==
  ASSUME TypeOK, Fencing, Exclusive, NEW k \in Keys, PutOneOff(k) \/ PutDaily(k)
  PROVE  Exclusive'
<1>1. PICK daily, due : Put(k, daily, due)
  BY DEF PutOneOff, PutDaily
<1>2. docs' = [docs EXCEPT ![k] = NewJob(puts + 1, daily, due)] /\ UNCHANGED <<worker, clock>>
  BY <1>1 DEF Put
<1>3. NewJob(puts + 1, daily, due).gen = puts + 1
  BY DEF NewJob, NoDoc
<1>4. ASSUME NEW v \in Workers
      PROVE  HoldsAt(worker[v])'
  <2>1. HoldsAt(worker[v]) /\ FencedAt(worker[v])
    BY DEF Exclusive, LeaseExclusion, Fencing
  <2>2. docs[k].gen <= puts /\ docs[k].gen \in Nat /\ puts \in Nat
          /\ worker[v].job.gen \in Nat /\ worker[v].key \in Keys
    BY DEF Fencing, DocsOK, TypeOK, Job, WorkerState
  <2>3. CASE worker[v].key = k
    <3>1. docs'[k].gen = puts + 1
      BY <1>2, <1>3 DEF TypeOK
    <3>2. InFlightAt(worker[v]) => worker[v].job.gen <= docs[k].gen
      BY <2>1, <2>3 DEF FencedAt
    <3> QED
      BY <1>2, <2>2, <2>3, <3>1, <3>2 DEF HoldsAt
  <2>4. CASE worker[v].key # k
    <3>1. docs'[worker[v].key] = docs[worker[v].key]
      BY <1>2, <2>2, <2>4 DEF TypeOK
    <3> QED
      BY <1>2, <2>1, <3>1 DEF HoldsAt
  <2> QED
    BY <2>3, <2>4
<1> QED
  BY <1>2, <1>4, ExclusiveStore

LEMMA CancelExclusive ==
  ASSUME TypeOK, Exclusive, NEW k \in Keys, Cancel(k)
  PROVE  Exclusive'
<1>1. UNCHANGED <<worker, clock>> /\ docs'[k].state = "canceled"
        /\ \A j \in Keys \ {k} : docs'[j] = docs[j]
  BY DEF Cancel, TypeOK, Job
<1>2. ASSUME NEW v \in Workers
      PROVE  HoldsAt(worker[v])'
  <2>1. HoldsAt(worker[v]) /\ worker[v].key \in Keys
    BY DEF Exclusive, LeaseExclusion, TypeOK, WorkerState
  <2> QED
    BY <1>1, <2>1 DEF HoldsAt
<1> QED
  BY <1>1, <1>2, ExclusiveStore

LEMMA FinishExclusive ==
  ASSUME TypeOK, Counted, Fencing, Exclusive, NEW w \in Workers,
         Finish(w) \/ FinishLost(w) \/ FinishUnknown(w) \/ Abandon(w)
  PROVE  Exclusive'
<1>1. worker'[w].pc \in {"idle", "loop"} /\ \A v \in Workers \ {w} : worker'[v] = worker[v]
  BY LeavesFlight
<1>2. UNCHANGED clock
  BY DEF Finish, FinishLost, FinishUnknown, Abandon, CommitFinish
<1>3. ASSUME NEW v \in Workers \ {w}
      PROVE  HoldsAt(worker[v])'
  <2>1. HoldsAt(worker[v]) /\ worker[v].key \in Keys /\ worker'[v] = worker[v]
    BY <1>1 DEF Exclusive, LeaseExclusion, TypeOK, WorkerState
  <2>2. CASE UNCHANGED docs
    BY <2>1, <2>2 DEF HoldsAt
  <2>3. CASE CommitFinish(w)
    <3> DEFINE k == worker[w].key
               d == worker[w].updated
    <3>1. k \in Keys /\ docs[k] = worker[w].job /\ d.gen = worker[w].job.gen
      BY <2>3, CommitFinishFacts DEF Outcome
    <3>2. docs'[k] = d /\ \A j \in Keys \ {k} : docs'[j] = docs[j]
      BY <2>3, <3>1 DEF CommitFinish, TypeOK
    <3>3. worker[w].pc = "ack"
      BY <2>3 DEF CommitFinish
    <3>4. InFlightAt(worker[v]) /\ worker[v].key = k => worker[v].job.gen # worker[w].job.gen
      BY <3>3 DEF Exclusive, NoOverlap, InFlightAt, InFlight
    <3> HIDE DEF k, d
    <3> QED
      BY <2>1, <3>1, <3>2, <3>4 DEF HoldsAt
  <2> QED
    BY <2>2, <2>3 DEF Finish, FinishLost, FinishUnknown, Abandon
<1>4. ASSUME NEW v \in Workers
      PROVE  \/ worker'[v].pc \in {"idle", "loop"}
             \/ worker'[v] = worker[v] /\ HoldsAt(worker[v])'
  <2>1. CASE v = w
    BY <1>1, <2>1
  <2>2. CASE v # w
    BY <1>1, <1>3, <2>2
  <2> QED
    BY <2>1, <2>2
<1> QED
  BY <1>2, <1>4, ExclusiveStore

LEMMA PollExclusive ==
  ASSUME TypeOK, Counted, Exclusive, NEW w \in Workers,
         StartTick(w) \/ EndTick(w) \/ Query(w) \/ ClaimLost(w)
  PROVE  Exclusive'
<1> DEFINE claim(k) == [worker[w] EXCEPT !.pc = "claim", !.key = k, !.now = clock,
                                         !.deadline = clock + ClaimLatency]
           loop == [Idle EXCEPT !.pc = "loop", !.left = TickLimit]
           Apart(s) == ~InFlightAt(s) /\ InTimeAt(s)
<1>1. PICK s : Become(w, s) /\ Apart(s)
  <2>1. Apart(Idle)
    BY ConstantTypes DEF InFlightAt, InFlight, InTimeAt
  <2>2. Apart(loop)
    <3>1. loop.pc = "loop"
      BY ConstantTypes DEF WorkerState
    <3> HIDE DEF loop
    <3> QED
      BY <3>1 DEF InFlightAt, InFlight, InTimeAt
  <2>3. \A k \in Keys : Apart(claim(k))
    <3> SUFFICES ASSUME NEW k \in Keys PROVE Apart(claim(k))
      OBVIOUS
    <3>1. claim(k).pc = "claim" /\ claim(k).now = clock
            /\ claim(k).deadline = clock + ClaimLatency
      BY StateFacts DEF WorkerState
    <3> HIDE DEF claim
    <3> QED
      BY <3>1, NumberTypes DEF InFlightAt, InFlight, InTimeAt
  <2>4. Become(w, Idle) \/ Become(w, loop) \/ \E k \in Keys : Become(w, claim(k))
    BY DEF StartTick, EndTick, Query, ClaimLost
  <2> HIDE DEF claim, loop, Apart
  <2> QED
    BY <2>1, <2>2, <2>3, <2>4
<1>2. UNCHANGED <<docs, clock>>
  BY DEF StartTick, EndTick, Query, ClaimLost
<1> QED
  BY <1>1, <1>2, ExclusiveMove

\* A worker in flight that goes on sending keeps its deadline; one that turns to the
\* acknowledgement gets AckTimeout, for which its old deadline left room.
LEMMA FlightExclusive ==
  ASSUME TypeOK, Exclusive, NEW w \in Workers, NEW s, Become(w, s),
         UNCHANGED <<docs, clock>>, InFlightAt(worker[w]), worker[w].pc # "ack",
         s.key = worker[w].key, s.job = worker[w].job,
         \/ s.pc \in {"send", "retire"} /\ s.deadline = worker[w].deadline
         \/ s.pc = "ack" /\ s.deadline = clock + AckTimeout
  PROVE  Exclusive'
<1>1. InTimeAt(worker[w])
  BY DEF Exclusive, LeaseExclusion
<1>2. InTimeAt(s)
  BY <1>1, NumberTypes DEF InTimeAt, InFlightAt, InFlight
<1> QED
  BY <1>2, ExclusiveMove

LEMMA DeliverExclusive ==
  ASSUME TypeOK, Counted, Exclusive, NEW w \in Workers,
         LookupFails(w) \/ Lookup(w) \/ Send(w) \/ Retire(w) \/ RetireFails(w)
  PROVE  Exclusive'
<1> DEFINE Onward(s) ==
      /\ s.key = worker[w].key /\ s.job = worker[w].job
      /\ \/ s.pc \in {"send", "retire"} /\ s.deadline = worker[w].deadline
         \/ s.pc = "ack" /\ s.deadline = clock + AckTimeout
<1>1. worker[w] \in WorkerState
  BY StateFacts
<1>2. \A u : Onward(Acknowledge(w, u))
  BY AcknowledgeFields
<1>3. \A u, S : Onward([Acknowledge(w, u) EXCEPT !.taken = S])
  BY AcknowledgeFields
<1>4. \A S : Onward([worker[w] EXCEPT !.pc = "send", !.pending = S])
  BY <1>1 DEF WorkerState
<1>5. worker[w].pc = "send" => \A S : Onward([worker[w] EXCEPT !.taken = S])
  BY <1>1 DEF WorkerState
<1>6. \A u, P, S : Onward([worker[w] EXCEPT !.pc = "retire", !.updated = u,
                                            !.pending = P, !.taken = S])
  BY <1>1 DEF WorkerState
<1> HIDE DEF Onward
<1>7. \E s : Become(w, s) /\ Onward(s)
  <2>1. CASE LookupFails(w) \/ Retire(w) \/ RetireFails(w)
    BY <1>2, <2>1 DEF LookupFails, Retire, RetireFails
  <2>2. CASE Lookup(w)
    BY <1>4, <2>2 DEF Lookup
  <2>3. ASSUME NEW t \in Targets, Accept(w, t)
        PROVE  \E s : Become(w, s) /\ Onward(s)
    BY <1>5, <2>3 DEF Accept
  <2>4. ASSUME NEW unregistered, NEW perm, NEW unresolved,
               SendReturns(w, unregistered, perm, unresolved)
        PROVE  \E s : Become(w, s) /\ Onward(s)
    <3>1. \/ \E u, P, S : Become(w, [worker[w] EXCEPT !.pc = "retire", !.updated = u,
                                                      !.pending = P, !.taken = S])
          \/ \E u, S : Become(w, [Acknowledge(w, u) EXCEPT !.taken = S])
      BY <2>4 DEF SendReturns
    <3> QED
      BY <1>3, <1>6, <3>1
  <2>5. CASE Send(w)
    BY <2>3, <2>4, <2>5 DEF Send
  <2> QED
    BY <2>1, <2>2, <2>5
<1>8. /\ UNCHANGED <<docs, clock>> /\ InFlightAt(worker[w]) /\ worker[w].pc # "ack"
  <2>1. CASE LookupFails(w) \/ Lookup(w)
    BY <2>1 DEF LookupFails, Lookup, InFlightAt, InFlight
  <2>2. CASE Send(w)
    BY <2>2, SendFacts DEF SendFrame, InFlightAt, InFlight
  <2>3. CASE Retire(w) \/ RetireFails(w)
    BY <2>3 DEF Retire, RetireFails, InFlightAt, InFlight
  <2> QED
    BY <2>1, <2>2, <2>3
<1> QED
  BY <1>7, <1>8, FlightExclusive DEF Onward

\* A job that some worker in flight holds is not due before that worker's deadline.
LEMMA HeldIsNotDue ==
  ASSUME TypeOK, Fencing, Exclusive, NEW v \in Workers, InFlightAt(worker[v]),
         NEW now \in Nat, now <= clock, Claimable(worker[v].key, now)
  PROVE  docs[worker[v].key].gen # worker[v].job.gen
<1> SUFFICES ASSUME docs[worker[v].key].gen = worker[v].job.gen PROVE FALSE
  OBVIOUS
<1>1. HoldsAt(worker[v]) /\ InTimeAt(worker[v]) /\ FencedAt(worker[v])
  BY DEF Exclusive, LeaseExclusion, Fencing
<1>2. docs[worker[v].key] = worker[v].job
  BY <1>1 DEF HoldsAt, FencedAt, Claimable
<1>3. clock < worker[v].job.availableAt
  BY <1>1, NumberTypes DEF InTimeAt
<1> QED
  BY <1>2, <1>3, NumberTypes DEF Claimable

LEMMA ClaimExclusive ==
  ASSUME BudgetsFit, TypeOK, Counted, Fencing, Exclusive, NEW w \in Workers,
         ClaimWon(w) \/ ClaimUnknown(w)
  PROVE  Exclusive'
<1> DEFINE k == worker[w].key
           now == worker[w].now
           job == Leased(k, now)
           updated == [job EXCEPT !.leaseToken = NoLease, !.attempts = job.attempts + 1]
           won == [worker[w] EXCEPT !.pc = "lookup", !.now = 0,
                     !.deadline = clock + SendTimeout, !.job = job, !.updated = updated]
<1>1. /\ worker[w] \in WorkerState /\ k \in Keys /\ docs[k] \in Job /\ now \in Nat
      /\ clock \in Nat
  BY DEF TypeOK, WorkerState
<1>2. /\ worker[w].pc = "claim" /\ Claimable(k, now) /\ UNCHANGED clock
      /\ docs' = [docs EXCEPT ![k] = job]
  BY DEF ClaimWon, ClaimUnknown, CommitClaim, StillDue
<1>3. InTimeAt(worker[w]) /\ FencedAt(worker[w])
  BY DEF Exclusive, LeaseExclusion, Fencing
<1>4. now <= clock /\ clock <= now + ClaimLatency
  BY <1>2, <1>3 DEF InTimeAt, FencedAt
<1>5. job.gen = docs[k].gen /\ job.availableAt = now + Lease
  BY <1>1 DEF Leased, Job
<1>6. docs'[k] = job /\ \A j \in Keys \ {k} : docs'[j] = docs[j]
  BY <1>1, <1>2 DEF TypeOK
<1>7. \A v \in Workers \ {w} : worker'[v] = worker[v]
  BY DEF ClaimWon, ClaimUnknown, Become, TypeOK
<1>8. worker'[w] = Idle \/ worker'[w] = won
  BY DEF ClaimWon, ClaimUnknown, Become, TypeOK
<1>9. /\ won.pc = "lookup" /\ won.key = k /\ won.job = job
      /\ won.deadline = clock + SendTimeout
  BY <1>1 DEF WorkerState
<1>10. Idle.pc = "idle"
  BY ConstantTypes
<1>11. ASSUME NEW v \in Workers \ {w}, InFlightAt(worker[v]), worker[v].key = k
       PROVE  worker[v].job.gen # docs[k].gen
  BY <1>1, <1>2, <1>4, <1>11, HeldIsNotDue
<1> HIDE DEF job, won, k, now
<1>12. ASSUME NEW v \in Workers
       PROVE  (InTimeAt(worker[v]) /\ HoldsAt(worker[v]))'
  <2>1. CASE v = w
    <3>1. CASE worker'[w] = Idle
      BY <1>10, <2>1, <3>1 DEF InTimeAt, HoldsAt, InFlightAt, InFlight
    <3>2. CASE worker'[w] = won
      <4>1. clock + SendTimeout + AckTimeout < job.availableAt
        BY <1>1, <1>4, <1>5, TimeoutAssumption DEF BudgetsFit
      <4>2. InTimeAt(worker[w])'
        BY <1>1, <1>2, <1>9, <2>1, <3>2, <4>1, TimeoutAssumption
        DEF InTimeAt, InFlightAt, InFlight
      <4>3. HoldsAt(worker[w])'
        BY <1>6, <1>9, <3>2 DEF HoldsAt
      <4> QED
        BY <2>1, <4>2, <4>3
    <3> QED
      BY <1>8, <3>1, <3>2
  <2>2. CASE v # w
    <3>1. InTimeAt(worker[v]) /\ HoldsAt(worker[v]) /\ worker'[v] = worker[v]
            /\ worker[v].key \in Keys
      BY <1>7, <2>2 DEF Exclusive, LeaseExclusion, TypeOK, WorkerState
    <3>2. InTimeAt(worker[v])'
      BY <1>2, <3>1 DEF InTimeAt, InFlightAt
    <3>3. HoldsAt(worker[v])'
      BY <1>5, <1>6, <1>11, <2>2, <3>1 DEF HoldsAt, InFlightAt
    <3> QED
      BY <3>2, <3>3
  <2> QED
    BY <2>1, <2>2
<1>13. NoOverlap'
  <2>1. CASE worker'[w] = Idle
    BY <1>7, <1>10, <2>1 DEF Exclusive, NoOverlap, InFlight
  <2>2. CASE worker'[w] = won
    BY <1>5, <1>7, <1>9, <1>11, <2>2 DEF Exclusive, NoOverlap, InFlightAt
  <2> QED
    BY <1>8, <2>1, <2>2
<1> QED
  BY <1>12, <1>13 DEF Exclusive, LeaseExclusion

LEMMA AdvanceExclusive ==
  ASSUME TypeOK, Exclusive, Advance PROVE Exclusive'
<1>1. UNCHANGED <<docs, worker>> /\ clock' = clock + 1
        /\ \A w \in Workers : worker[w].pc \in Timed => clock < worker[w].deadline
  BY DEF Advance
<1>2. ASSUME NEW v \in Workers
      PROVE  (InTimeAt(worker[v]) /\ HoldsAt(worker[v]))'
  <2>1. InTimeAt(worker[v]) /\ HoldsAt(worker[v])
    BY DEF Exclusive, LeaseExclusion
  <2>2. InTimeAt(worker[v])'
    BY <1>1, <2>1, NumberTypes DEF InTimeAt, InFlightAt, Timed
  <2>3. HoldsAt(worker[v])'
    BY <1>1, <2>1 DEF HoldsAt, InFlightAt
  <2> QED
    BY <2>2, <2>3
<1>3. NoOverlap'
  BY <1>1 DEF Exclusive, NoOverlap
<1> QED
  BY <1>2, <1>3 DEF Exclusive, LeaseExclusion

LEMMA ExclusiveStep ==
  ASSUME BudgetsFit, TypeOK, Counted, Fencing, Exclusive, [Next]_vars PROVE Exclusive'
<1>1. ASSUME NEW k \in Keys, PutOneOff(k) \/ PutDaily(k) \/ Cancel(k)
      PROVE  Exclusive'
  BY <1>1, PutExclusive, CancelExclusive
<1>2. ASSUME NEW w \in Workers, WorkerStep(w) \/ Fault(w)
      PROVE  Exclusive'
  BY <1>2, PollExclusive, ClaimExclusive, DeliverExclusive, FinishExclusive
  DEF WorkerStep, Fault
<1>3. CASE Advance
  BY <1>3, AdvanceExclusive
<1>4. ASSUME UNCHANGED <<docs, worker, clock>>
      PROVE  Exclusive'
  BY <1>4 DEF Exclusive, LeaseExclusion, NoOverlap, InTimeAt, HoldsAt, InFlightAt
<1>5. ChangeDevices \/ UNCHANGED vars => UNCHANGED <<docs, worker, clock>>
  BY DEF ChangeDevices, vars
<1> QED
  BY <1>1, <1>2, <1>3, <1>4, <1>5 DEF Next

LEMMA ExclusiveHolds ==
  ASSUME BudgetsFit PROVE Spec => []Exclusive
<1>1. Init => Exclusive
  <2> SUFFICES ASSUME Init PROVE Exclusive
    OBVIOUS
  <2>1. \A w \in Workers : worker[w].pc = "idle"
    BY ConstantTypes DEF Init
  <2> QED
    BY <2>1 DEF Exclusive, LeaseExclusion, NoOverlap, InTimeAt, HoldsAt, InFlightAt, InFlight
<1>2. TypeOK /\ Counted /\ Fencing /\ Exclusive /\ [Next]_vars => Exclusive'
  BY ExclusiveStep
<1> QED
  BY <1>1, <1>2, FencingHolds, PTL DEF Spec

\* When the claim, send and acknowledgement budgets fit into the lease (Tick's validation
\* of Lease and SendTimeout), the stored lease of a worker in flight outlives its last
\* deadline, and only a Put or a Cancel takes it away.
THEOREM LeaseExclusionHolds ==
  ASSUME BudgetsFit PROVE Spec => []LeaseExclusion
<1>1. Exclusive => LeaseExclusion
  BY DEF Exclusive
<1> QED
  BY <1>1, ExclusiveHolds, PTL

\* Under the same budgets no two workers ever deliver the same schedule at once, for any
\* number of workers, keys, crashes, replacements and cancellations.
THEOREM NoOverlapHolds ==
  ASSUME BudgetsFit PROVE Spec => []NoOverlap
<1>1. Exclusive => NoOverlap
  BY DEF Exclusive
<1> QED
  BY <1>1, ExclusiveHolds, PTL

------------------------------------------------------------------------------
(* What a delivery keeps: the retirements it owes, the attempt it counts and *)
(* the targets the provider took.                                            *)

\* A document, or a worker's copy of it, with retirements outstanding is not done, counts
\* an attempt, and sends to none of them again.
RetirementAt(u) ==
  u.invalid # {} => u.state # "done" /\ u.attempts > 0 /\ u.invalid \subseteq u.completed

\* u, made of the job j, counts one attempt more, or is at a new occurrence.
CountsAttempt(j, u) ==
  u.state = "ready" => IF u.dueAt = j.dueAt
                         THEN u.attempts = j.attempts + 1 /\ u.attempts < MaxAttempts
                         ELSE u.attempts = 0

\* What the provider took is a target of this send, or on record in the update.
DeliveryAt(s) ==
  /\ ~InFlightAt(s) \/ s.pc = "lookup" => s.taken = {}
  /\ InFlightAt(s) => RetirementAt(s.updated)
  /\ s.pc \in {"lookup", "send", "retire"} => s.updated.attempts = s.job.attempts + 1
  /\ s.pc = "send" => s.taken \subseteq s.pending /\ s.pending \cap s.job.completed = {}
  /\ s.pc = "retire" => s.taken \subseteq s.updated.completed
  /\ s.pc = "ack" =>
       /\ CountsAttempt(s.job, s.updated)
       /\ s.updated.dueAt = s.job.dueAt => s.taken \subseteq s.updated.completed

Delivering ==
  /\ \A k \in Keys : RetirementAt(docs[k])
  /\ \A w \in Workers : DeliveryAt(worker[w])

LEMMA RetryCounts ==
  ASSUME NEW j \in Job, NEW u \in Job, NEW now \in Nat,
         Underway(j, u), u.attempts = j.attempts + 1, RetirementAt(u)
  PROVE  LET c == Retry(u, now)
         IN  /\ RetirementAt(c) /\ CountsAttempt(j, c)
             /\ c.completed = u.completed
<1>1. u.attempts \in Nat /\ MaxAttempts \in Nat /\ u.dueAt = j.dueAt /\ u.attempts > 0
  BY ScheduleAssumption DEF Job, Underway
<1>2. CASE u.attempts >= MaxAttempts
  <2>1. Retry(u, now) = [u EXCEPT !.state = "failed"]
    BY <1>2 DEF Retry
  <2> QED
    BY <1>1, <2>1 DEF RetirementAt, CountsAttempt, Job
<1>3. CASE ~(u.attempts >= MaxAttempts)
  <2> DEFINE a == now + RetryDelay(u.attempts)
  <2>1. Retry(u, now) = [u EXCEPT !.availableAt = a]
    BY <1>3 DEF Retry
  <2>2. u.attempts < MaxAttempts
    BY <1>1, <1>3
  <2> HIDE DEF a
  <2> QED
    BY <1>1, <2>1, <2>2 DEF RetirementAt, CountsAttempt, Job, Underway
<1> QED
  BY <1>2, <1>3

LEMMA ConclusionsCount ==
  ASSUME NEW j \in Job, NEW u \in Job, NEW now \in Nat, NEW b \in BOOLEAN,
         Underway(j, u), u.attempts = j.attempts + 1, u.invalid = {}, j.dueAt <= now,
         NEW c \in Conclusions(u, b, now)
  PROVE  /\ RetirementAt(c) /\ CountsAttempt(j, c)
         /\ c.dueAt = j.dueAt => c.completed = u.completed
<1> DEFINE Fine(d) == /\ RetirementAt(d) /\ CountsAttempt(j, d)
                      /\ d.dueAt = j.dueAt => d.completed = u.completed
<1>1. Fine(Retry(u, now))
  BY RetryCounts DEF RetirementAt
<1>2. Fine(Settle(u))
  BY DEF Settle, RetirementAt, CountsAttempt, Job
<1>3. Fine([u EXCEPT !.state = "failed"])
  BY DEF RetirementAt, CountsAttempt, Job
<1>4. Fine(NextOccurrence(u, now))
  <2>1. DailyNext(now) \in Nat /\ DailyNext(now) > j.dueAt
    BY DailyNextLater DEF Job
  <2>2. DailyNext(now) # j.dueAt
    BY <2>1 DEF Job
  <2> QED
    BY <2>2 DEF NextOccurrence, RetirementAt, CountsAttempt, Job
<1> HIDE DEF Fine
<1>5. Fine(c)
  BY <1>1, <1>2, <1>3, <1>4 DEF Conclusions
<1> QED
  BY <1>5 DEF Fine

\* A worker moves, and the documents owe what they owe.
LEMMA DeliveringFrom ==
  ASSUME TypeOK, Delivering, NEW w \in Workers, NEW s, Become(w, s), DeliveryAt(s),
         \A k \in Keys : RetirementAt(docs'[k])
  PROVE  Delivering'
<1>1. worker'[w] = s /\ \A v \in Workers \ {w} : worker'[v] = worker[v]
  BY DEF Become, TypeOK
<1>2. ASSUME NEW v \in Workers PROVE DeliveryAt(worker'[v])
  BY <1>1 DEF Delivering
<1>3. \A v \in Workers : DeliveryAt(worker'[v]) => DeliveryAt(worker[v])'
  BY DEF DeliveryAt, InFlightAt
<1>4. \A k \in Keys : RetirementAt(docs'[k]) => RetirementAt(docs[k])'
  BY DEF RetirementAt
<1> QED
  BY <1>2, <1>3, <1>4 DEF Delivering

\* A step that moves no worker: Put, Cancel and what stores nothing.
LEMMA DeliveringStore ==
  ASSUME Delivering, UNCHANGED worker, \A k \in Keys : RetirementAt(docs'[k])
  PROVE  Delivering'
BY DEF Delivering, DeliveryAt, RetirementAt, CountsAttempt, InFlightAt

LEMMA OutOfFlight ==
  ASSUME NEW s, s.pc \in {"idle", "loop", "claim"}, s.taken = {} PROVE DeliveryAt(s)
BY DEF DeliveryAt, InFlightAt, InFlight

LEMMA PutDelivering ==
  ASSUME TypeOK, Delivering, NEW k \in Keys, PutOneOff(k) \/ PutDaily(k) \/ Cancel(k)
  PROVE  Delivering'
<1>1. UNCHANGED worker
  BY DEF PutOneOff, PutDaily, Put, Cancel
<1>2. ASSUME NEW daily, NEW due, Put(k, daily, due), NEW j \in Keys
      PROVE  RetirementAt(docs'[j])
  <2>1. NewJob(puts + 1, daily, due).invalid = {}
    BY ConstantTypes DEF NewJob, NoDoc, Job
  <2>2. docs' = [docs EXCEPT ![k] = NewJob(puts + 1, daily, due)]
    BY <1>2 DEF Put
  <2> QED
    BY <2>1, <2>2 DEF Delivering, TypeOK, RetirementAt
<1>3. ASSUME Cancel(k), NEW j \in Keys PROVE RetirementAt(docs'[j])
  <2> DEFINE d == [docs[k] EXCEPT !.state = "canceled", !.leaseToken = NoLease]
  <2>1. docs' = [docs EXCEPT ![k] = d]
    BY <1>3 DEF Cancel
  <2>2. d.invalid = docs[k].invalid /\ d.attempts = docs[k].attempts
        /\ d.completed = docs[k].completed /\ d.state = "canceled"
    BY DEF TypeOK, Job
  <2> HIDE DEF d
  <2> QED
    BY <2>1, <2>2 DEF Delivering, TypeOK, RetirementAt
<1> QED
  BY <1>1, <1>2, <1>3, DeliveringStore DEF PutOneOff, PutDaily

LEMMA PollDelivering ==
  ASSUME TypeOK, Counted, Delivering, NEW w \in Workers,
         StartTick(w) \/ EndTick(w) \/ Query(w) \/ ClaimLost(w)
  PROVE  Delivering'
<1> DEFINE claim(k) == [worker[w] EXCEPT !.pc = "claim", !.key = k, !.now = clock,
                                         !.deadline = clock + ClaimLatency]
           loop == [Idle EXCEPT !.pc = "loop", !.left = TickLimit]
<1>1. \A k \in Keys : RetirementAt(docs'[k])
  BY DEF StartTick, EndTick, Query, ClaimLost, Delivering
<1>2. \/ Become(w, Idle) \/ Become(w, loop)
      \/ worker[w].pc = "loop" /\ \E k \in Keys : Become(w, claim(k))
  BY DEF StartTick, EndTick, Query, ClaimLost
<1>3. DeliveryAt(Idle)
  BY OutOfFlight DEF Idle
<1>4. DeliveryAt(loop)
  <2>1. loop.pc = "loop" /\ loop.taken = {}
    BY DEF Idle
  <2> HIDE DEF loop
  <2> QED BY <2>1, OutOfFlight
<1>5. ASSUME worker[w].pc = "loop", NEW k \in Keys PROVE DeliveryAt(claim(k))
  <2>1. worker[w].taken = {}
    BY <1>5 DEF Delivering, DeliveryAt, InFlightAt, InFlight
  <2>2. claim(k).pc = "claim" /\ claim(k).taken = worker[w].taken
    BY DEF TypeOK, WorkerState
  <2> HIDE DEF claim
  <2> QED BY <2>1, <2>2, OutOfFlight
<1> HIDE DEF claim, loop
<1> QED
  BY <1>1, <1>2, <1>3, <1>4, <1>5, DeliveringFrom

LEMMA ClaimDelivering ==
  ASSUME TypeOK, Counted, Delivering, NEW w \in Workers, ClaimWon(w) \/ ClaimUnknown(w)
  PROVE  Delivering'
<1> DEFINE k == worker[w].key
           job == Leased(k, worker[w].now)
           updated == [job EXCEPT !.leaseToken = NoLease, !.attempts = job.attempts + 1]
           won == [worker[w] EXCEPT !.pc = "lookup", !.now = 0,
                     !.deadline = clock + SendTimeout, !.job = job, !.updated = updated]
<1>1. /\ worker[w] \in WorkerState /\ k \in Keys /\ docs[k] \in Job
      /\ worker[w].now \in Nat
  BY DEF TypeOK, WorkerState
<1>2. worker[w].pc = "claim" /\ docs' = [docs EXCEPT ![k] = job] /\ docs[k].state = "ready"
  BY DEF ClaimWon, ClaimUnknown, CommitClaim, StillDue, Claimable
<1>3. Become(w, Idle) \/ Become(w, won)
  BY DEF ClaimWon, ClaimUnknown
<1>4. /\ job \in Job /\ job.state = "ready" /\ job.invalid = docs[k].invalid
      /\ job.completed = docs[k].completed /\ job.attempts = docs[k].attempts
  BY <1>1, <1>2, LeasedType DEF Leased, Job
<1> HIDE DEF job, k
<1>5. /\ updated.state = "ready" /\ updated.invalid = docs[k].invalid
      /\ updated.completed = docs[k].completed /\ updated.attempts = job.attempts + 1
  BY <1>4 DEF Job
<1>6. RetirementAt(docs[k])
  BY <1>1 DEF Delivering
<1>7. \A j \in Keys : RetirementAt(docs'[j])
  BY <1>1, <1>2, <1>4, <1>6 DEF Delivering, TypeOK, RetirementAt
<1>8. RetirementAt(updated)
  BY <1>4, <1>5, <1>6 DEF RetirementAt, Job
<1> HIDE DEF updated
<1>9. won.pc = "lookup" /\ won.job = job /\ won.updated = updated /\ won.taken = worker[w].taken
  BY <1>1 DEF WorkerState
<1>10. worker[w].taken = {}
  BY <1>2 DEF Delivering, DeliveryAt, InFlightAt, InFlight
<1> HIDE DEF won
<1>11. DeliveryAt(won)
  BY <1>5, <1>8, <1>9, <1>10 DEF DeliveryAt, InFlightAt, InFlight
<1>12. DeliveryAt(Idle)
  BY OutOfFlight DEF Idle
<1> QED
  BY <1>3, <1>7, <1>11, <1>12, DeliveringFrom

\* deliver's next step in memory: w keeps its job, nothing is stored.
LEMMA LookupDelivering ==
  ASSUME TypeOK, Counted, Fencing, Delivering, NEW w \in Workers,
         LookupFails(w) \/ Lookup(w)
  PROVE  Delivering'
<1> DEFINE j == worker[w].job
           u == worker[w].updated
           ack == Acknowledge(w, Retry(u, clock))
           found == [worker[w] EXCEPT !.pc = "send", !.pending = Unsent(w)]
<1>1. /\ worker[w] \in WorkerState /\ j \in Job /\ u \in Job /\ clock \in Nat
      /\ worker[w].pc = "lookup"
  BY StateFacts DEF LookupFails, Lookup, TypeOK
<1>2. /\ Underway(j, u) /\ RetirementAt(u) /\ u.attempts = j.attempts + 1
      /\ worker[w].taken = {}
  BY <1>1 DEF Fencing, FencedAt, Delivering, DeliveryAt, InFlightAt, InFlight
<1>3. \A k \in Keys : RetirementAt(docs'[k])
  BY DEF LookupFails, Lookup, Delivering
<1>4. Become(w, ack) \/ Become(w, found)
  BY DEF LookupFails, Lookup
<1>5. RetirementAt(Retry(u, clock)) /\ CountsAttempt(j, Retry(u, clock))
  BY <1>1, <1>2, RetryCounts
<1>6. /\ ack.pc = "ack" /\ ack.updated = Retry(u, clock) /\ ack.job = j
      /\ ack.taken = worker[w].taken
  BY <1>1 DEF Acknowledge, WorkerState
<1> HIDE DEF ack
<1>7. DeliveryAt(ack)
  BY <1>2, <1>5, <1>6 DEF DeliveryAt, InFlightAt, InFlight
<1>8. /\ found.pc = "send" /\ found.updated = u /\ found.job = j
      /\ found.taken = {} /\ found.pending \cap j.completed = {}
  BY <1>1, <1>2 DEF WorkerState, Unsent
<1> HIDE DEF found
<1>9. DeliveryAt(found)
  BY <1>2, <1>8 DEF DeliveryAt, InFlightAt, InFlight
<1> QED
  BY <1>3, <1>4, <1>7, <1>9, DeliveringFrom

LEMMA SendDelivering ==
  ASSUME TypeOK, Counted, Fencing, Delivering, NEW w \in Workers, Send(w)
  PROVE  Delivering'
<1> DEFINE s == worker[w]
           j == worker[w].job
<1>1. /\ s \in WorkerState /\ j \in Job /\ s.updated \in Job
      /\ clock \in Nat /\ s.pc = "send" /\ s.pending \subseteq Targets
  BY StateFacts, SendFacts DEF SendFrame, TypeOK
<1>2. /\ Underway(j, s.updated) /\ j.dueAt <= clock /\ RetirementAt(s.updated)
      /\ s.updated.attempts = j.attempts + 1 /\ s.updated.attempts >= 1
      /\ s.taken \subseteq s.pending /\ s.pending \cap j.completed = {}
  BY <1>1, StateFacts DEF Fencing, FencedAt, Delivering, DeliveryAt, InFlightAt, InFlight
<1>3. \A k \in Keys : RetirementAt(docs'[k])
  BY SendFacts DEF SendFrame, Delivering
<1>4. ASSUME NEW t \in Targets, Accept(w, t) PROVE Delivering'
  <2> DEFINE taking == [worker[w] EXCEPT !.taken = @ \cup {t}]
  <2>1. Become(w, taking) /\ t \in s.pending
    BY <1>4 DEF Accept
  <2>2. /\ taking.pc = "send" /\ taking.updated = s.updated /\ taking.job = j
        /\ taking.pending = s.pending /\ taking.taken = s.taken \cup {t}
    BY <1>1 DEF WorkerState
  <2> HIDE DEF taking
  <2>3. DeliveryAt(taking)
    BY <1>2, <2>1, <2>2 DEF DeliveryAt, InFlightAt, InFlight
  <2> QED
    BY <1>3, <2>1, <2>3, DeliveringFrom
<1>5. ASSUME NEW unregistered \in SUBSET Targets, NEW perm \in SUBSET Targets,
             NEW unresolved \in SUBSET Targets,
             SendReturns(w, unregistered, perm, unresolved)
      PROVE  Delivering'
  <2> DEFINE u == [worker[w].updated EXCEPT
                     !.completed = Recorded(worker[w], unresolved),
                     !.invalid = @ \cup unregistered,
                     !.permanent = @ \/ perm # {}]
             retiring == [worker[w] EXCEPT !.pc = "retire", !.updated = u,
                            !.pending = unresolved, !.taken = @ \ unresolved]
             acking(c) == [Acknowledge(w, c) EXCEPT !.taken = @ \ unresolved]
  <2>1. unregistered \subseteq s.pending \ unresolved
    BY <1>5 DEF SendReturns
  <2>2. /\ Recorded(s, unresolved) \subseteq Targets
        /\ s.updated.completed \subseteq Recorded(s, unresolved)
        /\ s.pending \ unresolved \subseteq Recorded(s, unresolved)
    BY <1>1 DEF Job, Recorded
  <2>3. /\ u.completed = Recorded(s, unresolved)
        /\ u.invalid = s.updated.invalid \cup unregistered
        /\ u.attempts = s.updated.attempts /\ u.state = s.updated.state
    BY <1>1 DEF Job
  <2>4. u \in Job /\ Underway(j, u)
    BY <1>1, <1>2, <2>2 DEF Underway, Job
  <2>5. \/ Become(w, retiring)
        \/ /\ u.invalid = {}
           /\ \E c \in Conclusions(u, unresolved # {}, clock) : Become(w, acking(c))
    BY <1>5 DEF SendReturns
  <2> HIDE DEF u
  <2>6. RetirementAt(u)
    <3>1. u.state = "ready" /\ u.attempts > 0
      BY <1>1, <1>2, <2>3 DEF Underway, Job
    <3>2. u.invalid \subseteq u.completed
      <4>1. s.updated.invalid \subseteq s.updated.completed
        BY <1>2 DEF RetirementAt
      <4> QED
        BY <2>1, <2>2, <2>3, <4>1
    <3> QED
      BY <3>1, <3>2 DEF RetirementAt
  <2>7. s.taken \ unresolved \subseteq u.completed
    BY <1>2, <2>2, <2>3
  <2>8. ASSUME Become(w, retiring) PROVE Delivering'
    <3>1. /\ retiring.pc = "retire" /\ retiring.updated = u /\ retiring.job = j
          /\ retiring.taken = s.taken \ unresolved
      BY <1>1 DEF WorkerState
    <3> HIDE DEF retiring
    <3>2. DeliveryAt(retiring)
      BY <1>2, <2>3, <2>6, <2>7, <3>1 DEF DeliveryAt, InFlightAt, InFlight
    <3> QED
      BY <1>3, <2>8, <3>2, DeliveringFrom
  <2>9. ASSUME u.invalid = {}, NEW c \in Conclusions(u, unresolved # {}, clock),
               Become(w, acking(c))
        PROVE  Delivering'
    <3>1. RetirementAt(c) /\ CountsAttempt(j, c) /\ (c.dueAt = j.dueAt => c.completed = u.completed)
      <4> DEFINE b == unresolved # {}
      <4>1. b \in BOOLEAN /\ c \in Conclusions(u, b, clock) /\ u.attempts = j.attempts + 1
        BY <1>2, <2>3, <2>9
      <4> HIDE DEF b, j
      <4> QED
        BY <1>1, <1>2, <2>4, <2>9, <4>1, ConclusionsCount
    <3>2. /\ acking(c).pc = "ack" /\ acking(c).updated = c /\ acking(c).job = j
          /\ acking(c).taken = s.taken \ unresolved
      BY <1>1 DEF Acknowledge, WorkerState
    <3> HIDE DEF acking
    <3>3. DeliveryAt(acking(c))
      BY <2>7, <3>1, <3>2 DEF DeliveryAt, InFlightAt, InFlight
    <3> QED
      BY <1>3, <2>9, <3>3, DeliveringFrom
  <2> QED
    BY <2>5, <2>8, <2>9
<1> QED
  BY <1>4, <1>5 DEF Send

LEMMA RetireDelivering ==
  ASSUME TypeOK, Counted, Fencing, Delivering, NEW w \in Workers, Retire(w) \/ RetireFails(w)
  PROVE  Delivering'
<1> DEFINE j == worker[w].job
           u == worker[w].updated
           retired == [u EXCEPT !.invalid = {}]
           b == worker[w].pending # {}
           Fine(c) == /\ RetirementAt(c) /\ CountsAttempt(j, c)
                      /\ c.dueAt = j.dueAt => c.completed = u.completed
<1>1. /\ worker[w] \in WorkerState /\ j \in Job /\ u \in Job
      /\ clock \in Nat /\ worker[w].pc = "retire" /\ b \in BOOLEAN
  BY StateFacts DEF Retire, RetireFails, TypeOK
<1>2. /\ Underway(j, u) /\ j.dueAt <= clock /\ RetirementAt(u)
      /\ u.attempts = j.attempts + 1 /\ worker[w].taken \subseteq u.completed
  BY <1>1 DEF Fencing, FencedAt, Delivering, DeliveryAt, InFlightAt, InFlight
<1>3. /\ retired \in Job /\ Underway(j, retired) /\ retired.attempts = j.attempts + 1
      /\ retired.invalid = {} /\ retired.completed = u.completed
  BY <1>1, <1>2 DEF Underway, Job
<1>4. \A k \in Keys : RetirementAt(docs'[k])
  BY DEF Retire, RetireFails, Delivering
<1>5. \/ Become(w, Acknowledge(w, Retry(u, clock)))
      \/ \E c \in Conclusions(retired, b, clock) : Become(w, Acknowledge(w, c))
  BY DEF Retire, RetireFails
<1>6. Fine(Retry(u, clock))
  BY <1>1, <1>2, RetryCounts
<1> HIDE DEF retired
<1>7. ASSUME NEW c \in Conclusions(retired, b, clock) PROVE Fine(c)
  <2> HIDE DEF b, j
  <2>1. RetirementAt(c) /\ CountsAttempt(j, c) /\ (c.dueAt = j.dueAt => c.completed = retired.completed)
    BY <1>1, <1>2, <1>3, ConclusionsCount
  <2> QED
    BY <1>3, <2>1
<1> HIDE DEF Fine
<1>8. PICK c : Fine(c) /\ Become(w, Acknowledge(w, c))
  BY <1>5, <1>6, <1>7
<1> DEFINE a == Acknowledge(w, c)
<1>9. a.pc = "ack" /\ a.updated = c /\ a.job = j /\ a.taken = worker[w].taken
  BY <1>1 DEF Acknowledge, WorkerState
<1> HIDE DEF a
<1>10. DeliveryAt(a)
  BY <1>2, <1>8, <1>9 DEF Fine, DeliveryAt, InFlightAt, InFlight
<1>11. Become(w, a)
  BY <1>8 DEF a
<1> QED
  BY <1>4, <1>10, <1>11, DeliveringFrom

LEMMA FinishDelivering ==
  ASSUME TypeOK, Counted, Fencing, Delivering, NEW w \in Workers,
         Finish(w) \/ FinishLost(w) \/ FinishUnknown(w) \/ Abandon(w)
  PROVE  Delivering'
<1> DEFINE loop == [Idle EXCEPT !.pc = "loop", !.left = worker[w].left - 1]
<1>1. Become(w, Idle) \/ Become(w, loop)
  BY DEF Finish, FinishLost, FinishUnknown, Abandon
<1>2. DeliveryAt(Idle)
  BY OutOfFlight DEF Idle
<1>3. DeliveryAt(loop)
  <2>1. loop.pc = "loop" /\ loop.taken = {}
    BY DEF Idle
  <2> HIDE DEF loop
  <2> QED BY <2>1, OutOfFlight
<1> HIDE DEF loop
<1>4. ASSUME CommitFinish(w), NEW k \in Keys PROVE RetirementAt(docs'[k])
  <2>1. worker[w].pc = "ack" /\ docs' = [docs EXCEPT ![worker[w].key] = worker[w].updated]
    BY <1>4 DEF CommitFinish
  <2>2. RetirementAt(worker[w].updated)
    BY <2>1 DEF Delivering, DeliveryAt, InFlightAt, InFlight
  <2> QED
    BY <2>1, <2>2 DEF Delivering, TypeOK
<1>5. ASSUME FinishLost(w) \/ Abandon(w), NEW k \in Keys PROVE RetirementAt(docs'[k])
  BY <1>5 DEF FinishLost, Abandon, Delivering
<1>6. \A k \in Keys : RetirementAt(docs'[k])
  BY <1>4, <1>5 DEF Finish, FinishUnknown
<1> QED
  BY <1>1, <1>2, <1>3, <1>6, DeliveringFrom

LEMMA DeliveringStep ==
  ASSUME TypeOK, Counted, Fencing, Delivering, [Next]_vars PROVE Delivering'
<1>1. ASSUME NEW k \in Keys, PutOneOff(k) \/ PutDaily(k) \/ Cancel(k)
      PROVE  Delivering'
  BY <1>1, PutDelivering
<1>2. ASSUME NEW w \in Workers, WorkerStep(w) \/ Fault(w)
      PROVE  Delivering'
  BY <1>2, PollDelivering, ClaimDelivering, LookupDelivering, SendDelivering,
     RetireDelivering, FinishDelivering
  DEF WorkerStep, Fault
<1>3. ASSUME UNCHANGED <<docs, worker>> PROVE Delivering'
  BY <1>3, DeliveringStore DEF Delivering
<1>4. ChangeDevices \/ Advance \/ UNCHANGED vars => UNCHANGED <<docs, worker>>
  BY DEF ChangeDevices, Advance, vars
<1> QED
  BY <1>1, <1>2, <1>3, <1>4 DEF Next

LEMMA DeliveringHolds == Spec => []Delivering
<1>1. Init => Delivering
  <2>1. RetirementAt(NoDoc) /\ DeliveryAt(Idle)
    BY OutOfFlight DEF NoDoc, Idle, RetirementAt
  <2> QED
    BY <2>1 DEF Init, Delivering
<1>2. TypeOK /\ Counted /\ Fencing /\ Delivering /\ [Next]_vars => Delivering'
  BY DeliveringStep
<1> QED
  BY <1>1, <1>2, FencingHolds, PTL DEF Spec

------------------------------------------------------------------------------
(* The retirements owed.  The document says at least what the history says, *)
(* and so does the copy in the hands of a worker; with what a delivery      *)
(* keeps of the InvalidTargets (RetirementAt) this is RetirementOutstanding. *)

Indebted ==
  /\ debt \in [Workers -> SUBSET Targets]
  /\ owed \in [Keys -> SUBSET Targets]
  /\ \A w \in Workers : InFlightAt(worker[w]) => debt[w] \subseteq worker[w].updated.invalid
  /\ \A k \in Keys : owed[k] \subseteq docs[k].invalid

\* The history only watches.
LEMMA DebtWatches ==
  ASSUME [DebtNext]_debtVars PROVE [Next]_vars
<1>1. ASSUME NEW w \in Workers, DebtStep(w) PROVE WorkerStep(w) \/ Fault(w)
  <2>1. TakesOver(w) \/ Repays(w) \/ Records(w) \/ Forgets(w) => WorkerStep(w) \/ Fault(w)
    BY DEF TakesOver, Repays, Records, Forgets, WorkerStep, Fault
  <2>2. Learns(w) => Send(w)
    BY DEF Learns, Send
  <2>3. ASSUME OwesTheSame(w) PROVE WorkerStep(w) \/ Fault(w)
    <3>1. (\E t \in Targets : Accept(w, t)) => Send(w)
      BY DEF Send
    <3> QED
      BY <2>3, <3>1 DEF OwesTheSame, WorkerStep, Fault
  <2>4. Send(w) => WorkerStep(w)
    BY DEF WorkerStep
  <2> QED
    BY <1>1, <2>1, <2>2, <2>3, <2>4 DEF DebtStep
<1>2. \A k \in Keys : Replaces(k) => PutOneOff(k) \/ PutDaily(k)
  BY DEF Replaces
<1>3. UNCHANGED debtVars => UNCHANGED vars
  BY DEF debtVars
<1> QED
  BY <1>1, <1>2, <1>3 DEF DebtNext, Next

\* A worker moves with a debt that its copy covers.
LEMMA IndebtedMove ==
  ASSUME TypeOK, Indebted, NEW w \in Workers, NEW s, Become(w, s),
         NEW S \in SUBSET Targets, Debts(w, S),
         InFlightAt(s) => S \subseteq s.updated.invalid,
         owed' \in [Keys -> SUBSET Targets],
         \A k \in Keys : owed'[k] \subseteq docs'[k].invalid
  PROVE  Indebted'
<1>1. worker'[w] = s /\ \A v \in Workers \ {w} : worker'[v] = worker[v]
  BY DEF Become, TypeOK
<1>2. debt'[w] = S /\ \A v \in Workers \ {w} : debt'[v] = debt[v]
  BY DEF Debts, Indebted
<1>3. debt' \in [Workers -> SUBSET Targets]
  BY DEF Debts, Indebted
<1>4. ASSUME NEW v \in Workers, InFlightAt(worker'[v])
      PROVE  debt'[v] \subseteq worker'[v].updated.invalid
  BY <1>1, <1>2, <1>4 DEF Indebted
<1>5. \A v \in Workers : InFlightAt(worker[v])' => InFlightAt(worker'[v])
  BY DEF InFlightAt
<1> QED
  BY <1>3, <1>4, <1>5 DEF Indebted

\* The same for a step that stores nothing and records nothing.
LEMMA IndebtedQuiet ==
  ASSUME TypeOK, Indebted, NEW w \in Workers, NEW s, Become(w, s),
         NEW S \in SUBSET Targets, Debts(w, S),
         InFlightAt(s) => S \subseteq s.updated.invalid,
         UNCHANGED <<docs, owed>>
  PROVE  Indebted'
<1>1. /\ owed' \in [Keys -> SUBSET Targets]
      /\ \A k \in Keys : owed'[k] \subseteq docs'[k].invalid
  BY DEF Indebted
<1> QED
  BY <1>1, IndebtedMove

LEMMA DebtUnchanged ==
  ASSUME Indebted, NEW w \in Workers, UNCHANGED debt
  PROVE  debt[w] \in SUBSET Targets /\ Debts(w, debt[w])
BY DEF Indebted, Debts

\* Retrying keeps the InvalidTargets.
LEMMA RetryInvalid ==
  ASSUME NEW u \in Job, NEW now PROVE Retry(u, now).invalid = u.invalid
BY DEF Retry, Job

\* A claim, answered or not, leases the document and leaves what it owes.
LEMMA LeasedInvalid ==
  ASSUME TypeOK, NEW w \in Workers, CommitClaim(w)
  PROVE  \A k \in Keys : docs'[k].invalid = docs[k].invalid
<1> DEFINE k == worker[w].key
<1>1. k \in Keys /\ docs[k] \in Job
  BY DEF TypeOK, WorkerState
<1>2. docs' = [docs EXCEPT ![k] = Leased(k, worker[w].now)]
  BY DEF CommitClaim
<1>3. Leased(k, worker[w].now).invalid = docs[k].invalid
  BY <1>1 DEF Leased, Job
<1> HIDE DEF k
<1> QED
  BY <1>1, <1>2, <1>3 DEF TypeOK

LEMMA TakesOverIndebted ==
  ASSUME TypeOK, Counted, Indebted, NEW w \in Workers, TakesOver(w) PROVE Indebted'
<1> DEFINE k == worker[w].key
           job == Leased(k, worker[w].now)
           updated == [job EXCEPT !.leaseToken = NoLease, !.attempts = @ + 1]
           won == [worker[w] EXCEPT !.pc = "lookup", !.now = 0,
                     !.deadline = clock + SendTimeout, !.job = job, !.updated = updated]
<1>1. worker[w] \in WorkerState /\ k \in Keys /\ docs[k] \in Job /\ worker[w].now \in Nat
  BY DEF TypeOK, WorkerState
<1>2. job \in Job /\ job.invalid = docs[k].invalid
  BY <1>1, LeasedType DEF Leased, Job
<1>3. CommitClaim(w) /\ Become(w, won) /\ Debts(w, owed[k]) /\ UNCHANGED owed
  BY DEF TakesOver, ClaimWon
<1> HIDE DEF job
<1>4. updated.invalid = job.invalid
  BY <1>2 DEF Job
<1> HIDE DEF updated
<1>5. won.updated = updated
  BY <1>1 DEF WorkerState
<1> HIDE DEF won, k
<1>6. owed[k] \in SUBSET Targets /\ owed[k] \subseteq won.updated.invalid
  BY <1>1, <1>2, <1>4, <1>5 DEF Indebted
<1>7. /\ owed' \in [Keys -> SUBSET Targets]
      /\ \A j \in Keys : owed'[j] \subseteq docs'[j].invalid
  BY <1>3, LeasedInvalid DEF Indebted
<1> QED
  BY <1>3, <1>6, <1>7, IndebtedMove

LEMMA LearnsIndebted ==
  ASSUME TypeOK, Counted, Indebted, NEW w \in Workers, Learns(w) PROVE Indebted'
<1>1. PICK unregistered \in SUBSET Targets, perm \in SUBSET Targets,
           unresolved \in SUBSET Targets :
             /\ SendReturns(w, unregistered, perm, unresolved)
             /\ Debts(w, debt[w] \cup unregistered)
  BY DEF Learns
<1> DEFINE u == [worker[w].updated EXCEPT
                   !.completed = Recorded(worker[w], unresolved),
                   !.invalid = @ \cup unregistered,
                   !.permanent = @ \/ perm # {}]
           retiring == [worker[w] EXCEPT !.pc = "retire", !.updated = u,
                          !.pending = unresolved, !.taken = @ \ unresolved]
           acking(c) == [Acknowledge(w, c) EXCEPT !.taken = @ \ unresolved]
           S == debt[w] \cup unregistered
<1>2. worker[w] \in WorkerState /\ worker[w].updated \in Job /\ worker[w].pc = "send"
  BY <1>1, StateFacts DEF SendReturns
<1>3. u.invalid = worker[w].updated.invalid \cup unregistered
  BY <1>2 DEF Job
<1>4. S \in SUBSET Targets /\ S \subseteq u.invalid
  BY <1>2, <1>3 DEF Indebted, InFlightAt, InFlight
<1>5. \/ Become(w, retiring)
      \/ u.invalid = {} /\ \E c : Become(w, acking(c))
  BY <1>1 DEF SendReturns
<1>6. UNCHANGED <<docs, owed>> /\ Debts(w, S)
  BY <1>1 DEF Learns, SendReturns
<1>7. retiring.updated = u
  BY <1>2 DEF WorkerState
<1> HIDE DEF u, retiring, acking, S
<1>8. Become(w, retiring) => Indebted'
  BY <1>4, <1>6, <1>7, IndebtedQuiet
<1>9. ASSUME u.invalid = {}, NEW c, Become(w, acking(c)) PROVE Indebted'
  <2>1. S = {}
    BY <1>4, <1>9
  <2> QED
    BY <1>4, <1>6, <1>9, <2>1, IndebtedQuiet
<1> QED
  BY <1>5, <1>8, <1>9

LEMMA RepaysIndebted ==
  ASSUME TypeOK, Counted, Indebted, NEW w \in Workers, Repays(w) PROVE Indebted'
<1> DEFINE S == debt[w] \ worker[w].updated.invalid
<1>1. Retire(w) /\ Debts(w, S) /\ UNCHANGED owed
  BY DEF Repays
<1>2. PICK c : Become(w, Acknowledge(w, c))
  BY <1>1 DEF Retire
<1>3. worker[w].pc = "retire" /\ UNCHANGED docs
  BY <1>1 DEF Retire
<1>4. S = {}
  BY <1>3 DEF Indebted, InFlightAt, InFlight
<1> HIDE DEF S
<1> QED
  BY <1>1, <1>2, <1>3, <1>4, IndebtedQuiet

LEMMA LeavesIndebted ==
  ASSUME TypeOK, Counted, Indebted, NEW w \in Workers, Records(w) \/ Forgets(w)
  PROVE  Indebted'
<1>1. \E s : Become(w, s)
  BY DEF Records, Forgets, Finish, FinishUnknown, FinishLost, Abandon
<1>2. Debts(w, {})
  BY DEF Records, Forgets
<1>3. CASE Records(w)
  <2> DEFINE k == worker[w].key
  <2>1. k \in Keys /\ owed' = [owed EXCEPT ![k] = debt[w]]
    BY <1>3 DEF Records, Owes, TypeOK, WorkerState
  <2>2. CommitFinish(w)
    BY <1>3 DEF Records, Finish, FinishUnknown
  <2>3. worker[w].pc = "ack" /\ docs' = [docs EXCEPT ![k] = worker[w].updated]
    BY <2>2 DEF CommitFinish
  <2>4. debt[w] \in SUBSET Targets /\ debt[w] \subseteq worker[w].updated.invalid
    BY <2>3 DEF Indebted, InFlightAt, InFlight
  <2> HIDE DEF k
  <2>5. owed' \in [Keys -> SUBSET Targets]
    BY <2>1, <2>4 DEF Indebted
  <2>6. ASSUME NEW j \in Keys PROVE owed'[j] \subseteq docs'[j].invalid
    BY <2>1, <2>3, <2>4 DEF Indebted, TypeOK
  <2> QED
    BY <1>1, <1>2, <2>5, <2>6, IndebtedMove
<1>4. CASE Forgets(w)
  <2>1. UNCHANGED <<docs, owed>>
    BY <1>4 DEF Forgets, FinishLost, Abandon
  <2> QED
    BY <1>1, <1>2, <2>1, IndebtedQuiet
<1> QED
  BY <1>3, <1>4

\* The steps that learn, retire and record nothing.
LEMMA SameIndebted ==
  ASSUME TypeOK, Counted, Indebted, NEW w \in Workers, OwesTheSame(w) PROVE Indebted'
<1> DEFINE s == worker[w]
<1>1. UNCHANGED <<debt, owed>> /\ debt[w] \in SUBSET Targets /\ Debts(w, debt[w])
  <2>1. UNCHANGED debt /\ UNCHANGED owed
    BY DEF OwesTheSame
  <2> QED
    BY <2>1, DebtUnchanged
<1>2. InFlightAt(s) => debt[w] \subseteq s.updated.invalid
  BY DEF Indebted
<1>3. s \in WorkerState /\ s.updated \in Job
  BY StateFacts
<1>4. CASE StartTick(w) \/ EndTick(w) \/ Query(w) \/ ClaimLost(w)
  <2>1. UNCHANGED docs
    BY <1>4 DEF StartTick, EndTick, Query, ClaimLost
  <2>2. \/ Become(w, Idle) \/ Become(w, [Idle EXCEPT !.pc = "loop", !.left = TickLimit])
        \/ \E k \in Keys : Become(w, [s EXCEPT !.pc = "claim", !.key = k, !.now = clock,
                                              !.deadline = clock + ClaimLatency])
    BY <1>4 DEF StartTick, EndTick, Query, ClaimLost
  <2>3. /\ ~InFlightAt(Idle)
        /\ ~InFlightAt([Idle EXCEPT !.pc = "loop", !.left = TickLimit])
        /\ \A k \in Keys : ~InFlightAt([s EXCEPT !.pc = "claim", !.key = k, !.now = clock,
                                              !.deadline = clock + ClaimLatency])
    BY <1>3 DEF InFlightAt, InFlight, Idle, WorkerState
  <2>4. PICK r : Become(w, r) /\ ~InFlightAt(r)
    BY <2>2, <2>3
  <2> QED
    BY <1>1, <2>1, <2>4, IndebtedQuiet
<1>5. CASE ClaimUnknown(w)
  <2>1. CommitClaim(w) /\ Become(w, Idle)
    BY <1>5 DEF ClaimUnknown
  <2>2. ~InFlightAt(Idle)
    BY DEF InFlightAt, InFlight, Idle
  <2>3. /\ owed' \in [Keys -> SUBSET Targets]
        /\ \A j \in Keys : owed'[j] \subseteq docs'[j].invalid
    BY <1>1, <2>1, LeasedInvalid DEF Indebted
  <2> QED
    BY <1>1, <2>1, <2>2, <2>3, IndebtedMove
<1>6. CASE LookupFails(w) \/ RetireFails(w)
  <2> DEFINE ack == Acknowledge(w, Retry(s.updated, clock))
  <2>1. UNCHANGED docs /\ Become(w, ack) /\ s.pc \in {"lookup", "retire"}
    BY <1>6 DEF LookupFails, RetireFails
  <2>2. ack.updated = Retry(s.updated, clock)
    BY <1>3 DEF Acknowledge, WorkerState
  <2>3. ack.updated.invalid = s.updated.invalid
    BY <1>3, <2>2, RetryInvalid
  <2>4. InFlightAt(s)
    BY <2>1 DEF InFlightAt, InFlight
  <2> HIDE DEF ack, s
  <2> QED
    BY <1>1, <1>2, <2>1, <2>3, <2>4, IndebtedQuiet
<1>7. CASE Lookup(w) \/ \E t \in Targets : Accept(w, t)
  <2>1. /\ UNCHANGED docs /\ s.pc \in {"lookup", "send"}
        /\ \/ Become(w, [s EXCEPT !.pc = "send", !.pending = Unsent(w)])
           \/ \E t \in Targets : Become(w, [s EXCEPT !.taken = @ \cup {t}])
    BY <1>7 DEF Lookup, Accept
  <2>2. /\ [s EXCEPT !.pc = "send", !.pending = Unsent(w)].updated = s.updated
        /\ \A t \in Targets : [s EXCEPT !.taken = @ \cup {t}].updated = s.updated
    BY <1>3 DEF WorkerState
  <2>3. InFlightAt(s)
    BY <2>1 DEF InFlightAt, InFlight
  <2>4. PICK r : Become(w, r) /\ r.updated = s.updated
    BY <2>1, <2>2
  <2> HIDE DEF s
  <2> QED
    BY <1>1, <1>2, <2>1, <2>3, <2>4, IndebtedQuiet
<1> QED
  BY <1>4, <1>5, <1>6, <1>7 DEF OwesTheSame

\* What is stored changes and no worker moves.
LEMMA StoreIndebted ==
  ASSUME TypeOK, Indebted, NEW k \in Keys,
         Replaces(k) \/ (Cancel(k) /\ UNCHANGED <<debt, owed>>)
  PROVE  Indebted'
<1>1. UNCHANGED <<worker, debt>>
  BY DEF Replaces, PutOneOff, PutDaily, Put, Cancel
<1>2. \A w \in Workers : InFlightAt(worker[w])' => InFlightAt(worker[w])
  BY <1>1 DEF InFlightAt
<1>3. CASE Replaces(k)
  <2>1. owed' = [owed EXCEPT ![k] = {}]
    BY <1>3 DEF Replaces, Owes
  <2>2. PICK d : docs' = [docs EXCEPT ![k] = d]
    BY <1>3 DEF Replaces, PutOneOff, PutDaily, Put
  <2>3. \A j \in Keys : owed'[j] \subseteq docs'[j].invalid
    BY <2>1, <2>2 DEF Indebted, TypeOK
  <2>4. owed' \in [Keys -> SUBSET Targets]
    BY <2>1 DEF Indebted
  <2> QED
    BY <1>1, <1>2, <2>3, <2>4 DEF Indebted
<1>4. CASE Cancel(k) /\ UNCHANGED <<debt, owed>>
  <2> DEFINE d == [docs[k] EXCEPT !.state = "canceled", !.leaseToken = NoLease]
  <2>1. docs' = [docs EXCEPT ![k] = d]
    BY <1>4 DEF Cancel
  <2>2. d.invalid = docs[k].invalid
    BY DEF TypeOK, Job
  <2> HIDE DEF d
  <2>3. \A j \in Keys : owed'[j] \subseteq docs'[j].invalid
    BY <1>4, <2>1, <2>2 DEF Indebted, TypeOK
  <2> QED
    BY <1>1, <1>2, <1>4, <2>3 DEF Indebted
<1> QED
  BY <1>3, <1>4

LEMMA IndebtedStep ==
  ASSUME TypeOK, Counted, Indebted, [DebtNext]_debtVars PROVE Indebted'
<1>1. ASSUME NEW w \in Workers, DebtStep(w) PROVE Indebted'
  BY <1>1, TakesOverIndebted, LearnsIndebted, RepaysIndebted, LeavesIndebted,
     SameIndebted DEF DebtStep
<1>2. ASSUME NEW k \in Keys, Replaces(k) PROVE Indebted'
  BY <1>2, StoreIndebted
<1>3. ASSUME NEW k \in Keys, Cancel(k), UNCHANGED <<debt, owed>> PROVE Indebted'
  BY <1>3, StoreIndebted
<1>4. CASE \/ (ChangeDevices \/ Advance) /\ UNCHANGED <<debt, owed>>
          \/ UNCHANGED debtVars
  <2>1. UNCHANGED <<docs, worker, debt, owed>>
    BY <1>4 DEF ChangeDevices, Advance, debtVars, vars
  <2> QED
    BY <2>1 DEF Indebted, InFlightAt
<1> QED
  BY <1>1, <1>2, <1>3, <1>4 DEF DebtNext

\* "Failed retirement is persisted and retried" (deliver and DisablePushInstallations):
\* what an attempt on record reported as unregistered, and no retirement has disabled
\* since, is on the document to be retired and not to be sent to again, through failed
\* and unanswered retirements, crashes and lost leases, whatever the budgets.
THEOREM RetirementOutstandingHolds == DebtSpec => []RetirementOutstanding
<1>1. DebtInit => Indebted
  BY DEF DebtInit, Init, Indebted, NoDoc, Idle, InFlightAt, InFlight
<1>2. TypeOK /\ Counted /\ Indebted /\ [DebtNext]_debtVars => Indebted'
  BY IndebtedStep
<1>3. DebtInit => Init
  BY DEF DebtInit
<1>4. [DebtNext]_debtVars => [Next]_vars
  BY DebtWatches
<1>5. Delivering /\ Indebted => RetirementOutstanding
  BY DEF Delivering, Indebted, RetirementAt, RetirementOutstanding
<1>6. DebtSpec => Spec
  BY <1>3, <1>4, PTL DEF DebtSpec, Spec
<1>7. DebtSpec => [](TypeOK /\ Counted) /\ []Delivering
  BY <1>6, FencingHolds, DeliveringHolds, PTL
<1> QED
  BY <1>1, <1>2, <1>5, <1>7, PTL DEF DebtSpec

------------------------------------------------------------------------------
(* What lease exclusion is for: the books of an occurrence.  Each of its     *)
(* starts is a counted attempt, a fault, or the one claim that is held; each *)
(* acceptance of a target is excused, on record, or carried by one worker.   *)

\* The worker's lease is the stored one.
Holder(k, w) ==
  /\ InFlightAt(worker[w]) /\ worker[w].key = k
  /\ docs[k].leaseToken = worker[w].job.leaseToken
Held(k) == \E w \in Workers : Holder(k, w)

\* The worker is in flight with the occurrence that the document is at, its lease kept
\* or canceled.
Carrier(k, w) ==
  /\ InFlightAt(worker[w]) /\ worker[w].key = k
  /\ docs[k].gen = worker[w].job.gen /\ docs[k].dueAt = worker[w].job.dueAt
OnRecord(k, t) ==
  t \in docs[k].completed \/ \E w \in Workers : Carrier(k, w) /\ t \in worker[w].taken

StartsAt(k) ==
  /\ ledger[k].starts <= MaxAttempts + faults
  /\ docs[k].state = "ready" =>
       /\ docs[k].attempts < MaxAttempts
       /\ ledger[k].starts <= docs[k].attempts + faults + 1
       /\ ~Held(k) => ledger[k].starts <= docs[k].attempts + faults

TakenAt(k, t) ==
  /\ ledger[k].accepted[t] <= ledger[k].excused[t] + 1
  /\ ~OnRecord(k, t) => ledger[k].accepted[t] <= ledger[k].excused[t]

CopyAt(w) ==
  Carrier(worker[w].key, w) => docs[worker[w].key].completed = worker[w].job.completed

Accounted ==
  /\ \A k \in Keys : StartsAt(k)
  /\ \A k \in Keys, t \in Targets : TakenAt(k, t)
  /\ \A w \in Workers : CopyAt(w)

LEMMA BookTypes ==
  ASSUME TypeOK
  PROVE  /\ faults \in Nat /\ MaxAttempts \in Nat \ {0}
         /\ \A k \in Keys : /\ ledger[k] \in History
                            /\ ledger[k].starts \in Nat /\ docs[k].attempts \in Nat
                            /\ docs[k] \in Job
         /\ \A k \in Keys, t \in Targets :
              ledger[k].accepted[t] \in Nat /\ ledger[k].excused[t] \in Nat
         /\ \A w \in Workers : worker[w].key \in Keys
BY ScheduleAssumption DEF TypeOK, Job, History, WorkerState

LEMMA OneCarrier ==
  ASSUME Exclusive, NEW k, NEW v \in Workers, NEW w \in Workers, Carrier(k, v), Carrier(k, w)
  PROVE  v = w
BY DEF Exclusive, NoOverlap, Carrier, InFlightAt

LEMMA HolderCarries ==
  ASSUME Fencing, NEW k, NEW w \in Workers, Holder(k, w)
  PROVE  Carrier(k, w) /\ docs[k] = worker[w].job
<1>1. FencedAt(worker[w])
  BY DEF Fencing
<1> QED
  BY <1>1 DEF FencedAt, Holder, Carrier

\* A claim that nobody makes or counts; it may be lost to a fault.
LEMMA StartsKept ==
  ASSUME TypeOK, TypeOK', NEW k \in Keys, StartsAt(k),
         ledger'[k].starts = ledger[k].starts, docs'[k].attempts = docs[k].attempts,
         docs'[k].state = "ready" => docs[k].state = "ready",
         faults' >= faults,
         docs'[k].state = "ready" /\ Held(k) => Held(k)' \/ faults' > faults
  PROVE  StartsAt(k)'
<1>1. /\ faults \in Nat /\ faults' \in Nat /\ MaxAttempts \in Nat
      /\ ledger[k].starts \in Nat /\ docs[k].attempts \in Nat
  BY BookTypes DEF TypeOK
<1> QED
  BY <1>1 DEF StartsAt

\* An acceptance is on record as before, or excused now.
LEMMA TakenKept ==
  ASSUME TypeOK, TypeOK', NEW k \in Keys, NEW t \in Targets, TakenAt(k, t),
         ledger'[k].accepted[t] = ledger[k].accepted[t],
         ledger'[k].excused[t] >= ledger[k].excused[t],
         OnRecord(k, t) => OnRecord(k, t)' \/ ledger'[k].excused[t] > ledger[k].excused[t]
  PROVE  TakenAt(k, t)'
<1>1. /\ ledger[k].accepted[t] \in Nat /\ ledger[k].excused[t] \in Nat
      /\ ledger'[k].excused[t] \in Nat
  BY BookTypes DEF TypeOK
<1> QED
  BY <1>1 DEF TakenAt

\* The document is at the same occurrence with the same record.
SameOccurrence(k) ==
  /\ docs'[k].gen = docs[k].gen /\ docs'[k].dueAt = docs[k].dueAt
  /\ docs'[k].completed = docs[k].completed

\* The worker carries what it carried, or carries nothing.
SameCarriage(v) ==
  InFlightAt(worker'[v]) => /\ InFlightAt(worker[v])
                            /\ worker'[v].key = worker[v].key /\ worker'[v].job = worker[v].job

LEMMA CopyKept ==
  ASSUME NEW v \in Workers, CopyAt(v), SameCarriage(v),
         InFlightAt(worker'[v]) => SameOccurrence(worker[v].key)
  PROVE  CopyAt(v)'
BY DEF CopyAt, Carrier, InFlightAt, SameOccurrence, SameCarriage

LEMMA AcceptFields ==
  ASSUME TypeOK, NEW w \in Workers, NEW t \in Targets, Accept(w, t), NEW k \in Keys
  PROVE  /\ ledger'[k].starts = ledger[k].starts /\ ledger'[k].excused = ledger[k].excused
         /\ \A u \in Targets :
              ledger'[k].accepted[u] =
                IF Current(w) /\ k = worker[w].key /\ u = t THEN ledger[k].accepted[u] + 1
                                                            ELSE ledger[k].accepted[u]
<1> DEFINE j == worker[w].key
           a == ledger[j].accepted[t] + 1
           h == [ledger[j] EXCEPT !.accepted = [ledger[j].accepted EXCEPT ![t] = a]]
<1>1. j \in Keys /\ ledger[j] \in History /\ ledger[k] \in History
  BY BookTypes
<1>2. ledger' = IF Current(w) THEN [ledger EXCEPT ![j] = h] ELSE ledger
  BY DEF Accept
<1>3. /\ h.starts = ledger[j].starts /\ h.excused = ledger[j].excused
      /\ \A u \in Targets : h.accepted[u] = IF u = t THEN a ELSE ledger[j].accepted[u]
  BY <1>1 DEF History
<1> HIDE DEF j, h
<1>4. ~Current(w) => ledger' = ledger
  BY <1>2
<1>5. Current(w) => ledger'[k] = IF k = j THEN h ELSE ledger[k]
  BY <1>1, <1>2 DEF TypeOK
<1> QED
  BY <1>3, <1>4, <1>5 DEF j

LEMMA ExcuseFields ==
  ASSUME TypeOK, NEW w \in Workers, NEW S, Excuse(w, S), NEW k \in Keys
  PROVE  /\ ledger'[k].starts = ledger[k].starts /\ ledger'[k].accepted = ledger[k].accepted
         /\ \A t \in Targets :
              ledger'[k].excused[t] =
                IF Current(w) /\ k = worker[w].key /\ t \in S THEN ledger[k].excused[t] + 1
                                                              ELSE ledger[k].excused[t]
<1> DEFINE j == worker[w].key
           e == [t \in Targets |-> IF t \in S THEN ledger[j].excused[t] + 1
                                             ELSE ledger[j].excused[t]]
           h == [ledger[j] EXCEPT !.excused = e]
<1>1. j \in Keys /\ ledger[j] \in History /\ ledger[k] \in History
  BY BookTypes
<1>2. ledger' = IF Current(w) THEN [ledger EXCEPT ![j] = h] ELSE ledger
  BY DEF Excuse
<1>3. /\ h.starts = ledger[j].starts /\ h.accepted = ledger[j].accepted
      /\ \A t \in Targets : h.excused[t] = IF t \in S THEN ledger[j].excused[t] + 1
                                                       ELSE ledger[j].excused[t]
  BY <1>1 DEF History
<1> HIDE DEF j, h
<1>4. ~Current(w) => ledger' = ledger
  BY <1>2
<1>5. Current(w) => ledger'[k] = IF k = j THEN h ELSE ledger[k]
  BY <1>1, <1>2 DEF TypeOK
<1> QED
  BY <1>3, <1>4, <1>5 DEF j

\* A step of memory that touches neither the books nor what anyone in flight holds.
LEMMA AccountsQuiet ==
  ASSUME TypeOK, TypeOK', Accounted, UNCHANGED <<docs, ledger>>, faults' >= faults,
         \A v \in Workers :
           /\ SameCarriage(v)
           /\ InFlightAt(worker[v]) => /\ InFlightAt(worker'[v])
                                       /\ worker'[v].taken = worker[v].taken
  PROVE  Accounted'
<1>1. \A k, v : v \in Workers =>
        (Holder(k, v) => Holder(k, v)') /\ (Carrier(k, v) => Carrier(k, v)')
  BY DEF Holder, Carrier, SameCarriage, InFlightAt
<1>2. ASSUME NEW k \in Keys PROVE StartsAt(k)'
  <2>1. Held(k) => Held(k)'
    BY <1>1 DEF Held
  <2> QED
    BY <2>1, StartsKept DEF Accounted
<1>3. ASSUME NEW k \in Keys, NEW t \in Targets PROVE TakenAt(k, t)'
  <2>1. OnRecord(k, t) => OnRecord(k, t)'
    BY <1>1 DEF OnRecord, Carrier
  <2>2. ledger[k].excused[t] \in Nat
    BY BookTypes
  <2>3. ledger'[k].excused[t] >= ledger[k].excused[t]
    BY <2>2
  <2> QED
    BY <2>1, <2>3, TakenKept DEF Accounted
<1>4. ASSUME NEW v \in Workers PROVE CopyAt(v)'
  BY CopyKept DEF Accounted, SameOccurrence
<1> QED
  BY <1>2, <1>3, <1>4 DEF Accounted

LEMMA PutAccounted ==
  ASSUME TypeOK, TypeOK', Fencing, Accounted, NEW k \in Keys, PutOneOff(k) \/ PutDaily(k)
  PROVE  Accounted'
<1>1. PICK daily \in BOOLEAN, due \in Nat : Put(k, daily, due)
  <2>1. DailyNext(clock) \in Nat /\ clock \in Nat
    BY DailyNextLater DEF TypeOK
  <2>2. \A due \in {clock, clock + 1} : due \in Nat
    BY <2>1
  <2> QED
    BY <2>1, <2>2 DEF PutOneOff, PutDaily
<1> DEFINE d == NewJob(puts + 1, daily, due)
<1>2. /\ docs' = [docs EXCEPT ![k] = d] /\ ledger' = [ledger EXCEPT ![k] = NoHistory]
      /\ UNCHANGED <<worker, faults>>
  BY <1>1 DEF Put
<1>3. d.gen = puts + 1 /\ d.attempts = 0 /\ puts \in Nat
  BY ConstantTypes DEF NewJob, NoDoc, Job, TypeOK
<1> HIDE DEF d
<1>4. docs'[k] = d /\ ledger'[k] = NoHistory
  BY <1>2 DEF TypeOK
<1>5. \A j \in Keys \ {k} : docs'[j] = docs[j] /\ ledger'[j] = ledger[j]
  BY <1>2 DEF TypeOK
<1>6. /\ NoHistory.starts = 0
      /\ \A t \in Targets : NoHistory.accepted[t] = 0 /\ NoHistory.excused[t] = 0
  BY DEF NoHistory
<1>7. faults \in Nat /\ MaxAttempts \in Nat \ {0}
  BY BookTypes
<1>8. StartsAt(k)'
  BY <1>2, <1>3, <1>4, <1>6, <1>7 DEF StartsAt
<1>9. \A t \in Targets : TakenAt(k, t)'
  BY <1>4, <1>6 DEF TakenAt
<1>10. ASSUME NEW j \in Keys \ {k} PROVE StartsAt(j)' /\ \A t \in Targets : TakenAt(j, t)'
  BY <1>2, <1>5, <1>10
  DEF Accounted, StartsAt, TakenAt, OnRecord, Held, Holder, Carrier, InFlightAt
<1>11. ASSUME NEW v \in Workers PROVE CopyAt(v)'
  <2>1. InFlightAt(worker[v]) => worker[v].job.gen <= puts /\ worker[v].job.gen \in Nat
    <3>1. FencedAt(worker[v]) /\ docs[worker[v].key].gen <= puts
      BY BookTypes DEF Fencing, DocsOK
    <3>2. worker[v].job.gen \in Nat /\ docs[worker[v].key].gen \in Nat
      BY BookTypes DEF TypeOK, Job, WorkerState
    <3> QED
      BY <1>3, <3>1, <3>2 DEF FencedAt
  <2>2. CASE worker[v].key = k
    BY <1>2, <1>3, <1>4, <2>1, <2>2 DEF CopyAt, Carrier, InFlightAt
  <2>3. CASE worker[v].key # k
    BY <1>2, <1>5, <2>3, BookTypes, CopyKept DEF Accounted, SameOccurrence, SameCarriage
  <2> QED
    BY <2>2, <2>3
<1> QED
  BY <1>8, <1>9, <1>10, <1>11 DEF Accounted

LEMMA CancelAccounted ==
  ASSUME TypeOK, TypeOK', Accounted, NEW k \in Keys, Cancel(k)
  PROVE  Accounted'
<1>1. /\ UNCHANGED <<worker, ledger, faults>>
      /\ docs' = [docs EXCEPT ![k].state = "canceled", ![k].leaseToken = NoLease]
  BY DEF Cancel
<1>2. docs'[k].state = "canceled" /\ docs'[k].attempts = docs[k].attempts /\ SameOccurrence(k)
  BY <1>1 DEF TypeOK, Job, SameOccurrence
<1>3. \A j \in Keys \ {k} : docs'[j] = docs[j]
  BY <1>1 DEF TypeOK
<1>4. \A j \in Keys : SameOccurrence(j)
  BY <1>2, <1>3 DEF SameOccurrence
<1>5. ASSUME NEW j \in Keys PROVE StartsAt(j)'
  <2>1. faults' >= faults
    BY <1>1, BookTypes
  <2>2. CASE j = k
    BY <1>1, <1>2, <2>1, <2>2, StartsKept DEF Accounted
  <2>3. CASE j # k
    <3>1. docs'[j] = docs[j]
      BY <1>3, <2>3
    <3>2. Held(j) => Held(j)'
      BY <1>1, <3>1 DEF Held, Holder, InFlightAt
    <3> QED
      BY <1>1, <2>1, <3>1, <3>2, StartsKept DEF Accounted
  <2> QED
    BY <2>2, <2>3
<1>6. ASSUME NEW j \in Keys, NEW t \in Targets PROVE TakenAt(j, t)'
  <2>1. OnRecord(j, t) => OnRecord(j, t)'
    BY <1>1, <1>4 DEF OnRecord, Carrier, InFlightAt, SameOccurrence
  <2>2. ledger'[j].excused[t] >= ledger[j].excused[t]
    BY <1>1, BookTypes
  <2> QED
    BY <1>1, <2>1, <2>2, TakenKept DEF Accounted
<1>7. ASSUME NEW v \in Workers PROVE CopyAt(v)'
  BY <1>1, <1>4, BookTypes, CopyKept DEF Accounted, SameCarriage
<1> QED
  BY <1>5, <1>6, <1>7 DEF Accounted

LEMMA PollAccounted ==
  ASSUME TypeOK, TypeOK', Accounted, NEW w \in Workers,
         StartTick(w) \/ EndTick(w) \/ Query(w) \/ ClaimLost(w)
  PROVE  Accounted'
<1> DEFINE claim(k) == [worker[w] EXCEPT !.pc = "claim", !.key = k, !.now = clock,
                                         !.deadline = clock + ClaimLatency]
           loop == [Idle EXCEPT !.pc = "loop", !.left = TickLimit]
<1>1. worker[w].pc \in {"idle", "loop", "claim"} /\ UNCHANGED <<docs, ledger, faults>>
  BY DEF StartTick, EndTick, Query, ClaimLost
<1>2. \/ Become(w, Idle) \/ Become(w, loop) \/ \E k \in Keys : Become(w, claim(k))
  BY DEF StartTick, EndTick, Query, ClaimLost
<1>3. Idle.pc = "idle" /\ loop.pc = "loop"
  BY DEF Idle
<1>4. \A k \in Keys : claim(k).pc = "claim"
  BY DEF TypeOK, WorkerState
<1> HIDE DEF claim, loop
<1>5. PICK s : Become(w, s) /\ s.pc \in {"idle", "loop", "claim"}
  BY <1>2, <1>3, <1>4
<1>6. worker'[w] = s /\ \A v \in Workers \ {w} : worker'[v] = worker[v]
  BY <1>5 DEF Become, TypeOK
<1>7. ~InFlightAt(worker[w]) /\ ~InFlightAt(worker'[w])
  BY <1>1, <1>5, <1>6 DEF InFlightAt, InFlight
<1>8. faults' >= faults
  BY <1>1, BookTypes
<1>9. ASSUME NEW v \in Workers
      PROVE  /\ SameCarriage(v)
             /\ InFlightAt(worker[v]) => /\ InFlightAt(worker'[v])
                                         /\ worker'[v].taken = worker[v].taken
  BY <1>6, <1>7 DEF SameCarriage
<1> QED
  BY <1>1, <1>8, <1>9, AccountsQuiet

\* A claim: nobody held the job, and the new start is held, or it is a fault.
LEMMA ClaimAccounted ==
  ASSUME TypeOK, TypeOK', Counted, Fencing, Exclusive, Delivering, Accounted,
         NEW w \in Workers, ClaimWon(w) \/ ClaimUnknown(w)
  PROVE  Accounted'
<1>0. PICK k \in Keys : k = worker[w].key
  BY BookTypes
<1> DEFINE now == worker[w].now
           job == Leased(k, now)
           updated == [job EXCEPT !.leaseToken = NoLease, !.attempts = job.attempts + 1]
           won == [worker[w] EXCEPT !.pc = "lookup", !.now = 0,
                     !.deadline = clock + SendTimeout, !.job = job, !.updated = updated]
<1>1. worker[w] \in WorkerState /\ docs[k] \in Job /\ now \in Nat
  BY DEF TypeOK, WorkerState
<1>2. /\ worker[w].pc = "claim" /\ Claimable(k, now) /\ docs' = [docs EXCEPT ![k] = job]
      /\ ledger' = [ledger EXCEPT ![k].starts = @ + 1]
  BY <1>0 DEF ClaimWon, ClaimUnknown, CommitClaim, StillDue
<1>3. now <= clock
  BY <1>2 DEF Fencing, FencedAt
<1>4. /\ docs'[k] = job /\ job.gen = docs[k].gen /\ job.dueAt = docs[k].dueAt
      /\ job.completed = docs[k].completed /\ job.attempts = docs[k].attempts
      /\ job.state = docs[k].state
  BY <1>1, <1>2 DEF Leased, Job, TypeOK
<1>5. /\ ledger'[k].starts = ledger[k].starts + 1
      /\ \A j \in Keys : /\ ledger'[j].accepted = ledger[j].accepted
                         /\ ledger'[j].excused = ledger[j].excused
  BY <1>1, <1>2 DEF TypeOK
<1>6. \A j \in Keys \ {k} : docs'[j] = docs[j] /\ ledger'[j] = ledger[j]
  BY <1>2 DEF TypeOK
<1>7. \/ worker'[w] = won /\ faults' = faults
      \/ worker'[w] = Idle /\ faults' = faults + 1
  BY <1>0 DEF ClaimWon, ClaimUnknown, Become, TypeOK
<1>8. \A v \in Workers \ {w} : worker'[v] = worker[v]
  BY DEF ClaimWon, ClaimUnknown, Become, TypeOK
<1>9. won.pc = "lookup" /\ won.key = k /\ won.job = job
  BY <1>0, <1>1 DEF WorkerState
<1>10. Idle.pc = "idle"
  BY DEF Idle
<1>11. faults \in Nat /\ faults' \in Nat /\ faults' >= faults /\ MaxAttempts \in Nat
  BY <1>7, BookTypes
<1>12. ~InFlightAt(worker[w])
  BY <1>2 DEF InFlightAt, InFlight
<1>13. ~Held(k)
  <2> SUFFICES ASSUME NEW v \in Workers, Holder(k, v) PROVE FALSE
    BY DEF Held
  <2>1. InFlightAt(worker[v]) /\ worker[v].key = k /\ docs[k].gen = worker[v].job.gen
    BY HolderCarries DEF Carrier
  <2> QED
    BY <1>1, <1>2, <1>3, <2>1, HeldIsNotDue
<1>14. worker'[w] = won => Held(k)'
  BY <1>4, <1>9 DEF Held, Holder, InFlightAt, InFlight
<1> HIDE DEF job, won, now
<1>15. StartsAt(k)'
  <2>1. /\ docs[k].state = "ready" /\ ledger[k].starts <= docs[k].attempts + faults
        /\ docs[k].attempts < MaxAttempts
    BY <1>1, <1>2, <1>13 DEF Accounted, StartsAt, Claimable
  <2>2. ledger[k].starts \in Nat /\ docs[k].attempts \in Nat
    BY <1>1, BookTypes
  <2>3. ledger[k].starts + 1 <= docs[k].attempts + faults + 1
        /\ docs[k].attempts + faults + 1 <= MaxAttempts + faults
    BY <1>11, <2>1, <2>2
  <2>4. ledger'[k].starts <= docs'[k].attempts + faults' + 1
        /\ ledger'[k].starts <= MaxAttempts + faults'
    BY <1>4, <1>5, <1>11, <2>2, <2>3
  <2>5. ~Held(k)' => ledger'[k].starts <= docs'[k].attempts + faults'
    BY <1>4, <1>5, <1>7, <1>11, <1>14, <2>1, <2>2
  <2> QED
    BY <1>4, <2>1, <2>4, <2>5 DEF StartsAt
<1>16. \A j, v : v \in Workers /\ Carrier(j, v) /\ j \in Keys
                   => v # w /\ Carrier(j, v)'
  BY <1>4, <1>6, <1>8, <1>12 DEF Carrier, InFlightAt
<1>17. ASSUME NEW j \in Keys \ {k} PROVE StartsAt(j)'
  <2>1. Held(j) => Held(j)'
    BY <1>6, <1>8, <1>12, <1>17 DEF Held, Holder, InFlightAt
  <2> QED
    BY <1>6, <1>11, <2>1, StartsKept DEF Accounted
<1>18. ASSUME NEW j \in Keys, NEW t \in Targets PROVE TakenAt(j, t)'
  <2>1. docs'[j].completed = docs[j].completed
    BY <1>4, <1>6
  <2>2. OnRecord(j, t) => OnRecord(j, t)'
    BY <1>8, <1>16, <2>1 DEF OnRecord
  <2>3. ledger'[j].excused[t] >= ledger[j].excused[t]
    BY <1>5, BookTypes
  <2> QED
    BY <1>5, <2>2, <2>3, TakenKept DEF Accounted
<1>19. ASSUME NEW v \in Workers PROVE CopyAt(v)'
  <2>1. CASE v = w
    BY <1>4, <1>7, <1>9, <1>10, <2>1 DEF CopyAt, Carrier, InFlightAt, InFlight
  <2>2. CASE v # w
    <3>1. worker[v].key \in Keys /\ worker'[v] = worker[v]
      BY <1>8, <2>2, BookTypes
    <3>2. SameOccurrence(worker[v].key)
      BY <1>4, <1>6, <3>1 DEF SameOccurrence
    <3> QED
      BY <3>1, <3>2, CopyKept DEF Accounted, SameCarriage
  <2> QED
    BY <2>1, <2>2
<1> QED
  BY <1>15, <1>17, <1>18, <1>19 DEF Accounted

\* deliver looks up the targets, or retires some: what it took stays taken.
LEMMA LookupAccounted ==
  ASSUME TypeOK, TypeOK', Accounted, NEW w \in Workers,
         LookupFails(w) \/ Lookup(w) \/ Retire(w) \/ RetireFails(w)
  PROVE  Accounted'
<1> DEFINE found == [worker[w] EXCEPT !.pc = "send", !.pending = Unsent(w)]
<1>1. /\ worker[w].pc \in {"lookup", "retire"} /\ UNCHANGED <<docs, ledger, faults>>
      /\ worker[w] \in WorkerState
  BY DEF LookupFails, Lookup, Retire, RetireFails, TypeOK
<1>2. Become(w, found) \/ \E u : Become(w, Acknowledge(w, u))
  BY DEF LookupFails, Lookup, Retire, RetireFails
<1>3. /\ found.pc = "send" /\ found.key = worker[w].key /\ found.job = worker[w].job
      /\ found.taken = worker[w].taken
  BY <1>1 DEF WorkerState
<1>4. ASSUME NEW u
      PROVE  LET a == Acknowledge(w, u)
             IN  /\ a.pc = "ack" /\ a.key = worker[w].key /\ a.job = worker[w].job
                 /\ a.taken = worker[w].taken
  BY <1>1 DEF Acknowledge, WorkerState
<1> HIDE DEF found
<1>5. PICK s : /\ Become(w, s) /\ s.pc \in {"send", "ack"} /\ s.key = worker[w].key
               /\ s.job = worker[w].job /\ s.taken = worker[w].taken
  BY <1>2, <1>3, <1>4
<1>6. worker'[w] = s /\ \A v \in Workers \ {w} : worker'[v] = worker[v]
  BY <1>5 DEF Become, TypeOK
<1>7. InFlightAt(worker[w]) /\ InFlightAt(worker'[w])
  BY <1>1, <1>5, <1>6 DEF InFlightAt, InFlight
<1>8. faults' >= faults
  BY <1>1, BookTypes
<1>9. ASSUME NEW v \in Workers
      PROVE  /\ SameCarriage(v)
             /\ InFlightAt(worker[v]) => /\ InFlightAt(worker'[v])
                                         /\ worker'[v].taken = worker[v].taken
  BY <1>5, <1>6, <1>7 DEF SameCarriage
<1> QED
  BY <1>1, <1>8, <1>9, AccountsQuiet

\* During a send w keeps its job, and only the targets it took change with the books.
LEMMA SendBooks ==
  ASSUME TypeOK, TypeOK', Accounted, NEW w \in Workers, NEW s, Become(w, s),
         InFlightAt(worker[w]), InFlightAt(s), s.key = worker[w].key, s.job = worker[w].job,
         UNCHANGED <<docs, faults>>,
         \A k \in Keys : ledger'[k].starts = ledger[k].starts
  PROVE  /\ \A k \in Keys : StartsAt(k)'
         /\ \A v \in Workers : CopyAt(v)'
         /\ \A k, v : v \in Workers => (Carrier(k, v)' <=> Carrier(k, v))
         /\ worker'[w] = s /\ \A v \in Workers \ {w} : worker'[v] = worker[v]
<1>1. worker'[w] = s /\ \A v \in Workers \ {w} : worker'[v] = worker[v]
  BY DEF Become, TypeOK
<1>2. \A v \in Workers : /\ InFlightAt(worker'[v]) <=> InFlightAt(worker[v])
                         /\ worker'[v].key = worker[v].key /\ worker'[v].job = worker[v].job
  BY <1>1
<1>3. \A k, v : v \in Workers =>
        (Holder(k, v)' <=> Holder(k, v)) /\ (Carrier(k, v)' <=> Carrier(k, v))
  BY <1>2 DEF Holder, Carrier, InFlightAt
<1>4. ASSUME NEW k \in Keys PROVE StartsAt(k)'
  <2>1. Held(k) => Held(k)'
    BY <1>3 DEF Held
  <2>2. faults' >= faults
    BY BookTypes
  <2> QED
    BY <2>1, <2>2, StartsKept DEF Accounted
<1>5. ASSUME NEW v \in Workers PROVE CopyAt(v)'
  BY <1>2, CopyKept DEF Accounted, SameOccurrence, SameCarriage
<1> QED
  BY <1>1, <1>3, <1>4, <1>5

LEMMA AcceptAccounted ==
  ASSUME TypeOK, TypeOK', Exclusive, Delivering, Accounted,
         NEW w \in Workers, NEW t \in Targets, Accept(w, t)
  PROVE  Accounted'
<1>0. PICK k \in Keys : k = worker[w].key
  BY BookTypes
<1> DEFINE s == [worker[w] EXCEPT !.taken = @ \cup {t}]
<1>1. /\ worker[w].pc = "send" /\ t \in worker[w].pending \ worker[w].taken
      /\ Become(w, s) /\ UNCHANGED <<docs, faults>>
  BY DEF Accept
<1>2. /\ s.pc = "send" /\ s.key = worker[w].key /\ s.job = worker[w].job
      /\ s.taken = worker[w].taken \cup {t}
  BY <1>1 DEF TypeOK, WorkerState
<1> HIDE DEF s
<1>3. InFlightAt(worker[w]) /\ InFlightAt(s)
  BY <1>1, <1>2 DEF InFlightAt, InFlight
<1>4. \A j \in Keys : /\ ledger'[j].starts = ledger[j].starts
                      /\ ledger'[j].excused = ledger[j].excused
                      /\ \A u \in Targets :
                           ledger'[j].accepted[u] =
                             IF Current(w) /\ j = k /\ u = t THEN ledger[j].accepted[u] + 1
                                                             ELSE ledger[j].accepted[u]
  BY <1>0, AcceptFields
<1>5. /\ \A j \in Keys : StartsAt(j)'
      /\ \A v \in Workers : CopyAt(v)'
      /\ \A j, v : v \in Workers => (Carrier(j, v)' <=> Carrier(j, v))
      /\ worker'[w] = s /\ \A v \in Workers \ {w} : worker'[v] = worker[v]
  BY <1>1, <1>2, <1>3, <1>4, SendBooks
<1>6. ASSUME NEW j \in Keys, NEW u \in Targets, OnRecord(j, u) PROVE OnRecord(j, u)'
  BY <1>1, <1>2, <1>5, <1>6 DEF OnRecord
<1>7. ASSUME Current(w) PROVE TakenAt(k, t)'
  <2>1. Carrier(k, w)
    BY <1>0, <1>3, <1>7 DEF Carrier, Current
  <2>2. t \notin docs[k].completed
    <3>1. docs[k].completed = worker[w].job.completed
      BY <1>0, <2>1 DEF Accounted, CopyAt
    <3>2. worker[w].pending \cap worker[w].job.completed = {}
      BY <1>1 DEF Delivering, DeliveryAt
    <3> QED
      BY <1>1, <3>1, <3>2
  <2>3. ~OnRecord(k, t)
    BY <1>1, <2>1, <2>2, OneCarrier DEF OnRecord
  <2>4. ledger[k].accepted[t] <= ledger[k].excused[t]
    BY <2>3 DEF Accounted, TakenAt
  <2>5. OnRecord(k, t)'
    BY <1>2, <1>5, <2>1 DEF OnRecord
  <2>6. ledger'[k].accepted[t] = ledger[k].accepted[t] + 1
    BY <1>4, <1>7
  <2>7. ledger[k].accepted[t] \in Nat /\ ledger[k].excused[t] \in Nat
    BY BookTypes
  <2> QED
    BY <1>4, <2>4, <2>5, <2>6, <2>7 DEF TakenAt
<1>8. ASSUME NEW j \in Keys, NEW u \in Targets, ~(Current(w) /\ j = k /\ u = t)
      PROVE  TakenAt(j, u)'
  <2>1. ledger'[j].accepted[u] = ledger[j].accepted[u]
    BY <1>4, <1>8
  <2>2. ledger'[j].excused[u] >= ledger[j].excused[u]
    BY <1>4, BookTypes
  <2> QED
    BY <1>6, <2>1, <2>2, TakenKept DEF Accounted
<1>9. \A j \in Keys, u \in Targets : TakenAt(j, u)'
  BY <1>7, <1>8
<1> QED
  BY <1>5, <1>9 DEF Accounted

\* Send returns: what it left unresolved although taken is excused.
LEMMA SendReturnsAccounted ==
  ASSUME TypeOK, TypeOK', Exclusive, Accounted, NEW w \in Workers,
         NEW unregistered, NEW perm, NEW unresolved,
         SendReturns(w, unregistered, perm, unresolved)
  PROVE  Accounted'
<1>0. PICK k \in Keys : k = worker[w].key
  BY BookTypes
<1> DEFINE u == [worker[w].updated EXCEPT
                   !.completed = Recorded(worker[w], unresolved),
                   !.invalid = @ \cup unregistered,
                   !.permanent = @ \/ perm # {}]
           retiring == [worker[w] EXCEPT !.pc = "retire", !.updated = u,
                          !.pending = unresolved, !.taken = @ \ unresolved]
           acking(c) == [Acknowledge(w, c) EXCEPT !.taken = @ \ unresolved]
           rest == worker[w].taken \ unresolved
<1>1. /\ worker[w].pc = "send" /\ Excuse(w, worker[w].taken \cap unresolved)
      /\ UNCHANGED <<docs, faults>> /\ worker[w] \in WorkerState
  BY DEF SendReturns, TypeOK
<1>2. Become(w, retiring) \/ \E c : Become(w, acking(c))
  BY DEF SendReturns
<1> HIDE DEF u
<1>3. /\ retiring.pc = "retire" /\ retiring.key = worker[w].key
      /\ retiring.job = worker[w].job /\ retiring.taken = rest
  BY <1>1 DEF WorkerState
<1>4. ASSUME NEW c
      PROVE  /\ acking(c).pc = "ack" /\ acking(c).key = worker[w].key
             /\ acking(c).job = worker[w].job /\ acking(c).taken = rest
  BY <1>1 DEF Acknowledge, WorkerState
<1> HIDE DEF retiring, acking
<1>5. PICK s : /\ Become(w, s) /\ s.pc \in {"retire", "ack"} /\ s.key = worker[w].key
               /\ s.job = worker[w].job /\ s.taken = rest
  BY <1>2, <1>3, <1>4
<1>6. InFlightAt(worker[w]) /\ InFlightAt(s)
  BY <1>1, <1>5 DEF InFlightAt, InFlight
<1>7. \A j \in Keys : /\ ledger'[j].starts = ledger[j].starts
                      /\ ledger'[j].accepted = ledger[j].accepted
                      /\ \A t \in Targets :
                           ledger'[j].excused[t] =
                             IF Current(w) /\ j = k /\ t \in worker[w].taken \cap unresolved
                               THEN ledger[j].excused[t] + 1 ELSE ledger[j].excused[t]
  BY <1>0, <1>1, ExcuseFields
<1>8. /\ \A j \in Keys : StartsAt(j)'
      /\ \A v \in Workers : CopyAt(v)'
      /\ \A j, v : v \in Workers => (Carrier(j, v)' <=> Carrier(j, v))
      /\ worker'[w] = s /\ \A v \in Workers \ {w} : worker'[v] = worker[v]
  BY <1>1, <1>5, <1>6, <1>7, SendBooks
<1>9. ASSUME NEW j \in Keys, NEW t \in Targets PROVE TakenAt(j, t)'
  <2>1. ledger[j].excused[t] \in Nat
    BY BookTypes
  <2>2. ledger'[j].excused[t] >= ledger[j].excused[t]
    BY <1>7, <2>1
  <2>3. ASSUME NEW v \in Workers, Carrier(j, v), t \in worker[v].taken
        PROVE  OnRecord(j, t)' \/ ledger'[j].excused[t] > ledger[j].excused[t]
    <3>1. CASE v = w /\ t \in unresolved
      <4>1. Current(w) /\ j = k
        BY <1>0, <2>3, <3>1 DEF Carrier, Current
      <4> QED
        BY <1>7, <2>1, <2>3, <3>1, <4>1
    <3>2. CASE v # w \/ t \notin unresolved
      <4>1. t \in worker'[v].taken
        BY <1>5, <1>8, <2>3, <3>2
      <4> QED
        BY <1>8, <2>3, <4>1 DEF OnRecord
    <3> QED
      BY <3>1, <3>2
  <2>4. t \in docs[j].completed => OnRecord(j, t)'
    BY <1>1 DEF OnRecord
  <2>5. OnRecord(j, t) => OnRecord(j, t)' \/ ledger'[j].excused[t] > ledger[j].excused[t]
    BY <2>3, <2>4 DEF OnRecord
  <2> QED
    BY <1>7, <2>2, <2>5, TakenKept DEF Accounted
<1> QED
  BY <1>8, <1>9 DEF Accounted

\* A worker that ends without storing excuses what it took; it held nothing, or a fault
\* accounts for the start.
LEMMA LeaveAccounted ==
  ASSUME TypeOK, TypeOK', Counted, Fencing, Accounted,
         NEW w \in Workers, FinishLost(w) \/ Abandon(w)
  PROVE  Accounted'
<1>0. PICK k \in Keys : k = worker[w].key
  BY BookTypes
<1>1. UNCHANGED docs /\ Excuse(w, worker[w].taken)
  BY DEF FinishLost, Abandon
<1>2. worker'[w].pc \in {"idle", "loop"} /\ \A v \in Workers \ {w} : worker'[v] = worker[v]
  BY LeavesFlight
<1>3. ~InFlightAt(worker'[w])
  BY <1>2 DEF InFlightAt, InFlight
<1>4. faults' > faults \/ (~LeaseHeld(w) /\ worker[w].pc = "ack" /\ faults' = faults)
  BY BookTypes DEF FinishLost, Abandon
<1>5. \A j \in Keys : /\ ledger'[j].starts = ledger[j].starts
                      /\ ledger'[j].accepted = ledger[j].accepted
                      /\ \A t \in Targets :
                           ledger'[j].excused[t] =
                             IF Current(w) /\ j = k /\ t \in worker[w].taken
                               THEN ledger[j].excused[t] + 1 ELSE ledger[j].excused[t]
  BY <1>0, <1>1, ExcuseFields
<1>6. ASSUME NEW j \in Keys PROVE StartsAt(j)'
  <2>1. ASSUME NEW v \in Workers, Holder(j, v), docs[j].state = "ready"
        PROVE  Held(j)' \/ faults' > faults
    <3>1. CASE v = w
      <4>1. worker[w].pc = "ack" => LeaseHeld(w)
        <5>1. worker[w].key = j /\ docs[j].leaseToken = worker[w].job.leaseToken
          BY <2>1, <3>1 DEF Holder
        <5>2. CASE worker[w].job.leaseToken # NoLease
          BY <2>1, <5>1, <5>2 DEF LeaseHeld
        <5>3. CASE worker[w].job.leaseToken = NoLease
          BY <2>1, <3>1, <5>3 DEF Holder, Fencing, FencedAt
        <5> QED
          BY <5>2, <5>3
      <4> QED
        BY <1>4, <4>1
    <3>2. CASE v # w
      BY <1>1, <1>2, <2>1, <3>2 DEF Held, Holder, InFlightAt
    <3> QED
      BY <3>1, <3>2
  <2>2. Held(j) /\ docs[j].state = "ready" => Held(j)' \/ faults' > faults
    BY <2>1 DEF Held
  <2>3. faults' >= faults /\ docs'[j] = docs[j]
    BY <1>1, <1>4, BookTypes DEF TypeOK
  <2> QED
    BY <1>5, <2>2, <2>3, StartsKept DEF Accounted
<1>7. ASSUME NEW j \in Keys, NEW t \in Targets PROVE TakenAt(j, t)'
  <2>1. ledger[j].excused[t] \in Nat
    BY BookTypes
  <2>2. ledger'[j].excused[t] >= ledger[j].excused[t]
    BY <1>5, <2>1
  <2>3. ASSUME NEW v \in Workers, Carrier(j, v), t \in worker[v].taken
        PROVE  OnRecord(j, t)' \/ ledger'[j].excused[t] > ledger[j].excused[t]
    <3>1. CASE v = w
      <4>1. Current(w) /\ j = k
        BY <1>0, <2>3, <3>1 DEF Carrier, Current
      <4> QED
        BY <1>5, <2>1, <2>3, <3>1, <4>1
    <3>2. CASE v # w
      BY <1>1, <1>2, <2>3, <3>2 DEF OnRecord, Carrier, InFlightAt
    <3> QED
      BY <3>1, <3>2
  <2>4. OnRecord(j, t) => OnRecord(j, t)' \/ ledger'[j].excused[t] > ledger[j].excused[t]
    BY <1>1, <2>3 DEF OnRecord
  <2> QED
    BY <1>5, <2>2, <2>4, TakenKept DEF Accounted
<1>8. ASSUME NEW v \in Workers PROVE CopyAt(v)'
  BY <1>1, <1>2, <1>3, CopyKept DEF Accounted, SameOccurrence, SameCarriage
<1> QED
  BY <1>6, <1>7, <1>8 DEF Accounted

\* The holder stores its outcome: the attempt is counted and what it took is on record,
\* or the occurrence is over and its books are closed.
LEMMA FinishAccounted ==
  ASSUME TypeOK, TypeOK', Counted, Fencing, Exclusive, Delivering, Accounted,
         NEW w \in Workers, Finish(w) \/ FinishUnknown(w)
  PROVE  Accounted'
<1>0. PICK k \in Keys, d \in Job : k = worker[w].key /\ d = worker[w].updated
  BY DEF TypeOK, WorkerState
<1>1. CommitFinish(w) /\ faults' >= faults
  BY BookTypes DEF Finish, FinishUnknown
<1>2. /\ worker[w].pc = "ack" /\ docs' = [docs EXCEPT ![k] = d]
      /\ ledger' = IF d.dueAt # docs[k].dueAt THEN [ledger EXCEPT ![k] = NoHistory] ELSE ledger
  BY <1>0, <1>1 DEF CommitFinish
<1>3. docs[k] = worker[w].job /\ docs[k].state = "ready" /\ Outcome(docs[k], d)
  BY <1>0, <1>1, CommitFinishFacts
<1>4. /\ CountsAttempt(docs[k], d)
      /\ d.dueAt = docs[k].dueAt => worker[w].taken \subseteq d.completed
  BY <1>0, <1>2, <1>3 DEF Delivering, DeliveryAt
<1>5. worker'[w].pc \in {"idle", "loop"} /\ \A v \in Workers \ {w} : worker'[v] = worker[v]
  BY LeavesFlight
<1>6. ~InFlightAt(worker'[w]) /\ InFlightAt(worker[w])
  BY <1>2, <1>5 DEF InFlightAt, InFlight
<1>7. docs'[k] = d /\ \A j \in Keys \ {k} : docs'[j] = docs[j] /\ ledger'[j] = ledger[j]
  BY <1>2 DEF TypeOK
<1>8. Carrier(k, w)
  BY <1>0, <1>3, <1>6 DEF Carrier
<1>9. /\ faults \in Nat /\ faults' \in Nat /\ MaxAttempts \in Nat \ {0}
      /\ ledger[k].starts \in Nat /\ docs[k].attempts \in Nat
  BY BookTypes DEF TypeOK
<1>10. /\ NoHistory.starts = 0
       /\ \A t \in Targets : NoHistory.accepted[t] = 0 /\ NoHistory.excused[t] = 0
  BY DEF NoHistory
<1>11. ASSUME d.dueAt # docs[k].dueAt
       PROVE  StartsAt(k)' /\ \A t \in Targets : TakenAt(k, t)'
  <2>1. ledger'[k] = NoHistory
    BY <1>2, <1>11 DEF TypeOK
  <2>2. d.state = "ready" => d.attempts = 0
    BY <1>4, <1>11 DEF CountsAttempt
  <2>3. StartsAt(k)'
    BY <1>7, <1>9, <1>10, <2>1, <2>2 DEF StartsAt
  <2>4. \A t \in Targets : TakenAt(k, t)'
    BY <1>10, <2>1 DEF TakenAt
  <2> QED
    BY <2>3, <2>4
<1>12. ASSUME d.dueAt = docs[k].dueAt
       PROVE  StartsAt(k)' /\ \A t \in Targets : TakenAt(k, t)'
  <2>1. ledger' = ledger
    BY <1>2, <1>12
  <2>2. d.state = "ready" => d.attempts = docs[k].attempts + 1 /\ d.attempts < MaxAttempts
    BY <1>4, <1>12 DEF CountsAttempt
  <2>3. /\ ledger[k].starts <= docs[k].attempts + faults + 1
        /\ ledger[k].starts <= MaxAttempts + faults
    BY <1>3 DEF Accounted, StartsAt
  <2>4. StartsAt(k)'
    BY <1>1, <1>7, <1>9, <2>1, <2>2, <2>3 DEF StartsAt
  <2>5. ASSUME NEW t \in Targets PROVE TakenAt(k, t)'
    <3>1. docs[k].completed \subseteq d.completed
      BY <1>3, <1>12, <1>9 DEF Outcome, Job
    <3>2. OnRecord(k, t) => t \in d.completed
      BY <1>4, <1>8, <1>12, <3>1, OneCarrier DEF OnRecord
    <3>3. OnRecord(k, t) => OnRecord(k, t)'
      BY <1>7, <3>2 DEF OnRecord
    <3>4. ledger'[k].excused[t] >= ledger[k].excused[t]
      BY <2>1, BookTypes
    <3> QED
      BY <2>1, <3>3, <3>4, TakenKept DEF Accounted
  <2> QED
    BY <2>4, <2>5
<1>13. ASSUME NEW j \in Keys \ {k}, NEW v \in Workers
       PROVE  (Holder(j, v)' <=> Holder(j, v)) /\ (Carrier(j, v)' <=> Carrier(j, v))
  BY <1>0, <1>5, <1>6, <1>7, <1>13 DEF Holder, Carrier, InFlightAt
<1>14. ASSUME NEW j \in Keys \ {k} PROVE StartsAt(j)' /\ \A t \in Targets : TakenAt(j, t)'
  <2>1. Held(j) => Held(j)'
    BY <1>13 DEF Held
  <2>2. StartsAt(j)'
    BY <1>1, <1>7, <2>1, StartsKept DEF Accounted
  <2>3. ASSUME NEW t \in Targets PROVE TakenAt(j, t)'
    <3>1. OnRecord(j, t) => OnRecord(j, t)'
      BY <1>0, <1>5, <1>7, <1>13 DEF OnRecord, Carrier
    <3>2. ledger'[j].excused[t] >= ledger[j].excused[t]
      BY <1>7, BookTypes
    <3> QED
      BY <1>7, <3>1, <3>2, TakenKept DEF Accounted
  <2> QED
    BY <2>2, <2>3
<1>15. ASSUME NEW v \in Workers PROVE CopyAt(v)'
  <2>1. CASE v = w
    BY <1>6, <2>1 DEF CopyAt, Carrier, InFlightAt
  <2>2. CASE v # w /\ worker[v].key # k
    BY <1>5, <1>7, <2>2, BookTypes, CopyKept DEF Accounted, SameOccurrence, SameCarriage
  <2>3. CASE v # w /\ worker[v].key = k
    <3>1. InFlightAt(worker[v]) => worker[v].job.gen # docs[k].gen
      BY <1>0, <1>3, <1>6, <2>3 DEF Exclusive, NoOverlap, InFlightAt
    <3>2. d.gen = docs[k].gen
      BY <1>3 DEF Outcome
    <3> QED
      BY <1>5, <1>7, <2>3, <3>1, <3>2 DEF CopyAt, Carrier, InFlightAt
  <2> QED
    BY <2>1, <2>2, <2>3
<1> QED
  BY <1>11, <1>12, <1>14, <1>15 DEF Accounted

LEMMA AccountedStep ==
  ASSUME TypeOK, TypeOK', Counted, Fencing, Exclusive, Delivering, Accounted, [Next]_vars
  PROVE  Accounted'
<1>1. ASSUME NEW k \in Keys, PutOneOff(k) \/ PutDaily(k) \/ Cancel(k)
      PROVE  Accounted'
  BY <1>1, PutAccounted, CancelAccounted
<1>2. ASSUME NEW w \in Workers, Send(w) PROVE Accounted'
  BY <1>2, AcceptAccounted, SendReturnsAccounted DEF Send
<1>3. ASSUME NEW w \in Workers, WorkerStep(w) \/ Fault(w) PROVE Accounted'
  BY <1>2, <1>3, PollAccounted, ClaimAccounted, LookupAccounted, FinishAccounted,
     LeaveAccounted
  DEF WorkerStep, Fault
<1>4. ASSUME UNCHANGED <<docs, worker, ledger, faults>> PROVE Accounted'
  <2>1. faults' >= faults
    BY <1>4, BookTypes
  <2> QED
    BY <1>4, <2>1, AccountsQuiet DEF SameCarriage
<1>5. ChangeDevices \/ Advance \/ UNCHANGED vars => UNCHANGED <<docs, worker, ledger, faults>>
  BY DEF ChangeDevices, Advance, vars
<1> QED
  BY <1>1, <1>3, <1>4, <1>5 DEF Next

LEMMA AccountedHolds ==
  ASSUME BudgetsFit PROVE Spec => []Accounted
<1>1. Init => Accounted
  <2> SUFFICES ASSUME Init PROVE Accounted
    OBVIOUS
  <2>1. /\ \A k \in Keys : /\ docs[k] = NoDoc /\ ledger[k] = NoHistory
        /\ \A w \in Workers : worker[w].pc = "idle" /\ faults = 0
    BY DEF Init, Idle
  <2>2. \A w \in Workers : ~InFlightAt(worker[w])
    BY <2>1 DEF InFlightAt, InFlight
  <2>3. /\ NoHistory.starts = 0 /\ NoDoc.attempts = 0
        /\ \A t \in Targets : NoHistory.accepted[t] = 0 /\ NoHistory.excused[t] = 0
    BY DEF NoHistory, NoDoc
  <2>4. faults = 0 /\ MaxAttempts \in Nat \ {0}
    BY ScheduleAssumption DEF Init
  <2> QED
    BY <2>1, <2>2, <2>3, <2>4 DEF Accounted, StartsAt, TakenAt, CopyAt, Carrier
<1>2. /\ TypeOK /\ TypeOK' /\ Counted /\ Fencing /\ Exclusive /\ Delivering /\ Accounted
      /\ [Next]_vars
      => Accounted'
  BY AccountedStep
<1> QED
  BY <1>1, <1>2, FencingHolds, ExclusiveHolds, DeliveringHolds, PTL DEF Spec

\* "Up to five worker attempts" (Worker.retry against MaxAttempts): when the budgets fit
\* into the lease, an occurrence is claimed MaxAttempts times at most, and once more for
\* each crash or lost answer; and a job that is still to be claimed has an attempt left.
THEOREM StartsBoundedHolds ==
  ASSUME BudgetsFit PROVE Spec => []StartsBounded
<1>1. Accounted => StartsBounded
  BY DEF Accounted, StartsAt, StartsBounded
<1> QED
  BY <1>1, AccountedHolds, PTL

\* "Successful targets persisted for an occurrence are excluded from later attempts"
\* (deliver's Completed): when the budgets fit into the lease, the provider takes a message
\* for a target again only after an acceptance that could not be recorded.
THEOREM AtMostOnceRecordedHolds ==
  ASSUME BudgetsFit PROVE Spec => []AtMostOnceRecorded
<1>1. Accounted => AtMostOnceRecorded
  BY DEF Accounted, TakenAt, AtMostOnceRecorded
<1> QED
  BY <1>1, AccountedHolds, PTL

==============================================================================
