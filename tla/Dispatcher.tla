----------------------------- MODULE Dispatcher -----------------------------
(***************************************************************************)
(* One call of Dispatcher.Send (push/dispatcher.go): the targets are       *)
(* deduplicated and cut into batches, a bounded pool of goroutines takes   *)
(* batches from a channel, and sendBatch calls the provider up to          *)
(* maxAttempts times for the targets that are still unresolved, while the  *)
(* context of the call may end.                                            *)
(*                                                                         *)
(* A target stands for its key, the type and address.  The provider is     *)
(* assumed to return at most one result per target, as push/fcm/sender.go  *)
(* does: one code, or none when the whole call failed or the adapter       *)
(* omitted it.  BatchSender does not ask for that, so nothing is said here *)
(* of other implementations of it.                                         *)
(***************************************************************************)
EXTENDS Integers, Sequences, FiniteSets

CONSTANTS
  Targets,        \* addresses
  Malformed,      \* those that validateTarget refuses
  Inputs,         \* lists a caller may pass
  MaxBatchTargets,
  concurrency,    \* what the caller of NewDispatcher asks for
  MaxBatchConcurrency,
  maxAttempts

ASSUME SizeAssumption ==
  /\ Inputs \subseteq Seq(Targets)
  /\ Malformed \subseteq Targets
  /\ MaxBatchTargets \in Nat \ {0}
  /\ MaxBatchConcurrency \in Nat \ {0}
  /\ concurrency \in Int
  /\ maxAttempts \in Nat \ {0}

VARIABLES
  input,      \* the caller's list
  batch,      \* index -> state of its sendBatch
  worker,     \* goroutine -> index of its batch, 0 while it is at the channel
  next,       \* the first batch still in the channel
  canceled,   \* the context has ended
  result,     \* what Send returns; [] before
  sent,       \* history: provider calls that contained the target
  accepted    \* history: provider answers that said ok

vars == <<input, batch, worker, next, canceled, result, sent, accepted>>

------------------------------------------------------------------------------
(* Codes, waits, batches *)

Codes == {"ok", "unregistered", "transient", "rate_limited", "permanent", "unknown"}
Open == "open"    \* no final result yet

Retryable(code) == code \in {"transient", "rate_limited"}

Unresolved(code) == code \in {"transient", "rate_limited", "unknown"}

\* retryBackoff in seconds; faulty: one base for both codes.
OneBase(code, attempt) == 2 ^ (IF attempt > 2 THEN 2 ELSE attempt - 1)
RetryBackoff(code, attempt) ==
  (IF code = "rate_limited" THEN 60 ELSE 1) * 2 ^ (IF attempt > 2 THEN 2 ELSE attempt - 1)

\* The delay after jitter, which adds at most a tenth.
Delays(base) == {base, base + base \div 10}

\* The elements of a list at some positions, in order.
Sublist(list, at) ==
  [n \in 1 .. Cardinality(at) |->
     list[CHOOSE i \in at : Cardinality({j \in at : j <= i}) = n]]

\* deduplicateTargets: a malformed target refuses the list; of the others the first
\* occurrences stay, in order.
Refused(list) == \E i \in DOMAIN list : list[i] \in Malformed
Firsts(list) == {i \in DOMAIN list : \A j \in 1 .. i - 1 : list[j] # list[i]}
Unique(list) == Sublist(list, IF Refused(list) THEN {} ELSE Firsts(list))

\* chunkTargets: how many batches, and the targets of one.
BatchCount(list) == (Len(list) + MaxBatchTargets - 1) \div MaxBatchTargets
Chunk(list, b) ==
  {list[i] : i \in {j \in DOMAIN list : (j - 1) \div MaxBatchTargets = b - 1}}

\* newDispatcherWithRetry and Send: at most MaxBatchConcurrency goroutines, and not
\* more than batches.
PoolSize(list) ==
  LET wanted == IF concurrency <= 0 THEN 1 ELSE concurrency
      capped == IF wanted > MaxBatchConcurrency THEN MaxBatchConcurrency ELSE wanted
  IN  IF capped > BatchCount(list) THEN BatchCount(list) ELSE capped

------------------------------------------------------------------------------
\* A sendBatch: final is finalResults; delay and code, which is retryCodeByKey, are of the
\* current attempt.
NoCodes(targets) == [t \in targets |-> Open]
Queued(targets) ==
  [pc |-> "queued", attempt |-> 0, pending |-> targets, delay |-> 0,
   final |-> NoCodes(targets), code |-> NoCodes(targets)]

Asked == {input[i] : i \in DOMAIN input}
Batches == DOMAIN batch

Init ==
  /\ input \in Inputs
  /\ batch = [b \in 1 .. BatchCount(Unique(input)) |-> Queued(Chunk(Unique(input), b))]
  /\ worker = [w \in 1 .. PoolSize(Unique(input)) |-> 0]
  /\ next = 1
  /\ canceled = FALSE
  /\ result = [done |-> FALSE, failed |-> FALSE]
  /\ sent = [t \in Targets |-> 0]
  /\ accepted = [t \in Targets |-> 0]

\* The provider is called with the pending targets of b.
Call(b, from) ==
  /\ batch' = [batch EXCEPT ![b] =
                 [from EXCEPT !.pc = "call", !.attempt = @ + 1, !.delay = 0,
                              !.code = NoCodes(DOMAIN @)]]
  /\ sent' = [t \in Targets |-> IF t \in from.pending THEN sent[t] + 1 ELSE sent[t]]

\* A goroutine receives the next batch from the channel.
Take(w) ==
  /\ worker[w] = 0
  /\ next \in Batches
  /\ worker' = [worker EXCEPT ![w] = next]
  /\ next' = next + 1
  /\ Call(next, batch[next])
  /\ UNCHANGED <<input, canceled, result, accepted>>

\* What a target without a result counts as: the class of the batch error, or
\* transient when the adapter just omitted it.
MissingCode(batchError) == IF batchError = "ok" THEN "transient" ELSE batchError

\* The targets to try again; faulty: one attempt more, and the whole batch when one
\* target failed.
RetryOnceMore(s, code) ==
  {t \in s.pending : Retryable(code[t]) /\ s.attempt <= maxAttempts}
RetryWhole(s, code) ==
  IF \E t \in s.pending : Retryable(code[t]) /\ s.attempt < maxAttempts
    THEN s.pending ELSE {}
RetryTargets(s, code) ==
  {t \in s.pending : Retryable(code[t]) /\ s.attempt < maxAttempts}

Calling(w) == worker[w] # 0 /\ batch[worker[w]].pc = "call"

\* SendBatch returns: results for some of the pending targets, and an error or "ok".
Respond(w, answered, results, batchError) ==
  LET b == worker[w]
      s == batch[b]
      code == [t \in s.pending |->
                 IF t \in answered THEN results[t] ELSE MissingCode(batchError)]
      retry == RetryTargets(s, code)
      slowest == IF \E t \in retry : code[t] = "rate_limited" THEN "rate_limited"
                 ELSE "transient"
      settled == [s EXCEPT
                    !.pending = retry,
                    !.code = [t \in DOMAIN @ |-> IF t \in retry THEN code[t] ELSE Open],
                    !.final = [t \in DOMAIN @ |-> IF t \in s.pending \ retry
                                                    THEN code[t] ELSE @[t]]]
  IN  /\ \E delay \in Delays(RetryBackoff(slowest, s.attempt)) :
           batch' = [batch EXCEPT ![b] =
                       IF retry = {}
                         THEN [settled EXCEPT !.pc = "done", !.delay = 0]
                         ELSE [settled EXCEPT !.pc = "wait", !.delay = delay]]
      /\ accepted' = [t \in Targets |->
                        IF t \in answered /\ results[t] = "ok" THEN accepted[t] + 1
                        ELSE accepted[t]]
      /\ UNCHANGED <<input, worker, next, canceled, result, sent>>

\* A BatchSender with at most one result per target, which may omit some, and may fail
\* with a part of the results; an error next to a full set of results is ignored.
ProviderReturns(w) ==
  /\ Calling(w)
  /\ \E answered \in SUBSET batch[worker[w]].pending :
       \E results \in [answered -> Codes],
          batchError \in IF answered = batch[worker[w]].pending THEN {"ok"} ELSE Codes :
         Respond(w, answered, results, batchError)

\* The retry timer fires, even if the context has ended at the same time.
TimerFires(w) ==
  /\ worker[w] # 0
  /\ batch[worker[w]].pc = "wait"
  /\ Call(worker[w], batch[worker[w]])
  /\ UNCHANGED <<input, worker, next, canceled, result, accepted>>

\* The wait ends with the context: what is pending keeps the code it has.
KeepWaiting(s) == [t \in DOMAIN s.final |-> IF t \in s.pending THEN s.code[t] ELSE s.final[t]]

\* A canceled sendBatch returns to its goroutine, which reports the outcome; faulty:
\* the goroutine ends with the context.
GoroutineEnds == "ended"
SendBatchReturns == "done"

WaitCanceled(w) ==
  /\ canceled
  /\ worker[w] # 0
  /\ batch[worker[w]].pc = "wait"
  /\ batch' = [batch EXCEPT ![worker[w]] =
                 [batch[worker[w]] EXCEPT
                    !.pc = SendBatchReturns, !.pending = {}, !.delay = 0,
                    !.code = NoCodes(DOMAIN @), !.final = KeepWaiting(batch[worker[w]])]]
  /\ UNCHANGED <<input, worker, next, canceled, result, sent, accepted>>

\* The outcome goes into its buffered channel, and the goroutine asks for more.
Deliver(w) ==
  /\ worker[w] # 0
  /\ batch[worker[w]].pc = "done"
  /\ worker' = [worker EXCEPT ![w] = 0]
  /\ UNCHANGED <<input, batch, next, canceled, result, sent, accepted>>

Delivered(b) == batch[b].pc = "done" /\ \A w \in DOMAIN worker : worker[w] # b

\* sendBatch fails if a target is unresolved, and Send if a sendBatch does; faulty:
\* the error of the last batch is the error of Send.
BatchFailed(b) == \E t \in DOMAIN batch[b].final : Unresolved(batch[b].final[t])
LastFailed == Batches # {} /\ BatchFailed(Len(batch))
AnyFailed == \E b \in Batches : BatchFailed(b)

\* Send returns when it has one outcome per batch, or at once when the list is refused.

Return ==
  /\ ~result.done
  /\ \A b \in Batches : Delivered(b)
  /\ result' = [done |-> TRUE, failed |-> Refused(input) \/ AnyFailed]
  /\ UNCHANGED <<input, batch, worker, next, canceled, sent, accepted>>

ContextEnds ==
  /\ ~canceled
  /\ ~result.done
  /\ canceled' = TRUE
  /\ UNCHANGED <<input, batch, worker, next, result, sent, accepted>>

WorkerStep(w) ==
  Take(w) \/ ProviderReturns(w) \/ TimerFires(w) \/ WaitCanceled(w) \/ Deliver(w)

Next ==
  \/ \E w \in DOMAIN worker : WorkerStep(w)
  \/ Return
  \/ ContextEnds

Spec == Init /\ [][Next]_vars

\* Goroutines run, the provider answers, timers fire.
Fairness ==
  /\ \A w \in 1 .. MaxBatchConcurrency : WF_vars(w \in DOMAIN worker /\ WorkerStep(w))
  /\ WF_vars(Return)
FairSpec == Spec /\ Fairness

------------------------------------------------------------------------------
(* Properties *)

\* Every variable keeps its type, and attempts their limit.
TypeOK ==
  /\ input \in Seq(Targets)
  /\ \A b \in Batches :
       /\ batch[b].pc \in {"queued", "call", "wait", "done"}
       /\ batch[b].attempt \in 0 .. maxAttempts
       /\ batch[b].pending \subseteq DOMAIN batch[b].final
       /\ \A t \in DOMAIN batch[b].final : batch[b].final[t] \in Codes \cup {Open}
  /\ \A w \in DOMAIN worker : worker[w] \in {0} \cup Batches
  /\ next \in 1 .. Len(batch) + 1
  /\ canceled \in BOOLEAN
  /\ sent \in [Targets -> Nat]
  /\ accepted \in [Targets -> Nat]

\* What the caller is told of a target that it asked for.
Verdict(t) ==
  LET code == IF Refused(input) THEN Open
              ELSE batch[CHOOSE b \in Batches : t \in DOMAIN batch[b].final].final[t]
  IN  IF code \in {Open, "ok", "unregistered", "permanent"} THEN code ELSE "unresolved"

Contract ==
  INSTANCE SendContract WITH verdict <- [t \in Asked |-> Verdict(t)],
                             returned <- result.done,
                             failed <- result.failed

\* Batches, the pool, retries and cancellation implement the promise of Send: each
\* address is settled once, Send returns with all of them settled, and its error says
\* truthfully whether one of them needs another try, in whatever order the batches end.
ContractKept == Contract!Spec

\* A target the provider has accepted never enters another provider call of the same
\* Send, and no target enters more than maxAttempts calls ("a successful target ...
\* can never re-enter pending during this invocation", sendBatch), whatever part of the
\* results comes back.  It takes the assumption that no target has two results: with a
\* success and a retryable failure in one list the sentence fails.
AcceptedOnce ==
  \A t \in Targets : accepted[t] <= 1 /\ sent[t] <= maxAttempts

\* "Quota retries wait at least 60 seconds" (docs/architecture.md): also when another
\* target of the batch only had a transient failure.
QuotaFloor ==
  \A b \in Batches :
    batch[b].pc = "wait" /\ (\E t \in batch[b].pending : batch[b].code[t] = "rate_limited")
      => batch[b].delay >= 60

\* Send returns, with any number of batches, failures and cancellations: no goroutine
\* and no channel is left waiting.
Returns == <>result.done

==============================================================================
