-------------------------- MODULE FirebaseProvider --------------------------
(***************************************************************************)
(* The iOS adapter of Firebase Messaging                                   *)
(* (FirebaseMessagingNotificationProvider.swift): calls that register and  *)
(* wait for an installation ID, and the callbacks, timeouts and            *)
(* cancellations that end the wait.                                        *)
(*                                                                         *)
(* Everything runs on the main actor, one job at a time; what comes from   *)
(* elsewhere (delegate callbacks, completions, a finished sleep, onCancel) *)
(* is a job in the actor's queue, inbox, and acts only when it is its      *)
(* turn.  The Firebase SDK is external: it registers, unregisters, or says *)
(* nothing, and refreshes the ID by itself while auto-init is on.          *)
(***************************************************************************)
EXTENDS Naturals, Sequences

CONSTANTS
  Calls,         \* calls of startRegistrationAndWaitForTarget
  Targets,       \* installation IDs
  NoTarget,
  MaxEvents      \* bound of the model: suspensions, refreshes, failures of APNs

ASSUME TargetAssumption == NoTarget \notin Targets
ASSUME BoundAssumption == MaxEvents \in Nat

VARIABLES
  currentTarget,
  pending,      \* calls whose continuation is stored
  timer,        \* Calls -> its timeoutTask
  call,         \* Calls -> where it is
  resumed,      \* Calls -> how often its continuation was resumed
  canceled,     \* calls whose task is canceled
  inbox,        \* jobs of the main actor
  sdk,          \* auto: isAutoInitEnabled; target: what is registered
  suspending,   \* calls of suspendRegistration, by number, that the SDK has to answer
  quiet,        \* history: those made since a registration was last asked for
  held,         \* history: the ones of quiet that have returned
  crossed,      \* history: the ones of quiet after whose unregistration the SDK completed
                \* a registration asked for before
  told,         \* history: the ID the delegate was told of last, unless it was told
                \* that the ID is unregistered
  failed,       \* history: APNs failed, and the delegate was told of no ID since
  events        \* number of suspensions, refreshes and failures so far

waiting == <<pending, timer, call, resumed>>
quarantine == <<quiet, held, crossed>>
vars == <<currentTarget, waiting, canceled, inbox, sdk, suspending, quarantine, told, failed,
          events>>

------------------------------------------------------------------------------
Init ==
  /\ currentTarget = NoTarget
  /\ pending = {}
  /\ timer = [c \in Calls |-> "off"]
  /\ call = [c \in Calls |-> "idle"]
  /\ resumed = [c \in Calls |-> 0]
  /\ canceled = {}
  /\ inbox = <<>>
  /\ sdk = [auto |-> FALSE, target |-> NoTarget]
  /\ suspending = {} /\ quiet = {} /\ held = {} /\ crossed = {}
  /\ told = NoTarget
  /\ failed = FALSE
  /\ events = 0

Event == events < MaxEvents /\ events' = events + 1
Job(kind, arg) == [kind |-> kind, arg |-> arg]
CallbackOf(target) == IF target = NoTarget THEN <<>> ELSE <<Job("unregistered", target)>>

Told(target) == told' = target /\ failed' = FALSE

\* Continuations of the calls are resumed; a timeoutTask that still sleeps is canceled,
\* one that has woken has its job in the queue already.
Resume(calls, outcome) ==
  /\ resumed' = [c \in Calls |-> IF c \in calls THEN resumed[c] + 1 ELSE resumed[c]]
  /\ call' = [c \in Calls |-> IF c \in calls THEN outcome ELSE call[c]]
  /\ timer' = [c \in Calls |-> IF c \in calls /\ timer[c] = "sleeping" THEN "off"
                               ELSE timer[c]]

\* resolve and failAll: the waiters are copied, then the table is emptied; faulty: the
\* other way round.
EmptyFirst(outcome) == pending' = {} /\ UNCHANGED <<timer, call, resumed>>
ResumeAll(outcome) == pending' = {} /\ Resume(pending, outcome)

\* fail: only the one who takes the waiter out of the table resumes it; faulty:
\* everyone does.
FailAlways(c, outcome) == pending' = pending \ {c} /\ Resume({c}, outcome)
Fail(c, outcome) ==
  IF c \in pending
    THEN pending' = pending \ {c} /\ Resume({c}, outcome)
    ELSE UNCHANGED waiting

------------------------------------------------------------------------------
(* startRegistrationAndWaitForTarget *)

\* startRegistration, up to the answer of the SDK.
Start(c) ==
  /\ call[c] = "idle"
  /\ call' = [call EXCEPT ![c] = "register"]
  /\ sdk' = [sdk EXCEPT !.auto = TRUE]
  /\ quiet' = {} /\ held' = {} /\ crossed' = {}
  /\ UNCHANGED <<currentTarget, pending, timer, resumed, canceled, inbox, suspending, told,
                 failed, events>>

\* The SDK keeps its registration or makes one.  Its delegate callback comes before or
\* after the completion, or not at all.
SdkRegisters(c) ==
  /\ call[c] = "register"
  /\ call' = [call EXCEPT ![c] = "registered"]
  /\ \/ \E target \in IF sdk.target = NoTarget THEN Targets ELSE {sdk.target} :
          LET callback == <<Job("registered", target)>>
              completion == <<Job("completed", c)>>
          IN  /\ sdk' = [sdk EXCEPT !.target = target]
              /\ crossed' = crossed \cup (quiet \ suspending)
              /\ \/ inbox' \in {inbox \o callback \o completion,
                                inbox \o completion \o callback} /\ Told(target)
                 \/ inbox' = inbox \o completion /\ UNCHANGED <<told, failed>>
     \/ inbox' = Append(inbox, Job("refused", c)) /\ UNCHANGED <<sdk, crossed, told, failed>>
  /\ UNCHANGED <<currentTarget, pending, timer, resumed, canceled, suspending, quiet, held,
                 events>>

\* The completion: the call returns the target it finds, or stores a continuation and
\* starts its timeout.  onCancel runs at once for a task that is canceled already.
Completed(c) ==
  IF currentTarget # NoTarget
    THEN /\ call' = [call EXCEPT ![c] = "returned"]
         /\ UNCHANGED <<pending, timer, resumed>>
         /\ inbox' = Tail(inbox)
    ELSE /\ call' = [call EXCEPT ![c] = "wait"]
         /\ pending' = pending \cup {c}
         /\ timer' = [timer EXCEPT ![c] = "sleeping"]
         /\ UNCHANGED resumed
         /\ inbox' = Tail(inbox) \o (IF c \in canceled THEN <<Job("cancel", c)>> ELSE <<>>)

\* Task.sleep returns; its task goes on when the main actor gets to it.
TimerFires(c) ==
  /\ timer[c] = "sleeping"
  /\ timer' = [timer EXCEPT ![c] = "fired"]
  /\ inbox' = Append(inbox, Job("timeout", c))
  /\ UNCHANGED <<currentTarget, pending, call, resumed, canceled, sdk, suspending, quarantine,
                 told, failed, events>>

Cancel(c) ==
  /\ call[c] \in {"register", "registered", "wait"}
  /\ c \notin canceled
  /\ canceled' = canceled \cup {c}
  /\ inbox' = IF call[c] = "wait" THEN Append(inbox, Job("cancel", c)) ELSE inbox
  /\ UNCHANGED <<currentTarget, waiting, sdk, suspending, quarantine, told, failed, events>>

------------------------------------------------------------------------------
(* suspendRegistration and the delegate *)

\* isAutoInitEnabled while the registration is suspended; faulty: it is left as it was.
AutoAsBefore == sdk.auto
AutoOff == FALSE

\* Up to the answer of the SDK; other calls go on, and may suspend as well.
Suspend ==
  /\ Event
  /\ suspending' = suspending \cup {events'}
  /\ quiet' = quiet \cup {events'}
  /\ sdk' = [sdk EXCEPT !.auto = AutoOff]
  /\ UNCHANGED <<currentTarget, waiting, canceled, inbox, held, crossed, told, failed>>

SdkUnregisters(n) ==
  /\ suspending' = suspending \ {n}
  /\ \/ /\ inbox' = inbox \o CallbackOf(sdk.target) \o <<Job("suspended", n)>>
        /\ sdk' = [sdk EXCEPT !.target = NoTarget]
        /\ told' = NoTarget
     \/ inbox' = Append(inbox, Job("notSuspended", n)) /\ UNCHANGED <<sdk, told>>
  /\ UNCHANGED <<currentTarget, waiting, canceled, quarantine, failed, events>>

\* The SDK replaces the ID by itself, and reports the old and the new one.
Refresh ==
  /\ sdk.auto
  /\ Event
  /\ \E target \in Targets \ {sdk.target} :
       LET callback == <<Job("registered", target)>>
       IN  /\ sdk' = [sdk EXCEPT !.target = target]
           /\ \/ inbox' = inbox \o CallbackOf(sdk.target) \o callback
              \/ inbox' = inbox \o callback \o CallbackOf(sdk.target)
           /\ Told(target)
  /\ UNCHANGED <<currentTarget, waiting, canceled, suspending, quarantine>>

\* didFailToRegisterForRemoteNotifications, called on the main actor.
DidFailToRegister ==
  /\ Event
  /\ currentTarget' = NoTarget
  /\ ResumeAll("failed")
  /\ failed' = TRUE
  /\ UNCHANGED <<canceled, inbox, sdk, suspending, quarantine, told>>

\* invalidateRegistration; faulty: whatever ID is current.
InvalidateAny(target) == NoTarget
Invalidate(target) == IF currentTarget = target THEN NoTarget ELSE currentTarget

\* The main actor takes the next job of its queue.
RunJob ==
  LET job == Head(inbox)
  IN  /\ inbox # <<>>
      /\ \/ /\ job.kind = "registered"
            /\ currentTarget' = job.arg
            /\ ResumeAll("returned")
            /\ inbox' = Tail(inbox)
            /\ UNCHANGED held
         \/ /\ job.kind = "unregistered"
            /\ currentTarget' = Invalidate(job.arg)
            /\ inbox' = Tail(inbox)
            /\ UNCHANGED <<waiting, held>>
         \/ /\ job.kind = "completed"
            /\ Completed(job.arg)
            /\ UNCHANGED <<currentTarget, held>>
         \/ /\ job.kind = "refused"
            /\ call' = [call EXCEPT ![job.arg] = "failed"]
            /\ inbox' = Tail(inbox)
            /\ UNCHANGED <<currentTarget, pending, timer, resumed, held>>
         \/ /\ job.kind \in {"timeout", "cancel"}
            /\ Fail(job.arg, "failed")
            /\ inbox' = Tail(inbox)
            /\ UNCHANGED <<currentTarget, held>>
         \/ /\ job.kind = "suspended"
            /\ currentTarget' = NoTarget
            /\ held' = held \cup (quiet \cap {job.arg})
            /\ inbox' = Tail(inbox)
            /\ UNCHANGED waiting
         \/ /\ job.kind = "notSuspended"     \* the error is thrown
            /\ inbox' = Tail(inbox)
            /\ UNCHANGED <<currentTarget, waiting, held>>
      /\ UNCHANGED <<canceled, sdk, suspending, quiet, crossed, told, failed, events>>

------------------------------------------------------------------------------
Next ==
  \/ \E c \in Calls : Start(c) \/ SdkRegisters(c) \/ TimerFires(c) \/ Cancel(c)
  \/ \E n \in suspending : SdkUnregisters(n)
  \/ Suspend \/ Refresh \/ DidFailToRegister
  \/ RunJob

Spec == Init /\ [][Next]_vars

\* The main actor runs its jobs and sleeps end; nothing is asked of the SDK.
Fairness == WF_vars(RunJob) /\ \A c \in Calls : WF_vars(TimerFires(c))
FairSpec == Spec /\ Fairness

------------------------------------------------------------------------------
(* Properties *)

\* A continuation is resumed once, and only when it is no longer in the table: a
\* timeout, a cancellation and a callback that are queued together do not resume it
\* again, which would stop the process (fail, resolve, failAll).
ResumedOnce ==
  \A c \in Calls :
    /\ resumed[c] <= 1
    /\ c \in pending <=> call[c] = "wait" /\ resumed[c] = 0

\* Every wait ends, also when Firebase never calls back.
WaitEnds == \A c \in Calls : call[c] = "wait" ~> call[c] \in {"returned", "failed"}

\* When the queue is empty the provider offers the ID it was told of last, unless that
\* is unregistered: a callback about an ID that was replaced meanwhile does not remove
\* its successor, and no wait, timeout or suspension leaves another one behind.
TargetCurrent == inbox = <<>> /\ ~failed => currentTarget = told

\* "Stops automatic re-registration and invalidates the current FCM registration"
\* (suspendRegistration): once a suspension has returned, no ID is offered until a
\* registration is asked for again, whatever other suspensions, refreshes and callbacks
\* were under way.  One thing is excepted: a registration asked for before that the SDK
\* completes after it has unregistered.  Its callback offers the new ID, for
\* updateRegistration does not ask whether the registration is suspended.
QuarantineHolds == held \ crossed # {} => currentTarget = NoTarget

==============================================================================
