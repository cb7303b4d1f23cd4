--------------------------- MODULE AndroidManager ---------------------------
(***************************************************************************)
(* NotificationInstallationManager of the Android library with its two     *)
(* adapters: SharedPreferences, whose apply() reaches the disk some time   *)
(* later, and the FCM token provider, whose token may rotate at any time.  *)
(* Every request to the backend may fail before or after the server has    *)
(* acted on it, or reach the server only after the client has given it up; *)
(* the process may die between any two steps.                              *)
(*                                                                         *)
(* The server derives the installation ID from the token, so a token       *)
(* stands for both.  The backend is authenticated as the account the       *)
(* caller names.  The mutex admits one operation at a time, op.            *)
(***************************************************************************)
EXTENDS Integers

CONSTANTS
  Users, Nobody,
  Tokens, NoToken,
  NoState,
  MaxRotations, MaxFaults    \* bounds of the model: token rotations, faults

State == [account: Users, installation: Tokens, pending: SUBSET Tokens]

ASSUME NameAssumption ==
  Nobody \notin Users /\ NoToken \notin Tokens /\ NoState \notin State
ASSUME BoundAssumption == MaxRotations \in Nat /\ MaxFaults \in Nat

VARIABLES
  mem, disk,    \* the preferences: what read() returns, and what survives the process
  op,           \* the operation that holds the mutex
  due,          \* the heartbeat interval has passed since lastSeenAt
  issued,       \* the token FCM has for this device
  cached,       \* currentToken of the provider
  notify,       \* onNewToken is still to be called for the issued token
  server,       \* Tokens -> the account the server has the token registered for
  late,         \* requests given up by the client that may still reach the server
  lost,         \* history: registrations the device has no record of, after a fault
  rotations, faults

tokenVars == <<issued, cached, notify, rotations>>
vars == <<mem, disk, op, due, tokenVars, server, late, lost, faults>>

------------------------------------------------------------------------------
\* copy: the state the operation works on.  todo, remaining: deletions ahead, and
\* failed.  fetched: the token Firebase answers with.  bound: a registration is done.
Idle == [pc |-> "idle", user |-> Nobody, copy |-> NoState, target |-> NoToken,
         fetched |-> NoToken, todo |-> {}, remaining |-> {}, bound |-> FALSE]

Tracked(state) == IF state = NoState THEN {} ELSE {state.installation} \cup state.pending

Unrecorded(state) ==
  {t \in Tokens : server[t] # Nobody
                  /\ ~(state # NoState /\ state.account = server[t] /\ t \in Tracked(state))}

Init ==
  /\ mem = NoState /\ disk = NoState
  /\ op = Idle
  /\ due = FALSE
  /\ issued \in Tokens
  /\ cached = NoToken
  /\ notify = FALSE
  /\ server = [t \in Tokens |-> Nobody]
  /\ late = {}
  /\ lost = {}
  /\ rotations = 0 /\ faults = 0

GoTo(state) == op' = state
End == op' = Idle
Fault == faults < MaxFaults /\ faults' = faults + 1

------------------------------------------------------------------------------
(* Requests *)

\* POST registers the token for the account, DELETE removes it unless the server has
\* lost it already or has it for another account.
Applied(request) ==
  CASE request.kind = "bind" -> [server EXCEPT ![request.token] = request.user]
    [] request.kind = "unbind" /\ server[request.token] = request.user
         -> [server EXCEPT ![request.token] = Nobody]
    [] OTHER -> server

Request(kind, token) == [kind |-> kind, user |-> op.user, token |-> token]

Answered(request) ==
  /\ server' = Applied(request)
  /\ lost' = IF request.kind = "bind" \/ server'[request.token] = Nobody
               THEN lost \ {request.token} ELSE lost
  /\ UNCHANGED <<late, faults>>

\* The request fails for the client: the server never sees it, has acted on it, or
\* will act on it later.
Failed(request) ==
  /\ Fault
  /\ \/ UNCHANGED <<server, late, lost>>
     \/ /\ server' = Applied(request)
        /\ lost' = IF request.kind = "bind" THEN lost \cup {request.token} ELSE lost
        /\ UNCHANGED late
     \/ late' = late \cup {request} /\ UNCHANGED <<server, lost>>

LateArrival ==
  \E request \in late :
    /\ server' = Applied(request)
    /\ late' = late \ {request}
    /\ lost' = IF request.kind = "bind" THEN lost \cup {request.token} ELSE lost
    /\ UNCHANGED <<mem, disk, op, due, tokenVars, faults>>

------------------------------------------------------------------------------
(* bind *)

\* The check of the stored account; faulty: any account may bind.
AnyAccount(user) == TRUE
SameAccount(user) == mem # NoState => mem.account = user

BeginBind(user) ==
  /\ op.pc = "idle"
  /\ SameAccount(user)
  /\ GoTo([Idle EXCEPT !.pc = "token", !.user = user, !.copy = mem])
  /\ UNCHANGED <<mem, disk, due, tokenVars, server, late, lost, faults>>

Cleaning(state, copy, bound) ==
  [state EXCEPT !.pc = "cleanup", !.copy = copy, !.todo = copy.pending, !.remaining = {},
                !.bound = bound]

\* What bind does with the token: an unchanged binding is only cleaned up.
WithToken(token) ==
  IF op.copy # NoState /\ op.copy.installation = token
    THEN Cleaning(op, op.copy, FALSE)
    ELSE [op EXCEPT !.pc = "register", !.target = token]

\* register() of the provider with a cached token.
CachedToken ==
  /\ op.pc = "token"
  /\ cached # NoToken
  /\ GoTo(WithToken(cached))
  /\ UNCHANGED <<mem, disk, due, tokenVars, server, late, lost, faults>>

\* Without one it asks Firebase, which answers with the token of that moment.
FetchToken ==
  /\ op.pc = "token"
  /\ cached = NoToken
  /\ GoTo([op EXCEPT !.pc = "fetch", !.fetched = issued])
  /\ UNCHANGED <<mem, disk, due, tokenVars, server, late, lost, faults>>

\* currentToken.compareAndSet(null, fetched); faulty: set.
SetToken(fetched) == fetched
KeepNewer(fetched) == IF cached = NoToken THEN fetched ELSE cached

TokenFetched ==
  /\ op.pc = "fetch"
  /\ cached' = KeepNewer(op.fetched)
  /\ GoTo(WithToken(cached'))
  /\ UNCHANGED <<mem, disk, due, issued, notify, rotations, server, late, lost, faults>>

\* The fetch fails or times out, and bind throws.
FetchFails ==
  /\ op.pc = "fetch"
  /\ Fault
  /\ End
  /\ UNCHANGED <<mem, disk, due, tokenVars, server, late, lost>>

\* The state after a registration: what it replaces is to be cleaned up, but never the
\* new installation, to which the provider may have returned.
Replacement ==
  [account |-> op.user, installation |-> op.target,
   pending |-> Tracked(op.copy) \ {op.target}]

\* backend.bind: the answer is written before anything is cleaned up.
Register ==
  /\ op.pc = "register"
  /\ Answered(Request("bind", op.target))
  /\ mem' = Replacement
  /\ due' = FALSE
  /\ GoTo(Cleaning(op, Replacement, TRUE))
  /\ UNCHANGED <<disk, tokenVars>>

RegisterFails ==
  /\ op.pc = "register"
  /\ Failed(Request("bind", op.target))
  /\ End
  /\ UNCHANGED <<mem, disk, due, tokenVars>>

\* cleanupPendingInstallations: a deletion that fails stays on the list.
CleanupDelete ==
  \E t \in op.todo :
    /\ op.pc = "cleanup"
    /\ \/ Answered(Request("unbind", t)) /\ GoTo([op EXCEPT !.todo = @ \ {t}])
       \/ /\ Failed(Request("unbind", t))
          /\ GoTo([op EXCEPT !.todo = @ \ {t}, !.remaining = @ \cup {t}])
    /\ UNCHANGED <<mem, disk, due, tokenVars>>

\* Then bind ends, or goes on to the heartbeat, which may also be due because it is
\* forced or the metadata has changed.
CleanupDone ==
  LET cleaned == [op.copy EXCEPT !.pending = op.remaining]
  IN  /\ op.pc = "cleanup"
      /\ op.todo = {}
      /\ mem' = IF cleaned = op.copy THEN mem ELSE cleaned
      /\ \/ (op.bound \/ ~due) /\ End
         \/ ~op.bound /\ GoTo([op EXCEPT !.pc = "beat", !.copy = cleaned])
      /\ UNCHANGED <<disk, due, tokenVars, server, late, lost, faults>>

\* A heartbeat that finds no installation registers it again; faulty: bind throws.
ThrowNotFound == Idle
RegisterAgain == [op EXCEPT !.pc = "register", !.target = op.copy.installation]

Beat ==
  /\ op.pc = "beat"
  /\ \/ /\ server[op.copy.installation] = op.user
        /\ mem' = op.copy
        /\ due' = FALSE
        /\ End
     \/ /\ server[op.copy.installation] # op.user
        /\ GoTo(RegisterAgain)
        /\ UNCHANGED <<mem, due>>
  /\ UNCHANGED <<disk, tokenVars, server, late, lost, faults>>

BeatFails ==
  /\ op.pc = "beat"
  /\ Fault
  /\ End
  /\ UNCHANGED <<mem, disk, due, tokenVars, server, late, lost>>

------------------------------------------------------------------------------
(* unbind, clearDeletedAccount *)

BeginUnbind(user) ==
  /\ op.pc = "idle"
  /\ mem # NoState /\ mem.account = user
  /\ GoTo([Idle EXCEPT !.pc = "unbind", !.user = user, !.copy = mem, !.todo = Tracked(mem)])
  /\ UNCHANGED <<mem, disk, due, tokenVars, server, late, lost, faults>>

UnbindDelete ==
  \E t \in op.todo :
    /\ op.pc = "unbind"
    /\ \/ Answered(Request("unbind", t)) /\ GoTo([op EXCEPT !.todo = @ \ {t}])
       \/ /\ Failed(Request("unbind", t))
          /\ GoTo([op EXCEPT !.todo = @ \ {t}, !.remaining = @ \cup {t}])
    /\ UNCHANGED <<mem, disk, due, tokenVars>>

\* The state is cleared when every deletion has succeeded, and kept as it is otherwise.
UnbindDone ==
  /\ op.pc = "unbind"
  /\ op.todo = {}
  /\ mem' = IF op.remaining = {} THEN NoState ELSE mem
  /\ End
  /\ UNCHANGED <<disk, due, tokenVars, server, late, lost, faults>>

\* The operation is canceled between two requests: it throws at once.
Canceled ==
  /\ op.pc \in {"cleanup", "unbind"}
  /\ Fault
  /\ End
  /\ UNCHANGED <<mem, disk, due, tokenVars, server, late, lost>>

\* The app has deleted the account on the server, which refuses what comes after.
ClearDeletedAccount(user) ==
  /\ op.pc = "idle"
  /\ mem # NoState /\ mem.account = user
  /\ server' = [t \in Tokens |-> IF server[t] = user THEN Nobody ELSE server[t]]
  /\ late' = {request \in late : request.user # user}
  /\ lost' = lost \cap {t \in Tokens : server'[t] # Nobody}
  /\ mem' = NoState
  /\ UNCHANGED <<disk, op, due, tokenVars, faults>>

------------------------------------------------------------------------------
(* Around the manager *)

\* The write queued by apply() reaches the disk.
Flush ==
  /\ disk # mem
  /\ disk' = mem
  /\ UNCHANGED <<mem, op, due, tokenVars, server, late, lost, faults>>

\* The process dies and starts again with what is on the disk.
Restart ==
  /\ Fault
  /\ mem' = disk
  /\ op' = Idle
  /\ cached' = NoToken
  /\ notify' = FALSE
  /\ lost' = lost \cup Unrecorded(disk)
  /\ UNCHANGED <<disk, due, issued, rotations, server, late>>

Rotate ==
  /\ rotations < MaxRotations
  /\ ~notify
  /\ \E t \in Tokens \ {issued} : issued' = t
  /\ notify' = TRUE
  /\ rotations' = rotations + 1
  /\ UNCHANGED <<mem, disk, op, due, cached, server, late, lost, faults>>

OnNewToken ==
  /\ notify
  /\ cached' = issued
  /\ notify' = FALSE
  /\ UNCHANGED <<mem, disk, op, due, issued, rotations, server, late, lost, faults>>

IntervalPasses ==
  /\ ~due
  /\ due' = TRUE
  /\ UNCHANGED <<mem, disk, op, tokenVars, server, late, lost, faults>>

------------------------------------------------------------------------------
OpStep ==
  \/ CachedToken \/ FetchToken \/ TokenFetched \/ Register \/ CleanupDelete \/ CleanupDone
  \/ Beat \/ UnbindDelete \/ UnbindDone

Next ==
  \/ \E user \in Users : BeginBind(user) \/ BeginUnbind(user) \/ ClearDeletedAccount(user)
  \/ OpStep
  \/ FetchFails \/ RegisterFails \/ BeatFails \/ Canceled
  \/ LateArrival \/ Flush \/ Restart \/ Rotate \/ OnNewToken \/ IntervalPasses

Spec == Init /\ [][Next]_vars

\* Operations run on, callbacks come, time passes, delayed requests arrive, and the app
\* binds again and again for as long as an account is signed in.
Fairness ==
  /\ WF_vars(OpStep) /\ WF_vars(LateArrival)
  /\ WF_vars(OnNewToken) /\ WF_vars(IntervalPasses)
  /\ \A user \in Users : SF_vars(BeginBind(user))
FairSpec == Spec /\ Fairness

------------------------------------------------------------------------------
(* Properties *)

\* "The replacement and every stale ID remain available for retry": whatever requests
\* and cleanups fail, and whichever accounts follow each other, each registration the
\* server has is on record for its account, so a later unbind deletes it; but for the
\* ones whose answer or whose unflushed write a fault has swallowed.
RegistrationsTracked == Unrecorded(mem) \subseteq lost

\* A rotation that arrives while an older token is being fetched wins: once onNewToken
\* has been called, no older token is handed out again.
RotationWins == cached # NoToken /\ ~notify => cached = issued

\* A device with a binding becomes reachable: after failed requests, half-done unbinds,
\* delayed deletions and lost writes, the server has its newest token for the account,
\* unless the account is unbound meanwhile (the 404 branch of the heartbeat).
Reachable ==
  \A user \in Users :
    (mem # NoState /\ mem.account = user)
      ~> (server[issued] = user \/ mem = NoState \/ mem.account # user)

==============================================================================
