---------------------------- MODULE IosLifecycle ----------------------------
(***************************************************************************)
(* The iOS installation lifecycle (NotificationInstallationLifecycle): the *)
(* operations bind, heartbeat, unbind, mark and forget of one device,      *)
(* serialised by a FIFO lock, with every call of the transport a step that *)
(* may fail, before or after the server has acted on it.  The process may  *)
(* die between any two steps; the binding and the server survive.          *)
(*                                                                         *)
(* The server derives the installation ID from the target, so a target     *)
(* stands for both.  Metadata and time only decide between a registration, *)
(* a heartbeat and nothing, and each choice is left open.  A caller's      *)
(* transport is authenticated as the user that the caller names.           *)
(***************************************************************************)
EXTENDS Integers, Sequences

CONSTANTS
  Users, Nobody,
  Targets,       \* addresses the provider gives this device over time
  Callers,       \* tasks of the app that use the lifecycle
  NoBinding,
  Used           \* bound of the model: the operations the app calls

ASSUME UserAssumption == Nobody \notin Users
ASSUME BindingAssumption ==
  NoBinding \notin [user: Users, installation: Targets,
                    phase: {"bound", "pendingUnbind"}, pending: SUBSET Targets]
ASSUME UsedAssumption ==
  Used \subseteq {"bind", "heartbeat", "unbind", "mark", "forget"}

VARIABLES
  binding,    \* what the state store holds
  call,       \* Callers -> the operation it runs
  queue,      \* the operation lock: its holder, then its waiters
  server,     \* Targets -> the user the server has it registered for
  lost        \* history: registrations without a record on the device, since the
              \* answer never came, the process died or the app forgot the binding

vars == <<binding, call, queue, server, lost>>

------------------------------------------------------------------------------
Binding == [user: Users, installation: Targets,
            phase: {"bound", "pendingUnbind"}, pending: SUBSET Targets]

Operations == {"bind", "heartbeat", "unbind", "mark", "forget"}

\* copy: the binding as loaded.  todo, remaining: the deletions of cleanup or unbind
\* that are ahead, and that failed.  registered: cleanup follows a registration.
Idle == [pc |-> "idle", op |-> "bind", user |-> Nobody, target |-> NoBinding,
         copy |-> NoBinding, todo |-> {}, remaining |-> {}, registered |-> FALSE]

Installations(b) == {b.installation} \cup b.pending

Init ==
  /\ binding = NoBinding
  /\ call = [c \in Callers |-> Idle]
  /\ queue = <<>>
  /\ server = [t \in Targets |-> Nobody]
  /\ lost = {}

\* acquire: at once if the lock is free, else behind the other waiters.
Call(c, op, user, target) ==
  /\ call[c].pc = "idle"
  /\ call' = [call EXCEPT ![c] = [Idle EXCEPT !.pc = "begin", !.op = op, !.user = user,
                                              !.target = target]]
  /\ queue' = Append(queue, c)
  /\ UNCHANGED <<binding, server, lost>>

\* Faulty: acquire does not wait.
NeverWaits(c) == \E i \in DOMAIN queue : queue[i] = c
Holds(c) == queue # <<>> /\ Head(queue) = c

\* release: the first waiter, if any, holds the lock next; faulty: nobody resumes it.
WaitersForgotten == <<>>
Released == Tail(queue)

\* The operation of the holder returns or throws.
End(c) ==
  /\ call' = [call EXCEPT ![c] = Idle]
  /\ queue' = Released

\* A task that was canceled while it waited gets the lock and gives it back.
Canceled(c) ==
  /\ Holds(c)
  /\ call[c].pc = "begin"
  /\ End(c)
  /\ UNCHANGED <<binding, server, lost>>

GoTo(c, state) == call' = [call EXCEPT ![c] = state] /\ UNCHANGED queue

Save(b) == binding' = b

------------------------------------------------------------------------------
(* bindUser and heartbeat *)

Cleaning(state, b, registered) ==
  [state EXCEPT !.pc = "cleanup", !.copy = b, !.todo = b.pending, !.remaining = {},
                !.registered = registered]

\* The guards of bindUserLocked on what is stored; faulty: the phase is not checked.
OwnerOnly(user) == binding = NoBinding \/ binding.user = user
MayBind(user) == binding = NoBinding \/ (binding.user = user /\ binding.phase = "bound")

\* bindUserLocked with forceRegistration.
Rebind(c, target) ==
  IF MayBind(call[c].user)
    THEN GoTo(c, [call[c] EXCEPT !.pc = "register", !.target = target, !.copy = binding])
    ELSE End(c)

\* An unchanged binding is cleaned up, and may get a heartbeat; anything else registers.
BeginBind(c) ==
  /\ Holds(c)
  /\ call[c].pc = "begin" /\ call[c].op = "bind"
  /\ \/ Rebind(c, call[c].target)
     \/ /\ binding # NoBinding
        /\ MayBind(call[c].user)
        /\ binding.installation = call[c].target
        /\ GoTo(c, Cleaning(call[c], binding, FALSE))
  /\ UNCHANGED <<binding, server, lost>>

BeginHeartbeat(c) ==
  /\ Holds(c)
  /\ call[c].pc = "begin" /\ call[c].op = "heartbeat"
  /\ IF binding # NoBinding /\ MayBind(call[c].user)
       THEN GoTo(c, Cleaning(call[c], binding, FALSE))
       ELSE End(c)
  /\ UNCHANGED <<binding, server, lost>>

\* DELETE of t for the caller's user.  The server may have lost it already (404, which
\* counts as success), or given it to another user.
Deleted(t, user) == IF server[t] = user THEN [server EXCEPT ![t] = Nobody] ELSE server

\* One deletion of cleanupStaleInstallations; faulty: a failed one is not kept.
DropFailed(state, t) == state.remaining
KeepFailed(state, t) == state.remaining \cup {t}

CleanupDelete(c) ==
  /\ Holds(c)
  /\ call[c].pc = "cleanup"
  /\ \E t \in call[c].todo, ok, applied \in BOOLEAN :
       /\ ok => applied
       /\ server' = IF applied THEN Deleted(t, call[c].user) ELSE server
       /\ GoTo(c, [call[c] EXCEPT !.todo = @ \ {t},
                                  !.remaining = IF ok THEN @ ELSE KeepFailed(call[c], t)])
  /\ UNCHANGED <<binding, lost>>

CleanupSave(c) ==
  LET cleaned == [call[c].copy EXCEPT !.pending = call[c].remaining]
  IN  /\ Holds(c)
      /\ call[c].pc = "cleanup"
      /\ call[c].todo = {}
      /\ IF cleaned # call[c].copy THEN Save(cleaned) ELSE UNCHANGED binding
      /\ IF call[c].registered
           THEN End(c)
           ELSE GoTo(c, [call[c] EXCEPT !.pc = "beat", !.copy = cleaned])
      /\ UNCHANGED <<server, lost>>

\* No heartbeat is due, or the stored metadata is missing.
NotDue(c) ==
  /\ Holds(c)
  /\ call[c].pc = "beat"
  /\ End(c)
  /\ UNCHANGED <<binding, server, lost>>

\* heartbeatLocked with new metadata registers the stored target again.
MetadataChanged(c) ==
  /\ Holds(c)
  /\ call[c].pc = "beat" /\ call[c].op = "heartbeat"
  /\ Rebind(c, call[c].copy.installation)
  /\ UNCHANGED <<binding, server, lost>>

\* The heartbeat request: accepted, 404, or failed.
Beat(c) ==
  LET installation == call[c].copy.installation
  IN  /\ Holds(c)
      /\ call[c].pc = "beat"
      /\ \/ /\ server[installation] = call[c].user
            /\ Save(call[c].copy)
            /\ End(c)
         \/ /\ server[installation] # call[c].user
            /\ Rebind(c, installation)
            /\ UNCHANGED binding
         \/ End(c) /\ UNCHANGED binding
      /\ UNCHANGED <<server, lost>>

\* The registration request.  The server moves the target to the caller's user.
Register(c) ==
  /\ Holds(c)
  /\ call[c].pc = "register"
  /\ \E ok, applied \in BOOLEAN :
       /\ ok => applied
       /\ server' = IF applied THEN [server EXCEPT ![call[c].target] = call[c].user]
                    ELSE server
       /\ IF ok THEN GoTo(c, [call[c] EXCEPT !.pc = "save"]) ELSE End(c)
       /\ lost' = IF applied /\ ~ok THEN lost \cup {call[c].target} ELSE lost
  /\ UNCHANGED binding

\* What is stale after the registration; faulty: the new installation may be in it.
StaleWithNew(copy, target) ==
  IF copy = NoBinding THEN {}
  ELSE IF copy.installation = target THEN copy.pending ELSE Installations(copy)
Stale(copy, target) ==
  IF copy = NoBinding THEN {} ELSE Installations(copy) \ {target}

SaveBinding(c) ==
  LET new == [user |-> call[c].user, installation |-> call[c].target, phase |-> "bound",
              pending |-> Stale(call[c].copy, call[c].target)]
  IN  /\ Holds(c)
      /\ call[c].pc = "save"
      /\ Save(new)
      /\ lost' = lost \ {call[c].target}
      /\ GoTo(c, Cleaning(call[c], new, TRUE))
      /\ UNCHANGED server

------------------------------------------------------------------------------
(* unbindUser, markPendingUnbind, forget...Binding *)

MarkPending == Save([binding EXCEPT !.phase = "pendingUnbind"])

BeginUnbind(c) ==
  /\ Holds(c)
  /\ call[c].pc = "begin" /\ call[c].op = "unbind"
  /\ IF binding # NoBinding /\ OwnerOnly(call[c].user)
       THEN /\ MarkPending
            /\ GoTo(c, [call[c] EXCEPT !.pc = "delete", !.copy = binding,
                                       !.todo = Installations(binding)])
       ELSE End(c) /\ UNCHANGED binding
  /\ UNCHANGED <<server, lost>>

\* After a deletion of unbindUserLocked: the first failure ends it.
StopAtFailed(c, t, ok) ==
  IF ok THEN GoTo(c, [call[c] EXCEPT !.todo = @ \ {t}]) ELSE End(c)

\* The current installation goes first, then the stale ones.
UnbindDelete(c) ==
  /\ Holds(c)
  /\ call[c].pc = "delete"
  /\ \E t \in call[c].todo, ok, applied \in BOOLEAN :
       /\ call[c].copy.installation \in call[c].todo => t = call[c].copy.installation
       /\ ok => applied
       /\ server' = IF applied THEN Deleted(t, call[c].user) ELSE server
       /\ StopAtFailed(c, t, ok)
  /\ UNCHANGED <<binding, lost>>

UnbindClear(c) ==
  /\ Holds(c)
  /\ call[c].pc = "delete"
  /\ call[c].todo = {}
  /\ Save(NoBinding)
  /\ End(c)
  /\ UNCHANGED <<server, lost>>

Mark(c) ==
  /\ Holds(c)
  /\ call[c].pc = "begin" /\ call[c].op = "mark"
  /\ IF binding # NoBinding /\ OwnerOnly(call[c].user) THEN MarkPending ELSE UNCHANGED binding
  /\ End(c)
  /\ UNCHANGED <<server, lost>>

\* Nothing is deleted at the server: the app calls it when the account is deleted there,
\* or the address invalidated with the provider.
Forget(c) ==
  /\ Holds(c)
  /\ call[c].pc = "begin" /\ call[c].op = "forget"
  /\ IF binding # NoBinding /\ OwnerOnly(call[c].user)
       THEN Save(NoBinding) /\ lost' = lost \cup Installations(binding)
       ELSE UNCHANGED <<binding, lost>>
  /\ End(c)
  /\ UNCHANGED server

------------------------------------------------------------------------------
(* Surroundings *)

\* The process dies.  A registration that was answered but not saved is lost.
Crash ==
  /\ call' = [c \in Callers |-> Idle]
  /\ queue' = <<>>
  /\ lost' = lost \cup {call[c].target : c \in {d \in Callers : call[d].pc = "save"}}
  /\ UNCHANGED <<binding, server>>

\* The server prunes or retires an installation, or deletes the account.
ServerDrops(t) ==
  /\ server[t] # Nobody
  /\ server' = [server EXCEPT ![t] = Nobody]
  /\ UNCHANGED <<binding, call, queue, lost>>

Step(c) ==
  \/ Canceled(c) \/ BeginBind(c) \/ BeginHeartbeat(c) \/ CleanupDelete(c) \/ CleanupSave(c)
  \/ NotDue(c) \/ MetadataChanged(c) \/ Beat(c) \/ Register(c) \/ SaveBinding(c)
  \/ BeginUnbind(c) \/ UnbindDelete(c) \/ UnbindClear(c) \/ Mark(c) \/ Forget(c)

Next ==
  \/ \E c \in Callers, op \in Used, u \in Users, t \in Targets : Call(c, op, u, t)
  \/ \E c \in Callers : Step(c)
  \/ Crash
  \/ \E t \in Targets : ServerDrops(t)

Spec == Init /\ [][Next]_vars

\* The transport answers or times out, and tasks that can run do.
FairSpec == Spec /\ \A c \in Callers : WF_vars(Step(c))

------------------------------------------------------------------------------
(* Properties *)

\* Every variable keeps its type, and no task queues twice for the lock.
TypeOK ==
  /\ binding \in Binding \cup {NoBinding}
  /\ \A c \in Callers :
       /\ call[c].pc \in {"idle", "begin", "cleanup", "beat", "register", "save", "delete"}
       /\ call[c].op \in Operations
       /\ call[c].copy \in Binding \cup {NoBinding}
       /\ call[c].todo \cup call[c].remaining \subseteq Targets
  /\ \A i, j \in DOMAIN queue : queue[i] = queue[j] => i = j
  /\ server \in [Targets -> Users \cup {Nobody}]
  /\ lost \subseteq Targets

\* Whatever the server has registered for a user is on the device's record for that
\* user, so that an unbind or a cleanup will delete it, or about to be saved; except
\* for a registration whose answer never came or that the app chose to forget.
Tracked ==
  \A t \in Targets : server[t] # Nobody =>
    \/ t \in lost
    \/ binding # NoBinding /\ binding.user = server[t] /\ t \in Installations(binding)
    \/ \E c \in Callers : call[c].pc = "save" /\ call[c].target = t /\ call[c].user = server[t]

\* "The newly registered installation is authoritative and must never be deleted as
\* stale": the bound installation is in no list of stale ones, stored or being worked on.
AuthoritativeKept ==
  binding # NoBinding /\ binding.phase = "bound" =>
    /\ binding.installation \notin binding.pending
    /\ \A c \in Callers :
         call[c].pc = "cleanup" => binding.installation \notin call[c].todo

\* "Marks the binding pending before the network request.  A crash or failed DELETE
\* therefore blocks a later account": a stored binding changes its user only by way of
\* no binding, a pending unbind is never bound again, and an unbind clears the binding
\* only when the server has none of its installations for its user.
AccountSwitch ==
  [][ binding # NoBinding /\ binding' # binding =>
        IF binding' = NoBinding
          THEN \A t \in Installations(binding) \ lost' : server[t] # binding.user
          ELSE /\ binding'.user = binding.user
               /\ binding.phase = "pendingUnbind" => binding'.phase = "pendingUnbind" ]_vars

\* Operations suspend at every request, yet none works on a stale copy: from its load
\* to its last save, the copy of an operation is what the store holds, but for the mark
\* an unbind has put on it.
BindingCurrent ==
  \A c \in Callers :
    /\ call[c].pc \in {"cleanup", "beat", "register", "save"} => call[c].copy = binding
    /\ call[c].pc = "delete" => binding = [call[c].copy EXCEPT !.phase = "pendingUnbind"]

\* Every operation returns or throws, also behind a canceled one.
CallsEnd == \A c \in Callers : call[c].pc # "idle" ~> call[c].pc = "idle"

\* The lifecycle "persists enough state to prevent one physical installation from
\* silently crossing user accounts": no registration takes an address that the server
\* still has for another user.
NoCrossing ==
  [][ \A t \in Targets :
        server[t] # Nobody /\ server'[t] # Nobody => server'[t] = server[t] ]_vars

==============================================================================
