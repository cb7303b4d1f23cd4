------------------------ MODULE IosLifecycleProofs ------------------------
(***************************************************************************)
(* Theorems about IosLifecycle, for any number of users, addresses and     *)
(* concurrent callers and any sequence of crashes and failing requests.    *)
(***************************************************************************)
EXTENDS IosLifecycle, TLAPS

------------------------------------------------------------------------------
(* The inductive invariant *)

CallState ==
  [pc: {"idle", "begin", "cleanup", "beat", "register", "save", "delete"},
   op: Operations, user: Users \cup {Nobody}, target: Targets \cup {NoBinding},
   copy: Binding \cup {NoBinding}, todo: SUBSET Targets, remaining: SUBSET Targets,
   registered: BOOLEAN]

Typed ==
  /\ binding \in Binding \cup {NoBinding}
  /\ call \in [Callers -> CallState]
  /\ queue \in Seq(Callers)
  /\ server \in [Targets -> Users \cup {Nobody}]
  /\ lost \subseteq Targets

\* The operation lock: the callers with an operation are the holder and the waiters, each
\* once, and only the holder is past the acquisition.
Queued ==
  /\ \A i, j \in 1 .. Len(queue) : queue[i] = queue[j] => i = j
  /\ \A c \in Callers :
       /\ call[c].pc # "idle" <=> \E i \in 1 .. Len(queue) : queue[i] = c
       /\ call[c].pc \notin {"idle", "begin"} => Holds(c)

\* What an operation of user has in its hands at each of its suspensions, against what
\* the store (b) and the server (s) hold.
Working(k, b, s) ==
  /\ k.pc # "idle" => k.user \in Users /\ k.target \in Targets
  /\ k.pc \in {"cleanup", "beat", "register", "save"} =>
       /\ k.copy = b
       /\ k.copy # NoBinding => k.copy.user = k.user /\ k.copy.phase = "bound"
  /\ k.pc \in {"cleanup", "beat", "delete"} => k.copy \in Binding
  /\ k.pc = "cleanup" =>
       /\ k.todo \cup k.remaining \subseteq k.copy.pending
       /\ \A t \in k.copy.pending \ (k.todo \cup k.remaining) : s[t] # k.user
  /\ k.pc = "save" => s[k.target] \in {k.user, Nobody}
  /\ k.pc = "delete" =>
       /\ b = [k.copy EXCEPT !.phase = "pendingUnbind"]
       /\ k.copy.user = k.user
       /\ k.todo \subseteq Installations(k.copy)
       /\ \A t \in Installations(k.copy) \ k.todo : s[t] # k.user

AllWorking == \A c \in Callers : Working(call[c], binding, server)

\* The bound installation is not listed as stale.
NotStale == binding # NoBinding => binding.installation \notin binding.pending

Inv == Typed /\ Queued /\ AllWorking /\ NotStale /\ Tracked

\* What a step may do to the stored binding (AccountSwitch).
Switch ==
  binding # NoBinding /\ binding' # binding =>
    IF binding' = NoBinding
      THEN \A t \in Installations(binding) \ lost' : server[t] # binding.user
      ELSE /\ binding'.user = binding.user
           /\ binding.phase = "pendingUnbind" => binding'.phase = "pendingUnbind"

------------------------------------------------------------------------------
(* The lock *)

\* While one caller holds the lock the others have not begun.
LEMMA OthersWait ==
  ASSUME Inv, NEW c \in Callers, Holds(c)
  PROVE  /\ call[c].pc # "idle"
         /\ \A d \in Callers : d # c => call[d].pc \in {"idle", "begin"}
<1>1. queue # <<>> /\ Head(queue) = c /\ queue \in Seq(Callers)
  BY DEF Holds, Inv, Typed
<1>2. 1 \in 1 .. Len(queue) /\ queue[1] = c
  BY <1>1
<1>3. \A d \in Callers : d # c => ~Holds(d)
  BY <1>1 DEF Holds
<1> QED BY <1>2, <1>3 DEF Inv, Queued

\* A step of the holder keeps the lock or passes it to the first waiter.
LEMMA HolderStep ==
  ASSUME Inv, NEW c \in Callers, Holds(c), NEW k \in CallState,
         call' = [call EXCEPT ![c] = k],
         \/ k.pc # "idle" /\ queue' = queue
         \/ k.pc = "idle" /\ queue' = Released
  PROVE  /\ Queued'
         /\ queue' \in Seq(Callers) /\ call' \in [Callers -> CallState]
         /\ call'[c] = k
         /\ \A d \in Callers : d # c => call'[d] = call[d]
<1>1. queue # <<>> /\ Head(queue) = c /\ queue \in Seq(Callers)
  BY DEF Holds, Inv, Typed
<1>2. /\ call' \in [Callers -> CallState] /\ call'[c] = k
      /\ \A d \in Callers : d # c => call'[d] = call[d]
  BY DEF Inv, Typed
<1>3. \A d \in Callers : d # c => call[d].pc \in {"idle", "begin"}
  BY OthersWait
<1>4. CASE k.pc # "idle" /\ queue' = queue
  <2>1. call[c].pc # "idle"
    BY OthersWait
  <2>2. Holds(c)'
    BY <1>1, <1>4 DEF Holds
  <2>3. \A d \in Callers : call'[d].pc # "idle" <=> call[d].pc # "idle"
    BY <1>2, <1>4, <2>1
  <2>4. Queued'
    BY <1>2, <1>3, <1>4, <2>2, <2>3 DEF Inv, Queued
  <2> QED BY <1>1, <1>2, <1>4, <2>4
<1>5. CASE k.pc = "idle" /\ queue' = Released
  <2>1. /\ queue' \in Seq(Callers) /\ Len(queue) \in Nat \ {0}
        /\ Len(queue') = Len(queue) - 1
        /\ \A i \in 1 .. Len(queue') : queue'[i] = queue[i + 1]
    BY <1>1, <1>5 DEF Released
  <2>2. queue[1] = c
    BY <1>1
  <2>3. \A i, j \in 1 .. Len(queue') : queue'[i] = queue'[j] => i = j
    <3> SUFFICES ASSUME NEW i \in 1 .. Len(queue'), NEW j \in 1 .. Len(queue'),
                        queue'[i] = queue'[j]
                 PROVE  i = j
      OBVIOUS
    <3>1. i + 1 \in 1 .. Len(queue) /\ j + 1 \in 1 .. Len(queue) /\ queue[i + 1] = queue[j + 1]
      BY <2>1
    <3>2. i + 1 = j + 1
      BY <3>1 DEF Inv, Queued
    <3> QED BY <3>2
  <2>4. ASSUME NEW d \in Callers
        PROVE  (\E i \in 1 .. Len(queue') : queue'[i] = d)
                 <=> d # c /\ \E i \in 1 .. Len(queue) : queue[i] = d
    <3>1. ASSUME NEW i \in 1 .. Len(queue'), queue'[i] = d
          PROVE  d # c /\ \E j \in 1 .. Len(queue) : queue[j] = d
      <4>1. i + 1 \in 1 .. Len(queue) /\ queue[i + 1] = d /\ 1 \in 1 .. Len(queue)
        BY <2>1, <3>1
      <4>2. i + 1 # 1
        BY <2>1
      <4>3. d # c
        BY <2>2, <4>1, <4>2 DEF Inv, Queued
      <4> QED BY <4>1, <4>3
    <3>2. ASSUME NEW j \in 1 .. Len(queue), queue[j] = d, d # c
          PROVE  \E i \in 1 .. Len(queue') : queue'[i] = d
      <4>1. j # 1
        BY <2>2, <3>2
      <4>2. j - 1 \in 1 .. Len(queue') /\ queue'[j - 1] = queue[(j - 1) + 1]
        BY <2>1, <4>1
      <4>3. (j - 1) + 1 = j
        BY <2>1
      <4> QED BY <3>2, <4>2, <4>3
    <3> QED BY <3>1, <3>2
  <2>5. Queued'
    BY <1>2, <1>3, <1>5, <2>3, <2>4 DEF Inv, Queued
  <2> QED BY <1>2, <2>1, <2>5
<1> QED BY <1>4, <1>5

\* So a step of the holder keeps the invariant if what it leaves itself is in order.
OnRecord(k, b, s, forgotten) ==
  \A t \in Targets : s[t] # Nobody =>
    \/ t \in forgotten
    \/ b # NoBinding /\ b.user = s[t] /\ t \in Installations(b)
    \/ k.pc = "save" /\ k.target = t /\ k.user = s[t]

LEMMA HolderKeeps ==
  ASSUME Inv, NEW c \in Callers, Holds(c), NEW k \in CallState,
         call' = [call EXCEPT ![c] = k],
         \/ k.pc # "idle" /\ queue' = queue
         \/ k.pc = "idle" /\ queue' = Released,
         binding' \in Binding \cup {NoBinding},
         server' \in [Targets -> Users \cup {Nobody}],
         lost' \subseteq Targets,
         Working(k, binding', server'),
         NotStale',
         OnRecord(k, binding', server', lost')
  PROVE  Inv'
<1>1. /\ Queued'
      /\ queue' \in Seq(Callers) /\ call' \in [Callers -> CallState]
      /\ call'[c] = k
      /\ \A d \in Callers : d # c => call'[d] = call[d]
  BY HolderStep
<1>2. Typed'
  BY <1>1 DEF Typed
<1>3. AllWorking'
  <2>1. ASSUME NEW d \in Callers, d # c PROVE Working(call'[d], binding', server')
    <3>1. Working(call[d], binding, server) /\ call[d].pc \in {"idle", "begin"}
      BY <2>1, OthersWait DEF Inv, AllWorking
    <3>2. Working(call[d], binding', server')
      BY <3>1 DEF Working
    <3> QED BY <1>1, <2>1, <3>2
  <2> QED BY <1>1, <2>1 DEF AllWorking
<1>4. Tracked'
  BY <1>1 DEF OnRecord, Tracked
<1> QED BY <1>1, <1>2, <1>3, <1>4 DEF Inv

\* What the holder finds.
LEMMA HolderFinds ==
  ASSUME Inv, NEW c \in Callers, Holds(c)
  PROVE  /\ call[c] \in CallState /\ call[c].pc # "idle"
         /\ call[c].user \in Users /\ call[c].target \in Targets
         /\ Working(call[c], binding, server)
         /\ OnRecord(call[c], binding, server, lost)
         /\ binding \in Binding \cup {NoBinding} /\ NotStale
         /\ server \in [Targets -> Users \cup {Nobody}] /\ lost \subseteq Targets
<1>1. call[c] \in CallState /\ call[c].pc # "idle" /\ Working(call[c], binding, server)
  BY OthersWait DEF Inv, Typed, AllWorking
<1>2. call[c].user \in Users /\ call[c].target \in Targets
  BY <1>1 DEF Working
<1>3. OnRecord(call[c], binding, server, lost)
  BY OthersWait DEF Inv, Tracked, OnRecord
<1> QED BY <1>1, <1>2, <1>3 DEF Inv, Typed

LEMMA IdleFacts ==
  /\ Idle \in CallState /\ Idle.pc = "idle"
  /\ \A b, s : Working(Idle, b, s)
BY DEF Idle, CallState, Operations, Working

\* An operation that ends without having changed anything it was about to record.
LEMMA EndKeeps ==
  ASSUME Inv, NEW c \in Callers, Holds(c), End(c), call[c].pc # "save",
         UNCHANGED <<binding, server>>, lost \subseteq lost', lost' \subseteq Targets
  PROVE  Inv'
<1>1. OnRecord(Idle, binding, server, lost')
  BY HolderFinds DEF OnRecord, Idle
<1>2. call' = [call EXCEPT ![c] = Idle] /\ queue' = Released /\ binding' = binding
      /\ server' = server
  BY DEF End
<1> QED BY <1>1, <1>2, HolderFinds, HolderKeeps, IdleFacts DEF NotStale

------------------------------------------------------------------------------
(* Bindings and calls *)

LEMMA BindingFacts ==
  ASSUME NEW b \in Binding
  PROVE  /\ b # NoBinding
         /\ b.user \in Users /\ b.installation \in Targets /\ b.pending \subseteq Targets
         /\ b.phase \in {"bound", "pendingUnbind"}
         /\ Installations(b) \subseteq Targets
         /\ \A left \in SUBSET Targets :
              LET cleaned == [b EXCEPT !.pending = left]
              IN  /\ cleaned \in Binding /\ cleaned.pending = left /\ cleaned.user = b.user
                  /\ cleaned.installation = b.installation /\ cleaned.phase = b.phase
         /\ LET marked == [b EXCEPT !.phase = "pendingUnbind"]
            IN  /\ marked \in Binding /\ marked.pending = b.pending /\ marked.user = b.user
                /\ marked.installation = b.installation /\ marked.phase = "pendingUnbind"
BY BindingAssumption DEF Binding, Installations

\* Where a call goes, and what of it changes.
LEMMA CleaningFacts ==
  ASSUME NEW k \in CallState, NEW b \in Binding, NEW registered \in BOOLEAN
  PROVE  LET next == Cleaning(k, b, registered)
         IN  /\ next \in CallState /\ next.pc = "cleanup" /\ next.copy = b
             /\ next.todo = b.pending /\ next.remaining = {}
             /\ next.user = k.user /\ next.target = k.target
BY BindingFacts DEF Cleaning, CallState

\* bindUserLocked, from a heartbeat too: what is bound is the caller's, and in use.
LEMMA RebindKeeps ==
  ASSUME Inv, NEW c \in Callers, Holds(c), call[c].pc # "save", NEW target \in Targets,
         Rebind(c, target), UNCHANGED <<binding, server, lost>>
  PROVE  Inv'
<1>1. CASE MayBind(call[c].user)
  <2> DEFINE k == [call[c] EXCEPT !.pc = "register", !.target = target, !.copy = binding]
  <2>1. call' = [call EXCEPT ![c] = k] /\ queue' = queue
    BY <1>1 DEF Rebind, GoTo
  <2>2. /\ k \in CallState /\ k.pc = "register" /\ k.copy = binding /\ k.target = target
        /\ k.user = call[c].user
    BY HolderFinds DEF CallState
  <2> HIDE DEF k
  <2>3. Working(k, binding, server)
    BY <1>1, <2>2, HolderFinds DEF Working, MayBind
  <2>4. OnRecord(k, binding, server, lost)
    BY HolderFinds DEF OnRecord
  <2> QED BY <2>1, <2>2, <2>3, <2>4, HolderFinds, HolderKeeps DEF NotStale
<1>2. CASE ~MayBind(call[c].user)
  BY <1>2, HolderFinds, EndKeeps DEF Rebind
<1> QED BY <1>1, <1>2

\* An unchanged binding goes to its cleanup.
LEMMA CleaningKeeps ==
  ASSUME Inv, NEW c \in Callers, Holds(c), call[c].pc # "save",
         binding # NoBinding, MayBind(call[c].user),
         GoTo(c, Cleaning(call[c], binding, FALSE)), UNCHANGED <<binding, server, lost>>
  PROVE  Inv'
<1> DEFINE k == Cleaning(call[c], binding, FALSE)
<1>1. binding \in Binding /\ binding.user = call[c].user /\ binding.phase = "bound"
  BY HolderFinds DEF MayBind
<1>2. /\ k \in CallState /\ k.pc = "cleanup" /\ k.copy = binding
      /\ k.todo = binding.pending /\ k.remaining = {}
      /\ k.user = call[c].user /\ k.target = call[c].target
  BY <1>1, HolderFinds, CleaningFacts
<1>3. call' = [call EXCEPT ![c] = k] /\ queue' = queue
  BY DEF GoTo
<1> HIDE DEF k
<1>4. Working(k, binding, server)
  BY <1>1, <1>2, HolderFinds DEF Working
<1>5. OnRecord(k, binding, server, lost)
  BY HolderFinds DEF OnRecord
<1> QED BY <1>2, <1>3, <1>4, <1>5, HolderFinds, HolderKeeps DEF NotStale

LEMMA BeginBindKeeps ==
  ASSUME Inv, NEW c \in Callers, BeginBind(c) PROVE Inv' /\ Switch
<1>1. Holds(c) /\ call[c].pc = "begin" /\ UNCHANGED <<binding, server, lost>>
  BY DEF BeginBind
<1>2. call[c].target \in Targets
  BY <1>1, HolderFinds
<1>3. Inv'
  BY <1>1, <1>2, RebindKeeps, CleaningKeeps DEF BeginBind
<1> QED BY <1>1, <1>3 DEF Switch

LEMMA BeginHeartbeatKeeps ==
  ASSUME Inv, NEW c \in Callers, BeginHeartbeat(c) PROVE Inv' /\ Switch
<1>1. Holds(c) /\ call[c].pc = "begin" /\ UNCHANGED <<binding, server, lost>>
  BY DEF BeginHeartbeat
<1>2. Inv'
  <2>1. CASE binding # NoBinding /\ MayBind(call[c].user)
    BY <1>1, <2>1, CleaningKeeps DEF BeginHeartbeat
  <2>2. CASE ~(binding # NoBinding /\ MayBind(call[c].user))
    BY <1>1, <2>2, HolderFinds, EndKeeps DEF BeginHeartbeat
  <2> QED BY <2>1, <2>2
<1> QED BY <1>1, <1>2 DEF Switch

\* A deletion touches the server's record of one address, and only the caller's own.
LEMMA DeletedFacts ==
  ASSUME Inv, NEW t \in Targets, NEW user \in Users, NEW applied \in BOOLEAN,
         server' = IF applied THEN Deleted(t, user) ELSE server
  PROVE  /\ server' \in [Targets -> Users \cup {Nobody}]
         /\ \A x \in Targets : server'[x] \in {server[x], Nobody}
         /\ applied => server'[t] # user
BY UserAssumption DEF Deleted, Inv, Typed

\* Fewer records at the server leave everything on record.
LEMMA StillOnRecord ==
  ASSUME NEW k, NEW next, NEW b, NEW s, NEW after, NEW forgotten,
         OnRecord(k, b, s, forgotten), k.pc # "save",
         \A x \in Targets : after[x] \in {s[x], Nobody}
  PROVE  OnRecord(next, b, after, forgotten)
BY DEF OnRecord

LEMMA CleanupDeleteKeeps ==
  ASSUME Inv, NEW c \in Callers, CleanupDelete(c) PROVE Inv' /\ Switch
<1>1. Holds(c) /\ call[c].pc = "cleanup" /\ UNCHANGED <<binding, lost>>
  BY DEF CleanupDelete
<1>2. PICK t \in call[c].todo, ok \in BOOLEAN, applied \in BOOLEAN :
       /\ ok => applied
       /\ server' = IF applied THEN Deleted(t, call[c].user) ELSE server
       /\ GoTo(c, [call[c] EXCEPT !.todo = @ \ {t},
                                  !.remaining = IF ok THEN @ ELSE KeepFailed(call[c], t)])
  BY DEF CleanupDelete
<1> DEFINE left == IF ok THEN call[c].remaining ELSE call[c].remaining \cup {t}
           k == [call[c] EXCEPT !.todo = call[c].todo \ {t}, !.remaining = left]
<1>3. call[c] \in CallState /\ t \in Targets /\ left \in SUBSET Targets
  BY <1>1, HolderFinds DEF CallState
<1>4. call' = [call EXCEPT ![c] = k] /\ queue' = queue
  BY <1>2 DEF GoTo, KeepFailed
<1>5. /\ k \in CallState /\ k.pc = "cleanup" /\ k.copy = call[c].copy
      /\ k.user = call[c].user /\ k.target = call[c].target
      /\ k.todo = call[c].todo \ {t} /\ k.remaining = left
  <2> HIDE DEF left
  <2> QED BY <1>1, <1>3 DEF CallState
<1>6. /\ server' \in [Targets -> Users \cup {Nobody}]
      /\ \A x \in Targets : server'[x] \in {server[x], Nobody}
      /\ ok => server'[t] # call[c].user
  BY <1>1, <1>2, <1>3, HolderFinds, DeletedFacts
<1> HIDE DEF k
<1>7. Working(k, binding', server')
  <2>1. Working(call[c], binding, server) /\ call[c].user \in Users
    BY <1>1, HolderFinds
  <2>2. call[c].copy \in Binding /\ call[c].copy.pending \subseteq Targets
    BY <1>1, <2>1, BindingFacts DEF Working
  <2>3. k.todo \cup k.remaining \subseteq k.copy.pending
    BY <1>1, <1>5, <2>1 DEF Working
  <2>4. ASSUME NEW x \in k.copy.pending \ (k.todo \cup k.remaining) PROVE server'[x] # k.user
    <3>1. CASE x = t
      BY <1>5, <1>6, <2>4, <3>1
    <3>2. CASE x # t
      <4>1. server[x] # call[c].user
        BY <1>1, <1>5, <2>1, <2>4, <3>2 DEF Working
      <4> QED BY <1>5, <1>6, <2>1, <2>2, <4>1, UserAssumption
    <3> QED BY <3>1, <3>2
  <2> QED BY <1>1, <1>5, <2>1, <2>3, <2>4 DEF Working
<1>8. OnRecord(k, binding', server', lost')
  BY <1>1, <1>6, HolderFinds, StillOnRecord
<1>9. Inv'
  BY <1>1, <1>4, <1>5, <1>6, <1>7, <1>8, HolderFinds, HolderKeeps DEF NotStale
<1> QED BY <1>1, <1>9 DEF Switch

\* The end of a cleanup: a deleted address leaves the record, a failed one stays on it.
LEMMA CleanupSaveKeeps ==
  ASSUME Inv, NEW c \in Callers, CleanupSave(c) PROVE Inv' /\ Switch
<1> DEFINE old == call[c].copy
           cleaned == [call[c].copy EXCEPT !.pending = call[c].remaining]
           beat == [call[c] EXCEPT !.pc = "beat", !.copy = cleaned]
           k == IF call[c].registered THEN Idle ELSE beat
<1>1. /\ Holds(c) /\ call[c].pc = "cleanup" /\ call[c].todo = {}
      /\ server' = server /\ lost' = lost
  BY DEF CleanupSave
<1>2. /\ call[c] \in CallState /\ Working(call[c], binding, server)
      /\ OnRecord(call[c], binding, server, lost) /\ NotStale
      /\ call[c].remaining \in SUBSET Targets /\ call[c].user \in Users
  BY <1>1, HolderFinds DEF CallState
<1>3. /\ old = binding /\ old \in Binding /\ old.user = call[c].user /\ old.phase = "bound"
      /\ call[c].remaining \subseteq old.pending
      /\ \A t \in old.pending \ call[c].remaining : server[t] # call[c].user
      /\ old # NoBinding
  <2>1. old \in Binding
    BY <1>1, <1>2 DEF Working
  <2>2. old # NoBinding
    BY <2>1, BindingFacts
  <2> QED BY <1>1, <1>2, <2>1, <2>2 DEF Working
<1>4. /\ cleaned \in Binding /\ cleaned # NoBinding /\ cleaned.pending = call[c].remaining
      /\ cleaned.user = old.user /\ cleaned.installation = old.installation
      /\ cleaned.phase = old.phase
  <2> DEFINE left == call[c].remaining
             next == [old EXCEPT !.pending = left]
  <2>1. left \in SUBSET Targets /\ old \in Binding /\ cleaned = next
    BY <1>2, <1>3
  <2> HIDE DEF old, left, cleaned
  <2>2. /\ next \in Binding /\ next.pending = left /\ next.user = old.user
        /\ next.installation = old.installation /\ next.phase = old.phase
    BY <2>1, BindingFacts
  <2>3. next # NoBinding
    BY <2>2, BindingFacts
  <2> QED BY <2>1, <2>2, <2>3 DEF left
<1>5. binding' = cleaned
  BY <1>3 DEF CleanupSave, Save
<1>6. /\ call' = [call EXCEPT ![c] = k]
      /\ \/ k.pc # "idle" /\ queue' = queue
         \/ k.pc = "idle" /\ queue' = Released
      /\ k \in CallState
      /\ Working(k, cleaned, server)
  <2>1. CASE call[c].registered
    BY <2>1, IdleFacts DEF CleanupSave, End
  <2>2. CASE ~call[c].registered
    <3>1. call' = [call EXCEPT ![c] = beat] /\ queue' = queue
      BY <2>2 DEF CleanupSave, GoTo
    <3> HIDE DEF cleaned
    <3>2. /\ beat \in CallState /\ beat.pc = "beat" /\ beat.copy = cleaned
          /\ beat.user = call[c].user /\ beat.target = call[c].target
      BY <1>2, <1>4 DEF CallState
    <3> HIDE DEF beat
    <3>3. Working(beat, cleaned, server)
      BY <1>1, <1>3, <1>4, <3>2, HolderFinds DEF Working
    <3> QED BY <2>2, <3>1, <3>2, <3>3
  <2> QED BY <2>1, <2>2
<1> HIDE DEF k, cleaned, old
<1>7. OnRecord(k, cleaned, server, lost)
  <2> SUFFICES ASSUME NEW t \in Targets, server[t] # Nobody, t \notin lost
               PROVE  cleaned.user = server[t] /\ t \in Installations(cleaned)
    BY <1>4 DEF OnRecord
  <2>1. binding.user = server[t] /\ t \in Installations(binding)
    BY <1>1, <1>2 DEF OnRecord
  <2>2. t \notin old.pending \ call[c].remaining
    BY <1>3, <2>1
  <2> QED BY <1>3, <1>4, <2>1, <2>2 DEF Installations
<1>8. NotStale'
  BY <1>2, <1>3, <1>4, <1>5 DEF NotStale
<1>9. Inv'
  BY <1>1, <1>4, <1>5, <1>6, <1>7, <1>8, HolderFinds, HolderKeeps
<1>10. Switch
  BY <1>3, <1>4, <1>5 DEF Switch
<1> QED BY <1>9, <1>10

LEMMA BeatKeeps ==
  ASSUME Inv, NEW c \in Callers, NotDue(c) \/ MetadataChanged(c) \/ Beat(c)
  PROVE  Inv' /\ Switch
<1>1. Holds(c) /\ call[c].pc = "beat" /\ server' = server /\ lost' = lost
  BY DEF NotDue, MetadataChanged, Beat
<1>2. call[c].copy = binding /\ binding \in Binding /\ binding.installation \in Targets
  <2>1. Working(call[c], binding, server)
    BY <1>1, HolderFinds
  <2>2. call[c].copy = binding /\ binding \in Binding
    BY <1>1, <2>1 DEF Working
  <2> QED BY <2>2, BindingFacts
<1>3. binding' = binding
  BY <1>1, <1>2 DEF NotDue, MetadataChanged, Beat, Save
<1>4. End(c) \/ Rebind(c, binding.installation)
  BY <1>2 DEF NotDue, MetadataChanged, Beat
<1>5. Inv'
  <2>1. CASE End(c)
    BY <1>1, <1>3, <2>1, HolderFinds, EndKeeps
  <2>2. CASE Rebind(c, binding.installation)
    BY <1>1, <1>2, <1>3, <2>2, RebindKeeps
  <2> QED BY <1>4, <2>1, <2>2
<1> QED BY <1>3, <1>5 DEF Switch

\* A registration is about to be recorded, or it is lost.
LEMMA RegisterKeeps ==
  ASSUME Inv, NEW c \in Callers, Register(c) PROVE Inv' /\ Switch
<1>1. Holds(c) /\ call[c].pc = "register" /\ binding' = binding
  BY DEF Register
<1>2. PICK ok \in BOOLEAN, applied \in BOOLEAN :
       /\ ok => applied
       /\ server' = IF applied THEN [server EXCEPT ![call[c].target] = call[c].user]
                    ELSE server
       /\ IF ok THEN GoTo(c, [call[c] EXCEPT !.pc = "save"]) ELSE End(c)
       /\ lost' = IF applied /\ ~ok THEN lost \cup {call[c].target} ELSE lost
  BY DEF Register
<1> DEFINE saving == [call[c] EXCEPT !.pc = "save"]
           k == IF ok THEN saving ELSE Idle
<1>3. /\ call[c] \in CallState /\ call[c].user \in Users /\ call[c].target \in Targets
      /\ Working(call[c], binding, server) /\ OnRecord(call[c], binding, server, lost)
  BY <1>1, HolderFinds
<1>4. /\ server' \in [Targets -> Users \cup {Nobody}] /\ lost' \subseteq Targets
      /\ lost \subseteq lost'
      /\ \A t \in Targets : t # call[c].target => server'[t] = server[t]
      /\ applied => server'[call[c].target] = call[c].user
      /\ ~applied => server' = server
      /\ applied /\ ~ok => call[c].target \in lost'
  BY <1>2, <1>3 DEF Inv, Typed
<1>5. saving \in CallState /\ saving.pc = "save" /\ saving.copy = call[c].copy
      /\ saving.user = call[c].user /\ saving.target = call[c].target
  BY <1>3 DEF CallState
<1>6. /\ call' = [call EXCEPT ![c] = k]
      /\ \/ k.pc # "idle" /\ queue' = queue
         \/ k.pc = "idle" /\ queue' = Released
      /\ k \in CallState
  BY <1>2, <1>5, IdleFacts DEF GoTo, End
<1> HIDE DEF saving
<1>7. Working(k, binding, server')
  <2>1. ok => Working(saving, binding, server')
    BY <1>1, <1>2, <1>3, <1>4, <1>5 DEF Working
  <2> QED BY <2>1, IdleFacts
<1>8. OnRecord(k, binding, server', lost')
  <2>1. ASSUME NEW t \in Targets, server'[t] # Nobody, t \notin lost',
               ~(ok /\ t = call[c].target)
        PROVE  binding # NoBinding /\ binding.user = server'[t] /\ t \in Installations(binding)
    <3>1. server'[t] = server[t]
      BY <1>4, <2>1
    <3> QED BY <1>1, <1>3, <1>4, <2>1, <3>1 DEF OnRecord
  <2>2. ok => server'[call[c].target] = call[c].user
    BY <1>2, <1>4
  <2> QED BY <1>5, <2>1, <2>2 DEF OnRecord
<1> HIDE DEF k
<1>9. Inv'
  BY <1>1, <1>4, <1>6, <1>7, <1>8, HolderFinds, HolderKeeps DEF NotStale
<1> QED BY <1>1, <1>9 DEF Switch

\* The new binding records the registration, and as stale all that the old one recorded.
LEMMA SaveBindingKeeps ==
  ASSUME Inv, NEW c \in Callers, SaveBinding(c) PROVE Inv' /\ Switch
<1> DEFINE old == call[c].copy
           target == call[c].target
           stale == Stale(call[c].copy, call[c].target)
           new == [user |-> call[c].user, installation |-> call[c].target, phase |-> "bound",
                   pending |-> stale]
           k == Cleaning(call[c], new, TRUE)
<1>1. /\ Holds(c) /\ call[c].pc = "save" /\ binding' = new /\ server' = server
      /\ lost' = lost \ {target}
      /\ call' = [call EXCEPT ![c] = k] /\ queue' = queue
  BY DEF SaveBinding, Save, GoTo
<1>2. /\ call[c] \in CallState /\ call[c].user \in Users /\ target \in Targets
      /\ Working(call[c], binding, server) /\ OnRecord(call[c], binding, server, lost)
      /\ old = binding /\ (old # NoBinding => old.user = call[c].user /\ old.phase = "bound")
      /\ server[target] \in {call[c].user, Nobody}
      /\ binding \in Binding \cup {NoBinding} /\ lost \subseteq Targets
  BY <1>1, HolderFinds DEF Working
<1>3. /\ stale \in SUBSET Targets /\ target \notin stale
      /\ old # NoBinding => Installations(old) \subseteq stale \cup {target}
  BY <1>2, BindingFacts DEF Stale
<1> HIDE DEF stale
<1>4. /\ new \in Binding /\ new.user = call[c].user /\ new.installation = target
      /\ new.phase = "bound" /\ new.pending = stale
      /\ Installations(new) = stale \cup {target}
  BY <1>2, <1>3 DEF Binding, Installations
<1> HIDE DEF new
<1>5. new # NoBinding
  BY <1>4, BindingFacts
<1>6. /\ k \in CallState /\ k.pc = "cleanup" /\ k.copy = new
      /\ k.todo = stale /\ k.remaining = {}
      /\ k.user = call[c].user /\ k.target = target
  BY <1>2, <1>4, CleaningFacts
<1> HIDE DEF k, old, target
<1>7. Working(k, new, server)
  BY <1>2, <1>4, <1>6 DEF Working
<1>8. OnRecord(k, new, server, lost')
  <2> SUFFICES ASSUME NEW t \in Targets, server[t] # Nobody, t \notin lost'
               PROVE  new.user = server[t] /\ t \in Installations(new)
    BY <1>5 DEF OnRecord
  <2>1. CASE t = target
    BY <1>2, <1>4, <2>1
  <2>2. CASE t # target
    <3>1. old # NoBinding /\ old.user = server[t] /\ t \in Installations(old)
      BY <1>1, <1>2, <2>2 DEF OnRecord, target
    <3> QED BY <1>2, <1>3, <1>4, <3>1
  <2> QED BY <2>1, <2>2
<1>9. NotStale'
  BY <1>1, <1>3, <1>4 DEF NotStale
<1>10. binding' \in Binding \cup {NoBinding} /\ lost' \subseteq Targets /\ k.pc # "idle"
  BY <1>1, <1>2, <1>4, <1>6
<1>11. Inv'
  BY <1>1, <1>6, <1>7, <1>8, <1>9, <1>10, HolderFinds, HolderKeeps
<1>12. Switch
  BY <1>1, <1>2, <1>4, <1>5 DEF Switch
<1> QED BY <1>11, <1>12

------------------------------------------------------------------------------
(* unbindUser, markPendingUnbind and the forgetting of a binding *)

LEMMA BeginUnbindKeeps ==
  ASSUME Inv, NEW c \in Callers, BeginUnbind(c) PROVE Inv' /\ Switch
<1>1. Holds(c) /\ call[c].pc = "begin" /\ server' = server /\ lost' = lost
  BY DEF BeginUnbind
<1>2. CASE binding # NoBinding /\ OwnerOnly(call[c].user)
  <2> DEFINE marked == [binding EXCEPT !.phase = "pendingUnbind"]
             k == [call[c] EXCEPT !.pc = "delete", !.copy = binding,
                                  !.todo = Installations(binding)]
  <2>1. binding' = marked /\ call' = [call EXCEPT ![c] = k] /\ queue' = queue
    BY <1>2 DEF BeginUnbind, MarkPending, Save, GoTo
  <2>2. /\ call[c] \in CallState /\ call[c].user \in Users /\ call[c].target \in Targets
        /\ OnRecord(call[c], binding, server, lost) /\ NotStale
        /\ binding \in Binding /\ binding.user = call[c].user
    BY <1>1, <1>2, HolderFinds DEF OwnerOnly
  <2>3. /\ Installations(binding) \in SUBSET Targets
        /\ marked \in Binding /\ marked.pending = binding.pending
        /\ marked.user = binding.user /\ marked.installation = binding.installation
        /\ marked.phase = "pendingUnbind"
    BY <2>2, BindingFacts
  <2>4. /\ k \in CallState /\ k.pc = "delete" /\ k.copy = binding
        /\ k.todo = Installations(binding) /\ k.user = call[c].user
        /\ k.target = call[c].target
    <3> DEFINE all == Installations(binding)
    <3> HIDE DEF all
    <3> QED BY <2>2, <2>3 DEF CallState, all
  <2>5. marked # NoBinding /\ Installations(marked) = Installations(binding)
    BY <2>3, BindingFacts DEF Installations
  <2>6. marked = [k.copy EXCEPT !.phase = "pendingUnbind"]
    BY <2>4
  <2> HIDE DEF marked, k
  <2>7. Working(k, marked, server)
    BY <2>2, <2>4, <2>6 DEF Working
  <2>8. OnRecord(k, marked, server, lost)
    BY <1>1, <1>2, <2>2, <2>3, <2>5 DEF OnRecord
  <2>9. NotStale' /\ Switch
    BY <1>2, <2>1, <2>2, <2>3, <2>5 DEF NotStale, Switch
  <2> QED BY <1>1, <2>1, <2>3, <2>4, <2>7, <2>8, <2>9, HolderFinds, HolderKeeps
<1>3. CASE ~(binding # NoBinding /\ OwnerOnly(call[c].user))
  BY <1>1, <1>3, HolderFinds, EndKeeps DEF BeginUnbind, Switch
<1> QED BY <1>2, <1>3

LEMMA UnbindDeleteKeeps ==
  ASSUME Inv, NEW c \in Callers, UnbindDelete(c) PROVE Inv' /\ Switch
<1>1. Holds(c) /\ call[c].pc = "delete" /\ binding' = binding /\ lost' = lost
  BY DEF UnbindDelete
<1>2. PICK t \in call[c].todo, ok \in BOOLEAN, applied \in BOOLEAN :
       /\ ok => applied
       /\ server' = IF applied THEN Deleted(t, call[c].user) ELSE server
       /\ StopAtFailed(c, t, ok)
  BY DEF UnbindDelete
<1> DEFINE left == [call[c] EXCEPT !.todo = @ \ {t}]
           k == IF ok THEN left ELSE Idle
<1>3. /\ call[c] \in CallState /\ call[c].user \in Users /\ call[c].target \in Targets
      /\ Working(call[c], binding, server) /\ OnRecord(call[c], binding, server, lost)
      /\ t \in Targets
  BY <1>1, HolderFinds DEF CallState
<1>4. /\ left \in CallState /\ left.pc = "delete" /\ left.copy = call[c].copy
      /\ left.user = call[c].user /\ left.target = call[c].target
      /\ left.todo = call[c].todo \ {t}
  BY <1>1, <1>3 DEF CallState
<1>5. /\ call' = [call EXCEPT ![c] = k]
      /\ \/ k.pc # "idle" /\ queue' = queue
         \/ k.pc = "idle" /\ queue' = Released
      /\ k \in CallState
  BY <1>2, <1>4, IdleFacts DEF StopAtFailed, GoTo, End
<1>6. /\ server' \in [Targets -> Users \cup {Nobody}]
      /\ \A x \in Targets : server'[x] \in {server[x], Nobody}
      /\ ok => server'[t] # call[c].user
  BY <1>2, <1>3, DeletedFacts
<1> HIDE DEF left
<1>7. ok => Working(left, binding, server')
  <2> SUFFICES ASSUME ok PROVE Working(left, binding, server')
    OBVIOUS
  <2>1. call[c].copy \in Binding /\ Installations(call[c].copy) \subseteq Targets
    <3>1. call[c].copy \in Binding
      BY <1>1, <1>3 DEF Working
    <3> QED BY <3>1, BindingFacts
  <2>2. ASSUME NEW x \in Installations(left.copy) \ left.todo PROVE server'[x] # left.user
    <3>1. CASE x = t
      BY <1>4, <1>6, <3>1
    <3>2. CASE x # t
      <4>1. server[x] # call[c].user
        BY <1>1, <1>3, <1>4, <2>2, <3>2 DEF Working
      <4> QED BY <1>3, <1>4, <1>6, <2>1, <4>1, UserAssumption
    <3> QED BY <3>1, <3>2
  <2> QED BY <1>1, <1>3, <1>4, <2>2 DEF Working
<1>8. Working(k, binding, server')
  BY <1>7, IdleFacts
<1>9. OnRecord(k, binding, server', lost)
  BY <1>1, <1>3, <1>6, StillOnRecord
<1> HIDE DEF k
<1>10. Inv'
  BY <1>1, <1>5, <1>6, <1>8, <1>9, HolderFinds, HolderKeeps DEF NotStale
<1> QED BY <1>1, <1>10 DEF Switch

\* An unbind clears the binding once the server has none of its installations.
LEMMA UnbindClearKeeps ==
  ASSUME Inv, NEW c \in Callers, UnbindClear(c) PROVE Inv' /\ Switch
<1>1. /\ Holds(c) /\ call[c].pc = "delete" /\ call[c].todo = {} /\ binding' = NoBinding
      /\ server' = server /\ lost' = lost
      /\ call' = [call EXCEPT ![c] = Idle] /\ queue' = Released
  BY DEF UnbindClear, Save, End
<1>2. Working(call[c], binding, server) /\ OnRecord(call[c], binding, server, lost)
  BY <1>1, HolderFinds
<1>3. /\ call[c].copy \in Binding /\ call[c].copy.user = call[c].user
      /\ binding = [call[c].copy EXCEPT !.phase = "pendingUnbind"]
      /\ \A t \in Installations(call[c].copy) : server[t] # call[c].user
  BY <1>1, <1>2 DEF Working
<1>4. binding.user = call[c].user /\ Installations(binding) = Installations(call[c].copy)
  BY <1>3, BindingFacts DEF Installations
<1>5. \A t \in Installations(binding) : server[t] # binding.user
  BY <1>3, <1>4
<1>6. OnRecord(Idle, NoBinding, server, lost)
  BY <1>1, <1>2, <1>5 DEF OnRecord
<1>7. Inv'
  BY <1>1, <1>6, HolderFinds, HolderKeeps, IdleFacts DEF NotStale
<1> QED BY <1>1, <1>5, <1>7 DEF Switch

LEMMA MarkKeeps ==
  ASSUME Inv, NEW c \in Callers, Mark(c) PROVE Inv' /\ Switch
<1>1. /\ Holds(c) /\ call[c].pc = "begin" /\ End(c) /\ server' = server /\ lost' = lost
      /\ call' = [call EXCEPT ![c] = Idle] /\ queue' = Released
  BY DEF Mark, End
<1>2. OnRecord(call[c], binding, server, lost) /\ NotStale
  BY <1>1, HolderFinds
<1>3. CASE binding # NoBinding /\ OwnerOnly(call[c].user)
  <2> DEFINE marked == [binding EXCEPT !.phase = "pendingUnbind"]
  <2>1. binding' = marked
    BY <1>3 DEF Mark, MarkPending, Save
  <2>2. binding \in Binding
    BY <1>1, <1>3, HolderFinds
  <2>3. /\ marked \in Binding /\ marked.pending = binding.pending
        /\ marked.user = binding.user /\ marked.installation = binding.installation
        /\ marked.phase = "pendingUnbind"
    BY <2>2, BindingFacts
  <2>4. marked # NoBinding /\ Installations(marked) = Installations(binding)
    BY <2>3, BindingFacts DEF Installations
  <2> HIDE DEF marked
  <2>5. OnRecord(Idle, marked, server, lost)
    BY <1>1, <1>2, <2>3, <2>4 DEF OnRecord
  <2>6. NotStale' /\ Switch
    BY <1>2, <1>3, <2>1, <2>3, <2>4 DEF NotStale, Switch
  <2> QED BY <1>1, <2>1, <2>3, <2>5, <2>6, HolderFinds, HolderKeeps, IdleFacts
<1>4. CASE ~(binding # NoBinding /\ OwnerOnly(call[c].user))
  BY <1>1, <1>4, HolderFinds, EndKeeps DEF Mark, Switch
<1> QED BY <1>3, <1>4

LEMMA ForgetKeeps ==
  ASSUME Inv, NEW c \in Callers, Forget(c) PROVE Inv' /\ Switch
<1>1. /\ Holds(c) /\ call[c].pc = "begin" /\ End(c) /\ server' = server
      /\ call' = [call EXCEPT ![c] = Idle] /\ queue' = Released
  BY DEF Forget, End
<1>2. OnRecord(call[c], binding, server, lost) /\ lost \subseteq Targets
  BY <1>1, HolderFinds
<1>3. CASE binding # NoBinding /\ OwnerOnly(call[c].user)
  <2>1. binding' = NoBinding /\ lost' = lost \cup Installations(binding)
    BY <1>3 DEF Forget, Save
  <2>2. Installations(binding) \subseteq Targets
    BY <1>1, <1>3, HolderFinds, BindingFacts
  <2>3. OnRecord(Idle, NoBinding, server, lost')
    BY <1>1, <1>2, <2>1 DEF OnRecord
  <2>4. NotStale' /\ Switch
    BY <2>1 DEF NotStale, Switch
  <2> QED BY <1>1, <1>2, <2>1, <2>2, <2>3, <2>4, HolderFinds, HolderKeeps, IdleFacts
<1>4. CASE ~(binding # NoBinding /\ OwnerOnly(call[c].user))
  BY <1>1, <1>4, HolderFinds, EndKeeps DEF Forget, Switch
<1> QED BY <1>3, <1>4

------------------------------------------------------------------------------
(* Calls, crashes and the server *)

\* A call goes behind the others.
LEMMA CallKeeps ==
  ASSUME Inv, NEW c \in Callers, NEW op \in Used, NEW user \in Users, NEW target \in Targets,
         Call(c, op, user, target)
  PROVE  Inv' /\ Switch
<1> DEFINE k == [Idle EXCEPT !.pc = "begin", !.op = op, !.user = user, !.target = target]
<1>1. /\ call[c].pc = "idle" /\ call' = [call EXCEPT ![c] = k] /\ queue' = Append(queue, c)
      /\ UNCHANGED <<binding, server, lost>>
  BY DEF Call
<1>2. k \in CallState /\ k.pc = "begin" /\ k.user = user /\ k.target = target
  BY UsedAssumption DEF CallState, Idle, Operations
<1> HIDE DEF k
<1>3. /\ call' \in [Callers -> CallState] /\ call'[c] = k
      /\ \A d \in Callers : d # c => call'[d] = call[d]
  BY <1>1, <1>2 DEF Inv, Typed
<1>4. /\ queue \in Seq(Callers) /\ queue' \in Seq(Callers) /\ Len(queue) \in Nat
      /\ Len(queue') = Len(queue) + 1
      /\ \A i \in 1 .. Len(queue) : queue'[i] = queue[i] /\ queue[i] # c
      /\ queue'[Len(queue')] = c
  BY <1>1 DEF Inv, Typed, Queued
<1>5. Typed'
  BY <1>1, <1>3, <1>4 DEF Inv, Typed
<1>6. Queued'
  <2>1. \A i \in 1 .. Len(queue') : i \in 1 .. Len(queue) \/ i = Len(queue')
    BY <1>4
  <2>2. \A i, j \in 1 .. Len(queue') : queue'[i] = queue'[j] => i = j
    BY <1>4, <2>1 DEF Inv, Queued
  <2>3. Len(queue') \in 1 .. Len(queue') /\ \A i \in 1 .. Len(queue) : i \in 1 .. Len(queue')
    BY <1>4
  <2>4. \A d \in Callers : (\E i \in 1 .. Len(queue') : queue'[i] = d)
                             <=> d = c \/ \E i \in 1 .. Len(queue) : queue[i] = d
    BY <1>4, <2>1, <2>3
  <2>5. \A d \in Callers : Holds(d) => Holds(d)'
    BY <1>1, <1>4 DEF Holds
  <2>6. ASSUME NEW d \in Callers
        PROVE  /\ call'[d].pc # "idle" <=> \E i \in 1 .. Len(queue') : queue'[i] = d
               /\ call'[d].pc \notin {"idle", "begin"} => Holds(d)'
    BY <1>2, <1>3, <2>4, <2>5 DEF Inv, Queued
  <2> QED BY <2>2, <2>6 DEF Queued
<1>7. AllWorking'
  <2>1. Working(k, binding, server)
    BY <1>2 DEF Working
  <2> QED BY <1>1, <1>3, <2>1 DEF Inv, AllWorking
<1>8. Tracked'
  BY <1>1, <1>3 DEF Inv, Tracked
<1> QED BY <1>1, <1>5, <1>6, <1>7, <1>8 DEF Inv, NotStale, Switch

\* A crash takes the calls, and the memory of a registration that was not saved.
LEMMA CrashKeeps ==
  ASSUME Inv, Crash PROVE Inv' /\ Switch
<1>1. /\ call' = [c \in Callers |-> Idle] /\ queue' = <<>>
      /\ lost' = lost \cup {call[c].target : c \in {d \in Callers : call[d].pc = "save"}}
      /\ binding' = binding /\ server' = server
  BY DEF Crash
<1>2. \A c \in Callers : call[c].pc = "save" => call[c].target \in Targets
  BY DEF Inv, AllWorking, Working
<1>3. Typed'
  BY <1>1, <1>2, IdleFacts DEF Inv, Typed
<1>4. Queued'
  BY <1>1, IdleFacts DEF Queued
<1>5. AllWorking'
  BY <1>1, IdleFacts DEF AllWorking
<1>6. Tracked'
  BY <1>1 DEF Inv, Tracked
<1> QED BY <1>1, <1>3, <1>4, <1>5, <1>6 DEF Inv, NotStale, Switch

LEMMA ServerDropsKeeps ==
  ASSUME Inv, NEW t \in Targets, ServerDrops(t) PROVE Inv' /\ Switch
<1>1. /\ UNCHANGED <<binding, call, queue, lost>>
      /\ server' \in [Targets -> Users \cup {Nobody}]
      /\ \A x \in Targets : server'[x] \in {server[x], Nobody}
  BY DEF ServerDrops, Inv, Typed
<1>2. ASSUME NEW c \in Callers PROVE Working(call[c], binding, server')
  <2>1. Working(call[c], binding, server)
    BY DEF Inv, AllWorking
  <2>2. ASSUME call[c].copy \in Binding, call[c].pc \in {"cleanup", "delete"}
        PROVE  /\ Installations(call[c].copy) \subseteq Targets
               /\ call[c].copy.pending \subseteq Targets
               /\ call[c].user # Nobody
    BY <2>1, <2>2, BindingFacts, UserAssumption DEF Working
  <2> QED BY <1>1, <2>1, <2>2 DEF Working
<1>3. AllWorking'
  BY <1>1, <1>2 DEF AllWorking
<1>4. Typed' /\ Queued' /\ NotStale'
  BY <1>1 DEF Inv, Typed, Queued, Holds, NotStale
<1>5. Tracked'
  BY <1>1 DEF Inv, Tracked
<1> QED BY <1>1, <1>3, <1>4, <1>5 DEF Inv, Switch

------------------------------------------------------------------------------
(* Theorems *)

LEMMA InitInv == Init => Inv
<1> SUFFICES ASSUME Init PROVE Inv
  OBVIOUS
<1>1. Typed
  BY IdleFacts DEF Init, Typed
<1>2. Queued
  BY IdleFacts DEF Init, Queued
<1>3. AllWorking
  BY IdleFacts DEF Init, AllWorking
<1> QED BY <1>1, <1>2, <1>3 DEF Init, Inv, NotStale, Tracked

LEMMA NextKeeps == Inv /\ [Next]_vars => Inv' /\ [Switch]_vars
<1> SUFFICES ASSUME Inv, [Next]_vars PROVE Inv' /\ [Switch]_vars
  OBVIOUS
<1>1. ASSUME NEW c \in Callers, Step(c) PROVE Inv' /\ Switch
  <2>1. CASE Canceled(c)
    BY <2>1, HolderFinds, EndKeeps DEF Canceled, Switch
  <2> QED BY <1>1, <2>1, BeginBindKeeps, BeginHeartbeatKeeps, CleanupDeleteKeeps,
             CleanupSaveKeeps, BeatKeeps, RegisterKeeps, SaveBindingKeeps, BeginUnbindKeeps,
             UnbindDeleteKeeps, UnbindClearKeeps, MarkKeeps, ForgetKeeps
          DEF Step
<1>2. CASE UNCHANGED vars
  <2>1. Typed' /\ Queued' /\ AllWorking' /\ NotStale'
    BY <1>2 DEF vars, Inv, Typed, Queued, Holds, AllWorking, NotStale
  <2>2. Tracked'
    BY <1>2 DEF vars, Inv, Tracked
  <2> QED BY <1>2, <2>1, <2>2 DEF Inv
<1> QED BY <1>1, <1>2, CallKeeps, CrashKeeps, ServerDropsKeeps DEF Next

LEMMA Invariance == Spec => []Inv
BY InitInv, NextKeeps, PTL DEF Spec

\* Every variable keeps its type, and no caller waits twice for the lock.
THEOREM TypesHold == Spec => []TypeOK
<1>1. Inv => TypeOK
  <2> SUFFICES ASSUME Inv PROVE TypeOK
    OBVIOUS
  <2>1. \A c \in Callers : call[c] \in CallState
    BY DEF Inv, Typed
  <2>2. DOMAIN queue = 1 .. Len(queue)
    BY DEF Inv, Typed
  <2> QED BY <2>1, <2>2 DEF Inv, Typed, Queued, CallState, TypeOK
<1> QED BY <1>1, Invariance, PTL

\* No operation works on a stale copy (NotificationInstallationOperationLock).
THEOREM BindingCurrentHolds == Spec => []BindingCurrent
<1>1. Inv => BindingCurrent
  BY DEF Inv, AllWorking, Working, BindingCurrent
<1> QED BY <1>1, Invariance, PTL

\* Every registration at the server is on record at the device, about to be, or lost.
THEOREM TrackedHolds == Spec => []Tracked
<1>1. Inv => Tracked
  BY DEF Inv
<1> QED BY <1>1, Invariance, PTL

\* The bound installation is in no list of stale ones.
THEOREM AuthoritativeKeptHolds == Spec => []AuthoritativeKept
<1>1. Inv => AuthoritativeKept
  BY DEF Inv, NotStale, AllWorking, Working, AuthoritativeKept
<1> QED BY <1>1, Invariance, PTL

\* A binding changes its user only by way of no binding, a pending unbind is never bound
\* again, and an unbind clears it only when the server has none of its installations.
THEOREM AccountSwitchHolds == Spec => AccountSwitch
<1>1. Inv /\ [Next]_vars => [Switch]_vars
  BY NextKeeps
<1>2. AccountSwitch <=> [][Switch]_vars
  BY DEF AccountSwitch, Switch
<1> QED BY <1>1, <1>2, Invariance, PTL DEF Spec

============================================================================
