------------------------ MODULE AndroidManagerProofs ------------------------
(***************************************************************************)
(* Theorems about AndroidManager, for every number of accounts and tokens  *)
(* and any number of faults and rotations.                                 *)
(***************************************************************************)
EXTENDS AndroidManager, TLAPS

------------------------------------------------------------------------------
(* The inductive invariant *)

OpState ==
  [pc: {"idle", "token", "fetch", "register", "cleanup", "beat", "unbind"},
   user: Users \cup {Nobody}, copy: State \cup {NoState}, target: Tokens \cup {NoToken},
   fetched: Tokens \cup {NoToken}, todo: SUBSET Tokens, remaining: SUBSET Tokens,
   bound: BOOLEAN]

Requests == [kind: {"bind", "unbind"}, user: Users, token: Tokens]

\* The types, and what an operation has in its hands at each of its calls.
Typed ==
  /\ mem \in State \cup {NoState} /\ disk \in State \cup {NoState}
  /\ op \in OpState
  /\ issued \in Tokens
  /\ cached \in Tokens \cup {NoToken}
  /\ notify \in BOOLEAN
  /\ server \in [Tokens -> Users \cup {Nobody}]
  /\ late \subseteq Requests
  /\ lost \subseteq Tokens

Equipped ==
  /\ op.pc # "idle" => op.user \in Users
  /\ op.pc = "fetch" => op.fetched \in Tokens
  /\ op.pc = "register" => op.target \in Tokens
  /\ op.pc \in {"cleanup", "beat", "unbind"} => op.copy # NoState

\* The mutex: the state an operation works on is the stored one, and is its account's.
CopyCurrent ==
  op.pc # "idle" => op.copy = mem /\ (mem # NoState => mem.account = op.user)

\* A fetch that no rotation has overtaken brings the issued token.
FetchFresh == op.pc = "fetch" /\ cached = NoToken /\ ~notify => op.fetched = issued

\* What an operation has deleted is no longer on the server for its account.
DeletedGone ==
  \A t \in Tokens :
    /\ \/ op.pc = "cleanup" /\ t \in op.copy.pending
       \/ op.pc = "unbind" /\ t \in Tracked(op.copy)
    /\ t \notin op.todo \cup op.remaining
    => server[t] # op.user \/ t \in lost

Inv == Typed /\ Equipped /\ CopyCurrent /\ FetchFresh /\ DeletedGone
         /\ RotationWins /\ RegistrationsTracked

------------------------------------------------------------------------------
(* Each action keeps it *)

\* bind takes the mutex, and with it the stored state.
LEMMA BeginBindKeeps ==
  ASSUME NEW user \in Users, Inv, BeginBind(user) PROVE Inv'
<1> USE DEF BeginBind, GoTo, tokenVars, Inv
<1>1. Typed'
  BY NameAssumption DEF Typed, OpState, Idle
<1>2. Equipped' /\ CopyCurrent' /\ FetchFresh' /\ DeletedGone'
  BY DEF Typed, OpState, Idle, Equipped, CopyCurrent, SameAccount, FetchFresh, DeletedGone
<1>3. RotationWins' /\ RegistrationsTracked'
  BY DEF RotationWins, RegistrationsTracked, Unrecorded, Tracked
<1> QED BY <1>1, <1>2, <1>3

LEMMA BeginUnbindKeeps ==
  ASSUME NEW user \in Users, Inv, BeginUnbind(user) PROVE Inv'
<1> USE DEF BeginUnbind, GoTo, tokenVars, Inv
<1>1. Typed'
  BY NameAssumption DEF Typed, OpState, Idle, Tracked, State
<1>2. Equipped' /\ CopyCurrent' /\ FetchFresh' /\ DeletedGone'
  BY DEF Typed, OpState, Idle, Equipped, CopyCurrent, SameAccount, FetchFresh, DeletedGone
<1>3. RotationWins' /\ RegistrationsTracked'
  BY DEF RotationWins, RegistrationsTracked, Unrecorded, Tracked
<1> QED BY <1>1, <1>2, <1>3

\* Registrations of other accounts were lost before, and the account's own are gone.
LEMMA ClearDeletedAccountKeeps ==
  ASSUME NEW user \in Users, Inv, ClearDeletedAccount(user) PROVE Inv'
<1> USE DEF ClearDeletedAccount, tokenVars, Inv
<1>1. Typed'
  BY NameAssumption DEF Typed, Requests
<1>2. Equipped' /\ CopyCurrent' /\ FetchFresh' /\ DeletedGone'
  BY DEF Typed, OpState, Equipped, CopyCurrent, FetchFresh, DeletedGone
<1>3. RotationWins' 
  BY DEF RotationWins
<1>4. RegistrationsTracked'
  BY NameAssumption DEF RegistrationsTracked, Unrecorded, Typed
<1> QED BY <1>1, <1>2, <1>3, <1>4

LEMMA WithTokenTyped ==
  ASSUME Inv, op.pc # "idle", NEW token \in Tokens
  PROVE  /\ WithToken(token) \in OpState
         /\ WithToken(token).pc \in {"cleanup", "register"}
         /\ WithToken(token).user = op.user
         /\ WithToken(token).copy = op.copy
         /\ WithToken(token).pc = "register" => WithToken(token).target = token
         /\ WithToken(token).pc = "cleanup"
              => op.copy # NoState /\ WithToken(token).todo = op.copy.pending
<1>1. CASE op.copy # NoState /\ op.copy.installation = token
  <2>1. op \in OpState /\ op.copy \in State /\ op.copy.pending \in SUBSET Tokens
    BY <1>1 DEF Inv, Typed, OpState, State
  <2>2. WithToken(token) = [op EXCEPT !.pc = "cleanup", !.copy = op.copy,
                              !.todo = op.copy.pending, !.remaining = {}, !.bound = FALSE]
    BY <1>1 DEF WithToken, Cleaning
  <2> QED BY <1>1, <2>1, <2>2 DEF OpState
<1>2. CASE ~(op.copy # NoState /\ op.copy.installation = token)
  BY <1>2 DEF Inv, Typed, OpState, WithToken
<1> QED BY <1>1, <1>2

LEMMA CachedTokenKeeps == ASSUME Inv, CachedToken PROVE Inv'
<1> USE DEF CachedToken, GoTo, tokenVars, Inv
<1>0. cached \in Tokens /\ op.pc # "idle" /\ op' = WithToken(cached)
  BY DEF Typed
<1>1. Typed'
  BY <1>0, WithTokenTyped DEF Typed
<1>2. Equipped' /\ CopyCurrent' /\ FetchFresh'
  BY <1>0, WithTokenTyped DEF Equipped, CopyCurrent, FetchFresh
<1>3. DeletedGone'
  BY <1>0, WithTokenTyped DEF DeletedGone
<1>4. RotationWins' /\ RegistrationsTracked'
  BY DEF RotationWins, RegistrationsTracked, Unrecorded, Tracked
<1> QED BY <1>1, <1>2, <1>3, <1>4

LEMMA FetchTokenKeeps == ASSUME Inv, FetchToken PROVE Inv'
<1> USE DEF FetchToken, GoTo, tokenVars, Inv
<1>1. Typed'
  BY DEF Typed, OpState
<1>2. Equipped' /\ CopyCurrent' /\ FetchFresh' /\ DeletedGone'
  BY DEF Typed, OpState, Equipped, CopyCurrent, FetchFresh, DeletedGone
<1>3. RotationWins' /\ RegistrationsTracked'
  BY DEF RotationWins, RegistrationsTracked, Unrecorded, Tracked
<1> QED BY <1>1, <1>2, <1>3

\* compareAndSet: the fetched token is taken only when no newer one has come.
LEMMA TokenFetchedKeeps == ASSUME Inv, TokenFetched PROVE Inv'
<1> USE DEF TokenFetched, GoTo, Inv
<1>0. cached' \in Tokens /\ op.pc # "idle" /\ op' = WithToken(cached')
  BY DEF Typed, Equipped, KeepNewer
<1>1. Typed'
  BY <1>0, WithTokenTyped DEF Typed
<1>2. Equipped' /\ CopyCurrent' /\ FetchFresh'
  BY <1>0, WithTokenTyped DEF Equipped, CopyCurrent, FetchFresh
<1>3. DeletedGone'
  BY <1>0, WithTokenTyped DEF DeletedGone
<1>4. RotationWins'
  BY NameAssumption DEF RotationWins, FetchFresh, KeepNewer, Typed
<1>5. RegistrationsTracked'
  BY DEF RegistrationsTracked, Unrecorded, Tracked
<1> QED BY <1>1, <1>2, <1>3, <1>4, <1>5

\* An operation that ends without writing leaves the rest as it is.
LEMMA EndKeeps ==
  ASSUME Inv, End,
         UNCHANGED <<mem, disk, issued, cached, notify, server, late, lost>>
  PROVE  Inv'
<1> USE DEF End, Inv
<1>1. Typed' /\ Equipped' /\ CopyCurrent' /\ FetchFresh' /\ DeletedGone'
  BY DEF Typed, OpState, Idle, Equipped, CopyCurrent, FetchFresh, DeletedGone
<1>2. RotationWins' /\ RegistrationsTracked'
  BY DEF RotationWins, RegistrationsTracked, Unrecorded, Tracked
<1> QED BY <1>1, <1>2

LEMMA StopsKeep == ASSUME Inv, FetchFails \/ BeatFails \/ Canceled PROVE Inv'
  BY EndKeeps DEF FetchFails, BeatFails, Canceled, tokenVars

\* What the server makes of a deletion and of a registration.
LEMMA AppliedUnbind ==
  ASSUME Typed, NEW r \in Requests, r.kind = "unbind"
  PROVE  /\ Applied(r) \in [Tokens -> Users \cup {Nobody}]
         /\ \A t \in Tokens : Applied(r)[t] = server[t] \/ Applied(r)[t] = Nobody
         /\ Applied(r)[r.token] # r.user
  BY NameAssumption DEF Typed, Requests, Applied

LEMMA AppliedBind ==
  ASSUME Typed, NEW r \in Requests, r.kind = "bind"
  PROVE  /\ Applied(r) \in [Tokens -> Users \cup {Nobody}]
         /\ \A t \in Tokens \ {r.token} : Applied(r)[t] = server[t]
         /\ Applied(r)[r.token] = r.user
  BY DEF Typed, Requests, Applied

LEMMA RequestTyped ==
  ASSUME Inv, op.pc # "idle", NEW t \in Tokens, NEW kind \in {"bind", "unbind"}
  PROVE  /\ Request(kind, t) \in Requests /\ Request(kind, t).kind = kind
         /\ Request(kind, t).token = t /\ Request(kind, t).user = op.user
  BY DEF Inv, Equipped, Request, Requests

\* The server's table moves only by deletions, or by registrations that go to lost.
ServerDrifts ==
  /\ server' \in [Tokens -> Users \cup {Nobody}]
  /\ lost' \subseteq Tokens
  /\ \A t \in Tokens : \/ server'[t] = server[t] /\ (t \in lost => t \in lost')
                       \/ server'[t] = Nobody
                       \/ t \in lost'

\* Such a drift keeps what the other parts say of the server.
LEMMA DriftKeeps ==
  ASSUME Inv, ServerDrifts, UNCHANGED mem
  PROVE  RegistrationsTracked'
  BY DEF Inv, ServerDrifts, RegistrationsTracked, Unrecorded, Tracked, Typed

\* A failed request drifts, whatever the server has made of it.
LEMMA FailedDrifts ==
  ASSUME Inv, NEW r \in Requests, Failed(r)
  PROVE  ServerDrifts /\ late' \subseteq Requests
<1>1. CASE UNCHANGED <<server, late, lost>>
  BY <1>1 DEF Inv, Typed, ServerDrifts
<1>2. CASE /\ server' = Applied(r) /\ UNCHANGED late
           /\ lost' = IF r.kind = "bind" THEN lost \cup {r.token} ELSE lost
  <2>1. CASE r.kind = "bind"
    BY <1>2, <2>1, AppliedBind DEF Inv, Typed, ServerDrifts, Requests
  <2>2. CASE r.kind = "unbind"
    BY <1>2, <2>2, AppliedUnbind DEF Inv, Typed, ServerDrifts
  <2> QED BY <2>1, <2>2 DEF Requests
<1>3. CASE late' = late \cup {r} /\ UNCHANGED <<server, lost>>
  BY <1>3 DEF Inv, Typed, ServerDrifts
<1> QED BY <1>1, <1>2, <1>3 DEF Failed

LEMMA LateArrivalKeeps == ASSUME Inv, LateArrival PROVE Inv'
<1>1. PICK r \in late :
        /\ server' = Applied(r) /\ late' = late \ {r}
        /\ lost' = IF r.kind = "bind" THEN lost \cup {r.token} ELSE lost
        /\ UNCHANGED <<mem, disk, op, due, tokenVars, faults>>
  BY DEF LateArrival
<1>2. r \in Requests
  BY DEF Inv, Typed
<1>3. ServerDrifts
  <2>1. CASE r.kind = "bind"
    BY <1>1, <1>2, <2>1, AppliedBind DEF Inv, Typed, ServerDrifts, Requests
  <2>2. CASE r.kind = "unbind"
    BY <1>1, <1>2, <2>2, AppliedUnbind DEF Inv, Typed, ServerDrifts
  <2> QED BY <1>2, <2>1, <2>2 DEF Requests
<1>4. Typed'
  BY <1>1, <1>3 DEF Inv, Typed, ServerDrifts, tokenVars
<1>5. Equipped' /\ CopyCurrent' /\ FetchFresh' /\ RotationWins'
  BY <1>1 DEF Inv, Equipped, CopyCurrent, FetchFresh, RotationWins, tokenVars
<1>6. DeletedGone'
  BY <1>1, <1>3, NameAssumption DEF Inv, DeletedGone, ServerDrifts, Equipped, tokenVars
<1>7. RegistrationsTracked'
  BY <1>1, <1>3, DriftKeeps
<1> QED BY <1>4, <1>5, <1>6, <1>7 DEF Inv

\* The registration and the write that records it are one step under the mutex: what
\* the new state replaces is on its list.
LEMMA RegisterKeeps == ASSUME Inv, Register PROVE Inv'
<1> DEFINE r == Request("bind", op.target)
<1>1. /\ op.pc = "register" /\ server' = Applied(r) /\ lost' = lost \ {r.token}
      /\ mem' = Replacement /\ op' = Cleaning(op, Replacement, TRUE)
      /\ UNCHANGED <<disk, issued, cached, notify, late>>
  BY DEF Register, Answered, GoTo, tokenVars, Request
<1>2. op.target \in Tokens /\ op.user \in Users /\ op \in OpState /\ op.copy = mem
  BY <1>1 DEF Inv, Equipped, Typed, CopyCurrent
<1>3. r \in Requests /\ r.kind = "bind" /\ r.token = op.target /\ r.user = op.user
  BY <1>1, <1>2, RequestTyped
<1> HIDE DEF r
<1>4. /\ server' \in [Tokens -> Users \cup {Nobody}]
      /\ \A t \in Tokens \ {op.target} : server'[t] = server[t]
      /\ server'[op.target] = op.user
  BY <1>1, <1>3, AppliedBind DEF Inv
<1>5. /\ Replacement \in State /\ Replacement.account = op.user
      /\ Replacement.installation = op.target
      /\ Replacement.pending = Tracked(mem) \ {op.target}
  <2>1. Tracked(mem) \subseteq Tokens
    BY DEF Inv, Typed, Tracked, State
  <2> QED BY <1>2, <2>1 DEF Replacement, State
<1>6. /\ op' \in OpState /\ op'.pc = "cleanup" /\ op'.user = op.user
      /\ op'.copy = mem' /\ op'.todo = mem'.pending
  <2>1. op' = [op EXCEPT !.pc = "cleanup", !.copy = Replacement,
                         !.todo = Replacement.pending, !.remaining = {}, !.bound = TRUE]
    BY <1>1 DEF Cleaning
  <2>2. Replacement.pending \subseteq Tokens
    BY <1>5 DEF State
  <2> QED BY <1>1, <1>2, <1>5, <2>1, <2>2 DEF OpState
<1>7. Typed'
  BY <1>1, <1>4, <1>5, <1>6 DEF Inv, Typed
<1>8. Equipped' /\ CopyCurrent' /\ FetchFresh'
  BY <1>1, <1>2, <1>5, <1>6, NameAssumption DEF Equipped, CopyCurrent, FetchFresh
<1>9. RotationWins'
  BY <1>1 DEF Inv, RotationWins
<1>10. DeletedGone'
  BY <1>6 DEF DeletedGone
<1>11. RegistrationsTracked'
  <2> SUFFICES ASSUME NEW t \in Tokens, server'[t] # Nobody, t \notin lost'
               PROVE  mem' # NoState /\ mem'.account = server'[t] /\ t \in Tracked(mem')
    BY DEF RegistrationsTracked, Unrecorded, Tracked
  <2>1. mem' # NoState /\ mem'.account = op.user
        /\ Tracked(mem') = {op.target} \cup Tracked(mem)
    BY <1>1, <1>5, NameAssumption DEF Tracked
  <2>2. CASE t = op.target
    BY <1>4, <2>1, <2>2
  <2>3. CASE t # op.target
    <3>1. server[t] # Nobody /\ t \notin lost
      BY <1>1, <1>3, <1>4, <2>3
    <3>2. mem # NoState /\ mem.account = server[t] /\ t \in Tracked(mem)
      BY <3>1 DEF Inv, RegistrationsTracked, Unrecorded
    <3> QED BY <1>1, <1>4, <2>1, <2>3, <3>2 DEF Inv, CopyCurrent
  <2> QED BY <2>2, <2>3
<1> QED BY <1>7, <1>8, <1>9, <1>10, <1>11 DEF Inv

LEMMA RegisterFailsKeeps == ASSUME Inv, RegisterFails PROVE Inv'
<1> DEFINE r == Request("bind", op.target)
<1>1. /\ op.pc = "register" /\ Failed(r) /\ op' = Idle
      /\ UNCHANGED <<mem, disk, issued, cached, notify>>
  BY DEF RegisterFails, End, tokenVars
<1>2. r \in Requests
  BY <1>1, RequestTyped DEF Inv, Equipped
<1> HIDE DEF r
<1>3. ServerDrifts /\ late' \subseteq Requests
  BY <1>1, <1>2, FailedDrifts
<1>4. Typed' /\ Equipped' /\ CopyCurrent' /\ FetchFresh' /\ DeletedGone'
  BY <1>1, <1>3 DEF Inv, Typed, OpState, Idle, Equipped, CopyCurrent, FetchFresh, DeletedGone,
                    ServerDrifts
<1>5. RotationWins' /\ RegistrationsTracked'
  BY <1>1, <1>3, DriftKeeps DEF Inv, RotationWins
<1> QED BY <1>4, <1>5 DEF Inv

\* A deletion, of cleanup or of unbind: answered, the token is no longer registered for
\* the account; failed, it stays on the list of what remains.
LEMMA DeleteKeeps ==
  ASSUME Inv, op.pc \in {"cleanup", "unbind"}, NEW t \in op.todo,
         \/ Answered(Request("unbind", t)) /\ op' = [op EXCEPT !.todo = @ \ {t}]
         \/ /\ Failed(Request("unbind", t))
            /\ op' = [op EXCEPT !.todo = @ \ {t}, !.remaining = @ \cup {t}],
         UNCHANGED <<mem, disk, due, tokenVars>>
  PROVE  Inv'
<1> DEFINE r == Request("unbind", t)
<1>1. op \in OpState /\ t \in Tokens /\ op.user \in Users
  BY DEF Inv, Typed, OpState, Equipped
<1>2. r \in Requests /\ r.kind = "unbind" /\ r.token = t /\ r.user = op.user
  BY <1>1, RequestTyped
<1>3. /\ op' \in OpState /\ op'.pc = op.pc /\ op'.user = op.user /\ op'.copy = op.copy
      /\ op'.todo = op.todo \ {t} /\ op.remaining \subseteq op'.remaining
      /\ t \notin op'.remaining => Answered(r)
  <2>1. CASE Answered(r) /\ op' = [op EXCEPT !.todo = @ \ {t}]
    BY <1>1, <2>1 DEF OpState
  <2>2. CASE op' = [op EXCEPT !.todo = @ \ {t}, !.remaining = @ \cup {t}]
    BY <1>1, <2>2 DEF OpState
  <2> QED BY <2>1, <2>2
<1> HIDE DEF r
<1>4. ServerDrifts /\ late' \subseteq Requests /\ (Answered(r) => server'[t] # op.user)
  <2>1. CASE Answered(r)
    <3>1. /\ server' = Applied(r) /\ late' = late
          /\ lost' = IF server'[t] = Nobody THEN lost \ {t} ELSE lost
      BY <1>2, <2>1 DEF Answered
    <3>2. ServerDrifts
      BY <1>1, <1>2, <3>1, AppliedUnbind DEF Inv, Typed, ServerDrifts
    <3> QED BY <1>2, <3>1, <3>2, AppliedUnbind DEF Inv, Typed
  <2>2. CASE Failed(r) /\ ~Answered(r)
    BY <1>2, <2>2, FailedDrifts
  <2> QED BY <2>1, <2>2 DEF r
<1>5. Typed'
  BY <1>3, <1>4 DEF Inv, Typed, ServerDrifts, tokenVars
<1>6. Equipped' /\ CopyCurrent' /\ FetchFresh' /\ RotationWins'
  BY <1>3 DEF Inv, Equipped, CopyCurrent, FetchFresh, RotationWins, tokenVars
<1>7. DeletedGone'
  <2> SUFFICES ASSUME NEW x \in Tokens,
                      \/ op.pc = "cleanup" /\ x \in op.copy.pending
                      \/ op.pc = "unbind" /\ x \in Tracked(op.copy),
                      x \notin op'.todo \cup op'.remaining
               PROVE  server'[x] # op.user \/ x \in lost'
    BY <1>3 DEF DeletedGone, Tracked
  <2>1. CASE x = t
    BY <1>3, <1>4, <2>1
  <2>2. CASE x # t
    <3>1. server[x] # op.user \/ x \in lost
      BY <1>3, <2>2 DEF Inv, DeletedGone
    <3> QED BY <1>1, <1>4, <3>1, NameAssumption DEF ServerDrifts
  <2> QED BY <2>1, <2>2
<1>8. RegistrationsTracked'
  BY <1>4, DriftKeeps
<1> QED BY <1>5, <1>6, <1>7, <1>8 DEF Inv

LEMMA DeletesKeep == ASSUME Inv, CleanupDelete \/ UnbindDelete PROVE Inv'
  BY DeleteKeeps DEF CleanupDelete, UnbindDelete, GoTo

\* cleanup ends: what it takes off the list is deleted, or had been lost before.
LEMMA CleanupDoneKeeps == ASSUME Inv, CleanupDone PROVE Inv'
<1> DEFINE cleaned == [op.copy EXCEPT !.pending = op.remaining]
<1>1. /\ op.pc = "cleanup" /\ op.todo = {} /\ op \in OpState /\ op.copy = mem /\ mem \in State
      /\ op.user \in Users /\ mem.account = op.user
      /\ UNCHANGED <<disk, issued, cached, notify, server, late, lost>>
  BY DEF CleanupDone, Inv, Typed, Equipped, CopyCurrent, tokenVars
<1>2. /\ cleaned \in State /\ cleaned.account = mem.account
      /\ cleaned.installation = mem.installation /\ cleaned.pending = op.remaining
  BY <1>1 DEF OpState, State
<1>3. mem' = cleaned
  BY <1>1 DEF CleanupDone
<1>4. op' = Idle \/ op' = [op EXCEPT !.pc = "beat", !.copy = cleaned]
  BY DEF CleanupDone, End, GoTo
<1> HIDE DEF cleaned
<1>5. /\ op' \in OpState
      /\ \/ op'.pc = "idle"
         \/ op'.pc = "beat" /\ op'.user = op.user /\ op'.copy = cleaned
  <2>1. CASE op' = Idle
    BY <2>1 DEF Idle, OpState
  <2>2. CASE op' = [op EXCEPT !.pc = "beat", !.copy = cleaned]
    BY <1>1, <1>2, <2>2 DEF OpState
  <2> QED BY <1>4, <2>1, <2>2
<1>6. Typed'
  BY <1>1, <1>2, <1>3, <1>5 DEF Inv, Typed
<1>7. Equipped' /\ CopyCurrent' /\ FetchFresh' /\ DeletedGone'
  BY <1>1, <1>2, <1>3, <1>5, NameAssumption
     DEF Equipped, CopyCurrent, FetchFresh, DeletedGone
<1>8. RotationWins'
  BY <1>1 DEF Inv, RotationWins
<1>9. RegistrationsTracked'
  <2> SUFFICES ASSUME NEW t \in Tokens, server[t] # Nobody, t \notin lost
               PROVE  mem' # NoState /\ mem'.account = server[t] /\ t \in Tracked(mem')
    BY <1>1 DEF RegistrationsTracked, Unrecorded, Tracked
  <2>1. mem.account = server[t] /\ t \in Tracked(mem)
    BY DEF Inv, RegistrationsTracked, Unrecorded
  <2>2. t \in mem.pending => t \in op.remaining
    BY <1>1, <2>1 DEF Inv, DeletedGone
  <2> QED BY <1>1, <1>2, <1>3, <2>1, <2>2, NameAssumption DEF Tracked
<1> QED BY <1>6, <1>7, <1>8, <1>9 DEF Inv

\* unbind ends: the state is forgotten only when nothing of it is registered any more.
LEMMA UnbindDoneKeeps == ASSUME Inv, UnbindDone PROVE Inv'
<1>1. /\ op.pc = "unbind" /\ op.todo = {} /\ op.copy = mem /\ mem # NoState
      /\ mem.account = op.user /\ op' = Idle
      /\ mem' = IF op.remaining = {} THEN NoState ELSE mem
      /\ UNCHANGED <<disk, issued, cached, notify, server, late, lost>>
  BY DEF UnbindDone, Inv, Equipped, CopyCurrent, End, tokenVars
<1>2. CASE op.remaining # {}
  BY <1>1, <1>2, EndKeeps DEF End
<1>3. CASE op.remaining = {}
  <2>1. Typed' /\ Equipped' /\ CopyCurrent' /\ FetchFresh' /\ DeletedGone'
    BY <1>1 DEF Inv, Typed, OpState, Idle, Equipped, CopyCurrent, FetchFresh, DeletedGone
  <2>2. RotationWins'
    BY <1>1 DEF Inv, RotationWins
  <2>3. RegistrationsTracked'
    <3> SUFFICES ASSUME NEW t \in Tokens, server[t] # Nobody, t \notin lost PROVE FALSE
      BY <1>1 DEF RegistrationsTracked, Unrecorded
    <3>1. mem.account = server[t] /\ t \in Tracked(mem)
      BY DEF Inv, RegistrationsTracked, Unrecorded
    <3> QED BY <1>1, <1>3, <3>1 DEF Inv, DeletedGone
  <2> QED BY <2>1, <2>2, <2>3 DEF Inv
<1> QED BY <1>2, <1>3

LEMMA BeatKeeps == ASSUME Inv, Beat PROVE Inv'
<1>1. /\ op.pc = "beat" /\ op \in OpState /\ op.copy = mem /\ mem \in State
      /\ UNCHANGED <<mem, disk, issued, cached, notify, server, late, lost>>
  BY DEF Beat, Inv, Typed, Equipped, CopyCurrent, tokenVars
<1>2. CASE End
  BY <1>1, <1>2, EndKeeps
<1>3. CASE op' = RegisterAgain
  <2>1. /\ op' \in OpState /\ op'.pc = "register" /\ op'.target \in Tokens
        /\ op'.user = op.user /\ op'.copy = op.copy
    BY <1>1, <1>3 DEF RegisterAgain, OpState, State
  <2>2. Typed'
    BY <1>1, <2>1 DEF Inv, Typed
  <2>3. Equipped' /\ CopyCurrent' /\ FetchFresh' /\ DeletedGone'
    BY <1>1, <2>1 DEF Inv, Equipped, CopyCurrent, FetchFresh, DeletedGone
  <2>4. RotationWins' /\ RegistrationsTracked'
    BY <1>1 DEF Inv, RotationWins, RegistrationsTracked, Unrecorded, Tracked
  <2> QED BY <2>2, <2>3, <2>4 DEF Inv
<1> QED BY <1>2, <1>3 DEF Beat, GoTo

\* The process comes back with the state on the disk, which may be an older one.
LEMMA RestartKeeps == ASSUME Inv, Restart PROVE Inv'
<1> USE DEF Restart, Inv
<1>1. Typed'
  BY DEF Typed, OpState, Idle, Unrecorded
<1>2. Equipped' /\ CopyCurrent' /\ FetchFresh' /\ DeletedGone' /\ RotationWins'
  BY DEF Idle, Equipped, CopyCurrent, FetchFresh, DeletedGone, RotationWins
<1>3. RegistrationsTracked'
  BY DEF RegistrationsTracked, Unrecorded, Tracked
<1> QED BY <1>1, <1>2, <1>3

\* What happens around the manager touches neither its state nor the server's.
LEMMA SurroundingsKeep ==
  ASSUME Inv, Flush \/ Rotate \/ OnNewToken \/ IntervalPasses PROVE Inv'
<1> USE DEF Flush, Rotate, OnNewToken, IntervalPasses, tokenVars, Inv
<1>1. Typed'
  BY DEF Typed
<1>2. Equipped' /\ CopyCurrent' /\ DeletedGone'
  BY DEF Equipped, CopyCurrent, DeletedGone, Tracked
<1>3. FetchFresh' /\ RotationWins'
  BY NameAssumption DEF Typed, FetchFresh, RotationWins
<1>4. RegistrationsTracked'
  BY DEF RegistrationsTracked, Unrecorded, Tracked
<1> QED BY <1>1, <1>2, <1>3, <1>4

------------------------------------------------------------------------------
(* The theorems *)

LEMMA InitInv == ASSUME Init PROVE Inv
<1> USE DEF Init, Inv
<1>1. Typed
  BY DEF Typed, OpState, Idle
<1>2. Equipped /\ CopyCurrent /\ FetchFresh /\ DeletedGone /\ RotationWins
  BY DEF Idle, Equipped, CopyCurrent, FetchFresh, DeletedGone, RotationWins
<1>3. RegistrationsTracked
  BY DEF RegistrationsTracked, Unrecorded
<1> QED BY <1>1, <1>2, <1>3

LEMMA NextInv == ASSUME Inv, [Next]_vars PROVE Inv'
<1>1. CASE \E user \in Users : BeginBind(user) \/ BeginUnbind(user) \/ ClearDeletedAccount(user)
  BY <1>1, BeginBindKeeps, BeginUnbindKeeps, ClearDeletedAccountKeeps
<1>2. CASE CachedToken \/ FetchToken \/ TokenFetched
  BY <1>2, CachedTokenKeeps, FetchTokenKeeps, TokenFetchedKeeps
<1>3. CASE Register \/ RegisterFails
  BY <1>3, RegisterKeeps, RegisterFailsKeeps
<1>4. CASE CleanupDelete \/ CleanupDone \/ Beat \/ UnbindDelete \/ UnbindDone
  BY <1>4, DeletesKeep, CleanupDoneKeeps, BeatKeeps, UnbindDoneKeeps
<1>5. CASE FetchFails \/ BeatFails \/ Canceled
  BY <1>5, StopsKeep
<1>6. CASE LateArrival \/ Restart
  BY <1>6, LateArrivalKeeps, RestartKeeps
<1>7. CASE Flush \/ Rotate \/ OnNewToken \/ IntervalPasses
  BY <1>7, SurroundingsKeep
<1>8. CASE UNCHANGED vars
  <2> USE <1>8 DEF vars, tokenVars, Inv
  <2>1. Typed' /\ Equipped' /\ CopyCurrent' /\ FetchFresh' /\ DeletedGone' /\ RotationWins'
    BY DEF Typed, Equipped, CopyCurrent, FetchFresh, DeletedGone, Tracked, RotationWins
  <2>2. RegistrationsTracked'
    BY DEF RegistrationsTracked, Unrecorded, Tracked
  <2> QED BY <2>1, <2>2
<1> QED BY <1>1, <1>2, <1>3, <1>4, <1>5, <1>6, <1>7, <1>8 DEF Next, OpStep

LEMMA InvHolds == Spec => []Inv
  BY InitInv, NextInv, PTL DEF Spec

\* However requests fail, arrive late or are cut short by the end of the process, every
\* registration of the server is on record on the device for its account, apart from
\* those a fault has swallowed: NotificationInstallationManager never forgets one.
THEOREM RegistrationsTrackedHolds == Spec => []RegistrationsTracked
<1>1. Inv => RegistrationsTracked
  BY DEF Inv
<1> QED BY <1>1, InvHolds, PTL

\* The compareAndSet of the token provider never lets a token that was being fetched
\* replace the one onNewToken has brought.
THEOREM RotationWinsHolds == Spec => []RotationWins
<1>1. Inv => RotationWins
  BY DEF Inv
<1> QED BY <1>1, InvHolds, PTL

==============================================================================
