---------------------------- MODULE Installations ----------------------------
(***************************************************************************)
(* The installation store of push/store: the bounded installation map in   *)
(* each user document, the owner record of each target address, and the    *)
(* account deletion that takes the owner records away.                     *)
(*                                                                         *)
(* An installation ID is the hash of its address, so a device stands for   *)
(* one address.  A Firestore transaction is one step; its timestamp was    *)
(* read by the request handler before, up to MaxDelay ticks earlier.       *)
(***************************************************************************)
EXTENDS Integers, FiniteSets

CONSTANTS
  Users, Nobody,         \* Nobody: a target without an owner record
  Devices,               \* installation IDs; their order breaks ties
  MaxInstallations,      \* push.MaxInstallationsPerUser
  ActiveWindow,          \* push.InstallationActiveWindow
  Retention,             \* push.InstallationRetention
  DisabledRetention,     \* push.DisabledInstallRetention
  CreateUsers,           \* Config.CreateUsers
  FenceConfigured,       \* Config.DeleteRequestsCollection is set
  Markers, NoMarker,     \* values of one delivery marker key
  Leavers,               \* bound of the model: the accounts that may be deleted
  MaxClock, MaxDelay     \* bounds of the model: time, age of a timestamp

ASSUME UserAssumption == Nobody \notin Users
ASSUME DeviceAssumption == Devices \subseteq Int /\ IsFiniteSet(Devices)
ASSUME LimitAssumption == MaxInstallations \in Nat \ {0}
ASSUME WindowAssumption ==
  ActiveWindow \in Nat /\ Retention \in Nat /\ DisabledRetention \in Nat
ASSUME ConfigAssumption == CreateUsers \in BOOLEAN /\ FenceConfigured \in BOOLEAN
ASSUME MarkerAssumption == NoMarker \notin Markers
ASSUME BoundAssumption == Leavers \subseteq Users /\ MaxClock \in Nat /\ MaxDelay \in Nat

VARIABLES
  users,      \* users that have a user document
  inst,       \* Users -> Devices -> entry of the pushInstallations map
  owner,      \* Devices -> uid of the owner record
  deletion,   \* Users -> account deletion: its request and DeleteOwnersForUser
  clock

vars == <<users, inst, owner, deletion, clock>>

------------------------------------------------------------------------------
(* Installations *)

Never == 0    \* the zero time
Time == Nat

\* address: FID or Token is set.  granted: the permission is "granted".  The fields
\* that steer nothing are left out; lastSeenAt is always set by a registration.
Installation ==
  [present: BOOLEAN, address: BOOLEAN, enabled: BOOLEAN, granted: BOOLEAN,
   lastSeen: Time, disabledAt: Time, marker: Markers \cup {NoMarker}]

Absent == [present |-> FALSE, address |-> FALSE, enabled |-> FALSE, granted |-> FALSE,
           lastSeen |-> Never, disabledAt |-> Never, marker |-> NoMarker]

NewInstallation(enabled, granted, now) ==
  [present |-> TRUE, address |-> TRUE, enabled |-> enabled, granted |-> granted,
   lastSeen |-> now, disabledAt |-> IF enabled THEN Never ELSE now,
   marker |-> NoMarker]

\* Faulty form: a registration starts without the markers of the old entry.
ForgetRegistrationState(existing, replacement) == replacement
PreserveRegistrationState(existing, replacement) ==
  [replacement EXCEPT !.marker = existing.marker]

ActiveAt(entry, now) ==
  /\ entry.address /\ entry.enabled /\ entry.granted
  /\ now - entry.lastSeen <= ActiveWindow

ActiveTargets(u, now) == {d \in Devices : ActiveAt(inst[u][d], now)}

Present(map) == {d \in Devices : map[d].present}

\* retire: the entry stays, its address goes.
Retired(entry, now) ==
  [entry EXCEPT !.enabled = FALSE, !.address = FALSE, !.disabledAt = now]

RetireIn(map, ids, now) ==
  [d \in Devices |-> IF d \in ids \cap Present(map) THEN Retired(map[d], now) ELSE map[d]]

Without(map, ids) == [d \in Devices |-> IF d \in ids THEN Absent ELSE map[d]]

------------------------------------------------------------------------------
(* prune *)

Expired(entry, now) ==
  \/ now - entry.lastSeen > Retention
  \/ /\ ~entry.enabled
     /\ entry.disabledAt # Never
     /\ now - entry.disabledAt > DisabledRetention

\* Faulty form: the newest entry is evicted first.
SeenAfter(map, c, d) ==
  \/ map[c].lastSeen > map[d].lastSeen
  \/ map[c].lastSeen = map[d].lastSeen /\ c < d
SeenBefore(map, c, d) ==
  \/ map[c].lastSeen < map[d].lastSeen
  \/ map[c].lastSeen = map[d].lastSeen /\ c < d

\* Faulty form: the limit counts the entries beside the one just used.
OverLimitBesides(left) == Cardinality(left) - 1 - MaxInstallations
OverLimit(left) == Cardinality(left) - MaxInstallations

\* The entries that go: first all that are too old, then the oldest over the limit,
\* and never the one that was just used.
Pruned(map, keep, now) ==
  LET expired == {d \in Present(map) \ {keep} : Expired(map[d], now)}
      left == Present(map) \ expired
      rest == left \ {keep}
  IN  expired \cup
        {d \in rest : Cardinality({c \in rest : SeenBefore(map, c, d)}) < OverLimit(left)}

\* The owner records that go with pruned entries; faulty: those of others as well.
OwnedAnyway(u, ids) == ids
OwnedPruned(u, ids) == {d \in ids : owner[d] = u}

------------------------------------------------------------------------------
NoDeletion == [request |-> "none", phase |-> "idle", pending |-> {},
               sealed |-> FALSE, torn |-> FALSE]

Init ==
  /\ users = {}
  /\ inst = [u \in Users |-> [d \in Devices |-> Absent]]
  /\ owner = [d \in Devices |-> Nobody]
  /\ deletion = [u \in Users |-> NoDeletion]
  /\ clock = 1

\* time.Now() of a request whose transaction commits now.
Stamps == {n \in 1 .. clock : n + MaxDelay >= clock}

\* The deletion fence: a request whose status is unknown, invalid or configured as
\* blocked; faulty: it is not read.
Unfenced(u) == FALSE
Fenced(u) == FenceConfigured /\ deletion[u].request = "blocked"

\* The prior owner's entry; faulty: it keeps its address.
KeepPrior(map, d, now) == map
ReleasePrior(map, d, now) == RetireIn(map, {d}, now)

UpsertPushInstallation(u, d, enabled, granted, now) ==
  LET new == NewInstallation(enabled, granted, now)
      entry == IF inst[u][d].present
                 THEN PreserveRegistrationState(inst[u][d], new)
                 ELSE new
      mine == [inst[u] EXCEPT ![d] = entry]
      pruned == Pruned(mine, d, now)
  IN  /\ ~Fenced(u)
      /\ u \in users \/ CreateUsers
      /\ users' = users \cup {u}
      /\ inst' = [v \in Users |->
                    IF v = u THEN Without(mine, pruned)
                    ELSE IF v = owner[d] THEN ReleasePrior(inst[v], d, now)
                    ELSE inst[v]]
      /\ owner' = [e \in Devices |->
                     IF e = d THEN u
                     ELSE IF e \in OwnedPruned(u, pruned) THEN Nobody
                     ELSE owner[e]]
      /\ UNCHANGED <<deletion, clock>>

\* switch: the optional Enabled of a heartbeat.
HeartbeatPushInstallation(u, d, switch, granted, now) ==
  LET entry == [inst[u][d] EXCEPT
                  !.granted = granted,
                  !.enabled = CASE switch = "on" -> TRUE
                                [] switch = "off" -> FALSE
                                [] OTHER -> @,
                  !.disabledAt = CASE switch = "on" -> Never
                                   [] switch = "off" -> now
                                   [] OTHER -> @,
                  !.lastSeen = now]
      mine == [inst[u] EXCEPT ![d] = entry]
      pruned == Pruned(mine, d, now)
  IN  /\ inst[u][d].address
      /\ inst' = [inst EXCEPT ![u] = Without(mine, pruned)]
      /\ owner' = [e \in Devices |->
                     IF e \in OwnedPruned(u, pruned) THEN Nobody ELSE owner[e]]
      /\ UNCHANGED <<users, deletion, clock>>

\* Faulty form: the entry is looked for in the account that the owner record names.
DisableForOwner(u, ids, now) ==
  /\ ids \cap Present(inst[u]) # {}
  /\ inst' = [v \in Users |-> RetireIn(inst[v], {d \in ids : owner[d] = v}, now)]
  /\ UNCHANGED <<users, owner, deletion, clock>>

\* DisablePushInstallation, and DisablePushInstallations for each user: the address
\* is cleared and the owner record stays.
Disable(u, ids, now) ==
  /\ ids \cap Present(inst[u]) # {}
  /\ inst' = [inst EXCEPT ![u] = RetireIn(inst[u], ids, now)]
  /\ UNCHANGED <<users, owner, deletion, clock>>

MarkPushInstallationsDelivered(u, ids, value) ==
  LET fresh == {d \in ids : inst[u][d].address /\ inst[u][d].marker # value}
  IN  /\ fresh # {}
      /\ inst' = [inst EXCEPT ![u] =
                    [d \in Devices |-> IF d \in fresh THEN [@[d] EXCEPT !.marker = value]
                                       ELSE @[d]]]
      /\ UNCHANGED <<users, owner, deletion, clock>>

------------------------------------------------------------------------------
(* Account deletion *)

\* The application writes the request, or gives it a status that does not block,
\* which is like no request; no code of src/ does.
SetRequest(u, status) ==
  /\ deletion[u].request # status
  /\ deletion' = [deletion EXCEPT ![u].request = status, ![u].sealed = FALSE]
  /\ UNCHANGED <<users, inst, owner, clock>>

\* DeleteOwnersForUser: the query.  sealed: the request stands since
\* before the query.
ListOwners(u) ==
  /\ deletion[u].phase # "deleting"
  /\ deletion' = [deletion EXCEPT ![u] =
                    [@ EXCEPT !.phase = "deleting", !.torn = TRUE,
                              !.sealed = (deletion[u].request = "blocked"),
                              !.pending = {d \in Devices : owner[d] = u}]]
  /\ UNCHANGED <<users, inst, owner, clock>>

\* What the transaction of deleteOwnerIfOwned reads again.
StillOwned(u, d) == owner[d] = u

DeleteOwner(u, d) ==
  /\ deletion[u].phase = "deleting"
  /\ d \in deletion[u].pending
  /\ deletion' = [deletion EXCEPT ![u].pending = @ \ {d}]
  /\ owner' = IF StillOwned(u, d) THEN [owner EXCEPT ![d] = Nobody] ELSE owner
  /\ UNCHANGED <<users, inst, clock>>

\* One transaction fails, the others go on; the call returns the joined errors.
DeleteOwnerFails(u, d) ==
  /\ deletion[u].phase = "deleting"
  /\ d \in deletion[u].pending
  /\ deletion' = [deletion EXCEPT ![u].pending = @ \ {d}, ![u].sealed = FALSE]
  /\ UNCHANGED <<users, inst, owner, clock>>

OwnersDeleted(u) ==
  /\ deletion[u].phase = "deleting"
  /\ deletion[u].pending = {}
  /\ deletion' = [deletion EXCEPT ![u].phase = "deleted"]
  /\ UNCHANGED <<users, inst, owner, clock>>

\* The application deletes the user document.
DeleteUser(u) ==
  /\ deletion[u].phase = "deleted"
  /\ u \in users
  /\ users' = users \ {u}
  /\ inst' = [inst EXCEPT ![u] = [d \in Devices |-> Absent]]
  /\ deletion' = [deletion EXCEPT ![u].torn = FALSE]
  /\ UNCHANGED <<owner, clock>>

Advance ==
  /\ clock < MaxClock
  /\ clock' = clock + 1
  /\ UNCHANGED <<users, inst, owner, deletion>>

------------------------------------------------------------------------------
\* Requests of devices, and the two calls the application makes with references.
Register(u) ==
  \E d \in Devices, enabled, granted \in BOOLEAN, now \in Stamps :
    UpsertPushInstallation(u, d, enabled, granted, now)
Heartbeat(u) ==
  \E d \in Devices, switch \in {"keep", "on", "off"}, granted \in BOOLEAN, now \in Stamps :
    HeartbeatPushInstallation(u, d, switch, granted, now)
DisableSome(u) == \E ids \in SUBSET Devices, now \in Stamps : Disable(u, ids, now)
Mark(u) ==
  \E ids \in SUBSET Devices, value \in Markers :
    MarkPushInstallationsDelivered(u, ids, value)

AccountStep(u) ==
  \/ \E status \in {"none", "blocked"} : SetRequest(u, status)
  \/ ListOwners(u)
  \/ \E d \in Devices : DeleteOwner(u, d) \/ DeleteOwnerFails(u, d)
  \/ OwnersDeleted(u)
  \/ DeleteUser(u)

Next ==
  \/ \E u \in Users : Register(u) \/ Heartbeat(u) \/ DisableSome(u) \/ Mark(u)
  \/ \E u \in Leavers : AccountStep(u)
  \/ Advance

Spec == Init /\ [][Next]_vars

------------------------------------------------------------------------------
(* Properties *)

Deletion == [request: {"none", "blocked"}, phase: {"idle", "deleting", "deleted"},
             pending: SUBSET Devices, sealed: BOOLEAN, torn: BOOLEAN]

\* Every variable has its type, only a user with a document has installations, no map
\* grows past its limit, and the time of disabling, which prune goes by, is set just
\* while an entry is disabled.
TypeOK ==
  /\ users \subseteq Users
  /\ inst \in [Users -> [Devices -> Installation]]
  /\ owner \in [Devices -> Users \cup {Nobody}]
  /\ deletion \in [Users -> Deletion]
  /\ clock \in Nat
  /\ \A u \in Users \ users : inst[u] = [d \in Devices |-> Absent]
  /\ \A u \in Users : Cardinality(Present(inst[u])) <= MaxInstallations
  /\ \A u \in Users, d \in Devices :
       /\ inst[u][d].address => inst[u][d].present
       /\ inst[u][d].present => (inst[u][d].enabled <=> inst[u][d].disabledAt = Never)

\* Whoever holds an address has its owner record, through transfers, pruning and
\* concurrent deletions of other accounts.  DeleteOwnersForUser breaks it for its
\* own user, until the user document goes too.
AddressOwned ==
  \A u \in Users, d \in Devices :
    inst[u][d].address /\ ~deletion[u].torn => owner[d] = u

\* "A transaction moves a target between owners and clears the old owner's address"
\* (docs/architecture.md): no device is an active target of two accounts at once.
SoleTarget ==
  \A u, v \in Users :
    u # v /\ ~deletion[u].torn /\ ~deletion[v].torn
      => ActiveTargets(u, clock) \cap ActiveTargets(v, clock) = {}

\* Once DeleteOwnersForUser has succeeded behind the fence, no owner record names the
\* user, although it lists the records first and deletes them one by one while
\* devices register (the fence is read in the transaction of each registration).
OwnersGone ==
  \A u \in Users :
    FenceConfigured /\ deletion[u].phase = "deleted" /\ deletion[u].sealed
      => \A d \in Devices : owner[d] # u

\* An entry leaves the map of an account only because it is too old, or because the
\* map is full of entries that were seen no earlier, but for the one just used; and an
\* address that gets a new owner is in that owner's map, however late its registration
\* is stamped and whatever that pruned (prune).
FreshestKept ==
  [][/\ \A u \in users' : \A d \in Present(inst[u]) \ Present(inst'[u]) :
          \/ clock - inst[u][d].lastSeen > Retention
          \/ ~inst[u][d].enabled /\ clock - inst[u][d].disabledAt > DisabledRetention
          \/ /\ Cardinality(Present(inst'[u])) = MaxInstallations
             /\ Cardinality({e \in Present(inst'[u]) :
                               inst'[u][e].lastSeen < inst[u][d].lastSeen}) <= 1
     /\ \A d \in Devices :
          owner'[d] \notin {owner[d], Nobody} => inst'[owner'[d]][d].address]_vars

\* "Re-registration preserves creation and delivery metadata" (docs/architecture.md):
\* a delivery marker lasts as long as the entry, also through heartbeats, transfers
\* and retirement, so a campaign is not delivered twice to one installation.
MarkersKept ==
  [][\A u \in Users, d \in Devices :
       inst[u][d].marker # NoMarker /\ inst'[u][d].present
         => inst'[u][d].marker # NoMarker]_vars

==============================================================================
