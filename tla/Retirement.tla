----------------------------- MODULE Retirement -----------------------------
(***************************************************************************)
(* Installations together with one delivery: the targets are read, the     *)
(* provider answers for each, and the unregistered ones are retired in the *)
(* store, while devices go on registering and move to other accounts, and  *)
(* accounts are deleted (Worker.deliver and the CLI's send).  A retirement *)
(* that failed and is retried minutes later is the same as one that takes  *)
(* long, so it is not a step of its own.                                   *)
(***************************************************************************)
EXTENDS Installations

VARIABLES
  known,    \* addresses the provider has registered; no code of src/ keeps it
  send,     \* the delivery between two of its calls
  gone      \* history: targets of the delivery that were unregistered at some time
            \* since the lookup

allVars == <<vars, known, send, gone>>

AnyUser == CHOOSE u \in Users : TRUE
NoSend == [pc |-> "idle", user |-> AnyUser, pending |-> {}, invalid |-> {}]

InitAll ==
  /\ Init
  /\ known = {}
  /\ send = NoSend
  /\ gone = {}

\* The messaging SDK of a device registers its address with the provider, or deletes
\* it; an installation ID is the same address after the next registration.
ProviderRegisters(d) ==
  /\ d \notin known
  /\ known' = known \cup {d}
  /\ UNCHANGED <<vars, send, gone>>

ProviderForgets(d) ==
  /\ d \in known
  /\ known' = known \ {d}
  /\ gone' = IF d \in send.pending \cup send.invalid THEN gone \cup {d} ELSE gone
  /\ UNCHANGED <<vars, send>>

\* A device registers the address it has just got from the provider, sends heartbeats,
\* and deletes its installation.  Requests with other fields are in Next.
DeviceRegisters(u, d) ==
  /\ d \in known
  /\ \E now \in Stamps : UpsertPushInstallation(u, d, TRUE, TRUE, now)
  /\ UNCHANGED <<known, send, gone>>

DeviceReports(u, d) ==
  /\ \E now \in Stamps : HeartbeatPushInstallation(u, d, "keep", TRUE, now)
  /\ UNCHANGED <<known, send, gone>>

DeviceLeaves(u, d) ==
  /\ \E now \in Stamps : Disable(u, {d}, now)
  /\ UNCHANGED <<known, send, gone>>

LookUp(u) ==
  /\ send.pc = "idle"
  /\ ActiveTargets(u, clock) # {}
  /\ send' = [pc |-> "send", user |-> u, pending |-> ActiveTargets(u, clock), invalid |-> {}]
  /\ gone' = ActiveTargets(u, clock) \ known
  /\ UNCHANGED <<vars, known>>

\* The answer that retires a target.
Retires(code) == code = "unregistered"

Answer(d) ==
  /\ send.pc = "send"
  /\ d \in send.pending
  /\ \E code \in {"ok", "permanent", "unregistered"} :
       /\ code = "unregistered" <=> d \notin known
       /\ send' = [send EXCEPT !.pending = @ \ {d},
                               !.invalid = IF Retires(code) THEN @ \cup {d} ELSE @]
  /\ UNCHANGED <<vars, known, gone>>

SendEnds ==
  /\ send.pc = "send"
  /\ send.pending = {}
  /\ send' = IF send.invalid = {} THEN NoSend ELSE [send EXCEPT !.pc = "retire"]
  /\ gone' = IF send.invalid = {} THEN {} ELSE gone
  /\ UNCHANGED <<vars, known>>

\* DisablePushInstallations; entries that are gone are no error.
RetireInvalid ==
  /\ send.pc = "retire"
  /\ \/ Disable(send.user, send.invalid, clock)
     \/ send.invalid \cap Present(inst[send.user]) = {} /\ UNCHANGED vars
  /\ send' = NoSend
  /\ gone' = {}
  /\ UNCHANGED known

NextAll ==
  \/ \E d \in Devices : ProviderRegisters(d) \/ ProviderForgets(d) \/ Answer(d)
  \/ \E u \in Users, d \in Devices :
       DeviceRegisters(u, d) \/ DeviceReports(u, d) \/ DeviceLeaves(u, d)
  \/ \E u \in Users : Mark(u) /\ UNCHANGED <<known, send, gone>>
  \/ \E u \in Leavers : AccountStep(u) /\ UNCHANGED <<known, send, gone>>
  \/ \E u \in Users : LookUp(u)
  \/ SendEnds
  \/ RetireInvalid
  \/ Advance /\ UNCHANGED <<known, send, gone>>

SpecAll == InitAll /\ [][NextAll]_allVars

------------------------------------------------------------------------------
\* "Only unregistered addresses are automatically retired" (docs/architecture.md): the
\* retirement of a delivery takes the address from no entry but one of the delivery's own
\* account that the provider did not know at some time since the lookup, so neither
\* from a device that stayed registered nor from the account that took a device over
\* while the answers were on their way.  An entry that the same account renewed
\* meanwhile is retired all the same; the device learns it from its next heartbeat.
RegisteredKept ==
  [][send.pc = "retire" /\ send'.pc = "idle" =>
       \A u \in Users, d \in Devices :
         inst[u][d].address /\ ~inst'[u][d].address => u = send.user /\ d \in gone]_allVars

==============================================================================
