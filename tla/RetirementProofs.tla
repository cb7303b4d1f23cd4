-------------------------- MODULE RetirementProofs --------------------------
(***************************************************************************)
(* Theorems about Retirement: a delivery retires only what was             *)
(* unregistered, and the installation store together with deliveries is    *)
(* still the installation store.                                           *)
(***************************************************************************)
EXTENDS Retirement, InstallationsProofs

------------------------------------------------------------------------------
SendTyped ==
  /\ send \in [pc: {"idle", "send", "retire"}, user: Users \cup {AnyUser},
               pending: SUBSET Devices, invalid: SUBSET Devices]
  /\ send.pc # "idle" => send.user \in Users

\* A target still to be answered that the provider does not know was unregistered since
\* the lookup, and so was each target to be retired.
Witnessed ==
  /\ send.pc = "send" => send.pending \ known \subseteq gone
  /\ send.invalid \subseteq gone

SendInv == SendTyped /\ Witnessed

LEMMA SendInit == InitAll => SendInv
BY DEF InitAll, NoSend, SendInv, SendTyped, Witnessed

\* The provider's answers: only an address it does not know is taken for unregistered.
LEMMA AnswerKeeps ==
  ASSUME SendInv, NEW d \in Devices, Answer(d) PROVE SendInv'
<1> PICK code \in {"ok", "permanent", "unregistered"} :
       /\ code = "unregistered" <=> d \notin known
       /\ send' = [send EXCEPT !.pending = @ \ {d},
                               !.invalid = IF Retires(code) THEN @ \cup {d} ELSE @]
  BY DEF Answer
<1>1. send.pc = "send" /\ d \in send.pending /\ known' = known /\ gone' = gone
  BY DEF Answer
<1>2. /\ send'.pc = send.pc /\ send'.user = send.user
      /\ send'.pending = send.pending \ {d}
      /\ send'.invalid = IF Retires(code) THEN send.invalid \cup {d} ELSE send.invalid
      /\ SendTyped'
  BY DEF SendInv, SendTyped
<1>3. Retires(code) => d \in gone
  BY <1>1 DEF Retires, SendInv, Witnessed
<1> QED BY <1>1, <1>2, <1>3 DEF SendInv, Witnessed

LEMMA SendStep == SendInv /\ [NextAll]_allVars => SendInv'
<1> SUFFICES ASSUME SendInv, [NextAll]_allVars PROVE SendInv'
  OBVIOUS
<1>1. ASSUME send' = send, gone' = gone, known' = known PROVE SendInv'
  BY <1>1 DEF SendInv, SendTyped, Witnessed
<1>2. ASSUME NEW d \in Devices, ProviderRegisters(d) \/ ProviderForgets(d) \/ Answer(d)
      PROVE  SendInv'
  <2>1. CASE ProviderRegisters(d)
    BY <2>1 DEF ProviderRegisters, SendInv, SendTyped, Witnessed
  <2>2. CASE ProviderForgets(d)
    BY <2>2 DEF ProviderForgets, SendInv, SendTyped, Witnessed
  <2> QED BY <1>2, <2>1, <2>2, AnswerKeeps
<1>3. ASSUME NEW u \in Users, LookUp(u) PROVE SendInv'
  <2>1. ActiveTargets(u, clock) \in SUBSET Devices
    BY DEF ActiveTargets
  <2> QED BY <1>3, <2>1 DEF LookUp, SendInv, SendTyped, Witnessed
<1>4. ASSUME SendEnds PROVE SendInv'
  BY <1>4 DEF SendEnds, NoSend, SendInv, SendTyped, Witnessed
<1>5. ASSUME RetireInvalid PROVE SendInv'
  BY <1>5 DEF RetireInvalid, NoSend, SendInv, SendTyped, Witnessed
<1> QED BY <1>1, <1>2, <1>3, <1>4, <1>5
        DEF NextAll, allVars, DeviceRegisters, DeviceReports, DeviceLeaves

\* DisablePushInstallations changes the account of the delivery, and there the entries of
\* the reported installations.
LEMMA RetirementTakes ==
  ASSUME Inv, SendInv, RetireInvalid, NEW u \in Users, NEW d \in Devices,
         inst[u][d].address, ~inst'[u][d].address
  PROVE  u = send.user /\ d \in gone
<1>1. inst \in [Users -> [Devices -> Installation]]
  BY DEF Inv, Typed, Maps, Sane
<1>2. Disable(send.user, send.invalid, clock)
  BY DEF RetireInvalid, vars
<1>3. inst' = [inst EXCEPT ![send.user] = RetireIn(inst[send.user], send.invalid, clock)]
  BY <1>2 DEF Disable
<1>4. u = send.user
  BY <1>1, <1>3
<1>5. inst'[u] = RetireIn(inst[u], send.invalid, clock)
  BY <1>1, <1>3, <1>4
<1>6. d \in send.invalid
  BY <1>5 DEF RetireIn
<1> QED BY <1>4, <1>6 DEF SendInv, Witnessed

\* No other step ends a retirement.
LEMMA RetirementEnds ==
  ASSUME [NextAll]_allVars, send.pc = "retire", send'.pc = "idle" PROVE RetireInvalid
<1>1. send' # send
  OBVIOUS
<1>2. \A d \in Devices : ~ProviderRegisters(d) /\ ~ProviderForgets(d) /\ ~Answer(d)
  BY <1>1 DEF ProviderRegisters, ProviderForgets, Answer
<1>3. \A u \in Users : ~LookUp(u)
  BY DEF LookUp
<1>4. \A u \in Users, d \in Devices :
        ~DeviceRegisters(u, d) /\ ~DeviceReports(u, d) /\ ~DeviceLeaves(u, d)
  BY <1>1 DEF DeviceRegisters, DeviceReports, DeviceLeaves
<1>5. ~SendEnds
  BY DEF SendEnds
<1> QED BY <1>1, <1>2, <1>3, <1>4, <1>5 DEF NextAll, allVars

\* Each step of the composition is one of the store's, or leaves the store alone; what is
\* retired is retired for the user of the delivery.
LEMMA StoreStep == Inv /\ SendInv /\ [NextAll]_allVars => [Next]_vars
<1> SUFFICES ASSUME Inv, SendInv, NextAll, ~UNCHANGED vars PROVE Next
  BY DEF allVars
<1>1. ASSUME NEW u \in Users, NEW d \in Devices,
             DeviceRegisters(u, d) \/ DeviceReports(u, d) \/ DeviceLeaves(u, d)
      PROVE  Next
  <2>1. CASE DeviceRegisters(u, d)
    BY <2>1 DEF DeviceRegisters, Register, Next
  <2>2. CASE DeviceReports(u, d)
    BY <2>2 DEF DeviceReports, Heartbeat, Next
  <2>3. CASE DeviceLeaves(u, d)
    BY <2>3 DEF DeviceLeaves, DisableSome, Next
  <2> QED BY <1>1, <2>1, <2>2, <2>3
<1>2. ASSUME RetireInvalid PROVE Next
  <2>1. Disable(send.user, send.invalid, clock)
    BY <1>2 DEF RetireInvalid
  <2>2. send.user \in Users /\ send.invalid \in SUBSET Devices
    BY <1>2 DEF RetireInvalid, SendInv, SendTyped
  <2>3. clock \in Stamps
    BY BoundAssumption DEF Inv, Typed, Stamps
  <2> QED BY <2>1, <2>2, <2>3 DEF DisableSome, Next
<1>3. ASSUME Advance PROVE Next
  BY <1>3 DEF Next
<1>4. ASSUME NEW d \in Devices PROVE ~ProviderRegisters(d) /\ ~ProviderForgets(d) /\ ~Answer(d)
  BY DEF ProviderRegisters, ProviderForgets, Answer
<1>5. ASSUME NEW u \in Users PROVE ~LookUp(u) /\ (Mark(u) => Next)
  BY DEF LookUp, Next
<1>6. ASSUME NEW u \in Leavers PROVE AccountStep(u) => Next
  BY DEF Next
<1>7. ~SendEnds
  BY DEF SendEnds
<1> QED BY <1>1, <1>2, <1>3, <1>4, <1>5, <1>6, <1>7 DEF NextAll

LEMMA BothKept == SpecAll => [](Inv /\ SendInv)
<1>1. InitAll => Inv /\ SendInv
  BY InitInv, SendInit DEF InitAll
<1>2. Inv /\ SendInv /\ [NextAll]_allVars => (Inv /\ SendInv)'
  BY StoreStep, SendStep, NextKeeps
<1> QED BY <1>1, <1>2, PTL DEF SpecAll

------------------------------------------------------------------------------
(* Theorems *)

\* What a delivery takes out of the store is an address of its own account that the
\* provider did not know at some time since the lookup, whoever registered, left or was
\* deleted meanwhile (Worker.deliver and DisablePushInstallations).
THEOREM RegisteredKeptHolds == SpecAll => RegisteredKept
<1> DEFINE Kept == send.pc = "retire" /\ send'.pc = "idle" =>
              \A u \in Users, d \in Devices :
                inst[u][d].address /\ ~inst'[u][d].address => u = send.user /\ d \in gone
<1>1. Inv /\ SendInv /\ [NextAll]_allVars => Kept
  BY RetirementTakes, RetirementEnds
<1> HIDE DEF Kept
<1>2. SpecAll => [][Kept]_allVars
  BY <1>1, BothKept, PTL DEF SpecAll
<1> QED BY <1>2 DEF Kept, RegisteredKept

\* Deliveries use the store only through its operations (DisablePushInstallations), so what
\* the store promises holds beside them.
THEOREM StoreKept == SpecAll => Spec
<1>1. InitAll => Init
  BY DEF InitAll
<1> QED BY <1>1, StoreStep, BothKept, PTL DEF SpecAll, Spec

\* So a delivery, and what it retires while accounts are deleted and deliveries are marked,
\* breaks nothing the store promises: addresses keep one account, a deleted account leaves
\* no owner record, markers and fresh entries last.
THEOREM PromisesKept ==
  SpecAll => /\ [](AddressOwned /\ SoleTarget /\ OwnersGone)
             /\ FreshestKept /\ MarkersKept
<1>1. Spec => [](AddressOwned /\ SoleTarget /\ OwnersGone)
  BY AddressOwnedHolds, SoleTargetHolds, OwnersGoneHolds, PTL
<1> QED BY <1>1, StoreKept, FreshestKeptHolds, MarkersKeptHolds

==============================================================================
