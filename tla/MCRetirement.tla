---------------------------- MODULE MCRetirement ----------------------------
(***************************************************************************)
(* A small instance of Retirement for TLC: two accounts that contend for   *)
(* two devices, and the deletion of one account.  To keep it small, a      *)
(* behaviour either has requests of every kind and no delivery, or the     *)
(* registrations of Retirement and a delivery; only device 1 carries a     *)
(* delivery marker, and the provider loses sight of no other.              *)
(***************************************************************************)
EXTENDS Retirement

Undelivered == [NoSend EXCEPT !.pc = "none"]

InitEither ==
  /\ Init
  /\ known = {}
  /\ send \in {NoSend, Undelivered}
  /\ gone = {}

NextEither ==
  /\ \/ /\ send = Undelivered
        /\ Next
        /\ UNCHANGED <<known, send, gone>>
     \/ /\ send # Undelivered
        /\ NextAll
        /\ known \ known' \subseteq {1}
  /\ \A u \in Users : inst'[u][2].marker = NoMarker

SpecEither == InitEither /\ [][NextEither]_allVars

==============================================================================
