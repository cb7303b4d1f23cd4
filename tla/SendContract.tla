---------------------------- MODULE SendContract ----------------------------
(***************************************************************************)
(* What Sender.Send promises the scheduler's worker (scheduler/schedule.go *)
(* and the loop over the results in scheduler/worker.go): every address    *)
(* asked for is settled once, Send returns when all are, and it returns an *)
(* error exactly when one of them is left for another try.  A call that is *)
(* refused settles none.  How many batches, provider calls and waits it    *)
(* takes does not show.                                                    *)
(***************************************************************************)
CONSTANT Targets

VARIABLES verdict,    \* Targets asked for -> what the caller is told
          returned,
          failed      \* the error of Send is not nil

Final == {"ok", "unregistered", "permanent", "unresolved"}
Settled(t) == verdict[t] \in Final

Init ==
  /\ \E asked \in SUBSET Targets : verdict = [t \in asked |-> "open"]
  /\ returned = FALSE
  /\ failed = FALSE

\* The provider has answered, or its answer is given up, for some of the targets.
Settle ==
  /\ DOMAIN verdict' = DOMAIN verdict
  /\ \A t \in DOMAIN verdict :
       \/ verdict'[t] = verdict[t]
       \/ ~Settled(t) /\ verdict'[t] \in Final
  /\ UNCHANGED <<returned, failed>>

Return ==
  /\ \/ \A t \in DOMAIN verdict : Settled(t)
     \/ \A t \in DOMAIN verdict : ~Settled(t)
  /\ returned' = TRUE
  /\ failed' = \E t \in DOMAIN verdict : ~Settled(t) \/ verdict[t] = "unresolved"
  /\ UNCHANGED verdict

Next == ~returned /\ (Settle \/ Return)

Spec == Init /\ [][Next]_<<verdict, returned, failed>>

=============================================================================
