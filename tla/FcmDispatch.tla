---------------------------- MODULE FcmDispatch -----------------------------
(***************************************************************************)
(* Dispatcher with the repository's own adapter, push/fcm/sender.go, as    *)
(* its provider: the addresses of a call are reordered for the multicast   *)
(* request, FCM answers by position, and every answer is classified.       *)
(*                                                                         *)
(* FCM is external: it answers each address with success or one of the     *)
(* errors the SDK tells apart, or the whole request with one of them, or   *)
(* with another number of answers than it was asked for.                   *)
(***************************************************************************)
EXTENDS Dispatcher

CONSTANT Tokens       \* targets of type token; the others are FIDs

ASSUME TokenAssumption == Tokens \subseteq Targets

VARIABLES
  route,    \* the provider of this Send: "fcm", "refused" when ValidateMessage refuses
            \* the message, "other" for another BatchSender with one result per target
  said      \* history: what FCM said of the target last: accepted, unregistered, other

fcmVars == <<vars, route, said>>

Errors == {"unregistered", "quota", "internal", "unavailable", "third_party_auth",
           "invalid_argument", "sender_mismatch", "unnamed"}

\* classifyError
Classify(answer) ==
  CASE answer = "accepted" -> "ok"
    [] answer = "unregistered" -> "unregistered"
    [] answer = "quota" -> "rate_limited"
    [] answer \in {"internal", "unavailable"} -> "transient"
    [] answer \in {"invalid_argument", "sender_mismatch"} -> "permanent"
    [] answer \in {"third_party_auth", "unnamed"} -> "unknown"

\* The pending targets of a call, in the order of the batch.
InOrder(pending) == Sublist(input, {i \in Firsts(input) : input[i] \in pending})

\* The request: multicast.Tokens, then multicast.Fids.
Multicast(pending) == InOrder(pending \cap Tokens) \o InOrder(pending \ Tokens)

\* The target that a position of the response belongs to; faulty: the order of the call.
CallOrder(pending) == InOrder(pending)
OrderedTargets(pending) == Multicast(pending)

FcmInit ==
  /\ Init
  /\ route \in {"other", "fcm", "refused"}
  /\ said = [t \in Targets |-> "other"]

Hear(targets, answer) ==
  said' = [t \in Targets |->
             IF t \notin targets THEN said[t]
             ELSE IF answer[t] \in {"accepted", "unregistered"} THEN answer[t]
             ELSE "other"]

\* SendBatch with one answer per target: result i is that of orderedTargets[i].
FcmAnswers(w) ==
  LET pending == batch[worker[w]].pending
      request == Multicast(pending)
      ordered == OrderedTargets(pending)
  IN  /\ route = "fcm"
      /\ Calling(w)
      /\ \E answer \in [pending -> {"accepted"} \cup Errors] :
           LET results == [t \in pending |->
                            LET i == CHOOSE i \in DOMAIN ordered : ordered[i] = t
                            IN  Classify(answer[request[i]])]
           IN  Respond(w, pending, results, "ok") /\ Hear(pending, answer)
      /\ UNCHANGED route

\* The request fails as a whole; an error without a class, as when the number of
\* responses does not fit, is unknown.
FcmFails(w) ==
  LET pending == batch[worker[w]].pending
  IN  /\ route = "fcm"
      /\ Calling(w)
      /\ \E error \in Errors :
           /\ Respond(w, {}, <<>>, Classify(error))
           /\ Hear(pending, [t \in pending |-> error])
      /\ UNCHANGED route

\* ValidateMessage refuses the message before FCM is asked.
MessageRefused(w) ==
  /\ route = "refused"
  /\ Calling(w)
  /\ Respond(w, {}, <<>>, "unknown")
  /\ UNCHANGED <<route, said>>

OtherReturns(w) == route = "other" /\ ProviderReturns(w) /\ UNCHANGED <<route, said>>

FcmStep(w) ==
  \/ (Take(w) \/ TimerFires(w) \/ WaitCanceled(w) \/ Deliver(w)) /\ UNCHANGED <<route, said>>
  \/ FcmAnswers(w) \/ FcmFails(w) \/ MessageRefused(w) \/ OtherReturns(w)

FcmNext ==
  \/ \E w \in DOMAIN worker : FcmStep(w)
  \/ (Return \/ ContextEnds) /\ UNCHANGED <<route, said>>

FcmFairness ==
  /\ \A w \in 1 .. MaxBatchConcurrency : WF_fcmVars(w \in DOMAIN worker /\ FcmStep(w))
  /\ WF_fcmVars(Return /\ UNCHANGED <<route, said>>)
FcmSpec == FcmInit /\ [][FcmNext]_fcmVars /\ FcmFairness

------------------------------------------------------------------------------
\* The verdict on an address is what FCM said of that very address, through reordering,
\* retries of part of a batch and requests that fail: a delivery is reported only
\* for one that FCM accepted, and only one that FCM called unregistered is reported
\* so, which the caller retires.
VerdictEarned ==
  route = "fcm" =>
    \A b \in Batches : \A t \in DOMAIN batch[b].final :
      batch[b].final[t] # Open =>
        /\ batch[b].final[t] = "ok" <=> said[t] = "accepted"
        /\ batch[b].final[t] = "unregistered" <=> said[t] = "unregistered"

==============================================================================
