------------------------------ MODULE Envelope ------------------------------
(***************************************************************************)
(* What push/validation.go, push/notification_analytics.go and             *)
(* scheduler/schedule.go demand of a message: the checks of                *)
(* ValidateMessage, the analytics envelope the library adds to the data,   *)
(* and the schedule's own envelope, built when a schedule is accepted and  *)
(* again for each delivery.                                                *)
(*                                                                         *)
(* A text field is empty, good or bad for its own check; size is what the  *)
(* message takes as JSON without the fields the scheduler fills in.        *)
(***************************************************************************)
EXTENDS Integers, FiniteSets

CONSTANTS
  Budget,      \* 3072 bytes
  FieldSize,   \* bytes of one field the scheduler fills in
  MaxTTL       \* 28 days

ASSUME EnvelopeAssumption == Budget \in Nat /\ FieldSize \in Nat /\ MaxTTL \in Nat \ {0}

Text == {"", "good", "bad"}
AnalyticsField == {"id", "app", "kind", "label"}
NoAnalytics == [f \in AnalyticsField |-> ""]

\* text: title or body is there.  plain: no data key, collapse ID or badge the
\* providers refuse.  owned: whether the caller's data has keys of the analytics
\* envelope, and whether they agree with the message's own analytics.
Message == [text: BOOLEAN, plain: BOOLEAN, owned: {"none", "agree", "conflict"},
            ttl: Int, analytics: [AnalyticsField -> Text], size: Nat]

\* NotificationAnalytics.validate: required, trimmed and short, or a proper label.
ValidAnalytics(a) == \A f \in AnalyticsField : a[f] = "good"

\* EnrichNotificationData succeeds: without analytics its keys may not be used, with
\* analytics a key of the data may not contradict it.
Enrichable(m) ==
  IF m.analytics = NoAnalytics
    THEN m.owned = "none"
    ELSE ValidAnalytics(m.analytics) /\ m.owned # "conflict"

\* The length of the JSON: the fields with omitempty count when they are set.
Encoded(m) ==
  m.size + FieldSize * (Cardinality({f \in AnalyticsField : m.analytics[f] # ""})
                        + IF m.ttl = 0 THEN 0 ELSE 1)

ValidateMessage(m) ==
  /\ m.text
  /\ m.ttl \in 0 .. MaxTTL
  /\ m.plain
  /\ Enrichable(m)
  /\ Encoded(m) <= Budget

\* messageForOccurrence: the ID is a hash of fixed length, the other fields default.
MessageForOccurrence(m) ==
  [m EXCEPT !.ttl = IF @ = 0 THEN 1 ELSE @,
            !.analytics = [f \in AnalyticsField |->
                             IF f = "id" \/ @[f] = "" THEN "good" ELSE @[f]]]

AcceptSchedule(m) == m.owned = "none" /\ ValidateMessage(MessageForOccurrence(m))

==============================================================================
