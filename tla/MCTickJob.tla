------------------------------ MODULE MCTickJob ------------------------------
(***************************************************************************)
(* A small instance of TickJob for TLC: a day of three units, zones with   *)
(* every kind of change, messages around the limits of the envelope.       *)
(***************************************************************************)
EXTENDS TickJob

Change(before, at, after) == [before |-> before, at |-> at, after |-> after]

\* A fixed zone; a gap; a repeated hour at two places of the day; a day skipped and a
\* day lived twice.
SomeZones ==
  {Change(2, 0, 2), Change(0, 4, 1), Change(0, 4, -1), Change(0, 5, -1),
   Change(-1, 4, 2), Change(2, 4, -1)}

With(label, ttl, size) ==
  [text |-> TRUE, plain |-> TRUE, owned |-> "none", ttl |-> ttl, size |-> size,
   analytics |-> [NoAnalytics EXCEPT !["label"] = label]]

\* Five fields of one byte each are added to a bare message.
SomeMessages ==
  {With("", 0, 3), With("", 0, 4), With("good", 1, 4), With("bad", 0, 3),
   With("", -1, 3), With("", 3, 3), [With("", 0, 3) EXCEPT !.owned = "agree"],
   [With("", 0, 3) EXCEPT !.text = FALSE], [With("", 0, 3) EXCEPT !.plain = FALSE]}

SomeLaunches ==
  [explicit: {-1}, count: 2 .. ShardCount + 1]
    \cup [explicit: {-1, ShardCount - 1}, count: {0}]

=============================================================================
