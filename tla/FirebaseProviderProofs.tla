----------------------- MODULE FirebaseProviderProofs -----------------------
(***************************************************************************)
(* Theorems about FirebaseProvider: for any calls and targets, and any     *)
(* length of the main actor's queue.                                       *)
(***************************************************************************)
EXTENDS FirebaseProvider, SequenceTheorems, TLAPS

------------------------------------------------------------------------------
(* The queue of the main actor *)

Maybe == Targets \cup {NoTarget}
OfTarget == {"registered", "unregistered"}
Answers == {"completed", "refused"}
OfCall == Answers \cup {"timeout", "cancel"}
Suspensions == {"suspended", "notSuspended"}
Jobs == [kind: OfTarget, arg: Targets] \cup [kind: OfCall, arg: Calls]
          \cup [kind: Suspensions, arg: Nat]

Positions == 1 .. Len(inbox)
Kind(i) == inbox[i].kind

Typed ==
  /\ inbox \in Seq(Jobs)
  /\ call \in [Calls -> {"idle", "register", "registered", "wait", "returned", "failed"}]
  /\ resumed \in [Calls -> Nat]
  /\ pending \subseteq Calls
  /\ currentTarget \in Maybe /\ told \in Maybe
  /\ sdk \in [auto: BOOLEAN, target: Maybe]
  /\ events \in Nat

\* The SDK answers a call once, and the answer finds the call where it asked.
Answered ==
  /\ \A i \in Positions : Kind(i) \in Answers => call[inbox[i].arg] = "registered"
  /\ \A i, j \in Positions :
       Kind(i) \in Answers /\ Kind(j) \in Answers /\ inbox[i].arg = inbox[j].arg => i = j

\* A call is in the table while it waits, and nobody resumed it yet.
Waiting ==
  \A c \in Calls :
    /\ c \in pending <=> call[c] = "wait"
    /\ resumed[c] <= 1
    /\ call[c] \notin {"returned", "failed"} => resumed[c] = 0

\* Suspensions are numbered as they are made; the SDK has answered the ones whose answer
\* is in the queue, or has been.
Numbered ==
  /\ suspending \subseteq 1 .. events /\ quiet \subseteq 1 .. events
  /\ held \subseteq quiet \ suspending
  /\ \A i \in Positions : Kind(i) \in Suspensions => inbox[i].arg \in (1 .. events) \ suspending

\* While it is quiet a registration comes only from a call under way.  What was registered
\* before the SDK unregistered is in the queue before the answer of the suspension.
Quiet ==
  /\ quiet # {} => ~sdk.auto
  /\ \A i, j \in Positions :
       /\ Kind(i) = "suspended" /\ inbox[i].arg \in quiet \ crossed
       /\ Kind(j) = "registered"
       => j < i
  /\ held \ crossed # {} =>
       currentTarget = NoTarget /\ \A i \in Positions : Kind(i) # "registered"

\* The ID that will be offered when the queue has run: the current one, or the one of a
\* callback in the queue, that nothing behind it replaces or takes back.
EndsOffer(job, t) ==
  job.kind \in {"registered", "suspended"} \/ (job.kind = "unregistered" /\ job.arg = t)
OfferedAt(n, t) ==
  /\ IF n = 0 THEN currentTarget = t ELSE Kind(n) = "registered" /\ inbox[n].arg = t
  /\ \A i \in Positions : n < i => ~EndsOffer(inbox[i], t)
WillOffer(t) == \E n \in 0 .. Len(inbox) : OfferedAt(n, t)

\* It is the one the provider was told of last.
Faithful == ~failed => \A t \in Targets : WillOffer(t) <=> told = t

Inv == Typed /\ Answered /\ Waiting /\ Numbered /\ Quiet /\ Faithful

------------------------------------------------------------------------------
(* Steps of the queue: it loses its head or not, and gets jobs behind its end. *)

Changed(off, added) ==
  /\ off \in {0, 1} /\ off <= Len(inbox)
  /\ added \in Seq(Jobs)
  /\ inbox' \in Seq(Jobs)
  /\ Len(inbox') = Len(inbox) - off + Len(added)
  /\ \A i \in 1 .. Len(inbox') :
       inbox'[i] = IF i + off <= Len(inbox) THEN inbox[i + off]
                                            ELSE added[i + off - Len(inbox)]

LEMMA JobTypes ==
  /\ \A kind \in OfTarget, target \in Targets : Job(kind, target) \in Jobs
  /\ \A kind \in OfCall, c \in Calls : Job(kind, c) \in Jobs
  /\ \A kind \in Suspensions, n \in Nat : Job(kind, n) \in Jobs
  /\ \A kind, arg : Job(kind, arg).kind = kind /\ Job(kind, arg).arg = arg
BY DEF Job, Jobs

LEMMA Grown ==
  ASSUME Typed, NEW added \in Seq(Jobs), inbox' = inbox \o added
  PROVE  Changed(0, added)
<1>1. inbox \in Seq(Jobs) /\ Len(inbox) \in Nat /\ Len(added) \in Nat
  BY LenProperties DEF Typed
<1>2. /\ inbox' \in Seq(Jobs) /\ Len(inbox') = Len(inbox) + Len(added)
      /\ \A i \in 1 .. Len(inbox) + Len(added) :
           inbox'[i] = IF i <= Len(inbox) THEN inbox[i] ELSE added[i - Len(inbox)]
  BY <1>1, ConcatProperties
<1>3. ASSUME NEW i \in 1 .. Len(inbox')
      PROVE  inbox'[i] = IF i + 0 <= Len(inbox) THEN inbox[i + 0]
                                                ELSE added[i + 0 - Len(inbox)]
  <2>1. i + 0 = i /\ i + 0 - Len(inbox) = i - Len(inbox)
    BY <1>1
  <2> QED BY <1>2, <2>1
<1> QED BY <1>1, <1>2, <1>3 DEF Changed

LEMMA Moved ==
  ASSUME Typed, NEW added \in Seq(Jobs), inbox # << >>, inbox' = Tail(inbox) \o added
  PROVE  Changed(1, added)
<1> DEFINE rest == Tail(inbox)
<1>1. inbox \in Seq(Jobs) /\ Len(inbox) \in Nat \ {0} /\ Len(added) \in Nat
  BY LenProperties, EmptySeq DEF Typed
<1>2. /\ rest \in Seq(Jobs) /\ Len(rest) = Len(inbox) - 1
      /\ \A i \in 1 .. Len(rest) : rest[i] = inbox[i + 1]
  BY <1>1, HeadTailProperties
<1> HIDE DEF rest
<1>3. inbox' = rest \o added
  BY DEF rest
<1>4. /\ inbox' \in Seq(Jobs) /\ Len(inbox') = Len(rest) + Len(added)
      /\ \A i \in 1 .. Len(rest) + Len(added) :
           inbox'[i] = IF i <= Len(rest) THEN rest[i] ELSE added[i - Len(rest)]
  <2>1. rest \in Seq(Jobs)
    BY <1>2
  <2>2. /\ rest \o added \in Seq(Jobs) /\ Len(rest \o added) = Len(rest) + Len(added)
        /\ \A i \in 1 .. Len(rest) + Len(added) :
             (rest \o added)[i] = IF i <= Len(rest) THEN rest[i] ELSE added[i - Len(rest)]
    BY <2>1, ConcatProperties
  <2> QED BY <1>3, <2>2
<1>5. ASSUME NEW i \in 1 .. Len(inbox')
      PROVE  inbox'[i] = IF i + 1 <= Len(inbox) THEN inbox[i + 1]
                                                ELSE added[i + 1 - Len(inbox)]
  <2>1. i - Len(rest) = i + 1 - Len(inbox) /\ (i <= Len(rest) <=> i + 1 <= Len(inbox))
    BY <1>1, <1>2
  <2>2. i <= Len(rest) => i \in 1 .. Len(rest)
    BY <1>1, <1>2
  <2> QED BY <1>2, <1>4, <2>1, <2>2
<1> QED BY <1>1, <1>2, <1>4, <1>5 DEF Changed

LEMMA Dropped ==
  ASSUME Typed, inbox # << >>, inbox' = Tail(inbox)
  PROVE  Changed(1, << >>)
<1>1. Tail(inbox) \in Seq(Jobs) /\ << >> \in Seq(Jobs)
  BY HeadTailProperties, EmptySeq DEF Typed
<1>2. inbox' = Tail(inbox) \o << >>
  BY <1>1, ConcatEmptySeq
<1> QED BY <1>1, <1>2, Moved

\* Where the jobs of the new queue come from.
LEMMA Origin ==
  ASSUME Typed, NEW off, NEW added, Changed(off, added), NEW i \in 1 .. Len(inbox')
  PROVE  /\ off \in Nat /\ Len(inbox) \in Nat
         /\ \/ /\ i + off \in Positions /\ inbox'[i] = inbox[i + off]
            \/ /\ i + off > Len(inbox) /\ i + off - Len(inbox) \in 1 .. Len(added)
               /\ inbox'[i] = added[i + off - Len(inbox)]
<1>1. Len(inbox) \in Nat /\ Len(added) \in Nat /\ off \in Nat /\ i \in Nat /\ i >= 1
      /\ i <= Len(inbox) - off + Len(added)
  BY LenProperties DEF Typed, Changed
<1>2. CASE i + off <= Len(inbox)
  BY <1>1, <1>2 DEF Changed, Positions
<1>3. CASE ~(i + off <= Len(inbox))
  BY <1>1, <1>3 DEF Changed
<1> QED BY <1>1, <1>2, <1>3

\* Where they go to.
LEMMA Kept ==
  ASSUME Typed, NEW off, NEW added, Changed(off, added)
  PROVE  /\ \A i \in Positions : i > off =>
              i - off \in 1 .. Len(inbox') /\ inbox'[i - off] = inbox[i]
         /\ \A j \in 1 .. Len(added) :
              /\ Len(inbox) - off + j \in 1 .. Len(inbox')
              /\ inbox'[Len(inbox) - off + j] = added[j]
<1>1. Len(inbox) \in Nat /\ Len(added) \in Nat /\ off \in Nat /\ off <= Len(inbox)
      /\ Len(inbox') = Len(inbox) - off + Len(added)
  BY LenProperties DEF Typed, Changed
<1>2. ASSUME NEW i \in Positions, i > off
      PROVE  i - off \in 1 .. Len(inbox') /\ inbox'[i - off] = inbox[i]
  <2>1. i \in Nat /\ i <= Len(inbox) /\ (i - off) + off = i
    BY <1>1 DEF Positions
  <2>2. i - off \in 1 .. Len(inbox')
    BY <1>1, <1>2, <2>1
  <2> QED BY <2>1, <2>2 DEF Changed
<1>3. ASSUME NEW j \in 1 .. Len(added)
      PROVE  /\ Len(inbox) - off + j \in 1 .. Len(inbox')
             /\ inbox'[Len(inbox) - off + j] = added[j]
  <2> DEFINE i == Len(inbox) - off + j
  <2>1. i \in 1 .. Len(inbox') /\ ~(i + off <= Len(inbox)) /\ i + off - Len(inbox) = j
    BY <1>1
  <2> HIDE DEF i
  <2>2. inbox'[i] = added[j]
    BY <2>1 DEF Changed
  <2> QED BY <2>1, <2>2 DEF i
<1> QED BY <1>2, <1>3

------------------------------------------------------------------------------
(* What a step of the queue keeps *)

\* The answers left in the queue still find their calls, and the new ones are for a call
\* that had none.
LEMMA AnsweredKept ==
  ASSUME Typed, Answered, NEW off, NEW added, Changed(off, added),
         \A i \in Positions : i > off /\ Kind(i) \in Answers
            => call'[inbox[i].arg] = "registered",
         \A j \in 1 .. Len(added) : added[j].kind \in Answers
            => /\ call'[added[j].arg] = "registered" /\ call[added[j].arg] # "registered"
               /\ \A k \in 1 .. Len(added) : added[k].kind \in Answers => k = j
  PROVE  Answered'
<1>1. off \in Nat /\ Len(inbox) \in Nat
  BY LenProperties DEF Typed, Changed
<1>2. ASSUME NEW i \in 1 .. Len(inbox'), inbox'[i].kind \in Answers
      PROVE  call'[inbox'[i].arg] = "registered"
  <2>1. i + off \in Positions => i + off > off
    BY <1>1
  <2> QED BY <1>1, <1>2, <2>1, Origin DEF Kind
<1>3. ASSUME NEW i \in 1 .. Len(inbox'), NEW j \in 1 .. Len(inbox'),
             inbox'[i].kind \in Answers, inbox'[j].kind \in Answers,
             inbox'[i].arg = inbox'[j].arg
      PROVE  i = j
  <2> DEFINE Old(n) == n + off \in Positions /\ inbox'[n] = inbox[n + off]
             New(n) == n + off - Len(inbox) \in 1 .. Len(added)
                         /\ inbox'[n] = added[n + off - Len(inbox)]
  <2>1. (Old(i) \/ New(i)) /\ (Old(j) \/ New(j))
    BY Origin
  <2>2. CASE Old(i) /\ Old(j)
    <3>1. i + off = j + off
      BY <1>3, <2>2 DEF Answered, Kind
    <3> QED BY <1>1, <3>1
  <2>3. CASE New(i) /\ New(j)
    <3>1. i + off - Len(inbox) = j + off - Len(inbox)
      BY <1>3, <2>3
    <3> QED BY <1>1, <3>1
  <2>4. ASSUME NEW m \in 1 .. Len(inbox'), NEW n \in 1 .. Len(inbox'), Old(m), New(n),
               inbox'[m].kind \in Answers, inbox'[n].kind \in Answers,
               inbox'[m].arg = inbox'[n].arg
        PROVE  FALSE
    <3>1. call[inbox'[m].arg] = "registered"
      BY <2>4 DEF Answered, Kind
    <3>2. call[inbox'[n].arg] # "registered"
      BY <2>4
    <3> QED BY <2>4, <3>1, <3>2
  <2> HIDE DEF Old, New
  <2> QED BY <1>3, <2>1, <2>2, <2>3, <2>4
<1> QED BY <1>2, <1>3 DEF Answered, Positions, Kind

LEMMA NumberedKept ==
  ASSUME Typed, Numbered, NEW off, NEW added, Changed(off, added),
         events' \in Nat, events <= events', quiet' \subseteq 1 .. events',
         suspending' \subseteq 1 .. events',
         \A n \in 1 .. events : n \in suspending' => n \in suspending,
         held' \subseteq quiet' \ suspending',
         \A j \in 1 .. Len(added) : added[j].kind \in Suspensions
            => added[j].arg \in (1 .. events') \ suspending'
  PROVE  Numbered'
<1>1. ASSUME NEW i \in 1 .. Len(inbox'), inbox'[i].kind \in Suspensions
      PROVE  inbox'[i].arg \in (1 .. events') \ suspending'
  <2>1. ASSUME NEW k \in Positions, inbox'[i] = inbox[k]
        PROVE  inbox'[i].arg \in (1 .. events') \ suspending'
    <3>1. inbox[k].arg \in (1 .. events) \ suspending
      BY <1>1, <2>1 DEF Numbered, Kind
    <3>2. inbox[k].arg \notin suspending'
      BY <3>1
    <3>3. inbox[k].arg \in 1 .. events'
      BY <3>1 DEF Typed
    <3> QED BY <2>1, <3>2, <3>3
  <2>2. CASE \E j \in 1 .. Len(added) : inbox'[i] = added[j]
    BY <1>1, <2>2
  <2>3. (\E k \in Positions : inbox'[i] = inbox[k])
          \/ \E j \in 1 .. Len(added) : inbox'[i] = added[j]
    BY Origin
  <2> QED BY <2>1, <2>2, <2>3
<1> QED BY <1>1 DEF Numbered, Positions, Kind

\* No registration comes into the queue while it is quiet, but one that crosses.
LEMMA QuietKept ==
  ASSUME Typed, Quiet, NEW off, NEW added, Changed(off, added),
         quiet' = quiet, crossed' = crossed,
         quiet # {} => ~sdk'.auto,
         quiet # {} => \A j \in 1 .. Len(added) : added[j].kind # "registered",
         held' \subseteq quiet,
         held' \ crossed # {} =>
           /\ currentTarget' = NoTarget
           /\ \A i \in Positions : i > off => Kind(i) # "registered"
  PROVE  Quiet'
<1>1. off \in Nat /\ Len(inbox) \in Nat
  BY LenProperties DEF Typed, Changed
<1>2. ASSUME quiet # {}, NEW j \in 1 .. Len(inbox'), inbox'[j].kind = "registered"
      PROVE  j + off \in Positions /\ inbox'[j] = inbox[j + off] /\ j + off > off
  <2>1. j + off > off
    BY <1>1
  <2> QED BY <1>2, <2>1, Origin
<1>3. ASSUME NEW i \in 1 .. Len(inbox'), NEW j \in 1 .. Len(inbox'),
             inbox'[i].kind = "suspended", inbox'[i].arg \in quiet \ crossed,
             inbox'[j].kind = "registered"
      PROVE  j < i
  <2>1. j + off \in Positions /\ inbox'[j] = inbox[j + off]
    BY <1>2, <1>3
  <2>2. CASE i + off \in Positions /\ inbox'[i] = inbox[i + off]
    <3>1. j + off < i + off
      BY <1>3, <2>1, <2>2 DEF Quiet, Kind
    <3> QED BY <1>1, <3>1
  <2>3. CASE i + off > Len(inbox)
    BY <1>1, <2>1, <2>3 DEF Positions
  <2> QED BY <2>2, <2>3, Origin
<1>4. ASSUME held' \ crossed # {}, NEW j \in 1 .. Len(inbox')
      PROVE  inbox'[j].kind # "registered"
  <2>1. quiet # {}
    BY <1>4
  <2> QED BY <1>2, <1>4, <2>1 DEF Kind
<1> QED BY <1>3, <1>4 DEF Quiet, Positions, Kind

\* Running the head, and jobs that offer and take back nothing, keep what will be offered.
HeadRun ==
  LET head == inbox[1]
  IN  currentTarget' = CASE head.kind = "registered" -> head.arg
                         [] head.kind = "unregistered" -> Invalidate(head.arg)
                         [] head.kind = "suspended" -> NoTarget
                         [] OTHER -> currentTarget

Neutral(job) == job.kind \notin {"registered", "unregistered", "suspended"}

LEMMA OfferKept ==
  ASSUME Typed, NEW off, NEW added, Changed(off, added),
         \A j \in 1 .. Len(added) : Neutral(added[j]),
         IF off = 0 THEN currentTarget' = currentTarget ELSE HeadRun,
         NEW t \in Targets
  PROVE  WillOffer(t)' <=> WillOffer(t)
<1>1. off \in {0, 1} /\ off <= Len(inbox) /\ Len(inbox) \in Nat /\ Len(inbox') \in Nat
  BY LenProperties DEF Typed, Changed
<1>2. \A i \in Positions : i > off => i - off \in 1 .. Len(inbox') /\ inbox'[i - off] = inbox[i]
  BY Kept
<1>3. ASSUME NEW i \in 1 .. Len(inbox'), EndsOffer(inbox'[i], t)
      PROVE  i + off \in Positions /\ inbox'[i] = inbox[i + off]
  BY <1>3, Origin DEF EndsOffer, Neutral
<1>4. ASSUME NEW n \in 0 .. Len(inbox), OfferedAt(n, t) PROVE WillOffer(t)'
  <2> DEFINE m == IF n > off THEN n - off ELSE 0
  <2>1. m \in 0 .. Len(inbox') /\ n \in Nat
    BY <1>1, <1>2, <1>4 DEF Positions
  <2>2. ASSUME NEW i \in 1 .. Len(inbox'), m < i, EndsOffer(inbox'[i], t) PROVE FALSE
    <3>1. i + off \in Positions /\ inbox'[i] = inbox[i + off]
      BY <1>3, <2>2
    <3>2. n < i + off
      BY <1>1, <2>1, <2>2
    <3> QED BY <1>4, <2>2, <3>1, <3>2 DEF OfferedAt
  <2>3. IF m = 0 THEN currentTarget' = t ELSE inbox'[m].kind = "registered" /\ inbox'[m].arg = t
    <3>1. CASE n > off
      <4>1. n \in Positions /\ n # 0 /\ m # 0 /\ m = n - off
        BY <1>1, <2>1, <3>1 DEF Positions
      <4>2. inbox'[m] = inbox[n]
        BY <1>2, <3>1, <4>1
      <4> QED BY <1>4, <4>1, <4>2 DEF OfferedAt, Kind
    <3>2. CASE n = 0
      <4>1. currentTarget = t /\ m = 0
        BY <1>1, <1>4, <3>2 DEF OfferedAt
      <4>2. off = 1 => ~EndsOffer(inbox[1], t)
        BY <1>1, <1>4, <3>2 DEF OfferedAt, Positions
      <4>3. currentTarget' = t
        BY <1>1, <4>1, <4>2 DEF HeadRun, EndsOffer, Invalidate
      <4> QED BY <4>1, <4>3
    <3>3. CASE n = 1 /\ off = 1
      <4>1. inbox[1].kind = "registered" /\ inbox[1].arg = t /\ m = 0
        BY <1>4, <3>3 DEF OfferedAt, Kind
      <4> QED BY <3>3, <4>1 DEF HeadRun
    <3> QED BY <1>1, <2>1, <3>1, <3>2, <3>3
  <2> HIDE DEF m
  <2> QED BY <2>1, <2>2, <2>3 DEF WillOffer, OfferedAt, Positions, Kind
<1>5. ASSUME NEW m \in 0 .. Len(inbox'),
             IF m = 0 THEN currentTarget' = t
                      ELSE inbox'[m].kind = "registered" /\ inbox'[m].arg = t,
             \A i \in 1 .. Len(inbox') : m < i => ~EndsOffer(inbox'[i], t)
      PROVE  WillOffer(t)
  <2>1. t # NoTarget
    BY TargetAssumption
  <2>2. ASSUME NEW i \in Positions, i > off, m < i - off PROVE ~EndsOffer(inbox[i], t)
    <3>1. i - off \in 1 .. Len(inbox') /\ inbox'[i - off] = inbox[i]
      BY <1>2, <2>2
    <3> QED BY <1>5, <2>2, <3>1
  <2>3. CASE m # 0
    <3> DEFINE n == m + off
    <3>1. m \in 1 .. Len(inbox') /\ EndsOffer(inbox'[m], t)
      BY <1>1, <1>5, <2>3 DEF EndsOffer
    <3>2. n \in Positions /\ inbox'[m] = inbox[n]
      BY <1>3, <3>1
    <3>3. n \in 0 .. Len(inbox) /\ n # 0
      BY <3>2, <1>1 DEF Positions
    <3>4. \A i \in Positions : n < i => ~EndsOffer(inbox[i], t)
      BY <1>1, <2>2, <3>1 DEF Positions
    <3> HIDE DEF n
    <3>5. OfferedAt(n, t)
      BY <1>5, <2>3, <3>2, <3>3, <3>4 DEF OfferedAt, Kind
    <3> QED BY <3>3, <3>5 DEF WillOffer
  <2>4. CASE m = 0 /\ off = 1 /\ Kind(1) = "registered"
    <3>1. inbox[1].arg = t
      BY <1>5, <2>4 DEF HeadRun, Kind
    <3>2. \A i \in Positions : 1 < i => ~EndsOffer(inbox[i], t)
      BY <1>1, <2>2, <2>4 DEF Positions
    <3>3. OfferedAt(1, t)
      BY <2>4, <3>1, <3>2 DEF OfferedAt
    <3> QED BY <1>1, <2>4, <3>3 DEF WillOffer
  <2>5. CASE m = 0 /\ (off = 0 \/ Kind(1) # "registered")
    <3>1. currentTarget = t /\ (off = 1 => ~EndsOffer(inbox[1], t))
      BY <1>1, <1>5, <2>1, <2>5 DEF HeadRun, Kind, EndsOffer, Invalidate
    <3>2. \A i \in Positions : 0 < i => ~EndsOffer(inbox[i], t)
      BY <1>1, <2>2, <2>5, <3>1 DEF Positions
    <3>3. OfferedAt(0, t)
      BY <3>1, <3>2 DEF OfferedAt
    <3> QED BY <1>1, <3>3 DEF WillOffer
  <2> QED BY <1>1, <2>3, <2>4, <2>5
<1>6. WillOffer(t) => WillOffer(t)'
  BY <1>4 DEF WillOffer
<1>7. WillOffer(t)' => WillOffer(t)
  <2> SUFFICES ASSUME WillOffer(t)' PROVE WillOffer(t)
    OBVIOUS
  <2>1. PICK m \in 0 .. Len(inbox') : OfferedAt(m, t)'
    BY DEF WillOffer
  <2> QED BY <1>5, <2>1 DEF OfferedAt, Positions, Kind
<1> QED BY <1>6, <1>7

\* A registration that is told of is the last word of the queue.
LEMMA OfferTold ==
  ASSUME Typed, NEW added, Changed(0, added), NEW target \in Targets,
         NEW p \in 1 .. Len(added), added[p].kind = "registered", added[p].arg = target,
         \A j \in 1 .. Len(added) \ {p} :
            ~EndsOffer(added[j], target) /\ added[j].kind # "registered",
         NEW t \in Targets
  PROVE  WillOffer(t)' <=> t = target
<1>1. Len(inbox) \in Nat /\ Len(inbox') \in Nat /\ Len(added) \in Nat /\ p \in Nat /\ p >= 1
  BY LenProperties DEF Typed, Changed
<1>0. PICK m \in Nat : m = Len(inbox) - 0 + p
  BY <1>1
<1>2. m \in 1 .. Len(inbox') /\ inbox'[m] = added[p]
  BY <1>0, Kept
<1>3. ASSUME NEW i \in 1 .. Len(inbox'), i # m, i > Len(inbox)
      PROVE  inbox'[i].kind # "registered" /\ ~EndsOffer(inbox'[i], target)
  <2>1. i + 0 - Len(inbox) \in 1 .. Len(added) /\ inbox'[i] = added[i + 0 - Len(inbox)]
    BY <1>1, <1>3, Origin DEF Positions
  <2>2. i + 0 - Len(inbox) # p
    BY <1>0, <1>1, <1>3
  <2> QED BY <2>1, <2>2
<1>4. m > Len(inbox) /\ m # 0
  BY <1>0, <1>1
<1>5. ASSUME t = target PROVE WillOffer(t)'
  <2>1. \A i \in 1 .. Len(inbox') : m < i => ~EndsOffer(inbox'[i], t)
    BY <1>1, <1>2, <1>3, <1>4, <1>5
  <2>2. OfferedAt(m, t)'
    BY <1>2, <1>4, <1>5, <2>1 DEF OfferedAt, Positions, Kind
  <2> QED BY <1>2, <2>2 DEF WillOffer
<1>6. ASSUME NEW n \in 0 .. Len(inbox'), OfferedAt(n, t)' PROVE t = target
  <2>1. ~(n < m)
    BY <1>2, <1>6 DEF OfferedAt, Positions, EndsOffer
  <2>2. n # 0 /\ n \in 1 .. Len(inbox') /\ (n = m \/ n > Len(inbox))
    BY <1>1, <1>2, <1>4, <2>1
  <2>3. inbox'[n].kind = "registered" /\ inbox'[n].arg = t
    BY <1>6, <2>2 DEF OfferedAt, Kind
  <2>4. n = m
    BY <1>3, <2>2, <2>3
  <2> QED BY <1>2, <2>3, <2>4
<1> QED BY <1>5, <1>6 DEF WillOffer

\* A completed suspension takes back whatever is offered before it.
LEMMA OfferSuspended ==
  ASSUME Typed, NEW added, Changed(0, added), Len(added) # 0,
         added[Len(added)].kind = "suspended", NEW t \in Targets
  PROVE  ~WillOffer(t)'
<1> DEFINE p == Len(added)
           m == Len(inbox) - 0 + p
<1>1. /\ Len(inbox) \in Nat /\ Len(inbox') \in Nat /\ Len(added) \in Nat
      /\ Len(inbox') = Len(inbox) - 0 + Len(added)
  BY LenProperties DEF Typed, Changed
<1>2. p \in 1 .. Len(added) /\ m = Len(inbox') /\ m > 0
  BY <1>1
<1>3. m \in 1 .. Len(inbox') /\ inbox'[m] = added[p]
  BY <1>2, Kept
<1> SUFFICES ASSUME NEW n \in 0 .. Len(inbox'), OfferedAt(n, t)' PROVE FALSE
  BY DEF WillOffer
<1> HIDE DEF m
<1>4. inbox'[m].kind = "suspended" /\ EndsOffer(inbox'[m], t)
  BY <1>3 DEF EndsOffer
<1>5. ~(n < m)
  BY <1>3, <1>4 DEF OfferedAt, Positions
<1>6. n = m /\ n # 0
  BY <1>1, <1>2, <1>5
<1> QED BY <1>4, <1>6 DEF OfferedAt, Kind

------------------------------------------------------------------------------
(* The steps *)

\* The queue's end, with one job or with a callback before or behind another job.
LEMMA Added ==
  ASSUME NEW a \in Jobs, NEW b \in Jobs
  PROVE  /\ <<a>> \in Seq(Jobs) /\ Len(<<a>>) = 1 /\ <<a>>[1] = a
         /\ <<a, b>> \in Seq(Jobs) /\ Len(<<a, b>>) = 2 /\ <<a, b>>[1] = a /\ <<a, b>>[2] = b
OBVIOUS

LEMMA AddedOne ==
  ASSUME NEW a \in Jobs, NEW s \in Seq(Jobs)
  PROVE  Append(s, a) = s \o <<a>>
BY AppendIsConcat

LEMMA AddedTwo ==
  ASSUME NEW a \in Jobs, NEW b \in Jobs, NEW s \in Seq(Jobs)
  PROVE  s \o <<a>> \o <<b>> = s \o <<a, b>>
<1>1. <<a>> \in Seq(Jobs) /\ <<b>> \in Seq(Jobs) /\ <<a, b>> \in Seq(Jobs)
  OBVIOUS
<1>2. <<a>> \o <<b>> = <<a, b>>
  <2> DEFINE ab == <<a>> \o <<b>>
             both == <<a, b>>
  <2>1. /\ ab \in Seq(Jobs) /\ Len(ab) = Len(<<a>>) + Len(<<b>>)
        /\ \A i \in 1 .. Len(<<a>>) + Len(<<b>>) :
             ab[i] = IF i <= Len(<<a>>) THEN <<a>>[i] ELSE <<b>>[i - Len(<<a>>)]
    BY <1>1, ConcatProperties
  <2>2. Len(<<a>>) = 1 /\ Len(<<b>>) = 1 /\ <<a>>[1] = a /\ <<b>>[1] = b
    OBVIOUS
  <2> HIDE DEF ab
  <2>3. Len(ab) = 2 /\ ab[1] = a /\ ab[2] = b
    BY <2>1, <2>2
  <2>4. both \in Seq(Jobs) /\ Len(both) = 2 /\ both[1] = a /\ both[2] = b
    OBVIOUS
  <2> HIDE DEF both
  <2>5. ab = both
    BY <2>1, <2>3, <2>4, SeqEqual
  <2> QED BY <2>5 DEF ab, both
<1>3. (s \o <<a>>) \o <<b>> = s \o (<<a>> \o <<b>>)
  BY <1>1, ConcatAssociative
<1> QED BY <1>2, <1>3

\* A waiter is resumed when it leaves the table.
LEMMA ResumeKeeps ==
  ASSUME Typed, Waiting, NEW calls \in SUBSET pending, NEW outcome \in {"returned", "failed"},
         pending' = pending \ calls, Resume(calls, outcome)
  PROVE  /\ Waiting'
         /\ \A c \in Calls : call[c] = "registered" => call'[c] = "registered"
         /\ \A c \in Calls : call[c] # "register" => call'[c] # "register"
         /\ pending' \subseteq Calls
         /\ call' \in [Calls -> {"idle", "register", "registered", "wait", "returned", "failed"}]
         /\ resumed' \in [Calls -> Nat]
<1>1. ASSUME NEW c \in Calls
      PROVE  /\ resumed'[c] = IF c \in calls THEN resumed[c] + 1 ELSE resumed[c]
             /\ call'[c] = IF c \in calls THEN outcome ELSE call[c]
  BY DEF Resume
<1>2. \A c \in calls : c \in Calls /\ call[c] = "wait" /\ resumed[c] = 0
  BY DEF Typed, Waiting
<1>3. \A c \in Calls : resumed[c] \in Nat
  BY DEF Typed
<1>4. ASSUME NEW c \in Calls
      PROVE  /\ c \in pending' <=> call'[c] = "wait"
             /\ resumed'[c] <= 1
             /\ call'[c] \notin {"returned", "failed"} => resumed'[c] = 0
             /\ resumed'[c] \in Nat
  <2>1. CASE c \in calls
    BY <1>1, <1>2, <2>1
  <2>2. CASE c \notin calls
    BY <1>1, <1>3, <2>2 DEF Waiting
  <2> QED BY <2>1, <2>2
<1>5. Waiting'
  BY <1>4 DEF Waiting
<1>6. resumed' \in [Calls -> Nat]
  BY <1>4 DEF Resume
<1>7. call' \in [Calls -> {"idle", "register", "registered", "wait", "returned", "failed"}]
  BY DEF Resume, Typed
<1> QED BY <1>1, <1>2, <1>5, <1>6, <1>7 DEF Typed

LEMMA StartInv ==
  ASSUME Inv, NEW c \in Calls, Start(c) PROVE Inv'
<1>1. /\ call[c] = "idle" /\ call' = [call EXCEPT ![c] = "register"]
      /\ sdk' = [sdk EXCEPT !.auto = TRUE]
      /\ quiet' = {} /\ held' = {} /\ UNCHANGED events
      /\ UNCHANGED <<currentTarget, pending, resumed, inbox, suspending, told, failed>>
  BY DEF Start
<1>2. Typed'
  BY <1>1 DEF Inv, Typed
<1>3. \A d \in Calls : call'[d] = IF d = c THEN "register" ELSE call[d]
  BY <1>1 DEF Inv, Typed
<1>4. Answered'
  <2>1. ASSUME NEW i \in Positions, Kind(i) \in Answers
        PROVE  call'[inbox[i].arg] = "registered"
    <3>1. call[inbox[i].arg] = "registered"
      BY <2>1 DEF Inv, Answered
    <3> QED BY <1>1, <3>1 DEF Inv, Typed
  <2> QED BY <1>1, <2>1 DEF Inv, Answered, Positions, Kind
<1>5. Waiting'
  BY <1>1, <1>3 DEF Inv, Waiting
<1>6. Numbered'
  BY <1>1 DEF Inv, Numbered, Positions, Kind
<1>7. Quiet'
  BY <1>1 DEF Quiet
<1>8. Faithful'
  BY <1>1 DEF Inv, Faithful, WillOffer, OfferedAt, Positions, Kind
<1> QED BY <1>2, <1>4, <1>5, <1>6, <1>7, <1>8 DEF Inv

\* The SDK's answer to a call, with the callback before it, behind it, or none.
LEMMA SdkRegistersInv ==
  ASSUME Inv, NEW c \in Calls, SdkRegisters(c) PROVE Inv'
<1>1. /\ call[c] = "register" /\ call' = [call EXCEPT ![c] = "registered"]
      /\ UNCHANGED <<currentTarget, pending, resumed, suspending, quiet, held, events>>
  BY DEF SdkRegisters
<1>2. Typed /\ inbox \in Seq(Jobs) /\ sdk \in [auto: BOOLEAN, target: Maybe]
  BY DEF Inv, Typed
<1> DEFINE comp == Job("completed", c)
           refused == Job("refused", c)
           reg(target) == Job("registered", target)
           Told1(added) == \E target \in Targets :
                             /\ added \in {<<reg(target), comp>>, <<comp, reg(target)>>}
                             /\ told' = target /\ failed' = FALSE
                             /\ crossed' = crossed \cup (quiet \ suspending)
           Silent(added) == /\ added \in {<<comp>>, <<refused>>} /\ UNCHANGED <<told, failed>>
                            /\ crossed' \in {crossed, crossed \cup (quiet \ suspending)}
<1>3. /\ comp \in Jobs /\ refused \in Jobs /\ \A target \in Targets : reg(target) \in Jobs
      /\ comp.kind = "completed" /\ comp.arg = c /\ refused.kind = "refused" /\ refused.arg = c
      /\ \A target : reg(target).kind = "registered" /\ reg(target).arg = target
  BY JobTypes DEF OfTarget, OfCall, Answers
<1>4. sdk' \in [auto: BOOLEAN, target: Maybe]
  <2>1. ASSUME NEW target \in IF sdk.target = NoTarget THEN Targets ELSE {sdk.target},
               sdk' = [sdk EXCEPT !.target = target]
        PROVE  sdk' \in [auto: BOOLEAN, target: Maybe]
    <3>1. target \in Maybe
      BY <1>2, <2>1 DEF Maybe
    <3> QED BY <1>2, <2>1, <3>1
  <2> QED BY <1>2, <2>1 DEF SdkRegisters
<1>5. PICK added \in Seq(Jobs) : inbox' = inbox \o added /\ (Told1(added) \/ Silent(added))
  <2>1. ASSUME NEW target \in IF sdk.target = NoTarget THEN Targets ELSE {sdk.target},
               inbox' = inbox \o <<reg(target)>> \o <<comp>> \/ inbox' = inbox \o <<comp>> \o <<reg(target)>>,
               Told(target), crossed' = crossed \cup (quiet \ suspending)
        PROVE  \E added \in Seq(Jobs) : inbox' = inbox \o added /\ Told1(added)
    <3>1. target \in Targets
      BY <1>2, <2>1 DEF Maybe
    <3>2. reg(target) \in Jobs
      BY <1>3, <3>1
    <3> HIDE DEF comp, reg
    <3> DEFINE callback == reg(target)
    <3>0. callback \in Jobs /\ comp \in Jobs
      BY <1>3, <3>2
    <3> HIDE DEF callback
    <3>3. /\ inbox \o <<callback>> \o <<comp>> = inbox \o <<callback, comp>>
          /\ inbox \o <<comp>> \o <<callback>> = inbox \o <<comp, callback>>
      BY <1>2, <3>0, AddedTwo
    <3>4. <<reg(target), comp>> \in Seq(Jobs) /\ <<comp, reg(target)>> \in Seq(Jobs)
      BY <1>3, <3>2, Added
    <3>5. Told1(<<reg(target), comp>>) /\ Told1(<<comp, reg(target)>>)
      BY <2>1, <3>1 DEF Told
    <3>6. \/ inbox' = inbox \o <<reg(target), comp>>
          \/ inbox' = inbox \o <<comp, reg(target)>>
      BY <2>1, <3>3 DEF callback
    <3> HIDE DEF Told1, callback
    <3> QED BY <3>4, <3>5, <3>6
  <2>2. ASSUME inbox' = inbox \o <<comp>> \/ inbox' = Append(inbox, refused),
               UNCHANGED <<told, failed>>,
               crossed' \in {crossed, crossed \cup (quiet \ suspending)}
        PROVE  \E added \in Seq(Jobs) : inbox' = inbox \o added /\ Silent(added)
    <3> HIDE DEF comp, refused
    <3>1. inbox' = inbox \o <<comp>> \/ inbox' = inbox \o <<refused>>
      BY <1>2, <1>3, <2>2, AddedOne
    <3>2. <<comp>> \in Seq(Jobs) /\ <<refused>> \in Seq(Jobs)
      BY <1>3, Added
    <3> QED BY <2>2, <3>1, <3>2
  <2>3. \/ \E target \in IF sdk.target = NoTarget THEN Targets ELSE {sdk.target} :
             /\ \/ inbox' = inbox \o <<reg(target)>> \o <<comp>>
                \/ inbox' = inbox \o <<comp>> \o <<reg(target)>>
             /\ Told(target) /\ crossed' = crossed \cup (quiet \ suspending)
        \/ /\ inbox' = inbox \o <<comp>> \/ inbox' = Append(inbox, refused)
           /\ UNCHANGED <<told, failed>>
           /\ crossed' \in {crossed, crossed \cup (quiet \ suspending)}
    BY DEF SdkRegisters
  <2> HIDE DEF comp, refused, reg, Told1, Silent
  <2> QED BY <2>1, <2>2, <2>3
<1>6. Changed(0, added)
  BY <1>2, <1>5, Grown
<1> HIDE DEF comp, refused, reg
<1>7. ASSUME NEW j \in 1 .. Len(added)
      PROVE  /\ added[j].kind \notin Suspensions
             /\ added[j].kind \in Answers => added[j].arg = c
             /\ \A k \in 1 .. Len(added) :
                  added[k].kind \in Answers /\ added[j].kind \in Answers => k = j
  <2>1. \A target \in Targets : added = <<reg(target), comp>> => (j = 1 \/ j = 2) /\ Len(added) = 2
    BY <1>7
  <2>2. \A target \in Targets : added = <<comp, reg(target)>> => (j = 1 \/ j = 2) /\ Len(added) = 2
    BY <1>7
  <2>0. added = <<comp>> \/ added = <<refused>> => Len(added) = 1
    OBVIOUS
  <2>3. Len(added) = 1 => j = 1
    BY <1>7
  <2>4. \A k \in 1 .. Len(added) : Len(added) = 1 => k = j
    BY <1>7
  <2>5. \/ \E target \in Targets : added \in {<<reg(target), comp>>, <<comp, reg(target)>>}
        \/ added \in {<<comp>>, <<refused>>}
    BY <1>5
  <2> HIDE DEF Told1, Silent
  <2> QED BY <1>3, <2>0, <2>1, <2>2, <2>3, <2>4, <2>5 DEF Suspensions, Answers
<1>8. \A d \in Calls : call'[d] = IF d = c THEN "registered" ELSE call[d]
  BY <1>1, <1>2 DEF Typed
<1>9. Typed'
  BY <1>1, <1>2, <1>4, <1>5, <1>6 DEF Typed, Changed, Maybe
<1>10. Answered'
  <2>1. \A i \in Positions : Kind(i) \in Answers => call'[inbox[i].arg] = "registered"
    BY <1>1, <1>2 DEF Inv, Answered, Typed
  <2>2. call[c] # "registered" /\ call'[c] = "registered"
    BY <1>1, <1>8
  <2> QED BY <1>2, <1>6, <1>7, <2>1, <2>2, AnsweredKept DEF Inv
<1>11. Waiting'
  BY <1>1, <1>8 DEF Inv, Waiting
<1>auto. sdk'.auto = sdk.auto
  BY <1>2 DEF SdkRegisters
<1>12. Numbered'
  <2>1. events' \in Nat /\ events <= events'
    BY <1>1, <1>2 DEF Typed
  <2>2. suspending' \subseteq 1 .. events' /\ quiet' \subseteq 1 .. events'
    BY <1>1 DEF Inv, Numbered
  <2>3. held' \subseteq quiet' \ suspending'
    BY <1>1 DEF Inv, Numbered
  <2> QED BY <1>1, <1>2, <1>6, <1>7, <2>1, <2>2, <2>3, NumberedKept DEF Inv
<1>13. Quiet'
  <2>1. quiet # {} => ~sdk'.auto
    BY <1>1, <1>2, <1>auto DEF Inv, Quiet
  <2>2. CASE crossed' = crossed \cup (quiet \ suspending)
    <3>1. held' \ crossed' = {}
      BY <1>1, <2>2 DEF Inv, Numbered
    <3>2. ASSUME NEW i \in 1 .. Len(inbox'), inbox'[i].kind = "suspended"
          PROVE  inbox'[i].arg \notin quiet \ crossed'
      <4>1. inbox'[i].kind \in Suspensions
        BY <3>2 DEF Suspensions
      <4>2. inbox'[i].arg \notin suspending'
        BY <1>12, <4>1 DEF Numbered, Positions, Kind
      <4> QED BY <1>1, <2>2, <4>2
    <3> QED BY <1>1, <2>1, <3>1, <3>2 DEF Quiet, Positions, Kind
  <2>3. CASE Silent(added) /\ crossed' = crossed
    <3>1. \A j \in 1 .. Len(added) : added[j].kind # "registered"
      BY <1>3, <2>3
    <3>2. held' \subseteq quiet
      BY <1>1 DEF Inv, Numbered
    <3>3. held' \ crossed # {} =>
            currentTarget' = NoTarget /\ \A i \in Positions : Kind(i) # "registered"
      BY <1>1 DEF Inv, Quiet
    <3> HIDE DEF Silent
    <3> QED BY <1>1, <1>2, <1>6, <2>1, <2>3, <3>1, <3>2, <3>3, QuietKept DEF Inv
  <2>4. crossed' = crossed \cup (quiet \ suspending) \/ (Silent(added) /\ crossed' = crossed)
    BY <1>5
  <2> QED BY <2>2, <2>3, <2>4
<1>14. Faithful'
  <2> SUFFICES ASSUME ~failed', NEW t \in Targets PROVE WillOffer(t)' <=> told' = t
    BY DEF Faithful
  <2>1. CASE Silent(added)
    <3>1. \A j \in 1 .. Len(added) : Neutral(added[j])
      BY <1>3, <2>1 DEF Neutral
    <3>2. WillOffer(t)' <=> WillOffer(t)
      BY <1>1, <1>2, <1>6, <3>1, OfferKept
    <3> QED BY <2>1, <3>2 DEF Inv, Faithful
  <2>2. ASSUME NEW target \in Targets, told' = target,
               added = <<reg(target), comp>> \/ added = <<comp, reg(target)>>
        PROVE  WillOffer(t)' <=> told' = t
    <3>1. ~EndsOffer(comp, target) /\ comp.kind # "registered"
      BY <1>3 DEF EndsOffer
    <3>2. reg(target).kind = "registered" /\ reg(target).arg = target
      BY <1>3
    <3>3. Len(added) = 2
      BY <2>2
    <3>4. \/ added[1] = reg(target) /\ added[2] = comp
          \/ added[1] = comp /\ added[2] = reg(target)
      BY <2>2
    <3>5. PICK p \in {1, 2} : /\ added[p] = reg(target)
                              /\ \A j \in {1, 2} \ {p} : added[j] = comp
      BY <3>4
    <3>6. 1 .. Len(added) = {1, 2}
      BY <3>3
    <3>7. WillOffer(t)' <=> t = target
      BY <1>2, <1>6, <3>1, <3>2, <3>5, <3>6, OfferTold
    <3> QED BY <2>2, <3>7
  <2> QED BY <1>5, <2>1, <2>2
<1> QED BY <1>9, <1>10, <1>11, <1>12, <1>13, <1>14 DEF Inv

\* A timeout or a cancellation that is queued changes nothing yet.
LEMMA QueuedInv ==
  ASSUME Inv, NEW added, Changed(0, added),
         \A j \in 1 .. Len(added) : added[j].kind \in {"timeout", "cancel"},
         UNCHANGED <<currentTarget, pending, call, resumed, sdk, suspending, quarantine, told, failed,
                     events>>
  PROVE  Inv'
<1>1. Typed /\ Answered /\ Waiting /\ Numbered /\ Quiet /\ Faithful
  BY DEF Inv
<1>2. \A j \in 1 .. Len(added) : /\ added[j].kind \notin Answers \cup Suspensions
                                 /\ added[j].kind # "registered" /\ Neutral(added[j])
  BY DEF Answers, Suspensions, Neutral
<1>3. Typed'
  BY <1>1 DEF Typed, Changed
<1>4. Answered'
  <2>1. \A i \in Positions : Kind(i) \in Answers => call'[inbox[i].arg] = "registered"
    BY <1>1 DEF Answered
  <2> QED BY <1>1, <1>2, <2>1, AnsweredKept
<1>5. Waiting'
  BY <1>1 DEF Waiting
<1>6. Numbered'
  BY <1>1, <1>2, NumberedKept DEF Typed, Numbered, quarantine
<1>7. Quiet'
  <2>1. quiet # {} => ~sdk'.auto
    BY <1>1 DEF Quiet
  <2>2. held' \subseteq quiet
    BY <1>1 DEF Numbered, quarantine
  <2>3. held' \ crossed # {} =>
          currentTarget' = NoTarget /\ \A i \in Positions : Kind(i) # "registered"
    BY <1>1 DEF Quiet, quarantine
  <2> QED BY <1>1, <1>2, <2>1, <2>2, <2>3, QuietKept DEF quarantine
<1>8. Faithful'
  <2>1. \A t \in Targets : WillOffer(t)' <=> WillOffer(t)
    BY <1>1, <1>2, OfferKept
  <2> QED BY <1>1, <2>1 DEF Faithful
<1> QED BY <1>3, <1>4, <1>5, <1>6, <1>7, <1>8 DEF Inv

LEMMA TimerFiresInv ==
  ASSUME Inv, NEW c \in Calls, TimerFires(c) PROVE Inv'
<1> DEFINE job == Job("timeout", c)
<1>1. job \in Jobs /\ job.kind = "timeout"
  BY JobTypes DEF OfCall
<1>2. Typed /\ inbox \in Seq(Jobs) /\ inbox' = Append(inbox, job)
  BY DEF Inv, Typed, TimerFires
<1>3. UNCHANGED <<currentTarget, pending, call, resumed, sdk, suspending, quarantine, told, failed,
                     events>>
  BY DEF TimerFires
<1> HIDE DEF job
<1>4. <<job>> \in Seq(Jobs) /\ Len(<<job>>) = 1 /\ <<job>>[1] = job
  BY <1>1
<1>5. inbox' = inbox \o <<job>>
  BY <1>1, <1>2, AddedOne
<1>6. Changed(0, <<job>>)
  BY <1>2, <1>4, <1>5, Grown
<1>7. \A j \in 1 .. Len(<<job>>) : <<job>>[j].kind \in {"timeout", "cancel"}
  BY <1>1, <1>4
<1> QED BY <1>3, <1>6, <1>7, QueuedInv

LEMMA CancelInv ==
  ASSUME Inv, NEW c \in Calls, Cancel(c) PROVE Inv'
<1> DEFINE job == Job("cancel", c)
<1>1. job \in Jobs /\ job.kind = "cancel"
  BY JobTypes DEF OfCall
<1>2. Typed /\ inbox \in Seq(Jobs) /\ inbox' \in {Append(inbox, job), inbox}
  BY DEF Inv, Typed, Cancel
<1>3. UNCHANGED <<currentTarget, pending, call, resumed, sdk, suspending, quarantine, told, failed,
                     events>>
  BY DEF Cancel, waiting
<1> HIDE DEF job
<1>4. CASE inbox' = Append(inbox, job)
  <2>1. <<job>> \in Seq(Jobs) /\ Len(<<job>>) = 1 /\ <<job>>[1] = job
    BY <1>1
  <2>2. inbox' = inbox \o <<job>>
    BY <1>1, <1>2, <1>4, AddedOne
  <2>3. Changed(0, <<job>>)
    BY <1>2, <2>1, <2>2, Grown
  <2>4. \A j \in 1 .. Len(<<job>>) : <<job>>[j].kind \in {"timeout", "cancel"}
    BY <1>1, <2>1
  <2> QED BY <1>3, <2>3, <2>4, QueuedInv
<1>5. CASE inbox' = inbox
  BY <1>3, <1>5 DEF Inv, Typed, Answered, Waiting, Numbered, Quiet, Faithful, WillOffer,
                    OfferedAt, Positions, Kind, quarantine
<1> QED BY <1>2, <1>4, <1>5

LEMMA SuspendInv ==
  ASSUME Inv, Suspend PROVE Inv'
<1>1. /\ events' = events + 1 /\ sdk' = [sdk EXCEPT !.auto = FALSE]
      /\ suspending' = suspending \cup {events'} /\ quiet' = quiet \cup {events'}
      /\ UNCHANGED <<currentTarget, pending, call, resumed, inbox, held, crossed, told, failed>>
  BY DEF Suspend, Event, AutoOff, waiting
<1>2. events \in Nat /\ events' \in Nat /\ events' \notin 1 .. events
  BY <1>1 DEF Inv, Typed
<1>3. 1 .. events \subseteq 1 .. events'
  BY <1>1, <1>2
<1>4. Typed'
  BY <1>1, <1>2 DEF Inv, Typed
<1>5. Answered' /\ Waiting'
  BY <1>1 DEF Inv, Answered, Waiting, Positions, Kind
<1>6. Numbered'
  <2>1. events' \in 1 .. events'
    BY <1>1, <1>2
  <2>2. suspending' \subseteq 1 .. events' /\ quiet' \subseteq 1 .. events'
    BY <1>1, <1>3, <2>1 DEF Inv, Numbered
  <2>3. held' \subseteq quiet' \ suspending'
    BY <1>1, <1>2 DEF Inv, Numbered
  <2>4. ASSUME NEW i \in Positions, Kind(i) \in Suspensions
        PROVE  inbox[i].arg \in (1 .. events') \ suspending'
    <3>1. inbox[i].arg \in (1 .. events) \ suspending
      BY <2>4 DEF Inv, Numbered
    <3> QED BY <1>1, <1>2, <1>3, <3>1
  <2> QED BY <1>1, <2>2, <2>3, <2>4 DEF Numbered, Positions, Kind
<1>7. Quiet'
  <2>1. ~sdk'.auto
    BY <1>1 DEF Inv, Typed
  <2>2. ASSUME NEW i \in Positions, Kind(i) = "suspended" PROVE inbox[i].arg # events'
    BY <1>2, <2>2 DEF Inv, Numbered, Suspensions
  <2> QED BY <1>1, <2>1, <2>2 DEF Inv, Quiet, Positions, Kind
<1>8. Faithful'
  BY <1>1 DEF Inv, Faithful, WillOffer, OfferedAt, Positions, Kind
<1> QED BY <1>4, <1>5, <1>6, <1>7, <1>8 DEF Inv

LEMMA DidFailInv ==
  ASSUME Inv, DidFailToRegister PROVE Inv'
<1>1. /\ currentTarget' = NoTarget /\ failed' = TRUE
      /\ pending' = pending \ pending /\ Resume(pending, "failed")
      /\ events' \in Nat /\ events' = events + 1
      /\ UNCHANGED <<inbox, sdk, suspending, quiet, held, crossed, told>>
  BY DEF DidFailToRegister, ResumeAll, Event, quarantine, Inv, Typed
<1>2. Typed /\ Waiting /\ Answered
  BY DEF Inv
<1>3. /\ Waiting'
      /\ \A c \in Calls : call[c] = "registered" => call'[c] = "registered"
      /\ \A c \in Calls : call[c] # "register" => call'[c] # "register"
      /\ pending' \subseteq Calls
      /\ call' \in [Calls -> {"idle", "register", "registered", "wait", "returned", "failed"}]
      /\ resumed' \in [Calls -> Nat]
  BY <1>1, <1>2, ResumeKeeps
<1>4. Typed'
  BY <1>1, <1>2, <1>3 DEF Typed, Maybe
<1>5. Answered'
  <2>1. ASSUME NEW i \in Positions, Kind(i) \in Answers PROVE inbox[i].arg \in Calls
    <3>1. inbox[i] \in Jobs
      BY <1>2 DEF Typed, Positions
    <3> QED BY <2>1, <3>1 DEF Jobs, Kind, OfTarget, OfCall, Answers, Suspensions
  <2>2. \A i \in Positions : Kind(i) \in Answers => call'[inbox[i].arg] = "registered"
    BY <1>2, <1>3, <2>1 DEF Answered
  <2> QED BY <1>1, <1>2, <2>2 DEF Answered, Positions, Kind
<1>6. Numbered'
  <2>1. 1 .. events \subseteq 1 .. events'
    BY <1>1, <1>2 DEF Typed
  <2> QED BY <1>1, <2>1 DEF Inv, Numbered, Positions, Kind
<1>7. Quiet'
  BY <1>1 DEF Inv, Quiet, Positions, Kind
<1>8. Faithful'
  BY <1>1 DEF Faithful
<1> QED BY <1>3, <1>4, <1>5, <1>6, <1>7, <1>8 DEF Inv

\* The queue's end with a callback about the registered ID, if there is one, and a job.
LEMMA CalledBack ==
  ASSUME Typed, NEW job \in Jobs
  PROVE  \/ /\ inbox \o CallbackOf(sdk.target) \o <<job>> = inbox \o <<job>>
            /\ inbox \o <<job>> \o CallbackOf(sdk.target) = inbox \o <<job>>
         \/ /\ sdk.target # NoTarget /\ Job("unregistered", sdk.target) \in Jobs
            /\ inbox \o CallbackOf(sdk.target) \o <<job>>
                 = inbox \o <<Job("unregistered", sdk.target), job>>
            /\ inbox \o <<job>> \o CallbackOf(sdk.target)
                 = inbox \o <<job, Job("unregistered", sdk.target)>>
<1> DEFINE un == Job("unregistered", sdk.target)
<1>1. inbox \in Seq(Jobs) /\ <<job>> \in Seq(Jobs) /\ inbox \o <<job>> \in Seq(Jobs)
  BY DEF Typed
<1>2. CASE sdk.target = NoTarget
  <2>1. CallbackOf(sdk.target) = << >>
    BY <1>2 DEF CallbackOf
  <2>2. inbox \o << >> = inbox /\ (inbox \o <<job>>) \o << >> = inbox \o <<job>>
    BY <1>1, ConcatEmptySeq
  <2> QED BY <1>2, <2>1, <2>2
<1>3. CASE sdk.target # NoTarget
  <2>1. sdk.target \in Targets
    BY <1>3 DEF Typed, Maybe
  <2>2. un \in Jobs /\ CallbackOf(sdk.target) = <<un>>
    BY <1>3, <2>1, JobTypes DEF OfTarget, CallbackOf
  <2> HIDE DEF un
  <2>3. /\ inbox \o <<un>> \o <<job>> = inbox \o <<un, job>>
        /\ inbox \o <<job>> \o <<un>> = inbox \o <<job, un>>
    BY <1>1, <2>2, AddedTwo
  <2>4. /\ inbox \o CallbackOf(sdk.target) \o <<job>> = inbox \o <<un, job>>
        /\ inbox \o <<job>> \o CallbackOf(sdk.target) = inbox \o <<job, un>>
    BY <2>2, <2>3
  <2> QED BY <1>3, <2>2, <2>4 DEF un
<1> QED BY <1>2, <1>3

\* The SDK's answer to a suspension.
LEMMA SdkUnregistersInv ==
  ASSUME Inv, NEW n \in suspending, SdkUnregisters(n) PROVE Inv'
<1> DEFINE un == Job("unregistered", sdk.target)
           yes == Job("suspended", n)
           no == Job("notSuspended", n)
           Done(added) == /\ added = <<yes>> \/ added = <<un, yes>>
                          /\ sdk' = [sdk EXCEPT !.target = NoTarget] /\ told' = NoTarget
           Refused(added) == added = <<no>> /\ UNCHANGED <<sdk, told>>
<1>1. /\ suspending' = suspending \ {n}
      /\ UNCHANGED <<currentTarget, pending, call, resumed, quiet, held, crossed, failed, events>>
  BY DEF SdkUnregisters, waiting, quarantine
<1>2. Typed /\ Answered /\ Waiting /\ Numbered /\ Quiet /\ Faithful /\ n \in Nat
  BY DEF Inv, Typed, Numbered
<1>3. /\ yes \in Jobs /\ no \in Jobs /\ yes.arg = n /\ no.arg = n
      /\ yes.kind = "suspended" /\ no.kind = "notSuspended" /\ un.kind = "unregistered"
  BY <1>2, JobTypes DEF Suspensions
<1>4. PICK added \in Seq(Jobs) : inbox' = inbox \o added /\ (Done(added) \/ Refused(added))
  <2>1. CASE /\ inbox' = inbox \o CallbackOf(sdk.target) \o <<yes>>
             /\ sdk' = [sdk EXCEPT !.target = NoTarget] /\ told' = NoTarget
    <3> HIDE DEF yes
    <3>1. <<yes>> \in Seq(Jobs)
      BY <1>3
    <3>2. CASE inbox' = inbox \o <<yes>>
      BY <2>1, <3>1, <3>2
    <3>3. CASE inbox' = inbox \o <<un, yes>> /\ un \in Jobs
      <4>1. <<un, yes>> \in Seq(Jobs)
        BY <1>3, <3>3, Added
      <4> QED BY <2>1, <3>3, <4>1
    <3>4. inbox' = inbox \o <<yes>> \/ (inbox' = inbox \o <<un, yes>> /\ un \in Jobs)
      BY <1>2, <1>3, <2>1, CalledBack
    <3> QED BY <3>2, <3>3, <3>4
  <2>2. CASE inbox' = Append(inbox, no) /\ UNCHANGED <<sdk, told>>
    <3> HIDE DEF no
    <3>1. inbox \in Seq(Jobs) /\ <<no>> \in Seq(Jobs)
      BY <1>2, <1>3 DEF Typed
    <3>2. inbox' = inbox \o <<no>>
      BY <1>3, <2>2, <3>1, AddedOne
    <3> QED BY <2>2, <3>1, <3>2
  <2> QED BY <2>1, <2>2 DEF SdkUnregisters
<1>5. Changed(0, added)
  BY <1>2, <1>4, Grown
<1> HIDE DEF un, yes, no
<1>6. Len(added) \in {1, 2} /\ added[Len(added)] \in {yes, no} /\ (Len(added) = 2 => added[1] = un)
  <2>1. added = <<yes>> \/ added = <<no>> \/ added = <<un, yes>>
    BY <1>4
  <2>2. CASE added = <<yes>>
    BY <2>2
  <2>4. CASE added = <<no>>
    BY <2>4
  <2>3. CASE added = <<un, yes>>
    BY <2>3
  <2> QED BY <2>1, <2>2, <2>3, <2>4
<1>7. ASSUME NEW j \in 1 .. Len(added)
      PROVE  /\ added[j].kind \notin Answers /\ added[j].kind # "registered"
             /\ added[j].kind \in Suspensions => added[j].arg = n
  <2>1. j = Len(added) \/ (Len(added) = 2 /\ j = 1)
    BY <1>6, <1>7
  <2> QED BY <1>3, <1>6, <2>1 DEF Answers, Suspensions
<1>8. Typed'
  <2>1. sdk' \in [auto: BOOLEAN, target: Maybe] /\ told' \in Maybe
    BY <1>2, <1>4 DEF Typed, Maybe
  <2> QED BY <1>1, <1>2, <1>5, <2>1 DEF Typed, Changed
<1>9. Answered'
  <2>1. \A i \in Positions : Kind(i) \in Answers => call'[inbox[i].arg] = "registered"
    BY <1>1, <1>2 DEF Answered
  <2> QED BY <1>2, <1>5, <1>7, <2>1, AnsweredKept
<1>10. Waiting'
  BY <1>1, <1>2 DEF Waiting
<1>11. Numbered'
  <2>1. n \in 1 .. events /\ events <= events' /\ events' \in Nat
    BY <1>1, <1>2 DEF Typed, Numbered
  <2>2. suspending' \subseteq suspending /\ n \notin suspending'
    BY <1>1
  <2>3. held' \subseteq quiet' \ suspending' /\ quiet' \subseteq 1 .. events'
    BY <1>1, <1>2 DEF Numbered
  <2>4. suspending' \subseteq 1 .. events'
    BY <1>1, <1>2 DEF Numbered
  <2>5. \A j \in 1 .. Len(added) : added[j].kind \in Suspensions
          => added[j].arg \in (1 .. events') \ suspending'
    BY <1>1, <1>7, <2>1, <2>2
  <2> QED BY <1>2, <1>5, <2>1, <2>2, <2>3, <2>4, <2>5, NumberedKept
<1>12. Quiet'
  <2>1. sdk'.auto = sdk.auto
    BY <1>2, <1>4 DEF Typed
  <2>2. quiet # {} => ~sdk'.auto
    BY <1>2, <2>1 DEF Quiet
  <2>3. held' \subseteq quiet
    BY <1>1, <1>2 DEF Numbered
  <2>4. held' \ crossed # {} =>
          currentTarget' = NoTarget /\ \A i \in Positions : Kind(i) # "registered"
    BY <1>1, <1>2 DEF Quiet
  <2> QED BY <1>1, <1>2, <1>5, <1>7, <2>2, <2>3, <2>4, QuietKept
<1>13. Faithful'
  <2> SUFFICES ASSUME ~failed', NEW t \in Targets PROVE WillOffer(t)' <=> told' = t
    BY DEF Faithful
  <2>1. CASE Refused(added)
    <3>1. \A j \in 1 .. Len(added) : Neutral(added[j])
      <4>1. Len(added) = 1 /\ added[1] = no
        BY <2>1
      <4>2. Neutral(no)
        BY <1>3 DEF Neutral
      <4>3. \A j \in 1 .. Len(added) : j = 1
        BY <4>1
      <4> QED BY <4>1, <4>2, <4>3
    <3>2. WillOffer(t)' <=> WillOffer(t)
      BY <1>1, <1>2, <1>5, <3>1, OfferKept
    <3> QED BY <1>1, <1>2, <2>1, <3>2 DEF Faithful
  <2>2. CASE Done(added)
    <3>1. Len(added) # 0 /\ added[Len(added)] = yes
      <4>1. CASE added = <<yes>>
        BY <4>1
      <4>2. CASE added = <<un, yes>>
        BY <4>2
      <4> QED BY <2>2, <4>1, <4>2
    <3>2. ~WillOffer(t)'
      BY <1>2, <1>3, <1>5, <3>1, OfferSuspended
    <3>3. told' # t
      BY <2>2, TargetAssumption
    <3> QED BY <3>2, <3>3
  <2> QED BY <1>4, <2>1, <2>2
<1> QED BY <1>8, <1>9, <1>10, <1>11, <1>12, <1>13 DEF Inv

\* The SDK's new ID, and the one it replaces, in either order.
LEMMA RefreshInv ==
  ASSUME Inv, Refresh PROVE Inv'
<1>1. /\ sdk.auto
      /\ UNCHANGED <<currentTarget, pending, call, resumed, suspending, quiet, held, crossed>>
      /\ events' = events + 1
  BY DEF Refresh, waiting, quarantine, Event
<1>2. Typed /\ Answered /\ Waiting /\ Numbered /\ Quiet
  BY DEF Inv
<1>3. PICK target \in Targets \ {sdk.target} :
        /\ sdk' = [sdk EXCEPT !.target = target]
        /\ \/ inbox' = inbox \o CallbackOf(sdk.target) \o <<Job("registered", target)>>
           \/ inbox' = inbox \o <<Job("registered", target)>> \o CallbackOf(sdk.target)
        /\ told' = target
  BY DEF Refresh, Told
<1> DEFINE un == Job("unregistered", sdk.target)
           reg == Job("registered", target)
<1>4. /\ reg \in Jobs /\ reg.kind = "registered" /\ reg.arg = target
      /\ un.kind = "unregistered" /\ un.arg = sdk.target
  BY JobTypes DEF OfTarget
<1>5. \/ inbox' = inbox \o <<reg>>
      \/ un \in Jobs /\ (inbox' = inbox \o <<un, reg>> \/ inbox' = inbox \o <<reg, un>>)
  BY <1>2, <1>3, <1>4, CalledBack
<1> HIDE DEF un, reg
<1>6. PICK added \in Seq(Jobs) :
        inbox' = inbox \o added /\ added \in {<<reg>>, <<un, reg>>, <<reg, un>>}
  <2>1. <<reg>> \in Seq(Jobs)
    BY <1>4
  <2>2. un \in Jobs => <<un, reg>> \in Seq(Jobs) /\ <<reg, un>> \in Seq(Jobs)
    BY <1>4, Added
  <2> QED BY <1>5, <2>1, <2>2
<1>7. Changed(0, added)
  BY <1>2, <1>6, Grown
<1>8. PICK p \in 1 .. Len(added) :
        added[p] = reg /\ \A j \in 1 .. Len(added) \ {p} : added[j] = un
  <2>1. CASE added = <<reg>>
    <3>1. 1 \in 1 .. Len(added) /\ added[1] = reg /\ \A j \in 1 .. Len(added) : j = 1
      BY <2>1
    <3> QED BY <3>1
  <2>2. CASE added = <<un, reg>>
    <3>1. 1 .. Len(added) = {1, 2} /\ added[2] = reg /\ added[1] = un
      BY <2>2
    <3> QED BY <3>1
  <2>3. CASE added = <<reg, un>>
    <3>1. 1 .. Len(added) = {1, 2} /\ added[1] = reg /\ added[2] = un
      BY <2>3
    <3> QED BY <3>1
  <2> QED BY <1>6, <2>1, <2>2, <2>3
<1>9. \A j \in 1 .. Len(added) : added[j].kind \notin Answers \cup Suspensions
  BY <1>4, <1>8 DEF Answers, Suspensions
<1>10. Typed'
  <2>1. target \in Maybe
    BY DEF Maybe
  <2>2. sdk' \in [auto: BOOLEAN, target: Maybe]
    BY <1>2, <1>3, <2>1 DEF Typed
  <2> QED BY <1>1, <1>2, <1>3, <1>7, <2>1, <2>2 DEF Typed, Changed
<1>11. Answered'
  <2>1. \A i \in Positions : Kind(i) \in Answers => call'[inbox[i].arg] = "registered"
    BY <1>1, <1>2 DEF Answered
  <2> QED BY <1>2, <1>7, <1>9, <2>1, AnsweredKept
<1>12. Waiting'
  BY <1>1, <1>2 DEF Waiting
<1>13. Numbered'
  <2>1. events \in Nat /\ events' \in Nat /\ events <= events' /\ 1 .. events \subseteq 1 .. events'
    BY <1>1, <1>2 DEF Typed
  <2>2. suspending' \subseteq 1 .. events' /\ quiet' \subseteq 1 .. events'
    BY <1>1, <1>2, <2>1 DEF Numbered
  <2>3. held' \subseteq quiet' \ suspending'
    BY <1>1, <1>2 DEF Numbered
  <2> QED BY <1>1, <1>2, <1>7, <1>9, <2>1, <2>2, <2>3, NumberedKept
<1>14. Quiet'
  <2>1. quiet = {} /\ held = {}
    BY <1>1, <1>2 DEF Quiet, Numbered
  <2> QED BY <1>1, <2>1 DEF Quiet
<1>15. Faithful'
  <2> SUFFICES ASSUME NEW t \in Targets PROVE WillOffer(t)' <=> told' = t
    BY DEF Faithful
  <2>1. \A j \in 1 .. Len(added) \ {p} :
          ~EndsOffer(added[j], target) /\ added[j].kind # "registered"
    BY <1>4, <1>8 DEF EndsOffer
  <2>2. WillOffer(t)' <=> t = target
    BY <1>2, <1>4, <1>7, <1>8, <2>1, OfferTold
  <2> QED BY <1>3, <2>2
<1> QED BY <1>10, <1>11, <1>12, <1>13, <1>14, <1>15 DEF Inv

------------------------------------------------------------------------------
(* The main actor runs the head of its queue. *)

LEMMA HeadTypes ==
  ASSUME Typed, inbox # << >>
  PROVE  /\ 1 \in Positions /\ Head(inbox) = inbox[1] /\ inbox[1] \in Jobs
         /\ Len(inbox) \in Nat
         /\ inbox[1].kind \in OfTarget => inbox[1].arg \in Targets
         /\ inbox[1].kind \in OfCall => inbox[1].arg \in Calls
<1>1. inbox \in Seq(Jobs) /\ Len(inbox) \in Nat \ {0}
  BY EmptySeq DEF Typed
<1>2. 1 \in Positions /\ inbox[1] \in Jobs /\ Head(inbox) = inbox[1]
  BY <1>1 DEF Positions
<1> QED BY <1>1, <1>2 DEF Jobs, OfTarget, OfCall, Answers, Suspensions

\* Whatever the job, it leaves the queue, and at most a cancellation comes behind it; a
\* call moves from where its answer finds it only by its own answer.
LEMMA RanInv ==
  ASSUME Inv, inbox # << >>, NEW added, Changed(1, added),
         \A j \in 1 .. Len(added) : added[j].kind = "cancel",
         HeadRun, UNCHANGED <<sdk, told, failed>>,
         Waiting', pending' \subseteq Calls, resumed' \in [Calls -> Nat],
         call' \in [Calls -> {"idle", "register", "registered", "wait", "returned", "failed"}],
         \A c \in Calls : call[c] # "register" => call'[c] # "register",
         \A c \in Calls : call[c] = "registered" /\ call'[c] # "registered"
            => Kind(1) \in Answers /\ inbox[1].arg = c,
         UNCHANGED <<suspending, quiet, crossed, events>>,
         \/ held' = held
         \/ Kind(1) = "suspended" /\ held' = held \cup (quiet \cap {inbox[1].arg})
  PROVE  Inv'
<1>1. Typed /\ Answered /\ Numbered /\ Quiet /\ Faithful
  BY DEF Inv
<1>2. /\ 1 \in Positions /\ Len(inbox) \in Nat /\ Kind(1) = inbox[1].kind
      /\ inbox[1].kind \in OfTarget => inbox[1].arg \in Targets
  BY <1>1, HeadTypes DEF Kind
<1>3. \A j \in 1 .. Len(added) : /\ added[j].kind \notin Answers \cup Suspensions
                                 /\ added[j].kind # "registered" /\ Neutral(added[j])
  BY DEF Answers, Suspensions, Neutral
<1>4. Typed'
  <2>1. currentTarget' \in Maybe
    BY <1>1, <1>2 DEF HeadRun, OfTarget, Maybe, Invalidate, Typed
  <2> QED BY <1>1, <2>1 DEF Typed, Changed
<1>5. Answered'
  <2>1. ASSUME NEW i \in Positions, i > 1, Kind(i) \in Answers
        PROVE  call'[inbox[i].arg] = "registered"
    <3>1. call[inbox[i].arg] = "registered"
      BY <1>1, <2>1 DEF Answered
    <3>2. inbox[i] \in Jobs
      BY <1>1 DEF Typed, Positions
    <3>3. inbox[i].arg \in Calls
      BY <2>1, <3>2 DEF Jobs, Kind, OfTarget, OfCall, Answers, Suspensions
    <3>4. ~(Kind(1) \in Answers /\ inbox[1].arg = inbox[i].arg)
      BY <1>1, <1>2, <2>1 DEF Answered
    <3> QED BY <3>1, <3>3, <3>4
  <2> QED BY <1>1, <1>3, <2>1, AnsweredKept
<1>6. Numbered'
  <2>1. Kind(1) = "suspended" => inbox[1].arg \notin suspending
    BY <1>1, <1>2 DEF Numbered, Suspensions
  <2>2. held' \subseteq quiet' \ suspending'
    BY <1>1, <2>1 DEF Numbered
  <2>3. events' \in Nat /\ events <= events'
    BY <1>1 DEF Typed
  <2>4. suspending' \subseteq 1 .. events' /\ quiet' \subseteq 1 .. events'
    BY <1>1 DEF Numbered
  <2> QED BY <1>1, <1>3, <2>2, <2>3, <2>4, NumberedKept
<1>7. Quiet'
  <2>1. quiet # {} => ~sdk'.auto
    BY <1>1 DEF Quiet
  <2>2. held' \subseteq quiet
    BY <1>1 DEF Numbered
  <2>3. ASSUME held \ crossed # {}
        PROVE  currentTarget' = NoTarget /\ \A i \in Positions : Kind(i) # "registered"
    <3>1. currentTarget = NoTarget /\ \A i \in Positions : Kind(i) # "registered"
      BY <1>1, <2>3 DEF Quiet
    <3> QED BY <1>2, <3>1 DEF HeadRun, Invalidate
  <2>4. ASSUME Kind(1) = "suspended", inbox[1].arg \in quiet \ crossed
        PROVE  /\ currentTarget' = NoTarget
               /\ \A i \in Positions : i > 1 => Kind(i) # "registered"
    <3>1. currentTarget' = NoTarget
      BY <1>2, <2>4 DEF HeadRun
    <3>2. \A i \in Positions : Kind(i) = "registered" => i < 1
      BY <1>1, <1>2, <2>4 DEF Quiet
    <3>3. \A i \in Positions : ~(i < 1)
      BY <1>2 DEF Positions
    <3> QED BY <3>1, <3>2, <3>3
  <2>5. held' \ crossed # {} =>
          \/ held \ crossed # {}
          \/ Kind(1) = "suspended" /\ inbox[1].arg \in quiet \ crossed
    OBVIOUS
  <2>6. held' \ crossed # {} =>
          /\ currentTarget' = NoTarget
          /\ \A i \in Positions : i > 1 => Kind(i) # "registered"
    BY <2>3, <2>4, <2>5
  <2> QED BY <1>1, <1>3, <2>1, <2>2, <2>6, QuietKept
<1>8. Faithful'
  <2>1. \A t \in Targets : WillOffer(t)' <=> WillOffer(t)
    BY <1>1, <1>3, OfferKept
  <2> QED BY <1>1, <2>1 DEF Faithful
<1> QED BY <1>4, <1>5, <1>6, <1>7, <1>8 DEF Inv

\* The jobs that resume no call and take none on.
LEMMA DelegateInv ==
  ASSUME Inv, inbox # << >>, inbox' = Tail(inbox), HeadRun, UNCHANGED <<sdk, told, failed>>,
         UNCHANGED <<pending, call, resumed>>,
         UNCHANGED <<suspending, quiet, crossed, events>>,
         \/ held' = held
         \/ Kind(1) = "suspended" /\ held' = held \cup (quiet \cap {inbox[1].arg})
  PROVE  Inv'
<1>1. Typed /\ Waiting
  BY DEF Inv
<1>2. Changed(1, << >>)
  BY <1>1, Dropped
<1>3. Waiting' /\ pending' \subseteq Calls /\ resumed' \in [Calls -> Nat]
      /\ call' \in [Calls -> {"idle", "register", "registered", "wait", "returned", "failed"}]
  BY <1>1 DEF Typed, Waiting
<1>4. \A j \in 1 .. Len(<< >>) : << >>[j].kind = "cancel"
  OBVIOUS
<1> QED BY <1>2, <1>3, <1>4, RanInv

\* The jobs that resume calls of the table: all of them, the one of the job, or none.
LEMMA ResumeInv ==
  ASSUME Inv, inbox # << >>, inbox' = Tail(inbox), HeadRun, UNCHANGED <<sdk, told, failed>>,
         UNCHANGED <<suspending, quiet, held, crossed, events>>,
         NEW calls \in SUBSET pending, NEW outcome \in {"returned", "failed"},
         pending' = pending \ calls, Resume(calls, outcome)
  PROVE  Inv'
<1>1. Typed /\ Waiting
  BY DEF Inv
<1>2. Changed(1, << >>)
  BY <1>1, Dropped
<1>3. /\ Waiting'
      /\ \A c \in Calls : call[c] = "registered" => call'[c] = "registered"
      /\ \A c \in Calls : call[c] # "register" => call'[c] # "register"
      /\ pending' \subseteq Calls
      /\ call' \in [Calls -> {"idle", "register", "registered", "wait", "returned", "failed"}]
      /\ resumed' \in [Calls -> Nat]
  BY <1>1, ResumeKeeps
<1>4. \A j \in 1 .. Len(<< >>) : << >>[j].kind = "cancel"
  OBVIOUS
<1> QED BY <1>2, <1>3, <1>4, RanInv

\* The answer of the SDK takes the call on.
LEMMA AnswerInv ==
  ASSUME Inv, inbox # << >>, Kind(1) \in Answers, NEW c \in Calls, c = inbox[1].arg,
         NEW added, Changed(1, added),
         \A j \in 1 .. Len(added) : added[j].kind = "cancel",
         UNCHANGED <<currentTarget, resumed, suspending, quiet, held, crossed, events, sdk, told,
                     failed>>,
         NEW next \in {"wait", "returned", "failed"},
         call' = [call EXCEPT ![c] = next],
         pending' = IF next = "wait" THEN pending \cup {c} ELSE pending
  PROVE  Inv'
<1>1. Typed /\ Waiting /\ Answered
  BY DEF Inv
<1>2. 1 \in Positions /\ call[c] = "registered"
  BY <1>1, HeadTypes DEF Answered
<1>3. \A d \in Calls : call'[d] = IF d = c THEN next ELSE call[d]
  BY <1>1 DEF Typed
<1>4. pending' \subseteq Calls /\ resumed' \in [Calls -> Nat]
      /\ call' \in [Calls -> {"idle", "register", "registered", "wait", "returned", "failed"}]
  BY <1>1 DEF Typed
<1>5. Waiting'
  BY <1>1, <1>2, <1>3 DEF Waiting
<1>6. HeadRun
  BY DEF HeadRun, Kind, Answers
<1> QED BY <1>2, <1>3, <1>4, <1>5, <1>6, RanInv

LEMMA RunJobInv ==
  ASSUME Inv, RunJob PROVE Inv'
<1> DEFINE job == Head(inbox)
<1>1. /\ inbox # << >> /\ Typed
      /\ UNCHANGED <<sdk, told, failed>> /\ UNCHANGED <<suspending, quiet, crossed, events>>
  BY DEF RunJob, Inv
<1>2. /\ job = inbox[1] /\ Kind(1) = job.kind
      /\ job.kind \in OfTarget => job.arg \in Targets
      /\ job.kind \in OfCall => job.arg \in Calls
  BY <1>1, HeadTypes DEF Kind
<1>4. CASE /\ job.kind = "registered" /\ currentTarget' = job.arg /\ ResumeAll("returned")
           /\ inbox' = Tail(inbox) /\ UNCHANGED held
  <2>1. pending' = pending \ pending /\ Resume(pending, "returned")
    BY <1>4 DEF ResumeAll
  <2>2. HeadRun
    BY <1>2, <1>4 DEF HeadRun
  <2> HIDE DEF job
  <2> QED BY <1>1, <1>4, <2>1, <2>2, ResumeInv
<1>5. CASE /\ job.kind = "unregistered" /\ currentTarget' = Invalidate(job.arg)
           /\ inbox' = Tail(inbox) /\ UNCHANGED <<waiting, held>>
  <2>1. HeadRun
    BY <1>2, <1>5 DEF HeadRun
  <2> HIDE DEF job
  <2> QED BY <1>1, <1>5, <2>1, DelegateInv DEF waiting
<1>6. CASE /\ job.kind = "completed" /\ Completed(job.arg)
           /\ UNCHANGED <<currentTarget, held>>
  <2>1. PICK c \in Calls : c = job.arg
    BY <1>2, <1>6 DEF OfCall, Answers
  <2>2. Kind(1) \in Answers /\ c = inbox[1].arg /\ Completed(c)
    BY <1>2, <1>6, <2>1 DEF Answers
  <2> HIDE DEF job
  <2>3. CASE currentTarget # NoTarget
    <3>1. /\ call' = [call EXCEPT ![c] = "returned"] /\ UNCHANGED <<pending, resumed>>
          /\ inbox' = Tail(inbox)
      BY <2>2, <2>3 DEF Completed
    <3>2. Changed(1, << >>)
      BY <1>1, <3>1, Dropped
    <3>3. \A j \in 1 .. Len(<< >>) : << >>[j].kind = "cancel"
      OBVIOUS
    <3> QED BY <1>1, <1>6, <2>2, <3>1, <3>2, <3>3, AnswerInv
  <2>4. CASE currentTarget = NoTarget
    <3> DEFINE cancel == Job("cancel", c)
    <3>1. PICK added \in {<< >>, <<cancel>>} :
            /\ call' = [call EXCEPT ![c] = "wait"] /\ pending' = pending \cup {c}
            /\ UNCHANGED resumed /\ inbox' = Tail(inbox) \o added
      BY <2>2, <2>4 DEF Completed
    <3>2. cancel \in Jobs /\ cancel.kind = "cancel"
      BY JobTypes DEF OfCall
    <3> HIDE DEF cancel
    <3>3. added \in Seq(Jobs) /\ \A j \in 1 .. Len(added) : added[j].kind = "cancel"
      <4>1. CASE added = << >>
        BY <4>1
      <4>2. CASE added = <<cancel>>
        <5>1. <<cancel>> \in Seq(Jobs) /\ Len(<<cancel>>) = 1 /\ <<cancel>>[1] = cancel
          BY <3>2
        <5> QED BY <3>2, <4>2, <5>1
      <4> QED BY <3>1, <4>1, <4>2
    <3>4. Changed(1, added)
      BY <1>1, <3>1, <3>3, Moved
    <3> QED BY <1>1, <1>6, <2>2, <3>1, <3>3, <3>4, AnswerInv
  <2> QED BY <2>3, <2>4
<1>7. CASE /\ job.kind = "refused" /\ call' = [call EXCEPT ![job.arg] = "failed"]
           /\ inbox' = Tail(inbox)
           /\ UNCHANGED <<currentTarget, pending, timer, resumed, held>>
  <2>1. PICK c \in Calls : c = job.arg
    BY <1>2, <1>7 DEF OfCall, Answers
  <2>2. Kind(1) \in Answers /\ c = inbox[1].arg
    BY <1>2, <1>7, <2>1 DEF Answers
  <2>3. Changed(1, << >>)
    BY <1>1, <1>7, Dropped
  <2>4. \A j \in 1 .. Len(<< >>) : << >>[j].kind = "cancel"
    OBVIOUS
  <2> HIDE DEF job
  <2> QED BY <1>1, <1>7, <2>1, <2>2, <2>3, <2>4, AnswerInv
<1>8. CASE /\ job.kind \in {"timeout", "cancel"} /\ Fail(job.arg, "failed")
           /\ inbox' = Tail(inbox) /\ UNCHANGED <<currentTarget, held>>
  <2>1. HeadRun
    BY <1>2, <1>8 DEF HeadRun
  <2>2. CASE job.arg \in pending
    <3> DEFINE one == {job.arg}
    <3>1. one \in SUBSET pending /\ pending' = pending \ one /\ Resume(one, "failed")
      BY <1>8, <2>2 DEF Fail
    <3> HIDE DEF job, one
    <3> QED BY <1>1, <1>8, <2>1, <3>1, ResumeInv
  <2>3. CASE job.arg \notin pending
    <3>1. UNCHANGED <<pending, call, resumed>>
      BY <1>8, <2>3 DEF Fail, waiting
    <3> HIDE DEF job
    <3> QED BY <1>1, <1>8, <2>1, <3>1, DelegateInv
  <2> QED BY <2>2, <2>3
<1>9. CASE /\ job.kind = "suspended" /\ currentTarget' = NoTarget
           /\ held' = held \cup (quiet \cap {job.arg})
           /\ inbox' = Tail(inbox) /\ UNCHANGED waiting
  <2>1. HeadRun /\ Kind(1) = "suspended"
    BY <1>2, <1>9 DEF HeadRun
  <2>2. held' = held \cup (quiet \cap {inbox[1].arg})
    BY <1>2, <1>9
  <2> HIDE DEF job
  <2> QED BY <1>1, <1>9, <2>1, <2>2, DelegateInv DEF waiting
<1>10. CASE /\ job.kind = "notSuspended"
            /\ inbox' = Tail(inbox) /\ UNCHANGED <<currentTarget, waiting, held>>
  <2>1. HeadRun
    BY <1>2, <1>10 DEF HeadRun
  <2> HIDE DEF job
  <2> QED BY <1>1, <1>10, <2>1, DelegateInv DEF waiting
<1> QED BY <1>4, <1>5, <1>6, <1>7, <1>8, <1>9, <1>10 DEF RunJob

------------------------------------------------------------------------------
LEMMA InvInit == Init => Inv
<1> SUFFICES ASSUME Init PROVE Inv
  OBVIOUS
<1>1. /\ currentTarget = NoTarget /\ pending = {} /\ inbox = << >>
      /\ suspending = {} /\ quiet = {} /\ held = {} /\ events = 0
      /\ call = [c \in Calls |-> "idle"] /\ resumed = [c \in Calls |-> 0]
      /\ sdk = [auto |-> FALSE, target |-> NoTarget]
      /\ told = NoTarget /\ failed = FALSE
  BY DEF Init
<1>2. Positions = {} /\ Len(inbox) = 0 /\ inbox \in Seq(Jobs)
  BY <1>1 DEF Positions
<1>3. Typed
  BY <1>1, <1>2 DEF Typed, Maybe
<1>4. Answered /\ Numbered
  BY <1>1, <1>2 DEF Answered, Numbered
<1>5. Waiting
  <2> SUFFICES ASSUME NEW c \in Calls
               PROVE  /\ c \in pending <=> call[c] = "wait"
                      /\ resumed[c] <= 1
                      /\ call[c] \notin {"returned", "failed"} => resumed[c] = 0
    BY DEF Waiting
  <2>1. call[c] = "idle" /\ resumed[c] = 0 /\ c \notin pending
    BY <1>1
  <2>2. call[c] # "wait"
    BY <2>1
  <2>3. resumed[c] <= 1
    BY <2>1
  <2> QED BY <2>1, <2>2, <2>3
<1>6. Quiet
  BY <1>1, <1>2 DEF Quiet
<1>7. ASSUME NEW t \in Targets PROVE ~WillOffer(t) /\ told # t
  <2>1. 0 .. Len(inbox) = {0}
    BY <1>2
  <2>2. currentTarget # t /\ told # t
    BY <1>1, TargetAssumption
  <2> QED BY <2>1, <2>2 DEF WillOffer, OfferedAt
<1>8. Faithful
  BY <1>7 DEF Faithful
<1> QED BY <1>3, <1>4, <1>5, <1>6, <1>8 DEF Inv

LEMMA InvStep == Inv /\ [Next]_vars => Inv'
<1> SUFFICES ASSUME Inv, [Next]_vars PROVE Inv'
  OBVIOUS
<1>1. ASSUME NEW c \in Calls, Start(c) \/ SdkRegisters(c) \/ TimerFires(c) \/ Cancel(c)
      PROVE  Inv'
  BY <1>1, StartInv, SdkRegistersInv, TimerFiresInv, CancelInv
<1>2. CASE Suspend \/ Refresh \/ DidFailToRegister
  BY <1>2, SuspendInv, RefreshInv, DidFailInv
<1>3. CASE RunJob
  BY <1>3, RunJobInv
<1>4. CASE UNCHANGED vars
  BY <1>4 DEF vars, waiting, quarantine, Inv, Typed, Answered, Waiting, Numbered, Quiet,
              Faithful, WillOffer, OfferedAt, Positions, Kind
<1>5. ASSUME NEW n \in suspending, SdkUnregisters(n) PROVE Inv'
  BY <1>5, SdkUnregistersInv
<1> QED BY <1>1, <1>2, <1>3, <1>4, <1>5 DEF Next

LEMMA InvHolds == Spec => []Inv
<1> QED BY InvInit, InvStep, PTL DEF Spec

\* A stored continuation is resumed once, by whoever takes it out of the table: a callback,
\* its timeout, its cancellation or a failure of APNs, in whatever order they are queued
\* (resolve, failAll, fail).
THEOREM ResumedOnceHolds == Spec => []ResumedOnce
<1>1. Inv => ResumedOnce
  <2> SUFFICES ASSUME Inv, NEW c \in Calls
               PROVE  /\ resumed[c] <= 1
                      /\ c \in pending <=> call[c] = "wait" /\ resumed[c] = 0
    BY DEF ResumedOnce
  <2>1. /\ c \in pending <=> call[c] = "wait"
        /\ resumed[c] <= 1
        /\ call[c] \notin {"returned", "failed"} => resumed[c] = 0
    BY DEF Inv, Waiting
  <2> QED BY <2>1
<1> QED BY <1>1, InvHolds, PTL

\* After suspendRegistration has returned no ID is offered until a registration is asked
\* for again, whatever was queued before it and comes after, other suspensions included;
\* but for a registration asked for before that the SDK completes after the unregistration
\* (updateRegistration takes its ID).
THEOREM QuarantineAlwaysHolds == Spec => []QuarantineHolds
<1>1. Inv => QuarantineHolds
  BY DEF Inv, Quiet, QuarantineHolds
<1> QED BY <1>1, InvHolds, PTL

\* With an empty queue the provider offers the ID Firebase told it of last, unless that ID
\* is unregistered or APNs failed since (invalidateRegistration removes only its own ID).
THEOREM TargetCurrentHolds == Spec => []TargetCurrent
<1>1. Inv => TargetCurrent
  <2> SUFFICES ASSUME Inv, inbox = << >>, ~failed PROVE currentTarget = told
    BY DEF TargetCurrent
  <2>1. Len(inbox) = 0 /\ Positions = {} /\ 0 .. Len(inbox) = {0}
    BY DEF Positions
  <2>2. \A t \in Targets : WillOffer(t) <=> currentTarget = t
    BY <2>1 DEF WillOffer, OfferedAt
  <2>3. \A t \in Targets : WillOffer(t) <=> told = t
    BY DEF Inv, Faithful
  <2>4. currentTarget \in Maybe /\ told \in Maybe
    BY DEF Inv, Typed
  <2> QED BY <2>2, <2>3, <2>4, TargetAssumption DEF Maybe
<1> QED BY <1>1, InvHolds, PTL

==============================================================================
