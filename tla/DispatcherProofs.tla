-------------------------- MODULE DispatcherProofs --------------------------
(***************************************************************************)
(* Theorems about Dispatcher and FcmDispatch, for every list of targets,   *)
(* any size of batch and pool and any number of attempts: the lists of a   *)
(* call, the inductive invariant of its goroutines, the step simulation of *)
(* SendContract, and the FCM adapter as one implementation of BatchSender. *)
(***************************************************************************)
EXTENDS FcmDispatch, FiniteSetTheorems, FunctionTheorems, TLAPS

------------------------------------------------------------------------------
(* deduplicateTargets and chunkTargets *)

\* A set of natural numbers that is not empty has a least element.
LEMMA LeastNatural ==
  ASSUME NEW S \in SUBSET Nat, S # {}
  PROVE  \E m \in S : \A n \in S : m <= n
<1> DEFINE R == OpToRel(<, Nat)
<1>1. \E x \in S : \A y \in S : <<y, x>> \notin R
  <2>1. IsWellFoundedOn(R, Nat)
    BY NatLessThanWellFounded
  <2> HIDE DEF R
  <2> QED BY <2>1, WFMin
<1>2. \A x, y \in Nat : <<y, x>> \notin R => x <= y
  BY DEF OpToRel
<1> QED BY <1>1, <1>2

Rank(at, i) == Cardinality({j \in at : j <= i})

\* Ranks count from one, and grow with the position.
LEMMA RankFacts ==
  ASSUME NEW at \in SUBSET Int, IsFiniteSet(at)
  PROVE  /\ Cardinality(at) \in Nat
         /\ \A i \in at : Rank(at, i) \in 1 .. Cardinality(at)
         /\ \A i, j \in at : Rank(at, i) = Rank(at, j) => i = j
<1> DEFINE To(i) == {j \in at : j <= i}
<1>1. Cardinality(at) \in Nat
  BY FS_CardinalityType
<1>2. \A i \in at : To(i) \in SUBSET at /\ i \in To(i) /\ Rank(at, i) = Cardinality(To(i))
  BY DEF Rank
<1>3. \A i \in at : IsFiniteSet(To(i)) /\ Cardinality(To(i)) \in Nat
                    /\ Cardinality(To(i)) <= Cardinality(at) /\ Cardinality(To(i)) # 0
  <2> TAKE i \in at
  <2>1. To(i) \in SUBSET at /\ To(i) # {}
    BY <1>2
  <2> HIDE DEF To
  <2>2. IsFiniteSet(To(i)) /\ Cardinality(To(i)) <= Cardinality(at)
    BY <2>1, FS_Subset
  <2> QED BY <2>1, <2>2, FS_CardinalityType, FS_EmptySet
<1>4. \A i, j \in at : i < j => Rank(at, i) < Rank(at, j)
  <2> TAKE i, j \in at
  <2> HAVE i < j
  <2>1. To(i) \in SUBSET To(j) /\ To(i) # To(j)
    <3>1. j \in To(j) /\ j \notin To(i)
      OBVIOUS
    <3>2. \A k \in at : k <= i => k <= j
      OBVIOUS
    <3>3. To(i) \subseteq To(j)
      BY <3>2
    <3> QED BY <3>1, <3>3
  <2>2. IsFiniteSet(To(j)) /\ Cardinality(To(i)) \in Nat /\ Cardinality(To(j)) \in Nat
    BY <1>3
  <2>3. Rank(at, i) = Cardinality(To(i)) /\ Rank(at, j) = Cardinality(To(j))
    BY <1>2
  <2> HIDE DEF To
  <2>4. Cardinality(To(i)) <= Cardinality(To(j)) /\ Cardinality(To(i)) # Cardinality(To(j))
    BY <2>1, <2>2, FS_Subset
  <2> QED BY <2>2, <2>3, <2>4
<1>5. \A i \in at : Rank(at, i) \in 1 .. Cardinality(at)
  <2> TAKE i \in at
  <2>1. /\ Rank(at, i) = Cardinality(To(i)) /\ Cardinality(To(i)) \in Nat
        /\ Cardinality(To(i)) <= Cardinality(at) /\ Cardinality(To(i)) # 0
    BY <1>2, <1>3
  <2> HIDE DEF To
  <2> QED BY <1>1, <2>1
<1>6. \A i, j \in at : Rank(at, i) = Rank(at, j) => i = j
  BY <1>1, <1>4, <1>5
<1> QED BY <1>1, <1>5, <1>6

\* Each number up to that of the positions is the rank of one of them.
LEMMA RankOnto ==
  ASSUME NEW at \in SUBSET Int, IsFiniteSet(at), NEW n \in 1 .. Cardinality(at)
  PROVE  \E i \in at : Rank(at, i) = n
<1> DEFINE T == 1 .. Cardinality(at)
           f == [i \in at |-> Rank(at, i)]
<1>1. f \in Injection(at, T)
  <2>1. f \in [at -> T]
    BY RankFacts
  <2>2. \A i, j \in at : f[i] = f[j] => i = j
    BY RankFacts
  <2> QED BY <2>1, <2>2, Fun_IsInj
<1>2. IsFiniteSet(T) /\ Cardinality(T) = Cardinality(at)
  BY RankFacts, FS_Interval
<1>3. f \in Surjection(at, T)
  BY <1>1, <1>2, FS_Injection
<1>4. PICK i \in at : f[i] = n
  BY <1>3 DEF Surjection
<1> QED BY <1>4

\* A sublist has the elements at its positions, each from one of them.
LEMMA SublistFacts ==
  ASSUME NEW list \in Seq(Targets), NEW at \in SUBSET (1 .. Len(list))
  PROVE  /\ Sublist(list, at) \in Seq(Targets)
         /\ Len(Sublist(list, at)) = Cardinality(at)
         /\ DOMAIN Sublist(list, at) = 1 .. Cardinality(at)
         /\ \A n \in DOMAIN Sublist(list, at) : \E i \in at : Sublist(list, at)[n] = list[i]
         /\ \A i \in at : \E n \in DOMAIN Sublist(list, at) : Sublist(list, at)[n] = list[i]
         /\ (\A i, j \in at : list[i] = list[j] => i = j)
              => \A m, n \in DOMAIN Sublist(list, at) :
                   Sublist(list, at)[m] = Sublist(list, at)[n] => m = n
<1> DEFINE L == Cardinality(at)
           At(n) == CHOOSE i \in at : Rank(at, i) = n
           sub == Sublist(list, at)
<1>1. at \in SUBSET Int /\ IsFiniteSet(at) /\ L \in Nat
  <2>1. 1 \in Int /\ Len(list) \in Int
    OBVIOUS
  <2>2. IsFiniteSet(1 .. Len(list))
    BY <2>1, FS_Interval
  <2>3. IsFiniteSet(at)
    BY <2>2, FS_Subset
  <2>4. Cardinality(at) \in Nat
    BY <2>3, FS_CardinalityType
  <2>5. at \in SUBSET Int
    BY <2>1
  <2> QED BY <2>3, <2>4, <2>5
<1>2. sub = [n \in 1 .. L |-> list[At(n)]]
  BY DEF Sublist, Rank
<1>3. \A n \in 1 .. L : At(n) \in at /\ Rank(at, At(n)) = n
  BY <1>1, RankOnto
<1>4. \A i \in at : Rank(at, i) \in 1 .. L /\ At(Rank(at, i)) = i
  <2>1. \A i \in at : Rank(at, i) \in 1 .. L
    BY <1>1, RankFacts
  <2>2. \A i, j \in at : Rank(at, i) = Rank(at, j) => i = j
    BY <1>1, RankFacts
  <2> QED BY <1>3, <2>1, <2>2
<1> HIDE DEF At, sub
<1>5. sub \in Seq(Targets) /\ Len(sub) = L /\ DOMAIN sub = 1 .. L
  <2>0. \A i \in 1 .. Len(list) : list[i] \in Targets
    OBVIOUS
  <2> HIDE DEF L
  <2>1. \A n \in 1 .. L : list[At(n)] \in Targets
    BY <1>3, <2>0
  <2>2. sub \in [1 .. L -> Targets]
    BY <1>2, <2>1
  <2> QED BY <1>1, <2>2
<1>6. \A n \in 1 .. L : \E i \in at : sub[n] = list[i]
  BY <1>2, <1>3
<1>7. \A i \in at : \E n \in 1 .. L : sub[n] = list[i]
  BY <1>2, <1>4
<1>8. (\A i, j \in at : list[i] = list[j] => i = j)
        => \A m, n \in 1 .. L : sub[m] = sub[n] => m = n
  BY <1>2, <1>3
<1> QED BY <1>5, <1>6, <1>7, <1>8 DEF sub

\* The first occurrences: each target of the list has one, and only one.
LEMMA FirstsFacts ==
  ASSUME NEW list \in Seq(Targets)
  PROVE  /\ Firsts(list) \in SUBSET (1 .. Len(list))
         /\ \A i, j \in Firsts(list) : list[i] = list[j] => i = j
         /\ \A i \in DOMAIN list : \E m \in Firsts(list) : list[m] = list[i]
<1>1. Firsts(list) \in SUBSET (1 .. Len(list))
  BY DEF Firsts
<1>2. \A i, j \in Firsts(list) : list[i] = list[j] => i = j
  BY <1>1 DEF Firsts
<1>3. ASSUME NEW i \in DOMAIN list PROVE \E m \in Firsts(list) : list[m] = list[i]
  <2> DEFINE S == {j \in DOMAIN list : list[j] = list[i]}
  <2>1. PICK m \in S : \A j \in S : m <= j
    <3>1. S \in SUBSET Nat /\ i \in S
      OBVIOUS
    <3> HIDE DEF S
    <3> QED BY <3>1, LeastNatural
  <2>2. m \in 1 .. Len(list) /\ list[m] = list[i]
    BY <2>1
  <2>3. \A j \in 1 .. m - 1 : list[j] # list[m]
    BY <2>1, <2>2
  <2> QED BY <2>2, <2>3 DEF Firsts
<1> QED BY <1>1, <1>2, <1>3

\* deduplicateTargets: the list that is sent has each target that was asked for once, and
\* a refused list sends none.
LEMMA UniqueFacts ==
  ASSUME NEW list \in Seq(Targets)
  PROVE  /\ Unique(list) \in Seq(Targets)
         /\ \A m, n \in DOMAIN Unique(list) : Unique(list)[m] = Unique(list)[n] => m = n
         /\ \A n \in DOMAIN Unique(list) : \E i \in DOMAIN list : Unique(list)[n] = list[i]
         /\ ~Refused(list) => \A i \in DOMAIN list :
                                \E n \in DOMAIN Unique(list) : Unique(list)[n] = list[i]
         /\ Refused(list) => Len(Unique(list)) = 0
<1> DEFINE at == IF Refused(list) THEN {} ELSE Firsts(list)
<1>1. /\ at \in SUBSET (1 .. Len(list)) /\ DOMAIN list = 1 .. Len(list)
      /\ \A i, j \in at : list[i] = list[j] => i = j
      /\ ~Refused(list) => \A i \in DOMAIN list : \E m \in at : list[m] = list[i]
      /\ Refused(list) => Cardinality(at) = 0
  BY FirstsFacts, FS_EmptySet
<1>2. Unique(list) = Sublist(list, at)
  BY DEF Unique
<1> HIDE DEF at
<1> DEFINE sub == Sublist(list, at)
<1>3. /\ sub \in Seq(Targets) /\ Len(sub) = Cardinality(at)
      /\ \A n \in DOMAIN sub : \E i \in at : sub[n] = list[i]
      /\ \A i \in at : \E n \in DOMAIN sub : sub[n] = list[i]
  BY <1>1, SublistFacts
<1>4. \A m, n \in DOMAIN sub : sub[m] = sub[n] => m = n
  BY <1>1, SublistFacts
<1>5. /\ Unique(list) \in Seq(Targets) /\ Len(Unique(list)) = Cardinality(at)
      /\ \A m, n \in DOMAIN Unique(list) : Unique(list)[m] = Unique(list)[n] => m = n
      /\ \A n \in DOMAIN Unique(list) : \E i \in at : Unique(list)[n] = list[i]
      /\ \A i \in at : \E n \in DOMAIN Unique(list) : Unique(list)[n] = list[i]
  BY <1>2, <1>3, <1>4
<1>6. ASSUME ~Refused(list), NEW i \in DOMAIN list
      PROVE  \E n \in DOMAIN Unique(list) : Unique(list)[n] = list[i]
  <2>1. PICK m \in at : list[m] = list[i]
    BY <1>1, <1>6
  <2> QED BY <1>5, <2>1
<1> QED BY <1>1, <1>5, <1>6

\* A batch begins within the list.
LEMMA BatchStart ==
  ASSUME NEW M \in Nat \ {0}, NEW len \in Nat, NEW b \in 1 .. (len + M - 1) \div M
  PROVE  \E n \in 1 .. len : (n - 1) \div M = b - 1
<1> DEFINE q == (len + M - 1) \div M
           r == (len + M - 1) % M
           before == (b - 1) * M
<1>1. q \in Nat /\ r \in 0 .. M - 1 /\ len + M - 1 = M * q + r
  OBVIOUS
<1>2. before \in Nat /\ before \div M = b - 1
  OBVIOUS
<1>3. before + M <= M * q
  OBVIOUS
<1> HIDE DEF q, r, before
<1>4. before + 1 \in 1 .. len /\ (before + 1) - 1 = before
  BY <1>1, <1>2, <1>3
<1> QED BY <1>2, <1>4

\* chunkTargets: batches do not overlap, none is empty, and together they hold the whole
\* list.
LEMMA ChunkFacts ==
  ASSUME NEW list \in Seq(Targets),
         \A m, n \in DOMAIN list : list[m] = list[n] => m = n
  PROVE  /\ BatchCount(list) \in Nat
         /\ \A b : Chunk(list, b) \subseteq Targets
         /\ \A b, c : b \in Int /\ c \in Int /\ b # c => Chunk(list, b) \cap Chunk(list, c) = {}
         /\ \A n \in DOMAIN list : \E b \in 1 .. BatchCount(list) : list[n] \in Chunk(list, b)
         /\ \A b \in 1 .. BatchCount(list) : Chunk(list, b) # {}
         /\ Len(list) = 0 => BatchCount(list) = 0
<1>1. BatchCount(list) \in Nat /\ (Len(list) = 0 => BatchCount(list) = 0)
  BY SizeAssumption DEF BatchCount
<1>2. \A n \in DOMAIN list : /\ (n - 1) \div MaxBatchTargets \in Int
                            /\ (n - 1) \div MaxBatchTargets + 1 \in 1 .. BatchCount(list)
  BY SizeAssumption DEF BatchCount
<1>3. \A b : Chunk(list, b) \subseteq Targets
  BY DEF Chunk
<1>4. ASSUME NEW b \in Int, NEW c \in Int, b # c
      PROVE  Chunk(list, b) \cap Chunk(list, c) = {}
  <2> SUFFICES ASSUME NEW t \in Chunk(list, b), t \in Chunk(list, c) PROVE FALSE
    OBVIOUS
  <2>1. PICK m \in DOMAIN list : list[m] = t /\ (m - 1) \div MaxBatchTargets = b - 1
    BY DEF Chunk
  <2>2. PICK n \in DOMAIN list : list[n] = t /\ (n - 1) \div MaxBatchTargets = c - 1
    BY DEF Chunk
  <2>3. m = n
    BY <2>1, <2>2
  <2> QED BY <1>4, <2>1, <2>2, <2>3
<1>5. ASSUME NEW n \in DOMAIN list
      PROVE  \E b \in 1 .. BatchCount(list) : list[n] \in Chunk(list, b)
  <2> DEFINE b == (n - 1) \div MaxBatchTargets + 1
  <2>1. b \in 1 .. BatchCount(list) /\ (n - 1) \div MaxBatchTargets = b - 1
    BY <1>2
  <2>2. list[n] \in Chunk(list, b)
    BY <2>1 DEF Chunk
  <2> QED BY <2>1, <2>2
<1>6. ASSUME NEW b \in 1 .. BatchCount(list) PROVE Chunk(list, b) # {}
  <2>1. /\ MaxBatchTargets \in Nat \ {0} /\ Len(list) \in Nat
        /\ b \in 1 .. (Len(list) + MaxBatchTargets - 1) \div MaxBatchTargets
    BY SizeAssumption DEF BatchCount
  <2>2. PICK n \in 1 .. Len(list) : (n - 1) \div MaxBatchTargets = b - 1
    BY <2>1, BatchStart
  <2>3. n \in DOMAIN list
    OBVIOUS
  <2> QED BY <2>2, <2>3 DEF Chunk
<1> QED BY <1>1, <1>3, <1>4, <1>5, <1>6

------------------------------------------------------------------------------
(* The inductive invariant *)

\* The batches of the call, and the addresses of one.
Count == BatchCount(Unique(input))
Addresses(b) == Chunk(Unique(input), b)

\* Each address that is asked for is in one batch, unless the list is refused.
LEMMA Cut ==
  ASSUME input \in Seq(Targets)
  PROVE  /\ Count \in Nat
         /\ \A b : Addresses(b) \subseteq Targets
         /\ \A b, c : b \in Int /\ c \in Int /\ b # c => Addresses(b) \cap Addresses(c) = {}
         /\ \A b : Addresses(b) \subseteq Asked
         /\ ~Refused(input) => \A t \in Asked : \E b \in 1 .. Count : t \in Addresses(b)
         /\ \A b \in 1 .. Count : Addresses(b) # {}
         /\ Refused(input) => Count = 0
<1> DEFINE list == Unique(input)
<1>1. /\ list \in Seq(Targets)
      /\ \A m, n \in DOMAIN list : list[m] = list[n] => m = n
      /\ \A n \in DOMAIN list : \E i \in DOMAIN input : list[n] = input[i]
      /\ ~Refused(input) => \A i \in DOMAIN input : \E n \in DOMAIN list : list[n] = input[i]
      /\ Refused(input) => Len(list) = 0
  BY UniqueFacts
<1>2. \A b : Addresses(b) \subseteq Asked
  BY <1>1 DEF Addresses, Chunk, Asked
<1> HIDE DEF list
<1>3. /\ BatchCount(list) \in Nat
      /\ \A b : Chunk(list, b) \subseteq Targets
      /\ \A b, c : b \in Int /\ c \in Int /\ b # c => Chunk(list, b) \cap Chunk(list, c) = {}
      /\ \A n \in DOMAIN list : \E b \in 1 .. BatchCount(list) : list[n] \in Chunk(list, b)
      /\ \A b \in 1 .. BatchCount(list) : Chunk(list, b) # {}
      /\ Len(list) = 0 => BatchCount(list) = 0
  BY <1>1, ChunkFacts
<1>4. Count = BatchCount(list) /\ \A b : Addresses(b) = Chunk(list, b)
  BY DEF list, Count, Addresses
<1> QED BY <1>1, <1>2, <1>3, <1>4 DEF Asked

\* A table of codes, and the state of a sendBatch.
Table == UNION {[S -> Codes \cup {Open}] : S \in SUBSET Targets}
Attempts == 0 .. maxAttempts
Seconds == Int
SendBatch ==
  [pc: {"queued", "call", "wait", "done"}, attempt: Attempts,
   pending: SUBSET Targets, delay: Seconds, final: Table, code: Table]

Typed ==
  /\ input \in Seq(Targets)
  /\ batch \in [1 .. Count -> SendBatch]
  /\ worker \in [1 .. PoolSize(Unique(input)) -> 0 .. Count]
  /\ next \in 1 .. Count + 1
  /\ canceled \in BOOLEAN
  /\ result \in [done: BOOLEAN, failed: BOOLEAN]
  /\ sent \in [Targets -> Nat]
  /\ accepted \in [Targets -> Nat]

\* A sendBatch s of the addresses as: it has a final code for exactly those that are not
\* pending, goes on while some are, and waits only for those that may be tried again.
Sound(s, as) ==
  /\ DOMAIN s.final = as /\ DOMAIN s.code = as /\ s.pending \subseteq as
  /\ \A t \in as : t \in s.pending <=> s.final[t] = Open
  /\ s.pc = "queued" => s.attempt = 0
  /\ s.pc = "wait" => /\ s.attempt < maxAttempts
                      /\ \A t \in s.pending : s.code[t] \in {"transient", "rate_limited"}
  /\ s.pc = "wait" /\ (\E t \in s.pending : s.code[t] = "rate_limited") => s.delay >= 60
  /\ s.pc = "done" <=> s.pending = {}
  /\ s.pc = "call" => s.attempt >= 1

Sounds == \A b \in 1 .. Count : Sound(batch[b], Addresses(b))

\* The channel: what is still in it is not begun, and a batch is with one goroutine.
Channel ==
  /\ \A b \in 1 .. Count : batch[b].pc = "queued" <=> b >= next
  /\ \A w \in DOMAIN worker : worker[w] < next
  /\ \A v, w \in DOMAIN worker : worker[v] = worker[w] /\ worker[v] # 0 => v = w

\* A target is called no more often than its batch, and accepted once it is settled "ok".
Ledger ==
  /\ \A b \in 1 .. Count : \A t \in Addresses(b) :
       /\ sent[t] <= batch[b].attempt
       /\ accepted[t] = IF batch[b].final[t] = "ok" THEN 1 ELSE 0
  /\ \A t \in Targets : (\A b \in 1 .. Count : t \notin Addresses(b))
                          => sent[t] = 0 /\ accepted[t] = 0

\* Send has returned: nothing is under way any more.
Over == result.done => \A b \in 1 .. Count : batch[b].pc = "done"

Inv == Typed /\ Sounds /\ Channel /\ Ledger /\ Over

------------------------------------------------------------------------------
(* Each action keeps it *)

\* The cut of the list into batches is fixed for the call.
LEMMA CutFixed ==
  ASSUME UNCHANGED input
  PROVE  Count' = Count /\ \A b : Addresses(b)' = Addresses(b)
  BY DEF Count, Addresses

LEMMA TableFacts ==
  /\ \A f \in Table : DOMAIN f \subseteq Targets /\ f \in [DOMAIN f -> Codes \cup {Open}]
  /\ \A S \in SUBSET Targets : \A f \in [S -> Codes \cup {Open}] : f \in Table
  /\ \A S \in SUBSET Targets : NoCodes(S) \in Table /\ DOMAIN NoCodes(S) = S
                             /\ \A t \in S : NoCodes(S)[t] = Open
  BY DEF Table, NoCodes

LEMMA CodeFacts == Open \notin Codes /\ "ok" # Open /\ "ok" \in Codes
  BY DEF Open, Codes

\* A batch as it goes into the channel.
LEMMA QueuedTyped ==
  ASSUME NEW as \in SUBSET Targets, NEW none \in Table
  PROVE  [pc |-> "queued", attempt |-> 0, pending |-> as, delay |-> 0, final |-> none,
          code |-> none] \in SendBatch
<1>1. 0 \in Attempts /\ 0 \in Seconds
  BY SizeAssumption DEF Attempts, Seconds
<1> QED BY <1>1 DEF SendBatch

LEMMA QueuedFacts ==
  ASSUME NEW as \in SUBSET Targets, as # {}
  PROVE  /\ Queued(as) \in SendBatch /\ Sound(Queued(as), as)
         /\ Queued(as).pc = "queued" /\ Queued(as).final = NoCodes(as)
<1>1. NoCodes(as) \in Table /\ DOMAIN NoCodes(as) = as /\ \A t \in as : NoCodes(as)[t] = Open
  BY TableFacts
<1>2. Queued(as) \in SendBatch
  BY <1>1, QueuedTyped DEF Queued
<1>3. /\ Queued(as).pc = "queued" /\ Queued(as).attempt = 0 /\ Queued(as).pending = as
      /\ Queued(as).final = NoCodes(as) /\ Queued(as).code = NoCodes(as)
  BY DEF Queued
<1>4. Sound(Queued(as), as)
  BY <1>1, <1>3 DEF Sound
<1> QED BY <1>2, <1>3, <1>4

\* A batch that is called.
Called(s, n, none) == [s EXCEPT !.pc = "call", !.attempt = n, !.delay = 0, !.code = none]

LEMMA CalledFacts ==
  ASSUME NEW s \in SendBatch, NEW n \in Attempts, NEW none \in Table
  PROVE  /\ Called(s, n, none) \in SendBatch
         /\ Called(s, n, none).pc = "call" /\ Called(s, n, none).attempt = n
         /\ Called(s, n, none).delay = 0 /\ Called(s, n, none).code = none
         /\ Called(s, n, none).final = s.final /\ Called(s, n, none).pending = s.pending
<1>1. 0 \in Seconds
  BY DEF Seconds
<1> QED BY <1>1 DEF SendBatch, Called

LEMMA InitInv == ASSUME Init PROVE Inv
<1> USE DEF Init
<1>1. input \in Seq(Targets)
  BY SizeAssumption
<1>2. /\ Count \in Nat /\ \A b : Addresses(b) \subseteq Targets
      /\ \A b \in 1 .. Count : Addresses(b) # {}
      /\ batch = [b \in 1 .. Count |-> Queued(Addresses(b))]
      /\ DOMAIN batch = 1 .. Count
  BY <1>1, Cut DEF Count, Addresses
<1>3. \A b \in 1 .. Count :
        /\ batch[b] \in SendBatch /\ Sound(batch[b], Addresses(b))
        /\ batch[b].pc = "queued" /\ batch[b].final = NoCodes(Addresses(b))
  <2> TAKE b \in 1 .. Count
  <2>1. /\ batch[b] = Queued(Addresses(b)) /\ Addresses(b) \in SUBSET Targets
        /\ Addresses(b) # {}
    BY <1>2
  <2> QED BY <2>1, QueuedFacts
<1>4. Typed
  <2>1. batch \in [1 .. Count -> SendBatch]
    BY <1>2, <1>3
  <2>2. next \in 1 .. Count + 1 /\ sent \in [Targets -> Nat] /\ accepted \in [Targets -> Nat]
        /\ worker \in [1 .. PoolSize(Unique(input)) -> 0 .. Count]
    BY <1>2
  <2> QED BY <1>1, <2>1, <2>2 DEF Typed
<1>5. Sounds /\ Over
  BY <1>3 DEF Sounds, Over
<1>6. Channel
  BY <1>2, <1>3 DEF Channel
<1>7. Ledger
  <2>1. \A t \in Targets : sent[t] = 0 /\ accepted[t] = 0
    OBVIOUS
  <2>2. ASSUME NEW b \in 1 .. Count, NEW t \in Addresses(b)
        PROVE  batch[b].attempt = 0 /\ batch[b].final[t] # "ok" /\ t \in Targets
    <3>1. batch[b].attempt = 0 /\ batch[b].final = NoCodes(Addresses(b))
      BY <1>3 DEF Sound
    <3> QED BY <1>2, <3>1, TableFacts, CodeFacts
  <2> QED BY <2>1, <2>2 DEF Ledger
<1> QED BY <1>4, <1>5, <1>6, <1>7 DEF Inv

\* A provider call counts one attempt of the batch and of each of its pending targets.
LEMMA CallFacts ==
  ASSUME Inv, NEW b \in 1 .. Count, batch[b].attempt < maxAttempts, batch[b].pc # "done",
         Call(b, batch[b]), UNCHANGED <<input, accepted>>
  PROVE  /\ batch' \in [1 .. Count -> SendBatch] /\ sent' \in [Targets -> Nat]
         /\ batch'[b].pc = "call" /\ batch'[b].final = batch[b].final
         /\ \A c \in 1 .. Count : c # b => batch'[c] = batch[c]
         /\ Sounds' /\ Ledger'
<1> DEFINE s == batch[b]
           r == batch'[b]
<1>1. s \in SendBatch /\ Sound(s, Addresses(b)) /\ batch \in [1 .. Count -> SendBatch]
  BY DEF Inv, Typed, Sounds
<1>2. batch' = [batch EXCEPT ![b] =
                 [s EXCEPT !.pc = "call", !.attempt = @ + 1, !.delay = 0,
                           !.code = NoCodes(DOMAIN @)]]
      /\ sent' = [t \in Targets |-> IF t \in s.pending THEN sent[t] + 1 ELSE sent[t]]
  BY DEF Call
<1>3. Addresses(b) \in SUBSET Targets
  BY Cut DEF Inv, Typed
<1>4. NoCodes(Addresses(b)) \in Table /\ DOMAIN NoCodes(Addresses(b)) = Addresses(b)
  BY <1>3, TableFacts
<1>5. /\ r \in SendBatch /\ r.pc = "call" /\ r.attempt = s.attempt + 1 /\ r.delay = 0
      /\ r.code = NoCodes(Addresses(b)) /\ r.final = s.final /\ r.pending = s.pending
  <2>1. r = [s EXCEPT !.pc = "call", !.attempt = @ + 1, !.delay = 0,
                      !.code = NoCodes(DOMAIN @)]
    BY <1>1, <1>2
  <2>2. s.attempt + 1 \in Attempts /\ DOMAIN s.code = Addresses(b)
    BY <1>1, SizeAssumption DEF SendBatch, Sound, Attempts
  <2> DEFINE none == NoCodes(Addresses(b))
             n == s.attempt + 1
  <2>3. r = Called(s, n, none)
    BY <1>1, <2>1, <2>2 DEF SendBatch, Called
  <2>4. s \in SendBatch /\ n \in Attempts /\ none \in Table
    BY <1>1, <1>4, <2>2
  <2> HIDE DEF r, s, none, n
  <2>5. r \in SendBatch /\ r.pc = "call" /\ r.attempt = n /\ r.delay = 0
        /\ r.code = none /\ r.final = s.final /\ r.pending = s.pending
    BY <2>3, <2>4, CalledFacts
  <2> QED BY <2>5 DEF none, n
<1>6. /\ batch' \in [1 .. Count -> SendBatch]
      /\ \A c \in 1 .. Count : c # b => batch'[c] = batch[c]
  BY <1>1, <1>2, <1>5
<1>7. Sound(r, Addresses(b))
  <2>1. r.attempt >= 1 /\ s.pc # "done"
    BY <1>1, <1>5 DEF SendBatch, Attempts
  <2> HIDE DEF r, s
  <2> QED BY <1>1, <1>4, <1>5, <2>1 DEF Sound
<1>8. Sounds'
  BY <1>6, <1>7, CutFixed DEF Inv, Sounds
<1>9. sent' \in [Targets -> Nat]
  BY <1>2 DEF Inv, Typed
<1>10. Ledger'
  <2>1. ASSUME NEW c \in 1 .. Count, NEW t \in Addresses(c)
        PROVE  /\ sent'[t] <= batch'[c].attempt
               /\ accepted'[t] = IF batch'[c].final[t] = "ok" THEN 1 ELSE 0
    <3>1. t \in Targets /\ sent[t] \in Nat /\ sent[t] <= batch[c].attempt
          /\ accepted[t] = IF batch[c].final[t] = "ok" THEN 1 ELSE 0
      BY Cut DEF Inv, Typed, Ledger
    <3>2. CASE c = b
      <4>1. sent'[t] <= sent[t] + 1
        BY <1>2, <3>1
      <4>2. s.attempt \in Int /\ sent'[t] \in Nat
        BY <1>1, <1>9, <3>1 DEF SendBatch, Attempts
      <4> QED BY <1>5, <3>1, <3>2, <4>1, <4>2
    <3>3. CASE c # b
      <4>0. Count \in Nat /\ input \in Seq(Targets)
        BY Cut DEF Inv, Typed
      <4>1. b \in Int /\ c \in Int
        BY <4>0
      <4>2. Addresses(b) \cap Addresses(c) = {}
        BY <3>3, <4>0, <4>1, Cut
      <4>3. t \notin s.pending
        BY <1>1, <4>2 DEF Sound
      <4> QED BY <1>2, <1>6, <3>1, <3>3, <4>3
    <3> QED BY <3>2, <3>3
  <2>2. ASSUME NEW t \in Targets, \A c \in 1 .. Count : t \notin Addresses(c)
        PROVE  sent'[t] = 0 /\ accepted'[t] = 0
    <3>1. t \notin s.pending
      BY <1>1, <2>2 DEF Sound
    <3> QED BY <1>2, <2>2, <3>1 DEF Inv, Ledger
  <2> QED BY <2>1, <2>2, CutFixed DEF Ledger
<1> QED BY <1>5, <1>6, <1>8, <1>9, <1>10

LEMMA TakeKeeps ==
  ASSUME Inv, NEW w \in DOMAIN worker, Take(w) PROVE Inv'
<1>1. /\ worker[w] = 0 /\ next \in 1 .. Count /\ worker' = [worker EXCEPT ![w] = next]
      /\ next' = next + 1 /\ Call(next, batch[next])
      /\ UNCHANGED <<input, canceled, result, accepted>>
  BY DEF Take, Batches, Inv, Typed
<1>2. batch[next].pc = "queued" /\ batch[next].attempt < maxAttempts
  BY <1>1, SizeAssumption DEF Inv, Channel, Sounds, Sound
<1>3. /\ batch' \in [1 .. Count -> SendBatch] /\ sent' \in [Targets -> Nat]
      /\ batch'[next].pc = "call"
      /\ \A c \in 1 .. Count : c # next => batch'[c] = batch[c]
      /\ Sounds' /\ Ledger'
  BY <1>1, <1>2, CallFacts
<1>4. Count' = Count /\ Count \in Nat
  BY <1>1, CutFixed, Cut DEF Inv, Typed
<1>5. Typed'
  <2>1. Unique(input)' = Unique(input)
    BY <1>1
  <2> QED BY <1>1, <1>3, <1>4, <2>1 DEF Inv, Typed
<1>6. Channel'
  <2>1. \A b \in 1 .. Count : batch'[b].pc = "queued" <=> b >= next'
    BY <1>1, <1>3, <1>4 DEF Inv, Channel
  <2>2. /\ \A v \in DOMAIN worker' : worker'[v] < next'
        /\ \A v, u \in DOMAIN worker' : worker'[v] = worker'[u] /\ worker'[v] # 0 => v = u
    <3>1. /\ \A v \in DOMAIN worker : worker[v] < next /\ worker[v] \in Int
          /\ \A v, u \in DOMAIN worker : worker[v] = worker[u] /\ worker[v] # 0 => v = u
          /\ next \in Int
      <4>1. worker \in [DOMAIN worker -> 0 .. Count] /\ next \in 1 .. Count + 1
        BY DEF Inv, Typed
      <4> QED BY <1>4, <4>1 DEF Inv, Channel
    <3>2. /\ DOMAIN worker' = DOMAIN worker
          /\ \A v \in DOMAIN worker : worker'[v] = IF v = w THEN next ELSE worker[v]
      BY <1>1
    <3> QED BY <1>1, <3>1, <3>2
  <2> QED BY <1>4, <2>1, <2>2 DEF Channel
<1>7. Over'
  BY <1>1, <1>2, <1>4 DEF Inv, Over
<1> QED BY <1>3, <1>5, <1>6, <1>7 DEF Inv

LEMMA TimerFiresKeeps ==
  ASSUME Inv, NEW w \in DOMAIN worker, TimerFires(w) PROVE Inv'
<1> DEFINE b == worker[w]
<1>1. /\ b \in 1 .. Count /\ batch[b].pc = "wait" /\ Call(b, batch[b])
      /\ UNCHANGED <<input, worker, next, canceled, result, accepted>>
  <2>1. b \in 0 .. Count /\ Count \in Nat
    BY Cut DEF Inv, Typed
  <2> QED BY <2>1 DEF TimerFires
<1>2. batch[b].attempt < maxAttempts
  BY <1>1 DEF Inv, Sounds, Sound
<1> HIDE DEF b
<1>3. /\ batch' \in [1 .. Count -> SendBatch] /\ sent' \in [Targets -> Nat]
      /\ batch'[b].pc = "call"
      /\ \A c \in 1 .. Count : c # b => batch'[c] = batch[c]
      /\ Sounds' /\ Ledger'
  BY <1>1, <1>2, CallFacts
<1>4. Count' = Count /\ Unique(input)' = Unique(input)
  BY <1>1, CutFixed
<1>5. Typed'
  BY <1>1, <1>3, <1>4 DEF Inv, Typed
<1>6. Channel'
  BY <1>1, <1>3, <1>4 DEF Inv, Channel
<1>7. Over'
  BY <1>1, <1>4 DEF Inv, Over
<1> QED BY <1>3, <1>5, <1>6, <1>7 DEF Inv

\* retryBackoff with jitter: a quota retry waits a minute at least.
LEMMA BackoffFacts ==
  ASSUME NEW code, NEW attempt \in Nat \ {0}, NEW delay \in Delays(RetryBackoff(code, attempt))
  PROVE  delay \in Seconds /\ (code = "rate_limited" => delay >= 60)
<1> DEFINE base == RetryBackoff(code, attempt)
           power == 2 ^ (IF attempt > 2 THEN 2 ELSE attempt - 1)
<1>1. power \in {1, 2, 4}
  <2>1. CASE attempt = 1
    BY <2>1
  <2>2. CASE attempt = 2
    BY <2>2
  <2>3. CASE attempt > 2
    BY <2>3
  <2> QED BY <2>1, <2>2, <2>3
<1>2. base = (IF code = "rate_limited" THEN 60 ELSE 1) * power
  BY DEF RetryBackoff
<1> HIDE DEF base, power
<1>3. base \in Nat /\ (code = "rate_limited" => base >= 60)
  BY <1>1, <1>2
<1>4. delay = base \/ delay = base + base \div 10
  BY DEF Delays, base
<1> QED BY <1>3, <1>4 DEF Seconds

\* A batch that is answered, or given up: only its attempt stays.
Updated(s, pc, pending, delay, final, code) ==
  [s EXCEPT !.pc = pc, !.pending = pending, !.delay = delay, !.final = final, !.code = code]

LEMMA UpdatedFacts ==
  ASSUME NEW s \in SendBatch, NEW pc \in {"wait", "done"}, NEW pending \in SUBSET Targets,
         NEW delay \in Seconds, NEW final \in Table, NEW code \in Table
  PROVE  LET r == Updated(s, pc, pending, delay, final, code)
         IN  /\ r \in SendBatch /\ r.pc = pc /\ r.attempt = s.attempt /\ r.pending = pending
             /\ r.delay = delay /\ r.final = final /\ r.code = code
  BY DEF SendBatch, Updated

\* The batch of w, which the provider has answered: what is tried again has a code that
\* allows it and an attempt left, and the rest has its final code.
LEMMA RespondFacts ==
  ASSUME Inv, NEW w \in DOMAIN worker, Calling(w),
         NEW answered \in SUBSET batch[worker[w]].pending, NEW results \in [answered -> Codes],
         NEW batchError \in Codes, Respond(w, answered, results, batchError)
  PROVE  LET b == worker[w]
             s == batch[b]
             r == batch'[b]
         IN  /\ b \in 1 .. Count /\ s.pc = "call" /\ s.attempt \in Nat \ {0}
             /\ batch' \in [1 .. Count -> SendBatch]
             /\ \A c \in 1 .. Count : c # b => batch'[c] = batch[c]
             /\ r.pc \in {"wait", "done"} /\ r.attempt = s.attempt
             /\ Sound(r, Addresses(b))
             /\ \A t \in Addresses(b) :
                  /\ t \notin s.pending => r.final[t] = s.final[t]
                  /\ \A c \in {"ok", "unregistered"} :
                       /\ t \in answered => (r.final[t] = c <=> results[t] = c)
                       /\ t \in s.pending \ answered
                            => (r.final[t] = c <=> MissingCode(batchError) = c)
<1> DEFINE b == worker[w]
           s == batch[b]
           code == [t \in s.pending |->
                      IF t \in answered THEN results[t] ELSE MissingCode(batchError)]
           retry == RetryTargets(s, code)
           slowest == IF \E t \in retry : code[t] = "rate_limited" THEN "rate_limited"
                      ELSE "transient"
           newCode == [t \in DOMAIN s.code |-> IF t \in retry THEN code[t] ELSE Open]
           newFinal == [t \in DOMAIN s.final |-> IF t \in s.pending \ retry
                                                  THEN code[t] ELSE s.final[t]]
<1>1. b \in 1 .. Count /\ s.pc = "call" /\ b \in Int
  <2>1. b \in 0 .. Count /\ Count \in Nat /\ b # 0
    BY Cut DEF Inv, Typed, Calling
  <2> QED BY <2>1 DEF Calling
<1>2. /\ s \in SendBatch /\ Sound(s, Addresses(b)) /\ batch \in [1 .. Count -> SendBatch]
      /\ Addresses(b) \in SUBSET Targets
  BY <1>1, Cut DEF Inv, Typed, Sounds
<1>3. s.attempt \in Nat \ {0}
  BY <1>1, <1>2 DEF SendBatch, Sound, Attempts
<1>4. /\ s.pending \subseteq Addresses(b) /\ s.final \in Table
      /\ DOMAIN s.final = Addresses(b) /\ DOMAIN s.code = Addresses(b)
      /\ \A t \in Addresses(b) : t \in s.pending <=> s.final[t] = Open
  BY <1>2 DEF Sound, SendBatch
<1>5. PICK delay \in Delays(RetryBackoff(slowest, s.attempt)) :
        batch' = [batch EXCEPT ![b] =
                    IF retry = {}
                      THEN [[s EXCEPT !.pending = retry, !.code = newCode, !.final = newFinal]
                              EXCEPT !.pc = "done", !.delay = 0]
                      ELSE [[s EXCEPT !.pending = retry, !.code = newCode, !.final = newFinal]
                              EXCEPT !.pc = "wait", !.delay = delay]]
  BY <1>2 DEF Respond, SendBatch
<1> DEFINE pc == IF retry = {} THEN "done" ELSE "wait"
           rest == IF retry = {} THEN 0 ELSE delay
<1> HIDE DEF b, s, newCode, newFinal
<1>6. batch' = [batch EXCEPT ![b] = Updated(s, pc, retry, rest, newFinal, newCode)]
  <2> HIDE DEF retry
  <2> QED BY <1>2, <1>5 DEF Updated, SendBatch
<1>7. /\ retry \subseteq s.pending /\ (retry # {} => s.attempt < maxAttempts)
      /\ \A t \in retry : code[t] \in {"transient", "rate_limited"}
  BY DEF RetryTargets, Retryable
<1>8. \A t \in s.pending : code[t] \in Codes
  BY DEF MissingCode, Codes, s, b
<1>9. /\ code = [t \in s.pending |->
                   IF t \in answered THEN results[t] ELSE MissingCode(batchError)]
      /\ newCode = [t \in DOMAIN s.code |-> IF t \in retry THEN code[t] ELSE Open]
      /\ newFinal = [t \in DOMAIN s.final |-> IF t \in s.pending \ retry
                                                  THEN code[t] ELSE s.final[t]]
  BY DEF newCode, newFinal
<1>10. rest \in Seconds /\ (retry # {} /\ (\E t \in retry : code[t] = "rate_limited") => rest >= 60)
  <2>1. delay \in Seconds /\ (slowest = "rate_limited" => delay >= 60)
    BY <1>3, <1>5, BackoffFacts
  <2>2. 0 \in Seconds
    BY DEF Seconds
  <2> QED BY <2>1, <2>2
<1> HIDE DEF code, retry, slowest
<1>11. newFinal \in [Addresses(b) -> Codes \cup {Open}] /\ newCode \in [Addresses(b) -> Codes \cup {Open}]
  <2>1. s.final \in [Addresses(b) -> Codes \cup {Open}]
    BY <1>4, TableFacts
  <2> QED BY <1>4, <1>7, <1>8, <1>9, <2>1
<1>12. newFinal \in Table /\ newCode \in Table
  BY <1>2, <1>11, TableFacts
<1> DEFINE r == Updated(s, pc, retry, rest, newFinal, newCode)
<1>13. /\ r \in SendBatch /\ r.pc = pc /\ r.attempt = s.attempt /\ r.pending = retry
       /\ r.delay = rest /\ r.final = newFinal /\ r.code = newCode
  <2>1. pc \in {"wait", "done"} /\ retry \in SUBSET Targets
    BY <1>2, <1>4, <1>7
  <2> QED BY <1>2, <1>10, <1>12, <2>1, UpdatedFacts
<1> HIDE DEF r
<1>14. /\ batch' \in [1 .. Count -> SendBatch] /\ batch'[b] = r
       /\ \A c \in 1 .. Count : c # b => batch'[c] = batch[c]
  BY <1>1, <1>2, <1>6, <1>13 DEF r
<1>15. Sound(r, Addresses(b))
  <2>1. /\ DOMAIN r.final = Addresses(b) /\ DOMAIN r.code = Addresses(b)
        /\ r.pending \subseteq Addresses(b)
    BY <1>4, <1>7, <1>11, <1>13
  <2>2. \A t \in Addresses(b) : t \in r.pending <=> r.final[t] = Open
    BY <1>4, <1>7, <1>8, <1>9, <1>13, CodeFacts
  <2>3. \A t \in retry : newCode[t] = code[t]
    BY <1>4, <1>7, <1>9
  <2>4. r.pc \in {"done", "wait"} /\ (r.pc = "wait" <=> retry # {})
    BY <1>13
  <2> QED BY <1>7, <1>10, <1>13, <2>1, <2>2, <2>3, <2>4 DEF Sound
<1>16. ASSUME NEW t \in Addresses(b)
       PROVE  /\ t \notin s.pending => r.final[t] = s.final[t]
              /\ \A c \in {"ok", "unregistered"} :
                   /\ t \in answered => (r.final[t] = c <=> results[t] = c)
                   /\ t \in s.pending \ answered
                        => (r.final[t] = c <=> MissingCode(batchError) = c)
  <2>1. t \notin s.pending => r.final[t] = s.final[t]
    BY <1>4, <1>9, <1>13
  <2>2. t \in retry => r.final[t] = Open /\ code[t] \in {"transient", "rate_limited"}
    BY <1>4, <1>7, <1>9, <1>13
  <2>3. t \in s.pending \ retry => r.final[t] = code[t]
    BY <1>4, <1>9, <1>13
  <2>4. t \in answered => t \in s.pending /\ code[t] = results[t]
    BY <1>9 DEF s, b
  <2>5. t \in s.pending \ answered => code[t] = MissingCode(batchError)
    BY <1>9
  <2>6. Open \notin {"ok", "unregistered"}
    BY DEF Open
  <2> QED BY <2>1, <2>2, <2>3, <2>4, <2>5, <2>6
<1>17. r.pc \in {"wait", "done"}
  BY <1>13
<1> QED BY <1>1, <1>3, <1>13, <1>14, <1>15, <1>16, <1>17 DEF b, s

\* A step of one sendBatch that is under way, which neither begins nor is begun again.
LEMMA BatchMoves ==
  ASSUME Inv, NEW b \in 1 .. Count, batch' \in [1 .. Count -> SendBatch],
         \A c \in 1 .. Count : c # b => batch'[c] = batch[c],
         batch[b].pc \in {"call", "wait"}, batch'[b].pc \in {"wait", "done"},
         Sound(batch'[b], Addresses(b)),
         UNCHANGED <<input, worker, next, canceled, result>>,
         sent' \in [Targets -> Nat], accepted' \in [Targets -> Nat]
  PROVE  Typed' /\ Sounds' /\ Channel' /\ Over'
<1>1. Count' = Count /\ Unique(input)' = Unique(input) /\ \A c : Addresses(c)' = Addresses(c)
  BY CutFixed
<1>2. Typed'
  BY <1>1 DEF Inv, Typed
<1>3. Sounds'
  BY <1>1 DEF Inv, Sounds
<1>4. Channel'
  BY <1>1 DEF Inv, Channel
<1>5. Over'
  BY <1>1 DEF Inv, Over
<1> QED BY <1>2, <1>3, <1>4, <1>5

LEMMA ProviderReturnsKeeps ==
  ASSUME Inv, NEW w \in DOMAIN worker, ProviderReturns(w) PROVE Inv'
<1> DEFINE b == worker[w]
           s == batch[b]
           r == batch'[b]
<1>1. Calling(w)
  BY DEF ProviderReturns
<1>2. PICK answered \in SUBSET s.pending :
        \E results \in [answered -> Codes], batchError \in Codes :
          Respond(w, answered, results, batchError)
  BY CodeFacts DEF ProviderReturns
<1>3. PICK results \in [answered -> Codes], batchError \in Codes :
        Respond(w, answered, results, batchError)
  BY <1>2
<1>4. /\ b \in 1 .. Count /\ s.pc = "call" /\ s.attempt \in Nat \ {0}
      /\ batch' \in [1 .. Count -> SendBatch]
      /\ \A c \in 1 .. Count : c # b => batch'[c] = batch[c]
      /\ r.pc \in {"wait", "done"} /\ r.attempt = s.attempt
      /\ Sound(r, Addresses(b))
      /\ \A t \in Addresses(b) :
           /\ t \notin s.pending => r.final[t] = s.final[t]
           /\ t \in answered => (r.final[t] = "ok" <=> results[t] = "ok")
           /\ t \in s.pending \ answered => r.final[t] # "ok"
  <2>1. /\ b \in 1 .. Count /\ s.pc = "call" /\ s.attempt \in Nat \ {0}
        /\ batch' \in [1 .. Count -> SendBatch]
        /\ \A c \in 1 .. Count : c # b => batch'[c] = batch[c]
        /\ r.pc \in {"wait", "done"} /\ r.attempt = s.attempt
        /\ Sound(r, Addresses(b))
    BY <1>1, <1>3, RespondFacts
  <2>2. \A t \in Addresses(b) :
          /\ t \notin s.pending => r.final[t] = s.final[t]
          /\ t \in answered => (r.final[t] = "ok" <=> results[t] = "ok")
          /\ t \in s.pending \ answered => (r.final[t] = "ok" <=> MissingCode(batchError) = "ok")
    BY <1>1, <1>3, RespondFacts
  <2>3. MissingCode(batchError) # "ok"
    BY DEF MissingCode
  <2> HIDE DEF b, s, r
  <2> QED BY <2>1, <2>2, <2>3
<1>5. /\ accepted' = [t \in Targets |->
                        IF t \in answered /\ results[t] = "ok" THEN accepted[t] + 1
                        ELSE accepted[t]]
      /\ UNCHANGED <<input, worker, next, canceled, result, sent>>
  BY <1>3 DEF Respond
<1>6. accepted' \in [Targets -> Nat] /\ sent' \in [Targets -> Nat]
  BY <1>5 DEF Inv, Typed
<1>7. Sound(s, Addresses(b)) /\ Count' = Count /\ (\A c : Addresses(c)' = Addresses(c))
  BY <1>4, <1>5, CutFixed DEF Inv, Sounds
<1>8. \A t \in s.pending : t \in Addresses(b) /\ s.final[t] = Open
  BY <1>7 DEF Sound
<1> HIDE DEF b, s, r
<1>9. Typed' /\ Sounds' /\ Channel' /\ Over'
  BY <1>4, <1>5, <1>6, BatchMoves DEF s, r
<1>10. Ledger'
  <2>1. ASSUME NEW c \in 1 .. Count, NEW t \in Addresses(c)
        PROVE  /\ sent'[t] <= batch'[c].attempt
               /\ accepted'[t] = IF batch'[c].final[t] = "ok" THEN 1 ELSE 0
    <3>1. t \in Targets /\ sent[t] <= batch[c].attempt
          /\ accepted[t] = IF batch[c].final[t] = "ok" THEN 1 ELSE 0
      BY Cut DEF Inv, Typed, Ledger
    <3>2. CASE c = b
      <4>1. sent'[t] <= batch'[c].attempt
        BY <1>4, <1>5, <3>1, <3>2 DEF r, s
      <4>2. CASE t \in answered
        <5>1. t \in s.pending /\ s.final[t] = Open /\ accepted[t] = 0
          BY <1>8, <3>1, <3>2, <4>2, CodeFacts DEF s
        <5>2. accepted'[t] = IF results[t] = "ok" THEN 1 ELSE 0
          BY <1>5, <3>1, <4>2, <5>1
        <5> QED BY <1>4, <3>2, <4>1, <4>2, <5>2 DEF r
      <4>3. CASE t \in s.pending \ answered
        <5>1. accepted[t] = 0 /\ accepted'[t] = accepted[t]
          BY <1>5, <1>8, <3>1, <3>2, <4>3, CodeFacts DEF s
        <5> QED BY <1>4, <3>2, <4>1, <4>3, <5>1 DEF r
      <4>4. CASE t \notin s.pending
        <5>1. accepted'[t] = accepted[t]
          BY <1>5, <3>1, <4>4
        <5> QED BY <1>4, <3>1, <3>2, <4>1, <4>4, <5>1 DEF r, s
      <4> QED BY <4>2, <4>3, <4>4
    <3>3. CASE c # b
      <4>0. Count \in Nat /\ input \in Seq(Targets)
        BY Cut DEF Inv, Typed
      <4>1. b \in Int /\ c \in Int
        BY <1>4, <4>0
      <4>2. Addresses(b) \cap Addresses(c) = {}
        BY <3>3, <4>0, <4>1, Cut
      <4>3. t \notin s.pending
        BY <1>8, <4>2
      <4>4. accepted'[t] = accepted[t] /\ batch'[c] = batch[c] /\ sent' = sent
        BY <1>4, <1>5, <3>1, <3>3, <4>3
      <4> QED BY <3>1, <4>4
    <3> QED BY <3>2, <3>3
  <2>2. ASSUME NEW t \in Targets, \A c \in 1 .. Count : t \notin Addresses(c)
        PROVE  sent'[t] = 0 /\ accepted'[t] = 0
    <3>1. t \notin s.pending
      BY <1>4, <1>8, <2>2
    <3> QED BY <1>5, <2>2, <3>1 DEF Inv, Ledger
  <2> QED BY <1>7, <2>1, <2>2 DEF Ledger
<1> QED BY <1>9, <1>10 DEF Inv

\* A canceled wait gives what is pending the code of its last attempt, which is not "ok".
LEMMA WaitCanceledKeeps ==
  ASSUME Inv, NEW w \in DOMAIN worker, WaitCanceled(w) PROVE Inv'
<1> DEFINE b == worker[w]
           s == batch[b]
           none == NoCodes(DOMAIN s.code)
           final == KeepWaiting(s)
           r == Updated(s, "done", {}, 0, final, none)
<1>1. b \in 1 .. Count /\ s.pc = "wait" /\ b \in Int
  <2>1. b \in 0 .. Count /\ Count \in Nat /\ b # 0
    BY Cut DEF Inv, Typed, WaitCanceled
  <2> QED BY <2>1 DEF WaitCanceled
<1>2. /\ s \in SendBatch /\ Sound(s, Addresses(b)) /\ batch \in [1 .. Count -> SendBatch]
      /\ Addresses(b) \in SUBSET Targets
  BY <1>1, Cut DEF Inv, Typed, Sounds
<1>3. batch' = [batch EXCEPT ![b] =
                  [s EXCEPT !.pc = "done", !.pending = {}, !.delay = 0,
                            !.code = NoCodes(DOMAIN @), !.final = KeepWaiting(s)]]
      /\ UNCHANGED <<input, worker, next, canceled, result, sent, accepted>>
  BY DEF WaitCanceled, SendBatchReturns
<1>4. /\ s.pending \subseteq Addresses(b) /\ s.final \in Table
      /\ DOMAIN s.final = Addresses(b) /\ DOMAIN s.code = Addresses(b)
      /\ \A t \in Addresses(b) : t \in s.pending <=> s.final[t] = Open
      /\ \A t \in s.pending : s.code[t] \in {"transient", "rate_limited"}
  BY <1>1, <1>2 DEF Sound, SendBatch
<1>5. final = [t \in Addresses(b) |-> IF t \in s.pending THEN s.code[t] ELSE s.final[t]]
  BY <1>4 DEF KeepWaiting
<1>6. none \in Table /\ DOMAIN none = Addresses(b)
  BY <1>2, <1>4, TableFacts
<1> HIDE DEF b, s, none, final, r
<1>7. final \in [Addresses(b) -> Codes] /\ final \in Table
  <2>1. s.final \in [Addresses(b) -> Codes \cup {Open}]
    BY <1>4, TableFacts
  <2>2. \A t \in Addresses(b) : final[t] \in Codes
    BY <1>4, <1>5, <2>1 DEF Codes
  <2>3. final \in [Addresses(b) -> Codes]
    BY <1>5, <2>2
  <2> QED BY <1>2, <2>3, TableFacts
<1>8. /\ r \in SendBatch /\ r.pc = "done" /\ r.attempt = s.attempt /\ r.pending = {}
      /\ r.final = final /\ r.code = none
  <2>1. {} \in SUBSET Targets /\ 0 \in Seconds
    BY DEF Seconds
  <2> QED BY <1>2, <1>6, <1>7, <2>1, UpdatedFacts DEF r
<1>9. batch' = [batch EXCEPT ![b] = r]
  BY <1>2, <1>3 DEF r, Updated, none, final, SendBatch
<1>10. /\ batch' \in [1 .. Count -> SendBatch] /\ batch'[b] = r
       /\ \A c \in 1 .. Count : c # b => batch'[c] = batch[c]
  BY <1>1, <1>2, <1>8, <1>9
<1>11. Sound(r, Addresses(b))
  BY <1>6, <1>7, <1>8, CodeFacts DEF Sound
<1>12. Typed' /\ Sounds' /\ Channel' /\ Over'
  <2>1. sent' \in [Targets -> Nat] /\ accepted' \in [Targets -> Nat]
    BY <1>3 DEF Inv, Typed
  <2> QED BY <1>1, <1>3, <1>8, <1>10, <1>11, <2>1, BatchMoves DEF s
<1>13. Ledger'
  <2>1. \A t \in Addresses(b) : final[t] = "ok" <=> s.final[t] = "ok"
    BY <1>4, <1>5, CodeFacts
  <2>2. \A c \in 1 .. Count : /\ batch'[c].attempt = batch[c].attempt
                             /\ \A t \in Addresses(c) : batch'[c].final[t] = "ok"
                                                        <=> batch[c].final[t] = "ok"
    BY <1>8, <1>10, <2>1 DEF s
  <2> QED BY <1>3, <2>2, CutFixed DEF Inv, Ledger
<1> QED BY <1>12, <1>13 DEF Inv

\* The goroutine goes back to the channel, Send returns, or the context ends.
LEMMA DeliverKeeps ==
  ASSUME Inv, NEW w \in DOMAIN worker, Deliver(w) PROVE Inv'
<1>1. worker' = [worker EXCEPT ![w] = 0]
      /\ UNCHANGED <<input, batch, next, canceled, result, sent, accepted>>
  BY DEF Deliver
<1>2. Count' = Count /\ Count \in Nat /\ Unique(input)' = Unique(input)
      /\ \A c : Addresses(c)' = Addresses(c)
  BY <1>1, CutFixed, Cut DEF Inv, Typed
<1>3. Typed'
  BY <1>1, <1>2 DEF Inv, Typed
<1>4. Channel'
  <2>1. /\ \A v \in DOMAIN worker : worker[v] < next
        /\ \A v, u \in DOMAIN worker : worker[v] = worker[u] /\ worker[v] # 0 => v = u
        /\ next \in 1 .. Count + 1
    BY DEF Inv, Typed, Channel
  <2>2. /\ DOMAIN worker' = DOMAIN worker
        /\ \A v \in DOMAIN worker : worker'[v] = IF v = w THEN 0 ELSE worker[v]
    BY <1>1
  <2>3. /\ \A v \in DOMAIN worker' : worker'[v] < next'
        /\ \A v, u \in DOMAIN worker' : worker'[v] = worker'[u] /\ worker'[v] # 0 => v = u
    BY <1>1, <1>2, <2>1, <2>2
  <2> QED BY <1>1, <1>2, <2>3 DEF Inv, Channel
<1>5. Sounds' /\ Ledger' /\ Over'
  BY <1>1, <1>2 DEF Inv, Sounds, Ledger, Over
<1> QED BY <1>3, <1>4, <1>5 DEF Inv

LEMMA ReturnKeeps == ASSUME Inv, Return PROVE Inv'
<1>1. /\ result' = [done |-> TRUE, failed |-> Refused(input) \/ AnyFailed]
      /\ \A b \in Batches : Delivered(b)
      /\ UNCHANGED <<input, batch, worker, next, canceled, sent, accepted>>
  BY DEF Return
<1>2. Count' = Count /\ Unique(input)' = Unique(input) /\ \A c : Addresses(c)' = Addresses(c)
  BY <1>1, CutFixed
<1>3. (Refused(input) \/ AnyFailed) \in BOOLEAN
  BY DEF Refused, AnyFailed
<1>4. Typed'
  BY <1>1, <1>2, <1>3 DEF Inv, Typed
<1>5. Over'
  BY <1>1, <1>2 DEF Inv, Typed, Over, Delivered, Batches
<1>6. Sounds' /\ Channel' /\ Ledger'
  BY <1>1, <1>2 DEF Inv, Sounds, Channel, Ledger
<1> QED BY <1>4, <1>5, <1>6 DEF Inv

LEMMA ContextEndsKeeps ==
  ASSUME Inv, UNCHANGED <<input, batch, worker, next, result, sent, accepted>>,
         canceled' \in BOOLEAN
  PROVE  Inv'
<1>1. Count' = Count /\ Unique(input)' = Unique(input) /\ \A c : Addresses(c)' = Addresses(c)
  BY CutFixed
<1>2. Typed'
  BY <1>1 DEF Inv, Typed
<1>3. Sounds' /\ Channel' /\ Ledger' /\ Over'
  BY <1>1 DEF Inv, Sounds, Channel, Ledger, Over
<1> QED BY <1>2, <1>3 DEF Inv

LEMMA NextInv == ASSUME Inv, [Next]_vars PROVE Inv'
<1>1. ASSUME NEW w \in DOMAIN worker, WorkerStep(w) PROVE Inv'
  BY <1>1, TakeKeeps, ProviderReturnsKeeps, TimerFiresKeeps, WaitCanceledKeeps, DeliverKeeps
     DEF WorkerStep
<1>2. CASE Return
  BY <1>2, ReturnKeeps
<1>3. CASE ContextEnds \/ UNCHANGED vars
  <2>1. canceled' \in BOOLEAN
    BY <1>3 DEF ContextEnds, vars, Inv, Typed
  <2> QED BY <1>3, <2>1, ContextEndsKeeps DEF ContextEnds, vars
<1> QED BY <1>1, <1>2, <1>3 DEF Next

LEMMA InvHolds == Spec => []Inv
  BY InitInv, NextInv, PTL DEF Spec

------------------------------------------------------------------------------
(* The theorems *)

\* The state of Send and of its sendBatch calls keeps its types, and no batch is tried
\* more than maxAttempts times.
THEOREM TypesHold == Spec => []TypeOK
<1>1. ASSUME Inv PROVE TypeOK
  <2>1. DOMAIN batch = 1 .. Count /\ Batches = 1 .. Count /\ Count \in Nat
    BY <1>1, Cut DEF Inv, Typed, Batches
  <2>2. Len(batch) = Count
    <3>1. batch \in Seq(SendBatch)
      BY <1>1, <2>1 DEF Inv, Typed
    <3> QED BY <2>1, <3>1
  <2>3. \A b \in Batches :
          /\ batch[b].pc \in {"queued", "call", "wait", "done"}
          /\ batch[b].attempt \in 0 .. maxAttempts
          /\ batch[b].pending \subseteq DOMAIN batch[b].final
          /\ \A t \in DOMAIN batch[b].final : batch[b].final[t] \in Codes \cup {Open}
    <3> TAKE b \in Batches
    <3>1. batch[b] \in SendBatch /\ Sound(batch[b], Addresses(b))
      BY <1>1, <2>1 DEF Inv, Typed, Sounds
    <3>2. batch[b].pc \in {"queued", "call", "wait", "done"} /\ batch[b].final \in Table
      BY <3>1 DEF SendBatch
    <3>3. batch[b].attempt \in 0 .. maxAttempts
      BY <3>1 DEF SendBatch, Attempts
    <3>4. batch[b].pending \subseteq DOMAIN batch[b].final
      BY <3>1 DEF Sound
    <3>5. \A t \in DOMAIN batch[b].final : batch[b].final[t] \in Codes \cup {Open}
      BY <3>2, TableFacts
    <3> QED BY <3>2, <3>3, <3>4, <3>5
  <2>4. \A w \in DOMAIN worker : worker[w] \in {0} \cup Batches
    <3> TAKE w \in DOMAIN worker
    <3>1. worker[w] \in 0 .. Count
      BY <1>1 DEF Inv, Typed
    <3> QED BY <2>1, <3>1
  <2>5. next \in 1 .. Len(batch) + 1
    BY <1>1, <2>2 DEF Inv, Typed
  <2> QED BY <1>1, <2>3, <2>4, <2>5 DEF Inv, Typed, TypeOK
<1> QED BY <1>1, InvHolds, PTL

\* However batches, retries, timers and the end of the context interleave, sendBatch never
\* sends to an address again that the provider has accepted, and never more than
\* maxAttempts times to one, as long as the provider returns at most one result per
\* target (ProviderReturns).
THEOREM AcceptedOnceHolds == Spec => []AcceptedOnce
<1>1. ASSUME Inv PROVE AcceptedOnce
  <2> SUFFICES ASSUME NEW t \in Targets PROVE accepted[t] <= 1 /\ sent[t] <= maxAttempts
    BY DEF AcceptedOnce
  <2>1. CASE \E b \in 1 .. Count : t \in Addresses(b)
    <3>1. PICK b \in 1 .. Count : t \in Addresses(b)
      BY <2>1
    <3>2. /\ sent[t] <= batch[b].attempt /\ sent[t] \in Nat
          /\ accepted[t] = IF batch[b].final[t] = "ok" THEN 1 ELSE 0
      BY <1>1, <3>1 DEF Inv, Typed, Ledger
    <3>3. batch[b].attempt \in 0 .. maxAttempts
      BY <1>1 DEF Inv, Typed, SendBatch, Attempts
    <3> QED BY <3>2, <3>3, SizeAssumption
  <2>2. CASE \A b \in 1 .. Count : t \notin Addresses(b)
    BY <1>1, <2>2, SizeAssumption DEF Inv, Ledger
  <2> QED BY <2>1, <2>2
<1> QED BY <1>1, InvHolds, PTL

\* A batch with a quota error waits a minute at least before it is tried again, whatever
\* else failed in it (retryBackoff, boundedRetryJitter).
THEOREM QuotaFloorHolds == Spec => []QuotaFloor
<1>1. ASSUME Inv PROVE QuotaFloor
  <2> SUFFICES ASSUME NEW b \in Batches, batch[b].pc = "wait",
                      \E t \in batch[b].pending : batch[b].code[t] = "rate_limited"
               PROVE  batch[b].delay >= 60
    BY DEF QuotaFloor
  <2>1. Sound(batch[b], Addresses(b))
    BY <1>1 DEF Inv, Typed, Sounds, Batches
  <2> QED BY <2>1 DEF Sound
<1> QED BY <1>1, InvHolds, PTL

------------------------------------------------------------------------------
(* Send implements SendContract *)

Told(code) == IF code \in {Open, "ok", "unregistered", "permanent"} THEN code ELSE "unresolved"

\* What the caller is told is the code that the one batch of the address has for it, and
\* nothing when the list is refused.
Said ==
  /\ ~Refused(input) => \A b \in 1 .. Count : \A t \in Addresses(b) :
                          Verdict(t) = Told(batch[b].final[t])
  /\ Refused(input) => \A t \in Asked : Verdict(t) = Open

LEMMA SaidFollows == Inv => Said
<1> SUFFICES ASSUME Inv PROVE Said
  OBVIOUS
<1>1. Refused(input) => \A t \in Asked : Verdict(t) = Open
  BY DEF Verdict
<1>2. ASSUME ~Refused(input), NEW b \in 1 .. Count, NEW t \in Addresses(b)
      PROVE  Verdict(t) = Told(batch[b].final[t])
  <2> DEFINE c == CHOOSE c \in Batches : t \in DOMAIN batch[c].final
  <2>1. Batches = 1 .. Count /\ Count \in Nat /\ input \in Seq(Targets)
    BY Cut DEF Inv, Typed, Batches
  <2>2. \A d \in 1 .. Count : DOMAIN batch[d].final = Addresses(d)
    BY DEF Inv, Sounds, Sound
  <2>3. c \in 1 .. Count /\ t \in Addresses(c)
    BY <2>1, <2>2
  <2> HIDE DEF c
  <2>4. c = b
    <3>1. b \in Int /\ c \in Int
      BY <2>1, <2>3
    <3>2. b # c => Addresses(b) \cap Addresses(c) = {}
      BY <2>1, <3>1, Cut
    <3> QED BY <2>3, <3>2
  <2> QED BY <1>2, <2>4 DEF Verdict, Told, c
<1> QED BY <1>1, <1>2 DEF Said

\* Each address is either in a batch, or the list is refused.
LEMMA Placed ==
  ASSUME Inv, NEW t \in Asked
  PROVE  Refused(input) \/ \E b \in 1 .. Count : t \in Addresses(b)
  BY Cut DEF Inv, Typed

LEMMA FinalTyped ==
  ASSUME Inv, NEW b \in 1 .. Count, NEW t \in Addresses(b)
  PROVE  batch[b].final[t] \in Codes \cup {Open}
<1>1. batch[b].final \in Table /\ DOMAIN batch[b].final = Addresses(b)
  BY DEF Inv, Typed, SendBatch, Sounds, Sound
<1> QED BY <1>1, TableFacts

verdictMap == [t \in Asked |-> Verdict(t)]

\* A step that settles nothing anew does not show.
LEMMA StutterStep ==
  ASSUME Inv, Inv', Said, Said', UNCHANGED <<input, result>>,
         \A b \in 1 .. Count : batch'[b].final = batch[b].final
  PROVE  UNCHANGED <<verdictMap, result.done, result.failed>>
<1>1. Count' = Count /\ (\A b : Addresses(b)' = Addresses(b)) /\ Asked' = Asked
      /\ (Refused(input)' <=> Refused(input))
  BY CutFixed DEF Asked, Refused
<1>2. \A t \in Asked : Verdict(t)' = Verdict(t)
  <2> TAKE t \in Asked
  <2>1. CASE Refused(input)
    BY <1>1, <2>1 DEF Said
  <2>2. CASE ~Refused(input)
    BY <1>1, <2>2, Placed DEF Said
  <2> QED BY <2>1, <2>2
<1>3. verdictMap' = verdictMap
  BY <1>1, <1>2 DEF verdictMap
<1> QED BY <1>3

\* A step that gives codes to addresses that were open settles them.
LEMMA SettleStep ==
  ASSUME Inv, Inv', Said, Said', ~result.done, UNCHANGED <<input, result>>,
         \A b \in 1 .. Count : \A t \in Addresses(b) :
           batch[b].final[t] # Open => batch'[b].final[t] = batch[b].final[t]
  PROVE  Contract!Next
<1>1. Count' = Count /\ (\A b : Addresses(b)' = Addresses(b)) /\ Asked' = Asked
      /\ (Refused(input)' <=> Refused(input))
  BY CutFixed DEF Asked, Refused
<1>2. \A t \in Asked :
        \/ Verdict(t)' = Verdict(t)
        \/ Verdict(t) \notin Contract!Final /\ Verdict(t)' \in Contract!Final
  <2> TAKE t \in Asked
  <2>1. CASE Refused(input)
    BY <1>1, <2>1 DEF Said
  <2>2. CASE ~Refused(input)
    <3>1. PICK b \in 1 .. Count : t \in Addresses(b)
      BY <2>2, Placed
    <3>2. Verdict(t) = Told(batch[b].final[t]) /\ Verdict(t)' = Told(batch'[b].final[t])
      BY <1>1, <2>2, <3>1 DEF Said, Told
    <3>3. batch'[b].final[t] \in Codes \cup {Open}
      <4>1. batch'[b].final \in Table /\ DOMAIN batch'[b].final = Addresses(b)
        BY <1>1, <3>1 DEF Inv, Typed, SendBatch, Sounds, Sound
      <4> QED BY <3>1, <4>1, TableFacts
    <3> HIDE DEF Said
    <3>4. CASE batch[b].final[t] # Open
      BY <3>1, <3>2, <3>4
    <3>5. CASE batch[b].final[t] = Open
      BY <3>2, <3>3, <3>5 DEF Told, Open, Codes, Contract!Final
    <3> QED BY <3>4, <3>5
  <2> QED BY <2>1, <2>2
<1>3. Contract!Settle
  BY <1>1, <1>2 DEF Contract!Settle, Contract!Settled
<1> QED BY <1>3 DEF Contract!Next

LEMMA ReturnStep ==
  ASSUME Inv, Inv', Said, Said', Return PROVE Contract!Next
<1>1. /\ ~result.done /\ \A b \in Batches : Delivered(b)
      /\ result' = [done |-> TRUE, failed |-> Refused(input) \/ AnyFailed]
      /\ UNCHANGED <<input, batch, worker, next, canceled, sent, accepted>>
  BY DEF Return
<1>2. Batches = 1 .. Count /\ \A b \in 1 .. Count : DOMAIN batch[b].final = Addresses(b)
  BY DEF Inv, Typed, Batches, Sounds, Sound
<1>3. \A b \in 1 .. Count : \A t \in Addresses(b) : batch[b].final[t] \in Codes
  <2> TAKE b \in 1 .. Count
  <2>1. batch[b].pc = "done" /\ Sound(batch[b], Addresses(b))
    BY <1>1, <1>2 DEF Delivered, Inv, Sounds
  <2>2. \A t \in Addresses(b) : batch[b].final[t] # Open
    BY <2>1 DEF Sound
  <2> QED BY <2>2, FinalTyped
<1>4. verdictMap' = verdictMap
  <2>1. Asked' = Asked /\ \A t : Verdict(t)' = Verdict(t)
    BY <1>1 DEF Asked, Verdict, Batches, Refused
  <2> QED BY <2>1 DEF verdictMap
<1>5. CASE Refused(input)
  <2>1. \A t \in Asked : Verdict(t) \notin Contract!Final
    BY <1>5 DEF Said, Open, Contract!Final
  <2>2. \E t \in Asked : TRUE
    BY <1>5 DEF Asked, Refused
  <2>3. result'.done = TRUE /\ result'.failed = TRUE
    BY <1>1, <1>5
  <2>4. Contract!Return
    BY <1>4, <2>1, <2>2, <2>3 DEF Contract!Return, Contract!Settled, verdictMap
  <2> QED BY <1>1, <2>4 DEF Contract!Next
<1>6. CASE ~Refused(input)
  <2>1. \A t \in Asked : \E b \in 1 .. Count :
          t \in Addresses(b) /\ Verdict(t) = Told(batch[b].final[t])
    BY <1>6, Placed DEF Said
  <2>2. \A t \in Asked : Verdict(t) \in Contract!Final
    <3>1. \A code \in Codes : Told(code) \in Contract!Final
      BY DEF Told, Open, Codes, Contract!Final
    <3> QED BY <1>3, <2>1, <3>1
  <2>3. AnyFailed <=> \E t \in Asked : Verdict(t) = "unresolved"
    <3>1. \A b \in 1 .. Count : \A t \in Addresses(b) :
            /\ Unresolved(batch[b].final[t]) <=> Told(batch[b].final[t]) = "unresolved"
            /\ Verdict(t) = Told(batch[b].final[t]) /\ t \in Asked
      <4> TAKE b \in 1 .. Count
      <4> TAKE t \in Addresses(b)
      <4>1. batch[b].final[t] \in Codes
        BY <1>3
      <4>2. t \in Asked
        BY Cut DEF Inv, Typed
      <4> QED BY <1>6, <4>1, <4>2 DEF Said, Told, Unresolved, Codes, Open
    <3>2. AnyFailed <=> \E b \in 1 .. Count : \E t \in Addresses(b) : Unresolved(batch[b].final[t])
      BY <1>2 DEF AnyFailed, BatchFailed
    <3> QED BY <2>1, <3>1, <3>2
  <2>4. result'.done = TRUE /\ result'.failed = AnyFailed
    BY <1>1, <1>6 DEF AnyFailed
  <2>5. Contract!Return
    <3>1. result'.failed = \E t \in Asked : verdictMap[t] \notin Contract!Final
                                         \/ verdictMap[t] = "unresolved"
      BY <2>2, <2>3, <2>4 DEF verdictMap, AnyFailed
    <3>2. \A t \in Asked : verdictMap[t] \in Contract!Final
      BY <2>2 DEF verdictMap
    <3> QED BY <1>4, <2>4, <3>1, <3>2 DEF Contract!Return, Contract!Settled, verdictMap
  <2> QED BY <1>1, <2>5 DEF Contract!Next
<1> QED BY <1>5, <1>6

\* The answer of a provider, or the end of the context, only settles what was open.
LEMMA AnswerStep ==
  ASSUME Inv, Inv', Said, Said', NEW w \in DOMAIN worker, ProviderReturns(w) PROVE Contract!Next
<1> DEFINE b == worker[w]
<1>1. Calling(w)
  BY DEF ProviderReturns
<1>2. PICK answered \in SUBSET batch[b].pending :
        \E results \in [answered -> Codes], batchError \in Codes :
          Respond(w, answered, results, batchError)
  BY CodeFacts DEF ProviderReturns
<1>3. PICK results \in [answered -> Codes], batchError \in Codes :
        Respond(w, answered, results, batchError)
  BY <1>2
<1>4. /\ b \in 1 .. Count /\ batch[b].pc = "call"
      /\ \A c \in 1 .. Count : c # b => batch'[c] = batch[c]
      /\ \A t \in Addresses(b) : t \notin batch[b].pending
                                 => batch'[b].final[t] = batch[b].final[t]
  BY <1>1, <1>3, RespondFacts
<1>5. UNCHANGED <<input, result>>
  BY <1>3 DEF Respond
<1>6. ~result.done
  BY <1>4 DEF Inv, Over
<1>7. \A t \in Addresses(b) : batch[b].final[t] # Open => t \notin batch[b].pending
  BY <1>4 DEF Inv, Sounds, Sound
<1> HIDE DEF b
<1> QED BY <1>4, <1>5, <1>6, <1>7, SettleStep

LEMMA CancelStep ==
  ASSUME Inv, Inv', Said, Said', NEW w \in DOMAIN worker, WaitCanceled(w) PROVE Contract!Next
<1> DEFINE b == worker[w]
           s == batch[b]
<1>1. b \in 1 .. Count /\ s.pc = "wait"
  <2>1. b \in 0 .. Count /\ Count \in Nat /\ b # 0
    BY Cut DEF Inv, Typed, WaitCanceled
  <2> QED BY <2>1 DEF WaitCanceled
<1>2. /\ batch' = [batch EXCEPT ![b] =
                     [s EXCEPT !.pc = "done", !.pending = {}, !.delay = 0,
                               !.code = NoCodes(DOMAIN @), !.final = KeepWaiting(s)]]
      /\ UNCHANGED <<input, result>>
  BY DEF WaitCanceled, SendBatchReturns
<1>3. /\ s \in SendBatch /\ batch \in [1 .. Count -> SendBatch]
      /\ DOMAIN s.final = Addresses(b)
      /\ \A t \in Addresses(b) : t \in s.pending <=> s.final[t] = Open
  BY <1>1 DEF Inv, Typed, Sounds, Sound
<1>4. /\ batch'[b].final = KeepWaiting(s)
      /\ \A c \in 1 .. Count : c # b => batch'[c] = batch[c]
  BY <1>1, <1>2, <1>3 DEF SendBatch
<1> HIDE DEF b, s
<1>5. \A t \in Addresses(b) : s.final[t] # Open => batch'[b].final[t] = s.final[t]
  BY <1>3, <1>4 DEF KeepWaiting
<1>6. ~result.done
  BY <1>1 DEF Inv, Over, s
<1> QED BY <1>2, <1>4, <1>5, <1>6, SettleStep DEF s

LEMMA CallStep ==
  ASSUME Inv, NEW b \in 1 .. Count, Call(b, batch[b])
  PROVE  \A c \in 1 .. Count : batch'[c].final = batch[c].final
<1>1. batch \in [1 .. Count -> SendBatch] /\ batch[b] \in SendBatch
  BY DEF Inv, Typed
<1>2. batch' = [batch EXCEPT ![b] =
                 [batch[b] EXCEPT !.pc = "call", !.attempt = @ + 1, !.delay = 0,
                                  !.code = NoCodes(DOMAIN @)]]
  BY DEF Call
<1> QED BY <1>1, <1>2 DEF SendBatch

LEMMA ContractStep ==
  ASSUME Inv, Inv', Said, Said', [Next]_vars
  PROVE  Contract!Next \/ UNCHANGED <<verdictMap, result.done, result.failed>>
<1>1. ASSUME NEW w \in DOMAIN worker, Take(w)
      PROVE  UNCHANGED <<verdictMap, result.done, result.failed>>
  <2>1. next \in 1 .. Count /\ Call(next, batch[next]) /\ UNCHANGED <<input, result>>
    BY <1>1 DEF Take, Batches, Inv, Typed
  <2> QED BY <2>1, CallStep, StutterStep
<1>2. ASSUME NEW w \in DOMAIN worker, TimerFires(w)
      PROVE  UNCHANGED <<verdictMap, result.done, result.failed>>
  <2>1. worker[w] \in 0 .. Count /\ worker[w] # 0 /\ Count \in Nat
    BY <1>2, Cut DEF TimerFires, Inv, Typed
  <2>2. worker[w] \in 1 .. Count
    BY <2>1
  <2>3. Call(worker[w], batch[worker[w]]) /\ UNCHANGED <<input, result>>
    BY <1>2 DEF TimerFires
  <2> QED BY <2>2, <2>3, CallStep, StutterStep
<1>3. ASSUME NEW w \in DOMAIN worker, ProviderReturns(w) PROVE Contract!Next
  BY <1>3, AnswerStep
<1>4. ASSUME NEW w \in DOMAIN worker, WaitCanceled(w) PROVE Contract!Next
  BY <1>4, CancelStep
<1>5. CASE Return
  BY <1>5, ReturnStep
<1>6. ASSUME \/ \E w \in DOMAIN worker : Deliver(w)
             \/ ContextEnds \/ UNCHANGED vars
      PROVE  UNCHANGED <<verdictMap, result.done, result.failed>>
  <2>1. UNCHANGED <<input, batch, result>>
    BY <1>6 DEF Deliver, ContextEnds, vars
  <2> QED BY <2>1, StutterStep
<1> QED BY <1>1, <1>2, <1>3, <1>4, <1>5, <1>6 DEF Next, WorkerStep

LEMMA ContractInit == ASSUME Init, Inv, Said PROVE Contract!Init
<1>1. \A t \in Asked : Verdict(t) = "open"
  <2> TAKE t \in Asked
  <2>1. CASE Refused(input)
    BY <2>1 DEF Said, Open
  <2>2. CASE ~Refused(input)
    <3>1. PICK b \in 1 .. Count : t \in Addresses(b)
      BY <2>2, Placed
    <3>2. batch[b].final[t] = Open
      <4>1. /\ batch[b] = Queued(Addresses(b)) /\ Addresses(b) \in SUBSET Targets
            /\ Addresses(b) # {}
        BY Cut DEF Init, Count, Addresses, Inv, Typed
      <4>2. batch[b].final = NoCodes(Addresses(b))
        BY <4>1, QueuedFacts
      <4> QED BY <3>1, <4>1, <4>2, TableFacts
    <3> QED BY <2>2, <3>1, <3>2 DEF Said, Told, Open
  <2> QED BY <2>1, <2>2
<1>2. Asked \in SUBSET Targets
  BY DEF Asked, Inv, Typed
<1> QED BY <1>1, <1>2 DEF Contract!Init, Init

\* Batches, the pool of goroutines, retries and cancellation implement what the worker of
\* the scheduler relies on: each address is settled once, Send returns when all are, and
\* its error tells truthfully whether one needs another try.
THEOREM ContractHolds == Spec => ContractKept
<1>1. Spec => [](Inv /\ Said)
  BY InvHolds, SaidFollows, PTL
<1>2. Init /\ Inv /\ Said => Contract!Init
  BY ContractInit
<1>3. (Inv /\ Said) /\ (Inv /\ Said)' /\ [Next]_vars
        => [Contract!Next]_<<[t \in Asked |-> Verdict(t)], result.done, result.failed>>
  BY ContractStep DEF verdictMap
<1> QED BY <1>1, <1>2, <1>3, PTL DEF Spec, ContractKept, Contract!Spec
------------------------------------------------------------------------------
(* The adapter of push/fcm *)

\* Each pending target has a place in the lists that the adapter makes of them.
LEMMA InOrderFacts ==
  ASSUME input \in Seq(Targets), NEW pending \in SUBSET Asked
  PROVE  /\ InOrder(pending) \in Seq(Targets)
         /\ \A t \in pending : \E n \in DOMAIN InOrder(pending) : InOrder(pending)[n] = t
<1> DEFINE at == {i \in Firsts(input) : input[i] \in pending}
<1>1. at \in SUBSET (1 .. Len(input)) /\ \A t \in pending : \E i \in at : input[i] = t
  <2>1. at \in SUBSET (1 .. Len(input))
    BY FirstsFacts
  <2>2. ASSUME NEW t \in pending PROVE \E i \in at : input[i] = t
    <3>1. PICK i \in DOMAIN input : input[i] = t
      BY DEF Asked
    <3>2. PICK m \in Firsts(input) : input[m] = input[i]
      BY <3>1, FirstsFacts
    <3> QED BY <3>1, <3>2
  <2> QED BY <2>1, <2>2
<1>2. InOrder(pending) = Sublist(input, at)
  BY DEF InOrder
<1> HIDE DEF at
<1>3. /\ Sublist(input, at) \in Seq(Targets)
      /\ \A i \in at : \E n \in DOMAIN Sublist(input, at) : Sublist(input, at)[n] = input[i]
  BY <1>1, SublistFacts
<1> QED BY <1>1, <1>2, <1>3

LEMMA MulticastFacts ==
  ASSUME input \in Seq(Targets), NEW pending \in SUBSET Asked, NEW t \in pending
  PROVE  \E n \in DOMAIN Multicast(pending) : Multicast(pending)[n] = t
<1> DEFINE tokens == InOrder(pending \cap Tokens)
           fids == InOrder(pending \ Tokens)
<1>1. /\ tokens \in Seq(Targets) /\ fids \in Seq(Targets)
      /\ t \in Tokens => \E n \in DOMAIN tokens : tokens[n] = t
      /\ t \notin Tokens => \E n \in DOMAIN fids : fids[n] = t
  BY InOrderFacts
<1>2. Multicast(pending) = tokens \o fids
  BY DEF Multicast
<1> HIDE DEF tokens, fids
<1>3. CASE t \in Tokens
  <2>1. PICK n \in DOMAIN tokens : tokens[n] = t
    BY <1>1, <1>3
  <2>2. n \in DOMAIN (tokens \o fids) /\ (tokens \o fids)[n] = t
    BY <1>1, <2>1
  <2> QED BY <1>2, <2>2
<1>4. CASE t \notin Tokens
  <2>1. PICK n \in DOMAIN fids : fids[n] = t
    BY <1>1, <1>4
  <2> DEFINE m == Len(tokens) + n
  <2>2. m \in DOMAIN (tokens \o fids) /\ (tokens \o fids)[m] = t
    BY <1>1, <2>1
  <2> HIDE DEF m
  <2> QED BY <1>2, <2>2
<1> QED BY <1>3, <1>4

\* The pending targets of a call are some of those asked for, and there are some.
LEMMA CallingFacts ==
  ASSUME Inv, NEW w \in DOMAIN worker, Calling(w)
  PROVE  /\ worker[w] \in 1 .. Count /\ batch[worker[w]].pending \in SUBSET Asked
         /\ batch[worker[w]].pending \subseteq Addresses(worker[w])
         /\ batch[worker[w]].pending # {}
<1> DEFINE b == worker[w]
<1>1. b \in 1 .. Count /\ batch[b].pc = "call"
  <2>1. b \in 0 .. Count /\ Count \in Nat /\ b # 0
    BY Cut DEF Inv, Typed, Calling
  <2> QED BY <2>1 DEF Calling
<1> HIDE DEF b
<1>2. Sound(batch[b], Addresses(b)) /\ Addresses(b) \subseteq Asked
  BY <1>1, Cut DEF Inv, Typed, Sounds
<1> QED BY <1>1, <1>2 DEF Sound, b

LEMMA ClassifyFacts ==
  ASSUME NEW answer \in {"accepted"} \cup Errors
  PROVE  /\ Classify(answer) \in Codes
         /\ Classify(answer) = "ok" <=> answer = "accepted"
         /\ Classify(answer) = "unregistered" <=> answer = "unregistered"
  BY DEF Classify, Errors, Codes

\* SendBatch puts each answer back at the address that it is for.
LEMMA AnswersMatched ==
  ASSUME Inv, NEW w \in DOMAIN worker, FcmAnswers(w)
  PROVE  LET pending == batch[worker[w]].pending
         IN  \E answer \in [pending -> {"accepted"} \cup Errors] :
               /\ Respond(w, pending, [t \in pending |-> Classify(answer[t])], "ok")
               /\ Hear(pending, answer)
<1> DEFINE pending == batch[worker[w]].pending
           request == Multicast(pending)
           Place(t) == CHOOSE i \in DOMAIN request : request[i] = t
<1>1. Calling(w)
  BY DEF FcmAnswers
<1>2. \A t \in pending : request[Place(t)] = t
  <2>1. input \in Seq(Targets) /\ pending \in SUBSET Asked
    BY <1>1, CallingFacts DEF Inv, Typed
  <2> HIDE DEF pending
  <2>2. \A t \in pending : \E i \in DOMAIN request : request[i] = t
    BY <2>1, MulticastFacts
  <2> HIDE DEF request
  <2> QED BY <2>2
<1>3. PICK answer \in [pending -> {"accepted"} \cup Errors] :
        /\ Respond(w, pending, [t \in pending |-> Classify(answer[request[Place(t)]])], "ok")
        /\ Hear(pending, answer)
  BY Zenon DEF FcmAnswers, OrderedTargets
<1> HIDE DEF pending, request, Place
<1>4. [t \in pending |-> Classify(answer[request[Place(t)]])]
        = [t \in pending |-> Classify(answer[t])]
  BY <1>2
<1>5. /\ Respond(w, pending, [t \in pending |-> Classify(answer[t])], "ok")
      /\ Hear(pending, answer)
  BY <1>3, <1>4
<1> QED BY <1>5 DEF pending

\* With this adapter Send takes only steps that it takes with a provider of which no more is
\* known than that no target has two results: what is shown for such a one holds for it.
LEMMA AdapterStep ==
  ASSUME Inv, [FcmNext]_fcmVars PROVE [Next]_vars
<1>1. ASSUME NEW w \in DOMAIN worker, FcmAnswers(w) PROVE ProviderReturns(w)
  <2> DEFINE pending == batch[worker[w]].pending
  <2>1. PICK answer \in [pending -> {"accepted"} \cup Errors] :
          Respond(w, pending, [t \in pending |-> Classify(answer[t])], "ok")
    BY <1>1, AnswersMatched
  <2>2. [t \in pending |-> Classify(answer[t])] \in [pending -> Codes]
    BY ClassifyFacts
  <2>3. Calling(w)
    BY <1>1 DEF FcmAnswers
  <2> QED BY <2>1, <2>2, <2>3 DEF ProviderReturns
<1>2. ASSUME NEW w \in DOMAIN worker, Calling(w), NEW batchError \in Codes,
             Respond(w, {}, <<>>, batchError)
      PROVE  ProviderReturns(w)
  <2>1. batch[worker[w]].pending # {}
    BY <1>2, CallingFacts
  <2>2. <<>> \in [{} -> Codes]
    OBVIOUS
  <2> QED BY <1>2, <2>1, <2>2 DEF ProviderReturns
<1>3. ASSUME NEW w \in DOMAIN worker, FcmFails(w) \/ MessageRefused(w) PROVE ProviderReturns(w)
  <2>1. Calling(w) /\ \E batchError \in Codes : Respond(w, {}, <<>>, batchError)
    <3>1. CASE FcmFails(w)
      <4>1. Calling(w) /\ \E error \in Errors : Respond(w, {}, <<>>, Classify(error))
        BY <3>1 DEF FcmFails
      <4> QED BY <4>1, ClassifyFacts
    <3>2. CASE MessageRefused(w)
      BY <3>2 DEF MessageRefused, Codes
    <3> QED BY <1>3, <3>1, <3>2
  <2> QED BY <1>2, <2>1
<1>4. ASSUME NEW w \in DOMAIN worker, FcmStep(w) PROVE WorkerStep(w)
  BY <1>1, <1>3, <1>4 DEF FcmStep, OtherReturns, WorkerStep
<1> QED BY <1>4 DEF FcmNext, fcmVars, vars, Next

LEMMA FcmInvHolds == FcmSpec => []Inv
<1>1. FcmInit => Inv
  BY InitInv DEF FcmInit
<1>2. Inv /\ [FcmNext]_fcmVars => Inv'
  BY AdapterStep, NextInv
<1> QED BY <1>1, <1>2, PTL DEF FcmSpec

\* Send with the adapter of push/fcm as its provider, which answers by position and so each
\* target once, is one of the implementations that Dispatcher describes: types, the single
\* acceptance, the quota wait and the contract hold for it too.
THEOREM AdapterImplements == FcmSpec => Spec
<1>1. FcmInit => Init
  BY DEF FcmInit
<1>2. Inv /\ [FcmNext]_fcmVars => [Next]_vars
  BY AdapterStep
<1> QED BY <1>1, <1>2, FcmInvHolds, PTL DEF FcmSpec, Spec

\* The verdict of an address, in the batch that it is in: none while it is pending.
Earned ==
  route = "fcm" =>
    \A b \in 1 .. Count : \A t \in Addresses(b) :
      /\ batch[b].final[t] = "ok" <=> said[t] = "accepted"
      /\ batch[b].final[t] = "unregistered" <=> said[t] = "unregistered"

\* FCM has spoken of the pending targets of a call, and each gets the code of its answer.
LEMMA HearingEarns ==
  ASSUME Inv, Earned, NEW w \in DOMAIN worker, Calling(w),
         NEW answered \in SUBSET batch[worker[w]].pending, NEW results \in [answered -> Codes],
         NEW batchError \in Codes, Respond(w, answered, results, batchError),
         NEW answer, Hear(batch[worker[w]].pending, answer), UNCHANGED route,
         \A t \in answered : /\ results[t] = "ok" <=> answer[t] = "accepted"
                             /\ results[t] = "unregistered" <=> answer[t] = "unregistered",
         \A t \in batch[worker[w]].pending \ answered :
           /\ answer[t] # "accepted"
           /\ MissingCode(batchError) = "unregistered" <=> answer[t] = "unregistered"
  PROVE  Earned'
<1> DEFINE b == worker[w]
           s == batch[b]
           r == batch'[b]
<1>1. b \in 1 .. Count /\ s.pending \subseteq Addresses(b)
  BY CallingFacts
<1>2. /\ b \in 1 .. Count /\ \A c \in 1 .. Count : c # b => batch'[c] = batch[c]
      /\ \A t \in Addresses(b) :
           /\ t \notin s.pending => r.final[t] = s.final[t]
           /\ \A c \in {"ok", "unregistered"} :
                /\ t \in answered => (r.final[t] = c <=> results[t] = c)
                /\ t \in s.pending \ answered
                     => (r.final[t] = c <=> MissingCode(batchError) = c)
  BY RespondFacts
<1>3. UNCHANGED input
  BY DEF Respond
<1>4. said' = [t \in Targets |->
                 IF t \notin s.pending THEN said[t]
                 ELSE IF answer[t] \in {"accepted", "unregistered"} THEN answer[t]
                 ELSE "other"]
  BY DEF Hear
<1>5. MissingCode(batchError) # "ok"
  BY DEF MissingCode
<1> HIDE DEF b, s, r
<1>6. ASSUME NEW t \in s.pending
      PROVE  /\ r.final[t] = "ok" <=> said'[t] = "accepted"
             /\ r.final[t] = "unregistered" <=> said'[t] = "unregistered"
  <2>1. t \in Addresses(b) /\ t \in Targets
    BY <1>1, Cut DEF Inv, Typed
  <2>2. /\ said'[t] = "accepted" <=> answer[t] = "accepted"
        /\ said'[t] = "unregistered" <=> answer[t] = "unregistered"
    BY <1>4, <2>1
  <2>3. CASE t \in answered
    BY <1>2, <2>1, <2>2, <2>3
  <2>4. CASE t \notin answered
    BY <1>2, <1>5, <2>1, <2>2, <2>4 DEF s, b
  <2> QED BY <2>3, <2>4
<1>7. ASSUME route = "fcm", NEW c \in 1 .. Count, NEW t \in Addresses(c)
      PROVE  /\ batch'[c].final[t] = "ok" <=> said'[t] = "accepted"
             /\ batch'[c].final[t] = "unregistered" <=> said'[t] = "unregistered"
  <2>1. Count \in Nat /\ input \in Seq(Targets) /\ t \in Targets
    BY Cut DEF Inv, Typed
  <2>2. ASSUME t \in s.pending PROVE c = b
    <3>1. t \in Addresses(b) /\ b \in Int /\ c \in Int
      BY <1>1, <2>1, <2>2
    <3>2. b # c => Addresses(b) \cap Addresses(c) = {}
      BY <2>1, <3>1, Cut
    <3> QED BY <3>1, <3>2
  <2>3. CASE t \in s.pending
    BY <1>6, <2>2, <2>3 DEF r
  <2>4. CASE t \notin s.pending
    <3>1. said'[t] = said[t]
      BY <1>4, <2>1, <2>4
    <3>2. batch'[c].final[t] = batch[c].final[t]
      BY <1>2, <2>4 DEF r, s
    <3> QED BY <1>7, <3>1, <3>2 DEF Earned
  <2> QED BY <2>3, <2>4
<1>8. Count' = Count /\ \A c : Addresses(c)' = Addresses(c)
  BY <1>3, CutFixed
<1> QED BY <1>7, <1>8 DEF Earned

\* A step in which FCM says nothing settles nothing as delivered or unregistered.
LEMMA SilenceEarns ==
  ASSUME Earned, UNCHANGED <<input, route, said>>,
         \A b \in 1 .. Count : \A t \in Addresses(b) : \A c \in {"ok", "unregistered"} :
           batch'[b].final[t] = c <=> batch[b].final[t] = c
  PROVE  Earned'
<1>1. Count' = Count /\ \A c : Addresses(c)' = Addresses(c)
  BY CutFixed
<1> QED BY <1>1 DEF Earned

LEMMA AnswersEarn ==
  ASSUME Inv, Earned, NEW w \in DOMAIN worker, FcmAnswers(w) PROVE Earned'
<1> DEFINE pending == batch[worker[w]].pending
<1>1. PICK answer \in [pending -> {"accepted"} \cup Errors] :
        /\ Respond(w, pending, [t \in pending |-> Classify(answer[t])], "ok")
        /\ Hear(pending, answer)
  BY AnswersMatched
<1> DEFINE results == [t \in pending |-> Classify(answer[t])]
<1>2. results \in [pending -> Codes]
  BY ClassifyFacts
<1>3. \A t \in pending : /\ results[t] = "ok" <=> answer[t] = "accepted"
                         /\ results[t] = "unregistered" <=> answer[t] = "unregistered"
  BY ClassifyFacts
<1>4. Calling(w) /\ UNCHANGED route /\ "ok" \in Codes
  BY CodeFacts DEF FcmAnswers
<1>5. Respond(w, pending, results, "ok") /\ Hear(pending, answer)
  BY <1>1
<1> HIDE DEF results
<1> QED BY <1>2, <1>3, <1>4, <1>5, HearingEarns

LEMMA FailureEarns ==
  ASSUME Inv, Earned, NEW w \in DOMAIN worker, FcmFails(w) PROVE Earned'
<1> DEFINE pending == batch[worker[w]].pending
<1>1. PICK error \in Errors :
        /\ Respond(w, {}, <<>>, Classify(error))
        /\ Hear(pending, [t \in pending |-> error])
  BY DEF FcmFails
<1> DEFINE answer == [t \in pending |-> error]
<1>2. Classify(error) \in Codes /\ <<>> \in [{} -> Codes]
  <2>1. Classify(error) \in Codes
    BY ClassifyFacts
  <2>2. <<>> \in [{} -> Codes]
    OBVIOUS
  <2> QED BY <2>1, <2>2
<1>3. \A t \in pending \ {} :
        /\ answer[t] # "accepted"
        /\ MissingCode(Classify(error)) = "unregistered" <=> answer[t] = "unregistered"
  <2>1. /\ error # "accepted"
        /\ MissingCode(Classify(error)) = "unregistered" <=> error = "unregistered"
    BY DEF Errors, MissingCode, Classify
  <2> QED BY <2>1
<1>4. Calling(w) /\ UNCHANGED route
  BY DEF FcmFails
<1>5. Respond(w, {}, <<>>, Classify(error)) /\ Hear(pending, answer)
  BY <1>1
<1> HIDE DEF answer
<1> QED BY <1>2, <1>3, <1>4, <1>5, HearingEarns

\* What a canceled wait leaves behind is a code of the last attempt that may be tried again.
LEMMA CancelEarns ==
  ASSUME Inv, Earned, NEW w \in DOMAIN worker, WaitCanceled(w), UNCHANGED <<route, said>>
  PROVE  Earned'
<1> DEFINE b == worker[w]
           s == batch[b]
<1>1. b \in 1 .. Count /\ s.pc = "wait"
  <2>1. b \in 0 .. Count /\ Count \in Nat /\ b # 0
    BY Cut DEF Inv, Typed, WaitCanceled
  <2> QED BY <2>1 DEF WaitCanceled
<1>2. /\ batch' = [batch EXCEPT ![b] =
                     [s EXCEPT !.pc = "done", !.pending = {}, !.delay = 0,
                               !.code = NoCodes(DOMAIN @), !.final = KeepWaiting(s)]]
      /\ UNCHANGED input
  BY DEF WaitCanceled, SendBatchReturns
<1>3. /\ s \in SendBatch /\ batch \in [1 .. Count -> SendBatch]
      /\ DOMAIN s.final = Addresses(b)
      /\ \A t \in Addresses(b) : t \in s.pending <=> s.final[t] = Open
      /\ \A t \in s.pending : s.code[t] \in {"transient", "rate_limited"}
  BY <1>1 DEF Inv, Typed, Sounds, Sound
<1>4. /\ batch'[b].final = KeepWaiting(s)
      /\ \A c \in 1 .. Count : c # b => batch'[c] = batch[c]
  BY <1>1, <1>2, <1>3 DEF SendBatch
<1> HIDE DEF b, s
<1>5. \A t \in Addresses(b) : \A c \in {"ok", "unregistered"} :
        batch'[b].final[t] = c <=> s.final[t] = c
  <2>1. Open \notin {"ok", "unregistered"}
    BY DEF Open
  <2> QED BY <1>3, <1>4, <2>1 DEF KeepWaiting
<1> QED BY <1>2, <1>4, <1>5, SilenceEarns DEF s

LEMMA EarnedKept ==
  ASSUME Inv, Earned, [FcmNext]_fcmVars PROVE Earned'
<1>1. ASSUME NEW w \in DOMAIN worker, Take(w) \/ TimerFires(w) \/ Deliver(w),
             UNCHANGED <<route, said>>
      PROVE  Earned'
  <2>1. UNCHANGED input /\ \A b \in 1 .. Count : batch'[b].final = batch[b].final
    <3>1. CASE Take(w)
      <4>1. next \in 1 .. Count /\ Call(next, batch[next]) /\ UNCHANGED input
        BY <3>1 DEF Take, Batches, Inv, Typed
      <4> QED BY <4>1, CallStep
    <3>2. CASE TimerFires(w)
      <4>1. worker[w] \in 0 .. Count /\ worker[w] # 0 /\ Count \in Nat
        BY <3>2, Cut DEF TimerFires, Inv, Typed
      <4>2. worker[w] \in 1 .. Count
        BY <4>1
      <4>3. Call(worker[w], batch[worker[w]]) /\ UNCHANGED input
        BY <3>2 DEF TimerFires
      <4> QED BY <4>2, <4>3, CallStep
    <3>3. CASE Deliver(w)
      BY <3>3 DEF Deliver
    <3> QED BY <1>1, <3>1, <3>2, <3>3
  <2> QED BY <1>1, <2>1, SilenceEarns
<1>2. ASSUME NEW w \in DOMAIN worker, MessageRefused(w) \/ OtherReturns(w) PROVE Earned'
  <2>1. route' # "fcm"
    BY <1>2 DEF MessageRefused, OtherReturns
  <2> QED BY <2>1 DEF Earned
<1>3. ASSUME NEW w \in DOMAIN worker, FcmStep(w) PROVE Earned'
  BY <1>1, <1>2, <1>3, CancelEarns, AnswersEarn, FailureEarns DEF FcmStep
<1>4. ASSUME UNCHANGED <<input, batch, route, said>> PROVE Earned'
  BY <1>4, SilenceEarns
<1> QED BY <1>3, <1>4 DEF FcmNext, fcmVars, vars, Return, ContextEnds

\* So with the repository's own adapter, which answers each target once, no accepted address
\* is sent to again (sendBatch over fcm.Sender.SendBatch).
THEOREM AdapterSendsOnce == FcmSpec => [](route = "fcm" => AcceptedOnce)
BY AdapterImplements, AcceptedOnceHolds, PTL

\* Through reordering for the multicast, retries of part of a batch and requests that fail, a
\* delivery is reported for just the addresses that FCM accepted, and as unregistered just
\* those that FCM called so.
THEOREM VerdictEarnedHolds == FcmSpec => []VerdictEarned
<1>1. FcmInit => Earned
  <2> SUFFICES ASSUME FcmInit PROVE Earned
    OBVIOUS
  <2>1. Inv
    BY InitInv DEF FcmInit
  <2>2. ASSUME NEW b \in 1 .. Count, NEW t \in Addresses(b)
        PROVE  batch[b].final[t] = Open /\ said[t] = "other"
    <3>1. batch[b] = Queued(Addresses(b)) /\ Addresses(b) \in SUBSET Targets
          /\ Addresses(b) # {}
      BY <2>1, Cut DEF FcmInit, Init, Count, Addresses, Inv, Typed
    <3>2. batch[b].final = NoCodes(Addresses(b))
      BY <3>1, QueuedFacts
    <3> QED BY <3>1, <3>2, TableFacts DEF FcmInit
  <2> QED BY <2>2 DEF Earned, Open
<1>2. Inv /\ Earned /\ [FcmNext]_fcmVars => Earned'
  BY EarnedKept
<1>3. Inv /\ Earned => VerdictEarned
  <2>1. Inv => /\ Batches = 1 .. Count
               /\ \A b \in 1 .. Count : DOMAIN batch[b].final = Addresses(b)
    BY DEF Inv, Typed, Batches, Sounds, Sound
  <2> QED BY <2>1 DEF Earned, VerdictEarned
<1> QED BY <1>1, <1>2, <1>3, FcmInvHolds, PTL DEF FcmSpec

==============================================================================
