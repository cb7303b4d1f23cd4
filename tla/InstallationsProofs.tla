------------------------ MODULE InstallationsProofs ------------------------
(***************************************************************************)
(* Theorems about Installations, for any number of users and devices and   *)
(* any limits: what prune leaves, who owns an address, the fence of an     *)
(* account deletion, and what becomes of markers and of fresh entries.     *)
(***************************************************************************)
EXTENDS Installations, FiniteSetTheorems, FunctionTheorems, TLAPS

------------------------------------------------------------------------------
(* prune *)

\* The entries that compete for the places beside the one just used, and the rank of one.
Rest(map, keep, now) == {d \in Present(map) \ {keep} : ~Expired(map[d], now)}
Before(map, rest, d) == {c \in rest : SeenBefore(map, c, d)}
Rank(map, rest, d) == Cardinality(Before(map, rest, d))

\* SeenBefore is a strict order, in which any two devices are comparable.
LEMMA SeenBeforeOrder ==
  ASSUME NEW map \in [Devices -> Installation]
  PROVE  /\ \A c \in Devices : ~SeenBefore(map, c, c)
         /\ \A c, d, e \in Devices :
              SeenBefore(map, c, d) /\ SeenBefore(map, d, e) => SeenBefore(map, c, e)
         /\ \A c, d \in Devices : c # d => SeenBefore(map, c, d) \/ SeenBefore(map, d, c)
         /\ \A c, d \in Devices : ~SeenBefore(map, c, d)
                                    => map[d].lastSeen <= map[c].lastSeen
<1>1. \A d \in Devices : d \in Int /\ map[d].lastSeen \in Nat
  BY DeviceAssumption DEF Installation, Time
<1> QED BY <1>1 DEF SeenBefore

\* Ranks tell the entries apart, and there are as many as entries.
LEMMA RankFacts ==
  ASSUME NEW map \in [Devices -> Installation], NEW rest \in SUBSET Devices
  PROVE  /\ IsFiniteSet(rest) /\ Cardinality(rest) \in Nat
         /\ \A d \in rest : Rank(map, rest, d) \in 0 .. Cardinality(rest) - 1
         /\ \A c, d \in rest : SeenBefore(map, c, d) => Rank(map, rest, c) < Rank(map, rest, d)
         /\ \A c, d \in rest : Rank(map, rest, c) = Rank(map, rest, d) => c = d
<1>1. IsFiniteSet(rest) /\ Cardinality(rest) \in Nat
  BY DeviceAssumption, FS_Subset, FS_CardinalityType
<1>2. ASSUME NEW d \in rest
      PROVE  /\ Before(map, rest, d) \in SUBSET rest /\ d \notin Before(map, rest, d)
             /\ IsFiniteSet(Before(map, rest, d)) /\ Rank(map, rest, d) \in Nat
  <2>1. Before(map, rest, d) \in SUBSET rest /\ d \notin Before(map, rest, d)
    BY SeenBeforeOrder DEF Before
  <2> QED BY <1>1, <2>1, FS_Subset, FS_CardinalityType DEF Rank
<1>3. ASSUME NEW d \in rest PROVE Rank(map, rest, d) \in 0 .. Cardinality(rest) - 1
  <2>1. Before(map, rest, d) \in SUBSET rest /\ Before(map, rest, d) # rest
    BY <1>2
  <2>2. Rank(map, rest, d) <= Cardinality(rest) /\ Rank(map, rest, d) # Cardinality(rest)
    BY <1>1, <2>1, FS_Subset DEF Rank
  <2> QED BY <1>1, <1>2, <2>2
<1>4. ASSUME NEW c \in rest, NEW d \in rest, SeenBefore(map, c, d)
      PROVE  Rank(map, rest, c) < Rank(map, rest, d)
  <2>1. Before(map, rest, c) \subseteq Before(map, rest, d)
    BY <1>4, SeenBeforeOrder DEF Before
  <2>2. c \in Before(map, rest, d)
    BY <1>4 DEF Before
  <2>3. Before(map, rest, c) \in SUBSET Before(map, rest, d)
        /\ Before(map, rest, c) # Before(map, rest, d)
    BY <1>2, <2>1, <2>2
  <2>4. Rank(map, rest, c) <= Rank(map, rest, d) /\ Rank(map, rest, c) # Rank(map, rest, d)
    BY <1>2, <2>3, FS_Subset DEF Rank
  <2> QED BY <1>2, <2>4
<1>5. ASSUME NEW c \in rest, NEW d \in rest, Rank(map, rest, c) = Rank(map, rest, d), c # d
      PROVE  FALSE
  <2>1. SeenBefore(map, c, d) \/ SeenBefore(map, d, c)
    BY <1>5, SeenBeforeOrder
  <2>2. Rank(map, rest, c) < Rank(map, rest, d) \/ Rank(map, rest, d) < Rank(map, rest, c)
    BY <1>4, <2>1
  <2> QED BY <1>2, <1>5, <2>2
<1> QED BY <1>1, <1>3, <1>4, <1>5

\* The first n ranks.
LEMMA UpTo ==
  ASSUME NEW n \in Nat
  PROVE  IsFiniteSet(0 .. n - 1) /\ Cardinality(0 .. n - 1) = n
<1>1. 0 \in Int /\ n - 1 \in Int
  OBVIOUS
<1>2. /\ IsFiniteSet(0 .. n - 1)
      /\ Cardinality(0 .. n - 1) = IF 0 > n - 1 THEN 0 ELSE n - 1 - 0 + 1
  BY <1>1, FS_Interval
<1> QED BY <1>2

\* So exactly k of them have a rank below k.
LEMMA LowRanks ==
  ASSUME NEW map \in [Devices -> Installation], NEW rest \in SUBSET Devices,
         NEW k \in 0 .. Cardinality(rest)
  PROVE  LET low == {d \in rest : Rank(map, rest, d) < k}
         IN  IsFiniteSet(low) /\ Cardinality(low) = k
<1> DEFINE low == {d \in rest : Rank(map, rest, d) < k}
           n == Cardinality(rest)
           f == [d \in rest |-> Rank(map, rest, d)]
           g == [d \in low |-> Rank(map, rest, d)]
<1>1. IsFiniteSet(rest) /\ n \in Nat /\ IsFiniteSet(low) /\ k \in Nat
  BY RankFacts, FS_Subset
<1>2. f \in Injection(rest, 0 .. n - 1)
  <2>1. f \in [rest -> 0 .. n - 1]
    BY RankFacts
  <2>2. \A c, d \in rest : f[c] = f[d] => c = d
    BY RankFacts
  <2> QED BY <2>1, <2>2, Fun_IsInj
<1>3. f \in Surjection(rest, 0 .. n - 1)
  <2>1. IsFiniteSet(0 .. n - 1) /\ Cardinality(0 .. n - 1) = n
    BY <1>1, UpTo
  <2> QED BY <1>2, <2>1, FS_Injection
<1>4. \A r \in 0 .. k - 1 : \E d \in low : Rank(map, rest, d) = r
  <2> TAKE r \in 0 .. k - 1
  <2>1. r \in 0 .. n - 1
    BY <1>1
  <2>2. PICK d \in rest : f[d] = r
    BY <1>3, <2>1 DEF Surjection
  <2> QED BY <1>1, <2>2
<1>5. g \in Bijection(low, 0 .. k - 1)
  <2>1. g \in [low -> 0 .. k - 1]
    BY RankFacts
  <2>2. \A c, d \in low : g[c] = g[d] => c = d
    BY RankFacts
  <2>3. \A r \in 0 .. k - 1 : \E d \in low : g[d] = r
    BY <1>4
  <2> QED BY <2>1, <2>2, <2>3, Fun_IsBij
<1>6. ExistsBijection(low, 0 .. k - 1)
  BY <1>5 DEF ExistsBijection
<1>7. Cardinality(0 .. k - 1) = Cardinality(low)
  BY <1>1, <1>6, FS_Bijection
<1>8. Cardinality(0 .. k - 1) = k
  BY <1>1, UpTo
<1> QED BY <1>1, <1>7, <1>8

\* prune never takes the entry just used, leaves no more entries than the limit, and takes
\* one that is not too old only from a full map of entries that were seen no earlier.
LEMMA PruneFacts ==
  ASSUME NEW map \in [Devices -> Installation], NEW keep \in Present(map), NEW now
  PROVE  LET gone == Pruned(map, keep, now)
             stays == Present(map) \ gone
         IN  /\ gone \subseteq Present(map) \ {keep}
             /\ IsFiniteSet(stays) /\ Cardinality(stays) <= MaxInstallations
             /\ \A d \in gone :
                  \/ Expired(map[d], now)
                  \/ /\ Cardinality(stays) = MaxInstallations
                     /\ \A e \in stays \ {keep} : map[d].lastSeen <= map[e].lastSeen
<1> DEFINE rest == Rest(map, keep, now)
           left == rest \cup {keep}
           k == OverLimit(left)
           low == {d \in rest : Rank(map, rest, d) < k}
           expired == {d \in Present(map) \ {keep} : Expired(map[d], now)}
           stays == left \ low
<1>1. rest \in SUBSET Devices /\ keep \in Devices /\ keep \notin rest
  BY DEF Rest, Present
<1>2. Present(map) \ expired = left /\ left \ {keep} = rest
  BY DEF Rest
<1>3. Pruned(map, keep, now) = expired \cup low
  BY <1>2 DEF Pruned, Rank, Before
<1>4. /\ Present(map) \ Pruned(map, keep, now) = stays
      /\ Pruned(map, keep, now) \subseteq Present(map) \ {keep}
  BY <1>2, <1>3 DEF Rest
<1>5. /\ IsFiniteSet(rest) /\ Cardinality(rest) \in Nat
      /\ IsFiniteSet(left) /\ Cardinality(left) = Cardinality(rest) + 1
  BY <1>1, RankFacts, FS_AddElement
<1>6. k = Cardinality(rest) + 1 - MaxInstallations /\ MaxInstallations \in Nat \ {0}
  BY <1>5, LimitAssumption DEF OverLimit
<1>7. \A d \in rest : Rank(map, rest, d) \in Nat
  BY <1>1, RankFacts
<1> HIDE DEF rest, k
<1>8. CASE k <= 0
  <2>1. low = {}
    BY <1>5, <1>6, <1>7, <1>8
  <2>2. stays = left
    BY <2>1
  <2>3. IsFiniteSet(stays) /\ Cardinality(stays) <= MaxInstallations
    <3> HIDE DEF left, low, stays
    <3>1. Cardinality(rest) + 1 <= MaxInstallations
      BY <1>5, <1>6, <1>8
    <3> QED BY <1>5, <2>2, <3>1
  <2>4. \A d \in Pruned(map, keep, now) : Expired(map[d], now)
    BY <1>3, <2>1
  <2> QED BY <1>4, <2>3, <2>4
<1>9. CASE k > 0
  <2>1. k \in 0 .. Cardinality(rest)
    BY <1>5, <1>6, <1>9
  <2>2. IsFiniteSet(low) /\ Cardinality(low) = k
    BY <1>1, <2>1, LowRanks
  <2>3. IsFiniteSet(stays) /\ Cardinality(stays) = Cardinality(left) - Cardinality(left \cap low)
    BY <1>5, FS_Difference
  <2>4. left \cap low = low
    OBVIOUS
  <2>5. Cardinality(stays) = MaxInstallations
    <3> HIDE DEF left, low, stays
    <3>1. Cardinality(left \cap low) = k
      BY <2>2, <2>4
    <3>2. Cardinality(stays) = Cardinality(left) - k
      BY <2>3, <3>1
    <3>3. Cardinality(stays) = Cardinality(rest) + 1 - k
      BY <1>5, <1>6, <3>2
    <3> QED BY <1>5, <1>6, <3>3
  <2>6. ASSUME NEW d \in low, NEW e \in stays \ {keep}
        PROVE  map[d].lastSeen <= map[e].lastSeen
    <3>1. d \in rest /\ e \in rest /\ Rank(map, rest, d) < k /\ ~(Rank(map, rest, e) < k)
      OBVIOUS
    <3>2. ~(Rank(map, rest, e) < Rank(map, rest, d))
      BY <1>5, <1>6, <1>7, <3>1
    <3>3. ~SeenBefore(map, e, d)
      BY <1>1, <3>1, <3>2, RankFacts
    <3> QED BY <1>1, <3>1, <3>3, SeenBeforeOrder
  <2>7. MaxInstallations <= MaxInstallations
    BY LimitAssumption
  <2> HIDE DEF low, stays, expired
  <2>8. \A d \in Pruned(map, keep, now) : d \in low \/ Expired(map[d], now)
    BY <1>3 DEF expired
  <2>9. \A d \in Pruned(map, keep, now) :
          \/ Expired(map[d], now)
          \/ \A e \in stays \ {keep} : map[d].lastSeen <= map[e].lastSeen
    BY <2>6, <2>8
  <2> DEFINE kept == Present(map) \ Pruned(map, keep, now)
  <2>10. kept = stays /\ Pruned(map, keep, now) \subseteq Present(map) \ {keep}
    BY <1>4
  <2> HIDE DEF kept
  <2>11. /\ IsFiniteSet(kept) /\ Cardinality(kept) <= MaxInstallations
         /\ \A d \in Pruned(map, keep, now) :
              \/ Expired(map[d], now)
              \/ /\ Cardinality(kept) = MaxInstallations
                 /\ \A e \in kept \ {keep} : map[d].lastSeen <= map[e].lastSeen
    BY <2>3, <2>5, <2>7, <2>9, <2>10
  <2> QED BY <2>10, <2>11 DEF kept
<1>10. k <= 0 \/ k > 0
  BY <1>5, <1>6
<1> HIDE DEF left, low, expired, stays
<1> QED BY <1>8, <1>9, <1>10

------------------------------------------------------------------------------
(* Changes of one installation map *)

\* What holds of the map of every user.
Sane(map) ==
  /\ map \in [Devices -> Installation]
  /\ Cardinality(Present(map)) <= MaxInstallations
  /\ \A d \in Devices :
       /\ map[d].address => map[d].present
       /\ map[d].present => (map[d].enabled <=> map[d].disabledAt = Never)
       /\ ~map[d].present => map[d].marker = NoMarker

\* What leaves a map, and what its markers become (the bodies of FreshestKept and
\* MarkersKept).
Justified(map, next, at) ==
  \A d \in Present(map) \ Present(next) :
    \/ at - map[d].lastSeen > Retention
    \/ ~map[d].enabled /\ at - map[d].disabledAt > DisabledRetention
    \/ /\ Cardinality(Present(next)) = MaxInstallations
       /\ Cardinality({e \in Present(next) : next[e].lastSeen < map[d].lastSeen}) <= 1

Remembered(map, next) ==
  \A d \in Devices :
    map[d].marker # NoMarker /\ next[d].present => next[d].marker # NoMarker

NoEntries == [d \in Devices |-> Absent]

\* A document without installations is sane.
LEMMA NoEntriesSane ==
  Sane(NoEntries) /\ Present(NoEntries) = {}
<1>1. Absent \in Installation
  BY DEF Absent, Installation, Never, Time
<1>2. NoEntries \in [Devices -> Installation] /\ \A d \in Devices : NoEntries[d] = Absent
  BY <1>1 DEF NoEntries
<1>3. Present(NoEntries) = {}
  BY <1>2 DEF Present, Absent
<1>4. Cardinality(Present(NoEntries)) <= MaxInstallations
  BY <1>3, FS_EmptySet, LimitAssumption
<1>5. \A d \in Devices : ~NoEntries[d].address /\ ~NoEntries[d].present
                           /\ NoEntries[d].marker = NoMarker
  BY <1>2 DEF Absent
<1> QED BY <1>2, <1>3, <1>4, <1>5 DEF Sane

\* retire clears addresses and takes no entry and no marker away.
LEMMA RetireFacts ==
  ASSUME NEW map, Sane(map), NEW ids, NEW now \in Nat \ {0}
  PROVE  LET next == RetireIn(map, ids, now)
         IN  /\ Sane(next)
             /\ Present(next) = Present(map)
             /\ \A d \in Devices : next[d].address => map[d].address /\ d \notin ids
             /\ \A at : Justified(map, next, at)
             /\ Remembered(map, next)
<1> DEFINE next == RetireIn(map, ids, now)
<1>1. map \in [Devices -> Installation]
  BY DEF Sane
<1>2. \A d \in Devices : Retired(map[d], now) \in Installation
        /\ Retired(map[d], now).present = map[d].present
        /\ Retired(map[d], now).address = FALSE
        /\ Retired(map[d], now).enabled = FALSE
        /\ Retired(map[d], now).disabledAt = now
        /\ Retired(map[d], now).marker = map[d].marker
  BY <1>1 DEF Retired, Installation, Time
<1>3. next \in [Devices -> Installation]
      /\ \A d \in Devices :
           next[d] = IF d \in ids \cap Present(map) THEN Retired(map[d], now) ELSE map[d]
  BY <1>1, <1>2 DEF RetireIn
<1> HIDE DEF next
<1>4. \A d \in Devices : next[d].present = map[d].present /\ next[d].marker = map[d].marker
  BY <1>2, <1>3
<1>5. Present(next) = Present(map)
  BY <1>4 DEF Present
<1>6. \A d \in Devices : next[d].address => map[d].address /\ d \notin ids
  BY <1>2, <1>3 DEF Present, Sane
<1>7. \A d \in Devices : next[d].present => (next[d].enabled <=> next[d].disabledAt = Never)
  BY <1>2, <1>3 DEF Sane, Never
<1>8. Sane(next)
  BY <1>3, <1>4, <1>5, <1>6, <1>7 DEF Sane
<1>9. (\A at : Justified(map, next, at)) /\ Remembered(map, next)
  BY <1>4, <1>5 DEF Justified, Remembered
<1> QED BY <1>5, <1>6, <1>8, <1>9 DEF next

\* An entry is written and the map is pruned, as registrations and heartbeats do.
Settled(map, d, entry, now) ==
  LET mine == [map EXCEPT ![d] = entry]
  IN  Without(mine, Pruned(mine, d, now))

\* What the map is afterwards: the entry written is there, each other one is as it was or
\* has been pruned, and what was pruned was too old or not among the last seen.
LEMMA SettledFacts ==
  ASSUME NEW map, Sane(map), NEW d \in Devices, NEW entry \in Installation,
         entry.present, entry.enabled <=> entry.disabledAt = Never,
         map[d].marker # NoMarker => entry.marker # NoMarker,
         NEW now \in Nat, NEW at \in Nat, now <= at
  PROVE  LET next == Settled(map, d, entry, now)
             gone == Pruned([map EXCEPT ![d] = entry], d, now)
         IN  /\ Sane(next)
             /\ d \notin gone /\ next[d] = entry
             /\ \A e \in gone : ~next[e].address
             /\ \A e \in Devices \ gone : e # d => next[e] = map[e]
             /\ Justified(map, next, at)
             /\ Remembered(map, next)
<1> DEFINE mine == [map EXCEPT ![d] = entry]
           gone == Pruned(mine, d, now)
           next == Settled(map, d, entry, now)
           kept == Present(mine) \ gone
<1>1. mine \in [Devices -> Installation]
  BY DEF Sane
<1>2. mine[d] = entry /\ \A e \in Devices : e # d => mine[e] = map[e]
  BY DEF Sane
<1>3. next = Without(mine, gone)
  BY DEF Settled
<1> HIDE DEF mine, next
<1>4. d \in Present(mine)
  BY <1>2 DEF Present
<1>5. /\ gone \subseteq Present(mine) \ {d}
      /\ IsFiniteSet(kept) /\ Cardinality(kept) <= MaxInstallations
      /\ \A e \in gone :
           \/ Expired(mine[e], now)
           \/ /\ Cardinality(kept) = MaxInstallations
              /\ \A c \in kept \ {d} : mine[e].lastSeen <= mine[c].lastSeen
  BY <1>1, <1>4, PruneFacts
<1> HIDE DEF gone
<1>6. /\ next \in [Devices -> Installation]
      /\ \A e \in gone : next[e] = Absent
      /\ \A e \in Devices \ gone : next[e] = mine[e]
  <2>1. Absent \in Installation
    BY DEF Absent, Installation, Never, Time
  <2>2. gone \subseteq Devices
    BY <1>5 DEF Present
  <2> QED BY <1>1, <1>3, <2>1, <2>2 DEF Without
<1>7. Present(next) = kept
  BY <1>5, <1>6 DEF Present, Absent
<1>8. d \notin gone /\ gone \subseteq Devices
  BY <1>5 DEF Present
<1>9. /\ next[d] = entry
      /\ \A e \in Devices \ gone : e # d => next[e] = map[e]
  BY <1>2, <1>6, <1>8
<1>10. \A e \in gone : ~next[e].address /\ ~next[e].present /\ next[e].marker = NoMarker
  BY <1>6 DEF Absent
<1>11. Sane(next)
  <2>1. \A e \in Devices :
          /\ next[e].address => next[e].present
          /\ next[e].present => (next[e].enabled <=> next[e].disabledAt = Never)
          /\ ~next[e].present => next[e].marker = NoMarker
    BY <1>9, <1>10 DEF Sane
  <2>2. Cardinality(Present(next)) <= MaxInstallations
    BY <1>5, <1>7
  <2> QED BY <1>6, <2>1, <2>2 DEF Sane
<1>12. Remembered(map, next)
  BY <1>9, <1>10 DEF Remembered
<1>13. Justified(map, next, at)
  <2> SUFFICES ASSUME NEW e \in Present(map) \ Present(next),
                      ~(at - map[e].lastSeen > Retention),
                      ~(~map[e].enabled /\ at - map[e].disabledAt > DisabledRetention)
               PROVE  /\ Cardinality(Present(next)) = MaxInstallations
                      /\ Cardinality({c \in Present(next) :
                                        next[c].lastSeen < map[e].lastSeen}) <= 1
    BY DEF Justified
  <2>1. e \in Devices /\ e \in gone /\ e # d /\ mine[e] = map[e]
    BY <1>2, <1>6, <1>8, <1>9 DEF Present
  <2>2. map[e].lastSeen \in Nat /\ map[e].disabledAt \in Nat
    BY <2>1 DEF Sane, Installation, Time
  <2>3. ~Expired(mine[e], now)
    BY <2>1, <2>2, WindowAssumption DEF Expired
  <2>4. /\ Cardinality(kept) = MaxInstallations
        /\ \A c \in kept \ {d} : map[e].lastSeen <= mine[c].lastSeen
    BY <1>5, <2>1, <2>3
  <2>5. \A c \in Present(next) : next[c].lastSeen \in Nat
    BY <1>6 DEF Present, Installation, Time
  <2>6. \A c \in Present(next) \ {d} : map[e].lastSeen <= next[c].lastSeen
    BY <1>6, <1>7, <2>4 DEF Present
  <2> DEFINE older == {c \in Present(next) : next[c].lastSeen < map[e].lastSeen}
  <2>7. older \subseteq {d}
    BY <2>2, <2>5, <2>6
  <2> HIDE DEF older
  <2>8. IsFiniteSet({d}) /\ Cardinality({d}) = 1
    BY FS_Singleton
  <2>9. Cardinality(older) <= 1
    BY <2>7, <2>8, FS_Subset
  <2> QED BY <1>7, <2>4, <2>9 DEF older
<1> HIDE DEF kept
<1> QED BY <1>8, <1>9, <1>10, <1>11, <1>12, <1>13 DEF gone, next, mine

------------------------------------------------------------------------------
(* The inductive invariant *)

Typed ==
  /\ users \subseteq Users
  /\ inst \in [Users -> [Devices -> Installation]]
  /\ owner \in [Devices -> Users \cup {Nobody}]
  /\ deletion \in [Users -> Deletion]
  /\ clock \in Nat \ {0}

\* The map of each user is sane, and empty without a user document.
Maps ==
  /\ \A u \in Users : Sane(inst[u])
  /\ \A u \in Users \ users : inst[u] = NoEntries

\* Owner records go only while the account is torn.
TornWhileDeleting ==
  \A u \in Users : deletion[u].phase = "deleting" => deletion[u].torn

\* Behind the fence no owner record of the user is added to those that were listed.
Sealed ==
  \A u \in Users :
    FenceConfigured /\ deletion[u].sealed
      => /\ deletion[u].request = "blocked"
         /\ deletion[u].phase # "idle"
         /\ \A d \in Devices :
              owner[d] = u => deletion[u].phase = "deleting" /\ d \in deletion[u].pending

Inv == Typed /\ Maps /\ TornWhileDeleting /\ AddressOwned /\ Sealed

\* What a step may do to entries and markers (FreshestKept and MarkersKept).
Changes ==
  /\ \A u \in users' : Justified(inst[u], inst'[u], clock)
  /\ \A u \in Users : Remembered(inst[u], inst'[u])

LEMMA InitInv == Init => Inv
<1> SUFFICES ASSUME Init PROVE Inv
  OBVIOUS
<1>1. inst = [u \in Users |-> NoEntries] /\ \A u \in Users : inst[u] = NoEntries
  BY DEF Init, NoEntries
<1>2. Maps
  BY <1>1, NoEntriesSane DEF Maps
<1>3. Typed
  <2>1. NoEntries \in [Devices -> Installation]
    BY NoEntriesSane DEF Sane
  <2>2. NoDeletion \in Deletion
    BY DEF NoDeletion, Deletion
  <2> QED BY <1>1, <2>1, <2>2 DEF Init, Typed
<1>4. TornWhileDeleting /\ Sealed
  BY DEF Init, NoDeletion, TornWhileDeleting, Sealed
<1>5. AddressOwned
  BY <1>1 DEF AddressOwned, NoEntries, Absent
<1> QED BY <1>2, <1>3, <1>4, <1>5 DEF Inv

\* A step that leaves the maps alone changes nothing in them.
LEMMA SameMaps ==
  ASSUME Inv, inst' = inst PROVE Changes
BY DEF Inv, Typed, Changes, Justified, Remembered

\* A registration moves the address: the prior owner's entry loses it, the owner record
\* follows, and the records of the pruned entries go.  The fence keeps out the accounts
\* whose deletion has listed its records.
LEMMA UpsertKeeps ==
  ASSUME Inv, NEW u \in Users, NEW d \in Devices, NEW enabled \in BOOLEAN,
         NEW granted \in BOOLEAN, NEW now \in Stamps,
         UpsertPushInstallation(u, d, enabled, granted, now)
  PROVE  Inv' /\ Changes
<1> DEFINE new == NewInstallation(enabled, granted, now)
           entry == IF inst[u][d].present
                      THEN PreserveRegistrationState(inst[u][d], new)
                      ELSE new
           mine == [inst[u] EXCEPT ![d] = entry]
           pruned == Pruned(mine, d, now)
<1>1. /\ now \in Nat \ {0} /\ now <= clock /\ clock \in Nat
      /\ Sane(inst[u]) /\ inst[u] \in [Devices -> Installation]
  BY DEF Stamps, Inv, Typed, Maps
<1>2. new \in Installation /\ new.present /\ (new.enabled <=> new.disabledAt = Never)
  BY <1>1 DEF NewInstallation, Installation, Never, Time
<1>3. /\ entry \in Installation /\ entry.present
      /\ entry.enabled <=> entry.disabledAt = Never
      /\ inst[u][d].marker # NoMarker => entry.marker # NoMarker
  <2>1. CASE inst[u][d].present
    <3>1. entry = [new EXCEPT !.marker = inst[u][d].marker]
      BY <2>1 DEF PreserveRegistrationState
    <3>2. inst[u][d].marker \in Markers \cup {NoMarker}
      BY <1>1 DEF Installation
    <3> HIDE DEF entry, new
    <3> QED BY <1>2, <3>1, <3>2 DEF Installation
  <2>2. CASE ~inst[u][d].present
    <3>1. inst[u][d].marker = NoMarker
      BY <1>1, <2>2 DEF Sane
    <3> QED BY <1>2, <2>2, <3>1
  <2> QED BY <2>1, <2>2
<1>4. /\ ~Fenced(u)
      /\ users' = users \cup {u}
      /\ inst' = [v \in Users |->
                    IF v = u THEN Settled(inst[u], d, entry, now)
                    ELSE IF v = owner[d] THEN RetireIn(inst[v], {d}, now)
                    ELSE inst[v]]
      /\ owner' = [e \in Devices |->
                     IF e = d THEN u
                     ELSE IF e \in OwnedPruned(u, pruned) THEN Nobody
                     ELSE owner[e]]
      /\ UNCHANGED <<deletion, clock>>
  BY DEF UpsertPushInstallation, Settled, ReleasePrior
<1> HIDE DEF entry
<1>5. /\ Sane(inst'[u])
      /\ d \notin pruned /\ inst'[u][d] = entry
      /\ \A e \in pruned : ~inst'[u][e].address
      /\ \A e \in Devices \ pruned : e # d => inst'[u][e] = inst[u][e]
      /\ Justified(inst[u], inst'[u], clock)
      /\ Remembered(inst[u], inst'[u])
  <2>1. inst'[u] = Settled(inst[u], d, entry, now)
    BY <1>4
  <2> DEFINE next == Settled(inst[u], d, entry, now)
  <2>2. /\ Sane(next)
        /\ d \notin pruned /\ next[d] = entry
        /\ \A e \in pruned : ~next[e].address
        /\ \A e \in Devices \ pruned : e # d => next[e] = inst[u][e]
        /\ Justified(inst[u], next, clock)
        /\ Remembered(inst[u], next)
    <3> HIDE DEF new
    <3> QED BY <1>1, <1>3, SettledFacts
  <2> HIDE DEF next, pruned
  <2> QED BY <2>1, <2>2 DEF next
<1> HIDE DEF pruned
<1>6. ASSUME NEW v \in Users, v # u
      PROVE  /\ Sane(inst'[v])
             /\ Present(inst'[v]) = Present(inst[v])
             /\ \A e \in Devices : inst'[v][e].address
                  => inst[v][e].address /\ (v = owner[d] => e # d)
             /\ Justified(inst[v], inst'[v], clock)
             /\ Remembered(inst[v], inst'[v])
  <2>1. Sane(inst[v])
    BY DEF Inv, Maps
  <2>2. CASE v = owner[d]
    <3>1. inst'[v] = RetireIn(inst[v], {d}, now)
      BY <1>4, <1>6, <2>2
    <3> QED BY <1>1, <2>1, <3>1, RetireFacts
  <2>3. CASE v # owner[d]
    <3>1. inst'[v] = inst[v]
      BY <1>4, <1>6, <2>3
    <3> QED BY <2>1, <2>3, <3>1 DEF Justified, Remembered
  <2> QED BY <2>2, <2>3
<1>7. Maps'
  <2>1. \A v \in Users : Sane(inst'[v])
    BY <1>5, <1>6
  <2>2. ASSUME NEW v \in Users \ users' PROVE inst'[v] = NoEntries
    <3>1. v # u /\ v \notin users
      BY <1>4
    <3>2. inst[v] = NoEntries
      BY <3>1 DEF Inv, Maps
    <3>3. CASE v # owner[d]
      BY <1>4, <3>1, <3>2, <3>3
    <3>4. CASE v = owner[d]
      <4>1. inst'[v] = RetireIn(NoEntries, {d}, now)
        BY <1>4, <3>1, <3>2, <3>4
      <4>2. RetireIn(NoEntries, {d}, now) = [e \in Devices |-> NoEntries[e]]
        BY NoEntriesSane DEF RetireIn
      <4> QED BY <4>1, <4>2 DEF NoEntries
    <3> QED BY <3>3, <3>4
  <2> QED BY <2>1, <2>2 DEF Maps
<1>8. Typed'
  <2>1. users' \subseteq Users /\ deletion' = deletion /\ clock' = clock
    BY <1>4 DEF Inv, Typed
  <2>2. owner' \in [Devices -> Users \cup {Nobody}]
    BY <1>4 DEF Inv, Typed
  <2>3. \A v \in Users : inst'[v] \in [Devices -> Installation]
    BY <1>7 DEF Maps, Sane
  <2>4. inst' \in [Users -> [Devices -> Installation]]
    BY <1>4, <2>3
  <2> QED BY <2>1, <2>2, <2>4 DEF Inv, Typed
<1>9. AddressOwned'
  <2> SUFFICES ASSUME NEW v \in Users, NEW e \in Devices,
                      inst'[v][e].address, ~deletion[v].torn
               PROVE  owner'[e] = v
    BY <1>4 DEF AddressOwned
  <2>1. CASE v = u /\ e = d
    BY <1>4, <2>1
  <2>2. CASE v = u /\ e # d
    <3>1. e \notin pruned /\ inst[u][e].address
      BY <1>5, <2>2
    <3>2. owner[e] = u
      BY <2>2, <3>1 DEF Inv, AddressOwned
    <3> QED BY <1>4, <2>2, <3>1, <3>2 DEF OwnedPruned
  <2>3. CASE v # u
    <3>1. inst[v][e].address /\ (v = owner[d] => e # d)
      BY <1>6, <2>3
    <3>2. owner[e] = v
      BY <3>1 DEF Inv, AddressOwned
    <3> QED BY <1>4, <2>3, <3>1, <3>2 DEF OwnedPruned
  <2> QED BY <2>1, <2>2, <2>3
<1>10. Sealed'
  <2> SUFFICES ASSUME NEW v \in Users, FenceConfigured, deletion[v].sealed
               PROVE  /\ deletion[v].request = "blocked"
                      /\ deletion[v].phase # "idle"
                      /\ \A e \in Devices : owner'[e] = v
                           => deletion[v].phase = "deleting" /\ e \in deletion[v].pending
    BY <1>4 DEF Sealed
  <2>1. /\ deletion[v].request = "blocked"
        /\ deletion[v].phase # "idle"
        /\ \A e \in Devices : owner[e] = v
             => deletion[v].phase = "deleting" /\ e \in deletion[v].pending
    BY DEF Inv, Sealed
  <2>2. v # u
    BY <1>4, <2>1 DEF Fenced
  <2>3. \A e \in Devices : owner'[e] = v => owner[e] = v
    BY <1>4, <2>2, UserAssumption
  <2> QED BY <2>1, <2>3
<1>11. Changes
  <2>1. users' \subseteq Users
    BY <1>8 DEF Typed
  <2>2. \A v \in Users : Justified(inst[v], inst'[v], clock) /\ Remembered(inst[v], inst'[v])
    BY <1>5, <1>6
  <2> QED BY <2>1, <2>2 DEF Changes
<1>12. TornWhileDeleting'
  BY <1>4 DEF Inv, TornWhileDeleting
<1> QED BY <1>7, <1>8, <1>9, <1>10, <1>11, <1>12 DEF Inv

\* A heartbeat writes the entry of a device that has an address, and prunes.
LEMMA HeartbeatKeeps ==
  ASSUME Inv, NEW u \in Users, NEW d \in Devices, NEW switch \in {"keep", "on", "off"},
         NEW granted \in BOOLEAN, NEW now \in Stamps,
         HeartbeatPushInstallation(u, d, switch, granted, now)
  PROVE  Inv' /\ Changes
<1> DEFINE old == inst[u][d]
           on == CASE switch = "on" -> TRUE [] switch = "off" -> FALSE [] OTHER -> old.enabled
           since == CASE switch = "on" -> Never
                      [] switch = "off" -> now
                      [] OTHER -> old.disabledAt
           entry == [inst[u][d] EXCEPT
                       !.granted = granted,
                       !.enabled = CASE switch = "on" -> TRUE
                                     [] switch = "off" -> FALSE
                                     [] OTHER -> @,
                       !.disabledAt = CASE switch = "on" -> Never
                                        [] switch = "off" -> now
                                        [] OTHER -> @,
                       !.lastSeen = now]
           pruned == Pruned([inst[u] EXCEPT ![d] = entry], d, now)
<1>1. /\ now \in Nat \ {0} /\ now <= clock /\ clock \in Nat
      /\ Sane(inst[u]) /\ inst[u] \in [Devices -> Installation] /\ inst[u][d] \in Installation
  BY DEF Stamps, Inv, Typed, Maps
<1>2. /\ inst[u][d].address
      /\ inst' = [inst EXCEPT ![u] = Settled(inst[u], d, entry, now)]
      /\ owner' = [e \in Devices |->
                     IF e \in OwnedPruned(u, pruned) THEN Nobody ELSE owner[e]]
      /\ UNCHANGED <<users, deletion, clock>>
  BY DEF HeartbeatPushInstallation, Settled
<1>3. inst[u][d].present
  BY <1>1, <1>2 DEF Sane
<1>4. /\ entry \in Installation /\ entry.present
      /\ entry.enabled <=> entry.disabledAt = Never
      /\ inst[u][d].marker # NoMarker => entry.marker # NoMarker
      /\ entry.address
  <2>1. on \in BOOLEAN /\ since \in Time
    BY <1>1 DEF Installation, Time, Never
  <2>2. on <=> since = Never
    BY <1>1, <1>3 DEF Sane, Never
  <2>3. entry = [inst[u][d] EXCEPT !.granted = granted, !.enabled = on,
                                   !.disabledAt = since, !.lastSeen = now]
    OBVIOUS
  <2>4. now \in Time
    BY <1>1 DEF Time
  <2> HIDE DEF entry, on, since
  <2> QED BY <1>1, <1>2, <1>3, <2>1, <2>2, <2>3, <2>4 DEF Installation
<1> HIDE DEF entry
<1>5. /\ Sane(inst'[u])
      /\ d \notin pruned /\ inst'[u][d] = entry
      /\ \A e \in pruned : ~inst'[u][e].address
      /\ \A e \in Devices \ pruned : e # d => inst'[u][e] = inst[u][e]
      /\ Justified(inst[u], inst'[u], clock)
      /\ Remembered(inst[u], inst'[u])
  <2> DEFINE next == Settled(inst[u], d, entry, now)
  <2>1. inst'[u] = next
    BY <1>2 DEF Inv, Typed
  <2>2. /\ Sane(next)
        /\ d \notin pruned /\ next[d] = entry
        /\ \A e \in pruned : ~next[e].address
        /\ \A e \in Devices \ pruned : e # d => next[e] = inst[u][e]
        /\ Justified(inst[u], next, clock)
        /\ Remembered(inst[u], next)
    BY <1>1, <1>4, SettledFacts
  <2> HIDE DEF next, pruned
  <2> QED BY <2>1, <2>2
<1> HIDE DEF pruned
<1>6. \A v \in Users : v # u => inst'[v] = inst[v]
  BY <1>2 DEF Inv, Typed
<1>7. u \in users
  <2>1. ~NoEntries[d].address
    BY DEF NoEntries, Absent
  <2> QED BY <1>2, <2>1 DEF Inv, Maps
<1>8. Maps'
  BY <1>2, <1>5, <1>6, <1>7 DEF Inv, Maps
<1>9. Typed'
  <2>1. users' \subseteq Users /\ deletion' = deletion /\ clock' = clock
    BY <1>2 DEF Inv, Typed
  <2>2. owner' \in [Devices -> Users \cup {Nobody}]
    BY <1>2 DEF Inv, Typed
  <2>3. Settled(inst[u], d, entry, now) \in [Devices -> Installation]
    BY <1>2, <1>5 DEF Sane, Inv, Typed
  <2>4. inst' \in [Users -> [Devices -> Installation]]
    BY <1>2, <2>3 DEF Inv, Typed
  <2> QED BY <2>1, <2>2, <2>4 DEF Inv, Typed
<1>10. AddressOwned'
  <2> SUFFICES ASSUME NEW v \in Users, NEW e \in Devices,
                      inst'[v][e].address, ~deletion[v].torn
               PROVE  owner'[e] = v
    BY <1>2 DEF AddressOwned
  <2>1. inst[v][e].address /\ (v = u => e \notin pruned)
    BY <1>2, <1>5, <1>6
  <2>2. owner[e] = v
    BY <2>1 DEF Inv, AddressOwned
  <2> QED BY <1>2, <2>1, <2>2 DEF OwnedPruned
<1>11. Sealed'
  <2>1. \A v \in Users, e \in Devices : owner'[e] = v => owner[e] = v
    BY <1>2, UserAssumption
  <2> QED BY <1>2, <2>1 DEF Inv, Sealed
<1>12. Changes
  <2>1. ASSUME NEW v \in Users
        PROVE  Justified(inst[v], inst'[v], clock) /\ Remembered(inst[v], inst'[v])
    <3>1. CASE v = u
      BY <1>5, <3>1
    <3>2. CASE v # u
      BY <1>6, <3>2 DEF Justified, Remembered
    <3> QED BY <3>1, <3>2
  <2> QED BY <1>9, <2>1 DEF Changes, Typed
<1>13. TornWhileDeleting'
  BY <1>2 DEF Inv, TornWhileDeleting
<1> QED BY <1>8, <1>9, <1>10, <1>11, <1>12, <1>13 DEF Inv

\* A step that changes one map, without new addresses and leaving owner records alone.
LEMMA OneMapKeeps ==
  ASSUME Inv, NEW u \in users, NEW map, inst' = [inst EXCEPT ![u] = map],
         Sane(map), \A d \in Devices : map[d].address => inst[u][d].address,
         Justified(inst[u], map, clock), Remembered(inst[u], map),
         UNCHANGED <<users, owner, deletion, clock>>
  PROVE  Inv' /\ Changes
<1>1. u \in Users /\ map \in [Devices -> Installation]
  BY DEF Inv, Typed, Sane
<1>2. inst'[u] = map /\ \A v \in Users : v # u => inst'[v] = inst[v]
  BY <1>1 DEF Inv, Typed
<1>3. Typed'
  BY <1>1 DEF Inv, Typed
<1>4. Maps'
  BY <1>2 DEF Inv, Maps
<1>5. AddressOwned'
  <2>1. \A v \in Users, d \in Devices : inst'[v][d].address => inst[v][d].address
    BY <1>2
  <2> QED BY <2>1 DEF Inv, AddressOwned
<1>6. Sealed' /\ TornWhileDeleting'
  BY DEF Inv, Sealed, TornWhileDeleting
<1>7. Changes
  <2>1. \A v \in Users : v # u => Justified(inst[v], inst'[v], clock)
                                    /\ Remembered(inst[v], inst'[v])
    BY <1>2 DEF Justified, Remembered
  <2> QED BY <1>2, <1>3, <2>1 DEF Changes, Typed
<1> QED BY <1>3, <1>4, <1>5, <1>6, <1>7 DEF Inv

\* Disabling retires entries and keeps their owner records.
LEMMA DisableKeeps ==
  ASSUME Inv, NEW u \in Users, NEW ids \in SUBSET Devices, NEW now \in Stamps,
         Disable(u, ids, now)
  PROVE  Inv' /\ Changes
<1>1. now \in Nat \ {0} /\ Sane(inst[u])
  BY DEF Stamps, Inv, Typed, Maps
<1>2. u \in users
  BY NoEntriesSane DEF Disable, Inv, Maps
<1> DEFINE map == RetireIn(inst[u], ids, now)
<1>3. /\ Sane(map)
      /\ \A d \in Devices : map[d].address => inst[u][d].address
      /\ Justified(inst[u], map, clock) /\ Remembered(inst[u], map)
  BY <1>1, RetireFacts
<1>4. inst' = [inst EXCEPT ![u] = map] /\ UNCHANGED <<users, owner, deletion, clock>>
  BY DEF Disable
<1> HIDE DEF map
<1> QED BY <1>2, <1>3, <1>4, OneMapKeeps

\* A delivery marks entries that have an address.
LEMMA MarkKeeps ==
  ASSUME Inv, NEW u \in Users, NEW ids \in SUBSET Devices, NEW value \in Markers,
         MarkPushInstallationsDelivered(u, ids, value)
  PROVE  Inv' /\ Changes
<1> DEFINE fresh == {d \in ids : inst[u][d].address /\ inst[u][d].marker # value}
           map == [d \in Devices |-> IF d \in fresh THEN [inst[u][d] EXCEPT !.marker = value]
                                     ELSE inst[u][d]]
<1>1. Sane(inst[u]) /\ inst[u] \in [Devices -> Installation]
  BY DEF Inv, Typed, Maps
<1>2. u \in users
  <2>1. \A d \in Devices : ~NoEntries[d].address
    BY DEF NoEntries, Absent
  <2> QED BY <2>1 DEF MarkPushInstallationsDelivered, Inv, Maps
<1>3. inst' = [inst EXCEPT ![u] = map] /\ UNCHANGED <<users, owner, deletion, clock>>
  BY <1>1 DEF MarkPushInstallationsDelivered, Inv, Typed
<1>4. ASSUME NEW d \in Devices
      PROVE  /\ map[d] \in Installation
             /\ map[d].present = inst[u][d].present /\ map[d].address = inst[u][d].address
             /\ map[d].enabled = inst[u][d].enabled
             /\ map[d].disabledAt = inst[u][d].disabledAt
             /\ map[d].marker \in {value, inst[u][d].marker}
             /\ map[d].marker # inst[u][d].marker => inst[u][d].present
  <2>1. inst[u][d] \in Installation /\ (inst[u][d].address => inst[u][d].present)
    BY <1>1 DEF Sane
  <2>2. CASE d \in fresh
    <3>1. map[d] = [inst[u][d] EXCEPT !.marker = value] /\ inst[u][d].address
      BY <2>2
    <3> HIDE DEF map, fresh
    <3> QED BY <2>1, <3>1 DEF Installation
  <2>3. CASE d \notin fresh
    BY <2>1, <2>3
  <2> QED BY <2>2, <2>3
<1>5. map \in [Devices -> Installation]
  BY <1>4
<1> HIDE DEF map
<1>6. Present(map) = Present(inst[u])
  BY <1>4 DEF Present
<1>7. Sane(map)
  BY <1>1, <1>4, <1>5, <1>6 DEF Sane
<1>8. Justified(inst[u], map, clock)
  BY <1>6 DEF Justified
<1>9. Remembered(inst[u], map)
  BY <1>4, MarkerAssumption DEF Remembered
<1> QED BY <1>2, <1>3, <1>4, <1>7, <1>8, <1>9, OneMapKeeps

\* The steps of an account deletion that leave all maps alone.
LEMMA DeletionKeeps ==
  ASSUME Inv, NEW u \in Leavers,
         \/ \E status \in {"none", "blocked"} : SetRequest(u, status)
         \/ ListOwners(u)
         \/ \E d \in Devices : DeleteOwner(u, d) \/ DeleteOwnerFails(u, d)
         \/ OwnersDeleted(u)
  PROVE  Inv'
<1> USE DEF Inv, Typed
<1>1. u \in Users
  BY BoundAssumption
<1>2. inst' = inst /\ users' = users /\ clock' = clock
  BY DEF SetRequest, ListOwners, DeleteOwner, DeleteOwnerFails, OwnersDeleted
<1>3. Maps'
  BY <1>2 DEF Maps
<1>4. ASSUME NEW status \in {"none", "blocked"}, SetRequest(u, status) PROVE Inv'
  <2> DEFINE next == [deletion[u] EXCEPT !.request = status, !.sealed = FALSE]
  <2>1. deletion' = [deletion EXCEPT ![u] = next] /\ owner' = owner
    BY <1>1, <1>4 DEF SetRequest
  <2>2. /\ next \in Deletion /\ ~next.sealed
        /\ next.phase = deletion[u].phase /\ next.torn = deletion[u].torn
    BY <1>1 DEF Deletion
  <2> HIDE DEF next
  <2>3. Typed'
    BY <1>1, <1>2, <2>1, <2>2
  <2>4. deletion'[u] = next /\ \A v \in Users : v # u => deletion'[v] = deletion[v]
    BY <1>1, <2>1
  <2> QED BY <1>2, <1>3, <2>1, <2>2, <2>3, <2>4 DEF TornWhileDeleting, AddressOwned, Sealed
<1>5. ASSUME ListOwners(u) PROVE Inv'
  <2> DEFINE listed == {d \in Devices : owner[d] = u}
             next == [deletion[u] EXCEPT !.phase = "deleting", !.torn = TRUE,
                                         !.sealed = (deletion[u].request = "blocked"),
                                         !.pending = listed]
  <2>1. deletion' = [deletion EXCEPT ![u] = next] /\ owner' = owner
    BY <1>1, <1>5 DEF ListOwners
  <2>2. /\ next \in Deletion
        /\ next.phase = "deleting" /\ next.torn /\ next.request = deletion[u].request
        /\ next.sealed => next.request = "blocked"
        /\ next.pending = listed
    <3> HIDE DEF listed
    <3>1. listed \in SUBSET Devices
      BY DEF listed
    <3> QED BY <1>1, <3>1 DEF Deletion
  <2> HIDE DEF next
  <2>3. Typed'
    BY <1>1, <1>2, <2>1, <2>2
  <2>4. deletion'[u] = next /\ \A v \in Users : v # u => deletion'[v] = deletion[v]
    BY <1>1, <2>1
  <2> QED BY <1>2, <1>3, <2>1, <2>2, <2>3, <2>4 DEF TornWhileDeleting, AddressOwned, Sealed
<1>6. ASSUME NEW d \in Devices, DeleteOwner(u, d) PROVE Inv'
  <2>1. /\ Typed'
        /\ \A v \in Users : /\ deletion'[v].phase = deletion[v].phase
                            /\ deletion'[v].torn = deletion[v].torn
                            /\ deletion'[v].sealed = deletion[v].sealed
                            /\ deletion'[v].request = deletion[v].request
                            /\ v # u => deletion'[v] = deletion[v]
        /\ deletion'[u].pending = deletion[u].pending \ {d}
    <3> DEFINE next == [deletion[u] EXCEPT !.pending = @ \ {d}]
    <3>1. deletion' = [deletion EXCEPT ![u] = next]
      BY <1>1, <1>6 DEF DeleteOwner
    <3>2. /\ next \in Deletion /\ next.phase = deletion[u].phase
          /\ next.torn = deletion[u].torn /\ next.sealed = deletion[u].sealed
          /\ next.request = deletion[u].request
          /\ next.pending = deletion[u].pending \ {d}
      BY <1>1 DEF Deletion
    <3>3. owner' \in [Devices -> Users \cup {Nobody}]
      BY <1>6 DEF DeleteOwner
    <3> HIDE DEF next
    <3>4. Typed'
      BY <1>1, <1>2, <3>1, <3>2, <3>3
    <3>5. deletion'[u] = next /\ \A v \in Users : v # u => deletion'[v] = deletion[v]
      BY <1>1, <3>1
    <3> QED BY <3>2, <3>4, <3>5
  <2>2. /\ \A e \in Devices : e # d => owner'[e] = owner[e]
        /\ owner[d] = u => owner'[d] = Nobody
        /\ owner[d] # u => owner'[d] = owner[d]
    BY <1>1, <1>6 DEF DeleteOwner, StillOwned
  <2>3. deletion[u].torn
    BY <1>1, <1>6 DEF DeleteOwner, TornWhileDeleting
  <2>4. AddressOwned'
    BY <1>1, <1>2, <2>1, <2>2, <2>3 DEF AddressOwned
  <2>5. Sealed'
    <3>1. \A v \in Users, e \in Devices :
            owner'[e] = v => owner[e] = v /\ (v = u => e # d)
      BY <1>1, <2>2, UserAssumption
    <3>2. \A v \in Users, e \in Devices :
            owner'[e] = v /\ e \in deletion[v].pending => e \in deletion'[v].pending
      BY <2>1, <3>1
    <3> QED BY <2>1, <3>1, <3>2 DEF Sealed
  <2> QED BY <1>2, <1>3, <2>1, <2>4, <2>5 DEF TornWhileDeleting
<1>7. ASSUME NEW d \in Devices, DeleteOwnerFails(u, d) PROVE Inv'
  <2> DEFINE next == [deletion[u] EXCEPT !.pending = @ \ {d}, !.sealed = FALSE]
  <2>1. deletion' = [deletion EXCEPT ![u] = next] /\ owner' = owner
    BY <1>1, <1>7 DEF DeleteOwnerFails
  <2>2. /\ next \in Deletion /\ ~next.sealed
        /\ next.phase = deletion[u].phase /\ next.torn = deletion[u].torn
    BY <1>1 DEF Deletion
  <2> HIDE DEF next
  <2>3. Typed'
    BY <1>1, <1>2, <2>1, <2>2
  <2>4. deletion'[u] = next /\ \A v \in Users : v # u => deletion'[v] = deletion[v]
    BY <1>1, <2>1
  <2> QED BY <1>2, <1>3, <2>1, <2>2, <2>3, <2>4 DEF TornWhileDeleting, AddressOwned, Sealed
<1>8. ASSUME OwnersDeleted(u) PROVE Inv'
  <2> DEFINE next == [deletion[u] EXCEPT !.phase = "deleted"]
  <2>1. /\ Typed' /\ owner' = owner
        /\ \A v \in Users : /\ deletion'[v].torn = deletion[v].torn
                            /\ deletion'[v].sealed = deletion[v].sealed
                            /\ deletion'[v].request = deletion[v].request
                            /\ v # u => deletion'[v] = deletion[v]
        /\ deletion'[u].phase = "deleted"
    <3>1. deletion' = [deletion EXCEPT ![u] = next] /\ owner' = owner
      BY <1>1, <1>8 DEF OwnersDeleted
    <3>2. /\ next \in Deletion /\ next.phase = "deleted" /\ next.torn = deletion[u].torn
          /\ next.sealed = deletion[u].sealed /\ next.request = deletion[u].request
      BY <1>1 DEF Deletion
    <3> HIDE DEF next
    <3>3. Typed'
      BY <1>1, <1>2, <3>1, <3>2
    <3>4. deletion'[u] = next /\ \A v \in Users : v # u => deletion'[v] = deletion[v]
      BY <1>1, <3>1
    <3> QED BY <3>1, <3>2, <3>3, <3>4
  <2>2. deletion[u].phase = "deleting" /\ deletion[u].pending = {}
    BY <1>8 DEF OwnersDeleted
  <2>3. Sealed'
    <3>1. FenceConfigured /\ deletion[u].sealed => \A d \in Devices : owner[d] # u
      BY <1>1, <2>2 DEF Sealed
    <3>2. deletion'[u].phase # "idle"
      BY <2>1
    <3> QED BY <1>1, <2>1, <2>2, <3>1, <3>2 DEF Sealed
  <2> QED BY <1>1, <1>2, <1>3, <2>1, <2>3 DEF TornWhileDeleting, AddressOwned
<1> QED BY <1>4, <1>5, <1>6, <1>7, <1>8

\* With the user document its installations go, so nothing is torn any more.
LEMMA DeleteUserKeeps ==
  ASSUME Inv, NEW u \in Leavers, DeleteUser(u) PROVE Inv' /\ Changes
<1> USE DEF Inv, Typed
<1>1. u \in Users
  BY BoundAssumption
<1>2. /\ inst'[u] = NoEntries /\ \A v \in Users : v # u => inst'[v] = inst[v]
      /\ users' = users \ {u} /\ owner' = owner /\ clock' = clock
  BY <1>1 DEF DeleteUser, NoEntries
<1>3. \A v \in Users : /\ deletion'[v].phase = deletion[v].phase
                       /\ deletion'[v].pending = deletion[v].pending
                       /\ deletion'[v].sealed = deletion[v].sealed
                       /\ deletion'[v].request = deletion[v].request
                       /\ v # u => deletion'[v] = deletion[v]
  BY <1>1 DEF DeleteUser, Deletion
<1>4. deletion[u].phase = "deleted"
  BY DEF DeleteUser
<1>5. Typed'
  <2>1. NoEntries \in [Devices -> Installation]
    BY NoEntriesSane DEF Sane
  <2>2. inst' \in [Users -> [Devices -> Installation]]
    BY <2>1 DEF DeleteUser, NoEntries
  <2>3. deletion' \in [Users -> Deletion]
    <3> DEFINE next == [deletion[u] EXCEPT !.torn = FALSE]
    <3>1. deletion' = [deletion EXCEPT ![u] = next]
      BY <1>1 DEF DeleteUser
    <3>2. next \in Deletion
      BY <1>1 DEF Deletion
    <3> HIDE DEF next
    <3> QED BY <1>1, <3>1, <3>2
  <2> QED BY <1>2, <2>2, <2>3
<1>6. Maps'
  BY <1>1, <1>2, NoEntriesSane DEF Maps
<1>7. AddressOwned'
  <2>1. \A d \in Devices : ~NoEntries[d].address
    BY DEF NoEntries, Absent
  <2> QED BY <1>2, <1>3, <2>1 DEF AddressOwned
<1>8. TornWhileDeleting' /\ Sealed'
  BY <1>2, <1>3, <1>4 DEF TornWhileDeleting, Sealed
<1>9. Changes
  <2>1. \A v \in Users : v # u => Justified(inst[v], inst'[v], clock)
                                    /\ Remembered(inst[v], inst'[v])
    BY <1>2 DEF Justified, Remembered
  <2>2. Remembered(inst[u], inst'[u])
    BY <1>2 DEF Remembered, NoEntries, Absent
  <2> QED BY <1>1, <1>2, <2>1, <2>2 DEF Changes
<1> QED BY <1>5, <1>6, <1>7, <1>8, <1>9

\* Every step keeps the invariant and changes maps as it may.
LEMMA NextKeeps == Inv /\ [Next]_vars => Inv' /\ (Changes \/ UNCHANGED vars)
<1> SUFFICES ASSUME Inv, Next \/ UNCHANGED vars PROVE Inv' /\ (Changes \/ UNCHANGED vars)
  OBVIOUS
<1>1. ASSUME NEW u \in Users, Register(u) PROVE Inv' /\ Changes
  BY <1>1, UpsertKeeps DEF Register
<1>2. ASSUME NEW u \in Users, Heartbeat(u) PROVE Inv' /\ Changes
  BY <1>2, HeartbeatKeeps DEF Heartbeat
<1>3. ASSUME NEW u \in Users, DisableSome(u) PROVE Inv' /\ Changes
  BY <1>3, DisableKeeps DEF DisableSome
<1>4. ASSUME NEW u \in Users, Mark(u) PROVE Inv' /\ Changes
  BY <1>4, MarkKeeps DEF Mark
<1>5. ASSUME NEW u \in Leavers, AccountStep(u) PROVE Inv' /\ Changes
  <2>1. CASE DeleteUser(u)
    BY <2>1, DeleteUserKeeps
  <2>2. CASE ~DeleteUser(u)
    <3>1. Inv'
      BY <1>5, <2>2, DeletionKeeps DEF AccountStep
    <3>2. inst' = inst
      BY <1>5, <2>2 DEF AccountStep, SetRequest, ListOwners, DeleteOwner, DeleteOwnerFails,
                        OwnersDeleted
    <3> QED BY <3>1, <3>2, SameMaps, <1>5
  <2> QED BY <2>1, <2>2
<1>6. ASSUME Advance PROVE Inv' /\ Changes
  <2>1. inst' = inst /\ UNCHANGED <<users, owner, deletion>>
    BY <1>6 DEF Advance
  <2>2. clock' \in Nat \ {0}
    BY <1>6 DEF Advance, Inv, Typed
  <2>3. Inv'
    BY <2>1, <2>2 DEF Inv, Typed, Maps, TornWhileDeleting, AddressOwned, Sealed
  <2> QED BY <2>1, <2>3, SameMaps
<1>7. ASSUME UNCHANGED vars PROVE Inv'
  BY <1>7 DEF vars, Inv, Typed, Maps, TornWhileDeleting, AddressOwned, Sealed
<1> QED BY <1>1, <1>2, <1>3, <1>4, <1>5, <1>6, <1>7 DEF Next

\* Only a registration gives an address to another owner, and prune spares its entry.
LEMMA UpsertPlaces ==
  ASSUME Inv, NEW u \in Users, NEW d \in Devices, NEW enabled \in BOOLEAN,
         NEW granted \in BOOLEAN, NEW now \in Stamps,
         UpsertPushInstallation(u, d, enabled, granted, now)
  PROVE  /\ inst'[u][d].address
         /\ owner'[d] = u /\ \A e \in Devices \ {d} : owner'[e] \in {owner[e], Nobody}
<1> DEFINE new == NewInstallation(enabled, granted, now)
           entry == IF inst[u][d].present
                      THEN PreserveRegistrationState(inst[u][d], new)
                      ELSE new
           mine == [inst[u] EXCEPT ![d] = entry]
           pruned == Pruned(mine, d, now)
<1>1. now \in Nat \ {0} /\ inst[u] \in [Devices -> Installation]
  BY DEF Stamps, Inv, Typed, Maps, Sane
<1>2. new \in Installation /\ new.present /\ new.address
  BY <1>1 DEF NewInstallation, Installation, Never, Time
<1>3. entry \in Installation /\ entry.present /\ entry.address
  <2>1. inst[u][d].marker \in Markers \cup {NoMarker}
    BY <1>1 DEF Installation
  <2> HIDE DEF new
  <2> QED BY <1>2, <2>1 DEF PreserveRegistrationState, Installation
<1>4. /\ \A v \in Users : v = u => inst'[v] = Without(mine, pruned)
      /\ owner' = [e \in Devices |->
                     IF e = d THEN u
                     ELSE IF e \in OwnedPruned(u, pruned) THEN Nobody
                     ELSE owner[e]]
  BY DEF UpsertPushInstallation
<1> HIDE DEF entry
<1>5. mine \in [Devices -> Installation] /\ mine[d] = entry /\ d \in Present(mine)
  BY <1>1, <1>3 DEF Present
<1> HIDE DEF mine
<1>6. d \notin pruned
  BY <1>5, PruneFacts
<1> HIDE DEF pruned
<1>7. inst'[u][d] = entry
  BY <1>4, <1>5, <1>6 DEF Without
<1> QED BY <1>3, <1>4, <1>7

LEMMA OwnerPlaced ==
  ASSUME Inv, [Next]_vars, NEW d \in Devices, owner'[d] \notin {owner[d], Nobody}
  PROVE  inst'[owner'[d]][d].address
<1>1. ASSUME NEW u \in Users, Register(u) PROVE inst'[owner'[d]][d].address
  BY <1>1, UpsertPlaces DEF Register
<1>2. ASSUME NEW u \in Users PROVE ~Heartbeat(u) /\ ~DisableSome(u) /\ ~Mark(u)
  <2>1. ASSUME NEW e, NEW switch, NEW granted, NEW now
        PROVE  ~HeartbeatPushInstallation(u, e, switch, granted, now)
    <3>1. HeartbeatPushInstallation(u, e, switch, granted, now) =>
            \E S : owner' = [c \in Devices |-> IF c \in S THEN Nobody ELSE owner[c]]
      BY DEF HeartbeatPushInstallation
    <3> QED BY <3>1
  <2>2. ~DisableSome(u)
    BY DEF DisableSome, Disable
  <2>3. ~Mark(u)
    BY DEF Mark, MarkPushInstallationsDelivered
  <2> QED BY <2>1, <2>2, <2>3 DEF Heartbeat
<1>3. \A u \in Leavers : ~AccountStep(u)
  <2>1. owner \in [Devices -> Users \cup {Nobody}]
    BY DEF Inv, Typed
  <2> QED BY <2>1 DEF AccountStep, SetRequest, ListOwners, DeleteOwner, DeleteOwnerFails,
             OwnersDeleted, DeleteUser
<1>4. ~Advance /\ ~UNCHANGED vars
  BY DEF Advance, vars
<1> QED BY <1>1, <1>2, <1>3, <1>4 DEF Next

LEMMA Invariance == Spec => []Inv
BY InitInv, NextKeeps, PTL DEF Spec

------------------------------------------------------------------------------
(* Theorems *)

\* Types, the limit of each map (prune), and disabledAt set just while an entry is
\* disabled: in every state of every instance.
THEOREM TypesHold == Spec => []TypeOK
<1>1. Inv => TypeOK
  BY DEF Inv, Typed, Maps, Sane, NoEntries, TypeOK
<1> QED BY <1>1, Invariance, PTL

\* Whoever holds an address has its owner record (upsert, prune and DeleteOwnersForUser).
THEOREM AddressOwnedHolds == Spec => []AddressOwned
<1>1. Inv => AddressOwned
  BY DEF Inv
<1> QED BY <1>1, Invariance, PTL

\* So no device is an active target of two accounts: an active target has an address.
THEOREM SoleTargetHolds == Spec => []SoleTarget
<1>1. Inv => SoleTarget
  <2> SUFFICES ASSUME Inv, NEW u \in Users, NEW v \in Users, u # v,
                      ~deletion[u].torn, ~deletion[v].torn,
                      NEW d \in ActiveTargets(u, clock) \cap ActiveTargets(v, clock)
               PROVE  FALSE
    BY DEF SoleTarget
  <2>1. d \in Devices /\ inst[u][d].address /\ inst[v][d].address
    BY DEF ActiveTargets, ActiveAt
  <2>2. owner[d] = u /\ owner[d] = v
    BY <2>1 DEF Inv, AddressOwned
  <2> QED BY <2>2
<1> QED BY <1>1, Invariance, PTL

\* A deletion that succeeded behind the fence leaves no owner record of its user
\* (DeleteOwnersForUser, and the fence in the transaction of a registration).
THEOREM OwnersGoneHolds == Spec => []OwnersGone
<1>1. Inv => OwnersGone
  BY DEF Inv, Sealed, OwnersGone
<1> QED BY <1>1, Invariance, PTL

\* An entry leaves a map only because it is too old, or because the map is full of entries
\* that were seen no earlier, but for the one just used; and whoever becomes the owner of
\* an address has it in the map (prune).
THEOREM FreshestKeptHolds == Spec => FreshestKept
<1> DEFINE Kept == \A u \in users' : Justified(inst[u], inst'[u], clock)
           Placed == \A d \in Devices :
             owner'[d] \notin {owner[d], Nobody} => inst'[owner'[d]][d].address
<1>1. Inv /\ [Next]_vars => [Kept /\ Placed]_vars
  BY NextKeeps, OwnerPlaced DEF Changes
<1>2. Kept /\ Placed =>
     /\ \A u \in users' : \A d \in Present(inst[u]) \ Present(inst'[u]) :
          \/ clock - inst[u][d].lastSeen > Retention
          \/ ~inst[u][d].enabled /\ clock - inst[u][d].disabledAt > DisabledRetention
          \/ /\ Cardinality(Present(inst'[u])) = MaxInstallations
             /\ Cardinality({e \in Present(inst'[u]) :
                               inst'[u][e].lastSeen < inst[u][d].lastSeen}) <= 1
     /\ \A d \in Devices :
          owner'[d] \notin {owner[d], Nobody} => inst'[owner'[d]][d].address
  BY DEF Justified
<1> HIDE DEF Kept, Placed
<1> QED BY <1>1, <1>2, Invariance, PTL DEF Spec, FreshestKept

\* A delivery marker lasts as long as its entry (PreserveRegistrationState, prune, retire).
THEOREM MarkersKeptHolds == Spec => MarkersKept
<1> DEFINE Kept == \A u \in Users : Remembered(inst[u], inst'[u])
<1>1. Inv /\ [Next]_vars => [Kept]_vars
  BY NextKeeps DEF Changes
<1>2. Kept => \A u \in Users, d \in Devices :
       inst[u][d].marker # NoMarker /\ inst'[u][d].present
         => inst'[u][d].marker # NoMarker
  BY DEF Remembered
<1> HIDE DEF Kept
<1> QED BY <1>1, <1>2, Invariance, PTL DEF Spec, MarkersKept

============================================================================
