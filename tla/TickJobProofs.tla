---------------------------- MODULE TickJobProofs ----------------------------
(***************************************************************************)
(* Theorems about TickJob and DailyRecurrence: for any length of the day,  *)
(* any zones, messages and launches, and any number of shards and tasks.   *)
(***************************************************************************)
EXTENDS TickJob, TLAPS

------------------------------------------------------------------------------
(* Division *)

\* Products, quotients and remainders that the provers need not look into.
Times(D, q) == D * q
Quotient(n, D) == n \div D
Remainder(n, D) == n % D

\* Quotient and remainder, and that nothing else fits.
LEMMA DivFacts ==
  ASSUME NEW n \in Int, NEW D \in Nat \ {0}
  PROVE  /\ Quotient(n, D) \in Int /\ Remainder(n, D) \in 0 .. D - 1
         /\ n = Times(D, Quotient(n, D)) + Remainder(n, D)
<1>1. Quotient(n, D) \in Int /\ Remainder(n, D) \in 0 .. D - 1 /\ Remainder(n, D) \in Int
  BY DEF Quotient, Remainder
<1>2. ASSUME NEW q \in Int, NEW r \in Int, q = Quotient(n, D), r = Remainder(n, D)
      PROVE  n = Times(D, q) + r
  BY <1>2 DEF Times, Quotient, Remainder
<1> QED BY <1>1, <1>2

LEMMA DivUnique ==
  ASSUME NEW D \in Nat \ {0}, NEW q \in Int, NEW r \in 0 .. D - 1
  PROVE  /\ Quotient(Times(D, q) + r, D) = q
         /\ Remainder(Times(D, q) + r, D) = r
<1>1. (q * D + r) \div D = q
  OBVIOUS
<1>2. (q * D + r) % D = r
  OBVIOUS
<1>3. Times(D, q) = q * D
  BY DEF Times
<1> QED BY <1>1, <1>2, <1>3 DEF Quotient, Remainder

\* Steps of a multiplication.
LEMMA Multiples ==
  ASSUME NEW D \in Nat \ {0}, NEW p \in Int
  PROVE  /\ Times(D, p) \in Int
         /\ Times(D, p + 1) = Times(D, p) + D
         /\ Times(D, p + 3) = Times(D, p) + D + D + D
         /\ \A q \in Int : p < q => Times(D, p) + D <= Times(D, q)
BY DEF Times

\* Numbers less than D apart differ in their remainders.
LEMMA Residues ==
  ASSUME NEW D \in Nat \ {0}, NEW a \in Int, NEW b \in Int, Remainder(a, D) = Remainder(b, D)
  PROVE  /\ a < b => a + D <= b
         /\ Remainder(a + D, D) = Remainder(a, D)
<1> DEFINE p == Quotient(a, D)
           q == Quotient(b, D)
           r == Remainder(a, D)
<1>1. p \in Int /\ q \in Int /\ r \in 0 .. D - 1 /\ a = Times(D, p) + r /\ b = Times(D, q) + r
  BY DivFacts
<1> HIDE DEF p, q, r
<1>2. Times(D, p) \in Int /\ Times(D, q) \in Int /\ Times(D, p + 1) = Times(D, p) + D
      /\ (p < q => Times(D, p) + D <= Times(D, q))
      /\ (q < p => Times(D, q) + D <= Times(D, p))
  BY <1>1, Multiples
<1>3. p = q \/ p < q \/ q < p
  BY <1>1
<1>4. a < b => a + D <= b
  BY <1>1, <1>2, <1>3
<1>5. Times(D, p + 1) + r = a + D
  BY <1>1, <1>2
<1>6. Remainder(Times(D, p + 1) + r, D) = r
  <2>1. p + 1 \in Int
    BY <1>1
  <2> QED BY <1>1, <2>1, DivUnique
<1> QED BY <1>4, <1>5, <1>6 DEF r

------------------------------------------------------------------------------
(* The wall clock *)

\* The first instant of a date on a clock without offset.
Start(date) == Times(DayLen, date)

\* An offset of at most a day, as every time zone has.
WithinADay(zone) ==
  /\ -DayLen <= zone.before /\ zone.before <= DayLen
  /\ -DayLen <= zone.after /\ zone.after <= DayLen

LEMMA ZoneFacts ==
  ASSUME NEW zone \in Zone
  PROVE  /\ zone.before \in Int /\ zone.at \in Int /\ zone.after \in Int
         /\ \A t \in Int :
              /\ Offset(zone, t) \in {zone.before, zone.after}
              /\ t < zone.at => Offset(zone, t) = zone.before
              /\ t >= zone.at => Offset(zone, t) = zone.after
BY DEF Zone, Offset

LEMMA StartFacts ==
  /\ \A date \in Int : Start(date) \in Int
  /\ \A date \in Int : /\ Start(date + 1) = Start(date) + DayLen
                       /\ Start(date + 3) = Start(date) + DayLen + DayLen + DayLen
  /\ \A d, e \in Int : d < e => Start(d) + DayLen <= Start(e)
BY DayAssumption, Multiples DEF Start

\* Date and wall time, by the start of the date.
LEMMA ShowsFacts ==
  ASSUME NEW zone \in Zone, NEW t \in Int
  PROVE  LET date == LocalDate(zone, t)
             wall == WallTime(zone, t)
         IN  /\ date \in Int /\ wall \in 0 .. DayLen - 1
             /\ t + Offset(zone, t) = Start(date) + wall
             /\ \A d \in Int, local \in 0 .. DayLen - 1 :
                  Shows(zone, t, d, local) <=> t + Offset(zone, t) = Start(d) + local
<1> DEFINE n == t + Offset(zone, t)
<1>1. DayLen \in Nat \ {0} /\ n \in Int
  BY DayAssumption, ZoneFacts
<1> HIDE DEF n
<1> DEFINE q == Quotient(n, DayLen)
           r == Remainder(n, DayLen)
<1>2. q \in Int /\ r \in 0 .. DayLen - 1 /\ n = Start(q) + r
  BY <1>1, DivFacts DEF Start
<1> HIDE DEF q, r
<1>3. ASSUME NEW d \in Int, NEW local \in 0 .. DayLen - 1
      PROVE  q = d /\ r = local <=> n = Start(d) + local
  <2>1. n = Start(d) + local => Quotient(n, DayLen) = d /\ Remainder(n, DayLen) = local
    BY <1>1, DivUnique DEF Start
  <2> QED BY <1>2, <2>1 DEF q, r
<1> QED BY <1>2, <1>3 DEF q, r, n, LocalDate, WallTime, Shows, Quotient, Remainder

------------------------------------------------------------------------------
(* Daily.Next *)

\* The first instant of a scan that shows the local time on the date.
FirstShown(zone, local, date, t) ==
  /\ t \in Scan(date) /\ Shows(zone, t, date, local)
  /\ \A u \in Scan(date) : u < t => ~Shows(zone, u, date, local)

LEMMA MatchFacts ==
  ASSUME NEW zone, NEW local, NEW date, NEW after, NEW t
  PROVE  t \in FirstMatch(zone, local, date, after)
           <=> t > after /\ FirstShown(zone, local, date, t)
BY DEF FirstMatch, FirstShown

LEMMA ScanFacts ==
  ASSUME NEW date \in Int
  PROVE  /\ Scan(date) = (Start(date) - DayLen) .. (Start(date) + DayLen + DayLen - 1)
         /\ Scan(date) \subseteq Int
<1>1. DayLen \in Int /\ Start(date) \in Int
  BY DayAssumption, StartFacts
<1>2. date * DayLen = Start(date)
  BY DayAssumption DEF Start, Times
<1>3. 2 * DayLen = DayLen + DayLen
  BY <1>1
<1>4. Scan(date) = (Start(date) - DayLen) .. (Start(date) + 2 * DayLen - 1)
  BY <1>2 DEF Scan
<1>5. Start(date) + 2 * DayLen - 1 = Start(date) + DayLen + DayLen - 1
  BY <1>1
<1> QED BY <1>1, <1>4, <1>5

\* Where a date shows a local time: once before the change of the zone, once after it, as
\* far as the change allows; and the scan of the date, 36 hours to each side of its noon,
\* misses none of it.
LEMMA WhereShown ==
  ASSUME NEW zone \in Zone, WithinADay(zone), NEW local \in 0 .. DayLen - 1,
         NEW date \in Int, NEW t \in Int
  PROVE  /\ Shows(zone, t, date, local)
              <=> \/ t < zone.at /\ t = Start(date) + local - zone.before
                  \/ t >= zone.at /\ t = Start(date) + local - zone.after
         /\ Shows(zone, t, date, local) => t \in Scan(date)
<1>1. /\ zone.before \in Int /\ zone.at \in Int /\ zone.after \in Int
      /\ DayLen \in Nat /\ Start(date) \in Int
  BY ZoneFacts, DayAssumption, StartFacts
<1>2. /\ t < zone.at => Offset(zone, t) = zone.before
      /\ t >= zone.at => Offset(zone, t) = zone.after
  BY ZoneFacts
<1>3. Shows(zone, t, date, local) <=> t + Offset(zone, t) = Start(date) + local
  BY ShowsFacts
<1>4. Shows(zone, t, date, local)
        <=> \/ t < zone.at /\ t = Start(date) + local - zone.before
            \/ t >= zone.at /\ t = Start(date) + local - zone.after
  BY <1>1, <1>2, <1>3
<1>5. Shows(zone, t, date, local) => t \in Scan(date)
  <2> DEFINE B == zone.before
             A == zone.after
             S == Start(date)
  <2>1. /\ -DayLen <= B /\ B <= DayLen /\ -DayLen <= A /\ A <= DayLen
        /\ B \in Int /\ A \in Int /\ S \in Int /\ local \in 0 .. DayLen - 1
    BY <1>1 DEF WithinADay
  <2>2. Scan(date) = (S - DayLen) .. (S + DayLen + DayLen - 1)
    BY ScanFacts
  <2>3. Shows(zone, t, date, local) => t = S + local - B \/ t = S + local - A
    BY <1>4
  <2> HIDE DEF B, A, S
  <2>4. t = S + local - B => t \in Scan(date)
    BY <1>1, <2>1, <2>2
  <2>5. t = S + local - A => t \in Scan(date)
    BY <1>1, <2>1, <2>2
  <2> QED BY <2>3, <2>4, <2>5
<1> QED BY <1>4, <1>5

\* A gap hides a local time for three dates at most: the search of eight never fails.
LEMMA SomeMatch ==
  ASSUME NEW zone \in Zone, WithinADay(zone), NEW local \in 0 .. DayLen - 1, NEW after \in Int
  PROVE  \/ FirstMatch(zone, local, LocalDate(zone, after) + 1, after) # {}
         \/ FirstMatch(zone, local, LocalDate(zone, after) + 3, after) # {}
<1> DEFINE today == LocalDate(zone, after)
           B == zone.before
           A == zone.after
           at == zone.at
           S == Start(today)
<1>1. /\ today \in Int /\ today + 1 \in Int /\ today + 3 \in Int
      /\ B \in Int /\ A \in Int /\ at \in Int /\ S \in Int /\ DayLen \in Nat \ {0}
      /\ Start(today + 1) = S + DayLen
      /\ Start(today + 3) = S + DayLen + DayLen + DayLen
      /\ -DayLen <= B /\ B <= DayLen /\ -DayLen <= A /\ A <= DayLen
  <2>1. today \in Int
    BY ShowsFacts
  <2>2. B \in Int /\ A \in Int /\ at \in Int
    BY ZoneFacts
  <2>3. -DayLen <= B /\ B <= DayLen /\ -DayLen <= A /\ A <= DayLen
    BY DEF WithinADay
  <2> HIDE DEF today, B, A, at
  <2> QED BY <2>1, <2>2, <2>3, StartFacts, DayAssumption
<1>2. /\ after < at => after + B < S + DayLen
      /\ after >= at => after + A < S + DayLen
  BY <1>1, ZoneFacts, ShowsFacts
<1>3. ASSUME NEW date \in {today + 1, today + 3}, NEW t \in Int, t > after,
             Shows(zone, t, date, local),
             t < at \/ ~(Start(date) + local - B < at)
      PROVE  t \in FirstMatch(zone, local, date, after)
  <2>1. date \in Int
    BY <1>1
  <2>2. t \in Scan(date)
    BY <1>3, <2>1, WhereShown
  <2>3. ASSUME NEW u \in Scan(date), u < t PROVE ~Shows(zone, u, date, local)
    <3>1. u \in Int /\ Start(date) \in Int
      BY <2>1, ScanFacts, StartFacts
    <3> QED BY <1>1, <1>3, <2>1, <2>3, <3>1, WhereShown
  <2> QED BY <1>3, <2>2, <2>3, MatchFacts DEF FirstShown
<1> HIDE DEF today, B, A, at, S
<1>4. CASE after < at /\ S + DayLen + local - B < at
  <2> DEFINE t == S + DayLen + local - B
  <2>1. t \in Int /\ t > after /\ t < at
    BY <1>1, <1>2, <1>4
  <2>2. Shows(zone, t, today + 1, local)
    BY <1>1, <2>1, WhereShown DEF at, B
  <2> QED BY <1>1, <1>3, <2>1, <2>2 DEF today
<1>5. CASE ~(after < at /\ S + DayLen + local - B < at)
  <2> DEFINE t == S + DayLen + DayLen + DayLen + local - A
  <2>1. /\ t \in Int /\ t > after /\ t >= at
        /\ ~(S + DayLen + DayLen + DayLen + local - B < at)
    BY <1>1, <1>2, <1>5
  <2>2. Shows(zone, t, today + 3, local)
    BY <1>1, <2>1, WhereShown DEF at, A
  <2> QED BY <1>1, <1>3, <2>1, <2>2 DEF today
<1> QED BY <1>4, <1>5

\* What FirstOccurrence says of an instant, for any zone and local time.
FiresIn(zone, local, t) ==
  /\ WallTime(zone, t) = local
  /\ \A u \in (t - 2 * DayLen) .. (t - 1) : ~Shows(zone, u, LocalDate(zone, t), local)

\* An instant fires if it is the first of the scan of its date.
LEMMA FiresFirst ==
  ASSUME NEW zone \in Zone, WithinADay(zone), NEW local \in 0 .. DayLen - 1, NEW t \in Int
  PROVE  /\ LocalDate(zone, t) \in Int
         /\ FiresIn(zone, local, t) <=> FirstShown(zone, local, LocalDate(zone, t), t)
         /\ \A date \in Int :
              FirstShown(zone, local, date, t) => LocalDate(zone, t) = date
<1> DEFINE date == LocalDate(zone, t)
<1>1. date \in Int /\ Start(date) \in Int /\ DayLen \in Nat \ {0}
      /\ zone.before \in Int /\ zone.at \in Int /\ zone.after \in Int
  BY ShowsFacts, StartFacts, DayAssumption, ZoneFacts
<1>2. WallTime(zone, t) = local <=> Shows(zone, t, date, local)
  BY DEF Shows
<1>3. \A d : FirstShown(zone, local, d, t) => LocalDate(zone, t) = d
  BY DEF FirstShown, Shows
<1> HIDE DEF date
<1>4. ASSUME Shows(zone, t, date, local), NEW u \in Int, u < t, Shows(zone, u, date, local)
      PROVE  u \in (t - 2 * DayLen) .. (t - 1) /\ u \in Scan(date)
  <2>1. \/ u < zone.at /\ u = Start(date) + local - zone.before
        \/ u >= zone.at /\ u = Start(date) + local - zone.after
    BY <1>1, <1>4, WhereShown
  <2>2. \/ t < zone.at /\ t = Start(date) + local - zone.before
        \/ t >= zone.at /\ t = Start(date) + local - zone.after
    BY <1>1, <1>4, WhereShown
  <2>3. t - u <= DayLen + DayLen
    BY <1>1, <1>4, <2>1, <2>2 DEF WithinADay
  <2>4. u \in Scan(date)
    BY <1>1, <1>4, WhereShown
  <2> QED BY <1>1, <1>4, <2>3, <2>4
<1>5. FiresIn(zone, local, t) <=>
        Shows(zone, t, date, local)
          /\ \A u \in (t - 2 * DayLen) .. (t - 1) : ~Shows(zone, u, date, local)
  BY <1>2 DEF FiresIn, date
<1>6. ASSUME Shows(zone, t, date, local)
      PROVE  (\A u \in (t - 2 * DayLen) .. (t - 1) : ~Shows(zone, u, date, local))
               <=> (\A u \in Scan(date) : u < t => ~Shows(zone, u, date, local))
  <2>1. \A u \in (t - 2 * DayLen) .. (t - 1) : u \in Int /\ u < t
    BY <1>1
  <2>2. \A u \in Scan(date) : u \in Int
    BY <1>1, ScanFacts
  <2> QED BY <1>4, <1>6, <2>1, <2>2
<1>7. Shows(zone, t, date, local) => t \in Scan(date)
  BY <1>1, WhereShown
<1>8. FiresIn(zone, local, t) <=> FirstShown(zone, local, date, t)
  BY <1>5, <1>6, <1>7 DEF FirstShown
<1> QED BY <1>1, <1>3, <1>8 DEF date

\* First instants come in the order of their dates.
LEMMA FirstsInOrder ==
  ASSUME NEW zone \in Zone, WithinADay(zone), NEW local \in 0 .. DayLen - 1,
         NEW d \in Int, NEW e \in Int, NEW s \in Int, NEW t \in Int,
         FirstShown(zone, local, d, s), FirstShown(zone, local, e, t)
  PROVE  /\ d = e => s = t
         /\ d < e => s < t
<1>1. /\ Start(d) \in Int /\ Start(e) \in Int /\ DayLen \in Nat \ {0}
      /\ d < e => Start(d) + DayLen <= Start(e)
      /\ zone.before \in Int /\ zone.at \in Int /\ zone.after \in Int
  BY StartFacts, DayAssumption, ZoneFacts
<1>2. /\ Shows(zone, s, d, local) /\ Shows(zone, t, e, local)
      /\ \/ s < zone.at /\ s = Start(d) + local - zone.before
         \/ s >= zone.at /\ s = Start(d) + local - zone.after
      /\ \/ t < zone.at /\ t = Start(e) + local - zone.before
         \/ t >= zone.at /\ t = Start(e) + local - zone.after
  BY WhereShown DEF FirstShown
<1>3. s \in Scan(d) /\ t \in Scan(e)
  BY DEF FirstShown
<1>4. d = e => ~(s < t) /\ ~(t < s)
  BY <1>2, <1>3 DEF FirstShown
<1>5. ASSUME d < e, ~(s < t) PROVE FALSE
  <2>1. t < zone.at /\ s >= zone.at
    BY <1>1, <1>2, <1>5
  <2> DEFINE u == Start(d) + local - zone.before
  <2>2. u \in Int /\ u < zone.at /\ u < s
    BY <1>1, <1>2, <1>5, <2>1
  <2>3. Shows(zone, u, d, local) /\ u \in Scan(d)
    BY <2>2, WhereShown
  <2> QED BY <2>2, <2>3 DEF FirstShown
<1> QED BY <1>4, <1>5

\* An instant that fires after "after" is no earlier date's than the date of "after".
LEMMA NoEarlierDate ==
  ASSUME NEW zone \in Zone, WithinADay(zone), NEW local \in 0 .. DayLen - 1,
         NEW after \in Int, NEW t \in Int, after < t, NEW date \in Int,
         FirstShown(zone, local, date, t)
  PROVE  date >= LocalDate(zone, after)
<1> DEFINE today == LocalDate(zone, after)
<1>1. /\ Start(date) \in Int /\ Start(today) \in Int /\ DayLen \in Nat \ {0}
      /\ today \in Int
      /\ date < today => Start(date) + DayLen <= Start(today)
      /\ zone.before \in Int /\ zone.at \in Int /\ zone.after \in Int
  BY StartFacts, DayAssumption, ZoneFacts, ShowsFacts
<1>2. /\ after < zone.at => after + zone.before >= Start(today)
      /\ after >= zone.at => after + zone.after >= Start(today)
  BY <1>1, ZoneFacts, ShowsFacts
<1>3. /\ Shows(zone, t, date, local)
      /\ \/ t < zone.at /\ t = Start(date) + local - zone.before
         \/ t >= zone.at /\ t = Start(date) + local - zone.after
  BY WhereShown DEF FirstShown
<1> HIDE DEF today
<1>4. ASSUME date < today PROVE FALSE
  <2>1. after < zone.at /\ t >= zone.at
    BY <1>1, <1>2, <1>3, <1>4
  <2> DEFINE u == Start(date) + local - zone.before
  <2>2. u \in Int /\ u < zone.at /\ u < t
    BY <1>1, <1>2, <1>4, <2>1
  <2>3. Shows(zone, u, date, local) /\ u \in Scan(date)
    BY <2>2, WhereShown
  <2> QED BY <2>2, <2>3 DEF FirstShown
<1> QED BY <1>1, <1>4 DEF today

\* Daily.Next finds the first instant after "after" that fires, and it always finds one.
LEMMA DailyNextFacts ==
  ASSUME NEW zone \in Zone, WithinADay(zone), NEW local \in 0 .. DayLen - 1, NEW after \in Int
  PROVE  /\ DailyNext(zone, local, after) # {}
         /\ \A due \in DailyNext(zone, local, after) :
              /\ due \in Int /\ due > after
              /\ FiresIn(zone, local, due)
              /\ \A t \in (after + 1) .. (due - 1) : ~FiresIn(zone, local, t)
<1> DEFINE today == LocalDate(zone, after)
           found(day) == FirstMatch(zone, local, today + day, after)
           days == {d \in 0 .. 7 : \A e \in 0 .. d - 1 : found(e) = {}}
<1>1. DailyNext(zone, local, after) = UNION {found(day) : day \in days}
  BY DEF DailyNext
<1>2. today \in Int
  BY ShowsFacts
<1>3. found(1) # {} \/ found(3) # {}
  BY SomeMatch
<1>4. \A day \in Int : \A t : t \in found(day)
        <=> t \in Int /\ t > after /\ FirstShown(zone, local, today + day, t)
  <2>1. \A day \in Int : today + day \in Int
    BY <1>2
  <2>2. \A day \in Int : Scan(today + day) \subseteq Int
    BY <2>1, ScanFacts
  <2> HIDE DEF today
  <2> QED BY <2>2, MatchFacts DEF FirstShown
<1> HIDE DEF today, found
<1>5. \E day \in days : found(day) # {}
  <2>1. 0 \in days /\ (found(0) = {} => 1 \in days)
        /\ (found(0) = {} /\ found(1) = {} => 2 \in days)
        /\ (found(0) = {} /\ found(1) = {} /\ found(2) = {} => 3 \in days)
    OBVIOUS
  <2> QED BY <1>3, <2>1
<1>6. ASSUME NEW due \in DailyNext(zone, local, after)
      PROVE  /\ due \in Int /\ due > after
             /\ FiresIn(zone, local, due)
             /\ \A t \in (after + 1) .. (due - 1) : ~FiresIn(zone, local, t)
  <2>1. PICK day \in days : due \in found(day)
    BY <1>1
  <2>2. day \in Int /\ today + day \in Int /\ due \in Int /\ due > after
        /\ FirstShown(zone, local, today + day, due)
    BY <1>2, <1>4, <2>1
  <2>3. LocalDate(zone, due) = today + day
    BY <2>2, FiresFirst
  <2>4. FiresIn(zone, local, due)
    BY <2>2, <2>3, FiresFirst
  <2>5. ASSUME NEW t \in (after + 1) .. (due - 1), FiresIn(zone, local, t) PROVE FALSE
    <3> DEFINE date == LocalDate(zone, t)
    <3>1. t \in Int /\ after < t /\ t < due
      BY <2>2
    <3>2. date \in Int /\ FirstShown(zone, local, date, t)
      BY <2>5, <3>1, FiresFirst
    <3>3. date >= today
      BY <3>1, <3>2, NoEarlierDate DEF today
    <3> HIDE DEF date
    <3>4. date <= today + day /\ date # today + day
      <4>1. ~(today + day < date)
        BY <2>2, <3>1, <3>2, FirstsInOrder
      <4>2. date # today + day
        BY <2>2, <3>1, <3>2, FirstsInOrder
      <4> QED BY <2>2, <3>2, <4>1, <4>2
    <3> DEFINE e == date - today
    <3>5. e \in 0 .. day - 1 /\ today + e = date /\ e \in Int
      BY <1>2, <2>2, <3>2, <3>3, <3>4
    <3>6. t \in found(e)
      BY <1>4, <3>1, <3>2, <3>5
    <3> QED BY <2>1, <3>5, <3>6
  <2> QED BY <2>2, <2>4, <2>5
<1> QED BY <1>1, <1>5, <1>6

------------------------------------------------------------------------------
(* The job *)

\* The numbers of the job; the provers need not know that they are all integers.
Instants == Int

JobState == [state: {"none", "ready", "failed"}, zone: Zone, local: Instants,
             message: Message, shard: Shards, due: Instants, updatedAt: Instants]

\* What NewJob accepted: a time of the day, a zone that was asked for, and a message that
\* can be delivered.
Accepted ==
  /\ job \in JobState
  /\ clock \in Int
  /\ job.state = "none" => served = {}
  /\ job.state # "none" =>
       /\ job.zone \in Zones
       /\ job.local \in 0 .. DayLen - 1
       /\ ValidateMessage(MessageForOccurrence(job.message))

\* The due times, delivered or to come, are the first of their dates.
AllFirst ==
  job.state # "none" =>
    \A t \in served \cup {job.due} :
      FirstShown(job.zone, job.local, LocalDate(job.zone, t), t)

JobInv == Accepted /\ AllFirst

\* A due time that Daily.Next returns is an integer, and the first of its date.
LEMMA DueFacts ==
  ASSUME NEW zone \in Zone, NEW local, NEW after \in Int,
         NEW due \in DailyNext(zone, local, after)
  PROVE  due \in Int /\ FirstShown(zone, local, LocalDate(zone, due), due)
<1>1. PICK day \in 0 .. 7 : due \in FirstMatch(zone, local, LocalDate(zone, after) + day, after)
  BY DEF DailyNext
<1> DEFINE date == LocalDate(zone, after) + day
<1>2. date \in Int
  BY ShowsFacts
<1>3. FirstShown(zone, local, date, due)
  BY <1>1, MatchFacts
<1> HIDE DEF date
<1>4. due \in Int /\ LocalDate(zone, due) = date
  BY <1>2, <1>3, ScanFacts DEF FirstShown, Shows
<1> QED BY <1>3, <1>4

\* A delivery moves the job on, or leaves it.
LEMMA TickShardKeeps ==
  ASSUME JobInv, NEW shard, TickShard(shard), clock' = clock
  PROVE  /\ JobInv'
         /\ \/ UNCHANGED job
            \/ /\ job.state = "ready" /\ job'.zone = job.zone /\ job'.local = job.local
               /\ \/ job'.state = "failed" /\ DailyNext(job.zone, job.local, clock) = {}
                  \/ /\ job'.state = "ready" /\ job'.updatedAt = clock
                     /\ job'.due \in DailyNext(job.zone, job.local, clock)
<1> DEFINE next == DailyNext(job.zone, job.local, clock)
<1>1. job \in JobState /\ clock \in Int
  BY DEF JobInv, Accepted
<1>2. CASE UNCHANGED <<job, served>>
  BY <1>2 DEF JobInv, Accepted, AllFirst
<1>3. CASE /\ job.state = "ready"
           /\ ValidateMessage(MessageForOccurrence(job.message))
           /\ job' = NextJob(next) /\ served' = served \cup {job.due}
  <2>1. job.zone \in Zone /\ job.zone \in Zones
    BY <1>3, InputAssumption DEF JobInv, Accepted
  <2>2. CASE next = {}
    <3>1. job' = [job EXCEPT !.state = "failed", !.updatedAt = clock]
      BY <1>3, <2>2 DEF NextJob
    <3>2. clock \in Instants
      BY <1>1 DEF Instants
    <3>3. /\ job' \in JobState /\ job'.state = "failed" /\ job'.zone = job.zone
          /\ job'.local = job.local /\ job'.message = job.message /\ job'.due = job.due
      BY <1>1, <3>1, <3>2 DEF JobState
    <3>4. Accepted'
      BY <1>1, <1>3, <3>3 DEF JobInv, Accepted
    <3>5. AllFirst'
      BY <1>3, <3>3 DEF JobInv, AllFirst
    <3> QED BY <1>3, <2>2, <3>3, <3>4, <3>5 DEF JobInv
  <2>3. CASE next # {}
    <3> DEFINE due == CHOOSE due \in next : TRUE
    <3>1. job' = [job EXCEPT !.due = due, !.updatedAt = clock]
      BY <1>3, <2>3 DEF NextJob
    <3>2. due \in next
      BY <2>3
    <3> HIDE DEF due
    <3>3. due \in Int /\ FirstShown(job.zone, job.local, LocalDate(job.zone, due), due)
      BY <1>1, <2>1, <3>2, DueFacts
    <3>4. clock \in Instants /\ due \in Instants
      BY <1>1, <3>3 DEF Instants
    <3> HIDE DEF next
    <3>5. /\ job' \in JobState /\ job'.state = "ready" /\ job'.zone = job.zone
          /\ job'.local = job.local /\ job'.message = job.message /\ job'.due = due
          /\ job'.updatedAt = clock
      BY <1>1, <1>3, <3>1, <3>4 DEF JobState
    <3>6. Accepted'
      BY <1>1, <1>3, <3>5 DEF JobInv, Accepted
    <3>7. AllFirst'
      BY <1>3, <3>3, <3>5 DEF JobInv, AllFirst
    <3> QED BY <1>3, <3>2, <3>5, <3>6, <3>7 DEF JobInv, next
  <2> QED BY <2>2, <2>3
<1>4. ASSUME job.state = "ready" PROVE ValidateMessage(MessageForOccurrence(job.message))
  BY <1>4 DEF JobInv, Accepted
<1> QED BY <1>2, <1>3, <1>4 DEF TickShard, Deliver

\* "schedule" writes a job of the zone, time and message it was asked for.
LEMMA ScheduleKeeps ==
  ASSUME JobInv, NEW zone \in Zones, NEW local \in LocalTimes, NEW message \in Messages,
         NEW shard \in Shards, Schedule(zone, local, message, shard)
  PROVE  /\ JobInv'
         /\ job'.state = "ready" /\ job'.updatedAt = clock
         /\ job'.due \in DailyNext(job'.zone, job'.local, clock)
<1>1. PICK due \in DailyNext(zone, local, clock) :
        job' = [state |-> "ready", zone |-> zone, local |-> local, message |-> message,
                shard |-> shard, due |-> due, updatedAt |-> clock]
  BY DEF Schedule
<1>2. /\ clock \in Int /\ clock' = clock /\ served = {} /\ served' = served
      /\ local \in 0 .. DayLen - 1 /\ ValidateMessage(MessageForOccurrence(message))
  BY DEF JobInv, Accepted, Schedule, ValidLocalTime, AcceptSchedule
<1>3. zone \in Zone /\ message \in Message /\ local \in Int
  BY InputAssumption
<1>4. due \in Int /\ FirstShown(zone, local, LocalDate(zone, due), due)
  BY <1>2, <1>3, DueFacts
<1>5. local \in Instants /\ due \in Instants /\ clock \in Instants
  BY <1>2, <1>3, <1>4 DEF Instants
<1>6. /\ job' \in JobState /\ job'.state = "ready" /\ job'.zone = zone
      /\ job'.local = local /\ job'.message = message /\ job'.due = due
      /\ job'.updatedAt = clock
  BY <1>1, <1>3, <1>5 DEF JobState
<1>7. Accepted'
  BY <1>2, <1>6 DEF Accepted
<1>8. AllFirst'
  BY <1>2, <1>4, <1>6 DEF AllFirst
<1> QED BY <1>6, <1>7, <1>8 DEF JobInv

LEMMA JobInit == Init => JobInv
<1> SUFFICES ASSUME Init PROVE JobInv
  OBVIOUS
<1>1. /\ [before |-> 0, at |-> 0, after |-> 0] \in Zone
      /\ NoJob.message \in Message
      /\ 0 \in Shards /\ 0 \in Instants
  BY ShardAssumption DEF Zone, NoJob, Message, NoAnalytics, Text, Shards, Instants
<1>2. NoJob \in JobState /\ NoJob.state = "none"
  <2> DEFINE z == [before |-> 0, at |-> 0, after |-> 0]
             m == [text |-> TRUE, plain |-> TRUE, owned |-> "none", ttl |-> 0,
                   analytics |-> NoAnalytics, size |-> 0]
  <2>1. NoJob = [state |-> "none", zone |-> z, local |-> 0, message |-> m,
                 shard |-> 0, due |-> 0, updatedAt |-> 0]
    BY DEF NoJob
  <2>2. z \in Zone /\ m \in Message
    BY <1>1 DEF NoJob
  <2> HIDE DEF z, m
  <2> QED BY <1>1, <2>1, <2>2 DEF JobState
<1> QED BY <1>2 DEF Init, JobInv, Accepted, AllFirst

\* The steps of the program, by what they do to the job.
LEMMA JobSteps ==
  ASSUME [Next]_vars
  PROVE  \/ \E zone \in Zones, local \in LocalTimes, message \in Messages, shard \in Shards :
              Schedule(zone, local, message, shard)
         \/ \E shard : TickShard(shard) /\ clock' = clock
         \/ UNCHANGED <<job, served>> /\ clock' \in {clock, clock + 1}
<1>1. ASSUME NEW i \in DOMAIN task, TaskStep(i) \/ TickFails(i)
      PROVE  \/ \E shard : TickShard(shard) /\ clock' = clock
             \/ UNCHANGED <<job, served>> /\ clock' \in {clock, clock + 1}
  BY <1>1 DEF TaskStep, TickFails, Tick, TaskEnds
<1> QED BY <1>1 DEF Next, StartExecution, ExecutionEnds, Advance, vars

LEMMA JobStep == JobInv /\ [Next]_vars => JobInv'
<1> SUFFICES ASSUME JobInv, [Next]_vars PROVE JobInv'
  OBVIOUS
<1>1. ASSUME UNCHANGED <<job, served>>, clock' \in {clock, clock + 1} PROVE JobInv'
  BY <1>1 DEF JobInv, Accepted, AllFirst
<1> QED BY <1>1, JobSteps, ScheduleKeeps, TickShardKeeps

LEMMA JobInvariance == Spec => []JobInv
BY JobInit, JobStep, PTL DEF Spec

\* A daily schedule is delivered at most once for a local date, whatever the zone does to
\* the clock: two instants that are both the first of one date are one (Daily.Next).
THEOREM OncePerDateHolds == Spec => []OncePerDate
<1>1. JobInv => OncePerDate
  <2> SUFFICES ASSUME JobInv, job.state = "ready",
                      NEW s \in served \cup {job.due}, NEW t \in served \cup {job.due},
                      LocalDate(job.zone, s) = LocalDate(job.zone, t)
               PROVE  s = t
    BY DEF OncePerDate
  <2> DEFINE date == LocalDate(job.zone, s)
  <2>1. FirstShown(job.zone, job.local, date, s) /\ FirstShown(job.zone, job.local, date, t)
    BY DEF JobInv, AllFirst
  <2> HIDE DEF date
  <2>2. s \in Scan(date) /\ t \in Scan(date) /\ ~(s < t) /\ ~(t < s)
    BY <2>1 DEF FirstShown
  <2>3. s \in Int /\ t \in Int
    BY <2>2 DEF Scan
  <2> QED BY <2>2, <2>3
<1> QED BY <1>1, JobInvariance, PTL

\* An occurrence that is due stays with the job until it is delivered: no Tick, also none
\* that fails, moves on without it, and the adapter refuses none, since the message was
\* accepted with its envelope (Worker.deliver, Schedule.Validate).
THEOREM DueUntilServed == Spec => [][~LeavesUnserved]_vars
<1>1. JobInv /\ [Next]_vars => [~LeavesUnserved]_vars
  <2> SUFFICES ASSUME JobInv, [Next]_vars, Due,
                      job'.state # "ready" \/ job'.due # job.due
               PROVE  job.due \in served'
    BY DEF LeavesUnserved
  <2>1. job.state = "ready" /\ ValidateMessage(MessageForOccurrence(job.message))
    BY DEF Due, JobInv, Accepted
  <2>2. ~UNCHANGED job
    BY <2>1
  <2>3. PICK shard : TickShard(shard)
    BY <2>1, <2>2, JobSteps DEF Schedule
  <2> QED BY <2>1, <2>2, <2>3 DEF TickShard, Deliver
<1> QED BY <1>1, JobInvariance, PTL DEF Spec

\* The job waits for what Daily.Next found when it was last written.
Awaited ==
  job.state # "none" =>
    /\ job.state = "ready"
    /\ job.updatedAt \in Int
    /\ job.due \in DailyNext(job.zone, job.local, job.updatedAt)

\* In zones with offsets of at most a day, the due time is the first instant after the last
\* write that fires, and Daily.Next never fails (schedule.go).
THEOREM FirstOccurrenceHolds ==
  ASSUME \A zone \in Zones : WithinADay(zone)
  PROVE  Spec => []FirstOccurrence
<1>1. Init => Awaited
  BY DEF Init, NoJob, Awaited
<1>2. JobInv /\ Awaited /\ [Next]_vars => Awaited'
  <2> SUFFICES ASSUME JobInv, Awaited, [Next]_vars PROVE Awaited'
    OBVIOUS
  <2>1. clock \in Int
    BY DEF JobInv, Accepted
  <2>2. ASSUME NEW zone \in Zones, NEW local \in LocalTimes, NEW message \in Messages,
               NEW shard \in Shards, Schedule(zone, local, message, shard)
        PROVE  Awaited'
    BY <2>1, <2>2, ScheduleKeeps DEF Awaited
  <2>3. ASSUME NEW shard, TickShard(shard), clock' = clock PROVE Awaited'
    <3>1. CASE UNCHANGED job
      BY <3>1 DEF Awaited
    <3>2. CASE ~UNCHANGED job
      <4>1. /\ job.state = "ready" /\ job'.zone = job.zone /\ job'.local = job.local
            /\ \/ job'.state = "failed" /\ DailyNext(job.zone, job.local, clock) = {}
               \/ /\ job'.state = "ready" /\ job'.updatedAt = clock
                  /\ job'.due \in DailyNext(job.zone, job.local, clock)
        BY <2>3, <3>2, TickShardKeeps
      <4>2. job.zone \in Zone /\ WithinADay(job.zone) /\ job.local \in 0 .. DayLen - 1
        BY <4>1, InputAssumption DEF JobInv, Accepted
      <4>3. DailyNext(job.zone, job.local, clock) # {}
        BY <2>1, <4>2, DailyNextFacts
      <4> QED BY <2>1, <4>1, <4>3 DEF Awaited
    <3> QED BY <3>1, <3>2
  <2>4. ASSUME UNCHANGED job PROVE Awaited'
    BY <2>4 DEF Awaited
  <2> QED BY <2>2, <2>3, <2>4, JobSteps
<1>3. JobInv /\ Awaited => FirstOccurrence
  <2> SUFFICES ASSUME JobInv, Awaited, job.state # "none"
               PROVE  /\ job.state = "ready"
                      /\ job.due > job.updatedAt
                      /\ Fires(job.due)
                      /\ \A t \in (job.updatedAt + 1) .. (job.due - 1) : ~Fires(t)
    BY DEF FirstOccurrence
  <2>1. job.zone \in Zone /\ WithinADay(job.zone) /\ job.local \in 0 .. DayLen - 1
    BY InputAssumption DEF JobInv, Accepted
  <2>2. /\ job.due > job.updatedAt
        /\ FiresIn(job.zone, job.local, job.due)
        /\ \A t \in (job.updatedAt + 1) .. (job.due - 1) : ~FiresIn(job.zone, job.local, t)
    BY <2>1, DailyNextFacts DEF Awaited
  <2>3. \A t : Fires(t) <=> FiresIn(job.zone, job.local, t)
    BY DEF Fires, FiresIn
  <2> QED BY <2>2, <2>3 DEF Awaited
<1> QED BY <1>1, <1>2, <1>3, JobInvariance, PTL DEF Spec

------------------------------------------------------------------------------
(* Shards and tasks *)

Numbers == Int

TaskState == [pc: {"loop", "done", "failed"}, next: Numbers, last: Numbers, stride: Numbers]

\* The launches whose tasks share all shards; Stride tells their tasks apart.
Partitions(l) == l.explicit < 0 /\ l.count \in 0 .. ShardCount
Stride(l) == IF l.count = 0 THEN 1 ELSE l.count

\* A task has ticked its shards below the next one, and no task has another's.
Dealt ==
  /\ launch \in Launches
  /\ ticked \in [Shards -> Nat]
  /\ task = << >> => \A s \in Shards : ticked[s] = 0
  /\ task # << >> /\ Partitions(launch) =>
       /\ DOMAIN task = 0 .. Stride(launch) - 1
       /\ \A i \in 0 .. Stride(launch) - 1 :
            /\ task[i] \in TaskState
            /\ task[i].last = ShardCount - 1 /\ task[i].stride = Stride(launch)
            /\ task[i].next \in Nat /\ Remainder(task[i].next, Stride(launch)) = i
            /\ task[i].pc = "done" => ~InLoop(task[i])
       /\ \A s \in Shards :
            LET i == Remainder(s, Stride(launch))
            IN  ticked[s] = IF s < task[i].next THEN 1 ELSE 0

LEMMA StrideFacts ==
  ASSUME NEW l \in Launches, Partitions(l)
  PROVE  /\ Stride(l) \in Nat \ {0} /\ ShardCount \in Nat \ {0}
         /\ \A n \in Int : Remainder(n, Stride(l)) \in 0 .. Stride(l) - 1
         /\ \A n \in Nat : Remainder(n, Stride(l)) <= n
         /\ \A i \in 0 .. Stride(l) - 1 : i \in Int /\ Remainder(i, Stride(l)) = i
<1>1. l.explicit \in Int /\ l.count \in Int
  BY LaunchAssumption DEF Launch
<1>2. Stride(l) \in Nat \ {0} /\ ShardCount \in Nat \ {0}
  BY <1>1, ShardAssumption DEF Partitions, Stride
<1> DEFINE D == Stride(l)
<1> HIDE DEF D
<1>3. \A n \in Int : Remainder(n, D) \in 0 .. D - 1
  BY <1>2, DivFacts DEF D
<1>4. ASSUME NEW i \in 0 .. D - 1 PROVE i \in Int /\ Remainder(i, D) = i
  <2>1. D \in Nat \ {0} /\ i \in Int
    BY <1>2 DEF D
  <2>2. Times(D, 0) = 0
    <3>1. \A k \in Int : k * 0 = 0
      OBVIOUS
    <3> QED BY <2>1, <3>1 DEF Times
  <2>3. 0 \in Int
    OBVIOUS
  <2>5. Remainder(Times(D, 0) + i, D) = i
    BY <2>1, <2>3, DivUnique, Zenon
  <2>4. 0 + i = i
    BY <2>1
  <2> QED BY <2>1, <2>2, <2>4, <2>5
<1>5. ASSUME NEW n \in Nat PROVE Remainder(n, D) <= n
  <2> DEFINE i == Remainder(n, D)
  <2>1. i \in 0 .. D - 1 /\ D \in Nat \ {0} /\ i \in Int /\ n \in Int
    BY <1>2, <1>3 DEF D
  <2>2. Remainder(i, D) = Remainder(n, D)
    BY <1>4, <2>1
  <2>3. n < i => n + D <= i
    BY <2>1, <2>2, Residues
  <2> HIDE DEF i
  <2>4. i <= n
    BY <2>1, <2>3
  <2> QED BY <2>4 DEF i
<1> QED BY <1>2, <1>3, <1>4, <1>5 DEF D

\* The tasks of an execution start at their first shards.
LEMMA StartKeeps ==
  ASSUME Dealt, StartExecution PROVE Dealt'
<1>1. /\ task' = [index \in Indexes(launch) |-> StartedTask(launch, index)]
      /\ launch' = launch /\ ticked' = ticked /\ \A s \in Shards : ticked[s] = 0
  BY DEF StartExecution, Dealt
<1> DEFINE D == Stride(launch)
<1>2. ASSUME Partitions(launch), NEW i \in 0 .. D - 1
      PROVE  /\ StartedTask(launch, i) \in TaskState
             /\ StartedTask(launch, i).pc = "loop"
             /\ StartedTask(launch, i).next = i
             /\ StartedTask(launch, i).last = ShardCount - 1
             /\ StartedTask(launch, i).stride = D
  <2>1. launch.explicit \in Int /\ launch.count \in Int /\ ShardCount \in Nat \ {0}
    BY LaunchAssumption, ShardAssumption DEF Dealt, Launch
  <2>2. ShardRange(launch.explicit, i, launch.count) = Range(i, ShardCount - 1, D)
    BY <1>2, <2>1 DEF Partitions, Stride, ShardRange, ValidPartition
  <2>3. StartedTask(launch, i) =
          [pc |-> "loop", next |-> i, last |-> ShardCount - 1, stride |-> D]
    BY <2>2 DEF StartedTask, Range
  <2>4. i \in Numbers /\ ShardCount - 1 \in Numbers /\ D \in Numbers
    BY <2>1 DEF Numbers, Stride
  <2> QED BY <2>3, <2>4 DEF TaskState
<1>3. ASSUME Partitions(launch) PROVE Indexes(launch) = 0 .. D - 1
  BY <1>3, LaunchAssumption DEF Dealt, Launch, Partitions, Stride, Indexes
<1>4. ASSUME Partitions(launch), NEW s \in Shards
      PROVE  LET i == Remainder(s, D)
             IN  i \in 0 .. D - 1 /\ ~(s < i)
  BY <1>4, StrideFacts, ShardAssumption DEF Dealt, Shards
<1>5. ASSUME Partitions(launch)
      PROVE  /\ DOMAIN task' = 0 .. D - 1
             /\ \A i \in 0 .. D - 1 : task'[i] = StartedTask(launch, i)
             /\ \A i \in 0 .. D - 1 : i \in Nat /\ Remainder(i, D) = i
  <2>1. \A i \in 0 .. D - 1 : i \in Nat
    OBVIOUS
  <2> HIDE DEF D
  <2> QED BY <1>1, <1>3, <1>5, <2>1, StrideFacts DEF Dealt, D
<1> HIDE DEF D
<1>6. ASSUME Partitions(launch), NEW s \in Shards
      PROVE  LET i == Remainder(s, D)
             IN  ticked'[s] = IF s < task'[i].next THEN 1 ELSE 0
  BY <1>1, <1>2, <1>4, <1>5, <1>6
<1>7. \A s \in Shards : ticked'[s] = 0
  BY <1>1
<1> QED BY <1>1, <1>2, <1>5, <1>6, <1>7 DEF Dealt, D

\* A task ticks the next of its shards, and goes on by the stride: between the two there is
\* none of its own.
LEMMA TickDeals ==
  ASSUME Dealt, NEW i \in DOMAIN task, Tick(i) PROVE Dealt'
<1> DEFINE D == Stride(launch)
           n == task[i].next
<1>1. /\ task[i].pc = "loop" /\ InLoop(task[i]) /\ launch' = launch
      /\ ticked' = [ticked EXCEPT ![n] = @ + 1]
      /\ task' = [task EXCEPT ![i].next = @ + task[i].stride]
  BY DEF Tick
<1>2. ticked' \in [Shards -> Nat]
  <2>1. ASSUME NEW s \in Shards PROVE ticked'[s] \in Nat
    BY <1>1 DEF Dealt
  <2> HIDE DEF n
  <2> QED BY <1>1, <2>1 DEF Dealt
<1>3. task # << >> /\ task' # << >>
  <2>1. DOMAIN task' = DOMAIN task
    BY <1>1
  <2>2. DOMAIN << >> = 1 .. 0
    OBVIOUS
  <2>3. i \notin 1 .. 0
    OBVIOUS
  <2> QED BY <2>1, <2>2, <2>3
<1>4. ASSUME Partitions(launch)
      PROVE  /\ DOMAIN task' = 0 .. D - 1
             /\ \A j \in 0 .. D - 1 :
                  /\ task'[j] \in TaskState
                  /\ task'[j].last = ShardCount - 1 /\ task'[j].stride = D
                  /\ task'[j].next \in Nat /\ Remainder(task'[j].next, D) = j
                  /\ task'[j].pc = "done" => ~InLoop(task'[j])
             /\ \A s \in Shards :
                  LET j == Remainder(s, D)
                  IN  ticked'[s] = IF s < task'[j].next THEN 1 ELSE 0
  <2>1. /\ DOMAIN task = 0 .. D - 1
        /\ \A j \in 0 .. D - 1 :
             /\ task[j] \in TaskState
             /\ task[j].last = ShardCount - 1 /\ task[j].stride = D
             /\ task[j].next \in Nat /\ Remainder(task[j].next, D) = j
             /\ task[j].pc = "done" => ~InLoop(task[j])
        /\ \A s \in Shards :
             LET j == Remainder(s, D)
             IN  ticked[s] = IF s < task[j].next THEN 1 ELSE 0
    BY <1>3, <1>4 DEF Dealt
  <2>2. /\ D \in Nat \ {0} /\ ShardCount \in Nat \ {0}
        /\ \A s \in Int : Remainder(s, D) \in 0 .. D - 1
    BY <1>4, StrideFacts DEF Dealt
  <2> HIDE DEF D
  <2>3. /\ i \in 0 .. D - 1 /\ n \in Nat /\ Remainder(n, D) = i
        /\ n \in Shards /\ n + D \in Nat /\ Remainder(n + D, D) = i
    <3>1. n \in Nat /\ n <= ShardCount - 1 /\ Remainder(n, D) = i
      BY <1>1, <2>1 DEF InLoop
    <3>2. n \in Shards
      BY <2>2, <3>1 DEF Shards
    <3>3. n \in Int
      BY <3>1
    <3>4. Remainder(n + D, D) = Remainder(n, D)
      BY <2>2, <3>3, Residues
    <3>5. i \in 0 .. D - 1
      BY <2>1
    <3> HIDE DEF n
    <3>6. n + D \in Nat
      BY <2>2, <3>1
    <3>7. Remainder(n + D, D) = i
      BY <3>1, <3>4
    <3> QED BY <3>1, <3>2, <3>5, <3>6, <3>7
  <2> DEFINE after == [task[i] EXCEPT !.next = n + D]
  <2>4. task' = [task EXCEPT ![i] = after]
    BY <1>1, <2>1, <2>3
  <2>5. /\ after \in TaskState /\ after.next = n + D /\ after.pc = "loop"
        /\ after.last = ShardCount - 1 /\ after.stride = D
    <3>1. n + D \in Numbers
      BY <2>2, <2>3 DEF Numbers
    <3>2. task[i] \in TaskState
      BY <2>1
    <3> HIDE DEF n
    <3> QED BY <1>1, <2>1, <2>3, <3>1, <3>2 DEF TaskState
  <2> HIDE DEF after, n
  <2>6. task'[i] = after /\ DOMAIN task' = DOMAIN task
        /\ \A j \in 0 .. D - 1 : j # i => task'[j] = task[j]
    BY <2>1, <2>4
  <2>7. ASSUME NEW s \in Shards
        PROVE  LET j == Remainder(s, D)
               IN  ticked'[s] = IF s < task'[j].next THEN 1 ELSE 0
    <3> DEFINE j == Remainder(s, D)
               ticks == IF s < task[j].next THEN 1 ELSE 0
               ticksNext == IF s < task'[j].next THEN 1 ELSE 0
    <3>1. s \in Int /\ j \in 0 .. D - 1
      BY <2>2, ShardAssumption DEF Shards
    <3>2. ticked[s] = ticks
      BY <2>1
    <3>3. ASSUME s = n PROVE ticked'[s] = ticksNext
      <4>1. j = i
        BY <2>3, <3>3
      <4>2. ticked[s] = 0
        BY <2>3, <3>2, <3>3, <4>1 DEF n
      <4>3. ticked'[s] = 1
        BY <1>1, <3>3, <4>2 DEF Dealt
      <4>4. s < n + D
        BY <2>2, <2>3, <3>3
      <4> HIDE DEF j
      <4> QED BY <2>5, <2>6, <4>1, <4>3, <4>4
    <3>4. ASSUME s # n, j = i PROVE ticked'[s] = ticksNext
      <4>1. ticked'[s] = ticked[s]
        BY <1>1, <3>4 DEF Dealt
      <4>2. n \in Int /\ Remainder(n, D) = Remainder(s, D)
        BY <2>3, <3>4
      <4>3. n < s => n + D <= s
        BY <2>2, <3>1, <4>2, Residues
      <4>4. s < n <=> s < n + D
        BY <2>2, <3>1, <3>4, <4>2, <4>3
      <4>5. task[j].next = n /\ task'[j].next = n + D
        BY <2>5, <2>6, <3>4 DEF n
      <4> HIDE DEF j
      <4> QED BY <3>2, <4>1, <4>4, <4>5
    <3>5. ASSUME s # n, j # i PROVE ticked'[s] = ticksNext
      <4>1. ticked'[s] = ticked[s]
        BY <1>1, <3>5 DEF Dealt
      <4>2. task'[j] = task[j]
        BY <2>6, <3>1, <3>5
      <4> HIDE DEF j
      <4> QED BY <3>2, <4>1, <4>2
    <3>6. ticked'[s] = ticksNext
      BY <3>3, <3>4, <3>5
    <3> QED BY <3>6
  <2>8. ASSUME NEW j \in 0 .. D - 1
        PROVE  /\ task'[j] \in TaskState
               /\ task'[j].last = ShardCount - 1 /\ task'[j].stride = D
               /\ task'[j].next \in Nat /\ Remainder(task'[j].next, D) = j
               /\ task'[j].pc = "done" => ~InLoop(task'[j])
    BY <2>1, <2>3, <2>5, <2>6
  <2> QED BY <2>1, <2>6, <2>7, <2>8
<1> QED BY <1>1, <1>2, <1>3, <1>4 DEF Dealt

\* The end of a task changes its pc only.
LEMMA EndDeals ==
  ASSUME Dealt, NEW i \in DOMAIN task, TaskEnds(i) \/ TickFails(i) PROVE Dealt'
<1>1. PICK pc \in {"done", "failed"} :
        /\ task' = [task EXCEPT ![i].pc = pc] /\ launch' = launch /\ ticked' = ticked
        /\ pc = "done" => ~InLoop(task[i])
  BY DEF TaskEnds, TickFails
<1>2. task # << >> /\ task' # << >>
  <2>1. DOMAIN task' = DOMAIN task
    BY <1>1
  <2>2. DOMAIN << >> = 1 .. 0
    OBVIOUS
  <2>3. i \notin 1 .. 0
    OBVIOUS
  <2> QED BY <2>1, <2>2, <2>3
<1>3. ASSUME Partitions(launch)
      PROVE  /\ DOMAIN task' = DOMAIN task
             /\ \A j \in DOMAIN task :
                  /\ task'[j] \in TaskState
                  /\ task'[j].last = task[j].last /\ task'[j].stride = task[j].stride
                  /\ task'[j].next = task[j].next
                  /\ task'[j].pc = "done" => ~InLoop(task'[j])
  <2> DEFINE after == [task[i] EXCEPT !.pc = pc]
  <2>1. task' = [task EXCEPT ![i] = after]
    BY <1>1
  <2>2. \A j \in DOMAIN task : task[j] \in TaskState /\ (task[j].pc = "done" => ~InLoop(task[j]))
    BY <1>2, <1>3 DEF Dealt
  <2>3. /\ after \in TaskState /\ after.next = task[i].next /\ after.pc = pc
        /\ after.last = task[i].last /\ after.stride = task[i].stride
    BY <2>2 DEF TaskState
  <2> HIDE DEF after
  <2>4. task'[i] = after /\ \A j \in DOMAIN task : j # i => task'[j] = task[j]
    BY <2>1
  <2>5. DOMAIN task' = DOMAIN task
    BY <2>1
  <2> QED BY <1>1, <2>2, <2>3, <2>4, <2>5 DEF InLoop
<1>4. ASSUME Partitions(launch)
      PROVE  \A s \in Shards : LET j == Remainder(s, Stride(launch))
                              IN  ticked'[s] = IF s < task'[j].next THEN 1 ELSE 0
  <2> SUFFICES ASSUME NEW s \in Shards
               PROVE  LET j == Remainder(s, Stride(launch))
                      IN  ticked'[s] = IF s < task'[j].next THEN 1 ELSE 0
    OBVIOUS
  <2> DEFINE j == Remainder(s, Stride(launch))
  <2>1. s \in Int
    BY ShardAssumption DEF Shards
  <2>2. j \in DOMAIN task
    BY <1>2, <1>4, <2>1, StrideFacts DEF Dealt
  <2>3. ticked[s] = IF s < task[j].next THEN 1 ELSE 0
    BY <1>2, <1>4 DEF Dealt
  <2>4. task'[j].next = task[j].next
    BY <1>3, <1>4, <2>2
  <2>5. ticked'[s] = IF s < task'[j].next THEN 1 ELSE 0
    BY <1>1, <2>3, <2>4
  <2> QED BY <2>5
<1>5. ASSUME Partitions(launch)
      PROVE  /\ DOMAIN task' = 0 .. Stride(launch) - 1
             /\ \A j \in 0 .. Stride(launch) - 1 :
                  /\ task'[j] \in TaskState
                  /\ task'[j].last = ShardCount - 1 /\ task'[j].stride = Stride(launch)
                  /\ task'[j].next \in Nat /\ Remainder(task'[j].next, Stride(launch)) = j
                  /\ task'[j].pc = "done" => ~InLoop(task'[j])
  <2>1. DOMAIN task = 0 .. Stride(launch) - 1
    BY <1>2, <1>5 DEF Dealt
  <2>2. \A j \in DOMAIN task :
          /\ task[j].last = ShardCount - 1 /\ task[j].stride = Stride(launch)
          /\ task[j].next \in Nat /\ Remainder(task[j].next, Stride(launch)) = j
    BY <1>2, <1>5 DEF Dealt
  <2>3. \A j \in DOMAIN task : Remainder(task'[j].next, Stride(launch)) = j
    BY <1>3, <1>5, <2>2
  <2> QED BY <1>3, <1>5, <2>1, <2>2, <2>3
<1>6. launch' = launch /\ launch \in Launches /\ ticked' = ticked /\ ticked \in [Shards -> Nat]
  BY <1>1 DEF Dealt
<1> QED BY <1>2, <1>4, <1>5, <1>6 DEF Dealt

\* "Every shard is assigned once for 1..32 Cloud Run tasks" (shardRange): an execution whose
\* tasks all end well has ticked each shard once, for any number of shards and of tasks.
THEOREM EveryShardOnceHolds == Spec => []EveryShardOnce
<1>1. Init => Dealt
  BY DEF Init, Dealt
<1>2. Dealt /\ [Next]_vars => Dealt'
  <2> SUFFICES ASSUME Dealt, [Next]_vars PROVE Dealt'
    OBVIOUS
  <2>1. ASSUME UNCHANGED <<launch, ticked, task>> PROVE Dealt'
    BY <2>1 DEF Dealt
  <2>2. ASSUME ExecutionEnds PROVE Dealt'
    BY <2>2 DEF ExecutionEnds, Dealt
  <2> QED BY <2>1, <2>2, StartKeeps, TickDeals, EndDeals
          DEF Next, TaskStep, Schedule, Advance, vars
<1>3. Dealt => EveryShardOnce
  <2> SUFFICES ASSUME Dealt, Ended, Partitions(launch),
                      \A i \in DOMAIN task : task[i].pc = "done",
                      NEW s \in Shards
               PROVE  ticked[s] = 1
    BY DEF EveryShardOnce, AllDealt, Partitions
  <2> DEFINE i == Remainder(s, Stride(launch))
  <2>1. i \in DOMAIN task /\ s \in Int /\ s <= ShardCount - 1 /\ ShardCount \in Nat
    BY StrideFacts, ShardAssumption DEF Dealt, Ended, Shards
  <2>2. /\ task[i].next \in Nat /\ task[i].last = ShardCount - 1 /\ ~InLoop(task[i])
        /\ ticked[s] = IF s < task[i].next THEN 1 ELSE 0
    BY <2>1 DEF Dealt, Ended
  <2> QED BY <2>1, <2>2 DEF InLoop
<1> QED BY <1>1, <1>2, <1>3, PTL DEF Spec

============================================================================
