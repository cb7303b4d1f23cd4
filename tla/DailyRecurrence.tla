--------------------------- MODULE DailyRecurrence ---------------------------
(***************************************************************************)
(* Daily.Next of scheduler/schedule.go: the next instant at which a wall   *)
(* clock in a time zone shows a given time of the day, through gaps,       *)
(* repeated hours, and days that a zone skips or lives twice.              *)
(*                                                                         *)
(* Instants and offsets are integers in one unit, DayLen of them a day.  A *)
(* zone is an offset with one change: what the scan of one week meets.     *)
(***************************************************************************)
EXTENDS Integers

CONSTANT DayLen    \* 24 hours in minutes; the model takes a coarser unit

ASSUME DayAssumption == DayLen \in Nat \ {0}

Zone == [before: Int, at: Int, after: Int]

Offset(zone, t) == IF t < zone.at THEN zone.before ELSE zone.after
LocalDate(zone, t) == (t + Offset(zone, t)) \div DayLen
WallTime(zone, t) == (t + Offset(zone, t)) % DayLen

\* HHMM stands for one of the DayLen units of a day.
ValidLocalTime(local) == local \in 0 .. DayLen - 1

\* The instants the inner loop visits for a date: noon of the date in UTC, 36 hours
\* to each side; faulty: the date in UTC only.
ScanUtcDate(date) == (date * DayLen) .. (date * DayLen + DayLen - 1)
Scan(date) == (date * DayLen - DayLen) .. (date * DayLen + 2 * DayLen - 1)

Shows(zone, t, date, local) == LocalDate(zone, t) = date /\ WallTime(zone, t) = local

\* Where the inner loop stops for the date: at the first instant with that date and
\* time, if there is one after "after"; faulty: it goes on to the repeated one.
AnyMatch(zone, local, date, after) ==
  {t \in Scan(date) : t > after /\ Shows(zone, t, date, local)}
FirstMatch(zone, local, date, after) ==
  {t \in Scan(date) :
     /\ t > after
     /\ Shows(zone, t, date, local)
     /\ \A u \in Scan(date) : u < t => ~Shows(zone, u, date, local)}

\* Daily.Next: the first of eight dates whose scan finds an instant.  The set is empty when
\* the code returns its error.
DailyNext(zone, local, after) ==
  LET date(day) == LocalDate(zone, after) + day
  IN  UNION {FirstMatch(zone, local, date(day), after) :
               day \in {d \in 0 .. 7 :
                          \A e \in 0 .. d - 1 : FirstMatch(zone, local, date(e), after) = {}}}

==============================================================================
