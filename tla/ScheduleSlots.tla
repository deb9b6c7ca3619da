---------------------------- MODULE ScheduleSlots ---------------------------
(***************************************************************************)
(* The calendar search of packages/shared/src/next-run-at.ts: from a       *)
(* schedule, a time zone and an instant to the instant of the next slot.   *)
(* TaskSchedule takes the slots of a trigger as a set of instants and the  *)
(* next one as its least eligible element; this module checks that the     *)
(* code, which walks local dates, computes just that.                      *)
(*                                                                         *)
(* Instants and local times are hours since a midnight in January, dates   *)
(* are days since then.  A zone has one offset before its change and       *)
(* another from it on, in hours.                                           *)
(***************************************************************************)
EXTENDS Integers, Sequences, FiniteSets

CONSTANTS
    Zones,     \* [before, after, change]
    Rules,     \* [day, hour, freq, days, paused]: day and hour are of trigger.at
    Instants,  \* bound: the instants to search from
    Dates      \* bound: the dates the search is judged by

Freqs == {"once", "daily", "weekly", "monthly"}

ASSUME ZonesAssumption == Zones \subseteq [before: Int, after: Int, change: Int]
ASSUME RulesAssumption ==
    \A t \in Rules : /\ t.day \in Nat /\ t.hour \in 0..23 /\ t.freq \in Freqs
                     /\ t.days \subseteq 0..6 /\ t.paused \in BOOLEAN
                     /\ t.freq = "weekly" => t.days # {}
ASSUME DatesAssumption == Dates \subseteq Nat /\ Instants \subseteq Nat

NoSlot == -1
SearchDays == 400

-----------------------------------------------------------------------------
(* The calendar.                                                           *)

MonthLengths == <<31, 28, 31, 30, 31, 30, 31, 31, 30, 31, 30, 31>>

\* The first days of the months of a year.
MonthStart == <<0, 31, 59, 90, 120, 151, 181, 212, 243, 273, 304, 334>>

MonthOf(d) == CHOOSE m \in 1..12 :
                  (d % 365) \in MonthStart[m]..(MonthStart[m] + MonthLengths[m] - 1)
DayOfMonth(d) == (d % 365) - MonthStart[MonthOf(d)] + 1
DaysInMonth(d) == MonthLengths[MonthOf(d)]
Weekday(d) == d % 7

OffsetAt(z, u) == IF u < z.change THEN z.before ELSE z.after
LocalTime(z, u) == u + OffsetAt(z, u)

-----------------------------------------------------------------------------
(* next-run-at.ts                                                          *)

\* The offset is looked up at a guess, and once more at what the guess gives.
ZonedLocalToUtc(z, l) == l - OffsetAt(z, l - OffsetAt(z, l))

WallTime(t, d) == 24 * d + t.hour
SlotOn(z, t, d) == ZonedLocalToUtc(z, WallTime(t, d))
AtUtc(z, t) == SlotOn(z, t, t.day)

MatchesRecurrence(t, d) ==
    CASE t.freq = "once" -> d = t.day
      [] t.freq = "daily" -> TRUE
      [] t.freq = "weekly" -> Weekday(d) \in t.days
      [] t.freq = "monthly" ->
            LET atDay == DayOfMonth(t.day)
                lastDay == DaysInMonth(d)
            IN  DayOfMonth(d) = IF atDay <= lastDay THEN atDay ELSE lastDay

Eligible(z, t, u, from, after) ==
    /\ u >= AtUtc(z, t)
    /\ IF after THEN u > from ELSE u >= from

StartDateInUtc(z, t, from) ==  \* mutant of StartDate
    IF from < AtUtc(z, t) THEN t.day ELSE from \div 24

\* The date the search begins with.
StartDate(z, t, from) ==
    IF from < AtUtc(z, t) THEN t.day ELSE LocalTime(z, from) \div 24

\* nextRunAt: of the dates from there on, the first that has an eligible slot.
NextSlot(z, t, from, after) ==
    LET start == StartDate(z, t, from)
        days == start..(start + SearchDays - 1)
        Found(d) == MatchesRecurrence(t, d) /\ Eligible(z, t, SlotOn(z, t, d), from, after)
    IN  CASE t.paused -> NoSlot
          [] ~t.paused /\ t.freq = "once" ->
                IF Eligible(z, t, AtUtc(z, t), from, after) THEN AtUtc(z, t) ELSE NoSlot
          [] OTHER ->
                IF \A d \in days : ~Found(d) THEN NoSlot
                ELSE SlotOn(z, t, CHOOSE d \in days : /\ Found(d)
                                                     /\ \A e \in start..(d - 1) : ~Found(e))

-----------------------------------------------------------------------------
\* What the operator has asked for: the day itself, every day, the weekdays chosen, or
\* that day of each month, which is the last one of a month that is too short.
DueOn(t, d) ==
    /\ ~t.paused
    /\ CASE t.freq = "once" -> d = t.day
         [] t.freq = "daily" -> TRUE
         [] t.freq = "weekly" -> \E w \in t.days : (d - w) % 7 = 0
         [] t.freq = "monthly" -> \/ DayOfMonth(d) = DayOfMonth(t.day)
                                  \/ /\ DayOfMonth(d) < DayOfMonth(t.day)
                                     /\ MonthOf(d + 1) # MonthOf(d)

\* The search finds the least eligible slot of the schedule, over all dates there are:
\* beginning with the local date of an instant skips none although slots move with
\* the clocks, taking dates in their order takes slots in theirs, short months are
\* not left out, and the search ends with nothing only for a schedule that is
\* paused or spent.
FindsLeast(z, t, slots, from, after) ==
    LET next == NextSlot(z, t, from, after)
        eligible == {u \in slots : Eligible(z, t, u, from, after)}
    IN  IF next = NoSlot THEN eligible = {}
        ELSE next \in eligible /\ \A u \in eligible : next <= u

\* A slot has the wall time that was chosen if there is such a time on its date, on both
\* sides of a change of the clocks and when the guess is on the wrong one.
KeepsWallTime(z, t, d) ==
    LET wall == WallTime(t, d) IN
    (\E u \in (wall - 24)..(wall + 24) : LocalTime(z, u) = wall)
        => LocalTime(z, SlotOn(z, t, d)) = wall

\* All of it, for all zones, schedules and instants of the instance.
FindsSlots ==
    \A z \in Zones, t \in Rules :
        LET slots == {SlotOn(z, t, d) : d \in {e \in Dates : DueOn(t, e)}} IN
        /\ \A d \in Dates : KeepsWallTime(z, t, d)
        /\ \A from \in Instants, after \in BOOLEAN : FindsLeast(z, t, slots, from, after)

\* The zones in which the search is proved right for all schedules: the clocks change
\* by less than a day, do not go back to a date that is over, and, when they go
\* forward, the hours they skip and as many after them are of one date.
Orderly(z) ==
    /\ z.after - z.before < 24 /\ z.before - z.after < 24
    /\ (z.change + z.before - 1) \div 24 <= (z.change + z.after) \div 24
    /\ z.before < z.after =>
          (z.change + 2 * z.after - z.before - 1) \div 24 <= (z.change + z.before) \div 24

\* Refuted: a slot is on its date.  See the README.
OnOwnDate ==
    \A z \in Zones, t \in Rules, d \in Dates : LocalTime(z, SlotOn(z, t, d)) \div 24 = d
=============================================================================
