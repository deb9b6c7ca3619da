---------------------------- MODULE ScheduledTask ---------------------------
(***************************************************************************)
(* TaskSchedule with the calendar of ScheduleSlots behind it.  The row of a*)
(* task holds what packages/shared/src/next-run-at.ts returns; TaskSchedule*)
(* takes it for the least of a set of instants, and ScheduleSlots says what*)
(* it is for a day, an hour, a recurrence and a time zone.                 *)
(***************************************************************************)
EXTENDS TaskSchedule, ScheduleSlots

\* The instants a schedule fires at, in one zone.
SlotsOf(z, t) == {u \in {SlotOn(z, t, d) : d \in {e \in Dates : DueOn(t, e)}} : u >= AtUtc(z, t)}

\* What TaskSchedule makes of a slot rests on nextRunAt: the slot a schedule waits for
\* is the first, at or after an instant or strictly after it, of what the operator has asked for,
\* at the wall time that was chosen, whatever the clocks do (task-run.test.ts:
\* "keeps 9am wall time across the spring-forward DST gap", "uses the last day of short
\* months for a 31st monthly schedule").
SlotsAsScheduled == row.next # Never => FindsSlots
=============================================================================
