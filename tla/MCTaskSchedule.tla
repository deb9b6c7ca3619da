--------------------------- MODULE MCTaskSchedule ---------------------------
(* Small instances of TaskSchedule for TLC.                                *)
EXTENDS ScheduledTask, TLC

CONSTANTS d1, d2, e1, e2, hourly, once, paused

TwoDispatchers == {d1, d2}
OneEditor == {e1}
MCTriggers == {hourly, once, paused}
MCFires == (hourly :> {2, 3}) @@ (once :> {3}) @@ (paused :> {})
MCOneShots == {once}
Symmetry == Permutations(TwoDispatchers)

\* The clocks change about the midnight that begins date 59, the first of March:
\* forward and back at two in Berlin, New York and Auckland, at midnight in Havana and Cairo.
Change(hour, before, after) == [before |-> before, after |-> after, change |-> 24 * 59 + hour]
MCZones == {Change(1, 1, 2), Change(1, 2, 1), Change(7, -5, -4), Change(6, -4, -5),
            Change(-10, 12, 13), Change(-10, 13, 12), Change(5, -5, -4), Change(5, -4, -5),
            Change(-2, 2, 3), Change(-3, 3, 2)}
MCRules == [day: {30, 57, 58}, hour: {0, 2, 23}, freq: {"once", "daily", "monthly"},
            days: {{}}, paused: {FALSE}]
           \cup [day: {57}, hour: {0, 2, 23}, freq: {"weekly"}, days: {{3}, {2, 4}, {6}},
                 paused: BOOLEAN]
\* Where the search is not what is checked.
NoRules == {}
MCInstants == (24 * 57 + 12)..(24 * 60 + 12)
MCDates == 29..95

\* The zones are among those that the search is proved for.
ASSUME ZonesAreOrderly == \A z \in Zones : Orderly(z)
=============================================================================
