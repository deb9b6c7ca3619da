SPECIFICATION Spec
CONSTANTS
    d1 = d1  d2 = d2
    e1 = e1  e2 = e2
    hourly = hourly  once = once  paused = paused
    Dispatchers <- TwoDispatchers
    Editors <- OneEditor
    Triggers <- MCTriggers
    Fires <- MCFires
    OneShots <- MCOneShots
    MaxTime = 3
    Zones <- MCZones
    Rules <- MCRules
    Instants <- MCInstants
    Dates <- MCDates
    MaxEdits = 1
    MaxCrashes = 1
    MaxRuns = 0
    Slow = TRUE
INVARIANTS SlotFiredOnce WaitsForOwnSlot SlotsAsScheduled
CHECK_DEADLOCK FALSE
SYMMETRY Symmetry
