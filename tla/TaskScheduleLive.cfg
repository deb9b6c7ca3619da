SPECIFICATION FairSpec
CONSTANTS
    d1 = d1  d2 = d2
    e1 = e1  e2 = e2
    hourly = hourly  once = once  paused = paused
    Dispatchers <- TwoDispatchers
    Editors <- OneEditor
    Triggers <- MCTriggers
    Fires <- MCFires
    OneShots <- MCOneShots
    MaxTime = 3
    Zones <- MCZones
    Rules <- NoRules
    Instants <- MCInstants
    Dates <- MCDates
    MaxEdits = 1
    MaxCrashes = 1
    MaxRuns = 1
    Slow = FALSE
PROPERTY DueSlotSettles
CHECK_DEADLOCK FALSE
