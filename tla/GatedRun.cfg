SPECIFICATION FairJointSpec
CONSTANTS
    d1 = d1  d2 = d2
    a = a  b = b
    c1 = c1  c2 = c2
    Drivers <- TwoDrivers
    Replicas <- TwoReplicas
    Home <- Apart
    Calls <- OneCall
    Messages <- NoMessages
    NoOne = NoOne
    NoCall = NoCall
    MaxReopens = 0
    MaxCrashes = 1
    Lapses = FALSE
PROPERTIES DecidedParkIsPickedUp ExecutedForItsRun
CHECK_DEADLOCK FALSE
