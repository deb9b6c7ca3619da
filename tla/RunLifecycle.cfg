SPECIFICATION Spec
CONSTANTS
    d1 = d1  d2 = d2  d3 = d3
    a = a  b = b
    c1 = c1  c2 = c2
    m1 = m1  m2 = m2
    Drivers <- TwoDrivers
    Replicas <- TwoReplicas
    Home <- Together
    Calls <- TwoCalls
    Messages <- OneMessage
    NoOne = NoOne
    NoCall = NoCall
    MaxReopens = 1
    MaxCrashes = 1
    Lapses = TRUE
INVARIANTS SoleDriver OutcomePerSegment CompletedIsReleased OwnAnswer
PROPERTY LeavesNoOrphan TranscriptKept OrphanedOnlyBySetup
SYMMETRY Alike
CONSTRAINT OneTrouble
CHECK_DEADLOCK FALSE
