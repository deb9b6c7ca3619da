SPECIFICATION FairSpec
CONSTANTS
    Runs <- MCRuns
    Uids <- MCUids
    Requests = {q1, q2}
    Sweepers = {s1}
    NoUid = NoUid
    NoOne = NoOne
    MaxReopens = 1
    MaxCrashes = 1
INVARIANTS
    UidsApart
    WorkspaceStands
    UidsAccounted
PROPERTIES
    FilesKept
    WorkspaceGoes
