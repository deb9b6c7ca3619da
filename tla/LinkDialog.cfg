SPECIFICATION DialogSpec
CONSTANTS
    p1 = p1  p2 = p2
    r1 = r1  r2 = r2
    Providers <- OneProvider
    None = None
    Requests <- TwoRequests
    MaxLinks = 2
    MaxTries = 2
INVARIANTS DialogTypeOK ErrorsAreOwn PopupIsHeld WaitCanEnd
PROPERTY LinkedIsStored
SYMMETRY Symmetry
CHECK_DEADLOCK FALSE
