SPECIFICATION FairSpec
CONSTANTS
    t1 = t1  t2 = t2
    r1 = r1  r2 = r2  r3 = r3
    gated = gated  open = open
    Tasks <- OneTask
    Handlers <- TwoHandlers
    Calls <- MCCalls
    Gated <- MCGated
    NoId = NoId
    MaxCrashes = 0
PROPERTY ApprovedSettles
