SPECIFICATION Spec
CONSTANTS
    a = a  b = b
    c1 = c1  c2 = c2
    k1 = k1  k2 = k2
    l1 = l1  l2 = l2
    Replicas <- TwoReplicas
    Callers <- TwoCallers
    Links <- TwoLinks
    Callbacks <- TwoCallbacks
    NoLink = NoLink
    NoOne = NoOne
    MaxTokens = 2
    MaxCrashes = 1
INVARIANTS SingleFlight RowIsRedeemable CompletedWasStored DroppedIsGone
SYMMETRY Symmetry
CHECK_DEADLOCK FALSE
