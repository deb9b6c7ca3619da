SPECIFICATION Spec
CONSTANTS
    a = a  b = b
    q1 = q1  q2 = q2
    s1 = s1  u1 = u1  u2 = u2
    Replicas <- TwoReplicas
    Requests <- TwoRequests
    Shared <- OneShared
    Owned <- TwoOwned
    None = None
    MaxRequests = 2
    MaxFaults = 1
INVARIANTS RegistryConverges ConnectionConverges
SYMMETRY Symmetry
CHECK_DEADLOCK FALSE
