SPECIFICATION Spec
CONSTANTS
    a = a  b = b
    q1 = q1  q2 = q2  q3 = q3
    n1 = n1  n2 = n2
    s1 = s1  t1 = t1  t2 = t2
    Replicas <- TwoReplicas
    Requests <- ThreeRequests
    Names <- TwoNames
    Servers <- OneServer
    Tools <- TwoTools
    Bodies <- MCBodies
    NoPolicy = NoPolicy
    Down = Down
INVARIANTS DecidesAsCommitted SeesOwnWrites
SYMMETRY Symmetry
CHECK_DEADLOCK FALSE
