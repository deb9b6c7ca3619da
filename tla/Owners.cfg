SPECIFICATION Spec
CONSTANTS
    o1 = o1  o2 = o2
    s1 = s1  s2 = s2
    a1 = a1
    q1 = q1  q2 = q2
    OwnerIds <- MCOwnerIds
    Subjects <- MCSubjects
    Agents <- MCAgents
    Requests <- MCRequests
    NoOwner = NoOwner
    NoSubject = NoSubject
    NoAgent = NoAgent
    MaxRequests = 4
    MaxCrashes = 1
SYMMETRY MCSymmetry
INVARIANTS
    LastAdminStays
    AgentsHaveOwners
    AgentsAreGranted
    WipedFirst
CHECK_DEADLOCK FALSE
