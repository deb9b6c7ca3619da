----------------------------- MODULE OwnersProofs ---------------------------
(***************************************************************************)
(* Proofs about Owners.  A request decides, awaits, and then writes on     *)
(* the strength of what it knew.  The invariant says what each request     *)
(* still knows at each of its points: what it was sent with (Formed), that *)
(* an active admin will remain (Informed), which agents it has not listed  *)
(* (Listed), and that Torii has wiped (Wiped).                             *)
(***************************************************************************)
EXTENDS Owners, FiniteSetTheorems, TLAPS

LoginPoints == {"finding", "hinting", "binding", "allocating", "counting", "inserting"}

\* What a request at this point was given.
Formed(r) ==
    /\ r.at \in {"binding", "counting", "inserting", "checking", "updating", "opening",
                 "wiping", "listing", "deleting", "creating", "seeding", "upserting"}
          => r.owner \in OwnerIds
    /\ r.at \in LoginPoints => r.subject \in Subjects
    /\ r.at \in LoginPoints \cup {"checking", "updating"} => r.role \in Role
    /\ r.at \in {"creating", "granting"} => r.agent \in Agents
    /\ r.at \in {"seeding", "upserting"} => r.path = "boot"

\* A change that is decided on, and not overtaken, leaves an active admin.
Informed(r) ==
    (r.at \in Decided /\ ~r.blind /\ r.path # "boot") =>
        \/ \E o \in OwnerIds \ {r.owner} : isActiveAdmin(owner[o])
        \/ ~isActiveAdmin(owner[r.owner])
        \/ r.at = "updating" /\ r.status = "active" /\ r.role = "admin"

\* A login is made a member only when there is, or was, somebody to govern.
Governs(r) == (r.at = "inserting" /\ r.role # "admin") => governed

\* A deletion knows every agent of the owner but those created since.
Listed(r) ==
    r.at = "deleting" =>
        \A a \in Agents : agent[a] = r.owner => a \in strays \/ a \in r.doomed

\* A deletion that has passed the wipe has wiped.
Wiped(r) ==
    (r.at \in {"listing", "deleting"} /\ r.path # "boot") =>
        (r.owner \in linked => r.owner \in relinked)

Sound(r) == Formed(r) /\ Informed(r) /\ Governs(r) /\ Listed(r) /\ Wiped(r)

\* A bound row has a subject, and an active admin governs.
BoundToSubject == \A o \in OwnerIds : owner[o].bound => owner[o].subject \in Subjects
AdminsGovern == (\E o \in OwnerIds : isActiveAdmin(owner[o])) => governed

IInv ==
    /\ TypeOK /\ LastAdminStays /\ AgentsHaveOwners /\ AgentsAreGranted /\ WipedFirst
    /\ BoundToSubject /\ AdminsGovern
    /\ \A q \in Requests : Sound(req[q])

-----------------------------------------------------------------------------
(* Lemmas about single definitions.                                        *)

LEMMA IdleLemma ==
    Idle \in Request /\ Idle.at = "idle" /\ Sound(Idle) /\ Sound(Idle)'
BY DEF Idle, Request, Points, Paths, Status, Role, Sound, Formed, Informed, Governs,
   Listed, Wiped, LoginPoints, Decided

LEMMA RowLemma ==
    /\ NoRow \notin Row /\ ~isActiveAdmin(NoRow) /\ ~NoRow.bound
    /\ \A row \in Row : row # NoRow
BY DEF NoRow, Row, Status, isActiveAdmin

\* There is an active admin.
LEMMA AdminLemma ==
    /\ ActiveAdmins(owner) # {} <=> \E o \in OwnerIds : isActiveAdmin(owner[o])
    /\ ActiveAdmins(owner') # {} <=> \E o \in OwnerIds : isActiveAdmin(owner'[o])
BY DEF ActiveAdmins

\* Of two active admins, one is not o.
LEMMA CountLemma ==
    ASSUME NEW o, ~(Cardinality(ActiveAdmins(owner)) <= 1)
    PROVE  \E p \in OwnerIds \ {o} : isActiveAdmin(owner[p])
<1>1. IsFiniteSet(ActiveAdmins(owner))
  BY FS_Subset, FiniteAssumption DEF ActiveAdmins
<1>2. Cardinality(ActiveAdmins(owner)) \in Nat
  BY <1>1, FS_CardinalityType
<1>3. Cardinality(ActiveAdmins(owner)) # 0 /\ Cardinality(ActiveAdmins(owner)) # 1
  BY <1>2
<1>4. ActiveAdmins(owner) # {} /\ ActiveAdmins(owner) # {o}
  BY <1>3, FS_EmptySet, FS_Singleton
<1>5. PICK p \in ActiveAdmins(owner) : p # o
  BY <1>4
<1> QED
  BY <1>5 DEF ActiveAdmins

\* The request of q, and nobody else's, becomes next.
Becomes(q, next) ==
    /\ req' \in [Requests -> Request]
    /\ req'[q] = next
    /\ \A p \in Requests \ {q} : req'[p] = req[p]

LEMMA GoesLemma ==
    ASSUME TypeOK, NEW q \in Requests, NEW next \in Request, Goes(q, next)
    PROVE  Becomes(q, next)
BY DEF TypeOK, Goes, Becomes

LEMMA ArrivesLemma ==
    ASSUME TypeOK, NEW q \in Requests, NEW next \in Request, Arrives(q, next)
    PROVE  /\ Becomes(q, next) /\ req[q] = Idle
           /\ begun' \in 0..MaxRequests /\ crashes' = crashes
<1>1. begun' = begun + 1 /\ begun < MaxRequests /\ Goes(q, next)
  BY DEF Arrives
<1>2. begun' \in 0..MaxRequests
  BY <1>1, BoundsAssumption DEF TypeOK
<1> QED
  BY <1>1, <1>2, GoesLemma DEF Arrives

-----------------------------------------------------------------------------
(* Steps that only bring a request forward.                                *)

LEMMA QuietLemma ==
    ASSUME IInv, NEW q \in Requests, NEW next \in Request, Becomes(q, next),
           req[q].at # "granting", Sound(next),
           begun' \in 0..MaxRequests, crashes' \in 0..MaxCrashes,
           UNCHANGED <<owner, admins, agents, torii>>
    PROVE  IInv'
<1> USE DEF admins, agents, torii
<1>1. TypeOK' /\ LastAdminStays' /\ AgentsHaveOwners' /\ WipedFirst'
  BY DEF IInv, TypeOK, LastAdminStays, ActiveAdmins, AgentsHaveOwners, WipedFirst, exists,
     Becomes
<1>2. BoundToSubject' /\ AdminsGovern'
  BY DEF IInv, BoundToSubject, AdminsGovern
<1>3. AgentsAreGranted'
  BY DEF IInv, AgentsAreGranted, Becomes
<1>4. ASSUME NEW p \in Requests PROVE Sound(req[p])'
  <2>1. Sound(req[p])
    BY DEF IInv
  <2>2. req'[p] = req[p] \/ req'[p] = next
    BY DEF Becomes
  <2>3. Sound(req'[p])
    BY <2>1, <2>2
  <2> QED
    BY <2>3 DEF Sound, Formed, Informed, Governs, Listed, Wiped
<1> QED
  BY <1>1, <1>2, <1>3, <1>4 DEF IInv


LEMMA StayLemma ==
    ASSUME IInv, NEW q \in Requests
    PROVE  /\ TypeOK /\ req[q] \in Request /\ Sound(req[q])
           /\ begun \in 0..MaxRequests /\ crashes \in 0..MaxCrashes
BY DEF IInv, TypeOK

\* The request of q is given up.
LEMMA GivesUpLemma ==
    ASSUME IInv, NEW q \in Requests, Goes(q, Idle), req[q].at # "granting",
           UNCHANGED <<owner, counters, admins, agents, torii>>
    PROVE  IInv'
BY StayLemma, GoesLemma, IdleLemma, QuietLemma DEF counters

LEMMA LoginLemma ==
    ASSUME IInv, NEW q \in Requests, NEW s \in Subjects,
           NEW hint \in OwnerIds \cup {NoOwner}, NEW role \in Role, Login(q, s, hint, role)
    PROVE  IInv'
<1> DEFINE next == [Idle EXCEPT !.at = "finding", !.path = "hint", !.subject = s,
                                !.hint = hint, !.role = role]
<1>1. next \in Request /\ Sound(next)
  BY DEF Idle, Request, Points, Paths, Status, Role, Sound, Formed, Informed, Governs,
     Listed, Wiped, LoginPoints, Decided
<1>2. Arrives(q, next) /\ UNCHANGED <<owner, admins, agents, torii>>
  BY DEF Login
<1> HIDE DEF next
<1>3. Becomes(q, next) /\ req[q].at # "granting" /\ begun' \in 0..MaxRequests
        /\ crashes' \in 0..MaxCrashes
  BY <1>1, <1>2, StayLemma, ArrivesLemma, IdleLemma
<1> QED
  BY <1>1, <1>2, <1>3, QuietLemma

\* A login that goes on, not to its INSERT, knows what it has to.
LEMMA LoginGoesOnLemma ==
    ASSUME NEW next \in Request, next.at \in {"hinting", "binding", "allocating", "counting"},
           next.at \in {"binding", "counting"} => next.owner \in OwnerIds,
           next.subject \in Subjects, next.role \in Role
    PROVE  Sound(next)
BY DEF Sound, Formed, Informed, Governs, Listed, Wiped, LoginPoints, Decided

\* What a login brings with it.
LEMMA LoginLastsLemma ==
    ASSUME IInv, NEW q \in Requests, req[q].at \in LoginPoints
    PROVE  req[q] \in Request /\ req[q].subject \in Subjects /\ req[q].role \in Role
BY StayLemma DEF Sound, Formed

LEMMA FindByIdpLemma ==
    ASSUME IInv, NEW q \in Requests, FindByIdp(q)
    PROVE  IInv'
<1>1. UNCHANGED <<owner, counters, admins, agents, torii>> /\ req[q].at = "finding"
  BY DEF FindByIdp
<1>2. ASSUME NEW next \in Request, Sound(next), Goes(q, next) PROVE IInv'
  BY <1>1, <1>2, StayLemma, GoesLemma, QuietLemma DEF counters
<1>3. CASE Goes(q, Idle)
  BY <1>1, <1>3, GivesUpLemma
<1>4. ASSUME NEW o \in OwnerIds, Goes(q, [req[q] EXCEPT !.at = "binding", !.owner = o])
      PROVE  IInv'
  <2> DEFINE next == [req[q] EXCEPT !.at = "binding", !.owner = o]
  <2>0. req[q] \in Request /\ req[q].subject \in Subjects /\ req[q].role \in Role
    BY <1>1, LoginLastsLemma DEF LoginPoints
  <2>1. /\ next \in Request /\ next.at = "binding" /\ next.owner = o
        /\ next.subject \in Subjects /\ next.role \in Role
    BY <2>0 DEF Request, Points
  <2> HIDE DEF next
  <2>2. Sound(next)
    BY <2>1, LoginGoesOnLemma
  <2> QED
    BY <1>2, <1>4, <2>1, <2>2 DEF next
<1>5. ASSUME NEW at \in {"allocating", "hinting"}, Goes(q, [req[q] EXCEPT !.at = at])
      PROVE  IInv'
  <2> DEFINE next == [req[q] EXCEPT !.at = at]
  <2>0. req[q] \in Request /\ req[q].subject \in Subjects /\ req[q].role \in Role
    BY <1>1, LoginLastsLemma DEF LoginPoints
  <2>1. /\ next \in Request /\ next.at = at
        /\ next.subject \in Subjects /\ next.role \in Role
    BY <2>0 DEF Request, Points
  <2> HIDE DEF next
  <2>2. Sound(next)
    BY <2>1, LoginGoesOnLemma
  <2> QED
    BY <1>2, <1>5, <2>1, <2>2 DEF next
<1> QED
  BY <1>3, <1>4, <1>5 DEF FindByIdp

LEMMA FindHintedLemma ==
    ASSUME IInv, NEW q \in Requests, FindHinted(q)
    PROVE  IInv'
<1>1. UNCHANGED <<owner, counters, admins, agents, torii>> /\ req[q].at = "hinting"
  BY DEF FindHinted
<1>2. ASSUME NEW next \in Request, Sound(next), Goes(q, next) PROVE IInv'
  BY <1>1, <1>2, StayLemma, GoesLemma, QuietLemma DEF counters
<1>3. CASE Goes(q, Idle)
  BY <1>1, <1>3, GivesUpLemma
<1>4. CASE Goes(q, [req[q] EXCEPT !.at = "allocating"])
  <2> DEFINE next == [req[q] EXCEPT !.at = "allocating"]
  <2>0. req[q] \in Request /\ req[q].subject \in Subjects /\ req[q].role \in Role
    BY <1>1, LoginLastsLemma DEF LoginPoints
  <2>1. /\ next \in Request /\ next.at = "allocating"
        /\ next.subject \in Subjects /\ next.role \in Role
    BY <2>0 DEF Request, Points
  <2> HIDE DEF next
  <2>2. Sound(next)
    BY <2>1, LoginGoesOnLemma
  <2> QED
    BY <1>2, <1>4, <2>1, <2>2 DEF next
<1>5. ASSUME NEW at \in {"binding", "counting"}, NEW o \in OwnerIds,
             Goes(q, [req[q] EXCEPT !.at = at, !.owner = o])
      PROVE  IInv'
  <2> DEFINE next == [req[q] EXCEPT !.at = at, !.owner = o]
  <2>0. req[q] \in Request /\ req[q].subject \in Subjects /\ req[q].role \in Role
    BY <1>1, LoginLastsLemma DEF LoginPoints
  <2>1. /\ next \in Request /\ next.at = at /\ next.owner = o
        /\ next.subject \in Subjects /\ next.role \in Role
    BY <2>0 DEF Request, Points
  <2> HIDE DEF next
  <2>2. Sound(next)
    BY <2>1, LoginGoesOnLemma
  <2> QED
    BY <1>2, <1>5, <2>1, <2>2 DEF next
<1>6. req[q].hint \in OwnerIds \cup {NoOwner} /\ Candidates(q) \subseteq OwnerIds
  BY StayLemma DEF Candidates, Request
<1> QED
  BY <1>3, <1>4, <1>5, <1>6 DEF FindHinted

LEMMA AllocateLemma ==
    ASSUME IInv, NEW q \in Requests, Allocate(q)
    PROVE  IInv'
<1>1. UNCHANGED <<owner, counters, admins, agents, torii>> /\ req[q].at = "allocating"
  BY DEF Allocate
<1>2. ASSUME NEW o \in OwnerIds,
             Goes(q, [req[q] EXCEPT !.at = "counting", !.path = "free", !.owner = o])
      PROVE  IInv'
  <2> DEFINE next == [req[q] EXCEPT !.at = "counting", !.path = "free", !.owner = o]
  <2>0. req[q] \in Request /\ req[q].subject \in Subjects /\ req[q].role \in Role
    BY <1>1, LoginLastsLemma DEF LoginPoints
  <2>1. /\ next.at = "counting" /\ next.owner = o
        /\ next.subject \in Subjects /\ next.role \in Role
    BY <2>0 DEF Request
  <2>2. next \in Request
    <3> DEFINE there == [req[q] EXCEPT !.at = "counting"]
               free == [there EXCEPT !.path = "free"]
    <3>1. there \in Request
      BY <2>0 DEF Request, Points
    <3>2. free \in Request
      BY <3>1 DEF Request, Paths
    <3>3. next = [free EXCEPT !.owner = o]
      OBVIOUS
    <3> HIDE DEF free
    <3> QED
      BY <3>2, <3>3 DEF Request
  <2> HIDE DEF next
  <2>3. Sound(next)
    BY <2>1, <2>2, LoginGoesOnLemma
  <2> QED
    BY <1>1, <1>2, <2>1, <2>2, <2>3, StayLemma, GoesLemma, QuietLemma DEF counters, next
<1> QED
  BY <1>1, <1>2, GivesUpLemma DEF Allocate

LEMMA RoleForNewOwnerLemma ==
    ASSUME IInv, NEW q \in Requests, RoleForNewOwner(q)
    PROVE  IInv'
<1> DEFINE next(role) == [req[q] EXCEPT !.at = "inserting", !.role = role]
<1>1. UNCHANGED <<owner, counters, admins, agents, torii>> /\ req[q].at = "counting"
  BY DEF RoleForNewOwner
<1>2. PICK role \in Role : /\ Goes(q, next(role))
                           /\ ActiveAdmins(owner) = {} => role = "admin"
  <2>1. req[q].role \in Role /\ "admin" \in Role
    BY <1>1, StayLemma DEF Sound, Formed, LoginPoints, Role
  <2>2. CASE ActiveAdmins(owner) = {}
    BY <2>1, <2>2 DEF RoleForNewOwner
  <2>3. CASE ActiveAdmins(owner) # {}
    BY <2>1, <2>3 DEF RoleForNewOwner
  <2> QED
    BY <2>2, <2>3
<1>3. role = "admin" \/ governed
  BY <1>2, AdminLemma DEF IInv, AdminsGovern
<1>4. next(role) \in Request /\ Sound(next(role))
  BY <1>1, <1>3, StayLemma DEF Request, Points, Sound, Formed, Informed, Governs, Listed,
     Wiped, LoginPoints, Decided
<1> HIDE DEF next
<1> QED
  BY <1>1, <1>2, <1>4, StayLemma, GoesLemma, QuietLemma DEF counters

\* A request of another kind begins.
LEMMA BeginsLemma ==
    ASSUME IInv, NEW q \in Requests, NEW next \in Request, Sound(next), Arrives(q, next),
           UNCHANGED <<owner, admins, agents, torii>>
    PROVE  IInv'
BY StayLemma, ArrivesLemma, IdleLemma, QuietLemma

LEMMA PatchOwnerLemma ==
    ASSUME IInv, NEW q \in Requests, NEW o \in OwnerIds, NEW status \in Status,
           NEW role \in Role, PatchOwner(q, o, status, role)
    PROVE  IInv'
<1> DEFINE next(at) == [Idle EXCEPT !.at = at, !.path = "patch", !.owner = o,
                                    !.status = status, !.role = role]
<1>1. UNCHANGED <<owner, admins, agents, torii>>
  BY DEF PatchOwner
<1>2. next("checking") \in Request /\ Sound(next("checking"))
  BY DEF Idle, Request, Points, Paths, Status, Role, Sound, Formed, Informed, Governs,
     Listed, Wiped, LoginPoints, Decided
<1>3. next("updating") \in Request
  BY DEF Idle, Request, Points, Paths, Status, Role
<1>4. CASE isActiveAdmin(owner[o]) /\ ~(status = "active" /\ role = "admin")
  <2>1. Arrives(q, next("checking"))
    BY <1>4 DEF PatchOwner
  <2> QED
    BY <1>1, <1>2, <2>1, BeginsLemma
<1>5. CASE ~(isActiveAdmin(owner[o]) /\ ~(status = "active" /\ role = "admin"))
  <2>1. Arrives(q, next("updating"))
    BY <1>5 DEF PatchOwner
  <2>2. Sound(next("updating"))
    BY <1>5 DEF Idle, Sound, Formed, Informed, Governs, Listed, Wiped, LoginPoints, Decided
  <2> QED
    BY <1>1, <1>3, <2>1, <2>2, BeginsLemma
<1> QED
  BY <1>4, <1>5

LEMMA DeleteOwnerLemma ==
    ASSUME IInv, NEW q \in Requests, NEW o \in OwnerIds, DeleteOwner(q, o)
    PROVE  IInv'
<1> DEFINE next(at) == [Idle EXCEPT !.at = at, !.path = "delete", !.owner = o]
<1>1. UNCHANGED <<owner, admins, agents, torii>>
  BY DEF DeleteOwner
<1>2. next("checking") \in Request /\ Sound(next("checking")) /\ next("opening") \in Request
  BY DEF Idle, Request, Points, Paths, Status, Role, Sound, Formed, Informed, Governs,
     Listed, Wiped, LoginPoints, Decided
<1>3. CASE isActiveAdmin(owner[o])
  <2>1. Arrives(q, next("checking"))
    BY <1>3 DEF DeleteOwner
  <2> QED
    BY <1>1, <1>2, <2>1, BeginsLemma
<1>4. CASE ~isActiveAdmin(owner[o])
  <2>1. Arrives(q, next("opening"))
    BY <1>4 DEF DeleteOwner
  <2>2. Sound(next("opening"))
    BY <1>4 DEF Idle, Sound, Formed, Informed, Governs, Listed, Wiped, LoginPoints, Decided
  <2> QED
    BY <1>1, <1>2, <2>1, <2>2, BeginsLemma
<1> QED
  BY <1>3, <1>4

LEMMA SweepLemma ==
    ASSUME IInv, NEW q \in Requests, NEW o \in OwnerIds, Sweep(q, o)
    PROVE  IInv'
<1> DEFINE next == [Idle EXCEPT !.at = "opening", !.path = "boot", !.owner = o]
<1>1. Arrives(q, next) /\ UNCHANGED <<owner, admins, agents, torii>>
  BY DEF Sweep
<1>2. next \in Request /\ Sound(next)
  BY DEF Idle, Request, Points, Paths, Status, Role, Sound, Formed, Informed, Governs,
     Listed, Wiped, LoginPoints, Decided
<1> QED
  BY <1>1, <1>2, BeginsLemma

LEMMA SeedLemma ==
    ASSUME IInv, NEW q \in Requests, NEW o \in OwnerIds, NEW role \in Role \cup {"none"},
           NEW s \in Subjects \cup {NoSubject}, Seed(q, o, role, s)
    PROVE  IInv'
<1> DEFINE next(at) == [Idle EXCEPT !.at = at, !.path = "boot", !.owner = o,
                                    !.role = role, !.subject = s]
<1>1. UNCHANGED <<owner, admins, agents, torii>>
  BY DEF Seed
<1>2. PICK at \in {"seeding", "upserting"} : Arrives(q, next(at))
  BY DEF Seed
<1>3. next(at) \in Request /\ Sound(next(at))
  BY DEF Idle, Request, Points, Paths, Status, Role, Sound, Formed, Informed, Governs,
     Listed, Wiped, LoginPoints, Decided
<1> QED
  BY <1>1, <1>2, <1>3, BeginsLemma

LEMMA CreateAgentLemma ==
    ASSUME IInv, NEW q \in Requests, NEW a \in Agents, NEW o \in OwnerIds, CreateAgent(q, a, o)
    PROVE  IInv'
<1> DEFINE next == [Idle EXCEPT !.at = "creating", !.agent = a, !.owner = o]
<1>1. Arrives(q, next) /\ UNCHANGED <<owner, admins, agents, torii>>
  BY DEF CreateAgent
<1>2. next \in Request /\ Sound(next)
  BY DEF Idle, Request, Points, Paths, Status, Role, Sound, Formed, Informed, Governs,
     Listed, Wiped, LoginPoints, Decided
<1> QED
  BY <1>1, <1>2, BeginsLemma

LEMMA EnsurePlatformBearerLemma ==
    ASSUME IInv, NEW q \in Requests, NEW a \in Agents, EnsurePlatformBearer(q, a)
    PROVE  IInv'
<1> DEFINE next == [Idle EXCEPT !.at = "granting", !.path = "boot", !.agent = a]
<1>1. Arrives(q, next) /\ UNCHANGED <<owner, admins, agents, torii>>
  BY DEF EnsurePlatformBearer
<1>2. next \in Request /\ Sound(next)
  BY DEF Idle, Request, Points, Paths, Status, Role, Sound, Formed, Informed, Governs,
     Listed, Wiped, LoginPoints, Decided
<1> QED
  BY <1>1, <1>2, BeginsLemma

\* A request goes on to another point of the same work.
LEMMA ProceedsLemma ==
    ASSUME IInv, NEW q \in Requests, NEW next \in Request, Sound(next), Goes(q, next),
           req[q].at # "granting", UNCHANGED <<owner, counters, admins, agents, torii>>
    PROVE  IInv'
BY StayLemma, GoesLemma, QuietLemma DEF counters

LEMMA CountActiveAdminsLemma ==
    ASSUME IInv, NEW q \in Requests, CountActiveAdmins(q)
    PROVE  IInv'
<1>1. UNCHANGED <<owner, counters, admins, agents, torii>> /\ req[q].at = "checking"
  BY DEF CountActiveAdmins
<1>2. CASE Goes(q, Idle)
  BY <1>1, <1>2, GivesUpLemma
<1>3. ASSUME NEW at \in {"updating", "opening"}, Goes(q, [req[q] EXCEPT !.at = at]),
             ~(Cardinality(ActiveAdmins(owner)) <= 1)
      PROVE  IInv'
  <2>1. \E p \in OwnerIds \ {req[q].owner} : isActiveAdmin(owner[p])
    BY <1>3, CountLemma
  <2>2. [req[q] EXCEPT !.at = at] \in Request /\ Sound([req[q] EXCEPT !.at = at])
    BY <1>1, <2>1, StayLemma DEF Request, Points, Sound, Formed, Informed, Governs,
       Listed, Wiped, LoginPoints, Decided
  <2> QED
    BY <1>1, <1>3, <2>2, ProceedsLemma
<1> QED
  BY <1>2, <1>3 DEF CountActiveAdmins

LEMMA OpenDeletionLemma ==
    ASSUME IInv, NEW q \in Requests, OpenDeletion(q)
    PROVE  IInv'
<1>1. UNCHANGED <<owner, counters, admins, agents, torii>> /\ req[q].at = "opening"
  BY DEF OpenDeletion
<1>2. CASE Goes(q, Idle)
  BY <1>1, <1>2, GivesUpLemma
<1>3. ASSUME NEW at \in {"listing", "wiping"}, Goes(q, [req[q] EXCEPT !.at = at]),
             at = "wiping" \/ req[q].path = "boot"
      PROVE  IInv'
  <2>1. [req[q] EXCEPT !.at = at] \in Request /\ Sound([req[q] EXCEPT !.at = at])
    BY <1>1, <1>3, StayLemma DEF Request, Points, Sound, Formed, Informed, Governs,
       Listed, Wiped, LoginPoints, Decided
  <2> QED
    BY <1>1, <1>3, <2>1, ProceedsLemma
<1> QED
  BY <1>2, <1>3 DEF OpenDeletion

LEMMA ListAgentsLemma ==
    ASSUME IInv, NEW q \in Requests, ListAgents(q)
    PROVE  IInv'
<1> DEFINE next == [req[q] EXCEPT !.at = "deleting", !.doomed = AgentsOf(req[q].owner)]
<1>1. UNCHANGED <<owner, counters, admins, agents, torii>> /\ req[q].at = "listing"
  BY DEF ListAgents
<1>2. Goes(q, next)
  BY DEF ListAgents
<1>3. next \in Request /\ Sound(next)
  BY <1>1, StayLemma DEF Request, Points, AgentsOf, Sound, Formed, Informed, Governs,
     Listed, Wiped, LoginPoints, Decided
<1> HIDE DEF next
<1> QED
  BY <1>1, <1>2, <1>3, ProceedsLemma

LEMMA SeedRoleLemma ==
    ASSUME IInv, NEW q \in Requests, SeedRole(q)
    PROVE  IInv'
<1>1. UNCHANGED <<owner, counters, admins, agents, torii>> /\ req[q].at = "seeding"
  BY DEF SeedRole
<1>2. PICK role \in {"admin", "none"} : Goes(q, [req[q] EXCEPT !.at = "upserting", !.role = role])
  BY DEF SeedRole
<1>3. /\ [req[q] EXCEPT !.at = "upserting", !.role = role] \in Request
      /\ Sound([req[q] EXCEPT !.at = "upserting", !.role = role])
  BY <1>1, StayLemma DEF Request, Points, Role, Sound, Formed, Informed, Governs, Listed,
     Wiped, LoginPoints, Decided
<1> QED
  BY <1>1, <1>2, <1>3, ProceedsLemma

-----------------------------------------------------------------------------
(* Steps that change agents, grants or Torii.                              *)

\* What a step leaves alone when it writes no row of owners.
LEMMA OwnersStayLemma ==
    ASSUME IInv, UNCHANGED <<owner, admins>>
    PROVE  /\ owner' \in [OwnerIds -> Row \cup {NoRow}]
           /\ \A o, p \in OwnerIds : (owner'[o].bound /\ owner'[p].bound /\
                                      owner'[o].subject = owner'[p].subject) => o = p
           /\ governed' \in BOOLEAN /\ lapsed' \in BOOLEAN
           /\ LastAdminStays' /\ BoundToSubject' /\ AdminsGovern'
BY DEF IInv, TypeOK, admins, LastAdminStays, BoundToSubject, AdminsGovern, ActiveAdmins

LEMMA RemovedLemma ==
    ASSUME IInv, NEW a \in Agents, Removed(a),
           req' \in [Requests -> Request],
           \A p \in Requests : \/ req'[p] = req[p]
                               \/ /\ req[p].at = "deleting"
                                  /\ req'[p] = [req[p] EXCEPT !.doomed = @ \ {a}],
           UNCHANGED <<owner, counters, admins, torii>>
    PROVE  IInv'
<1>1. /\ agent' \in [Agents -> OwnerIds \cup {NoOwner}] /\ agent'[a] = NoOwner
      /\ \A b \in Agents \ {a} : agent'[b] = agent[b]
      /\ granted' = granted \ {a} /\ strays' = strays \ {a} /\ ungranted' = ungranted \ {a}
  BY DEF Removed, IInv, TypeOK
<1>2. TypeOK'
  BY <1>1, OwnersStayLemma DEF IInv, TypeOK, counters, torii
<1>3. AgentsHaveOwners' /\ WipedFirst'
  BY <1>1 DEF IInv, AgentsHaveOwners, WipedFirst, exists, torii
<1>4. \A p \in Requests : req'[p].at = req[p].at /\ req'[p].agent = req[p].agent
  BY DEF IInv, TypeOK, Request
<1>5. AgentsAreGranted'
  BY <1>1, <1>4 DEF IInv, AgentsAreGranted
<1>6. ASSUME NEW p \in Requests PROVE Sound(req[p])'
  <2>1. Sound(req[p]) /\ req[p] \in Request
    BY DEF IInv, TypeOK
  <2>2. CASE req'[p] = req[p]
    BY <1>1, <2>1, <2>2, NullAssumption DEF admins, torii, Sound, Formed, Informed,
       Governs, Listed, Wiped, LoginPoints, Decided
  <2>3. CASE /\ req[p].at = "deleting"
             /\ req'[p] = [req[p] EXCEPT !.doomed = @ \ {a}]
    <3> DEFINE next == [req[p] EXCEPT !.doomed = @ \ {a}]
    <3>1. /\ next.at = "deleting" /\ next.owner = req[p].owner /\ next.path = req[p].path
          /\ next.doomed = req[p].doomed \ {a} /\ next.blind = req[p].blind
      BY <2>1, <2>3 DEF Request
    <3>2. req'[p] = next
      BY <2>3
    <3> HIDE DEF next
    <3> QED
      BY <1>1, <2>1, <2>3, <3>1, <3>2, NullAssumption DEF admins, torii, Sound, Formed,
         Informed, Governs, Listed, Wiped, LoginPoints, Decided
  <2> QED
    BY <2>2, <2>3
<1> QED
  BY <1>2, <1>3, <1>5, <1>6, OwnersStayLemma DEF IInv

LEMMA DeleteOwnersAgentLemma ==
    ASSUME IInv, NEW q \in Requests, DeleteOwnersAgent(q)
    PROVE  IInv'
<1>1. PICK a \in req[q].doomed : Removed(a) /\ Goes(q, [req[q] EXCEPT !.doomed = @ \ {a}])
  BY DEF DeleteOwnersAgent
<1>2. a \in Agents /\ [req[q] EXCEPT !.doomed = @ \ {a}] \in Request
  BY StayLemma DEF Request
<1>3. Becomes(q, [req[q] EXCEPT !.doomed = @ \ {a}])
  BY <1>1, <1>2, StayLemma, GoesLemma
<1> QED
  BY <1>1, <1>2, <1>3, RemovedLemma DEF Becomes, DeleteOwnersAgent

LEMMA DeleteAgentLemma ==
    ASSUME IInv, NEW a \in Agents, DeleteAgent(a)
    PROVE  IInv'
BY RemovedLemma DEF DeleteAgent, IInv, TypeOK

LEMMA InsertAgentLemma ==
    ASSUME IInv, NEW q \in Requests, InsertAgent(q)
    PROVE  IInv'
<1> DEFINE a == req[q].agent
           o == req[q].owner
           next == [req[q] EXCEPT !.at = "granting"]
<1>1. /\ req[q].at = "creating" /\ a \in Agents /\ o \in OwnerIds
      /\ UNCHANGED <<owner, counters, admins, granted, ungranted, torii>>
  BY StayLemma DEF InsertAgent, Sound, Formed
<1>2. CASE agent[a] # NoOwner
  BY <1>1, <1>2, GivesUpLemma DEF InsertAgent, agents
<1>3. CASE agent[a] = NoOwner
  <2>1. /\ agent' \in [Agents -> OwnerIds \cup {NoOwner}] /\ agent'[a] = o
        /\ \A b \in Agents \ {a} : agent'[b] = agent[b]
    BY <1>1, <1>3 DEF InsertAgent, IInv, TypeOK
  <2>2. /\ strays' \subseteq Agents /\ strays \subseteq strays'
        /\ ~exists(o) => a \in strays'
        /\ \A p \in Requests : req[p].at = "deleting" /\ req[p].owner = o => a \in strays'
    BY <1>1, <1>3 DEF InsertAgent, IInv, TypeOK
  <2>3. next \in Request /\ next.at = "granting" /\ next.agent = a
    BY <1>1, StayLemma DEF Request, Points, Sound, Formed, Informed, Governs, Listed,
       Wiped, LoginPoints, Decided
  <2>4. Becomes(q, next)
    BY <1>3, <2>3, StayLemma, GoesLemma DEF InsertAgent
  <2> HIDE DEF next, a, o
  <2>5. TypeOK'
    BY <1>1, <2>1, <2>2, <2>4, OwnersStayLemma, NullAssumption
    DEF IInv, TypeOK, counters, torii, Becomes
  <2>6. AgentsHaveOwners' /\ WipedFirst'
    BY <1>1, <2>1, <2>2 DEF IInv, AgentsHaveOwners, WipedFirst, exists, torii
  <2>7. AgentsAreGranted'
    <3>1. req'[q].at = "granting" /\ req'[q].agent = a
      BY <2>3, <2>4 DEF Becomes
    <3>2. \A p \in Requests : req[p].at = "granting" => req'[p] = req[p]
      BY <1>1, <2>4 DEF Becomes
    <3> QED
      BY <1>1, <2>1, <3>1, <3>2 DEF IInv, AgentsAreGranted
  <2>8. ASSUME NEW p \in Requests PROVE Sound(req[p])'
    <3>1. Sound(req[p])
      BY DEF IInv
    <3>2. CASE p = q
      <4>1. req'[q].at = "granting" /\ req'[q].agent \in Agents
        BY <1>1, <2>3, <2>4 DEF Becomes
      <4> QED
        BY <3>2, <4>1 DEF Sound, Formed, Informed, Governs, Listed, Wiped, LoginPoints,
           Decided
    <3>3. CASE p # q
      <4>1. req'[p] = req[p]
        BY <2>4, <3>3 DEF Becomes
      <4> QED
        BY <1>1, <2>1, <2>2, <3>1, <4>1 DEF admins, torii, Sound, Formed, Informed,
           Governs, Listed, Wiped, LoginPoints, Decided
    <3> QED
      BY <3>2, <3>3
  <2> QED
    BY <1>1, <2>5, <2>6, <2>7, <2>8, OwnersStayLemma DEF IInv
<1> QED
  BY <1>2, <1>3

\* Steps that change who is granted, and at most give a request up.
LEMMA GrantsLemma ==
    ASSUME IInv, req' \in [Requests -> Request],
           \A p \in Requests : req'[p] = req[p] \/ req'[p] = Idle,
           granted' \subseteq {a \in Agents : agent[a] # NoOwner},
           ungranted' \subseteq Agents, AgentsAreGranted',
           begun' \in 0..MaxRequests, crashes' \in 0..MaxCrashes,
           UNCHANGED <<owner, admins, agent, strays, torii>>
    PROVE  IInv'
<1>1. TypeOK'
  BY OwnersStayLemma DEF IInv, TypeOK, torii
<1>2. AgentsHaveOwners' /\ WipedFirst'
  BY DEF IInv, AgentsHaveOwners, WipedFirst, exists, torii
<1>3. ASSUME NEW p \in Requests PROVE Sound(req[p])'
  <2>1. Sound(req[p]) /\ Sound(Idle)
    BY IdleLemma DEF IInv
  <2>2. Sound(req'[p])
    BY <2>1
  <2> QED
    BY <2>2 DEF admins, torii, Sound, Formed, Informed, Governs, Listed, Wiped,
       LoginPoints, Decided
<1> QED
  BY <1>1, <1>2, <1>3, OwnersStayLemma DEF IInv

LEMMA EnsureGrantLemma ==
    ASSUME IInv, NEW q \in Requests, EnsureGrant(q)
    PROVE  IInv'
<1> DEFINE a == req[q].agent
<1>1. req[q].at = "granting" /\ a \in Agents
  BY StayLemma DEF EnsureGrant, Sound, Formed
<1>2. Becomes(q, Idle) /\ UNCHANGED <<owner, counters, admins, agent, strays, torii>>
  BY StayLemma, GoesLemma, IdleLemma DEF EnsureGrant
<1>3. \/ agent[a] = NoOwner /\ granted' = granted /\ ungranted' = ungranted
      \/ agent[a] # NoOwner /\ granted' = granted \cup {a} /\ ungranted' = ungranted \ {a}
  BY DEF EnsureGrant
<1> HIDE DEF a
<1>4. \A p \in Requests : req[p].at = "granting" /\ req[p].agent # a => req'[p] = req[p]
  BY <1>2 DEF Becomes, a
<1>5. AgentsAreGranted'
  BY <1>1, <1>2, <1>3, <1>4 DEF IInv, AgentsAreGranted
<1>6. /\ granted' \subseteq {b \in Agents : agent[b] # NoOwner}
      /\ ungranted' \subseteq Agents
  BY <1>1, <1>3 DEF IInv, TypeOK
<1> QED
  BY <1>2, <1>5, <1>6, StayLemma, GrantsLemma DEF Becomes, counters

LEMMA RevokePlatformLemma ==
    ASSUME IInv, NEW a \in Agents, RevokePlatform(a)
    PROVE  IInv'
<1>1. AgentsAreGranted'
  BY DEF RevokePlatform, IInv, AgentsAreGranted
<1> QED
  BY <1>1, GrantsLemma DEF RevokePlatform, IInv, TypeOK, counters

LEMMA CrashLemma ==
    ASSUME IInv, NEW q \in Requests, Crash(q)
    PROVE  IInv'
<1>1. Becomes(q, Idle) /\ crashes' \in 0..MaxCrashes
  <2>1. crashes < MaxCrashes /\ crashes' = crashes + 1 /\ Goes(q, Idle)
    BY DEF Crash
  <2> QED
    BY <2>1, StayLemma, GoesLemma, IdleLemma, BoundsAssumption
<1>2. UNCHANGED <<owner, begun, admins, agent, granted, strays, torii>>
  BY DEF Crash
<1>3. /\ ungranted \subseteq ungranted' /\ ungranted' \subseteq Agents
      /\ req[q].at = "granting" /\ agent[req[q].agent] # NoOwner
           => req[q].agent \in granted \cup ungranted'
  BY StayLemma DEF Crash, IInv, TypeOK, Sound, Formed
<1>4. AgentsAreGranted'
  BY <1>1, <1>2, <1>3 DEF IInv, AgentsAreGranted, Becomes
<1>5. granted' \subseteq {b \in Agents : agent[b] # NoOwner}
  BY <1>2 DEF IInv, TypeOK
<1> QED
  BY <1>1, <1>2, <1>3, <1>4, <1>5, StayLemma, GrantsLemma DEF Becomes

\* Steps of Torii, and what a deletion learns of them.
LEMMA ToriiLemma ==
    ASSUME IInv, req' \in [Requests -> Request],
           \A p \in Requests : req[p].at = "granting" => req'[p] = req[p],
           \A p \in Requests : Formed(req'[p]) /\ Informed(req'[p]) /\ Governs(req'[p])
                               /\ Listed(req'[p]),
           (\A p \in Requests : Wiped(req[p]))',
           linked' \subseteq OwnerIds, relinked' \subseteq linked', WipedFirst',
           UNCHANGED <<owner, counters, admins, agents>>
    PROVE  IInv'
<1>1. TypeOK' /\ AgentsHaveOwners' /\ AgentsAreGranted'
  BY OwnersStayLemma
  DEF IInv, TypeOK, AgentsHaveOwners, AgentsAreGranted, exists, counters, agents
<1>2. ASSUME NEW p \in Requests PROVE Sound(req[p])'
  BY DEF admins, agents, Sound, Formed, Informed, Governs, Listed
<1> QED
  BY <1>1, <1>2, OwnersStayLemma DEF IInv

LEMMA WipeGrantsLemma ==
    ASSUME IInv, NEW q \in Requests, WipeGrants(q)
    PROVE  IInv'
<1> DEFINE o == req[q].owner
           next == [req[q] EXCEPT !.at = "listing"]
<1>1. /\ req[q].at = "wiping" /\ relinked' = relinked \cap linked'
      /\ UNCHANGED <<owner, counters, admins, agents>>
  BY DEF WipeGrants
<1>2. linked' \in {linked, linked \ {o}}
  BY DEF WipeGrants
<1>3. linked' \subseteq OwnerIds /\ relinked' \subseteq linked' /\ WipedFirst'
  BY <1>1, <1>2 DEF IInv, TypeOK, WipedFirst, exists
<1>4. \A p \in Requests : Sound(req[p])
  BY DEF IInv
<1>5. PICK to \in {next, Idle} : Becomes(q, to) /\ (to = next => linked' = linked \ {o})
  <2>1. next \in Request /\ Idle \in Request /\ next # Idle
    BY StayLemma, IdleLemma DEF Request, Points
  <2>2. (linked' = linked \ {o} /\ Goes(q, next)) \/ Goes(q, Idle)
    BY DEF WipeGrants
  <2> HIDE DEF next, o
  <2> QED
    BY <2>1, <2>2, StayLemma, GoesLemma
<1>6. next.at = "listing" /\ next.owner = o /\ next.blind = req[q].blind /\ next.path = req[q].path
  BY StayLemma DEF Request
<1>7. Formed(next) /\ Informed(next) /\ Governs(next) /\ Listed(next)
  BY <1>1, <1>4, <1>6 DEF Sound, Formed, Informed, Governs, Listed, Wiped, LoginPoints,
     Decided
<1>8. Formed(to) /\ Informed(to) /\ Governs(to) /\ Listed(to)
  BY <1>7, IdleLemma DEF Sound
<1> HIDE DEF next, o
<1>9. ASSUME NEW p \in Requests PROVE Wiped(req[p])'
  <2>1. CASE p = q
    BY <1>1, <1>5, <1>6, <2>1, IdleLemma DEF Becomes, Wiped
  <2>2. CASE p # q
    BY <1>1, <1>2, <1>4, <1>5, <2>2 DEF Becomes, Sound, Wiped
  <2> QED
    BY <2>1, <2>2
<1>10. \A p \in Requests : Formed(req'[p]) /\ Informed(req'[p]) /\ Governs(req'[p])
                           /\ Listed(req'[p])
  BY <1>4, <1>5, <1>8 DEF Becomes, Sound
<1> QED
  BY <1>1, <1>3, <1>5, <1>9, <1>10, ToriiLemma DEF Becomes

LEMMA LinkOAuthLemma ==
    ASSUME IInv, NEW o \in OwnerIds, LinkOAuth(o)
    PROVE  IInv'
<1>1. /\ linked' = linked \cup {o} /\ exists(o) /\ relinked \subseteq relinked'
      /\ relinked' \subseteq linked' /\ UNCHANGED <<owner, req, counters, admins, agents>>
      /\ \A p \in Requests : req[p].at \in {"listing", "deleting"} /\ req[p].owner = o
                               => o \in relinked'
  BY DEF LinkOAuth, IInv, TypeOK
<1>2. linked' \subseteq OwnerIds /\ WipedFirst'
  BY <1>1 DEF IInv, TypeOK, WipedFirst, exists
<1>3. ASSUME NEW p \in Requests PROVE Wiped(req[p])'
  BY <1>1 DEF IInv, Sound, Wiped
<1> QED
  BY <1>1, <1>2, <1>3, ToriiLemma DEF IInv, TypeOK, Sound

-----------------------------------------------------------------------------
(* Steps that write a row of owners.                                       *)

\* The others only notice, and whoever does not sees the same admins.
LEMMA NoticeLemma ==
    ASSUME IInv, NEW q \in Requests, NEW o, NEW row, Writes(q, o, row, Idle)
    PROVE  /\ req' \in [Requests -> Request] /\ req'[q] = Idle
           /\ \A p \in Requests \ {q} :
                /\ req'[p].at = req[p].at /\ req'[p].path = req[p].path
                /\ req'[p].owner = req[p].owner /\ req'[p].subject = req[p].subject
                /\ req'[p].status = req[p].status /\ req'[p].role = req[p].role
                /\ req'[p].agent = req[p].agent /\ req'[p].doomed = req[p].doomed
                /\ (req[p].at \in Decided /\ ~req'[p].blind) =>
                     /\ ~req[p].blind
                     /\ \A x \in OwnerIds : isActiveAdmin(owner'[x]) <=> isActiveAdmin(owner[x])
<1> DEFINE overtaken(p) == ActiveAdmins(owner) # ActiveAdmins(owner') /\ req[p].at \in Decided
<1>1. req' = [p \in Requests |->
                IF p = q THEN Idle
                ELSE IF overtaken(p) THEN [req[p] EXCEPT !.blind = TRUE] ELSE req[p]]
  BY DEF Writes
<1>2. ASSUME NEW p \in Requests
      PROVE  /\ req[p] \in Request /\ [req[p] EXCEPT !.blind = TRUE] \in Request
             /\ [req[p] EXCEPT !.blind = TRUE].blind = TRUE
             /\ LET n == [req[p] EXCEPT !.blind = TRUE] IN
                /\ n.at = req[p].at /\ n.path = req[p].path /\ n.owner = req[p].owner
                /\ n.subject = req[p].subject /\ n.status = req[p].status
                /\ n.role = req[p].role /\ n.agent = req[p].agent /\ n.doomed = req[p].doomed
  BY StayLemma DEF Request
<1>3. ActiveAdmins(owner) = ActiveAdmins(owner') =>
        \A x \in OwnerIds : isActiveAdmin(owner'[x]) <=> isActiveAdmin(owner[x])
  BY DEF ActiveAdmins
<1>4. req' \in [Requests -> Request] /\ req'[q] = Idle
  <2> HIDE DEF overtaken
  <2> QED
    BY <1>1, <1>2, IdleLemma
<1>5. ASSUME NEW p \in Requests \ {q}
      PROVE  \/ overtaken(p) /\ req'[p] = [req[p] EXCEPT !.blind = TRUE]
             \/ ~overtaken(p) /\ req'[p] = req[p]
  <2> HIDE DEF overtaken
  <2>1. overtaken(p) \in BOOLEAN
    BY DEF overtaken
  <2>2. CASE overtaken(p)
    BY <1>1, <2>2
  <2>3. CASE ~overtaken(p)
    BY <1>1, <2>3
  <2> QED
    BY <2>2, <2>3
<1>6. ASSUME NEW p \in Requests \ {q}
      PROVE  /\ req'[p].at = req[p].at /\ req'[p].path = req[p].path
             /\ req'[p].owner = req[p].owner /\ req'[p].subject = req[p].subject
             /\ req'[p].status = req[p].status /\ req'[p].role = req[p].role
             /\ req'[p].agent = req[p].agent /\ req'[p].doomed = req[p].doomed
             /\ (req[p].at \in Decided /\ ~req'[p].blind) =>
                  /\ ~req[p].blind
                  /\ \A x \in OwnerIds : isActiveAdmin(owner'[x]) <=> isActiveAdmin(owner[x])
  <2>1. CASE overtaken(p) /\ req'[p] = [req[p] EXCEPT !.blind = TRUE]
    BY <1>2, <2>1
  <2>2. CASE ~overtaken(p) /\ req'[p] = req[p]
    BY <1>3, <2>2
  <2> QED
    BY <1>5, <2>1, <2>2
<1> QED
  BY <1>4, <1>6

LEMMA WritesLemma ==
    ASSUME IInv, NEW q \in Requests, NEW o \in OwnerIds, NEW row \in Row \cup {NoRow},
           Writes(q, o, row, Idle), req[q].at # "granting",
           row.bound => /\ row.subject \in Subjects
                        /\ \A p \in OwnerIds \ {o} :
                              owner[p].bound => owner[p].subject # row.subject,
           \/ isActiveAdmin(row) \/ ~isActiveAdmin(owner[o])
           \/ \E p \in OwnerIds \ {o} : isActiveAdmin(owner[p])
           \/ req[q].blind \/ req[q].path = "boot",
           req[q].at = "inserting" /\ ~governed => isActiveAdmin(row),
           AgentsHaveOwners', WipedFirst',
           linked' = linked, relinked \subseteq relinked', relinked' \subseteq linked,
           UNCHANGED <<counters, agents>>
    PROVE  IInv'
<1>1. /\ owner' \in [OwnerIds -> Row \cup {NoRow}] /\ owner'[o] = row
      /\ \A p \in OwnerIds \ {o} : owner'[p] = owner[p]
  BY DEF Writes, IInv, TypeOK
<1>2. /\ req' \in [Requests -> Request] /\ req'[q] = Idle
      /\ \A p \in Requests \ {q} :
                /\ req'[p].at = req[p].at /\ req'[p].path = req[p].path
                /\ req'[p].owner = req[p].owner /\ req'[p].subject = req[p].subject
                /\ req'[p].status = req[p].status /\ req'[p].role = req[p].role
                /\ req'[p].agent = req[p].agent /\ req'[p].doomed = req[p].doomed
                /\ (req[p].at \in Decided /\ ~req'[p].blind) =>
                     /\ ~req[p].blind
                     /\ \A x \in OwnerIds : isActiveAdmin(owner'[x]) <=> isActiveAdmin(owner[x])
  BY NoticeLemma
<1>3. /\ governed' = (governed \/ (\E p \in OwnerIds : isActiveAdmin(owner'[p]))
                               \/ req[q].at = "inserting")
      /\ lapsed' = /\ ~\E p \in OwnerIds : isActiveAdmin(owner'[p])
                   /\ \/ lapsed
                      \/ /\ \E p \in OwnerIds : isActiveAdmin(owner[p])
                         /\ req[q].blind \/ req[q].path = "boot"
  BY AdminLemma DEF Writes
<1>4. TypeOK'
  <2>1. \A x, y \in OwnerIds : (owner'[x].bound /\ owner'[y].bound /\
                                owner'[x].subject = owner'[y].subject) => x = y
    BY <1>1 DEF IInv, TypeOK
  <2>2. governed' \in BOOLEAN /\ lapsed' \in BOOLEAN
    BY <1>3
  <2> QED
    BY <1>1, <1>2, <2>1, <2>2 DEF IInv, TypeOK, counters, agents
<1>5. BoundToSubject'
  BY <1>1 DEF IInv, BoundToSubject
<1>6. AdminsGovern'
  BY <1>3 DEF AdminsGovern
<1>7. LastAdminStays'
  <2> SUFFICES ASSUME governed', ~\E p \in OwnerIds : isActiveAdmin(owner'[p])
               PROVE  lapsed'
    BY AdminLemma DEF LastAdminStays
  <2>1. CASE \E p \in OwnerIds : isActiveAdmin(owner[p])
    BY <1>1, <1>3, <2>1
  <2>2. CASE ~\E p \in OwnerIds : isActiveAdmin(owner[p])
    <3>1. governed
      BY <1>1, <1>3
    <3>2. lapsed
      BY <2>2, <3>1, AdminLemma DEF IInv, LastAdminStays
    <3> QED
      BY <1>3, <3>2
  <2> QED
    BY <2>1, <2>2
<1>8. AgentsAreGranted'
  <2>1. \A p \in Requests : req[p].at = "granting" =>
            req'[p].at = "granting" /\ req'[p].agent = req[p].agent
    BY <1>2
  <2> QED
    BY <2>1 DEF IInv, AgentsAreGranted, agents
<1>9. ASSUME NEW p \in Requests PROVE Sound(req[p])'
  <2>1. CASE p = q
    BY <1>2, <2>1, IdleLemma DEF Sound, Formed, Informed, Governs, Listed, Wiped,
       LoginPoints, Decided
  <2>2. CASE p # q
    <3>1. Sound(req[p])
      BY DEF IInv
    <3>2. Formed(req[p])' /\ Governs(req[p])' /\ Listed(req[p])' /\ Wiped(req[p])'
      BY <1>2, <1>3, <2>2, <3>1 DEF agents, Sound, Formed, Governs, Listed, Wiped, LoginPoints
    <3>3. Informed(req[p])'
      BY <1>2, <2>2, <3>1 DEF Sound, Formed, Informed, Decided
    <3> QED
      BY <3>2, <3>3 DEF Sound
  <2> QED
    BY <2>1, <2>2
<1> QED
  BY <1>4, <1>5, <1>6, <1>7, <1>8, <1>9 DEF IInv

\* A row that stays, or appears, takes nothing from agents and grants.
LEMMA KeepsRowLemma ==
    ASSUME IInv, NEW q \in Requests, NEW o \in OwnerIds, NEW row \in Row,
           Writes(q, o, row, Idle), UNCHANGED <<agents, torii>>
    PROVE  AgentsHaveOwners' /\ WipedFirst'
<1>1. owner'[o] = row /\ \A p \in OwnerIds \ {o} : owner'[p] = owner[p]
  BY DEF Writes, IInv, TypeOK
<1>2. \A p \in OwnerIds : exists(p) => exists(p)'
  BY <1>1, RowLemma DEF exists
<1> QED
  BY <1>2 DEF IInv, TypeOK, AgentsHaveOwners, WipedFirst, agents, torii

LEMMA ExistingLemma ==
    ASSUME IInv, NEW o \in OwnerIds, exists(o)
    PROVE  owner[o] \in Row
BY DEF IInv, TypeOK, exists

LEMMA BindIdentityLemma ==
    ASSUME IInv, NEW q \in Requests, BindIdentity(q)
    PROVE  IInv'
<1> DEFINE o == req[q].owner
           s == req[q].subject
           row == [owner[o] EXCEPT !.subject = s, !.bound = TRUE]
           free == exists(o) /\ ~\E p \in OwnerIds \ {o} : owner[p].bound /\ owner[p].subject = s
<1>1. /\ req[q].at = "binding" /\ o \in OwnerIds /\ s \in Subjects
      /\ UNCHANGED <<counters, agents, torii>>
  BY StayLemma DEF BindIdentity, Sound, Formed, LoginPoints
<1>2. CASE ~free
  BY <1>1, <1>2, GivesUpLemma DEF BindIdentity
<1>3. CASE free
  <2>1. Writes(q, o, row, Idle)
    BY <1>3 DEF BindIdentity
  <2>2. /\ row \in Row /\ row.bound /\ row.subject = s
        /\ isActiveAdmin(row) <=> isActiveAdmin(owner[o])
    BY <1>1, <1>3, ExistingLemma DEF Row, isActiveAdmin
  <2>3. \A p \in OwnerIds \ {o} : owner[p].bound => owner[p].subject # s
    BY <1>3
  <2> HIDE DEF row, o, s
  <2>4. AgentsHaveOwners' /\ WipedFirst'
    BY <1>1, <2>1, <2>2, KeepsRowLemma
  <2> QED
    BY <1>1, <2>1, <2>2, <2>3, <2>4, WritesLemma DEF torii, IInv, TypeOK
<1> QED
  BY <1>2, <1>3

LEMMA InsertProvisionedLemma ==
    ASSUME IInv, NEW q \in Requests, InsertProvisioned(q)
    PROVE  IInv'
<1> DEFINE r == req[q]
           o == r.owner
           row == [status |-> "active", role |-> r.role, subject |-> r.subject, bound |-> TRUE]
           taken == exists(o) \/ \E p \in OwnerIds : owner[p].bound /\ owner[p].subject = r.subject
<1>1. /\ r.at = "inserting" /\ o \in OwnerIds /\ r.subject \in Subjects /\ r.role \in Role
      /\ UNCHANGED <<counters, agents, torii>> /\ (r.role # "admin" => governed)
  BY StayLemma DEF InsertProvisioned, Sound, Formed, Governs, LoginPoints
<1>2. CASE taken
  <2> DEFINE path == IF r.path = "hint" THEN "raced" ELSE r.path
             next == [r EXCEPT !.at = "finding", !.path = path]
  <2>0. path \in Paths
    BY StayLemma DEF Request, Paths
  <2> HIDE DEF path
  <2>1. next \in Request /\ Sound(next)
    BY <1>1, <2>0, StayLemma DEF Request, Points, Sound, Formed, Informed, Governs, Listed,
       Wiped, LoginPoints, Decided
  <2>2. Goes(q, next) /\ UNCHANGED <<owner, admins>>
    BY <1>2 DEF InsertProvisioned, path
  <2> HIDE DEF next
  <2> QED
    BY <1>1, <2>1, <2>2, ProceedsLemma
<1>3. CASE ~taken
  <2>1. Writes(q, o, row, Idle)
    BY <1>3 DEF InsertProvisioned
  <2>2. /\ row \in Row /\ row.bound /\ row.subject = r.subject
        /\ isActiveAdmin(row) <=> r.role = "admin"
    BY <1>1 DEF Row, Status, isActiveAdmin
  <2>3. /\ \A p \in OwnerIds \ {o} : owner[p].bound => owner[p].subject # r.subject
        /\ ~isActiveAdmin(owner[o])
    BY <1>3, RowLemma DEF exists
  <2> HIDE DEF row
  <2>4. AgentsHaveOwners' /\ WipedFirst'
    BY <1>1, <2>1, <2>2, KeepsRowLemma
  <2> QED
    BY <1>1, <2>1, <2>2, <2>3, <2>4, WritesLemma DEF torii, IInv, TypeOK
<1> QED
  BY <1>2, <1>3

LEMMA UpdateOwnerLemma ==
    ASSUME IInv, NEW q \in Requests, UpdateOwner(q)
    PROVE  IInv'
<1> DEFINE r == req[q]
           o == r.owner
           row == [owner[o] EXCEPT !.status = r.status, !.role = r.role]
<1>1. /\ r.at = "updating" /\ o \in OwnerIds /\ r.status \in Status /\ r.role \in Role
      /\ UNCHANGED <<counters, agents, torii>>
  BY StayLemma DEF UpdateOwner, Sound, Formed, Request
<1>2. CASE ~exists(o)
  BY <1>1, <1>2, GivesUpLemma DEF UpdateOwner
<1>3. CASE exists(o)
  <2>1. Writes(q, o, row, Idle)
    BY <1>3 DEF UpdateOwner
  <2>2. /\ row \in Row /\ row.bound = owner[o].bound /\ row.subject = owner[o].subject
        /\ isActiveAdmin(row) <=> r.status = "active" /\ r.role = "admin"
    BY <1>1, <1>3, ExistingLemma DEF Row, isActiveAdmin
  <2>3. row.bound => /\ row.subject \in Subjects
                     /\ \A p \in OwnerIds \ {o} :
                           owner[p].bound => owner[p].subject # row.subject
    BY <1>1, <2>2 DEF IInv, TypeOK, BoundToSubject
  <2> HIDE DEF row
  <2>4. \/ isActiveAdmin(row) \/ ~isActiveAdmin(owner[o])
        \/ \E p \in OwnerIds \ {o} : isActiveAdmin(owner[p])
        \/ r.blind \/ r.path = "boot"
    BY <1>1, <2>2 DEF IInv, Sound, Informed, Decided
  <2>5. AgentsHaveOwners' /\ WipedFirst'
    BY <1>1, <2>1, <2>2, KeepsRowLemma
  <2> QED
    BY <1>1, <2>1, <2>2, <2>3, <2>4, <2>5, WritesLemma DEF torii, IInv, TypeOK
<1> QED
  BY <1>2, <1>3

LEMMA UpsertOperatorLemma ==
    ASSUME IInv, NEW q \in Requests, UpsertOperator(q)
    PROVE  IInv'
<1> DEFINE r == req[q]
           o == r.owner
           old == IF exists(o) THEN owner[o]
                  ELSE [status |-> "active", role |-> "member", subject |-> NoSubject,
                        bound |-> FALSE]
           role == IF r.role = "none" THEN old.role ELSE r.role
           subject == IF old.subject = NoSubject THEN r.subject ELSE old.subject
           row == [old EXCEPT !.role = role, !.subject = subject]
<1>1. /\ r.at = "upserting" /\ o \in OwnerIds /\ r.path = "boot"
      /\ r.role \in Role \cup {"none"} /\ r.subject \in Subjects \cup {NoSubject}
      /\ UNCHANGED <<counters, agents, torii>>
  BY StayLemma DEF UpsertOperator, Sound, Formed, Request
<1>2. Writes(q, o, row, Idle)
  BY DEF UpsertOperator
<1>3. old \in Row
  BY <1>1, ExistingLemma DEF Row, Status, Role
<1>4. old.bound => exists(o) /\ old = owner[o] /\ old.subject \in Subjects
  BY <1>1 DEF IInv, BoundToSubject
<1> HIDE DEF old
<1>5. /\ row \in Row /\ row.bound = old.bound
      /\ row.bound => row.subject = old.subject
  BY <1>1, <1>3, <1>4, NullAssumption DEF Row
<1>6. row.bound => /\ row.subject \in Subjects
                   /\ \A p \in OwnerIds \ {o} :
                         owner[p].bound => owner[p].subject # row.subject
  BY <1>1, <1>4, <1>5 DEF IInv, TypeOK
<1> HIDE DEF row
<1>7. AgentsHaveOwners' /\ WipedFirst'
  BY <1>1, <1>2, <1>5, KeepsRowLemma
<1> QED
  BY <1>1, <1>2, <1>5, <1>6, <1>7, WritesLemma DEF torii, IInv, TypeOK

LEMMA DeleteOwnersRowLemma ==
    ASSUME IInv, NEW q \in Requests, DeleteOwnersRow(q)
    PROVE  IInv'
<1> DEFINE r == req[q]
           o == r.owner
<1>1. /\ r.at = "deleting" /\ r.doomed = {} /\ o \in OwnerIds
      /\ relinked' = IF r.path = "boot" THEN relinked \cup ({o} \cap linked) ELSE relinked
      /\ UNCHANGED <<counters, agents, linked>>
  BY StayLemma DEF DeleteOwnersRow, Sound, Formed
<1>2. /\ relinked \subseteq relinked' /\ relinked' \subseteq linked
      /\ o \in linked => o \in relinked'
  BY <1>1, StayLemma DEF IInv, TypeOK, Sound, Wiped
<1>3. \A a \in Agents : agent[a] = o => a \in strays
  BY <1>1, StayLemma DEF Sound, Listed
<1>4. CASE ~exists(o)
  <2>1. Goes(q, Idle) /\ UNCHANGED <<owner, admins>>
    BY <1>4 DEF DeleteOwnersRow
  <2>2. Becomes(q, Idle)
    BY <2>1, StayLemma, GoesLemma, IdleLemma
  <2>3. \A p \in Requests : Sound(req[p])
    BY DEF IInv
  <2>4. \A p \in Requests : Formed(req'[p]) /\ Informed(req'[p]) /\ Governs(req'[p])
                            /\ Listed(req'[p])
    BY <2>2, <2>3, IdleLemma DEF Becomes, Sound
  <2>5. ASSUME NEW p \in Requests PROVE Wiped(req[p])'
    BY <1>1, <1>2, <2>2, <2>3, IdleLemma DEF Becomes, Sound, Wiped
  <2>6. WipedFirst' /\ linked' \subseteq OwnerIds /\ relinked' \subseteq linked'
    BY <1>1, <1>2, <2>1 DEF IInv, TypeOK, WipedFirst, exists
  <2> QED
    BY <1>1, <2>1, <2>2, <2>4, <2>5, <2>6, ToriiLemma DEF Becomes
<1>5. CASE exists(o)
  <2>1. Writes(q, o, NoRow, Idle)
    BY <1>5 DEF DeleteOwnersRow
  <2>2. \A p \in OwnerIds \ {o} : owner'[p] = owner[p]
    BY <2>1 DEF Writes, IInv, TypeOK
  <2>3. AgentsHaveOwners' /\ WipedFirst'
    BY <1>1, <1>2, <1>3, <2>2 DEF IInv, TypeOK, AgentsHaveOwners, WipedFirst, exists, agents
  <2>4. \/ ~isActiveAdmin(owner[o])
        \/ \E p \in OwnerIds \ {o} : isActiveAdmin(owner[p])
        \/ r.blind \/ r.path = "boot"
    BY <1>1, StayLemma DEF Sound, Informed, Decided
  <2> QED
    BY <1>1, <1>2, <2>1, <2>3, <2>4, RowLemma, WritesLemma
<1> QED
  BY <1>4, <1>5

-----------------------------------------------------------------------------
(* The invariant, and what follows from it.                                *)

LEMMA InitLemma == Init => IInv
<1> SUFFICES ASSUME Init PROVE IInv
  OBVIOUS
<1>1. \A o \in OwnerIds : owner[o] = NoRow /\ ~exists(o) /\ ~owner[o].bound
  BY RowLemma DEF Init, exists
<1>2. ActiveAdmins(owner) = {}
  BY <1>1, RowLemma DEF ActiveAdmins
<1>3. TypeOK
  <2>1. owner \in [OwnerIds -> Row \cup {NoRow}] /\ req \in [Requests -> Request]
    BY IdleLemma DEF Init
  <2>2. begun \in 0..MaxRequests /\ crashes \in 0..MaxCrashes
    BY BoundsAssumption DEF Init
  <2>3. agent \in [Agents -> OwnerIds \cup {NoOwner}]
    BY DEF Init
  <2> QED
    BY <1>1, <2>1, <2>2, <2>3 DEF Init, TypeOK
<1>4. \A q \in Requests : Sound(req[q])
  BY IdleLemma DEF Init
<1>5. LastAdminStays /\ BoundToSubject /\ AdminsGovern
  BY <1>1, <1>2, AdminLemma DEF Init, LastAdminStays, BoundToSubject, AdminsGovern
<1>6. AgentsHaveOwners /\ AgentsAreGranted /\ WipedFirst
  BY DEF Init, AgentsHaveOwners, AgentsAreGranted, WipedFirst
<1> QED
  BY <1>3, <1>4, <1>5, <1>6 DEF IInv

LEMMA Invariant == IInv /\ [Next]_vars => IInv'
<1> SUFFICES ASSUME IInv, [Next]_vars PROVE IInv'
  OBVIOUS
<1>1. ASSUME NEW q \in Requests, NEW s \in Subjects, NEW hint \in OwnerIds \cup {NoOwner},
             NEW role \in Role, Login(q, s, hint, role)
      PROVE  IInv'
  BY <1>1, LoginLemma
<1>2. ASSUME NEW q \in Requests,
             \/ FindByIdp(q) \/ FindHinted(q) \/ BindIdentity(q) \/ Allocate(q)
             \/ RoleForNewOwner(q) \/ InsertProvisioned(q)
      PROVE  IInv'
  BY <1>2, FindByIdpLemma, FindHintedLemma, BindIdentityLemma, AllocateLemma,
     RoleForNewOwnerLemma, InsertProvisionedLemma
<1>3. ASSUME NEW q \in Requests, NEW o \in OwnerIds, NEW status \in Status, NEW role \in Role,
             PatchOwner(q, o, status, role)
      PROVE  IInv'
  BY <1>3, PatchOwnerLemma
<1>4. ASSUME NEW q \in Requests, NEW o \in OwnerIds, DeleteOwner(q, o) \/ Sweep(q, o)
      PROVE  IInv'
  BY <1>4, DeleteOwnerLemma, SweepLemma
<1>5. ASSUME NEW q \in Requests,
             \/ CountActiveAdmins(q) \/ UpdateOwner(q) \/ OpenDeletion(q) \/ WipeGrants(q)
             \/ ListAgents(q) \/ DeleteOwnersAgent(q) \/ DeleteOwnersRow(q)
      PROVE  IInv'
  BY <1>5, CountActiveAdminsLemma, UpdateOwnerLemma, OpenDeletionLemma, WipeGrantsLemma,
     ListAgentsLemma, DeleteOwnersAgentLemma, DeleteOwnersRowLemma
<1>6. ASSUME NEW q \in Requests, NEW a \in Agents, NEW o \in OwnerIds, CreateAgent(q, a, o)
      PROVE  IInv'
  BY <1>6, CreateAgentLemma
<1>7. ASSUME NEW q \in Requests, NEW a \in Agents, EnsurePlatformBearer(q, a)
      PROVE  IInv'
  BY <1>7, EnsurePlatformBearerLemma
<1>8. ASSUME NEW q \in Requests,
             InsertAgent(q) \/ EnsureGrant(q) \/ SeedRole(q) \/ UpsertOperator(q) \/ Crash(q)
      PROVE  IInv'
  BY <1>8, InsertAgentLemma, EnsureGrantLemma, SeedRoleLemma, UpsertOperatorLemma, CrashLemma
<1>9. ASSUME NEW q \in Requests, NEW o \in OwnerIds, NEW role \in Role \cup {"none"},
             NEW s \in Subjects \cup {NoSubject}, Seed(q, o, role, s)
      PROVE  IInv'
  BY <1>9, SeedLemma
<1>10. ASSUME NEW a \in Agents, DeleteAgent(a) \/ RevokePlatform(a) PROVE IInv'
  BY <1>10, DeleteAgentLemma, RevokePlatformLemma
<1>11. ASSUME NEW o \in OwnerIds, LinkOAuth(o) PROVE IInv'
  BY <1>11, LinkOAuthLemma
<1>12. CASE UNCHANGED vars
  BY <1>12 DEF vars, IInv, TypeOK, LastAdminStays, ActiveAdmins, AgentsHaveOwners,
     AgentsAreGranted, WipedFirst, exists, BoundToSubject, AdminsGovern,
     Sound, Formed, Informed, Governs, Listed, Wiped
<1> QED
  BY <1>1, <1>2, <1>3, <1>4, <1>5, <1>6, <1>7, <1>8, <1>9, <1>10, <1>11, <1>12 DEF Next

\* The inductive invariant holds in every state.
THEOREM Invariance == Spec => []IInv
<1> QED
  BY InitLemma, Invariant, PTL DEF Spec

\* Every variable keeps its type; subjects stay unique and grants belong to agents.
THEOREM TypeCorrect == Spec => []TypeOK
<1>1. IInv => TypeOK
  BY DEF IInv
<1> QED
  BY <1>1, Invariance, PTL

\* Somebody stays active admin (removesLastActiveAdmin, roleForNewOwner) unless
\* a count was overtaken, or operators.yaml says so.
THEOREM AdminStays == Spec => []LastAdminStays
<1>1. IInv => LastAdminStays
  BY DEF IInv
<1> QED
  BY <1>1, Invariance, PTL

\* deleteOwner leaves no agent behind that was there when it listed them.
THEOREM LeavesNoAgent == Spec => []AgentsHaveOwners
<1>1. IInv => AgentsHaveOwners
  BY DEF IInv
<1> QED
  BY <1>1, Invariance, PTL

\* An agent is granted to the platform's bearer, or about to be, or it was
\* revoked or lost (create, ensurePlatformBearer).
THEOREM GrantsAgents == Spec => []AgentsAreGranted
<1>1. IInv => AgentsAreGranted
  BY DEF IInv
<1> QED
  BY <1>1, Invariance, PTL

\* An owner is deleted after Torii has wiped (deleteOwner, grants.wipe).
THEOREM WipesFirst == Spec => []WipedFirst
<1>1. IInv => WipedFirst
  BY DEF IInv
<1> QED
  BY <1>1, Invariance, PTL
=============================================================================
