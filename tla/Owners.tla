-------------------------------- MODULE Owners ------------------------------
(***************************************************************************)
(* Fuda's owners and the agents they own (apps/fuda/src/owners, agents,    *)
(* bearers): logins that resolve or provision an owner, operators who      *)
(* change or delete owners and create agents, and a replica that boots     *)
(* from operators.yaml.  Each request runs alone between its awaits; the   *)
(* statements of different requests interleave, in one replica or several. *)
(*                                                                         *)
(* A subject stands for an IdP subject with its e-mail address.  A row     *)
(* that has an address and no subject yet was seeded from operators.yaml.  *)
(* Profiles, personas and groups are left out, and so are bearers other    *)
(* than the platform's.                                                    *)
(***************************************************************************)
EXTENDS Naturals, FiniteSets

CONSTANTS
    OwnerIds,
    Subjects,
    Agents,
    Requests,     \* requests and boots in progress at once
    NoOwner,
    NoSubject,
    NoAgent,
    MaxRequests,  \* bound: requests and boots
    MaxCrashes    \* bound: of them, those that die half-way

ASSUME NullAssumption ==
    NoOwner \notin OwnerIds /\ NoSubject \notin Subjects /\ NoAgent \notin Agents
ASSUME FiniteAssumption == IsFiniteSet(OwnerIds)
ASSUME BoundsAssumption == MaxRequests \in Nat /\ MaxCrashes \in Nat

VARIABLES
    owner,     \* the owners table: a row or NoRow per id
    agent,     \* the agents table: the owner of each agent, or NoOwner
    granted,   \* agents the platform bearer is granted for
    linked,    \* Torii: owners with OAuth grants there
    req,       \* the requests
    begun, crashes,
    governed,  \* history: there has been an active admin, or a login's owner
    lapsed,    \* history: the last admin was removed unseen, or by the file
    strays,    \* history: agents created while their owner was being deleted
    relinked,  \* history: owners linked after the wipe, or swept without one
    ungranted  \* history: agents whose grant was revoked or never written

vars == <<owner, agent, granted, linked, req, begun, crashes, governed, lapsed,
          strays, relinked, ungranted>>
counters == <<begun, crashes>>
admins == <<governed, lapsed>>
agents == <<agent, granted, strays, ungranted>>
torii == <<linked, relinked>>

Status == {"active", "disabled"}
Role == {"admin", "member"}
Row == [status: Status, role: Role, subject: Subjects \cup {NoSubject}, bound: BOOLEAN]
NoRow == [status |-> "absent", role |-> "member", subject |-> NoSubject, bound |-> FALSE]

exists(o) == owner[o] # NoRow
isActiveAdmin(row) == row.status = "active" /\ row.role = "admin"
ActiveAdmins(table) == {o \in OwnerIds : isActiveAdmin(table[o])}

Points == {"idle", "finding", "hinting", "binding", "allocating", "counting",
           "inserting", "checking", "updating", "opening", "wiping", "listing",
           "deleting", "creating", "granting", "seeding", "upserting"}

Paths == {"none", "hint", "raced", "free", "patch", "delete", "boot"}

\* path: what a login falls back to, or which request a deletion belongs to.
Request == [at: Points, path: Paths, owner: OwnerIds \cup {NoOwner},
            subject: Subjects \cup {NoSubject}, hint: OwnerIds \cup {NoOwner},
            status: Status, role: Role \cup {"none"}, agent: Agents \cup {NoAgent},
            doomed: SUBSET Agents, blind: BOOLEAN]
Idle == [at |-> "idle", path |-> "none", owner |-> NoOwner, subject |-> NoSubject,
         hint |-> NoOwner, status |-> "active", role |-> "member", agent |-> NoAgent,
         doomed |-> {}, blind |-> FALSE]

\* The decision to change or remove an owner is taken at these points.
Decided == {"updating", "opening", "wiping", "listing", "deleting"}

Init ==
    /\ owner = [o \in OwnerIds |-> NoRow]
    /\ agent = [a \in Agents |-> NoOwner]
    /\ granted = {} /\ linked = {}
    /\ req = [q \in Requests |-> Idle]
    /\ begun = 0 /\ crashes = 0
    /\ governed = FALSE /\ lapsed = FALSE
    /\ strays = {} /\ relinked = {} /\ ungranted = {}

\* Request q goes on as next.
Goes(q, next) == req' = [req EXCEPT ![q] = next]

Arrives(q, next) ==
    /\ req[q] = Idle /\ begun < MaxRequests
    /\ begun' = begun + 1
    /\ Goes(q, next)
    /\ UNCHANGED crashes

\* Request q writes a row of owners and goes on as next.  The others that
\* have decided do not see who is an admin now.
Writes(q, o, row, next) ==
    /\ owner' = [owner EXCEPT ![o] = row]
    /\ LET before == ActiveAdmins(owner)
           after == ActiveAdmins(owner')
       IN
       /\ req' = [p \in Requests |->
                    IF p = q THEN next
                    ELSE IF before # after /\ req[p].at \in Decided
                         THEN [req[p] EXCEPT !.blind = TRUE] ELSE req[p]]
       /\ governed' = (governed \/ after # {} \/ req[q].at = "inserting")
       /\ lapsed' = /\ after = {}
                    /\ \/ lapsed
                       \/ before # {} /\ (req[q].blind \/ req[q].path = "boot")

-----------------------------------------------------------------------------
(* resolveOrProvisionOwner.                                                *)

Login(q, s, hint, role) ==
    /\ Arrives(q, [Idle EXCEPT !.at = "finding", !.path = "hint", !.subject = s,
                               !.hint = hint, !.role = role])
    /\ UNCHANGED <<owner, admins, agents, torii>>

\* resolveExistingByIdp: the subject's own row, first and after every insert
\* that a unique index refused.
FindByIdp(q) ==
    LET mine == {o \in OwnerIds : owner[o].bound /\ owner[o].subject = req[q].subject}
    IN
    /\ req[q].at = "finding"
    /\ \/ \E o \in mine :
            Goes(q, IF owner[o].status = "disabled" THEN Idle
                    ELSE [req[q] EXCEPT !.at = "binding", !.owner = o])
       \/ /\ mine = {}
          /\ Goes(q, [req[q] EXCEPT !.at = IF req[q].path = "free" THEN "allocating"
                                                                   ELSE "hinting"])
    /\ UNCHANGED <<owner, counters, admins, agents, torii>>

\* The hinted row, or without a hint the oldest unbound one with the address.
Candidates(q) ==
    IF req[q].hint # NoOwner THEN {req[q].hint} \cap {o \in OwnerIds : exists(o)}
    ELSE {o \in OwnerIds : exists(o) /\ ~owner[o].bound
                             /\ owner[o].subject = req[q].subject}

canBind(row, s) == ~row.bound \/ row.subject = s

\* bindOrReject, and what follows when there is no row to bind.  A hinted id
\* that raced is looked up once more, and given up when it is gone again.
FindHinted(q) ==
    LET r == req[q] IN
    /\ r.at = "hinting"
    /\ \/ \E o \in Candidates(q) :
            Goes(q, CASE ~canBind(owner[o], r.subject) -> [r EXCEPT !.at = "allocating"]
                      [] canBind(owner[o], r.subject) /\ owner[o].status = "disabled" -> Idle
                      [] OTHER -> [r EXCEPT !.at = "binding", !.owner = o])
       \/ /\ Candidates(q) = {}
          /\ Goes(q, IF r.hint # NoOwner /\ r.path = "hint"
                     THEN [r EXCEPT !.at = "counting", !.owner = r.hint]
                     ELSE [r EXCEPT !.at = "allocating"])
    /\ UNCHANGED <<owner, counters, admins, agents, torii>>

\* updateIdentity, on the row as it is by now: it is bound to the subject,
\* whoever it belongs to.  The login fails when the row is gone, and when the
\* unique index on subjects refuses.
BindIdentity(q) ==
    LET r == req[q] IN
    /\ r.at = "binding"
    /\ IF exists(r.owner) /\ ~\E o \in OwnerIds \ {r.owner} :
                                 owner[o].bound /\ owner[o].subject = r.subject
       THEN Writes(q, r.owner, [owner[r.owner] EXCEPT !.subject = r.subject,
                                                      !.bound = TRUE], Idle)
       ELSE Goes(q, Idle) /\ UNCHANGED <<owner, admins>>
    /\ UNCHANGED <<counters, agents, torii>>

\* allocateOwnerId: an id that is free.
Allocate(q) ==
    /\ req[q].at = "allocating"
    /\ \/ \E o \in OwnerIds :
            /\ ~exists(o)
            /\ Goes(q, [req[q] EXCEPT !.at = "counting", !.path = "free", !.owner = o])
       \/ /\ \A o \in OwnerIds : exists(o)
          /\ Goes(q, Idle)
    /\ UNCHANGED <<owner, counters, admins, agents, torii>>

\* roleForNewOwner: an admin by the hint, or because there is none.
RoleForNewOwner(q) ==
    /\ req[q].at = "counting"
    /\ Goes(q, [req[q] EXCEPT !.at = "inserting",
                              !.role = IF ActiveAdmins(owner) = {} THEN "admin" ELSE @])
    /\ UNCHANGED <<owner, counters, admins, agents, torii>>

\* insertProvisioned: refused when the id or the subject has a row by now.
InsertProvisioned(q) ==
    LET r == req[q] IN
    /\ r.at = "inserting"
    /\ IF exists(r.owner) \/ \E o \in OwnerIds :
                                owner[o].bound /\ owner[o].subject = r.subject
       THEN /\ Goes(q, [r EXCEPT !.at = "finding",
                                 !.path = IF @ = "hint" THEN "raced" ELSE @])
            /\ UNCHANGED <<owner, admins>>
       ELSE Writes(q, r.owner, [status |-> "active", role |-> r.role,
                                subject |-> r.subject, bound |-> TRUE], Idle)
    /\ UNCHANGED <<counters, agents, torii>>

-----------------------------------------------------------------------------
(* PATCH and DELETE of an owner.                                           *)

\* PATCH reads the owner; what the body leaves out is what was read.  Only a
\* change that takes an active admin away goes on to count them.
PatchOwner(q, o, status, role) ==
    /\ exists(o)
    /\ Arrives(q, [Idle EXCEPT
            !.at = IF isActiveAdmin(owner[o]) /\ ~(status = "active" /\ role = "admin")
                   THEN "checking" ELSE "updating",
            !.path = "patch", !.owner = o, !.status = status, !.role = role])
    /\ UNCHANGED <<owner, admins, agents, torii>>

DeleteOwner(q, o) ==
    /\ exists(o)
    /\ Arrives(q, [Idle EXCEPT !.at = IF isActiveAdmin(owner[o]) THEN "checking"
                                                                 ELSE "opening",
                               !.path = "delete", !.owner = o])
    /\ UNCHANGED <<owner, admins, agents, torii>>

CountedOffByOne(q) ==  \* mutant: the owner itself is not counted in
    /\ req[q].at = "checking"
    /\ Goes(q, IF ActiveAdmins(owner) = {} THEN Idle
               ELSE [req[q] EXCEPT !.at = IF req[q].path = "patch" THEN "updating" ELSE "opening"])
    /\ UNCHANGED <<owner, counters, admins, agents, torii>>

\* removesLastActiveAdmin: 409, or on to the change.
CountActiveAdmins(q) ==
    /\ req[q].at = "checking"
    /\ Goes(q, IF Cardinality(ActiveAdmins(owner)) <= 1 THEN Idle
               ELSE [req[q] EXCEPT !.at = IF req[q].path = "patch" THEN "updating" ELSE "opening"])
    /\ UNCHANGED <<owner, counters, admins, agents, torii>>

\* owners.update writes both fields, on the row as it is by now.
UpdateOwner(q) ==
    LET r == req[q] IN
    /\ r.at = "updating"
    /\ IF exists(r.owner)
       THEN Writes(q, r.owner, [owner[r.owner] EXCEPT !.status = r.status,
                                                      !.role = r.role], Idle)
       ELSE Goes(q, Idle) /\ UNCHANGED <<owner, admins>>
    /\ UNCHANGED <<counters, agents, torii>>

-----------------------------------------------------------------------------
(* deleteOwner, of a DELETE and of a strict sweep.                         *)

\* The owner is read again: 404 when it is gone.  A sweep has no cleaner.
OpenDeletion(q) ==
    LET r == req[q] IN
    /\ r.at = "opening"
    /\ Goes(q, IF ~exists(r.owner) THEN Idle
               ELSE [r EXCEPT !.at = IF r.path = "boot" THEN "listing" ELSE "wiping"])
    /\ UNCHANGED <<owner, counters, admins, agents, torii>>

WipeLater(q) ==  \* mutant: a failed wipe does not stop the deletion
    /\ req[q].at = "wiping"
    /\ linked' \in {linked, linked \ {req[q].owner}}
    /\ Goes(q, [req[q] EXCEPT !.at = "listing"])
    /\ relinked' = relinked \cap linked'
    /\ UNCHANGED <<owner, counters, admins, agents>>

\* grants.wipe: Torii wipes and answers.  When the call fails (502) it has
\* wiped or it has not.
WipeGrants(q) ==
    /\ req[q].at = "wiping"
    /\ \/ linked' = linked \ {req[q].owner} /\ Goes(q, [req[q] EXCEPT !.at = "listing"])
       \/ linked' \in {linked, linked \ {req[q].owner}} /\ Goes(q, Idle)
    /\ relinked' = relinked \cap linked'
    /\ UNCHANGED <<owner, counters, admins, agents>>

AgentsOf(o) == {a \in Agents : agent[a] = o}

ListAgents(q) ==
    /\ req[q].at = "listing"
    /\ Goes(q, [req[q] EXCEPT !.at = "deleting", !.doomed = AgentsOf(req[q].owner)])
    /\ UNCHANGED <<owner, counters, admins, agents, torii>>

\* agents.delete: the agent goes with its grants, in one transaction.
Removed(a) ==
    /\ agent' = [agent EXCEPT ![a] = NoOwner]
    /\ granted' = granted \ {a}
    /\ strays' = strays \ {a}
    /\ ungranted' = ungranted \ {a}

DeleteOwnersAgent(q) ==
    /\ req[q].at = "deleting"
    /\ \E a \in req[q].doomed :
         /\ Removed(a)
         /\ Goes(q, [req[q] EXCEPT !.doomed = @ \ {a}])
    /\ UNCHANGED <<owner, counters, admins, torii>>

DeleteRowFirst(q) ==  \* mutant: the row goes before its agents
    LET r == req[q] IN
    /\ r.at = "deleting"
    /\ IF exists(r.owner)
       THEN Writes(q, r.owner, NoRow, IF r.doomed = {} THEN Idle ELSE r)
       ELSE /\ r.doomed = {}
            /\ Goes(q, Idle) /\ UNCHANGED <<owner, admins>>
    /\ relinked' = IF r.path = "boot" THEN relinked \cup ({r.owner} \cap linked) ELSE relinked
    /\ UNCHANGED <<counters, agents, linked>>

DeleteOwnersRow(q) ==
    LET r == req[q] IN
    /\ r.at = "deleting" /\ r.doomed = {}
    /\ IF exists(r.owner) THEN Writes(q, r.owner, NoRow, Idle)
       ELSE Goes(q, Idle) /\ UNCHANGED <<owner, admins>>
    /\ relinked' = IF r.path = "boot" THEN relinked \cup ({r.owner} \cap linked) ELSE relinked
    /\ UNCHANGED <<counters, agents, linked>>

-----------------------------------------------------------------------------
(* Agents and the platform's grants.                                       *)

CreateAgent(q, a, o) ==
    /\ exists(o)
    /\ Arrives(q, [Idle EXCEPT !.at = "creating", !.agent = a, !.owner = o])
    /\ UNCHANGED <<owner, admins, agents, torii>>

InsertAgentOnly(q) ==  \* mutant: the platform's grant is forgotten
    LET r == req[q] IN
    /\ r.at = "creating"
    /\ IF agent[r.agent] # NoOwner
       THEN UNCHANGED <<agent, strays>>
       ELSE /\ agent' = [agent EXCEPT ![r.agent] = r.owner]
            /\ strays' = strays \cup {r.agent}
    /\ Goes(q, Idle)
    /\ UNCHANGED <<owner, counters, admins, granted, ungranted, torii>>

\* Nothing in the agents table refers to owners: the owner may be gone, or be
\* deleted next without this agent.
InsertAgent(q) ==
    LET r == req[q] IN
    /\ r.at = "creating"
    /\ IF agent[r.agent] # NoOwner
       THEN Goes(q, Idle) /\ UNCHANGED <<agent, strays>>
       ELSE /\ agent' = [agent EXCEPT ![r.agent] = r.owner]
            /\ strays' = IF ~exists(r.owner) \/ \E p \in Requests :
                               req[p].at = "deleting" /\ req[p].owner = r.owner
                         THEN strays \cup {r.agent} ELSE strays
            /\ Goes(q, [r EXCEPT !.at = "granting"])
    /\ UNCHANGED <<owner, counters, admins, granted, ungranted, torii>>

\* ensureGrant: the foreign key refuses an agent that is gone.
EnsureGrant(q) ==
    LET a == req[q].agent IN
    /\ req[q].at = "granting"
    /\ IF agent[a] = NoOwner THEN UNCHANGED <<granted, ungranted>>
       ELSE granted' = granted \cup {a} /\ ungranted' = ungranted \ {a}
    /\ Goes(q, Idle)
    /\ UNCHANGED <<owner, counters, admins, agent, strays, torii>>

DeleteAgent(a) ==
    /\ agent[a] # NoOwner
    /\ Removed(a)
    /\ UNCHANGED <<owner, req, counters, admins, torii>>

RevokePlatform(a) ==
    /\ a \in granted
    /\ granted' = granted \ {a}
    /\ ungranted' = ungranted \cup {a}
    /\ UNCHANGED <<owner, req, counters, admins, agent, strays, torii>>

\* A boot's ensurePlatformBearer, for one of the agents it listed.
EnsurePlatformBearer(q, a) ==
    /\ agent[a] # NoOwner /\ a \notin granted
    /\ Arrives(q, [Idle EXCEPT !.at = "granting", !.path = "boot", !.agent = a])
    /\ UNCHANGED <<owner, admins, agents, torii>>

\* Torii, for an owner with a session: an OAuth link is completed.
LinkOAuth(o) ==
    /\ exists(o) /\ o \notin linked
    /\ linked' = linked \cup {o}
    /\ relinked' = IF \E p \in Requests : /\ req[p].at \in {"listing", "deleting"}
                                         /\ req[p].owner = o
                   THEN relinked \cup {o} ELSE relinked
    /\ UNCHANGED <<owner, req, counters, admins, agents>>

-----------------------------------------------------------------------------
(* operators.yaml at boot: each entry and each sweep is a request here.    *)

\* seedOperators reads the entry's owner, and counts when it must.
Seed(q, o, role, s) ==
    /\ Arrives(q, [Idle EXCEPT !.at = IF role = "none" /\ ~exists(o) THEN "seeding"
                                                                    ELSE "upserting",
                               !.path = "boot", !.owner = o, !.role = role,
                               !.subject = s])
    /\ UNCHANGED <<owner, admins, agents, torii>>

SeedRole(q) ==
    /\ req[q].at = "seeding"
    /\ Goes(q, [req[q] EXCEPT !.at = "upserting",
                              !.role = IF ActiveAdmins(owner) = {} THEN "admin" ELSE "none"])
    /\ UNCHANGED <<owner, counters, admins, agents, torii>>

\* upsert and setEmailIfAbsent.  Only a role of the file changes a row's.
UpsertOperator(q) ==
    LET r == req[q]
        row == IF exists(r.owner) THEN owner[r.owner]
               ELSE [status |-> "active", role |-> "member", subject |-> NoSubject,
                     bound |-> FALSE]
    IN
    /\ r.at = "upserting"
    /\ Writes(q, r.owner, [row EXCEPT !.role = IF r.role = "none" THEN @ ELSE r.role,
                                      !.subject = IF @ = NoSubject THEN r.subject ELSE @],
              Idle)
    /\ UNCHANGED <<counters, agents, torii>>

\* reconcileOwners, strict: an owner the file does not list.
Sweep(q, o) ==
    /\ exists(o)
    /\ Arrives(q, [Idle EXCEPT !.at = "opening", !.path = "boot", !.owner = o])
    /\ UNCHANGED <<owner, admins, agents, torii>>

\* The replica dies: its request is never answered.
Crash(q) ==
    /\ req[q] # Idle /\ crashes < MaxCrashes
    /\ crashes' = crashes + 1
    /\ ungranted' = IF req[q].at = "granting" /\ agent[req[q].agent] # NoOwner
                       /\ req[q].agent \notin granted
                    THEN ungranted \cup {req[q].agent} ELSE ungranted
    /\ Goes(q, Idle)
    /\ UNCHANGED <<owner, begun, admins, agent, granted, strays, torii>>

Next ==
    \/ \E q \in Requests :
        \/ \E s \in Subjects, hint \in OwnerIds \cup {NoOwner}, role \in Role :
             Login(q, s, hint, role)
        \/ FindByIdp(q) \/ FindHinted(q) \/ BindIdentity(q) \/ Allocate(q)
        \/ RoleForNewOwner(q) \/ InsertProvisioned(q)
        \/ \E o \in OwnerIds, status \in Status, role \in Role : PatchOwner(q, o, status, role)
        \/ \E o \in OwnerIds : DeleteOwner(q, o) \/ Sweep(q, o)
        \/ CountActiveAdmins(q) \/ UpdateOwner(q)
        \/ OpenDeletion(q) \/ WipeGrants(q) \/ ListAgents(q)
        \/ DeleteOwnersAgent(q) \/ DeleteOwnersRow(q)
        \/ \E a \in Agents : \/ \E o \in OwnerIds : CreateAgent(q, a, o)
                             \/ EnsurePlatformBearer(q, a)
        \/ InsertAgent(q) \/ EnsureGrant(q)
        \/ \E o \in OwnerIds, role \in Role \cup {"none"}, s \in Subjects \cup {NoSubject} :
             Seed(q, o, role, s)
        \/ SeedRole(q) \/ UpsertOperator(q)
        \/ Crash(q)
    \/ \E a \in Agents : DeleteAgent(a) \/ RevokePlatform(a)
    \/ \E o \in OwnerIds : LinkOAuth(o)

Spec == Init /\ [][Next]_vars

-----------------------------------------------------------------------------
(* Properties.                                                             *)

\* Every variable has its type; the unique index on subjects and the foreign
\* key of the grants hold.
TypeOK ==
    /\ owner \in [OwnerIds -> Row \cup {NoRow}]
    /\ \A o, p \in OwnerIds : (owner[o].bound /\ owner[p].bound /\
                               owner[o].subject = owner[p].subject) => o = p
    /\ agent \in [Agents -> OwnerIds \cup {NoOwner}]
    /\ granted \subseteq {a \in Agents : agent[a] # NoOwner}
    /\ linked \subseteq OwnerIds /\ relinked \subseteq linked
    /\ req \in [Requests -> Request]
    /\ begun \in 0..MaxRequests /\ crashes \in 0..MaxCrashes
    /\ governed \in BOOLEAN /\ lapsed \in BOOLEAN
    /\ strays \subseteq Agents /\ ungranted \subseteq Agents

\* Once somebody has logged in there is an active admin, whatever is changed
\* or deleted, unless the last one went to a request whose count was overtaken
\* or to operators.yaml.
LastAdminStays == governed /\ ActiveAdmins(owner) = {} => lapsed

\* An agent has an owner, unless it was created while its owner was being
\* deleted, after that deletion had listed the agents.
AgentsHaveOwners ==
    \A a \in Agents : agent[a] # NoOwner => exists(agent[a]) \/ a \in strays

\* Every agent is granted to the platform's bearer once its creation is
\* answered, until somebody revokes that; a crash in between leaves it out.
AgentsAreGranted ==
    \A a \in Agents : agent[a] # NoOwner =>
        \/ a \in granted \cup ungranted
        \/ \E q \in Requests : req[q].at = "granting" /\ req[q].agent = a

\* "OAuth tokens are wiped first so a Torii failure leaves the owner row in
\* place" (delete-owner.ts): an owner that is gone has no grants in Torii, but
\* for those it was given after the wipe and those of a sweep.
WipedFirst == \A o \in linked : exists(o) \/ o \in relinked

\* "cannot remove or demote the last active admin" (owners-management-api.
\* controller.ts): no PATCH and no DELETE does.  Two requests that have counted
\* two admins take both, and a PATCH that leaves the role out writes back the
\* one it read, over what operators.yaml has set since.
LastAdmin ==
    [][~(/\ ActiveAdmins(owner) # {} /\ ActiveAdmins(owner)' = {}
         /\ \E q \in Requests : req[q].path \in {"patch", "delete"}
                               /\ req'[q] = Idle)]_vars

\* "An existing subject keeps its owner id across email and display-name
\* changes" (resolve-or-provision-owner.ts).  Two logins that found the same
\* unbound row bind it one after the other.
SubjectKeepsOwner ==
    [][\A o \in OwnerIds : owner[o].bound /\ owner'[o].bound
                           => owner'[o].subject = owner[o].subject]_vars
=============================================================================
