------------------------------ MODULE GroupPolicy ---------------------------
(***************************************************************************)
(* Torii's group policy (apps/torii/src/policy): the groups in Postgres,   *)
(* the management requests that write them, the snapshot each replica      *)
(* decides tool calls on, and the decision itself.                         *)
(*                                                                         *)
(* A management request writes in one transaction and then refreshes the   *)
(* snapshot of the replica that serves it: it lists the groups, loads      *)
(* their server policies in a second query and replaces the snapshot.  No  *)
(* other replica hears of the write.  A replica that boots loads its       *)
(* snapshot the same way before it serves.                                 *)
(***************************************************************************)
EXTENDS Naturals, Sequences, FiniteSets

CONSTANTS
    Replicas,
    Requests,   \* management requests and boots; each happens once
    Names,      \* of groups, unique and immutable
    Servers,
    Tools,
    Bodies,     \* the definitions requests bring
    NoPolicy,
    Down        \* a replica that does not serve

Policy == [default: {"allow", "deny"}, allow: SUBSET Tools, deny: SUBSET Tools,
           gated: SUBSET Tools]
Definition == [Servers -> Policy \cup {NoPolicy}]

\* assertValidGroupServers: the lists a request may bring for a server.
assertValid(policy) ==
    policy.allow \cap policy.deny = {} /\ policy.deny \cap policy.gated = {}

ASSUME NoPolicyAssumption == NoPolicy \notin Policy
ASSUME BodiesAssumption ==
    /\ Bodies \subseteq Definition
    /\ \A body \in Bodies, s \in Servers : body[s] = NoPolicy \/ assertValid(body[s])

-----------------------------------------------------------------------------
(* The decision.  A snapshot maps the names of the groups it knows to      *)
(* their definitions.                                                      *)

vote(policy, tool) ==
    IF policy = NoPolicy THEN "abstain"
    ELSE IF tool \in policy.deny THEN "deny"
    ELSE IF tool \in policy.allow THEN "allow"
    ELSE policy.default

evaluatePolicy(groups, snapshot, server, tool) ==
    LET known == groups \cap DOMAIN snapshot
        votes == {vote(snapshot[n][server], tool) : n \in known}
    IN  IF known = groups /\ "allow" \in votes /\ "deny" \notin votes
        THEN "allowed" ELSE "denied"

isGatedToolForGroups(groups, snapshot, server, tool) ==
    \E n \in groups \cap DOMAIN snapshot :
        snapshot[n][server] # NoPolicy /\ tool \in snapshot[n][server].gated

\* What becomes of a call (callTool): refused, parked for approval, or run.
outcome(groups, snapshot, server, tool) ==
    IF evaluatePolicy(groups, snapshot, server, tool) = "denied" THEN "denied"
    ELSE IF isGatedToolForGroups(groups, snapshot, server, tool) THEN "parked"
    ELSE "run"

-----------------------------------------------------------------------------
VARIABLES
    rows,      \* groups and group_server_policies: names to ids and definitions
    log,       \* history: what the database said after each commit
    dropped,   \* history: names of groups that have been deleted
    req,       \* the requests
    snapshot,  \* GroupPolicyCache of each replica, or Down
    asOf,      \* history: the commit at which the snapshot's policies were read
    promised,  \* history: the newest commit a replica has answered as done
    overtaken  \* history: replicas where an older list replaced a newer one

vars == <<rows, log, dropped, req, snapshot, asOf, promised, overtaken>>

NoServers == [s \in Servers |-> NoPolicy]
View(table) == [n \in DOMAIN table |-> table[n].def]

\* own is the request's commit, from the commit its policies were read at.
NewRequest == [at |-> "new", replica |-> Down, name |-> Down, own |-> 0,
               ids |-> <<>>, read |-> <<>>, from |-> 0]
Answered == [NewRequest EXCEPT !.at = "answered"]

Init ==
    /\ \E live \in SUBSET Names : rows \in [live -> [id: {0}, def: Bodies]]
    /\ log = <<View(rows)>>
    /\ dropped = {}
    /\ req = [q \in Requests |-> NewRequest]
    /\ snapshot = [r \in Replicas |-> View(rows)]
    /\ asOf = [r \in Replicas |-> 1]
    /\ promised = [r \in Replicas |-> 0]
    /\ overtaken = {}

-----------------------------------------------------------------------------
(* Writes.  A request for a name that is taken (409), a group that is not  *)
(* there (404) or a body assertValid rejects (400) leaves no trace.        *)

\* The transaction of q, served by r, ends with table; then r refreshes.
Commit(q, r, table) ==
    /\ rows' = table
    /\ log' = Append(log, View(table))
    /\ req' = [req EXCEPT ![q] = [NewRequest EXCEPT !.at = "committed", !.replica = r,
                                                    !.own = Len(log) + 1]]
    /\ UNCHANGED <<snapshot, asOf, promised, overtaken>>

Arrives(q, r) == req[q].at = "new" /\ snapshot[r] # Down

\* POST /api/groups, with a name that is free.
Create(q, r, n, body) ==
    /\ Arrives(q, r)
    /\ n \notin DOMAIN rows
    /\ Commit(q, r, [m \in DOMAIN rows \cup {n} |->
                        IF m = n THEN [id |-> Len(log), def |-> body] ELSE rows[m]])
    /\ UNCHANGED dropped

\* PATCH reads the group first.
FindForUpdate(q, r, n) ==
    /\ Arrives(q, r)
    /\ n \in DOMAIN rows
    /\ req' = [req EXCEPT ![q] = [NewRequest EXCEPT !.at = "found", !.replica = r, !.name = n,
                                                    !.ids = [m \in {n} |-> rows[m].id]]]
    /\ UNCHANGED <<rows, log, dropped, snapshot, asOf, promised, overtaken>>

Holds(q, n) == n \in DOMAIN rows /\ rows[n].id = req[q].ids[n]

UpdateInTwoSteps(q, body) ==  \* mutant: the policies are deleted before the transaction
    LET n == req[q].name IN
    /\ req[q].at = "found"
    /\ Holds(q, n)
    /\ \/ /\ rows' = [rows EXCEPT ![n].def = NoServers]
          /\ UNCHANGED <<log, req, snapshot, asOf, promised, overtaken>>
       \/ Commit(q, req[q].replica, [rows EXCEPT ![n].def = body])
    /\ UNCHANGED dropped

\* The transaction deletes and inserts the policies.  Without the group an
\* insert breaks the foreign key; with nothing to insert it changes nothing.
Update(q, body) ==
    LET n == req[q].name IN
    /\ req[q].at = "found"
    /\ \/ Holds(q, n) /\ Commit(q, req[q].replica, [rows EXCEPT ![n].def = body])
       \/ ~Holds(q, n) /\ body = NoServers /\ Commit(q, req[q].replica, rows)
       \/ /\ ~Holds(q, n) /\ body # NoServers
          /\ req' = [req EXCEPT ![q] = Answered]
          /\ UNCHANGED <<rows, log, snapshot, asOf, promised, overtaken>>
    /\ UNCHANGED dropped

\* An update of the description alone leaves the policies and refreshes too.
Describe(q) ==
    /\ req[q].at = "found"
    /\ Commit(q, req[q].replica, rows)
    /\ UNCHANGED dropped

Delete(q, r, n) ==
    /\ Arrives(q, r)
    /\ n \in DOMAIN rows
    /\ Commit(q, r, [m \in DOMAIN rows \ {n} |-> rows[m]])
    /\ dropped' = dropped \cup {n}

-----------------------------------------------------------------------------
(* The refresh.                                                            *)

\* list returns at once when there are no groups.
ListGroups(q) ==
    /\ req[q].at \in {"committed", "booting"}
    /\ req' = [req EXCEPT ![q].at = IF DOMAIN rows = {} THEN "loaded" ELSE "listed",
                          ![q].ids = [n \in DOMAIN rows |-> rows[n].id],
                          ![q].from = IF DOMAIN rows = {} THEN Len(log) ELSE 0]
    /\ UNCHANGED <<rows, log, dropped, snapshot, asOf, promised, overtaken>>

\* A group without rows in group_server_policies has an empty definition, be
\* it that it was deleted after it was listed.
LoadServersByGroupId(q) ==
    /\ req[q].at = "listed"
    /\ req' = [req EXCEPT ![q].at = "loaded", ![q].from = Len(log),
                          ![q].read = [n \in DOMAIN req[q].ids |->
                                          IF Holds(q, n) THEN rows[n].def ELSE NoServers]]
    /\ UNCHANGED <<rows, log, dropped, snapshot, asOf, promised, overtaken>>

Replace(q) ==
    LET r == req[q].replica IN
    /\ req[q].at = "loaded"
    /\ snapshot' = [snapshot EXCEPT ![r] = req[q].read]
    /\ asOf' = [asOf EXCEPT ![r] = req[q].from]
    /\ overtaken' = IF req[q].from < asOf[r] THEN overtaken \cup {r} ELSE overtaken
    /\ req' = [req EXCEPT ![q] = Answered]
    /\ promised' = IF req[q].own > promised[r] THEN [promised EXCEPT ![r] = req[q].own]
                   ELSE promised
    /\ UNCHANGED <<rows, log, dropped>>

RefreshBestEffort(q) ==  \* mutant: the request is answered as done all the same
    /\ req[q].at \in {"committed", "listed"}
    /\ promised' = [promised EXCEPT ![req[q].replica] = req[q].own]
    /\ req' = [req EXCEPT ![q] = Answered]
    /\ UNCHANGED <<rows, log, dropped, snapshot, asOf, overtaken>>

\* A query of the refresh fails: the write stays, the request is answered 500.
RefreshFails(q) ==
    /\ req[q].at \in {"committed", "listed"}
    /\ req' = [req EXCEPT ![q] = Answered]
    /\ UNCHANGED <<rows, log, dropped, snapshot, asOf, promised, overtaken>>

\* Replica r dies with its requests; q stands for its next boot.
Restart(q, r) ==
    /\ req[q].at = "new"
    /\ req' = [p \in Requests |->
                 IF p = q THEN [req[q] EXCEPT !.at = "booting", !.replica = r]
                 ELSE IF req[p].replica = r THEN Answered ELSE req[p]]
    /\ snapshot' = [snapshot EXCEPT ![r] = Down]
    /\ UNCHANGED <<rows, log, dropped, asOf, promised, overtaken>>

-----------------------------------------------------------------------------
Write(q) ==
    \/ \E r \in Replicas, n \in Names :
        \/ FindForUpdate(q, r, n) \/ Delete(q, r, n)
        \/ \E body \in Bodies : Create(q, r, n, body)
    \/ \E body \in Bodies : Update(q, body)
    \/ Describe(q)

Refresh(q) ==
    ListGroups(q) \/ LoadServersByGroupId(q) \/ Replace(q) \/ RefreshFails(q)

Next ==
    \E q \in Requests :
        \/ Write(q) \/ Refresh(q)
        \/ \E r \in Replicas : Restart(q, r)

Spec == Init /\ [][Next]_vars

-----------------------------------------------------------------------------
(* Properties.                                                             *)

IsSnapshot(known) ==
    known = [n \in DOMAIN known |-> known[n]] /\ DOMAIN known \subseteq Names
        /\ \A n \in DOMAIN known : known[n] \in Definition

\* Types of the variables.
TypeOK ==
    /\ IsSnapshot(View(rows)) /\ \A n \in DOMAIN rows : rows[n].id \in 0..Len(log)
    /\ log # <<>>
    /\ dropped \subseteq Names
    /\ \A q \in Requests :
        /\ req[q].at \in {"new", "found", "committed", "booting", "listed",
                          "loaded", "answered"}
        /\ req[q].replica \in Replicas \cup {Down}
        /\ req[q].own \in 0..Len(log) /\ req[q].from \in 0..Len(log)
        /\ req[q].at = "loaded" => IsSnapshot(req[q].read)
    /\ \A r \in Replicas : snapshot[r] = Down \/ IsSnapshot(snapshot[r])
    /\ asOf \in [Replicas -> 1..Len(log)]
    /\ promised \in [Replicas -> 0..Len(log)]
    /\ overtaken \subseteq Replicas

\* A group that was deleted between the two queries of a refresh.
Ghost(known, n) ==
    n \in dropped /\ n \in DOMAIN known /\ known[n] = NoServers

\* Every decision is one that the groups in the database called for at some
\* commit, for every set of groups a principal may have, although the
\* snapshot is read in two queries while groups come, change and go; unless
\* a group of the principal was deleted between the two.
DecidesAsCommitted ==
    \A r \in Replicas, groups \in SUBSET Names, s \in Servers, t \in Tools :
        \/ snapshot[r] = Down
        \/ \E n \in groups : Ghost(snapshot[r], n)
        \/ \E i \in 1..asOf[r] :
               outcome(groups, snapshot[r], s, t) = outcome(groups, log[i], s, t)

\* A request that was answered as done has left its write in the snapshot of
\* its replica, whatever else is written meanwhile and wherever, until a
\* refresh that read before it replaces the snapshot after it.
SeesOwnWrites ==
    \A r \in Replicas :
        snapshot[r] = Down \/ asOf[r] >= promised[r] \/ r \in overtaken

\* Without the two exceptions: "Tool allow/deny is keyed on the principal's
\* groups against group definitions persisted in Torii Postgres.  Unknown
\* groups fail closed."
KeyedOnPersistedGroups ==
    \A r \in Replicas, groups \in SUBSET Names, s \in Servers, t \in Tools :
        snapshot[r] # Down /\ outcome(groups, snapshot[r], s, t) # "denied" =>
            \E i \in 1..Len(log) : outcome(groups, log[i], s, t) # "denied"

\* "In-memory snapshot of group policy.  Replaced on every management write":
\* a replica never goes back behind a write it has answered.
NeverRollsBack == overtaken = {}
=============================================================================
