---------------------------- MODULE ConnectorSync ---------------------------
(***************************************************************************)
(* One connector of Torii, as several replicas keep it: its row in         *)
(* Postgres, the ConnectorRegistry and the connection map of each replica  *)
(* (apps/torii/src/connectors, apps/torii/src/connections), and the        *)
(* channel on which a write tells the other replicas to read again         *)
(* (packages/postgres/src/listen.ts).                                      *)
(*                                                                         *)
(* A configuration is the URL with the credential strategy; a disabled     *)
(* connector is one that toServerConfig leaves out, like a deleted one.    *)
(* Service keys, whose secrets are rows of their own, are left out, and so *)
(* is the tool list a refresh ends with.  The other connectors show only   *)
(* as the time a refresh may spend before it comes to this one.            *)
(***************************************************************************)
EXTENDS Naturals, FiniteSets

CONSTANTS
    Replicas,
    Requests,    \* HTTP requests in flight at once
    Shared,      \* configurations of strategy none: one client for everybody
    Owned,       \* configurations of strategy user_oauth: a client per owner
    None,        \* no configuration
    MaxRequests, \* bound: requests that arrive
    MaxFaults    \* bound: crashes, dropped sockets and failing statements

ASSUME NullAssumption == None \notin Shared \cup Owned
ASSUME ModesAssumption == Shared \cap Owned = {}
\* A request is not taken for a listener or a boot.
ASSUME RequestsAssumption == Requests \cap ({"listener", "boot"} \X Replicas) = {}
ASSUME BoundsAssumption == MaxRequests \in Nat /\ MaxFaults \in Nat

VARIABLES
    row,       \* the connectors row: a configuration or None
    registry,  \* ConnectorRegistry.connectors of each replica
    shared,    \* ConnectionManager.connections of each replica
    owned,     \* ConnectionManager.userConnections, of one owner
    job,       \* where each request, listener and boot is
    listening, \* replicas whose LISTEN connection is up
    pending,   \* notifications Postgres has not delivered yet
    queued,    \* PgChannelListener.queued
    begun,     \* requests so far
    faults,    \* faults so far
    missed,    \* history: a write this replica may never be told of
    overtaken, \* history: a link request put an older list in the registry
    stray      \* history: a connect that no reconcile accounts for

vars == <<row, registry, shared, owned, job, listening, pending, queued,
          begun, faults, missed, overtaken, stray>>
counters == <<begun, faults>>
history == <<missed, overtaken, stray>>
channel == <<listening, pending, queued>>
backends == <<shared, owned>>

Configs == Shared \cup Owned
SameMode(config) == IF config \in Shared THEN Shared ELSE Owned

NoEntry == [config |-> None, state |-> "absent"]
Entry == [config: Configs, state: {"connecting", "connected", "failed"}]

\* A shared connection of a user_oauth backend keeps no client.
hasClient(entry) == entry.state = "connected" /\ entry.config \in Shared

Listener(r) == <<"listener", r>>
Boot(r) == <<"boot", r>>
Jobs == Requests \cup ({"listener", "boot"} \X Replicas)
ReplicaOf(j) == IF j \in Requests THEN job[j].on ELSE j[2]

Idle == [role |-> "none", at |-> "idle", want |-> None, on |-> None]
Roles == {"none", "writer", "handler", "link", "operator", "owner", "boot"}
Points == {"idle", "listing", "listed", "pruning",
           "extending", "reconnecting", "closing", "connecting", "settled",
           "down", "loaded", "listening"}

\* The server is started once the connections of the boot are settled.
Serving(r) == job[Boot(r)].at = "idle"

Init ==
    /\ row \in Configs \cup {None}
    /\ registry = [r \in Replicas |-> row]
    /\ shared = [r \in Replicas |-> IF row = None THEN NoEntry
                                    ELSE [config |-> row, state |-> "connected"]]
    /\ owned = [r \in Replicas |-> NoEntry]
    /\ job = [j \in Jobs |-> Idle]
    /\ listening = [r \in Replicas |-> TRUE]
    /\ pending = [r \in Replicas |-> 0]
    /\ queued = [r \in Replicas |-> FALSE]
    /\ begun = 0 /\ faults = 0
    /\ missed = [r \in Replicas |-> FALSE]
    /\ overtaken = [r \in Replicas |-> FALSE]
    /\ stray = [r \in Replicas |-> FALSE]

\* A request arrives at a replica and gets as far as its first await.
Begin(q, r, role, at, want) ==
    /\ job[q] = Idle /\ Serving(r) /\ begun < MaxRequests
    /\ begun' = begun + 1
    /\ UNCHANGED faults
    /\ job' = [job EXCEPT ![q] = [role |-> role, at |-> at, want |-> want, on |-> r]]

-----------------------------------------------------------------------------
(* Writes.                                                                 *)

\* create: INSERT is refused when the slug exists.  A write that is refused,
\* or finds no row, changes nothing and is left out.
Create(q, r, config) ==
    /\ row = None
    /\ row' = config
    /\ Begin(q, r, "writer", "listing", None)
    /\ UNCHANGED <<registry, backends, channel, history>>

\* update: the authentication mode is not the caller's to change; disabling
\* the connector takes it away.
Update(q, r) ==
    /\ row # None
    /\ row' \in SameMode(row) \cup {None}
    /\ Begin(q, r, "writer", "listing", None)
    /\ UNCHANGED <<registry, backends, channel, history>>

\* delete: only the request that removed the row refreshes.
Delete(q, r) ==
    /\ row # None
    /\ row' = None
    /\ Begin(q, r, "writer", "listing", None)
    /\ UNCHANGED <<registry, backends, channel, history>>

-----------------------------------------------------------------------------
(* refreshFromStore, by the writer and by the listener.                    *)

\* repository.list, and hydrate: the rows are in hand, the registry is old.
ListRows(j) ==
    LET r == ReplicaOf(j) IN
    /\ job[j].at = "listing"
    /\ job' = [job EXCEPT ![j].at = "listed", ![j].want = row]
    /\ missed' = [missed EXCEPT ![r] = @ /\ job[j].role = "link"]
    /\ overtaken' = [overtaken EXCEPT ![r] = @ /\ job[j].role = "link"]
    /\ UNCHANGED <<row, registry, backends, counters, channel, stray>>

Known(r) == shared[r] # NoEntry \/ owned[r] # NoEntry

\* registry.replace, and the start of reconcile, which takes the desired
\* servers and the names it knows.  A link request only replaces.
ReplaceRegistry(j) ==
    LET r == ReplicaOf(j)
        want == job[j].want
        next == CASE want # None -> "extending"
                  [] want = None /\ Known(r) -> "pruning"
                  [] OTHER -> "settled"
    IN
    /\ job[j].at = "listed"
    /\ registry' = [registry EXCEPT ![r] = want]
    /\ job' = [job EXCEPT ![j] = IF job[j].role = "link" THEN Idle
                                 ELSE [@ EXCEPT !.at = next]]
    /\ overtaken' = [overtaken EXCEPT ![r] =
                        @ \/ (job[j].role = "link" /\ want # row)]
    /\ UNCHANGED <<row, backends, counters, channel, missed, stray>>

\* The clients of a connector that is gone are closed and its entries leave
\* the map, whatever they have become since.
Prune(j) ==
    LET r == ReplicaOf(j) IN
    /\ job[j].at = "pruning"
    /\ shared' = [shared EXCEPT ![r] = NoEntry]
    /\ owned' = [owned EXCEPT ![r] = NoEntry]
    /\ job' = [job EXCEPT ![j].at = "settled"]
    /\ UNCHANGED <<row, registry, counters, channel, history>>

Connecting(config) == [config |-> config, state |-> "connecting"]

ExtendNewOnly(j) ==  \* mutant: a changed configuration is not looked at
    LET r == ReplicaOf(j) IN
    /\ job[j].at = "extending"
    /\ IF shared[r] = NoEntry
       THEN /\ shared' = [shared EXCEPT ![r] = Connecting(job[j].want)]
            /\ job' = [job EXCEPT ![j].at = "connecting"]
       ELSE /\ job' = [job EXCEPT ![j].at = "settled"]
            /\ UNCHANGED shared
    /\ UNCHANGED <<row, registry, owned, counters, channel, history>>

\* reconcile, for a desired server: a new one is connected, one whose URL or
\* credential changed is reconnected, any other is left alone.
Extend(j) ==
    LET r == ReplicaOf(j) IN
    /\ job[j].at = "extending"
    /\ \/ /\ shared[r] = NoEntry
          /\ shared' = [shared EXCEPT ![r] = Connecting(job[j].want)]
          /\ job' = [job EXCEPT ![j].at = "connecting"]
       \/ /\ shared[r] # NoEntry /\ shared[r].config # job[j].want
          /\ job' = [job EXCEPT ![j].at = "reconnecting"]
          /\ UNCHANGED shared
       \/ /\ shared[r].config = job[j].want
          /\ job' = [job EXCEPT ![j].at = "settled"]
          /\ UNCHANGED shared
    /\ UNCHANGED <<row, registry, owned, counters, channel, history>>

\* The writers that have changed the row and told nobody yet.
Untold == {q \in Requests : job[q].role = "writer"}

\* What a refresh that throws leaves undone: after a writer's nobody is
\* told, after a listener's what it was told is forgotten.
Forgotten(j) ==
    missed' = [r \in Replicas |-> missed[r] \/ j \in Untold \/ j = Listener(r)]

\* The owners' connections are closed and dropped, then reconnect looks the
\* server up again: it may have left the registry while they were closing.
Reconnect(j) ==
    LET r == ReplicaOf(j)
        config == registry[r]
    IN
    /\ job[j].at = "reconnecting"
    /\ owned' = [owned EXCEPT ![r] = NoEntry]
    /\ \/ /\ config = None
          /\ job' = [job EXCEPT ![j] = Idle]
          /\ Forgotten(j)
          /\ UNCHANGED shared
       \/ /\ config # None /\ hasClient(shared[r])
          /\ job' = [job EXCEPT ![j].at = "closing", ![j].want = config]
          /\ UNCHANGED <<shared, missed>>
       \/ /\ config # None /\ ~hasClient(shared[r])
          /\ job' = [job EXCEPT ![j].at = "connecting", ![j].want = config]
          /\ shared' = [shared EXCEPT ![r] = Connecting(config)]
          /\ UNCHANGED missed
    /\ UNCHANGED <<row, registry, counters, channel, overtaken, stray>>

\* setConnection and setUserConnection, wherever the map has come to since.
\* A request or the boot may connect for a configuration the registry no
\* longer has, and nobody reconciles after it.
SetEntry(j, entry) ==
    LET r == ReplicaOf(j) IN
    /\ IF job[j].role = "owner"
       THEN owned' = [owned EXCEPT ![r] = entry] /\ UNCHANGED shared
       ELSE shared' = [shared EXCEPT ![r] = entry] /\ UNCHANGED owned
    /\ stray' = [stray EXCEPT ![r] =
                    @ \/ (job[j].role \in {"operator", "boot"}
                          /\ entry.config # registry[r])]

\* The old client is closed.
Closed(j) ==
    /\ job[j].at = "closing"
    /\ SetEntry(j, Connecting(job[j].want))
    /\ job' = [job EXCEPT ![j].at = "connecting"]
    /\ UNCHANGED <<row, registry, counters, channel, missed, overtaken>>

\* connectServer has an answer, whatever happened to the entry meanwhile.
ConnectServer(j) ==
    /\ job[j].at = "connecting"
    /\ \E state \in {"connected", "failed"} :
          SetEntry(j, [config |-> job[j].want, state |-> state])
    /\ job' = [job EXCEPT ![j] = IF @.role \in {"writer", "handler"}
                                 THEN [@ EXCEPT !.at = "settled"] ELSE Idle]
    /\ UNCHANGED <<row, registry, counters, channel, missed, overtaken>>

-----------------------------------------------------------------------------
(* The channel.                                                            *)

Handling(r) == [role |-> "handler", at |-> "listing", want |-> None, on |-> r]

DispatchDropped(r) ==  \* mutant: a call while handling is simply ignored
    /\ pending[r] > 0
    /\ pending' = [pending EXCEPT ![r] = @ - 1]
    /\ job' = [job EXCEPT ![Listener(r)] =
                  IF @.at = "idle" THEN Handling(r) ELSE @]
    /\ UNCHANGED <<row, registry, backends, counters, listening, queued,
                   history>>

\* dispatch: one notification is handled at a time, and those that arrive
\* meanwhile are remembered as one.
Dispatch(r) ==
    /\ pending[r] > 0
    /\ pending' = [pending EXCEPT ![r] = @ - 1]
    /\ IF job[Listener(r)].at = "idle"
       THEN /\ job' = [job EXCEPT ![Listener(r)] = Handling(r)]
            /\ queued' = [queued EXCEPT ![r] = FALSE]
       ELSE /\ queued' = [queued EXCEPT ![r] = TRUE]
            /\ UNCHANGED job
    /\ UNCHANGED <<row, registry, backends, counters, listening, history>>

\* The listener's refresh is over: once more when it was told meanwhile.
HandlerDone(r) ==
    /\ job[Listener(r)].at = "settled"
    /\ job' = [job EXCEPT ![Listener(r)] =
                  IF queued[r] THEN [@ EXCEPT !.at = "listing", !.want = None]
                               ELSE Idle]
    /\ queued' = [queued EXCEPT ![r] = FALSE]
    /\ UNCHANGED <<row, registry, backends, counters, listening, pending,
                   history>>

\* NOTIFY, after the writer's own refresh: every connection that listens is
\* told, the writer's replica with the others.
Notify(q) ==
    /\ job[q].at = "settled"
    /\ pending' = [r \in Replicas |-> IF listening[r] THEN pending[r] + 1
                                                      ELSE pending[r]]
    /\ missed' = [r \in Replicas |-> missed[r] \/ ~listening[r]]
    /\ job' = [job EXCEPT ![q] = Idle]
    /\ UNCHANGED <<row, registry, backends, counters, listening, queued,
                   overtaken, stray>>

\* The socket drops, with what was on its way.
ListenerDrops(r) ==
    /\ listening[r] /\ faults < MaxFaults
    /\ faults' = faults + 1
    /\ listening' = [listening EXCEPT ![r] = FALSE]
    /\ pending' = [pending EXCEPT ![r] = 0]
    /\ missed' = [missed EXCEPT ![r] = @ \/ pending[r] > 0]
    /\ UNCHANGED <<begun, row, registry, backends, job, queued, overtaken, stray>>

\* scheduleReconnect: the channel is listened to again, but nothing is read.
Relisten(r) ==
    /\ ~listening[r]
    /\ job[Boot(r)].at \notin {"down", "loaded"}
    /\ listening' = [listening EXCEPT ![r] = TRUE]
    /\ UNCHANGED <<row, registry, backends, job, counters, pending, queued,
                   history>>

-----------------------------------------------------------------------------
(* Agents, owners and operators.                                           *)

\* OAuthLinkService.resolveConnector, asked for a provider the registry does
\* not have: the whole registry is loaded again, and nothing reconciled.
LinkUnknownProvider(q, r) ==
    /\ Begin(q, r, "link", "listing", None)
    /\ UNCHANGED <<row, registry, backends, channel, history>>

\* reconnect of the shared connection: by an operator, or by ensureConnected
\* for a call that finds no client.
ReconnectShared(q, r) ==
    LET config == registry[r] IN
    /\ config # None
    /\ IF hasClient(shared[r])
       THEN Begin(q, r, "operator", "closing", config) /\ UNCHANGED shared
       ELSE /\ Begin(q, r, "operator", "connecting", config)
            /\ shared' = [shared EXCEPT ![r] = Connecting(config)]
    /\ UNCHANGED <<row, registry, owned, channel, history>>

\* reconnect of an owner's connection, for the owner's agents or the operator:
\* the shared entry must exist too.
ReconnectOwned(q, r) ==
    LET config == registry[r] IN
    /\ config \in Owned
    /\ shared' = [shared EXCEPT ![r] =
                    IF @ = NoEntry THEN [config |-> config, state |-> "failed"]
                                   ELSE @]
    /\ IF owned[r].state = "connected"
       THEN Begin(q, r, "owner", "closing", config) /\ UNCHANGED owned
       ELSE /\ Begin(q, r, "owner", "connecting", config)
            /\ owned' = [owned EXCEPT ![r] = Connecting(config)]
    /\ UNCHANGED <<row, registry, channel, history>>

\* evictOwnerConnections, after the owner's grant was dropped.
EvictOwner(r) ==
    /\ Serving(r)
    /\ owned[r] # NoEntry
    /\ owned' = [owned EXCEPT ![r] = NoEntry]
    /\ UNCHANGED <<row, registry, shared, job, counters, channel, history>>

-----------------------------------------------------------------------------
(* Failures and boots.                                                     *)

\* A statement on Postgres or the closing of a client throws, of this connector or of another
\* one that the refresh has come to before it.
Fails(j) ==
    /\ job[j].at \in {"listing", "pruning", "extending", "closing", "settled"}
    /\ faults < MaxFaults
    /\ faults' = faults + 1
    /\ job' = [job EXCEPT ![j] = Idle]
    /\ Forgotten(j)
    /\ UNCHANGED <<begun, row, registry, backends, channel, overtaken, stray>>

Crash(r) ==
    /\ faults < MaxFaults
    /\ faults' = faults + 1
    /\ job' = [j \in Jobs |->
                 IF j = Boot(r) THEN [role |-> "boot", at |-> "down", want |-> None, on |-> r]
                 ELSE IF ReplicaOf(j) = r THEN Idle ELSE job[j]]
    /\ registry' = [registry EXCEPT ![r] = None]
    /\ shared' = [shared EXCEPT ![r] = NoEntry]
    /\ owned' = [owned EXCEPT ![r] = NoEntry]
    /\ listening' = [listening EXCEPT ![r] = FALSE]
    /\ pending' = [pending EXCEPT ![r] = 0]
    /\ queued' = [queued EXCEPT ![r] = FALSE]
    /\ missed' = [s \in Replicas |->
                    s # r /\ (missed[s] \/ \E q \in Untold : job[q].on = r)]
    /\ overtaken' = [overtaken EXCEPT ![r] = FALSE]
    /\ stray' = [stray EXCEPT ![r] = FALSE]
    /\ UNCHANGED <<row, begun>>

\* createContainer: the rows are loaded first, then the channel listened to.
BootLoads(r) ==
    /\ job[Boot(r)].at = "down"
    /\ registry' = [registry EXCEPT ![r] = row]
    /\ missed' = [missed EXCEPT ![r] = FALSE]
    /\ job' = [job EXCEPT ![Boot(r)].at = "loaded"]
    /\ UNCHANGED <<row, backends, counters, channel, overtaken, stray>>

BootListens(r) ==
    /\ job[Boot(r)].at = "loaded"
    /\ listening' = [listening EXCEPT ![r] = TRUE]
    /\ job' = [job EXCEPT ![Boot(r)].at = "listening"]
    /\ UNCHANGED <<row, registry, backends, counters, pending, queued,
                   history>>

\* connectAll, with the registry as it is by now.
BootConnects(r) ==
    LET config == registry[r] IN
    /\ job[Boot(r)].at = "listening"
    /\ IF config = None
       THEN job' = [job EXCEPT ![Boot(r)] = Idle] /\ UNCHANGED shared
       ELSE /\ job' = [job EXCEPT ![Boot(r)].at = "connecting",
                                  ![Boot(r)].want = config]
            /\ shared' = [shared EXCEPT ![r] = Connecting(config)]
    /\ UNCHANGED <<row, registry, owned, counters, channel, history>>

-----------------------------------------------------------------------------
Next ==
    \/ \E q \in Requests, r \in Replicas :
          \/ \E config \in Configs : Create(q, r, config)
          \/ Update(q, r) \/ Delete(q, r) \/ LinkUnknownProvider(q, r)
          \/ ReconnectShared(q, r) \/ ReconnectOwned(q, r)
    \/ \E q \in Requests : Notify(q)
    \/ \E j \in Jobs :
          \/ ListRows(j) \/ ReplaceRegistry(j) \/ Prune(j) \/ Extend(j)
          \/ Reconnect(j) \/ Closed(j) \/ ConnectServer(j) \/ Fails(j)
    \/ \E r \in Replicas :
          \/ Dispatch(r) \/ HandlerDone(r) \/ ListenerDrops(r) \/ Relisten(r)
          \/ EvictOwner(r)
          \/ Crash(r) \/ BootLoads(r) \/ BootListens(r) \/ BootConnects(r)

Spec == Init /\ [][Next]_vars

-----------------------------------------------------------------------------
(* Properties.                                                             *)

\* Every variable keeps its type: a client is never kept for a configuration
\* that does not exist, and a listener whose connection is down has nothing
\* on its way.
TypeOK ==
    /\ row \in Configs \cup {None}
    /\ registry \in [Replicas -> Configs \cup {None}]
    /\ shared \in [Replicas -> Entry \cup {NoEntry}]
    /\ owned \in [Replicas -> Entry \cup {NoEntry}]
    /\ job \in [Jobs -> [role: Roles, at: Points, want: Configs \cup {None},
                       on: Replicas \cup {None}]]
    /\ listening \in [Replicas -> BOOLEAN]
    /\ pending \in [Replicas -> Nat]
    /\ queued \in [Replicas -> BOOLEAN]
    /\ begun \in 0..MaxRequests /\ faults \in 0..MaxFaults
    /\ missed \in [Replicas -> BOOLEAN]
    /\ overtaken \in [Replicas -> BOOLEAN]
    /\ stray \in [Replicas -> BOOLEAN]
    /\ \A r \in Replicas : ~listening[r] => pending[r] = 0

\* Nothing a write started is on its way to this replica any more.
QuietAt(r) ==
    /\ pending[r] = 0
    /\ Untold = {}
    /\ \A j \in Jobs : ReplicaOf(j) = r => job[j].at = "idle"

\* Once a replica has heard of every write and come to rest, its registry is
\* the table, however the lists of overlapping refreshes were overtaken by
\* one another: the writer is told of its own write too, and a notification
\* that arrives during a refresh is handled after it (refreshRuntimeAndNotify,
\* PgChannelListener.dispatch).
RegistryConverges ==
    \A r \in Replicas :
        QuietAt(r) /\ ~missed[r] /\ ~overtaken[r] => registry[r] = row

\* And its connection is that of the registry: it exists for the connector
\* alone, was made with its present URL and credential and is not left
\* half-way, though refreshes overlap and an older connect may come last,
\* unless a request or the boot finished a connect of its own after the
\* configuration had changed (ConnectionManager.reconcile, connectServer).
ConnectionConverges ==
    \A r \in Replicas :
        QuietAt(r) /\ ~missed[r] /\ ~overtaken[r] /\ ~stray[r] =>
            shared[r].config = row /\ shared[r].state # "connecting"

\* "Adds new backends, closes removed ones, and reconnects changed URLs."
\* (connection-manager.service.ts:115): no owner keeps a client of an earlier
\* configuration.  Not so: reconcile compares the shared entry alone, and a
\* connect that was under way puts the owner's back.
OwnersFollow ==
    \A r \in Replicas :
        QuietAt(r) /\ ~missed[r] /\ ~overtaken[r] => owned[r].config \in {None, row}

\* "In-memory snapshot of connectors. Replaced on every management write."
\* (connector-registry.service.ts:12): a replica that has heard of every
\* write has the table.  Not so: a link request for a provider the registry
\* does not know puts back the list it read before the write.
ReplacedOnWrite ==
    \A r \in Replicas : QuietAt(r) /\ ~missed[r] => registry[r] = row
=============================================================================
