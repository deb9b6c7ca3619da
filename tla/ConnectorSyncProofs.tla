------------------------- MODULE ConnectorSyncProofs ------------------------
(***************************************************************************)
(* Proofs about ConnectorSync, for any number of replicas, requests and    *)
(* configurations.                                                         *)
(*                                                                         *)
(* That a replica comes to rest with the table in hand is not inductive:   *)
(* what a replica holds may be old as long as it is yet to be told.  So    *)
(* the invariant speaks of replicas that nothing is on its way to (Calm).  *)
(* There no writer is under way, and of the jobs that reconcile only the   *)
(* listener's is, with the table as its list; what it has not done yet is  *)
(* all that the registry and the connection may lack (Settling).           *)
(***************************************************************************)
EXTENDS ConnectorSync, TLAPS

\* Where a job of each role can be, and who can have it.
PointsOf(role) ==
    CASE role = "none" -> {"idle"}
      [] role = "link" -> {"listing", "listed"}
      [] role \in {"operator", "owner"} -> {"closing", "connecting"}
      [] role = "boot" -> {"down", "loaded", "listening", "connecting"}
      [] OTHER -> {"listing", "listed", "pruning", "extending", "reconnecting",
                   "closing", "connecting", "settled"}

RequestRoles == {"none", "writer", "link", "operator", "owner"}

Formed(j) ==
    /\ job[j].at \in PointsOf(job[j].role)
    /\ job[j].at \in {"extending", "closing", "connecting"} => job[j].want \in Configs
    /\ job[j].at = "pruning" => job[j].want = None
    /\ j \in Requests => /\ job[j].role \in RequestRoles
                         /\ job[j].role # "none" => job[j].on \in Replicas
    /\ \A r \in Replicas : /\ j = Listener(r) => job[j].role \in {"none", "handler"}
                           /\ j = Boot(r) => job[j].role \in {"none", "boot"}

\* The listener of r is at a statement of points.
ListenerAt(r, points) == job[Listener(r)].at \in points

\* Something will make the listener of r read the table again.
Told(r) ==
    \/ Untold # {}
    \/ pending[r] > 0
    \/ queued[r] /\ ~ListenerAt(r, {"idle"})
    \/ ListenerAt(r, {"listing"})

Calm(r) == /\ job[Boot(r)].at # "down"
           /\ ~missed[r] /\ ~overtaken[r] /\ ~Told(r)

\* The listener has the table in hand, until it has brought it home.
Informed(r) ==
    ListenerAt(r, {"listed", "extending", "pruning", "closing", "connecting"})
        => job[Listener(r)].want = row

\* The registry is the table, or the listener is about to replace it.
Registered(r) == registry[r] = row \/ ListenerAt(r, {"listed"})

\* The connection is that of the registry, or the listener or the boot is
\* about to make it so.
Connected(r) ==
    \/ stray[r]
    \/ shared[r].config = registry[r]
    \/ ListenerAt(r, {"listed", "extending", "pruning", "reconnecting", "closing"})
    \/ job[Boot(r)].at \in {"loaded", "listening"} /\ shared[r] = NoEntry

Settling(r) == Calm(r) => Informed(r) /\ Registered(r) /\ Connected(r)

\* Whoever has left an entry half-way is still at it.
Attended(r) ==
    shared[r].state = "connecting" =>
        \E j \in Jobs : /\ ReplicaOf(j) = r /\ job[j].at = "connecting"
                        /\ job[j].role # "owner"

\* A replica that is down has nothing and does nothing.
Dormant(r) ==
    job[Boot(r)].at = "down" =>
        /\ shared[r] = NoEntry /\ ~listening[r]
        /\ \A j \in Jobs : ReplicaOf(j) = r /\ job[j].at # "idle" => j = Boot(r)

Sound(r) == Settling(r) /\ Attended(r) /\ Dormant(r)

IInv ==
    /\ TypeOK
    /\ \A j \in Jobs : Formed(j)
    /\ \A r \in Replicas : Sound(r)

-----------------------------------------------------------------------------
(* Jobs.                                                                   *)

Job == [role: Roles, at: Points, want: Configs \cup {None}, on: Replicas \cup {None}]

\* A job is a request, or the listener or the boot of one replica.
LEMMA JobKinds ==
    /\ \A r \in Replicas : /\ Listener(r) \in Jobs \ Requests /\ ReplicaOf(Listener(r)) = r
                           /\ Boot(r) \in Jobs \ Requests /\ ReplicaOf(Boot(r)) = r
    /\ \A r, s \in Replicas : /\ Listener(r) = Listener(s) => r = s
                              /\ Boot(r) = Boot(s) => r = s
                              /\ Listener(r) # Boot(s)
    /\ \A j \in Jobs : \/ j \in Requests
                       \/ \E r \in Replicas : j = Listener(r) \/ j = Boot(r)
BY RequestsAssumption DEF Jobs, Listener, Boot, ReplicaOf

\* The same, of a listener's and a boot's replica after the step.
LEMMA KindsLater ==
    \A r \in Replicas : ReplicaOf(Listener(r))' = r /\ ReplicaOf(Boot(r))' = r
BY RequestsAssumption DEF Jobs, Listener, Boot, ReplicaOf

\* What a job can be, from where it is.
LEMMA RoleAt ==
    ASSUME NEW j \in Jobs, job[j] \in Job, Formed(j)
    PROVE  LET role == job[j].role
               at == job[j].at
           IN  /\ at = "idle" <=> role = "none"
               /\ at \in {"listing", "listed"} => role \in {"link", "writer", "handler"}
               /\ at \in {"pruning", "extending", "reconnecting", "settled"}
                    => role \in {"writer", "handler"}
               /\ at = "closing" => role \in {"operator", "owner", "writer", "handler"}
               /\ at = "connecting"
                    => role \in {"operator", "owner", "boot", "writer", "handler"}
               /\ at \in {"down", "loaded", "listening"} => role = "boot"
               /\ role \in {"writer", "link", "operator", "owner"}
                    => j \in Requests /\ job[j].on \in Replicas /\ ReplicaOf(j) \in Replicas
               /\ role = "handler" => \E r \in Replicas : j = Listener(r)
               /\ role = "boot" => \E r \in Replicas : j = Boot(r)
<1>1. job[j].role \in Roles /\ job[j].at \in PointsOf(job[j].role)
  BY DEF Job, Formed
<1>2. job[j].role \in {"writer", "link", "operator", "owner"} => j \in Requests
  BY JobKinds DEF Formed
<1>3. job[j].role = "handler" => \E r \in Replicas : j = Listener(r)
  BY JobKinds DEF Formed, RequestRoles
<1>4. job[j].role = "boot" => \E r \in Replicas : j = Boot(r)
  BY JobKinds DEF Formed, RequestRoles
<1>5. j \in Requests => ReplicaOf(j) = job[j].on
  BY DEF ReplicaOf
<1> QED BY <1>1, <1>2, <1>3, <1>4, <1>5 DEF PointsOf, Roles, Formed

\* The other jobs stay where they are.
Others(j) == \A i \in Jobs \ {j} : job'[i] = job[i]

\* j goes on to a point, with a configuration.
Goes(j, point, config) ==
    /\ job' \in [Jobs -> Job] /\ Others(j)
    /\ job'[j].role = job[j].role /\ job'[j].on = job[j].on
    /\ job'[j].at = point /\ job'[j].want = config

Rests(j) == job' \in [Jobs -> Job] /\ Others(j) /\ job'[j] = Idle

\* j begins.
Starts(j, role, point, config, r) ==
    /\ job' \in [Jobs -> Job] /\ Others(j)
    /\ job'[j].role = role /\ job'[j].on = r
    /\ job'[j].at = point /\ job'[j].want = config

LEMMA JobTo ==
    ASSUME job \in [Jobs -> Job], NEW j \in Jobs, NEW b \in Job, job' = [job EXCEPT ![j] = b]
    PROVE  job' \in [Jobs -> Job] /\ Others(j) /\ job'[j] = b
BY DEF Others

LEMMA GoTo ==
    ASSUME job \in [Jobs -> Job], NEW j \in Jobs, NEW p \in Points,
           job' = [job EXCEPT ![j].at = p]
    PROVE  Goes(j, p, job[j].want)
<1> DEFINE b == [job[j] EXCEPT !.at = p]
<1>1. b \in Job /\ b.role = job[j].role /\ b.on = job[j].on /\ b.at = p
      /\ b.want = job[j].want
  BY DEF Job
<1>2. job' = [job EXCEPT ![j] = b]
  OBVIOUS
<1> HIDE DEF b
<1> QED BY <1>1, <1>2, JobTo DEF Goes

LEMMA GoWith ==
    ASSUME job \in [Jobs -> Job], NEW j \in Jobs, NEW p \in Points,
           NEW config \in Configs \cup {None},
           job' = [job EXCEPT ![j].at = p, ![j].want = config]
    PROVE  Goes(j, p, config)
<1> DEFINE b == [[job[j] EXCEPT !.at = p] EXCEPT !.want = config]
<1>1. b \in Job /\ b.role = job[j].role /\ b.on = job[j].on /\ b.at = p
      /\ b.want = config
  BY DEF Job
<1>2. job' = [job EXCEPT ![j] = b]
  OBVIOUS
<1> HIDE DEF b
<1> QED BY <1>1, <1>2, JobTo DEF Goes

LEMMA IdleJob == Idle \in Job
BY DEF Idle, Job, Roles, Points

LEMMA RestTo ==
    ASSUME job \in [Jobs -> Job], NEW j \in Jobs, job' = [job EXCEPT ![j] = Idle]
    PROVE  Rests(j)
BY IdleJob, JobTo DEF Rests

LEMMA StartTo ==
    ASSUME job \in [Jobs -> Job], NEW j \in Jobs, NEW role \in Roles, NEW p \in Points,
           NEW config \in Configs \cup {None}, NEW r \in Replicas,
           job' = [job EXCEPT ![j] = [role |-> role, at |-> p, want |-> config, on |-> r]]
    PROVE  Starts(j, role, p, config, r)
BY JobTo DEF Starts, Job

\* The form of the job that moved, and of all.
LEMMA FormGoes ==
    ASSUME NEW j \in Jobs, Formed(j), NEW p, NEW config, Goes(j, p, config),
           p \in PointsOf(job[j].role),
           p \in {"extending", "closing", "connecting"} => config \in Configs,
           p = "pruning" => config = None
    PROVE  Formed(j)'
BY DEF Formed, Goes

LEMMA FormRests ==
    ASSUME NEW j \in Jobs, Rests(j)
    PROVE  Formed(j)'
BY DEF Formed, Rests, Idle, PointsOf, RequestRoles

LEMMA FormOthers ==
    ASSUME \A i \in Jobs : Formed(i), NEW j \in Jobs, Others(j), Formed(j)'
    PROVE  \A i \in Jobs : Formed(i)'
BY DEF Others, Formed

-----------------------------------------------------------------------------
(* What each step does to its job, and that it keeps types and forms.      *)

Base == TypeOK /\ \A j \in Jobs : Formed(j)

\* The types of the variables a step of a job may change beside it.
EntryTypes == /\ shared \in [Replicas -> Entry \cup {NoEntry}]
              /\ owned \in [Replicas -> Entry \cup {NoEntry}]
              /\ registry \in [Replicas -> Configs \cup {None}]
              /\ missed \in [Replicas -> BOOLEAN]
              /\ overtaken \in [Replicas -> BOOLEAN]
              /\ stray \in [Replicas -> BOOLEAN]

LEMMA BaseJobs ==
    ASSUME Base
    PROVE  /\ job \in [Jobs -> Job] /\ \A j \in Jobs : job[j] \in Job /\ Formed(j)
           /\ EntryTypes /\ row \in Configs \cup {None}
BY DEF Base, TypeOK, Job, EntryTypes

LEMMA BaseLater ==
    ASSUME Base, NEW j \in Jobs, job' \in [Jobs -> Job], Others(j), Formed(j)',
           EntryTypes', UNCHANGED <<row, channel, begun>>, faults' \in 0..MaxFaults
    PROVE  Base'
<1>1. \A i \in Jobs : Formed(i)'
  BY FormOthers DEF Base
<1>2. TypeOK'
  BY DEF Base, TypeOK, Job, EntryTypes, channel
<1> QED BY <1>1, <1>2 DEF Base

LEMMA EntriesMade ==
    /\ \A config \in Configs : Connecting(config) \in Entry
    /\ \A config \in Configs, state \in {"connected", "failed"} :
          [config |-> config, state |-> state] \in Entry
BY DEF Connecting, Entry

LEMMA ListRowsDoes ==
    ASSUME Base, NEW j \in Jobs, ListRows(j)
    PROVE  Goes(j, "listed", row) /\ Base'
<1>1. job \in [Jobs -> Job] /\ row \in Configs \cup {None}
  BY BaseJobs
<1>2. Goes(j, "listed", row)
  BY <1>1, GoWith DEF ListRows, Points
<1>3. Formed(j)'
  <2>1. job[j].role \in {"link", "writer", "handler"}
    BY BaseJobs, RoleAt DEF ListRows
  <2>2. "listed" \in PointsOf(job[j].role)
    BY <2>1 DEF PointsOf
  <2> QED BY <1>2, <2>2, FormGoes DEF Base
<1>4. EntryTypes'
  BY DEF ListRows, backends, Base, TypeOK, EntryTypes
<1> QED BY <1>2, <1>3, <1>4, BaseLater DEF ListRows, Goes, counters, Base, TypeOK

LEMMA ReplaceRegistryDoes ==
    ASSUME Base, NEW j \in Jobs, ReplaceRegistry(j)
    PROVE  /\ Base'
           /\ job[j].role = "link" => Rests(j)
           /\ job[j].role # "link" =>
                /\ job[j].role \in {"writer", "handler"}
                /\ \/ job[j].want # None /\ Goes(j, "extending", job[j].want)
                   \/ job[j].want = None /\ Goes(j, "pruning", job[j].want)
                   \/ /\ job[j].want = None /\ Goes(j, "settled", job[j].want)
                      /\ ~Known(ReplicaOf(j))
<1>1. job \in [Jobs -> Job] /\ job[j] \in Job /\ job[j].want \in Configs \cup {None}
  BY BaseJobs DEF Job
<1>2. job[j].role \in {"link", "writer", "handler"}
  BY BaseJobs, RoleAt DEF ReplaceRegistry
<1>3. EntryTypes'
  BY <1>1 DEF ReplaceRegistry, backends, Base, TypeOK, EntryTypes
<1>4. CASE job[j].role = "link"
  <2>1. Rests(j)
    BY <1>1, <1>4, RestTo DEF ReplaceRegistry
  <2> QED BY <1>3, <1>4, <2>1, FormRests, BaseLater
          DEF ReplaceRegistry, Rests, counters, Base, TypeOK
<1>5. CASE job[j].role # "link"
  <2>1. ASSUME NEW p \in {"extending", "pruning", "settled"},
               job' = [job EXCEPT ![j].at = p],
               p = "extending" => job[j].want # None,
               p = "pruning" => job[j].want = None
        PROVE  Goes(j, p, job[j].want) /\ Base'
    <3>1. Goes(j, p, job[j].want)
      BY <1>1, <2>1, GoTo DEF Points
    <3>2. p \in PointsOf(job[j].role)
      BY <1>2, <1>5 DEF PointsOf
    <3>3. Formed(j)'
      BY <1>1, <2>1, <3>1, <3>2, FormGoes DEF Base
    <3> QED BY <1>3, <3>1, <3>3, BaseLater
            DEF ReplaceRegistry, Goes, counters, Base, TypeOK
  <2>2. CASE job[j].want # None
    <3>1. job' = [job EXCEPT ![j].at = "extending"]
      BY <1>5, <2>2 DEF ReplaceRegistry
    <3> QED BY <1>2, <1>5, <2>1, <2>2, <3>1
  <2>3. CASE job[j].want = None /\ Known(ReplicaOf(j))
    <3>1. job' = [job EXCEPT ![j].at = "pruning"]
      BY <1>5, <2>3 DEF ReplaceRegistry
    <3> QED BY <1>2, <1>5, <2>1, <2>3, <3>1
  <2>4. CASE job[j].want = None /\ ~Known(ReplicaOf(j))
    <3>1. job' = [job EXCEPT ![j].at = "settled"]
      BY <1>5, <2>4 DEF ReplaceRegistry
    <3> QED BY <1>2, <1>5, <2>1, <2>4, <3>1
  <2> QED BY <2>2, <2>3, <2>4
<1> QED BY <1>4, <1>5

LEMMA PruneDoes ==
    ASSUME Base, NEW j \in Jobs, Prune(j)
    PROVE  Goes(j, "settled", job[j].want) /\ Base'
<1>1. job \in [Jobs -> Job]
  BY BaseJobs
<1>2. Goes(j, "settled", job[j].want)
  BY <1>1, GoTo DEF Prune, Points
<1>3. job[j].role \in {"writer", "handler"}
  BY BaseJobs, RoleAt DEF Prune
<1>4. Formed(j)'
  BY <1>2, <1>3, FormGoes DEF Base, PointsOf
<1>5. EntryTypes'
  BY DEF Prune, history, Base, TypeOK, EntryTypes
<1> QED BY <1>2, <1>4, <1>5, BaseLater DEF Prune, Goes, counters, Base, TypeOK

LEMMA ExtendDoes ==
    ASSUME Base, NEW j \in Jobs, Extend(j)
    PROVE  /\ Base'
           /\ \E p \in {"connecting", "reconnecting", "settled"} : Goes(j, p, job[j].want)
<1>1. job \in [Jobs -> Job]
  BY BaseJobs
<1>2. job[j].role \in {"writer", "handler"} /\ job[j].want \in Configs
  BY BaseJobs, RoleAt DEF Extend, Base, Formed
<1>3. PICK p \in {"connecting", "reconnecting", "settled"} :
        job' = [job EXCEPT ![j].at = p]
  BY DEF Extend
<1>4. Goes(j, p, job[j].want)
  BY <1>1, <1>3, GoTo DEF Points
<1>5. Formed(j)'
  BY <1>2, <1>4, FormGoes DEF Base, PointsOf
<1>6. EntryTypes'
  BY <1>2, EntriesMade DEF Extend, history, Base, TypeOK, EntryTypes
<1> QED BY <1>4, <1>5, <1>6, BaseLater DEF Extend, Goes, counters, Base, TypeOK

LEMMA ReconnectDoes ==
    ASSUME Base, NEW j \in Jobs, Reconnect(j)
    PROVE  LET r == ReplicaOf(j)
           IN  /\ Base'
               /\ r \in Replicas /\ job[j].role \in {"writer", "handler"}
               /\ \/ registry[r] = None /\ Rests(j) /\ Forgotten(j)
                  \/ /\ registry[r] # None /\ missed' = missed /\ shared' = shared
                     /\ Goes(j, "closing", registry[r])
                  \/ /\ registry[r] # None /\ missed' = missed
                     /\ shared' = [shared EXCEPT ![r] = Connecting(registry[r])]
                     /\ Goes(j, "connecting", registry[r])
<1> DEFINE r == ReplicaOf(j)
<1>1. job \in [Jobs -> Job] /\ EntryTypes
  BY BaseJobs
<1>2. job[j].role \in {"writer", "handler"}
  BY BaseJobs, RoleAt DEF Reconnect
<1>3. r \in Replicas
  BY <1>2, BaseJobs, RoleAt, JobKinds
<1>4. registry[r] \in Configs \cup {None}
  BY <1>1, <1>3 DEF EntryTypes
<1> HIDE DEF r
<1>5. CASE registry[r] = None
  <2>1. job' = [job EXCEPT ![j] = Idle] /\ Forgotten(j) /\ shared' = shared
        /\ owned' = [owned EXCEPT ![r] = NoEntry]
    BY <1>5 DEF Reconnect, r
  <2>2. Rests(j)
    BY <1>1, <2>1, RestTo
  <2>3. EntryTypes'
    BY <1>1, <2>1 DEF Reconnect, Forgotten, EntryTypes
  <2>4. Base'
    BY <2>2, <2>3, FormRests, BaseLater DEF Reconnect, Rests, counters, Base, TypeOK
  <2> QED BY <1>2, <1>3, <1>5, <2>1, <2>2, <2>4 DEF r
<1>6. ASSUME NEW p \in {"closing", "connecting"}, registry[r] # None,
             job' = [job EXCEPT ![j].at = p, ![j].want = registry[r]],
             shared' \in [Replicas -> Entry \cup {NoEntry}], missed' = missed
      PROVE  Goes(j, p, registry[r]) /\ Base'
  <2>1. Goes(j, p, registry[r])
    BY <1>1, <1>4, <1>6, GoWith DEF Points
  <2>2. Formed(j)'
    BY <1>2, <1>4, <1>6, <2>1, FormGoes DEF Base, PointsOf
  <2>3. EntryTypes'
    BY <1>1, <1>6 DEF Reconnect, EntryTypes
  <2> QED BY <2>1, <2>2, <2>3, BaseLater DEF Reconnect, Goes, counters, Base, TypeOK
<1>7. CASE registry[r] # None /\ hasClient(shared[r])
  <2>1. job' = [job EXCEPT ![j].at = "closing", ![j].want = registry[r]]
        /\ shared' = shared /\ missed' = missed
    BY <1>7 DEF Reconnect, r
  <2> QED BY <1>1, <1>2, <1>3, <1>6, <1>7, <2>1 DEF EntryTypes, r
<1>8. CASE registry[r] # None /\ ~hasClient(shared[r])
  <2>1. /\ job' = [job EXCEPT ![j].at = "connecting", ![j].want = registry[r]]
        /\ shared' = [shared EXCEPT ![r] = Connecting(registry[r])] /\ missed' = missed
    BY <1>8 DEF Reconnect, r
  <2>2. shared' \in [Replicas -> Entry \cup {NoEntry}]
    BY <1>1, <1>4, <1>8, <2>1, EntriesMade DEF EntryTypes
  <2> QED BY <1>2, <1>3, <1>6, <1>8, <2>1, <2>2 DEF r
<1> QED BY <1>5, <1>7, <1>8

LEMMA SetEntryTypes ==
    ASSUME Base, NEW j \in Jobs, NEW entry \in Entry, SetEntry(j, entry),
           UNCHANGED <<registry, missed, overtaken>>
    PROVE  EntryTypes'
<1>1. EntryTypes
  BY BaseJobs
<1>2. shared' \in [Replicas -> Entry \cup {NoEntry}]
      /\ owned' \in [Replicas -> Entry \cup {NoEntry}]
  BY <1>1 DEF SetEntry, EntryTypes
<1>3. stray' \in [Replicas -> BOOLEAN]
  BY <1>1 DEF SetEntry, EntryTypes
<1> QED BY <1>1, <1>2, <1>3 DEF EntryTypes

LEMMA ClosedDoes ==
    ASSUME Base, NEW j \in Jobs, Closed(j)
    PROVE  Goes(j, "connecting", job[j].want) /\ Base'
<1>1. job \in [Jobs -> Job] /\ job[j].want \in Configs
  BY BaseJobs DEF Closed, Formed
<1>2. Goes(j, "connecting", job[j].want)
  BY <1>1, GoTo DEF Closed, Points
<1>3. job[j].role \in {"operator", "owner", "writer", "handler"}
  BY BaseJobs, RoleAt DEF Closed
<1>4. Formed(j)'
  BY <1>1, <1>2, <1>3, FormGoes DEF Base, PointsOf
<1>5. EntryTypes'
  BY <1>1, EntriesMade, SetEntryTypes DEF Closed
<1> QED BY <1>2, <1>4, <1>5, BaseLater DEF Closed, Goes, counters, Base, TypeOK

LEMMA ConnectServerDoes ==
    ASSUME Base, NEW j \in Jobs, ConnectServer(j)
    PROVE  /\ Base'
           /\ job[j].role \in {"writer", "handler"} => Goes(j, "settled", job[j].want)
           /\ job[j].role \notin {"writer", "handler"} => Rests(j)
<1>1. job \in [Jobs -> Job] /\ job[j].want \in Configs
  BY BaseJobs DEF ConnectServer, Formed
<1>2. EntryTypes'
  BY <1>1, EntriesMade, SetEntryTypes DEF ConnectServer
<1>3. CASE job[j].role \in {"writer", "handler"}
  <2>1. job' = [job EXCEPT ![j].at = "settled"]
    BY <1>1, <1>3 DEF ConnectServer
  <2>2. Goes(j, "settled", job[j].want)
    BY <1>1, <2>1, GoTo DEF Points
  <2>3. Formed(j)'
    BY <1>3, <2>2, FormGoes DEF Base, PointsOf
  <2> QED BY <1>2, <1>3, <2>2, <2>3, BaseLater DEF ConnectServer, Goes, counters, Base, TypeOK
<1>4. CASE job[j].role \notin {"writer", "handler"}
  <2>1. Rests(j)
    BY <1>1, <1>4, RestTo DEF ConnectServer
  <2> QED BY <1>2, <1>4, <2>1, FormRests, BaseLater
          DEF ConnectServer, Rests, counters, Base, TypeOK
<1> QED BY <1>3, <1>4

LEMMA FailsDoes ==
    ASSUME Base, NEW j \in Jobs, Fails(j)
    PROVE  Rests(j) /\ Base'
<1>1. job \in [Jobs -> Job] /\ EntryTypes
  BY BaseJobs
<1>2. Rests(j)
  BY <1>1, RestTo DEF Fails
<1>3. EntryTypes'
  BY <1>1 DEF Fails, Forgotten, backends, EntryTypes
<1>4. faults' \in 0..MaxFaults
  BY BoundsAssumption DEF Fails, Base, TypeOK
<1> QED BY <1>2, <1>3, <1>4, FormRests, BaseLater DEF Fails, Rests

\* A step that leaves the jobs alone.
LEMMA BaseAlone ==
    ASSUME Base, job' = job, TypeOK'
    PROVE  Base'
BY DEF Base, Formed

\* A request that begins.
LEMMA BeginDoes ==
    ASSUME Base, NEW q \in Requests, NEW r \in Replicas,
           NEW role \in RequestRoles \ {"none"}, NEW p \in PointsOf(role) \ {"pruning"},
           NEW config \in Configs \cup {None},
           p \in {"extending", "closing", "connecting"} => config \in Configs,
           Begin(q, r, role, p, config)
    PROVE  /\ Starts(q, role, p, config, r) /\ \A i \in Jobs : Formed(i)'
           /\ job[q] = Idle /\ begun' \in 0..MaxRequests /\ faults' = faults
<1>1. job \in [Jobs -> Job] /\ q \in Jobs /\ role \in Roles /\ p \in Points
  BY BaseJobs DEF Jobs, RequestRoles, Roles, PointsOf, Points
<1>2. Starts(q, role, p, config, r)
  BY <1>1, StartTo DEF Begin
<1>3. Formed(q)'
  BY <1>1, <1>2, JobKinds DEF Starts, Formed
<1>4. \A i \in Jobs : Formed(i)'
  BY <1>1, <1>2, <1>3, FormOthers DEF Starts, Base
<1> QED BY <1>2, <1>4, BoundsAssumption DEF Begin, Base, TypeOK

LEMMA WriteDoes ==
    ASSUME Base, NEW q \in Requests, NEW r \in Replicas,
           (\E config \in Configs : Create(q, r, config)) \/ Update(q, r) \/ Delete(q, r)
    PROVE  Starts(q, "writer", "listing", None, r) /\ job[q] = Idle /\ Base'
<1>1. Begin(q, r, "writer", "listing", None) /\ row' \in Configs \cup {None}
      /\ UNCHANGED <<registry, backends, channel, history>>
  BY DEF Create, Update, Delete, SameMode, Base, TypeOK, Configs
<1>2. "writer" \in RequestRoles \ {"none"} /\ "listing" \in PointsOf("writer")
  BY DEF RequestRoles, PointsOf
<1>3. /\ Starts(q, "writer", "listing", None, r) /\ \A i \in Jobs : Formed(i)'
      /\ job[q] = Idle /\ begun' \in 0..MaxRequests /\ faults' = faults
  BY <1>1, <1>2, BeginDoes
<1>4. TypeOK'
  BY <1>1, <1>3 DEF Base, TypeOK, Starts, Job, backends, channel, history
<1> QED BY <1>3, <1>4 DEF Base

LEMMA LinkDoes ==
    ASSUME Base, NEW q \in Requests, NEW r \in Replicas, LinkUnknownProvider(q, r)
    PROVE  Starts(q, "link", "listing", None, r) /\ job[q] = Idle /\ Base'
<1>1. "link" \in RequestRoles \ {"none"} /\ "listing" \in PointsOf("link")
  BY DEF RequestRoles, PointsOf
<1>2. /\ Starts(q, "link", "listing", None, r) /\ \A i \in Jobs : Formed(i)'
      /\ job[q] = Idle /\ begun' \in 0..MaxRequests /\ faults' = faults
  BY <1>1, BeginDoes DEF LinkUnknownProvider
<1>3. TypeOK'
  BY <1>2 DEF LinkUnknownProvider, Base, TypeOK, Starts, Job, backends, channel, history
<1> QED BY <1>2, <1>3 DEF Base

LEMMA ReconnectSharedDoes ==
    ASSUME Base, NEW q \in Requests, NEW r \in Replicas, ReconnectShared(q, r)
    PROVE  /\ Base' /\ job[q] = Idle /\ registry[r] \in Configs
           /\ \/ Starts(q, "operator", "closing", registry[r], r) /\ shared' = shared
              \/ /\ Starts(q, "operator", "connecting", registry[r], r)
                 /\ shared' = [shared EXCEPT ![r] = Connecting(registry[r])]
<1>1. registry[r] \in Configs /\ EntryTypes
  BY BaseJobs DEF ReconnectShared, EntryTypes
<1>2. PICK p \in {"closing", "connecting"} :
        /\ Begin(q, r, "operator", p, registry[r])
        /\ \/ p = "closing" /\ shared' = shared
           \/ p = "connecting" /\ shared' = [shared EXCEPT ![r] = Connecting(registry[r])]
  BY DEF ReconnectShared
<1>3. "operator" \in RequestRoles \ {"none"} /\ p \in PointsOf("operator")
  BY DEF RequestRoles, PointsOf
<1>4. /\ Starts(q, "operator", p, registry[r], r) /\ \A i \in Jobs : Formed(i)'
      /\ job[q] = Idle /\ begun' \in 0..MaxRequests /\ faults' = faults
  BY <1>1, <1>2, <1>3, BeginDoes
<1>5. shared' \in [Replicas -> Entry \cup {NoEntry}]
  BY <1>1, <1>2, EntriesMade DEF EntryTypes
<1>6. TypeOK'
  BY <1>4, <1>5 DEF ReconnectShared, Base, TypeOK, Starts, Job, channel, history
<1> QED BY <1>1, <1>2, <1>4, <1>6 DEF Base

LEMMA ReconnectOwnedDoes ==
    ASSUME Base, NEW q \in Requests, NEW r \in Replicas, ReconnectOwned(q, r)
    PROVE  /\ Base' /\ job[q] = Idle
           /\ \E p \in {"closing", "connecting"} : Starts(q, "owner", p, registry[r], r)
<1>1. registry[r] \in Configs /\ EntryTypes
  BY BaseJobs DEF ReconnectOwned, Configs
<1>2. PICK p \in {"closing", "connecting"} :
        /\ Begin(q, r, "owner", p, registry[r])
        /\ \/ owned' = owned
           \/ owned' = [owned EXCEPT ![r] = Connecting(registry[r])]
  BY DEF ReconnectOwned
<1>3. "owner" \in RequestRoles \ {"none"} /\ p \in PointsOf("owner")
  BY DEF RequestRoles, PointsOf
<1>4. /\ Starts(q, "owner", p, registry[r], r) /\ \A i \in Jobs : Formed(i)'
      /\ job[q] = Idle /\ begun' \in 0..MaxRequests /\ faults' = faults
  BY <1>1, <1>2, <1>3, BeginDoes
<1>5. shared' \in [Replicas -> Entry \cup {NoEntry}]
      /\ owned' \in [Replicas -> Entry \cup {NoEntry}]
  BY <1>1, <1>2, EntriesMade DEF ReconnectOwned, EntryTypes
<1>6. TypeOK'
  BY <1>4, <1>5 DEF ReconnectOwned, Base, TypeOK, Starts, Job, channel, history
<1> QED BY <1>4, <1>6 DEF Base

LEMMA DispatchDoes ==
    ASSUME Base, NEW r \in Replicas, Dispatch(r)
    PROVE  /\ Base' /\ Others(Listener(r))
           /\ \/ /\ ListenerAt(r, {"idle"}) /\ queued' = [queued EXCEPT ![r] = FALSE]
                 /\ Starts(Listener(r), "handler", "listing", None, r)
              \/ /\ ~ListenerAt(r, {"idle"}) /\ queued' = [queued EXCEPT ![r] = TRUE]
                 /\ job' = job
<1>1. Listener(r) \in Jobs \ Requests /\ job \in [Jobs -> Job]
  BY JobKinds, BaseJobs
<1>2. EntryTypes' /\ queued' \in [Replicas -> BOOLEAN] /\ pending' \in [Replicas -> Nat]
      /\ \A s \in Replicas : ~listening'[s] => pending'[s] = 0
  <2>1. /\ EntryTypes /\ queued \in [Replicas -> BOOLEAN] /\ pending \in [Replicas -> Nat]
        /\ \A s \in Replicas : ~listening[s] => pending[s] = 0
    BY BaseJobs DEF Base, TypeOK
  <2>2. UNCHANGED <<registry, shared, owned, missed, overtaken, stray, listening>>
        /\ pending[r] > 0 /\ pending' = [pending EXCEPT ![r] = @ - 1]
    BY DEF Dispatch, backends, history
  <2>3. \/ queued' = [queued EXCEPT ![r] = FALSE]
        \/ queued' = [queued EXCEPT ![r] = TRUE]
    BY DEF Dispatch
  <2>4. EntryTypes' /\ queued' \in [Replicas -> BOOLEAN]
    BY <2>1, <2>2, <2>3 DEF EntryTypes
  <2>5. pending' \in [Replicas -> Nat] /\ \A s \in Replicas : ~listening'[s] => pending'[s] = 0
    BY <2>1, <2>2
  <2> QED BY <2>4, <2>5
<1>3. CASE ListenerAt(r, {"idle"})
  <2>1. job' = [job EXCEPT ![Listener(r)] =
                  [role |-> "handler", at |-> "listing", want |-> None, on |-> r]]
    BY <1>3 DEF Dispatch, ListenerAt, Handling
  <2>2. Starts(Listener(r), "handler", "listing", None, r)
    BY <1>1, <2>1, StartTo DEF Roles, Points
  <2>3. Formed(Listener(r))'
    BY <1>1, <2>2, JobKinds DEF Starts, Formed, PointsOf
  <2>4. \A i \in Jobs : Formed(i)'
    BY <1>1, <2>2, <2>3, FormOthers DEF Starts, Base
  <2>5. TypeOK'
    BY <1>2, <2>2 DEF Dispatch, counters, Starts, Base, TypeOK, EntryTypes, Job
  <2> QED BY <1>3, <2>2, <2>4, <2>5 DEF Base, Starts, Dispatch, ListenerAt
<1>4. CASE ~ListenerAt(r, {"idle"})
  <2>1. job' = job /\ queued' = [queued EXCEPT ![r] = TRUE]
    BY <1>4 DEF Dispatch, ListenerAt
  <2>2. TypeOK'
    BY <1>2, <2>1 DEF Dispatch, counters, Base, TypeOK, EntryTypes, Job
  <2> QED BY <1>4, <2>1, <2>2, BaseAlone DEF Others
<1> QED BY <1>3, <1>4

LEMMA HandlerDoneDoes ==
    ASSUME Base, NEW r \in Replicas, HandlerDone(r)
    PROVE  /\ Base'
           /\ IF queued[r] THEN Goes(Listener(r), "listing", None) ELSE Rests(Listener(r))
<1> DEFINE j == Listener(r)
<1>1. j \in Jobs /\ job \in [Jobs -> Job]
  BY JobKinds, BaseJobs
<1>2. EntryTypes' /\ queued' \in [Replicas -> BOOLEAN]
  <2>1. EntryTypes /\ queued \in [Replicas -> BOOLEAN]
    BY BaseJobs DEF Base, TypeOK
  <2>2. UNCHANGED <<registry, shared, owned, missed, overtaken, stray>>
        /\ queued' = [queued EXCEPT ![r] = FALSE]
    BY DEF HandlerDone, backends, history
  <2>3. EntryTypes'
    BY <2>1, <2>2 DEF EntryTypes
  <2> QED BY <2>1, <2>2, <2>3
<1>3. job[j].role \in {"writer", "handler"}
  BY <1>1, BaseJobs, RoleAt DEF HandlerDone
<1>4. CASE queued[r]
  <2>1. job' = [job EXCEPT ![j].at = "listing", ![j].want = None]
    BY <1>4 DEF HandlerDone
  <2>2. Goes(j, "listing", None)
    BY <1>1, <2>1, GoWith DEF Points
  <2>3. Formed(j)'
    BY <1>1, <1>3, <2>2, FormGoes DEF Base, PointsOf
  <2>4. \A i \in Jobs : Formed(i)'
    BY <1>1, <2>2, <2>3, FormOthers DEF Goes, Base
  <2>5. TypeOK'
    BY <1>2, <2>2 DEF HandlerDone, counters, Goes, Base, TypeOK, EntryTypes, Job
  <2> QED BY <1>4, <2>2, <2>4, <2>5 DEF Base
<1>5. CASE ~queued[r]
  <2>1. job' = [job EXCEPT ![j] = Idle]
    BY <1>5 DEF HandlerDone
  <2>2. Rests(j)
    BY <1>1, <2>1, RestTo
  <2>3. Formed(j)'
    BY <1>1, <2>2, FormRests
  <2>4. \A i \in Jobs : Formed(i)'
    BY <1>1, <2>2, <2>3, FormOthers DEF Rests, Base
  <2>5. TypeOK'
    BY <1>2, <2>2 DEF HandlerDone, counters, Rests, Base, TypeOK, EntryTypes, Job
  <2> QED BY <1>5, <2>2, <2>4, <2>5 DEF Base
<1> QED BY <1>4, <1>5

LEMMA NotifyDoes ==
    ASSUME Base, NEW q \in Requests, Notify(q)
    PROVE  Rests(q) /\ Base'
<1>1. q \in Jobs /\ job \in [Jobs -> Job] /\ EntryTypes
  BY BaseJobs DEF Jobs
<1>2. Rests(q)
  BY <1>1, RestTo DEF Notify
<1>3. \A i \in Jobs : Formed(i)'
  BY <1>1, <1>2, FormRests, FormOthers DEF Rests, Base
<1>4. /\ missed' \in [Replicas -> BOOLEAN] /\ pending' \in [Replicas -> Nat]
      /\ \A s \in Replicas : ~listening'[s] => pending'[s] = 0
  BY DEF Notify, Base, TypeOK
<1>5. TypeOK'
  BY <1>1, <1>2, <1>4 DEF Notify, backends, counters, Rests, Base, TypeOK, Job, EntryTypes
<1> QED BY <1>2, <1>3, <1>5 DEF Base

LEMMA ChannelDoes ==
    ASSUME Base, NEW r \in Replicas,
           ListenerDrops(r) \/ Relisten(r) \/ EvictOwner(r)
    PROVE  job' = job /\ Base'
<1>1. CASE ListenerDrops(r)
  BY <1>1, BaseAlone, BoundsAssumption DEF ListenerDrops, backends, Base, TypeOK
<1>2. CASE Relisten(r)
  BY <1>2, BaseAlone DEF Relisten, backends, counters, history, Base, TypeOK
<1>3. CASE EvictOwner(r)
  BY <1>3, BaseAlone DEF EvictOwner, counters, channel, history, Base, TypeOK
<1> QED BY <1>1, <1>2, <1>3

\* A job at a point of the boot only is a boot.
LEMMA BootRole ==
    ASSUME Base, NEW r \in Replicas, job[Boot(r)].at # "idle"
    PROVE  job[Boot(r)].role = "boot"
BY JobKinds, BaseJobs, RoleAt DEF Formed

LEMMA BootLoadsDoes ==
    ASSUME Base, NEW r \in Replicas, BootLoads(r)
    PROVE  Goes(Boot(r), "loaded", job[Boot(r)].want) /\ Base'
<1> DEFINE j == Boot(r)
<1>1. j \in Jobs /\ job \in [Jobs -> Job] /\ EntryTypes /\ row \in Configs \cup {None}
  BY JobKinds, BaseJobs
<1>2. Goes(j, "loaded", job[j].want)
  BY <1>1, GoTo DEF BootLoads, Points
<1>3. Formed(j)'
  BY <1>1, <1>2, BootRole, FormGoes DEF BootLoads, Base, PointsOf
<1>4. EntryTypes'
  <2>1. registry' = [registry EXCEPT ![r] = row] /\ missed' = [missed EXCEPT ![r] = FALSE]
        /\ UNCHANGED <<shared, owned, overtaken, stray>>
    BY DEF BootLoads, backends
  <2>2. registry' \in [Replicas -> Configs \cup {None}] /\ missed' \in [Replicas -> BOOLEAN]
    BY <1>1, <2>1 DEF EntryTypes
  <2> QED BY <1>1, <2>1, <2>2 DEF EntryTypes
<1> QED BY <1>1, <1>2, <1>3, <1>4, BaseLater DEF BootLoads, Goes, counters, Base, TypeOK

LEMMA BootListensDoes ==
    ASSUME Base, NEW r \in Replicas, BootListens(r)
    PROVE  Goes(Boot(r), "listening", job[Boot(r)].want) /\ Base'
<1> DEFINE j == Boot(r)
<1>1. j \in Jobs /\ job \in [Jobs -> Job]
  BY JobKinds, BaseJobs
<1>2. Goes(j, "listening", job[j].want)
  BY <1>1, GoTo DEF BootListens, Points
<1>3. Formed(j)'
  BY <1>1, <1>2, BootRole, FormGoes DEF BootListens, Base, PointsOf
<1>4. \A i \in Jobs : Formed(i)'
  BY <1>1, <1>2, <1>3, FormOthers DEF Goes, Base
<1>5. TypeOK'
  BY <1>2 DEF BootListens, backends, counters, history, Goes, Base, TypeOK, Job
<1> QED BY <1>2, <1>4, <1>5 DEF Base

LEMMA BootConnectsDoes ==
    ASSUME Base, NEW r \in Replicas, BootConnects(r)
    PROVE  /\ Base'
           /\ \/ registry[r] = None /\ Rests(Boot(r)) /\ shared' = shared
              \/ /\ registry[r] \in Configs /\ Goes(Boot(r), "connecting", registry[r])
                 /\ shared' = [shared EXCEPT ![r] = Connecting(registry[r])]
<1> DEFINE j == Boot(r)
<1>1. j \in Jobs /\ job \in [Jobs -> Job] /\ EntryTypes
  BY JobKinds, BaseJobs
<1>2. CASE registry[r] = None
  <2>1. Rests(j) /\ shared' = shared
    BY <1>1, <1>2, RestTo DEF BootConnects
  <2>2. EntryTypes'
    BY <1>1, <2>1 DEF BootConnects, history, EntryTypes
  <2> QED BY <1>1, <1>2, <2>1, <2>2, FormRests, BaseLater
          DEF BootConnects, Rests, counters, Base, TypeOK
<1>3. CASE registry[r] # None
  <2>1. registry[r] \in Configs
    BY <1>1, <1>3 DEF EntryTypes
  <2>2. job' = [job EXCEPT ![j].at = "connecting", ![j].want = registry[r]]
        /\ shared' = [shared EXCEPT ![r] = Connecting(registry[r])]
    BY <1>3 DEF BootConnects
  <2>3. Goes(j, "connecting", registry[r])
    BY <1>1, <2>1, <2>2, GoWith DEF Points
  <2>4. Formed(j)'
    BY <1>1, <2>1, <2>3, BootRole, FormGoes DEF BootConnects, Base, PointsOf
  <2>5. EntryTypes'
    BY <1>1, <2>1, <2>2, EntriesMade DEF BootConnects, history, EntryTypes
  <2> QED BY <1>1, <2>1, <2>2, <2>3, <2>4, <2>5, BaseLater
          DEF BootConnects, Goes, counters, Base, TypeOK
<1> QED BY <1>2, <1>3

\* A crash takes the requests and the listener with it.
LEMMA CrashDoes ==
    ASSUME Base, NEW r \in Replicas, Crash(r)
    PROVE  /\ Base'
           /\ job'[Boot(r)].at = "down"
           /\ \A j \in Jobs \ {Boot(r)} :
                 job'[j] = IF ReplicaOf(j) = r THEN Idle ELSE job[j]
<1>1. Boot(r) \in Jobs \ Requests /\ job \in [Jobs -> Job] /\ EntryTypes
  BY JobKinds, BaseJobs
<1> DEFINE d == [role |-> "boot", at |-> "down", want |-> None, on |-> r]
<1>2. job' = [j \in Jobs |-> IF j = Boot(r) THEN d
                            ELSE IF ReplicaOf(j) = r THEN Idle ELSE job[j]]
  BY DEF Crash
<1>3. d \in Job /\ d.role = "boot" /\ d.at = "down"
  BY DEF Job, Roles, Points
<1> HIDE DEF d
<1>4. job'[Boot(r)] = d /\ \A j \in Jobs \ {Boot(r)} :
                           job'[j] = IF ReplicaOf(j) = r THEN Idle ELSE job[j]
  BY <1>1, <1>2
<1>5. job' \in [Jobs -> Job]
  BY <1>1, <1>2, <1>3, IdleJob
<1>6. ASSUME NEW j \in Jobs PROVE Formed(j)'
  <2>1. CASE j = Boot(r)
    BY <1>1, <1>3, <1>4, <2>1, JobKinds DEF Formed, PointsOf
  <2>2. CASE job'[j] = Idle
    BY <2>2 DEF Formed, Idle, PointsOf, RequestRoles
  <2>3. CASE job'[j] = job[j]
    BY <2>3 DEF Formed, Base
  <2> QED BY <1>4, <2>1, <2>2, <2>3
<1>7. /\ registry' = [registry EXCEPT ![r] = None]
      /\ shared' = [shared EXCEPT ![r] = NoEntry]
      /\ owned' = [owned EXCEPT ![r] = NoEntry]
      /\ overtaken' = [overtaken EXCEPT ![r] = FALSE]
      /\ stray' = [stray EXCEPT ![r] = FALSE]
      /\ missed' \in [Replicas -> BOOLEAN]
  BY DEF Crash
<1>8. registry' \in [Replicas -> Configs \cup {None}]
      /\ overtaken' \in [Replicas -> BOOLEAN] /\ stray' \in [Replicas -> BOOLEAN]
  BY <1>1, <1>7 DEF EntryTypes
<1>9. shared' \in [Replicas -> Entry \cup {NoEntry}]
      /\ owned' \in [Replicas -> Entry \cup {NoEntry}]
  BY <1>1, <1>7 DEF EntryTypes
<1>10. /\ listening' = [listening EXCEPT ![r] = FALSE]
       /\ pending' = [pending EXCEPT ![r] = 0]
       /\ queued' = [queued EXCEPT ![r] = FALSE]
       /\ row' = row /\ begun' = begun
  BY DEF Crash
<1>11. /\ listening' \in [Replicas -> BOOLEAN] /\ pending' \in [Replicas -> Nat]
       /\ queued' \in [Replicas -> BOOLEAN]
       /\ \A s \in Replicas : ~listening'[s] => pending'[s] = 0
  BY <1>10 DEF Base, TypeOK
<1>12. faults' \in 0..MaxFaults
  BY BoundsAssumption DEF Crash, Base, TypeOK
<1>13. TypeOK'
  BY <1>5, <1>7, <1>8, <1>9, <1>10, <1>11, <1>12 DEF TypeOK, Job, Base
<1> QED BY <1>3, <1>4, <1>6, <1>13 DEF Base

-----------------------------------------------------------------------------
(* What keeps a replica sound.                                             *)

\* A job that was under way goes on or comes to its end.
Proceeds(j) ==
    /\ job' \in [Jobs -> Job] /\ Others(j)
    /\ job[j].at # "idle"
    /\ job'[j] = Idle \/ (job'[j].role = job[j].role /\ job'[j].on = job[j].on)

LEMMA GoesProceeds ==
    ASSUME NEW j \in Jobs, job[j].at # "idle", NEW p, NEW config,
           Goes(j, p, config) \/ Rests(j)
    PROVE  Proceeds(j)
BY DEF Goes, Rests, Proceeds

\* A job that ends leaves no write unsaid.
Said(j) == job[j].role = "writer" => job'[j].role = "writer"

\* A step of another job than s's own leaves s to be told what it was.
LEMMA CalmBefore ==
    ASSUME NEW s \in Replicas, NEW j \in Jobs, Others(j), j # Listener(s), Said(j),
           channel' = channel, missed[s] => missed'[s], overtaken[s] => overtaken'[s],
           job'[Boot(s)].at # "down" => job[Boot(s)].at # "down",
           Calm(s)'
    PROVE  Calm(s)
<1>1. job'[Listener(s)] = job[Listener(s)]
  BY JobKinds DEF Others
<1>2. Untold' = {} => Untold = {}
  BY DEF Untold, Others, Said, Jobs
<1> QED BY <1>1, <1>2 DEF Calm, Told, ListenerAt, channel

\* A step of its listener, between the list and the end, does so too.
LEMMA CalmDuring ==
    ASSUME NEW s \in Replicas, Others(Listener(s)),
           job[Listener(s)].at \notin {"idle", "listing"}, job'[Listener(s)].at # "idle",
           channel' = channel, missed'[s] = missed[s], overtaken'[s] = overtaken[s],
           Calm(s)'
    PROVE  Calm(s)
<1>1. job'[Boot(s)] = job[Boot(s)]
  BY JobKinds DEF Others
<1>2. Untold' = Untold
  BY JobKinds DEF Untold, Others, Jobs
<1> QED BY <1>1, <1>2 DEF Calm, Told, ListenerAt, channel

LEMMA SettlingStays ==
    ASSUME NEW s \in Replicas, Settling(s), Calm(s)' => Calm(s), row' = row,
           registry'[s] = registry[s], job'[Listener(s)] = job[Listener(s)],
           Calm(s) /\ Connected(s) => Connected(s)'
    PROVE  Settling(s)'
<1> SUFFICES ASSUME Calm(s)' PROVE Informed(s)' /\ Registered(s)' /\ Connected(s)'
  BY DEF Settling
<1>1. Informed(s) /\ Registered(s) /\ Connected(s)'
  BY DEF Settling
<1> QED BY <1>1 DEF Informed, Registered, ListenerAt

\* An untold writer, or a write that may never be heard of, excuses all.
LEMMA Excused ==
    ASSUME NEW s \in Replicas, missed'[s] \/ overtaken'[s] \/ Told(s)'
    PROVE  Settling(s)'
BY DEF Settling, Calm

LEMMA WriterExcuses ==
    ASSUME NEW q \in Requests, job'[q].role = "writer", NEW s \in Replicas
    PROVE  Settling(s)'
<1>1. Told(s)'
  BY DEF Told, Untold
<1> QED BY <1>1, Excused

LEMMA AttendedStays ==
    ASSUME NEW s \in Replicas, Attended(s), NEW j \in Jobs, Others(j),
           ReplicaOf(j) # s \/ job[j].at # "connecting" \/ job[j].role = "owner",
           shared'[s] = shared[s]
    PROVE  Attended(s)'
<1> SUFFICES ASSUME shared'[s].state = "connecting"
             PROVE  \E i \in Jobs : /\ ReplicaOf(i)' = s /\ job'[i].at = "connecting"
                                    /\ job'[i].role # "owner"
  BY DEF Attended
<1>1. PICK i \in Jobs : /\ ReplicaOf(i) = s /\ job[i].at = "connecting"
                        /\ job[i].role # "owner"
  BY DEF Attended
<1>2. job'[i] = job[i]
  BY <1>1 DEF Others
<1>3. ReplicaOf(i)' = s
  BY <1>1, <1>2 DEF ReplicaOf
<1> QED BY <1>1, <1>2, <1>3

LEMMA AttendedSettled ==
    ASSUME NEW s \in Replicas, shared'[s].state # "connecting"
    PROVE  Attended(s)'
BY DEF Attended

LEMMA AttendedBy ==
    ASSUME NEW s \in Replicas, NEW j \in Jobs, ReplicaOf(j)' = s,
           job'[j].at = "connecting", job'[j].role # "owner"
    PROVE  Attended(s)'
BY DEF Attended

LEMMA DormantUp ==
    ASSUME NEW s \in Replicas, job'[Boot(s)].at # "down"
    PROVE  Dormant(s)'
BY DEF Dormant

LEMMA DormantStays ==
    ASSUME NEW s \in Replicas, Dormant(s), NEW j \in Jobs, Others(j), j # Boot(s),
           shared'[s] = shared[s], listening' = listening,
           job'[j].at = "idle" \/ ReplicaOf(j)' # s
    PROVE  Dormant(s)'
<1> SUFFICES ASSUME job'[Boot(s)].at = "down"
             PROVE  /\ shared'[s] = NoEntry /\ ~listening'[s]
                    /\ \A i \in Jobs : ReplicaOf(i)' = s /\ job'[i].at # "idle" => i = Boot(s)
  BY DEF Dormant
<1>1. job'[Boot(s)] = job[Boot(s)]
  BY JobKinds DEF Others
<1>2. shared[s] = NoEntry /\ ~listening[s]
      /\ \A i \in Jobs : ReplicaOf(i) = s /\ job[i].at # "idle" => i = Boot(s)
  BY <1>1 DEF Dormant
<1>3. ASSUME NEW i \in Jobs, ReplicaOf(i)' = s, job'[i].at # "idle"
      PROVE  i = Boot(s)
  <2>1. i # j
    BY <1>3
  <2>2. job'[i] = job[i]
    BY <2>1 DEF Others
  <2>3. ReplicaOf(i) = s
    BY <1>3, <2>2 DEF ReplicaOf
  <2> QED BY <1>2, <1>3, <2>2, <2>3
<1> QED BY <1>2, <1>3

\* A job that runs on a replica runs on one that is up.
LEMMA UpWhenBusy ==
    ASSUME IInv, NEW j \in Jobs, job[j].at # "idle", ReplicaOf(j) \in Replicas,
           j # Boot(ReplicaOf(j))
    PROVE  job[Boot(ReplicaOf(j))].at # "down"
BY DEF IInv, Sound, Dormant

\* A job under way is on a replica.
LEMMA OnReplica ==
    ASSUME IInv, NEW j \in Jobs, job[j].at # "idle"
    PROVE  ReplicaOf(j) \in Replicas
<1>1. job[j] \in Job /\ Formed(j)
  BY BaseJobs DEF IInv, Base
<1>2. job[j].role \in Roles
  BY <1>1 DEF Job
<1> QED BY <1>1, <1>2, RoleAt, JobKinds DEF Roles

\* What a step does not touch.
SameFor(s) == /\ UNCHANGED <<row, channel>>
              /\ registry'[s] = registry[s] /\ shared'[s] = shared[s]
              /\ missed'[s] = missed[s] /\ overtaken'[s] = overtaken[s]
              /\ stray'[s] = stray[s]

LEMMA SettlingElsewhere ==
    ASSUME NEW s \in Replicas, Settling(s), NEW j \in Jobs, Others(j),
           j \notin {Listener(s), Boot(s)}, Said(j), SameFor(s)
    PROVE  Settling(s)'
<1>1. job'[Listener(s)] = job[Listener(s)] /\ job'[Boot(s)] = job[Boot(s)]
  BY JobKinds DEF Others
<1>2. Calm(s)' => Calm(s)
  BY <1>1, CalmBefore DEF SameFor
<1>3. Connected(s) => Connected(s)'
  BY <1>1 DEF Connected, ListenerAt, SameFor
<1> QED BY <1>1, <1>2, <1>3, SettlingStays DEF SameFor

\* A job of one replica does not disturb another.
LEMMA SoundElsewhere ==
    ASSUME IInv, NEW s \in Replicas, NEW j \in Jobs, Proceeds(j), ReplicaOf(j) # s,
           Said(j), SameFor(s)
    PROVE  Sound(s)'
<1>1. Settling(s) /\ Attended(s) /\ Dormant(s)
  BY DEF IInv, Sound
<1>2. j \notin {Listener(s), Boot(s)} /\ Others(j)
  BY JobKinds DEF Proceeds
<1>3. job'[j].at = "idle" \/ ReplicaOf(j)' # s
  BY DEF Proceeds, Idle, ReplicaOf
<1>4. Settling(s)'
  BY <1>1, <1>2, SettlingElsewhere
<1>5. Attended(s)'
  BY <1>1, <1>2, AttendedStays DEF SameFor
<1>6. Dormant(s)'
  BY <1>1, <1>2, <1>3, DormantStays DEF SameFor, channel
<1> QED BY <1>4, <1>5, <1>6 DEF Sound

\* Its own replica it leaves up.
LEMMA DormantHere ==
    ASSUME IInv, NEW s \in Replicas, NEW j \in Jobs, Proceeds(j), ReplicaOf(j) = s,
           j # Boot(s)
    PROVE  Dormant(s)'
<1>1. job[Boot(s)].at # "down"
  BY UpWhenBusy DEF Proceeds
<1>2. job'[Boot(s)] = job[Boot(s)]
  BY JobKinds DEF Proceeds, Others
<1> QED BY <1>1, <1>2, DormantUp

\* Which job runs on s, by its role.
LEMMA WhoRuns ==
    ASSUME IInv, NEW s \in Replicas, NEW j \in Jobs, job[j].at # "idle", ReplicaOf(j) = s
    PROVE  /\ job[j].role = "handler" => j = Listener(s)
           /\ job[j].role = "boot" => j = Boot(s)
           /\ job[j].role \in {"writer", "link", "operator", "owner"}
                => j \in Requests /\ j \notin {Listener(s), Boot(s)}
<1>1. job[j] \in Job /\ Formed(j)
  BY BaseJobs DEF IInv, Base
<1> QED BY <1>1, RoleAt, JobKinds

LEMMA IInvParts ==
    ASSUME IInv, NEW s \in Replicas, NEW j \in Jobs
    PROVE  /\ Base /\ Settling(s) /\ Attended(s) /\ Dormant(s)
           /\ job[j] \in Job /\ Formed(j) /\ EntryTypes
BY BaseJobs DEF IInv, Sound, Base

LEMMA ListRowsSound ==
    ASSUME IInv, NEW j \in Jobs, ListRows(j), NEW s \in Replicas
    PROVE  Sound(s)'
<1>1. /\ Base /\ Settling(s) /\ Attended(s) /\ Dormant(s)
      /\ job[j] \in Job /\ Formed(j) /\ EntryTypes
  BY IInvParts
<1>2. Goes(j, "listed", row) /\ job[j].at = "listing"
  BY <1>1, ListRowsDoes DEF ListRows
<1>3. job[j].role \in {"link", "writer", "handler"}
  BY <1>1, <1>2, RoleAt
<1>4. Proceeds(j) /\ Said(j) /\ Others(j)
  BY <1>2, GoesProceeds DEF Said, Goes
<1>5. UNCHANGED <<row, registry, shared, channel, stray>>
  BY DEF ListRows, backends
<1>6. CASE ReplicaOf(j) # s
  <2>1. SameFor(s)
    BY <1>5, <1>6 DEF ListRows, SameFor
  <2> QED BY <1>4, <1>6, <2>1, SoundElsewhere
<1>7. CASE ReplicaOf(j) = s
  <2>1. Attended(s)'
    BY <1>1, <1>2, <1>4, <1>5, AttendedStays
  <2>2. j # Boot(s)
    BY <1>2, <1>3, <1>7, <1>1, BootRole
  <2>3. Dormant(s)'
    BY <1>4, <1>7, <2>2, DormantHere
  <2>4. CASE job[j].role = "writer"
    BY <1>1, <1>2, <2>1, <2>3, <2>4, RoleAt, WriterExcuses DEF Goes, Sound
  <2>5. CASE job[j].role = "link"
    <3>1. j \notin {Listener(s), Boot(s)}
      BY <1>2, <1>7, <2>5, WhoRuns
    <3>2. SameFor(s)
      BY <1>1, <1>5, <1>7, <2>5 DEF ListRows, SameFor, EntryTypes
    <3> QED BY <1>1, <1>4, <2>1, <2>3, <3>1, <3>2, SettlingElsewhere DEF Sound
  <2>6. CASE job[j].role = "handler"
    <3>1. j = Listener(s)
      BY <1>2, <1>7, <2>6, WhoRuns
    <3>2. Informed(s)' /\ Registered(s)' /\ Connected(s)'
      BY <1>2, <1>5, <3>1 DEF Goes, Informed, Registered, Connected, ListenerAt
    <3> QED BY <2>1, <2>3, <3>2 DEF Settling, Sound
  <2> QED BY <1>3, <2>4, <2>5, <2>6
<1> QED BY <1>6, <1>7

LEMMA ReplaceRegistrySound ==
    ASSUME IInv, NEW j \in Jobs, ReplaceRegistry(j), NEW s \in Replicas
    PROVE  Sound(s)'
<1>1. /\ Base /\ Settling(s) /\ Attended(s) /\ Dormant(s)
      /\ job[j] \in Job /\ Formed(j) /\ EntryTypes
  BY IInvParts
<1>2. job[j].at = "listed"
  BY DEF ReplaceRegistry
<1>3. job[j].role \in {"link", "writer", "handler"}
  BY <1>1, <1>2, RoleAt
<1>4. \/ job[j].role = "link" /\ Rests(j)
      \/ /\ job[j].role # "link"
         /\ \/ Goes(j, "extending", job[j].want) \/ Goes(j, "pruning", job[j].want)
            \/ /\ Goes(j, "settled", job[j].want) /\ job[j].want = None
               /\ ~Known(ReplicaOf(j))
  BY <1>1, ReplaceRegistryDoes
<1>5. Proceeds(j) /\ Said(j) /\ Others(j)
  BY <1>2, <1>4, GoesProceeds DEF Said, Goes, Rests
<1>6. UNCHANGED <<row, shared, channel, stray, missed>>
  BY DEF ReplaceRegistry, backends
<1>7. CASE ReplicaOf(j) # s
  <2>1. SameFor(s)
    BY <1>6, <1>7 DEF ReplaceRegistry, SameFor
  <2> QED BY <1>5, <1>7, <2>1, SoundElsewhere
<1>8. CASE ReplicaOf(j) = s
  <2>1. Attended(s)'
    BY <1>1, <1>2, <1>5, <1>6, AttendedStays
  <2>2. j # Boot(s)
    BY <1>2, <1>3, <1>8, <1>1, BootRole
  <2>3. Dormant(s)'
    BY <1>5, <1>8, <2>2, DormantHere
  <2>4. registry'[s] = job[j].want
    BY <1>1, <1>8 DEF ReplaceRegistry, EntryTypes
  <2>5. overtaken'[s] = (overtaken[s] \/ (job[j].role = "link" /\ job[j].want # row))
    BY <1>1, <1>8 DEF ReplaceRegistry, EntryTypes
  <2>6. CASE job[j].role = "writer"
    BY <1>1, <1>4, <2>1, <2>3, <2>6, RoleAt, WriterExcuses DEF Goes, Sound
  <2>7. CASE job[j].role = "link" /\ job[j].want # row
    BY <2>1, <2>3, <2>5, <2>7, Excused DEF Sound
  <2>8. CASE job[j].role = "link" /\ job[j].want = row
    <3>1. j \notin {Listener(s), Boot(s)}
      BY <1>2, <1>8, <2>8, WhoRuns
    <3>2. job'[Listener(s)] = job[Listener(s)] /\ job'[Boot(s)] = job[Boot(s)]
      BY <1>5, <3>1, JobKinds DEF Others
    <3>3. SUFFICES ASSUME Calm(s)' PROVE Informed(s)' /\ Registered(s)' /\ Connected(s)'
      BY <2>1, <2>3 DEF Settling, Sound
    <3>4. Calm(s)
      BY <1>5, <1>6, <2>5, <3>1, <3>2, <3>3, CalmBefore
    <3>5. Informed(s) /\ Registered(s) /\ Connected(s)
      BY <1>1, <3>4 DEF Settling
    <3> QED BY <1>6, <2>4, <2>8, <3>2, <3>5 DEF Informed, Registered, Connected, ListenerAt
  <2>9. CASE job[j].role = "handler"
    <3>1. j = Listener(s)
      BY <1>2, <1>8, <2>9, WhoRuns
    <3>3. SUFFICES ASSUME Calm(s)' PROVE Informed(s)' /\ Registered(s)' /\ Connected(s)'
      BY <2>1, <2>3 DEF Settling, Sound
    <3>4. job'[j].at \in {"extending", "pruning", "settled"}
          /\ job'[j].want = job[j].want
      BY <1>4, <2>9 DEF Goes
    <3>2. overtaken'[s] = overtaken[s]
      BY <1>1, <2>5, <2>9 DEF EntryTypes
    <3>5. Calm(s)
      BY <1>2, <1>5, <1>6, <3>1, <3>2, <3>3, <3>4, CalmDuring
    <3>6. job[j].want = row
      BY <1>1, <1>2, <3>1, <3>5 DEF Settling, Informed, ListenerAt
    <3>7. Informed(s)' /\ Registered(s)'
      BY <1>6, <2>4, <3>1, <3>4, <3>6 DEF Informed, Registered
    <3>8. CASE job'[j].at \in {"extending", "pruning"}
      BY <3>1, <3>7, <3>8 DEF Connected, ListenerAt
    <3>9. CASE job'[j].at = "settled"
      <4>1. shared[s] = NoEntry /\ job[j].want = None
        BY <1>4, <1>8, <2>9, <3>9 DEF Goes, Known
      <4> QED BY <1>6, <2>4, <3>7, <4>1 DEF Connected, NoEntry
    <3> QED BY <3>4, <3>8, <3>9
  <2> QED BY <1>3, <2>6, <2>7, <2>8, <2>9
<1> QED BY <1>7, <1>8

\* A refresh with the list brought home goes on: the writer is still to tell,
\* and of the listener it is enough that it works towards the table.
LEMMA RefreshSound ==
    ASSUME IInv, NEW s \in Replicas, NEW j \in Jobs, ReplicaOf(j) = s,
           job[j].role \in {"writer", "handler"},
           job[j].at \in {"pruning", "extending", "reconnecting", "closing", "connecting"},
           NEW p \in Points \ {"idle", "listing", "listed"}, NEW config, Goes(j, p, config),
           UNCHANGED <<row, registry, channel, missed, overtaken>>,
           Attended(s)',
           j = Listener(s) /\ registry[s] = row /\ Informed(s) /\ Connected(s)
             => /\ p \notin {"settled", "reconnecting"} => config = row
                /\ Connected(s)'
    PROVE  Sound(s)'
<1>1. /\ Base /\ Settling(s) /\ Attended(s) /\ Dormant(s)
      /\ job[j] \in Job /\ Formed(j) /\ EntryTypes
  BY IInvParts
<1>2. Proceeds(j)
  BY GoesProceeds
<1>3. j # Boot(s)
  BY <1>1, BootRole
<1>4. Dormant(s)'
  BY <1>2, <1>3, DormantHere
<1>5. CASE job[j].role = "writer"
  BY <1>1, <1>4, <1>5, RoleAt, WriterExcuses DEF Goes, Sound
<1>6. CASE job[j].role = "handler"
  <2>1. j = Listener(s)
    BY <1>6, WhoRuns
  <2>2. SUFFICES ASSUME Calm(s)' PROVE Informed(s)' /\ Registered(s)' /\ Connected(s)'
    BY <1>4 DEF Settling, Sound
  <2>3. Calm(s)
    BY <1>2, <2>1, <2>2, CalmDuring DEF Proceeds, Goes
  <2>4. Informed(s) /\ Registered(s) /\ Connected(s)
    BY <1>1, <2>3 DEF Settling
  <2>5. registry[s] = row
    BY <2>1, <2>4 DEF Registered, ListenerAt
  <2>6. (p \notin {"settled", "reconnecting"} => config = row) /\ Connected(s)'
    BY <2>1, <2>4, <2>5
  <2>7. Informed(s)'
    BY <2>1, <2>6 DEF Informed, ListenerAt, Goes
  <2> QED BY <2>5, <2>6, <2>7 DEF Registered
<1> QED BY <1>5, <1>6

LEMMA GoesStays ==
    ASSUME NEW j \in Jobs, NEW p, NEW config, Goes(j, p, config)
    PROVE  ReplicaOf(j)' = ReplicaOf(j)
BY DEF Goes, ReplicaOf

LEMMA PruneSound ==
    ASSUME IInv, NEW j \in Jobs, Prune(j), NEW s \in Replicas
    PROVE  Sound(s)'
<1>1. /\ Base /\ Settling(s) /\ Attended(s) /\ Dormant(s)
      /\ job[j] \in Job /\ Formed(j) /\ EntryTypes
  BY IInvParts
<1>2. Goes(j, "settled", job[j].want) /\ job[j].at = "pruning"
  BY <1>1, PruneDoes DEF Prune
<1>3. job[j].role \in {"writer", "handler"}
  BY <1>1, <1>2, RoleAt
<1>4. UNCHANGED <<row, registry, channel, missed, overtaken, stray>>
  BY DEF Prune, history
<1>5. CASE ReplicaOf(j) # s
  <2>1. SameFor(s)
    <3>1. shared'[s] = shared[s]
      BY <1>1, <1>5 DEF Prune, EntryTypes
    <3> QED BY <1>4, <3>1 DEF SameFor
  <2>2. Proceeds(j) /\ Said(j)
    BY <1>2, GoesProceeds DEF Said, Goes
  <2> QED BY <1>5, <2>1, <2>2, SoundElsewhere
<1>6. CASE ReplicaOf(j) = s
  <2>1. shared'[s] = NoEntry
    BY <1>1, <1>6 DEF Prune, EntryTypes
  <2>2. Attended(s)'
    BY <2>1, AttendedSettled DEF NoEntry
  <2>3. ASSUME j = Listener(s), registry[s] = row, Informed(s) PROVE Connected(s)'
    <3>1. row = None
      BY <1>1, <1>2, <2>3 DEF Formed, Informed, ListenerAt
    <3> QED BY <1>4, <2>1, <2>3, <3>1 DEF Connected, NoEntry
  <2> QED BY <1>2, <1>3, <1>4, <1>6, <2>2, <2>3, RefreshSound DEF Points
<1> QED BY <1>5, <1>6

LEMMA ExtendSound ==
    ASSUME IInv, NEW j \in Jobs, Extend(j), NEW s \in Replicas
    PROVE  Sound(s)'
<1>1. /\ Base /\ Settling(s) /\ Attended(s) /\ Dormant(s)
      /\ job[j] \in Job /\ Formed(j) /\ EntryTypes
  BY IInvParts
<1>2. job[j].at = "extending" /\ job[j].want \in Configs
  BY <1>1 DEF Extend, Formed
<1>3. job[j].role \in {"writer", "handler"}
  BY <1>1, <1>2, RoleAt
<1>4. UNCHANGED <<row, registry, channel, missed, overtaken, stray>>
  BY DEF Extend, history
<1>5. CASE ReplicaOf(j) # s
  <2>1. SameFor(s)
    <3>1. shared'[s] = shared[s]
      BY <1>1, <1>5 DEF Extend, EntryTypes
    <3> QED BY <1>4, <3>1 DEF SameFor
  <2>2. PICK p \in {"connecting", "reconnecting", "settled"} : Goes(j, p, job[j].want)
    BY <1>1, ExtendDoes
  <2>3. Proceeds(j) /\ Said(j)
    BY <1>2, <2>2, GoesProceeds DEF Said, Goes
  <2> QED BY <1>5, <2>1, <2>3, SoundElsewhere
<1>6. CASE ReplicaOf(j) = s
  <2>1. job \in [Jobs -> Job]
    BY <1>1, BaseJobs
  <2>2. ASSUME shared[s] = NoEntry, shared' = [shared EXCEPT ![s] = Connecting(job[j].want)],
               job' = [job EXCEPT ![j].at = "connecting"]
        PROVE  Sound(s)'
    <3>1. Goes(j, "connecting", job[j].want)
      BY <2>1, <2>2, GoTo DEF Points
    <3>2. shared'[s] = Connecting(job[j].want)
      BY <1>1, <2>2 DEF EntryTypes
    <3>3. Attended(s)'
      BY <1>3, <1>6, <3>1, GoesStays, AttendedBy DEF Goes
    <3>4. ASSUME j = Listener(s), registry[s] = row, Informed(s)
          PROVE  job[j].want = row /\ Connected(s)'
      <4>1. job[j].want = row
        BY <1>2, <3>4 DEF Informed, ListenerAt
      <4> QED BY <1>4, <3>2, <3>4, <4>1 DEF Connected, Connecting
    <3> QED BY <1>2, <1>3, <1>4, <1>6, <3>1, <3>3, <3>4, RefreshSound DEF Points
  <2>3. ASSUME shared' = shared, job' = [job EXCEPT ![j].at = "reconnecting"]
        PROVE  Sound(s)'
    <3>1. Goes(j, "reconnecting", job[j].want)
      BY <2>1, <2>3, GoTo DEF Points
    <3>2. Attended(s)'
      BY <1>1, <1>2, <2>3, <3>1, AttendedStays DEF Goes
    <3>3. j = Listener(s) => Connected(s)'
      BY <3>1 DEF Goes, Connected, ListenerAt
    <3> QED BY <1>2, <1>3, <1>4, <1>6, <3>1, <3>2, <3>3, RefreshSound DEF Points
  <2>4. ASSUME shared' = shared, shared[s].config = job[j].want,
               job' = [job EXCEPT ![j].at = "settled"]
        PROVE  Sound(s)'
    <3>1. Goes(j, "settled", job[j].want)
      BY <2>1, <2>4, GoTo DEF Points
    <3>2. Attended(s)'
      BY <1>1, <1>2, <2>4, <3>1, AttendedStays DEF Goes
    <3>3. ASSUME j = Listener(s), registry[s] = row, Informed(s)
          PROVE  Connected(s)'
      <4>1. job[j].want = row
        BY <1>2, <3>3 DEF Informed, ListenerAt
      <4> QED BY <1>4, <2>4, <3>3, <4>1 DEF Connected
    <3> QED BY <1>2, <1>3, <1>4, <1>6, <3>1, <3>2, <3>3, RefreshSound DEF Points
  <2> QED BY <1>6, <2>2, <2>3, <2>4 DEF Extend
<1> QED BY <1>5, <1>6

LEMMA ReconnectSound ==
    ASSUME IInv, NEW j \in Jobs, Reconnect(j), NEW s \in Replicas
    PROVE  Sound(s)'
<1>1. /\ Base /\ Settling(s) /\ Attended(s) /\ Dormant(s)
      /\ job[j] \in Job /\ Formed(j) /\ EntryTypes
  BY IInvParts
<1>2. job[j].at = "reconnecting" /\ UNCHANGED <<row, registry, channel, overtaken, stray>>
  BY DEF Reconnect
<1> DEFINE r == ReplicaOf(j)
<1>3. /\ r \in Replicas /\ job[j].role \in {"writer", "handler"}
      /\ \/ registry[r] = None /\ Rests(j) /\ Forgotten(j)
         \/ /\ registry[r] # None /\ missed' = missed /\ shared' = shared
            /\ Goes(j, "closing", registry[r])
         \/ /\ registry[r] # None /\ missed' = missed
            /\ shared' = [shared EXCEPT ![r] = Connecting(registry[r])]
            /\ Goes(j, "connecting", registry[r])
  BY <1>1, ReconnectDoes
<1>4. Proceeds(j) /\ Others(j)
  BY <1>2, <1>3, GoesProceeds DEF Goes, Rests
<1> HIDE DEF r
<1>5. CASE registry[r] = None
  <2>1. Rests(j) /\ Forgotten(j) /\ shared' = shared
    BY <1>3, <1>5 DEF Reconnect, r
  <2>2. Attended(s)'
    BY <1>1, <1>2, <1>4, <2>1, AttendedStays
  <2>3. CASE job[j].role = "writer"
    <3>1. missed'[s]
      BY <1>1, <2>1, <2>3, RoleAt DEF Forgotten, Untold
    <3>2. j # Boot(s)
      BY <1>1, <2>3, BootRole, <1>2
    <3>3. Dormant(s)'
      <4>1. CASE r = s
        BY <1>4, <3>2, <4>1, DormantHere DEF r
      <4>2. CASE r # s
        BY <1>1, <1>2, <1>4, <2>1, <3>2, DormantStays DEF Rests, Idle, channel
      <4> QED BY <4>1, <4>2
    <3> QED BY <2>2, <3>1, <3>3, Excused DEF Sound
  <2>4. CASE job[j].role = "handler"
    <3>1. j = Listener(r)
      BY <1>2, <1>3, <2>4, WhoRuns DEF r
    <3>2. CASE r = s
      <4>1. missed'[s]
        BY <2>1, <3>1, <3>2 DEF Forgotten
      <4>2. Dormant(s)'
        BY <1>4, <3>1, <3>2, JobKinds, DormantHere DEF r
      <4> QED BY <2>2, <4>1, <4>2, Excused DEF Sound
    <3>3. CASE r # s
      <4>1. missed'[s] = missed[s]
        <5>1. j \notin Untold /\ j # Listener(s)
          BY <2>4, <3>1, <3>3, JobKinds, <1>3 DEF Untold
        <5> QED BY <1>1, <2>1, <5>1 DEF Forgotten, EntryTypes
      <4>2. SameFor(s)
        BY <1>2, <2>1, <4>1 DEF SameFor
      <4> QED BY <1>4, <2>4, <3>3, <4>2, SoundElsewhere DEF Said, r
    <3> QED BY <3>2, <3>3
  <2> QED BY <1>3, <2>3, <2>4
<1>6. CASE registry[r] # None
  <2>1. PICK p \in {"closing", "connecting"} :
          /\ Goes(j, p, registry[r]) /\ missed' = missed
          /\ \/ p = "closing" /\ shared' = shared
             \/ p = "connecting" /\ shared' = [shared EXCEPT ![r] = Connecting(registry[r])]
    BY <1>3, <1>6
  <2>2. CASE r # s
    <3>1. SameFor(s)
      BY <1>1, <1>2, <2>1, <2>2 DEF SameFor, EntryTypes
    <3> QED BY <1>4, <2>1, <2>2, <3>1, SoundElsewhere DEF Said, Goes, r
  <2>3. CASE r = s
    <3>1. CASE p = "closing"
      <4>1. Attended(s)'
        BY <1>1, <1>2, <1>4, <2>1, <3>1, AttendedStays
      <4>2. j = Listener(s) => Connected(s)'
        BY <2>1, <3>1 DEF Goes, Connected, ListenerAt
      <4> QED BY <1>2, <1>3, <2>1, <2>3, <3>1, <4>1, <4>2, RefreshSound DEF Points, r
    <3>2. CASE p = "connecting"
      <4>1. Attended(s)'
        BY <1>3, <2>1, <2>3, <3>2, GoesStays, AttendedBy DEF Goes, r
      <4>2. Connected(s)'
        BY <1>1, <1>2, <2>1, <2>3, <3>2 DEF Connected, Connecting, EntryTypes
      <4> QED BY <1>2, <1>3, <2>1, <2>3, <3>2, <4>1, <4>2, RefreshSound DEF Points, r
    <3> QED BY <3>1, <3>2
  <2> QED BY <2>2, <2>3
<1> QED BY <1>5, <1>6

LEMMA SetEntryDoes ==
    ASSUME Base, NEW j \in Jobs, ReplicaOf(j) \in Replicas, NEW entry \in Entry,
           SetEntry(j, entry)
    PROVE  LET r == ReplicaOf(j)
           IN  /\ job[j].role = "owner" => shared' = shared
               /\ job[j].role # "owner" => shared'[r] = entry
               /\ job[j].role \in {"operator", "boot"}
                    => stray'[r] \/ shared'[r].config = registry[r]
               /\ job[j].role \notin {"operator", "boot"} => stray' = stray
               /\ \A s \in Replicas \ {r} : shared'[s] = shared[s] /\ stray'[s] = stray[s]
<1> DEFINE r == ReplicaOf(j)
<1>1. EntryTypes
  BY BaseJobs
<1>2. /\ job[j].role = "owner" => shared' = shared
      /\ job[j].role # "owner" => shared' = [shared EXCEPT ![r] = entry]
  BY DEF SetEntry
<1> DEFINE new == stray[r] \/ (job[j].role \in {"operator", "boot"}
                               /\ entry.config # registry[r])
<1>3. stray' = [stray EXCEPT ![r] = new]
  BY DEF SetEntry
<1>4. stray'[r] = new /\ \A s \in Replicas \ {r} : stray'[s] = stray[s]
  BY <1>1, <1>3 DEF EntryTypes
<1>5. job[j].role \notin {"operator", "boot"} => stray' = stray
  <2>1. ASSUME job[j].role \notin {"operator", "boot"} PROVE new = stray[r]
    BY <1>1, <2>1 DEF EntryTypes
  <2> HIDE DEF new
  <2> QED BY <1>1, <1>3, <2>1 DEF EntryTypes
<1>6. job[j].role # "owner" => shared'[r] = entry
  BY <1>1, <1>2 DEF EntryTypes
<1>7. \A s \in Replicas \ {r} : shared'[s] = shared[s]
  BY <1>1, <1>2 DEF EntryTypes
<1> QED BY <1>2, <1>4, <1>5, <1>6, <1>7

\* setConnection, by whoever it may be.
LEMMA SettingSound ==
    ASSUME IInv, NEW j \in Jobs, job[j].at \in {"closing", "connecting"},
           NEW entry \in Entry, entry.config = job[j].want, SetEntry(j, entry),
           UNCHANGED <<row, registry, channel, missed, overtaken>>,
           \/ \E p \in {"connecting", "settled"} : Goes(j, p, job[j].want)
           \/ Rests(j) /\ job[j].role \notin {"writer", "handler"},
           entry.state = "connecting" => job'[j].at = "connecting",
           NEW s \in Replicas
    PROVE  Sound(s)'
<1>1. /\ Base /\ Settling(s) /\ Attended(s) /\ Dormant(s)
      /\ job[j] \in Job /\ Formed(j) /\ EntryTypes
  BY IInvParts
<1>2. job[j].role \in {"operator", "owner", "boot", "writer", "handler"}
  BY <1>1, RoleAt
<1>3. Proceeds(j) /\ Said(j) /\ Others(j)
  BY GoesProceeds DEF Said, Goes, Rests
<1> DEFINE r == ReplicaOf(j)
<1>4. r \in Replicas
  BY OnReplica
<1>5. /\ job[j].role = "owner" => shared' = shared
      /\ job[j].role # "owner" => shared'[r] = entry
      /\ job[j].role \in {"operator", "boot"} => stray'[r] \/ shared'[r].config = registry[r]
      /\ job[j].role \notin {"operator", "boot"} => stray' = stray
      /\ \A t \in Replicas \ {r} : shared'[t] = shared[t] /\ stray'[t] = stray[t]
  BY <1>1, <1>4, SetEntryDoes
<1>6. CASE r # s
  <2>1. SameFor(s)
    BY <1>5, <1>6 DEF SameFor
  <2> QED BY <1>3, <1>6, <2>1, SoundElsewhere
<1>7. CASE r = s
  <2>1. Attended(s)'
    <3>1. CASE job[j].role = "owner"
      BY <1>1, <1>3, <1>5, <3>1, AttendedStays
    <3>2. CASE job[j].role # "owner" /\ entry.state # "connecting"
      BY <1>5, <1>7, <3>2, AttendedSettled
    <3>3. CASE job[j].role # "owner" /\ entry.state = "connecting"
      <4>1. PICK p \in {"connecting", "settled"} : Goes(j, p, job[j].want)
        BY <3>3 DEF Rests, Idle
      <4> QED BY <1>7, <3>3, <4>1, GoesStays, AttendedBy DEF Goes
    <3> QED BY <3>1, <3>2, <3>3
  <2>2. CASE job[j].role \in {"writer", "handler"}
    <3>1. PICK p \in {"connecting", "settled"} : Goes(j, p, job[j].want)
      BY <2>2
    <3>2. ASSUME j = Listener(s), registry[s] = row, Informed(s)
          PROVE  job[j].want = row /\ Connected(s)'
      <4>1. job[j].want = row
        BY <3>2 DEF Informed, ListenerAt
      <4>2. shared'[s].config = registry'[s]
        BY <1>5, <1>7, <2>2, <3>2, <4>1
      <4> QED BY <4>1, <4>2 DEF Connected
    <3>3. p \in Points \ {"idle", "listing", "listed"}
      BY DEF Points
    <3> QED BY <1>7, <2>1, <2>2, <3>1, <3>2, <3>3, RefreshSound
  <2>3. CASE job[j].role = "owner"
    <3>1. j \notin {Listener(s), Boot(s)}
      BY <1>7, <2>3, WhoRuns
    <3>2. SameFor(s)
      BY <1>5, <2>3 DEF SameFor
    <3>3. Settling(s)'
      BY <1>1, <1>3, <3>1, <3>2, SettlingElsewhere
    <3> QED BY <1>3, <1>7, <2>1, <3>1, <3>3, DormantHere DEF Sound
  <2>4. CASE job[j].role \in {"operator", "boot"}
    <3>1. j # Listener(s)
      BY <1>1, <2>4, JobKinds DEF Formed
    <3>2. job'[Listener(s)] = job[Listener(s)]
      BY <1>3, <3>1, JobKinds DEF Others
    <3>3. job[Boot(s)].at # "down"
      BY <1>3, <1>7, UpWhenBusy DEF Proceeds
    <3>4. Connected(s)'
      BY <1>5, <1>7, <2>4 DEF Connected
    <3>5. Calm(s)' => Calm(s)
      BY <1>3, <3>1, <3>3, CalmBefore
    <3>6. Settling(s)'
      BY <1>1, <3>2, <3>4, <3>5, SettlingStays
    <3>7. job'[Boot(s)].at # "down"
      <4>1. CASE j = Boot(s)
        BY <4>1 DEF Goes, Rests, Idle
      <4>2. CASE j # Boot(s)
        BY <1>3, <3>3, <4>2, JobKinds DEF Others
      <4> QED BY <4>1, <4>2
    <3> QED BY <2>1, <3>6, <3>7, DormantUp DEF Sound
  <2> QED BY <1>2, <2>2, <2>3, <2>4
<1> QED BY <1>6, <1>7

LEMMA ClosedSound ==
    ASSUME IInv, NEW j \in Jobs, Closed(j), NEW s \in Replicas
    PROVE  Sound(s)'
<1>1. Base /\ job[j] \in Job /\ Formed(j)
  BY IInvParts
<1>2. job[j].want \in Configs
  BY <1>1 DEF Closed, Formed
<1>3. Goes(j, "connecting", job[j].want)
  BY <1>1, ClosedDoes
<1>4. Connecting(job[j].want) \in Entry /\ Connecting(job[j].want).config = job[j].want
  BY <1>2, EntriesMade DEF Connecting
<1>5. job'[j].at = "connecting"
  BY <1>3 DEF Goes
<1> QED BY <1>3, <1>4, <1>5, SettingSound DEF Closed

LEMMA ConnectServerSound ==
    ASSUME IInv, NEW j \in Jobs, ConnectServer(j), NEW s \in Replicas
    PROVE  Sound(s)'
<1>1. Base /\ job[j] \in Job /\ Formed(j)
  BY IInvParts
<1>2. job[j].want \in Configs
  BY <1>1 DEF ConnectServer, Formed
<1>3. PICK state \in {"connected", "failed"} :
        SetEntry(j, [config |-> job[j].want, state |-> state])
  BY DEF ConnectServer
<1> DEFINE entry == [config |-> job[j].want, state |-> state]
<1>4. entry \in Entry /\ entry.config = job[j].want /\ entry.state # "connecting"
  BY <1>2 DEF Entry
<1>5. \/ Goes(j, "settled", job[j].want)
      \/ Rests(j) /\ job[j].role \notin {"writer", "handler"}
  BY <1>1, ConnectServerDoes
<1> HIDE DEF entry
<1>6. SetEntry(j, entry)
  BY <1>3 DEF entry
<1> QED BY <1>4, <1>5, <1>6, SettingSound DEF ConnectServer

LEMMA FailsSound ==
    ASSUME IInv, NEW j \in Jobs, Fails(j), NEW s \in Replicas
    PROVE  Sound(s)'
<1>1. /\ Base /\ Settling(s) /\ Attended(s) /\ Dormant(s)
      /\ job[j] \in Job /\ Formed(j) /\ EntryTypes
  BY IInvParts
<1>2. job[j].at \in {"listing", "pruning", "extending", "closing", "settled"} /\ Forgotten(j)
      /\ UNCHANGED <<row, registry, shared, channel, overtaken, stray>>
  BY DEF Fails, backends
<1>3. job[j].role \in {"link", "operator", "owner", "writer", "handler"}
  BY <1>1, <1>2, RoleAt
<1>4. Rests(j) /\ Proceeds(j) /\ Others(j)
  BY <1>1, <1>2, FailsDoes, GoesProceeds DEF Rests
<1>5. Attended(s)'
  BY <1>1, <1>2, <1>4, AttendedStays
<1>6. j # Boot(s)
  BY <1>1, <1>2, <1>3, BootRole
<1>7. Dormant(s)'
  BY <1>1, <1>2, <1>4, <1>6, DormantStays DEF Rests, Idle, channel
<1>8. CASE j \in Untold \/ j = Listener(s)
  <2>1. missed'[s]
    BY <1>2, <1>8 DEF Forgotten
  <2> QED BY <1>5, <1>7, <2>1, Excused DEF Sound
<1>9. CASE j \notin Untold /\ j # Listener(s)
  <2>1. Said(j)
    BY <1>1, <1>9, RoleAt DEF Said, Untold
  <2>2. SameFor(s)
    BY <1>1, <1>2, <1>9 DEF Forgotten, SameFor, EntryTypes
  <2> QED BY <1>1, <1>4, <1>5, <1>6, <1>7, <1>9, <2>1, <2>2, SettlingElsewhere DEF Sound
<1> QED BY <1>8, <1>9

\* A request that begins, on a replica that serves.
LEMMA StartsSound ==
    ASSUME IInv, NEW q \in Requests, NEW r \in Replicas, NEW role, NEW p, NEW config,
           Starts(q, role, p, config, r), job[q] = Idle, Serving(r), listening' = listening,
           \A t \in Replicas : shared'[t] = shared[t] \/ (t = r /\ p = "connecting" /\ role # "owner"),
           NEW s \in Replicas
    PROVE  /\ Attended(s)' /\ Dormant(s)' /\ Others(q) /\ Said(q)
           /\ q \in Jobs /\ q \notin {Listener(s), Boot(s)}
<1>1. q \in Jobs /\ Attended(s) /\ Dormant(s)
  BY DEF Jobs, IInv, Sound
<1>2. q \notin {Listener(s), Boot(s)} /\ Others(q) /\ Said(q)
  BY JobKinds DEF Starts, Said, Idle
<1>3. job'[Boot(s)] = job[Boot(s)]
  BY <1>2, JobKinds DEF Others
<1>4. ReplicaOf(q)' = r
  BY DEF ReplicaOf, Starts
<1>5. CASE shared'[s] = shared[s]
  <2>1. Attended(s)'
    BY <1>1, <1>2, <1>5, AttendedStays DEF Idle
  <2>2. CASE s = r
    BY <1>1, <1>2, <1>3, <2>1, <2>2, DormantUp DEF Serving
  <2>3. CASE s # r
    BY <1>1, <1>2, <1>4, <1>5, <2>1, <2>3, DormantStays
  <2> QED BY <2>2, <2>3
<1>6. CASE s = r /\ p = "connecting" /\ role # "owner"
  <2>1. Attended(s)'
    BY <1>1, <1>4, <1>6, AttendedBy DEF Starts
  <2> QED BY <1>1, <1>2, <1>3, <1>6, <2>1, DormantUp DEF Serving
<1> QED BY <1>5, <1>6

LEMMA WriteSound ==
    ASSUME IInv, NEW q \in Requests, NEW r \in Replicas,
           (\E config \in Configs : Create(q, r, config)) \/ Update(q, r) \/ Delete(q, r),
           NEW s \in Replicas
    PROVE  Sound(s)'
<1>1. Base
  BY DEF IInv, Base
<1>2. Starts(q, "writer", "listing", None, r) /\ job[q] = Idle
  BY <1>1, WriteDoes
<1>3. Serving(r) /\ UNCHANGED <<shared, listening>>
  BY DEF Create, Update, Delete, Begin, backends, channel
<1>4. Attended(s)' /\ Dormant(s)'
  BY <1>2, <1>3, StartsSound
<1>5. Settling(s)'
  BY <1>2, WriterExcuses DEF Starts
<1> QED BY <1>4, <1>5 DEF Sound

LEMMA LinkSound ==
    ASSUME IInv, NEW q \in Requests, NEW r \in Replicas, LinkUnknownProvider(q, r),
           NEW s \in Replicas
    PROVE  Sound(s)'
<1>1. Base /\ Settling(s)
  BY DEF IInv, Base, Sound
<1>2. Starts(q, "link", "listing", None, r) /\ job[q] = Idle
  BY <1>1, LinkDoes
<1>3. Serving(r) /\ UNCHANGED <<row, registry, shared, channel, missed, overtaken, stray>>
      /\ listening' = listening
  BY DEF LinkUnknownProvider, Begin, backends, channel, history
<1>4. /\ Attended(s)' /\ Dormant(s)' /\ Others(q) /\ Said(q)
      /\ q \in Jobs /\ q \notin {Listener(s), Boot(s)}
  BY <1>2, <1>3, StartsSound
<1>5. SameFor(s)
  BY <1>3 DEF SameFor
<1>6. Settling(s)'
  BY <1>1, <1>4, <1>5, SettlingElsewhere
<1> QED BY <1>4, <1>6 DEF Sound

LEMMA ReconnectSharedSound ==
    ASSUME IInv, NEW q \in Requests, NEW r \in Replicas, ReconnectShared(q, r),
           NEW s \in Replicas
    PROVE  Sound(s)'
<1>1. Base /\ Settling(s) /\ EntryTypes
  BY BaseJobs DEF IInv, Base, Sound
<1>2. PICK p \in {"closing", "connecting"} :
        /\ Starts(q, "operator", p, registry[r], r)
        /\ \/ p = "closing" /\ shared' = shared
           \/ p = "connecting" /\ shared' = [shared EXCEPT ![r] = Connecting(registry[r])]
  BY <1>1, ReconnectSharedDoes
<1>3. job[q] = Idle /\ Serving(r)
      /\ UNCHANGED <<row, registry, channel, missed, overtaken, stray>> /\ listening' = listening
  BY DEF ReconnectShared, Begin, channel, history
<1>4. \A t \in Replicas : shared'[t] = shared[t] \/ (t = r /\ p = "connecting")
  BY <1>1, <1>2 DEF EntryTypes
<1>5. /\ Attended(s)' /\ Dormant(s)' /\ Others(q) /\ Said(q)
      /\ q \in Jobs /\ q \notin {Listener(s), Boot(s)}
  BY <1>2, <1>3, <1>4, StartsSound
<1>6. CASE shared'[s] = shared[s]
  <2>1. SameFor(s)
    BY <1>3, <1>6 DEF SameFor
  <2>2. Settling(s)'
    BY <1>1, <1>5, <2>1, SettlingElsewhere
  <2> QED BY <1>5, <2>2 DEF Sound
<1>7. CASE s = r /\ p = "connecting"
  <2>1. shared'[s] = Connecting(registry[s])
    BY <1>1, <1>2, <1>7 DEF EntryTypes
  <2>2. Connected(s)'
    BY <1>3, <2>1 DEF Connected, Connecting
  <2>3. job'[Listener(s)] = job[Listener(s)] /\ job'[Boot(s)] = job[Boot(s)]
    BY <1>5, JobKinds DEF Others
  <2>4. Calm(s)' => Calm(s)
    BY <1>3, <1>5, <2>3, CalmBefore
  <2>5. Settling(s)'
    BY <1>1, <1>3, <2>2, <2>3, <2>4, SettlingStays
  <2> QED BY <1>5, <2>5 DEF Sound
<1> QED BY <1>4, <1>6, <1>7

LEMMA ReconnectOwnedSound ==
    ASSUME IInv, NEW q \in Requests, NEW r \in Replicas, ReconnectOwned(q, r),
           NEW s \in Replicas
    PROVE  Sound(s)'
<1>1. Base /\ Settling(s) /\ Attended(s) /\ EntryTypes
  BY BaseJobs DEF IInv, Base, Sound
<1>2. PICK p \in {"closing", "connecting"} : Starts(q, "owner", p, registry[r], r)
  BY <1>1, ReconnectOwnedDoes
<1>3. job[q] = Idle /\ Serving(r)
      /\ UNCHANGED <<row, registry, channel, missed, overtaken, stray>> /\ listening' = listening
  BY DEF ReconnectOwned, Begin, channel, history
<1>4. q \in Jobs /\ q \notin {Listener(s), Boot(s)} /\ Others(q) /\ Said(q)
  BY <1>2, <1>3, JobKinds DEF Starts, Said, Idle, Jobs
<1>5. \/ shared'[s] = shared[s]
      \/ s = r /\ shared'[s] = [config |-> registry[s], state |-> "failed"]
  BY <1>1 DEF ReconnectOwned, EntryTypes
<1>6. job'[Listener(s)] = job[Listener(s)] /\ job'[Boot(s)] = job[Boot(s)]
  BY <1>4, JobKinds DEF Others
<1>7. Attended(s)'
  <2>1. CASE shared'[s] = shared[s]
    BY <1>1, <1>3, <1>4, <2>1, AttendedStays DEF Idle
  <2>2. CASE shared'[s] = [config |-> registry[s], state |-> "failed"]
    BY <2>2, AttendedSettled
  <2> QED BY <1>5, <2>1, <2>2
<1>8. Dormant(s)'
  <2>1. CASE s = r
    BY <1>3, <1>6, <2>1, DormantUp DEF Serving
  <2>2. CASE s # r
    <3>1. ReplicaOf(q)' # s
      BY <1>2, <2>2 DEF ReplicaOf, Starts
    <3>2. Dormant(s)
      BY DEF IInv, Sound
    <3> QED BY <1>3, <1>4, <1>5, <2>2, <3>1, <3>2, DormantStays
  <2> QED BY <2>1, <2>2
<1>9. Settling(s)'
  <2>1. Calm(s)' => Calm(s)
    BY <1>3, <1>4, <1>6, CalmBefore
  <2>2. Connected(s) => Connected(s)'
    <3>1. CASE shared'[s] = shared[s]
      BY <1>3, <1>6, <3>1 DEF Connected, ListenerAt
    <3>2. CASE shared'[s] = [config |-> registry[s], state |-> "failed"]
      BY <1>3, <3>2 DEF Connected
    <3> QED BY <1>5, <3>1, <3>2
  <2> QED BY <1>1, <1>3, <1>6, <2>1, <2>2, SettlingStays
<1> QED BY <1>7, <1>8, <1>9 DEF Sound

LEMMA NotifySound ==
    ASSUME IInv, NEW q \in Requests, Notify(q), NEW s \in Replicas
    PROVE  Sound(s)'
<1>1. Base /\ Attended(s) /\ Dormant(s) /\ q \in Jobs
  BY DEF IInv, Base, Sound, Jobs
<1>2. Rests(q) /\ Others(q) /\ job[q].at = "settled"
  BY <1>1, NotifyDoes DEF Notify, Rests
<1>3. q # Boot(s) /\ shared' = shared /\ listening' = listening
  BY JobKinds DEF Notify, backends
<1>4. Attended(s)'
  BY <1>1, <1>2, <1>3, AttendedStays
<1>5. Dormant(s)'
  BY <1>1, <1>2, <1>3, DormantStays DEF Rests, Idle
<1>6. CASE listening[s]
  <2>1. pending'[s] = pending[s] + 1 /\ pending[s] \in Nat
    BY <1>1, <1>6 DEF Notify, Base, TypeOK
  <2>2. Told(s)'
    BY <2>1 DEF Told
  <2> QED BY <1>4, <1>5, <2>2, Excused DEF Sound
<1>7. CASE ~listening[s]
  <2>1. missed'[s]
    BY <1>7 DEF Notify
  <2> QED BY <1>4, <1>5, <2>1, Excused DEF Sound
<1> QED BY <1>6, <1>7

LEMMA DispatchSound ==
    ASSUME IInv, NEW r \in Replicas, Dispatch(r), NEW s \in Replicas
    PROVE  Sound(s)'
<1>1. Base /\ Settling(s) /\ Attended(s) /\ Dormant(s) /\ Listener(r) \in Jobs
  BY JobKinds DEF IInv, Base, Sound
<1>2. /\ Others(Listener(r))
      /\ \/ /\ ListenerAt(r, {"idle"}) /\ queued' = [queued EXCEPT ![r] = FALSE]
            /\ Starts(Listener(r), "handler", "listing", None, r)
         \/ /\ ~ListenerAt(r, {"idle"}) /\ queued' = [queued EXCEPT ![r] = TRUE]
            /\ job' = job
  BY <1>1, DispatchDoes
<1>3. UNCHANGED <<row, registry, shared, listening, missed, overtaken, stray>>
      /\ pending[r] > 0 /\ pending' = [pending EXCEPT ![r] = @ - 1]
  BY DEF Dispatch, backends, history
<1>4. pending \in [Replicas -> Nat] /\ queued \in [Replicas -> BOOLEAN]
      /\ (~listening[r] => pending[r] = 0)
  BY <1>1 DEF Base, TypeOK
<1>5. job'[Boot(s)] = job[Boot(s)]
  BY <1>2, JobKinds DEF Others
<1>6. CASE s = r
  <2>1. Told(s)'
    <3>1. CASE ListenerAt(r, {"idle"})
      BY <1>2, <1>6, <3>1 DEF Starts, Told, ListenerAt
    <3>2. CASE ~ListenerAt(r, {"idle"})
      BY <1>2, <1>4, <1>6, <3>2 DEF Told, ListenerAt
    <3> QED BY <3>1, <3>2
  <2>2. Attended(s)'
    <3>1. CASE ListenerAt(r, {"idle"})
      BY <1>1, <1>2, <1>3, <3>1, AttendedStays DEF ListenerAt
    <3>2. CASE job' = job
      BY <1>1, <1>3, <3>2 DEF Attended, ReplicaOf
    <3> QED BY <1>2, <3>1, <3>2
  <2>3. job'[Boot(s)].at # "down"
    BY <1>1, <1>3, <1>4, <1>5, <1>6 DEF Dormant
  <2> QED BY <2>1, <2>2, <2>3, Excused, DormantUp DEF Sound
<1>7. CASE s # r
  <2>1. Listener(r) # Listener(s) /\ Listener(r) # Boot(s)
        /\ ReplicaOf(Listener(r)) # s /\ ReplicaOf(Listener(r))' # s
    BY <1>7, JobKinds, KindsLater
  <2>2. job'[Listener(s)] = job[Listener(s)]
    BY <1>2, <2>1, JobKinds DEF Others
  <2>3. Untold' = Untold
    BY <1>2, JobKinds DEF Untold, Others, Jobs
  <2>4. pending'[s] = pending[s] /\ queued'[s] = queued[s]
    BY <1>2, <1>3, <1>4, <1>7
  <2>5. Calm(s)' => Calm(s)
    BY <1>3, <1>5, <2>2, <2>3, <2>4 DEF Calm, Told, ListenerAt
  <2>6. Connected(s) => Connected(s)'
    BY <1>3, <1>5, <2>2 DEF Connected, ListenerAt
  <2>7. Settling(s)'
    BY <1>1, <1>3, <2>2, <2>5, <2>6, SettlingStays
  <2>8. Attended(s)'
    BY <1>1, <1>2, <1>3, <2>1, AttendedStays
  <2>9. Dormant(s)'
    BY <1>1, <1>2, <1>3, <2>1, DormantStays
  <2> QED BY <2>7, <2>8, <2>9 DEF Sound
<1> QED BY <1>6, <1>7

LEMMA HandlerDoneSound ==
    ASSUME IInv, NEW r \in Replicas, HandlerDone(r), NEW s \in Replicas
    PROVE  Sound(s)'
<1> DEFINE j == Listener(r)
<1>1. Base /\ Settling(s) /\ Attended(s) /\ Dormant(s) /\ j \in Jobs /\ ReplicaOf(j) = r
  BY JobKinds DEF IInv, Base, Sound
<1>2. IF queued[r] THEN Goes(j, "listing", None) ELSE Rests(j)
  BY <1>1, HandlerDoneDoes
<1>3. job[j].at = "settled" /\ queued' = [queued EXCEPT ![r] = FALSE]
      /\ UNCHANGED <<row, registry, shared, listening, pending, missed, overtaken, stray>>
  BY DEF HandlerDone, backends, history
<1>4. Proceeds(j) /\ Others(j)
  BY <1>1, <1>2, <1>3, GoesProceeds DEF Goes, Rests
<1>5. queued \in [Replicas -> BOOLEAN]
  BY <1>1 DEF Base, TypeOK
<1>6. Attended(s)'
  BY <1>1, <1>3, <1>4, AttendedStays
<1>7. job'[Boot(s)] = job[Boot(s)] /\ Untold' = Untold /\ j # Boot(s)
  <2>1. j \in Jobs \ Requests /\ j # Boot(s) /\ Boot(s) \in Jobs
    BY JobKinds
  <2>2. job'[Boot(s)] = job[Boot(s)]
    BY <1>4, <2>1 DEF Others
  <2>3. Untold' = Untold
    BY <1>4, <2>1 DEF Others, Untold, Jobs
  <2> QED BY <2>1, <2>2, <2>3
<1>8. CASE s = r
  <2>1. Dormant(s)'
    BY <1>1, <1>4, <1>7, <1>8, DormantHere
  <2>2. CASE queued[r]
    <3>1. Told(s)'
      BY <1>2, <1>8, <2>2 DEF Goes, Told, ListenerAt
    <3> QED BY <1>6, <2>1, <3>1, Excused DEF Sound
  <2>3. CASE ~queued[r]
    <3>1. job'[j].at = "idle"
      BY <1>2, <2>3 DEF Rests, Idle
    <3>2. Calm(s)' => Calm(s)
      BY <1>3, <1>7, <1>8, <2>3 DEF Calm, Told, ListenerAt
    <3>3. Registered(s) => Registered(s)'
      BY <1>3, <1>8 DEF Registered, ListenerAt
    <3>4. Connected(s) => Connected(s)'
      BY <1>3, <1>7, <1>8 DEF Connected, ListenerAt
    <3>5. Informed(s)'
      BY <1>8, <3>1 DEF Informed, ListenerAt
    <3>6. Settling(s)'
      BY <1>1, <3>2, <3>3, <3>4, <3>5 DEF Settling
    <3> QED BY <1>6, <2>1, <3>6 DEF Sound
  <2> QED BY <2>2, <2>3
<1>9. CASE s # r
  <2>1. j # Listener(s) /\ ReplicaOf(j)' # s
    BY <1>9, JobKinds, KindsLater
  <2>2. job'[Listener(s)] = job[Listener(s)]
    BY <1>4, <2>1, JobKinds DEF Others
  <2>3. queued'[s] = queued[s]
    BY <1>3, <1>5, <1>9
  <2>4. Calm(s)' => Calm(s)
    BY <1>3, <1>7, <2>2, <2>3 DEF Calm, Told, ListenerAt
  <2>5. Connected(s) => Connected(s)'
    BY <1>3, <1>7, <2>2 DEF Connected, ListenerAt
  <2>6. Settling(s)'
    BY <1>1, <1>3, <2>2, <2>4, <2>5, SettlingStays
  <2>7. Dormant(s)'
    BY <1>1, <1>3, <1>4, <1>7, <2>1, DormantStays
  <2> QED BY <1>6, <2>6, <2>7 DEF Sound
<1> QED BY <1>8, <1>9

LEMMA ChannelSound ==
    ASSUME IInv, NEW r \in Replicas, ListenerDrops(r) \/ Relisten(r) \/ EvictOwner(r),
           NEW s \in Replicas
    PROVE  Sound(s)'
<1>1. Base /\ Settling(s) /\ Attended(s) /\ Dormant(s)
  BY DEF IInv, Base, Sound
<1>2. job' = job /\ UNCHANGED <<row, registry, shared, queued, overtaken, stray>>
  BY DEF ListenerDrops, Relisten, EvictOwner, backends, history, channel
<1>3. Attended(s)'
  BY <1>1, <1>2 DEF Attended, ReplicaOf
<1>4. pending \in [Replicas -> Nat] /\ listening \in [Replicas -> BOOLEAN]
      /\ missed \in [Replicas -> BOOLEAN]
  BY <1>1 DEF Base, TypeOK
<1>5. Dormant(s)'
  <2>1. CASE listening'[s] = listening[s]
    BY <1>1, <1>2, <2>1 DEF Dormant, ReplicaOf
  <2>2. CASE ~listening'[s]
    BY <1>1, <1>2, <2>2 DEF Dormant, ReplicaOf
  <2>3. CASE Relisten(r) /\ s = r
    BY <1>2, <2>3, DormantUp DEF Relisten
  <2> QED BY <1>4, <2>1, <2>2, <2>3 DEF ListenerDrops, Relisten, EvictOwner, channel
<1>6. \/ missed'[s] = missed[s] /\ (pending[s] > 0 => pending'[s] > 0)
      \/ missed'[s]
  BY <1>4 DEF ListenerDrops, Relisten, EvictOwner, channel, history
<1>7. Settling(s)'
  <2>1. CASE missed'[s]
    BY <2>1, Excused
  <2>2. CASE missed'[s] = missed[s] /\ (pending[s] > 0 => pending'[s] > 0)
    <3>1. Calm(s)' => Calm(s)
      BY <1>2, <2>2 DEF Calm, Told, Untold, ListenerAt
    <3>2. Connected(s) => Connected(s)'
      BY <1>2 DEF Connected, ListenerAt
    <3> QED BY <1>1, <1>2, <3>1, <3>2, SettlingStays
  <2> QED BY <1>6, <2>1, <2>2
<1> QED BY <1>3, <1>5, <1>7 DEF Sound

LEMMA CrashSound ==
    ASSUME IInv, NEW r \in Replicas, Crash(r), NEW s \in Replicas
    PROVE  Sound(s)'
<1>1. Base /\ Settling(s) /\ Attended(s) /\ Dormant(s) /\ EntryTypes
  BY BaseJobs DEF IInv, Base, Sound
<1>2. /\ job'[Boot(r)].at = "down"
      /\ \A j \in Jobs \ {Boot(r)} : job'[j] = IF ReplicaOf(j) = r THEN Idle ELSE job[j]
  BY <1>1, CrashDoes
<1>3. /\ listening' = [listening EXCEPT ![r] = FALSE]
      /\ pending' = [pending EXCEPT ![r] = 0]
      /\ queued' = [queued EXCEPT ![r] = FALSE]
      /\ registry' = [registry EXCEPT ![r] = None]
      /\ shared' = [shared EXCEPT ![r] = NoEntry]
      /\ overtaken' = [overtaken EXCEPT ![r] = FALSE]
      /\ stray' = [stray EXCEPT ![r] = FALSE]
      /\ missed' = [t \in Replicas |->
                      t # r /\ (missed[t] \/ \E q \in Untold : job[q].on = r)]
      /\ row' = row
  BY DEF Crash
<1>4. /\ listening \in [Replicas -> BOOLEAN] /\ pending \in [Replicas -> Nat]
      /\ queued \in [Replicas -> BOOLEAN]
  BY <1>1 DEF Base, TypeOK
<1>5. CASE s = r
  <2>1. Settling(s)'
    BY <1>2, <1>5 DEF Settling, Calm
  <2>2. shared'[s] = NoEntry /\ ~listening'[s]
    BY <1>1, <1>3, <1>4, <1>5 DEF EntryTypes
  <2>3. Attended(s)'
    BY <2>2, AttendedSettled DEF NoEntry
  <2>4. ASSUME NEW i \in Jobs, ReplicaOf(i)' = s, job'[i].at # "idle" PROVE i = Boot(s)
    <3> SUFFICES ASSUME i # Boot(r) PROVE FALSE
      BY <1>5
    <3>1. job'[i] = job[i]
      BY <1>2, <2>4 DEF Idle
    <3>2. ReplicaOf(i) = r
      BY <1>5, <2>4, <3>1 DEF ReplicaOf
    <3> QED BY <1>2, <2>4, <3>2 DEF Idle
  <2> QED BY <2>1, <2>2, <2>3, <2>4 DEF Sound, Dormant
<1>6. CASE s # r
  <2>1. /\ listening'[s] = listening[s] /\ pending'[s] = pending[s] /\ queued'[s] = queued[s]
    BY <1>3, <1>4, <1>6
  <2>2. /\ registry'[s] = registry[s] /\ shared'[s] = shared[s]
        /\ overtaken'[s] = overtaken[s] /\ stray'[s] = stray[s]
    BY <1>1, <1>3, <1>6 DEF EntryTypes
  <2>3. /\ Listener(s) \in Jobs \ {Boot(r)} /\ ReplicaOf(Listener(s)) = s
        /\ Boot(s) \in Jobs \ {Boot(r)} /\ ReplicaOf(Boot(s)) = s
        /\ \A q \in Requests : q \in Jobs \ {Boot(r)}
    BY <1>6, JobKinds DEF Jobs
  <2>4. job'[Listener(s)] = job[Listener(s)] /\ job'[Boot(s)] = job[Boot(s)]
    BY <1>2, <1>6, <2>3
  <2>5. Attended(s)'
    <3> SUFFICES ASSUME shared[s].state = "connecting"
                 PROVE  \E i \in Jobs : /\ ReplicaOf(i)' = s /\ job'[i].at = "connecting"
                                        /\ job'[i].role # "owner"
      BY <2>2 DEF Attended
    <3>1. PICK i \in Jobs : ReplicaOf(i) = s /\ job[i].at = "connecting" /\ job[i].role # "owner"
      BY <1>1 DEF Attended
    <3>2. i # Boot(r)
      BY <1>6, <3>1, JobKinds
    <3>3. job'[i] = job[i]
      BY <1>2, <1>6, <3>1, <3>2
    <3>4. ReplicaOf(i)' = s
      BY <3>1, <3>3 DEF ReplicaOf
    <3> QED BY <3>1, <3>3, <3>4
  <2>6. Dormant(s)'
    <3> SUFFICES ASSUME job[Boot(s)].at = "down"
                 PROVE  \A i \in Jobs : ReplicaOf(i)' = s /\ job'[i].at # "idle" => i = Boot(s)
      BY <1>1, <2>1, <2>2, <2>4 DEF Dormant
    <3>1. ASSUME NEW i \in Jobs, ReplicaOf(i)' = s, job'[i].at # "idle" PROVE i = Boot(s)
      <4>1. i # Boot(r)
        BY <1>6, <3>1, KindsLater
      <4>2. job'[i] = job[i]
        BY <1>2, <3>1, <4>1 DEF Idle
      <4>3. ReplicaOf(i) = s
        BY <3>1, <4>2 DEF ReplicaOf
      <4> QED BY <1>1, <3>1, <4>2, <4>3 DEF Dormant
    <3> QED BY <3>1
  <2>7. Settling(s)'
    <3>1. CASE missed'[s]
      BY <3>1, Excused
    <3>2. CASE ~missed'[s]
      <4>1. ~missed[s] /\ \A q \in Untold : job[q].on # r
        BY <1>3, <1>6, <3>2
      <4>2. Untold' = {} => Untold = {}
        <5>1. \A q \in Untold : job'[q] = job[q]
          BY <1>2, <2>3, <4>1 DEF Untold, ReplicaOf
        <5> QED BY <5>1 DEF Untold
      <4>3. Calm(s)' => Calm(s)
        BY <2>1, <2>2, <2>4, <4>1, <4>2 DEF Calm, Told, ListenerAt
      <4>4. Connected(s) => Connected(s)'
        BY <2>2, <2>4 DEF Connected, ListenerAt
      <4> QED BY <1>1, <1>3, <2>2, <2>4, <4>3, <4>4, SettlingStays
    <3> QED BY <3>1, <3>2
  <2> QED BY <2>5, <2>6, <2>7 DEF Sound
<1> QED BY <1>5, <1>6

\* What a step of a boot does to its own replica's jobs and to the others.
LEMMA BootHere ==
    ASSUME IInv, NEW r \in Replicas, job[Boot(r)].at # "idle", Proceeds(Boot(r)),
           NEW s \in Replicas
    PROVE  /\ Said(Boot(r)) /\ Boot(r) \in Jobs /\ ReplicaOf(Boot(r)) = r
           /\ Boot(r) # Listener(s) /\ job'[Listener(s)] = job[Listener(s)]
           /\ Others(Boot(r))
<1>1. Base
  BY DEF IInv, Base
<1>2. job[Boot(r)].role = "boot"
  BY <1>1, BootRole
<1> QED BY <1>2, JobKinds DEF Said, Proceeds, Others

LEMMA BootLoadsSound ==
    ASSUME IInv, NEW r \in Replicas, BootLoads(r), NEW s \in Replicas
    PROVE  Sound(s)'
<1>1. Base /\ Settling(s) /\ Attended(s) /\ Dormant(s) /\ EntryTypes
  BY BaseJobs DEF IInv, Base, Sound
<1>2. Goes(Boot(r), "loaded", job[Boot(r)].want) /\ job[Boot(r)].at = "down"
  BY <1>1, BootLoadsDoes DEF BootLoads
<1>3. Proceeds(Boot(r))
  BY <1>2, JobKinds, GoesProceeds
<1>4. /\ Said(Boot(r)) /\ Boot(r) \in Jobs /\ ReplicaOf(Boot(r)) = r
      /\ Boot(r) # Listener(s) /\ job'[Listener(s)] = job[Listener(s)]
      /\ Others(Boot(r))
  BY <1>2, <1>3, BootHere
<1>5. /\ registry' = [registry EXCEPT ![r] = row]
      /\ missed' = [missed EXCEPT ![r] = FALSE]
      /\ UNCHANGED <<row, shared, channel, overtaken, stray>>
  BY DEF BootLoads, backends
<1>6. CASE r # s
  <2>1. SameFor(s)
    BY <1>1, <1>5, <1>6 DEF SameFor, EntryTypes
  <2> QED BY <1>3, <1>4, <1>6, <2>1, SoundElsewhere
<1>7. CASE r = s
  <2>1. shared'[s] = NoEntry /\ registry'[s] = row
    BY <1>1, <1>2, <1>5, <1>7 DEF Dormant, EntryTypes
  <2>2. job'[Boot(s)].at = "loaded"
    BY <1>2, <1>7 DEF Goes
  <2>3. ListenerAt(s, {"idle"})
    BY <1>1, <1>2, <1>7, JobKinds DEF Dormant, ListenerAt
  <2>4. Informed(s)' /\ Registered(s)' /\ Connected(s)'
    BY <1>4, <1>5, <2>1, <2>2, <2>3 DEF Informed, Registered, Connected, ListenerAt
  <2>5. Attended(s)'
    BY <2>1, AttendedSettled DEF NoEntry
  <2>6. Dormant(s)'
    BY <2>2, DormantUp
  <2> QED BY <2>4, <2>5, <2>6 DEF Settling, Sound
<1> QED BY <1>6, <1>7

LEMMA BootListensSound ==
    ASSUME IInv, NEW r \in Replicas, BootListens(r), NEW s \in Replicas
    PROVE  Sound(s)'
<1>1. Base /\ Settling(s) /\ Attended(s) /\ Dormant(s) /\ EntryTypes
  BY BaseJobs DEF IInv, Base, Sound
<1>2. Goes(Boot(r), "listening", job[Boot(r)].want) /\ job[Boot(r)].at = "loaded"
  BY <1>1, BootListensDoes DEF BootListens
<1>3. Proceeds(Boot(r))
  BY <1>2, JobKinds, GoesProceeds
<1>4. /\ Said(Boot(r)) /\ Boot(r) \in Jobs /\ ReplicaOf(Boot(r)) = r
      /\ Boot(r) # Listener(s) /\ job'[Listener(s)] = job[Listener(s)]
      /\ Others(Boot(r))
  BY <1>2, <1>3, BootHere
<1>5. /\ listening' = [listening EXCEPT ![r] = TRUE]
      /\ UNCHANGED <<row, registry, shared, pending, queued, missed, overtaken, stray>>
  BY DEF BootListens, backends, history
<1>6. listening \in [Replicas -> BOOLEAN] /\ Untold' = Untold
  <2>1. Boot(r) \in Jobs \ Requests
    BY JobKinds
  <2> QED BY <1>1, <1>4, <2>1 DEF Base, TypeOK, Untold, Others, Jobs
<1>7. job'[Boot(s)].at # "down" => job[Boot(s)].at # "down"
  <2>1. CASE r = s
    BY <1>2, <2>1
  <2>2. CASE r # s
    BY <1>4, <2>2, JobKinds DEF Others
  <2> QED BY <2>1, <2>2
<1>8. Attended(s)'
  BY <1>1, <1>2, <1>4, <1>5, AttendedStays
<1>9. Dormant(s)'
  <2>1. CASE r = s
    BY <1>2, <2>1, DormantUp DEF Goes
  <2>2. CASE r # s
    <3>1. listening'[s] = listening[s] /\ job'[Boot(s)] = job[Boot(s)]
      BY <1>4, <1>5, <1>6, <2>2, JobKinds DEF Others
    <3>2. ASSUME job[Boot(s)].at = "down", NEW i \in Jobs, ReplicaOf(i)' = s,
                 job'[i].at # "idle"
          PROVE  i = Boot(s)
      <4>1. i # Boot(r)
        BY <2>2, <3>2, KindsLater
      <4>2. job'[i] = job[i]
        BY <1>4, <4>1 DEF Others
      <4>3. ReplicaOf(i) = s
        BY <3>2, <4>2 DEF ReplicaOf
      <4> QED BY <1>1, <3>2, <4>2, <4>3 DEF Dormant
    <3> QED BY <1>1, <1>5, <3>1, <3>2 DEF Dormant
  <2> QED BY <2>1, <2>2
<1>10. Settling(s)'
  <2>1. Calm(s)' => Calm(s)
    BY <1>4, <1>5, <1>6, <1>7 DEF Calm, Told, ListenerAt
  <2>2. Connected(s) => Connected(s)'
    <3>1. job[Boot(s)].at \in {"loaded", "listening"}
            => job'[Boot(s)].at \in {"loaded", "listening"}
      <4>1. CASE r = s
        BY <1>2, <4>1 DEF Goes
      <4>2. CASE r # s
        BY <1>4, <4>2, JobKinds DEF Others
      <4> QED BY <4>1, <4>2
    <3> QED BY <1>4, <1>5, <3>1 DEF Connected, ListenerAt
  <2> QED BY <1>1, <1>4, <1>5, <2>1, <2>2, SettlingStays
<1> QED BY <1>8, <1>9, <1>10 DEF Sound

LEMMA BootConnectsSound ==
    ASSUME IInv, NEW r \in Replicas, BootConnects(r), NEW s \in Replicas
    PROVE  Sound(s)'
<1>1. Base /\ Settling(s) /\ Attended(s) /\ Dormant(s) /\ EntryTypes
  BY BaseJobs DEF IInv, Base, Sound
<1>2. \/ registry[r] = None /\ Rests(Boot(r)) /\ shared' = shared
      \/ /\ registry[r] \in Configs /\ Goes(Boot(r), "connecting", registry[r])
         /\ shared' = [shared EXCEPT ![r] = Connecting(registry[r])]
  BY <1>1, BootConnectsDoes
<1>3. job[Boot(r)].at = "listening"
      /\ UNCHANGED <<row, registry, channel, missed, overtaken, stray>>
  BY DEF BootConnects, history
<1>4. Proceeds(Boot(r))
  BY <1>2, <1>3, JobKinds, GoesProceeds
<1>5. /\ Said(Boot(r)) /\ Boot(r) \in Jobs /\ ReplicaOf(Boot(r)) = r
      /\ Boot(r) # Listener(s) /\ job'[Listener(s)] = job[Listener(s)]
      /\ Others(Boot(r))
  BY <1>3, <1>4, BootHere
<1>6. CASE r # s
  <2>1. SameFor(s)
    BY <1>1, <1>2, <1>3, <1>6 DEF SameFor, EntryTypes
  <2> QED BY <1>4, <1>5, <1>6, <2>1, SoundElsewhere
<1>7. CASE r = s
  <2>1. job'[Boot(s)].at # "down"
    BY <1>2, <1>7 DEF Goes, Rests, Idle
  <2>2. Calm(s)' => Calm(s)
    BY <1>3, <1>5, <1>7, CalmBefore
  <2>3. CASE registry[r] = None /\ Rests(Boot(r)) /\ shared' = shared
    <3>1. Connected(s) => Connected(s)'
      BY <1>3, <1>5, <1>7, <2>3 DEF Connected, ListenerAt, NoEntry
    <3>2. Attended(s)'
      BY <1>1, <1>3, <1>5, <2>3, AttendedStays
    <3>3. Settling(s)'
      BY <1>1, <1>3, <1>5, <2>2, <3>1, SettlingStays
    <3> QED BY <2>1, <3>2, <3>3, DormantUp DEF Sound
  <2>4. CASE /\ Goes(Boot(r), "connecting", registry[r])
             /\ shared' = [shared EXCEPT ![r] = Connecting(registry[r])]
    <3>1. shared'[s] = Connecting(registry[s])
      BY <1>1, <1>7, <2>4 DEF EntryTypes
    <3>2. Connected(s)'
      BY <1>3, <3>1 DEF Connected, Connecting
    <3>3. job[Boot(r)].role = "boot"
      BY <1>1, <1>3, BootRole
    <3>4. Attended(s)'
      BY <1>5, <1>7, <2>4, <3>3, GoesStays, AttendedBy DEF Goes
    <3>5. Settling(s)'
      BY <1>1, <1>3, <1>5, <2>2, <3>2, SettlingStays
    <3> QED BY <2>1, <3>4, <3>5, DormantUp DEF Sound
  <2> QED BY <1>2, <2>3, <2>4
<1> QED BY <1>6, <1>7

-----------------------------------------------------------------------------
(* The invariant.                                                          *)

LEMMA InitIInv == Init => IInv
<1> SUFFICES ASSUME Init PROVE IInv
  OBVIOUS
<1>1. \A j \in Jobs : job[j] = Idle
  BY DEF Init
<1>2. job \in [Jobs -> Job] /\ \A j \in Jobs : job[j].at = "idle" /\ job[j].role = "none"
  BY <1>1, IdleJob DEF Init, Idle
<1>3. shared \in [Replicas -> Entry \cup {NoEntry}]
      /\ owned \in [Replicas -> Entry \cup {NoEntry}]
  BY DEF Init, Entry
<1>4. TypeOK
  BY <1>2, <1>3, BoundsAssumption DEF Init, TypeOK, Job
<1>5. \A j \in Jobs : Formed(j)
  BY <1>1 DEF Formed, Idle, PointsOf, RequestRoles
<1>6. ASSUME NEW r \in Replicas PROVE Sound(r)
  <2>1. Listener(r) \in Jobs /\ Boot(r) \in Jobs
    BY JobKinds
  <2>2. registry[r] = row
        /\ shared[r] = IF row = None THEN NoEntry ELSE [config |-> row, state |-> "connected"]
    BY DEF Init
  <2>3. shared[r].config = row /\ shared[r].state # "connecting"
    BY <2>2 DEF NoEntry
  <2>4. Settling(r)
    BY <1>2, <2>1, <2>2, <2>3 DEF Settling, Informed, Registered, Connected, ListenerAt
  <2>5. Attended(r) /\ Dormant(r)
    BY <1>2, <2>1, <2>3 DEF Attended, Dormant
  <2> QED BY <2>4, <2>5 DEF Sound
<1> QED BY <1>4, <1>5, <1>6 DEF IInv

LEMMA NextIInv == IInv /\ [Next]_vars => IInv'
<1> SUFFICES ASSUME IInv, [Next]_vars PROVE IInv'
  OBVIOUS
<1>1. Base
  BY DEF IInv, Base
<1> SUFFICES Base' /\ \A s \in Replicas : Sound(s)'
  BY DEF IInv, Base
<1>2. ASSUME NEW q \in Requests, NEW r \in Replicas,
             (\E config \in Configs : Create(q, r, config)) \/ Update(q, r) \/ Delete(q, r)
      PROVE  Base' /\ \A s \in Replicas : Sound(s)'
  BY <1>1, <1>2, WriteDoes, WriteSound
<1>3. ASSUME NEW q \in Requests, NEW r \in Replicas, LinkUnknownProvider(q, r)
      PROVE  Base' /\ \A s \in Replicas : Sound(s)'
  BY <1>1, <1>3, LinkDoes, LinkSound
<1>4. ASSUME NEW q \in Requests, NEW r \in Replicas, ReconnectShared(q, r)
      PROVE  Base' /\ \A s \in Replicas : Sound(s)'
  BY <1>1, <1>4, ReconnectSharedDoes, ReconnectSharedSound
<1>5. ASSUME NEW q \in Requests, NEW r \in Replicas, ReconnectOwned(q, r)
      PROVE  Base' /\ \A s \in Replicas : Sound(s)'
  BY <1>1, <1>5, ReconnectOwnedDoes, ReconnectOwnedSound
<1>6. ASSUME NEW q \in Requests, Notify(q)
      PROVE  Base' /\ \A s \in Replicas : Sound(s)'
  BY <1>1, <1>6, NotifyDoes, NotifySound
<1>7. ASSUME NEW j \in Jobs, ListRows(j)
      PROVE  Base' /\ \A s \in Replicas : Sound(s)'
  BY <1>1, <1>7, ListRowsDoes, ListRowsSound
<1>8. ASSUME NEW j \in Jobs, ReplaceRegistry(j)
      PROVE  Base' /\ \A s \in Replicas : Sound(s)'
  BY <1>1, <1>8, ReplaceRegistryDoes, ReplaceRegistrySound
<1>9. ASSUME NEW j \in Jobs, Prune(j)
      PROVE  Base' /\ \A s \in Replicas : Sound(s)'
  BY <1>1, <1>9, PruneDoes, PruneSound
<1>10. ASSUME NEW j \in Jobs, Extend(j)
       PROVE  Base' /\ \A s \in Replicas : Sound(s)'
  BY <1>1, <1>10, ExtendDoes, ExtendSound
<1>11. ASSUME NEW j \in Jobs, Reconnect(j)
       PROVE  Base' /\ \A s \in Replicas : Sound(s)'
  BY <1>1, <1>11, ReconnectDoes, ReconnectSound
<1>12. ASSUME NEW j \in Jobs, Closed(j)
       PROVE  Base' /\ \A s \in Replicas : Sound(s)'
  BY <1>1, <1>12, ClosedDoes, ClosedSound
<1>13. ASSUME NEW j \in Jobs, ConnectServer(j)
       PROVE  Base' /\ \A s \in Replicas : Sound(s)'
  BY <1>1, <1>13, ConnectServerDoes, ConnectServerSound
<1>14. ASSUME NEW j \in Jobs, Fails(j)
       PROVE  Base' /\ \A s \in Replicas : Sound(s)'
  BY <1>1, <1>14, FailsDoes, FailsSound
<1>15. ASSUME NEW r \in Replicas, Dispatch(r)
       PROVE  Base' /\ \A s \in Replicas : Sound(s)'
  BY <1>1, <1>15, DispatchDoes, DispatchSound
<1>16. ASSUME NEW r \in Replicas, HandlerDone(r)
       PROVE  Base' /\ \A s \in Replicas : Sound(s)'
  BY <1>1, <1>16, HandlerDoneDoes, HandlerDoneSound
<1>17. ASSUME NEW r \in Replicas, ListenerDrops(r) \/ Relisten(r) \/ EvictOwner(r)
       PROVE  Base' /\ \A s \in Replicas : Sound(s)'
  BY <1>1, <1>17, ChannelDoes, ChannelSound
<1>18. ASSUME NEW r \in Replicas, Crash(r)
       PROVE  Base' /\ \A s \in Replicas : Sound(s)'
  BY <1>1, <1>18, CrashDoes, CrashSound
<1>19. ASSUME NEW r \in Replicas, BootLoads(r)
       PROVE  Base' /\ \A s \in Replicas : Sound(s)'
  BY <1>1, <1>19, BootLoadsDoes, BootLoadsSound
<1>20. ASSUME NEW r \in Replicas, BootListens(r)
       PROVE  Base' /\ \A s \in Replicas : Sound(s)'
  BY <1>1, <1>20, BootListensDoes, BootListensSound
<1>21. ASSUME NEW r \in Replicas, BootConnects(r)
       PROVE  Base' /\ \A s \in Replicas : Sound(s)'
  BY <1>1, <1>21, BootConnectsDoes, BootConnectsSound
<1>22. ASSUME UNCHANGED vars
       PROVE  Base' /\ \A s \in Replicas : Sound(s)'
  <2>1. job' = job /\ UNCHANGED <<row, registry, shared, listening, pending, queued,
                                  missed, overtaken, stray>>
    BY <1>22 DEF vars
  <2>2. TypeOK'
    BY <1>1, <1>22 DEF vars, Base, TypeOK
  <2>3. ASSUME NEW s \in Replicas PROVE Sound(s)'
    <3>1. Settling(s) /\ Attended(s) /\ Dormant(s)
      BY DEF IInv, Sound
    <3>2. Attended(s)' /\ Dormant(s)'
      BY <2>1, <3>1 DEF Attended, Dormant, ReplicaOf
    <3>3. Settling(s)'
      BY <2>1, <3>1 DEF Settling, Calm, Told, Untold, Informed, Registered, Connected,
                        ListenerAt
    <3> QED BY <3>2, <3>3 DEF Sound
  <2> QED BY <1>1, <2>1, <2>2, <2>3, BaseAlone
<1> QED BY <1>2, <1>3, <1>4, <1>5, <1>6, <1>7, <1>8, <1>9, <1>10, <1>11, <1>12, <1>13,
           <1>14, <1>15, <1>16, <1>17, <1>18, <1>19, <1>20, <1>21, <1>22 DEF Next

\* A replica at rest that heard of everything is calm, and none of its jobs is
\* there to do the rest.
LEMMA QuietIsCalm ==
    ASSUME NEW r \in Replicas, TypeOK, QuietAt(r), ~missed[r], ~overtaken[r]
    PROVE  /\ Calm(r) /\ ListenerAt(r, {"idle"}) /\ job[Boot(r)].at = "idle"
           /\ \A j \in Jobs : ReplicaOf(j) = r => job[j].at # "connecting"
<1>1. job[Listener(r)].at = "idle" /\ job[Boot(r)].at = "idle"
  BY JobKinds DEF QuietAt
<1> QED BY <1>1 DEF QuietAt, Calm, Told, ListenerAt

LEMMA InvConverges == IInv => RegistryConverges /\ ConnectionConverges
<1> SUFFICES ASSUME IInv, NEW r \in Replicas, QuietAt(r), ~missed[r], ~overtaken[r]
             PROVE  /\ registry[r] = row
                    /\ ~stray[r] => /\ shared[r].config = row
                                    /\ shared[r].state # "connecting"
  BY DEF RegistryConverges, ConnectionConverges
<1>1. /\ Calm(r) /\ ListenerAt(r, {"idle"}) /\ job[Boot(r)].at = "idle"
      /\ \A j \in Jobs : ReplicaOf(j) = r => job[j].at # "connecting"
  BY QuietIsCalm DEF IInv
<1>2. Registered(r) /\ Connected(r) /\ Attended(r)
  BY <1>1 DEF IInv, Sound, Settling
<1>3. registry[r] = row
  BY <1>1, <1>2 DEF Registered, ListenerAt
<1> QED BY <1>1, <1>2, <1>3 DEF Connected, Attended, ListenerAt

-----------------------------------------------------------------------------
(* The theorems.                                                           *)

\* However refreshes, boots, connects, notifications and faults interleave
\* (ConnectionManager, ConnectorRegistry, PgChannelListener), a replica that
\* nothing is on its way to holds the table and its connection, but for what
\* its listener or its boot is about to do; and an entry is half-way only as
\* long as somebody is still at it.
THEOREM Invariance == Spec => []IInv
<1> QED BY InitIInv, NextIInv, PTL DEF Spec

\* The type invariant.
THEOREM TypeCorrect == Spec => []TypeOK
<1>1. IInv => TypeOK
  BY DEF IInv
<1> QED BY <1>1, Invariance, PTL

\* The registry of a replica that heard of every write and came to rest is the
\* table (refreshRuntimeAndNotify, PgChannelListener.dispatch).
THEOREM RegistryFollows == Spec => []RegistryConverges
<1> QED BY InvConverges, Invariance, PTL

\* And its connection is that of the registry, and not left half-way
\* (ConnectionManager.reconcile, connectServer).
THEOREM ConnectionFollows == Spec => []ConnectionConverges
<1> QED BY InvConverges, Invariance, PTL

=============================================================================
