-------------------------------- MODULE Sandbox -----------------------------
(***************************************************************************)
(* The workspaces in which runs execute Python: the server of              *)
(* apps/shaiden-sandbox with its threads, run locks and pool of uids, and  *)
(* what Shaiden sends it: execute_python of a run, the DELETE when a run   *)
(* is completed, and the sweep that retries a missed one.                  *)
(*                                                                         *)
(* The workspaces and the map of uids are on a volume and outlive the      *)
(* server; its threads and the processes of the runs do not.  Writing the  *)
(* map takes two steps, since it is truncated first.  What a script        *)
(* computes, quotas and bearers are left out but for how a call ends.      *)
(***************************************************************************)
EXTENDS Naturals

CONSTANTS
    Runs,        \* numbered in the order of their ids
    Uids,        \* the pool, numbers too
    Requests,    \* requests at the server at once
    Sweepers,    \* sweeps at once, of any replica
    NoUid, NoOne,
    MaxReopens,  \* bound: continuations of completed runs
    MaxCrashes   \* bound: restarts of the server

ASSUME NumbersAssumption == Runs \subseteq Nat /\ Uids \subseteq Nat
ASSUME NullAssumption == NoUid \notin Uids /\ NoOne \notin Sweepers
ASSUME BoundsAssumption == MaxReopens \in Nat /\ MaxCrashes \in Nat

VARIABLES
    run,        \* the status of each run in Shaiden
    sweep,      \* the sweeps: runs listed and left
    dir,        \* the workspaces; files: with what calls of the run have left
    stuck,      \* the workspaces with an entry that is no file, link or directory
    uid, held,  \* .uid-map.json: the uid of a run, and uids that are held back
    corrupt,    \* the map was cut off and cannot be parsed
    procs,      \* the runs that have processes under a uid
    req,        \* the requests at the server
    reopens, crashes,
    overtaken,  \* history: runs continued while a DELETE was on its way
    leaked,     \* history: runs whose DELETE died before the uid was released
    outlived    \* history: uids that a release has found with processes

vars == <<run, sweep, dir, stuck, uid, held, corrupt, procs, req, reopens, crashes,
          overtaken, leaked, outlived>>
shaiden == <<run, reopens, overtaken>>
map == <<uid, held, corrupt>>
spoilt == <<stuck, outlived>>

Points == {"idle", "sent", "assigning", "running", "emptied", "popping"}
Idle == [at |-> "idle", op |-> "exec", run |-> 0, by |-> NoOne, uid |-> NoUid]
NoSweep == [at |-> "idle", list |-> {}]

Init ==
    /\ run = [r \in Runs |-> "running"]
    /\ sweep = [s \in Sweepers |-> NoSweep]
    /\ dir = [r \in Runs |-> "none"] /\ stuck = {}
    /\ uid = [r \in Runs |-> NoUid] /\ held = {} /\ corrupt = FALSE
    /\ procs = [u \in Uids |-> {}]
    /\ req = [q \in Requests |-> Idle]
    /\ reopens = 0 /\ crashes = 0
    /\ overtaken = {} /\ leaked = {} /\ outlived = {}

-----------------------------------------------------------------------------
(* Shaiden.                                                                *)

At(q, op, at) == req[q].op = op /\ req[q].at = at

Sends(q, op, r, by) ==
    /\ req[q] = Idle
    /\ req' = [req EXCEPT ![q] = [at |-> "sent", op |-> op, run |-> r, by |-> by,
                                  uid |-> NoUid]]

\* execute_python: the run may be completed before the server has answered.
ExecutePython(q, r) ==
    /\ run[r] = "running"
    /\ Sends(q, "exec", r, NoOne)
    /\ UNCHANGED <<shaiden, sweep, dir, map, procs, crashes, leaked, spoilt>>

\* completeRunWithOutcomeStep: the row is written, then a DELETE is sent, unless the
\* process dies before or has no connection.
CompleteRun(r) ==
    /\ run[r] = "running"
    /\ run' = [run EXCEPT ![r] = "completed"]
    /\ overtaken' = overtaken \ {r}
    /\ \/ \E q \in Requests : Sends(q, "delete", r, NoOne)
       \/ UNCHANGED req
    /\ UNCHANGED <<sweep, dir, map, procs, reopens, crashes, leaked, spoilt>>

\* beginContinuation: the run starts again, with whatever workspace it has.
Continue(r) ==
    /\ run[r] = "completed" /\ reopens < MaxReopens
    /\ run' = [run EXCEPT ![r] = "running"]
    /\ reopens' = reopens + 1
    /\ overtaken' = IF \E q \in Requests : At(q, "delete", "sent") /\ req[q].run = r
                    THEN overtaken \cup {r} ELSE overtaken
    /\ UNCHANGED <<sweep, dir, map, procs, req, crashes, leaked, spoilt>>

ListMapped(s) ==  \* mutant: the runs in the map, not the directories
    /\ sweep[s].at = "idle"
    /\ sweep' = [sweep EXCEPT ![s] = [at |-> "reading", list |-> {r \in Runs : uid[r] # NoUid}]]
    /\ UNCHANGED <<shaiden, dir, map, procs, req, crashes, leaked, spoilt>>

\* sweepSandboxWorkspaces: the workspaces there are,
ListRuns(s) ==
    /\ sweep[s].at = "idle"
    /\ sweep' = [sweep EXCEPT ![s] = [at |-> "reading", list |-> {r \in Runs : dir[r] # "none"}]]
    /\ UNCHANGED <<shaiden, dir, map, procs, req, crashes, leaked, spoilt>>

Swept(s, r, at) == sweep' = [sweep EXCEPT ![s] = [at |-> at, list |-> @.list \ {r}]]

SweepAll(s, q) ==  \* mutant: the status is not read
    /\ sweep[s].at = "reading"
    /\ \E r \in sweep[s].list :
         /\ \A p \in sweep[s].list : r <= p
         /\ Sends(q, "delete", r, s) /\ Swept(s, r, "waiting")
    /\ UNCHANGED <<shaiden, dir, map, procs, crashes, leaked, spoilt>>

\* and, one after the other, a DELETE for each whose run is not running.
SweepNext(s, q) ==
    /\ sweep[s].at = "reading"
    /\ \E r \in sweep[s].list :
         /\ \A p \in sweep[s].list : r <= p
         /\ IF run[r] = "running" THEN Swept(s, r, "reading") /\ UNCHANGED req
            ELSE Sends(q, "delete", r, s) /\ Swept(s, r, "waiting")
    /\ UNCHANGED <<shaiden, dir, map, procs, crashes, leaked, spoilt>>

SweepEnds(s) ==
    /\ sweep[s].at = "reading" /\ sweep[s].list = {}
    /\ sweep' = [sweep EXCEPT ![s] = NoSweep]
    /\ UNCHANGED <<shaiden, dir, map, procs, req, crashes, leaked, spoilt>>

-----------------------------------------------------------------------------
(* The server.  A request holds its run's lock from when it has left sent, *)
(* and _uid_guard while it writes the map.                                 *)

NeverLocked(r) == FALSE  \* mutant: no run_lock
Locked(r) == \E q \in Requests : req[q].at \notin {"idle", "sent"} /\ req[q].run = r

Unguarded == FALSE  \* mutant: no _uid_guard
Writing == \E q \in Requests : req[q].at \in {"assigning", "popping"}

Goes(q, at) == req' = [req EXCEPT ![q].at = at] /\ UNCHANGED sweep

\* The request is over.  A sweep goes on when its DELETE was answered with 204
\* or 404, and is given up otherwise.
Ends(q, ok) ==
    /\ req' = [req EXCEPT ![q] = Idle]
    /\ sweep' = [s \in Sweepers |->
                   IF req[q].by # s THEN sweep[s]
                   ELSE IF ok THEN [sweep[s] EXCEPT !.at = "reading"] ELSE NoSweep]

\* Lost on its way, or refused: 400, 401, 503.
Refused(q) ==
    /\ req[q].at = "sent"
    /\ Ends(q, FALSE)
    /\ UNCHANGED <<shaiden, dir, map, procs, crashes, leaked, spoilt>>

\* A sweep whose DELETE has no answer for long is over; what it has sent may be served yet.
GivesUp(q) ==
    /\ req[q].by # NoOne
    /\ req' = [req EXCEPT ![q].by = NoOne]
    /\ sweep' = [sweep EXCEPT ![req[q].by] = NoSweep]
    /\ UNCHANGED <<shaiden, dir, map, procs, crashes, leaked, spoilt>>

Free(u) == u \notin held /\ (\A r \in Runs : uid[r] # u) /\ procs[u] = {}

\* Popen, which may fail.
StartProcess(q, u) ==
    \/ procs' = [procs EXCEPT ![u] = @ \cup {req[q].run}] /\ Goes(q, "running")
    \/ UNCHANGED procs /\ Ends(q, FALSE)

\* execute: the directory is there before the uid is.  assign_uid gives the run's own
\* uid, or one that nobody has, which it writes; 503 when there is none left,
\* and no answer when the map cannot be parsed.
Execute(q) ==
    LET r == req[q].run IN
    /\ At(q, "exec", "sent") /\ ~Locked(r)
    /\ dir' = [dir EXCEPT ![r] = IF @ = "none" THEN "empty" ELSE @]
    /\ leaked' = leaked \ {r}
    /\ \/ UNCHANGED procs /\ Ends(q, TRUE)                   \* over its cap
       \/ ~Writing /\ ~corrupt /\ uid[r] # NoUid /\ StartProcess(q, uid[r])
       \/ /\ ~Writing /\ ~corrupt /\ uid[r] = NoUid
          /\ \E u \in Uids :
               /\ Free(u) /\ \A v \in Uids : Free(v) => u <= v
               /\ req' = [req EXCEPT ![q].at = "assigning", ![q].uid = u]
          /\ UNCHANGED <<sweep, procs>>
       \/ /\ ~Writing /\ (corrupt \/ (uid[r] = NoUid /\ \A u \in Uids : ~Free(u)))
          /\ UNCHANGED procs /\ Ends(q, FALSE)
    /\ UNCHANGED <<shaiden, map, crashes, spoilt>>

UidAssigned(q) ==
    /\ req[q].at = "assigning"
    /\ uid' = [uid EXCEPT ![req[q].run] = req[q].uid]
    /\ StartProcess(q, req[q].uid)
    /\ UNCHANGED <<shaiden, dir, held, corrupt, crashes, leaked, spoilt>>

\* kill_owned gives up after a while: a process may survive it.
Killed(u) == procs' \in {procs, [procs EXCEPT ![u] = {}]}

\* The script ends, or is killed when it times out or is over its cap; what is left of its
\* processes is killed and the call is answered.  A script that no kill ends is waited for.
ExecReturns(q) ==
    LET r == req[q].run IN
    /\ req[q].at = "running"
    /\ Killed(uid[r])
    /\ \/ /\ dir' = [dir EXCEPT ![r] = "files"]
          /\ stuck' \in {stuck \ {r}, stuck \cup {r}}
       \/ UNCHANGED <<dir, stuck>>
    /\ Ends(q, TRUE)
    /\ UNCHANGED <<shaiden, map, crashes, leaked, outlived>>

\* What has survived dies in the end, or does not.
ProcessDies(u) ==
    /\ procs[u] # {} /\ \A q \in Requests : req[q].at = "running" => uid[req[q].run] # u
    /\ procs' = [procs EXCEPT ![u] = {}]
    /\ UNCHANGED <<shaiden, sweep, dir, map, req, crashes, leaked, spoilt>>

\* do_DELETE: the map is read without its lock, the run's processes are killed
\* and its files, links and directories removed.  The workspace itself cannot be if an
\* entry of another kind is in it, or what a process that survived has written since.
EmptyWorkspace(q) ==
    LET r == req[q].run IN
    /\ At(q, "delete", "sent") /\ ~Locked(r)
    /\ \/ dir[r] = "none" /\ Goes(q, "emptied") /\ UNCHANGED <<dir, procs>>
       \/ dir[r] # "none" /\ (corrupt \/ Writing) /\ Ends(q, FALSE) /\ UNCHANGED <<dir, procs>>
       \/ /\ dir[r] # "none" /\ ~corrupt /\ ~Writing
          /\ IF uid[r] = NoUid THEN UNCHANGED procs ELSE Killed(uid[r])
          /\ \/ r \notin stuck /\ dir' = [dir EXCEPT ![r] = "none"] /\ Goes(q, "emptied")
             \/ /\ r \in stuck \/ (uid[r] # NoUid /\ procs'[uid[r]] # {})
                /\ dir' = [dir EXCEPT ![r] = "empty"] /\ Ends(q, FALSE)
    /\ UNCHANGED <<shaiden, map, crashes, leaked, spoilt>>

\* release_uid: a uid whose processes survive is held back.
ReleaseUid(q) ==
    LET r == req[q].run IN
    /\ req[q].at = "emptied" /\ ~Writing
    /\ \/ /\ ~corrupt
          /\ IF uid[r] = NoUid THEN UNCHANGED procs ELSE Killed(uid[r])
          /\ req' = [req EXCEPT ![q] = [@ EXCEPT !.at = "popping",
                        !.uid = IF uid[r] # NoUid /\ procs'[uid[r]] # {} THEN uid[r] ELSE NoUid]]
          /\ outlived' = outlived \cup {u \in Uids : u = uid[r] /\ procs'[u] # {}}
          /\ UNCHANGED <<sweep, leaked>>
       \/ /\ corrupt /\ Ends(q, FALSE)
          /\ UNCHANGED <<procs, leaked, outlived>>
    /\ UNCHANGED <<shaiden, dir, stuck, map, crashes>>

KeepsSurvivor(q) ==  \* mutant: not held back, but left with the run
    /\ req[q].at = "popping"
    /\ uid' = IF req[q].uid # NoUid THEN uid ELSE [uid EXCEPT ![req[q].run] = NoUid]
    /\ leaked' = leaked \ {req[q].run}
    /\ Ends(q, TRUE)
    /\ UNCHANGED <<shaiden, dir, held, corrupt, procs, crashes, spoilt>>

\* Nothing ever gives back a uid that is held back.
UidReleased(q) ==
    /\ req[q].at = "popping"
    /\ uid' = [uid EXCEPT ![req[q].run] = NoUid]
    /\ held' = held \cup ({req[q].uid} \ {NoUid})
    /\ leaked' = leaked \ {req[q].run}
    /\ Ends(q, TRUE)
    /\ UNCHANGED <<shaiden, dir, corrupt, procs, crashes, spoilt>>

Releasing(q, r) == req[q].at \in {"emptied", "popping"} /\ req[q].run = r

\* The container restarts: nobody is answered and no process is left.  A map that is
\* being written is cut off: whatever it said is lost.
Crash ==
    /\ crashes < MaxCrashes
    /\ crashes' = crashes + 1
    /\ req' = [q \in Requests |-> Idle]
    /\ sweep' = [s \in Sweepers |-> IF sweep[s].at = "waiting" THEN NoSweep ELSE sweep[s]]
    /\ procs' = [u \in Uids |-> {}]
    /\ IF Writing
       THEN /\ corrupt' = TRUE /\ uid' = [r \in Runs |-> NoUid] /\ held' = {}
            /\ leaked' = {} /\ outlived' = {}
       ELSE /\ leaked' = leaked \cup {r \in Runs : /\ uid[r] # NoUid
                                                  /\ \E q \in Requests : Releasing(q, r)}
            /\ UNCHANGED <<map, outlived>>
    /\ UNCHANGED <<shaiden, dir, stuck>>

\* What the server does with a request, but for waiting for its script.
Serve(q) ==
    \/ Refused(q) \/ Execute(q) \/ UidAssigned(q)
    \/ EmptyWorkspace(q) \/ ReleaseUid(q) \/ UidReleased(q)

Sweep(s) == ListRuns(s) \/ SweepEnds(s) \/ \E q \in Requests : SweepNext(s, q)

Next ==
    \/ \E r \in Runs : CompleteRun(r) \/ Continue(r)
    \/ \E q \in Requests, r \in Runs : ExecutePython(q, r)
    \/ \E s \in Sweepers : Sweep(s)
    \/ \E q \in Requests : Serve(q) \/ ExecReturns(q) \/ GivesUp(q)
    \/ \E u \in Uids : ProcessDies(u)
    \/ Crash

Spec == Init /\ [][Next]_vars

\* Shaiden sweeps every so often, a request is refused or served but for its script, and
\* of the DELETEs sent for a workspace not every one is lost or meets a write of the map.
\* No script need end, no survivor die and no DELETE succeed.
Fairness ==
    /\ \A s \in Sweepers : SF_vars(Sweep(s))
    /\ \A q \in Requests : WF_vars(Serve(q))
    /\ \A r \in Runs : SF_vars(\E q \in Requests : /\ EmptyWorkspace(q) /\ ~Writing
                                                  /\ req[q].run = r)

FairSpec == Spec /\ Fairness

-----------------------------------------------------------------------------
Request == [at: Points, op: {"exec", "delete"}, run: Runs \cup {0},
            by: Sweepers \cup {NoOne}, uid: Uids \cup {NoUid}]

\* The types of the state; null values are never held back, and a request under way is
\* about a run.
TypeOK ==
    /\ run \in [Runs -> {"running", "completed"}]
    /\ sweep \in [Sweepers -> [at: {"idle", "reading", "waiting"}, list: SUBSET Runs]]
    /\ dir \in [Runs -> {"none", "empty", "files"}] /\ stuck \subseteq Runs
    /\ uid \in [Runs -> Uids \cup {NoUid}] /\ held \subseteq Uids /\ corrupt \in BOOLEAN
    /\ procs \in [Uids -> SUBSET Runs]
    /\ req \in [Requests -> Request]
    /\ \A q \in Requests : req[q] # Idle => req[q].run \in Runs
    /\ reopens \in 0..MaxReopens /\ crashes \in 0..MaxCrashes
    /\ overtaken \subseteq Runs /\ leaked \subseteq Runs
    /\ outlived \subseteq Uids

\* No two runs share a uid, and a process is one of the run that has its uid, or had
\* it: then the uid is held back from everybody.  assign_uid and release_uid
\* read, decide and write the map while other runs' requests do the same, a
\* restart may come between any two of their steps, and kills may fail.
UidsApart ==
    /\ \A r, p \in Runs : uid[r] # NoUid /\ uid[r] = uid[p] => r = p
    /\ \A r \in Runs : uid[r] \notin held
    /\ \A u \in Uids : \A r \in procs[u] :
         /\ procs[u] = {r}
         /\ uid[r] = u \/ u \in held

\* An execution has its directory, and its script a uid, until the call is answered:
\* no DELETE, of the completion or of a sweep, gets between two steps of execute.
WorkspaceStands ==
    \A q \in Requests :
        /\ req[q].at \in {"assigning", "running"} => dir[req[q].run] # "none"
        /\ req[q].at = "running" => uid[req[q].run] # NoUid

\* The files of a running run, parked or not, stay from step to step: the sweep, and
\* retried or late DELETEs, take only those of runs that are over.  Except that a run
\* may be continued while such a DELETE is on its way.
KeepsFiles(r) ==
    run[r] = "running" /\ run'[r] = "running" /\ dir[r] = "files" => dir'[r] = "files"

FilesKept == [][\A r \in Runs \ overtaken : KeepsFiles(r)]_vars

\* Every uid that cannot be given out is accounted for.  A run with a workspace has it, so that
\* the sweep finds it, or a DELETE is about to release it, or was when the server died; or it
\* is held back, and is so for ever, because a release has found processes that the kill
\* did not end (assign_uid, release_uid).
UidsAccounted ==
    \A u \in Uids :
        ~Free(u) => \/ \E r \in Runs : /\ uid[r] = u
                                       /\ \/ dir[r] # "none" \/ r \in leaked
                                          \/ \E q \in Requests : Releasing(q, r)
                    \/ u \in held /\ u \in outlived

Lingers(r) == run[r] = "completed" /\ dir[r] # "none"

\* Nothing is in the way of a DELETE for r, or none is sent: no odd entry is in its
\* workspace, no script is waited for with its lock, and no process survives.
Clear(r) ==
    \/ run[r] = "running"
    \/ /\ r \notin stuck
       /\ \A q \in Requests : req[q].at = "running" => req[q].run # r
       /\ \A u \in Uids : r \notin procs[u]

\* The workspace of a completed run goes, although its DELETE is lost, fails or comes too
\* early, if in the end nothing is in the way of its own DELETE and of those of the runs before
\* it in the list, for a sweep ends at the first that fails; unless the run is continued or
\* a restart has cut off the map (sweepSandboxWorkspaces, do_DELETE).
WorkspaceGoes ==
    \A r \in Runs : []<>~(Lingers(r) /\ ~corrupt /\ \A p \in Runs : p <= r => Clear(p))

\* Refuted: docs/sandboxing.md, "A workspace is ... deleted when the run reaches a
\* terminal outcome. A sweeper retries that delete", if only nothing is in the way of it: the
\* workspace of another run is.  See the README, with the statements below.
SweeperRetries == \A r \in Runs : []<>~(Lingers(r) /\ ~corrupt /\ Clear(r))

\* Refuted: the same, with every workspace free to go.
AlwaysGoes == \A r \in Runs : []<>~(Lingers(r) /\ \A p \in Runs : Clear(p))

\* Refuted: docs/sandboxing.md, "any leftover pid of that uid is scanned and killed" before
\* the call returns.
LeftoversKilled ==
    \A u \in Uids : \A r \in procs[u] :
        \E q \in Requests : req[q].at = "running" /\ req[q].run = r

\* Refuted: what release_uid holds a uid back for, processes that survive.
HeldForProcesses == \A u \in held : procs[u] # {}

\* Refuted: execute-python.ts, "Files you write stay for later execute_python calls in
\* this same run".
FilesStay == [][\A r \in Runs : KeepsFiles(r)]_vars
=============================================================================
