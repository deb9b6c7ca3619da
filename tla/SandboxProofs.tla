----------------------------- MODULE SandboxProofs --------------------------
(***************************************************************************)
(* Proofs about Sandbox.  What keeps the runs apart is the order in which  *)
(* the server's locks put its requests: one at a time works for a run, and *)
(* one at a time writes the map.  The invariant adds what each request     *)
(* knows under its lock (Chosen, Judged), where the uids are that cannot   *)
(* be given out (Owned, Backed, CutOff), and what Shaiden knows of the     *)
(* DELETEs it has sent (Doomed).                                           *)
(***************************************************************************)
EXTENDS Sandbox, TLAPS

Busy(q) == req[q].at \notin {"idle", "sent"}
Writes(q) == req[q].at \in {"assigning", "popping"}

\* The locks.
OnePerRun == \A p, q \in Requests : Busy(p) /\ Busy(q) /\ req[p].run = req[q].run => p = q
OneWriter == \A p, q \in Requests : Writes(p) /\ Writes(q) => p = q

\* A request that works has come to its point from its operation.
Kinds == \A q \in Requests : /\ req[q].at \in {"assigning", "running"} => req[q].op = "exec"
                             /\ req[q].at \in {"emptied", "popping"} => req[q].op = "delete"

\* The uid that is about to be written is nobody's, and its run has none.
Chosen ==
    \A q \in Requests : req[q].at = "assigning" =>
        /\ uid[req[q].run] = NoUid
        /\ req[q].uid \in Uids /\ req[q].uid \notin held /\ procs[req[q].uid] = {}
        /\ \A r \in Runs : uid[r] # req[q].uid

\* A uid that is about to be released is held back, unless its processes are gone.
Judged ==
    \A q \in Requests : req[q].at = "popping" =>
        \/ req[q].uid = uid[req[q].run]
        \/ req[q].uid = NoUid /\ procs[uid[req[q].run]] = {}

\* The run of a uid has a workspace, or one that is being or was being deleted.
Owned ==
    \A r \in Runs : uid[r] # NoUid => \/ dir[r] # "none" \/ r \in leaked
                                      \/ \E q \in Requests : Releasing(q, r)

ServerInv == /\ OnePerRun /\ OneWriter /\ Kinds /\ Chosen /\ Judged
             /\ WorkspaceStands /\ UidsApart /\ Owned

\* A DELETE on its way is for a run that is over, or was when it was sent.
Doomed == \A q \in Requests :
              At(q, "delete", "sent") /\ run[req[q].run] = "running" => req[q].run \in overtaken

\* A uid that is held back, or about to be, has been found with processes, and a map that was
\* cut off is never written again.
Backed == /\ held \subseteq outlived
          /\ \A q \in Requests : req[q].at = "popping" /\ req[q].uid # NoUid
                                    => req[q].uid \in outlived
CutOff == corrupt => (\A r \in Runs : uid[r] = NoUid) /\ ~Writing
PoolInv == Backed /\ CutOff

IInv == TypeOK /\ ServerInv /\ PoolInv /\ Doomed


-----------------------------------------------------------------------------
(* Lemmas about requests.                                                  *)

LEMMA RequestLemma ==
    /\ Idle \in Request /\ Idle.at = "idle"
    /\ \A at \in Points, op \in {"exec", "delete"}, r \in Runs \cup {0},
          by \in Sweepers \cup {NoOne}, u \in Uids \cup {NoUid} :
             [at |-> at, op |-> op, run |-> r, by |-> by, uid |-> u] \in Request
BY DEF Idle, Request, Points

\* A request that works is about a run.
LEMMA BusyLemma ==
    ASSUME TypeOK, NEW q \in Requests, req[q].at # "idle"
    PROVE  req[q].run \in Runs /\ req[q] # Idle /\ req[q] \in Request
BY RequestLemma DEF TypeOK, Idle

\* What Shaiden does moves no request that works.
LEMMA OutsideLemma ==
    ASSUME IInv, UNCHANGED <<dir, map, procs, leaked>>,
           \A q \in Requests : /\ Busy(q)' => Busy(q)
                               /\ Busy(q) => req'[q] = req[q]
    PROVE  ServerInv'
<1> USE DEF IInv, ServerInv, map
<1>1. OnePerRun' /\ OneWriter' /\ Kinds'
  BY DEF OnePerRun, OneWriter, Kinds, Busy, Writes
<1>2. Chosen' /\ Judged'
  BY DEF Chosen, Judged, Busy
<1>3. WorkspaceStands' /\ UidsApart'
  BY DEF WorkspaceStands, UidsApart, Busy
<1>4. Owned'
  BY DEF Owned, Releasing, Busy
<1> QED BY <1>1, <1>2, <1>3, <1>4

\* Most steps neither write the map nor begin to.
LEMMA PoolLemma ==
    ASSUME IInv, UNCHANGED <<map, outlived>>,
           \A q \in Requests : Writes(q)' => Writes(q) /\ req'[q] = req[q]
    PROVE  PoolInv'
BY DEF IInv, PoolInv, Backed, CutOff, Writes, Writing, map

LEMMA SendsLemma ==
    ASSUME TypeOK, NEW q \in Requests, NEW r \in Runs, NEW op \in {"exec", "delete"},
           NEW by \in Sweepers \cup {NoOne}, Sends(q, op, r, by)
    PROVE  /\ req' \in [Requests -> Request]
           /\ \A p \in Requests : req'[p] # Idle => req'[p].run \in Runs
           /\ \A p \in Requests : /\ Busy(p)' => Busy(p)
                                  /\ Busy(p) => req'[p] = req[p]
           /\ \A p \in Requests : \/ req'[p] = req[p]
                                  \/ /\ req'[p].op = op /\ req'[p].run = r
                                     /\ req'[p].at = "sent"
BY RequestLemma DEF Sends, TypeOK, Request, Points, Busy, Idle

-----------------------------------------------------------------------------
(* Shaiden's steps.                                                        *)

LEMMA InitLemma == Init => IInv
<1> SUFFICES ASSUME Init PROVE IInv
  OBVIOUS
<1>1. TypeOK
  <2>1. /\ req \in [Requests -> Request]
        /\ \A q \in Requests : req[q] # Idle => req[q].run \in Runs
    BY RequestLemma DEF Init
  <2>2. sweep \in [Sweepers -> [at: {"idle", "reading", "waiting"}, list: SUBSET Runs]]
    BY DEF Init, NoSweep
  <2>3. reopens \in 0..MaxReopens /\ crashes \in 0..MaxCrashes
    BY BoundsAssumption DEF Init
  <2>4. /\ run \in [Runs -> {"running", "completed"}]
        /\ dir \in [Runs -> {"none", "empty", "files"}]
        /\ uid \in [Runs -> Uids \cup {NoUid}] /\ held \subseteq Uids /\ corrupt \in BOOLEAN
        /\ procs \in [Uids -> SUBSET Runs]
        /\ overtaken \subseteq Runs /\ leaked \subseteq Runs
        /\ stuck \subseteq Runs /\ outlived \subseteq Uids
    BY DEF Init
  <2> QED BY <2>1, <2>2, <2>3, <2>4 DEF TypeOK
<1>2. ServerInv
  BY NullAssumption DEF Init, ServerInv, OnePerRun, OneWriter, Kinds, Chosen, Judged, WorkspaceStands,
     UidsApart, Owned, Busy, Writes, Idle
<1>3. Doomed
  BY DEF Init, Doomed, At, Idle
<1>4. PoolInv
  BY DEF Init, PoolInv, Backed, CutOff, Idle
<1> QED BY <1>1, <1>2, <1>3, <1>4 DEF IInv

LEMMA ExecutePythonLemma ==
    ASSUME IInv, NEW q \in Requests, NEW r \in Runs, ExecutePython(q, r)
    PROVE  IInv'
<1> USE DEF IInv
<1>0. Sends(q, "exec", r, NoOne)
  BY DEF ExecutePython
<1> HIDE DEF Sends
<1>1. /\ req' \in [Requests -> Request]
      /\ \A p \in Requests : req'[p] # Idle => req'[p].run \in Runs
      /\ \A p \in Requests : (Busy(p)' => Busy(p)) /\ (Busy(p) => req'[p] = req[p])
      /\ \A p \in Requests : req'[p] = req[p] \/ req'[p].op = "exec"
  BY <1>0, SendsLemma
<1>2. TypeOK'
  BY <1>1 DEF ExecutePython, TypeOK, shaiden, map, spoilt
<1>3. ServerInv'
  BY <1>1, OutsideLemma DEF ExecutePython
<1>4. Doomed'
  BY <1>1 DEF ExecutePython, Doomed, At, shaiden
<1>5. PoolInv'
  BY <1>1, PoolLemma DEF ExecutePython, spoilt, Busy, Writes
<1> QED BY <1>2, <1>3, <1>4, <1>5

LEMMA CompleteRunLemma ==
    ASSUME IInv, NEW r \in Runs, CompleteRun(r)
    PROVE  IInv'
<1> USE DEF IInv
<1>1. /\ req' \in [Requests -> Request]
      /\ \A p \in Requests : req'[p] # Idle => req'[p].run \in Runs
      /\ \A p \in Requests : (Busy(p)' => Busy(p)) /\ (Busy(p) => req'[p] = req[p])
      /\ \A p \in Requests : req'[p] = req[p] \/ req'[p].run = r
  <2>1. CASE UNCHANGED req
    BY <2>1 DEF TypeOK, Busy
  <2>2. ASSUME NEW q \in Requests, Sends(q, "delete", r, NoOne)
        PROVE  <1>1!:
    BY <2>2, SendsLemma
  <2> QED BY <2>1, <2>2 DEF CompleteRun
<1>2. TypeOK'
  BY <1>1 DEF CompleteRun, TypeOK, map, spoilt
<1>3. ServerInv'
  BY <1>1, OutsideLemma DEF CompleteRun
<1>4. Doomed'
  BY <1>1 DEF CompleteRun, Doomed, At, TypeOK
<1>5. PoolInv'
  BY <1>1, PoolLemma DEF CompleteRun, spoilt, Busy, Writes
<1> QED BY <1>2, <1>3, <1>4, <1>5

LEMMA ContinueLemma ==
    ASSUME IInv, NEW r \in Runs, Continue(r)
    PROVE  IInv'
<1> USE DEF IInv
<1>1. TypeOK'
  BY BoundsAssumption DEF Continue, TypeOK, map, spoilt
<1>2. ServerInv'
  BY OutsideLemma DEF Continue, Busy
<1>3. Doomed'
  BY DEF Continue, Doomed, At, TypeOK
<1>4. PoolInv'
  BY PoolLemma DEF Continue, spoilt, Writes
<1> QED BY <1>1, <1>2, <1>3, <1>4

LEMMA ListRunsLemma ==
    ASSUME IInv, NEW s \in Sweepers, ListRuns(s) \/ SweepEnds(s)
    PROVE  IInv'
<1> USE DEF IInv
<1>1. TypeOK'
  BY DEF ListRuns, SweepEnds, NoSweep, TypeOK, shaiden, map, spoilt
<1>2. ServerInv'
  BY OutsideLemma DEF ListRuns, SweepEnds, Busy
<1>3. Doomed'
  BY DEF ListRuns, SweepEnds, Doomed, At, shaiden
<1>4. PoolInv'
  BY PoolLemma DEF ListRuns, SweepEnds, spoilt, Writes
<1> QED BY <1>1, <1>2, <1>3, <1>4

LEMMA SweepNextLemma ==
    ASSUME IInv, NEW s \in Sweepers, NEW q \in Requests, SweepNext(s, q)
    PROVE  IInv'
<1> USE DEF IInv
<1>0. PICK r \in sweep[s].list : \/ Swept(s, r, "reading") /\ UNCHANGED req
                                 \/ /\ run[r] # "running" /\ Sends(q, "delete", r, s)
                                    /\ Swept(s, r, "waiting")
  BY DEF SweepNext
<1>1. r \in Runs
  BY <1>0 DEF TypeOK
<1>2. /\ req' \in [Requests -> Request]
      /\ \A p \in Requests : req'[p] # Idle => req'[p].run \in Runs
      /\ \A p \in Requests : (Busy(p)' => Busy(p)) /\ (Busy(p) => req'[p] = req[p])
      /\ \A p \in Requests : req'[p] = req[p] \/ run[req'[p].run] # "running"
  <2>1. CASE UNCHANGED req
    BY <2>1 DEF TypeOK, Busy
  <2>2. CASE run[r] # "running" /\ Sends(q, "delete", r, s)
    BY <1>1, <2>2, SendsLemma
  <2> QED BY <1>0, <2>1, <2>2
<1>3. sweep' \in [Sweepers -> [at: {"idle", "reading", "waiting"}, list: SUBSET Runs]]
  BY <1>0 DEF Swept, TypeOK
<1>4. TypeOK'
  BY <1>2, <1>3 DEF SweepNext, TypeOK, shaiden, map, spoilt
<1>5. ServerInv'
  BY <1>2, OutsideLemma DEF SweepNext
<1>6. Doomed'
  BY <1>2 DEF SweepNext, Doomed, At, shaiden
<1>7. PoolInv'
  BY <1>2, PoolLemma DEF SweepNext, spoilt, Busy, Writes
<1> QED BY <1>4, <1>5, <1>6, <1>7

-----------------------------------------------------------------------------
(* The server's steps.                                                     *)

LEMMA EndsLemma ==
    ASSUME TypeOK, NEW q \in Requests, NEW ok \in BOOLEAN, Ends(q, ok)
    PROVE  /\ req' \in [Requests -> Request]
           /\ \A p \in Requests : req'[p] # Idle => req'[p].run \in Runs
           /\ sweep' \in [Sweepers -> [at: {"idle", "reading", "waiting"}, list: SUBSET Runs]]
           /\ req'[q] = Idle
           /\ \A p \in Requests : p # q => req'[p] = req[p]
<1>1. sweep' \in [Sweepers -> [at: {"idle", "reading", "waiting"}, list: SUBSET Runs]]
  BY DEF Ends, TypeOK, NoSweep
<1> QED BY <1>1, RequestLemma DEF Ends, TypeOK

LEMMA GoesLemma ==
    ASSUME TypeOK, NEW q \in Requests, NEW at \in Points, req[q].at # "idle", Goes(q, at)
    PROVE  /\ req' \in [Requests -> Request]
           /\ \A p \in Requests : req'[p] # Idle => req'[p].run \in Runs
           /\ sweep' \in [Sweepers -> [at: {"idle", "reading", "waiting"}, list: SUBSET Runs]]
           /\ req'[q].at = at /\ req'[q].op = req[q].op /\ req'[q].run = req[q].run
           /\ req'[q].uid = req[q].uid
           /\ \A p \in Requests : p # q => req'[p] = req[p]
<1>1. req[q].run \in Runs /\ req[q] \in Request
  BY BusyLemma
<1>2. req' = [req EXCEPT ![q].at = at]
  BY DEF Goes
<1>3. req' \in [Requests -> Request]
  BY <1>2, <1>1 DEF TypeOK, Request
<1>4. \A p \in Requests : p # q => req'[p] = req[p]
  BY <1>2 DEF TypeOK
<1>5. /\ req'[q].at = at /\ req'[q].op = req[q].op /\ req'[q].run = req[q].run
      /\ req'[q].uid = req[q].uid
  BY <1>2, <1>1 DEF TypeOK, Request
<1> QED BY <1>1, <1>3, <1>4, <1>5 DEF Goes, TypeOK

\* Popen adds the run to the processes of its uid, or the call is over.
LEMMA StartLemma ==
    ASSUME TypeOK, NEW q \in Requests, NEW u \in Uids, req[q].at # "idle",
           StartProcess(q, u)
    PROVE  /\ req' \in [Requests -> Request]
           /\ \A p \in Requests : req'[p] # Idle => req'[p].run \in Runs
           /\ sweep' \in [Sweepers -> [at: {"idle", "reading", "waiting"}, list: SUBSET Runs]]
           /\ procs' \in [Uids -> SUBSET Runs]
           /\ \A p \in Requests : p # q => req'[p] = req[p]
           /\ \A v \in Uids : v # u => procs'[v] = procs[v]
           /\ \/ /\ procs'[u] = procs[u] \cup {req[q].run}
                 /\ req'[q].at = "running" /\ req'[q].op = req[q].op
                 /\ req'[q].run = req[q].run
              \/ procs' = procs /\ req'[q] = Idle
<1>1. req[q].run \in Runs
  BY BusyLemma
<1>2. CASE procs' = [procs EXCEPT ![u] = @ \cup {req[q].run}] /\ Goes(q, "running")
  BY <1>1, <1>2, GoesLemma DEF TypeOK, Points
<1>3. CASE UNCHANGED procs /\ Ends(q, FALSE)
  BY <1>3, EndsLemma DEF TypeOK
<1> QED BY <1>2, <1>3 DEF StartProcess

LEMMA KilledLemma ==
    ASSUME TypeOK, NEW u \in Uids, Killed(u)
    PROVE  /\ procs' \in [Uids -> SUBSET Runs]
           /\ \A v \in Uids : procs'[v] = procs[v] \/ procs'[v] = {}
           /\ \A v \in Uids : v # u => procs'[v] = procs[v]
BY DEF Killed, TypeOK

\* A request that is over, while no other has begun.
LEMMA OverLemma ==
    ASSUME IInv, NEW q \in Requests, req'[q] = Idle,
           \A p \in Requests : p # q => req'[p] = req[p],
           UNCHANGED map,
           \A v \in Uids : procs'[v] = procs[v] \/ procs'[v] = {},
           \A r \in Runs : dir'[r] # dir[r] => ~\E p \in Requests \ {q} : Busy(p) /\ req[p].run = r,
           \A r \in Runs : dir'[r] = "none" => dir[r] = "none" \/ uid[r] = NoUid,
           \A r \in Runs \ leaked' : r \in leaked => dir'[r] # "none",
           req[q].at \in {"emptied", "popping"} => \/ req[q].run \in leaked'
                                                 \/ uid[req[q].run] = NoUid
    PROVE  ServerInv'
<1> USE DEF IInv, ServerInv, map
<1>0. Idle.at = "idle"
  BY DEF Idle
<1>1. OnePerRun' /\ OneWriter' /\ Kinds'
  BY <1>0 DEF OnePerRun, OneWriter, Kinds, Busy, Writes
<1>2. Chosen'
  BY <1>0 DEF Chosen
<1>3. Judged'
  <2> SUFFICES ASSUME NEW p \in Requests, req'[p].at = "popping"
               PROVE  \/ req'[p].uid = uid[req'[p].run]
                      \/ req'[p].uid = NoUid /\ procs'[uid[req'[p].run]] = {}
    BY DEF Judged
  <2>1. p # q /\ req'[p] = req[p] /\ req[p].at = "popping"
    BY <1>0
  <2>2. req[p].run \in Runs
    BY <2>1, BusyLemma
  <2>3. uid[req[p].run] \in Uids \cup {NoUid}
    BY <2>2 DEF TypeOK
  <2> QED BY <2>1, <2>3 DEF Judged
<1>4. WorkspaceStands'
  <2> SUFFICES ASSUME NEW p \in Requests, req'[p].at \in {"assigning", "running"}
               PROVE  /\ dir'[req'[p].run] # "none"
                      /\ req'[p].at = "running" => uid'[req'[p].run] # NoUid
    BY DEF WorkspaceStands
  <2>1. p # q /\ req'[p] = req[p] /\ Busy(p)
    BY <1>0 DEF Busy
  <2>2. req[p].run \in Runs
    BY <2>1, BusyLemma DEF Busy
  <2> QED BY <2>1, <2>2 DEF WorkspaceStands
<1>5. UidsApart'
  BY DEF UidsApart
<1>6. Owned'
  BY DEF Owned, Releasing
<1> QED BY <1>1, <1>2, <1>3, <1>4, <1>5, <1>6

LEMMA RefusedLemma ==
    ASSUME IInv, NEW q \in Requests, Refused(q)
    PROVE  IInv'
<1> USE DEF IInv
<1>0. Ends(q, FALSE) /\ req[q].at = "sent"
  BY DEF Refused
<1>1. /\ req' \in [Requests -> Request]
      /\ \A p \in Requests : req'[p] # Idle => req'[p].run \in Runs
      /\ sweep' \in [Sweepers -> [at: {"idle", "reading", "waiting"}, list: SUBSET Runs]]
      /\ req'[q] = Idle
      /\ \A p \in Requests : p # q => req'[p] = req[p]
  BY <1>0, EndsLemma
<1>2. TypeOK'
  BY <1>1 DEF Refused, TypeOK, shaiden, map, spoilt
<1>3. ServerInv'
  BY <1>0, <1>1, OutsideLemma, RequestLemma DEF Refused, Busy
<1>4. Doomed'
  BY <1>1, RequestLemma DEF Refused, Doomed, At, shaiden
<1>5. PoolInv'
  BY <1>1, PoolLemma, RequestLemma DEF Refused, spoilt, Writes
<1> QED BY <1>2, <1>3, <1>4, <1>5

LEMMA GivesUpLemma ==
    ASSUME IInv, NEW q \in Requests, GivesUp(q)
    PROVE  IInv'
<1> USE DEF IInv
<1>0. /\ req[q].by # NoOne /\ req' = [req EXCEPT ![q].by = NoOne]
      /\ UNCHANGED <<shaiden, dir, map, procs, crashes, leaked, spoilt>>
  BY DEF GivesUp
<1>1. req[q] # Idle /\ req[q] \in Request /\ req[q].run \in Runs
  BY <1>0 DEF TypeOK, Idle
<1>2. /\ req' \in [Requests -> Request]
      /\ \A p \in Requests : p # q => req'[p] = req[p]
      /\ \A p \in Requests : /\ req'[p].at = req[p].at /\ req'[p].op = req[p].op
                             /\ req'[p].run = req[p].run /\ req'[p].uid = req[p].uid
  BY <1>0, <1>1 DEF TypeOK, Request
<1>3. sweep' \in [Sweepers -> [at: {"idle", "reading", "waiting"}, list: SUBSET Runs]]
  BY DEF GivesUp, TypeOK, NoSweep
<1>4. TypeOK'
  BY <1>0, <1>1, <1>2, <1>3 DEF TypeOK, shaiden, map, spoilt
<1>5. ServerInv'
  <2> USE DEF ServerInv, map
  <2>1. OnePerRun' /\ OneWriter' /\ Kinds'
    BY <1>2 DEF OnePerRun, OneWriter, Kinds, Busy, Writes
  <2>2. Chosen' /\ Judged'
    BY <1>0, <1>2 DEF Chosen, Judged
  <2>3. WorkspaceStands' /\ UidsApart'
    BY <1>0, <1>2 DEF WorkspaceStands, UidsApart
  <2>4. Owned'
    BY <1>0, <1>2 DEF Owned, Releasing
  <2> QED BY <2>1, <2>2, <2>3, <2>4
<1>6. PoolInv'
  BY <1>0, <1>2 DEF PoolInv, Backed, CutOff, Writing, map, spoilt
<1>7. Doomed'
  BY <1>0, <1>2 DEF Doomed, At, shaiden
<1> QED BY <1>4, <1>5, <1>6, <1>7

LEMMA ExecReturnsLemma ==
    ASSUME IInv, NEW q \in Requests, ExecReturns(q)
    PROVE  IInv'
<1> USE DEF IInv
<1> DEFINE r == req[q].run
<1>0. /\ req[q].at = "running" /\ r \in Runs /\ uid[r] \in Uids /\ dir[r] # "none"
      /\ Busy(q)
  BY BusyLemma DEF ExecReturns, ServerInv, WorkspaceStands, Busy, TypeOK
<1>1. /\ procs' \in [Uids -> SUBSET Runs]
      /\ \A v \in Uids : procs'[v] = procs[v] \/ procs'[v] = {}
  BY <1>0, KilledLemma DEF ExecReturns
<1>2. /\ req' \in [Requests -> Request]
      /\ \A p \in Requests : req'[p] # Idle => req'[p].run \in Runs
      /\ sweep' \in [Sweepers -> [at: {"idle", "reading", "waiting"}, list: SUBSET Runs]]
      /\ req'[q] = Idle
      /\ \A p \in Requests : p # q => req'[p] = req[p]
  BY EndsLemma DEF ExecReturns
<1>3. /\ dir' = [dir EXCEPT ![r] = "files"] \/ dir' = dir
      /\ stuck' \in {stuck, stuck \ {r}, stuck \cup {r}}
      /\ UNCHANGED <<shaiden, map, crashes, leaked, outlived>>
  BY DEF ExecReturns
<1>4. TypeOK'
  BY <1>0, <1>1, <1>2, <1>3 DEF TypeOK, shaiden, map, spoilt
<1>5. ServerInv'
  <2>1. \A p \in Runs : dir'[p] # dir[p] => ~\E o \in Requests \ {q} : Busy(o) /\ req[o].run = p
    BY <1>0, <1>3 DEF ServerInv, OnePerRun, TypeOK
  <2>2. \A p \in Runs : dir'[p] = "none" => dir[p] = "none"
    BY <1>0, <1>3 DEF TypeOK
  <2> QED BY <1>0, <1>1, <1>2, <1>3, <2>1, <2>2, OverLemma
<1>6. Doomed'
  BY <1>0, <1>2, <1>3, RequestLemma DEF Doomed, At, shaiden, TypeOK
<1>7. PoolInv'
  BY <1>2, <1>3, PoolLemma, RequestLemma DEF Writes
<1> QED BY <1>4, <1>5, <1>6, <1>7

LEMMA ProcessDiesLemma ==
    ASSUME IInv, NEW u \in Uids, ProcessDies(u)
    PROVE  IInv'
<1> USE DEF IInv
<1>1. procs' \in [Uids -> SUBSET Runs] /\ \A v \in Uids : procs'[v] = procs[v] \/ procs'[v] = {}
  BY DEF ProcessDies, TypeOK
<1>2. TypeOK'
  BY <1>1 DEF ProcessDies, TypeOK, shaiden, map, spoilt
<1>3. ServerInv'
  <2> USE DEF ProcessDies, ServerInv, map
  <2>1. OnePerRun' /\ OneWriter' /\ Kinds' /\ WorkspaceStands' /\ Owned'
    BY DEF OnePerRun, OneWriter, Kinds, Busy, Writes, WorkspaceStands, Owned, Releasing
  <2>2. Chosen'
    BY <1>1 DEF Chosen
  <2>3. Judged'
    BY <1>1, BusyLemma DEF Judged, TypeOK
  <2>4. UidsApart'
    BY <1>1 DEF UidsApart
  <2> QED BY <2>1, <2>2, <2>3, <2>4
<1>4. Doomed'
  BY DEF ProcessDies, Doomed, At, shaiden
<1>5. PoolInv'
  BY PoolLemma DEF ProcessDies, spoilt, Writes
<1> QED BY <1>2, <1>3, <1>4, <1>5

\* What an execution does before it has a uid: the directory is made.
Makes(r) == /\ dir' = [dir EXCEPT ![r] = IF @ = "none" THEN "empty" ELSE @]
            /\ leaked' = leaked \ {r}

LEMMA MakesLemma ==
    ASSUME TypeOK, NEW r \in Runs, Makes(r)
    PROVE  /\ dir' \in [Runs -> {"none", "empty", "files"}]
           /\ dir'[r] # "none"
           /\ \A p \in Runs : dir'[p] = "none" => dir[p] = "none"
           /\ \A p \in Runs : dir[p] # "none" => dir'[p] = dir[p]
           /\ \A p \in Runs : p # r => dir'[p] = dir[p]
           /\ leaked' \subseteq Runs /\ leaked' = leaked \ {r}
BY DEF Makes, TypeOK

\* A call that is over before its script has begun.
LEMMA ExecuteEndsLemma ==
    ASSUME IInv, NEW q \in Requests, req[q].at = "sent", ~Locked(req[q].run),
           Makes(req[q].run), UNCHANGED <<map, procs>>, req'[q] = Idle,
           \A p \in Requests : p # q => req'[p] = req[p]
    PROVE  ServerInv'
<1> DEFINE r == req[q].run
<1>1. r \in Runs
  BY BusyLemma DEF IInv
<1>2. \A p \in Runs : dir'[p] # dir[p] => ~\E o \in Requests \ {q} : Busy(o) /\ req[o].run = p
  BY <1>1, MakesLemma DEF Locked, Busy, IInv
<1>3. \A p \in Runs \ leaked' : p \in leaked => dir'[p] # "none"
  BY <1>1, MakesLemma DEF IInv
<1>4. \A p \in Runs : dir'[p] = "none" => dir[p] = "none"
  BY <1>1, MakesLemma DEF IInv
<1> QED BY <1>2, <1>3, <1>4, OverLemma

LEMMA ExecuteStartsLemma ==
    ASSUME IInv, NEW q \in Requests, req[q].at = "sent", req[q].op = "exec",
           ~Locked(req[q].run), ~Writing, uid[req[q].run] # NoUid,
           Makes(req[q].run), UNCHANGED map, StartProcess(q, uid[req[q].run])
    PROVE  ServerInv'
<1> USE DEF IInv, ServerInv, map
<1> DEFINE r == req[q].run
           u == uid[r]
<1>1. r \in Runs /\ u \in Uids
  BY BusyLemma DEF TypeOK
<1>2. /\ \A p \in Requests : p # q => req'[p] = req[p]
      /\ \A v \in Uids : v # u => procs'[v] = procs[v]
      /\ \/ /\ procs'[u] = procs[u] \cup {r}
            /\ req'[q].at = "running" /\ req'[q].op = "exec" /\ req'[q].run = r
         \/ procs' = procs /\ req'[q] = Idle
  BY <1>1, StartLemma
<1>3. /\ dir'[r] # "none" /\ leaked' = leaked \ {r}
      /\ \A p \in Runs : dir'[p] = "none" => dir[p] = "none"
      /\ \A p \in Runs : dir[p] # "none" => dir'[p] = dir[p]
  BY <1>1, MakesLemma
<1>4. \A p \in Requests : Busy(p) => req[p].run # r /\ ~Writes(p)
  BY DEF Locked, Writing, Busy, Writes
<1>5. CASE procs' = procs /\ req'[q] = Idle
  BY <1>2, <1>5, ExecuteEndsLemma
<1>6. CASE /\ procs'[u] = procs[u] \cup {r}
           /\ req'[q].at = "running" /\ req'[q].op = "exec" /\ req'[q].run = r
  <2>1. OnePerRun' /\ OneWriter' /\ Kinds'
    BY <1>2, <1>4, <1>6 DEF OnePerRun, OneWriter, Kinds, Busy, Writes
  <2>2. Chosen' /\ Judged'
    BY <1>2, <1>4, <1>6 DEF Chosen, Judged, Busy, Writes
  <2>3. WorkspaceStands'
    <3> SUFFICES ASSUME NEW p \in Requests, req'[p].at \in {"assigning", "running"}
                 PROVE  /\ dir'[req'[p].run] # "none"
                        /\ req'[p].at = "running" => uid'[req'[p].run] # NoUid
      BY DEF WorkspaceStands
    <3>1. CASE p = q
      BY <3>1, <1>3, <1>6
    <3>2. CASE p # q
      BY <3>2, <1>2, <1>3, BusyLemma DEF WorkspaceStands
    <3> QED BY <3>1, <3>2
  <2>4. UidsApart'
    <3>1. \A p \in procs[u] : p = r
      BY <1>1 DEF UidsApart, TypeOK
    <3>2. \A v \in Uids : \A p \in procs'[v] :
              procs'[v] = {p} /\ (uid[p] = v \/ v \in held)
      BY <1>2, <1>6, <3>1 DEF UidsApart
    <3> QED BY <3>2 DEF UidsApart
  <2>5. Owned'
    BY <1>2, <1>3, <1>4, <1>6 DEF Owned, Releasing, Busy
  <2> QED BY <2>1, <2>2, <2>3, <2>4, <2>5
<1> QED BY <1>2, <1>5, <1>6

\* What the choice of a uid does to the requests.
LEMMA AssignsLemma ==
    ASSUME TypeOK, NEW q \in Requests, req[q].at = "sent", NEW u \in Uids,
           req' = [req EXCEPT ![q].at = "assigning", ![q].uid = u]
    PROVE  /\ req' \in [Requests -> Request]
           /\ \A p \in Requests : req'[p] # Idle => req'[p].run \in Runs
           /\ \A p \in Requests : p # q => req'[p] = req[p]
           /\ req'[q].at = "assigning" /\ req'[q].op = req[q].op
           /\ req'[q].run = req[q].run /\ req'[q].uid = u
<1>1. req[q].run \in Runs /\ req[q] \in Request
  BY BusyLemma
<1>2. /\ \A p \in Requests : p # q => req'[p] = req[p]
      /\ req'[q].at = "assigning" /\ req'[q].op = req[q].op
      /\ req'[q].run = req[q].run /\ req'[q].uid = u
  BY <1>1 DEF TypeOK, Request
<1>3. req' \in [Requests -> Request]
  BY <1>1 DEF TypeOK, Request, Points
<1> QED BY <1>1, <1>2, <1>3 DEF TypeOK

LEMMA ExecuteAssignsLemma ==
    ASSUME IInv, NEW q \in Requests, req[q].at = "sent", req[q].op = "exec",
           ~Locked(req[q].run), ~Writing, uid[req[q].run] = NoUid,
           NEW u \in Uids, Free(u),
           Makes(req[q].run), UNCHANGED <<map, procs>>,
           \A p \in Requests : p # q => req'[p] = req[p],
           req'[q].at = "assigning", req'[q].op = "exec",
           req'[q].run = req[q].run, req'[q].uid = u
    PROVE  ServerInv'
<1> USE DEF IInv, ServerInv, map
<1> DEFINE r == req[q].run
<1>1. r \in Runs
  BY BusyLemma
<1>3. /\ dir'[r] # "none" /\ leaked' = leaked \ {r}
      /\ \A p \in Runs : dir'[p] = "none" => dir[p] = "none"
      /\ \A p \in Runs : dir[p] # "none" => dir'[p] = dir[p]
  BY <1>1, MakesLemma
<1>4. \A p \in Requests : Busy(p) => req[p].run # r /\ ~Writes(p)
  BY DEF Locked, Writing, Busy, Writes
<1>6. OnePerRun' /\ OneWriter' /\ Kinds'
  BY <1>4 DEF OnePerRun, OneWriter, Kinds, Busy, Writes
<1>7. Chosen' /\ Judged'
  BY <1>4 DEF Chosen, Judged, Busy, Writes, Free
<1>8. WorkspaceStands'
  <2> SUFFICES ASSUME NEW p \in Requests, req'[p].at \in {"assigning", "running"}
               PROVE  /\ dir'[req'[p].run] # "none"
                      /\ req'[p].at = "running" => uid'[req'[p].run] # NoUid
    BY DEF WorkspaceStands
  <2>1. CASE p = q
    BY <2>1, <1>3
  <2>2. CASE p # q
    BY <2>2, <1>3, BusyLemma DEF WorkspaceStands
  <2> QED BY <2>1, <2>2
<1>9. UidsApart'
  BY DEF UidsApart
<1>10. Owned'
  BY <1>3, <1>4 DEF Owned, Releasing, Busy
<1> QED BY <1>6, <1>7, <1>8, <1>9, <1>10

LEMMA ExecuteLemma ==
    ASSUME IInv, NEW q \in Requests, Execute(q)
    PROVE  IInv'
<1> USE DEF IInv
<1> DEFINE r == req[q].run
           Moved == /\ req' \in [Requests -> Request]
                    /\ \A p \in Requests : req'[p] # Idle => req'[p].run \in Runs
                    /\ sweep' \in [Sweepers -> [at: {"idle", "reading", "waiting"},
                                                list: SUBSET Runs]]
                    /\ procs' \in [Uids -> SUBSET Runs]
                    /\ \A p \in Requests : p # q => req'[p] = req[p]
                    /\ ~At(q, "delete", "sent")' /\ req'[q].at # "popping"
<1>1. /\ req[q].at = "sent" /\ req[q].op = "exec" /\ ~Locked(r) /\ Makes(r) /\ r \in Runs
      /\ UNCHANGED map
  BY BusyLemma DEF Execute, At, Makes
<1>2. UNCHANGED <<shaiden, crashes, spoilt>>
  BY DEF Execute
<1>3. ServerInv' /\ Moved
  <2>1. ASSUME NEW ok \in BOOLEAN, UNCHANGED procs, Ends(q, ok)
        PROVE  ServerInv' /\ Moved
    <3>1. /\ req' \in [Requests -> Request]
          /\ \A p \in Requests : req'[p] # Idle => req'[p].run \in Runs
          /\ sweep' \in [Sweepers -> [at: {"idle", "reading", "waiting"}, list: SUBSET Runs]]
          /\ req'[q] = Idle
          /\ \A p \in Requests : p # q => req'[p] = req[p]
      BY <2>1, EndsLemma
    <3>2. Moved
      BY <3>1, <2>1, RequestLemma DEF At, TypeOK
    <3> QED BY <1>1, <2>1, <3>1, <3>2, ExecuteEndsLemma
  <2>2. ASSUME ~Writing, uid[r] # NoUid, StartProcess(q, uid[r])
        PROVE  ServerInv' /\ Moved
    <3>1. uid[r] \in Uids
      BY <1>1, <2>2 DEF TypeOK
    <3>2. /\ req' \in [Requests -> Request]
          /\ \A p \in Requests : req'[p] # Idle => req'[p].run \in Runs
          /\ sweep' \in [Sweepers -> [at: {"idle", "reading", "waiting"}, list: SUBSET Runs]]
          /\ procs' \in [Uids -> SUBSET Runs]
          /\ \A p \in Requests : p # q => req'[p] = req[p]
          /\ req'[q].at = "running" \/ req'[q] = Idle
      BY <1>1, <2>2, <3>1, StartLemma
    <3>3. Moved
      BY <3>2, RequestLemma DEF At
    <3> QED BY <1>1, <2>2, <3>3, ExecuteStartsLemma
  <2>3. ASSUME ~Writing, uid[r] = NoUid, NEW u \in Uids, Free(u), UNCHANGED <<sweep, procs>>,
               req' = [req EXCEPT ![q].at = "assigning", ![q].uid = u]
        PROVE  ServerInv' /\ Moved
    <3>1. /\ req' \in [Requests -> Request]
          /\ \A p \in Requests : req'[p] # Idle => req'[p].run \in Runs
          /\ \A p \in Requests : p # q => req'[p] = req[p]
          /\ req'[q].at = "assigning" /\ req'[q].op = "exec"
          /\ req'[q].run = r /\ req'[q].uid = u
      BY <1>1, <2>3, AssignsLemma
    <3>2. Moved
      BY <3>1, <2>3 DEF At, TypeOK
    <3> QED BY <1>1, <2>3, <3>1, <3>2, ExecuteAssignsLemma
  <2> HIDE DEF Moved
  <2> QED BY <2>1, <2>2, <2>3 DEF Execute
<1>4. TypeOK'
  <2>1. dir' \in [Runs -> {"none", "empty", "files"}] /\ leaked' \subseteq Runs
    BY <1>1, MakesLemma
  <2> QED BY <1>1, <1>2, <1>3, <2>1 DEF TypeOK, shaiden, map, spoilt
<1>5. Doomed'
  BY <1>2, <1>3 DEF Doomed, At, shaiden
<1>6. PoolInv'
  <2>1. UNCHANGED <<map, outlived>>
    BY <1>1, <1>2 DEF spoilt
  <2>2. CASE corrupt
    <3>1. req'[q].at = "idle"
      BY <2>2, RequestLemma DEF Execute, Ends, TypeOK
    <3> QED BY <1>3, <2>1, <3>1, PoolLemma DEF Writes
  <2>3. CASE ~corrupt
    <3>1. req'[q].at # "popping"
      BY <1>3
    <3> QED BY <1>3, <2>1, <2>3, <3>1 DEF PoolInv, Backed, CutOff, map
  <2> QED BY <2>2, <2>3
<1> QED BY <1>3, <1>4, <1>5, <1>6

LEMMA UidAssignedLemma ==
    ASSUME IInv, NEW q \in Requests, UidAssigned(q)
    PROVE  IInv'
<1> USE DEF IInv
<1> DEFINE r == req[q].run
           u == req[q].uid
<1>1. /\ req[q].at = "assigning" /\ r \in Runs /\ u \in Uids /\ u \notin held
      /\ procs[u] = {} /\ uid[r] = NoUid /\ dir[r] # "none" /\ u # NoUid
      /\ \A p \in Runs : uid[p] # u
  BY BusyLemma, NullAssumption
     DEF UidAssigned, ServerInv, Chosen, WorkspaceStands
<1>2. /\ uid' \in [Runs -> Uids \cup {NoUid}] /\ uid'[r] = u
      /\ \A p \in Runs : p # r => uid'[p] = uid[p]
  BY <1>1 DEF UidAssigned, TypeOK
<1>3. /\ UNCHANGED <<shaiden, dir, held, corrupt, crashes, leaked, spoilt>>
      /\ StartProcess(q, u)
  BY DEF UidAssigned
<1>4. /\ req' \in [Requests -> Request]
      /\ \A p \in Requests : req'[p] # Idle => req'[p].run \in Runs
      /\ sweep' \in [Sweepers -> [at: {"idle", "reading", "waiting"}, list: SUBSET Runs]]
      /\ procs' \in [Uids -> SUBSET Runs]
      /\ \A p \in Requests : p # q => req'[p] = req[p]
      /\ \A v \in Uids : v # u => procs'[v] = procs[v]
      /\ procs'[u] \subseteq {r}
      /\ \/ req'[q].at = "running" /\ req'[q].op = req[q].op /\ req'[q].run = r
         \/ req'[q] = Idle
  BY <1>1, <1>3, StartLemma
<1>5. TypeOK'
  BY <1>2, <1>3, <1>4 DEF TypeOK, shaiden, spoilt
<1>6. \A p \in Requests \ {q} : /\ Busy(p) => req[p].run # r
                               /\ ~Writes(p)
  BY <1>1 DEF ServerInv, OnePerRun, OneWriter, Busy, Writes
<1>7. ServerInv'
  <2> USE DEF ServerInv
  <2>1. OnePerRun' /\ OneWriter' /\ Kinds'
    BY <1>1, <1>4, <1>6, RequestLemma DEF OnePerRun, OneWriter, Kinds, Busy, Writes
  <2>2. Chosen' /\ Judged'
    BY <1>4, <1>6, RequestLemma DEF Chosen, Judged, Writes
  <2>3. WorkspaceStands'
    <3> SUFFICES ASSUME NEW p \in Requests, req'[p].at \in {"assigning", "running"}
                 PROVE  /\ dir'[req'[p].run] # "none"
                        /\ req'[p].at = "running" => uid'[req'[p].run] # NoUid
      BY DEF WorkspaceStands
    <3>1. CASE p = q
      BY <3>1, <1>1, <1>2, <1>3, <1>4, RequestLemma
    <3>2. CASE p # q
      <4>1. req'[p] = req[p] /\ req[p].run # r /\ req[p].run \in Runs
        BY <3>2, <1>4, <1>6, BusyLemma DEF Busy
      <4> QED BY <4>1, <1>2, <1>3 DEF WorkspaceStands
    <3> QED BY <3>1, <3>2
  <2>4. UidsApart'
    <3>1. \A o, p \in Runs : uid'[o] # NoUid /\ uid'[o] = uid'[p] => o = p
      BY <1>1, <1>2 DEF UidsApart
    <3>2. \A p \in Runs : uid'[p] \notin held'
      BY <1>1, <1>2, <1>3 DEF UidsApart
    <3>3. ASSUME NEW v \in Uids, NEW p \in procs'[v]
          PROVE  procs'[v] = {p} /\ (uid'[p] = v \/ v \in held')
      <4>1. CASE v = u
        BY <4>1, <3>3, <1>2, <1>4
      <4>2. CASE v # u
        <5>1. procs'[v] = procs[v] /\ p \in Runs
          BY <4>2, <1>4 DEF TypeOK
        <5>2. uid[p] = v => p # r
          BY <1>1, NullAssumption
        <5> QED BY <5>1, <5>2, <1>2, <1>3 DEF UidsApart
      <4> QED BY <4>1, <4>2
    <3> QED BY <3>1, <3>2, <3>3 DEF UidsApart
  <2>5. Owned'
    <3>1. \A p \in Requests : \A o \in Runs : Releasing(p, o) => Releasing(p, o)'
      BY <1>1, <1>4 DEF Releasing
    <3> QED BY <1>1, <1>2, <1>3, <3>1 DEF Owned
  <2> QED BY <2>1, <2>2, <2>3, <2>4, <2>5
<1>8. Doomed'
  <2>1. \A p \in Requests : At(p, "delete", "sent")' => At(p, "delete", "sent") /\ req'[p] = req[p]
    BY <1>4, RequestLemma DEF At
  <2> QED BY <1>3, <2>1 DEF Doomed, shaiden
<1>9. PoolInv'
  <2>1. ~corrupt /\ held' = held /\ corrupt' = corrupt /\ outlived' = outlived
    BY <1>1, <1>3 DEF UidAssigned, PoolInv, CutOff, Writing, spoilt
  <2>2. \A p \in Requests : req'[p].at = "popping" => req'[p] = req[p]
    BY <1>4, RequestLemma
  <2> QED BY <2>1, <2>2 DEF PoolInv, Backed, CutOff
<1> QED BY <1>5, <1>7, <1>8, <1>9

LEMMA UidReleasedLemma ==
    ASSUME IInv, NEW q \in Requests, UidReleased(q)
    PROVE  IInv'
<1> USE DEF IInv
<1> DEFINE r == req[q].run
           u == req[q].uid
<1>1. /\ req[q].at = "popping" /\ r \in Runs /\ u \in Uids \cup {NoUid}
      /\ u = uid[r] \/ (u = NoUid /\ procs[uid[r]] = {})
  BY BusyLemma DEF UidReleased, ServerInv, Judged, Request
<1>2. /\ uid' \in [Runs -> Uids \cup {NoUid}] /\ uid'[r] = NoUid
      /\ \A p \in Runs : p # r => uid'[p] = uid[p]
  BY <1>1 DEF UidReleased, TypeOK
<1>3. /\ UNCHANGED <<shaiden, dir, corrupt, procs, crashes, spoilt>>
      /\ held' = held \cup ({u} \ {NoUid}) /\ leaked' = leaked \ {r}
  BY DEF UidReleased
<1>4. /\ req' \in [Requests -> Request]
      /\ \A p \in Requests : req'[p] # Idle => req'[p].run \in Runs
      /\ sweep' \in [Sweepers -> [at: {"idle", "reading", "waiting"}, list: SUBSET Runs]]
      /\ req'[q] = Idle
      /\ \A p \in Requests : p # q => req'[p] = req[p]
  BY EndsLemma DEF UidReleased
<1>5. TypeOK'
  <2>1. held' \subseteq Uids
    BY <1>1, <1>3 DEF TypeOK
  <2> QED BY <1>2, <1>3, <1>4, <2>1 DEF TypeOK, shaiden, spoilt
<1>6. \A p \in Requests \ {q} : /\ Busy(p) => req[p].run # r
                               /\ ~Writes(p)
  BY <1>1 DEF ServerInv, OnePerRun, OneWriter, Busy, Writes
<1>7. ServerInv'
  <2> USE DEF ServerInv
  <2>1. OnePerRun' /\ OneWriter' /\ Kinds'
    BY <1>4, <1>6, RequestLemma DEF OnePerRun, OneWriter, Kinds, Busy, Writes
  <2>2. Chosen' /\ Judged'
    BY <1>4, <1>6, RequestLemma DEF Chosen, Judged, Writes
  <2>3. WorkspaceStands'
    <3> SUFFICES ASSUME NEW p \in Requests, req'[p].at \in {"assigning", "running"}
                 PROVE  /\ dir'[req'[p].run] # "none"
                        /\ req'[p].at = "running" => uid'[req'[p].run] # NoUid
      BY DEF WorkspaceStands
    <3>1. p # q
      BY <1>4, RequestLemma
    <3>2. req'[p] = req[p] /\ req[p].run # r /\ req[p].run \in Runs
      BY <3>1, <1>4, <1>6, BusyLemma DEF Busy
    <3> QED BY <3>2, <1>2, <1>3 DEF WorkspaceStands
  <2>4. UidsApart'
    <3>1. \A o, p \in Runs : uid'[o] # NoUid /\ uid'[o] = uid'[p] => o = p
      BY <1>2 DEF UidsApart
    <3>2. ASSUME NEW p \in Runs PROVE uid'[p] \notin held'
      <4>1. CASE p = r
        BY <4>1, <1>2, <1>3, NullAssumption DEF TypeOK
      <4>2. CASE p # r
        BY <4>2, <1>1, <1>2, <1>3 DEF UidsApart, TypeOK
      <4> QED BY <4>1, <4>2
    <3>3. ASSUME NEW v \in Uids, NEW p \in procs'[v]
          PROVE  procs'[v] = {p} /\ (uid'[p] = v \/ v \in held')
      <4>1. p \in Runs /\ procs[v] = {p} /\ (uid[p] = v \/ v \in held)
        BY <1>3 DEF UidsApart, TypeOK
      <4>2. p = r /\ uid[p] = v => v \in held'
        BY <4>1, <1>1, <1>3, NullAssumption
      <4> QED BY <4>1, <4>2, <1>2, <1>3
    <3> QED BY <3>1, <3>2, <3>3 DEF UidsApart
  <2>5. Owned'
    <3>1. \A p \in Requests : \A o \in Runs \ {r} : Releasing(p, o) => Releasing(p, o)'
      BY <1>4 DEF Releasing
    <3> QED BY <1>2, <1>3, <3>1 DEF Owned
  <2> QED BY <2>1, <2>2, <2>3, <2>4, <2>5
<1>8. Doomed'
  <2>1. \A p \in Requests : At(p, "delete", "sent")' => At(p, "delete", "sent") /\ req'[p] = req[p]
    BY <1>4, RequestLemma DEF At
  <2> QED BY <1>3, <2>1 DEF Doomed, shaiden
<1>9. PoolInv'
  <2>1. ~corrupt /\ corrupt' = corrupt /\ outlived' = outlived
    BY <1>1, <1>3 DEF UidReleased, PoolInv, CutOff, Writing, spoilt
  <2>2. \A p \in Requests : req'[p].at = "popping" => req'[p] = req[p]
    BY <1>4, RequestLemma
  <2>3. held' \subseteq outlived
    BY <1>1, <1>3 DEF PoolInv, Backed
  <2> QED BY <2>1, <2>2, <2>3 DEF PoolInv, Backed, CutOff
<1> QED BY <1>5, <1>7, <1>8, <1>9

\* A DELETE that goes on: the directory is gone.
LEMMA EmptiedLemma ==
    ASSUME IInv, NEW q \in Requests, req[q].at = "sent", req[q].op = "delete",
           ~Locked(req[q].run), UNCHANGED <<map, leaked>>,
           procs' = procs \/ ~Writing,
           \A v \in Uids : procs'[v] = procs[v] \/ procs'[v] = {},
           dir'[req[q].run] = "none",
           \A p \in Runs : p # req[q].run => dir'[p] = dir[p],
           \A p \in Requests : p # q => req'[p] = req[p],
           req'[q].at = "emptied", req'[q].op = "delete", req'[q].run = req[q].run
    PROVE  ServerInv'
<1> USE DEF IInv, ServerInv, map
<1> DEFINE r == req[q].run
<1>1. r \in Runs
  BY BusyLemma
<1>2. \A p \in Requests : Busy(p) => req[p].run # r
  BY DEF Locked, Busy
<1>3. OnePerRun' /\ OneWriter' /\ Kinds'
  BY <1>2 DEF OnePerRun, OneWriter, Kinds, Busy, Writes
<1>4. Chosen'
  BY DEF Chosen
<1>5. Judged'
  <2>1. CASE procs' = procs
    BY <2>1 DEF Judged
  <2>2. CASE ~Writing
    BY <2>2 DEF Judged, Writing
  <2> QED BY <2>1, <2>2
<1>6. WorkspaceStands'
  <2> SUFFICES ASSUME NEW p \in Requests, req'[p].at \in {"assigning", "running"}
               PROVE  /\ dir'[req'[p].run] # "none"
                      /\ req'[p].at = "running" => uid'[req'[p].run] # NoUid
    BY DEF WorkspaceStands
  <2>1. p # q /\ req'[p] = req[p] /\ req[p].run # r /\ req[p].run \in Runs
    BY <1>2, BusyLemma DEF Busy
  <2> QED BY <2>1 DEF WorkspaceStands
<1>7. UidsApart'
  BY DEF UidsApart
<1>8. Owned'
  <2>1. \A p \in Requests : \A o \in Runs : Releasing(p, o) => Releasing(p, o)'
    BY DEF Releasing
  <2>2. Releasing(q, r)'
    BY DEF Releasing
  <2> QED BY <2>1, <2>2 DEF Owned
<1> QED BY <1>3, <1>4, <1>5, <1>6, <1>7, <1>8

LEMMA EmptyWorkspaceLemma ==
    ASSUME IInv, NEW q \in Requests, EmptyWorkspace(q)
    PROVE  IInv'
<1> USE DEF IInv
<1> DEFINE r == req[q].run
           Moved == /\ req' \in [Requests -> Request]
                    /\ \A p \in Requests : req'[p] # Idle => req'[p].run \in Runs
                    /\ sweep' \in [Sweepers -> [at: {"idle", "reading", "waiting"},
                                                list: SUBSET Runs]]
                    /\ \A p \in Requests : p # q => req'[p] = req[p]
                    /\ req'[q] = Idle \/ (/\ req'[q].at = "emptied" /\ req'[q].op = "delete"
                                          /\ req'[q].run = r)
<1>1. /\ req[q].at = "sent" /\ req[q].op = "delete" /\ ~Locked(r) /\ r \in Runs
      /\ UNCHANGED <<shaiden, map, crashes, leaked, spoilt>>
  BY BusyLemma DEF EmptyWorkspace, At
<1>2. /\ procs' = procs \/ ~Writing
      /\ procs' \in [Uids -> SUBSET Runs]
      /\ \A v \in Uids : procs'[v] = procs[v] \/ procs'[v] = {}
  <2>1. ASSUME uid[r] # NoUid, Killed(uid[r])
        PROVE  /\ procs' \in [Uids -> SUBSET Runs]
               /\ \A v \in Uids : procs'[v] = procs[v] \/ procs'[v] = {}
    <3>1. uid[r] \in Uids
      BY <1>1, <2>1 DEF TypeOK
    <3> QED BY <2>1, <3>1, KilledLemma
  <2>2. procs' = procs \/ (~Writing /\ uid[r] # NoUid /\ Killed(uid[r]))
    BY DEF EmptyWorkspace
  <2> QED BY <2>1, <2>2 DEF TypeOK
<1>3. \/ dir[r] = "none" /\ Goes(q, "emptied") /\ dir' = dir
      \/ Ends(q, FALSE) /\ (dir' = dir \/ dir' = [dir EXCEPT ![r] = "empty"])
      \/ Goes(q, "emptied") /\ dir' = [dir EXCEPT ![r] = "none"]
  BY DEF EmptyWorkspace
<1>4. dir' \in [Runs -> {"none", "empty", "files"}] /\ \A p \in Runs : p # r => dir'[p] = dir[p]
  <2>1. dir' = dir \/ (\E d \in {"none", "empty"} : dir' = [dir EXCEPT ![r] = d])
    BY <1>3
  <2> QED BY <1>1, <2>1 DEF TypeOK
<1>5. ServerInv' /\ Moved
  <2>1. ASSUME Goes(q, "emptied"), dir'[r] = "none"
        PROVE  ServerInv' /\ Moved
    <3>1. "emptied" \in Points /\ req[q].at # "idle"
      BY <1>1 DEF Points
    <3>2. Moved /\ req'[q].at = "emptied" /\ req'[q].op = "delete" /\ req'[q].run = r
      BY <1>1, <2>1, <3>1, GoesLemma
    <3> QED BY <1>1, <1>2, <1>4, <2>1, <3>2, EmptiedLemma
  <2>2. ASSUME Ends(q, FALSE), dir' = dir \/ dir' = [dir EXCEPT ![r] = "empty"]
        PROVE  ServerInv' /\ Moved
    <3>1. Moved /\ req'[q] = Idle
      BY <2>2, EndsLemma
    <3>2. \A p \in Runs : dir'[p] # dir[p] => ~\E o \in Requests \ {q} : Busy(o) /\ req[o].run = p
      BY <1>1, <1>4 DEF Locked, Busy
    <3>3. \A p \in Runs : dir'[p] = "none" => dir[p] = "none"
      BY <1>1, <2>2 DEF TypeOK
    <3>4. \A p \in Runs \ leaked' : p \in leaked => dir'[p] # "none"
      BY <1>1
    <3> HIDE DEF Moved
    <3>5. \A p \in Requests : p # q => req'[p] = req[p]
      BY <3>1 DEF Moved
    <3> QED BY <1>1, <1>2, <3>1, <3>2, <3>3, <3>4, <3>5, OverLemma
  <2>3. dir[r] = "none" /\ dir' = dir => dir'[r] = "none"
    OBVIOUS
  <2>4. dir' = [dir EXCEPT ![r] = "none"] => dir'[r] = "none"
    BY <1>1 DEF TypeOK
  <2> HIDE DEF Moved
  <2> QED BY <1>3, <2>1, <2>2, <2>3, <2>4
<1>6. TypeOK'
  BY <1>1, <1>2, <1>4, <1>5 DEF TypeOK, shaiden, map, spoilt
<1>7. Doomed'
  <2>1. \A p \in Requests : At(p, "delete", "sent")' => At(p, "delete", "sent") /\ req'[p] = req[p]
    BY <1>5, RequestLemma DEF At
  <2> QED BY <1>1, <2>1 DEF Doomed, shaiden
<1>8. PoolInv'
  BY <1>1, <1>5, PoolLemma, RequestLemma DEF EmptyWorkspace, spoilt, Writes
<1> QED BY <1>5, <1>6, <1>7, <1>8

\* The release of a uid is decided: req[q].uid is the one to hold back.
LEMMA DecidesLemma ==
    ASSUME IInv, NEW q \in Requests, req[q].at = "emptied", ~Writing,
           NEW u \in Uids \cup {NoUid},
           req' = [req EXCEPT ![q] = [@ EXCEPT !.at = "popping", !.uid = u]]
    PROVE  /\ req' \in [Requests -> Request]
           /\ \A p \in Requests : req'[p] # Idle => req'[p].run \in Runs
           /\ \A p \in Requests : p # q => req'[p] = req[p]
           /\ req'[q].at = "popping" /\ req'[q].op = "delete"
           /\ req'[q].run = req[q].run /\ req'[q].uid = u
<1>1. req[q].run \in Runs /\ req[q] \in Request /\ req[q].op = "delete"
  BY BusyLemma DEF IInv, ServerInv, Kinds
<1> DEFINE new == [req[q] EXCEPT !.at = "popping", !.uid = u]
<1>2. /\ new \in Request /\ new.at = "popping" /\ new.op = "delete"
      /\ new.run = req[q].run /\ new.uid = u
  BY <1>1 DEF Request, Points
<1>3. req' = [req EXCEPT ![q] = new]
  OBVIOUS
<1> HIDE DEF new
<1>4. /\ req' \in [Requests -> Request] /\ req'[q] = new
      /\ \A p \in Requests : p # q => req'[p] = req[p]
  BY <1>2, <1>3 DEF IInv, TypeOK
<1> QED BY <1>1, <1>2, <1>4 DEF IInv, TypeOK

LEMMA ReleaseUidLemma ==
    ASSUME IInv, NEW q \in Requests, ReleaseUid(q)
    PROVE  IInv'
<1> USE DEF IInv
<1> DEFINE r == req[q].run
           u == IF uid[r] # NoUid /\ procs'[uid[r]] # {} THEN uid[r] ELSE NoUid
           Moved == /\ req' \in [Requests -> Request]
                    /\ \A p \in Requests : req'[p] # Idle => req'[p].run \in Runs
                    /\ sweep' \in [Sweepers -> [at: {"idle", "reading", "waiting"},
                                                list: SUBSET Runs]]
                    /\ procs' \in [Uids -> SUBSET Runs]
                    /\ leaked' = leaked
                    /\ \A p \in Requests : p # q => req'[p] = req[p]
                    /\ req'[q] = Idle \/ req'[q].at = "popping"
<1>1. /\ req[q].at = "emptied" /\ ~Writing /\ r \in Runs /\ req[q].op = "delete"
      /\ uid[r] \in Uids \cup {NoUid}
      /\ UNCHANGED <<shaiden, dir, stuck, map, crashes>>
  BY BusyLemma DEF ReleaseUid, ServerInv, Kinds, TypeOK
<1>2. ServerInv' /\ Moved /\ PoolInv'
  <2>1. ASSUME corrupt, Ends(q, FALSE), UNCHANGED <<procs, leaked, outlived>>
        PROVE  ServerInv' /\ Moved /\ PoolInv'
    <3>1. Moved /\ req'[q] = Idle
      BY <1>1, <2>1, EndsLemma DEF TypeOK
    <3>2. \A p \in Requests : p # q => req'[p] = req[p]
      BY <3>1
    <3>3. uid[r] = NoUid
      BY <1>1, <2>1 DEF PoolInv, CutOff
    <3>4. PoolInv'
      BY <1>1, <2>1, <3>1, PoolLemma, RequestLemma DEF Writes
    <3> HIDE DEF Moved
    <3> QED BY <1>1, <2>1, <3>1, <3>2, <3>3, <3>4, OverLemma
  <2>2. ASSUME ~corrupt, outlived' = outlived \cup {v \in Uids : v = uid[r] /\ procs'[v] # {}},
               req' = [req EXCEPT ![q] = [@ EXCEPT !.at = "popping", !.uid = u]],
               UNCHANGED <<sweep, leaked>>,
               \/ uid[r] = NoUid /\ UNCHANGED procs
               \/ uid[r] # NoUid /\ Killed(uid[r])
        PROVE  ServerInv' /\ Moved /\ PoolInv'
    <3>0. u \in Uids \cup {NoUid}
      BY <1>1
    <3>1. /\ procs' \in [Uids -> SUBSET Runs]
          /\ \A v \in Uids : procs'[v] = procs[v] \/ procs'[v] = {}
      <4>1. CASE uid[r] = NoUid /\ UNCHANGED procs
        BY <4>1 DEF TypeOK
      <4>2. CASE uid[r] # NoUid /\ Killed(uid[r])
        <5>1. uid[r] \in Uids
          BY <1>1, <4>2
        <5> QED BY <4>2, <5>1, KilledLemma
      <4> QED BY <2>2, <4>1, <4>2
    <3>2. u = uid[r] \/ (u = NoUid /\ procs'[uid[r]] = {})
      OBVIOUS
    <3>12. u # NoUid => u \in outlived'
      BY <1>1, <2>2
    <3> HIDE DEF u
    <3>3. /\ req' \in [Requests -> Request]
          /\ \A p \in Requests : req'[p] # Idle => req'[p].run \in Runs
          /\ \A p \in Requests : p # q => req'[p] = req[p]
          /\ req'[q].at = "popping" /\ req'[q].op = "delete"
          /\ req'[q].run = r /\ req'[q].uid = u
      BY <1>1, <2>2, <3>0, DecidesLemma
    <3>4. leaked' = leaked /\ sweep' = sweep
      BY <2>2
    <3>5. Moved
      BY <3>1, <3>3, <3>4 DEF TypeOK
    <3>6. UNCHANGED <<dir, uid, held, corrupt>> /\ ~Writing
      BY <1>1 DEF map
    <3> HIDE DEF Moved
    <3>7. OnePerRun' /\ OneWriter' /\ Kinds'
      BY <1>1, <3>3, <3>6 DEF ServerInv, OnePerRun, OneWriter, Kinds, Busy, Writes, Writing
    <3>8. Chosen' /\ Judged'
      BY <3>2, <3>3, <3>6 DEF Chosen, Judged, Writing
    <3>9. WorkspaceStands'
      BY <3>3, <3>6 DEF ServerInv, WorkspaceStands
    <3>10. UidsApart'
      BY <3>1, <3>6 DEF ServerInv, UidsApart
    <3>11. Owned'
      <4>1. \A p \in Requests : \A o \in Runs : Releasing(p, o) => Releasing(p, o)'
        BY <3>3 DEF Releasing
      <4> QED BY <4>1, <3>4, <3>6 DEF ServerInv, Owned
    <3>13. PoolInv'
      BY <1>1, <2>2, <3>3, <3>6, <3>12 DEF PoolInv, Backed, CutOff
    <3> QED BY <3>5, <3>7, <3>8, <3>9, <3>10, <3>11, <3>13 DEF ServerInv
  <2> HIDE DEF Moved
  <2> QED BY <2>1, <2>2 DEF ReleaseUid
<1> HIDE DEF u
<1>3. TypeOK'
  <2>1. outlived' \subseteq Uids
    BY DEF ReleaseUid, TypeOK
  <2> QED BY <1>1, <1>2, <2>1 DEF TypeOK, shaiden, map
<1>4. Doomed'
  <2>1. \A p \in Requests : At(p, "delete", "sent")' => At(p, "delete", "sent") /\ req'[p] = req[p]
    BY <1>2, RequestLemma DEF At
  <2> QED BY <1>1, <2>1 DEF Doomed, shaiden
<1> QED BY <1>2, <1>3, <1>4

LEMMA CrashLemma == IInv /\ Crash => IInv'
<1> SUFFICES ASSUME IInv, Crash PROVE IInv'
  OBVIOUS
<1> USE DEF IInv
<1>1. \A q \in Requests : req'[q] = Idle /\ req'[q].at = "idle"
  BY RequestLemma DEF Crash
<1>2. \A u \in Uids : procs'[u] = {}
  BY DEF Crash
<1>3. \/ UNCHANGED map
      \/ corrupt' = TRUE /\ uid' = [r \in Runs |-> NoUid] /\ held' = {} /\ leaked' = {}
  BY DEF Crash
<1>4. UNCHANGED <<shaiden, dir, stuck>>
  BY DEF Crash
<1>5. TypeOK'
  <2>1. /\ req' \in [Requests -> Request]
        /\ \A q \in Requests : req'[q] # Idle => req'[q].run \in Runs
    BY <1>1, RequestLemma DEF Crash
  <2>2. sweep' \in [Sweepers -> [at: {"idle", "reading", "waiting"}, list: SUBSET Runs]]
    BY DEF Crash, TypeOK, NoSweep
  <2>3. crashes' \in 0..MaxCrashes
    BY BoundsAssumption DEF Crash, TypeOK
  <2>4. /\ uid' \in [Runs -> Uids \cup {NoUid}] /\ held' \subseteq Uids /\ corrupt' \in BOOLEAN
    BY <1>3 DEF TypeOK, map, spoilt
  <2>5. leaked' \subseteq Runs /\ procs' \in [Uids -> SUBSET Runs] /\ outlived' \subseteq Uids
    BY DEF Crash, TypeOK
  <2> QED BY <1>4, <2>1, <2>2, <2>3, <2>4, <2>5 DEF TypeOK, shaiden, spoilt
<1>6. ServerInv'
  <2>1. OnePerRun' /\ OneWriter' /\ Kinds' /\ Chosen' /\ Judged' /\ WorkspaceStands'
    BY <1>1 DEF OnePerRun, OneWriter, Kinds, Chosen, Judged, WorkspaceStands, Busy, Writes
  <2>2. UidsApart'
    <3>1. CASE UNCHANGED map
      BY <1>2, <3>1 DEF ServerInv, UidsApart, map
    <3>2. CASE uid' = [r \in Runs |-> NoUid] /\ held' = {}
      BY <1>2, <3>2 DEF UidsApart
    <3> QED BY <1>3, <3>1, <3>2
  <2>3. Owned'
    <3>1. CASE Writing
      BY <3>1 DEF Crash, Owned
    <3>2. CASE ~Writing
      <4>1. leaked' = leaked \cup {r \in Runs : uid[r] # NoUid /\ \E q \in Requests : Releasing(q, r)}
        BY <3>2 DEF Crash
      <4>2. uid' = uid /\ dir' = dir
        BY <3>2 DEF Crash, map
      <4> QED BY <4>1, <4>2 DEF ServerInv, Owned
    <3> QED BY <3>1, <3>2
  <2> QED BY <2>1, <2>2, <2>3 DEF ServerInv
<1>7. Doomed'
  BY <1>1, <1>4 DEF Doomed, At, shaiden
<1>8. PoolInv'
  <2>1. CASE Writing
    BY <1>1, <2>1 DEF Crash, PoolInv, Backed, CutOff, Writing
  <2>2. CASE ~Writing
    BY <1>1, <2>2, PoolLemma DEF Crash, Writes
  <2> QED BY <2>1, <2>2
<1> QED BY <1>5, <1>6, <1>7, <1>8

-----------------------------------------------------------------------------
(* The invariant.                                                          *)

LEMMA StutterLemma == IInv /\ UNCHANGED vars => IInv'
BY DEF vars, IInv, TypeOK, ServerInv, PoolInv, Backed, CutOff, Writing, OnePerRun, OneWriter, Kinds, Chosen, Judged,
       WorkspaceStands, UidsApart, Owned, Releasing, Doomed,
       At, Busy, Writes

LEMMA NextLemma == IInv /\ [Next]_vars => IInv'
<1> SUFFICES ASSUME IInv, [Next]_vars PROVE IInv'
  OBVIOUS
<1>1. ASSUME NEW r \in Runs, CompleteRun(r) \/ Continue(r) PROVE IInv'
  BY <1>1, CompleteRunLemma, ContinueLemma
<1>2. ASSUME NEW q \in Requests, NEW r \in Runs, ExecutePython(q, r) PROVE IInv'
  BY <1>2, ExecutePythonLemma
<1>3. ASSUME NEW s \in Sweepers, Sweep(s) PROVE IInv'
  BY <1>3, ListRunsLemma, SweepNextLemma DEF Sweep
<1>4. ASSUME NEW q \in Requests, Serve(q) \/ ExecReturns(q) \/ GivesUp(q) PROVE IInv'
  BY <1>4, RefusedLemma, ExecuteLemma, UidAssignedLemma, ExecReturnsLemma,
     GivesUpLemma, EmptyWorkspaceLemma, ReleaseUidLemma, UidReleasedLemma DEF Serve
<1>5. ASSUME NEW u \in Uids, ProcessDies(u) PROVE IInv'
  BY <1>5, ProcessDiesLemma
<1>6. CASE Crash
  BY <1>6, CrashLemma
<1>7. CASE UNCHANGED vars
  BY <1>7, StutterLemma
<1> QED BY <1>1, <1>2, <1>3, <1>4, <1>5, <1>6, <1>7 DEF Next

\* The invariant holds of every behaviour of the sandbox and what Shaiden sends it.
THEOREM Invariance == Spec => []IInv
BY InitLemma, NextLemma, PTL DEF Spec

\* The state of the sandbox and of its callers always has its types.
THEOREM TypeCorrect == Spec => []TypeOK
<1>1. IInv => TypeOK
  BY DEF IInv
<1> QED BY <1>1, Invariance, PTL

\* assign_uid and release_uid, with their kills that may fail and restarts between any
\* two of their steps, never let two runs have one uid, nor one run's
\* processes live under the uid of another.
THEOREM UidsStayApart == Spec => []UidsApart
<1>1. IInv => UidsApart
  BY DEF IInv, ServerInv
<1> QED BY <1>1, Invariance, PTL

\* No DELETE takes the directory, or the uid, from under an execution: execute and
\* do_DELETE exclude each other by the lock of the run.
THEOREM WorkspaceStandsAlways == Spec => []WorkspaceStands
<1>1. IInv => WorkspaceStands
  BY DEF IInv, ServerInv
<1> QED BY <1>1, Invariance, PTL

\* What a step does to the files of a running run.
LEMMA KeptLemma ==
    ASSUME IInv, [Next]_vars, NEW r \in Runs \ overtaken
    PROVE  KeepsFiles(r)
<1>1. CASE UNCHANGED dir
  BY <1>1 DEF KeepsFiles
<1>2. ASSUME NEW q \in Requests, Execute(q) PROVE KeepsFiles(r)
  BY <1>2 DEF Execute, KeepsFiles, IInv, TypeOK
<1>3. ASSUME NEW q \in Requests, ExecReturns(q) PROVE KeepsFiles(r)
  BY <1>3 DEF ExecReturns, KeepsFiles, IInv, TypeOK
<1>4. ASSUME NEW q \in Requests, EmptyWorkspace(q) PROVE KeepsFiles(r)
  <2>1. CASE req[q].run = r
    BY <1>4, <2>1 DEF EmptyWorkspace, KeepsFiles, IInv, Doomed
  <2>2. CASE req[q].run # r
    <3>1. \E d \in {"none", "empty"} : dir' = dir \/ dir' = [dir EXCEPT ![req[q].run] = d]
      BY <1>4 DEF EmptyWorkspace
    <3> QED BY <2>2, <3>1 DEF KeepsFiles, IInv, TypeOK
  <2> QED BY <2>1, <2>2
<1>5. ASSUME NEW q \in Requests,
             Refused(q) \/ UidAssigned(q) \/ ReleaseUid(q) \/ UidReleased(q) \/ GivesUp(q)
      PROVE  UNCHANGED dir
  BY <1>5 DEF Refused, UidAssigned, ReleaseUid, UidReleased, GivesUp
<1>6. ASSUME NEW s \in Sweepers, Sweep(s) PROVE UNCHANGED dir
  BY <1>6 DEF Sweep, ListRuns, SweepEnds, SweepNext
<1>7. ASSUME \/ \E o \in Runs : CompleteRun(o) \/ Continue(o)
             \/ \E q \in Requests, o \in Runs : ExecutePython(q, o)
             \/ \E u \in Uids : ProcessDies(u)
             \/ Crash
      PROVE  UNCHANGED dir
  BY <1>7 DEF CompleteRun, Continue, ExecutePython, ProcessDies, Crash
<1>8. CASE UNCHANGED vars
  BY <1>8, <1>1 DEF vars
<1> QED BY <1>1, <1>2, <1>3, <1>4, <1>5, <1>6, <1>7, <1>8 DEF Next, Serve

\* The sweep, and the DELETE of a completion, retried or late, take no files of a running
\* run, but for one that was continued while a DELETE was on its way.
THEOREM FilesAreKept == Spec => FilesKept
<1>1. IInv /\ [Next]_vars => [\A r \in Runs \ overtaken : KeepsFiles(r)]_vars
  BY KeptLemma
<1> QED BY <1>1, Invariance, PTL DEF Spec, FilesKept

\* A uid that cannot be given out is that of a run with a workspace, which the sweep, listing
\* directories, finds, or of one whose DELETE is under way or died with the server before
\* release_uid; or it is held back, for good, and a release has found processes under it.
THEOREM UidsAreAccounted == Spec => []UidsAccounted
<1>1. IInv => UidsAccounted
  <2> SUFFICES ASSUME IInv, NEW u \in Uids, ~Free(u)
               PROVE  \/ \E r \in Runs : /\ uid[r] = u
                                         /\ \/ dir[r] # "none" \/ r \in leaked
                                            \/ \E q \in Requests : Releasing(q, r)
                      \/ u \in held /\ u \in outlived
    BY DEF UidsAccounted
  <2>1. u \in held \/ \E r \in Runs : uid[r] = u
    <3>1. ASSUME NEW r \in procs[u] PROVE r \in Runs /\ (uid[r] = u \/ u \in held)
      BY DEF IInv, TypeOK, ServerInv, UidsApart
    <3> QED BY <3>1 DEF Free
  <2>2. CASE u \in held
    BY <2>2 DEF IInv, PoolInv, Backed
  <2>3. CASE \E r \in Runs : uid[r] = u
    BY <2>3, NullAssumption DEF IInv, ServerInv, Owned
  <2> QED BY <2>1, <2>2, <2>3
<1> QED BY <1>1, Invariance, PTL

=============================================================================
