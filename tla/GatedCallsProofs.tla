-------------------------- MODULE GatedCallsProofs --------------------------
(***************************************************************************)
(* Proofs about GatedCalls, for any number of tasks, requests and crashes. *)
(*                                                                         *)
(* That a call is executed at most once is not inductive by itself: what   *)
(* keeps it true is that a request between its claim and its backend call  *)
(* is alone on its task, holds the approval's used mark, and has not sent  *)
(* anything yet (Exclusive).  That an approval row is never created twice  *)
(* rests on Born: a task id in use keeps a row that is not "none", also    *)
(* through the stale rows that requests carry.                             *)
(*                                                                         *)
(* The second part proves what a task tells its agent (RInv): a row, or a  *)
(* row that some request carries, claims the backend only after the call   *)
(* was sent, and a rejection is stored or still carried by the request     *)
(* that is bringing it, because no stale row can make a rejected task      *)
(* live again.                                                             *)
(***************************************************************************)
EXTENDS GatedCalls, TLAPS

Claimed(r) == req[r].pc \in {"check", "execute"}

\* A request about a task holds the id of an existing one.
Bound == \A r \in Handlers :
    /\ req[r].pc \notin {"idle", "gate", "park", "proxy", "remint"}
          => req[r].on \in Tasks
    /\ req[r].pc \in {"finish", "save"} => req[r].buf.status # "none"
    /\ req[r].on \in Tasks => task[req[r].on].status # "none"

Born == \A t \in Tasks :
    task[t].status = "none" => ~task[t].origin /\ approval[t].status = "none"

Exclusive == \A r \in Handlers :
    /\ req[r].pc \in {"markUsed", "check", "execute"}
          => approval[req[r].on].status = "approved"
    /\ Claimed(r) => approval[req[r].on].used /\ executed[req[r].on] = 0
    /\ \A s \in Handlers :
          Claimed(r) /\ Claimed(s) /\ req[r].on = req[s].on => r = s

Once == \A t \in Tasks :
    /\ executed[t] \in {0, 1}
    /\ executed[t] = 1 => approval[t].status = "approved" /\ approval[t].used

IInv == TypeOK /\ Bound /\ Born /\ Exclusive /\ Once

-----------------------------------------------------------------------------
(* What the helpers that move a request do to the table of requests.       *)

\* Goto either ends the request or only changes its next statement.
LEMMA GotoLemma ==
    ASSUME TypeOK, NEW r \in Handlers, NEW p \in PC, Goto(r, p)
    PROVE  /\ req' \in [Handlers -> Request]
           /\ \A s \in Handlers \ {r} : req'[s] = req[s]
           /\ req'[r].pc = p
           /\ req'[r].on = IF p = "idle" THEN NoId ELSE req[r].on
<1> DEFINE row == IF p = "idle" THEN NoRequest
                  ELSE [req[r] EXCEPT !.pc = p, !.buf = NoTask]
<1>1. NoTask \in TaskRow
  BY DEF NoTask, TaskRow, TaskStatus, Results
<1>2. row \in Request /\ row.pc = p
                      /\ row.on = IF p = "idle" THEN NoId ELSE req[r].on
  <2>1. CASE p = "idle"
    BY <2>1, <1>1 DEF NoRequest, Request, PC, Op
  <2>2. CASE p # "idle"
    BY <2>2, <1>1 DEF TypeOK, Request
  <2> QED BY <2>1, <2>2
<1>3. req' = [req EXCEPT ![r] = row]
  BY DEF Goto
<1> QED BY <1>2, <1>3 DEF TypeOK

\* Conclude keeps the task of the request and gives it an outcome to store.
LEMMA ConcludeRow ==
    ASSUME TypeOK, NEW r \in Handlers, NEW o \in Op,
           NEW status \in Terminal, NEW result \in Results,
           Conclude(r, o, status, result)
    PROVE  /\ req' \in [Handlers -> Request]
           /\ \A s \in Handlers \ {r} : req'[s] = req[s]
           /\ req'[r].pc = "finish"
           /\ req'[r].on = req[r].on
           /\ req'[r].op = o
           /\ req'[r].buf = [status |-> status, origin |-> FALSE, result |-> result]
<1> DEFINE out == [status |-> status, origin |-> FALSE, result |-> result]
           row == [req[r] EXCEPT !.pc = "finish", !.op = o, !.buf = out]
<1>1. out \in TaskRow
  BY DEF TaskRow, TaskStatus
<1>2. req' = [req EXCEPT ![r] = row]
  BY DEF Conclude
<1> HIDE DEF out
<1>3. /\ row \in Request /\ row.pc = "finish" /\ row.on = req[r].on
      /\ row.op = o /\ row.buf = out
  BY <1>1 DEF TypeOK, Request, PC
<1> HIDE DEF row
<1>4. /\ req' \in [Handlers -> Request] /\ req'[r] = row
      /\ \A s \in Handlers \ {r} : req'[s] = req[s]
  BY <1>2, <1>3 DEF TypeOK
<1> QED BY <1>3, <1>4 DEF out

\* The part of it that the first invariant needs.
LEMMA ConcludeLemma ==
    ASSUME TypeOK, NEW r \in Handlers, NEW o \in Op,
           NEW status \in Terminal, NEW result \in Results,
           Conclude(r, o, status, result)
    PROVE  /\ req' \in [Handlers -> Request]
           /\ \A s \in Handlers \ {r} : req'[s] = req[s]
           /\ req'[r].pc = "finish"
           /\ req'[r].on = req[r].on
           /\ req'[r].buf.status = status
<1>1. req'[r].buf = [status |-> status, origin |-> FALSE, result |-> result]
  BY ConcludeRow
<1>2. req'[r].buf.status = status
  BY <1>1
<1> QED BY <1>2, ConcludeRow

\* Prepare keeps the task of the request and gives it a row to save.
LEMMA PrepareLemma ==
    ASSUME TypeOK, NEW r \in Handlers, NEW row \in TaskRow, Prepare(r, row)
    PROVE  /\ req' \in [Handlers -> Request]
           /\ \A s \in Handlers \ {r} : req'[s] = req[s]
           /\ req'[r].pc = "save"
           /\ req'[r].on = req[r].on
           /\ req'[r].op = req[r].op
           /\ req'[r].buf = row
BY DEF TypeOK, Prepare, Request, PC

\* Begin binds an idle request to a task.
LEMMA BeginLemma ==
    ASSUME TypeOK, NEW r \in Handlers, NEW p \in PC, NEW o \in Op,
           NEW t \in Tasks, Begin(r, p, o, t)
    PROVE  /\ req' \in [Handlers -> Request]
           /\ \A s \in Handlers \ {r} : req'[s] = req[s]
           /\ req'[r].pc = p
           /\ req'[r].on = t
           /\ req[r].pc = "idle"
BY DEF TypeOK, Begin, Request

-----------------------------------------------------------------------------
(* The invariant holds initially and every step preserves it.              *)

\* The initial state of Torii satisfies the invariant.
LEMMA InitIInv == Init => IInv
<1> SUFFICES ASSUME Init PROVE IInv
  OBVIOUS
<1>1. NoTask \in TaskRow /\ NoApproval \in ApprovalRow /\ NoRequest \in Request
  BY DEF NoTask, TaskRow, TaskStatus, Results, NoApproval, ApprovalRow,
         ApprovalStatus, NoRequest, Request, PC, Op
<1>2. TypeOK
  BY <1>1, CrashAssumption DEF Init, TypeOK, BackendTask
<1>3. Bound /\ Exclusive
  BY NoIdAssumption DEF Init, Bound, Exclusive, Claimed, NoRequest
<1>4. Born /\ Once
  BY DEF Init, Born, Once, NoTask, NoApproval
<1> QED BY <1>2, <1>3, <1>4 DEF IInv

\* A step that only moves one request, to a statement outside the claimed
\* section and about the same task, preserves the invariant.
LEMMA QuietMove ==
    ASSUME IInv, NEW r \in Handlers,
           req' \in [Handlers -> Request],
           \A s \in Handlers \ {r} : req'[s] = req[s],
           req'[r].pc \notin {"markUsed", "check", "execute"},
           req'[r].on \in {req[r].on, NoId},
           req'[r].pc \notin {"idle", "gate", "park", "proxy", "remint"}
              => req'[r].on \in Tasks,
           req'[r].pc \in {"finish", "save"} => req'[r].buf.status # "none"
    PROVE  /\ (UNCHANGED task => Bound')
           /\ (UNCHANGED <<approval, executed>> => Exclusive')
<1>1. ASSUME UNCHANGED task PROVE Bound'
  BY <1>1, NoIdAssumption DEF IInv, Bound
<1>2. ASSUME UNCHANGED <<approval, executed>> PROVE Exclusive'
  BY <1>2 DEF IInv, Exclusive, Claimed
<1> QED BY <1>1, <1>2

\* The same, for a step that leaves the stores and the backend alone.
LEMMA QuietStep ==
    ASSUME IInv, NEW r \in Handlers,
           UNCHANGED <<store, backend>>, crashes' \in 0..MaxCrashes,
           req' \in [Handlers -> Request],
           \A s \in Handlers \ {r} : req'[s] = req[s],
           req'[r].pc \notin {"markUsed", "check", "execute"},
           req'[r].on \in {req[r].on, NoId},
           req'[r].pc \notin {"idle", "gate", "park", "proxy", "remint"}
              => req'[r].on \in Tasks,
           req'[r].pc \in {"finish", "save"} => req'[r].buf.status # "none"
    PROVE  IInv'
<1>1. Bound' /\ Exclusive'
  BY QuietMove DEF store, backend
<1>2. TypeOK'
  BY DEF IInv, TypeOK, store, backend
<1>3. Born' /\ Once'
  BY DEF IInv, Born, Once, store, backend
<1> QED BY <1>1, <1>2, <1>3 DEF IInv

\* Ending a request, or moving it on to an unclaimed statement about its task.
LEMMA QuietGoto ==
    ASSUME IInv, NEW r \in Handlers, NEW p \in PC, Goto(r, p),
           UNCHANGED <<store, backend>>, crashes' \in 0..MaxCrashes,
           p \notin {"markUsed", "check", "execute", "finish", "save"},
           p \in {"idle", "gate", "park", "proxy", "remint"} \/ req[r].on \in Tasks
    PROVE  IInv'
<1>1. TypeOK
  BY DEF IInv
<1> QED BY <1>1, GotoLemma, QuietStep

\* Going on to store an outcome in the task of the request.
LEMMA QuietConclude ==
    ASSUME IInv, NEW r \in Handlers, NEW o \in Op, NEW status \in Terminal,
           NEW result \in Results, Conclude(r, o, status, result),
           UNCHANGED <<store, backend, crashes>>, req[r].on \in Tasks
    PROVE  IInv'
<1>1. TypeOK /\ crashes' \in 0..MaxCrashes
  BY DEF IInv, TypeOK
<1>2. status # "none"
  BY DEF Terminal
<1> QED BY <1>1, <1>2, ConcludeLemma, QuietStep

\* Going on to save an amended copy of the task's row.
LEMMA QuietPrepare ==
    ASSUME IInv, NEW r \in Handlers, NEW row \in TaskRow, Prepare(r, row),
           UNCHANGED <<store, backend, crashes>>, req[r].on \in Tasks,
           row.status # "none"
    PROVE  IInv'
<1>1. TypeOK /\ crashes' \in 0..MaxCrashes
  BY DEF IInv, TypeOK
<1> QED BY <1>1, PrepareLemma, QuietStep

\* A request that only reads the stores, or talks to nobody, preserves the
\* invariant: one step per statement.
LEMMA ReadingStep ==
    ASSUME IInv, NEW r \in Handlers,
           \/ \E c \in Calls : CallTool(r, c)
           \/ \E t \in Tasks : GetTask(r, t) \/ TasksCancel(r, t)
           \/ FindRecentRejection(r)
           \/ ProxyCall(r)
           \/ OutOfIds(r)
           \/ ClaimApprovedExecution(r)
           \/ CheckWorking(r)
           \/ BackendUnavailable(r)
           \/ SyncBackendTask(r)
           \/ PollBackend(r)
           \/ FinishRead(r)
           \/ AttachRead(r)
           \/ RequestCancelRead(r)
           \/ ForwardBackendCancel(r)
           \/ Crash(r)
    PROVE  IInv'
<1> USE DEF IInv
<1>0. TypeOK /\ crashes \in 0..MaxCrashes
  BY DEF TypeOK
<1>a. /\ req[r] \in Request
      /\ req[r].pc \notin {"idle", "gate", "park", "proxy", "remint"}
            => req[r].on \in Tasks /\ task[req[r].on] \in TaskRow
                                 /\ task[req[r].on].status # "none"
  BY <1>0 DEF TypeOK, Bound
<1>b. \A o \in Op : AfterStore(o) \in {"sync", "postCancel", "cancelApproval", "idle"}
  BY DEF AfterStore, Op
<1>1. ASSUME NEW c \in Calls, CallTool(r, c) PROVE IInv'
  <2> DEFINE row == [req[r] EXCEPT !.pc = IF c \in Gated THEN "gate" ELSE "proxy",
                                   !.op = "remint", !.arg = c]
  <2>1. row \in Request /\ row.pc \in {"gate", "proxy"} /\ row.on = req[r].on
    BY <1>a DEF Request, PC, Op
  <2>2. req' = [req EXCEPT ![r] = row] /\ UNCHANGED <<store, backend, crashes>>
    BY <1>1 DEF CallTool
  <2> HIDE DEF row
  <2>3. /\ req' \in [Handlers -> Request] /\ req'[r] = row
        /\ \A s \in Handlers \ {r} : req'[s] = req[s]
    BY <1>0, <2>1, <2>2 DEF TypeOK
  <2> QED BY <1>0, <2>1, <2>2, <2>3, QuietStep
<1>2. ASSUME NEW t \in Tasks, GetTask(r, t) \/ TasksCancel(r, t) PROVE IInv'
  <2>1. /\ task[t].status # "none" /\ UNCHANGED <<store, backend, crashes>>
    BY <1>2 DEF GetTask, TasksCancel, KnownToAgent, Born
  <2>2. \E p \in {"claim", "requestCancel"}, o \in {"execute", "cancel"} : Begin(r, p, o, t)
    BY <1>2 DEF GetTask, TasksCancel
  <2>3. /\ req' \in [Handlers -> Request]
        /\ \A s \in Handlers \ {r} : req'[s] = req[s]
        /\ req'[r].pc \in {"claim", "requestCancel"}
        /\ req'[r].on = t
    BY <1>0, <2>2, BeginLemma DEF PC, Op
  <2>4. TypeOK' /\ Born' /\ Once'
    BY <2>1, <2>3 DEF TypeOK, Born, Once, store, backend
  <2>5. Bound'
    BY <2>1, <2>3 DEF Bound, store
  <2>6. Exclusive'
    BY <2>1, <2>3 DEF Exclusive, Claimed, store, backend
  <2> QED BY <2>4, <2>5, <2>6
<1>3. CASE FindRecentRejection(r) \/ ProxyCall(r) \/ OutOfIds(r)
  <2>1. /\ \E p \in {"idle", "park", "remint"} : Goto(r, p)
        /\ UNCHANGED <<store, backend, crashes>>
    BY <1>3 DEF FindRecentRejection, ProxyCall, OutOfIds
  <2> QED BY <1>0, <2>1, QuietGoto DEF PC
<1>4. CASE ClaimApprovedExecution(r)
  <2> DEFINE p == IF approval[req[r].on].status = "approved" /\ req[r].on \notin expired
                  THEN "markUsed" ELSE "sync"
  <2>1. /\ Goto(r, p) /\ req[r].pc = "claim" /\ req[r].on \in Tasks
        /\ UNCHANGED <<store, backend, crashes>>
    BY <1>4, <1>a DEF ClaimApprovedExecution
  <2>2. /\ req' \in [Handlers -> Request]
        /\ \A s \in Handlers \ {r} : req'[s] = req[s]
        /\ req'[r].pc = p /\ req'[r].on = req[r].on
    BY <1>0, <2>1, GotoLemma DEF PC
  <2>3. TypeOK' /\ Born' /\ Once'
    BY <2>1, <2>2 DEF TypeOK, Born, Once, store, backend
  <2>4. Bound'
    BY <2>1, <2>2 DEF Bound, store
  <2>5. Exclusive'
    BY <2>1, <2>2 DEF Exclusive, Claimed, store, backend
  <2> QED BY <2>3, <2>4, <2>5
<1>5. CASE CheckWorking(r)
  <2>1. /\ \E p \in {"idle", "execute", "sync"} : Goto(r, p)
        /\ req[r].pc = "check" /\ req[r].on \in Tasks
        /\ UNCHANGED <<store, backend, crashes>>
    BY <1>5, <1>a DEF CheckWorking
  <2>2. /\ req' \in [Handlers -> Request]
        /\ \A s \in Handlers \ {r} : req'[s] = req[s]
        /\ \/ req'[r].pc \in {"execute", "sync"} /\ req'[r].on = req[r].on
           \/ req'[r].pc = "idle" /\ req'[r].on = NoId
    BY <1>0, <2>1, GotoLemma DEF PC
  <2>3. TypeOK' /\ Born' /\ Once'
    BY <2>1, <2>2 DEF TypeOK, Born, Once, store, backend
  <2>4. Bound'
    BY <2>1, <2>2, NoIdAssumption DEF Bound, store
  <2>5. Exclusive'
    BY <2>1, <2>2 DEF Exclusive, Claimed, store, backend
  <2> QED BY <2>3, <2>4, <2>5
<1>6. CASE BackendUnavailable(r)
  BY <1>6, <1>a, QuietConclude DEF BackendUnavailable, Op, Terminal, Results
<1>7. CASE SyncBackendTask(r)
  <2>1. CASE Goto(r, "idle")
    BY <1>0, <1>7, <2>1, QuietGoto DEF SyncBackendTask, PC
  <2>2. CASE req' = [req EXCEPT ![r].pc = "poll", ![r].op = "sync"]
    <3> DEFINE row == [req[r] EXCEPT !.pc = "poll", !.op = "sync"]
    <3>0. row \in Request /\ row.pc = "poll" /\ row.on = req[r].on
      BY <1>a DEF Request, PC, Op
    <3>x. req' = [req EXCEPT ![r] = row]
      BY <1>0, <2>2 DEF TypeOK
    <3> HIDE DEF row
    <3>1. /\ req' \in [Handlers -> Request]
          /\ \A s \in Handlers \ {r} : req'[s] = req[s]
          /\ req'[r].pc = "poll" /\ req'[r].on = req[r].on
      BY <1>0, <3>0, <3>x DEF TypeOK
    <3> QED BY <1>0, <1>7, <1>a, <3>1, QuietStep DEF SyncBackendTask
  <2> QED BY <1>7, <2>1, <2>2 DEF SyncBackendTask
<1>8. CASE PollBackend(r)
  <2>1. req[r].on \in Tasks /\ UNCHANGED <<store, backend, crashes>>
    BY <1>8, <1>a DEF PollBackend
  <2>2. CASE \E p \in {"idle", "attach", "requestCancel"} : Goto(r, p)
    BY <1>0, <2>1, <2>2, QuietGoto DEF PC
  <2>3. CASE \E o \in Op, status \in Terminal, result \in Results :
                Conclude(r, o, status, result)
    BY <2>1, <2>3, QuietConclude
  <2> QED BY <1>8, <2>2, <2>3 DEF PollBackend, Op, Terminal, Results
<1>9. CASE FinishRead(r)
  <2>1. /\ req[r].on \in Tasks /\ UNCHANGED <<store, backend, crashes>>
        /\ req[r].buf \in TaskRow /\ req[r].buf.status # "none" /\ req[r].op \in Op
    BY <1>9, <1>a DEF FinishRead, Bound, Request
  <2>2. CASE Goto(r, AfterStore(req[r].op))
    BY <1>0, <1>b, <2>1, <2>2, QuietGoto DEF PC
  <2>3. CASE Prepare(r, [task[req[r].on] EXCEPT !.status = req[r].buf.status,
                                                !.result = req[r].buf.result])
    <3> DEFINE row == [task[req[r].on] EXCEPT !.status = req[r].buf.status,
                                              !.result = req[r].buf.result]
    <3>1. row \in TaskRow /\ row.status # "none"
      BY <1>a, <1>9, <2>1 DEF TaskRow, FinishRead
    <3> HIDE DEF row
    <3> QED BY <2>1, <2>3, <3>1, QuietPrepare DEF row
  <2> QED BY <1>9, <2>2, <2>3 DEF FinishRead
<1>10. CASE AttachRead(r)
  <2>1. /\ req[r].on \in Tasks /\ UNCHANGED <<store, backend, crashes>>
    BY <1>10, <1>a DEF AttachRead
  <2>2. CASE \E p \in {"idle", "postCancel"} : Goto(r, p)
    BY <1>0, <2>1, <2>2, QuietGoto DEF PC
  <2>3. CASE Prepare(r, [task[req[r].on] EXCEPT !.origin = TRUE])
    <3> DEFINE row == [task[req[r].on] EXCEPT !.origin = TRUE]
    <3>1. row \in TaskRow /\ row.status # "none"
      BY <1>a, <1>10, <2>1 DEF TaskRow, AttachRead
    <3> HIDE DEF row
    <3> QED BY <2>1, <2>3, <3>1, QuietPrepare DEF row
  <2> QED BY <1>10, <2>2, <2>3 DEF AttachRead
<1>11. CASE RequestCancelRead(r)
  <2>1. /\ req[r].on \in Tasks /\ req[r].op \in Op /\ UNCHANGED <<store, backend, crashes>>
    BY <1>11, <1>a DEF RequestCancelRead, Request
  <2>2. CASE Goto(r, "idle") \/ Goto(r, AfterStore(req[r].op))
    BY <1>0, <1>b, <2>1, <2>2, QuietGoto DEF PC
  <2>3. CASE Prepare(r, [task[req[r].on] EXCEPT !.status = "cancelled"])
    <3> DEFINE row == [task[req[r].on] EXCEPT !.status = "cancelled"]
    <3>1. row \in TaskRow /\ row.status # "none"
      BY <1>a, <1>11, <2>1 DEF TaskRow, TaskStatus, Terminal, RequestCancelRead
    <3> HIDE DEF row
    <3> QED BY <2>1, <2>3, <3>1, QuietPrepare DEF row
  <2> QED BY <1>11, <2>2, <2>3 DEF RequestCancelRead
<1>12. CASE ForwardBackendCancel(r)
  <2>1. /\ req[r].on \in Tasks /\ UNCHANGED <<store, backend, crashes>>
        /\ \E p \in {"idle", "postCancel"} : Goto(r, p)
    BY <1>12, <1>a DEF ForwardBackendCancel
  <2> QED BY <1>0, <2>1, QuietGoto DEF PC
<1>13. CASE Crash(r)
  <2>1. crashes' \in 0..MaxCrashes
    BY <1>0, <1>13, CrashAssumption DEF Crash
  <2> QED BY <1>13, <2>1, QuietGoto DEF Crash, PC
<1> QED BY <1>1, <1>2, <1>3, <1>4, <1>5, <1>6, <1>7, <1>8, <1>9, <1>10, <1>11,
           <1>12, <1>13

\* A statement that writes a store, or a call that reaches the backend,
\* preserves the invariant: one step per statement.
LEMMA WritingStep ==
    ASSUME IInv, NEW r \in Handlers,
           \/ \E t \in Tasks : \/ InterceptGatedCall(r, t)
                               \/ RemintBackendTask(r, t)
                               \/ Reject(r, t)
                               \/ OperatorCancel(r, t)
           \/ MarkUsed(r)
           \/ ExecuteApprovedTask(r)
           \/ Save(r)
           \/ CancelApproval(r)
           \/ PostBackendCancel(r)
           \/ SuppressParams(r)
    PROVE  IInv'
<1> USE DEF IInv
<1>0. TypeOK /\ crashes \in 0..MaxCrashes
  BY DEF TypeOK
<1>a. /\ req[r] \in Request
      /\ req[r].pc \notin {"idle", "gate", "park", "proxy", "remint"}
            => req[r].on \in Tasks /\ task[req[r].on] \in TaskRow
                                 /\ task[req[r].on].status # "none"
  BY <1>0 DEF TypeOK, Bound
<1>b. \A o \in Op : AfterStore(o) \in {"sync", "postCancel", "cancelApproval", "idle"}
  BY DEF AfterStore, Op
<1>1. ASSUME NEW t \in Tasks, InterceptGatedCall(r, t) PROVE IInv'
  <2>1. /\ task[t].status = "none" /\ approval[t].status = "none"
        /\ task' = [task EXCEPT ![t].status = "working"]
        /\ approval' = [approval EXCEPT ![t] = [status |-> "pending",
                                                used |-> FALSE, call |-> req[r].arg]]
        /\ UNCHANGED <<expired, rejections, backend, crashes>>
        /\ Goto(r, "idle")
    BY <1>1 DEF InterceptGatedCall, Born
  <2>2. /\ req' \in [Handlers -> Request]
        /\ \A s \in Handlers \ {r} : req'[s] = req[s]
        /\ req'[r].pc = "idle" /\ req'[r].on = NoId
    BY <1>0, <2>1, GotoLemma DEF PC
  <2>3. /\ task' \in [Tasks -> TaskRow] /\ task'[t].status = "working"
        /\ \A u \in Tasks \ {t} : task'[u] = task[u]
    BY <1>0, <2>1 DEF TypeOK, TaskRow, TaskStatus
  <2>4. /\ approval' \in [Tasks -> ApprovalRow] /\ approval'[t].status = "pending"
        /\ \A u \in Tasks \ {t} : approval'[u] = approval[u]
    BY <1>0, <1>a, <2>1 DEF TypeOK, ApprovalRow, ApprovalStatus, Request
  <2>5. TypeOK'
    BY <1>0, <2>1, <2>2, <2>3, <2>4 DEF TypeOK, backend
  <2>6. Bound'
    BY <2>2, <2>3, NoIdAssumption DEF Bound
  <2>7. Born' /\ Once'
    BY <2>1, <2>3, <2>4 DEF Born, Once, backend
  <2>8. Exclusive'
    BY <2>1, <2>2, <2>4 DEF Exclusive, Claimed, Bound, backend
  <2> QED BY <2>5, <2>6, <2>7, <2>8
<1>2. ASSUME NEW t \in Tasks, RemintBackendTask(r, t) PROVE IInv'
  <2> DEFINE row == [req[r] EXCEPT !.pc = "attach", !.on = t]
  <2>1. row \in Request /\ row.pc = "attach" /\ row.on = t
    BY <1>a DEF Request, PC
  <2>2. /\ task[t].status = "none" /\ approval[t].status = "none"
        /\ task' = [task EXCEPT ![t].status = "working"]
        /\ btask' = [btask EXCEPT ![t] = "working"]
        /\ UNCHANGED <<approval, expired, rejections, executed, cancelPosted, crashes>>
        /\ req' = [req EXCEPT ![r] = row]
    BY <1>0, <1>2 DEF RemintBackendTask, Born, TypeOK
  <2> HIDE DEF row
  <2>3. /\ req' \in [Handlers -> Request]
        /\ \A s \in Handlers \ {r} : req'[s] = req[s]
        /\ req'[r].pc = "attach" /\ req'[r].on = t
    BY <1>0, <2>1, <2>2 DEF TypeOK
  <2>4. /\ task' \in [Tasks -> TaskRow] /\ task'[t].status = "working"
        /\ \A u \in Tasks \ {t} : task'[u] = task[u]
    BY <1>0, <2>2 DEF TypeOK, TaskRow, TaskStatus
  <2>5. TypeOK'
    BY <1>0, <2>2, <2>3, <2>4 DEF TypeOK, BackendTask
  <2>6. Bound'
    BY <2>3, <2>4 DEF Bound
  <2>7. Born' /\ Once'
    BY <2>2, <2>4 DEF Born, Once
  <2>8. Exclusive'
    BY <2>2, <2>3 DEF Exclusive, Claimed
  <2> QED BY <2>5, <2>6, <2>7, <2>8
<1>3. ASSUME NEW t \in Tasks, Reject(r, t) \/ OperatorCancel(r, t) PROVE IInv'
  <2>1. PICK w \in {"rejected", "cancelled"} :
           /\ approval[t].status = "pending"
           /\ approval' = [approval EXCEPT ![t].status = w]
           /\ UNCHANGED <<task, expired, rejections, backend, crashes>>
           /\ \E p \in {"suppress", "requestCancel"} : Begin(r, p, "decide", t)
    BY <1>3 DEF Reject, OperatorCancel, DecidePending, Decidable
  <2>2. /\ req' \in [Handlers -> Request]
        /\ \A s \in Handlers \ {r} : req'[s] = req[s]
        /\ req'[r].pc \in {"suppress", "requestCancel"} /\ req'[r].on = t
    BY <1>0, <2>1, BeginLemma DEF PC, Op
  <2>3. /\ approval' \in [Tasks -> ApprovalRow] /\ approval'[t].status = w
        /\ \A u \in Tasks \ {t} : approval'[u] = approval[u]
    BY <1>0, <2>1 DEF TypeOK, ApprovalRow, ApprovalStatus
  <2>4. TypeOK'
    BY <1>0, <2>1, <2>2, <2>3 DEF TypeOK, backend
  <2>5. Bound'
    BY <2>1, <2>2 DEF Bound, Born
  <2>6. Born' /\ Once'
    BY <2>1, <2>3 DEF Born, Once, backend
  <2>7. Exclusive'
    BY <2>1, <2>2, <2>3 DEF Exclusive, Claimed, Bound, backend
  <2> QED BY <2>4, <2>5, <2>6, <2>7
<1>4. CASE MarkUsed(r)
  <2> DEFINE p == IF approval[req[r].on].used THEN "sync" ELSE "check"
             t == req[r].on
  <2>1. /\ t \in Tasks /\ req[r].pc = "markUsed" /\ approval[t].status = "approved"
        /\ approval' = [approval EXCEPT ![t].used = TRUE]
        /\ UNCHANGED <<task, expired, rejections, backend, crashes>>
        /\ Goto(r, p)
    BY <1>4, <1>a DEF MarkUsed, Exclusive
  <2>2. /\ req' \in [Handlers -> Request]
        /\ \A s \in Handlers \ {r} : req'[s] = req[s]
        /\ req'[r].pc = p /\ req'[r].on = t
    BY <1>0, <2>1, GotoLemma DEF PC
  <2>3. /\ approval' \in [Tasks -> ApprovalRow] /\ approval'[t].used
        /\ \A u \in Tasks : approval'[u].status = approval[u].status
        /\ \A u \in Tasks \ {t} : approval'[u] = approval[u]
    BY <1>0, <2>1 DEF TypeOK, ApprovalRow
  <2>4. TypeOK'
    BY <1>0, <2>1, <2>2, <2>3 DEF TypeOK, backend
  <2>5. Bound'
    BY <2>1, <2>2 DEF Bound
  <2>6. Born' /\ Once'
    BY <2>1, <2>3 DEF Born, Once, backend
  <2>7. p = "check" => executed[t] = 0
    BY <2>1, <2>2 DEF Once
  <2>8. Exclusive'
    BY <2>1, <2>2, <2>3, <2>7 DEF Exclusive, Claimed, Bound, backend
  <2> QED BY <2>4, <2>5, <2>6, <2>8
<1>5. CASE ExecuteApprovedTask(r)
  <2> DEFINE t == req[r].on
  <2>1. /\ t \in Tasks /\ req[r].pc = "execute" /\ approval[t].status = "approved"
        /\ approval[t].used /\ executed[t] = 0
        /\ executed' = [executed EXCEPT ![t] = 1]
        /\ btask' \in [Tasks -> BackendTask]
        /\ UNCHANGED <<store, cancelPosted, crashes>>
    <3>1. /\ t \in Tasks /\ req[r].pc = "execute" /\ approval[t].status = "approved"
          /\ approval[t].used /\ executed[t] = 0
      BY <1>5, <1>a DEF ExecuteApprovedTask, Exclusive, Claimed
    <3>2. /\ executed' = [executed EXCEPT ![t] = executed[t] + 1]
          /\ UNCHANGED <<store, cancelPosted, crashes>>
          /\ btask' = btask \/ btask' = [btask EXCEPT ![t] = "working"]
      BY <1>5 DEF ExecuteApprovedTask
    <3>3. btask' \in [Tasks -> BackendTask]
      BY <1>0, <3>2 DEF TypeOK, BackendTask
    <3> QED BY <3>1, <3>2, <3>3
  <2>2. /\ req' \in [Handlers -> Request]
        /\ \A s \in Handlers \ {r} : req'[s] = req[s]
        /\ req'[r].pc \in {"finish", "attach"} /\ req'[r].on = t
        /\ req'[r].pc = "finish" => req'[r].buf.status # "none"
    <3>1. CASE Goto(r, "attach")
      BY <1>0, <2>1, <3>1, GotoLemma DEF PC
    <3>2. CASE \E status \in Terminal, result \in Results :
                  Conclude(r, "execute", status, result)
      BY <1>0, <2>1, <3>2, ConcludeLemma DEF Op, Terminal
    <3> QED BY <1>5, <3>1, <3>2 DEF ExecuteApprovedTask, Terminal, Results
  <2>3. /\ executed' \in [Tasks -> Nat] /\ executed'[t] = 1
        /\ \A u \in Tasks \ {t} : executed'[u] = executed[u]
    BY <1>0, <2>1 DEF TypeOK
  <2>4. TypeOK'
    BY <1>0, <2>1, <2>2, <2>3 DEF TypeOK, store
  <2>5. Bound'
    BY <2>1, <2>2 DEF Bound, store
  <2>6. Born' /\ Once'
    BY <2>1, <2>3 DEF Born, Once, store
  <2>7. Exclusive'
    BY <2>1, <2>2, <2>3 DEF Exclusive, Claimed, Bound, store
  <2> QED BY <2>4, <2>5, <2>6, <2>7
<1>6. CASE Save(r)
  <2> DEFINE t == req[r].on
             row == req[r].buf
  <2>1. /\ t \in Tasks /\ row \in TaskRow /\ row.status # "none"
        /\ task' = [task EXCEPT ![t] = row]
        /\ UNCHANGED <<approval, expired, rejections, backend, crashes>>
        /\ \E p \in {"sync", "postCancel", "cancelApproval", "idle"} : Goto(r, p)
    BY <1>6, <1>a, <1>b DEF Save, Request, Bound
  <2>2. /\ req' \in [Handlers -> Request]
        /\ \A s \in Handlers \ {r} : req'[s] = req[s]
        /\ \/ req'[r].pc \in {"sync", "postCancel", "cancelApproval"} /\ req'[r].on = t
           \/ req'[r].pc = "idle" /\ req'[r].on = NoId
    BY <1>0, <2>1, GotoLemma DEF PC
  <2>3. /\ task' \in [Tasks -> TaskRow] /\ task'[t].status # "none"
        /\ \A u \in Tasks \ {t} : task'[u] = task[u]
    BY <1>0, <2>1 DEF TypeOK
  <2>4. TypeOK'
    BY <1>0, <2>1, <2>2, <2>3 DEF TypeOK, backend
  <2>5. Bound'
    BY <2>1, <2>2, <2>3, NoIdAssumption DEF Bound
  <2>6. Born' /\ Once'
    BY <2>1, <2>3 DEF Born, Once, backend
  <2>7. Exclusive'
    BY <2>1, <2>2 DEF Exclusive, Claimed, backend
  <2> QED BY <2>4, <2>5, <2>6, <2>7
<1>7. CASE CancelApproval(r)
  <2> DEFINE t == req[r].on
  <2>1. /\ t \in Tasks /\ req[r].pc = "cancelApproval"
        /\ Goto(r, "forward")
        /\ UNCHANGED <<task, expired, rejections, backend, crashes>>
        /\ \/ approval' = approval
           \/ approval[t].status = "pending"
              /\ approval' = [approval EXCEPT ![t].status = "cancelled"]
    BY <1>7, <1>a DEF CancelApproval, DecidePending, Decidable
  <2>2. /\ req' \in [Handlers -> Request]
        /\ \A s \in Handlers \ {r} : req'[s] = req[s]
        /\ req'[r].pc = "forward" /\ req'[r].on = t
    BY <1>0, <2>1, GotoLemma DEF PC
  <2>3. /\ approval' \in [Tasks -> ApprovalRow]
        /\ \A u \in Tasks : \/ approval'[u] = approval[u]
                            \/ approval[u].status = "pending"
    BY <1>0, <2>1 DEF TypeOK, ApprovalRow, ApprovalStatus
  <2>4. TypeOK'
    BY <1>0, <2>1, <2>2, <2>3 DEF TypeOK, backend
  <2>5. Bound'
    BY <2>1, <2>2 DEF Bound
  <2>6. Born' /\ Once'
    BY <2>1, <2>3 DEF Born, Once, backend
  <2>7. Exclusive'
    BY <2>1, <2>2, <2>3 DEF Exclusive, Claimed, Bound, backend
  <2> QED BY <2>4, <2>5, <2>6, <2>7
<1>8. CASE PostBackendCancel(r)
  <2> DEFINE t == req[r].on
  <2>1. /\ t \in Tasks /\ req[r].pc = "postCancel"
        /\ cancelPosted' \in SUBSET Tasks
        /\ btask' \in [Tasks -> BackendTask]
        /\ UNCHANGED <<store, executed, crashes>>
    BY <1>0, <1>8, <1>a DEF PostBackendCancel, TypeOK, BackendTask, Terminal
  <2>2. /\ req' \in [Handlers -> Request]
        /\ \A s \in Handlers \ {r} : req'[s] = req[s]
        /\ \/ req'[r].pc = "idle" /\ req'[r].on = NoId
           \/ /\ req'[r].pc = "finish" /\ req'[r].on = t
              /\ req'[r].buf.status # "none"
    <3>1. CASE Goto(r, "idle")
      BY <1>0, <3>1, GotoLemma DEF PC
    <3>2. CASE Conclude(r, "execute", "completed", "notice")
      BY <1>0, <3>2, ConcludeLemma DEF Op, Terminal, Results
    <3> QED BY <1>8, <3>1, <3>2 DEF PostBackendCancel
  <2>3. TypeOK'
    BY <1>0, <2>1, <2>2 DEF TypeOK, store
  <2>4. Bound'
    BY <2>1, <2>2, NoIdAssumption DEF Bound, store
  <2>5. Born' /\ Once'
    BY <2>1 DEF Born, Once, store
  <2>6. Exclusive'
    BY <2>1, <2>2 DEF Exclusive, Claimed, store
  <2> QED BY <2>3, <2>4, <2>5, <2>6
<1>9. CASE SuppressParams(r)
  <2> DEFINE t == req[r].on
  <2>1. /\ t \in Tasks /\ req[r].pc = "suppress"
        /\ rejections' = rejections \cup {approval[t].call}
        /\ UNCHANGED <<task, approval, expired, backend, crashes>>
        /\ Conclude(r, "decide", "completed", "denied")
    BY <1>9, <1>a DEF SuppressParams
  <2>2. /\ req' \in [Handlers -> Request]
        /\ \A s \in Handlers \ {r} : req'[s] = req[s]
        /\ req'[r].pc = "finish" /\ req'[r].on = t /\ req'[r].buf.status # "none"
    BY <1>0, <2>1, ConcludeLemma DEF Op, Terminal, Results
  <2>3. approval[t].call \in Calls \cup {NoId}
    BY <1>0, <2>1 DEF TypeOK, ApprovalRow
  <2>4. TypeOK'
    BY <1>0, <2>1, <2>2, <2>3 DEF TypeOK, backend
  <2>5. Bound'
    BY <2>1, <2>2 DEF Bound
  <2>6. Born' /\ Once'
    BY <2>1 DEF Born, Once, backend
  <2>7. Exclusive'
    BY <2>1, <2>2 DEF Exclusive, Claimed, backend
  <2> QED BY <2>4, <2>5, <2>6, <2>7
<1> QED BY <1>1, <1>2, <1>3, <1>4, <1>5, <1>6, <1>7, <1>8, <1>9

\* Operator approval, expiry, pruning and the backend preserve the invariant.
LEMMA EnvironmentStep == ASSUME IInv, Environment PROVE IInv'
<1> USE DEF IInv
<1>1. ASSUME NEW t \in Tasks, Approve(t) PROVE IInv'
  <2>1. /\ approval[t].status = "pending"
        /\ approval' = [approval EXCEPT ![t].status = "approved"]
        /\ UNCHANGED <<task, expired, rejections, backend, crashes, req>>
    BY <1>1 DEF Approve, DecidePending, Decidable
  <2>2. /\ approval' \in [Tasks -> ApprovalRow]
        /\ approval'[t].status = "approved" /\ approval'[t].used = approval[t].used
        /\ \A u \in Tasks \ {t} : approval'[u] = approval[u]
    BY <2>1 DEF TypeOK, ApprovalRow, ApprovalStatus
  <2>3. TypeOK' /\ Bound' /\ Born' /\ Once'
    BY <2>1, <2>2 DEF TypeOK, Bound, Born, Once, backend
  <2>4. Exclusive'
    BY <2>1, <2>2 DEF Exclusive, Claimed, Bound, backend
  <2> QED BY <2>3, <2>4
<1>2. ASSUME NEW t \in Tasks, Expire(t) \/ BackendProgress(t) PROVE IInv'
  <2>1. /\ expired' \in SUBSET Tasks /\ btask' \in [Tasks -> BackendTask]
        /\ UNCHANGED <<task, approval, rejections, executed, cancelPosted, crashes, req>>
    BY <1>2 DEF Expire, BackendProgress, TypeOK, BackendTask, Terminal, store, backend
  <2> QED BY <2>1 DEF TypeOK, Bound, Born, Once, Exclusive, Claimed
<1>3. ASSUME NEW c \in Calls, PruneRejections(c) PROVE IInv'
  BY <1>3 DEF PruneRejections, TypeOK, Bound, Born, Once, Exclusive, Claimed, backend
<1> QED BY <1>1, <1>2, <1>3 DEF Environment

\* A stuttering step preserves the invariant.
LEMMA StutterStep == ASSUME IInv, UNCHANGED vars PROVE IInv'
BY DEF IInv, vars, store, backend, TypeOK, Bound, Born, Once, Exclusive, Claimed

\* The invariant is inductive.
LEMMA NextIInv == IInv /\ [Next]_vars => IInv'
<1> SUFFICES ASSUME IInv, [Next]_vars PROVE IInv'
  OBVIOUS
<1>1. CASE Environment
  BY <1>1, EnvironmentStep
<1>2. ASSUME NEW r \in Handlers, Arrive(r) \/ Step(r) \/ Crash(r) PROVE IInv'
  BY <1>2, ReadingStep, WritingStep DEF Arrive, Step
<1>3. CASE UNCHANGED vars
  BY <1>3, StutterStep
<1> QED BY <1>1, <1>2, <1>3 DEF Next

-----------------------------------------------------------------------------
(* A second invariant: what a row may claim, and who brings a rejection.   *)

\* Sent(t): t remints a backend task of its own, or its call was executed.
Sent(t) == approval[t].status = "none" \/ executed[t] = 1

Claims(row) == row.result = "backend" \/ row.origin

\* A stored row claims nothing before it is born, claims the backend only
\* after the backend was called, and is denied only by a rejection.
Grounded(t) ==
    /\ task[t].status = "none" => task[t] = NoTask
    /\ Claims(task[t]) => Sent(t)
    /\ task[t].result = "denied" => approval[t].status = "rejected"

\* A request that is about to store something, or to learn what to store, is
\* bound by the same.  Whatever it carries is terminal or has an origin, so
\* that a row read before a rejection can never undo it.
Honest(r) ==
    /\ req[r].pc \in {"attach", "poll"} => Sent(req[r].on)
    /\ (req[r].pc \in {"finish", "save"} /\ Claims(req[r].buf)) => Sent(req[r].on)
    /\ req[r].pc = "finish" => req[r].buf.status \in Terminal
    /\ req[r].pc = "save" => req[r].buf.status \in Terminal \/ req[r].buf.origin
    /\ (\/ req[r].pc = "suppress"
        \/ req[r].pc \in {"finish", "save"} /\ req[r].buf.result = "denied")
          => approval[req[r].on].status = "rejected"

\* The reject request for t, from its decision to the end of its save.
Delivers(r, t) ==
    /\ req[r].on = t
    /\ \/ req[r].pc = "suppress"
       \/ req[r].pc \in {"finish", "save"} /\ req[r].op = "decide"

\* A rejected task is terminal, or its reject request is still on its way.
Delivery(t) ==
    (approval[t].status = "rejected" /\ crashes = 0)
        => task[t].status \in Terminal \/ \E r \in Handlers : Delivers(r, t)

Rest == /\ \A t \in Tasks : Grounded(t) /\ Delivery(t)
        /\ \A r \in Handlers : Honest(r)

RInv == IInv /\ Rest

\* The initial state satisfies the second invariant too.
LEMMA InitRInv == Init => RInv
<1> SUFFICES ASSUME Init PROVE Rest
  BY InitIInv DEF RInv
<1>1. \A t \in Tasks : Grounded(t) /\ Delivery(t)
  BY DEF Init, Grounded, Claims, Sent, Delivery, NoTask, NoApproval
<1>2. \A r \in Handlers : Honest(r)
  BY DEF Init, Honest, NoRequest
<1> QED BY <1>1, <1>2 DEF Rest

\* What one request has to show for its step: its own honesty, the rows it
\* wrote, and that it does not drop a rejection it was bringing.
LEMMA RestKept ==
    ASSUME RInv, NEW r \in Handlers,
           \A s \in Handlers \ {r} : req'[s] = req[s],
           Honest(r)', crashes' = 0 => crashes = 0,
           \A t \in Tasks : Grounded(t)',
           \A t \in Tasks : task[t].status # "none"
              => /\ Sent(t) => Sent(t)'
                 /\ approval[t].status = "rejected" => approval'[t].status = "rejected",
           \A t \in Tasks : (approval'[t].status = "rejected" /\ crashes' = 0)
              => \/ task'[t].status \in Terminal
                 \/ Delivers(r, t)'
                 \/ /\ approval[t].status = "rejected" /\ ~Delivers(r, t)
                    /\ task[t].status \in Terminal => task'[t].status \in Terminal
    PROVE  Rest'
<1>1. ASSUME NEW s \in Handlers \ {r} PROVE Honest(s)'
  <2>1. Honest(s) /\ req'[s] = req[s]
    BY DEF RInv, Rest
  <2>2. req[s].pc \in {"attach", "poll", "finish", "save", "suppress"}
          => req[s].on \in Tasks /\ task[req[s].on].status # "none"
    BY DEF RInv, IInv, Bound
  <2>3. req[s].pc \in {"attach", "poll", "finish", "save", "suppress"}
          => /\ Sent(req[s].on) => Sent(req[s].on)'
             /\ approval[req[s].on].status = "rejected"
                  => approval'[req[s].on].status = "rejected"
    BY <2>2
  <2>4. Sent(req[s].on)' <=> (approval'[req[s].on].status = "none" \/ executed'[req[s].on] = 1)
    BY <2>1 DEF Sent
  <2> QED BY <2>1, <2>3, <2>4 DEF Honest, Claims, Sent
<1>2. ASSUME NEW t \in Tasks PROVE Delivery(t)'
  <2> SUFFICES ASSUME approval'[t].status = "rejected", crashes' = 0,
                      task'[t].status \notin Terminal, ~Delivers(r, t)'
               PROVE  \E s \in Handlers : Delivers(s, t)'
    BY DEF Delivery
  <2>1. /\ approval[t].status = "rejected" /\ ~Delivers(r, t)
        /\ task[t].status \notin Terminal /\ crashes = 0
    OBVIOUS
  <2>2. PICK s \in Handlers : Delivers(s, t)
    BY <2>1 DEF RInv, Rest, Delivery
  <2>3. req'[s] = req[s]
    BY <2>1, <2>2
  <2> QED BY <2>2, <2>3 DEF Delivers
<1> QED BY <1>1, <1>2 DEF Rest

\* The same for a step that leaves the tasks, the approvals and the backend's
\* calls alone.
LEMMA RestQuiet ==
    ASSUME RInv, NEW r \in Handlers, UNCHANGED <<task, approval, executed>>,
           \A s \in Handlers \ {r} : req'[s] = req[s],
           Honest(r)', crashes' = 0 => crashes = 0,
           \A t \in Tasks : Delivers(r, t)
              => Delivers(r, t)' \/ task[t].status \in Terminal \/ crashes' # 0
    PROVE  Rest'
<1>1. \A t \in Tasks : Grounded(t)' /\ (Sent(t) => Sent(t)')
  BY DEF RInv, Rest, Grounded, Sent, Claims
<1>2. \A t \in Tasks : (approval'[t].status = "rejected" /\ crashes' = 0)
         => \/ task'[t].status \in Terminal
            \/ Delivers(r, t)'
            \/ /\ approval[t].status = "rejected" /\ ~Delivers(r, t)
               /\ task[t].status \in Terminal => task'[t].status \in Terminal
  OBVIOUS
<1> QED BY <1>1, <1>2, RestKept

\* Ending a request, or moving it to a statement that has nothing to store.
LEMMA RestGoto ==
    ASSUME RInv, NEW r \in Handlers, NEW p \in PC, Goto(r, p),
           UNCHANGED <<task, approval, executed>>, crashes' = 0 => crashes = 0,
           p \notin {"poll", "suppress", "finish", "save"},
           p = "attach" => Sent(req[r].on),
           \/ req[r].pc \notin {"suppress", "finish", "save"}
           \/ task[req[r].on].status \in Terminal
           \/ crashes' # 0
    PROVE  Rest'
<1>1. /\ \A s \in Handlers \ {r} : req'[s] = req[s]
      /\ req'[r].pc = p /\ req'[r].on = IF p = "idle" THEN NoId ELSE req[r].on
  BY GotoLemma DEF RInv, IInv
<1>2. Honest(r)'
  BY <1>1 DEF Honest, Sent
<1>3. \A t \in Tasks : Delivers(r, t)
         => Delivers(r, t)' \/ task[t].status \in Terminal \/ crashes' # 0
  BY DEF Delivers
<1> QED BY <1>1, <1>2, <1>3, RestQuiet

\* Going on to store an outcome that the request may claim.
LEMMA RestConclude ==
    ASSUME RInv, NEW r \in Handlers, NEW o \in Op, NEW status \in Terminal,
           NEW result \in Results, Conclude(r, o, status, result),
           UNCHANGED <<task, approval, executed, crashes>>,
           result = "backend" => Sent(req[r].on),
           result = "denied" => approval[req[r].on].status = "rejected",
           o = "decide" \/ req[r].pc \notin {"suppress", "finish", "save"}
    PROVE  Rest'
<1>1. /\ \A s \in Handlers \ {r} : req'[s] = req[s]
      /\ req'[r].pc = "finish" /\ req'[r].on = req[r].on /\ req'[r].op = o
      /\ req'[r].buf = [status |-> status, origin |-> FALSE, result |-> result]
  BY ConcludeRow DEF RInv, IInv
<1>2. Honest(r)'
  BY <1>1 DEF Honest, Sent, Claims
<1>3. \A t \in Tasks : Delivers(r, t) => Delivers(r, t)'
  BY <1>1 DEF Delivers
<1> QED BY <1>1, <1>2, <1>3, RestQuiet

\* Going on to save an amended copy of a row of which the request may claim
\* what it claims.
LEMMA RestPrepare ==
    ASSUME RInv, NEW r \in Handlers, NEW row \in TaskRow, Prepare(r, row),
           UNCHANGED <<task, approval, executed, crashes>>,
           Claims(row) => Sent(req[r].on),
           row.status \in Terminal \/ row.origin,
           row.result = "denied" => approval[req[r].on].status = "rejected",
           req[r].pc # "suppress"
    PROVE  Rest'
<1>1. /\ \A s \in Handlers \ {r} : req'[s] = req[s]
      /\ req'[r].pc = "save" /\ req'[r].on = req[r].on /\ req'[r].op = req[r].op
      /\ req'[r].buf = row
  BY PrepareLemma DEF RInv, IInv
<1>2. Honest(r)'
  BY <1>1 DEF Honest, Sent, Claims
<1>3. \A t \in Tasks : Delivers(r, t) => Delivers(r, t)'
  BY <1>1 DEF Delivers
<1> QED BY <1>1, <1>2, <1>3, RestQuiet

\* A request that only reads, or that only tells the backend to cancel,
\* preserves the second invariant: one step per statement.
LEMMA ReadingRest ==
    ASSUME RInv, NEW r \in Handlers,
           \/ \E c \in Calls : CallTool(r, c)
           \/ \E t \in Tasks : GetTask(r, t) \/ TasksCancel(r, t)
           \/ FindRecentRejection(r)
           \/ ProxyCall(r)
           \/ OutOfIds(r)
           \/ ClaimApprovedExecution(r)
           \/ CheckWorking(r)
           \/ BackendUnavailable(r)
           \/ SyncBackendTask(r)
           \/ PollBackend(r)
           \/ FinishRead(r)
           \/ AttachRead(r)
           \/ RequestCancelRead(r)
           \/ ForwardBackendCancel(r)
           \/ PostBackendCancel(r)
           \/ SuppressParams(r)
           \/ Crash(r)
    PROVE  Rest'
<1> DEFINE t == req[r].on
<1>0. /\ TypeOK /\ req[r] \in Request /\ Honest(r)
      /\ req[r].pc \notin {"idle", "gate", "park", "proxy", "remint"}
            => t \in Tasks /\ task[t] \in TaskRow
  BY DEF RInv, Rest, IInv, TypeOK, Bound
<1>a. \A o \in Op : AfterStore(o) \in PC \ {"poll", "suppress", "finish", "save", "attach"}
  BY DEF AfterStore, Op, PC
<1>b. t \in Tasks => Grounded(t)
  BY DEF RInv, Rest
<1>1. ASSUME NEW c \in Calls, CallTool(r, c) PROVE Rest'
  <2>1. /\ UNCHANGED <<task, approval, executed, crashes>>
        /\ \A s \in Handlers \ {r} : req'[s] = req[s]
        /\ req'[r].pc \in {"gate", "proxy"} /\ req[r].pc = "idle"
    BY <1>0, <1>1 DEF CallTool, TypeOK, Request, store, backend
  <2>2. Honest(r)' /\ \A u \in Tasks : ~Delivers(r, u)
    BY <2>1 DEF Honest, Delivers
  <2> QED BY <2>1, <2>2, RestQuiet
<1>2. ASSUME NEW u \in Tasks, GetTask(r, u) \/ TasksCancel(r, u) PROVE Rest'
  <2>1. /\ UNCHANGED <<task, approval, executed, crashes>>
        /\ \E p \in {"claim", "requestCancel"}, o \in {"execute", "cancel"} : Begin(r, p, o, u)
    BY <1>2 DEF GetTask, TasksCancel, store, backend
  <2>2. /\ \A s \in Handlers \ {r} : req'[s] = req[s]
        /\ req'[r].pc \in {"claim", "requestCancel"} /\ req[r].pc = "idle"
    BY <1>0, <2>1, BeginLemma DEF PC, Op
  <2>3. Honest(r)' /\ \A v \in Tasks : ~Delivers(r, v)
    BY <2>2 DEF Honest, Delivers
  <2> QED BY <2>1, <2>2, <2>3, RestQuiet
<1>3. ASSUME \/ FindRecentRejection(r) \/ ProxyCall(r) \/ OutOfIds(r)
             \/ ClaimApprovedExecution(r) \/ CheckWorking(r) \/ ForwardBackendCancel(r)
      PROVE  Rest'
  <2>1. /\ UNCHANGED <<task, approval, executed, crashes>>
        /\ req[r].pc \in {"gate", "proxy", "park", "remint", "claim", "check", "forward"}
        /\ \E p \in {"idle", "park", "remint", "markUsed", "sync", "execute", "postCancel"} :
              Goto(r, p)
    BY <1>3 DEF FindRecentRejection, ProxyCall, OutOfIds, ClaimApprovedExecution,
                CheckWorking, ForwardBackendCancel, store, backend
  <2> QED BY <2>1, RestGoto DEF PC
<1>4. ASSUME BackendUnavailable(r) PROVE Rest'
  BY <1>4, RestConclude DEF BackendUnavailable, Op, Terminal, Results, store, backend
<1>5. ASSUME SyncBackendTask(r) PROVE Rest'
  <2>1. UNCHANGED <<task, approval, executed, crashes>> /\ req[r].pc = "sync"
    BY <1>5 DEF SyncBackendTask, store, backend
  <2>2. ASSUME Goto(r, "idle") PROVE Rest'
    BY <2>1, <2>2, RestGoto DEF PC
  <2>3. ASSUME task[t].origin, req' = [req EXCEPT ![r].pc = "poll", ![r].op = "sync"]
        PROVE  Rest'
    <3>1. /\ \A s \in Handlers \ {r} : req'[s] = req[s]
          /\ req'[r].pc = "poll" /\ req'[r].on = t
      BY <1>0, <2>3 DEF TypeOK, Request
    <3>2. Sent(t)
      BY <1>0, <1>b, <2>1, <2>3 DEF Grounded, Claims
    <3>3. Honest(r)' /\ \A v \in Tasks : ~Delivers(r, v)
      BY <2>1, <3>1, <3>2 DEF Honest, Delivers, Sent
    <3> QED BY <2>1, <3>1, <3>3, RestQuiet
  <2> QED BY <1>5, <2>2, <2>3 DEF SyncBackendTask
<1>6. ASSUME PollBackend(r) PROVE Rest'
  <2>1. /\ UNCHANGED <<task, approval, executed, crashes>> /\ req[r].pc = "poll"
        /\ Sent(t)
    BY <1>0, <1>6 DEF PollBackend, Honest, store, backend
  <2>2. ASSUME NEW p \in {"idle", "attach", "requestCancel"}, Goto(r, p) PROVE Rest'
    BY <2>1, <2>2, RestGoto DEF PC
  <2>3. ASSUME NEW o \in Op, NEW status \in Terminal, NEW result \in {"error", "backend", "notice"},
               Conclude(r, o, status, result)
        PROVE  Rest'
    BY <2>1, <2>3, RestConclude DEF Results
  <2> QED BY <1>6, <2>2, <2>3 DEF PollBackend, Op, Terminal
<1>7. ASSUME FinishRead(r) PROVE Rest'
  <2>1. /\ UNCHANGED <<task, approval, executed, crashes>> /\ req[r].pc = "finish"
        /\ t \in Tasks /\ task[t] \in TaskRow /\ req[r].buf \in TaskRow /\ req[r].op \in Op
    BY <1>0, <1>7 DEF FinishRead, Request, store, backend
  <2>2. ASSUME task[t].status \in Terminal, Goto(r, AfterStore(req[r].op)) PROVE Rest'
    BY <1>a, <2>1, <2>2, RestGoto
  <2>3. ASSUME Prepare(r, [task[t] EXCEPT !.status = req[r].buf.status,
                                          !.result = req[r].buf.result])
        PROVE  Rest'
    <3> DEFINE row == [task[t] EXCEPT !.status = req[r].buf.status,
                                      !.result = req[r].buf.result]
    <3>1. /\ row \in TaskRow /\ row.status \in Terminal
          /\ row.result = req[r].buf.result /\ row.origin = task[t].origin
      BY <1>0, <2>1 DEF TaskRow, Honest
    <3>2. Claims(row) => Sent(t)
      BY <1>0, <1>b, <2>1, <3>1 DEF Claims, Honest, Grounded
    <3>3. row.result = "denied" => approval[t].status = "rejected"
      BY <1>0, <2>1, <3>1 DEF Honest
    <3> HIDE DEF row
    <3> QED BY <2>1, <2>3, <3>1, <3>2, <3>3, RestPrepare DEF row
  <2> QED BY <1>7, <2>2, <2>3 DEF FinishRead
<1>8. ASSUME AttachRead(r) PROVE Rest'
  <2>1. /\ UNCHANGED <<task, approval, executed, crashes>> /\ req[r].pc = "attach"
        /\ t \in Tasks /\ task[t] \in TaskRow /\ Sent(t)
    BY <1>0, <1>8 DEF AttachRead, Honest, store, backend
  <2>2. ASSUME NEW p \in {"idle", "postCancel"}, Goto(r, p) PROVE Rest'
    BY <2>1, <2>2, RestGoto DEF PC
  <2>3. ASSUME Prepare(r, [task[t] EXCEPT !.origin = TRUE]) PROVE Rest'
    <3> DEFINE row == [task[t] EXCEPT !.origin = TRUE]
    <3>1. row \in TaskRow /\ row.origin /\ row.result = task[t].result
      BY <2>1 DEF TaskRow
    <3>2. row.result = "denied" => approval[t].status = "rejected"
      BY <1>b, <2>1, <3>1 DEF Grounded
    <3> HIDE DEF row
    <3> QED BY <2>1, <2>3, <3>1, <3>2, RestPrepare DEF row
  <2> QED BY <1>8, <2>2, <2>3 DEF AttachRead
<1>9. ASSUME RequestCancelRead(r) PROVE Rest'
  <2>1. /\ UNCHANGED <<task, approval, executed, crashes>> /\ req[r].pc = "requestCancel"
        /\ t \in Tasks /\ task[t] \in TaskRow /\ req[r].op \in Op
    BY <1>0, <1>9 DEF RequestCancelRead, Request, store, backend
  <2>2. ASSUME Goto(r, "idle") \/ Goto(r, AfterStore(req[r].op)) PROVE Rest'
    BY <1>a, <2>1, <2>2, RestGoto DEF PC
  <2>3. ASSUME Prepare(r, [task[t] EXCEPT !.status = "cancelled"]) PROVE Rest'
    <3> DEFINE row == [task[t] EXCEPT !.status = "cancelled"]
    <3>1. /\ row \in TaskRow /\ row.status \in Terminal
          /\ row.result = task[t].result /\ row.origin = task[t].origin
      BY <2>1 DEF TaskRow, TaskStatus, Terminal
    <3>2. /\ Claims(row) => Sent(t)
          /\ row.result = "denied" => approval[t].status = "rejected"
      BY <1>b, <2>1, <3>1 DEF Grounded, Claims
    <3> HIDE DEF row
    <3> QED BY <2>1, <2>3, <3>1, <3>2, RestPrepare DEF row
  <2> QED BY <1>9, <2>2, <2>3 DEF RequestCancelRead
<1>10. ASSUME PostBackendCancel(r) PROVE Rest'
  <2>1. UNCHANGED <<task, approval, executed, crashes>> /\ req[r].pc = "postCancel"
    BY <1>10 DEF PostBackendCancel, store
  <2>2. ASSUME Goto(r, "idle") PROVE Rest'
    BY <2>1, <2>2, RestGoto DEF PC
  <2>3. ASSUME Conclude(r, "execute", "completed", "notice") PROVE Rest'
    BY <2>1, <2>3, RestConclude DEF Op, Terminal, Results
  <2> QED BY <1>10, <2>2, <2>3 DEF PostBackendCancel
<1>11. ASSUME SuppressParams(r) PROVE Rest'
  <2>1. /\ UNCHANGED <<task, approval, executed, crashes>>
        /\ approval[t].status = "rejected" /\ Conclude(r, "decide", "completed", "denied")
    BY <1>0, <1>11 DEF SuppressParams, Honest, backend
  <2> QED BY <2>1, RestConclude DEF Op, Terminal, Results
<1>12. ASSUME Crash(r) PROVE Rest'
  <2>1. /\ UNCHANGED <<task, approval, executed>> /\ crashes' # 0 /\ Goto(r, "idle")
    BY <1>0, <1>12, CrashAssumption DEF Crash, TypeOK, store, backend
  <2> QED BY <2>1, RestGoto DEF PC
<1> QED BY <1>1, <1>2, <1>3, <1>4, <1>5, <1>6, <1>7, <1>8, <1>9, <1>10, <1>11, <1>12

\* A statement that writes a task, an approval or the backend's calls
\* preserves the second invariant: one step per statement.
LEMMA WritingRest ==
    ASSUME RInv, NEW r \in Handlers,
           \/ \E t \in Tasks : \/ InterceptGatedCall(r, t)
                               \/ RemintBackendTask(r, t)
                               \/ Reject(r, t)
                               \/ OperatorCancel(r, t)
           \/ MarkUsed(r)
           \/ ExecuteApprovedTask(r)
           \/ Save(r)
           \/ CancelApproval(r)
    PROVE  Rest'
<1> DEFINE t == req[r].on
<1>0. /\ TypeOK /\ Born /\ Once /\ req[r] \in Request /\ Honest(r)
      /\ req[r].pc \notin {"idle", "gate", "park", "proxy", "remint"}
            => t \in Tasks /\ task[t].status # "none"
  BY DEF RInv, Rest, IInv, TypeOK, Bound
<1>a. \A u \in Tasks : Grounded(u)
  BY DEF RInv, Rest
<1>b. \A o \in Op : AfterStore(o) \in {"sync", "postCancel", "cancelApproval", "idle"}
  BY DEF AfterStore, Op
<1>1. ASSUME NEW u \in Tasks, InterceptGatedCall(r, u) PROVE Rest'
  <2>1. /\ task[u] = NoTask /\ approval[u].status = "none"
        /\ task' = [task EXCEPT ![u].status = "working"]
        /\ approval' = [approval EXCEPT ![u] = [status |-> "pending",
                                                used |-> FALSE, call |-> req[r].arg]]
        /\ req[r].pc = "park" /\ Goto(r, "idle") /\ UNCHANGED <<executed, crashes>>
    BY <1>0, <1>1, <1>a DEF InterceptGatedCall, Born, Grounded, backend
  <2>2. /\ \A s \in Handlers \ {r} : req'[s] = req[s]
        /\ req'[r].pc = "idle"
    BY <1>0, <2>1, GotoLemma DEF PC
  <2>3. /\ task'[u].status = "working" /\ ~task'[u].origin
        /\ task'[u].result = "none"
        /\ \A v \in Tasks \ {u} : task'[v] = task[v] /\ approval'[v] = approval[v]
        /\ approval'[u].status = "pending"
    <3>1. task'[u] = [task[u] EXCEPT !.status = "working"]
      BY <1>0, <2>1 DEF TypeOK
    <3>2. /\ task'[u].status = "working" /\ ~task'[u].origin
          /\ task'[u].result = "none"
      BY <2>1, <3>1 DEF NoTask
    <3> QED BY <1>0, <2>1, <3>2 DEF TypeOK
  <2>4. Honest(r)' /\ \A v \in Tasks : ~Delivers(r, v)
    BY <2>1, <2>2 DEF Honest, Delivers
  <2>5. \A v \in Tasks : Grounded(v)'
    BY <1>a, <2>1, <2>3 DEF Grounded, Claims, Sent
  <2>6. \A v \in Tasks : task[v].status # "none"
           => /\ Sent(v) => Sent(v)'
              /\ approval[v].status = "rejected" => approval'[v].status = "rejected"
    BY <2>1, <2>3 DEF Sent, NoTask
  <2> QED BY <2>1, <2>2, <2>3, <2>4, <2>5, <2>6, RestKept
<1>2. ASSUME NEW u \in Tasks, RemintBackendTask(r, u) PROVE Rest'
  <2>1. /\ task[u] = NoTask /\ approval[u].status = "none"
        /\ task' = [task EXCEPT ![u].status = "working"]
        /\ req' = [req EXCEPT ![r].pc = "attach", ![r].on = u]
        /\ req[r].pc = "remint" /\ UNCHANGED <<approval, executed, crashes>>
    BY <1>0, <1>2, <1>a DEF RemintBackendTask, Born, Grounded
  <2>2. /\ \A s \in Handlers \ {r} : req'[s] = req[s]
        /\ req'[r].pc = "attach" /\ req'[r].on = u
    BY <1>0, <2>1 DEF TypeOK, Request
  <2>3. /\ task'[u].status = "working" /\ ~task'[u].origin
        /\ task'[u].result = "none"
        /\ \A v \in Tasks \ {u} : task'[v] = task[v]
    <3>1. task'[u] = [task[u] EXCEPT !.status = "working"]
      BY <1>0, <2>1 DEF TypeOK
    <3>2. /\ task'[u].status = "working" /\ ~task'[u].origin
          /\ task'[u].result = "none"
      BY <2>1, <3>1 DEF NoTask
    <3> QED BY <1>0, <2>1, <3>2 DEF TypeOK
  <2>4. Honest(r)' /\ \A v \in Tasks : ~Delivers(r, v)
    BY <2>1, <2>2 DEF Honest, Delivers, Sent
  <2>5. \A v \in Tasks : Grounded(v)'
    BY <1>a, <2>1, <2>3 DEF Grounded, Claims, Sent
  <2>6. \A v \in Tasks : Sent(v) => Sent(v)'
    BY <2>1 DEF Sent
  <2> QED BY <2>1, <2>2, <2>3, <2>4, <2>5, <2>6, RestKept
<1>3. ASSUME NEW u \in Tasks, NEW w \in {"rejected", "cancelled"}, DecidePending(u, w),
             NEW p \in {"suppress", "requestCancel"}, Begin(r, p, "decide", u),
             w = "rejected" <=> p = "suppress", UNCHANGED <<task, executed, crashes>>
      PROVE  Rest'
  <2>1. /\ approval[u].status = "pending" /\ approval'[u].status = w
        /\ \A v \in Tasks \ {u} : approval'[v] = approval[v]
    BY <1>0, <1>3 DEF DecidePending, Decidable, TypeOK, ApprovalRow
  <2>2. /\ \A s \in Handlers \ {r} : req'[s] = req[s]
        /\ req'[r].pc = p /\ req'[r].on = u /\ req[r].pc = "idle"
    BY <1>0, <1>3, BeginLemma DEF PC, Op
  <2>3. Honest(r)' /\ (\A v \in Tasks : ~Delivers(r, v)) /\ (w = "rejected" => Delivers(r, u)')
    BY <1>3, <2>1, <2>2 DEF Honest, Delivers
  <2>4. \A v \in Tasks : Grounded(v)' /\ (Sent(v) => Sent(v)')
    BY <1>3, <1>a, <2>1 DEF Grounded, Claims, Sent
  <2> QED BY <1>3, <2>1, <2>2, <2>3, <2>4, RestKept
<1>4. ASSUME MarkUsed(r) PROVE Rest'
  <2>1. /\ req[r].pc = "markUsed" /\ UNCHANGED <<task, executed, crashes>>
        /\ \E p \in {"sync", "check"} : Goto(r, p)
        /\ \A v \in Tasks : approval'[v].status = approval[v].status
    BY <1>0, <1>4 DEF MarkUsed, TypeOK, ApprovalRow, backend
  <2>2. /\ \A s \in Handlers \ {r} : req'[s] = req[s]
        /\ req'[r].pc \in {"sync", "check"}
    BY <1>0, <2>1, GotoLemma DEF PC
  <2>3. Honest(r)' /\ \A v \in Tasks : ~Delivers(r, v)
    BY <2>1, <2>2 DEF Honest, Delivers
  <2>4. \A v \in Tasks : Grounded(v)' /\ (Sent(v) => Sent(v)')
    BY <1>a, <2>1 DEF Grounded, Claims, Sent
  <2> QED BY <2>1, <2>2, <2>3, <2>4, RestKept
<1>5. ASSUME ExecuteApprovedTask(r) PROVE Rest'
  <2>1. /\ req[r].pc = "execute" /\ t \in Tasks /\ executed[t] = 0
        /\ executed' = [executed EXCEPT ![t] = executed[t] + 1]
        /\ UNCHANGED <<task, approval, crashes>>
    BY <1>0, <1>5 DEF ExecuteApprovedTask, RInv, IInv, Exclusive, Claimed, store
  <2>2. /\ executed'[t] = 1
        /\ \A v \in Tasks \ {t} : executed'[v] = executed[v]
    BY <1>0, <2>1 DEF TypeOK
  <2>3. (\A s \in Handlers \ {r} : req'[s] = req[s]) /\ Honest(r)'
    <3>1. ASSUME Goto(r, "attach")
          PROVE  (\A s \in Handlers \ {r} : req'[s] = req[s]) /\ Honest(r)'
      <4>1. /\ \A s \in Handlers \ {r} : req'[s] = req[s]
            /\ req'[r].pc = "attach" /\ req'[r].on = t
        BY <1>0, <3>1, GotoLemma DEF PC
      <4> QED BY <2>2, <4>1 DEF Honest, Sent
    <3>2. ASSUME NEW status \in Terminal, NEW result \in {"backend", "notice", "error"},
                 Conclude(r, "execute", status, result)
          PROVE  (\A s \in Handlers \ {r} : req'[s] = req[s]) /\ Honest(r)'
      <4>1. /\ \A s \in Handlers \ {r} : req'[s] = req[s]
            /\ req'[r].pc = "finish" /\ req'[r].on = t
            /\ req'[r].buf = [status |-> status, origin |-> FALSE, result |-> result]
        <5>1. result \in Results /\ "execute" \in Op
          BY DEF Op, Results
        <5> QED BY <1>0, <3>2, <5>1, ConcludeRow
      <4> QED BY <2>2, <4>1 DEF Honest, Sent, Claims
    <3> QED BY <1>5, <3>1, <3>2 DEF ExecuteApprovedTask, Terminal
  <2>4. \A v \in Tasks : Sent(v) => Sent(v)'
    BY <2>1, <2>2 DEF Sent
  <2>5. \A v \in Tasks : Grounded(v)'
    BY <1>a, <2>1, <2>4 DEF Grounded, Claims
  <2>6. \A v \in Tasks : ~Delivers(r, v)
    BY <2>1 DEF Delivers
  <2> QED BY <2>1, <2>3, <2>4, <2>5, <2>6, RestKept
<1>6. ASSUME Save(r) PROVE Rest'
  <2>1. /\ req[r].pc = "save" /\ t \in Tasks /\ req[r].op \in Op
        /\ task' = [task EXCEPT ![t] = req[r].buf] /\ req[r].buf.status # "none"
        /\ Goto(r, AfterStore(req[r].op)) /\ UNCHANGED <<approval, executed, crashes>>
    BY <1>0, <1>6 DEF Save, Request, RInv, IInv, Bound, backend
  <2>2. /\ task'[t] = req[r].buf
        /\ \A v \in Tasks \ {t} : task'[v] = task[v]
    BY <1>0, <2>1 DEF TypeOK
  <2>3. /\ \A s \in Handlers \ {r} : req'[s] = req[s]
        /\ req'[r].pc \in {"sync", "postCancel", "cancelApproval", "idle"}
    BY <1>0, <1>b, <2>1, GotoLemma DEF PC
  <2>4. Honest(r)'
    BY <2>3 DEF Honest
  <2>5. \A v \in Tasks : Sent(v) => Sent(v)'
    BY <2>1 DEF Sent
  <2>6. \A v \in Tasks : Grounded(v)'
    BY <1>0, <1>a, <2>1, <2>2 DEF Grounded, Claims, Sent, Honest
  <2>7. approval[t].status = "rejected" => task'[t].status \in Terminal
    BY <1>0, <2>1, <2>2 DEF Honest, Claims, Sent, Once
  <2>8. \A v \in Tasks \ {t} : ~Delivers(r, v)
    BY DEF Delivers
  <2> QED BY <2>1, <2>2, <2>3, <2>4, <2>5, <2>6, <2>7, <2>8, RestKept
<1>7. ASSUME CancelApproval(r) PROVE Rest'
  <2>1. /\ req[r].pc = "cancelApproval" /\ Goto(r, "forward") /\ t \in Tasks
        /\ UNCHANGED <<task, executed, crashes>>
        /\ \A v \in Tasks : \/ approval'[v] = approval[v]
                            \/ approval[v].status = "pending" /\ approval'[v].status = "cancelled"
    BY <1>0, <1>7 DEF CancelApproval, DecidePending, Decidable, TypeOK, ApprovalRow, backend
  <2>2. /\ \A s \in Handlers \ {r} : req'[s] = req[s]
        /\ req'[r].pc = "forward"
    BY <1>0, <2>1, GotoLemma DEF PC
  <2>3. Honest(r)' /\ \A v \in Tasks : ~Delivers(r, v)
    BY <2>1, <2>2 DEF Honest, Delivers
  <2>4. \A v \in Tasks : Grounded(v)' /\ (Sent(v) => Sent(v)')
    BY <1>a, <2>1 DEF Grounded, Claims, Sent
  <2> QED BY <2>1, <2>2, <2>3, <2>4, RestKept
<1>8. ASSUME NEW u \in Tasks, Reject(r, u) \/ OperatorCancel(r, u) PROVE Rest'
  BY <1>3, <1>8 DEF Reject, OperatorCancel, backend
<1> QED BY <1>1, <1>2, <1>4, <1>5, <1>6, <1>7, <1>8

\* The operator's approval, time and the backend preserve it, and so does
\* stuttering.
LEMMA EnvironmentRest == ASSUME RInv, Environment \/ UNCHANGED vars PROVE Rest'
<1>1. ASSUME UNCHANGED <<task, executed, crashes, req>>,
             \A t \in Tasks : \/ approval'[t] = approval[t]
                              \/ /\ approval[t].status = "pending"
                                 /\ approval'[t].status = "approved"
      PROVE  Rest'
  <2>1. \A t \in Tasks : Grounded(t)' /\ (Sent(t) => Sent(t)')
    BY <1>1 DEF RInv, Rest, Grounded, Claims, Sent
  <2>2. \A t \in Tasks : Delivery(t)'
    BY <1>1 DEF RInv, Rest, Delivery, Delivers
  <2>3. ASSUME NEW r \in Handlers PROVE Honest(r)'
    <3>1. /\ Honest(r) /\ req'[r] = req[r]
          /\ req[r].pc \in {"attach", "poll", "finish", "save", "suppress"} => req[r].on \in Tasks
      BY <1>1 DEF RInv, Rest, IInv, Bound
    <3>2. Sent(req[r].on)' <=> (approval'[req[r].on].status = "none" \/ executed'[req[r].on] = 1)
      BY <3>1 DEF Sent
    <3> QED BY <1>1, <3>1, <3>2 DEF Honest, Claims, Sent
  <2> QED BY <2>1, <2>2, <2>3 DEF Rest
<1>2. ASSUME NEW t \in Tasks, Approve(t) PROVE Rest'
  <2>1. \A u \in Tasks : \/ approval'[u] = approval[u]
                         \/ /\ approval[u].status = "pending"
                            /\ approval'[u].status = "approved"
    BY <1>2 DEF Approve, DecidePending, Decidable, RInv, IInv, TypeOK, ApprovalRow
  <2> QED BY <1>1, <1>2, <2>1 DEF Approve, backend
<1>3. ASSUME NEW t \in Tasks, Expire(t) \/ BackendProgress(t) PROVE Rest'
  BY <1>1, <1>3 DEF Expire, BackendProgress, store, backend
<1>4. ASSUME NEW c \in Calls, PruneRejections(c) PROVE Rest'
  BY <1>1, <1>4 DEF PruneRejections, backend
<1>5. CASE UNCHANGED vars
  BY <1>1, <1>5 DEF vars, store, backend
<1> QED BY <1>2, <1>3, <1>4, <1>5 DEF Environment

\* The second invariant is inductive.
LEMMA NextRInv == RInv /\ [Next]_vars => RInv'
<1> SUFFICES ASSUME RInv, [Next]_vars PROVE Rest'
  BY NextIInv DEF RInv
<1>1. CASE Environment \/ UNCHANGED vars
  BY <1>1, EnvironmentRest
<1>2. ASSUME NEW r \in Handlers, Arrive(r) \/ Step(r) \/ Crash(r) PROVE Rest'
  BY <1>2, ReadingRest, WritingRest DEF Arrive, Step
<1> QED BY <1>1, <1>2 DEF Next

-----------------------------------------------------------------------------
(* What follows.                                                           *)

\* The invariant holds in every reachable state of Torii's gated calls.
THEOREM Invariance == Spec => []IInv
BY InitIInv, NextIInv, PTL DEF Spec

\* The tables, the requests and the backend keep their types (TypeOK).
THEOREM TypeCorrect == Spec => []TypeOK
<1>1. IInv => TypeOK
  BY DEF IInv
<1> QED BY <1>1, Invariance, PTL

\* Whatever the number of polls and crashes, the backend executes a gated call
\* at most once, and only when it was approved (executeApprovedTask, markUsed).
THEOREM ExecutesOnce == Spec => []ExecutedOnceApproved
<1>1. IInv => ExecutedOnceApproved
  <2> SUFFICES ASSUME IInv, NEW t \in Tasks
               PROVE  /\ executed[t] <= 1
                      /\ executed[t] > 0 => approval[t].status = "approved"
    BY DEF ExecutedOnceApproved
  <2>1. \/ executed[t] = 0
        \/ executed[t] = 1 /\ approval[t].status = "approved"
    BY DEF IInv, Once
  <2> QED BY <2>1
<1> QED BY <1>1, Invariance, PTL

\* The second invariant holds in every reachable state: rows claim only what
\* happened, and a rejection is stored or on its way.
THEOREM OutcomeInvariance == Spec => []RInv
BY InitRInv, NextRInv, PTL DEF Spec

\* A gated task shows a result of the backend, or follows a backend task, only
\* when the backend was called for this very approval
\* (executeApprovedTask, syncBackendOriginatedTask).
THEOREM ResultsWereExecuted == Spec => []ResultsAreExecuted
<1>1. RInv => ResultsAreExecuted
  BY DEF RInv, Rest, Grounded, Claims, Sent, ResultsAreExecuted
<1> QED BY <1>1, OutcomeInvariance, PTL

\* Without a crash a rejection ends up in the task whatever ran beside it, and
\* nothing else reads as one (approvals-api.controller.ts reject, finish).
THEOREM RejectionsArrive == Spec => []RejectionReachesAgent
<1>1. RInv => RejectionReachesAgent
  <2> SUFFICES ASSUME RInv, NEW t \in Tasks
               PROVE  /\ task[t].result = "denied" => approval[t].status = "rejected"
                      /\ (approval[t].status = "rejected" /\ Idle(t) /\ crashes = 0)
                            => task[t].status \in Terminal
    BY DEF RejectionReachesAgent
  <2>1. Grounded(t) /\ Delivery(t)
    BY DEF RInv, Rest
  <2>2. Idle(t) => \A r \in Handlers : ~Delivers(r, t)
    BY DEF Idle, Delivers
  <2> QED BY <2>1, <2>2 DEF Grounded, Delivery
<1> QED BY <1>1, OutcomeInvariance, PTL

-----------------------------------------------------------------------------
(* The refinement: every step decides, sends, or does neither.             *)

\* One decision changes, all others and the backend's counts stay.
LEMMA DecideLemma ==
    ASSUME TypeOK, NEW t \in Tasks, NEW from, NEW to,
           Decision(approval[t].status) = from, Decision(approval'[t].status) = to,
           \A u \in Tasks \ {t} : approval'[u] = approval[u],
           UNCHANGED executed
    PROVE  Promise!Decide(t, from, to)
BY DEF Promise!Decide, DecisionMap

\* A step of Torii is a step of ApprovedCall under the mapping, or a stutter.
LEMMA StepRefines == IInv /\ [Next]_vars => [Promise!ANext]_(Promise!avars)
<1> SUFFICES ASSUME IInv, [Next]_vars
             PROVE  Promise!ANext \/ UNCHANGED Promise!avars
  OBVIOUS
<1>0. TypeOK /\ Born /\ Exclusive /\ Bound
  BY DEF IInv
<1>a. ASSUME UNCHANGED <<approval, executed>> PROVE UNCHANGED Promise!avars
  BY <1>a DEF Promise!avars, DecisionMap
<1>1. ASSUME NEW t \in Tasks, Decidable(t), UNCHANGED executed,
             NEW w \in {"approved", "rejected", "cancelled"},
             DecidePending(t, w)
      PROVE  Promise!ANext
  <2>1. /\ approval[t].status = "pending" /\ approval'[t].status = w
        /\ \A u \in Tasks \ {t} : approval'[u] = approval[u]
    BY <1>0, <1>1 DEF DecidePending, Decidable, TypeOK, ApprovalRow
  <2>2. Decision("pending") = "awaiting" /\ Decision(w) \in {"approved", "refused"}
    BY DEF Decision
  <2>3. Promise!Decide(t, "awaiting", Decision(w))
    BY <1>0, <1>1, <2>1, <2>2, DecideLemma
  <2> QED BY <2>2, <2>3 DEF Promise!ANext, Promise!Approve, Promise!Refuse
<1>2. ASSUME NEW t \in Tasks, NEW r \in Handlers, InterceptGatedCall(r, t)
      PROVE  Promise!ANext
  <2>1. /\ approval[t].status = "none" /\ approval'[t].status = "pending"
        /\ \A u \in Tasks \ {t} : approval'[u] = approval[u]
        /\ UNCHANGED executed
    BY <1>0, <1>2 DEF InterceptGatedCall, Born, TypeOK, backend
  <2>2. Decision("none") = "unborn" /\ Decision("pending") = "awaiting"
    BY DEF Decision
  <2>3. Promise!Decide(t, "unborn", "awaiting")
    BY <1>0, <2>1, <2>2, DecideLemma
  <2> QED BY <2>3 DEF Promise!ANext, Promise!Park
<1>3. ASSUME NEW r \in Handlers, ExecuteApprovedTask(r) PROVE Promise!ANext
  <2> DEFINE t == req[r].on
  <2>1. /\ t \in Tasks /\ approval[t].status = "approved" /\ executed[t] = 0
        /\ executed' = [executed EXCEPT ![t] = executed[t] + 1]
        /\ UNCHANGED approval
    BY <1>0, <1>3 DEF ExecuteApprovedTask, Exclusive, Claimed, Bound, store
  <2>2. DecisionMap[t] = "approved" /\ UNCHANGED DecisionMap
    BY <2>1 DEF DecisionMap, Decision
  <2>3. executed' = [executed EXCEPT ![t] = 1]
    BY <2>1
  <2> QED BY <2>1, <2>2, <2>3 DEF Promise!ANext, Promise!Send
<1>4. ASSUME NEW r \in Handlers, MarkUsed(r) PROVE UNCHANGED Promise!avars
  <2>1. UNCHANGED executed /\ \A t \in Tasks : approval'[t].status = approval[t].status
    BY <1>0, <1>4 DEF MarkUsed, TypeOK, ApprovalRow, backend
  <2> QED BY <2>1 DEF Promise!avars, DecisionMap
<1>5. CASE Environment
  <2>1. ASSUME NEW t \in Tasks, Approve(t) PROVE Promise!ANext
    BY <1>1, <2>1 DEF Approve, DecidePending, backend
  <2>2. ASSUME NEW t \in Tasks, Expire(t) \/ BackendProgress(t)
        PROVE  UNCHANGED <<approval, executed>>
    BY <2>2 DEF Expire, BackendProgress, store, backend
  <2>3. ASSUME NEW c \in Calls, PruneRejections(c) PROVE UNCHANGED <<approval, executed>>
    BY <2>3 DEF PruneRejections, backend
  <2> QED BY <1>5, <1>a, <2>1, <2>2, <2>3 DEF Environment
<1>6. ASSUME NEW r \in Handlers, Arrive(r) \/ Crash(r)
      PROVE  Promise!ANext \/ UNCHANGED Promise!avars
  <2>1. ASSUME NEW t \in Tasks, Reject(r, t) \/ OperatorCancel(r, t)
        PROVE  Promise!ANext
    BY <1>1, <2>1 DEF Reject, OperatorCancel, DecidePending, backend
  <2>2. ASSUME NEW t \in Tasks, GetTask(r, t) \/ TasksCancel(r, t)
        PROVE  UNCHANGED <<approval, executed>>
    BY <2>2 DEF GetTask, TasksCancel, store, backend
  <2>3. ASSUME Crash(r) \/ \E c \in Calls : CallTool(r, c)
        PROVE  UNCHANGED <<approval, executed>>
    BY <2>3 DEF Crash, CallTool, store, backend
  <2> QED BY <1>6, <1>a, <2>1, <2>2, <2>3 DEF Arrive
<1>7. ASSUME NEW r \in Handlers, Step(r)
      PROVE  Promise!ANext \/ UNCHANGED Promise!avars
  <2>1. ASSUME CancelApproval(r) PROVE Promise!ANext \/ UNCHANGED Promise!avars
    <3>1. req[r].on \in Tasks /\ UNCHANGED executed
      BY <1>0, <2>1 DEF CancelApproval, Bound, backend
    <3>2. CASE DecidePending(req[r].on, "cancelled")
      BY <1>1, <3>1, <3>2 DEF DecidePending
    <3>3. CASE UNCHANGED approval
      BY <1>a, <3>1, <3>3
    <3> QED BY <2>1, <3>2, <3>3 DEF CancelApproval
  <2>2. ASSUME \/ FindRecentRejection(r) \/ ProxyCall(r) \/ OutOfIds(r)
               \/ \E t \in Tasks : RemintBackendTask(r, t)
               \/ ClaimApprovedExecution(r) \/ CheckWorking(r)
               \/ BackendUnavailable(r) \/ SyncBackendTask(r) \/ PollBackend(r)
               \/ FinishRead(r) \/ AttachRead(r) \/ RequestCancelRead(r)
               \/ Save(r) \/ ForwardBackendCancel(r) \/ PostBackendCancel(r)
               \/ SuppressParams(r)
        PROVE  UNCHANGED <<approval, executed>>
    BY <2>2 DEF FindRecentRejection, ProxyCall, OutOfIds, RemintBackendTask,
         ClaimApprovedExecution, CheckWorking, BackendUnavailable,
         SyncBackendTask, PollBackend, FinishRead, AttachRead,
         RequestCancelRead, Save, ForwardBackendCancel, PostBackendCancel,
         SuppressParams, store, backend
  <2> QED BY <1>7, <1>2, <1>3, <1>4, <1>a, <2>1, <2>2 DEF Step
<1>8. CASE UNCHANGED vars
  BY <1>8, <1>a DEF vars, store, backend
<1> QED BY <1>5, <1>6, <1>7, <1>8 DEF Next

\* Torii keeps the promise of ApprovedCall: one final decision per gated call,
\* and at most one request to the backend, after approval only.
THEOREM Refinement == Spec => KeepsPromise
<1>1. Init => Promise!AInit
  BY DEF Init, Promise!AInit, DecisionMap, Decision, NoApproval
<1> QED BY <1>1, StepRefines, Invariance, PTL DEF Spec, KeepsPromise, Promise!ASpec
=============================================================================
