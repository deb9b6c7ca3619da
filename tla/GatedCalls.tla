----------------------------- MODULE GatedCalls -----------------------------
(***************************************************************************)
(* Torii's approval-gated tool calls: the approval ledger, the MCP task    *)
(* store and the dispatcher that joins them (apps/torii/src/policy,        *)
(* tasks, dispatch and mcp/utils/dispatch-mcp-tasks.ts).                   *)
(*                                                                         *)
(* Every HTTP request is a handler that other requests, on any replica,    *)
(* interleave with between two awaits: one action is one statement on      *)
(* Postgres or one call to the backend.  An UPDATE with a WHERE clause is  *)
(* one atomic action; the task store's writers read the row in one action  *)
(* and save the whole row, as read and amended, in a later one.            *)
(***************************************************************************)
EXTENDS Naturals

CONSTANTS
    Tasks,      \* gateway task ids; an approval is identified by its task
    Handlers,   \* requests that can be in flight at once
    Calls,      \* (agent, tool, params hash) of a tools/call
    Gated,      \* the calls some group of the agent lists as gated
    NoId,       \* no task, no call
    MaxCrashes  \* bound: handlers that die half way

ASSUME CallsAssumption == Gated \subseteq Calls
ASSUME NoIdAssumption == NoId \notin Tasks \cup Calls
ASSUME CrashAssumption == MaxCrashes \in Nat

VARIABLES
    task,       \* mcp_tasks row of a task
    approval,   \* approvals row whose task_id is the task
    expired,    \* tasks past created_at + ttl_ms (the approval shares both)
    rejections, \* approval_rejections rows younger than the suppression TTL
    executed,   \* backend: tools/call requests received for an approval
    btask,      \* backend: state of the task the backend created
    cancelPosted, \* tasks for which tasks/cancel was sent to the backend
    crashes,
    req         \* the request each handler is serving

store == <<task, approval, expired, rejections>>
backend == <<executed, btask, cancelPosted>>
vars == <<store, backend, crashes, req>>

Terminal == {"completed", "failed", "cancelled"}
TaskStatus == {"none", "working"} \cup Terminal
Results == {"none", "backend", "notice", "denied", "error"}
TaskRow == [status : TaskStatus, origin : BOOLEAN, result : Results]
NoTask == [status |-> "none", origin |-> FALSE, result |-> "none"]

ApprovalStatus == {"none", "pending", "approved", "rejected", "cancelled"}
ApprovalRow == [status : ApprovalStatus, used : BOOLEAN,
                call : Calls \cup {NoId}]
NoApproval == [status |-> "none", used |-> FALSE, call |-> NoId]

BackendTask == {"none", "working", "input_required"} \cup Terminal

PC == {"idle", "gate", "park", "proxy", "remint", "claim", "markUsed", "check",
       "execute", "finish", "attach", "requestCancel", "save", "sync", "poll",
       "cancelApproval", "forward", "postCancel", "suppress"}

Op == {"none", "execute", "sync", "abandon", "cancel", "decide", "remint"}

\* A request: its next statement, what it is doing it for, the task it is
\* about, the call of a tools/call, and the outcome it is going to store, which
\* becomes the row it is about to save.
Request == [pc : PC, op : Op, on : Tasks \cup {NoId}, arg : Calls \cup {NoId},
            buf : TaskRow]
NoRequest == [pc |-> "idle", op |-> "none", on |-> NoId, arg |-> NoId,
              buf |-> NoTask]

TypeOK ==
    /\ task \in [Tasks -> TaskRow]
    /\ approval \in [Tasks -> ApprovalRow]
    /\ expired \in SUBSET Tasks
    /\ rejections \in SUBSET (Calls \cup {NoId})
    /\ executed \in [Tasks -> Nat]
    /\ btask \in [Tasks -> BackendTask]
    /\ cancelPosted \in SUBSET Tasks
    /\ crashes \in 0..MaxCrashes
    /\ req \in [Handlers -> Request]

Init ==
    /\ task = [t \in Tasks |-> NoTask]
    /\ approval = [t \in Tasks |-> NoApproval]
    /\ expired = {}
    /\ rejections = {}
    /\ executed = [t \in Tasks |-> 0]
    /\ btask = [t \in Tasks |-> "none"]
    /\ cancelPosted = {}
    /\ crashes = 0
    /\ req = [r \in Handlers |-> NoRequest]

-----------------------------------------------------------------------------
(* Moving a handler: to its next statement, or out of the system.          *)

Goto(r, p) ==
    req' = [req EXCEPT ![r] = IF p = "idle" THEN NoRequest
                              ELSE [@ EXCEPT !.pc = p, !.buf = NoTask]]

\* A request arrives: an idle handler takes it, about task t.
Begin(r, p, o, t) ==
    /\ req[r].pc = "idle"
    /\ req' = [req EXCEPT ![r] = [@ EXCEPT !.pc = p, !.op = o, !.on = t]]

\* The handler goes on to store an outcome in its task with finish().
Conclude(r, o, status, result) ==
    req' = [req EXCEPT ![r] =
              [@ EXCEPT !.pc = "finish", !.op = o,
                        !.buf = [status |-> status, origin |-> FALSE,
                                 result |-> result]]]

\* Where a handler continues once its task-store call has returned.
AfterStore(o) == CASE o = "execute" -> "sync"
                   [] o = "abandon" -> "postCancel"
                   [] o = "cancel" -> "cancelApproval"
                   [] OTHER -> "idle"

-----------------------------------------------------------------------------
(* Mutated forms of single definitions: bugs the properties must notice.   *)

\* markUsed without AND used_at IS NULL.
MarkUsedUnguarded(r) ==
    /\ req[r].pc = "markUsed"
    /\ approval' = [approval EXCEPT ![req[r].on].used = TRUE]
    /\ Goto(r, "check")
    /\ UNCHANGED <<task, expired, rejections, backend, crashes>>

\* decidePending without AND status = 'pending'.
DecidableAgain(t) == approval[t].status # "none" /\ t \notin expired

\* The reject route forgets to complete the task.
SuppressOnly(r) ==
    /\ req[r].pc = "suppress"
    /\ rejections' = rejections \cup {approval[req[r].on].call}
    /\ Goto(r, "idle")
    /\ UNCHANGED <<task, approval, expired, backend, crashes>>

\* executeApprovedTask reports an unreachable backend as a result.
UnavailableAsResult(r) ==
    /\ req[r].pc = "execute"
    /\ Conclude(r, "execute", "completed", "backend")
    /\ UNCHANGED <<store, backend, crashes>>

\* executeApprovedTask lets the error of an unreachable backend escape.
UnavailableEscapes(r) ==
    /\ req[r].pc = "execute"
    /\ Goto(r, "idle")
    /\ UNCHANGED <<store, backend, crashes>>

-----------------------------------------------------------------------------
(* tools/call: callTool, interceptGatedCall, adoptBackendTask.             *)

\* Policy lets the call through; the gate decides which way it goes.
CallTool(r, c) ==
    /\ req[r].pc = "idle"
    /\ req' = [req EXCEPT ![r] =
                 [@ EXCEPT !.pc = IF c \in Gated THEN "gate" ELSE "proxy",
                           !.op = "remint", !.arg = c]]
    /\ UNCHANGED <<store, backend, crashes>>

\* A recently rejected identical call is denied without parking.
FindRecentRejection(r) ==
    /\ req[r].pc = "gate"
    /\ Goto(r, IF req[r].arg \in rejections THEN "idle" ELSE "park")
    /\ UNCHANGED <<store, backend, crashes>>

\* One transaction creates the working task and its pending approval.
InterceptGatedCall(r, t) ==
    /\ req[r].pc = "park"
    /\ task[t].status = "none"
    /\ task' = [task EXCEPT ![t].status = "working"]
    /\ approval' = [approval EXCEPT ![t] = [status |-> "pending",
                                            used |-> FALSE, call |-> req[r].arg]]
    /\ Goto(r, "idle")
    /\ UNCHANGED <<expired, rejections, backend, crashes>>

\* An ungated call goes straight to the backend; only a backend task that the
\* client can follow leaves anything behind in the gateway.
ProxyCall(r) ==
    /\ req[r].pc = "proxy"
    /\ \E p \in {"idle", "remint"} : Goto(r, p)
    /\ UNCHANGED <<store, backend, crashes>>

\* createWorkingTask for a backend task, before its origin is attached.
RemintBackendTask(r, t) ==
    /\ req[r].pc = "remint"
    /\ task[t].status = "none"
    /\ task' = [task EXCEPT ![t].status = "working"]
    /\ btask' = [btask EXCEPT ![t] = "working"]
    /\ req' = [req EXCEPT ![r].pc = "attach", ![r].on = t]
    /\ UNCHANGED <<approval, expired, rejections, executed, cancelPosted, crashes>>

\* Bound: this instance has no task id left, the request is dropped.
OutOfIds(r) ==
    /\ req[r].pc \in {"park", "remint"}
    /\ \A t \in Tasks : task[t].status # "none"
    /\ Goto(r, "idle")
    /\ UNCHANGED <<store, backend, crashes>>

-----------------------------------------------------------------------------
(* tasks/get: executeApprovedTask, then syncBackendOriginatedTask.         *)

\* An agent holds the id of a task once tools/call has answered: with a parked
\* task when it is created, with a reminted one when its origin is stored.
KnownToAgent(t) == approval[t].status # "none" \/ task[t].origin

\* An agent polls.  A terminal, unknown or expired task is only reported.
GetTask(r, t) ==
    /\ KnownToAgent(t)
    /\ task[t].status = "working"
    /\ t \notin expired
    /\ Begin(r, "claim", "execute", t)
    /\ UNCHANGED <<store, backend, crashes>>

\* claimApprovedExecution reads the approval ...
ClaimApprovedExecution(r) ==
    /\ req[r].pc = "claim"
    /\ Goto(r, IF approval[req[r].on].status = "approved" /\ req[r].on \notin expired
               THEN "markUsed" ELSE "sync")
    /\ UNCHANGED <<store, backend, crashes>>

\* ... and claims it: UPDATE ... SET used_at WHERE used_at IS NULL.
MarkUsed(r) ==
    /\ req[r].pc = "markUsed"
    /\ approval' = [approval EXCEPT ![req[r].on].used = TRUE]
    /\ Goto(r, IF approval[req[r].on].used THEN "sync" ELSE "check")
    /\ UNCHANGED <<task, expired, rejections, backend, crashes>>

\* The claimed task is read again: an expired one raises McpTaskLookupError.
CheckWorking(r) ==
    /\ req[r].pc = "check"
    /\ Goto(r, CASE req[r].on \in expired -> "idle"
                 [] req[r].on \notin expired /\ task[req[r].on].status = "working" -> "execute"
                 [] OTHER -> "sync")
    /\ UNCHANGED <<store, backend, crashes>>

\* The backend cannot be reached, or the owner must link an account first.
BackendUnavailable(r) ==
    /\ req[r].pc = "execute"
    /\ \/ Conclude(r, "execute", "failed", "error")
       \/ Conclude(r, "execute", "completed", "notice")
    /\ UNCHANGED <<store, backend, crashes>>

\* The backend receives the call and answers with a result, an answer Torii
\* does not relay, an error, or a task of its own.
ExecuteApprovedTask(r) ==
    /\ req[r].pc = "execute"
    /\ executed' = [executed EXCEPT ![req[r].on] = @ + 1]
    /\ \/ /\ \/ Conclude(r, "execute", "completed", "backend")
             \/ Conclude(r, "execute", "completed", "notice")
             \/ Conclude(r, "execute", "failed", "error")
          /\ UNCHANGED btask
       \/ /\ Goto(r, "attach")
          /\ btask' = [btask EXCEPT ![req[r].on] = "working"]
    /\ UNCHANGED <<store, cancelPosted, crashes>>

\* syncBackendOriginatedTask follows a task that remints a backend task.
SyncBackendTask(r) ==
    /\ req[r].pc = "sync"
    /\ IF req[r].on \notin expired /\ task[req[r].on].origin /\ task[req[r].on].status \notin Terminal
       THEN req' = [req EXCEPT ![r].pc = "poll", ![r].op = "sync"]
       ELSE Goto(r, "idle")
    /\ UNCHANGED <<store, backend, crashes>>

\* The backend's own tasks/get, or no answer: no connection at all aborts the request, a
\* failed poll fails the task, and one that cannot be read or asks for input gives it up.
PollBackend(r) ==
    /\ req[r].pc = "poll"
    /\ \/ Goto(r, "idle")
       \/ Conclude(r, "sync", "failed", "error")
       \/ btask[req[r].on] = "working" /\ Goto(r, "attach")
       \/ btask[req[r].on] = "completed" /\ Conclude(r, "sync", "completed", "backend")
       \/ btask[req[r].on] = "failed" /\ Conclude(r, "sync", "failed", "error")
       \/ btask[req[r].on] = "cancelled" /\ Goto(r, "requestCancel")
       \/ Conclude(r, "abandon", "completed", "notice")
    /\ UNCHANGED <<store, backend, crashes>>

-----------------------------------------------------------------------------
(* The task store's read-modify-write calls: read here, Save below.        *)

Prepare(r, row) == req' = [req EXCEPT ![r].pc = "save", ![r].buf = row]

\* complete() and fail(): a terminal task is left as it is.
FinishRead(r) ==
    /\ req[r].pc = "finish"
    /\ IF task[req[r].on].status \in Terminal
       THEN Goto(r, AfterStore(req[r].op))
       ELSE Prepare(r, [task[req[r].on] EXCEPT !.status = req[r].buf.status,
                                           !.result = req[r].buf.result])
    /\ UNCHANGED <<store, backend, crashes>>

\* attachBackendOrigin: refused on a terminal task.  The refusal cancels the
\* backend task, except when a sync merely refreshes an origin.
AttachRead(r) ==
    /\ req[r].pc = "attach"
    /\ IF task[req[r].on].status \in Terminal
       THEN Goto(r, IF req[r].op = "sync" THEN "idle" ELSE "postCancel")
       ELSE Prepare(r, [task[req[r].on] EXCEPT !.origin = TRUE])
    /\ UNCHANGED <<store, backend, crashes>>

\* requestCancel: an expired task raises a lookup error, which ends the
\* request; a terminal one is acknowledged.
RequestCancelRead(r) ==
    /\ req[r].pc = "requestCancel"
    /\ CASE req[r].on \in expired -> Goto(r, "idle")
         [] req[r].on \notin expired /\ task[req[r].on].status \in Terminal ->
                Goto(r, AfterStore(req[r].op))
         [] OTHER -> Prepare(r, [task[req[r].on] EXCEPT !.status = "cancelled"])
    /\ UNCHANGED <<store, backend, crashes>>

\* UPDATE mcp_tasks SET (every column) WHERE task_id = ...
Save(r) ==
    /\ req[r].pc = "save"
    /\ task' = [task EXCEPT ![req[r].on] = req[r].buf]
    /\ Goto(r, AfterStore(req[r].op))
    /\ UNCHANGED <<approval, expired, rejections, backend, crashes>>

-----------------------------------------------------------------------------
(* tasks/cancel by the agent; approve, reject and cancel by the operator.  *)

TasksCancel(r, t) ==
    /\ KnownToAgent(t)
    /\ Begin(r, "requestCancel", "cancel", t)
    /\ UNCHANGED <<store, backend, crashes>>

\* decidePending: WHERE status = 'pending' AND expires_at > now.
Decidable(t) == approval[t].status = "pending" /\ t \notin expired

DecidePending(t, status) ==
    /\ Decidable(t)
    /\ approval' = [approval EXCEPT ![t].status = status]

\* cancelPendingForTask
CancelApproval(r) ==
    /\ req[r].pc = "cancelApproval"
    /\ \/ DecidePending(req[r].on, "cancelled")
       \/ ~Decidable(req[r].on) /\ UNCHANGED approval
    /\ Goto(r, "forward")
    /\ UNCHANGED <<task, expired, rejections, backend, crashes>>

\* forwardBackendCancel reads the task to learn whether a backend has it.
ForwardBackendCancel(r) ==
    /\ req[r].pc = "forward"
    /\ Goto(r, IF req[r].on \notin expired /\ task[req[r].on].origin
               THEN "postCancel" ELSE "idle")
    /\ UNCHANGED <<store, backend, crashes>>

\* postBackendCancel is best effort: the backend may refuse or never see it.
\* A refused adoption during an execution still reports its result.
PostBackendCancel(r) ==
    /\ req[r].pc = "postCancel"
    /\ cancelPosted' = cancelPosted \cup {req[r].on}
    /\ \/ /\ btask[req[r].on] \in {"working", "input_required"}
          /\ btask' = [btask EXCEPT ![req[r].on] = "cancelled"]
       \/ UNCHANGED btask
    /\ IF req[r].op = "execute"
       THEN Conclude(r, "execute", "completed", "notice")
       ELSE Goto(r, "idle")
    /\ UNCHANGED <<store, executed, crashes>>

Approve(t) ==
    /\ DecidePending(t, "approved")
    /\ UNCHANGED <<task, expired, rejections, backend, crashes, req>>

\* The reject route: decide, remember the rejection, complete the task.
Reject(r, t) ==
    /\ DecidePending(t, "rejected")
    /\ Begin(r, "suppress", "decide", t)
    /\ UNCHANGED <<task, expired, rejections, backend, crashes>>

SuppressParams(r) ==
    /\ req[r].pc = "suppress"
    /\ rejections' = rejections \cup {approval[req[r].on].call}
    /\ Conclude(r, "decide", "completed", "denied")
    /\ UNCHANGED <<task, approval, expired, backend, crashes>>

\* The operator's cancel route: decide, then cancel the task.
OperatorCancel(r, t) ==
    /\ DecidePending(t, "cancelled")
    /\ Begin(r, "requestCancel", "decide", t)
    /\ UNCHANGED <<task, expired, rejections, backend, crashes>>

-----------------------------------------------------------------------------
(* Time, the backend and failures.                                         *)

\* A task and its approval pass their common expiry time.
Expire(t) ==
    /\ task[t].status # "none"
    /\ t \notin expired
    /\ expired' = expired \cup {t}
    /\ UNCHANGED <<task, approval, rejections, backend, crashes, req>>

\* pruneRejections: a rejection outlives its suppression TTL.
PruneRejections(c) ==
    /\ c \in rejections
    /\ rejections' = rejections \ {c}
    /\ UNCHANGED <<task, approval, expired, backend, crashes, req>>

\* The backend moves its own task on.
BackendProgress(t) ==
    /\ btask[t] = "working"
    /\ \E s \in {"completed", "failed", "cancelled", "input_required"} :
         btask' = [btask EXCEPT ![t] = s]
    /\ UNCHANGED <<store, executed, cancelPosted, crashes, req>>

\* The replica serving a request dies between two statements.
Crash(r) ==
    /\ req[r].pc # "idle"
    /\ crashes < MaxCrashes
    /\ crashes' = crashes + 1
    /\ Goto(r, "idle")
    /\ UNCHANGED <<store, backend>>

Step(r) ==
    \/ FindRecentRejection(r)
    \/ \E t \in Tasks : InterceptGatedCall(r, t)
    \/ ProxyCall(r)
    \/ \E t \in Tasks : RemintBackendTask(r, t)
    \/ OutOfIds(r)
    \/ ClaimApprovedExecution(r)
    \/ MarkUsed(r)
    \/ CheckWorking(r)
    \/ BackendUnavailable(r)
    \/ ExecuteApprovedTask(r)
    \/ SyncBackendTask(r)
    \/ PollBackend(r)
    \/ FinishRead(r)
    \/ AttachRead(r)
    \/ RequestCancelRead(r)
    \/ Save(r)
    \/ CancelApproval(r)
    \/ ForwardBackendCancel(r)
    \/ PostBackendCancel(r)
    \/ SuppressParams(r)

Arrive(r) ==
    \/ \E c \in Calls : CallTool(r, c)
    \/ \E t \in Tasks : \/ GetTask(r, t)
                        \/ TasksCancel(r, t)
                        \/ Reject(r, t)
                        \/ OperatorCancel(r, t)

Environment ==
    \/ \E t \in Tasks : Approve(t) \/ Expire(t) \/ BackendProgress(t)
    \/ \E c \in Calls : PruneRejections(c)

Next == Environment \/ \E r \in Handlers : Arrive(r) \/ Step(r) \/ Crash(r)

Spec == Init /\ [][Next]_vars

\* A request that is not cut short by a crash runs to its end, and the agent
\* (Shaiden's waiter or sweep) keeps polling a task that is still working.
Fairness == /\ \A r \in Handlers : WF_vars(Step(r))
            /\ \A t \in Tasks : SF_vars(\E r \in Handlers : GetTask(r, t))

FairSpec == Spec /\ Fairness

-----------------------------------------------------------------------------
(* Properties.                                                             *)

\* Idle(t): no request about task t is under way.
Idle(t) == \A r \in Handlers : req[r].pc = "idle" \/ req[r].on # t

\* Two polls of an approved call, a poll that dies after its claim and a poll
\* that follows it never make the backend execute the call twice, and a call
\* that was rejected, cancelled or never decided is not executed at all
\* (claimApprovedExecution, markUsed, decidePending).
ExecutedOnceApproved ==
    \A t \in Tasks : /\ executed[t] <= 1
                     /\ executed[t] > 0 => approval[t].status = "approved"

\* The agent learns of a rejection: once the reject request is through, and if
\* it did not die half way, the task is terminal whatever polls and cancels
\* ran beside it, and only a rejection produces the denied result
\* (approvals-api.controller.ts reject, task-store finish).
RejectionReachesAgent ==
    \A t \in Tasks :
        /\ task[t].result = "denied" => approval[t].status = "rejected"
        /\ (approval[t].status = "rejected" /\ Idle(t) /\ crashes = 0)
              => task[t].status \in Terminal

\* A gated task never claims a result of the backend that the backend did not
\* produce: it was executed for this very approval (executeApprovedTask,
\* syncBackendOriginatedTask).
ResultsAreExecuted ==
    \A t \in Tasks :
        (approval[t].status # "none" /\ (task[t].result = "backend" \/ task[t].origin))
            => executed[t] = 1

\* An approved call that the agent keeps polling for is settled: its task
\* becomes terminal or follows a backend task, unless its time runs out.
ApprovedSettles ==
    \A t \in Tasks :
        (approval[t].status = "approved" /\ task[t].status = "working")
            ~> (task[t].status \in Terminal \/ task[t].origin \/ t \in expired)

\* An operator's decision on a call takes effect once and for all, and only an
\* approved call reaches the backend, once: the abstract specification.
Decision(status) == CASE status = "none" -> "unborn"
                      [] status = "pending" -> "awaiting"
                      [] status = "approved" -> "approved"
                      [] OTHER -> "refused"

DecisionMap == [t \in Tasks |-> Decision(approval[t].status)]

Promise == INSTANCE ApprovedCall WITH decision <- DecisionMap, sent <- executed

KeepsPromise == Promise!ASpec

\* task-store.service.ts says of attachBackendOrigin that a task cancelled while
\* the backend call was in flight must have its backend task cancelled.
CancelledIsCancelledUpstream ==
    \A t \in Tasks :
        (/\ task[t].status = "cancelled" /\ Idle(t) /\ t \notin expired
         /\ btask[t] = "working")
            => t \in cancelPosted

\* task-store.service.test.ts says a terminal task refuses a backend origin.
TerminalRefusesOrigin ==
    [][\A t \in Tasks :
         (task[t].status \in Terminal /\ ~task[t].origin) => ~task'[t].origin]_vars
=============================================================================
