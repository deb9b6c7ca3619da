---------------------------- MODULE RunLifecycle ----------------------------
(***************************************************************************)
(* The life of one Shaiden run: the runs row with its lease and parked MCP *)
(* task, the transcript, the queued follow-ups, and everything that drives *)
(* them (apps/shaiden/src/run, runs, http/runs-api.controller.ts): a       *)
(* launch, the sweep that resumes parked runs, a continuation, each one a  *)
(* process on a replica that others interleave with between two awaits.    *)
(*                                                                         *)
(* One action is one statement on Postgres or one call to another system.  *)
(* Of the transcript the model keeps the call that still lacks an answer,  *)
(* which answer each call got, and the operator's messages.  Time is left  *)
(* out: a lease may lapse at any moment its holder is slow, and next_poll_at*)
(* only delays a sweep, which may be late anyway.                          *)
(***************************************************************************)
EXTENDS Naturals

CONSTANTS
    Drivers,    \* activities that may be working on the run at once
    Replicas,   \* Shaiden processes
    Home,       \* the replica of each driver; its lease owner id
    Calls,      \* tool calls the model makes, each with its own Torii task
    Messages,   \* follow-up messages
    NoOne,      \* no lease owner
    NoCall,     \* no call; as an answer: a synthetic error
    MaxReopens, \* bound: continuations of the run
    MaxCrashes, \* bound: replicas that die
    Lapses      \* whether a slow holder's lease may lapse

ASSUME HomeAssumption == Home \in [Drivers -> Replicas]
ASSUME NoOneAssumption == NoOne \notin Replicas
ASSUME NoCallAssumption == NoCall \notin Calls
ASSUME BoundsAssumption == MaxReopens \in Nat /\ MaxCrashes \in Nat /\ Lapses \in BOOLEAN

VARIABLES
    run,        \* the runs row: status, lease, parked task, outcome
    history,    \* conversation_history_json
    queue,      \* run_follow_ups
    posting,    \* follow-ups between the SELECT and the INSERT of enqueue
    accepted,   \* follow-ups answered with 202
    torii,      \* the Torii task of each call
    drv,        \* the drivers
    outcomes,   \* outcome steps recorded, one attempt each
    reopens,
    crashes,
    slips,      \* what has taken the run from under its driver so far
    overtaken   \* history: a run was taken up, or re-parked, by what it was before

vars == <<run, history, queue, posting, accepted, torii, drv,
          outcomes, reopens, crashes, slips, overtaken>>
counters == <<outcomes, reopens, crashes, slips, overtaken>>
followUps == <<queue, posting, accepted>>

Outcome == {"none", "done", "failed", "rejected", "stopped"}
Run == [status : {"none", "running", "completed"}, owner : Replicas \cup {NoOne},
        live : BOOLEAN, parked : Calls \cup {NoCall}, outcome : Outcome]
History == [open : Calls \cup {NoCall},
            answers : SUBSET (Calls \X (Calls \cup {NoCall})),
            said : SUBSET Messages]
EmptyHistory == [open |-> NoCall, answers |-> {}, said |-> {}]

\* none -> called by the model -> open in Torii -> done | denied | void, where
\* a void task is cancelled, expired, or waits for input.
Task == {"none", "called", "open", "done", "denied", "void"}
Slip == {"lapse", "release", "rescue"}

\* The statements of a driver that believes it has the run to itself ...
Holding == {"connect", "wake", "park", "hibernate", "wait", "renew", "clear",
            "answer", "failCall", "drain", "drainDelete", "drained", "model",
            "dispatch", "end", "failing", "outcome", "complete"}
\* ... and those before it claims the run and after it gives it up.
PC == Holding \cup {"idle", "poll", "repark", "seize", "fetch", "reopen",
                    "setup", "claim", "discard", "release", "rescue",
                    "rescueOutcome", "rescueComplete"}

Driver == [pc : PC, role : {"launch", "resume", "sweep"}, hist : History,
           parked : Calls \cup {NoCall}, fresh : BOOLEAN, lost : BOOLEAN,
           thrown : BOOLEAN, outcome : Outcome]
Idle == [pc |-> "idle", role |-> "launch", hist |-> EmptyHistory,
         parked |-> NoCall, fresh |-> FALSE, lost |-> FALSE, thrown |-> FALSE,
         outcome |-> "none"]

TypeOK ==
    /\ run \in Run
    /\ history \in History
    /\ queue \in SUBSET Messages
    /\ posting \in SUBSET Messages
    /\ accepted \in SUBSET Messages
    /\ torii \in [Calls -> Task]
    /\ drv \in [Drivers -> Driver]
    /\ outcomes \in Nat
    /\ reopens \in 0..MaxReopens
    /\ crashes \in 0..MaxCrashes
    /\ slips \in SUBSET Slip
    /\ overtaken \in BOOLEAN

Init ==
    /\ run = [status |-> "none", owner |-> NoOne, live |-> FALSE,
              parked |-> NoCall, outcome |-> "none"]
    /\ history = EmptyHistory
    /\ queue = {}
    /\ posting = {}
    /\ accepted = {}
    /\ torii = [c \in Calls |-> "none"]
    /\ drv = [d \in Drivers |-> Idle]
    /\ outcomes = 0
    /\ reopens = 0
    /\ crashes = 0
    /\ slips = {}
    /\ overtaken = FALSE

-----------------------------------------------------------------------------
(* Helpers.                                                                *)

At(d, p) == drv[d].pc = p
Move(d, p) == drv' = [drv EXCEPT ![d].pc = p]
Leave(d) == drv' = [drv EXCEPT ![d] = Idle]

\* The task loop ends with an outcome: it drains the follow-ups once more.
Terminate(d, o, h) ==
    drv' = [drv EXCEPT ![d] = [@ EXCEPT !.pc = "drain", !.outcome = o, !.hist = h,
                                        !.parked = NoCall, !.fresh = FALSE]]

\* Past its last checkpoint a driver needs neither transcript nor task.
Finishing(d, p, o) ==
    drv' = [drv EXCEPT ![d] = [Idle EXCEPT !.pc = p, !.outcome = o, !.role = drv[d].role,
                                           !.lost = drv[d].lost, !.thrown = drv[d].thrown]]

\* A history whose unanswered call got an answer; NoCall stands for an error.
Answered(h, source) ==
    IF h.open = NoCall THEN h
    ELSE [h EXCEPT !.open = NoCall, !.answers = @ \cup {<<h.open, source>>}]

Running == run.status = "running"
Owns(d) == Running /\ run.owner = Home[d]
Holds(d) == drv[d].pc \in Holding

\* Notes that something other than its driver has taken hold of the run.
Slipped(cond, kind) == slips' = IF cond THEN slips \cup {kind} ELSE slips

\* Notes that a driver claims, reopens or re-parks the run for what it was before: the
\* transcript it has read, but for new messages, or the task is not the run's any more.
Overtaken(cond) == overtaken' = (overtaken \/ cond)
IsCurrent(h) == h.open = history.open /\ h.answers = history.answers
                /\ history.said \subseteq h.said

-----------------------------------------------------------------------------
(* Mutated forms of single definitions: bugs the properties must notice.   *)

\* claimRun looks at the status only.
ClaimUnguarded(d) ==
    /\ At(d, "claim")
    /\ IF Running
       THEN /\ run' = [run EXCEPT !.owner = Home[d], !.live = TRUE]
            /\ Overtaken(~IsCurrent(drv[d].hist) \/ drv[d].parked # run.parked)
            /\ Move(d, "connect")
       ELSE Leave(d) /\ UNCHANGED <<run, overtaken>>
    /\ UNCHANGED <<history, followUps, torii, outcomes, reopens, crashes, slips>>

\* resumeHarnessRun records "resume failed" without looking at the row.
RescueAlways(d) ==
    /\ At(d, "rescue")
    /\ drv' = [drv EXCEPT ![d] = [@ EXCEPT !.pc = "rescueOutcome", !.role = "sweep",
                                           !.outcome = "failed"]]
    /\ Slipped(Running, "rescue")
    /\ UNCHANGED <<run, history, followUps, torii, outcomes, reopens, crashes, overtaken>>

\* setParkedMcpTask without AND status = 'running'.
ReparkUnguarded(d) ==
    /\ At(d, "repark")
    /\ run' = [run EXCEPT !.parked = drv[d].parked]
    /\ Overtaken(run' # run)
    /\ Leave(d)
    /\ UNCHANGED <<history, followUps, torii, outcomes, reopens, crashes, slips>>

\* The catch of driveHarnessRun gives the run up without an outcome.
CatchReleases(d) ==
    /\ At(d, "failing")
    /\ IF drv[d].lost THEN Leave(d) ELSE Finishing(d, "release", "none")
    /\ UNCHANGED <<run, history, followUps, torii, counters>>

\* The waiter hibernates without having stored the task that it waits for.
ParkForgotten(d) ==
    /\ At(d, "park")
    /\ drv' = [drv EXCEPT ![d] =
                 [@ EXCEPT !.pc = IF drv[d].fresh THEN "hibernate" ELSE "wait",
                           !.fresh = FALSE]]
    /\ UNCHANGED <<run, history, followUps, torii, counters>>

\* A resumed call is answered while the row still waits for it.
ClearForgotten(d) ==
    /\ At(d, "clear")
    /\ \/ drv' = [drv EXCEPT ![d] = [@ EXCEPT !.pc = "answer", !.parked = NoCall,
                                      !.hist = Answered(drv[d].hist, drv[d].parked)]]
       \/ Move(d, "failCall")
    /\ UNCHANGED <<run, history, followUps, torii, counters>>

\* A lease never expires for anyone else.
ClaimableOnlyWhenFree == Running /\ run.owner = NoOne

-----------------------------------------------------------------------------
(* Ways into a run: launch, sweep, continuation.                           *)

\* claimRun: nobody owns the run, or the owner's lease has expired.
Claimable == Running /\ (run.owner = NoOne \/ ~run.live)

\* launchHarnessRun: the row, its first transcript, then driveHarnessRun.
Launch(d) ==
    /\ At(d, "idle")
    /\ run.status = "none"
    /\ run' = [run EXCEPT !.status = "running"]
    /\ Move(d, "setup")
    /\ UNCHANGED <<history, followUps, torii, counters>>

\* The sweep lists a parked run that nobody holds.
ListClaimable(d) ==
    /\ At(d, "idle")
    /\ Claimable
    /\ run.parked # NoCall
    /\ drv' = [drv EXCEPT ![d] = [@ EXCEPT !.pc = "poll", !.role = "sweep",
                                           !.parked = run.parked]]
    /\ UNCHANGED <<run, history, followUps, torii, counters>>

\* Torii says that the task is not finished, or the poll fails with an error that may pass,
\* which brings the parked task's own poll interval; or there is no interval to store.
PollPending(d) ==
    /\ At(d, "poll")
    /\ Move(d, "repark") \/ Leave(d)
    /\ UNCHANGED <<run, history, followUps, torii, counters>>

PollTerminal(d) ==
    /\ At(d, "poll")
    /\ torii[drv[d].parked] \in {"done", "denied", "void"}
    /\ Move(d, "fetch")
    /\ UNCHANGED <<run, history, followUps, torii, counters>>

\* The poll fails for good: Torii has no such task any more, or it turns the request down,
\* its identity or its headers, however the task stands.
PollFailed(d) ==
    /\ At(d, "poll")
    /\ Move(d, "seize")
    /\ UNCHANGED <<run, history, followUps, torii, counters>>

\* setParkedMcpTask with the task that was listed.
Repark(d) ==
    /\ At(d, "repark")
    /\ run' = IF Running THEN [run EXCEPT !.parked = drv[d].parked] ELSE run
    /\ Overtaken(run' # run)
    /\ Leave(d)
    /\ UNCHANGED <<history, followUps, torii, outcomes, reopens, crashes, slips>>

\* The sweep claims the run only to fail it.
Seize(d) ==
    /\ At(d, "seize")
    /\ IF Claimable
       THEN /\ run' = [run EXCEPT !.owner = Home[d], !.live = TRUE]
            /\ Finishing(d, "outcome", "failed")
       ELSE Leave(d) /\ UNCHANGED run
    /\ UNCHANGED <<history, followUps, torii, counters>>

\* getConversationHistory, before resumeHarnessRun.
FetchHistory(d) ==
    /\ At(d, "fetch")
    /\ drv' = [drv EXCEPT ![d] = [@ EXCEPT !.pc = "setup", !.role = "resume",
                                           !.hist = history]]
    /\ UNCHANGED <<run, history, followUps, torii, counters>>

\* beginContinuation reads the row: with a message m (follow-up), or without
\* one to resume a stopped run.
ReadContinuation(d, said) ==
    /\ At(d, "idle")
    /\ reopens < MaxReopens
    /\ run.status = "completed"
    /\ run.outcome # "rejected"
    /\ said = {} => run.outcome = "stopped"
    /\ drv' = [drv EXCEPT ![d] = [@ EXCEPT !.pc = "reopen", !.role = "resume",
                                      !.hist = [history EXCEPT !.said = @ \cup said]]]
    /\ UNCHANGED <<run, history, followUps, torii, counters>>

\* ... and reopens it, UPDATE ... WHERE status = 'completed', unless another
\* run of the task is running.
Reopen(d) ==
    /\ At(d, "reopen")
    /\ \/ /\ run.status = "completed"
          /\ reopens < MaxReopens
          /\ run' = [run EXCEPT !.status = "running", !.outcome = "none"]
          /\ history' = drv[d].hist
          /\ accepted' = accepted \cup drv[d].hist.said
          /\ reopens' = reopens + 1
          /\ Overtaken(~IsCurrent(drv[d].hist))
          /\ Move(d, "setup")
       \/ /\ Leave(d)
          /\ UNCHANGED <<run, history, accepted, reopens, overtaken>>
    /\ UNCHANGED <<queue, posting, torii, outcomes, crashes, slips>>

\* The run is running, but what comes before its drive throws: resumeHarnessRun finds no
\* persona or key, launchHarnessRun cannot store the first transcript.
SetupFails(d) ==
    /\ At(d, "setup")
    /\ Leave(d)
    /\ UNCHANGED <<run, history, followUps, torii, counters>>

\* driveHarnessRun: getParkedMcpTask, then claimRun.
ReadParked(d) ==
    /\ At(d, "setup")
    /\ drv' = [drv EXCEPT ![d] = [@ EXCEPT !.pc = "claim", !.parked = run.parked]]
    /\ UNCHANGED <<run, history, followUps, torii, counters>>

ClaimRun(d) ==
    /\ At(d, "claim")
    /\ IF Claimable
       THEN /\ run' = [run EXCEPT !.owner = Home[d], !.live = TRUE]
            /\ Overtaken(~IsCurrent(drv[d].hist) \/ drv[d].parked # run.parked)
            /\ Move(d, "connect")
       ELSE Leave(d) /\ UNCHANGED <<run, overtaken>>
    /\ UNCHANGED <<history, followUps, torii, outcomes, reopens, crashes, slips>>

-----------------------------------------------------------------------------
(* Driving: connect, take up a parked call, then the task loop.            *)

\* A parked run whose transcript awaits no answer fails at once.
Connect(d) ==
    /\ At(d, "connect")
    /\ CASE drv[d].parked = NoCall -> Move(d, "drain")
         [] drv[d].parked # NoCall /\ drv[d].hist.open = NoCall ->
                Terminate(d, "failed", drv[d].hist)
         [] OTHER -> Move(d, "wake")
    /\ UNCHANGED <<run, history, followUps, torii, counters>>

\* No Torii session, no token.
ConnectFails(d) ==
    /\ At(d, "connect")
    /\ drv' = [drv EXCEPT ![d] = [@ EXCEPT !.pc = "failing", !.thrown = TRUE]]
    /\ UNCHANGED <<run, history, followUps, torii, counters>>

\* waitForParkedResult: checkpoint, then persist the task to wait for.  A call
\* of this segment hibernates, a resumed one is polled.
Checkpoint(d) ==
    /\ At(d, "wake")
    /\ history' = drv[d].hist
    /\ Move(d, "park")
    /\ UNCHANGED <<run, followUps, torii, counters>>

SetParkedMcpTask(d) ==
    /\ At(d, "park")
    /\ run' = IF Running THEN [run EXCEPT !.parked = drv[d].parked] ELSE run
    /\ drv' = [drv EXCEPT ![d] =
                 [@ EXCEPT !.pc = IF drv[d].fresh THEN "hibernate" ELSE "wait",
                           !.fresh = FALSE]]
    /\ UNCHANGED <<history, followUps, torii, counters>>

Hibernate(d) ==
    /\ At(d, "hibernate")
    /\ IF drv[d].lost
       THEN Leave(d) /\ UNCHANGED history
       ELSE history' = drv[d].hist /\ Finishing(d, "release", "none")
    /\ UNCHANGED <<run, followUps, torii, counters>>

\* The poll ends with a result or with an error: the task is void, the lease is lost, or
\* Torii turns the request down.
PollResult(d) ==
    /\ At(d, "wait")
    /\ LET status == torii[drv[d].parked]
       IN  \/ /\ status \in {"done", "denied"}
              /\ drv' = [drv EXCEPT ![d] =
                           [@ EXCEPT !.pc = "renew",
                                     !.outcome = IF status = "denied" THEN "rejected" ELSE "none"]]
           \/ Move(d, "failCall")
    /\ UNCHANGED <<run, history, followUps, torii, counters>>

RenewAfterPoll(d) ==
    /\ At(d, "renew")
    /\ run' = IF Owns(d) THEN [run EXCEPT !.live = TRUE] ELSE run
    /\ Move(d, IF Owns(d) THEN "clear" ELSE "failCall")
    /\ UNCHANGED <<history, followUps, torii, counters>>

\* The answer is in hand, unless policy turned the call down after approval.
ClearParkedMcpTask(d) ==
    /\ At(d, "clear")
    /\ run' = [run EXCEPT !.parked = NoCall]
    /\ \/ drv' = [drv EXCEPT ![d] = [@ EXCEPT !.pc = "answer", !.parked = NoCall,
                                      !.hist = Answered(drv[d].hist, drv[d].parked)]]
       \/ Move(d, "failCall")
    /\ UNCHANGED <<history, followUps, torii, counters>>

\* appendToolResult; a denial by the operator ends the run.
AppendToolResult(d) ==
    /\ At(d, "answer")
    /\ history' = drv[d].hist
    /\ Move(d, "drain")
    /\ UNCHANGED <<run, followUps, torii, counters>>

\* Any error while waiting, a lost lease included, becomes the call's result.
PushToolErrorResult(d) ==
    /\ At(d, "failCall")
    /\ history' = Answered(drv[d].hist, NoCall)
    /\ Terminate(d, "failed", Answered(drv[d].hist, NoCall))
    /\ UNCHANGED <<run, followUps, torii, counters>>

\* drainParkedFollowUps: SELECT, then DELETE of whatever is there by then.
DrainSelect(d) ==
    /\ At(d, "drain")
    /\ IF queue = {}
       THEN Move(d, IF drv[d].outcome = "none" THEN "model" ELSE "end")
       ELSE LET h == [drv[d].hist EXCEPT !.said = @ \cup queue]
            IN  drv' = [drv EXCEPT ![d] = [@ EXCEPT !.pc = "drainDelete", !.hist = h]]
    /\ UNCHANGED <<run, history, followUps, torii, counters>>

DrainDelete(d) ==
    /\ At(d, "drainDelete")
    /\ queue' = {}
    /\ Move(d, "drained")
    /\ UNCHANGED <<run, history, posting, accepted, torii, counters>>

CheckpointDrained(d) ==
    /\ At(d, "drained")
    /\ history' = drv[d].hist
    /\ Move(d, IF drv[d].outcome = "none" THEN "model" ELSE "end")
    /\ UNCHANGED <<run, followUps, torii, counters>>

\* A model turn that calls a tool ...
CallTool(d, c) ==
    /\ At(d, "model")
    /\ torii[c] = "none"
    /\ torii' = [torii EXCEPT ![c] = "called"]
    /\ history' = [drv[d].hist EXCEPT !.open = c]
    /\ drv' = [drv EXCEPT ![d] = [@ EXCEPT !.pc = "dispatch", !.parked = c,
                                           !.hist.open = c]]
    /\ UNCHANGED <<run, followUps, counters>>

\* ... or assesses the task, which ends the run.
AssessTask(d) ==
    /\ At(d, "model")
    /\ history' = drv[d].hist
    /\ \E o \in {"done", "failed"} : Terminate(d, o, drv[d].hist)
    /\ UNCHANGED <<run, followUps, torii, counters>>

\* The model is unreachable, or a limit is reached before it is called.
EndTurn(d) ==
    /\ At(d, "model")
    /\ Terminate(d, "failed", drv[d].hist)
    /\ UNCHANGED <<run, history, followUps, torii, counters>>

\* tools/call: an answer, which may be a denial that ends the run, a task that needs an
\* approval, or a task that was cancelled meanwhile, which ends the run too.
Dispatch(d) ==
    /\ At(d, "dispatch")
    /\ \/ /\ \E o \in {"none", "rejected"} :
                drv' = [drv EXCEPT ![d] = [@ EXCEPT !.pc = "answer", !.parked = NoCall,
                                             !.hist = Answered(drv[d].hist, drv[d].parked),
                                             !.outcome = o]]
          /\ UNCHANGED torii
       \/ /\ torii' = [torii EXCEPT ![drv[d].parked] = "open"]
          /\ drv' = [drv EXCEPT ![d] = [@ EXCEPT !.pc = "wake", !.fresh = TRUE]]
       \/ Move(d, "failCall") /\ UNCHANGED torii
    /\ UNCHANGED <<run, history, followUps, counters>>

\* The operator's stop, noticed between two steps of the loop.
StopNow(d) ==
    /\ drv[d].pc \in {"model", "dispatch"} \/ (At(d, "wake") /\ drv[d].fresh)
    /\ history' = Answered(drv[d].hist, NoCall)
    /\ Terminate(d, "stopped", Answered(drv[d].hist, NoCall))
    /\ UNCHANGED <<run, followUps, torii, counters>>

-----------------------------------------------------------------------------
(* Ending: the last checkpoint, the outcome step, the row, the lease.      *)

EndLoop(d) ==
    /\ At(d, "end")
    /\ IF drv[d].lost
       THEN Leave(d) /\ UNCHANGED history
       ELSE history' = drv[d].hist /\ Finishing(d, "outcome", drv[d].outcome)
    /\ UNCHANGED <<run, followUps, torii, counters>>

\* The catch of driveHarnessRun.
CatchError(d) ==
    /\ At(d, "failing")
    /\ CASE drv[d].lost -> Leave(d)
         [] ~drv[d].lost /\ Running -> Finishing(d, "outcome", "failed")
         [] OTHER -> Finishing(d, "release", "none")
    /\ UNCHANGED <<run, history, followUps, torii, counters>>

\* completeRunWithOutcomeStep: the step and its attempt, the row, the queue.
RecordOutcome(d) ==
    /\ drv[d].pc \in {"outcome", "rescueOutcome"}
    /\ outcomes' = outcomes + 1
    /\ Move(d, IF At(d, "outcome") THEN "complete" ELSE "rescueComplete")
    /\ UNCHANGED <<run, history, followUps, torii, reopens, crashes, slips, overtaken>>

CompleteRun(d) ==
    /\ drv[d].pc \in {"complete", "rescueComplete"}
    /\ run' = [run EXCEPT !.status = "completed", !.outcome = drv[d].outcome,
                          !.parked = NoCall, !.owner = NoOne, !.live = FALSE]
    /\ Finishing(d, "discard", "none")
    /\ UNCHANGED <<history, followUps, torii, counters>>

DiscardFollowUps(d) ==
    /\ At(d, "discard")
    /\ queue' = {}
    /\ IF drv[d].role = "sweep" THEN Leave(d) ELSE Move(d, "release")
    /\ UNCHANGED <<run, history, posting, accepted, torii, counters>>

\* finally: releaseRun.  An error then reaches the catch of resumeHarnessRun.
ReleaseRun(d) ==
    /\ At(d, "release")
    /\ IF ~drv[d].lost /\ run.owner = Home[d]
       THEN run' = [run EXCEPT !.owner = NoOne, !.live = FALSE]
       ELSE UNCHANGED run
    /\ Slipped(/\ ~drv[d].lost /\ run.owner = Home[d]
               /\ \E e \in Drivers : Holds(e) /\ Home[e] = Home[d], "release")
    /\ IF drv[d].thrown /\ drv[d].role = "resume" THEN Move(d, "rescue") ELSE Leave(d)
    /\ UNCHANGED <<history, followUps, torii, outcomes, reopens, crashes, overtaken>>

\* "resume failed" is recorded if the row still says running.
Rescue(d) ==
    /\ At(d, "rescue")
    /\ IF Running
       THEN drv' = [drv EXCEPT ![d] = [@ EXCEPT !.pc = "rescueOutcome", !.role = "sweep",
                                                !.outcome = "failed"]]
       ELSE Leave(d)
    /\ Slipped(Running, "rescue")
    /\ UNCHANGED <<run, history, followUps, torii, outcomes, reopens, crashes, overtaken>>

-----------------------------------------------------------------------------
(* Leases, follow-ups, Torii and failures.                                 *)

\* startRunLeaseHeartbeat, from the claim until the release.
HasHeartbeat(d) == drv[d].pc \in Holding \cup {"discard"} /\ drv[d].role # "sweep"

Renew(d) ==
    /\ HasHeartbeat(d)
    /\ ~drv[d].lost
    /\ Owns(d)
    /\ run' = [run EXCEPT !.live = TRUE]
    /\ UNCHANGED <<history, followUps, torii, drv, counters>>

LoseLease(d) ==
    /\ HasHeartbeat(d)
    /\ ~drv[d].lost
    /\ ~Owns(d)
    /\ drv' = [drv EXCEPT ![d].lost = TRUE]
    /\ UNCHANGED <<run, history, followUps, torii, counters>>

\* A lease lapses because its holder is gone, or too slow to renew it.
Lapse ==
    LET held == \E d \in Drivers : /\ Holds(d) \/ At(d, "release")
                                   /\ Home[d] = run.owner
    IN  /\ run.owner # NoOne
        /\ run.live
        /\ held => Lapses
        /\ run' = [run EXCEPT !.live = FALSE]
        /\ Slipped(held, "lapse")
        /\ UNCHANGED <<history, followUps, torii, drv, outcomes, reopens, crashes, overtaken>>

\* enqueueParkedFollowUp: the run is parked, so the message may be queued.
SelectParked(m) ==
    /\ m \notin accepted \cup posting
    /\ Running
    /\ run.parked # NoCall
    /\ posting' = posting \cup {m}
    /\ UNCHANGED <<run, history, queue, accepted, torii, drv, counters>>

InsertFollowUp(m) ==
    /\ m \in posting
    /\ posting' = posting \ {m}
    /\ queue' = queue \cup {m}
    /\ accepted' = accepted \cup {m}
    /\ UNCHANGED <<run, history, torii, drv, counters>>

\* An approved task gets its result, a rejected one a denial; either expires.
ToriiSettles(c) ==
    /\ \/ torii[c] = "open" /\ \E s \in {"done", "denied", "void"} :
                                  torii' = [torii EXCEPT ![c] = s]
       \/ torii[c] \in {"done", "denied"} /\ torii' = [torii EXCEPT ![c] = "void"]
    /\ UNCHANGED <<run, history, followUps, drv, counters>>

\* A Shaiden process dies.
Crash(r) ==
    /\ crashes < MaxCrashes
    /\ \E d \in Drivers : Home[d] = r /\ ~At(d, "idle")
    /\ crashes' = crashes + 1
    /\ drv' = [d \in Drivers |-> IF Home[d] = r THEN Idle ELSE drv[d]]
    /\ UNCHANGED <<run, history, followUps, torii, outcomes, reopens, slips, overtaken>>

Arrive(d) ==
    \/ Launch(d)
    \/ ListClaimable(d)
    \/ \E m \in Messages \ (accepted \cup posting) : ReadContinuation(d, {m})
    \/ ReadContinuation(d, {})

Sweep(d) ==
    \/ PollPending(d) \/ PollTerminal(d) \/ PollFailed(d)
    \/ Repark(d) \/ Seize(d) \/ FetchHistory(d)

Drive(d) ==
    \/ Connect(d) \/ ConnectFails(d) \/ Checkpoint(d) \/ SetParkedMcpTask(d)
    \/ Hibernate(d) \/ PollResult(d) \/ RenewAfterPoll(d)
    \/ ClearParkedMcpTask(d) \/ AppendToolResult(d) \/ PushToolErrorResult(d)
    \/ DrainSelect(d) \/ DrainDelete(d) \/ CheckpointDrained(d)
    \/ \E c \in Calls : CallTool(d, c)
    \/ AssessTask(d) \/ EndTurn(d) \/ Dispatch(d) \/ StopNow(d)

Finish(d) ==
    \/ EndLoop(d) \/ CatchError(d) \/ RecordOutcome(d) \/ CompleteRun(d)
    \/ DiscardFollowUps(d) \/ ReleaseRun(d) \/ Rescue(d)

Beat(d) == Renew(d) \/ LoseLease(d)

Begin(d) == Reopen(d) \/ SetupFails(d) \/ ReadParked(d) \/ ClaimRun(d)

Environment ==
    \/ \E m \in Messages : SelectParked(m) \/ InsertFollowUp(m)
    \/ \E c \in Calls : ToriiSettles(c)
    \/ \E r \in Replicas : Crash(r)
    \/ Lapse

Next ==
    \/ Environment
    \/ \E d \in Drivers :
         Arrive(d) \/ Begin(d) \/ Sweep(d) \/ Drive(d) \/ Finish(d) \/ Beat(d)

Spec == Init /\ [][Next]_vars

\* A driver's task is still open at Torii: nothing makes a poll of it end.
Pending(d) == drv[d].pc \in {"poll", "wait"} /\ torii[drv[d].parked] = "open" /\ ~drv[d].lost

\* The next statement of a process, which never has to be a poll that goes wrong.
Proceeds(d) ==
    \/ Begin(d) \/ Repark(d) \/ Seize(d) \/ FetchHistory(d)
    \/ PollPending(d) \/ (~Pending(d) /\ Drive(d)) \/ Finish(d)

\* Every process runs to its end unless it dies, the replicas keep sweeping,
\* Torii is not unreachable at every single poll, the resuming process does not
\* fail every single time, and the lease of a dead holder expires.
Fairness ==
    /\ \A d \in Drivers : WF_vars(Proceeds(d))
    /\ SF_vars(\E d \in Drivers : ListClaimable(d))
    /\ SF_vars(\E d \in Drivers : ~Pending(d) /\ (PollTerminal(d) \/ PollFailed(d)))
    /\ SF_vars(\E d \in Drivers : ReadParked(d))
    /\ WF_vars(Lapse /\ UNCHANGED slips)

-----------------------------------------------------------------------------
(* Properties.                                                             *)

\* Two processes never drive a run at once, and the row names the replica of
\* the one that does, as long as no slow holder's lease has lapsed and neither
\* of the two unguarded writes has struck: a releaseRun that clears the lease of
\* the replica's next driver, a resumeHarnessRun that fails a run somebody else
\* has reopened (claimRun, driveHarnessRun).
SoleDriver ==
    slips = {} =>
        \A d \in Drivers : Holds(d) =>
            /\ Owns(d)
            /\ \A e \in Drivers : Holds(e) => e = d

\* Each segment of a run, from its start or a continuation to its completion,
\* records one outcome step and one attempt; only a crash between the step and
\* the row adds one (completeRunWithOutcomeStep, beginContinuation).
OutcomePerSegment ==
    /\ slips = {} => outcomes <= reopens + 1 + crashes
    /\ run.status = "completed" => outcomes >= reopens + 1

\* A completed run is neither leased nor parked, whatever sweeps, heartbeats and
\* drivers that lost it still write (complete, claimRun, setParkedMcpTask).
CompletedIsReleased ==
    run.status = "completed" => run.owner = NoOne /\ run.parked = NoCall

\* A driver that lets go of a run, because it hibernates, fails, ends or has lost the
\* lease, leaves it over, parked for the sweep to find, or driven by another:
\* nothing else ever takes up a running run again.  Only a replica that dies leaves
\* one alone, or a driver whose lease lapsed or was released under it
\* (driveHarnessRun, claimRun, listClaimableParkedMcpTasks).
LeavesNoOrphan ==
    [][\A d \in Drivers :
         (Holds(d) /\ ~Holds(d)' /\ crashes' = crashes /\ slips = {}) =>
            \/ ~Running'
            \/ run'.parked # NoCall
            \/ \E e \in Drivers : Holds(e)']_vars

\* Nothing that was stored of the transcript is lost, neither the answer to a call nor a
\* message, although every driver overwrites it whole with the copy it has: unless a
\* driver was taken for dead, or claimed a run that was not the one it had read any more
\* (setConversationHistory, resumeParkedRuns).
TranscriptKept ==
    [][slips' = {} /\ ~overtaken' =>
         history.answers \subseteq history'.answers /\ history.said \subseteq history'.said]_vars

\* With nobody dead, a running run that waits for no Torii task comes to have no driver,
\* nor one about to claim it, in one way: what is done before it is driven throws
\* (launchHarnessRun, resumeHarnessRun; driveHarnessRun, claimRun, complete).
Unattended == /\ Running /\ run.parked = NoCall
              /\ \A d \in Drivers : drv[d].pc \notin Holding \cup {"setup", "claim"}

OrphanedOnlyBySetup ==
    [][(Unattended' /\ ~Unattended /\ crashes' = 0 /\ slips' = {}) =>
         \E d \in Drivers : At(d, "setup")]_vars

\* run-lease.ts says of onLost that another replica has claimed the run after
\* expiry, or that the run left running.
LostOnlyToAnother ==
    [][\A d \in Drivers :
         (Holds(d) /\ drv'[d].lost /\ ~drv[d].lost) =>
            ~Running \/ run.owner \notin {NoOne, Home[d]}]_vars

\* The README says that every run records exactly one outcome; a continuation
\* starts the next one.
OneOutcome == outcomes <= reopens + 1

\* The README says that queued follow-ups persist and are drained before the
\* next model call: one that was accepted is queued, in the stored transcript,
\* or in the hands of a driver.
FollowUpsKept ==
    \A m \in accepted : \/ m \in queue \cup history.said
                        \/ \E d \in Drivers : m \in drv[d].hist.said

\* pending-tool-calls.ts says that every tool call has a result when a run goes
\* on: the model is not called with one unanswered.
EveryCallAnswered == \A d \in Drivers : At(d, "model") => drv[d].hist.open = NoCall

\* The README says that the result of the completed Torii task is the result of
\* the tool call: no call gets the answer of another call's task.
AnsweredByOwnTask == \A answer \in history.answers : answer[2] \in {answer[1], NoCall}

\* It is so as long as no driver is taken for dead and none claims, or re-parks, a run that was
\* not the one it had read any more, whoever crashes between the transcript's, the
\* parked task's and the lease's statements (waitForParkedResult, driveHarnessRun).
OwnAnswer == slips = {} /\ ~overtaken => AnsweredByOwnTask

\* "Every run records exactly one outcome": a running run that waits for no
\* Torii task is being driven by somebody.
NeverOrphaned ==
    Running /\ run.parked = NoCall => \E d \in Drivers : ~At(d, "idle")

\* The README says that a run ended by a human rejection is not continued.
RejectedIsFinal == [][run.outcome = "rejected" => run'.outcome = "rejected"]_vars
=============================================================================
