------------------------------ MODULE GatedRun ------------------------------
(***************************************************************************)
(* A run of Shaiden and the Torii it calls: RunLifecycle, in which a       *)
(* parked call settles when it likes, joined with what ApprovedCall says   *)
(* Torii does with it.  They meet in three places: tools/call parks the    *)
(* call; tasks/get, sent by a sweep or a waiting driver, is what makes     *)
(* Torii execute a call once it is approved; and the task's status is      *)
(* what Shaiden reads.  Nothing happens to an approved call that nobody    *)
(* polls.                                                                  *)
(*                                                                         *)
(* Every parked call is a gated one here, and Torii's requests run to      *)
(* their end: GatedCalls has their statements and their failures.          *)
(***************************************************************************)
EXTENDS RunLifecycle

VARIABLES
    decision, sent, \* of ApprovedCall
    asked,          \* tasks/get at Torii for a call, and whether it claimed the approval
    strayed,        \* history: a stale poll has re-parked, failed or resumed the run
    disowned        \* history: the calls of which Torii turned a poll down while they were open

avars == <<decision, sent>>
histories == <<strayed, disowned>>
jointVars == <<vars, avars, asked, histories>>

Torii == INSTANCE ApprovedCall WITH Tasks <- Calls

JointInit ==
    /\ Init
    /\ Torii!AInit
    /\ asked = [c \in Calls |-> "no"]
    /\ strayed = FALSE
    /\ disowned = {}

-----------------------------------------------------------------------------
(* Shaiden.                                                                *)

Alone ==
    \/ \E m \in Messages : SelectParked(m) \/ InsertFollowUp(m)
    \/ \E r \in Replicas : Crash(r)
    \/ Lapse
    \/ \E d \in Drivers :
         Arrive(d) \/ Begin(d) \/ Sweep(d) \/ Drive(d) \/ Finish(d) \/ Beat(d)

\* Mutated form: the task counts as completed as soon as a poll has claimed its approval.
LooksTooDone(c) ==
    /\ asked[c] = "asked"
    /\ LET claims == decision[c] = "approved" /\ torii[c] = "open"
       IN  /\ asked' = [asked EXCEPT ![c] = IF claims THEN "executing" ELSE "no"]
           /\ torii' = IF claims THEN [torii EXCEPT ![c] = "done"] ELSE torii
    /\ UNCHANGED <<run, history, followUps, drv, counters, avars, histories>>

\* Shaiden acts on its poll of a call from which the run has moved on: it re-parks, fails
\* or claims the run, or takes up the call that it is parked on now.
Strays(d) ==
    /\ drv[d].parked # run.parked
    /\ \/ drv[d].pc \in {"repark", "seize", "claim"} /\ drv'[d] # drv[d] /\ run' # run
       \/ At(d, "setup") /\ At(d, "claim")' /\ run.parked # NoCall

\* Shaiden gives an open call up: Torii did not know the caller of the poll, or did not
\* like its headers, which Shaiden takes for the end of the task.
Disowns(d) == /\ PollFailed(d) \/ (PollResult(d) /\ ~drv[d].lost)
              /\ torii[drv[d].parked] = "open"

Opens(c) == torii[c] # "open" /\ torii'[c] = "open"

\* Shaiden takes a step; a tools/call that comes back with a task has parked the call.
Shaiden ==
    /\ Alone
    /\ \/ \E c \in Calls : Opens(c) /\ Torii!Park(c)
       \/ (\A c \in Calls : ~Opens(c)) /\ UNCHANGED avars
    /\ strayed' = (strayed \/ \E d \in Drivers : Strays(d))
    /\ disowned' = disowned \cup {c \in Calls : \E d \in Drivers : Disowns(d) /\ c = drv[d].parked}
    /\ UNCHANGED asked

\* getTask of the sweep and of a waiting driver.
Asks(d) ==
    /\ drv[d].pc \in {"poll", "wait"}
    /\ torii[drv[d].parked] = "open" /\ asked[drv[d].parked] = "no"
    /\ asked' = [asked EXCEPT ![drv[d].parked] = "asked"]
    /\ UNCHANGED <<vars, avars, histories>>

-----------------------------------------------------------------------------
(* Torii.                                                                  *)

Status(c, s) ==
    /\ torii' = [torii EXCEPT ![c] = s]
    /\ UNCHANGED <<run, history, followUps, drv, counters>>

\* The operator decides on a call that has not expired.
Decides(c) ==
    /\ torii[c] = "open"
    /\ Torii!Approve(c) \/ Torii!Refuse(c)
    /\ UNCHANGED <<vars, asked, histories>>

\* A rejection completes the task with a denial, a cancellation cancels it.
Refuses(c) ==
    /\ decision[c] = "refused" /\ torii[c] = "open"
    /\ \E s \in {"denied", "void"} : Status(c, s)
    /\ UNCHANGED <<avars, asked, histories>>

\* A tasks/get claims an approval, or reports the task as it is.
Looks(c) ==
    /\ asked[c] = "asked"
    /\ asked' = [asked EXCEPT ![c] = IF decision[c] = "approved" /\ torii[c] = "open"
                                     THEN "executing" ELSE "no"]
    /\ UNCHANGED <<vars, avars, histories>>

\* The backend receives the call.
Executes(c) ==
    /\ asked[c] = "executing"
    /\ Torii!Send(c)
    /\ UNCHANGED <<vars, asked, histories>>

\* Its answer, or that it could not be reached, is stored in the task, unless the task
\* has expired; a task that asks for input is of no use.
Answers(c) ==
    /\ asked[c] = "executing"
    /\ asked' = [asked EXCEPT ![c] = "no"]
    /\ IF torii[c] = "open" THEN \E s \in {"done", "void"} : Status(c, s) ELSE UNCHANGED vars
    /\ UNCHANGED <<avars, histories>>

Expires(c) ==
    /\ torii[c] \in {"open", "done", "denied"}
    /\ Status(c, "void")
    /\ UNCHANGED <<avars, asked, histories>>

Serves(c) == Refuses(c) \/ Looks(c) \/ Executes(c) \/ Answers(c)

JointNext ==
    \/ Shaiden
    \/ \E d \in Drivers : Asks(d)
    \/ \E c \in Calls : Decides(c) \/ Serves(c) \/ Expires(c)

JointSpec == JointInit /\ [][JointNext]_jointVars

\* On top of what Shaiden's processes do: Torii serves what it has begun, and not every
\* single poll is lost on its way there.
JointFairness ==
    /\ Fairness
    /\ \A c \in Calls : /\ WF_jointVars(Refuses(c))
                        /\ WF_jointVars(Looks(c))
                        /\ WF_jointVars(Answers(c))
                        /\ SF_jointVars(\E d \in Drivers : Asks(d) /\ drv[d].parked = c)

FairJointSpec == JointSpec /\ JointFairness

-----------------------------------------------------------------------------
(* Properties.                                                             *)

\* An operator's decision reaches the run: once the call that a run is parked on is
\* approved or refused, or its task is over, the run is taken up again, by
\* this replica or another, though the one that resumed it first may die.  The
\* call is executed on the way, and only because sweeps go on polling.
DecidedParkIsPickedUp ==
    \A c \in Calls :
        (run.parked = c /\ (decision[c] \in {"approved", "refused"} \/ torii[c] = "void"))
            ~> run.parked # c

\* A call is executed for a run that still waits for it: an approval that comes after the
\* run has ended, stopped or gone on is without effect.  A call may be executed for nobody
\* in four ways only: its task expires while Torii executes it, Torii turned a poll of that
\* very call down while it was open, or its run was taken from under its driver, or
\* re-parked, failed or resumed for an older call.
ExecutedForItsRun ==
    [][\A c \in Calls :
         (sent'[c] # sent[c] /\ slips = {} /\ ~strayed) =>
            \/ Running /\ run.parked = c
            \/ torii[c] = "void"
            \/ c \in disowned]_jointVars

\* The README says of a parked run that a dropped poll is a retry and that the completed
\* task's result is the tool result: no call is executed after its run is over.
NotAfterTheRun ==
    [][\A c \in Calls :
         (sent'[c] # sent[c] /\ slips = {} /\ ~strayed) =>
            Running \/ torii[c] = "void"]_jointVars
=============================================================================
