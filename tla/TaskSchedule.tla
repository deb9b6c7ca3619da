---------------------------- MODULE TaskSchedule ----------------------------
(***************************************************************************)
(* Shaiden's schedule: the tasks row of one scheduled task, the dispatch   *)
(* loops of all replicas that claim its due slot and start a run for it,   *)
(* the operator who edits or archives the task meanwhile, and the run that *)
(* may be in flight (apps/shaiden/src/schedule, tasks/pg-task-repository.ts*)
(* and packages/shared/src/next-run-at.ts).                                *)
(*                                                                         *)
(* One action is one statement on Postgres or one start of a run.  Times   *)
(* are 1..MaxTime; a trigger is the set of instants it fires at.  How long *)
(* a claim lasts is left out: it may lapse at any moment.                  *)
(***************************************************************************)
EXTENDS Naturals, FiniteSetsExt

CONSTANTS
    Dispatchers, \* dispatch loops, one per replica
    Editors,     \* PATCH requests that can be in flight at once
    Triggers,    \* schedules an operator may choose
    Fires,       \* the instants at which each trigger fires; none if paused
    OneShots,    \* triggers without a recurrence
    MaxTime,     \* bound: the clock
    MaxEdits,    \* bound: edits begun
    MaxCrashes,  \* bound: ticks cut short
    MaxRuns,     \* bound: runs begun or continued by an operator
    Slow         \* whether a claim may lapse under the dispatcher that has it

Time == 1..MaxTime
Never == 0

ASSUME TimeAssumption == MaxTime \in Nat \ {0}
ASSUME FiresAssumption == Fires \in [Triggers -> SUBSET Time]
ASSUME OneShotAssumption == OneShots \subseteq Triggers
ASSUME BoundsAssumption == /\ MaxEdits \in Nat /\ MaxCrashes \in Nat /\ MaxRuns \in Nat
                           /\ Slow \in BOOLEAN

VARIABLES
    clock,
    row,      \* the tasks row
    run,      \* the running run of the task, or the last one
    disp,     \* the dispatch loops
    edit,     \* the PATCH requests
    fired,    \* runs started for each slot since the operator set the trigger
    untold,   \* history: those of them that the row was not told of
    edits, crashes, runs,
    slips     \* what a dispatcher's claim has failed to keep out so far

vars == <<clock, row, run, disp, edit, fired, untold, edits, crashes, runs, slips>>
bounds == <<edits, crashes, runs>>
starts == <<fired, untold>>

MaxStartAttempts == 2

Row == [trigger : Triggers, next : Time \cup {Never}, claim : {"none", "live", "lapsed"},
        attempts : Nat, failed : BOOLEAN, archived : BOOLEAN]
Run == [running : BOOLEAN, startedAt : Time \cup {Never}]

\* A dispatcher keeps the tick's now, the running run it listed, and the
\* trigger and slot of the row it read.
Dispatcher == [pc : {"idle", "list", "get", "clear", "defer", "start", "advance", "skip",
                     "fail"},
               now : Time \cup {Never}, busySince : Time \cup {Never},
               trigger : Triggers, next : Time \cup {Never}]
Editor == [pc : {"idle", "update"}, now : Time \cup {Never}, old : Triggers,
           new : Triggers, next : Time \cup {Never}]
Slip == {"slow", "stale", "reset"}

TypeOK ==
    /\ clock \in Time
    /\ row \in Row
    /\ run \in Run
    /\ disp \in [Dispatchers -> Dispatcher]
    /\ edit \in [Editors -> Editor]
    /\ fired \in [Time -> Nat] /\ untold \in [Time -> Nat]
    /\ edits \in 0..MaxEdits /\ crashes \in 0..MaxCrashes /\ runs \in 0..MaxRuns
    /\ slips \in SUBSET Slip

-----------------------------------------------------------------------------
(* Mutated forms of single definitions: bugs the properties must notice.   *)

\* nextRunAt looks at or after the fire, not strictly after it.
NextRunAtInclusive(t, from, after) ==
    LET eligible == {f \in Fires[t] : f >= from}
    IN  IF eligible = {} THEN Never ELSE Min(eligible)

\* A changed trigger keeps the slot of the old one.
KeepsSlot(old, next, new, now) == next

-----------------------------------------------------------------------------
(* next-run-at.ts                                                          *)

\* The first instant of trigger t at or after from, or strictly after it.
NextRunAt(t, from, after) ==
    LET eligible == {f \in Fires[t] : IF after THEN f > from ELSE f >= from}
    IN  IF eligible = {} THEN Never ELSE Min(eligible)

\* The row after an edit: an unchanged trigger keeps the slot that was read.
NextRunAtAfterUpdate(old, next, new, now) ==
    IF new = old THEN next ELSE NextRunAt(new, now, FALSE)

\* oneShotMustBeFutureError
MustBeFuture(t, now) == t \in OneShots => \A f \in Fires[t] : f > now

IdleDispatcher(t) == [pc |-> "idle", now |-> Never, busySince |-> Never,
                      trigger |-> t, next |-> Never]
IdleEditor(t) == [pc |-> "idle", now |-> Never, old |-> t, new |-> t, next |-> Never]
AnyTrigger == CHOOSE t \in Triggers : TRUE

Init ==
    /\ clock = 1
    /\ \E t \in Triggers :
         /\ MustBeFuture(t, clock)
         /\ row = [trigger |-> t, next |-> NextRunAt(t, clock, FALSE), claim |-> "none",
                   attempts |-> 0, failed |-> FALSE, archived |-> FALSE]
    /\ run = [running |-> FALSE, startedAt |-> Never]
    /\ disp = [d \in Dispatchers |-> IdleDispatcher(AnyTrigger)]
    /\ edit = [e \in Editors |-> IdleEditor(AnyTrigger)]
    /\ fired = [slot \in Time |-> 0] /\ untold = fired
    /\ edits = 0 /\ crashes = 0 /\ runs = 0
    /\ slips = {}

At(d, p) == disp[d].pc = p
Move(d, p) == disp' = [disp EXCEPT ![d].pc = p]
Leave(d) == disp' = [disp EXCEPT ![d] = IdleDispatcher(AnyTrigger)]
Slipped(cond, kind) == slips' = IF cond THEN slips \cup {kind} ELSE slips

\* Notes that the row will not hear of the run that dispatcher d has started.
Untold(d) == untold' = [untold EXCEPT ![disp[d].next] = @ + 1]

-----------------------------------------------------------------------------
(* Mutated forms of what a dispatcher does.                                *)

\* claimDueTasks takes a row whose claim is still live.
DueUnclaimed == /\ row.next # Never /\ row.next <= clock
                /\ ~row.archived /\ ~row.failed

\* claimDueTasks never takes over an expired claim.
DueNeverClaimed == DueUnclaimed /\ row.claim = "none"

-----------------------------------------------------------------------------
(* A dispatcher's tick, as far as it concerns this task.                   *)

\* WHERE next_run_at <= now AND archived_at IS NULL AND schedule_failed_at IS
\* NULL AND (schedule_claim_until IS NULL OR schedule_claim_until <= now)
Due == /\ row.next # Never /\ row.next <= clock
       /\ ~row.archived /\ ~row.failed
       /\ row.claim # "live"

ClaimDueTasks(d) ==
    /\ At(d, "idle")
    /\ Due
    /\ row' = [row EXCEPT !.claim = "live"]
    /\ disp' = [disp EXCEPT ![d] = [@ EXCEPT !.pc = "list", !.now = clock]]
    /\ UNCHANGED <<clock, run, edit, starts, bounds, slips>>

ListRunningRuns(d) ==
    /\ At(d, "list")
    /\ disp' = [disp EXCEPT ![d] =
                  [@ EXCEPT !.pc = "get",
                            !.busySince = IF run.running THEN run.startedAt ELSE Never]]
    /\ UNCHANGED <<clock, row, run, edit, starts, bounds, slips>>

\* fireClaimedTask reads the task again and decides: a run that covers the slot
\* uses it up, an older run defers it, no run starts one.
GetTask(d) ==
    /\ At(d, "get")
    /\ LET busySince == disp[d].busySince
           p == IF row.next = Never \/ row.next > disp[d].now THEN "clear"
                ELSE IF busySince = Never THEN "start"
                ELSE IF busySince >= row.next THEN "skip" ELSE "defer"
       IN  IF row.archived \/ row.failed
           THEN Leave(d)
           ELSE disp' = [disp EXCEPT ![d] = [@ EXCEPT !.pc = p, !.trigger = row.trigger,
                                                      !.next = row.next]]
    /\ UNCHANGED <<clock, row, run, edit, starts, bounds, slips>>

\* deferScheduleClaim: the slot has moved on, or waits for an older run.
DeferScheduleClaim(d) ==
    /\ At(d, "clear") \/ At(d, "defer")
    /\ row' = IF row.archived THEN row
              ELSE [row EXCEPT !.claim = IF At(d, "clear") THEN "none" ELSE "live"]
    /\ Leave(d)
    /\ UNCHANGED <<clock, run, edit, starts, bounds, slips>>

\* launchHarnessRun: one running run per task, by a unique index.  It may throw though it
\* has created the run, while it stores the first transcript.
StartTaskRun(d) ==
    /\ At(d, "start")
    /\ \/ /\ run.running
          /\ Move(d, "skip")
          /\ UNCHANGED <<run, starts>>
       \/ /\ ~run.running
          /\ run' = [running |-> TRUE, startedAt |-> clock]
          /\ fired' = [fired EXCEPT ![disp[d].next] = @ + 1]
          /\ \/ Move(d, "advance") /\ UNCHANGED untold
             \/ Move(d, "fail") /\ Untold(d)
    /\ UNCHANGED <<clock, row, edit, bounds, slips>>

\* It may fail before it has created the run: no agent definition, no key.
StartFails(d) ==
    /\ At(d, "start")
    /\ Move(d, "fail")
    /\ UNCHANGED <<clock, row, run, edit, starts, bounds, slips>>

\* recordScheduleSuccess, with the slot computed from the trigger that was read.
RecordScheduleSuccess(d) ==
    /\ At(d, "advance") \/ At(d, "skip")
    /\ row' = IF row.archived THEN row
              ELSE [row EXCEPT !.next = NextRunAt(disp[d].trigger, disp[d].now, TRUE),
                               !.claim = "none", !.attempts = 0, !.failed = FALSE]
    /\ Slipped(row.trigger # disp[d].trigger, "stale")
    /\ Leave(d)
    /\ UNCHANGED <<clock, run, edit, starts, bounds>>

\* When it throws, the catch takes a run that was started for one that was not.
AdvanceFails(d) ==
    /\ At(d, "advance")
    /\ Move(d, "fail")
    /\ Untold(d)
    /\ UNCHANGED <<clock, row, run, edit, fired, bounds, slips>>

\* The first failed start is retried once its claim lapses, the second one
\* fails the schedule.
RecordScheduleStartFailure(d) ==
    /\ At(d, "fail")
    /\ row' = CASE row.archived -> row
                [] ~row.archived /\ row.attempts + 1 >= MaxStartAttempts ->
                     [row EXCEPT !.attempts = @ + 1, !.claim = "none", !.next = Never,
                                 !.failed = TRUE]
                [] OTHER -> [row EXCEPT !.attempts = @ + 1, !.claim = "live"]
    /\ Leave(d)
    /\ UNCHANGED <<clock, run, edit, starts, bounds, slips>>

-----------------------------------------------------------------------------
(* The operator: PATCH, DELETE, a run by hand, a continuation.             *)

\* PATCH reads the task; t is its trigger when only other fields are edited.
ReadForUpdate(e, t) ==
    /\ edit[e].pc = "idle"
    /\ edits < MaxEdits
    /\ ~row.archived
    /\ t # row.trigger => MustBeFuture(t, clock)
    /\ edits' = edits + 1
    /\ edit' = [edit EXCEPT ![e] = [pc |-> "update", now |-> clock, old |-> row.trigger,
                                    new |-> t, next |-> row.next]]
    /\ UNCHANGED <<clock, row, run, disp, starts, crashes, runs, slips>>

\* UPDATE tasks SET (trigger and slot as read and merged) WHERE id = ...; a
\* changed trigger also resets the claim, whoever is working under it.
UpdateTask(e) ==
    LET old == edit[e].old
        new == edit[e].new
        inUse == \E d \in Dispatchers : ~At(d, "idle")
        moved == [row EXCEPT !.trigger = new,
                             !.next = NextRunAtAfterUpdate(old, edit[e].next, new,
                                                           edit[e].now)]
    IN  /\ edit[e].pc = "update"
        /\ row' = IF new = old THEN moved
                  ELSE [moved EXCEPT !.claim = "none", !.attempts = 0, !.failed = FALSE]
        /\ slips' = slips
             \cup (IF row.trigger # old \/ row.next # edit[e].next THEN {"stale"} ELSE {})
             \cup (IF new # old /\ inUse THEN {"reset"} ELSE {})
        /\ edit' = [edit EXCEPT ![e] = IdleEditor(AnyTrigger)]
        /\ IF new = old THEN UNCHANGED starts
           ELSE fired' = [slot \in Time |-> 0] /\ untold' = fired'
        /\ UNCHANGED <<clock, run, disp, bounds>>

Archive ==
    /\ ~row.archived
    /\ row' = [row EXCEPT !.archived = TRUE, !.next = Never, !.claim = "none",
                          !.attempts = 0, !.failed = FALSE]
    /\ UNCHANGED <<clock, run, disp, edit, starts, bounds, slips>>

\* POST /api/tasks/:taskId/run: a new run of the task.
RunByHand ==
    /\ runs < MaxRuns
    /\ ~run.running
    /\ ~row.archived
    /\ run' = [running |-> TRUE, startedAt |-> clock]
    /\ runs' = runs + 1
    /\ UNCHANGED <<clock, row, disp, edit, starts, edits, crashes, slips>>

\* beginContinuation: the last run goes on, with the start it had.
ContinueRun ==
    /\ runs < MaxRuns
    /\ ~run.running
    /\ run.startedAt # Never
    /\ run' = [run EXCEPT !.running = TRUE]
    /\ runs' = runs + 1
    /\ UNCHANGED <<clock, row, disp, edit, starts, edits, crashes, slips>>

-----------------------------------------------------------------------------
(* Time and failures.                                                      *)

Tick ==
    /\ clock < MaxTime
    /\ clock' = clock + 1
    /\ UNCHANGED <<row, run, disp, edit, starts, bounds, slips>>

LapseClaim ==
    LET inUse == \E d \in Dispatchers : ~At(d, "idle")
    IN  /\ row.claim = "live"
        /\ inUse => Slow
        /\ row' = [row EXCEPT !.claim = "lapsed"]
        /\ Slipped(inUse, "slow")
        /\ UNCHANGED <<clock, run, disp, edit, starts, bounds>>

CompleteRun ==
    /\ run.running
    /\ run' = [run EXCEPT !.running = FALSE]
    /\ UNCHANGED <<clock, row, disp, edit, starts, bounds, slips>>

\* The process dies, or a statement throws out of the tick: one about this task that no catch
\* takes, or one about a task before it in the list.  The claim stays as it is.
Crash(d) ==
    /\ ~At(d, "idle")
    /\ crashes < MaxCrashes
    /\ crashes' = crashes + 1
    /\ IF At(d, "advance") THEN Untold(d) ELSE UNCHANGED untold
    /\ Leave(d)
    /\ UNCHANGED <<clock, row, run, edit, fired, edits, runs, slips>>

Dispatch(d) ==
    \/ ListRunningRuns(d) \/ GetTask(d) \/ DeferScheduleClaim(d)
    \/ StartTaskRun(d) \/ StartFails(d)
    \/ RecordScheduleSuccess(d) \/ AdvanceFails(d) \/ RecordScheduleStartFailure(d)

Operate ==
    \/ \E e \in Editors : (\E t \in Triggers : ReadForUpdate(e, t)) \/ UpdateTask(e)
    \/ Archive \/ RunByHand \/ ContinueRun

Next ==
    \/ \E d \in Dispatchers : ClaimDueTasks(d) \/ Dispatch(d) \/ Crash(d)
    \/ Operate
    \/ Tick \/ LapseClaim \/ CompleteRun

Spec == Init /\ [][Next]_vars

\* A loop that is not cut short by a crash runs its tick to the end, some loop
\* starts another tick (it sleeps at most 30 s), and a claim lapses.
Fairness == /\ \A d \in Dispatchers : WF_vars(Dispatch(d))
            /\ WF_vars(\E d \in Dispatchers : ClaimDueTasks(d))
            /\ WF_vars(LapseClaim)

FairSpec == Spec /\ Fairness

-----------------------------------------------------------------------------
(* Properties.                                                             *)

\* A slot starts one run, and one more for every start that the row was not told of: its
\* dispatcher died, or the launch or the record of it threw.  With those it is two, as many as
\* a schedule has attempts, and one more for each tick cut short, however many replicas find
\* the slot due and however often it is deferred or retried.  Exempt are claims kept too long,
\* and edits that cross another write or take the claim away (claimDueTasks,
\* recordScheduleSuccess, recordScheduleStartFailure).
SlotFiredOnce ==
    slips = {} => \A slot \in Time : /\ fired[slot] <= 1 + untold[slot]
                                    /\ fired[slot] <= MaxStartAttempts + crashes

\* The row waits for an instant of its own trigger, in particular for none when
\* the operator has paused it, unless an edit and another write have crossed
\* (nextRunAtAfterUpdate, recordScheduleSuccess).
WaitsForOwnSlot ==
    "stale" \notin slips => row.next \in Fires[row.trigger] \cup {Never}

\* A due slot is settled: a run is started for it, or one in flight takes it,
\* or the schedule fails, or the operator changes it, even if the dispatcher
\* that claimed it dies (startScheduleDispatcher, claimDueTasks).
DueSlotSettles ==
    \A s \in Time :
        (row.next = s /\ s <= clock /\ ~row.failed /\ ~row.archived)
            ~> (row.next # s \/ row.failed \/ row.archived \/ run.running)

\* next-run-at.ts says that a slot cannot fire again after it has fired.
NeverFiresAgain == \A slot \in Time : fired[slot] <= 1

\* task-repository.ts says that the second failed start stops the schedule:
\* only the operator sets it going again.
StopsForGood ==
    [][(row.failed /\ ~row'.failed) =>
          row'.archived \/ \E e \in Editors : edit[e].pc = "update" /\ edit'[e].pc = "idle"]_vars

\* schedule-dispatcher.test.ts: "does not start a task archived after claim".
ArchivedIsNotStarted == [][(\E slot \in Time : fired'[slot] > fired[slot]) => ~row.archived]_vars

\* schedule-dispatcher.test.ts: "defers when an older run is still in flight":
\* no slot is used up by a run that had started before it.
OlderRunDefers ==
    [][\A d \in Dispatchers :
         (At(d, "start") /\ disp'[d].pc = "skip")
            => run.startedAt >= disp[d].next]_vars
=============================================================================
