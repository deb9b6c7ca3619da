------------------------- MODULE TaskScheduleProofs -------------------------
(***************************************************************************)
(* Proofs about TaskSchedule, for any number of replicas, editors,         *)
(* triggers and bounds.                                                    *)
(*                                                                         *)
(* That the row waits for a slot of its own trigger is inductive with the  *)
(* types.  That a slot starts one run is not: it rests on the claim, which *)
(* keeps every other dispatcher out while one is at work (Neat), on the    *)
(* slot staying the one that was read, and on the next slot being strictly *)
(* later than the tick (NextRunAtFound), all of it until the first slip.   *)
(*                                                                         *)
(* Of the calendar search under the slots (ScheduleSlots): a slot keeps    *)
(* the wall time, the first date has the first slot, no slot is before the *)
(* date the search begins with, and a schedule is due within a year.       *)
(***************************************************************************)
EXTENDS ScheduledTask, WellFoundedInduction, TLAPS

\* A set of instants that is not empty has a least one, and Min is that one.
LEMMA LeastInstant ==
    ASSUME NEW S \in SUBSET Nat, S # {}
    PROVE  Min(S) \in S /\ \A u \in S : Min(S) <= u
<1>1. PICK least \in S : \A u \in S : ~(<<u, least>> \in OpToRel(<, Nat))
  BY NatLessThanWellFounded, WFMin
<1>2. \A u, v \in Nat : <<u, v>> \in OpToRel(<, Nat) <=> u < v
  BY DEF OpToRel
<1>3. ASSUME NEW u \in S PROVE least <= u
  <2>1. u \in Nat /\ least \in Nat /\ ~(u < least)
    BY <1>1, <1>2
  <2> QED BY <2>1
<1>4. \E x \in S : \A u \in S : x <= u
  BY <1>3
<1>5. Min(S) = CHOOSE x \in S : \A u \in S : x <= u
  BY DEF Min
<1> QED BY <1>4, <1>5

\* The next slot of a trigger is an instant of that trigger, not before the
\* instant the search began at, and after it if the search was strict.
LEMMA NextRunAtFound ==
    ASSUME NEW t \in Triggers, NEW from \in Nat, NEW after \in BOOLEAN
    PROVE  LET next == NextRunAt(t, from, after)
           IN  /\ next \in Fires[t] \cup {Never}
               /\ next \in Time \cup {Never}
               /\ next # Never => next >= from /\ (after => next > from)
<1> DEFINE eligible == {f \in Fires[t] : IF after THEN f > from ELSE f >= from}
<1>1. Fires[t] \subseteq Time /\ Time \subseteq Nat
  BY FiresAssumption DEF Time
<1>2. CASE eligible = {}
  BY <1>2 DEF NextRunAt, Never
<1>3. CASE eligible # {}
  <2>1. NextRunAt(t, from, after) = Min(eligible)
    BY <1>3 DEF NextRunAt
  <2>2. Min(eligible) \in eligible
    BY <1>1, <1>3, LeastInstant
  <2>3. Min(eligible) \in Fires[t] /\ Min(eligible) \in Nat
    BY <1>1, <2>2
  <2>4. Min(eligible) >= from /\ (after => Min(eligible) > from)
    <3>1. CASE after
      BY <2>2, <2>3, <3>1
    <3>2. CASE ~after
      BY <2>2, <2>3, <3>2
    <3> QED BY <3>1, <3>2
  <2> HIDE DEF eligible
  <2> QED BY <1>1, <2>1, <2>2, <2>3, <2>4
<1> QED BY <1>2, <1>3

-----------------------------------------------------------------------------
(* The tables keep their types.                                            *)

\* A dispatcher or an editor that is done is idle again.
LEMMA IdleTypes ==
    ASSUME row \in Row
    PROVE  /\ AnyTrigger \in Triggers
           /\ IdleDispatcher(AnyTrigger) \in Dispatcher
           /\ IdleEditor(AnyTrigger) \in Editor
           /\ IdleDispatcher(AnyTrigger).pc = "idle"
<1>1. AnyTrigger \in Triggers
  <2>1. row.trigger \in Triggers
    BY DEF Row
  <2> QED BY <2>1 DEF AnyTrigger
<1> QED BY <1>1 DEF IdleDispatcher, Dispatcher, IdleEditor, Editor

\* What a failed start, an archived task and a lapsed claim make of the row.
LEMMA RowTypes ==
    ASSUME row \in Row
    PROVE  /\ [row EXCEPT !.attempts = @ + 1, !.claim = "live"] \in Row
           /\ [row EXCEPT !.attempts = @ + 1, !.claim = "none", !.next = Never,
                          !.failed = TRUE] \in Row
           /\ [row EXCEPT !.archived = TRUE, !.next = Never, !.claim = "none",
                          !.attempts = 0, !.failed = FALSE] \in Row
           /\ [row EXCEPT !.claim = "lapsed"] \in Row
<1>1. row.attempts + 1 \in Nat
  BY DEF Row
<1>2. /\ [row EXCEPT !.attempts = @ + 1, !.claim = "live"] \in Row
      /\ [row EXCEPT !.claim = "lapsed"] \in Row
  BY <1>1 DEF Row
<1>3. [row EXCEPT !.attempts = @ + 1, !.claim = "none", !.next = Never,
                  !.failed = TRUE] \in Row
  BY <1>1 DEF Row
<1>4. [row EXCEPT !.archived = TRUE, !.next = Never, !.claim = "none",
                  !.attempts = 0, !.failed = FALSE] \in Row
  BY DEF Row
<1> QED BY <1>2, <1>3, <1>4

\* What an edit makes of the row.
LEMMA EditTypes ==
    ASSUME row \in Row, NEW t \in Triggers, NEW next \in Time \cup {Never}
    PROVE  /\ [row EXCEPT !.trigger = t, !.next = next] \in Row
           /\ [[row EXCEPT !.trigger = t, !.next = next]
                  EXCEPT !.claim = "none", !.attempts = 0, !.failed = FALSE] \in Row
<1> DEFINE moved == [row EXCEPT !.trigger = t, !.next = next]
<1>1. moved \in Row
  BY DEF Row
<1> HIDE DEF moved
<1>2. [moved EXCEPT !.claim = "none", !.attempts = 0, !.failed = FALSE] \in Row
  BY <1>1 DEF Row
<1> QED BY <1>1, <1>2 DEF moved

\* A run that starts, goes on or ends.
LEMMA RunTypes ==
    ASSUME run \in Run, clock \in Time
    PROVE  /\ [running |-> TRUE, startedAt |-> clock] \in Run
           /\ \A b \in BOOLEAN : [run EXCEPT !.running = b] \in Run
BY DEF Run

\* A start that the row is not told of is counted.
LEMMA UntoldType ==
    ASSUME TypeOK, NEW d \in Dispatchers, Untold(d)
    PROVE  untold' \in [Time -> Nat]
<1>1. untold \in [Time -> Nat]
  BY DEF TypeOK
<1>2. ASSUME NEW x PROVE [untold EXCEPT ![x] = untold[x] + 1] \in [Time -> Nat]
  <2>1. CASE x \in Time
    BY <1>1, <2>1
  <2>2. CASE x \notin Time
    BY <1>1, <2>2
  <2> QED BY <2>1, <2>2
<1> QED BY <1>2 DEF Untold

\* Initially every table has its type.
LEMMA InitTypeOK == Init => TypeOK
<1> SUFFICES ASSUME Init PROVE TypeOK
  OBVIOUS
<1>1. PICK t \in Triggers :
         row = [trigger |-> t, next |-> NextRunAt(t, clock, FALSE), claim |-> "none",
                attempts |-> 0, failed |-> FALSE, archived |-> FALSE]
  BY DEF Init
<1>2. clock = 1 /\ clock \in Time
  BY TimeAssumption DEF Init, Time
<1>3. NextRunAt(t, clock, FALSE) \in Time \cup {Never}
  BY <1>2, NextRunAtFound
<1>4. row \in Row
  BY <1>1, <1>3 DEF Row
<1>5. disp \in [Dispatchers -> Dispatcher] /\ edit \in [Editors -> Editor]
  BY <1>4, IdleTypes DEF Init
<1>6. run \in Run /\ fired \in [Time -> Nat] /\ untold \in [Time -> Nat]
  BY DEF Init, Run
<1>7. /\ edits \in 0..MaxEdits /\ crashes \in 0..MaxCrashes /\ runs \in 0..MaxRuns
      /\ slips \in SUBSET Slip
  BY BoundsAssumption DEF Init
<1> QED BY <1>2, <1>4, <1>5, <1>6, <1>7 DEF TypeOK

\* Every step of a dispatcher keeps the types.
LEMMA DispatcherTypes ==
    ASSUME TypeOK, NEW d \in Dispatchers, ClaimDueTasks(d) \/ Dispatch(d) \/ Crash(d)
    PROVE  TypeOK'
<1>0. /\ row \in Row /\ disp[d] \in Dispatcher /\ clock \in Time /\ clock \in Nat
      /\ disp[d].now \in Nat /\ disp[d].trigger \in Triggers
  BY DEF TypeOK, Dispatcher, Time, Never
<1>a. ASSUME NEW x \in Dispatcher, disp' = [disp EXCEPT ![d] = x]
      PROVE  disp' \in [Dispatchers -> Dispatcher]
  BY <1>a DEF TypeOK
<1>b. ASSUME Leave(d) PROVE disp' \in [Dispatchers -> Dispatcher]
  BY <1>0, <1>b, IdleTypes, <1>a DEF Leave
<1>1. CASE ClaimDueTasks(d)
  <2>1. [disp[d] EXCEPT !.pc = "list", !.now = clock] \in Dispatcher
    BY <1>0 DEF Dispatcher
  <2>2. disp' \in [Dispatchers -> Dispatcher]
    BY <1>1, <1>a, <2>1 DEF ClaimDueTasks
  <2>3. row' \in Row
    BY <1>0, <1>1 DEF ClaimDueTasks, Row
  <2> QED BY <1>1, <2>2, <2>3 DEF ClaimDueTasks, TypeOK, bounds, starts
<1>2. CASE ListRunningRuns(d)
  <2> DEFINE since == IF run.running THEN run.startedAt ELSE Never
  <2>1. [disp[d] EXCEPT !.pc = "get", !.busySince = since] \in Dispatcher
    BY <1>0 DEF Dispatcher, TypeOK, Run
  <2>2. disp' \in [Dispatchers -> Dispatcher]
    BY <1>2, <1>a, <2>1 DEF ListRunningRuns
  <2> QED BY <1>2, <2>2 DEF ListRunningRuns, TypeOK, bounds, starts
<1>3. CASE GetTask(d)
  <2>1. ASSUME NEW p \in {"clear", "start", "skip", "defer"},
               disp' = [disp EXCEPT ![d] = [@ EXCEPT !.pc = p, !.trigger = row.trigger,
                                                     !.next = row.next]]
        PROVE  disp' \in [Dispatchers -> Dispatcher]
    <3>1. [disp[d] EXCEPT !.pc = p, !.trigger = row.trigger, !.next = row.next] \in Dispatcher
      BY <1>0 DEF Dispatcher, Row
    <3> QED BY <1>a, <2>1, <3>1
  <2>2. disp' \in [Dispatchers -> Dispatcher]
    BY <1>3, <1>b, <2>1 DEF GetTask
  <2> QED BY <1>3, <2>2 DEF GetTask, TypeOK, bounds, starts
<1>4. CASE DeferScheduleClaim(d)
  <2>1. row' \in Row
    BY <1>0, <1>4 DEF DeferScheduleClaim, Row
  <2> QED BY <1>4, <1>b, <2>1 DEF DeferScheduleClaim, TypeOK, bounds, starts
<1>5. CASE StartTaskRun(d)
  <2>1. \A p \in {"skip", "advance", "fail"} : [disp[d] EXCEPT !.pc = p] \in Dispatcher
    BY <1>0 DEF Dispatcher
  <2>2. disp' \in [Dispatchers -> Dispatcher]
    BY <1>5, <1>a, <2>1 DEF StartTaskRun, Move
  <2>3. run' \in Run
    BY <1>0, <1>5, RunTypes DEF StartTaskRun, TypeOK
  <2>4. fired' \in [Time -> Nat] /\ untold' \in [Time -> Nat]
    BY <1>5, UntoldType DEF StartTaskRun, TypeOK, starts
  <2> QED BY <1>5, <2>2, <2>3, <2>4 DEF StartTaskRun, TypeOK, bounds, starts
<1>6. CASE StartFails(d)
  <2>1. [disp[d] EXCEPT !.pc = "fail"] \in Dispatcher
    BY <1>0 DEF Dispatcher
  <2>2. disp' \in [Dispatchers -> Dispatcher]
    BY <1>6, <1>a, <2>1 DEF StartFails, Move
  <2> QED BY <1>6, <2>2 DEF StartFails, TypeOK, bounds, starts
<1>7. CASE RecordScheduleSuccess(d)
  <2>1. NextRunAt(disp[d].trigger, disp[d].now, TRUE) \in Time \cup {Never}
    BY <1>0, NextRunAtFound
  <2>2. row' \in Row
    BY <1>0, <1>7, <2>1 DEF RecordScheduleSuccess, Row
  <2>3. slips' \in SUBSET Slip
    BY <1>7 DEF RecordScheduleSuccess, Slipped, Slip, TypeOK
  <2> QED BY <1>7, <1>b, <2>2, <2>3 DEF RecordScheduleSuccess, TypeOK, bounds, starts
<1>8. CASE RecordScheduleStartFailure(d)
  <2>1. row' \in Row
    BY <1>0, <1>8, RowTypes DEF RecordScheduleStartFailure
  <2> QED BY <1>8, <1>b, <2>1 DEF RecordScheduleStartFailure, TypeOK, bounds, starts
<1>9. CASE Crash(d)
  <2>1. crashes' \in 0..MaxCrashes
    BY <1>9, BoundsAssumption DEF Crash, TypeOK
  <2>2. untold' \in [Time -> Nat]
    BY <1>9, UntoldType DEF Crash, TypeOK
  <2> QED BY <1>9, <1>b, <2>1, <2>2 DEF Crash, TypeOK
<1>10. CASE AdvanceFails(d)
  <2>1. [disp[d] EXCEPT !.pc = "fail"] \in Dispatcher
    BY <1>0 DEF Dispatcher
  <2>2. disp' \in [Dispatchers -> Dispatcher]
    BY <1>10, <1>a, <2>1 DEF AdvanceFails, Move
  <2> QED BY <1>10, <2>2, UntoldType DEF AdvanceFails, TypeOK, bounds
<1> QED BY <1>1, <1>2, <1>3, <1>4, <1>5, <1>6, <1>7, <1>8, <1>9, <1>10 DEF Dispatch

\* The slot of an edited row: the one that was read, or one of the new trigger.
LEMMA UpdatedSlot ==
    ASSUME NEW old \in Triggers, NEW new \in Triggers, NEW now \in Nat,
           NEW next \in Time \cup {Never}
    PROVE  LET slot == NextRunAtAfterUpdate(old, next, new, now)
           IN  /\ slot \in Time \cup {Never}
               /\ new = old => slot = next
               /\ new # old => slot \in Fires[new] \cup {Never}
BY NextRunAtFound DEF NextRunAtAfterUpdate

\* Every write of the operator, the clock and the runs keep the types.
LEMMA OtherTypes ==
    ASSUME TypeOK, Operate \/ Tick \/ LapseClaim \/ CompleteRun
    PROVE  TypeOK'
<1>0. row \in Row /\ clock \in Time /\ clock \in Nat
  BY DEF TypeOK, Time
<1>1. ASSUME NEW e \in Editors, NEW t \in Triggers, ReadForUpdate(e, t) PROVE TypeOK'
  <2>1. [pc |-> "update", now |-> clock, old |-> row.trigger, new |-> t, next |-> row.next]
           \in Editor
    BY <1>0 DEF Editor, Row
  <2>2. edit' \in [Editors -> Editor]
    BY <1>1, <2>1 DEF ReadForUpdate, TypeOK
  <2>3. edits' \in 0..MaxEdits
    BY <1>1, BoundsAssumption DEF ReadForUpdate, TypeOK
  <2> QED BY <1>1, <2>2, <2>3 DEF ReadForUpdate, TypeOK, starts
<1>2. ASSUME NEW e \in Editors, UpdateTask(e) PROVE TypeOK'
  <2> DEFINE ed == edit[e]
             slot == NextRunAtAfterUpdate(ed.old, ed.next, ed.new, ed.now)
  <2>1. /\ ed.old \in Triggers /\ ed.new \in Triggers /\ ed.now \in Nat
        /\ ed.next \in Time \cup {Never}
    BY DEF TypeOK, Editor, Time, Never
  <2>2. slot \in Time \cup {Never}
    BY <2>1, UpdatedSlot
  <2>3. \/ row' = [row EXCEPT !.trigger = ed.new, !.next = slot]
        \/ row' = [[row EXCEPT !.trigger = ed.new, !.next = slot]
                      EXCEPT !.claim = "none", !.attempts = 0, !.failed = FALSE]
    BY <1>2 DEF UpdateTask
  <2> HIDE DEF slot, ed
  <2>4. row' \in Row
    <3>1. /\ [row EXCEPT !.trigger = ed.new, !.next = slot] \in Row
          /\ [[row EXCEPT !.trigger = ed.new, !.next = slot]
                 EXCEPT !.claim = "none", !.attempts = 0, !.failed = FALSE] \in Row
      BY <1>0, <2>1, <2>2, EditTypes
    <3> QED BY <2>3, <3>1
  <2>5. edit' \in [Editors -> Editor]
    BY <1>0, <1>2, IdleTypes DEF UpdateTask, TypeOK
  <2>6. fired' \in [Time -> Nat] /\ untold' \in [Time -> Nat] /\ slips' \in SUBSET Slip
    BY <1>2 DEF UpdateTask, TypeOK, Slip, starts
  <2> QED BY <1>2, <2>4, <2>5, <2>6 DEF UpdateTask, TypeOK, bounds, starts
<1>3. CASE Archive \/ LapseClaim
  <2>1. row' \in Row
    BY <1>0, <1>3, RowTypes DEF Archive, LapseClaim
  <2>2. slips' \in SUBSET Slip
    BY <1>3 DEF Archive, LapseClaim, Slipped, Slip, TypeOK
  <2> QED BY <1>3, <2>1, <2>2 DEF Archive, LapseClaim, TypeOK, bounds, starts
<1>4. CASE RunByHand \/ ContinueRun \/ CompleteRun
  <2>1. run' \in Run
    BY <1>0, <1>4, RunTypes DEF RunByHand, ContinueRun, CompleteRun, TypeOK
  <2>2. runs' \in 0..MaxRuns
    BY <1>4, BoundsAssumption DEF RunByHand, ContinueRun, CompleteRun, TypeOK, bounds, starts
  <2> QED BY <1>4, <2>1, <2>2 DEF RunByHand, ContinueRun, CompleteRun, TypeOK, bounds, starts
<1>5. CASE Tick
  <2>1. clock' \in Time
    BY <1>5, TimeAssumption DEF Tick, TypeOK, Time
  <2> QED BY <1>5, <2>1 DEF Tick, TypeOK, bounds, starts
<1> QED BY <1>1, <1>2, <1>3, <1>4, <1>5 DEF Operate

\* The types are inductive.
LEMMA NextTypeOK == TypeOK /\ [Next]_vars => TypeOK'
<1> SUFFICES ASSUME TypeOK, [Next]_vars PROVE TypeOK'
  OBVIOUS
<1>1. CASE UNCHANGED vars
  BY <1>1 DEF vars, TypeOK
<1> QED BY <1>1, DispatcherTypes, OtherTypes DEF Next

-----------------------------------------------------------------------------
(* The row waits for a slot of its own trigger.                            *)

\* No slip is ever taken back.
LEMMA SlipsStay == TypeOK /\ [Next]_vars => slips \subseteq slips'
<1> SUFFICES ASSUME [Next]_vars PROVE slips \subseteq slips'
  OBVIOUS
<1>1. ASSUME NEW d \in Dispatchers, ClaimDueTasks(d) \/ Dispatch(d) \/ Crash(d)
      PROVE  slips \subseteq slips'
  BY <1>1 DEF ClaimDueTasks, Dispatch, Crash, ListRunningRuns, GetTask, DeferScheduleClaim,
       StartTaskRun, StartFails, RecordScheduleSuccess, AdvanceFails,
       RecordScheduleStartFailure, Slipped
<1>2. CASE Operate
  BY <1>2 DEF Operate, ReadForUpdate, UpdateTask, Archive, RunByHand, ContinueRun
<1>3. CASE Tick \/ LapseClaim \/ CompleteRun \/ UNCHANGED vars
  BY <1>3 DEF Tick, LapseClaim, CompleteRun, Slipped, vars
<1> QED BY <1>1, <1>2, <1>3 DEF Next

\* Only an edit and the record of a start move the row to another slot.
LEMMA NextOwnSlot == TypeOK /\ WaitsForOwnSlot /\ [Next]_vars => WaitsForOwnSlot'
<1> SUFFICES ASSUME TypeOK, WaitsForOwnSlot, [Next]_vars, "stale" \notin slips'
             PROVE  row'.next \in Fires[row'.trigger] \cup {Never}
  BY DEF WaitsForOwnSlot
<1>0. /\ row \in Row /\ row.next \in Fires[row.trigger] \cup {Never}
  BY SlipsStay DEF TypeOK, WaitsForOwnSlot
<1>1. ASSUME row'.trigger = row.trigger, row'.next \in {row.next, Never}
      PROVE  row'.next \in Fires[row'.trigger] \cup {Never}
  BY <1>0, <1>1
<1>2. CASE UNCHANGED row
  BY <1>0, <1>2
<1>3. ASSUME NEW d \in Dispatchers,
             ClaimDueTasks(d) \/ DeferScheduleClaim(d) \/ RecordScheduleStartFailure(d)
      PROVE  row'.next \in Fires[row'.trigger] \cup {Never}
  <2>1. row'.trigger = row.trigger /\ row'.next \in {row.next, Never}
    BY <1>0, <1>3 DEF ClaimDueTasks, DeferScheduleClaim, RecordScheduleStartFailure, Row
  <2> QED BY <1>1, <2>1
<1>4. ASSUME NEW d \in Dispatchers, RecordScheduleSuccess(d)
      PROVE  row'.next \in Fires[row'.trigger] \cup {Never}
  <2> DEFINE slot == NextRunAt(disp[d].trigger, disp[d].now, TRUE)
  <2>1. row.trigger = disp[d].trigger
    BY <1>4 DEF RecordScheduleSuccess, Slipped
  <2>2. row.trigger \in Triggers /\ disp[d].now \in Nat
    BY DEF TypeOK, Row, Dispatcher, Time, Never
  <2>3. slot \in Fires[row.trigger] \cup {Never}
    BY <2>1, <2>2, NextRunAtFound
  <2>4. \/ row' = row
        \/ row' = [row EXCEPT !.next = slot, !.claim = "none", !.attempts = 0, !.failed = FALSE]
    BY <1>4 DEF RecordScheduleSuccess
  <2> HIDE DEF slot
  <2>5. row'.trigger = row.trigger /\ row'.next \in {row.next, slot}
    BY <1>0, <2>4 DEF Row
  <2> QED BY <1>0, <2>3, <2>5
<1>5. ASSUME NEW e \in Editors, UpdateTask(e)
      PROVE  row'.next \in Fires[row'.trigger] \cup {Never}
  <2> DEFINE ed == edit[e]
             slot == NextRunAtAfterUpdate(ed.old, ed.next, ed.new, ed.now)
  <2>1. /\ ed.old \in Triggers /\ ed.new \in Triggers /\ ed.now \in Nat
        /\ ed.next \in Time \cup {Never}
    BY DEF TypeOK, Editor, Time, Never
  <2>2. row.trigger = ed.old /\ row.next = ed.next
    BY <1>5 DEF UpdateTask
  <2>3. slot \in Fires[ed.new] \cup {Never}
    BY <1>0, <2>1, <2>2, UpdatedSlot
  <2>4. \/ row' = [row EXCEPT !.trigger = ed.new, !.next = slot]
        \/ row' = [[row EXCEPT !.trigger = ed.new, !.next = slot]
                      EXCEPT !.claim = "none", !.attempts = 0, !.failed = FALSE]
    BY <1>5 DEF UpdateTask
  <2> HIDE DEF ed, slot
  <2>5. row'.trigger = ed.new /\ row'.next = slot
    BY <1>0, <2>4 DEF Row
  <2> QED BY <2>3, <2>5
<1>6. ASSUME Archive \/ LapseClaim
      PROVE  row'.next \in Fires[row'.trigger] \cup {Never}
  <2>1. row'.trigger = row.trigger /\ row'.next \in {row.next, Never}
    BY <1>0, <1>6 DEF Archive, LapseClaim, Row
  <2> QED BY <1>1, <2>1
<1>7. ASSUME NEW d \in Dispatchers, ClaimDueTasks(d) \/ Dispatch(d) \/ Crash(d)
      PROVE  row'.next \in Fires[row'.trigger] \cup {Never}
  <2>1. CASE \/ ListRunningRuns(d) \/ GetTask(d) \/ StartTaskRun(d) \/ StartFails(d)
             \/ AdvanceFails(d) \/ Crash(d)
    BY <1>2, <2>1 DEF ListRunningRuns, GetTask, StartTaskRun, StartFails, AdvanceFails, Crash
  <2> QED BY <1>3, <1>4, <1>7, <2>1 DEF Dispatch
<1>8. CASE Operate
  <2>1. ASSUME RunByHand \/ ContinueRun \/ \E e \in Editors, t \in Triggers : ReadForUpdate(e, t)
        PROVE  UNCHANGED row
    BY <2>1 DEF RunByHand, ContinueRun, ReadForUpdate
  <2> QED BY <1>2, <1>5, <1>6, <1>8, <2>1 DEF Operate
<1>9. CASE Tick \/ CompleteRun \/ UNCHANGED vars
  BY <1>2, <1>9 DEF Tick, CompleteRun, vars
<1> QED BY <1>6, <1>7, <1>8, <1>9 DEF Next

-----------------------------------------------------------------------------
(* What keeps a slot from starting two runs.                               *)

Busy(d) == ~At(d, "idle")

\* Where a dispatcher has decided what to do with the slot that it read.
Chosen == {"defer", "start", "advance", "skip", "fail"}

\* It decided on a slot that was due when its tick began.
Booked == \A d \in Dispatchers :
    disp[d].pc \in Chosen => disp[d].next # Never /\ disp[d].next <= disp[d].now

\* A dispatcher at work has the claim, and the slot stays the one it read;
\* on a task that was archived under it there is no slot any more.
Holding(d) ==
    IF row.archived THEN row.next = Never
    ELSE row.claim = "live" /\ (disp[d].pc \in Chosen => row.next = disp[d].next)

\* The row does not wait for s any more, or is about to stop doing so.
Past(s) ==
    \/ row.next = Never
    \/ row.next > s
    \/ \E d \in Dispatchers : At(d, "advance") /\ disp[d].next = s

\* The row has been told of every run of slot s, or of all but the one that made it move on.
Told(s) == fired[s] = untold[s] \/ (fired[s] = untold[s] + 1 /\ Past(s))

\* A dispatcher about to start a run, and one that has started it.
Poised(d) ==
    /\ At(d, "start") => /\ fired[disp[d].next] = untold[disp[d].next]
                         /\ untold[disp[d].next] < MaxStartAttempts + crashes
    /\ At(d, "advance") => fired[disp[d].next] = untold[disp[d].next] + 1

\* Each run of the row's slot that the row was not told of has cost an attempt or a tick, or
\* is about to cost an attempt; slots to come have had none.
Spent ==
    row.next # Never =>
        /\ row.attempts < MaxStartAttempts
        /\ \A s \in Time : s > row.next => untold[s] = 0
        /\ \/ untold[row.next] <= crashes + row.attempts
           \/ /\ \E d \in Dispatchers : At(d, "fail")
              /\ untold[row.next] <= crashes + row.attempts + 1

Neat ==
    /\ \A d, e \in Dispatchers : Busy(d) /\ Busy(e) => d = e
    /\ \A d \in Dispatchers : Busy(d) => Holding(d)
    /\ \A d \in Dispatchers : Poised(d)
    /\ \A s \in Time : Told(s)
    /\ Spent
    /\ \A s \in Time : fired[s] <= MaxStartAttempts + crashes

SInv == TypeOK /\ Booked /\ (slips = {} => Neat)

\* The counters are numbers.
LEMMA Numbers ==
    ASSUME TypeOK
    PROVE  /\ crashes \in Nat /\ row.attempts \in Nat
           /\ row.next \in Time \cup {Never} /\ row.next \in Nat
           /\ \A s \in Time : s \in Nat /\ fired[s] \in Nat /\ untold[s] \in Nat
BY BoundsAssumption DEF TypeOK, Row, Time, Never

\* Initially nobody is at work and nothing has been started.
LEMMA InitSInv == Init => SInv
<1> SUFFICES ASSUME Init PROVE Booked /\ Neat
  BY InitTypeOK DEF SInv
<1>1. \A d \in Dispatchers : disp[d].pc = "idle"
  BY DEF Init, IdleDispatcher
<1>2. Booked /\ \A d \in Dispatchers : ~Busy(d) /\ Poised(d)
  BY <1>1 DEF Booked, Chosen, Busy, Poised, At
<1>3. /\ \A s \in Time : fired[s] = 0 /\ untold[s] = 0
      /\ crashes = 0
  BY DEF Init
<1>4. Spent
  <2>1. row.attempts = 0
    BY DEF Init
  <2>2. row.next \in Time \cup {Never}
    BY InitTypeOK, Numbers
  <2> QED BY <1>3, <2>1, <2>2 DEF Spent, Never, MaxStartAttempts
<1> QED BY <1>2, <1>3, <1>4 DEF Neat, Told, MaxStartAttempts

\* What a step of one dispatcher does to the others and to itself.
LEMMA MoveTo ==
    ASSUME TypeOK, NEW d \in Dispatchers, NEW p, Move(d, p)
    PROVE  /\ \A e \in Dispatchers \ {d} : disp'[e] = disp[e]
           /\ disp'[d].pc = p /\ disp'[d].next = disp[d].next /\ disp'[d].now = disp[d].now
BY DEF TypeOK, Move, Dispatcher

\* A dispatcher that leaves its tick is idle.
LEMMA LeaveTo ==
    ASSUME TypeOK, NEW d \in Dispatchers, Leave(d)
    PROVE  /\ \A e \in Dispatchers \ {d} : disp'[e] = disp[e]
           /\ disp'[d].pc = "idle"
BY DEF TypeOK, Leave, IdleDispatcher

\* The first two steps of a tick decide nothing yet.
LEMMA LookTo ==
    ASSUME TypeOK, NEW d \in Dispatchers, ClaimDueTasks(d) \/ ListRunningRuns(d)
    PROVE  /\ \A e \in Dispatchers \ {d} : disp'[e] = disp[e]
           /\ disp'[d].pc \in {"list", "get"}
<1>1. CASE ClaimDueTasks(d)
  <2> DEFINE x == [disp[d] EXCEPT !.pc = "list", !.now = clock]
  <2>1. x.pc = "list" /\ disp' = [disp EXCEPT ![d] = x]
    BY <1>1 DEF ClaimDueTasks, TypeOK, Dispatcher
  <2> HIDE DEF x
  <2> QED BY <2>1 DEF TypeOK
<1>2. CASE ListRunningRuns(d)
  <2> DEFINE x == [disp[d] EXCEPT !.pc = "get",
                                  !.busySince = IF run.running THEN run.startedAt ELSE Never]
  <2>1. x.pc = "get" /\ disp' = [disp EXCEPT ![d] = x]
    BY <1>2 DEF ListRunningRuns, TypeOK, Dispatcher
  <2> HIDE DEF x
  <2> QED BY <2>1 DEF TypeOK
<1> QED BY <1>1, <1>2

\* GetTask leaves the tick or binds it to the slot of the row.
LEMMA BindTo ==
    ASSUME TypeOK, NEW d \in Dispatchers, GetTask(d)
    PROVE  \/ Leave(d)
           \/ /\ ~row.archived
              /\ \A e \in Dispatchers \ {d} : disp'[e] = disp[e]
              /\ disp'[d].pc \in {"clear", "start", "skip", "defer"}
              /\ disp'[d].next = row.next /\ disp'[d].now = disp[d].now
              /\ disp'[d].pc # "clear" => row.next # Never /\ row.next <= disp[d].now
<1> DEFINE since == disp[d].busySince
           p == IF row.next = Never \/ row.next > disp[d].now THEN "clear"
                ELSE IF since = Never THEN "start"
                ELSE IF since >= row.next THEN "skip" ELSE "defer"
<1>1. row.next \in Nat /\ disp[d].now \in Nat
  BY DEF TypeOK, Row, Dispatcher, Time, Never
<1>2. /\ p \in {"clear", "start", "skip", "defer"}
      /\ p # "clear" => row.next # Never /\ row.next <= disp[d].now
  BY <1>1
<1>3. \/ Leave(d)
      \/ /\ ~row.archived
         /\ disp' = [disp EXCEPT ![d] = [@ EXCEPT !.pc = p, !.trigger = row.trigger,
                                                  !.next = row.next]]
  BY DEF GetTask
<1> HIDE DEF p
<1>4. ASSUME disp' = [disp EXCEPT ![d] = [@ EXCEPT !.pc = p, !.trigger = row.trigger,
                                                   !.next = row.next]]
      PROVE  /\ \A e \in Dispatchers \ {d} : disp'[e] = disp[e]
             /\ disp'[d].pc = p /\ disp'[d].next = row.next /\ disp'[d].now = disp[d].now
  BY <1>4 DEF TypeOK, Dispatcher
<1> QED BY <1>2, <1>3, <1>4

\* The decision of a tick is made on a due slot and not changed afterwards.
LEMMA NextBooked == TypeOK /\ Booked /\ [Next]_vars => Booked'
<1> SUFFICES ASSUME TypeOK, Booked, [Next]_vars PROVE Booked'
  OBVIOUS
<1>1. ASSUME UNCHANGED disp PROVE Booked'
  BY <1>1 DEF Booked
<1>2. ASSUME NEW d \in Dispatchers, \A e \in Dispatchers \ {d} : disp'[e] = disp[e],
             disp'[d].pc \in Chosen => disp'[d].next # Never /\ disp'[d].next <= disp'[d].now
      PROVE  Booked'
  BY <1>2 DEF Booked
<1>3. ASSUME NEW d \in Dispatchers, Leave(d) PROVE Booked'
  BY <1>2, <1>3, LeaveTo DEF Chosen
<1>4. ASSUME NEW d \in Dispatchers, ClaimDueTasks(d) \/ ListRunningRuns(d) PROVE Booked'
  <2>1. /\ \A e \in Dispatchers \ {d} : disp'[e] = disp[e]
        /\ disp'[d].pc \in {"list", "get"}
    BY <1>4, LookTo
  <2> QED BY <1>2, <2>1 DEF Chosen
<1>5. ASSUME NEW d \in Dispatchers, GetTask(d) PROVE Booked'
  BY <1>2, <1>3, <1>5, BindTo DEF Chosen
<1>6. ASSUME NEW d \in Dispatchers, StartTaskRun(d) \/ StartFails(d) \/ AdvanceFails(d)
      PROVE  Booked'
  <2>1. disp[d].pc \in Chosen /\ \E p \in {"advance", "skip", "fail"} : Move(d, p)
    BY <1>6 DEF StartTaskRun, StartFails, AdvanceFails, At, Chosen
  <2>2. /\ \A e \in Dispatchers \ {d} : disp'[e] = disp[e]
        /\ disp'[d].next = disp[d].next /\ disp'[d].now = disp[d].now
    BY <2>1, MoveTo
  <2> QED BY <1>2, <2>1, <2>2 DEF Booked, At, Chosen
<1>7. ASSUME NEW d \in Dispatchers, ClaimDueTasks(d) \/ Dispatch(d) \/ Crash(d) PROVE Booked'
  BY <1>3, <1>4, <1>5, <1>6, <1>7 DEF Dispatch, DeferScheduleClaim, RecordScheduleSuccess,
       RecordScheduleStartFailure, Crash
<1>8. CASE Operate \/ Tick \/ LapseClaim \/ CompleteRun \/ UNCHANGED vars
  BY <1>1, <1>8 DEF Operate, ReadForUpdate, UpdateTask, Archive, RunByHand, ContinueRun,
       Tick, LapseClaim, CompleteRun, vars
<1> QED BY <1>7, <1>8 DEF Next

\* No attempt is on its way to be counted, and none is counted.
LEMMA SpentStays ==
    ASSUME Neat, NEW d \in Dispatchers, Busy(d), ~At(d, "fail"),
           row'.next = row.next, row'.attempts = row.attempts, UNCHANGED <<untold, crashes>>
    PROVE  Spent'
<1>1. \A e \in Dispatchers : ~At(e, "fail")
  BY DEF Neat, Busy, At
<1> QED BY <1>1 DEF Neat, Spent

\* A step of one dispatcher that neither starts a run nor touches the row's
\* slot, from a statement other than the last.
LEMMA NeatMove ==
    ASSUME TypeOK, Neat, NEW d \in Dispatchers, UNCHANGED <<starts, crashes>>,
           \A e \in Dispatchers \ {d} : disp'[e] = disp[e],
           row'.next = row.next, row'.archived = row.archived, row'.attempts = row.attempts,
           ~At(d, "advance"), ~At(d, "fail"),
           \A e \in Dispatchers \ {d} : ~At(e, "idle") => row'.claim = row.claim,
           Busy(d)' => /\ \A e \in Dispatchers \ {d} : ~Busy(e)
                       /\ Holding(d)',
           Poised(d)'
    PROVE  Neat'
<1>1. \A s \in Time : Told(s)'
  BY DEF Neat, Told, Past, At, starts
<1>2. ASSUME NEW e \in Dispatchers \ {d}, Busy(e)' PROVE Busy(e) /\ Holding(e)'
  BY <1>2 DEF Neat, Busy, At, Holding
<1>3. \A e \in Dispatchers : Busy(e)' => Holding(e)'
  BY <1>2
<1>4. \A e, f \in Dispatchers : Busy(e)' /\ Busy(f)' => e = f
  BY <1>2 DEF Neat
<1>5. \A e \in Dispatchers : Poised(e)'
  <2>1. ASSUME NEW e \in Dispatchers \ {d} PROVE Poised(e)'
    BY DEF Neat, Poised, At, starts
  <2> QED BY <2>1
<1>6. Spent'
  BY DEF Neat, Spent, At, starts
<1>7. \A s \in Time : fired'[s] <= MaxStartAttempts + crashes'
  BY DEF Neat, starts
<1> QED BY <1>1, <1>3, <1>4, <1>5, <1>6, <1>7 DEF Neat

\* A tick that ends, with the row's slot left or given up.
LEMMA NeatLeave ==
    ASSUME TypeOK, Neat, NEW d \in Dispatchers, Leave(d), Busy(d), Spent',
           \A s \in Time : \/ fired'[s] = untold'[s]
                           \/ /\ fired'[s] = untold'[s] + 1
                              /\ row'.next = Never \/ row'.next > s,
           \A s \in Time : fired'[s] <= MaxStartAttempts + crashes'
    PROVE  Neat'
<1>1. /\ \A e \in Dispatchers \ {d} : disp'[e] = disp[e]
      /\ disp'[d].pc = "idle"
  BY LeaveTo
<1>2. \A e \in Dispatchers : ~Busy(e)' /\ ~At(e, "start")' /\ ~At(e, "advance")'
  BY <1>1 DEF Neat, Busy, At
<1>3. \A s \in Time : Told(s)'
  BY DEF Told, Past
<1> QED BY <1>2, <1>3 DEF Neat, Poised

\* A run that the row was not told of is of a slot behind the row, unless a tick is about
\* to record it.
LEMMA Behind ==
    ASSUME Neat, NEW d \in Dispatchers, Busy(d), NEW s \in Time,
           At(d, "advance") => disp[d].next # s
    PROVE  \/ fired[s] = untold[s]
           \/ fired[s] = untold[s] + 1 /\ (row.next = Never \/ row.next > s)
<1>1. \A e \in Dispatchers : At(e, "advance") => disp[e].next # s
  BY DEF Neat, Busy, At
<1> QED BY <1>1 DEF Neat, Told, Past

\* The slot of a dispatcher that has decided is one of the instants, and the row still waits
\* for it or for none.
LEMMA ChosenSlot ==
    ASSUME TypeOK, Booked, Neat, NEW d \in Dispatchers, disp[d].pc \in Chosen
    PROVE  disp[d].next \in Time /\ row.next \in {disp[d].next, Never} /\ Busy(d) /\ Holding(d)
<1>1. disp[d].next \in Time
  BY DEF TypeOK, Dispatcher, Booked
<1>2. Busy(d) /\ Holding(d)
  BY DEF Neat, Busy, At, Chosen
<1> QED BY <1>1, <1>2 DEF Holding

\* A run that the row will not hear of.
LEMMA UntoldStart ==
    ASSUME TypeOK, Booked, Neat, NEW d \in Dispatchers, Untold(d),
           At(d, "start") \/ At(d, "advance")
    PROVE  /\ untold'[disp[d].next] = untold[disp[d].next] + 1
           /\ \A u \in Time \ {disp[d].next} : untold'[u] = untold[u]
           /\ row.next # Never =>
                /\ \A s \in Time : s > row.next => untold'[s] = 0
                /\ untold'[row.next] <= crashes + row.attempts + 1
<1>1. disp[d].pc \in Chosen
  BY DEF At, Chosen
<1>2. /\ disp[d].next \in Time /\ row.next \in {disp[d].next, Never}
      /\ \A e \in Dispatchers : ~At(e, "fail")
  BY <1>1, ChosenSlot DEF Neat, Busy, At
<1>3. /\ untold'[disp[d].next] = untold[disp[d].next] + 1
      /\ \A u \in Time \ {disp[d].next} : untold'[u] = untold[u]
  BY <1>2 DEF TypeOK, Untold
<1>4. ASSUME row.next # Never
      PROVE  /\ \A s \in Time : s > row.next => untold'[s] = 0
             /\ untold'[row.next] <= crashes + row.attempts + 1
  <2>1. /\ row.next = disp[d].next
        /\ \A s \in Time : s > row.next => untold[s] = 0
        /\ untold[row.next] <= crashes + row.attempts
    BY <1>2, <1>4 DEF Neat, Spent
  <2>2. ASSUME NEW s \in Time, s > row.next PROVE untold'[s] = 0
    <3>1. s # row.next
      BY <2>2, Numbers
    <3> QED BY <1>3, <2>1, <2>2, <3>1
  <2>3. untold'[row.next] <= crashes + row.attempts + 1
    BY <1>2, <1>3, <2>1, Numbers
  <2> QED BY <2>2, <2>3
<1> QED BY <1>3, <1>4

\* Every statement of a tick keeps slots from starting twice.
LEMMA NeatTick ==
    ASSUME TypeOK, Booked, Neat, NEW d \in Dispatchers, slips' = {},
           ClaimDueTasks(d) \/ Dispatch(d) \/ Crash(d)
    PROVE  Neat'
<1>0. /\ row \in Row /\ disp[d] \in Dispatcher /\ row.next \in Nat
      /\ disp[d].now \in Nat /\ disp[d].trigger \in Triggers
      /\ \A s \in Time : s \in Nat
  BY DEF TypeOK, Row, Dispatcher, Time, Never
<1>a. \A s \in Time : fired[s] <= MaxStartAttempts + crashes
  BY DEF Neat
\* A tick that ends without a start or a lost record of one.
<1>b. ASSUME Leave(d), Busy(d), ~At(d, "advance"), UNCHANGED <<starts, crashes>>, Spent',
             row'.next \in {row.next, Never}
      PROVE  Neat'
  <2>1. ASSUME NEW s \in Time
        PROVE  \/ fired'[s] = untold'[s]
               \/ /\ fired'[s] = untold'[s] + 1
                  /\ row'.next = Never \/ row'.next > s
    <3>1. \/ fired[s] = untold[s]
          \/ fired[s] = untold[s] + 1 /\ (row.next = Never \/ row.next > s)
      BY <1>b, Behind
    <3> QED BY <1>b, <3>1 DEF starts
  <2>2. \A s \in Time : fired'[s] <= MaxStartAttempts + crashes'
    BY <1>a, <1>b DEF starts
  <2> QED BY <1>b, <2>1, <2>2, NeatLeave
<1>1. CASE ClaimDueTasks(d)
  <2>1. /\ \A e \in Dispatchers : ~Busy(e)
        /\ ~row.archived /\ At(d, "idle")
    BY <1>1 DEF ClaimDueTasks, Due, Neat, Holding
  <2>2. /\ row'.next = row.next /\ row'.archived = row.archived /\ row'.claim = "live"
        /\ row'.attempts = row.attempts
    BY <1>0, <1>1 DEF ClaimDueTasks, Row
  <2>3. /\ \A e \in Dispatchers \ {d} : disp'[e] = disp[e]
        /\ disp'[d].pc = "list"
    BY <1>1, LookTo DEF ClaimDueTasks, TypeOK, Dispatcher
  <2>4. Holding(d)' /\ Poised(d)' /\ ~At(d, "advance") /\ ~At(d, "fail")
    BY <2>1, <2>2, <2>3 DEF Holding, Chosen, At, Poised
  <2>5. UNCHANGED <<starts, crashes>>
    BY <1>1 DEF ClaimDueTasks, bounds
  <2> QED BY <2>1, <2>2, <2>3, <2>4, <2>5, NeatMove DEF Busy
<1>2. CASE ListRunningRuns(d)
  <2>1. /\ \A e \in Dispatchers \ {d} : disp'[e] = disp[e]
        /\ disp'[d].pc \in {"list", "get"} /\ At(d, "list")
        /\ UNCHANGED <<row, starts, crashes>>
    BY <1>2, LookTo DEF ListRunningRuns, bounds
  <2>2. Busy(d) /\ Holding(d) /\ \A e \in Dispatchers \ {d} : ~Busy(e)
    BY <2>1 DEF Neat, Busy, At
  <2>3. Holding(d)' /\ Poised(d)' /\ ~At(d, "advance") /\ ~At(d, "fail")
    <3>1. disp'[d].pc = "list" \/ disp'[d].pc = "get"
      BY <2>1
    <3>2. Holding(d)'
      BY <2>1, <2>2, <3>1 DEF Holding, Chosen
    <3> QED BY <2>1, <3>1, <3>2 DEF At, Poised
  <2> QED BY <2>1, <2>2, <2>3, NeatMove
<1>3. CASE GetTask(d)
  <2>1. /\ UNCHANGED <<row, starts, crashes>> /\ At(d, "get") /\ Busy(d)
        /\ ~At(d, "advance") /\ ~At(d, "fail")
    BY <1>3 DEF GetTask, At, Busy, bounds
  <2>2. CASE Leave(d)
    <3>1. Spent'
      BY <2>1, SpentStays DEF starts
    <3> QED BY <1>b, <2>1, <2>2, <3>1
  <2>3. CASE ~Leave(d)
    <3>1. /\ ~row.archived
          /\ \A e \in Dispatchers \ {d} : disp'[e] = disp[e]
          /\ disp'[d].pc \in {"clear", "start", "skip", "defer"}
          /\ disp'[d].next = row.next
          /\ disp'[d].pc # "clear" => row.next # Never
      BY <1>3, <2>3, BindTo
    <3>2. Holding(d) /\ \A e \in Dispatchers \ {d} : ~Busy(e)
      BY <2>1 DEF Neat
    <3>3. Holding(d)'
      BY <2>1, <3>1, <3>2 DEF Holding
    <3>4. ASSUME row.next # Never
          PROVE  /\ fired[row.next] = untold[row.next]
                 /\ untold[row.next] < MaxStartAttempts + crashes
      <4>1. row.next \in Time /\ ~(row.next > row.next)
        BY <1>0, <3>4 DEF Row
      <4>2. fired[row.next] = untold[row.next]
        BY <2>1, <3>4, <4>1, Behind
      <4>3. row.attempts < MaxStartAttempts /\ untold[row.next] <= crashes + row.attempts
        <5>1. \A e \in Dispatchers : ~At(e, "fail")
          BY <2>1, <3>2 DEF Busy, At
        <5> QED BY <3>4, <5>1 DEF Neat, Spent
      <4> QED BY <4>1, <4>2, <4>3, Numbers DEF MaxStartAttempts
    <3>5. Poised(d)'
      <4>1. ~At(d, "advance")' /\ (At(d, "start")' => row.next # Never)
        BY <3>1 DEF At
      <4> QED BY <2>1, <3>1, <3>4, <4>1 DEF Poised, starts
    <3> QED BY <2>1, <3>1, <3>2, <3>3, <3>5, NeatMove
  <2> QED BY <2>2, <2>3
<1>4. CASE DeferScheduleClaim(d)
  <2>1. /\ Leave(d) /\ Busy(d) /\ ~At(d, "advance") /\ ~At(d, "fail")
        /\ UNCHANGED <<starts, crashes>>
    BY <1>4 DEF DeferScheduleClaim, At, Busy, bounds
  <2>2. row'.next = row.next /\ row'.attempts = row.attempts
    BY <1>0, <1>4 DEF DeferScheduleClaim, Row
  <2>3. Spent'
    BY <2>1, <2>2, SpentStays DEF starts
  <2> QED BY <1>b, <2>1, <2>2, <2>3
<1>5. CASE StartTaskRun(d)
  <2>1. /\ At(d, "start") /\ disp[d].pc \in Chosen /\ ~At(d, "advance") /\ ~At(d, "fail")
        /\ UNCHANGED <<row, crashes>>
    BY <1>5 DEF StartTaskRun, At, Chosen, bounds
  <2>0. PICK s \in Time : s = disp[d].next
    BY <2>1, ChosenSlot
  <2>2. /\ Busy(d) /\ Holding(d) /\ \A e \in Dispatchers \ {d} : ~Busy(e)
        /\ fired[s] = untold[s] /\ untold[s] < MaxStartAttempts + crashes
    BY <2>0, <2>1 DEF Neat, Busy, At, Poised
  <2>3. ASSUME NEW p \in {"skip", "advance", "fail"}, Move(d, p)
        PROVE  /\ \A e \in Dispatchers \ {d} : disp'[e] = disp[e] /\ ~Busy(e)'
               /\ disp'[d].pc = p /\ disp'[d].next = s
               /\ Holding(d)'
    <3>1. /\ \A e \in Dispatchers \ {d} : disp'[e] = disp[e]
          /\ disp'[d].pc = p /\ disp'[d].next = s
      BY <2>0, <2>3, MoveTo
    <3>2. Holding(d)'
      BY <2>0, <2>1, <2>2, <3>1 DEF Holding, Chosen
    <3> QED BY <2>2, <3>1, <3>2 DEF Busy, At
  <2>4. CASE Move(d, "skip") /\ UNCHANGED starts
    <3>1. Poised(d)'
      BY <2>3, <2>4 DEF Poised, At
    <3> QED BY <2>1, <2>2, <2>3, <2>4, <3>1, NeatMove
  <2>5. ASSUME fired' = [fired EXCEPT ![s] = @ + 1]
        PROVE  /\ fired'[s] = fired[s] + 1
               /\ \A u \in Time \ {s} : fired'[u] = fired[u]
               /\ \A u \in Time : fired'[u] <= MaxStartAttempts + crashes'
    <3>1. /\ fired'[s] = fired[s] + 1
          /\ \A u \in Time \ {s} : fired'[u] = fired[u]
      BY <2>5 DEF TypeOK
    <3>2. fired'[s] <= MaxStartAttempts + crashes
      BY <2>2, <3>1, Numbers DEF MaxStartAttempts
    <3> QED BY <1>a, <2>1, <3>1, <3>2
  <2>6. ASSUME NEW p \in {"advance", "fail"}, Move(d, p), Poised(d)', Told(s)', Spent',
               fired' = [fired EXCEPT ![s] = @ + 1],
               \A u \in Time \ {s} : untold'[u] = untold[u]
        PROVE  Neat'
    <3>1. \A u \in Time \ {s} : Told(u)'
      <4>1. ASSUME NEW u \in Time \ {s} PROVE Told(u)'
        <5>1. \/ fired[u] = untold[u]
              \/ fired[u] = untold[u] + 1 /\ (row.next = Never \/ row.next > u)
          BY <2>1, <2>2, Behind
        <5> QED BY <2>1, <2>5, <2>6, <5>1 DEF Told, Past
      <4> QED BY <4>1
    <3>2. \A e \in Dispatchers : Poised(e)'
      BY <2>3, <2>6 DEF Busy, At, Poised
    <3>3. /\ \A e, f \in Dispatchers : Busy(e)' /\ Busy(f)' => e = f
          /\ \A e \in Dispatchers : Busy(e)' => Holding(e)'
      BY <2>3, <2>6
    <3> QED BY <2>5, <2>6, <3>1, <3>2, <3>3 DEF Neat
  <2>7. CASE /\ fired' = [fired EXCEPT ![s] = @ + 1]
             /\ Move(d, "advance") /\ UNCHANGED untold
    <3>1. Poised(d)' /\ Told(s)'
      BY <2>2, <2>3, <2>5, <2>7 DEF Poised, Told, Past, At
    <3>2. Spent'
      BY <2>1, <2>2, <2>7, SpentStays
    <3> QED BY <2>6, <2>7, <3>1, <3>2
  <2>8. CASE /\ fired' = [fired EXCEPT ![s] = @ + 1]
             /\ Move(d, "fail") /\ Untold(d)
    <3>1. /\ untold'[s] = untold[s] + 1
          /\ \A u \in Time \ {s} : untold'[u] = untold[u]
          /\ row.next # Never =>
                /\ \A u \in Time : u > row.next => untold'[u] = 0
                /\ untold'[row.next] <= crashes + row.attempts + 1
      BY <2>0, <2>1, <2>8, UntoldStart
    <3>2. Poised(d)' /\ Told(s)' /\ At(d, "fail")'
      BY <2>2, <2>3, <2>5, <2>8, <3>1 DEF Poised, Told, At
    <3>3. Spent'
      BY <2>1, <3>1, <3>2 DEF Spent, Neat
    <3> QED BY <2>6, <2>8, <3>1, <3>2, <3>3
  <2> QED BY <1>5, <2>0, <2>4, <2>7, <2>8 DEF StartTaskRun
<1>6. CASE StartFails(d)
  <2>1. At(d, "start") /\ Move(d, "fail") /\ UNCHANGED <<row, starts, crashes>>
    BY <1>6 DEF StartFails, bounds
  <2>2. /\ \A e \in Dispatchers \ {d} : disp'[e] = disp[e]
        /\ disp'[d].pc = "fail" /\ disp'[d].next = disp[d].next
    BY <2>1, MoveTo
  <2>3. /\ Holding(d) /\ ~At(d, "advance") /\ ~At(d, "fail")
        /\ \A e \in Dispatchers \ {d} : ~Busy(e)
    BY <2>1 DEF Neat, Busy, At
  <2>4. Holding(d)' /\ Poised(d)'
    BY <2>1, <2>2, <2>3 DEF Holding, At, Chosen, Poised
  <2> QED BY <2>1, <2>2, <2>3, <2>4, NeatMove
<1>7. CASE RecordScheduleSuccess(d)
  <2> DEFINE slot == NextRunAt(disp[d].trigger, disp[d].now, TRUE)
  <2>1. /\ disp[d].pc \in Chosen /\ Busy(d) /\ Leave(d) /\ UNCHANGED <<starts, crashes>>
    BY <1>7 DEF RecordScheduleSuccess, At, Busy, Chosen, bounds
  <2>2. Holding(d)
    BY <2>1 DEF Neat
  <2>3. ASSUME row.archived PROVE row'.next = Never
    BY <1>7, <2>2, <2>3 DEF RecordScheduleSuccess, Holding
  <2>4. ASSUME ~row.archived
        PROVE  /\ row'.attempts = 0 /\ row'.next \in Time \cup {Never} /\ row'.next \in Nat
               /\ row'.next # Never => row'.next > disp[d].now
    <3>1. /\ slot \in Time \cup {Never} /\ slot \in Nat
          /\ slot # Never => slot > disp[d].now
      <4>1. slot \in Time \cup {Never} /\ (slot # Never => slot > disp[d].now)
        BY <1>0, NextRunAtFound
      <4> HIDE DEF slot
      <4> QED BY <4>1 DEF Time, Never
    <3>2. row' = [row EXCEPT !.next = slot, !.claim = "none", !.attempts = 0, !.failed = FALSE]
      BY <1>7, <2>4 DEF RecordScheduleSuccess
    <3> HIDE DEF slot
    <3>3. row'.next = slot /\ row'.attempts = 0
      BY <1>0, <3>2 DEF Row
    <3> QED BY <3>1, <3>3
  <2>5. ASSUME ~row.archived
        PROVE  row.next = disp[d].next /\ disp[d].next # Never /\ disp[d].next <= disp[d].now
    BY <2>1, <2>2, <2>5 DEF Holding, Booked
  <2>6. ASSUME NEW s \in Time
        PROVE  \/ fired[s] = untold[s]
               \/ fired[s] = untold[s] + 1 /\ (row'.next = Never \/ row'.next > s)
    <3>1. CASE row.archived
      BY <2>3, <3>1 DEF Neat, Told
    <3>2. CASE ~row.archived
      <4>1. Past(s) => s <= row.next
        <5>1. \A e \in Dispatchers : At(e, "advance") => e = d
          BY <2>1 DEF Neat, Busy, At
        <5> QED BY <1>0, <2>5, <3>2, <5>1 DEF Past
      <4>2. Past(s) => row'.next = Never \/ row'.next > s
        BY <1>0, <2>4, <2>5, <3>2, <4>1
      <4> QED BY <4>2 DEF Neat, Told
    <3> QED BY <3>1, <3>2
  <2>7. Spent'
    <3>1. CASE row.archived
      BY <2>3, <3>1 DEF Spent
    <3>2. CASE ~row.archived
      <4>1. ASSUME NEW s \in Time, row'.next # Never, s >= row'.next PROVE untold'[s] = 0
        <5>1. s > row.next
          BY <1>0, <2>4, <2>5, <3>2, <4>1
        <5> QED BY <2>1, <2>5, <3>2, <5>1 DEF Neat, Spent, starts
      <4>2. row'.next # Never => untold'[row'.next] = 0
        BY <2>4, <3>2, <4>1
      <4> QED BY <1>0, <2>1, <2>4, <3>2, <4>1, <4>2, Numbers DEF Spent, MaxStartAttempts
    <3> QED BY <3>1, <3>2
  <2>8. \A s \in Time : fired'[s] <= MaxStartAttempts + crashes'
    BY <1>a, <2>1 DEF starts
  <2> QED BY <2>1, <2>6, <2>7, <2>8, NeatLeave DEF starts
<1>8. CASE RecordScheduleStartFailure(d)
  <2>1. Leave(d) /\ Busy(d) /\ ~At(d, "advance") /\ UNCHANGED <<starts, crashes>>
    BY <1>8 DEF RecordScheduleStartFailure, At, Busy, bounds
  <2>2. /\ row'.next \in {row.next, Never}
        /\ row'.next # Never => /\ row'.attempts = row.attempts + 1
                                /\ row'.attempts < MaxStartAttempts
    <3>1. CASE row.archived
      BY <1>8, <2>1, <3>1 DEF RecordScheduleStartFailure, Neat, Holding
    <3>2. CASE ~row.archived /\ row.attempts + 1 >= MaxStartAttempts
      <4>1. row' = [row EXCEPT !.attempts = @ + 1, !.claim = "none", !.next = Never,
                               !.failed = TRUE]
        BY <1>8, <3>2 DEF RecordScheduleStartFailure
      <4> QED BY <1>0, <4>1 DEF Row
    <3>3. CASE ~row.archived /\ ~(row.attempts + 1 >= MaxStartAttempts)
      <4>1. row' = [row EXCEPT !.attempts = @ + 1, !.claim = "live"]
        BY <1>8, <3>3 DEF RecordScheduleStartFailure
      <4> QED BY <1>0, <3>3, <4>1, Numbers DEF Row, MaxStartAttempts
    <3> QED BY <3>1, <3>2, <3>3
  <2>3. Spent'
    <3>1. ASSUME row'.next # Never
          PROVE  /\ row'.attempts < MaxStartAttempts
                 /\ \A s \in Time : s > row'.next => untold'[s] = 0
                 /\ untold'[row'.next] <= crashes' + row'.attempts
      <4>1. row'.next = row.next /\ row.next # Never /\ row.next \in Time
        BY <2>2, <3>1, Numbers
      <4>2. /\ \A s \in Time : s > row.next => untold[s] = 0
            /\ untold[row.next] <= crashes + row.attempts + 1
        BY <4>1, Numbers DEF Neat, Spent
      <4>3. crashes + row.attempts + 1 = crashes + (row.attempts + 1)
        BY Numbers
      <4> QED BY <2>1, <2>2, <3>1, <4>1, <4>2, <4>3 DEF starts
    <3> QED BY <3>1 DEF Spent
  <2> QED BY <1>b, <2>1, <2>2, <2>3
<1>9. CASE Crash(d)
  <2>1. Leave(d) /\ Busy(d) /\ crashes' = crashes + 1 /\ UNCHANGED <<row, fired>>
    BY <1>9 DEF Crash, Busy
  <2>2. \A s \in Time : fired'[s] <= MaxStartAttempts + crashes'
    BY <1>a, <2>1, Numbers DEF MaxStartAttempts
  <2>3. CASE At(d, "advance")
    <3>1. disp[d].pc \in Chosen /\ Untold(d)
      BY <1>9, <2>3 DEF Crash, At, Chosen
    <3>2. PICK s \in Time : s = disp[d].next
      BY <3>1, ChosenSlot
    <3>3. /\ untold'[s] = untold[s] + 1
          /\ \A u \in Time \ {s} : untold'[u] = untold[u]
          /\ row.next # Never =>
                /\ \A u \in Time : u > row.next => untold'[u] = 0
                /\ untold'[row.next] <= crashes + row.attempts + 1
      BY <2>3, <3>1, <3>2, UntoldStart
    <3>4. Spent'
      <4>1. (crashes + 1) + row.attempts = crashes + row.attempts + 1
        BY Numbers
      <4> QED BY <2>1, <3>3, <4>1 DEF Spent, Neat
    <3>5. fired'[s] = untold'[s]
      BY <2>1, <2>3, <3>2, <3>3 DEF Neat, Poised
    <3>6. \A u \in Time \ {s} : \/ fired'[u] = untold'[u]
                                \/ /\ fired'[u] = untold'[u] + 1
                                   /\ row'.next = Never \/ row'.next > u
      BY <2>1, <3>2, <3>3, Behind
    <3> QED BY <2>1, <2>2, <3>4, <3>5, <3>6, NeatLeave
  <2>4. CASE ~At(d, "advance")
    <3>1. UNCHANGED untold
      BY <1>9, <2>4 DEF Crash
    <3>2. Spent'
      <4>1. ASSUME row.next # Never PROVE untold[row.next] <= (crashes + 1) + row.attempts
        <5>1. row.next \in Time /\ untold[row.next] <= crashes + row.attempts + 1
          BY <4>1, Numbers DEF Neat, Spent
        <5> QED BY <5>1, Numbers
      <4> QED BY <2>1, <3>1, <4>1 DEF Neat, Spent
    <3>3. \A s \in Time : \/ fired'[s] = untold'[s]
                          \/ /\ fired'[s] = untold'[s] + 1
                             /\ row'.next = Never \/ row'.next > s
      BY <2>1, <2>4, <3>1, Behind
    <3> QED BY <2>1, <2>2, <3>2, <3>3, NeatLeave
  <2> QED BY <2>3, <2>4
<1>10. CASE AdvanceFails(d)
  <2>1. /\ At(d, "advance") /\ disp[d].pc \in Chosen /\ Move(d, "fail") /\ Untold(d)
        /\ UNCHANGED <<row, fired, crashes>>
    BY <1>10 DEF AdvanceFails, At, Chosen, bounds
  <2>2. PICK s \in Time : s = disp[d].next
    BY <2>1, ChosenSlot
  <2>3. Busy(d) /\ Holding(d) /\ \A e \in Dispatchers \ {d} : ~Busy(e)
    BY <2>1, ChosenSlot DEF Neat
  <2>4. /\ untold'[s] = untold[s] + 1
        /\ \A u \in Time \ {s} : untold'[u] = untold[u]
        /\ row.next # Never =>
              /\ \A u \in Time : u > row.next => untold'[u] = 0
              /\ untold'[row.next] <= crashes + row.attempts + 1
    BY <2>1, <2>2, UntoldStart
  <2>5. /\ \A e \in Dispatchers \ {d} : disp'[e] = disp[e]
        /\ disp'[d].pc = "fail" /\ disp'[d].next = s
    BY <2>1, <2>2, MoveTo
  <2>6. Spent'
    BY <2>1, <2>4, <2>5 DEF Spent, Neat, At
  <2>7. \A u \in Time : Told(u)'
    <3>1. fired'[s] = untold'[s]
      BY <2>1, <2>2, <2>4 DEF Neat, Poised
    <3>2. ASSUME NEW u \in Time \ {s} PROVE Told(u)'
      <4>1. \/ fired[u] = untold[u]
            \/ fired[u] = untold[u] + 1 /\ (row.next = Never \/ row.next > u)
        BY <2>2, <2>3, Behind
      <4> QED BY <2>1, <2>4, <4>1 DEF Told, Past
    <3> QED BY <3>1, <3>2 DEF Told
  <2>8. \A e \in Dispatchers \ {d} : ~Busy(e)'
    BY <2>3, <2>5 DEF Busy, At
  <2>9. Holding(d)'
    BY <2>1, <2>2, <2>3, <2>5 DEF Holding, Chosen
  <2>10. \A e \in Dispatchers : Poised(e)'
    BY <2>5, <2>8 DEF Poised, Busy, At
  <2>11. \A u \in Time : fired'[u] <= MaxStartAttempts + crashes'
    BY <1>a, <2>1
  <2> QED BY <2>6, <2>7, <2>8, <2>9, <2>10, <2>11 DEF Neat
<1> QED BY <1>1, <1>2, <1>3, <1>4, <1>5, <1>6, <1>7, <1>8, <1>9, <1>10 DEF Dispatch

\* So does everything that happens beside the ticks.
LEMMA NeatOther ==
    ASSUME TypeOK, Neat, slips' = {},
           Operate \/ Tick \/ LapseClaim \/ CompleteRun \/ UNCHANGED vars
    PROVE  Neat'
<1>0. row \in Row
  BY DEF TypeOK
<1>1. ASSUME UNCHANGED <<disp, starts, crashes>>, row'.next \in {row.next, Never},
             row'.next # Never => row'.attempts = row.attempts,
             \A d \in Dispatchers : Busy(d) => Holding(d)'
      PROVE  Neat'
  <2>1. \A s \in Time : Told(s)'
    BY <1>1 DEF Neat, Told, Past, At, starts
  <2>2. Spent'
    BY <1>1 DEF Neat, Spent, At, starts
  <2>3. \A d \in Dispatchers : Poised(d)'
    BY <1>1 DEF Neat, Poised, At, starts
  <2>4. \A s \in Time : fired'[s] <= MaxStartAttempts + crashes'
    BY <1>1 DEF Neat, starts
  <2> QED BY <1>1, <2>1, <2>2, <2>3, <2>4 DEF Neat, Busy, At
<1>2. ASSUME UNCHANGED <<disp, starts, crashes, row>> PROVE Neat'
  BY <1>1, <1>2 DEF Neat, Holding
<1>3. CASE Archive
  <2>1. row'.next = Never /\ row'.archived /\ UNCHANGED <<disp, starts, crashes>>
    BY <1>0, <1>3 DEF Archive, Row, bounds
  <2> QED BY <1>1, <2>1 DEF Holding
<1>4. CASE LapseClaim
  <2>1. /\ \A d \in Dispatchers : ~Busy(d)
        /\ UNCHANGED <<disp, starts, crashes>>
    BY <1>4 DEF LapseClaim, Slipped, Busy, bounds
  <2>2. row'.next = row.next /\ row'.attempts = row.attempts
    BY <1>0, <1>4 DEF LapseClaim, Row
  <2> QED BY <1>1, <2>1, <2>2
<1>5. ASSUME NEW e \in Editors, UpdateTask(e) PROVE Neat'
  <2> DEFINE ed == edit[e]
             slot == NextRunAtAfterUpdate(ed.old, ed.next, ed.new, ed.now)
  <2>1. row.next = ed.next /\ UNCHANGED <<disp, crashes>>
    BY <1>5 DEF UpdateTask, bounds
  <2>2. CASE ed.new = ed.old
    <3>1. /\ row' = [row EXCEPT !.trigger = ed.new, !.next = slot]
          /\ slot = ed.next /\ UNCHANGED starts
      BY <1>5, <2>2 DEF UpdateTask, NextRunAtAfterUpdate
    <3> HIDE DEF ed, slot
    <3>2. /\ row'.next = row.next /\ row'.claim = row.claim
          /\ row'.archived = row.archived /\ row'.attempts = row.attempts
      BY <1>0, <2>1, <3>1 DEF Row
    <3>3. \A d \in Dispatchers : Busy(d) => Holding(d)'
      BY <2>1, <3>2 DEF Neat, Holding
    <3> QED BY <1>1, <2>1, <3>1, <3>2, <3>3
  <2>3. CASE ed.new # ed.old
    <3>1. /\ \A d \in Dispatchers : ~Busy(d)
          /\ \A s \in Time : fired'[s] = 0 /\ untold'[s] = 0
      BY <1>5, <2>3 DEF UpdateTask, Busy
    <3>2. row'.attempts = 0
      <4>1. row' = [[row EXCEPT !.trigger = ed.new, !.next = slot]
                      EXCEPT !.claim = "none", !.attempts = 0, !.failed = FALSE]
        BY <1>5, <2>3 DEF UpdateTask
      <4> HIDE DEF ed, slot
      <4> QED BY <1>0, <4>1 DEF Row
    <3>3. row'.next \in Time \cup {Never} /\ crashes' \in Nat
      <4>1. TypeOK'
        BY <1>5, OtherTypes DEF Operate
      <4> QED BY <2>1, <4>1, Numbers DEF TypeOK, Row
    <3>4. Spent'
      BY <3>1, <3>2, <3>3 DEF Spent, MaxStartAttempts
    <3>5. /\ \A d \in Dispatchers : ~Busy(d)' /\ Poised(d)'
          /\ \A s \in Time : Told(s)' /\ fired'[s] <= MaxStartAttempts + crashes'
      BY <2>1, <3>1, <3>3 DEF Busy, At, Poised, Told, MaxStartAttempts
    <3> QED BY <3>4, <3>5 DEF Neat
  <2> QED BY <2>2, <2>3
<1>6. ASSUME RunByHand \/ ContinueRun \/ \E e \in Editors, t \in Triggers : ReadForUpdate(e, t)
      PROVE  Neat'
  BY <1>2, <1>6 DEF RunByHand, ContinueRun, ReadForUpdate
<1>7. CASE Tick \/ CompleteRun \/ UNCHANGED vars
  BY <1>2, <1>7 DEF Tick, CompleteRun, vars, bounds, starts
<1>8. CASE Operate
  BY <1>3, <1>5, <1>6, <1>8 DEF Operate
<1> QED BY <1>4, <1>7, <1>8

\* The invariant is inductive.
LEMMA NextSInv == SInv /\ [Next]_vars => SInv'
<1> SUFFICES ASSUME SInv, [Next]_vars PROVE SInv'
  OBVIOUS
<1>1. TypeOK' /\ Booked'
  BY NextTypeOK, NextBooked DEF SInv
<1>2. ASSUME slips' = {} PROVE Neat'
  <2>1. TypeOK /\ Booked /\ Neat
    BY <1>2, SlipsStay DEF SInv
  <2> QED BY <1>2, <2>1, NeatTick, NeatOther DEF Next
<1> QED BY <1>1, <1>2 DEF SInv

-----------------------------------------------------------------------------
(* What follows.                                                           *)

\* The tasks row, the ticks and the requests keep their types (TypeOK), for
\* any number of replicas, triggers, edits and crashes.
THEOREM TypeCorrect == Spec => []TypeOK
BY InitTypeOK, NextTypeOK, PTL DEF Spec

\* The row waits for an instant of its own trigger unless an edit and another
\* write have crossed (nextRunAtAfterUpdate, recordScheduleSuccess).
THEOREM OwnSlot == Spec => []WaitsForOwnSlot
<1>1. Init => WaitsForOwnSlot
  <2> SUFFICES ASSUME Init PROVE WaitsForOwnSlot
    OBVIOUS
  <2>1. PICK t \in Triggers :
           row = [trigger |-> t, next |-> NextRunAt(t, clock, FALSE), claim |-> "none",
                  attempts |-> 0, failed |-> FALSE, archived |-> FALSE]
    BY DEF Init
  <2>2. NextRunAt(t, clock, FALSE) \in Fires[t] \cup {Never}
    BY NextRunAtFound DEF Init
  <2> QED BY <2>1, <2>2 DEF WaitsForOwnSlot
<1> QED BY <1>1, NextOwnSlot, TypeCorrect, PTL DEF Spec

\* Without a slip, one dispatcher works at a time, under a live claim, on the
\* slot that the row still waits for.
THEOREM ScheduleInvariance == Spec => []SInv
BY InitSInv, NextSInv, PTL DEF Spec

\* However many replicas find a slot due, it starts one run and one more for each start that
\* the row was not told of, and with those no more than a schedule has attempts and ticks were
\* cut short, unless one of the named slips has happened (claimDueTasks, startTaskRun,
\* recordScheduleSuccess, recordScheduleStartFailure).
THEOREM FiredOnce == Spec => []SlotFiredOnce
<1>1. SInv => SlotFiredOnce
  <2> SUFFICES ASSUME SInv, slips = {}, NEW s \in Time
               PROVE  /\ fired[s] <= 1 + untold[s]
                      /\ fired[s] <= MaxStartAttempts + crashes
    BY DEF SlotFiredOnce
  <2>1. fired[s] \in {untold[s], untold[s] + 1} /\ fired[s] <= MaxStartAttempts + crashes
    BY DEF SInv, Neat, Told
  <2>2. untold[s] \in Nat
    BY Numbers DEF SInv
  <2> QED BY <2>1, <2>2
<1> QED BY <1>1, ScheduleInvariance, PTL
-----------------------------------------------------------------------------
(* The calendar under the slots.                                           *)

\* A time that a clock of the zone shows somewhere is shown at the slot: the
\* second look-up of the offset repairs a guess on the wrong side of the change.
LEMMA SecondLookSettles ==
    ASSUME NEW z \in Zones, NEW wall \in Int, NEW u \in Int, LocalTime(z, u) = wall
    PROVE  LocalTime(z, ZonedLocalToUtc(z, wall)) = wall
<1>1. z.before \in Int /\ z.after \in Int /\ z.change \in Int
  BY ZonesAssumption
<1> DEFINE guess == wall - OffsetAt(z, wall)
           slot == wall - OffsetAt(z, guess)
<1>2. OffsetAt(z, wall) \in {z.before, z.after} /\ OffsetAt(z, guess) \in {z.before, z.after}
  BY DEF OffsetAt
<1>3. u = wall - OffsetAt(z, u)
  BY <1>1 DEF LocalTime, OffsetAt
<1>4. CASE guess < z.change
  <2>1. slot = wall - z.before
    BY <1>4 DEF OffsetAt
  <2>2. slot < z.change
    BY <1>1, <1>3, <1>4, <2>1 DEF OffsetAt
  <2> QED BY <1>1, <2>1, <2>2 DEF LocalTime, ZonedLocalToUtc, OffsetAt
<1>5. CASE ~(guess < z.change)
  <2>1. slot = wall - z.after
    BY <1>5 DEF OffsetAt
  <2>2. slot >= z.change
    BY <1>1, <1>3, <1>5, <2>1 DEF OffsetAt
  <2> QED BY <1>1, <2>1, <2>2 DEF LocalTime, ZonedLocalToUtc, OffsetAt
<1> QED BY <1>4, <1>5

\* Slots come in the order of their dates, unless the clocks change by a day.
LEMMA SlotsInOrder ==
    ASSUME NEW z \in Zones, z.after - z.before < 24, z.before - z.after < 24,
           NEW t \in Rules, NEW d \in Int, NEW e \in Int, d < e
    PROVE  SlotOn(z, t, d) < SlotOn(z, t, e)
<1>1. z.before \in Int /\ z.after \in Int /\ z.change \in Int /\ t.hour \in Int
  BY ZonesAssumption, RulesAssumption
<1>2. WallTime(t, d) \in Int /\ WallTime(t, e) \in Int
      /\ WallTime(t, e) >= WallTime(t, d) + 24
  BY <1>1 DEF WallTime
<1>3. \A l \in Int : OffsetAt(z, l) \in {z.before, z.after}
  BY DEF OffsetAt
<1> QED BY <1>1, <1>2, <1>3 DEF SlotOn, ZonedLocalToUtc

\* A slot has the wall time the operator chose, on every date on which the
\* clocks show it, for every zone with one change of any size and at any hour
\* (zonedLocalToUtc).
THEOREM WallTimeKept ==
    \A z \in Zones, t \in Rules, d \in Dates : KeepsWallTime(z, t, d)
<1> SUFFICES ASSUME NEW z \in Zones, NEW t \in Rules, NEW d \in Dates,
                    NEW u \in (WallTime(t, d) - 24)..(WallTime(t, d) + 24),
                    LocalTime(z, u) = WallTime(t, d)
             PROVE  LocalTime(z, SlotOn(z, t, d)) = WallTime(t, d)
  BY DEF KeepsWallTime
<1>1. WallTime(t, d) \in Int /\ u \in Int
  BY RulesAssumption, DatesAssumption DEF WallTime
<1> QED BY <1>1, SecondLookSettles DEF SlotOn

\* A date that the search stops at.
FoundOn(z, t, d, from, after) ==
    MatchesRecurrence(t, d) /\ Eligible(z, t, SlotOn(z, t, d), from, after)

\* If there is such a date among those it looks at, it returns the slot of the first one.
LEMMA SearchFinds ==
    ASSUME NEW z \in Zones, NEW t \in Rules, ~t.paused, t.freq # "once",
           NEW from \in Instants, NEW after \in BOOLEAN,
           NEW start \in Int, start = StartDate(z, t, from),
           NEW x \in start..(start + SearchDays - 1), FoundOn(z, t, x, from, after)
    PROVE  \E d \in start..x :
              /\ FoundOn(z, t, d, from, after)
              /\ \A c \in start..(d - 1) : ~FoundOn(z, t, c, from, after)
              /\ NextSlot(z, t, from, after) = SlotOn(z, t, d)
<1> DEFINE days == start..(start + SearchDays - 1)
           Found(d) == FoundOn(z, t, d, from, after)
           First(d) == Found(d) /\ \A c \in start..(d - 1) : ~Found(c)
<1>1. NextSlot(z, t, from, after) = SlotOn(z, t, CHOOSE d \in days : First(d))
  BY DEF NextSlot, FoundOn
<1> HIDE DEF Found
<1>2. \E d \in days : First(d)
  <2> DEFINE ahead == {k \in Nat : Found(start + k)}
  <2>1. x - start \in ahead
    <3>1. x - start \in Nat /\ start + (x - start) = x
      OBVIOUS
    <3> QED BY <3>1 DEF Found
  <2>2. PICK k \in ahead : \A l \in ahead : k <= l
    BY <2>1, LeastInstant
  <2>3. \A c \in start..((start + k) - 1) : ~Found(c)
    <3>1. ASSUME NEW c \in start..((start + k) - 1), Found(c) PROVE FALSE
      <4>1. c - start \in Nat /\ start + (c - start) = c /\ c - start < k
        BY <2>2, <3>1
      <4>2. c - start \in ahead
        BY <3>1, <4>1
      <4> QED BY <2>2, <4>1, <4>2
    <3> QED BY <3>1
  <2>4. start + k \in days
    <3>1. k <= x - start
      BY <2>1, <2>2
    <3> QED BY <2>2, <3>1 DEF SearchDays
  <2>5. First(start + k)
    <3>1. Found(start + k) /\ k \in Nat
      BY <2>2
    <3> HIDE DEF ahead
    <3> QED BY <2>3, <3>1
  <2> QED BY <2>4, <2>5
<1>3. PICK d \in days : First(d) /\ NextSlot(z, t, from, after) = SlotOn(z, t, d)
  BY <1>1, <1>2
<1>4. d <= x
  <2>1. Found(x)
    BY DEF Found
  <2> QED BY <1>3, <2>1
<1> QED BY <1>3, <1>4 DEF Found

\* Dates and hours.
LEMMA DateOf ==
    ASSUME NEW l \in Int, NEW k \in Int
    PROVE  /\ l \div 24 \in Int
           /\ 24 * (l \div 24) <= l /\ l < 24 * (l \div 24) + 24
           /\ k <= l => k \div 24 <= l \div 24
           /\ \A h \in 0..23 : (24 * k + h) \div 24 = k
  OBVIOUS

\* The clocks of an orderly zone never show a date that is over.
LEMMA DatesAscend ==
    ASSUME NEW z \in Zones, Orderly(z), NEW u \in Int, NEW v \in Int, u <= v
    PROVE  LocalTime(z, u) \div 24 <= LocalTime(z, v) \div 24
<1>1. z.before \in Int /\ z.after \in Int /\ z.change \in Int
  BY ZonesAssumption
<1>2. CASE OffsetAt(z, u) = OffsetAt(z, v)
  <2>1. LocalTime(z, u) \in Int /\ LocalTime(z, v) \in Int /\ LocalTime(z, u) <= LocalTime(z, v)
    BY <1>1, <1>2 DEF LocalTime, OffsetAt
  <2> QED BY <2>1, DateOf
<1>3. CASE u < z.change /\ v >= z.change
  <2>1. /\ LocalTime(z, u) \in Int /\ LocalTime(z, u) <= z.change + z.before - 1
        /\ LocalTime(z, v) \in Int /\ z.change + z.after <= LocalTime(z, v)
    BY <1>1, <1>3 DEF LocalTime, OffsetAt
  <2>2. /\ LocalTime(z, u) \div 24 <= (z.change + z.before - 1) \div 24
        /\ (z.change + z.after) \div 24 <= LocalTime(z, v) \div 24
    BY <1>1, <2>1, DateOf
  <2>3. /\ LocalTime(z, u) \div 24 \in Int /\ LocalTime(z, v) \div 24 \in Int
        /\ (z.change + z.before - 1) \div 24 \in Int /\ (z.change + z.after) \div 24 \in Int
    BY <1>1, <2>1, DateOf
  <2>4. (z.change + z.before - 1) \div 24 <= (z.change + z.after) \div 24
    BY DEF Orderly
  <2> QED BY <2>2, <2>3, <2>4
<1> QED BY <1>1, <1>2, <1>3 DEF OffsetAt

\* A slot is on its date, or on the one before when its hour is skipped.
LEMMA SlotDate ==
    ASSUME NEW z \in Zones, Orderly(z), NEW t \in Rules, NEW d \in Int
    PROVE  /\ SlotOn(z, t, d) \in Int
           /\ LocalTime(z, SlotOn(z, t, d)) \div 24 \in {d - 1, d}
<1>1. z.before \in Int /\ z.after \in Int /\ z.change \in Int /\ t.hour \in 0..23
  BY ZonesAssumption, RulesAssumption
<1> DEFINE wall == WallTime(t, d)
           guess == wall - OffsetAt(z, wall)
           slot == wall - OffsetAt(z, guess)
<1>2. wall \in Int /\ wall \div 24 = d /\ wall = 24 * d + t.hour
  BY <1>1, DateOf DEF WallTime
<1>3. SlotOn(z, t, d) = slot /\ slot \in Int
  BY <1>1, <1>2 DEF SlotOn, ZonedLocalToUtc, OffsetAt
<1>4. CASE LocalTime(z, slot) = wall
  BY <1>2, <1>3, <1>4
<1>5. CASE LocalTime(z, slot) # wall /\ guess < z.change
  <2>1. slot = wall - z.before /\ LocalTime(z, slot) = slot + z.after /\ slot >= z.change
    BY <1>1, <1>2, <1>5 DEF LocalTime, OffsetAt
  <2>2. guess = wall - z.after
    BY <1>1, <1>2, <1>5, <2>1 DEF OffsetAt
  <2>3. /\ z.before < z.after /\ z.change + z.before <= wall
        /\ wall <= LocalTime(z, slot)
        /\ LocalTime(z, slot) <= z.change + 2 * z.after - z.before - 1
    BY <1>1, <1>2, <1>5, <2>1, <2>2
  <2>4. (z.change + 2 * z.after - z.before - 1) \div 24 <= (z.change + z.before) \div 24
    BY <2>3 DEF Orderly
  <2>5. LocalTime(z, slot) \in Int
    BY <1>1, <1>2, <2>1
  <2> HIDE DEF wall, guess, slot
  <2>6. /\ (z.change + z.before) \div 24 <= wall \div 24
        /\ wall \div 24 <= LocalTime(z, slot) \div 24
        /\ LocalTime(z, slot) \div 24 <= (z.change + 2 * z.after - z.before - 1) \div 24
    BY <1>1, <1>2, <2>3, <2>5, DateOf
  <2>7. /\ (z.change + z.before) \div 24 \in Int /\ LocalTime(z, slot) \div 24 \in Int
        /\ (z.change + 2 * z.after - z.before - 1) \div 24 \in Int
    BY <1>1, <2>5, DateOf
  <2> QED BY <1>2, <1>3, <2>4, <2>6, <2>7
<1>6. CASE LocalTime(z, slot) # wall /\ guess >= z.change
  <2>1. slot = wall - z.after /\ LocalTime(z, slot) = slot + z.before /\ slot < z.change
    BY <1>1, <1>2, <1>6 DEF LocalTime, OffsetAt
  <2>2. guess = wall - z.before
    BY <1>1, <1>2, <1>6, <2>1 DEF OffsetAt
  <2>3. z.before < z.after /\ z.after - z.before < 24
    BY <1>1, <1>2, <1>6, <2>1, <2>2 DEF Orderly
  <2>4. /\ LocalTime(z, slot) \in Int /\ LocalTime(z, slot) < wall
        /\ wall < LocalTime(z, slot) + 24
    BY <1>1, <1>2, <2>1, <2>3
  <2> HIDE DEF wall, guess, slot
  <2>5. LocalTime(z, slot) \div 24 \in {d - 1, d}
    BY <1>2, <2>4
  <2> QED BY <1>3, <2>5
<1> QED BY <1>1, <1>2, <1>3, <1>4, <1>5, <1>6 DEF OffsetAt


\* The months, one after the other.
LEMMA Months ==
    /\ MonthStart[1] = 0 /\ MonthStart[2] = 31 /\ MonthStart[3] = 59 /\ MonthStart[4] = 90
    /\ MonthStart[5] = 120 /\ MonthStart[6] = 151 /\ MonthStart[7] = 181 /\ MonthStart[8] = 212
    /\ MonthStart[9] = 243 /\ MonthStart[10] = 273 /\ MonthStart[11] = 304
    /\ MonthStart[12] = 334
    /\ MonthLengths[1] = 31 /\ MonthLengths[2] = 28 /\ MonthLengths[3] = 31
    /\ MonthLengths[4] = 30 /\ MonthLengths[5] = 31 /\ MonthLengths[6] = 30
    /\ MonthLengths[7] = 31 /\ MonthLengths[8] = 31 /\ MonthLengths[9] = 30
    /\ MonthLengths[10] = 31 /\ MonthLengths[11] = 30 /\ MonthLengths[12] = 31
  BY DEF MonthStart, MonthLengths

\* The months cover the year and do not overlap.
LEMMA MonthIs ==
    ASSUME NEW d \in Int, NEW m \in 1..12,
           (d % 365) \in MonthStart[m]..(MonthStart[m] + MonthLengths[m] - 1)
    PROVE  MonthOf(d) = m
<1> DEFINE y == d % 365
           In(n) == y \in MonthStart[n]..(MonthStart[n] + MonthLengths[n] - 1)
           Rank == IF y < 31 THEN 1 ELSE IF y < 59 THEN 2 ELSE IF y < 90 THEN 3
                   ELSE IF y < 120 THEN 4 ELSE IF y < 151 THEN 5 ELSE IF y < 181 THEN 6
                   ELSE IF y < 212 THEN 7 ELSE IF y < 243 THEN 8 ELSE IF y < 273 THEN 9
                   ELSE IF y < 304 THEN 10 ELSE IF y < 334 THEN 11 ELSE 12
<1>1. y \in Int
  OBVIOUS
<1>2. \A n \in 1..12 : In(n) => n = Rank
  <2> HIDE DEF y
  <2> SUFFICES ASSUME NEW n \in 1..12, In(n) PROVE n = Rank
    OBVIOUS
  <2>1. \/ n = 1 \/ n = 2 \/ n = 3 \/ n = 4 \/ n = 5 \/ n = 6
        \/ n = 7 \/ n = 8 \/ n = 9 \/ n = 10 \/ n = 11 \/ n = 12
    OBVIOUS
  <2>2. CASE n \in 1..6
    BY <1>1, <2>1, <2>2, Months
  <2>3. CASE n \in 7..12
    BY <1>1, <2>1, <2>3, Months
  <2> QED BY <2>1, <2>2, <2>3
<1>3. MonthOf(d) = CHOOSE n \in 1..12 : In(n)
  BY DEF MonthOf
<1> HIDE DEF In, Rank
<1>4. In(m)
  BY DEF In
<1> QED BY <1>2, <1>3, <1>4

\* A date is in its month, and the next date is in another one if it is the last.
LEMMA DayInMonth ==
    ASSUME NEW d \in Int
    PROVE  /\ DaysInMonth(d) \in 28..31
           /\ DayOfMonth(d) \in 1..DaysInMonth(d)
           /\ MonthOf(d + 1) # MonthOf(d) <=> DayOfMonth(d) = DaysInMonth(d)
<1> DEFINE y == d % 365
           x == (d + 1) % 365
           In(k, n) == k \in MonthStart[n]..(MonthStart[n] + MonthLengths[n] - 1)
<1>1. y \in 0..364 /\ x \in 0..364 /\ x = IF y = 364 THEN 0 ELSE y + 1
  OBVIOUS
<1>2. \A k \in 0..364 : \E n \in 1..12 : In(k, n)
  <2> SUFFICES ASSUME NEW k \in 0..364 PROVE \E n \in 1..12 : In(k, n)
    OBVIOUS
  <2>1. \/ In(k, 1) \/ In(k, 2) \/ In(k, 3) \/ In(k, 4) \/ In(k, 5) \/ In(k, 6)
        \/ In(k, 7) \/ In(k, 8) \/ In(k, 9) \/ In(k, 10) \/ In(k, 11) \/ In(k, 12)
    BY Months
  <2> HIDE DEF In
  <2> QED BY <2>1
<1>3. PICK m \in 1..12 : In(y, m)
  BY <1>1, <1>2
<1>4. PICK n \in 1..12 : In(x, n)
  BY <1>1, <1>2
<1>5. MonthOf(d) = m /\ MonthOf(d + 1) = n
  BY <1>3, <1>4, MonthIs
<1>6. DaysInMonth(d) = MonthLengths[m] /\ DayOfMonth(d) = y - MonthStart[m] + 1
  BY <1>5 DEF DaysInMonth, DayOfMonth
<1> HIDE DEF x, y
<1>7. MonthLengths[m] \in 28..31 /\ MonthStart[m] \in 0..334
  <2>1. \/ m = 1 \/ m = 2 \/ m = 3 \/ m = 4 \/ m = 5 \/ m = 6
        \/ m = 7 \/ m = 8 \/ m = 9 \/ m = 10 \/ m = 11 \/ m = 12
    OBVIOUS
  <2> QED BY <2>1, Months
<1>8. n # m <=> y - MonthStart[m] + 1 = MonthLengths[m]
  BY <1>1, <1>3, <1>4, Months
<1>9. y - MonthStart[m] + 1 \in 1..MonthLengths[m]
  <2> DEFINE first == MonthStart[m]
             length == MonthLengths[m]
  <2>1. first \in 0..334 /\ length \in 28..31 /\ y \in 0..364
    BY <1>1, <1>7
  <2>2. y \in first..(first + length - 1)
    BY <1>3
  <2> HIDE DEF first, length
  <2>3. first <= y /\ y <= first + length - 1
    BY <2>1, <2>2
  <2>4. y - first + 1 \in 1..length
    BY <2>1, <2>3
  <2> QED BY <2>4 DEF first, length
<1> QED BY <1>5, <1>6, <1>7, <1>8, <1>9

\* The code takes for due what the operator has asked for.
LEMMA DueMatches ==
    ASSUME NEW t \in Rules, ~t.paused, NEW d \in Int
    PROVE  DueOn(t, d) <=> MatchesRecurrence(t, d)
<1>1. t.freq \in Freqs /\ t.day \in Int /\ t.days \subseteq 0..6
  BY RulesAssumption
<1>2. CASE t.freq \in {"once", "daily"}
  BY <1>2 DEF DueOn, MatchesRecurrence
<1>3. CASE t.freq = "weekly"
  <2>1. \A w \in 0..6 : (d - w) % 7 = 0 <=> d % 7 = w
    OBVIOUS
  <2>2. (\E w \in t.days : (d - w) % 7 = 0) <=> d % 7 \in t.days
    BY <1>1, <2>1
  <2> QED BY <1>3, <2>2 DEF DueOn, MatchesRecurrence, Weekday
<1>4. CASE t.freq = "monthly"
  <2> DEFINE atDay == DayOfMonth(t.day)
             lastDay == DaysInMonth(d)
             day == DayOfMonth(d)
             Last == MonthOf(d + 1) # MonthOf(d)
  <2>1. lastDay \in 28..31 /\ day \in 1..lastDay /\ (Last <=> day = lastDay)
    BY DayInMonth
  <2>2. atDay \in Int
    BY <1>1, DayInMonth
  <2>3. DueOn(t, d) <=> (day = atDay \/ (day < atDay /\ Last))
    BY <1>4 DEF DueOn
  <2>4. MatchesRecurrence(t, d) <=> day = (IF atDay <= lastDay THEN atDay ELSE lastDay)
    BY <1>4 DEF MatchesRecurrence
  <2> HIDE DEF atDay, lastDay, day, Last
  <2> QED BY <2>1, <2>2, <2>3, <2>4
<1> QED BY <1>1, <1>2, <1>3, <1>4 DEF Freqs

\* From any date on, a schedule is due within a year.
LEMMA SomeDate ==
    ASSUME NEW t \in Rules, ~t.paused, t.freq # "once", NEW s \in Int
    PROVE  \E d \in s..(s + 364) : MatchesRecurrence(t, d)
<1>1. /\ t.freq \in {"daily", "weekly", "monthly"} /\ t.day \in Int /\ t.days \subseteq 0..6
      /\ t.freq = "weekly" => t.days # {}
  BY RulesAssumption DEF Freqs
<1>2. CASE t.freq = "daily"
  BY <1>2 DEF MatchesRecurrence
<1>3. CASE t.freq = "weekly"
  <2>1. PICK w \in t.days : w \in 0..6
    BY <1>1, <1>3
  <2>2. /\ s + ((w - s) % 7) \in s..(s + 364)
        /\ (s + ((w - s) % 7)) % 7 = w
    BY <2>1
  <2> QED BY <1>3, <2>1, <2>2 DEF MatchesRecurrence, Weekday
<1>4. CASE t.freq = "monthly"
  <2> DEFINE atDay == DayOfMonth(t.day)
             d == s + (((atDay - 1) - s) % 365)
  <2>1. atDay \in 1..31
    <3>1. DaysInMonth(t.day) \in 28..31 /\ DayOfMonth(t.day) \in 1..DaysInMonth(t.day)
      BY <1>1, DayInMonth
    <3> QED BY <3>1
  <2>2. d \in s..(s + 364) /\ d % 365 = atDay - 1
    <3> HIDE DEF atDay
    <3> QED BY <2>1
  <2> HIDE DEF atDay, d
  <2>3. MonthOf(d) = 1
    BY <2>1, <2>2, Months, MonthIs
  <2>4. DayOfMonth(d) = atDay /\ DaysInMonth(d) = 31
    BY <2>1, <2>2, <2>3, Months DEF DayOfMonth, DaysInMonth
  <2>5. MatchesRecurrence(t, d)
    BY <1>4, <2>1, <2>4 DEF MatchesRecurrence, atDay
  <2> QED BY <2>2, <2>5
<1> QED BY <1>1, <1>2, <1>3, <1>4

\* The search begins where its first date is the local date of the instant: no
\* date before that has an eligible slot, and from two days on every one does.
LEMMA BeginsInTime ==
    ASSUME NEW z \in Zones, Orderly(z), NEW t \in Rules, NEW from \in Nat,
           NEW after \in BOOLEAN, NEW d \in Int
    PROVE  LET start == StartDate(z, t, from)
               slot == SlotOn(z, t, d)
           IN  /\ start \in Int
               /\ d < start => ~Eligible(z, t, slot, from, after)
               /\ d >= start + 2 => Eligible(z, t, slot, from, after)
<1> DEFINE start == StartDate(z, t, from)
           slot == SlotOn(z, t, d)
           Date(u) == LocalTime(z, u) \div 24
<1>1. slot \in Int /\ Date(slot) \in {d - 1, d} /\ AtUtc(z, t) \in Int /\ t.day \in Int
  BY SlotDate, RulesAssumption DEF AtUtc
<1>2. start \in Int /\ Date(from) \in Int
  BY <1>1, ZonesAssumption DEF StartDate, LocalTime, OffsetAt
<1>3. \A u, v \in Int : u <= v => Date(u) <= Date(v)
  BY DatesAscend
<1>4. CASE from < AtUtc(z, t)
  <2>1. start = t.day
    BY <1>4 DEF StartDate
  <2>2. /\ d < start => slot < AtUtc(z, t)
        /\ d > start => slot > AtUtc(z, t)
    BY <1>1, <2>1, SlotsInOrder DEF AtUtc, Orderly
  <2> HIDE DEF start, slot
  <2>3. d < start => ~Eligible(z, t, slot, from, after)
    BY <1>1, <2>2 DEF Eligible
  <2>4. ASSUME d >= start + 2 PROVE Eligible(z, t, slot, from, after)
    <3>1. slot > AtUtc(z, t)
      BY <1>2, <2>2, <2>4
    <3>2. slot >= AtUtc(z, t) /\ slot > from /\ slot >= from
      BY <1>1, <1>4, <3>1
    <3> QED BY <3>2 DEF Eligible
  <2> QED BY <1>2, <2>3, <2>4 DEF start, slot
<1>5. CASE ~(from < AtUtc(z, t))
  <2>1. start = Date(from)
    BY <1>5 DEF StartDate
  <2> HIDE DEF start, slot, Date
  <2>2. ASSUME d < start PROVE ~Eligible(z, t, slot, from, after)
    <3>1. Date(slot) < Date(from)
      BY <1>1, <1>2, <2>1, <2>2
    <3>2. ~(from <= slot)
      BY <1>1, <1>2, <1>3, <3>1
    <3>3. ~(slot >= from) /\ ~(slot > from)
      BY <1>1, <3>2
    <3> QED BY <3>3 DEF Eligible
  <2>3. ASSUME d >= start + 2 PROVE Eligible(z, t, slot, from, after)
    <3>1. Date(slot) > Date(from)
      BY <1>1, <1>2, <2>1, <2>3
    <3>2. ~(slot <= from)
      BY <1>1, <1>2, <1>3, <3>1
    <3>3. slot >= AtUtc(z, t) /\ slot > from /\ slot >= from
      BY <1>1, <1>5, <3>2
    <3> QED BY <3>3 DEF Eligible
  <2> QED BY <1>2, <2>2, <2>3 DEF start, slot
<1> QED BY <1>4, <1>5

\* What the search returns is the earliest of all eligible slots from its first
\* date on, those of dates it does not look at included: to take the first date
\* is to take the first slot (nextRunAt).
THEOREM FirstDateFirstSlot ==
    ASSUME NEW z \in Zones, z.after - z.before < 24, z.before - z.after < 24,
           NEW t \in Rules, ~t.paused, t.freq # "once",
           NEW from \in Instants, NEW after \in BOOLEAN,
           NextSlot(z, t, from, after) # NoSlot,
           NEW e \in Int, e >= StartDate(z, t, from), MatchesRecurrence(t, e),
           Eligible(z, t, SlotOn(z, t, e), from, after)
    PROVE  /\ Eligible(z, t, NextSlot(z, t, from, after), from, after)
           /\ NextSlot(z, t, from, after) <= SlotOn(z, t, e)
<1> DEFINE start == StartDate(z, t, from)
<1>1. start \in Int
  BY ZonesAssumption, RulesAssumption, DatesAssumption
     DEF StartDate, LocalTime, OffsetAt
<1>2. PICK x \in start..(start + SearchDays - 1) : FoundOn(z, t, x, from, after)
  BY DEF NextSlot, FoundOn
<1> HIDE DEF start
<1>3. PICK d \in start..x :
        /\ FoundOn(z, t, d, from, after)
        /\ \A c \in start..(d - 1) : ~FoundOn(z, t, c, from, after)
        /\ NextSlot(z, t, from, after) = SlotOn(z, t, d)
  BY <1>1, <1>2, SearchFinds DEF start
<1>4. FoundOn(z, t, e, from, after) /\ e >= start
  BY DEF FoundOn, start
<1>5. d \in Int /\ d <= e
  BY <1>1, <1>2, <1>3, <1>4
<1>6. \A c \in Int : SlotOn(z, t, c) \in Int
  BY ZonesAssumption, RulesAssumption DEF SlotOn, ZonedLocalToUtc, OffsetAt, WallTime
<1>7. SlotOn(z, t, d) <= SlotOn(z, t, e)
  <2>1. CASE d = e
    BY <1>5, <1>6, <2>1
  <2>2. CASE d < e
    BY <1>5, <1>6, <2>2, SlotsInOrder
  <2> QED BY <1>5, <2>1, <2>2
<1> QED BY <1>3, <1>7 DEF FoundOn

\* A schedule that repeats always has a next slot: of the four hundred dates
\* that nextRunAt looks at, one is due and in time.
THEOREM SearchSucceeds ==
    ASSUME NEW z \in Zones, Orderly(z), NEW t \in Rules, ~t.paused, t.freq # "once",
           NEW from \in Instants, NEW after \in BOOLEAN
    PROVE  /\ NextSlot(z, t, from, after) # NoSlot
           /\ \E d \in Nat : /\ FoundOn(z, t, d, from, after)
                             /\ NextSlot(z, t, from, after) = SlotOn(z, t, d)
<1>0. from \in Nat /\ t.day \in Nat
  BY DatesAssumption, RulesAssumption
<1> DEFINE start == StartDate(z, t, from)
<1>1. start \in Int
  BY <1>0, BeginsInTime
<1> HIDE DEF start
<1>2. PICK x \in (start + 2)..(start + 366) : MatchesRecurrence(t, x)
  <2>1. PICK y \in (start + 2)..((start + 2) + 364) : MatchesRecurrence(t, y)
    BY <1>1, SomeDate
  <2> QED BY <1>1, <2>1
<1>3. x \in Int /\ x >= start + 2 /\ x \in start..(start + SearchDays - 1)
  BY <1>1, <1>2 DEF SearchDays
<1>4. FoundOn(z, t, x, from, after)
  BY <1>0, <1>2, <1>3, BeginsInTime DEF FoundOn, start
<1>5. PICK d \in start..x : /\ FoundOn(z, t, d, from, after)
                            /\ NextSlot(z, t, from, after) = SlotOn(z, t, d)
  BY <1>1, <1>3, <1>4, SearchFinds DEF start
<1>6. d \in Int /\ SlotOn(z, t, d) \in Int /\ AtUtc(z, t) \in Int
  BY <1>0, <1>1, <1>3, <1>5, SlotDate DEF AtUtc
<1>7. SlotOn(z, t, d) >= AtUtc(z, t) /\ SlotOn(z, t, d) >= from
  BY <1>0, <1>5, <1>6 DEF FoundOn, Eligible
<1>8. d \in Nat
  <2>1. ~(d < t.day)
    BY <1>0, <1>6, <1>7, SlotsInOrder DEF AtUtc, Orderly
  <2> QED BY <1>0, <1>6, <2>1
<1>9. SlotOn(z, t, d) # NoSlot
  BY <1>0, <1>6, <1>7 DEF NoSlot
<1> QED BY <1>5, <1>8, <1>9

\* The search is right for every schedule, instant and orderly zone: a slot has
\* the wall time that was chosen, and nextRunAt returns the first eligible slot of
\* all dates that the operator has asked for, or nothing if there is none.
THEOREM SearchComplete ==
    ASSUME Dates = Nat, \A z \in Zones : Orderly(z)
    PROVE  FindsSlots
<1> SUFFICES ASSUME NEW z \in Zones, NEW t \in Rules, NEW from \in Instants,
                    NEW after \in BOOLEAN
             PROVE  FindsLeast(z, t, {SlotOn(z, t, d) : d \in {e \in Dates : DueOn(t, e)}},
                               from, after)
  BY WallTimeKept DEF FindsSlots
<1> DEFINE slots == {SlotOn(z, t, d) : d \in {e \in Dates : DueOn(t, e)}}
           next == NextSlot(z, t, from, after)
           Fits(u) == Eligible(z, t, u, from, after)
<1>0. Orderly(z) /\ from \in Nat /\ t.day \in Nat
  BY DatesAssumption, RulesAssumption
<1>1. CASE t.paused
  <2>1. next = NoSlot
    BY <1>1 DEF NextSlot
  <2>2. slots = {}
    BY <1>1 DEF DueOn
  <2> QED BY <2>1, <2>2 DEF FindsLeast
<1>2. CASE ~t.paused /\ t.freq = "once"
  <2>1. next = IF Fits(AtUtc(z, t)) THEN AtUtc(z, t) ELSE NoSlot
    BY <1>2 DEF NextSlot
  <2>2. slots = {AtUtc(z, t)}
    <3>1. \A d \in Dates : DueOn(t, d) <=> d = t.day
      BY <1>2 DEF DueOn
    <3> QED BY <1>0, <3>1 DEF AtUtc
  <2>3. AtUtc(z, t) \in Int
    BY <1>0, SlotDate DEF AtUtc
  <2>4. Fits(AtUtc(z, t)) => AtUtc(z, t) # NoSlot
    BY <1>0, <2>3 DEF Eligible, NoSlot
  <2> QED BY <2>1, <2>2, <2>3, <2>4 DEF FindsLeast
<1>3. CASE ~t.paused /\ t.freq # "once"
  <2>1. /\ next # NoSlot
        /\ \E d \in Nat : FoundOn(z, t, d, from, after) /\ next = SlotOn(z, t, d)
    BY <1>0, <1>3, SearchSucceeds
  <2>2. \A d \in Nat : DueOn(t, d) <=> MatchesRecurrence(t, d)
    BY <1>3, DueMatches
  <2>3. next \in {u \in slots : Fits(u)}
    <3>1. PICK d \in Nat : FoundOn(z, t, d, from, after) /\ next = SlotOn(z, t, d)
      BY <2>1
    <3>2. d \in {e \in Dates : DueOn(t, e)} /\ Fits(next)
      BY <2>2, <3>1 DEF FoundOn
    <3> QED BY <3>1, <3>2
  <2>4. ASSUME NEW u \in slots, Fits(u) PROVE next <= u
    <3>1. PICK e \in Nat : MatchesRecurrence(t, e) /\ u = SlotOn(z, t, e)
      BY <2>2
    <3>2. e >= StartDate(z, t, from)
      BY <1>0, <2>4, <3>1, BeginsInTime
    <3> QED BY <1>0, <1>3, <2>1, <2>4, <3>1, <3>2, FirstDateFirstSlot DEF Orderly
  <2> QED BY <2>1, <2>3, <2>4 DEF FindsLeast
<1> QED BY <1>1, <1>2, <1>3

\* Whatever slot a row waits for, the search it came from is right.
THEOREM SlotsStayAsScheduled ==
    ASSUME Dates = Nat, \A z \in Zones : Orderly(z)
    PROVE  Spec => []SlotsAsScheduled
<1>1. SlotsAsScheduled
  BY SearchComplete DEF SlotsAsScheduled
<1> QED
  BY <1>1, PTL

\* TaskSchedule's next slot is nextRunAt's: for a trigger whose instants are the slots of a
\* schedule, as far as the clock goes, NextRunAt is what the walk over local dates returns.
THEOREM NextRunIsNextSlot ==
    ASSUME Dates = Nat, \A z \in Zones : Orderly(z), NEW z \in Zones, NEW t \in Rules,
           NEW trigger \in Triggers, Fires[trigger] = SlotsOf(z, t) \cap Time,
           NEW from \in Time \cap Instants, NEW after \in BOOLEAN
    PROVE  LET next == NextSlot(z, t, from, after)
           IN  NextRunAt(trigger, from, after) = IF next \in Time THEN next ELSE Never
<1> DEFINE slots == {SlotOn(z, t, d) : d \in {e \in Dates : DueOn(t, e)}}
           eligible == {u \in slots : Eligible(z, t, u, from, after)}
           fires == {f \in Fires[trigger] : IF after THEN f > from ELSE f >= from}
           next == NextSlot(z, t, from, after)
<1>1. IF next = NoSlot THEN eligible = {}
      ELSE next \in eligible /\ \A u \in eligible : next <= u
  BY SearchComplete DEF FindsSlots, FindsLeast
<1>2. fires = eligible \cap Time
  BY DEF SlotsOf, Eligible
<1>3. NextRunAt(trigger, from, after) = IF fires = {} THEN Never ELSE Min(fires)
  BY DEF NextRunAt
<1>4. from \in 1..MaxTime /\ MaxTime \in Nat
  BY TimeAssumption DEF Time
<1>5. slots \subseteq Int
  BY SlotDate, RulesAssumption DEF Orderly
<1>6. \A u \in eligible : u \in Int /\ u >= from
  BY <1>4, <1>5 DEF Eligible
<1> HIDE DEF slots, eligible, fires, next
<1>7. CASE next \in Time
  <2>1. next # NoSlot /\ next \in fires /\ fires \in SUBSET Nat
    BY <1>1, <1>2, <1>4, <1>7 DEF NoSlot, Time
  <2>2. Min(fires) \in fires /\ Min(fires) <= next /\ next <= Min(fires)
    BY <1>1, <1>2, <2>1, LeastInstant
  <2>3. Min(fires) = next
    BY <1>6, <1>2, <2>1, <2>2
  <2> QED
    BY <1>3, <1>7, <2>1, <2>3 DEF next
<1>8. CASE next \notin Time
  <2>1. ASSUME NEW u \in fires PROVE FALSE
    <3>1. u \in eligible /\ u \in 1..MaxTime
      BY <1>2, <2>1 DEF Time
    <3>2. next \in eligible /\ next <= u
      BY <1>1, <3>1
    <3>3. next \in 1..MaxTime
      BY <1>4, <1>6, <3>1, <3>2
    <3> QED
      BY <1>8, <3>3 DEF Time
  <2> QED
    BY <1>3, <1>8, <2>1 DEF next
<1> QED
  BY <1>7, <1>8
=============================================================================
