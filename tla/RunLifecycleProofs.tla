------------------------- MODULE RunLifecycleProofs -------------------------
(***************************************************************************)
(* Proofs about RunLifecycle, and about GatedRun that joins it to Torii,   *)
(* for any number of drivers, replicas, calls, follow-ups, continuations   *)
(* and crashes.                                                            *)
(*                                                                         *)
(* The first invariant (IInv) is of the lease: as long as nothing has      *)
(* slipped a run has one driver at a time and records at most one outcome  *)
(* per segment, and a completed run is neither leased nor parked, whatever *)
(* has.  The second (LInv) is of what drivers hand over: whoever is about  *)
(* to complete the row has recorded an outcome, whoever hibernates has     *)
(* parked the run, and no holder takes its lease for lost.  So every       *)
(* segment has its outcome, and no live driver leaves a run it holds.  The *)
(* third (Abreast) is of the transcript: the driver that has an undisturbed*)
(* run has read all that is stored of it, and the call it carries is the   *)
(* one the row and the transcript wait for.  So nothing stored is written  *)
(* over, and no call gets another's answer.                                *)
(***************************************************************************)
EXTENDS GatedRun, FiniteSetTheorems, TLAPS

USE HomeAssumption, NoOneAssumption, NoCallAssumption, BoundsAssumption

\* A holder's lease is live: it lapses only by a slip.
LeaseLive == slips = {} => \A d \in Drivers : Holds(d) => run.live

\* Failing a run that somebody else has reopened is a slip.
RescueIsSlip ==
    \A d \in Drivers : drv[d].pc \in {"rescueOutcome", "rescueComplete"} => slips # {}

\* What the count of outcomes may be before and after a segment's outcome.
Counted ==
    slips = {} =>
        /\ outcomes <= reopens + 1 + crashes
        /\ (run.status # "completed" /\ \A d \in Drivers : ~At(d, "complete"))
              => outcomes <= reopens + crashes

IInv == TypeOK /\ SoleDriver /\ LeaseLive /\ RescueIsSlip /\ Counted /\ CompletedIsReleased

-----------------------------------------------------------------------------
(* Lemmas about the helpers.                                               *)

\* The driver d goes to statement p, the others stay where they are.
Moved(d, p) == /\ drv' \in [Drivers -> Driver]
               /\ drv'[d].pc = p
               /\ \A e \in Drivers \ {d} : drv'[e] = drv[e]

\* A driver's new record, and the others' old ones.
LEMMA RowLemma ==
    ASSUME TypeOK, NEW d \in Drivers, NEW row \in Driver, drv' = [drv EXCEPT ![d] = row]
    PROVE  Moved(d, row.pc)
BY DEF TypeOK, Moved

\* Going to another statement (Move) changes the driver's pc alone.
LEMMA MoveLemma ==
    ASSUME TypeOK, NEW d \in Drivers, NEW p \in PC, Move(d, p)
    PROVE  Moved(d, p)
<1> DEFINE row == [drv[d] EXCEPT !.pc = p]
<1>1. row \in Driver /\ row.pc = p
  BY DEF TypeOK, Driver
<1>2. drv' = [drv EXCEPT ![d] = row]
  BY DEF Move
<1> HIDE DEF row
<1> QED
  BY <1>1, <1>2, RowLemma

\* Where a driver is that does nothing.
LEMMA IdleLemma == Idle \in Driver /\ Idle.pc = "idle"
BY DEF Idle, Driver, PC, History, EmptyHistory, Outcome

\* A driver that leaves (Leave) is idle.
LEMMA LeaveLemma ==
    ASSUME TypeOK, NEW d \in Drivers, Leave(d)
    PROVE  Moved(d, "idle")
<1>1. drv' = [drv EXCEPT ![d] = Idle]
  BY DEF Leave
<1> QED
  BY <1>1, IdleLemma, RowLemma

\* A driver that turns to the end of its run (Finishing) keeps its type.
LEMMA FinishingLemma ==
    ASSUME TypeOK, NEW d \in Drivers, NEW p \in PC, NEW o \in Outcome, Finishing(d, p, o)
    PROVE  Moved(d, p)
<1> DEFINE row == [Idle EXCEPT !.pc = p, !.outcome = o, !.role = drv[d].role,
                               !.lost = drv[d].lost, !.thrown = drv[d].thrown]
<1>1. row \in Driver /\ row.pc = p
  <2>1. drv[d] \in Driver
    BY DEF TypeOK
  <2> QED
    BY <2>1, IdleLemma DEF Driver
<1>2. drv' = [drv EXCEPT ![d] = row]
  BY DEF Finishing
<1> HIDE DEF row
<1> QED
  BY <1>1, <1>2, RowLemma

\* A driver that ends its segment (Terminate) goes to drain the inbox.
LEMMA TerminateLemma ==
    ASSUME TypeOK, NEW d \in Drivers, NEW o \in Outcome, NEW h \in History,
           Terminate(d, o, h)
    PROVE  Moved(d, "drain")
<1> DEFINE row == [drv[d] EXCEPT !.pc = "drain", !.outcome = o, !.hist = h,
                                 !.parked = NoCall, !.fresh = FALSE]
<1>1. row \in Driver /\ row.pc = "drain"
  <2>1. drv[d] \in Driver /\ "drain" \in PC /\ NoCall \in Calls \cup {NoCall}
    BY DEF TypeOK, PC, Holding
  <2> QED
    BY <2>1 DEF Driver
<1>2. drv' = [drv EXCEPT ![d] = row]
  BY DEF Terminate
<1> HIDE DEF row
<1> QED
  BY <1>1, <1>2, RowLemma

\* Answering the open call of a transcript gives a transcript.
LEMMA AnsweredLemma ==
    ASSUME NEW h \in History, NEW s \in Calls \cup {NoCall}
    PROVE  Answered(h, s) \in History
<1>1. CASE h.open = NoCall
  BY <1>1 DEF Answered
<1>2. CASE h.open # NoCall
  <2>1. h.open \in Calls /\ h.answers \in SUBSET (Calls \X (Calls \cup {NoCall}))
    BY <1>2 DEF History
  <2>2. h.answers \cup {<<h.open, s>>} \in SUBSET (Calls \X (Calls \cup {NoCall}))
    BY <2>1
  <2>3. Answered(h, s) = [h EXCEPT !.open = NoCall, !.answers = h.answers \cup {<<h.open, s>>}]
    BY <1>2 DEF Answered
  <2> QED
    BY <2>2, <2>3 DEF History
<1> QED
  BY <1>1, <1>2

\* Parking or unparking leaves the rest of the row alone.
LEMMA ParkLemma ==
    ASSUME run \in Run, NEW c \in Calls \cup {NoCall}
    PROVE  LET row == [run EXCEPT !.parked = c]
           IN  /\ row \in Run /\ row.status = run.status /\ row.owner = run.owner
               /\ row.live = run.live /\ row.parked = c
BY DEF Run

\* Leasing or releasing leaves the rest of the row alone.
LEMMA LeaseLemma ==
    ASSUME run \in Run, NEW o \in Replicas \cup {NoOne}, NEW l \in BOOLEAN
    PROVE  LET row == [run EXCEPT !.owner = o, !.live = l]
           IN  /\ row \in Run /\ row.status = run.status /\ row.owner = o
               /\ row.live = l /\ row.parked = run.parked
BY DEF Run

-----------------------------------------------------------------------------
(* The steps.                                                              *)

\* A run that nobody has launched.
LEMMA InitIInv == Init => IInv
<1> SUFFICES ASSUME Init PROVE IInv
  OBVIOUS
<1>1. TypeOK
  <2>1. overtaken \in BOOLEAN
    BY DEF Init
  <2> QED
    BY <2>1, IdleLemma DEF Init, TypeOK, Run, History, EmptyHistory, Task, Outcome
<1>2. \A d \in Drivers : drv[d].pc = "idle" /\ ~Holds(d)
  BY IdleLemma DEF Init, Holds, Holding
<1> QED
  BY <1>1, <1>2 DEF Init, IInv, SoleDriver, LeaseLive, RescueIsSlip, Counted, At,
     CompletedIsReleased

\* The data a step may change without touching the lease, the counters or who
\* holds the run.
Data == /\ history' \in History
        /\ queue' \in SUBSET Messages
        /\ posting' \in SUBSET Messages
        /\ accepted' \in SUBSET Messages
        /\ torii' \in [Calls -> Task]

\* What is noted of a step that acts on what the run was before.
LEMMA NotedType ==
    ASSUME overtaken \in BOOLEAN, NEW d \in Drivers,
           Repark(d) \/ ClaimRun(d) \/ Reopen(d) \/ overtaken' = overtaken
    PROVE  overtaken' \in BOOLEAN /\ (overtaken => overtaken')
BY DEF Repark, ClaimRun, Reopen, Overtaken, counters

\* A step of one driver that takes hold of nothing, and may be noted.
LEMMA NotedStep ==
    ASSUME IInv, NEW d \in Drivers, NEW p \in PC, Moved(d, p),
           p \in Holding => drv[d].pc \in Holding,
           p \notin {"complete", "rescueOutcome", "rescueComplete"},
           drv[d].pc # "complete",
           Data, run' \in Run, UNCHANGED <<outcomes, reopens, crashes, slips>>,
           overtaken' \in BOOLEAN,
           run'.status = run.status, run'.owner = run.owner,
           run'.live = run.live \/ run'.live = TRUE,
           run.status = "completed" => run'.parked = NoCall
    PROVE  IInv'
<1>1. TypeOK'
  BY DEF IInv, TypeOK, Data, Moved
<1>2. \A e \in Drivers : Holds(e)' => Holds(e)
  BY DEF Holds, Moved
<1>3. SoleDriver' /\ LeaseLive'
  BY <1>2 DEF IInv, SoleDriver, LeaseLive, Owns, Running
<1>4. RescueIsSlip'
  BY DEF IInv, RescueIsSlip, Moved
<1>5. \A e \in Drivers : At(e, "complete")' <=> At(e, "complete")
  BY DEF At, Moved
<1>6. Counted'
  BY <1>5 DEF IInv, Counted
<1>7. CompletedIsReleased'
  BY DEF IInv, CompletedIsReleased
<1> QED
  BY <1>1, <1>3, <1>4, <1>6, <1>7 DEF IInv

\* One that is not.
LEMMA QuietStep ==
    ASSUME IInv, NEW d \in Drivers, NEW p \in PC, Moved(d, p),
           p \in Holding => drv[d].pc \in Holding,
           p \notin {"complete", "rescueOutcome", "rescueComplete"},
           drv[d].pc # "complete",
           Data, run' \in Run, UNCHANGED counters,
           run'.status = run.status, run'.owner = run.owner,
           run'.live = run.live \/ run'.live = TRUE,
           run.status = "completed" => run'.parked = NoCall
    PROVE  IInv'
<1>1. UNCHANGED <<outcomes, reopens, crashes, slips>>
  BY DEF counters
<1>2. overtaken' \in BOOLEAN
  BY DEF counters, IInv, TypeOK
<1> QED
  BY <1>1, <1>2, NotedStep

\* ... and changes no row but its own.
LEMMA QuietMove ==
    ASSUME IInv, NEW d \in Drivers, NEW p \in PC, Moved(d, p),
           p \in Holding => drv[d].pc \in Holding,
           p \notin {"complete", "rescueOutcome", "rescueComplete"},
           drv[d].pc # "complete",
           UNCHANGED <<run, history, followUps, torii, counters>>
    PROVE  IInv'
<1>1. run \in Run /\ Data
  BY DEF IInv, TypeOK, Data, followUps
<1> QED
  BY <1>1, QuietStep DEF IInv, CompletedIsReleased

\* The sweep up to its claim, a continuation up to its update, the way from
\* there to the claim.
LEMMA ApproachStep ==
    ASSUME IInv, NEW d \in Drivers,
           \/ ListClaimable(d) \/ PollPending(d) \/ PollTerminal(d) \/ PollFailed(d)
           \/ Repark(d) \/ FetchHistory(d) \/ SetupFails(d) \/ ReadParked(d)
           \/ \E said \in SUBSET Messages : ReadContinuation(d, said)
    PROVE  IInv'
<1> USE DEF IInv
<1>1. /\ drv[d] \in Driver /\ run \in Run /\ history \in History
      /\ "idle" \in PC /\ "poll" \in PC /\ "repark" \in PC /\ "fetch" \in PC
      /\ "seize" \in PC /\ "setup" \in PC /\ "claim" \in PC /\ "reopen" \in PC
  BY DEF TypeOK, PC
<1>2. {"idle", "poll", "repark", "fetch", "seize", "setup", "claim", "reopen"}
        \cap (Holding \cup {"rescueOutcome", "rescueComplete"}) = {}
  BY DEF Holding
<1>3. CASE ListClaimable(d)
  <2> DEFINE row == [drv[d] EXCEPT !.pc = "poll", !.role = "sweep", !.parked = run.parked]
  <2>1. row \in Driver /\ row.pc = "poll"
    BY <1>1 DEF Driver, Run
  <2>2. /\ drv' = [drv EXCEPT ![d] = row]
        /\ UNCHANGED <<run, history, followUps, torii, counters>> /\ ~At(d, "complete")
    BY <1>3 DEF ListClaimable, At
  <2> HIDE DEF row
  <2>3. Moved(d, "poll")
    BY <2>1, <2>2, RowLemma
  <2> QED
    BY <1>1, <1>2, <2>2, <2>3, QuietMove DEF At
<1>4. CASE PollPending(d) \/ PollTerminal(d) \/ PollFailed(d) \/ SetupFails(d)
  <2>1. /\ \/ \E p \in {"repark", "fetch", "seize"} : Move(d, p)
           \/ Leave(d)
        /\ UNCHANGED <<run, history, followUps, torii, counters>> /\ ~At(d, "complete")
    BY <1>4 DEF PollPending, PollTerminal, PollFailed, SetupFails, At
  <2>2. \E p \in {"repark", "fetch", "seize", "idle"} : Moved(d, p)
    BY <1>1, <2>1, MoveLemma, LeaveLemma
  <2> QED
    BY <1>1, <1>2, <2>1, <2>2, QuietMove DEF At
<1>5. CASE Repark(d)
  <2>1. /\ Leave(d) /\ ~At(d, "complete")
        /\ UNCHANGED <<history, followUps, torii, outcomes, reopens, crashes, slips>>
        /\ run' = IF Running THEN [run EXCEPT !.parked = drv[d].parked] ELSE run
    BY <1>5 DEF Repark, At
  <2>2. Moved(d, "idle")
    BY <2>1, LeaveLemma
  <2>3. drv[d].parked \in Calls \cup {NoCall}
    BY <1>1 DEF Driver
  <2>4. /\ run' \in Run /\ run'.status = run.status /\ run'.owner = run.owner
        /\ run'.live = run.live
        /\ run.status = "completed" => run'.parked = NoCall
    BY <1>1, <2>1, <2>3, ParkLemma DEF Running, CompletedIsReleased
  <2>5. Data
    BY <2>1 DEF Data, followUps, TypeOK
  <2>6. overtaken' \in BOOLEAN
    BY <1>5, NotedType DEF TypeOK
  <2> QED
    BY <1>1, <1>2, <2>1, <2>2, <2>4, <2>5, <2>6, NotedStep DEF At
<1>6. CASE FetchHistory(d)
  <2> DEFINE row == [drv[d] EXCEPT !.pc = "setup", !.role = "resume", !.hist = history]
  <2>1. row \in Driver /\ row.pc = "setup"
    BY <1>1 DEF Driver
  <2>2. /\ drv' = [drv EXCEPT ![d] = row]
        /\ UNCHANGED <<run, history, followUps, torii, counters>> /\ ~At(d, "complete")
    BY <1>6 DEF FetchHistory, At
  <2> HIDE DEF row
  <2>3. Moved(d, "setup")
    BY <2>1, <2>2, RowLemma
  <2> QED
    BY <1>1, <1>2, <2>2, <2>3, QuietMove DEF At
<1>7. CASE ReadParked(d)
  <2> DEFINE row == [drv[d] EXCEPT !.pc = "claim", !.parked = run.parked]
  <2>1. row \in Driver /\ row.pc = "claim"
    BY <1>1 DEF Driver, Run
  <2>2. /\ drv' = [drv EXCEPT ![d] = row]
        /\ UNCHANGED <<run, history, followUps, torii, counters>> /\ ~At(d, "complete")
    BY <1>7 DEF ReadParked, At
  <2> HIDE DEF row
  <2>3. Moved(d, "claim")
    BY <2>1, <2>2, RowLemma
  <2> QED
    BY <1>1, <1>2, <2>2, <2>3, QuietMove DEF At
<1>8. ASSUME NEW said \in SUBSET Messages, ReadContinuation(d, said) PROVE IInv'
  <2> DEFINE h == [history EXCEPT !.said = history.said \cup said]
             row == [drv[d] EXCEPT !.pc = "reopen", !.role = "resume", !.hist = h]
  <2>1. h \in History
    BY <1>1 DEF History
  <2>2. row \in Driver /\ row.pc = "reopen"
    BY <1>1, <2>1 DEF Driver
  <2>3. /\ drv' = [drv EXCEPT ![d] = row]
        /\ UNCHANGED <<run, history, followUps, torii, counters>> /\ ~At(d, "complete")
    BY <1>8 DEF ReadContinuation, At
  <2> HIDE DEF row
  <2>4. Moved(d, "reopen")
    BY <2>2, <2>3, RowLemma
  <2> QED
    BY <1>1, <1>2, <2>3, <2>4, QuietMove DEF At
<1> QED
  BY <1>3, <1>4, <1>5, <1>6, <1>7, <1>8

\* What a driver does with a run it holds, up to its outcome, never makes
\* another driver a holder.
LEMMA DriveStep ==
    ASSUME IInv, NEW d \in Drivers,
           Drive(d) \/ EndLoop(d) \/ CatchError(d) \/ DiscardFollowUps(d) \/ LoseLease(d)
    PROVE  IInv'
<1> USE DEF IInv
<1>1. /\ drv[d] \in Driver /\ run \in Run /\ history \in History
      /\ drv[d].hist \in History /\ drv[d].parked \in Calls \cup {NoCall}
      /\ drv[d].outcome \in Outcome
  BY DEF TypeOK, Driver
<1>2. Holding \subseteq PC /\ {"idle", "release"} \subseteq PC
      /\ {"idle", "release"} \cap (Holding \cup {"rescueOutcome", "rescueComplete"}) = {}
  BY DEF PC, Holding
<1>3. \A s \in Calls \cup {NoCall} : Answered(drv[d].hist, s) \in History
  BY <1>1, AnsweredLemma
<1> DEFINE Steps == {"connect", "wake", "park", "hibernate", "wait", "renew", "clear",
                     "answer", "failCall", "drain", "drainDelete", "drained", "model",
                     "dispatch", "end", "failing", "outcome"}
<1>4. /\ Steps \subseteq Holding
      /\ Steps \cap {"complete", "rescueOutcome", "rescueComplete"} = {}
  BY DEF Holding
<1> HIDE DEF Steps
\* It is enough to name the statement the driver goes to.
<1>5. ASSUME NEW p \in Steps \cup {"idle", "release"}, Moved(d, p),
             drv[d].pc \in Steps \/ (drv[d].pc = "discard" /\ p \in {"idle", "release"}),
             Data, run' \in Run, UNCHANGED counters,
             run'.status = run.status, run'.owner = run.owner,
             run'.live = run.live \/ run'.live = TRUE,
             run.status = "completed" => run'.parked = NoCall
      PROVE  IInv'
  <2>1. p \in PC /\ p \notin {"complete", "rescueOutcome", "rescueComplete"}
    BY <1>2, <1>4, <1>5
  <2>2. p \in Holding => drv[d].pc \in Holding
    BY <1>2, <1>4, <1>5
  <2>3. drv[d].pc # "complete"
    BY <1>4, <1>5
  <2> QED
    BY <1>5, <2>1, <2>2, <2>3, QuietStep
<1>6. ASSUME NEW p \in Steps \cup {"idle", "release"}, Moved(d, p),
             drv[d].pc \in Steps, history' \in History,
             UNCHANGED <<run, followUps, torii, counters>>
      PROVE  IInv'
  <2>1. Data
    BY <1>6 DEF Data, followUps, TypeOK
  <2> QED
    BY <1>1, <1>5, <1>6, <2>1 DEF CompletedIsReleased
<1>7. CASE Connect(d)
  <2>1. /\ drv[d].pc = "connect" /\ UNCHANGED <<run, history, followUps, torii, counters>>
        /\ \/ \E p \in {"drain", "wake"} : Move(d, p)
           \/ Terminate(d, "failed", drv[d].hist)
    BY <1>7 DEF Connect, At
  <2>2. \E p \in {"drain", "wake"} : Moved(d, p)
    BY <1>1, <2>1, MoveLemma, TerminateLemma DEF PC, Holding, Outcome
  <2> QED
    BY <1>1, <1>6, <2>1, <2>2 DEF Steps
<1>8. CASE ConnectFails(d)
  <2> DEFINE row == [drv[d] EXCEPT !.pc = "failing", !.thrown = TRUE]
  <2>1. row \in Driver /\ row.pc = "failing"
    BY <1>1 DEF Driver, PC, Holding
  <2>2. /\ drv[d].pc = "connect" /\ UNCHANGED <<run, history, followUps, torii, counters>>
        /\ drv' = [drv EXCEPT ![d] = row]
    BY <1>8 DEF ConnectFails, At
  <2> HIDE DEF row
  <2>3. Moved(d, "failing")
    BY <2>1, <2>2, RowLemma
  <2> QED
    BY <1>1, <1>6, <2>2, <2>3 DEF Steps
<1>9. CASE Checkpoint(d) \/ AppendToolResult(d) \/ CheckpointDrained(d)
  <2>1. /\ drv[d].pc \in {"wake", "answer", "drained"} /\ history' = drv[d].hist
        /\ UNCHANGED <<run, followUps, torii, counters>>
        /\ \E p \in {"park", "drain", "model", "end"} : Move(d, p)
    BY <1>9 DEF Checkpoint, AppendToolResult, CheckpointDrained, At
  <2>2. \E p \in {"park", "drain", "model", "end"} : Moved(d, p)
    BY <2>1, MoveLemma DEF PC, Holding
  <2> QED
    BY <1>1, <1>6, <2>1, <2>2 DEF Steps
<1>10. CASE SetParkedMcpTask(d)
  <2> DEFINE p == IF drv[d].fresh THEN "hibernate" ELSE "wait"
             row == [drv[d] EXCEPT !.pc = p, !.fresh = FALSE]
  <2>1. row \in Driver /\ row.pc = p /\ p \in Steps
    BY <1>1 DEF Driver, PC, Holding, Steps
  <2>2. /\ drv[d].pc = "park" /\ UNCHANGED <<history, followUps, torii, counters>>
        /\ drv' = [drv EXCEPT ![d] = row]
        /\ run' = IF Running THEN [run EXCEPT !.parked = drv[d].parked] ELSE run
    BY <1>10 DEF SetParkedMcpTask, At
  <2> HIDE DEF row, p
  <2>3. Moved(d, p)
    BY <2>1, <2>2, RowLemma
  <2>4. /\ run' \in Run /\ run'.status = run.status /\ run'.owner = run.owner
        /\ run'.live = run.live
        /\ run.status = "completed" => run'.parked = NoCall
    BY <1>1, <2>2, ParkLemma DEF Running, CompletedIsReleased
  <2>5. Data
    BY <2>2 DEF Data, followUps, TypeOK
  <2>6. drv[d].pc \in Steps
    BY <2>2 DEF Steps
  <2> QED
    BY <1>5, <2>1, <2>2, <2>3, <2>4, <2>5, <2>6
<1>11. CASE Hibernate(d) \/ EndLoop(d)
  <2>1. /\ drv[d].pc \in {"hibernate", "end"} /\ history' \in {history, drv[d].hist}
        /\ UNCHANGED <<run, followUps, torii, counters>>
        /\ \/ Leave(d)
           \/ Finishing(d, "release", "none")
           \/ Finishing(d, "outcome", drv[d].outcome)
    BY <1>11 DEF Hibernate, EndLoop, At
  <2>2. \E p \in {"idle", "release", "outcome"} : Moved(d, p)
    BY <1>1, <2>1, LeaveLemma, FinishingLemma DEF PC, Holding, Outcome
  <2> QED
    BY <1>1, <1>6, <2>1, <2>2 DEF Steps
<1>12. CASE PollResult(d)
  <2>1. /\ drv[d].pc = "wait" /\ UNCHANGED <<run, history, followUps, torii, counters>>
        /\ \/ \E o \in {"rejected", "none"} :
                drv' = [drv EXCEPT ![d] = [drv[d] EXCEPT !.pc = "renew", !.outcome = o]]
           \/ Move(d, "failCall")
    BY <1>12 DEF PollResult, At
  <2>2. ASSUME NEW o \in {"rejected", "none"},
               drv' = [drv EXCEPT ![d] = [drv[d] EXCEPT !.pc = "renew", !.outcome = o]]
        PROVE  Moved(d, "renew")
    <3> DEFINE row == [drv[d] EXCEPT !.pc = "renew", !.outcome = o]
    <3>1. row \in Driver /\ row.pc = "renew"
      BY <1>1 DEF Driver, PC, Holding, Outcome
    <3>2. drv' = [drv EXCEPT ![d] = row]
      BY <2>2
    <3> HIDE DEF row
    <3> QED
      BY <3>1, <3>2, RowLemma
  <2>3. \E p \in {"renew", "failCall"} : Moved(d, p)
    BY <2>1, <2>2, MoveLemma DEF PC, Holding
  <2> QED
    BY <1>1, <1>6, <2>1, <2>3 DEF Steps
<1>13. CASE RenewAfterPoll(d)
  <2>1. /\ drv[d].pc = "renew" /\ UNCHANGED <<history, followUps, torii, counters>>
        /\ run' = IF Owns(d) THEN [run EXCEPT !.live = TRUE] ELSE run
        /\ \E p \in {"clear", "failCall"} : Move(d, p)
    BY <1>13 DEF RenewAfterPoll, At
  <2>2. \E p \in {"clear", "failCall"} : Moved(d, p)
    BY <2>1, MoveLemma DEF PC, Holding
  <2>3. /\ run' \in Run /\ run'.status = run.status /\ run'.owner = run.owner
        /\ run'.live = run.live \/ run'.live = TRUE
        /\ run'.parked = run.parked
    BY <1>1, <2>1 DEF Run
  <2>4. Data /\ drv[d].pc \in Steps /\ {"clear", "failCall"} \subseteq Steps
    BY <2>1 DEF Data, followUps, TypeOK, Steps
  <2> QED
    BY <1>5, <2>1, <2>2, <2>3, <2>4 DEF CompletedIsReleased
<1>14. CASE ClearParkedMcpTask(d)
  <2> DEFINE h == Answered(drv[d].hist, drv[d].parked)
             row == [drv[d] EXCEPT !.pc = "answer", !.parked = NoCall, !.hist = h]
  <2>1. row \in Driver /\ row.pc = "answer"
    <3>1. h \in History /\ "answer" \in PC /\ NoCall \in Calls \cup {NoCall}
      BY <1>1, <1>3 DEF PC, Holding
    <3> HIDE DEF h
    <3> QED
      BY <1>1, <3>1 DEF Driver
  <2>2. /\ drv[d].pc = "clear" /\ UNCHANGED <<history, followUps, torii, counters>>
        /\ run' = [run EXCEPT !.parked = NoCall]
        /\ (drv' = [drv EXCEPT ![d] = row]) \/ Move(d, "failCall")
    <3> HIDE DEF h
    <3> QED
      BY <1>14 DEF ClearParkedMcpTask, At, h
  <2> HIDE DEF row
  <2>3. \E p \in {"answer", "failCall"} : Moved(d, p)
    BY <2>1, <2>2, RowLemma, MoveLemma DEF PC, Holding
  <2>4. /\ run' \in Run /\ run'.status = run.status /\ run'.owner = run.owner
        /\ run'.live = run.live /\ run'.parked = NoCall
    BY <1>1, <2>2, ParkLemma
  <2>5. Data /\ drv[d].pc \in Steps /\ {"answer", "failCall"} \subseteq Steps
    BY <2>2 DEF Data, followUps, TypeOK, Steps
  <2> QED
    BY <1>5, <2>2, <2>3, <2>4, <2>5
<1>15. CASE PushToolErrorResult(d) \/ StopNow(d) \/ AssessTask(d) \/ EndTurn(d)
  <2>1. /\ drv[d].pc \in {"failCall", "model", "dispatch", "wake"}
        /\ UNCHANGED <<run, followUps, torii, counters>>
        /\ \E h \in {Answered(drv[d].hist, NoCall), drv[d].hist},
              o \in {"failed", "stopped", "done"} : Terminate(d, o, h)
        /\ history' \in {history, drv[d].hist, Answered(drv[d].hist, NoCall)}
    BY <1>15 DEF PushToolErrorResult, StopNow, AssessTask, EndTurn, At
  <2>2. Moved(d, "drain")
    BY <1>1, <1>3, <2>1, TerminateLemma DEF Outcome
  <2> QED
    BY <1>1, <1>3, <1>6, <2>1, <2>2 DEF Steps
<1>16. CASE DrainSelect(d)
  <2> DEFINE h == [drv[d].hist EXCEPT !.said = drv[d].hist.said \cup queue]
             row == [drv[d] EXCEPT !.pc = "drainDelete", !.hist = h]
  <2>1. row \in Driver /\ row.pc = "drainDelete"
    <3>1. h \in History
      BY <1>1 DEF History, TypeOK
    <3> HIDE DEF h
    <3> QED
      BY <1>1, <3>1 DEF Driver, PC, Holding
  <2>2. /\ drv[d].pc = "drain" /\ UNCHANGED <<run, history, followUps, torii, counters>>
        /\ drv' = [drv EXCEPT ![d] = row] \/ \E p \in {"model", "end"} : Move(d, p)
    BY <1>16 DEF DrainSelect, At
  <2> HIDE DEF row
  <2>3. \E p \in {"drainDelete", "model", "end"} : Moved(d, p)
    BY <2>1, <2>2, RowLemma, MoveLemma DEF PC, Holding
  <2> QED
    BY <1>1, <1>6, <2>2, <2>3 DEF Steps
<1>17. CASE DrainDelete(d)
  <2>1. /\ drv[d].pc = "drainDelete" /\ queue' = {} /\ Move(d, "drained")
        /\ UNCHANGED <<run, history, posting, accepted, torii, counters>>
    BY <1>17 DEF DrainDelete, At
  <2>2. Moved(d, "drained")
    BY <2>1, MoveLemma DEF PC, Holding
  <2>3. Data /\ drv[d].pc \in Steps /\ "drained" \in Steps
    BY <2>1 DEF Data, TypeOK, Steps
  <2> QED
    BY <1>1, <1>5, <2>1, <2>2, <2>3 DEF CompletedIsReleased
<1>18. ASSUME NEW c \in Calls, CallTool(d, c) PROVE IInv'
  <2> DEFINE h == [drv[d].hist EXCEPT !.open = c]
             row == [drv[d] EXCEPT !.pc = "dispatch", !.parked = c, !.hist = h]
  <2>1. h \in History
    BY <1>1 DEF History
  <2>2. row \in Driver /\ row.pc = "dispatch"
    <3> HIDE DEF h
    <3> QED
      BY <1>1, <2>1 DEF Driver, PC, Holding
  <2>3. /\ drv[d].pc = "model" /\ UNCHANGED <<run, followUps, counters>>
        /\ history' = h /\ torii' = [torii EXCEPT ![c] = "called"]
        /\ drv' = [drv EXCEPT ![d] = row]
    BY <1>18 DEF CallTool, At
  <2> HIDE DEF h, row
  <2>4. Moved(d, "dispatch")
    BY <2>2, <2>3, RowLemma
  <2>5. Data /\ drv[d].pc \in Steps /\ "dispatch" \in Steps
    BY <2>1, <2>3 DEF Data, followUps, TypeOK, Task, Steps
  <2> QED
    BY <1>1, <1>5, <2>3, <2>4, <2>5 DEF CompletedIsReleased
<1>19. CASE Dispatch(d)
  <2> DEFINE h == Answered(drv[d].hist, drv[d].parked)
             answer(o) == [drv[d] EXCEPT !.pc = "answer", !.parked = NoCall, !.hist = h,
                                         !.outcome = o]
             wake == [drv[d] EXCEPT !.pc = "wake", !.fresh = TRUE]
  <2>1. ASSUME NEW o \in {"none", "rejected"}
        PROVE  answer(o) \in Driver /\ answer(o).pc = "answer"
    <3>1. h \in History /\ "answer" \in PC /\ NoCall \in Calls \cup {NoCall} /\ o \in Outcome
      BY <1>1, <1>3 DEF PC, Holding, Outcome
    <3> HIDE DEF h
    <3> QED
      BY <1>1, <3>1 DEF Driver
  <2>2. wake \in Driver /\ wake.pc = "wake"
    BY <1>1 DEF Driver, PC, Holding
  <2>3. /\ drv[d].pc = "dispatch" /\ UNCHANGED <<run, history, followUps, counters>>
        /\ torii' \in {torii, [torii EXCEPT ![drv[d].parked] = "open"]}
        /\ \/ \E o \in {"none", "rejected"} : drv' = [drv EXCEPT ![d] = answer(o)]
           \/ drv' = [drv EXCEPT ![d] = wake]
           \/ Move(d, "failCall")
    BY <1>19 DEF Dispatch, At
  <2> HIDE DEF answer, wake
  <2>4. \E p \in {"answer", "wake", "failCall"} : Moved(d, p)
    <3>1. ASSUME NEW o \in {"none", "rejected"}, drv' = [drv EXCEPT ![d] = answer(o)]
          PROVE  Moved(d, "answer")
      BY <2>1, <3>1, RowLemma
    <3> QED
      BY <2>2, <2>3, <3>1, RowLemma, MoveLemma DEF PC, Holding
  <2>5. Data /\ drv[d].pc \in Steps /\ {"answer", "wake", "failCall"} \subseteq Steps
    BY <2>3 DEF Data, followUps, TypeOK, Task, Steps
  <2> QED
    BY <1>1, <1>5, <2>3, <2>4, <2>5 DEF CompletedIsReleased
<1>20. CASE CatchError(d)
  <2>1. /\ drv[d].pc = "failing" /\ UNCHANGED <<run, history, followUps, torii, counters>>
        /\ \/ Leave(d)
           \/ Finishing(d, "outcome", "failed")
           \/ Finishing(d, "release", "none")
    BY <1>20 DEF CatchError, At
  <2>2. \E p \in {"idle", "outcome", "release"} : Moved(d, p)
    BY <2>1, LeaveLemma, FinishingLemma DEF PC, Holding, Outcome
  <2> QED
    BY <1>1, <1>6, <2>1, <2>2 DEF Steps
<1>21. CASE DiscardFollowUps(d)
  <2>1. /\ drv[d].pc = "discard" /\ queue' = {} /\ (Leave(d) \/ Move(d, "release"))
        /\ UNCHANGED <<run, history, posting, accepted, torii, counters>>
    BY <1>21 DEF DiscardFollowUps, At
  <2>2. \E p \in {"idle", "release"} : Moved(d, p)
    BY <1>2, <2>1, LeaveLemma, MoveLemma
  <2>3. Data
    BY <2>1 DEF Data, TypeOK
  <2> QED
    BY <1>1, <1>5, <2>1, <2>2, <2>3 DEF CompletedIsReleased
<1>22. CASE LoseLease(d)
  <2> DEFINE row == [drv[d] EXCEPT !.lost = TRUE]
  <2>1. row \in Driver /\ row.pc = drv[d].pc
    BY <1>1 DEF Driver
  <2>2. /\ UNCHANGED <<run, history, followUps, torii, counters>>
        /\ drv' = [drv EXCEPT ![d] = row]
    BY <1>22 DEF LoseLease
  <2> HIDE DEF row
  <2>3. Moved(d, drv[d].pc)
    BY <2>1, <2>2, RowLemma
  <2>4. TypeOK'
    BY <2>2, <2>3 DEF TypeOK, Moved, counters, followUps
  <2>5. \A e \in Drivers : drv'[e].pc = drv[e].pc
    BY <2>3 DEF Moved
  <2> QED
    BY <2>2, <2>4, <2>5 DEF SoleDriver, LeaseLive, RescueIsSlip, Counted, At, Holds, Owns,
       Running, CompletedIsReleased, counters
<1> QED
  BY <1>7, <1>8, <1>9, <1>10, <1>11, <1>12, <1>13, <1>14, <1>15, <1>16, <1>17, <1>18,
     <1>19, <1>20, <1>21, <1>22 DEF Drive

\* Nobody holds a run that may be claimed, and nobody holds one that is not
\* running, unless something has slipped.
LEMMA NobodyHolds ==
    ASSUME IInv, slips = {}, Claimable \/ ~Running
    PROVE  \A e \in Drivers : ~Holds(e)
BY DEF IInv, SoleDriver, LeaseLive, Owns, Claimable

\* A launch and a continuation open the run, but take no hold of it.
LEMMA OpenStep ==
    ASSUME IInv, NEW d \in Drivers, Launch(d) \/ Reopen(d)
    PROVE  IInv'
<1> USE DEF IInv
<1>1. drv[d].hist \in History /\ "setup" \in PC /\ "idle" \in PC /\ "setup" \notin Holding
      /\ "idle" \notin Holding
  BY DEF TypeOK, Driver, PC, Holding
<1>2. CASE Reopen(d) /\ Leave(d) /\ UNCHANGED <<run, history, accepted, reopens, overtaken>>
  <2>1. At(d, "reopen") /\ UNCHANGED <<run, history, followUps, torii, counters>>
    BY <1>2 DEF Reopen, followUps, counters
  <2> QED
    BY <1>1, <1>2, <2>1, LeaveLemma, QuietMove DEF At
<1>3. CASE \/ Launch(d)
           \/ /\ Reopen(d)
              /\ run.status = "completed"
              /\ reopens < MaxReopens
              /\ run' = [run EXCEPT !.status = "running", !.outcome = "none"]
              /\ history' = drv[d].hist
              /\ accepted' = accepted \cup drv[d].hist.said
              /\ reopens' = reopens + 1
              /\ Move(d, "setup")
  <2>1. /\ At(d, "idle") \/ At(d, "reopen")
        /\ Move(d, "setup") /\ ~Running
        /\ UNCHANGED <<queue, posting, torii, outcomes, crashes, slips>>
    BY <1>3 DEF Launch, Reopen, followUps, counters, Running
  <2>2. Moved(d, "setup")
    BY <1>1, <2>1, MoveLemma
  <2>3. run' \in Run /\ run'.status = "running"
    BY <1>3 DEF Launch, TypeOK, Run, Outcome
  <2>4. /\ history' \in History /\ accepted' \in SUBSET Messages
        /\ reopens' \in 0..MaxReopens /\ reopens' >= reopens
        /\ run.status = "completed" => reopens' = reopens + 1
    BY <1>1, <1>3 DEF Launch, TypeOK, History, followUps, counters
  <2>5. TypeOK'
    <3>1. overtaken' \in BOOLEAN
      BY <1>3, NotedType DEF Launch, counters, TypeOK
    <3> QED
      BY <2>1, <2>2, <2>3, <2>4, <3>1 DEF TypeOK, Moved
  <2>6. slips = {} => \A e \in Drivers : ~Holds(e)'
    BY <1>1, <2>1, <2>2, NobodyHolds DEF Holds, Moved
  <2>7. SoleDriver' /\ LeaseLive'
    BY <2>1, <2>6 DEF SoleDriver, LeaseLive
  <2>8. RescueIsSlip'
    BY <2>1, <2>2 DEF RescueIsSlip, Moved
  <2>9. slips = {} => \A e \in Drivers : ~At(e, "complete")
    BY <2>1, NobodyHolds DEF At, Holds, Holding
  <2>10. Counted'
    <3>1. outcomes \in Nat /\ reopens \in Nat /\ reopens' \in Nat /\ crashes \in Nat
      BY <2>4 DEF TypeOK
    <3>2. UNCHANGED <<outcomes, crashes, slips>>
      BY <2>1
    <3>3. CASE slips = {} /\ run.status = "completed"
      <4>1. outcomes <= reopens + 1 + crashes /\ reopens' = reopens + 1
        BY <2>4, <3>3 DEF Counted
      <4>2. outcomes <= reopens' + crashes /\ outcomes <= reopens' + 1 + crashes
        BY <3>1, <4>1
      <4> QED
        BY <3>2, <4>2 DEF Counted
    <3>4. CASE slips = {} /\ run.status # "completed"
      <4>1. outcomes <= reopens + crashes /\ reopens <= reopens'
        BY <2>4, <2>9, <3>1, <3>4 DEF Counted
      <4> HIDE DEF IInv
      <4>2. \A a, b, c, e \in Nat : a <= b + e /\ b <= c => a <= c + e /\ a <= c + 1 + e
        OBVIOUS
      <4>3. outcomes <= reopens' + crashes /\ outcomes <= reopens' + 1 + crashes
        BY <3>1, <4>1, <4>2
      <4> QED
        BY <3>2, <4>3 DEF Counted
    <3> QED
      BY <3>2, <3>3, <3>4 DEF Counted
  <2>11. CompletedIsReleased'
    BY <2>3 DEF CompletedIsReleased
  <2> QED
    BY <2>5, <2>7, <2>8, <2>10, <2>11
<1> QED
  BY <1>2, <1>3 DEF Reopen

\* claimRun gives the run to a driver when nobody else holds it.
LEMMA ClaimStep ==
    ASSUME IInv, NEW d \in Drivers, ClaimRun(d) \/ Seize(d)
    PROVE  IInv'
<1> USE DEF IInv
<1>1. {"connect", "outcome", "idle"} \subseteq PC /\ "idle" \notin Holding
      /\ "failed" \in Outcome
  BY DEF PC, Holding, Outcome
<1>2. /\ At(d, "claim") \/ At(d, "seize")
      /\ UNCHANGED <<history, followUps, torii, outcomes, reopens, crashes, slips>>
  BY DEF ClaimRun, Seize, counters
<1>3. CASE ~Claimable
  <2>1. Leave(d) /\ UNCHANGED <<run, counters>>
    BY <1>2, <1>3 DEF ClaimRun, Seize, counters
  <2> QED
    BY <1>1, <1>2, <2>1, LeaveLemma, QuietMove DEF At
<1>4. CASE Claimable
  <2>1. /\ run' = [run EXCEPT !.owner = Home[d], !.live = TRUE]
        /\ Move(d, "connect") \/ Finishing(d, "outcome", "failed")
    BY <1>4 DEF ClaimRun, Seize
  <2>2. PICK p \in {"connect", "outcome"} : Moved(d, p)
    BY <1>1, <2>1, MoveLemma, FinishingLemma
  <2>3. /\ run' \in Run /\ run'.status = "running" /\ run'.owner = Home[d]
        /\ run'.live = TRUE
    BY <1>4, <2>1, LeaseLemma DEF TypeOK, Claimable, Running
  <2>4. TypeOK'
    <3>1. overtaken' \in BOOLEAN
      BY NotedType DEF Seize, counters, TypeOK
    <3> QED
      BY <1>2, <2>2, <2>3, <3>1 DEF TypeOK, Moved, followUps
  <2>5. slips = {} => \A e \in Drivers \ {d} : ~Holds(e)'
    BY <1>4, <2>2, NobodyHolds DEF Holds, Moved
  <2>6. SoleDriver' /\ LeaseLive'
    BY <1>2, <2>3, <2>5 DEF SoleDriver, LeaseLive, Owns, Running
  <2>7. RescueIsSlip'
    BY <1>2, <2>2 DEF RescueIsSlip, Moved
  <2>8. \A e \in Drivers : At(e, "complete")' <=> At(e, "complete")
    BY <1>2, <2>2 DEF At, Moved
  <2>9. Counted'
    <3>1. run.status = "running" /\ run'.status = "running"
      BY <1>4, <2>3 DEF Claimable, Running
    <3> QED
      BY <1>2, <2>8, <3>1 DEF Counted, At
  <2>10. CompletedIsReleased'
    BY <2>3 DEF CompletedIsReleased
  <2> QED
    BY <2>4, <2>6, <2>7, <2>9, <2>10
<1> QED
  BY <1>3, <1>4

\* One holder records one outcome before the row is completed.
LEMMA RecordStep ==
    ASSUME IInv, NEW d \in Drivers, RecordOutcome(d)
    PROVE  IInv'
<1> USE DEF IInv
<1> DEFINE p == IF At(d, "outcome") THEN "complete" ELSE "rescueComplete"
<1>1. /\ At(d, "outcome") \/ At(d, "rescueOutcome")
      /\ Move(d, p) /\ p \in PC /\ outcomes' = outcomes + 1
      /\ UNCHANGED <<run, history, followUps, torii, reopens, crashes, slips, overtaken>>
  BY DEF RecordOutcome, At, PC, Holding
<1>2. p = "complete" \/ (p = "rescueComplete" /\ slips # {})
  BY <1>1 DEF RescueIsSlip, At
<1>3. p \in Holding => Holds(d)
  BY <1>1 DEF At, Holds, Holding
<1> HIDE DEF p
<1>4. Moved(d, p)
  BY <1>1, MoveLemma
<1>5. TypeOK'
  BY <1>1, <1>4 DEF TypeOK, Moved, followUps
<1>6. \A e \in Drivers : Holds(e)' => Holds(e)
  BY <1>3, <1>4 DEF Holds, Moved
<1>7. SoleDriver' /\ LeaseLive'
  BY <1>1, <1>6 DEF SoleDriver, LeaseLive, Owns, Running
<1>8. RescueIsSlip'
  BY <1>1, <1>2, <1>4 DEF RescueIsSlip, Moved
<1>9. Counted'
  <2> SUFFICES ASSUME slips = {}
               PROVE  outcomes' <= reopens + 1 + crashes /\ At(d, "complete")'
    BY <1>1 DEF Counted
  <2>1. At(d, "outcome") /\ At(d, "complete")'
    BY <1>1, <1>2, <1>4 DEF RescueIsSlip, At, Moved
  <2>2. Holds(d)
    BY <2>1 DEF At, Holds, Holding
  <2>3. \A e \in Drivers : ~At(e, "complete")
    BY <2>1, <2>2 DEF SoleDriver, At, Holds, Holding
  <2>4. run.status = "running"
    BY <2>2 DEF SoleDriver, Owns, Running
  <2> QED
    BY <1>1, <2>1, <2>3, <2>4 DEF Counted, TypeOK
<1>10. CompletedIsReleased'
  BY <1>1 DEF CompletedIsReleased
<1> QED
  BY <1>5, <1>7, <1>8, <1>9, <1>10

\* The row's completion releases it, and its driver lets go.
LEMMA CompleteStep ==
    ASSUME IInv, NEW d \in Drivers, CompleteRun(d)
    PROVE  IInv'
<1> USE DEF IInv
<1>1. /\ At(d, "complete") \/ At(d, "rescueComplete")
      /\ run' = [run EXCEPT !.status = "completed", !.outcome = drv[d].outcome,
                            !.parked = NoCall, !.owner = NoOne, !.live = FALSE]
      /\ Finishing(d, "discard", "none")
      /\ UNCHANGED <<history, followUps, torii, counters>>
  BY DEF CompleteRun, At
<1>2. Moved(d, "discard") /\ "discard" \notin Holding
  BY <1>1, FinishingLemma DEF PC, Holding, Outcome
<1>3. drv[d].outcome \in Outcome
  BY DEF TypeOK, Driver
<1>4. run' \in Run /\ run'.status = "completed" /\ run'.owner = NoOne /\ run'.parked = NoCall
  BY <1>1, <1>3 DEF TypeOK, Run
<1>5. TypeOK'
  BY <1>1, <1>2, <1>4 DEF TypeOK, Moved, followUps, counters
<1>6. slips = {} => \A e \in Drivers : ~Holds(e)'
  <2>1. slips = {} => Holds(d)
    BY <1>1 DEF RescueIsSlip, At, Holds, Holding
  <2> QED
    BY <1>2, <2>1 DEF SoleDriver, Holds, Moved
<1>7. SoleDriver' /\ LeaseLive'
  BY <1>1, <1>6 DEF SoleDriver, LeaseLive, counters
<1>8. RescueIsSlip'
  BY <1>1, <1>2 DEF RescueIsSlip, Moved, counters
<1>9. Counted' /\ CompletedIsReleased'
  BY <1>1, <1>4 DEF Counted, CompletedIsReleased, counters
<1> QED
  BY <1>5, <1>7, <1>8, <1>9

\* releaseRun clears another driver's lease only by a slip.
LEMMA ReleaseStep ==
    ASSUME IInv, NEW d \in Drivers, ReleaseRun(d)
    PROVE  IInv'
<1> USE DEF IInv
<1> DEFINE mine == ~drv[d].lost /\ run.owner = Home[d]
           robbed == mine /\ \E e \in Drivers : Holds(e) /\ Home[e] = Home[d]
<1>1. /\ At(d, "release")
      /\ run' = IF mine THEN [run EXCEPT !.owner = NoOne, !.live = FALSE] ELSE run
      /\ slips' = IF robbed THEN slips \cup {"release"} ELSE slips
      /\ Move(d, "rescue") \/ Leave(d)
      /\ UNCHANGED <<history, followUps, torii, outcomes, reopens, crashes, overtaken>>
  BY DEF ReleaseRun, Slipped
<1>2. PICK p \in {"rescue", "idle"} : Moved(d, p)
  BY <1>1, MoveLemma, LeaveLemma DEF PC
<1>3. p \notin Holding /\ p \notin {"complete", "rescueOutcome", "rescueComplete"}
  BY <1>2 DEF Holding
<1>4. /\ run' \in Run /\ run'.status = run.status /\ run'.parked = run.parked
      /\ ~mine => run' = run
      /\ mine => run'.owner = NoOne
  BY <1>1, LeaseLemma DEF TypeOK
<1>5. slips' \in SUBSET Slip /\ (slips' = {} => slips = {} /\ ~robbed) /\ (slips # {} => slips' # {})
  BY <1>1 DEF TypeOK, Slip
<1>6. TypeOK'
  BY <1>1, <1>2, <1>4, <1>5 DEF TypeOK, Moved, followUps
<1>7. \A e \in Drivers : Holds(e)' => Holds(e)
  BY <1>2, <1>3 DEF Holds, Moved
<1>8. slips' = {} /\ mine => \A e \in Drivers : ~Holds(e)
  BY <1>5 DEF SoleDriver, Owns
<1>9. SoleDriver' /\ LeaseLive'
  BY <1>4, <1>5, <1>7, <1>8 DEF SoleDriver, LeaseLive, Owns, Running
<1>10. RescueIsSlip'
  BY <1>2, <1>3, <1>5 DEF RescueIsSlip, Moved
<1>11. \A e \in Drivers : At(e, "complete")' <=> At(e, "complete")
  BY <1>1, <1>2 DEF At, Moved
<1>12. Counted'
  BY <1>1, <1>4, <1>5, <1>11 DEF Counted
<1>13. CompletedIsReleased'
  BY <1>4 DEF CompletedIsReleased
<1> QED
  BY <1>6, <1>9, <1>10, <1>12, <1>13

\* Failing a run that is still running, whoever drives it by now, is a slip.
LEMMA RescueStep ==
    ASSUME IInv, NEW d \in Drivers, Rescue(d)
    PROVE  IInv'
<1> USE DEF IInv
<1>1. /\ At(d, "rescue")
      /\ UNCHANGED <<run, history, followUps, torii, outcomes, reopens, crashes, overtaken>>
  BY DEF Rescue
<1>2. CASE ~Running
  <2>1. Leave(d) /\ UNCHANGED counters
    BY <1>1, <1>2 DEF Rescue, Slipped, counters
  <2> QED
    BY <1>1, <2>1, LeaveLemma, QuietMove DEF At, PC, Holding
<1>3. CASE Running
  <2> DEFINE row == [drv[d] EXCEPT !.pc = "rescueOutcome", !.role = "sweep",
                                   !.outcome = "failed"]
  <2>1. drv' = [drv EXCEPT ![d] = row] /\ slips' = slips \cup {"rescue"}
    BY <1>3 DEF Rescue, Slipped
  <2>2. row \in Driver /\ row.pc = "rescueOutcome"
    <3>1. drv[d] \in Driver
      BY DEF TypeOK
    <3> QED
      BY <3>1 DEF Driver, PC, Outcome
  <2> HIDE DEF row
  <2>3. Moved(d, "rescueOutcome")
    BY <2>1, <2>2, RowLemma
  <2>4. slips' # {} /\ slips' \in SUBSET Slip
    BY <2>1 DEF TypeOK, Slip
  <2>5. TypeOK'
    BY <1>1, <2>3, <2>4 DEF TypeOK, Moved, followUps
  <2> QED
    BY <1>1, <2>4, <2>5 DEF SoleDriver, LeaseLive, RescueIsSlip, Counted, CompletedIsReleased
<1> QED
  BY <1>2, <1>3

\* A holder renews its lease; the lease of a holder lapses only by a slip.
LEMMA LeaseStep ==
    ASSUME IInv, Lapse \/ \E d \in Drivers : Renew(d)
    PROVE  IInv'
<1> USE DEF IInv
<1>1. PICK l \in BOOLEAN : run' = [run EXCEPT !.live = l]
  BY DEF Lapse, Renew
<1>2. /\ run' \in Run /\ run'.status = run.status /\ run'.owner = run.owner
      /\ run'.live = l /\ run'.parked = run.parked
  BY <1>1 DEF TypeOK, Run
<1>3. /\ UNCHANGED <<history, followUps, torii, drv, outcomes, reopens, crashes, overtaken>>
      /\ slips' \in {slips, slips \cup {"lapse"}}
  BY DEF Lapse, Renew, Slipped, counters
<1>4. TypeOK'
  BY <1>2, <1>3 DEF TypeOK, followUps, Slip
<1>5. SoleDriver' /\ Counted' /\ RescueIsSlip' /\ CompletedIsReleased'
  BY <1>2, <1>3 DEF SoleDriver, Counted, RescueIsSlip, CompletedIsReleased, Holds, Owns,
     Running, At
<1>6. LeaseLive'
  <2>1. CASE \E d \in Drivers : Renew(d)
    <3>1. run'.live = TRUE
      BY <2>1 DEF Renew, TypeOK, Run
    <3> QED
      BY <3>1 DEF LeaseLive
  <2>2. CASE Lapse
    <3>1. slips' = {} => \A d \in Drivers : Holds(d) => Home[d] # run.owner
      BY <2>2 DEF Lapse, Slipped
    <3>2. slips' = {} => slips = {}
      BY <1>3
    <3>3. slips' = {} => \A d \in Drivers : ~Holds(d)
      BY <3>1, <3>2 DEF SoleDriver, Owns
    <3> QED
      BY <1>3, <3>3 DEF LeaseLive, Holds
  <2> QED
    BY <2>1, <2>2
<1> QED
  BY <1>4, <1>5, <1>6

\* Operators and Torii change data only.
LEMMA DataStep ==
    ASSUME IInv,
           \/ \E m \in Messages : SelectParked(m) \/ InsertFollowUp(m)
           \/ \E c \in Calls : ToriiSettles(c)
    PROVE  IInv'
<1> USE DEF IInv
<1>1. UNCHANGED <<run, history, drv, counters>>
  BY DEF SelectParked, InsertFollowUp, ToriiSettles, followUps
<1>2. queue' \in SUBSET Messages /\ posting' \in SUBSET Messages
      /\ accepted' \in SUBSET Messages
  BY DEF SelectParked, InsertFollowUp, ToriiSettles, followUps, TypeOK
<1>3. torii' \in [Calls -> Task]
  BY DEF SelectParked, InsertFollowUp, ToriiSettles, followUps, TypeOK, Task
<1>4. TypeOK'
  BY <1>1, <1>2, <1>3 DEF TypeOK, counters
<1> QED
  BY <1>1, <1>4 DEF SoleDriver, LeaseLive, RescueIsSlip, Counted, CompletedIsReleased,
     Holds, Owns, Running, At, counters

\* A crash forgets drivers; the outcome that one of them had recorded is paid
\* for by the crash.
LEMMA CrashStep ==
    ASSUME IInv, NEW r \in Replicas, Crash(r)
    PROVE  IInv'
<1> USE DEF IInv
<1>1. /\ crashes < MaxCrashes /\ crashes' = crashes + 1
      /\ drv' = [d \in Drivers |-> IF Home[d] = r THEN Idle ELSE drv[d]]
      /\ UNCHANGED <<run, history, followUps, torii, outcomes, reopens, slips, overtaken>>
  BY DEF Crash
<1>2. \A d \in Drivers : drv'[d] \in Driver /\ (drv'[d] = drv[d] \/ drv'[d].pc = "idle")
  BY <1>1, IdleLemma DEF TypeOK
<1>3. drv' \in [Drivers -> Driver]
  BY <1>1, <1>2
<1>4. TypeOK'
  BY <1>1, <1>3 DEF TypeOK, followUps
<1>5. \A d \in Drivers : Holds(d)' => Holds(d)
  BY <1>2 DEF Holds, Holding
<1>6. SoleDriver' /\ LeaseLive'
  BY <1>1, <1>5 DEF SoleDriver, LeaseLive, Owns, Running
<1>7. RescueIsSlip'
  BY <1>1, <1>2 DEF RescueIsSlip
<1>8. Counted'
  BY <1>1 DEF Counted, TypeOK
<1>9. CompletedIsReleased'
  BY <1>1 DEF CompletedIsReleased
<1> QED
  BY <1>4, <1>6, <1>7, <1>8, <1>9

\* Every step of the run and of its environment.
LEMMA NextIInv == IInv /\ [Next]_vars => IInv'
<1> SUFFICES ASSUME IInv, [Next]_vars PROVE IInv'
  OBVIOUS
<1>1. CASE Environment
  BY <1>1, DataStep, CrashStep, LeaseStep DEF Environment
<1>2. ASSUME NEW d \in Drivers, Arrive(d) \/ Begin(d) \/ Sweep(d) PROVE IInv'
  <2>1. {} \in SUBSET Messages /\ \A m \in Messages : {m} \in SUBSET Messages
    OBVIOUS
  <2> QED
    BY <1>2, <2>1, OpenStep, ApproachStep, ClaimStep DEF Arrive, Begin, Sweep
<1>3. ASSUME NEW d \in Drivers, Drive(d) \/ Finish(d) \/ Beat(d) PROVE IInv'
  BY <1>3, DriveStep, RecordStep, CompleteStep, ReleaseStep, RescueStep, LeaseStep
     DEF Finish, Beat
<1>4. CASE UNCHANGED vars
  BY <1>4 DEF vars, counters, followUps, IInv, TypeOK, SoleDriver, LeaseLive, RescueIsSlip,
     Counted, CompletedIsReleased, Holds, Owns, Running, At
<1> QED
  BY <1>1, <1>2, <1>3, <1>4 DEF Next

-----------------------------------------------------------------------------
(* Theorems.                                                               *)

\* The invariant from which the others follow: of the lease, the drivers that
\* rely on it (claimRun, renewRunLease, releaseRun) and the outcomes they record.
THEOREM Invariance == Spec => []IInv
<1>1. Init => IInv
  BY InitIInv
<1>2. IInv /\ [Next]_vars => IInv'
  BY NextIInv
<1> QED
  BY <1>1, <1>2, PTL DEF Spec

\* Every variable keeps its type.
THEOREM TypeCorrect == Spec => []TypeOK
<1>1. IInv => TypeOK
  BY DEF IInv
<1> QED
  BY <1>1, Invariance, PTL

\* However many replicas sweep, launch and continue, one of them drives the run
\* (claimRun), as long as nothing has slipped.
THEOREM OneDriver == Spec => []SoleDriver
<1>1. IInv => SoleDriver
  BY DEF IInv
<1> QED
  BY <1>1, Invariance, PTL

\* No late write leases or parks a completed run (complete, setParkedMcpTask).
THEOREM StaysReleased == Spec => []CompletedIsReleased
<1>1. IInv => CompletedIsReleased
  BY DEF IInv
<1> QED
  BY <1>1, Invariance, PTL

-----------------------------------------------------------------------------
(* How a driver's record changes.                                          *)

Kept(d) == \A e \in Drivers \ {d} : drv'[e] = drv[e]

\* The record a driver has after a step.
LEMMA RowTo ==
    ASSUME TypeOK, NEW d \in Drivers, NEW row, drv' = [drv EXCEPT ![d] = row]
    PROVE  Kept(d) /\ drv'[d] = row
BY DEF TypeOK, Kept

\* After Move the driver carries what it carried.
LEMMA MoveTo ==
    ASSUME TypeOK, NEW d \in Drivers, NEW p, Move(d, p)
    PROVE  /\ Kept(d) /\ drv'[d].pc = p /\ drv'[d].parked = drv[d].parked
           /\ drv'[d].fresh = drv[d].fresh /\ drv'[d].lost = drv[d].lost
<1>1. drv[d] \in Driver /\ drv' = [drv EXCEPT ![d] = [drv[d] EXCEPT !.pc = p]]
  BY DEF TypeOK, Move
<1> QED
  BY <1>1 DEF TypeOK, Kept, Driver

\* After Leave it carries nothing.
LEMMA LeaveTo ==
    ASSUME TypeOK, NEW d \in Drivers, Leave(d)
    PROVE  Kept(d) /\ drv'[d].pc = "idle" /\ drv'[d].parked = NoCall /\ ~drv'[d].lost
BY DEF TypeOK, Kept, Leave, Idle

\* After Finishing it has lost what it had lost.
LEMMA FinishTo ==
    ASSUME TypeOK, NEW d \in Drivers, NEW p, NEW o, Finishing(d, p, o)
    PROVE  Kept(d) /\ drv'[d].pc = p /\ drv'[d].lost = drv[d].lost
BY DEF TypeOK, Kept, Finishing, Idle

\* After Terminate it drains the inbox.
LEMMA TerminateTo ==
    ASSUME TypeOK, NEW d \in Drivers, NEW o, NEW h, Terminate(d, o, h)
    PROVE  Kept(d) /\ drv'[d].pc = "drain" /\ drv'[d].lost = drv[d].lost
<1>1. drv[d] \in Driver
  BY DEF TypeOK
<1> QED
  BY <1>1 DEF TypeOK, Kept, Terminate, Driver

\* After CallTool it carries the call.
LEMMA CallTo ==
    ASSUME TypeOK, NEW d \in Drivers, NEW c \in Calls, CallTool(d, c)
    PROVE  /\ Kept(d) /\ drv'[d].pc = "dispatch" /\ drv'[d].parked = c
           /\ drv'[d].lost = drv[d].lost
<1>1. drv[d] \in Driver /\ drv \in [Drivers -> Driver]
  BY DEF TypeOK
<1>2. drv' = [drv EXCEPT ![d] = [drv[d] EXCEPT !.pc = "dispatch", !.parked = c,
                                               !.hist = [drv[d].hist EXCEPT !.open = c]]]
  BY DEF CallTool
<1> QED
  BY <1>1, <1>2 DEF Kept, Driver

\* No driver forgets that something has slipped.
LEMMA SlipsStay == [Next]_vars => slips \subseteq slips'
<1>1. ASSUME NEW d \in Drivers, Arrive(d) \/ Begin(d) \/ Sweep(d)
      PROVE  slips \subseteq slips'
  BY <1>1 DEF Arrive, Begin, Sweep, Launch, ListClaimable, ReadContinuation, Reopen,
     SetupFails, ReadParked, ClaimRun, PollPending, PollTerminal, PollFailed, Repark, Seize,
     FetchHistory, counters
<1>2. ASSUME NEW d \in Drivers, Drive(d)
      PROVE  slips \subseteq slips'
  BY <1>2 DEF Drive, Connect, ConnectFails, Checkpoint, SetParkedMcpTask, Hibernate, PollResult,
     RenewAfterPoll, ClearParkedMcpTask, AppendToolResult, PushToolErrorResult, DrainSelect,
     DrainDelete, CheckpointDrained, CallTool, AssessTask, EndTurn, Dispatch, StopNow, counters
<1>3. ASSUME NEW d \in Drivers, Finish(d) \/ Beat(d)
      PROVE  slips \subseteq slips'
  BY <1>3 DEF Finish, Beat, EndLoop, CatchError, RecordOutcome, CompleteRun, DiscardFollowUps,
     ReleaseRun, Rescue, Renew, LoseLease, Slipped, counters
<1>4. CASE Environment
  BY <1>4 DEF Environment, SelectParked, InsertFollowUp, ToriiSettles, Crash, Lapse, Slipped,
     counters
<1> QED
  BY <1>1, <1>2, <1>3, <1>4 DEF Next, vars

\* The statements at which the second invariant has something to say of a driver.
Watched == {"poll", "repark", "wake", "park", "dispatch", "hibernate", "complete",
            "rescueComplete"}
Ending == {"discard", "release", "rescue"}

\* The driver d turns to one of the statements in P, and does not learn of a lost lease.
Turn(d, P) == Kept(d) /\ drv'[d].pc \in P /\ (drv'[d].lost => drv[d].lost)

\* What the step leaves alone.
Steady == /\ run'.status = run.status /\ run'.parked = run.parked
          /\ UNCHANGED <<outcomes, reopens>>

\* On the way to the claim.
LEMMA ApproachTurn ==
    ASSUME TypeOK, NEW d \in Drivers,
           \/ SetupFails(d) \/ ReadParked(d) \/ ClaimRun(d) \/ PollTerminal(d) \/ PollFailed(d)
           \/ Seize(d) \/ FetchHistory(d) \/ \E said : ReadContinuation(d, said)
    PROVE  /\ Turn(d, PC \ Watched) /\ Steady
           /\ drv[d].pc \notin Holding \cup Ending
<1>1. /\ drv[d] \in Driver /\ run \in Run
      /\ {"idle", "connect", "fetch", "seize", "outcome", "setup", "claim", "reopen"}
           \subseteq PC \ Watched
  BY DEF TypeOK, PC, Holding, Watched
<1>2. /\ drv[d].pc \notin Holding \cup Ending /\ UNCHANGED <<outcomes, reopens>>
  BY DEF SetupFails, ReadParked, ClaimRun, PollTerminal, PollFailed, Seize, FetchHistory,
     ReadContinuation, At, Holding, Ending, counters
<1>3. run'.status = run.status /\ run'.parked = run.parked
  BY <1>1 DEF SetupFails, ReadParked, ClaimRun, PollTerminal, PollFailed, Seize, FetchHistory,
     ReadContinuation, Run
<1>4. CASE SetupFails(d) \/ ClaimRun(d) \/ PollTerminal(d) \/ PollFailed(d) \/ Seize(d)
  <2>1. \/ Leave(d) \/ Move(d, "connect") \/ Move(d, "fetch") \/ Move(d, "seize")
        \/ Finishing(d, "outcome", "failed")
    BY <1>4 DEF SetupFails, ClaimRun, PollTerminal, PollFailed, Seize
  <2>2. Turn(d, PC \ Watched)
    BY <1>1, <2>1, LeaveTo, MoveTo, FinishTo DEF Turn
  <2> QED
    BY <1>2, <1>3, <2>2 DEF Steady
<1>5. CASE ReadParked(d)
  <2> DEFINE row == [drv[d] EXCEPT !.pc = "claim", !.parked = run.parked]
  <2>1. row.pc = "claim" /\ row.lost = drv[d].lost
    BY <1>1 DEF Driver
  <2>2. drv' = [drv EXCEPT ![d] = row]
    BY <1>5 DEF ReadParked
  <2> HIDE DEF row
  <2>3. Turn(d, PC \ Watched)
    BY <1>1, <2>1, <2>2, RowTo DEF Turn
  <2> QED
    BY <1>2, <1>3, <2>3 DEF Steady
<1>6. CASE FetchHistory(d)
  <2> DEFINE row == [drv[d] EXCEPT !.pc = "setup", !.role = "resume", !.hist = history]
  <2>1. row.pc = "setup" /\ row.lost = drv[d].lost
    BY <1>1 DEF Driver
  <2>2. drv' = [drv EXCEPT ![d] = row]
    BY <1>6 DEF FetchHistory
  <2> HIDE DEF row
  <2>3. Turn(d, PC \ Watched)
    BY <1>1, <2>1, <2>2, RowTo DEF Turn
  <2> QED
    BY <1>2, <1>3, <2>3 DEF Steady
<1>7. ASSUME NEW said, ReadContinuation(d, said) PROVE Turn(d, PC \ Watched)
  <2> DEFINE h == [history EXCEPT !.said = @ \cup said]
             row == [drv[d] EXCEPT !.pc = "reopen", !.role = "resume", !.hist = h]
  <2>1. row.pc = "reopen" /\ row.lost = drv[d].lost
    <3> HIDE DEF h
    <3> QED
      BY <1>1 DEF Driver
  <2>2. drv' = [drv EXCEPT ![d] = row]
    BY <1>7 DEF ReadContinuation
  <2> HIDE DEF row
  <2> QED
    BY <1>1, <2>1, <2>2, RowTo DEF Turn
<1> QED
  BY <1>2, <1>3, <1>4, <1>5, <1>6, <1>7 DEF Steady

\* A holder at work keeps its hold.
LEMMA WorkTurn ==
    ASSUME TypeOK, NEW d \in Drivers,
           \/ ConnectFails(d) \/ PollResult(d) \/ RenewAfterPoll(d) \/ AppendToolResult(d)
           \/ PushToolErrorResult(d) \/ DrainSelect(d) \/ DrainDelete(d)
           \/ CheckpointDrained(d) \/ AssessTask(d) \/ EndTurn(d) \/ StopNow(d)
    PROVE  Turn(d, Holding \ Watched) /\ Steady /\ Holds(d)
<1>1. /\ drv[d] \in Driver /\ run \in Run
      /\ {"failing", "renew", "failCall", "clear", "drain", "drainDelete", "drained",
          "model", "end"} \subseteq Holding \ Watched
  BY DEF TypeOK, Holding, Watched
<1>2. Holds(d) /\ UNCHANGED <<outcomes, reopens>>
  BY DEF ConnectFails, PollResult, RenewAfterPoll, AppendToolResult, PushToolErrorResult,
     DrainSelect, DrainDelete, CheckpointDrained, AssessTask, EndTurn, StopNow, At, Holds,
     Holding, counters
<1>3. run'.status = run.status /\ run'.parked = run.parked
  BY <1>1 DEF ConnectFails, PollResult, RenewAfterPoll, AppendToolResult, PushToolErrorResult,
     DrainSelect, DrainDelete, CheckpointDrained, AssessTask, EndTurn, StopNow, Run
<1>4. CASE ConnectFails(d)
  <2> DEFINE row == [drv[d] EXCEPT !.pc = "failing", !.thrown = TRUE]
  <2>1. row.pc = "failing" /\ row.lost = drv[d].lost
    BY <1>1 DEF Driver
  <2>2. drv' = [drv EXCEPT ![d] = row]
    BY <1>4 DEF ConnectFails
  <2> HIDE DEF row
  <2>3. Turn(d, Holding \ Watched)
    BY <1>1, <2>1, <2>2, RowTo DEF Turn
  <2> QED
    BY <1>2, <1>3, <2>3 DEF Steady
<1>5. CASE PollResult(d) /\ ~Move(d, "failCall")
  <2>1. PICK o \in {"rejected", "none"} :
            drv' = [drv EXCEPT ![d] = [drv[d] EXCEPT !.pc = "renew", !.outcome = o]]
    BY <1>5 DEF PollResult
  <2> DEFINE row == [drv[d] EXCEPT !.pc = "renew", !.outcome = o]
  <2>2. row.pc = "renew" /\ row.lost = drv[d].lost
    BY <1>1 DEF Driver
  <2>3. drv' = [drv EXCEPT ![d] = row]
    BY <2>1
  <2> HIDE DEF row
  <2>4. Turn(d, Holding \ Watched)
    BY <1>1, <2>2, <2>3, RowTo DEF Turn
  <2> QED
    BY <1>2, <1>3, <2>4 DEF Steady
<1>6. CASE DrainSelect(d) /\ queue # {}
  <2> DEFINE h == [drv[d].hist EXCEPT !.said = @ \cup queue]
             row == [drv[d] EXCEPT !.pc = "drainDelete", !.hist = h]
  <2>1. row.pc = "drainDelete" /\ row.lost = drv[d].lost
    <3> HIDE DEF h
    <3> QED
      BY <1>1 DEF Driver
  <2>2. drv' = [drv EXCEPT ![d] = row]
    BY <1>6 DEF DrainSelect
  <2> HIDE DEF row
  <2>3. Turn(d, Holding \ Watched)
    BY <1>1, <2>1, <2>2, RowTo DEF Turn
  <2> QED
    BY <1>2, <1>3, <2>3 DEF Steady
<1>7. CASE PushToolErrorResult(d) \/ StopNow(d) \/ AssessTask(d) \/ EndTurn(d)
  <2>1. \E o, h : Terminate(d, o, h)
    BY <1>7 DEF PushToolErrorResult, StopNow, AssessTask, EndTurn
  <2>2. Turn(d, Holding \ Watched)
    BY <1>1, <2>1, TerminateTo DEF Turn
  <2> QED
    BY <1>2, <1>3, <2>2 DEF Steady
<1>8. CASE \/ PollResult(d) /\ Move(d, "failCall")
           \/ DrainSelect(d) /\ queue = {}
           \/ RenewAfterPoll(d) \/ AppendToolResult(d) \/ DrainDelete(d) \/ CheckpointDrained(d)
  <2>1. \E p \in {"failCall", "model", "end", "clear", "drain", "drained"} : Move(d, p)
    BY <1>8 DEF DrainSelect, RenewAfterPoll, AppendToolResult, DrainDelete, CheckpointDrained
  <2>2. Turn(d, Holding \ Watched)
    BY <1>1, <2>1, MoveTo DEF Turn
  <2> QED
    BY <1>2, <1>3, <2>2 DEF Steady
<1> QED
  BY <1>4, <1>5, <1>6, <1>7, <1>8

\* A holder lets go: it hibernates, or its loop or its start ends.
LEMMA LetGoTurn ==
    ASSUME TypeOK, NEW d \in Drivers, Hibernate(d) \/ EndLoop(d) \/ CatchError(d)
    PROVE  /\ Turn(d, {"idle", "release", "outcome"}) /\ Steady /\ Holds(d)
           /\ Hibernate(d) \/ drv[d].lost \/ ~Running \/ drv'[d].pc = "outcome"
<1>1. Steady /\ Holds(d)
  BY DEF Hibernate, EndLoop, CatchError, Steady, Holds, At, Holding, counters
<1>2. \/ Leave(d) \/ Finishing(d, "release", "none")
      \/ \E o : Finishing(d, "outcome", o)
  BY DEF Hibernate, EndLoop, CatchError
<1>3. Turn(d, {"idle", "release", "outcome"})
  BY <1>2, LeaveTo, FinishTo DEF Turn
<1>4. \/ Hibernate(d) \/ drv[d].lost \/ ~Running
      \/ \E o : Finishing(d, "outcome", o)
  BY DEF EndLoop, CatchError
<1> QED
  BY <1>1, <1>3, <1>4, FinishTo

\* After the row's completion or a hibernation.
LEMMA TailTurn ==
    ASSUME TypeOK, NEW d \in Drivers, DiscardFollowUps(d) \/ ReleaseRun(d) \/ Rescue(d)
    PROVE  /\ Turn(d, {"idle", "release", "rescue", "rescueOutcome"}) /\ Steady
           /\ drv[d].pc \notin Holding
           /\ drv'[d].lost => drv'[d].pc \in {"release", "rescue"} \/ slips' # {}
<1>1. /\ drv[d] \in Driver /\ run \in Run
  BY DEF TypeOK
<1>2. Steady /\ drv[d].pc \notin Holding
  BY <1>1 DEF DiscardFollowUps, ReleaseRun, Rescue, Steady, At, Holding, counters, Run
<1>3. CASE DiscardFollowUps(d) \/ ReleaseRun(d)
  <2>1. Leave(d) \/ Move(d, "release") \/ Move(d, "rescue")
    BY <1>3 DEF DiscardFollowUps, ReleaseRun
  <2> QED
    BY <1>2, <2>1, LeaveTo, MoveTo DEF Turn
<1>4. CASE Rescue(d)
  <2> DEFINE row == [drv[d] EXCEPT !.pc = "rescueOutcome", !.role = "sweep",
                                   !.outcome = "failed"]
  <2>1. row.pc = "rescueOutcome" /\ row.lost = drv[d].lost
    BY <1>1 DEF Driver
  <2>2. Leave(d) \/ (drv' = [drv EXCEPT ![d] = row] /\ slips' # {})
    BY <1>4 DEF Rescue, Slipped
  <2> HIDE DEF row
  <2>3. \/ Kept(d) /\ drv'[d].pc = "idle" /\ ~drv'[d].lost
        \/ Kept(d) /\ drv'[d].pc = "rescueOutcome" /\ drv'[d].lost = drv[d].lost /\ slips' # {}
    BY <2>1, <2>2, LeaveTo, RowTo
  <2> QED
    BY <1>2, <2>3 DEF Turn
<1> QED
  BY <1>3, <1>4

-----------------------------------------------------------------------------
(* A second invariant: what outcomes are recorded for, and how a run waits.*)

\* Whoever polls, calls or parks has a call to do it for.
Carried == \A d \in Drivers :
    drv[d].pc \in {"poll", "repark", "wake", "park", "dispatch"} => drv[d].parked # NoCall

\* A driver hibernates after it has parked the run.
ParkedFirst == slips = {} => \A d \in Drivers : At(d, "hibernate") => run.parked # NoCall

\* No driver that holds a run or approaches it believes that its lease is lost.
Unlost == slips = {} => \A d \in Drivers : drv[d].lost => drv[d].pc \in Ending

\* Every segment has its outcome by its end, and whoever is about to complete the row has
\* recorded one.
Recorders == {d \in Drivers : drv[d].pc \in {"complete", "rescueComplete"}}
Segments == reopens + (IF run.status = "completed" THEN 1 ELSE 0)
Recorded == IsFiniteSet(Recorders) /\ Segments + Cardinality(Recorders) <= outcomes

Handover == Carried /\ ParkedFirst /\ Unlost /\ Recorded

LInv == IInv /\ Handover

\* A run that nobody has launched has nothing to hand over.
LEMMA InitLInv == Init => LInv
<1> SUFFICES ASSUME Init PROVE LInv
  OBVIOUS
<1>1. \A d \in Drivers : drv[d].pc = "idle" /\ ~drv[d].lost
  BY DEF Init, Idle
<1>2. Recorders = {} /\ Segments = 0 /\ outcomes = 0
  BY <1>1 DEF Init, Recorders, Segments
<1>3. Recorded
  BY <1>2, FS_EmptySet DEF Recorded
<1> QED
  BY <1>1, <1>3, InitIInv DEF LInv, Handover, Carried, ParkedFirst, Unlost, At

\* Nobody comes to complete the row, and no segment begins or ends.
LEMMA FewerRecorders ==
    ASSUME TypeOK, TypeOK', Recorded, Recorders' \subseteq Recorders,
           Segments' = Segments, outcomes' = outcomes
    PROVE  Recorded'
<1>1. /\ IsFiniteSet(Recorders') /\ Cardinality(Recorders') <= Cardinality(Recorders)
      /\ Cardinality(Recorders) \in Nat /\ Cardinality(Recorders') \in Nat
  BY FS_Subset, FS_CardinalityType DEF Recorded
<1>2. Segments \in Nat /\ outcomes \in Nat
  BY DEF TypeOK, Segments
<1>3. Segments' + Cardinality(Recorders') <= outcomes'
  BY <1>1, <1>2 DEF Recorded
<1> QED
  BY <1>1, <1>3 DEF Recorded

\* Where nothing is recorded or reopened, nothing is counted.
LEMMA SteadySegments == ASSUME Steady PROVE Segments' = Segments /\ outcomes' = outcomes
BY DEF Steady, Segments

\* A step that needs no more than where its driver turns.
LEMMA QuietTurn ==
    ASSUME LInv, TypeOK', NEW d \in Drivers, NEW P, Turn(d, P), P \cap Watched = {}, Steady,
           slips \subseteq slips',
           drv'[d].lost => drv'[d].pc \in Ending \/ drv[d].pc \notin Ending \/ slips' # {}
    PROVE  Handover'
<1> USE DEF LInv, Handover
<1>1. /\ \A e \in Drivers \ {d} : drv'[e] = drv[e]
      /\ drv'[d].pc \notin Watched /\ (drv'[d].lost => drv[d].lost)
  BY DEF Turn, Kept
<1>2. Carried'
  BY <1>1 DEF Carried, Watched
<1>3. ParkedFirst'
  BY <1>1 DEF ParkedFirst, At, Watched, Steady
<1>4. Unlost'
  BY <1>1 DEF Unlost
<1>5. Recorders' \subseteq Recorders
  BY <1>1 DEF Recorders, Watched
<1>6. Recorded'
  BY <1>5, SteadySegments, FewerRecorders DEF IInv
<1> QED
  BY <1>2, <1>3, <1>4, <1>6

\* A step that parks the run or takes up its call.
LEMMA ParkTurn ==
    ASSUME LInv, TypeOK', NEW d \in Drivers, Kept(d), drv'[d].lost => drv[d].lost,
           slips \subseteq slips', drv[d].pc \notin Ending,
           drv'[d].pc \notin {"complete", "rescueComplete"},
           drv'[d].pc = "hibernate" => run'.parked # NoCall \/ slips # {},
           drv'[d].pc \in {"poll", "repark", "wake", "park", "dispatch"}
             => drv'[d].parked # NoCall,
           run'.parked = NoCall => run.parked = NoCall \/ Holds(d),
           run'.status = run.status, UNCHANGED <<outcomes, reopens>>
    PROVE  Handover'
<1> USE DEF LInv, Handover
<1>1. \A e \in Drivers \ {d} : drv'[e] = drv[e]
  BY DEF Kept
<1>2. Carried'
  BY <1>1 DEF Carried
<1>3. ParkedFirst'
  <2> SUFFICES ASSUME slips' = {}, NEW e \in Drivers, At(e, "hibernate")'
               PROVE  run'.parked # NoCall
    BY DEF ParkedFirst
  <2>1. CASE e # d
    <3>1. Holds(e) /\ run.parked # NoCall
      BY <1>1, <2>1 DEF ParkedFirst, At, Holds, Holding
    <3>2. ~Holds(d)
      BY <2>1, <3>1 DEF IInv, SoleDriver
    <3> QED
      BY <3>1, <3>2
  <2> QED
    BY <2>1 DEF At
<1>4. Unlost'
  BY <1>1 DEF Unlost
<1>5. Recorders' \subseteq Recorders
  BY <1>1 DEF Recorders
<1>6. Recorded'
  BY <1>5, FewerRecorders DEF IInv, Segments
<1> QED
  BY <1>2, <1>3, <1>4, <1>6

\* The sweep and the waiting driver keep a call in hand, and a holder its hold.
Handed(d) == Handover' /\ Kept(d) /\ (Holds(d) => Holds(d)')

\* The statements that read, set and clear the parked task.
LEMMA ParkSteps ==
    ASSUME LInv, TypeOK', NEW d \in Drivers, slips \subseteq slips',
           \/ ListClaimable(d) \/ PollPending(d) \/ Repark(d) \/ Connect(d) \/ Checkpoint(d)
           \/ SetParkedMcpTask(d) \/ ClearParkedMcpTask(d) \/ Dispatch(d)
           \/ \E c \in Calls : CallTool(d, c)
    PROVE  Handed(d)
<1>1. /\ TypeOK /\ drv[d] \in Driver /\ run \in Run
  BY DEF LInv, IInv, TypeOK
<1>2. /\ UNCHANGED <<outcomes, reopens>> /\ run'.status = run.status /\ drv[d].pc \notin Ending
  BY <1>1 DEF ListClaimable, PollPending, Repark, Connect, Checkpoint, SetParkedMcpTask,
     ClearParkedMcpTask, Dispatch, CallTool, counters, Run, At, Ending
\* It is enough to name the statement and the call that the driver turns to.
<1>3. ASSUME NEW p, Kept(d), drv'[d].pc = p, drv'[d].lost => drv[d].lost,
             p \notin {"hibernate", "complete", "rescueComplete"},
             p \in {"poll", "repark", "wake", "park", "dispatch"} => drv'[d].parked # NoCall,
             run'.parked = NoCall => run.parked = NoCall \/ Holds(d),
             Holds(d) => p \in Holding
      PROVE  Handed(d)
  BY <1>1, <1>2, <1>3, ParkTurn DEF Handed, Holds
<1>4. CASE ListClaimable(d)
  <2> DEFINE row == [drv[d] EXCEPT !.pc = "poll", !.role = "sweep", !.parked = run.parked]
  <2>1. row.pc = "poll" /\ row.parked = run.parked /\ row.lost = drv[d].lost
    BY <1>1 DEF Driver
  <2>2. drv' = [drv EXCEPT ![d] = row] /\ run.parked # NoCall /\ UNCHANGED run
    BY <1>4 DEF ListClaimable
  <2> HIDE DEF row
  <2>3. Kept(d) /\ drv'[d] = row
    BY <1>1, <2>2, RowTo
  <2>4. ~Holds(d)
    BY <1>4 DEF ListClaimable, At, Holds, Holding
  <2> QED
    BY <1>3, <2>1, <2>2, <2>3, <2>4
<1>5. CASE PollPending(d)
  <2>1. UNCHANGED run /\ drv[d].pc = "poll" /\ (Leave(d) \/ Move(d, "repark"))
    BY <1>5 DEF PollPending, At
  <2>2. drv[d].parked # NoCall
    BY <2>1 DEF LInv, Handover, Carried
  <2>3. CASE Leave(d)
    BY <1>1, <1>3, <2>1, <2>3, LeaveTo DEF Holding, Holds
  <2>4. CASE Move(d, "repark")
    BY <1>1, <1>3, <2>1, <2>2, <2>4, MoveTo DEF Holding, Holds
  <2> QED
    BY <2>1, <2>3, <2>4
<1>6. CASE Repark(d)
  <2>1. /\ drv[d].pc = "repark" /\ Leave(d)
        /\ run' = IF Running THEN [run EXCEPT !.parked = drv[d].parked] ELSE run
    BY <1>6 DEF Repark, At
  <2>2. run'.parked \in {run.parked, drv[d].parked} /\ drv[d].parked # NoCall
    BY <1>1, <2>1 DEF LInv, Handover, Carried, Run
  <2> QED
    BY <1>1, <1>3, <2>1, <2>2, LeaveTo DEF Holding, Holds
<1>7. CASE Connect(d)
  <2>1. /\ UNCHANGED run
        /\ \/ Move(d, "drain") \/ Terminate(d, "failed", drv[d].hist)
           \/ Move(d, "wake") /\ drv[d].parked # NoCall
    BY <1>7 DEF Connect
  <2>2. CASE Move(d, "drain")
    BY <1>1, <1>3, <2>1, <2>2, MoveTo DEF Holding, Holds
  <2>3. CASE Terminate(d, "failed", drv[d].hist)
    BY <1>1, <1>3, <2>1, <2>3, TerminateTo DEF Holding, Holds
  <2>4. CASE Move(d, "wake") /\ drv[d].parked # NoCall
    BY <1>1, <1>3, <2>1, <2>4, MoveTo DEF Holding, Holds
  <2> QED
    BY <2>1, <2>2, <2>3, <2>4
<1>8. CASE Checkpoint(d)
  <2>1. UNCHANGED run /\ drv[d].pc = "wake" /\ Move(d, "park")
    BY <1>8 DEF Checkpoint, At
  <2>2. drv[d].parked # NoCall
    BY <2>1 DEF LInv, Handover, Carried
  <2> QED
    BY <1>1, <1>3, <2>1, <2>2, MoveTo DEF Holding, Holds
<1>9. CASE SetParkedMcpTask(d)
  <2> DEFINE p == IF drv[d].fresh THEN "hibernate" ELSE "wait"
             row == [drv[d] EXCEPT !.pc = p, !.fresh = FALSE]
  <2>1. row.pc = p /\ row.lost = drv[d].lost
    BY <1>1 DEF Driver
  <2>2. /\ drv' = [drv EXCEPT ![d] = row] /\ drv[d].pc = "park"
        /\ run' = IF Running THEN [run EXCEPT !.parked = drv[d].parked] ELSE run
    BY <1>9 DEF SetParkedMcpTask, At
  <2>3. p \in {"hibernate", "wait"}
    OBVIOUS
  <2> HIDE DEF row, p
  <2>4. Kept(d) /\ drv'[d].pc = p /\ drv'[d].lost = drv[d].lost
    BY <1>1, <2>1, <2>2, RowTo
  <2>5. drv[d].parked # NoCall
    BY <2>2 DEF LInv, Handover, Carried
  <2>6. run'.parked = NoCall => run.parked = NoCall
    BY <1>1, <2>2, <2>5 DEF Run
  <2>7. Holds(d)
    BY <2>2 DEF Holds, Holding
  <2>8. slips = {} => run'.parked # NoCall
    BY <1>1, <2>2, <2>5, <2>7 DEF LInv, IInv, SoleDriver, Owns, Run
  <2> QED
    BY <1>2, <2>3, <2>4, <2>6, <2>8, ParkTurn DEF Handed, Holds, Holding
<1>10. CASE ClearParkedMcpTask(d)
  <2> DEFINE h == Answered(drv[d].hist, drv[d].parked)
             row == [drv[d] EXCEPT !.pc = "answer", !.parked = NoCall, !.hist = h]
  <2>1. row.pc = "answer" /\ row.lost = drv[d].lost
    <3> HIDE DEF h
    <3> QED
      BY <1>1 DEF Driver
  <2>2. Holds(d) /\ ((drv' = [drv EXCEPT ![d] = row]) \/ Move(d, "failCall"))
    <3> HIDE DEF h
    <3> QED
      BY <1>10 DEF ClearParkedMcpTask, Holds, Holding, At, h
  <2> HIDE DEF row
  <2>3. CASE drv' = [drv EXCEPT ![d] = row]
    <3>1. Kept(d) /\ drv'[d] = row
      BY <1>1, <2>3, RowTo
    <3> QED
      BY <1>3, <2>1, <2>2, <3>1 DEF Holding, Holds
  <2>4. CASE Move(d, "failCall")
    BY <1>1, <1>3, <2>2, <2>4, MoveTo DEF Holding, Holds
  <2> QED
    BY <2>2, <2>3, <2>4
<1>11. CASE Dispatch(d)
  <2> DEFINE h == Answered(drv[d].hist, drv[d].parked)
             row(o) == [drv[d] EXCEPT !.pc = "answer", !.parked = NoCall, !.hist = h,
                                      !.outcome = o]
             woken == [drv[d] EXCEPT !.pc = "wake", !.fresh = TRUE]
  <2>1. \A o : row(o).pc = "answer" /\ row(o).lost = drv[d].lost
    <3> HIDE DEF h
    <3> QED
      BY <1>1 DEF Driver
  <2>2. woken.pc = "wake" /\ woken.parked = drv[d].parked /\ woken.lost = drv[d].lost
    BY <1>1 DEF Driver
  <2>3. /\ Holds(d) /\ drv[d].pc = "dispatch"
        /\ \/ \E o : drv' = [drv EXCEPT ![d] = row(o)]
           \/ drv' = [drv EXCEPT ![d] = woken]
           \/ Move(d, "failCall")
    <3> HIDE DEF h
    <3> QED
      BY <1>11 DEF Dispatch, Holds, Holding, At, h
  <2>4. drv[d].parked # NoCall
    BY <2>3 DEF LInv, Handover, Carried
  <2> HIDE DEF row, woken
  <2>5. ASSUME NEW o, drv' = [drv EXCEPT ![d] = row(o)] PROVE Handed(d)
    <3>1. Kept(d) /\ drv'[d] = row(o)
      BY <1>1, <2>5, RowTo
    <3> QED
      BY <1>3, <2>1, <2>3, <3>1 DEF Holding, Holds
  <2>6. CASE drv' = [drv EXCEPT ![d] = woken]
    <3>1. Kept(d) /\ drv'[d] = woken
      BY <1>1, <2>6, RowTo
    <3> QED
      BY <1>3, <2>2, <2>3, <2>4, <3>1 DEF Holding, Holds
  <2>7. CASE Move(d, "failCall")
    BY <1>1, <1>3, <2>3, <2>7, MoveTo DEF Holding, Holds
  <2> QED
    BY <2>3, <2>5, <2>6, <2>7
<1>12. ASSUME NEW c \in Calls, CallTool(d, c) PROVE Handed(d)
  <2>1. Kept(d) /\ drv'[d].pc = "dispatch" /\ drv'[d].parked = c /\ drv'[d].lost = drv[d].lost
    BY <1>1, <1>12, CallTo
  <2>2. Holds(d)
    BY <1>12 DEF CallTool, Holds, Holding, At
  <2> QED
    BY <1>3, <2>1, <2>2 DEF Holding, Holds
<1> QED
  BY <1>4, <1>5, <1>6, <1>7, <1>8, <1>9, <1>10, <1>11, <1>12

\* A segment begins when the one before it has its outcome.
LEMMA OpenTurn ==
    ASSUME LInv, TypeOK', NEW d \in Drivers, slips \subseteq slips', Launch(d) \/ Reopen(d)
    PROVE  Handover'
<1>1. TypeOK /\ run \in Run /\ reopens \in Nat
  BY DEF LInv, IInv, TypeOK
<1>2. CASE Reopen(d) /\ Leave(d) /\ UNCHANGED <<run, history, accepted, reopens, overtaken>>
  <2>1. Turn(d, {"idle"}) /\ Steady /\ ~drv'[d].lost
    BY <1>1, <1>2, LeaveTo DEF Turn, Steady, Reopen
  <2> QED
    BY <2>1, QuietTurn DEF Watched
<1>3. CASE \/ Launch(d)
           \/ /\ Reopen(d)
              /\ run.status = "completed"
              /\ run' = [run EXCEPT !.status = "running", !.outcome = "none"]
              /\ reopens' = reopens + 1
              /\ Move(d, "setup")
  <2>1. /\ Move(d, "setup") /\ run'.parked = run.parked /\ outcomes' = outcomes
        /\ drv[d].pc \notin Ending
    BY <1>1, <1>3 DEF Launch, Reopen, counters, Run, At, Ending
  <2>2. /\ \A e \in Drivers \ {d} : drv'[e] = drv[e]
        /\ drv'[d].pc = "setup" /\ drv'[d].lost = drv[d].lost
    BY <1>1, <2>1, MoveTo DEF Kept
  <2>3. Segments' = Segments
    <3>1. run'.status = "running"
      BY <1>1, <1>3 DEF Launch, Run
    <3>2. \/ run.status = "none" /\ reopens' = reopens
          \/ run.status = "completed" /\ reopens' = reopens + 1
      BY <1>3 DEF Launch, counters
    <3> QED
      BY <1>1, <3>1, <3>2 DEF Segments
  <2>4. Recorders' \subseteq Recorders
    BY <2>2 DEF Recorders
  <2>5. Recorded'
    BY <1>1, <2>1, <2>3, <2>4, FewerRecorders DEF LInv, Handover
  <2>6. Carried' /\ ParkedFirst' /\ Unlost'
    BY <2>1, <2>2 DEF LInv, Handover, Carried, ParkedFirst, Unlost, At
  <2> QED
    BY <2>5, <2>6 DEF Handover
<1> QED
  BY <1>2, <1>3 DEF Reopen

\* An outcome is recorded, and counted when the row is completed.
LEMMA RecordTurn ==
    ASSUME LInv, TypeOK', NEW d \in Drivers, slips \subseteq slips',
           RecordOutcome(d) \/ CompleteRun(d)
    PROVE  Handover'
<1> USE DEF LInv, Handover
<1>1. /\ TypeOK /\ run \in Run /\ Segments \in Nat /\ outcomes \in Nat
      /\ IsFiniteSet(Recorders) /\ Cardinality(Recorders) \in Nat
  BY FS_CardinalityType DEF IInv, TypeOK, Recorded, Segments
<1>2. CASE RecordOutcome(d)
  <2>1. /\ drv[d].pc \in {"outcome", "rescueOutcome"}
        /\ Move(d, "complete") \/ Move(d, "rescueComplete")
        /\ outcomes' = outcomes + 1 /\ UNCHANGED <<run, reopens, slips>>
    BY <1>2 DEF RecordOutcome
  <2>2. /\ \A e \in Drivers \ {d} : drv'[e] = drv[e]
        /\ drv'[d].pc \in {"complete", "rescueComplete"} /\ drv'[d].lost = drv[d].lost
    BY <1>1, <2>1, MoveTo DEF Kept
  <2>3. Recorders' = Recorders \cup {d} /\ d \notin Recorders
    BY <2>1, <2>2 DEF Recorders
  <2>4. IsFiniteSet(Recorders') /\ Cardinality(Recorders') = Cardinality(Recorders) + 1
    BY <1>1, <2>3, FS_AddElement
  <2>5. Segments' = Segments
    BY <2>1 DEF Segments
  <2>6. Recorded'
    BY <1>1, <2>1, <2>4, <2>5 DEF Recorded
  <2>7. Carried' /\ ParkedFirst' /\ Unlost'
    BY <2>1, <2>2 DEF Carried, ParkedFirst, Unlost, At, Ending
  <2> QED
    BY <2>6, <2>7
<1>3. CASE CompleteRun(d)
  <2>1. /\ drv[d].pc \in {"complete", "rescueComplete"} /\ Finishing(d, "discard", "none")
        /\ run'.status = "completed" /\ UNCHANGED <<outcomes, reopens, slips>>
    BY <1>1, <1>3 DEF CompleteRun, counters, Run
  <2>2. /\ \A e \in Drivers \ {d} : drv'[e] = drv[e]
        /\ drv'[d].pc = "discard" /\ drv'[d].lost = drv[d].lost
    BY <1>1, <2>1, FinishTo DEF Kept
  <2>3. Recorders' = Recorders \ {d} /\ d \in Recorders
    BY <2>1, <2>2 DEF Recorders
  <2>4. IsFiniteSet(Recorders') /\ Cardinality(Recorders') = Cardinality(Recorders) - 1
    BY <1>1, <2>3, FS_RemoveElement
  <2>5. Segments' \in Nat /\ Segments' <= Segments + 1
    BY <1>1, <2>1 DEF Segments, TypeOK
  <2>6. Recorded'
    BY <1>1, <2>1, <2>4, <2>5 DEF Recorded
  <2>7. slips = {} => \A e \in Drivers \ {d} : ~Holds(e)
    BY <2>1 DEF IInv, RescueIsSlip, SoleDriver, Holds, Holding
  <2>8. ParkedFirst'
    BY <2>1, <2>2, <2>7 DEF ParkedFirst, At, Holds, Holding
  <2>9. Carried' /\ Unlost'
    BY <2>1, <2>2 DEF Carried, Unlost, Ending
  <2> QED
    BY <2>6, <2>8, <2>9
<1> QED
  BY <1>2, <1>3

\* Heartbeats, follow-ups, Torii, and failures.
LEMMA OtherTurns ==
    ASSUME LInv, TypeOK', slips \subseteq slips', Environment \/ \E d \in Drivers : Beat(d)
    PROVE  Handover'
<1> USE DEF LInv, Handover
<1>1. TypeOK /\ run \in Run
  BY DEF IInv, TypeOK
<1>2. Steady
  BY <1>1 DEF Environment, SelectParked, InsertFollowUp, ToriiSettles, Crash, Lapse, Beat, Renew,
     LoseLease, counters, Steady, Run
<1>3. ASSUME \A d \in Drivers : \/ /\ drv'[d].pc = drv[d].pc /\ drv'[d].parked = drv[d].parked
                                   /\ drv'[d].lost => drv[d].lost \/ At(d, "discard") \/ slips # {}
                                \/ drv'[d].pc = "idle" /\ ~drv'[d].lost
      PROVE  Handover'
  <2>1. Carried' /\ ParkedFirst'
    BY <1>2, <1>3 DEF Carried, ParkedFirst, At, Steady
  <2>2. Unlost'
    BY <1>3 DEF Unlost, Ending, At
  <2>3. Recorders' \subseteq Recorders
    BY <1>3 DEF Recorders
  <2>4. Recorded'
    BY <1>1, <1>2, <2>3, SteadySegments, FewerRecorders
  <2> QED
    BY <2>1, <2>2, <2>4
<1>4. ASSUME UNCHANGED drv PROVE Handover'
  BY <1>3, <1>4
<1>5. ASSUME NEW r \in Replicas, Crash(r) PROVE Handover'
  <2>1. drv' = [d \in Drivers |-> IF Home[d] = r THEN Idle ELSE drv[d]]
    BY <1>5 DEF Crash
  <2> QED
    BY <1>3, <2>1 DEF Idle
<1>6. ASSUME NEW d \in Drivers, LoseLease(d) PROVE Handover'
  <2> DEFINE row == [drv[d] EXCEPT !.lost = TRUE]
  <2>1. row.pc = drv[d].pc /\ row.parked = drv[d].parked
    BY <1>1 DEF Driver, TypeOK
  <2>2. drv' = [drv EXCEPT ![d] = row] /\ HasHeartbeat(d) /\ ~Owns(d)
    BY <1>6 DEF LoseLease
  <2>3. At(d, "discard") \/ slips # {}
    BY <2>2 DEF HasHeartbeat, IInv, SoleDriver, Holds, At
  <2> HIDE DEF row
  <2>4. Kept(d) /\ drv'[d] = row
    BY <1>1, <2>2, RowTo
  <2> QED
    BY <1>3, <2>1, <2>3, <2>4 DEF Kept
<1>7. CASE \/ \E m \in Messages : SelectParked(m) \/ InsertFollowUp(m)
           \/ \E c \in Calls : ToriiSettles(c)
           \/ Lapse \/ \E d \in Drivers : Renew(d)
  BY <1>4, <1>7 DEF SelectParked, InsertFollowUp, ToriiSettles, Lapse, Renew
<1> QED
  BY <1>5, <1>6, <1>7 DEF Environment, Beat

\* Every step of the run and of its environment.
LEMMA NextLInv == LInv /\ [Next]_vars => LInv'
<1> SUFFICES ASSUME LInv, [Next]_vars
             PROVE  LInv'
  OBVIOUS
<1>1. TypeOK /\ IInv' /\ TypeOK' /\ slips \subseteq slips'
  BY NextIInv, SlipsStay DEF LInv, IInv
<1>2. ASSUME NEW d \in Drivers, Turn(d, PC \ Watched), Steady, drv[d].pc \notin Ending
      PROVE  Handover'
  BY <1>1, <1>2, QuietTurn
<1>3. ASSUME NEW d \in Drivers, Arrive(d) \/ Begin(d) \/ Sweep(d) PROVE Handover'
  <2>1. CASE \/ ListClaimable(d) \/ PollPending(d) \/ Repark(d)
    BY <1>1, <2>1, ParkSteps DEF Handed
  <2>2. CASE Launch(d) \/ Reopen(d)
    BY <1>1, <2>2, OpenTurn
  <2>3. CASE \/ SetupFails(d) \/ ReadParked(d) \/ ClaimRun(d) \/ PollTerminal(d)
             \/ PollFailed(d) \/ Seize(d) \/ FetchHistory(d)
             \/ \E said : ReadContinuation(d, said)
    BY <1>1, <1>2, <2>3, ApproachTurn
  <2>4. Arrive(d) => Launch(d) \/ ListClaimable(d) \/ \E said : ReadContinuation(d, said)
    BY DEF Arrive
  <2> QED
    BY <1>3, <2>1, <2>2, <2>3, <2>4 DEF Begin, Sweep
<1>4. Ending \cap Holding = {}
  BY DEF Ending, Holding
<1>5. ASSUME NEW d \in Drivers, Drive(d) PROVE Handover'
  <2>1. CASE \/ Connect(d) \/ Checkpoint(d) \/ SetParkedMcpTask(d) \/ ClearParkedMcpTask(d)
             \/ Dispatch(d) \/ \E c \in Calls : CallTool(d, c)
    BY <1>1, <2>1, ParkSteps DEF Handed
  <2>2. CASE Hibernate(d)
    <3>1. Turn(d, {"idle", "release", "outcome"}) /\ Steady /\ Holds(d)
      BY <1>1, <2>2, LetGoTurn
    <3> QED
      BY <1>1, <1>4, <3>1, QuietTurn DEF Watched, Holds
  <2>3. CASE \/ ConnectFails(d) \/ PollResult(d) \/ RenewAfterPoll(d) \/ AppendToolResult(d)
             \/ PushToolErrorResult(d) \/ DrainSelect(d) \/ DrainDelete(d)
             \/ CheckpointDrained(d) \/ AssessTask(d) \/ EndTurn(d) \/ StopNow(d)
    <3>1. Turn(d, Holding \ Watched) /\ Steady /\ Holds(d)
      BY <1>1, <2>3, WorkTurn
    <3> QED
      BY <1>1, <1>4, <3>1, QuietTurn DEF Holds
  <2> QED
    BY <1>5, <2>1, <2>2, <2>3 DEF Drive
<1>6. ASSUME NEW d \in Drivers, Finish(d) PROVE Handover'
  <2>1. CASE EndLoop(d) \/ CatchError(d)
    <3>1. Turn(d, {"idle", "release", "outcome"}) /\ Steady /\ Holds(d)
      BY <1>1, <2>1, LetGoTurn
    <3> QED
      BY <1>1, <1>4, <3>1, QuietTurn DEF Watched, Holds
  <2>2. CASE RecordOutcome(d) \/ CompleteRun(d)
    BY <1>1, <2>2, RecordTurn
  <2>3. CASE DiscardFollowUps(d) \/ ReleaseRun(d) \/ Rescue(d)
    <3>1. /\ Turn(d, {"idle", "release", "rescue", "rescueOutcome"}) /\ Steady
          /\ drv'[d].lost => drv'[d].pc \in {"release", "rescue"} \/ slips' # {}
      BY <1>1, <2>3, TailTurn
    <3> QED
      BY <1>1, <3>1, QuietTurn DEF Watched, Ending
  <2> QED
    BY <1>6, <2>1, <2>2, <2>3 DEF Finish
<1>7. ASSUME Environment \/ \E d \in Drivers : Beat(d) PROVE Handover'
  BY <1>1, <1>7, OtherTurns
<1>8. ASSUME UNCHANGED vars PROVE Handover'
  BY <1>8 DEF vars, counters, LInv, Handover, Carried, ParkedFirst, Unlost, Recorded, Recorders,
     Segments, At
<1>9. Handover'
  BY <1>3, <1>5, <1>6, <1>7, <1>8 DEF Next
<1> QED
  BY <1>1, <1>9 DEF LInv

\* What every segment's outcome, every parked run and every lease rest on, beyond IInv.
THEOREM HandoverInvariance == Spec => []LInv
<1>1. Init => LInv
  BY InitLInv
<1>2. LInv /\ [Next]_vars => LInv'
  BY NextLInv
<1> QED
  BY <1>1, <1>2, PTL DEF Spec

\* Each segment of a run records its outcome before the row is completed, and one only unless
\* its recorder dies in between (completeRunWithOutcomeStep, beginContinuation).
THEOREM OutcomeOfEverySegment == Spec => []OutcomePerSegment
<1>1. LInv => OutcomePerSegment
  <2> SUFFICES ASSUME LInv PROVE OutcomePerSegment
    OBVIOUS
  <2>1. slips = {} => outcomes <= reopens + 1 + crashes
    BY DEF LInv, IInv, Counted
  <2>2. Cardinality(Recorders) \in Nat /\ Segments + Cardinality(Recorders) <= outcomes
    BY FS_CardinalityType DEF LInv, Handover, Recorded
  <2>3. run.status = "completed" => outcomes >= reopens + 1
    BY <2>2 DEF Segments, LInv, IInv, TypeOK
  <2> QED
    BY <2>1, <2>3 DEF OutcomePerSegment
<1> QED
  BY <1>1, HandoverInvariance, PTL

\* A driver that lets go of a running run leaves it parked: its lease was not lost to anyone,
\* so it ends or hibernates in order.
LEMMA LeftInOrder ==
    ASSUME LInv, [Next]_vars, NEW d \in Drivers, Holds(d), ~Holds(d)', crashes' = crashes,
           slips = {}
    PROVE  ~Running' \/ run'.parked # NoCall
<1>1. TypeOK /\ run \in Run /\ Owns(d) /\ ~drv[d].lost
  <2>1. drv[d].pc \notin Ending
    BY DEF Holds, Holding, Ending
  <2> QED
    BY <2>1 DEF LInv, IInv, TypeOK, SoleDriver, Handover, Unlost
\* A step of another driver leaves this one where it is.
<1>2. ASSUME NEW e \in Drivers, Kept(e) PROVE e = d
  BY <1>2 DEF Kept, Holds
<1>3. TypeOK' /\ slips \subseteq slips'
  BY NextIInv, SlipsStay DEF LInv, IInv
<1>4. ASSUME NEW e \in Drivers, Arrive(e) \/ Begin(e) \/ Sweep(e) PROVE FALSE
  <2>1. ~Holds(e)
    BY <1>4 DEF Arrive, Begin, Sweep, Launch, ListClaimable, ReadContinuation, Reopen,
       SetupFails, ReadParked, ClaimRun, PollPending, PollTerminal, PollFailed, Repark, Seize,
       FetchHistory, At, Holds, Holding
  <2>2. Kept(e)
    <3>1. CASE ListClaimable(e) \/ PollPending(e) \/ Repark(e)
      BY <1>3, <3>1, ParkSteps DEF Handed
    <3>2. CASE Launch(e) \/ Reopen(e)
      BY <1>1, <3>2, MoveTo, LeaveTo DEF Launch, Reopen
    <3>3. CASE \/ SetupFails(e) \/ ReadParked(e) \/ ClaimRun(e) \/ PollTerminal(e)
               \/ PollFailed(e) \/ Seize(e) \/ FetchHistory(e)
               \/ \E said : ReadContinuation(e, said)
      BY <1>1, <3>3, ApproachTurn DEF Turn
    <3>4. Arrive(e) => Launch(e) \/ ListClaimable(e) \/ \E said : ReadContinuation(e, said)
      BY DEF Arrive
    <3> QED
      BY <1>4, <3>1, <3>2, <3>3, <3>4 DEF Begin, Sweep
  <2> QED
    BY <1>2, <2>1, <2>2
<1>5. ASSUME NEW e \in Drivers, Drive(e) PROVE run'.parked # NoCall
  <2>1. CASE \/ Connect(e) \/ Checkpoint(e) \/ SetParkedMcpTask(e) \/ ClearParkedMcpTask(e)
             \/ Dispatch(e) \/ \E c \in Calls : CallTool(e, c)
    BY <1>2, <1>3, <2>1, ParkSteps DEF Handed
  <2>2. CASE \/ ConnectFails(e) \/ PollResult(e) \/ RenewAfterPoll(e) \/ AppendToolResult(e)
             \/ PushToolErrorResult(e) \/ DrainSelect(e) \/ DrainDelete(e)
             \/ CheckpointDrained(e) \/ AssessTask(e) \/ EndTurn(e) \/ StopNow(e)
    BY <1>1, <1>2, <2>2, WorkTurn DEF Turn, Holds
  <2>3. CASE Hibernate(e)
    <3>1. Kept(e) /\ run'.parked = run.parked /\ At(e, "hibernate")
      BY <1>1, <2>3, LetGoTurn DEF Turn, Steady, Hibernate
    <3> QED
      BY <3>1 DEF LInv, Handover, ParkedFirst
  <2> QED
    BY <1>5, <2>1, <2>2, <2>3 DEF Drive
<1>6. ASSUME NEW e \in Drivers, Finish(e) PROVE ~Running'
  <2>1. CASE EndLoop(e) \/ CatchError(e)
    <3>1. e = d
      BY <1>1, <1>2, <2>1, LetGoTurn DEF Turn
    <3>2. drv'[d].pc = "outcome"
      BY <1>1, <2>1, <3>1, LetGoTurn DEF Owns, Hibernate, EndLoop, CatchError, At
    <3> QED
      BY <3>2 DEF Holds, Holding
  <2>2. CASE RecordOutcome(e)
    <3>1. /\ At(e, "outcome") \/ At(e, "rescueOutcome")
          /\ Move(e, IF At(e, "outcome") THEN "complete" ELSE "rescueComplete")
      BY <2>2 DEF RecordOutcome, At
    <3>2. Kept(e) /\ (At(e, "outcome") => drv'[e].pc = "complete")
      BY <1>1, <3>1, MoveTo
    <3> QED
      BY <1>2, <3>1, <3>2 DEF Holds, Holding, At
  <2>3. CASE CompleteRun(e)
    BY <1>1, <2>3 DEF CompleteRun, Run, Running
  <2>4. CASE DiscardFollowUps(e) \/ ReleaseRun(e) \/ Rescue(e)
    BY <1>1, <1>2, <2>4, TailTurn DEF Turn, Holds
  <2> QED
    BY <1>6, <2>1, <2>2, <2>3, <2>4 DEF Finish
<1>7. ASSUME NEW e \in Drivers, Beat(e) PROVE FALSE
  <2>1. CASE Renew(e)
    BY <2>1 DEF Renew, Holds
  <2>2. CASE LoseLease(e)
    <3> DEFINE row == [drv[e] EXCEPT !.lost = TRUE]
    <3>1. row.pc = drv[e].pc
      BY <1>1 DEF TypeOK, Driver
    <3>2. drv' = [drv EXCEPT ![e] = row]
      BY <2>2 DEF LoseLease
    <3> HIDE DEF row
    <3> QED
      BY <1>1, <1>2, <3>1, <3>2, RowTo DEF Holds
  <2> QED
    BY <1>7, <2>1, <2>2 DEF Beat
<1>8. ~Environment
  <2>1. ~\E r \in Replicas : Crash(r)
    BY <1>1 DEF Crash, TypeOK
  <2>2. drv' # drv
    BY DEF Holds
  <2> QED
    BY <2>1, <2>2 DEF Environment, SelectParked, InsertFollowUp, ToriiSettles, Lapse
<1>9. Next
  BY DEF vars, Holds
<1> QED
  BY <1>4, <1>5, <1>6, <1>7, <1>8, <1>9 DEF Next

\* A driver that lets go of a running run leaves it parked or to another driver, whatever
\* steps the others take.
THEOREM NoOrphanLeft == Spec => LeavesNoOrphan
<1> DEFINE Left == \A d \in Drivers :
                     (Holds(d) /\ ~Holds(d)' /\ crashes' = crashes /\ slips = {}) =>
                        \/ ~Running'
                        \/ run'.parked # NoCall
                        \/ \E e \in Drivers : Holds(e)'
<1>1. LInv /\ [Next]_vars => [Left]_vars
  BY LeftInOrder
<1> QED
  BY <1>1, HandoverInvariance, PTL DEF Spec, LeavesNoOrphan

-----------------------------------------------------------------------------
(* A third invariant: what the drivers know of the transcript.             *)

\* No driver was taken for dead, and none took up a run that was not the one it had read.
Undisturbed == slips = {} /\ ~overtaken

\* The statements at which a driver's copy of the transcript is the one that counts.
InHand == Holding \ {"outcome", "complete", "failing"}
Looping == {"answer", "drain", "drainDelete", "drained", "model", "end"}
Closing == {"drain", "drainDelete", "drained", "end"}

\* No answer is another call's.
Truthful(answers) == \A answer \in answers : answer[2] \in {answer[1], NoCall}

\* A transcript awaits the answer to c, if any.
Fits(h, c) == c = NoCall \/ h.open \in {c, NoCall}

\* A copy of the transcript has all that is stored.
Grown(h) == history.answers \subseteq h.answers /\ history.said \subseteq h.said

\* The record r of the driver that has the run agrees with what is stored.
InStep(r) ==
    /\ Grown(r.hist) /\ Truthful(r.hist.answers) /\ Fits(r.hist, r.parked)
    /\ \/ run.parked \in {NoCall, r.parked}
       \/ r.pc \in Closing /\ r.hist.open = NoCall /\ r.outcome # "none"
    /\ r.pc = "park" => history.open = r.hist.open
    /\ r.pc \in Looping => r.parked = NoCall
    /\ r.pc = "dispatch" => run.parked = NoCall

Stored == /\ Truthful(history.answers)
          /\ Fits(history, run.parked)
          /\ ~Running => run.parked = NoCall

Abreast == Undisturbed => Stored /\ \A d \in Drivers : drv[d].pc \in InHand => InStep(drv[d])

\* What a step leaves, and that it loses nothing of the stored transcript.
Keeps == Abreast' /\ (Undisturbed' => Undisturbed /\ Grown(history'))

\* A step once taken for another's stays so.
LEMMA OvertakenStays == [Next]_vars => (overtaken => overtaken')
<1>1. ASSUME NEW d \in Drivers, Arrive(d) \/ Begin(d) \/ Sweep(d), overtaken
      PROVE  overtaken'
  BY <1>1 DEF Arrive, Begin, Sweep, Launch, ListClaimable, ReadContinuation, Reopen,
     SetupFails, ReadParked, ClaimRun, PollPending, PollTerminal, PollFailed, Repark, Seize,
     FetchHistory, counters, Overtaken
<1>2. ASSUME NEW d \in Drivers, Drive(d), overtaken
      PROVE  overtaken'
  BY <1>2 DEF Drive, Connect, ConnectFails, Checkpoint, SetParkedMcpTask, Hibernate, PollResult,
     RenewAfterPoll, ClearParkedMcpTask, AppendToolResult, PushToolErrorResult, DrainSelect,
     DrainDelete, CheckpointDrained, CallTool, AssessTask, EndTurn, Dispatch, StopNow, counters
<1>3. ASSUME NEW d \in Drivers, Finish(d) \/ Beat(d), overtaken
      PROVE  overtaken'
  BY <1>3 DEF Finish, Beat, EndLoop, CatchError, RecordOutcome, CompleteRun, DiscardFollowUps,
     ReleaseRun, Rescue, Renew, LoseLease, counters
<1>4. CASE Environment /\ overtaken
  BY <1>4 DEF Environment, SelectParked, InsertFollowUp, ToriiSettles, Crash, Lapse, counters
<1> QED
  BY <1>1, <1>2, <1>3, <1>4 DEF Next, vars

LEMMA StillUndisturbed == [Next]_vars => (Undisturbed' => Undisturbed)
BY OvertakenStays, SlipsStay DEF Undisturbed

\* A step after which nobody has more of the run in hand than before, and nothing is written.
LEMMA AloneKeeps ==
    ASSUME Abreast, Undisturbed' => Undisturbed, history' = history,
           Undisturbed' => run'.parked = run.parked /\ (run'.status = run.status \/ Running'),
           \A e \in Drivers : (Undisturbed' /\ drv'[e].pc \in InHand) =>
              /\ drv'[e].pc = drv[e].pc /\ drv'[e].hist = drv[e].hist
              /\ drv'[e].parked = drv[e].parked /\ drv'[e].outcome = drv[e].outcome
    PROVE  Keeps
<1>1. Grown(history')
  BY DEF Grown
<1>2. ASSUME Undisturbed' PROVE Stored'
  BY <1>2 DEF Abreast, Stored, Running
<1>3. ASSUME Undisturbed', NEW e \in Drivers, drv'[e].pc \in InHand
      PROVE  InStep(drv[e])'
  <2>1. InStep(drv[e])
    BY <1>3 DEF Abreast
  <2> QED
    BY <1>3, <2>1 DEF InStep, Grown
<1> QED
  BY <1>1, <1>2, <1>3 DEF Keeps, Abreast

\* A step of the driver that has the run: nobody else has it in hand.
LEMMA HolderKeeps ==
    ASSUME IInv, Abreast, NEW d \in Drivers, Holds(d), Kept(d), Undisturbed' => Undisturbed,
           Undisturbed => /\ Grown(history') /\ Stored'
                          /\ (drv'[d].pc \in InHand => InStep(drv[d])')
    PROVE  Keeps
<1>1. ASSUME Undisturbed', NEW e \in Drivers, drv'[e].pc \in InHand
      PROVE  InStep(drv[e])'
  <2>1. CASE e = d
    BY <1>1, <2>1
  <2>2. CASE e # d
    <3>1. Holds(e)
      BY <1>1, <2>2 DEF Kept, Holds, InHand
    <3> QED
      BY <1>1, <2>2, <3>1 DEF IInv, SoleDriver, Undisturbed
  <2> QED
    BY <2>1, <2>2
<1> QED
  BY <1>1 DEF Keeps, Abreast

\* What a driver that has the run knows.
LEMMA HolderKnows ==
    ASSUME IInv, Abreast, NEW d \in Drivers, Holds(d), Undisturbed
    PROVE  /\ Stored /\ Running
           /\ drv[d].pc \in InHand => InStep(drv[d])
BY DEF IInv, Abreast, SoleDriver, Owns, Undisturbed

\* Moving on changes nothing else the driver has.
LEMMA MoveCarries ==
    ASSUME TypeOK, NEW d \in Drivers, NEW p, Move(d, p)
    PROVE  /\ Kept(d) /\ drv'[d].pc = p /\ drv'[d].hist = drv[d].hist
           /\ drv'[d].parked = drv[d].parked /\ drv'[d].outcome = drv[d].outcome
<1>1. drv[d] \in Driver /\ drv' = [drv EXCEPT ![d] = [drv[d] EXCEPT !.pc = p]]
  BY DEF TypeOK, Move
<1> QED
  BY <1>1 DEF TypeOK, Kept, Driver

\* Calling a tool opens the call in the transcript.
LEMMA CallCarries ==
    ASSUME TypeOK, NEW d \in Drivers, NEW c \in Calls, CallTool(d, c)
    PROVE  /\ Kept(d) /\ drv'[d].pc = "dispatch" /\ drv'[d].parked = c
           /\ drv'[d].hist = [drv[d].hist EXCEPT !.open = c]
<1>1. drv[d] \in Driver /\ drv \in [Drivers -> Driver]
  BY DEF TypeOK
<1>2. drv' = [drv EXCEPT ![d] = [drv[d] EXCEPT !.pc = "dispatch", !.parked = c,
                                               !.hist = [drv[d].hist EXCEPT !.open = c]]]
  BY DEF CallTool
<1> DEFINE h == [drv[d].hist EXCEPT !.open = c]
<1>3. drv' = [drv EXCEPT ![d] = [drv[d] EXCEPT !.pc = "dispatch", !.parked = c, !.hist = h]]
  BY <1>2
<1> HIDE DEF h
<1>4. Kept(d) /\ drv'[d].pc = "dispatch" /\ drv'[d].parked = c /\ drv'[d].hist = h
  BY <1>1, <1>3 DEF Kept, Driver
<1> QED
  BY <1>4 DEF h

\* Ending the loop settles the outcome and the transcript.
LEMMA TerminateCarries ==
    ASSUME TypeOK, NEW d \in Drivers, NEW o, NEW h, Terminate(d, o, h)
    PROVE  /\ Kept(d) /\ drv'[d].pc = "drain" /\ drv'[d].hist = h
           /\ drv'[d].parked = NoCall /\ drv'[d].outcome = o
<1>1. drv[d] \in Driver
  BY DEF TypeOK
<1> QED
  BY <1>1 DEF TypeOK, Kept, Terminate, Driver

\* Answering the open call adds an answer and loses none.
LEMMA AnsweredAdds ==
    ASSUME NEW h \in History, NEW s
    PROVE  LET g == Answered(h, s)
           IN  /\ g.open = NoCall /\ h.answers \subseteq g.answers /\ g.said = h.said
               /\ (Truthful(h.answers) /\ (s = NoCall \/ h.open \in {s, NoCall})) => Truthful(g.answers)
<1>1. CASE h.open = NoCall
  BY <1>1 DEF Answered
<1>2. CASE h.open # NoCall
  <2>1. Answered(h, s) = [h EXCEPT !.open = NoCall, !.answers = h.answers \cup {<<h.open, s>>}]
    BY <1>2 DEF Answered
  <2>2. /\ Answered(h, s).open = NoCall /\ Answered(h, s).said = h.said
        /\ Answered(h, s).answers = h.answers \cup {<<h.open, s>>}
    BY <2>1 DEF History
  <2> QED
    BY <1>2, <2>2 DEF Truthful
<1> QED
  BY <1>1, <1>2

\* A driver that has connected, and takes up a parked call or turns to the model.
LEMMA ConnectKeeps ==
    ASSUME IInv, Abreast, Undisturbed' => Undisturbed, NEW d \in Drivers,
           Connect(d) \/ ConnectFails(d)
    PROVE  Keeps
<1>1. /\ TypeOK /\ drv[d] \in Driver /\ At(d, "connect")
      /\ UNCHANGED <<run, history>>
  BY DEF IInv, TypeOK, Connect, ConnectFails
<1>2. Holds(d) /\ drv[d].pc \in InHand
  BY <1>1 DEF At, Holds, Holding, InHand
<1>3. ASSUME Undisturbed
      PROVE  /\ Grown(history') /\ Stored' /\ InStep(drv[d])
             /\ run.parked \in {NoCall, drv[d].parked}
  <2>1. Stored /\ InStep(drv[d])
    BY <1>2, <1>3, HolderKnows
  <2> QED
    BY <1>1, <2>1 DEF Grown, Stored, Running, InStep, Closing, At
<1>4. CASE Connect(d) /\ drv[d].parked = NoCall
  <2>1. Kept(d) /\ drv'[d].pc = "drain" /\ drv'[d].hist = drv[d].hist /\ drv'[d].parked = NoCall
    BY <1>1, <1>4, MoveCarries DEF Connect
  <2>2. ASSUME Undisturbed PROVE InStep(drv[d])'
    BY <1>1, <1>3, <1>4, <2>1, <2>2 DEF InStep, Grown
  <2> QED
    BY <1>2, <1>3, <2>1, <2>2, HolderKeeps
<1>5. CASE Connect(d) /\ drv[d].parked # NoCall /\ drv[d].hist.open = NoCall
  <2>1. /\ Kept(d) /\ drv'[d].pc = "drain" /\ drv'[d].hist = drv[d].hist
        /\ drv'[d].parked = NoCall /\ drv'[d].outcome = "failed"
    BY <1>1, <1>5, TerminateCarries DEF Connect
  <2>2. ASSUME Undisturbed PROVE InStep(drv[d])'
    BY <1>1, <1>3, <1>5, <2>1, <2>2 DEF InStep, Grown, Fits, Closing
  <2> QED
    BY <1>2, <1>3, <2>1, <2>2, HolderKeeps
<1>6. CASE Connect(d) /\ drv[d].parked # NoCall /\ drv[d].hist.open # NoCall
  <2>1. Kept(d) /\ drv'[d].pc = "wake" /\ drv'[d].hist = drv[d].hist /\ drv'[d].parked = drv[d].parked
    BY <1>1, <1>6, MoveCarries DEF Connect
  <2>2. ASSUME Undisturbed PROVE InStep(drv[d])'
    BY <1>1, <1>3, <2>1, <2>2 DEF InStep, Grown, Looping
  <2> QED
    BY <1>2, <1>3, <2>1, <2>2, HolderKeeps
<1>7. CASE ConnectFails(d)
  <2> DEFINE row == [drv[d] EXCEPT !.pc = "failing", !.thrown = TRUE]
  <2>1. row.pc \notin InHand
    BY <1>1 DEF Driver, InHand
  <2>2. drv' = [drv EXCEPT ![d] = row]
    BY <1>7 DEF ConnectFails
  <2> HIDE DEF row
  <2>3. Kept(d) /\ drv'[d].pc \notin InHand
    BY <1>1, <2>1, <2>2, RowTo
  <2> QED
    BY <1>2, <1>3, <2>3, HolderKeeps
<1> QED
  BY <1>4, <1>5, <1>6, <1>7

\* A driver that writes down its whole copy.
LEMMA CheckpointKeeps ==
    ASSUME IInv, Abreast, Undisturbed' => Undisturbed, NEW d \in Drivers,
           Checkpoint(d) \/ AppendToolResult(d) \/ CheckpointDrained(d)
    PROVE  Keeps
<1>1. /\ TypeOK /\ drv[d] \in Driver /\ drv[d].pc \in {"wake", "answer", "drained"}
      /\ run' = run /\ history' = drv[d].hist
  BY DEF IInv, TypeOK, Checkpoint, AppendToolResult, CheckpointDrained, At
<1>2. Holds(d) /\ drv[d].pc \in InHand
  BY <1>1 DEF Holds, Holding, InHand
<1>3. \E p : /\ Move(d, p)
             /\ \/ At(d, "wake") /\ p = "park"
                \/ At(d, "answer") /\ p = "drain"
                \/ At(d, "drained") /\ p = (IF drv[d].outcome = "none" THEN "model" ELSE "end")
  BY DEF Checkpoint, AppendToolResult, CheckpointDrained
<1>4. PICK p : /\ Move(d, p)
               /\ \/ At(d, "wake") /\ p = "park"
                  \/ At(d, "answer") /\ p = "drain"
                  \/ At(d, "drained") /\ p = (IF drv[d].outcome = "none" THEN "model" ELSE "end")
  BY <1>3
<1>5. /\ Kept(d) /\ drv'[d].pc = p /\ drv'[d].hist = drv[d].hist
      /\ drv'[d].parked = drv[d].parked /\ drv'[d].outcome = drv[d].outcome
  BY <1>1, <1>4, MoveCarries
<1>6. ASSUME Undisturbed PROVE Grown(history') /\ Stored' /\ InStep(drv[d])'
  <2>1. Stored /\ Running /\ InStep(drv[d])
    BY <1>2, <1>6, HolderKnows
  <2>2. Stored'
    BY <1>1, <2>1 DEF Stored, Running, InStep, Fits
  <2>3. InStep(drv[d])'
    BY <1>1, <1>4, <1>5, <2>1 DEF InStep, Grown, Looping, Closing, At
  <2> QED
    BY <1>1, <2>1, <2>2, <2>3 DEF InStep, Grown
<1> QED
  BY <1>2, <1>5, <1>6, HolderKeeps

\* A driver that waits: it parks the run, hibernates, polls, renews.
LEMMA WaitKeeps ==
    ASSUME IInv, Abreast, Undisturbed' => Undisturbed, NEW d \in Drivers,
           SetParkedMcpTask(d) \/ Hibernate(d) \/ PollResult(d) \/ RenewAfterPoll(d)
    PROVE  Keeps
<1>1. /\ TypeOK /\ drv[d] \in Driver /\ drv[d].pc \in {"park", "hibernate", "wait", "renew"}
      /\ run \in Run /\ drv[d].parked \in Calls \cup {NoCall}
  BY DEF IInv, TypeOK, SetParkedMcpTask, Hibernate, PollResult, RenewAfterPoll, At, Driver
<1>2. Holds(d) /\ drv[d].pc \in InHand
  BY <1>1 DEF Holds, Holding, InHand
<1>3. ASSUME Undisturbed
      PROVE  /\ Stored /\ InStep(drv[d]) /\ Running
             /\ run.parked \in {NoCall, drv[d].parked}
  <2>1. Stored /\ InStep(drv[d]) /\ Running
    BY <1>2, <1>3, HolderKnows
  <2> QED
    BY <1>1, <2>1 DEF InStep, Closing
<1>4. CASE SetParkedMcpTask(d)
  <2> DEFINE p == IF drv[d].fresh THEN "hibernate" ELSE "wait"
             row == [drv[d] EXCEPT !.pc = p, !.fresh = FALSE]
  <2>1. row.pc \in {"hibernate", "wait"} /\ row.hist = drv[d].hist /\ row.parked = drv[d].parked
    BY <1>1 DEF Driver
  <2>2. /\ drv' = [drv EXCEPT ![d] = row] /\ history' = history /\ At(d, "park")
        /\ run' = IF Running THEN [run EXCEPT !.parked = drv[d].parked] ELSE run
    BY <1>4 DEF SetParkedMcpTask
  <2> HIDE DEF row
  <2>3. /\ Kept(d) /\ drv'[d].pc \in {"hibernate", "wait"} /\ drv'[d].hist = drv[d].hist
        /\ drv'[d].parked = drv[d].parked
    BY <1>1, <2>1, <2>2, RowTo
  <2>4. ASSUME Undisturbed PROVE Grown(history') /\ Stored' /\ InStep(drv[d])'
    <3>1. run'.status = run.status /\ run'.parked = drv[d].parked
      BY <1>1, <1>3, <2>2, <2>4, ParkLemma
    <3>2. Stored'
      BY <1>3, <2>2, <2>4, <3>1 DEF Stored, Running, InStep, Fits, At
    <3>3. InStep(drv[d])'
      BY <1>3, <2>2, <2>3, <2>4, <3>1 DEF InStep, Grown, Looping
    <3> QED
      BY <2>2, <3>2, <3>3 DEF Grown
  <2> QED
    BY <1>2, <2>3, <2>4, HolderKeeps
<1>5. CASE Hibernate(d)
  <2>1. /\ run' = run /\ history' \in {history, drv[d].hist}
        /\ Leave(d) \/ Finishing(d, "release", "none")
    BY <1>5 DEF Hibernate
  <2>2. Kept(d) /\ drv'[d].pc \notin InHand
    BY <1>1, <2>1, LeaveTo, FinishTo DEF InHand, Holding
  <2>3. ASSUME Undisturbed PROVE Grown(history') /\ Stored'
    BY <1>3, <2>1, <2>3 DEF Stored, Running, InStep, Fits, Grown
  <2> QED
    BY <1>2, <2>2, <2>3, HolderKeeps
<1>6. CASE PollResult(d) /\ ~Move(d, "failCall")
  <2>1. PICK o \in {"rejected", "none"} :
            drv' = [drv EXCEPT ![d] = [drv[d] EXCEPT !.pc = "renew", !.outcome = o]]
    BY <1>6 DEF PollResult
  <2> DEFINE row == [drv[d] EXCEPT !.pc = "renew", !.outcome = o]
  <2>2. row.pc = "renew" /\ row.hist = drv[d].hist /\ row.parked = drv[d].parked
    BY <1>1 DEF Driver
  <2>3. drv' = [drv EXCEPT ![d] = row] /\ UNCHANGED <<run, history>>
    BY <1>6, <2>1 DEF PollResult
  <2> HIDE DEF row
  <2>4. /\ Kept(d) /\ drv'[d].pc = "renew" /\ drv'[d].hist = drv[d].hist
        /\ drv'[d].parked = drv[d].parked
    BY <1>1, <2>2, <2>3, RowTo
  <2>5. ASSUME Undisturbed PROVE Grown(history') /\ Stored' /\ InStep(drv[d])'
    BY <1>3, <2>3, <2>4, <2>5 DEF Stored, Running, InStep, Grown, Looping
  <2> QED
    BY <1>2, <2>4, <2>5, HolderKeeps
<1>7. CASE RenewAfterPoll(d) \/ (PollResult(d) /\ Move(d, "failCall"))
  <2>1. /\ history' = history /\ run'.status = run.status /\ run'.parked = run.parked
        /\ \E p \in {"clear", "failCall"} : Move(d, p)
    BY <1>1, <1>7 DEF RenewAfterPoll, PollResult, Run
  <2>2. /\ Kept(d) /\ drv'[d].pc \in {"clear", "failCall"} /\ drv'[d].hist = drv[d].hist
        /\ drv'[d].parked = drv[d].parked
    BY <1>1, <2>1, MoveCarries
  <2>3. ASSUME Undisturbed PROVE Grown(history') /\ Stored' /\ InStep(drv[d])'
    BY <1>3, <2>1, <2>2, <2>3 DEF Stored, Running, InStep, Grown, Looping
  <2> QED
    BY <1>2, <2>2, <2>3, HolderKeeps
<1> QED
  BY <1>4, <1>5, <1>6, <1>7

\* A driver that has the answer to its call, or gives the call up.
LEMMA AnswerKeeps ==
    ASSUME IInv, Abreast, Undisturbed' => Undisturbed, NEW d \in Drivers,
           ClearParkedMcpTask(d) \/ Dispatch(d) \/ PushToolErrorResult(d) \/ StopNow(d)
    PROVE  Keeps
<1>1. /\ TypeOK /\ drv[d] \in Driver /\ run \in Run /\ drv[d].hist \in History
      /\ drv[d].pc \in {"clear", "dispatch", "failCall", "model", "wake"}
  BY DEF IInv, TypeOK, ClearParkedMcpTask, Dispatch, PushToolErrorResult, StopNow, At, Driver
<1>2. Holds(d) /\ drv[d].pc \in InHand
  BY <1>1 DEF Holds, Holding, InHand
<1>3. ASSUME Undisturbed
      PROVE  /\ Stored /\ InStep(drv[d]) /\ Running
             /\ run.parked \in {NoCall, drv[d].parked}
  <2>1. Stored /\ InStep(drv[d]) /\ Running
    BY <1>2, <1>3, HolderKnows
  <2> QED
    BY <1>1, <2>1 DEF InStep, Closing
<1>4. CASE (ClearParkedMcpTask(d) \/ Dispatch(d)) /\ drv'[d].pc = "answer"
  <2> DEFINE h == Answered(drv[d].hist, drv[d].parked)
             row == [drv[d] EXCEPT !.pc = "answer", !.parked = NoCall, !.hist = h]
             told(o) == [drv[d] EXCEPT !.pc = "answer", !.parked = NoCall, !.hist = h,
                                       !.outcome = o]
             awake == [drv[d] EXCEPT !.pc = "wake", !.fresh = TRUE]
  <2>0. awake.pc = "wake"
    BY <1>1 DEF Driver
  <2>1. /\ row.pc = "answer" /\ row.hist = h /\ row.parked = NoCall
        /\ \A o : told(o).pc = "answer" /\ told(o).hist = h /\ told(o).parked = NoCall
    <3> HIDE DEF h
    <3> QED
      BY <1>1 DEF Driver
  <2>2. /\ history' = history
        /\ \/ Move(d, "failCall")
           \/ drv' = [drv EXCEPT ![d] = awake]
           \/ drv' = [drv EXCEPT ![d] = row]
           \/ \E o : drv' = [drv EXCEPT ![d] = told(o)]
        /\ run' = [run EXCEPT !.parked = NoCall] \/ (At(d, "dispatch") /\ run' = run)
    <3> HIDE DEF h
    <3> QED
      BY <1>4 DEF ClearParkedMcpTask, Dispatch, h
  <2>4. /\ drv[d].hist.answers \subseteq h.answers /\ h.said = drv[d].hist.said
        /\ (Truthful(drv[d].hist.answers) /\ Fits(drv[d].hist, drv[d].parked)) => Truthful(h.answers)
    BY <1>1, AnsweredAdds DEF Fits
  <2> HIDE DEF row, told, h, awake
  <2>5. drv' = [drv EXCEPT ![d] = row] \/ \E o : drv' = [drv EXCEPT ![d] = told(o)]
    BY <1>1, <1>4, <2>0, <2>2, MoveCarries, RowTo
  <2>6. /\ Kept(d) /\ drv'[d].pc = "answer" /\ drv'[d].hist = h /\ drv'[d].parked = NoCall
    BY <1>1, <2>1, <2>5, RowTo
  <2>7. ASSUME Undisturbed PROVE Grown(history') /\ Stored' /\ InStep(drv[d])'
    <3>1. run'.status = run.status /\ run'.parked = NoCall
      BY <1>1, <1>3, <2>2, <2>7, ParkLemma DEF InStep, At
    <3>2. Stored'
      BY <1>3, <2>2, <2>7, <3>1 DEF Stored, Running, Fits
    <3>3. InStep(drv[d])'
      BY <1>3, <2>2, <2>4, <2>6, <2>7, <3>1 DEF InStep, Grown, Fits, Looping
    <3> QED
      BY <2>2, <3>2, <3>3 DEF Grown
  <2> QED
    BY <1>2, <2>6, <2>7, HolderKeeps
<1>5. CASE (ClearParkedMcpTask(d) \/ Dispatch(d)) /\ Move(d, "failCall")
  <2>1. /\ Kept(d) /\ drv'[d].pc = "failCall" /\ drv'[d].hist = drv[d].hist
        /\ drv'[d].parked = drv[d].parked
    BY <1>1, <1>5, MoveCarries
  <2>2. history' = history /\ run'.status = run.status /\ run'.parked \in {NoCall, run.parked}
    BY <1>1, <1>5 DEF ClearParkedMcpTask, Dispatch, Run
  <2>3. ASSUME Undisturbed PROVE Grown(history') /\ Stored' /\ InStep(drv[d])'
    BY <1>3, <2>1, <2>2, <2>3 DEF Stored, Running, InStep, Grown, Fits, Looping
  <2> QED
    BY <1>2, <2>1, <2>3, HolderKeeps
<1>6. CASE Dispatch(d) /\ drv'[d].pc = "wake"
  <2> DEFINE row == [drv[d] EXCEPT !.pc = "wake", !.fresh = TRUE]
             last(o) == [drv[d] EXCEPT !.pc = "answer", !.parked = NoCall,
                                       !.hist = Answered(drv[d].hist, drv[d].parked),
                                       !.outcome = o]
  <2>1. /\ row.pc = "wake" /\ row.hist = drv[d].hist /\ row.parked = drv[d].parked
        /\ \A o : last(o).pc = "answer"
    BY <1>1 DEF Driver
  <2>2. /\ UNCHANGED <<run, history>> /\ At(d, "dispatch")
        /\ \/ Move(d, "failCall") \/ drv' = [drv EXCEPT ![d] = row]
           \/ \E o : drv' = [drv EXCEPT ![d] = last(o)]
    BY <1>6 DEF Dispatch
  <2> HIDE DEF row, last
  <2>3. /\ Kept(d) /\ drv'[d].hist = drv[d].hist /\ drv'[d].parked = drv[d].parked
    BY <1>1, <1>6, <2>1, <2>2, RowTo, MoveCarries
  <2>4. ASSUME Undisturbed PROVE Grown(history') /\ Stored' /\ InStep(drv[d])'
    BY <1>3, <1>6, <2>2, <2>3, <2>4 DEF Stored, Running, InStep, Grown, Looping, At
  <2> QED
    BY <1>2, <2>3, <2>4, HolderKeeps
<1>7. CASE PushToolErrorResult(d) \/ StopNow(d)
  <2> DEFINE h == Answered(drv[d].hist, NoCall)
  <2>1. run' = run /\ history' = h /\ \E o \in {"failed", "stopped"} : Terminate(d, o, h)
    BY <1>7 DEF PushToolErrorResult, StopNow
  <2>2. /\ h.open = NoCall /\ drv[d].hist.answers \subseteq h.answers
        /\ h.said = drv[d].hist.said
        /\ Truthful(drv[d].hist.answers) => Truthful(h.answers)
    BY <1>1, AnsweredAdds
  <2> HIDE DEF h
  <2>3. /\ Kept(d) /\ drv'[d].pc = "drain" /\ drv'[d].hist = h /\ drv'[d].parked = NoCall
        /\ drv'[d].outcome # "none"
    BY <1>1, <2>1, TerminateCarries
  <2>4. ASSUME Undisturbed PROVE Grown(history') /\ Stored' /\ InStep(drv[d])'
    <3>1. Stored'
      BY <1>3, <2>1, <2>2, <2>4 DEF Stored, Running, InStep, Fits
    <3>2. InStep(drv[d])'
      BY <1>3, <2>1, <2>2, <2>3, <2>4 DEF InStep, Grown, Fits, Closing
    <3> QED
      BY <1>3, <2>1, <2>2, <2>4, <3>1, <3>2 DEF InStep, Grown
  <2> QED
    BY <1>2, <2>3, <2>4, HolderKeeps
<1>8. CASE (ClearParkedMcpTask(d) \/ Dispatch(d)) /\ drv'[d].pc \notin {"answer", "wake"}
  <2> DEFINE awake == [drv[d] EXCEPT !.pc = "wake", !.fresh = TRUE]
             last == [drv[d] EXCEPT !.pc = "answer", !.parked = NoCall,
                                    !.hist = Answered(drv[d].hist, drv[d].parked)]
             told(o) == [drv[d] EXCEPT !.pc = "answer", !.parked = NoCall,
                                       !.hist = Answered(drv[d].hist, drv[d].parked),
                                       !.outcome = o]
  <2>1. awake.pc = "wake" /\ last.pc = "answer" /\ \A o : told(o).pc = "answer"
    BY <1>1 DEF Driver
  <2>2. \/ Move(d, "failCall") \/ drv' = [drv EXCEPT ![d] = awake]
        \/ drv' = [drv EXCEPT ![d] = last]
        \/ \E o : drv' = [drv EXCEPT ![d] = told(o)]
    BY <1>8 DEF ClearParkedMcpTask, Dispatch
  <2> HIDE DEF awake, last, told
  <2> QED
    BY <1>1, <1>5, <1>8, <2>1, <2>2, RowTo
<1>9. ClearParkedMcpTask(d) => drv'[d].pc # "wake"
  <2> DEFINE last == [drv[d] EXCEPT !.pc = "answer", !.parked = NoCall,
                                    !.hist = Answered(drv[d].hist, drv[d].parked)]
  <2>1. last.pc = "answer"
    BY <1>1 DEF Driver
  <2>2. ClearParkedMcpTask(d) => Move(d, "failCall") \/ drv' = [drv EXCEPT ![d] = last]
    BY DEF ClearParkedMcpTask
  <2> HIDE DEF last
  <2> QED
    BY <1>1, <2>1, <2>2, RowTo, MoveCarries
<1> QED
  BY <1>4, <1>6, <1>7, <1>8, <1>9

\* A driver that takes the follow-ups in.
LEMMA DrainKeeps ==
    ASSUME IInv, Abreast, Undisturbed' => Undisturbed, NEW d \in Drivers,
           DrainSelect(d) \/ DrainDelete(d)
    PROVE  Keeps
<1>1. /\ TypeOK /\ drv[d] \in Driver /\ drv[d].hist \in History
      /\ drv[d].pc \in {"drain", "drainDelete"} /\ UNCHANGED <<run, history>>
  BY DEF IInv, TypeOK, DrainSelect, DrainDelete, At, Driver
<1>2. Holds(d) /\ drv[d].pc \in InHand
  BY <1>1 DEF Holds, Holding, InHand
<1>3. ASSUME Undisturbed PROVE Grown(history') /\ Stored' /\ InStep(drv[d])
  BY <1>1, <1>2, <1>3, HolderKnows DEF Stored, Running, Grown
<1>4. CASE DrainSelect(d) /\ queue # {}
  <2> DEFINE h == [drv[d].hist EXCEPT !.said = @ \cup queue]
             row == [drv[d] EXCEPT !.pc = "drainDelete", !.hist = h]
  <2>1. /\ h.open = drv[d].hist.open /\ h.answers = drv[d].hist.answers
        /\ drv[d].hist.said \subseteq h.said
    BY <1>1 DEF History
  <2>2. /\ row.pc = "drainDelete" /\ row.hist = h /\ row.parked = drv[d].parked
        /\ row.outcome = drv[d].outcome
    <3> HIDE DEF h
    <3> QED
      BY <1>1 DEF Driver
  <2>3. drv' = [drv EXCEPT ![d] = row]
    BY <1>4 DEF DrainSelect
  <2> HIDE DEF row, h
  <2>4. /\ Kept(d) /\ drv'[d].pc = "drainDelete" /\ drv'[d].hist = h
        /\ drv'[d].parked = drv[d].parked /\ drv'[d].outcome = drv[d].outcome
    BY <1>1, <2>2, <2>3, RowTo
  <2>5. ASSUME Undisturbed PROVE InStep(drv[d])'
    BY <1>1, <1>3, <2>1, <2>4, <2>5 DEF InStep, Grown, Fits, Looping, Closing
  <2> QED
    BY <1>2, <1>3, <2>4, <2>5, HolderKeeps
<1>5. CASE DrainDelete(d) \/ (DrainSelect(d) /\ queue = {})
  <2>1. \E p \in {"drained", "model", "end"} :
           /\ Move(d, p)
           /\ p = "model" => drv[d].outcome = "none"
    BY <1>5 DEF DrainSelect, DrainDelete
  <2>2. /\ Kept(d) /\ drv'[d].pc \in {"drained", "model", "end"} /\ drv'[d].hist = drv[d].hist
        /\ drv'[d].parked = drv[d].parked /\ drv'[d].outcome = drv[d].outcome
        /\ drv'[d].pc = "model" => drv[d].outcome = "none"
    BY <1>1, <2>1, MoveCarries
  <2>3. ASSUME Undisturbed PROVE InStep(drv[d])'
    BY <1>1, <1>3, <2>2, <2>3 DEF InStep, Grown, Looping, Closing
  <2> QED
    BY <1>2, <1>3, <2>2, <2>3, HolderKeeps
<1> QED
  BY <1>4, <1>5

\* A turn of the model.
LEMMA ModelKeeps ==
    ASSUME IInv, Abreast, Undisturbed' => Undisturbed, NEW d \in Drivers,
           AssessTask(d) \/ EndTurn(d) \/ \E c \in Calls : CallTool(d, c)
    PROVE  Keeps
<1>1. /\ TypeOK /\ drv[d] \in Driver /\ drv[d].hist \in History /\ At(d, "model") /\ run' = run
  BY DEF IInv, TypeOK, AssessTask, EndTurn, CallTool, At, Driver
<1>2. Holds(d) /\ drv[d].pc \in InHand
  BY <1>1 DEF Holds, Holding, InHand, At
<1>3. ASSUME Undisturbed
      PROVE  Stored /\ InStep(drv[d]) /\ Running /\ run.parked = NoCall
  <2>1. Stored /\ InStep(drv[d]) /\ Running
    BY <1>2, <1>3, HolderKnows
  <2> QED
    BY <1>1, <2>1 DEF InStep, Closing, Looping, At
<1>4. CASE AssessTask(d) \/ EndTurn(d)
  <2>1. /\ history' \in {history, drv[d].hist}
        /\ \E o \in {"done", "failed"} : Terminate(d, o, drv[d].hist)
    BY <1>4 DEF AssessTask, EndTurn
  <2>2. /\ Kept(d) /\ drv'[d].pc = "drain" /\ drv'[d].hist = drv[d].hist
        /\ drv'[d].parked = NoCall
    BY <1>1, <2>1, TerminateCarries
  <2>3. ASSUME Undisturbed PROVE Grown(history') /\ Stored' /\ InStep(drv[d])'
    BY <1>1, <1>3, <2>1, <2>2, <2>3 DEF Stored, Running, InStep, Grown, Fits
  <2> QED
    BY <1>2, <2>2, <2>3, HolderKeeps
<1>5. ASSUME NEW c \in Calls, CallTool(d, c) PROVE Keeps
  <2> DEFINE h == [drv[d].hist EXCEPT !.open = c]
  <2>1. h.open = c /\ h.answers = drv[d].hist.answers /\ h.said = drv[d].hist.said
    BY <1>1 DEF History
  <2>3. history' = h
    BY <1>5 DEF CallTool
  <2>4. Kept(d) /\ drv'[d].pc = "dispatch" /\ drv'[d].hist = h /\ drv'[d].parked = c
    BY <1>1, <1>5, CallCarries
  <2> HIDE DEF h
  <2>5. ASSUME Undisturbed PROVE Grown(history') /\ Stored' /\ InStep(drv[d])'
    BY <1>1, <1>3, <2>1, <2>3, <2>4, <2>5
       DEF Stored, Running, InStep, Grown, Fits, Looping
  <2> QED
    BY <1>2, <2>4, <2>5, HolderKeeps
<1> QED
  BY <1>4, <1>5

\* A driver that ends its segment, and one that completes the row.
LEMMA EndKeeps ==
    ASSUME IInv, Abreast, Undisturbed' => Undisturbed, NEW d \in Drivers,
           \/ EndLoop(d) \/ CatchError(d)
           \/ (RecordOutcome(d) \/ CompleteRun(d)) /\ Holds(d)
    PROVE  Keeps
<1>1. TypeOK /\ drv[d] \in Driver /\ run \in Run /\ Holds(d)
  BY DEF IInv, TypeOK, EndLoop, CatchError, At, Holds, Holding
<1>2. CASE EndLoop(d)
  <2>1. /\ run' = run /\ history' \in {history, drv[d].hist} /\ At(d, "end")
        /\ Leave(d) \/ \E o : Finishing(d, "outcome", o)
    BY <1>2 DEF EndLoop
  <2>2. Kept(d) /\ drv'[d].pc \notin InHand
    BY <1>1, <2>1, LeaveTo, FinishTo DEF InHand, Holding
  <2>3. ASSUME Undisturbed PROVE Grown(history') /\ Stored'
    <3>1. Stored /\ InStep(drv[d]) /\ Running
      BY <1>1, <2>1, <2>3, HolderKnows DEF InHand, Holding, At
    <3> QED
      BY <2>1, <3>1 DEF Stored, Running, InStep, Fits, Grown, Looping, At
  <2> QED
    BY <1>1, <2>2, <2>3, HolderKeeps
<1>3. CASE CatchError(d)
  <2>1. /\ UNCHANGED <<run, history>>
        /\ Leave(d) \/ Finishing(d, "outcome", "failed") \/ Finishing(d, "release", "none")
    BY <1>3 DEF CatchError
  <2>2. Kept(d) /\ drv'[d].pc \notin InHand
    BY <1>1, <2>1, LeaveTo, FinishTo DEF InHand, Holding
  <2>3. ASSUME Undisturbed PROVE Grown(history') /\ Stored'
    BY <1>1, <2>1, <2>3, HolderKnows DEF Stored, Running, Grown
  <2> QED
    BY <1>1, <2>2, <2>3, HolderKeeps
<1>4. CASE RecordOutcome(d) /\ Holds(d)
  <2>1. /\ UNCHANGED <<run, history>>
        /\ \E p \in {"complete", "rescueComplete"} : Move(d, p)
    BY <1>4 DEF RecordOutcome
  <2>2. Kept(d) /\ drv'[d].pc \notin InHand
    BY <1>1, <2>1, MoveTo DEF InHand, Holding
  <2>3. ASSUME Undisturbed PROVE Grown(history') /\ Stored'
    BY <1>1, <2>1, <2>3, HolderKnows DEF Stored, Running, Grown
  <2> QED
    BY <1>1, <2>2, <2>3, HolderKeeps
<1>5. CASE CompleteRun(d) /\ Holds(d)
  <2>1. history' = history /\ run'.parked = NoCall /\ Finishing(d, "discard", "none")
    BY <1>1, <1>5 DEF CompleteRun, Run
  <2>2. Kept(d) /\ drv'[d].pc \notin InHand
    BY <1>1, <2>1, FinishTo DEF InHand, Holding
  <2>3. ASSUME Undisturbed PROVE Grown(history') /\ Stored'
    BY <1>1, <2>1, <2>3, HolderKnows DEF Stored, Grown, Fits
  <2> QED
    BY <1>1, <2>2, <2>3, HolderKeeps
<1> QED
  BY <1>2, <1>3, <1>4, <1>5

\* A step of a driver that has not the run in hand afterwards, and writes no transcript.
LEMMA OutsiderKeeps ==
    ASSUME Abreast, NEW d \in Drivers, Kept(d), drv'[d].pc \notin InHand,
           history' = history, Undisturbed' => Undisturbed,
           Undisturbed' => run'.parked = run.parked /\ (run'.status = run.status \/ Running')
    PROVE  Keeps
<1>1. \A e \in Drivers : drv'[e].pc \in InHand => drv'[e] = drv[e]
  BY DEF Kept
<1> QED
  BY <1>1, AloneKeeps

\* What a driver does before it claims a run, but for reopening it.
LEMMA ApproachKeeps ==
    ASSUME IInv, Abreast, Undisturbed' => Undisturbed, NEW d \in Drivers,
           \/ Arrive(d) \/ Sweep(d) \/ SetupFails(d) \/ ReadParked(d)
    PROVE  Keeps
<1>1. TypeOK /\ drv[d] \in Driver /\ run \in Run
  BY DEF IInv, TypeOK
<1>2. {"idle", "poll", "repark", "seize", "fetch", "setup", "claim", "reopen", "outcome"}
         \cap InHand = {}
  BY DEF InHand, Holding
<1>3. CASE ListClaimable(d)
  <2> DEFINE row == [drv[d] EXCEPT !.pc = "poll", !.role = "sweep", !.parked = run.parked]
  <2>1. row.pc = "poll"
    BY <1>1 DEF Driver
  <2>2. drv' = [drv EXCEPT ![d] = row] /\ UNCHANGED <<run, history>>
    BY <1>3 DEF ListClaimable
  <2> HIDE DEF row
  <2> QED
    BY <1>1, <1>2, <2>1, <2>2, RowTo, OutsiderKeeps
<1>4. CASE FetchHistory(d)
  <2> DEFINE row == [drv[d] EXCEPT !.pc = "setup", !.role = "resume", !.hist = history]
  <2>1. row.pc = "setup"
    BY <1>1 DEF Driver
  <2>2. drv' = [drv EXCEPT ![d] = row] /\ UNCHANGED <<run, history>>
    BY <1>4 DEF FetchHistory
  <2> HIDE DEF row
  <2> QED
    BY <1>1, <1>2, <2>1, <2>2, RowTo, OutsiderKeeps
<1>5. CASE ReadParked(d)
  <2> DEFINE row == [drv[d] EXCEPT !.pc = "claim", !.parked = run.parked]
  <2>1. row.pc = "claim"
    BY <1>1 DEF Driver
  <2>2. drv' = [drv EXCEPT ![d] = row] /\ UNCHANGED <<run, history>>
    BY <1>5 DEF ReadParked
  <2> HIDE DEF row
  <2> QED
    BY <1>1, <1>2, <2>1, <2>2, RowTo, OutsiderKeeps
<1>6. ASSUME NEW said, ReadContinuation(d, said) PROVE Keeps
  <2> DEFINE h == [history EXCEPT !.said = @ \cup said]
             row == [drv[d] EXCEPT !.pc = "reopen", !.role = "resume", !.hist = h]
  <2>1. row.pc = "reopen"
    <3> HIDE DEF h
    <3> QED
      BY <1>1 DEF Driver
  <2>2. drv' = [drv EXCEPT ![d] = row] /\ UNCHANGED <<run, history>>
    BY <1>6 DEF ReadContinuation
  <2> HIDE DEF row
  <2> QED
    BY <1>1, <1>2, <2>1, <2>2, RowTo, OutsiderKeeps
<1>7. CASE Launch(d)
  <2>1. /\ history' = history /\ run'.parked = run.parked /\ Running' /\ Move(d, "setup")
    BY <1>1, <1>7 DEF Launch, Run, Running
  <2> QED
    BY <1>1, <1>2, <2>1, MoveTo, OutsiderKeeps
<1>8. CASE PollPending(d) \/ PollTerminal(d) \/ PollFailed(d) \/ SetupFails(d)
  <2>1. /\ UNCHANGED <<run, history>>
        /\ Leave(d) \/ \E p \in {"repark", "fetch", "seize"} : Move(d, p)
    BY <1>8 DEF PollPending, PollTerminal, PollFailed, SetupFails
  <2> QED
    BY <1>1, <1>2, <2>1, MoveTo, LeaveTo, OutsiderKeeps
<1>9. CASE Repark(d)
  <2>1. /\ history' = history /\ Leave(d) /\ Overtaken(run' # run)
    BY <1>9 DEF Repark
  <2>2. Undisturbed' => run' = run
    BY <2>1 DEF Undisturbed, Overtaken
  <2> QED
    BY <1>1, <1>2, <2>1, <2>2, LeaveTo, OutsiderKeeps
<1>10. CASE Seize(d)
  <2>1. /\ history' = history /\ run'.parked = run.parked /\ run'.status = run.status
        /\ Leave(d) \/ Finishing(d, "outcome", "failed")
    BY <1>1, <1>10 DEF Seize, Run
  <2> QED
    BY <1>1, <1>2, <2>1, LeaveTo, FinishTo, OutsiderKeeps
<1> QED
  BY <1>3, <1>4, <1>5, <1>6, <1>7, <1>8, <1>9, <1>10 DEF Arrive, Sweep

\* Reopening and claiming: what is not noted took up the run that was read.
LEMMA TakeUpKeeps ==
    ASSUME IInv, Abreast, Undisturbed' => Undisturbed, NEW d \in Drivers,
           Reopen(d) \/ ClaimRun(d)
    PROVE  Keeps
<1>1. TypeOK /\ drv[d] \in Driver /\ run \in Run
  BY DEF IInv, TypeOK
<1>2. CASE Leave(d)
  <2>2. drv'[d].pc = "idle" /\ Kept(d)
    BY <1>1, <1>2, LeaveTo
  <2>3. ~Move(d, "setup") /\ ~Move(d, "connect")
    BY <1>1, <2>2, MoveTo
  <2>4. history' = history /\ run' = run
    BY <2>3 DEF Reopen, ClaimRun
  <2> QED
    BY <2>2, <2>4, OutsiderKeeps DEF InHand, Holding
<1>3. CASE Reopen(d) /\ ~Leave(d)
  <2>1. /\ run.status = "completed" /\ history' = drv[d].hist
        /\ Overtaken(~IsCurrent(drv[d].hist)) /\ Move(d, "setup")
        /\ run' = [run EXCEPT !.status = "running", !.outcome = "none"]
    BY <1>3 DEF Reopen
  <2>2. Kept(d) /\ drv'[d].pc = "setup"
    BY <1>1, <2>1, MoveTo
  <2>3. run'.parked = run.parked
    BY <1>1, <2>1 DEF Run
  <2>4. run.parked = NoCall
    BY <2>1 DEF IInv, CompletedIsReleased
  <2>5. ASSUME Undisturbed' PROVE Grown(history') /\ Stored'
    <3>1. Undisturbed /\ Stored
      BY <2>5 DEF Abreast
    <3>2. IsCurrent(drv[d].hist)
      BY <2>1, <2>5 DEF Undisturbed, Overtaken
    <3> QED
      BY <2>1, <2>3, <2>4, <3>1, <3>2 DEF IsCurrent, Stored, Fits, Grown
  <2>6. ASSUME Undisturbed', NEW e \in Drivers PROVE drv'[e].pc \notin InHand
    <3>1. ~Holds(e)
      BY <2>1, <2>6, NobodyHolds DEF Undisturbed, Running
    <3> QED
      BY <2>2, <3>1 DEF Kept, Holds, InHand, Holding
  <2> QED
    BY <2>5, <2>6 DEF Keeps, Abreast
<1>4. CASE ClaimRun(d) /\ ~Leave(d)
  <2>1. /\ Claimable /\ history' = history /\ Move(d, "connect")
        /\ run' = [run EXCEPT !.owner = Home[d], !.live = TRUE]
        /\ Overtaken(~IsCurrent(drv[d].hist) \/ drv[d].parked # run.parked)
    BY <1>4 DEF ClaimRun
  <2>2. /\ Kept(d) /\ drv'[d].pc = "connect" /\ drv'[d].hist = drv[d].hist
        /\ drv'[d].parked = drv[d].parked
    BY <1>1, <2>1, MoveCarries
  <2>3. run'.parked = run.parked /\ run'.status = run.status
    BY <1>1, <2>1 DEF Run
  <2>4. ASSUME Undisturbed' PROVE Grown(history') /\ Stored'
    BY <2>1, <2>3, <2>4 DEF Abreast, Stored, Running, Grown
  <2>5. ASSUME Undisturbed', NEW e \in Drivers, drv'[e].pc \in InHand PROVE InStep(drv[e])'
    <3>1. ~Holds(e)
      BY <2>1, <2>5, NobodyHolds DEF Undisturbed
    <3>2. e = d
      BY <2>2, <2>5, <3>1 DEF Kept, Holds, InHand
    <3>3. IsCurrent(drv[d].hist) /\ drv[d].parked = run.parked /\ Stored
      BY <2>1, <2>5 DEF Undisturbed, Overtaken, Abreast
    <3> QED
      BY <2>1, <2>2, <2>3, <3>2, <3>3 DEF IsCurrent, Stored, InStep, Grown, Fits, Looping
  <2> QED
    BY <2>4, <2>5 DEF Keeps, Abreast
<1> QED
  BY <1>2, <1>3, <1>4

\* After the completion, and beside the work.
LEMMA TailKeeps ==
    ASSUME IInv, Abreast, Undisturbed' => Undisturbed, NEW d \in Drivers,
           \/ (RecordOutcome(d) \/ CompleteRun(d)) /\ ~Holds(d)
           \/ DiscardFollowUps(d) \/ ReleaseRun(d) \/ Rescue(d)
    PROVE  Keeps
<1>1. TypeOK /\ drv[d] \in Driver /\ run \in Run
  BY DEF IInv, TypeOK
<1>2. {"idle", "discard", "release", "rescue", "complete", "rescueOutcome", "rescueComplete"}
         \cap InHand = {}
  BY DEF InHand, Holding
<1>3. CASE RecordOutcome(d)
  <2>1. /\ UNCHANGED <<run, history>>
        /\ \E p \in {"complete", "rescueComplete"} : Move(d, p)
    BY <1>3 DEF RecordOutcome
  <2> QED
    BY <1>1, <1>2, <2>1, MoveTo, OutsiderKeeps
<1>4. CASE CompleteRun(d) /\ ~Holds(d)
  <2>1. /\ history' = history /\ Finishing(d, "discard", "none") /\ drv[d].pc = "rescueComplete"
        /\ slips' = slips
    BY <1>4 DEF CompleteRun, Holds, Holding, counters
  <2>2. ~Undisturbed'
    BY <2>1 DEF IInv, RescueIsSlip, Undisturbed
  <2> QED
    BY <1>1, <1>2, <2>1, <2>2, FinishTo, OutsiderKeeps
<1>5. CASE DiscardFollowUps(d) \/ ReleaseRun(d)
  <2>1. /\ history' = history /\ run'.parked = run.parked /\ run'.status = run.status
        /\ Leave(d) \/ Move(d, "release") \/ Move(d, "rescue")
    BY <1>1, <1>5 DEF DiscardFollowUps, ReleaseRun, Run
  <2> QED
    BY <1>1, <1>2, <2>1, MoveTo, LeaveTo, OutsiderKeeps
<1>6. CASE Rescue(d)
  <2> DEFINE row == [drv[d] EXCEPT !.pc = "rescueOutcome", !.role = "sweep",
                                   !.outcome = "failed"]
  <2>1. row.pc = "rescueOutcome"
    BY <1>1 DEF Driver
  <2>2. UNCHANGED <<run, history>> /\ (Leave(d) \/ drv' = [drv EXCEPT ![d] = row])
    BY <1>6 DEF Rescue
  <2> HIDE DEF row
  <2> QED
    BY <1>1, <1>2, <2>1, <2>2, RowTo, LeaveTo, OutsiderKeeps
<1> QED
  BY <1>3, <1>4, <1>5, <1>6

LEMMA BesideKeeps ==
    ASSUME IInv, Abreast, Undisturbed' => Undisturbed,
           Environment \/ (\E d \in Drivers : Beat(d)) \/ UNCHANGED vars
    PROVE  Keeps
<1>1. TypeOK /\ run \in Run /\ drv \in [Drivers -> Driver]
  BY DEF IInv, TypeOK
<1>2. ASSUME NEW d \in Drivers, LoseLease(d) PROVE Keeps
  <2> DEFINE row == [drv[d] EXCEPT !.lost = TRUE]
  <2>1. /\ row.pc = drv[d].pc /\ row.hist = drv[d].hist /\ row.parked = drv[d].parked
        /\ row.outcome = drv[d].outcome
    BY <1>1 DEF Driver
  <2>2. drv' = [drv EXCEPT ![d] = row] /\ UNCHANGED <<run, history>>
    BY <1>2 DEF LoseLease
  <2> HIDE DEF row
  <2>3. Kept(d) /\ drv'[d] = row
    BY <1>1, <2>2, RowTo
  <2>4. \A e \in Drivers : /\ drv'[e].pc = drv[e].pc /\ drv'[e].hist = drv[e].hist
                           /\ drv'[e].parked = drv[e].parked /\ drv'[e].outcome = drv[e].outcome
    BY <2>1, <2>3 DEF Kept
  <2> QED
    BY <2>2, <2>4, AloneKeeps
<1>3. ASSUME NEW r \in Replicas, Crash(r) PROVE Keeps
  <2>1. \A e \in Drivers : drv'[e] = drv[e] \/ drv'[e].pc = "idle"
    BY <1>3, IdleLemma DEF Crash
  <2>2. \A e \in Drivers : drv'[e].pc \in InHand => drv'[e] = drv[e]
    BY <2>1 DEF InHand, Holding
  <2>3. UNCHANGED <<run, history>>
    BY <1>3 DEF Crash
  <2> QED
    BY <2>2, <2>3, AloneKeeps
<1>4. CASE \/ \E m \in Messages : SelectParked(m) \/ InsertFollowUp(m)
           \/ \E c \in Calls : ToriiSettles(c)
           \/ Lapse \/ (\E d \in Drivers : Renew(d)) \/ UNCHANGED vars
  <2>1. /\ UNCHANGED <<history, drv>> /\ run'.parked = run.parked /\ run'.status = run.status
    BY <1>1, <1>4 DEF SelectParked, InsertFollowUp, ToriiSettles, Lapse, Renew, vars, Run
  <2> QED
    BY <2>1, AloneKeeps
<1> QED
  BY <1>2, <1>3, <1>4 DEF Environment, Beat

LEMMA NextKeeps == IInv /\ Abreast /\ [Next]_vars => Keeps
<1> SUFFICES ASSUME IInv, Abreast, [Next]_vars PROVE Keeps
  OBVIOUS
<1>1. Undisturbed' => Undisturbed
  BY StillUndisturbed
<1>2. CASE Environment \/ UNCHANGED vars
  BY <1>1, <1>2, BesideKeeps
<1>3. ASSUME NEW d \in Drivers,
             Arrive(d) \/ Begin(d) \/ Sweep(d) \/ Drive(d) \/ Finish(d) \/ Beat(d)
      PROVE  Keeps
  <2>1. CASE Arrive(d) \/ Begin(d) \/ Sweep(d)
    BY <1>1, <2>1, ApproachKeeps, TakeUpKeeps DEF Begin
  <2>2. CASE Drive(d)
    BY <1>1, <2>2, ConnectKeeps, CheckpointKeeps, WaitKeeps, AnswerKeeps, DrainKeeps, ModelKeeps
       DEF Drive
  <2>3. CASE Finish(d)
    BY <1>1, <2>3, EndKeeps, TailKeeps DEF Finish
  <2>4. CASE Beat(d)
    BY <1>1, <2>4, BesideKeeps
  <2> QED
    BY <1>3, <2>1, <2>2, <2>3, <2>4
<1> QED
  BY <1>2, <1>3 DEF Next

\* The driver that has an undisturbed run agrees with the store.
THEOREM TranscriptInvariance == Spec => []Abreast
<1>1. Init => Abreast
  <2> SUFFICES ASSUME Init PROVE Abreast
    OBVIOUS
  <2>1. \A d \in Drivers : drv[d].pc \notin InHand
    BY IdleLemma DEF Init, InHand, Holding
  <2>2. Stored
    BY DEF Init, Stored, EmptyHistory, Truthful, Fits
  <2> QED
    BY <2>1, <2>2 DEF Abreast
<1>2. IInv /\ Abreast /\ [Next]_vars => Abreast'
  BY NextKeeps DEF Keeps
<1> QED
  BY <1>1, <1>2, Invariance, PTL DEF Spec

\* No call of an undisturbed run has another call's answer.
THEOREM AnswersAreOwn == Spec => []OwnAnswer
<1>1. Abreast => OwnAnswer
  BY DEF Abreast, Undisturbed, Stored, Truthful, OwnAnswer, AnsweredByOwnTask
<1> QED
  BY <1>1, TranscriptInvariance, PTL

\* Nothing stored of an undisturbed run's transcript is lost.
THEOREM NothingUnwritten == Spec => TranscriptKept
<1>1. IInv /\ Abreast /\ [Next]_vars =>
        [slips' = {} /\ ~overtaken' =>
           history.answers \subseteq history'.answers /\ history.said \subseteq history'.said]_vars
  BY NextKeeps DEF Keeps, Undisturbed, Grown
<1> QED
  BY <1>1, Invariance, TranscriptInvariance, PTL DEF Spec, TranscriptKept

-----------------------------------------------------------------------------
(* How a run comes to be left alone.                                       *)

\* Replicas die one at a time.
LEMMA CrashesStay ==
    ASSUME IInv, [Next]_vars
    PROVE  crashes' = crashes \/ crashes' = crashes + 1
<1>1. ASSUME NEW d \in Drivers, Arrive(d) \/ Begin(d) \/ Sweep(d)
      PROVE  crashes' = crashes
  BY <1>1 DEF Arrive, Begin, Sweep, Launch, ListClaimable, ReadContinuation, Reopen,
     SetupFails, ReadParked, ClaimRun, PollPending, PollTerminal, PollFailed, Repark, Seize,
     FetchHistory, counters
<1>2. ASSUME NEW d \in Drivers, Drive(d)
      PROVE  crashes' = crashes
  BY <1>2 DEF Drive, Connect, ConnectFails, Checkpoint, SetParkedMcpTask, Hibernate, PollResult,
     RenewAfterPoll, ClearParkedMcpTask, AppendToolResult, PushToolErrorResult, DrainSelect,
     DrainDelete, CheckpointDrained, CallTool, AssessTask, EndTurn, Dispatch, StopNow, counters
<1>3. ASSUME NEW d \in Drivers, Finish(d) \/ Beat(d)
      PROVE  crashes' = crashes
  BY <1>3 DEF Finish, Beat, EndLoop, CatchError, RecordOutcome, CompleteRun, DiscardFollowUps,
     ReleaseRun, Rescue, Renew, LoseLease, counters
<1>4. CASE Environment
  BY <1>4 DEF Environment, SelectParked, InsertFollowUp, ToriiSettles, Crash, Lapse, counters
<1> QED
  BY <1>1, <1>2, <1>3, <1>4 DEF Next, vars

\* Nobody has died, and no lease was taken from its holder.
Untroubled == crashes = 0 /\ slips = {}

LEMMA StillUntroubled ==
    ASSUME IInv, [Next]_vars, Untroubled'
    PROVE  Untroubled /\ crashes' = crashes
BY CrashesStay, SlipsStay DEF Untroubled, IInv, TypeOK

\* A lease on a running run that waits for nothing is its driver's.
Leased == /\ run.status = "none" => run.owner = NoOne
          /\ (Untroubled /\ Running /\ run.owner # NoOne /\ run.parked = NoCall)
               => \E e \in Drivers : Holds(e)

\* A run that is not launched stays without a lease.
LEMMA LaunchedFirst ==
    ASSUME IInv, [Next]_vars, run'.status = "none"
    PROVE  run.status = "none" /\ run'.owner \in {run.owner, NoOne}
<1>1. run \in Run
  BY DEF IInv, TypeOK
<1>2. ASSUME NEW d \in Drivers, Arrive(d) \/ Begin(d) \/ Sweep(d)
      PROVE  run.status = "none" /\ run'.owner \in {run.owner, NoOne}
  BY <1>1, <1>2 DEF Arrive, Begin, Sweep, Launch, ListClaimable, ReadContinuation, Reopen,
     SetupFails, ReadParked, ClaimRun, PollPending, PollTerminal, PollFailed, Repark, Seize,
     FetchHistory, Run, Claimable, Running
<1>3. ASSUME NEW d \in Drivers, Drive(d)
      PROVE  run.status = "none" /\ run'.owner \in {run.owner, NoOne}
  BY <1>1, <1>3 DEF Drive, Connect, ConnectFails, Checkpoint, SetParkedMcpTask, Hibernate,
     PollResult, RenewAfterPoll, ClearParkedMcpTask, AppendToolResult, PushToolErrorResult,
     DrainSelect, DrainDelete, CheckpointDrained, CallTool, AssessTask, EndTurn, Dispatch,
     StopNow, Run
<1>4. ASSUME NEW d \in Drivers, Finish(d) \/ Beat(d)
      PROVE  run.status = "none" /\ run'.owner \in {run.owner, NoOne}
  BY <1>1, <1>4 DEF Finish, Beat, EndLoop, CatchError, RecordOutcome, CompleteRun,
     DiscardFollowUps, ReleaseRun, Rescue, Renew, LoseLease, Run
<1>5. CASE Environment
  BY <1>1, <1>5 DEF Environment, SelectParked, InsertFollowUp, ToriiSettles, Crash, Lapse, Run
<1> QED
  BY <1>2, <1>3, <1>4, <1>5 DEF Next, vars

\* A driver that is about to claim the run goes on to claim it, unless what precedes throws
\* or another has the lease.
Approaches ==
    \A e \in Drivers : drv[e].pc \in {"setup", "claim"} =>
       \/ drv'[e].pc \in {"setup", "claim"}
       \/ SetupFails(e)
       \/ At(e, "claim") /\ ~Claimable

\* The ways in which a run that nobody has may change.
LetBe == /\ run'.status = run.status /\ run'.parked = run.parked
         /\ run'.owner \in {run.owner, NoOne} /\ Approaches
Parks == run'.parked # NoCall
Reopens == /\ run.status # "running" /\ run'.status = "running" /\ run'.owner = run.owner
           /\ \E e \in Drivers : drv'[e].pc = "setup"
Taken == \E e \in Drivers : Holds(e)'

LEMMA OutsideStep ==
    ASSUME LInv, [Next]_vars, Untroubled', \A e \in Drivers : ~Holds(e)
    PROVE  LetBe \/ Parks \/ Reopens \/ Taken
<1>1. /\ TypeOK /\ run \in Run /\ drv \in [Drivers -> Driver] /\ Untroubled /\ crashes' = crashes
      /\ TypeOK'
  BY StillUntroubled, NextIInv DEF LInv, IInv, TypeOK
\* A driver that is not about to claim leaves the others' approach alone.
<1>2. ASSUME NEW d \in Drivers, Kept(d), drv[d].pc \notin {"setup", "claim"},
             run'.status = run.status, run'.parked = run.parked,
             run'.owner \in {run.owner, NoOne}
      PROVE  LetBe
  BY <1>2 DEF LetBe, Approaches, Kept
<1>3. CASE \/ \E m \in Messages : SelectParked(m) \/ InsertFollowUp(m)
           \/ \E c \in Calls : ToriiSettles(c)
           \/ Lapse \/ UNCHANGED vars \/ (\E d \in Drivers : Renew(d))
  <2>1. /\ drv' = drv /\ run'.parked = run.parked /\ run'.status = run.status
        /\ run'.owner = run.owner
    BY <1>1, <1>3 DEF SelectParked, InsertFollowUp, ToriiSettles, Lapse, Renew, vars, Run
  <2> QED
    BY <2>1 DEF LetBe, Approaches
<1>4. ~\E r \in Replicas : Crash(r)
  BY <1>1 DEF Crash, TypeOK
<1>5. ASSUME NEW d \in Drivers, ListClaimable(d) \/ PollPending(d) \/ Repark(d)
      PROVE  LetBe \/ Parks
  <2>1. Kept(d) /\ drv[d].pc \in {"idle", "poll", "repark"}
    BY <1>1, <1>5, SlipsStay, ParkSteps DEF Handed, ListClaimable, PollPending, Repark, At
  <2>2. CASE run' = run
    BY <1>2, <2>1, <2>2
  <2>3. CASE run' # run
    <3>1. Repark(d) /\ run' = [run EXCEPT !.parked = drv[d].parked] /\ At(d, "repark")
      BY <1>5, <2>3 DEF ListClaimable, PollPending, Repark
    <3>2. drv[d].parked # NoCall
      BY <1>1, <3>1 DEF LInv, Handover, Carried, At, Untroubled
    <3> QED
      BY <1>1, <3>1, <3>2 DEF Parks, Run
  <2> QED
    BY <2>2, <2>3
<1>6. ASSUME NEW d \in Drivers, Launch(d) \/ Reopen(d)
      PROVE  LetBe \/ Reopens
  <2>1. CASE Leave(d) /\ run' = run
    BY <1>1, <1>2, <1>6, <2>1, LeaveTo DEF Launch, Reopen, At
  <2>2. CASE Move(d, "setup") /\ run' # run
    <3>1. run.status # "running" /\ run'.status = "running" /\ run'.owner = run.owner
      BY <1>1, <1>6, <2>2 DEF Launch, Reopen, Run
    <3> QED
      BY <1>1, <2>2, <3>1, MoveTo DEF Reopens
  <2>3. \/ Leave(d) /\ run' = run
        \/ Move(d, "setup") /\ run' # run
    BY <1>1, <1>6 DEF Launch, Reopen, Run
  <2> QED
    BY <2>1, <2>2, <2>3
<1>7. ASSUME NEW d \in Drivers,
             \/ PollTerminal(d) \/ PollFailed(d) \/ FetchHistory(d)
             \/ \E said : ReadContinuation(d, said)
      PROVE  LetBe
  <2>1. Kept(d) /\ run' = run /\ drv[d].pc \in {"poll", "fetch", "idle"}
    BY <1>1, <1>7, ApproachTurn DEF Turn, PollTerminal, PollFailed, FetchHistory,
       ReadContinuation, At
  <2> QED
    BY <1>2, <2>1
<1>8. ASSUME NEW d \in Drivers, SetupFails(d) \/ ReadParked(d)
      PROVE  LetBe
  <2>1. Kept(d) /\ run' = run
    BY <1>1, <1>8, ApproachTurn DEF Turn, SetupFails, ReadParked
  <2>2. SetupFails(d) \/ drv'[d].pc = "claim"
    <3> DEFINE row == [drv[d] EXCEPT !.pc = "claim", !.parked = run.parked]
    <3>1. row.pc = "claim"
      BY <1>1 DEF Driver
    <3>2. ReadParked(d) => drv' = [drv EXCEPT ![d] = row]
      BY DEF ReadParked
    <3> HIDE DEF row
    <3> QED
      BY <1>1, <1>8, <3>1, <3>2, RowTo
  <2> QED
    BY <2>1, <2>2 DEF LetBe, Approaches, Kept
<1>9. ASSUME NEW d \in Drivers, ClaimRun(d) \/ Seize(d)
      PROVE  LetBe \/ Taken
  <2>1. CASE Claimable
    <3>1. Move(d, "connect") \/ Finishing(d, "outcome", "failed")
      BY <1>9, <2>1 DEF ClaimRun, Seize
    <3>2. drv'[d].pc \in {"connect", "outcome"}
      BY <1>1, <3>1, MoveTo, FinishTo
    <3> QED
      BY <3>2 DEF Taken, Holds, Holding
  <2>2. CASE ~Claimable
    <3>1. Leave(d) /\ run' = run /\ drv[d].pc \in {"claim", "seize"}
      BY <1>9, <2>2 DEF ClaimRun, Seize, At
    <3>2. Kept(d)
      BY <1>1, <3>1, LeaveTo
    <3> QED
      BY <2>2, <3>1, <3>2 DEF LetBe, Approaches, Kept, At
  <2> QED
    BY <2>1, <2>2
<1>10. ASSUME NEW d \in Drivers PROVE ~Drive(d) /\ ~EndLoop(d) /\ ~CatchError(d)
  BY DEF Drive, Connect, ConnectFails, Checkpoint, SetParkedMcpTask, Hibernate, PollResult,
     RenewAfterPoll, ClearParkedMcpTask, AppendToolResult, PushToolErrorResult, DrainSelect,
     DrainDelete, CheckpointDrained, CallTool, AssessTask, EndTurn, Dispatch, StopNow,
     EndLoop, CatchError, At, Holds, Holding
<1>11. ASSUME NEW d \in Drivers PROVE ~RecordOutcome(d) /\ ~CompleteRun(d)
  <2>1. drv[d].pc \notin {"rescueOutcome", "rescueComplete", "outcome", "complete"}
    BY <1>1 DEF LInv, IInv, RescueIsSlip, Untroubled, Holds, Holding
  <2> QED
    BY <2>1 DEF RecordOutcome, CompleteRun
<1>12. ASSUME NEW d \in Drivers, DiscardFollowUps(d) \/ ReleaseRun(d) \/ Rescue(d)
       PROVE  LetBe
  <2>1. /\ Kept(d) /\ drv[d].pc \in {"discard", "release", "rescue"}
        /\ run'.status = run.status /\ run'.parked = run.parked
    BY <1>1, <1>12, TailTurn DEF Turn, Steady, DiscardFollowUps, ReleaseRun, Rescue, At
  <2>2. run'.owner \in {run.owner, NoOne}
    BY <1>1, <1>12 DEF DiscardFollowUps, ReleaseRun, Rescue, Run
  <2> QED
    BY <1>2, <2>1, <2>2
<1>13. ASSUME NEW d \in Drivers, LoseLease(d) PROVE LetBe
  <2> DEFINE row == [drv[d] EXCEPT !.lost = TRUE]
  <2>1. row.pc = drv[d].pc
    BY <1>1 DEF Driver
  <2>2. drv' = [drv EXCEPT ![d] = row] /\ run' = run
    BY <1>13 DEF LoseLease
  <2> HIDE DEF row
  <2>3. Kept(d) /\ drv'[d].pc = drv[d].pc
    BY <1>1, <2>1, <2>2, RowTo
  <2> QED
    BY <2>2, <2>3 DEF LetBe, Approaches, Kept
<1>14. ASSUME NEW d \in Drivers,
              Arrive(d) \/ Begin(d) \/ Sweep(d) \/ Drive(d) \/ Finish(d) \/ Beat(d)
       PROVE  LetBe \/ Parks \/ Reopens \/ Taken
  <2>1. CASE Arrive(d)
    BY <1>5, <1>6, <1>7, <2>1 DEF Arrive
  <2>2. CASE Begin(d)
    BY <1>6, <1>8, <1>9, <2>2 DEF Begin
  <2>3. CASE Sweep(d)
    BY <1>5, <1>7, <1>9, <2>3 DEF Sweep
  <2>4. CASE Finish(d) \/ Drive(d)
    BY <1>10, <1>11, <1>12, <2>4 DEF Finish
  <2>5. CASE Beat(d)
    BY <1>3, <1>13, <2>5 DEF Beat
  <2> QED
    BY <1>14, <2>1, <2>2, <2>3, <2>4, <2>5
<1> QED
  BY <1>3, <1>4, <1>14 DEF Next, Environment

\* With nobody dead, the lease of a run that waits for nothing is never left behind.
LEMMA NextLeased == LInv /\ Leased /\ [Next]_vars => Leased'
<1> SUFFICES ASSUME LInv, Leased, [Next]_vars PROVE Leased'
  OBVIOUS
<1>1. run'.status = "none" => run'.owner = NoOne
  BY LaunchedFirst DEF Leased, LInv
<1>2. ASSUME Untroubled', Running', run'.owner # NoOne, run'.parked = NoCall,
             \A e \in Drivers : ~Holds(e)'
      PROVE  FALSE
  <2>1. IInv /\ Untroubled /\ crashes' = crashes
    BY <1>2, StillUntroubled DEF LInv
  <2>2. \A e \in Drivers : ~Holds(e)
    BY <1>2, <2>1, LeftInOrder DEF Untroubled
  <2>3. LetBe \/ Parks \/ Reopens \/ Taken
    BY <1>2, <2>2, OutsideStep
  <2>4. CASE LetBe
    BY <1>2, <2>1, <2>2, <2>4 DEF LetBe, Leased, Running
  <2>5. CASE Reopens
    <3>1. run.owner = NoOne
      <4>1. run.status \in {"none", "completed"}
        BY <2>1, <2>5 DEF Reopens, IInv, TypeOK, Run
      <4> QED
        BY <2>1, <4>1 DEF Leased, IInv, CompletedIsReleased
    <3> QED
      BY <1>2, <2>5, <3>1 DEF Reopens
  <2> QED
    BY <1>2, <2>3, <2>4, <2>5 DEF Parks, Taken
<1> QED
  BY <1>1, <1>2 DEF Leased

\* A run that waits for nothing is left alone only where what precedes its drive throws.
THEOREM LeftAloneBySetup == Spec => OrphanedOnlyBySetup
<1> DEFINE LeftAlone == (Unattended' /\ ~Unattended /\ crashes' = 0 /\ slips' = {}) =>
                       \E d \in Drivers : At(d, "setup")
<1>1. Init => Leased
  BY DEF Init, Leased, Running
<1>2. LInv /\ Leased /\ [Next]_vars => [LeftAlone]_vars
  <2> SUFFICES ASSUME LInv, Leased, [Next]_vars, Unattended', ~Unattended, Untroubled'
               PROVE  \E d \in Drivers : At(d, "setup")
    BY DEF Untroubled
  <2>1. IInv /\ Untroubled /\ crashes' = crashes
    BY StillUntroubled DEF LInv
  <2>2. /\ Running' /\ run'.parked = NoCall
        /\ \A e \in Drivers : ~Holds(e)' /\ drv'[e].pc \notin {"setup", "claim"}
    BY DEF Unattended, Holds
  <2>3. \A e \in Drivers : ~Holds(e)
    BY <2>1, <2>2, LeftInOrder DEF Untroubled
  <2>4. LetBe
    BY <2>2, <2>3, OutsideStep DEF Parks, Reopens, Taken
  <2>5. Running /\ run.parked = NoCall
    BY <2>2, <2>4 DEF LetBe, Running
  <2>6. PICK e \in Drivers : drv[e].pc \in {"setup", "claim"}
    BY <2>3, <2>5 DEF Unattended, Holds
  <2>7. SetupFails(e) \/ ~Claimable
    BY <2>2, <2>4, <2>6 DEF LetBe, Approaches
  <2>8. Claimable
    BY <2>1, <2>3, <2>5 DEF Leased, Claimable
  <2> QED
    BY <2>7, <2>8 DEF SetupFails
<1>3. LInv /\ Leased /\ [Next]_vars => Leased'
  BY NextLeased
<1> QED
  BY <1>1, <1>2, <1>3, HandoverInvariance, PTL DEF Spec, OrphanedOnlyBySetup

-----------------------------------------------------------------------------
(***************************************************************************)
(* The run with Torii behind it.  GatedRun joins two machines and adds no  *)
(* behaviour to either: what it does to the run is RunLifecycle, and what  *)
(* it does to the call is what ApprovedCall allows.  So what is proved of  *)
(* the run alone holds of the run with Torii behind it, for any drivers,   *)
(* replicas and calls.                                                     *)
(*                                                                         *)
(* What neither machine says alone is for whom a call is executed.  It     *)
(* needs what each driver knows of the call it carries, what the row says  *)
(* of it and whether Torii has been asked (JointInv): the run waits for    *)
(* every open call that somebody polls.                                    *)
(***************************************************************************)

\* Shaiden's steps, each of which the run alone may take.
LEMMA ShaidenIsNext == Shaiden => Next
BY DEF Shaiden, Alone, Next, Environment

\* A new status of a task is one the run alone expects of Torii.
LEMMA StatusIsNext ==
    ASSUME NEW c \in Calls, NEW s \in {"done", "denied", "void"},
           \/ torii[c] = "open"
           \/ torii[c] \in {"done", "denied"} /\ s = "void",
           Status(c, s)
    PROVE  Next
<1>1. ToriiSettles(c)
  BY DEF Status, ToriiSettles
<1> QED
  BY <1>1 DEF Next, Environment

\* Asking, deciding and executing leave the run alone; all else is a step of the run.
LEMMA JointIsNext == [JointNext]_jointVars => [Next]_vars
<1> SUFFICES ASSUME [JointNext]_jointVars
             PROVE  Next \/ UNCHANGED vars
  OBVIOUS
<1>1. CASE Shaiden
  BY <1>1, ShaidenIsNext
<1>2. ASSUME NEW d \in Drivers, Asks(d)
      PROVE  UNCHANGED vars
  BY <1>2 DEF Asks
<1>3. ASSUME NEW c \in Calls, Decides(c)
      PROVE  UNCHANGED vars
  BY <1>3 DEF Decides
<1>4. ASSUME NEW c \in Calls, Refuses(c)
      PROVE  Next
  BY <1>4, StatusIsNext DEF Refuses
<1>5. ASSUME NEW c \in Calls, Looks(c)
      PROVE  UNCHANGED vars
  BY <1>5 DEF Looks
<1>6. ASSUME NEW c \in Calls, Executes(c)
      PROVE  UNCHANGED vars
  BY <1>6 DEF Executes
<1>7. ASSUME NEW c \in Calls, Answers(c)
      PROVE  Next \/ UNCHANGED vars
  BY <1>7, StatusIsNext DEF Answers
<1>8. ASSUME NEW c \in Calls, Expires(c)
      PROVE  Next
  BY <1>8, StatusIsNext DEF Expires
<1>9. CASE UNCHANGED jointVars
  BY <1>9 DEF jointVars
<1> QED
  BY <1>1, <1>2, <1>3, <1>4, <1>5, <1>6, <1>7, <1>8, <1>9 DEF JointNext, Serves

\* A run behind Torii is a run: its row, transcript, drivers and tasks change as in
\* RunLifecycle, and asking, deciding and executing change none of them.
THEOREM RunRefined == JointSpec => Spec
<1>1. JointInit => Init
  BY DEF JointInit
<1> QED
  BY <1>1, JointIsNext, PTL DEF JointSpec, Spec

\* Torii keeps its promise towards a run that parks, polls, dies and is continued: one
\* final decision, and one execution that follows an approval.
THEOREM PromiseKept == JointSpec => Torii!ASpec
<1>1. JointInit => Torii!AInit
  BY DEF JointInit
<1>2. [JointNext]_jointVars => [Torii!ANext]_(Torii!avars)
  <2> SUFFICES ASSUME [JointNext]_jointVars
               PROVE  Torii!ANext \/ UNCHANGED avars
    BY DEF avars, Torii!avars
  <2>1. CASE Shaiden
    BY <2>1 DEF Shaiden, Torii!ANext
  <2>2. ASSUME NEW d \in Drivers, Asks(d)
        PROVE  UNCHANGED avars
    BY <2>2 DEF Asks
  <2>3. ASSUME NEW c \in Calls, Decides(c)
        PROVE  Torii!ANext
    BY <2>3 DEF Decides, Torii!ANext
  <2>4. ASSUME NEW c \in Calls, Executes(c)
        PROVE  Torii!ANext
    BY <2>4 DEF Executes, Torii!ANext
  <2>5. ASSUME NEW c \in Calls, Refuses(c) \/ Looks(c) \/ Answers(c) \/ Expires(c)
        PROVE  UNCHANGED avars
    BY <2>5 DEF Refuses, Looks, Answers, Expires
  <2>6. CASE UNCHANGED jointVars
    BY <2>6 DEF jointVars
  <2> QED
    BY <2>1, <2>2, <2>3, <2>4, <2>5, <2>6 DEF JointNext, Serves
<1> QED
  BY <1>1, <1>2, PTL DEF JointSpec, Torii!ASpec

\* With Torii behind it the run still has one driver, which owns its row, until a lease
\* lapses or an unguarded write strikes.
THEOREM OneDriverJoint == JointSpec => []SoleDriver
BY RunRefined, OneDriver, PTL

-----------------------------------------------------------------------------
(* What the drivers know of the call they carry.                           *)

\* There is no call to wait for, Torii has done with it, or has turned a poll of it down.
Over(x) == \/ x = NoCall
           \/ torii[x] \in {"done", "denied", "void"}
           \/ torii[x] = "open" /\ x \in disowned

\* Torii has a task for the call.
Posted(x) == x \in Calls /\ torii[x] \in {"open", "done", "denied", "void"}

\* A poll is of the call that the run is parked on, while that is open; a driver that
\* goes on from a poll carries a call that is over; a call is parked again when it is
\* new or over; and whoever holds the run leaves no open call behind, except when
\* it has just parked one.
Informed(row) ==
    /\ row.pc = "poll" => /\ Posted(row.parked)
                          /\ torii[row.parked] = "open" =>
                                \/ Running /\ run.parked = row.parked
                                \/ row.parked \in disowned
    /\ row.pc = "repark" => Posted(row.parked)
    /\ row.pc \in {"idle", "reopen", "fetch", "setup", "seize", "claim", "connect",
                   "wait", "renew", "clear"} => Over(row.parked)
    /\ row.pc \in {"wake", "park"} => Posted(row.parked) /\ (row.fresh \/ Over(row.parked))
    /\ row.pc = "dispatch" => row.parked \in Calls /\ torii[row.parked] = "called"
    /\ row.pc \in Holding \ {"hibernate"} => Over(run.parked)

\* A run waits for the open call that Torii was asked for, or has given it up on a refusal.
Waited == \A c \in Calls :
    asked[c] # "no" /\ torii[c] = "open" => (Running /\ run.parked = c) \/ c \in disowned

Parked == /\ run.parked = NoCall \/ Posted(run.parked)
          /\ \A d \in Drivers : Informed(drv[d])
          /\ Waited

\* Nothing has taken the run from its driver, and no stale poll has struck.
Calm == slips = {} /\ ~strayed

\* Torii is asked only for a task it has, and executes only what was approved and has
\* not been answered.
Unasked == \A c \in Calls : torii[c] \in {"none", "called"} => asked[c] = "no"
Executing == \A c \in Calls : asked[c] = "executing" =>
                 decision[c] = "approved" /\ torii[c] \in {"open", "void"}

JointTypeOK == /\ Torii!ATypeOK
               /\ asked \in [Calls -> {"no", "asked", "executing"}]
               /\ strayed \in BOOLEAN
               /\ disowned \in SUBSET Calls

JointInv == IInv /\ JointTypeOK /\ Unasked /\ Executing /\ (Calm => Parked)

-----------------------------------------------------------------------------
(* Steps of Shaiden.                                                       *)

\* Informed says nothing of these statements but that a holder's run is over.
Plain == {"hibernate", "answer", "failCall", "drain", "drainDelete", "drained", "model", "end",
          "failing", "outcome", "complete", "discard", "release", "rescue", "rescueOutcome",
          "rescueComplete"}

\* A step of one driver that moves neither the parked task nor Torii.
Own(d) == /\ Kept(d)
          /\ run'.parked = run.parked
          /\ Running => Running'
          /\ UNCHANGED <<torii, asked>> /\ disowned \subseteq disowned'

\* A driver's own step: the other drivers know what they knew.
LEMMA OwnStep ==
    ASSUME Parked, NEW d \in Drivers, Own(d), Informed(drv[d])'
    PROVE  Parked'
<1>1. (run.parked = NoCall \/ Posted(run.parked))'
  BY DEF Parked, Own, Posted
<1>2. ASSUME NEW e \in Drivers \ {d} PROVE Informed(drv[e])'
  <2>1. drv'[e] = drv[e] /\ Informed(drv[e])
    BY DEF Parked, Own, Kept
  <2> QED
    BY <2>1 DEF Own, Informed, Over, Posted, Running
<1>3. Waited'
  BY DEF Parked, Own, Waited
<1> QED
  BY <1>1, <1>2, <1>3 DEF Parked

\* To a statement at which nothing is carried.
LEMMA PlainStep ==
    ASSUME Parked, NEW d \in Drivers, Own(d), drv'[d].pc \in Plain,
           drv'[d].pc \in Holding \ {"hibernate"} => drv[d].pc \in Holding \ {"hibernate"}
    PROVE  Parked'
<1>1. drv'[d].pc \in Holding \ {"hibernate"} => Over(run.parked)
  BY DEF Parked, Informed
<1>2. Over(run.parked) => Over(run.parked)'
  BY DEF Own, Over
<1>3. Informed(drv[d])'
  BY <1>1, <1>2 DEF Informed, Plain
<1> QED
  BY <1>3, OwnStep

\* Out of the run.
LEMMA LeaveStep ==
    ASSUME TypeOK, Parked, NEW d \in Drivers, Leave(d), run'.parked = run.parked,
           Running => Running', UNCHANGED <<torii, asked>>, disowned \subseteq disowned'
    PROVE  Parked'
<1>1. Kept(d) /\ drv'[d].pc = "idle" /\ drv'[d].parked = NoCall
  BY LeaveTo
<1>2. Informed(drv[d])'
  BY <1>1 DEF Informed, Over, Holding
<1> QED
  BY <1>1, <1>2, OwnStep DEF Own

\* Into the run and up to the claim.
LEMMA ArriveParks ==
    ASSUME TypeOK, Parked, NEW d \in Drivers, UNCHANGED asked, disowned \subseteq disowned',
           Disowns(d) /\ drv[d].parked \in Calls => drv[d].parked \in disowned',
           \/ Arrive(d) \/ Reopen(d) \/ SetupFails(d)
           \/ PollPending(d) \/ PollTerminal(d) \/ PollFailed(d) \/ FetchHistory(d)
    PROVE  Parked'
<1>1. /\ drv[d] \in Driver /\ run \in Run /\ Informed(drv[d])
      /\ run.parked = NoCall \/ Posted(run.parked)
  BY DEF TypeOK, Parked
<1>2. ASSUME UNCHANGED <<run, torii>>, Leave(d) PROVE Parked'
  BY <1>2, LeaveStep DEF Running
<1>3. CASE Launch(d) \/ (Reopen(d) /\ ~Leave(d))
  <2>1. /\ At(d, "idle") \/ At(d, "reopen")
        /\ Move(d, "setup") /\ run'.parked = run.parked /\ (Running => Running')
        /\ UNCHANGED torii
    BY <1>1, <1>3 DEF Launch, Reopen, Running, Run
  <2>2. Kept(d) /\ drv'[d].pc = "setup" /\ drv'[d].parked = drv[d].parked
    BY <2>1, MoveTo
  <2>3. Informed(drv[d])'
    BY <1>1, <2>1, <2>2 DEF Informed, Over, Holding, At
  <2> QED
    BY <2>1, <2>2, <2>3, OwnStep DEF Own
<1>4. CASE Reopen(d) /\ Leave(d)
  <2>1. run'.parked = run.parked /\ (Running => Running') /\ UNCHANGED torii
    BY <1>1, <1>4 DEF Reopen, Running, Run
  <2> QED
    BY <1>4, <2>1, LeaveStep
<1>5. CASE ListClaimable(d)
  <2> DEFINE row == [drv[d] EXCEPT !.pc = "poll", !.role = "sweep", !.parked = run.parked]
  <2>1. row.pc = "poll" /\ row.parked = run.parked
    BY <1>1 DEF Driver
  <2>2. drv' = [drv EXCEPT ![d] = row] /\ Running /\ run.parked # NoCall
        /\ UNCHANGED <<run, torii>>
    BY <1>5 DEF ListClaimable, Claimable
  <2> HIDE DEF row
  <2>3. Kept(d) /\ drv'[d].pc = "poll" /\ drv'[d].parked = run.parked
    BY <2>1, <2>2, RowTo
  <2>4. Informed(drv[d])'
    BY <1>1, <2>2, <2>3 DEF Informed, Posted, Running, Holding
  <2> QED
    BY <2>2, <2>3, <2>4, OwnStep DEF Own, Running
<1>6. ASSUME NEW said, ReadContinuation(d, said) PROVE Parked'
  <2> DEFINE h == [history EXCEPT !.said = @ \cup said]
             row == [drv[d] EXCEPT !.pc = "reopen", !.role = "resume", !.hist = h]
  <2>1. row.pc = "reopen" /\ row.parked = drv[d].parked
    <3> HIDE DEF h
    <3> QED
      BY <1>1 DEF Driver
  <2>2. drv' = [drv EXCEPT ![d] = row] /\ At(d, "idle") /\ UNCHANGED <<run, torii>>
    BY <1>6 DEF ReadContinuation
  <2> HIDE DEF row
  <2>3. Kept(d) /\ drv'[d].pc = "reopen" /\ drv'[d].parked = drv[d].parked
    BY <2>1, <2>2, RowTo
  <2>4. Informed(drv[d])'
    BY <1>1, <2>2, <2>3 DEF Informed, Over, Holding, At
  <2> QED
    BY <2>2, <2>3, <2>4, OwnStep DEF Own, Running
<1>7. CASE SetupFails(d)
  BY <1>2, <1>7 DEF SetupFails
<1>8. CASE (PollPending(d) /\ ~Leave(d)) \/ PollTerminal(d) \/ PollFailed(d)
  <2>1. PICK p \in {"repark", "fetch", "seize"} :
            /\ Move(d, p) /\ At(d, "poll") /\ UNCHANGED <<run, torii>>
            /\ p # "repark" => \/ torii[drv[d].parked] \in {"done", "denied", "void"}
                              \/ PollFailed(d)
    BY <1>8 DEF PollPending, PollTerminal, PollFailed
  <2>2. Kept(d) /\ drv'[d].pc = p /\ drv'[d].parked = drv[d].parked
    BY <2>1, MoveTo
  <2>3. Posted(drv[d].parked)
    BY <1>1, <2>1 DEF Informed, At
  <2>4. p # "repark" => \/ torii[drv[d].parked] \in {"done", "denied", "void"}
                       \/ drv[d].parked \in disowned'
    BY <2>1, <2>3 DEF Posted, Disowns
  <2>5. Informed(drv[d])'
    BY <2>1, <2>2, <2>3, <2>4 DEF Informed, Over, Posted, Holding
  <2> QED
    BY <2>1, <2>2, <2>5, OwnStep DEF Own, Running
<1>9. CASE PollPending(d) /\ Leave(d)
  BY <1>2, <1>9 DEF PollPending
<1>10. CASE FetchHistory(d)
  <2> DEFINE row == [drv[d] EXCEPT !.pc = "setup", !.role = "resume", !.hist = history]
  <2>1. row.pc = "setup" /\ row.parked = drv[d].parked
    BY <1>1 DEF Driver
  <2>2. drv' = [drv EXCEPT ![d] = row] /\ At(d, "fetch") /\ UNCHANGED <<run, torii>>
    BY <1>10 DEF FetchHistory
  <2> HIDE DEF row
  <2>3. Kept(d) /\ drv'[d].pc = "setup" /\ drv'[d].parked = drv[d].parked
    BY <2>1, <2>2, RowTo
  <2>4. Informed(drv[d])'
    BY <1>1, <2>2, <2>3 DEF Informed, Over, Holding, At
  <2> QED
    BY <2>2, <2>3, <2>4, OwnStep DEF Own, Running
<1>11. CASE Arrive(d)
  <2>1. ASSUME NEW m \in Messages, ReadContinuation(d, {m}) PROVE Parked'
    BY <1>6, <2>1
  <2>2. ASSUME ReadContinuation(d, {}) PROVE Parked'
    BY <1>6, <2>2
  <2> QED
    BY <1>3, <1>5, <1>11, <2>1, <2>2 DEF Arrive
<1> QED
  BY <1>3, <1>4, <1>7, <1>8, <1>9, <1>10, <1>11

\* A stale poll that strikes is a stray; without one, the driver acts on the call that the
\* run is parked on.
LEMMA StaleParks ==
    ASSUME TypeOK, Parked, NEW d \in Drivers, ~Strays(d),
           UNCHANGED asked, disowned \subseteq disowned',
           Repark(d) \/ Seize(d) \/ ReadParked(d) \/ ClaimRun(d)
    PROVE  Parked'
<1>1. /\ drv[d] \in Driver /\ run \in Run /\ Informed(drv[d])
      /\ run.parked = NoCall \/ Posted(run.parked)
  BY DEF TypeOK, Parked
<1>2. CASE Repark(d)
  <2>1. /\ At(d, "repark") /\ Leave(d) /\ UNCHANGED torii
        /\ run' = IF Running THEN [run EXCEPT !.parked = drv[d].parked] ELSE run
    BY <1>2 DEF Repark
  <2>2. drv'[d] # drv[d]
    BY <2>1, LeaveTo DEF At
  <2>3. run' = run
    <3>1. CASE drv[d].parked # run.parked
      BY <2>1, <2>2, <3>1 DEF Strays, At
    <3>2. CASE drv[d].parked = run.parked
      BY <1>1, <2>1, <3>2 DEF Run
    <3> QED
      BY <3>1, <3>2
  <2> QED
    BY <2>1, <2>3, LeaveStep DEF Running
<1>3. CASE (Seize(d) \/ ClaimRun(d)) /\ ~Claimable
  <2>1. Leave(d) /\ UNCHANGED <<run, torii>>
    BY <1>3 DEF Seize, ClaimRun
  <2> QED
    BY <2>1, LeaveStep DEF Running
<1>4. CASE (Seize(d) \/ ClaimRun(d)) /\ Claimable
  <2>1. /\ At(d, "seize") \/ At(d, "claim")
        /\ run' = [run EXCEPT !.owner = Home[d], !.live = TRUE]
        /\ UNCHANGED torii
    BY <1>4 DEF Seize, ClaimRun
  <2>2. /\ run'.parked = run.parked /\ run'.status = run.status /\ run' # run
    <3>1. Home[d] # NoOne
      BY HomeAssumption, NoOneAssumption
    <3>2. run'.owner = Home[d] /\ run'.live = TRUE
      BY <1>1, <2>1 DEF Run
    <3>3. run'.parked = run.parked /\ run'.status = run.status
      BY <1>1, <2>1 DEF Run
    <3> QED
      BY <1>4, <3>1, <3>2, <3>3 DEF Claimable
  <2>3. /\ Kept(d)
        /\ \/ At(d, "seize") /\ drv'[d].pc = "outcome"
           \/ At(d, "claim") /\ drv'[d].pc = "connect" /\ drv'[d].parked = drv[d].parked
    BY <1>4, MoveTo, FinishTo DEF Seize, ClaimRun
  <2>4. drv[d].parked = run.parked
    BY <2>1, <2>2, <2>3 DEF Strays, At
  <2>5. Over(run.parked)
    BY <1>1, <2>1, <2>4 DEF Informed, At
  <2>6. Informed(drv[d])'
    BY <2>1, <2>2, <2>3, <2>4, <2>5 DEF Informed, Over, At
  <2> QED
    BY <2>1, <2>2, <2>3, <2>6, OwnStep DEF Own, Running
<1>5. CASE ReadParked(d)
  <2> DEFINE row == [drv[d] EXCEPT !.pc = "claim", !.parked = run.parked]
  <2>1. row.pc = "claim" /\ row.parked = run.parked
    BY <1>1 DEF Driver
  <2>2. drv' = [drv EXCEPT ![d] = row] /\ At(d, "setup") /\ UNCHANGED <<run, torii>>
    BY <1>5 DEF ReadParked
  <2> HIDE DEF row
  <2>3. Kept(d) /\ drv'[d].pc = "claim" /\ drv'[d].parked = run.parked
    BY <2>1, <2>2, RowTo
  <2>4. run.parked = NoCall \/ drv[d].parked = run.parked
    BY <2>2, <2>3 DEF Strays, At
  <2>5. Informed(drv[d])'
    BY <1>1, <2>2, <2>3, <2>4 DEF Informed, Over, Holding, At
  <2> QED
    BY <2>2, <2>3, <2>5, OwnStep DEF Own, Running
<1> QED
  BY <1>2, <1>3, <1>4, <1>5

\* A holder that has no open call behind it moves or clears the parked task: no poll and no
\* request of another driver is about an open call then.
LEMMA RowStep ==
    ASSUME IInv, slips = {}, Parked, NEW d \in Drivers, Kept(d),
           drv[d].pc \in Holding \ {"hibernate"},
           UNCHANGED <<torii, asked>>, disowned \subseteq disowned',
           run'.parked = NoCall \/ Posted(run'.parked),
           drv'[d].pc \in Holding \ {"hibernate"} => Over(run'.parked),
           Informed(drv[d])'
    PROVE  Parked'
<1>1. Over(run.parked) /\ Holds(d)
  BY DEF Parked, Informed, Holds
<1>2. (run.parked = NoCall \/ Posted(run.parked))'
  BY DEF Posted
<1>3. ASSUME NEW e \in Drivers \ {d} PROVE Informed(drv[e])'
  <2>1. drv'[e] = drv[e] /\ Informed(drv[e])
    BY DEF Parked, Kept
  <2>2. drv[e].pc \notin Holding
    BY <1>1 DEF IInv, SoleDriver, Holds
  <2>3. drv[e].pc = "poll" =>
          Posted(drv[e].parked) /\ (torii[drv[e].parked] # "open" \/ drv[e].parked \in disowned)
    BY <1>1, <2>1, NoCallAssumption DEF Informed, Over, Posted
  <2> QED
    BY <2>1, <2>2, <2>3 DEF Informed, Over, Posted
<1>4. \A c \in Calls : asked[c] # "no" => torii[c] # "open" \/ c \in disowned
  BY <1>1, NoCallAssumption DEF Parked, Waited, Over
<1> QED
  BY <1>2, <1>3, <1>4 DEF Parked, Waited

\* Taking up the parked call, and the answer to it.
LEMMA WakeParks ==
    ASSUME IInv, slips = {}, Parked, NEW d \in Drivers,
           UNCHANGED asked, disowned \subseteq disowned',
           \/ Connect(d) \/ ConnectFails(d) \/ Checkpoint(d) \/ SetParkedMcpTask(d)
           \/ PollResult(d) \/ RenewAfterPoll(d) \/ ClearParkedMcpTask(d)
    PROVE  Parked'
<1> USE DEF IInv
<1>1. /\ drv[d] \in Driver /\ run \in Run /\ Informed(drv[d]) /\ TypeOK
      /\ run.parked = NoCall \/ Posted(run.parked)
  BY DEF TypeOK, Parked
<1>2. Holds(d) => Running
  BY DEF SoleDriver, Owns
<1>3. CASE Connect(d) /\ Move(d, "wake") /\ drv[d].parked # NoCall
  <2>1. At(d, "connect") /\ UNCHANGED <<run, torii>>
    BY <1>3 DEF Connect
  <2>2. Kept(d) /\ drv'[d].pc = "wake" /\ drv'[d].parked = drv[d].parked
    BY <1>3, MoveTo
  <2>3. Over(drv[d].parked) /\ Over(run.parked) /\ drv[d].parked \in Calls
    BY <1>1, <1>3, <2>1 DEF Informed, At, Holding, Driver
  <2>4. Informed(drv[d])'
    BY <1>3, <2>1, <2>2, <2>3 DEF Informed, Over, Posted
  <2> QED
    BY <2>1, <2>2, <2>4, OwnStep DEF Own, Running
<1>4. CASE Connect(d) /\ ~(Move(d, "wake") /\ drv[d].parked # NoCall)
  <2>1. /\ At(d, "connect") /\ UNCHANGED <<run, torii>>
        /\ Move(d, "drain") \/ Terminate(d, "failed", drv[d].hist)
    BY <1>4 DEF Connect
  <2>2. Kept(d) /\ drv'[d].pc = "drain"
    BY <2>1, MoveTo, TerminateTo
  <2> QED
    BY <2>1, <2>2, PlainStep DEF Own, Running, Plain, Holding, At
<1>5. CASE ConnectFails(d)
  <2> DEFINE row == [drv[d] EXCEPT !.pc = "failing", !.thrown = TRUE]
  <2>1. row.pc = "failing"
    BY <1>1 DEF Driver
  <2>2. drv' = [drv EXCEPT ![d] = row] /\ At(d, "connect") /\ UNCHANGED <<run, torii>>
    BY <1>5 DEF ConnectFails
  <2> HIDE DEF row
  <2>3. Kept(d) /\ drv'[d].pc = "failing"
    BY <2>1, <2>2, RowTo
  <2> QED
    BY <2>2, <2>3, PlainStep DEF Own, Running, Plain, Holding, At
<1>6. CASE Checkpoint(d)
  <2>1. At(d, "wake") /\ Move(d, "park") /\ UNCHANGED <<run, torii>>
    BY <1>6 DEF Checkpoint
  <2>2. /\ Kept(d) /\ drv'[d].pc = "park" /\ drv'[d].parked = drv[d].parked
        /\ drv'[d].fresh = drv[d].fresh
    BY <2>1, MoveTo
  <2>3. Informed(drv[d])'
    BY <1>1, <2>1, <2>2 DEF Informed, Over, Posted, At, Holding
  <2> QED
    BY <2>1, <2>2, <2>3, OwnStep DEF Own, Running
<1>7. CASE SetParkedMcpTask(d)
  <2> DEFINE p == IF drv[d].fresh THEN "hibernate" ELSE "wait"
             row == [drv[d] EXCEPT !.pc = p, !.fresh = FALSE]
  <2>1. row.pc = p /\ row.parked = drv[d].parked
    BY <1>1 DEF Driver
  <2>2. /\ drv' = [drv EXCEPT ![d] = row] /\ At(d, "park") /\ UNCHANGED torii
        /\ run' = IF Running THEN [run EXCEPT !.parked = drv[d].parked] ELSE run
    BY <1>7 DEF SetParkedMcpTask
  <2> HIDE DEF row, p
  <2>3. Kept(d) /\ drv'[d].pc = p /\ drv'[d].parked = drv[d].parked
    BY <2>1, <2>2, RowTo
  <2>4. run'.parked = drv[d].parked
    BY <1>1, <1>2, <2>2 DEF Holds, At, Holding, Run
  <2>5. Posted(drv[d].parked) /\ (drv[d].fresh \/ Over(drv[d].parked))
    BY <1>1, <2>2 DEF Informed, At
  <2>6. p = "hibernate" \/ (p = "wait" /\ Over(drv[d].parked))
    BY <2>5 DEF p
  <2>7. Informed(drv[d])'
    BY <2>2, <2>3, <2>4, <2>6 DEF Informed, Over
  <2> QED
    BY <2>2, <2>3, <2>4, <2>5, <2>6, <2>7, RowStep DEF At, Holding
<1>8. CASE PollResult(d) /\ ~Move(d, "failCall")
  <2>1. At(d, "wait") /\ UNCHANGED <<run, torii>>
    BY <1>8 DEF PollResult
  <2>2. PICK o \in {"rejected", "none"} :
            drv' = [drv EXCEPT ![d] = [drv[d] EXCEPT !.pc = "renew", !.outcome = o]]
    BY <1>8 DEF PollResult
  <2> DEFINE row == [drv[d] EXCEPT !.pc = "renew", !.outcome = o]
  <2>3. row.pc = "renew" /\ row.parked = drv[d].parked
    BY <1>1 DEF Driver
  <2>4. drv' = [drv EXCEPT ![d] = row]
    BY <2>2
  <2> HIDE DEF row
  <2>5. Kept(d) /\ drv'[d].pc = "renew" /\ drv'[d].parked = drv[d].parked
    BY <2>3, <2>4, RowTo
  <2>6. Informed(drv[d])'
    BY <1>1, <2>1, <2>5 DEF Informed, Over, At, Holding
  <2> QED
    BY <2>1, <2>5, <2>6, OwnStep DEF Own, Running
<1>9. CASE PollResult(d) /\ Move(d, "failCall")
  <2>1. At(d, "wait") /\ UNCHANGED <<run, torii>>
    BY <1>9 DEF PollResult
  <2>2. Kept(d) /\ drv'[d].pc = "failCall"
    BY <1>9, MoveTo
  <2> QED
    BY <2>1, <2>2, PlainStep DEF Own, Running, Plain, Holding, At
<1>10. CASE RenewAfterPoll(d)
  <2>1. /\ At(d, "renew") /\ UNCHANGED torii
        /\ run' = IF Owns(d) THEN [run EXCEPT !.live = TRUE] ELSE run
        /\ Move(d, IF Owns(d) THEN "clear" ELSE "failCall")
    BY <1>10 DEF RenewAfterPoll
  <2>2. run'.parked = run.parked /\ run'.status = run.status
    BY <1>1, <2>1 DEF Run
  <2>3. /\ Kept(d) /\ drv'[d].parked = drv[d].parked
        /\ drv'[d].pc \in {"clear", "failCall"}
    BY <2>1, MoveTo
  <2>4. Informed(drv[d])'
    BY <1>1, <2>1, <2>2, <2>3 DEF Informed, Over, At, Holding
  <2> QED
    BY <2>1, <2>2, <2>3, <2>4, OwnStep DEF Own, Running
<1>11. CASE ClearParkedMcpTask(d)
  <2> DEFINE h == Answered(drv[d].hist, drv[d].parked)
             row == [drv[d] EXCEPT !.pc = "answer", !.parked = NoCall, !.hist = h]
  <2>1. row.pc = "answer"
    <3> HIDE DEF h
    <3> QED
      BY <1>1 DEF Driver
  <2>2. /\ At(d, "clear") /\ UNCHANGED torii
        /\ run' = [run EXCEPT !.parked = NoCall]
        /\ (drv' = [drv EXCEPT ![d] = row]) \/ Move(d, "failCall")
    <3> HIDE DEF h
    <3> QED
      BY <1>11 DEF ClearParkedMcpTask, h
  <2> HIDE DEF row
  <2>3. Kept(d) /\ drv'[d].pc \in {"answer", "failCall"}
    BY <2>1, <2>2, RowTo, MoveTo
  <2>4. run'.parked = NoCall
    BY <1>1, <2>2 DEF Run
  <2>5. Informed(drv[d])'
    BY <2>3, <2>4 DEF Informed, Over
  <2> QED
    BY <2>2, <2>3, <2>4, <2>5, RowStep DEF At, Holding, Over
<1> QED
  BY <1>3, <1>4, <1>5, <1>6, <1>7, <1>8, <1>9, <1>10, <1>11

\* The task loop and the end of a run, up to the row, leave run and Torii alone.
LEMMA LoopParks ==
    ASSUME IInv, Parked, NEW d \in Drivers, UNCHANGED asked, disowned \subseteq disowned',
           \/ Hibernate(d) \/ AppendToolResult(d) \/ PushToolErrorResult(d)
           \/ DrainSelect(d) \/ DrainDelete(d) \/ CheckpointDrained(d)
           \/ AssessTask(d) \/ EndTurn(d) \/ StopNow(d)
           \/ EndLoop(d) \/ CatchError(d) \/ RecordOutcome(d) \/ DiscardFollowUps(d)
           \/ Rescue(d)
    PROVE  Parked'
<1>1. /\ TypeOK /\ drv[d] \in Driver
  BY DEF IInv, TypeOK
<1>2. UNCHANGED <<run, torii>>
  BY DEF Hibernate, AppendToolResult, PushToolErrorResult, DrainSelect, DrainDelete,
     CheckpointDrained, AssessTask, EndTurn, StopNow, EndLoop, CatchError, RecordOutcome,
     DiscardFollowUps, Rescue
<1>3. ASSUME Kept(d), drv'[d].pc \in Plain,
             drv'[d].pc \in Holding \ {"hibernate"} => drv[d].pc \in Holding \ {"hibernate"}
      PROVE  Parked'
  BY <1>2, <1>3, PlainStep DEF Own, Running
<1>4. ASSUME Leave(d) PROVE Parked'
  BY <1>1, <1>2, <1>4, LeaveStep DEF Running
<1>5. CASE Hibernate(d) \/ EndLoop(d) \/ CatchError(d)
  <2>1. /\ drv[d].pc \in {"hibernate", "end", "failing"}
        /\ \/ Leave(d)
           \/ Finishing(d, "release", "none")
           \/ drv[d].pc # "hibernate" /\ \E o \in Outcome : Finishing(d, "outcome", o)
    BY <1>1, <1>5 DEF Hibernate, EndLoop, CatchError, At, Driver, Outcome
  <2>2. \/ Leave(d)
        \/ Kept(d) /\ drv'[d].pc = "release"
        \/ Kept(d) /\ drv'[d].pc = "outcome" /\ drv[d].pc # "hibernate"
    BY <1>1, <2>1, FinishTo
  <2> QED
    BY <1>3, <1>4, <2>1, <2>2 DEF Plain, Holding
<1>6. CASE PushToolErrorResult(d) \/ StopNow(d) \/ AssessTask(d) \/ EndTurn(d)
  <2>1. /\ drv[d].pc \in {"failCall", "model", "dispatch", "wake"}
        /\ \E o, h : Terminate(d, o, h)
    BY <1>6 DEF PushToolErrorResult, StopNow, AssessTask, EndTurn, At
  <2>2. Kept(d) /\ drv'[d].pc = "drain"
    BY <1>1, <2>1, TerminateTo
  <2> QED
    BY <1>3, <2>1, <2>2 DEF Plain, Holding
<1>7. CASE DrainSelect(d)
  <2> DEFINE h == [drv[d].hist EXCEPT !.said = @ \cup queue]
             row == [drv[d] EXCEPT !.pc = "drainDelete", !.hist = h]
  <2>1. row.pc = "drainDelete"
    <3> HIDE DEF h
    <3> QED
      BY <1>1 DEF Driver
  <2>2. /\ drv[d].pc = "drain"
        /\ drv' = [drv EXCEPT ![d] = row] \/ \E p \in {"model", "end"} : Move(d, p)
    BY <1>7 DEF DrainSelect, At
  <2> HIDE DEF row
  <2>3. Kept(d) /\ drv'[d].pc \in {"drainDelete", "model", "end"}
    BY <1>1, <2>1, <2>2, RowTo, MoveTo
  <2> QED
    BY <1>3, <2>2, <2>3 DEF Plain, Holding
<1>8. CASE AppendToolResult(d) \/ DrainDelete(d) \/ CheckpointDrained(d) \/ RecordOutcome(d)
  <2>1. \/ /\ drv[d].pc \in {"answer", "drainDelete", "drained", "outcome"}
           /\ \E p \in {"drain", "drained", "model", "end", "complete"} : Move(d, p)
        \/ Move(d, "rescueComplete")
    BY <1>8 DEF AppendToolResult, DrainDelete, CheckpointDrained, RecordOutcome, At
  <2>2. /\ Kept(d)
        /\ \/ /\ drv[d].pc \in {"answer", "drainDelete", "drained", "outcome"}
              /\ drv'[d].pc \in {"drain", "drained", "model", "end", "complete"}
           \/ drv'[d].pc = "rescueComplete"
    BY <1>1, <2>1, MoveTo
  <2> QED
    BY <1>3, <2>2 DEF Plain, Holding
<1>9. CASE DiscardFollowUps(d)
  <2>1. Leave(d) \/ Move(d, "release")
    BY <1>9 DEF DiscardFollowUps
  <2>2. Leave(d) \/ (Kept(d) /\ drv'[d].pc = "release")
    BY <1>1, <2>1, MoveTo
  <2> QED
    BY <1>3, <1>4, <2>2 DEF Plain, Holding
<1>10. CASE Rescue(d)
  <2> DEFINE row == [drv[d] EXCEPT !.pc = "rescueOutcome", !.role = "sweep",
                                   !.outcome = "failed"]
  <2>1. row.pc = "rescueOutcome"
    BY <1>1 DEF Driver
  <2>2. Leave(d) \/ drv' = [drv EXCEPT ![d] = row]
    BY <1>10 DEF Rescue
  <2> HIDE DEF row
  <2>3. Leave(d) \/ (Kept(d) /\ drv'[d].pc = "rescueOutcome")
    BY <1>1, <2>1, <2>2, RowTo
  <2> QED
    BY <1>3, <1>4, <2>3 DEF Plain, Holding
<1> QED
  BY <1>5, <1>6, <1>7, <1>8, <1>9, <1>10

\* The model's call is unknown to Torii, which has a task for it when its dispatch returns.
LEMMA CallParks ==
    ASSUME IInv, slips = {}, Parked, Unasked, NEW d \in Drivers,
           UNCHANGED asked, disowned \subseteq disowned',
           Dispatch(d) \/ \E c \in Calls : CallTool(d, c)
    PROVE  Parked'
<1> USE DEF IInv
<1>1. /\ drv[d] \in Driver /\ run \in Run /\ Informed(drv[d]) /\ TypeOK
      /\ torii \in [Calls -> Task]
      /\ run.parked = NoCall \/ Posted(run.parked)
  BY DEF TypeOK, Parked
<1>2. ASSUME NEW c \in Calls, CallTool(d, c) PROVE Parked'
  <2>1. drv[d].pc = "model" /\ torii[c] = "none" /\ UNCHANGED run
        /\ torii' = [torii EXCEPT ![c] = "called"]
    BY <1>2 DEF CallTool, At
  <2>2. Kept(d) /\ drv'[d].pc = "dispatch" /\ drv'[d].parked = c
    BY <1>1, <1>2, CallTo
  <2>3. torii'[c] = "called" /\ \A x \in Calls \ {c} : torii'[x] = torii[x]
    BY <1>1, <2>1
  <2>4. \A x : (Over(x) /\ x \in Calls \cup {NoCall} => Over(x)') /\ (Posted(x) => Posted(x)')
    BY <2>1, <2>3, NoCallAssumption DEF Over, Posted
  <2>5. Over(run.parked)'
    BY <1>1, <2>1, <2>4 DEF Informed, Holding, Run
  <2>6. Informed(drv[d])'
    BY <2>2, <2>3, <2>5 DEF Informed
  <2>7. ASSUME NEW e \in Drivers \ {d} PROVE Informed(drv[e])'
    <3>1. drv'[e] = drv[e] /\ Informed(drv[e]) /\ drv[e].parked \in Calls \cup {NoCall}
      BY <2>2 DEF Parked, Kept, TypeOK, Driver
    <3>2. drv[e].pc \notin Holding
      BY <2>1 DEF SoleDriver, Holds, Holding
    <3>3. drv[e].pc = "poll" => torii'[drv[e].parked] = torii[drv[e].parked]
      BY <2>1, <2>3, <3>1 DEF Informed, Posted
    <3>4. drv[e].pc # "dispatch" /\ drv[e].pc # "wake" /\ drv[e].pc # "park"
      BY <3>2 DEF Holding
    <3>5. Over(drv[e].parked) => Over(drv[e].parked)'
      BY <2>4, <3>1
    <3>6. Posted(drv[e].parked) => Posted(drv[e].parked)'
      BY <2>4, <3>1
    <3> QED
      BY <2>1, <3>1, <3>2, <3>3, <3>4, <3>5, <3>6 DEF Informed, Running
  <2>8. Waited'
    BY <2>1, <2>3 DEF Parked, Waited, Running
  <2> QED
    BY <1>1, <2>1, <2>4, <2>6, <2>7, <2>8 DEF Parked
<1>3. CASE Dispatch(d) /\ torii' = torii
  <2> DEFINE h == Answered(drv[d].hist, drv[d].parked)
             row(o) == [drv[d] EXCEPT !.pc = "answer", !.parked = NoCall, !.hist = h,
                                      !.outcome = o]
             woken == [drv[d] EXCEPT !.pc = "wake", !.fresh = TRUE]
  <2>1. \A o : row(o).pc = "answer"
    <3> HIDE DEF h
    <3> QED
      BY <1>1 DEF Driver
  <2>2. /\ drv[d].pc = "dispatch" /\ UNCHANGED run
        /\ (\E o \in {"none", "rejected"} : drv' = [drv EXCEPT ![d] = row(o)])
           \/ Move(d, "failCall")
    <3> HIDE DEF h
    <3>1. drv[d].parked \in Calls /\ torii[drv[d].parked] = "called"
      BY <1>1, <1>3 DEF Dispatch, At, Informed
    <3>2. torii # [torii EXCEPT ![drv[d].parked] = "open"]
      BY <1>1, <3>1
    <3> QED
      BY <1>3, <3>2 DEF Dispatch, At, h
  <2> HIDE DEF row
  <2>3. Kept(d) /\ drv'[d].pc \in {"answer", "failCall"}
    BY <1>1, <2>1, <2>2, RowTo, MoveTo
  <2> QED
    BY <1>3, <2>2, <2>3, PlainStep DEF Own, Running, Plain, Holding
<1>4. CASE Dispatch(d) /\ torii' # torii
  <2> DEFINE c == drv[d].parked
             row == [drv[d] EXCEPT !.pc = "wake", !.fresh = TRUE]
  <2>1. row.pc = "wake" /\ row.parked = c /\ row.fresh = TRUE
    BY <1>1 DEF Driver
  <2>2. /\ drv[d].pc = "dispatch" /\ UNCHANGED run
        /\ torii' = [torii EXCEPT ![c] = "open"] /\ drv' = [drv EXCEPT ![d] = row]
    BY <1>4 DEF Dispatch, At
  <2>3. c \in Calls /\ torii[c] = "called" /\ Over(run.parked)
    BY <1>1, <2>2 DEF Informed, Holding
  <2> HIDE DEF c, row
  <2>4. Kept(d) /\ drv'[d].pc = "wake" /\ drv'[d].parked = c /\ drv'[d].fresh = TRUE
    BY <1>1, <2>1, <2>2, RowTo
  <2>5. torii'[c] = "open" /\ \A x \in Calls \ {c} : torii'[x] = torii[x]
    BY <1>1, <2>2, <2>3
  <2>6. \A x : (Over(x) /\ x \in Calls \cup {NoCall} => Over(x)') /\ (Posted(x) => Posted(x)')
    BY <2>3, <2>5, NoCallAssumption DEF Over, Posted
  <2>7. Over(run.parked)'
    BY <1>1, <2>2, <2>3, <2>6 DEF Run
  <2>8. Informed(drv[d])'
    BY <2>3, <2>4, <2>5, <2>7 DEF Informed, Posted
  <2>9. ASSUME NEW e \in Drivers \ {d} PROVE Informed(drv[e])'
    <3>1. drv'[e] = drv[e] /\ Informed(drv[e]) /\ drv[e].parked \in Calls \cup {NoCall}
      BY <2>4 DEF Parked, Kept, TypeOK, Driver
    <3>2. drv[e].pc \notin Holding
      BY <2>2 DEF SoleDriver, Holds, Holding
    <3>3. drv[e].pc = "poll" => torii'[drv[e].parked] = torii[drv[e].parked]
      BY <2>3, <2>5, <3>1 DEF Informed, Posted
    <3>4. drv[e].pc # "dispatch" /\ drv[e].pc # "wake" /\ drv[e].pc # "park"
      BY <3>2 DEF Holding
    <3>5. Over(drv[e].parked) => Over(drv[e].parked)'
      BY <2>6, <3>1
    <3>6. Posted(drv[e].parked) => Posted(drv[e].parked)'
      BY <2>6, <3>1
    <3> QED
      BY <2>2, <3>1, <3>2, <3>3, <3>4, <3>5, <3>6 DEF Informed, Running
  <2>10. Waited'
    BY <2>2, <2>3, <2>5 DEF Parked, Waited, Running, Unasked
  <2> QED
    BY <1>1, <2>2, <2>6, <2>8, <2>9, <2>10 DEF Parked
<1> QED
  BY <1>2, <1>3, <1>4

\* The row's completion leaves no open call; its release keeps the parked task.
LEMMA EndParks ==
    ASSUME IInv, slips = {}, Parked, NEW d \in Drivers,
           UNCHANGED asked, disowned \subseteq disowned',
           CompleteRun(d) \/ ReleaseRun(d)
    PROVE  Parked'
<1>1. TypeOK /\ run \in Run
  BY DEF IInv, TypeOK
<1>2. CASE CompleteRun(d)
  <2>1. /\ drv[d].pc \in {"complete", "rescueComplete"} /\ UNCHANGED torii
        /\ Finishing(d, "discard", "none") /\ run'.parked = NoCall
    BY <1>1, <1>2 DEF CompleteRun, Run
  <2>2. drv[d].pc = "complete"
    BY <2>1 DEF IInv, RescueIsSlip
  <2>3. Kept(d) /\ drv'[d].pc = "discard"
    BY <1>1, <2>1, FinishTo
  <2>4. Informed(drv[d])'
    BY <2>3 DEF Informed, Holding
  <2> QED
    BY <2>1, <2>2, <2>3, <2>4, RowStep DEF Holding
<1>3. CASE ReleaseRun(d)
  <2>1. run'.parked = run.parked /\ run'.status = run.status /\ UNCHANGED torii
    BY <1>1, <1>3 DEF ReleaseRun, Run
  <2>2. Leave(d) \/ Move(d, "rescue")
    BY <1>3 DEF ReleaseRun
  <2>3. Leave(d) \/ (Kept(d) /\ drv'[d].pc = "rescue")
    BY <1>1, <2>2, MoveTo
  <2> QED
    BY <1>1, <2>1, <2>3, LeaveStep, PlainStep DEF Own, Running, Plain, Holding
<1> QED
  BY <1>2, <1>3

\* Heartbeats, leases, follow-ups and crashes.
LEMMA OtherParks ==
    ASSUME TypeOK, Parked, UNCHANGED asked, disowned \subseteq disowned',
           \/ \E m \in Messages : SelectParked(m) \/ InsertFollowUp(m)
           \/ \E r \in Replicas : Crash(r)
           \/ Lapse
           \/ \E d \in Drivers : Beat(d)
    PROVE  Parked'
<1>1. run \in Run /\ drv \in [Drivers -> Driver]
  BY DEF TypeOK
<1>2. ASSUME run'.parked = run.parked, run'.status = run.status, UNCHANGED torii,
             \A d \in Drivers : \/ /\ drv'[d].pc = drv[d].pc /\ drv'[d].parked = drv[d].parked
                                   /\ drv'[d].fresh = drv[d].fresh
                                \/ drv'[d].pc = "idle" /\ drv'[d].parked = NoCall
      PROVE  Parked'
  <2>1. ASSUME NEW d \in Drivers PROVE Informed(drv[d])'
    BY <1>2 DEF Parked, Informed, Over, Posted, Running, Holding
  <2> QED
    BY <1>2, <2>1 DEF Parked, Waited, Running, Posted
<1>3. CASE \E m \in Messages : SelectParked(m) \/ InsertFollowUp(m)
  BY <1>2, <1>3 DEF SelectParked, InsertFollowUp
<1>4. CASE Lapse \/ \E d \in Drivers : Renew(d)
  <2>1. run'.parked = run.parked /\ run'.status = run.status /\ UNCHANGED <<torii, drv>>
    BY <1>1, <1>4 DEF Lapse, Renew, Run
  <2> QED
    BY <1>2, <2>1
<1>5. ASSUME NEW r \in Replicas, Crash(r) PROVE Parked'
  <2>1. /\ drv' = [d \in Drivers |-> IF Home[d] = r THEN Idle ELSE drv[d]]
        /\ UNCHANGED <<run, torii>>
    BY <1>5 DEF Crash
  <2> QED
    BY <1>2, <2>1 DEF Idle
<1>6. ASSUME NEW d \in Drivers, LoseLease(d) PROVE Parked'
  <2> DEFINE row == [drv[d] EXCEPT !.lost = TRUE]
  <2>1. row.pc = drv[d].pc /\ row.parked = drv[d].parked /\ row.fresh = drv[d].fresh
    BY <1>1 DEF Driver
  <2>2. drv' = [drv EXCEPT ![d] = row] /\ UNCHANGED <<run, torii>>
    BY <1>6 DEF LoseLease
  <2> HIDE DEF row
  <2>3. Kept(d) /\ drv'[d] = row
    BY <2>2, RowTo
  <2> QED
    BY <1>2, <2>1, <2>2, <2>3 DEF Kept
<1> QED
  BY <1>3, <1>4, <1>5, <1>6 DEF Beat

\* Whatever Shaiden does, unless something slips or a stale poll strikes.
LEMMA ShaidenParks ==
    ASSUME IInv, slips = {}, Parked, Unasked, \A d \in Drivers : ~Strays(d), Alone,
           UNCHANGED asked, disowned \subseteq disowned',
           \A d \in Drivers :
              Disowns(d) /\ drv[d].parked \in Calls => drv[d].parked \in disowned'
    PROVE  Parked'
<1>1. ASSUME NEW d \in Drivers, Arrive(d) \/ Begin(d) \/ Sweep(d) PROVE Parked'
  BY <1>1, ArriveParks, StaleParks DEF IInv, Begin, Sweep
<1>2. ASSUME NEW d \in Drivers, Drive(d) PROVE Parked'
  BY <1>2, WakeParks, LoopParks, CallParks DEF Drive
<1>3. ASSUME NEW d \in Drivers, Finish(d) PROVE Parked'
  BY <1>3, LoopParks, EndParks DEF Finish
<1> QED
  BY <1>1, <1>2, <1>3, OtherParks DEF Alone, IInv

-----------------------------------------------------------------------------
(* Steps of Torii, and the invariant.                                      *)

\* A task that is over is nobody's concern.
LEMMA StatusParks ==
    ASSUME TypeOK, Parked, NEW c \in Calls, NEW s \in {"done", "denied", "void"},
           torii[c] \in {"open", "done", "denied"}, Status(c, s),
           \A x \in Calls : asked'[x] # "no" => asked[x] # "no", disowned' = disowned
    PROVE  Parked'
<1>1. /\ torii'[c] = s /\ \A x \in Calls \ {c} : torii'[x] = torii[x]
      /\ UNCHANGED <<run, drv>>
  BY DEF Status, TypeOK
<1>2. \A x \in Calls \cup {NoCall} : (Over(x) => Over(x)') /\ (Posted(x) => Posted(x)')
  BY <1>1, NoCallAssumption DEF Over, Posted
<1>3. \A x \in Calls : torii'[x] = "open" => torii[x] = "open"
  BY <1>1
<1>4. \A x \in Calls : torii[x] = "called" => torii'[x] = "called"
  BY <1>1
<1>5. run.parked \in Calls \cup {NoCall} /\ \A d \in Drivers : drv[d].parked \in Calls \cup {NoCall}
  BY DEF TypeOK, Run, Driver
<1>6. ASSUME NEW d \in Drivers PROVE Informed(drv[d])'
  <2>1. Informed(drv[d]) /\ drv'[d] = drv[d] /\ run' = run
    BY <1>1 DEF Parked
  <2>2. Posted(drv[d].parked) /\ torii'[drv[d].parked] = "open" => torii[drv[d].parked] = "open"
    BY <1>3 DEF Posted
  <2> QED
    BY <1>2, <1>4, <1>5, <2>1, <2>2 DEF Informed, Running
<1>7. Waited'
  BY <1>1, <1>3 DEF Parked, Waited, Running
<1> QED
  BY <1>1, <1>2, <1>5, <1>6, <1>7 DEF Parked

\* What Shaiden's steps do to Torii's tasks.
LEMMA ShaidenTasks ==
    ASSUME TypeOK, Shaiden, NEW c \in Calls
    PROVE  \/ torii'[c] = torii[c]
           \/ torii[c] = "none" /\ torii'[c] = "called"
           \/ torii'[c] = "open"
<1>1. ASSUME NEW d \in Drivers, Drive(d)
      PROVE  \/ UNCHANGED torii
             \/ \E x \in Calls : torii[x] = "none" /\ torii' = [torii EXCEPT ![x] = "called"]
             \/ torii' = [torii EXCEPT ![drv[d].parked] = "open"]
  BY <1>1 DEF Drive, Connect, ConnectFails, Checkpoint, SetParkedMcpTask, Hibernate, PollResult,
     RenewAfterPoll, ClearParkedMcpTask, AppendToolResult, PushToolErrorResult, DrainSelect,
     DrainDelete, CheckpointDrained, CallTool, AssessTask, EndTurn, Dispatch, StopNow
<1>2. ASSUME NEW d \in Drivers, Arrive(d) \/ Begin(d) \/ Sweep(d)
      PROVE  UNCHANGED torii
  BY <1>2 DEF Arrive, Begin, Sweep, Launch, ListClaimable, ReadContinuation, Reopen,
     SetupFails, ReadParked, ClaimRun, PollPending, PollTerminal, PollFailed, Repark, Seize,
     FetchHistory
<1>3. ASSUME NEW d \in Drivers, Finish(d) \/ Beat(d)
      PROVE  UNCHANGED torii
  BY <1>3 DEF Finish, Beat, EndLoop, CatchError, RecordOutcome, CompleteRun, DiscardFollowUps,
     ReleaseRun, Rescue, Renew, LoseLease
<1>4. \/ UNCHANGED torii
      \/ \E x \in Calls : torii[x] = "none" /\ torii' = [torii EXCEPT ![x] = "called"]
      \/ \E d \in Drivers : torii' = [torii EXCEPT ![drv[d].parked] = "open"]
  BY <1>1, <1>2, <1>3 DEF Shaiden, Alone, SelectParked, InsertFollowUp, Crash, Lapse
<1> QED
  BY <1>4 DEF TypeOK

\* Neither the run nor Torii has done anything.
LEMMA InitJointInv == JointInit => JointInv
<1> SUFFICES ASSUME JointInit PROVE JointInv
  OBVIOUS
<1>1. Init /\ IInv
  BY InitIInv DEF JointInit
<1>2. JointTypeOK
  BY DEF JointInit, Torii!AInit, JointTypeOK, Torii!ATypeOK, Torii!Decisions
<1>3. Unasked /\ Executing
  BY DEF JointInit, Unasked, Executing
<1>4. run.parked = NoCall /\ \A d \in Drivers : drv[d].pc = "idle" /\ drv[d].parked = NoCall
  BY <1>1 DEF Init, Idle
<1>5. Parked
  <2>1. \A d \in Drivers : Informed(drv[d])
    BY <1>4 DEF Informed, Over, Holding
  <2>2. Waited
    BY DEF JointInit, Waited
  <2> QED
    BY <1>4, <2>1, <2>2 DEF Parked
<1> QED
  BY <1>1, <1>2, <1>3, <1>5 DEF JointInv

\* What Torii knows of its own requests, whatever has slipped.
LEMMA ToriiKnows ==
    ASSUME TypeOK, JointTypeOK, Unasked, Executing, [JointNext]_jointVars
    PROVE  JointTypeOK' /\ Unasked' /\ Executing'
<1> USE DEF JointTypeOK, Torii!ATypeOK, Torii!Decisions
<1>1. CASE Shaiden
  <2>1. /\ UNCHANGED asked /\ strayed' \in BOOLEAN /\ disowned' \in SUBSET Calls
        /\ \A c \in Calls : \/ torii'[c] = torii[c]
                            \/ torii[c] = "none" /\ torii'[c] = "called"
                            \/ torii'[c] = "open"
    BY <1>1, ShaidenTasks DEF Shaiden
  <2>2. UNCHANGED avars \/ \E c \in Calls : Torii!Park(c)
    BY <1>1 DEF Shaiden
  <2>3. /\ decision' \in [Calls -> {"unborn", "awaiting", "approved", "refused"}]
        /\ UNCHANGED sent
        /\ \A c \in Calls : decision[c] = "approved" => decision'[c] = "approved"
    BY <2>2 DEF avars, Torii!Park, Torii!Decide
  <2>4. JointTypeOK'
    BY <2>1, <2>3
  <2>5. Unasked'
    BY <2>1 DEF Unasked
  <2>6. Executing'
    BY <2>1, <2>3 DEF Executing
  <2> QED
    BY <2>4, <2>5, <2>6
<1>2. ASSUME NEW d \in Drivers, Asks(d) PROVE JointTypeOK' /\ Unasked' /\ Executing'
  BY <1>2 DEF Asks, avars, vars, histories, Unasked, Executing
<1>3. ASSUME NEW c \in Calls, Decides(c) PROVE JointTypeOK' /\ Unasked' /\ Executing'
  <2>1. UNCHANGED <<torii, asked, strayed, disowned, sent>>
    BY <1>3 DEF Decides, vars, histories, Torii!Approve, Torii!Refuse, Torii!Decide
  <2>2. /\ decision' \in [Calls -> {"unborn", "awaiting", "approved", "refused"}]
        /\ \A x \in Calls : decision[x] = "approved" => decision'[x] = "approved"
    BY <1>3 DEF Decides, Torii!Approve, Torii!Refuse, Torii!Decide
  <2> QED
    BY <2>1, <2>2 DEF Unasked, Executing
<1>4. ASSUME NEW c \in Calls, Looks(c) PROVE JointTypeOK' /\ Unasked' /\ Executing'
  BY <1>4 DEF Looks, avars, vars, histories, Unasked, Executing
<1>5. ASSUME NEW c \in Calls, Executes(c) PROVE JointTypeOK' /\ Unasked' /\ Executing'
  <2>1. /\ UNCHANGED <<torii, asked, strayed, disowned, decision>>
        /\ sent' \in [Calls -> {0, 1}]
    BY <1>5 DEF Executes, vars, histories, Torii!Send
  <2> QED
    BY <2>1 DEF Unasked, Executing
<1>6. ASSUME NEW c \in Calls, Refuses(c) \/ Expires(c) \/ Answers(c)
      PROVE  JointTypeOK' /\ Unasked' /\ Executing'
  <2>1. /\ UNCHANGED <<avars, strayed, disowned>>
        /\ asked' = asked \/ asked' = [asked EXCEPT ![c] = "no"]
        /\ \/ UNCHANGED torii
           \/ /\ torii[c] \in {"open", "done", "denied"}
              /\ \E s \in {"done", "denied", "void"} : torii' = [torii EXCEPT ![c] = s]
    BY <1>6 DEF Refuses, Expires, Answers, Status, vars, histories
  <2>2. asked[c] = "executing" => asked'[c] = "no" \/ torii'[c] \in {"open", "void"}
    BY <1>6 DEF Refuses, Expires, Answers, Status, vars, TypeOK, Executing
  <2>3. JointTypeOK'
    BY <2>1 DEF avars
  <2>4. Unasked'
    BY <2>1 DEF Unasked, TypeOK
  <2>5. Executing'
    BY <2>1, <2>2 DEF Executing, TypeOK, avars
  <2> QED
    BY <2>3, <2>4, <2>5
<1>7. CASE UNCHANGED jointVars
  BY <1>7 DEF jointVars, avars, vars, histories, Unasked, Executing
<1> QED
  BY <1>1, <1>2, <1>3, <1>4, <1>5, <1>6, <1>7 DEF JointNext, Serves

\* Every step of Shaiden and of Torii.
LEMMA NextJointInv == JointInv /\ [JointNext]_jointVars => JointInv'
<1> SUFFICES ASSUME JointInv, [JointNext]_jointVars
             PROVE  JointInv'
  OBVIOUS
<1>1. IInv /\ TypeOK /\ IInv'
  BY JointIsNext, NextIInv DEF JointInv, IInv
<1>2. JointTypeOK' /\ Unasked' /\ Executing'
  BY <1>1, ToriiKnows DEF JointInv
<1>3. ASSUME Calm' PROVE Parked'
  <2>1. slips = {}
    BY <1>3, SlipsStay, JointIsNext DEF Calm
  <2>2. strayed => strayed'
    BY DEF JointNext, Shaiden, Asks, Decides, Serves, Refuses, Looks, Executes, Answers,
       Expires, jointVars, histories, JointInv, JointTypeOK
  <2>3. Calm /\ Parked
    BY <1>3, <2>1, <2>2 DEF Calm, JointInv
  <2>4. CASE Shaiden
    <3>1. /\ Alone /\ UNCHANGED asked /\ disowned \subseteq disowned'
          /\ \A d \in Drivers :
               Disowns(d) /\ drv[d].parked \in Calls => drv[d].parked \in disowned'
      BY <2>4 DEF Shaiden
    <3>2. \A d \in Drivers : ~Strays(d)
      BY <1>3, <2>4 DEF Shaiden, Calm
    <3> QED
      BY <1>1, <2>1, <2>3, <3>1, <3>2, ShaidenParks DEF JointInv
  <2>5. ASSUME NEW d \in Drivers, Asks(d) PROVE Parked'
    <3>1. /\ drv[d].pc \in {"poll", "wait"} /\ torii[drv[d].parked] = "open"
          /\ asked' = [asked EXCEPT ![drv[d].parked] = "asked"]
          /\ UNCHANGED <<run, torii, drv, disowned>>
      BY <2>5 DEF Asks, vars, histories
    <3>2. Informed(drv[d]) /\ drv[d].parked \in Calls \cup {NoCall}
      BY <1>1, <2>3 DEF Parked, TypeOK, Driver
    <3>3. \/ drv[d].parked = NoCall \/ drv[d].parked \in disowned
          \/ Running /\ run.parked = drv[d].parked
      BY <3>1, <3>2 DEF Informed, Over
    <3>4. Waited'
      BY <2>3, <3>1, <3>3, NoCallAssumption DEF Parked, Waited, Running, JointInv, JointTypeOK
    <3> QED
      BY <2>3, <3>1, <3>4 DEF Parked, Informed, Over, Posted, Running
  <2>6. ASSUME NEW c \in Calls, Decides(c) \/ Looks(c) \/ Executes(c) PROVE Parked'
    <3>1. /\ UNCHANGED <<run, torii, drv, disowned>>
          /\ \A x \in Calls : asked'[x] # "no" => asked[x] # "no"
      BY <2>6 DEF Decides, Looks, Executes, vars, histories, JointInv, JointTypeOK
    <3>2. Waited'
      BY <2>3, <3>1 DEF Parked, Waited, Running
    <3> QED
      BY <2>3, <3>1, <3>2 DEF Parked, Informed, Over, Posted, Running
  <2>7. ASSUME NEW c \in Calls, Refuses(c) \/ Answers(c) \/ Expires(c) PROVE Parked'
    <3>1. disowned' = disowned /\ \A x \in Calls : asked'[x] # "no" => asked[x] # "no"
      BY <2>7 DEF Refuses, Answers, Expires, histories, JointInv, JointTypeOK
    <3>2. \/ UNCHANGED <<run, torii, drv>>
          \/ /\ torii[c] \in {"open", "done", "denied"}
             /\ \E s \in {"done", "denied", "void"} : Status(c, s)
      BY <2>7 DEF Refuses, Answers, Expires, vars
    <3>3. CASE UNCHANGED <<run, torii, drv>>
      <4>1. Waited'
        BY <2>3, <3>1, <3>3 DEF Parked, Waited, Running
      <4> QED
        BY <2>3, <3>1, <3>3, <4>1 DEF Parked, Informed, Over, Posted, Running
    <3> QED
      BY <1>1, <2>3, <3>1, <3>2, <3>3, StatusParks
  <2>8. CASE UNCHANGED jointVars
    BY <2>3, <2>8 DEF jointVars, vars, histories, Parked, Waited, Informed, Over, Posted, Running
  <2> QED
    BY <2>4, <2>5, <2>6, <2>7, <2>8 DEF JointNext, Serves
<1> QED
  BY <1>1, <1>2, <1>3 DEF JointInv

\* What the drivers, the row and Torii's requests know of each other: Torii is asked for the
\* open call that the run is parked on, and for no other, unless something has slipped or a
\* stale poll has struck (pollParkedMcpTasks, getTask).
THEOREM JointInvariance == JointSpec => []JointInv
<1>1. JointInit => JointInv
  BY InitJointInv
<1>2. JointInv /\ [JointNext]_jointVars => JointInv'
  BY NextJointInv
<1> QED
  BY <1>1, <1>2, PTL DEF JointSpec

\* An approval is executed for a run that still waits for it, however many replicas sweep,
\* crash and continue, and whenever operators decide: the hypotheses of the property are
\* needed, as a task that expires in mid-execution, a stale poll and a poll that Torii turns
\* down all break it.
THEOREM ExecutesForItsRun == JointSpec => ExecutedForItsRun
<1> DEFINE Fair == \A c \in Calls :
                     (sent'[c] # sent[c] /\ slips = {} /\ ~strayed) =>
                        \/ Running /\ run.parked = c
                        \/ torii[c] = "void"
                        \/ c \in disowned
<1>1. JointInv /\ [JointNext]_jointVars => [Fair]_jointVars
  <2> SUFFICES ASSUME JointInv, JointNext, NEW c \in Calls, sent'[c] # sent[c],
                      slips = {}, ~strayed
               PROVE  (Running /\ run.parked = c) \/ torii[c] = "void" \/ c \in disowned
    OBVIOUS
  <2>1. PICK x \in Calls : Executes(x)
    BY DEF JointNext, Shaiden, Asks, Decides, Serves, Refuses, Looks, Answers, Expires, avars,
       Torii!Park, Torii!Approve, Torii!Refuse, Torii!Decide
  <2>2. x = c
    BY <2>1 DEF Executes, Torii!Send, JointInv, JointTypeOK, Torii!ATypeOK
  <2>3. asked[c] = "executing" /\ torii[c] \in {"open", "void"}
    BY <2>1, <2>2 DEF Executes, JointInv, Executing
  <2> QED
    BY <2>3 DEF JointInv, Calm, Parked, Waited
<1> QED
  BY <1>1, JointInvariance, PTL DEF JointSpec, ExecutedForItsRun

=============================================================================
