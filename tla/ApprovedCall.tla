---------------------------- MODULE ApprovedCall ----------------------------
(***************************************************************************)
(* What Torii promises for a tool call that needs an operator's approval,  *)
(* whatever happens to requests, replicas and the backend: the call waits  *)
(* for one decision, the decision is final, and the backend receives the   *)
(* call at most once and only if the decision was to approve it.           *)
(***************************************************************************)
EXTENDS Naturals

CONSTANT Tasks

VARIABLES decision, sent

avars == <<decision, sent>>

Decisions == {"unborn", "awaiting", "approved", "refused"}

ATypeOK == /\ decision \in [Tasks -> Decisions]
           /\ sent \in [Tasks -> {0, 1}]

AInit == /\ decision = [t \in Tasks |-> "unborn"]
         /\ sent = [t \in Tasks |-> 0]

Decide(t, from, to) == /\ decision[t] = from
                       /\ decision' = [decision EXCEPT ![t] = to]
                       /\ UNCHANGED sent

Park(t) == Decide(t, "unborn", "awaiting")

Approve(t) == Decide(t, "awaiting", "approved")

Refuse(t) == Decide(t, "awaiting", "refused")

Send(t) == /\ decision[t] = "approved"
           /\ sent[t] = 0
           /\ sent' = [sent EXCEPT ![t] = 1]
           /\ UNCHANGED decision

ANext == \E t \in Tasks : Park(t) \/ Approve(t) \/ Refuse(t) \/ Send(t)

ASpec == AInit /\ [][ANext]_avars
=============================================================================
