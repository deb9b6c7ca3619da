--------------------------- MODULE MCRunLifecycle ---------------------------
(* Small instances of RunLifecycle for TLC.                                *)
EXTENDS RunLifecycle, TLC

CONSTANTS d1, d2, d3, a, b, c1, c2, m1, m2

TwoDrivers == {d1, d2}
ThreeDrivers == {d1, d2, d3}
TwoReplicas == {a, b}
\* A replica each, or the first two on the same one.
Apart == (d1 :> a) @@ (d2 :> b)
Mixed == (d1 :> a) @@ (d2 :> a) @@ (d3 :> b)
Together == (d1 :> a) @@ (d2 :> a)
OneCall == {c1}
TwoCalls == {c1, c2}
OneMessage == {m1}
NoMessages == {}
TwoMessages == {m1, m2}
\* Drivers on one replica are alike.
Alike == Permutations(TwoDrivers)
\* A crash or a second call, or else a continuation and follow-ups; no lapses with two calls,
\* nor with a stale claim or re-park.
Plain == reopens = 0 /\ posting \cup accepted = {}
OneTrouble == /\ crashes = 0 \/ Plain
              /\ torii[c2] = "none" \/ (Plain /\ slips = {} /\ torii[c1] # "none")
              /\ slips = {} \/ ~overtaken
=============================================================================
