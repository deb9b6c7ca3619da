----------------------------- MODULE MCGatedRun -----------------------------
(* A small instance of GatedRun for TLC.                                   *)
EXTENDS GatedRun, TLC

CONSTANTS d1, d2, a, b, c1, c2

TwoDrivers == {d1, d2}
TwoReplicas == {a, b}
Apart == (d1 :> a) @@ (d2 :> b)
OneCall == {c1}
TwoCalls == {c1, c2}
NoMessages == {}
=============================================================================
