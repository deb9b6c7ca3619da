---------------------------- MODULE MCGatedCalls ----------------------------
(* Small instances of GatedCalls for TLC.                                  *)
EXTENDS GatedCalls, TLC

CONSTANTS t1, t2, r1, r2, r3, gated, open

MCTasks == {t1, t2}
OneTask == {t1}
MCHandlers == {r1, r2, r3}
TwoHandlers == {r1, r2}
MCCalls == {gated, open}
MCGated == {gated}

\* Requests are interchangeable: nothing but their own state tells them apart.
Symmetry == Permutations(MCHandlers)
=============================================================================
