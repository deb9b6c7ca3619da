---------------------------- MODULE MCGroupPolicy ---------------------------
(* A small instance of GroupPolicy for TLC: two groups of two definitions,   *)
(* under which a tool is run, gated or denied.                             *)
EXTENDS GroupPolicy, TLC

CONSTANTS a, b, q1, q2, q3, n1, n2, s1, t1, t2

TwoReplicas == {a, b}
ThreeRequests == {q1, q2, q3}
TwoNames == {n1, n2}
OneServer == {s1}
TwoTools == {t1, t2}

Lists(deny, gated) ==
    [s \in OneServer |-> [default |-> "allow", allow |-> {}, deny |-> deny, gated |-> gated]]
\* One definition runs t1 and gates t2, the other denies t1 and runs t2.
MCBodies == {Lists({}, {t2}), Lists({t1}, {})}

Symmetry ==
    Permutations(TwoReplicas) \cup Permutations(ThreeRequests) \cup Permutations(TwoNames)
=============================================================================
