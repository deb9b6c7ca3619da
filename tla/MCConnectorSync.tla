--------------------------- MODULE MCConnectorSync --------------------------
(* A small instance of ConnectorSync for TLC.  Replicas and requests are    *)
(* interchangeable, and so are the configurations of one strategy.          *)
EXTENDS ConnectorSync, TLC

CONSTANTS a, b, q1, q2, s1, u1, u2

TwoReplicas == {a, b}
TwoRequests == {q1, q2}
OneShared == {s1}
TwoOwned == {u1, u2}

Symmetry ==
    Permutations(TwoReplicas) \cup Permutations(TwoRequests)
        \cup Permutations(TwoOwned)
=============================================================================
