---------------------------- MODULE MCOAuthGrants ---------------------------
(* A small instance of OAuthGrants for TLC.  Replicas, callers, links and   *)
(* callbacks are interchangeable: every placement of callers is initial.   *)
EXTENDS OAuthGrants, TLC

CONSTANTS a, b, c1, c2, k1, k2, l1, l2

TwoReplicas == {a, b}
TwoCallers == {c1, c2}
TwoLinks == {l1, l2}
TwoCallbacks == {k1, k2}

Symmetry ==
    Permutations(TwoReplicas) \cup Permutations(TwoCallers)
        \cup Permutations(TwoLinks) \cup Permutations(TwoCallbacks)
=============================================================================
