---------------------------- MODULE MCLinkDialog ----------------------------
(* A small instance of LinkDialog for TLC.                                 *)
EXTENDS LinkDialog, TLC

CONSTANTS p1, p2, r1, r2

OneProvider == {p1}
TwoProviders == {p1, p2}
TwoRequests == {r1, r2}
Symmetry == Permutations(TwoRequests)
=============================================================================
