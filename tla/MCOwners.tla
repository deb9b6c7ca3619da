------------------------------- MODULE MCOwners -----------------------------
EXTENDS Owners, TLC

CONSTANTS o1, o2, s1, s2, a1, q1, q2

MCOwnerIds == {o1, o2}
MCSubjects == {s1, s2}
MCAgents == {a1}
MCRequests == {q1, q2}

\* Owners, subjects and requests are interchangeable.
MCSymmetry == Permutations(MCOwnerIds) \cup Permutations(MCSubjects)
                  \cup Permutations(MCRequests)
=============================================================================
