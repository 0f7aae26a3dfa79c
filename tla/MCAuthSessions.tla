---------------------------- MODULE MCAuthSessions ----------------------------
EXTENDS AuthSessions
CONSTANTS w1, w2, e1, e2, n1, n2
MCWorkers == {w1, w2}
MCEmails == {e1, e2}
MCNames == {n1, n2}
Symmetry == Permutations(MCWorkers) \cup Permutations(MCEmails) \cup Permutations(MCNames)
=============================================================================
