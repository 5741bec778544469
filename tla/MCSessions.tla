----------------------------- MODULE MCSessions -----------------------------
EXTENDS Sessions, TLC

CONSTANTS u1, t1, t2, t3, q1, q2

Symmetry == Permutations({t1, t2, t3}) \cup Permutations({q1, q2})
=============================================================================
