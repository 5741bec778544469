---------------------------- MODULE MCEmailChange ----------------------------
EXTENDS EmailChange, TLC

CONSTANTS u1, u2, a1, a2, g1, k1, k2, q1, q2

\* The Google account has the address a1.
MCGoogleAddress == [g \in {g1} |-> a1]

Symmetry ==
    Permutations({u1, u2}) \cup Permutations({k1, k2}) \cup Permutations({q1, q2})
=============================================================================
