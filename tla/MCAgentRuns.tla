----------------------------- MODULE MCAgentRuns -----------------------------
EXTENDS AgentRuns, TLC

CONSTANTS r1, r2, r3, q1, q2, w1, w2, k1

Symmetry == Permutations({r1, r2, r3}) \cup Permutations({q1, q2}) \cup Permutations({w1, w2})
==============================================================================
