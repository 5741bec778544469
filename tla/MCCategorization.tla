-------------------------- MODULE MCCategorization --------------------------
EXTENDS Categorization, TLC

CONSTANTS u1, u2, t1, c1, c2, q1, q2, w1, w2

\* One user has a category of each type, the other has none.
MCOwner == (c1 :> u1) @@ (c2 :> u1)
MCType == (c1 :> "EXPENSE") @@ (c2 :> "INCOME")

Symmetry == Permutations({q1, q2}) \cup Permutations({w1, w2})
=============================================================================
