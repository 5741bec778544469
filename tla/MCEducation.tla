----------------------------- MODULE MCEducation -----------------------------
EXTENDS Education, TLC

CONSTANTS u1, b1, b2, b3, x1, x2, q1, q2

\* The table of plan.constants, with smaller numbers.
Row(accounts, perDay, rag) ==
    [bankAccounts |-> accounts, transactionsPerDay |-> perDay, ragQuestionsPerDay |-> rag]

MCLimits ==
    [p \in Plan |->
        CASE p = "FREE"     -> Row(1, 1, 0)
          [] p = "GOLD"     -> Row(2, 2, 1)
          [] p = "PLATINUM" -> Row(Infinity, Infinity, 2)
          [] OTHER          -> Row(Infinity, Infinity, Infinity)]

Symmetry ==
    Permutations({b1, b2, b3}) \cup Permutations({x1, x2}) \cup Permutations({q1, q2})
==============================================================================
