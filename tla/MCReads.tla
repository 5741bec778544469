------------------------------ MODULE MCReads ------------------------------
(***************************************************************************)
(* Two components without shared state, the reads of the transactions and  *)
(* the chunks of the booklet, each explored while the other is idle.       *)
(***************************************************************************)
EXTENDS TransactionReads, Chunking

CONSTANTS u1, u2, a1, a2, c1, x1, x2

MCOwner == a1 :> u1 @@ a2 :> u2
MCCategoryOwner == c1 :> u1
MCBalances == {-20, 1000}
MCBounds == {<<0, 994>>, <<6, 1000>>}

Symmetry == Permutations({x1, x2})

\* A bound: only one account has another balance, and while there is at most a row.
OneBalance ==
    \A a \in DOMAIN initialBalance' :
        initialBalance'[a] # 1000 => a = a1 /\ Cardinality(DOMAIN rows') < 2

vars == <<readVars, chunkVars>>

Init == ReadsInit /\ ChunkInit

Next ==
    \/ ReadsNext /\ OneBalance /\ text = <<>> /\ page = 1 /\ UNCHANGED chunkVars
    \/ ChunkNext /\ initialBalance = Empty /\ categories = {} /\ UNCHANGED readVars

Spec == Init /\ [][Next]_vars
=============================================================================
