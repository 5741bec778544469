------------------------- MODULE CategorizationProofs -------------------------
(***************************************************************************)
(* What holds of transactions and their categories for any numbers of      *)
(* users, transactions, categories, requests, workers and faults: workers  *)
(* that lost their lock included.                                          *)
(***************************************************************************)
EXTENDS Categorization, TLAPS

LEMMA InitInv == Init => IInv
BY NamesAssumption, CategoriesAssumption, NumbersAssumption
DEF Init, IInv, TypeOK, RequestInv, WorkerInv, JobInv, RowInv, ModelCategoryFits,
    Request, Blank, Type

\* One step per action, and under it one per conjunct that it can disturb; the
\* conjuncts whose variables it leaves alone share the last one.
LEMMA StepInv == IInv /\ [Next]_vars => IInv'
<1> SUFFICES ASSUME IInv, [Next]_vars PROVE IInv'
    OBVIOUS
<1> USE NamesAssumption, CategoriesAssumption, NumbersAssumption
<1> USE DEF IInv, Fault, NoFault, ReqGoto, Goto, OwnsCategory, txVars, tables,
        requestVars, queueVars, seen, workerVars
<1>1. ASSUME NEW q \in Requests, NEW b \in Body, Validate(q, b) PROVE IInv'
  <2> USE <1>1 DEF Validate, Valid, OwnsTransaction
  <2>1. TypeOK'
    BY DEF TypeOK, Request, Type, Body
  <2>2. RequestInv'
    BY DEF TypeOK, RequestInv, Request, Body
  <2>3. WorkerInv' /\ JobInv' /\ RowInv' /\ ModelCategoryFits'
    BY DEF WorkerInv, JobInv, RowInv, ModelCategoryFits
  <2> QED
    BY <2>1, <2>2, <2>3
<1>2. ASSUME NEW q \in Requests, InsertTransaction(q) PROVE IInv'
  <2> USE <1>2 DEF InsertTransaction, SetTransaction, Referable, Answered
  <2>1. TypeOK'
    <3>1. PICK t \in Transactions \ created :
              \E r \in {Blank, [body[q] EXCEPT !.tx = t]} :
                  body' = [body EXCEPT ![q] = r]
      OBVIOUS
    <3>2. Blank \in Request /\ [body[q] EXCEPT !.tx = t] \in Request
      BY DEF TypeOK, Blank, Request, Type
    <3>3. body' \in [Requests -> Request]
      BY <3>1, <3>2 DEF TypeOK
    <3>4. /\ txUser' \in [Transactions -> Users \cup {NoUser}]
          /\ txType' \in [Transactions -> Type]
      BY DEF TypeOK, Request
    <3> QED
      BY <3>3, <3>4 DEF TypeOK
  <2>2. RequestInv'
    <3> SUFFICES ASSUME NEW p \in Requests PROVE RequestInv!(p)'
      BY DEF RequestInv
    <3>1. CASE p = q
      BY <3>1 DEF TypeOK, RequestInv, Request, Blank
    <3>2. CASE p # q
      BY <3>2 DEF TypeOK, RequestInv
    <3> QED
      BY <3>1, <3>2
  <2>3. WorkerInv'
    BY DEF WorkerInv
  <2>4. JobInv'
    BY DEF JobInv
  <2>5. RowInv'
    BY DEF TypeOK, RowInv, RequestInv, Request
  <2>6. ModelCategoryFits'
    BY DEF TypeOK, ModelCategoryFits
  <2> QED
    BY <2>1, <2>2, <2>3, <2>4, <2>5, <2>6
<1>3. ASSUME NEW q \in Requests, UpdateTransaction(q) PROVE IInv'
  <2> USE <1>3 DEF UpdateTransaction, SetTransaction, Referable, Answered
  <2>1. TypeOK'
    BY DEF TypeOK, Request, Type, Blank
  <2>2. RequestInv'
    BY DEF TypeOK, RequestInv, Request, Blank
  <2>3. WorkerInv'
    BY DEF WorkerInv
  <2>4. RowInv'
    BY DEF TypeOK, RowInv, RequestInv, Request
  <2>5. ModelCategoryFits'
    BY DEF TypeOK, ModelCategoryFits
  <2>6. JobInv'
    BY DEF JobInv
  <2> QED
    BY <2>1, <2>2, <2>3, <2>4, <2>5, <2>6
<1>4. ASSUME NEW q \in Requests, DeleteTransaction(q) PROVE IInv'
  <2> USE <1>4 DEF DeleteTransaction, SetTransaction, Answered
  <2>1. TypeOK'
    BY DEF TypeOK, Request, Type, Blank
  <2>2. RequestInv'
    BY DEF TypeOK, RequestInv, Request, Blank
  <2>3. WorkerInv'
    BY DEF TypeOK, WorkerInv
  <2>4. RowInv'
    BY DEF TypeOK, RowInv
  <2>5. ModelCategoryFits'
    BY DEF TypeOK, ModelCategoryFits
  <2>6. JobInv'
    BY DEF JobInv
  <2> QED
    BY <2>1, <2>2, <2>3, <2>4, <2>5, <2>6
<1>5. ASSUME NEW q \in Requests, DeleteCategory(q) PROVE IInv'
  <2> USE <1>5 DEF DeleteCategory, SetNull, Answered
  <2>1. TypeOK'
    BY DEF TypeOK, Request, Type, Blank
  <2>2. RequestInv'
    BY DEF TypeOK, RequestInv, Request, Blank
  <2>3. RowInv'
    BY DEF RowInv
  <2>4. ModelCategoryFits'
    BY DEF TypeOK, ModelCategoryFits
  <2>5. WorkerInv' /\ JobInv'
    BY DEF WorkerInv, JobInv
  <2> QED
    BY <2>1, <2>2, <2>3, <2>4, <2>5
<1>6. ASSUME NEW q \in Requests, WriteFails(q) PROVE IInv'
  <2> USE <1>6 DEF WriteFails, Answered
  <2>1. TypeOK'
    BY DEF TypeOK, Request, Type, Blank
  <2>2. RequestInv'
    BY DEF TypeOK, RequestInv, Request, Blank
  <2>3. WorkerInv' /\ JobInv' /\ RowInv' /\ ModelCategoryFits'
    BY DEF WorkerInv, JobInv, RowInv, ModelCategoryFits
  <2> QED
    BY <2>1, <2>2, <2>3
<1>7. ASSUME NEW q \in Requests, Enqueue(q) PROVE IInv'
  <2> USE <1>7 DEF Enqueue, Answered
  <2>1. TypeOK'
    BY DEF TypeOK, Request, Type, Blank
  <2>2. RequestInv'
    BY DEF TypeOK, RequestInv, Request, Blank
  <2>3. JobInv'
    BY DEF TypeOK, JobInv, RequestInv, Request
  <2>4. WorkerInv' /\ RowInv' /\ ModelCategoryFits'
    BY DEF WorkerInv, RowInv, ModelCategoryFits
  <2> QED
    BY <2>1, <2>2, <2>3, <2>4
<1>8. ASSUME NEW w \in Workers, NEW t \in Transactions, Take(w, t) PROVE IInv'
  <2> USE <1>8 DEF Take
  <2>1. TypeOK'
    BY DEF TypeOK, Type
  <2>2. WorkerInv'
    BY DEF TypeOK, WorkerInv, JobInv
  <2>3. JobInv'
    BY DEF TypeOK, JobInv
  <2>4. RequestInv' /\ RowInv' /\ ModelCategoryFits'
    BY DEF RequestInv, RowInv, ModelCategoryFits
  <2> QED
    BY <2>1, <2>2, <2>3, <2>4
<1>9. ASSUME NEW t \in Transactions, Recover(t) PROVE IInv'
  <2> USE <1>9 DEF Recover
  <2>1. TypeOK'
    BY DEF TypeOK, Type
  <2>2. JobInv'
    BY DEF JobInv
  <2>3. RequestInv' /\ WorkerInv' /\ RowInv' /\ ModelCategoryFits'
    BY DEF RequestInv, WorkerInv, RowInv, ModelCategoryFits
  <2> QED
    BY <2>1, <2>2, <2>3
<1>10. ASSUME NEW w \in Workers, FindTransaction(w) PROVE IInv'
  <2> USE <1>10 DEF FindTransaction, Return, Forget
  <2>1. TypeOK'
    BY DEF TypeOK, RowInv, Type
  <2>2. WorkerInv'
    BY DEF TypeOK, WorkerInv
  <2>3. RequestInv' /\ JobInv' /\ RowInv' /\ ModelCategoryFits'
    BY DEF RequestInv, JobInv, RowInv, ModelCategoryFits
  <2> QED
    BY <2>1, <2>2, <2>3
<1>11. ASSUME NEW w \in Workers, FindCandidates(w) PROVE IInv'
  <2> USE <1>11 DEF FindCandidates, Return, Forget
  <2>1. TypeOK'
    BY DEF TypeOK, Type
  <2>2. WorkerInv'
    BY DEF TypeOK, WorkerInv
  <2>3. RequestInv' /\ JobInv' /\ RowInv' /\ ModelCategoryFits'
    BY DEF RequestInv, JobInv, RowInv, ModelCategoryFits
  <2> QED
    BY <2>1, <2>2, <2>3
<1>12. ASSUME NEW w \in Workers, ModelAnswers(w) PROVE IInv'
  <2> USE <1>12 DEF ModelAnswers, categorizationSchema, Return, Forget
  <2>1. TypeOK'
    BY DEF TypeOK, WorkerInv, Type
  <2>2. WorkerInv'
    BY DEF TypeOK, WorkerInv
  <2>3. RequestInv' /\ JobInv' /\ RowInv' /\ ModelCategoryFits'
    BY DEF RequestInv, JobInv, RowInv, ModelCategoryFits
  <2> QED
    BY <2>1, <2>2, <2>3
<1>13. ASSUME NEW w \in Workers, ModelFails(w) PROVE IInv'
  <2> USE <1>13 DEF ModelFails, FailJob, MoveJob, Release, Forget, LastAttempt
  <2>1. TypeOK'
    BY DEF TypeOK, WorkerInv, JobInv, Type
  <2>2. WorkerInv'
    BY DEF TypeOK, WorkerInv
  <2>3. JobInv'
    BY DEF TypeOK, JobInv
  <2>4. RequestInv' /\ RowInv' /\ ModelCategoryFits'
    BY DEF RequestInv, RowInv, ModelCategoryFits
  <2> QED
    BY <2>1, <2>2, <2>3, <2>4
<1>14. ASSUME NEW w \in Workers, Check(w) PROVE IInv'
  <2> USE <1>14 DEF Check, isAllowed, Return, Forget
  <2>1. TypeOK'
    BY DEF TypeOK, Type
  <2>2. WorkerInv'
    BY DEF TypeOK, WorkerInv
  <2>3. RequestInv' /\ JobInv' /\ RowInv' /\ ModelCategoryFits'
    BY DEF RequestInv, JobInv, RowInv, ModelCategoryFits
  <2> QED
    BY <2>1, <2>2, <2>3
<1>15. ASSUME NEW w \in Workers, setCategoryIfUnset(w) PROVE IInv'
  <2> USE <1>15 DEF setCategoryIfUnset, IsUnset, Referable, SetTransaction, Return,
         Forget
  <2>1. TypeOK'
    BY DEF TypeOK, WorkerInv, Type
  <2>2. WorkerInv'
    BY DEF TypeOK, WorkerInv
  <2>3. RowInv'
    BY DEF TypeOK, RowInv, WorkerInv
  <2>4. ModelCategoryFits'
    BY DEF TypeOK, ModelCategoryFits, WorkerInv
  <2>5. RequestInv' /\ JobInv'
    BY DEF RequestInv, JobInv
  <2> QED
    BY <2>1, <2>2, <2>3, <2>4, <2>5
<1>16. ASSUME NEW w \in Workers, CompleteJob(w) PROVE IInv'
  <2> USE <1>16 DEF CompleteJob, MoveJob, Release, Forget
  <2>1. TypeOK'
    BY DEF TypeOK, Type
  <2>2. WorkerInv'
    BY DEF TypeOK, WorkerInv
  <2>3. JobInv'
    BY DEF TypeOK, JobInv
  <2>4. RequestInv' /\ RowInv' /\ ModelCategoryFits'
    BY DEF RequestInv, RowInv, ModelCategoryFits
  <2> QED
    BY <2>1, <2>2, <2>3, <2>4
<1>17. ASSUME NEW w \in Workers, DatabaseFails(w) PROVE IInv'
  <2> USE <1>17 DEF DatabaseFails, FailJob, MoveJob, Release, Forget, LastAttempt
  <2>1. TypeOK'
    <3>1. attempts' \in [Transactions -> 0..MaxAttempts]
      BY DEF TypeOK, WorkerInv, JobInv
    <3> QED
      BY <3>1 DEF TypeOK, Type
  <2>2. WorkerInv'
    BY DEF TypeOK, WorkerInv
  <2>3. JobInv'
    BY DEF TypeOK, JobInv
  <2>4. RequestInv' /\ RowInv' /\ ModelCategoryFits'
    BY DEF RequestInv, RowInv, ModelCategoryFits
  <2> QED
    BY <2>1, <2>2, <2>3, <2>4
<1>18. ASSUME NEW w \in Workers, Stall(w) PROVE IInv'
  <2> USE <1>18 DEF Stall, LoseLock
  <2>1. TypeOK'
    BY DEF TypeOK, Type
  <2>2. JobInv'
    BY DEF JobInv
  <2>3. RequestInv' /\ WorkerInv' /\ RowInv' /\ ModelCategoryFits'
    BY DEF RequestInv, WorkerInv, RowInv, ModelCategoryFits
  <2> QED
    BY <2>1, <2>2, <2>3
<1>19. ASSUME NEW w \in Workers, Crash(w) PROVE IInv'
  <2> USE <1>19 DEF Crash, LoseLock, Release, Forget
  <2>1. TypeOK'
    BY DEF TypeOK, Type
  <2>2. WorkerInv'
    BY DEF TypeOK, WorkerInv
  <2>3. JobInv'
    BY DEF JobInv
  <2>4. RequestInv' /\ RowInv' /\ ModelCategoryFits'
    BY DEF RequestInv, RowInv, ModelCategoryFits
  <2> QED
    BY <2>1, <2>2, <2>3, <2>4
<1>20. ASSUME UNCHANGED vars PROVE IInv'
  BY <1>20 DEF vars, TypeOK, RequestInv, WorkerInv, JobInv, RowInv, ModelCategoryFits
<1> QED
  BY <1>1, <1>2, <1>3, <1>4, <1>5, <1>6, <1>7, <1>8, <1>9, <1>10,
     <1>11, <1>12, <1>13, <1>14, <1>15, <1>16, <1>17, <1>18, <1>19, <1>20 DEF Next, Serve, WorkerStep, QueueStep

\* The inductive invariant: what requests and workers rely on is still true when
\* they write.
THEOREM Invariance == Spec => []IInv
<1>1. QED
  BY InitInv, StepInv, PTL DEF Spec

\* Every variable keeps its type.
THEOREM TypeCorrect == Spec => []TypeOK
<1>1. IInv => TypeOK
  BY DEF IInv
<1> QED
  BY <1>1, Invariance, PTL

\* A transaction's category always exists and belongs to its user: the check of
\* ownership, the foreign key and SET NULL together leave no gap.
THEOREM Own == Spec => []OwnCategory
<1>1. IInv => OwnCategory
  BY DEF IInv, TypeOK, RowInv, OwnCategory
<1> QED
  BY <1>1, Invariance, PTL

\* A category that the model picked has the transaction's type, unless a user
\* changed the type after the job read it.
THEOREM Fits == Spec => []ModelCategoryFits
<1>1. IInv => ModelCategoryFits
  BY DEF IInv
<1> QED
  BY <1>1, Invariance, PTL

\* The model never replaces a category that is set: only the conditional update
\* writes for it.
LEMMA StepNeverOverwrites ==
    IInv /\ [Next]_vars =>
    [\A t \in Transactions : txCategory[t] # NoCategory /\ author'[t] = "model" =>
         txCategory'[t] = txCategory[t] /\ author[t] = "model"]_vars
<1> SUFFICES ASSUME IInv, Next, NEW t \in Transactions,
                    txCategory[t] # NoCategory, author'[t] = "model"
             PROVE txCategory'[t] = txCategory[t] /\ author[t] = "model"
    OBVIOUS
<1> USE DEF IInv, TypeOK, txVars, tables
<1>1. CASE \E q \in Requests : InsertTransaction(q)
  BY <1>1 DEF InsertTransaction, SetTransaction, RowInv
<1>2. CASE \E q \in Requests : UpdateTransaction(q)
  BY <1>2 DEF UpdateTransaction, SetTransaction
<1>3. CASE \E q \in Requests : DeleteTransaction(q)
  BY <1>3 DEF DeleteTransaction, SetTransaction
<1>4. CASE \E q \in Requests : DeleteCategory(q)
  BY <1>4 DEF DeleteCategory, SetNull
<1>5. CASE \E w \in Workers : setCategoryIfUnset(w)
  BY <1>5 DEF setCategoryIfUnset, SetTransaction, IsUnset
<1>6. CASE UNCHANGED <<txCategory, author>>
  BY <1>6
<1> QED
  BY <1>1, <1>2, <1>3, <1>4, <1>5, <1>6
  DEF Next, Serve, WorkerStep, QueueStep, Validate, WriteFails, Enqueue, Take, Recover,
      FindTransaction, FindCandidates, ModelAnswers, ModelFails, Check, CompleteJob,
      DatabaseFails, Stall, Crash

\* A category the user sets while the job runs always wins, and a second delivery
\* of a job changes nothing the first one wrote.
THEOREM NeverOverwrites == Spec => ModelNeverOverwrites
<1>1. QED
  BY Invariance, StepNeverOverwrites, PTL DEF Spec, ModelNeverOverwrites

=============================================================================
