---------------------------- MODULE AgentRunsProofs ----------------------------
(***************************************************************************)
(* What holds of the assistant's runs for any number of runs, requests,    *)
(* workers, attempts and faults, workers that lose their lock and keep     *)
(* running included; in all, the promise of RunPromise to the client.      *)
(***************************************************************************)
EXTENDS AgentRuns, FiniteSetTheorems, TLAPS

LEMMA AllowanceIsNat == Allowance \in Nat /\ Cardinality({}) = 0
<1>1. Cardinality(Requests) \in Nat /\ Cardinality({}) = 0
  BY RequestsAssumption, FS_CardinalityType, FS_EmptySet
<1> QED
  BY <1>1, NumbersAssumption DEF Allowance

LEMMA InitInv == Init => IInv
<1> SUFFICES ASSUME Init PROVE IInv
  OBVIOUS
<1>1. agentRunsToday = {} /\ Passed = {}
  BY DEF Init, agentRunsToday, Exists, Passed
<1>2. QuotaInv
  BY <1>1, FS_EmptySet, AllowanceIsNat DEF QuotaInv
<1> QED
  BY <1>2, RunsAssumption, NumbersAssumption DEF Init, IInv, TypeOK, RequestInv, WorkerInv,
     LockInv, Strayed, LoopInv, JobInv, OneRunPerKey, OpenRunsAreWatched, Open, Finished, Absent, Exists,
     IsOpen

\* The rows of agent_runs are written by few actions, and created by one.
LEMMA RowSteps ==
    ASSUME [Next]_vars
    PROVE  \/ UNCHANGED <<runVars, strays>>
           \/ \E q \in Requests : RegisterNew(q)
           \/ \E w \in Workers : MarkRunning(w) \/ Finish(w)
           \/ \E s \in Runs : FinishFailed(s)
BY DEF Next, AskStep, WorkerStep, QueueStep, FailedEventStep, vars, runVars, Ask, Lookup,
   ValidateGlobalAiBudget, ValidateDailyAiQuota, RegisterExisting, Enqueue, Take,
   FailDoomed, Recover, FindRun, ModelAnswers, ModelGivesUp, ModelCallsTools,
   ModelFails, CompleteJob, DatabaseFails, Stall, Crash, FindFailed, MarkFailedFails,
   history

\* ... the others write runs that exist.
LEMMA RunsStay ==
    ASSUME IInv, [Next]_vars, ~\E q \in Requests : RegisterNew(q)
    PROVE  agentRunsToday' = agentRunsToday
<1> USE DEF IInv, TypeOK, agentRunsToday, Exists, Absent, Open, Finished, IsOpen
<1>1. ASSUME NEW w \in Workers, MarkRunning(w) \/ Finish(w) PROVE agentRunsToday' = agentRunsToday
  <2>1. status[current[w]] # Absent /\ current[w] \in Runs
    BY <1>1 DEF WorkerInv, JobInv, MarkRunning, Finish
  <2>2. \E s \in Open \cup Finished : status' = [status EXCEPT ![current[w]] = s]
    BY <1>1 DEF MarkRunning, Finish
  <2> QED
    BY <2>1, <2>2
<1>2. ASSUME NEW r \in Runs, FinishFailed(r) PROVE agentRunsToday' = agentRunsToday
  BY <1>2 DEF FinishFailed, JobInv
<1> QED
  BY <1>1, <1>2, RowSteps DEF runVars

\* Only the count of today's runs lets a request past it.
LEMMA PassedSteps ==
    ASSUME IInv, [Next]_vars, ~\E q \in Requests : ValidateDailyAiQuota(q)
    PROVE  Passed' \subseteq Passed
<1> USE DEF IInv, TypeOK, Passed
<1>1. ASSUME NEW q \in Requests, AskStep(q) PROVE Passed' \subseteq Passed
  BY <1>1 DEF AskStep, Lookup, ValidateGlobalAiBudget, RegisterNew, RegisterExisting, Enqueue,
     Answer, AskGoto
<1>2. ASSUME NEW q \in Requests, NEW k \in Keys \cup {NoKey}, Ask(q, k)
      PROVE  Passed' \subseteq Passed
  BY <1>2 DEF Ask, AskGoto
<1>3. ASSUME NEW w \in Workers, Crash(w) PROVE Passed' \subseteq Passed
  BY <1>3 DEF Crash
<1>4. ASSUME UNCHANGED askPc PROVE Passed' \subseteq Passed
  BY <1>4
<1> QED
  BY <1>1, <1>2, <1>3, <1>4 DEF Next, WorkerStep, QueueStep, FailedEventStep, vars, askVars,
     Take, FailDoomed, Recover, FindRun, MarkRunning, Finish, ModelAnswers, ModelGivesUp,
     ModelCallsTools, ModelFails, CompleteJob, DatabaseFails, Stall, FindFailed,
     FinishFailed, MarkFailedFails

\* A request passes the count only below the quota, and a run that is inserted
\* takes its request out of those that passed.
LEMMA QuotaStep == ASSUME IInv, [Next]_vars PROVE QuotaInv'
<1> DEFINE E == agentRunsToday  P == Passed
<1>1. IsFiniteSet(P) /\ IsFiniteSet(P') /\ Cardinality(P') <= Cardinality(Requests)
  BY RequestsAssumption, FS_Subset DEF Passed
<1>2. /\ Cardinality(P) \in Nat /\ Cardinality(P') \in Nat /\ Cardinality(Requests) \in Nat
      /\ IsFiniteSet(E) /\ Cardinality(E) \in Nat /\ Cardinality(E) + Cardinality(P) <= Allowance
  BY <1>1, RequestsAssumption, FS_CardinalityType DEF IInv, QuotaInv
<1>3. CASE \E q \in Requests : RegisterNew(q)
  <2> PICK q \in Requests : RegisterNew(q)
    BY <1>3
  <2>1. q \in P /\ P' = P \ {q}
    BY DEF RegisterNew, AskGoto, Passed, IInv, TypeOK
  <2>2. PICK r \in Runs : ~Exists(r) /\ status' = [status EXCEPT ![r] = "QUEUED"]
    BY DEF RegisterNew
  <2>3. r \notin E /\ E' = E \cup {r}
    BY <2>2 DEF agentRunsToday, Exists, Absent, IInv, TypeOK
  <2>4. IsFiniteSet(E') /\ Cardinality(E') = Cardinality(E) + 1
    BY <2>3, <1>2, FS_AddElement
  <2>5. Cardinality(P') = Cardinality(P) - 1
    BY <2>1, <1>1, FS_RemoveElement
  <2> HIDE DEF E, P
  <2>6. Cardinality(E') + Cardinality(P') = Cardinality(E) + Cardinality(P)
    BY <2>4, <2>5, <1>2
  <2>7. Cardinality(E') + Cardinality(P') <= Allowance
    BY <2>6, <1>2
  <2> QED
    BY <2>4, <2>7 DEF QuotaInv, E, P, Allowance
<1>4. CASE /\ ~\E q \in Requests : RegisterNew(q)
           /\ ~\E q \in Requests : ValidateDailyAiQuota(q)
  <2>1. E' = E /\ P' \subseteq P
    BY <1>4, RunsStay, PassedSteps
  <2>2. Cardinality(P') <= Cardinality(P)
    BY <2>1, <1>1, FS_Subset
  <2> HIDE DEF E, P
  <2>3. Cardinality(E') + Cardinality(P') <= Allowance
    BY <2>1, <2>2, <1>2, AllowanceIsNat
  <2> QED
    BY <2>1, <2>3, <1>2 DEF QuotaInv, E, P, Allowance
<1>5. CASE /\ ~\E q \in Requests : RegisterNew(q)
           /\ \E q \in Requests : ValidateDailyAiQuota(q)
  <2> PICK q \in Requests : ValidateDailyAiQuota(q)
    BY <1>5
  <2>1. E' = E
    BY <1>5, RunsStay
  <2>2. CASE Cardinality(E) < DailyQuota
    <3> HIDE DEF E, P
    <3>1. Cardinality(E') + Cardinality(P') <= Allowance
      BY <2>1, <2>2, <1>1, <1>2, NumbersAssumption DEF Allowance
    <3> QED
      BY <2>1, <3>1, <1>2 DEF QuotaInv, E, P, Allowance
  <2>3. CASE ~(Cardinality(E) < DailyQuota)
    <3>1. P' \subseteq P
      BY <2>3 DEF ValidateDailyAiQuota, Answer, AskGoto, Passed, IInv, TypeOK
    <3>2. Cardinality(P') <= Cardinality(P)
      BY <3>1, <1>1, FS_Subset
    <3> HIDE DEF E, P
    <3>3. Cardinality(E') + Cardinality(P') <= Allowance
      BY <2>1, <3>2, <1>2, AllowanceIsNat
    <3> QED
      BY <2>1, <3>3, <1>2 DEF QuotaInv, E, P, Allowance
  <2> QED
    BY <2>2, <2>3
<1> QED
  BY <1>3, <1>4, <1>5

\* One step per action, and under it one per conjunct that it can disturb; the
\* conjuncts whose variables it leaves alone share the last one.
LEMMA StepInv == IInv /\ [Next]_vars => IInv'
<1> SUFFICES ASSUME IInv, [Next]_vars PROVE IInv'
    OBVIOUS
<1> USE RunsAssumption, NumbersAssumption
<1> USE DEF IInv, Fault, NoFault, AskGoto, Goto, Exists, IsOpen, Open, Finished, Absent,
        runVars, jobVars, askVars, loopVars, workerVars, history, strays, Strayed
<1>0. QuotaInv'
  BY QuotaStep
<1> USE <1>0
<1>1. ASSUME NEW q \in Requests, NEW k \in Keys \cup {NoKey}, Ask(q, k) PROVE IInv'
  <2> USE <1>1 DEF Ask
  <2>1. TypeOK'
    BY DEF TypeOK
  <2>2. RequestInv'
    BY DEF RequestInv
  <2>3. WorkerInv' /\ LoopInv' /\ JobInv' /\ OneRunPerKey' /\ OpenRunsAreWatched'
    BY DEF WorkerInv, LoopInv, JobInv, OneRunPerKey, OpenRunsAreWatched, Watched
  <2>9. LockInv'
    BY DEF TypeOK, WorkerInv, JobInv, LockInv
  <2> QED
    BY <2>1, <2>2, <2>3, <2>9
<1>2. ASSUME NEW q \in Requests, Lookup(q) PROVE IInv'
  <2> USE <1>2 DEF Lookup, Answer
  <2>1. TypeOK'
    BY DEF TypeOK
  <2>2. RequestInv'
    BY DEF TypeOK, RequestInv
  <2>3. OpenRunsAreWatched'
    BY DEF TypeOK, OpenRunsAreWatched, RequestInv, Watched
  <2>4. WorkerInv' /\ LoopInv' /\ JobInv' /\ OneRunPerKey'
    BY DEF WorkerInv, LoopInv, JobInv, OneRunPerKey
  <2>9. LockInv'
    BY DEF TypeOK, WorkerInv, JobInv, LockInv
  <2> QED
    BY <2>1, <2>2, <2>3, <2>4, <2>9
<1>3. ASSUME NEW q \in Requests, ValidateGlobalAiBudget(q) PROVE IInv'
  <2> USE <1>3 DEF ValidateGlobalAiBudget, Answer
  <2>1. TypeOK'
    BY DEF TypeOK
  <2>2. RequestInv'
    BY DEF TypeOK, RequestInv
  <2>3. OpenRunsAreWatched'
    BY DEF TypeOK, OpenRunsAreWatched, RequestInv, Watched
  <2>4. WorkerInv' /\ LoopInv' /\ JobInv' /\ OneRunPerKey'
    BY DEF WorkerInv, LoopInv, JobInv, OneRunPerKey
  <2>9. LockInv'
    BY DEF TypeOK, WorkerInv, JobInv, LockInv
  <2> QED
    BY <2>1, <2>2, <2>3, <2>4, <2>9
<1>4. ASSUME NEW q \in Requests, ValidateDailyAiQuota(q) PROVE IInv'
  <2> USE <1>4 DEF ValidateDailyAiQuota, Answer
  <2>1. TypeOK'
    BY DEF TypeOK
  <2>2. RequestInv'
    BY DEF TypeOK, RequestInv
  <2>3. OpenRunsAreWatched'
    BY DEF TypeOK, OpenRunsAreWatched, RequestInv, Watched
  <2>4. WorkerInv' /\ LoopInv' /\ JobInv' /\ OneRunPerKey'
    BY DEF WorkerInv, LoopInv, JobInv, OneRunPerKey
  <2>9. LockInv'
    BY DEF TypeOK, WorkerInv, JobInv, LockInv
  <2> QED
    BY <2>1, <2>2, <2>3, <2>4, <2>9
<1>5. ASSUME NEW q \in Requests, RegisterNew(q) PROVE IInv'
  <2> USE <1>5 DEF RegisterNew, KeyIsFree, WithKey
  <2>1. TypeOK'
    BY DEF TypeOK
  <2>2. RequestInv'
    BY DEF TypeOK, RequestInv, JobInv
  <2>3. WorkerInv'
    BY DEF WorkerInv
  <2>4. JobInv'
    BY DEF JobInv
  <2>5. OneRunPerKey'
    BY DEF TypeOK, OneRunPerKey
  <2>6. OpenRunsAreWatched'
    BY DEF TypeOK, OpenRunsAreWatched, RequestInv, Watched
  <2>7. LoopInv'
    BY DEF LoopInv
  <2>9. LockInv'
    BY DEF TypeOK, WorkerInv, JobInv, LockInv
  <2> QED
    BY <2>1, <2>2, <2>3, <2>4, <2>5, <2>6, <2>7, <2>9
<1>6. ASSUME NEW q \in Requests, RegisterExisting(q) PROVE IInv'
  <2> USE <1>6 DEF RegisterExisting, Answer
  <2>1. TypeOK'
    BY DEF TypeOK
  <2>2. RequestInv'
    BY DEF RequestInv
  <2>3. OpenRunsAreWatched'
    BY DEF TypeOK, OpenRunsAreWatched, RequestInv, Watched
  <2>4. WorkerInv' /\ LoopInv' /\ JobInv' /\ OneRunPerKey'
    BY DEF WorkerInv, LoopInv, JobInv, OneRunPerKey
  <2>9. LockInv'
    BY DEF TypeOK, WorkerInv, JobInv, LockInv
  <2> QED
    BY <2>1, <2>2, <2>3, <2>4, <2>9
<1>7. ASSUME NEW q \in Requests, Enqueue(q) PROVE IInv'
  <2> USE <1>7 DEF Enqueue, Answer
  <2>1. TypeOK'
    BY DEF TypeOK, RequestInv
  <2>2. RequestInv'
    BY DEF TypeOK, RequestInv
  <2>3. WorkerInv'
    BY DEF TypeOK, WorkerInv
  <2>4. JobInv'
    BY DEF TypeOK, JobInv, RequestInv
  <2>5. OpenRunsAreWatched'
    BY DEF TypeOK, OpenRunsAreWatched, RequestInv, Watched
  <2>6. LoopInv' /\ OneRunPerKey'
    BY DEF LoopInv, OneRunPerKey
  <2>9. LockInv'
    BY DEF TypeOK, WorkerInv, JobInv, LockInv
  <2> QED
    BY <2>1, <2>2, <2>3, <2>4, <2>5, <2>6, <2>9
<1>8. ASSUME NEW w \in Workers, NEW r \in Runs, Take(w, r) PROVE IInv'
  <2> USE <1>8 DEF Take
  <2>1. TypeOK'
    BY DEF TypeOK
  <2>2. RequestInv'
    BY DEF RequestInv
  <2>3. WorkerInv'
    BY DEF TypeOK, WorkerInv
  <2>4. LoopInv'
    BY DEF LoopInv
  <2>5. JobInv'
    BY DEF TypeOK, JobInv, WorkerInv
  <2>6. OpenRunsAreWatched'
    BY DEF OpenRunsAreWatched, Watched
  <2>7. OneRunPerKey'
    BY DEF OneRunPerKey
  <2>9. LockInv'
    BY DEF TypeOK, WorkerInv, JobInv, LockInv
  <2> QED
    BY <2>1, <2>2, <2>3, <2>4, <2>5, <2>6, <2>7, <2>9
<1>9. ASSUME NEW w \in Workers, NEW r \in Runs, FailDoomed(w, r) PROVE IInv'
  <2> USE <1>9 DEF FailDoomed
  <2>1. TypeOK'
    BY DEF TypeOK
  <2>2. RequestInv'
    BY DEF RequestInv
  <2>3. WorkerInv'
    BY DEF WorkerInv
  <2>4. JobInv'
    BY DEF TypeOK, JobInv
  <2>5. OpenRunsAreWatched'
    BY DEF TypeOK, OpenRunsAreWatched, Watched
  <2>6. LoopInv' /\ OneRunPerKey'
    BY DEF LoopInv, OneRunPerKey
  <2>9. LockInv'
    BY DEF TypeOK, WorkerInv, JobInv, LockInv
  <2> QED
    BY <2>1, <2>2, <2>3, <2>4, <2>5, <2>6, <2>9
<1>10. ASSUME NEW r \in Runs, Recover(r) PROVE IInv'
  <2> USE <1>10 DEF Recover
  <2>1. TypeOK'
    BY DEF TypeOK, JobInv
  <2>2. RequestInv'
    BY DEF RequestInv
  <2>3. WorkerInv'
    BY DEF WorkerInv
  <2>4. JobInv'
    BY DEF TypeOK, JobInv
  <2>5. OpenRunsAreWatched'
    BY DEF OpenRunsAreWatched, Watched
  <2>6. LoopInv' /\ OneRunPerKey'
    BY DEF LoopInv, OneRunPerKey
  <2>9. LockInv'
    BY DEF TypeOK, WorkerInv, JobInv, LockInv
  <2> QED
    BY <2>1, <2>2, <2>3, <2>4, <2>5, <2>6, <2>9
<1>11. ASSUME NEW w \in Workers, FindRun(w) PROVE IInv'
  <2> USE <1>11 DEF FindRun
  <2>1. TypeOK'
    BY DEF TypeOK
  <2>2. WorkerInv'
    BY DEF TypeOK, WorkerInv, JobInv
  <2>3. LoopInv'
    BY DEF LoopInv
  <2>4. RequestInv' /\ JobInv' /\ OneRunPerKey' /\ OpenRunsAreWatched'
    BY DEF RequestInv, JobInv, OneRunPerKey, OpenRunsAreWatched, Watched
  <2>9. LockInv'
    BY DEF TypeOK, WorkerInv, JobInv, LockInv
  <2> QED
    BY <2>1, <2>2, <2>3, <2>4, <2>9
<1>12. ASSUME NEW w \in Workers, MarkRunning(w) PROVE IInv'
  <2> USE <1>12 DEF MarkRunning
  <2>1. TypeOK'
    BY DEF TypeOK, WorkerInv
  <2>2. RequestInv'
    BY DEF TypeOK, RequestInv, WorkerInv
  <2>3. WorkerInv'
    BY DEF WorkerInv
  <2>4. LoopInv'
    BY DEF LoopInv
  <2>5. JobInv'
    BY DEF TypeOK, JobInv, WorkerInv
  <2>6. OneRunPerKey'
    BY DEF TypeOK, OneRunPerKey, WorkerInv, JobInv
  <2>7. OpenRunsAreWatched'
    BY DEF TypeOK, OpenRunsAreWatched, WorkerInv, JobInv, Watched
  <2>9. LockInv'
    BY DEF TypeOK, WorkerInv, JobInv, LockInv
  <2> QED
    BY <2>1, <2>2, <2>3, <2>4, <2>5, <2>6, <2>7, <2>9
<1>13. ASSUME NEW w \in Workers, ModelAnswers(w) PROVE IInv'
  <2> USE <1>13 DEF ModelAnswers, Conclude
  <2>1. TypeOK'
    BY DEF TypeOK
  <2>2. WorkerInv'
    BY DEF WorkerInv
  <2>3. LoopInv'
    BY DEF LoopInv
  <2>4. RequestInv' /\ JobInv' /\ OneRunPerKey' /\ OpenRunsAreWatched'
    BY DEF RequestInv, JobInv, OneRunPerKey, OpenRunsAreWatched, Watched
  <2>9. LockInv'
    BY DEF TypeOK, WorkerInv, JobInv, LockInv
  <2> QED
    BY <2>1, <2>2, <2>3, <2>4, <2>9
<1>14. ASSUME NEW w \in Workers, ModelGivesUp(w) PROVE IInv'
  <2> USE <1>14 DEF ModelGivesUp, Conclude
  <2>1. TypeOK'
    BY DEF TypeOK
  <2>2. WorkerInv'
    BY DEF WorkerInv
  <2>3. LoopInv'
    BY DEF LoopInv
  <2>4. RequestInv' /\ JobInv' /\ OneRunPerKey' /\ OpenRunsAreWatched'
    BY DEF RequestInv, JobInv, OneRunPerKey, OpenRunsAreWatched, Watched
  <2>9. LockInv'
    BY DEF TypeOK, WorkerInv, JobInv, LockInv
  <2> QED
    BY <2>1, <2>2, <2>3, <2>4, <2>9
<1>15. ASSUME NEW w \in Workers, ModelCallsTools(w) PROVE IInv'
  <2> USE <1>15 DEF ModelCallsTools, NextRound, Conclude
  <2>1. TypeOK'
    BY DEF TypeOK, LoopInv
  <2>2. WorkerInv'
    BY DEF TypeOK, WorkerInv
  <2>3. LoopInv'
    BY DEF TypeOK, LoopInv
  <2>4. RequestInv' /\ JobInv' /\ OneRunPerKey' /\ OpenRunsAreWatched'
    BY DEF RequestInv, JobInv, OneRunPerKey, OpenRunsAreWatched, Watched
  <2>9. LockInv'
    BY DEF TypeOK, WorkerInv, JobInv, LockInv
  <2> QED
    BY <2>1, <2>2, <2>3, <2>4, <2>9
<1>16. ASSUME NEW w \in Workers, ModelFails(w) PROVE IInv'
  <2> USE <1>16 DEF ModelFails, FailJob, outOfAttempts, Release, ResetLoop
  <2>1. TypeOK'
    BY DEF TypeOK, JobInv
  <2>2. RequestInv'
    BY DEF TypeOK, RequestInv, WorkerInv
  <2>3. WorkerInv'
    BY DEF TypeOK, WorkerInv
  <2>4. LoopInv'
    BY DEF TypeOK, LoopInv
  <2>5. JobInv'
    BY DEF TypeOK, JobInv
  <2>6. OpenRunsAreWatched'
    BY DEF TypeOK, OpenRunsAreWatched, Watched
  <2>7. OneRunPerKey'
    BY DEF OneRunPerKey
  <2>9. LockInv'
    BY DEF TypeOK, WorkerInv, JobInv, LockInv
  <2> QED
    BY <2>1, <2>2, <2>3, <2>4, <2>5, <2>6, <2>7, <2>9
<1>17. ASSUME NEW w \in Workers, Finish(w) PROVE IInv'
  <2> USE <1>17 DEF Finish
  <2>1. TypeOK'
    BY DEF TypeOK, WorkerInv
  <2>2. RequestInv'
    BY DEF TypeOK, RequestInv, WorkerInv
  <2>3. WorkerInv'
    BY DEF TypeOK, WorkerInv
  <2>4. LoopInv'
    BY DEF LoopInv
  <2>5. JobInv'
    BY DEF TypeOK, JobInv, WorkerInv
  <2>6. OneRunPerKey'
    BY DEF TypeOK, OneRunPerKey, WorkerInv, JobInv
  <2>7. OpenRunsAreWatched'
    BY DEF TypeOK, OpenRunsAreWatched, Watched
  <2>9. LockInv'
    BY DEF TypeOK, WorkerInv, JobInv, LockInv
  <2> QED
    BY <2>1, <2>2, <2>3, <2>4, <2>5, <2>6, <2>7, <2>9
<1>18. ASSUME NEW w \in Workers, CompleteJob(w) PROVE IInv'
  <2> USE <1>18 DEF CompleteJob, Release, ResetLoop
  <2>1. TypeOK'
    BY DEF TypeOK
  <2>2. RequestInv'
    BY DEF TypeOK, RequestInv, WorkerInv
  <2>3. WorkerInv'
    BY DEF TypeOK, WorkerInv
  <2>4. LoopInv'
    BY DEF TypeOK, LoopInv
  <2>5. JobInv'
    BY DEF TypeOK, JobInv, WorkerInv
  <2>6. OpenRunsAreWatched'
    BY DEF TypeOK, OpenRunsAreWatched, WorkerInv, Watched
  <2>7. OneRunPerKey'
    BY DEF OneRunPerKey
  <2>9. LockInv'
    BY DEF TypeOK, WorkerInv, JobInv, LockInv
  <2> QED
    BY <2>1, <2>2, <2>3, <2>4, <2>5, <2>6, <2>7, <2>9
<1>19. ASSUME NEW w \in Workers, DatabaseFails(w) PROVE IInv'
  <2> USE <1>19 DEF DatabaseFails, FailJob, outOfAttempts, Release, ResetLoop
  <2>1. TypeOK'
    BY DEF TypeOK, JobInv
  <2>2. RequestInv'
    BY DEF TypeOK, RequestInv, WorkerInv
  <2>3. WorkerInv'
    BY DEF TypeOK, WorkerInv
  <2>4. LoopInv'
    BY DEF TypeOK, LoopInv
  <2>5. JobInv'
    BY DEF TypeOK, JobInv
  <2>6. OpenRunsAreWatched'
    BY DEF TypeOK, OpenRunsAreWatched, Watched
  <2>7. OneRunPerKey'
    BY DEF OneRunPerKey
  <2>9. LockInv'
    BY DEF TypeOK, WorkerInv, JobInv, LockInv
  <2> QED
    BY <2>1, <2>2, <2>3, <2>4, <2>5, <2>6, <2>7, <2>9
<1>20. ASSUME NEW r \in Runs, FindFailed(r) PROVE IInv'
  <2> USE <1>20 DEF FindFailed, FailingGoto
  <2>1. TypeOK'
    BY DEF TypeOK
  <2>2. JobInv'
    BY DEF JobInv
  <2>3. OpenRunsAreWatched'
    BY DEF OpenRunsAreWatched, Watched
  <2>4. RequestInv' /\ WorkerInv' /\ LoopInv' /\ OneRunPerKey'
    BY DEF RequestInv, WorkerInv, LoopInv, OneRunPerKey
  <2>9. LockInv'
    BY DEF TypeOK, WorkerInv, JobInv, LockInv
  <2> QED
    BY <2>1, <2>2, <2>3, <2>4, <2>9
<1>21. ASSUME NEW r \in Runs, FinishFailed(r) PROVE IInv'
  <2> USE <1>21 DEF FinishFailed, FailingGoto
  <2>1. TypeOK'
    BY DEF TypeOK
  <2>2. RequestInv'
    BY DEF TypeOK, RequestInv, JobInv
  <2>3. WorkerInv'
    BY DEF TypeOK, WorkerInv, JobInv
  <2>4. JobInv'
    BY DEF TypeOK, JobInv
  <2>5. OneRunPerKey'
    BY DEF TypeOK, OneRunPerKey, JobInv
  <2>6. OpenRunsAreWatched'
    BY DEF TypeOK, OpenRunsAreWatched, Watched
  <2>7. LoopInv'
    BY DEF LoopInv
  <2>9. LockInv'
    BY DEF TypeOK, WorkerInv, JobInv, LockInv
  <2> QED
    BY <2>1, <2>2, <2>3, <2>4, <2>5, <2>6, <2>7, <2>9
<1>22. ASSUME NEW r \in Runs, MarkFailedFails(r) PROVE IInv'
  <2> USE <1>22 DEF MarkFailedFails, FailingGoto
  <2>1. TypeOK'
    BY DEF TypeOK
  <2>2. JobInv'
    BY DEF JobInv
  <2>3. OpenRunsAreWatched'
    BY DEF OpenRunsAreWatched, Watched
  <2>4. RequestInv' /\ WorkerInv' /\ LoopInv' /\ OneRunPerKey'
    BY DEF RequestInv, WorkerInv, LoopInv, OneRunPerKey
  <2>9. LockInv'
    BY DEF TypeOK, WorkerInv, JobInv, LockInv
  <2> QED
    BY <2>1, <2>2, <2>3, <2>4, <2>9
<1>23. ASSUME NEW w \in Workers, Crash(w) PROVE IInv'
  <2> USE <1>23 DEF Crash, LoseLock, Release, ResetLoop
  <2>1. TypeOK'
    BY DEF TypeOK
  <2>2. RequestInv'
    BY DEF RequestInv
  <2>3. WorkerInv'
    BY DEF TypeOK, WorkerInv
  <2>4. LoopInv'
    BY DEF TypeOK, LoopInv
  <2>5. JobInv'
    BY DEF JobInv
  <2>6. OpenRunsAreWatched'
    BY DEF OpenRunsAreWatched, Watched
  <2>7. OneRunPerKey'
    BY DEF OneRunPerKey
  <2>9. LockInv'
    BY DEF TypeOK, WorkerInv, JobInv, LockInv
  <2> QED
    BY <2>1, <2>2, <2>3, <2>4, <2>5, <2>6, <2>7, <2>9
<1>25. ASSUME NEW w \in Workers, Stall(w) PROVE IInv'
  <2> USE <1>25 DEF Stall, LoseLock
  <2>1. TypeOK'
    BY DEF TypeOK
  <2>2. WorkerInv'
    BY DEF TypeOK, WorkerInv
  <2>3. JobInv'
    BY DEF JobInv
  <2>4. OpenRunsAreWatched'
    BY DEF OpenRunsAreWatched, Watched
  <2>5. RequestInv' /\ LoopInv' /\ OneRunPerKey' /\ LockInv'
    BY DEF RequestInv, LoopInv, OneRunPerKey, LockInv
  <2> QED
    BY <2>1, <2>2, <2>3, <2>4, <2>5
<1>24. ASSUME UNCHANGED vars PROVE IInv'
  BY <1>24 DEF vars, TypeOK, RequestInv, WorkerInv, LockInv, LoopInv, JobInv, OneRunPerKey,
      OpenRunsAreWatched, Watched
<1> QED
  BY <1>1, <1>2, <1>3, <1>4, <1>5, <1>6, <1>7, <1>8, <1>9, <1>10, <1>11, <1>12,
     <1>13, <1>14, <1>15, <1>16, <1>17, <1>18, <1>19, <1>20, <1>21, <1>22, <1>23,
     <1>24, <1>25
     DEF Next, AskStep, WorkerStep, QueueStep, FailedEventStep

\* Type correctness and the invariant the other theorems follow from.
THEOREM Invariance == Spec => []IInv
BY InitInv, StepInv, PTL DEF Spec

\* Every variable keeps its type: in particular the tool loop never passes MAX_STEPS.
THEOREM TypeCorrect == Spec => []TypeOK
<1>1. IInv => TypeOK
  BY DEF IInv
<1> QED
  BY <1>1, Invariance, PTL

\* An open run always has a request, a job or a failure handler that will finish it,
\* unless a fault swallowed it or a worker without its lock opened it again.
THEOREM Watching == Spec => []OpenRunsAreWatched
BY Invariance, PTL DEF IInv

\* The repeats of a request never get two runs, however many overlap.
THEOREM OneRun == Spec => []OneRunPerKey
BY Invariance, PTL DEF IInv

LEMMA StepFinal ==
    ASSUME IInv, [Next]_vars, NEW r \in Runs, status[r] \in Finished
    PROVE  UNCHANGED <<status[r], steps[r]>> \/ Strayed(r)'
<1> USE DEF IInv, TypeOK, Open, Finished, Absent, IsOpen, Exists, Strayed, runVars
<1>1. ASSUME NEW q \in Requests, RegisterNew(q) PROVE UNCHANGED <<status[r], steps[r]>>
  BY <1>1 DEF RegisterNew
<1>2. ASSUME NEW w \in Workers, MarkRunning(w) \/ Finish(w)
      PROVE  UNCHANGED <<status[r], steps[r]>> \/ Strayed(r)'
  <2>1. CASE current[w] # r
    BY <1>2, <2>1 DEF MarkRunning, Finish
  <2>2. CASE current[w] = r /\ lock[r] = w
    BY <1>2, <2>2 DEF MarkRunning, Finish, WorkerInv
  <2>3. CASE current[w] = r /\ lock[r] # w
    BY <1>2, <2>3 DEF MarkRunning, Finish
  <2> QED
    BY <2>1, <2>2, <2>3
<1>3. ASSUME NEW s \in Runs, FinishFailed(s)
      PROVE  UNCHANGED <<status[r], steps[r]>> \/ Strayed(r)'
  BY <1>3 DEF FinishFailed, JobInv, history, strays
<1> QED
  BY <1>1, <1>2, <1>3, RowSteps

\* The answer a client saw is never replaced, by whichever crash, retry, redelivery or
\* failure event, unless a worker that had lost its lock wrote the run: the status check
\* at the start keeps all others out, stalled jobs included.
THEOREM Final == Spec => OverwrittenOnlyAfterStall
<1>1. IInv /\ [Next]_vars =>
          [\A r \in Runs : status[r] \in Finished =>
               UNCHANGED <<status[r], steps[r]>> \/ Strayed(r)']_vars
  BY StepFinal
<1> QED
  BY <1>1, Invariance, PTL DEF Spec, OverwrittenOnlyAfterStall

------------------------------------------------------------------------------
(* The refinement *)

\* The statuses of a run are told apart, and an open run is one to the client, unless
\* its answer is void.
LEMMA Polls ==
    ASSUME IInv, NEW r \in Runs
    PROVE  /\ polled[r] = "absent" <=> ~Exists(r)
           /\ polled[r] = "open" <=> IsOpen(r) /\ ~Strayed(r)
           /\ polled[r] = "void" <=> Strayed(r)
BY DEF IInv, TypeOK, JobInv, polled, IsOpen, Exists, Absent, Open, Finished

\* The abstract module's instance of Cardinality is Cardinality.
LEMMA SameCardinality == \A S : Promise!Cardinality(S) = Cardinality(S)
BY DEF Promise!Cardinality, Cardinality

LEMMA AcceptedAreToday == IInv => Promise!Accepted = agentRunsToday
BY Polls DEF Promise!Accepted, agentRunsToday

\* An insert is an acceptance: the key is free, and the request passed the count.
LEMMA RegisterAccepts ==
    ASSUME IInv, NEW q \in Requests, RegisterNew(q)
    PROVE  Promise!Next
<1>1. PICK r \in Runs :
          /\ ~Exists(r)
          /\ status' = [status EXCEPT ![r] = "QUEUED"]
          /\ runKey' = [runKey EXCEPT ![r] = askKey[q]]
  BY DEF RegisterNew
<1>2. polled[r] = "absent" /\ askKey[q] \in Keys \cup {NoKey}
  BY <1>1, Polls DEF IInv, TypeOK
<1>3. polled' = [polled EXCEPT ![r] = "open"] /\ UNCHANGED stepsPolled
  <2>1. ~Strayed(r) /\ \A s \in Runs : Strayed(s)' <=> Strayed(s)
    BY <1>1 DEF RegisterNew, IInv, JobInv, Strayed, history, strays
  <2>2. UNCHANGED steps /\ status \in [Runs -> Open \cup Finished \cup {Absent}]
    BY DEF RegisterNew, IInv, TypeOK
  <2> QED
    BY <1>1, <2>1, <2>2 DEF polled, stepsPolled, IsOpen, Exists, Absent, Open, Finished
<1>4. Cardinality(agentRunsToday) < Allowance
  <2>1. IsFiniteSet(Passed) /\ q \in Passed
    BY RequestsAssumption, FS_Subset DEF Passed, RegisterNew
  <2>2. Cardinality(Passed) \in Nat \ {0}
    BY <2>1, FS_CardinalityType, FS_EmptySet
  <2>3. Cardinality(agentRunsToday) \in Nat
    BY FS_CardinalityType DEF IInv, QuotaInv
  <2> QED
    BY <2>2, <2>3, AllowanceIsNat DEF IInv, QuotaInv
<1>5. askKey[q] # NoKey => \A s \in agentRunsToday : runKey[s] # askKey[q]
  BY DEF RegisterNew, KeyIsFree, WithKey, agentRunsToday
<1>6. Promise!Accept(r)
  BY <1>1, <1>2, <1>3, <1>4, <1>5, AcceptedAreToday, SameCardinality DEF Promise!Accept
<1> QED
  BY <1>6 DEF Promise!Next

\* Whoever writes a final status finds the run open: the worker that holds its
\* lock, or the failure handler of a job nobody works on.
LEMMA FinalSettles ==
    ASSUME IInv, NEW r \in Runs, NEW answer \in Finished, NEW n \in 0..MaxSteps,
           IsOpen(r), ~Strayed(r), UNCHANGED <<runKey, strays>>,
           status' = [status EXCEPT ![r] = answer], steps' = [steps EXCEPT ![r] = n]
    PROVE  Promise!Next
<1>1. polled[r] = "open"
  BY Polls
<1>2. \A s \in Runs : Strayed(s)' <=> Strayed(s)
  BY DEF Strayed, strays
<1>3. /\ polled' = [polled EXCEPT ![r] = answer]
      /\ stepsPolled' = [stepsPolled EXCEPT ![r] = n]
  BY <1>2 DEF IInv, TypeOK, polled, stepsPolled, IsOpen, Open, Finished
<1>4. Promise!Settle(r)
  BY <1>1, <1>3 DEF Promise!Settle
<1> QED
  BY <1>4 DEF Promise!Next

\* What is written to a run whose answer is void, or makes it so, is no other promise.
LEMMA VoidStep ==
    ASSUME IInv, NEW r \in Runs, Exists(r), UNCHANGED runKey, Strayed(r)',
           Strayed(r) \/ "stall" \in FaultKinds,
           \A s \in Runs : s # r => /\ UNCHANGED <<status[s], steps[s]>>
                                    /\ Strayed(s)' <=> Strayed(s)
    PROVE  [Promise!Next]_(Promise!promiseVars)
<1>1. /\ polled' = [polled EXCEPT ![r] = "void"]
      /\ stepsPolled' = [stepsPolled EXCEPT ![r] = 0]
  BY DEF polled, stepsPolled, IsOpen
<1>2. CASE Strayed(r)
  <2>1. polled[r] = "void" /\ stepsPolled[r] = 0
    BY <1>2 DEF polled, stepsPolled
  <2>2. polled' = polled /\ stepsPolled' = stepsPolled
    BY <1>1, <2>1 DEF polled, stepsPolled
  <2> QED
    BY <2>2 DEF Promise!promiseVars
<1>3. CASE ~Strayed(r)
  <2>1. polled[r] \notin {"absent", "void"}
    BY <1>3, Polls
  <2>2. Promise!Void(r)
    BY <1>1, <1>3, <2>1 DEF Promise!Void
  <2> QED
    BY <2>2 DEF Promise!Next
<1> QED
  BY <1>2, <1>3

LEMMA PromiseStep ==
    ASSUME IInv, [Next]_vars
    PROVE  [Promise!Next]_(Promise!promiseVars)
<1> USE DEF Strayed, history, strays
<1>0. TypeOK /\ WorkerInv /\ LockInv /\ JobInv
  BY DEF IInv
<1>1. CASE UNCHANGED <<runVars, strays>>
  BY <1>1 DEF runVars, Promise!promiseVars, polled, stepsPolled, IsOpen
<1>2. ASSUME NEW q \in Requests, RegisterNew(q) PROVE Promise!Next
  BY <1>2, RegisterAccepts
<1>3. ASSUME NEW w \in Workers, MarkRunning(w) PROVE [Promise!Next]_(Promise!promiseVars)
  <2> PICK r \in Runs : r = current[w]
    BY <1>0, <1>3 DEF MarkRunning, WorkerInv
  <2>1. Exists(r)
    BY <1>0, <1>3 DEF MarkRunning, WorkerInv, JobInv
  <2>2. /\ UNCHANGED <<runKey, stray>> /\ reopened \subseteq reopened'
        /\ \A s \in Runs : s # r => UNCHANGED <<status[s], steps[s]>> /\ (s \in reopened' <=> s \in reopened)
        /\ status'[r] = "RUNNING" /\ status' = [status EXCEPT ![r] = "RUNNING"]
        /\ r \in reopened' => r \in reopened \/ lock[r] # w
        /\ r \in reopened' \/ lock[r] = w \/ IsOpen(r)
    BY <1>0, <1>3, <2>1 DEF MarkRunning, TypeOK, Exists, IsOpen, Open, Finished, Absent
  <2>3. CASE Strayed(r)'
    <3>1. Strayed(r) \/ "stall" \in FaultKinds
      BY <1>0, <1>3, <2>2, <2>3 DEF MarkRunning, LockInv
    <3> QED
      BY <2>1, <2>2, <2>3, <3>1, VoidStep
  <2>4. CASE ~Strayed(r)'
    <3>1. IsOpen(r) /\ ~Strayed(r)
      BY <1>0, <1>3, <2>2, <2>4 DEF MarkRunning, WorkerInv
    <3>2. \A s \in Runs : (Strayed(s)' <=> Strayed(s))
      BY <2>2, <2>4, <3>1
    <3>3. status \in [Runs -> Open \cup Finished \cup {Absent}]
      BY <1>0 DEF TypeOK
    <3>4. polled' = polled
      BY <2>1, <2>2, <3>1, <3>2, <3>3 DEF polled, IsOpen, Open, Finished
    <3>5. stepsPolled' = stepsPolled
      BY <2>1, <2>2, <3>1, <3>2, <3>3 DEF stepsPolled, IsOpen, Open, Finished
    <3> QED
      BY <2>2, <3>4, <3>5 DEF Promise!promiseVars
  <2> QED
    BY <2>3, <2>4
<1>4. ASSUME NEW w \in Workers, Finish(w) PROVE [Promise!Next]_(Promise!promiseVars)
  <2> PICK r \in Runs : r = current[w]
    BY <1>0, <1>4 DEF Finish, WorkerInv
  <2>1. /\ Exists(r)
        /\ result[w] \in Finished /\ step[w] \in 0..MaxSteps
    BY <1>0, <1>4 DEF Finish, WorkerInv, JobInv, TypeOK
  <2>2. /\ UNCHANGED <<runKey, reopened>> /\ stray \subseteq stray'
        /\ \A s \in Runs : s # r => UNCHANGED <<status[s], steps[s]>> /\ (s \in stray' <=> s \in stray)
        /\ status' = [status EXCEPT ![r] = result[w]] /\ steps' = [steps EXCEPT ![r] = step[w]]
        /\ stray' = IF lock[r] # w THEN stray \cup {r} ELSE stray
    BY <1>0, <1>4, <2>1 DEF Finish, TypeOK
  <2>3. CASE Strayed(r)'
    <3>1. Strayed(r) \/ "stall" \in FaultKinds
      BY <1>0, <1>4, <2>2, <2>3 DEF Finish, LockInv
    <3> QED
      BY <2>1, <2>2, <2>3, <3>1, VoidStep
  <2>4. CASE ~Strayed(r)'
    <3>1. IsOpen(r) /\ ~Strayed(r) /\ UNCHANGED strays
      BY <1>0, <1>4, <2>2, <2>4 DEF Finish, WorkerInv
    <3> QED
      BY <2>1, <2>2, <3>1, FinalSettles
  <2> QED
    BY <2>3, <2>4
<1>5. ASSUME NEW r \in Runs, FinishFailed(r) PROVE [Promise!Next]_(Promise!promiseVars)
  <2>1. /\ steps[r] \in 0..MaxSteps /\ steps' = [steps EXCEPT ![r] = steps[r]]
        /\ status' = [status EXCEPT ![r] = "FAILED"] /\ UNCHANGED <<runKey, strays>>
        /\ Exists(r) /\ (IsOpen(r) \/ Strayed(r))
    BY <1>0, <1>5 DEF FinishFailed, JobInv, TypeOK
  <2>2. CASE Strayed(r)
    <3>1. \A s \in Runs : s # r => UNCHANGED <<status[s], steps[s]>>
      BY <1>0, <2>1 DEF TypeOK
    <3> QED
      BY <2>1, <2>2, <3>1, VoidStep
  <2>3. CASE ~Strayed(r)
    BY <2>1, <2>3, FinalSettles DEF Finished
  <2> QED
    BY <2>2, <2>3
<1> QED
  BY <1>1, <1>2, <1>3, <1>4, <1>5, RowSteps

\* Rows, queue, workers and failure handlers keep the promise to the client: a question
\* is accepted once per key and within the quota but for those that raced, and answered
\* once, through every crash and redelivery; a stall voids at most the answers of runs
\* that a worker then wrote without its lock, and without stalls none is void.
THEOREM Refinement == Spec => ImplementsPromise
<1>1. Init => Promise!Init
  BY DEF Init, Promise!Init, polled, stepsPolled, IsOpen, Strayed, Open, Finished, Absent
<1>2. IInv /\ [Next]_vars => [Promise!Next]_(Promise!promiseVars)
  BY PromiseStep
<1> QED
  BY <1>1, <1>2, Invariance, PTL DEF Spec, ImplementsPromise, Promise!Spec
==============================================================================
