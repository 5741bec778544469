------------------------------ MODULE AgentRuns ------------------------------
(***************************************************************************)
(* The assistant's runs, from POST /assistant/questions to a final status: *)
(* AssistantService.ask with its idempotency key, the BullMQ queue, the    *)
(* worker with the tool loop of RunAgentService, and the failure handler   *)
(* of AgentProcessor.                                                      *)
(*                                                                         *)
(* One user asks; the runs, keys and quota are that user's.  BullMQ and    *)
(* the model API are external.  A worker holds a job by a lock it renews;  *)
(* when it stalls or dies the lock expires and the job is delivered again, *)
(* at most MaxStalls times before the queue gives up.                      *)
(***************************************************************************)
EXTENDS Integers, FiniteSets

CONSTANTS
    Runs,             \* ids of the agent_runs rows that may be created
    NoRun,
    Keys, NoKey,      \* Idempotency-Key values; NoKey when the header is absent
    Requests,         \* POSTs that can be in progress at once
    Workers,          \* job processors, one job at a time each
    NoWorker,
    DailyQuota,       \* the plan's agent questions per day
    MaxAttempts,      \* AGENT_MAX_ATTEMPTS
    MaxSteps,         \* MAX_STEPS
    MaxFailedRounds,  \* MAX_CONSECUTIVE_FAILED_ROUNDS
    MaxStalls,        \* BullMQ's maxStalledCount
    FaultKinds,       \* the faults that may happen ...
    MaxFaults         \* ... and how many of them in a behaviour

\* "db": a database call of a worker fails.  "queue": Redis refuses the job.
\* "stall": a worker loses its lock and keeps running.  "crash": it dies.
Faults == {"db", "queue", "stall", "crash"}

ASSUME RunsAssumption == NoRun \notin Runs /\ NoKey \notin Keys /\ NoWorker \notin Workers
ASSUME NumbersAssumption ==
    /\ DailyQuota \in Nat /\ MaxStalls \in Nat /\ MaxFaults \in Nat
    /\ MaxAttempts \in Nat \ {0} /\ MaxSteps \in Nat \ {0}
    /\ MaxFailedRounds \in Nat \ {0}
ASSUME FaultsAssumption == FaultKinds \subseteq Faults
\* A process has finitely many requests in progress.
ASSUME RequestsAssumption == IsFiniteSet(Requests)

VARIABLES
    \* Postgres: agent_runs
    status, runKey, steps,
    \* BullMQ: the job of each run
    job, attemptsMade, stalls,
    lock,          \* the worker that holds the job's lock
    \* POST /assistant/questions
    askPc, askKey, askRun,
    \* the workers
    pc, current,   \* where a worker is, and the run it works on
    step, failedRounds, result,
    \* the handler of the queue's failed event, one per run
    failing,
    \* the environment and history
    faults,
    dropped,       \* runs whose job or failure event a fault swallowed
    reopened,      \* finished runs that a worker without its lock set to RUNNING
    stray          \* runs that a worker without its lock finished

runVars == <<status, runKey, steps>>
jobVars == <<job, attemptsMade, stalls, lock>>
askVars == <<askPc, askKey, askRun>>
loopVars == <<step, failedRounds, result>>
workerVars == <<pc, current, loopVars>>
strays == <<reopened, stray>>
history == <<dropped, strays>>
vars == <<runVars, jobVars, askVars, workerVars, failing, faults, history>>

Open == {"QUEUED", "RUNNING"}
Finished == {"COMPLETED", "DEGRADED", "FAILED"}
Absent == "absent"

TypeOK ==
    /\ status \in [Runs -> Open \cup Finished \cup {Absent}]
    /\ runKey \in [Runs -> Keys \cup {NoKey}]
    /\ steps \in [Runs -> 0..MaxSteps]
    /\ job \in [Runs -> {"none", "waiting", "active", "doomed", "completed", "failed"}]
    /\ attemptsMade \in [Runs -> 0..MaxAttempts]
    /\ stalls \in [Runs -> 0..MaxStalls + 1]
    /\ lock \in [Runs -> Workers \cup {NoWorker}]
    /\ askPc \in [Requests -> {"idle", "lookup", "budget", "quota", "register", "enqueue"}]
    /\ askKey \in [Requests -> Keys \cup {NoKey}]
    /\ askRun \in [Requests -> Runs \cup {NoRun}]
    /\ pc \in [Workers -> {"idle", "find", "mark", "loop", "finish", "done"}]
    /\ current \in [Workers -> Runs \cup {NoRun}]
    /\ step \in [Workers -> 1..MaxSteps]
    /\ failedRounds \in [Workers -> 0..MaxFailedRounds]
    /\ result \in [Workers -> Finished]
    /\ failing \in [Runs -> {"none", "find", "finish"}]
    /\ faults \in 0..MaxFaults
    /\ dropped \in SUBSET Runs
    /\ reopened \in SUBSET Runs
    /\ stray \in SUBSET Runs

Init ==
    /\ status = [r \in Runs |-> Absent]
    /\ runKey = [r \in Runs |-> NoKey]
    /\ steps = [r \in Runs |-> 0]
    /\ job = [r \in Runs |-> "none"]
    /\ attemptsMade = [r \in Runs |-> 0]
    /\ stalls = [r \in Runs |-> 0]
    /\ lock = [r \in Runs |-> NoWorker]
    /\ askPc = [q \in Requests |-> "idle"]
    /\ askKey = [q \in Requests |-> NoKey]
    /\ askRun = [q \in Requests |-> NoRun]
    /\ pc = [w \in Workers |-> "idle"]
    /\ current = [w \in Workers |-> NoRun]
    /\ step = [w \in Workers |-> 1]
    /\ failedRounds = [w \in Workers |-> 0]
    /\ result = [w \in Workers |-> "DEGRADED"]
    /\ failing = [r \in Runs |-> "none"]
    /\ faults = 0
    /\ dropped = {}
    /\ reopened = {}
    /\ stray = {}

------------------------------------------------------------------------------
(* Helpers *)

Fault(kind) ==
    /\ kind \in FaultKinds
    /\ faults < MaxFaults
    /\ faults' = faults + 1

NoFault == UNCHANGED faults

Exists(r) == status[r] # Absent

WithKey(k) == {r \in Runs : Exists(r) /\ runKey[r] = k}

agentRunsToday == {r \in Runs : Exists(r)}

------------------------------------------------------------------------------
(* AssistantService.ask *)

AskGoto(q, label) == askPc' = [askPc EXCEPT ![q] = label]

\* The response: 202, 200 with the existing run, or a refusal.
Answer(q) ==
    /\ AskGoto(q, "idle")
    /\ askKey' = [askKey EXCEPT ![q] = NoKey]
    /\ askRun' = [askRun EXCEPT ![q] = NoRun]

Ask(q, k) ==
    /\ askPc[q] = "idle"
    /\ askKey' = [askKey EXCEPT ![q] = k]
    /\ AskGoto(q, IF k = NoKey THEN "budget" ELSE "lookup")
    /\ UNCHANGED <<askRun, runVars, jobVars, workerVars, failing, faults, history>>

Lookup(q) ==
    /\ askPc[q] = "lookup"
    /\ IF WithKey(askKey[q]) # {}
       THEN Answer(q)
       ELSE AskGoto(q, "budget") /\ UNCHANGED <<askKey, askRun>>
    /\ UNCHANGED <<runVars, jobVars, workerVars, failing, faults, history>>

\* The ceiling is spent by every user and feature, so it may be reached or not.
ValidateGlobalAiBudget(q) ==
    /\ askPc[q] = "budget"
    /\ \/ AskGoto(q, "quota") /\ UNCHANGED <<askKey, askRun>>
       \/ Answer(q)
    /\ UNCHANGED <<runVars, jobVars, workerVars, failing, faults, history>>

ValidateDailyAiQuota(q) ==
    /\ askPc[q] = "quota"
    /\ IF Cardinality(agentRunsToday) < DailyQuota
       THEN AskGoto(q, "register") /\ UNCHANGED <<askKey, askRun>>
       ELSE Answer(q)
    /\ UNCHANGED <<runVars, jobVars, workerVars, failing, faults, history>>

\* Faulty variant: no unique constraint.
KeyIsFreeUnchecked(q) == TRUE

\* The unique (userId, idempotencyKey) decides between concurrent duplicates.
KeyIsFree(q) == askKey[q] # NoKey => WithKey(askKey[q]) = {}

RegisterNew(q) ==
    /\ askPc[q] = "register"
    /\ KeyIsFree(q)
    /\ \E r \in Runs :
           /\ ~Exists(r)
           /\ status' = [status EXCEPT ![r] = "QUEUED"]
           /\ runKey' = [runKey EXCEPT ![r] = askKey[q]]
           /\ askRun' = [askRun EXCEPT ![q] = r]
    /\ AskGoto(q, "enqueue")
    /\ UNCHANGED <<steps, askKey, jobVars, workerVars, failing, faults, history>>

RegisterExisting(q) ==
    /\ askPc[q] = "register"
    /\ ~KeyIsFree(q)
    /\ Answer(q)
    /\ UNCHANGED <<runVars, jobVars, workerVars, failing, faults, history>>

\* Never throws; jobId makes a second add of the same run a no-op.
Enqueue(q) ==
    /\ askPc[q] = "enqueue"
    /\ \/ /\ NoFault
          /\ job' = [job EXCEPT ![askRun[q]] = IF @ = "none" THEN "waiting" ELSE @]
          /\ UNCHANGED dropped
       \/ /\ Fault("queue")
          /\ dropped' = dropped \cup {askRun[q]}
          /\ UNCHANGED job
    /\ Answer(q)
    /\ UNCHANGED <<runVars, attemptsMade, stalls, lock, workerVars, failing, strays>>

------------------------------------------------------------------------------
(* BullMQ *)

Goto(w, label) == pc' = [pc EXCEPT ![w] = label]

ResetLoop(w) ==
    /\ step' = [step EXCEPT ![w] = 1]
    /\ failedRounds' = [failedRounds EXCEPT ![w] = 0]
    /\ result' = [result EXCEPT ![w] = "DEGRADED"]

Take(w, r) ==
    /\ pc[w] = "idle"
    /\ job[r] = "waiting"
    /\ job' = [job EXCEPT ![r] = "active"]
    /\ lock' = [lock EXCEPT ![r] = w]
    /\ current' = [current EXCEPT ![w] = r]
    /\ Goto(w, "find")
    /\ UNCHANGED <<runVars, attemptsMade, stalls, askVars, loopVars, failing,
                   faults, history>>

Release(w) ==
    /\ Goto(w, "idle")
    /\ current' = [current EXCEPT ![w] = NoRun]
    /\ ResetLoop(w)

\* process returned: the job is completed if the lock is still the worker's.
CompleteJob(w) ==
    /\ pc[w] = "done"
    /\ LET r == current[w] IN
       IF lock[r] = w
       THEN /\ job' = [job EXCEPT ![r] = "completed"]
            /\ lock' = [lock EXCEPT ![r] = NoWorker]
       ELSE UNCHANGED <<job, lock>>
    /\ Release(w)
    /\ UNCHANGED <<runVars, attemptsMade, stalls, askVars, failing, faults, history>>

\* Faulty variant: one attempt too many is waited for.
outOfAttemptsStrict(made) == made > MaxAttempts

\* onFailed's test; BullMQ raises the failed event after every attempt.
outOfAttempts(made) == made >= MaxAttempts

\* process threw: another attempt, or the failed event that onFailed acts on.
FailJob(w, permanent) ==
    LET r == current[w]
        made == attemptsMade[r] + 1
        last == permanent \/ made >= MaxAttempts
        given_up == permanent \/ outOfAttempts(made)
    IN
    /\ IF lock[r] = w
       THEN /\ attemptsMade' = [attemptsMade EXCEPT ![r] = made]
            /\ job' = [job EXCEPT ![r] = IF last THEN "failed" ELSE "waiting"]
            /\ lock' = [lock EXCEPT ![r] = NoWorker]
            /\ failing' = [failing EXCEPT ![r] = IF given_up THEN "find" ELSE @]
       ELSE UNCHANGED <<attemptsMade, job, lock, failing>>
    /\ Release(w)

\* The stalled-job check: a job whose lock expired waits again, or is doomed to
\* fail when it stalled too often.
Recover(r) ==
    /\ job[r] = "active"
    /\ lock[r] = NoWorker
    /\ stalls' = [stalls EXCEPT ![r] = @ + 1]
    /\ job' = [job EXCEPT ![r] = IF stalls[r] < MaxStalls THEN "waiting" ELSE "doomed"]
    /\ UNCHANGED <<runVars, attemptsMade, lock, askVars, workerVars, failing, faults, history>>

\* A worker that takes a doomed job fails it with an UnrecoverableError.
FailDoomed(w, r) ==
    /\ pc[w] = "idle"
    /\ job[r] = "doomed"
    /\ job' = [job EXCEPT ![r] = "failed"]
    /\ failing' = [failing EXCEPT ![r] = "find"]
    /\ UNCHANGED <<runVars, attemptsMade, stalls, lock, askVars, workerVars, faults, history>>

------------------------------------------------------------------------------
(* RunAgentService.run *)

\* Faulty variant: the run is redone whatever its status.
FindRunUnchecked(w) ==
    /\ pc[w] = "find"
    /\ Goto(w, "mark")
    /\ UNCHANGED <<runVars, jobVars, askVars, current, loopVars, failing, faults, history>>

\* A run that is gone or finished is not redone.
FindRun(w) ==
    /\ pc[w] = "find"
    /\ Goto(w, IF status[current[w]] \in Open THEN "mark" ELSE "done")
    /\ UNCHANGED <<runVars, jobVars, askVars, current, loopVars, failing, faults, history>>

\* The write asks neither for the status nor for the lock.
MarkRunning(w) ==
    /\ pc[w] = "mark"
    /\ status' = [status EXCEPT ![current[w]] = "RUNNING"]
    /\ steps' = [steps EXCEPT ![current[w]] = 0]
    /\ Goto(w, "loop")
    /\ reopened' = reopened \cup
           {r \in {current[w]} : lock[r] # w /\ status[r] \in Finished}
    /\ UNCHANGED <<runKey, jobVars, askVars, current, loopVars, failing, faults, dropped, stray>>

\* The loop returns: its status goes to finish with the steps taken.
Conclude(w, final) ==
    /\ result' = [result EXCEPT ![w] = final]
    /\ Goto(w, "finish")
    /\ UNCHANGED step

\* Faulty variant: the step counter runs past the last step.
NextRoundUnbounded(w, failures) ==
    /\ failedRounds' = [failedRounds EXCEPT ![w] = failures]
    /\ IF failures >= MaxFailedRounds
       THEN Conclude(w, "DEGRADED")
       ELSE step' = [step EXCEPT ![w] = @ + 1] /\ UNCHANGED <<pc, result>>

\* Another model call, or the end of the loop after MaxSteps of them.
NextRound(w, failures) ==
    /\ failedRounds' = [failedRounds EXCEPT ![w] = failures]
    /\ IF failures >= MaxFailedRounds \/ step[w] = MaxSteps
       THEN Conclude(w, "DEGRADED")
       ELSE step' = [step EXCEPT ![w] = @ + 1] /\ UNCHANGED <<pc, result>>

ModelAnswers(w) ==
    /\ pc[w] = "loop"
    /\ Conclude(w, "COMPLETED")
    /\ UNCHANGED <<runVars, jobVars, askVars, current, failedRounds, failing, faults, history>>

\* A refusal, an output cut at max_tokens, no text or no end_turn.
ModelGivesUp(w) ==
    /\ pc[w] = "loop"
    /\ Conclude(w, "DEGRADED")
    /\ UNCHANGED <<runVars, jobVars, askVars, current, failedRounds, failing, faults, history>>

\* Tool calls; the round counts as failed when every one of them did.
ModelCallsTools(w) ==
    /\ pc[w] = "loop"
    /\ \E allFailed \in BOOLEAN :
           NextRound(w, IF allFailed THEN failedRounds[w] + 1 ELSE 0)
    /\ UNCHANGED <<runVars, jobVars, askVars, current, failing, faults, history>>

\* The API call fails: 429, 5xx and network are retried, other 4xx are not.
ModelFails(w) ==
    /\ pc[w] = "loop"
    /\ \E permanent \in BOOLEAN : FailJob(w, permanent)
    /\ UNCHANGED <<runVars, stalls, askVars, faults, history>>

Finish(w) ==
    /\ pc[w] = "finish"
    /\ status' = [status EXCEPT ![current[w]] = result[w]]
    /\ steps' = [steps EXCEPT ![current[w]] = step[w]]
    /\ Goto(w, "done")
    /\ stray' = stray \cup {r \in {current[w]} : lock[r] # w}
    /\ UNCHANGED <<runKey, jobVars, askVars, current, loopVars, failing, faults, dropped, reopened>>

DatabaseFails(w) ==
    /\ pc[w] \in {"find", "mark", "finish"}
    /\ Fault("db")
    /\ FailJob(w, FALSE)
    /\ UNCHANGED <<runVars, stalls, askVars, history>>

------------------------------------------------------------------------------
(* RunAgentService.markFailed, in the handler of the failed event *)

FailingGoto(r, label) == failing' = [failing EXCEPT ![r] = label]

FindFailed(r) ==
    /\ failing[r] = "find"
    /\ FailingGoto(r, IF status[r] \in Open THEN "finish" ELSE "none")
    /\ UNCHANGED <<runVars, jobVars, askVars, workerVars, faults, history>>

FinishFailed(r) ==
    /\ failing[r] = "finish"
    /\ status' = [status EXCEPT ![r] = "FAILED"]
    /\ FailingGoto(r, "none")
    /\ UNCHANGED <<runKey, steps, jobVars, askVars, workerVars, faults, history>>

\* An error in the handler is logged; nobody calls it again.
MarkFailedFails(r) ==
    /\ failing[r] # "none"
    /\ Fault("db")
    /\ FailingGoto(r, "none")
    /\ dropped' = dropped \cup {r}
    /\ UNCHANGED <<runVars, jobVars, askVars, workerVars, strays>>

------------------------------------------------------------------------------
(* Worker failures *)

LoseLock(w) ==
    lock' = [r \in Runs |-> IF lock[r] = w THEN NoWorker ELSE lock[r]]

\* The event loop blocks or Redis is unreachable for longer than the lock.
Stall(w) ==
    /\ \E r \in Runs : lock[r] = w
    /\ Fault("stall")
    /\ LoseLock(w)
    /\ UNCHANGED <<runVars, job, attemptsMade, stalls, askVars, workerVars, failing, history>>

\* A process dies: its worker, and the POSTs and failure handlers it ran.
Crash(w) ==
    /\ Fault("crash")
    /\ LoseLock(w)
    /\ Release(w)
    /\ \E lost \in SUBSET {r \in Runs : failing[r] # "none"},
          gone \in SUBSET {q \in Requests : askPc[q] # "idle"} :
           /\ failing' = [r \in Runs |-> IF r \in lost THEN "none" ELSE failing[r]]
           /\ askPc' = [q \in Requests |-> IF q \in gone THEN "idle" ELSE askPc[q]]
           /\ askKey' = [q \in Requests |-> IF q \in gone THEN NoKey ELSE askKey[q]]
           /\ askRun' = [q \in Requests |-> IF q \in gone THEN NoRun ELSE askRun[q]]
           /\ dropped' = dropped \cup lost \cup ({askRun[q] : q \in gone} \ {NoRun})
    /\ UNCHANGED <<runVars, job, attemptsMade, stalls, strays>>

------------------------------------------------------------------------------

AskStep(q) ==
    \/ Lookup(q) \/ ValidateGlobalAiBudget(q) \/ ValidateDailyAiQuota(q)
    \/ RegisterNew(q) \/ RegisterExisting(q) \/ Enqueue(q)

WorkerStep(w) ==
    \/ FindRun(w) \/ MarkRunning(w) \/ Finish(w) \/ CompleteJob(w)
    \/ ModelAnswers(w) \/ ModelGivesUp(w) \/ ModelCallsTools(w) \/ ModelFails(w)

QueueStep ==
    \/ \E w \in Workers, r \in Runs : Take(w, r) \/ FailDoomed(w, r)
    \/ \E r \in Runs : Recover(r)

FailedEventStep(r) == FindFailed(r) \/ FinishFailed(r)

Next ==
    \/ \E q \in Requests, k \in Keys \cup {NoKey} : Ask(q, k)
    \/ \E q \in Requests : AskStep(q)
    \/ \E w \in Workers : WorkerStep(w) \/ DatabaseFails(w) \/ Stall(w) \/ Crash(w)
    \/ QueueStep
    \/ \E r \in Runs : FailedEventStep(r) \/ MarkFailedFails(r)

Spec == Init /\ [][Next]_vars

\* A request and a job that started are carried on by Node; the queue hands out
\* waiting jobs and its stalled-job check runs every 30 seconds.
FairSpec ==
    /\ Spec
    /\ \A q \in Requests : WF_vars(AskStep(q))
    /\ \A w \in Workers : WF_vars(WorkerStep(w))
    /\ WF_vars(QueueStep)
    /\ \A r \in Runs : WF_vars(FailedEventStep(r))

------------------------------------------------------------------------------
(* Properties *)

IsOpen(r) == status[r] \in Open

\* The status check at the start is all that protects an answer: a worker that lost
\* its lock writes on after the job was delivered to another.
Strayed(r) == r \in reopened \/ r \in stray

\* A finished run is never reopened or given another answer, whatever crashes, is
\* retried or is delivered twice, except by a worker that lost its lock and kept
\* running, or after such a worker finished the run.
OverwrittenOnlyAfterStall ==
    [][\A r \in Runs : status[r] \in Finished =>
           UNCHANGED <<status[r], steps[r]>> \/ Strayed(r)']_vars

Watched(r) ==
    \/ job[r] \in {"waiting", "active", "doomed"}
    \/ failing[r] # "none"
    \/ \E q \in Requests : askRun[q] = r

\* An open run always has somebody who will finish it, except when a fault swallowed
\* its job or the event that should have failed it, or it had been finished and a
\* worker without its lock opened it again.
OpenRunsAreWatched ==
    \A r \in Runs : IsOpen(r) => Watched(r) \/ r \in dropped \cup reopened

\* A key never stands for two runs, however the repeats of a request overlap
\* between the lookup of the key and the insert.
OneRunPerKey ==
    \A r, s \in Runs :
        Exists(r) /\ Exists(s) /\ runKey[r] = runKey[s] /\ runKey[r] # NoKey => r = s

\* Requests that race at the quota each pass the count before any of them inserts.
Allowance == IF DailyQuota = 0 THEN 0 ELSE DailyQuota - 1 + Cardinality(Requests)

\* A client that polls tells no waiting run from a running one, and reads the steps
\* with the answer.  Nothing is promised about the answer of a run that a worker
\* without its lock wrote.
polled == [r \in Runs |-> IF Strayed(r) THEN "void"
                          ELSE IF IsOpen(r) THEN "open" ELSE status[r]]
stepsPolled == [r \in Runs |-> IF status[r] \in Finished /\ ~Strayed(r) THEN steps[r] ELSE 0]

Promise ==
    INSTANCE RunPromise WITH
        run <- polled, key <- runKey, taken <- stepsPolled,
        Answers <- Finished, Allowed <- Allowance, MayVoid <- "stall" \in FaultKinds

\* To a client the rows, the queue and the workers are one promise: a question is
\* accepted once per key and within the quota, but for the requests that raced, and
\* is then answered once, whatever is repeated, delivered again or fails, short of a
\* worker that writes without its lock, which spoils no more than its run's answer.
ImplementsPromise == Promise!Spec

\* A client that polls its run sees it finish.
EveryRunSettles ==
    \A r \in Runs : IsOpen(r) ~> (~IsOpen(r) \/ r \in dropped \cup reopened)
------------------------------------------------------------------------------
(* The inductive invariant *)

\* A request owns a run from its insert until its job is in the queue.
RequestInv ==
    /\ \A q \in Requests :
           IF askPc[q] = "enqueue"
           THEN askRun[q] \in Runs /\ status[askRun[q]] = "QUEUED" /\ job[askRun[q]] = "none"
           ELSE askRun[q] = NoRun
    /\ \A p, q \in Requests : askRun[p] = askRun[q] => p = q \/ askRun[p] = NoRun

\* A busy worker is on a run with a job.  While it holds the job's lock it is the
\* only one that writes the run, but for those that lost it before.
WorkerInv ==
    \A w \in Workers :
        IF pc[w] = "idle" THEN current[w] = NoRun
        ELSE /\ current[w] \in Runs
             /\ job[current[w]] # "none"
             /\ lock[current[w]] = w =>
                    /\ pc[w] \in {"mark", "loop", "finish"} =>
                           IsOpen(current[w]) \/ Strayed(current[w])
                    /\ pc[w] = "done" =>
                           status[current[w]] \in Finished \/ current[w] \in reopened

\* Locks are only lost by stalls, so without them nobody strays.
LockInv ==
    "stall" \notin FaultKinds =>
        /\ reopened = {} /\ stray = {}
        /\ \A w \in Workers : pc[w] # "idle" => lock[current[w]] = w

\* The tool loop starts with clean counters and stays below their limits.
LoopInv ==
    \A w \in Workers :
        /\ pc[w] \in {"idle", "find", "mark"} => failedRounds[w] = 0
        /\ pc[w] = "loop" => failedRounds[w] < MaxFailedRounds

\* Only an active job is locked, by a worker that is on it; a failure event is
\* about a job the queue gave up, and a job is about a run.
JobInv ==
    \A r \in Runs :
        /\ lock[r] # NoWorker => job[r] = "active" /\ current[lock[r]] = r
        /\ failing[r] # "none" => job[r] = "failed"
        /\ failing[r] = "finish" => IsOpen(r) \/ Strayed(r)
        /\ job[r] # "none" \/ Strayed(r) => Exists(r)
        /\ job[r] = "completed" => status[r] \in Finished \/ r \in reopened
        /\ job[r] \in {"none", "waiting", "active"} => attemptsMade[r] < MaxAttempts
        /\ stalls[r] > MaxStalls => job[r] \in {"doomed", "failed"}

\* What was accepted stays in bounds if every request past the count inserts a run.
Passed == {q \in Requests : askPc[q] = "register"}
QuotaInv ==
    /\ IsFiniteSet(agentRunsToday)
    /\ Cardinality(agentRunsToday) + Cardinality(Passed) <= Allowance

IInv ==
    /\ TypeOK
    /\ QuotaInv
    /\ RequestInv
    /\ WorkerInv
    /\ LockInv
    /\ LoopInv
    /\ JobInv
    /\ OneRunPerKey
    /\ OpenRunsAreWatched
==============================================================================
