------------------------------- MODULE Education -------------------------------
(***************************************************************************)
(* Money that is spent on the model: questions about the corpus            *)
(* (AnswerQuestionService) with their quota, and the calls of jobs         *)
(* (categorization, assistant runs), all under one daily ceiling that is   *)
(* computed from the rows LlmService records.  Composed with PlanLimits,   *)
(* whose requests compete for the same plan.                               *)
(*                                                                         *)
(* What an answer says is left out.  The model and the embeddings are      *)
(* external.                                                               *)
(***************************************************************************)
EXTENDS PlanLimits

CONSTANTS
    Ceiling,                \* AI_DAILY_SPEND_LIMIT_USD
    MaxCost,                \* the most one call costs at the rate card that is known
    MaxSurcharge,           \* ... and the most the card of large prompts adds to it
    MaxCalls,               \* the most calls one assistant run makes
    MaxEditions,            \* ingestions of the corpus
    MaxFaults               \* usage rows that cannot be written

ASSUME SpendAssumption ==
    /\ Ceiling \in Nat /\ MaxCost \in Nat \ {0} /\ MaxCalls \in Nat \ {0}
    /\ MaxSurcharge \in Nat /\ MaxEditions \in Nat /\ MaxFaults \in Nat

VARIABLES
    \* Postgres
    chunks,                 \* knowledge_chunks: the edition that is stored, 0 for none
    editions,               \* ingestions so far
    spent,                  \* the sum of today's ai_usage
    questions,              \* its rag rows per user
    \* the requests
    feature, calls,         \* how many calls to the model it still makes
    cost,                   \* computed for the call that was answered and is not recorded
    \* history
    paid, answered,         \* what today's calls cost; questions the model answered
    unrecorded, lost,       \* the cost and, per user, the questions of lost rows
    underestimated,         \* what today's calls cost above their computed cost
    faults,
    misled                  \* requests that found no corpus after counting one

aiVars == <<chunks, editions, spent, questions, feature, calls, cost, paid, answered,
            unrecorded, lost, underestimated, faults, misled>>
vars == <<limitVars, aiVars>>

AiLabel == {"readPlan", "countQuestions", "countChunks", "search", "call", "record"}

TypeOK ==
    /\ LimitTypeOK
    /\ pc \in [Requests -> Label \cup AiLabel]
    /\ chunks \in 0..MaxEditions /\ editions \in 0..MaxEditions
    /\ spent \in Nat /\ paid \in Nat /\ unrecorded \in Nat /\ underestimated \in Nat
    /\ questions \in [Users -> Nat] /\ answered \in [Users -> Nat] /\ lost \in [Users -> Nat]
    /\ feature \in [Requests -> {"none", "rag", "categorization", "agent"}]
    /\ calls \in [Requests -> 0..MaxCalls]
    /\ cost \in [Requests -> 0..MaxCost]
    /\ faults \in 0..MaxFaults
    /\ misled \subseteq Requests

Init ==
    /\ LimitInit
    /\ chunks = 0 /\ editions = 0
    /\ spent = 0 /\ paid = 0 /\ unrecorded = 0 /\ underestimated = 0
    /\ questions = [u \in Users |-> 0]
    /\ answered = [u \in Users |-> 0]
    /\ lost = [u \in Users |-> 0]
    /\ feature = [q \in Requests |-> "none"]
    /\ calls = [q \in Requests |-> 0]
    /\ cost = [q \in Requests |-> 0]
    /\ faults = 0
    /\ misled = {}

------------------------------------------------------------------------------
(* Budget and quota *)

\* Faulty variant: reaching the ceiling does not exhaust the budget.
isAiBudgetExhaustedAbove == spent > Ceiling

isAiBudgetExhausted == spent >= Ceiling

\* A question, or a job that is about to call the model: nothing is done before the
\* budget was asked for.  An assistant run asks once, when it is created.
BeginAi(q, u, f, n, label) ==
    /\ ~isAiBudgetExhausted
    /\ Begin(q, label, u, NoAccount, {})
    /\ feature' = [feature EXCEPT ![q] = f]
    /\ calls' = [calls EXCEPT ![q] = n]
    /\ UNCHANGED <<rowVars, chunks, editions, spent, questions, cost, paid, answered,
                   unrecorded, lost, underestimated, faults, misled>>

AskQuestion(q, u) == BeginAi(q, u, "rag", 1, "readPlan")
Categorize(q, u) == BeginAi(q, u, "categorization", 1, "call")
RunAgent(q, u) == BeginAi(q, u, "agent", MaxCalls, "call")

EndAi(q) ==
    /\ Answer(q)
    /\ feature' = [feature EXCEPT ![q] = "none"]
    /\ calls' = [calls EXCEPT ![q] = 0]
    /\ cost' = [cost EXCEPT ![q] = 0]

Proceed(q, label) == Goto(q, label) /\ UNCHANGED <<feature, calls, cost>>

ReadsOnly == UNCHANGED <<rowVars, chunks, editions, spent, questions, paid, answered, unrecorded,
                     lost, underestimated, faults>>

\* validateDailyAiQuota: no questions on FREE, no count when there is no limit.
ReadPlan(q) ==
    LET limit == PLAN_LIMITS[plan[user[q]]].ragQuestionsPerDay IN
    /\ pc[q] = "readPlan"
    /\ \/ limit = 0 /\ EndAi(q)
       \/ /\ limit # 0
          /\ pc' = [pc EXCEPT ![q] = IF limit = Infinity THEN "countChunks" ELSE "countQuestions"]
          /\ seen' = [seen EXCEPT ![q] = plan[user[q]]]
          /\ UNCHANGED <<user, account, todo, arrivals, changes, had, overtaken, feature, calls,
                         cost>>
    /\ ReadsOnly
    /\ UNCHANGED misled

CountQuestions(q) ==
    /\ pc[q] = "countQuestions"
    /\ IF withinLimit(questions[user[q]], PLAN_LIMITS[seen[q]].ragQuestionsPerDay)
       THEN Proceed(q, "countChunks")
       ELSE EndAi(q)
    /\ ReadsOnly
    /\ UNCHANGED misled

------------------------------------------------------------------------------
(* The corpus *)

CountChunks(q) ==
    /\ pc[q] = "countChunks"
    /\ IF chunks = 0 THEN EndAi(q) ELSE Proceed(q, "search")
    /\ ReadsOnly
    /\ UNCHANGED misled

\* Without a chunk, or one that is similar enough, the answer is fixed and the model
\* is not called.
Search(q) ==
    /\ pc[q] = "search"
    /\ \/ chunks # 0 /\ Proceed(q, "call") /\ UNCHANGED misled
       \/ EndAi(q) /\ misled' = IF chunks = 0 THEN misled \cup {q} ELSE misled
    /\ ReadsOnly

\* Faulty variant: the old chunks are deleted by a transaction of their own.
replaceAllApart(edition) == chunks' = IF chunks = 0 THEN edition ELSE 0

\* One transaction: a reader sees the old chunks or the new.
replaceAll(edition) == chunks' = edition

\* ingestCorpus, a script that runs beside the application.
Ingest ==
    /\ editions < MaxEditions
    /\ editions' = editions + 1
    /\ replaceAll(editions + 1)
    /\ UNCHANGED <<limitVars, spent, questions, feature, calls, cost, paid, answered, unrecorded,
                   lost, underestimated, faults, misled>>

------------------------------------------------------------------------------
(* LlmService.call *)

\* What a call costs: its usage at the rate card of small prompts, and what Anthropic
\* adds for a large prompt to Haiku, the model of categorization only.
Bills(f) ==
    {b \in [usage : 1..MaxCost, surcharge : 0..MaxSurcharge] :
        b.surcharge > 0 => f = "categorization"}

\* LLM_PRICING has one card per model; a large prompt is only warned about.
computeCostUsd(b) == b.usage

\* The model answers, refuses or is cut short, which costs; or there is an error.
Call(q) ==
    LET u == user[q] IN
    /\ pc[q] = "call"
    /\ \/ /\ \E b \in Bills(feature[q]) :
                 /\ cost' = [cost EXCEPT ![q] = computeCostUsd(b)]
                 /\ paid' = paid + b.usage + b.surcharge
                 /\ underestimated' = underestimated + b.surcharge
          /\ Goto(q, "record")
          /\ calls' = [calls EXCEPT ![q] = @ - 1]
          /\ answered' = IF feature[q] = "rag" THEN [answered EXCEPT ![u] = @ + 1] ELSE answered
          /\ UNCHANGED feature
       \/ EndAi(q) /\ UNCHANGED <<paid, answered, underestimated>>
    /\ UNCHANGED <<rowVars, chunks, editions, spent, questions, unrecorded, lost, faults, misled>>

\* An assistant run may go on after an answer; nothing asks for the budget again.
Continue(q) ==
    \/ EndAi(q)
    \/ calls[q] > 0 /\ Proceed(q, "call")

\* recordUsage: a failed write is logged and the request goes on.
Record(q) ==
    LET u == user[q] IN
    /\ pc[q] = "record"
    /\ \/ /\ spent' = spent + cost[q]
          /\ questions' = IF feature[q] = "rag" THEN [questions EXCEPT ![u] = @ + 1]
                          ELSE questions
          /\ UNCHANGED <<unrecorded, lost, faults>>
       \/ /\ faults < MaxFaults
          /\ faults' = faults + 1
          /\ unrecorded' = unrecorded + cost[q]
          /\ lost' = IF feature[q] = "rag" THEN [lost EXCEPT ![u] = @ + 1] ELSE lost
          /\ UNCHANGED <<spent, questions>>
    /\ Continue(q)
    /\ UNCHANGED <<rowVars, chunks, editions, paid, answered, underestimated, misled>>

------------------------------------------------------------------------------

\* Requests in progress at midnight go on with what they checked the day before.
Midnight ==
    /\ changes < MaxChanges
    /\ changes' = changes + 1
    /\ NewDay
    /\ spent' = 0 /\ paid' = 0 /\ unrecorded' = 0 /\ underestimated' = 0
    /\ questions' = [u \in Users |-> 0]
    /\ answered' = [u \in Users |-> 0]
    /\ lost' = [u \in Users |-> 0]
    /\ UNCHANGED <<plan, owner, createdAt, requestVars, arrivals, had, overtaken, chunks,
                   editions, feature, calls, cost, faults, misled>>

AiStep ==
    \/ \E q \in Requests, u \in Users : AskQuestion(q, u) \/ Categorize(q, u) \/ RunAgent(q, u)
    \/ \E q \in Requests :
           \/ ReadPlan(q) \/ CountQuestions(q) \/ CountChunks(q) \/ Search(q)
           \/ Call(q) \/ Record(q)
    \/ Ingest
    \/ Midnight

Next == (LimitStep /\ UNCHANGED aiVars) \/ AiStep

Spec == Init /\ [][Next]_vars

------------------------------------------------------------------------------
(* Properties *)

\* Requests that passed the quota and whose question is not in a row yet.
Asking(u) == {q \in Requests : feature[q] = "rag" /\ user[q] = u
                               /\ pc[q] \in {"countChunks", "search", "call", "record"}}

\* The model answers a user's questions up to the quota of a plan the user has had
\* today or before, one more for each request that asked at the same time but the
\* first, and for each row that was lost; on a plan without questions it answers none.
QuotaHolds ==
    \A u \in Users : \E p \in had[u] :
        LET limit == PLAN_LIMITS[p].ragQuestionsPerDay IN
        /\ Within(limit, questions[u] + Cardinality(Asking(u)))
        /\ limit = 0 => Asking(u) = {} /\ answered[u] = 0
        /\ limit # Infinity => answered[u] <= limit - 1 + Cardinality(Requests) + lost[u]

\* What ai_usage does not show of today's calls.
Unseen == unrecorded + underestimated

\* "Global ceiling on today's Claude spend": what Anthropic bills for a day is less
\* than the ceiling and what the requests cost that asked for the budget before it was
\* spent, plus what the rows do not show: the lost ones and, of those of large Haiku
\* prompts, what the dearer card adds.
SpendIsBounded ==
    /\ paid <= Ceiling - 1 + MaxCost * MaxCalls * Cardinality(Requests) + Unseen
    /\ Ceiling = 0 => paid = 0

\* "One transaction keeps readers from ever seeing a half-replaced corpus": no
\* question that counted chunks is told that nothing covers it because there are none.
CorpusIsWhole == misled = {}

------------------------------------------------------------------------------
(* The inductive invariant *)

\* A question calls the model once.
CallInv ==
    \A q \in Requests :
        /\ pc[q] \in {"readPlan", "countQuestions", "countChunks", "search"} =>
               feature[q] = "rag" /\ calls[q] = 1
        /\ pc[q] = "call" => calls[q] > 0 /\ (feature[q] = "rag" => calls[q] = 1)
        /\ pc[q] = "record" /\ feature[q] = "rag" => calls[q] = 0

Recording(u) == {q \in Requests : feature[q] = "rag" /\ user[q] = u /\ pc[q] = "record"}

\* What the model answered today is in a row, lost, or about to be recorded.
AnsweredInv ==
    \A u \in Users : answered[u] <= questions[u] + lost[u] + Cardinality(Recording(u))

\* The rows and the requests that may add one; and nobody asks on a plan without
\* questions.
QuestionsInv ==
    \A u \in Users : \E p \in had[u] :
        LET limit == PLAN_LIMITS[p].ragQuestionsPerDay IN
        /\ Within(limit, questions[u] + Cardinality(Asking(u)))
        /\ limit = 0 => Asking(u) = {} /\ answered[u] = 0

\* A corpus that was ingested does not disappear.
CorpusInv == chunks = editions /\ \A q \in Requests : pc[q] = "search" => chunks # 0

\* f[q] units of money for every request q: their number is a sum without a recursion.
Units(f) == {x \in Requests \X (1..MaxCost * MaxCalls) : x[2] <= f[x[1]]}

\* What a request paid for and is about to record, and what it may spend in all.
Unwritten == [q \in Requests |-> IF pc[q] = "record" THEN cost[q] ELSE 0]
Owed == [q \in Requests |-> Unwritten[q] + MaxCost * calls[q]]

\* What was paid today is in a row, unseen, or about to be recorded.
PaidInv == paid <= spent + Unseen + Cardinality(Units(Unwritten))

\* ... and stays in bounds if every request goes on to spend all it may.
BudgetInv ==
    /\ \A q \in Requests : pc[q] = "record" => calls[q] < MaxCalls
    /\ paid + Cardinality(Units(Owed)) - Cardinality(Units(Unwritten))
           <= Ceiling - 1 + MaxCost * MaxCalls * Cardinality(Requests) + Unseen
    /\ Ceiling = 0 => paid = 0 /\ \A q \in Requests : calls[q] = 0 /\ pc[q] # "record"

IInv ==
    /\ TypeOK /\ LimitRequestInv /\ AgeInv /\ LimitsHold
    /\ CallInv /\ AnsweredInv /\ QuestionsInv /\ CorpusInv /\ CorpusIsWhole
    /\ PaidInv /\ BudgetInv
================================================================================
