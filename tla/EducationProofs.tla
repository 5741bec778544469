--------------------------- MODULE EducationProofs ---------------------------
(***************************************************************************)
(* What holds of the plan's limits, the questions and the corpus for any   *)
(* finite numbers of accounts, transactions and requests, any plan limits  *)
(* and any number of users, plan changes, days and faults.                 *)
(***************************************************************************)
EXTENDS Education, FiniteSetTheorems, TLAPS

\* The sets that are counted are finite, and a larger one counts more.
LEMMA Counts ==
    /\ \A S \in SUBSET Accounts : IsFiniteSet(S) /\ Cardinality(S) \in Nat
    /\ \A S \in SUBSET Transactions : IsFiniteSet(S) /\ Cardinality(S) \in Nat
    /\ \A S \in SUBSET Requests : IsFiniteSet(S) /\ Cardinality(S) \in Nat
                                  /\ Cardinality(S) <= Cardinality(Requests)
BY FinitenessAssumption, FS_Subset, FS_CardinalityType

LEMMA Larger ==
    ASSUME NEW T, IsFiniteSet(T), NEW S \in SUBSET T
    PROVE  Cardinality(S) \in Nat /\ Cardinality(T) \in Nat /\ Cardinality(S) <= Cardinality(T)
BY FS_Subset, FS_CardinalityType

LEMMA SomeRequest == Cardinality(Requests) \in Nat \ {0}
BY FinitenessAssumption, FS_EmptySet, FS_CardinalityType

LEMMA InitInv == Init => IInv
<1> SUFFICES ASSUME Init PROVE IInv
    OBVIOUS
<1> USE LimitNamesAssumption, LimitsAssumption, SpendAssumption
<1> USE DEF Init, LimitInit
<1>0. /\ \A u \in Users : AccountsOf(u) = {} /\ TransactionsOf(u) = {}
      /\ \A u \in Users : /\ InsertingAccount(u) = {} /\ InsertingTransaction(u) = {}
                          /\ Asking(u) = {} /\ Recording(u) = {}
  BY DEF AccountsOf, TransactionsOf, InsertingAccount, InsertingTransaction, Asking,
     Recording
<1>00. /\ \A u \in Users : /\ Cardinality(AccountsOf(u)) = 0
                           /\ Cardinality(TransactionsOf(u)) = 0
                           /\ Cardinality(InsertingAccount(u)) = 0
                           /\ Cardinality(InsertingTransaction(u)) = 0
                           /\ Cardinality(Asking(u)) = 0
                           /\ Cardinality(Recording(u)) = 0
  BY <1>0, FS_EmptySet
<1>1. TypeOK
  BY Counts DEF TypeOK, LimitTypeOK, Label, Plan
<1>2. LimitRequestInv /\ AgeInv
  BY Counts DEF LimitRequestInv, AgeInv, Opened
<1>3. LimitsHold /\ QuestionsInv
  <2>1. \A u \in Users : plan[u] \in had[u] /\ PLAN_LIMITS[plan[u]] \in Limits
    OBVIOUS
  <2>2. \A limit \in Nat \cup {Infinity} : Within(limit, 0 + 0)
    BY SomeRequest DEF Within
  <2>3. \A u \in Users : /\ Within(PLAN_LIMITS[plan[u]].bankAccounts, 0 + 0)
                         /\ Within(PLAN_LIMITS[plan[u]].transactionsPerDay, 0 + 0)
                         /\ Within(PLAN_LIMITS[plan[u]].ragQuestionsPerDay, 0 + 0)
    BY <2>1, <2>2 DEF Limits
  <2>4. AccountsBounded
    <3> SUFFICES ASSUME NEW u \in Users
                 PROVE  Within(PLAN_LIMITS[plan[u]].bankAccounts,
                               Cardinality(AccountsOf(u)) + Cardinality(InsertingAccount(u)))
      BY <2>1 DEF AccountsBounded
    <3> QED
      BY <1>00, <2>3
  <2>5. TransactionsBounded
    <3> SUFFICES ASSUME NEW u \in Users
                 PROVE  Within(PLAN_LIMITS[plan[u]].transactionsPerDay,
                               Cardinality(TransactionsOf(u))
                                   + Cardinality(InsertingTransaction(u)))
      BY <2>1 DEF TransactionsBounded
    <3> QED
      BY <1>00, <2>3
  <2>6. QuestionsInv
    <3> SUFFICES ASSUME NEW u \in Users
                 PROVE  LET limit == PLAN_LIMITS[plan[u]].ragQuestionsPerDay IN
                        /\ Within(limit, questions[u] + Cardinality(Asking(u)))
                        /\ limit = 0 => Asking(u) = {} /\ answered[u] = 0
      BY <2>1 DEF QuestionsInv
    <3>1. questions[u] = 0 /\ answered[u] = 0
      OBVIOUS
    <3> QED
      BY <1>0, <1>00, <2>3, <3>1
  <2> QED
    BY <2>4, <2>5, <2>6 DEF LimitsHold
<1>4. CallInv /\ CorpusInv /\ CorpusIsWhole
  BY DEF CallInv, CorpusInv, CorpusIsWhole
<1>5. AnsweredInv
  <2>1. \A u \in Users : answered[u] = 0 /\ questions[u] = 0 /\ lost[u] = 0
    OBVIOUS
  <2> QED
    BY <1>00, <2>1 DEF AnsweredInv
<1>6. PaidInv /\ BudgetInv
  <2>1. \A q \in Requests : Unwritten[q] = 0 /\ Owed[q] = 0
    BY DEF Unwritten, Owed
  <2>2. Units(Unwritten) = {} /\ Units(Owed) = {}
    BY <2>1 DEF Units
  <2>3. Cardinality(Units(Unwritten)) = 0 /\ Cardinality(Units(Owed)) = 0
    BY <2>2, FS_EmptySet
  <2>4. MaxCost * MaxCalls * Cardinality(Requests) \in Nat \ {0}
    BY SomeRequest
  <2> QED
    BY <2>3, <2>4 DEF PaidInv, BudgetInv, Unseen
<1> QED
  BY <1>1, <1>2, <1>3, <1>4, <1>5, <1>6 DEF IInv

------------------------------------------------------------------------------
(* Types *)

\* What beginning, continuing and answering a request do to the types of PlanLimits.
LEMMA BeginType ==
    ASSUME LimitTypeOK, NEW q \in Requests, NEW label, NEW u \in Users,
           NEW a \in Accounts \cup {NoAccount}, NEW checks \in SUBSET {"limit", "active"},
           Begin(q, label, u, a, checks), UNCHANGED rowVars
    PROVE  LimitTypeOK'
BY LimitNamesAssumption, LimitsAssumption DEF LimitTypeOK, Begin, rowVars

LEMMA GotoType ==
    ASSUME LimitTypeOK, NEW q, NEW label, Goto(q, label), UNCHANGED rowVars
    PROVE  LimitTypeOK'
BY DEF LimitTypeOK, Goto, rowVars

LEMMA AnswerType ==
    ASSUME LimitTypeOK, NEW q \in Requests, Answer(q), UNCHANGED rowVars
    PROVE  LimitTypeOK'
BY LimitNamesAssumption DEF LimitTypeOK, Answer, rowVars, Plan

\* One step per action.
LEMMA TypeStep == IInv /\ [Next]_vars => TypeOK'
<1> SUFFICES ASSUME TypeOK, LimitRequestInv, CallInv, [Next]_vars PROVE TypeOK'
    BY DEF IInv
<1> USE LimitNamesAssumption, LimitsAssumption, SpendAssumption
<1> USE DEF TypeOK, LimitTypeOK, LimitRequestInv, CallInv, Label, AiLabel, Plan,
        rowVars, requestVars, limitVars, aiVars, Begin, Goto, Answer, EndAi, Proceed, ReadsOnly
<1>1. ASSUME UNCHANGED aiVars, NEW q \in Requests, NEW u \in Users, CreateAccount(q, u)
      PROVE  TypeOK'
  BY <1>1 DEF CreateAccount
<1>2. ASSUME UNCHANGED aiVars, NEW q \in Requests, NEW u \in Users, NEW a \in Accounts,
             CreateTransaction(q, u, a)
      PROVE  TypeOK'
  BY <1>2 DEF CreateTransaction
<1>3. ASSUME UNCHANGED aiVars, NEW q \in Requests, CountAccounts(q) PROVE TypeOK'
  <2> HIDE DEF LimitTypeOK, Begin, Goto, Answer, EndAi, Proceed, ReadsOnly, rowVars
  <2>1. LimitTypeOK'
    BY <1>3, AnswerType, GotoType DEF CountAccounts
  <2>2. pc' \in [Requests -> Label \cup AiLabel]
    BY <1>3 DEF Goto, Answer, CountAccounts
  <2> QED
    BY <1>3, <2>1, <2>2
<1>4. ASSUME UNCHANGED aiVars, NEW q \in Requests, InsertAccount(q) PROVE TypeOK'
  <2> USE <1>4 DEF InsertAccount
  <2>1. PICK a \in Accounts :
            /\ createdAt[a] = 0
            /\ owner' = [owner EXCEPT ![a] = user[q]]
            /\ createdAt' = [createdAt EXCEPT ![a] = 1 + Cardinality(Opened)]
    BY DEF Opened
  <2>2. /\ Opened \subseteq Accounts \ {a}
        /\ IsFiniteSet(Accounts \ {a})
        /\ Cardinality(Accounts \ {a}) = Cardinality(Accounts) - 1
        /\ Cardinality(Accounts) \in Nat
    <3>1. a \in Accounts /\ Opened \subseteq Accounts \ {a}
      BY <2>1 DEF Opened
    <3> HIDE DEF TypeOK, LimitTypeOK
    <3> QED
      BY <3>1, FinitenessAssumption, FS_RemoveElement, FS_CardinalityType
  <2>3. 1 + Cardinality(Opened) \in 1..Cardinality(Accounts)
    BY <2>2, Larger
  <2>4. createdAt' \in [Accounts -> 0..Cardinality(Accounts)]
    BY <2>1, <2>3
  <2>5. owner' \in [Accounts -> Users \cup {NoUser}] /\ user[q] \in Users
    BY <2>1
  <2>6. \A b \in Accounts : createdAt'[b] = 0 => b # a /\ owner'[b] = NoUser
    <3>1. createdAt'[a] # 0
      BY <2>1, <2>3
    <3>2. \A b \in Accounts \ {a} : createdAt'[b] = createdAt[b] /\ owner'[b] = owner[b]
      BY <2>1
    <3> QED
      BY <3>1, <3>2
  <2>7. \A b \in Accounts : owner[b] # NoUser => owner'[b] # NoUser
    BY <2>1, <2>5
  <2>8. \A t \in Transactions : transactions'[t] # NoAccount => owner'[transactions'[t]] # NoUser
    BY <2>7
  <2> QED
    BY <2>4, <2>5, <2>6, <2>8
<1>5. ASSUME UNCHANGED aiVars, NEW q \in Requests,
             validateDailyTransactionLimit(q) \/ validateBankAccountIsActive(q)
      PROVE  TypeOK'
  <2> HIDE DEF LimitTypeOK, Begin, Goto, Answer, EndAi, Proceed, ReadsOnly, rowVars
  <2>1. \/ Answer(q) /\ UNCHANGED rowVars
        \/ /\ \E check \in {"limit", "active"} : todo' = [todo EXCEPT ![q] = @ \ {check}]
           /\ UNCHANGED <<pc, user, account, seen, arrivals, changes, had, overtaken, rowVars>>
    BY <1>5 DEF validateDailyTransactionLimit, validateBankAccountIsActive, Checked
  <2>2. CASE Answer(q) /\ UNCHANGED rowVars
    <3>1. LimitTypeOK' /\ pc' \in [Requests -> Label \cup AiLabel]
      BY <2>2, AnswerType DEF Answer
    <3> QED
      BY <1>5, <3>1
  <2>3. CASE /\ \E check \in {"limit", "active"} : todo' = [todo EXCEPT ![q] = @ \ {check}]
             /\ UNCHANGED <<pc, user, account, seen, arrivals, changes, had, overtaken, rowVars>>
    BY <1>5, <2>3 DEF LimitTypeOK, rowVars
  <2> QED
    BY <2>1, <2>2, <2>3
<1>6. ASSUME UNCHANGED aiVars, NEW q \in Requests, InsertTransaction(q) PROVE TypeOK'
  BY <1>6 DEF InsertTransaction
<1>7. ASSUME UNCHANGED aiVars, NEW a \in Accounts, DeleteAccount(a) PROVE TypeOK'
  BY <1>7 DEF DeleteAccount, Cascade
<1>8. ASSUME UNCHANGED aiVars, NEW t \in Transactions,
             DeleteTransaction(t) \/ \E a \in Accounts : UpdateTransaction(t, a)
      PROVE  TypeOK'
  BY <1>8 DEF DeleteTransaction, UpdateTransaction
<1>9. ASSUME UNCHANGED aiVars, NEW u \in Users, ChangePlan(u) PROVE TypeOK'
  BY <1>9 DEF ChangePlan
<1>10. ASSUME NEW q \in Requests, NEW u \in Users,
              AskQuestion(q, u) \/ Categorize(q, u) \/ RunAgent(q, u)
       PROVE  TypeOK'
  <2> HIDE DEF LimitTypeOK, Begin, Goto, Answer, EndAi, Proceed, ReadsOnly, rowVars
  <2>1. LimitTypeOK'
    BY <1>10, BeginType DEF AskQuestion, Categorize, RunAgent, BeginAi
  <2>2. pc' \in [Requests -> Label \cup AiLabel]
    BY <1>10 DEF Begin, Goto, Answer, EndAi, Proceed, AskQuestion, Categorize, RunAgent, BeginAi
  <2>3. /\ chunks' \in 0..MaxEditions /\ editions' \in 0..MaxEditions
        /\ spent' \in Nat /\ paid' \in Nat /\ unrecorded' \in Nat /\ underestimated' \in Nat
        /\ faults' \in 0..MaxFaults /\ misled' \subseteq Requests
    BY <1>10 DEF EndAi, Proceed, ReadsOnly, AskQuestion, Categorize, RunAgent, BeginAi
  <2>4. questions' \in [Users -> Nat] /\ answered' \in [Users -> Nat] /\ lost' \in [Users -> Nat]
    BY <1>10 DEF EndAi, Proceed, ReadsOnly, AskQuestion, Categorize, RunAgent, BeginAi
  <2>5. /\ feature' \in [Requests -> {"none", "rag", "categorization", "agent"}]
        /\ calls' \in [Requests -> 0..MaxCalls]
        /\ cost' \in [Requests -> 0..MaxCost]
    BY <1>10 DEF EndAi, Proceed, ReadsOnly, AskQuestion, Categorize, RunAgent, BeginAi
  <2> QED
    BY <2>1, <2>2, <2>3, <2>4, <2>5
<1>11. ASSUME NEW q \in Requests, ReadPlan(q) PROVE TypeOK'
  <2> HIDE DEF LimitTypeOK, Begin, Goto, Answer, EndAi, Proceed, ReadsOnly, rowVars
  <2>1. LimitTypeOK'
    BY <1>11, AnswerType DEF ReadPlan, EndAi, ReadsOnly, LimitTypeOK, LimitRequestInv, rowVars
  <2>2. pc' \in [Requests -> Label \cup AiLabel]
    BY <1>11 DEF Begin, Goto, Answer, EndAi, Proceed, ReadPlan
  <2>3. /\ chunks' \in 0..MaxEditions /\ editions' \in 0..MaxEditions
        /\ spent' \in Nat /\ paid' \in Nat /\ unrecorded' \in Nat /\ underestimated' \in Nat
        /\ faults' \in 0..MaxFaults /\ misled' \subseteq Requests
    BY <1>11 DEF EndAi, Proceed, ReadsOnly, ReadPlan
  <2>4. questions' \in [Users -> Nat] /\ answered' \in [Users -> Nat] /\ lost' \in [Users -> Nat]
    BY <1>11 DEF EndAi, Proceed, ReadsOnly, ReadPlan
  <2>5. /\ feature' \in [Requests -> {"none", "rag", "categorization", "agent"}]
        /\ calls' \in [Requests -> 0..MaxCalls]
        /\ cost' \in [Requests -> 0..MaxCost]
    BY <1>11 DEF EndAi, Proceed, ReadsOnly, ReadPlan
  <2> QED
    BY <2>1, <2>2, <2>3, <2>4, <2>5
<1>12. ASSUME NEW q \in Requests, CountQuestions(q) \/ CountChunks(q) \/ Search(q) PROVE TypeOK'
  <2> HIDE DEF LimitTypeOK, Begin, Goto, Answer, EndAi, Proceed, ReadsOnly, rowVars
  <2>1. LimitTypeOK'
    BY <1>12, AnswerType, GotoType DEF CountQuestions, CountChunks, Search, EndAi, Proceed, ReadsOnly
  <2>2. pc' \in [Requests -> Label \cup AiLabel]
    BY <1>12 DEF Begin, Goto, Answer, EndAi, Proceed, CountQuestions, CountChunks, Search
  <2>3. /\ chunks' \in 0..MaxEditions /\ editions' \in 0..MaxEditions
        /\ spent' \in Nat /\ paid' \in Nat /\ unrecorded' \in Nat /\ underestimated' \in Nat
        /\ faults' \in 0..MaxFaults /\ misled' \subseteq Requests
    BY <1>12 DEF EndAi, Proceed, ReadsOnly, CountQuestions, CountChunks, Search
  <2>4. questions' \in [Users -> Nat] /\ answered' \in [Users -> Nat] /\ lost' \in [Users -> Nat]
    BY <1>12 DEF EndAi, Proceed, ReadsOnly, CountQuestions, CountChunks, Search
  <2>5. /\ feature' \in [Requests -> {"none", "rag", "categorization", "agent"}]
        /\ calls' \in [Requests -> 0..MaxCalls]
        /\ cost' \in [Requests -> 0..MaxCost]
    BY <1>12 DEF EndAi, Proceed, ReadsOnly, CountQuestions, CountChunks, Search
  <2> QED
    BY <2>1, <2>2, <2>3, <2>4, <2>5
<1>13. ASSUME NEW q \in Requests, Call(q) PROVE TypeOK'
  <2> HIDE DEF LimitTypeOK, Begin, Goto, Answer, EndAi, Proceed, ReadsOnly, rowVars
  <2>1. LimitTypeOK'
    BY <1>13, AnswerType, GotoType DEF Call, EndAi
  <2>2. pc' \in [Requests -> Label \cup AiLabel]
    BY <1>13 DEF Begin, Goto, Answer, EndAi, Proceed, Call
  <2>3. /\ chunks' \in 0..MaxEditions /\ editions' \in 0..MaxEditions
        /\ spent' \in Nat /\ paid' \in Nat /\ unrecorded' \in Nat /\ underestimated' \in Nat
        /\ faults' \in 0..MaxFaults /\ misled' \subseteq Requests
    BY <1>13 DEF EndAi, Proceed, ReadsOnly, Call, Bills, computeCostUsd
  <2>4. questions' \in [Users -> Nat] /\ answered' \in [Users -> Nat] /\ lost' \in [Users -> Nat]
    BY <1>13 DEF EndAi, Proceed, ReadsOnly, Call, Bills, computeCostUsd
  <2>5. /\ feature' \in [Requests -> {"none", "rag", "categorization", "agent"}]
        /\ calls' \in [Requests -> 0..MaxCalls]
        /\ cost' \in [Requests -> 0..MaxCost]
    BY <1>13 DEF EndAi, Proceed, ReadsOnly, Call, Bills, computeCostUsd
  <2> QED
    BY <2>1, <2>2, <2>3, <2>4, <2>5
<1>14. ASSUME NEW q \in Requests, Record(q) PROVE TypeOK'
  <2> HIDE DEF LimitTypeOK, Begin, Goto, Answer, EndAi, Proceed, ReadsOnly, rowVars
  <2>1. LimitTypeOK'
    BY <1>14, AnswerType, GotoType DEF Record, Continue, EndAi, Proceed
  <2>2. pc' \in [Requests -> Label \cup AiLabel]
    BY <1>14 DEF Begin, Goto, Answer, EndAi, Proceed, Record, Continue
  <2>3. /\ chunks' \in 0..MaxEditions /\ editions' \in 0..MaxEditions
        /\ spent' \in Nat /\ paid' \in Nat /\ unrecorded' \in Nat /\ underestimated' \in Nat
        /\ faults' \in 0..MaxFaults /\ misled' \subseteq Requests
    BY <1>14 DEF EndAi, Proceed, ReadsOnly, Record, Continue
  <2>4. questions' \in [Users -> Nat] /\ answered' \in [Users -> Nat] /\ lost' \in [Users -> Nat]
    BY <1>14 DEF EndAi, Proceed, ReadsOnly, Record, Continue
  <2>5. /\ feature' \in [Requests -> {"none", "rag", "categorization", "agent"}]
        /\ calls' \in [Requests -> 0..MaxCalls]
        /\ cost' \in [Requests -> 0..MaxCost]
    BY <1>14 DEF EndAi, Proceed, ReadsOnly, Record, Continue
  <2> QED
    BY <2>1, <2>2, <2>3, <2>4, <2>5
<1>15. CASE Ingest
  BY <1>15 DEF Ingest, replaceAll
<1>16. CASE Midnight
  BY <1>16 DEF Midnight, NewDay
<1>17. CASE UNCHANGED vars
  BY <1>17 DEF vars
<1> QED
  BY <1>1, <1>2, <1>3, <1>4, <1>5, <1>6, <1>7, <1>8, <1>9, <1>10, <1>11, <1>12, <1>13,
     <1>14, <1>15, <1>16, <1>17 DEF Next, LimitStep, AiStep

------------------------------------------------------------------------------
(* The two kinds of steps leave each other's requests alone *)

\* What a step of Education does to PlanLimits.
AiFrame ==
    /\ UNCHANGED <<plan, owner, createdAt, had>>
    /\ transactions' = transactions \/ NewDay
    /\ \A q \in Requests : pc'[q] \in Label \ {"idle"} =>
           /\ pc'[q] = pc[q] /\ user'[q] = user[q] /\ account'[q] = account[q]
           /\ todo'[q] = todo[q] /\ (q \in overtaken' <=> q \in overtaken)

\* What a step of PlanLimits does to Education.
LimitFrame ==
    /\ UNCHANGED aiVars
    /\ \A u \in Users : had[u] \subseteq had'[u]
    /\ \A q \in Requests : pc[q] \in AiLabel \/ pc'[q] \in AiLabel =>
           pc'[q] = pc[q] /\ user'[q] = user[q]

LEMMA AiKeeps == TypeOK /\ AiStep => AiFrame
<1> SUFFICES ASSUME TypeOK, AiStep PROVE AiFrame
    OBVIOUS
<1> USE DEF AiFrame
<1> USE DEF TypeOK, LimitTypeOK, rowVars, requestVars, limitVars, Begin, Goto, Answer, EndAi,
        Proceed, ReadsOnly, Label
<1>1. ASSUME NEW q \in Requests, NEW u \in Users,
             AskQuestion(q, u) \/ Categorize(q, u) \/ RunAgent(q, u)
      PROVE  AiFrame
  BY <1>1 DEF AskQuestion, Categorize, RunAgent, BeginAi
<1>2. ASSUME NEW q \in Requests, ReadPlan(q) \/ CountQuestions(q) \/ CountChunks(q) \/ Search(q)
      PROVE  AiFrame
  BY <1>2 DEF ReadPlan, CountQuestions, CountChunks, Search
<1>3. ASSUME NEW q \in Requests, Call(q) \/ Record(q) PROVE AiFrame
  BY <1>3 DEF Call, Record, Continue
<1>4. ASSUME Ingest \/ Midnight PROVE AiFrame
  BY <1>4 DEF Ingest, Midnight
<1> QED
  BY <1>1, <1>2, <1>3, <1>4 DEF AiStep

LEMMA LimitKeeps == TypeOK /\ LimitStep /\ UNCHANGED aiVars => LimitFrame
<1> SUFFICES ASSUME TypeOK, LimitStep, UNCHANGED aiVars PROVE LimitFrame
    OBVIOUS
<1> USE DEF TypeOK, LimitTypeOK, LimitFrame, rowVars, requestVars, Begin, Goto, Answer, Label, AiLabel
<1>1. ASSUME NEW q \in Requests, NEW u \in Users,
             CreateAccount(q, u) \/ \E a \in Accounts : CreateTransaction(q, u, a)
      PROVE  LimitFrame
  BY <1>1 DEF CreateAccount, CreateTransaction
<1>2. ASSUME NEW q \in Requests,
             \/ CountAccounts(q) \/ InsertAccount(q)
             \/ validateDailyTransactionLimit(q) \/ validateBankAccountIsActive(q)
             \/ InsertTransaction(q)
      PROVE  LimitFrame
  BY <1>2 DEF CountAccounts, InsertAccount, validateDailyTransactionLimit,
     validateBankAccountIsActive, Checked, InsertTransaction
<1>3. ASSUME \/ \E a \in Accounts : DeleteAccount(a)
             \/ \E t \in Transactions :
                    DeleteTransaction(t) \/ \E a \in Accounts : UpdateTransaction(t, a)
      PROVE  LimitFrame
  BY <1>3 DEF DeleteAccount, DeleteTransaction, UpdateTransaction
<1>4. ASSUME NEW u \in Users, ChangePlan(u) PROVE LimitFrame
  BY <1>4 DEF ChangePlan
<1> QED
  BY <1>1, <1>2, <1>3, <1>4 DEF LimitStep

------------------------------------------------------------------------------
(* The limits *)

LEMMA WithinLess ==
    ASSUME NEW limit \in Nat \cup {Infinity}, NEW m \in Nat, NEW n \in Nat, m <= n,
           Within(limit, n)
    PROVE  Within(limit, m)
BY SomeRequest DEF Within

\* A count that was below its limit leaves room for every request.
LEMMA WithinCounted ==
    ASSUME NEW limit \in Nat \cup {Infinity}, NEW m \in Nat, NEW n \in Nat,
           limit = Infinity \/ withinLimit(m, limit), n <= Cardinality(Requests)
    PROVE  Within(limit, m + n)
BY SomeRequest DEF Within, withinLimit

LEMMA LimitTypes ==
    ASSUME NEW p \in Plan
    PROVE  /\ PLAN_LIMITS[p].bankAccounts \in Nat \cup {Infinity}
           /\ PLAN_LIMITS[p].transactionsPerDay \in Nat \cup {Infinity}
           /\ PLAN_LIMITS[p].ragQuestionsPerDay \in Nat \cup {Infinity}
BY LimitsAssumption DEF Limits

LEMMA CountTypes ==
    ASSUME NEW u
    PROVE  /\ Cardinality(AccountsOf(u)) \in Nat /\ Cardinality(TransactionsOf(u)) \in Nat
           /\ Cardinality(InsertingAccount(u)) \in Nat
           /\ Cardinality(InsertingTransaction(u)) \in Nat
           /\ Cardinality(Asking(u)) \in Nat /\ Cardinality(Recording(u)) \in Nat
           /\ IsFiniteSet(AccountsOf(u)) /\ IsFiniteSet(TransactionsOf(u))
           /\ IsFiniteSet(InsertingAccount(u)) /\ IsFiniteSet(InsertingTransaction(u))
           /\ IsFiniteSet(Asking(u)) /\ IsFiniteSet(Recording(u))
BY Counts DEF AccountsOf, TransactionsOf, InsertingAccount, InsertingTransaction, Asking, Recording

AccountsWithin(u, p) ==
    Within(PLAN_LIMITS[p].bankAccounts,
           Cardinality(AccountsOf(u)) + Cardinality(InsertingAccount(u)))

TransactionsWithin(u, p) ==
    Within(PLAN_LIMITS[p].transactionsPerDay,
           Cardinality(TransactionsOf(u)) + Cardinality(InsertingTransaction(u)))

\* A step that adds neither a row nor a request that may add one.
LEMMA AccountsShrink ==
    ASSUME NEW u, NEW p \in Plan, AccountsWithin(u, p),
           AccountsOf(u)' \subseteq AccountsOf(u),
           InsertingAccount(u)' \subseteq InsertingAccount(u)
    PROVE  AccountsWithin(u, p)'
<1>1. /\ Cardinality(AccountsOf(u)') \in Nat /\ Cardinality(InsertingAccount(u)') \in Nat
      /\ Cardinality(AccountsOf(u)') <= Cardinality(AccountsOf(u))
      /\ Cardinality(InsertingAccount(u)') <= Cardinality(InsertingAccount(u))
  BY CountTypes, Larger
<1> DEFINE used == Cardinality(AccountsOf(u)) + Cardinality(InsertingAccount(u))
           used1 == Cardinality(AccountsOf(u)') + Cardinality(InsertingAccount(u)')
<1>2. used \in Nat /\ used1 \in Nat /\ used1 <= used
  BY <1>1, CountTypes
<1>3. PLAN_LIMITS[p].bankAccounts \in Nat \cup {Infinity} /\ Within(PLAN_LIMITS[p].bankAccounts, used)
  BY LimitTypes DEF AccountsWithin
<1>4. Within(PLAN_LIMITS[p].bankAccounts, used1)
  <2> HIDE DEF used, used1
  <2> QED
    BY <1>2, <1>3, WithinLess
<1> QED
  BY <1>4 DEF AccountsWithin, Within

LEMMA TransactionsShrink ==
    ASSUME NEW u, NEW p \in Plan, TransactionsWithin(u, p),
           TransactionsOf(u)' \subseteq TransactionsOf(u),
           InsertingTransaction(u)' \subseteq InsertingTransaction(u)
    PROVE  TransactionsWithin(u, p)'
<1>1. /\ Cardinality(TransactionsOf(u)') \in Nat /\ Cardinality(InsertingTransaction(u)') \in Nat
      /\ Cardinality(TransactionsOf(u)') <= Cardinality(TransactionsOf(u))
      /\ Cardinality(InsertingTransaction(u)') <= Cardinality(InsertingTransaction(u))
  BY CountTypes, Larger
<1> DEFINE used == Cardinality(TransactionsOf(u)) + Cardinality(InsertingTransaction(u))
           used1 == Cardinality(TransactionsOf(u)') + Cardinality(InsertingTransaction(u)')
<1>2. used \in Nat /\ used1 \in Nat /\ used1 <= used
  BY <1>1, CountTypes
<1>3. PLAN_LIMITS[p].transactionsPerDay \in Nat \cup {Infinity} /\ Within(PLAN_LIMITS[p].transactionsPerDay, used)
  BY LimitTypes DEF TransactionsWithin
<1>4. Within(PLAN_LIMITS[p].transactionsPerDay, used1)
  <2> HIDE DEF used, used1
  <2> QED
    BY <1>2, <1>3, WithinLess
<1> QED
  BY <1>4 DEF TransactionsWithin, Within

\* CountAccounts leaves room for every request; an insert trades a request for a row.
LEMMA AccountsStep == IInv /\ [Next]_vars => AccountsBounded'
<1> SUFFICES ASSUME IInv, [Next]_vars, NEW u \in Users
             PROVE  \E p \in had'[u] : AccountsWithin(u, p)'
    BY DEF AccountsBounded, AccountsWithin
<1> USE LimitNamesAssumption
<1>0. /\ TypeOK /\ LimitTypeOK /\ LimitRequestInv
      /\ had[u] \subseteq Plan
  BY DEF IInv, TypeOK, LimitTypeOK
<1>00. PICK p \in had[u] : AccountsWithin(u, p)
  BY DEF IInv, LimitsHold, AccountsBounded, AccountsWithin
<1>1. ASSUME AccountsOf(u)' \subseteq AccountsOf(u),
             InsertingAccount(u)' \subseteq InsertingAccount(u),
             had[u] \subseteq had'[u]
      PROVE  \E r \in had'[u] : AccountsWithin(u, r)'
  <2>1. AccountsWithin(u, p)'
    BY <1>0, <1>00, <1>1, AccountsShrink
  <2> QED
    BY <1>00, <1>1, <2>1
<1>2. ASSUME AiStep PROVE \E r \in had'[u] : AccountsWithin(u, r)'
  <2>1. AccountsOf(u)' = AccountsOf(u) /\ had' = had
    BY <1>0, <1>2, AiKeeps DEF AiFrame, AccountsOf
  <2>2. InsertingAccount(u)' \subseteq InsertingAccount(u)
    BY <1>0, <1>2, AiKeeps DEF AiFrame, InsertingAccount, Label
  <2> QED
    BY <1>1, <2>1, <2>2
<1> USE DEF rowVars, requestVars, Begin, Goto, Answer
<1>3. ASSUME NEW q \in Requests, NEW v \in Users, CreateAccount(q, v)
      PROVE  \E r \in had'[u] : AccountsWithin(u, r)'
  <2>1. AccountsOf(u)' = AccountsOf(u) /\ had' = had
    BY <1>3 DEF CreateAccount, AccountsOf
  <2>2. CASE PLAN_LIMITS[plan[v]].bankAccounts = Infinity /\ v = u
    <3>1. AccountsWithin(u, plan[u])'
      BY <1>0, <1>3, <2>1, <2>2 DEF CreateAccount, AccountsWithin, Within, LimitTypeOK
    <3>2. plan'[u] = plan[u] /\ plan[u] \in had'[u]
      BY <1>0, <1>3, <2>1 DEF CreateAccount, LimitTypeOK
    <3> QED
      BY <3>1, <3>2
  <2>3. CASE ~(PLAN_LIMITS[plan[v]].bankAccounts = Infinity /\ v = u)
    <3>1. InsertingAccount(u)' \subseteq InsertingAccount(u)
      BY <1>0, <1>3, <2>3 DEF CreateAccount, InsertingAccount, TypeOK, LimitTypeOK
    <3> QED
      BY <1>1, <2>1, <3>1
  <2> QED
    BY <2>2, <2>3
<1>4. ASSUME NEW q \in Requests, CountAccounts(q) PROVE \E r \in had'[u] : AccountsWithin(u, r)'
  <2> USE <1>4 DEF CountAccounts
  <2>1. AccountsOf(u)' = AccountsOf(u) /\ had' = had
    BY DEF AccountsOf
  <2>2. CASE user[q] = u /\ withinLimit(Cardinality(AccountsOf(u)), PLAN_LIMITS[seen[q]].bankAccounts)
    <3> DEFINE limit == PLAN_LIMITS[seen[q]].bankAccounts
               rows == Cardinality(AccountsOf(u)')
               requests == Cardinality(InsertingAccount(u)')
    <3>1. seen[q] \in had[u] /\ limit \in Nat \cup {Infinity}
      BY <1>0, <2>2, LimitTypes DEF LimitTypeOK
    <3>2. rows \in Nat /\ withinLimit(rows, limit)
      BY <2>1, <2>2, CountTypes
    <3>3. requests \in Nat /\ requests <= Cardinality(Requests)
      <4>1. InsertingAccount(u)' \in SUBSET Requests
        BY DEF InsertingAccount
      <4> QED
        BY <4>1, Counts
    <3>4. Within(limit, rows + requests)
      <4> HIDE DEF limit, rows, requests
      <4> QED
        BY <3>1, <3>2, <3>3, WithinCounted
    <3>5. AccountsWithin(u, seen[q])'
      <4>1. seen'[q] = seen[q]
        BY <2>2
      <4> QED
        BY <3>4, <4>1 DEF AccountsWithin, Within
    <3>6. AccountsWithin(u, seen[q])' => \E r \in had'[u] : AccountsWithin(u, r)'
      <4>1. seen'[q] = seen[q] /\ seen[q] \in had'[u]
        BY <2>1, <2>2, <3>1
      <4> QED
        BY <4>1
    <3> QED
      BY <3>5, <3>6
  <2>3. CASE ~(user[q] = u /\ withinLimit(Cardinality(AccountsOf(u)),
                                          PLAN_LIMITS[seen[q]].bankAccounts))
    <3>1. InsertingAccount(u)' \subseteq InsertingAccount(u)
      BY <1>0, <2>3 DEF InsertingAccount, TypeOK, LimitTypeOK
    <3> QED
      BY <1>1, <2>1, <3>1
  <2> QED
    BY <2>2, <2>3
<1>5. ASSUME NEW q \in Requests, InsertAccount(q) PROVE \E r \in had'[u] : AccountsWithin(u, r)'
  <2> USE <1>5 DEF InsertAccount
  <2>1. PICK a \in Accounts : createdAt[a] = 0 /\ owner' = [owner EXCEPT ![a] = user[q]]
    OBVIOUS
  <2>2. owner[a] = NoUser /\ user[q] \in Users
    BY <1>0, <2>1 DEF LimitTypeOK, LimitRequestInv
  <2>3. CASE user[q] = u
    <3>1. AccountsOf(u)' = AccountsOf(u) \cup {a} /\ a \notin AccountsOf(u)
      BY <1>0, <2>1, <2>2, <2>3 DEF AccountsOf, LimitTypeOK
    <3>2. InsertingAccount(u)' = InsertingAccount(u) \ {q} /\ q \in InsertingAccount(u)
      BY <1>0, <2>2, <2>3 DEF InsertingAccount, TypeOK, LimitTypeOK
    <3>3. Cardinality(AccountsOf(u)') = Cardinality(AccountsOf(u)) + 1
      BY <3>1, CountTypes, FS_AddElement
    <3>4. Cardinality(InsertingAccount(u)') = Cardinality(InsertingAccount(u)) - 1
      BY <3>2, CountTypes, FS_RemoveElement
    <3>5. Cardinality(AccountsOf(u)') + Cardinality(InsertingAccount(u)')
              = Cardinality(AccountsOf(u)) + Cardinality(InsertingAccount(u))
      BY <3>3, <3>4, CountTypes
    <3>6. AccountsWithin(u, p)'
      BY <1>00, <3>5 DEF AccountsWithin
    <3> QED
      BY <1>00, <3>6
  <2>4. CASE user[q] # u
    <3>1. AccountsOf(u)' = AccountsOf(u)
      BY <1>0, <2>1, <2>2, <2>4 DEF AccountsOf, LimitTypeOK
    <3>2. InsertingAccount(u)' \subseteq InsertingAccount(u)
      BY <1>0, <2>4 DEF InsertingAccount, TypeOK, LimitTypeOK
    <3> QED
      BY <1>1, <3>1, <3>2
  <2> QED
    BY <2>3, <2>4
<1>6. ASSUME NEW q \in Requests,
             \/ \E v \in Users, a \in Accounts : CreateTransaction(q, v, a)
             \/ validateDailyTransactionLimit(q) \/ validateBankAccountIsActive(q)
             \/ InsertTransaction(q)
      PROVE  \E r \in had'[u] : AccountsWithin(u, r)'
  <2> USE <1>6 DEF CreateTransaction, validateDailyTransactionLimit, validateBankAccountIsActive,
          Checked, InsertTransaction
  <2>1. AccountsOf(u)' = AccountsOf(u) /\ had' = had
    BY DEF AccountsOf
  <2>2. InsertingAccount(u)' \subseteq InsertingAccount(u)
    BY <1>0 DEF InsertingAccount, TypeOK, LimitTypeOK
  <2> QED
    BY <1>1, <2>1, <2>2
<1>7. ASSUME \/ \E a \in Accounts : DeleteAccount(a)
             \/ \E t \in Transactions :
                    DeleteTransaction(t) \/ \E a \in Accounts : UpdateTransaction(t, a)
      PROVE  \E r \in had'[u] : AccountsWithin(u, r)'
  <2>1. AccountsOf(u)' \subseteq AccountsOf(u) /\ had' = had
    BY <1>0, <1>7 DEF DeleteAccount, DeleteTransaction, UpdateTransaction, AccountsOf, LimitTypeOK
  <2>2. InsertingAccount(u)' = InsertingAccount(u)
    BY <1>7 DEF DeleteAccount, DeleteTransaction, UpdateTransaction, InsertingAccount
  <2> QED
    BY <1>1, <2>1, <2>2
<1>8. ASSUME NEW v \in Users, ChangePlan(v) PROVE \E r \in had'[u] : AccountsWithin(u, r)'
  <2>1. AccountsOf(u)' = AccountsOf(u) /\ InsertingAccount(u)' = InsertingAccount(u)
    BY <1>8 DEF ChangePlan, AccountsOf, InsertingAccount
  <2>2. had[u] \subseteq had'[u]
    BY <1>0, <1>8 DEF ChangePlan, LimitTypeOK
  <2> QED
    BY <1>1, <2>1, <2>2
<1>9. ASSUME UNCHANGED vars PROVE \E r \in had'[u] : AccountsWithin(u, r)'
  <2>1. /\ AccountsOf(u)' = AccountsOf(u) /\ InsertingAccount(u)' = InsertingAccount(u)
        /\ had' = had
    BY <1>9 DEF vars, limitVars, AccountsOf, InsertingAccount
  <2> QED
    BY <1>1, <2>1
<1> QED
  BY <1>2, <1>3, <1>4, <1>5, <1>6, <1>7, <1>8, <1>9 DEF Next, LimitStep

\* validateDailyTransactionLimit leaves room for every request; a deleted account
\* takes its transactions along, and a new one has none.
LEMMA TransactionsStep == IInv /\ [Next]_vars => TransactionsBounded'
<1> SUFFICES ASSUME IInv, [Next]_vars, NEW u \in Users
             PROVE  \E p \in had'[u] : TransactionsWithin(u, p)'
    BY DEF TransactionsBounded, TransactionsWithin
<1> USE LimitNamesAssumption
<1>0. /\ TypeOK /\ LimitTypeOK /\ LimitRequestInv
      /\ had[u] \subseteq Plan
  BY DEF IInv, TypeOK, LimitTypeOK
<1>00. PICK p \in had[u] : TransactionsWithin(u, p)
  BY DEF IInv, LimitsHold, TransactionsBounded, TransactionsWithin
<1>1. ASSUME TransactionsOf(u)' \subseteq TransactionsOf(u),
             InsertingTransaction(u)' \subseteq InsertingTransaction(u),
             had[u] \subseteq had'[u]
      PROVE  \E r \in had'[u] : TransactionsWithin(u, r)'
  <2>1. TransactionsWithin(u, p)'
    BY <1>0, <1>00, <1>1, TransactionsShrink
  <2> QED
    BY <1>00, <1>1, <2>1
<1>2. ASSUME AiStep PROVE \E r \in had'[u] : TransactionsWithin(u, r)'
  <2>1. TransactionsOf(u)' \subseteq TransactionsOf(u) /\ had' = had
    BY <1>0, <1>2, AiKeeps DEF AiFrame, TransactionsOf, AccountsOf, NewDay
  <2>2. InsertingTransaction(u)' \subseteq InsertingTransaction(u)
    BY <1>0, <1>2, AiKeeps DEF AiFrame, InsertingTransaction, Label
  <2> QED
    BY <1>1, <2>1, <2>2
<1> USE DEF rowVars, requestVars, Begin, Goto, Answer
<1>3. ASSUME NEW q \in Requests, NEW v \in Users, NEW a \in Accounts, CreateTransaction(q, v, a)
      PROVE  \E r \in had'[u] : TransactionsWithin(u, r)'
  <2>1. TransactionsOf(u)' = TransactionsOf(u) /\ had' = had
    BY <1>3 DEF CreateTransaction, TransactionsOf, AccountsOf
  <2>2. CASE PLAN_LIMITS[plan[v]].transactionsPerDay = Infinity /\ v = u
    <3>1. TransactionsWithin(u, plan[u])'
      BY <1>0, <1>3, <2>1, <2>2 DEF CreateTransaction, TransactionsWithin, Within, LimitTypeOK
    <3>2. plan'[u] = plan[u] /\ plan[u] \in had'[u]
      BY <1>0, <1>3, <2>1 DEF CreateTransaction, LimitTypeOK
    <3> QED
      BY <3>1, <3>2
  <2>3. CASE ~(PLAN_LIMITS[plan[v]].transactionsPerDay = Infinity /\ v = u)
    <3>1. InsertingTransaction(u)' \subseteq InsertingTransaction(u)
      BY <1>0, <1>3, <2>3 DEF CreateTransaction, InsertingTransaction, TypeOK, LimitTypeOK
    <3> QED
      BY <1>1, <2>1, <3>1
  <2> QED
    BY <2>2, <2>3
<1>4. ASSUME NEW q \in Requests, validateDailyTransactionLimit(q)
      PROVE  \E r \in had'[u] : TransactionsWithin(u, r)'
  <2> USE <1>4 DEF validateDailyTransactionLimit, Checked
  <2>1. TransactionsOf(u)' = TransactionsOf(u) /\ had' = had
    BY DEF TransactionsOf, AccountsOf
  <2>2. CASE user[q] = u /\ withinLimit(Cardinality(TransactionsOf(u)),
                                        PLAN_LIMITS[seen[q]].transactionsPerDay)
    <3> DEFINE limit == PLAN_LIMITS[seen[q]].transactionsPerDay
               rows == Cardinality(TransactionsOf(u)')
               requests == Cardinality(InsertingTransaction(u)')
    <3>1. seen[q] \in had[u] /\ limit \in Nat \cup {Infinity}
      BY <1>0, <2>2, LimitTypes DEF LimitTypeOK
    <3>2. rows \in Nat /\ withinLimit(rows, limit)
      BY <2>1, <2>2, CountTypes
    <3>3. requests \in Nat /\ requests <= Cardinality(Requests)
      <4>1. InsertingTransaction(u)' \in SUBSET Requests
        BY DEF InsertingTransaction
      <4> QED
        BY <4>1, Counts
    <3>4. Within(limit, rows + requests)
      <4> HIDE DEF limit, rows, requests
      <4> QED
        BY <3>1, <3>2, <3>3, WithinCounted
    <3>5. seen'[q] = seen[q]
      BY <2>2
    <3>6. TransactionsWithin(u, seen[q])'
      BY <3>4, <3>5 DEF TransactionsWithin, Within
    <3>7. seen[q] \in had'[u]
      BY <2>1, <3>1
    <3> QED
      BY <3>5, <3>6, <3>7
  <2>3. CASE ~(user[q] = u /\ withinLimit(Cardinality(TransactionsOf(u)),
                                          PLAN_LIMITS[seen[q]].transactionsPerDay))
    <3>1. InsertingTransaction(u)' \subseteq InsertingTransaction(u)
      BY <1>0, <2>3 DEF InsertingTransaction, TypeOK, LimitTypeOK
    <3> QED
      BY <1>1, <2>1, <3>1
  <2> QED
    BY <2>2, <2>3
<1>5. ASSUME NEW q \in Requests, InsertTransaction(q)
      PROVE  \E r \in had'[u] : TransactionsWithin(u, r)'
  <2> USE <1>5 DEF InsertTransaction
  <2>1. had' = had /\ owner' = owner
    OBVIOUS
  <2>2. CASE user[q] = u /\ owner[account[q]] = u
    <3>1. PICK t \in Transactions :
              /\ transactions[t] = NoAccount
              /\ transactions' = [transactions EXCEPT ![t] = account[q]]
      BY <2>2
    <3>2. account[q] \in AccountsOf(u)
      BY <1>0, <2>2 DEF AccountsOf, LimitRequestInv
    <3>3. TransactionsOf(u)' = TransactionsOf(u) \cup {t} /\ t \notin TransactionsOf(u)
      BY <1>0, <2>1, <3>1, <3>2 DEF TransactionsOf, AccountsOf, LimitTypeOK
    <3>4. InsertingTransaction(u)' = InsertingTransaction(u) \ {q} /\ q \in InsertingTransaction(u)
      BY <1>0, <2>2 DEF InsertingTransaction, TypeOK, LimitTypeOK
    <3>5. Cardinality(TransactionsOf(u)') = Cardinality(TransactionsOf(u)) + 1
      BY <3>3, CountTypes, FS_AddElement
    <3>6. Cardinality(InsertingTransaction(u)') = Cardinality(InsertingTransaction(u)) - 1
      <4>1. IsFiniteSet(InsertingTransaction(u))
        BY CountTypes
      <4>2. Cardinality(InsertingTransaction(u) \ {q}) = Cardinality(InsertingTransaction(u)) - 1
        BY <3>4, <4>1, FS_RemoveElement
      <4> QED
        BY <3>4, <4>2
    <3>7. Cardinality(TransactionsOf(u)') + Cardinality(InsertingTransaction(u)')
              = Cardinality(TransactionsOf(u)) + Cardinality(InsertingTransaction(u))
      BY <3>5, <3>6, CountTypes
    <3>8. TransactionsWithin(u, p)'
      BY <1>00, <3>7 DEF TransactionsWithin
    <3> QED
      BY <1>00, <2>1, <3>8
  <2>3. CASE ~(user[q] = u /\ owner[account[q]] = u)
    <3>1. TransactionsOf(u)' \subseteq TransactionsOf(u)
      BY <1>0, <2>1, <2>3 DEF TransactionsOf, AccountsOf, LimitTypeOK
    <3>2. InsertingTransaction(u)' \subseteq InsertingTransaction(u)
      BY <1>0, <2>3 DEF InsertingTransaction, TypeOK, LimitTypeOK
    <3> QED
      BY <1>1, <2>1, <3>1, <3>2
  <2> QED
    BY <2>2, <2>3
<1>6. ASSUME NEW q \in Requests,
             \/ \E v \in Users : CreateAccount(q, v)
             \/ CountAccounts(q) \/ validateBankAccountIsActive(q)
      PROVE  \E r \in had'[u] : TransactionsWithin(u, r)'
  <2> USE <1>6 DEF CreateAccount, CountAccounts, validateBankAccountIsActive, Checked
  <2>1. TransactionsOf(u)' = TransactionsOf(u) /\ had' = had
    BY DEF TransactionsOf, AccountsOf
  <2>2. InsertingTransaction(u)' \subseteq InsertingTransaction(u)
    BY <1>0 DEF InsertingTransaction, TypeOK, LimitTypeOK
  <2> QED
    BY <1>1, <2>1, <2>2
<1>7. ASSUME NEW q \in Requests, InsertAccount(q)
      PROVE  \E r \in had'[u] : TransactionsWithin(u, r)'
  <2> USE <1>7 DEF InsertAccount
  <2>1. \A a \in Accounts : owner[a] # NoUser => owner'[a] = owner[a]
    BY <1>0 DEF LimitTypeOK
  <2>2. TransactionsOf(u)' \subseteq TransactionsOf(u) /\ had' = had
    BY <1>0, <2>1 DEF TransactionsOf, AccountsOf, LimitTypeOK
  <2>3. InsertingTransaction(u)' \subseteq InsertingTransaction(u)
    BY <1>0 DEF InsertingTransaction, TypeOK, LimitTypeOK
  <2> QED
    BY <1>1, <2>2, <2>3
<1>8. ASSUME \/ \E a \in Accounts : DeleteAccount(a)
             \/ \E t \in Transactions :
                    DeleteTransaction(t) \/ \E a \in Accounts : UpdateTransaction(t, a)
      PROVE  \E r \in had'[u] : TransactionsWithin(u, r)'
  <2>1. TransactionsOf(u)' \subseteq TransactionsOf(u) /\ had' = had
    BY <1>0, <1>8 DEF DeleteAccount, Cascade, DeleteTransaction, UpdateTransaction, TransactionsOf, AccountsOf,
       LimitTypeOK
  <2>2. InsertingTransaction(u)' = InsertingTransaction(u)
    BY <1>8 DEF DeleteAccount, DeleteTransaction, UpdateTransaction, InsertingTransaction
  <2> QED
    BY <1>1, <2>1, <2>2
<1>9. ASSUME NEW v \in Users, ChangePlan(v) PROVE \E r \in had'[u] : TransactionsWithin(u, r)'
  <2>1. TransactionsOf(u)' = TransactionsOf(u) /\ InsertingTransaction(u)' = InsertingTransaction(u)
    BY <1>9 DEF ChangePlan, TransactionsOf, AccountsOf, InsertingTransaction
  <2>2. had[u] \subseteq had'[u]
    BY <1>0, <1>9 DEF ChangePlan, LimitTypeOK
  <2> QED
    BY <1>1, <2>1, <2>2
<1>10. ASSUME UNCHANGED vars PROVE \E r \in had'[u] : TransactionsWithin(u, r)'
  <2>1. /\ TransactionsOf(u)' = TransactionsOf(u)
        /\ InsertingTransaction(u)' = InsertingTransaction(u)
        /\ had' = had
    BY <1>10 DEF vars, limitVars, TransactionsOf, AccountsOf, InsertingTransaction
  <2> QED
    BY <1>1, <2>1
<1> QED
  BY <1>2, <1>3, <1>4, <1>5, <1>6, <1>7, <1>8, <1>9, <1>10 DEF Next, LimitStep

------------------------------------------------------------------------------
(* The active accounts *)

\* The next account is younger than the others: at most one more is in use.
LEMMA AgeStep == IInv /\ [Next]_vars => AgeInv'
<1> SUFFICES ASSUME IInv, [Next]_vars PROVE AgeInv'
    OBVIOUS
<1>0. TypeOK /\ LimitTypeOK /\ AgeInv
  BY DEF IInv, TypeOK
<1>1. ASSUME createdAt' = createdAt PROVE AgeInv'
  BY <1>0, <1>1 DEF AgeInv, Opened
<1>2. ASSUME NEW q \in Requests, InsertAccount(q) PROVE AgeInv'
  <2>1. PICK a \in Accounts :
            createdAt[a] = 0 /\ createdAt' = [createdAt EXCEPT ![a] = 1 + Cardinality(Opened)]
    BY <1>2 DEF InsertAccount, Opened
  <2>2. Cardinality(Opened) \in Nat /\ IsFiniteSet(Opened) /\ a \notin Opened
    BY <2>1, Counts DEF Opened
  <2>3. Opened' = Opened \cup {a}
    <3>1. createdAt'[a] > 0
      BY <1>0, <2>1, <2>2 DEF LimitTypeOK
    <3>2. \A c \in Accounts \ {a} : createdAt'[c] = createdAt[c]
      BY <1>0, <2>1 DEF LimitTypeOK
    <3> QED
      BY <3>1, <3>2 DEF Opened
  <2>4. Cardinality(Opened') = Cardinality(Opened) + 1
    BY <2>2, <2>3, FS_AddElement
  <2> SUFFICES ASSUME NEW b \in Accounts PROVE createdAt'[b] <= Cardinality(Opened')
    BY DEF AgeInv
  <2>5. createdAt[b] \in Nat /\ createdAt[b] <= Cardinality(Opened)
    BY <1>0 DEF AgeInv, LimitTypeOK
  <2>6. createdAt'[b] = IF b = a THEN 1 + Cardinality(Opened) ELSE createdAt[b]
    BY <1>0, <2>1 DEF LimitTypeOK
  <2> QED
    BY <2>2, <2>4, <2>5, <2>6
<1>3. ASSUME AiStep PROVE AgeInv'
  BY <1>0, <1>1, <1>3, AiKeeps DEF AiFrame
<1>4. CASE UNCHANGED vars
  BY <1>1, <1>4 DEF vars, limitVars, rowVars
<1> QED
  BY <1>1, <1>2, <1>3, <1>4 DEF Next, LimitStep, rowVars, CreateAccount, CreateTransaction,
     CountAccounts, validateDailyTransactionLimit, validateBankAccountIsActive, Checked,
     InsertTransaction, DeleteAccount, DeleteTransaction, UpdateTransaction, ChangePlan

\* An account stays active when no older account of its user appears.
LEMMA StaysActive ==
    ASSUME NEW u, NEW p \in Plan, NEW a, a \in Active(u, p), a \in AccountsOf(u)',
           {b \in AccountsOf(u) : createdAt[b] < createdAt[a]}'
               \subseteq {b \in AccountsOf(u) : createdAt[b] < createdAt[a]}
    PROVE  (a \in Active(u, p))'
<1> DEFINE limit == PLAN_LIMITS[p].bankAccounts
           older == {b \in AccountsOf(u) : createdAt[b] < createdAt[a]}
<1>1. CASE limit = Infinity
  BY <1>1 DEF Active
<1>2. CASE limit # Infinity
  <2>1. limit \in Nat /\ Cardinality(older) < limit
    BY <1>2, LimitTypes DEF Active, getActiveAccountIds
  <2>2. older \in SUBSET Accounts /\ older' \in SUBSET older
    BY DEF AccountsOf
  <2>3. Cardinality(older) \in Nat /\ Cardinality(older') \in Nat
        /\ Cardinality(older') <= Cardinality(older)
    <3> HIDE DEF older
    <3> QED
      BY <2>2, Counts, Larger
  <2>4. Cardinality(older') < limit
    BY <2>1, <2>3
  <2> QED
    BY <1>2, <2>4 DEF Active, getActiveAccountIds
<1> QED
  BY <1>1, <1>2

Holder(q) ==
    /\ pc[q] # "idle" => user[q] \in Users
    /\ user[q] # NoUser /\ q \notin overtaken => seen[q] = plan[user[q]]

Placed(q) ==
    pc[q] = "checkTransaction" =>
        /\ account[q] \in Accounts /\ createdAt[account[q]] > 0
        /\ "active" \notin todo[q] /\ q \notin overtaken /\ owner[account[q]] = user[q] =>
               account[q] \in Active(user[q], plan[user[q]])

LEMMA HolderStep == IInv /\ [Next]_vars => \A q \in Requests : Holder(q)'
<1> SUFFICES ASSUME IInv, [Next]_vars PROVE \A q \in Requests : Holder(q)'
    OBVIOUS
<1> USE LimitNamesAssumption DEF Holder, Begin, Goto, Answer, EndAi, Proceed, ReadsOnly,
        rowVars, requestVars
<1>0. TypeOK /\ LimitTypeOK /\ \A q \in Requests : Holder(q)
  BY DEF IInv, TypeOK, LimitRequestInv
<1>1. ASSUME NEW q \in Requests, NEW u \in Users,
             \/ CreateAccount(q, u) \/ \E a \in Accounts : CreateTransaction(q, u, a)
             \/ AskQuestion(q, u) \/ Categorize(q, u) \/ RunAgent(q, u)
      PROVE  \A r \in Requests : Holder(r)'
  BY <1>0, <1>1 DEF CreateAccount, CreateTransaction, AskQuestion, Categorize, RunAgent,
     BeginAi, TypeOK, LimitTypeOK
<1>2. ASSUME NEW q \in Requests, CountAccounts(q) \/ InsertAccount(q) \/ InsertTransaction(q)
      PROVE  \A r \in Requests : Holder(r)'
  BY <1>0, <1>2 DEF CountAccounts, InsertAccount, InsertTransaction, TypeOK, LimitTypeOK
<1>3. ASSUME NEW q \in Requests,
             validateDailyTransactionLimit(q) \/ validateBankAccountIsActive(q)
      PROVE  \A r \in Requests : Holder(r)'
  BY <1>0, <1>3 DEF validateDailyTransactionLimit, validateBankAccountIsActive, Checked, TypeOK,
     LimitTypeOK
<1>4. ASSUME NEW q \in Requests, ReadPlan(q) \/ CountQuestions(q) \/ CountChunks(q) \/ Search(q)
      PROVE  \A r \in Requests : Holder(r)'
  BY <1>0, <1>4 DEF ReadPlan, CountQuestions, CountChunks, Search, TypeOK, LimitTypeOK
<1>5. ASSUME NEW q \in Requests, Call(q) \/ Record(q) PROVE \A r \in Requests : Holder(r)'
  BY <1>0, <1>5 DEF Call, Record, Continue, TypeOK, LimitTypeOK
<1>6. ASSUME NEW u \in Users, ChangePlan(u) PROVE \A r \in Requests : Holder(r)'
  BY <1>0, <1>6 DEF ChangePlan, TypeOK, LimitTypeOK
<1>7. ASSUME \/ \E a \in Accounts : DeleteAccount(a)
             \/ \E t \in Transactions :
                    DeleteTransaction(t) \/ \E a \in Accounts : UpdateTransaction(t, a)
             \/ Ingest \/ Midnight \/ UNCHANGED vars
      PROVE  \A r \in Requests : Holder(r)'
  BY <1>0, <1>7 DEF DeleteAccount, DeleteTransaction, UpdateTransaction, Ingest, Midnight, vars, limitVars
<1> QED
  BY <1>1, <1>2, <1>3, <1>4, <1>5, <1>6, <1>7 DEF Next, LimitStep, AiStep

LEMMA PlacedStep == IInv /\ [Next]_vars => \A q \in Requests : Placed(q)'
<1> SUFFICES ASSUME IInv, [Next]_vars, NEW r \in Requests, pc'[r] = "checkTransaction"
             PROVE  Placed(r)'
    BY DEF Placed
<1> USE LimitNamesAssumption
<1>0. TypeOK /\ LimitTypeOK /\ AgeInv /\ Holder(r) /\ Placed(r)
  BY DEF IInv, TypeOK, LimitRequestInv, Holder, Placed
\* The request goes on as it was, and no account of its user is older than before.
<1>1. ASSUME pc[r] = "checkTransaction", user'[r] = user[r], account'[r] = account[r],
             "active" \notin todo'[r] => "active" \notin todo[r],
             r \notin overtaken' => r \notin overtaken /\ plan'[user[r]] = plan[user[r]],
             createdAt'[account[r]] = createdAt[account[r]],
             owner'[account[r]] = user[r] => owner[account[r]] = user[r],
             {b \in AccountsOf(user[r]) : createdAt[b] < createdAt[account[r]]}'
                 \subseteq {b \in AccountsOf(user[r]) : createdAt[b] < createdAt[account[r]]}
      PROVE  Placed(r)'
  <2> DEFINE u == user[r]
             a == account[r]
  <2>1. a \in Accounts /\ createdAt'[a] > 0 /\ account'[r] = a /\ user'[r] = u
    BY <1>0, <1>1 DEF Placed
  <2>2. ASSUME "active" \notin todo'[r], r \notin overtaken', owner'[a] = u
        PROVE  (account[r] \in Active(user[r], plan[user[r]]))'
    <3>1. a \in Active(u, plan[u]) /\ plan'[u] = plan[u] /\ a \in AccountsOf(u)'
      BY <1>0, <1>1, <2>1, <2>2 DEF Placed, AccountsOf
    <3>2. plan[u] \in Plan
      BY <1>0, <1>1 DEF Holder, LimitTypeOK
    <3>3. PICK v, b, p : v = u /\ b = a /\ p = plan[u]
      OBVIOUS
    <3>4. {c \in AccountsOf(v) : createdAt[c] < createdAt[b]}'
              \subseteq {c \in AccountsOf(v) : createdAt[c] < createdAt[b]}
      BY <1>1, <3>3, <2>1 DEF AccountsOf
    <3>5. p \in Plan /\ b \in Active(v, p)
      BY <3>1, <3>2, <3>3
    <3>6. b \in AccountsOf(v)'
      <4>1. b \in Accounts /\ owner'[b] = v
        BY <2>1, <2>2, <3>3
      <4> QED
        BY <4>1 DEF AccountsOf
    <3>7. (b \in Active(v, p))'
      BY <3>4, <3>5, <3>6, StaysActive
    <3>8. user'[r] = v /\ account'[r] = b /\ plan'[user'[r]] = p
      BY <2>1, <3>1, <3>3
    <3> QED
      BY <3>7, <3>8
  <2> QED
    BY <2>1, <2>2 DEF Placed
<1> USE DEF rowVars, requestVars, Begin, Goto, Answer
\* A request that is not touched by a step that opens no account.
<1>2. ASSUME pc'[r] = pc[r], user'[r] = user[r], account'[r] = account[r],
             "active" \notin todo'[r] => "active" \notin todo[r],
             r \notin overtaken' => r \notin overtaken /\ plan'[user[r]] = plan[user[r]],
             createdAt' = createdAt,
             \A b \in Accounts : owner'[b] = user[r] => owner[b] = user[r]
      PROVE  Placed(r)'
  <2>1. pc[r] = "checkTransaction" /\ account[r] \in Accounts
    BY <1>0, <1>2 DEF Placed
  <2>2. {b \in AccountsOf(user[r]) : createdAt[b] < createdAt[account[r]]}'
            \subseteq {b \in AccountsOf(user[r]) : createdAt[b] < createdAt[account[r]]}
    BY <1>2 DEF AccountsOf
  <2> QED
    BY <1>1, <1>2, <2>1, <2>2
<1>3. ASSUME NEW q \in Requests, NEW u \in Users, NEW a \in Accounts, CreateTransaction(q, u, a)
      PROVE  Placed(r)'
  <2> USE <1>3 DEF CreateTransaction
  <2>1. CASE q = r
    <3>1. account'[r] = a /\ user'[r] = u /\ plan' = plan /\ owner' = owner
          /\ createdAt' = createdAt /\ seen'[r] = plan[u] /\ owner[a] = u
          /\ todo'[r] = {c \in {"limit", "active"} :
                  IF c = "limit" THEN PLAN_LIMITS[plan[u]].transactionsPerDay # Infinity
                                 ELSE PLAN_LIMITS[plan[u]].bankAccounts # Infinity}
      BY <1>0, <2>1 DEF LimitTypeOK
    <3>2. createdAt[a] > 0
      BY <1>0, <3>1 DEF LimitTypeOK
    <3>3. "active" \notin todo'[r] => PLAN_LIMITS[plan[u]].bankAccounts = Infinity
      BY <3>1
    <3>4. "active" \notin todo'[r] => (account[r] \in Active(user[r], plan[user[r]]))'
      BY <3>1, <3>3 DEF Active, AccountsOf
    <3> QED
      BY <3>1, <3>2, <3>4 DEF Placed
  <2>2. CASE q # r
    BY <1>0, <1>2, <2>2 DEF TypeOK, LimitTypeOK
  <2> QED
    BY <2>1, <2>2
<1>4. ASSUME NEW q \in Requests, validateBankAccountIsActive(q) PROVE Placed(r)'
  <2> USE <1>4 DEF validateBankAccountIsActive, Checked
  <2>1. CASE q = r
    <3>1. account[r] \in Active(user[r], seen[r])
      BY <1>0, <2>1 DEF TypeOK, LimitTypeOK
    <3>2. /\ pc[r] = "checkTransaction" /\ user'[r] = user[r] /\ account'[r] = account[r]
          /\ overtaken' = overtaken /\ plan' = plan /\ owner' = owner /\ createdAt' = createdAt
      BY <1>0, <2>1 DEF TypeOK, LimitTypeOK
    <3>3. r \notin overtaken => seen[r] = plan[user[r]]
      BY <1>0, <3>2 DEF Holder
    <3>4. account[r] \in Accounts /\ createdAt[account[r]] > 0
      BY <1>0, <3>2 DEF Placed
    <3>5. r \notin overtaken => account[r] \in Active(user[r], plan[user[r]])
      BY <3>1, <3>3
    <3>6. r \notin overtaken => (account[r] \in Active(user[r], plan[user[r]]))'
      BY <3>2, <3>5 DEF Active, AccountsOf, getActiveAccountIds
    <3> QED
      BY <3>2, <3>4, <3>6 DEF Placed
  <2>2. CASE q # r
    BY <1>0, <1>2, <2>2 DEF TypeOK, LimitTypeOK
  <2> QED
    BY <2>1, <2>2
<1>5. ASSUME NEW q \in Requests, validateDailyTransactionLimit(q) PROVE Placed(r)'
  <2> USE <1>5 DEF validateDailyTransactionLimit, Checked
  <2>1. /\ pc[r] = "checkTransaction" /\ user'[r] = user[r] /\ account'[r] = account[r]
        /\ plan' = plan /\ owner' = owner /\ createdAt' = createdAt
        /\ (r \in overtaken' <=> r \in overtaken)
    BY <1>0 DEF TypeOK, LimitTypeOK
  <2>2. "active" \notin todo'[r] => "active" \notin todo[r]
    BY <1>0, <2>1 DEF TypeOK, LimitTypeOK
  <2> QED
    BY <1>2, <2>1, <2>2
<1>6. ASSUME NEW q \in Requests, CountAccounts(q) \/ InsertTransaction(q)
                                 \/ \E u \in Users : CreateAccount(q, u)
      PROVE  Placed(r)'
  BY <1>0, <1>2, <1>6 DEF CountAccounts, InsertTransaction, CreateAccount, TypeOK, LimitTypeOK
\* The new account is younger than that of the request.
<1>7. ASSUME NEW q \in Requests, InsertAccount(q) PROVE Placed(r)'
  <2> USE <1>7 DEF InsertAccount
  <2>1. PICK a \in Accounts :
            /\ createdAt[a] = 0
            /\ owner' = [owner EXCEPT ![a] = user[q]]
            /\ createdAt' = [createdAt EXCEPT ![a] = 1 + Cardinality(Opened)]
    BY DEF Opened
  <2>2. /\ pc[r] = "checkTransaction" /\ user'[r] = user[r] /\ account'[r] = account[r]
        /\ todo'[r] = todo[r] /\ plan' = plan /\ (r \in overtaken' <=> r \in overtaken)
    BY <1>0 DEF TypeOK, LimitTypeOK
  <2>3. /\ account[r] \in Accounts \ {a}
        /\ createdAt[account[r]] \in Nat /\ createdAt[account[r]] <= Cardinality(Opened)
        /\ Cardinality(Opened) \in Nat
    <3>1. account[r] \in Accounts /\ createdAt[account[r]] > 0
      BY <1>0, <2>2 DEF Placed
    <3>2. Cardinality(Opened) \in Nat
      BY Counts DEF Opened
    <3> QED
      BY <1>0, <2>1, <3>1, <3>2 DEF AgeInv, LimitTypeOK
  <2>4. /\ createdAt'[a] = 1 + Cardinality(Opened)
        /\ \A b \in Accounts \ {a} : createdAt'[b] = createdAt[b] /\ owner'[b] = owner[b]
    BY <1>0, <2>1 DEF LimitTypeOK
  <2>5. {b \in AccountsOf(user[r]) : createdAt[b] < createdAt[account[r]]}'
            \subseteq {b \in AccountsOf(user[r]) : createdAt[b] < createdAt[account[r]]}
    <3> SUFFICES ASSUME NEW b \in Accounts, owner'[b] = user[r],
                        createdAt'[b] < createdAt'[account[r]]
                 PROVE  owner[b] = user[r] /\ createdAt[b] < createdAt[account[r]]
      BY <2>2 DEF AccountsOf
    <3>1. createdAt'[account[r]] = createdAt[account[r]]
      BY <2>3, <2>4
    <3>2. b # a
      BY <2>3, <2>4, <3>1
    <3> QED
      BY <2>4, <3>1, <3>2
  <2> QED
    BY <1>1, <2>2, <2>3, <2>4, <2>5
<1>8. ASSUME NEW a \in Accounts, DeleteAccount(a) PROVE Placed(r)'
  <2>1. user[r] # NoUser
    BY <1>0, <1>8 DEF DeleteAccount, Holder
  <2>2. \A b \in Accounts : owner'[b] = user[r] => owner[b] = user[r]
    BY <1>0, <1>8, <2>1 DEF DeleteAccount, LimitTypeOK
  <2> QED
    BY <1>2, <1>8, <2>2 DEF DeleteAccount
<1>9. ASSUME NEW u \in Users, ChangePlan(u) PROVE Placed(r)'
  BY <1>0, <1>2, <1>9 DEF ChangePlan, LimitTypeOK
<1>10. ASSUME \/ \E t \in Transactions :
                    DeleteTransaction(t) \/ \E a \in Accounts : UpdateTransaction(t, a)
              \/ UNCHANGED vars
       PROVE  Placed(r)'
  BY <1>2, <1>10 DEF DeleteTransaction, UpdateTransaction, vars, limitVars
<1>11. ASSUME AiStep PROVE Placed(r)'
  <2>1. AiFrame
    BY <1>0, <1>11, AiKeeps
  <2>2. pc'[r] = pc[r] /\ user'[r] = user[r] /\ account'[r] = account[r] /\ todo'[r] = todo[r]
        /\ (r \in overtaken' <=> r \in overtaken)
    BY <2>1 DEF AiFrame, Label
  <2>3. plan' = plan /\ createdAt' = createdAt /\ owner' = owner
    BY <2>1 DEF AiFrame
  <2> QED
    BY <1>2, <2>2, <2>3
<1> QED
  BY <1>3, <1>4, <1>5, <1>6, <1>7, <1>8, <1>9, <1>10, <1>11 DEF Next, LimitStep

------------------------------------------------------------------------------
(* The questions *)

LEMMA CallStep == IInv /\ [Next]_vars => CallInv'
<1> SUFFICES ASSUME IInv, [Next]_vars PROVE CallInv'
    OBVIOUS
<1>0. TypeOK /\ LimitTypeOK /\ CallInv
  BY DEF IInv, TypeOK
<1> USE SpendAssumption DEF CallInv, EndAi, Proceed, ReadsOnly, Begin, Goto, Answer
<1>1. ASSUME LimitStep, UNCHANGED aiVars PROVE CallInv'
  <2>1. feature' = feature /\ calls' = calls
    BY <1>1 DEF aiVars
  <2>2. \A q \in Requests : pc'[q] \in AiLabel => pc'[q] = pc[q]
    BY <1>0, <1>1, LimitKeeps DEF LimitFrame
  <2> QED
    BY <1>0, <2>1, <2>2 DEF AiLabel
<1>2. ASSUME NEW q \in Requests, NEW u \in Users,
             AskQuestion(q, u) \/ Categorize(q, u) \/ RunAgent(q, u)
      PROVE  CallInv'
  BY <1>0, <1>2 DEF AskQuestion, Categorize, RunAgent, BeginAi, TypeOK, LimitTypeOK
<1>3. ASSUME NEW q \in Requests, ReadPlan(q) \/ CountQuestions(q) \/ CountChunks(q) \/ Search(q)
      PROVE  CallInv'
  BY <1>0, <1>3 DEF ReadPlan, CountQuestions, CountChunks, Search, TypeOK, LimitTypeOK
<1>4. ASSUME NEW q \in Requests, Call(q) PROVE CallInv'
  BY <1>0, <1>4 DEF Call, TypeOK, LimitTypeOK
<1>5. ASSUME NEW q \in Requests, Record(q) PROVE CallInv'
  BY <1>0, <1>5 DEF Record, Continue, TypeOK, LimitTypeOK
<1>6. ASSUME Ingest \/ Midnight \/ UNCHANGED vars PROVE CallInv'
  BY <1>0, <1>6 DEF Ingest, Midnight, vars, limitVars, requestVars, aiVars
<1> QED
  BY <1>1, <1>2, <1>3, <1>4, <1>5, <1>6 DEF Next, AiStep

\* The corpus is one edition after another, never nothing again.
LEMMA CorpusStep == IInv /\ [Next]_vars => CorpusInv' /\ CorpusIsWhole'
<1> SUFFICES ASSUME IInv, [Next]_vars PROVE CorpusInv' /\ CorpusIsWhole'
    OBVIOUS
<1>0. TypeOK /\ LimitTypeOK /\ CorpusInv /\ CorpusIsWhole
  BY DEF IInv, TypeOK
<1> USE SpendAssumption
        DEF CorpusInv, CorpusIsWhole, EndAi, Proceed, ReadsOnly, Begin, Goto, Answer
<1>1. ASSUME LimitStep, UNCHANGED aiVars PROVE CorpusInv' /\ CorpusIsWhole'
  <2>1. chunks' = chunks /\ editions' = editions /\ misled' = misled
    BY <1>1 DEF aiVars
  <2>2. \A q \in Requests : pc'[q] \in AiLabel => pc'[q] = pc[q]
    BY <1>0, <1>1, LimitKeeps DEF LimitFrame
  <2> QED
    BY <1>0, <2>1, <2>2 DEF AiLabel
<1>2. ASSUME NEW q \in Requests, NEW u \in Users,
             AskQuestion(q, u) \/ Categorize(q, u) \/ RunAgent(q, u)
      PROVE  CorpusInv' /\ CorpusIsWhole'
  BY <1>0, <1>2 DEF AskQuestion, Categorize, RunAgent, BeginAi, TypeOK
<1>3. ASSUME NEW q \in Requests, ReadPlan(q) \/ CountQuestions(q) \/ CountChunks(q) \/ Search(q)
      PROVE  CorpusInv' /\ CorpusIsWhole'
  BY <1>0, <1>3 DEF ReadPlan, CountQuestions, CountChunks, Search, TypeOK
<1>4. ASSUME NEW q \in Requests, Call(q) \/ Record(q) PROVE CorpusInv' /\ CorpusIsWhole'
  BY <1>0, <1>4 DEF Call, Record, Continue, TypeOK
<1>5. ASSUME Ingest PROVE CorpusInv' /\ CorpusIsWhole'
  <2>1. chunks' = editions + 1 /\ editions' = editions + 1 /\ editions \in Nat
    BY <1>0, <1>5 DEF Ingest, replaceAll, TypeOK
  <2> QED
    BY <1>0, <1>5, <2>1 DEF Ingest
<1>6. ASSUME Midnight \/ UNCHANGED vars PROVE CorpusInv' /\ CorpusIsWhole'
  BY <1>0, <1>6 DEF Midnight, vars, limitVars, requestVars, aiVars
<1> QED
  BY <1>1, <1>2, <1>3, <1>4, <1>5, <1>6 DEF Next, AiStep

QuestionsWithin(u, p) ==
    Within(PLAN_LIMITS[p].ragQuestionsPerDay, questions[u] + Cardinality(Asking(u)))

NoneAnswered(u, p) ==
    PLAN_LIMITS[p].ragQuestionsPerDay = 0 => Asking(u) = {} /\ answered[u] = 0

\* A step that adds neither a row nor a question that may add one.
LEMMA QuestionsShrink ==
    ASSUME NEW u \in Users, NEW p \in Plan, TypeOK, TypeOK', QuestionsWithin(u, p),
           Asking(u)' \subseteq Asking(u), questions'[u] <= questions[u]
    PROVE  QuestionsWithin(u, p)'
<1>1. /\ Cardinality(Asking(u)') \in Nat
      /\ Cardinality(Asking(u)') <= Cardinality(Asking(u))
  BY CountTypes, Larger
<1>2. questions[u] \in Nat /\ questions'[u] \in Nat
  BY DEF TypeOK
<1> DEFINE used == questions[u] + Cardinality(Asking(u))
           used1 == questions'[u] + Cardinality(Asking(u)')
<1>3. used \in Nat /\ used1 \in Nat /\ used1 <= used
  BY <1>1, <1>2, CountTypes
<1>4. PLAN_LIMITS[p].ragQuestionsPerDay \in Nat \cup {Infinity}
      /\ Within(PLAN_LIMITS[p].ragQuestionsPerDay, used)
  BY LimitTypes DEF QuestionsWithin
<1>5. Within(PLAN_LIMITS[p].ragQuestionsPerDay, used1)
  <2> HIDE DEF used, used1
  <2> QED
    BY <1>3, <1>4, WithinLess
<1> QED
  BY <1>5 DEF QuestionsWithin, Within

\* validateDailyAiQuota leaves room for every request; a row is written for a
\* question that is over.
LEMMA QuestionsStep == IInv /\ [Next]_vars => QuestionsInv'
<1> SUFFICES ASSUME IInv, [Next]_vars, NEW u \in Users
             PROVE  \E p \in had'[u] : QuestionsWithin(u, p)' /\ NoneAnswered(u, p)'
    BY DEF QuestionsInv, QuestionsWithin, NoneAnswered
<1> USE LimitNamesAssumption
<1>0. /\ TypeOK /\ LimitTypeOK /\ LimitRequestInv /\ CallInv
      /\ had[u] \subseteq Plan
      /\ TypeOK'
  BY TypeStep DEF IInv, TypeOK, LimitTypeOK
<1>00. PICK p \in had[u] : QuestionsWithin(u, p) /\ NoneAnswered(u, p)
  BY DEF IInv, QuestionsInv, QuestionsWithin, NoneAnswered
<1>1. ASSUME Asking(u)' \subseteq Asking(u), had[u] \subseteq had'[u],
             questions'[u] <= questions[u], answered'[u] = answered[u] \/ answered'[u] = 0
      PROVE  \E r \in had'[u] : QuestionsWithin(u, r)' /\ NoneAnswered(u, r)'
  <2>1. QuestionsWithin(u, p)'
    BY <1>0, <1>00, <1>1, QuestionsShrink
  <2>2. NoneAnswered(u, p)'
    BY <1>00, <1>1 DEF NoneAnswered
  <2> QED
    BY <1>00, <1>1, <2>1, <2>2
<1>2. ASSUME LimitStep, UNCHANGED aiVars
      PROVE  \E r \in had'[u] : QuestionsWithin(u, r)' /\ NoneAnswered(u, r)'
  <2>1. LimitFrame
    BY <1>0, <1>2, LimitKeeps
  <2>2. Asking(u)' \subseteq Asking(u) /\ had[u] \subseteq had'[u]
        /\ questions' = questions /\ answered' = answered
    BY <2>1 DEF LimitFrame, Asking, AiLabel, aiVars
  <2>3. questions[u] \in Nat
    BY <1>0 DEF TypeOK
  <2> QED
    BY <1>1, <2>2, <2>3
<1> USE DEF rowVars, requestVars, Begin, Goto, Answer, EndAi, Proceed, ReadsOnly
<1>3. ASSUME NEW q \in Requests,
             \/ \E v \in Users : AskQuestion(q, v) \/ Categorize(q, v) \/ RunAgent(q, v)
             \/ CountChunks(q) \/ Search(q)
      PROVE  \E r \in had'[u] : QuestionsWithin(u, r)' /\ NoneAnswered(u, r)'
  <2> USE <1>3 DEF AskQuestion, Categorize, RunAgent, BeginAi, CountChunks, Search
  <2>1. had' = had /\ questions' = questions /\ answered' = answered /\ questions[u] \in Nat
    BY <1>0 DEF TypeOK
  <2>2. Asking(u)' \subseteq Asking(u)
    BY <1>0 DEF Asking, TypeOK, LimitTypeOK
  <2> QED
    BY <1>1, <2>1, <2>2
<1>4. ASSUME NEW q \in Requests, ReadPlan(q)
      PROVE  \E r \in had'[u] : QuestionsWithin(u, r)' /\ NoneAnswered(u, r)'
  <2> USE <1>4 DEF ReadPlan
  <2>1. had' = had /\ questions' = questions /\ answered' = answered /\ questions[u] \in Nat
        /\ plan' = plan
    BY <1>0 DEF TypeOK
  <2>2. CASE user[q] = u /\ PLAN_LIMITS[plan[u]].ragQuestionsPerDay = Infinity
    <3>1. QuestionsWithin(u, plan[u])' /\ NoneAnswered(u, plan[u])'
      BY <2>1, <2>2 DEF QuestionsWithin, NoneAnswered, Within
    <3>2. plan'[u] = plan[u] /\ plan[u] \in had'[u]
      BY <1>0, <2>1 DEF LimitTypeOK
    <3> QED
      BY <3>1, <3>2
  <2>3. CASE ~(user[q] = u /\ PLAN_LIMITS[plan[u]].ragQuestionsPerDay = Infinity)
    <3>1. Asking(u)' \subseteq Asking(u)
      BY <1>0, <2>3 DEF Asking, TypeOK, LimitTypeOK
    <3> QED
      BY <1>1, <2>1, <3>1
  <2> QED
    BY <2>2, <2>3
<1>5. ASSUME NEW q \in Requests, CountQuestions(q)
      PROVE  \E r \in had'[u] : QuestionsWithin(u, r)' /\ NoneAnswered(u, r)'
  <2> USE <1>5 DEF CountQuestions
  <2>1. had' = had /\ questions' = questions /\ answered' = answered /\ questions[u] \in Nat
    BY <1>0 DEF TypeOK
  <2>2. CASE user[q] = u /\ withinLimit(questions[u], PLAN_LIMITS[seen[q]].ragQuestionsPerDay)
    <3> DEFINE limit == PLAN_LIMITS[seen[q]].ragQuestionsPerDay
               asking == Cardinality(Asking(u)')
    <3>1. seen[q] \in had[u] /\ limit \in Nat \cup {Infinity} /\ seen'[q] = seen[q]
      BY <1>0, <2>2, LimitTypes DEF LimitTypeOK
    <3>2. asking \in Nat /\ asking <= Cardinality(Requests)
      <4>1. Asking(u)' \in SUBSET Requests
        BY DEF Asking
      <4> QED
        BY <4>1, Counts
    <3>3. withinLimit(questions[u], limit) /\ limit # 0
      BY <2>1, <2>2 DEF withinLimit
    <3>4. Within(limit, questions[u] + asking)
      <4> HIDE DEF limit, asking
      <4> QED
        BY <2>1, <3>1, <3>2, <3>3, WithinCounted
    <3>5. QuestionsWithin(u, seen[q])' /\ NoneAnswered(u, seen[q])'
      BY <2>1, <3>1, <3>3, <3>4 DEF QuestionsWithin, NoneAnswered, Within
    <3>6. seen'[q] \in had'[u]
      BY <2>1, <3>1
    <3> QED
      BY <3>5, <3>6
  <2>3. CASE ~(user[q] = u /\ withinLimit(questions[u], PLAN_LIMITS[seen[q]].ragQuestionsPerDay))
    <3>1. Asking(u)' \subseteq Asking(u)
      BY <1>0, <2>3 DEF Asking, TypeOK, LimitTypeOK
    <3> QED
      BY <1>1, <2>1, <3>1
  <2> QED
    BY <2>2, <2>3
<1>6. ASSUME NEW q \in Requests, Call(q)
      PROVE  \E r \in had'[u] : QuestionsWithin(u, r)' /\ NoneAnswered(u, r)'
  <2> USE <1>6 DEF Call
  <2>1. had' = had /\ questions' = questions /\ questions[u] \in Nat
    BY <1>0 DEF TypeOK
  <2>2. Asking(u)' \subseteq Asking(u)
    BY <1>0 DEF Asking, TypeOK, LimitTypeOK
  <2>3. CASE user[q] = u /\ feature[q] = "rag"
    <3>1. q \in Asking(u)
      BY <2>3 DEF Asking
    <3>2. PLAN_LIMITS[p].ragQuestionsPerDay # 0
      BY <1>00, <3>1 DEF NoneAnswered
    <3>3. QuestionsWithin(u, p)' /\ NoneAnswered(u, p)'
      BY <1>0, <1>00, <2>1, <2>2, <3>2, QuestionsShrink DEF NoneAnswered
    <3> QED
      BY <1>00, <2>1, <3>3
  <2>4. CASE ~(user[q] = u /\ feature[q] = "rag")
    <3>1. answered'[u] = answered[u]
      BY <1>0, <2>4 DEF TypeOK
    <3> QED
      BY <1>1, <2>1, <2>2, <3>1
  <2> QED
    BY <2>3, <2>4
<1>7. ASSUME NEW q \in Requests, Record(q)
      PROVE  \E r \in had'[u] : QuestionsWithin(u, r)' /\ NoneAnswered(u, r)'
  <2> USE <1>7 DEF Record, Continue
  <2>1. had' = had /\ answered' = answered /\ questions[u] \in Nat
    BY <1>0 DEF TypeOK
  <2>2. CASE user[q] = u /\ feature[q] = "rag" /\ questions'[u] = questions[u] + 1
    <3>1. calls[q] = 0
      BY <1>0, <2>2 DEF CallInv
    <3>2. Asking(u)' = Asking(u) \ {q} /\ q \in Asking(u)
      BY <1>0, <2>2, <3>1 DEF Asking, TypeOK, LimitTypeOK
    <3>3. Cardinality(Asking(u)') = Cardinality(Asking(u)) - 1
      BY <3>2, CountTypes, FS_RemoveElement
    <3>4. questions'[u] + Cardinality(Asking(u)') = questions[u] + Cardinality(Asking(u))
      BY <2>1, <2>2, <3>3, CountTypes
    <3>5. QuestionsWithin(u, p)'
      BY <1>00, <3>4 DEF QuestionsWithin
    <3>6. NoneAnswered(u, p)'
      BY <1>00, <2>1, <3>2 DEF NoneAnswered
    <3> QED
      BY <1>00, <2>1, <3>5, <3>6
  <2>3. CASE ~(user[q] = u /\ feature[q] = "rag" /\ questions'[u] = questions[u] + 1)
    <3>1. Asking(u)' \subseteq Asking(u)
      BY <1>0 DEF Asking, TypeOK, LimitTypeOK
    <3>2. questions'[u] = questions[u]
      BY <1>0, <2>3 DEF TypeOK
    <3> QED
      BY <1>1, <2>1, <3>1, <3>2
  <2> QED
    BY <2>2, <2>3
<1>8. ASSUME Ingest \/ Midnight
      PROVE  \E r \in had'[u] : QuestionsWithin(u, r)' /\ NoneAnswered(u, r)'
  <2>1. questions[u] \in Nat
    BY <1>0 DEF TypeOK
  <2>2. /\ had' = had /\ pc' = pc /\ user' = user /\ feature' = feature
        /\ (questions' = questions /\ answered' = answered)
           \/ (questions' = [v \in Users |-> 0] /\ answered' = [v \in Users |-> 0])
    BY <1>8 DEF Ingest, Midnight, limitVars
  <2>3. Asking(u)' = Asking(u)
    BY <2>2 DEF Asking
  <2>4. questions'[u] <= questions[u] /\ (answered'[u] = answered[u] \/ answered'[u] = 0)
    BY <2>1, <2>2
  <2> QED
    BY <1>1, <2>2, <2>3, <2>4
<1>9. ASSUME UNCHANGED vars
      PROVE  \E r \in had'[u] : QuestionsWithin(u, r)' /\ NoneAnswered(u, r)'
  <2>1. had' = had /\ questions' = questions /\ answered' = answered /\ questions[u] \in Nat
    BY <1>0, <1>9 DEF vars, limitVars, aiVars, TypeOK
  <2>2. Asking(u)' = Asking(u)
    BY <1>9 DEF vars, limitVars, aiVars, Asking
  <2> QED
    BY <1>1, <2>1, <2>2
<1> QED
  BY <1>2, <1>3, <1>4, <1>5, <1>6, <1>7, <1>8, <1>9 DEF Next, AiStep

\* An answer is about to be recorded before it is in a row or lost.
LEMMA AnsweredStep == IInv /\ [Next]_vars => AnsweredInv'
<1> SUFFICES ASSUME IInv, [Next]_vars, NEW u \in Users
             PROVE  answered'[u] <= questions'[u] + lost'[u] + Cardinality(Recording(u)')
    BY DEF AnsweredInv
<1> USE LimitNamesAssumption
<1>0. /\ TypeOK /\ LimitTypeOK /\ CallInv
      /\ answered[u] <= questions[u] + lost[u] + Cardinality(Recording(u))
      /\ answered[u] \in Nat /\ questions[u] \in Nat /\ lost[u] \in Nat
  BY DEF IInv, TypeOK, AnsweredInv
<1>1. ASSUME Recording(u)' = Recording(u),
             answered' = answered, questions' = questions, lost' = lost
      PROVE  answered'[u] <= questions'[u] + lost'[u] + Cardinality(Recording(u)')
  BY <1>0, <1>1
<1>2. ASSUME LimitStep, UNCHANGED aiVars
      PROVE  answered'[u] <= questions'[u] + lost'[u] + Cardinality(Recording(u)')
  <2>1. LimitFrame
    BY <1>0, <1>2, LimitKeeps
  <2>2. Recording(u)' = Recording(u)
    BY <2>1 DEF LimitFrame, Recording, AiLabel, aiVars
  <2> QED
    BY <1>1, <1>2, <2>2 DEF aiVars
<1> USE DEF rowVars, requestVars, Begin, Goto, Answer, EndAi, Proceed, ReadsOnly
<1>3. ASSUME NEW q \in Requests,
             \/ \E v \in Users : AskQuestion(q, v) \/ Categorize(q, v) \/ RunAgent(q, v)
             \/ ReadPlan(q) \/ CountQuestions(q) \/ CountChunks(q) \/ Search(q)
      PROVE  answered'[u] <= questions'[u] + lost'[u] + Cardinality(Recording(u)')
  <2> USE <1>3 DEF AskQuestion, Categorize, RunAgent, BeginAi, ReadPlan, CountQuestions,
          CountChunks, Search
  <2>1. answered' = answered /\ questions' = questions /\ lost' = lost
    OBVIOUS
  <2>2. Recording(u)' = Recording(u)
    BY <1>0 DEF Recording, TypeOK, LimitTypeOK
  <2> QED
    BY <1>1, <2>1, <2>2
<1>4. ASSUME NEW q \in Requests, Call(q)
      PROVE  answered'[u] <= questions'[u] + lost'[u] + Cardinality(Recording(u)')
  <2> USE <1>4 DEF Call
  <2>1. questions' = questions /\ lost' = lost
    OBVIOUS
  <2>2. CASE user[q] = u /\ feature[q] = "rag" /\ answered' = [answered EXCEPT ![u] = @ + 1]
             /\ pc' = [pc EXCEPT ![q] = "record"]
    <3>1. user'[q] = u /\ feature'[q] = "rag"
      BY <1>0, <2>2 DEF TypeOK, LimitTypeOK
    <3>2. Recording(u)' = Recording(u) \cup {q} /\ q \notin Recording(u)
      BY <1>0, <2>2, <3>1 DEF Recording, TypeOK, LimitTypeOK
    <3>3. Cardinality(Recording(u)') = Cardinality(Recording(u)) + 1
      BY <3>2, CountTypes, FS_AddElement
    <3>4. answered'[u] = answered[u] + 1
      BY <1>0, <2>2 DEF TypeOK
    <3> QED
      BY <1>0, <2>1, <3>3, <3>4, CountTypes
  <2>3. CASE ~(user[q] = u /\ feature[q] = "rag") \/ (EndAi(q) /\ answered' = answered)
    <3>1. answered'[u] = answered[u]
      BY <1>0, <2>3 DEF TypeOK
    <3>2. Recording(u)' = Recording(u)
      BY <1>0, <2>3 DEF Recording, TypeOK, LimitTypeOK
    <3> QED
      BY <1>0, <2>1, <3>1, <3>2
  <2>4. ASSUME user[q] = u, feature[q] = "rag", ~(EndAi(q) /\ answered' = answered)
        PROVE  /\ answered' = [answered EXCEPT ![u] = @ + 1]
               /\ pc' = [pc EXCEPT ![q] = "record"]
    BY <2>4
  <2> HIDE <1>4
  <2> QED
    BY <2>2, <2>3, <2>4
<1>5. ASSUME NEW q \in Requests, Record(q)
      PROVE  answered'[u] <= questions'[u] + lost'[u] + Cardinality(Recording(u)')
  <2> USE <1>5 DEF Record, Continue
  <2>1. answered' = answered
    OBVIOUS
  <2>2. CASE user[q] = u /\ feature[q] = "rag"
    <3>1. Recording(u)' = Recording(u) \ {q} /\ q \in Recording(u)
      BY <1>0, <2>2 DEF Recording, TypeOK, LimitTypeOK
    <3>2. Cardinality(Recording(u)') = Cardinality(Recording(u)) - 1
      BY <3>1, CountTypes, FS_RemoveElement
    <3>3. \/ questions'[u] = questions[u] + 1 /\ lost'[u] = lost[u]
          \/ questions'[u] = questions[u] /\ lost'[u] = lost[u] + 1
      BY <1>0, <2>2 DEF TypeOK
    <3> QED
      BY <1>0, <2>1, <3>2, <3>3, CountTypes
  <2>3. CASE ~(user[q] = u /\ feature[q] = "rag")
    <3>1. questions'[u] = questions[u] /\ lost'[u] = lost[u]
      BY <1>0, <2>3 DEF TypeOK
    <3>2. Recording(u)' = Recording(u)
      BY <1>0, <2>3 DEF Recording, TypeOK, LimitTypeOK
    <3> QED
      BY <1>0, <2>1, <3>1, <3>2
  <2> QED
    BY <2>2, <2>3
<1>6. ASSUME Ingest \/ Midnight \/ UNCHANGED vars
      PROVE  answered'[u] <= questions'[u] + lost'[u] + Cardinality(Recording(u)')
  <2>1. Recording(u)' = Recording(u)
    BY <1>6 DEF Ingest, Midnight, vars, limitVars, aiVars, Recording
  <2>2. \/ answered' = answered /\ questions' = questions /\ lost' = lost
        \/ answered'[u] = 0 /\ questions'[u] = 0 /\ lost'[u] = 0
    BY <1>6 DEF Ingest, Midnight, vars, aiVars
  <2>3. Cardinality(Recording(u)') \in Nat
    BY <2>1, CountTypes
  <2> QED
    BY <1>1, <2>1, <2>2, <2>3
<1> QED
  BY <1>2, <1>3, <1>4, <1>5, <1>6 DEF Next, AiStep

------------------------------------------------------------------------------
(* Money *)

\* What one request may spend, call by call.
LEMMA CallCosts ==
    /\ MaxCost * MaxCalls \in Nat \ {0}
    /\ MaxCost * MaxCalls * Cardinality(Requests) \in Nat \ {0}
    /\ \A n \in 0..MaxCalls : MaxCost * n \in 0..MaxCost * MaxCalls
    /\ \A n \in 1..MaxCalls : MaxCost * n = MaxCost * (n - 1) + MaxCost
    /\ \A n \in 0..MaxCalls - 1 : MaxCost + MaxCost * n <= MaxCost * MaxCalls
BY SpendAssumption, SomeRequest

LEMMA Labelled ==
    ASSUME NEW x, NEW T, IsFiniteSet(T)
    PROVE  IsFiniteSet({x} \X T) /\ Cardinality({x} \X T) = Cardinality(T)
<1>1. IsFiniteSet({x}) /\ Cardinality({x}) = 1
  BY FS_Singleton
<1>2. Cardinality(T) \in Nat
  BY FS_CardinalityType
<1> DEFINE one == {x}
<1> HIDE DEF one
<1>3. IsFiniteSet(one \X T) /\ Cardinality(one \X T) = Cardinality(one) * Cardinality(T)
  BY <1>1, FS_Product DEF one
<1>4. Cardinality(one) = 1
  BY <1>1 DEF one
<1>5. Cardinality(one \X T) = Cardinality(T)
  BY <1>2, <1>3, <1>4
<1> QED
  BY <1>3, <1>5 DEF one

LEMMA UnitsType ==
    ASSUME NEW f
    PROVE  /\ IsFiniteSet(Units(f)) /\ Cardinality(Units(f)) \in Nat
           /\ Cardinality(Units(f)) <= MaxCost * MaxCalls * Cardinality(Requests)
<1> DEFINE All == Requests \X (1..MaxCost * MaxCalls)
<1>1. IsFiniteSet(1..MaxCost * MaxCalls) /\ Cardinality(1..MaxCost * MaxCalls) = MaxCost * MaxCalls
  BY FS_Interval, CallCosts
<1>2. IsFiniteSet(All) /\ Cardinality(All) = Cardinality(Requests) * (MaxCost * MaxCalls)
  BY <1>1, FS_Product, FinitenessAssumption
<1>3. Units(f) \in SUBSET All
  BY DEF Units
<1>4. IsFiniteSet(Units(f)) /\ Cardinality(Units(f)) <= Cardinality(All)
  BY <1>2, <1>3, FS_Subset
<1>5. Cardinality(Requests) * (MaxCost * MaxCalls) = MaxCost * MaxCalls * Cardinality(Requests)
  BY SpendAssumption, SomeRequest
<1> QED
  BY <1>2, <1>4, <1>5, FS_CardinalityType

\* The sum changes by what one of its terms changes.
LEMMA UnitsGrow ==
    ASSUME NEW f \in [Requests -> Nat], NEW g \in [Requests -> Nat], NEW q \in Requests,
           \A r \in Requests : r # q => g[r] = f[r],
           f[q] <= g[q], g[q] <= MaxCost * MaxCalls
    PROVE  Cardinality(Units(g)) = Cardinality(Units(f)) + (g[q] - f[q])
<1> DEFINE more == {q} \X (f[q] + 1..g[q])
<1>0. MaxCost * MaxCalls \in Nat
  BY CallCosts
<1>1. IsFiniteSet(more) /\ Cardinality(more) = g[q] - f[q]
  <2>1. f[q] + 1 \in Int /\ g[q] \in Int
    OBVIOUS
  <2>2. IsFiniteSet(f[q] + 1..g[q]) /\ Cardinality(f[q] + 1..g[q]) = g[q] - f[q]
    BY <2>1, FS_Interval
  <2> QED
    BY <2>2, Labelled
<1>2. Units(g) = Units(f) \cup more
  <2>1. ASSUME NEW x \in Units(g) PROVE x \in Units(f) \cup more
    <3>1. PICK r \in Requests, i \in 1..MaxCost * MaxCalls : x = <<r, i>> /\ i <= g[r]
      BY DEF Units
    <3>2. CASE i <= f[r]
      BY <3>1, <3>2 DEF Units
    <3>3. CASE ~(i <= f[r])
      <4>1. f[r] \in Nat /\ g[r] \in Nat /\ i \in Nat
        BY <1>0
      <4>2. r = q
        BY <3>1, <3>3, <4>1
      <4>3. i \in f[q] + 1..g[q]
        BY <3>1, <3>3, <4>1, <4>2
      <4> QED
        BY <3>1, <4>2, <4>3
    <3> QED
      BY <3>2, <3>3
  <2>2. ASSUME NEW x \in Units(f) PROVE x \in Units(g)
    <3>1. PICK r \in Requests, i \in 1..MaxCost * MaxCalls : x = <<r, i>> /\ i <= f[r]
      BY DEF Units
    <3>2. f[r] \in Nat /\ g[r] \in Nat /\ f[r] <= g[r]
      OBVIOUS
    <3>3. i <= g[r]
      BY <1>0, <3>1, <3>2
    <3> QED
      BY <3>1, <3>3 DEF Units
  <2>3. ASSUME NEW x \in more PROVE x \in Units(g)
    <3>1. PICK i \in f[q] + 1..g[q] : x = <<q, i>>
      OBVIOUS
    <3>2. i \in 1..MaxCost * MaxCalls /\ i <= g[q]
      BY <1>0, <3>1
    <3> QED
      BY <3>1, <3>2 DEF Units
  <2> QED
    BY <2>1, <2>2, <2>3
<1>3. ASSUME NEW x \in Units(f) \cap more PROVE FALSE
  <2>1. PICK i \in f[q] + 1..g[q] : x = <<q, i>>
    BY <1>3
  <2>2. i <= f[q]
    BY <1>3, <2>1 DEF Units
  <2> QED
    BY <2>1, <2>2
<1>4. Cardinality(Units(f) \cap more) = 0
  BY <1>3, FS_EmptySet
<1> HIDE DEF more
<1>5. Cardinality(Units(f) \cup more) =
          Cardinality(Units(f)) + Cardinality(more) - Cardinality(Units(f) \cap more)
  BY <1>1, UnitsType, FS_Union
<1>6. Cardinality(Units(f)) \in Nat /\ f[q] \in Nat /\ g[q] \in Nat
  BY UnitsType
<1> QED
  BY <1>1, <1>2, <1>4, <1>5, <1>6

LEMMA UnitsChange ==
    ASSUME NEW f \in [Requests -> 0..MaxCost * MaxCalls],
           NEW g \in [Requests -> 0..MaxCost * MaxCalls], NEW q \in Requests,
           \A r \in Requests : r # q => g[r] = f[r]
    PROVE  Cardinality(Units(g)) = Cardinality(Units(f)) + g[q] - f[q]
<1>1. MaxCost * MaxCalls \in Nat
  BY CallCosts
<1>2. f \in [Requests -> Nat] /\ g \in [Requests -> Nat]
  BY <1>1
<1>3. CASE f[q] <= g[q]
  BY <1>1, <1>2, <1>3, UnitsGrow, UnitsType
<1>4. CASE g[q] <= f[q]
  BY <1>1, <1>2, <1>4, UnitsGrow, UnitsType
<1> QED
  BY <1>2, <1>3, <1>4

LEMMA OwedTypes ==
    ASSUME NEW label, NEW left \in [Requests -> 0..MaxCalls], NEW owes \in [Requests -> 0..MaxCost],
           \A q \in Requests : label[q] = "record" => left[q] < MaxCalls,
           NEW q \in Requests
    PROVE  LET unwritten == IF label[q] = "record" THEN owes[q] ELSE 0 IN
           /\ unwritten \in 0..MaxCost * MaxCalls
           /\ unwritten + MaxCost * left[q] \in 0..MaxCost * MaxCalls
<1>1. left[q] \in 0..MaxCalls /\ owes[q] \in 0..MaxCost
  OBVIOUS
<1>2. MaxCost * left[q] \in 0..MaxCost * MaxCalls /\ MaxCost * MaxCalls \in Nat
  BY <1>1, CallCosts
<1>3. CASE label[q] = "record"
  <2>1. left[q] \in 0..MaxCalls - 1
    BY <1>1, <1>3, SpendAssumption
  <2>2. MaxCost + MaxCost * left[q] <= MaxCost * MaxCalls
    BY <2>1, CallCosts
  <2> QED
    BY <1>1, <1>2, <1>3, <2>2, SpendAssumption
<1>4. CASE label[q] # "record"
  BY <1>2, <1>4
<1> QED
  BY <1>3, <1>4

LEMMA UnseenTypes ==
    /\ TypeOK => Unseen \in Nat
    /\ TypeOK' => Unseen' \in Nat
<1>1. TypeOK => Unseen \in Nat
  BY DEF TypeOK, Unseen
<1>2. ASSUME TypeOK' PROVE Unseen' \in Nat
  <2>1. PICK a \in Nat : unrecorded' = a
    BY <1>2 DEF TypeOK
  <2>2. PICK b \in Nat : underestimated' = b
    BY <1>2 DEF TypeOK
  <2>3. a + b \in Nat
    OBVIOUS
  <2>4. Unseen' = a + b
    BY <2>1, <2>2 DEF Unseen
  <2> QED
    BY <2>3, <2>4
<1> QED
  BY <1>1, <1>2

\* Nobody's money moves.
LEMMA MoneyRests ==
    ASSUME PaidInv, BudgetInv, UNCHANGED <<paid, spent, Unseen, calls, cost>>,
           \A q \in Requests : pc'[q] = "record" <=> pc[q] = "record"
    PROVE  PaidInv' /\ BudgetInv'
<1>1. Unwritten' = Unwritten
  BY DEF Unwritten
<1>2. Owed' = Owed
  BY <1>1 DEF Owed
<1>3. Units(Unwritten)' = Units(Unwritten) /\ Units(Owed)' = Units(Owed)
  BY <1>1, <1>2 DEF Units
<1> QED
  BY <1>3 DEF PaidInv, BudgetInv

\* Only one request's money moves.
LEMMA MoneyMoves ==
    ASSUME TypeOK, TypeOK', BudgetInv, NEW q \in Requests,
           \A r \in Requests : r # q =>
               pc'[r] = pc[r] /\ calls'[r] = calls[r] /\ cost'[r] = cost[r],
           pc'[q] = "record" => calls'[q] < MaxCalls
    PROVE  /\ \A r \in Requests : pc'[r] = "record" => calls'[r] < MaxCalls
           /\ Cardinality(Units(Unwritten))' =
                  Cardinality(Units(Unwritten)) + (IF pc'[q] = "record" THEN cost'[q] ELSE 0)
                                                - (IF pc[q] = "record" THEN cost[q] ELSE 0)
           /\ Cardinality(Units(Owed))' - Cardinality(Units(Unwritten))' =
                  Cardinality(Units(Owed)) - Cardinality(Units(Unwritten))
                      + MaxCost * calls'[q] - MaxCost * calls[q]
<1>1. \A r \in Requests : pc'[r] = "record" => calls'[r] < MaxCalls
  BY DEF BudgetInv
<1>2. /\ Unwritten \in [Requests -> 0..MaxCost * MaxCalls]
      /\ Owed \in [Requests -> 0..MaxCost * MaxCalls]
  <2>1. \A r \in Requests :
            /\ (IF pc[r] = "record" THEN cost[r] ELSE 0) \in 0..MaxCost * MaxCalls
            /\ (IF pc[r] = "record" THEN cost[r] ELSE 0) + MaxCost * calls[r]
                   \in 0..MaxCost * MaxCalls
    BY OwedTypes DEF BudgetInv, TypeOK
  <2>2. Owed = [r \in Requests |-> (IF pc[r] = "record" THEN cost[r] ELSE 0) + MaxCost * calls[r]]
    BY DEF Owed, Unwritten
  <2> QED
    BY <2>1, <2>2 DEF Unwritten
<1>3. /\ Unwritten' \in [Requests -> 0..MaxCost * MaxCalls]
      /\ Owed' \in [Requests -> 0..MaxCost * MaxCalls]
  <2>1. \A r \in Requests :
            /\ (IF pc'[r] = "record" THEN cost'[r] ELSE 0) \in 0..MaxCost * MaxCalls
            /\ (IF pc'[r] = "record" THEN cost'[r] ELSE 0) + MaxCost * calls'[r]
                   \in 0..MaxCost * MaxCalls
    BY <1>1, OwedTypes DEF TypeOK
  <2>2. Owed' = [r \in Requests |->
                    (IF pc'[r] = "record" THEN cost'[r] ELSE 0) + MaxCost * calls'[r]]
    BY DEF Owed, Unwritten
  <2> QED
    BY <2>1, <2>2 DEF Unwritten
<1>4. \A r \in Requests : r # q => Unwritten'[r] = Unwritten[r]
  BY DEF Unwritten
<1>5. \A r \in Requests : r # q => Owed'[r] = Owed[r]
  BY <1>4 DEF Owed
<1>6. /\ Units(Unwritten)' = Units(Unwritten')
      /\ Units(Owed)' = Units(Owed')
  BY DEF Units
<1>7. /\ Cardinality(Units(Unwritten')) =
             Cardinality(Units(Unwritten)) + Unwritten'[q] - Unwritten[q]
      /\ Cardinality(Units(Owed')) = Cardinality(Units(Owed)) + Owed'[q] - Owed[q]
  BY <1>2, <1>3, <1>4, <1>5, UnitsChange
<1>8. /\ Unwritten[q] = IF pc[q] = "record" THEN cost[q] ELSE 0
      /\ Unwritten'[q] = IF pc'[q] = "record" THEN cost'[q] ELSE 0
  BY DEF Unwritten
<1>9. Owed[q] = Unwritten[q] + MaxCost * calls[q] /\ Owed'[q] = Unwritten'[q] + MaxCost * calls'[q]
  BY DEF Owed
<1>10. /\ MaxCost * calls[q] \in Nat /\ MaxCost * calls'[q] \in Nat
       /\ cost[q] \in Nat /\ cost'[q] \in Nat
  BY CallCosts, SpendAssumption DEF TypeOK
<1>11. Cardinality(Units(Unwritten)) \in Nat /\ Cardinality(Units(Owed)) \in Nat
  BY UnitsType
<1> HIDE DEF Units, Unwritten, Owed
<1> QED
  BY <1>1, <1>6, <1>7, <1>8, <1>9, <1>10, <1>11

\* One request's calls and cost become n and c, and what the day paid and has in rows
\* changes with them.
LEMMA MoneyStep ==
    ASSUME TypeOK, TypeOK', PaidInv, BudgetInv, NEW q \in Requests,
           \A r \in Requests : r # q =>
               pc'[r] = pc[r] /\ calls'[r] = calls[r] /\ cost'[r] = cost[r],
           pc'[q] = "record" => calls'[q] < MaxCalls,
           (IF pc'[q] = "record" THEN cost'[q] ELSE 0) + spent' + Unseen' - paid' =
               (IF pc[q] = "record" THEN cost[q] ELSE 0) + spent + Unseen - paid,
           paid' - Unseen' + MaxCost * calls'[q] <= paid - Unseen + MaxCost * calls[q],
           Ceiling = 0 => calls'[q] = 0 /\ pc'[q] # "record" /\ paid' = paid
    PROVE  PaidInv' /\ BudgetInv'
<1>1. /\ paid \in Nat /\ spent \in Nat /\ Unseen \in Nat
      /\ paid' \in Nat /\ spent' \in Nat /\ Unseen' \in Nat
      /\ cost[q] \in Nat /\ cost'[q] \in Nat
      /\ calls[q] \in 0..MaxCalls /\ calls'[q] \in 0..MaxCalls
  BY SpendAssumption, UnseenTypes DEF TypeOK
<1>2. MaxCost * calls[q] \in Nat /\ MaxCost * calls'[q] \in Nat
  BY <1>1, CallCosts
<1>3. /\ Cardinality(Units(Unwritten)) \in Nat /\ Cardinality(Units(Owed)) \in Nat
      /\ Cardinality(Units(Unwritten))' \in Nat /\ Cardinality(Units(Owed))' \in Nat
  BY UnitsType
<1>4. MaxCost * MaxCalls * Cardinality(Requests) \in Nat /\ Ceiling \in Nat
  BY CallCosts, SpendAssumption
<1>5. /\ \A r \in Requests : pc'[r] = "record" => calls'[r] < MaxCalls
      /\ Cardinality(Units(Unwritten))' =
             Cardinality(Units(Unwritten)) + (IF pc'[q] = "record" THEN cost'[q] ELSE 0)
                                           - (IF pc[q] = "record" THEN cost[q] ELSE 0)
      /\ Cardinality(Units(Owed))' - Cardinality(Units(Unwritten))' =
             Cardinality(Units(Owed)) - Cardinality(Units(Unwritten))
                 + MaxCost * calls'[q] - MaxCost * calls[q]
  BY MoneyMoves
<1>6. /\ paid <= spent + Unseen + Cardinality(Units(Unwritten))
      /\ paid + Cardinality(Units(Owed)) - Cardinality(Units(Unwritten))
             <= Ceiling - 1 + MaxCost * MaxCalls * Cardinality(Requests) + Unseen
  BY DEF PaidInv, BudgetInv
<1>7. PaidInv'
  <2>1. paid' <= spent' + Unseen' + Cardinality(Units(Unwritten))'
    BY <1>1, <1>3, <1>5, <1>6
  <2> QED
    BY <2>1 DEF PaidInv
<1>8. paid' + Cardinality(Units(Owed))' - Cardinality(Units(Unwritten))'
          <= Ceiling - 1 + MaxCost * MaxCalls * Cardinality(Requests) + Unseen'
  BY <1>1, <1>2, <1>3, <1>4, <1>5, <1>6
<1>9. Ceiling = 0 => paid' = 0 /\ \A r \in Requests : calls'[r] = 0 /\ pc'[r] # "record"
  BY DEF BudgetInv
<1> QED
  BY <1>5, <1>7, <1>8, <1>9 DEF BudgetInv

\* The budget is not spent: whatever all the requests may spend fits under the bound.
LEMMA MoneyBegins ==
    ASSUME TypeOK, TypeOK', PaidInv, BudgetInv, NEW q \in Requests,
           \A r \in Requests : r # q =>
               pc'[r] = pc[r] /\ calls'[r] = calls[r] /\ cost'[r] = cost[r],
           pc[q] # "record", pc'[q] # "record",
           UNCHANGED <<paid, spent, Unseen>>,
           spent < Ceiling
    PROVE  PaidInv' /\ BudgetInv'
<1>1. /\ paid \in Nat /\ spent \in Nat /\ Unseen \in Nat
      /\ calls[q] \in 0..MaxCalls /\ calls'[q] \in 0..MaxCalls
  BY SpendAssumption, UnseenTypes DEF TypeOK
<1>2. MaxCost * calls[q] \in Nat /\ MaxCost * calls'[q] \in Nat
  BY <1>1, CallCosts
<1>3. /\ Cardinality(Units(Unwritten)) \in Nat /\ Cardinality(Units(Owed)) \in Nat
      /\ Cardinality(Units(Unwritten))' \in Nat /\ Cardinality(Units(Owed))' \in Nat
      /\ Cardinality(Units(Owed))' <= MaxCost * MaxCalls * Cardinality(Requests)
  BY UnitsType
<1>4. MaxCost * MaxCalls * Cardinality(Requests) \in Nat /\ Ceiling \in Nat
  BY CallCosts, SpendAssumption
<1>5. /\ \A r \in Requests : pc'[r] = "record" => calls'[r] < MaxCalls
      /\ Cardinality(Units(Unwritten))' = Cardinality(Units(Unwritten))
  BY <1>3, MoneyMoves
<1>6. paid <= spent + Unseen + Cardinality(Units(Unwritten))
  BY DEF PaidInv
<1>7. PaidInv'
  BY <1>5, <1>6 DEF PaidInv
<1>8. paid' + Cardinality(Units(Owed))' - Cardinality(Units(Unwritten))'
          <= Ceiling - 1 + MaxCost * MaxCalls * Cardinality(Requests) + Unseen'
  BY <1>1, <1>3, <1>4, <1>5, <1>6
<1>9. Ceiling # 0
  BY <1>1, <1>4
<1> QED
  BY <1>5, <1>7, <1>8, <1>9 DEF BudgetInv

\* A step that neither pays nor records costs nothing, and one call fewer may follow.
LEMMA MoneyEnds ==
    ASSUME TypeOK, TypeOK', PaidInv, BudgetInv, NEW q \in Requests,
           \A r \in Requests : r # q =>
               pc'[r] = pc[r] /\ calls'[r] = calls[r] /\ cost'[r] = cost[r],
           pc[q] # "record", pc'[q] # "record",
           calls'[q] \in {0, calls[q]},
           UNCHANGED <<paid, spent, Unseen>>
    PROVE  PaidInv' /\ BudgetInv'
<1>1. /\ paid \in Nat /\ spent \in Nat /\ Unseen \in Nat
      /\ calls[q] \in 0..MaxCalls /\ calls'[q] \in 0..MaxCalls
  BY SpendAssumption, UnseenTypes DEF TypeOK
<1>2. /\ MaxCost * calls[q] \in Nat /\ MaxCost * calls'[q] \in Nat
      /\ MaxCost * calls'[q] <= MaxCost * calls[q]
  <2>1. MaxCost * 0 = 0
    BY SpendAssumption
  <2> QED
    BY <1>1, <2>1, CallCosts
<1>3. Ceiling = 0 => calls'[q] = 0
  BY DEF BudgetInv
<1>4. (IF pc'[q] = "record" THEN cost'[q] ELSE 0) = (IF pc[q] = "record" THEN cost[q] ELSE 0)
  OBVIOUS
<1>5. paid' - Unseen' + MaxCost * calls'[q] <= paid - Unseen + MaxCost * calls[q]
  BY <1>1, <1>2
<1> QED
  BY <1>1, <1>3, <1>4, <1>5, MoneyStep

LEMMA SpendStep == IInv /\ [Next]_vars => PaidInv' /\ BudgetInv'
<1> SUFFICES ASSUME IInv, [Next]_vars PROVE PaidInv' /\ BudgetInv'
    OBVIOUS
<1>0. TypeOK /\ LimitTypeOK /\ TypeOK' /\ CallInv /\ PaidInv /\ BudgetInv
  BY TypeStep DEF IInv, TypeOK
<1>1. ASSUME LimitStep, UNCHANGED aiVars PROVE PaidInv' /\ BudgetInv'
  <2>1. \A q \in Requests : pc'[q] = "record" <=> pc[q] = "record"
    BY <1>0, <1>1, LimitKeeps DEF LimitFrame, AiLabel
  <2> QED
    BY <1>0, <1>1, <2>1, MoneyRests DEF aiVars, Unseen
<1>2. ASSUME NEW q \in Requests, NEW u \in Users,
             AskQuestion(q, u) \/ Categorize(q, u) \/ RunAgent(q, u)
      PROVE  PaidInv' /\ BudgetInv'
  <2>1. \E f \in {"rag", "categorization", "agent"}, n \in {1, MaxCalls},
           label \in {"readPlan", "call"} : BeginAi(q, u, f, n, label)
    BY <1>2 DEF AskQuestion, Categorize, RunAgent
  <2>2. /\ pc[q] = "idle" /\ pc'[q] # "record"
        /\ \A r \in Requests : r # q =>
               pc'[r] = pc[r] /\ calls'[r] = calls[r] /\ cost'[r] = cost[r]
        /\ UNCHANGED <<paid, spent, Unseen>>
    BY <1>0, <2>1 DEF BeginAi, Begin, TypeOK, LimitTypeOK, Unseen
  <2>3. spent < Ceiling
    BY <1>0, <2>1, SpendAssumption DEF BeginAi, isAiBudgetExhausted, TypeOK
  <2> QED
    BY <1>0, <2>2, <2>3, MoneyBegins
<1>3. ASSUME NEW q \in Requests, ReadPlan(q) \/ CountQuestions(q) \/ CountChunks(q) \/ Search(q)
      PROVE  PaidInv' /\ BudgetInv'
  <2>1. /\ pc[q] # "record" /\ pc'[q] # "record"
        /\ \A r \in Requests : r # q =>
               pc'[r] = pc[r] /\ calls'[r] = calls[r] /\ cost'[r] = cost[r]
        /\ calls'[q] \in {0, calls[q]}
    BY <1>0, <1>3 DEF ReadPlan, CountQuestions, CountChunks, Search, EndAi, Proceed,
       Goto, Answer, TypeOK, LimitTypeOK
  <2>2. UNCHANGED <<paid, spent, Unseen>>
    <3>1. ReadsOnly
      BY <1>3 DEF ReadPlan, CountQuestions, CountChunks, Search
    <3> QED
      BY <3>1 DEF ReadsOnly, Unseen
  <2> QED
    BY <1>0, <2>1, <2>2, MoneyEnds
<1>4. ASSUME NEW q \in Requests, Call(q) PROVE PaidInv' /\ BudgetInv'
  <2>1. /\ pc[q] = "call" /\ calls[q] \in 1..MaxCalls
        /\ UNCHANGED <<spent, unrecorded>>
    BY <1>0, <1>4 DEF Call, CallInv, TypeOK
  <2>2. Ceiling # 0
    BY <1>0, <2>1 DEF BudgetInv
  <2>3. CASE EndAi(q) /\ UNCHANGED <<paid, underestimated>>
    <3>1. /\ pc'[q] # "record" /\ calls'[q] = 0
          /\ \A r \in Requests : r # q =>
                 pc'[r] = pc[r] /\ calls'[r] = calls[r] /\ cost'[r] = cost[r]
      BY <1>0, <2>3 DEF EndAi, Answer, TypeOK, LimitTypeOK
    <3>2. UNCHANGED Unseen
      BY <2>1, <2>3 DEF Unseen
    <3> QED
      BY <1>0, <2>1, <2>3, <3>1, <3>2, MoneyEnds
  <2>4. ASSUME NEW b \in Bills(feature[q]), cost' = [cost EXCEPT ![q] = computeCostUsd(b)],
               paid' = paid + b.usage + b.surcharge,
               underestimated' = underestimated + b.surcharge,
               Goto(q, "record"), calls' = [calls EXCEPT ![q] = @ - 1]
        PROVE  PaidInv' /\ BudgetInv'
    <3>0. b.usage \in 1..MaxCost /\ b.surcharge \in Nat
      BY SpendAssumption DEF Bills
    <3>1. /\ pc'[q] = "record" /\ cost'[q] = b.usage /\ calls'[q] = calls[q] - 1
          /\ \A r \in Requests : r # q =>
                 pc'[r] = pc[r] /\ calls'[r] = calls[r] /\ cost'[r] = cost[r]
      BY <1>0, <2>4 DEF Goto, TypeOK, LimitTypeOK, computeCostUsd
    <3>2. calls'[q] < MaxCalls
      BY <2>1, <3>1, SpendAssumption
    <3>3. /\ paid \in Nat /\ spent \in Nat /\ Unseen \in Nat
          /\ Unseen' = Unseen + b.surcharge
      BY <1>0, <2>1, <2>4, <3>0 DEF TypeOK, Unseen
    <3>4. /\ MaxCost * calls[q] = MaxCost * calls'[q] + MaxCost
          /\ MaxCost * calls'[q] \in Nat /\ MaxCost \in Nat
      <4>1. calls'[q] \in 0..MaxCalls
        BY <2>1, <3>1, SpendAssumption
      <4> QED
        BY <2>1, <3>1, <4>1, CallCosts, SpendAssumption
    <3>5. paid' - Unseen' + MaxCost * calls'[q] <= paid - Unseen + MaxCost * calls[q]
      BY <2>4, <3>0, <3>3, <3>4
    <3>6. (IF pc'[q] = "record" THEN cost'[q] ELSE 0) + spent' + Unseen' - paid' =
              (IF pc[q] = "record" THEN cost[q] ELSE 0) + spent + Unseen - paid
      BY <2>1, <2>4, <3>0, <3>1, <3>3
    <3> QED
      BY <1>0, <2>2, <3>1, <3>2, <3>5, <3>6, MoneyStep
  <2> QED
    BY <1>4, <2>3, <2>4 DEF Call
<1>5. ASSUME NEW q \in Requests, Record(q) PROVE PaidInv' /\ BudgetInv'
  <2>1. /\ pc[q] = "record" /\ pc'[q] # "record" /\ paid' = paid
        /\ \A r \in Requests : r # q =>
               pc'[r] = pc[r] /\ calls'[r] = calls[r] /\ cost'[r] = cost[r]
        /\ calls'[q] \in {0, calls[q]}
    BY <1>0, <1>5 DEF Record, Continue, EndAi, Proceed, Goto, Answer, TypeOK, LimitTypeOK
  <2>2. /\ paid \in Nat /\ spent \in Nat /\ Unseen \in Nat /\ cost[q] \in Nat
        /\ calls[q] \in 0..MaxCalls /\ calls'[q] \in 0..MaxCalls
    BY <1>0, SpendAssumption, UnseenTypes DEF TypeOK
  <2>3. \/ spent' = spent + cost[q] /\ Unseen' = Unseen
        \/ spent' = spent /\ Unseen' = Unseen + cost[q]
    <3>1. /\ unrecorded \in Nat /\ underestimated \in Nat /\ underestimated' = underestimated
          /\ \/ spent' = spent + cost[q] /\ unrecorded' = unrecorded
             \/ spent' = spent /\ unrecorded' = unrecorded + cost[q]
      BY <1>0, <1>5 DEF Record, TypeOK
    <3> QED
      BY <2>2, <3>1 DEF Unseen
  <2>4. (IF pc'[q] = "record" THEN cost'[q] ELSE 0) + spent' + Unseen' - paid' =
            (IF pc[q] = "record" THEN cost[q] ELSE 0) + spent + Unseen - paid
    BY <2>1, <2>2, <2>3
  <2>5. paid' - Unseen' + MaxCost * calls'[q] <= paid - Unseen + MaxCost * calls[q]
    <3>1. MaxCost * calls[q] \in Nat /\ MaxCost * 0 = 0
      BY <2>2, CallCosts, SpendAssumption
    <3> QED
      BY <2>1, <2>2, <2>3, <3>1
  <2>6. Ceiling # 0
    BY <1>0, <2>1 DEF BudgetInv
  <2> QED
    BY <1>0, <2>1, <2>4, <2>5, <2>6, MoneyStep
<1>6. CASE Ingest \/ UNCHANGED vars
  BY <1>0, <1>6, MoneyRests DEF Ingest, vars, limitVars, requestVars, aiVars, Unseen
<1>7. CASE Midnight
  <2>1. /\ paid' = 0 /\ spent' = 0 /\ Unseen' = 0
        /\ UNCHANGED <<pc, calls, cost>>
    BY <1>7 DEF Midnight, requestVars, Unseen
  <2>2. Unwritten' = Unwritten
    BY <2>1 DEF Unwritten
  <2>3. Owed' = Owed
    BY <2>1, <2>2 DEF Owed
  <2>4. /\ Cardinality(Units(Unwritten))' = Cardinality(Units(Unwritten))
        /\ Cardinality(Units(Owed))' = Cardinality(Units(Owed))
    BY <2>2, <2>3 DEF Units
  <2>5. /\ Cardinality(Units(Unwritten)) \in Nat /\ Cardinality(Units(Owed)) \in Nat
        /\ Cardinality(Units(Owed)) <= MaxCost * MaxCalls * Cardinality(Requests)
        /\ MaxCost * MaxCalls * Cardinality(Requests) \in Nat \ {0}
    BY UnitsType, CallCosts
  <2>6. Ceiling = 0 => Cardinality(Units(Owed)) = 0
    <3> SUFFICES ASSUME Ceiling = 0 PROVE Cardinality(Units(Owed)) = 0
      OBVIOUS
    <3>1. \A q \in Requests : calls[q] = 0 /\ pc[q] # "record"
      BY <1>0 DEF BudgetInv
    <3>2. \A q \in Requests : Unwritten[q] = 0 /\ Owed[q] = 0
      BY <3>1, SpendAssumption DEF Unwritten, Owed
    <3>3. Units(Owed) = {}
      BY <3>2, CallCosts DEF Units
    <3> QED
      BY <3>3, FS_EmptySet
  <2>7. PaidInv'
    BY <2>1, <2>4, <2>5 DEF PaidInv
  <2>8. paid' + Cardinality(Units(Owed))' - Cardinality(Units(Unwritten))'
            <= Ceiling - 1 + MaxCost * MaxCalls * Cardinality(Requests) + Unseen'
    BY <2>1, <2>4, <2>5, <2>6, SpendAssumption
  <2> QED
    BY <1>0, <2>1, <2>7, <2>8 DEF BudgetInv
<1> QED
  BY <1>1, <1>2, <1>3, <1>4, <1>5, <1>6, <1>7 DEF Next, AiStep

------------------------------------------------------------------------------
(* Theorems *)

\* The conjunction is inductive.
THEOREM Invariance == Spec => []IInv
<1>1. IInv /\ [Next]_vars => LimitRequestInv'
  BY HolderStep, PlacedStep DEF LimitRequestInv, Holder, Placed
<1>2. IInv /\ [Next]_vars => IInv'
  BY <1>1, TypeStep, AgeStep, AccountsStep, TransactionsStep, CallStep, AnsweredStep,
     QuestionsStep, CorpusStep, SpendStep DEF IInv, LimitsHold
<1> QED
  BY InitInv, <1>2, PTL DEF Spec

\* The variables keep their types: a transaction is of an account that exists, and a
\* request acts on a plan its user has had.
THEOREM TypeCorrect == Spec => []TypeOK
BY Invariance, PTL DEF IInv

\* The accounts and today's transactions of a user exceed a plan the user has had by at
\* most the requests that were under way together (PlanGuardService).
THEOREM LimitsKept == Spec => []LimitsHold
<1>1. IInv => LimitsHold
  BY DEF IInv
<1> QED
  BY <1>1, Invariance, PTL

\* The same for the questions the model answers (validateDailyAiQuota), whatever rows of
\* ai_usage are lost.
THEOREM Quota == Spec => []QuotaHolds
<1>1. IInv => QuotaHolds
  <2> SUFFICES ASSUME IInv, NEW u \in Users
               PROVE  \E p \in had[u] :
                        LET limit == PLAN_LIMITS[p].ragQuestionsPerDay IN
                        /\ Within(limit, questions[u] + Cardinality(Asking(u)))
                        /\ limit = 0 => Asking(u) = {} /\ answered[u] = 0
                        /\ limit # Infinity =>
                               answered[u] <= limit - 1 + Cardinality(Requests) + lost[u]
    BY DEF QuotaHolds
  <2>0. /\ had[u] \subseteq Plan /\ questions[u] \in Nat /\ answered[u] \in Nat /\ lost[u] \in Nat
        /\ answered[u] <= questions[u] + lost[u] + Cardinality(Recording(u))
    BY DEF IInv, TypeOK, LimitTypeOK, AnsweredInv
  <2>1. PICK p \in had[u] :
            /\ Within(PLAN_LIMITS[p].ragQuestionsPerDay, questions[u] + Cardinality(Asking(u)))
            /\ PLAN_LIMITS[p].ragQuestionsPerDay = 0 => Asking(u) = {} /\ answered[u] = 0
    BY DEF IInv, QuestionsInv
  <2>2. Cardinality(Recording(u)) <= Cardinality(Asking(u))
    <3>1. Recording(u) \in SUBSET Asking(u)
      BY DEF Recording, Asking
    <3> QED
      BY <3>1, CountTypes, Larger
  <2>3. PLAN_LIMITS[p].ragQuestionsPerDay # Infinity =>
            answered[u] <= PLAN_LIMITS[p].ragQuestionsPerDay - 1 + Cardinality(Requests) + lost[u]
    BY <2>0, <2>1, <2>2, LimitTypes, CountTypes, SomeRequest DEF Within
  <2> QED
    BY <2>1, <2>3
<1> QED
  BY <1>1, Invariance, PTL

\* A day of calls to the model costs at most what the ceiling leaves room for and what the
\* requests spend that asked isAiBudgetExhausted before it was reached, and what the rows
\* do not show: those that are lost, and what computeCostUsd leaves out of large Haiku
\* prompts; with a ceiling of zero nothing is called.
THEOREM Spending == Spec => []SpendIsBounded
<1>1. IInv => SpendIsBounded
  <2> SUFFICES ASSUME IInv PROVE SpendIsBounded
    OBVIOUS
  <2>1. /\ TypeOK /\ BudgetInv
        /\ paid + Cardinality(Units(Owed)) - Cardinality(Units(Unwritten))
               <= Ceiling - 1 + MaxCost * MaxCalls * Cardinality(Requests) + Unseen
    BY DEF IInv, BudgetInv
  <2>2. Cardinality(Units(Unwritten)) <= Cardinality(Units(Owed))
    <3>1. \A q \in Requests : cost[q] \in Nat /\ MaxCost * calls[q] \in Nat
      BY <2>1, CallCosts, SpendAssumption DEF TypeOK
    <3>2. \A q \in Requests : /\ Unwritten[q] \in Nat /\ Owed[q] \in Nat
                              /\ Unwritten[q] <= Owed[q]
      BY <3>1 DEF Unwritten, Owed
    <3>3. Units(Unwritten) \in SUBSET Units(Owed)
      BY <3>2, CallCosts DEF Units
    <3> QED
      BY <3>3, UnitsType, Larger
  <2>3. /\ Cardinality(Units(Unwritten)) \in Nat /\ Cardinality(Units(Owed)) \in Nat
        /\ MaxCost * MaxCalls * Cardinality(Requests) \in Nat /\ Ceiling \in Nat
        /\ paid \in Nat /\ Unseen \in Nat
    BY <2>1, UnitsType, CallCosts, SpendAssumption, UnseenTypes DEF TypeOK
  <2>4. paid <= Ceiling - 1 + MaxCost * MaxCalls * Cardinality(Requests) + Unseen
    BY <2>1, <2>2, <2>3
  <2> QED
    BY <2>1, <2>4 DEF SpendIsBounded, BudgetInv
<1> QED
  BY <1>1, Invariance, PTL

\* No reader of the corpus sees it empty while it is replaced.
THEOREM Corpus == Spec => []CorpusIsWhole
BY Invariance, PTL DEF IInv

\* A transaction lands on an account that is active then, although the check came
\* earlier, unless the plan changed under the request.
THEOREM ReadOnly == Spec => ReadOnlyIsKept
<1> DEFINE Kept ==
        \A q \in Requests :
           /\ pc[q] = "checkTransaction" /\ pc'[q] = "idle" /\ q \notin overtaken
           /\ \E t \in Transactions : transactions[t] = NoAccount /\ transactions'[t] # NoAccount
           => account[q] \in Active(user[q], plan[user[q]])
<1>1. IInv /\ [Next]_vars => [Kept]_limitVars
  <2> SUFFICES ASSUME IInv, [Next]_vars, NEW q \in Requests, NEW t \in Transactions,
                      pc[q] = "checkTransaction", pc'[q] = "idle", q \notin overtaken,
                      transactions[t] = NoAccount, transactions'[t] # NoAccount
               PROVE  account[q] \in Active(user[q], plan[user[q]])
    OBVIOUS
  <2> USE LimitNamesAssumption
  <2>0. TypeOK /\ LimitTypeOK /\ Placed(q)
    BY DEF IInv, TypeOK, LimitRequestInv, Placed
  <2>1. PICK r \in Requests : InsertTransaction(r)
    <3>1. CASE UNCHANGED vars
      BY <3>1 DEF vars, limitVars, rowVars
    <3>2. ~AiStep
      BY <2>0, AiKeeps DEF AiFrame, NewDay
    <3> QED
      BY <2>0, <3>1, <3>2 DEF Next, LimitStep, rowVars, CreateAccount, CreateTransaction, Begin,
         CountAccounts, InsertAccount, validateDailyTransactionLimit,
         validateBankAccountIsActive, Checked, DeleteAccount, Cascade, DeleteTransaction,
         UpdateTransaction,
         ChangePlan, LimitTypeOK
  <2>2. r = q
    BY <2>0, <2>1 DEF InsertTransaction, Answer, TypeOK
  <2>3. todo[q] = {} /\ owner[account[q]] = user[q]
    BY <2>1, <2>2 DEF InsertTransaction
  <2> QED
    BY <2>0, <2>3 DEF Placed
<1> QED
  BY <1>1, Invariance, PTL DEF Spec, ReadOnlyIsKept
==============================================================================
