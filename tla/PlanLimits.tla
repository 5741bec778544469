------------------------------ MODULE PlanLimits ------------------------------
(***************************************************************************)
(* What PlanGuardService lets a user do with bank accounts and             *)
(* transactions: BankAccountsService and TransactionsService read the    *)
(* plan, count rows, and write later, while other requests of the user do  *)
(* the same and the plan changes.                                          *)
(*                                                                         *)
(* One step per awaited call.  Values and dates are in TransactionReads;   *)
(* what categorization does with a new transaction is in Categorization.   *)
(***************************************************************************)
EXTENDS Plans, Integers, FiniteSets

CONSTANTS
    Users, NoUser,
    Accounts, NoAccount,    \* the uuids of bank accounts
    Transactions,           \* ... and of today's transactions
    Requests,               \* requests and jobs that can be in progress at once
    PLAN_LIMITS, Infinity,
    MaxArrivals,            \* requests and jobs in a behaviour
    MaxChanges              \* changes of a plan

Limits == [bankAccounts : Nat \cup {Infinity}, transactionsPerDay : Nat \cup {Infinity},
           ragQuestionsPerDay : Nat \cup {Infinity}]

ASSUME LimitNamesAssumption ==
    NoUser \notin Users /\ NoAccount \notin Accounts /\ Infinity \notin Nat
ASSUME LimitsAssumption ==
    /\ PLAN_LIMITS \in [Plan -> Limits]
    /\ MaxArrivals \in Nat /\ MaxChanges \in Nat
ASSUME FinitenessAssumption ==
    IsFiniteSet(Requests) /\ Requests # {} /\ IsFiniteSet(Accounts) /\ IsFiniteSet(Transactions)

VARIABLES
    \* Postgres
    plan,                   \* written by Billing and by an administrator
    owner, createdAt,       \* bank_accounts; createdAt is 0 until the id is used
    transactions,           \* the account of every transaction of today
    \* the requests
    pc, user, account,
    seen,                   \* the plan a request read
    todo,                   \* checks a new transaction has not passed yet
    \* bounds and history
    arrivals, changes,
    had,                    \* plans a user has had
    overtaken               \* requests in progress when their user's plan changed

rowVars == <<plan, owner, createdAt, transactions>>
requestVars == <<pc, user, account, seen, todo>>
limitVars == <<rowVars, requestVars, arrivals, changes, had, overtaken>>

Label == {"idle", "countAccounts", "insertAccount", "checkTransaction", "insertTransaction"}

LimitTypeOK ==
    /\ plan \in [Users -> Plan]
    /\ had \in [Users -> SUBSET Plan]
    /\ \A u \in Users : plan[u] \in had[u]
    /\ owner \in [Accounts -> Users \cup {NoUser}]
    /\ createdAt \in [Accounts -> 0..Cardinality(Accounts)]
    /\ \A a \in Accounts : createdAt[a] = 0 => owner[a] = NoUser
    /\ transactions \in [Transactions -> Accounts \cup {NoAccount}]
    /\ \A t \in Transactions : transactions[t] # NoAccount => owner[transactions[t]] # NoUser
    /\ user \in [Requests -> Users \cup {NoUser}]
    /\ account \in [Requests -> Accounts \cup {NoAccount}]
    /\ seen \in [Requests -> Plan]
    /\ todo \in [Requests -> SUBSET {"limit", "active"}]
    /\ \A q \in Requests : user[q] # NoUser => seen[q] \in had[user[q]]
    /\ arrivals \in 0..MaxArrivals /\ changes \in 0..MaxChanges
    /\ overtaken \subseteq Requests

LimitInit ==
    /\ plan \in [Users -> Plan]
    /\ had = [u \in Users |-> {plan[u]}]
    /\ owner = [a \in Accounts |-> NoUser]
    /\ createdAt = [a \in Accounts |-> 0]
    /\ transactions = [t \in Transactions |-> NoAccount]
    /\ pc = [q \in Requests |-> "idle"]
    /\ user = [q \in Requests |-> NoUser]
    /\ account = [q \in Requests |-> NoAccount]
    /\ seen = [q \in Requests |-> "FREE"]
    /\ todo = [q \in Requests |-> {}]
    /\ arrivals = 0 /\ changes = 0
    /\ overtaken = {}

------------------------------------------------------------------------------
(* Requests *)

\* Every request about a plan begins with getUserPlan.
Begin(q, label, u, a, checks) ==
    /\ pc[q] = "idle"
    /\ arrivals < MaxArrivals
    /\ arrivals' = arrivals + 1
    /\ pc' = [pc EXCEPT ![q] = label]
    /\ user' = [user EXCEPT ![q] = u]
    /\ account' = [account EXCEPT ![q] = a]
    /\ seen' = [seen EXCEPT ![q] = plan[u]]
    /\ todo' = [todo EXCEPT ![q] = checks]
    /\ UNCHANGED <<changes, had, overtaken>>

Goto(q, label) ==
    /\ pc' = [pc EXCEPT ![q] = label]
    /\ UNCHANGED <<user, account, seen, todo, arrivals, changes, had, overtaken>>

Answer(q) ==
    /\ pc' = [pc EXCEPT ![q] = "idle"]
    /\ user' = [user EXCEPT ![q] = NoUser]
    /\ account' = [account EXCEPT ![q] = NoAccount]
    /\ seen' = [seen EXCEPT ![q] = "FREE"]
    /\ todo' = [todo EXCEPT ![q] = {}]
    /\ overtaken' = overtaken \ {q}
    /\ UNCHANGED <<arrivals, changes, had>>

AccountsOf(u) == {a \in Accounts : owner[a] = u}

TransactionsOf(u) == {t \in Transactions : transactions[t] \in AccountsOf(u)}

------------------------------------------------------------------------------
(* Bank accounts *)

CreateAccount(q, u) ==
    /\ Begin(q, IF PLAN_LIMITS[plan[u]].bankAccounts = Infinity
                THEN "insertAccount" ELSE "countAccounts", u, NoAccount, {})
    /\ UNCHANGED rowVars

\* Faulty variant: one row too many.
withinLimitOrAtIt(count, limit) == count <= limit

\* The comparison of validateBankAccountLimit, validateDailyTransactionLimit and
\* validateDailyAiQuota.
withinLimit(count, limit) == count < limit

\* validateBankAccountLimit; a 403 when there are too many.
CountAccounts(q) ==
    LET limit == PLAN_LIMITS[seen[q]].bankAccounts IN
    /\ pc[q] = "countAccounts"
    /\ IF withinLimit(Cardinality(AccountsOf(user[q])), limit)
       THEN Goto(q, "insertAccount")
       ELSE Answer(q)
    /\ UNCHANGED rowVars

InsertAccount(q) ==
    /\ pc[q] = "insertAccount"
    /\ \E a \in Accounts :
           /\ createdAt[a] = 0
           /\ owner' = [owner EXCEPT ![a] = user[q]]
           /\ createdAt' = [createdAt EXCEPT ![a] =
                                1 + Cardinality({b \in Accounts : createdAt[b] > 0})]
    /\ Answer(q)
    /\ UNCHANGED <<plan, transactions>>

\* Faulty variant: the transactions stay behind.
CascadeForgotten(a) == UNCHANGED transactions

\* ON DELETE CASCADE: the transactions go with their account.
Cascade(a) == transactions' = [t \in Transactions |->
                                   IF transactions[t] = a THEN NoAccount ELSE transactions[t]]

\* The check that the account is the user's comes before, in the same request.
DeleteAccount(a) ==
    /\ owner[a] # NoUser
    /\ arrivals < MaxArrivals
    /\ arrivals' = arrivals + 1
    /\ owner' = [owner EXCEPT ![a] = NoUser]
    /\ Cascade(a)
    /\ UNCHANGED <<plan, createdAt, requestVars, changes, had, overtaken>>

------------------------------------------------------------------------------
(* Transactions *)

\* Faulty variant: the newest accounts.
getActiveAccountIdsNewest(u, limit) ==
    {a \in AccountsOf(u) :
        Cardinality({b \in AccountsOf(u) : createdAt[b] > createdAt[a]}) < limit}

\* The oldest accounts, as many as the plan allows.
getActiveAccountIds(u, limit) ==
    {a \in AccountsOf(u) :
        Cardinality({b \in AccountsOf(u) : createdAt[b] < createdAt[a]}) < limit}

Active(u, p) ==
    LET limit == PLAN_LIMITS[p].bankAccounts IN
    IF limit = Infinity THEN AccountsOf(u) ELSE getActiveAccountIds(u, limit)

\* The three checks run at once; that the account is the user's is seen at once.
CreateTransaction(q, u, a) ==
    /\ owner[a] = u
    /\ Begin(q, "checkTransaction", u, a,
             {c \in {"limit", "active"} :
                  IF c = "limit" THEN PLAN_LIMITS[plan[u]].transactionsPerDay # Infinity
                                 ELSE PLAN_LIMITS[plan[u]].bankAccounts # Infinity})
    /\ UNCHANGED rowVars

\* One of the checks is through: a 403, or one check less to wait for.
Checked(q, check, ok) ==
    /\ pc[q] = "checkTransaction"
    /\ check \in todo[q]
    /\ \/ ~ok /\ Answer(q)
       \/ /\ ok
          /\ todo' = [todo EXCEPT ![q] = @ \ {check}]
          /\ UNCHANGED <<pc, user, account, seen, arrivals, changes, had, overtaken>>
    /\ UNCHANGED rowVars

validateDailyTransactionLimit(q) ==
    Checked(q, "limit", withinLimit(Cardinality(TransactionsOf(user[q])),
                                    PLAN_LIMITS[seen[q]].transactionsPerDay))

validateBankAccountIsActive(q) ==
    Checked(q, "active", account[q] \in Active(user[q], seen[q]))

\* The foreign key refuses a transaction of an account that is gone.
InsertTransaction(q) ==
    /\ pc[q] = "checkTransaction"
    /\ todo[q] = {}
    /\ \/ /\ owner[account[q]] = user[q]
          /\ \E t \in Transactions :
                 /\ transactions[t] = NoAccount
                 /\ transactions' = [transactions EXCEPT ![t] = account[q]]
       \/ owner[account[q]] # user[q] /\ UNCHANGED transactions
    /\ Answer(q)
    /\ UNCHANGED <<plan, owner, createdAt>>

DeleteTransaction(t) ==
    /\ transactions[t] # NoAccount
    /\ arrivals < MaxArrivals
    /\ arrivals' = arrivals + 1
    /\ transactions' = [transactions EXCEPT ![t] = NoAccount]
    /\ UNCHANGED <<plan, owner, createdAt, requestVars, changes, had, overtaken>>

\* The plan does not matter to an update: it may move a transaction to any account of
\* its user.
UpdateTransaction(t, a) ==
    /\ transactions[t] \notin {NoAccount, a}
    /\ owner[a] = owner[transactions[t]]
    /\ arrivals < MaxArrivals
    /\ arrivals' = arrivals + 1
    /\ transactions' = [transactions EXCEPT ![t] = a]
    /\ UNCHANGED <<plan, owner, createdAt, requestVars, changes, had, overtaken>>

------------------------------------------------------------------------------

ChangePlan(u) ==
    /\ changes < MaxChanges
    /\ changes' = changes + 1
    /\ \E p \in Plan \ {plan[u]} :
           /\ plan' = [plan EXCEPT ![u] = p]
           /\ had' = [had EXCEPT ![u] = @ \cup {p}]
    /\ overtaken' = overtaken \cup {q \in Requests : user[q] = u}
    /\ UNCHANGED <<owner, createdAt, transactions, requestVars, arrivals>>

\* Midnight, for the limits that are per day.
NewDay == transactions' = [t \in Transactions |-> NoAccount]

LimitStep ==
    \/ \E q \in Requests, u \in Users :
           CreateAccount(q, u) \/ \E a \in Accounts : CreateTransaction(q, u, a)
    \/ \E q \in Requests :
           \/ CountAccounts(q) \/ InsertAccount(q)
           \/ validateDailyTransactionLimit(q) \/ validateBankAccountIsActive(q)
           \/ InsertTransaction(q)
    \/ \E a \in Accounts : DeleteAccount(a)
    \/ \E t \in Transactions :
           DeleteTransaction(t) \/ \E a \in Accounts : UpdateTransaction(t, a)
    \/ \E u \in Users : ChangePlan(u)

------------------------------------------------------------------------------
(* Properties *)

\* Requests that passed the count and have not inserted.
InsertingAccount(u) == {q \in Requests : user[q] = u /\ pc[q] = "insertAccount"}
InsertingTransaction(u) ==
    {q \in Requests : user[q] = u /\ pc[q] = "checkTransaction" /\ "limit" \notin todo[q]}

\* Nothing locks the rows that are counted.  Requests that count them together go
\* over a limit by at most one row each but the first, whatever is deleted and
\* whatever the plan becomes.
Within(limit, used) == limit = Infinity \/ used <= limit - 1 + Cardinality(Requests)

AccountsBounded ==
    \A u \in Users : \E p \in had[u] :
        Within(PLAN_LIMITS[p].bankAccounts,
               Cardinality(AccountsOf(u)) + Cardinality(InsertingAccount(u)))

TransactionsBounded ==
    \A u \in Users : \E p \in had[u] :
        Within(PLAN_LIMITS[p].transactionsPerDay,
               Cardinality(TransactionsOf(u)) + Cardinality(InsertingTransaction(u)))

LimitsHold == AccountsBounded /\ TransactionsBounded

\* "Read-only on your current plan": a new transaction lands on an account that is active
\* when it lands there, although the check came earlier and accounts come and go in
\* between, unless the plan changed while the request was under way.
ReadOnlyIsKept ==
    [][\A q \in Requests :
           /\ pc[q] = "checkTransaction" /\ pc'[q] = "idle" /\ q \notin overtaken
           /\ \E t \in Transactions : transactions[t] = NoAccount /\ transactions'[t] # NoAccount
           => account[q] \in Active(user[q], plan[user[q]])
      ]_limitVars

------------------------------------------------------------------------------
(* What the limits rest on *)

\* What a request read, and whose account it names, while it is under way.
LimitRequestInv ==
    \A q \in Requests :
        /\ pc[q] # "idle" => user[q] \in Users
        /\ user[q] # NoUser /\ q \notin overtaken => seen[q] = plan[user[q]]
        /\ pc[q] = "checkTransaction" =>
               /\ account[q] \in Accounts /\ createdAt[account[q]] > 0
               /\ "active" \notin todo[q] /\ q \notin overtaken /\ owner[account[q]] = user[q] =>
                      account[q] \in Active(user[q], plan[user[q]])

Opened == {a \in Accounts : createdAt[a] > 0}

\* The next account is younger than every other.
AgeInv == \A a \in Accounts : createdAt[a] <= Cardinality(Opened)
==============================================================================
