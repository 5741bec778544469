--------------------------- MODULE Categorization ---------------------------
(***************************************************************************)
(* Transactions, their categories and the background job that asks a model *)
(* for the category of a transaction created without one: the requests of  *)
(* TransactionsService and CategoriesService.remove against                *)
(* CategorizeTransactionService.run in the queue's workers.                *)
(*                                                                         *)
(* One step per awaited call; the validations that Promise.all starts      *)
(* together are one.  Names, values, dates and bank accounts are left out. *)
(***************************************************************************)
EXTENDS Naturals

CONSTANTS
    Users, NoUser,
    Transactions, NoTransaction,
    Categories, NoCategory, \* NoCategory: the column, or the body's field, is null
    Unchanged,              \* the body has no categoryId
    CategoryOwner, CategoryType,
    Requests,               \* HTTP requests that can be in progress at once
    Workers, NoWorker,
    MaxAttempts,            \* CATEGORIZATION_MAX_ATTEMPTS
    FaultKinds, MaxFaults   \* the faults that may happen, and how many

Type == {"INCOME", "EXPENSE"}

\* "db": a database call of a worker fails.  "queue": Redis refuses the job.
\* "stall": a worker loses its lock and keeps running.  "crash": it dies.
Faults == {"db", "queue", "stall", "crash"}

ASSUME NamesAssumption ==
    /\ NoUser \notin Users /\ NoTransaction \notin Transactions /\ NoWorker \notin Workers
    /\ NoCategory \notin Categories /\ Unchanged \notin Categories \cup {NoCategory}
ASSUME CategoriesAssumption ==
    CategoryOwner \in [Categories -> Users] /\ CategoryType \in [Categories -> Type]
ASSUME NumbersAssumption ==
    MaxAttempts \in Nat \ {0} /\ FaultKinds \subseteq Faults /\ MaxFaults \in Nat

VARIABLES
    \* Postgres
    categories,             \* categories that exist
    transactions, created,  \* transactions that exist; ids that were given out
    txUser, txType, txCategory,
    \* the requests
    reqPc, body,
    \* the queue: one job per transaction
    job, attempts, lock,
    \* the workers
    pc, current,
    seenType,               \* transaction.type as run read it
    candidates, answer,
    \* the environment and history
    faults,
    author,                 \* who set the category: "nobody", "user" or "model"
    retyped                 \* transactions whose type a user changed

txVars == <<txUser, txType, txCategory, author, retyped>>
tables == <<categories, transactions, created, txVars>>
requestVars == <<reqPc, body>>
queueVars == <<job, attempts, lock>>
seen == <<seenType, candidates, answer>>
workerVars == <<pc, current, seen>>
vars == <<tables, requestVars, queueVars, workerVars, faults>>

\* The validated body of a route, with the caller and the id in the path.
Body ==
         [kind: {"create"}, user: Users, tx: {NoTransaction}, type: Type,
          category: Categories \cup {NoCategory}]
    \cup [kind: {"update"}, user: Users, tx: Transactions, type: Type,
          category: Categories \cup {NoCategory, Unchanged}]
    \cup [kind: {"remove"}, user: Users, tx: Transactions, type: {"EXPENSE"},
          category: {NoCategory}]
    \cup [kind: {"removeCategory"}, user: Users, tx: {NoTransaction},
          type: {"EXPENSE"}, category: Categories]

Blank == [kind |-> "none", user |-> NoUser, tx |-> NoTransaction,
          type |-> "EXPENSE", category |-> NoCategory]

Request == [kind: {"none", "create", "update", "remove", "removeCategory"},
            user: Users \cup {NoUser}, tx: Transactions \cup {NoTransaction},
            type: Type, category: Categories \cup {NoCategory, Unchanged}]

TypeOK ==
    /\ categories \in SUBSET Categories
    /\ created \in SUBSET Transactions
    /\ transactions \in SUBSET created
    /\ txUser \in [Transactions -> Users \cup {NoUser}]
    /\ txType \in [Transactions -> Type]
    /\ txCategory \in [Transactions -> Categories \cup {NoCategory}]
    /\ author \in [Transactions -> {"nobody", "user", "model"}]
    /\ retyped \in SUBSET created
    /\ reqPc \in [Requests -> {"idle", "write", "enqueue"}]
    /\ body \in [Requests -> Request]
    /\ job \in [Transactions -> {"none", "waiting", "active", "completed", "failed"}]
    /\ attempts \in [Transactions -> 0..MaxAttempts]
    /\ lock \in [Transactions -> Workers \cup {NoWorker}]
    /\ pc \in [Workers -> {"idle", "find", "candidates", "ask", "check", "save",
                           "done"}]
    /\ current \in [Workers -> Transactions \cup {NoTransaction}]
    /\ seenType \in [Workers -> Type]
    /\ candidates \in [Workers -> SUBSET Categories]
    /\ answer \in [Workers -> Categories \cup {NoCategory}]
    /\ faults \in 0..MaxFaults

\* The users signed up with their default categories; no transaction yet.
Init ==
    /\ categories = Categories
    /\ created = {}
    /\ transactions = {}
    /\ txUser = [t \in Transactions |-> NoUser]
    /\ txType = [t \in Transactions |-> "EXPENSE"]
    /\ txCategory = [t \in Transactions |-> NoCategory]
    /\ author = [t \in Transactions |-> "nobody"]
    /\ retyped = {}
    /\ reqPc = [q \in Requests |-> "idle"]
    /\ body = [q \in Requests |-> Blank]
    /\ job = [t \in Transactions |-> "none"]
    /\ attempts = [t \in Transactions |-> 0]
    /\ lock = [t \in Transactions |-> NoWorker]
    /\ pc = [w \in Workers |-> "idle"]
    /\ current = [w \in Workers |-> NoTransaction]
    /\ seenType = [w \in Workers |-> "EXPENSE"]
    /\ candidates = [w \in Workers |-> {}]
    /\ answer = [w \in Workers |-> NoCategory]
    /\ faults = 0

------------------------------------------------------------------------------
(* Helpers *)

Fault(kind) ==
    /\ kind \in FaultKinds
    /\ faults < MaxFaults
    /\ faults' = faults + 1

NoFault == UNCHANGED faults

OwnsTransaction(u, t) == t \in transactions /\ txUser[t] = u

OwnsCategory(u, c) == c \in categories /\ CategoryOwner[c] = u

\* What a foreign key allows in the column.
Referable(c) == c \in categories \cup {NoCategory}

------------------------------------------------------------------------------
(* The requests *)

ReqGoto(q, label) == reqPc' = [reqPc EXCEPT ![q] = label]

Answered(q) ==
    /\ ReqGoto(q, "idle")
    /\ body' = [body EXCEPT ![q] = Blank]

\* validateEntitiesOwnership, of the ids the body has.
Valid(b) ==
    /\ b.tx # NoTransaction => OwnsTransaction(b.user, b.tx)
    /\ b.category \in Categories => OwnsCategory(b.user, b.category)

\* A request comes in and passes its validations.  One that an id, the plan or
\* the bank account refuses changes nothing.
Validate(q, b) ==
    /\ reqPc[q] = "idle"
    /\ Valid(b)
    /\ ReqGoto(q, "write")
    /\ body' = [body EXCEPT ![q] = b]
    /\ UNCHANGED <<tables, queueVars, workerVars, faults>>

SetTransaction(t, type, c, by) ==
    /\ txType' = [txType EXCEPT ![t] = type]
    /\ txCategory' = [txCategory EXCEPT ![t] = c]
    /\ author' = [author EXCEPT ![t] = IF c = NoCategory THEN "nobody" ELSE by]

InsertTransaction(q) ==
    LET b == body[q] IN
    /\ reqPc[q] = "write"
    /\ b.kind = "create"
    /\ Referable(b.category)
    /\ \E t \in Transactions \ created :
           /\ created' = created \cup {t}
           /\ transactions' = transactions \cup {t}
           /\ txUser' = [txUser EXCEPT ![t] = b.user]
           /\ SetTransaction(t, b.type, b.category, "user")
           /\ IF b.category = NoCategory
              THEN /\ ReqGoto(q, "enqueue")
                   /\ body' = [body EXCEPT ![q].tx = t]
              ELSE Answered(q)
    /\ UNCHANGED <<categories, retyped, queueVars, workerVars, faults>>

\* A body without categoryId leaves the column as it is.
UpdateTransaction(q) ==
    LET b == body[q]
        kept == b.category = Unchanged
    IN
    /\ reqPc[q] = "write"
    /\ b.kind = "update"
    /\ b.tx \in transactions
    /\ kept \/ Referable(b.category)
    /\ SetTransaction(b.tx, b.type,
                      IF kept THEN txCategory[b.tx] ELSE b.category,
                      IF kept THEN author[b.tx] ELSE "user")
    /\ retyped' = IF b.type = txType[b.tx] THEN retyped ELSE retyped \cup {b.tx}
    /\ Answered(q)
    /\ UNCHANGED <<categories, transactions, created, txUser, queueVars, workerVars, faults>>

DeleteTransaction(q) ==
    LET t == body[q].tx IN
    /\ reqPc[q] = "write"
    /\ body[q].kind = "remove"
    /\ t \in transactions
    /\ transactions' = transactions \ {t}
    /\ SetTransaction(t, "EXPENSE", NoCategory, "nobody")
    /\ retyped' = retyped \ {t}
    /\ Answered(q)
    /\ UNCHANGED <<categories, created, txUser, queueVars, workerVars, faults>>

\* Faulty variant: the column keeps the id of the deleted category.
SetNullForgotten(c) == UNCHANGED <<txCategory, author>>

\* ON DELETE SET NULL.
SetNull(c) ==
    /\ txCategory' = [t \in Transactions |->
                         IF txCategory[t] = c THEN NoCategory ELSE txCategory[t]]
    /\ author' = [t \in Transactions |->
                     IF txCategory[t] = c THEN "nobody" ELSE author[t]]

DeleteCategory(q) ==
    /\ reqPc[q] = "write"
    /\ body[q].kind = "removeCategory"
    /\ body[q].category \in categories
    /\ categories' = categories \ {body[q].category}
    /\ SetNull(body[q].category)
    /\ Answered(q)
    /\ UNCHANGED <<transactions, created, txUser, txType, retyped, queueVars, workerVars,
                   faults>>

\* What was validated is gone, or the database fails: an exception, no effect.
WriteFails(q) ==
    /\ reqPc[q] = "write"
    /\ Answered(q)
    /\ UNCHANGED <<tables, queueVars, workerVars, faults>>

\* Never throws: a refused job is logged and lost.
Enqueue(q) ==
    LET t == body[q].tx IN
    /\ reqPc[q] = "enqueue"
    /\ \/ NoFault /\ job' = [job EXCEPT ![t] = IF @ = "none" THEN "waiting" ELSE @]
       \/ Fault("queue") /\ UNCHANGED job
    /\ Answered(q)
    /\ UNCHANGED <<tables, attempts, lock, workerVars>>

------------------------------------------------------------------------------
(* The queue *)

Goto(w, label) == pc' = [pc EXCEPT ![w] = label]

Take(w, t) ==
    /\ pc[w] = "idle"
    /\ job[t] = "waiting"
    /\ job' = [job EXCEPT ![t] = "active"]
    /\ lock' = [lock EXCEPT ![t] = w]
    /\ current' = [current EXCEPT ![w] = t]
    /\ Goto(w, "find")
    /\ UNCHANGED <<tables, requestVars, attempts, seen, faults>>

\* run returned or threw: its locals are gone.
Forget(w) ==
    /\ seenType' = [seenType EXCEPT ![w] = "EXPENSE"]
    /\ candidates' = [candidates EXCEPT ![w] = {}]
    /\ answer' = [answer EXCEPT ![w] = NoCategory]

Return(w) == Goto(w, "done") /\ Forget(w)

Release(w) ==
    /\ Goto(w, "idle")
    /\ current' = [current EXCEPT ![w] = NoTransaction]
    /\ Forget(w)

\* process returned or threw; without its lock a worker cannot move the job.
MoveJob(w, to) ==
    LET t == current[w] IN
    /\ IF lock[t] = w
       THEN /\ job' = [job EXCEPT ![t] = to]
            /\ lock' = [lock EXCEPT ![t] = NoWorker]
       ELSE UNCHANGED <<job, lock>>
    /\ Release(w)

CompleteJob(w) ==
    /\ pc[w] = "done"
    /\ MoveJob(w, "completed")
    /\ UNCHANGED <<tables, requestVars, attempts, faults>>

\* Faulty variant: off by one.
LastAttemptLate(made) == made > MaxAttempts

LastAttempt(made) == made >= MaxAttempts

\* An error: another attempt with backoff, or none after a permanent one.
FailJob(w, permanent) ==
    LET t == current[w]
        made == attempts[t] + 1
    IN
    /\ attempts' = IF lock[t] = w THEN [attempts EXCEPT ![t] = made] ELSE attempts
    /\ MoveJob(w, IF permanent \/ LastAttempt(made) THEN "failed" ELSE "waiting")

\* An active job whose lock expired waits again, or stalled once too often.
Recover(t) ==
    /\ job[t] = "active"
    /\ lock[t] = NoWorker
    /\ \E next \in {"waiting", "failed"} : job' = [job EXCEPT ![t] = next]
    /\ UNCHANGED <<tables, requestVars, attempts, lock, workerVars, faults>>

------------------------------------------------------------------------------
(* CategorizeTransactionService.run *)

FindTransaction(w) ==
    LET t == current[w]
        wanted == t \in transactions /\ txCategory[t] = NoCategory
    IN
    /\ pc[w] = "find"
    /\ \/ /\ wanted
          /\ seenType' = [seenType EXCEPT ![w] = txType[t]]
          /\ Goto(w, "candidates")
          /\ UNCHANGED <<candidates, answer>>
       \/ ~wanted /\ Return(w)
    /\ UNCHANGED <<tables, requestVars, queueVars, current, faults>>

\* The candidates, then the budget: every user and feature spends it, so it may
\* be exhausted or not.
FindCandidates(w) ==
    LET found == {c \in categories : /\ CategoryOwner[c] = txUser[current[w]]
                                     /\ CategoryType[c] = seenType[w]}
    IN
    /\ pc[w] = "candidates"
    /\ \/ /\ found # {}
          /\ candidates' = [candidates EXCEPT ![w] = found]
          /\ Goto(w, "ask")
          /\ UNCHANGED <<seenType, answer>>
       \/ Return(w)
    /\ UNCHANGED <<tables, requestVars, queueVars, current, faults>>

\* The request lists the candidates, and its schema lets the model pick one of them.
categorizationSchema(w) == candidates[w]

\* An answer outside the schema, a refusal, a cut output, "none" or a low
\* confidence end the run without a category.
ModelAnswers(w) ==
    /\ pc[w] = "ask"
    /\ \/ \E c \in categorizationSchema(w) :
              /\ answer' = [answer EXCEPT ![w] = c]
              /\ candidates' = [candidates EXCEPT ![w] = {}]
              /\ Goto(w, "check")
              /\ UNCHANGED seenType
       \/ Return(w)
    /\ UNCHANGED <<tables, requestVars, queueVars, current, faults>>

ModelFails(w) ==
    /\ pc[w] = "ask"
    /\ \E permanent \in BOOLEAN : FailJob(w, permanent)
    /\ UNCHANGED <<tables, requestVars, faults>>

isAllowed(u, c, type) == OwnsCategory(u, c) /\ CategoryType[c] = type

Check(w) ==
    LET allowed == isAllowed(txUser[current[w]], answer[w], seenType[w]) IN
    /\ pc[w] = "check"
    /\ \/ allowed /\ Goto(w, "save") /\ UNCHANGED seen
       \/ ~allowed /\ Return(w)
    /\ UNCHANGED <<tables, requestVars, queueVars, current, faults>>

\* Faulty variant: the transaction is written by its id alone.
IsUnsetById(t) == t \in transactions

\* The WHERE of the conditional update.
IsUnset(t) == t \in transactions /\ txCategory[t] = NoCategory

\* Nothing is written when the condition fails or the category is gone (P2003).
setCategoryIfUnset(w) ==
    LET t == current[w] IN
    /\ pc[w] = "save"
    /\ IF IsUnset(t) /\ Referable(answer[w])
       THEN SetTransaction(t, txType[t], answer[w], "model")
       ELSE UNCHANGED <<txType, txCategory, author>>
    /\ Return(w)
    /\ UNCHANGED <<categories, transactions, created, txUser, retyped, requestVars,
                   queueVars, current, faults>>

DatabaseFails(w) ==
    /\ pc[w] \in {"find", "candidates", "check", "save"}
    /\ Fault("db")
    /\ FailJob(w, FALSE)
    /\ UNCHANGED <<tables, requestVars>>

------------------------------------------------------------------------------
(* Worker failures *)

LoseLock(w) == lock' = [t \in Transactions |-> IF lock[t] = w THEN NoWorker ELSE lock[t]]

Stall(w) ==
    /\ \E t \in Transactions : lock[t] = w
    /\ Fault("stall")
    /\ LoseLock(w)
    /\ UNCHANGED <<tables, requestVars, job, attempts, workerVars>>

Crash(w) ==
    /\ pc[w] # "idle"
    /\ Fault("crash")
    /\ LoseLock(w)
    /\ Release(w)
    /\ UNCHANGED <<tables, requestVars, job, attempts>>

------------------------------------------------------------------------------

Serve(q) ==
    \/ InsertTransaction(q) \/ UpdateTransaction(q) \/ DeleteTransaction(q)
    \/ DeleteCategory(q) \/ WriteFails(q) \/ Enqueue(q)

WorkerStep(w) ==
    \/ FindTransaction(w) \/ FindCandidates(w) \/ ModelAnswers(w)
    \/ ModelFails(w) \/ Check(w) \/ setCategoryIfUnset(w) \/ CompleteJob(w)

QueueStep ==
    \/ \E w \in Workers, t \in Transactions : Take(w, t)
    \/ \E t \in Transactions : Recover(t)

Next ==
    \/ \E q \in Requests, b \in Body : Validate(q, b)
    \/ \E q \in Requests : Serve(q)
    \/ \E w \in Workers : WorkerStep(w) \/ DatabaseFails(w) \/ Stall(w) \/ Crash(w)
    \/ QueueStep

Spec == Init /\ [][Next]_vars

------------------------------------------------------------------------------
(* Properties *)

\* "a category the user sets meanwhile always wins": the model never replaces a
\* category, neither a user's nor one that an earlier delivery of the job set.
ModelNeverOverwrites ==
    [][\A t \in Transactions : txCategory[t] # NoCategory /\ author'[t] = "model" =>
           txCategory'[t] = txCategory[t] /\ author[t] = "model"]_vars

\* A transaction's category exists and belongs to its user, whatever is deleted
\* between a validation and the write that relies on it.
OwnCategory ==
    \A t \in transactions : txCategory[t] # NoCategory =>
        OwnsCategory(txUser[t], txCategory[t])

\* A category the model picked is one of the transaction's type, except that the
\* user may have changed the type since the job read it.
ModelCategoryFits ==
    \A t \in transactions : author[t] = "model" /\ t \notin retyped =>
        CategoryType[txCategory[t]] = txType[t]

------------------------------------------------------------------------------
(* The inductive invariant *)

\* What a request validated stays true until its write, but for deletions.
RequestInv ==
    \A q \in Requests :
        LET b == body[q] IN
        /\ b.tx # NoTransaction => b.tx \in created
        /\ reqPc[q] # "idle" => b.user \in Users
        /\ reqPc[q] = "write" =>
               /\ b.tx # NoTransaction => txUser[b.tx] = b.user
               /\ b.category \in Categories => CategoryOwner[b.category] = b.user
        /\ reqPc[q] = "enqueue" => b.tx # NoTransaction

\* A worker's view of its transaction is true, or a user changed the type since.
WorkerInv ==
    \A w \in Workers : pc[w] # "idle" =>
        LET t == current[w] IN
        /\ t \in created
        /\ t \in transactions /\ pc[w] \in {"candidates", "ask", "check", "save"} =>
               seenType[w] = txType[t] \/ t \in retyped
        /\ pc[w] \in {"check", "save"} => answer[w] \in Categories
        /\ pc[w] = "save" =>
               /\ CategoryOwner[answer[w]] = txUser[t]
               /\ CategoryType[answer[w]] = seenType[w]

\* Jobs are about inserted transactions and have attempts left until they end.
JobInv ==
    \A t \in Transactions :
        /\ job[t] = "none" => attempts[t] = 0
        /\ job[t] # "none" => t \in created
        /\ lock[t] # NoWorker => job[t] = "active"
        /\ job[t] \in {"waiting", "active"} => attempts[t] < MaxAttempts

\* Every row has a user and, when it has a category, its author; rows that do not
\* exist are blank.
RowInv ==
    \A t \in Transactions :
        /\ t \in created => txUser[t] \in Users
        /\ t \notin transactions => txCategory[t] = NoCategory
        /\ author[t] = "nobody" <=> txCategory[t] = NoCategory
        /\ txCategory[t] # NoCategory => OwnsCategory(txUser[t], txCategory[t])

IInv == TypeOK /\ RequestInv /\ WorkerInv /\ JobInv /\ RowInv /\ ModelCategoryFits
=============================================================================
