-------------------------- MODULE TransactionReads --------------------------
(***************************************************************************)
(* What the table of transactions answers: the paginated list of a month,  *)
(* the balances of the bank accounts, and the tools with which the         *)
(* assistant searches and sums.  Five queries read the same rows, each     *)
(* with a range, an owner and a rounding of its own.                       *)
(*                                                                         *)
(* A value is a number of thousandths, since a request may carry any       *)
(* positive number; the instants of a day are 0, ..., DayLength - 1 and    *)
(* the last one is 23:59:59.999.  Who may write a row, and when, is in     *)
(* PlanLimits and Categorization: a write is one step here.                *)
(***************************************************************************)
EXTENDS Integers, Sequences, SequencesExt, FiniteSets, FiniteSetsExt, Functions, TLC

CONSTANTS
    Users,
    Accounts, AccountOwner,     \* bank accounts and whose they are
    Categories, CategoryOwner,
    None,                       \* no category; no filter
    Values, Balances,           \* of transactions; initial balances of accounts
    Months, DaysPerMonth, DayLength,
    MAX_RANGE_DAYS,
    AskedDays, Bounds, Limits,  \* days, least and most values, page sizes of a request
    Transactions                \* ids of rows

Days == 0..(Months * DaysPerMonth - 1)
Instants == 0..(Months * DaysPerMonth * DayLength - 1)
Type == {"INCOME", "EXPENSE"}

ASSUME ReadsAssumption ==
    /\ AccountOwner \in [Accounts -> Users] /\ CategoryOwner \in [Categories -> Users]
    /\ None \notin Categories \cup Type
    /\ Values \subseteq Nat /\ Balances \subseteq Int
    /\ {Months, DaysPerMonth, DayLength, MAX_RANGE_DAYS} \subseteq Nat \ {0}
    /\ AskedDays \subseteq Days /\ Bounds \subseteq Nat \X Nat /\ Limits \subseteq Nat \ {0}

VARIABLES
    rows,                       \* the table transactions: the row of each id
    initialBalance,             \* the table bank_accounts
    categories                  \* the table categories

readVars == <<rows, initialBalance, categories>>

accounts == DOMAIN initialBalance

Row == [userId : Users, account : Accounts, category : Categories \cup {None},
        type : Type, date : Instants, value : Values]

Empty == [x \in {} |-> x]

ReadsInit == rows = Empty /\ initialBalance = Empty /\ categories = {}

-----------------------------------------------------------------------------
(***************************************************************************)
(* Writes.                                                                 *)
(***************************************************************************)

With(table, id, row) == [x \in DOMAIN table \cup {id} |-> IF x = id THEN row ELSE table[x]]

\* TransactionsService.validateEntitiesOwnership
Owned(r) ==
    /\ r.account \in accounts /\ AccountOwner[r.account] = r.userId
    /\ r.category # None => r.category \in categories /\ CategoryOwner[r.category] = r.userId

CreateRow ==
    /\ \E i \in Transactions \ DOMAIN rows, r \in Row : Owned(r) /\ rows' = With(rows, i, r)
    /\ UNCHANGED <<initialBalance, categories>>

UpdateRow ==
    \E i \in DOMAIN rows, r \in Row :
        /\ r.userId = rows[i].userId /\ Owned(r)
        /\ rows' = [rows EXCEPT ![i] = r]
        /\ UNCHANGED <<initialBalance, categories>>

DeleteRow ==
    \E i \in DOMAIN rows :
        rows' = Restrict(rows, DOMAIN rows \ {i}) /\ UNCHANGED <<initialBalance, categories>>

\* What PlanLimits says about their number is left out here.  No row refers to an
\* account or category that is gone, so a new one may as well have its id.
CreateBankAccount ==
    \E a \in Accounts \ accounts, b \in Balances :
        initialBalance' = With(initialBalance, a, b) /\ UNCHANGED <<rows, categories>>

\* A PUT may correct the initial balance while there are transactions.
UpdateBankAccount ==
    \E a \in accounts, b \in Balances :
        initialBalance' = [initialBalance EXCEPT ![a] = b] /\ UNCHANGED <<rows, categories>>

\* onDelete: Cascade
DeleteBankAccount ==
    \E a \in accounts :
        /\ initialBalance' = Restrict(initialBalance, accounts \ {a})
        /\ rows' = Restrict(rows, {i \in DOMAIN rows : rows[i].account # a})
        /\ UNCHANGED categories

\* An update changes the name and the icon only.
CreateCategory ==
    \E c \in Categories \ categories :
        categories' = categories \cup {c} /\ UNCHANGED <<rows, initialBalance>>

\* onDelete: SetNull
DeleteCategory ==
    \E c \in categories :
        /\ categories' = categories \ {c}
        /\ rows' = [i \in DOMAIN rows |->
                       IF rows[i].category = c THEN [rows[i] EXCEPT !.category = None] ELSE rows[i]]
        /\ UNCHANGED initialBalance

ReadsNext ==
    \/ CreateRow \/ UpdateRow \/ DeleteRow
    \/ CreateBankAccount \/ UpdateBankAccount \/ DeleteBankAccount
    \/ CreateCategory \/ DeleteCategory

ReadsSpec == ReadsInit /\ [][ReadsNext]_readVars

-----------------------------------------------------------------------------
(***************************************************************************)
(* Reads.  A query answers with the ids of rows.                           *)
(***************************************************************************)

\* Cents, half a cent rounded up.
round2(n) == 10 * ((n + 5) \div 10)

ValueOf(S) == SumFunction([i \in S |-> rows[i].value])

startOfDay(d) == d * DayLength

\* Faulty variant: the last day of a range ends at midnight, when it begins.
endOfDayAtMidnight(t) == t
endOfDay(t) == t + DayLength - 1

startOfMonth(m) == m * DaysPerMonth * DayLength
monthOf(t) == t \div (DaysPerMonth * DayLength)

Passes(filter, x) == filter = None \/ filter = x

readWhere(u, f) ==
    {i \in DOMAIN rows :
        /\ rows[i].userId = u
        /\ f.from <= rows[i].date /\ rows[i].date <= endOfDay(f.to)
        /\ Passes(f.type, rows[i].type) /\ Passes(f.category, rows[i].category)}

Group(key, S) == [key |-> key, total |-> round2(ValueOf(S)), count |-> Cardinality(S)]

totals(u, f, groupBy) ==
    LET S == readWhere(u, f)
        By(key) == {Group(k, {i \in S : key[i] = k}) : k \in Range(key)}
    IN  CASE groupBy = "none"     -> {Group("all", S)}
          [] groupBy = "category" -> By([i \in S |-> rows[i].category])
          [] groupBy = "month"    -> By([i \in S |-> monthOf(rows[i].date)])

\* The largest key first; equal keys come in any order.
Listing(S, key) ==
    CHOOSE s \in [1..Cardinality(S) -> S] :
        /\ IsInjective(s)
        /\ \A p, q \in DOMAIN s : p < q => key[s[p]] >= key[s[q]]

search(u, f) ==
    LET S == {i \in readWhere(u, f) : f.minValue <= rows[i].value /\ rows[i].value <= f.maxValue}
        sorted == Listing(S, [i \in S |-> IF f.orderBy = "date" THEN rows[i].date ELSE rows[i].value])
    IN  [data |-> SubSeq(sorted, 1, Min({f.limit, Len(sorted)})), total |-> Cardinality(S)]

\* A date without a time is the first instant of its day.
isoDate == {startOfDay(d) : d \in AskedDays}

\* What the model may ask for; the user is not among it.
range == [from : isoDate, to : isoDate, type : Type \cup {None}, category : Categories \cup {None}]
totalsInput == {f \in range : f.type # None}

\* ... and refuses, with a message, when from is after to or the range is too long.
withinRange(f) ==
    f.from <= f.to /\ (f.to - f.from) \div DayLength + 1 <= MAX_RANGE_DAYS

ToolError == [is_error |-> TRUE]

compute_totals(u, f, groupBy) ==
    LET groups == totals(u, f, groupBy)
    IN  [is_error |-> FALSE, groups |-> groups,
         grandTotal |-> round2(SumFunction([g \in groups |-> g.total]))]

query_transactions(u, f) ==
    LET found == search(u, f)
    IN  [is_error |-> FALSE, transactions |-> found.data, total |-> found.total,
         truncated |-> found.total > Len(found.data)]

\* A refused input is an answer the model can correct; so are an unknown tool and
\* a read that failed, which AgentRuns chooses.
runTool(f, answer) == IF withinRange(f) THEN answer ELSE ToolError

\* The table has no order of its own: rows come in any one.
\* Faulty variant: pages are counted from zero.
skipFromZero(page, limit) == page * limit
skip(page, limit) == (page - 1) * limit

findMany(u, f) ==
    LET S == {i \in DOMAIN rows :
                /\ rows[i].userId = u
                /\ startOfMonth(f.month) <= rows[i].date
                /\ rows[i].date < startOfMonth(f.month + 1)
                /\ Passes(f.account, rows[i].account) /\ Passes(f.type, rows[i].type)}
        found == SetToSeq(S)
    IN  [data |-> SubSeq(found, skip(f.page, f.limit) + 1,
                         Min({skip(f.page, f.limit) + f.limit, Len(found)})),
         total |-> Cardinality(S)]

findAllByUserId(u, f) ==
    LET found == findMany(u, f)
    IN  [data |-> found.data, total |-> found.total,
         totalPages |-> (found.total + f.limit - 1) \div f.limit]

\* What the rows of an account add to its initial balance.
Moved(i) == IF rows[i].type = "INCOME" THEN rows[i].value ELSE -rows[i].value

currentBalance(a) ==
    initialBalance[a]
        + SumFunction([i \in {j \in DOMAIN rows : rows[j].account = a} |-> Moved(i)])

-----------------------------------------------------------------------------
(***************************************************************************)
(* Correctness.                                                            *)
(***************************************************************************)

\* The user's rows that happened on a day from the first to the last.
Wanted(u, f) ==
    {i \in DOMAIN rows :
        /\ rows[i].userId = u
        /\ startOfDay(rows[i].date \div DayLength) \in f.from..f.to
        /\ f.type = None \/ rows[i].type = f.type
        /\ f.category = None \/ rows[i].category = f.category}

(***************************************************************************)
(* TotalsAgree: however the assistant groups an accepted range, the groups *)
(* count every row of the user on those days once and no other row, the    *)
(* last day to its last millisecond included, and the grand total is off   *)
(* by at most half a cent for each group (transactions.prisma.repository   *)
(* 120-193, agent-tools 186-194).                                          *)
(***************************************************************************)
TotalsAgree ==
    \A u \in Users, f \in totalsInput :
        LET wanted == Wanted(u, f) IN
        \A groupBy \in {"none", "category", "month"} :
            LET answer == runTool(f, compute_totals(u, f, groupBy)) IN
            ~answer.is_error =>
                /\ SumFunction([g \in answer.groups |-> g.count]) = Cardinality(wanted)
                /\ answer.grandTotal - ValueOf(wanted) \in
                       (-5 * Cardinality(answer.groups))..(5 * Cardinality(answer.groups))

\* The pages of a month are as many as the answer says: each but the last is
\* full, none is empty, the one after them is, and their rows are as many as
\* the assistant counts from the month's first day to its last.
MonthsAgree ==
    \A u \in Users, m \in 0..(Months - 1), type \in Type, limit \in Limits :
        LET Page(p) == findAllByUserId(u, [month |-> m, account |-> None, type |-> type,
                                           page |-> p, limit |-> limit])
            last == Page(1).totalPages
            f == [from |-> startOfMonth(m), to |-> startOfMonth(m + 1) - DayLength,
                  type |-> type, category |-> None]
        IN  /\ \A p \in 1..last : Len(Page(p).data) \in 1..limit
            /\ Page(last + 1).data = <<>>
            /\ SumFunction([p \in 1..last |-> Len(Page(p).data)]) =
                   SumFunction([g \in totals(u, f, "none") |-> g.count])

\* A search returns as many rows as fit, the largest by its key, and says so
\* when it leaves some out.
SearchesAreHonest ==
    \A u \in Users, f \in range, b \in Bounds, limit \in Limits, orderBy \in {"date", "value"} :
        LET g == [from |-> f.from, to |-> f.to, type |-> f.type, category |-> f.category,
                  minValue |-> b[1], maxValue |-> b[2], limit |-> limit, orderBy |-> orderBy]
            answer == runTool(g, query_transactions(u, g))
            all == {i \in Wanted(u, f) : rows[i].value \in b[1]..b[2]}
            key(i) == IF orderBy = "date" THEN rows[i].date ELSE rows[i].value
            shown == Range(answer.transactions)
        IN  ~answer.is_error =>
                /\ shown \subseteq all
                /\ Cardinality(shown) = Min({limit, Cardinality(all)})
                /\ answer.truncated <=> shown # all
                /\ \A i \in shown, j \in all \ shown : key(i) >= key(j)

\* The balances of a user's accounts moved by what the user earned and spent.
BalancesAgree ==
    \A u \in Users :
        LET mine == {a \in accounts : AccountOwner[a] = u}
            Sum(type) == ValueOf({i \in DOMAIN rows : rows[i].userId = u /\ rows[i].type = type})
        IN  SumFunction([a \in mine |-> currentBalance(a) - initialBalance[a]])
                = Sum("INCOME") - Sum("EXPENSE")

(***************************************************************************)
(* ListsAgree: the list of a month, the assistant's search and the bank    *)
(* accounts show the rows the totals count (transactions.prisma.repository *)
(* 43-66 and 94-118, transactions.service 51-67, bank-accounts.service     *)
(* 30-52).                                                                 *)
(***************************************************************************)
ListsAgree == MonthsAgree /\ SearchesAreHonest /\ BalancesAgree
=============================================================================
