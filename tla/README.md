# Verification of fincheck-api

TLA+ models of this API: Stripe's webhook and self-service billing, the
assistant's runs, transactions and the job that categorizes them, sessions,
accounts and their addresses, the mail queue, the plans' limits and the money
spent on the model, and the pure parts that read transactions and cut texts into
chunks. TLC checks them on small instances; TLAPS proves the safety properties of
all of them for every value of the constants.

The API is a NestJS application over Postgres (Prisma), Redis (BullMQ queues),
Stripe, Resend (mail), S3 and the Anthropic API. Node runs one JavaScript step
at a time, so within a process two handlers interleave only where one of them
awaits; between processes (several API instances, queue workers) they interleave
there too, because every shared state lives behind an `await` in Postgres, Redis
or Stripe. All the models therefore take **one step per awaited call**.

## The system

| Component | State | Operations | Works with | What is hard | What makes it correct |
|---|---|---|---|---|---|
| Stripe webhook (`shared/billing/billing.webhook.ts`, `stripe-events*`) | `processed_stripe_events`; `users.plan`, `stripe_price_id` | `handle` for three event types, compensation, daily clean-up | Stripe, users, mail queue | at-least-once delivery, timeouts whose attempt runs on, crashes, pruning | an event takes effect once, is never lost, mails once |
| Billing self-service (`billing.service.ts`, `BillingController`, paid sign-up) | `stripe_customer_id`, `stripe_price_id`; Stripe's customers and subscriptions | setup, subscribe, change-plan, cancel, sign-up | Stripe, webhook | no transaction spans Stripe and Postgres; concurrent requests; the plan arrives later by webhook | the plan follows the subscription that is charged |
| Assistant runs (`modules/assistant`) | `agent_runs`; the `agent` queue | ask, register, enqueue, tool loop, markFailed, poll | plan guard, LLM, BullMQ | idempotency races, retries, stalled workers, crashes | a run settles, once; a key stands for one run |
| Transactions and categorization (`modules/transactions`) | `transactions.category_id`, `type`; a queue | create, update, remove; the job that asks the model | categories, plan guard, LLM | user edits race a slow model call | the user's choice wins; category and transaction agree |
| Plan limits and AI quotas (`shared/plan`) | none of its own: counts rows | bank account, transaction, AI limits; spend ceiling | every writer | count, then insert | a plan's limit is kept |
| LLM client and ledger (`shared/llm`) | `ai_usage` | call, record usage, classify errors | Anthropic | an answer that is paid for and not recorded | spend is recorded before it is judged |
| Authentication (`modules/auth`, guards) | `refresh_tokens`, signed access tokens | sign-in, sign-up, refresh, sign-out, Google, clean-up | users, billing | one token refreshed twice; a role that lives on in a token | a token is used once; a session is not lost without a cause |
| Users and e-mail change (`modules/users`) | `email`, `pending_email`, `email_token` | request, confirm, update, delete | mail, auth | confirmation after a newer request or a taken address | an address has one owner, who proved it |
| Mail queue (`shared/mail`) | a queue | enqueue, process, back off | Resend | duplicates, timeouts | a mail is sent or given up; no needless copy |
| Bank accounts, categories | their rows | CRUD | transactions, plan guard | deletion during use | references stay the owner's |
| Education (`modules/education`) | `knowledge_chunks` with embeddings | ingest, answer | LLM, pgvector | chunk boundaries, replacement under a reader | every paragraph is in some chunk; the corpus is never half there |
| HTTP shell, configuration, tracing, storage; evals | none | wiring, pure I/O, offline scripts | – | – | not modelled |

## Modules

| Module | Models |
|---|---|
| `Plans` | plans, price ids, `planFromPriceId`, `isDowngrade` |
| `EventClaim` | abstract: what the table of processed events promises |
| `StripeWebhook` | delivery, `handle`, the three event handlers, compensation, cron |
| `Billing` | `BillingService` and paid sign-up, Stripe's side of it, composed with `StripeWebhook` |
| `BillingProofs` | the theorems about the webhook by itself, then about both together |
| `RunPromise` | abstract: what the assistant promises to a client that asks and polls |
| `AgentRuns` | `POST /assistant/questions`, the queue, `RunAgentService`, `AgentProcessor`; shown to implement `RunPromise` |
| `AgentRunsProofs` | its theorems |
| `Categorization` | create, update and remove of transactions, removal of categories, the categorization queue and its job |
| `CategorizationProofs` | its theorems |
| `Sessions` | `AuthService`'s sign-in, refresh and sign-out, the guards, roles and removal of accounts, the clean-up cron |
| `SessionsProofs` | its theorems |
| `Mailbox` | abstract: what the mail queue promises to whoever posts a mail |
| `MailQueue` | `MailQueueService`, `MailProcessor`, `MailService` and BullMQ between them; shown to implement `Mailbox` |
| `MailQueueProofs` | its theorems |
| `EmailChange` | who has which address: sign-up, Google, administrators, the link to a new address; uses `Mailbox` for the queue |
| `EmailChangeProofs` | its theorems |
| `PlanLimits` | the limits of `PlanGuardService` on accounts and transactions, with the services that write them |
| `Education` | extends `PlanLimits` with questions, calls to the model, the ledger, the ceiling and the corpus |
| `EducationProofs` | theorems about both |
| `TransactionReads` | the list of a month, balances and the assistant's two tools over one table |
| `Chunking` | `chunkPages` as the steps of its two loops |
| `ReadsProofs` | theorems about both, and what the folds in them compute |
| `MCStripeWebhook`, `MCBilling`, `MCAgentRuns`, `MCCategorization`, `MCSessions`, `MCMailQueue`, `MCEmailChange`, `MCEducation`, `MCReads` | values and symmetries for TLC; `MCReads` puts the two pure modules side by side |

What composes with what: `Billing` extends `StripeWebhook` and reuses its actions;
`Education` extends `PlanLimits`, and the requests of both compete for one
user's plan; `EmailChange` talks to an instance of `Mailbox`, which `MailQueue`
implements, so that the two together cover a mail from the request to the
provider.

### StripeWebhook

A *handler* is one HTTP request, with a program counter named for the next
awaited call: `register` (insert of the event id), `find` (findByStripeCustomerId),
`update`, `notify` (enqueue of a mail), `unregister` (the compensating delete in
the catch block), then `ack` or `nack`. `read` is `user.plan` as the handler read
it before its update, on which the downgrade mail depends. Stripe keeps an event
`pending` until an attempt is answered with 2xx, and starts the next attempt when
the last was answered or timed out. A timeout takes away Stripe's attention
(`awaiting`), not the handler. `writes`, `jobs` and `completed` are history
variables; so are `unacked` (updates that committed and were reported to the
handler as failed) and `doubted` (events of which nobody in the system knows
whether they were processed: the process died while it held the row, the insert's
acknowledgement was lost, the compensating delete failed, or a redelivery was
acknowledged as a duplicate while the timed-out attempt was still at work). A payload is reduced to what the code branches on: the type, the
customer, the price, and whether the subscription is active and not about to be
cancelled.

`day` advances at midnight; the cron (`deleteOlderThan`) removes rows older than
`RETENTION_DAYS`. A request outlives at most one midnight.

### Billing

A *slot* is one request. `FindById` reads the row that the later steps use
without reading it again; `CreateCustomer`, `LinkCustomer`, `CreateSubscription`,
`UpdateSubscription` and `SavePriceId` are the calls of Stripe and Postgres in the
order of the code; `OpFails` rejects any of them, and nothing is compensated.
Stripe is external: it creates the events of each change (`upcoming`), renews or
ends subscriptions, and hands the events to the webhook of `StripeWebhook`,
whose actions are reused as they are. `twice` remembers users with two active
subscriptions at once (the code lets them), for whom "the" plan is not defined.
`OnlyOwnEvents` says that a plan only changes by an event about a customer that
was created for its user; it is proved rather than run.

### AgentRuns

One user asks, on one day; a request has the steps of `AssistantService.ask` (look up the
key, budget, quota, insert, enqueue). A worker takes a job with a lock and goes
through `find`, `mark` (markRunning), `loop` (one model call a step, tool rounds
counted against `MAX_STEPS` and the limit of consecutive failed rounds),
`finish`. A thrown error makes BullMQ retry or fail the job; the `failed` event
runs `markFailed` (`failing`). BullMQ is external: lock, stalled-job recovery and
the limit on stalls. `dropped` remembers the runs whose job or failure event a
fault swallowed, `reopened` the finished runs that a worker without its lock set
to RUNNING, `stray` the runs that such a worker finished. The contents of questions, tool results and answers are left
out; which tools failed matters only for the round counters.

### Categorization

A request (`reqPc`, `body`) validates the ids of its body, writes, and after a
create without a category enqueues the job; between the validation and the write
anything may happen to what was validated, so a write that meets a missing row or
a foreign key is `WriteFails`. A body that validation refuses changes nothing and
is no step. A worker goes through `find`, `candidates` (with the check of the
budget, whose outcome is open), `ask`, `check` (`isAllowed`) and `save`
(`setCategoryIfUnset`); `done` is the return of `run` before BullMQ records it.
`seenType` is `transaction.type` as `run` read it: the code validates the answer
against it, not against the row. `author` and `retyped` are history variables.
BullMQ is external: it may hand a job whose lock expired to a second worker while
the first still runs. Categories change their name and icon only, so owner and
type are constants; the creation of categories is left out, since neither job nor
request depends on a category that appears later.

### Sessions

A *request* (`pc`) is a sign-in (`compare`, `store`), a refresh (`findUser`,
`delete`, `store`, or `deleteExpired`) or an administrator's change of a role or
removal of an account. `seen` is the role as the request read it, `jwt` what it
signed from that; `access` are the access tokens clients hold, and `verify` and
`canActivate` look at nothing but the token, as `AuthGuard` and `RolesGuard` do.
A *session* is the chain of tokens that began with a sign-in. History: `issued`
(tokens that were ever stored), `overlapped` (sessions of a token that two
requests used at once), `signedOut`, `broken` (a failed insert after the delete
lost the pair), `deleted`, and `since` (when an account last changed its role).
Time is in ticks, and no request sees two: a tick stands for any time much longer
than a request.

### MailQueue, Mailbox

A mail is a job. `enqueue` may lose it (Redis refuses, the error is logged); a
worker takes it, sends, and completes or retries it, up to `MaxAttempts`. The
provider accepts, answers `{ error }`, or leaves the call to the timeout, after
which it may or may not have accepted. A worker may crash or lose its lock.
`copies` counts what the provider accepted; `doubtful` counts the sends of which
the queue cannot know how they ended. `Mailbox` is what a poster may rely on:
what was not posted is not delivered, and what counts as completed was
delivered.

### EmailChange

Requests look an address up, then write: the unique index on `email`, not the
look, is what decides. A link (`emailToken`) and the address it is for are one
write; `confirmEmailChange` writes the address it read with the token, by the id
of the account, whatever is pending by then. `asked` remembers who asked for
which address with a link, `excused` the links that were followed, replaced,
removed with their account, or asked for while an earlier one was being followed.

### PlanLimits and Education

A request reads the plan (`seen`), counts, and inserts, a step each; the checks of
a new transaction run at once and may end in any order (`todo`). Accounts are
numbered by the order of their creation (`createdAt`), on which depends which of
them are active; `UpdateTransaction` and the two deletions are not checked
against the plan. The row of a user is written by the webhook or an
administrator: `ChangePlan` is any of that. `had` collects the plans a user has
had, `overtaken` the requests during which the plan changed.

`Education` adds three kinds of requests that call the model: a question (quota,
corpus, call, record), the call of a categorization, and the calls of an
assistant run, which asks for the budget once. What a call is billed (`Bills`) is
its usage at the card `computeCostUsd` knows and, for a categorization, which is
the only caller of Haiku, possibly the surcharge of the dearer card for prompts
above 100K tokens; the cost that is computed is the first part. `Record` adds the
computed cost to `spent`, or loses the row. `Ingest` replaces the corpus. `Midnight` starts the
counts anew while requests go on with what they checked the day before. History:
`paid` and `answered` (what really happened today), `unrecorded` and `lost` (what
the ledger missed), `underestimated` (what the computed costs left out), `misled` (questions that counted chunks and then found
none).

### TransactionReads and Chunking

`TransactionReads` has the table, any legal writes to it, and five queries as
operators with the ranges, filters and roundings of the code; bank accounts and
categories come and go under the rows, and the initial balance of an account may
be corrected. The properties compare the queries with each other and with a
reference. `SetToSeq` gives the rows of
a page in one fixed order, since the query has no order of its own.
`Chunking` has an iteration of `chunkPages` per step; a paragraph is a place and a
number of words, and the properties are about the paragraphs of the chunks. The
cleaning of repeated lines is before it and left out.

## Runs

| Run | Question | Instance |
|---|---|---|
| `webhook_safety` | Is the table an exclusive claim that ends at most once, whatever fails, and by what may an event be burned or applied again? (`ExclusiveProcessing`, `OneMailJobPerEvent`, `BurnedOnlyInDoubt`, `AppliedAgainOnlyInDoubt`, `CompletedIsFinal`, `ClaimSpec`) | 1 event, 2 handlers, 3 faults of six kinds, 5 days |
| `agent_safety` | Are runs watched while open, what may overwrite a finished one, and is the client's promise kept? (`OpenRunsAreWatched`, `OverwrittenOnlyAfterStall`, `ImplementsPromise`) | 3 runs, 2 requests, 2 workers, a quota of 1, 1 fault of any kind (database, queue, crash, lost lock) |
| `agent_liveness` | Does a polled run settle? (`EveryRunSettles`) | 1 run, 2 workers, 3 faults of every kind |
| `billing` | Is every event processed, does every payment reach the plan, and does the plan follow the subscription once everything is delivered? (`PlanFollowsSubscription`, `PaymentIsHonoured`, `EventuallyProcessed`) | 1 user, 1 request at a time, 2 customers, 1 subscription, 3 events, 1 rejected call |
| `billing_race` | violated: `PlanFollowsSubscription`, two requests at a time | 2 slots, no fault |
| `billing_downgrade` | violated: `DowngradeAtPeriodEnd`, one change of plan | the instance of `billing`, no fault |
| `categorization` | Does the user's choice win, and does a category always exist and belong to the transaction's user? (`OwnCategory`, `ModelNeverOverwrites`) | 2 users, 1 transaction, 2 categories of one user and of different types, 2 requests, 2 workers, 1 fault of any kind |
| `sessions` | Has a session one token, does it survive, and does a revoked role end? (`OneTokenPerSession`, `SessionSurvives`, `StaleRoleEnds`) | 1 user, 3 tokens, 2 requests, 2 ticks, 1 disturbance (failing call, change of role, removal) |
| `mail_queue` | Is a mail delivered or given up, and copied only in doubt? (`NoNeedlessCopies`, `ImplementsMailbox`, `EveryMailSettles`) | 2 mails, 2 workers, 2 attempts, 3 faults of any kind |
| `email_change` | Has an address one owner who proved it, and does a link stay good? (`AddressesAreUnique`, `LinkStaysGood`, `AddressIsProved`) | 2 users, 2 addresses, 1 Google account, 2 links, 2 requests, 1 tick |
| `education` | By how much are limits, quota and ceiling exceeded, and what does a question see of the corpus? (`LimitsHold`, `QuotaHolds`, `SpendIsBounded`, `CorpusIsWhole`, `ReadOnlyIsKept`) | 1 user, 3 accounts, 2 transactions, 2 requests at a time, 4 arrivals, 1 change of plan or midnight, 2 ingestions, 1 lost row |
| `reads` | Do totals, lists and balances agree with the rows, and chunks with the text? (`TotalsAgree`, `ListsAgree`, `ChunksKeepParagraphs`) | 2 users with at most an account each, 2 initial balances, 1 category, 2 rows, 2 months of 2 days of 2 instants; 2 pages with 2 blocks of up to 2 sentences in all |

Every safety run but `reads` also checks the type invariant of its module; what
`ReadsInv` and `ChunkInv` say of types is proved.

*Bounds.* Two handlers of one event are all the interference the unique event id
allows at its row, and the clock runs past retention plus the retry window, so
rows are pruned while requests of the event may still be alive. Every fault
combines with every other up to the bound: three for the webhook, enough for a
timeout, a failing attempt and a failing compensation in one behaviour. Billing
is about one user, because no operation touches two; two customers are what a
lost link needs, and three events a subscription, its change and its end. In
`agent_safety` two requests are overlapping repeats of one key, or race at a
quota of one; the third run is the one they must not get. Faults come one at a
time there, since its other dimensions are large, and up to three at a time in
`agent_liveness`, whose two workers are one that lost its lock and one that was
given the job again; the proofs hold for any number. The limits of attempts and
failed rounds are 2 and that of steps 1 (2 in `agent_liveness`), so that each is
reached. Categorization is about one
transaction, because no step touches two; two requests and two workers give every
pair of writers (a user against a user, against a job, a job against its second
delivery), and the stall that makes two workers of one job is the one fault.

Three tokens in `sessions` are a sign-in and two refreshes, or two sessions of
which one is refreshed; the lives of both kinds of tokens are one tick and the
clock has two, so that each expires, once while a request uses it. In
`email_change` two users compete for two addresses, one of them Google's, and
two links are an earlier and a newer request; a link lives for no tick, so that
after the one tick of the run it is expired. In `education` FREE allows one
account and one transaction and no question, GOLD two, two and one, the others
more; the ceiling is 2, a call costs 1 and a large prompt 1 more (`MaxSurcharge`), so
that limits, quotas and the ceiling are met with requests in flight, and four arrivals fill the tables and
still race at the limit. In `reads` a day has two instants, of which the second
is its last millisecond; the ranges that are asked for start and end on the
first, the second and the last of the days (`AskedDays`), and searches bound the
values at and between those of the rows (`Bounds`); an initial balance is only
corrected of one account, while there is at most a row (`OneBalance`); and the
values (in thousandths) are rounded up and down; words and sentences are chosen
so that a paragraph is shorter than, as long as and longer than a chunk, and is
split in two.

Where `MaxEvents`, `MaxDay`, `MaxTime`, `MaxArrivals` or the ids run out, no
further step is enabled: the runs set `CHECK_DEADLOCK FALSE` for that reason (a
system at rest with nothing left to send is a state it may stop in).

*Fairness.* `FairSpec` of `StripeWebhook`: Node carries on a request that has
arrived, and Stripe redelivers an unanswered event. `FairBillingSpec` adds that
Stripe sends the events it created; nothing is assumed about users or the end of
a period. `FairSpec` of `AgentRuns`: requests, busy workers and failure handlers
go on, and the queue hands out waiting jobs and checks for stalled ones (every
30 s by default). `Spec` of `MailQueue` has the same for the mail queue: weak
fairness of `QueueStep` (hand out, recover) and of every worker's `WorkerStep`,
which rests on the timeout that `MailService` puts on a call; without it
(`NoAnswerHangs`) `EveryMailSettles` is false. No fault is fair, and each
behaviour has finitely many.

## Proofs

All theorems are about the same definitions the runs check, for any sets of
users, events, handlers, workers and any limits.

**BillingProofs**, *the webhook.* Exclusive processing is not inductive: it needs to know
why a row cannot disappear under a request. `IInv` says that a request in
progress arrived inside the event's retry window and saw at most one midnight
(`RequestInv`); that a request which processes an event owns a row at least as
young as the request (`HolderInv`); and that a finished event keeps its row for
longer than Stripe redelivers it (`EventInv`). The cron then only takes rows
nobody can still need, from the one assumption `RetryDays < RetentionDays`
(Stripe retries for about three days, `RETENTION_DAYS` is 30). Proved from it:
`Invariance`, `Exclusive`, `OneMail`, `MailAfterUpdate`, `Final` (an action
property) and `Refinement`, that the webhook implements `EventClaim`: every step
is a claim, a release, a finish or a stutter. `NotBurned` and
`AppliedOnce` rest on `DoubtInv`, for any faults: a row, and an answer of 2xx,
stands for finished work, for a request that is at it, or for a doubt (`RowInv`);
and a request about to update finds no write but the unacknowledged ones
(`WriteInv`).

**BillingProofs**, *billing.* Billing writes the rows the webhook is about to write, without a
lock, so neither's invariant is obviously safe from the other. `WebhookPart` says
what a step of the composition may do to the webhook: a step of its own, any
event sent, or a change of accounts alone; each keeps `IInv`. Conversely
`BillingInv` adds that whoever is linked to a customer is the user it was created
for (`LinkInv`), that a request has only its user's customer in hand (`SlotInv`),
and that the webhook found the user of the event's customer (`CreditInv`, which is
still true after the account was linked to another one). Proved from the two
together: `BillingInvariance`, `BillingTypeCorrect`, `CustomersAreSeparate` (what
`StripeWebhook`'s `Init` takes for granted of the table of accounts), `OnlyOwn` (an
action property), `ClaimWhileBilling` (the webhook still implements `EventClaim`),
`NotBurnedWhileBilling` and `AppliedOnceWhileBilling`.

`PlanFollows` is about a state at rest, and says nothing of the way there. What is
inductive is `FollowInv`: the plan a user *ends up with* (`Finally`: what the last
event still to be written says, be it unsent, unanswered or under way, or else the
plan as it is) is the one the subscription entitles to, at every moment. Around it,
`CustomerInv` and `SubscriptionInv` say that the customer of a request and of a
subscription stays the one its user is linked to, at a paid price, and `OrderInv`
that an event is handled when all before it are done. `Orderly` collects what is
assumed of the world: calls that fail are rejected, Stripe delivers in order, and
the first line of an invoice is the charge. The theorem holds of behaviours where
a user waits for an answer before the next request (`[]OneRequestPerUser`), which
is sharp: `billing_race` is the violation by two requests at a time. Users who
paid twice (`twice`) are left out by the property itself.

**AgentRunsProofs.** No premise on locks is made. A worker that holds the lock of
its run's job finds nobody else writing the run between its status check and
`finish`; one that lost it may write anything, which `reopened` and `stray`
remember (`LockInv`, `WorkerInv`, `JobInv`). A request owns its run until the job is
queued (`RequestInv`); the loop counters stay below their limits (`LoopInv`). Proved
from it: `Invariance`, `TypeCorrect`, `Watching`, `OneRun`, `Final` (an action
property) and `Refinement`: rows, queue, workers and failure handlers implement
`RunPromise`, where a question is accepted once per key and within the quota, and
answered once, unless the promise of its run is void (`Void`), which a worker
without its lock makes it. `QuotaInv` is what the quota needs: the requests that
passed the count are taken as if each had inserted its run, so the quota is
exceeded by at most the requests in progress less one (`Allowance`), which
`agent_safety` reaches.

**CategorizationProofs.** No premise on locks is needed here: the code defends
itself at the write. `RequestInv` and `WorkerInv` say what is still true of a
validation when its write comes (the owner of a row never changes; the category
may be gone, which the foreign key catches), `RowInv` that a category in the
column exists and is its user's, `JobInv` that a waiting or active job has attempts
left. Proved from it: `Invariance`, `TypeCorrect`, `Own`, `Fits` and
`NeverOverwrites` (an action property: only the conditional update writes for the
model).

**SessionsProofs.** That a session has one token is not inductive: `UseInv` adds
that a request which uses a token of a session leaves it no other, until it has
deleted it. For `SessionSurvives`, `SurvivalInv` says that the good token is the
last of its session to expire, so the clean-up, which takes expired ones, leaves
either that or a session that is over anyway. For `StaleRoleEnds`, `RoleInv`
follows a role from the row to `seen`, `jwt` and `access`: it was the row's when
it was read, no request sees two ticks, hence the slack of one. Proved:
`Invariance`, `TypeCorrect`, `OneToken`, `Survival`, `StaleRole`. The proof shows
why `overlapped` is needed in the one and `broken` in the other.

**MailQueueProofs.** `CopiesInv` counts, per mail, the copies that were sent, are
being sent and may have to be sent: all but one are paid for by a doubt. `LockInv`
and `WorkerInv` make a lock mean what it says, `SentInv` that neither a worker nor
BullMQ counts as sent what was not accepted. Proved: `Invariance`, `TypeCorrect`,
`NoNeedless`, and `Refinement`: under `MailEnabled` the queue implements
`Mailbox` (with `MAIL_ENABLED=false` jobs complete and nothing is sent). `Workers`
is assumed finite, for the counting.

**EmailChangeProofs.** `RequestInv` ties a request to the link it carries,
`PendingInv` the pending address to what its link was asked for, `MailInv` every
mail with a link to the address of that link, and `FollowInv` says that while a
link is followed its account has no other that must stay good. Proved:
`Invariance`, `TypeCorrect`, `UniqueAddresses`, `GoodLink`, `ProvedAddress` (an
action property).

**EducationProofs.** Limits are about cardinalities: `LimitsHold` counts the rows
together with the requests that will insert one, which makes it inductive (a
request passes the count only below the limit, and there are `Requests` of them).
`QuestionsInv` and `AnsweredInv` do the same for questions and their rows,
`CallInv` says that a question calls the model once. `LimitRequestInv` and `AgeInv`
are for `ReadOnlyIsKept`: a new account is younger than any other, so opening
or deleting accounts never makes an active one read-only. `FinitenessAssumption`
(finitely many requests, accounts and transactions) is what counting needs. For `SpendIsBounded`,
`PaidInv` says that what was paid is in a row of the ledger, lost or never computed
(`Unseen`), or in the hands of a request about to record it; `BudgetInv`, that it stays in bounds even if every
request goes on to spend all it may (a call starts only below the ceiling, as far
as the rows tell). What requests hold is the cardinality of a set of pairs
(`Units`: a request, and a number up to what it holds), since the provers have no
induction for a sum. Proved: `Invariance`, `TypeCorrect`, `LimitsKept`, `Quota`,
`Spending`, `Corpus`, `ReadOnly` (an action property).

**ReadsProofs.** The invariants of the two pure modules are modest. `ReadsInv`: the
rows are finitely many, whole, and of accounts and categories of their user that
exist (whatever write comes, an account takes its rows along and a category
leaves none). `ChunkInv`: the loop works on the paragraphs of one page, the chunks
of earlier pages are behind it, the page has a chunk only with more to come, and
the property holds. The work is in the data, of any size. The library's induction
theorems take an operator as a parameter, so induction is stated here for sets
instead (`NatSet`, `SubsetInduction`: a collection of subsets of a finite set that
has each one whose smaller ones it has, has all), and `SetRecursion` shows from it
that the recursive function inside the library's folds exists, and what it
returns. From there:

- *sums*: a sum does not depend on the order in which the fold picks, splits over
  a partition, and changes by half a cent at most when a part is rounded;
- *totals*: the groups of any key partition the rows read, and the filter reads
  those of the days asked for (`WholeDays`, `ReadsWanted`);
- *pages*: with `l` rows a page, the lengths of `(n + l - 1) div l` pages add up to
  `n`, and the half-open month has the rows of the closed range of its days;
- *searches*: a listing by a key exists for every finite set (by its least key),
  and what is cut from the front of it has no key below those left out;
- *balances*: the accounts of a user partition the user's rows;
- *chunks*: flattening after an append is a concatenation (`FlattenAppend`), and a
  paragraph that moves from those to come to the last chunk, or opens one behind
  the overlap, is neither lost nor repeated (`Grows`, `Opens`, `Continues`).

Proved: `TotalsCorrect`, `ListsCorrect` and `ChunksCorrect`, the invariants of
`reads`. What is assumed of the constants is what the modules assume for TLC.

**Only model-checked:** the liveness properties (`EventuallyProcessed`,
`PaymentIsHonoured`, `EveryRunSettles`, `EveryMailSettles`), which TLAPS cannot
prove, since it has no rule for fairness and `ENABLED`. Each invariant and each
action property of a passing run, and each refinement, is a theorem as well;
where a theorem needs a premise (`Orderly`, `MailEnabled`), it is named above.

## Findings

- *Two customers* (`billing_race`). A paid sign-up and `POST /billing/setup`
  each find no customer and create one; the later `update` hides the one that
  was subscribed, and the webhook finds no user for its invoices.
- *Immediate downgrades* (`billing_downgrade`). `src/README.md:140`: change-plan
  "applies downgrades at period end (`none`)". `proration_behavior: 'none'`
  (`billing.service.ts:144`) only leaves the invoice out; the price changes at
  once, Stripe says so, and `billing.webhook.ts:148` lowers `user.plan` in the
  middle of the period. `PlanFollowsSubscription` says what the code does instead.

## Known behaviours

What the models also show, and no run records, because the document it departs
from is loose about it or the property leaves the case out by name:

- *Burned event.* The comment at `billing.webhook.ts:59` says that "a real
  processing failure must not burn the event". Stripe times out on attempt 1 while
  it is processing; attempt 2 finds the row and is acknowledged as a duplicate;
  attempt 1 then fails and unregisters the event. Stripe considers it delivered
  and nobody processes it. A failed compensation burns the event too (the comment
  accepts that), and so do a crash between the insert and the end, and an insert
  whose acknowledgement is lost. `BurnedOnlyInDoubt` names these four and is
  checked and proved under all faults; without `\cup doubted` it is violated in
  `webhook_safety`.
- *Plan applied twice.* `src/README.md:144` says that redelivery "never applies a
  plan change twice", and the failure matrix of the idempotency design
  (`docs/superpowers/specs/2026-07-16-stripe-webhook-idempotency-design.md:86`)
  "One plan update, one email job, ever". When the update commits and its
  acknowledgement is lost, the handler unregisters the event and the retry writes
  the plan again: the same values, unless the account changed in between.
  `AppliedAgainOnlyInDoubt` allows one more write for each such update; without
  `unacked` it is violated in `webhook_safety`.
- *Stuck run.* When `markFailed` throws (`agent.processor.ts:42`), `onFailed` logs
  it and the run stays RUNNING. The properties let such runs off (`dropped`).
- *Overwritten run.* `markRunning` and `finish` write without looking at the
  status, so a worker that lost its lock after its check reopens or overwrites a
  run that another worker finished, where `run-agent.service.ts:194` and `:239`
  mean a finished run to be left as it is. `OverwrittenOnlyAfterStall` says that
  nothing else does; without `Strayed` it is violated in `agent_safety`.
- *Underestimated cost.* A Haiku prompt above 100K tokens is billed at a dearer
  card than the one that is recorded (`llm-pricing.ts:13`, `llm.service.ts:14`; a
  warning is logged), so the daily ceiling is compared with less than was spent.
  `SpendIsBounded` adds the difference (`underestimated`) to its bound.
- *Two subscriptions.* A user who subscribes twice is charged for both (`twice`).
- *A category of the wrong type.* The model's answer is validated against the
  transaction's type as it was read before the model was asked; the theorem `Fits`
  says that this is the only way to one.
- *Read-only accounts.* An update may move a transaction into an account that is
  read-only on the plan (`transactions.service.ts:85`), although
  `mail.service.ts:86` announces "modo somente leitura"; only creation asks.
- *Long chunks.* A chunk below `MIN_CHUNK_WORDS` takes the next paragraph whole,
  so it may exceed `MAX_CHUNK_WORDS`, which `chunking.ts:62` calls a limit.
- *Pages.* `page` and `limit` are any integers (`transactions.controller.ts:80`),
  and the query has no order, so Postgres may repeat a row on two pages.

## Not modelled

Stripe's reordering of events and the order of a proration invoice's lines
(constants `InOrder` and `FirstLines` are there; the code has nothing to defend
with, so only the good order is checked); `past_due` and dunning apart from its
end; deleted Stripe customers; account deletion together with billing
(`StripeWebhook` has it without subscriptions). The polling endpoint and the
purge of runs by account deletion in `AgentRuns`. The change of a name or an
avatar of a user, or of the name and icon of a category: one write each. Prompts,
embeddings, similarity and the text of answers. Wiring, logging, metrics,
validation of bodies, templates, tracing and storage. The evaluation scripts (`src/evals`), which run offline on
files.

## What is left

1. Account deletion with a live subscription, and the paid sign-up under
   `BILLING_ENABLED=false`, in `Billing`.
2. Stripe's reordering, with the properties the code could keep if it stored the
   time of the event it applied.
