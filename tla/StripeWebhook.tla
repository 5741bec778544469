---------------------------- MODULE StripeWebhook ----------------------------
(***************************************************************************)
(* Stripe's at-least-once delivery of events and the handler that consumes *)
(* them (BillingWebhookHandler, StripeEventsRepository, the clean-up cron).*)
(*                                                                         *)
(* A handler is one HTTP request; every await of the code is the boundary  *)
(* between two steps, so handlers of different deliveries interleave there.*)
(* Stripe is external: it delivers an event until one attempt is answered  *)
(* with 2xx, for at most RetryDays, and stops waiting for an attempt that  *)
(* takes too long, which the handler does not notice.                      *)
(***************************************************************************)
EXTENDS Naturals, Plans

CONSTANTS
    Users,
    Customers,      \* Stripe customer ids
    NoUser, NoCustomer,
    Events,         \* event ids
    Payloads,       \* the contents an event may have
    Handlers,       \* webhook requests that can be in progress at once
    NoEvent,
    RetryDays,      \* days for which Stripe redelivers an unanswered event
    RetentionDays,  \* RETENTION_DAYS of the clean-up cron
    FaultKinds,     \* the kinds of fault that may happen ...
    MaxFaults,      \* ... and how many of them in a behaviour
    MaxDay          \* bound on the clock

EventTypes == {"invoice.payment_succeeded", "customer.subscription.deleted",
               "customer.subscription.updated", "other"}

\* active: subscription.status is active and cancel_at_period_end is off
Payload == [type: EventTypes, customer: Customers \cup {NoCustomer},
            price: Price \cup {NoPrice}, active: BOOLEAN]

\* "rejected": a database call fails and has no effect.  "lost_ack": it commits
\* and its caller gets an error.  "queue": Redis refuses the mail job.
Faults == {"rejected", "lost_ack", "unregister", "queue", "timeout", "crash"}

ASSUME PayloadsAssumption == Payloads \subseteq Payload
ASSUME NoEventAssumption == NoEvent \notin Events
ASSUME NoUserAssumption == NoUser \notin Users
ASSUME NoCustomerAssumption == NoCustomer \notin Customers
ASSUME FaultsAssumption == FaultKinds \subseteq Faults /\ MaxFaults \in Nat
ASSUME DaysAssumption == RetryDays \in Nat /\ RetentionDays \in Nat /\ MaxDay \in Nat

\* What makes 30 days of history enough: a request outlives at most one
\* midnight, and Stripe's last attempt starts within RetryDays.
ASSUME RetentionAssumption == RetryDays < RetentionDays

VARIABLES
    \* Stripe
    payload,       \* the content of each event
    outbox,        \* "unsent", "pending" or "delivered"
    emittedAt,     \* day of the first attempt
    awaiting,      \* whether Stripe still waits for the answer of a handler
    \* Postgres
    registered,    \* event ids in processed_stripe_events ...
    processedAt,   \* ... and the day of the row
    users,         \* users that exist
    plan, stripePriceId, stripeCustomerId,
    \* the webhook requests
    pc, event,
    since,         \* day on which the request arrived
    user, read,    \* the user it found, and user.plan as it read it
    \* the environment
    day, faults,
    \* history
    writes,        \* committed plan updates of each event
    jobs,          \* mail jobs enqueued for each event
    completed,     \* events a handler carried through to the end
    unacked,       \* updates of each event that committed with an error for the handler
    doubted        \* events with a row that stood, or may stand, for no finished work

stripeVars == <<payload, outbox, emittedAt>>
table == <<registered, processedAt>>
accounts == <<users, plan, stripePriceId, stripeCustomerId>>
doubts == <<unacked, doubted>>
history == <<writes, jobs, completed, doubts>>
attempt == <<awaiting, event, since>>
found == <<user, read>>
requests == <<pc, attempt, found>>
vars == <<stripeVars, table, accounts, requests, day, faults, history>>

\* Between the insert of the event and the end of its processing.
Holding == {"find", "update", "notify", "unregister"}
Labels == {"idle", "register", "ack", "nack"} \cup Holding

TypeOK ==
    /\ payload \in [Events -> Payload]
    /\ outbox \in [Events -> {"unsent", "pending", "delivered"}]
    /\ emittedAt \in [Events -> Nat]
    /\ awaiting \in [Handlers -> BOOLEAN]
    /\ registered \in SUBSET Events
    /\ processedAt \in [Events -> Nat]
    /\ users \in SUBSET Users
    /\ plan \in [Users -> Plan]
    /\ stripePriceId \in [Users -> Price \cup {NoPrice}]
    /\ stripeCustomerId \in [Users -> Customers \cup {NoCustomer}]
    /\ pc \in [Handlers -> Labels]
    /\ event \in [Handlers -> Events \cup {NoEvent}]
    /\ since \in [Handlers -> Nat]
    /\ user \in [Handlers -> Users \cup {NoUser}]
    /\ read \in [Handlers -> Plan]
    /\ day \in Nat
    /\ faults \in 0..MaxFaults
    /\ writes \in [Events -> Nat]
    /\ jobs \in [Events -> Nat]
    /\ completed \in SUBSET Events
    /\ unacked \in [Events -> Nat]
    /\ doubted \in SUBSET Events

Blank == [type |-> "other", customer |-> NoCustomer, price |-> NoPrice, active |-> FALSE]

\* stripe_customer_id is unique.
UniqueCustomers ==
    \A u, v \in Users : stripeCustomerId[u] = stripeCustomerId[v] =>
        u = v \/ stripeCustomerId[u] = NoCustomer

\* No event was sent and no request is in progress.
NothingSent ==
    /\ payload = [e \in Events |-> Blank]
    /\ outbox = [e \in Events |-> "unsent"]
    /\ emittedAt = [e \in Events |-> 0]
    /\ awaiting = [h \in Handlers |-> FALSE]
    /\ registered = {}
    /\ processedAt = [e \in Events |-> 0]
    /\ pc = [h \in Handlers |-> "idle"]
    /\ event = [h \in Handlers |-> NoEvent]
    /\ since = [h \in Handlers |-> 0]
    /\ user = [h \in Handlers |-> NoUser]
    /\ read = [h \in Handlers |-> "FREE"]
    /\ day = 0
    /\ faults = 0
    /\ writes = [e \in Events |-> 0]
    /\ jobs = [e \in Events |-> 0]
    /\ completed = {}
    /\ unacked = [e \in Events |-> 0]
    /\ doubted = {}

Init ==
    /\ NothingSent
    /\ users = Users
    /\ plan \in [Users -> Plan \ {"ADMINISTRATOR"}]
    /\ stripePriceId = [u \in Users |-> NoPrice]
    /\ stripeCustomerId \in [Users -> Customers \cup {NoCustomer}]
    /\ UniqueCustomers

------------------------------------------------------------------------------
(* Helpers *)

Fault(kind) ==
    /\ kind \in FaultKinds
    /\ faults < MaxFaults
    /\ faults' = faults + 1

NoFault == UNCHANGED faults

Goto(h, label) == pc' = [pc EXCEPT ![h] = label]

Holds(h, e) == pc[h] \in Holding /\ event[h] = e

\* The handler returns without an exception.
Complete(h) ==
    /\ Goto(h, "ack")
    /\ completed' = completed \cup {event[h]}

\* Faulty variant: customer.subscription.updated is not subscribed to.
NeedsUserNoUpdates(p) ==
    /\ p.type \in {"invoice.payment_succeeded", "customer.subscription.deleted"}
    /\ p.customer # NoCustomer

\* The guards that return before the user is looked up.
NeedsUser(p) ==
    /\ p.type # "other"
    /\ p.customer # NoCustomer
    /\ p.type = "customer.subscription.updated" => p.active

findByStripeCustomerId(c) == {u \in users : stripeCustomerId[u] = c}

\* The guards after it: without a user, or without a price where one is
\* needed, there is nobody to update.
UsersToUpdate(p) ==
    IF p.type # "customer.subscription.deleted" /\ p.price = NoPrice
    THEN {} ELSE findByStripeCustomerId(p.customer)

\* Faulty variant: the price id is stored as the plan.
newPlanUnmapped(p) == p.price

newPlan(p) == IF p.type = "customer.subscription.deleted"
              THEN "FREE" ELSE planFromPriceId(p.price)

newPriceId(p, old) ==
    CASE p.type = "customer.subscription.deleted" -> NoPrice
      [] p.type = "customer.subscription.updated" -> p.price
      [] OTHER -> old

SendsMail(p, oldPlan) ==
    \/ p.type = "customer.subscription.deleted"
    \/ isDowngrade(oldPlan, newPlan(p))

------------------------------------------------------------------------------
(* Stripe *)

Emit(e, p) ==
    /\ outbox[e] = "unsent"
    /\ outbox' = [outbox EXCEPT ![e] = "pending"]
    /\ payload' = [payload EXCEPT ![e] = p]
    /\ emittedAt' = [emittedAt EXCEPT ![e] = day]
    /\ UNCHANGED <<table, accounts, requests, day, faults, history>>

\* An attempt starts once the previous one was answered or timed out.
Deliver(e, h) ==
    /\ outbox[e] = "pending"
    /\ day <= emittedAt[e] + RetryDays
    /\ pc[h] = "idle"
    /\ \A g \in Handlers : awaiting[g] => event[g] # e
    /\ Goto(h, "register")
    /\ event' = [event EXCEPT ![h] = e]
    /\ awaiting' = [awaiting EXCEPT ![h] = TRUE]
    /\ since' = [since EXCEPT ![h] = day]
    /\ UNCHANGED <<stripeVars, table, accounts, found, day, faults, history>>

\* Stripe gives up on an attempt; the handler keeps running.
TimeOut(h) ==
    /\ awaiting[h]
    /\ Fault("timeout")
    /\ awaiting' = [awaiting EXCEPT ![h] = FALSE]
    /\ UNCHANGED <<stripeVars, table, accounts, pc, event, since, found, day, history>>

------------------------------------------------------------------------------
(* handle *)

\* A duplicate is acknowledged even while another request still processes the event.
RegisterDuplicate(h) ==
    /\ pc[h] = "register"
    /\ event[h] \in registered
    /\ Goto(h, "ack")
    /\ doubted' = doubted \cup {e \in {event[h]} : \E g \in Handlers : Holds(g, e)}
    /\ UNCHANGED <<stripeVars, table, accounts, attempt, found, day, faults,
                   writes, jobs, completed, unacked>>

\* Faulty variant: an upsert, which never reports a duplicate.
InsertRowUpsert(h) ==
    /\ registered' = registered \cup {event[h]}
    /\ processedAt' = [processedAt EXCEPT ![event[h]] = day]

InsertRow(h) ==
    /\ event[h] \notin registered
    /\ registered' = registered \cup {event[h]}
    /\ processedAt' = [processedAt EXCEPT ![event[h]] = day]

RegisterNew(h) ==
    /\ pc[h] = "register"
    /\ InsertRow(h)
    /\ IF NeedsUser(payload[event[h]])
       THEN Goto(h, "find") /\ UNCHANGED completed
       ELSE Complete(h)
    /\ UNCHANGED <<stripeVars, accounts, attempt, found, day,
                   faults, writes, jobs, doubts>>

\* register is outside the try block: its error is answered with no compensation.
RegisterFails(h) ==
    /\ pc[h] = "register"
    /\ \/ Fault("rejected") /\ UNCHANGED <<table, doubted>>
       \/ Fault("lost_ack") /\ InsertRow(h) /\ doubted' = doubted \cup {event[h]}
    /\ Goto(h, "nack")
    /\ UNCHANGED <<stripeVars, accounts, attempt, found, day,
                   writes, jobs, completed, unacked>>

FindUser(h) ==
    /\ pc[h] = "find"
    /\ LET matches == UsersToUpdate(payload[event[h]]) IN
       \/ \E u \in matches :
              /\ Goto(h, "update")
              /\ user' = [user EXCEPT ![h] = u]
              /\ read' = [read EXCEPT ![h] = plan[u]]
              /\ UNCHANGED completed
       \/ matches = {} /\ Complete(h) /\ UNCHANGED found
    /\ UNCHANGED <<stripeVars, table, accounts, attempt, day,
                   faults, writes, jobs, doubts>>

FindUserFails(h) ==
    /\ pc[h] = "find"
    /\ Fault("rejected")
    /\ Goto(h, "unregister")
    /\ UNCHANGED <<stripeVars, table, accounts, attempt, found, day, history>>

\* One UPDATE of the row the handler found.
WriteUser(h) ==
    LET u == user[h]
        p == payload[event[h]]
    IN
    /\ u \in users
    /\ plan' = [plan EXCEPT ![u] = newPlan(p)]
    /\ stripePriceId' = [stripePriceId EXCEPT ![u] = newPriceId(p, @)]
    /\ writes' = [writes EXCEPT ![event[h]] = @ + 1]

UpdateUser(h) ==
    /\ pc[h] = "update"
    /\ WriteUser(h)
    /\ IF SendsMail(payload[event[h]], read[h])
       THEN Goto(h, "notify") /\ UNCHANGED completed
       ELSE Complete(h)
    /\ UNCHANGED <<stripeVars, table, users, stripeCustomerId, attempt, found, day,
                   faults, jobs, doubts>>

\* The update throws: the user is gone (P2025), or the database failed.
UpdateUserFails(h) ==
    /\ pc[h] = "update"
    /\ \/ /\ user[h] \notin users
          /\ NoFault
          /\ UNCHANGED <<plan, stripePriceId, writes, unacked>>
       \/ Fault("rejected") /\ UNCHANGED <<plan, stripePriceId, writes, unacked>>
       \/ /\ Fault("lost_ack")
          /\ WriteUser(h)
          /\ unacked' = [unacked EXCEPT ![event[h]] = @ + 1]
    /\ Goto(h, "unregister")
    /\ UNCHANGED <<stripeVars, table, users, stripeCustomerId, attempt, found, day,
                   jobs, completed, doubted>>

\* Faulty variant: the mail is sent in the handler and its failure thrown.
NotifyThrows(h) ==
    /\ pc[h] = "notify"
    /\ \/ /\ NoFault
          /\ jobs' = [jobs EXCEPT ![event[h]] = @ + 1]
          /\ Complete(h)
       \/ Fault("rejected") /\ Goto(h, "unregister") /\ UNCHANGED <<jobs, completed>>
    /\ UNCHANGED <<stripeVars, table, accounts, attempt, found, day, writes, doubts>>

\* Enqueueing never throws: a refused job is logged and lost.
Notify(h) ==
    /\ pc[h] = "notify"
    /\ \/ NoFault /\ jobs' = [jobs EXCEPT ![event[h]] = @ + 1]
       \/ Fault("queue") /\ UNCHANGED jobs
    /\ Complete(h)
    /\ UNCHANGED <<stripeVars, table, accounts, attempt, found, day, writes, doubts>>

\* Faulty variant: the error is answered without the compensation.
UnregisterForgotten(h) ==
    /\ pc[h] = "unregister"
    /\ NoFault
    /\ Goto(h, "nack")
    /\ UNCHANGED <<stripeVars, table, accounts, attempt, found, day, history>>

\* The compensation; its own failure is only logged.
Unregister(h) ==
    /\ pc[h] = "unregister"
    /\ \/ /\ NoFault
          /\ registered' = registered \ {event[h]}
          /\ UNCHANGED doubted
       \/ /\ Fault("unregister")
          /\ UNCHANGED registered
          /\ doubted' = doubted \cup {event[h]}
    /\ Goto(h, "nack")
    /\ UNCHANGED <<stripeVars, processedAt, accounts, attempt, found, day,
                   writes, jobs, completed, unacked>>

Free(h) ==
    /\ Goto(h, "idle")
    /\ event' = [event EXCEPT ![h] = NoEvent]
    /\ awaiting' = [awaiting EXCEPT ![h] = FALSE]
    /\ since' = [since EXCEPT ![h] = 0]
    /\ user' = [user EXCEPT ![h] = NoUser]
    /\ read' = [read EXCEPT ![h] = "FREE"]

\* The answer: Stripe ignores the one it no longer waits for.
Respond(h) ==
    /\ pc[h] \in {"ack", "nack"}
    /\ IF pc[h] = "ack" /\ awaiting[h]
       THEN outbox' = [outbox EXCEPT ![event[h]] = "delivered"]
       ELSE UNCHANGED outbox
    /\ Free(h)
    /\ UNCHANGED <<payload, emittedAt, table, accounts, day, faults, history>>

------------------------------------------------------------------------------
(* The environment *)

\* The process dies: every request in progress is lost, Stripe sees a failure.
Crash ==
    /\ \E h \in Handlers : pc[h] # "idle"
    /\ Fault("crash")
    /\ pc' = [h \in Handlers |-> "idle"]
    /\ event' = [h \in Handlers |-> NoEvent]
    /\ awaiting' = [h \in Handlers |-> FALSE]
    /\ since' = [h \in Handlers |-> 0]
    /\ user' = [h \in Handlers |-> NoUser]
    /\ read' = [h \in Handlers |-> "FREE"]
    /\ doubted' = doubted \cup {e \in Events : \E h \in Handlers : Holds(h, e)}
    /\ UNCHANGED <<stripeVars, table, accounts, day, writes, jobs, completed, unacked>>

\* A request outlives at most one midnight.
Midnight ==
    /\ day < MaxDay
    /\ \A h \in Handlers : pc[h] # "idle" => since[h] = day
    /\ day' = day + 1
    /\ UNCHANGED <<stripeVars, table, accounts, requests, faults, history>>

\* Faulty variant: every row of an earlier day is pruned.
ExpiredOvernight(e) == processedAt[e] < day

Expired(e) == processedAt[e] + RetentionDays < day

deleteOlderThan ==
    /\ \E e \in registered : Expired(e)
    /\ registered' = {e \in registered : ~Expired(e)}
    /\ UNCHANGED <<stripeVars, processedAt, accounts, requests, day, faults, history>>

\* DELETE of an account, from elsewhere in the API.
DeleteUser(u) ==
    /\ u \in users
    /\ users' = users \ {u}
    /\ UNCHANGED <<stripeVars, table, plan, stripePriceId, stripeCustomerId, requests, day, faults, history>>

Handle(h) ==
    \/ RegisterDuplicate(h) \/ RegisterNew(h) \/ RegisterFails(h)
    \/ FindUser(h) \/ FindUserFails(h)
    \/ UpdateUser(h) \/ UpdateUserFails(h)
    \/ Notify(h) \/ Unregister(h) \/ Respond(h)

Next ==
    \/ \E e \in Events, p \in Payloads : Emit(e, p)
    \/ \E e \in Events, h \in Handlers : Deliver(e, h)
    \/ \E h \in Handlers : TimeOut(h)
    \/ \E h \in Handlers : Handle(h)
    \/ Crash
    \/ Midnight
    \/ deleteOlderThan
    \/ \E u \in Users : DeleteUser(u)

Spec == Init /\ [][Next]_vars

\* Node keeps running a request once it arrived, and Stripe redelivers.
FairSpec ==
    /\ Spec
    /\ \A h \in Handlers : WF_vars(Handle(h))
    /\ \A e \in Events : WF_vars(\E h \in Handlers : Deliver(e, h))

------------------------------------------------------------------------------
(* Properties *)

\* The table implements the abstract claim: who holds an event, and what
\* finishing it means, read off the requests.
holdersOf == [e \in Events |-> {h \in Handlers : Holds(h, e)}]

Claim == INSTANCE EventClaim WITH holders <- holdersOf, done <- completed

\* Every delivery, failure, crash and clean-up is a step of EventClaim.
ClaimSpec == Claim!Spec

\* No two deliveries of one event are ever processed at the same time: the
\* unique constraint on eventId is an exclusive claim.
ExclusiveProcessing ==
    \A g, h \in Handlers : \A e \in Events : Holds(g, e) /\ Holds(h, e) => g = h

\* One event puts at most one mail job in the queue, whatever is redelivered,
\* fails, crashes or is pruned in between.
OneMailJobPerEvent == \A e \in Events : jobs[e] <= 1

\* Once an event was carried through to the end, no later delivery of it writes
\* the account or sends mail again, even after the cron pruned its row.
CompletedIsFinal ==
    [][\A e \in completed : writes'[e] = writes[e] /\ jobs'[e] = jobs[e]]_vars

\* A mail is about a plan change that is in the database.
MailFollowsUpdate == \A e \in Events : jobs[e] > 0 => writes[e] > 0

\* The one way an event that Stripe considers delivered may go unprocessed: its row
\* outlived the request that inserted it, because the process died, the insert's
\* acknowledgement was lost or the compensating delete failed, or a redelivery was
\* acknowledged as a duplicate while the timed-out attempt still ran and could yet
\* fail.  Without such a doubt no failure of processing burns the event; with one
\* the handler does, against the comment in its code.
BurnedOnlyInDoubt ==
    \A e \in Events : outbox[e] = "delivered" => e \in completed \cup doubted

\* Redelivery applies a plan change again only after an update that committed was
\* reported to the handler as failed: once more for each, and never because of a
\* failure before the update, a failed mail, a crash or the clean-up.
AppliedAgainOnlyInDoubt == \A e \in Events : writes[e] <= 1 + unacked[e]

\* Every event Stripe sends is eventually processed, unless Stripe's retry
\* window closes first.
EventuallyProcessed ==
    \A e \in Events : (outbox[e] = "pending")
        ~> (e \in completed \/ day > emittedAt[e] + RetryDays)
------------------------------------------------------------------------------
(* The inductive invariant *)

Active(h) == pc[h] # "idle"

\* A request in progress carries an event that Stripe sent, arrived inside the
\* retry window and saw at most one midnight.
RequestInv ==
    \A h \in Handlers :
        /\ ~Active(h) => event[h] = NoEvent /\ ~awaiting[h]
        /\ Active(h) =>
               /\ event[h] \in Events
               /\ outbox[event[h]] # "unsent"
               /\ emittedAt[event[h]] <= since[h]
               /\ since[h] <= emittedAt[event[h]] + RetryDays
               /\ since[h] <= day
               /\ day <= since[h] + 1

\* A request that processes an event owns its row, which is too young for the
\* cron, and the event is not finished.
HolderInv ==
    \A h \in Handlers : pc[h] \in Holding =>
        /\ event[h] \in registered
        /\ event[h] \notin completed
        /\ since[h] <= processedAt[event[h]]
        /\ pc[h] = "update" => user[h] \in Users
        /\ pc[h] = "notify" => writes[event[h]] > 0

\* A finished event keeps its row for longer than Stripe can redeliver it.
EventInv ==
    \A e \in Events :
        /\ IF outbox[e] = "unsent"
           THEN e \notin registered /\ e \notin completed
           ELSE emittedAt[e] <= day
        /\ e \in registered => emittedAt[e] <= processedAt[e]
        /\ e \in completed => e \in registered \/ day > emittedAt[e] + RetentionDays
        /\ e \notin completed => jobs[e] = 0

\* What makes the claim exclusive and a finished event final: the row outlives
\* every request that could still bring its event.
IInv ==
    /\ TypeOK
    /\ RequestInv
    /\ HolderInv
    /\ EventInv
    /\ ExclusiveProcessing
    /\ OneMailJobPerEvent
    /\ MailFollowsUpdate

\* An acknowledged event, and a row, stands for finished work, for a request that
\* is at it, or for a doubt.
RowInv ==
    /\ BurnedOnlyInDoubt
    /\ \A h \in Handlers : pc[h] = "ack" => event[h] \in completed \cup doubted
    /\ \A e \in registered : e \in completed \cup doubted \/ \E h \in Handlers : Holds(h, e)

\* A request about to update finds no write but the unacknowledged ones; after one
\* more, the row keeps every later delivery out.
WriteInv ==
    /\ AppliedAgainOnlyInDoubt
    /\ \A h \in Handlers : pc[h] \in {"find", "update", "unregister"} =>
           writes[event[h]] <= unacked[event[h]]
    /\ \A e \in Events :
           /\ outbox[e] = "unsent" => writes[e] = 0
           /\ writes[e] > unacked[e] =>
                  e \in registered \/ day > emittedAt[e] + RetentionDays

DoubtInv == RowInv /\ WriteInv

\* While Stripe waits for every answer, an event has one request at a time; its row
\* stands for a request that processes it or for its completion, and an update that
\* was written has only the mail ahead of it.
RedeliveryInv ==
    /\ \A h \in Handlers : Active(h) =>
           /\ awaiting[h] /\ outbox[event[h]] = "pending"
           /\ pc[h] = "ack" => event[h] \in completed
    /\ \A g, h \in Handlers : Active(g) /\ Active(h) /\ event[g] = event[h] => g = h
    /\ \A e \in registered : e \in completed \/ \E h \in Handlers : Holds(h, e)
    /\ \A e \in Events :
           /\ outbox[e] = "delivered" => e \in completed
           /\ writes[e] > 0 => e \in completed \/ \E h \in Handlers : pc[h] = "notify" /\ event[h] = e
    /\ \A e \in Events : writes[e] <= 1
==============================================================================
