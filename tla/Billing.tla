------------------------------- MODULE Billing -------------------------------
(***************************************************************************)
(* Self-service billing (BillingService, and the paid sign-up that uses    *)
(* it) composed with the webhook.  The service calls Stripe and stores the *)
(* customer and price ids; what the user gets, user.plan, only follows     *)
(* later, from the events Stripe sends about the subscription.             *)
(*                                                                         *)
(* A slot is one request in progress; every await is a step of its own.    *)
(* Stripe is external: its customers, cards and subscriptions are the      *)
(* state the events are about.                                             *)
(***************************************************************************)
EXTENDS StripeWebhook, Sequences, FiniteSets

CONSTANTS
    Subscriptions, NoSubscription,
    Slots,          \* billing requests that can be in progress at once
    BillingEnabled, \* BILLING_ENABLED is not "false"
    InOrder,        \* whether Stripe delivers events in the order of their creation
    FirstLines,     \* which line of a proration invoice may come first
    MaxEvents       \* bound on the events

Ops == {"setup", "subscribe", "change", "cancel", "signup"}
PaidPlan == {"GOLD", "PLATINUM"}

\* A proration invoice has a credit for the old price and a charge for the new.
Lines == {"credit", "charge"}

ASSUME BillingAssumption ==
    /\ NoSubscription \notin Subscriptions
    /\ BillingEnabled \in BOOLEAN /\ InOrder \in BOOLEAN
    /\ FirstLines \subseteq Lines /\ FirstLines # {}
    /\ MaxEvents \in Nat /\ Events = 1..MaxEvents

VARIABLES
    \* Stripe
    owner,          \* the user a customer was created for
    card,           \* customers with a default payment method
    status,         \* of a subscription: "none", "active" or "canceled"
    subCustomer, subPrice,
    cancelling,     \* cancel_at_period_end
    upcoming,       \* events Stripe is about to send
    \* the billing requests
    opPc, opKind, opUser,
    opPlan,         \* the plan asked for
    opCustomer, opPrice,  \* the ids it read or created
    opSub,
    \* history
    twice           \* users that held two active subscriptions at once

subscriptionVars == <<status, subCustomer, subPrice, cancelling, twice>>
stripeState == <<owner, card, subscriptionVars>>
opData == <<opKind, opUser, opPlan, opCustomer, opPrice, opSub>>
opVars == <<opPc, opData>>
billingVars == <<stripeState, upcoming, opVars>>
webhookVars == <<stripeVars, table, requests, day, history>>
billing == <<billingVars, vars>>

BillingTypeOK ==
    /\ owner \in [Customers -> Users \cup {NoUser}]
    /\ card \in SUBSET Customers
    /\ status \in [Subscriptions -> {"none", "active", "canceled"}]
    /\ subCustomer \in [Subscriptions -> Customers \cup {NoCustomer}]
    /\ subPrice \in [Subscriptions -> Price \cup {NoPrice}]
    /\ cancelling \in [Subscriptions -> BOOLEAN]
    /\ upcoming \in Seq(Payload)
    /\ opPc \in [Slots -> {"idle", "read", "create", "link", "attach", "retrieve",
                           "subscribe", "list", "modify", "save"}]
    /\ opKind \in [Slots -> Ops]
    /\ opUser \in [Slots -> Users \cup {NoUser}]
    /\ opPlan \in [Slots -> Plan]
    /\ opCustomer \in [Slots -> Customers \cup {NoCustomer}]
    /\ opPrice \in [Slots -> Price \cup {NoPrice}]
    /\ opSub \in [Slots -> Subscriptions \cup {NoSubscription}]
    /\ twice \in SUBSET Users

\* Accounts are created by the sign-ups below, without a customer.
BillingInit ==
    /\ NothingSent
    /\ users = {}
    /\ plan = [u \in Users |-> "FREE"]
    /\ stripePriceId = [u \in Users |-> NoPrice]
    /\ stripeCustomerId = [u \in Users |-> NoCustomer]
    /\ owner = [c \in Customers |-> NoUser]
    /\ card = {}
    /\ status = [s \in Subscriptions |-> "none"]
    /\ subCustomer = [s \in Subscriptions |-> NoCustomer]
    /\ subPrice = [s \in Subscriptions |-> NoPrice]
    /\ cancelling = [s \in Subscriptions |-> FALSE]
    /\ upcoming = <<>>
    /\ opPc = [o \in Slots |-> "idle"]
    /\ opKind = [o \in Slots |-> "setup"]
    /\ opUser = [o \in Slots |-> NoUser]
    /\ opPlan = [o \in Slots |-> "FREE"]
    /\ opCustomer = [o \in Slots |-> NoCustomer]
    /\ opPrice = [o \in Slots |-> NoPrice]
    /\ opSub = [o \in Slots |-> NoSubscription]
    /\ twice = {}

------------------------------------------------------------------------------
(* Stripe *)

\* What Stripe creates is bounded by the events that are left for it.
Send(ps) ==
    /\ upcoming' = upcoming \o ps
    /\ Len(upcoming') + Cardinality({e \in Events : outbox[e] # "unsent"}) <= MaxEvents

InvoicePaid(c, price) ==
    [type |-> "invoice.payment_succeeded", customer |-> c, price |-> price, active |-> FALSE]

SubscriptionUpdated(s, price) ==
    [type |-> "customer.subscription.updated", customer |-> subCustomer[s], price |-> price,
     active |-> ~cancelling'[s]]

SubscriptionDeleted(s) ==
    [type |-> "customer.subscription.deleted", customer |-> subCustomer[s],
     price |-> subPrice[s], active |-> FALSE]

IsActive(s) == status[s] = "active"

OwnerOf(s) == owner[subCustomer[s]]

ActiveOf(u) == {s \in Subscriptions : status[s] = "active" /\ OwnerOf(s) = u}

\* The events reach Stripe's outbox one by one.
EmitNext ==
    /\ upcoming # <<>>
    /\ LET unsent == {e \in Events : outbox[e] = "unsent"} IN
       \E e \in unsent :
           /\ \A f \in unsent : e <= f
           /\ Emit(e, Head(upcoming))
    /\ upcoming' = Tail(upcoming)
    /\ UNCHANGED <<stripeState, opVars>>

\* The user completes the set-up of a card with Stripe, which makes it the
\* customer's default, as createSubscription expects.
ConfirmCard(c) ==
    /\ owner[c] # NoUser
    /\ card' = card \cup {c}
    /\ c \notin card
    /\ UNCHANGED <<owner, subscriptionVars, upcoming, opVars, vars>>

\* A period ends: it is renewed, or the cancellation takes effect.
Renew(s) ==
    /\ IsActive(s)
    /\ ~cancelling[s]
    /\ Send(<<InvoicePaid(subCustomer[s], subPrice[s])>>)
    /\ UNCHANGED <<owner, card, status, subCustomer, subPrice, cancelling, twice,
                   opVars, vars>>

\* The last period of a cancelled subscription ended, or dunning failed.
End(s) ==
    /\ IsActive(s)
    /\ Send(<<SubscriptionDeleted(s)>>)
    /\ status' = [status EXCEPT ![s] = "canceled"]
    /\ UNCHANGED <<owner, card, subCustomer, subPrice, cancelling, twice,
                   opVars, vars>>

------------------------------------------------------------------------------
(* BillingService *)

OpGoto(o, label) == opPc' = [opPc EXCEPT ![o] = label]

\* The response, or the exception: nothing of the request is left.
Done(o) ==
    /\ OpGoto(o, "idle")
    /\ opKind' = [opKind EXCEPT ![o] = "setup"]
    /\ opUser' = [opUser EXCEPT ![o] = NoUser]
    /\ opPlan' = [opPlan EXCEPT ![o] = "FREE"]
    /\ opCustomer' = [opCustomer EXCEPT ![o] = NoCustomer]
    /\ opPrice' = [opPrice EXCEPT ![o] = NoPrice]
    /\ opSub' = [opSub EXCEPT ![o] = NoSubscription]

Begin(o, kind, u, wanted) ==
    /\ opPc[o] = "idle"
    /\ OpGoto(o, "read")
    /\ opKind' = [opKind EXCEPT ![o] = kind]
    /\ opUser' = [opUser EXCEPT ![o] = u]
    /\ opPlan' = [opPlan EXCEPT ![o] = wanted]
    /\ UNCHANGED <<opCustomer, opPrice, opSub>>

\* The billing routes, behind BillingEnabledGuard.
Request(o, kind, u, wanted) ==
    /\ BillingEnabled
    /\ u \in users
    /\ kind = "subscribe" => wanted \in PaidPlan
    /\ kind = "change" => wanted # "ADMINISTRATOR"
    /\ kind \in {"setup", "cancel"} => wanted = "FREE"
    /\ Begin(o, kind, u, wanted)
    /\ UNCHANGED <<stripeState, upcoming, vars>>

\* A sign-up, which subscribes at once when a paid plan is asked for.
Signup(o, u, wanted) ==
    /\ u \notin users
    /\ wanted # "ADMINISTRATOR"
    /\ users' = users \cup {u}
    /\ IF wanted = "FREE" THEN UNCHANGED opVars ELSE Begin(o, "signup", u, wanted)
    /\ UNCHANGED <<stripeState, upcoming, webhookVars, plan, stripePriceId,
                   stripeCustomerId, faults>>

\* Faulty variant: the plan's name is sent as the price id.
priceIdForPlanName(wanted) == wanted

priceIdForPlan(wanted) == IF wanted = "GOLD" THEN "price_gold" ELSE "price_platinum"

\* The row the request works with: later steps do not read it again.
FindById(o) ==
    /\ opPc[o] = "read"
    /\ LET c == stripeCustomerId[opUser[o]] IN
       IF c = NoCustomer
       THEN IF opKind[o] \in {"setup", "signup"}
            THEN OpGoto(o, "create") /\ UNCHANGED opData
            ELSE Done(o)
       ELSE IF opKind[o] = "setup" THEN Done(o)
       ELSE /\ OpGoto(o, CASE opKind[o] = "signup" -> "attach"
                           [] opKind[o] = "subscribe" -> "retrieve"
                           [] OTHER -> "list")
            /\ opCustomer' = [opCustomer EXCEPT ![o] = c]
            /\ opPrice' = [opPrice EXCEPT ![o] = stripePriceId[opUser[o]]]
            /\ UNCHANGED <<opKind, opUser, opPlan, opSub>>
    /\ UNCHANGED <<stripeState, upcoming, vars>>

CreateCustomer(o) ==
    /\ opPc[o] = "create"
    /\ \E c \in Customers :
           /\ owner[c] = NoUser
           /\ owner' = [owner EXCEPT ![c] = opUser[o]]
           /\ opCustomer' = [opCustomer EXCEPT ![o] = c]
    /\ OpGoto(o, "link")
    /\ UNCHANGED <<card, subscriptionVars, upcoming, opKind, opUser, opPlan, opPrice,
                   opSub, vars>>

LinkCustomer(o) ==
    /\ opPc[o] = "link"
    /\ stripeCustomerId' = [stripeCustomerId EXCEPT ![opUser[o]] = opCustomer[o]]
    /\ IF opKind[o] = "setup" THEN Done(o) ELSE OpGoto(o, "attach") /\ UNCHANGED opData
    /\ UNCHANGED <<stripeState, upcoming, webhookVars, users, plan, stripePriceId, faults>>

AttachPaymentMethod(o) ==
    /\ opPc[o] = "attach"
    /\ card' = card \cup {opCustomer[o]}
    /\ OpGoto(o, "subscribe")
    /\ UNCHANGED <<owner, subscriptionVars, upcoming, opData, vars>>

RetrieveCustomer(o) ==
    /\ opPc[o] = "retrieve"
    /\ IF opCustomer[o] \in card
       THEN OpGoto(o, "subscribe") /\ UNCHANGED opData
       ELSE Done(o)
    /\ UNCHANGED <<stripeState, upcoming, vars>>

CreateSubscription(o) ==
    /\ opPc[o] = "subscribe"
    /\ LET price == priceIdForPlan(opPlan[o]) IN
       \E s \in Subscriptions :
           /\ status[s] = "none"
           /\ status' = [status EXCEPT ![s] = "active"]
           /\ subCustomer' = [subCustomer EXCEPT ![s] = opCustomer[o]]
           /\ subPrice' = [subPrice EXCEPT ![s] = price]
           /\ Send(<<InvoicePaid(opCustomer[o], price)>>)
    /\ twice' = IF ActiveOf(opUser[o]) = {} THEN twice ELSE twice \cup {opUser[o]}
    /\ OpGoto(o, "save")
    /\ UNCHANGED <<owner, card, cancelling, opData, vars>>

getActiveSubscription(o) ==
    /\ opPc[o] = "list"
    /\ \/ \E s \in Subscriptions :
              /\ IsActive(s)
              /\ subCustomer[s] = opCustomer[o]
              /\ opSub' = [opSub EXCEPT ![o] = s]
              /\ OpGoto(o, "modify")
              /\ UNCHANGED <<opKind, opUser, opPlan, opCustomer, opPrice>>
       \/ /\ \A s \in Subscriptions : IsActive(s) => subCustomer[s] # opCustomer[o]
          /\ Done(o)
    /\ UNCHANGED <<stripeState, upcoming, vars>>

\* cancel, and change-plan to FREE.
CancelAtPeriodEnd(o) ==
    /\ opPc[o] = "modify"
    /\ opPlan[o] = "FREE"
    /\ LET s == opSub[o] IN
       IF IsActive(s) /\ ~cancelling[s]
       THEN /\ cancelling' = [cancelling EXCEPT ![s] = TRUE]
            /\ Send(<<SubscriptionUpdated(s, subPrice[s])>>)
       ELSE UNCHANGED <<cancelling, upcoming>>
    /\ Done(o)
    /\ UNCHANGED <<owner, card, status, subCustomer, subPrice, twice, vars>>

\* An upgrade is told by the price id the request read at its start.
isUpgrade(o) == opPrice[o] = "price_gold" /\ opPlan[o] = "PLATINUM"

\* Stripe takes the new price at once; proration_behavior only decides whether
\* the difference is invoiced.
UpdateSubscription(o) ==
    /\ opPc[o] = "modify"
    /\ opPlan[o] # "FREE"
    /\ IsActive(opSub[o])
    /\ LET s == opSub[o]
           new == priceIdForPlan(opPlan[o])
           updated == SubscriptionUpdated(s, new)
       IN
       /\ subPrice' = [subPrice EXCEPT ![s] = new]
       /\ UNCHANGED cancelling
       /\ CASE new = subPrice[s] -> UNCHANGED upcoming
            [] new # subPrice[s] /\ ~isUpgrade(o) -> Send(<<updated>>)
            [] OTHER ->
                   \E first \in FirstLines :
                       LET invoice == InvoicePaid(subCustomer[s],
                                          IF first = "charge" THEN new ELSE subPrice[s])
                       IN  Send(<<updated, invoice>>) \/ Send(<<invoice, updated>>)
    /\ OpGoto(o, "save")
    /\ UNCHANGED <<owner, card, status, subCustomer, twice, opData, vars>>

\* Stripe refuses to change a subscription that ended meanwhile.
UpdateRefused(o) ==
    /\ opPc[o] = "modify"
    /\ opPlan[o] # "FREE"
    /\ ~IsActive(opSub[o])
    /\ Done(o)
    /\ UNCHANGED <<stripeState, upcoming, vars>>

SavePriceId(o) ==
    /\ opPc[o] = "save"
    /\ stripePriceId' = [stripePriceId EXCEPT ![opUser[o]] = priceIdForPlan(opPlan[o])]
    /\ Done(o)
    /\ UNCHANGED <<stripeState, upcoming, webhookVars, users, plan, stripeCustomerId, faults>>

\* A call of Stripe or of the database fails: no step is compensated.
OpFails(o) ==
    /\ opPc[o] # "idle"
    /\ Fault("rejected")
    /\ Done(o)
    /\ UNCHANGED <<stripeState, upcoming, webhookVars, accounts>>

Serve(o) ==
    \/ FindById(o) \/ CreateCustomer(o) \/ LinkCustomer(o) \/ AttachPaymentMethod(o)
    \/ RetrieveCustomer(o) \/ CreateSubscription(o) \/ getActiveSubscription(o)
    \/ CancelAtPeriodEnd(o) \/ UpdateSubscription(o) \/ UpdateRefused(o) \/ SavePriceId(o)

------------------------------------------------------------------------------

DeliverNext(e, h) ==
    /\ InOrder => \A f \in Events : f < e => outbox[f] = "delivered"
    /\ Deliver(e, h)

BillingNext ==
    \/ \E o \in Slots, u \in Users, wanted \in Plan :
           \/ Signup(o, u, wanted)
           \/ \E kind \in Ops \ {"signup"} : Request(o, kind, u, wanted)
    \/ \E o \in Slots : Serve(o) \/ OpFails(o)
    \/ \E c \in Customers : ConfirmCard(c)
    \/ \E s \in Subscriptions : Renew(s) \/ End(s)
    \/ EmitNext
    \/ /\ \/ \E e \in Events, h \in Handlers : DeliverNext(e, h)
          \/ \E h \in Handlers : Handle(h)
       /\ UNCHANGED billingVars

BillingSpec == BillingInit /\ [][BillingNext]_billing

\* Node carries on what it started and Stripe sends and redelivers its events;
\* nothing is assumed about the users or the end of a period.
FairBillingSpec ==
    /\ BillingSpec
    /\ WF_billing(EmitNext)
    /\ \A o \in Slots : WF_billing(Serve(o))
    /\ \A h \in Handlers : WF_billing(Handle(h) /\ UNCHANGED billingVars)
    /\ \A e \in Events :
           WF_billing(\E h \in Handlers : DeliverNext(e, h) /\ UNCHANGED billingVars)

------------------------------------------------------------------------------
(* Properties *)

\* Nothing is under way: every event was delivered and every request answered.
Quiet ==
    /\ upcoming = <<>>
    /\ \A e \in Events : outbox[e] # "pending"
    /\ \A h \in Handlers : pc[h] = "idle"
    /\ \A o \in Slots : opPc[o] = "idle"

\* Once everything is delivered, a user has the plan of the price Stripe charges,
\* and FREE without a subscription; a cancelled one keeps some paid plan until it
\* ends.  (A user who subscribed twice at once has no such plan.)  A downgrade is
\* no exception: the code gives the price to Stripe at once and the plan follows,
\* not at period end as src/README.md:140 has it (DowngradeAtPeriodEnd).
PlanFollowsSubscription ==
    Quiet => \A u \in users \ twice :
        /\ ActiveOf(u) = {} => plan[u] = "FREE"
        /\ \A s \in ActiveOf(u) :
               IF cancelling[s] THEN plan[u] \in PaidPlan
                                ELSE plan[u] = planFromPriceId(subPrice[s])

\* "applies downgrades at period end" (src/README.md:140): a plan is only lowered by
\* the invoice of a new period or the end of the subscription, not by the change.
DowngradeAtPeriodEnd ==
    [][\A u \in Users : isDowngrade(plan[u], plan'[u]) =>
           \E h \in Handlers :
               /\ pc[h] = "update" /\ user[h] = u
               /\ payload[event[h]].type # "customer.subscription.updated"
      ]_billing

\* Whoever Stripe charges gets a paid plan before the subscription ends, however
\* often the event that says so has to be delivered again.  (When one of two
\* subscriptions of a user ends, the plan is lost while the other one is charged.)
PaymentIsHonoured ==
    \A s \in Subscriptions :
        IsActive(s) ~> \/ ~IsActive(s)
                       \/ plan[OwnerOf(s)] \in PaidPlan
                       \/ OwnerOf(s) \in twice

\* A plan changes only by an event about a customer that was created for its user,
\* even when the user was linked to another customer after the webhook looked the
\* first one up.
OnlyOwnEvents ==
    [][\A u \in Users : plan'[u] # plan[u] =>
           \E h \in Handlers : pc[h] = "update" /\ owner[payload[event[h]].customer] = u
      ]_billing

------------------------------------------------------------------------------
(* The inductive invariant, with that of the webhook *)

\* Whoever is linked to a customer is the user it was created for.
LinkInv == \A u \in Users : stripeCustomerId[u] # NoCustomer => owner[stripeCustomerId[u]] = u

\* What a request has in hand belongs to its user.
SlotInv ==
    \A o \in Slots :
        /\ opPc[o] # "idle" => opUser[o] \in Users
        /\ opPc[o] \in {"link", "attach", "retrieve", "subscribe", "list", "modify", "save"} =>
               opCustomer[o] \in Customers /\ owner[opCustomer[o]] = opUser[o]
        /\ opPc[o] = "modify" => opSub[o] \in Subscriptions

\* The webhook looks up a customer, and the user it found is that customer's.
CreditInv ==
    \A h \in Handlers :
        /\ pc[h] \in {"find", "update"} => payload[event[h]].customer \in Customers
        /\ pc[h] = "update" => user[h] \in Users /\ owner[payload[event[h]].customer] = user[h]

BillingInv == BillingTypeOK /\ LinkInv /\ SlotInv /\ CreditInv

------------------------------------------------------------------------------
(* ... and what makes the plan follow the subscription *)

\* The user waits for an answer before sending the next request.
OneRequestPerUser ==
    \A o, p \in Slots :
        opPc[o] # "idle" /\ opPc[p] # "idle" /\ opUser[o] = opUser[p] => o = p

PaidPrice == {"price_gold", "price_platinum"}

\* The webhook finds the user a customer was created for.
Linked(c) == c \in Customers /\ owner[c] \in users /\ stripeCustomerId[owner[c]] = c

\* A request works with the customer its user is linked to, for good.
CustomerInv ==
    \A o \in Slots :
        /\ opPc[o] # "idle" => opUser[o] \in users
        /\ opPc[o] \in {"create", "link"} => stripeCustomerId[opUser[o]] = NoCustomer
        /\ opPc[o] \in {"attach", "retrieve", "subscribe"} =>
               opCustomer[o] = stripeCustomerId[opUser[o]]

SubscriptionInv ==
    \A s \in Subscriptions :
        IF status[s] = "none" THEN ~cancelling[s]
                              ELSE Linked(subCustomer[s]) /\ subPrice[s] \in PaidPrice

\* What Stripe tells is about such a subscription.
Told(p) ==
    /\ p.type # "other" /\ Linked(p.customer)
    /\ p.type # "customer.subscription.deleted" => p.price \in PaidPrice

\* The events are numbered as they are sent, and handled one after the other.
OrderInv ==
    /\ \A i \in DOMAIN upcoming : Told(upcoming[i])
    /\ \A e \in Events : outbox[e] # "unsent" => Told(payload[e])
    /\ \A e, f \in Events : e < f /\ outbox[e] = "unsent" => outbox[f] = "unsent"
    /\ \A h \in Handlers : Active(h) => \A f \in Events : f < event[h] => outbox[f] = "delivered"
    /\ \A h \in Handlers : pc[h] \in {"find", "update"} => NeedsUser(payload[event[h]])

Changes(p, u) == NeedsUser(p) /\ owner[p.customer] = u

\* The events that will still write a user's plan: some were sent, some are not yet.
Waiting(u) ==
    {e \in Events : /\ outbox[e] # "unsent" /\ e \notin completed /\ writes[e] = 0
                    /\ Changes(payload[e], u)}
Coming(u) == {i \in DOMAIN upcoming : Changes(upcoming[i], u)}

\* The plan a user ends up with: what the last of them writes, or the plan as it is.
Finally(u) ==
    {p \in Plan :
        \/ \E i \in Coming(u) : (\A j \in Coming(u) : j <= i) /\ p = newPlan(upcoming[i])
        \/ /\ Coming(u) = {}
           /\ \E e \in Waiting(u) : (\A f \in Waiting(u) : f <= e) /\ p = newPlan(payload[e])
        \/ Coming(u) = {} /\ Waiting(u) = {} /\ p = plan[u]}

\* What a subscription with this state entitles to.
Entitled(cancels, price) == IF cancels THEN PaidPlan ELSE {planFromPriceId(price)}

FollowInv ==
    \A u \in Users \ twice :
        /\ \A s, t \in ActiveOf(u) : s = t
        /\ ActiveOf(u) = {} => Finally(u) \subseteq {"FREE"}
        /\ \A s \in ActiveOf(u) : Finally(u) \subseteq Entitled(cancelling[s], subPrice[s])

PlanInv == CustomerInv /\ SubscriptionInv /\ OrderInv /\ FollowInv
==============================================================================
