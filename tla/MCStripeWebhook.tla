--------------------------- MODULE MCStripeWebhook ---------------------------
EXTENDS StripeWebhook, TLC, FiniteSets

CONSTANTS u1, c1, e1, h1, h2

\* An invoice, a price change, the end of the subscription and the events that
\* leave the handler early, all about the one customer.
Invoice(price) == [type |-> "invoice.payment_succeeded", customer |-> c1,
                   price |-> price, active |-> FALSE]
Updated(price, active) == [type |-> "customer.subscription.updated",
                           customer |-> c1, price |-> price, active |-> active]
Deleted == [type |-> "customer.subscription.deleted", customer |-> c1,
            price |-> NoPrice, active |-> FALSE]
Ignored == [type |-> "other", customer |-> NoCustomer, price |-> NoPrice,
            active |-> FALSE]

MCPayloads == {Invoice("price_gold"), Invoice(NoPrice), Updated("price_gold", TRUE),
               Updated("price_platinum", FALSE), Deleted, Ignored}
==============================================================================
