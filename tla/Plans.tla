-------------------------------- MODULE Plans --------------------------------
(***************************************************************************)
(* The plans of the application, the Stripe prices that stand for them and *)
(* the pure functions the billing code computes on them.                   *)
(***************************************************************************)

Plan == {"FREE", "GOLD", "PLATINUM", "ADMINISTRATOR"}

\* Price ids the code can tell apart: STRIPE_PRICE_GOLD, STRIPE_PRICE_PLATINUM
\* and any other id.  NoPrice stands for null or an absent id.
NoPrice == "no_price"
Price == {"price_gold", "price_platinum", "price_other"}

planFromPriceId(price) ==
    CASE price = "price_gold"     -> "GOLD"
      [] price = "price_platinum" -> "PLATINUM"
      [] OTHER                    -> "FREE"

isDowngrade(old, new) ==
    \/ old = "PLATINUM" /\ new = "GOLD"
    \/ old # "FREE" /\ new = "FREE"
==============================================================================
