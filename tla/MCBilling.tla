----------------------------- MODULE MCBilling -----------------------------
(***************************************************************************)
(* Model checking instances of Billing.                                    *)
(***************************************************************************)
EXTENDS Billing, TLC

CONSTANTS d1, d2, d3, d4, d5, d6  \* deliveries

Tiers == {"sprint", "autopilot"}

Prices == [p \in {"price_sprint", "price_autopilot"} |->
              IF p = "price_sprint" THEN "sprint" ELSE "autopilot"]

R(kind, status, prices, product, named) ==
    [kind |-> kind, status |-> status, prices |-> prices, product |-> product,
     sub |-> "s1", named |-> named]

\* The events of a purchase, an unpaid invoice and a cancellation.
Created == R("customer.subscription.created", "incomplete", <<"price_sprint">>, NoTier, TRUE)
Activated == R("customer.subscription.updated", "trialing",
               <<"price_addon", "price_sprint">>, NoTier, TRUE)
Paid == R("checkout.session.completed", "complete", <<>>, "sprint", TRUE)
Unpaid == R("invoice.payment_failed", "open", <<>>, NoTier, FALSE)
Deleted == R("customer.subscription.deleted", "canceled", <<"price_sprint">>, NoTier, TRUE)

-----------------------------------------------------------------------------
\* A purchase and the subscription's own event, both delivered twice, after the
\* subscription was created and beside an unpaid invoice.

Events == {"created", "paid", "activated", "unpaid"}
Raws ==
    [e \in Events |-> CASE e = "created" -> Created [] e = "paid" -> Paid
                        [] e = "activated" -> Activated [] e = "unpaid" -> Unpaid]
Deliveries == {d1, d2, d3, d4, d5, d6}
DeliveryOf ==
    [d \in Deliveries |-> CASE d \in {d1, d2} -> "paid" [] d \in {d3, d4} -> "activated"
                            [] d = d5 -> "unpaid" [] d = d6 -> "created"]
Symmetry == Permutations({d1, d2}) \cup Permutations({d3, d4})

-----------------------------------------------------------------------------
\* A purchase raced by the subscription's own event.

RaceEvents == {"paid", "activated"}
RaceRaws == [e \in RaceEvents |-> IF e = "paid" THEN Paid ELSE Activated]
RaceDeliveries == {d1, d2}
RaceOf == [d \in RaceDeliveries |-> IF d = d1 THEN "paid" ELSE "activated"]

-----------------------------------------------------------------------------
\* The provider's usual order for a first purchase: created as incomplete, then
\* paid and activated at about the same time; cancelled later.

UsualEvents == {"created", "paid", "activated", "deleted"}
UsualRaws ==
    [e \in UsualEvents |-> CASE e = "created" -> Created [] e = "paid" -> Paid
                             [] e = "activated" -> Activated [] e = "deleted" -> Deleted]
UsualDeliveries == {d1, d2, d3, d4}
UsualOf ==
    [d \in UsualDeliveries |-> CASE d = d1 -> "created" [] d = d2 -> "paid"
                                 [] d = d3 -> "activated" [] d = d4 -> "deleted"]
=============================================================================
