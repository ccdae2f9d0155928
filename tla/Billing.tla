------------------------------ MODULE Billing ------------------------------
(***************************************************************************)
(* Billing webhooks (services/billing.py behind api/billing.py): how the   *)
(* events of one organization's subscription reach its entitlement, its    *)
(* subscription mirror, its plan label and the revenue ledger.             *)
(*                                                                         *)
(* A delivery of an event is one request and one transaction at READ       *)
(* COMMITTED.  It checks whether the event was handled before, loads the   *)
(* rows it will change, and writes everything in one flush, where unique   *)
(* constraints and the row locks of other open transactions are met.  The  *)
(* answer leaves before the commit (external: the framework).  The         *)
(* provider delivers an event again until it is answered without an error, *)
(* in any order, sometimes twice (external: Stripe).                       *)
(*                                                                         *)
(* The ORM updates the columns whose new value differs from the one that   *)
(* was loaded, and no others.                                              *)
(***************************************************************************)
EXTENDS Naturals, FiniteSets, Sequences

CONSTANTS
    Event,        \* verified events of the organization
    Delivery,     \* requests that deliver them
    Of,           \* [Delivery -> Event]
    Raw,          \* [Event -> RawEvent]: as the provider sends it
    Tier,         \* the products with a price
    TierByPrice,  \* [configured price ids -> Tier]
    NoTier,       \* a price that maps to no product, or an event without one
    NoRow,        \* no row
    NoSub,        \* no subscription id
    Sub,          \* subscription ids
    Nobody,       \* no delivery
    MaxFaults     \* bound: errors and crashes

Rank == [audit |-> 1, sprint |-> 2, autopilot |-> 3]

Type == {"checkout", "updated", "deleted", "payment_failed"}
Status == {"active", "past_due", "canceled", "incomplete"}

\* What a signed event says.  A checkout puts the organization and the product
\* on the session and, with the organization, on the subscription it creates.
RawEvent == [kind : {"checkout.session.completed", "customer.subscription.created",
                     "customer.subscription.updated", "customer.subscription.deleted",
                     "invoice.payment_failed"},
             status : STRING, prices : Seq(STRING), product : Tier \cup {NoTier},
             sub : Sub \cup {NoSub}, named : BOOLEAN]

\* What is made of it.  named: the event carries the organization's id.
EventRecord == [type : Type, status : Status, tier : Tier \cup {NoTier},
                sub : Sub \cup {NoSub}, named : BOOLEAN]

\* Rows of entitlements and of subscriptions.
Ent == [tier : Tier \cup {"audit"}, status : Status, sub : Sub \cup {NoSub}]
Mirror == [product : Tier \cup {"free"}, status : Status]

ASSUME BillingAssumption ==
    /\ Of \in [Delivery -> Event]
    /\ Raw \in [Event -> RawEvent]
    /\ \A p \in DOMAIN TierByPrice : TierByPrice[p] \in Tier
    /\ NoTier \notin Tier /\ "free" \notin Tier \cup {NoTier} /\ NoSub \notin Sub
    /\ NoRow \notin Ent \cup Mirror
    /\ Nobody \notin Delivery
    /\ MaxFaults \in Nat

VARIABLES
    ent,       \* the organization's entitlements row
    mirror,    \* [Delivery -> subscriptions row it inserted]
    plan,      \* organizations.plan
    revenue,   \* checkouts with a revenue_records row
    ledger,    \* events with a billing_webhook_events row
    writer,    \* the delivery that has flushed and not committed
    pc,        \* where the delivery is
    seenPlan,  \* the plan it loaded
    seenEnt,   \* the entitlement it loaded
    seenRow,   \* the mirror row it loaded: who inserted it, and its columns
    applied,   \* history: times an event's effect was committed
    faults     \* counts towards MaxFaults

tables == <<ent, mirror, plan, revenue, ledger, applied>>
loaded == <<seenPlan, seenEnt, seenRow>>
vars == <<tables, writer, pc, loaded, faults>>

NoMirror == [id |-> Nobody, row |-> NoRow]

-----------------------------------------------------------------------------
\* The event a delivery carries

\* A seeded defect: a status that is not recognized is taken for active.
StatusOpen(status) ==
    CASE status \in {"past_due", "unpaid", "paused"} -> "past_due"
      [] status \in {"canceled", "incomplete_expired"} -> "canceled"
      [] OTHER -> "active"

\* map_subscription_status: what is not recognized is locked.
StatusOf(status) ==
    CASE status \in {"active", "trialing"} -> "active"
      [] status \in {"past_due", "unpaid", "paused"} -> "past_due"
      [] status \in {"canceled", "incomplete_expired"} -> "canceled"
      [] OTHER -> "incomplete"

\* _tier_from_subscription: that of the first price that is configured.
TierOf(prices) ==
    LET configured == {i \in DOMAIN prices : prices[i] \in DOMAIN TierByPrice}
    IN  IF configured = {} THEN NoTier
        ELSE TierByPrice[prices[CHOOSE i \in configured : \A j \in configured : i <= j]]

\* verify_and_parse_webhook
Parsed(raw) ==
    CASE raw.kind = "checkout.session.completed" ->
            [type |-> "checkout", status |-> "active", tier |-> raw.product,
             sub |-> raw.sub, named |-> raw.named]
      [] raw.kind \in {"customer.subscription.created", "customer.subscription.updated"} ->
            [type |-> "updated", status |-> StatusOf(raw.status), tier |-> TierOf(raw.prices),
             sub |-> raw.sub, named |-> raw.named]
      [] raw.kind = "customer.subscription.deleted" ->
            [type |-> "deleted", status |-> "canceled", tier |-> NoTier,
             sub |-> raw.sub, named |-> raw.named]
      [] raw.kind = "invoice.payment_failed" ->
            [type |-> "payment_failed", status |-> "past_due", tier |-> NoTier,
             sub |-> raw.sub, named |-> FALSE]

Content == [e \in Event |-> Parsed(Raw[e])]

event(d) == Content[Of[d]]

IsCheckout(d) == event(d).type = "checkout"

\* The status an event asks for.
Asked(d) ==
    CASE event(d).type = "checkout" -> "active"
      [] event(d).type = "updated" -> event(d).status
      [] event(d).type = "deleted" -> "canceled"
      [] event(d).type = "payment_failed" -> "past_due"

\* The tier it asks for; only checkouts and updates carry one.
AskedTier(d) == IF event(d).type \in {"checkout", "updated"} THEN event(d).tier ELSE NoTier

\* _resolve_org_id: by the id in the event, else by a subscription known here.
Resolved(d) ==
    \/ event(d).named
    \/ event(d).sub # NoSub /\ ent # NoRow /\ ent.sub = event(d).sub

\* A checkout must name the organization and a product with a price.
Handled(d) == IF IsCheckout(d) THEN event(d).named /\ event(d).tier \in Tier ELSE Resolved(d)

\* The event was fulfilled before: by its payment for a checkout, by its event
\* id for the others.
Seen(d) == Of[d] \in (IF IsCheckout(d) THEN revenue ELSE ledger)

\* An update to "incomplete" leaves the mirror and the plan alone.
Mirrors(d) == Asked(d) # "incomplete"

-----------------------------------------------------------------------------
\* Column by column: what the ORM writes over `now`, having loaded `was`.

Column(now, was, wanted) == IF wanted = was THEN now ELSE wanted

\* A column the event has no value for keeps the one it had.
Kept(wanted, none, was) == IF wanted = none THEN was ELSE wanted

\* _upsert_entitlement
EntWritten(d) ==
    LET tier == AskedTier(d)
        sub == IF event(d).type = "payment_failed" THEN NoSub ELSE event(d).sub
        was == seenEnt[d]
    IN  IF was = NoRow
        THEN [tier |-> Kept(tier, NoTier, "audit"), status |-> Asked(d), sub |-> sub]
        ELSE [tier |-> Column(ent.tier, was.tier, Kept(tier, NoTier, was.tier)),
              status |-> Column(ent.status, was.status, Asked(d)),
              sub |-> Column(ent.sub, was.sub, Kept(sub, NoSub, was.sub))]

\* _mirror_subscription
MirrorWritten(d) ==
    LET tier == AskedTier(d)
        was == seenRow[d].row
    IN  IF ~Mirrors(d) THEN mirror
        ELSE IF was = NoRow
        THEN [mirror EXCEPT ![d] = [product |-> Kept(tier, NoTier, "free"), status |-> Asked(d)]]
        ELSE [mirror EXCEPT ![seenRow[d].id] =
                 [product |-> Column(@.product, was.product, Kept(tier, NoTier, was.product)),
                  status |-> Column(@.status, was.status, Asked(d))]]

\* organizations.plan: the tier of an activation, free on a cancellation.
PlanWritten(d) ==
    CASE Asked(d) = "active" ->
            Column(plan, seenPlan[d], Kept(AskedTier(d), NoTier, seenPlan[d]))
      [] Asked(d) = "canceled" -> Column(plan, seenPlan[d], "free")
      [] OTHER -> plan

\* A seeded defect: the event ledger has no unique constraint.
ConflictOnRowsOnly(d) ==
    \/ IsCheckout(d) /\ Of[d] \in revenue
    \/ seenEnt[d] = NoRow /\ ent # NoRow

\* The flush meets a unique constraint: the payment, the event id, or the
\* organization's one entitlement, which somebody else inserted.
Conflict(d) ==
    \/ IsCheckout(d) /\ Of[d] \in revenue
    \/ Of[d] \in ledger
    \/ seenEnt[d] = NoRow /\ ent # NoRow

-----------------------------------------------------------------------------

Init ==
    /\ ent = NoRow
    /\ mirror = [d \in Delivery |-> NoRow]
    /\ plan = "free"
    /\ revenue = {}
    /\ ledger = {}
    /\ writer = Nobody
    /\ pc = [d \in Delivery |-> "sent"]
    /\ seenPlan = [d \in Delivery |-> "free"]
    /\ seenEnt = [d \in Delivery |-> NoRow]
    /\ seenRow = [d \in Delivery |-> NoMirror]
    /\ applied = [e \in Event |-> 0]
    /\ faults = 0

Goto(d, l) == pc' = [pc EXCEPT ![d] = l]

\* The request ends: its session, with what it loaded, is gone.
EndsAs(d, l) ==
    /\ Goto(d, l)
    /\ seenPlan' = [seenPlan EXCEPT ![d] = "free"]
    /\ seenEnt' = [seenEnt EXCEPT ![d] = NoRow]
    /\ seenRow' = [seenRow EXCEPT ![d] = NoMirror]

Rows == {d \in Delivery : mirror[d] # NoRow}

\* Nothing is known of the organization or the product: answered, not handled.
Ignore(d) ==
    /\ pc[d] = "sent"
    /\ ~Handled(d)
    /\ Goto(d, "ignored")
    /\ UNCHANGED <<tables, writer, loaded, faults>>

\* A replay: answered without a change.
Replay(d) ==
    /\ pc[d] = "sent"
    /\ Handled(d)
    /\ Seen(d)
    /\ Goto(d, "done")
    /\ UNCHANGED <<tables, writer, loaded, faults>>

\* The organization is loaded, and the entitlement too if it named the
\* organization: the session keeps what it loads first.
Check(d) ==
    /\ pc[d] = "sent"
    /\ Handled(d)
    /\ ~Seen(d)
    /\ seenPlan' = [seenPlan EXCEPT ![d] = plan]
    /\ seenEnt' = [seenEnt EXCEPT ![d] = IF event(d).named THEN NoRow ELSE ent]
    /\ Goto(d, "load")
    /\ UNCHANGED <<tables, writer, seenRow, faults>>

Load(d) ==
    /\ pc[d] = "load"
    /\ Mirrors(d) => Cardinality(Rows) <= 1
    /\ seenEnt' = [seenEnt EXCEPT ![d] = IF event(d).named THEN ent ELSE @]
    /\ \/ Rows = {} /\ seenRow' = [seenRow EXCEPT ![d] = NoMirror]
       \/ \E r \in Rows : seenRow' = [seenRow EXCEPT ![d] = [id |-> r, row |-> mirror[r]]]
    /\ Goto(d, "flush")
    /\ UNCHANGED <<tables, writer, seenPlan, faults>>

\* scalar_one_or_none finds several mirror rows and raises.
LoadRefused(d) ==
    /\ pc[d] = "load"
    /\ Mirrors(d) /\ Cardinality(Rows) > 1
    /\ EndsAs(d, "refused")
    /\ UNCHANGED <<tables, writer, faults>>

\* The flush succeeds: its rows are locked until the commit, and the answer goes out.
Flush(d) ==
    /\ pc[d] = "flush"
    /\ writer = Nobody
    /\ ~Conflict(d)
    /\ writer' = d
    /\ Goto(d, "answered")
    /\ UNCHANGED <<tables, loaded, faults>>

\* A seeded defect: every integrity error of a checkout counts as a duplicate.
AnyConflict(d) == d \in Delivery

\* A lost race that needs no retry, as the code judges it.
HarmlessConflict(d) == IsCheckout(d) => Of[d] \in revenue

\* The flush fails on a constraint: rolled back, answered as a duplicate.
FlushDuplicate(d) ==
    /\ pc[d] = "flush"
    /\ writer = Nobody
    /\ Conflict(d)
    /\ HarmlessConflict(d)
    /\ EndsAs(d, "done")
    /\ UNCHANGED <<tables, writer, faults>>

\* A checkout whose payment is still unrecorded: answered with an error.
FlushRaises(d) ==
    /\ pc[d] = "flush"
    /\ writer = Nobody
    /\ Conflict(d)
    /\ ~HarmlessConflict(d)
    /\ EndsAs(d, "refused")
    /\ UNCHANGED <<tables, writer, faults>>

Commit(d) ==
    /\ pc[d] = "answered"
    /\ ent' = EntWritten(d)
    /\ mirror' = MirrorWritten(d)
    /\ plan' = PlanWritten(d)
    /\ revenue' = IF IsCheckout(d) THEN revenue \cup {Of[d]} ELSE revenue
    /\ ledger' = ledger \cup {Of[d]}
    /\ applied' = [applied EXCEPT ![Of[d]] = @ + 1]
    /\ writer' = Nobody
    /\ EndsAs(d, "done")
    /\ UNCHANGED faults

Fault ==
    /\ faults < MaxFaults
    /\ faults' = faults + 1

\* An error before the answer: it is the provider's turn again.
Fails(d) ==
    /\ pc[d] \in {"load", "flush"}
    /\ Fault
    /\ EndsAs(d, "refused")
    /\ UNCHANGED <<tables, writer>>

\* The commit fails after the answer: nobody delivers the event again.
CommitLost(d) ==
    /\ pc[d] = "answered"
    /\ Fault
    /\ writer' = Nobody
    /\ EndsAs(d, "lost")
    /\ UNCHANGED tables

Redeliver(d) ==
    /\ pc[d] = "refused"
    /\ Goto(d, "sent")
    /\ UNCHANGED <<tables, writer, loaded, faults>>

AllAnswered ==
    /\ \A d \in Delivery : pc[d] \in {"done", "ignored", "lost"}
    /\ UNCHANGED vars

Next ==
    \/ \E d \in Delivery :
          \/ Ignore(d) \/ Replay(d) \/ Check(d)
          \/ Load(d) \/ LoadRefused(d)
          \/ Flush(d) \/ FlushDuplicate(d) \/ FlushRaises(d)
          \/ Commit(d) \/ Fails(d) \/ CommitLost(d) \/ Redeliver(d)
    \/ AllAnswered

Spec == Init /\ [][Next]_vars

\* assert_entitled: a package may be built.
GateOpen == ent # NoRow /\ ent.status = "active" /\ Rank[ent.tier] >= Rank["sprint"]

-----------------------------------------------------------------------------
\* Properties

Location == {"sent", "load", "flush", "answered", "done", "ignored", "refused", "lost"}

\* Every variable has its type; only a delivery that has answered holds locks.
TypeOK ==
    /\ ent \in Ent \cup {NoRow}
    /\ mirror \in [Delivery -> Mirror \cup {NoRow}]
    /\ plan \in Tier \cup {"free"}
    /\ revenue \subseteq Event /\ ledger \subseteq Event
    /\ writer \in Delivery \cup {Nobody}
    /\ pc \in [Delivery -> Location]
    /\ \A d \in Delivery : pc[d] = "answered" <=> writer = d
    /\ seenPlan \in [Delivery -> Tier \cup {"free"}]
    /\ seenEnt \in [Delivery -> Ent \cup {NoRow}]
    /\ seenRow \in [Delivery -> [id : Delivery \cup {Nobody}, row : Mirror \cup {NoRow}]]
    /\ applied \in [Event -> Nat]
    /\ faults \in 0..MaxFaults

\* A payment is never dropped: a checkout that was answered without an error,
\* and whose commit was not cut off, has its revenue recorded, whatever races
\* it lost (the comment on the IntegrityError of apply_webhook).
NoRevenueDropped ==
    \A d \in Delivery : pc[d] = "done" /\ IsCheckout(d) => Of[d] \in revenue

\* An event takes effect at most once, however often, and however concurrently,
\* it is delivered (models/billing.py: "a replayed delivery is a no-op").
AppliedOnce == \A e \in Event : applied[e] <= 1

\* The gate of the premium features is open only when the provider said so: it
\* reported a completed checkout, or a subscription that is active or on trial,
\* and a product or a price that is high enough, in events that were applied
\* (assert_entitled; "a gate is only ever opened by a status we explicitly
\* recognize as paid-and-current").
GateIsPaid ==
    GateOpen =>
        /\ \E e \in Event : applied[e] > 0 /\
              \/ Raw[e].kind = "checkout.session.completed"
              \/ Raw[e].status \in {"active", "trialing"}
        /\ \E e \in Event : applied[e] > 0 /\
              \E tier \in {Raw[e].product, TierOf(Raw[e].prices)} \cap Tier :
                  Rank[tier] >= Rank["sprint"]

\* A subscription event answered as processed has been processed
\* (services/billing.py: "A concurrent delivery of the same event id won the
\* race; the state it wrote is identical").  It does not hold: the race may have
\* been won by another event that inserted the organization's entitlement.
AnsweredIsProcessed ==
    \A d \in Delivery : pc[d] = "done" => Of[d] \in ledger

\* A cancellation is never refused (services/billing.py:
\* "``subscription.deleted`` -> cancel (locks the gate, plan -> free)").  It does
\* not hold: once two events have each inserted a mirror row, every later one raises.
CancelIsNotRefused ==
    \A d \in Delivery : event(d).type = "deleted" /\ faults = 0 => pc[d] # "refused"
=============================================================================
