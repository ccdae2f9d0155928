---------------------------- MODULE BillingProofs ----------------------------
(***************************************************************************)
(* Proofs about Billing, for every set of events, however often and in     *)
(* whatever order they are delivered, and however many deliveries fail.    *)
(***************************************************************************)
EXTENDS Billing, WellFoundedInduction, TLAPS

-----------------------------------------------------------------------------
\* Events

\* A nonempty set of numbers has a least member.
LEMMA LeastExists ==
    ASSUME NEW S \in SUBSET Nat, S # {}
    PROVE  \E x \in S : \A y \in S : x <= y
  <1>1. PICK x \in S : \A y \in S : ~(<<y, x>> \in OpToRel(<, Nat))
    BY NatLessThanWellFounded, WFMin, Zenon
  <1>2. \A y \in S : ~(y < x)
    BY <1>1, Zenon DEF OpToRel
  <1>3. QED
    BY <1>2

\* Prices give a tier with a price, or none.
LEMMA TierOfPrices ==
    ASSUME BillingAssumption, NEW prices \in Seq(STRING)
    PROVE  TierOf(prices) \in Tier \cup {NoTier}
  <1> DEFINE configured == {i \in DOMAIN prices : prices[i] \in DOMAIN TierByPrice}
             first == CHOOSE i \in configured : \A j \in configured : i <= j
  <1>1. configured \in SUBSET Nat
    OBVIOUS
  <1>2. CASE configured = {}
    BY <1>2 DEF TierOf
  <1>3. CASE configured # {}
    <2>1. \E i \in configured : \A j \in configured : i <= j
      <3> HIDE DEF configured
      <3>1. QED
        BY <1>1, <1>3, LeastExists
    <2>2. first \in configured
      BY <2>1
    <2>3. TierByPrice[prices[first]] \in Tier
      BY <2>2 DEF BillingAssumption
    <2>4. TierOf(prices) = TierByPrice[prices[first]]
      BY <1>3 DEF TierOf
    <2>5. QED
      BY <2>3, <2>4
  <1>4. QED
    BY <1>2, <1>3

LEMMA StatusOfTyped == \A status : StatusOf(status) \in Status
  BY DEF StatusOf, Status

\* What is made of an event, and from what its tier and an activation come.
LEMMA ContentTyped ==
    ASSUME BillingAssumption, NEW d \in Delivery
    PROVE  /\ Of[d] \in Event /\ event(d) \in EventRecord
           /\ Asked(d) \in Status /\ AskedTier(d) \in Tier \cup {NoTier}
           /\ Asked(d) = "active" => \/ Raw[Of[d]].kind = "checkout.session.completed"
                                     \/ Raw[Of[d]].status \in {"active", "trialing"}
           /\ AskedTier(d) # NoTier => AskedTier(d) \in {Raw[Of[d]].product, TierOf(Raw[Of[d]].prices)}
  <1> DEFINE raw == Raw[Of[d]]
  <1>1. Of[d] \in Event /\ raw \in RawEvent
    BY DEF BillingAssumption
  <1>2. event(d) = Parsed(raw)
    BY <1>1 DEF event, Content
  <1>3. TierOf(raw.prices) \in Tier \cup {NoTier} /\ StatusOf(raw.status) \in Status
    BY <1>1, TierOfPrices, StatusOfTyped DEF RawEvent
  <1>4. StatusOf(raw.status) = "active" => raw.status \in {"active", "trialing"}
    BY DEF StatusOf
  <1> HIDE DEF raw
  <1>5. CASE raw.kind = "checkout.session.completed"
    <2>1. event(d) = [type |-> "checkout", status |-> "active", tier |-> raw.product,
                      sub |-> raw.sub, named |-> raw.named]
      BY <1>2, <1>5 DEF Parsed
    <2>2. QED
      BY <1>1, <1>5, <2>1 DEF RawEvent, EventRecord, Type, Status, Asked, AskedTier, raw
  <1>6. CASE raw.kind \in {"customer.subscription.created", "customer.subscription.updated"}
    <2>1. event(d) = [type |-> "updated", status |-> StatusOf(raw.status), tier |-> TierOf(raw.prices),
                      sub |-> raw.sub, named |-> raw.named]
      BY <1>2, <1>6 DEF Parsed
    <2>2. QED
      BY <1>1, <1>3, <1>4, <1>6, <2>1 DEF RawEvent, EventRecord, Type, Asked, AskedTier, raw
  <1>7. CASE raw.kind = "customer.subscription.deleted"
    <2>1. event(d) = [type |-> "deleted", status |-> "canceled", tier |-> NoTier,
                      sub |-> raw.sub, named |-> raw.named]
      BY <1>2, <1>7 DEF Parsed
    <2>2. QED
      BY <1>1, <1>7, <2>1 DEF RawEvent, EventRecord, Type, Status, Asked, AskedTier
  <1>8. CASE raw.kind = "invoice.payment_failed"
    <2>1. event(d) = [type |-> "payment_failed", status |-> "past_due", tier |-> NoTier,
                      sub |-> raw.sub, named |-> FALSE]
      BY <1>2, <1>8 DEF Parsed
    <2>2. QED
      BY <1>1, <1>8, <2>1 DEF RawEvent, EventRecord, Type, Status, Asked, AskedTier
  <1>9. QED
    BY <1>1, <1>5, <1>6, <1>7, <1>8 DEF RawEvent

-----------------------------------------------------------------------------
\* The inductive invariant

\* A row that was loaded is still there.
SeenExists ==
    \A d \in Delivery :
        /\ seenEnt[d] # NoRow => ent # NoRow
        /\ seenRow[d].row # NoRow => /\ seenRow[d].id \in Delivery
                                     /\ mirror[seenRow[d].id] # NoRow

\* What has been flushed met no constraint, and meets none until it commits.
FlushedIsNew == \A d \in Delivery : pc[d] = "answered" => ~Conflict(d)

\* The ledger has the events that were applied.
LedgerCounts == \A e \in Event : applied[e] = IF e \in ledger THEN 1 ELSE 0

\* The provider reported an activation; it named the tier.
Activation(e) == \/ Raw[e].kind = "checkout.session.completed"
                 \/ Raw[e].status \in {"active", "trialing"}
TiersNamed(e) == {Raw[e].product, TierOf(Raw[e].prices)} \cap Tier

\* What opens the gate came with events that were applied.
EntIsPaid ==
    ent # NoRow =>
        /\ ent.status = "active" => \E e \in Event : applied[e] > 0 /\ Activation(e)
        /\ ent.tier # "audit" => \E e \in Event : applied[e] > 0 /\ ent.tier \in TiersNamed(e)

IInv == TypeOK /\ SeenExists /\ FlushedIsNew /\ LedgerCounts /\ EntIsPaid /\ NoRevenueDropped

LEMMA InitInv == BillingAssumption /\ Init => IInv
  BY DEF Init, IInv, TypeOK, SeenExists, FlushedIsNew, LedgerCounts, EntIsPaid, NoRevenueDropped,
         NoMirror, BillingAssumption, Location

\* An ended request has nothing loaded.
LEMMA EndsTyped ==
    ASSUME TypeOK, SeenExists, NEW d \in Delivery, NEW l \in Location, EndsAs(d, l)
    PROVE  /\ pc' = [pc EXCEPT ![d] = l] /\ pc' \in [Delivery -> Location]
           /\ seenPlan' \in [Delivery -> Tier \cup {"free"}]
           /\ seenEnt' \in [Delivery -> Ent \cup {NoRow}]
           /\ seenRow' \in [Delivery -> [id : Delivery \cup {Nobody}, row : Mirror \cup {NoRow}]]
           /\ seenEnt'[d] = NoRow /\ seenRow'[d].row = NoRow
           /\ \A e \in Delivery \ {d} : /\ seenEnt'[e] = seenEnt[e] /\ seenRow'[e] = seenRow[e]
                                        /\ pc'[e] = pc[e]
  BY DEF EndsAs, Goto, TypeOK, NoMirror

\* A step of one delivery that writes no row.
LEMMA QuietSteps ==
    ASSUME BillingAssumption, IInv, NEW d \in Delivery,
           \/ Ignore(d) \/ Replay(d) \/ Check(d) \/ Load(d) \/ LoadRefused(d)
           \/ Flush(d) \/ FlushDuplicate(d) \/ FlushRaises(d)
           \/ Fails(d) \/ CommitLost(d) \/ Redeliver(d)
    PROVE  IInv'
  <1> USE DEF IInv
  <1>1. UNCHANGED tables
    BY DEF Ignore, Replay, Check, Load, LoadRefused, Flush, FlushDuplicate, FlushRaises, Fails,
           CommitLost, Redeliver
  <1>2. LedgerCounts' /\ EntIsPaid'
    BY <1>1 DEF tables, LedgerCounts, EntIsPaid
  <1>3. \A e \in Delivery : IsCheckout(e)' = IsCheckout(e)
    BY DEF IsCheckout, event, Content
  <1>4. \A e \in Delivery : seenEnt'[e] = seenEnt[e] => Conflict(e)' = Conflict(e)
    BY <1>1, <1>3 DEF tables, Conflict
  <1>5. SUFFICES /\ writer' \in Delivery \cup {Nobody}
                 /\ pc' \in [Delivery -> Location]
                 /\ \A e \in Delivery : pc'[e] = "answered" <=> writer' = e
                 /\ seenPlan' \in [Delivery -> Tier \cup {"free"}]
                 /\ seenEnt' \in [Delivery -> Ent \cup {NoRow}]
                 /\ seenRow' \in [Delivery -> [id : Delivery \cup {Nobody}, row : Mirror \cup {NoRow}]]
                 /\ faults' \in 0..MaxFaults
                 /\ SeenExists'
                 /\ \A e \in Delivery : pc'[e] = "answered" =>
                       ~Conflict(e) /\ seenEnt'[e] = seenEnt[e]
                 /\ \A e \in Delivery : pc'[e] = "done" /\ IsCheckout(e) => Of[e] \in revenue
    <2>1. TypeOK'
      BY <1>1, <1>5 DEF TypeOK, tables
    <2>2. FlushedIsNew' /\ NoRevenueDropped'
      BY <1>1, <1>3, <1>4, <1>5 DEF tables, FlushedIsNew, NoRevenueDropped
    <2>3. QED
      BY <1>2, <1>5, <2>1, <2>2
  <1>6. Nobody \notin Delivery
    BY DEF BillingAssumption
  <1>7. CASE Ignore(d)
    BY <1>6, <1>7 DEF Ignore, Goto, TypeOK, SeenExists, FlushedIsNew, NoRevenueDropped, tables, loaded, Location
  <1>8. CASE Replay(d)
    BY <1>6, <1>8 DEF Replay, Goto, Seen, TypeOK, SeenExists, FlushedIsNew, NoRevenueDropped, tables, loaded,
                      Location
  <1>9. CASE Check(d)
    BY <1>6, <1>9 DEF Check, Goto, TypeOK, SeenExists, FlushedIsNew, NoRevenueDropped, tables, Location
  <1>10. CASE Load(d)
    <2>1. \/ seenRow' = [seenRow EXCEPT ![d] = NoMirror]
          \/ \E r \in Delivery : /\ mirror[r] # NoRow
                                 /\ seenRow' = [seenRow EXCEPT ![d] = [id |-> r, row |-> mirror[r]]]
      BY <1>10 DEF Load, Rows
    <2>2. /\ seenRow' \in [Delivery -> [id : Delivery \cup {Nobody}, row : Mirror \cup {NoRow}]]
          /\ \A e \in Delivery : seenRow'[e].row # NoRow =>
                seenRow'[e].id \in Delivery /\ mirror[seenRow'[e].id] # NoRow
      BY <2>1 DEF TypeOK, SeenExists, NoMirror
    <2>3. /\ seenEnt' \in [Delivery -> Ent \cup {NoRow}]
          /\ \A e \in Delivery : seenEnt'[e] # NoRow => ent # NoRow
          /\ \A e \in Delivery \ {d} : seenEnt'[e] = seenEnt[e]
      BY <1>10 DEF Load, TypeOK, SeenExists
    <2>4. /\ pc' = [pc EXCEPT ![d] = "flush"] /\ pc[d] = "load"
          /\ UNCHANGED <<ent, mirror, writer, seenPlan, faults>>
      BY <1>10 DEF Load, Goto, tables
    <2>5. SeenExists'
      BY <2>2, <2>3, <2>4 DEF SeenExists
    <2>6. QED
      BY <1>6, <2>2, <2>3, <2>4, <2>5 DEF TypeOK, FlushedIsNew, NoRevenueDropped, Location
  <1>11. CASE Flush(d)
    BY <1>6, <1>11 DEF Flush, Goto, TypeOK, SeenExists, FlushedIsNew, NoRevenueDropped, tables, loaded, Location
  <1>12. CASE Redeliver(d)
    BY <1>6, <1>12 DEF Redeliver, Goto, TypeOK, SeenExists, FlushedIsNew, NoRevenueDropped, tables, loaded,
                       Location
  <1>13. CASE LoadRefused(d) \/ FlushDuplicate(d) \/ FlushRaises(d) \/ Fails(d) \/ CommitLost(d)
    <2>1. PICK l \in {"done", "refused", "lost"} : EndsAs(d, l)
      BY <1>13 DEF LoadRefused, FlushDuplicate, FlushRaises, Fails, CommitLost
    <2>2. l = "done" => (IsCheckout(d) => Of[d] \in revenue)
      BY <1>13, <2>1, EndsTyped DEF LoadRefused, FlushDuplicate, FlushRaises, Fails, CommitLost,
                                HarmlessConflict, TypeOK, Location, EndsAs, Goto
    <2>3. faults' \in 0..MaxFaults
      BY <1>13, BillingAssumption
         DEF LoadRefused, FlushDuplicate, FlushRaises, Fails, CommitLost, Fault, TypeOK, BillingAssumption
    <2>4. /\ l \in Location /\ UNCHANGED <<ent, mirror>>
          /\ \/ pc[d] # "answered" /\ writer' = writer
             \/ pc[d] = "answered" /\ writer' = Nobody
      BY <1>1, <1>13, <2>1 DEF LoadRefused, FlushDuplicate, FlushRaises, Fails, CommitLost, Location, tables
    <2>5. SeenExists'
      BY <2>1, <2>4, EndsTyped DEF SeenExists
    <2>6. QED
      BY <1>6, <2>1, <2>2, <2>3, <2>4, <2>5, EndsTyped DEF TypeOK, FlushedIsNew, NoRevenueDropped
  <1>14. QED
    BY <1>7, <1>8, <1>9, <1>10, <1>11, <1>12, <1>13

\* The entitlement a delivery writes: of each column what is there, or what the
\* event says.
LEMMA EntWrittenFrom ==
    ASSUME BillingAssumption, IInv, NEW d \in Delivery
    PROVE  /\ EntWritten(d) \in Ent
           /\ \/ EntWritten(d).status = Asked(d)
              \/ ent # NoRow /\ EntWritten(d).status = ent.status
           /\ \/ EntWritten(d).tier = AskedTier(d) /\ AskedTier(d) # NoTier
              \/ EntWritten(d).tier = "audit"
              \/ ent # NoRow /\ EntWritten(d).tier = ent.tier
  <1> DEFINE tier == AskedTier(d)
             sub == IF event(d).type = "payment_failed" THEN NoSub ELSE event(d).sub
             was == seenEnt[d]
  <1>1. /\ tier \in Tier \cup {NoTier} /\ Asked(d) \in Status /\ sub \in Sub \cup {NoSub}
        /\ was \in Ent \cup {NoRow} /\ ent \in Ent \cup {NoRow} /\ NoRow \notin Ent
        /\ was # NoRow => ent # NoRow
    BY ContentTyped DEF IInv, TypeOK, SeenExists, EventRecord, BillingAssumption
  <1>2. CASE was = NoRow
    <2>1. EntWritten(d) = [tier |-> Kept(tier, NoTier, "audit"), status |-> Asked(d), sub |-> sub]
      BY <1>2 DEF EntWritten
    <2> HIDE DEF tier, sub, was
    <2>2. QED
      BY <1>1, <2>1 DEF Kept, Ent, tier
  <1>3. CASE was # NoRow
    <2>1. EntWritten(d) = [tier |-> Column(ent.tier, was.tier, Kept(tier, NoTier, was.tier)),
                           status |-> Column(ent.status, was.status, Asked(d)),
                           sub |-> Column(ent.sub, was.sub, Kept(sub, NoSub, was.sub))]
      BY <1>3 DEF EntWritten
    <2> HIDE DEF tier, sub, was
    <2>2. was \in Ent /\ ent \in Ent
      BY <1>1, <1>3
    <2>3. QED
      BY <1>1, <2>1, <2>2 DEF Kept, Column, Ent, tier
  <1>4. QED
    BY <1>2, <1>3

\* The mirror rows and the plan after a delivery has written them.
LEMMA MirrorPlanTyped ==
    ASSUME BillingAssumption, IInv, NEW d \in Delivery
    PROVE  /\ MirrorWritten(d) \in [Delivery -> Mirror \cup {NoRow}]
           /\ \A e \in Delivery : mirror[e] # NoRow => MirrorWritten(d)[e] # NoRow
           /\ PlanWritten(d) \in Tier \cup {"free"}
  <1> DEFINE tier == AskedTier(d)
             was == seenRow[d].row
             id == seenRow[d].id
  <1>1. /\ tier \in Tier \cup {NoTier} /\ Asked(d) \in Status
        /\ was \in Mirror \cup {NoRow} /\ NoRow \notin Mirror
        /\ mirror \in [Delivery -> Mirror \cup {NoRow}]
        /\ was # NoRow => id \in Delivery /\ mirror[id] \in Mirror
    BY ContentTyped DEF IInv, TypeOK, SeenExists, BillingAssumption
  <1>2. /\ MirrorWritten(d) \in [Delivery -> Mirror \cup {NoRow}]
        /\ \A e \in Delivery : mirror[e] # NoRow => MirrorWritten(d)[e] # NoRow
    <2>1. CASE ~Mirrors(d)
      BY <1>1, <2>1 DEF MirrorWritten
    <2>2. CASE Mirrors(d) /\ was = NoRow
      <3> DEFINE row == [product |-> Kept(tier, NoTier, "free"), status |-> Asked(d)]
      <3>1. MirrorWritten(d) = [mirror EXCEPT ![d] = row]
        BY <2>2 DEF MirrorWritten
      <3>2. row \in Mirror
        BY <1>1 DEF Kept, Mirror
      <3> HIDE DEF row, tier, was, id
      <3>3. QED
        BY <1>1, <3>1, <3>2
    <2>3. CASE Mirrors(d) /\ was # NoRow
      <3> DEFINE row == [product |-> Column(mirror[id].product, was.product, Kept(tier, NoTier, was.product)),
                         status |-> Column(mirror[id].status, was.status, Asked(d))]
      <3>1. MirrorWritten(d) = [mirror EXCEPT ![id] = row]
        BY <2>3 DEF MirrorWritten
      <3>2. row \in Mirror
        <4> HIDE DEF tier, was, id
        <4>1. was \in Mirror /\ mirror[id] \in Mirror
          BY <1>1, <2>3
        <4>2. QED
          BY <1>1, <4>1 DEF Kept, Column, Mirror
      <3> HIDE DEF row, tier, was, id
      <3>3. QED
        BY <1>1, <2>3, <3>1, <3>2
    <2>4. QED
      BY <2>1, <2>2, <2>3
  <1>3. PlanWritten(d) \in Tier \cup {"free"}
    <2>1. plan \in Tier \cup {"free"} /\ seenPlan[d] \in Tier \cup {"free"}
      BY DEF IInv, TypeOK
    <2>2. QED
      BY <1>1, <2>1 DEF PlanWritten, Column, Kept
  <1>4. QED
    BY <1>2, <1>3

\* A commit writes what was flushed, of an event that had no effect before.
LEMMA CommitStep ==
    ASSUME BillingAssumption, IInv, NEW d \in Delivery, Commit(d)
    PROVE  IInv'
  <1>1. /\ pc[d] = "answered" /\ EndsAs(d, "done")
        /\ ent' = EntWritten(d) /\ mirror' = MirrorWritten(d) /\ plan' = PlanWritten(d)
        /\ revenue' = IF IsCheckout(d) THEN revenue \cup {Of[d]} ELSE revenue
        /\ ledger' = ledger \cup {Of[d]}
        /\ applied' = [applied EXCEPT ![Of[d]] = @ + 1]
        /\ writer' = Nobody /\ faults' = faults
    BY DEF Commit
  <1>2. Of[d] \in Event /\ Of[d] \notin ledger /\ Nobody \notin Delivery
    BY <1>1, ContentTyped DEF IInv, FlushedIsNew, Conflict, BillingAssumption
  <1>3. /\ TypeOK /\ SeenExists /\ LedgerCounts /\ EntIsPaid /\ NoRevenueDropped
        /\ applied \in [Event -> Nat]
    BY DEF IInv, TypeOK
  <1>4. ent' \in Ent /\ NoRow \notin Ent
    BY <1>1, EntWrittenFrom DEF BillingAssumption
  <1>5. \A e \in Event : applied'[e] = IF e = Of[d] THEN applied[e] + 1 ELSE applied[e]
    BY <1>1, <1>2, <1>3
  <1>6. "done" \in Location
    BY DEF Location
  <1>7. \A e \in Delivery : pc'[e] # "answered"
    <2>1. pc' = [pc EXCEPT ![d] = "done"] /\ pc \in [Delivery -> Location]
      BY <1>1, <1>3 DEF EndsAs, Goto, TypeOK
    <2>2. \A e \in Delivery \ {d} : pc[e] # "answered"
      BY <1>1, <1>3 DEF TypeOK
    <2>3. QED
      BY <2>1, <2>2
  <1>8. TypeOK'
    <2>1. mirror' \in [Delivery -> Mirror \cup {NoRow}] /\ plan' \in Tier \cup {"free"}
      BY <1>1, MirrorPlanTyped
    <2>2. revenue' \subseteq Event /\ ledger' \subseteq Event
      BY <1>1, <1>2, <1>3 DEF TypeOK
    <2>3. applied' \in [Event -> Nat]
      BY <1>1, <1>3
    <2>4. QED
      BY <1>1, <1>2, <1>3, <1>4, <1>6, <1>7, <2>1, <2>2, <2>3, EndsTyped DEF TypeOK
  <1>9. SeenExists'
    <2>1. \A e \in Delivery : mirror[e] # NoRow => mirror'[e] # NoRow
      BY <1>1, MirrorPlanTyped
    <2>2. SeenExists /\ EndsAs(d, "done")
      BY <1>1, <1>3
    <2>3. /\ \A e \in Delivery \ {d} : seenEnt'[e] = seenEnt[e] /\ seenRow'[e] = seenRow[e]
          /\ seenEnt'[d] = NoRow /\ seenRow'[d].row = NoRow
      BY <1>1, <1>3, <1>6, <2>2, EndsTyped
    <2>4. ent' # NoRow
      BY <1>4
    <2>5. QED
      BY <2>1, <2>2, <2>3, <2>4 DEF SeenExists
  <1>10. FlushedIsNew'
    BY <1>7 DEF FlushedIsNew
  <1>11. LedgerCounts'
    BY <1>1, <1>2, <1>3, <1>5 DEF LedgerCounts
  <1>12. EntIsPaid'
    <2>1. \A e \in Event : /\ applied[e] > 0 => applied'[e] > 0
                           /\ e = Of[d] => applied'[e] > 0
      BY <1>3, <1>5
    <2>2. ent'.status = "active" => \E e \in Event : applied'[e] > 0 /\ Activation(e)
      <3>1. CASE ent'.status = Asked(d)
        BY <1>2, <2>1, <3>1, ContentTyped DEF Activation
      <3>2. CASE ent # NoRow /\ ent'.status = ent.status
        BY <1>3, <2>1, <3>2 DEF EntIsPaid
      <3>3. QED
        BY <1>1, <3>1, <3>2, EntWrittenFrom
    <2>3. ent'.tier # "audit" => \E e \in Event : applied'[e] > 0 /\ ent'.tier \in TiersNamed(e)
      <3>1. CASE ent'.tier = AskedTier(d) /\ AskedTier(d) # NoTier
        <4>1. AskedTier(d) \in TiersNamed(Of[d])
          BY <3>1, ContentTyped DEF TiersNamed
        <4>2. QED
          BY <1>2, <2>1, <3>1, <4>1
      <3>2. CASE ent # NoRow /\ ent'.tier = ent.tier
        BY <1>3, <2>1, <3>2 DEF EntIsPaid
      <3>3. QED
        BY <1>1, <3>1, <3>2, EntWrittenFrom
    <2>4. QED
      BY <2>2, <2>3 DEF EntIsPaid, Activation, TiersNamed
  <1>13. NoRevenueDropped'
    <2>1. \A e \in Delivery : IsCheckout(e)' = IsCheckout(e)
      BY DEF IsCheckout, event, Content
    <2>2. QED
      BY <1>1, <1>3, <1>6, <2>1, EndsTyped DEF NoRevenueDropped
  <1>14. QED
    BY <1>8, <1>9, <1>10, <1>11, <1>12, <1>13 DEF IInv

LEMMA Invariance == Spec => []IInv
  <1>1. Init => IInv
    BY InitInv, BillingAssumption
  <1>2. IInv /\ [Next]_vars => IInv'
    <2> SUFFICES ASSUME IInv, [Next]_vars
                 PROVE  IInv'
      OBVIOUS
    <2> USE BillingAssumption
    <2>1. ASSUME NEW d \in Delivery, Commit(d)
          PROVE  IInv'
      BY <2>1, CommitStep
    <2>2. ASSUME NEW d \in Delivery,
                 \/ Ignore(d) \/ Replay(d) \/ Check(d) \/ Load(d) \/ LoadRefused(d)
                 \/ Flush(d) \/ FlushDuplicate(d) \/ FlushRaises(d)
                 \/ Fails(d) \/ CommitLost(d) \/ Redeliver(d)
          PROVE  IInv'
      BY <2>2, QuietSteps
    <2>3. CASE UNCHANGED vars
      BY <2>3 DEF vars, tables, loaded, IInv, TypeOK, SeenExists, FlushedIsNew, Conflict, IsCheckout,
                  event, Content, LedgerCounts, EntIsPaid, Activation, TiersNamed, NoRevenueDropped
    <2>4. QED
      BY <2>1, <2>2, <2>3 DEF Next, AllAnswered
  <1>3. QED
    BY <1>1, <1>2, PTL DEF Spec

-----------------------------------------------------------------------------
\* What billing promises

\* Every variable has its type, and only a delivery that has answered holds locks.
THEOREM TypeCorrect == Spec => []TypeOK
  <1>1. IInv => TypeOK
    BY DEF IInv
  <1>2. QED
    BY <1>1, Invariance, PTL

\* An event takes effect once at most (billing_webhook_events' unique event id).
THEOREM EventsApplyOnce == Spec => []AppliedOnce
  <1>1. IInv => AppliedOnce
    BY DEF IInv, LedgerCounts, AppliedOnce
  <1>2. QED
    BY <1>1, Invariance, PTL

\* A checkout that was answered without an error has its revenue recorded,
\* whatever race it lost (the IntegrityError branch of apply_webhook).
THEOREM PaymentsRecorded == Spec => []NoRevenueDropped
  <1>1. IInv => NoRevenueDropped
    BY DEF IInv
  <1>2. QED
    BY <1>1, Invariance, PTL

\* The gate is open only for a tier that is high enough and a status that is
\* paid, both said by the provider in events that were applied.
THEOREM GateOpensPaid == Spec => []GateIsPaid
  <1>1. IInv => GateIsPaid
    <2> SUFFICES ASSUME IInv, GateOpen
                 PROVE  /\ \E e \in Event : applied[e] > 0 /\ Activation(e)
                        /\ \E e \in Event : applied[e] > 0 /\
                              \E tier \in TiersNamed(e) : Rank[tier] >= Rank["sprint"]
      BY DEF GateIsPaid, Activation, TiersNamed
    <2>1. ent # NoRow /\ ent.status = "active" /\ Rank[ent.tier] >= Rank["sprint"]
      BY DEF GateOpen
    <2>2. ent.tier # "audit"
      BY <2>1 DEF Rank
    <2>3. QED
      BY <2>1, <2>2 DEF IInv, EntIsPaid
  <1>2. QED
    BY <1>1, Invariance, PTL
=============================================================================
