\* A purchase, its replay, the race with the subscription event, failures
CONSTANTS
    d1 = d1
    d2 = d2
    d3 = d3
    d4 = d4
    d5 = d5
    d6 = d6
    NoTier = NoTier
    NoRow = NoRow
    NoSub = NoSub
    Nobody = Nobody
    Sub = {"s1"}
    Tier <- Tiers
    Event <- Events
    Raw <- Raws
    TierByPrice <- Prices
    Delivery <- Deliveries
    Of <- DeliveryOf
    MaxFaults = 1
SPECIFICATION Spec
SYMMETRY Symmetry
INVARIANTS
    NoRevenueDropped
    AppliedOnce
    GateIsPaid
