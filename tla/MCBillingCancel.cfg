\* Is a cancellation ever refused?
CONSTANTS
    d1 = d1
    d2 = d2
    d3 = d3
    d4 = d4
    d5 = d5
    d6 = d6
    NoTier = NoTier
    NoRow = NoRow
    NoSub = NoSub
    Nobody = Nobody
    Sub = {"s1"}
    Tier <- Tiers
    Event <- UsualEvents
    Raw <- UsualRaws
    TierByPrice <- Prices
    Delivery <- UsualDeliveries
    Of <- UsualOf
    MaxFaults = 0
SPECIFICATION Spec
INVARIANT
    CancelIsNotRefused
