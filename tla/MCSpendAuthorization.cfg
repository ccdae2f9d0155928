\* Swipes and edits: interleavings, a repeated delivery, failures, midnight
CONSTANTS
    NoValue = NoValue
    NoBudget = NoBudget
    NoRule = NoRule
    Value <- Values
    Fold <- Lower
    Charge <- Charges
    Delivery <- Deliveries
    Of <- DeliveryOf
    Amount <- Amounts
    Field <- ChargeFields
    UnknownCard = {"c4"}
    Budget <- Budgets
    FirstBudgets <- DailyBudget
    Edit <- Edits
    Wanted <- Wishes
    Crews <- Comers
    MaxDay = 1
    MaxFaults = 2
SPECIFICATION Spec
INVARIANTS
    WithinLimit
    ReplyIsRecorded
    ToldOnceOfADecline
