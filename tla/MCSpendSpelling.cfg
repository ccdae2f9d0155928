\* A category budget spelled unlike the charges it governs
CONSTANTS
    NoValue = NoValue
    NoBudget = NoBudget
    NoRule = NoRule
    Value <- Values
    Fold <- Lower
    Charge <- SpeltCharges
    Delivery <- SpeltDeliveries
    Of <- SpeltDeliveryOf
    Amount <- SpeltAmounts
    Field <- SpeltFields
    UnknownCard = {}
    Budget <- SpeltBudgets
    FirstBudgets <- SpeltBudget
    Edit = {}
    Wanted <- NoEdits
    Crews <- Everyone
    MaxDay = 0
    MaxFaults = 0
SPECIFICATION Spec
INVARIANT
    WithinLimit
