\* Two replicas scan, a sync, a closing, the day after the cooldown
CONSTANTS
    Keep = Keep
    NoRow = NoRow
    Never = Never
    Key <- Keys
    Baseline <- Base
    Renewals <- Table
    Cert <- Certs
    Hits <- HitsOf
    Held <- HeldCerts
    Deliverables = {}
    Owned = TRUE
    LeadDays = 1
    CooldownDays = 2
    Scanner = {"w1", "w2"}
    Sync = {"y1"}
    Patch = {"close"}
    Wanted <- Closing
    MaxDay = 2
    MaxCutOffs = 1
SPECIFICATION ObligationSpec
INVARIANTS
    OneReminderPerCooldown
PROPERTIES
    ClosedStaysClosed
    DueIsReminded
