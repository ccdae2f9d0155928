\* A run of three agents, executed twice at most
CONSTANTS
    Calls = 3
    Sizes = {1, 2}
    TokenBudget = 4
    Retries = 1
    MaxAttempts = 2
    MaxLost = 1
SPECIFICATION AgentSpec
INVARIANTS
    TrailTellsAll
    RecordedWithinBudget
CHECK_DEADLOCK FALSE
