\* A source that does not answer
CONSTANTS
    NoDraft = NoDraft
    NoDoc = NoDoc
    Doc <- Docs
    Jurisdiction = {"federal"}
    Configured <- Federal
    StateSources <- States
    PageSize = 1
    Discovery = TRUE
    Target <- Targets
    MaxTargets = 1
    TokenBudget = 1
    Tokens = {0, 1}
    BatchSize = 2
    Scheduler = {"scheduler"}
    Command <- Commands
    Crews <- Teams
    MaxPublished <- Published
    MaxProposals = 1
    MaxFaults = 1
SPECIFICATION Spec
PROPERTY
    OutageIsRetried
