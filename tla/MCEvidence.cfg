\* Documents, evidence and the profile, a crew at a time
CONSTANTS
    i1 = i1
    i2 = i2
    i3 = i3
    m1 = m1
    m2 = m2
    g1 = g1
    b1 = b1
    b2 = b2
    p1 = p1
    p2 = p2
    o1 = o1
    Doc = {d1, d2}
    Ingest = {i1, i2, i3}
    Content = {a, b}
    Blank = {b}
    NoText = NoText
    NoDoc = NoDoc
    Tries = 2
    MaxBlobs = 1
    MaxFaults = 1
    Field = {services, description}
    Wizard = {description}
    Brain = {b1, b2}
    Patch = {p1, p2}
    Onboard = {o1}
    NoProfile = NoProfile
    Map = {m1, m2}
    Gap = {g1}
    Requirement = {r1, r2}
    Answers = {"matched", "user_provided", "other"}
    NoItem = NoItem
    NoMatch = NoMatch
    Crews <- Teams
    Package = {k1}
    Packaging <- Sellers
SPECIFICATION PackageSpec
SYMMETRY Symmetry
INVARIANTS
    ParsedIsCitedOnce
    UncitedOnlyByReplacement
    RepeatedOnlyByOverlap
    ApprovedIsSupported
PROPERTY OwnerWins
CHECK_DEADLOCK FALSE
