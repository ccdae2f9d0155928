\* A review, a recommendation, two builds, a decision on each, an export
CONSTANTS
    NoDocs = NoDocs
    rec1 = rec1
    match1 = match1
    build1 = build1
    build2 = build2
    hr1 = hr1
    Run = {rec1, match1, build1, build2}
    Kind <- Kinds
    Human = {hr1, hp1}
    Target <- Targets
    Download = {x1}
    MaxFaults = 1
SYMMETRY Alike
SPECIFICATION Spec
INVARIANTS
    TypeOK
    OneVersionPerBuild
    ReadyWasChecked
    SerialGates
