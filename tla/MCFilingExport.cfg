\* An approval of the package raced by a rebuild, then an export
CONSTANTS
    NoDocs = NoDocs
    rec1 = rec1
    match1 = match1
    build1 = build1
    build2 = build2
    hr1 = hr1
    Run = {rec1, build1, build2}
    Kind <- Kinds
    Human = {hr1, hp1}
    Target <- Targets
    Download = {x1}
    MaxFaults = 0
SYMMETRY Alike
SPECIFICATION Spec
INVARIANT ExportIsApproved
