\* Two extractions, two mappings, a page
CONSTANTS
    NoKey = NoKey
    NoSection = NoSection
    Extract = {e1, e2}
    Match = {m1, m2}
    View = {v1}
    Key <- Keys
    Solicitation <- Texts
    Outputs <- Findings
    Providers = {"mock", "llm"}
    Verdict = {"partial", "other"}
    MaxFaults = 1
SPECIFICATION Spec
INVARIANTS
    RepeatedOnlyByOverlap
    ExtractedIsKept
    PageAgrees
PROPERTIES
    VerdictsOnlyLostByFailure
