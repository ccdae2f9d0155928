\* Two scans, two finders, a filing
CONSTANTS
    NoCode = NoCode
    NoPlace = NoPlace
    NoRow = NoRow
    NoId = NoId
    Unscored = Unscored
    NoFact = NoFact
    SectorOf <- Codes
    Says <- Phrases
    NoCategory = NoCategory
    Demand <- Demands
    Fact <- Facts
    Kept = 2
    Company <- Profiles
    Notice <- Notices
    Program <- Catalog
    Scan = {w1, w2}
    Teams <- Runners
    Found <- Answers
    Filer = {f}
    TopN = 1
    MaxFailures = 1
SPECIFICATION OpportunitySpec
INVARIANT
    DuplicatesOnlyByOverlap
PROPERTIES
    SucceededIsScored
    FilingSurvives
    KeptWhileStated
