\* One payment sent twice, two rules of equal priority, two reviewers
CONSTANTS
    Missing = Missing
    NoRule = NoRule
    NoPolicy = NoPolicy
    NoId = NoId
    NoEvent = NoEvent
    Nobody = Nobody
    Account = {"bank"}
    DefaultAction <- Default
    Text <- Texts
    ForAccount <- TextFor
    OrgWide <- TextOrgWide
    Extracted <- Rules
    PolicyId <- Ids
    Evaluation <- Evaluations
    OnAccount <- AccountOf
    ExternalId <- OnePayment
    Fact <- Facts
    Review <- Reviews
    Reviewed <- SamePaymentReviewed
    Choice <- Disagree
    Word <- Words
    Norm <- Lower
    Before <- Alphabetical
    Inside <- Substrings
    MaxFaults = 1
SPECIFICATION Spec
INVARIANTS
    DecidedOnce
    StandingRulesObeyed
    OneEventPerPayment
