----------------------------- MODULE MatchScoring -----------------------------
(***************************************************************************)
(* How the offline agents score a company against a contract notice        *)
(* (agents/opportunity.py), a grant (agents/grant.py) and a program of the *)
(* catalog (agents/program_finder.py), and the advice a score gives.       *)
(*                                                                         *)
(* Texts are reduced to what the code looks for in them: a notice has the  *)
(* set of services its title mentions, a text of the profile the phrases   *)
(* that occur in it, none if it is blank.  Phrases that would straddle two *)
(* texts joined by a space are left out.                                   *)
(***************************************************************************)
EXTENDS Integers, FiniteSets

CONSTANTS
    SectorOf,   \* [NAICS code -> its three-digit sector]
    Says,       \* [service or NAICS code -> the phrases that occur in it]
    Demand,     \* [requirement of a filing -> the significant words of its text]
    Fact,       \* [item of evidence -> the significant words of its content]
    Kept,       \* how many items the agent is shown for a requirement
    NoCode, NoPlace, NoCategory, NoFact

Clamped(score) == IF score < 0 THEN 0 ELSE IF score > 100 THEN 100 ELSE score

ASSUME MatchingAssumption ==
    /\ IsFiniteSet(DOMAIN Demand) /\ IsFiniteSet(DOMAIN Fact)
    /\ \A r \in DOMAIN Demand : IsFiniteSet(Demand[r])
    /\ Kept \in Nat

\* A company is [naics, services, certs, industry, description, statement,
\* targets, place], of which industry, description and capability statement are
\* texts; a contract notice is [naics, mentions, setAside, hints, place].

\* The profile a states all that b states.
Extends(a, b) ==
    /\ \A field \in {"naics", "services", "certs", "industry", "description", "statement", "targets"} :
          b[field] \subseteq a[field]
    /\ b.place \in {NoPlace, a.place}

\* A description is stated where there was only the capability statement: the
\* program finder reads one or the other.
Displaces(a, b) == b.description = {} /\ b.statement # {} /\ a.description # {}

SaidBy(names) == UNION {Says[n] : n \in names}

NaicsPoints(company, notice) ==
    IF notice.naics = NoCode THEN 0
    ELSE IF notice.naics \in company.naics THEN 45
    ELSE IF \E c \in company.naics : SectorOf[c] = SectorOf[notice.naics] THEN 25
    ELSE 0

ServicePoints(company, notice) ==
    IF company.services \cap notice.mentions # {} THEN 20 ELSE 5

SetAsidePoints(company, notice) ==
    CASE notice.setAside = "certified" -> IF company.certs \cap notice.hints # {} THEN 25 ELSE -10
      [] notice.setAside = "small" -> 15
      [] notice.setAside = "none" -> 8

PlacePoints(company, notice) ==
    IF company.place # NoPlace /\ company.place = notice.place THEN 7 ELSE 0

\* FitScoringAgent.mock_output
ContractScore(company, notice) ==
    Clamped(NaicsPoints(company, notice) + ServicePoints(company, notice)
            + SetAsidePoints(company, notice) + PlacePoints(company, notice))

\* A grant is [applicants, category, words, akin]: who may apply, its category as
\* a phrase (or NoCategory), the longer words of that, and the funding categories
\* that contain it or are contained in it.
EligiblePoints(grant) ==
    CASE grant.applicants = "small" -> 35
      [] grant.applicants = "restricted" -> 5
      [] grant.applicants = "unstated" -> 20

\* What the grant agent reads of the company: its industry and services.
Focus(company) == company.industry \cup SaidBy(company.services)

MissionPoints(company, grant) ==
    IF grant.category = NoCategory THEN 0
    ELSE IF grant.category \in Focus(company) THEN 30
    ELSE IF grant.words \cap Focus(company) # {} THEN 15
    ELSE 0

TargetPoints(company, grant) ==
    IF grant.category # NoCategory /\ grant.akin \cap company.targets # {} THEN 10 ELSE 0

\* GrantFitAgent.mock_output
GrantScore(company, grant) ==
    Clamped(EligiblePoints(grant) + MissionPoints(company, grant)
            + TargetPoints(company, grant))

\* A seeded defect: a company that names services is not asked for more.
HaystackOfServices(company) ==
    IF company.services # {} THEN SaidBy(company.services \cup company.naics)
    ELSE company.description \cup company.statement \cup SaidBy(company.naics)

\* What the program finder reads: the description, or the capability statement
\* if that is blank, with services and codes.
Haystack(company) ==
    (IF company.description # {} THEN company.description ELSE company.statement)
        \cup SaidBy(company.services \cup company.naics)

\* ProgramFinderAgent.mock_output: a program is [requires, broad, signals].
ProgramScore(company, program) ==
    LET hits == program.signals \cap Haystack(company) IN
    IF program.requires # {}
    THEN IF program.requires \cap company.certs # {} THEN 85
         ELSE IF hits # {} THEN 50 ELSE 25
    ELSE IF program.broad THEN 68
    ELSE IF 30 + Cardinality(hits) * 16 > 95 THEN 95 ELSE 30 + Cardinality(hits) * 16

\* bid or apply, review, and the advice against.
Advice(score) == IF score >= 60 THEN "apply" ELSE IF score >= 40 THEN "review" ELSE "no_apply"

-----------------------------------------------------------------------------
\* How the offline agents judge requirements by evidence (agents/matching.py)
\* and a filing by its requirements (agents/recommendation.py).

\* The words of requirement r that an item covers.
Overlap(r, item) == Cardinality(Demand[r] \cap Fact[item])

\* What map_evidence may show of a vault: the items nearest to r come first,
\* equally near ones in any order, and the others are cut off.
Shown(r, vault) ==
    LET near == {item \in vault : Overlap(r, item) > 0} IN
    {C \in SUBSET near :
        /\ Cardinality(C) = IF Cardinality(near) < Kept THEN Cardinality(near) ELSE Kept
        /\ \A c \in C, d \in near \ C : Overlap(r, c) >= Overlap(r, d)}

\* EvidenceMappingAgent.mock_output: the best item shown, and a status by the
\* share of r's words it covers; a weak one is not cited.
Judged(r, shown) ==
    LET best == {c \in shown : \A d \in shown : Overlap(r, c) >= Overlap(r, d)} IN
    IF Demand[r] = {} \/ best = {} THEN {[status |-> "missing", item |-> NoFact]}
    ELSE {LET covered == 100 * Overlap(r, c)
              words == Cardinality(Demand[r]) IN
          IF covered >= 45 * words THEN [status |-> "matched", item |-> c]
          ELSE IF covered >= 20 * words THEN [status |-> "partial", item |-> c]
          ELSE [status |-> "missing", item |-> NoFact] : c \in best}

\* The statuses r may be given by a vault whose items are `inferred` or the owner's.
Statuses(r, vault, inferred) ==
    {IF v.status = "matched" /\ v.item \notin inferred THEN "user_provided" ELSE v.status :
        v \in UNION {Judged(r, shown) : shown \in Shown(r, vault)}}

\* build_recommendation: requirements by how they are met.
Met(matrix) == {r \in DOMAIN matrix : matrix[r] \in {"matched", "user_provided"}}
Partly(matrix) == {r \in DOMAIN matrix : matrix[r] = "partial"}
MandatoryGaps(matrix, mandatory) == Cardinality(mandatory \ Met(matrix))

\* FitRecommendationAgent.mock_output, in tenths of a point per requirement: 70
\* for coverage, 30 for the triage score, 6 off for a mandatory gap.
RecommendationScore(matrix, mandatory, triage) ==
    LET total == IF DOMAIN matrix = {} THEN 1 ELSE Cardinality(DOMAIN matrix)
        points == 350 * (2 * Cardinality(Met(matrix)) + Cardinality(Partly(matrix)))
                    + total * (3 * triage - 60 * MandatoryGaps(matrix, mandatory))
    IN IF points < 0 THEN 0 ELSE IF points > 1000 * total THEN 1000 * total ELSE points

Pursue(matrix, mandatory, triage) ==
    LET total == IF DOMAIN matrix = {} THEN 1 ELSE Cardinality(DOMAIN matrix) IN
    /\ RecommendationScore(matrix, mandatory, triage) >= 550 * total
    /\ MandatoryGaps(matrix, mandatory) <= 3

\* The matrices that mapping a vault may end with.
Matrices(vault, inferred) ==
    LET S == [r \in DOMAIN Demand |-> Statuses(r, vault, inferred)]
    IN {m \in [DOMAIN Demand -> {"matched", "user_provided", "partial", "missing"}] :
           \A r \in DOMAIN Demand : m[r] \in S[r]}

\* Evidence the company adds, from its documents or its owner, never lowers
\* the score of a filing's recommendation and never turns "pursue" around,
\* whatever was cut off and however ties were broken.
EvidenceNeverHurts ==
    \A mandatory \in SUBSET DOMAIN Demand, inferred \in SUBSET DOMAIN Fact :
    \A more \in SUBSET DOMAIN Fact : \A vault \in SUBSET more :
    \A a \in Matrices(vault, inferred), b \in Matrices(more, inferred), triage \in {0, 50, 100} :
        /\ RecommendationScore(a, mandatory, triage) <= RecommendationScore(b, mandatory, triage)
        /\ Pursue(a, mandatory, triage) => Pursue(b, mandatory, triage)
=============================================================================
