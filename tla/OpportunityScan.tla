---------------------------- MODULE OpportunityScan ----------------------------
(***************************************************************************)
(* The opportunities of one organization: scans for contracts and grants   *)
(* (services/scan.py), the program finder (services/programs.py), and the  *)
(* filings started from them (services/filings.py, create_filing).         *)
(*                                                                         *)
(* A scan is a workflow run: one transaction that a worker executes.  When *)
(* an agent fails the run is marked failed and what it did is committed;   *)
(* when the database or the worker fails, everything is rolled back and    *)
(* the run is executed again.  A row is known by the run that inserted it  *)
(* and by its external id.                                                 *)
(***************************************************************************)
EXTENDS MatchScoring, Sequences, SequencesExt

CONSTANTS
    Company,     \* profiles the company may have, first to last: a sequence
    Notice,      \* [external id -> contract notice or grant]
    Program,     \* [external id -> program of the catalog]
    Scan,        \* runs, each asked for again and again
    Teams,       \* [Scan -> kind of opportunity], the combinations considered
    Found,       \* [kinds of scan -> answers of the source: sequences of external ids]
    Filer,       \* requests to start a filing
    TopN,        \* _RESEARCH_TOP_N
    NoRow, Unscored, NoId,
    MaxFailures  \* bound: failed sources, agents, transactions

Ext == DOMAIN Notice \cup DOMAIN Program
Id == Scan \X Ext
OpportunityKind == DOMAIN Found \cup {"program"}
Stage == {"idle", "queued", "finding", "researching", "scoring", "ranked", "checking",
          "writing", "written", "succeeded", "failed"}

Points == 0..100 \cup {Unscored}
Row == [kind : {"gov_contract", "grant", "program"}, score : Points, researched : BOOLEAN]
Update == [from : Points, to : Points, researched : BOOLEAN]

\* A notice says who may apply, if it is a grant, or whom it is set aside for.
IsGrant(e) == "applicants" \in DOMAIN Notice[e]

ASSUME ScanAssumption ==
    /\ DOMAIN Notice \cap DOMAIN Program = {}
    /\ \A e \in DOMAIN Notice :
          IF IsGrant(e) THEN Notice[e].applicants \in {"small", "restricted", "unstated"}
          ELSE Notice[e].setAside \in {"certified", "small", "none"}
    /\ \A e \in DOMAIN Program : IsFiniteSet(Program[e].signals)
    /\ Company \in Seq(Range(Company)) /\ Company # <<>>
    /\ DOMAIN Found \subseteq {"gov_contract", "grant"}
    /\ \A k \in DOMAIN Found : \A answer \in Found[k] :
          /\ answer \in Seq(DOMAIN Notice)
          /\ \A e \in Range(answer) : IsGrant(e) <=> k = "grant"
    /\ Teams \subseteq [Scan -> OpportunityKind]
    /\ TopN \in Nat /\ MaxFailures \in Nat
    /\ Unscored \notin 0..100 /\ NoRow \notin Row \cup Update

VARIABLES
    profile,   \* position in Company of the profile the company has now
    rows,      \* opportunities: [Id -> [kind, score, researched] or NoRow]
    kind,      \* [Scan -> kind of opportunity it is for]
    stage,     \* [Scan -> where it is]
    company,   \* [Scan -> position of the profile it has loaded last]
    hunt,      \* [Scan -> external ids of its list it has not come to]
    listed,    \* [Scan -> the rows it has found or inserted, in order]
    next,      \* [Scan -> how many of listed the current step is past]
    own,       \* [Scan -> its uncommitted rows, as rows]
    update,    \* [Scan -> [Id -> [from, to, researched] or NoRow]]
    doomed,    \* [Scan -> rows a finder wants to delete, then those it deletes]
    request,   \* [Filer -> "asked", "read", "inserted", "filed", "refused" or "gone"]
    wanted,    \* [Filer -> the row it starts from]
    overlap,   \* history: external ids two runs looked for at the same time
    unseen,    \* history: filings committed after a finder had looked for them
    failures   \* counts towards MaxFailures

scans == <<kind, company, hunt, listed, next, own, update, doomed>>
requests == <<request, wanted>>
opportunityVars == <<profile, rows, stage, scans, requests, overlap, unseen, failures>>

Present == {i \in Id : rows[i] # NoRow}
Nothing == [i \in Id |-> NoRow]

\* What r sees: the committed rows and its own.
Seen(r) == [i \in Id |-> IF own[r][i] # NoRow THEN own[r][i] ELSE rows[i]]

Active(r) == stage[r] \notin {"idle", "queued", "succeeded", "failed"}

-----------------------------------------------------------------------------

OpportunityInit ==
    /\ profile = 1
    /\ rows = Nothing
    /\ kind \in Teams
    /\ stage = [r \in Scan |-> "idle"]
    /\ company = [r \in Scan |-> 1]
    /\ hunt = [r \in Scan |-> <<>>]
    /\ listed = [r \in Scan |-> <<>>]
    /\ next = [r \in Scan |-> 0]
    /\ own = [r \in Scan |-> Nothing]
    /\ update = [r \in Scan |-> Nothing]
    /\ doomed = [r \in Scan |-> {}]
    /\ request = [f \in Filer |-> "asked"]
    /\ wanted = [f \in Filer |-> NoId]
    /\ overlap = {}
    /\ unseen = {}
    /\ failures = 0

\* The company's profile is changed, by an upload or by its owner.
Learn ==
    /\ profile < Len(Company)
    /\ profile' = profile + 1
    /\ UNCHANGED <<rows, stage, scans, requests, overlap, unseen, failures>>

\* The session of a run is closed.
Clean(r) ==
    /\ UNCHANGED kind
    /\ hunt' = [hunt EXCEPT ![r] = <<>>]
    /\ listed' = [listed EXCEPT ![r] = <<>>]
    /\ next' = [next EXCEPT ![r] = 0]
    /\ company' = [company EXCEPT ![r] = 1]
    /\ own' = [own EXCEPT ![r] = Nothing]
    /\ update' = [update EXCEPT ![r] = Nothing]
    /\ doomed' = [doomed EXCEPT ![r] = {}]

\* What row i becomes when r's work on it is committed: a column is written
\* only if it differs from the value r had loaded.
Merged(r, i) ==
    LET u == update[r][i] IN
    IF own[r][i] # NoRow
    THEN IF u = NoRow THEN own[r][i]
         ELSE [own[r][i] EXCEPT !.score = u.to, !.researched = @ \/ u.researched]
    ELSE IF u = NoRow \/ rows[i] = NoRow THEN rows[i]
    ELSE [rows[i] EXCEPT !.score = IF u.to = u.from THEN @ ELSE u.to,
                         !.researched = @ \/ u.researched]

Write(r) == rows' = [i \in Id |-> IF i \in doomed[r] THEN NoRow ELSE Merged(r, i)]

Touched(r) == {i \in Id : update[r][i] # NoRow} \cup doomed[r]

\* The rows whose changes r has still to send.  The record of an agent's run
\* flushes what was changed before it, so a scan has one such row at most.
Unsent(r) ==
    CASE stage[r] \in {"researching", "scoring"} -> IF next[r] = 0 THEN {} ELSE {listed[r][next[r]]}
      [] stage[r] = "written" -> {}
      [] OTHER -> Touched(r)

\* The rows r has changed in the database: nobody else changes them till it ends.
Locked(r) ==
    {i \in Touched(r) : \/ i \notin Unsent(r)
                        \/ stage[r] = "scoring" /\ update[r][i].researched}

Awaits(r, q) == Unsent(r) \cap Locked(q) # {}

\* r's next flush does not wait for another run.
Free(r) == \A q \in Scan \ {r} : ~Awaits(r, q)

\* Two runs wait for each other; the database ends one of them.
Deadlocked(r) == \E q \in Scan \ {r} : Awaits(r, q) /\ Awaits(q, r)

\* A scan is asked for (api/opportunities.py, api/programs.py).
Submit(r) ==
    /\ stage[r] \in {"idle", "succeeded", "failed"}
    /\ stage' = [stage EXCEPT ![r] = "queued"]
    /\ UNCHANGED <<profile, rows, scans, requests, overlap, unseen, failures>>

\* The database or the worker fails: the run goes back to the queue.
Requeue(r) ==
    /\ stage' = [stage EXCEPT ![r] = "queued"]
    /\ Clean(r)
    /\ UNCHANGED <<profile, rows, requests, overlap, unseen>>

ScanRolledBack(r) ==
    /\ Active(r)
    /\ IF Deadlocked(r) THEN UNCHANGED failures
       ELSE failures < MaxFailures /\ failures' = failures + 1
    /\ Requeue(r)

\* An agent raises: the run fails and commits what it has done.
Fails(r) ==
    /\ Free(r)
    /\ stage' = [stage EXCEPT ![r] = "failed"]
    /\ Write(r)
    /\ Clean(r)
    /\ UNCHANGED <<profile, requests, overlap, unseen>>

-----------------------------------------------------------------------------
\* discover_opportunities

\* The external ids that scans of kind k may come upon.
Sought(k) == IF k = "program" THEN DOMAIN Program
             ELSE UNION {Range(answer) : answer \in Found[k]}

Overlapping(r) ==
    {e \in Sought(kind[r]) : \E q \in Scan \ {r} : Active(q) /\ e \in Sought(kind[q])}

\* The profile shapes the query; a source that fails answers nothing.
ScanBegins(r) ==
    /\ kind[r] # "program" /\ stage[r] = "queued"
    /\ stage' = [stage EXCEPT ![r] = "finding"]
    /\ \/ \E answer \in Found[kind[r]] : hunt' = [hunt EXCEPT ![r] = answer]
          /\ UNCHANGED failures
       \/ failures < MaxFailures /\ failures' = failures + 1 /\ UNCHANGED hunt
    /\ overlap' = overlap \cup Overlapping(r)
    /\ UNCHANGED <<profile, rows, kind, company, listed, next, own, update, doomed,
                   requests, unseen>>

\* A seeded defect: a row is looked for among those that have been scored.
KnownScored(r, e) == {i \in Id : i[2] = e /\ Seen(r)[i] # NoRow /\ Seen(r)[i].score # Unscored}

\* The rows of an external id, of whatever kind.
Known(r, e) == {i \in Id : i[2] = e /\ Seen(r)[i] # NoRow}

Hunting(r) == stage[r] = "finding" /\ hunt[r] # <<>>

FindExisting(r) ==
    /\ Hunting(r)
    /\ \E i \in Known(r, Head(hunt[r])) :
         /\ Known(r, Head(hunt[r])) = {i}
         /\ listed' = [listed EXCEPT ![r] = Append(@, i)]
    /\ hunt' = [hunt EXCEPT ![r] = Tail(@)]
    /\ UNCHANGED <<profile, rows, stage, kind, company, next, own, update, doomed,
                   requests, overlap, unseen, failures>>

FindNew(r) ==
    LET i == <<r, Head(hunt[r])>> IN
    /\ Hunting(r)
    /\ Known(r, Head(hunt[r])) = {}
    /\ own' = [own EXCEPT ![r][i] =
                  [kind |-> kind[r], score |-> Unscored, researched |-> FALSE]]
    /\ listed' = [listed EXCEPT ![r] = Append(@, i)]
    /\ hunt' = [hunt EXCEPT ![r] = Tail(@)]
    /\ UNCHANGED <<profile, rows, stage, kind, company, next, update, doomed,
                   requests, overlap, unseen, failures>>

\* Two rows of one external id: the lookup raises, in every scan from now on.
FindAmbiguous(r) ==
    /\ Hunting(r)
    /\ Cardinality(Known(r, Head(hunt[r]))) > 1
    /\ Fails(r)
    /\ UNCHANGED failures

FindDone(r) ==
    /\ stage[r] = "finding" /\ hunt[r] = <<>>
    /\ stage' = [stage EXCEPT ![r] = IF kind[r] = "grant" THEN "scoring" ELSE "researching"]
    /\ company' = [company EXCEPT ![r] = profile]
    /\ UNCHANGED <<profile, rows, kind, hunt, listed, next, own, update, doomed,
                   requests, overlap, unseen, failures>>

-----------------------------------------------------------------------------
\* research_top_opportunities and score_opportunities

Top(r) == IF Len(listed[r]) < TopN THEN Len(listed[r]) ELSE TopN

ScoreSeen(r, i) ==
    IF update[r][i] # NoRow THEN update[r][i].to
    ELSE IF Seen(r)[i] # NoRow THEN Seen(r)[i].score ELSE Unscored

\* Award history and the agent's research go into the row's details.
Research(r) ==
    LET i == listed[r][next[r] + 1] IN
    /\ stage[r] = "researching" /\ next[r] < Top(r)
    /\ Free(r)
    /\ next' = [next EXCEPT ![r] = @ + 1]
    /\ update' = [update EXCEPT ![r][i] =
                     [from |-> ScoreSeen(r, i), to |-> ScoreSeen(r, i), researched |-> TRUE]]
    /\ UNCHANGED <<profile, rows, stage, kind, company, hunt, listed, own, doomed,
                   requests, overlap, unseen, failures>>

\* The profile is loaded again for the scores.
ResearchDone(r) ==
    /\ stage[r] = "researching" /\ next[r] = Top(r)
    /\ Free(r)
    /\ stage' = [stage EXCEPT ![r] = "scoring"]
    /\ next' = [next EXCEPT ![r] = 0]
    /\ company' = [company EXCEPT ![r] = profile]
    /\ UNCHANGED <<profile, rows, kind, hunt, listed, own, update, doomed,
                   requests, overlap, unseen, failures>>

\* The agent of the run's kind judges the profile it was given.
ScoreOf(r, i) ==
    IF kind[r] = "grant" THEN GrantScore(Company[company[r]], Notice[i[2]])
    ELSE ContractScore(Company[company[r]], Notice[i[2]])

\* A seeded defect: only the first TopN are scored.
ScoredTop(r) == Top(r)

\* How many of the list are scored: all of it.
ScoredUpTo(r) == Len(listed[r])

Score(r) ==
    LET i == listed[r][next[r] + 1] IN
    /\ stage[r] = "scoring" /\ next[r] < ScoredUpTo(r)
    /\ Free(r)
    /\ next' = [next EXCEPT ![r] = @ + 1]
    /\ update' = [update EXCEPT ![r][i] =
                     [from |-> IF update[r][i] # NoRow THEN update[r][i].from ELSE ScoreSeen(r, i),
                      to |-> ScoreOf(r, i),
                      researched |-> update[r][i] # NoRow /\ update[r][i].researched]]
    /\ UNCHANGED <<profile, rows, stage, kind, company, hunt, listed, own, doomed,
                   requests, overlap, unseen, failures>>

AgentFails(r) ==
    /\ stage[r] \in {"researching", "scoring"} /\ listed[r] # <<>>
    /\ failures < MaxFailures /\ failures' = failures + 1
    /\ Fails(r)

ScanSucceeds(r) ==
    /\ stage[r] = "scoring" /\ next[r] = ScoredUpTo(r)
    /\ Free(r)
    /\ stage' = [stage EXCEPT ![r] = "succeeded"]
    /\ Write(r)
    /\ Clean(r)
    /\ UNCHANGED <<profile, requests, overlap, unseen, failures>>

-----------------------------------------------------------------------------
\* run_program_scan

Eligible(c) == {e \in DOMAIN Program : Advice(ProgramScore(Company[c], Program[e])) # "no_apply"}

\* The agent ranks the catalog for the profile.
Rank(r) ==
    /\ kind[r] = "program" /\ stage[r] = "queued"
    /\ stage' = [stage EXCEPT ![r] = "ranked"]
    /\ company' = [company EXCEPT ![r] = profile]
    /\ overlap' = overlap \cup Overlapping(r)
    /\ UNCHANGED <<profile, rows, kind, hunt, listed, next, own, update, doomed,
                   requests, unseen, failures>>

RankFails(r) ==
    /\ stage[r] = "ranked"
    /\ failures < MaxFailures /\ failures' = failures + 1
    /\ Fails(r)

\* existing: one row for each program, any one of them if there are several.
OnePerProgram ==
    LET programs == {i \in Present : rows[i].kind = "program"} IN
    {S \in SUBSET programs : /\ \A e \in {i[2] : i \in programs} :
                                   Cardinality({i \in S : i[2] = e}) = 1}

\* Eligible programs are inserted or updated, the others are to be retracted.
Match(r) ==
    /\ stage[r] = "ranked"
    /\ \E existing \in OnePerProgram :
         LET eligible == Eligible(company[r])
             missing == eligible \ {i[2] : i \in existing}
             score(e) == ProgramScore(Company[company[r]], Program[e])
         IN  /\ own' = [own EXCEPT ![r] = [i \in Id |->
                           IF i[1] = r /\ i[2] \in missing
                           THEN [kind |-> "program", score |-> score(i[2]), researched |-> FALSE]
                           ELSE NoRow]]
             /\ update' = [update EXCEPT ![r] = [i \in Id |->
                              IF i \in existing /\ i[2] \in eligible
                              THEN [from |-> rows[i].score, to |-> score(i[2]), researched |-> FALSE]
                              ELSE NoRow]]
             /\ doomed' = [doomed EXCEPT ![r] = {i \in existing : i[2] \notin eligible}]
    /\ stage' = [stage EXCEPT ![r] = "checking"]
    /\ UNCHANGED <<profile, rows, kind, company, hunt, listed, next,
                   requests, overlap, unseen, failures>>

\* A seeded defect: filings are not looked for.
FiledNone == {}

\* The rows a filing has been started from, as far as it is committed.
Filed == {wanted[f] : f \in {g \in Filer : request[g] = "filed"}}

Check(r) ==
    /\ stage[r] = "checking"
    /\ doomed' = [doomed EXCEPT ![r] = @ \ Filed]
    /\ stage' = [stage EXCEPT ![r] = "writing"]
    /\ UNCHANGED <<profile, rows, kind, company, hunt, listed, next, own, update,
                   requests, overlap, unseen, failures>>

\* A row to be updated has been deleted since it was read.
Stale(r) == \E i \in Id : update[r][i] # NoRow /\ rows[i] = NoRow

\* The statements are sent; a delete waits for a filing that refers to the row.
Flush(r) ==
    /\ stage[r] = "writing" /\ Free(r)
    /\ \A f \in Filer : request[f] = "inserted" => wanted[f] \notin doomed[r]
    /\ IF Stale(r) THEN Requeue(r)
       ELSE /\ stage' = [stage EXCEPT ![r] = "written"]
            /\ UNCHANGED <<profile, rows, scans, requests, overlap, unseen>>
    /\ UNCHANGED failures

\* The commit; filings are deleted with the row they refer to.
FinderSucceeds(r) ==
    /\ stage[r] = "written"
    /\ stage' = [stage EXCEPT ![r] = "succeeded"]
    /\ request' = [f \in Filer |-> IF request[f] = "filed" /\ wanted[f] \in doomed[r]
                                   THEN "gone" ELSE request[f]]
    /\ Write(r)
    /\ Clean(r)
    /\ UNCHANGED <<profile, wanted, overlap, unseen, failures>>

-----------------------------------------------------------------------------
\* create_filing

\* A filing of a program; other rows are never deleted, and filings of them
\* change nothing here.
FilingReads(f) ==
    /\ request[f] = "asked"
    /\ \E i \in {j \in Present : rows[j].kind = "program"} : wanted' = [wanted EXCEPT ![f] = i]
    /\ request' = [request EXCEPT ![f] = "read"]
    /\ UNCHANGED <<profile, rows, stage, scans, overlap, unseen, failures>>

\* The foreign key waits for a delete that is not committed, and refuses a row
\* that is gone.
FilingInserts(f) ==
    /\ request[f] = "read"
    /\ \A r \in Scan : stage[r] = "written" => wanted[f] \notin doomed[r]
    /\ request' = [request EXCEPT ![f] =
                      IF rows[wanted[f]] = NoRow THEN "refused" ELSE "inserted"]
    /\ UNCHANGED <<profile, rows, stage, scans, wanted, overlap, unseen, failures>>

FilingCommits(f) ==
    /\ request[f] = "inserted"
    /\ request' = [request EXCEPT ![f] = "filed"]
    /\ unseen' = IF \E r \in Scan : stage[r] = "writing" /\ wanted[f] \in doomed[r]
                THEN unseen \cup {f} ELSE unseen
    /\ UNCHANGED <<profile, rows, stage, scans, wanted, overlap, failures>>

-----------------------------------------------------------------------------

Execute(r) ==
    \/ ScanBegins(r) \/ FindExisting(r) \/ FindNew(r) \/ FindAmbiguous(r) \/ FindDone(r)
    \/ Research(r) \/ ResearchDone(r) \/ Score(r) \/ AgentFails(r) \/ ScanSucceeds(r)
    \/ Rank(r) \/ RankFails(r) \/ Match(r) \/ Check(r) \/ Flush(r) \/ FinderSucceeds(r)
    \/ ScanRolledBack(r)

Serve(f) == FilingReads(f) \/ FilingInserts(f) \/ FilingCommits(f)

OpportunityNext == Learn \/ (\E r \in Scan : Submit(r) \/ Execute(r)) \/ (\E f \in Filer : Serve(f))

OpportunitySpec == OpportunityInit /\ [][OpportunityNext]_opportunityVars

-----------------------------------------------------------------------------

\* The variables hold what their comments say, and a row that is not committed
\* is in the table of no other run.
OpportunityTypeOK ==
    /\ profile \in DOMAIN Company
    /\ \A i \in Id : rows[i] = NoRow \/ rows[i] \in Row
    /\ stage \in [Scan -> Stage]
    /\ kind \in [Scan -> OpportunityKind]
    /\ \A r \in Scan, i \in Id : own[r][i] # NoRow => i[1] = r /\ own[r][i] \in Row
    /\ \A r \in Scan : next[r] \in 0..Len(listed[r])
    /\ \A r \in Scan, i \in Id : update[r][i] = NoRow \/ update[r][i] \in Update
    /\ \A r \in Scan : ~Active(r) => own[r] = Nothing /\ doomed[r] = {}
    /\ \A f \in Filer : request[f] \in {"asked", "read", "inserted", "filed", "refused", "gone"}
    /\ failures \in 0..MaxFailures

\* An opportunity is stored twice only if two runs looked for it at the same
\* time: not by scanning again, nor by taking a failed scan up again.
DuplicatesOnlyByOverlap ==
    \A i, j \in Present : i # j /\ i[2] = j[2] => i[2] \in overlap

\* A scan that succeeded has scored everything it lists, the rows an earlier
\* scan left without a score too, and by a profile the company has had.
SucceededIsScored ==
    [][\A r \in Scan : stage[r] = "scoring" /\ stage'[r] = "succeeded" =>
          \A i \in Range(listed[r]) : \E c \in 1..profile :
             rows'[i].score = IF kind[r] = "grant" THEN GrantScore(Company[c], Notice[i[2]])
                              ELSE ContractScore(Company[c], Notice[i[2]])]_opportunityVars

\* A filing disappears with the program it was started from only if it was
\* committed after the finder had looked for filings.
FilingSurvives ==
    [][\A f \in Filer : request[f] = "filed" /\ request'[f] = "gone" => f \in unseen]_opportunityVars

\* A program the finder has listed is not retracted, nor its score lowered,
\* because the company states more, whatever runs of the finder interleave: only
\* if the profile it was judged by lacks something that the profile of its score
\* had, or has a description in the place of a capability statement.
KeptWhileStated ==
    [][\A r \in Scan, i \in Present, c \in 1..profile :
          /\ stage[r] = "written" /\ stage'[r] = "succeeded"
          /\ i[2] \in DOMAIN Program
          /\ rows[i].score = ProgramScore(Company[c], Program[i[2]])
          /\ Extends(Company[company[r]], Company[c]) /\ ~Displaces(Company[company[r]], Company[c])
          => rows'[i] # NoRow /\ rows'[i].score >= rows[i].score]_opportunityVars
=============================================================================
