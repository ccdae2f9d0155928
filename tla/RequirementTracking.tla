------------------------- MODULE RequirementTracking -------------------------
(***************************************************************************)
(* The requirements of one filing: runs that extract them from the         *)
(* solicitation (services/filings.py, agents/requirements.py), runs that   *)
(* give each a verdict (services/evidence.py; what a verdict rests on is   *)
(* in EvidenceMapping), and the page that shows them with their verdicts   *)
(* (api/filings.py, services/compliance.py).                               *)
(*                                                                         *)
(* Nothing in the database keeps two rows of a filing from saying the same *)
(* thing: a run compares what its agent found with the rows it reads after *)
(* the agent has answered, by a normalized prefix of the text.  A run is   *)
(* one transaction, a page several statements, under READ COMMITTED.       *)
(***************************************************************************)
EXTENDS Naturals, Sequences, FiniteSets, SequencesExt

CONSTANTS
    Extract,       \* runs of requirement_extraction
    Match,         \* runs of evidence_match
    View,          \* requests for the filing's page
    Key,           \* [text -> normalized prefix, or NoKey if nothing is left]
    Solicitation,  \* texts the opportunity may have: sequences of sentences
    Outputs,       \* what a language model may answer: sequences of requirements
    Providers,     \* of the language model: "mock" or "llm"
    Verdict,       \* statuses a match may have: what an agent answers is not checked
    NoKey, NoSection,
    MaxFaults      \* bound: failed agents and lost transactions

Text == DOMAIN Key

\* MatchStatus: the statuses that the code knows.
Status == {"matched", "partial", "missing", "user_provided"}

ASSUME RequirementAssumption ==
    /\ Extract \cap Match = {} /\ Extract \cap View = {} /\ Match \cap View = {}
    /\ \A s \in Solicitation :
          /\ s \in Seq(Range(s))
          /\ \A i \in DOMAIN s :
                /\ s[i].text \in Text /\ s[i].short \in BOOLEAN
                /\ s[i].cue \in {"mandatory", "soft", "none"}
    /\ \A o \in Outputs : o \in Seq(Range(o)) /\ \A i \in DOMAIN o : o[i].text \in Text
    /\ Providers \subseteq {"mock", "llm"}
    /\ MaxFaults \in Nat

VARIABLES
    provider,      \* settings.llm_provider
    solicitation,  \* raw_text of the opportunity
    stage,         \* [Extract \cup Match \cup View -> where it is]
    answer,        \* [Extract -> what its agent found, in order]
    known,         \* [Extract -> the keys it has read]
    rows,          \* filing_requirements: [by, nth, requirement]
    matches,       \* evidence_matches: [row, by, status]
    judging,       \* [Match -> the rows it gives a verdict]
    erased,        \* [Match -> the matches it deletes]
    page,          \* [View -> [listed, matrix, verdicts]]
    before,        \* history: [View -> the rows that had a match when it began]
    raced,         \* history: pairs of extractions of which neither could see the other
    joint,         \* history: pairs of mappings that were at work at once
    faults         \* counts towards MaxFaults

vars == <<provider, solicitation, stage, answer, known, rows, matches, judging, erased, page,
          before, raced, joint, faults>>

NoPage == [listed |-> {}, matrix |-> {}, verdicts |-> <<>>]

Init ==
    /\ provider \in Providers
    /\ solicitation \in Solicitation
    /\ stage = [x \in Extract \cup Match \cup View |-> "idle"]
    /\ answer = [e \in Extract |-> <<>>]
    /\ known = [e \in Extract |-> {}]
    /\ rows = {}
    /\ matches = {}
    /\ judging = [m \in Match |-> {}]
    /\ erased = [m \in Match |-> {}]
    /\ page = [v \in View |-> NoPage]
    /\ before = [v \in View |-> {}]
    /\ raced = {}
    /\ joint = {}
    /\ faults = 0

mappings == <<matches, judging, erased, joint>>

Goes(x, to) == stage' = [stage EXCEPT ![x] = to]

Fault == faults < MaxFaults /\ faults' = faults + 1

\* A mapping has loaded the requirements and not ended.
Mapping(m) == stage[m] \in {"loaded", "erasing", "judging"}

\* Its session is closed.
Closed(m) ==
    /\ judging' = [judging EXCEPT ![m] = {}]
    /\ erased' = [erased EXCEPT ![m] = {}]

-----------------------------------------------------------------------------
\* The mock model

\* A sentence that is long enough and has a cue,
Cued(sentence) == sentence.cue # "none" /\ ~sentence.short

\* unless one before it has the same key.
Taken(text) ==
    {i \in DOMAIN text :
        /\ Cued(text[i])
        /\ \A j \in 1..(i - 1) : Cued(text[j]) => Key[text[j].text] # Key[text[i].text]}

\* The last heading met.
Locator(text, i) ==
    LET met == {j \in 1..i : text[j].heading # NoSection} IN
    IF met = {} THEN NoSection ELSE text[Max(met)].heading

\* What is found is told apart by the sentence it is in: only the order counts.  A
\* soft cue has confidence 0.6, so that nothing the mock finds needs a review.
MockOutput(text) ==
    [i \in Taken(text) |->
        [text |-> text[i].text, mandatory |-> text[i].cue = "mandatory",
         locator |-> Locator(text, i), review |-> FALSE]]

Answers == IF provider = "mock" THEN {MockOutput(solicitation)} ELSE Outputs

-----------------------------------------------------------------------------
\* Extraction

\* _dispatch: a new run is queued.
Dispatched(x) == Goes(x, "queued")

\* extract_requirements and match_evidence: at any time, in any status of the
\* filing.
Asked(x) ==
    /\ stage[x] = "idle"
    /\ Dispatched(x)
    /\ UNCHANGED <<provider, solicitation, answer, known, rows, mappings, page, before, raced,
                   faults>>

\* Without a text the run waits for input; no endpoint supplies it.
Parks(e) ==
    /\ stage[e] = "queued"
    /\ solicitation = <<>>
    /\ Goes(e, "needs_input")
    /\ UNCHANGED <<provider, solicitation, answer, known, rows, mappings, page, before, raced,
                   faults>>

\* A seeded defect: rows are not compared by their key.
KeysRead == {row.requirement.text : row \in rows}

\* Of the rows committed by now.
ExistingKeys == {Key[row.requirement.text] : row \in rows}

\* The agent answers, then the rows of the filing are read.
Reads(e) ==
    /\ stage[e] = "queued"
    /\ solicitation # <<>>
    /\ \E found \in Answers : answer' = [answer EXCEPT ![e] = found]
    /\ known' = [known EXCEPT ![e] = ExistingKeys]
    /\ Goes(e, "read")
    /\ UNCHANGED <<provider, solicitation, rows, mappings, page, before, raced, faults>>

\* A seeded defect: what is soft is passed over, too.
AddedFirm(e) ==
    {i \in DOMAIN answer[e] :
        /\ Key[answer[e][i].text] \notin known[e] \cup {NoKey}
        /\ answer[e][i].mandatory
        /\ \A j \in DOMAIN answer[e] :
              j < i => Key[answer[e][j].text] # Key[answer[e][i].text]}

\* What it found whose key is not known, nor that of something before it.
Added(e) ==
    {i \in DOMAIN answer[e] :
        /\ Key[answer[e][i].text] \notin known[e] \cup {NoKey}
        /\ \A j \in DOMAIN answer[e] :
              j < i => Key[answer[e][j].text] # Key[answer[e][i].text]}

Inserted(e) == {[by |-> e, nth |-> i, requirement |-> answer[e][i]] : i \in Added(e)}

\* The rows are inserted and committed.
Files(e) ==
    /\ stage[e] = "read"
    /\ rows' = rows \cup Inserted(e)
    /\ raced' = raced \cup {{e, f} : f \in {g \in Extract \ {e} : stage[g] = "read"}}
    /\ Goes(e, "done")
    /\ UNCHANGED <<provider, solicitation, answer, known, mappings, page, before, faults>>

\* The agent fails, the run with it.
AgentFails(e) ==
    /\ stage[e] = "queued"
    /\ solicitation # <<>>
    /\ Fault
    /\ Goes(e, "failed")
    /\ UNCHANGED <<provider, solicitation, answer, known, rows, mappings, page, before, raced>>

\* A crash or a database error: rolled back, and tried again by the queue.
Lost(x) ==
    /\ x \in Extract => stage[x] = "read"
    /\ x \in Match => Mapping(x)
    /\ Fault
    /\ Goes(x, "queued")
    /\ IF x \in Extract
       THEN /\ answer' = [answer EXCEPT ![x] = <<>>]
            /\ known' = [known EXCEPT ![x] = {}]
            /\ UNCHANGED <<judging, erased>>
       ELSE Closed(x) /\ UNCHANGED <<answer, known>>
    /\ UNCHANGED <<provider, solicitation, rows, matches, page, before, raced, joint>>

-----------------------------------------------------------------------------
\* Verdicts

\* map_evidence reads the requirements once, at its start.
JudgeBegins(m) ==
    /\ stage[m] = "queued"
    /\ judging' = [judging EXCEPT ![m] = rows]
    /\ joint' = joint \cup {{m, n} : n \in {k \in Match \ {m} : Mapping(k)}}
    /\ Goes(m, "loaded")
    /\ UNCHANGED <<provider, solicitation, answer, known, rows, matches, erased, page, before,
                   raced, faults>>

\* It deletes the matches that are committed when the statement begins,
Erases(m) ==
    /\ stage[m] = "loaded"
    /\ erased' = [erased EXCEPT ![m] = matches]
    /\ Goes(m, "erasing")
    /\ UNCHANGED <<provider, solicitation, answer, known, rows, matches, judging, page, before,
                   raced, joint, faults>>

\* but waits for a mapping that is deleting some of them, and what that one puts
\* in their place stays.
EraseEnds(m) ==
    /\ stage[m] = "erasing"
    /\ \A n \in Match : stage[n] = "judging" => erased[m] \cap erased[n] \cap matches = {}
    /\ Goes(m, "judging")
    /\ UNCHANGED <<provider, solicitation, answer, known, rows, mappings, page, before, raced,
                   faults>>

\* A seeded defect: a verdict is given to what must be met only.
RejudgedFirm(m) == [{row \in judging[m] : row.requirement.mandatory} -> Verdict]

\* All verdicts are new.
Rejudged(m) == [judging[m] -> Verdict]

\* The matches that were there are replaced, in the transaction that inserts the
\* new ones.
Judges(m, verdicts) ==
    /\ matches' = (matches \ erased[m]) \cup
                  {[row |-> row, by |-> m, status |-> verdicts[row]] : row \in DOMAIN verdicts}
    /\ Closed(m)
    /\ UNCHANGED <<provider, solicitation, answer, known, rows, page, before, raced, joint>>

JudgeCommits(m) ==
    /\ stage[m] = "judging"
    /\ \E verdicts \in Rejudged(m) : Judges(m, verdicts)
    /\ Goes(m, "done")
    /\ UNCHANGED faults

\* The agent fails between two verdicts: the erasure of the old ones is committed
\* with the new ones there are.
JudgeFails(m) ==
    /\ stage[m] = "judging"
    /\ Fault
    /\ \E judged \in SUBSET judging[m] : \E verdicts \in [judged -> Verdict] : Judges(m, verdicts)
    /\ Goes(m, "failed")

-----------------------------------------------------------------------------
\* The page

\* Rows that have a match.
Judged == {mt.row : mt \in matches}

\* get_filing: the requirements,
PageLists(v) ==
    /\ stage[v] = "idle"
    /\ page' = [page EXCEPT ![v].listed = rows]
    /\ before' = [before EXCEPT ![v] = Judged]
    /\ Goes(v, "listed")
    /\ UNCHANGED <<provider, solicitation, answer, known, rows, mappings, raced, faults>>

\* build_compliance_matrix: the requirements again,
MatrixLists(v) ==
    /\ stage[v] = "listed"
    /\ page' = [page EXCEPT ![v].matrix = rows]
    /\ Goes(v, "matrix")
    /\ UNCHANGED <<provider, solicitation, answer, known, rows, mappings, before, raced, faults>>

\* One match per row is kept, whichever comes last.
Shown ==
    {verdicts \in [Judged -> Verdict] :
        \A row \in Judged : \E mt \in matches : mt.row = row /\ mt.status = verdicts[row]}

\* and their matches.
PageServed(v) ==
    /\ stage[v] = "matrix"
    /\ \E verdicts \in Shown : page' = [page EXCEPT ![v].verdicts = verdicts]
    /\ Goes(v, "served")
    /\ UNCHANGED <<provider, solicitation, answer, known, rows, mappings, before, raced, faults>>

\* A row without a match is missing.
MatrixStatus(p, row) == IF row \in DOMAIN p.verdicts THEN p.verdicts[row] ELSE "missing"

\* A seeded defect: only what is missing is a gap.
MissingRows(p) == {row \in p.matrix : MatrixStatus(p, row) = "missing"}

\* gap_rows
Gaps(p) == {row \in p.matrix : MatrixStatus(p, row) \in {"partial", "missing"}}

\* match_summary: the statuses the code knows, and any other that there is.
Summary(p) ==
    [s \in Status \cup {MatrixStatus(p, row) : row \in p.matrix} |->
        Cardinality({row \in p.matrix : MatrixStatus(p, row) = s})]

-----------------------------------------------------------------------------

Over ==
    /\ \A x \in Extract \cup Match \cup View :
          stage[x] \in {"done", "failed", "needs_input", "served"}
    /\ UNCHANGED vars

Next ==
    \/ \E e \in Extract : Parks(e) \/ Reads(e) \/ Files(e) \/ AgentFails(e)
    \/ \E m \in Match :
          JudgeBegins(m) \/ Erases(m) \/ EraseEnds(m) \/ JudgeCommits(m) \/ JudgeFails(m)
    \/ \E x \in Extract \cup Match : Asked(x) \/ Lost(x)
    \/ \E v \in View : PageLists(v) \/ MatrixLists(v) \/ PageServed(v)
    \/ Over

Spec == Init /\ [][Next]_vars

-----------------------------------------------------------------------------

\* The variables hold what their comments say; only extracted rows have verdicts.
TypeOK ==
    /\ \A e \in Extract : stage[e] \in {"idle", "queued", "read", "done", "failed", "needs_input"}
    /\ \A m \in Match :
          stage[m] \in {"idle", "queued", "loaded", "erasing", "judging", "done", "failed"}
    /\ \A v \in View : stage[v] \in {"idle", "listed", "matrix", "served"}
    /\ \A row \in rows : row.by \in Extract /\ row.nth \in DOMAIN answer[row.by]
    /\ \A e \in Extract : known[e] \subseteq Range(Key)
    /\ \A m \in Match : judging[m] \subseteq rows
    /\ \A mt \in matches : mt.row \in rows /\ mt.by \in Match /\ mt.status \in Verdict
    /\ \A m \in Match : \A mt \in erased[m] : mt.row \in rows /\ mt.by \in Match
    /\ faults \in 0..MaxFaults

KeyOf(row) == Key[row.requirement.text]

\* FR-RE-3: a filing has two rows for the same requirement only if two runs of
\* the extraction overlapped, neither of which could read the other's rows.
RepeatedOnlyByOverlap ==
    \A r, s \in rows : r # s /\ KeyOf(r) = KeyOf(s) => {r.by, s.by} \in raced

\* What a finished run has found is in the filing, in the row of a text that has
\* the same prefix, whatever other runs, lost transactions and repeats did.
ExtractedIsKept ==
    \A e \in Extract : stage[e] = "done" =>
        \A i \in DOMAIN answer[e] :
            Key[answer[e][i].text] # NoKey =>
                \E row \in rows : KeyOf(row) = Key[answer[e][i].text]

\* A requirement that has a verdict loses it only to a run of the mapping that
\* fails or that was at work together with the one that gave it, never to one
\* that succeeds alone, is lost or overlaps an extraction.
VerdictsOnlyLostByFailure ==
    [][\A row \in Judged \ Judged' :
          \E m \in Match :
             /\ stage[m] = "judging"
             /\ \/ stage'[m] = "failed"
                \/ \A mt \in matches : mt.row = row => {m, mt.by} \in joint]_vars

\* The parts of a page agree, though they are read one after the other and whatever
\* statuses an agent answers: each requirement listed is in the matrix; one that
\* had a verdict when the page was asked for is not a gap for want of one, unless
\* a mapping failed or two were at work at once; and there are as many gaps as the
\* summary counts missing and partial.
PageAgrees ==
    \A v \in View : stage[v] = "served" =>
        LET p == page[v] IN
        /\ p.listed \subseteq p.matrix
        /\ faults = 0 /\ joint = {} =>
              \A row \in Gaps(p) : row \in before[v] => row \in DOMAIN p.verdicts
        /\ Cardinality(Gaps(p)) = Summary(p)["missing"] + Summary(p)["partial"]
=============================================================================
