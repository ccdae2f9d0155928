-------------------------- MODULE FilingLifecycle --------------------------
(***************************************************************************)
(* One filing: its status, its recommendation and the versions of its      *)
(* package, as workflow runs, people's decisions and exports change them   *)
(* (api/filings.py, services/approvals.py, filings.py, evidence.py,        *)
(* recommendation.py, packaging.py).                                       *)
(*                                                                         *)
(* A run executes once at a time, in one transaction that a database error *)
(* rolls back and the queue repeats (WorkflowQueue shows both).  It loads  *)
(* the filing first, reads what it depends on after its agent has          *)
(* answered, and writes at the end.  A decision is a request that does the *)
(* same without an agent.  Nobody locks the filing before the write, and   *)
(* the ORM writes the status only if it differs from the one loaded.       *)
(*                                                                         *)
(* A row lock held between a write and its commit only delays others, so a *)
(* write and its commit are one step here.                                 *)
(***************************************************************************)
EXTENDS Naturals, FiniteSets, FiniteSetsExt

CONSTANTS
    Run,        \* workflow runs of the filing
    Kind,       \* [Run -> RunKind]
    Human,      \* approval requests
    Target,     \* [Human -> Topic]
    Download,   \* export requests
    NoDocs,     \* no such version
    MaxFaults   \* bound: database errors and crashes

RunKind == {"extract", "match", "recommend", "package"}
Topic == {"recommendation", "package"}

ASSUME FilingAssumption ==
    /\ IsFiniteSet(Run)
    /\ Kind \in [Run -> RunKind]
    /\ Target \in [Human -> Topic]
    /\ Run \cap Human = {} /\ Download \cap (Run \cup Human) = {}
    /\ MaxFaults \in Nat

Proc == Run \cup Human \cup Download

Builds == {r \in Run : Kind[r] = "package"}

\* A package run inserts one version, each the successor of another.
Version == 1..Cardinality(Run)

\* The documents of a version, of which `validated` and `ready` say it of all.
Docs == [by : Run, validated : BOOLEAN, ready : BOOLEAN]

ASSUME NoDocsAssumption == NoDocs \notin Docs

VARIABLES
    status,     \* filings.status
    rec,        \* the recommendations row: none, or whether it is approved
    docs,       \* [Version -> generated_documents of the version]
    pc,         \* where a run, a decision or an export is
    seenStatus, \* the status it loaded
    seenRec,    \* the recommendation it loaded
    seenLatest, \* the latest version it read
    exported,   \* history: the versions that left as a download
    raced,      \* history: topics on which a decision overlapped a run or another decision
    faults      \* counts towards MaxFaults

filing == <<status, rec, docs>>
loaded == <<seenStatus, seenRec, seenLatest>>
history == <<exported, raced>>
vars == <<filing, pc, loaded, history, faults>>

FilingStatus == {"draft", "evidence_review", "recommended", "approved", "packaging",
                 "package_review", "ready"}
RecStatus == {"none", "draft", "approved"}
Location == {"new", "queued", "loaded", "read", "done", "failed", "unchecked"}

-----------------------------------------------------------------------------

Packageable == {"approved", "packaging", "package_review", "ready"}

\* _latest_package_docs: max(version), 0 without one.
Latest == Max({v \in Version : docs[v] # NoDocs} \cup {0})

\* The status as it is after a write of `wanted` by p.
StatusWritten(p, wanted) == IF seenStatus[p] = wanted THEN status ELSE wanted

TopicOf(p) ==
    CASE p \in Human -> Target[p]
      [] p \in Run /\ Kind[p] = "package" -> "package"
      [] p \in Run /\ Kind[p] = "recommend" -> "recommendation"
      [] OTHER -> "none"

InFlight(p) == pc[p] \in {"loaded", "read"}

\* p's write overlaps another's, and one of the two is a decision.
Overlaps(p) ==
    \E q \in (Run \cup Human) \ {p} :
        InFlight(q) /\ TopicOf(q) = TopicOf(p) /\ (p \in Human \/ q \in Human)

Goto(p, l) == pc' = [pc EXCEPT ![p] = l]

\* p's session, with what it loaded, is gone.
EndsAs(p, l) ==
    /\ Goto(p, l)
    /\ seenStatus' = [seenStatus EXCEPT ![p] = "draft"]
    /\ seenRec' = [seenRec EXCEPT ![p] = "none"]
    /\ seenLatest' = [seenLatest EXCEPT ![p] = 0]

Raced(p) == raced' = IF Overlaps(p) THEN raced \cup {TopicOf(p)} ELSE raced

Init ==
    /\ status = "draft"
    /\ rec = "none"
    /\ docs = [v \in Version |-> NoDocs]
    /\ pc = [p \in Proc |-> "new"]
    /\ seenStatus = [p \in Proc |-> "draft"]
    /\ seenRec = [p \in Proc |-> "none"]
    /\ seenLatest = [p \in Proc |-> 0]
    /\ exported = {}
    /\ raced = {}
    /\ faults = 0

-----------------------------------------------------------------------------
\* Workflow runs

\* The endpoints that queue a run.  Only a package build asks for a status (and
\* an entitlement): a build that is refused may be asked for again.
Dispatch(r) ==
    /\ pc[r] = "new"
    /\ Kind[r] = "package" => status \in Packageable
    /\ Goto(r, "queued")
    /\ UNCHANGED <<filing, loaded, history, faults>>

\* A run, or a decision, loads the filing.  What allowed a run's dispatch is not
\* asked again.
Load(p) ==
    /\ pc[p] = IF p \in Run THEN "queued" ELSE "new"
    /\ seenStatus' = [seenStatus EXCEPT ![p] = status]
    /\ Goto(p, "loaded")
    /\ UNCHANGED <<filing, seenRec, seenLatest, history, faults>>

\* Then, after a run's agent has answered, the recommendation or the latest
\* version and its documents.
Read(p) ==
    /\ pc[p] = "loaded"
    /\ \/ /\ TopicOf(p) = "recommendation"
          /\ seenRec' = [seenRec EXCEPT ![p] = rec]
          /\ UNCHANGED seenLatest
       \/ /\ TopicOf(p) = "package"
          /\ seenLatest' = [seenLatest EXCEPT ![p] = Latest]
          /\ UNCHANGED seenRec
    /\ Goto(p, "read")
    /\ UNCHANGED <<filing, seenStatus, history, faults>>

\* run_requirement_extraction and map_evidence, as far as the filing goes.
Review(r) ==
    /\ pc[r] = "loaded"
    /\ Kind[r] \in {"extract", "match"}
    /\ status' = StatusWritten(r, "evidence_review")
    /\ EndsAs(r, "done")
    /\ UNCHANGED <<rec, docs, history, faults>>

\* A recommendation row was inserted since this run looked for one.
RecConflict(r) == seenRec[r] = "none" /\ rec # "none"

\* build_recommendation: a new draft.
Recommend(r) ==
    /\ pc[r] = "read"
    /\ Kind[r] = "recommend"
    /\ ~RecConflict(r)
    /\ rec' = IF seenRec[r] = "draft" THEN rec ELSE "draft"
    /\ status' = StatusWritten(r, "recommended")
    /\ Raced(r)
    /\ EndsAs(r, "done")
    /\ UNCHANGED <<docs, exported, faults>>

\* A seeded defect: (filing, type, version) is not unique.
NeverConflict(r) == r \notin Run

\* The version this run is going to insert exists by now.
VersionConflict(r) == docs[seenLatest[r] + 1] # NoDocs

\* A seeded defect: the version is incremented twice.
NewDocsTwoOn(r, validated) ==
    docs' = [docs EXCEPT ![seenLatest[r] + 2] =
                [by |-> r, validated |-> validated, ready |-> FALSE]]

\* build_package's insert.
NewDocs(r, validated) ==
    docs' = [docs EXCEPT ![seenLatest[r] + 1] =
                [by |-> r, validated |-> validated, ready |-> FALSE]]

\* A seeded defect: an approved filing stays approved through a rebuild.
KeepsReady == IF status = "ready" THEN status ELSE "package_review"

\* The run's second flush writes over what the first one wrote.
StatusBuilt == "package_review"

\* build_package and validate_citations: every document stands the check, or
\* not all do.
Build(r) ==
    /\ pc[r] = "read"
    /\ Kind[r] = "package"
    /\ ~VersionConflict(r)
    /\ \E validated \in BOOLEAN : NewDocs(r, validated)
    /\ status' = StatusBuilt
    /\ Raced(r)
    /\ EndsAs(r, "done")
    /\ UNCHANGED <<rec, exported, faults>>

\* validate_citations raises: the engine fails the run and commits what the
\* first step wrote.
BuildUnchecked(r) ==
    /\ pc[r] = "read"
    /\ Kind[r] = "package"
    /\ ~VersionConflict(r)
    /\ NewDocs(r, FALSE)
    /\ status' = StatusWritten(r, "packaging")
    /\ Raced(r)
    /\ EndsAs(r, "unchecked")
    /\ UNCHANGED <<rec, exported, faults>>

\* A unique constraint: rolled back, and repeated by the queue.
Collide(r) ==
    /\ pc[r] = "read"
    /\ \/ Kind[r] = "recommend" /\ RecConflict(r)
       \/ Kind[r] = "package" /\ VersionConflict(r)
    /\ EndsAs(r, "queued")
    /\ UNCHANGED <<filing, history, faults>>

\* The agent fails: nothing of the filing was written yet.
StepFails(r) ==
    /\ pc[r] = "loaded"
    /\ EndsAs(r, "failed")
    /\ UNCHANGED <<filing, history, faults>>

\* A crash or a database error: rolled back; the queue repeats a run, a decision
\* is the approver's to repeat.
Fault(p) ==
    /\ InFlight(p)
    /\ faults < MaxFaults
    /\ faults' = faults + 1
    /\ EndsAs(p, IF p \in Run THEN "queued" ELSE "new")
    /\ UNCHANGED <<filing, history>>

-----------------------------------------------------------------------------
\* Decisions

\* The recommendation's `approved` column after a write of `wanted` by h.
RecWritten(h, wanted) ==
    IF seenRec[h] = "none" \/ seenRec[h] = wanted THEN rec ELSE wanted

\* From any status, and with or without a recommendation.
DecideRecommendation(h, approved) ==
    /\ pc[h] = "read"
    /\ Target[h] = "recommendation"
    /\ rec' = RecWritten(h, IF approved THEN "approved" ELSE "draft")
    /\ status' = StatusWritten(h, IF approved THEN "approved" ELSE "recommended")
    /\ Raced(h)
    /\ EndsAs(h, "done")
    /\ UNCHANGED <<docs, exported, faults>>

\* A seeded defect: a version may be approved whatever the check found.
AnyVersion(h) == seenLatest[h] # 0

\* There is a latest version, and all its documents stand the check.
Approvable(h) == seenLatest[h] # 0 /\ docs[seenLatest[h]].validated

ApprovePackage(h) ==
    /\ pc[h] = "read"
    /\ Target[h] = "package"
    /\ Approvable(h)
    /\ docs' = [docs EXCEPT ![seenLatest[h]].ready = TRUE]
    /\ status' = StatusWritten(h, "ready")
    /\ Raced(h)
    /\ EndsAs(h, "done")
    /\ UNCHANGED <<rec, exported, faults>>

\* No package, or unsourced claims in it.
ApproveRefused(h) ==
    /\ pc[h] = "read"
    /\ Target[h] = "package"
    /\ ~Approvable(h)
    /\ EndsAs(h, "new")
    /\ UNCHANGED <<filing, history, faults>>

\* From any status, and of any package or none.
RejectPackage(h) ==
    /\ pc[h] = "loaded"
    /\ Target[h] = "package"
    /\ status' = StatusWritten(h, "package_review")
    /\ Raced(h)
    /\ EndsAs(h, "done")
    /\ UNCHANGED <<rec, docs, exported, faults>>

-----------------------------------------------------------------------------
\* Exports

\* The filing is loaded and its status checked (refused, nothing happens) ...
ExportChecks(x) ==
    /\ pc[x] = "new"
    /\ status = "ready"
    /\ Goto(x, "read")
    /\ UNCHANGED <<filing, loaded, history, faults>>

\* ... then whatever version is the latest by now is rendered.
ExportServes(x) ==
    /\ pc[x] = "read"
    /\ exported' = exported \cup {Latest}
    /\ Goto(x, "done")
    /\ UNCHANGED <<filing, loaded, raced, faults>>

\* Nobody has to ask for anything more.
AllOver ==
    /\ \A p \in Proc : pc[p] \notin {"queued", "loaded", "read"}
    /\ UNCHANGED vars

Next ==
    \/ \E r \in Run :
          \/ Dispatch(r) \/ Review(r) \/ Recommend(r)
          \/ Build(r) \/ BuildUnchecked(r)
          \/ Collide(r) \/ StepFails(r)
    \/ \E h \in Human :
          \/ \E approved \in BOOLEAN : DecideRecommendation(h, approved)
          \/ ApprovePackage(h) \/ ApproveRefused(h) \/ RejectPackage(h)
    \/ \E p \in Run \cup Human : Load(p) \/ Read(p) \/ Fault(p)
    \/ \E x \in Download : ExportChecks(x) \/ ExportServes(x)
    \/ AllOver

Spec == Init /\ [][Next]_vars

-----------------------------------------------------------------------------
\* Properties

\* Every variable has its type; a version follows the one before it.
TypeOK ==
    /\ status \in FilingStatus
    /\ rec \in RecStatus
    /\ docs \in [Version -> Docs \cup {NoDocs}]
    /\ \A v \in Version : docs[v] # NoDocs => \A w \in 1..v : docs[w] # NoDocs
    /\ pc \in [Proc -> Location]
    /\ seenStatus \in [Proc -> FilingStatus]
    /\ seenRec \in [Proc -> RecStatus]
    /\ seenLatest \in [Proc -> Version \cup {0}]
    /\ exported \subseteq Version
    /\ raced \subseteq Topic
    /\ faults \in 0..MaxFaults

\* Two builds at once never share or lose a version: every build that came to
\* its end, also the one whose check raised, has left a version of its own.
OneVersionPerBuild ==
    \A r \in Builds :
        pc[r] \in {"done", "unchecked"} =>
            Cardinality({v \in Version : docs[v] # NoDocs /\ docs[v].by = r}) = 1

\* CON-2: a package that was approved stood the citation check, whatever was
\* built between the approver's read and write (record_approval).
ReadyWasChecked ==
    \A v \in Version : docs[v] # NoDocs /\ docs[v].ready => docs[v].validated

\* The gates hold as long as nobody decides while a run, or somebody else, is at
\* work on the same thing: then a filing is ready only with its latest version
\* approved, and approved only with a recommendation that is.
SerialGates ==
    /\ status = "ready" /\ "package" \notin raced => Latest # 0 /\ docs[Latest].ready
    /\ status = "approved" /\ "recommendation" \notin raced => rec # "draft"

\* api/filings.py: "export is gated behind human package approval".  It does not
\* hold: a rebuild that commits between an approver's read and write leaves a
\* filing ready whose latest version nobody approved.
ExportIsApproved == \A v \in exported : docs[v].ready

\* api/filings.py: "The recommendation must be human-approved before a package
\* can be built".  It does not hold: approving a recommendation, or rejecting a
\* package, of which there is none makes a draft packageable.
BuiltAfterApproval ==
    [][\A r \in Builds : pc[r] = "new" /\ pc'[r] = "queued" => rec = "approved"]_vars
=============================================================================
