--------------------------- MODULE PackageCitations ---------------------------
(***************************************************************************)
(* The packages built for the filing of EvidenceMapping and the check of   *)
(* their citations (services/packaging.py), over the compliance matrix     *)
(* (services/compliance.py), up to the approval (services/approvals.py).   *)
(*                                                                         *)
(* A build is one transaction under READ COMMITTED: every statement of it  *)
(* sees what mappings, gap resolutions and rebuilds of the profile have    *)
(* committed by then.  The status of the filing, which says when a build   *)
(* or an approval may be asked for, is in FilingLifecycle.                 *)
(***************************************************************************)
EXTENDS EvidenceMapping, Sequences

CONSTANTS
    Package,     \* runs of package_build for the filing
    Packaging    \* the crews during which packages are built

ASSUME PackageAssumption == Packaging \subseteq Crews

VARIABLES
    sourced,     \* whether the opportunity, and so each requirement, has a source
    building,    \* [Package -> [stage, verdicts, claims, narrative]]
    packages,    \* committed versions: [claims, narrative, valid]
    approved,    \* the version that was approved last, 0 if none
    replaced     \* history: items that a rebuild of the profile has deleted

assembly == <<sourced, building, packages, approved, replaced>>
allVars == <<vars, assembly>>

Fresh == [stage |-> "queued", verdicts |-> {}, claims |-> {}, narrative |-> {}]

PackageInit ==
    /\ Init
    /\ sourced \in (IF crew \in Packaging THEN BOOLEAN ELSE {TRUE})
    /\ building = [p \in Package |-> Fresh]
    /\ packages = <<>>
    /\ approved = 0
    /\ replaced = {}

Building(p, from) == crew \in Packaging /\ building[p].stage = from

\* The verdict each requirement has in the matrix: one of its matches.
Verdicts ==
    {V \in SUBSET matches :
        /\ \A x, y \in V : x.req = y.req => x = y
        /\ \A mt \in matches : \E x \in V : x.req = mt.req}

MatrixRead(p) ==
    /\ Building(p, "queued")
    /\ \E V \in Verdicts :
         building' = [building EXCEPT ![p].stage = "matched", ![p].verdicts = V]
    /\ UNCHANGED <<vars, sourced, packages, approved, replaced>>

Supports(mt) == mt.status \in {"matched", "user_provided"}

\* Claims are the met requirements whose item is still there.
MatrixJoined(p) ==
    /\ Building(p, "matched")
    /\ building' = [building EXCEPT
         ![p].stage = "joined",
         ![p].claims = {mt \in building[p].verdicts : Supports(mt) /\ mt.item \in items}]
    /\ UNCHANGED <<vars, sourced, packages, approved, replaced>>

\* A citation names an item and perhaps the source of the requirement.
Citation(mt) == [item |-> mt.item, sourced |-> sourced]

\* The narrative agent cites what it was given, nothing, or something else: an
\* item it was not given does not exist.
Narratives(claims) ==
    LET cited == {mt.item : mt \in claims} \cup {NoItem} IN
    {{}, {Citation(mt) : mt \in claims}}
        \cup {{c} : c \in [item : cited, sourced : {FALSE, sourced}]}

\* The agent answers; the documents of the version are written.
Drafted(p) ==
    /\ Building(p, "joined")
    /\ \E N \in Narratives(building[p].claims) :
         building' = [building EXCEPT ![p].stage = "drafted", ![p].narrative = N]
    /\ UNCHANGED <<vars, sourced, packages, approved, replaced>>

\* The agent fails: the run fails, before it has written anything.
DraftFails(p) ==
    /\ Building(p, "joined")
    /\ Fault
    /\ building' = [building EXCEPT ![p] = [Fresh EXCEPT !.stage = "failed"]]
    /\ UNCHANGED <<crew, documents, profiles, evidence, sourced, packages, approved, replaced>>

\* The transaction is lost and the run tried again.
BuildRolledBack(p) ==
    /\ crew \in Packaging /\ building[p].stage \in {"matched", "joined", "drafted"}
    /\ Fault
    /\ building' = [building EXCEPT ![p] = Fresh]
    /\ UNCHANGED <<crew, documents, profiles, evidence, sourced, packages, approved, replaced>>

\* A seeded defect: any citation will do.
AnyResolves(citation) == TRUE

\* One of its two identifiers is known to the organization.
Resolves(citation) == citation.item \in items \/ citation.sourced

\* validate_citations: the matrix and the narrative must cite, and what they
\* cite must resolve.  The other documents always do, for they cite sources,
\* which are never deleted, and every item has one.
Validated(b) ==
    LET documentsOf == {{Citation(mt) : mt \in b.claims}, b.narrative} IN
    \A D \in documentsOf : D # {} /\ \A c \in D : Resolves(c)

\* Nothing but approvals reads the version before the next statement, so that
\* the check and the commit are one step.
BuildCommits(p) ==
    /\ Building(p, "drafted")
    /\ packages' = Append(packages, [claims |-> building[p].claims,
                                     narrative |-> building[p].narrative,
                                     valid |-> Validated(building[p])])
    /\ building' = [building EXCEPT ![p] = [Fresh EXCEPT !.stage = "done"]]
    /\ UNCHANGED <<vars, sourced, approved, replaced>>

\* An approval of the package: the latest version, if it was found valid.
Approve ==
    /\ packages # <<>> /\ packages[Len(packages)].valid
    /\ approved' = Len(packages)
    /\ UNCHANGED <<vars, sourced, building, packages, replaced>>

PackageStep(p) ==
    \/ MatrixRead(p) \/ MatrixJoined(p) \/ Drafted(p) \/ DraftFails(p)
    \/ BuildRolledBack(p) \/ BuildCommits(p)

EvidenceStep ==
    /\ Next
    /\ replaced' = replaced \cup (items \ items')
    /\ UNCHANGED <<sourced, building, packages, approved>>

PackageNext == EvidenceStep \/ Approve \/ \E p \in Package : PackageStep(p)

PackageSpec == PackageInit /\ [][PackageNext]_allVars

-----------------------------------------------------------------------------

\* CON-2 at the approval, as far as the code keeps it.  An approved package
\* makes claims.  Each is a met requirement; what the owner supplied for it is
\* still there, and what was inferred was in the vault, though a rebuild of the
\* profile may have replaced it since.  A citation of the narrative names such
\* an item, or else nothing but the source of the requirement.
ApprovedIsSupported ==
    approved # 0 =>
        LET package == packages[approved] IN
        /\ package.claims # {} /\ package.narrative # {}
        /\ \A mt \in package.claims :
             /\ mt.status \in {"matched", "user_provided"}
             /\ mt.item \in items \cup (IF UserProvided(mt.item) THEN {} ELSE replaced)
        /\ \A c \in package.narrative : c.item \in items \cup replaced \/ c.sourced

\* services/packaging.py: every citation resolves to a real item or source, as
\* a reader would have it: the claim's evidence exists when it is approved.
ClaimsHoldAtApproval ==
    [][approved' # approved =>
         \A mt \in packages[approved'].claims : mt.item \in items]_allVars
=============================================================================
