----------------------- MODULE FilingLifecycleProofs -----------------------
(***************************************************************************)
(* Proofs about the way from an opportunity to a filing, for every value   *)
(* of the constants: FilingLifecycle (every set of runs, approvers and     *)
(* exports, every number of faults) and, from its own line on,             *)
(* MatchScoring and OpportunityScan (every catalog, every answer of the    *)
(* sources, every sequence of profiles, every set of scans and filers).    *)
(***************************************************************************)
EXTENDS FilingLifecycle, OpportunityScan, FiniteSetTheorems, SequenceTheorems, TLAPS

-----------------------------------------------------------------------------
\* The latest version

\* A nonempty set of numbers up to n has a maximum: of the sets of what is above
\* a member, one is minimal, and it is empty.
LEMMA MaxIsGreatest ==
    ASSUME NEW n \in Nat, NEW S \in SUBSET (0..n), S # {}
    PROVE  Max(S) \in S /\ \A y \in S : Max(S) >= y
  <1> DEFINE Above(x) == {y \in S : y > x}
             Order == StrictSubsetOrdering(S)
             Ups == {Above(x) : x \in S}
  <1>1. IsFiniteSet(S)
    <2>1. 0 \in Int /\ n \in Int
      OBVIOUS
    <2>2. IsFiniteSet(0..n)
      BY <2>1, FS_Interval
    <2>3. QED
      BY <2>2, FS_Subset
  <1>2. IsWellFoundedOn(Order, FiniteSubsetsOf(S))
    BY FS_StrictSubsetOrderingWellFounded
  <1>3. Ups \subseteq FiniteSubsetsOf(S)
    <2>1. \A x \in S : Above(x) \in SUBSET S
      OBVIOUS
    <2>2. \A x \in S : IsFiniteSet(Above(x))
      BY <1>1, <2>1, FS_Subset
    <2>3. QED
      BY <2>1, <2>2 DEF FiniteSubsetsOf
  <1>4. Ups # {}
    OBVIOUS
  <1>5. \E U \in Ups : \A V \in Ups : ~(<<V, U>> \in Order)
    <2> HIDE DEF Order, Ups
    <2>1. QED
      BY <1>2, <1>3, <1>4, WFMin
  <1>6. PICK x \in S : \A V \in Ups : ~(<<V, Above(x)>> \in Order)
    BY <1>5
  <1>7. \A y \in S : x >= y
    <2> SUFFICES ASSUME NEW y \in S, ~(x >= y)
                 PROVE  FALSE
      OBVIOUS
    <2>1. x \in Nat /\ y \in Nat /\ y > x
      BY SMT
    <2>2. Above(y) \subseteq Above(x)
      <3>1. \A z \in S : z \in Nat
        OBVIOUS
      <3>2. \A z \in S : z > y => z > x
        BY <2>1, <3>1
      <3>3. QED
        BY <3>2
    <2>3. y \in Above(x) /\ y \notin Above(y)
      BY <2>1, SMT
    <2>4. <<Above(y), Above(x)>> \in Order
      BY <2>2, <2>3 DEF StrictSubsetOrdering
    <2>5. QED
      BY <1>6, <2>4
  <1>8. QED
    BY <1>7 DEF Max

\* The number of runs bounds the versions.
LEMMA VersionFacts ==
    /\ Cardinality(Run) \in Nat
    /\ Version \subseteq Nat
    /\ Version \cup {0} = 0..Cardinality(Run)
  <1>1. Cardinality(Run) \in Nat
    BY FilingAssumption, FS_CardinalityType
  <1>2. QED
    BY <1>1 DEF Version

\* Latest is a version that exists, or 0 if none does.
LEMMA LatestExists ==
    /\ Latest \in Version \cup {0}
    /\ Latest # 0 => docs[Latest] # NoDocs
    /\ \A v \in Version : docs[v] # NoDocs => v <= Latest
  <1> DEFINE S == {v \in Version : docs[v] # NoDocs} \cup {0}
  <1>1. S \in SUBSET (0..Cardinality(Run)) /\ S # {}
    BY VersionFacts
  <1>2. Max(S) \in S /\ \A y \in S : Max(S) >= y
    <2> HIDE DEF S
    <2>1. QED
      BY <1>1, VersionFacts, MaxIsGreatest
  <1>3. Latest = Max(S)
    BY DEF Latest
  <1>4. \A v \in Version : docs[v] # NoDocs => v <= Max(S)
    <2> SUFFICES ASSUME NEW v \in Version, docs[v] # NoDocs
                 PROVE  v <= Max(S)
      OBVIOUS
    <2>1. v \in S
      OBVIOUS
    <2>2. v \in Nat /\ Max(S) \in Nat
      <3>1. \A s \in S : s \in Nat
        BY VersionFacts
      <3> HIDE DEF S
      <3>2. QED
        BY <1>2, <2>1, <3>1
    <2>3. QED
      BY <1>2, <2>1, <2>2
  <1>5. Max(S) # 0 => docs[Max(S)] # NoDocs
    BY <1>2
  <1>6. Max(S) \in Version \cup {0}
    BY <1>2
  <1>7. QED
    BY <1>3, <1>4, <1>5, <1>6

-----------------------------------------------------------------------------
\* The inductive invariant

\* A version somebody has read stays.
ReadStays == \A p \in Proc : seenLatest[p] # 0 => docs[seenLatest[p]] # NoDocs

\* A filing that is ready, or being exported, has a package.
ReadyHasPackage ==
    /\ status = "ready" => Latest # 0
    /\ \A x \in Download : pc[x] = "read" => Latest # 0

\* The versions are those of the builds that came to their end, one each.
Finished(r) == pc[r] \in {"done", "unchecked"}
VersionsOfBuilds ==
    /\ \A v \in Version : docs[v] # NoDocs => docs[v].by \in Builds /\ Finished(docs[v].by)
    /\ \A v, w \in Version :
          docs[v] # NoDocs /\ docs[w] # NoDocs /\ docs[v].by = docs[w].by => v = w
    /\ \A r \in Builds : Finished(r) => \E v \in Version : docs[v] # NoDocs /\ docs[v].by = r

IInv == TypeOK /\ ReadStays /\ ReadyHasPackage /\ VersionsOfBuilds /\ ReadyWasChecked

-----------------------------------------------------------------------------
\* What the steps have in common

\* Runs, approvers and exports are different processes.
LEMMA ProcFacts ==
    /\ Run \subseteq Proc /\ Human \subseteq Proc /\ Download \subseteq Proc
    /\ Run \cap Human = {} /\ Download \cap (Run \cup Human) = {}
    /\ Builds \subseteq Run
  BY FilingAssumption DEF Proc, Builds

\* Whoever ends keeps the types of what it loaded.
LEMMA EndsAsType ==
    ASSUME TypeOK, NEW p \in Proc, NEW l \in Location, EndsAs(p, l)
    PROVE  /\ pc' \in [Proc -> Location]
           /\ seenStatus' \in [Proc -> FilingStatus]
           /\ seenRec' \in [Proc -> RecStatus]
           /\ seenLatest' \in [Proc -> Version \cup {0}]
  BY DEF TypeOK, EndsAs, Goto, FilingStatus, RecStatus

\* A finished process is none that reads.
LEMMA EndsAsKeeps ==
    ASSUME TypeOK, NEW p \in Proc, NEW l \in Location, EndsAs(p, l)
    PROVE  /\ \A q \in Proc \ {p} : pc'[q] = pc[q] /\ seenLatest'[q] = seenLatest[q]
           /\ pc'[p] = l /\ seenLatest'[p] = 0
  BY DEF TypeOK, EndsAs, Goto

\* The topics of the race bookkeeping.
LEMMA RacedType ==
    ASSUME TypeOK, NEW p \in Run \cup Human, TopicOf(p) \in Topic, Raced(p)
    PROVE  raced' \subseteq Topic
  BY DEF TypeOK, Raced

\* A build that has read finds room for its version: the versions up to the one
\* it read are those of other builds.
LEMMA RoomForAVersion ==
    ASSUME IInv, NEW r \in Builds, pc[r] = "read"
    PROVE  /\ seenLatest[r] + 1 \in Version
           /\ \A v \in 1..seenLatest[r] : v \in Version /\ docs[v] # NoDocs
  <1> DEFINE n == seenLatest[r]
             f == [v \in 1..n |-> docs[v].by]
             Others == Run \ {r}
  <1>1. r \in Run /\ r \in Proc
    BY ProcFacts
  <1>2. n \in Version \cup {0} /\ n \in Nat /\ n <= Cardinality(Run)
    BY <1>1, VersionFacts DEF IInv, TypeOK
  <1>3. \A v \in 1..n : v \in Version /\ docs[v] # NoDocs
    <2>1. CASE n = 0
      BY <2>1
    <2>2. CASE n # 0
      <3>1. n \in Version /\ docs[n] # NoDocs
        BY <1>1, <1>2, <2>2 DEF IInv, ReadStays
      <3>2. \A v \in 1..n : docs[v] # NoDocs
        BY <3>1 DEF IInv, TypeOK
      <3>3. \A v \in 1..n : v \in Version
        BY <1>2, VersionFacts DEF Version
      <3>4. QED
        BY <3>2, <3>3
    <2>3. QED
      BY <2>1, <2>2
  <1>4. \A v \in 1..n : f[v] \in Others
    BY <1>1, <1>3, ProcFacts DEF IInv, VersionsOfBuilds, Finished
  <1>5. \A v, w \in 1..n : f[v] = f[w] => v = w
    BY <1>3 DEF IInv, VersionsOfBuilds
  <1>6. f \in Injection(1..n, Others)
    <2>1. f \in [1..n -> Others]
      BY <1>4
    <2>2. QED
      BY <1>5, <2>1 DEF Injection, IsInjective
  <1>7. IsFiniteSet(Others) /\ Cardinality(Others) = Cardinality(Run) - 1
    BY <1>1, FilingAssumption, FS_RemoveElement
  <1>8. Cardinality(1..n) <= Cardinality(Others)
    <2> HIDE DEF f, Others, n
    <2>1. QED
      BY <1>6, <1>7, FS_Injection
  <1>9. Cardinality(1..n) = n
    <2>1. 1 \in Int /\ n \in Int
      BY <1>2
    <2>2. Cardinality(1..n) = IF 1 > n THEN 0 ELSE n - 1 + 1
      BY <2>1, FS_Interval
    <2>3. QED
      BY <1>2, <2>2
  <1>10. n + 1 \in Version
    BY <1>2, <1>7, <1>8, <1>9, VersionFacts DEF Version
  <1>11. QED
    BY <1>3, <1>10

\* There is a latest version exactly if there is one.
SomeVersion == Latest # 0 <=> \E v \in Version : docs[v] # NoDocs

LEMMA LatestSaysSo == SomeVersion
  <1>1. Latest \in Nat /\ \A v \in Version : v \in Nat /\ v >= 1
    BY LatestExists, VersionFacts DEF Version
  <1>2. QED
    BY <1>1, LatestExists DEF SomeVersion

LEMMA LatestSaysSoNext == SomeVersion'
  BY LatestSaysSo, PTL

\* Versions stay, and so does the fact that there is one.
LEMMA PackageStays ==
    ASSUME \A v \in Version : docs[v] # NoDocs => docs'[v] # NoDocs, Latest # 0
    PROVE  Latest' # 0
  BY LatestSaysSo, LatestSaysSoNext DEF SomeVersion

\* What a package run inserts.
LEMMA NewVersion ==
    ASSUME IInv, NEW r \in Builds, pc[r] = "read", ~VersionConflict(r),
           NEW validated \in BOOLEAN, NewDocs(r, validated)
    PROVE  \E n \in Version :
              /\ n = seenLatest[r] + 1
              /\ docs[n] = NoDocs
              /\ docs'[n] = [by |-> r, validated |-> validated, ready |-> FALSE]
              /\ docs'[n] # NoDocs
              /\ \A v \in Version \ {n} : docs'[v] = docs[v]
              /\ docs' \in [Version -> Docs \cup {NoDocs}]
              /\ \A v \in Version : docs'[v] # NoDocs => \A w \in 1..v : docs'[w] # NoDocs
  <1> DEFINE n == seenLatest[r] + 1
             new == [by |-> r, validated |-> validated, ready |-> FALSE]
  <1>1. n \in Version /\ \A v \in 1..seenLatest[r] : v \in Version /\ docs[v] # NoDocs
    BY RoomForAVersion
  <1>2. docs \in [Version -> Docs \cup {NoDocs}]
    BY DEF IInv, TypeOK
  <1>3. docs[n] = NoDocs
    BY DEF VersionConflict
  <1>4. new \in Docs /\ new # NoDocs
    <2>1. r \in Run /\ FALSE \in BOOLEAN
      BY ProcFacts
    <2>2. new \in Docs
      BY <2>1 DEF Docs
    <2>3. QED
      BY <2>2, NoDocsAssumption
  <1>5. docs' = [docs EXCEPT ![n] = new]
    BY DEF NewDocs
  <1>6. docs'[n] = new /\ \A v \in Version \ {n} : docs'[v] = docs[v]
    BY <1>1, <1>2, <1>5
  <1>7. docs' \in [Version -> Docs \cup {NoDocs}]
    BY <1>1, <1>2, <1>4, <1>5
  <1>8. \A v \in Version : docs'[v] # NoDocs => \A w \in 1..v : docs'[w] # NoDocs
    <2> SUFFICES ASSUME NEW v \in Version, docs'[v] # NoDocs, NEW w \in 1..v
                 PROVE  docs'[w] # NoDocs
      OBVIOUS
    <2>1. v \in Nat /\ w \in Version /\ w \in Nat /\ w <= v
      BY VersionFacts DEF Version
    <2>2. CASE v = n
      <3>1. seenLatest[r] \in Nat
        BY ProcFacts, VersionFacts DEF IInv, TypeOK
      <3>2. w = n \/ w \in 1..seenLatest[r]
        BY <2>1, <2>2, <3>1
      <3>3. CASE w = n
        BY <1>4, <1>6, <3>3
      <3>4. CASE w # n
        BY <1>1, <1>6, <2>1, <3>2, <3>4
      <3>5. QED
        BY <3>3, <3>4
    <2>3. CASE v # n
      <3>1. docs[w] # NoDocs
        <4>1. docs[v] # NoDocs
          BY <1>6, <2>3
        <4>2. QED
          BY <4>1 DEF IInv, TypeOK
      <3>2. w # n
        BY <1>3, <3>1
      <3>3. QED
        BY <1>6, <2>1, <3>1, <3>2
    <2>4. QED
      BY <2>2, <2>3
  <1>9. QED
    BY <1>1, <1>3, <1>4, <1>6, <1>7, <1>8

\* What an approval marks.
LEMMA MarkedReady ==
    ASSUME IInv, NEW h \in Human, ApprovePackage(h)
    PROVE  \E n \in Version :
              /\ docs[n] # NoDocs /\ docs[n].validated
              /\ docs' = [docs EXCEPT ![n] = [docs[n] EXCEPT !.ready = TRUE]]
              /\ docs' \in [Version -> Docs \cup {NoDocs}]
              /\ \A v \in Version : /\ docs'[v] # NoDocs <=> docs[v] # NoDocs
                                    /\ docs[v] # NoDocs => docs'[v].by = docs[v].by
                                    /\ docs[v] # NoDocs => docs'[v].validated = docs[v].validated
                                    /\ v # n => docs'[v] = docs[v]
  <1> DEFINE n == seenLatest[h]
             marked == [docs[n] EXCEPT !.ready = TRUE]
  <1>1. h \in Proc /\ docs \in [Version -> Docs \cup {NoDocs}]
    BY ProcFacts DEF IInv, TypeOK
  <1>2. n \in Version /\ docs[n] # NoDocs /\ docs[n].validated
    BY <1>1 DEF IInv, TypeOK, ReadStays, ApprovePackage, Approvable
  <1>3. docs[n] \in Docs
    BY <1>1, <1>2
  <1>4. marked \in Docs /\ marked.by = docs[n].by /\ marked.validated = docs[n].validated
    BY <1>3 DEF Docs
  <1>5. marked # NoDocs
    BY <1>4, NoDocsAssumption
  <1>6. docs' = [docs EXCEPT ![n] = marked]
    BY <1>1, <1>2 DEF ApprovePackage
  <1> HIDE DEF n, marked
  <1>7. docs'[n] = marked /\ \A v \in Version \ {n} : docs'[v] = docs[v]
    BY <1>1, <1>2, <1>6
  <1>8. docs' \in [Version -> Docs \cup {NoDocs}]
    BY <1>1, <1>2, <1>4, <1>6
  <1>9. QED
    BY <1>2, <1>4, <1>5, <1>6, <1>7, <1>8 DEF marked

\* A step that leaves the documents alone keeps the invariant, unless it makes
\* the filing ready or finishes a build.
Quiet ==
    /\ UNCHANGED docs
    /\ \A p \in Proc : seenLatest'[p] \in {0, seenLatest[p], Latest}
    /\ \A r \in Builds : Finished(r)' <=> Finished(r)
    /\ status' = "ready" => status = "ready"
    /\ \A x \in Download : pc'[x] = "read" => pc[x] = "read" \/ status = "ready"

LEMMA QuietSteps ==
    ASSUME IInv, TypeOK', Quiet
    PROVE  IInv'
  <1>1. ReadStays'
    <2> SUFFICES ASSUME NEW p \in Proc, seenLatest'[p] # 0
                 PROVE  docs[seenLatest'[p]] # NoDocs
      BY DEF ReadStays, Quiet
    <2>1. CASE seenLatest'[p] = seenLatest[p]
      BY <2>1 DEF IInv, ReadStays
    <2>2. CASE seenLatest'[p] = Latest
      BY <2>2, LatestExists
    <2>3. QED
      BY <2>1, <2>2 DEF Quiet
  <1>2. ReadyHasPackage'
    <2>1. Latest # 0 => Latest' # 0
      BY PackageStays DEF Quiet
    <2>2. QED
      BY <2>1 DEF IInv, ReadyHasPackage, Quiet
  <1>3. VersionsOfBuilds'
    <2>1. \A r \in Builds : Finished(r)' <=> Finished(r)
      BY DEF Quiet
    <2>2. \A v \in Version : docs[v] # NoDocs => docs[v].by \in Builds /\ Finished(docs[v].by)'
      <3> SUFFICES ASSUME NEW v \in Version, docs[v] # NoDocs
                   PROVE  docs[v].by \in Builds /\ Finished(docs[v].by)'
        OBVIOUS
      <3>1. docs[v].by \in Builds /\ Finished(docs[v].by)
        BY DEF IInv, VersionsOfBuilds
      <3>2. QED
        BY <2>1, <3>1 DEF Quiet, Finished
    <2>3. \A r \in Builds :
             Finished(r)' => \E v \in Version : docs[v] # NoDocs /\ docs[v].by = r
      BY <2>1 DEF IInv, VersionsOfBuilds
    <2>4. QED
      BY <2>2, <2>3 DEF IInv, VersionsOfBuilds, Finished, Quiet
  <1>4. ReadyWasChecked'
    BY DEF IInv, ReadyWasChecked, Quiet
  <1>5. QED
    BY <1>1, <1>2, <1>3, <1>4 DEF IInv

-----------------------------------------------------------------------------
\* One lemma per kind of step

LEMMA InitStep == Init => IInv
  <1> SUFFICES ASSUME Init
               PROVE  IInv
    OBVIOUS
  <1>1. TypeOK
    <2>1. 0 \in 0..MaxFaults
      BY FilingAssumption
    <2>2. QED
      BY <2>1 DEF Init, TypeOK, FilingStatus, RecStatus, Location
  <1>2. ReadStays
    BY DEF Init, ReadStays
  <1>3. ReadyHasPackage
    BY ProcFacts DEF Init, ReadyHasPackage
  <1>4. VersionsOfBuilds
    BY ProcFacts DEF Init, VersionsOfBuilds, Finished
  <1>5. ReadyWasChecked
    BY DEF Init, ReadyWasChecked
  <1>6. QED
    BY <1>1, <1>2, <1>3, <1>4, <1>5 DEF IInv

\* A step that ends without a trace in the documents: a review, a refusal, a
\* failure, or a decision that marks nothing.
LEMMA EndingSteps ==
    ASSUME IInv, NEW p \in Run \cup Human, NEW l \in Location, EndsAs(p, l),
           p \in Builds => l \notin {"done", "unchecked"} /\ pc[p] \in {"loaded", "read"},
           UNCHANGED <<docs, exported>>,
           status' \in FilingStatus, rec' \in RecStatus,
           status' = "ready" => status = "ready",
           raced' \subseteq Topic, faults' \in 0..MaxFaults
    PROVE  IInv'
  <1>1. p \in Proc /\ p \notin Download
    BY ProcFacts
  <1>2. TypeOK'
    BY <1>1, EndsAsType DEF IInv, TypeOK
  <1>3. Quiet
    <2>1. /\ \A q \in Proc \ {p} : pc'[q] = pc[q] /\ seenLatest'[q] = seenLatest[q]
          /\ pc'[p] = l /\ seenLatest'[p] = 0
      BY <1>1, EndsAsKeeps DEF IInv
    <2>2. \A r \in Builds : Finished(r)' <=> Finished(r)
      BY <2>1, ProcFacts DEF Finished
    <2>3. QED
      BY <1>1, <2>1, <2>2, ProcFacts DEF Quiet
  <1>4. QED
    BY <1>2, <1>3, QuietSteps

\* A run is queued.
LEMMA DispatchStep ==
    ASSUME IInv, NEW r \in Run, Dispatch(r)
    PROVE  IInv'
  <1>1. r \in Proc /\ r \notin Download
    BY ProcFacts
  <1>2. pc' = [pc EXCEPT ![r] = "queued"] /\ pc[r] = "new"
    BY DEF Dispatch, Goto
  <1>3. TypeOK'
    BY <1>1, <1>2 DEF IInv, TypeOK, Dispatch, filing, loaded, history, Location
  <1>4. Quiet
    BY <1>1, <1>2, ProcFacts
       DEF IInv, TypeOK, Quiet, Dispatch, filing, loaded, history, Finished
  <1>5. QED
    BY <1>3, <1>4, QuietSteps

\* A run or a decision loads the filing.
LEMMA LoadStep ==
    ASSUME IInv, NEW p \in Run \cup Human, Load(p)
    PROVE  IInv'
  <1>1. p \in Proc /\ p \notin Download
    BY ProcFacts
  <1>2. pc' = [pc EXCEPT ![p] = "loaded"] /\ pc[p] \in {"queued", "new"}
    BY DEF Load, Goto
  <1>3. TypeOK'
    <2>1. seenStatus' \in [Proc -> FilingStatus]
      BY <1>1 DEF IInv, TypeOK, Load
    <2>2. pc' \in [Proc -> Location]
      BY <1>1, <1>2 DEF IInv, TypeOK, Location
    <2>3. QED
      BY <2>1, <2>2 DEF IInv, TypeOK, Load, filing, history
  <1>4. Quiet
    BY <1>1, <1>2, ProcFacts
       DEF IInv, TypeOK, Quiet, Load, filing, history, Finished
  <1>5. QED
    BY <1>3, <1>4, QuietSteps

\* It reads what it depends on.
LEMMA ReadStep ==
    ASSUME IInv, NEW p \in Run \cup Human, Read(p)
    PROVE  IInv'
  <1>1. p \in Proc /\ p \notin Download
    BY ProcFacts
  <1>2. pc' = [pc EXCEPT ![p] = "read"] /\ pc[p] = "loaded"
    BY DEF Read, Goto
  <1>3. seenLatest' = seenLatest \/ seenLatest' = [seenLatest EXCEPT ![p] = Latest]
    BY DEF Read
  <1>4. TypeOK'
    <2>1. seenLatest' \in [Proc -> Version \cup {0}]
      BY <1>1, <1>3, LatestExists DEF IInv, TypeOK
    <2>2. seenRec' \in [Proc -> RecStatus]
      BY <1>1 DEF IInv, TypeOK, Read
    <2>3. pc' \in [Proc -> Location]
      BY <1>1, <1>2 DEF IInv, TypeOK, Location
    <2>4. QED
      BY <2>1, <2>2, <2>3 DEF IInv, TypeOK, Read, filing, history
  <1>5. Quiet
    <2>1. \A q \in Proc : seenLatest'[q] \in {0, seenLatest[q], Latest}
      BY <1>3 DEF IInv, TypeOK
    <2>2. \A r \in Builds : Finished(r)' <=> Finished(r)
      BY <1>1, <1>2, ProcFacts DEF IInv, TypeOK, Finished
    <2>3. \A x \in Download : pc'[x] = pc[x]
      BY <1>1, <1>2, ProcFacts DEF IInv, TypeOK
    <2>4. QED
      BY <2>1, <2>2, <2>3 DEF Quiet, Read, filing
  <1>6. QED
    BY <1>4, <1>5, QuietSteps

\* Whoever decides or writes for a gate has a topic.
LEMMA TopicFacts ==
    /\ \A h \in Human : TopicOf(h) \in Topic
    /\ \A r \in Run : Kind[r] \in {"package", "recommend"} => TopicOf(r) \in Topic
  <1>1. \A h \in Human : TopicOf(h) \in Topic
    BY FilingAssumption DEF TopicOf
  <1>2. \A r \in Run : Kind[r] = "package" => TopicOf(r) = "package"
    BY FilingAssumption DEF TopicOf
  <1>3. \A r \in Run : Kind[r] = "recommend" => TopicOf(r) = "recommendation"
    BY FilingAssumption DEF TopicOf
  <1>4. QED
    BY <1>1, <1>2, <1>3 DEF Topic

LEMMA ReviewStep ==
    ASSUME IInv, NEW r \in Run, Review(r)
    PROVE  IInv'
  <1>1. r \in Proc /\ r \notin Builds /\ EndsAs(r, "done") /\ "done" \in Location
    BY ProcFacts DEF Review, Builds, Location
  <1>2. status' \in FilingStatus /\ (status' = "ready" => status = "ready")
    BY <1>1 DEF IInv, TypeOK, Review, StatusWritten, FilingStatus
  <1>3. rec' \in RecStatus /\ raced' \subseteq Topic /\ faults' \in 0..MaxFaults
    BY DEF IInv, TypeOK, Review, history
  <1>4. QED
    BY <1>1, <1>2, <1>3, EndingSteps DEF Review, history

LEMMA RecommendStep ==
    ASSUME IInv, NEW r \in Run, Recommend(r)
    PROVE  IInv'
  <1>1. r \in Proc /\ r \notin Builds /\ EndsAs(r, "done") /\ "done" \in Location
    BY ProcFacts DEF Recommend, Builds, Location
  <1>2. status' \in FilingStatus /\ (status' = "ready" => status = "ready")
    BY <1>1 DEF IInv, TypeOK, Recommend, StatusWritten, FilingStatus
  <1>3. raced' \subseteq Topic
    BY RacedType, TopicFacts DEF IInv, Recommend
  <1>4. rec' \in RecStatus /\ faults' \in 0..MaxFaults
    BY DEF IInv, TypeOK, Recommend, RecStatus
  <1>5. QED
    BY <1>1, <1>2, <1>3, <1>4, EndingSteps DEF Recommend

\* A collision, an agent's failure, a fault and a refused approval write nothing.
LEMMA RolledBack ==
    ASSUME IInv, NEW p \in Run \cup Human,
           \/ p \in Run /\ (Collide(p) \/ StepFails(p))
           \/ Fault(p)
           \/ p \in Human /\ ApproveRefused(p)
    PROVE  IInv'
  <1>1. PICK l \in {"queued", "failed", "new"} : EndsAs(p, l)
    BY DEF Collide, StepFails, Fault, ApproveRefused
  <1>2. l \in Location /\ l \notin {"done", "unchecked"}
    BY <1>1 DEF Location
  <1>3. pc[p] \in {"loaded", "read"}
    BY DEF Collide, StepFails, Fault, ApproveRefused, InFlight
  <1>4. UNCHANGED <<filing, exported, raced>>
    BY DEF Collide, StepFails, Fault, ApproveRefused, history
  <1>5. faults' \in 0..MaxFaults
    <2>1. faults' = faults \/ (faults < MaxFaults /\ faults' = faults + 1)
      BY DEF Collide, StepFails, Fault, ApproveRefused
    <2>2. QED
      BY <2>1, FilingAssumption DEF IInv, TypeOK
  <1>6. QED
    BY <1>1, <1>2, <1>3, <1>4, <1>5, EndingSteps DEF IInv, TypeOK, filing

LEMMA DecideRecommendationStep ==
    ASSUME IInv, NEW h \in Human, NEW approved \in BOOLEAN, DecideRecommendation(h, approved)
    PROVE  IInv'
  <1>1. h \in Proc /\ h \notin Builds /\ EndsAs(h, "done") /\ "done" \in Location
    BY ProcFacts DEF DecideRecommendation, Location
  <1>2. status' \in FilingStatus /\ (status' = "ready" => status = "ready")
    BY <1>1 DEF IInv, TypeOK, DecideRecommendation, StatusWritten, FilingStatus
  <1>3. raced' \subseteq Topic
    BY RacedType, TopicFacts DEF IInv, DecideRecommendation
  <1>4. rec' \in RecStatus /\ faults' \in 0..MaxFaults
    BY DEF IInv, TypeOK, DecideRecommendation, RecWritten, RecStatus
  <1>5. QED
    BY <1>1, <1>2, <1>3, <1>4, EndingSteps DEF DecideRecommendation

LEMMA RejectPackageStep ==
    ASSUME IInv, NEW h \in Human, RejectPackage(h)
    PROVE  IInv'
  <1>1. h \in Proc /\ h \notin Builds /\ EndsAs(h, "done") /\ "done" \in Location
    BY ProcFacts DEF RejectPackage, Location
  <1>2. status' \in FilingStatus /\ (status' = "ready" => status = "ready")
    BY <1>1 DEF IInv, TypeOK, RejectPackage, StatusWritten, FilingStatus
  <1>3. raced' \subseteq Topic
    BY RacedType, TopicFacts DEF IInv, RejectPackage
  <1>4. rec' \in RecStatus /\ faults' \in 0..MaxFaults
    BY DEF IInv, TypeOK, RejectPackage
  <1>5. QED
    BY <1>1, <1>2, <1>3, <1>4, EndingSteps DEF RejectPackage

\* An export changes nothing but its own place and what has been exported: the
\* latest version, of which there is one since the filing was ready.
LEMMA ExportSteps ==
    ASSUME IInv, NEW x \in Download, ExportChecks(x) \/ ExportServes(x)
    PROVE  IInv'
  <1>1. x \in Proc /\ x \notin Run
    BY ProcFacts
  <1>2. PICK l \in {"read", "done"} : pc' = [pc EXCEPT ![x] = l]
    BY DEF ExportChecks, ExportServes, Goto
  <1>3. UNCHANGED <<filing, loaded, raced, faults>>
    BY DEF ExportChecks, ExportServes, history
  <1>4. exported' \subseteq Version
    <2>1. CASE ExportChecks(x)
      BY <2>1 DEF ExportChecks, history, IInv, TypeOK
    <2>2. CASE ExportServes(x)
      <3>1. Latest # 0
        BY <2>2 DEF ExportServes, IInv, ReadyHasPackage
      <3>2. QED
        BY <2>2, <3>1, LatestExists DEF ExportServes, IInv, TypeOK
    <2>3. QED
      BY <2>1, <2>2
  <1>5. TypeOK'
    <2>1. pc' \in [Proc -> Location]
      BY <1>1, <1>2 DEF IInv, TypeOK, Location
    <2>2. QED
      BY <1>3, <1>4, <2>1 DEF IInv, TypeOK, filing, loaded
  <1>6. Quiet
    <2>1. \A r \in Builds : pc'[r] = pc[r]
      BY <1>1, <1>2, ProcFacts DEF IInv, TypeOK
    <2>2. \A y \in Download : pc'[y] = "read" => pc[y] = "read" \/ status = "ready"
      BY <1>1, <1>2, ProcFacts DEF IInv, TypeOK, ExportChecks, ExportServes, Goto
    <2>3. QED
      BY <1>3, <2>1, <2>2 DEF Quiet, filing, loaded, Finished
  <1>7. QED
    BY <1>5, <1>6, QuietSteps

\* A build ends with a version of its own, checked or not.
LEMMA BuildSteps ==
    ASSUME IInv, NEW r \in Run, Build(r) \/ BuildUnchecked(r)
    PROVE  IInv'
  <1>1. r \in Builds /\ r \in Proc /\ r \notin Download /\ pc[r] = "read" /\ ~VersionConflict(r)
    BY ProcFacts DEF Build, BuildUnchecked, Builds
  <1>2. PICK validated \in BOOLEAN : NewDocs(r, validated)
    BY DEF Build, BuildUnchecked
  <1>3. PICK l \in {"done", "unchecked"} : EndsAs(r, l)
    BY DEF Build, BuildUnchecked
  <1>4. PICK n \in Version :
           /\ docs[n] = NoDocs
           /\ docs'[n] = [by |-> r, validated |-> validated, ready |-> FALSE]
           /\ docs'[n] # NoDocs
           /\ \A v \in Version \ {n} : docs'[v] = docs[v]
           /\ docs' \in [Version -> Docs \cup {NoDocs}]
           /\ \A v \in Version : docs'[v] # NoDocs => \A w \in 1..v : docs'[w] # NoDocs
    BY <1>1, <1>2, NewVersion
  <1>5. l \in Location /\ Finished(r)' /\ ~Finished(r)
    BY <1>1, <1>3, EndsAsKeeps DEF IInv, Finished, Location
  <1>6. /\ \A q \in Proc \ {r} : pc'[q] = pc[q] /\ seenLatest'[q] = seenLatest[q]
        /\ pc'[r] = l /\ seenLatest'[r] = 0
    BY <1>1, <1>3, <1>5, EndsAsKeeps DEF IInv
  <1>7. docs'[n].by = r /\ docs'[n].ready = FALSE
    BY <1>4
  <1>8. \A v \in Version : docs[v] # NoDocs => docs'[v] = docs[v] /\ v # n
    BY <1>4
  <1>9. TypeOK'
    <2>1. status' \in FilingStatus
      BY <1>1 DEF IInv, TypeOK, Build, BuildUnchecked, StatusBuilt, StatusWritten, FilingStatus
    <2>2. raced' \subseteq Topic
      <3>1. TopicOf(r) \in Topic
        BY <1>1, TopicFacts DEF Builds
      <3>2. QED
        BY <3>1, RacedType DEF IInv, Build, BuildUnchecked
    <2>3. UNCHANGED <<rec, exported, faults>>
      BY DEF Build, BuildUnchecked
    <2>4. QED
      BY <1>1, <1>3, <1>4, <1>5, <2>1, <2>2, <2>3, EndsAsType DEF IInv, TypeOK
  <1>10. ReadStays'
    BY <1>4, <1>6, <1>8 DEF IInv, TypeOK, ReadStays
  <1>11. ReadyHasPackage'
    <2>1. status' = "ready" => status = "ready"
      BY DEF Build, BuildUnchecked, StatusBuilt, StatusWritten
    <2>2. Latest # 0 => Latest' # 0
      BY <1>8, PackageStays
    <2>3. \A x \in Download : pc'[x] = pc[x]
      BY <1>1, <1>6, ProcFacts
    <2>4. QED
      BY <2>1, <2>2, <2>3 DEF IInv, ReadyHasPackage
  <1>12. VersionsOfBuilds'
    <2>1. \A q \in Builds : q # r => (Finished(q)' <=> Finished(q))
      BY <1>6, ProcFacts DEF Finished
    <2>2. \A v \in Version : docs[v] # NoDocs => docs[v].by # r
      BY <1>5 DEF IInv, VersionsOfBuilds
    <2>3. \A v \in Version :
             docs'[v] # NoDocs => docs'[v].by \in Builds /\ pc'[docs'[v].by] \in {"done", "unchecked"}
      <3> SUFFICES ASSUME NEW v \in Version, docs'[v] # NoDocs
                   PROVE  docs'[v].by \in Builds /\ pc'[docs'[v].by] \in {"done", "unchecked"}
        OBVIOUS
      <3>1. CASE v = n
        BY <1>1, <1>5, <1>7, <3>1 DEF Finished
      <3>2. CASE v # n
        <4>1. docs'[v] = docs[v] /\ docs[v] # NoDocs
          BY <1>4, <3>2
        <4>2. docs[v].by \in Builds /\ Finished(docs[v].by) /\ docs[v].by # r
          BY <2>2, <4>1 DEF IInv, VersionsOfBuilds
        <4>3. QED
          BY <2>1, <4>1, <4>2 DEF Finished
      <3>3. QED
        BY <3>1, <3>2
    <2>4. \A v, w \in Version :
             docs'[v] # NoDocs /\ docs'[w] # NoDocs /\ docs'[v].by = docs'[w].by => v = w
      <3> SUFFICES ASSUME NEW v \in Version, NEW w \in Version,
                          docs'[v] # NoDocs, docs'[w] # NoDocs, docs'[v].by = docs'[w].by
                   PROVE  v = w
        OBVIOUS
      <3>1. CASE v = n /\ w = n
        BY <3>1
      <3>2. CASE v = n /\ w # n
        BY <1>4, <1>7, <2>2, <3>2
      <3>3. CASE v # n /\ w = n
        BY <1>4, <1>7, <2>2, <3>3
      <3>4. CASE v # n /\ w # n
        <4>1. docs'[v] = docs[v] /\ docs'[w] = docs[w]
          BY <1>4, <3>4
        <4>2. QED
          BY <4>1 DEF IInv, VersionsOfBuilds
      <3>5. QED
        BY <3>1, <3>2, <3>3, <3>4
    <2>5. \A q \in Builds :
             Finished(q)' => \E v \in Version : docs'[v] # NoDocs /\ docs'[v].by = q
      <3> SUFFICES ASSUME NEW q \in Builds, Finished(q)'
                   PROVE  \E v \in Version : docs'[v] # NoDocs /\ docs'[v].by = q
        OBVIOUS
      <3>1. CASE q = r
        BY <1>4, <1>7, <3>1
      <3>2. CASE q # r
        <4>1. PICK v \in Version : docs[v] # NoDocs /\ docs[v].by = q
          BY <2>1, <3>2 DEF IInv, VersionsOfBuilds
        <4>2. QED
          BY <1>8, <4>1
      <3>3. QED
        BY <3>1, <3>2
    <2>6. QED
      BY <2>3, <2>4, <2>5 DEF VersionsOfBuilds, Finished
  <1>13. ReadyWasChecked'
    BY <1>4, <1>7 DEF IInv, ReadyWasChecked
  <1>14. QED
    BY <1>9, <1>10, <1>11, <1>12, <1>13 DEF IInv

\* An approval marks a version that stood the check.
LEMMA ApprovePackageStep ==
    ASSUME IInv, NEW h \in Human, ApprovePackage(h)
    PROVE  IInv'
  <1>1. h \in Proc /\ h \notin Download /\ h \notin Run
    BY ProcFacts
  <1>2. PICK n \in Version :
           /\ docs[n] # NoDocs /\ docs[n].validated
           /\ docs' \in [Version -> Docs \cup {NoDocs}]
           /\ \A v \in Version : /\ docs'[v] # NoDocs <=> docs[v] # NoDocs
                                 /\ docs[v] # NoDocs => docs'[v].by = docs[v].by
                                 /\ docs[v] # NoDocs => docs'[v].validated = docs[v].validated
                                 /\ v # n => docs'[v] = docs[v]
    BY MarkedReady
  <1>3. EndsAs(h, "done") /\ "done" \in Location
    BY DEF ApprovePackage, Location
  <1>4. /\ \A q \in Proc \ {h} : pc'[q] = pc[q] /\ seenLatest'[q] = seenLatest[q]
        /\ pc'[h] = "done" /\ seenLatest'[h] = 0
    BY <1>1, <1>3, EndsAsKeeps DEF IInv
  <1>5. TypeOK'
    <2>1. status' \in FilingStatus
      BY DEF IInv, TypeOK, ApprovePackage, StatusWritten, FilingStatus
    <2>2. raced' \subseteq Topic
      BY TopicFacts, RacedType DEF IInv, ApprovePackage
    <2>3. UNCHANGED <<rec, exported, faults>>
      BY DEF ApprovePackage
    <2>4. \A v \in Version : docs'[v] # NoDocs => \A w \in 1..v : docs'[w] # NoDocs
      <3>1. \A v \in Version : \A w \in 1..v : w \in Version
        BY VersionFacts DEF Version
      <3>2. QED
        BY <1>2, <3>1 DEF IInv, TypeOK
    <2>5. QED
      BY <1>1, <1>2, <1>3, <2>1, <2>2, <2>3, <2>4, EndsAsType DEF IInv, TypeOK
  <1>6. ReadStays'
    BY <1>2, <1>4 DEF IInv, TypeOK, ReadStays
  <1>7. ReadyHasPackage'
    <2>1. Latest # 0
      BY <1>2, LatestSaysSo DEF SomeVersion
    <2>2. Latest' # 0
      BY <1>2, <2>1, PackageStays
    <2>3. QED
      BY <2>2 DEF ReadyHasPackage
  <1>8. VersionsOfBuilds'
    <2>1. \A r \in Builds : pc'[r] = pc[r]
      BY <1>1, <1>4, ProcFacts
    <2>2. \A v \in Version :
             docs'[v] # NoDocs => docs'[v].by \in Builds /\ pc'[docs'[v].by] \in {"done", "unchecked"}
      <3> SUFFICES ASSUME NEW v \in Version, docs'[v] # NoDocs
                   PROVE  docs'[v].by \in Builds /\ pc'[docs'[v].by] \in {"done", "unchecked"}
        OBVIOUS
      <3>1. docs'[v].by = docs[v].by /\ docs[v].by \in Builds /\ Finished(docs[v].by)
        BY <1>2 DEF IInv, VersionsOfBuilds
      <3>2. QED
        BY <2>1, <3>1 DEF Finished
    <2>3. \A v, w \in Version :
             docs'[v] # NoDocs /\ docs'[w] # NoDocs /\ docs'[v].by = docs'[w].by => v = w
      BY <1>2 DEF IInv, VersionsOfBuilds
    <2>4. \A r \in Builds :
             Finished(r)' => \E v \in Version : docs'[v] # NoDocs /\ docs'[v].by = r
      BY <1>2, <2>1 DEF IInv, VersionsOfBuilds, Finished
    <2>5. QED
      BY <2>2, <2>3, <2>4 DEF VersionsOfBuilds, Finished
  <1>9. ReadyWasChecked'
    BY <1>2 DEF IInv, ReadyWasChecked
  <1>10. QED
    BY <1>5, <1>6, <1>7, <1>8, <1>9 DEF IInv

\* Nothing happens.
LEMMA StutterStep ==
    ASSUME IInv, UNCHANGED vars
    PROVE  IInv'
  <1>1. TypeOK'
    BY DEF IInv, TypeOK, vars, filing, loaded, history
  <1>2. Quiet
    BY DEF Quiet, vars, filing, loaded, Finished
  <1>3. QED
    BY <1>1, <1>2, QuietSteps

-----------------------------------------------------------------------------
\* The theorems

\* The inductive invariant holds of every behaviour.
THEOREM Inductive == Spec => []IInv
  <1>1. Init => IInv
    BY InitStep
  <1>2. IInv /\ [Next]_vars => IInv'
    <2> SUFFICES ASSUME IInv, [Next]_vars
                 PROVE  IInv'
      OBVIOUS
    <2>1. CASE UNCHANGED vars
      BY <2>1, StutterStep
    <2>2. ASSUME NEW r \in Run,
                 \/ Dispatch(r) \/ Review(r) \/ Recommend(r)
                 \/ Build(r) \/ BuildUnchecked(r)
                 \/ Collide(r) \/ StepFails(r)
          PROVE  IInv'
      BY <2>2, DispatchStep, ReviewStep, RecommendStep, BuildSteps, RolledBack
    <2>3. ASSUME NEW h \in Human,
                 \/ \E approved \in BOOLEAN : DecideRecommendation(h, approved)
                 \/ ApprovePackage(h) \/ ApproveRefused(h) \/ RejectPackage(h)
          PROVE  IInv'
      BY <2>3, DecideRecommendationStep, ApprovePackageStep, RejectPackageStep, RolledBack
    <2>4. ASSUME NEW p \in Run \cup Human, Load(p) \/ Read(p) \/ Fault(p)
          PROVE  IInv'
      BY <2>4, LoadStep, ReadStep, RolledBack
    <2>5. ASSUME NEW x \in Download, ExportChecks(x) \/ ExportServes(x)
          PROVE  IInv'
      BY <2>5, ExportSteps
    <2>6. CASE AllOver
      BY <2>6, StutterStep DEF AllOver
    <2>7. QED
      BY <2>1, <2>2, <2>3, <2>4, <2>5, <2>6 DEF Next
  <1>3. QED
    BY <1>1, <1>2, PTL DEF Spec

\* Every variable has its type, and versions have no gaps.
THEOREM TypeCorrect == Spec => []TypeOK
  <1>1. IInv => TypeOK
    BY DEF IInv
  <1>2. QED
    BY <1>1, Inductive, PTL

\* CON-2, whatever is rebuilt while an approver decides: a version that is ready
\* for export stood the citation check (record_approval).
THEOREM ApprovedWasChecked == Spec => []ReadyWasChecked
  <1>1. IInv => ReadyWasChecked
    BY DEF IInv
  <1>2. QED
    BY <1>1, Inductive, PTL

\* However many builds compete for version numbers, each one that came to its
\* end has exactly one version (build_package and its unique constraint).
THEOREM BuildsHaveVersions == Spec => []OneVersionPerBuild
  <1>1. IInv => OneVersionPerBuild
    <2> SUFFICES ASSUME IInv, NEW r \in Builds, Finished(r)
                 PROVE  Cardinality({v \in Version : docs[v] # NoDocs /\ docs[v].by = r}) = 1
      BY DEF OneVersionPerBuild, Finished
    <2>1. PICK v \in Version : docs[v] # NoDocs /\ docs[v].by = r
      BY DEF IInv, VersionsOfBuilds
    <2>2. {w \in Version : docs[w] # NoDocs /\ docs[w].by = r} = {v}
      BY <2>1 DEF IInv, VersionsOfBuilds
    <2>3. QED
      BY <2>2, FS_Singleton
  <1>2. QED
    BY <1>1, Inductive, PTL
-----------------------------------------------------------------------------
\* The gates, while nobody's decision overlaps

\* Whoever is at work on the package knows of an approval of it, and an approver
\* has read the latest version ...
KnowsPackage(p) ==
    (InFlight(p) /\ TopicOf(p) = "package" /\ "package" \notin raced) =>
        /\ status = "ready" => seenStatus[p] = "ready"
        /\ (p \in Human /\ pc[p] = "read") => seenLatest[p] = Latest

\* ... and the same of the recommendation.
KnowsRecommendation(p) ==
    (InFlight(p) /\ TopicOf(p) = "recommendation" /\ "recommendation" \notin raced) =>
        /\ status = "approved" => seenStatus[p] = "approved"
        /\ (p \in Human /\ pc[p] = "read") => seenRec[p] = rec

Serial == \A p \in Run \cup Human : KnowsPackage(p) /\ KnowsRecommendation(p)

SerialInv == IInv /\ Serial /\ SerialGates

\* The latest version stays the latest as long as the same versions exist.
LEMMA LatestSame ==
    ASSUME \A v \in Version : docs'[v] # NoDocs <=> docs[v] # NoDocs
    PROVE  Latest' = Latest
  <1>1. {v \in Version : docs'[v] # NoDocs} = {v \in Version : docs[v] # NoDocs}
    OBVIOUS
  <1>2. QED
    BY <1>1 DEF Latest

\* Who overlaps with nobody's decision is alone at work on its topic, or all at
\* work on it are runs.
LEMMA UnracedIsAlone ==
    ASSUME NEW p \in Run \cup Human, Raced(p), TopicOf(p) \notin raced',
           NEW q \in Run \cup Human, q # p, InFlight(q), TopicOf(q) = TopicOf(p)
    PROVE  p \notin Human /\ q \notin Human
  BY DEF Raced, Overlaps

\* What a write may change without anybody's notice, unless its topic counts as
\* raced from then on.
Announced(p) ==
    /\ raced \subseteq raced'
    /\ \/ status' = "ready" => status = "ready"
       \/ p \in Human /\ TopicOf(p) = "package" /\ Raced(p)
    /\ \/ Latest' = Latest
       \/ TopicOf(p) = "package" /\ Raced(p)
    /\ \/ status' = "approved" => status = "approved"
       \/ p \in Human /\ TopicOf(p) = "recommendation" /\ Raced(p)
    /\ \/ rec' = rec
       \/ TopicOf(p) = "recommendation" /\ Raced(p)

LEMMA EndsKnowing ==
    ASSUME IInv, Serial, NEW p \in Run \cup Human, NEW l \in Location,
           EndsAs(p, l), l \notin {"loaded", "read"}, Announced(p)
    PROVE  Serial'
  <1> SUFFICES ASSUME NEW q \in Run \cup Human, InFlight(q)'
               PROVE  KnowsPackage(q)' /\ KnowsRecommendation(q)'
    BY DEF Serial, KnowsPackage, KnowsRecommendation
  <1>1. p \in Proc /\ q \in Proc
    BY ProcFacts
  <1>2. q # p /\ InFlight(q) /\ pc'[q] = pc[q]
    BY <1>1 DEF IInv, TypeOK, EndsAs, Goto, InFlight
  <1>3. /\ seenStatus'[q] = seenStatus[q]
        /\ seenRec'[q] = seenRec[q]
        /\ seenLatest'[q] = seenLatest[q]
    BY <1>1, <1>2 DEF IInv, TypeOK, EndsAs
  <1>4. KnowsPackage(q) /\ KnowsRecommendation(q)
    BY DEF Serial
  <1>5. raced \subseteq raced'
    BY DEF Announced
  <1>6. KnowsPackage(q)'
    <2> SUFFICES ASSUME TopicOf(q) = "package", "package" \notin raced'
                 PROVE  /\ status' = "ready" => seenStatus[q] = "ready"
                        /\ (q \in Human /\ pc[q] = "read") => seenLatest[q] = Latest'
      BY <1>2, <1>3 DEF KnowsPackage, TopicOf
    <2>1. /\ status = "ready" => seenStatus[q] = "ready"
          /\ (q \in Human /\ pc[q] = "read") => seenLatest[q] = Latest
      BY <1>2, <1>4, <1>5 DEF KnowsPackage
    <2>2. (TopicOf(p) = "package" /\ Raced(p)) => p \notin Human /\ q \notin Human
      BY <1>2, UnracedIsAlone
    <2>3. status' = "ready" => status = "ready"
      BY <2>2 DEF Announced
    <2>4. q \in Human => Latest' = Latest
      BY <2>2 DEF Announced
    <2>5. QED
      BY <2>1, <2>3, <2>4
  <1>7. KnowsRecommendation(q)'
    <2> SUFFICES ASSUME TopicOf(q) = "recommendation", "recommendation" \notin raced'
                 PROVE  /\ status' = "approved" => seenStatus[q] = "approved"
                        /\ (q \in Human /\ pc[q] = "read") => seenRec[q] = rec'
      BY <1>2, <1>3 DEF KnowsRecommendation, TopicOf
    <2>1. /\ status = "approved" => seenStatus[q] = "approved"
          /\ (q \in Human /\ pc[q] = "read") => seenRec[q] = rec
      BY <1>2, <1>4, <1>5 DEF KnowsRecommendation
    <2>2. (TopicOf(p) = "recommendation" /\ Raced(p)) => p \notin Human /\ q \notin Human
      BY <1>2, UnracedIsAlone
    <2>3. status' = "approved" => status = "approved"
      BY <2>2 DEF Announced
    <2>4. q \in Human => rec' = rec
      BY <2>2 DEF Announced
    <2>5. QED
      BY <2>1, <2>3, <2>4
  <1>8. QED
    BY <1>6, <1>7

\* A step that writes nothing of the filing and takes nobody up ...
LEMMA IdleSerial ==
    ASSUME IInv, Serial, SerialGates, UNCHANGED <<filing, loaded, raced>>,
           \A p \in Run \cup Human : InFlight(p)' => InFlight(p) /\ pc'[p] = pc[p]
    PROVE  Serial' /\ SerialGates'
  <1>1. Latest' = Latest
    BY LatestSame DEF filing
  <1>2. SerialGates'
    BY <1>1 DEF SerialGates, filing
  <1>3. ASSUME NEW p \in Run \cup Human
        PROVE  KnowsPackage(p)' /\ KnowsRecommendation(p)'
    <2>1. KnowsPackage(p) /\ KnowsRecommendation(p)
      BY DEF Serial
    <2>2. QED
      BY <1>1, <2>1 DEF KnowsPackage, KnowsRecommendation, TopicOf, filing, loaded
  <1>4. QED
    BY <1>2, <1>3 DEF Serial

\* ... and one that takes somebody up, or lets it read.
LEMMA LoadSerial ==
    ASSUME IInv, Serial, SerialGates, NEW p \in Run \cup Human, Load(p) \/ Read(p)
    PROVE  Serial' /\ SerialGates'
  <1>1. UNCHANGED <<filing, raced>>
    BY DEF Load, Read, history
  <1>2. Latest' = Latest
    BY <1>1, LatestSame DEF filing
  <1>3. SerialGates'
    BY <1>1, <1>2 DEF SerialGates, filing
  <1>4. ASSUME NEW q \in Run \cup Human
        PROVE  KnowsPackage(q)' /\ KnowsRecommendation(q)'
    <2>1. KnowsPackage(q) /\ KnowsRecommendation(q) /\ p \in Proc /\ q \in Proc
      BY ProcFacts DEF Serial
    <2>2. CASE q # p
      <3>1. /\ pc'[q] = pc[q] /\ seenStatus'[q] = seenStatus[q]
            /\ seenRec'[q] = seenRec[q] /\ seenLatest'[q] = seenLatest[q]
        BY <2>1, <2>2 DEF IInv, TypeOK, Load, Read, Goto
      <3>2. QED
        BY <1>1, <1>2, <2>1, <3>1
           DEF KnowsPackage, KnowsRecommendation, InFlight, TopicOf, filing
    <2>3. CASE q = p /\ Load(p)
      <3>1. pc'[p] = "loaded" /\ seenStatus'[p] = status
        BY <2>1, <2>3 DEF IInv, TypeOK, Load, Goto
      <3>2. QED
        BY <1>1, <2>3, <3>1 DEF KnowsPackage, KnowsRecommendation, filing
    <2>4. CASE q = p /\ Read(p)
      <3>1. InFlight(p) /\ seenStatus'[p] = seenStatus[p]
        BY <2>4 DEF Read, InFlight
      <3>2. TopicOf(p) = "package" => seenLatest'[p] = Latest
        BY <2>1, <2>4 DEF IInv, TypeOK, Read
      <3>3. TopicOf(p) = "recommendation" => seenRec'[p] = rec
        BY <2>1, <2>4 DEF IInv, TypeOK, Read
      <3>4. QED
        BY <1>1, <1>2, <2>1, <2>4, <3>1, <3>2, <3>3
           DEF KnowsPackage, KnowsRecommendation, TopicOf, filing
    <2>5. QED
      BY <2>2, <2>3, <2>4
  <1>5. QED
    BY <1>3, <1>4 DEF Serial

\* Races are only added.
LEMMA RacedGrows ==
    ASSUME NEW p \in Run \cup Human, Raced(p)
    PROVE  raced \subseteq raced'
  BY DEF Raced

\* A review, a refusal, a failure or a rejection: nothing is approved by it.
LEMMA PlainSerial ==
    ASSUME SerialInv, NEW p \in Run \cup Human,
           \/ p \in Run /\ (Review(p) \/ Collide(p) \/ StepFails(p))
           \/ Fault(p)
           \/ p \in Human /\ (ApproveRefused(p) \/ RejectPackage(p))
    PROVE  Serial' /\ SerialGates'
  <1>1. UNCHANGED <<rec, docs>>
    BY DEF Review, Collide, StepFails, Fault, ApproveRefused, RejectPackage, filing
  <1>2. Latest' = Latest
    BY <1>1, LatestSame
  <1>3. raced \subseteq raced'
    BY RacedGrows DEF Review, Collide, StepFails, Fault, ApproveRefused, RejectPackage, history
  <1>4. status' \in {"ready", "approved"} => status' = status
    BY DEF Review, Collide, StepFails, Fault, ApproveRefused, RejectPackage, filing, StatusWritten
  <1>5. PICK l \in {"done", "queued", "failed", "new"} : EndsAs(p, l)
    BY DEF Review, Collide, StepFails, Fault, ApproveRefused, RejectPackage
  <1>6. l \in Location /\ l \notin {"loaded", "read"}
    BY <1>5 DEF Location
  <1>7. Announced(p)
    BY <1>1, <1>2, <1>3, <1>4 DEF Announced
  <1>8. Serial'
    BY <1>5, <1>6, <1>7, EndsKnowing DEF SerialInv
  <1>9. SerialGates'
    BY <1>1, <1>2, <1>3, <1>4 DEF SerialInv, SerialGates
  <1>10. QED
    BY <1>8, <1>9

\* A new draft of the recommendation: a filing that was approved with it in hand
\* is not any more.
LEMMA RecommendSerial ==
    ASSUME SerialInv, NEW r \in Run, Recommend(r)
    PROVE  Serial' /\ SerialGates'
  <1>1. TopicOf(r) = "recommendation" /\ r \in Run \cup Human
    BY FilingAssumption DEF Recommend, TopicOf
  <1>2. /\ Raced(r) /\ EndsAs(r, "done") /\ UNCHANGED docs
        /\ pc[r] = "read" /\ status' = StatusWritten(r, "recommended")
    BY DEF Recommend
  <1>3. Latest' = Latest
    BY <1>2, LatestSame
  <1>4. raced \subseteq raced'
    BY <1>1, <1>2, RacedGrows
  <1>5. status' \in {"ready", "approved"} => status' = status /\ seenStatus[r] = "recommended"
    BY <1>2 DEF StatusWritten
  <1>6. Serial'
    <2>1. Announced(r)
      BY <1>1, <1>2, <1>3, <1>4, <1>5 DEF Announced
    <2>2. "done" \in Location
      BY DEF Location
    <2>3. QED
      BY <1>1, <1>2, <2>1, <2>2, EndsKnowing DEF SerialInv
  <1>7. ~(status' = "approved" /\ "recommendation" \notin raced')
    <2>1. KnowsRecommendation(r)
      BY <1>1 DEF SerialInv, Serial
    <2>2. QED
      BY <1>1, <1>2, <1>4, <1>5, <2>1 DEF KnowsRecommendation, InFlight
  <1>8. SerialGates'
    BY <1>2, <1>3, <1>4, <1>5, <1>7 DEF SerialInv, SerialGates
  <1>9. QED
    BY <1>6, <1>8

\* A decision on the recommendation that the approver has read.
LEMMA DecideSerial ==
    ASSUME SerialInv, NEW h \in Human, NEW approved \in BOOLEAN,
           DecideRecommendation(h, approved)
    PROVE  Serial' /\ SerialGates'
  <1>1. TopicOf(h) = "recommendation" /\ h \in Run \cup Human
    BY FilingAssumption DEF DecideRecommendation, TopicOf
  <1>2. /\ Raced(h) /\ EndsAs(h, "done") /\ UNCHANGED docs /\ pc[h] = "read"
        /\ rec' = RecWritten(h, IF approved THEN "approved" ELSE "draft")
        /\ status' = StatusWritten(h, IF approved THEN "approved" ELSE "recommended")
    BY DEF DecideRecommendation
  <1>3. Latest' = Latest
    BY <1>2, LatestSame
  <1>4. raced \subseteq raced'
    BY <1>1, <1>2, RacedGrows
  <1>5. status' = "ready" => status = "ready"
    BY <1>2 DEF StatusWritten
  <1>6. Serial'
    <2>1. Announced(h)
      BY <1>1, <1>2, <1>3, <1>4, <1>5 DEF Announced
    <2>2. "done" \in Location
      BY DEF Location
    <2>3. QED
      BY <1>1, <1>2, <2>1, <2>2, EndsKnowing DEF SerialInv
  <1>7. ASSUME status' = "approved", "recommendation" \notin raced'
        PROVE  rec' # "draft"
    <2>1. /\ status = "approved" => seenStatus[h] = "approved"
          /\ seenRec[h] = rec
      BY <1>1, <1>2, <1>4, <1>7 DEF SerialInv, Serial, KnowsRecommendation, InFlight
    <2>2. approved
      BY <1>2, <1>7, <2>1 DEF StatusWritten
    <2>3. QED
      BY <1>2, <2>1, <2>2 DEF RecWritten
  <1>8. SerialGates'
    BY <1>2, <1>3, <1>4, <1>5, <1>7 DEF SerialInv, SerialGates
  <1>9. QED
    BY <1>6, <1>8

\* A new version: a filing that was ready is not any more, because the build saw
\* it ready and so writes another status.
LEMMA BuildSerial ==
    ASSUME SerialInv, NEW r \in Run, Build(r) \/ BuildUnchecked(r)
    PROVE  Serial' /\ SerialGates'
  <1>1. TopicOf(r) = "package" /\ r \in Run \cup Human
    BY FilingAssumption DEF Build, BuildUnchecked, TopicOf
  <1>2. /\ Raced(r) /\ UNCHANGED rec /\ pc[r] = "read"
        /\ status' \in {StatusBuilt, StatusWritten(r, "packaging")}
    BY DEF Build, BuildUnchecked
  <1>3. PICK l \in {"done", "unchecked"} : EndsAs(r, l)
    BY DEF Build, BuildUnchecked
  <1>4. raced \subseteq raced'
    BY <1>1, <1>2, RacedGrows
  <1>5. status' \in {"ready", "approved"} => status' = status /\ seenStatus[r] = "packaging"
    BY <1>2 DEF StatusBuilt, StatusWritten
  <1>6. Serial'
    <2>1. Announced(r)
      BY <1>1, <1>2, <1>4, <1>5 DEF Announced
    <2>2. l \in Location /\ l \notin {"loaded", "read"}
      BY <1>3 DEF Location
    <2>3. QED
      BY <1>1, <1>3, <2>1, <2>2, EndsKnowing DEF SerialInv
  <1>7. ~(status' = "ready" /\ "package" \notin raced')
    <2>1. KnowsPackage(r)
      BY <1>1 DEF SerialInv, Serial
    <2>2. QED
      BY <1>1, <1>2, <1>4, <1>5, <2>1 DEF KnowsPackage, InFlight
  <1>8. SerialGates'
    BY <1>2, <1>4, <1>5, <1>7 DEF SerialInv, SerialGates
  <1>9. QED
    BY <1>6, <1>8

\* An approval marks the version its approver has read, which is the latest.
LEMMA ApproveSerial ==
    ASSUME SerialInv, NEW h \in Human, ApprovePackage(h)
    PROVE  Serial' /\ SerialGates'
  <1>1. TopicOf(h) = "package" /\ h \in Run \cup Human /\ h \in Proc
    BY FilingAssumption, ProcFacts DEF ApprovePackage, TopicOf
  <1>2. /\ Raced(h) /\ EndsAs(h, "done") /\ UNCHANGED rec /\ pc[h] = "read"
        /\ status' = StatusWritten(h, "ready")
        /\ docs' = [docs EXCEPT ![seenLatest[h]].ready = TRUE]
    BY DEF ApprovePackage
  <1>3. \A v \in Version : docs'[v] # NoDocs <=> docs[v] # NoDocs
    BY MarkedReady DEF SerialInv
  <1>4. Latest' = Latest
    BY <1>3, LatestSame
  <1>5. raced \subseteq raced'
    BY <1>1, <1>2, RacedGrows
  <1>6. Serial'
    <2>1. status' = "approved" => status = "approved"
      BY <1>2 DEF StatusWritten
    <2>2. Announced(h)
      BY <1>1, <1>2, <1>4, <1>5, <2>1 DEF Announced
    <2>3. "done" \in Location
      BY DEF Location
    <2>4. QED
      BY <1>1, <1>2, <2>2, <2>3, EndsKnowing DEF SerialInv
  <1>7. ASSUME "package" \notin raced'
        PROVE  Latest' # 0 /\ docs'[Latest'].ready
    <2>1. seenLatest[h] = Latest
      BY <1>1, <1>2, <1>5, <1>7 DEF SerialInv, Serial, KnowsPackage, InFlight
    <2>2. Latest # 0 /\ Latest \in Version /\ docs[Latest] \in Docs
      <3>1. Latest # 0
        BY <2>1 DEF ApprovePackage, Approvable
      <3>2. QED
        BY <3>1, LatestExists DEF SerialInv, IInv, TypeOK
    <2>3. docs' = [docs EXCEPT ![Latest] = [docs[Latest] EXCEPT !.ready = TRUE]]
      BY <1>2, <2>1
    <2>4. docs'[Latest].ready
      BY <2>2, <2>3 DEF SerialInv, IInv, TypeOK, Docs
    <2>5. QED
      BY <1>4, <2>2, <2>4
  <1>8. status' = "approved" => status = "approved"
    BY <1>2 DEF StatusWritten
  <1>9. SerialGates'
    BY <1>2, <1>5, <1>7, <1>8 DEF SerialInv, SerialGates
  <1>10. QED
    BY <1>6, <1>9

\* Requests for a run, and exports.
LEMMA OtherSerial ==
    ASSUME SerialInv,
           \/ \E r \in Run : Dispatch(r)
           \/ \E x \in Download : ExportChecks(x) \/ ExportServes(x)
           \/ UNCHANGED vars
    PROVE  Serial' /\ SerialGates'
  <1>1. UNCHANGED <<filing, loaded, raced>>
    BY DEF Dispatch, ExportChecks, ExportServes, history, vars
  <1>2. \A p \in Run \cup Human : InFlight(p)' => InFlight(p) /\ pc'[p] = pc[p]
    <2>1. CASE UNCHANGED vars
      BY <2>1 DEF vars, InFlight
    <2>2. ASSUME NEW r \in Run, Dispatch(r), NEW p \in Run \cup Human, InFlight(p)'
          PROVE  InFlight(p) /\ pc'[p] = pc[p]
      BY <2>2, ProcFacts DEF SerialInv, IInv, TypeOK, Dispatch, Goto, InFlight
    <2>3. ASSUME NEW x \in Download, ExportChecks(x) \/ ExportServes(x),
                 NEW p \in Run \cup Human
          PROVE  pc'[p] = pc[p]
      <3>1. p # x /\ p \in Proc /\ x \in Proc
        BY ProcFacts
      <3>2. QED
        BY <2>3, <3>1 DEF SerialInv, IInv, TypeOK, ExportChecks, ExportServes, Goto
    <2>4. QED
      BY <2>1, <2>2, <2>3 DEF InFlight
  <1>3. QED
    BY <1>1, <1>2, IdleSerial DEF SerialInv

\* As long as no decision overlaps a run or another decision on the same topic,
\* a ready filing has its latest version approved, and an approved one no
\* recommendation that is still a draft (record_approval against build_package
\* and build_recommendation).
THEOREM GatesHoldSerially == Spec => []SerialGates
  <1>1. Init => Serial /\ SerialGates
    BY ProcFacts DEF Init, Serial, SerialGates, KnowsPackage, KnowsRecommendation, InFlight
  <1>2. IInv /\ Serial /\ SerialGates /\ [Next]_vars => Serial' /\ SerialGates'
    <2> SUFFICES ASSUME SerialInv, [Next]_vars
                 PROVE  Serial' /\ SerialGates'
      BY DEF SerialInv
    <2>1. CASE UNCHANGED vars
      BY <2>1, OtherSerial
    <2>2. ASSUME NEW r \in Run,
                 \/ Dispatch(r) \/ Review(r) \/ Recommend(r)
                 \/ Build(r) \/ BuildUnchecked(r)
                 \/ Collide(r) \/ StepFails(r)
          PROVE  Serial' /\ SerialGates'
      BY <2>2, OtherSerial, PlainSerial, RecommendSerial, BuildSerial
    <2>3. ASSUME NEW h \in Human,
                 \/ \E approved \in BOOLEAN : DecideRecommendation(h, approved)
                 \/ ApprovePackage(h) \/ ApproveRefused(h) \/ RejectPackage(h)
          PROVE  Serial' /\ SerialGates'
      BY <2>3, DecideSerial, ApproveSerial, PlainSerial
    <2>4. ASSUME NEW p \in Run \cup Human, Load(p) \/ Read(p) \/ Fault(p)
          PROVE  Serial' /\ SerialGates'
      BY <2>4, LoadSerial, PlainSerial DEF SerialInv
    <2>5. ASSUME NEW x \in Download, ExportChecks(x) \/ ExportServes(x)
          PROVE  Serial' /\ SerialGates'
      BY <2>5, OtherSerial
    <2>6. CASE AllOver
      BY <2>6, OtherSerial DEF AllOver
    <2>7. QED
      BY <2>1, <2>2, <2>3, <2>4, <2>5, <2>6 DEF Next
  <1>3. QED
    BY <1>1, <1>2, Inductive, PTL DEF Spec

-----------------------------------------------------------------------------
\* MatchScoring: the scores

\* The scores are between 0 and 100.
LEMMA ClampedType ==
    \A x \in Int : Clamped(x) \in 0..100
  BY DEF Clamped

\* The parts of a contract's score.
LEMMA ContractPoints ==
    ASSUME NEW c, NEW n, n.setAside \in {"certified", "small", "none"}
    PROVE  /\ NaicsPoints(c, n) \in {0, 25, 45}
           /\ ServicePoints(c, n) \in {5, 20}
           /\ SetAsidePoints(c, n) \in {-10, 8, 15, 25}
           /\ PlacePoints(c, n) \in {0, 7}
  <1>1. NaicsPoints(c, n) \in {0, 25, 45}
    BY DEF NaicsPoints
  <1>2. ServicePoints(c, n) \in {5, 20}
    BY DEF ServicePoints
  <1>3. SetAsidePoints(c, n) \in {-10, 8, 15, 25}
    BY DEF SetAsidePoints
  <1>4. PlacePoints(c, n) \in {0, 7}
    BY DEF PlacePoints
  <1>5. QED
    BY <1>1, <1>2, <1>3, <1>4

\* A contract's score is between 0 and 100.
LEMMA ContractScoreType ==
    ASSUME NEW c, NEW n, n.setAside \in {"certified", "small", "none"}
    PROVE  ContractScore(c, n) \in 0..100
  <1>1. NaicsPoints(c, n) + ServicePoints(c, n) + SetAsidePoints(c, n) + PlacePoints(c, n) \in Int
    BY ContractPoints
  <1>2. QED
    BY <1>1, ClampedType DEF ContractScore

\* The parts of a grant's score.
LEMMA GrantPoints ==
    ASSUME NEW c, NEW g, g.applicants \in {"small", "restricted", "unstated"}
    PROVE  /\ EligiblePoints(g) \in {5, 20, 35}
           /\ MissionPoints(c, g) \in {0, 15, 30}
           /\ TargetPoints(c, g) \in {0, 10}
  <1>1. EligiblePoints(g) \in {5, 20, 35}
    BY DEF EligiblePoints
  <1>2. MissionPoints(c, g) \in {0, 15, 30}
    BY DEF MissionPoints
  <1>3. TargetPoints(c, g) \in {0, 10}
    BY DEF TargetPoints
  <1>4. QED
    BY <1>1, <1>2, <1>3

\* A grant's score is between 0 and 100.
LEMMA GrantScoreType ==
    ASSUME NEW c, NEW g, g.applicants \in {"small", "restricted", "unstated"}
    PROVE  GrantScore(c, g) \in 0..100
  <1>1. EligiblePoints(g) + MissionPoints(c, g) + TargetPoints(c, g) \in Int
    BY GrantPoints
  <1>2. QED
    BY <1>1, ClampedType DEF GrantScore

\* A program's score is between 0 and 100.
LEMMA ProgramScoreType ==
    ASSUME NEW c, NEW p, IsFiniteSet(p.signals)
    PROVE  ProgramScore(c, p) \in 0..100
  <1> DEFINE hits == p.signals \cap Haystack(c)
  <1>1. Cardinality(hits) \in Nat
    BY FS_Subset, FS_CardinalityType
  <1>2. ProgramScore(c, p) =
            IF p.requires # {}
            THEN IF p.requires \cap c.certs # {} THEN 85 ELSE IF hits # {} THEN 50 ELSE 25
            ELSE IF p.broad THEN 68
            ELSE IF 30 + Cardinality(hits) * 16 > 95 THEN 95 ELSE 30 + Cardinality(hits) * 16
    BY DEF ProgramScore
  <1> HIDE DEF hits
  <1>3. QED
    BY <1>1, <1>2

\* A profile that states more, and no description in the place of a capability
\* statement, answers no less of what a program asks for.
LEMMA ProgramGain ==
    ASSUME NEW a, NEW b, Extends(b, a), ~Displaces(b, a), NEW p, IsFiniteSet(p.signals)
    PROVE  ProgramScore(a, p) <= ProgramScore(b, p)
  <1> DEFINE hits(c) == p.signals \cap Haystack(c)
             held(c) == p.requires \cap c.certs
  <1>1. hits(a) \subseteq hits(b) /\ held(a) \subseteq held(b)
    <2>1. /\ a.certs \subseteq b.certs /\ a.services \subseteq b.services /\ a.naics \subseteq b.naics
          /\ a.description \subseteq b.description /\ a.statement \subseteq b.statement
      BY DEF Extends
    <2>2. SaidBy(a.services \cup a.naics) \subseteq SaidBy(b.services \cup b.naics)
      BY <2>1 DEF SaidBy
    <2>3. (IF a.description # {} THEN a.description ELSE a.statement)
              \subseteq (IF b.description # {} THEN b.description ELSE b.statement)
      BY <2>1 DEF Displaces
    <2>4. Haystack(a) \subseteq Haystack(b)
      BY <2>2, <2>3 DEF Haystack
    <2>5. QED
      BY <2>1, <2>4
  <1>2. /\ Cardinality(hits(a)) \in Nat /\ Cardinality(hits(b)) \in Nat
        /\ Cardinality(hits(a)) <= Cardinality(hits(b))
    <2>1. IsFiniteSet(hits(a)) /\ IsFiniteSet(hits(b))
      BY FS_Subset
    <2> HIDE DEF hits
    <2>2. QED
      BY <1>1, <2>1, FS_CardinalityType, FS_Subset
  <1>3. \A c : ProgramScore(c, p) =
            IF p.requires # {}
            THEN IF held(c) # {} THEN 85 ELSE IF hits(c) # {} THEN 50 ELSE 25
            ELSE IF p.broad THEN 68
            ELSE IF 30 + Cardinality(hits(c)) * 16 > 95 THEN 95
                 ELSE 30 + Cardinality(hits(c)) * 16
    BY DEF ProgramScore
  <1>4. (held(a) # {} => held(b) # {}) /\ (hits(a) # {} => hits(b) # {})
    BY <1>1
  <1> HIDE DEF hits, held
  <1>5. QED
    BY <1>2, <1>3, <1>4

-----------------------------------------------------------------------------
\* MatchScoring: what a company adds to its evidence

\* What an item covers of a requirement is a number of the requirement's words.
LEMMA OverlapType ==
    ASSUME MatchingAssumption, NEW r \in DOMAIN Demand, NEW item
    PROVE  /\ Cardinality(Demand[r]) \in Nat
           /\ Overlap(r, item) \in 0..Cardinality(Demand[r])
  <1>1. IsFiniteSet(Demand[r]) /\ Demand[r] \cap Fact[item] \in SUBSET Demand[r]
    BY DEF MatchingAssumption
  <1>2. /\ Cardinality(Demand[r]) \in Nat /\ Cardinality(Demand[r] \cap Fact[item]) \in Nat
        /\ Cardinality(Demand[r] \cap Fact[item]) <= Cardinality(Demand[r])
    BY <1>1, FS_CardinalityType, FS_Subset
  <1>3. QED
    BY <1>2 DEF Overlap

\* Of the items shown, if any, one covers most.
LEMMA BestShown ==
    ASSUME MatchingAssumption, NEW r \in DOMAIN Demand, NEW S, S # {}
    PROVE  \E c \in S : \A d \in S : Overlap(r, c) >= Overlap(r, d)
  <1> DEFINE n == Cardinality(Demand[r])
             T == {Overlap(r, c) : c \in S}
  <1>1. n \in Nat /\ T \in SUBSET (0..n) /\ T # {}
    BY OverlapType
  <1>2. Max(T) \in T /\ \A y \in T : Max(T) >= y
    <2> HIDE DEF n, T
    <2>1. QED
      BY <1>1, MaxIsGreatest
  <1>3. PICK c \in S : Overlap(r, c) = Max(T)
    BY <1>2
  <1>4. \A d \in S : Overlap(r, d) \in T
    OBVIOUS
  <1>5. QED
    BY <1>2, <1>3, <1>4

\* The cut-off takes nothing from a larger vault that a smaller one shows and
\* that covers more than what is shown.
LEMMA LargerVaultShows ==
    ASSUME MatchingAssumption, NEW r \in DOMAIN Demand,
           NEW more \in SUBSET DOMAIN Fact, NEW vault \in SUBSET more,
           NEW C \in Shown(r, vault), NEW D \in Shown(r, more), NEW c \in C
    PROVE  \E d \in D : Overlap(r, d) >= Overlap(r, c)
  <1> DEFINE near(v) == {item \in v : Overlap(r, item) > 0}
  <1>1. /\ C \in SUBSET near(vault) /\ D \in SUBSET near(more)
        /\ Cardinality(C) = IF Cardinality(near(vault)) < Kept THEN Cardinality(near(vault)) ELSE Kept
        /\ Cardinality(D) = IF Cardinality(near(more)) < Kept THEN Cardinality(near(more)) ELSE Kept
        /\ \A d \in D, e \in near(more) \ D : Overlap(r, d) >= Overlap(r, e)
    BY DEF Shown
  <1>2. c \in near(more)
    BY <1>1
  <1>3. IsFiniteSet(near(more)) /\ IsFiniteSet(near(vault)) /\ IsFiniteSet(C)
    <2>1. near(more) \in SUBSET DOMAIN Fact /\ near(vault) \in SUBSET DOMAIN Fact
      OBVIOUS
    <2>2. C \in SUBSET DOMAIN Fact
      BY <1>1
    <2> HIDE DEF near
    <2>3. QED
      BY <2>1, <2>2, FS_Subset DEF MatchingAssumption
  <1> HIDE DEF near
  <1>4. Cardinality(C) > 0 /\ Cardinality(near(more)) > 0
    <2>1. Cardinality(C) # 0 /\ Cardinality(near(more)) # 0
      BY <1>2, <1>3, FS_EmptySet
    <2>2. QED
      BY <1>3, <2>1, FS_CardinalityType
  <1>5. Cardinality(D) > 0
    <2>1. /\ Cardinality(C) \in Nat /\ Cardinality(near(more)) \in Nat
          /\ Cardinality(near(vault)) \in Nat /\ Kept \in Nat
      BY <1>3, FS_CardinalityType DEF MatchingAssumption
    <2>2. Kept > 0
      BY <1>1, <1>4, <2>1
    <2>3. QED
      BY <1>1, <1>4, <2>1, <2>2
  <1>6. D # {}
    <2>1. Cardinality({}) = 0
      BY FS_EmptySet
    <2>2. QED
      BY <1>5, <2>1
  <1>7. CASE c \in D
    <2>1. Overlap(r, c) >= Overlap(r, c)
      BY OverlapType
    <2>2. QED
      BY <1>7, <2>1
  <1>8. CASE c \notin D
    BY <1>1, <1>2, <1>6, <1>8
  <1>9. QED
    BY <1>7, <1>8

\* The judgement of a requirement, in numbers.
LEMMA JudgedStatus ==
    ASSUME MatchingAssumption, NEW r \in DOMAIN Demand, NEW S, NEW v \in Judged(r, S)
    PROVE  \/ v.status = "missing" /\ (Demand[r] = {} \/ S = {})
           \/ /\ Demand[r] # {}
              /\ \E c \in S :
                    /\ \A d \in S : Overlap(r, c) >= Overlap(r, d)
                    /\ v.status = IF 100 * Overlap(r, c) >= 45 * Cardinality(Demand[r]) THEN "matched"
                                  ELSE IF 100 * Overlap(r, c) >= 20 * Cardinality(Demand[r]) THEN "partial"
                                  ELSE "missing"
  <1> DEFINE best == {c \in S : \A d \in S : Overlap(r, c) >= Overlap(r, d)}
  <1>1. CASE Demand[r] = {} \/ best = {}
    <2>1. v = [status |-> "missing", item |-> NoFact]
      BY <1>1 DEF Judged
    <2>2. S = {} \/ Demand[r] = {}
      BY <1>1, BestShown
    <2>3. QED
      BY <2>1, <2>2
  <1>2. CASE Demand[r] # {} /\ best # {}
    <2>1. PICK c \in best :
             v = IF 100 * Overlap(r, c) >= 45 * Cardinality(Demand[r]) THEN [status |-> "matched", item |-> c]
                 ELSE IF 100 * Overlap(r, c) >= 20 * Cardinality(Demand[r]) THEN [status |-> "partial", item |-> c]
                 ELSE [status |-> "missing", item |-> NoFact]
      BY <1>2 DEF Judged
    <2>2. QED
      BY <1>2, <2>1
  <1>3. QED
    BY <1>1, <1>2

\* A larger vault judges a requirement no worse.
LEMMA LargerVaultJudges ==
    ASSUME MatchingAssumption, NEW r \in DOMAIN Demand,
           NEW more \in SUBSET DOMAIN Fact, NEW vault \in SUBSET more,
           NEW C \in Shown(r, vault), NEW D \in Shown(r, more),
           NEW v \in Judged(r, C), NEW w \in Judged(r, D)
    PROVE  /\ v.status \in {"matched", "partial", "missing"}
           /\ w.status \in {"matched", "partial", "missing"}
           /\ v.status = "matched" => w.status = "matched"
           /\ v.status = "partial" => w.status \in {"matched", "partial"}
  <1>1. v.status \in {"matched", "partial", "missing"} /\ w.status \in {"matched", "partial", "missing"}
    BY JudgedStatus
  <1>2. CASE v.status = "missing"
    BY <1>1, <1>2
  <1>3. CASE v.status # "missing"
    <2>1. PICK c \in C :
             /\ Demand[r] # {}
             /\ v.status = IF 100 * Overlap(r, c) >= 45 * Cardinality(Demand[r]) THEN "matched"
                           ELSE IF 100 * Overlap(r, c) >= 20 * Cardinality(Demand[r]) THEN "partial"
                           ELSE "missing"
      BY <1>3, JudgedStatus
    <2>2. PICK d \in D : Overlap(r, d) >= Overlap(r, c)
      BY LargerVaultShows
    <2>3. PICK e \in D :
             /\ \A x \in D : Overlap(r, e) >= Overlap(r, x)
             /\ w.status = IF 100 * Overlap(r, e) >= 45 * Cardinality(Demand[r]) THEN "matched"
                           ELSE IF 100 * Overlap(r, e) >= 20 * Cardinality(Demand[r]) THEN "partial"
                           ELSE "missing"
      BY <2>1, <2>2, JudgedStatus
    <2>4. /\ Overlap(r, c) \in Nat /\ Overlap(r, d) \in Nat /\ Overlap(r, e) \in Nat
          /\ Cardinality(Demand[r]) \in Nat
      BY OverlapType
    <2>5. Overlap(r, e) >= Overlap(r, d)
      BY <2>3
    <2>6. Overlap(r, e) >= Overlap(r, c)
      BY <2>2, <2>4, <2>5
    <2>7. QED
      BY <1>1, <2>1, <2>3, <2>4, <2>6
  <1>4. QED
    BY <1>2, <1>3

\* A larger vault meets what a smaller one meets, whole or in part.
LEMMA LargerVaultMeets ==
    ASSUME MatchingAssumption, NEW inferred, NEW more \in SUBSET DOMAIN Fact, NEW vault \in SUBSET more,
           NEW a \in Matrices(vault, inferred), NEW b \in Matrices(more, inferred)
    PROVE  /\ DOMAIN a = DOMAIN Demand /\ DOMAIN b = DOMAIN Demand
           /\ Met(a) \subseteq Met(b)
           /\ Met(a) \cup Partly(a) \subseteq Met(b) \cup Partly(b)
  <1>1. /\ DOMAIN a = DOMAIN Demand /\ DOMAIN b = DOMAIN Demand
        /\ \A r \in DOMAIN Demand : a[r] \in Statuses(r, vault, inferred) /\ b[r] \in Statuses(r, more, inferred)
    BY DEF Matrices
  <1>2. ASSUME NEW r \in DOMAIN Demand
        PROVE  /\ a[r] \in {"matched", "user_provided"} => b[r] \in {"matched", "user_provided"}
               /\ a[r] = "partial" => b[r] \in {"matched", "user_provided", "partial"}
    <2>1. PICK v \in UNION {Judged(r, shown) : shown \in Shown(r, vault)} :
             a[r] = IF v.status = "matched" /\ v.item \notin inferred THEN "user_provided" ELSE v.status
      BY <1>1 DEF Statuses
    <2>2. PICK w \in UNION {Judged(r, shown) : shown \in Shown(r, more)} :
             b[r] = IF w.status = "matched" /\ w.item \notin inferred THEN "user_provided" ELSE w.status
      BY <1>1 DEF Statuses
    <2>c. PICK C \in Shown(r, vault) : v \in Judged(r, C)
      OBVIOUS
    <2>d. PICK D \in Shown(r, more) : w \in Judged(r, D)
      OBVIOUS
    <2>3. /\ v.status \in {"matched", "partial", "missing"}
          /\ v.status = "matched" => w.status = "matched"
          /\ v.status = "partial" => w.status \in {"matched", "partial"}
      BY <2>c, <2>d, LargerVaultJudges
    <2>4. QED
      BY <2>1, <2>2, <2>3
  <1>3. QED
    BY <1>1, <1>2 DEF Met, Partly

\* A larger factor gives a larger product.
LEMMA ProductMonotone ==
    ASSUME NEW n \in Nat, NEW x \in Int, NEW y \in Int, x <= y
    PROVE  n * x \in Int /\ n * y \in Int /\ n * x <= n * y
  <1>1. n * x \in Int /\ n * y \in Int
    OBVIOUS
  <1>2. n * (y - x) = n * y - n * x
    OBVIOUS
  <1>3. n * (y - x) >= 0
    OBVIOUS
  <1>4. QED
    BY <1>1, <1>2, <1>3

\* Requirements met count twice, those met in part once; nothing of it and none
\* of the mandatory gaps gets worse with a larger vault.
LEMMA LargerVaultScores ==
    ASSUME MatchingAssumption, NEW inferred, NEW more \in SUBSET DOMAIN Fact, NEW vault \in SUBSET more,
           NEW a \in Matrices(vault, inferred), NEW b \in Matrices(more, inferred),
           NEW mandatory \in SUBSET DOMAIN Demand, NEW triage \in Int
    PROVE  /\ RecommendationScore(a, mandatory, triage) \in Int
           /\ RecommendationScore(b, mandatory, triage) \in Int
           /\ RecommendationScore(a, mandatory, triage) <= RecommendationScore(b, mandatory, triage)
           /\ Pursue(a, mandatory, triage) => Pursue(b, mandatory, triage)
  <1> DEFINE total == IF DOMAIN Demand = {} THEN 1 ELSE Cardinality(DOMAIN Demand)
             met(m) == Cardinality(Met(m))
             partly(m) == Cardinality(Partly(m))
             gaps(m) == MandatoryGaps(m, mandatory)
             points(m) == 350 * (2 * met(m) + partly(m)) + total * (3 * triage - 60 * gaps(m))
  <1>1. /\ DOMAIN a = DOMAIN Demand /\ DOMAIN b = DOMAIN Demand
        /\ Met(a) \subseteq Met(b)
        /\ Met(a) \cup Partly(a) \subseteq Met(b) \cup Partly(b)
    BY LargerVaultMeets
  <1>2. /\ Met(a) \in SUBSET DOMAIN Demand /\ Partly(a) \in SUBSET DOMAIN Demand
        /\ Met(b) \in SUBSET DOMAIN Demand /\ Partly(b) \in SUBSET DOMAIN Demand
        /\ Met(a) \cap Partly(a) = {} /\ Met(b) \cap Partly(b) = {}
    BY <1>1 DEF Met, Partly
  <1>3. \A S \in SUBSET DOMAIN Demand : IsFiniteSet(S) /\ Cardinality(S) \in Nat
    BY FS_Subset, FS_CardinalityType DEF MatchingAssumption
  <1>4. /\ Cardinality(Met(a) \cup Partly(a)) = met(a) + partly(a)
        /\ Cardinality(Met(b) \cup Partly(b)) = met(b) + partly(b)
    <2>1. ASSUME NEW S \in SUBSET DOMAIN Demand, NEW T \in SUBSET DOMAIN Demand, S \cap T = {}
          PROVE  Cardinality(S \cup T) = Cardinality(S) + Cardinality(T)
      <3>1. Cardinality(S \cup T) = Cardinality(S) + Cardinality(T) - Cardinality(S \cap T)
        BY <1>3, FS_Union
      <3>2. Cardinality(S \cap T) = 0
        BY <2>1, FS_EmptySet
      <3>3. QED
        BY <1>3, <3>1, <3>2
    <2>2. QED
      BY <1>2, <2>1
  <1>5. met(a) <= met(b) /\ met(a) + partly(a) <= met(b) + partly(b)
    <2>1. ASSUME NEW S \in SUBSET DOMAIN Demand, NEW T \in SUBSET S
          PROVE  Cardinality(T) <= Cardinality(S)
      BY <1>3, FS_Subset
    <2>2. met(a) <= met(b)
      BY <1>1, <1>2, <2>1
    <2>3. Cardinality(Met(a) \cup Partly(a)) <= Cardinality(Met(b) \cup Partly(b))
      <3>1. Met(b) \cup Partly(b) \in SUBSET DOMAIN Demand
        BY <1>2
      <3>2. QED
        BY <1>1, <2>1, <3>1
    <2>4. QED
      BY <1>4, <2>2, <2>3
  <1>6. gaps(a) \in Nat /\ gaps(b) \in Nat /\ gaps(b) <= gaps(a)
    <2>1. mandatory \ Met(b) \in SUBSET (mandatory \ Met(a)) /\ mandatory \ Met(a) \in SUBSET DOMAIN Demand
      BY <1>1
    <2>2. IsFiniteSet(mandatory \ Met(a)) /\ mandatory \ Met(b) \in SUBSET DOMAIN Demand
      BY <1>3, <2>1
    <2>3. Cardinality(mandatory \ Met(b)) <= Cardinality(mandatory \ Met(a))
      BY <2>1, <2>2, FS_Subset
    <2>4. QED
      BY <1>3, <2>1, <2>2, <2>3 DEF MandatoryGaps
  <1>7. total \in Nat /\ total >= 1
    <2>1. DOMAIN Demand # {} => Cardinality(DOMAIN Demand) # 0
      BY FS_EmptySet DEF MatchingAssumption
    <2>2. Cardinality(DOMAIN Demand) \in Nat
      BY FS_CardinalityType DEF MatchingAssumption
    <2>3. CASE DOMAIN Demand = {}
      BY <2>3
    <2>4. CASE DOMAIN Demand # {}
      <3>1. total = Cardinality(DOMAIN Demand)
        BY <2>4
      <3>2. QED
        BY <2>1, <2>2, <2>4, <3>1
    <2>5. QED
      BY <2>3, <2>4
  <1>8. /\ met(a) \in Nat /\ met(b) \in Nat /\ partly(a) \in Nat /\ partly(b) \in Nat
    BY <1>2, <1>3
  <1>9. /\ RecommendationScore(a, mandatory, triage) =
              IF points(a) < 0 THEN 0 ELSE IF points(a) > 1000 * total THEN 1000 * total ELSE points(a)
        /\ RecommendationScore(b, mandatory, triage) =
              IF points(b) < 0 THEN 0 ELSE IF points(b) > 1000 * total THEN 1000 * total ELSE points(b)
        /\ Pursue(a, mandatory, triage) <=>
              RecommendationScore(a, mandatory, triage) >= 550 * total /\ gaps(a) <= 3
        /\ Pursue(b, mandatory, triage) <=>
              RecommendationScore(b, mandatory, triage) >= 550 * total /\ gaps(b) <= 3
    BY <1>1 DEF RecommendationScore, Pursue
  <1> HIDE DEF total, met, partly, gaps
  <1>10. /\ total * (3 * triage - 60 * gaps(a)) \in Int
         /\ total * (3 * triage - 60 * gaps(b)) \in Int
         /\ total * (3 * triage - 60 * gaps(a)) <= total * (3 * triage - 60 * gaps(b))
    <2>1. /\ 3 * triage - 60 * gaps(a) \in Int /\ 3 * triage - 60 * gaps(b) \in Int
          /\ 3 * triage - 60 * gaps(a) <= 3 * triage - 60 * gaps(b)
      BY <1>6
    <2>2. QED
      BY <1>7, <2>1, ProductMonotone
  <1>11. points(a) \in Int /\ points(b) \in Int /\ points(a) <= points(b)
    <2> DEFINE x == total * (3 * triage - 60 * gaps(a))
               y == total * (3 * triage - 60 * gaps(b))
    <2>1. x \in Int /\ y \in Int /\ x <= y
      BY <1>10
    <2> HIDE DEF x, y
    <2>2. /\ 350 * (2 * met(a) + partly(a)) + x \in Int /\ 350 * (2 * met(b) + partly(b)) + y \in Int
          /\ 350 * (2 * met(a) + partly(a)) + x <= 350 * (2 * met(b) + partly(b)) + y
      BY <1>5, <1>8, <2>1
    <2>3. QED
      BY <2>2 DEF x, y
  <1> HIDE DEF points
  <1>12. QED
    BY <1>6, <1>7, <1>9, <1>11

\* Evidence never hurts a filing (EvidenceNeverHurts), whatever the requirements,
\* the vault and the cut-off.
THEOREM EvidenceHelps == EvidenceNeverHurts
  <1>1. \A triage \in {0, 50, 100} : triage \in Int
    OBVIOUS
  <1>2. QED
    BY <1>1, LargerVaultScores, MatchingAssumption DEF EvidenceNeverHurts

-----------------------------------------------------------------------------
\* OpportunityScan: types, and what a scan may have in hand

ScanTypes ==
    /\ profile \in DOMAIN Company
    /\ rows \in [Id -> Row \cup {NoRow}]
    /\ kind \in [Scan -> OpportunityKind]
    /\ stage \in [Scan -> Stage]
    /\ company \in [Scan -> Nat]
    /\ hunt \in [Scan -> Seq(Ext)]
    /\ listed \in [Scan -> Seq(Id)]
    /\ next \in [Scan -> Nat]
    /\ own \in [Scan -> [Id -> Row \cup {NoRow}]]
    /\ update \in [Scan -> [Id -> Update \cup {NoRow}]]
    /\ doomed \in [Scan -> SUBSET Id]
    /\ request \in [Filer -> {"asked", "read", "inserted", "filed", "refused", "gone"}]
    /\ wanted \in [Filer -> Id \cup {NoId}]
    /\ failures \in 0..MaxFailures

\* Scans for notices go one way, finders of programs another.
KindFits(r) ==
    /\ stage[r] \in {"finding", "researching", "scoring"} => kind[r] # "program"
    /\ stage[r] \in {"ranked", "checking", "writing", "written"} => kind[r] = "program"

\* The rows a scan of r's kind may list.
NoticeRows(r) == {i \in Id : i[2] \in Sought(kind[r]) \cap DOMAIN Notice}

\* A scan looks for and lists what its kind seeks.
ListFits(r) ==
    /\ hunt[r] \in Seq(Sought(kind[r]))
    /\ listed[r] \in Seq(NoticeRows(r))
    /\ next[r] \in 0..Len(listed[r])
    /\ stage[r] = "finding" => next[r] = 0 /\ update[r] = Nothing

\* What it inserts is its own and of its kind, what it deletes are programs, and
\* between runs it has nothing in hand.
WorkFits(r) ==
    /\ \A i \in Id : own[r][i] # NoRow =>
          i[1] = r /\ i[2] \in Sought(kind[r]) /\ own[r][i].kind = kind[r]
    /\ \A i \in Id : update[r][i] # NoRow => i[2] \in Sought(kind[r])
    /\ \A i \in doomed[r] : i[2] \in DOMAIN Program
    /\ stage[r] \in {"finding", "researching", "scoring"} => doomed[r] = {}
    /\ ~Active(r) => /\ own[r] = Nothing /\ update[r] = Nothing /\ doomed[r] = {}
                     /\ hunt[r] = <<>> /\ listed[r] = <<>> /\ next[r] = 0

\* The rows of programs are those of the catalog.
RowKinds == \A i \in Id : rows[i] # NoRow => (rows[i].kind = "program" <=> i[2] \in DOMAIN Program)

SlotInv ==
    /\ ScanTypes
    /\ \A r \in Scan : KindFits(r) /\ ListFits(r) /\ WorkFits(r)
    /\ RowKinds

\* The score of a notice, whichever it is.
NoticeScore(c, e) == IF IsGrant(e) THEN GrantScore(c, Notice[e]) ELSE ContractScore(c, Notice[e])

\* A notice's score is between 0 and 100.
LEMMA NoticeScoreType ==
    ASSUME NEW c, NEW e \in DOMAIN Notice
    PROVE  NoticeScore(c, e) \in 0..100
  <1>1. CASE IsGrant(e)
    <2>1. Notice[e].applicants \in {"small", "restricted", "unstated"}
      BY <1>1, ScanAssumption DEF ScanAssumption
    <2>2. QED
      BY <1>1, <2>1, GrantScoreType DEF NoticeScore
  <1>2. CASE ~IsGrant(e)
    <2>1. Notice[e].setAside \in {"certified", "small", "none"}
      BY <1>2, ScanAssumption DEF ScanAssumption
    <2>2. QED
      BY <1>2, <2>1, ContractScoreType DEF NoticeScore
  <1>3. QED
    BY <1>1, <1>2

\* What the kinds of scan seek.
LEMMA SoughtFacts ==
    ASSUME NEW k \in OpportunityKind
    PROVE  /\ k \in {"gov_contract", "grant", "program"}
           /\ Sought(k) \subseteq Ext
           /\ k = "program" => Sought(k) = DOMAIN Program
           /\ k # "program" => /\ Sought(k) \subseteq DOMAIN Notice
                               /\ \A e \in Sought(k) : IsGrant(e) <=> k = "grant"
  <1>1. k \in {"gov_contract", "grant", "program"} /\ (k # "program" => k \in DOMAIN Found)
    BY ScanAssumption DEF ScanAssumption, OpportunityKind
  <1>2. CASE k = "program"
    BY <1>1, <1>2 DEF Sought, Ext
  <1>3. CASE k # "program"
    <2>1. ASSUME NEW e \in Sought(k)
          PROVE  e \in DOMAIN Notice /\ (IsGrant(e) <=> k = "grant")
      <3>1. PICK answer \in Found[k] : e \in Range(answer)
        BY <1>3 DEF Sought
      <3>2. answer \in Seq(DOMAIN Notice) /\ (IsGrant(e) <=> k = "grant")
        BY <1>1, <1>3, <3>1, ScanAssumption DEF ScanAssumption
      <3>3. e \in DOMAIN Notice
        BY <3>1, <3>2, RangeOfSeq
      <3>4. QED
        BY <3>2, <3>3
    <2>2. QED
      BY <1>1, <1>3, <2>1 DEF Ext
  <1>4. QED
    BY <1>2, <1>3

\* Profiles have positions.
LEMMA CompanyPositions ==
    Len(Company) \in Nat /\ Len(Company) >= 1 /\ DOMAIN Company = 1..Len(Company)
  <1>1. Company \in Seq(Range(Company)) /\ Company # <<>>
    BY ScanAssumption DEF ScanAssumption
  <1>2. Len(Company) \in Nat /\ DOMAIN Company = 1..Len(Company)
    BY <1>1, LenProperties
  <1>3. Len(Company) # 0
    BY <1>1, EmptySeq, SMT
  <1>4. QED
    BY <1>2, <1>3

\* The constants as ScanAssumption gives them.
LEMMA ScanConstants ==
    /\ NoRow \notin Row /\ NoRow \notin Update /\ Unscored \notin 0..100
    /\ TopN \in Nat /\ MaxFailures \in Nat
    /\ Nothing \in [Id -> Row \cup {NoRow}] /\ Nothing \in [Id -> Update \cup {NoRow}]
    /\ \A i \in Id : Nothing[i] = NoRow /\ i[1] \in Scan /\ i[2] \in Ext /\ i = <<i[1], i[2]>>
  <1>1. /\ NoRow \notin Row /\ NoRow \notin Update /\ Unscored \notin 0..100
        /\ TopN \in Nat /\ MaxFailures \in Nat
    BY ScanAssumption DEF ScanAssumption
  <1>2. Nothing \in [Id -> Row \cup {NoRow}] /\ Nothing \in [Id -> Update \cup {NoRow}]
    BY DEF Nothing
  <1>3. \A i \in Id : Nothing[i] = NoRow
    BY DEF Nothing
  <1>4. \A i \in Id : i[1] \in Scan /\ i[2] \in Ext /\ i = <<i[1], i[2]>>
    BY DEF Id
  <1>5. QED
    BY <1>1, <1>2, <1>3, <1>4

\* Another scan's variables.
SameScan(q) ==
    /\ stage'[q] = stage[q] /\ company'[q] = company[q] /\ hunt'[q] = hunt[q]
    /\ listed'[q] = listed[q] /\ next'[q] = next[q] /\ own'[q] = own[q]
    /\ update'[q] = update[q] /\ doomed'[q] = doomed[q]

\* A step that leaves the other scans' variables alone is judged by one scan.
LEMMA SlotFrame ==
    ASSUME SlotInv, ScanTypes', RowKinds', UNCHANGED kind, NEW r \in Scan,
           \A q \in Scan \ {r} : SameScan(q),
           KindFits(r)', ListFits(r)', WorkFits(r)'
    PROVE  SlotInv'
  <1>1. ASSUME NEW q \in Scan \ {r} PROVE KindFits(q)' /\ ListFits(q)' /\ WorkFits(q)'
    <2>1. KindFits(q) /\ ListFits(q) /\ WorkFits(q) /\ SameScan(q)
      BY DEF SlotInv
    <2>2. KindFits(q)'
      BY <2>1 DEF KindFits, SameScan
    <2>3. NoticeRows(q)' = NoticeRows(q)
      BY DEF NoticeRows
    <2>4. ListFits(q)'
      BY <2>1, <2>3 DEF ListFits, SameScan
    <2>5. WorkFits(q)'
      BY <2>1 DEF WorkFits, SameScan, Active
    <2>6. QED
      BY <2>2, <2>4, <2>5
  <1>2. QED
    BY <1>1 DEF SlotInv

\* A score by the agent of the run's kind.
LEMMA ScoreOfNotice ==
    ASSUME ScanTypes, NEW r \in Scan, kind[r] # "program", NEW i \in NoticeRows(r)
    PROVE  /\ ScoreOf(r, i) = NoticeScore(Company[company[r]], i[2])
           /\ ScoreOf(r, i) \in 0..100
  <1>1. i[2] \in DOMAIN Notice /\ (IsGrant(i[2]) <=> kind[r] = "grant")
    BY SoughtFacts DEF ScanTypes, NoticeRows
  <1>2. ScoreOf(r, i) = NoticeScore(Company[company[r]], i[2])
    BY <1>1 DEF ScoreOf, NoticeScore
  <1>3. QED
    BY <1>1, <1>2, NoticeScoreType

\* A row without a score is neither more nor less than Unscored.
LEMMA ScoreSeenType ==
    ASSUME ScanTypes, NEW r \in Scan, NEW i \in Id
    PROVE  ScoreSeen(r, i) \in Points
  <1>1. update[r][i] \in Update \cup {NoRow} /\ Seen(r)[i] \in Row \cup {NoRow}
    BY DEF ScanTypes, Seen
  <1>2. QED
    BY <1>1 DEF ScoreSeen, Update, Row, Points

-----------------------------------------------------------------------------
\* OpportunityScan: what the commit of a scan leaves of a row

\* No row goes but a program's that is to be deleted, none comes but the scan's
\* own, and rows stay of their kind.
LEMMA WriteFits ==
    ASSUME SlotInv, NEW r \in Scan, Write(r)
    PROVE  /\ rows' \in [Id -> Row \cup {NoRow}]
           /\ RowKinds'
           /\ \A i \in Id : rows'[i] # NoRow => rows[i] # NoRow \/ own[r][i] # NoRow
           /\ \A i \in Id : i \notin doomed[r] /\ (rows[i] # NoRow \/ own[r][i] # NoRow) => rows'[i] # NoRow
  <1>t. ScanTypes /\ WorkFits(r) /\ RowKinds
    BY DEF SlotInv
  <1>1. rows' = [i \in Id |-> IF i \in doomed[r] THEN NoRow ELSE Merged(r, i)]
    BY DEF Write
  <1>2. ASSUME NEW i \in Id
        PROVE  /\ Merged(r, i) \in Row \cup {NoRow}
               /\ Merged(r, i) = NoRow <=> rows[i] = NoRow /\ own[r][i] = NoRow
               /\ Merged(r, i) # NoRow => (Merged(r, i).kind = "program" <=> i[2] \in DOMAIN Program)
    <2> DEFINE u == update[r][i]
    <2>1. /\ u \in Update \cup {NoRow} /\ own[r][i] \in Row \cup {NoRow} /\ rows[i] \in Row \cup {NoRow}
          /\ NoRow \notin Row
      <3>1. /\ update[r] \in [Id -> Update \cup {NoRow}] /\ own[r] \in [Id -> Row \cup {NoRow}]
            /\ rows \in [Id -> Row \cup {NoRow}]
        BY <1>t DEF ScanTypes
      <3>2. QED
        BY <3>1, ScanConstants
    <2>2. u # NoRow => u.to \in Points /\ u.researched \in BOOLEAN
      BY <2>1 DEF Update
    <2>4. CASE own[r][i] # NoRow
      <3>1. /\ own[r][i] \in Row /\ own[r][i].kind = kind[r] /\ i[2] \in Sought(kind[r])
            /\ kind[r] \in OpportunityKind
        BY <1>t, <2>1, <2>4 DEF WorkFits, ScanTypes
      <3>2. own[r][i].kind = "program" <=> i[2] \in DOMAIN Program
        BY <3>1, SoughtFacts, ScanAssumption DEF ScanAssumption
      <3>3. Merged(r, i) \in Row /\ Merged(r, i).kind = own[r][i].kind
        <4>1. CASE u = NoRow
          BY <2>4, <3>1, <4>1 DEF Merged
        <4>2. CASE u # NoRow
          <5>1. Merged(r, i) = [own[r][i] EXCEPT !.score = u.to, !.researched = @ \/ u.researched]
            BY <2>4, <4>2 DEF Merged
          <5> HIDE DEF u
          <5>2. QED
            BY <2>2, <3>1, <4>2, <5>1 DEF Row
        <4>3. QED
          BY <4>1, <4>2
      <3>4. QED
        BY <2>1, <2>4, <3>2, <3>3
    <2>5. CASE own[r][i] = NoRow /\ (u = NoRow \/ rows[i] = NoRow)
      <3>1. Merged(r, i) = rows[i]
        BY <2>5 DEF Merged
      <3>2. QED
        BY <1>t, <2>1, <2>5, <3>1 DEF RowKinds
    <2>6. CASE own[r][i] = NoRow /\ u # NoRow /\ rows[i] # NoRow
      <3> DEFINE p == IF u.to = u.from THEN rows[i].score ELSE u.to
      <3>1. Merged(r, i) = [rows[i] EXCEPT !.score = p, !.researched = @ \/ u.researched]
        BY <2>6 DEF Merged
      <3>2. rows[i] \in Row /\ p \in Points /\ u.researched \in BOOLEAN
        BY <2>1, <2>2, <2>6 DEF Row
      <3> HIDE DEF u, p
      <3>3. Merged(r, i) \in Row /\ Merged(r, i).kind = rows[i].kind
        BY <3>1, <3>2 DEF Row
      <3>4. QED
        BY <1>t, <2>1, <2>6, <3>3 DEF RowKinds
    <2>7. QED
      BY <2>4, <2>5, <2>6
  <1>3. \A i \in Id : rows'[i] = IF i \in doomed[r] THEN NoRow ELSE Merged(r, i)
    BY <1>1
  <1>4. rows' \in [Id -> Row \cup {NoRow}]
    BY <1>1, <1>2
  <1>5. RowKinds'
    BY <1>2, <1>3 DEF RowKinds
  <1>6. QED
    BY <1>2, <1>3, <1>4, <1>5

-----------------------------------------------------------------------------
\* OpportunityScan: the steps keep what a scan may have in hand

\* Nothing is in hand when the system starts.
LEMMA SlotInit == OpportunityInit => SlotInv
  <1> SUFFICES ASSUME OpportunityInit PROVE SlotInv
    OBVIOUS
  <1> USE DEF OpportunityInit
  <1>1. ScanTypes
    <2>1. profile \in DOMAIN Company /\ 0 \in 0..MaxFailures
      BY CompanyPositions, ScanConstants
    <2>2. \A S : <<>> \in Seq(S)
      BY EmptySeq
    <2>3. kind \in [Scan -> OpportunityKind]
      BY ScanAssumption DEF ScanAssumption
    <2>4. rows \in [Id -> Row \cup {NoRow}] /\ own \in [Scan -> [Id -> Row \cup {NoRow}]]
          /\ update \in [Scan -> [Id -> Update \cup {NoRow}]]
      BY ScanConstants
    <2>5. hunt \in [Scan -> Seq(Ext)] /\ listed \in [Scan -> Seq(Id)]
      BY <2>2
    <2>6. stage \in [Scan -> Stage]
      BY DEF Stage
    <2>7. QED
      BY <2>1, <2>3, <2>4, <2>5, <2>6 DEF ScanTypes
  <1>2. ASSUME NEW r \in Scan PROVE KindFits(r) /\ ListFits(r) /\ WorkFits(r)
    <2>1. KindFits(r)
      BY DEF KindFits
    <2>2. ListFits(r)
      BY EmptySeq DEF ListFits
    <2>3. WorkFits(r)
      BY ScanConstants DEF WorkFits
    <2>4. QED
      BY <2>1, <2>2, <2>3
  <1>3. RowKinds
    BY ScanConstants DEF RowKinds
  <1>4. QED
    BY <1>1, <1>2, <1>3 DEF SlotInv

\* Steps that no scan takes part in.
LEMMA SlotApart ==
    ASSUME SlotInv, ScanTypes', UNCHANGED <<rows, stage, scans>>
    PROVE  SlotInv'
  <1>1. UNCHANGED <<rows, stage, kind, company, hunt, listed, next, own, update, doomed>>
    BY DEF scans
  <1>2. RowKinds'
    BY <1>1 DEF SlotInv, RowKinds
  <1>3. ASSUME NEW r \in Scan PROVE KindFits(r)' /\ ListFits(r)' /\ WorkFits(r)'
    <2>1. KindFits(r) /\ ListFits(r) /\ WorkFits(r)
      BY DEF SlotInv
    <2>2. KindFits(r)'
      BY <1>1, <2>1 DEF KindFits
    <2>3. NoticeRows(r)' = NoticeRows(r)
      BY <1>1 DEF NoticeRows
    <2>4. ListFits(r)'
      BY <1>1, <2>1, <2>3 DEF ListFits
    <2>5. WorkFits(r)'
      BY <1>1, <2>1 DEF WorkFits, Active
    <2>6. QED
      BY <2>2, <2>4, <2>5
  <1>4. QED
    BY <1>2, <1>3 DEF SlotInv

\* The end of a run, whatever became of its rows.
LEMMA SlotEnds ==
    ASSUME SlotInv, NEW r \in Scan, NEW s \in {"queued", "failed", "succeeded"},
           stage' = [stage EXCEPT ![r] = s], Clean(r),
           rows' \in [Id -> Row \cup {NoRow}], RowKinds',
           request' \in [Filer -> {"asked", "read", "inserted", "filed", "refused", "gone"}],
           UNCHANGED <<profile, wanted>>, failures' \in 0..MaxFailures
    PROVE  SlotInv' /\ ~Active(r)' /\ \A q \in Scan \ {r} : SameScan(q)
  <1>t. ScanTypes
    BY DEF SlotInv
  <1>1. /\ stage'[r] = s /\ own'[r] = Nothing /\ update'[r] = Nothing /\ doomed'[r] = {}
        /\ hunt'[r] = <<>> /\ listed'[r] = <<>> /\ next'[r] = 0
        /\ \A q \in Scan \ {r} : SameScan(q)
    BY <1>t DEF Clean, ScanTypes, SameScan
  <1>2. ScanTypes'
    <2>1. <<>> \in Seq(Ext) /\ <<>> \in Seq(Id)
      BY EmptySeq
    <2>2. s \in Stage
      BY DEF Stage
    <2>3. /\ stage' \in [Scan -> Stage] /\ company' \in [Scan -> Nat]
          /\ hunt' \in [Scan -> Seq(Ext)] /\ listed' \in [Scan -> Seq(Id)]
          /\ next' \in [Scan -> Nat] /\ doomed' \in [Scan -> SUBSET Id]
      BY <1>t, <2>1, <2>2 DEF ScanTypes, Clean
    <2>4. /\ own' \in [Scan -> [Id -> Row \cup {NoRow}]]
          /\ update' \in [Scan -> [Id -> Update \cup {NoRow}]]
      BY <1>t, ScanConstants DEF ScanTypes, Clean
    <2>5. QED
      BY <1>t, <2>3, <2>4 DEF ScanTypes, Clean
  <1>3. KindFits(r)'
    BY <1>1 DEF KindFits
  <1>4. ListFits(r)'
    BY <1>1, EmptySeq DEF ListFits
  <1>5. WorkFits(r)'
    BY <1>1, ScanConstants DEF WorkFits
  <1>6. SlotInv'
    BY <1>1, <1>2, <1>3, <1>4, <1>5, SlotFrame DEF Clean
  <1>7. QED
    BY <1>1, <1>6 DEF Active

\* Either way that a scan begins.
LEMMA SlotBegins ==
    ASSUME SlotInv, NEW r \in Scan, ScanBegins(r) \/ Rank(r) \/ Submit(r)
    PROVE  SlotInv' /\ UNCHANGED rows /\ \A q \in Scan \ {r} : SameScan(q)
  <1>t. ScanTypes /\ KindFits(r) /\ ListFits(r) /\ WorkFits(r) /\ RowKinds
    BY DEF SlotInv
  <1>1. ~Active(r)
    BY DEF ScanBegins, Rank, Submit, Active
  <1>2. PICK s \in {"finding", "ranked", "queued"}, c \in Nat, h \in Seq(Sought(kind[r])) :
           /\ stage' = [stage EXCEPT ![r] = s]
           /\ company' = [company EXCEPT ![r] = c]
           /\ hunt' = [hunt EXCEPT ![r] = h]
           /\ s = "finding" => kind[r] # "program"
           /\ s = "ranked" => kind[r] = "program"
           /\ s = "queued" => h = <<>>
           /\ UNCHANGED <<profile, rows, kind, listed, next, own, update, doomed, requests>>
           /\ failures' \in 0..MaxFailures
    <2>h. hunt[r] = <<>> /\ hunt = [hunt EXCEPT ![r] = hunt[r]] /\ <<>> \in Seq(Sought(kind[r]))
      BY <1>t, <1>1, EmptySeq DEF WorkFits, ScanTypes
    <2>c. company[r] \in Nat /\ company = [company EXCEPT ![r] = company[r]]
      BY <1>t DEF ScanTypes
    <2>f. failures \in 0..MaxFailures
      BY <1>t DEF ScanTypes
    <2>1. CASE ScanBegins(r)
      <3>1. /\ kind[r] # "program" /\ stage' = [stage EXCEPT ![r] = "finding"]
            /\ \/ (\E answer \in Found[kind[r]] : hunt' = [hunt EXCEPT ![r] = answer]) /\ UNCHANGED failures
               \/ failures < MaxFailures /\ failures' = failures + 1 /\ UNCHANGED hunt
            /\ UNCHANGED <<profile, rows, kind, company, listed, next, own, update, doomed, requests>>
        BY <2>1 DEF ScanBegins
      <3>2. failures' \in 0..MaxFailures
        BY <2>f, <3>1, ScanConstants
      <3>3. \E h \in Seq(Sought(kind[r])) : hunt' = [hunt EXCEPT ![r] = h]
        <4>1. CASE UNCHANGED hunt
          BY <2>h, <4>1
        <4>2. ASSUME NEW answer \in Found[kind[r]], hunt' = [hunt EXCEPT ![r] = answer]
              PROVE  answer \in Seq(Sought(kind[r]))
          <5>1. kind[r] \in DOMAIN Found
            BY <1>t, <3>1 DEF ScanTypes, OpportunityKind
          <5>2. answer \in Seq(DOMAIN Notice)
            BY <5>1, ScanAssumption DEF ScanAssumption
          <5>3. answer \in Seq(Range(answer)) /\ Range(answer) \subseteq Sought(kind[r])
            BY <3>1, <5>2, SeqOfRange DEF Sought
          <5>4. QED
            BY <5>3, SeqMonotonic
        <4>3. QED
          BY <3>1, <4>1, <4>2
      <3>4. QED
        BY <2>c, <3>1, <3>2, <3>3
    <2>2. CASE Rank(r)
      <3>1. profile \in Nat
        BY <1>t, CompanyPositions DEF ScanTypes
      <3>2. QED
        BY <2>2, <2>h, <2>f, <3>1 DEF Rank
    <2>3. CASE Submit(r)
      <3>1. /\ stage' = [stage EXCEPT ![r] = "queued"]
            /\ UNCHANGED <<profile, rows, scans, requests, failures>>
        BY <2>3 DEF Submit
      <3>2. QED
        BY <2>h, <2>c, <2>f, <3>1 DEF scans
    <2>4. QED
      BY <2>1, <2>2, <2>3
  <1>3. /\ stage'[r] = s /\ hunt'[r] = h /\ \A q \in Scan \ {r} : SameScan(q)
    BY <1>t, <1>2 DEF ScanTypes, SameScan
  <1>4. ScanTypes'
    <2>1. h \in Seq(Ext)
      BY <1>t, SoughtFacts, SeqMonotonic DEF ScanTypes
    <2>2. s \in Stage
      BY DEF Stage
    <2>3. /\ stage' \in [Scan -> Stage] /\ company' \in [Scan -> Nat] /\ hunt' \in [Scan -> Seq(Ext)]
      BY <1>t, <1>2, <2>1, <2>2 DEF ScanTypes
    <2>4. QED
      BY <1>t, <1>2, <2>3 DEF ScanTypes, requests
  <1>5. KindFits(r)'
    BY <1>2, <1>3 DEF KindFits
  <1>6. ListFits(r)'
    <2>1. NoticeRows(r)' = NoticeRows(r)
      BY <1>2 DEF NoticeRows
    <2>2. next[r] = 0 /\ update[r] = Nothing
      BY <1>t, <1>1 DEF WorkFits
    <2>3. QED
      BY <1>t, <1>2, <1>3, <2>1, <2>2 DEF ListFits
  <1>7. WorkFits(r)'
    <2>1. /\ own[r] = Nothing /\ update[r] = Nothing /\ doomed[r] = {} /\ listed[r] = <<>> /\ next[r] = 0
      BY <1>t, <1>1 DEF WorkFits
    <2>2. Active(r)' \/ h = <<>>
      BY <1>2, <1>3 DEF Active
    <2>3. QED
      BY <1>2, <1>3, <2>1, <2>2, ScanConstants DEF WorkFits
  <1>8. RowKinds'
    BY <1>t, <1>2 DEF RowKinds
  <1>9. QED
    BY <1>2, <1>3, <1>4, <1>5, <1>6, <1>7, <1>8, SlotFrame

\* The hunt of a scan gives it a row of what it seeks.
LEMMA SlotFinds ==
    ASSUME SlotInv, NEW r \in Scan, FindExisting(r) \/ FindNew(r)
    PROVE  SlotInv' /\ UNCHANGED rows /\ \A q \in Scan \ {r} : SameScan(q)
  <1>t. ScanTypes /\ KindFits(r) /\ ListFits(r) /\ WorkFits(r) /\ RowKinds
    BY DEF SlotInv
  <1> DEFINE e == Head(hunt[r])
  <1>1. stage[r] = "finding" /\ hunt[r] # <<>> /\ kind[r] # "program"
    BY <1>t DEF FindExisting, FindNew, Hunting, KindFits
  <1>2. /\ e \in Sought(kind[r]) /\ Tail(hunt[r]) \in Seq(Sought(kind[r]))
        /\ e \in DOMAIN Notice /\ e \in Ext
    <2>1. e \in Sought(kind[r]) /\ Tail(hunt[r]) \in Seq(Sought(kind[r]))
      BY <1>t, <1>1, HeadTailProperties DEF ListFits
    <2>2. QED
      BY <1>t, <1>1, <2>1, SoughtFacts DEF ScanTypes
  <1> DEFINE fresh == [kind |-> kind[r], score |-> Unscored, researched |-> FALSE]
  <1>3. PICK i \in Id, o \in [Id -> Row \cup {NoRow}] :
           /\ i[2] = e
           /\ listed' = [listed EXCEPT ![r] = Append(listed[r], i)]
           /\ hunt' = [hunt EXCEPT ![r] = Tail(hunt[r])]
           /\ own' = [own EXCEPT ![r] = o]
           /\ \A j \in Id : o[j] # NoRow => o[j] = own[r][j] \/ (j = <<r, e>> /\ o[j].kind = kind[r])
           /\ UNCHANGED <<profile, rows, stage, kind, company, next, update, doomed, requests, failures>>
    <2>1. CASE FindExisting(r)
      <3>1. PICK i \in Known(r, e) : listed' = [listed EXCEPT ![r] = Append(listed[r], i)]
        BY <2>1 DEF FindExisting
      <3>2. i \in Id /\ i[2] = e
        BY <3>1 DEF Known
      <3>3. own[r] \in [Id -> Row \cup {NoRow}] /\ own = [own EXCEPT ![r] = own[r]]
        BY <1>t DEF ScanTypes
      <3>4. /\ hunt' = [hunt EXCEPT ![r] = Tail(hunt[r])] /\ own' = own
            /\ UNCHANGED <<profile, rows, stage, kind, company, next, update, doomed, requests, failures>>
        BY <2>1 DEF FindExisting
      <3> HIDE DEF e
      <3>5. QED
        BY <3>1, <3>2, <3>3, <3>4
    <2>2. CASE FindNew(r)
      <3> DEFINE i == <<r, e>>
                 o == [own[r] EXCEPT ![i] = fresh]
      <3>1. /\ own' = [own EXCEPT ![r] = o]
            /\ listed' = [listed EXCEPT ![r] = Append(listed[r], i)]
            /\ hunt' = [hunt EXCEPT ![r] = Tail(hunt[r])]
            /\ UNCHANGED <<profile, rows, stage, kind, company, next, update, doomed, requests, failures>>
        BY <2>2 DEF FindNew
      <3>2. i \in Id /\ i[2] = e
        BY <1>2 DEF Id
      <3>3. fresh \in Row
        <4>1. kind[r] \in {"gov_contract", "grant", "program"}
          BY <1>t, SoughtFacts DEF ScanTypes
        <4>2. QED
          BY <4>1 DEF Row, Points
      <3>4. own[r] \in [Id -> Row \cup {NoRow}] /\ fresh.kind = kind[r]
        BY <1>t DEF ScanTypes
      <3> HIDE DEF fresh, e
      <3>5. o \in [Id -> Row \cup {NoRow}]
        BY <3>2, <3>3, <3>4
      <3>6. \A j \in Id : o[j] # NoRow => o[j] = own[r][j] \/ (j = i /\ o[j].kind = kind[r])
        BY <3>2, <3>4
      <3> HIDE DEF o
      <3>7. QED
        BY <3>1, <3>2, <3>5, <3>6
    <2>3. QED
      BY <2>1, <2>2
  <1> HIDE DEF fresh, e
  <1>4. /\ stage'[r] = stage[r] /\ hunt'[r] = Tail(hunt[r]) /\ listed'[r] = Append(listed[r], i)
        /\ own'[r] = o /\ \A q \in Scan \ {r} : SameScan(q)
    BY <1>t, <1>3 DEF ScanTypes, SameScan
  <1>5. i \in NoticeRows(r)
    BY <1>2, <1>3 DEF NoticeRows
  <1>6. /\ Append(listed[r], i) \in Seq(NoticeRows(r)) /\ Append(listed[r], i) \in Seq(Id)
        /\ Len(Append(listed[r], i)) = Len(listed[r]) + 1 /\ Len(listed[r]) \in Nat
    <2>1. listed[r] \in Seq(NoticeRows(r)) /\ NoticeRows(r) \subseteq Id
      BY <1>t DEF ListFits, NoticeRows
    <2>2. QED
      BY <1>5, <2>1, AppendProperties, LenProperties, SeqMonotonic
  <1>7. ScanTypes'
    <2>1. Tail(hunt[r]) \in Seq(Ext)
      BY <1>t, <1>2, SoughtFacts, SeqMonotonic DEF ScanTypes
    <2>2. /\ hunt' \in [Scan -> Seq(Ext)] /\ listed' \in [Scan -> Seq(Id)]
          /\ own' \in [Scan -> [Id -> Row \cup {NoRow}]]
      BY <1>t, <1>3, <1>6, <2>1 DEF ScanTypes
    <2>3. QED
      BY <1>t, <1>3, <2>2 DEF ScanTypes, requests
  <1>8. KindFits(r)'
    BY <1>t, <1>3 DEF KindFits
  <1>9. ListFits(r)'
    <2>1. NoticeRows(r)' = NoticeRows(r)
      BY <1>3 DEF NoticeRows
    <2>2. QED
      BY <1>t, <1>2, <1>3, <1>4, <1>6, <2>1 DEF ListFits
  <1>10. WorkFits(r)'
    <2>1. \A j \in Id : o[j] # NoRow => j[1] = r /\ j[2] \in Sought(kind[r]) /\ o[j].kind = kind[r]
      BY <1>t, <1>2, <1>3 DEF WorkFits
    <2>2. Active(r) /\ Active(r)'
      BY <1>1, <1>4 DEF Active
    <2>3. QED
      BY <1>t, <1>3, <1>4, <2>1, <2>2 DEF WorkFits
  <1>11. RowKinds'
    BY <1>t, <1>3 DEF RowKinds
  <1>12. QED
    BY <1>3, <1>4, <1>7, <1>8, <1>9, <1>10, <1>11, SlotFrame

\* The list is complete, or researched: the profile is loaded again.
LEMMA SlotTurns ==
    ASSUME SlotInv, NEW r \in Scan, FindDone(r) \/ ResearchDone(r)
    PROVE  SlotInv' /\ UNCHANGED rows /\ \A q \in Scan \ {r} : SameScan(q)
  <1>t. ScanTypes /\ KindFits(r) /\ ListFits(r) /\ WorkFits(r) /\ RowKinds
    BY DEF SlotInv
  <1>1. PICK s \in {"researching", "scoring"}, n \in {next[r], 0} :
           /\ stage' = [stage EXCEPT ![r] = s]
           /\ next' = [next EXCEPT ![r] = n]
           /\ company' = [company EXCEPT ![r] = profile]
           /\ UNCHANGED <<profile, rows, kind, hunt, listed, own, update, doomed, requests, failures>>
    <2>1. CASE FindDone(r)
      <3>1. next = [next EXCEPT ![r] = next[r]]
        BY <1>t DEF ScanTypes
      <3>2. QED
        BY <2>1, <3>1 DEF FindDone
    <2>2. CASE ResearchDone(r)
      BY <2>2 DEF ResearchDone
    <2>3. QED
      BY <2>1, <2>2
  <1>2. stage[r] \in {"finding", "researching"} /\ kind[r] # "program"
    BY <1>t DEF FindDone, ResearchDone, KindFits
  <1>3. /\ stage'[r] = s /\ next'[r] = n /\ \A q \in Scan \ {r} : SameScan(q)
    BY <1>t, <1>1 DEF ScanTypes, SameScan
  <1>4. ScanTypes'
    <2>1. profile \in Nat /\ n \in Nat
      BY <1>t, CompanyPositions DEF ScanTypes
    <2>2. s \in Stage
      BY DEF Stage
    <2>3. stage' \in [Scan -> Stage] /\ next' \in [Scan -> Nat] /\ company' \in [Scan -> Nat]
      BY <1>t, <1>1, <2>1, <2>2 DEF ScanTypes
    <2>4. QED
      BY <1>t, <1>1, <2>3 DEF ScanTypes, requests
  <1>5. KindFits(r)'
    BY <1>1, <1>2, <1>3 DEF KindFits
  <1>6. ListFits(r)'
    <2>1. NoticeRows(r)' = NoticeRows(r)
      BY <1>1 DEF NoticeRows
    <2>2. n \in 0..Len(listed[r])
      <3>1. Len(listed[r]) \in Nat
        BY <1>t, LenProperties DEF ScanTypes
      <3>2. QED
        BY <1>t, <3>1 DEF ListFits
    <2>3. QED
      BY <1>t, <1>1, <1>3, <2>1, <2>2 DEF ListFits
  <1>7. WorkFits(r)'
    <2>1. Active(r)' /\ doomed[r] = {}
      BY <1>t, <1>2, <1>3 DEF Active, WorkFits
    <2>2. QED
      BY <1>t, <1>1, <2>1 DEF WorkFits
  <1>8. RowKinds'
    BY <1>t, <1>1 DEF RowKinds
  <1>9. QED
    BY <1>1, <1>3, <1>4, <1>5, <1>6, <1>7, <1>8, SlotFrame

\* How far research goes.
LEMMA TopType ==
    ASSUME ScanTypes, NEW r \in Scan
    PROVE  Len(listed[r]) \in Nat /\ Top(r) \in 0..Len(listed[r])
  <1>1. Len(listed[r]) \in Nat
    BY LenProperties DEF ScanTypes
  <1>2. TopN \in Nat
    BY ScanConstants
  <1>3. QED
    BY <1>1, <1>2 DEF Top

\* What one step of research or scoring writes.
Worked(r, i) ==
    IF stage[r] = "researching"
    THEN [from |-> ScoreSeen(r, i), to |-> ScoreSeen(r, i), researched |-> TRUE]
    ELSE [from |-> IF update[r][i] # NoRow THEN update[r][i].from ELSE ScoreSeen(r, i),
          to |-> ScoreOf(r, i),
          researched |-> update[r][i] # NoRow /\ update[r][i].researched]

\* Research and scoring take one row of the list after the other.
LEMMA WorksOnNext ==
    ASSUME SlotInv, NEW r \in Scan, Research(r) \/ Score(r)
    PROVE  /\ stage[r] \in {"researching", "scoring"} /\ kind[r] # "program"
           /\ Len(listed[r]) \in Nat /\ next[r] + 1 \in 1..Len(listed[r])
           /\ listed[r][next[r] + 1] \in NoticeRows(r)
           /\ Worked(r, listed[r][next[r] + 1]) \in Update
           /\ update' = [update EXCEPT ![r][listed[r][next[r] + 1]] = Worked(r, listed[r][next[r] + 1])]
           /\ next' = [next EXCEPT ![r] = @ + 1]
           /\ UNCHANGED <<profile, rows, stage, kind, company, hunt, listed, own, doomed,
                          requests, overlap, failures>>
  <1>t. ScanTypes /\ KindFits(r) /\ ListFits(r) /\ WorkFits(r)
    BY DEF SlotInv
  <1> DEFINE i == listed[r][next[r] + 1]
  <1>1. stage[r] \in {"researching", "scoring"} /\ kind[r] # "program"
    BY <1>t DEF Research, Score, KindFits
  <1>2. Len(listed[r]) \in Nat /\ next[r] + 1 \in 1..Len(listed[r])
    <2>1. next[r] \in Nat /\ next[r] < Len(listed[r])
      BY <1>t, TopType DEF Research, Score, ScoredUpTo, ScanTypes
    <2>2. QED
      BY <1>t, <2>1, TopType
  <1>3. i \in NoticeRows(r) /\ i \in Id
    BY <1>t, <1>2, ElementOfSeq DEF ListFits, NoticeRows
  <1>4. Worked(r, i) \in Update
    <2>1. ScoreSeen(r, i) \in Points /\ ScoreOf(r, i) \in Points
      BY <1>t, <1>1, <1>3, ScoreSeenType, ScoreOfNotice DEF Points
    <2>2. update[r][i] # NoRow => update[r][i].from \in Points /\ update[r][i].researched \in BOOLEAN
      BY <1>t, <1>3 DEF ScanTypes, Update
    <2> HIDE DEF i
    <2>3. CASE stage[r] = "researching"
      BY <2>1, <2>3 DEF Worked, Update
    <2>4. CASE stage[r] = "scoring"
      <3>1. CASE update[r][i] = NoRow
        BY <2>1, <2>4, <3>1 DEF Worked, Update
      <3>2. CASE update[r][i] # NoRow
        BY <2>1, <2>2, <2>4, <3>2 DEF Worked, Update
      <3>3. QED
        BY <3>1, <3>2
    <2>5. QED
      BY <1>1, <2>3, <2>4
  <1>5. /\ update' = [update EXCEPT ![r][i] = Worked(r, i)]
        /\ next' = [next EXCEPT ![r] = @ + 1]
        /\ UNCHANGED <<profile, rows, stage, kind, company, hunt, listed, own, doomed,
                       requests, overlap, failures>>
    <2>1. CASE Research(r)
      BY <2>1 DEF Research, Worked
    <2>2. CASE Score(r)
      BY <2>2 DEF Score, Worked
    <2>3. QED
      BY <2>1, <2>2
  <1>6. QED
    BY <1>1, <1>2, <1>3, <1>4, <1>5

\* Research and scoring change a notice's row.
LEMMA SlotWorks ==
    ASSUME SlotInv, NEW r \in Scan, Research(r) \/ Score(r)
    PROVE  SlotInv' /\ UNCHANGED rows /\ \A q \in Scan \ {r} : SameScan(q)
  <1>t. ScanTypes /\ KindFits(r) /\ ListFits(r) /\ WorkFits(r) /\ RowKinds
    BY DEF SlotInv
  <1> DEFINE i == listed[r][next[r] + 1]
  <1>1. /\ stage[r] \in {"researching", "scoring"} /\ kind[r] # "program"
        /\ Len(listed[r]) \in Nat /\ next[r] + 1 \in 1..Len(listed[r])
        /\ i \in NoticeRows(r) /\ Worked(r, i) \in Update
        /\ update' = [update EXCEPT ![r][i] = Worked(r, i)]
        /\ next' = [next EXCEPT ![r] = @ + 1]
        /\ UNCHANGED <<profile, rows, stage, kind, company, hunt, listed, own, doomed,
                       requests, failures>>
    BY WorksOnNext
  <1> HIDE DEF i
  <1>2. i \in Id /\ i[2] \in Sought(kind[r])
    BY <1>1 DEF NoticeRows
  <1>3. /\ update'[r] = [update[r] EXCEPT ![i] = Worked(r, i)] /\ next'[r] = next[r] + 1
        /\ \A q \in Scan \ {r} : SameScan(q)
    BY <1>t, <1>1 DEF ScanTypes, SameScan
  <1>4. ScanTypes'
    <2>1. update[r] \in [Id -> Update \cup {NoRow}]
      BY <1>t DEF ScanTypes
    <2>2. [update[r] EXCEPT ![i] = Worked(r, i)] \in [Id -> Update \cup {NoRow}]
      BY <1>1, <2>1
    <2>3. update' \in [Scan -> [Id -> Update \cup {NoRow}]] /\ next' \in [Scan -> Nat]
      BY <1>t, <1>1, <2>2 DEF ScanTypes
    <2>4. QED
      BY <1>t, <1>1, <2>3 DEF ScanTypes, requests
  <1>5. KindFits(r)'
    BY <1>t, <1>1 DEF KindFits
  <1>6. ListFits(r)'
    <2>1. NoticeRows(r)' = NoticeRows(r)
      BY <1>1 DEF NoticeRows
    <2>2. next'[r] \in 0..Len(listed[r])
      BY <1>1, <1>3
    <2>3. stage'[r] # "finding"
      BY <1>1
    <2>4. QED
      BY <1>t, <1>1, <2>1, <2>2, <2>3 DEF ListFits
  <1>7. WorkFits(r)'
    <2>1. \A j \in Id : update'[r][j] # NoRow => j[2] \in Sought(kind[r])
      <3>1. \A j \in Id : update'[r][j] = update[r][j] \/ j = i
        BY <1>t, <1>3 DEF ScanTypes
      <3>2. QED
        BY <1>t, <1>2, <3>1 DEF WorkFits
    <2>2. Active(r)'
      BY <1>1 DEF Active
    <2>3. QED
      BY <1>t, <1>1, <2>1, <2>2 DEF WorkFits
  <1>8. RowKinds'
    BY <1>t, <1>1 DEF RowKinds
  <1>9. QED
    BY <1>1, <1>3, <1>4, <1>5, <1>6, <1>7, <1>8, SlotFrame

\* The finder's list: a row for each program the catalog's scores allow, or one to delete.
LEMMA SlotMatches ==
    ASSUME SlotInv, NEW r \in Scan, Match(r)
    PROVE  SlotInv' /\ UNCHANGED rows /\ \A q \in Scan \ {r} : SameScan(q)
  <1>t. ScanTypes /\ KindFits(r) /\ ListFits(r) /\ WorkFits(r) /\ RowKinds
    BY DEF SlotInv
  <1>1. stage[r] = "ranked" /\ kind[r] = "program"
    BY <1>t DEF Match, KindFits
  <1> DEFINE eligible == Eligible(company[r])
             score(e) == ProgramScore(Company[company[r]], Program[e])
             missing(x) == eligible \ {i[2] : i \in x}
             mine(x) == [i \in Id |->
                            IF i[1] = r /\ i[2] \in missing(x)
                            THEN [kind |-> "program", score |-> score(i[2]), researched |-> FALSE]
                            ELSE NoRow]
             news(x) == [i \in Id |->
                            IF i \in x /\ i[2] \in eligible
                            THEN [from |-> rows[i].score, to |-> score(i[2]), researched |-> FALSE]
                            ELSE NoRow]
             losses(x) == {i \in x : i[2] \notin eligible}
  <1>2. PICK x \in OnePerProgram :
           /\ own' = [own EXCEPT ![r] = mine(x)]
           /\ update' = [update EXCEPT ![r] = news(x)]
           /\ doomed' = [doomed EXCEPT ![r] = losses(x)]
    BY DEF Match
  <1>3. /\ stage' = [stage EXCEPT ![r] = "checking"]
        /\ UNCHANGED <<profile, rows, kind, company, hunt, listed, next, requests, failures>>
    BY DEF Match
  <1>4. \A i \in x : i \in Id /\ rows[i] # NoRow /\ rows[i].kind = "program" /\ i[2] \in DOMAIN Program
    BY <1>t DEF OnePerProgram, Present, RowKinds
  <1>5. \A e \in eligible : e \in DOMAIN Program /\ score(e) \in 0..100
    <2>1. \A e \in DOMAIN Program : IsFiniteSet(Program[e].signals)
      BY ScanAssumption DEF ScanAssumption
    <2>2. QED
      BY <2>1, ProgramScoreType DEF Eligible
  <1>6. Sought(kind[r]) = DOMAIN Program
    BY <1>1 DEF Sought
  <1> HIDE DEF eligible, score
  <1>7. /\ mine(x) \in [Id -> Row \cup {NoRow}]
        /\ \A i \in Id : mine(x)[i] # NoRow =>
              i[1] = r /\ i[2] \in DOMAIN Program /\ mine(x)[i].kind = "program"
    <2>1. \A e \in eligible : [kind |-> "program", score |-> score(e), researched |-> FALSE] \in Row
      BY <1>5 DEF Row, Points
    <2>2. missing(x) \subseteq eligible
      OBVIOUS
    <2> HIDE DEF missing
    <2>3. QED
      BY <1>5, <2>1, <2>2
  <1>8. /\ news(x) \in [Id -> Update \cup {NoRow}]
        /\ \A i \in Id : news(x)[i] # NoRow => i \in x
    <2>1. ASSUME NEW i \in x, i[2] \in eligible
          PROVE  [from |-> rows[i].score, to |-> score(i[2]), researched |-> FALSE] \in Update
      <3>1. rows[i] \in Row
        BY <1>t, <1>4 DEF ScanTypes
      <3>2. rows[i].score \in Points /\ score(i[2]) \in Points
        BY <1>5, <2>1, <3>1 DEF Row, Points
      <3>3. QED
        BY <3>2 DEF Update
    <2>2. QED
      BY <2>1
  <1>9. losses(x) \in SUBSET Id /\ \A i \in losses(x) : i[2] \in DOMAIN Program
    BY <1>4
  <1> HIDE DEF mine, news, losses
  <1>10. /\ stage'[r] = "checking" /\ own'[r] = mine(x) /\ update'[r] = news(x) /\ doomed'[r] = losses(x)
         /\ \A q \in Scan \ {r} : SameScan(q)
    BY <1>t, <1>2, <1>3 DEF ScanTypes, SameScan
  <1>11. ScanTypes'
    <2>1. /\ own' \in [Scan -> [Id -> Row \cup {NoRow}]]
          /\ update' \in [Scan -> [Id -> Update \cup {NoRow}]]
          /\ doomed' \in [Scan -> SUBSET Id]
      BY <1>t, <1>2, <1>7, <1>8, <1>9 DEF ScanTypes
    <2>2. stage' \in [Scan -> Stage]
      BY <1>t, <1>3 DEF ScanTypes, Stage
    <2>3. QED
      BY <1>t, <1>3, <2>1, <2>2 DEF ScanTypes, requests
  <1>12. KindFits(r)'
    BY <1>1, <1>3, <1>10 DEF KindFits
  <1>13. ListFits(r)'
    <2>1. NoticeRows(r)' = NoticeRows(r)
      BY <1>3 DEF NoticeRows
    <2>2. QED
      BY <1>t, <1>3, <1>10, <2>1 DEF ListFits
  <1>14. WorkFits(r)'
    <2>1. Active(r)'
      BY <1>10 DEF Active
    <2>2. \A i \in Id : news(x)[i] # NoRow => i[2] \in DOMAIN Program
      BY <1>4, <1>8
    <2>3. QED
      BY <1>1, <1>3, <1>6, <1>7, <1>9, <1>10, <2>1, <2>2 DEF WorkFits
  <1>15. RowKinds'
    BY <1>t, <1>3 DEF RowKinds
  <1>16. QED
    BY <1>3, <1>10, <1>11, <1>12, <1>13, <1>14, <1>15, SlotFrame

\* The finder spares what filings were started from, and sends its statements.
LEMMA SlotChecks ==
    ASSUME SlotInv, NEW r \in Scan, Check(r) \/ (Flush(r) /\ ~Stale(r))
    PROVE  SlotInv' /\ UNCHANGED rows /\ \A q \in Scan \ {r} : SameScan(q)
  <1>t. ScanTypes /\ KindFits(r) /\ ListFits(r) /\ WorkFits(r) /\ RowKinds
    BY DEF SlotInv
  <1>1. PICK s \in {"writing", "written"}, D \in SUBSET doomed[r] :
           /\ stage[r] \in {"checking", "writing"}
           /\ stage' = [stage EXCEPT ![r] = s]
           /\ doomed' = [doomed EXCEPT ![r] = D]
           /\ UNCHANGED <<profile, rows, kind, company, hunt, listed, next, own, update,
                          requests, failures>>
    <2>1. CASE Check(r)
      BY <2>1 DEF Check
    <2>2. CASE Flush(r) /\ ~Stale(r)
      <3>1. doomed = [doomed EXCEPT ![r] = doomed[r]]
        BY <1>t DEF ScanTypes
      <3>2. QED
        BY <2>2, <3>1 DEF Flush, scans
    <2>3. QED
      BY <2>1, <2>2
  <1>2. /\ stage'[r] = s /\ doomed'[r] = D /\ D \subseteq doomed[r] /\ doomed[r] \in SUBSET Id
        /\ \A q \in Scan \ {r} : SameScan(q)
    BY <1>t, <1>1 DEF ScanTypes, SameScan
  <1>3. ScanTypes'
    <2>1. doomed' \in [Scan -> SUBSET Id] /\ stage' \in [Scan -> Stage]
      BY <1>t, <1>1, <1>2 DEF ScanTypes, Stage
    <2>2. QED
      BY <1>t, <1>1, <2>1 DEF ScanTypes, requests
  <1>4. KindFits(r)'
    BY <1>t, <1>1, <1>2 DEF KindFits
  <1>5. ListFits(r)'
    <2>1. NoticeRows(r)' = NoticeRows(r)
      BY <1>1 DEF NoticeRows
    <2>2. QED
      BY <1>t, <1>1, <1>2, <2>1 DEF ListFits
  <1>6. WorkFits(r)'
    <2>1. Active(r)' /\ stage'[r] \notin {"finding", "researching", "scoring"}
      BY <1>2 DEF Active
    <2>2. QED
      BY <1>t, <1>1, <1>2, <2>1 DEF WorkFits
  <1>7. RowKinds'
    BY <1>t, <1>1 DEF RowKinds
  <1>8. QED
    BY <1>1, <1>2, <1>3, <1>4, <1>5, <1>6, <1>7, SlotFrame

\* The runs that end with a commit, of all they did or of what they did until an
\* agent failed.
CommitsWork(r) ==
    \/ FindAmbiguous(r) \/ AgentFails(r) \/ RankFails(r)
    \/ ScanSucceeds(r) \/ FinderSucceeds(r)

\* Each of them writes the work and closes the session.
LEMMA Committing ==
    ASSUME SlotInv, NEW r \in Scan, CommitsWork(r)
    PROVE  /\ Active(r)
           /\ stage' = [stage EXCEPT ![r] = "failed"] \/ stage' = [stage EXCEPT ![r] = "succeeded"]
           /\ Write(r) /\ Clean(r) /\ UNCHANGED <<profile, wanted, overlap, unseen>>
           /\ request' \in [Filer -> {"asked", "read", "inserted", "filed", "refused", "gone"}]
           /\ failures' \in 0..MaxFailures
  <1>t. ScanTypes /\ failures \in 0..MaxFailures /\ MaxFailures \in Nat
        /\ request \in [Filer -> {"asked", "read", "inserted", "filed", "refused", "gone"}]
    BY ScanConstants DEF SlotInv, ScanTypes
  <1>1. CASE FindAmbiguous(r)
    BY <1>t, <1>1 DEF FindAmbiguous, Fails, Hunting, Active, requests
  <1>2. CASE AgentFails(r)
    BY <1>t, <1>2 DEF AgentFails, Fails, Active, requests
  <1>3. CASE RankFails(r)
    BY <1>t, <1>3 DEF RankFails, Fails, Active, requests
  <1>4. CASE ScanSucceeds(r)
    BY <1>t, <1>4 DEF ScanSucceeds, Active, requests
  <1>5. CASE FinderSucceeds(r)
    <2>1. request' \in [Filer -> {"asked", "read", "inserted", "filed", "refused", "gone"}]
      BY <1>t, <1>5 DEF FinderSucceeds
    <2>2. QED
      BY <1>t, <1>5, <2>1 DEF FinderSucceeds, Active
  <1>6. QED
    BY <1>1, <1>2, <1>3, <1>4, <1>5 DEF CommitsWork

\* The runs that are rolled back.
RollsBack(r) == ScanRolledBack(r) \/ (Flush(r) /\ Stale(r))

\* Each of them closes the session and leaves the table alone.
LEMMA RollingBack ==
    ASSUME SlotInv, NEW r \in Scan, RollsBack(r)
    PROVE  /\ Active(r) /\ stage' = [stage EXCEPT ![r] = "queued"] /\ Clean(r)
           /\ UNCHANGED <<profile, rows, requests, overlap, unseen>>
           /\ failures' \in 0..MaxFailures
  <1>t. failures \in 0..MaxFailures /\ MaxFailures \in Nat
    BY ScanConstants DEF SlotInv, ScanTypes
  <1>1. CASE ScanRolledBack(r)
    BY <1>t, <1>1 DEF ScanRolledBack, Requeue
  <1>2. CASE Flush(r) /\ Stale(r)
    BY <1>t, <1>2 DEF Flush, Requeue, Active
  <1>3. QED
    BY <1>1, <1>2 DEF RollsBack

\* A commit leaves the scan with nothing in hand.
LEMMA SlotCommits ==
    ASSUME SlotInv, NEW r \in Scan, CommitsWork(r)
    PROVE  SlotInv' /\ ~Active(r)' /\ \A q \in Scan \ {r} : SameScan(q)
  <1>1. rows' \in [Id -> Row \cup {NoRow}] /\ RowKinds'
    BY Committing, WriteFits
  <1>2. PICK s \in {"queued", "failed", "succeeded"} : stage' = [stage EXCEPT ![r] = s]
    BY Committing
  <1>3. QED
    BY <1>1, <1>2, Committing, SlotEnds

\* So does a roll back.
LEMMA SlotRollsBack ==
    ASSUME SlotInv, NEW r \in Scan, RollsBack(r)
    PROVE  SlotInv' /\ ~Active(r)' /\ \A q \in Scan \ {r} : SameScan(q)
  <1>1. rows' \in [Id -> Row \cup {NoRow}] /\ RowKinds'
    BY RollingBack DEF SlotInv, ScanTypes, RowKinds
  <1>2. PICK s \in {"queued", "failed", "succeeded"} : stage' = [stage EXCEPT ![r] = s]
    BY RollingBack
  <1>3. request' \in [Filer -> {"asked", "read", "inserted", "filed", "refused", "gone"}]
        /\ UNCHANGED <<profile, wanted>>
    BY RollingBack DEF SlotInv, ScanTypes, requests
  <1>4. QED
    BY <1>1, <1>2, <1>3, RollingBack, SlotEnds

\* The actions of a scan, by what they do to its work.
Goes(r) ==
    \/ ScanBegins(r) \/ Rank(r) \/ Submit(r)
    \/ FindExisting(r) \/ FindNew(r)
    \/ FindDone(r) \/ ResearchDone(r)
    \/ Research(r) \/ Score(r)
    \/ Match(r) \/ Check(r) \/ (Flush(r) /\ ~Stale(r))

\* There are no other actions of a scan.
LEMMA ScanActions ==
    ASSUME NEW r \in Scan, Submit(r) \/ Execute(r)
    PROVE  Goes(r) \/ CommitsWork(r) \/ RollsBack(r)
  BY DEF Execute, Goes, CommitsWork, RollsBack

\* A step that does not end the run changes nothing but the run.
LEMMA SlotGoes ==
    ASSUME SlotInv, NEW r \in Scan, Goes(r)
    PROVE  SlotInv' /\ UNCHANGED rows /\ \A q \in Scan \ {r} : SameScan(q)
  <1>1. CASE ScanBegins(r) \/ Rank(r) \/ Submit(r)
    BY <1>1, SlotBegins
  <1>2. CASE FindExisting(r) \/ FindNew(r)
    BY <1>2, SlotFinds
  <1>3. CASE FindDone(r) \/ ResearchDone(r)
    BY <1>3, SlotTurns
  <1>4. CASE Research(r) \/ Score(r)
    BY <1>4, SlotWorks
  <1>5. CASE Match(r)
    BY <1>5, SlotMatches
  <1>6. CASE Check(r) \/ (Flush(r) /\ ~Stale(r))
    BY <1>6, SlotChecks
  <1>7. QED
    BY <1>1, <1>2, <1>3, <1>4, <1>5, <1>6 DEF Goes

\* Profiles and filings change no scan's work.
LEMMA SlotServes ==
    ASSUME SlotInv, Learn \/ \E f \in Filer : Serve(f)
    PROVE  SlotInv' /\ UNCHANGED <<rows, stage, scans>>
  <1>t. ScanTypes
    BY DEF SlotInv
  <1>1. CASE Learn
    <2>1. profile' \in DOMAIN Company
      BY <1>t, <1>1, CompanyPositions DEF Learn, ScanTypes
    <2>2. UNCHANGED <<rows, stage, scans, requests, failures>>
      BY <1>1 DEF Learn
    <2>3. ScanTypes'
      BY <1>t, <2>1, <2>2 DEF ScanTypes, scans, requests
    <2>4. QED
      BY <2>2, <2>3, SlotApart
  <1>2. ASSUME NEW f \in Filer, Serve(f)
        PROVE  SlotInv' /\ UNCHANGED <<rows, stage, scans>>
    <2>1. /\ UNCHANGED <<profile, rows, stage, scans, failures>>
          /\ request' \in [Filer -> {"asked", "read", "inserted", "filed", "refused", "gone"}]
          /\ wanted' \in [Filer -> Id \cup {NoId}]
      <3>1. CASE FilingReads(f)
        BY <1>t, <3>1 DEF FilingReads, ScanTypes, Present
      <3>2. CASE FilingInserts(f)
        BY <1>t, <3>2 DEF FilingInserts, ScanTypes
      <3>3. CASE FilingCommits(f)
        BY <1>t, <3>3 DEF FilingCommits, ScanTypes
      <3>4. QED
        BY <1>2, <3>1, <3>2, <3>3 DEF Serve
    <2>2. ScanTypes'
      BY <1>t, <2>1 DEF ScanTypes, scans
    <2>3. QED
      BY <2>1, <2>2, SlotApart
  <1>3. QED
    BY <1>1, <1>2

\* Every step keeps what a scan may have in hand.
LEMMA SlotStep == SlotInv /\ [OpportunityNext]_opportunityVars => SlotInv'
  <1> SUFFICES ASSUME SlotInv, [OpportunityNext]_opportunityVars PROVE SlotInv'
    OBVIOUS
  <1>1. ASSUME NEW r \in Scan, Submit(r) \/ Execute(r) PROVE SlotInv'
    BY <1>1, ScanActions, SlotGoes, SlotCommits, SlotRollsBack
  <1>2. CASE UNCHANGED opportunityVars
    <2>1. UNCHANGED <<profile, rows, stage, scans, requests, failures>>
      BY <1>2 DEF opportunityVars
    <2>2. ScanTypes'
      BY <2>1 DEF SlotInv, ScanTypes, scans, requests
    <2>3. QED
      BY <2>1, <2>2, SlotApart
  <1>3. QED
    BY <1>1, <1>2, SlotServes DEF OpportunityNext

\* What a scan has in hand is of its kind, its own rows are its own, and the rows of
\* programs are those of the catalog (SlotInv).
THEOREM ScansKeepSlots == OpportunitySpec => []SlotInv
  BY SlotInit, SlotStep, PTL DEF OpportunitySpec

\* Every variable has its type, and a row that is not committed is in the table
\* of no other run (OpportunityTypeOK).
THEOREM OpportunityTypesCorrect == OpportunitySpec => []OpportunityTypeOK
  <1>1. SlotInv => OpportunityTypeOK
    <2> SUFFICES ASSUME SlotInv PROVE OpportunityTypeOK
      OBVIOUS
    <2>1. ScanTypes /\ \A r \in Scan : ListFits(r) /\ WorkFits(r)
      BY DEF SlotInv
    <2>2. \A i \in Id : rows[i] = NoRow \/ rows[i] \in Row
      BY <2>1 DEF ScanTypes
    <2>3. \A r \in Scan, i \in Id : own[r][i] # NoRow => i[1] = r /\ own[r][i] \in Row
      BY <2>1 DEF ScanTypes, WorkFits
    <2>4. \A r \in Scan, i \in Id : update[r][i] = NoRow \/ update[r][i] \in Update
      BY <2>1 DEF ScanTypes
    <2>5. \A r \in Scan : next[r] \in 0..Len(listed[r])
      BY <2>1 DEF ListFits
    <2>6. \A r \in Scan : ~Active(r) => own[r] = Nothing /\ doomed[r] = {}
      BY <2>1 DEF WorkFits
    <2>7. \A f \in Filer : request[f] \in {"asked", "read", "inserted", "filed", "refused", "gone"}
      BY <2>1 DEF ScanTypes
    <2>8. QED
      BY <2>1, <2>2, <2>3, <2>4, <2>5, <2>6, <2>7 DEF OpportunityTypeOK, ScanTypes
  <1>2. QED
    BY <1>1, ScansKeepSlots, PTL

-----------------------------------------------------------------------------
\* OpportunityScan: filings

\* No filing of a row that a finder deletes is committed unless it was committed
\* after the finder looked; none is on its way once the delete is sent.
SparedBy(r, f) ==
    /\ stage[r] \in {"writing", "written"} /\ request[f] = "filed" /\ wanted[f] \in doomed[r]
           => f \in unseen
    /\ stage[r] = "written" /\ wanted[f] \in doomed[r] => request[f] # "inserted"

FiledInv == SlotInv /\ \A r \in Scan, f \in Filer : SparedBy(r, f)

\* A step of another scan that leaves the filings alone, or deletes some.
LEMMA SparedStays ==
    ASSUME NEW q \in Scan, NEW f \in Filer, SparedBy(q, f), UNCHANGED <<wanted, unseen>>,
           stage'[q] = stage[q], doomed'[q] = doomed[q],
           request'[f] \in {request[f], "gone"}
    PROVE  SparedBy(q, f)'
  BY DEF SparedBy

\* Every step keeps filings from a finder that has looked for them.
LEMMA FiledStep == FiledInv /\ [OpportunityNext]_opportunityVars => FiledInv'
  <1> SUFFICES ASSUME FiledInv, [OpportunityNext]_opportunityVars
               PROVE  \A r \in Scan, f \in Filer : SparedBy(r, f)'
    BY SlotStep DEF FiledInv
  <1>t. SlotInv /\ ScanTypes /\ SlotInv' /\ \A r \in Scan, f \in Filer : SparedBy(r, f)
    BY SlotStep DEF FiledInv, SlotInv
  <1>1. ASSUME NEW r \in Scan, CommitsWork(r) \/ RollsBack(r)
        PROVE  \A q \in Scan, f \in Filer : SparedBy(q, f)'
    <2>1. /\ UNCHANGED <<wanted, unseen>> /\ ~Active(r)' /\ \A q \in Scan \ {r} : SameScan(q)
          /\ \A f \in Filer : request'[f] \in {request[f], "gone"}
      <3>1. CASE CommitsWork(r)
        <4>1. \A f \in Filer : request'[f] \in {request[f], "gone"}
          BY <3>1 DEF CommitsWork, FindAmbiguous, AgentFails, RankFails, ScanSucceeds,
                      FinderSucceeds, Fails, requests
        <4>2. QED
          BY <1>t, <3>1, <4>1, Committing, SlotCommits
      <3>2. CASE RollsBack(r)
        BY <1>t, <3>2, RollingBack, SlotRollsBack DEF requests
      <3>3. QED
        BY <1>1, <3>1, <3>2
    <2>2. \A f \in Filer : SparedBy(r, f)'
      BY <2>1 DEF SparedBy, Active
    <2>3. \A q \in Scan \ {r}, f \in Filer : SparedBy(q, f)'
      BY <1>t, <2>1, SparedStays DEF SameScan
    <2>4. QED
      BY <2>2, <2>3
  <1>2. ASSUME NEW r \in Scan, Goes(r)
        PROVE  \A q \in Scan, f \in Filer : SparedBy(q, f)'
    <2>1. UNCHANGED <<wanted, unseen, request>> /\ \A q \in Scan \ {r} : SameScan(q)
      <3>1. UNCHANGED <<requests, unseen>>
        BY <1>2 DEF Goes, ScanBegins, Rank, Submit, FindExisting, FindNew, FindDone,
                    ResearchDone, Research, Score, Match, Check, Flush
      <3>2. QED
        BY <1>t, <1>2, <3>1, SlotGoes DEF requests
    <2>2. ASSUME NEW f \in Filer PROVE SparedBy(r, f)'
      <3>1. CASE Check(r)
        <4>1. doomed'[r] = doomed[r] \ Filed /\ stage'[r] = "writing"
          BY <1>t, <3>1 DEF Check, ScanTypes
        <4>2. request[f] = "filed" => wanted[f] \in Filed
          BY DEF Filed
        <4>3. QED
          BY <2>1, <4>1, <4>2 DEF SparedBy
      <3>2. CASE Flush(r) /\ ~Stale(r)
        <4>1. /\ stage[r] = "writing" /\ stage'[r] = "written" /\ doomed'[r] = doomed[r]
              /\ request[f] = "inserted" => wanted[f] \notin doomed[r]
          BY <1>t, <3>2 DEF Flush, ScanTypes, scans
        <4>2. QED
          BY <1>t, <2>1, <4>1 DEF SparedBy
      <3>3. CASE ~Check(r) /\ ~(Flush(r) /\ ~Stale(r))
        <4>1. \E s \in Stage \ {"writing", "written"} : stage' = [stage EXCEPT ![r] = s] \/ stage'[r] = s
          <5>1. CASE Submit(r) \/ ScanBegins(r) \/ Rank(r)
            BY <5>1 DEF Submit, ScanBegins, Rank, Stage
          <5>2. CASE FindExisting(r) \/ FindNew(r)
            BY <5>2 DEF FindExisting, FindNew, Hunting, Stage
          <5>3. CASE FindDone(r) \/ ResearchDone(r)
            BY <5>3 DEF FindDone, ResearchDone, Stage
          <5>4. CASE Research(r) \/ Score(r)
            BY <5>4 DEF Research, Score, Stage
          <5>5. CASE Match(r)
            BY <5>5 DEF Match, Stage
          <5>6. QED
            BY <1>2, <3>3, <5>1, <5>2, <5>3, <5>4, <5>5 DEF Goes
        <4>2. stage'[r] \notin {"writing", "written"}
          BY <1>t, <4>1 DEF ScanTypes
        <4>3. QED
          BY <4>2 DEF SparedBy
      <3>4. QED
        BY <3>1, <3>2, <3>3
    <2>3. \A q \in Scan \ {r}, f \in Filer : SparedBy(q, f)'
      BY <1>t, <2>1, SparedStays DEF SameScan
    <2>4. QED
      BY <2>2, <2>3
  <1>3. ASSUME NEW g \in Filer, Serve(g)
        PROVE  \A q \in Scan, f \in Filer : SparedBy(q, f)'
    <2>1. UNCHANGED <<stage, doomed>>
      BY <1>t, <1>3, SlotServes DEF scans
    <2>2. CASE FilingReads(g)
      <3>1. /\ request[g] = "asked" /\ request'[g] = "read" /\ UNCHANGED unseen
            /\ \A f \in Filer \ {g} : request'[f] = request[f] /\ wanted'[f] = wanted[f]
        BY <1>t, <2>2 DEF FilingReads, ScanTypes
      <3>2. \A q \in Scan : SparedBy(q, g)'
        BY <3>1 DEF SparedBy
      <3>3. \A q \in Scan, f \in Filer \ {g} : SparedBy(q, f)'
        BY <1>t, <2>1, <3>1 DEF SparedBy
      <3>4. QED
        BY <3>2, <3>3
    <2>3. CASE FilingInserts(g)
      <3>1. /\ request'[g] \in {"refused", "inserted"} /\ UNCHANGED <<wanted, unseen>>
            /\ \A q \in Scan : stage[q] = "written" => wanted[g] \notin doomed[q]
            /\ \A f \in Filer \ {g} : request'[f] = request[f]
        BY <1>t, <2>3 DEF FilingInserts, ScanTypes
      <3>2. \A q \in Scan : SparedBy(q, g)'
        BY <2>1, <3>1 DEF SparedBy
      <3>3. \A q \in Scan, f \in Filer \ {g} : SparedBy(q, f)'
        BY <1>t, <2>1, <3>1 DEF SparedBy
      <3>4. QED
        BY <3>2, <3>3
    <2>4. CASE FilingCommits(g)
      <3>1. /\ request[g] = "inserted" /\ request'[g] = "filed" /\ UNCHANGED wanted
            /\ \A f \in Filer \ {g} : request'[f] = request[f]
            /\ unseen \subseteq unseen'
            /\ (\E q \in Scan : stage[q] = "writing" /\ wanted[g] \in doomed[q]) => g \in unseen'
        BY <1>t, <2>4 DEF FilingCommits, ScanTypes
      <3>2. ASSUME NEW q \in Scan PROVE SparedBy(q, g)'
        <4>1. stage[q] = "written" => wanted[g] \notin doomed[q]
          BY <1>t, <3>1 DEF SparedBy
        <4>2. QED
          BY <2>1, <3>1, <4>1 DEF SparedBy
      <3>3. \A q \in Scan, f \in Filer \ {g} : SparedBy(q, f)'
        BY <1>t, <2>1, <3>1 DEF SparedBy
      <3>4. QED
        BY <3>2, <3>3
    <2>5. QED
      BY <1>3, <2>2, <2>3, <2>4 DEF Serve
  <1>4. CASE Learn \/ UNCHANGED opportunityVars
    <2>1. UNCHANGED <<stage, scans, requests, unseen>>
      BY <1>4 DEF Learn, opportunityVars
    <2>2. QED
      BY <1>t, <2>1 DEF SparedBy, scans, requests
  <1>5. QED
    BY <1>1, <1>2, <1>3, <1>4, ScanActions DEF OpportunityNext

\* A filing disappears with its program only if it was committed after the finder
\* had looked for filings (FilingSurvives).
THEOREM FilingsSurvive == OpportunitySpec => FilingSurvives
  <1>1. OpportunityInit => FiledInv
    <2>1. OpportunityInit => \A r \in Scan, f \in Filer : SparedBy(r, f)
      BY DEF OpportunityInit, SparedBy
    <2>2. QED
      BY <2>1, SlotInit DEF FiledInv
  <1>2. OpportunitySpec => []FiledInv
    BY <1>1, FiledStep, PTL DEF OpportunitySpec
  <1> DEFINE A == \A f \in Filer : request[f] = "filed" /\ request'[f] = "gone" => f \in unseen
  <1>3. FiledInv /\ [OpportunityNext]_opportunityVars => [A]_opportunityVars
    <2> SUFFICES ASSUME FiledInv, OpportunityNext,
                        NEW f \in Filer, request[f] = "filed", request'[f] = "gone"
                 PROVE  f \in unseen
      OBVIOUS
    <2>t. ScanTypes
      BY DEF FiledInv, SlotInv
    <2>1. PICK r \in Scan : FinderSucceeds(r)
      <3>1. CASE \E g \in Filer : Serve(g)
        BY <2>t, <3>1 DEF Serve, FilingReads, FilingInserts, FilingCommits, ScanTypes
      <3>2. CASE Learn
        BY <3>2 DEF Learn, requests
      <3>3. ASSUME NEW r \in Scan, Goes(r) PROVE FALSE
        BY <3>3 DEF Goes, ScanBegins, Rank, Submit, FindExisting, FindNew, FindDone,
                    ResearchDone, Research, Score, Match, Check, Flush, requests
      <3>4. ASSUME NEW r \in Scan, RollsBack(r) PROVE FALSE
        BY <3>4 DEF RollsBack, ScanRolledBack, Flush, Requeue, requests
      <3>5. ASSUME NEW r \in Scan, CommitsWork(r) PROVE FinderSucceeds(r)
        BY <3>5 DEF CommitsWork, FindAmbiguous, AgentFails, RankFails, ScanSucceeds, Fails, requests
      <3>6. QED
        BY <3>1, <3>2, <3>3, <3>4, <3>5, ScanActions DEF OpportunityNext
    <2>2. stage[r] = "written" /\ wanted[f] \in doomed[r]
      BY <2>1 DEF FinderSucceeds
    <2>3. QED
      BY <2>2 DEF FiledInv, SparedBy
  <1> HIDE DEF A
  <1>4. OpportunitySpec => [][A]_opportunityVars
    BY <1>2, <1>3, PTL DEF OpportunitySpec
  <1>5. QED
    BY <1>4 DEF FilingSurvives, A

-----------------------------------------------------------------------------
\* OpportunityScan: duplicates

\* Of two runs under way, whichever began last had the other's ids counted.
Watched(r, q) == Active(r) /\ Active(q) => Sought(kind[r]) \cap Sought(kind[q]) \subseteq overlap

\* A row not yet committed is new, unless another run looked for its id too.
NewOrWatched(r) ==
    \A i, j \in Id : own[r][i] # NoRow /\ j # i /\ j[2] = i[2] /\ rows[j] # NoRow => i[2] \in overlap

TwiceInv ==
    /\ SlotInv
    /\ \A r, q \in Scan : r # q => Watched(r, q)
    /\ \A r \in Scan : NewOrWatched(r)
    /\ DuplicatesOnlyByOverlap

\* What a scan takes in hand is new, or it had it before.
LEMMA TakesNew ==
    ASSUME SlotInv, NEW r \in Scan, Goes(r), NEW i \in Id, own'[r][i] # NoRow
    PROVE  \/ own[r][i] # NoRow
           \/ \A j \in Id : j[2] = i[2] => rows[j] = NoRow
  <1>t. ScanTypes /\ RowKinds
    BY DEF SlotInv
  <1>1. CASE FindNew(r)
    <2> DEFINE e == Head(hunt[r])
               fresh == [kind |-> kind[r], score |-> Unscored, researched |-> FALSE]
    <2>1. /\ Known(r, e) = {}
          /\ own' = [own EXCEPT ![r] = [own[r] EXCEPT ![<<r, e>>] = fresh]]
      BY <1>1 DEF FindNew
    <2> HIDE DEF fresh
    <2>2. own'[r][i] = own[r][i] \/ i = <<r, e>>
      BY <1>t, <2>1 DEF ScanTypes
    <2>3. CASE own'[r][i] = own[r][i]
      BY <2>3
    <2>4. CASE i = <<r, e>> /\ own[r][i] = NoRow
      <3>1. i[2] = e
        BY <2>4
      <3> HIDE DEF e
      <3>2. ASSUME NEW j \in Id, j[2] = e PROVE rows[j] = NoRow
        <4>1. Seen(r)[j] = NoRow
          BY <2>1, <3>2 DEF Known
        <4>2. Seen(r)[j] = IF own[r][j] # NoRow THEN own[r][j] ELSE rows[j]
          BY DEF Seen
        <4>3. QED
          BY <4>1, <4>2
      <3>3. QED
        BY <3>1, <3>2
    <2>5. QED
      BY <2>2, <2>3, <2>4
  <1>2. CASE Match(r)
    <2>1. PICK x \in OnePerProgram :
             own' = [own EXCEPT ![r] = [j \in Id |->
                        IF j[1] = r /\ j[2] \in Eligible(company[r]) \ {k[2] : k \in x}
                        THEN [kind |-> "program",
                              score |-> ProgramScore(Company[company[r]], Program[j[2]]),
                              researched |-> FALSE]
                        ELSE NoRow]]
      BY <1>2 DEF Match
    <2>2. i[2] \in Eligible(company[r]) /\ i[2] \notin {k[2] : k \in x}
      <3> DEFINE o == [j \in Id |->
                          IF j[1] = r /\ j[2] \in Eligible(company[r]) \ {k[2] : k \in x}
                          THEN [kind |-> "program",
                                score |-> ProgramScore(Company[company[r]], Program[j[2]]),
                                researched |-> FALSE]
                          ELSE NoRow]
      <3>1. own'[r] = o
        BY <1>t, <2>1 DEF ScanTypes
      <3>2. o[i] # NoRow
        BY <3>1
      <3>3. QED
        BY <3>2
    <2>3. i[2] \in DOMAIN Program
      BY <2>2 DEF Eligible
    <2>4. ASSUME NEW j \in Id, j[2] = i[2], rows[j] # NoRow PROVE FALSE
      <3> DEFINE programs == {k \in Present : rows[k].kind = "program"}
      <3>1. j \in programs
        BY <1>t, <2>3, <2>4 DEF Present, RowKinds
      <3>2. Cardinality({k \in x : k[2] = j[2]}) = 1
        BY <3>1 DEF OnePerProgram
      <3>3. {k \in x : k[2] = j[2]} # {}
        <4>1. Cardinality({}) = 0
          BY FS_EmptySet
        <4>2. QED
          BY <3>2, <4>1
      <3>4. QED
        BY <2>2, <2>4, <3>3
    <2>5. QED
      BY <2>4
  <1>3. CASE ~FindNew(r) /\ ~Match(r)
    <2>1. UNCHANGED own
      BY <1>3 DEF Goes, ScanBegins, Rank, Submit, FindExisting, FindDone, ResearchDone,
                  Research, Score, Check, Flush, scans
    <2>2. QED
      BY <2>1
  <1>4. QED
    BY <1>1, <1>2, <1>3

\* A run that becomes active has the ids it shares with others counted.
LEMMA WatchesFromStart ==
    ASSUME SlotInv, NEW r \in Scan, Goes(r), \A p, q \in Scan : p # q => Watched(p, q)
    PROVE  overlap \subseteq overlap' /\ \A p, q \in Scan : p # q => Watched(p, q)'
  <1>t. ScanTypes
    BY DEF SlotInv
  <1>s. /\ \A q \in Scan \ {r} : stage'[q] = stage[q] /\ (Active(q)' <=> Active(q))
        /\ UNCHANGED kind
    <2>1. \A q \in Scan \ {r} : SameScan(q)
      BY SlotGoes
    <2>2. UNCHANGED kind
      BY DEF Goes, ScanBegins, Rank, Submit, FindExisting, FindNew, FindDone, ResearchDone,
             Research, Score, Match, Check, Flush, scans
    <2>3. QED
      BY <2>1, <2>2 DEF SameScan, Active
  <1>k. \A k, k2 : Sought(k) \cap Sought(k2) = Sought(k2) \cap Sought(k)
    OBVIOUS
  <1>1. CASE ScanBegins(r) \/ Rank(r)
    <2>1. overlap' = overlap \cup Overlapping(r)
      BY <1>1 DEF ScanBegins, Rank
    <2>2. ASSUME NEW q \in Scan \ {r}, Active(q)
          PROVE  Sought(kind[r]) \cap Sought(kind[q]) \subseteq overlap'
      BY <2>1, <2>2 DEF Overlapping
    <2>3. ASSUME NEW p \in Scan, NEW q \in Scan, p # q, Active(p)', Active(q)'
          PROVE  Sought(kind'[p]) \cap Sought(kind'[q]) \subseteq overlap'
      <3>1. CASE p = r
        BY <1>s, <2>2, <2>3, <3>1
      <3>2. CASE q = r
        BY <1>s, <1>k, <2>2, <2>3, <3>2
      <3>3. CASE p # r /\ q # r
        BY <1>s, <2>1, <2>3, <3>3 DEF Watched
      <3>4. QED
        BY <3>1, <3>2, <3>3
    <2>4. QED
      BY <2>1, <2>3 DEF Watched
  <1>2. CASE ~ScanBegins(r) /\ ~Rank(r)
    <2>1. UNCHANGED overlap
      BY <1>2 DEF Goes, Submit, FindExisting, FindNew, FindDone, ResearchDone,
                  Research, Score, Match, Check, Flush
    <2>2. Active(r)' => Active(r)
      <3>1. CASE Submit(r)
        BY <1>t, <3>1 DEF Submit, Active, ScanTypes
      <3>2. CASE ~Submit(r)
        BY <1>2, <3>2 DEF Goes, FindExisting, FindNew, Hunting, FindDone, ResearchDone,
                          Research, Score, Match, Check, Flush, Active
      <3>3. QED
        BY <3>1, <3>2
    <2>3. QED
      BY <1>s, <2>1, <2>2 DEF Watched
  <1>3. QED
    BY <1>1, <1>2

\* The commit of a run adds no second row but of an id that two runs looked for.
LEMMA CommitsOnce ==
    ASSUME TwiceInv, NEW r \in Scan, CommitsWork(r)
    PROVE  DuplicatesOnlyByOverlap' /\ \A q \in Scan : NewOrWatched(q)'
  <1>t. ScanTypes /\ WorkFits(r) /\ \A q \in Scan : WorkFits(q) /\ NewOrWatched(q)
    BY DEF TwiceInv, SlotInv
  <1>1. UNCHANGED overlap /\ \A i \in Id : rows'[i] # NoRow => rows[i] # NoRow \/ own[r][i] # NoRow
    BY Committing, WriteFits DEF TwiceInv
  <1>i. \A i, j \in Id : i[1] = j[1] /\ i[2] = j[2] => i = j
    BY ScanConstants
  <1>2. DuplicatesOnlyByOverlap'
    <2> SUFFICES ASSUME NEW i \in Id, NEW j \in Id, rows'[i] # NoRow, rows'[j] # NoRow,
                        i # j, i[2] = j[2]
                 PROVE  i[2] \in overlap
      BY <1>1 DEF DuplicatesOnlyByOverlap, Present
    <2>1. CASE rows[i] # NoRow /\ rows[j] # NoRow
      BY <2>1 DEF TwiceInv, DuplicatesOnlyByOverlap, Present
    <2>2. CASE own[r][i] # NoRow /\ rows[j] # NoRow
      BY <1>t, <2>2 DEF NewOrWatched
    <2>3. CASE rows[i] # NoRow /\ own[r][j] # NoRow
      <3>1. j[2] \in overlap
        BY <1>t, <2>3 DEF NewOrWatched
      <3>2. QED
        BY <3>1
    <2>4. CASE own[r][i] # NoRow /\ own[r][j] # NoRow
      BY <1>t, <1>i, <2>4 DEF WorkFits
    <2>5. QED
      BY <1>1, <2>1, <2>2, <2>3, <2>4
  <1>3. ASSUME NEW q \in Scan PROVE NewOrWatched(q)'
    <2>1. CASE q = r
      <3>1. own'[r] = Nothing
        BY <1>t, Committing DEF Clean, TwiceInv, ScanTypes
      <3>2. QED
        BY <2>1, <3>1, ScanConstants DEF NewOrWatched
    <2>2. CASE q # r
      <3>1. own'[q] = own[q]
        BY <2>2, SlotCommits DEF TwiceInv, SameScan
      <3>2. ASSUME NEW i \in Id, NEW j \in Id, own[q][i] # NoRow, j # i, j[2] = i[2], rows'[j] # NoRow
            PROVE  i[2] \in overlap
        <4>1. CASE rows[j] # NoRow
          BY <1>t, <3>2, <4>1 DEF NewOrWatched
        <4>2. CASE own[r][j] # NoRow
          <5>1. i[2] \in Sought(kind[q]) /\ j[2] \in Sought(kind[r])
            BY <1>t, <3>2, <4>2 DEF WorkFits
          <5>2. Active(r) /\ Active(q)
            BY <1>t, <3>2, <4>2, ScanConstants DEF WorkFits
          <5>3. Watched(r, q)
            BY <2>2 DEF TwiceInv
          <5>4. QED
            BY <3>2, <5>1, <5>2, <5>3 DEF Watched
        <4>3. QED
          BY <1>1, <3>2, <4>1, <4>2
      <3>3. QED
        BY <1>1, <3>1, <3>2 DEF NewOrWatched
    <2>3. QED
      BY <2>1, <2>2
  <1>4. QED
    BY <1>2, <1>3

\* Every step keeps double rows to what two runs looked for.
LEMMA TwiceStep == TwiceInv /\ [OpportunityNext]_opportunityVars => TwiceInv'
  <1> SUFFICES ASSUME TwiceInv, [OpportunityNext]_opportunityVars PROVE TwiceInv'
    OBVIOUS
  <1>t. /\ SlotInv /\ ScanTypes /\ SlotInv' /\ DuplicatesOnlyByOverlap
        /\ \A p, q \in Scan : p # q => Watched(p, q)
        /\ \A q \in Scan : NewOrWatched(q)
    BY SlotStep DEF TwiceInv, SlotInv
  <1>1. ASSUME NEW r \in Scan, Goes(r) PROVE TwiceInv'
    <2>1. UNCHANGED rows /\ \A q \in Scan \ {r} : SameScan(q)
      BY <1>t, <1>1, SlotGoes
    <2>2. overlap \subseteq overlap' /\ \A p, q \in Scan : p # q => Watched(p, q)'
      BY <1>t, <1>1, WatchesFromStart
    <2>3. NewOrWatched(r)'
      <3>1. ASSUME NEW i \in Id, NEW j \in Id, own'[r][i] # NoRow, j # i, j[2] = i[2], rows[j] # NoRow
            PROVE  i[2] \in overlap'
        <4>1. own[r][i] # NoRow
          BY <1>t, <1>1, <3>1, TakesNew
        <4>2. QED
          BY <1>t, <2>2, <3>1, <4>1 DEF NewOrWatched
      <3>2. QED
        BY <2>1, <3>1 DEF NewOrWatched
    <2>4. ASSUME NEW q \in Scan \ {r} PROVE NewOrWatched(q)'
      <3>1. own'[q] = own[q]
        BY <2>1 DEF SameScan
      <3>2. QED
        BY <1>t, <2>1, <2>2, <3>1 DEF NewOrWatched
    <2>5. DuplicatesOnlyByOverlap'
      BY <1>t, <2>1, <2>2 DEF DuplicatesOnlyByOverlap, Present
    <2>6. QED
      BY <1>t, <2>2, <2>3, <2>4, <2>5 DEF TwiceInv
  <1>2. ASSUME NEW r \in Scan, CommitsWork(r) \/ RollsBack(r)
        PROVE  \A p, q \in Scan : p # q => Watched(p, q)'
    <2>1. /\ ~Active(r)' /\ UNCHANGED <<overlap, kind>> /\ \A q \in Scan \ {r} : SameScan(q)
      BY <1>t, <1>2, Committing, RollingBack, SlotCommits, SlotRollsBack DEF Clean
    <2>2. \A q \in Scan \ {r} : Active(q)' => Active(q)
      BY <2>1 DEF SameScan, Active
    <2>3. QED
      BY <1>t, <2>1, <2>2 DEF Watched
  <1>3. ASSUME NEW r \in Scan, CommitsWork(r) PROVE TwiceInv'
    BY <1>t, <1>2, <1>3, CommitsOnce DEF TwiceInv
  <1>4. ASSUME NEW r \in Scan, RollsBack(r) PROVE TwiceInv'
    <2>1. UNCHANGED <<rows, overlap>> /\ \A q \in Scan \ {r} : SameScan(q)
      BY <1>t, <1>4, RollingBack, SlotRollsBack
    <2>2. own'[r] = Nothing
      BY <1>t, <1>4, RollingBack DEF Clean, ScanTypes
    <2>3. NewOrWatched(r)'
      BY <2>2, ScanConstants DEF NewOrWatched
    <2>4. ASSUME NEW q \in Scan \ {r} PROVE NewOrWatched(q)'
      <3>1. own'[q] = own[q]
        BY <2>1 DEF SameScan
      <3>2. QED
        BY <1>t, <2>1, <3>1 DEF NewOrWatched
    <2>5. DuplicatesOnlyByOverlap'
      BY <1>t, <2>1 DEF DuplicatesOnlyByOverlap, Present
    <2>6. QED
      BY <1>t, <1>2, <1>4, <2>3, <2>4, <2>5 DEF TwiceInv
  <1>5. CASE Learn \/ (\E f \in Filer : Serve(f)) \/ UNCHANGED opportunityVars
    <2>1. UNCHANGED <<rows, stage, scans, overlap>>
      BY <1>5 DEF Learn, Serve, FilingReads, FilingInserts, FilingCommits, opportunityVars
    <2>2. UNCHANGED <<rows, stage, kind, own, overlap>>
      BY <2>1 DEF scans
    <2>3. \A p, q \in Scan : p # q => Watched(p, q)'
      BY <1>t, <2>2 DEF Watched, Active
    <2>4. \A q \in Scan : NewOrWatched(q)'
      BY <1>t, <2>2 DEF NewOrWatched
    <2>5. DuplicatesOnlyByOverlap'
      BY <1>t, <2>2 DEF DuplicatesOnlyByOverlap, Present
    <2>6. QED
      BY <1>t, <2>3, <2>4, <2>5 DEF TwiceInv
  <1>6. QED
    BY <1>1, <1>3, <1>4, <1>5, ScanActions DEF OpportunityNext

\* An opportunity is stored twice only if two runs looked for it at the same time
\* (DuplicatesOnlyByOverlap): scanning again and again, or taking up a failed scan,
\* adds no second row.
THEOREM StoredOnce == OpportunitySpec => []DuplicatesOnlyByOverlap
  <1>1. OpportunityInit => TwiceInv
    <2> SUFFICES ASSUME OpportunityInit PROVE TwiceInv
      OBVIOUS
    <2>1. \A r, q \in Scan : r # q => Watched(r, q)
      BY DEF OpportunityInit, Watched, Active
    <2>2. \A r \in Scan : NewOrWatched(r)
      BY ScanConstants DEF OpportunityInit, NewOrWatched
    <2>3. DuplicatesOnlyByOverlap
      BY ScanConstants DEF OpportunityInit, DuplicatesOnlyByOverlap, Present
    <2>4. QED
      BY <2>1, <2>2, <2>3, SlotInit DEF TwiceInv
  <1>2. TwiceInv => DuplicatesOnlyByOverlap
    BY DEF TwiceInv
  <1>3. QED
    BY <1>1, <1>2, TwiceStep, PTL DEF OpportunitySpec

-----------------------------------------------------------------------------
\* OpportunityScan: what a scan that succeeded has scored

NoticeId == {i \in Id : i[2] \in DOMAIN Notice}

\* A score of notice e by one of the first p profiles of the company, or none.
Given(p, x, e) == x = Unscored \/ \E c \in 1..p : x = NoticeScore(Company[c], e)

RowsScored == \A i \in NoticeId : rows[i] # NoRow => Given(profile, rows[i].score, i[2])

\* What scan r has inserted is committed by nobody else.
OwnIsNew(r) == \A i \in Id : own[r][i] # NoRow => rows[i] = NoRow

ListedExists(r) ==
    \A n \in 1..Len(listed[r]) : own[r][listed[r][n]] # NoRow \/ rows[listed[r][n]] # NoRow

\* r takes no score away, and one that it does not change is there to stay.
ChangeScored(r, i) ==
    /\ own[r][i] # NoRow => Given(profile, own[r][i].score, i[2])
    /\ update[r][i] # NoRow =>
          /\ Given(profile, update[r][i].to, i[2])
          /\ update[r][i].to = Unscored => update[r][i].from = Unscored
          /\ stage[r] = "researching" => update[r][i].from = update[r][i].to
          /\ own[r][i] = NoRow /\ update[r][i].from # Unscored =>
                rows[i] # NoRow /\ rows[i].score # Unscored

\* The rows that scoring is past have their scores.
PastScored(r) ==
    stage[r] = "scoring" =>
        \A n \in 1..next[r] : /\ update[r][listed[r][n]] # NoRow
                              /\ update[r][listed[r][n]].to = ScoreOf(r, listed[r][n])

ScoreFits(r) ==
    /\ company[r] \in 1..profile
    /\ OwnIsNew(r) /\ ListedExists(r) /\ PastScored(r)
    /\ \A i \in NoticeId : ChangeScored(r, i)

ScoreInv == SlotInv /\ RowsScored /\ \A r \in Scan : ScoreFits(r)

\* A score that was given stays given when the profile grows.
LEMMA GivenStays ==
    ASSUME ScanTypes, ScanTypes', profile' >= profile, NEW x, NEW e, Given(profile, x, e)
    PROVE  Given(profile', x, e)
  <1>1. profile \in Nat /\ profile' \in Nat
    BY CompanyPositions DEF ScanTypes
  <1>2. 1..profile \subseteq 1..profile'
    BY <1>1
  <1>3. QED
    BY <1>2 DEF Given

\* A listed row is that of a notice.
LEMMA ListedNotice ==
    ASSUME SlotInv, NEW r \in Scan, NEW n \in 1..Len(listed[r])
    PROVE  listed[r][n] \in NoticeRows(r) /\ listed[r][n] \in NoticeId
  <1>1. listed[r][n] \in NoticeRows(r)
    BY ElementOfSeq DEF SlotInv, ListFits
  <1>2. QED
    BY <1>1 DEF NoticeRows, NoticeId

\* A scan whose work another step leaves as it is.
LEMMA ScoreStays ==
    ASSUME SlotInv, SlotInv', NEW q \in Scan, ScoreFits(q), SameScan(q), UNCHANGED kind,
           profile' >= profile,
           \A i \in NoticeId : rows[i] # NoRow =>
               rows'[i] # NoRow /\ (rows[i].score # Unscored => rows'[i].score # Unscored),
           OwnIsNew(q)'
    PROVE  ScoreFits(q)'
  <1>t. ScanTypes /\ ScanTypes'
    BY DEF SlotInv
  <1>p. profile \in Nat /\ profile' \in Nat
    BY <1>t, CompanyPositions DEF ScanTypes
  <1>1. company'[q] \in 1..profile'
    BY <1>p DEF ScoreFits, SameScan
  <1>2. ListedExists(q)'
    BY ListedNotice DEF ScoreFits, ListedExists, SameScan
  <1>3. PastScored(q)'
    <2>1. \A i : ScoreOf(q, i)' = ScoreOf(q, i)
      BY DEF ScoreOf, SameScan
    <2>2. QED
      BY <2>1 DEF ScoreFits, PastScored, SameScan
  <1>4. ASSUME NEW i \in NoticeId PROVE ChangeScored(q, i)'
    <2>1. ChangeScored(q, i)
      BY DEF ScoreFits
    <2>2. \A x : Given(profile, x, i[2]) => Given(profile', x, i[2])
      BY <1>t, GivenStays
    <2>3. stage'[q] = stage[q] /\ own'[q] = own[q] /\ update'[q] = update[q]
      BY DEF SameScan
    <2>4. own'[q][i] # NoRow => Given(profile', own'[q][i].score, i[2])
      BY <2>1, <2>2, <2>3 DEF ChangeScored
    <2>5. update'[q][i] # NoRow => Given(profile', update'[q][i].to, i[2])
      BY <2>1, <2>2, <2>3 DEF ChangeScored
    <2>6. QED
      BY <2>1, <2>3, <2>4, <2>5 DEF ChangeScored
  <1>5. QED
    BY <1>1, <1>2, <1>3, <1>4 DEF ScoreFits

\* A scan with nothing in hand.
LEMMA ScoreOfNothing ==
    ASSUME ScanTypes', NEW r \in Scan, company'[r] \in 1..profile', stage'[r] # "scoring",
           own'[r] = Nothing, update'[r] = Nothing, listed'[r] = <<>>
    PROVE  ScoreFits(r)'
  <1>1. OwnIsNew(r)' /\ PastScored(r)'
    BY ScanConstants DEF OwnIsNew, PastScored
  <1>2. ListedExists(r)'
    BY EmptySeq DEF ListedExists
  <1>3. \A i \in NoticeId : ChangeScored(r, i)'
    BY ScanConstants DEF ChangeScored, NoticeId
  <1>4. QED
    BY <1>1, <1>2, <1>3 DEF ScoreFits

\* A finder of programs scores no notice.
LEMMA ScoreOfFinder ==
    ASSUME SlotInv', NEW r \in Scan, kind'[r] = "program", company'[r] \in 1..profile', OwnIsNew(r)'
    PROVE  ScoreFits(r)'
  <1>t. KindFits(r)' /\ ListFits(r)' /\ WorkFits(r)'
    BY DEF SlotInv
  <1>1. Sought(kind'[r]) = DOMAIN Program /\ DOMAIN Notice \cap DOMAIN Program = {}
    BY ScanAssumption DEF Sought, ScanAssumption
  <1>2. PastScored(r)'
    BY <1>t DEF PastScored, KindFits
  <1>3. ListedExists(r)'
    <2>1. NoticeRows(r)' = {}
      BY <1>1 DEF NoticeRows
    <2>2. listed'[r] \in Seq({})
      BY <1>t, <2>1 DEF ListFits
    <2>3. \A n \in 1..Len(listed'[r]) : listed'[r][n] \in {}
      BY <2>2, ElementOfSeq
    <2>4. QED
      BY <2>3 DEF ListedExists
  <1>4. ASSUME NEW i \in NoticeId PROVE ChangeScored(r, i)'
    <2>1. i \in Id /\ i[2] \notin Sought(kind'[r])
      BY <1>1 DEF NoticeId
    <2>2. own'[r][i] = NoRow /\ update'[r][i] = NoRow
      BY <1>t, <2>1 DEF WorkFits
    <2>3. QED
      BY <2>2 DEF ChangeScored
  <1>5. QED
    BY <1>2, <1>3, <1>4 DEF ScoreFits

\* What a step of scan r sees of a notice's score has been given.
LEMMA ScoreSeenGiven ==
    ASSUME ScoreInv, NEW r \in Scan, NEW i \in NoticeId
    PROVE  Given(profile, ScoreSeen(r, i), i[2])
  <1>1. ChangeScored(r, i) /\ (rows[i] # NoRow => Given(profile, rows[i].score, i[2]))
    BY DEF ScoreInv, ScoreFits, RowsScored
  <1>2. i \in Id /\ Seen(r)[i] = IF own[r][i] # NoRow THEN own[r][i] ELSE rows[i]
    BY DEF NoticeId, Seen
  <1>3. Given(profile, Unscored, i[2])
    BY DEF Given
  <1>4. QED
    BY <1>1, <1>2, <1>3 DEF ScoreSeen, ChangeScored

\* The hunt lists rows that exist, and inserts them without a score.
LEMMA ScoreFinds ==
    ASSUME ScoreInv, NEW r \in Scan, FindExisting(r) \/ FindNew(r), OwnIsNew(r)'
    PROVE  ScoreFits(r)'
  <1>t. SlotInv /\ ScanTypes /\ ListFits(r) /\ ScoreFits(r)
    BY DEF ScoreInv, SlotInv
  <1>1. stage[r] = "finding" /\ update[r] = Nothing /\ next[r] = 0
    BY <1>t DEF FindExisting, FindNew, Hunting, ListFits
  <1>2. UNCHANGED <<profile, rows, stage, kind, company, next, update>>
    BY DEF FindExisting, FindNew
  <1>3. PICK i \in Id :
           /\ listed' = [listed EXCEPT ![r] = Append(listed[r], i)]
           /\ own'[r][i] # NoRow \/ rows[i] # NoRow
           /\ \A j \in Id : own'[r][j] # own[r][j] => own'[r][j] # NoRow /\ own'[r][j].score = Unscored
    <2> DEFINE e == Head(hunt[r])
    <2>1. CASE FindExisting(r)
      <3>1. PICK i \in Known(r, e) : listed' = [listed EXCEPT ![r] = Append(listed[r], i)]
        BY <2>1 DEF FindExisting
      <3>2. i \in Id /\ Seen(r)[i] # NoRow
        BY <3>1 DEF Known
      <3>3. own[r][i] # NoRow \/ rows[i] # NoRow
        BY <3>2 DEF Seen
      <3>4. own' = own
        BY <2>1 DEF FindExisting
      <3>5. QED
        BY <3>1, <3>2, <3>3, <3>4
    <2>2. CASE FindNew(r)
      <3> DEFINE i == <<r, e>>
                 fresh == [kind |-> kind[r], score |-> Unscored, researched |-> FALSE]
      <3>1. /\ own' = [own EXCEPT ![r] = [own[r] EXCEPT ![i] = fresh]]
            /\ listed' = [listed EXCEPT ![r] = Append(listed[r], i)]
        BY <2>2 DEF FindNew
      <3>2. i \in Id
        <4>1. hunt[r] \in Seq(Sought(kind[r])) /\ hunt[r] # <<>> /\ Sought(kind[r]) \subseteq Ext
          BY <1>t, <2>2, SoughtFacts DEF FindNew, Hunting, ListFits, ScanTypes
        <4>2. e \in Ext
          BY <4>1, HeadTailProperties
        <4>3. QED
          BY <4>2 DEF Id
      <3>3. fresh # NoRow /\ fresh.score = Unscored
        <4>1. kind[r] \in {"gov_contract", "grant", "program"}
          BY <1>t, SoughtFacts DEF ScanTypes
        <4>2. fresh \in Row
          BY <4>1 DEF Row, Points
        <4>3. QED
          BY <4>2, ScanConstants
      <3> HIDE DEF fresh, i
      <3>4. own[r] \in [Id -> Row \cup {NoRow}] /\ own'[r] = [own[r] EXCEPT ![i] = fresh]
        BY <1>t, <3>1 DEF ScanTypes
      <3>5. own'[r][i] = fresh /\ \A j \in Id : j # i => own'[r][j] = own[r][j]
        BY <3>2, <3>4
      <3>6. \A j \in Id : own'[r][j] # own[r][j] => own'[r][j] # NoRow /\ own'[r][j].score = Unscored
        BY <3>3, <3>5
      <3>7. own'[r][i] # NoRow
        BY <3>3, <3>5
      <3>8. QED
        BY <3>1, <3>2, <3>6, <3>7
    <2>3. QED
      BY <2>1, <2>2
  <1>4. /\ listed'[r] = Append(listed[r], i) /\ Len(listed'[r]) = Len(listed[r]) + 1
        /\ Len(listed[r]) \in Nat /\ listed'[r][Len(listed[r]) + 1] = i
        /\ \A n \in 1..Len(listed[r]) : listed'[r][n] = listed[r][n] /\ listed[r][n] \in Id
    <2>1. listed[r] \in Seq(Id) /\ listed'[r] = Append(listed[r], i)
      BY <1>t, <1>3 DEF ScanTypes
    <2>2. QED
      BY <2>1, AppendProperties, LenProperties, ElementOfSeq
  <1>5. ListedExists(r)'
    <2>1. ASSUME NEW n \in 1..Len(listed'[r])
          PROVE  own'[r][listed'[r][n]] # NoRow \/ rows[listed'[r][n]] # NoRow
      <3>1. CASE n = Len(listed[r]) + 1
        BY <1>3, <1>4, <3>1
      <3>2. CASE n \in 1..Len(listed[r])
        <4>1. own[r][listed[r][n]] # NoRow \/ rows[listed[r][n]] # NoRow
          BY <1>t, <3>2 DEF ScoreFits, ListedExists
        <4>2. QED
          BY <1>3, <1>4, <3>2, <4>1
      <3>3. QED
        BY <1>4, <3>1, <3>2
    <2>2. QED
      BY <1>2, <2>1 DEF ListedExists
  <1>6. PastScored(r)'
    BY <1>1, <1>2 DEF PastScored
  <1>7. ASSUME NEW j \in NoticeId PROVE ChangeScored(r, j)'
    <2>1. j \in Id /\ update'[r][j] = NoRow
      BY <1>1, <1>2, ScanConstants DEF NoticeId
    <2>2. own[r][j] # NoRow => Given(profile, own[r][j].score, j[2])
      BY <1>t DEF ScoreFits, ChangeScored
    <2>3. Given(profile, Unscored, j[2])
      BY DEF Given
    <2>4. own'[r][j] # NoRow => Given(profile, own'[r][j].score, j[2])
      BY <1>3, <2>1, <2>2, <2>3
    <2>5. QED
      BY <1>2, <2>1, <2>4 DEF ChangeScored
  <1>8. QED
    BY <1>2, <1>t, <1>5, <1>6, <1>7 DEF ScoreFits

\* A new step begins with nothing scored.
LEMMA ScoreTurns ==
    ASSUME ScoreInv, NEW r \in Scan, FindDone(r) \/ ResearchDone(r), OwnIsNew(r)'
    PROVE  ScoreFits(r)'
  <1>t. SlotInv /\ ScanTypes /\ ListFits(r) /\ ScoreFits(r)
    BY DEF ScoreInv, SlotInv
  <1>1. /\ UNCHANGED <<profile, rows, kind, listed, own, update>>
        /\ company' = [company EXCEPT ![r] = profile]
    BY DEF FindDone, ResearchDone
  <1>2. company'[r] \in 1..profile'
    <2>1. profile \in Nat /\ profile >= 1
      BY <1>t, CompanyPositions DEF ScanTypes
    <2>2. QED
      BY <1>t, <1>1, <2>1 DEF ScanTypes
  <1>3. next'[r] = 0 /\ (FindDone(r) => update[r] = Nothing) /\ (ResearchDone(r) => stage'[r] = "scoring")
    <2>1. CASE FindDone(r)
      BY <1>t, <2>1 DEF FindDone, ListFits, ResearchDone
    <2>2. CASE ResearchDone(r)
      BY <1>t, <2>2 DEF FindDone, ResearchDone, ScanTypes
    <2>3. QED
      BY <2>1, <2>2
  <1>4. ListedExists(r)'
    BY <1>t, <1>1 DEF ScoreFits, ListedExists
  <1>5. PastScored(r)'
    BY <1>3 DEF PastScored
  <1>6. ASSUME NEW j \in NoticeId PROVE ChangeScored(r, j)'
    <2>1. ChangeScored(r, j) /\ j \in Id
      BY <1>t DEF ScoreFits, NoticeId
    <2>2. CASE FindDone(r)
      <3>1. update'[r][j] = NoRow
        BY <1>1, <1>3, <2>1, <2>2, ScanConstants
      <3>2. QED
        BY <1>1, <2>1, <3>1 DEF ChangeScored
    <2>3. CASE ResearchDone(r)
      BY <1>1, <1>3, <2>1, <2>3 DEF ChangeScored
    <2>4. QED
      BY <2>2, <2>3
  <1>7. QED
    BY <1>2, <1>4, <1>5, <1>6 DEF ScoreFits

\* Research keeps a score, scoring gives one.
LEMMA ScoreWorks ==
    ASSUME ScoreInv, NEW r \in Scan, Research(r) \/ Score(r), OwnIsNew(r)'
    PROVE  ScoreFits(r)'
  <1>t. SlotInv /\ ScanTypes /\ ListFits(r) /\ ScoreFits(r)
    BY DEF ScoreInv, SlotInv
  <1>i. PICK i : i = listed[r][next[r] + 1]
    OBVIOUS
  <1> DEFINE w == Worked(r, i)
  <1>1. /\ stage[r] \in {"researching", "scoring"} /\ kind[r] # "program"
        /\ Len(listed[r]) \in Nat /\ next[r] + 1 \in 1..Len(listed[r])
        /\ i \in NoticeRows(r) /\ w \in Update
        /\ update' = [update EXCEPT ![r][i] = w]
        /\ next' = [next EXCEPT ![r] = @ + 1]
        /\ UNCHANGED <<profile, rows, stage, kind, company, listed, own>>
    BY <1>t, <1>i, WorksOnNext
  <1>2. i \in NoticeId /\ i \in Id
    BY <1>1 DEF NoticeId, NoticeRows
  <1>3. /\ ScoreSeen(r, i) \in Points /\ Given(profile, ScoreSeen(r, i), i[2])
        /\ ScoreOf(r, i) = NoticeScore(Company[company[r]], i[2]) /\ ScoreOf(r, i) # Unscored
    <2>1. ScoreSeen(r, i) \in Points /\ Given(profile, ScoreSeen(r, i), i[2])
      BY <1>t, <1>2, ScoreSeenType, ScoreSeenGiven
    <2>2. /\ ScoreOf(r, i) = NoticeScore(Company[company[r]], i[2])
          /\ ScoreOf(r, i) \in 0..100
      BY <1>t, <1>1, ScoreOfNotice
    <2>3. QED
      BY <2>1, <2>2, ScanConstants
  <1>4. Given(profile, ScoreOf(r, i), i[2])
    BY <1>t, <1>3 DEF ScoreFits, Given
  <1>5. ChangeScored(r, i) /\ i \in Id /\ OwnIsNew(r)
    BY <1>t, <1>2 DEF ScoreFits
  <1>6. /\ stage[r] = "researching" => w.from = ScoreSeen(r, i) /\ w.to = ScoreSeen(r, i)
        /\ stage[r] = "scoring" =>
              /\ w.from = IF update[r][i] # NoRow THEN update[r][i].from ELSE ScoreSeen(r, i)
              /\ w.to = ScoreOf(r, i)
    BY DEF Worked
  <1>7. own[r][i] = NoRow /\ w.from # Unscored => rows[i] # NoRow /\ rows[i].score # Unscored
    <2>1. CASE update[r][i] # NoRow
      <3>1. w.from = update[r][i].from
        BY <1>1, <1>5, <1>6, <2>1 DEF ChangeScored, ScoreSeen
      <3>2. QED
        BY <1>5, <2>1, <3>1 DEF ChangeScored
    <2>2. CASE update[r][i] = NoRow
      <3>1. w.from = ScoreSeen(r, i)
        BY <1>1, <1>6, <2>2
      <3>2. Seen(r)[i] = IF own[r][i] # NoRow THEN own[r][i] ELSE rows[i]
        BY <1>2 DEF Seen
      <3>3. QED
        BY <2>2, <3>1, <3>2 DEF ScoreSeen
    <2>3. QED
      BY <2>1, <2>2
  <1>8. w # NoRow
    BY <1>1, ScanConstants
  <1> HIDE DEF w
  <1>9. /\ update'[r][i] = w /\ next'[r] = next[r] + 1 /\ next[r] \in Nat
        /\ \A j \in Id : j # i => update'[r][j] = update[r][j]
    BY <1>t, <1>1, <1>2 DEF ScanTypes
  <1>10. company'[r] \in 1..profile' /\ ListedExists(r)'
    BY <1>t, <1>1 DEF ScoreFits, ListedExists
  <1>11. ChangeScored(r, i)'
    <2>1. Given(profile, w.to, i[2]) /\ (w.to = Unscored => w.from = Unscored)
          /\ (stage[r] = "researching" => w.from = w.to)
      BY <1>1, <1>3, <1>4, <1>6
    <2>2. own[r][i] # NoRow => Given(profile, own[r][i].score, i[2])
      BY <1>5 DEF ChangeScored
    <2>3. /\ UNCHANGED <<profile, stage, rows>> /\ own'[r][i] = own[r][i] /\ update'[r][i] = w
      BY <1>1, <1>9
    <2>4. QED
      BY <1>7, <2>1, <2>2, <2>3 DEF ChangeScored
  <1>12. ASSUME NEW j \in NoticeId PROVE ChangeScored(r, j)'
    <2>1. CASE j = i
      BY <1>11, <2>1
    <2>2. CASE j # i
      <3>1. ChangeScored(r, j) /\ update'[r][j] = update[r][j]
        BY <1>t, <1>9, <2>2 DEF ScoreFits, NoticeId
      <3>2. QED
        BY <1>1, <3>1 DEF ChangeScored
    <2>3. QED
      BY <2>1, <2>2
  <1>13. PastScored(r)'
    <2> SUFFICES ASSUME stage[r] = "scoring", NEW n \in 1..next'[r]
                 PROVE  /\ update'[r][listed[r][n]] # NoRow
                        /\ update'[r][listed[r][n]].to = ScoreOf(r, listed[r][n])
      <3>1. \A j : ScoreOf(r, j)' = ScoreOf(r, j)
        BY <1>1 DEF ScoreOf
      <3>2. QED
        BY <1>1, <3>1 DEF PastScored
    <2>1. CASE listed[r][n] = i
      BY <1>6, <1>8, <1>9, <2>1
    <2>2. CASE listed[r][n] # i
      <3>1. n # next[r] + 1
        BY <1>i, <2>2
      <3>2. n \in 1..next[r] /\ n \in 1..Len(listed[r])
        BY <1>1, <1>9, <3>1
      <3>3. /\ update[r][listed[r][n]] # NoRow
            /\ update[r][listed[r][n]].to = ScoreOf(r, listed[r][n])
        BY <1>t, <3>2 DEF ScoreFits, PastScored
      <3>4. listed[r][n] \in Id
        BY <1>t, <3>2, ElementOfSeq DEF ScanTypes
      <3>5. QED
        BY <1>9, <2>2, <3>3, <3>4
    <2>3. QED
      BY <2>1, <2>2
  <1>14. QED
    BY <1>10, <1>12, <1>13 DEF ScoreFits

\* The commit of a scan takes no notice's row and no score away, and leaves
\* scores that were given.
LEMMA WriteScores ==
    ASSUME ScoreInv, NEW r \in Scan, Write(r), NEW i \in NoticeId
    PROVE  /\ rows'[i] # NoRow => Given(profile, rows'[i].score, i[2])
           /\ rows[i] # NoRow =>
                 rows'[i] # NoRow /\ (rows[i].score # Unscored => rows'[i].score # Unscored)
           /\ update[r][i] # NoRow /\ update[r][i].to # Unscored /\ (own[r][i] # NoRow \/ rows[i] # NoRow) =>
                 rows'[i].score # Unscored
  <1>t. /\ SlotInv /\ ScanTypes /\ WorkFits(r) /\ OwnIsNew(r) /\ ChangeScored(r, i) /\ i \in Id
        /\ rows[i] # NoRow => Given(profile, rows[i].score, i[2])
    BY DEF ScoreInv, SlotInv, ScoreFits, RowsScored, NoticeId
  <1>1. i \notin doomed[r]
    BY <1>t, ScanAssumption DEF WorkFits, NoticeId, ScanAssumption
  <1>2. rows'[i] = Merged(r, i)
    BY <1>1, <1>t DEF Write
  <1> DEFINE u == update[r][i]
  <1>3. /\ own[r][i] \in Row \cup {NoRow} /\ rows[i] \in Row \cup {NoRow} /\ NoRow \notin Row
        /\ own[r][i] # NoRow => rows[i] = NoRow
    <2>1. own[r] \in [Id -> Row \cup {NoRow}] /\ rows \in [Id -> Row \cup {NoRow}]
      BY <1>t DEF ScanTypes
    <2>2. QED
      BY <1>t, <2>1, ScanConstants DEF OwnIsNew
  <1>4. CASE own[r][i] # NoRow
    <2>1. own[r][i] \in Row /\ rows[i] = NoRow
      BY <1>3, <1>4
    <2>2. CASE u = NoRow
      BY <1>2, <1>4, <1>t, <2>1, <2>2 DEF Merged, ChangeScored
    <2>3. CASE u # NoRow
      <3>1. rows'[i] = [own[r][i] EXCEPT !.score = u.to, !.researched = @ \/ u.researched]
        BY <1>2, <1>4, <2>3 DEF Merged
      <3>2. rows'[i].score = u.to
        BY <2>1, <3>1 DEF Row
      <3>3. Given(profile, u.to, i[2])
        BY <1>t, <2>3 DEF ChangeScored
      <3>4. QED
        BY <2>1, <3>2, <3>3
    <2>4. QED
      BY <2>2, <2>3
  <1>5. CASE own[r][i] = NoRow /\ (u = NoRow \/ rows[i] = NoRow)
    <2>1. rows'[i] = rows[i]
      BY <1>2, <1>5 DEF Merged
    <2>2. QED
      BY <1>5, <1>t, <2>1
  <1>6. CASE own[r][i] = NoRow /\ u # NoRow /\ rows[i] # NoRow
    <2> DEFINE p == IF u.to = u.from THEN rows[i].score ELSE u.to
    <2>1. rows'[i] = [rows[i] EXCEPT !.score = p, !.researched = @ \/ u.researched]
      BY <1>2, <1>6 DEF Merged
    <2>2. /\ Given(profile, u.to, i[2])
          /\ u.to = Unscored => u.from = Unscored
          /\ u.from # Unscored => rows[i].score # Unscored
      BY <1>6, <1>t DEF ChangeScored
    <2>3. /\ Given(profile, p, i[2])
          /\ rows[i].score # Unscored => p # Unscored
          /\ u.to # Unscored => p # Unscored
      <3>1. CASE u.to = u.from
        BY <1>6, <1>t, <2>2, <3>1
      <3>2. CASE u.to # u.from
        BY <2>2, <3>2
      <3>3. QED
        BY <3>1, <3>2
    <2> HIDE DEF p, u
    <2>4. rows[i] \in Row
      BY <1>3, <1>6
    <2>5. rows'[i].score = p
      BY <2>1, <2>4 DEF Row
    <2>6. rows'[i] # NoRow
      BY <1>1, <1>2, <1>6, <1>t, WriteFits
    <2>7. QED
      BY <2>3, <2>5, <2>6 DEF u
  <1>7. QED
    BY <1>4, <1>5, <1>6

\* A step of a scan that does not end keeps its scores in order.
LEMMA ScoreGoes ==
    ASSUME ScoreInv, NEW r \in Scan, Goes(r)
    PROVE  ScoreFits(r)' /\ UNCHANGED <<profile, rows, kind>>
  <1>t. /\ SlotInv /\ ScanTypes /\ SlotInv' /\ ScanTypes' /\ KindFits(r) /\ WorkFits(r) /\ ListFits(r)
        /\ ScoreFits(r)
    BY SlotGoes DEF ScoreInv, SlotInv
  <1>1. UNCHANGED <<profile, rows, kind>>
    <2>1. UNCHANGED <<profile, kind>>
      BY DEF Goes, ScanBegins, Rank, Submit, FindExisting, FindNew, FindDone, ResearchDone,
             Research, Score, Match, Check, Flush, scans
    <2>2. QED
      BY <1>t, <2>1, SlotGoes
  <1>2. OwnIsNew(r)'
    <2>1. ASSUME NEW i \in Id, own'[r][i] # NoRow PROVE rows[i] = NoRow
      BY <1>t, <2>1, TakesNew DEF ScoreFits, OwnIsNew
    <2>2. QED
      BY <1>1, <2>1 DEF OwnIsNew
  <1>p. profile \in 1..profile /\ company[r] \in 1..profile
    BY <1>t, CompanyPositions DEF ScanTypes, ScoreFits
  <1>3. CASE ScanBegins(r) \/ Submit(r)
    <2>1. ~Active(r) /\ stage'[r] # "scoring" /\ UNCHANGED <<company, own, update, listed>>
      BY <1>3, <1>t DEF ScanBegins, Submit, Active, ScanTypes, scans
    <2>2. QED
      BY <1>1, <1>t, <1>p, <2>1, ScoreOfNothing DEF WorkFits
  <1>4. CASE Rank(r) \/ Match(r) \/ Check(r) \/ (Flush(r) /\ ~Stale(r))
    <2>1. kind[r] = "program"
      BY <1>4, <1>t DEF Rank, Match, Check, Flush, KindFits
    <2>2. company'[r] \in {company[r], profile}
      BY <1>4, <1>t DEF Rank, Match, Check, Flush, ScanTypes, scans
    <2>3. QED
      BY <1>1, <1>2, <1>t, <1>p, <2>1, <2>2, ScoreOfFinder
  <1>5. QED
    BY <1>1, <1>2, <1>3, <1>4, ScoreFinds, ScoreTurns, ScoreWorks DEF Goes

\* Every step keeps the scores in order.
LEMMA ScoreStep == ScoreInv /\ [OpportunityNext]_opportunityVars => ScoreInv'
  <1> SUFFICES ASSUME ScoreInv, [OpportunityNext]_opportunityVars PROVE ScoreInv'
    OBVIOUS
  <1>t. /\ SlotInv /\ ScanTypes /\ SlotInv' /\ ScanTypes' /\ RowsScored
        /\ \A q \in Scan : ScoreFits(q) /\ OwnIsNew(q) /\ WorkFits(q)
    BY SlotStep DEF ScoreInv, SlotInv, ScoreFits
  <1>p. profile \in Nat /\ 1 \in 1..profile
    BY <1>t, CompanyPositions DEF ScanTypes
  <1>1. ASSUME NEW r \in Scan, Goes(r) PROVE ScoreInv'
    <2>1. ScoreFits(r)' /\ UNCHANGED <<profile, rows, kind>>
      BY <1>1, ScoreGoes
    <2>2. \A q \in Scan \ {r} : SameScan(q)
      BY <1>1, <1>t, SlotGoes
    <2>3. ASSUME NEW q \in Scan \ {r} PROVE ScoreFits(q)'
      <3>1. SameScan(q) /\ ScoreFits(q) /\ OwnIsNew(q)'
        BY <1>t, <2>1, <2>2 DEF OwnIsNew, SameScan
      <3>2. QED
        BY <1>t, <1>p, <2>1, <3>1, ScoreStays
    <2>4. RowsScored'
      BY <1>t, <2>1 DEF RowsScored
    <2>5. QED
      BY <1>t, <2>1, <2>3, <2>4 DEF ScoreInv
  <1>2. ASSUME NEW r \in Scan, CommitsWork(r) \/ RollsBack(r),
               \A i \in NoticeId : rows[i] # NoRow =>
                  rows'[i] # NoRow /\ (rows[i].score # Unscored => rows'[i].score # Unscored),
               \A i \in Id : rows'[i] # NoRow => rows[i] # NoRow \/ own[r][i] # NoRow
        PROVE  \A q \in Scan : ScoreFits(q)'
    <2>1. /\ SlotInv' /\ \A q \in Scan \ {r} : SameScan(q)
          /\ Clean(r) /\ UNCHANGED profile
          /\ stage' = [stage EXCEPT ![r] = "failed"] \/ stage' = [stage EXCEPT ![r] = "succeeded"]
                \/ stage' = [stage EXCEPT ![r] = "queued"]
      BY <1>2, <1>t, Committing, RollingBack, SlotCommits, SlotRollsBack
    <2>2. /\ stage'[r] # "scoring" /\ company'[r] = 1 /\ UNCHANGED kind
          /\ own'[r] = Nothing /\ update'[r] = Nothing /\ listed'[r] = <<>>
      BY <1>t, <2>1 DEF Clean, ScanTypes
    <2>3. ScoreFits(r)'
      BY <1>t, <1>p, <2>1, <2>2, ScoreOfNothing
    <2>4. ASSUME NEW q \in Scan \ {r} PROVE ScoreFits(q)'
      <3>1. SameScan(q) /\ own'[q] = own[q]
        BY <2>1 DEF SameScan
      <3>2. ASSUME NEW i \in Id, own[q][i] # NoRow PROVE rows'[i] = NoRow
        <4>1. rows[i] = NoRow /\ i[1] = q
          BY <1>t, <3>2 DEF OwnIsNew, WorkFits
        <4>2. own[r][i] = NoRow
          BY <1>t, <4>1 DEF WorkFits
        <4>3. QED
          BY <1>2, <4>1, <4>2
      <3>3. OwnIsNew(q)'
        BY <3>1, <3>2 DEF OwnIsNew
      <3>4. QED
        BY <1>2, <1>t, <1>p, <2>1, <2>2, <3>1, <3>3, ScoreStays
    <2>5. QED
      BY <2>3, <2>4
  <1>3. ASSUME NEW r \in Scan, CommitsWork(r) PROVE ScoreInv'
    <2>1. Write(r) /\ UNCHANGED profile
      BY <1>3, <1>t, Committing
    <2>2. \A i \in NoticeId :
             /\ rows'[i] # NoRow => Given(profile, rows'[i].score, i[2])
             /\ rows[i] # NoRow =>
                   rows'[i] # NoRow /\ (rows[i].score # Unscored => rows'[i].score # Unscored)
      BY <2>1, WriteScores
    <2>3. \A i \in Id : rows'[i] # NoRow => rows[i] # NoRow \/ own[r][i] # NoRow
      BY <1>t, <2>1, WriteFits
    <2>4. \A q \in Scan : ScoreFits(q)'
      BY <1>2, <1>3, <2>2, <2>3
    <2>5. RowsScored'
      BY <2>1, <2>2 DEF RowsScored
    <2>6. QED
      BY <1>t, <2>4, <2>5 DEF ScoreInv
  <1>4. ASSUME NEW r \in Scan, RollsBack(r) PROVE ScoreInv'
    <2>1. UNCHANGED <<rows, profile>>
      BY <1>4, <1>t, RollingBack
    <2>2. \A q \in Scan : ScoreFits(q)'
      BY <1>2, <1>4, <2>1
    <2>3. RowsScored'
      BY <1>t, <2>1 DEF RowsScored
    <2>4. QED
      BY <1>t, <2>2, <2>3 DEF ScoreInv
  <1>5. CASE Learn \/ (\E f \in Filer : Serve(f)) \/ UNCHANGED opportunityVars
    <2>1. UNCHANGED <<rows, stage, scans>> /\ profile' \in {profile, profile + 1}
      BY <1>5 DEF Learn, Serve, FilingReads, FilingInserts, FilingCommits, opportunityVars
    <2>2. UNCHANGED <<rows, stage, kind, company, hunt, listed, next, own, update, doomed>>
      BY <2>1 DEF scans
    <2>3. profile' >= profile
      BY <1>p, <2>1
    <2>4. ASSUME NEW q \in Scan PROVE ScoreFits(q)'
      <3>1. SameScan(q) /\ OwnIsNew(q)'
        BY <1>t, <2>2 DEF SameScan, OwnIsNew
      <3>2. QED
        BY <1>t, <2>2, <2>3, <3>1, ScoreStays
    <2>5. RowsScored'
      <3>1. \A i \in NoticeId : rows[i] # NoRow => Given(profile', rows[i].score, i[2])
        BY <1>t, <2>3, GivenStays DEF RowsScored
      <3>2. QED
        BY <2>2, <3>1 DEF RowsScored
    <2>6. QED
      BY <1>t, <2>4, <2>5 DEF ScoreInv
  <1>6. QED
    BY <1>1, <1>3, <1>4, <1>5, ScanActions DEF OpportunityNext

\* A scan that succeeded has scored everything it lists, by a profile the company
\* has had (SucceededIsScored): whatever other scans commit meanwhile.
THEOREM ScannedIsScored == OpportunitySpec => SucceededIsScored
  <1>1. OpportunityInit => ScoreInv
    <2> SUFFICES ASSUME OpportunityInit PROVE ScoreInv
      OBVIOUS
    <2>1. RowsScored
      BY ScanConstants DEF OpportunityInit, RowsScored, NoticeId
    <2>2. ASSUME NEW r \in Scan PROVE ScoreFits(r)
      <3>1. OwnIsNew(r) /\ ListedExists(r) /\ PastScored(r)
        BY ScanConstants, EmptySeq DEF OpportunityInit, OwnIsNew, ListedExists, PastScored
      <3>2. \A i \in NoticeId : ChangeScored(r, i)
        BY ScanConstants DEF OpportunityInit, ChangeScored, NoticeId
      <3>3. QED
        BY <3>1, <3>2 DEF OpportunityInit, ScoreFits
    <2>3. QED
      BY <2>1, <2>2, SlotInit DEF ScoreInv
  <1>2. OpportunitySpec => []ScoreInv
    BY <1>1, ScoreStep, PTL DEF OpportunitySpec
  <1> DEFINE A == \A r \in Scan : stage[r] = "scoring" /\ stage'[r] = "succeeded" =>
                     \A i \in Range(listed[r]) : \E c \in 1..profile :
                        rows'[i].score = IF kind[r] = "grant" THEN GrantScore(Company[c], Notice[i[2]])
                                         ELSE ContractScore(Company[c], Notice[i[2]])
  <1>3. ScoreInv /\ [OpportunityNext]_opportunityVars => [A]_opportunityVars
    <2> SUFFICES ASSUME ScoreInv, OpportunityNext, NEW r \in Scan,
                        stage[r] = "scoring", stage'[r] = "succeeded", NEW i \in Range(listed[r])
                 PROVE  \E c \in 1..profile :
                           rows'[i].score = IF kind[r] = "grant"
                                            THEN GrantScore(Company[c], Notice[i[2]])
                                            ELSE ContractScore(Company[c], Notice[i[2]])
      OBVIOUS
    <2>t. SlotInv /\ ScanTypes /\ KindFits(r) /\ ScoreFits(r)
      BY DEF ScoreInv, SlotInv
    <2>1. ScanSucceeds(r)
      <3>1. CASE Learn \/ \E f \in Filer : Serve(f)
        <4>1. stage' = stage
          BY <2>t, <3>1, SlotServes
        <4>2. QED
          BY <4>1
      <3>2. ASSUME NEW q \in Scan, Submit(q) \/ Execute(q) PROVE ScanSucceeds(r)
        <4>1. q = r
          BY <2>t, <3>2, ScanActions, SlotGoes, SlotCommits, SlotRollsBack DEF SameScan
        <4>2. CASE Goes(r)
          BY <2>t, <4>2 DEF Goes, ScanBegins, Rank, Submit, FindExisting, FindNew, Hunting, FindDone,
                            ResearchDone, Research, Score, Match, Check, Flush, ScanTypes
        <4>3. CASE RollsBack(r)
          BY <2>t, <4>3, RollingBack DEF ScanTypes
        <4>4. CASE CommitsWork(r)
          BY <2>t, <4>4 DEF CommitsWork, FindAmbiguous, AgentFails, RankFails, FinderSucceeds, Fails,
                            ScanTypes
        <4>5. QED
          BY <3>2, <4>1, <4>2, <4>3, <4>4, ScanActions
      <3>3. QED
        BY <3>1, <3>2 DEF OpportunityNext
    <2>2. next[r] = Len(listed[r]) /\ Write(r) /\ kind[r] # "program"
      BY <2>1, <2>t DEF ScanSucceeds, ScoredUpTo, KindFits
    <2>3. PICK n \in 1..Len(listed[r]) : i = listed[r][n]
      <3>1. DOMAIN listed[r] = 1..Len(listed[r])
        BY <2>t, LenProperties DEF ScanTypes
      <3>2. QED
        BY <3>1 DEF Range
    <2>4. i \in NoticeRows(r) /\ i \in NoticeId
      BY <2>t, <2>3, ListedNotice
    <2>5. /\ update[r][i] # NoRow /\ update[r][i].to = ScoreOf(r, i)
          /\ own[r][i] # NoRow \/ rows[i] # NoRow
      BY <2>t, <2>2, <2>3 DEF ScoreFits, PastScored, ListedExists
    <2>6. ScoreOf(r, i) # Unscored
      BY <2>t, <2>2, <2>4, ScoreOfNotice, ScanConstants
    <2>7. rows'[i] # NoRow /\ Given(profile, rows'[i].score, i[2]) /\ rows'[i].score # Unscored
      <3>1. rows'[i] # NoRow
        <4>1. i \in Id /\ i \notin doomed[r]
          BY <2>t, <2>4 DEF NoticeId, SlotInv, WorkFits
        <4>2. QED
          BY <2>t, <2>2, <2>5, <4>1, WriteFits
      <3>2. QED
        BY <2>2, <2>4, <2>5, <2>6, <3>1, WriteScores
    <2>8. PICK c \in 1..profile : rows'[i].score = NoticeScore(Company[c], i[2])
      BY <2>7 DEF Given
    <2>9. IsGrant(i[2]) <=> kind[r] = "grant"
      BY <2>t, <2>2, <2>4, SoughtFacts DEF NoticeRows, ScanTypes
    <2>10. QED
      BY <2>8, <2>9 DEF NoticeScore
  <1> HIDE DEF A
  <1>4. OpportunitySpec => [][A]_opportunityVars
    BY <1>2, <1>3, PTL DEF OpportunitySpec
  <1>5. QED
    BY <1>4 DEF SucceededIsScored, A

-----------------------------------------------------------------------------
\* OpportunityScan: what the finder keeps

ProgramId == {i \in Id : i[2] \in DOMAIN Program}

\* The score that finder r gives the program of row i.
JudgedScore(r, i) == ProgramScore(Company[company[r]], Program[i[2]])

\* Every program that is listed was advised when it was scored.
RowsAdvised == \A i \in ProgramId : rows[i] # NoRow => rows[i].score \in 40..100

\* What a finder has in hand is as it judged the programs.
HandFits(r) ==
    \A i \in ProgramId :
        /\ own[r][i] # NoRow => own[r][i].score = JudgedScore(r, i) /\ JudgedScore(r, i) \in 40..100
        /\ update[r][i] # NoRow => update[r][i].to = JudgedScore(r, i) /\ JudgedScore(r, i) \in 40..100
        /\ i \in doomed[r] => JudgedScore(r, i) \notin 40..100

KeptInv == SlotInv /\ RowsAdvised /\ \A r \in Scan : HandFits(r)

\* The advice follows the score.
LEMMA EligibleScores ==
    ASSUME NEW c, NEW e \in DOMAIN Program
    PROVE  e \in Eligible(c) <=> ProgramScore(Company[c], Program[e]) \in 40..100
  <1>1. ProgramScore(Company[c], Program[e]) \in 0..100
    BY ProgramScoreType, ScanAssumption DEF ScanAssumption
  <1>2. QED
    BY <1>1 DEF Eligible, Advice

\* A scan that is none of the finder's, or not at work, has no program in hand.
LEMMA HandOfOthers ==
    ASSUME SlotInv', NEW r \in Scan, kind'[r] # "program" \/ ~Active(r)'
    PROVE  HandFits(r)'
  <1>t. ScanTypes' /\ KindFits(r)' /\ WorkFits(r)'
    BY DEF SlotInv
  <1>1. ASSUME NEW i \in ProgramId
        PROVE  own'[r][i] = NoRow /\ update'[r][i] = NoRow /\ i \notin doomed'[r]
    <2>1. CASE ~Active(r)'
      BY <1>t, <2>1, ScanConstants DEF WorkFits, ProgramId
    <2>2. CASE kind'[r] # "program" /\ Active(r)'
      <3>1. i \in Id /\ i[2] \notin Sought(kind'[r])
        BY <1>t, <2>2, SoughtFacts, ScanAssumption DEF ScanTypes, ProgramId, ScanAssumption
      <3>2. doomed'[r] = {}
        BY <1>t, <2>2 DEF WorkFits, KindFits, Active, ScanTypes, Stage
      <3>3. QED
        BY <1>t, <3>1, <3>2 DEF WorkFits
    <2>3. QED
      BY <1>1, <2>1, <2>2
  <1>2. QED
    BY <1>1 DEF HandFits

\* A scan that another's step leaves alone.
LEMMA HandStays ==
    ASSUME NEW q \in Scan, HandFits(q), SameScan(q)
    PROVE  HandFits(q)'
  <1>1. \A i : JudgedScore(q, i)' = JudgedScore(q, i)
    BY DEF JudgedScore, SameScan
  <1>2. QED
    BY <1>1 DEF HandFits, SameScan

\* The finder inserts, updates and deletes as it judges.
LEMMA HandMatches ==
    ASSUME KeptInv, NEW r \in Scan, Match(r)
    PROVE  HandFits(r)'
  <1>t. ScanTypes /\ NoRow \notin Update
    BY ScanConstants DEF KeptInv, SlotInv
  <1> DEFINE eligible == Eligible(company[r])
             score(e) == ProgramScore(Company[company[r]], Program[e])
             missing(x) == eligible \ {i[2] : i \in x}
             mine(x) == [i \in Id |->
                            IF i[1] = r /\ i[2] \in missing(x)
                            THEN [kind |-> "program", score |-> score(i[2]), researched |-> FALSE]
                            ELSE NoRow]
             news(x) == [i \in Id |->
                            IF i \in x /\ i[2] \in eligible
                            THEN [from |-> rows[i].score, to |-> score(i[2]), researched |-> FALSE]
                            ELSE NoRow]
             losses(x) == {i \in x : i[2] \notin eligible}
  <1>1. PICK x \in OnePerProgram :
           /\ own' = [own EXCEPT ![r] = mine(x)]
           /\ update' = [update EXCEPT ![r] = news(x)]
           /\ doomed' = [doomed EXCEPT ![r] = losses(x)]
    BY DEF Match
  <1>2. own'[r] = mine(x) /\ update'[r] = news(x) /\ doomed'[r] = losses(x) /\ company' = company
    BY <1>t, <1>1 DEF ScanTypes, Match
  <1>3. ASSUME NEW i \in ProgramId
        PROVE  /\ i \in Id /\ (i[2] \in eligible <=> score(i[2]) \in 40..100)
               /\ JudgedScore(r, i)' = score(i[2])
    BY <1>2, EligibleScores DEF ProgramId, JudgedScore
  <1> HIDE DEF eligible, score
  <1>4. ASSUME NEW i \in ProgramId
        PROVE  /\ mine(x)[i] # NoRow => i[2] \in eligible /\ mine(x)[i].score = score(i[2])
               /\ news(x)[i] # NoRow => i[2] \in eligible /\ news(x)[i].to = score(i[2])
               /\ i \in losses(x) => i[2] \notin eligible
    BY <1>3
  <1> HIDE DEF mine, news, losses
  <1>5. QED
    BY <1>2, <1>3, <1>4 DEF HandFits

\* A step of a scan that does not end it leaves its hand in order.
LEMMA HandGoes ==
    ASSUME KeptInv, NEW r \in Scan, Goes(r)
    PROVE  HandFits(r)'
  <1>t. /\ SlotInv /\ ScanTypes /\ SlotInv' /\ KindFits(r) /\ WorkFits(r) /\ HandFits(r)
    BY SlotGoes DEF KeptInv, SlotInv
  <1>1. UNCHANGED kind
    BY DEF Goes, ScanBegins, Rank, Submit, FindExisting, FindNew, FindDone, ResearchDone,
           Research, Score, Match, Check, Flush, scans
  <1>2. CASE kind[r] # "program"
    BY <1>t, <1>1, <1>2, HandOfOthers
  <1>3. CASE Submit(r)
    <2>1. ~Active(r)'
      BY <1>t, <1>3 DEF Submit, Active, ScanTypes
    <2>2. QED
      BY <1>t, <2>1, HandOfOthers
  <1>4. CASE Rank(r)
    <2>1. own'[r] = Nothing /\ update'[r] = Nothing /\ doomed'[r] = {}
      BY <1>t, <1>4 DEF Rank, WorkFits, Active
    <2>2. QED
      BY <2>1, ScanConstants DEF HandFits, ProgramId
  <1>5. CASE Match(r)
    BY <1>5, HandMatches
  <1>6. CASE Check(r) \/ (Flush(r) /\ ~Stale(r))
    <2>1. UNCHANGED <<company, own, update>> /\ doomed'[r] \subseteq doomed[r]
      BY <1>t, <1>6 DEF Check, Flush, ScanTypes, scans
    <2>2. \A i : JudgedScore(r, i)' = JudgedScore(r, i)
      BY <2>1 DEF JudgedScore
    <2>3. QED
      BY <1>t, <2>1, <2>2 DEF HandFits
  <1>7. QED
    BY <1>2, <1>3, <1>4, <1>5, <1>6, <1>t DEF Goes, KindFits, ScanBegins, FindExisting, FindNew,
       Hunting, FindDone, ResearchDone, Research, Score

\* What a commit leaves of a program's row: nothing of one the finder had against
\* it, the score the finder gave, or the row as it was.
LEMMA WriteJudged ==
    ASSUME KeptInv, NEW r \in Scan, Write(r), NEW i \in ProgramId
    PROVE  /\ rows'[i] # NoRow => rows'[i].score \in 40..100
           /\ rows[i] # NoRow /\ JudgedScore(r, i) \in 40..100 =>
                 rows'[i] # NoRow /\ rows'[i].score \in {rows[i].score, JudgedScore(r, i)}
  <1>t. /\ SlotInv /\ ScanTypes /\ i \in Id /\ HandFits(r) /\ NoRow \notin Row
        /\ rows[i] # NoRow => rows[i].score \in 40..100
    BY ScanConstants DEF KeptInv, SlotInv, ProgramId, RowsAdvised
  <1> DEFINE u == update[r][i]
             j == JudgedScore(r, i)
  <1>1. /\ own[r][i] \in Row \cup {NoRow} /\ rows[i] \in Row \cup {NoRow}
        /\ own[r][i] # NoRow => own[r][i].score = j /\ j \in 40..100
        /\ u # NoRow => u.to = j /\ j \in 40..100
        /\ i \in doomed[r] => j \notin 40..100
    <2>1. own[r] \in [Id -> Row \cup {NoRow}] /\ rows \in [Id -> Row \cup {NoRow}]
      BY <1>t DEF ScanTypes
    <2>2. QED
      BY <1>t, <2>1 DEF HandFits
  <1>2. rows'[i] = IF i \in doomed[r] THEN NoRow ELSE Merged(r, i)
    BY <1>t DEF Write
  <1>3. rows[i] # NoRow /\ i \notin doomed[r] => rows'[i] # NoRow
    BY <1>t, WriteFits
  <1>4. CASE i \in doomed[r]
    BY <1>1, <1>2, <1>4
  <1>5. CASE i \notin doomed[r] /\ own[r][i] # NoRow
    <2>1. CASE u = NoRow
      <3>1. rows'[i] = own[r][i]
        BY <1>2, <1>5, <2>1 DEF Merged
      <3> HIDE DEF u, j
      <3>2. QED
        BY <1>1, <1>3, <1>5, <3>1 DEF j
    <2>2. CASE u # NoRow
      <3>1. rows'[i] = [own[r][i] EXCEPT !.score = u.to, !.researched = @ \/ u.researched]
        BY <1>2, <1>5, <2>2 DEF Merged
      <3> HIDE DEF u, j
      <3>2. rows'[i].score = u.to
        BY <1>1, <1>5, <3>1 DEF Row
      <3>3. QED
        BY <1>1, <1>3, <1>5, <2>2, <3>2 DEF j
    <2>3. QED
      BY <2>1, <2>2
  <1>6. CASE i \notin doomed[r] /\ own[r][i] = NoRow /\ (u = NoRow \/ rows[i] = NoRow)
    <2>1. rows'[i] = rows[i]
      BY <1>2, <1>6 DEF Merged
    <2>2. QED
      BY <1>t, <2>1
  <1>7. CASE i \notin doomed[r] /\ own[r][i] = NoRow /\ u # NoRow /\ rows[i] # NoRow
    <2> DEFINE p == IF u.to = u.from THEN rows[i].score ELSE u.to
    <2>1. rows'[i] = [rows[i] EXCEPT !.score = p, !.researched = @ \/ u.researched]
      BY <1>2, <1>7 DEF Merged
    <2>2. p \in {rows[i].score, j} /\ p \in 40..100
      BY <1>1, <1>7, <1>t
    <2> HIDE DEF p, u, j
    <2>3. rows'[i].score = p
      BY <1>1, <1>7, <2>1 DEF Row
    <2>4. QED
      BY <1>3, <1>7, <2>2, <2>3 DEF j
  <1>8. QED
    BY <1>4, <1>5, <1>6, <1>7

\* Every step keeps the programs as they were judged.
LEMMA KeptStep == KeptInv /\ [OpportunityNext]_opportunityVars => KeptInv'
  <1> SUFFICES ASSUME KeptInv, [OpportunityNext]_opportunityVars PROVE KeptInv'
    OBVIOUS
  <1>t. SlotInv /\ SlotInv' /\ RowsAdvised /\ \A q \in Scan : HandFits(q)
    BY SlotStep DEF KeptInv
  <1>1. ASSUME NEW r \in Scan, Goes(r) PROVE KeptInv'
    <2>1. HandFits(r)' /\ UNCHANGED rows /\ \A q \in Scan \ {r} : SameScan(q)
      BY <1>1, <1>t, HandGoes, SlotGoes
    <2>2. QED
      BY <1>t, <2>1, HandStays DEF KeptInv, RowsAdvised
  <1>2. ASSUME NEW r \in Scan, CommitsWork(r) \/ RollsBack(r) PROVE KeptInv'
    <2>1. ~Active(r)' /\ \A q \in Scan \ {r} : SameScan(q)
      BY <1>2, <1>t, SlotCommits, SlotRollsBack
    <2>2. \A q \in Scan : HandFits(q)'
      BY <1>t, <2>1, HandOfOthers, HandStays
    <2>3. RowsAdvised'
      <3>1. CASE CommitsWork(r)
        <4>1. Write(r)
          BY <1>t, <3>1, Committing
        <4>2. QED
          BY <4>1, WriteJudged DEF RowsAdvised
      <3>2. CASE RollsBack(r)
        BY <1>t, <3>2, RollingBack DEF RowsAdvised
      <3>3. QED
        BY <1>2, <3>1, <3>2
    <2>4. QED
      BY <1>t, <2>2, <2>3 DEF KeptInv
  <1>3. CASE Learn \/ (\E f \in Filer : Serve(f)) \/ UNCHANGED opportunityVars
    <2>1. UNCHANGED <<rows, stage, scans>>
      BY <1>3, <1>t, SlotServes DEF opportunityVars
    <2>2. \A q \in Scan : SameScan(q)
      BY <2>1 DEF SameScan, scans
    <2>3. QED
      BY <1>t, <2>1, <2>2, HandStays DEF KeptInv, RowsAdvised
  <1>4. QED
    BY <1>1, <1>2, <1>3, ScanActions DEF OpportunityNext

\* Only a finder's commit ends "written" in "succeeded".
LEMMA FinderCommits ==
    ASSUME SlotInv, OpportunityNext, NEW r \in Scan, stage[r] = "written", stage'[r] = "succeeded"
    PROVE  FinderSucceeds(r)
  <1>t. ScanTypes
    BY DEF SlotInv
  <1>1. CASE Learn \/ \E f \in Filer : Serve(f)
    BY <1>1, SlotServes
  <1>2. ASSUME NEW q \in Scan, Submit(q) \/ Execute(q) PROVE FinderSucceeds(r)
    <2>1. q = r
      BY <1>2, ScanActions, SlotGoes, SlotCommits, SlotRollsBack DEF SameScan
    <2>2. CASE Goes(r)
      BY <1>t, <2>2 DEF Goes, ScanBegins, Rank, Submit, FindExisting, FindNew, Hunting, FindDone,
                        ResearchDone, Research, Score, Match, Check, Flush, ScanTypes
    <2>3. CASE RollsBack(r)
      BY <1>t, <2>3, RollingBack DEF ScanTypes
    <2>4. CASE CommitsWork(r)
      BY <1>t, <2>4 DEF CommitsWork, FindAmbiguous, Hunting, AgentFails, RankFails, ScanSucceeds,
                        Fails, ScanTypes
    <2>5. QED
      BY <1>2, <2>1, <2>2, <2>3, <2>4, ScanActions
  <1>3. QED
    BY <1>1, <1>2 DEF OpportunityNext

\* The finder retracts no listed program and lowers no score because the company
\* states more (KeptWhileStated), whatever finders and scans interleave, unless a
\* description took the place of a capability statement.
THEOREM FinderKeeps == OpportunitySpec => KeptWhileStated
  <1>1. OpportunityInit => KeptInv
    <2> SUFFICES ASSUME OpportunityInit PROVE KeptInv
      OBVIOUS
    <2>1. RowsAdvised /\ \A r \in Scan : HandFits(r)
      BY ScanConstants DEF OpportunityInit, RowsAdvised, HandFits, ProgramId
    <2>2. QED
      BY <2>1, SlotInit DEF KeptInv
  <1>2. OpportunitySpec => []KeptInv
    BY <1>1, KeptStep, PTL DEF OpportunitySpec
  <1> DEFINE A == \A r \in Scan, i \in Present, c \in 1..profile :
                     /\ stage[r] = "written" /\ stage'[r] = "succeeded"
                     /\ i[2] \in DOMAIN Program
                     /\ rows[i].score = ProgramScore(Company[c], Program[i[2]])
                     /\ Extends(Company[company[r]], Company[c]) /\ ~Displaces(Company[company[r]], Company[c])
                     => rows'[i] # NoRow /\ rows'[i].score >= rows[i].score
  <1>3. KeptInv /\ [OpportunityNext]_opportunityVars => [A]_opportunityVars
    <2> SUFFICES ASSUME KeptInv, OpportunityNext,
                        NEW r \in Scan, NEW i \in Present, NEW c \in 1..profile,
                        stage[r] = "written", stage'[r] = "succeeded",
                        i[2] \in DOMAIN Program,
                        rows[i].score = ProgramScore(Company[c], Program[i[2]]),
                        Extends(Company[company[r]], Company[c]),
                        ~Displaces(Company[company[r]], Company[c])
                 PROVE  rows'[i] # NoRow /\ rows'[i].score >= rows[i].score
      OBVIOUS
    <2>1. Write(r)
      BY FinderCommits DEF KeptInv, FinderSucceeds
    <2>2. i \in ProgramId /\ rows[i] # NoRow /\ rows[i].score \in 40..100
      BY DEF KeptInv, RowsAdvised, ProgramId, Present
    <2>3. IsFiniteSet(Program[i[2]].signals)
      BY ScanAssumption DEF ScanAssumption
    <2>4. rows[i].score <= JudgedScore(r, i)
      BY <2>3, ProgramGain DEF JudgedScore
    <2>5. JudgedScore(r, i) \in 0..100
      BY <2>3, ProgramScoreType DEF JudgedScore
    <2>6. JudgedScore(r, i) \in 40..100
      BY <2>2, <2>4, <2>5
    <2>7. rows'[i] # NoRow /\ rows'[i].score \in {rows[i].score, JudgedScore(r, i)}
      BY <2>1, <2>2, <2>6, WriteJudged
    <2>8. QED
      BY <2>2, <2>4, <2>5, <2>7
  <1> HIDE DEF A
  <1>4. OpportunitySpec => [][A]_opportunityVars
    BY <1>2, <1>3, PTL DEF OpportunitySpec
  <1>5. QED
    BY <1>4 DEF KeptWhileStated, A
=============================================================================
