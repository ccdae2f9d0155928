---------------------- MODULE RequirementTrackingProofs ----------------------
(***************************************************************************)
(* Proofs about RequirementTracking, for all solicitations, answers of the *)
(* model, extractions, pages and faults.  Finitely many rows are there at  *)
(* any time, since an answer is finite; nothing else is taken to be.       *)
(***************************************************************************)
EXTENDS RequirementTracking, FiniteSetTheorems, WellFoundedInduction, TLAPS

-----------------------------------------------------------------------------
\* Answers

IsAnswer(a) ==
    /\ DOMAIN a \subseteq Nat
    /\ IsFiniteSet(DOMAIN a)
    /\ \A i \in DOMAIN a : a[i].text \in Text

\* Of numbers one is the least.
LEMMA LeastIndex ==
    ASSUME NEW S \in SUBSET Nat, S # {}
    PROVE  \E x \in S : \A y \in S : x <= y
  <1>1. PICK x \in S : \A y \in S : ~(<<y, x>> \in OpToRel(<, Nat))
    BY NatLessThanWellFounded, WFMin, Zenon
  <1>2. \A y \in S : ~(y < x)
    BY <1>1, Zenon DEF OpToRel
  <1>3. QED
    BY <1>2

\* A sequence has finitely many indexes, all numbers.
LEMMA Indexes ==
    ASSUME NEW X, NEW s \in Seq(X)
    PROVE  DOMAIN s \subseteq Nat /\ IsFiniteSet(DOMAIN s)
  <1>1. DOMAIN s = 1..Len(s) /\ Len(s) \in Nat
    OBVIOUS
  <1>2. IsFiniteSet(1..Len(s))
    BY <1>1, FS_Interval
  <1>3. QED
    BY <1>1, <1>2

\* What a model of either provider answers.
LEMMA AnswersAre ==
    ASSUME RequirementAssumption, solicitation \in Solicitation, NEW a \in Answers
    PROVE  IsAnswer(a)
  <1>1. CASE a \in Outputs
    <2>1. a \in Seq(Range(a)) /\ \A i \in DOMAIN a : a[i].text \in Text
      BY <1>1 DEF RequirementAssumption
    <2>2. QED
      BY <2>1, Indexes DEF IsAnswer
  <1>2. CASE a = MockOutput(solicitation)
    <2>1. solicitation \in Seq(Range(solicitation))
          /\ \A i \in DOMAIN solicitation : solicitation[i].text \in Text
      BY DEF RequirementAssumption
    <2>2. DOMAIN a = Taken(solicitation) /\ Taken(solicitation) \subseteq DOMAIN solicitation
      BY <1>2 DEF MockOutput, Taken
    <2>3. DOMAIN solicitation \subseteq Nat /\ IsFiniteSet(DOMAIN solicitation)
      BY <2>1, Indexes
    <2>4. IsFiniteSet(DOMAIN a)
      BY <2>2, <2>3, FS_Subset
    <2>5. \A i \in DOMAIN a : a[i].text = solicitation[i].text
      BY <1>2, <2>2 DEF MockOutput
    <2>6. QED
      BY <2>1, <2>2, <2>3, <2>4, <2>5 DEF IsAnswer
  <1>3. QED
    BY <1>1, <1>2 DEF Answers

\* What a run files is told apart by its key, and one of those that share a key
\* is filed unless the key was known.
LEMMA AddedDiffer ==
    ASSUME NEW e \in Extract, IsAnswer(answer[e]), NEW r \in Inserted(e), NEW s \in Inserted(e),
           KeyOf(r) = KeyOf(s)
    PROVE  r = s
  <1>1. PICK i \in Added(e) : r = [by |-> e, nth |-> i, requirement |-> answer[e][i]]
    BY DEF Inserted
  <1>2. PICK j \in Added(e) : s = [by |-> e, nth |-> j, requirement |-> answer[e][j]]
    BY DEF Inserted
  <1>3. Key[answer[e][i].text] = Key[answer[e][j].text]
    BY <1>1, <1>2 DEF KeyOf
  <1>4. i \in DOMAIN answer[e] /\ j \in DOMAIN answer[e] /\ i \in Nat /\ j \in Nat
    BY DEF Added, IsAnswer
  <1>5. ~(i < j) /\ ~(j < i)
    BY <1>3, <1>4 DEF Added
  <1>6. i = j
    BY <1>4, <1>5
  <1>7. QED
    BY <1>1, <1>2, <1>6

LEMMA KeysAreFiled ==
    ASSUME NEW e \in Extract, IsAnswer(answer[e]), NEW i \in DOMAIN answer[e],
           Key[answer[e][i].text] \notin known[e] \cup {NoKey}
    PROVE  \E row \in Inserted(e) : KeyOf(row) = Key[answer[e][i].text]
  <1> DEFINE Same == {j \in DOMAIN answer[e] : Key[answer[e][j].text] = Key[answer[e][i].text]}
  <1>1. Same \in SUBSET Nat /\ Same # {}
    BY DEF IsAnswer
  <1>2. PICK k \in Same : \A j \in Same : k <= j
    <2> HIDE DEF Same
    <2>1. QED
      BY <1>1, LeastIndex
  <1>3. k \in DOMAIN answer[e] /\ Key[answer[e][k].text] = Key[answer[e][i].text]
    OBVIOUS
  <1>4. ASSUME NEW j \in DOMAIN answer[e], j < k
        PROVE  Key[answer[e][j].text] # Key[answer[e][k].text]
    <2>1. j \in Nat /\ k \in Nat
      BY <1>3 DEF IsAnswer
    <2>2. j \notin Same
      BY <1>2, <1>4, <2>1
    <2>3. QED
      BY <1>3, <2>2
  <1>5. k \in Added(e)
    BY <1>3, <1>4 DEF Added
  <1> DEFINE row == [by |-> e, nth |-> k, requirement |-> answer[e][k]]
  <1>6. row \in Inserted(e) /\ KeyOf(row) = Key[answer[e][i].text]
    BY <1>3, <1>5 DEF Inserted, KeyOf
  <1>7. QED
    BY <1>6

\* A run files finitely many rows.
LEMMA InsertedFinite ==
    ASSUME NEW e \in Extract, IsAnswer(answer[e])
    PROVE  IsFiniteSet(Inserted(e))
  <1> DEFINE f == [i \in Added(e) |-> [by |-> e, nth |-> i, requirement |-> answer[e][i]]]
  <1>1. Added(e) \subseteq DOMAIN answer[e]
    BY DEF Added
  <1>2. IsFiniteSet(Added(e))
    BY <1>1, FS_Subset DEF IsAnswer
  <1>3. f \in Surjection(Added(e), Inserted(e))
    BY DEF Surjection, Inserted
  <1>4. QED
    BY <1>2, <1>3, FS_Surjection

-----------------------------------------------------------------------------
\* Types

Proc == Extract \cup Match \cup View
PageOf(p) == p = [listed |-> p.listed, matrix |-> p.matrix, verdicts |-> p.verdicts]

\* Rows are what finished runs have filed.
RowsFound ==
    \A row \in rows : row.by \in Extract /\ stage[row.by] = "done" /\ row \in Inserted(row.by)

\* Besides its types, the domains of the functions, that answers are answers
\* and that rows are finitely many and were found.
TypeInv ==
    /\ TypeOK
    /\ solicitation \in Solicitation
    /\ DOMAIN stage = Proc /\ DOMAIN answer = Extract /\ DOMAIN known = Extract
    /\ DOMAIN judging = Match /\ DOMAIN erased = Match
    /\ DOMAIN page = View /\ DOMAIN before = View
    /\ \A e \in Extract : IsAnswer(answer[e])
    /\ \A v \in View : PageOf(page[v])
    /\ IsFiniteSet(rows)
    /\ RowsFound

\* Where a step puts a process, and that it leaves the others.
LEMMA Moves ==
    ASSUME DOMAIN stage = Proc, NEW x \in Proc, NEW to, Goes(x, to)
    PROVE  /\ DOMAIN stage' = Proc
           /\ stage'[x] = to
           /\ \A y \in Proc \ {x} : stage'[y] = stage[y]
  BY DEF Goes

LEMMA Kinds ==
    ASSUME RequirementAssumption
    PROVE  /\ \A x \in Extract : x \in Proc /\ x \notin Match /\ x \notin View
           /\ \A x \in Match : x \in Proc /\ x \notin Extract /\ x \notin View
           /\ \A x \in View : x \in Proc /\ x \notin Extract /\ x \notin Match
  BY DEF RequirementAssumption, Proc

MatchStages == {"idle", "queued", "loaded", "erasing", "judging", "done", "failed"}

StageOK ==
    /\ \A e \in Extract : stage[e] \in {"idle", "queued", "read", "done", "failed", "needs_input"}
    /\ \A m \in Match : stage[m] \in MatchStages
    /\ \A v \in View : stage[v] \in {"idle", "listed", "matrix", "served"}

\* A process goes to a place of its kind.
LEMMA StaysOK ==
    ASSUME RequirementAssumption, DOMAIN stage = Proc, StageOK, NEW x \in Proc, NEW to, Goes(x, to),
           \/ x \in Extract /\ to \in {"queued", "read", "done", "failed", "needs_input"}
           \/ x \in Match /\ to \in MatchStages
           \/ x \in View /\ to \in {"listed", "matrix", "served"}
    PROVE  StageOK'
  <1>1. stage'[x] = to /\ \A y \in Proc \ {x} : stage'[y] = stage[y]
    BY Moves
  <1>2. ASSUME NEW e \in Extract
        PROVE  stage'[e] \in {"idle", "queued", "read", "done", "failed", "needs_input"}
    BY <1>1, <1>2, Kinds DEF StageOK
  <1>3. ASSUME NEW m \in Match
        PROVE  stage'[m] \in MatchStages
    BY <1>1, <1>3, Kinds DEF StageOK
  <1>4. ASSUME NEW v \in View
        PROVE  stage'[v] \in {"idle", "listed", "matrix", "served"}
    BY <1>1, <1>4, Kinds DEF StageOK
  <1>5. QED
    BY <1>2, <1>3, <1>4 DEF StageOK

LEMMA EmptyAnswer == IsAnswer(<<>>)
  <1>1. DOMAIN <<>> = {}
    OBVIOUS
  <1>2. QED
    BY <1>1, FS_EmptySet DEF IsAnswer

LEMMA InitTypes ==
    ASSUME RequirementAssumption, Init
    PROVE  TypeInv
  <1>1. DOMAIN stage = Proc /\ \A x \in Proc : stage[x] = "idle"
    BY DEF Init, Proc
  <1>2. StageOK
    BY <1>1, Kinds DEF StageOK, MatchStages
  <1>3. \A e \in Extract : answer[e] = <<>> /\ known[e] = {}
    BY DEF Init
  <1>4. \A m \in Match : judging[m] = {} /\ erased[m] = {}
    BY DEF Init
  <1>5. matches = {} /\ rows = {}
    BY DEF Init
  <1>6. TypeOK
    BY <1>2, <1>3, <1>4, <1>5 DEF TypeOK, StageOK, MatchStages, Init, RequirementAssumption
  <1>7. DOMAIN answer = Extract /\ DOMAIN known = Extract /\ DOMAIN judging = Match
        /\ DOMAIN erased = Match /\ DOMAIN page = View /\ DOMAIN before = View
    BY DEF Init
  <1>8. \A v \in View : PageOf(page[v])
    BY DEF Init, NoPage, PageOf
  <1>9. QED
    BY <1>1, <1>3, <1>6, <1>7, <1>8, EmptyAnswer, FS_EmptySet DEF TypeInv, Init, RowsFound

\* A finished run's rows stay what it found.
Settled ==
    \A e \in Extract : stage[e] = "done" =>
        stage'[e] = "done" /\ answer'[e] = answer[e] /\ known'[e] = known[e]

LEMMA InsertedStays ==
    ASSUME NEW e \in Extract, answer'[e] = answer[e], known'[e] = known[e]
    PROVE  Inserted(e)' = Inserted(e)
  <1>1. Added(e)' = Added(e)
    BY DEF Added
  <1>2. QED
    BY <1>1 DEF Inserted

LEMMA RowFacts ==
    ASSUME TypeInv, NEW row \in rows
    PROVE  /\ row.by \in Extract /\ row.nth \in Added(row.by)
           /\ row.nth \in DOMAIN answer[row.by]
           /\ row.requirement = answer[row.by][row.nth]
           /\ row.requirement.text \in Text
  <1>1. row.by \in Extract /\ row \in Inserted(row.by) /\ IsAnswer(answer[row.by])
    BY DEF TypeInv, RowsFound
  <1>2. row.nth \in Added(row.by) /\ row.requirement = answer[row.by][row.nth]
    BY <1>1 DEF Inserted
  <1>3. row.nth \in DOMAIN answer[row.by]
    BY <1>2 DEF Added
  <1>4. QED
    BY <1>1, <1>2, <1>3 DEF IsAnswer

LEMMA RowsStay ==
    ASSUME TypeInv, Settled, UNCHANGED rows
    PROVE  RowsFound'
  <1> SUFFICES ASSUME NEW row \in rows
               PROVE  row.by \in Extract /\ stage'[row.by] = "done" /\ row \in Inserted(row.by)'
    BY DEF RowsFound
  <1>1. row.by \in Extract /\ stage[row.by] = "done" /\ row \in Inserted(row.by)
    BY DEF TypeInv, RowsFound
  <1>2. stage'[row.by] = "done" /\ Inserted(row.by)' = Inserted(row.by)
    BY <1>1, InsertedStays DEF Settled
  <1>3. QED
    BY <1>1, <1>2

\* A step of an extraction that is not finished, or of something else, settles
\* nothing anew.
LEMMA OthersSettle ==
    ASSUME TypeInv, NEW x \in Proc, NEW to, Goes(x, to), x \in Extract => stage[x] # "done",
           \A e \in Extract \ {x} : answer'[e] = answer[e] /\ known'[e] = known[e]
    PROVE  Settled
  <1>1. \A y \in Proc \ {x} : stage'[y] = stage[y]
    BY Moves DEF TypeInv
  <1>2. \A e \in Extract : stage[e] = "done" => e # x /\ e \in Proc
    BY DEF Proc
  <1>3. QED
    BY <1>1, <1>2 DEF Settled

\* What a step leaves alone keeps its type.
LEMMA KeepsTypes ==
    ASSUME TypeInv, StageOK', DOMAIN stage' = Proc, faults' \in 0..MaxFaults, Settled,
           UNCHANGED <<solicitation, answer, known, rows, matches, judging, erased, page, before>>
    PROVE  TypeInv'
  <1>1. RowsFound'
    BY RowsStay
  <1>2. QED
    BY <1>1 DEF TypeInv, TypeOK, StageOK, MatchStages

\* The counting of faults.
LEMMA FaultCounts ==
    ASSUME TypeInv, RequirementAssumption, Fault \/ UNCHANGED faults
    PROVE  faults' \in 0..MaxFaults
  BY DEF TypeInv, TypeOK, Fault, RequirementAssumption

\* A run reads an answer and the keys, or forgets them.
LEMMA ReadTypes ==
    ASSUME TypeInv, StageOK', DOMAIN stage' = Proc, faults' \in 0..MaxFaults, Settled,
           NEW e \in Extract, NEW a, IsAnswer(a), NEW k \in SUBSET Range(Key),
           answer' = [answer EXCEPT ![e] = a], known' = [known EXCEPT ![e] = k],
           UNCHANGED <<solicitation, rows, matches, judging, erased, page, before>>
    PROVE  TypeInv'
  <1>1. DOMAIN answer' = Extract /\ \A f \in Extract : IsAnswer(answer'[f])
    BY DEF TypeInv
  <1>2. DOMAIN known' = Extract /\ \A f \in Extract : known'[f] \subseteq Range(Key)
    BY DEF TypeInv, TypeOK
  <1>3. RowsFound'
    BY RowsStay
  <1>4. \A row \in rows : row.by \in Extract /\ row.nth \in DOMAIN answer'[row.by]
    <2>1. \A row \in rows : row.by \in Extract /\ row.nth \in DOMAIN answer[row.by]
      BY RowFacts
    <2>2. \A row \in rows : answer'[row.by] = answer[row.by]
      BY DEF TypeInv, RowsFound, Settled
    <2>3. QED
      BY <2>1, <2>2
  <1>5. TypeOK'
    BY <1>2, <1>4 DEF TypeInv, TypeOK, StageOK, MatchStages
  <1>6. QED
    BY <1>1, <1>2, <1>3, <1>5 DEF TypeInv

\* A run files what it found.
LEMMA FileTypes ==
    ASSUME RequirementAssumption, TypeInv, NEW e \in Extract, Files(e)
    PROVE  TypeInv'
  <1>1. e \in Proc /\ Goes(e, "done") /\ stage[e] = "read"
    BY Kinds DEF Files
  <1>2. StageOK' /\ DOMAIN stage' = Proc /\ stage'[e] = "done"
    BY <1>1, StaysOK, Moves DEF TypeInv, TypeOK, StageOK, MatchStages
  <1>3. Settled
    BY <1>1, OthersSettle DEF Files
  <1>4. rows' = rows \cup Inserted(e) /\ \A f \in Extract : Inserted(f)' = Inserted(f)
    BY InsertedStays DEF Files
  <1>5. IsFiniteSet(rows')
    BY <1>4, InsertedFinite, FS_Union DEF TypeInv
  <1>6. \A row \in Inserted(e) : row.by = e /\ row.nth \in DOMAIN answer[e]
    BY DEF Inserted, Added
  <1>7. RowsFound'
    <2> SUFFICES ASSUME NEW row \in rows'
                 PROVE  row.by \in Extract /\ stage'[row.by] = "done" /\ row \in Inserted(row.by)'
      BY DEF RowsFound
    <2>1. CASE row \in rows
      BY <2>1, <1>3, <1>4 DEF TypeInv, RowsFound, Settled
    <2>2. CASE row \in Inserted(e)
      BY <2>2, <1>2, <1>4, <1>6
    <2>3. QED
      BY <1>4, <2>1, <2>2
  <1>8. \A row \in rows' : row.by \in Extract /\ row.nth \in DOMAIN answer'[row.by]
    <2>1. answer' = answer
      BY DEF Files
    <2>2. QED
      BY <1>4, <1>6, <2>1, RowFacts
  <1>9. UNCHANGED <<solicitation, answer, known, matches, judging, erased, page, before, faults>>
    BY DEF Files, mappings
  <1>10. TypeOK'
    BY <1>2, <1>4, <1>8, <1>9 DEF TypeInv, TypeOK, StageOK, MatchStages
  <1>11. QED
    BY <1>2, <1>5, <1>7, <1>9, <1>10 DEF TypeInv

\* A mapping begins, deletes, ends or forgets.
LEMMA MappingTypes ==
    ASSUME TypeInv, StageOK', DOMAIN stage' = Proc, faults' \in 0..MaxFaults, Settled,
           DOMAIN judging' = Match, \A m \in Match : judging'[m] \subseteq rows,
           DOMAIN erased' = Match,
           \A m \in Match : \A mt \in erased'[m] : mt.row \in rows /\ mt.by \in Match,
           \A mt \in matches' : mt.row \in rows /\ mt.by \in Match /\ mt.status \in Verdict,
           UNCHANGED <<solicitation, answer, known, rows, page, before>>
    PROVE  TypeInv'
  <1>1. RowsFound'
    BY RowsStay
  <1>2. TypeOK'
    BY DEF TypeInv, TypeOK, StageOK, MatchStages
  <1>3. QED
    BY <1>1, <1>2 DEF TypeInv

\* What a mapping closes or sets is its own.
LEMMA MappingReads ==
    ASSUME TypeInv, NEW m \in Match,
           \/ JudgeBegins(m) \/ Erases(m) \/ EraseEnds(m) \/ Closed(m)
    PROVE  /\ DOMAIN judging' = Match /\ DOMAIN erased' = Match
           /\ \A n \in Match \ {m} : judging'[n] = judging[n] /\ erased'[n] = erased[n]
           /\ JudgeBegins(m) => judging'[m] = rows /\ erased'[m] = erased[m]
           /\ Erases(m) => judging'[m] = judging[m] /\ erased'[m] = matches
           /\ EraseEnds(m) => judging'[m] = judging[m] /\ erased'[m] = erased[m]
           /\ Closed(m) => judging'[m] = {} /\ erased'[m] = {}
  <1>1. DOMAIN judging = Match /\ DOMAIN erased = Match
    BY DEF TypeInv
  <1>2. CASE JudgeBegins(m)
    BY <1>1, <1>2 DEF JudgeBegins, Erases, EraseEnds, Closed
  <1>3. CASE Erases(m)
    BY <1>1, <1>3 DEF JudgeBegins, Erases, EraseEnds, Closed
  <1>4. CASE EraseEnds(m)
    BY <1>1, <1>4 DEF JudgeBegins, Erases, EraseEnds, Closed, mappings
  <1>5. CASE Closed(m)
    <2>1. judging'[m] = {} /\ erased'[m] = {}
      BY <1>1, <1>5 DEF Closed
    <2>2. /\ DOMAIN judging' = Match /\ DOMAIN erased' = Match
          /\ \A n \in Match \ {m} : judging'[n] = judging[n] /\ erased'[n] = erased[n]
      BY <1>1, <1>5 DEF Closed
    <2>3. JudgeBegins(m) => judging'[m] = rows /\ erased'[m] = erased[m]
      BY <1>1 DEF JudgeBegins
    <2>4. Erases(m) => judging'[m] = judging[m] /\ erased'[m] = matches
      BY <1>1 DEF Erases
    <2>5. EraseEnds(m) => judging'[m] = judging[m] /\ erased'[m] = erased[m]
      BY DEF EraseEnds, mappings
    <2>6. QED
      BY <2>1, <2>2, <2>3, <2>4, <2>5
  <1>6. QED
    BY <1>2, <1>3, <1>4, <1>5

\* What a mapping holds are rows, and matches of rows: those it has read.
LEMMA MappingHolds ==
    ASSUME TypeInv, NEW m \in Match,
           \/ JudgeBegins(m) \/ Erases(m) \/ EraseEnds(m) \/ Closed(m)
    PROVE  /\ DOMAIN judging' = Match /\ \A n \in Match : judging'[n] \subseteq rows
           /\ DOMAIN erased' = Match
           /\ \A n \in Match : \A mt \in erased'[n] : mt.row \in rows /\ mt.by \in Match
  <1>1. /\ \A n \in Match : judging[n] \subseteq rows
        /\ \A n \in Match : \A mt \in erased[n] : mt.row \in rows /\ mt.by \in Match
        /\ \A mt \in matches : mt.row \in rows /\ mt.by \in Match
    BY DEF TypeInv, TypeOK
  <1>2. /\ DOMAIN judging' = Match /\ DOMAIN erased' = Match
        /\ \A n \in Match \ {m} : judging'[n] = judging[n] /\ erased'[n] = erased[n]
    BY MappingReads
  <1>3. judging'[m] \in {rows, judging[m], {}} /\ erased'[m] \in {erased[m], matches, {}}
    BY MappingReads
  <1>4. \A n \in Match : judging'[n] \subseteq rows
    BY <1>1, <1>2, <1>3
  <1>5. \A n \in Match : \A mt \in erased'[n] : mt.row \in rows /\ mt.by \in Match
    BY <1>1, <1>2, <1>3
  <1>6. QED
    BY <1>2, <1>4, <1>5

\* What a mapping that ends leaves: its verdicts on some of its rows, and what it
\* did not delete.
LEMMA Judgment ==
    ASSUME NEW m \in Match, JudgeCommits(m) \/ JudgeFails(m)
    PROVE  \E judged \in SUBSET judging[m] : \E verdicts \in [judged -> Verdict] :
              /\ JudgeCommits(m) => judged = judging[m]
              /\ Judges(m, verdicts)
  <1>1. CASE JudgeCommits(m)
    BY <1>1 DEF JudgeCommits, Rejudged
  <1>2. CASE JudgeFails(m) /\ ~JudgeCommits(m)
    BY <1>2 DEF JudgeFails
  <1>3. QED
    BY <1>1, <1>2

\* The steps of a mapping besides being asked for and being lost.
MapStep(m) == JudgeBegins(m) \/ Erases(m) \/ EraseEnds(m) \/ JudgeCommits(m) \/ JudgeFails(m)

LEMMA MapSteps ==
    ASSUME NEW m \in Match, MapStep(m)
    PROVE  /\ \E to \in MatchStages \ {"idle"} : Goes(m, to)
           /\ Fault \/ UNCHANGED faults
           /\ UNCHANGED <<provider, solicitation, answer, known, rows, page, before, raced>>
  BY DEF MapStep, JudgeBegins, Erases, EraseEnds, JudgeCommits, JudgeFails, Judges, mappings,
         MatchStages

\* A page reads.
LEMMA ViewTypes ==
    ASSUME TypeInv, StageOK', DOMAIN stage' = Proc, Settled,
           DOMAIN page' = View, DOMAIN before' = View, \A v \in View : PageOf(page'[v]),
           UNCHANGED <<solicitation, answer, known, rows, matches, judging, erased, faults>>
    PROVE  TypeInv'
  <1>1. RowsFound'
    BY RowsStay
  <1>2. QED
    BY <1>1 DEF TypeInv, TypeOK, StageOK, MatchStages

\* What a page has read.
LEMMA PageReads ==
    ASSUME TypeInv, NEW v \in View, PageLists(v) \/ MatrixLists(v) \/ PageServed(v)
    PROVE  /\ \A w \in View : PageOf(page'[w])
           /\ \A w \in View \ {v} : page'[w] = page[w]
           /\ page'[v].listed = IF PageLists(v) THEN rows ELSE page[v].listed
           /\ page'[v].matrix = IF MatrixLists(v) THEN rows ELSE page[v].matrix
           /\ IF PageServed(v) THEN page'[v].verdicts \in Shown
              ELSE page'[v].verdicts = page[v].verdicts
  <1>1. DOMAIN page = View /\ \A w \in View : PageOf(page[w])
    BY DEF TypeInv
  <1>2. page[v] = [listed |-> page[v].listed, matrix |-> page[v].matrix,
                   verdicts |-> page[v].verdicts]
    BY <1>1 DEF PageOf
  <1>3. CASE PageLists(v)
    <2>1. page' = [page EXCEPT ![v].listed = rows] /\ ~MatrixLists(v) /\ ~PageServed(v)
      BY <1>3 DEF PageLists, MatrixLists, PageServed
    <2>2. page'[v] = [listed |-> rows, matrix |-> page[v].matrix, verdicts |-> page[v].verdicts]
      BY <1>1, <1>2, <2>1
    <2>3. \A w \in View \ {v} : page'[w] = page[w]
      BY <1>1, <2>1
    <2>4. QED
      BY <1>1, <1>3, <2>1, <2>2, <2>3 DEF PageOf
  <1>4. CASE MatrixLists(v)
    <2>1. page' = [page EXCEPT ![v].matrix = rows] /\ ~PageLists(v) /\ ~PageServed(v)
      BY <1>4 DEF PageLists, MatrixLists, PageServed
    <2>2. page'[v] = [listed |-> page[v].listed, matrix |-> rows, verdicts |-> page[v].verdicts]
      BY <1>1, <1>2, <2>1
    <2>3. \A w \in View \ {v} : page'[w] = page[w]
      BY <1>1, <2>1
    <2>4. QED
      BY <1>1, <1>4, <2>1, <2>2, <2>3 DEF PageOf
  <1>5. CASE PageServed(v)
    <2>a. PICK verdicts \in Shown : page' = [page EXCEPT ![v].verdicts = verdicts]
      BY <1>5 DEF PageServed
    <2>1. ~PageLists(v) /\ ~MatrixLists(v)
      BY <1>5 DEF PageLists, MatrixLists, PageServed
    <2>2. page'[v] = [listed |-> page[v].listed, matrix |-> page[v].matrix, verdicts |-> verdicts]
      BY <1>1, <1>2, <2>a
    <2>3. \A w \in View \ {v} : page'[w] = page[w]
      BY <1>1, <2>a
    <2>4. QED
      BY <1>1, <1>5, <2>1, <2>2, <2>3 DEF PageOf
  <1>6. QED
    BY <1>3, <1>4, <1>5

LEMMA NextTypes ==
    ASSUME RequirementAssumption, TypeInv, [Next]_vars
    PROVE  TypeInv'
  <1>s. StageOK /\ DOMAIN stage = Proc
    BY DEF TypeInv, TypeOK, StageOK, MatchStages
  <1>1. ASSUME NEW x \in Extract \cup Match, Asked(x)
        PROVE  TypeInv'
    <2>1. x \in Proc /\ Goes(x, "queued") /\ (x \in Extract => stage[x] # "done")
      BY <1>1, Kinds DEF Asked, Dispatched
    <2>2. StageOK' /\ DOMAIN stage' = Proc /\ faults' \in 0..MaxFaults
      BY <1>1, <1>s, <2>1, StaysOK, Moves, FaultCounts DEF Asked, MatchStages
    <2>3. Settled
      BY <1>1, <2>1, OthersSettle DEF Asked
    <2>4. QED
      BY <1>1, <2>2, <2>3, KeepsTypes DEF Asked, mappings
  <1>2. ASSUME NEW e \in Extract, Parks(e) \/ AgentFails(e)
        PROVE  TypeInv'
    <2>1. PICK to \in {"needs_input", "failed"} : Goes(e, to)
      BY <1>2 DEF Parks, AgentFails
    <2>2. e \in Proc /\ stage[e] # "done"
      BY <1>2, Kinds DEF Parks, AgentFails
    <2>3. StageOK' /\ DOMAIN stage' = Proc
      BY <1>s, <2>1, <2>2, StaysOK, Moves
    <2>4. faults' \in 0..MaxFaults
      BY <1>2, FaultCounts DEF Parks, AgentFails
    <2>5. Settled
      BY <1>2, <2>1, <2>2, OthersSettle DEF Parks, AgentFails
    <2>6. QED
      BY <1>2, <2>3, <2>4, <2>5, KeepsTypes DEF Parks, AgentFails, mappings
  <1>3. ASSUME NEW e \in Extract, Reads(e)
        PROVE  TypeInv'
    <2>1. e \in Proc /\ Goes(e, "read") /\ stage[e] # "done"
      BY <1>3, Kinds DEF Reads
    <2>2. StageOK' /\ DOMAIN stage' = Proc /\ faults' \in 0..MaxFaults
      BY <1>3, <1>s, <2>1, StaysOK, Moves, FaultCounts DEF Reads
    <2>3. PICK found \in Answers : answer' = [answer EXCEPT ![e] = found]
      BY <1>3 DEF Reads
    <2>4. IsAnswer(found)
      BY AnswersAre DEF TypeInv
    <2>5. ExistingKeys \in SUBSET Range(Key)
      BY RowFacts DEF ExistingKeys, Range, Text
    <2>6. known' = [known EXCEPT ![e] = ExistingKeys]
      BY <1>3 DEF Reads
    <2>7. Settled
      BY <2>1, <2>3, <2>6, OthersSettle DEF TypeInv
    <2>8. UNCHANGED <<solicitation, rows, matches, judging, erased, page, before>>
      BY <1>3 DEF Reads, mappings
    <2>9. QED
      BY <2>2, <2>3, <2>4, <2>5, <2>6, <2>7, <2>8, ReadTypes
  <1>4. ASSUME NEW e \in Extract, Files(e)
        PROVE  TypeInv'
    BY <1>4, FileTypes
  <1>5. ASSUME NEW e \in Extract, Lost(e)
        PROVE  TypeInv'
    <2>1. e \in Proc /\ Goes(e, "queued") /\ stage[e] # "done"
      BY <1>5, Kinds DEF Lost
    <2>2. StageOK' /\ DOMAIN stage' = Proc /\ faults' \in 0..MaxFaults
      BY <1>5, <1>s, <2>1, StaysOK, Moves, FaultCounts DEF Lost
    <2>3. answer' = [answer EXCEPT ![e] = <<>>] /\ known' = [known EXCEPT ![e] = {}]
          /\ UNCHANGED <<judging, erased>>
      BY <1>5 DEF Lost
    <2>4. Settled
      BY <2>1, <2>3, OthersSettle DEF TypeInv
    <2>5. UNCHANGED <<solicitation, rows, matches, page, before>>
      BY <1>5 DEF Lost
    <2>6. QED
      BY <2>2, <2>3, <2>4, <2>5, EmptyAnswer, ReadTypes
  <1>6. ASSUME NEW m \in Match, Lost(m)
        PROVE  TypeInv'
    <2>1. m \in Proc /\ m \notin Extract /\ Goes(m, "queued") /\ Closed(m)
      BY <1>6, Kinds DEF Lost
    <2>2. StageOK' /\ DOMAIN stage' = Proc /\ faults' \in 0..MaxFaults
      BY <1>6, <1>s, <2>1, StaysOK, Moves, FaultCounts DEF Lost, MatchStages
    <2>3. UNCHANGED <<solicitation, answer, known, rows, matches, page, before>>
      BY <1>6, <2>1 DEF Lost
    <2>4. Settled
      BY <2>1, <2>3, OthersSettle
    <2>5. /\ DOMAIN judging' = Match /\ \A n \in Match : judging'[n] \subseteq rows
          /\ DOMAIN erased' = Match
          /\ \A n \in Match : \A mt \in erased'[n] : mt.row \in rows /\ mt.by \in Match
      BY <2>1, MappingHolds
    <2>6. QED
      BY <2>2, <2>3, <2>4, <2>5, MappingTypes DEF TypeInv, TypeOK
  <1>7. ASSUME NEW m \in Match, MapStep(m)
        PROVE  TypeInv'
    <2>1. PICK to \in MatchStages \ {"idle"} : Goes(m, to)
      BY <1>7, MapSteps
    <2>2. m \in Proc /\ m \notin Extract
      BY Kinds
    <2>3. StageOK' /\ DOMAIN stage' = Proc
      BY <1>s, <2>1, <2>2, StaysOK, Moves
    <2>4. faults' \in 0..MaxFaults /\ UNCHANGED <<solicitation, answer, known, rows, page, before>>
      BY <1>7, FaultCounts, MapSteps
    <2>5. Settled
      BY <2>1, <2>2, <2>4, OthersSettle
    <2>6. CASE JudgeBegins(m) \/ Erases(m) \/ EraseEnds(m)
      <3>1. matches' = matches
        BY <2>6 DEF JudgeBegins, Erases, EraseEnds, mappings
      <3>2. /\ DOMAIN judging' = Match /\ \A n \in Match : judging'[n] \subseteq rows
            /\ DOMAIN erased' = Match
            /\ \A n \in Match : \A mt \in erased'[n] : mt.row \in rows /\ mt.by \in Match
        BY <2>6, MappingHolds
      <3>3. QED
        BY <2>3, <2>4, <2>5, <3>1, <3>2, MappingTypes DEF TypeInv, TypeOK
    <2>7. CASE JudgeCommits(m) \/ JudgeFails(m)
      <3>1. PICK judged \in SUBSET judging[m] : \E verdicts \in [judged -> Verdict] :
               Judges(m, verdicts)
        BY <2>7, Judgment
      <3>2. PICK verdicts \in [judged -> Verdict] : Judges(m, verdicts)
        BY <3>1
      <3>3. Closed(m) /\ judging[m] \subseteq rows
        BY <3>2 DEF Judges, TypeInv, TypeOK
      <3>4. /\ DOMAIN judging' = Match /\ \A n \in Match : judging'[n] \subseteq rows
            /\ DOMAIN erased' = Match
            /\ \A n \in Match : \A mt \in erased'[n] : mt.row \in rows /\ mt.by \in Match
        BY <3>3, MappingHolds
      <3>5. matches' = (matches \ erased[m]) \cup
                       {[row |-> row, by |-> m, status |-> verdicts[row]] : row \in judged}
        BY <3>2 DEF Judges
      <3>6. \A mt \in matches' : mt.row \in rows /\ mt.by \in Match /\ mt.status \in Verdict
        BY <3>3, <3>5 DEF TypeInv, TypeOK
      <3>7. QED
        BY <2>3, <2>4, <2>5, <3>4, <3>6, MappingTypes
    <2>8. QED
      BY <1>7, <2>6, <2>7 DEF MapStep
  <1>8. ASSUME NEW v \in View, PageLists(v) \/ MatrixLists(v) \/ PageServed(v)
        PROVE  TypeInv'
    <2>1. PICK to \in {"listed", "matrix", "served"} : Goes(v, to)
      BY <1>8 DEF PageLists, MatrixLists, PageServed
    <2>2. v \in Proc /\ v \notin Extract
      BY Kinds
    <2>3. StageOK' /\ DOMAIN stage' = Proc
      BY <1>s, <2>1, <2>2, StaysOK, Moves
    <2>4. UNCHANGED <<solicitation, answer, known, rows, matches, judging, erased, faults>>
      BY <1>8 DEF PageLists, MatrixLists, PageServed, mappings
    <2>5. Settled
      BY <2>1, <2>2, <2>4, OthersSettle
    <2>6. DOMAIN page' = View /\ DOMAIN before' = View
      BY <1>8 DEF PageLists, MatrixLists, PageServed, TypeInv
    <2>7. \A w \in View : PageOf(page'[w])
      BY <1>8, PageReads
    <2>8. QED
      BY <2>3, <2>4, <2>5, <2>6, <2>7, ViewTypes
  <1>9. ASSUME UNCHANGED vars
        PROVE  TypeInv'
    <2>1. Settled
      BY <1>9 DEF vars, Settled
    <2>2. QED
      BY <1>9, <1>s, <2>1, KeepsTypes, FaultCounts DEF vars, StageOK
  <1>10. QED
    BY <1>1, <1>2, <1>3, <1>4, <1>5, <1>6, <1>7, <1>8, <1>9 DEF Next, Over, MapStep

-----------------------------------------------------------------------------
\* Extraction

\* A run that has read knows only keys of rows, and those of all rows but of the
\* runs that have filed since.
ReadsRows ==
    \A e \in Extract : stage[e] = "read" =>
        /\ known[e] \subseteq ExistingKeys
        /\ \A row \in rows : KeyOf(row) \in known[e] \/ {row.by, e} \in raced

ExtractInv == ReadsRows /\ RepeatedOnlyByOverlap /\ ExtractedIsKept

LEMMA InitExtract ==
    ASSUME RequirementAssumption, Init
    PROVE  ExtractInv
  <1>1. rows = {} /\ \A e \in Extract : stage[e] = "idle"
    BY DEF Init
  <1>2. QED
    BY <1>1 DEF ExtractInv, ReadsRows, RepeatedOnlyByOverlap, ExtractedIsKept

\* A step that neither reads nor files keeps it.
LEMMA QuietExtract ==
    ASSUME ExtractInv, UNCHANGED <<rows, raced>>,
           \A e \in Extract :
              stage'[e] \in {"read", "done"} =>
                 stage'[e] = stage[e] /\ answer'[e] = answer[e] /\ known'[e] = known[e]
    PROVE  ExtractInv'
  <1>1. ExistingKeys' = ExistingKeys
    BY DEF ExistingKeys
  <1>2. \A row : KeyOf(row)' = KeyOf(row)
    BY DEF KeyOf
  <1>3. ReadsRows'
    BY <1>1, <1>2 DEF ExtractInv, ReadsRows
  <1>4. RepeatedOnlyByOverlap'
    BY <1>2 DEF ExtractInv, RepeatedOnlyByOverlap
  <1>5. ExtractedIsKept'
    BY <1>2 DEF ExtractInv, ExtractedIsKept
  <1>6. QED
    BY <1>3, <1>4, <1>5 DEF ExtractInv

\* So does any step that puts a process where an extraction has neither.
LEMMA QuietGoes ==
    ASSUME ExtractInv, TypeInv, NEW x \in Proc, NEW to, Goes(x, to),
           x \in Extract => to \notin {"read", "done"},
           UNCHANGED <<rows, raced>>,
           \A e \in Extract \ {x} : answer'[e] = answer[e] /\ known'[e] = known[e]
    PROVE  ExtractInv'
  <1>1. stage'[x] = to /\ \A y \in Proc \ {x} : stage'[y] = stage[y]
    BY Moves DEF TypeInv
  <1>2. \A e \in Extract : e \in Proc
    BY DEF Proc
  <1>3. QED
    BY <1>1, <1>2, QuietExtract

LEMMA ReadsKeep ==
    ASSUME RequirementAssumption, TypeInv, ExtractInv, NEW e \in Extract, Reads(e)
    PROVE  ExtractInv'
  <1>1. e \in Proc /\ Goes(e, "read")
    BY Kinds DEF Reads
  <1>2. stage'[e] = "read" /\ \A f \in Extract \ {e} : stage'[f] = stage[f]
    BY <1>1, Moves, Kinds DEF TypeInv
  <1>3. known'[e] = ExistingKeys /\ \A f \in Extract \ {e} : known'[f] = known[f]
    BY DEF Reads, TypeInv
  <1>4. \A f \in Extract \ {e} : answer'[f] = answer[f]
    BY DEF Reads, TypeInv
  <1>5. rows' = rows /\ raced' = raced
    BY DEF Reads
  <1>6. ExistingKeys' = ExistingKeys /\ \A row : KeyOf(row)' = KeyOf(row)
    BY <1>5 DEF ExistingKeys, KeyOf
  <1>7. \A row \in rows : KeyOf(row) \in ExistingKeys
    BY DEF KeyOf, ExistingKeys
  <1>8. ReadsRows'
    BY <1>2, <1>3, <1>5, <1>6, <1>7 DEF ExtractInv, ReadsRows
  <1>9. RepeatedOnlyByOverlap'
    BY <1>5, <1>6 DEF ExtractInv, RepeatedOnlyByOverlap
  <1>10. ExtractedIsKept'
    BY <1>2, <1>4, <1>5, <1>6 DEF ExtractInv, ExtractedIsKept
  <1>11. QED
    BY <1>8, <1>9, <1>10 DEF ExtractInv

\* A run files: what it adds was read by nobody who is about to file, and what
\* it passes over is there.
LEMMA FilesKeep ==
    ASSUME RequirementAssumption, TypeInv, ExtractInv, NEW e \in Extract, Files(e)
    PROVE  ExtractInv'
  <1>1. e \in Proc /\ Goes(e, "done") /\ stage[e] = "read" /\ IsAnswer(answer[e])
    BY Kinds DEF Files, TypeInv
  <1>2. stage'[e] = "done" /\ \A f \in Extract \ {e} : stage'[f] = stage[f]
    BY <1>1, Moves, Kinds DEF TypeInv
  <1>3. rows' = rows \cup Inserted(e) /\ answer' = answer /\ known' = known
    BY DEF Files
  <1>4. raced \subseteq raced'
        /\ \A f \in Extract \ {e} : stage[f] = "read" => {e, f} \in raced'
    BY DEF Files
  <1>5. \A row : KeyOf(row)' = KeyOf(row)
    BY DEF KeyOf
  <1>6. \A row \in Inserted(e) : row.by = e /\ KeyOf(row) \notin known[e]
    BY DEF Inserted, Added, KeyOf
  <1>7. ExistingKeys \subseteq ExistingKeys'
    BY <1>3 DEF ExistingKeys
  <1>8. ReadsRows'
    <2> SUFFICES ASSUME NEW f \in Extract, stage'[f] = "read"
                 PROVE  /\ known'[f] \subseteq ExistingKeys'
                        /\ \A row \in rows' : KeyOf(row)' \in known'[f] \/ {row.by, f} \in raced'
      BY DEF ReadsRows
    <2>1. f # e /\ stage[f] = "read"
      BY <1>2
    <2>2. known[f] \subseteq ExistingKeys
          /\ \A row \in rows : KeyOf(row) \in known[f] \/ {row.by, f} \in raced
      BY <2>1 DEF ExtractInv, ReadsRows
    <2>3. {e, f} \in raced'
      BY <1>4, <2>1
    <2>4. QED
      BY <1>3, <1>4, <1>5, <1>6, <1>7, <2>2, <2>3
  <1>9. \A row \in rows : KeyOf(row) \in known[e] \/ {row.by, e} \in raced
    BY <1>1 DEF ExtractInv, ReadsRows
  <1>10. RepeatedOnlyByOverlap'
    <2> SUFFICES ASSUME NEW r \in rows', NEW s \in rows', r # s, KeyOf(r) = KeyOf(s)
                 PROVE  {r.by, s.by} \in raced'
      BY <1>5 DEF RepeatedOnlyByOverlap
    <2>1. CASE r \in rows /\ s \in rows
      BY <1>4, <2>1 DEF ExtractInv, RepeatedOnlyByOverlap
    <2>2. CASE r \in rows /\ s \in Inserted(e)
      BY <1>4, <1>6, <1>9, <2>2
    <2>3. CASE r \in Inserted(e) /\ s \in rows
      <3>1. {s.by, e} \in raced'
        BY <1>4, <1>6, <1>9, <2>3
      <3>2. {s.by, e} = {r.by, s.by}
        BY <1>6, <2>3
      <3>3. QED
        BY <3>1, <3>2
    <2>4. CASE r \in Inserted(e) /\ s \in Inserted(e)
      BY <1>1, <2>4, AddedDiffer
    <2>5. QED
      BY <1>3, <2>1, <2>2, <2>3, <2>4
  <1>11. ExtractedIsKept'
    <2> SUFFICES ASSUME NEW f \in Extract, stage'[f] = "done", NEW i \in DOMAIN answer[f],
                        Key[answer[f][i].text] # NoKey
                 PROVE  \E row \in rows' : KeyOf(row) = Key[answer[f][i].text]
      BY <1>3, <1>5 DEF ExtractedIsKept
    <2>1. CASE f # e
      BY <1>2, <1>3, <2>1 DEF ExtractInv, ExtractedIsKept
    <2>2. CASE f = e /\ Key[answer[e][i].text] \in known[e]
      <3>1. Key[answer[e][i].text] \in ExistingKeys
        BY <1>1, <2>2 DEF ExtractInv, ReadsRows
      <3>2. QED
        BY <1>3, <2>2, <3>1 DEF ExistingKeys, KeyOf
    <2>3. CASE f = e /\ Key[answer[e][i].text] \notin known[e]
      <3>1. \E row \in Inserted(e) : KeyOf(row) = Key[answer[e][i].text]
        BY <1>1, <2>3, KeysAreFiled
      <3>2. QED
        BY <1>3, <2>3, <3>1
    <2>4. QED
      BY <2>1, <2>2, <2>3
  <1>12. QED
    BY <1>8, <1>10, <1>11 DEF ExtractInv

LEMMA NextExtract ==
    ASSUME RequirementAssumption, TypeInv, ExtractInv, [Next]_vars
    PROVE  ExtractInv'
  <1>1. ASSUME NEW x \in Extract \cup Match, Asked(x)
        PROVE  ExtractInv'
    BY <1>1, Kinds, QuietGoes DEF Asked, Dispatched
  <1>2. ASSUME NEW e \in Extract, Parks(e) \/ AgentFails(e)
        PROVE  ExtractInv'
    <2>1. PICK to \in {"needs_input", "failed"} : Goes(e, to)
      BY <1>2 DEF Parks, AgentFails
    <2>2. QED
      BY <1>2, <2>1, Kinds, QuietGoes DEF Parks, AgentFails
  <1>3. ASSUME NEW e \in Extract, Reads(e)
        PROVE  ExtractInv'
    BY <1>3, ReadsKeep
  <1>4. ASSUME NEW e \in Extract, Files(e)
        PROVE  ExtractInv'
    BY <1>4, FilesKeep
  <1>5. ASSUME NEW x \in Extract \cup Match, Lost(x)
        PROVE  ExtractInv'
    <2>1. x \in Proc /\ Goes(x, "queued") /\ UNCHANGED <<rows, raced>>
      BY <1>5, Kinds DEF Lost
    <2>2. \A e \in Extract \ {x} : answer'[e] = answer[e] /\ known'[e] = known[e]
      BY <1>5 DEF Lost, TypeInv
    <2>3. QED
      BY <2>1, <2>2, QuietGoes
  <1>6. ASSUME NEW m \in Match, MapStep(m)
        PROVE  ExtractInv'
    <2>1. PICK to \in MatchStages : Goes(m, to)
      BY <1>6, MapSteps
    <2>2. QED
      BY <1>6, <2>1, MapSteps, Kinds, QuietGoes
  <1>7. ASSUME NEW v \in View, PageLists(v) \/ MatrixLists(v) \/ PageServed(v)
        PROVE  ExtractInv'
    <2>1. PICK to : Goes(v, to)
      BY <1>7 DEF PageLists, MatrixLists, PageServed
    <2>2. QED
      BY <1>7, <2>1, Kinds, QuietGoes DEF PageLists, MatrixLists, PageServed
  <1>8. ASSUME UNCHANGED vars
        PROVE  ExtractInv'
    BY <1>8, QuietExtract DEF vars
  <1>9. QED
    BY <1>1, <1>2, <1>3, <1>4, <1>5, <1>6, <1>7, <1>8 DEF Next, Over, MapStep

-----------------------------------------------------------------------------
\* Verdicts and pages

\* Mappings at work at once know of each other; a mapping gives a verdict to every
\* row that has one, but for those of mappings it was at work with.
JointInv ==
    \A m \in Match : Mapping(m) =>
        /\ \A n \in Match \ {m} : Mapping(n) => {m, n} \in joint
        /\ \A mt \in matches \cup erased[m] :
              mt.row \in judging[m] \/ {m, mt.by} \in joint

\* What a page has read so far.  Without a failure or an overlap verdicts are only
\* renewed.
PageInv ==
    \A v \in View :
        /\ stage[v] = "listed" => page[v].listed \subseteq rows
        /\ stage[v] \in {"matrix", "served"} =>
              /\ page[v].listed \subseteq page[v].matrix
              /\ IsFiniteSet(page[v].matrix)
        /\ faults = 0 /\ joint = {} /\ stage[v] \in {"listed", "matrix"} =>
              before[v] \subseteq Judged
        /\ faults = 0 /\ joint = {} /\ stage[v] = "served" =>
              before[v] \subseteq DOMAIN page[v].verdicts

LEMMA InitPages ==
    ASSUME RequirementAssumption, Init
    PROVE  JointInv /\ PageInv
  <1>1. \A x \in Proc : stage[x] = "idle"
    BY DEF Init, Proc
  <1>2. QED
    BY <1>1, Kinds DEF JointInv, Mapping, PageInv

\* A step that begins no mapping, commits none and loses none.
LEMMA QuietJoint ==
    ASSUME JointInv, matches' = matches, joint' = joint,
           \A m \in Match : Mapping(m)' =>
              Mapping(m) /\ judging'[m] = judging[m] /\ erased'[m] \subseteq erased[m] \cup matches
    PROVE  JointInv'
  BY DEF JointInv

LEMMA MappingMoves ==
    ASSUME RequirementAssumption, TypeInv, NEW m \in Match, NEW to, Goes(m, to)
    PROVE  /\ Mapping(m)' <=> to \in {"loaded", "erasing", "judging"}
           /\ \A n \in Match \ {m} : Mapping(n)' <=> Mapping(n)
  <1>1. stage'[m] = to /\ \A n \in Match \ {m} : stage'[n] = stage[n]
    BY Moves, Kinds DEF TypeInv
  <1>2. QED
    BY <1>1 DEF Mapping

\* A mapping that begins finds every row, and has met who is at work.
LEMMA BeginsJoint ==
    ASSUME RequirementAssumption, TypeInv, JointInv, NEW m \in Match, JudgeBegins(m)
    PROVE  JointInv'
  <1>1. Goes(m, "loaded") /\ stage[m] = "queued" /\ matches' = matches
        /\ joint' = joint \cup {{m, n} : n \in {k \in Match \ {m} : Mapping(k)}}
    BY DEF JudgeBegins
  <1>2. \A n \in Match \ {m} : /\ Mapping(n)' <=> Mapping(n)
                               /\ judging'[n] = judging[n] /\ erased'[n] = erased[n]
    BY <1>1, MappingMoves, MappingReads
  <1>3. judging'[m] = rows /\ erased'[m] = erased[m]
    BY MappingReads
  <1>4. \A n \in Match \ {m} : Mapping(n) => {m, n} \in joint' /\ {n, m} \in joint'
    BY <1>1
  <1>5. \A mt \in matches \cup erased[m] : mt.row \in rows
    BY DEF TypeInv, TypeOK
  <1>6. ASSUME NEW n \in Match, Mapping(n)'
        PROVE  /\ \A k \in Match \ {n} : Mapping(k)' => {n, k} \in joint'
               /\ \A mt \in matches' \cup erased'[n] :
                     mt.row \in judging'[n] \/ {n, mt.by} \in joint'
    <2>1. CASE n = m
      BY <1>1, <1>2, <1>3, <1>4, <1>5, <2>1
    <2>2. CASE n # m
      <3>1. Mapping(n)
        BY <1>2, <1>6, <2>2
      <3>2. \A k \in Match \ {n} : Mapping(k)' => {n, k} \in joint'
        BY <1>1, <1>2, <1>4, <2>2, <3>1 DEF JointInv
      <3>3. \A mt \in matches \cup erased[n] : mt.row \in judging[n] \/ {n, mt.by} \in joint
        BY <3>1 DEF JointInv
      <3>4. QED
        BY <1>1, <1>2, <2>2, <3>2, <3>3
    <2>3. QED
      BY <2>1, <2>2
  <1>7. QED
    BY <1>6 DEF JointInv

\* A mapping that ends adds matches of its own, and who is at work has met it.
LEMMA EndsJoint ==
    ASSUME RequirementAssumption, TypeInv, JointInv, NEW m \in Match,
           JudgeCommits(m) \/ JudgeFails(m)
    PROVE  JointInv'
  <1>1. PICK to \in {"done", "failed"} : Goes(m, to) /\ stage[m] = "judging"
    BY DEF JudgeCommits, JudgeFails
  <1>2. PICK judged \in SUBSET judging[m] : \E verdicts \in [judged -> Verdict] :
           Judges(m, verdicts)
    BY Judgment
  <1>3. PICK verdicts \in [judged -> Verdict] : Judges(m, verdicts)
    BY <1>2
  <1>4. Closed(m) /\ joint' = joint
    BY <1>3 DEF Judges
  <1>5. ~Mapping(m)' /\ Mapping(m)
        /\ \A n \in Match \ {m} : /\ Mapping(n)' <=> Mapping(n)
                                  /\ judging'[n] = judging[n] /\ erased'[n] = erased[n]
    BY <1>1, <1>4, MappingMoves, MappingReads DEF Mapping
  <1>6. \A mt \in matches' : mt \in matches \/ mt.by = m
    BY <1>3 DEF Judges
  <1>7. ASSUME NEW n \in Match, Mapping(n)'
        PROVE  /\ \A k \in Match \ {n} : Mapping(k)' => {n, k} \in joint'
               /\ \A mt \in matches' \cup erased'[n] :
                     mt.row \in judging'[n] \/ {n, mt.by} \in joint'
    <2>1. n # m /\ Mapping(n)
      BY <1>5, <1>7
    <2>2. {n, m} \in joint
      BY <1>5, <2>1 DEF JointInv
    <2>3. \A k \in Match \ {n} : Mapping(k)' => {n, k} \in joint'
      BY <1>4, <1>5, <2>1 DEF JointInv
    <2>4. \A mt \in matches \cup erased[n] : mt.row \in judging[n] \/ {n, mt.by} \in joint
      BY <2>1 DEF JointInv
    <2>5. QED
      BY <1>4, <1>5, <1>6, <2>1, <2>2, <2>3, <2>4
  <1>8. QED
    BY <1>7 DEF JointInv

LEMMA NextJoint ==
    ASSUME RequirementAssumption, TypeInv, JointInv, [Next]_vars
    PROVE  JointInv'
  <1>1. ASSUME NEW m \in Match, JudgeBegins(m)
        PROVE  JointInv'
    BY <1>1, BeginsJoint
  <1>2. ASSUME NEW m \in Match, Erases(m) \/ EraseEnds(m)
        PROVE  JointInv'
    <2>1. PICK to \in {"erasing", "judging"} : Goes(m, to)
      BY <1>2 DEF Erases, EraseEnds
    <2>2. stage[m] \in {"loaded", "erasing"} /\ matches' = matches /\ joint' = joint
      BY <1>2 DEF Erases, EraseEnds, mappings
    <2>3. /\ judging'[m] = judging[m] /\ erased'[m] \subseteq erased[m] \cup matches
          /\ \A n \in Match \ {m} : /\ Mapping(n)' <=> Mapping(n)
                                    /\ judging'[n] = judging[n] /\ erased'[n] = erased[n]
      BY <1>2, <2>1, MappingMoves, MappingReads
    <2>4. Mapping(m)
      BY <2>2 DEF Mapping
    <2>5. QED
      BY <2>2, <2>3, <2>4, QuietJoint
  <1>3. ASSUME NEW m \in Match, JudgeCommits(m) \/ JudgeFails(m)
        PROVE  JointInv'
    BY <1>3, EndsJoint
  <1>4. ASSUME NEW m \in Match, Lost(m)
        PROVE  JointInv'
    <2>1. Goes(m, "queued") /\ Closed(m) /\ matches' = matches /\ joint' = joint
      BY <1>4, Kinds DEF Lost
    <2>2. ~Mapping(m)' /\ \A n \in Match \ {m} : /\ Mapping(n)' <=> Mapping(n)
                                                 /\ judging'[n] = judging[n]
                                                 /\ erased'[n] = erased[n]
      BY <2>1, MappingMoves, MappingReads
    <2>3. QED
      BY <2>1, <2>2, QuietJoint
  <1>5. ASSUME NEW x \in Proc, NEW to, Goes(x, to), UNCHANGED mappings,
               x \in Match => to = "queued"
        PROVE  JointInv'
    <2>1. stage'[x] = to /\ \A y \in Proc \ {x} : stage'[y] = stage[y]
      BY <1>5, Moves DEF TypeInv
    <2>2. \A m \in Match : Mapping(m)' => Mapping(m)
      BY <1>5, <2>1, Kinds DEF Mapping
    <2>3. QED
      BY <1>5, <2>2, QuietJoint DEF mappings
  <1>6. ASSUME NEW x \in Extract \cup Match, Asked(x)
        PROVE  JointInv'
    BY <1>5, <1>6, Kinds DEF Asked, Dispatched
  <1>7. ASSUME NEW e \in Extract, Parks(e) \/ Reads(e) \/ Files(e) \/ AgentFails(e) \/ Lost(e)
        PROVE  JointInv'
    <2>1. PICK to : Goes(e, to)
      BY <1>7 DEF Parks, Reads, Files, AgentFails, Lost
    <2>2. UNCHANGED mappings
      BY <1>7 DEF Parks, Reads, Files, AgentFails, Lost, mappings
    <2>3. QED
      BY <1>5, <2>1, <2>2, Kinds
  <1>8. ASSUME NEW v \in View, PageLists(v) \/ MatrixLists(v) \/ PageServed(v)
        PROVE  JointInv'
    <2>1. PICK to : Goes(v, to)
      BY <1>8 DEF PageLists, MatrixLists, PageServed
    <2>2. UNCHANGED mappings
      BY <1>8 DEF PageLists, MatrixLists, PageServed
    <2>3. QED
      BY <1>5, <2>1, <2>2, Kinds
  <1>9. ASSUME UNCHANGED vars
        PROVE  JointInv'
    BY <1>9, QuietJoint DEF vars, Mapping
  <1>10. QED
    BY <1>1, <1>2, <1>3, <1>4, <1>6, <1>7, <1>8, <1>9 DEF Next, Over

\* A row's verdict is taken away by a mapping that fails, or by one that was at
\* work with all that gave it.
LEMMA VerdictsKept ==
    ASSUME RequirementAssumption, TypeInv, JointInv, [Next]_vars, NEW row \in Judged,
           row \notin Judged'
    PROVE  \E m \in Match :
              /\ stage[m] = "judging"
              /\ \/ stage'[m] = "failed" /\ faults' > 0
                 \/ /\ joint' # {}
                    /\ \A mt \in matches : mt.row = row => {m, mt.by} \in joint
  <1>1. ASSUME NEW m \in Match, JudgeCommits(m)
        PROVE  /\ stage[m] = "judging" /\ joint' # {}
               /\ \A mt \in matches : mt.row = row => {m, mt.by} \in joint
    <2>1. PICK verdicts \in [judging[m] -> Verdict] : Judges(m, verdicts)
      BY <1>1 DEF JudgeCommits, Rejudged
    <2>2. /\ matches' = (matches \ erased[m]) \cup
                        {[row |-> r, by |-> m, status |-> verdicts[r]] : r \in judging[m]}
          /\ joint' = joint
      BY <2>1 DEF Judges
    <2>3. row \notin judging[m]
      <3>1. SUFFICES ASSUME row \in judging[m]
                     PROVE  FALSE
        OBVIOUS
      <3>2. [row |-> row, by |-> m, status |-> verdicts[row]] \in matches'
        BY <2>2, <3>1
      <3>3. QED
        BY <3>2 DEF Judged
    <2>4. stage[m] = "judging" /\ Mapping(m)
      BY <1>1 DEF JudgeCommits, Mapping
    <2>5. \A mt \in matches : mt.row = row => {m, mt.by} \in joint
      BY <2>3, <2>4 DEF JointInv
    <2>6. \E mt \in matches : mt.row = row
      BY DEF Judged
    <2>7. QED
      BY <2>2, <2>4, <2>5, <2>6
  <1>2. ASSUME NEW m \in Match, JudgeFails(m)
        PROVE  stage[m] = "judging" /\ stage'[m] = "failed" /\ faults' > 0
    <2>1. Goes(m, "failed") /\ stage[m] = "judging" /\ faults' = faults + 1
      BY <1>2 DEF JudgeFails, Fault
    <2>2. stage'[m] = "failed"
      BY <2>1, Kinds, Moves DEF TypeInv
    <2>3. faults \in Nat
      BY DEF TypeInv, TypeOK, RequirementAssumption
    <2>4. QED
      BY <2>1, <2>2, <2>3
  <1>3. matches' # matches
    BY DEF Judged
  <1>4. QED
    BY <1>1, <1>2, <1>3
       DEF Next, Over, vars, mappings, Asked, Lost, Parks, Reads, Files, AgentFails, JudgeBegins,
           Erases, EraseEnds, PageLists, MatrixLists, PageServed

\* Rows are never taken away, and faults are counted.
LEMMA Grows ==
    ASSUME RequirementAssumption, TypeInv, [Next]_vars
    PROVE  rows \subseteq rows' /\ (faults' = 0 => faults = 0) /\ (joint' = {} => joint = {})
  <1>1. faults \in Nat
    BY DEF TypeInv, TypeOK, RequirementAssumption
  <1>2. faults' = faults \/ faults' = faults + 1
    BY DEF Next, Over, vars, Fault, Asked, Lost, Parks, Reads, Files, AgentFails, JudgeBegins,
           Erases, EraseEnds, JudgeCommits, JudgeFails, PageLists, MatrixLists, PageServed
  <1>3. rows \subseteq rows' /\ joint \subseteq joint'
    BY DEF Next, Over, vars, mappings, Asked, Lost, Parks, Reads, Files, AgentFails, JudgeBegins,
           Erases, EraseEnds, JudgeCommits, JudgeFails, Judges, PageLists, MatrixLists, PageServed
  <1>4. QED
    BY <1>1, <1>2, <1>3

\* What holds of one page, and that it is kept by what is not a reading of it.
Undisturbed == faults = 0 /\ joint = {}

PageOK(v) ==
    /\ stage[v] = "listed" => page[v].listed \subseteq rows
    /\ stage[v] \in {"matrix", "served"} =>
          /\ page[v].listed \subseteq page[v].matrix
          /\ IsFiniteSet(page[v].matrix)
    /\ Undisturbed /\ stage[v] \in {"listed", "matrix"} => before[v] \subseteq Judged
    /\ stage[v] = "served" =>
          (Undisturbed => before[v] \subseteq DOMAIN page[v].verdicts)

LEMMA QuietPage ==
    ASSUME NEW v \in View, PageOK(v), rows \subseteq rows', Undisturbed' => Undisturbed,
           Undisturbed' => Judged \subseteq Judged',
           stage'[v] = stage[v], page'[v] = page[v], before'[v] = before[v]
    PROVE  PageOK(v)'
  BY DEF PageOK

LEMMA NextPages ==
    ASSUME RequirementAssumption, TypeInv, JointInv, PageInv, [Next]_vars
    PROVE  PageInv'
  <1> USE DEF PageOK, Undisturbed
  <1>a. \A v \in View : PageOK(v)
    BY DEF PageInv
  <1> SUFFICES ASSUME NEW v \in View
               PROVE  PageOK(v)'
    BY DEF PageInv
  <1>1. rows \subseteq rows' /\ (Undisturbed' => Undisturbed)
    BY Grows
  <1>2. Undisturbed' => Judged \subseteq Judged'
    BY VerdictsKept
  <1> HIDE DEF PageOK, Undisturbed
  <1>3. CASE stage'[v] = stage[v] /\ page'[v] = page[v] /\ before'[v] = before[v]
    BY <1>1, <1>2, <1>3, <1>a, QuietPage
  <1>4. CASE PageLists(v)
    <2>1. stage'[v] = "listed" /\ before'[v] = Judged /\ rows' = rows /\ Judged' = Judged
      BY <1>4, Kinds, Moves DEF PageLists, TypeInv, mappings, Judged
    <2>2. page'[v].listed = rows
      BY <1>4, PageReads
    <2>3. QED
      BY <2>1, <2>2 DEF PageOK
  <1>5. CASE MatrixLists(v)
    <2>1. stage'[v] = "matrix" /\ stage[v] = "listed" /\ before' = before /\ Judged' = Judged
      BY <1>5, Kinds, Moves DEF MatrixLists, TypeInv, mappings, Judged
    <2>2. page'[v].listed = page[v].listed /\ page'[v].matrix = rows
      BY <1>5, <2>1, PageReads DEF PageLists
    <2>3. IsFiniteSet(rows)
      BY DEF TypeInv
    <2>4. QED
      BY <1>1, <1>a, <2>1, <2>2, <2>3 DEF PageOK
  <1>6. CASE PageServed(v)
    <2>1. stage'[v] = "served" /\ stage[v] = "matrix" /\ before' = before /\ Judged' = Judged
      BY <1>6, Kinds, Moves DEF PageServed, TypeInv, mappings, Judged
    <2>2. /\ page'[v].listed = page[v].listed /\ page'[v].matrix = page[v].matrix
          /\ page'[v].verdicts \in Shown
      BY <1>6, <2>1, PageReads DEF PageLists, MatrixLists
    <2>3. DOMAIN page'[v].verdicts = Judged
      BY <2>2 DEF Shown
    <2>4. QED
      BY <1>1, <1>a, <2>1, <2>2, <2>3 DEF PageOK
  <1>7. ASSUME NEW w \in View \ {v}, PageLists(w) \/ MatrixLists(w) \/ PageServed(w)
        PROVE  PageOK(v)'
    <2>1. PICK to : Goes(w, to)
      BY <1>7 DEF PageLists, MatrixLists, PageServed
    <2>2. stage'[v] = stage[v]
      BY <2>1, Kinds, Moves DEF TypeInv
    <2>3. page'[v] = page[v]
      BY <1>7, PageReads
    <2>4. before'[v] = before[v]
      BY <1>7 DEF PageLists, MatrixLists, PageServed, TypeInv
    <2>5. QED
      BY <1>3, <2>2, <2>3, <2>4
  <1>8. ASSUME NEW x \in Extract \cup Match, NEW to, Goes(x, to), UNCHANGED <<page, before>>
        PROVE  PageOK(v)'
    <2>1. stage'[v] = stage[v]
      BY <1>8, Kinds, Moves DEF TypeInv
    <2>2. QED
      BY <1>3, <1>8, <2>1
  <1>9. ASSUME UNCHANGED vars
        PROVE  PageOK(v)'
    BY <1>3, <1>9 DEF vars
  <1>10. ASSUME NEW m \in Match, MapStep(m)
         PROVE  PageOK(v)'
    BY <1>8, <1>10, MapSteps
  <1>11. QED
    BY <1>4, <1>5, <1>6, <1>7, <1>8, <1>9, <1>10
       DEF Next, Over, Asked, Dispatched, Lost, Parks, Reads, Files, AgentFails, MapStep

\* The summary of a page counts its gaps.
LEMMA SummaryCountsGaps ==
    ASSUME NEW p, IsFiniteSet(p.matrix)
    PROVE  Cardinality(Gaps(p)) = Summary(p)["missing"] + Summary(p)["partial"]
  <1> DEFINE A == {row \in p.matrix : MatrixStatus(p, row) = "missing"}
             B == {row \in p.matrix : MatrixStatus(p, row) = "partial"}
  <1>1. Gaps(p) = A \cup B /\ A \cap B = {}
    BY DEF Gaps
  <1>2. IsFiniteSet(A) /\ IsFiniteSet(B)
    <2>1. A \in SUBSET p.matrix /\ B \in SUBSET p.matrix
      OBVIOUS
    <2> HIDE DEF A, B
    <2>2. QED
      BY <2>1, FS_Subset
  <1>3. Summary(p)["missing"] = Cardinality(A) /\ Summary(p)["partial"] = Cardinality(B)
    BY DEF Summary, Status
  <1> HIDE DEF A, B
  <1>4. Cardinality({}) = 0
    BY FS_EmptySet
  <1>5. Cardinality(A \cup B) = Cardinality(A) + Cardinality(B) - 0
    BY <1>1, <1>2, <1>4, FS_Union
  <1>6. Cardinality(A) \in Nat /\ Cardinality(B) \in Nat
    BY <1>2, FS_CardinalityType
  <1>7. QED
    BY <1>1, <1>3, <1>5, <1>6

LEMMA PagesAgree ==
    ASSUME RequirementAssumption, PageInv
    PROVE  PageAgrees
  <1> SUFFICES ASSUME NEW v \in View, stage[v] = "served"
               PROVE  LET p == page[v] IN
                      /\ p.listed \subseteq p.matrix
                      /\ faults = 0 /\ joint = {} =>
                            \A row \in Gaps(p) : row \in before[v] => row \in DOMAIN p.verdicts
                      /\ Cardinality(Gaps(p)) = Summary(p)["missing"] + Summary(p)["partial"]
    BY DEF PageAgrees
  <1>1. /\ page[v].listed \subseteq page[v].matrix /\ IsFiniteSet(page[v].matrix)
        /\ faults = 0 /\ joint = {} => before[v] \subseteq DOMAIN page[v].verdicts
    BY DEF PageInv
  <1>2. Cardinality(Gaps(page[v])) = Summary(page[v])["missing"] + Summary(page[v])["partial"]
    BY <1>1, SummaryCountsGaps
  <1>3. QED
    BY <1>1, <1>2

-----------------------------------------------------------------------------
\* What the filing promises

IInv == TypeInv /\ ExtractInv /\ JointInv /\ PageInv

LEMMA Inductive == Spec => []IInv
  <1>1. Init => IInv
    BY InitTypes, InitExtract, InitPages, RequirementAssumption DEF IInv
  <1>2. IInv /\ [Next]_vars => IInv'
    BY NextTypes, NextExtract, NextJoint, NextPages, RequirementAssumption DEF IInv
  <1>3. QED
    BY <1>1, <1>2, PTL DEF Spec

\* Every variable has its type, and only rows that were extracted have verdicts.
THEOREM TypeCorrect == Spec => []TypeOK
  <1>1. IInv => TypeOK
    BY DEF IInv, TypeInv
  <1>2. QED
    BY <1>1, Inductive, PTL

\* FR-RE-3: extractions that do not overlap give a requirement one row, however
\* often they are lost and tried again (run_requirement_extraction).
THEOREM NothingRepeated == Spec => []RepeatedOnlyByOverlap
  <1>1. IInv => RepeatedOnlyByOverlap
    BY DEF IInv, ExtractInv
  <1>2. QED
    BY <1>1, Inductive, PTL

\* What a finished extraction has found is in the filing.
THEOREM NothingLost == Spec => []ExtractedIsKept
  <1>1. IInv => ExtractedIsKept
    BY DEF IInv, ExtractInv
  <1>2. QED
    BY <1>1, Inductive, PTL

\* The parts of a page agree, though each is read in a statement of its own and
\* whatever statuses there are (get_filing, build_compliance_matrix, gap_rows, match_summary).
THEOREM PagesConsistent == Spec => []PageAgrees
  <1>1. IInv => PageAgrees
    BY PagesAgree, RequirementAssumption DEF IInv
  <1>2. QED
    BY <1>1, Inductive, PTL

\* A verdict is taken away only by a mapping that fails or that was at work with
\* the one that gave it (map_evidence erases all and renews all, in one
\* transaction, but loads the requirements before it erases).
THEOREM VerdictsStay == Spec => VerdictsOnlyLostByFailure
  <1>1. IInv /\ [Next]_vars =>
           [\A row \in Judged \ Judged' :
               \E m \in Match :
                  /\ stage[m] = "judging"
                  /\ \/ stage'[m] = "failed"
                     \/ \A mt \in matches : mt.row = row => {m, mt.by} \in joint]_vars
    BY VerdictsKept, RequirementAssumption DEF IInv
  <1>2. QED
    BY <1>1, Inductive, PTL DEF Spec, VerdictsOnlyLostByFailure
=============================================================================
