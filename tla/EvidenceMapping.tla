---------------------------- MODULE EvidenceMapping ----------------------------
(***************************************************************************)
(* The evidence of one organization and the verdicts it gives on one       *)
(* filing: runs that map evidence to requirements (services/evidence.py),  *)
(* runs that resolve a gap (services/gaps.py), and the company brain,      *)
(* which replaces all inferred evidence (services/company_brain.py).  It   *)
(* composes the documents whose chunks become evidence with the profile.   *)
(*                                                                         *)
(* Runs are transactions under READ COMMITTED.  A match that was inserted  *)
(* holds a share lock on its item; a deleted item sets the matches that    *)
(* cite it to NULL.                                                        *)
(***************************************************************************)
EXTENDS DocumentIngestion, CompanyProfile

CONSTANTS
    Map,           \* runs of evidence_match for the filing
    Gap,           \* runs of gap_resolution, one requirement each
    Requirement,   \* requirements of the filing
    Answers,       \* statuses an agent may answer: any string goes
    NoItem, NoMatch,
    Crews          \* sets of runs and requests that are active together

Run == Map \cup Gap \cup Brain

\* A row of evidence_items: who inserted it, and the document of its chunk.
Item == [by : Run \cup Patch, of : Doc \cup {NoDoc}]

\* What is stored as a status.  Nothing checks the string that an agent answers:
\* "other" is one that stands for nothing in the code.
Status == {"matched", "partial", "missing", "user_provided", "other"}

\* A row of evidence_matches.
Match == [by : Map \cup Gap, req : Requirement, item : Item \cup {NoItem},
          status : Status]

\* A run or a request is of one kind.
ASSUME EvidenceAssumption ==
    /\ Answers \subseteq Status
    /\ Crews \subseteq SUBSET (Ingest \cup Map \cup Gap \cup Writer)
    /\ Map \cap (Gap \cup Brain \cup Patch) = {} /\ Gap \cap (Brain \cup Patch) = {}
    /\ NoItem \notin Item /\ NoMatch \notin Match

VARIABLES
    crew,       \* who takes part in this behaviour
    items,      \* evidence_items, committed
    matches,    \* evidence_matches, committed
    stage,      \* [Run -> where it is]
    request,    \* [Gap \cap crew -> [req, doc]; doc is NoDoc if a value was entered]
    vault,      \* [Map -> the items it has loaded]
    todo,       \* [Map -> the requirements it has not judged]
    last,       \* [Map -> its match that is not flushed yet]
    fresh,      \* [Run -> its uncommitted items]
    made,       \* [Run -> its uncommitted matches]
    sought,     \* [Run -> <<by, req>> of the matches its DELETE found]
    erased,     \* [Run -> the matches it has deleted]
    doomed,     \* [Brain -> the items it deletes]
    unlinked,   \* history: matches as they were before their item was deleted
    together    \* history: pairs of runs of the filing that were active at once

work == <<vault, todo, last, fresh, made, sought, erased, doomed>>
evidence == <<items, matches, stage, request, work, unlinked, together>>
vars == <<crew, documents, profiles, evidence, faults>>

\* What an owner may supply for a gap: a value, or a document.
Requests == [req : Requirement, doc : Doc \cup {NoDoc}]

Active(x) == stage[x] \notin {"idle", "queued", "done", "failed", "given up"}

Init ==
    /\ IngestionInit /\ ProfileInit
    /\ faults = 0
    /\ crew \in Crews
    /\ items = {} /\ matches = {}
    /\ stage = [x \in Run |-> "queued"]
    /\ request \in [Gap \cap crew -> Requests]
    /\ vault = [m \in Map |-> {}]
    /\ todo = [m \in Map |-> {}]
    /\ last = [m \in Map |-> NoMatch]
    /\ fresh = [x \in Run |-> {}]
    /\ made = [x \in Run |-> {}]
    /\ sought = [x \in Run |-> {}]
    /\ erased = [x \in Run |-> {}]
    /\ doomed = [b \in Brain |-> {}]
    /\ unlinked = {}
    /\ together = {}

UserProvided(item) == item.by \in Gap \cup Patch

Goes(x, to) == stage' = [stage EXCEPT ![x] = to]

Begins(x) ==
    together' = together \cup {{x, y} : y \in {z \in (Map \cup Gap) \ {x} : Active(z)}}

\* The session of x is closed.
Closed(x) ==
    /\ vault' = IF x \in Map THEN [vault EXCEPT ![x] = {}] ELSE vault
    /\ todo' = IF x \in Map THEN [todo EXCEPT ![x] = {}] ELSE todo
    /\ last' = IF x \in Map THEN [last EXCEPT ![x] = NoMatch] ELSE last
    /\ fresh' = [fresh EXCEPT ![x] = {}]
    /\ made' = [made EXCEPT ![x] = {}]
    /\ sought' = [sought EXCEPT ![x] = {}]
    /\ erased' = [erased EXCEPT ![x] = {}]
    /\ doomed' = IF x \in Brain THEN [doomed EXCEPT ![x] = {}] ELSE doomed

\* Items a run is deleting, and matches it has deleted or is setting to NULL.
ItemsLocked(b) == IF stage[b] \in {"deleting", "replaced"} THEN doomed[b] ELSE {}
Citing(b) == {mt \in matches : mt.item \in doomed[b]}
MatchesLocked(x) ==
    erased[x] \cup (IF x \in Brain /\ stage[x] = "replaced" THEN Citing(x) ELSE {})

\* The matches x's DELETE found when it began, as far as they are still there.
Found(x) == {mt \in matches : <<mt.by, mt.req>> \in sought[x]}

\* Items cited by matches that m has flushed.
Cited(m) == {mt.item : mt \in made[m] \ {last[m]}}

LastItem(m) == IF last[m] = NoMatch THEN NoItem ELSE last[m].item

Inferred(item) == ~UserProvided(item)

\* x's next statement waits for y.
Awaits(x, y) ==
    /\ x # y
    /\ \/ x \in Map /\ y \in Brain /\ LastItem(x) \in ItemsLocked(y)
       \/ stage[x] = "erasing" /\ Found(x) \cap MatchesLocked(y) # {}
       \/ x \in Brain /\ stage[x] = "sent" /\ y \in Map
            /\ \E item \in Cited(y) \cap items : Inferred(item)
       \/ x \in Brain /\ stage[x] = "sent" /\ y \in Brain /\ ItemsLocked(y) # {}
       \/ x \in Brain /\ stage[x] = "deleting" /\ Citing(x) \cap MatchesLocked(y) # {}

Free(x) == \A y \in Run : ~Awaits(x, y)

Deadlocked(x) == \E y \in Run : Awaits(x, y) /\ Awaits(y, x)

\* The database or the worker fails: the run is rolled back and tried again.
RollBack(x) ==
    /\ Goes(x, "queued")
    /\ Closed(x)
    /\ IF x \in Brain THEN Undo(x) ELSE UNCHANGED profiles
    /\ UNCHANGED <<crew, documents, items, matches, request, unlinked, together>>

RolledBack(x) ==
    /\ Active(x)
    /\ IF Deadlocked(x) THEN UNCHANGED faults ELSE Fault
    /\ RollBack(x)

-----------------------------------------------------------------------------
\* acquire_evidence and map_evidence

\* A seeded defect: chunks that are evidence already are taken again.
ChunkedNow == {d \in Known : docs[d].chunks # NoText}

\* Documents with chunks of which none is evidence yet.
Acquirable == {d \in Known : docs[d].chunks # NoText /\ \A item \in items : item.of # d}

\* Any of them may be near enough to a requirement; each has a source.
Acquire(m) ==
    /\ stage[m] = "queued"
    /\ Goes(m, "acquired")
    /\ Begins(m)
    /\ \E D \in SUBSET Acquirable : fresh' = [fresh EXCEPT ![m] = [by : {m}, of : D]]
    /\ UNCHANGED <<crew, documents, profiles, items, matches, request, vault, todo, last,
                   made, sought, erased, doomed, unlinked, faults>>

\* A DELETE sees what is committed when it begins, and waits for who has any of it
\* locked; what others have put in its place meanwhile stays.
Seeks(x, found) == sought' = [sought EXCEPT ![x] = {<<mt.by, mt.req>> : mt \in found}]
Erases(x) == erased' = [erased EXCEPT ![x] = Found(x)]

\* map_evidence loads requirements and evidence and deletes the filing's matches.
MapBegins(m) ==
    /\ stage[m] = "acquired"
    /\ Goes(m, "erasing")
    /\ vault' = [vault EXCEPT ![m] = items \cup fresh[m]]
    /\ todo' = [todo EXCEPT ![m] = Requirement]
    /\ Seeks(m, matches)
    /\ UNCHANGED <<crew, documents, profiles, items, matches, request, last, fresh, made, erased,
                   doomed, unlinked, together, faults>>

MapErases(m) ==
    /\ stage[m] = "erasing" /\ Free(m)
    /\ Goes(m, "mapping")
    /\ Erases(m)
    /\ UNCHANGED <<crew, documents, profiles, items, matches, request, vault, todo, last, fresh,
                   made, sought, doomed, unlinked, together, faults>>

\* A seeded defect: an answer counts whether or not its evidence is known.
Undegraded(status, item) ==
    IF item # NoItem /\ UserProvided(item) /\ status = "matched" THEN "user_provided" ELSE status

\* The status an agent's answer is stored with, whatever it answered: a match must
\* cite an item of the vault.
Verdict(status, item) ==
    IF item = NoItem THEN "missing"
    ELSE IF UserProvided(item) /\ status = "matched" THEN "user_provided"
    ELSE status

\* The item of m's last match was deleted since it was loaded.
Dangling(m) == LastItem(m) # NoItem /\ LastItem(m) \notin items \cup fresh[m]

\* The agent answers for one more requirement; the record of its run flushes
\* the match before.  The evidence it names may not exist.
Judge(m) ==
    /\ stage[m] = "mapping" /\ Free(m) /\ ~Dangling(m)
    /\ \E r \in todo[m], status \in Answers, item \in vault[m] \cup {NoItem} :
         LET mt == [by |-> m, req |-> r, item |-> item, status |-> Verdict(status, item)] IN
         /\ todo' = [todo EXCEPT ![m] = @ \ {r}]
         /\ last' = [last EXCEPT ![m] = mt]
         /\ made' = [made EXCEPT ![m] = @ \cup {mt}]
    /\ UNCHANGED <<crew, documents, profiles, items, matches, stage, request, vault, fresh,
                   sought, erased, doomed, unlinked, together, faults>>

Commits(x) ==
    /\ items' = items \cup fresh[x]
    /\ matches' = (matches \ erased[x]) \cup made[x]
    /\ Closed(x)
    /\ UNCHANGED <<crew, documents, profiles, request, unlinked, together>>

MapCommits(m) ==
    /\ stage[m] = "mapping" /\ todo[m] = {} /\ Free(m) /\ ~Dangling(m)
    /\ Goes(m, "done")
    /\ Commits(m)
    /\ UNCHANGED faults

\* An agent or the embeddings fail: what was erased stays erased, and what was
\* judged stays judged.
MapFails(m) ==
    /\ stage[m] \in {"acquired", "mapping"} /\ ~Dangling(m)
    /\ stage[m] = "mapping" => Free(m)
    /\ Fault
    /\ Goes(m, "failed")
    /\ Commits(m)

\* The foreign key refuses a match.
MapRefused(m) ==
    /\ stage[m] = "mapping" /\ Free(m) /\ Dangling(m)
    /\ RollBack(m)
    /\ UNCHANGED faults

-----------------------------------------------------------------------------
\* resolve_gap

Replaces(g) == {mt \in matches : mt.req = request[g].req}

\* The owner's value, or the document with a source of its own.
Supplied(g) == request[g].doc = NoDoc \/ (request[g].doc \in Known /\ docs[request[g].doc].cited)

\* The evidence is there before the matches of the requirement are deleted.
Resolve(g) ==
    /\ stage[g] = "queued" /\ Supplied(g)
    /\ Goes(g, "erasing")
    /\ Begins(g)
    /\ fresh' = [fresh EXCEPT ![g] = {[by |-> g, of |-> NoDoc]}]
    /\ Seeks(g, Replaces(g))
    /\ UNCHANGED <<crew, documents, profiles, items, matches, request, vault, todo, last, made,
                   erased, doomed, unlinked, faults>>

GapErases(g) ==
    /\ stage[g] = "erasing" /\ Free(g)
    /\ Goes(g, "resolved")
    /\ Erases(g)
    /\ made' = [made EXCEPT ![g] = {[by |-> g, req |-> request[g].req, item |-> item,
                                     status |-> "user_provided"] : item \in fresh[g]}]
    /\ UNCHANGED <<crew, documents, profiles, items, matches, request, vault, todo, last, fresh,
                   sought, doomed, unlinked, together, faults>>

\* An unknown document fails the run; one without a source is refused by the
\* database, at every attempt.
GapFails(g) ==
    /\ stage[g] = "queued" /\ ~Supplied(g)
    /\ Goes(g, IF request[g].doc \in Known THEN "given up" ELSE "failed")
    /\ UNCHANGED <<crew, documents, profiles, items, matches, request, work, unlinked,
                   together, faults>>

GapCommits(g) ==
    /\ stage[g] = "resolved"
    /\ Goes(g, "done")
    /\ Commits(g)
    /\ UNCHANGED faults

-----------------------------------------------------------------------------
\* gather_company_sources and run_company_brain

BrainLoads(b) ==
    /\ stage[b] = "queued"
    /\ Goes(b, "loaded")
    /\ Load(b) \/ LoadFull(b)
    /\ UNCHANGED <<crew, documents, items, matches, request, work, unlinked, together, faults>>

BrainFails(b) ==
    /\ stage[b] = "queued"
    /\ Fault
    /\ Goes(b, "failed")
    /\ UNCHANGED <<crew, documents, profiles, items, matches, request, work, unlinked, together>>

BrainSends(b) ==
    /\ stage[b] = "loaded"
    /\ Send(b)
    /\ Goes(b, "sent")
    /\ UNCHANGED <<crew, documents, items, matches, request, work, unlinked, together, faults>>

\* The profile was created since the run looked for it.
BrainRefused(b) ==
    /\ stage[b] = "loaded" /\ ProfileFree(b) /\ ProfileTaken(b)
    /\ RollBack(b)
    /\ UNCHANGED faults

\* Evidence of every origin but the owner's, chunks of documents included.
Replaceable == {item \in items : Inferred(item)}

\* New claims are inserted and the old ones deleted ...
BrainReplaces(b) ==
    /\ stage[b] = "sent" /\ Free(b)
    /\ Goes(b, "deleting")
    /\ fresh' = [fresh EXCEPT ![b] = {[by |-> b, of |-> NoDoc]}]
    /\ doomed' = [doomed EXCEPT ![b] = Replaceable]
    /\ UNCHANGED <<crew, documents, profiles, items, matches, request, vault, todo, last, made,
                   sought, erased, unlinked, together, faults>>

\* ... and the matches that cite them lose their item.
BrainUnlinks(b) ==
    /\ stage[b] = "deleting" /\ Free(b)
    /\ Goes(b, "replaced")
    /\ UNCHANGED <<crew, documents, profiles, items, matches, request, work, unlinked, together,
                   faults>>

BrainCommits(b) ==
    /\ stage[b] = "replaced"
    /\ Goes(b, "done")
    /\ Store(b)
    /\ items' = (items \ doomed[b]) \cup fresh[b]
    /\ matches' = (matches \ Citing(b)) \cup {[mt EXCEPT !.item = NoItem] : mt \in Citing(b)}
    /\ unlinked' = unlinked \cup Citing(b)
    /\ Closed(b)
    /\ UNCHANGED <<crew, documents, request, together, faults>>

-----------------------------------------------------------------------------
\* The owner changes the profile; each change is evidence.

OwnerStep(w) ==
    /\ \/ Load(w) /\ UNCHANGED items
       \/ Send(w) /\ UNCHANGED items
       \/ /\ Store(w)
          /\ items' = IF w \in Patch THEN items \cup {[by |-> w, of |-> NoDoc]} ELSE items
       \/ access[w] = "loaded" /\ ProfileFree(w) /\ ProfileTaken(w) /\ Undo(w) /\ UNCHANGED items
       \/ access[w] \in {"loaded", "sent"} /\ faults < MaxFaults /\ Undo(w) /\ UNCHANGED items
    /\ UNCHANGED <<crew, documents, matches, stage, request, work, unlinked, together, faults>>

-----------------------------------------------------------------------------

MapStep(m) == \/ Acquire(m) \/ MapBegins(m) \/ MapErases(m) \/ Judge(m) \/ MapCommits(m)
              \/ MapFails(m) \/ MapRefused(m) \/ RolledBack(m)

GapStep(g) == Resolve(g) \/ GapErases(g) \/ GapFails(g) \/ GapCommits(g) \/ RolledBack(g)

BrainStep(b) == \/ BrainLoads(b) \/ BrainFails(b) \/ BrainSends(b) \/ BrainRefused(b)
                \/ BrainReplaces(b) \/ BrainUnlinks(b) \/ BrainCommits(b) \/ RolledBack(b)

\* Documents come while there is a run left to ingest them.
Upload ==
    /\ \E i \in Ingest \cap crew : ingest[i] = "idle"
    /\ \/ \E d \in Doc : InitiateUpload(d) \/ \E c \in Content : PutBlob(d, c)
       \/ \E i \in Ingest \cap crew, d \in Doc :
             \/ \E c \in Content \cup {NoText} : RequestIngest(i, d, c)
             \/ \E c \in Content : Paste(i, d, c)

Next ==
    \/ /\ Upload \/ \E i \in Ingest \cap crew : IngestStep(i)
       /\ UNCHANGED <<crew, profiles, evidence>>
    \/ \E m \in Map \cap crew : MapStep(m)
    \/ \E g \in Gap \cap crew : GapStep(g)
    \/ \E b \in Brain \cap crew : BrainStep(b)
    \/ \E w \in (Patch \cup Onboard) \cap crew : OwnerStep(w)

Spec == Init /\ [][Next]_vars

-----------------------------------------------------------------------------

\* The variables hold what their comments say, and nothing cites an item that
\* is in no table.
TypeOK ==
    /\ DocumentTypeOK /\ ProfileTypeOK
    /\ items \subseteq Item
    /\ stage \in [Run -> {"idle", "queued", "acquired", "erasing", "mapping", "resolved", "loaded",
                          "sent", "deleting", "replaced", "done", "failed", "given up"}]
    /\ matches \subseteq Match /\ \A mt \in matches : mt.item \in items \cup {NoItem}
    /\ \A x \in Run :
          ~Active(x) => fresh[x] = {} /\ made[x] = {} /\ sought[x] = {} /\ erased[x] = {}

\* A verdict other than "missing" cites evidence, whatever the agent answered,
\* unless the company brain has deleted the evidence since; and then the evidence
\* was inferred, by a mapping or a build.
UncitedIsUnlinked ==
    \A mt \in matches :
        mt.status # "missing" /\ mt.item = NoItem =>
            \E u \in unlinked : mt = [u EXCEPT !.item = NoItem] /\ Inferred(u.item)

\* What the owner supplied for a gap stays cited, whatever evidence is replaced.
OwnerStaysCited ==
    \A mt \in matches : mt.by \in Gap => mt.item # NoItem /\ UserProvided(mt.item)

\* CON-2 as far as it goes: a claim has its evidence, except that a rebuild of
\* the profile takes what was inferred away, and never what the owner supplied.
UncitedOnlyByReplacement == UncitedIsUnlinked /\ OwnerStaysCited

\* A requirement has one verdict, unless two runs worked on the filing at the
\* same time.
OneVerdict ==
    \A x, y \in matches : x.by # y.by /\ x.req = y.req => {x.by, y.by} \in together

\* A document's chunks become evidence once, unless two runs acquired them at
\* the same time.
EvidenceOnce ==
    \A x, y \in items : x # y /\ x.of = y.of /\ x.of # NoDoc => {x.by, y.by} \in together

\* Runs that follow one another repeat nothing, however often each is tried.
RepeatedOnlyByOverlap == OneVerdict /\ EvidenceOnce

\* A value the owner has set is replaced by an inferred one only if it was set
\* while another writer had the profile loaded: never by a later build.
OwnerWins ==
    [][\A f \in Field : profile # NoProfile /\ profile.value[f] = "owner"
          /\ profile'.value[f] = "inferred" => f \in exposed]_vars

\* CON-2, as tests/test_evidence.py checks it after a mapping.
ClaimIsCited == \A mt \in matches : mt.status # "missing" => mt.item # NoItem
=============================================================================
