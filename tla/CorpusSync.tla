------------------------------ MODULE CorpusSync ------------------------------
(***************************************************************************)
(* The shared corpus of government documents: the scheduler that sweeps    *)
(* the sources of a cadence when it is due (corpus/schedule.py,            *)
(* services/corpus.py), the discovery sweep (services/corpus_discovery.py),*)
(* the ingestion of fetched items into versioned documents and the         *)
(* embedding of their chunks (corpus/ingest.py), and the commands an       *)
(* operator runs beside the scheduler (corpus/sync.py, discover.py,        *)
(* embed.py).                                                              *)
(*                                                                         *)
(* A process works through a list of tasks.  Its transaction is a draft of *)
(* the documents it has written; rows it has written are locked, and the   *)
(* unique index on a document's version labels makes the second of two     *)
(* writers fail.  A document has one chunk.  The texts of a document are   *)
(* numbered in the order of publication, as its adapter makes them: it     *)
(* keeps the first 50,000 characters of a section, and what is changed     *)
(* after those is no new text.  last verified dates are left out.          *)
(***************************************************************************)
EXTENDS Naturals, Sequences, FiniteSets, SequencesExt

CONSTANTS
    Doc,          \* (authority, external_id) of the documents that exist
    Jurisdiction, \* those enabled: "federal", codes of states
    Configured,   \* [federal source -> sequence of the documents it is configured for];
                  \* of the feed the rules there are going to be, the newest first
    PageSize,     \* per_page: as many rules the feed is asked for
    StateSources, \* sequence of [jurisdiction, docs]: PDFs of states, enabled or not
    Discovery,    \* corpus_discovery_enabled
    Target,       \* what a discovery agent may propose: [kind, key, docs]
    MaxTargets,   \* corpus_discovery_max_targets
    TokenBudget,  \* corpus_discovery_token_budget, 0 for none
    Tokens,       \* what an agent's call may cost
    BatchSize,    \* chunks embedded by one call
    Scheduler,    \* processes of the scheduler
    Command,      \* [processes of the operator -> what they may be asked for]
    NoDraft, NoDoc,
    Crews,        \* sets of processes of the operator that are asked for a command, and
                  \* of documents that are issued or withdrawn, in one behaviour
    MaxPublished, \* bound: [Doc -> texts its source publishes]
    MaxProposals, \* bound: length of an agent's proposal
    MaxFaults     \* bound: failed fetches, calls and crashes

Operator == DOMAIN Command
Proc == Scheduler \cup Operator
Cadence == {"weekly", "monthly", "quarterly"}
Feed == Range(Configured["federal_register"])
Verdict == {"new", "update", "duplicate"}

\* A version of a document: in force or retired, its chunk in the current law
\* or not, embedded or not.
Versions == [content : Nat, current : BOOLEAN, live : BOOLEAN, vector : BOOLEAN]

ASSUME CorpusAssumption ==
    /\ DOMAIN Configured = {"ecfr", "federal_register", "firecrawl", "pdf"}
    /\ \A k \in DOMAIN Configured : Configured[k] \in Seq(Doc)
    /\ StateSources \in Seq(Range(StateSources))
    /\ \A i \in DOMAIN StateSources : StateSources[i].docs \in Seq(Doc)
    /\ PageSize \in Nat \ {0} /\ Discovery \in BOOLEAN
    /\ \A t \in Target : /\ t.kind \in {"rule", "part", "pdf"}
                         /\ t.key \in Doc \cup {NoDoc}
                         /\ t.docs \in Seq(Doc)
    /\ Tokens \subseteq Nat /\ TokenBudget \in Nat /\ MaxTargets \in Nat
    /\ BatchSize \in Nat \ {0}
    /\ MaxPublished \in [Doc -> Nat \ {0}] /\ MaxProposals \in Nat /\ MaxFaults \in Nat
    /\ \A p \in DOMAIN Command : Command[p] \subseteq {"sync", "discover", "embed"}
    /\ Scheduler \cap DOMAIN Command = {} /\ Proc \cap Doc = {}
    /\ Crews \subseteq SUBSET (Operator \cup Doc)
    /\ NoDraft \notin Seq(Versions) /\ NoDoc \notin Nat

VARIABLES
    upstream,  \* [Doc -> number of the text its source published last, 0 for none]
    offered,   \* the documents whose sources would deliver them now
    store,     \* corpus rows: [Doc -> sequence of versions]
    clock,     \* the state file: [Cadence -> "due" or "fresh"]
    todo,      \* [Proc -> sequence of tasks]
    ran,       \* [Proc -> whether the tick fetched anything]
    draft,     \* [Proc -> [Doc -> uncommitted versions or NoDraft]]
    items,     \* [Proc -> fetched items not yet ingested]
    found,     \* [Proc -> number of the current version it has read, or NoDoc]
    sweep,     \* [Proc -> the discovery run it is in]
    batch,     \* [Proc -> chunks sent to the embeddings provider]
    coming,    \* of the crew, who has not been asked, issued or withdrawn yet
    noted,     \* history: [Cadence -> [Doc -> text a recorded tick answers for]]
    owed,      \* history: the same for a tick that is going on
    faults     \* counts towards MaxFaults

procs == <<todo, ran, draft, items, found, sweep, batch, coming>>
vars == <<upstream, offered, store, clock, procs, noted, owed, faults>>

Version(content) == [content |-> content, current |-> TRUE, live |-> TRUE, vector |-> FALSE]

NoSweep == [stage |-> "none", feed |-> [d \in Feed |-> 0], targets |-> <<>>]

-----------------------------------------------------------------------------
\* The registry of sources

Source(kind, cadence, docs) == [kind |-> kind, cadence |-> cadence, docs |-> docs]

\* The nth of some positions, and what is at those positions, in order.
Nth(positions, n) == CHOOSE i \in positions : Cardinality({j \in positions : j <= i}) = n
At(seq, positions) == [n \in 1..Cardinality(positions) |-> seq[Nth(positions, n)]]

\* A source without documents is left out; the feed needs none configured.
FederalAdapters ==
    LET all == <<Source("ecfr", "monthly", Configured["ecfr"]),
                 Source("federal_register", "weekly", Configured["federal_register"]),
                 Source("firecrawl", "monthly", Configured["firecrawl"]),
                 Source("pdf", "quarterly", Configured["pdf"])>>
    IN  At(all, {i \in DOMAIN all : all[i].kind = "federal_register" \/ all[i].docs # <<>>})

StateAdapters ==
    LET enabled == At(StateSources, {i \in DOMAIN StateSources :
                                        StateSources[i].jurisdiction \in Jurisdiction})
    IN  [i \in DOMAIN enabled |-> Source("pdf", "quarterly", enabled[i].docs)]

Adapters ==
    (IF "federal" \in Jurisdiction THEN FederalAdapters ELSE <<>>) \o StateAdapters

Sources(c) == At(Adapters, {i \in DOMAIN Adapters : Adapters[i].cadence = c})
DocsOf(c) == UNION {Range(a.docs) : a \in Range(Sources(c))}

-----------------------------------------------------------------------------

\* The rules on the page before any other is issued, which fill it.
OldRules ==
    LET rules == Configured["federal_register"] IN
    {rules[i] : i \in {i \in DOMAIN rules : Len(rules) < i + PageSize}}

Init ==
    /\ upstream = [d \in Doc |-> IF d \in Feed \ OldRules THEN 0 ELSE 1]
    /\ offered = (Doc \ Feed) \cup OldRules
    /\ store = [d \in Doc |-> <<>>]
    /\ clock = [c \in Cadence |-> "due"]
    /\ todo = [p \in Proc |-> <<>>]
    /\ ran = [p \in Proc |-> FALSE]
    /\ draft = [p \in Proc |-> [d \in Doc |-> NoDraft]]
    /\ items = [p \in Proc |-> <<>>]
    /\ found = [p \in Proc |-> NoDoc]
    /\ sweep = [p \in Proc |-> NoSweep]
    /\ batch = [p \in Proc |-> {}]
    /\ coming \in Crews
    /\ noted = [c \in Cadence |-> [d \in Doc |-> 0]]
    /\ owed = [p \in Proc |-> [d \in Doc |-> 0]]
    /\ faults = 0

-----------------------------------------------------------------------------
\* The world

\* A source publishes a new text of a document it has.
Publish(d) ==
    /\ d \in offered
    /\ upstream[d] < MaxPublished[d]
    /\ upstream' = [upstream EXCEPT ![d] = @ + 1]
    /\ UNCHANGED <<offered, store, clock, procs, noted, owed, faults>>

\* The page of the feed: the newest of the rules issued.
Page(issued) ==
    LET rules == Configured["federal_register"] IN
    {rules[i] : i \in {i \in DOMAIN rules :
        /\ rules[i] \in issued
        /\ Cardinality({j \in 1..i : rules[j] \in issued}) <= PageSize}}

\* The next rule is issued: it enters the page, and the oldest may leave it.
Issue(d) ==
    LET rules == Configured["federal_register"] IN
    /\ d \in coming /\ upstream[d] = 0
    /\ \E i \in DOMAIN rules : /\ rules[i] = d
                              /\ \A j \in DOMAIN rules : upstream[rules[j]] = 0 <=> j <= i
    /\ upstream' = [upstream EXCEPT ![d] = 1]
    /\ offered' = (offered \ Feed) \cup Page({e \in Feed : upstream'[e] > 0})
    /\ coming' = coming \ {d}
    /\ UNCHANGED <<store, clock, todo, ran, draft, items, found, sweep, batch, noted, owed, faults>>

\* A section is removed from the code, or a file or page is taken down.
Withdraw(d) ==
    /\ d \in (coming \cap offered) \ Feed
    /\ offered' = offered \ {d}
    /\ coming' = coming \ {d}
    /\ UNCHANGED <<upstream, store, clock, todo, ran, draft, items, found, sweep, batch, noted, owed,
                   faults>>

\* The interval of a cadence passes.
Elapse(c) ==
    /\ clock[c] = "fresh"
    /\ clock' = [clock EXCEPT ![c] = "due"]
    /\ UNCHANGED <<upstream, offered, store, procs, noted, owed, faults>>

-----------------------------------------------------------------------------
\* Tasks

SyncTask(a) == [do |-> "sync", kind |-> a.kind, docs |-> a.docs]
DiscoverTask == [do |-> "discover"]
EmbedTask(always) == [do |-> "embed", always |-> always]
RecordTask(c) == [do |-> "record", cadence |-> c]

SweepTasks(adapters) == [i \in DOMAIN adapters |-> SyncTask(adapters[i])]

\* What a tick does for one due cadence.
CadenceTasks(c) ==
    SweepTasks(Sources(c))
        \o (IF c = "weekly" /\ Discovery /\ "federal" \in Jurisdiction THEN <<DiscoverTask>> ELSE <<>>)

\* The tasks of the due cadences, the most volatile first.
InTurn(due, tasks) ==
    (IF "weekly" \in due THEN tasks["weekly"] ELSE <<>>)
        \o (IF "monthly" \in due THEN tasks["monthly"] ELSE <<>>)
        \o (IF "quarterly" \in due THEN tasks["quarterly"] ELSE <<>>)

\* A seeded defect: the clocks are advanced before the sources are swept.
RecordFirst(due) ==
    InTurn(due, [c \in Cadence |-> <<RecordTask(c)>>])
        \o InTurn(due, [c \in Cadence |-> CadenceTasks(c)])
        \o <<EmbedTask(FALSE)>>

\* run_due_sync: every due cadence, one embedding pass, then the clocks.
TickTasks(due) ==
    InTurn(due, [c \in Cadence |-> CadenceTasks(c)])
        \o <<EmbedTask(FALSE)>>
        \o InTurn(due, [c \in Cadence |-> <<RecordTask(c)>>])

\* The scheduler polls and finds cadences due.
TickBegins(p) ==
    LET due == {c \in Cadence : clock[c] = "due"} IN
    /\ p \in Scheduler /\ todo[p] = <<>>
    /\ due # {}
    /\ todo' = [todo EXCEPT ![p] = TickTasks(due)]
    /\ ran' = [ran EXCEPT ![p] = FALSE]
    /\ owed' = [owed EXCEPT ![p] = upstream]
    /\ UNCHANGED <<upstream, offered, store, clock, draft, items, found, sweep, batch,
                   coming, noted, faults>>

CommandTasks == [sync |-> SweepTasks(Adapters),
                 discover |-> <<DiscoverTask>>,
                 embed |-> <<EmbedTask(TRUE)>>]

\* An operator runs a command: every enabled source, a discovery sweep, or the
\* embedding of what is pending.
CommandBegins(p) ==
    /\ p \in coming \cap Operator
    /\ coming' = coming \ {p}
    /\ \E command \in Command[p] :
          todo' = [todo EXCEPT ![p] = CommandTasks[command]]
    /\ UNCHANGED <<upstream, offered, store, clock, ran, draft, items, found, sweep, batch,
                   noted, owed, faults>>

Doing(p, task) == todo[p] # <<>> /\ Head(todo[p]).do = task

\* The process is in the middle of a task that ends here.
NextTask(p) == todo' = [todo EXCEPT ![p] = Tail(@)]

\* An exception or a crash: the transaction is rolled back, and the scheduler
\* comes back at its next poll.
Abandon(p) ==
    /\ todo' = [todo EXCEPT ![p] = <<>>]
    /\ ran' = [ran EXCEPT ![p] = FALSE]
    /\ draft' = [draft EXCEPT ![p] = [d \in Doc |-> NoDraft]]
    /\ items' = [items EXCEPT ![p] = <<>>]
    /\ found' = [found EXCEPT ![p] = NoDoc]
    /\ sweep' = [sweep EXCEPT ![p] = NoSweep]
    /\ batch' = [batch EXCEPT ![p] = {}]
    /\ owed' = [owed EXCEPT ![p] = [d \in Doc |-> 0]]
    /\ UNCHANGED <<upstream, offered, store, coming, noted>>

Crash(p) ==
    /\ todo[p] # <<>>
    /\ faults < MaxFaults
    /\ faults' = faults + 1
    /\ Abandon(p)
    /\ UNCHANGED clock

-----------------------------------------------------------------------------
\* ingest_corpus_item, for the items of a source or of a discovery target

\* The versions of d that p sees: its own uncommitted ones, or the committed.
View(p, d) == IF draft[p][d] = NoDraft THEN store[d] ELSE draft[p][d]

Ingesting(p) == items[p] # <<>>
Item(p) == Head(items[p])

\* A seeded defect: the hashes are not compared.
NeverUnchanged(versions, content) == FALSE

\* A seeded defect: a document that is known is not looked at again.
Known(versions, content) == versions # <<>>

\* The current version has the content already.
Unchanged(versions, content) ==
    versions # <<>> /\ Last(versions).content = content

ItemUnchanged(p) ==
    /\ Ingesting(p) /\ found[p] = NoDoc
    /\ Unchanged(View(p, Item(p).doc), Item(p).content)
    /\ items' = [items EXCEPT ![p] = Tail(@)]
    /\ UNCHANGED <<upstream, offered, store, clock, todo, ran, draft, found, sweep, batch,
                   coming, noted, owed, faults>>

\* A new document, or a current version that will be retired.
ItemRead(p) ==
    /\ Ingesting(p) /\ found[p] = NoDoc
    /\ ~Unchanged(View(p, Item(p).doc), Item(p).content)
    /\ found' = [found EXCEPT ![p] = Len(View(p, Item(p).doc))]
    /\ UNCHANGED <<upstream, offered, store, clock, todo, ran, draft, items, sweep, batch,
                   coming, noted, owed, faults>>

\* Another transaction holds the document's rows.
Held(p) == \E q \in Proc \ {p} : draft[q][Item(p).doc] # NoDraft

\* Another transaction has taken the version label in the meantime.
LabelTaken(p) == Len(View(p, Item(p).doc)) # found[p]

\* A version and its chunks leave the current law.
Retired(version) == [version EXCEPT !.current = FALSE, !.live = FALSE]

\* The version that was read is retired and the new one inserted after it.
Superseded(versions, n, content) ==
    [i \in DOMAIN versions |-> IF i = n THEN Retired(versions[i]) ELSE versions[i]]
        \o <<Version(content)>>

ItemWritten(p) ==
    /\ Ingesting(p) /\ found[p] # NoDoc
    /\ ~Held(p) /\ ~LabelTaken(p)
    /\ draft' = [draft EXCEPT ![p][Item(p).doc] =
                    Superseded(View(p, Item(p).doc), found[p], Item(p).content)]
    /\ items' = [items EXCEPT ![p] = Tail(@)]
    /\ found' = [found EXCEPT ![p] = NoDoc]
    /\ UNCHANGED <<upstream, offered, store, clock, todo, ran, sweep, batch,
                   coming, noted, owed, faults>>

Blocked(p) == Ingesting(p) /\ found[p] # NoDoc /\ Held(p)

\* Two transactions wait for each other.
Deadlocked(p) ==
    /\ Blocked(p)
    /\ \E q \in Proc \ {p} : /\ draft[q][Item(p).doc] # NoDraft
                             /\ Blocked(q) /\ draft[p][Item(q).doc] # NoDraft

\* The unique index refuses the row, or the database ends a deadlock: the whole
\* transaction fails.
ItemRefused(p) ==
    /\ Ingesting(p) /\ found[p] # NoDoc
    /\ (~Held(p) /\ LabelTaken(p)) \/ Deadlocked(p)
    /\ Abandon(p)
    /\ UNCHANGED <<clock, faults>>

\* The commit makes p's draft the committed rows.
Committed(p) == [d \in Doc |-> View(p, d)]

-----------------------------------------------------------------------------
\* _ingest_from_adapters

Fetched(docs) == [i \in DOMAIN docs |-> [doc |-> docs[i], content |-> upstream[docs[i]]]]

Delivered(docs, got) == At(docs, {i \in DOMAIN docs : docs[i] \in got})

\* What a source may return of its documents: those it has now, and for the feed
\* those of the page, less what is blocked, refused, empty or unreadable.
Answers(docs) == SUBSET (Range(docs) \cap offered)

\* It leaves out something it has.
Disturbed(docs, got) == got # Range(docs) \cap offered

Unfetched(p) == draft[p] = [d \in Doc |-> NoDraft] /\ items[p] = <<>>

\* A source answers, for all it has or, when it is disturbed, for some of it; what
\* is missing is passed over, an error of the whole source too.
Fetch(p) ==
    /\ Doing(p, "sync") /\ sweep[p].stage = "none" /\ Unfetched(p)
    /\ \E got \in Answers(Head(todo[p]).docs) :
         /\ IF Disturbed(Head(todo[p]).docs, got) THEN faults < MaxFaults /\ faults' = faults + 1
            ELSE UNCHANGED faults
         /\ items' = [items EXCEPT ![p] = Fetched(Delivered(Head(todo[p]).docs, got))]
         /\ owed' = [owed EXCEPT ![p] = [d \in Doc |->
                        IF d \in Range(Head(todo[p]).docs) \ got THEN 0 ELSE @[d]]]
         /\ ran' = [ran EXCEPT ![p] = @ \/ (p \in Scheduler /\ got # {})]
    /\ sweep' = [sweep EXCEPT ![p].stage = "ingesting"]
    /\ UNCHANGED <<upstream, offered, store, clock, todo, draft, found, batch,
                   coming, noted>>

\* All items of the source are in: its transaction commits.
SourceDone(p) ==
    /\ Doing(p, "sync") /\ sweep[p].stage = "ingesting" /\ ~Ingesting(p)
    /\ store' = Committed(p)
    /\ draft' = [draft EXCEPT ![p] = [d \in Doc |-> NoDraft]]
    /\ sweep' = [sweep EXCEPT ![p] = NoSweep]
    /\ NextTask(p)
    /\ UNCHANGED <<upstream, offered, clock, ran, items, found, batch,
                   coming, noted, owed, faults>>

-----------------------------------------------------------------------------
\* run_corpus_discovery

\* The feed cannot be fetched: the run is recorded as failed, nothing is raised.
FeedFails(p) ==
    /\ Doing(p, "discover") /\ sweep[p].stage = "none"
    /\ faults < MaxFaults /\ faults' = faults + 1
    /\ ran' = [ran EXCEPT ![p] = p \in Scheduler]
    /\ NextTask(p)
    /\ UNCHANGED <<upstream, offered, store, clock, draft, items, found, sweep, batch,
                   coming, noted, owed>>

\* The sweep keeps the entries of the page it was answered with.
FeedFetched(p) ==
    /\ Doing(p, "discover") /\ sweep[p].stage = "none"
    /\ \E got \in Answers(Configured["federal_register"]) :
         /\ IF Disturbed(Configured["federal_register"], got)
            THEN faults < MaxFaults /\ faults' = faults + 1
            ELSE UNCHANGED faults
         /\ sweep' = [sweep EXCEPT ![p].stage = "planning",
                        ![p].feed = [d \in Feed |-> IF d \in got THEN upstream[d] ELSE 0]]
    /\ UNCHANGED <<upstream, offered, store, clock, todo, ran, draft, items, found, batch,
                   coming, noted, owed>>

\* gather_corpus_index
Index == {d \in Doc : store[d] # <<>>}

\* The agent calls it a duplicate and the index has the document.
Duplicate(proposal) == proposal.verdict = "duplicate" /\ proposal.target.key \in Index

Within(fetchable) == IF Len(fetchable) > MaxTargets THEN MaxTargets ELSE Len(fetchable)

\* The first MaxTargets, or none if the agents were too dear.
Accepted(fetchable, tokens) ==
    IF TokenBudget > 0 /\ tokens > TokenBudget THEN <<>>
    ELSE SubSeq(fetchable, 1, Within(fetchable))

\* select_fetchable_targets and the token bound, applied to what was proposed.
Selected(s, proposals, tokens) ==
    LET fetchable == At(proposals, {i \in DOMAIN proposals : ~Duplicate(proposals[i])})
        accepted == Accepted(fetchable, tokens)
    IN  [s EXCEPT !.stage = "fetching",
                  !.targets = [i \in DOMAIN accepted |-> accepted[i].target]]

\* What the triage of the feed may keep: any number of the entries fetched.
Triaged(s) == 0..Cardinality({d \in Feed : s.feed[d] > 0})

\* What the discovery agent may propose for them: a rule of the feed, or parts
\* and files of the law that are related, each with what it takes it for.
Proposed == UNION {[1..n -> [target : Target, verdict : Verdict]] : n \in 0..MaxProposals}

\* The two agents' calls.  Triage that reaches the budget with signals at hand
\* ends the run; otherwise discovery proposes targets.
Plan(p) ==
    /\ Doing(p, "discover") /\ sweep[p].stage = "planning"
    /\ \E triage \in Tokens, signals \in Triaged(sweep[p]) :
         IF TokenBudget > 0 /\ triage >= TokenBudget /\ signals > 0
         THEN sweep' = [sweep EXCEPT ![p].stage = "fetching"]
         ELSE \E discovery \in Tokens, proposals \in Proposed :
                sweep' = [sweep EXCEPT ![p] = Selected(@, proposals, triage + discovery)]
    /\ UNCHANGED <<upstream, offered, store, clock, todo, ran, draft, items, found, batch,
                   coming, noted, owed, faults>>

\* An agent fails: the run's record is rolled back with everything else.
PlanFails(p) ==
    /\ Doing(p, "discover") /\ sweep[p].stage = "planning"
    /\ faults < MaxFaults /\ faults' = faults + 1
    /\ Abandon(p)
    /\ UNCHANGED clock

AtTarget(p) ==
    /\ Doing(p, "discover") /\ sweep[p].stage = "fetching"
    /\ sweep[p].targets # <<>> /\ ~Ingesting(p)

\* The URL does not resolve to an allowed host, the fetch fails, or the kind is
\* not supported: left.
TargetDropped(p) ==
    /\ AtTarget(p)
    /\ faults < MaxFaults /\ faults' = faults + 1
    /\ sweep' = [sweep EXCEPT ![p].targets = Tail(@)]
    /\ UNCHANGED <<upstream, offered, store, clock, todo, ran, draft, items, found, batch,
                   coming, noted, owed>>

\* _fetch_target: a rule comes from the page fetched at the start, and is
\* nothing if it was not on it; anything else is fetched now.
TargetItems(p, target) ==
    IF target.kind = "rule"
    THEN IF target.key \in Feed /\ sweep[p].feed[target.key] > 0
         THEN <<[doc |-> target.key, content |-> sweep[p].feed[target.key]]>>
         ELSE <<>>
    ELSE Fetched(Delivered(target.docs, offered))

TargetFetched(p) ==
    LET got == TargetItems(p, Head(sweep[p].targets)) IN
    /\ AtTarget(p)
    /\ items' = [items EXCEPT ![p] = got]
    /\ sweep' = [sweep EXCEPT ![p].targets = Tail(@)]
    /\ UNCHANGED <<upstream, offered, store, clock, todo, ran, draft, found, batch,
                   coming, noted, owed, faults>>

\* finalize_discovery_run and the commit.
DiscoveryDone(p) ==
    /\ Doing(p, "discover") /\ sweep[p].stage = "fetching"
    /\ sweep[p].targets = <<>> /\ ~Ingesting(p)
    /\ store' = Committed(p)
    /\ draft' = [draft EXCEPT ![p] = [d \in Doc |-> NoDraft]]
    /\ sweep' = [sweep EXCEPT ![p] = NoSweep]
    /\ ran' = [ran EXCEPT ![p] = p \in Scheduler]
    /\ NextTask(p)
    /\ UNCHANGED <<upstream, offered, clock, items, found, batch, coming, noted, owed, faults>>

-----------------------------------------------------------------------------
\* embed_pending

\* The chunks: that of the ith version of d is <<d, i>>.
Chunks == UNION {{d} \X DOMAIN store[d] : d \in Doc}
Pending == {c \in Chunks : ~store[c[1]][c[2]].vector}

Embedding(p) ==
    /\ Doing(p, "embed") /\ batch[p] = {}
    /\ Head(todo[p]).always \/ ran[p]

\* A batch of chunks without a vector, retired ones too, goes to the provider.
EmbedBatch(p) ==
    /\ Embedding(p)
    /\ \E b \in SUBSET Pending :
         /\ Cardinality(b) = IF Cardinality(Pending) < BatchSize
                             THEN Cardinality(Pending) ELSE BatchSize
         /\ b # {}
         /\ batch' = [batch EXCEPT ![p] = b]
    /\ UNCHANGED <<upstream, offered, store, clock, todo, ran, draft, items, found, sweep,
                   coming, noted, owed, faults>>

\* The vectors are written and committed before the next batch.
BatchStored(p) ==
    /\ batch[p] # {}
    /\ store' = [d \in Doc |-> [i \in DOMAIN store[d] |->
                    IF <<d, i>> \in batch[p] THEN [store[d][i] EXCEPT !.vector = TRUE]
                    ELSE store[d][i]]]
    /\ batch' = [batch EXCEPT ![p] = {}]
    /\ UNCHANGED <<upstream, offered, clock, todo, ran, draft, items, found, sweep,
                   coming, noted, owed, faults>>

\* The provider fails every attempt: the pass ends without an error.
EmbedAbandoned(p) ==
    /\ batch[p] # {}
    /\ faults < MaxFaults /\ faults' = faults + 1
    /\ batch' = [batch EXCEPT ![p] = {}]
    /\ NextTask(p)
    /\ UNCHANGED <<upstream, offered, store, clock, ran, draft, items, found, sweep,
                   coming, noted, owed>>

\* Nothing is pending, or the tick fetched nothing and embeds nothing.
EmbedDone(p) ==
    /\ Doing(p, "embed") /\ batch[p] = {}
    /\ (Embedding(p) => Pending = {})
    /\ NextTask(p)
    /\ UNCHANGED <<upstream, offered, store, clock, ran, draft, items, found, sweep, batch,
                   coming, noted, owed, faults>>

-----------------------------------------------------------------------------
\* ScheduleStateStore.record

Record(p) ==
    LET c == Head(todo[p]).cadence IN
    /\ Doing(p, "record")
    /\ clock' = [clock EXCEPT ![c] = "fresh"]
    /\ noted' = [noted EXCEPT ![c] = [d \in Doc |-> IF d \in DocsOf(c) THEN owed[p][d] ELSE 0]]
    /\ NextTask(p)
    /\ IF Len(todo[p]) > 1 THEN UNCHANGED <<ran, owed>>
       ELSE /\ ran' = [ran EXCEPT ![p] = FALSE]
            /\ owed' = [owed EXCEPT ![p] = [d \in Doc |-> 0]]
    /\ UNCHANGED <<upstream, offered, store, draft, items, found, sweep, batch, coming, faults>>

\* The process dies while it writes the file: it is unreadable, and load takes
\* that for a file without entries.
RecordTorn(p) ==
    /\ Doing(p, "record")
    /\ faults < MaxFaults /\ faults' = faults + 1
    /\ clock' = [c \in Cadence |-> "due"]
    /\ Abandon(p)

-----------------------------------------------------------------------------

Step(p) ==
    \/ TickBegins(p) \/ CommandBegins(p)
    \/ ItemUnchanged(p) \/ ItemRead(p) \/ ItemWritten(p) \/ ItemRefused(p)
    \/ Fetch(p) \/ SourceDone(p)
    \/ FeedFails(p) \/ FeedFetched(p) \/ Plan(p) \/ PlanFails(p)
    \/ TargetDropped(p) \/ TargetFetched(p) \/ DiscoveryDone(p)
    \/ EmbedBatch(p) \/ BatchStored(p) \/ EmbedAbandoned(p) \/ EmbedDone(p)
    \/ Record(p) \/ RecordTorn(p)

Next ==
    \/ \E d \in Doc : Publish(d) \/ Issue(d) \/ Withdraw(d)
    \/ \E c \in Cadence : Elapse(c)
    \/ \E p \in Proc : Step(p) \/ Crash(p)

\* A process that has work goes on with it, and intervals pass.
Fairness ==
    /\ \A p \in Proc : WF_vars(Step(p))
    /\ \A c \in Cadence : WF_vars(Elapse(c))

Spec == Init /\ [][Next]_vars /\ Fairness

-----------------------------------------------------------------------------

\* The variables hold what their comments say.
TypeOK ==
    /\ \A d \in Doc : upstream[d] \in 0..MaxPublished[d]
    /\ offered \subseteq Doc
    /\ \A d \in Doc : store[d] \in Seq(Versions)
    /\ clock \in [Cadence -> {"due", "fresh"}]
    /\ \A p \in Proc, d \in Doc :
          draft[p][d] # NoDraft => /\ draft[p][d] \in Seq(Versions)
                                   /\ Len(draft[p][d]) > Len(store[d])
    /\ \A p \in Proc : items[p] \in Seq([doc : Doc, content : Nat])
    /\ \A p \in Proc : found[p] # NoDoc => found[p] \in Nat /\ Ingesting(p)
    /\ \A p \in Proc : batch[p] \subseteq Chunks
    /\ coming \subseteq Operator \cup Doc
    /\ faults \in 0..MaxFaults

\* A document that is stored has one current version, its last, and only the
\* chunks of that one are in the current law, however ingestions interleave.
OneCurrent ==
    \A d \in Doc : \A i \in DOMAIN store[d] :
        /\ store[d][i].current <=> i = Len(store[d])
        /\ store[d][i].live <=> store[d][i].current

\* The text a recorded tick answers for is in the corpus: a cadence whose clock
\* was advanced has had everything its sources had published when the tick
\* began ingested, unless the source failed to deliver it.
ClockIsEarned ==
    \A c \in Cadence : \A d \in DocsOf(c) :
        noted[c][d] > 0 => \E i \in DOMAIN store[d] : store[d][i].content >= noted[c][d]

\* The corpus keeps the promise of VersionedStore.
Corpus == INSTANCE VersionedStore
          WITH law <- [d \in Doc |-> [i \in DOMAIN store[d] |-> store[d][i].content]]
LawIsVersioned == Corpus!Spec

\* What a source has published last is in the end the law in force and can be
\* retrieved, as long as the source goes on offering it and answers in the end.
\* A rule that leaves the page of the feed between two sweeps, and what is
\* changed in a document after it was withdrawn, may never arrive.
InForce(d) ==
    /\ store[d] # <<>>
    /\ Last(store[d]).content = upstream[d] /\ Last(store[d]).vector
ChangesArrive ==
    \A d \in Doc : (\E c \in Cadence : d \in DocsOf(c)) =>
        (<>[](d \in offered) => <>[]InForce(d))

\* The comment of run_due_sync: a transient outage is retried at the next poll
\* and never missed until the next interval.  About the documents that are
\* offered as long as they have not been withdrawn.
OutageIsRetried ==
    [][\A c \in Cadence : clock'[c] = "fresh" /\ clock[c] = "due" =>
          \A d \in (DocsOf(c) \ Feed) \cap offered : noted'[c][d] > 0]_vars
=============================================================================
