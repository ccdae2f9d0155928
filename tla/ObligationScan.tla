--------------------------- MODULE ObligationScan ---------------------------
(***************************************************************************)
(* The renewals engine of one organization (services/obligations.py):      *)
(* obligations derived from the company profile by a sync run, reminders   *)
(* sent by the scan that every worker replica makes in every round of its  *)
(* loop (worker/main.py) and that the API offers too, and the owner's      *)
(* edits (api/obligations.py).                                             *)
(*                                                                         *)
(* A scan is one transaction around many e-mails: it loads the rows that   *)
(* are due, sends one after the other, and writes the marks of all of them *)
(* at its end.  A transaction writes only the columns whose value differs  *)
(* from the one it loaded.  The clock counts days.                         *)
(***************************************************************************)
EXTENDS Naturals, Sequences, FiniteSets, Folds, SequencesExt

CONSTANTS
    Key,          \* (kind, title) of an obligation: its identity
    Baseline,     \* set of [key, days]: what every registrant renews
    Renewals,     \* sequence of [key, days]: _CERT_RENEWALS
    Cert,         \* names of certifications
    Hits,         \* [Cert -> set of positions of Renewals whose needles occur in it]
    Held,         \* sequence of the certifications in the profile
    Deliverables, \* set of [key, days]: one per active award
    Owned,        \* whether the organization has an owner with an address
    LeadDays, CooldownDays,
    Scanner,      \* worker replicas and callers of the scan
    Sync,         \* sync runs
    Patch,        \* edits by the owner
    Wanted,       \* [Patch -> [key, status, due]], Keep for what it leaves alone
    Keep, NoRow, Never,
    MaxDay,       \* bound: the last day
    MaxCutOffs    \* bound: failed sends, errors and crashes

Status == {"upcoming", "due_soon", "overdue", "completed", "dismissed"}
Frozen == {"completed", "dismissed"}
Days == 0..MaxDay
Row == [status : Status, due : Nat, notified : Days \cup {Never}]

ASSUME ObligationAssumption ==
    /\ \A d \in Baseline \cup Deliverables : d.key \in Key /\ d.days \in Nat
    /\ Renewals \in Seq([key : Key, days : Nat])
    /\ Hits \in [Cert -> SUBSET DOMAIN Renewals]
    /\ Held \in Seq(Cert)
    /\ Owned \in BOOLEAN
    /\ LeadDays \in Nat /\ CooldownDays \in Nat /\ MaxDay \in Nat /\ MaxCutOffs \in Nat
    /\ \A p \in Patch : /\ Wanted[p].key \in Key /\ Wanted[p].status \in Status \cup {Keep}
                        /\ Wanted[p].due = Keep \/ Wanted[p].due \in Nat
    /\ NoRow \notin Row /\ Never \notin Days

VARIABLES
    row,       \* committed obligations rows, or NoRow
    today,     \* the date
    stage,     \* [Scanner -> "idle" or "scanning"]
    began,     \* the date the scan took at its start
    loaded,    \* the due rows as the scan loaded them
    todo,      \* the keys of due rows it has not come to
    marked,    \* the keys it has sent a reminder for
    sync,      \* where the sync run is
    existing,  \* the rows it read
    patch,     \* where the edit is
    before,    \* the row it loaded
    mail,      \* history: [Key -> [Days -> number of reminders sent]]
    disturbed, \* history: scans overlapped, or one was cut off
    cutOffs    \* counts towards MaxCutOffs

scans == <<stage, began, loaded, todo, marked, mail, disturbed>>
syncs == <<sync, existing>>
patches == <<patch, before>>
obligationVars == <<row, today, scans, syncs, patches, cutOffs>>

-----------------------------------------------------------------------------
\* derive_compliance_obligations

\* The renewal a certification gives: the first row of the table whose needles
\* occur in it and whose title has not been given yet.
WithRenewal(derived, cert) ==
    LET titles == {d.key : d \in derived}
        fresh == {i \in Hits[cert] : Renewals[i].key \notin titles}
    IN  IF fresh = {} THEN derived
        ELSE derived \cup {Renewals[CHOOSE i \in fresh : \A j \in fresh : i <= j]}

Derived == FoldLeft(WithRenewal, Baseline, Held) \cup Deliverables

-----------------------------------------------------------------------------

ObligationInit ==
    /\ row = [k \in Key |-> NoRow]
    /\ today = 0
    /\ stage = [s \in Scanner |-> "idle"]
    /\ began = [s \in Scanner |-> 0]
    /\ loaded = [s \in Scanner |-> [k \in Key |-> NoRow]]
    /\ todo = [s \in Scanner |-> {}]
    /\ marked = [s \in Scanner |-> {}]
    /\ sync = [y \in Sync |-> "queued"]
    /\ existing = [y \in Sync |-> {}]
    /\ patch = [p \in Patch |-> "asked"]
    /\ before = [p \in Patch |-> NoRow]
    /\ mail = [k \in Key |-> [d \in Days |-> 0]]
    /\ disturbed = FALSE
    /\ cutOffs = 0

Present == {k \in Key : row[k] # NoRow}

-----------------------------------------------------------------------------
\* scan_due_obligations

\* A seeded defect: only what is overdue is asked for.
DueWhenOverdue(r, now) == r.status \notin Frozen /\ r.due < now

\* The query: not frozen, and due within the lead time from now.
IsDue(r, now) == r.status \notin Frozen /\ r.due <= now + LeadDays

\* Load the due rows.
ScanBegins(s) ==
    LET due == {k \in Present : IsDue(row[k], today)} IN
    /\ stage[s] = "idle"
    /\ due # {}
    /\ stage' = [stage EXCEPT ![s] = "scanning"]
    /\ began' = [began EXCEPT ![s] = today]
    /\ loaded' = [loaded EXCEPT ![s] = [k \in Key |-> IF k \in due THEN row[k] ELSE NoRow]]
    /\ todo' = [todo EXCEPT ![s] = due]
    /\ marked' = [marked EXCEPT ![s] = {}]
    /\ disturbed' = (disturbed \/ \E t \in Scanner : stage[t] = "scanning")
    /\ UNCHANGED <<row, today, syncs, patches, mail, cutOffs>>

\* A seeded defect: the cooldown ends a day early.
CoolingShort(r, now) == r.notified # Never /\ now - r.notified + 1 < CooldownDays

\* The reminder before this one is too recent.
Cooling(r, now) == r.notified # Never /\ now - r.notified < CooldownDays

\* A row that needs no reminder: only its status will be written.
PassOver(s, k) ==
    /\ stage[s] = "scanning" /\ k \in todo[s]
    /\ Cooling(loaded[s][k], began[s]) \/ ~Owned
    /\ todo' = [todo EXCEPT ![s] = @ \ {k}]
    /\ UNCHANGED <<row, today, stage, began, loaded, marked, mail, disturbed,
                   syncs, patches, cutOffs>>

\* The e-mail leaves; its mark is written at the end of the scan.
Remind(s, k) ==
    /\ stage[s] = "scanning" /\ k \in todo[s]
    /\ ~Cooling(loaded[s][k], began[s]) /\ Owned
    /\ todo' = [todo EXCEPT ![s] = @ \ {k}]
    /\ marked' = [marked EXCEPT ![s] = @ \cup {k}]
    /\ mail' = [mail EXCEPT ![k][began[s]] = @ + 1]
    /\ UNCHANGED <<row, today, stage, began, loaded, disturbed,
                   syncs, patches, cutOffs>>

NewStatus(r, now) == IF r.due < now THEN "overdue" ELSE "due_soon"

\* What is left of row k when the scan's changes to it are written.
Scanned(s, k) ==
    LET was == loaded[s][k] IN
    IF was = NoRow THEN row[k]
    ELSE [row[k] EXCEPT
             !.status = IF NewStatus(was, began[s]) = was.status THEN @
                        ELSE NewStatus(was, began[s]),
             !.notified = IF k \in marked[s] THEN began[s] ELSE @]

\* The session is closed, and with it what it loaded.
ScanEnds(s) ==
    /\ stage' = [stage EXCEPT ![s] = "idle"]
    /\ began' = [began EXCEPT ![s] = 0]
    /\ loaded' = [loaded EXCEPT ![s] = [k \in Key |-> NoRow]]
    /\ todo' = [todo EXCEPT ![s] = {}]
    /\ marked' = [marked EXCEPT ![s] = {}]

ScanCommits(s) ==
    /\ stage[s] = "scanning"
    /\ todo[s] = {}
    /\ row' = [k \in Key |-> Scanned(s, k)]
    /\ ScanEnds(s)
    /\ UNCHANGED <<today, mail, disturbed, syncs, patches, cutOffs>>

\* A send that raises, an error or a crash: every mark of the scan is lost, the
\* e-mails it sent are not.
ScanCutOff(s) ==
    /\ stage[s] = "scanning"
    /\ cutOffs < MaxCutOffs
    /\ cutOffs' = cutOffs + 1
    /\ ScanEnds(s)
    /\ disturbed' = TRUE
    /\ UNCHANGED <<row, today, mail, syncs, patches>>

-----------------------------------------------------------------------------
\* sync_obligations

SyncReads(y) ==
    /\ sync[y] = "queued"
    /\ sync' = [sync EXCEPT ![y] = "write"]
    /\ existing' = [existing EXCEPT ![y] = Present]
    /\ UNCHANGED <<row, today, scans, patches, cutOffs>>

New(y) == {d \in Derived : d.key \notin existing[y]}

\* Another sync inserted a row that this one did not see: the unique constraint.
KeyTaken(y) == \E d \in New(y) : d.key \in Present

\* A seeded defect: the refresh of a known obligation starts it afresh.
RefreshedAfresh(r) == [r EXCEPT !.status = "upcoming"]

\* The refresh of a known obligation: its texts only, neither deadline nor status.
Refreshed(r) == r

SyncWrites(y) ==
    /\ sync[y] = "write"
    /\ ~KeyTaken(y)
    /\ row' = [k \in Key |->
                  IF \E d \in New(y) : d.key = k
                  THEN [status |-> "upcoming",
                        due |-> today + (CHOOSE d \in New(y) : d.key = k).days,
                        notified |-> Never]
                  ELSE IF k \in existing[y] /\ \E d \in Derived : d.key = k
                  THEN Refreshed(row[k])
                  ELSE row[k]]
    /\ sync' = [sync EXCEPT ![y] = "done"]
    /\ existing' = [existing EXCEPT ![y] = {}]
    /\ UNCHANGED <<today, scans, patches, cutOffs>>

\* Its run is rolled back and retried by the queue.
SyncRetried(y) ==
    /\ sync[y] = "write"
    /\ KeyTaken(y)
    /\ sync' = [sync EXCEPT ![y] = "queued"]
    /\ existing' = [existing EXCEPT ![y] = {}]
    /\ UNCHANGED <<row, today, scans, patches, cutOffs>>

-----------------------------------------------------------------------------
\* patch_obligation

PatchReads(p) ==
    /\ patch[p] = "asked"
    /\ row[Wanted[p].key] # NoRow
    /\ before' = [before EXCEPT ![p] = row[Wanted[p].key]]
    /\ patch' = [patch EXCEPT ![p] = "write"]
    /\ UNCHANGED <<row, today, scans, syncs, cutOffs>>

\* A column is written when the edit names it and its value is a new one.
Column(was, wanted, now) == IF wanted \in {Keep, was} THEN now ELSE wanted

PatchWrites(p) ==
    LET k == Wanted[p].key IN
    /\ patch[p] = "write"
    /\ row' = [row EXCEPT
                  ![k].status = Column(before[p].status, Wanted[p].status, @),
                  ![k].due = Column(before[p].due, Wanted[p].due, @)]
    /\ patch' = [patch EXCEPT ![p] = "done"]
    /\ before' = [before EXCEPT ![p] = NoRow]
    /\ UNCHANGED <<today, scans, syncs, cutOffs>>

Midnight ==
    /\ today < MaxDay
    /\ today' = today + 1
    /\ UNCHANGED <<row, scans, syncs, patches, cutOffs>>

-----------------------------------------------------------------------------

ScanStep(s) == ScanBegins(s) \/ ScanCommits(s) \/ \E k \in Key : PassOver(s, k) \/ Remind(s, k)

SyncStep(y) == SyncReads(y) \/ SyncWrites(y) \/ SyncRetried(y)

PatchStep(p) == PatchReads(p) \/ PatchWrites(p)

NothingDue ==
    /\ today = MaxDay
    /\ \A s \in Scanner : stage[s] = "idle"
    /\ \A y \in Sync : sync[y] = "done"
    /\ \A p \in Patch : patch[p] = "done"
    /\ ~\E k \in Present : IsDue(row[k], today)
    /\ UNCHANGED obligationVars

ObligationNext ==
    \/ \E s \in Scanner : ScanStep(s) \/ ScanCutOff(s)
    \/ \E y \in Sync : SyncStep(y)
    \/ \E p \in Patch : PatchStep(p)
    \/ Midnight
    \/ NothingDue

\* Workers loop for ever; the queue retries a sync until it is through.
ObligationFairness ==
    /\ \A s \in Scanner : WF_obligationVars(ScanStep(s))
    /\ \A y \in Sync : WF_obligationVars(SyncStep(y))

ObligationSpec == ObligationInit /\ [][ObligationNext]_obligationVars /\ ObligationFairness

-----------------------------------------------------------------------------
\* Properties

\* Every variable has its type; a scan has sent what it marked.
ObligationTypeOK ==
    /\ \A k \in Present : row[k] \in Row
    /\ stage \in [Scanner -> {"idle", "scanning"}]
    /\ began \in [Scanner -> Days]
    /\ \A s \in Scanner : todo[s] \cup marked[s] \subseteq {k \in Key : loaded[s][k] # NoRow}
    /\ \A s \in Scanner : \A k \in marked[s] : mail[k][began[s]] > 0
    /\ sync \in [Sync -> {"queued", "write", "done"}]
    /\ existing \in [Sync -> SUBSET Key]
    /\ patch \in [Patch -> {"asked", "write", "done"}]
    /\ today \in Days /\ cutOffs \in 0..MaxCutOffs

\* last_notified_at and the cooldown prevent duplicate sends, as far as scans
\* follow one another and come to their end: then no two reminders of one
\* obligation are closer than the cooldown, on one day or on two, whatever
\* syncs and edits do.
OneReminderPerCooldown ==
    ~disturbed =>
        \A k \in Key : \A d \in Days :
            /\ CooldownDays > 0 => mail[k][d] <= 1
            /\ mail[k][d] > 0 => \A e \in (d + 1)..MaxDay : e - d < CooldownDays => mail[k][e] = 0

\* What the owner closed stays closed until the owner gives it another status,
\* unless a scan that had loaded it before wrote its own status over the closing.
ClosedStaysClosed ==
    [][\A k \in Present :
          row[k].status \in Frozen /\ row'[k].status \notin Frozen
              => \/ \E p \in Patch : /\ patch[p] = "write" /\ patch'[p] = "done"
                                     /\ Wanted[p].key = k /\ Wanted[p].status = row'[k].status
                 \/ \E s \in Scanner : /\ stage[s] = "scanning" /\ stage'[s] = "idle"
                                       /\ loaded[s][k] # NoRow
                                       /\ loaded[s][k].status \notin Frozen]_obligationVars

\* An obligation that has come within the lead time of its deadline is reminded
\* of, or closed, or postponed.
DueIsReminded ==
    \A k \in Key :
        LET pending == row[k] # NoRow /\ row[k].status \notin Frozen /\ row[k].due <= today + LeadDays
        IN  pending ~> (~pending \/ \E d \in Days : mail[k][d] > 0)
=============================================================================
