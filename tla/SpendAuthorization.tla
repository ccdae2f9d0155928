------------------------ MODULE SpendAuthorization ------------------------
(***************************************************************************)
(* The spend guardrail: the hot path (services/spend.py,                   *)
(* decide_authorization, behind the issuing webhook in                     *)
(* api/spend_webhooks.py) and the budget edits of the cold path            *)
(* (apply_budget_translation) beside it, for one organization.             *)
(*                                                                         *)
(* A delivery of a card charge is one request and one transaction at READ  *)
(* COMMITTED: look for a recorded verdict, load rules and budgets, lock    *)
(* the governing budget, total what was approved, insert the verdict,      *)
(* answer, commit.  The answer leaves before the commit (external: the     *)
(* framework closes a request's session after the response is sent).       *)
(* An edit reads the rows it is going to upsert, then writes and commits.  *)
(* Deliveries of different charges, deliveries of the same charge and      *)
(* edits interleave freely; a request may fail or its process may die at   *)
(* any point.                                                              *)
(***************************************************************************)
EXTENDS Naturals, FiniteSets, FiniteSetsExt

CONSTANTS
    Charge,       \* stripe_auth_id values
    Delivery,     \* webhook requests
    Of,           \* [Delivery -> Charge]: a charge may be delivered again
    Amount,       \* [Charge -> Nat]: cents
    Field,        \* [Charge -> [Dim -> Value]]: merchant, mcc, category
    UnknownCard,  \* the charges of a card without a row
    Value,        \* names a merchant, mcc or category can have, as spelled
    Fold,         \* [Value -> Value]: strip().lower()
    NoValue,      \* an absent field
    Budget,       \* ids of spend_budgets rows, present or still to be inserted
    FirstBudgets, \* [Budget -> row]: the rows at first
    Edit,         \* budget edits
    Wanted,       \* [Edit -> [budget, rule]]: what the translator made of each
    Crews,        \* sets of deliveries and edits that come in one behaviour
    NoBudget,     \* no row
    NoRule,       \* no rule
    MaxDay,       \* bound: days that begin
    MaxFaults     \* bound: errors and crashes

Dim == {"merchant", "mcc", "category"}
Interval == {"per_authorization", "daily", "all_time"}  \* "daily": any window
Rule == [kind : {"deny", "allow"}, dim : Dim, value : Value]
BudgetRow == [dim : Dim, value : Value, limit : Nat, interval : Interval]

Nobody == NoBudget

ASSUME SpendAssumption ==
    /\ Of \in [Delivery -> Charge]
    /\ Amount \in [Charge -> Nat]
    /\ Field \in [Charge -> [Dim -> Value \cup {NoValue}]]
    /\ UnknownCard \subseteq Charge
    /\ Fold \in [Value -> Value]
    /\ NoValue \notin Value
    /\ NoBudget \notin Budget \cup Delivery \cup BudgetRow
    /\ FirstBudgets \in [Budget -> BudgetRow \cup {NoBudget}]
    /\ NoRule \notin Rule
    /\ Wanted \in [Edit -> [budget : BudgetRow, rule : Rule \cup {NoRule}]]
    /\ Crews \subseteq SUBSET (Delivery \cup Edit)
    /\ MaxDay \in Nat /\ MaxFaults \in Nat

VARIABLES
    authz,     \* committed spend_authorizations rows, by charge
    budget,    \* committed spend_budgets rows
    rules,     \* committed spend_merchant_rules rows
    lock,      \* [Budget -> the delivery whose transaction locks the row]
    day,       \* the database's and the server's date
    pc,        \* where the delivery is
    begun,     \* the day its transaction began: created_at of its row
    pick,      \* the governing budget it loaded
    seen,      \* that budget's row as loaded
    verdict,   \* its decision, and the day it was taken
    reply,     \* the answer it gave to the card network
    edit,      \* where the budget edit is
    found,     \* the row of its scope that the edit read, and its columns
    known,     \* the rules the edit read
    notified,  \* decline messages sent about a charge
    highest,   \* history: the highest limit each budget ever had
    faults     \* counts towards MaxFaults

request == <<begun, pick, seen, verdict>>
tables == <<authz, budget, rules, highest>>
replies == <<reply, notified>>
editing == <<edit, found, known>>
bounds == <<day, faults>>
vars == <<tables, lock, pc, request, replies, editing, bounds>>

-----------------------------------------------------------------------------
\* The decision

NoVerdict == [decision |-> "none", day |-> 0]
NoRow == [decision |-> "none", created |-> 0, decided |-> 0,
          budget |-> NoBudget, interval |-> "none"]

\* _rule_matches: case and outer blanks are ignored.
Matches(c, dim, value) ==
    /\ Field[c][dim] # NoValue
    /\ Fold[Field[c][dim]] = Fold[value]

Denied(c) == \E r \in rules : r.kind = "deny" /\ Matches(c, r.dim, r.value)

AllowList == {r \in rules : r.kind = "allow"}

NotAllowed(c) == AllowList # {} /\ \A r \in AllowList : ~Matches(c, r.dim, r.value)

RulesPass(c) == ~Denied(c) /\ ~NotAllowed(c)

Rank(dim) == CASE dim = "merchant" -> 3 [] dim = "mcc" -> 2 [] dim = "category" -> 1

Existing == {b \in Budget : budget[b] # NoBudget}

Candidates(c) == {b \in Existing : Matches(c, budget[b].dim, budget[b].value)}

\* _pick_budget: the most specific one; of equally specific rows, the one the
\* database happened to return first.
MostSpecific(c) ==
    {b \in Candidates(c) : \A e \in Candidates(c) : Rank(budget[e].dim) <= Rank(budget[b].dim)}

WindowStart(row, today) == IF row.interval = "daily" THEN today ELSE 0

\* _spend_so_far's WHERE: here the spelling must be the budget's own.
Counted(c, row, today) ==
    /\ authz[c].decision = "approved"
    /\ Field[c][row.dim] = row.value
    /\ authz[c].created >= WindowStart(row, today)

SumAmounts(S) == MapThenSumSet(LAMBDA c : Amount[c], S)

SpendSoFar(row, today) == SumAmounts({c \in Charge : Counted(c, row, today)})

Decision(within) == IF within THEN "approved" ELSE "declined"

-----------------------------------------------------------------------------

Init ==
    /\ authz = [c \in Charge |-> NoRow]
    /\ budget = FirstBudgets
    /\ rules = {}
    /\ lock = [b \in Budget |-> Nobody]
    /\ day = 0
    /\ \E crew \in Crews :
          /\ pc = [d \in Delivery |-> IF d \in crew THEN "sent" ELSE "never"]
          /\ edit = [e \in Edit |-> IF e \in crew THEN "asked" ELSE "never"]
    /\ begun = [d \in Delivery |-> 0]
    /\ pick = [d \in Delivery |-> NoBudget]
    /\ seen = [d \in Delivery |-> NoBudget]
    /\ verdict = [d \in Delivery |-> NoVerdict]
    /\ reply = [d \in Delivery |-> "none"]
    /\ notified = [c \in Charge |-> 0]
    /\ found = [e \in Edit |-> [id |-> NoBudget, row |-> NoBudget]]
    /\ known = [e \in Edit |-> {}]
    /\ highest = [b \in Budget |-> IF FirstBudgets[b] = NoBudget THEN 0 ELSE FirstBudgets[b].limit]
    /\ faults = 0

Goto(d, l) == pc' = [pc EXCEPT ![d] = l]

Decide(d, decision) == verdict' = [verdict EXCEPT ![d] = [decision |-> decision, day |-> day]]

Answer(d, r) == reply' = [reply EXCEPT ![d] = r] /\ UNCHANGED notified

\* The end of a transaction releases what it locked.
Unlock(d) == lock' = [b \in Budget |-> IF lock[b] = d THEN Nobody ELSE lock[b]]

Recorded(d) == authz[Of[d]].decision # "none"

\* A verdict for the charge is recorded: it is returned as it is.
Replay(d) ==
    /\ pc[d] = "sent"
    /\ Recorded(d)
    /\ Answer(d, authz[Of[d]].decision)
    /\ Goto(d, "done")
    /\ UNCHANGED <<tables, lock, request, editing, bounds>>

\* No card row: declined, and nothing is recorded.
DeclineUnknownCard(d) ==
    /\ pc[d] = "sent"
    /\ ~Recorded(d)
    /\ Of[d] \in UnknownCard
    /\ Answer(d, "declined")
    /\ Goto(d, "done")
    /\ UNCHANGED <<tables, lock, request, editing, bounds>>

Receive(d) ==
    /\ pc[d] = "sent"
    /\ ~Recorded(d)
    /\ Of[d] \notin UnknownCard
    /\ begun' = [begun EXCEPT ![d] = day]
    /\ Goto(d, "load")
    /\ UNCHANGED <<tables, lock, pick, seen, verdict, replies, editing, bounds>>

\* Load rules and budgets: a rule, or the lack of a budget, declines the charge.
LoadDeclines(d) ==
    /\ pc[d] = "load"
    /\ ~RulesPass(Of[d]) \/ MostSpecific(Of[d]) = {}
    /\ Decide(d, "declined")
    /\ Goto(d, "insert")
    /\ UNCHANGED <<tables, lock, begun, pick, seen, replies, editing, bounds>>

Pick(d, b) ==
    /\ pick' = [pick EXCEPT ![d] = b]
    /\ seen' = [seen EXCEPT ![d] = budget[b]]

\* A per-authorization budget: one comparison, and no lock.
LoadCompares(d) ==
    /\ pc[d] = "load"
    /\ RulesPass(Of[d])
    /\ \E b \in MostSpecific(Of[d]) :
          /\ budget[b].interval = "per_authorization"
          /\ Decide(d, Decision(Amount[Of[d]] <= budget[b].limit))
          /\ Pick(d, b)
    /\ Goto(d, "insert")
    /\ UNCHANGED <<tables, lock, begun, replies, editing, bounds>>

\* Any other interval: the limit loaded now is compared after the lock.
LoadBudget(d) ==
    /\ pc[d] = "load"
    /\ RulesPass(Of[d])
    /\ \E b \in MostSpecific(Of[d]) : budget[b].interval # "per_authorization" /\ Pick(d, b)
    /\ Goto(d, "lock")
    /\ UNCHANGED <<tables, lock, begun, verdict, replies, editing, bounds>>

\* A seeded defect: the budget row is read without FOR UPDATE.
BudgetReadable(b) == b \in Budget

\* FOR UPDATE waits while another transaction holds the row.
BudgetFree(b) == lock[b] = Nobody

\* Lock the governing budget, then total and compare.
LockAndTotal(d) ==
    LET b == pick[d] IN
    /\ pc[d] = "lock"
    /\ BudgetFree(b)
    /\ lock' = [lock EXCEPT ![b] = d]
    /\ Decide(d, Decision(SpendSoFar(seen[d], day) + Amount[Of[d]] <= seen[d].limit))
    /\ Goto(d, "insert")
    /\ UNCHANGED <<tables, begun, pick, seen, replies, editing, bounds>>

\* Another open transaction has inserted a row for the same charge.
InsertBlocked(d) ==
    \E e \in Delivery \ {d} : Of[e] = Of[d] /\ pc[e] \in {"answer", "notify", "commit"}

\* A seeded defect: stripe_auth_id without its unique constraint.
NeverDuplicate(d) == d \notin Delivery

Duplicate(d) == Recorded(d)

Insert(d) ==
    /\ pc[d] = "insert"
    /\ ~InsertBlocked(d)
    /\ ~Duplicate(d)
    /\ Goto(d, "answer")
    /\ UNCHANGED <<tables, lock, request, replies, editing, bounds>>

\* IntegrityError: roll back and return the verdict of the delivery that won.
InsertDuplicate(d) ==
    /\ pc[d] = "insert"
    /\ ~InsertBlocked(d)
    /\ Duplicate(d)
    /\ Unlock(d)
    /\ Answer(d, authz[Of[d]].decision)
    /\ Goto(d, "done")
    /\ UNCHANGED <<tables, request, editing, bounds>>

\* A seeded defect: the cardholder is told of every verdict.
TellsAlways(d) == d \in Delivery

\* A new verdict is told if it is a decline.
TellsHolder(d) == verdict[d].decision = "declined"

\* The response leaves while the transaction is open.
SendAnswer(d) ==
    /\ pc[d] = "answer"
    /\ Answer(d, verdict[d].decision)
    /\ Goto(d, IF TellsHolder(d) THEN "notify" ELSE "commit")
    /\ UNCHANGED <<tables, lock, request, editing, bounds>>

\* A task after the response sends the message, before the session is closed; a
\* cardholder without a phone and a failure of the sender are passed over.
Notify(d) ==
    /\ pc[d] = "notify"
    /\ \/ notified' = [notified EXCEPT ![Of[d]] = @ + 1]
       \/ UNCHANGED notified
    /\ Goto(d, "commit")
    /\ UNCHANGED <<tables, lock, request, reply, editing, bounds>>

Commit(d) ==
    /\ pc[d] = "commit"
    /\ authz' = [authz EXCEPT ![Of[d]] =
                    [decision |-> verdict[d].decision,
                     created |-> begun[d],
                     decided |-> verdict[d].day,
                     budget |-> pick[d],
                     interval |-> IF pick[d] = NoBudget THEN "none" ELSE seen[d].interval]]
    /\ Unlock(d)
    /\ Goto(d, "done")
    /\ UNCHANGED <<budget, rules, highest, request, replies, editing, bounds>>

Fault ==
    /\ faults < MaxFaults
    /\ faults' = faults + 1

\* An exception inside the decision: the webhook declines and nothing is kept.
FailClosed(d) ==
    /\ pc[d] \in {"load", "lock", "insert"}
    /\ Fault
    /\ Unlock(d)
    /\ Answer(d, "error")
    /\ Goto(d, "done")
    /\ UNCHANGED <<tables, request, editing, day>>

\* The process dies or the commit fails: the transaction is rolled back.
Crash(d) ==
    /\ pc[d] \in {"load", "lock", "insert", "answer", "notify", "commit"}
    /\ Fault
    /\ Unlock(d)
    /\ Goto(d, "lost")
    /\ UNCHANGED <<tables, request, replies, editing, day>>

-----------------------------------------------------------------------------
\* The cold path and the clock

SameScope(row, other) == row.dim = other.dim /\ row.value = other.value

\* apply_budget_translation, after the translator has answered: read the row of
\* the scope, if there is one, and the rules.
EditReads(e) ==
    /\ edit[e] = "asked"
    /\ LET rows == {b \in Existing : SameScope(budget[b], Wanted[e].budget)} IN
       found' = [found EXCEPT ![e] =
           IF rows = {} THEN @
           ELSE LET b == CHOOSE x \in rows : TRUE IN [id |-> b, row |-> budget[b]]]
    /\ known' = [known EXCEPT ![e] = rules]
    /\ edit' = [edit EXCEPT ![e] = "write"]
    /\ UNCHANGED <<tables, lock, pc, request, replies, bounds>>

\* Another edit has inserted a rule that this one did not read.
RuleConflict(e) == Wanted[e].rule \in rules \ known[e]

\* A row is written where the edit read none; of a row it read, the columns
\* that differ from what it read.
Written(e, row) ==
    LET wanted == Wanted[e].budget
        was == found[e].row
    IN  IF was = NoBudget
        THEN wanted
        ELSE [row EXCEPT
                 !.limit = IF wanted.limit = was.limit THEN @ ELSE wanted.limit,
                 !.interval = IF wanted.interval = was.interval THEN @ ELSE wanted.interval]

\* The rows an edit may write to: the one it read, once no delivery locks it,
\* or a new one.
Target(e) ==
    IF found[e].row = NoBudget
    THEN {b \in Budget : b \notin Existing}
    ELSE {b \in {found[e].id} : lock[b] = Nobody}

EditWrites(e) ==
    /\ edit[e] = "write"
    /\ ~RuleConflict(e)
    /\ \E b \in Target(e) :
          /\ budget' = [budget EXCEPT ![b] = Written(e, @)]
          /\ highest' = [highest EXCEPT ![b] = Max({@, budget'[b].limit})]
    /\ rules' = rules \cup ({Wanted[e].rule} \ {NoRule})
    /\ edit' = [edit EXCEPT ![e] = "done"]
    /\ UNCHANGED <<authz, lock, pc, request, replies, found, known, bounds>>

\* The unique constraint on rules: the whole edit is rolled back.
EditFails(e) ==
    /\ edit[e] = "write"
    /\ RuleConflict(e)
    /\ edit' = [edit EXCEPT ![e] = "failed"]
    /\ UNCHANGED <<tables, lock, pc, request, replies, found, known, bounds>>

Midnight ==
    /\ day < MaxDay
    /\ day' = day + 1
    /\ UNCHANGED <<tables, lock, pc, request, replies, editing, faults>>

-----------------------------------------------------------------------------

Handle(d) ==
    \/ Receive(d)
    \/ Replay(d)
    \/ DeclineUnknownCard(d)
    \/ LoadDeclines(d)
    \/ LoadCompares(d)
    \/ LoadBudget(d)
    \/ LockAndTotal(d)
    \/ Insert(d)
    \/ InsertDuplicate(d)
    \/ SendAnswer(d)
    \/ Notify(d)
    \/ Commit(d)

AllAnswered ==
    /\ \A d \in Delivery : pc[d] \in {"done", "lost", "never"}
    /\ \A e \in Edit : edit[e] \in {"done", "failed", "never"}
    /\ UNCHANGED vars

Next ==
    \/ \E d \in Delivery : Handle(d) \/ FailClosed(d) \/ Crash(d)
    \/ \E e \in Edit : EditReads(e) \/ EditWrites(e) \/ EditFails(e)
    \/ Midnight
    \/ AllAnswered

Spec == Init /\ [][Next]_vars

-----------------------------------------------------------------------------
\* Properties

Location == {"sent", "load", "lock", "insert", "answer", "notify", "commit", "done", "lost", "never"}
Verdict == {"none", "approved", "declined"}
MaybeRow == BudgetRow \cup {NoBudget}
AuthzRow == [decision : Verdict, created : 0..MaxDay, decided : 0..MaxDay,
             budget : Budget \cup {NoBudget}, interval : Interval \cup {"none"}]

\* Every variable has its type; only a delivery in its transaction holds a row.
TypeOK ==
    /\ authz \in [Charge -> AuthzRow]
    /\ budget \in [Budget -> MaybeRow]
    /\ rules \subseteq Rule
    /\ lock \in [Budget -> Delivery \cup {Nobody}]
    /\ \A b \in Budget : lock[b] # Nobody => pc[lock[b]] \in {"insert", "answer", "notify", "commit"}
    /\ pc \in [Delivery -> Location]
    /\ begun \in [Delivery -> 0..MaxDay]
    /\ pick \in [Delivery -> Budget \cup {NoBudget}]
    /\ seen \in [Delivery -> MaybeRow]
    /\ verdict \in [Delivery -> [decision : Verdict, day : 0..MaxDay]]
    /\ reply \in [Delivery -> Verdict \cup {"error"}]
    /\ notified \in [Charge -> Nat]
    /\ edit \in [Edit -> {"asked", "write", "done", "failed", "never"}]
    /\ found \in [Edit -> [id : Budget \cup {NoBudget}, row : MaybeRow]]
    /\ known \in [Edit -> SUBSET Rule]
    /\ highest \in [Budget -> Nat]
    /\ day \in 0..MaxDay /\ faults \in 0..MaxFaults

\* The charges approved under budget b while its interval was in I.
Approved(b, I) ==
    {c \in Charge : /\ authz[c].decision = "approved"
                    /\ authz[c].budget = b
                    /\ authz[c].interval \in I}

\* Those under the lock that were received and decided on day k.  A charge that
\* waits for the lock over midnight is in no day's account: its row carries the
\* day its transaction began, its verdict used the window of the next one.
ApprovedOn(b, k) ==
    {c \in Approved(b, {"daily", "all_time"}) : authz[c].created = k /\ authz[c].decided = k}

\* Concurrent swipes never bust a budget (the TOCTOU comment in _evaluate):
\* whatever interleaves, fails, is edited or is delivered again, what a budget
\* row approved stays within the highest limit it ever had.
WithinLimit ==
    \A b \in Budget :
        /\ SumAmounts(Approved(b, {"all_time"})) <= highest[b]
        /\ \A k \in 0..MaxDay : SumAmounts(ApprovedOn(b, k)) <= highest[b]
        /\ \A c \in Approved(b, {"per_authorization"}) : Amount[c] <= highest[b]

\* A delivery that was not cut off gave the verdict that is recorded for its
\* charge, so all deliveries of a charge gave the same one.
ReplyIsRecorded ==
    \A d \in Delivery :
        pc[d] = "done" /\ reply[d] \in {"approved", "declined"} /\ Of[d] \notin UnknownCard
            => authz[Of[d]].decision = reply[d]

\* The cardholder is told once of a decline, and never of a charge that was
\* approved, however often it is delivered, except where a crash undid a verdict
\* after the message: the message leaves before the row is committed.
ToldOnceOfADecline ==
    \A c \in Charge :
        /\ notified[c] <= 1 + faults
        /\ notified[c] > 0 /\ faults = 0 => authz[c].decision # "approved"
=============================================================================
