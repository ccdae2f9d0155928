------------------------- MODULE PaymentGuardrails -------------------------
(***************************************************************************)
(* Payment guardrails of one organization: policies extracted from plain   *)
(* English (api/guardrails.py, create_policies), the evaluation of inbound *)
(* payments against them (evaluate_transaction with                        *)
(* guardrails/evaluation_engine.py) and the decision of held payments by a *)
(* person (approve_payment).                                               *)
(*                                                                         *)
(* Every request is one transaction at READ COMMITTED that is committed    *)
(* after its answer left (external: the framework ends a request's session *)
(* then).  An evaluation loads account and policies, then inserts; an      *)
(* approval locks the payment's row, then writes.  The two ways the        *)
(* project sets a database up, from its models (the tests) or by its       *)
(* migrations (make migrate), differ in the constraints on these tables.   *)
(***************************************************************************)
EXTENDS Naturals, Sequences, FiniteSets

CONSTANTS
    Account,       \* connected accounts, present or still to be created
    DefaultAction, \* [Account -> {"allow", "escalate"}]
    Text,          \* submissions of policy texts
    ForAccount,    \* [Text -> Account]: the account in the path
    OrgWide,       \* [Text -> BOOLEAN]
    Extracted,     \* [Text -> sequence of rules, then NoRule for each fragment]
    PolicyId,      \* ids a policy row can get: random, and compared as text
    Evaluation,    \* requests to evaluate a payment
    OnAccount,     \* [Evaluation -> Account]
    ExternalId,    \* [Evaluation -> id of the payment at the provider, or NoId]
    Fact,          \* [Evaluation -> [Field -> Datum or Missing]]
    Review,        \* approvals and rejections
    Reviewed,      \* [Review -> Evaluation]: the payment it is about
    Choice,        \* [Review -> {"approved", "rejected"}]
    Word,          \* texts in rules and payments, as spelled
    Norm,          \* [Word -> Word]: lower().strip()
    Before,        \* pairs of words: how Python orders texts
    Inside,        \* pairs of data: the text of the first occurs in the second's
    Missing, NoRule, NoPolicy, NoId, NoEvent, Nobody,
    MaxFaults      \* bound: failures and crashes

Field == {"amount", "payee", "category", "vendor_status", "vendor_age_days"}
Operator == {"gt", "gte", "lt", "lte", "eq", "neq", "in", "not_in", "contains"}
Action == {"allow", "block", "escalate"}
Datum == [kind : {"number"}, n : Nat, words : {{}}]
         \cup [kind : {"word"}, n : {0}, words : {{w} : w \in Word}]
Expected == Datum \cup [kind : {"list"}, n : {0}, words : SUBSET Word]
Condition == [field : Field, op : Operator, value : Expected]
Rule == [conditions : SUBSET Condition, action : Action, priority : Nat]

ASSUME PaymentAssumption ==
    /\ DefaultAction \in [Account -> {"allow", "escalate"}]
    /\ ForAccount \in [Text -> Account] /\ OrgWide \in [Text -> BOOLEAN]
    /\ \A t \in Text : \A i \in DOMAIN Extracted[t] :
          \/ Extracted[t][i] = NoRule
          \/ /\ Extracted[t][i].conditions \subseteq
                    {c \in Extracted[t][i].conditions : c.field \in Field /\ c.op \in Operator}
             /\ Extracted[t][i].conditions # {}
             /\ Extracted[t][i].action \in Action /\ Extracted[t][i].priority \in Nat
    /\ PolicyId \subseteq Nat
    /\ OnAccount \in [Evaluation -> Account]
    /\ Reviewed \in [Review -> Evaluation]
    /\ Choice \in [Review -> {"approved", "rejected"}]
    /\ Norm \in [Word -> Word]
    /\ NoPolicy \notin PolicyId /\ NoEvent \notin Evaluation /\ Nobody \notin Review
    /\ MaxFaults \in Nat

VARIABLES
    schema,    \* how the database was set up: "models" or "migrated"
    accounts,  \* committed connected_accounts rows
    policies,  \* committed spend_policies rows
    text,      \* where the submission of a policy text is
    pc,        \* where the evaluation is
    decision,  \* what it decided: [action, policy]
    reply,     \* what it answered
    events,    \* committed payment_events rows, by the evaluation that made them
    approvals, \* committed approvals rows with target payment_event
    review,    \* where the review is
    told,      \* what its reviewer was answered
    lock,      \* [Evaluation -> the review whose transaction locks the row]
    standing,  \* history: the policies committed when the evaluation arrived
    faults     \* counts towards MaxFaults

setup == <<schema, accounts, policies, text>>
evaluating == <<pc, decision, reply, standing>>
reviewing == <<review, told, lock>>
tables == <<events, approvals>>
vars == <<setup, evaluating, reviewing, tables, faults>>

-----------------------------------------------------------------------------
\* The evaluation engine

\* Python's comparison of two values of one kind; of two kinds, a TypeError.
Less(a, b) ==
    \/ a.kind = "number" /\ b.kind = "number" /\ a.n < b.n
    \/ a.kind = "word" /\ b.kind = "word" /\ \E v \in a.words, w \in b.words : <<v, w>> \in Before

Comparable(a, b) == a.kind = b.kind

Folded(words) == {Norm[w] : w \in words}

Same(a, b) == a.kind = b.kind /\ a.n = b.n /\ Folded(a.words) = Folded(b.words)

Among(a, list) == a.kind = "word" /\ Folded(a.words) \subseteq Folded(list.words)

\* _apply.  A missing value satisfies nothing but the negative operators; what
\* raises a TypeError is not satisfied; a text is never one of a text's letters.
Apply(op, actual, expected) ==
    IF actual = Missing
    THEN op \in {"neq", "not_in"}
    ELSE CASE op = "gt" -> Less(expected, actual)
           [] op = "gte" -> Comparable(actual, expected) /\ ~Less(actual, expected)
           [] op = "lt" -> Less(actual, expected)
           [] op = "lte" -> Comparable(actual, expected) /\ ~Less(expected, actual)
           [] op = "eq" -> Same(actual, expected)
           [] op = "neq" -> ~Same(actual, expected)
           [] op = "in" -> expected.kind = "list" /\ Among(actual, expected)
           [] op = "not_in" -> expected.kind # "number" /\ ~(expected.kind = "list" /\ Among(actual, expected))
           [] op = "contains" -> <<expected, actual>> \in Inside

RuleMatches(e, rule) == \A c \in rule.conditions : Apply(c.op, Fact[e][c.field], c.value)

\* sorted(..., key=(priority, id)).
Precedes(p, q) ==
    \/ policies[p].rule.priority < policies[q].rule.priority
    \/ policies[p].rule.priority = policies[q].rule.priority /\ p < q

\* A seeded defect: policies of the whole organization are not asked for.
OwnPolicies(e) ==
    {p \in DOMAIN policies : policies[p].status = "active" /\ policies[p].account = OnAccount[e]}

\* Active policies of the account and of the whole organization; a flagged row
\* is neither active nor does it hold a rule.
Applicable(e) ==
    {p \in DOMAIN policies :
        /\ policies[p].status = "active"
        /\ policies[p].rule # NoRule
        /\ policies[p].account \in {OnAccount[e], "every"}}

Matching(e) == {p \in Applicable(e) : RuleMatches(e, policies[p].rule)}

Evaluate(e) ==
    IF Matching(e) = {}
    THEN [action |-> DefaultAction[OnAccount[e]], policy |-> NoPolicy]
    ELSE LET first == CHOOSE p \in Matching(e) : \A q \in Matching(e) \ {p} : Precedes(p, q)
         IN  [action |-> policies[first].rule.action, policy |-> first]

-----------------------------------------------------------------------------

NoDecision == [action |-> "none", policy |-> NoPolicy]
NoRow == [status |-> "none", action |-> "none", policy |-> NoPolicy]

Init ==
    /\ schema \in {"models", "migrated"}
    /\ accounts = {}
    /\ policies = <<>>
    /\ text = [t \in Text |-> "sent"]
    /\ pc = [e \in Evaluation |-> "sent"]
    /\ decision = [e \in Evaluation |-> NoDecision]
    /\ reply = [e \in Evaluation |-> "none"]
    /\ events = [e \in Evaluation |-> NoRow]
    /\ approvals = {}
    /\ review = [r \in Review |-> "sent"]
    /\ told = [r \in Review |-> "none"]
    /\ lock = [e \in Evaluation |-> Nobody]
    /\ standing = [e \in Evaluation |-> {}]
    /\ faults = 0

Fault ==
    /\ faults < MaxFaults
    /\ faults' = faults + 1

CreateAccount(a) ==
    /\ a \notin accounts
    /\ accounts' = accounts \cup {a}
    /\ UNCHANGED <<schema, policies, text, evaluating, reviewing, tables, faults>>

\* create_policies: one active row per extracted rule, one disabled row per
\* fragment the agent could not encode, all in one transaction.
CreatePolicies(t) ==
    LET rows == DOMAIN Extracted[t]
        row(i) == [account |-> IF OrgWide[t] THEN "every" ELSE ForAccount[t],
                   rule |-> Extracted[t][i],
                   status |-> IF Extracted[t][i] = NoRule THEN "flagged_for_review" ELSE "active"]
    IN
    /\ text[t] = "sent"
    /\ ForAccount[t] \in accounts
    /\ \E id \in [rows -> PolicyId \ DOMAIN policies] :
          /\ \A i, j \in rows : id[i] = id[j] => i = j
          /\ policies' = [p \in DOMAIN policies \cup {id[i] : i \in rows} |->
                             IF p \in DOMAIN policies THEN policies[p]
                             ELSE row(CHOOSE i \in rows : id[i] = p)]
    /\ text' = [text EXCEPT ![t] = "stored"]
    /\ UNCHANGED <<schema, accounts, evaluating, reviewing, tables, faults>>

\* The agent gives up, or the commit fails: nothing of the text is kept.
CreatePoliciesFails(t) ==
    /\ text[t] = "sent"
    /\ ForAccount[t] \in accounts
    /\ Fault
    /\ text' = [text EXCEPT ![t] = "dropped"]
    /\ UNCHANGED <<schema, accounts, policies, evaluating, reviewing, tables>>

-----------------------------------------------------------------------------
\* evaluate_transaction

Goto(e, l) == pc' = [pc EXCEPT ![e] = l]

Reply(e, r) == reply' = [reply EXCEPT ![e] = r]

Receive(e) ==
    /\ pc[e] = "sent"
    /\ standing' = [standing EXCEPT ![e] = DOMAIN policies]
    /\ Goto(e, "account")
    /\ UNCHANGED <<setup, decision, reply, reviewing, tables, faults>>

AccountNotFound(e) ==
    /\ pc[e] = "account"
    /\ OnAccount[e] \notin accounts
    /\ Reply(e, "not_found")
    /\ Goto(e, "done")
    /\ UNCHANGED <<setup, decision, standing, reviewing, tables, faults>>

\* Load the account and the active policies, decide.
LoadAndDecide(e) ==
    /\ pc[e] = "account"
    /\ OnAccount[e] \in accounts
    /\ decision' = [decision EXCEPT ![e] = Evaluate(e)]
    /\ Goto(e, "insert")
    /\ UNCHANGED <<setup, reply, standing, reviewing, tables, faults>>

SamePayment(e, f) ==
    /\ e # f
    /\ OnAccount[e] = OnAccount[f]
    /\ ExternalId[e] = ExternalId[f] /\ ExternalId[e] # NoId

\* A seeded defect: migrations without the unique index on external ids.
NoKey(e, f) == e = f /\ SamePayment(e, f)

\* uq_payment_events_org_account_txn, which only the migrations create.
KeyConflict(e, f) == schema = "migrated" /\ SamePayment(e, f)

\* The index makes an insert wait for the transaction that inserted the key.
InsertWaits(e) == \E f \in Evaluation : KeyConflict(e, f) /\ pc[f] \in {"answer", "commit"}

InsertConflicts(e) == \E f \in Evaluation : KeyConflict(e, f) /\ events[f] # NoRow

\* The id the approval row refers to: the event's, which has none before the flush.
IdBeforeFlush(e) == NoEvent

\* ck_approvals_xor_target_fk, again only of the migrations: the approval of an
\* event must name the event.
ApprovalRefused(e) ==
    schema = "migrated" /\ decision[e].action = "escalate" /\ IdBeforeFlush(e) = NoEvent

\* The flush of the event and, when it is escalated, of its approval row.
Insert(e) ==
    /\ pc[e] = "insert"
    /\ ~InsertWaits(e) /\ ~InsertConflicts(e) /\ ~ApprovalRefused(e)
    /\ Goto(e, "answer")
    /\ UNCHANGED <<setup, decision, reply, standing, reviewing, tables, faults>>

\* An IntegrityError nobody catches: the request fails, its rows are rolled back.
InsertRefused(e) ==
    /\ pc[e] = "insert"
    /\ ~InsertWaits(e)
    /\ InsertConflicts(e) \/ ApprovalRefused(e)
    /\ Reply(e, "error")
    /\ Goto(e, "done")
    /\ UNCHANGED <<setup, decision, standing, reviewing, tables, faults>>

SendReply(e) ==
    /\ pc[e] = "answer"
    /\ Reply(e, decision[e].action)
    /\ Goto(e, "commit")
    /\ UNCHANGED <<setup, decision, standing, reviewing, tables, faults>>

StatusOf(action) ==
    CASE action = "allow" -> "allowed" [] action = "block" -> "blocked" [] action = "escalate" -> "escalated"

\* The row that waits for a person: decision "approved" is its placeholder.
Parked(e) == [event |-> IdBeforeFlush(e), id |-> e, decision |-> "approved", approver |-> Nobody]

CommitEvent(e) ==
    /\ pc[e] = "commit"
    /\ events' = [events EXCEPT ![e] =
                     [status |-> StatusOf(decision[e].action),
                      action |-> decision[e].action,
                      policy |-> decision[e].policy]]
    /\ approvals' = IF decision[e].action = "escalate" THEN approvals \cup {Parked(e)} ELSE approvals
    /\ Goto(e, "done")
    /\ UNCHANGED <<setup, decision, reply, standing, reviewing, faults>>

EvaluationFails(e) ==
    /\ pc[e] \in {"account", "insert", "answer", "commit"}
    /\ Fault
    /\ Goto(e, "lost")
    /\ UNCHANGED <<setup, decision, reply, standing, reviewing, tables>>

-----------------------------------------------------------------------------
\* approve_payment

At(r, l) == review' = [review EXCEPT ![r] = l]

Tell(r, answer) == told' = [told EXCEPT ![r] = answer]

\* A seeded defect: the payment's row is read without FOR UPDATE.
RowReadable(e) == e \in Evaluation

\* FOR UPDATE waits while another review holds the row.
RowFree(e) == lock[e] = Nobody

Undecided(e) == events[e].status = "escalated"

\* No such payment, or one that is not held (any more).
ReviewRefused(r) ==
    /\ review[r] = "sent"
    /\ RowFree(Reviewed[r])
    /\ ~Undecided(Reviewed[r])
    /\ Tell(r, "refused")
    /\ At(r, "done")
    /\ UNCHANGED <<setup, evaluating, lock, tables, faults>>

LockPayment(r) ==
    /\ review[r] = "sent"
    /\ RowFree(Reviewed[r])
    /\ Undecided(Reviewed[r])
    /\ lock' = [lock EXCEPT ![Reviewed[r]] = r]
    /\ At(r, "answer")
    /\ UNCHANGED <<setup, evaluating, told, tables, faults>>

ReviewAnswers(r) ==
    /\ review[r] = "answer"
    /\ Tell(r, Choice[r])
    /\ At(r, "commit")
    /\ UNCHANGED <<setup, evaluating, lock, tables, faults>>

Unlocked(r) == [e \in Evaluation |-> IF lock[e] = r THEN Nobody ELSE lock[e]]

\* The row that waits for this payment: there is none when it names no payment.
Pending(e) == {a \in approvals : a.event = e /\ a.approver = Nobody}

CommitReview(r) ==
    LET e == Reviewed[r] IN
    /\ review[r] = "commit"
    /\ events' = [events EXCEPT ![e].status = Choice[r]]
    /\ approvals' = (approvals \ Pending(e))
                    \cup {[a EXCEPT !.decision = Choice[r], !.approver = r] : a \in Pending(e)}
    /\ lock' = Unlocked(r)
    /\ At(r, "done")
    /\ UNCHANGED <<setup, evaluating, told, faults>>

ReviewFails(r) ==
    /\ review[r] \in {"sent", "answer", "commit"}
    /\ Fault
    /\ lock' = Unlocked(r)
    /\ At(r, "lost")
    /\ UNCHANGED <<setup, evaluating, told, tables>>

-----------------------------------------------------------------------------

Pay(e) ==
    \/ Receive(e)
    \/ AccountNotFound(e)
    \/ LoadAndDecide(e)
    \/ Insert(e)
    \/ InsertRefused(e)
    \/ SendReply(e)
    \/ CommitEvent(e)
    \/ EvaluationFails(e)

Resolve(r) ==
    \/ ReviewRefused(r)
    \/ LockPayment(r)
    \/ ReviewAnswers(r)
    \/ CommitReview(r)
    \/ ReviewFails(r)

AllDone ==
    /\ accounts = Account
    /\ \A t \in Text : text[t] # "sent"
    /\ \A e \in Evaluation : pc[e] \in {"done", "lost"}
    /\ \A r \in Review : review[r] \in {"done", "lost"}
    /\ UNCHANGED vars

Next ==
    \/ \E a \in Account : CreateAccount(a)
    \/ \E t \in Text : CreatePolicies(t) \/ CreatePoliciesFails(t)
    \/ \E e \in Evaluation : Pay(e)
    \/ \E r \in Review : Resolve(r)
    \/ AllDone

Spec == Init /\ [][Next]_vars

-----------------------------------------------------------------------------
\* Properties

Status == {"none", "allowed", "blocked", "escalated", "approved", "rejected"}

\* Every variable has its type; a locked payment is locked by a review of it
\* that is in its transaction.
TypeOK ==
    /\ schema \in {"models", "migrated"}
    /\ accounts \subseteq Account
    /\ DOMAIN policies \subseteq PolicyId
    /\ text \in [Text -> {"sent", "stored", "dropped"}]
    /\ pc \in [Evaluation -> {"sent", "account", "insert", "answer", "commit", "done", "lost"}]
    /\ decision \in [Evaluation -> [action : Action \cup {"none"}, policy : PolicyId \cup {NoPolicy}]]
    /\ reply \in [Evaluation -> Action \cup {"none", "not_found", "error"}]
    /\ events \in [Evaluation -> [status : Status, action : Action \cup {"none"},
                                  policy : PolicyId \cup {NoPolicy}]]
    /\ review \in [Review -> {"sent", "answer", "commit", "done", "lost"}]
    /\ told \in [Review -> {"none", "refused", "approved", "rejected"}]
    /\ lock \in [Evaluation -> Review \cup {Nobody}]
    /\ \A e \in Evaluation : lock[e] # Nobody => Reviewed[lock[e]] = e /\ review[lock[e]] \in {"answer", "commit"}
    /\ faults \in 0..MaxFaults

\* A payment is decided once (FOR UPDATE "serialises concurrent approvals"): a
\* reviewer who got through made the status that stands, whoever else tried.
DecidedOnce ==
    \A r \in Review :
        review[r] = "done" /\ told[r] # "refused" => events[Reviewed[r]].status = told[r]

\* Policy p, of the account or of the whole organization, covers the payment.
Covers(p, e) ==
    /\ policies[p].rule # NoRule
    /\ policies[p].account = "every" \/ policies[p].account = OnAccount[e]
    /\ RuleMatches(e, policies[p].rule)

\* A rule that stood when the payment arrived and covers it is obeyed: the
\* payment was decided by it or by one of no lower precedence, which may have
\* been stored meanwhile.
StandingRulesObeyed ==
    \A e \in Evaluation : \A p \in standing[e] :
        decision[e].action # "none" /\ Covers(p, e)
            => /\ decision[e].policy # NoPolicy
               /\ policies[decision[e].policy].rule.priority <= policies[p].rule.priority

\* In a migrated database no payment of the provider is recorded twice, however
\* often it is sent for evaluation (HIGH-3 in the migration).
OneEventPerPayment ==
    schema = "migrated" =>
        \A e, f \in Evaluation : SamePayment(e, f) => NoRow \in {events[e], events[f]}

\* FR-GD-5: an escalated payment gets an approval row to wait for a person in.
EscalationIsParked ==
    \A e \in Evaluation :
        pc[e] = "done" /\ decision[e].action = "escalate" /\ (reply[e] = "error" => ~InsertConflicts(e))
            => \E a \in approvals : a.event = e
=============================================================================
