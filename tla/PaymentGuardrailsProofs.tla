----------------------- MODULE PaymentGuardrailsProofs -----------------------
(***************************************************************************)
(* Proofs about PaymentGuardrails, for all accounts, texts, payments and   *)
(* reviewers, whatever the rules are and however many faults there are.    *)
(***************************************************************************)
EXTENDS PaymentGuardrails, WellFoundedInduction, TLAPS

-----------------------------------------------------------------------------
\* Types

Place == {"sent", "account", "insert", "answer", "commit", "done", "lost"}
Verdict == [action : Action \cup {"none"}, policy : PolicyId \cup {NoPolicy}]
EventRow == [status : Status, action : Action \cup {"none"}, policy : PolicyId \cup {NoPolicy}]

\* A policy row is active and holds a rule, or is flagged.
PolicyTyped(row) ==
    row.rule # NoRule => /\ row.status = "active"
                         /\ row.rule.action \in Action /\ row.rule.priority \in Nat

PoliciesTyped == \A p \in DOMAIN policies : PolicyTyped(policies[p])

\* An evaluation that inserts has decided.
Decided == \A e \in Evaluation : pc[e] \in {"insert", "answer", "commit"} => decision[e].action \in Action

TypeInv == TypeOK /\ PoliciesTyped /\ Decided

\* A nonempty set of numbers has a least member.
LEMMA LeastExists ==
    ASSUME NEW S \in SUBSET Nat, S # {}
    PROVE  \E x \in S : \A y \in S : x <= y
  <1>1. PICK x \in S : \A y \in S : ~(<<y, x>> \in OpToRel(<, Nat))
    BY NatLessThanWellFounded, WFMin, Zenon
  <1>2. \A y \in S : ~(y < x)
    BY <1>1, Zenon DEF OpToRel
  <1>3. QED
    BY <1>2

\* Among policies that hold a rule one precedes all others: of the least
\* priorities, the least id.
LEMMA FirstExists ==
    ASSUME PaymentAssumption, TypeInv, NEW S \in SUBSET DOMAIN policies, S # {},
           \A p \in S : policies[p].rule # NoRule
    PROVE  \E p \in S : \A q \in S \ {p} : Precedes(p, q)
  <1> DEFINE Priorities == {policies[p].rule.priority : p \in S}
  <1>1. S \subseteq Nat /\ \A p \in S : policies[p].rule.priority \in Nat
    BY DEF TypeInv, TypeOK, PaymentAssumption, PoliciesTyped, PolicyTyped
  <1>2. Priorities \in SUBSET Nat /\ Priorities # {}
    BY <1>1
  <1>3. PICK least \in Priorities : \A n \in Priorities : least <= n
    <2> HIDE DEF Priorities
    <2>1. QED
      BY <1>2, LeastExists
  <1> DEFINE T == {p \in S : policies[p].rule.priority = least}
  <1>4. T \in SUBSET Nat /\ T # {}
    BY <1>1, <1>3
  <1>5. PICK p \in T : \A q \in T : p <= q
    <2> HIDE DEF T
    <2>1. QED
      BY <1>4, LeastExists
  <1>6. SUFFICES ASSUME NEW q \in S \ {p}
                 PROVE  Precedes(p, q)
    BY <1>5
  <1>7. policies[q].rule.priority \in Priorities /\ policies[p].rule.priority = least
    BY <1>5
  <1>8. least <= policies[q].rule.priority
    BY <1>3, <1>7
  <1>9. CASE policies[q].rule.priority = least
    <2>1. p <= q /\ p # q /\ p \in Nat /\ q \in Nat
      BY <1>1, <1>5, <1>9
    <2>2. p < q
      BY <2>1
    <2>3. QED
      BY <1>7, <1>9, <2>2 DEF Precedes
  <1>10. CASE policies[q].rule.priority # least
    BY <1>1, <1>5, <1>7, <1>8, <1>10 DEF Precedes
  <1>11. QED
    BY <1>9, <1>10

\* What Evaluate returns: the default, or the action of the first of the rules
\* that match.
LEMMA EvaluateFirst ==
    ASSUME PaymentAssumption, TypeInv, NEW e \in Evaluation
    PROVE  /\ Evaluate(e) \in Verdict /\ Evaluate(e).action \in Action
           /\ \A p \in Matching(e) :
                 /\ Evaluate(e).policy \in Matching(e)
                 /\ \/ Evaluate(e).policy = p
                    \/ Precedes(Evaluate(e).policy, p)
  <1>1. Matching(e) \in SUBSET DOMAIN policies /\ \A p \in Matching(e) : policies[p].rule # NoRule
    BY DEF Matching, Applicable
  <1>2. CASE Matching(e) = {}
    <2>1. OnAccount[e] \in Account
      BY DEF PaymentAssumption
    <2>2. DefaultAction[OnAccount[e]] \in Action
      BY <2>1 DEF PaymentAssumption, Action
    <2>3. Evaluate(e) = [action |-> DefaultAction[OnAccount[e]], policy |-> NoPolicy]
      BY <1>2 DEF Evaluate
    <2>4. QED
      BY <1>2, <2>2, <2>3 DEF Verdict
  <1>3. CASE Matching(e) # {}
    <2> DEFINE first == CHOOSE p \in Matching(e) : \A q \in Matching(e) \ {p} : Precedes(p, q)
    <2>1. \E p \in Matching(e) : \A q \in Matching(e) \ {p} : Precedes(p, q)
      BY <1>1, <1>3, FirstExists
    <2>2. first \in Matching(e) /\ \A q \in Matching(e) \ {first} : Precedes(first, q)
      BY <2>1
    <2>3. Evaluate(e) = [action |-> policies[first].rule.action, policy |-> first]
      BY <1>3 DEF Evaluate
    <2>4. first \in PolicyId /\ policies[first].rule.action \in Action
      BY <1>1, <2>2 DEF TypeInv, TypeOK, PoliciesTyped, PolicyTyped
    <2> HIDE DEF first
    <2>5. QED
      BY <2>2, <2>3, <2>4 DEF Verdict
  <1>4. QED
    BY <1>2, <1>3

LEMMA InitTypes == PaymentAssumption /\ Init => TypeInv
  <1> SUFFICES ASSUME PaymentAssumption, Init
               PROVE  TypeInv
    OBVIOUS
  <1>1. DOMAIN policies = {}
    BY DEF Init
  <1>2. TypeOK
    BY <1>1 DEF Init, TypeOK, NoDecision, NoRow, Status, PaymentAssumption
  <1>3. QED
    BY <1>1, <1>2 DEF Init, TypeInv, PoliciesTyped, Decided

\* A submission adds typed rows and leaves those that are there.
LEMMA CreateTypes ==
    ASSUME PaymentAssumption, TypeInv, NEW t \in Text, CreatePolicies(t)
    PROVE  /\ DOMAIN policies \subseteq DOMAIN policies' /\ DOMAIN policies' \subseteq PolicyId
           /\ \A p \in DOMAIN policies : policies'[p] = policies[p]
           /\ PoliciesTyped'
  <1> DEFINE rows == DOMAIN Extracted[t]
             row(i) == [account |-> IF OrgWide[t] THEN "every" ELSE ForAccount[t],
                        rule |-> Extracted[t][i],
                        status |-> IF Extracted[t][i] = NoRule THEN "flagged_for_review" ELSE "active"]
  <1>1. PICK id \in [rows -> PolicyId \ DOMAIN policies] :
           policies' = [p \in DOMAIN policies \cup {id[i] : i \in rows} |->
                             IF p \in DOMAIN policies THEN policies[p]
                             ELSE row(CHOOSE i \in rows : id[i] = p)]
    BY DEF CreatePolicies
  <1>2. \A i \in rows : id[i] \in PolicyId \ DOMAIN policies
    BY <1>1
  <1>3. DOMAIN policies' = DOMAIN policies \cup {id[i] : i \in rows}
    BY <1>1
  <1>4. \A p \in DOMAIN policies : policies'[p] = policies[p]
    BY <1>1
  <1>5. \A i \in rows : PolicyTyped(row(i))
    BY DEF PolicyTyped, PaymentAssumption
  <1>6. \A p \in DOMAIN policies' : PolicyTyped(policies'[p])
    <2> SUFFICES ASSUME NEW p \in DOMAIN policies'
                 PROVE  PolicyTyped(policies'[p])
      OBVIOUS
    <2>1. CASE p \in DOMAIN policies
      BY <1>4, <2>1 DEF TypeInv, PoliciesTyped
    <2>2. CASE p \notin DOMAIN policies
      <3> DEFINE j == CHOOSE i \in rows : id[i] = p
      <3>1. \E i \in rows : id[i] = p
        BY <1>3, <2>2
      <3>2. j \in rows
        BY <3>1
      <3>3. policies'[p] = row(j)
        BY <1>1, <1>3, <2>2
      <3> HIDE DEF j, rows, row
      <3>4. QED
        BY <1>5, <3>2, <3>3
    <2>3. QED
      BY <2>1, <2>2
  <1>7. DOMAIN policies' \subseteq PolicyId
    BY <1>2, <1>3 DEF TypeInv, TypeOK
  <1>8. PoliciesTyped'
    BY <1>6 DEF PoliciesTyped
  <1>9. QED
    BY <1>3, <1>4, <1>7, <1>8

LEMMA FaultTyped == TypeOK /\ Fault => faults' \in 0..MaxFaults
  BY PaymentAssumption DEF TypeOK, Fault, PaymentAssumption

\* A step of one evaluation: events grow typed rows, reviews are left alone.
LEMMA PayTypes ==
    ASSUME PaymentAssumption, TypeInv, NEW e \in Evaluation, Pay(e)
    PROVE  TypeInv'
  <1> USE DEF Goto, Reply, setup, reviewing, tables
  <1>1. UNCHANGED <<setup, reviewing>>
    BY DEF Pay, Receive, AccountNotFound, LoadAndDecide, Insert, InsertRefused, SendReply,
           CommitEvent, EvaluationFails
  <1>2. PoliciesTyped'
    BY <1>1 DEF TypeInv, PoliciesTyped
  <1>3. SUFFICES /\ pc' \in [Evaluation -> Place]
                 /\ decision' \in [Evaluation -> Verdict]
                 /\ reply' \in [Evaluation -> Action \cup {"none", "not_found", "error"}]
                 /\ events' \in [Evaluation -> EventRow]
                 /\ faults' \in 0..MaxFaults
                 /\ Decided'
    <2>1. TypeOK'
      BY <1>1, <1>3 DEF TypeInv, TypeOK, Place, Verdict, EventRow
    <2>2. QED
      BY <1>2, <1>3, <2>1 DEF TypeInv
  <1>4. /\ pc \in [Evaluation -> Place] /\ decision \in [Evaluation -> Verdict]
        /\ reply \in [Evaluation -> Action \cup {"none", "not_found", "error"}]
        /\ events \in [Evaluation -> EventRow] /\ faults \in 0..MaxFaults
        /\ Decided
    BY DEF TypeInv, TypeOK, Place, Verdict, EventRow
  <1>5. CASE Receive(e)
    BY <1>4, <1>5 DEF Receive, Place, Decided
  <1>6. CASE AccountNotFound(e)
    BY <1>4, <1>6 DEF AccountNotFound, Place, Decided
  <1>7. CASE LoadAndDecide(e)
    <2>1. Evaluate(e) \in Verdict /\ Evaluate(e).action \in Action
      BY EvaluateFirst
    <2>2. QED
      BY <1>4, <1>7, <2>1 DEF LoadAndDecide, Place, Decided
  <1>8. CASE Insert(e)
    BY <1>4, <1>8 DEF Insert, Place, Decided
  <1>9. CASE InsertRefused(e)
    BY <1>4, <1>9 DEF InsertRefused, Place, Decided
  <1>10. CASE SendReply(e)
    BY <1>4, <1>10 DEF SendReply, Place, Decided
  <1>11. CASE CommitEvent(e)
    <2>1. decision[e] \in Verdict /\ decision[e].action \in Action
      BY <1>4, <1>11 DEF CommitEvent, Decided
    <2>2. StatusOf(decision[e].action) \in Status
      BY <2>1 DEF StatusOf, Status, Action
    <2>3. [status |-> StatusOf(decision[e].action), action |-> decision[e].action,
           policy |-> decision[e].policy] \in EventRow
      BY <2>1, <2>2 DEF EventRow, Verdict
    <2>4. QED
      BY <1>4, <1>11, <2>3 DEF CommitEvent, Place, Decided
  <1>12. CASE EvaluationFails(e)
    BY <1>4, <1>12, FaultTyped DEF EvaluationFails, Place, Decided, TypeInv
  <1>13. QED
    BY <1>5, <1>6, <1>7, <1>8, <1>9, <1>10, <1>11, <1>12 DEF Pay

\* A step of one review; a lock it takes is on the payment it is about.
LEMMA ResolveTypes ==
    ASSUME PaymentAssumption, TypeInv, NEW r \in Review, Resolve(r)
    PROVE  TypeInv'
  <1> USE DEF At, Tell, setup, evaluating, tables
  <1>1. UNCHANGED <<setup, evaluating>>
    BY DEF Resolve, ReviewRefused, LockPayment, ReviewAnswers, CommitReview, ReviewFails
  <1>2. PoliciesTyped' /\ Decided'
    BY <1>1 DEF TypeInv, PoliciesTyped, Decided
  <1> DEFINE Locked == \A e \in Evaluation :
                          lock[e] # Nobody => /\ Reviewed[lock[e]] = e
                                              /\ review[lock[e]] \in {"answer", "commit"}
             Steps == {"sent", "answer", "commit", "done", "lost"}
  <1>3. SUFFICES /\ review' \in [Review -> Steps]
                 /\ told' \in [Review -> {"none", "refused", "approved", "rejected"}]
                 /\ lock' \in [Evaluation -> Review \cup {Nobody}]
                 /\ Locked'
                 /\ events' \in [Evaluation -> EventRow]
                 /\ faults' \in 0..MaxFaults
    <2>1. TypeOK'
      BY <1>1, <1>3 DEF TypeInv, TypeOK, EventRow
    <2>2. QED
      BY <1>2, <2>1 DEF TypeInv
  <1>4. /\ review \in [Review -> Steps]
        /\ told \in [Review -> {"none", "refused", "approved", "rejected"}]
        /\ lock \in [Evaluation -> Review \cup {Nobody}] /\ Locked
        /\ events \in [Evaluation -> EventRow] /\ faults \in 0..MaxFaults
    BY DEF TypeInv, TypeOK, EventRow
  <1>5. Reviewed[r] \in Evaluation /\ Choice[r] \in {"approved", "rejected"} /\ Nobody \notin Review
    BY DEF PaymentAssumption
  <1>6. /\ Unlocked(r) \in [Evaluation -> Review \cup {Nobody}]
        /\ \A e \in Evaluation : Unlocked(r)[e] # Nobody => lock[e] = Unlocked(r)[e] /\ lock[e] # r
    BY <1>4 DEF Unlocked
  <1>7. CASE ReviewRefused(r)
    BY <1>4, <1>7 DEF ReviewRefused, RowFree
  <1>8. CASE LockPayment(r)
    BY <1>4, <1>5, <1>8 DEF LockPayment, RowFree
  <1>9. CASE ReviewAnswers(r)
    BY <1>4, <1>5, <1>9 DEF ReviewAnswers
  <1>10. CASE CommitReview(r)
    <2>1. /\ review' = [review EXCEPT ![r] = "done"] /\ lock' = Unlocked(r)
          /\ told' = told /\ faults' = faults
      BY <1>10 DEF CommitReview
    <2>2. events' = [events EXCEPT ![Reviewed[r]] = [events[Reviewed[r]] EXCEPT !.status = Choice[r]]]
      BY <1>10 DEF CommitReview
    <2>3. [events[Reviewed[r]] EXCEPT !.status = Choice[r]] \in EventRow
      <3>1. Choice[r] \in Status
        BY <1>5 DEF Status
      <3>2. events[Reviewed[r]] \in EventRow
        BY <1>4, <1>5
      <3>3. QED
        BY <3>1, <3>2 DEF EventRow
    <2>4. events' \in [Evaluation -> EventRow]
      BY <1>4, <1>5, <2>2, <2>3
    <2>5. Locked'
      BY <1>4, <1>6, <2>1
    <2>6. QED
      BY <1>4, <1>6, <2>1, <2>4, <2>5
  <1>11. CASE ReviewFails(r)
    BY <1>4, <1>6, <1>11, FaultTyped DEF ReviewFails, TypeInv
  <1>12. QED
    BY <1>7, <1>8, <1>9, <1>10, <1>11 DEF Resolve

LEMMA NextTypes ==
    ASSUME PaymentAssumption, TypeInv, [Next]_vars
    PROVE  TypeInv'
  <1> USE DEF setup, evaluating, reviewing, tables
  <1>1. ASSUME NEW a \in Account, CreateAccount(a)
        PROVE  TypeInv'
    BY <1>1 DEF CreateAccount, TypeInv, TypeOK, PoliciesTyped, Decided
  <1>2. ASSUME NEW t \in Text, CreatePolicies(t)
        PROVE  TypeInv'
    <2>1. PoliciesTyped' /\ DOMAIN policies' \subseteq PolicyId
      BY <1>2, CreateTypes
    <2>2. QED
      BY <1>2, <2>1 DEF CreatePolicies, TypeInv, TypeOK, Decided
  <1>3. ASSUME NEW t \in Text, CreatePoliciesFails(t)
        PROVE  TypeInv'
    BY <1>3, FaultTyped DEF CreatePoliciesFails, TypeInv, TypeOK, PoliciesTyped, Decided
  <1>4. ASSUME NEW e \in Evaluation, Pay(e)
        PROVE  TypeInv'
    BY <1>4, PayTypes
  <1>5. ASSUME NEW r \in Review, Resolve(r)
        PROVE  TypeInv'
    BY <1>5, ResolveTypes
  <1>6. CASE UNCHANGED vars
    BY <1>6 DEF vars, TypeInv, TypeOK, PoliciesTyped, Decided
  <1>7. QED
    BY <1>1, <1>2, <1>3, <1>4, <1>5, <1>6 DEF Next, AllDone

LEMMA TypesHold == Spec => []TypeInv
  <1>1. Init => TypeInv
    BY InitTypes, PaymentAssumption
  <1>2. TypeInv /\ [Next]_vars => TypeInv'
    BY NextTypes, PaymentAssumption
  <1>3. QED
    BY <1>1, <1>2, PTL DEF Spec

\* Every variable has its type in every reachable state, and a locked payment is
\* locked by a review of it that is in its transaction.
THEOREM TypeCorrect == Spec => []TypeOK
  <1>1. TypeInv => TypeOK
    BY DEF TypeInv
  <1>2. QED
    BY <1>1, TypesHold, PTL

-----------------------------------------------------------------------------
\* A held payment is decided once

\* A review in its transaction holds the row, and the payment is still held.
Deciding(r) ==
    review[r] \in {"answer", "commit"} =>
        lock[Reviewed[r]] = r /\ events[Reviewed[r]].status = "escalated"

\* What it answered is what it writes.
Answering(r) == review[r] = "commit" => told[r] = Choice[r]

\* What it wrote stands.
Stands(r) ==
    review[r] = "done" /\ told[r] # "refused" =>
        told[r] # "none" /\ events[Reviewed[r]].status = told[r]

\* A row is written at the end of an evaluation.
RowIsLast == \A e \in Evaluation : events[e].status # "none" => pc[e] = "done"

ReviewInv ==
    /\ RowIsLast
    /\ \A r \in Review : Deciding(r) /\ Answering(r) /\ Stands(r)

\* An evaluation writes a row that no review has seen.
LEMMA PayReviews ==
    ASSUME PaymentAssumption, TypeInv, ReviewInv, NEW e \in Evaluation, Pay(e)
    PROVE  ReviewInv'
  <1> USE DEF Goto, Reply, setup, reviewing, tables
  <1>1. /\ UNCHANGED reviewing
        /\ pc \in [Evaluation -> Place] /\ events \in [Evaluation -> EventRow]
        /\ Reviewed \in [Review -> Evaluation]
    BY DEF Pay, Receive, AccountNotFound, LoadAndDecide, Insert, InsertRefused, SendReply,
           CommitEvent, EvaluationFails, TypeInv, TypeOK, Place, EventRow, PaymentAssumption
  <1>2. CASE CommitEvent(e)
    <2>1. /\ pc[e] = "commit" /\ pc' = [pc EXCEPT ![e] = "done"]
          /\ \A f \in Evaluation \ {e} : events'[f] = events[f]
      BY <1>1, <1>2 DEF CommitEvent
    <2>2. events[e].status = "none"
      BY <2>1 DEF ReviewInv, RowIsLast
    <2>3. RowIsLast'
      BY <1>1, <2>1 DEF ReviewInv, RowIsLast
    <2>4. ASSUME NEW r \in Review
          PROVE  (Deciding(r) /\ Answering(r) /\ Stands(r))'
      <3>1. CASE Reviewed[r] = e
        BY <1>1, <2>2, <3>1 DEF ReviewInv, Deciding, Answering, Stands
      <3>2. CASE Reviewed[r] # e
        BY <1>1, <2>1, <3>2 DEF ReviewInv, Deciding, Answering, Stands
      <3>3. QED
        BY <3>1, <3>2
    <2>5. QED
      BY <2>3, <2>4 DEF ReviewInv
  <1>3. CASE ~CommitEvent(e)
    <2>1. events' = events /\ pc[e] # "done" /\ \A f \in Evaluation \ {e} : pc'[f] = pc[f]
      BY <1>1, <1>3 DEF Pay, Receive, AccountNotFound, LoadAndDecide, Insert, InsertRefused,
                        SendReply, EvaluationFails
    <2>2. QED
      BY <1>1, <2>1 DEF ReviewInv, RowIsLast, Deciding, Answering, Stands
  <1>4. QED
    BY <1>2, <1>3

\* A review decides a payment under its lock.
LEMMA ResolveReviews ==
    ASSUME PaymentAssumption, TypeInv, ReviewInv, NEW r \in Review, Resolve(r)
    PROVE  ReviewInv'
  <1> USE DEF At, Tell, setup, evaluating, tables
  <1>1. /\ pc' = pc
        /\ review \in [Review -> {"sent", "answer", "commit", "done", "lost"}]
        /\ told \in [Review -> {"none", "refused", "approved", "rejected"}]
        /\ lock \in [Evaluation -> Review \cup {Nobody}]
        /\ events \in [Evaluation -> EventRow]
        /\ Reviewed \in [Review -> Evaluation] /\ Nobody \notin Review
        /\ Choice \in [Review -> {"approved", "rejected"}]
    BY DEF Resolve, ReviewRefused, LockPayment, ReviewAnswers, CommitReview, ReviewFails,
           TypeInv, TypeOK, EventRow, PaymentAssumption
  <1>2. /\ \A s \in Review : Deciding(s) /\ Answering(s) /\ Stands(s)
        /\ RowIsLast
    BY DEF ReviewInv
  <1>3. \A e \in Evaluation : lock[e] # r => Unlocked(r)[e] = lock[e]
    BY <1>1 DEF Unlocked
  <1>4. CASE ReviewRefused(r)
    BY <1>1, <1>2, <1>4 DEF ReviewRefused, ReviewInv, RowIsLast, Deciding, Answering, Stands
  <1>5. CASE LockPayment(r)
    <2>1. /\ lock[Reviewed[r]] = Nobody /\ events[Reviewed[r]].status = "escalated"
          /\ lock' = [lock EXCEPT ![Reviewed[r]] = r] /\ review' = [review EXCEPT ![r] = "answer"]
          /\ events' = events /\ told' = told
      BY <1>5 DEF LockPayment, RowFree, Undecided
    <2>2. ASSUME NEW s \in Review
          PROVE  (Deciding(s) /\ Answering(s) /\ Stands(s))'
      BY <1>1, <1>2, <2>1 DEF Deciding, Answering, Stands
    <2>3. QED
      BY <1>1, <1>2, <2>1, <2>2 DEF ReviewInv, RowIsLast
  <1>6. CASE ReviewAnswers(r)
    BY <1>1, <1>2, <1>6 DEF ReviewAnswers, ReviewInv, RowIsLast, Deciding, Answering, Stands
  <1>7. CASE CommitReview(r)
    <2>1. /\ review[r] = "commit" /\ review' = [review EXCEPT ![r] = "done"]
          /\ lock' = Unlocked(r) /\ told' = told
          /\ \A e \in Evaluation \ {Reviewed[r]} : events'[e] = events[e]
      BY <1>1, <1>7 DEF CommitReview
    <2>2. events'[Reviewed[r]].status = Choice[r]
      <3>1. events[Reviewed[r]] \in EventRow
        BY <1>1
      <3>2. events' = [events EXCEPT ![Reviewed[r]] = [events[Reviewed[r]] EXCEPT !.status = Choice[r]]]
        BY <1>7 DEF CommitReview
      <3>3. [events[Reviewed[r]] EXCEPT !.status = Choice[r]].status = Choice[r]
        BY <3>1 DEF EventRow
      <3>4. QED
        BY <1>1, <3>2, <3>3
    <2>3. lock[Reviewed[r]] = r /\ events[Reviewed[r]].status = "escalated" /\ told[r] = Choice[r]
      BY <1>2, <2>1 DEF Deciding, Answering
    <2>4. RowIsLast'
      BY <1>1, <1>2, <2>1, <2>3 DEF RowIsLast
    <2>5. ASSUME NEW s \in Review
          PROVE  (Deciding(s) /\ Answering(s) /\ Stands(s))'
      <3>1. CASE s = r
        BY <1>1, <2>1, <2>2, <2>3, <3>1 DEF Deciding, Answering, Stands
      <3>2. CASE s # r /\ Reviewed[s] = Reviewed[r]
        BY <1>1, <1>2, <2>1, <2>3, <3>2 DEF Deciding, Answering, Stands
      <3>3. CASE s # r /\ Reviewed[s] # Reviewed[r]
        BY <1>1, <1>2, <1>3, <2>1, <3>3 DEF Deciding, Answering, Stands
      <3>4. QED
        BY <3>1, <3>2, <3>3
    <2>6. QED
      BY <2>4, <2>5 DEF ReviewInv
  <1>8. CASE ReviewFails(r)
    <2>1. /\ review' = [review EXCEPT ![r] = "lost"] /\ lock' = Unlocked(r)
          /\ told' = told /\ events' = events
      BY <1>8 DEF ReviewFails
    <2>2. ASSUME NEW s \in Review
          PROVE  (Deciding(s) /\ Answering(s) /\ Stands(s))'
      BY <1>1, <1>2, <1>3, <2>1 DEF Deciding, Answering, Stands
    <2>3. QED
      BY <1>1, <1>2, <2>1, <2>2 DEF ReviewInv, RowIsLast
  <1>9. QED
    BY <1>4, <1>5, <1>6, <1>7, <1>8 DEF Resolve

LEMMA ReviewsHold == Spec => [](TypeInv /\ ReviewInv)
  <1>1. Init => ReviewInv
    BY PaymentAssumption DEF Init, ReviewInv, RowIsLast, Deciding, Answering, Stands, NoRow,
                             PaymentAssumption
  <1>2. TypeInv /\ ReviewInv /\ [Next]_vars => ReviewInv'
    <2> SUFFICES ASSUME TypeInv, ReviewInv, [Next]_vars
                 PROVE  ReviewInv'
      OBVIOUS
    <2> USE PaymentAssumption DEF setup, evaluating, reviewing, tables
    <2>1. CASE \E e \in Evaluation : Pay(e)
      BY <2>1, PayReviews
    <2>2. CASE \E r \in Review : Resolve(r)
      BY <2>2, ResolveReviews
    <2>3. CASE UNCHANGED <<pc, events, review, told, lock>>
      BY <2>3 DEF ReviewInv, RowIsLast, Deciding, Answering, Stands
    <2>4. QED
      BY <2>1, <2>2, <2>3 DEF Next, CreateAccount, CreatePolicies, CreatePoliciesFails, AllDone, vars
  <1>3. QED
    BY <1>1, <1>2, TypesHold, PTL DEF Spec

\* A reviewer who got through made the status that stands, however many reviews
\* of the payment run at once and fail (approve_payment's FOR UPDATE).
THEOREM PaymentDecidedOnce == Spec => []DecidedOnce
  <1>1. TypeInv /\ ReviewInv => DecidedOnce
    BY DEF ReviewInv, Stands, DecidedOnce
  <1>2. QED
    BY <1>1, ReviewsHold, PTL

-----------------------------------------------------------------------------
\* One event per payment of the provider, in a migrated database

\* The evaluation has the key of its payment: inserted, committed or not.
Holding(e) == pc[e] \in {"answer", "commit"} \/ events[e] # NoRow

KeyInv ==
    schema = "migrated" =>
        \A e, f \in Evaluation : SamePayment(e, f) => ~(Holding(e) /\ Holding(f))

\* Only an insert takes a key, and the index lets it do so only if it is free.
LEMMA KeysKept ==
    ASSUME PaymentAssumption, TypeInv, ReviewInv, KeyInv, [Next]_vars
    PROVE  KeyInv'
  <1> USE DEF Goto, Reply, At, Tell, setup, evaluating, reviewing, tables
  <1>1. /\ pc \in [Evaluation -> Place] /\ events \in [Evaluation -> EventRow]
        /\ schema' = schema
    BY DEF Next, Pay, Receive, AccountNotFound, LoadAndDecide, Insert, InsertRefused, SendReply,
           CommitEvent, EvaluationFails, Resolve, ReviewRefused, LockPayment, ReviewAnswers,
           CommitReview, ReviewFails, CreateAccount, CreatePolicies, CreatePoliciesFails, AllDone,
           vars, TypeInv, TypeOK, Place, EventRow
  <1>2. SUFFICES ASSUME NEW e \in Evaluation, NEW f \in Evaluation, SamePayment(e, f),
                        schema = "migrated"
                 PROVE  ~(Holding(e)' /\ Holding(f)')
    BY <1>1 DEF KeyInv, SamePayment
  <1>3. ~(Holding(e) /\ Holding(f)) /\ e # f /\ SamePayment(f, e)
    BY <1>2 DEF KeyInv, SamePayment
  <1>4. ASSUME NEW g \in Evaluation, Insert(g)
        PROVE  ~(Holding(e)' /\ Holding(f)')
    <2>1. /\ events' = events /\ pc' = [pc EXCEPT ![g] = "answer"]
          /\ \A h \in Evaluation : SamePayment(g, h) => ~Holding(h)
      BY <1>2, <1>4 DEF Insert, InsertWaits, InsertConflicts, KeyConflict, Holding
    <2>2. QED
      BY <1>1, <1>2, <1>3, <2>1 DEF Holding
  <1>5. ASSUME NEW g \in Evaluation, Pay(g), ~Insert(g)
        PROVE  \A h \in Evaluation : Holding(h)' => Holding(h)
    BY <1>1, <1>5 DEF Pay, Receive, AccountNotFound, LoadAndDecide, InsertRefused, SendReply,
                      CommitEvent, EvaluationFails, Holding
  <1>6. ASSUME NEW r \in Review, Resolve(r)
        PROVE  \A h \in Evaluation : Holding(h)' => Holding(h)
    <2>1. CASE CommitReview(r)
      <3>1. events[Reviewed[r]].status = "escalated" /\ Reviewed[r] \in Evaluation /\ pc' = pc
        BY <1>6, <2>1 DEF CommitReview, ReviewInv, Deciding, PaymentAssumption
      <3>2. events[Reviewed[r]] # NoRow
        BY <3>1 DEF NoRow
      <3>3. \A h \in Evaluation \ {Reviewed[r]} : events'[h] = events[h]
        BY <1>1, <2>1 DEF CommitReview
      <3>4. QED
        BY <3>1, <3>2, <3>3 DEF Holding
    <2>2. CASE ~CommitReview(r)
      BY <1>6, <2>2 DEF Resolve, ReviewRefused, LockPayment, ReviewAnswers, ReviewFails, Holding
    <2>3. QED
      BY <2>1, <2>2
  <1>7. CASE UNCHANGED <<pc, events>>
    BY <1>3, <1>7 DEF Holding
  <1>8. QED
    BY <1>3, <1>4, <1>5, <1>6, <1>7
       DEF Next, CreateAccount, CreatePolicies, CreatePoliciesFails, AllDone, vars

\* In a migrated database no payment of the provider is recorded twice, however
\* often and however concurrently it is sent for evaluation.
THEOREM PaymentRecordedOnce == Spec => []OneEventPerPayment
  <1>1. Init => KeyInv
    BY DEF Init, KeyInv, Holding, SamePayment
  <1>2. TypeInv /\ ReviewInv /\ KeyInv /\ [Next]_vars => KeyInv'
    BY KeysKept, PaymentAssumption
  <1>3. KeyInv => OneEventPerPayment
    BY DEF KeyInv, Holding, OneEventPerPayment
  <1>4. QED
    BY <1>1, <1>2, <1>3, ReviewsHold, PTL DEF Spec

-----------------------------------------------------------------------------
\* Rules that stood when a payment arrived are obeyed

\* The evaluation looked after it arrived, and what it cites is stored.
StandInv ==
    /\ \A e \in Evaluation :
          /\ standing[e] \subseteq DOMAIN policies
          /\ pc[e] = "sent" => decision[e].action = "none"
          /\ decision[e].policy # NoPolicy => decision[e].policy \in DOMAIN policies
    /\ StandingRulesObeyed

\* New policies change neither the rules that stood nor those that were cited.
LEMMA CreateStands ==
    ASSUME PaymentAssumption, TypeInv, StandInv, NEW t \in Text, CreatePolicies(t)
    PROVE  StandInv'
  <1>1. /\ DOMAIN policies \subseteq DOMAIN policies'
        /\ \A p \in DOMAIN policies : policies'[p] = policies[p]
    BY CreateTypes
  <1>2. decision' = decision /\ standing' = standing /\ pc' = pc
    BY DEF CreatePolicies, evaluating
  <1>3. \A e \in Evaluation : \A p \in standing[e] : Covers(p, e)' => Covers(p, e)
    BY <1>1 DEF StandInv, Covers
  <1>4. QED
    BY <1>1, <1>2, <1>3 DEF StandInv, StandingRulesObeyed

\* A decision is by the first of the rules that match, those that stood included.
LEMMA PayStands ==
    ASSUME PaymentAssumption, TypeInv, StandInv, NEW e \in Evaluation, Pay(e)
    PROVE  StandInv'
  <1> USE DEF Goto, Reply, setup, reviewing, tables
  <1>1. /\ policies' = policies /\ pc \in [Evaluation -> Place]
        /\ decision \in [Evaluation -> Verdict]
    BY DEF Pay, Receive, AccountNotFound, LoadAndDecide, Insert, InsertRefused, SendReply,
           CommitEvent, EvaluationFails, TypeInv, TypeOK, Place, Verdict
  <1>2. \A p : \A f \in Evaluation : Covers(p, f)' <=> Covers(p, f)
    BY <1>1 DEF Covers
  <1>3. CASE Receive(e)
    <2>1. /\ pc[e] = "sent" /\ pc' = [pc EXCEPT ![e] = "account"] /\ decision' = decision
          /\ standing' = [standing EXCEPT ![e] = DOMAIN policies]
      BY <1>3 DEF Receive
    <2>2. decision[e].action = "none"
      BY <2>1 DEF StandInv
    <2>3. \A f \in Evaluation : /\ f # e => standing'[f] = standing[f]
                                /\ standing'[f] \subseteq DOMAIN policies
                                /\ pc'[f] = "sent" => pc[f] = "sent"
      BY <1>1, <2>1 DEF StandInv
    <2>4. QED
      BY <1>1, <1>2, <2>1, <2>2, <2>3 DEF StandInv, StandingRulesObeyed
  <1>4. CASE LoadAndDecide(e)
    <2>1. /\ pc' = [pc EXCEPT ![e] = "insert"] /\ standing' = standing
          /\ decision' = [decision EXCEPT ![e] = Evaluate(e)]
      BY <1>4 DEF LoadAndDecide
    <2>2. \A f \in Evaluation \ {e} : decision'[f] = decision[f]
      BY <1>1, <2>1
    <2>3. decision'[e] = Evaluate(e)
      BY <1>1, <2>1
    <2>4. ASSUME NEW p \in standing[e], Covers(p, e)
          PROVE  /\ Evaluate(e).policy # NoPolicy
                 /\ policies[Evaluate(e).policy].rule.priority <= policies[p].rule.priority
      <3>1. p \in DOMAIN policies /\ policies[p].rule # NoRule
        BY <2>4 DEF StandInv, Covers
      <3>2. policies[p].status = "active" /\ policies[p].rule.priority \in Nat
        BY <3>1 DEF TypeInv, PoliciesTyped, PolicyTyped
      <3>3. p \in Matching(e)
        BY <2>4, <3>1, <3>2 DEF Matching, Applicable, Covers
      <3>4. Evaluate(e).policy \in Matching(e) /\ (Evaluate(e).policy = p \/ Precedes(Evaluate(e).policy, p))
        BY <3>3, EvaluateFirst
      <3>5. Evaluate(e).policy \in PolicyId /\ policies[Evaluate(e).policy].rule.priority \in Nat
        BY <3>4 DEF Matching, Applicable, TypeInv, TypeOK, PoliciesTyped, PolicyTyped
      <3>6. Evaluate(e).policy # NoPolicy
        BY <3>5 DEF PaymentAssumption
      <3>7. QED
        BY <3>2, <3>4, <3>5, <3>6 DEF Precedes
    <2>5. Evaluate(e).policy # NoPolicy => Evaluate(e).policy \in DOMAIN policies
      <3>1. CASE Matching(e) = {}
        BY <3>1 DEF Evaluate
      <3>2. CASE Matching(e) # {}
        BY <3>2, EvaluateFirst DEF Matching, Applicable
      <3>3. QED
        BY <3>1, <3>2
    <2>6. \A f \in Evaluation : /\ standing'[f] \subseteq DOMAIN policies
                                /\ pc'[f] = "sent" => decision'[f].action = "none"
                                /\ decision'[f].policy # NoPolicy => decision'[f].policy \in DOMAIN policies
      BY <1>1, <2>1, <2>2, <2>3, <2>5 DEF StandInv
    <2>7. StandingRulesObeyed'
      BY <1>1, <1>2, <2>1, <2>2, <2>3, <2>4 DEF StandInv, StandingRulesObeyed
    <2>8. QED
      BY <1>1, <2>6, <2>7 DEF StandInv
  <1>5. CASE ~Receive(e) /\ ~LoadAndDecide(e)
    <2>1. /\ standing' = standing /\ decision' = decision
          /\ \A f \in Evaluation : pc'[f] = "sent" => pc[f] = "sent"
      BY <1>1, <1>5 DEF Pay, AccountNotFound, Insert, InsertRefused, SendReply, CommitEvent,
                        EvaluationFails
    <2>2. QED
      BY <1>1, <1>2, <2>1 DEF StandInv, StandingRulesObeyed
  <1>6. QED
    BY <1>3, <1>4, <1>5

\* A rule that stood when the payment arrived and covers it decided it, or one
\* of no lower precedence did (load_policies and evaluate_policies).
THEOREM RulesObeyed == Spec => []StandingRulesObeyed
  <1>1. Init => StandInv
    <2> SUFFICES ASSUME Init
                 PROVE  StandInv
      OBVIOUS
    <2>1. \A e \in Evaluation : /\ standing[e] = {} /\ decision[e].action = "none"
                                /\ decision[e].policy = NoPolicy
      BY DEF Init, NoDecision
    <2>2. QED
      BY <2>1 DEF StandInv, StandingRulesObeyed
  <1>2. TypeInv /\ StandInv /\ [Next]_vars => StandInv'
    <2> SUFFICES ASSUME TypeInv, StandInv, [Next]_vars
                 PROVE  StandInv'
      OBVIOUS
    <2> USE PaymentAssumption DEF setup, evaluating, reviewing, tables
    <2>1. CASE \E e \in Evaluation : Pay(e)
      BY <2>1, PayStands
    <2>2. CASE \E t \in Text : CreatePolicies(t)
      BY <2>2, CreateStands
    <2>3. CASE UNCHANGED <<policies, pc, decision, standing>>
      <3>1. \A p : \A e \in Evaluation : Covers(p, e)' <=> Covers(p, e)
        BY <2>3 DEF Covers
      <3>2. QED
        BY <2>3, <3>1 DEF StandInv, StandingRulesObeyed
    <2>4. QED
      BY <2>1, <2>2, <2>3 DEF Next, CreateAccount, CreatePoliciesFails, Resolve, ReviewRefused,
         LockPayment, ReviewAnswers, CommitReview, ReviewFails, AllDone, vars
  <1>3. StandInv => StandingRulesObeyed
    BY DEF StandInv
  <1>4. QED
    BY <1>1, <1>2, <1>3, TypesHold, PTL DEF Spec
=============================================================================
