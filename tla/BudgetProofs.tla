---------------------------- MODULE BudgetProofs ----------------------------
(***************************************************************************)
(* Proofs about the two budgets: of what an organization spends            *)
(* (SpendAuthorization), for all charges, deliveries, budgets, edits, days *)
(* and faults, and of the tokens of a run (AgentRun), for every number of  *)
(* agents, retries, executions and lost events and all sizes of responses. *)
(* Finitely many of anything is not assumed: at any time finitely many     *)
(* charges have a verdict, and finitely many responses a row.              *)
(*                                                                         *)
(* Both rest on the laws of a total over a finite set.  MapThenSumSet      *)
(* takes a member at a time, the one that CHOOSE names; what a total is    *)
(* worth for a proof is that the order does not matter, and nothing of     *)
(* that is in the library.  No induction over data is used: of the sets    *)
(* that break a law, one is minimal.                                       *)
(***************************************************************************)
EXTENDS SpendAuthorization, AgentRun, FiniteSetTheorems, WellFoundedInduction, TLAPS

-----------------------------------------------------------------------------
\* Functions defined by recursion over a finite set

Total(f, S) == MapThenSumSet(LAMBDA c : f[c], S)

\* The recursive function behind it, and what it means to be that function.
Least(s) == CHOOSE x \in s : TRUE
Unfolded(f, g, s) == IF s = {} THEN 0 ELSE f[Least(s)] + g[s \ {Least(s)}]
Solves(f, g, S) == g = [s \in SUBSET S |-> Unfolded(f, g, s)]
Solution(f, S) == CHOOSE g : Solves(f, g, S)

\* Of the subsets of a finite set that have a property, one is minimal.
LEMMA MinimalSet ==
    ASSUME NEW S, IsFiniteSet(S), NEW B \in SUBSET (SUBSET S), B # {}
    PROVE  \E U \in B : \A V \in B : V \subseteq U => V = U
  <1> DEFINE Order == StrictSubsetOrdering(S)
  <1>1. IsWellFoundedOn(Order, FiniteSubsetsOf(S))
    BY FS_StrictSubsetOrderingWellFounded
  <1>2. B \subseteq FiniteSubsetsOf(S)
    <2>1. \A U \in B : U \in SUBSET S /\ IsFiniteSet(U)
      BY FS_Subset
    <2>2. QED
      BY <2>1 DEF FiniteSubsetsOf
  <1>3. PICK U \in B : \A V \in B : ~(<<V, U>> \in Order)
    <2> HIDE DEF Order
    <2>1. QED
      BY <1>1, <1>2, WFMin
  <1>4. ASSUME NEW V \in B, V \subseteq U, V # U
        PROVE  FALSE
    <2>1. <<V, U>> \in Order
      BY <1>4 DEF StrictSubsetOrdering
    <2>2. QED
      BY <1>3, <2>1
  <1>5. QED
    BY <1>4

\* A member of a nonempty set, and what is left without it.
LEMMA LeastIn == ASSUME NEW S, S # {} PROVE Least(S) \in S
  BY DEF Least

\* A solution, value by value.
LEMMA SolutionValue ==
    ASSUME NEW f, NEW S, NEW g, Solves(f, g, S), NEW U \in SUBSET S
    PROVE  g[U] = Unfolded(f, g, U)
  <1>1. g = [s \in SUBSET S |-> Unfolded(f, g, s)]
    BY DEF Solves
  <1>2. [s \in SUBSET S |-> Unfolded(f, g, s)][U] = Unfolded(f, g, U)
    OBVIOUS
  <1>3. QED
    BY <1>1, <1>2

\* Solutions agree where they are both defined.
LEMMA SolutionsAgree ==
    ASSUME NEW f, NEW S, NEW T, IsFiniteSet(T), NEW g, NEW h,
           Solves(f, g, S), Solves(f, h, T), T \subseteq S
    PROVE  \A U \in SUBSET T : g[U] = h[U]
  <1> DEFINE B == {U \in SUBSET T : g[U] # h[U]}
  <1> SUFFICES ASSUME B # {} PROVE FALSE
    OBVIOUS
  <1>1. PICK U \in B : \A V \in B : V \subseteq U => V = U
    <2>1. B \in SUBSET (SUBSET T)
      OBVIOUS
    <2> HIDE DEF B
    <2>2. QED
      BY <2>1, MinimalSet
  <1>2. g[U] = Unfolded(f, g, U) /\ h[U] = Unfolded(f, h, U)
    BY SolutionValue
  <1>3. U # {}
    BY <1>2 DEF Unfolded
  <1>4. Least(U) \in U
    BY <1>3, LeastIn
  <1>5. U \ {Least(U)} \notin B
    BY <1>1, <1>4
  <1>6. g[U \ {Least(U)}] = h[U \ {Least(U)}]
    BY <1>5
  <1>7. g[U] = h[U]
    BY <1>2, <1>3, <1>6 DEF Unfolded
  <1>8. QED
    BY <1>7

\* There is a solution for every finite set.
LEMMA SolutionExists ==
    ASSUME NEW f, NEW S, IsFiniteSet(S)
    PROVE  Solves(f, Solution(f, S), S)
  <1> DEFINE B == {U \in SUBSET S : ~ \E g : Solves(f, g, U)}
  <1>1. ASSUME B # {} PROVE FALSE
    <2>1. PICK U \in B : \A V \in B : V \subseteq U => V = U
      <3>1. B \in SUBSET (SUBSET S)
        OBVIOUS
      <3> HIDE DEF B
      <3>2. QED
        BY <1>1, <3>1, MinimalSet
    <2>2. \A V \in SUBSET U : V # U => Solves(f, Solution(f, V), V)
      <3> SUFFICES ASSUME NEW V \in SUBSET U, V # U
                   PROVE  Solves(f, Solution(f, V), V)
        OBVIOUS
      <3>1. V \notin B
        BY <2>1
      <3>2. PICK g : Solves(f, g, V)
        BY <3>1
      <3>3. QED
        BY <3>2 DEF Solution
    <2>3. \A V \in SUBSET U : IsFiniteSet(V)
      BY FS_Subset
    <2> DEFINE at(s) == Solution(f, s)[s]
               g == [s \in SUBSET U |-> IF s = {} THEN 0 ELSE f[Least(s)] + at(s \ {Least(s)})]
    <2>4. \A s \in SUBSET U : s # U => g[s] = at(s)
      <3> SUFFICES ASSUME NEW s \in SUBSET U, s # U
                   PROVE  g[s] = at(s)
        OBVIOUS
      <3>1. at(s) = Unfolded(f, Solution(f, s), s)
        BY <2>2, SolutionValue
      <3>2. CASE s = {}
        BY <3>1, <3>2 DEF Unfolded
      <3>3. CASE s # {}
        <4> DEFINE t == s \ {Least(s)}
        <4>1. t \in SUBSET s /\ t \in SUBSET U /\ t # U /\ IsFiniteSet(t)
          BY <2>3
        <4>2. Solution(f, s)[t] = at(t)
          <5>1. Solves(f, Solution(f, s), s) /\ Solves(f, Solution(f, t), t)
            BY <2>2, <4>1
          <5> HIDE DEF t
          <5>2. QED
            BY <4>1, <5>1, SolutionsAgree
        <4>3. QED
          BY <3>1, <3>3, <4>2 DEF Unfolded
      <3>4. QED
        BY <3>2, <3>3
    <2>5. \A s \in SUBSET U : g[s] = Unfolded(f, g, s)
      <3> SUFFICES ASSUME NEW s \in SUBSET U, s # {}
                   PROVE  at(s \ {Least(s)}) = g[s \ {Least(s)}]
        BY DEF Unfolded
      <3>1. Least(s) \in s
        BY LeastIn
      <3>2. s \ {Least(s)} \in SUBSET U /\ s \ {Least(s)} # U
        BY <3>1
      <3>3. QED
        BY <2>4, <3>2
    <2>6. Solves(f, g, U)
      <3>1. g = [s \in SUBSET U |-> g[s]]
        OBVIOUS
      <3> HIDE DEF g
      <3>2. [s \in SUBSET U |-> g[s]] = [s \in SUBSET U |-> Unfolded(f, g, s)]
        BY <2>5
      <3>3. QED
        BY <3>1, <3>2 DEF Solves
    <2>7. QED
      BY <2>1, <2>6
  <1>2. S \notin B
    BY <1>1
  <1>3. PICK g : Solves(f, g, S)
    BY <1>2
  <1>4. QED
    BY <1>3 DEF Solution

-----------------------------------------------------------------------------
\* Totals

\* A total is what the recursion yields: nothing for no members, else a member
\* and the total of the others.
LEMMA TotalUnfolds ==
    ASSUME NEW f, NEW S, IsFiniteSet(S)
    PROVE  Total(f, S) = IF S = {} THEN 0 ELSE f[Least(S)] + Total(f, S \ {Least(S)})
  <1>1. \A T : Total(f, T) = Solution(f, T)[T]
    BY DEF Total, Solution, Solves, Unfolded, Least, MapThenSumSet, MapThenFoldSet
  <1>2. Total(f, S) = Unfolded(f, Solution(f, S), S)
    BY <1>1, SolutionExists, SolutionValue
  <1>3. CASE S = {}
    BY <1>2, <1>3 DEF Unfolded
  <1>4. CASE S # {}
    <2> DEFINE T == S \ {Least(S)}
    <2>1. T \subseteq S /\ IsFiniteSet(T) /\ T \in SUBSET T
      BY FS_Subset
    <2>2. Solves(f, Solution(f, S), S) /\ Solves(f, Solution(f, T), T)
      BY <2>1, SolutionExists
    <2>3. Solution(f, S)[T] = Solution(f, T)[T]
      <3> HIDE DEF T
      <3>1. QED
        BY <2>1, <2>2, SolutionsAgree
    <2>4. QED
      BY <1>1, <1>2, <1>4, <2>3 DEF Unfolded
  <1>5. QED
    BY <1>3, <1>4

\* A total is a number.
LEMMA TotalIsNat ==
    ASSUME NEW f, NEW S, IsFiniteSet(S), \A s \in S : f[s] \in Nat
    PROVE  Total(f, S) \in Nat
  <1> DEFINE B == {U \in SUBSET S : Total(f, U) \notin Nat}
  <1> SUFFICES ASSUME B # {} PROVE FALSE
    OBVIOUS
  <1>1. PICK U \in B : \A V \in B : V \subseteq U => V = U
    <2>1. B \in SUBSET (SUBSET S)
      OBVIOUS
    <2> HIDE DEF B
    <2>2. QED
      BY <2>1, MinimalSet
  <1>2. Total(f, U) = IF U = {} THEN 0 ELSE f[Least(U)] + Total(f, U \ {Least(U)})
    BY TotalUnfolds, FS_Subset
  <1>3. U # {}
    BY <1>2
  <1>4. Least(U) \in U
    BY <1>3, LeastIn
  <1>5. Total(f, U \ {Least(U)}) \in Nat
    BY <1>1, <1>4
  <1>6. f[Least(U)] \in Nat
    BY <1>4
  <1>7. QED
    BY <1>2, <1>3, <1>5, <1>6

\* Any member can be taken out first.
LEMMA TotalTakes ==
    ASSUME NEW f, NEW S, IsFiniteSet(S), \A s \in S : f[s] \in Nat, NEW c \in S
    PROVE  Total(f, S) = f[c] + Total(f, S \ {c})
  <1> DEFINE B == {U \in SUBSET S : \E x \in U : Total(f, U) # f[x] + Total(f, U \ {x})}
  <1> SUFFICES ASSUME B # {} PROVE FALSE
    OBVIOUS
  <1>1. PICK U \in B : \A V \in B : V \subseteq U => V = U
    <2>1. B \in SUBSET (SUBSET S)
      OBVIOUS
    <2> HIDE DEF B
    <2>2. QED
      BY <2>1, MinimalSet
  <1>2. PICK x \in U : Total(f, U) # f[x] + Total(f, U \ {x})
    BY <1>1
  <1> DEFINE y == Least(U)
  <1>3. y \in U
    BY LeastIn
  <1>4. Total(f, U) = f[y] + Total(f, U \ {y})
    BY TotalUnfolds, FS_Subset
  <1> HIDE DEF y
  <1>5. x # y
    BY <1>2, <1>4
  <1>6. U \ {x} \notin B /\ U \ {y} \notin B
    BY <1>1, <1>3
  <1>7. Total(f, U \ {y}) = f[x] + Total(f, (U \ {y}) \ {x})
    BY <1>3, <1>5, <1>6
  <1>8. Total(f, U \ {x}) = f[y] + Total(f, (U \ {x}) \ {y})
    BY <1>3, <1>5, <1>6
  <1>9. (U \ {x}) \ {y} = (U \ {y}) \ {x}
    OBVIOUS
  <1>10. Total(f, (U \ {y}) \ {x}) \in Nat /\ f[x] \in Nat /\ f[y] \in Nat
    <2>1. IsFiniteSet((U \ {y}) \ {x}) /\ \A s \in (U \ {y}) \ {x} : f[s] \in Nat
      BY FS_Subset
    <2>2. QED
      BY <1>3, <2>1, TotalIsNat
  <1>11. Total(f, U) = f[x] + Total(f, U \ {x})
    <2> HIDE DEF B
    <2>1. Total(f, U) = f[y] + (f[x] + Total(f, (U \ {y}) \ {x}))
      BY <1>4, <1>7
    <2>2. Total(f, U \ {x}) = f[y] + Total(f, (U \ {y}) \ {x})
      BY <1>8, <1>9
    <2>3. QED
      BY <1>10, <2>1, <2>2
  <1>12. QED
    BY <1>2, <1>11

\* One member more adds its part.
THEOREM TotalAdds ==
    ASSUME NEW f, NEW S, IsFiniteSet(S), NEW c, c \notin S, \A s \in S \cup {c} : f[s] \in Nat
    PROVE  Total(f, S \cup {c}) = f[c] + Total(f, S)
  <1>1. IsFiniteSet(S \cup {c}) /\ (S \cup {c}) \ {c} = S
    BY FS_AddElement
  <1>2. QED
    BY <1>1, TotalTakes

\* No members, no total.
LEMMA TotalOfNone == ASSUME NEW f PROVE Total(f, {}) = 0
  BY TotalUnfolds, FS_EmptySet

\* More members, no smaller total.
LEMMA TotalGrows ==
    ASSUME NEW f, NEW S, NEW T, IsFiniteSet(T), S \subseteq T, \A s \in T : f[s] \in Nat
    PROVE  Total(f, S) <= Total(f, T)
  <1> DEFINE B == {U \in SUBSET T : S \subseteq U /\ ~(Total(f, S) <= Total(f, U))}
  <1> SUFFICES ASSUME B # {} PROVE FALSE
    OBVIOUS
  <1>1. PICK U \in B : \A V \in B : V \subseteq U => V = U
    <2>1. B \in SUBSET (SUBSET T)
      OBVIOUS
    <2> HIDE DEF B
    <2>2. QED
      BY <2>1, MinimalSet
  <1>2. IsFiniteSet(S) /\ IsFiniteSet(U)
    BY FS_Subset
  <1>3. Total(f, S) \in Nat /\ Total(f, U) \in Nat
    BY <1>2, TotalIsNat
  <1>4. U # S
    BY <1>1, <1>3
  <1>5. PICK c \in U : c \notin S
    BY <1>1, <1>4
  <1>6. U \ {c} \notin B
    BY <1>1, <1>5
  <1>7. Total(f, S) <= Total(f, U \ {c})
    BY <1>1, <1>5, <1>6
  <1>8. Total(f, U) = f[c] + Total(f, U \ {c})
    BY <1>2, TotalTakes
  <1>9. Total(f, U \ {c}) \in Nat /\ f[c] \in Nat
    <2>1. IsFiniteSet(U \ {c})
      BY <1>2, FS_Subset
    <2>2. QED
      BY <2>1, TotalIsNat
  <1>10. Total(f, S) <= Total(f, U)
    BY <1>3, <1>7, <1>8, <1>9
  <1>11. QED
    BY <1>1, <1>10

\* A total depends on its members' parts and on nothing else.
LEMMA TotalSame ==
    ASSUME NEW f, NEW g, NEW S, IsFiniteSet(S), \A s \in S : f[s] = g[s]
    PROVE  Total(f, S) = Total(g, S)
  <1> DEFINE B == {U \in SUBSET S : Total(f, U) # Total(g, U)}
  <1> SUFFICES ASSUME B # {} PROVE FALSE
    OBVIOUS
  <1>1. PICK U \in B : \A V \in B : V \subseteq U => V = U
    <2>1. B \in SUBSET (SUBSET S)
      OBVIOUS
    <2> HIDE DEF B
    <2>2. QED
      BY <2>1, MinimalSet
  <1>2. /\ Total(f, U) = IF U = {} THEN 0 ELSE f[Least(U)] + Total(f, U \ {Least(U)})
        /\ Total(g, U) = IF U = {} THEN 0 ELSE g[Least(U)] + Total(g, U \ {Least(U)})
    BY TotalUnfolds, FS_Subset
  <1>3. U # {}
    BY <1>2
  <1>4. Least(U) \in U
    BY <1>3, LeastIn
  <1>5. U \ {Least(U)} \notin B
    BY <1>1, <1>4
  <1>6. QED
    BY <1>2, <1>3, <1>4, <1>5

-----------------------------------------------------------------------------
\* SpendAuthorization: the inductive invariant

\* A delivery that has decided, and one that has inserted its row.
Deciding == {"insert", "answer", "notify", "commit"}
Inserted == {"answer", "notify", "commit"}

\* A delivery whose verdict stands on a total locks the budget it totalled.
Holding(d) == /\ pc[d] \in Deciding
              /\ verdict[d].decision = "approved"
              /\ seen[d].interval # "per_authorization"

\* No row is deleted, and none had a higher limit than its highest.
RowsKept ==
    /\ \A b \in Budget : budget[b] # NoBudget => budget[b].limit <= highest[b]
    /\ \A e \in Edit : found[e].row # NoBudget =>
          found[e].id \in Budget /\ budget[found[e].id] # NoBudget

\* A delivery goes by a row that it loaded, that matches its charge, and whose
\* limit was the budget's at some time; what a budget is for never changes.
Picked ==
    \A d \in Delivery :
        /\ pick[d] # NoBudget =>
              /\ seen[d] \in BudgetRow /\ budget[pick[d]] \in BudgetRow
              /\ SameScope(seen[d], budget[pick[d]])
              /\ seen[d].limit <= highest[pick[d]]
              /\ Matches(Of[d], seen[d].dim, seen[d].value)
        /\ pc[d] = "lock" => pick[d] # NoBudget /\ seen[d].interval # "per_authorization"

Decided ==
    \A d \in Delivery :
        /\ pc[d] \in Deciding => verdict[d].decision \in {"approved", "declined"}
        /\ pc[d] \in Deciding /\ verdict[d].decision = "approved" => pick[d] # NoBudget
        /\ Holding(d) => lock[pick[d]] = d

\* One delivery of a charge at a time has inserted a row, the first one ever.
OneInsert ==
    \A d \in Delivery : pc[d] \in Inserted =>
        /\ authz[Of[d]].decision = "none"
        /\ \A e \in Delivery : pc[e] \in Inserted /\ Of[e] = Of[d] => e = d

Answered ==
    \A d \in Delivery :
        /\ pc[d] \in {"notify", "commit"} => reply[d] = verdict[d].decision
        /\ pc[d] = "notify" => verdict[d].decision = "declined"

\* Beyond the message of the verdict that is recorded, or about to be, each
\* message was followed by a fault.
Told(c) ==
    \/ authz[c].decision # "none"
    \/ \E d \in Delivery : Of[d] = c /\ pc[d] = "commit"

DeclineTold(c) ==
    \/ authz[c].decision = "declined"
    \/ \E d \in Delivery : Of[d] = c /\ pc[d] = "commit" /\ verdict[d].decision = "declined"

Messages ==
    \A c \in Charge :
        /\ notified[c] <= IF Told(c) THEN 1 + faults ELSE faults
        /\ notified[c] > 0 /\ faults = 0 => DeclineTold(c)

\* An approved charge is on a budget that matches it.
Sourced ==
    \A c \in Charge : authz[c].decision = "approved" =>
        /\ authz[c].budget # NoBudget
        /\ budget[authz[c].budget] \in BudgetRow
        /\ Matches(c, budget[authz[c].budget].dim, budget[authz[c].budget].value)

Verdicts == {c \in Charge : authz[c].decision # "none"}

IInv == /\ TypeOK /\ RowsKept /\ Picked /\ Decided /\ OneInsert
        /\ Answered /\ ReplyIsRecorded /\ Messages /\ Sourced /\ IsFiniteSet(Verdicts)

-----------------------------------------------------------------------------
\* The accounts

\* The spelling a charge and a budget share: _rule_matches ignores case and
\* _spend_so_far does not, so totals are complete only if it is one and the same.
\* (MCSpendSpelling shows what happens otherwise.)
Spelled(row) == \A c \in Charge : Matches(c, row.dim, row.value) => Field[c][row.dim] = row.value

OneSpelling ==
    /\ \A b \in Budget : FirstBudgets[b] # NoBudget => Spelled(FirstBudgets[b])
    /\ \A e \in Edit : Spelled(Wanted[e].budget)

\* The accounts of a budget, as functions of the recorded rows.
On(written, b, I) ==
    {c \in Charge : written[c].decision = "approved" /\ written[c].budget = b /\ written[c].interval \in I}
OnDay(written, b, k) ==
    {c \in On(written, b, {"daily", "all_time"}) : written[c].created = k /\ written[c].decided = k}

Limits(written, high) ==
    \A b \in Budget :
        /\ SumAmounts(On(written, b, {"all_time"})) <= high[b]
        /\ \A k \in 0..MaxDay : SumAmounts(OnDay(written, b, k)) <= high[b]
        /\ \A c \in On(written, b, {"per_authorization"}) : Amount[c] <= high[b]

\* What an approval adds to its account leaves it within the limit it was given by.
Fits(written, c, b, limit, interval, from, to) ==
    /\ interval = "all_time" => SumAmounts(On(written, b, {"all_time"})) + Amount[c] <= limit
    /\ interval # "per_authorization" /\ from = to => SumAmounts(OnDay(written, b, from)) + Amount[c] <= limit
    /\ interval = "per_authorization" => Amount[c] <= limit

\* The approval in hand does.
InTransit ==
    \A d \in Delivery : pc[d] \in Deciding /\ verdict[d].decision = "approved" =>
        Fits(authz, Of[d], pick[d], seen[d].limit, seen[d].interval, begun[d], verdict[d].day)

Accounts == /\ \A b \in Budget : budget[b] # NoBudget => Spelled(budget[b])
            /\ InTransit /\ Limits(authz, highest)

-----------------------------------------------------------------------------
\* The steps of a delivery that commit nothing

LEMMA QuietSteps ==
    ASSUME SpendAssumption, IInv, NEW d \in Delivery,
           \/ Receive(d) \/ Replay(d) \/ DeclineUnknownCard(d) \/ LoadDeclines(d)
           \/ LoadCompares(d) \/ LoadBudget(d) \/ LockAndTotal(d) \/ Insert(d)
           \/ InsertDuplicate(d) \/ SendAnswer(d) \/ Notify(d) \/ FailClosed(d) \/ Crash(d)
    PROVE  IInv'
  <1> USE DEF IInv, Fault, Goto, Answer, Decide, Pick, tables, request, replies, editing, bounds
  <1>1. UNCHANGED <<tables, editing, day>>
    BY DEF Receive, Replay, DeclineUnknownCard, LoadDeclines, LoadCompares, LoadBudget,
           LockAndTotal, Insert, InsertDuplicate, SendAnswer, Notify, FailClosed, Crash
  <1>2. /\ RowsKept' /\ Sourced' /\ IsFiniteSet(Verdicts)'
    BY <1>1 DEF RowsKept, Sourced, Matches, Verdicts
  <1>3. /\ Of[d] \in Charge /\ Amount[Of[d]] \in Nat
        /\ authz[Of[d]].decision \in Verdict
    BY SpendAssumption DEF SpendAssumption, TypeOK, AuthzRow
  <1>4. NoBudget \notin Budget \cup Delivery \cup BudgetRow
    BY SpendAssumption DEF SpendAssumption
  <1>5. faults \in Nat /\ notified \in [Charge -> Nat]
    BY SpendAssumption DEF TypeOK, SpendAssumption
  <1>6. CASE Receive(d)
    <2>1. TypeOK'
      BY <1>6, SpendAssumption DEF Receive, TypeOK, Location, Verdict, MaybeRow, Unlock, SpendAssumption
    <2>2. Picked'
      BY <1>6 DEF Receive, TypeOK, Picked, Unlock, Matches
    <2>3. Decided'
      BY <1>6 DEF Receive, TypeOK, Decided, Holding, Deciding, Unlock
    <2>4. OneInsert'
      BY <1>6 DEF Receive, TypeOK, OneInsert, Inserted
    <2>5. Answered' /\ ReplyIsRecorded'
      BY <1>6 DEF Receive, TypeOK, Answered, ReplyIsRecorded
    <2>6. Messages'
      BY <1>6 DEF Receive, TypeOK, Messages, Told, DeclineTold
    <2>7. QED
      BY <1>2, <2>1, <2>2, <2>3, <2>4, <2>5, <2>6
  <1>7. CASE Replay(d)
    <2>1. TypeOK'
      BY <1>3, <1>4, <1>7 DEF Replay, TypeOK, Location, Verdict, MaybeRow, Unlock
    <2>2. Picked'
      BY <1>7 DEF Replay, TypeOK, Picked, Unlock, Matches
    <2>3. Decided'
      BY <1>7 DEF Replay, TypeOK, Decided, Holding, Deciding, Unlock
    <2>4. OneInsert'
      BY <1>7 DEF Replay, TypeOK, OneInsert, Inserted
    <2>5. Answered' /\ ReplyIsRecorded'
      BY <1>7 DEF Replay, TypeOK, Answered, ReplyIsRecorded
    <2>6. Messages'
      BY <1>7 DEF Replay, TypeOK, Messages, Told, DeclineTold
    <2>7. QED
      BY <1>2, <2>1, <2>2, <2>3, <2>4, <2>5, <2>6
  <1>8. CASE DeclineUnknownCard(d)
    <2>1. TypeOK'
      BY <1>8, SpendAssumption DEF DeclineUnknownCard, TypeOK, Location, Verdict, MaybeRow, Unlock, SpendAssumption
    <2>2. Picked'
      BY <1>8 DEF DeclineUnknownCard, TypeOK, Picked, Unlock, Matches
    <2>3. Decided'
      BY <1>8 DEF DeclineUnknownCard, TypeOK, Decided, Holding, Deciding, Unlock
    <2>4. OneInsert'
      BY <1>8 DEF DeclineUnknownCard, TypeOK, OneInsert, Inserted
    <2>5. Answered' /\ ReplyIsRecorded'
      BY <1>8 DEF DeclineUnknownCard, TypeOK, Answered, ReplyIsRecorded
    <2>6. Messages'
      BY <1>8 DEF DeclineUnknownCard, TypeOK, Messages, Told, DeclineTold
    <2>7. QED
      BY <1>2, <2>1, <2>2, <2>3, <2>4, <2>5, <2>6
  <1>9. CASE LoadDeclines(d)
    <2>1. TypeOK'
      BY <1>9, SpendAssumption DEF LoadDeclines, TypeOK, Location, Verdict, MaybeRow, Unlock, SpendAssumption
    <2>2. Picked'
      BY <1>9 DEF LoadDeclines, TypeOK, Picked, Unlock, Matches
    <2>3. Decided'
      BY <1>9 DEF LoadDeclines, TypeOK, Decided, Holding, Deciding, Unlock
    <2>4. OneInsert'
      BY <1>9 DEF LoadDeclines, TypeOK, OneInsert, Inserted
    <2>5. Answered' /\ ReplyIsRecorded'
      BY <1>9 DEF LoadDeclines, TypeOK, Answered, ReplyIsRecorded
    <2>6. Messages'
      BY <1>9 DEF LoadDeclines, TypeOK, Messages, Told, DeclineTold
    <2>7. QED
      BY <1>2, <2>1, <2>2, <2>3, <2>4, <2>5, <2>6
  <1>10. CASE LoadCompares(d)
    <2>0. PICK b \in MostSpecific(Of[d]) :
             budget[b].interval = "per_authorization" /\ Decide(d, Decision(Amount[Of[d]] <= budget[b].limit)) /\ Pick(d, b)
      BY <1>10 DEF LoadCompares
    <2>1. /\ b \in Budget /\ budget[b] \in BudgetRow /\ Matches(Of[d], budget[b].dim, budget[b].value)
          /\ budget[b].limit <= highest[b]
      BY DEF MostSpecific, Candidates, Existing, TypeOK, MaybeRow, RowsKept
    <2>2. TypeOK'
      BY <1>3, <1>4, <1>10, <2>0, <2>1 DEF LoadCompares, TypeOK, Location, Verdict, MaybeRow, Decision
    <2>3. Picked'
      <3>1. /\ pick' = [pick EXCEPT ![d] = b] /\ seen' = [seen EXCEPT ![d] = budget[b]]
            /\ pc' = [pc EXCEPT ![d] = "insert"] /\ UNCHANGED <<budget, highest>>
        BY <1>10, <2>0 DEF LoadCompares
      <3>2. \A e \in Delivery \ {d} : pick'[e] = pick[e] /\ seen'[e] = seen[e] /\ pc'[e] = pc[e]
        BY <3>1 DEF TypeOK
      <3>3. pick'[d] = b /\ seen'[d] = budget[b] /\ pc'[d] = "insert"
        BY <3>1 DEF TypeOK
      <3>4. /\ seen'[d] \in BudgetRow /\ budget'[pick'[d]] \in BudgetRow
            /\ SameScope(seen'[d], budget'[pick'[d]])
            /\ seen'[d].limit <= highest'[pick'[d]]
            /\ Matches(Of[d], seen'[d].dim, seen'[d].value)
        BY <2>1, <3>1, <3>3 DEF SameScope
      <3>5. pc'[d] = "lock" => pick'[d] # NoBudget /\ seen'[d].interval # "per_authorization"
        BY <1>4, <2>0, <2>1, <3>3
      <3>6. QED
        BY <3>1, <3>2, <3>4, <3>5 DEF Picked
    <2>4. Decided'
      BY <1>3, <1>4, <1>10, <2>0, <2>1 DEF LoadCompares, TypeOK, Decided, Holding, Deciding, Decision
    <2>5. OneInsert'
      BY <1>10 DEF LoadCompares, TypeOK, OneInsert, Inserted
    <2>6. Answered' /\ ReplyIsRecorded'
      BY <1>10 DEF LoadCompares, TypeOK, Answered, ReplyIsRecorded
    <2>7. Messages'
      BY <1>10 DEF LoadCompares, TypeOK, Messages, Told, DeclineTold
    <2>8. QED
      BY <1>2, <2>2, <2>3, <2>4, <2>5, <2>6, <2>7
  <1>11. CASE LoadBudget(d)
    <2>0. PICK b \in MostSpecific(Of[d]) :
             budget[b].interval # "per_authorization" /\ Pick(d, b)
      BY <1>11 DEF LoadBudget
    <2>1. /\ b \in Budget /\ budget[b] \in BudgetRow /\ Matches(Of[d], budget[b].dim, budget[b].value)
          /\ budget[b].limit <= highest[b]
      BY DEF MostSpecific, Candidates, Existing, TypeOK, MaybeRow, RowsKept
    <2>2. TypeOK'
      BY <1>3, <1>4, <1>11, <2>0, <2>1 DEF LoadBudget, TypeOK, Location, Verdict, MaybeRow, Decision
    <2>3. Picked'
      <3>1. /\ pick' = [pick EXCEPT ![d] = b] /\ seen' = [seen EXCEPT ![d] = budget[b]]
            /\ pc' = [pc EXCEPT ![d] = "lock"] /\ UNCHANGED <<budget, highest>>
        BY <1>11, <2>0 DEF LoadBudget
      <3>2. \A e \in Delivery \ {d} : pick'[e] = pick[e] /\ seen'[e] = seen[e] /\ pc'[e] = pc[e]
        BY <3>1 DEF TypeOK
      <3>3. pick'[d] = b /\ seen'[d] = budget[b] /\ pc'[d] = "lock"
        BY <3>1 DEF TypeOK
      <3>4. /\ seen'[d] \in BudgetRow /\ budget'[pick'[d]] \in BudgetRow
            /\ SameScope(seen'[d], budget'[pick'[d]])
            /\ seen'[d].limit <= highest'[pick'[d]]
            /\ Matches(Of[d], seen'[d].dim, seen'[d].value)
        BY <2>1, <3>1, <3>3 DEF SameScope
      <3>5. pc'[d] = "lock" => pick'[d] # NoBudget /\ seen'[d].interval # "per_authorization"
        BY <1>4, <2>0, <2>1, <3>3
      <3>6. QED
        BY <3>1, <3>2, <3>4, <3>5 DEF Picked
    <2>4. Decided'
      BY <1>3, <1>4, <1>11, <2>0, <2>1 DEF LoadBudget, TypeOK, Decided, Holding, Deciding, Decision
    <2>5. OneInsert'
      BY <1>11 DEF LoadBudget, TypeOK, OneInsert, Inserted
    <2>6. Answered' /\ ReplyIsRecorded'
      BY <1>11 DEF LoadBudget, TypeOK, Answered, ReplyIsRecorded
    <2>7. Messages'
      BY <1>11 DEF LoadBudget, TypeOK, Messages, Told, DeclineTold
    <2>8. QED
      BY <1>2, <2>2, <2>3, <2>4, <2>5, <2>6, <2>7
  <1>12. CASE LockAndTotal(d)
    <2>1. TypeOK'
      <3>1. pick[d] \in Budget
        BY <1>12 DEF LockAndTotal, TypeOK, Picked
      <3>2. lock' = [lock EXCEPT ![pick[d]] = d] /\ lock[pick[d]] = Nobody
        BY <1>12 DEF LockAndTotal, BudgetFree
      <3>3. verdict' \in [Delivery -> [decision : Verdict, day : 0..MaxDay]]
        BY <1>12 DEF LockAndTotal, TypeOK, Decision, Verdict
      <3>4. pc' = [pc EXCEPT ![d] = "insert"] /\ pc[d] = "lock"
        BY <1>12 DEF LockAndTotal
      <3>5. \A b \in Budget : lock'[b] # Nobody => pc'[lock'[b]] \in {"insert", "answer", "notify", "commit"}
        BY <1>4, <3>1, <3>2, <3>4 DEF TypeOK
      <3>6. UNCHANGED <<tables, begun, pick, seen, replies, editing, bounds>>
        BY <1>12 DEF LockAndTotal
      <3>7. QED
        BY <3>1, <3>2, <3>3, <3>4, <3>5, <3>6 DEF TypeOK, Location
    <2>2. Picked'
      BY <1>12 DEF LockAndTotal, TypeOK, Picked, Unlock, Matches
    <2>3. Decided'
      <3>1. pick[d] \in Budget /\ pick[d] # NoBudget
        BY <1>12 DEF LockAndTotal, TypeOK, Picked
      <3>2. lock' = [lock EXCEPT ![pick[d]] = d] /\ lock[pick[d]] = Nobody
        BY <1>12 DEF LockAndTotal, BudgetFree
      <3>3. \A e \in Delivery \ {d} : pc'[e] = pc[e] /\ verdict'[e] = verdict[e]
        BY <1>12 DEF LockAndTotal, TypeOK
      <3>4. verdict'[d].decision \in {"approved", "declined"} /\ UNCHANGED <<pick, seen>>
        BY <1>12 DEF LockAndTotal, Decision, TypeOK
      <3>5. \A e \in Delivery : Holding(e) => lock[pick[e]] = e /\ e # Nobody /\ pick[e] \in Budget
        <4>1. \A e \in Delivery : Holding(e) => pick[e] # NoBudget /\ lock[pick[e]] = e
          BY DEF Decided, Holding
        <4>2. QED
          BY <1>4, <4>1 DEF TypeOK, Nobody
      <3>6. \A e \in Delivery \ {d} : Holding(e)' => Holding(e)
        BY <3>3, <3>4 DEF Holding
      <3>7. \A e \in Delivery : Holding(e)' => lock'[pick'[e]] = e
        BY <3>1, <3>2, <3>4, <3>5, <3>6 DEF TypeOK
      <3>8. QED
        BY <3>1, <3>3, <3>4, <3>7 DEF Decided
    <2>4. OneInsert'
      BY <1>12 DEF LockAndTotal, TypeOK, OneInsert, Inserted
    <2>5. Answered' /\ ReplyIsRecorded'
      BY <1>12 DEF LockAndTotal, TypeOK, Answered, ReplyIsRecorded
    <2>6. Messages'
      BY <1>12 DEF LockAndTotal, TypeOK, Messages, Told, DeclineTold
    <2>7. QED
      BY <1>2, <2>1, <2>2, <2>3, <2>4, <2>5, <2>6
  <1>13. CASE Insert(d)
    <2>1. TypeOK'
      BY <1>13, SpendAssumption DEF Insert, TypeOK, Location, Verdict, MaybeRow, Unlock, SpendAssumption
    <2>2. Picked'
      BY <1>13 DEF Insert, TypeOK, Picked, Unlock, Matches
    <2>3. Decided'
      BY <1>13 DEF Insert, TypeOK, Decided, Holding, Deciding, Unlock
    <2>4. OneInsert'
      BY <1>3, <1>13 DEF Insert, TypeOK, OneInsert, Inserted, InsertBlocked, Duplicate, Recorded
    <2>5. Answered' /\ ReplyIsRecorded'
      BY <1>13 DEF Insert, TypeOK, Answered, ReplyIsRecorded
    <2>6. Messages'
      BY <1>13 DEF Insert, TypeOK, Messages, Told, DeclineTold
    <2>7. QED
      BY <1>2, <2>1, <2>2, <2>3, <2>4, <2>5, <2>6
  <1>14. CASE InsertDuplicate(d)
    <2>1. TypeOK'
      BY <1>3, <1>4, <1>14 DEF InsertDuplicate, TypeOK, Location, Verdict, MaybeRow, Unlock
    <2>2. Picked'
      BY <1>14 DEF InsertDuplicate, TypeOK, Picked, Unlock, Matches
    <2>3. Decided'
      BY <1>14 DEF InsertDuplicate, TypeOK, Decided, Holding, Deciding, Unlock
    <2>4. OneInsert'
      BY <1>14 DEF InsertDuplicate, TypeOK, OneInsert, Inserted
    <2>5. Answered' /\ ReplyIsRecorded'
      BY <1>14 DEF InsertDuplicate, TypeOK, Answered, ReplyIsRecorded
    <2>6. Messages'
      BY <1>14 DEF InsertDuplicate, TypeOK, Messages, Told, DeclineTold
    <2>7. QED
      BY <1>2, <2>1, <2>2, <2>3, <2>4, <2>5, <2>6
  <1>15. CASE SendAnswer(d)
    <2>1. TypeOK'
      BY <1>15, SpendAssumption DEF SendAnswer, TypeOK, Location, Verdict, MaybeRow, Unlock, SpendAssumption
    <2>2. Picked'
      BY <1>15 DEF SendAnswer, TypeOK, Picked, Unlock, Matches
    <2>3. Decided'
      BY <1>15 DEF SendAnswer, TypeOK, Decided, Holding, Deciding, Unlock
    <2>4. OneInsert'
      BY <1>15 DEF SendAnswer, TypeOK, OneInsert, Inserted
    <2>5. Answered' /\ ReplyIsRecorded'
      BY <1>15 DEF SendAnswer, TypeOK, Answered, ReplyIsRecorded, TellsHolder
    <2>6. Messages'
      BY <1>15 DEF SendAnswer, TypeOK, Messages, Told, DeclineTold
    <2>7. QED
      BY <1>2, <2>1, <2>2, <2>3, <2>4, <2>5, <2>6
  <1>16. CASE Notify(d)
    <2>0. notified' \in [Charge -> Nat]
      <3>1. notified' = [notified EXCEPT ![Of[d]] = @ + 1] \/ notified' = notified
        BY <1>16 DEF Notify
      <3>2. QED
        BY <1>3, <1>5, <3>1
    <2>1. TypeOK'
      BY <1>16, <2>0 DEF Notify, TypeOK, Location
    <2>2. Picked'
      BY <1>16 DEF Notify, TypeOK, Picked, Unlock, Matches
    <2>3. Decided'
      BY <1>16 DEF Notify, TypeOK, Decided, Holding, Deciding, Unlock
    <2>4. OneInsert'
      BY <1>16 DEF Notify, TypeOK, OneInsert, Inserted
    <2>5. Answered' /\ ReplyIsRecorded'
      BY <1>16 DEF Notify, TypeOK, Answered, ReplyIsRecorded
    <2>6. Messages'
      <3>1. /\ pc[d] = "notify" /\ pc' = [pc EXCEPT ![d] = "commit"] /\ verdict[d].decision = "declined"
            /\ UNCHANGED <<authz, verdict, faults>>
            /\ notified' = notified \/ notified' = [notified EXCEPT ![Of[d]] = @ + 1]
        BY <1>16 DEF Notify, Answered
      <3>2. ~Told(Of[d])
        BY <3>1 DEF Told, OneInsert, Inserted
      <3>3. DeclineTold(Of[d])' /\ Told(Of[d])'
        BY <3>1 DEF Told, DeclineTold, TypeOK
      <3>4. \A c \in Charge : (Told(c) => Told(c)') /\ (DeclineTold(c) => DeclineTold(c)')
        BY <3>1 DEF Told, DeclineTold, TypeOK
      <3>5. notified[Of[d]] <= faults
        BY <1>3, <3>2 DEF Messages
      <3>6. \A c \in Charge : notified'[c] = notified[c] \/ (c = Of[d] /\ notified'[c] = notified[c] + 1)
        BY <1>3, <1>5, <3>1
      <3>7. QED
        BY <1>5, <3>1, <3>3, <3>4, <3>5, <3>6 DEF Messages
    <2>7. QED
      BY <1>2, <2>1, <2>2, <2>3, <2>4, <2>5, <2>6
  <1>17. CASE FailClosed(d)
    <2>1. TypeOK'
      BY <1>17, SpendAssumption DEF FailClosed, TypeOK, Location, Verdict, MaybeRow, Unlock, SpendAssumption
    <2>2. Picked'
      BY <1>17 DEF FailClosed, TypeOK, Picked, Unlock, Matches
    <2>3. Decided'
      BY <1>17 DEF FailClosed, TypeOK, Decided, Holding, Deciding, Unlock
    <2>4. OneInsert'
      BY <1>17 DEF FailClosed, TypeOK, OneInsert, Inserted
    <2>5. Answered' /\ ReplyIsRecorded'
      BY <1>17 DEF FailClosed, TypeOK, Answered, ReplyIsRecorded
    <2>6. Messages'
      <3>1. faults' = faults + 1 /\ UNCHANGED notified
        BY <1>17 DEF FailClosed
      <3>2. \A c \in Charge : notified[c] <= 1 + faults
        BY <1>5 DEF Messages
      <3>3. QED
        BY <1>5, <3>1, <3>2 DEF Messages
    <2>7. QED
      BY <1>2, <2>1, <2>2, <2>3, <2>4, <2>5, <2>6
  <1>18. CASE Crash(d)
    <2>1. TypeOK'
      BY <1>18, SpendAssumption DEF Crash, TypeOK, Location, Verdict, MaybeRow, Unlock, SpendAssumption
    <2>2. Picked'
      BY <1>18 DEF Crash, TypeOK, Picked, Unlock, Matches
    <2>3. Decided'
      BY <1>18 DEF Crash, TypeOK, Decided, Holding, Deciding, Unlock
    <2>4. OneInsert'
      BY <1>18 DEF Crash, TypeOK, OneInsert, Inserted
    <2>5. Answered' /\ ReplyIsRecorded'
      BY <1>18 DEF Crash, TypeOK, Answered, ReplyIsRecorded
    <2>6. Messages'
      <3>1. faults' = faults + 1 /\ UNCHANGED notified
        BY <1>18 DEF Crash
      <3>2. \A c \in Charge : notified[c] <= 1 + faults
        BY <1>5 DEF Messages
      <3>3. QED
        BY <1>5, <3>1, <3>2 DEF Messages
    <2>7. QED
      BY <1>2, <2>1, <2>2, <2>3, <2>4, <2>5, <2>6
  <1>19. QED
    BY <1>6, <1>7, <1>8, <1>9, <1>10, <1>11, <1>12, <1>13, <1>14, <1>15, <1>16, <1>17, <1>18

-----------------------------------------------------------------------------
\* A verdict is committed

\* The row is the first one of its charge; nothing else of the tables changes.
LEMMA CommitStep ==
    ASSUME SpendAssumption, IInv, NEW d \in Delivery, Commit(d)
    PROVE  IInv'
  <1> USE DEF IInv
  <1> DEFINE row == [decision |-> verdict[d].decision, created |-> begun[d],
                     decided |-> verdict[d].day, budget |-> pick[d],
                     interval |-> IF pick[d] = NoBudget THEN "none" ELSE seen[d].interval]
  <1>1. /\ pc[d] = "commit" /\ authz' = [authz EXCEPT ![Of[d]] = row]
        /\ lock' = [b \in Budget |-> IF lock[b] = d THEN Nobody ELSE lock[b]]
        /\ pc' = [pc EXCEPT ![d] = "done"]
        /\ UNCHANGED <<budget, rules, highest, begun, pick, seen, verdict, reply, notified,
                       edit, found, known, day, faults>>
    BY DEF Commit, Unlock, Goto, request, replies, editing, bounds
  <1>2. /\ Of \in [Delivery -> Charge] /\ Of[d] \in Charge /\ authz[Of[d]].decision = "none"
        /\ NoBudget \notin Budget \cup Delivery \cup BudgetRow
    BY <1>1 DEF SpendAssumption, OneInsert, Inserted
  <1>3. row \in AuthzRow /\ row.decision \in {"approved", "declined"}
    <2>1. pick[d] # NoBudget => seen[d].interval \in Interval
      BY DEF Picked, BudgetRow
    <2>2. QED
      BY <1>1, <2>1 DEF TypeOK, AuthzRow, Decided, Deciding, Verdict
  <1> HIDE DEF row
  <1>4. \A c \in Charge : authz'[c] = IF c = Of[d] THEN row ELSE authz[c]
    BY <1>1, <1>2 DEF TypeOK
  <1>5. \A e \in Delivery : pc'[e] = IF e = d THEN "done" ELSE pc[e]
    BY <1>1 DEF TypeOK
  <1>6. TypeOK'
    <2>1. authz' \in [Charge -> AuthzRow]
      BY <1>1, <1>2, <1>3 DEF TypeOK
    <2>2. \A b \in Budget : lock'[b] # Nobody =>
              pc'[lock'[b]] \in {"insert", "answer", "notify", "commit"}
      BY <1>1, <1>2, <1>5 DEF TypeOK
    <2>3. QED
      BY <1>1, <1>2, <2>1, <2>2 DEF TypeOK, Location, Nobody
  <1>7. RowsKept' /\ Picked'
    BY <1>1, <1>5 DEF RowsKept, Picked, Matches
  <1>8. Decided'
    <2>1. \A e \in Delivery : Holding(e) => lock[pick[e]] = e /\ pick[e] \in Budget
      <3>1. \A e \in Delivery : Holding(e) => pick[e] # NoBudget /\ lock[pick[e]] = e
        BY DEF Decided, Holding
      <3>2. QED
        BY <1>2, <3>1 DEF TypeOK
    <2>2. \A e \in Delivery : Holding(e)' => Holding(e) /\ e # d
      BY <1>1, <1>5 DEF Holding, Deciding
    <2>3. \A e \in Delivery : Holding(e)' => lock'[pick'[e]] = e
      BY <1>1, <2>1, <2>2
    <2>4. QED
      BY <1>1, <1>5, <2>3 DEF Decided, Deciding
  <1>9. OneInsert'
    <2>1. \A e \in Delivery : pc'[e] \in Inserted => pc[e] \in Inserted /\ e # d
      BY <1>5 DEF Inserted
    <2>2. \A e \in Delivery : pc'[e] \in Inserted => Of[e] # Of[d]
      BY <1>1, <2>1 DEF OneInsert, Inserted
    <2>3. QED
      BY <1>2, <1>4, <2>1, <2>2 DEF OneInsert
  <1>10. Answered'
    BY <1>1, <1>5 DEF Answered
  <1>11. ReplyIsRecorded'
    <2>1. reply[d] = row.decision
      BY <1>1 DEF Answered, row
    <2>2. QED
      BY <1>1, <1>2, <1>4, <1>5, <2>1 DEF ReplyIsRecorded
  <1>12. Messages'
    <2>1. \A c \in Charge : Told(c) => Told(c)'
      BY <1>1, <1>2, <1>3, <1>4, <1>5 DEF Told
    <2>2. \A c \in Charge : DeclineTold(c) => DeclineTold(c)'
      <3> SUFFICES ASSUME NEW c \in Charge, DeclineTold(c)
                   PROVE  DeclineTold(c)'
        OBVIOUS
      <3>1. CASE authz[c].decision = "declined"
        BY <1>2, <1>4, <3>1 DEF DeclineTold
      <3>2. CASE \E e \in Delivery : Of[e] = c /\ pc[e] = "commit" /\ verdict[e].decision = "declined"
        <4>1. PICK e \in Delivery : Of[e] = c /\ pc[e] = "commit" /\ verdict[e].decision = "declined"
          BY <3>2
        <4>2. e = d => authz'[c].decision = "declined"
          BY <1>4, <4>1 DEF row
        <4>3. e # d => pc'[e] = "commit" /\ verdict'[e] = verdict[e]
          BY <1>1, <1>5, <4>1
        <4>4. QED
          BY <4>1, <4>2, <4>3 DEF DeclineTold
      <3>3. QED
        BY <3>1, <3>2 DEF DeclineTold
    <2>3. faults \in Nat /\ \A c \in Charge : notified[c] \in Nat
      BY DEF TypeOK, SpendAssumption
    <2>4. QED
      BY <1>1, <2>1, <2>2, <2>3 DEF Messages
  <1>13. Sourced'
    <2>1. row.decision = "approved" =>
             /\ row.budget # NoBudget /\ budget[row.budget] \in BudgetRow
             /\ Matches(Of[d], budget[row.budget].dim, budget[row.budget].value)
      BY <1>1 DEF row, Decided, Deciding, Picked, SameScope
    <2>2. \A c \in Charge : authz'[c].decision = "approved" =>
             /\ authz'[c].budget # NoBudget /\ budget[authz'[c].budget] \in BudgetRow
             /\ Matches(c, budget[authz'[c].budget].dim, budget[authz'[c].budget].value)
      BY <1>4, <2>1 DEF Sourced
    <2>3. QED
      BY <1>1, <2>2 DEF Sourced, Matches
  <1>14. IsFiniteSet(Verdicts)'
    <2>1. Verdicts' = Verdicts \cup {Of[d]}
      BY <1>2, <1>3, <1>4 DEF Verdicts
    <2>2. QED
      BY <2>1, FS_AddElement
  <1>15. QED
    BY <1>6, <1>7, <1>8, <1>9, <1>10, <1>11, <1>12, <1>13, <1>14

-----------------------------------------------------------------------------
\* The cold path and the clock

\* The greater of two numbers.
LEMMA MaxOfTwo == ASSUME NEW m \in Nat, NEW n \in Nat PROVE Max({m, n}) = IF m >= n THEN m ELSE n
  <1> DEFINE top == IF m >= n THEN m ELSE n
  <1>1. top \in {m, n} /\ \A y \in {m, n} : top >= y
    OBVIOUS
  <1>2. \A x \in {m, n} : (\A y \in {m, n} : x >= y) => x = top
    OBVIOUS
  <1> HIDE DEF top
  <1>3. QED
    BY <1>1, <1>2 DEF Max, top

\* What an edit writes: a row that was absent, or the limit and the interval of
\* one that was there; what the row is for stays.
LEMMA EditWritten ==
    ASSUME SpendAssumption, IInv, NEW e \in Edit, EditWrites(e)
    PROVE  \E b \in Budget :
              /\ budget' = [budget EXCEPT ![b] = budget'[b]] /\ budget'[b] \in BudgetRow
              /\ \/ budget[b] = NoBudget /\ budget'[b] = Wanted[e].budget
                 \/ budget[b] \in BudgetRow /\ SameScope(budget[b], budget'[b])
              /\ highest' = [highest EXCEPT ![b] = highest'[b]] /\ highest'[b] \in Nat
              /\ highest'[b] >= highest[b] /\ highest'[b] >= budget'[b].limit
  <1> USE DEF IInv
  <1>1. PICK b \in Target(e) :
           /\ budget' = [budget EXCEPT ![b] = Written(e, @)]
           /\ highest' = [highest EXCEPT ![b] = Max({@, budget'[b].limit})]
    BY DEF EditWrites
  <1>2. /\ b \in Budget /\ budget \in [Budget -> MaybeRow] /\ highest \in [Budget -> Nat]
        /\ found[e].row \in MaybeRow /\ Wanted[e].budget \in BudgetRow
        /\ NoBudget \notin Budget \cup BudgetRow
        /\ found[e].row = NoBudget => budget[b] = NoBudget
        /\ found[e].row # NoBudget => budget[b] \in BudgetRow
    BY <1>1 DEF Target, Existing, RowsKept, TypeOK, MaybeRow, SpendAssumption
  <1>3. budget'[b] = Written(e, budget[b])
    BY <1>1, <1>2
  <1>4. /\ budget'[b] \in BudgetRow
        /\ \/ budget[b] = NoBudget /\ budget'[b] = Wanted[e].budget
           \/ budget[b] \in BudgetRow /\ SameScope(budget[b], budget'[b])
    <2>1. CASE found[e].row = NoBudget
      BY <1>2, <1>3, <2>1 DEF Written
    <2>2. CASE found[e].row # NoBudget
      BY <1>2, <1>3, <2>2 DEF Written, SameScope, BudgetRow, MaybeRow
    <2>3. QED
      BY <2>1, <2>2
  <1>5. highest'[b] = Max({highest[b], budget'[b].limit})
    BY <1>1, <1>2
  <1>6. highest[b] \in Nat /\ budget'[b].limit \in Nat
    BY <1>2, <1>4 DEF BudgetRow
  <1>7. highest'[b] \in Nat /\ highest'[b] >= highest[b] /\ highest'[b] >= budget'[b].limit
    <2> DEFINE m == highest[b]
               n == budget'[b].limit
    <2>1. m \in Nat /\ n \in Nat /\ highest'[b] = Max({m, n})
      BY <1>5, <1>6
    <2> HIDE DEF m, n
    <2>2. highest'[b] = IF m >= n THEN m ELSE n
      BY <2>1, MaxOfTwo
    <2>3. highest'[b] \in Nat /\ highest'[b] >= m /\ highest'[b] >= n
      BY <2>1, <2>2
    <2>4. QED
      BY <2>3 DEF m, n
  <1>8. QED
    BY <1>1, <1>2, <1>3, <1>4, <1>5, <1>7

LEMMA EditStep ==
    ASSUME SpendAssumption, IInv, NEW e \in Edit, EditWrites(e)
    PROVE  IInv'
  <1> USE DEF IInv
  <1>1. PICK b \in Budget :
              /\ budget' = [budget EXCEPT ![b] = budget'[b]] /\ budget'[b] \in BudgetRow
              /\ \/ budget[b] = NoBudget /\ budget'[b] = Wanted[e].budget
                 \/ budget[b] \in BudgetRow /\ SameScope(budget[b], budget'[b])
              /\ highest' = [highest EXCEPT ![b] = highest'[b]] /\ highest'[b] \in Nat
              /\ highest'[b] >= highest[b] /\ highest'[b] >= budget'[b].limit
    BY EditWritten
  <1>2. /\ rules' = rules \cup ({Wanted[e].rule} \ {NoRule})
        /\ edit' = [edit EXCEPT ![e] = "done"]
        /\ UNCHANGED <<authz, lock, pc, begun, pick, seen, verdict, reply, notified, found, known,
                       day, faults>>
    BY DEF EditWrites, request, replies, bounds
  <1>3. /\ NoBudget \notin Budget \cup BudgetRow /\ budget \in [Budget -> MaybeRow]
        /\ highest \in [Budget -> Nat] /\ Wanted[e].rule \in Rule \cup {NoRule}
    BY DEF TypeOK, SpendAssumption
  <1>4. /\ budget' \in [Budget -> MaybeRow] /\ highest' \in [Budget -> Nat]
        /\ \A x \in Budget \ {b} : budget'[x] = budget[x] /\ highest'[x] = highest[x]
    BY <1>1, <1>3 DEF MaybeRow
  <1>5. \A x \in Budget : budget[x] \in BudgetRow =>
           /\ budget'[x] \in BudgetRow /\ SameScope(budget[x], budget'[x])
           /\ highest'[x] >= highest[x]
    BY <1>1, <1>3, <1>4 DEF SameScope
  <1>6. TypeOK'
    BY <1>2, <1>3, <1>4 DEF TypeOK
  <1>7. RowsKept'
    BY <1>1, <1>2, <1>3, <1>4, <1>5 DEF RowsKept, MaybeRow
  <1>8. Picked'
    <2>1. \A d \in Delivery : pick[d] # NoBudget => pick[d] \in Budget
      BY DEF TypeOK
    <2>2. \A d \in Delivery : pick[d] # NoBudget =>
             /\ seen[d] \in BudgetRow /\ budget'[pick[d]] \in BudgetRow
             /\ SameScope(seen[d], budget'[pick[d]])
             /\ seen[d].limit <= highest'[pick[d]]
      <3> SUFFICES ASSUME NEW d \in Delivery, pick[d] # NoBudget
                   PROVE  /\ seen[d] \in BudgetRow /\ budget'[pick[d]] \in BudgetRow
                          /\ SameScope(seen[d], budget'[pick[d]])
                          /\ seen[d].limit <= highest'[pick[d]]
        OBVIOUS
      <3>1. /\ seen[d] \in BudgetRow /\ budget[pick[d]] \in BudgetRow
            /\ SameScope(seen[d], budget[pick[d]]) /\ seen[d].limit <= highest[pick[d]]
        BY DEF Picked
      <3>2. seen[d].limit \in Nat /\ highest[pick[d]] \in Nat /\ highest'[pick[d]] \in Nat
        BY <1>3, <1>4, <2>1, <3>1 DEF BudgetRow
      <3>3. QED
        BY <1>5, <2>1, <3>1, <3>2 DEF SameScope
    <2>3. QED
      BY <1>2, <2>2 DEF Picked, Matches
  <1>9. Decided' /\ OneInsert' /\ Answered' /\ ReplyIsRecorded' /\ IsFiniteSet(Verdicts)'
    BY <1>2 DEF Decided, Holding, OneInsert, Answered, ReplyIsRecorded, Verdicts
  <1>10. Messages'
    BY <1>2 DEF Messages, Told, DeclineTold
  <1>11. Sourced'
    <2>1. \A c \in Charge : authz[c].budget # NoBudget => authz[c].budget \in Budget
      BY DEF TypeOK, AuthzRow
    <2>2. QED
      BY <1>2, <1>5, <2>1 DEF Sourced, Matches, SameScope
  <1>12. QED
    BY <1>6, <1>7, <1>8, <1>9, <1>10, <1>11

\* An edit that reads, or that fails, and midnight write no row.
LEMMA IdleSteps ==
    ASSUME SpendAssumption, IInv,
           Midnight \/ \E e \in Edit : EditReads(e) \/ EditFails(e)
    PROVE  IInv'
  <1> USE DEF IInv
  <1>1. /\ UNCHANGED <<authz, budget, rules, highest, lock, pc, begun, pick, seen, verdict, reply,
                       notified, faults>>
    BY DEF Midnight, EditReads, EditFails, tables, request, replies, editing, bounds
  <1>2. /\ edit' \in [Edit -> {"asked", "write", "done", "failed", "never"}]
        /\ known' \in [Edit -> SUBSET Rule] /\ day' \in 0..MaxDay
    <2>1. CASE Midnight
      BY <2>1 DEF Midnight, editing, TypeOK, SpendAssumption
    <2>2. ASSUME NEW e \in Edit, EditReads(e) \/ EditFails(e)
          PROVE  /\ edit' \in [Edit -> {"asked", "write", "done", "failed", "never"}]
                 /\ known' \in [Edit -> SUBSET Rule] /\ day' \in 0..MaxDay
      <3>1. rules \in SUBSET Rule /\ UNCHANGED day
        BY <2>2 DEF TypeOK, EditReads, EditFails, bounds
      <3>2. \/ edit' = [edit EXCEPT ![e] = "write"] /\ known' = [known EXCEPT ![e] = rules]
            \/ edit' = [edit EXCEPT ![e] = "failed"] /\ known' = known
        BY <2>2 DEF EditReads, EditFails
      <3>3. QED
        BY <3>1, <3>2 DEF TypeOK
    <2>3. QED
      BY <2>1, <2>2
  <1>3. /\ found' \in [Edit -> [id : Budget \cup {NoBudget}, row : MaybeRow]]
        /\ \A e \in Edit : found'[e].row # NoBudget =>
              found'[e].id \in Budget /\ budget[found'[e].id] # NoBudget
    <2>1. CASE UNCHANGED found
      BY <2>1 DEF TypeOK, RowsKept
    <2>2. ASSUME NEW e \in Edit, EditReads(e), found' # found
          PROVE  \E b \in Existing : found' = [found EXCEPT ![e] = [id |-> b, row |-> budget[b]]]
      <3> DEFINE alike == {b \in Existing : SameScope(budget[b], Wanted[e].budget)}
      <3>1. found' = [found EXCEPT ![e] = IF alike = {} THEN @
                        ELSE LET b == CHOOSE x \in alike : TRUE IN [id |-> b, row |-> budget[b]]]
        BY <2>2 DEF EditReads
      <3>2. CASE alike = {}
        BY <2>2, <3>1, <3>2 DEF TypeOK
      <3>3. CASE alike # {}
        <4>1. (CHOOSE x \in alike : TRUE) \in alike
          BY <3>3
        <4>2. found' = [found EXCEPT ![e] = [id |-> CHOOSE x \in alike : TRUE,
                                             row |-> budget[CHOOSE x \in alike : TRUE]]]
          BY <3>1, <3>3
        <4>3. QED
          BY <4>1, <4>2
      <3>4. QED
        BY <3>2, <3>3
    <2>3. ASSUME NEW e \in Edit, NEW b \in Existing,
                 found' = [found EXCEPT ![e] = [id |-> b, row |-> budget[b]]]
          PROVE  /\ found' \in [Edit -> [id : Budget \cup {NoBudget}, row : MaybeRow]]
                 /\ \A x \in Edit : found'[x].row # NoBudget =>
                       found'[x].id \in Budget /\ budget[found'[x].id] # NoBudget
      BY <2>3 DEF Existing, TypeOK, RowsKept
    <2>4. QED
      BY <2>1, <2>2, <2>3 DEF Midnight, EditFails, editing
  <1>4. TypeOK'
    BY <1>1, <1>2, <1>3 DEF TypeOK
  <1>5. RowsKept' /\ Picked' /\ Sourced'
    BY <1>1, <1>3 DEF RowsKept, Picked, Sourced, Matches
  <1>6. /\ Decided' /\ OneInsert' /\ Answered' /\ ReplyIsRecorded' /\ IsFiniteSet(Verdicts)'
        /\ Messages'
    BY <1>1 DEF Decided, Holding, OneInsert, Answered, ReplyIsRecorded, Verdicts, Messages, Told,
                DeclineTold
  <1>7. QED
    BY <1>4, <1>5, <1>6

LEMMA InitInv == SpendAssumption /\ Init => IInv
  <1> SUFFICES ASSUME SpendAssumption, Init PROVE IInv
    OBVIOUS
  <1>1. \A d \in Delivery : pc[d] \in {"sent", "never"} /\ verdict[d] = NoVerdict /\ reply[d] = "none"
    BY DEF Init
  <1>2. \A c \in Charge : authz[c] = NoRow /\ notified[c] = 0
    BY DEF Init
  <1>3. TypeOK
    <2>1. NoRow \in AuthzRow
      BY DEF NoRow, AuthzRow, Verdict, SpendAssumption
    <2>2. \A b \in Budget : FirstBudgets[b] # NoBudget => FirstBudgets[b].limit \in Nat
      BY DEF SpendAssumption, BudgetRow
    <2>3. highest \in [Budget -> Nat]
      BY <2>2 DEF Init
    <2>4. pc \in [Delivery -> Location] /\ edit \in [Edit -> {"asked", "write", "done", "failed", "never"}]
      BY DEF Init, Location
    <2>5. QED
      BY <2>1, <2>3, <2>4 DEF Init, TypeOK, SpendAssumption, NoVerdict, Verdict, MaybeRow, Nobody
  <1>4. RowsKept
    <2>1. \A b \in Budget : FirstBudgets[b] # NoBudget => FirstBudgets[b].limit \in Nat
      BY DEF SpendAssumption, BudgetRow
    <2>2. QED
      BY <2>1 DEF Init, RowsKept
  <1>5. Picked /\ Decided /\ OneInsert /\ Answered /\ ReplyIsRecorded
    BY <1>1 DEF Init, Picked, Decided, Holding, OneInsert, Answered, ReplyIsRecorded, Deciding, Inserted
  <1>6. Messages
    BY <1>2 DEF Init, Messages
  <1>7. Sourced /\ Verdicts = {}
    BY <1>2 DEF Sourced, Verdicts, NoRow
  <1>8. QED
    BY <1>3, <1>4, <1>5, <1>6, <1>7, FS_EmptySet DEF IInv

LEMMA StepKeepsIInv == SpendAssumption /\ IInv /\ [Next]_vars => IInv'
  <1> SUFFICES ASSUME SpendAssumption, IInv, [Next]_vars PROVE IInv'
    OBVIOUS
  <1>1. ASSUME NEW d \in Delivery, Handle(d) \/ FailClosed(d) \/ Crash(d)
        PROVE  IInv'
    BY <1>1, QuietSteps, CommitStep DEF Handle
  <1>2. ASSUME NEW e \in Edit, EditReads(e) \/ EditWrites(e) \/ EditFails(e)
        PROVE  IInv'
    BY <1>2, IdleSteps, EditStep
  <1>3. CASE Midnight
    BY <1>3, IdleSteps
  <1>4. CASE UNCHANGED vars
    <2>1. UNCHANGED <<authz, budget, rules, highest, lock, pc, begun, pick, seen, verdict, reply,
                      notified, edit, found, known, day, faults>>
      BY <1>4 DEF vars, tables, request, replies, editing, bounds
    <2>2. TypeOK' /\ RowsKept' /\ Picked'
      BY <2>1 DEF IInv, TypeOK, RowsKept, Picked, Matches
    <2>3. Decided' /\ OneInsert' /\ Answered' /\ ReplyIsRecorded'
      BY <2>1 DEF IInv, Decided, Holding, OneInsert, Answered, ReplyIsRecorded
    <2>4. Messages' /\ Sourced' /\ IsFiniteSet(Verdicts)'
      <3>1. Messages'
        BY <2>1 DEF IInv, Messages, Told, DeclineTold
      <3>2. Sourced' /\ Verdicts' = Verdicts
        BY <2>1 DEF IInv, Sourced, Matches, Verdicts
      <3>3. QED
        BY <3>1, <3>2 DEF IInv
    <2>5. QED
      BY <2>2, <2>3, <2>4 DEF IInv
  <1>5. QED
    BY <1>1, <1>2, <1>3, <1>4 DEF Next, AllAnswered

LEMMA Invariance == Spec => []IInv
  <1>1. Init => IInv
    BY InitInv, SpendAssumption
  <1>2. IInv /\ [Next]_vars => IInv'
    BY StepKeepsIInv, SpendAssumption
  <1>3. QED
    BY <1>1, <1>2, PTL DEF Spec

-----------------------------------------------------------------------------
\* The accounts stay within their limits

\* SumAmounts is a total, so the laws of totals hold of it.
LEMMA AmountsAdd ==
    ASSUME SpendAssumption
    PROVE  /\ SumAmounts({}) = 0
           /\ \A S \in SUBSET Charge : IsFiniteSet(S) => SumAmounts(S) \in Nat
           /\ \A S \in SUBSET Charge : \A c \in Charge :
                 IsFiniteSet(S) /\ c \notin S => SumAmounts(S \cup {c}) = Amount[c] + SumAmounts(S)
           /\ \A T \in SUBSET Charge : \A S \in SUBSET T :
                 IsFiniteSet(T) => SumAmounts(S) <= SumAmounts(T)
  <1>1. \A S : SumAmounts(S) = Total(Amount, S)
    BY DEF SumAmounts, Total
  <1>2. \A c \in Charge : Amount[c] \in Nat
    BY DEF SpendAssumption
  <1>3. SumAmounts({}) = 0
    BY <1>1, TotalOfNone
  <1>4. ASSUME NEW S \in SUBSET Charge, IsFiniteSet(S)
        PROVE  SumAmounts(S) \in Nat
    BY <1>1, <1>2, <1>4, TotalIsNat
  <1>5. ASSUME NEW S \in SUBSET Charge, NEW c \in Charge, IsFiniteSet(S), c \notin S
        PROVE  SumAmounts(S \cup {c}) = Amount[c] + SumAmounts(S)
    <2>1. \A s \in S \cup {c} : Amount[s] \in Nat
      BY <1>2
    <2>2. QED
      BY <1>1, <1>5, <2>1, TotalAdds
  <1>6. ASSUME NEW T \in SUBSET Charge, NEW S \in SUBSET T, IsFiniteSet(T)
        PROVE  SumAmounts(S) <= SumAmounts(T)
    BY <1>1, <1>2, <1>6, TotalGrows
  <1>7. QED
    BY <1>3, <1>4, <1>5, <1>6

\* The accounts of a budget are finite sets of charges with a verdict.
LEMMA AccountsFinite ==
    ASSUME IInv
    PROVE  /\ \A b, I : On(authz, b, I) \in SUBSET Charge /\ IsFiniteSet(On(authz, b, I))
           /\ \A b, k : OnDay(authz, b, k) \in SUBSET Charge /\ IsFiniteSet(OnDay(authz, b, k))
  <1>1. IsFiniteSet(Verdicts)
    BY DEF IInv
  <1>2. \A b, I : On(authz, b, I) \in SUBSET Verdicts
    BY DEF On, Verdicts
  <1>3. \A b, k : OnDay(authz, b, k) \in SUBSET Verdicts
    BY <1>2 DEF OnDay
  <1>4. QED
    BY <1>1, <1>2, <1>3, FS_Subset DEF Verdicts

\* What is on an account of a budget was counted by the query that totalled it.
LEMMA AccountsCounted ==
    ASSUME SpendAssumption, IInv, Accounts, NEW d \in Delivery, pc[d] = "lock"
    PROVE  /\ SpendSoFar(seen[d], day) \in Nat
           /\ seen[d].interval = "all_time" =>
                 SumAmounts(On(authz, pick[d], {"all_time"})) <= SpendSoFar(seen[d], day)
           /\ SumAmounts(OnDay(authz, pick[d], day)) <= SpendSoFar(seen[d], day)
  <1> DEFINE counted == {c \in Charge : Counted(c, seen[d], day)}
             b == pick[d]
  <1>1. /\ b \in Budget /\ budget[b] \in BudgetRow /\ SameScope(seen[d], budget[b])
        /\ Spelled(budget[b]) /\ b # NoBudget /\ budget[b] # NoBudget
    BY DEF IInv, Picked, TypeOK, Accounts, SpendAssumption
  <1>2. \A c \in Charge : authz[c].decision = "approved" /\ authz[c].budget = b
            => Field[c][seen[d].dim] = seen[d].value
    BY <1>1 DEF IInv, Sourced, Spelled, SameScope
  <1>3. counted \in SUBSET Verdicts /\ IsFiniteSet(Verdicts)
    BY DEF Counted, Verdicts, IInv
  <1>4. counted \in SUBSET Charge /\ IsFiniteSet(counted)
    <2>1. counted \in SUBSET Charge
      OBVIOUS
    <2> HIDE DEF counted
    <2>2. QED
      BY <1>3, <2>1, FS_Subset
  <1>5. \A c \in Charge : authz[c].created \in Nat
    BY DEF IInv, TypeOK, AuthzRow, SpendAssumption
  <1>6. day \in Nat
    BY DEF IInv, TypeOK, SpendAssumption
  <1>7. seen[d].interval = "all_time" => On(authz, b, {"all_time"}) \in SUBSET counted
    BY <1>2, <1>5 DEF On, Counted, WindowStart
  <1>8. OnDay(authz, b, day) \in SUBSET counted
    BY <1>2, <1>5, <1>6 DEF OnDay, On, Counted, WindowStart
  <1>9. SpendSoFar(seen[d], day) = SumAmounts(counted)
    BY DEF SpendSoFar
  <1> HIDE DEF counted
  <1>10. /\ SumAmounts(counted) \in Nat
         /\ seen[d].interval = "all_time" => SumAmounts(On(authz, b, {"all_time"})) <= SumAmounts(counted)
         /\ SumAmounts(OnDay(authz, b, day)) <= SumAmounts(counted)
    BY <1>4, <1>7, <1>8, AmountsAdd
  <1>11. QED
    BY <1>9, <1>10

\* Every number the accounts are compared by.
LEMMA AccountNumbers ==
    ASSUME SpendAssumption, IInv
    PROVE  /\ \A b, I : SumAmounts(On(authz, b, I)) \in Nat
           /\ \A b, k : SumAmounts(OnDay(authz, b, k)) \in Nat
           /\ \A c \in Charge : Amount[c] \in Nat
           /\ \A b \in Budget : highest[b] \in Nat
           /\ \A d \in Delivery : pick[d] # NoBudget =>
                 pick[d] \in Budget /\ seen[d].limit \in Nat /\ seen[d].limit <= highest[pick[d]]
  BY AccountsFinite, AmountsAdd DEF IInv, TypeOK, Picked, BudgetRow, SpendAssumption

\* A delivery decides within the limit it loaded.
LEMMA DecisionFits ==
    ASSUME SpendAssumption, IInv, Accounts, NEW d \in Delivery,
           LoadDeclines(d) \/ LoadCompares(d) \/ LockAndTotal(d), verdict'[d].decision = "approved"
    PROVE  Fits(authz, Of[d], pick'[d], seen'[d].limit, seen'[d].interval, begun'[d], verdict'[d].day)
  <1>1. Of[d] \in Charge /\ d \in DOMAIN verdict /\ verdict \in [Delivery -> [decision : Verdict, day : 0..MaxDay]]
    BY DEF IInv, TypeOK, SpendAssumption
  <1>2. CASE LoadDeclines(d)
    BY <1>1, <1>2 DEF LoadDeclines, Decide
  <1>3. CASE LoadCompares(d)
    <2>1. PICK b \in Budget : /\ budget[b].interval = "per_authorization" /\ Pick(d, b)
                              /\ Decide(d, Decision(Amount[Of[d]] <= budget[b].limit))
      BY <1>3 DEF LoadCompares, MostSpecific, Candidates, Existing
    <2>2. Amount[Of[d]] <= budget[b].limit
      BY <1>1, <2>1 DEF Decide, Decision
    <2>3. seen'[d] = budget[b]
      BY <2>1 DEF Pick, IInv, TypeOK
    <2>4. QED
      BY <2>1, <2>2, <2>3 DEF Fits
  <1>4. CASE LockAndTotal(d)
    <2>1. /\ pc[d] = "lock" /\ UNCHANGED <<pick, seen, begun>>
          /\ verdict'[d].day = day
          /\ SpendSoFar(seen[d], day) + Amount[Of[d]] <= seen[d].limit
      BY <1>1, <1>4 DEF LockAndTotal, Decide, Decision
    <2>2. /\ pick[d] # NoBudget /\ seen[d].interval # "per_authorization"
      BY <2>1 DEF IInv, Picked
    <2> DEFINE prior == SpendSoFar(seen[d], day)
               ever == SumAmounts(On(authz, pick[d], {"all_time"}))
               today == SumAmounts(OnDay(authz, pick[d], day))
    <2>3. /\ prior \in Nat /\ ever \in Nat /\ today \in Nat /\ Amount[Of[d]] \in Nat
          /\ seen[d].limit \in Nat /\ today <= prior
          /\ seen[d].interval = "all_time" => ever <= prior
      <3>1. /\ prior \in Nat /\ today <= prior
            /\ seen[d].interval = "all_time" => ever <= prior
        BY <2>1, AccountsCounted
      <3>2. /\ ever \in Nat /\ today \in Nat /\ Amount[Of[d]] \in Nat /\ seen[d].limit \in Nat
        BY <1>1, <2>2, AccountNumbers
      <3>3. QED
        BY <3>1, <3>2
    <2> HIDE DEF prior, ever, today
    <2>4. /\ seen[d].interval = "all_time" => ever + Amount[Of[d]] <= seen[d].limit
          /\ today + Amount[Of[d]] <= seen[d].limit
      BY <2>1, <2>3 DEF prior
    <2>5. QED
      BY <2>1, <2>2, <2>4 DEF ever, today, Fits
  <1>5. QED
    BY <1>2, <1>3, <1>4

\* A commit puts its charge on the account it totalled, and no approval that is
\* in hand beside it is on that account: it would hold the same row.
LEMMA CommitAccounts ==
    ASSUME SpendAssumption, IInv, Accounts, NEW d \in Delivery, Commit(d)
    PROVE  Accounts'
  <1> USE DEF IInv
  <1> DEFINE c == Of[d]
             approved == verdict[d].decision = "approved"
  <1>1. /\ pc[d] = "commit" /\ c \in Charge /\ authz[c].decision = "none"
        /\ authz' = [authz EXCEPT ![c] =
                        [decision |-> verdict[d].decision, created |-> begun[d],
                         decided |-> verdict[d].day, budget |-> pick[d],
                         interval |-> IF pick[d] = NoBudget THEN "none" ELSE seen[d].interval]]
        /\ pc' = [pc EXCEPT ![d] = "done"]
        /\ UNCHANGED <<budget, highest, begun, pick, seen, verdict>>
    BY DEF Commit, Goto, request, SpendAssumption, OneInsert, Inserted
  <1>2. \A x \in Charge \ {c} : authz'[x] = authz[x]
    BY <1>1 DEF TypeOK
  <1>3. /\ authz'[c].decision = verdict[d].decision /\ authz'[c].created = begun[d]
        /\ authz'[c].decided = verdict[d].day /\ authz'[c].budget = pick[d]
        /\ approved => authz'[c].interval = seen[d].interval /\ pick[d] # NoBudget
    BY <1>1 DEF TypeOK, Decided, Deciding
  <1>4. \A b, I : On(authz', b, I) = IF approved /\ pick[d] = b /\ seen[d].interval \in I
                                     THEN On(authz, b, I) \cup {c} ELSE On(authz, b, I)
    BY <1>1, <1>2, <1>3 DEF On
  <1>5. \A b, k : OnDay(authz', b, k) =
              IF /\ approved /\ pick[d] = b /\ seen[d].interval \in {"daily", "all_time"}
                 /\ begun[d] = k /\ verdict[d].day = k
              THEN OnDay(authz, b, k) \cup {c} ELSE OnDay(authz, b, k)
    BY <1>1, <1>2, <1>3 DEF OnDay, On
  <1>6. \A b, I, k : c \notin On(authz, b, I) /\ c \notin OnDay(authz, b, k)
    BY <1>1 DEF On, OnDay
  <1>7. /\ \A b, I : SumAmounts(On(authz, b, I) \cup {c}) = Amount[c] + SumAmounts(On(authz, b, I))
        /\ \A b, k : SumAmounts(OnDay(authz, b, k) \cup {c}) = Amount[c] + SumAmounts(OnDay(authz, b, k))
    <2> HIDE DEF c
    <2>1. QED
      BY <1>1, <1>6, AccountsFinite, AmountsAdd
  <1>8. approved => /\ Fits(authz, c, pick[d], seen[d].limit, seen[d].interval, begun[d], verdict[d].day)
                    /\ pick[d] \in Budget /\ seen[d].limit <= highest[pick[d]] /\ seen[d].limit \in Nat
    BY <1>1, <1>3, AccountNumbers DEF Accounts, InTransit, Deciding
  <1>9. Limits(authz', highest')
    <2> SUFFICES ASSUME NEW b \in Budget
                 PROVE  /\ SumAmounts(On(authz', b, {"all_time"})) <= highest[b]
                        /\ \A k \in 0..MaxDay : SumAmounts(OnDay(authz', b, k)) <= highest[b]
                        /\ \A x \in On(authz', b, {"per_authorization"}) : Amount[x] <= highest[b]
      BY <1>1 DEF Limits
    <2>1. /\ SumAmounts(On(authz, b, {"all_time"})) <= highest[b]
          /\ \A k \in 0..MaxDay : SumAmounts(OnDay(authz, b, k)) <= highest[b]
          /\ \A x \in On(authz, b, {"per_authorization"}) : Amount[x] <= highest[b]
      BY DEF Accounts, Limits
    <2>2. /\ SumAmounts(On(authz, b, {"all_time"})) \in Nat /\ highest[b] \in Nat
          /\ \A k : SumAmounts(OnDay(authz, b, k)) \in Nat
          /\ Amount[c] \in Nat
      BY <1>1, AccountNumbers
    <2> HIDE DEF c
    <2>3. SumAmounts(On(authz', b, {"all_time"})) <= highest[b]
      <3>1. CASE approved /\ pick[d] = b /\ seen[d].interval = "all_time"
        <4>1. SumAmounts(On(authz', b, {"all_time"})) = Amount[c] + SumAmounts(On(authz, b, {"all_time"}))
          BY <1>4, <1>7, <3>1
        <4>2. SumAmounts(On(authz, b, {"all_time"})) + Amount[c] <= seen[d].limit
          BY <1>8, <3>1 DEF Fits
        <4>3. QED
          BY <1>8, <2>2, <3>1, <4>1, <4>2
      <3>2. CASE ~(approved /\ pick[d] = b /\ seen[d].interval = "all_time")
        BY <1>4, <2>1, <3>2
      <3>3. QED
        BY <3>1, <3>2
    <2>4. ASSUME NEW k \in 0..MaxDay
          PROVE  SumAmounts(OnDay(authz', b, k)) <= highest[b]
      <3> DEFINE added == /\ approved /\ pick[d] = b /\ seen[d].interval \in {"daily", "all_time"}
                          /\ begun[d] = k /\ verdict[d].day = k
      <3>1. CASE added
        <4>1. SumAmounts(OnDay(authz', b, k)) = Amount[c] + SumAmounts(OnDay(authz, b, k))
          BY <1>5, <1>7, <3>1
        <4>2. SumAmounts(OnDay(authz, b, k)) + Amount[c] <= seen[d].limit
          BY <1>8, <3>1 DEF Fits
        <4>3. QED
          BY <1>8, <2>2, <3>1, <4>1, <4>2
      <3>2. CASE ~added
        BY <1>5, <2>1, <3>2
      <3>3. QED
        BY <3>1, <3>2
    <2>5. \A x \in On(authz', b, {"per_authorization"}) : Amount[x] <= highest[b]
      <3>1. CASE approved /\ pick[d] = b /\ seen[d].interval = "per_authorization"
        <4>1. Amount[c] <= highest[b]
          BY <1>8, <2>2, <3>1 DEF Fits
        <4>2. QED
          BY <1>4, <2>1, <3>1, <4>1
      <3>2. CASE ~(approved /\ pick[d] = b /\ seen[d].interval = "per_authorization")
        BY <1>4, <2>1, <3>2
      <3>3. QED
        BY <3>1, <3>2
    <2>6. QED
      BY <2>3, <2>4, <2>5
  <1>10. InTransit'
    <2> SUFFICES ASSUME NEW e \in Delivery, pc'[e] \in Deciding, verdict'[e].decision = "approved"
                 PROVE  Fits(authz', Of[e], pick'[e], seen'[e].limit, seen'[e].interval, begun'[e],
                             verdict'[e].day)
      BY DEF InTransit
    <2>1. e # d /\ pc[e] \in Deciding
      BY <1>1 DEF TypeOK, Deciding
    <2>2. Fits(authz, Of[e], pick[e], seen[e].limit, seen[e].interval, begun[e], verdict[e].day)
      BY <1>1, <2>1 DEF Accounts, InTransit
    <2>3. ~(/\ approved /\ pick[d] = pick[e] /\ seen[d].interval # "per_authorization"
            /\ seen[e].interval # "per_authorization")
      BY <1>1, <2>1 DEF Decided, Holding, Deciding
    <2>4. seen[e].interval = "all_time" => On(authz', pick[e], {"all_time"}) = On(authz, pick[e], {"all_time"})
      BY <1>4, <2>3
    <2>5. seen[e].interval # "per_authorization" => OnDay(authz', pick[e], begun[e]) = OnDay(authz, pick[e], begun[e])
      BY <1>5, <2>3
    <2>6. QED
      BY <1>1, <2>2, <2>4, <2>5 DEF Fits
  <1>11. QED
    BY <1>1, <1>9, <1>10 DEF Accounts, Spelled, Matches

\* Every other step leaves the recorded rows alone.
LEMMA OtherAccounts ==
    ASSUME SpendAssumption, OneSpelling, IInv, Accounts, Next, UNCHANGED authz
    PROVE  Accounts'
  <1> USE DEF IInv
  <1>1. \A b \in Budget : budget'[b] # NoBudget => Spelled(budget'[b])
    <2>1. ASSUME NEW e \in Edit, EditWrites(e)
          PROVE  \A b \in Budget : budget'[b] # NoBudget => Spelled(budget'[b])
      <3>1. PICK b \in Budget :
              /\ budget' = [budget EXCEPT ![b] = budget'[b]] /\ budget'[b] \in BudgetRow
              /\ \/ budget[b] = NoBudget /\ budget'[b] = Wanted[e].budget
                 \/ budget[b] \in BudgetRow /\ SameScope(budget[b], budget'[b])
        BY <2>1, EditWritten
      <3>2. \A x \in Budget \ {b} : budget'[x] = budget[x]
        BY <3>1 DEF TypeOK
      <3>3. Spelled(budget'[b])
        <4>1. CASE budget'[b] = Wanted[e].budget
          BY <4>1 DEF OneSpelling
        <4>2. CASE budget[b] \in BudgetRow /\ SameScope(budget[b], budget'[b])
          <5>1. Spelled(budget[b])
            BY <4>2 DEF Accounts, SpendAssumption
          <5>2. budget'[b].dim = budget[b].dim /\ budget'[b].value = budget[b].value
            BY <4>2 DEF SameScope
          <5>3. QED
            BY <5>1, <5>2 DEF Spelled
        <4>3. QED
          BY <3>1, <4>1, <4>2
      <3>4. QED
        BY <3>2, <3>3 DEF Accounts
    <2>2. CASE UNCHANGED budget
      BY <2>2 DEF Accounts
    <2>3. QED
      BY <2>1, <2>2 DEF Next, Handle, Receive, Replay, DeclineUnknownCard, LoadDeclines, LoadCompares,
         LoadBudget, LockAndTotal, Insert, InsertDuplicate, SendAnswer, Notify, Commit, FailClosed,
         Crash, EditReads, EditFails, Midnight, AllAnswered, tables, vars
  <1>2. \A b \in Budget : highest[b] \in Nat /\ highest'[b] \in Nat /\ highest'[b] >= highest[b]
    <2>1. highest \in [Budget -> Nat]
      BY DEF TypeOK
    <2>2. ASSUME NEW e \in Edit, EditWrites(e)
          PROVE  \A b \in Budget : highest'[b] \in Nat /\ highest'[b] >= highest[b]
      <3>1. PICK b \in Budget : /\ highest' = [highest EXCEPT ![b] = highest'[b]]
                                /\ highest'[b] \in Nat /\ highest'[b] >= highest[b]
        BY <2>2, EditWritten
      <3>2. \A x \in Budget \ {b} : highest'[x] = highest[x]
        BY <2>1, <3>1
      <3>3. QED
        BY <2>1, <3>1, <3>2
    <2>3. CASE UNCHANGED highest
      BY <2>1, <2>3
    <2>4. QED
      BY <2>1, <2>2, <2>3 DEF Next, Handle, Receive, Replay, DeclineUnknownCard, LoadDeclines, LoadCompares,
         LoadBudget, LockAndTotal, Insert, InsertDuplicate, SendAnswer, Notify, Commit, FailClosed,
         Crash, EditReads, EditFails, Midnight, AllAnswered, tables, vars
  <1>3. Limits(authz', highest')
    <2>1. Limits(authz, highest)
      BY DEF Accounts
    <2>2. /\ \A b, I : SumAmounts(On(authz, b, I)) \in Nat
          /\ \A b, k : SumAmounts(OnDay(authz, b, k)) \in Nat
          /\ \A b, I : \A c \in On(authz, b, I) : Amount[c] \in Nat
      BY AccountNumbers DEF On
    <2>3. Limits(authz, highest')
      BY <1>2, <2>1, <2>2 DEF Limits
    <2>4. QED
      BY <2>3
  <1>4. InTransit'
    <2> SUFFICES ASSUME NEW e \in Delivery, pc'[e] \in Deciding, verdict'[e].decision = "approved"
                 PROVE  Fits(authz, Of[e], pick'[e], seen'[e].limit, seen'[e].interval, begun'[e],
                             verdict'[e].day)
      BY DEF InTransit
    <2>1. CASE /\ pc[e] \in Deciding
               /\ UNCHANGED <<pick[e], seen[e], begun[e], verdict[e]>>
      BY <2>1 DEF Accounts, InTransit
    <2>2. CASE LoadDeclines(e) \/ LoadCompares(e) \/ LockAndTotal(e)
      BY <2>2, DecisionFits
    <2>3. \/ LoadDeclines(e) \/ LoadCompares(e) \/ LockAndTotal(e)
          \/ pc[e] \in Deciding /\ UNCHANGED <<pick[e], seen[e], begun[e], verdict[e]>>
      <3>1. ASSUME NEW d \in Delivery, Handle(d) \/ FailClosed(d) \/ Crash(d), d # e
            PROVE  pc[e] \in Deciding /\ UNCHANGED <<pick[e], seen[e], begun[e], verdict[e]>>
        BY <3>1 DEF Handle, Receive, Replay, DeclineUnknownCard, LoadDeclines, LoadCompares,
           LoadBudget, LockAndTotal, Insert, InsertDuplicate, SendAnswer, Notify, Commit, FailClosed,
           Crash, Goto, Decide, Pick, request, TypeOK
      <3>2. ASSUME Handle(e) \/ FailClosed(e) \/ Crash(e),
                   ~(LoadDeclines(e) \/ LoadCompares(e) \/ LockAndTotal(e))
            PROVE  pc[e] \in Deciding /\ UNCHANGED <<pick[e], seen[e], begun[e], verdict[e]>>
        BY <3>2 DEF Handle, Receive, Replay, DeclineUnknownCard,
           LoadBudget, Insert, InsertDuplicate, SendAnswer, Notify, Commit, FailClosed,
           Crash, Goto, Pick, request, TypeOK, Deciding
      <3>3. CASE UNCHANGED <<pc, request>>
        BY <3>3 DEF request
      <3>4. QED
        BY <3>1, <3>2, <3>3 DEF Next, EditReads, EditWrites, EditFails, Midnight, AllAnswered, vars
    <2>4. QED
      BY <2>1, <2>2, <2>3
  <1>5. QED
    BY <1>1, <1>3, <1>4 DEF Accounts, Spelled, Matches

-----------------------------------------------------------------------------
\* What the guardrail promises

\* Every variable has its type, and only a delivery in its transaction holds a row.
THEOREM TypeCorrect == Spec => []TypeOK
  <1>1. IInv => TypeOK
    BY DEF IInv
  <1>2. QED
    BY <1>1, Invariance, PTL

\* A delivery that was not cut off gave the verdict that is recorded for its
\* charge, whatever raced with it and failed beside it.
THEOREM RepliesAreRecorded == Spec => []ReplyIsRecorded
  <1>1. IInv => ReplyIsRecorded
    BY DEF IInv
  <1>2. QED
    BY <1>1, Invariance, PTL

\* The cardholder is told once of a decline, and never of an approval, but for
\* the messages of verdicts that a crash undid.
THEOREM DeclinesToldOnce == Spec => []ToldOnceOfADecline
  <1>1. IInv => ToldOnceOfADecline
    <2> SUFFICES ASSUME IInv, NEW c \in Charge
                 PROVE  /\ notified[c] <= 1 + faults
                        /\ notified[c] > 0 /\ faults = 0 => authz[c].decision # "approved"
      BY DEF ToldOnceOfADecline
    <2>1. /\ notified[c] \in Nat /\ faults \in Nat
          /\ notified[c] <= IF Told(c) THEN 1 + faults ELSE faults
      BY SpendAssumption DEF IInv, TypeOK, Messages, SpendAssumption
    <2>2. notified[c] > 0 /\ faults = 0 => DeclineTold(c)
      BY DEF IInv, Messages
    <2>3. DeclineTold(c) => authz[c].decision # "approved"
      BY DEF DeclineTold, IInv, OneInsert, Inserted
    <2>4. QED
      BY <2>1, <2>2, <2>3
  <1>2. QED
    BY <1>1, Invariance, PTL

\* Concurrent swipes never bust a budget: if charges and budgets are spelled the
\* same way, what a budget approved stays within the highest limit it had,
\* whatever interleaves, fails, is edited or is delivered again.
THEOREM LimitHolds == ASSUME OneSpelling PROVE Spec => []WithinLimit
  <1>1. Init => Accounts
    <2> SUFFICES ASSUME Init PROVE Accounts
      OBVIOUS
    <2>1. \A b, I, k : On(authz, b, I) = {} /\ OnDay(authz, b, k) = {}
      BY DEF Init, On, OnDay, NoRow
    <2>2. highest \in [Budget -> Nat]
      BY InitInv, SpendAssumption DEF IInv, TypeOK
    <2>3. Limits(authz, highest)
      <3>1. SumAmounts({}) = 0
        BY SpendAssumption, AmountsAdd
      <3>2. \A b \in Budget : highest[b] \in Nat
        BY <2>2
      <3>3. \A b \in Budget : 0 <= highest[b]
        BY <3>2
      <3>4. QED
        BY <2>1, <3>1, <3>3 DEF Limits
    <2>4. InTransit
      BY DEF Init, InTransit, Deciding
    <2>5. QED
      BY <2>3, <2>4, OneSpelling DEF Init, Accounts, OneSpelling
  <1>2. IInv /\ Accounts /\ [Next]_vars => Accounts'
    <2> SUFFICES ASSUME IInv, Accounts, [Next]_vars PROVE Accounts'
      OBVIOUS
    <2>1. CASE UNCHANGED vars
      BY <2>1 DEF vars, tables, request, Accounts, InTransit, Spelled, Matches
    <2>2. ASSUME NEW d \in Delivery, Commit(d)
          PROVE  Accounts'
      BY <2>2, SpendAssumption, CommitAccounts
    <2>3. CASE Next /\ UNCHANGED authz
      BY <2>3, SpendAssumption, OneSpelling, OtherAccounts
    <2>4. QED
      BY <2>1, <2>2, <2>3 DEF Next, Handle, Receive, Replay, DeclineUnknownCard, LoadDeclines,
         LoadCompares, LoadBudget, LockAndTotal, Insert, InsertDuplicate, SendAnswer, Notify, FailClosed,
         Crash, EditReads, EditWrites, EditFails, Midnight, AllAnswered, tables, vars
  <1>3. Accounts => WithinLimit
    BY DEF Accounts, Limits, WithinLimit, On, OnDay, Approved, ApprovedOn
  <1>4. QED
    BY <1>1, <1>2, <1>3, Invariance, PTL DEF Spec

-----------------------------------------------------------------------------
\* AgentRun: the audit trail

\* What the trail needs of the types: responses are numbered by `billed`.
Numbered ==
    /\ billed \in Seq(Sizes)
    /\ phase \in {"queued", "running", "calling"} \cup InHand \cup Ended

TrailInv == Numbered /\ TrailTellsAll

\* A response is the current one only after an answer.
LEMMA InHandIsBilled ==
    ASSUME AgentAssumption, Numbered, NEW size \in Sizes, billed' = Append(billed, size)
    PROVE  /\ billed' \in Seq(Sizes)
           /\ Current \in Nat /\ Current' = Current + 1
           /\ Response' = Response \cup {Current'}
  BY DEF Numbered, Current, Response

LEMMA InitTrail == AgentAssumption /\ AgentInit => TrailInv
  BY DEF AgentInit, TrailInv, Numbered, TrailTellsAll, Response

\* Emit leaves the current response in the trail or counts it as lost, and
\* takes no other out.
LEMMA EmitTells ==
    ASSUME NEW status, Emit(status)
    PROVE  /\ \/ \E e \in trail' : e.of = Current
              \/ Current \in lost'
           /\ trail \subseteq trail' /\ lost \subseteq lost'
  <1>1. CASE /\ trail' = trail \cup {[of |-> Current, status |-> status]}
             /\ UNCHANGED lost
    <2>1. [of |-> Current, status |-> status].of = Current
      OBVIOUS
    <2>2. [of |-> Current, status |-> status] \in trail'
      BY <1>1
    <2>3. QED
      BY <1>1, <2>1, <2>2
  <1>2. CASE Drop
    BY <1>2 DEF Drop
  <1>3. QED
    BY <1>1, <1>2 DEF Emit

\* After a step that answers nothing, in which the current response is told of,
\* everything is.
LEMMA ToldStaysTold ==
    ASSUME TrailInv, UNCHANGED billed,
           trail \subseteq trail', lost \subseteq lost',
           phase \in InHand => \/ phase' \in InHand
                               \/ \E e \in trail' : e.of = Current
                               \/ Current \in lost'
    PROVE  TrailTellsAll'
  <1>1. Response' = Response /\ Current' = Current
    BY DEF Response, Current
  <1>2. SUFFICES ASSUME NEW i \in Response
                 PROVE  \/ \E e \in trail' : e.of = i
                        \/ i \in lost'
                        \/ i = Current /\ phase' \in InHand
    BY <1>1 DEF TrailTellsAll
  <1>3. \/ \E e \in trail : e.of = i
        \/ i \in lost
        \/ i = Current /\ phase \in InHand
    BY DEF TrailInv, TrailTellsAll
  <1>4. QED
    BY <1>3

LEMMA NextTrail ==
    ASSUME AgentAssumption, TrailInv, [AgentNext]_agentVars
    PROVE  TrailInv'
  <1> USE DEF TrailInv, InHand, Ended
  <1>1. CASE Begin
    <2>1. TrailTellsAll'
      BY <1>1, ToldStaysTold DEF Begin
    <2>2. QED
      BY <1>1, <2>1 DEF Begin, Numbered
  <1>2. CASE Call
    <2>1. TrailTellsAll'
      BY <1>2, ToldStaysTold DEF Call
    <2>2. QED
      BY <1>2, <2>1 DEF Call, Numbered
  <1>3. CASE Respond
    <2>1. PICK size \in Sizes : billed' = Append(billed, size)
      BY <1>3 DEF Respond
    <2>2. /\ phase = "calling" /\ phase' \in InHand
          /\ UNCHANGED <<trail, lost>>
      BY <1>3 DEF Respond
    <2>3. /\ billed' \in Seq(Sizes)
          /\ Response' = Response \cup {Current'}
      BY <2>1, InHandIsBilled
    <2>4. \A i \in Response : (\E e \in trail : e.of = i) \/ i \in lost
      BY <2>2 DEF TrailTellsAll
    <2>5. TrailTellsAll'
      BY <2>2, <2>3, <2>4 DEF TrailTellsAll
    <2>6. QED
      BY <2>2, <2>3, <2>5 DEF Numbered
  <1>4. CASE Reject
    <2>1. /\ \/ \E e \in trail' : e.of = Current
             \/ Current \in lost'
          /\ trail \subseteq trail' /\ lost \subseteq lost'
      BY <1>4, EmitTells DEF Reject, EmitRetry
    <2>2. TrailTellsAll'
      BY <1>4, <2>1, ToldStaysTold DEF Reject
    <2>3. QED
      BY <1>4, <2>2 DEF Reject, Numbered
  <1>5. CASE Accept
    <2>1. /\ \/ \E e \in trail' : e.of = Current
             \/ Current \in lost'
          /\ trail \subseteq trail' /\ lost \subseteq lost'
      BY <1>5, EmitTells DEF Accept
    <2>2. TrailTellsAll'
      BY <1>5, <2>1, ToldStaysTold DEF Accept
    <2>3. QED
      BY <1>5, <2>2 DEF Accept, Numbered
  <1>6. CASE Fail
    <2>1. /\ \/ \E e \in trail' : e.of = Current
             \/ Current \in lost'
          /\ trail \subseteq trail' /\ lost \subseteq lost'
      BY <1>6, EmitTells DEF Fail, RecordFailure
    <2>2. TrailTellsAll'
      BY <1>6, <2>1, ToldStaysTold DEF Fail
    <2>3. QED
      BY <1>6, <2>2 DEF Fail, Numbered
  <1>7. CASE Unanswered
    <2>1. TrailTellsAll'
      BY <1>7, ToldStaysTold DEF Unanswered
    <2>2. QED
      BY <1>7, <2>1 DEF Unanswered, Numbered
  <1>8. CASE Succeed
    <2>1. TrailTellsAll'
      BY <1>8, ToldStaysTold DEF Succeed
    <2>2. QED
      BY <1>8, <2>1 DEF Succeed, Numbered
  <1>9. CASE RollBack
    <2>1. TrailTellsAll'
      BY <1>9, ToldStaysTold DEF RollBack
    <2>2. QED
      BY <1>9, <2>1 DEF RollBack, Numbered
  <1>10. CASE UNCHANGED agentVars
    BY <1>10 DEF agentVars, Numbered, TrailTellsAll, Response, Current
  <1>11. QED
    BY <1>1, <1>2, <1>3, <1>4, <1>5, <1>6, <1>7, <1>8, <1>9, <1>10 DEF AgentNext

\* ORCH-003, ORCH-004: whatever a run was charged for is in the audit trail, the
\* responses that were rejected, that broke the budget and those of executions
\* that were rolled back too, unless the sink or the process failed while the
\* response was in hand.
THEOREM ChargesAreAudited == AgentSpec => []TrailTellsAll
  <1>1. AgentInit => TrailInv
    BY InitTrail, AgentAssumption
  <1>2. TrailInv /\ [AgentNext]_agentVars => TrailInv'
    BY NextTrail, AgentAssumption
  <1>3. TrailInv => TrailTellsAll
    BY DEF TrailInv
  <1>4. QED
    BY <1>1, <1>2, <1>3, PTL DEF AgentSpec

-----------------------------------------------------------------------------
\* AgentRun: the token budget

\* The run has attempts, agents and retries left where a step takes one; a
\* response in hand has no row yet.
Running == phase \in {"calling"} \cup InHand
Counters ==
    /\ phase = "queued" => attempt < MaxAttempts
    /\ Running => left > 0
    /\ phase \in {"calling", "valid", "invalid"} => tries <= Retries
    /\ phase \in InHand => Current > 0 /\ Current \notin rows

\* Tokens is a total, and what is said of it holds of Billed; as a function of
\* both the responses and their tokens it can be followed through a step.
Billed(R) == Total(billed, R)

\* An agent knows of what the rows hold and of the response in hand, and goes on
\* only within the budget.
Charged ==
    /\ ~scoped => rows = {}
    /\ phase = "calling" => Billed(rows) <= spent /\ spent <= TokenBudget
    /\ scoped /\ phase \in InHand => Billed(rows) + billed[Current] <= spent
    /\ phase \in {"valid", "invalid", "exhausted"} => spent <= TokenBudget

Within ==
    \/ Billed(rows) <= TokenBudget
    \/ phase = "failed" /\ Billed(rows \ {Current}) <= TokenBudget

BudgetInv == AgentTypeOK /\ Counters /\ Charged /\ Within

LEMMA TokensAreBilled == \A R : Tokens(R) = Billed(R)
  BY DEF Tokens, Billed, Total

\* Some of the responses are finitely many.
LEMMA BilledAdds ==
    ASSUME AgentAssumption, billed \in Seq(Sizes), NEW R \in SUBSET Response
    PROVE  /\ Billed(R) \in Nat
           /\ \A i \in Response \ R : Billed(R \cup {i}) = billed[i] + Billed(R)
           /\ IsFiniteSet(R) /\ \A i \in Response : billed[i] \in Nat
  <1>1. \A i \in Response : billed[i] \in Nat
    <2>1. \A i \in 1..Len(billed) : billed[i] \in Sizes
      OBVIOUS
    <2>2. Sizes \subseteq Nat
      BY DEF AgentAssumption
    <2>3. QED
      BY <2>1, <2>2 DEF Response
  <1>2. IsFiniteSet(R)
    <2>1. 1 \in Int /\ Len(billed) \in Int
      OBVIOUS
    <2>2. IsFiniteSet(1..Len(billed))
      BY <2>1, FS_Interval
    <2>3. QED
      BY <2>2, FS_Subset DEF Response
  <1>3. Billed(R) \in Nat
    <2>1. \A s \in R : billed[s] \in Nat
      BY <1>1
    <2>2. QED
      BY <1>2, <2>1, TotalIsNat DEF Billed
  <1>4. ASSUME NEW i \in Response \ R
        PROVE  Billed(R \cup {i}) = billed[i] + Billed(R)
    <2>1. \A s \in R \cup {i} : billed[s] \in Nat
      BY <1>1
    <2>2. QED
      BY <1>2, <1>4, <2>1, TotalAdds DEF Billed
  <1>5. QED
    BY <1>1, <1>2, <1>3, <1>4

LEMMA BilledNothing == Billed({}) = 0
  BY TotalOfNone DEF Billed

\* A new response changes no row.
LEMMA RowsUnmoved ==
    ASSUME AgentAssumption, billed \in Seq(Sizes), rows \in SUBSET Response, NEW size \in Sizes,
           billed' = Append(billed, size), rows' = rows
    PROVE  /\ billed' \in Seq(Sizes) /\ Current \in Nat /\ Current' = Current + 1
           /\ billed'[Current'] = size /\ Response \subseteq Response'
           /\ Current' \in Response' /\ Current' \notin rows /\ Billed(rows)' = Billed(rows)
  <1>1. /\ billed' \in Seq(Sizes) /\ Current \in Nat /\ Current' = Current + 1
        /\ billed'[Current'] = size /\ Response \subseteq Response'
        /\ Current' \in Response' /\ Current' \notin rows
    BY DEF Current, Response
  <1>2. IsFiniteSet(rows)
    BY BilledAdds
  <1>3. \A i \in rows : billed[i] = billed'[i]
    BY DEF Response
  <1>4. Total(billed, rows) = Total(billed', rows)
    BY <1>2, <1>3, TotalSame
  <1>5. QED
    BY <1>1, <1>4 DEF Billed

\* What follows of the response that Emit tells of.
LEMMA EmitTyped ==
    ASSUME AgentTypeOK, Current \in Response,
           NEW status \in {"retried", "success", "failed"}, Emit(status), UNCHANGED billed
    PROVE  lost' \subseteq Response' /\ trail' \subseteq [of : Response', status : {"retried", "success", "failed"}]
  <1>1. Response' = Response
    BY DEF Response
  <1>2. [of |-> Current, status |-> status] \in [of : Response, status : {"retried", "success", "failed"}]
    OBVIOUS
  <1>3. QED
    BY <1>1, <1>2 DEF Emit, Drop, AgentTypeOK

LEMMA InitBudget == AgentAssumption /\ AgentInit => BudgetInv
  <1> SUFFICES ASSUME AgentAssumption, AgentInit PROVE BudgetInv
    OBVIOUS
  <1>1. Billed(rows) = 0
    BY BilledNothing DEF AgentInit
  <1>2. QED
    BY <1>1 DEF AgentInit, BudgetInv, AgentTypeOK, Counters, Charged, Within, InHand, Ended, Running,
                AgentAssumption, Response

LEMMA NextBudget ==
    ASSUME AgentAssumption, BudgetInv, [AgentNext]_agentVars
    PROVE  BudgetInv'
  <1> USE DEF BudgetInv, InHand, Ended, Running
  <1>1. /\ Billed(rows) \in Nat /\ billed \in Seq(Sizes) /\ rows \in SUBSET Response
        /\ Current \in Nat /\ spent \in Nat /\ TokenBudget \in Nat /\ Retries \in Nat /\ Calls \in Nat
        /\ \A i \in Response : billed[i] \in Nat
    <2>1. /\ billed \in Seq(Sizes) /\ rows \in SUBSET Response /\ spent \in Nat
          /\ TokenBudget \in Nat /\ Retries \in Nat /\ Calls \in Nat
      BY DEF AgentTypeOK, AgentAssumption
    <2>2. Current \in Nat
      BY <2>1 DEF Current
    <2>3. QED
      BY <2>1, <2>2, BilledAdds
  <1>2. phase \in InHand => Current \in Response
    BY <1>1 DEF Counters, Response, Current
  <1>3. UNCHANGED billed => Response' = Response /\ Current' = Current
    BY DEF Response, Current
  <1>4. UNCHANGED <<billed, rows>> => Billed(rows)' = Billed(rows)
    BY DEF Billed
  <1>5. CASE Begin
    BY <1>1, <1>3, <1>4, <1>5 DEF Begin, AgentTypeOK, Counters, Charged, Within, AgentAssumption
  <1>6. CASE Call
    <2>1. scoped => spent' = Billed(rows)
      BY <1>6, TokensAreBilled DEF Call, SpentBefore
    <2>2. ~scoped => Billed(rows) = 0 /\ spent' = 0
      BY <1>6, BilledNothing DEF Call, SpentBefore, Charged
    <2>3. QED
      BY <1>1, <1>3, <1>4, <1>6, <2>1, <2>2 DEF Call, AgentTypeOK, Counters, Charged, Within
  <1>7. CASE Respond
    <2>1. PICK size \in Sizes :
             /\ billed' = Append(billed, size) /\ spent' = spent + size
             /\ phase' \in (IF spent + size > TokenBudget THEN {"over"} ELSE {"valid", "invalid"})
      BY <1>7 DEF Respond
    <2>2. /\ phase = "calling"
          /\ UNCHANGED <<scoped, attempt, left, tries, rows, trail, total, lost>>
      BY <1>7 DEF Respond
    <2>3. /\ billed' \in Seq(Sizes) /\ Current' = Current + 1 /\ billed'[Current'] = size
          /\ Response \subseteq Response' /\ Current' \notin rows /\ Billed(rows)' = Billed(rows)
      BY <1>1, <2>1, <2>2, RowsUnmoved
    <2>4. size \in Nat /\ spent' \in Nat
      BY <1>1, <2>1 DEF AgentAssumption
    <2>5. /\ phase' \in {"over", "valid", "invalid"}
          /\ phase' \in {"valid", "invalid"} => spent' <= TokenBudget
      BY <1>1, <2>1, <2>4
    <2>6. AgentTypeOK'
      <3>1. trail' \subseteq [of : Response', status : {"retried", "success", "failed"}]
        BY <2>2, <2>3 DEF AgentTypeOK
      <3>2. rows' \subseteq Response' /\ lost' \subseteq Response'
        BY <2>2, <2>3 DEF AgentTypeOK
      <3>3. QED
        BY <2>2, <2>3, <2>4, <2>5, <3>1, <3>2 DEF AgentTypeOK
    <2>7. Counters'
      <3>1. Current' > 0
        BY <1>1, <2>3
      <3>2. left > 0 /\ tries <= Retries
        BY <2>2 DEF Counters
      <3>3. QED
        BY <2>2, <2>3, <2>5, <3>1, <3>2 DEF Counters
    <2>8. Charged'
      BY <1>1, <2>1, <2>2, <2>3, <2>4, <2>5 DEF Charged
    <2>9. Within'
      BY <2>2, <2>3 DEF Within
    <2>10. QED
      BY <2>6, <2>7, <2>8, <2>9
  <1>8. CASE Reject
    <2>1. lost' \subseteq Response' /\ trail' \subseteq [of : Response', status : {"retried", "success", "failed"}]
      BY <1>2, <1>8, EmitTyped DEF Reject, EmitRetry
    <2>2. AgentTypeOK'
      BY <1>1, <1>3, <1>8, <2>1 DEF Reject, AgentTypeOK, Counters
    <2>3. Billed(rows)' = Billed(rows) /\ billed[Current] \in Nat
      BY <1>1, <1>2, <1>4, <1>8 DEF Reject
    <2>4. Counters'
      BY <1>1, <1>3, <1>8 DEF Reject, Counters, AgentTypeOK
    <2>5. Charged'
      <3>1. ~scoped => Billed(rows) = 0
        BY BilledNothing DEF Charged
      <3>2. QED
        BY <1>1, <1>3, <1>8, <2>3, <3>1 DEF Reject, Charged
    <2>6. Within'
      BY <1>3, <1>8, <2>3 DEF Reject, Within
    <2>7. QED
      BY <2>2, <2>4, <2>5, <2>6
  <1>9. CASE Accept \/ Fail
    <2>1. /\ phase \in InHand /\ rows' = rows \cup Row /\ UNCHANGED <<billed, scoped, spent>>
          /\ phase = "over" \/ spent <= TokenBudget
          /\ \/ phase' = "running" /\ spent <= TokenBudget
             \/ phase' = "failed"
      BY <1>9 DEF Accept, Fail, RecordFailure, Charged
    <2>2. lost' \subseteq Response' /\ trail' \subseteq [of : Response', status : {"retried", "success", "failed"}]
      BY <1>2, <1>9, EmitTyped DEF Accept, Fail, RecordFailure
    <2>3. AgentTypeOK'
      <3>1. rows' \subseteq Response'
        BY <1>1, <1>2, <1>3, <2>1 DEF Row
      <3>2. left' \in 0..Calls
        <4>1. left \in 0..Calls /\ left > 0
          BY <2>1 DEF Counters, AgentTypeOK
        <4>2. left' = left - 1 \/ left' = left
          BY <1>9 DEF Accept, Fail
        <4>3. QED
          BY <1>1, <4>1, <4>2
      <3>3. UNCHANGED <<scoped, attempt, tries, spent, billed, total>>
        BY <1>9 DEF Accept, Fail
      <3>4. QED
        BY <2>1, <2>2, <3>1, <3>2, <3>3 DEF AgentTypeOK
    <2>4. Counters'
      BY <1>9, <2>1 DEF Accept, Fail, Counters
    <2>5. \A R : Billed(R)' = Billed(R)
      BY <2>1 DEF Billed
    <2>6. CASE ~scoped
      <3>1. rows' = {} /\ ~scoped'
        BY <2>1, <2>6 DEF Row, Charged
      <3>2. Billed(rows)' = 0
        BY <3>1, TotalOfNone DEF Billed
      <3>3. Charged' /\ Within'
        BY <1>1, <2>1, <3>1, <3>2 DEF Charged, Within
      <3>4. QED
        BY <2>3, <2>4, <3>3
    <2>7. CASE scoped
      <3>1. Current \in Response /\ Current \notin rows /\ rows' = rows \cup {Current}
        BY <1>2, <2>1, <2>7 DEF Counters, Row
      <3>2. Billed(rows \cup {Current}) = billed[Current] + Billed(rows)
        BY <1>1, <3>1, BilledAdds
      <3>3. Billed(rows)' = Billed(rows \cup {Current})
        BY <2>1, <3>1 DEF Billed
      <3>4. billed[Current] + Billed(rows) <= spent
        BY <1>1, <2>1, <2>7, <3>1 DEF Charged
      <3>5. rows' \ {Current'} = rows
        BY <1>3, <2>1, <3>1
      <3>6. Billed(rows \ {Current})' = Billed(rows)
        BY <2>1, <3>5 DEF Billed
      <3>7. Billed(rows) <= TokenBudget
        BY <2>1 DEF Within
      <3>8. Within'
        <4>1. CASE phase' = "failed"
          BY <3>6, <3>7, <4>1 DEF Within
        <4>2. CASE spent <= TokenBudget
          BY <1>1, <1>2, <2>1, <3>2, <3>3, <3>4, <4>2 DEF Within
        <4>3. QED
          BY <2>1, <4>1, <4>2
      <3>9. Charged'
        BY <2>1, <2>7 DEF Charged
      <3>10. QED
        BY <2>3, <2>4, <3>8, <3>9
    <2>8. QED
      BY <2>6, <2>7
  <1>10. CASE Unanswered
    BY <1>1, <1>3, <1>4, <1>10 DEF Unanswered, AgentTypeOK, Counters, Charged, Within
  <1>11. CASE Succeed
    BY <1>1, <1>3, <1>4, <1>11, TokensAreBilled DEF Succeed, AgentTypeOK, Counters, Charged, Within
  <1>12. CASE RollBack
    <2>1. rows' = {} /\ Billed(rows)' = 0
      BY <1>12, TotalOfNone DEF RollBack, Billed
    <2>2. QED
      <3>1. AgentTypeOK'
        BY <1>2, <1>3, <1>12, <2>1 DEF RollBack, AgentTypeOK
      <3>2. Counters'
        BY <1>12 DEF RollBack, Counters
      <3>3. Charged' /\ Within'
        <4>1. phase' \in {"queued", "given up"}
          BY <1>12 DEF RollBack
        <4>2. 0 <= TokenBudget
          BY <1>1
        <4>3. Charged'
          BY <2>1, <4>1 DEF Charged
        <4>4. Within'
          BY <2>1, <4>2 DEF Within, AgentAssumption
        <4>5. QED
          BY <4>3, <4>4
      <3>4. QED
        BY <3>1, <3>2, <3>3
  <1>13. CASE UNCHANGED agentVars
    <2>1. UNCHANGED <<scoped, phase, attempt, left, tries, spent, billed, rows, trail, total, lost>>
      BY <1>13 DEF agentVars
    <2>2. Billed(rows \ {Current})' = Billed(rows \ {Current})
      BY <2>1 DEF Billed, Current
    <2>3. QED
      BY <1>3, <1>4, <2>1, <2>2 DEF AgentTypeOK, Counters, Charged, Within
  <1>14. QED
    BY <1>5, <1>6, <1>7, <1>8, <1>9, <1>10, <1>11, <1>12, <1>13 DEF AgentNext

LEMMA BudgetInvariant == AgentSpec => []BudgetInv
  <1>1. AgentInit => BudgetInv
    BY InitBudget, AgentAssumption
  <1>2. BudgetInv /\ [AgentNext]_agentVars => BudgetInv'
    BY NextBudget, AgentAssumption
  <1>3. QED
    BY <1>1, <1>2, PTL DEF AgentSpec

\* Every variable has its type.
THEOREM AgentTypeCorrect == AgentSpec => []AgentTypeOK
  <1>1. BudgetInv => AgentTypeOK
    BY DEF BudgetInv
  <1>2. QED
    BY <1>1, BudgetInvariant, PTL

\* The token budget of a run: what its rows hold is within the budget but for
\* the response that broke it, and then the run has not succeeded.
THEOREM BudgetHolds == AgentSpec => []RecordedWithinBudget
  <1>1. BudgetInv => RecordedWithinBudget
    <2> SUFFICES ASSUME BudgetInv PROVE RecordedWithinBudget
      OBVIOUS
    <2>1. Billed(rows) \in Nat /\ TokenBudget \in Nat
      BY AgentAssumption, BilledAdds DEF BudgetInv, AgentTypeOK, AgentAssumption
    <2>2. QED
      BY <2>1, TokensAreBilled DEF BudgetInv, Within, RecordedWithinBudget
  <1>2. QED
    BY <1>1, BudgetInvariant, PTL
=============================================================================
