------------------------ MODULE MCPaymentGuardrails ------------------------
(***************************************************************************)
(* Model checking instances of PaymentGuardrails: one payment sent twice,  *)
(* a rule for its account and one for the whole organization, submitted    *)
(* at any time, and two reviewers who disagree.                            *)
(***************************************************************************)
EXTENDS PaymentGuardrails

Words == {"acme", "ACME", "travel"}
Lower == [w \in Words |-> IF w = "ACME" THEN "acme" ELSE w]
Alphabetical == {<<"ACME", "acme">>, <<"ACME", "travel">>, <<"acme", "travel">>}

Number(k) == [kind |-> "number", n |-> k, words |-> {}]
Text1(w) == [kind |-> "word", n |-> 0, words |-> {w}]
ListOf(ws) == [kind |-> "list", n |-> 0, words |-> ws]

Substrings == {<<Text1("ACME"), Text1("acme")>>, <<Text1("acme"), Text1("acme")>>}

If(field, op, value) == [field |-> field, op |-> op, value |-> value]
Then(conditions, action, priority) ==
    [conditions |-> conditions, action |-> action, priority |-> priority]

Texts == {"mine", "ours"}
TextFor == [t \in Texts |-> "bank"]
TextOrgWide == [t \in Texts |-> t = "ours"]
Rules ==
    [t \in Texts |->
        IF t = "mine"
        THEN <<Then({If("payee", "in", ListOf({"ACME"})), If("amount", "gte", Number(2))}, "allow", 10),
               NoRule>>
        ELSE <<Then({If("category", "neq", Text1("travel"))}, "escalate", 10)>>]

Ids == 1..3

Evaluations == {"e1", "e2"}
AccountOf == [e \in Evaluations |-> "bank"]
OnePayment == [e \in Evaluations |-> "txn"]
Facts ==
    [e \in Evaluations |->
        [field \in Field |->
            CASE field = "amount" -> Number(2)
              [] field = "payee" -> Text1("acme")
              [] OTHER -> Missing]]

Reviews == {"r1", "r2"}
SamePaymentReviewed == [r \in Reviews |-> "e1"]
Disagree == [r \in Reviews |-> IF r = "r1" THEN "approved" ELSE "rejected"]
Default == [a \in {"bank"} |-> "escalate"]
=============================================================================
