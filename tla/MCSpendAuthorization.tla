----------------------- MODULE MCSpendAuthorization -----------------------
(***************************************************************************)
(* Model checking instances of SpendAuthorization.                         *)
(***************************************************************************)
EXTENDS SpendAuthorization

\* Spellings: "acme" and "ACME" are one merchant to _rule_matches.
Values == {"acme", "ACME", "tools", "Tools"}
Lower == [v \in Values |-> CASE v = "ACME" -> "acme" [] v = "Tools" -> "tools" [] OTHER -> v]

Fields(merchant, category) ==
    [dim \in Dim |-> CASE dim = "merchant" -> merchant
                       [] dim = "category" -> category
                       [] dim = "mcc" -> NoValue]

Row(dim, value, limit, interval) ==
    [dim |-> dim, value |-> value, limit |-> limit, interval |-> interval]

-----------------------------------------------------------------------------
\* c1 and c2 at the budgeted merchant, c2 delivered twice; c3 elsewhere in the
\* category; c4 of a card nobody issued.  Edits raise the limit, change the
\* interval, add a budget of the category and add rules.

Charges == {"c1", "c2", "c3", "c4"}
Deliveries == {"d1", "d2", "d3", "d4", "d5"}
DeliveryOf ==
    [d \in Deliveries |-> CASE d = "d1" -> "c1" [] d \in {"d2", "d3"} -> "c2"
                            [] d = "d4" -> "c3" [] d = "d5" -> "c4"]
Amounts == [c \in Charges |-> IF c = "c1" THEN 2 ELSE 1]
ChargeFields ==
    [c \in Charges |-> CASE c = "c3" -> Fields(NoValue, "tools")
                         [] c = "c2" -> Fields("acme", NoValue)
                         [] OTHER -> Fields("acme", "tools")]

Budgets == {"b1", "b2"}
DailyBudget ==
    [b \in Budgets |-> IF b = "b1" THEN Row("merchant", "acme", 2, "daily") ELSE NoBudget]

DenyAcme == [kind |-> "deny", dim |-> "merchant", value |-> "ACME"]
AllowTools == [kind |-> "allow", dim |-> "category", value |-> "Tools"]
Edits == {"raise", "single", "category", "deny"}
Wishes ==
    [e \in Edits |->
        CASE e = "raise" -> [budget |-> Row("merchant", "acme", 3, "all_time"), rule |-> NoRule]
          [] e = "single" -> [budget |-> Row("merchant", "acme", 1, "per_authorization"),
                              rule |-> AllowTools]
          [] e = "category" -> [budget |-> Row("category", "tools", 2, "daily"),
                                rule |-> AllowTools]
          [] e = "deny" -> [budget |-> Row("merchant", "acme", 3, "all_time"), rule |-> DenyAcme]]

\* Who comes: the swipes with a raise, or two charges with two edits.
Comers == {{"d1", "d2", "d3", "raise"}, {"d1", "d4", "single", "category"},
           {"d1", "d2", "category", "deny"}, {"d1", "d5", "single", "deny"}}

-----------------------------------------------------------------------------
\* Spelling: two swipes under a category budget the owner spelled in capitals.

SpeltCharges == {"c1", "c2"}
SpeltDeliveries == {"d1", "d2"}
SpeltDeliveryOf == [d \in SpeltDeliveries |-> IF d = "d1" THEN "c1" ELSE "c2"]
SpeltAmounts == [c \in SpeltCharges |-> 2]
SpeltFields == [c \in SpeltCharges |-> Fields(NoValue, "tools")]
SpeltBudgets == {"b1"}
SpeltBudget == [b \in SpeltBudgets |-> Row("category", "Tools", 3, "all_time")]
NoEdits == <<>>
Everyone == {SpeltDeliveries}
=============================================================================
