----------------------------- MODULE MCCorpusSync -----------------------------
(***************************************************************************)
(* Model checking instance of CorpusSync: two rules of the weekly feed and *)
(* room for one on its page, a publication swept quarterly, no source in   *)
(* the monthly tier, a state that is not enabled; the scheduler with a     *)
(* command beside it, or with a second rule and a withdrawal.              *)
(***************************************************************************)
EXTENDS CorpusSync

Docs == {"rule", "later", "pub"}
Federal == [ecfr |-> <<>>, federal_register |-> <<"later", "rule">>,
            firecrawl |-> <<>>, pdf |-> <<"pub">>]
States == <<[jurisdiction |-> "ca", docs |-> <<"pub">>]>>
Targets == {[kind |-> "rule", key |-> "rule", docs |-> <<>>],
            [kind |-> "rule", key |-> NoDoc, docs |-> <<>>],
            [kind |-> "pdf", key |-> "pub", docs |-> <<"pub">>]}
Published == [d \in Doc |-> IF d = "pub" THEN 2 ELSE 1]
Commands == [p \in {"operator"} |-> {"sync", "embed"}]
Teams == {{"operator"}, {"later", "pub"}}
=============================================================================
