--------------------------- MODULE MCOpportunityScan ---------------------------
(***************************************************************************)
(* Model checking instance of OpportunityScan: two scans for contracts,    *)
(* a program the company first fits better and then no longer, a filing.   *)
(***************************************************************************)
EXTENDS OpportunityScan, TLC

Codes == [c \in {"541511", "541512", "236220"} |-> IF c = "236220" THEN "236" ELSE "541"]

Phrases == [n \in {"541511", "541512", "sewing"} |-> {}]

Start == [naics |-> {"541511"}, services |-> {}, certs |-> {}, industry |-> {}, description |-> {},
          statement |-> {"research"}, targets |-> {}, place |-> NoPlace]
Grown == [Start EXCEPT !.certs = {"8a"}, !.naics = @ \cup {"541512"}, !.services = {"sewing"},
                       !.statement = @ \cup {"cloud"}]
Described == [Grown EXCEPT !.description = {"tents"}]
Profiles == <<Start, Grown, Described>>

Notices == "set aside" :> [naics |-> "541512", mentions |-> {}, setAside |-> "certified",
                           hints |-> {"8a"}, place |-> "here"]
        @@ "open" :> [naics |-> NoCode, mentions |-> {}, setAside |-> "none",
                      hints |-> {}, place |-> "here"]
        @@ "award" :> [applicants |-> "restricted", category |-> "applied research",
                       words |-> {"applied", "research"}, akin |-> {}]
Catalog == "sbir" :> [requires |-> {}, broad |-> FALSE, signals |-> {"research", "cloud"}]

\* Of seven words, four are enough to match and two to match in part.
Demands == "r1" :> 1..7 @@ "r2" :> {7, 8}
Facts == "weak" :> {1} @@ "fair" :> {2, 3, 8} @@ "good" :> 1..4 @@ "other" :> {8, 9}

Runners == {[r \in Scan |-> "gov_contract"], [r \in Scan |-> "program"]}
    \cup {k \in [Scan -> {"grant", "program"}] : k[CHOOSE r \in Scan : TRUE] = "grant"}

Answers == "gov_contract" :> {<<"set aside", "open">>, <<"open", "set aside">>}
        @@ "grant" :> {<<"award">>}
=============================================================================
