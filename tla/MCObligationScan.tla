-------------------------- MODULE MCObligationScan --------------------------
(***************************************************************************)
(* Model checking instance of ObligationScan: two replicas, two syncs at   *)
(* once, an owner who closes an obligation.                                *)
(***************************************************************************)
EXTENDS ObligationScan

Keys == {"sam", "iso"}
Base == {[key |-> "sam", days |-> 0]}
Table == <<[key |-> "iso", days |-> 2]>>
Certs == {"iso9001", "iso27001"}
HitsOf == [c \in Certs |-> {1}]
HeldCerts == <<"iso9001", "iso27001">>

Closing == [p \in {"close"} |-> [key |-> "sam", status |-> "completed", due |-> Keep]]
=============================================================================
