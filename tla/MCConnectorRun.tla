--------------------------- MODULE MCConnectorRun ---------------------------
(***************************************************************************)
(* Connector calls on small instances: one request with two reservations    *)
(* and recoveries beside its executor, with and without an account policy,  *)
(* one with three and no policy, and two requests that share one slot.      *)
(***************************************************************************)
EXTENDS ConnectorRun

CONSTANTS r1, r2

Only(n) == [r \in Requests |-> IF r = r1 THEN n ELSE 0]

FourSettings ==
    {[attempts |-> Only(2), policy |-> TRUE, beside |-> TRUE],
     [attempts |-> Only(3), policy |-> FALSE, beside |-> FALSE],
     [attempts |-> [r \in Requests |-> 1], policy |-> TRUE, beside |-> FALSE],
     [attempts |-> Only(2), policy |-> FALSE, beside |-> TRUE]}
=============================================================================
