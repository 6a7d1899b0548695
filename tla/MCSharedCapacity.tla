-------------------------- MODULE MCSharedCapacity --------------------------
(***************************************************************************)
(* The shared model capacity on small instances: three calls against one    *)
(* policy, and two calls while the policy changes, or with an adapter that  *)
(* retries, a call with two callers and a broker that times out by itself.  *)
(***************************************************************************)
EXTENDS SharedCapacity

CONSTANTS k1, k2, k3, narrow, wide

(* Call k2 reserves twice what the others do.                                *)
SomeReserve == [i \in Calls |-> IF i = k2 THEN 2 ELSE 1]

(* One policy is the narrow one in concurrency, the other in calls.  A day   *)
(* has room for k2 or for the two others.                                    *)
SomeCalls == [k \in Policies |-> IF k = narrow THEN 3 ELSE 1]
SomeCost == [k \in Policies |-> 2]
SomeConcurrency == [k \in Policies |-> IF k = narrow THEN 1 ELSE 2]

ThreeSettings ==
    {[calls |-> {k1, k2, k3}, policies |-> {narrow},
      retries |-> 0, overlap |-> {}, timed |-> FALSE],
     [calls |-> {k1, k2}, policies |-> {narrow, wide},
      retries |-> 0, overlap |-> {}, timed |-> FALSE],
     [calls |-> {k1, k2}, policies |-> {narrow},
      retries |-> 1, overlap |-> {k1}, timed |-> TRUE]}
=============================================================================
