--------------------------- MODULE MCCockpitCall ---------------------------
(***************************************************************************)
(* A cockpit call on small instances, each with two callers: a chain of    *)
(* two links whose cost may pass the reservation, with every lock; a       *)
(* locked Scheduler and failing holder files; settlements lost to a locked *)
(* ledger; the operator's tools.  Callers are interchangeable.             *)
(***************************************************************************)
EXTENDS CockpitCall, TLC

CONSTANTS p1, p2, x1

FourSettings ==
    {[cap |-> 1, links |-> 2, costs |-> {1, 3}, others |-> {x1},
      locks |-> {"scheduler", "budget", "router", "capacity"}, disk |-> TRUE,
      operator |-> FALSE],
     [cap |-> 2, links |-> 1, costs |-> {0}, others |-> {},
      locks |-> {"scheduler"}, disk |-> TRUE, operator |-> FALSE],
     [cap |-> 2, links |-> 1, costs |-> {1}, others |-> {x1},
      locks |-> {"budget"}, disk |-> FALSE, operator |-> FALSE],
     [cap |-> 2, links |-> 1, costs |-> {1}, others |-> {},
      locks |-> {"capacity"}, disk |-> TRUE, operator |-> TRUE]}

CallerSymmetry == Permutations(Callers)
=============================================================================
