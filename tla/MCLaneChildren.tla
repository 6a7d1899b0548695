--------------------------- MODULE MCLaneChildren ---------------------------
(***************************************************************************)
(* The children of a lane on small instances: restarts under running        *)
(* children, drained stops, a reader beside a writer that lives on or ends, *)
(* and all of it on one ticket with a writer that may die in the launch     *)
(* window.                                                                  *)
(* Tickets are numbered in the order of their directories.                  *)
(***************************************************************************)
EXTENDS LaneChildren

FiveSettings ==
    {[tickets |-> {1, 2}, readers |-> {}, deaths |-> 2,
      faults |-> {"pid reuse", "disk"}],
     [tickets |-> {1, 2}, readers |-> {}, deaths |-> 1,
      faults |-> {}],
     [tickets |-> {1}, readers |-> {"reader"}, deaths |-> 0,
      faults |-> {"disk"}],
     [tickets |-> {1}, readers |-> {"reader"}, deaths |-> 1,
      faults |-> {"pid reuse", "launch window"}],
     [tickets |-> {1}, readers |-> {"reader"}, deaths |-> 1,
      faults |-> {}]}
=============================================================================
