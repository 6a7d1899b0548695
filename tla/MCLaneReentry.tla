--------------------------- MODULE MCLaneReentry ---------------------------
(***************************************************************************)
(* Controlled re-entry of one admission on small instances: without faults, *)
(* with killed children, and with both faults.                              *)
(***************************************************************************)
EXTENDS LaneReentry

ThreeSettings == {{}, {"killed"}, {"killed", "launch window"}}
=============================================================================
