---------------------------- MODULE MCScheduler ----------------------------
(***************************************************************************)
(* The Scheduler on small instances: constants that a cfg cannot write, and *)
(* the symmetry of the callers.                                             *)
(***************************************************************************)
EXTENDS SchedulerInvariants, TLC

CONSTANTS a, b, k, m

NoStepCap == [w \in WorkOrders |-> 0]
CallerSymmetry == Permutations(Callers)
=============================================================================
