--------------------------- MODULE MCModelBroker ---------------------------
(***************************************************************************)
(* The model broker on a small instance: two invocations, and two brokers   *)
(* that one process may have at work on one journal file.                   *)
(***************************************************************************)
EXTENDS ModelBroker

CONSTANTS a, b
=============================================================================
