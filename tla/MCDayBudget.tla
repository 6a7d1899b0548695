---------------------------- MODULE MCDayBudget ----------------------------
(***************************************************************************)
(* The day ledgers on small instances: requests by name, the tables that    *)
(* describe them.                                                           *)
(***************************************************************************)
EXTENDS DayBudget, TLC

CONSTANTS x, y, m, n, none

(* The ledger of x, one mission: coverage calls c1 and c2, an event call v   *)
(* and a call u without any binding; d belongs to another mission.  b1 is a  *)
(* call of the other environment.                                            *)
LedgerHome == [r \in Requests |-> IF r = "b1" THEN y ELSE x]
LedgerMission == [r \in Requests |-> CASE r = "u" -> none [] r = "d" -> n [] OTHER -> m]
LedgerPool == [r \in Requests |-> CASE r = "u" -> none
                                    [] r = "v" -> "event_response"
                                    [] OTHER -> "coverage"]
LedgerReserve == [r \in Requests |-> IF r = "c2" THEN 1 ELSE 2]
LedgerPools == [p \in Pools |-> CASE p = "coverage" -> 1
                                  [] p = "event_response" -> 2
                                  [] p = "adhoc" -> 1
                                  [] OTHER -> 0]
NoPools == [r \in Requests |-> none]
OnePolicy == <<4>>
TwoPolicies == <<4, 2>>

(* Two environments, unpooled calls of two missions.                         *)
HostHome == [r \in Requests |-> IF r \in {"a1", "a2"} THEN x ELSE y]
HostMission == [r \in Requests |-> IF r \in {"a1", "b1"} THEN m ELSE n]
HostReserve == [r \in Requests |-> IF r = "a2" THEN 1 ELSE 2]

FourEach == [k \in {m, n} |-> 4]
ThreeEach == [k \in {m, n} |-> 3]
TwoEach == [k \in {m, n} |-> 2]
=============================================================================
