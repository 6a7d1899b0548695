--------------------------- MODULE WorkLifecycle ---------------------------
(***************************************************************************)
(* What the Scheduler promises about one WorkOrder, without logs, leases,   *)
(* tokens or clocks.  A submitted order runs attempts 1, 2, ... one at a    *)
(* time up to the cap frozen at submission; it gets at most one result,     *)
(* after which nothing happens to it.  An attempt may be lost (its lease    *)
(* ran out or its holder died) and its result may still arrive, but only    *)
(* until the following attempt starts.                                      *)
(***************************************************************************)
EXTENDS Naturals

CONSTANTS Orders, MaxCap

VARIABLE order

Results == {"succeeded", "failed"}

Absent == [phase |-> "absent", attempt |-> 0, cap |-> 0, lost |-> FALSE,
           result |-> "none"]

Init == order = [w \in Orders |-> Absent]

Become(w, phase, attempt, lost, result) ==
    order'[w] = [phase |-> phase, attempt |-> attempt, cap |-> order[w].cap,
                 lost |-> lost, result |-> result]

Submit(w) ==
    /\ order[w] = Absent
    /\ \E cap \in 1 .. MaxCap :
          order'[w] = [phase |-> "queued", attempt |-> 1, cap |-> cap,
                       lost |-> FALSE, result |-> "none"]

Start(w) ==
    /\ order[w].phase = "queued"
    /\ Become(w, "running", order[w].attempt, FALSE, "none")

(* The running attempt ends without a result of the order: it was lost, or   *)
(* it reported that it should be tried again.                                *)
GiveUp(w, lost) ==
    /\ order[w].phase = "running"
    /\ IF order[w].attempt < order[w].cap
       THEN Become(w, "queued", order[w].attempt + 1, lost, "none")
       ELSE Become(w, "over", order[w].attempt, lost, "none")

(* A claim that meets an overdue lease ends that attempt and starts the next *)
(* one in the same transaction.                                              *)
Restart(w) ==
    /\ order[w].phase = "running"
    /\ order[w].attempt < order[w].cap
    /\ Become(w, "running", order[w].attempt + 1, FALSE, "none")

Finish(w, result) ==
    /\ order[w].phase = "running"
    /\ Become(w, "over", order[w].attempt, FALSE, result)

(* The result of a lost attempt arrives while nothing has started since.     *)
LateFinish(w, result) ==
    /\ order[w].lost
    /\ \/ /\ order[w].phase = "queued"
          /\ Become(w, "over", order[w].attempt - 1, FALSE, result)
       \/ /\ order[w].phase = "over"
          /\ order[w].result = "none"
          /\ Become(w, "over", order[w].attempt, FALSE, result)

(* The lost attempt turns out to have asked for a retry: it is accounted     *)
(* for, and the order stays where the loss had put it.                       *)
LateRetry(w) ==
    /\ order[w].lost
    /\ order'[w] = [order[w] EXCEPT !.lost = FALSE]

Step(w) ==
    \/ Submit(w)
    \/ Start(w)
    \/ \E lost \in BOOLEAN : GiveUp(w, lost)
    \/ Restart(w)
    \/ \E result \in Results : Finish(w, result) \/ LateFinish(w, result)
    \/ LateRetry(w)

(* One transaction may move several orders (a sweep expires every overdue    *)
(* lease), each by one of its own steps.                                     *)
Next ==
    /\ DOMAIN order' = Orders
    /\ \A w \in Orders : order'[w] = order[w] \/ Step(w)

Spec == Init /\ [][Next]_order
=============================================================================
