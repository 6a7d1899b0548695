------------------------ MODULE SchedulerInvariants ------------------------
(***************************************************************************)
(* The inductive invariant behind the Scheduler's theorems: what links the  *)
(* attempt logs, the lease table and the current-lease index in every       *)
(* reachable state.                                                         *)
(***************************************************************************)
EXTENDS Scheduler

(* The log of one WorkOrder against a lease table: within the attempt cap,   *)
(* every leased event names its lease, every lease of the WorkOrder has its  *)
(* leased event, and a ready attempt is newer than every lease so far.       *)
LogOK(w, log, ls, cap) ==
    /\ log \in Seq(Event)
    /\ log = <<>> <=> cap = 0
    /\ \A i \in 1 .. Len(log) :
          /\ log[i].attempt <= cap
          /\ log[i].state = "leased" =>
                /\ log[i].lease \in 1 .. Len(ls)
                /\ ls[log[i].lease].work = w
                /\ ls[log[i].lease].attempt = log[i].attempt
    /\ \A l \in 1 .. Len(ls) : ls[l].work = w =>
          /\ \E i \in 1 .. Len(log) : log[i].state = "leased" /\ log[i].lease = l
          /\ ls[l].attempt <= LastOf(log).attempt
          /\ LastOf(log).state = "ready" => ls[l].attempt < LastOf(log).attempt

(* A lease has at least the revision it was claimed with, and no other lease *)
(* has its attempt.                                                          *)
LeasesOK(ls) ==
    /\ \A l \in 1 .. Len(ls) : ls[l].expires # <<>>
    /\ \A i, l \in 1 .. Len(ls) :
          ls[i].work = ls[l].work /\ ls[i].attempt = ls[l].attempt => i = l

(* A call was sent, and its answer journaled, under an existing revision.    *)
SentOK(ls) ==
    /\ \A r \in routed : /\ r.lease \in 1 .. Len(ls)
                         /\ r.version \in 1 .. Len(ls[r.lease].expires)
    /\ \A d \in durable : /\ d.lease \in 1 .. Len(ls)
                          /\ d.version \in 1 .. Len(ls[d.lease].expires)

(* The row the current-lease index should hold for a log.                    *)
RowOf(log, ls) ==
    IF log # <<>> /\ LastOf(log).state = "leased"
    THEN IndexRow(LastOf(log), LastOf(ls[LastOf(log).lease].expires))
    ELSE NoRow

(* Logs, index, leases and caps that fit together.                           *)
Tables(log, index, ls, caps) ==
    /\ log \in [WorkOrders -> Seq(Event)]
    /\ index \in [WorkOrders -> [lease : Nat, expires : Nat, reserved : BOOLEAN]]
    /\ ls \in Seq(Lease)
    /\ caps \in [WorkOrders -> Nat]
    /\ LeasesOK(ls)
    /\ \A w \in WorkOrders : /\ LogOK(w, log[w], ls, caps[w])
                             /\ index[w] = RowOf(log[w], ls)

(* The inductive invariant: typing, tables that fit together, and every sent *)
(* call bound to an existing lease revision.                                 *)
IndInv ==
    /\ TypeOK
    /\ Tables(events, current, leases, max_attempts)
    /\ SentOK(leases)

-----------------------------------------------------------------------------
(* What the history of a WorkOrder adds to it: the invariant behind the      *)
(* theorems on outcomes, expiries and the abstract life cycle.               *)

(* An attempt of which this event is in the log is over.                     *)
Ended(e) == IsOutcome(e) \/ e.state = "expired"

(* A journal reconciliation of attempt n of w was committed.                 *)
JournalUsed(rows, w, n) ==
    \E r \in rows : r.op = "journal" /\ r.work = w /\ r.attempt = n

(* An attempt that is waiting or running is newer than every one that is     *)
(* over; the exhausted attempt was leased; an attempt has one outcome, after *)
(* its expiry only through the journal; and the formal result is the last    *)
(* event and the only final outcome.                                         *)
HistoryOK(w, log, result, rows) ==
    /\ log # <<>> /\ LastOf(log).state \in {"leased", "ready"} =>
          \A i \in 1 .. Len(log) : Ended(log[i]) => log[i].attempt < LastOf(log).attempt
    /\ log # <<>> /\ LastOf(log).state = "failed" /\ LastOf(log).lease = 0 =>
          \E i \in 1 .. Len(log) : /\ log[i].state = "leased"
                                   /\ log[i].attempt = LastOf(log).attempt
    /\ \A i, j \in 1 .. Len(log) :
          IsOutcome(log[i]) /\ IsOutcome(log[j]) /\ log[i].attempt = log[j].attempt => i = j
    /\ \A i, j \in 1 .. Len(log) :
          log[i].state = "expired" /\ IsOutcome(log[j]) /\ log[i].attempt = log[j].attempt
             => JournalUsed(rows, w, log[j].attempt)
    /\ result # NoResult =>
          /\ log # <<>> /\ IsOutcome(LastOf(log))
          /\ result = [attempt |-> LastOf(log).attempt, state |-> LastOf(log).state]
    /\ \A i \in 1 .. Len(log) :
          IsOutcome(log[i]) /\ log[i].state # "retryable" => result # NoResult

(* A lease is reserved for operator recovery only over a sent model call.    *)
HeldOK(w) ==
    Leased(w) /\ Latest(w).reserved # 0 =>
        w \in ModelWork /\ \E r \in routed : leases[r.lease].work = w

(* The leases of a WorkOrder are granted in the order of its attempts.       *)
LeaseOrder ==
    \A k, l \in LeaseIds :
        k < l /\ leases[k].work = leases[l].work => leases[k].attempt < leases[l].attempt

(* An answer is durable only for a sent call, and the broker's is final.     *)
AnswersOK ==
    \A d \in durable :
        /\ \E r \in routed : r.lease = d.lease
        /\ leases[d.lease].work \in ModelWork => d.outcome # "retryable"

(* The second inductive invariant.  A reading is never ahead of the clock.   *)
HistInv ==
    /\ IndInv
    /\ \A w \in WorkOrders : /\ HistoryOK(w, events[w], formal[w], receipts)
                             /\ HeldOK(w)
    /\ \A c \in Callers : call[c].now <= clock
    /\ LeaseOrder
    /\ AnswersOK
=============================================================================
