----------------------------- MODULE Scheduler -----------------------------
(***************************************************************************)
(* The Scheduler authority of dalton_core/scheduler.py: one SQLite file     *)
(* shared by the controller, the writer and the child workers.  Every       *)
(* table is append-only; the state of a WorkOrder is the last row of its    *)
(* event log.  A write method is one BEGIN IMMEDIATE transaction, so one    *)
(* action here, but each of them reads the clock (and claim and sweep the   *)
(* overdue leases) BEFORE it waits for the write lock: Begin takes that     *)
(* reading, the method's own action commits later with a reading that may   *)
(* be stale by then.                                                        *)
(*                                                                          *)
(* NULL columns are 0: a lease id, a revision, a reservation and a          *)
(* not_before are positive.                                                 *)
(***************************************************************************)
EXTENDS Naturals, Sequences, FiniteSets

CONSTANTS
    ConnectorWork,    \* WorkOrders of the connector runner (runner journal)
    ModelWork,        \* WorkOrders of model calls (model broker journal)
    Callers,          \* processes that open the scheduler file
    Reservations,     \* reservation hashes of operator recovery plans
    PolicyMaxAttempts,      \* Scheduler(max_attempts)
    StepMaxAttempts,        \* budget.step_max_attempts, 0 when out of scope
    LeaseRequests,          \* lease_seconds a claim may ask for
    MaxLeaseSeconds,        \* frozen policy max_lease_seconds
    RenewRequests,          \* extend_seconds a renewal may ask for
    MaxRenewSeconds,        \* frozen policy max_renew_seconds
    MaxTotalLeaseSeconds,   \* frozen policy max_total_lease_seconds
    RetryDelays,            \* retry_at - now of a retryable result
    Outcomes,               \* bound: the result states callers report
    MaxTime,                \* bound: last instant of the clock
    KeptAlive,              \* callers that launchd keeps running
    LastClaim,              \* bound: no lease is asked for after this instant
    MaxLog                  \* bound: reservations stop at this log length

WorkOrders == ConnectorWork \cup ModelWork

ASSUME PolicyAssumption ==
    /\ PolicyMaxAttempts \in Nat \ {0}
    /\ StepMaxAttempts \in [WorkOrders -> Nat]
    /\ LeaseRequests \subseteq Nat \ {0}
    /\ RenewRequests \subseteq Nat \ {0}
    /\ RetryDelays \subseteq Nat \ {0}
    /\ Outcomes \subseteq {"succeeded", "retryable", "failed"}
    /\ Reservations \subseteq Nat \ {0}
    /\ MaxLeaseSeconds \in Nat \ {0}
    /\ MaxRenewSeconds \in Nat \ {0}
    /\ MaxTotalLeaseSeconds \in Nat
    /\ MaxLeaseSeconds <= MaxTotalLeaseSeconds

ASSUME WorkKindsAssumption == ConnectorWork \cap ModelWork = {}

ASSUME KeptAliveAssumption == KeptAlive \subseteq Callers

ASSUME BoundsAssumption == MaxTime \in Nat /\ LastClaim \in Nat /\ MaxLog \in Nat

VARIABLES
    clock,         \* wall-clock time, in the unit of the lease policy
    alive,         \* the callers whose process exists
    call,          \* what a caller read before waiting for the write lock
    max_attempts,  \* scheduler_work_orders.max_attempts, 0 before enqueue
    events,        \* scheduler_attempt_events, one log per WorkOrder
    leases,        \* scheduler_leases: lease_id -> its revisions
    current,       \* scheduler_current_leases, the trigger-maintained index
    formal,        \* scheduler_formal_results
    receipts,      \* scheduler_completion_idempotency + _result_envelopes
    routed,        \* lease revisions under which a call was sent out
    durable        \* completions journaled by the runner or the broker

vars == <<clock, alive, call, max_attempts, events, leases, current, formal,
          receipts, routed, durable>>

AttemptStates == {"ready", "leased", "succeeded", "retryable", "failed", "expired"}
ResultStates == {"succeeded", "retryable", "failed"}

Event == [attempt : Nat \ {0}, state : AttemptStates, lease : Nat,
          version : Nat, reserved : Nat, not_before : Nat]
Lease == [work : WorkOrders, attempt : Nat \ {0}, owner : Callers,
          issued_at : Nat, expires : Seq(Nat)]

NoCall == [open |-> FALSE, now |-> 0, due |-> {}]
NoRow == [lease |-> 0, expires |-> 0, reserved |-> FALSE]
NoResult == [attempt |-> 0, state |-> "none"]

-----------------------------------------------------------------------------
(* Queries *)

Enqueued(w) == max_attempts[w] # 0
LastOf(log) == log[Len(log)]
Latest(w) == LastOf(events[w])
Leased(w) == Enqueued(w) /\ Latest(w).state = "leased"
ExpiresAt(l) == LastOf(leases[l].expires)
LeaseIds == 1 .. Len(leases)

(* The row of an attempt event; reserved is the hash inside the reason      *)
(* operator_model_recovery_reserved:<hash>.                                 *)
EventRow(n, s, l, v, res, at) ==
    [attempt |-> n, state |-> s, lease |-> l, version |-> v,
     reserved |-> res, not_before |-> at]

(* Mutants of NextEvent: the cap compared with > instead of >=, and a retry  *)
(* that reopens the same attempt.                                            *)
NextEventPastCap(w, n, retryAt) ==
    IF n > max_attempts[w]
    THEN EventRow(n, "failed", 0, 0, 0, 0)
    ELSE EventRow(n + 1, "ready", 0, 0, 0, retryAt)
NextEventSameAttempt(w, n, retryAt) ==
    IF n >= max_attempts[w]
    THEN EventRow(n, "failed", 0, 0, 0, 0)
    ELSE EventRow(n, "ready", 0, 0, 0, retryAt)

(* _new_ready_or_exhausted: what follows attempt n of w once it is over.     *)
NextEvent(w, n, retryAt) ==
    IF n >= max_attempts[w]
    THEN EventRow(n, "failed", 0, 0, 0, 0)
    ELSE EventRow(n + 1, "ready", 0, 0, 0, retryAt)

(* Mutant of ExpireOne: the expired event without what follows it.           *)
ExpireOneOnly(log, w) ==
    LET e == LastOf(log)
    IN  Append(log, EventRow(e.attempt, "expired", e.lease,
                             Len(leases[e.lease].expires), 0, 0))

(* _expire_one: the expired event and the event that follows it.             *)
ExpireOne(log, w) ==
    LET e == LastOf(log)
    IN  Append(Append(log, EventRow(e.attempt, "expired", e.lease,
                                    Len(leases[e.lease].expires), 0, 0)),
               NextEvent(w, e.attempt, 0))

(* Mutants of Overdue: the expiry of the claim instead of the newest         *)
(* revision, and reserved leases not spared.                                 *)
OverdueFirstRevision(w, now) ==
    Leased(w) /\ Latest(w).reserved = 0 /\ leases[Latest(w).lease].expires[1] <= now
OverdueReserved(w, now) ==
    Leased(w) /\ ExpiresAt(Latest(w).lease) <= now

(* The test _expire_due and _expire_due_among apply to one current lease.    *)
Overdue(w, now) ==
    Leased(w) /\ Latest(w).reserved = 0 /\ ExpiresAt(Latest(w).lease) <= now

(* The logs after every overdue lease among the WorkOrders `among` expired.  *)
ExpireDueAmong(among, now) ==
    [w \in WorkOrders |-> IF w \in among /\ Overdue(w, now)
                          THEN ExpireOne(events[w], w) ELSE events[w]]

(* Mutant of IndexRow: the trigger forgets the reservation.                  *)
IndexRowUnreserved(e, expiry) ==
    IF e.state = "leased"
    THEN [lease |-> e.lease, expires |-> expiry, reserved |-> FALSE]
    ELSE NoRow

(* The scheduler_current_leases_on_event trigger: any event replaces the     *)
(* WorkOrder's row, a leased one with its lease's newest expiry.             *)
IndexRow(e, expiry) ==
    IF e.state = "leased"
    THEN [lease |-> e.lease, expires |-> expiry, reserved |-> e.reserved # 0]
    ELSE NoRow

(* The index after the expiry.                                               *)
IndexAfterExpiry(among, now) ==
    [w \in WorkOrders |-> IF w \in among /\ Overdue(w, now)
                          THEN NoRow ELSE current[w]]

(* Mutant of DueCandidates: the comparison the wrong way round.              *)
DueCandidatesSwapped(now) ==
    {w \in WorkOrders : /\ current[w].lease # 0
                        /\ ~current[w].reserved
                        /\ current[w].expires > now}

(* _due_lease_candidates: the probe of the index, outside any transaction.   *)
DueCandidates(now) ==
    {w \in WorkOrders : /\ current[w].lease # 0
                        /\ ~current[w].reserved
                        /\ current[w].expires <= now}

(* _claimable_event on a log: ready, not_before passed, no formal result.    *)
Claimable(log, w, now) ==
    /\ log # <<>>
    /\ LastOf(log).state = "ready"
    /\ LastOf(log).not_before <= now
    /\ formal[w] = NoResult

(* Mutant of ActiveLease: the WorkOrder is leased, no matter by which lease.  *)
ActiveLeaseAny(c, l) ==
    LET w == leases[l].work
    IN  /\ leases[l].owner = c
        /\ Leased(w)
        /\ Latest(w).reserved = 0

(* _active_lease: the caller's token names the current, unreserved lease.    *)
ActiveLease(c, l) ==
    LET w == leases[l].work
    IN  /\ leases[l].owner = c
        /\ Leased(w)
        /\ Latest(w).attempt = leases[l].attempt
        /\ Latest(w).reserved = 0
        /\ Latest(w).lease = l

(* Mutant of Receipt: filed under the attempt that is current at commit time. *)
ReceiptOfLatest(op, l, outcome) ==
    [op |-> op, work |-> leases[l].work, attempt |-> Latest(leases[l].work).attempt,
     lease |-> l, outcome |-> outcome]
(* The completion_idempotency row and the ResultEnvelope row of a commit.    *)
Receipt(op, l, outcome) ==
    [op |-> op, work |-> leases[l].work, attempt |-> leases[l].attempt,
     lease |-> l, outcome |-> outcome]
KeyUsed(op, l) ==
    \E r \in receipts : /\ r.op = op
                        /\ r.work = leases[l].work
                        /\ r.attempt = leases[l].attempt
EnvelopeExists(l, outcome) ==
    \E r \in receipts : r.lease = l /\ r.outcome = outcome

-----------------------------------------------------------------------------
Init ==
    /\ clock = 0
    /\ alive = Callers
    /\ call = [c \in Callers |-> NoCall]
    /\ max_attempts = [w \in WorkOrders |-> 0]
    /\ events = [w \in WorkOrders |-> <<>>]
    /\ leases = <<>>
    /\ current = [w \in WorkOrders |-> NoRow]
    /\ formal = [w \in WorkOrders |-> NoResult]
    /\ receipts = {}
    /\ routed = {}
    /\ durable = {}

(* Time passes. *)
Tick ==
    /\ clock < MaxTime
    /\ clock' = clock + 1
    /\ UNCHANGED <<alive, call, max_attempts, events, leases, current, formal,
                   receipts, routed, durable>>

(* The process of a caller dies: the lease tokens it held are gone with it.  *)
Crash(c) ==
    /\ c \in alive \ KeptAlive
    /\ alive' = alive \ {c}
    /\ call' = [call EXCEPT ![c] = NoCall]
    /\ UNCHANGED <<clock, max_attempts, events, leases, current, formal,
                   receipts, routed, durable>>

(* A write method starts: it reads the clock, and a targeted claim or a      *)
(* sweep probes the current-lease index, before BEGIN IMMEDIATE.             *)
Begin(c) ==
    /\ c \in alive
    /\ ~call[c].open
    /\ call' = [call EXCEPT ![c] = [open |-> TRUE, now |-> clock,
                                    due |-> DueCandidates(clock)]]
    /\ UNCHANGED <<clock, alive, max_attempts, events, leases, current, formal,
                   receipts, routed, durable>>

(* The method ends without a commit: it was refused, its replay found the    *)
(* stored answer, or the busy timeout ran out on the write lock.             *)
Return(c) ==
    /\ call[c].open
    /\ call' = [call EXCEPT ![c] = NoCall]
    /\ UNCHANGED <<clock, alive, max_attempts, events, leases, current, formal,
                   receipts, routed, durable>>

(* What every committing method shares: the caller's reading is spent.       *)
Commit(c) ==
    /\ call[c].open
    /\ call' = [call EXCEPT ![c] = NoCall]
    /\ UNCHANGED <<clock, alive>>

(* enqueue: the WorkOrder is frozen with its attempt cap, attempt 1 ready.   *)
(* A replay of the same or of another body under the id writes nothing.      *)
Enqueue(w) ==
    /\ ~Enqueued(w)
    /\ max_attempts' = [max_attempts EXCEPT ![w] =
            IF StepMaxAttempts[w] # 0 /\ StepMaxAttempts[w] < PolicyMaxAttempts
            THEN StepMaxAttempts[w] ELSE PolicyMaxAttempts]
    /\ events' = [events EXCEPT ![w] = <<EventRow(1, "ready", 0, 0, 0, 0)>>]
    /\ UNCHANGED <<clock, alive, call, leases, current, formal, receipts,
                   routed, durable>>

(* The claim of w on the logs `log`: a new lease, then the leased event.     *)
GrantLease(c, w, seconds, log, index) ==
    LET n == LastOf(log[w]).attempt
        l == Len(leases) + 1
        e == EventRow(n, "leased", l, 1, 0, 0)
        expiry == call[c].now + seconds
    IN  /\ leases' = Append(leases, [work |-> w, attempt |-> n, owner |-> c,
                                     issued_at |-> call[c].now,
                                     expires |-> <<expiry>>])
        /\ events' = [log EXCEPT ![w] = Append(@, e)]
        /\ current' = [index EXCEPT ![w] = IndexRow(e, expiry)]

(* claim(owner, work_order_id=w): expire what the probe named and w itself,  *)
(* then lease w if it is claimable on the resulting log.                     *)
Claim(c, w, seconds) ==
    LET now == call[c].now
        among == call[c].due \cup {w}
        log == ExpireDueAmong(among, now)
        index == IndexAfterExpiry(among, now)
    IN  /\ Commit(c)
        /\ now <= LastClaim
        /\ \/ /\ Claimable(log[w], w, now)
              /\ seconds <= MaxLeaseSeconds
              /\ GrantLease(c, w, seconds, log, index)
           \/ /\ ~Claimable(log[w], w, now)
              /\ events' = log
              /\ current' = index
              /\ UNCHANGED leases
        /\ UNCHANGED <<max_attempts, formal, receipts, routed, durable>>

(* claim(owner): expire every overdue lease under the lock, then lease some  *)
(* claimable WorkOrder (the code takes the oldest ready event).              *)
ClaimAny(c, seconds) ==
    LET now == call[c].now
        log == ExpireDueAmong(WorkOrders, now)
        index == IndexAfterExpiry(WorkOrders, now)
    IN  /\ Commit(c)
        /\ now <= LastClaim
        /\ \/ \E w \in WorkOrders : /\ Claimable(log[w], w, now)
                                    /\ seconds <= MaxLeaseSeconds
                                    /\ GrantLease(c, w, seconds, log, index)
           \/ /\ \A w \in WorkOrders : ~Claimable(log[w], w, now)
              /\ events' = log
              /\ current' = index
              /\ UNCHANGED leases
        /\ UNCHANGED <<max_attempts, formal, receipts, routed, durable>>

(* sweep_expired: re-check under the lock what the probe named, expire it.   *)
Sweep(c) ==
    /\ Commit(c)
    /\ call[c].due # {}
    /\ events' = ExpireDueAmong(call[c].due, call[c].now)
    /\ current' = IndexAfterExpiry(call[c].due, call[c].now)
    /\ UNCHANGED <<max_attempts, leases, formal, receipts, routed, durable>>

(* The late branch of validate_lease_for_use, renew and complete.            *)
ExpireOnUse(c, l) ==
    LET w == leases[l].work
    IN  /\ ExpiresAt(l) <= call[c].now
        /\ events' = [events EXCEPT ![w] = ExpireOne(@, w)]
        /\ current' = [current EXCEPT ![w] = NoRow]
        /\ UNCHANGED <<leases, formal, receipts, routed>>

(* validate_lease_for_use, the connector runner's last gate before it sends  *)
(* the call out: usable only under the newest lease revision.                *)
ValidateLease(c, l, v) ==
    /\ Commit(c)
    /\ leases[l].work \in ConnectorWork
    /\ ActiveLease(c, l)
    /\ \/ ExpireOnUse(c, l)
       \/ /\ ExpiresAt(l) > call[c].now
          /\ v = Len(leases[l].expires)
          /\ \A r \in routed : r.lease # l
          /\ routed' = routed \cup {[lease |-> l, version |-> v]}
          /\ UNCHANGED <<events, leases, current, formal, receipts>>
    /\ UNCHANGED <<max_attempts, durable>>

(* renew: append a lease revision, capped by the total lifetime; the         *)
(* scheduler_current_leases_on_lease trigger moves the index row.            *)
Renew(c, l, seconds) ==
    LET lease == leases[l]
        deadline == lease.issued_at + MaxTotalLeaseSeconds
        wanted == ExpiresAt(l) + seconds
        expiry == IF wanted < deadline THEN wanted ELSE deadline
    IN  /\ Commit(c)
        /\ ActiveLease(c, l)
        /\ seconds <= MaxRenewSeconds
        /\ \/ ExpireOnUse(c, l)
           \/ /\ ExpiresAt(l) > call[c].now
              /\ expiry > ExpiresAt(l)
              /\ leases' = [leases EXCEPT ![l].expires = Append(@, expiry)]
              /\ current' = [w \in WorkOrders |->
                                IF current[w].lease = l
                                THEN [current[w] EXCEPT !.expires = expiry]
                                ELSE current[w]]
              /\ UNCHANGED <<events, formal, receipts, routed>>
        /\ UNCHANGED <<max_attempts, durable>>

(* The outcome of attempt n under lease revision l/v, and for a retryable    *)
(* one the event that follows it.                                            *)
OutcomeLog(log, w, n, l, v, outcome, next) ==
    LET done == Append(log, EventRow(n, outcome, l, v, 0, 0))
    IN  IF outcome = "retryable" THEN Append(done, next) ELSE done

(* Mutant of FormalAfter: a success does not become the formal result.       *)
FormalOnFailureOnly(w, n, outcome) ==
    IF outcome # "failed" THEN formal
    ELSE [formal EXCEPT ![w] = [attempt |-> n, state |-> outcome]]

(* The formal result a final outcome leaves.                                 *)
FormalAfter(w, n, outcome) ==
    IF outcome = "retryable" THEN formal
    ELSE [formal EXCEPT ![w] = [attempt |-> n, state |-> outcome]]

(* complete: idempotency key, live lease, then envelope, outcome event, next *)
(* attempt or formal result, and the idempotency row, all in one commit.     *)
Complete(c, l, outcome, retryAt) ==
    LET w == leases[l].work
        n == leases[l].attempt
    IN  /\ Commit(c)
        /\ ~KeyUsed("complete", l)
        /\ ActiveLease(c, l)
        /\ retryAt # 0 => outcome = "retryable"
        /\ \/ ExpireOnUse(c, l)
           \/ /\ ExpiresAt(l) > call[c].now
              /\ ~EnvelopeExists(l, outcome)
              /\ outcome # "retryable" => formal[w] = NoResult
              /\ events' = [events EXCEPT ![w] =
                    OutcomeLog(@, w, n, l, Len(leases[l].expires), outcome,
                               NextEvent(w, n, retryAt))]
              /\ formal' = FormalAfter(w, n, outcome)
              /\ current' = [current EXCEPT ![w] = NoRow]
              /\ receipts' = receipts \cup {Receipt("complete", l, outcome)}
              /\ UNCHANGED <<leases, routed>>
        /\ UNCHANGED <<max_attempts, durable>>

-----------------------------------------------------------------------------
(* Recovery.  The recovering processes are not lease holders: they need no   *)
(* clock reading of their own, only evidence kept by another authority.      *)

(* A model call is routed and admitted under the claimed lease revision; the *)
(* cockpit does not validate its lease again before it sends.                *)
Dispatch(c, l) ==
    /\ c \in alive
    /\ leases[l].owner = c
    /\ leases[l].work \in ModelWork
    /\ \A r \in routed : r.lease # l
    /\ \A r \in receipts : r.lease # l
    /\ routed' = routed \cup {[lease |-> l, version |-> 1]}
    /\ UNCHANGED <<clock, alive, call, max_attempts, events, leases, current,
                   formal, receipts, durable>>

(* The answer of a sent call becomes durable: the runner process journals    *)
(* `responded` itself, the model broker records it whether or not the caller *)
(* is still there.  Only a runner result may be retryable with a retry_at.   *)
Respond(r, outcome, delay) ==
    LET connector == leases[r.lease].work \in ConnectorWork
    IN  /\ r \in routed
        /\ \A d \in durable : d.lease # r.lease
        /\ connector => /\ leases[r.lease].owner \in alive
                        /\ \A x \in receipts : x.lease # r.lease
        /\ outcome = "retryable" => connector
        /\ durable' = durable \cup
              {[lease |-> r.lease, version |-> r.version, outcome |-> outcome,
                recorded_at |-> clock,
                retry_at |-> IF outcome = "retryable" THEN clock + delay ELSE 0]}
        /\ UNCHANGED <<clock, alive, call, max_attempts, events, leases, current,
                       formal, receipts, routed>>

(* reconcile_journaled_completion: accept a journaled result of the attempt  *)
(* that is still leased, or that expired with no later attempt claimed.      *)
SameLiveAttempt(d) ==
    LET w == leases[d.lease].work
    IN  /\ Latest(w).attempt = leases[d.lease].attempt
        /\ Latest(w).state = "leased"
        /\ Latest(w).lease = d.lease
        /\ Latest(w).version = d.version

(* Mutant of ExpiredUnclaimed: the attempt need not have expired.            *)
RequeuedUnclaimed(d) ==
    LET w == leases[d.lease].work
        n == leases[d.lease].attempt
    IN  /\ Latest(w).attempt \in {n, n + 1}
        /\ Latest(w).state \in {"ready", "failed"}

ExpiredUnclaimed(d) ==
    LET w == leases[d.lease].work
        n == leases[d.lease].attempt
    IN  /\ Latest(w).attempt \in {n, n + 1}
        /\ Latest(w).state \in {"ready", "failed"}
        /\ \E i \in 1 .. Len(events[w]) : /\ events[w][i].attempt = n
                                          /\ events[w][i].state = "expired"

(* A later attempt was claimed; the mutant does not look.                    *)
ReclaimedIgnored(d) == FALSE

Reclaimed(d) ==
    LET w == leases[d.lease].work
    IN  \E i \in 1 .. Len(events[w]) :
            /\ events[w][i].attempt > leases[d.lease].attempt
            /\ events[w][i].state = "leased"

ReconcileJournaled(d) ==
    LET l == d.lease
        w == leases[l].work
        n == leases[l].attempt
        (* a retry state the expiry already opened is appended once more *)
        restored == EventRow(Latest(w).attempt, Latest(w).state, 0, 0, 0,
                             Latest(w).not_before)
        next == IF SameLiveAttempt(d) THEN NextEvent(w, n, d.retry_at)
                                      ELSE restored
    IN  /\ d \in durable
        /\ w \in ConnectorWork
        /\ ~KeyUsed("journal", l)
        /\ leases[l].issued_at <= d.recorded_at
        /\ d.recorded_at < leases[l].expires[d.version]
        /\ ~Reclaimed(d)
        /\ SameLiveAttempt(d) \/ ExpiredUnclaimed(d)
        /\ formal[w] = NoResult
        /\ ~EnvelopeExists(l, d.outcome)
        /\ events' = [events EXCEPT ![w] =
              OutcomeLog(@, w, n, l, d.version, d.outcome, next)]
        /\ formal' = FormalAfter(w, n, d.outcome)
        /\ current' = [current EXCEPT ![w] = NoRow]
        /\ receipts' = receipts \cup {Receipt("journal", l, d.outcome)}
        /\ UNCHANGED <<clock, alive, call, max_attempts, leases, routed, durable>>

(* The lease a recovery names is still the current attempt, under the        *)
(* revision it was claimed with.                                             *)
CurrentClaim(l) ==
    LET w == leases[l].work
    IN  /\ w \in ModelWork
        /\ Leased(w)
        /\ Latest(w).attempt = leases[l].attempt
        /\ Latest(w).lease = l
        /\ Latest(w).version = 1

(* The exact lease an operator plan names, its holder's process proved dead. *)
Interrupted(l) == CurrentClaim(l) /\ leases[l].owner \notin alive

(* The broker journal's completion of the WorkOrder's only routed call lies  *)
(* within the claimed lease revision.                                        *)
BrokerCompleted(d, l) ==
    /\ d \in durable
    /\ d.lease = l
    /\ \A r \in routed : leases[r.lease].work = leases[l].work => r.lease = l
    /\ leases[l].issued_at <= d.recorded_at
    /\ d.recorded_at < leases[l].expires[1]

(* reserve_interrupted_model_recovery: re-append the leased event with the   *)
(* reservation, before the budget ledger is settled.                         *)
ReserveRecovery(d, h) ==
    LET l == d.lease
        w == leases[l].work
        e == EventRow(leases[l].attempt, "leased", l, 1, h, 0)
    IN  /\ Interrupted(l)
        /\ BrokerCompleted(d, l)
        /\ Latest(w).reserved # h
        /\ Len(events[w]) < MaxLog
        /\ events' = [events EXCEPT ![w] = Append(@, e)]
        /\ current' = [current EXCEPT ![w] = IndexRow(e, ExpiresAt(l))]
        /\ UNCHANGED <<clock, alive, call, max_attempts, leases, formal,
                       receipts, routed, durable>>

(* reconcile_interrupted_model_attempt(durable_completion): the reserved     *)
(* attempt gets the broker's result as its formal result.                    *)
ReconcileDurable(d, h) ==
    LET l == d.lease
        w == leases[l].work
        n == leases[l].attempt
    IN  /\ Interrupted(l)
        /\ BrokerCompleted(d, l)
        /\ ~KeyUsed("recover", l)
        /\ Latest(w).reserved = h
        /\ ~EnvelopeExists(l, d.outcome)
        /\ formal[w] = NoResult
        /\ events' = [events EXCEPT ![w] =
              Append(@, EventRow(n, d.outcome, l, 1, 0, 0))]
        /\ formal' = FormalAfter(w, n, d.outcome)
        /\ current' = [current EXCEPT ![w] = NoRow]
        /\ receipts' = receipts \cup {Receipt("recover", l, d.outcome)}
        /\ UNCHANGED <<clock, alive, call, max_attempts, leases, routed, durable>>

(* reconcile_interrupted_model_attempt(undispatched): no call was ever routed *)
(* for the WorkOrder, so the attempt is expired and the next one opened.     *)
ReconcileUndispatched(l) ==
    LET w == leases[l].work
        n == leases[l].attempt
    IN  /\ Interrupted(l)
        /\ \A r \in routed : leases[r.lease].work # w
        /\ ~KeyUsed("recover", l)
        /\ events' = [events EXCEPT ![w] =
              Append(Append(@, EventRow(n, "expired", l, 1, 0, 0)),
                     NextEvent(w, n, 0))]
        /\ current' = [current EXCEPT ![w] = NoRow]
        /\ receipts' = receipts \cup {Receipt("recover", l, "expired")}
        /\ UNCHANGED <<clock, alive, call, max_attempts, leases, formal, routed,
                       durable>>

(* expire_orphaned_lease: a compare-and-set on the claimed revision.  The    *)
(* method has no liveness test of its own: it takes the word of a caller     *)
(* that holds the lease dead, and that caller may be wrong about a process   *)
(* still at work, so a living holder is not spared here.                     *)
ExpireOrphaned(l) ==
    LET w == leases[l].work
    IN  /\ CurrentClaim(l)
        /\ Latest(w).reserved = 0
        /\ events' = [events EXCEPT ![w] = ExpireOne(@, w)]
        /\ current' = [current EXCEPT ![w] = NoRow]
        /\ UNCHANGED <<clock, alive, call, max_attempts, leases, formal,
                       receipts, routed, durable>>

-----------------------------------------------------------------------------
RetryTimes(c) == {0} \cup {call[c].now + d : d \in RetryDelays}

HolderStep(c) ==
    \E l \in LeaseIds :
        \/ \E v \in 1 .. Len(leases[l].expires) : ValidateLease(c, l, v)
        \/ \E seconds \in RenewRequests : Renew(c, l, seconds)
        \/ \E outcome \in Outcomes, at \in RetryTimes(c) :
                Complete(c, l, outcome, at)
        \/ Dispatch(c, l)

ClaimStep(c) ==
    \E seconds \in LeaseRequests :
        \/ \E w \in WorkOrders : Claim(c, w, seconds)
        \/ ClaimAny(c, seconds)

CallerStep(c) ==
    \/ Begin(c)
    \/ Return(c)
    \/ ClaimStep(c)
    \/ Sweep(c)
    \/ HolderStep(c)

RecoveryStep ==
    \/ \E r \in routed, outcome \in Outcomes, delay \in RetryDelays :
            Respond(r, outcome, delay)
    \/ \E d \in durable : \/ ReconcileJournaled(d)
                          \/ \E h \in Reservations : \/ ReserveRecovery(d, h)
                                                     \/ ReconcileDurable(d, h)
    \/ \E l \in LeaseIds : ReconcileUndispatched(l) \/ ExpireOrphaned(l)

Next ==
    \/ Tick
    \/ \E w \in WorkOrders : Enqueue(w)
    \/ \E c \in Callers : Crash(c) \/ CallerStep(c)
    \/ RecoveryStep

Spec == Init /\ [][Next]_vars

(* The controller ticks for ever: time passes, no method waits for ever (the *)
(* busy timeout), each tick starts a sweep, and a sweep that keeps finding   *)
(* overdue leases eventually gets the write lock.                            *)
FairSpec ==
    /\ Spec
    /\ WF_vars(Tick)
    /\ \A c \in KeptAlive :
          WF_vars(Begin(c)) /\ WF_vars(Return(c)) /\ SF_vars(Sweep(c))

-----------------------------------------------------------------------------
(* Properties *)

(* Every table holds rows of its own shape. *)
TypeOK ==
    /\ clock \in Nat
    /\ alive \subseteq Callers
    /\ call \in [Callers -> [open : BOOLEAN, now : Nat, due : SUBSET WorkOrders]]
    /\ max_attempts \in [WorkOrders -> Nat]
    /\ events \in [WorkOrders -> Seq(Event)]
    /\ leases \in Seq(Lease)
    /\ current \in [WorkOrders -> [lease : Nat, expires : Nat, reserved : BOOLEAN]]
    /\ formal \in [WorkOrders -> [attempt : Nat, state : {"none", "succeeded", "failed"}]]
    /\ receipts \subseteq [op : {"complete", "journal", "recover"}, work : WorkOrders,
                           attempt : Nat, lease : Nat,
                           outcome : ResultStates \cup {"expired"}]
    /\ routed \subseteq [lease : Nat, version : Nat]
    /\ durable \subseteq [lease : Nat, version : Nat, outcome : ResultStates,
                          recorded_at : Nat, retry_at : Nat]

(* The trigger-maintained index scheduler_current_leases always equals the   *)
(* projection it stands for: one row per WorkOrder whose latest event is     *)
(* leased, with the newest expiry of that lease and its reservation flag.    *)
(* Claim and sweep trust it to name every overdue lease.                     *)
CurrentLeaseIndexExact ==
    \A w \in WorkOrders :
        current[w] = IF Leased(w)
                     THEN [lease |-> Latest(w).lease,
                           expires |-> ExpiresAt(Latest(w).lease),
                           reserved |-> Latest(w).reserved # 0]
                     ELSE NoRow

(* An attempt is leased to one owner only, ever, and no WorkOrder is leased  *)
(* for more attempts than the cap frozen when it was enqueued, whichever of  *)
(* claim, lazy expiry, orphan expiry, retryable completion and the two       *)
(* reconciliations opened the attempt.                                       *)
AttemptClaimedOnce ==
    /\ \A l \in LeaseIds : leases[l].attempt <= max_attempts[leases[l].work]
    /\ \A k, l \in LeaseIds :
            /\ leases[k].work = leases[l].work
            /\ leases[k].attempt = leases[l].attempt
            => k = l

(* A leaseless failed event is retry exhaustion, not a result.               *)
IsOutcome(e) == e.state \in ResultStates /\ e.lease # 0

(* At most one result is ever accepted for an attempt, although a worker     *)
(* completion, a journal reconciliation and an operator recovery may race    *)
(* for it, before and after the lease expires.                               *)
OneOutcomePerAttempt ==
    \A w \in WorkOrders : \A i, j \in 1 .. Len(events[w]) :
        /\ IsOutcome(events[w][i])
        /\ IsOutcome(events[w][j])
        /\ events[w][i].attempt = events[w][j].attempt
        => i = j

(* The formal result and the log never disagree: once it exists, it is the   *)
(* last event of its WorkOrder (so no attempt can be claimed again and       *)
(* status() is the same from both tables), and no accepted final outcome     *)
(* lacks its formal result.                                                  *)
FormalResultStands ==
    \A w \in WorkOrders :
        /\ formal[w] # NoResult =>
              /\ Enqueued(w)
              /\ IsOutcome(Latest(w))
              /\ Latest(w).attempt = formal[w].attempt
              /\ Latest(w).state = formal[w].state
        /\ \A i \in 1 .. Len(events[w]) :
              IsOutcome(events[w][i]) /\ events[w][i].state # "retryable"
              => formal[w] # NoResult

(* The receipts a caller replays against after a lost answer are exactly the *)
(* outcomes in the logs: a replay is answered `duplicate` if and only if the *)
(* outcome was committed.                                                    *)
ReceiptsMatchLog ==
    {[work |-> r.work, attempt |-> r.attempt, lease |-> r.lease, state |-> r.outcome] :
        r \in {x \in receipts : x.outcome \in ResultStates}}
    = UNION {{[work |-> w, attempt |-> events[w][i].attempt,
               lease |-> events[w][i].lease, state |-> events[w][i].state] :
                  i \in {j \in 1 .. Len(events[w]) : IsOutcome(events[w][j])}} :
             w \in WorkOrders}

AddedEvents(w) == {events'[w][i] : i \in (Len(events[w]) + 1) .. Len(events'[w])}

(* A lease is expired only after its newest revision has run out: a renewal  *)
(* that commits between the unlocked probe and the write transaction is      *)
(* seen, and a stale clock reading never expires a lease early.  The one     *)
(* way round is the unreserved lease of a model call, which a recovery may   *)
(* end on its own word.                                                      *)
NoEarlyExpiry ==
    [][\A w \in WorkOrders : \A e \in AddedEvents(w) :
          e.state = "expired" =>
              \/ ExpiresAt(e.lease) <= clock
              \/ /\ w \in ModelWork
                 /\ Latest(w).lease = e.lease
                 /\ Latest(w).reserved = 0]_vars

(* An attempt of a model call is lost or answered, never both.  A recovery   *)
(* may take the lease of a caller that is still at work (the sweep, and the  *)
(* lazy expiry of another claim, too); that caller's late completion, and    *)
(* an operator's recovery of its broker answer, are then refused, also when  *)
(* the next attempt was leased meanwhile.                                    *)
LostOrAnswered ==
    \A w \in ModelWork : \A i, j \in 1 .. Len(events[w]) :
        events[w][i].state = "expired" /\ IsOutcome(events[w][j])
            => events[w][i].attempt # events[w][j].attempt

(* The token of an earlier attempt is fenced off: the outcome a step accepts *)
(* for a WorkOrder always belongs to the newest lease ever granted on it.    *)
StaleTokenFenced ==
    [][\A w \in WorkOrders : \A e \in AddedEvents(w) :
          IsOutcome(e) => \A k \in LeaseIds : leases[k].work = w => k <= e.lease]_vars

(* A lease reserved for operator recovery leaves the leased state only       *)
(* through the reconciliation that gives it the broker's formal result: no   *)
(* sweep, lazy expiry, late use of the token or orphan expiry touches it     *)
(* while the budget ledger is being settled.                                 *)
ReservationHeld ==
    [][\A w \in WorkOrders :
          Leased(w) /\ Latest(w).reserved # 0 /\ events'[w] # events[w] =>
              /\ LastOf(events'[w]).lease = Latest(w).lease
              /\ \/ /\ LastOf(events'[w]).state = "leased"
                    /\ LastOf(events'[w]).reserved # 0
                 \/ formal'[w] # NoResult]_vars

(* A lease that nobody completes does not hold its WorkOrder for ever: the   *)
(* controller's sweep ends every leased attempt that is not reserved for     *)
(* operator recovery, relying on the index to name it.                       *)
LeaseIsReleased ==
    \A w \in WorkOrders : \A n \in 1 .. PolicyMaxAttempts :
        (Leased(w) /\ Latest(w).attempt = n)
        ~> (~Leased(w) \/ Latest(w).attempt # n \/ Latest(w).reserved # 0)

(* docs/CONNECTOR_PROTOCOL.md:393: a 429 is written as rate_limited with its *)
(* retry_at, which goes back to the Scheduler as not_before.  So once a      *)
(* journaled retryable result has been reconciled, no later attempt is       *)
(* leased before its retry_at.                                               *)
RetryAtHonoured ==
    \A d \in durable :
        d.outcome = "retryable" /\ KeyUsed("journal", d.lease) =>
            \A l \in LeaseIds :
                /\ leases[l].work = leases[d.lease].work
                /\ leases[l].attempt > leases[d.lease].attempt
                => leases[l].issued_at >= d.retry_at

-----------------------------------------------------------------------------
(* The abstract life cycle of a WorkOrder as the tables record it. *)

PriorAttempt(w) ==
    IF Latest(w).state = "failed" THEN Latest(w).attempt ELSE Latest(w).attempt - 1

(* The attempt before the current state expired and no result of it is in    *)
(* the log.                                                                  *)
Lost(w) ==
    /\ Latest(w).state \in {"ready", "failed"}
    /\ formal[w] = NoResult
    /\ \E i \in 1 .. Len(events[w]) : /\ events[w][i].attempt = PriorAttempt(w)
                                      /\ events[w][i].state = "expired"
    /\ \A i \in 1 .. Len(events[w]) :
          events[w][i].attempt = PriorAttempt(w) => ~IsOutcome(events[w][i])

Phase(w) ==
    CASE Latest(w).state = "leased" -> "running"
      [] Latest(w).state = "ready" -> "queued"
      [] OTHER -> "over"

LifecycleOf(w) ==
    IF ~Enqueued(w)
    THEN [phase |-> "absent", attempt |-> 0, cap |-> 0, lost |-> FALSE,
          result |-> "none"]
    ELSE [phase |-> Phase(w), attempt |-> Latest(w).attempt,
          cap |-> max_attempts[w], lost |-> Lost(w), result |-> formal[w].state]

Lifecycle == INSTANCE WorkLifecycle
    WITH Orders <- WorkOrders, MaxCap <- PolicyMaxAttempts,
         order <- [w \in WorkOrders |-> LifecycleOf(w)]

(* The Scheduler, with its logs, stale readings, crashes and recoveries,     *)
(* implements the one-attempt-at-a-time, one-result life cycle.              *)
ImplementsLifecycle == Lifecycle!Spec
=============================================================================
