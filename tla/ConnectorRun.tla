---------------------------- MODULE ConnectorRun ----------------------------
(***************************************************************************)
(* One connector call: the executor that reserves quota, calls the adapter *)
(* and records what happened, the journal that lets a later process finish *)
(* its work, and the two recoveries.  Three stores take part, each with    *)
(* its own transactions: the runner journal, the Connector authority       *)
(* (quota reservations, physical attempts, usage, cost, settlements) and   *)
(* the host's shared account capacity.  A process may end between any two  *)
(* transactions.                                                           *)
(*                                                                         *)
(* A runner request and its connector invocation are one: every lane makes *)
(* them together.  Reservations of a request are numbered 1, 2, ...        *)
(***************************************************************************)
EXTENDS Integers, FiniteSets

CONSTANTS
    Requests,         \* runner requests, from any workspace of the host
    MaxAttempts,      \* bound on the reservations of one request
    MaxConcurrency,   \* the account policy's max_concurrency
    Settings          \* the settings a behaviour may run under

ASSUME ConnectorRunAssumption ==
    /\ IsFiniteSet(Requests)
    /\ MaxAttempts \in Nat \ {0}
    /\ MaxConcurrency \in Nat \ {0}
    /\ Settings \subseteq [attempts : [Requests -> 0 .. MaxAttempts],
                           policy : BOOLEAN, beside : BOOLEAN]

VARIABLES
    journal,     \* last state of the request in the runner journal
    payload,     \* what its events carry: reservation, late start, outcome
    quota,       \* settlement of each quota reservation
    chain,       \* attempt, usage and cost recorded for it, and by whom
    shared,      \* its row in the shared account capacity
    lapsed,      \* its expires_at has passed
    leased,      \* the scheduler lease of the request is live
    completed,   \* the scheduler has the result of the request
    run,         \* the executor process of the request
    fix,         \* the recovery process of the request
    scan,        \* the recovery of orphaned reservations
    calls,       \* how often the adapter was called under a reservation
    atProvider,  \* calls the provider may still be working on
    setting      \* bound on each request's reservations, and the two below

authority == <<quota, chain>>
clocks    == <<lapsed, leased>>
world     == <<calls, atProvider>>
vars == <<journal, payload, quota, chain, shared, lapsed, leased, completed,
          run, fix, scan, calls, atProvider>>

\* A shared account policy matches the call; a recovery may run beside a live
\* executor (nothing in the code keeps an operator from it).
SharedPolicy == setting.policy
LiveRecovery == setting.beside

Attempts     == 1 .. MaxAttempts
Reservations == Requests \X Attempts

JournalStates == {"none", "admitted", "reserved", "transport_started", "observed",
                  "responded", "released_recovered", "indeterminate_recovered"}

\* Outcomes the adapter reports, and the two the runner decides by itself: a
\* missed deadline and an adapter that failed without an observation.
Observations == {"succeeded", "rate_limited", "failed"}
Outcomes     == Observations \cup {"timeout", "adapter_failure"}

Stages == <<"attempt", "usage", "cost", "settle">>

RunSteps == {"idle", "admitted", "local", "refused", "ended", "settled_ended",
             "local_again", "held", "journaled", "full", "full_released",
             "full_settled", "sink", "dispatched", "started", "calling",
             "answered", "shared_settled", "attempt", "usage", "cost", "settle",
             "complete", "respond"}
FixSteps == {"idle", "release", "free", "unknown", "attempt", "usage", "cost",
             "settle", "complete", "end"}

Idle    == [at |-> "idle", n |-> 0, late |-> FALSE, out |-> "none"]
NoFacts == [by |-> "none", len |-> 0]

TypeOK ==
    /\ journal \in [Requests -> JournalStates]
    /\ payload \in [Requests -> [n : 0 .. MaxAttempts, late : BOOLEAN,
                                 out : Outcomes \cup {"none"}]]
    /\ quota \in [Reservations -> {"none", "open", "released", "indeterminate", "consumed"}]
    /\ chain \in [Reservations -> [by : {"none", "commit", "recovery", "orphan"}, len : 0 .. 3]]
    /\ shared \in [Reservations ->
                     {"none", "reserved", "dispatched", "settled", "released", "expired"}]
    /\ lapsed \in [Reservations -> BOOLEAN]
    /\ leased \in [Requests -> BOOLEAN]
    /\ completed \in [Requests -> BOOLEAN]
    /\ run \in [Requests -> [at : RunSteps, n : 0 .. MaxAttempts, late : BOOLEAN,
                             out : Outcomes \cup {"none"}]]
    /\ fix \in [Requests -> [at : FixSteps, by : {"none", "commit", "recovery"}]]
    /\ scan \in [at : {"idle", "list", "pick", "attempt", "usage", "cost", "settle"},
                 covered : SUBSET Reservations, left : SUBSET Reservations,
                 on : Reservations \cup {<<>>}]
    /\ calls \in [Reservations -> 0 .. 2]
    /\ atProvider \subseteq Reservations
    /\ setting \in Settings

Init ==
    /\ journal = [r \in Requests |-> "none"]
    /\ payload = [r \in Requests |-> [n |-> 0, late |-> FALSE, out |-> "none"]]
    /\ quota = [p \in Reservations |-> "none"]
    /\ chain = [p \in Reservations |-> NoFacts]
    /\ shared = [p \in Reservations |-> "none"]
    /\ lapsed = [p \in Reservations |-> FALSE]
    /\ leased = [r \in Requests |-> TRUE]
    /\ completed = [r \in Requests |-> FALSE]
    /\ run = [r \in Requests |-> Idle]
    /\ fix = [r \in Requests |-> [at |-> "idle", by |-> "none"]]
    /\ scan = [at |-> "idle", covered |-> {}, left |-> {}, on |-> <<>>]
    /\ calls = [p \in Reservations |-> 0]
    /\ atProvider = {}
    /\ setting \in Settings

-----------------------------------------------------------------------------
(* The stores *)

Goto(r, step) == run' = [run EXCEPT ![r].at = step]
FixGoto(r, step) == fix' = [fix EXCEPT ![r].at = step]

\* RunnerJournal.append: an event is taken only from the state it may follow.
Append(r, from, to) ==
    /\ journal[r] = from
    /\ journal' = [journal EXCEPT ![r] = to]

\* settle_quota "released": refused once the reservation has a physical
\* attempt or another settlement; every caller uses the same idempotency key,
\* so a repetition is a duplicate.
MayRelease(p) == quota[p] = "released" \/ (quota[p] = "open" /\ chain[p] = NoFacts)

SettleReleased(p) == MayRelease(p) /\ quota' = [quota EXCEPT ![p] = "released"]

\* Mutant: a release that does not look at the dispatch.
ReleaseSharedAny(p) ==
    shared' = IF shared[p] \in {"reserved", "dispatched"}
              THEN [shared EXCEPT ![p] = "released"] ELSE shared

\* release_undispatched: a dispatched row cannot be released.
Undispatched(p) == SharedPolicy => shared[p] \in {"reserved", "released", "expired"}
Dispatched(p)   == SharedPolicy => shared[p] \in {"dispatched", "settled"}

ReleaseShared(p) ==
    /\ Undispatched(p)
    /\ shared' = IF shared[p] = "reserved" THEN [shared EXCEPT ![p] = "released"] ELSE shared

\* record_physical_attempt, record_usage and record_cost under the keys of one
\* author.  A reservation has one attempt; it must have started while the
\* reservation was valid and never follows a release.  The keys of a commit
\* carry the journaled times, so its repetition is a duplicate; a recovery
\* stamps its attempt with its own clock, and a repetition conflicts.
IsNext(p, by, k, late) ==
    IF k = 1 THEN chain[p] = NoFacts /\ ~late /\ quota[p] # "released"
             ELSE chain[p] = [by |-> by, len |-> k - 1]
IsRepeated(p, by, k) == by = "commit" /\ chain[p].by = by /\ chain[p].len >= k

RecordFact(p, by, k, late) ==
    \/ IsNext(p, by, k, late) /\ chain' = [chain EXCEPT ![p] = [by |-> by, len |-> k]]
    \/ IsRepeated(p, by, k) /\ UNCHANGED chain

\* Mutant: every used reservation is settled at its upper bound.
SettleUsedConservative(p, by, state) ==
    /\ chain[p] = [by |-> by, len |-> 3]
    /\ quota' = [quota EXCEPT ![p] = "indeterminate"]

\* settle_quota "consumed" or "indeterminate" after the three records.
MaySettle(p, by, state) ==
    /\ chain[p] = [by |-> by, len |-> 3]
    /\ quota[p] = "open" \/ (by = "commit" /\ quota[p] = state)

SettleUsed(p, by, state) == MaySettle(p, by, state) /\ quota' = [quota EXCEPT ![p] = state]

\* The reservations that hold a slot of the account: rows reserved past their
\* expiry are expired by the next insertion before it counts.
Lapsing == {p \in Reservations : shared[p] = "reserved" /\ lapsed[p]}
Holding == {p \in Reservations : shared[p] \in {"reserved", "dispatched"}}
HasSlot == Cardinality(Holding \ Lapsing) < MaxConcurrency

-----------------------------------------------------------------------------
(* The executor *)

\* execute begins, or begins again while the journal is still at admitted.
Begin(r) ==
    /\ run[r].at = "idle" /\ leased[r] /\ setting.attempts[r] > 0
    /\ LiveRecovery \/ (fix[r].at = "idle" /\ scan.at = "idle")
    /\ journal[r] \in {"none", "admitted"}
    /\ journal' = [journal EXCEPT ![r] = "admitted"]
    /\ Goto(r, "admitted")
    /\ UNCHANGED <<payload, authority, shared, clocks, completed, fix, scan, world>>

\* The first reservation of the request that is not settled; a new one is
\* inserted when all of them are.
ReserveLocal(r) ==
    /\ run[r].at = "admitted" /\ leased[r]
    /\ \E n \in 1 .. setting.attempts[r] :
          /\ quota[<<r, n>>] \in {"none", "open"}
          /\ \A m \in 1 .. n - 1 : quota[<<r, m>>] \notin {"none", "open"}
          /\ quota' = [quota EXCEPT ![<<r, n>>] = "open"]
          /\ run' = [run EXCEPT ![r].at = "local", ![r].n = n]
    /\ UNCHANGED <<journal, payload, chain, shared, clocks, completed, fix, scan, world>>

\* The account's row for the reservation: an existing one is returned, a new
\* one takes a slot.  Without a matching policy nothing is reserved.
ReserveShared(r) ==
    LET p == <<r, run[r].n>> IN
    /\ run[r].at \in {"local", "local_again"}
    /\ \/ ~SharedPolicy /\ UNCHANGED shared
       \/ /\ SharedPolicy /\ ~lapsed[p] /\ UNCHANGED shared
          /\ shared[p] \in {"reserved", "dispatched", "settled"}
       \/ /\ SharedPolicy /\ ~lapsed[p] /\ shared[p] = "none" /\ HasSlot
          /\ shared' = [q \in Reservations |->
                          IF q = p THEN "reserved"
                          ELSE IF q \in Lapsing THEN "expired" ELSE shared[q]]
    /\ Goto(r, "held")
    /\ UNCHANGED <<journal, payload, authority, clocks, completed, fix, scan, world>>

\* The reservation ended elsewhere before the journal knew it: released by
\* the account's owner.
SharedEnded(r) ==
    LET p == <<r, run[r].n>> IN
    /\ run[r].at \in {"local", "local_again"}
    /\ SharedPolicy /\ ~lapsed[p] /\ shared[p] \in {"expired", "released"}
    /\ \/ run[r].at = "local" /\ Goto(r, "ended")
       \/ run[r].at = "local_again" /\ run' = [run EXCEPT ![r] = Idle]
    /\ UNCHANGED <<journal, payload, authority, shared, clocks, completed, fix, scan, world>>

\* No slot, a call or cost limit, a superseded policy, a lapsed reservation.
\* The second time the refusal is not handled and the reservation stays open.
SharedRefused(r) ==
    LET p == <<r, run[r].n>> IN
    /\ run[r].at \in {"local", "local_again"}
    /\ SharedPolicy /\ (shared[p] = "none" \/ lapsed[p])
    /\ \/ run[r].at = "local" /\ Goto(r, "refused")
       \/ run[r].at = "local_again" /\ run' = [run EXCEPT ![r] = Idle]
    /\ UNCHANGED <<journal, payload, authority, shared, clocks, completed, fix, scan, world>>

\* The refusal releases the local reservation and is raised again.
Refuse(r) ==
    /\ run[r].at = "refused"
    /\ SettleReleased(<<r, run[r].n>>)
    /\ run' = [run EXCEPT ![r] = Idle]
    /\ UNCHANGED <<journal, payload, chain, shared, clocks, completed, fix, scan, world>>

\* An ended row: release both reservations, then reserve the next number.
EndAttempt(r) ==
    /\ run[r].at = "ended"
    /\ SettleReleased(<<r, run[r].n>>)
    /\ Goto(r, "settled_ended")
    /\ UNCHANGED <<journal, payload, chain, shared, clocks, completed, fix, scan, world>>

ReserveNext(r) ==
    LET n == run[r].n + 1 IN
    /\ run[r].at = "settled_ended" /\ leased[r] /\ n <= setting.attempts[r]
    /\ ReleaseShared(<<r, run[r].n>>)
    /\ quota[<<r, n>>] = "none"
    /\ quota' = [quota EXCEPT ![<<r, n>>] = "open"]
    /\ run' = [run EXCEPT ![r].at = "local_again", ![r].n = n]
    /\ UNCHANGED <<journal, payload, chain, clocks, completed, fix, scan, world>>

JournalReserved(r) ==
    /\ run[r].at = "held"
    /\ Append(r, "admitted", "reserved")
    /\ payload' = [payload EXCEPT ![r].n = run[r].n]
    /\ Goto(r, "journaled")
    /\ UNCHANGED <<authority, shared, clocks, completed, fix, scan, world>>

\* The reservations of the request that a call may use.
Usable(r) == {n \in Attempts : /\ quota[<<r, n>>] = "open" /\ chain[<<r, n>>] = NoFacts
                               /\ ~lapsed[<<r, n>>]}

\* build_adapter_request, the second gate, and the raw sink it names.
OpenSink(r) ==
    /\ run[r].at = "journaled" /\ leased[r] /\ Usable(r) = {run[r].n}
    /\ \/ Goto(r, "sink")
       \/ Goto(r, "full")
    /\ UNCHANGED <<journal, payload, authority, shared, clocks, completed, fix, scan, world>>

\* The spool has no room: both reservations are given back, in this order.
SpoolRelease(r) ==
    /\ run[r].at = "full"
    /\ ReleaseShared(<<r, run[r].n>>)
    /\ Goto(r, "full_released")
    /\ UNCHANGED <<journal, payload, authority, clocks, completed, fix, scan, world>>

SpoolSettle(r) ==
    /\ run[r].at = "full_released"
    /\ SettleReleased(<<r, run[r].n>>)
    /\ Goto(r, "full_settled")
    /\ UNCHANGED <<journal, payload, chain, shared, clocks, completed, fix, scan, world>>

SpoolJournal(r) ==
    /\ run[r].at = "full_settled"
    /\ Append(r, "reserved", "released_recovered")
    /\ run' = [run EXCEPT ![r] = Idle]
    /\ UNCHANGED <<payload, authority, shared, clocks, completed, fix, scan, world>>

\* started_at is read, then the account's row is marked dispatched; a row that
\* expired, or that someone released, stops the call here.  Without a shared
\* policy nothing looks at the expiry again.
MarkDispatched(r) ==
    LET p == <<r, run[r].n>> IN
    /\ run[r].at = "sink"
    /\ \/ ~SharedPolicy /\ UNCHANGED shared
       \/ SharedPolicy /\ shared[p] \in {"dispatched", "settled"} /\ UNCHANGED shared
       \/ /\ SharedPolicy /\ shared[p] = "reserved" /\ ~lapsed[p]
          /\ shared' = [shared EXCEPT ![p] = "dispatched"]
    /\ run' = [run EXCEPT ![r].at = "dispatched", ![r].late = lapsed[p]]
    /\ UNCHANGED <<journal, payload, authority, clocks, completed, fix, scan, world>>

\* The barrier: it is durable before the adapter is called.
StartTransport(r) ==
    /\ run[r].at = "dispatched"
    /\ Append(r, "reserved", "transport_started")
    /\ payload' = [payload EXCEPT ![r].late = run[r].late]
    /\ Goto(r, "started")
    /\ UNCHANGED <<authority, shared, clocks, completed, fix, scan, world>>

\* The watchdog refuses a call whose deadline has passed; the deadline is
\* never later than the reservation's expiry.
CallAdapter(r) ==
    LET p == <<r, run[r].n>> IN
    /\ run[r].at = "started"
    /\ \/ /\ ~lapsed[p]
          /\ calls' = [calls EXCEPT ![p] = @ + 1]
          /\ atProvider' = atProvider \cup {p}
          /\ Goto(r, "calling")
       \/ /\ run' = [run EXCEPT ![r].at = "answered", ![r].out = "timeout"]
          /\ UNCHANGED world
    /\ UNCHANGED <<journal, payload, authority, shared, clocks, completed, fix, scan>>

\* An observation, or none: the deadline passed or the adapter raised, and
\* the provider may still be working.
Answer(r) ==
    /\ run[r].at = "calling"
    /\ \E out \in Outcomes :
          /\ run' = [run EXCEPT ![r].at = "answered", ![r].out = out]
          /\ atProvider' = IF out \in Observations THEN atProvider \ {<<r, run[r].n>>}
                           ELSE atProvider
    /\ UNCHANGED <<journal, payload, authority, shared, clocks, completed, fix, scan, calls>>

\* Mutant: a call without an observation gives its slot back.
SettleSharedAlways(r) ==
    /\ run[r].at = "answered"
    /\ shared' = IF SharedPolicy THEN [shared EXCEPT ![<<r, run[r].n>>] = "settled"] ELSE shared
    /\ Goto(r, "shared_settled")
    /\ UNCHANGED <<journal, payload, authority, clocks, completed, fix, scan, world>>

\* Without an observation the account's row keeps its slot.
SettleShared(r) ==
    LET p == <<r, run[r].n>> IN
    /\ run[r].at = "answered"
    /\ Dispatched(p)
    /\ shared' = IF SharedPolicy /\ run[r].out \in Observations
                 THEN [shared EXCEPT ![p] = "settled"] ELSE shared
    /\ Goto(r, "shared_settled")
    /\ UNCHANGED <<journal, payload, authority, clocks, completed, fix, scan, world>>

JournalObserved(r) ==
    /\ run[r].at = "shared_settled"
    /\ Append(r, "transport_started", "observed")
    /\ payload' = [payload EXCEPT ![r].out = run[r].out]
    /\ Goto(r, "attempt")
    /\ UNCHANGED <<authority, shared, clocks, completed, fix, scan, world>>

-----------------------------------------------------------------------------
(* _commit_observed, run by the executor or by a recovery at observed *)

\* The settlement an outcome is committed with.
FinalState(out) == IF out \in {"succeeded", "rate_limited"} THEN "consumed" ELSE "indeterminate"

RunRecord(r) ==
    /\ \E k \in 1 .. 3 :
          /\ run[r].at = Stages[k]
          /\ RecordFact(<<r, run[r].n>>, "commit", k, payload[r].late)
          /\ Goto(r, Stages[k + 1])
    /\ UNCHANGED <<journal, payload, quota, shared, clocks, completed, fix, scan, world>>

RunSettle(r) ==
    /\ run[r].at = "settle"
    /\ SettleUsed(<<r, run[r].n>>, "commit", FinalState(payload[r].out))
    /\ Goto(r, "complete")
    /\ UNCHANGED <<journal, payload, chain, shared, clocks, completed, fix, scan, world>>

\* Artifact and source envelope of a success, then the scheduler, which takes
\* a result under a live lease or a repetition of the one it has.
RunComplete(r) ==
    /\ run[r].at = "complete" /\ (leased[r] \/ completed[r])
    /\ completed' = [completed EXCEPT ![r] = TRUE]
    /\ Goto(r, "respond")
    /\ UNCHANGED <<journal, payload, authority, shared, clocks, fix, scan, world>>

RunRespond(r) ==
    /\ run[r].at = "respond"
    /\ Append(r, "observed", "responded")
    /\ run' = [run EXCEPT ![r] = Idle]
    /\ UNCHANGED <<payload, authority, shared, clocks, completed, fix, scan, world>>

\* The process dies, or a call it makes is refused and raises.
RunStop(r) ==
    /\ run[r].at # "idle"
    /\ run' = [run EXCEPT ![r] = Idle]
    /\ UNCHANGED <<journal, payload, authority, shared, clocks, completed, fix, scan, world>>

-----------------------------------------------------------------------------
(* recover *)

\* Mutant: nobody replays an observed request.
InterruptedUnobserved == {"reserved", "transport_started"}

\* The states of the journal a recovery takes up; the others are not yet, or
\* no longer, its business.
Interrupted == {"reserved", "transport_started", "observed"}

\* What a recovery does depends on the journal's last state alone.
RecoverBegin(r) ==
    /\ fix[r].at = "idle" /\ journal[r] \in Interrupted
    /\ LiveRecovery \/ (run[r].at = "idle" /\ scan.at = "idle")
    /\ \/ /\ journal[r] = "reserved"
          /\ fix' = [fix EXCEPT ![r] = [at |-> "release", by |-> "none"]]
       \/ /\ journal[r] = "transport_started"
          /\ fix' = [fix EXCEPT ![r] = [at |-> "unknown", by |-> "recovery"]]
       \/ /\ journal[r] = "observed"
          /\ fix' = [fix EXCEPT ![r] = [at |-> "attempt", by |-> "commit"]]
    /\ UNCHANGED <<journal, payload, authority, shared, clocks, completed, run, scan, world>>

\* At reserved: the account's row, the local reservation, the journal.
RecoverRelease(r) ==
    /\ fix[r].at = "release"
    /\ ReleaseShared(<<r, payload[r].n>>)
    /\ FixGoto(r, "free")
    /\ UNCHANGED <<journal, payload, authority, clocks, completed, run, scan, world>>

RecoverFree(r) ==
    /\ fix[r].at = "free"
    /\ SettleReleased(<<r, payload[r].n>>)
    /\ FixGoto(r, "end")
    /\ UNCHANGED <<journal, payload, chain, shared, clocks, completed, run, scan, world>>

\* At transport_started: the account keeps its charge, then the indeterminate
\* attempt, usage, cost and settlement.
RecoverUnknown(r) ==
    /\ fix[r].at = "unknown"
    /\ Dispatched(<<r, payload[r].n>>)
    /\ FixGoto(r, "attempt")
    /\ UNCHANGED <<journal, payload, authority, shared, clocks, completed, run, scan, world>>

RecoverRecord(r, k) ==
    /\ fix[r].at = Stages[k]
    /\ RecordFact(<<r, payload[r].n>>, fix[r].by, k, payload[r].late)
    /\ FixGoto(r, Stages[k + 1])
    /\ UNCHANGED <<journal, payload, quota, shared, clocks, completed, run, scan, world>>

RecoverSettle(r) ==
    /\ fix[r].at = "settle"
    /\ \/ /\ fix[r].by = "commit"
          /\ SettleUsed(<<r, payload[r].n>>, "commit", FinalState(payload[r].out))
          /\ FixGoto(r, "complete")
       \/ /\ fix[r].by = "recovery"
          /\ SettleUsed(<<r, payload[r].n>>, "recovery", "indeterminate")
          /\ FixGoto(r, "end")
    /\ UNCHANGED <<journal, payload, chain, shared, clocks, completed, run, scan, world>>

RecoverComplete(r) ==
    /\ fix[r].at = "complete" /\ (leased[r] \/ completed[r])
    /\ completed' = [completed EXCEPT ![r] = TRUE]
    /\ FixGoto(r, "end")
    /\ UNCHANGED <<journal, payload, authority, shared, clocks, run, scan, world>>

RecoverEnd(r) ==
    /\ fix[r].at = "end"
    /\ CASE fix[r].by = "none"     -> Append(r, "reserved", "released_recovered")
         [] fix[r].by = "recovery" -> Append(r, "transport_started", "indeterminate_recovered")
         [] fix[r].by = "commit"   -> Append(r, "observed", "responded")
    /\ fix' = [fix EXCEPT ![r] = [at |-> "idle", by |-> "none"]]
    /\ UNCHANGED <<payload, authority, shared, clocks, completed, run, scan, world>>

\* The recovery dies.  One that is refused stands at the call that refuses it:
\* run again, it would come to the same call and be refused there.
RecoverStop(r) ==
    /\ fix[r].at # "idle"
    /\ fix' = [fix EXCEPT ![r] = [at |-> "idle", by |-> "none"]]
    /\ UNCHANGED <<journal, payload, authority, shared, clocks, completed, run, scan, world>>

-----------------------------------------------------------------------------
(* recover_orphaned_reservations *)

\* The reservations the journal names are read first, the unsettled ones after.
ScanBegin ==
    /\ scan.at = "idle"
    /\ LiveRecovery \/ \A r \in Requests : run[r].at = "idle" /\ fix[r].at = "idle"
    /\ scan' = [scan EXCEPT !.at = "list",
                            !.covered = {p \in Reservations : payload[p[1]].n = p[2]}]
    /\ UNCHANGED <<journal, payload, authority, shared, clocks, completed, run, fix, world>>

ScanList ==
    /\ scan.at = "list"
    /\ scan' = [at |-> "pick", covered |-> {}, on |-> <<>>,
                left |-> {p \in Reservations : quota[p] = "open"} \ scan.covered]
    /\ UNCHANGED <<journal, payload, authority, shared, clocks, completed, run, fix, world>>

ScanPick ==
    /\ scan.at = "pick"
    /\ \E p \in scan.left :
          scan' = [scan EXCEPT !.at = "attempt", !.on = p, !.left = @ \ {p}]
    /\ UNCHANGED <<journal, payload, authority, shared, clocks, completed, run, fix, world>>

\* The start it records is the reservation's creation, never late.
ScanRecord ==
    /\ \E k \in 1 .. 3 :
          /\ scan.at = Stages[k]
          /\ RecordFact(scan.on, "orphan", k, FALSE)
          /\ scan' = [scan EXCEPT !.at = Stages[k + 1]]
    /\ UNCHANGED <<journal, payload, quota, shared, clocks, completed, run, fix, world>>

ScanSettle ==
    /\ scan.at = "settle"
    /\ SettleUsed(scan.on, "orphan", "indeterminate")
    /\ scan' = [scan EXCEPT !.at = "pick", !.on = <<>>]
    /\ UNCHANGED <<journal, payload, chain, shared, clocks, completed, run, fix, world>>

\* The scan is through, or dies at any place; the first refusal ends all of it.
ScanEnd ==
    /\ scan.at # "idle"
    /\ scan' = [at |-> "idle", covered |-> {}, left |-> {}, on |-> <<>>]
    /\ UNCHANGED <<journal, payload, authority, shared, clocks, completed, run, fix, world>>

-----------------------------------------------------------------------------
(* Time, and the account's owner *)

Lapse(p) ==
    /\ quota[p] # "none" /\ ~lapsed[p]
    /\ lapsed' = [lapsed EXCEPT ![p] = TRUE]
    /\ UNCHANGED <<journal, payload, authority, shared, leased, completed, run, fix, scan, world>>

\* No reservation outlives the lease it was made under.
LapseLease(r) ==
    /\ leased[r]
    /\ leased' = [leased EXCEPT ![r] = FALSE]
    /\ lapsed' = [p \in Reservations |-> lapsed[p] \/ (p[1] = r /\ quota[p] # "none")]
    /\ UNCHANGED <<journal, payload, authority, shared, completed, run, fix, scan, world>>

OwnerRelease(p) ==
    /\ shared[p] = "reserved"
    /\ ReleaseShared(p)
    /\ UNCHANGED <<journal, payload, authority, clocks, completed, run, fix, scan, world>>

-----------------------------------------------------------------------------

RunStep(r) ==
    \/ Begin(r) \/ ReserveLocal(r) \/ ReserveShared(r) \/ SharedEnded(r) \/ SharedRefused(r)
    \/ Refuse(r) \/ EndAttempt(r) \/ ReserveNext(r) \/ JournalReserved(r) \/ OpenSink(r)
    \/ SpoolRelease(r) \/ SpoolSettle(r) \/ SpoolJournal(r) \/ MarkDispatched(r)
    \/ StartTransport(r) \/ CallAdapter(r) \/ Answer(r) \/ SettleShared(r)
    \/ JournalObserved(r) \/ RunRecord(r) \/ RunSettle(r) \/ RunComplete(r) \/ RunRespond(r)

FixStep(r) ==
    \/ RecoverBegin(r) \/ RecoverRelease(r) \/ RecoverFree(r) \/ RecoverUnknown(r)
    \/ (\E k \in 1 .. 3 : RecoverRecord(r, k)) \/ RecoverSettle(r) \/ RecoverComplete(r) \/ RecoverEnd(r)

ScanStep == ScanBegin \/ ScanList \/ ScanPick \/ ScanRecord \/ ScanSettle \/ ScanEnd

Next ==
    /\ \/ \E r \in Requests : RunStep(r) \/ RunStop(r) \/ FixStep(r) \/ RecoverStop(r) \/ LapseLease(r)
       \/ ScanStep
       \/ \E p \in Reservations : Lapse(p) \/ OwnerRelease(p)
    /\ UNCHANGED setting

Spec == Init /\ [][Next]_<<vars, setting>>

-----------------------------------------------------------------------------
(* Properties *)

\* The settlement and the facts of the reservation the journal names.
Bound(r)   == <<r, payload[r].n>>
Settled(r) == payload[r].n # 0 /\ quota[Bound(r)] # "open"

\* Whatever dies and whatever is run again, one request reaches the provider
\* at most once (execute re-enters only at admitted; every recovery ends a
\* request without calling the adapter).
OneCall ==
    \A r \in Requests : Cardinality({n \in Attempts : calls[<<r, n>>] > 0}) <= 1
                       /\ \A n \in Attempts : calls[<<r, n>>] <= 1

\* A recovery beside a live executor is held back by a shared account policy.
\* Without one nothing keeps it from giving back the reservation the executor
\* is about to use: the call goes out under a released reservation.
RecoveryHeld == LiveRecovery => SharedPolicy

\* A reservation the provider was called under is never given back, neither
\* by the account nor, where a recovery is held back, by the Connector
\* authority, and it is settled as consumed only for an outcome the adapter
\* measured.
CalledStaysCharged ==
    \A p \in Reservations : calls[p] > 0 =>
        /\ RecoveryHeld => quota[p] # "released"
        /\ SharedPolicy => shared[p] \in {"dispatched", "settled"}
        /\ quota[p] = "consumed" => payload[p[1]].out \in {"succeeded", "rate_limited"}

\* The rows are well formed, and every call the provider saw is the only one
\* of its request and stays on both accounts.
CallsAccounted == TypeOK /\ OneCall /\ CalledStaysCharged

\* The provider never works on more calls of the account than the policy
\* allows, counting the calls whose process died or gave up waiting.
AccountBound == SharedPolicy => Cardinality(atProvider) <= MaxConcurrency

\* The scheduler learns a result, and the journal closes the request, only
\* over a complete set of facts: the commit's three records and a settlement,
\* a recovery's, or a reservation that was given back uncalled.
ClosedOverFacts ==
    \A r \in Requests :
        /\ completed[r] \/ journal[r] = "responded" =>
              /\ chain[Bound(r)] = [by |-> "commit", len |-> 3]
              /\ quota[Bound(r)] = FinalState(payload[r].out)
        /\ journal[r] = "responded" => completed[r]
        /\ journal[r] = "indeterminate_recovered" =>
              chain[Bound(r)].len = 3 /\ quota[Bound(r)] = "indeterminate"
        /\ journal[r] = "released_recovered" =>
              chain[Bound(r)] = NoFacts /\ quota[Bound(r)] = "released" /\ calls[Bound(r)] = 0

\* The three shapes in which every later recovery of a request is refused: the
\* account's row dispatched before the journal said so, an attempt recorded
\* by a recovery that died before its settlement, and a start the authority
\* finds later than the reservation's expiry.
DispatchedUnjournaled(r) ==
    journal[r] = "reserved" /\ shared[Bound(r)] = "dispatched"
HalfRecovered(r) ==
    /\ payload[r].n # 0 /\ ~Settled(r)
    /\ \/ chain[Bound(r)].by = "orphan"
       \/ chain[Bound(r)].by = "recovery" /\ fix[r].at \notin {"usage", "cost", "settle"}
StartedLate(r) == journal[r] \in {"transport_started", "observed"} /\ payload[r].late

\* A recovery can be begun, or the authority and the account do not refuse
\* what the one under way asks of them next; that it comes to its end without
\* having settled the reservation is not among the ways.
Recoverable(r) ==
    LET p  == Bound(r)
        by == fix[r].by
    IN \/ fix[r].at = "idle" /\ journal[r] \in Interrupted
       \/ fix[r].at = "release" /\ Undispatched(p)
       \/ fix[r].at = "free" /\ MayRelease(p)
       \/ fix[r].at = "unknown" /\ Dispatched(p)
       \/ \E k \in 1 .. 3 : /\ fix[r].at = Stages[k]
                            /\ IsNext(p, by, k, payload[r].late) \/ IsRepeated(p, by, k)
       \/ /\ fix[r].at = "settle"
          /\ MaySettle(p, by, IF by = "commit" THEN FinalState(payload[r].out)
                                               ELSE "indeterminate")

\* Outside those three shapes an unaccounted request is never beyond help:
\* with no other process at it, a recovery of it can be begun, and one that has
\* begun can take its next step, until the reservation is settled.
RecoverableOrStuck ==
    ~LiveRecovery => \A r \in Requests :
        payload[r].n # 0 /\ ~Settled(r) /\ run[r].at = "idle" /\ scan.at = "idle" =>
            Recoverable(r) \/ DispatchedUnjournaled(r) \/ HalfRecovered(r) \/ StartedLate(r)
=============================================================================
