# A TLA+ model of the Dalton research agent's execution and money path

Dalton runs long-lived research missions on one host.  Lanes (document reading,
verification, tracking, weekly briefs, planning) turn into *WorkOrders*; a
WorkOrder is executed by a worker process that calls a connector or a paid
model.  Everything that must survive a crash is kept in append-only SQLite
files, and several processes (controller, writer, cockpit, lane children,
operator tools) open them at once.  This directory models the authorities such
a call goes through, from the claim of an attempt to the answer that is paid
for: the **Scheduler**, which decides who may run an attempt and which result
counts; the **day budget**, which decides whether a paid call may be made; the
**host's shared capacity** and the **model broker**, which decide whether it may
be sent now; the **cockpit call** and the **connector run**, which drive a call
through all of them and are recovered when they die half way; and the **lane
children**, the processes the writer starts for all this work.

Paths below are relative to `src/dalton_core/` in the repository, `broker` is
`integrations/openclaw-model-broker/src/`.

## Inventory

| part | state | operations | what is hard | modelled |
|---|---|---|---|---|
| Scheduler (`scheduler.py`, `scheduler_schema.sql`) | WorkOrders with frozen attempt cap, attempt event log, lease revisions, formal results, completion receipts, the trigger-maintained current-lease index | enqueue, claim, validate_lease_for_use, renew, complete, sweep_expired, expire_orphaned_lease, reserve / reconcile of interrupted model attempts, reconcile_journaled_completion | several processes; clock and overdue probe read before the write lock; dead holders; late results; replays | `Scheduler` |
| operator recovery (`model_interruption_recovery.py`, `cockpit_reservation_recovery.py`) | none of its own; a plan with hashes | prove the holder dead, reserve, settle, reconcile; value and settle orphaned reservations | three authorities in sequence, crash in between | `CockpitCall`; the scheduler side also in `Scheduler` |
| day budget (`thesis_impact_budget.py`) | policy chain, admissions, settlements, corrections, rejections, alerts | register_policy, admit, settle, correct_uncertain_settlement, record_alert, alert delivery | reservations that never settle, midnight, policy change, overruns | `DayBudget` (not alert delivery) |
| pools (`budget_pools.py`) | pool and loan of each admission, pool refusals | pool_decision, borrow | loans counted on both sides, no double lending | `DayBudget` |
| shared budget (`shared_daily_budget.py`) | host policy file; the ledgers of all environments | cross_environment_spend | reads of other files without any lock, unreadable peers | `DayBudget` |
| cockpit model calls (`cockpit_model.py`, `lease_holder_registry.py`, `pending_settlement_registry.py`, `cockpit_reservation_recovery.py`) | holder registry, pending settlements | claim → route → admit → send → settle → complete | every step may fail or the process may die; abandoned but living holders | `CockpitCall` |
| connector runner (`connector_runner.py`, `runner_journal.py`, `connector.py`, `raw_spool.py`, `shared_connector_capacity.py`) | runner journal, quota reservations, spool | prepare, send, journal, settle quota | crash between any two of four stores' writes, indeterminate usage | `ConnectorRun`; in `Scheduler` the journal appears as `durable` |
| host model capacity (`shared_capacity.py`, `openclaw_model_adapter.py`) | reservations and policy in one host file | activate, reserve with expiry, mark_dispatched, cancel, settle, replay | several workspaces, stale clocks, replays beside the live caller | `SharedCapacity` |
| routing (`model_router.py`, `model_fallback_chain.py`) | profiles, route decisions | route, fallback | fallback after a partial failure | the walk over the chain, in `CockpitCall` |
| controller (`service.py`, `controller_singleton.py`, `tick_ledger.py`) | singleton lock, tick ledger, futures | tick, sweep, poll lanes | restart while children run | no; its sweep is the fairness of `Scheduler`, its stop and start are steps of `LaneChildren` |
| lane children (`lane_child_launcher.py`, `launch_drain.py`, `lane_failure_ledger.py`, `lane_reentry_claim.py`) | child records, failure counters, one-shot claims | launch, drain, back off, re-enter | drain racing a launch, pid reuse, restarts under running children, one-shot claims | `LaneChildren`, `LaneReentry` (not the failure ledger) |
| writer (`writer_server.py`, `writer_client.py`, `store.py`) | the core SQLite kernel | RPC handlers | single writer occupancy | its one store thread, in `LaneChildren` and `LaneReentry` |
| planner (`bounded_planner_loop.py`, `research_plan_executor.py`) | loop rows, step budgets | propose, execute, stop | bounded retries | no |
| human decisions (`human_intent.py`, `needs_human.py`, `owner_*.py`) | inbox rows, levers | acknowledge, pause, stop | stale acknowledgements | emergency stop only, as a refusal of `admit` |
| claims, products, missions, acquisition, workspaces, backup | domain documents, files | - | content rather than control | no |
| model broker (`broker/broker.mjs`, `journal.mjs`, `server.mjs`) | queue, slots, timers, journal file | admit, queue, claim, call the host, complete, evict, stop, restart | counters over awaits, failing journal writes, eviction of running records | `ModelBroker`; in `Scheduler` it is `Respond` |

How they interact.  The controller sweeps the Scheduler on every tick.  A
worker claims a WorkOrder and gets a one-time token; a connector runner
validates the lease before it sends and journals the answer; a cockpit call
routes, admits its reservation to the day budget, sends to the model broker,
settles and completes.  If the worker dies, the journal (runner) or the broker
still holds the answer, and a recovery brings it back to the Scheduler: the
runner through `reconcile_journaled_completion`, the operator through
`reserve_interrupted_model_recovery` and `reconcile_interrupted_model_attempt`.

What makes each part correct:

* Scheduler - an attempt is leased once, decided at most once, never expired
  early but on the word of a model call's recovery, never decided by the token of
  an earlier attempt; an attempt taken from its holder gets no outcome from it; a
  formal result is final; log, formal result, receipts and index never disagree;
  an abandoned lease is freed; a reserved one is not.
* Day budget - admissions stay within every cap whatever settles or overruns
  later; open reservations are never forgotten; loans balance; a rejection is
  final.
* Shared budget - all environments together stay within the shared cap (see
  *Findings*: they do not always).
* Host capacity - open calls and a day's charges stay within a policy; a call
  the provider got is on the books with its slot; a settlement stands.
* Broker - the host is called once per key while its record stands; no provider
  was asked for what is reported as "not sent"; slots and queue are counted
  exactly; every run ends.
* Connector run - the adapter is called once per reservation; what was called
  stays charged; a request is either accounted for or can still be recovered.
* Cockpit call - one recorded call in flight, none without an open reservation;
  the ledger says what was charged, or keeps the reservation, but for a walk that
  raised; an abandoned attempt stays abandoned; an open reservation always has
  somebody who will settle it.
* Lane children - no second child of a ticket whose child lives; a settled
  ticket tells how the child ended; a drained stop kills no child the drain could
  have seen; a dead child's slot comes back; a one-shot claim buys one run.

The hazards behind these, at their lines, are listed in `PROJECT.json`.

## Modules

| module | what it is |
|---|---|
| `WorkLifecycle` | abstract specification: what the Scheduler promises about a WorkOrder |
| `Scheduler` | the Scheduler authority, its callers and the recoveries; properties; refinement mapping to `WorkLifecycle` |
| `SchedulerInvariants` | the inductive invariants `IndInv` and `HistInv` |
| `SchedulerProofs` | theorems about `Scheduler`: tables, histories, refinement |
| `DayBudget`, `DayBudgetProofs` | the day ledgers, pools, loans and shared cap; theorems about them |
| `SharedCapacity`, `SharedCapacityProofs` | the host's model capacity file and the adapters that spend it; theorems about it |
| `ModelBroker`, `ModelBrokerProofs` | the model broker: queue, slots, idempotency journal, stop and restart; theorems about it |
| `ConnectorRun`, `ConnectorRunProofs` | one connector call over journal, authority and account capacity, with both recoveries; theorems about it |
| `CockpitCall`, `CockpitCallProofs` | one paid model call over Scheduler, ledger and two registries, with the reclaims and the operator's tools; theorems about it |
| `LaneChildren` | the children of a lane, their tickets, restarts, drains and readers |
| `LaneReentry` | one-shot claims, completions, grants and refunds of a re-entered admission |
| `LaneProofs` | theorems about `LaneChildren` and about `LaneReentry`, which share no variable |
| `FiniteSums` | lemmas on sums over finite sets, which the proofs about ledgers rest on |
| `MC...` | constants, settings and symmetry for TLC, one per component |

`CockpitCall` is where components are composed: it has the Scheduler, the
ledger, the router and the broker in it, each reduced to what its own module
shows of it (an attempt is leased once and decided once; a reservation is
settled once; a key reaches the host once).

The newer modules carry a variable `setting`: chosen in `Init`, never changed,
it says which actors and which faults take part in a behaviour.  One run then
covers several small instances that would be too large all at once, and a
property may state the condition under which it holds.

### Scheduler

*State.*  `events[w]` is the event log of a WorkOrder (its last row is its
state), `leases` the lease table in order of `lease_id` with the expiry of each
revision, `current` the trigger-maintained table `scheduler_current_leases`,
`formal` and `receipts` the formal results and the completion idempotency and
envelope rows.  NULL columns are 0.  `routed` and `durable` stand for the
authorities of others: the calls that were sent, the answers that the runner
journal or the broker made durable.

*Atomicity.*  Each write method is one `BEGIN IMMEDIATE` transaction and so one
action.  But `_now()` and, for a targeted claim and a sweep, the probe
`_due_lease_candidates` run **before** the lock is taken.  `Begin(c)` takes
both readings; the method's action commits later with `call[c].now` and
`call[c].due`, while other callers and the clock move on.  `Return(c)` is every
way a method ends without writing (refusal, stored answer, busy timeout).

*Actions and code.*

| action | code |
|---|---|
| `Enqueue` | `enqueue`: cap = min(policy, step cap), attempt 1 ready |
| `Claim`, `ClaimAny` | `claim` with and without a WorkOrder id, including its lazy expiry of every overdue lease.  `ClaimAny` may take any claimable WorkOrder, the code takes the oldest: the model allows more |
| `Sweep` | `sweep_expired` |
| `ValidateLease` | `validate_lease_for_use`, the runner's gate before it sends |
| `Renew` | `renew` with the total lifetime limit and the lease trigger |
| `Complete` | `complete`, including the late branch that expires the lease |
| `ReconcileJournaled` | `reconcile_journaled_completion` |
| `ReserveRecovery`, `ReconcileDurable`, `ReconcileUndispatched` | the operator's recovery of an interrupted model attempt |
| `ExpireOrphaned` | `expire_orphaned_lease`: the current, unreserved claim its caller names (`CurrentClaim`).  The method looks at no process; who may call it, and how its caller may be wrong, is in `CockpitCall` |
| `Dispatch`, `Respond` | environment: a model call is sent; an answer becomes durable |
| `Tick`, `Crash` | environment: time, process death |

*Left out.*  Content hashes, token hashing and the hash chain of the journal
proof (`_trusted_journal_completion_proof`): what they authenticate is a member
of `durable`.  Policy registration: one frozen policy.  The schema migration of
the index.  The probe limit of 256 leases.

### WorkLifecycle

Per WorkOrder: a phase, the attempt, the cap, whether the previous attempt was
lost and the result.  A lost attempt's result may still arrive, but only until
the next attempt starts; one transaction may move several WorkOrders.
`Scheduler!ImplementsLifecycle` states that the Scheduler implements it under
the mapping `LifecycleOf`, which reads phase, attempt and cap from the last log
row and `lost` from the log.

### DayBudget

*State.*  One row set per table over the admission identities `Requests`;
`Home` says in which environment's ledger a request is made.  `call[r]` is what
`admit` fixes before its write lock: day, policy version and the spend of the
other environments.  `Admit`, `Reject` and `RefusePool` are the three ways the
transaction decides; `Settle` may exceed the reservation, `Correct` only raises
a settlement within it; `Freeze` is the overrun alert that a lane records
instead of settling; `RegisterPolicy` advances the version chain.

Every binding carries an outer budget, each ledger has one policy chain, and
the day a caller asks for is the current one.  The emergency stop, which
refuses before anything is read, is one of the cases of `Return`.

### SharedCapacity

*State.*  `row` is the reservation table, `head` and `published` the policies
of the scope, `client` the adapter processes: one `execute` per call and, when
its attempt is recovered, one `replay`.  `running` and `answer` are the
provider and the broker's journal, `refused` the answers a settlement did not
accept.

| action | code |
|---|---|
| `Begin` | the adapter binds itself to a published policy and reads the clock |
| `ReserveCapacity` | `reserve`: an existing row of the same policy is returned whatever its status; otherwise the stale rows are expired and the three caps compared |
| `ConnectFails` | the broker's socket refuses: `cancel_undispatched`, then the safe retry |
| `Dispatch` | `mark_dispatched` on the open connection, or the cancel when it is refused |
| `Send`, `TurnedAway`, `ProviderReturns`, `BrokerTimesOut` | the broker, as the adapter can tell |
| `Answered`, `FailureAnswered`, `Unknown` | `settle` with the answer, with a failure nobody keeps, with `transport_or_protocol_unknown` |
| `Activate`, `Tick`, `Crash` | policy change, time, death of an adapter |

Each method reads the clock before it waits for the write lock, so a
transaction may use any reading between the caller's last one and the present.

*Where a property ends.*  `NeverFree`, `SlotHeld` and `AnswerKept` are stated
for calls that have one exchange at a time and a broker that answers once.
Outside of that the code does otherwise: after a cancel the safe retry, or an
overlapping second caller, meets the settled row and sends with no slot and no
charge (`shared_capacity.py:386`); when the broker answers TIMEOUT the slot is
freed while the provider may still run (`openclaw_model_adapter.py:1711`, which
`docs/reports/shared-model-capacity-slice-2026-09-10.md:26` lists as a known
limit).  The third setting of the run contains both.

### ModelBroker

*State.*  `file` is the journal on disk, `mem` its copy in memory, `run` where
`#admitAndRun` of an invocation is, `queue`, `reserved` and `active` the
counters the code keeps by hand, `lock` the journal operation in progress.
`Request`, `QueueTimeout`, the claim (`ClaimBegin`, `Rename`, ...), the call of the host,
`HostReturns`, `CompleteBegin` and `PersistEnd` follow one request; `Stop`,
`Start` and `Crash` the service; `Lapse` the TTL.  A journal write is a
temporary file and a rename, and may fail.

A *generation* (constant `Generations`) is one broker object with its own journal
object.  The service's `stop` closes the broker and its sockets and does not wait
for its runs (`broker/server.mjs:51-60`), and its `start` makes a new one
(`broker/plugin-definition.mjs:13-30`), so that two brokers of one process may be
at work on one file.  `RefuseClosed` is the second look of an admitted run at the
stop (`broker.mjs:378`).  `HostRefuses` is the typed error by which the host
refuses required controls after it was called: the broker answers it with the
proof that nothing was sent (`broker.mjs:578`), since the host promises to have
dispatched nothing to a provider then (README of the integration, lines 94-99;
`test/broker.test.mjs:510-536`).  So `sent` counts calls of the host, and `asked`
are the invocations a provider may have been asked for; that the host keeps its
promise is an assumption.  Branches the broker cannot reach change no state and
are left out.

*Where a property ends.*  A stopped broker's last rename writes its whole copy of
the journal over its successor's file; after a crash the successor's key is free
and the host is called again, against lines 46-47 of the integration's README
("a request left pending by a crash is reported as INDETERMINATE").  `HostOnce`
holds of every other record: `overwritten` are those that were written over in
this way (`WrittenOver`), and their calls are no longer counted.

### ConnectorRun

*State.*  `journal` and `payload` are the last event of a runner request,
`quota` and `chain` the reservation's settlement and its three recorded facts
(attempt, usage, cost), `shared` its row in the account capacity.  `run`, `fix`
and `scan` are the processes: the executor, `recover` and
`recover_orphaned_reservations`.  Every step between two transactions is an
action, and `RunStop`, `RecoverStop` end a process at any of them.

A request and its connector invocation are one, as every lane makes them.  The
executor's local limits, capability checks and transport appear as the choice
between a refusal and a success.  Recovery is started by hand, so there is no fairness;
instead of "it ends", `RecoverableOrStuck` states that a request that is not
accounted for is one a recovery can still take a step for (`Recoverable`: it can be
begun, or what it asks of the authority or the account next is not refused), or has
one of three named shapes: a dispatched call that was never journaled
(`connector_transport_executor.py:428`; `docs/CONNECTOR_PROTOCOL.md:97`), a
recovery that died between its attempt and its settlement (`:646`; lines 98-99), a
start journaled too late for its lease (`:427`; line 100).  In these shapes the
money is still right (`CallsAccounted` holds of them); it is the request that
stays open.  Calls with unknown outcome keep their slot of the account, by
design.

*Where a property ends.*  `recover` reads the journal and then gives a reserved
call back (`connector_transport_executor.py:565`); nothing stops it from being
run while the executor is between its reservation and its barrier.  With a
shared account policy the row of the account stops the executor
(`dispatched` at `:427` fails on a released row); without one the executor
dials under a released reservation, and the call ends uncharged.  The protocol
speaks of recovery after a crash (`docs/CONNECTOR_PROTOCOL.md:91-93`), so that
this is a limit of its use and not a contradiction: the charge of
`CalledStaysCharged` is stated under `RecoveryHeld`.  That the provider is
called once, the bound on the account and what a closed request rests on hold
without it.

### CockpitCall

*State.*  `work` and `outcome` are the Scheduler's view of the WorkOrder,
`holder` the lease-holder files, `admitted` and `settled` the ledger rows,
`pending` the pending-settlement files, `routes` the router's decisions,
`broker` the broker's journal.  `owed` and `unclear` are what the provider
really charged.  `call` are the processes, `replay` what they replay for
others, `op` the operator.

A caller goes through `Ask`, `RecordHolder`, `Drained`, `Route`, `Admit`,
`Send`, `Receive`, `RecordLink`, `Settle`, `Complete`, `Exit`, with the
branches the code has at each of them (a locked file, a disk that fails, a chain that
raises, an answer that is lost, the void of an admission that may have
landed).  `CapacityRaises` is the host's shared capacity failing around the exchange.
`ReclaimPick` to `ReclaimUnlink` and `ReclaimUnrecorded` are the two
reclaims of another caller's lease, `StartReplay` to `ReplayStops` the drain of
the pending registry, `PlanOrphan` to `RecoverUndispatched` the operator's two
tools, `Die` and `Lapse` the faults.

Callers are single-threaded and never restarted.  A lock covers a whole file.
The broker keeps every answer.  An uncertain link of the chain falls back only
for budget-class failures without telemetry.  The path of a single model without
a chain (`cockpit_model.py:3097-3233`) is not modelled.

Two assumptions are about time.  A lease is sized to outlast its call, so that
`Lapse` needs the caller to be past its work (`TimeIsUp`).  `ReclaimUnrecorded`,
the reclaim of a lease without a holder file, has no such guard: it compares
elapsed time only (`cockpit_model.py:909-914`) and may expire a call that still
walks its chain, as its docstring says (881-887).  In this release that takes a
holder file that could not be written.  What is taken on time there is the margin
of 5 seconds between a claim and its record (`:767-770`): a caller that has
claimed and not yet come to its record is not expired.

*Where a property ends.*

* `CallsCovered` (two callers, admission settled under a call): the second may be
  at the request while the first, which recorded no holder and was expired on
  elapsed time, is still in flight (`Unrecorded`).  The docstring of
  `expire_orphaned_lease` ("the work never has two attempts in flight") says
  more than its callers keep.  The operator's valuation of orphans may then
  settle the admission under the living call.
* `LedgerTruth` (settled at what was charged, or the reservation kept): a walk
  over the chain that raises after an exchange (`dropped`) leaves the settlement to
  the `finally` block, which knows only of earlier links.  The router may stay
  locked after an answer was served (`cockpit_model.py:3604`), or the settlement at
  the shared capacity raises after the answer came
  (`openclaw_model_adapter.py:1707-1714`, which nothing catches at
  `cockpit_model.py:3452`).  A paid answer then stands at zero in the ledger, or an
  uncertain one at the reservation.  The comment of that block (3641-3643) says
  otherwise, "missing telemetry cannot release the reservation": the code and the
  comment disagree.  Nor does the property speak of settings with the operator,
  whose tool may value an orphan whose own record has no response from a later
  attempt's record in its lease window (`cockpit_reservation_recovery.py:136`).
* `NothingStranded` (nothing left without somebody who can end it): the operator's
  recovery reserves the lease before it compares the ledger's settlement with what
  the broker metered (`model_interruption_recovery.py:135`).  When the two differ,
  because a cost was unknown or a walk dropped it, every repetition stops there and
  the lease stays reserved for ever.  `CannotAgree` names exactly these states; in all
  others the repetition agrees and ends the lease.

There is no liveness here: nobody is obliged to call again.  `NothingStranded`
says instead that every open reservation has a process, a pending file or a
tool that can still settle it, and that an interrupted recovery can begin again
and will not stop at the ledger but where `CannotAgree` says so.

### LaneChildren

*State.*  `ticket` are the ticket files, `proc` and `exit` the operating
system's view of the children, `writer` the launcher object (its handles, its
index of running tickets and the launch in progress), `scan` the startup
reconciliation of whoever opened a launcher, `outside` the controller, a request
that is in the writer and the drain.

`Start`, `ScanTicket`, `ScanSettle`, `Ready` are the constructor and
`reconcile_startup`; `Spawn`, `WriteTicket`, `TicketLost`, `Refuse` the launch;
`Status` the reap; `Drain`, `Stop`, `Crash` the end of a writer; `OpenReader`
the extraction children that open the launcher to read tickets; `ChildExits`,
`PidTaken`, `PidFreed` the operating system.  `Ask` is a request for a launch by
anybody who may make one: the controller's tick, and the owner's and the drivers'
doors of the writer (`writer_server.py:818-860`, `7145-7271`), which are open
while the controller is down.

All operations of a launcher run on the writer's one store thread.  Stat and read
of a ticket are one step, and so is one poll of the drain.  A zombie and a
reaped child are both "exited".

*Where a property ends.*  The first two are faults of `setting`, and the
property that meets one says so: a writer that dies between `Popen` and the
ticket leaves a child nobody knows of, and a second one may be launched
(`lane_child_launcher.py:716`, docstring at 300); a reader judges a child of
the living writer that has exited but is not reaped and calls it orphaned
(`:393`, `document_extraction_cli.py:203`).  The drain relies on the controller
being stopped first (`launch_drain.py:10-24`), but the controller is not the only
one who asks for launches: a request that was in the writer, or that an owner or
a driver makes after the last poll (`launch_drain.py:288`), launches a child that
the stop then kills.  `DrainedStopSparesTheSeen` says that these are the only
ones: `late` are the launches that ended after the drain had found nothing.  A
reader also writes the record as it read it: when the ticket was launched again
meanwhile, the running child's ticket is overwritten by an orphaned one, a drain
finds nothing running, and the stop after it kills the child, so the property is
about lanes no reader opens.  With a failing disk a living writer may give up the
handle of its child and settle it as orphaned later (`lane_child_launcher.py:445`);
a ticket called orphaned is that of a child that is gone (`TicketsTrue`), not
always of a writer that is.

A pid is handed out again only when nobody holds the handle of its child, that
of a launch between `Popen` and its ticket included (`subprocess` keeps the
zombie).

### LaneReentry

*State.*  The ticket and the summary beside it, the markers of the claim, the
completion, the grant and the refund, and the history of runs.  `Plan`,
`RefuseSpawn`, `Claim`, `Launch` and `LaunchFails` are `resume` and what it spends,
`Finish` is a child ending as one of `Fates`, `WriteGrant` the owner.

The names this module would share with `LaneChildren` (`ReentryInit`,
`runTicket`, `ChildFaults`, ...) carry a word more, since `LaneProofs` extends
both.

One authorization and no rebinding of a ticket.  *Where a property ends*: a
child that is killed leaves the summary of an earlier run, by which it is
judged and granted a second automatic run (`lane_reentry_claim.py:128`,
docstring at 19-21); the grant is spent before the launch is refused
(`mission_document_research_launcher.py:348`, docstring of
`lane_reentry_claim.py:286`).

## Runs

| run | instance | checked |
|---|---|---|
| `scheduler_connector` | 2 callers, 1 connector WorkOrder, 2 attempts, leases of 1 with one renewal, clock to 2 | `HistInv`, `OneOutcomePerAttempt`, `FormalResultStands`, `ReceiptsMatchLog`, `ImplementsLifecycle`, `NoEarlyExpiry`, `StaleTokenFenced` |
| `scheduler_model` | 2 callers, one of them kept alive, 1 model WorkOrder, 2 recovery plans, clock to 3, `FairSpec` | `CurrentLeaseIndexExact`, `ImplementsLifecycle`, `ReservationHeld`, `LostOrAnswered`, `LeaseIsReleased` |
| `scheduler_retry_at` | as `scheduler_connector`, retry delay 2 | `RetryAtHonoured`: violated |
| `budget_ledger` | 2 environments, 4 requests of 2 missions and none, 2 policy versions, 2 days, one peer sometimes unreadable | `CapsBind`, `OpenWithinOneDay`, `DecisionsStand`, `SharedCapPerLedger` |
| `budget_pools` | 1 ledger, 3 coverage calls and 1 event call, loans after midday, costs of 0, 1 and 3 | `PoolsLendOnce` |
| `budget_shared` | 2 environments, 3 requests, 1 day | `SharedCapHolds`: violated |
| `capacity` | 3 calls over two days under one policy; 2 calls while the policy changes; 2 calls with a retry, an overlapping caller and a broker that times out | `OnTheBooks`, `ConcurrencyBound`, `DayBound`, `SettledIsFinal` |
| `broker` | 2 broker objects that may overlap in one process, 2 invocations, 1 at the host, a queue of 1, room for 1 record, `FairSpec` | `Consistent`, `HostOnce`, `NotSentIsTrue`, `RunsEnd` |
| `connector` | 1 request with 2 reservations and recoveries beside its executor; 1 with 3 and no account policy; 1 with 2 and recoveries beside its executor without a policy; 2 requests on 1 slot of the account | `CallsAccounted`, `AccountBound`, `ClosedOverFacts`, `RecoverableOrStuck` |
| `cockpit` | 2 callers: one attempt, a chain of 2 links that may cost more than it reserved, every lock, a failing shared capacity and disk; two attempts with a locked Scheduler and holder files that cannot be written; two with settlements lost to a locked ledger; two with the operator's tools and a failing capacity and disk | `CallsCovered`, `LedgerTruth`, `AbandonedStands`, `NothingStranded` |
| `lane` | 2 tickets with 2 deaths of the writer, reused pids and a failing disk; drained stops; a reader beside a living writer, and beside one that ends; 1 ticket with a reader, pid reuse and the launch window; `FairSpec` | `OneChild`, `TicketsTrue`, `DrainedStopSparesTheSeen`, `SlotComesBack` |
| `reentry` | 5 runs and 2 grants: no fault, killed children, killed children and the launch window; `FairSpec` | `AutomaticOnce`, `RunsAreEarned`, `ClaimIsRedeemed` |

Where the code keeps several facts of one kind true together, one property
names them together.  `Consistent` (broker) is `SlotsExact`, `NoLostWakeup` and
`RunMatchesRecord`; `CallsAccounted` (connector) is `OneCall` and
`CalledStaysCharged`; `CallsCovered` (cockpit) is `OneInFlight` and
`SentUnderReservation`, `NothingStranded` is `OpenHasKeeper` and
`RecoveryCanBeRepeated`; `RunsAreEarned` (re-entry) is `RunsArePaid` and
`RefundIsEarned`; `OnTheBooks` (capacity) is `ExpiredNeverSent`, `NeverFree`,
`SlotHeld` and `AnswerKept`; `CapsBind` (budget) is `PolicyCapBinds` and
`MissionCapsBind`, `DecisionsStand` is `RejectionIsFinal`.  One of each module's
also holds the module's `TypeOK`.

*What to look at first*: `NoEarlyExpiry` (stale readings against renewals),
`StaleTokenFenced` and `OneOutcomePerAttempt` (worker, journal and operator
racing for one attempt), `LostOrAnswered` (a lease taken from a holder that
lives), `FormalResultStands` (an attempt exhausted by expiry
may still succeed through its journal), `ReservationHeld`, `OpenWithinOneDay`,
`PoolsLendOnce`, `OnTheBooks`, `HostOnce`, `LedgerTruth`, `RecoverableOrStuck`,
`OneChild`.

*Why the bounds are enough.*

* Scheduler: two attempts let an attempt expire, be claimed again and be met by
  the token and by the journaled result of the first; they also reach the cap,
  where exhaustion and a late result meet.  Two callers are the worker and
  whoever takes over.  A lease of one unit with one renewal and a clock that
  reaches 2 gives a reading before, at and after each expiry, and a reading that
  is one lease old.  `LastClaim` and `MaxLog` only bound how late leases are
  asked for and how often two plans may replace each other's reservation.  One
  WorkOrder is enough for the properties of one log; what several share (the
  lease table, the index, the token numbers) is what `IndInv` (part of
  `HistInv`) is about, and it is proved for any number of them.
* Ledgers: reservations and caps are chosen so that each cap is reached exactly
  and passed by one, and a loan needs two lenders.  Costs above the reservation,
  free calls, corrections and frozen overruns happen in `budget_pools`; in
  `budget_ledger` every call costs 1, of reservations of 1 and 2.
* Capacity: a day has room for the big call or for the two others, one policy is
  narrow in slots and the other in calls, and `Window = DayLength = 1` lets a
  reservation expire in the next day.
* Broker: two invocations are one more than the host takes, one of which may
  wait, and one more than the journal has room for, so that eviction and a
  repeated request of an evicted record both happen; two broker objects are the
  stopped one and its successor (the theorems are about any number).
* Connector: three reservations let a request be refused, recovered and tried
  again; the account has one slot.
* Cockpit: two attempts, so that an orphan of the first meets the second; a
  caller that settles for another needs two callers.  The chain of two links runs
  with one attempt, which two callers already reclaim and replay; a walk whose
  earlier link is in doubt and whose later one raises needs it.
* Lane: two runs, so that the second launch can meet the child, the ticket and
  the pid of the first; two deaths, so that a startup is itself cut short.
* Re-entry: each kind of run (claim, completion, refund, two grants) fits once.

*Deadlock* is checked in `broker` and `lane`.  Elsewhere clocks, calendars and
runs are bounded, and a finished request has nothing left to do.

*Fairness.*

* Scheduler (`scheduler_model`).  Time passes.  The controller is kept running
  by launchd (`KeptAlive`) and its loop (`service.py`, `_poll_sweep`) starts a
  sweep as soon as the previous one ended: weak fairness of its `Begin`.  A
  method never waits for ever, the busy timeout ends it: weak fairness of
  `Return`.  A sweep may lose the lock to others and be retried; that it does not
  lose every time is assumed as strong fairness of `Sweep`.  Nothing is assumed
  of workers, recoveries, operators or brokers, and claims stop at `LastClaim`,
  so that time can run past every lease.
* Broker.  A write ends well or badly, the host answers or its timeout fires,
  queue timers fire.  The journal's operations are chained on one promise, so
  every waiter gets its turn: strong fairness of taking it.
* Lane.  The service manager restarts the writer, its one store thread goes on
  with what it began, ticks ask for the status of what they wait for, children
  have time limits.  Not assumed: that anybody launches, or that a drain is
  successful.
* Re-entry.  Ticks keep coming (`Plan`) and are not refused for ever (strong
  fairness of `Claim` and `Launch`).
* No fairness in `cockpit` and `connector`: nobody is obliged to call again, and
  recoveries are started by hand.  `NothingStranded` and `RecoverableOrStuck` say
  instead that the guard of the step which would end a matter is true, by the name
  the action has for it (`Completed`, `MayRelease`, `Dispatched`, `IsNext`...): what
  `ENABLED` would say, in a form that can be proved.

## Findings

* `scheduler_retry_at`: `docs/CONNECTOR_PROTOCOL.md:393` hands the `retry_at`
  of a 429 back to the Scheduler as `not_before`.  When the journaled result is
  reconciled after its lease expired, the Scheduler keeps the `not_before` of
  the attempt the expiry opened (none), and the next attempt is leased early.
* `budget_shared`: `shared_daily_budget.py:9-12` says a call is refused when
  the shared cap would be passed.  The peers' ledgers are read before the write
  lock and without one of their own, so two environments can both be admitted
  on the same headroom.  What does hold is `SharedCapPerLedger`: each
  environment alone stays within the shared cap.

Three more places where the code and a text beside it disagree are described where
they meet a property, and each is named in the statement of that property:
a walk that raises after its answer settles at zero, against the comment at
`cockpit_model.py:3641-3643` (`LedgerTruth`); two attempts of one request may be in
flight after a reclaim on elapsed time, against the docstring of
`expire_orphaned_lease` (`CallsCovered`); a stopped broker may write over a pending
record of its successor, against the integration's README, lines 46-47
(`HostOnce`).  The last two take a failing disk, or a restart of the plugin beside
runs that go on.

Smaller limits that the documents already admit, or that a property had to be
stated around, are under *Where a property ends* of each module.

## Proofs

`SchedulerProofs` proves, for any sets of WorkOrders, callers and
reservations, any caps, lease lengths and delays that satisfy the assumptions
of `Scheduler` (positive policy numbers, maximal lease within the total
lifetime, the two kinds of WorkOrders disjoint):

* `IndInvariant`: `Spec => []IndInv`;
* `TypeCorrect`: `Spec => []TypeOK`;
* `IndexExact`: `Spec => []CurrentLeaseIndexExact`;
* `ClaimedOnce`: `Spec => []AttemptClaimedOnce`.

Neither the index nor the claim property is inductive.  That an attempt is
claimed once needs to know that a *ready* row always carries an attempt number
above every lease so far (`LogOK`), which in turn needs every lease to have its
leased event in the log and every leased event its lease; the index needs the
lease of the last event to exist with at least one revision (`LeasesOK`); and
the recoveries, which act on evidence from elsewhere, need every sent call and
every journaled answer to name an existing revision (`SentOK`).  `IndInv` is
the conjunction of these with `TypeOK`; TLC checks it in `scheduler_connector`
as the first part of `HistInv`.

The proof is one lemma per action (`StepEnqueue`, `StepClaim`, ...), resting on
lemmas about appending rows to one log (the log that is appended to stays
within the cap and newer than the leases, the others are untouched) and on the
expiry of many leases at once; `NextIndInv` collects them.

Its second and third part prove, from the same assumptions:

* `HistoryInvariant`: `Spec => []HistInv`;
* `OneOutcome`: `Spec => []OneOutcomePerAttempt`;
* `ResultStands`: `Spec => []FormalResultStands`;
* `NeverExpiresEarly`: `Spec => NoEarlyExpiry`: a lease expires only when its newest
  revision has run out, except that of a model call, which a recovery may end
  earlier, but not under an operator's reservation;
* `ExpiredIsFenced`: `Spec => []LostOrAnswered`, which is what protects the request
  when that recovery was wrong about the holder;
* `TokenFenced`: `Spec => StaleTokenFenced`;
* `ReservationIsHeld`: `Spec => ReservationHeld`;
* `ReceiptsMatch`: `Spec => []ReceiptsMatchLog`;
* `Implements`: `Spec => ImplementsLifecycle`, the refinement of `WorkLifecycle`.

`IndInv` says nothing of what happened to an attempt, so `HistInv` adds it: an
attempt that waits or runs is newer than every attempt that is over; a leaseless
*failed* row was leased before; an attempt that expired has an outcome only if
the journal reconciled it, which a receipt records (this is what keeps a late
result from being accepted twice); the formal result is the last row and the
only final outcome (`HistoryOK`).  Around the logs it needs that a reservation
is put only on a sent model call (`HeldOK`), that a reading of the clock is
never ahead of it, that leases are granted in the order of attempts
(`LeaseOrder`), and that the broker's answers are final (`AnswersOK`).

Proving that action by action would repeat the same argument in every method
that ends an attempt.  Instead, `EveryMove` shows once that every
action moves each WorkOrder in one of eight ways (`Moves`: it stays, opens, is
granted, lost, lost and granted again, reserved, reports, or reports late), and
every theorem is then a case analysis over these moves: `HistoryStep` for the
invariant, `EveryAddition` for the events a step may add, `MoveMapped` for the
step of the abstract life cycle.

`ReceiptsMatch` needs no invariant beyond `HistInv`: each action tells nothing new,
or the same outcome to the log and to the receipts (`EveryStepTells`), which is
where a receipt filed under the wrong attempt would fail.

* `LeaseTerm`: `Spec => []LeasesRunOut`, the safety half of `LeaseIsReleased`: a lease
  ends within `max_total_lease_seconds` of its issue, by any chain of claims and
  renewals with stale readings (`Termed`, which each of the two kinds of steps
  that touch a lease keeps), and from then on every probe of the index names its
  WorkOrder, the probe being exact (`ProbeIsExact`).  The probe's limit of 256 is
  not modelled.

`SharedCapacityProofs` proves, for any sets of calls and policies, any caps,
reservations and costs, any number of retries and overlapping callers, and a
clock without bound:

* `CapacityInvariant`: `Spec => []IndInv`, its own inductive invariant;
* `BooksAreTrue`: `Spec => []OnTheBooks`;
* `SettlementStands`: `Spec => SettledIsFinal`;
* `SlotsAreBounded`: `Spec => []ConcurrencyBound`;
* `DaysAreBounded`: `Spec => []DayBound`.

What is on the books cannot be seen from the rows alone: whether a row may be
expired, cancelled or settled at zero depends on where its callers are.  The
invariant therefore says of each call that an undispatched row has nobody at
the broker (`UndispatchedUnsent`), that a settled one carries the outcome of a
settlement (`SettledOutcome`), that a caller goes on under the policy of its
row (`PolicyKept`), and, for a call with one exchange at a time, how the
positions of its two callers and the row fit together (`OneCaller`) and that
the row is settled by what the provider answered (`AnswerSettles`).  Each of
these speaks of one call, so a step of another call leaves it alone
(`Untouched`), and each action has one lemma for the call it moves; the lemma
for `ReserveCapacity` also has the rows it expires.  The bound on slots needs
no invariant of its own: the set of open rows grows only in `ReserveCapacity`
(`OpenGrows`), under the comparison with the caps, and the rest is arithmetic
of finite sets.  The bound on days is the same argument on sums: each step moves
a row on or books one (`RowMoves`), a row that moves on draws no more than before
(`DayShrinks`), and a row that is booked was compared with the caps over rows
that are charged at least what they draw (`DayBooked`).

The sums of the ledgers are `MapThenSumSet` of the community modules, a function
defined by recursion on subsets.  `FiniteSums` proves what is needed of it: such a
function exists and is unique on a finite set, whichever element it takes next
(`SumExists`, `SumUnique`, `SumRemove`), so that a sum grows by what is added and
shrinks with its terms and its set (`TotalAdd`, `TotalMono`, `TotalPart`).  The
inductions are over the sets of numbers or subsets with the property, with the
well-founded order of the library, since an induction rule with an operator as its
parameter cannot be used here.

`DayBudgetProofs` proves, for any finite sets of environments and requests, any
missions, pools, caps, costs and policies, any number of days and any peers that
cannot be read:

* `LedgersAreKept`: `Spec => []IndInv`;
* `CapsAreKept`: `Spec => []CapsBind`;
* `OpenIsWithinOneDay`: `Spec => []OpenWithinOneDay`;
* `DecisionsAreFinal`: `Spec => []DecisionsStand`;
* `SharedCapIsKeptPerLedger`: `Spec => []SharedCapPerLedger`;
* `PoolsLendOnlyOnce`: `Spec => []PoolsLendOnce`.

`BudgetAssumption` asks that the sets are finite, that caps, reservations and costs
are numbers, that a mission's caps are within the outer budget and that the pools of
a mission are within its cost.  The caps are stated over what an admission *draws* (its
reservation, or less once settled lower), and they are inductive as they stand,
once it is known that no correction lowers a charge (`Raised`) and a reading that
waits for the lock is of a real day (`CallsDated`): `admit` compares with what is
*charged*, which is at least what is drawn (`DrawsCharged`).  So every step but `Admit`
is `Quiet`, nobody draws more than before, and `AdmitRoom` says in one place what
the checks of an admission leave room for, for any part of the rows they counted:
its day, its mission, all bound calls, the open ones of other days.  For the pools,
`allocate_borrow` takes what is needed exactly or nothing and no more than is offered
(`AllocateIs`), so that a borrower's pool gains what it lacks and a lender had it to
give (`AdmitPool`).

`ModelBrokerProofs` proves, for any finite set of invocations, any generations
and any limits:

* `BrokerConsistent`: `Spec => []Consistent`;
* `HostCalledOnce`: `Spec => []HostOnce`;
* `NotSentProved`: `Spec => []NotSentIsTrue`.

`Consistent` becomes inductive with the contents of the queue (`QueueExact`:
the queued requests, each once, and nobody queued in a broker that does not
serve): `ReleaseAndDrain` moves a prefix of the queue, and its new counters
are the cardinalities of the moved sets only if that prefix has no entry twice.
`KeptInv` adds what the journal promises.  One broker serves at a time, and it is
the last that was started (`Serving`); while an operation has a journal lock, what
it writes is the memory of its own object (`Snapshot`).  An invocation the host was
called for and that is not forgotten has its record on disk (`OnDisk`) and in the
memory of the last broker (`InMemory`), and not as refused when a provider may have
been asked, so that no run that is about to call the host can be one of those.  The runs of a stopped broker call no host any more;
what they can do is write, and what that replaces is `overwritten`.  The subtle
steps are a rename that lands before the write is reported failed, an eviction that
takes the record of another invocation (by a stopped broker, from a copy), and the
start that reads back a file a crash left half-way.

* `NobodyStuck`: `Spec => []NoRunIsStuck`, the safety half of `RunsEnd`: the lock of
  the journal is held exactly while one run writes
  (`WriterAlone`), through every way a write may end, a stop and a crash, so that a
  run that cannot move waits for a write that can end; and a run that needs the lock
  finds the record it expects when it gets it (`Match`).

`ConnectorRunProofs` proves, for any finite set of requests, any number of
reservations and slots, and any settings, recoveries beside a live executor
included:

* `ConnectorInvariant`: `Spec => []RunInv`;
* `CallsAreAccounted`: `Spec => []CallsAccounted`;
* `AccountIsBounded`: `Spec => []AccountBound`;
* `ClosesOverFacts`: `Spec => []ClosedOverFacts`;
* `RecoveryIsNotRefused`: `Spec => []RecoverableOrStuck`.

None of the first three properties is inductive: whether a call may be made, charged
or closed depends on where two processes and a journal are.  `RunInv` says it
for one request at a time: where the executor is, the journal has been
(`Executor`); whose work the recovery does and what it has seen (`Recovery`); a
call is under the reservation the journal names and its start was journaled
before (`CallMade`); what is charged for each reservation, by the position of
either process (`Charged`); what a request that is closing rests on (`Closed`).
Then a step moves one request (`StepOf`) and is for every other an environment
(`Env`) that can only end its rows the way time, the account's owner and the
scan of orphans do, which `EnvKeeps` shows harmless once; each action has one
lemma for its own request.  The bound on the account follows from `Slots`, since
every call the provider works on holds a slot (`Charged`).

`RecoverableOrStuck` says of every place a recovery can stand at that the guard of
its next call is true, or the request has one of the three shapes.  It rests on
`HelpInv`: the account has a row for what the journal names, dispatched once the
journal says so (`Rowed`); only a commit over an observed outcome writes a commit's
facts (`Authored`); a recovery nobody disturbs has recorded what it has passed
(`Follows`); and the scan of orphans runs alone (`Alone`).  `NextIsTaken` is the case
analysis over the places.

Of `LaneChildren`, `LaneProofs` proves, for any finite set of tickets, any readers,
number of launches and ends of the writer, and any faults:

* `LaneInvariant`: `Spec => []LaneInv`;
* `OneChildAtATime`: `Spec => []OneChild`;
* `TicketsAreTrue`: `Spec => []TicketsTrue`;
* `DrainedStopIsSafe`: `Spec => []DrainedStopSparesTheSeen`.

One child at a time rests on different knowledge in different lives of the lane.
While no writer has ended, the launcher knows the last child it started
(`KnownByWriter`).  After that it rests on the disk (`KnownByTickets`): every live
child is on a running ticket or is the launch in progress, and a running ticket
whose child lives is, in a writer that serves, under its handle or in the running
set; in one that starts, still to be scanned or found running; and if it is no
newer than the marker, among those the marker carries, without which the next
start would skip it.  A scan may settle a ticket long after it read it, so what it
holds is over (`ScansJudge`), and without readers it is still what the ticket
says.  That tickets tell the truth holds with readers and every fault, since what
is written is a judgement of one run (`Judged`), whose end is final.
`KnownByTickets` is false when a writer may die in the launch window, and when a
reader writes an old record back; the properties say so.  For the drained stop,
`DrainHolds` says of every handle that its child is over, or its launch ended after
the drain had looked: while a handle stands its ticket is running, so the drain
would have waited for it.

Of `LaneReentry` it proves, for any `MaxReentries` and `MaxGrants` and either fault:

* `RunsEarned`: `Spec => []RunsAreEarned`;
* `AutomaticAttemptOnce`: `Spec => []AutomaticOnce`.

Counting runs against what paid for them is not inductive, since a plan that was
decided (`step`) has taken its payment and launched nothing yet; `Account` counts it
as a run that is owed.  `AutomaticOnce` needs that the ticket and the summary
`Consumed` and `Refundable` read are those of the last run (`LastRun`,
`LastIsGranted`) and counts an owed or a systemically failed last run as an attempt to
come (`AttemptsPaid`); it is this that breaks when a child leaves no summary.

* `UnspentClaimRedeemable`: `ReentrySpec => []ClaimCanBeRedeemed`, the safety half of
  `ClaimIsRedeemed`, under every fault.  Its invariant `NothingBought` says that until the
  first launch the files are those of the first run, whose ticket is older than the
  claim, so that no plan but the claim and its redemption is open.

`CockpitCallProofs` proves, for any finite set of callers, any number of attempts,
links and other calls, any reservation and finite set of costs, and any settings:
locked files, a disk that fails, the operator's tools:

* `CallInvariant`: `Spec => [](CallInv /\ Metered)`;
* `CallsAreCovered`: `Spec => []CallsCovered`;
* `LedgerIsTrue`: `Spec => []LedgerTruth`;
* `AbandonedCompletionsStand`: `Spec => []AbandonedStands`;
* `OpenAdmissionsAreKept`: `Spec => []OpenHasKeeper`;
* `RecoveriesRepeat`: `Spec => []RecoveryCanBeRepeated`;
* `NothingIsStranded`: `Spec => []NothingStranded`, which is the last two.

None of these properties is inductive.  That a call is covered depends on five
stores and on where every other process is.
`CallInv` says it from two sides.  The stores (`Stores`): nothing has happened under
an attempt nobody claimed, only the current one is open (`Schedule`), whatever waits to
be written is about a claimed attempt (`Waiting`), and the provider charged no more
than the routed links can cost (`Charged`).  Each process (`Own`): it has the lease of
its attempt, or was expired on elapsed time without a record (`Unrecorded`), and a
holder file of nobody else (`Holds`); its position says what the ledger, the router
and the broker have of it (`Walks`).  The part that carries the proof is
`Untold`: while a process is on its walk, no pending file and no replay holds an amount
for its attempt, so none can settle an admission under a call in flight; every replay,
reclaim and recovery starts from an attempt whose caller is past its walk or dead.
An operator may value the attempt of an unrecorded walker, and only that.  `Apart`
keeps the processes on different attempts.

`LedgerTruth` adds what a caller knows of the cost (`Reckons`): it is in doubt only of
an attempt that is `unclear`, and otherwise has heard of every charge.  What it decides
to settle is `Final`, and stays so in the pending file, in a replay and in the ledger
(`Closed`), since `owed` does not grow once the broker is done, and a process that
heard an answer finds it done (`Heeds`).  `Final` has the exceptions of the property:
a walk that raised (`dropped`) and, with the operator, the attempts whose valuation
may miss a call (`Loose`).  It is said while the operator and an unrecorded caller
have not met (`Truthful`).  `Keepers` strengthens `OpenHasKeeper` by the
records that are done with: a record is removed only after its admission was settled.
What the operator values an orphan at is a sum over its calls, for which `FiniteSums`
is used.

`RecoveryCanBeRepeated` rests on `Recoverable`: a lease is reserved only
for a dead process with a durable proof (`Provable`), and nobody works under a
reserved lease who could change what the proof consists of, unless it was expired
under him (`Clean` says that nobody was).  That the repetition then meets a
settlement it agrees with, or one of the two states of `CannotAgree`, needs `Metered`:
with one route the broker's journal says what the provider charged.

Each action has one lemma, and a few lemmas say once what a kind of step leaves alone
for everybody else: a process moves and no store does (`Moves`), the attempt under
lease ends (`Ended`), a holder file changes (`FileChanges`), settlements and pending
records change about an attempt nobody walks (`BooksChange`).

Only model-checked: `ClaimIsRedeemed`, `LeaseIsReleased`, `RunsEnd` and
`SlotComesBack`, since liveness is out of the prover's reach.  Of the first three the
part that is not about fairness is proved, in the form of invariants the proof modules
state (`ClaimCanBeRedeemed`, `LeasesRunOut`, `NoRunIsStuck`).  Every other property of a
passing run, each safety invariant and each action property, is the statement of a
theorem.

## Not modelled

The repository is large (over 550 000 lines), and most of it is content rather
than control: prompts, schemas of research documents, domain inserts into the
core store, selection and ranking rules, web pages and their projections,
formatting, setup and installation, migrations, tests and fixtures.  A model of
those would restate them.  What is modelled is the path that several processes
share and that has to survive their deaths: who may run an attempt, what it may
spend, what is sent, and what counts.

On that path these are left out:

* the delivery of budget alerts to the owner; the probe limit of 256 leases;
  the failure ledger of the lanes and its backoff; the rebinding of a ticket to
  a new configuration;
* the controller's tick, a fixed order of independent polls, and its singleton
  lock, one `flock`;
* the planner loop and the plan executor, sequential in one process, whose
  executions go through the Scheduler;
* the writer's handlers: one store thread runs them one after the other, and
  nearly all are inserts of documents;
* the web-search broker, whose journal and queue are those of the model broker;
* content hashes, token hashes and hash chains, which stand for the facts they
  authenticate.

Next in line would be the failure ledger (as part of `LaneChildren`) and the probe
limit as a parameter of `Scheduler`.
