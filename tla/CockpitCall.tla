----------------------------- MODULE CockpitCall -----------------------------
(***************************************************************************)
(* One paid call of the cockpit, from the claim of its attempt to the      *)
(* completion, over four stores that share no transaction: the Scheduler,  *)
(* the day ledger, the lease-holder files beside the Scheduler and the     *)
(* pending-settlement files beside the ledger.  Several processes ask for  *)
(* the same request; any of them may die between two steps, and a locked   *)
(* file makes any write give up after its bounded retry.                   *)
(*                                                                         *)
(* The operator's two tools are part of the picture: the settlement of     *)
(* orphaned reservations and the recovery of an interrupted model call.    *)
(* The Scheduler is reduced to what Scheduler.tla shows of it: one attempt *)
(* is leased at a time and one outcome ends it.  A cockpit lease is never  *)
(* renewed, so an attempt has one lease revision.                          *)
(***************************************************************************)
EXTENDS Integers, FiniteSets, FiniteSetsExt

CONSTANTS
    Callers,      \* processes that ask for the request
    Others,       \* cockpit calls for other requests on the same ledger
    Nobody,       \* no process
    MaxAttempts,  \* bound on the attempt cap of the WorkOrder
    Reserve,      \* the chain's ceiling, reserved by the one admission
    Settings      \* the settings a behaviour may run under

ASSUME CockpitCallAssumption ==
    /\ IsFiniteSet(Callers) /\ IsFiniteSet(Others)
    /\ Nobody \notin Callers \cup Others
    /\ MaxAttempts \in Nat \ {0}
    /\ Reserve \in Nat \ {0}
    /\ \A s \in Settings :
          /\ s.cap \in 1 .. MaxAttempts /\ s.links \in Nat \ {0}
          /\ IsFiniteSet(s.costs) /\ s.costs \subseteq Nat
          /\ s.locks \subseteq {"scheduler", "budget", "router", "capacity"}
          /\ s.others \subseteq Others
          /\ {s.disk, s.operator} \subseteq BOOLEAN

VARIABLES
    work,      \* last Scheduler event: state, attempt, operator's reservation
    outcome,   \* how each attempt ended
    holder,    \* the lease-holder file of each attempt
    admitted,  \* attempts with an admission in the day ledger
    settled,   \* what each admission was settled at, or Unset
    pending,   \* the pending-settlement files
    routes,    \* the router's decisions for each attempt
    broker,    \* the model broker's journal of each attempt
    owed,      \* what the provider really charged for each attempt
    unclear,   \* attempts with a call whose cost nobody was told
    dropped,   \* attempts whose walk raised and took an answer along untold
    call,      \* the processes
    replay,    \* the pending record each process is replaying
    op,        \* the operator
    setting    \* what the behaviour runs under

scheduler == <<work, outcome>>
ledger    == <<admitted, settled>>
truth     == <<owed, unclear, dropped>>
wire      == <<routes, broker>>
vars == <<work, outcome, holder, admitted, settled, pending, routes, broker,
          owed, unclear, dropped, call, replay, op>>

Cap      == setting.cap      \* the attempt cap of the WorkOrder
MaxLinks == setting.links    \* length of the fallback chain
Costs    == setting.costs    \* what a provider may charge for one call
Locks    == setting.locks    \* files that may stay locked longer than a retry waits
DiskFails == setting.disk    \* a registry file may fail to be written
Operator == setting.operator \* the operator's tools run

Attempts == 1 .. MaxAttempts
Unset    == -1
Results  == {"succeeded", "failed", "retryable"}
Endings  == {"served", "over", "free", "unclear"}

NoFile   == [status |-> "none", by |-> Nobody, result |-> "failed"]
NoReplay == [kind |-> "none", attempt |-> 1, amount |-> 0, written |-> FALSE]
NewCall  == [pc |-> "off", attempt |-> 0, heard |-> "free", cost |-> 0,
             doubt |-> FALSE, amount |-> 0, result |-> "failed", raising |-> FALSE,
             closing |-> FALSE, seen |-> 0, freed |-> FALSE, old |-> 0]
NewOp    == [pc |-> "idle", attempt |-> 0, amount |-> 0, seen |-> Unset]

\* Between the claim and the end of the guarded block.
Steps == {"claimed", "drain", "route", "admit", "void", "send", "wait", "link",
          "settle", "keep", "finish", "abandon", "exit"}
Working(p) == call[p].pc \in Steps

Init ==
    /\ work = [state |-> "ready", attempt |-> 1, reserved |-> FALSE]
    /\ outcome = [a \in Attempts |-> "none"]
    /\ holder = [a \in Attempts |-> NoFile]
    /\ admitted = {}
    /\ settled = [a \in Attempts |-> Unset]
    /\ pending = {}
    /\ routes = [a \in Attempts |-> 0]
    /\ broker = [a \in Attempts |-> [state |-> "none", cost |-> 0, dirty |-> FALSE]]
    /\ owed = [a \in Attempts |-> 0]
    /\ unclear = {}
    /\ dropped = {}
    /\ call = [p \in Callers |-> NewCall]
    /\ replay = [x \in Callers \cup Others |-> NoReplay]
    /\ op = NewOp
    /\ setting \in Settings

-----------------------------------------------------------------------------
(* The Scheduler and the ledger, as this code uses them *)

\* Attempt a is leased and its token may still decide it.
Leased(a) == work.state = "leased" /\ work.attempt = a /\ ~work.reserved

\* One transaction ends attempt a: a formal result, or the next attempt while
\* the cap allows one.
EndAttempt(a, o) ==
    /\ outcome' = [outcome EXCEPT ![a] = o]
    /\ work' = IF o \in {"succeeded", "failed", "recovered"} \/ a >= Cap
               THEN [state |-> "done", attempt |-> a, reserved |-> FALSE]
               ELSE [state |-> "ready", attempt |-> a + 1, reserved |-> FALSE]

\* settle: the first amount stands; the same one is a duplicate, another one
\* is refused.
LedgerSettle(a, n) ==
    settled' = [settled EXCEPT ![a] = IF @ = Unset THEN n ELSE @]

\* The lease is sized to outlast the call it covers.
TimeIsUp(a) == \A p \in Callers : Working(p) => call[p].attempt # a

\* The lease runs out and a claim or a sweep expires it.
Lapse ==
    /\ Leased(work.attempt) /\ TimeIsUp(work.attempt)
    /\ EndAttempt(work.attempt, "lapsed")
    /\ UNCHANGED <<holder, ledger, pending, wire, truth, call, replay, op>>

Goto(p, pc) == call' = [call EXCEPT ![p].pc = pc]

\* The call returns or raises; what remains is the process and, for whoever
\* looks for it, the attempt it had.
Leave(p, pc) ==
    call' = [call EXCEPT ![p] = [NewCall EXCEPT !.pc = pc, !.attempt = call[p].attempt,
                                     !.old = call[p].old]]

-----------------------------------------------------------------------------
(* Claiming, and reclaiming what a gone holder left *)

\* A process starts; it remembers which lease is older than itself.
Start(p) ==
    /\ call[p].pc = "off"
    /\ call' = [call EXCEPT ![p].pc = "idle",
                   ![p].old = IF work.state = "leased" THEN work.attempt ELSE 0]
    /\ UNCHANGED <<scheduler, holder, ledger, pending, wire, truth, replay, op>>

\* _call_once claims the attempt, or finds it leased and looks for its holder.
Ask(p) ==
    /\ call[p].pc = "idle"
    /\ \/ /\ work.state = "ready"
          /\ work' = [work EXCEPT !.state = "leased"]
          /\ call' = [call EXCEPT ![p] = [NewCall EXCEPT !.pc = "claimed", !.old = call[p].old,
                                                         !.attempt = work.attempt]]
       \/ /\ work.state = "leased"
          /\ Goto(p, "reclaim")
          /\ UNCHANGED work
    /\ UNCHANGED <<outcome, holder, ledger, pending, wire, truth, replay, op>>

\* The guard's __enter__ writes who holds the lease; a failed write is printed.
RecordHolder(p, ok) ==
    /\ call[p].pc = "claimed" /\ (ok \/ DiskFails)
    /\ holder' = IF ok THEN [holder EXCEPT ![call[p].attempt] =
                                [NoFile EXCEPT !.status = "held", !.by = p]]
                 ELSE holder
    /\ Goto(p, "drain")
    /\ UNCHANGED <<scheduler, ledger, pending, wire, truth, replay, op>>

\* Mutant: every recorded holder is taken for gone.
GoneAny(f) == f.status # "none"

\* holder_gone: it says itself that it gave up, or its process does not exist.
Gone(f) == \/ f.status = "abandoned"
           \/ f.status = "held" /\ call[f.by].pc = "dead"

\* A file of a holder that is gone is taken up.
ReclaimPick(p) ==
    /\ call[p].pc = "reclaim"
    /\ \E a \in Attempts :
          /\ Gone(holder[a])
          /\ call' = [call EXCEPT ![p].pc = "free", ![p].seen = a,
                         ![p].heard = holder[a].status, ![p].result = holder[a].result]
    /\ UNCHANGED <<scheduler, holder, ledger, pending, wire, truth, replay, op>>

\* Mutant: an abandoned attempt is expired like a dead holder's.
ReclaimCommitExpires(p) ==
    /\ call[p].pc = "free"
    /\ IF Leased(call[p].seen) THEN EndAttempt(call[p].seen, "expired")
                               ELSE UNCHANGED scheduler
    /\ call' = [call EXCEPT ![p].pc = "unlink", ![p].freed = Leased(call[p].seen)]
    /\ UNCHANGED <<holder, ledger, pending, wire, truth, replay, op>>

\* Either the holder's own completion, verbatim (a duplicate when somebody
\* else has committed it), or the compare-and-set expiry of its lease.
ReclaimCommit(p) ==
    LET a == call[p].seen
        given == call[p].heard = "abandoned"
    IN /\ call[p].pc = "free"
       /\ IF Leased(a) THEN EndAttempt(a, IF given THEN call[p].result ELSE "expired")
                       ELSE UNCHANGED scheduler
       /\ call' = [call EXCEPT ![p].pc = "unlink",
                      ![p].freed = Leased(a) \/ (given /\ outcome[a] = call[p].result)]
       /\ UNCHANGED <<holder, ledger, pending, wire, truth, replay, op>>

ReclaimUnlink(p) ==
    /\ call[p].pc = "unlink"
    /\ holder' = [holder EXCEPT ![call[p].seen] = NoFile]
    /\ Leave(p, IF call[p].freed THEN "idle" ELSE "reclaim")
    /\ UNCHANGED <<scheduler, ledger, pending, wire, truth, replay, op>>

\* No holder file at all: a lease older than this process, held longer than one
\* call could take.  Elapsed time is all it looks at: the holder may still walk a
\* long chain.  That its claim is older than the margin a holder needs to write
\* its record is the one thing taken on time.
ReclaimUnrecorded(p) ==
    /\ call[p].pc = "reclaim"
    /\ \A a \in Attempts : holder[a] = NoFile
    /\ Leased(work.attempt)
    /\ work.attempt <= call[p].old
    /\ \A q \in Callers : call[q].pc = "claimed" => call[q].attempt # work.attempt
    /\ EndAttempt(work.attempt, "unrecorded")
    /\ Leave(p, "idle")
    /\ UNCHANGED <<holder, ledger, pending, wire, truth, replay, op>>

\* Nothing can be proved ("this request is already running"), or the Scheduler
\* stays locked.
ReclaimEnds(p) ==
    /\ \/ call[p].pc = "reclaim" /\ \A a \in Attempts : ~Gone(holder[a])
       \/ call[p].pc = "free" /\ "scheduler" \in Locks
    /\ Leave(p, "idle")
    /\ UNCHANGED <<scheduler, holder, ledger, pending, wire, truth, replay, op>>

-----------------------------------------------------------------------------
(* Replaying what earlier calls could not write *)

\* The own call drains before it routes; calls for other requests at any time.
MayReplay(x) == IF x \in Others THEN TRUE ELSE call[x].pc = "drain"

\* Mutant: the record is removed when it is read.
StartReplayRemoves(x) ==
    /\ MayReplay(x) /\ replay[x] = NoReplay
    /\ \E r \in pending :
          /\ replay' = [replay EXCEPT ![x] = [kind |-> r.kind, attempt |-> r.attempt,
                                              amount |-> r.amount, written |-> FALSE]]
          /\ pending' = pending \ {r}
    /\ UNCHANGED <<scheduler, holder, ledger, wire, truth, call, op>>

StartReplay(x) ==
    /\ MayReplay(x) /\ replay[x] = NoReplay
    /\ \E r \in pending :
          replay' = [replay EXCEPT ![x] = [kind |-> r.kind, attempt |-> r.attempt,
                                           amount |-> r.amount, written |-> FALSE]]
    /\ UNCHANGED <<scheduler, holder, ledger, pending, wire, truth, call, op>>

\* A settlement is written verbatim; an unconfirmed admission that did land is
\* settled at zero, its amount.
Replay(x) ==
    LET r == replay[x] IN
    /\ MayReplay(x) /\ r # NoReplay /\ ~r.written
    /\ IF r.attempt \in admitted THEN LedgerSettle(r.attempt, r.amount)
                                 ELSE UNCHANGED settled
    /\ replay' = [replay EXCEPT ![x].written = TRUE]
    /\ UNCHANGED <<scheduler, holder, admitted, pending, wire, truth, call, op>>

\* Written, already settled or refused by the ledger: the record is done.
ReplayUnlink(x) ==
    /\ MayReplay(x) /\ replay[x].written
    /\ pending' = {r \in pending : r.kind # replay[x].kind
                                   \/ r.attempt # replay[x].attempt}
    /\ replay' = [replay EXCEPT ![x] = NoReplay]
    /\ UNCHANGED <<scheduler, holder, ledger, wire, truth, call, op>>

\* The drain stops at the first lock; the record waits.
ReplayStops(x) ==
    /\ MayReplay(x) /\ replay[x] # NoReplay /\ ~replay[x].written
    /\ "budget" \in Locks
    /\ replay' = [replay EXCEPT ![x] = NoReplay]
    /\ UNCHANGED <<scheduler, holder, ledger, pending, wire, truth, call, op>>

Drained(p) ==
    /\ call[p].pc = "drain" /\ replay[p] = NoReplay
    /\ Goto(p, "route")
    /\ UNCHANGED <<scheduler, holder, ledger, pending, wire, truth, replay, op>>

-----------------------------------------------------------------------------
(* The chain under one reservation *)

\* What the attempt's settlement will say when the walk ends now.
ChainEnds(p, c, result, amount) ==
    call' = [call EXCEPT ![p] = [c EXCEPT !.result = result, !.amount = amount,
                 !.heard = "free", !.cost = 0, !.doubt = FALSE,
                 !.pc = IF c.attempt \in admitted THEN "settle" ELSE "finish"]]

\* An exception leaves the walk: the finally block settles, the guard's
\* __exit__ decides the attempt.
ChainRaises(p, c, amount) ==
    call' = [call EXCEPT ![p] = [c EXCEPT !.raising = TRUE, !.amount = amount,
                 !.heard = "free", !.cost = 0, !.doubt = FALSE,
                 !.pc = IF c.attempt \in admitted THEN "settle" ELSE "exit"]]

\* The router commits a decision for the attempt.
Decided(p) == routes' = [routes EXCEPT ![call[p].attempt] = @ + 1]

\* A route decision for the next link; the first one still needs admission.
Route(p) ==
    /\ call[p].pc = "route" /\ routes[call[p].attempt] < MaxLinks
    /\ Decided(p)
    /\ Goto(p, IF routes[call[p].attempt] = 0 THEN "admit" ELSE "send")
    /\ UNCHANGED <<scheduler, holder, ledger, pending, broker, truth, replay, op>>

\* Every link failed, no link is routable (a decision as well), or the router
\* raises.
RouteEnds(p) ==
    LET amount == IF call[p].doubt THEN Reserve ELSE 0 IN
    /\ call[p].pc = "route"
    /\ \/ /\ ChainEnds(p, call[p], "failed", amount)
          /\ IF routes[call[p].attempt] < MaxLinks THEN Decided(p) ELSE UNCHANGED routes
       \/ /\ "router" \in Locks
          /\ ChainRaises(p, call[p], amount)
          /\ UNCHANGED routes
    /\ UNCHANGED <<scheduler, holder, ledger, pending, broker, truth, replay, op>>

Admit(p) ==
    /\ call[p].pc = "admit"
    /\ admitted' = admitted \cup {call[p].attempt}
    /\ Goto(p, "send")
    /\ UNCHANGED <<scheduler, holder, settled, pending, wire, truth, replay, op>>

\* The day or the pool refuses: nothing is reserved and nothing is sent.
AdmitRefused(p) ==
    /\ call[p].pc = "admit"
    /\ ChainEnds(p, call[p], "failed", 0)
    /\ UNCHANGED <<scheduler, holder, ledger, pending, wire, truth, replay, op>>

\* The bounded retry gives up; one of the tries may have landed all the same.
AdmitGivesUp(p) ==
    /\ call[p].pc = "admit" /\ "budget" \in Locks
    /\ \/ UNCHANGED admitted
       \/ admitted' = admitted \cup {call[p].attempt}
    /\ Goto(p, "void")
    /\ UNCHANGED <<scheduler, holder, settled, pending, wire, truth, replay, op>>

\* What may have landed is to be voided; the call raises without sending.
RecordVoid(p, ok) ==
    /\ call[p].pc = "void" /\ (ok \/ DiskFails)
    /\ pending' = IF ok THEN pending \cup {[kind |-> "void", amount |-> 0,
                                            attempt |-> call[p].attempt]}
                  ELSE pending
    /\ call' = [call EXCEPT ![p].pc = "exit", ![p].raising = TRUE]
    /\ UNCHANGED <<scheduler, holder, ledger, wire, truth, replay, op>>

\* The adapter hands the request to the broker, or proves that it did not.
Send(p) ==
    /\ call[p].pc = "send"
    /\ \/ /\ broker' = [broker EXCEPT ![call[p].attempt].state = "running"]
          /\ Goto(p, "wait")
       \/ /\ call' = [call EXCEPT ![p].pc = "link", ![p].heard = "free"]
          /\ UNCHANGED broker
    /\ UNCHANGED <<scheduler, holder, ledger, pending, routes, truth, replay, op>>

\* The provider's run ends, whoever is still waiting for it.  Only a metered
\* run leaves a cost in the journal.
BrokerEnds(a) ==
    /\ broker[a].state = "running"
    /\ \E how \in Endings, c \in Costs \cup {0} :
          /\ how = "free" => c = 0
          /\ how \in {"served", "over"} => c \in Costs
          /\ broker' = [broker EXCEPT ![a] =
                 [state |-> how, cost |-> IF how = "unclear" THEN 0 ELSE c,
                  dirty |-> @.dirty \/ how \in {"free", "unclear"}]]
          /\ owed' = [owed EXCEPT ![a] = @ + c]
    /\ UNCHANGED <<scheduler, holder, ledger, pending, routes, unclear, dropped, call, replay,
                   op>>

Receive(p) ==
    LET a == call[p].attempt IN
    /\ call[p].pc = "wait" /\ broker[a].state \in Endings
    /\ call' = [call EXCEPT ![p].pc = "link", ![p].heard = broker[a].state,
                   ![p].cost = broker[a].cost,
                   ![p].doubt = @ \/ broker[a].state = "unclear"]
    /\ unclear' = IF broker[a].state = "unclear" THEN unclear \cup {a} ELSE unclear
    /\ UNCHANGED <<scheduler, holder, ledger, pending, wire, owed, dropped, replay, op>>

\* Mutant: a lost answer counts as a call that was not made.
AnswerLostForgotten(p) ==
    /\ call[p].pc = "wait"
    /\ call' = [call EXCEPT ![p].pc = "link", ![p].heard = "lost"]
    /\ unclear' = unclear \cup {call[p].attempt}
    /\ UNCHANGED <<scheduler, holder, ledger, pending, wire, owed, dropped, replay, op>>

\* The adapter fails after bytes may have left.
AnswerLost(p) ==
    /\ call[p].pc = "wait"
    /\ call' = [call EXCEPT ![p].pc = "link", ![p].heard = "lost", ![p].doubt = TRUE]
    /\ unclear' = unclear \cup {call[p].attempt}
    /\ UNCHANGED <<scheduler, holder, ledger, pending, wire, owed, dropped, replay, op>>

\* The link is recorded with the router and the walk goes on or ends.  A free
\* failure may fall back, and so may a budget failure without telemetry.
RecordLink(p) ==
    LET c == call[p]
        kept == IF c.doubt THEN Reserve ELSE 0
    IN /\ c.pc = "link"
       /\ \/ /\ c.heard = "served"
             /\ ChainEnds(p, c, "succeeded", IF c.doubt THEN Reserve ELSE c.cost)
          \/ /\ c.heard = "over"
             /\ \E r \in {"failed", "retryable"} : ChainEnds(p, c, r, kept + c.cost)
          \/ /\ c.heard \in {"free", "unclear", "lost"}
             /\ \E r \in {"failed", "retryable"} : ChainEnds(p, c, r, kept)
          \/ /\ c.heard \in {"free", "unclear"}
             /\ call' = [call EXCEPT ![p] = [c EXCEPT !.pc = "route", !.heard = "free"]]
       /\ UNCHANGED <<scheduler, holder, ledger, pending, wire, truth, replay, op>>

\* The router is locked: the walk raises before it has told what was served or
\* what an overrun cost.
RecordLinkLocked(p) ==
    /\ "router" \in Locks /\ call[p].pc = "link"
    /\ ChainRaises(p, call[p],
                   IF call[p].doubt /\ call[p].heard # "over" THEN Reserve ELSE 0)
    /\ dropped' = dropped \cup {call[p].attempt}
    /\ UNCHANGED <<scheduler, holder, ledger, pending, wire, owed, unclear, replay, op>>

\* The shared capacity's database fails around the exchange, which no caller
\* expects: before it (reserve, mark_dispatched) nothing was sent; after it
\* (settle) the answer, or the lack of one, is lost to the finally block, which
\* knows only of earlier links.
CapacityRaises(p) ==
    LET c == call[p]
        b == broker[c.attempt].state
    IN /\ "capacity" \in Locks /\ c.pc \in {"send", "wait"}
       /\ ChainRaises(p, c, IF c.doubt THEN Reserve ELSE 0)
       /\ dropped' = IF c.pc = "wait" THEN dropped \cup {c.attempt} ELSE dropped
       /\ unclear' = IF c.pc = "wait" /\ b \in {"running", "unclear"}
                     THEN unclear \cup {c.attempt} ELSE unclear
       /\ UNCHANGED <<scheduler, holder, ledger, pending, wire, owed, replay, op>>

-----------------------------------------------------------------------------
(* Settlement and completion *)

AfterSettle(p) == IF call[p].raising THEN "exit" ELSE "finish"

Settle(p) ==
    /\ call[p].pc = "settle"
    /\ LedgerSettle(call[p].attempt, call[p].amount)
    /\ call' = [call EXCEPT ![p].pc = AfterSettle(p), ![p].amount = 0]
    /\ UNCHANGED <<scheduler, holder, admitted, pending, wire, truth, replay, op>>

SettleGivesUp(p) ==
    /\ call[p].pc = "settle" /\ "budget" \in Locks
    /\ Goto(p, "keep")
    /\ UNCHANGED <<scheduler, holder, ledger, pending, wire, truth, replay, op>>

\* The settlement that did not reach the ledger, verbatim; a failed write is
\* printed.
RecordSettlement(p, ok) ==
    /\ call[p].pc = "keep" /\ (ok \/ DiskFails)
    /\ pending' = IF ok THEN pending \cup {[kind |-> "settle", attempt |-> call[p].attempt,
                                            amount |-> call[p].amount]}
                  ELSE pending
    /\ call' = [call EXCEPT ![p].pc = AfterSettle(p), ![p].amount = 0]
    /\ UNCHANGED <<scheduler, holder, ledger, wire, truth, replay, op>>

\* guard.complete: committed, or refused because the attempt is over.
Complete(p) ==
    LET a == call[p].attempt IN
    /\ call[p].pc = "finish"
    /\ IF Leased(a)
       THEN EndAttempt(a, call[p].result) /\ Leave(p, "release")
       ELSE Leave(p, IF call[p].closing THEN "idle" ELSE "exit") /\ UNCHANGED scheduler
    /\ UNCHANGED <<holder, ledger, pending, wire, truth, replay, op>>

CompleteGivesUp(p) ==
    /\ call[p].pc = "finish" /\ "scheduler" \in Locks
    /\ Goto(p, "abandon")
    /\ UNCHANGED <<scheduler, holder, ledger, pending, wire, truth, replay, op>>

\* _abandon: the completion goes to the holder file, the caller leaves.
Abandon(p, ok) ==
    /\ call[p].pc = "abandon" /\ (ok \/ DiskFails)
    /\ holder' = IF ok THEN [holder EXCEPT ![call[p].attempt] =
                                [status |-> "abandoned", by |-> p, result |-> call[p].result]]
                 ELSE holder
    /\ Leave(p, "idle")
    /\ UNCHANGED <<scheduler, ledger, pending, wire, truth, replay, op>>

\* __exit__ with an attempt not yet settled: still leased, it is completed
\* retryable; over, its file is removed; the status unreadable, it stays.
Exit(p) ==
    /\ call[p].pc = "exit"
    /\ \/ /\ work.state = "leased" /\ work.attempt = call[p].attempt
          /\ call' = [call EXCEPT ![p].pc = "finish", ![p].result = "retryable",
                                  ![p].closing = TRUE]
       \/ /\ ~(work.state = "leased" /\ work.attempt = call[p].attempt)
          /\ Leave(p, "release")
       \/ "scheduler" \in Locks /\ Leave(p, "idle")
    /\ UNCHANGED <<scheduler, holder, ledger, pending, wire, truth, replay, op>>

Release(p) ==
    /\ call[p].pc = "release"
    /\ holder' = [holder EXCEPT ![call[p].attempt] = NoFile]
    /\ Leave(p, "idle")
    /\ UNCHANGED <<scheduler, ledger, pending, wire, truth, replay, op>>

\* A process dies; what it had sent and not settled stays unknown.
Die(p) ==
    /\ call[p].pc \notin {"off", "dead"}
    /\ unclear' = IF call[p].pc \in {"wait", "link", "settle", "keep"}
                  THEN unclear \cup {call[p].attempt} ELSE unclear
    /\ Leave(p, "dead")
    /\ replay' = [replay EXCEPT ![p] = NoReplay]
    /\ UNCHANGED <<scheduler, holder, ledger, pending, wire, owed, dropped, op>>

-----------------------------------------------------------------------------
(* The operator's tools *)

\* plan_orphan_settlements: an open admission whose attempt is over is valued
\* from the broker's records of this WorkOrder inside the attempt's lease
\* window, which an early end leaves open for later attempts; records still
\* without a response are passed over.
OrphanCost(a, later) ==
    LET ended == {b \in {a} \cup later : broker[b].state \in Endings}
    IN IF ended # {} /\ \A b \in ended : ~broker[b].dirty
       THEN MapThenSumSet(LAMBDA b : broker[b].cost, ended)
       ELSE Reserve

PlanOrphan ==
    /\ Operator /\ op.pc = "idle"
    /\ \E a \in admitted :
          /\ settled[a] = Unset
          /\ \/ outcome[a] # "none"
             \/ work.state = "leased" /\ work.attempt = a /\ TimeIsUp(a)
          /\ \E later \in SUBSET {b \in Attempts : b > a /\ outcome[a] # "lapsed"} :
                op' = [NewOp EXCEPT !.pc = "apply", !.attempt = a,
                                    !.amount = OrphanCost(a, later)]
    /\ UNCHANGED <<scheduler, holder, ledger, pending, wire, truth, call, replay>>

ApplyOrphan ==
    /\ op.pc = "apply"
    /\ LedgerSettle(op.attempt, op.amount)
    /\ op' = NewOp
    /\ UNCHANGED <<scheduler, holder, admitted, pending, wire, truth, call, replay>>

\* The plan names a process that is dead, and its leased attempt.
Interrupted(p, a) ==
    /\ Operator /\ op.pc = "idle"
    /\ call[p].pc = "dead" /\ call[p].attempt = a
    /\ work.state = "leased" /\ work.attempt = a

\* model_interruption_recovery.recover with a durable completion: one route,
\* one admission, one metered broker record within the reservation.
Completed(p, a) ==
    /\ Interrupted(p, a)
    /\ routes = [b \in Attempts |-> IF b = a THEN 1 ELSE 0]
    /\ a \in admitted
    /\ broker[a].state = "served" /\ ~broker[a].dirty
    /\ broker[a].cost <= Reserve

\* The ledger is read before the lease is reserved.
RecoverReserve(p, a) ==
    /\ Completed(p, a)
    /\ work' = [work EXCEPT !.reserved = TRUE]
    /\ op' = [pc |-> "recover", attempt |-> a, amount |-> broker[a].cost,
              seen |-> settled[a]]
    /\ UNCHANGED <<outcome, holder, ledger, pending, wire, truth, call, replay>>

\* An existing settlement has to agree; none is written now.
RecoverSettle ==
    LET agreed == IF op.seen = Unset THEN settled[op.attempt] \in {Unset, op.amount}
                                     ELSE op.seen = op.amount
    IN /\ op.pc = "recover"
       /\ IF op.seen = Unset THEN LedgerSettle(op.attempt, op.amount)
                             ELSE UNCHANGED settled
       /\ op' = IF agreed THEN [op EXCEPT !.pc = "reconcile"] ELSE NewOp
       /\ UNCHANGED <<scheduler, holder, admitted, pending, wire, truth, call, replay>>

RecoverReconcile ==
    /\ op.pc = "reconcile"
    /\ work.state = "leased" /\ work.attempt = op.attempt /\ work.reserved
    /\ EndAttempt(op.attempt, "recovered")
    /\ op' = NewOp
    /\ UNCHANGED <<holder, ledger, pending, wire, truth, call, replay>>

\* The same with disposition undispatched: no route, no admission, no record.
RecoverUndispatched(p, a) ==
    /\ Interrupted(p, a)
    /\ ~work.reserved
    /\ \A b \in Attempts : routes[b] = 0
    /\ a \notin admitted /\ broker[a].state = "none"
    /\ EndAttempt(a, "undispatched")
    /\ UNCHANGED <<holder, ledger, pending, wire, truth, call, replay, op>>

OperatorStops ==
    /\ op.pc # "idle"
    /\ op' = NewOp
    /\ UNCHANGED <<scheduler, holder, ledger, pending, wire, truth, call, replay>>

-----------------------------------------------------------------------------
CallStep(p) ==
    \/ Ask(p) \/ Drained(p) \/ Route(p) \/ RouteEnds(p)
    \/ Admit(p) \/ AdmitRefused(p) \/ AdmitGivesUp(p)
    \/ Send(p) \/ Receive(p) \/ AnswerLost(p) \/ RecordLink(p) \/ RecordLinkLocked(p)
    \/ CapacityRaises(p)
    \/ Settle(p) \/ SettleGivesUp(p)
    \/ Complete(p) \/ CompleteGivesUp(p) \/ Exit(p) \/ Release(p)
    \/ \E ok \in BOOLEAN : \/ RecordHolder(p, ok) \/ RecordVoid(p, ok)
                           \/ RecordSettlement(p, ok) \/ Abandon(p, ok)

ReclaimStep(p) ==
    \/ ReclaimPick(p) \/ ReclaimCommit(p) \/ ReclaimUnlink(p)
    \/ ReclaimUnrecorded(p) \/ ReclaimEnds(p)

ReplayStep(x) == StartReplay(x) \/ Replay(x) \/ ReplayUnlink(x) \/ ReplayStops(x)

OperatorStep ==
    \/ PlanOrphan \/ ApplyOrphan
    \/ \E p \in Callers, a \in Attempts : RecoverReserve(p, a) \/ RecoverUndispatched(p, a)
    \/ RecoverSettle \/ RecoverReconcile \/ OperatorStops

Next ==
    /\ \/ \E p \in Callers : Start(p) \/ CallStep(p) \/ ReclaimStep(p) \/ Die(p)
       \/ \E x \in Callers \cup setting.others : ReplayStep(x)
       \/ \E a \in Attempts : BrokerEnds(a)
       \/ Lapse
       \/ OperatorStep
    /\ UNCHANGED setting

Spec == Init /\ [][Next]_<<vars, setting>>

-----------------------------------------------------------------------------
(* Properties *)

Amounts == 0 .. ((MaxLinks + 1) * Max(Costs \cup {Reserve}) * MaxAttempts)

\* Every store keeps well-formed rows: outcomes, holder files, settlements,
\* pending records and the variables of a call.
TypeOK ==
    /\ work \in [state : {"ready", "leased", "done"}, attempt : Attempts,
                 reserved : BOOLEAN]
    /\ outcome \in [Attempts -> Results \cup {"none", "lapsed", "expired", "recovered",
                                              "undispatched", "unrecorded"}]
    /\ holder \in [Attempts -> [status : {"none", "held", "abandoned"},
                                by : Callers \cup {Nobody}, result : Results]]
    /\ admitted \subseteq Attempts
    /\ settled \in [Attempts -> Amounts \cup {Unset}]
    /\ pending \subseteq [kind : {"settle", "void"}, attempt : Attempts, amount : Amounts]
    /\ \A a \in Attempts : settled[a] # Unset => a \in admitted
    /\ routes \in [Attempts -> 0 .. MaxLinks]
    /\ owed \in [Attempts -> Amounts]
    /\ unclear \subseteq Attempts /\ dropped \subseteq Attempts
    /\ setting \in Settings

\* Whoever claimed attempt a may have failed to record it, and the lease was
\* expired on elapsed time alone.
Unrecorded(a) == DiskFails /\ outcome[a] = "unrecorded"

\* A model call is only ever under way beneath its own reservation: no drained
\* record and no other process closes the admission of an attempt that is about
\* to send or is waiting (cockpit_model._chained).  The operator's valuation of
\* orphans may, when the attempt was expired under a call that recorded no
\* holder.
SentUnderReservation ==
    \A p \in Callers : call[p].pc \in {"send", "wait"} =>
        /\ call[p].attempt \in admitted
        /\ settled[call[p].attempt] = Unset \/ (Operator /\ Unrecorded(call[p].attempt))

\* "The work never has two attempts in flight" (Scheduler.expire_orphaned_lease)
\* is more than the callers of that method keep: two processes are at the request
\* only when one of them failed to record itself as holder and was taken for a
\* process of an earlier release (_reclaim_unrecorded_lease), whatever is
\* reclaimed, replayed or recovered, as long as no call outlives its lease.
OneInFlight ==
    \A p, q \in Callers : Working(p) /\ Working(q) =>
        p = q \/ Unrecorded(call[p].attempt) \/ Unrecorded(call[q].attempt)

\* The stores are well formed, and a call in flight is the only recorded one of
\* the request and stands under the open reservation of its attempt.
CallsCovered == TypeOK /\ OneInFlight /\ SentUnderReservation

\* The ledger says what the provider charged, or keeps at least the whole
\* reservation when some call's cost was never learned: "once bytes may have
\* left, missing telemetry cannot release the reservation" (_chained).  The
\* exception the code makes is a walk that raised after an exchange: the finally
\* block then settles what it knew before, and a paid answer may stand at zero.
\* The operator's valuation of orphans, which settles at what it knows, is left
\* out.
LedgerTruth ==
    ~Operator => \A a \in Attempts : settled[a] # Unset =>
        \/ settled[a] = owed[a]
        \/ a \in unclear /\ settled[a] >= Reserve
        \/ a \in dropped /\ settled[a] \in {0, Reserve}

\* A completion handed to the holder file is the only one its attempt can get:
\* it is committed as it was written, or the attempt ends by time or by the
\* operator, never as a recorded orphan or with another result.
AbandonedStands ==
    \A a \in Attempts : holder[a].status = "abandoned" =>
        outcome[a] \in {"none", "lapsed", "recovered", "undispatched", "unrecorded",
                        holder[a].result}

\* An open admission is nobody's only after a death or a failed disk: a live
\* call is still at it, or a pending record will settle it.
OpenHasKeeper ==
    ~DiskFails => \A a \in admitted : settled[a] = Unset =>
        \/ \E p \in Callers : call[p].attempt = a /\ (Working(p) \/ call[p].pc = "dead")
        \/ \E r \in pending : r.attempt = a

\* The ledger stands in the way of recovering attempt a: its settlement is not
\* what the broker metered.  It holds the whole reservation, because the cost was
\* not known when it was settled, or what a walk that raised had left to say.
CannotAgree(a) ==
    /\ settled[a] \notin {Unset, broker[a].cost}
    /\ \/ a \in unclear /\ settled[a] >= Reserve
       \/ a \in dropped /\ settled[a] \in {0, Reserve}

\* A lease the operator has reserved is outside every expiry, so only a recovery
\* can end it.  One that was interrupted can be begun again and will end it,
\* unless the ledger cannot agree: recover reserves before it finds that out, and
\* then every repetition stops there and the lease stays reserved.  One under way
\* has the lease to itself until it ends it.  (A process whose lease was expired
\* under it may still add a route, which recover refuses as well.)
RecoveryCanBeRepeated ==
    /\ work.reserved /\ op.pc = "idle" /\ (\A a \in Attempts : ~Unrecorded(a)) =>
          /\ \E p \in Callers : Completed(p, work.attempt)
          /\ \/ settled[work.attempt] \in {Unset, broker[work.attempt].cost}
             \/ CannotAgree(work.attempt)
    /\ op.pc \in {"recover", "reconcile"} =>
          work.state = "leased" /\ work.attempt = op.attempt /\ work.reserved

\* Nothing is left without somebody who can end it but what is named above: no
\* open admission, and no lease the operator has reserved.
NothingStranded == OpenHasKeeper /\ RecoveryCanBeRepeated
=============================================================================
