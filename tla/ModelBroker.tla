---------------------------- MODULE ModelBroker ----------------------------
(***************************************************************************)
(* The host's model broker (integrations/openclaw-model-broker): admission  *)
(* and queueing in broker.mjs, the idempotency journal in journal.mjs, the  *)
(* service's start and stop in server.mjs and plugin-definition.mjs.        *)
(*                                                                          *)
(* A request of an invocation is admitted or queued, claims the invocation  *)
(* in the journal ("pending" on disk), calls the host, and completes the    *)
(* record.  The journal is a memory map written out whole, through a        *)
(* temporary file and a rename, by one claim or complete at a time.         *)
(*                                                                          *)
(* A generation is one ModelBroker object with its own journal object.  The *)
(* service's stop closes a generation without waiting for its runs, so a    *)
(* start in the same process may find the last one still at work on the     *)
(* same file.  A crash ends them all.                                       *)
(***************************************************************************)
EXTENDS Naturals, Sequences, FiniteSets, SequencesExt

CONSTANTS
    Invocations,     \* invocation ids, each with its one request hash
    Generations,     \* bound: the broker objects one process starts, numbered
    MaxConcurrent, MaxQueued,
    MaxRecords       \* journalMaxRecords (journalMaxBytes acts alike)

ASSUME BrokerAssumption ==
    /\ IsFiniteSet(Invocations)
    /\ Generations \subseteq Nat /\ Generations # {}
    /\ MaxConcurrent \in Nat \ {0}
    /\ MaxQueued \in Nat
    /\ MaxRecords \in Nat \ {0}

VARIABLES
    file,         \* the journal file: the record of each invocation
    latest,       \* the generation that was started last
    state,        \* "down", "serving" or "closed"
    mem,          \* the journal object's records
    run,          \* #admitAndRun of an invocation: where it is
    queue, reserved, active,   \* the broker's queue and counters
    lock,         \* the journal operation in progress
    sent,         \* history: host calls since the record was last dropped by
                  \* TTL or capacity (0, 1, 2 = more)
    asked,        \* history: a provider may have been asked since then
    overwritten,  \* history: records a stopped generation wrote over, whose
                  \* calls are no longer counted
    misproved     \* history: "definitely not sent" answers that were wrong

brokerVars == <<state, mem, run, queue, reserved, active, lock>>
called == <<sent, asked>>
memory == <<latest, overwritten>>
vars == <<file, brokerVars, called, memory, misproved>>

(* A record is absent, pending, completed with the host's answer ("done") or *)
(* with a refusal before any dispatch ("unsent"), or past its TTL.           *)
Records == {"none", "pending", "done", "unsent", "lapsed"}
Completed == {"done", "unsent"}
NoRecords == [i \in Invocations |-> "none"]

Runs == {"none", "queued", "claim", "claiming", "host", "done", "unsent",
         "completing", "closing"}
NoRuns == [i \in Invocations |-> "none"]

NoLock == [held |-> FALSE, renamed |-> FALSE, snapshot |-> NoRecords]

-----------------------------------------------------------------------------
(* Memory journal *)

(* Only completed records lapse.                                             *)
Prune(records) ==
    [i \in Invocations |-> IF records[i] = "lapsed" THEN "none" ELSE records[i]]

Kept(records) == {i \in Invocations : records[i] # "none"}

(* Completed records other than the one being written may make room.         *)
Evictable(records, pinned) ==
    {i \in Invocations : records[i] \in Completed /\ i # pinned}

(* #boundedRecords: what is evicted for a write of the pinned record; oldest *)
(* first in the code, any of them here.                                      *)
Evictions(records, pinned) ==
    LET excess == Cardinality(Kept(records)) - MaxRecords
        room == Evictable(records, pinned)
    IN  IF Cardinality(Kept(records)) <= MaxRecords THEN {{}}
        ELSE IF Cardinality(room) <= excess THEN {room}
        ELSE {E \in SUBSET room : Cardinality(E) = excess}

Without(records, E) ==
    [i \in Invocations |-> IF i \in E THEN "none" ELSE records[i]]

Fits(records) == Cardinality(Kept(records)) <= MaxRecords

(* The calls behind a record are forgotten with it.                          *)
Forget(I) ==
    /\ sent' = [i \in Invocations |-> IF i \in I THEN 0 ELSE sent[i]]
    /\ asked' = asked \ I

(* What an earlier broker evicts, it evicts from a copy.                     *)
Dropped(g, E) == IF g = latest THEN E ELSE {}

-----------------------------------------------------------------------------
(* Answers and capacity *)

(* A failure carrying the proof that nothing was sent (dispatchProof).  Stop *)
(* destroys the sockets, so the answers of a closed broker reach nobody.     *)
AnswerNotSent(g, i) ==
    misproved' = IF state[g] = "serving" /\ i \in asked
                 THEN misproved \cup {i} ELSE misproved

Free(g) == active[g] + reserved[g] < MaxConcurrent

(* #drainQueue after a run left pc behind: as many as there are free slots,   *)
(* with r calls reserved; nothing once the broker is closed.                 *)
Drained(g, r) ==
    IF state[g] = "closed" \/ active[g] + r >= MaxConcurrent THEN 0
    ELSE LET free == MaxConcurrent - (active[g] + r)
         IN  IF Len(queue[g]) < free THEN Len(queue[g]) ELSE free

(* Mutant of ReleaseAndDrain: the queue waits for the next arrival.          *)
Release(g, i, r) ==
    /\ reserved' = [reserved EXCEPT ![g] = r]
    /\ run' = [run EXCEPT ![g][i] = "none"]
    /\ UNCHANGED queue

(* The run of i ends, r calls stay reserved, and the queue moves up.         *)
ReleaseAndDrain(g, i, r) ==
    LET k == Drained(g, r)
        admitted == {queue[g][n] : n \in 1 .. k}
    IN  /\ reserved' = [reserved EXCEPT ![g] = r + k]
        /\ queue' = [queue EXCEPT ![g] = SubSeq(@, k + 1, Len(@))]
        /\ run' = [run EXCEPT ![g] = [j \in Invocations |->
                      IF j = i THEN "none"
                      ELSE IF j \in admitted THEN "claim" ELSE run[g][j]]]

-----------------------------------------------------------------------------
(* handle: the paths that answer at once change nothing but what was         *)
(* answered (a join of the live run, a conflict, INDETERMINATE, a miss).     *)

Fresh(g, i) ==
    /\ state[g] = "serving"
    /\ run[g][i] = "none"
    /\ mem[g][i] \in {"none", "lapsed"}

Admit(g, i) ==
    /\ Fresh(g, i)
    /\ Free(g)
    /\ reserved' = [reserved EXCEPT ![g] = @ + 1]
    /\ run' = [run EXCEPT ![g][i] = "claim"]
    /\ UNCHANGED <<file, state, mem, queue, active, lock, called, memory, misproved>>

Enqueue(g, i) ==
    /\ Fresh(g, i)
    /\ ~Free(g)
    /\ Len(queue[g]) < MaxQueued
    /\ queue' = [queue EXCEPT ![g] = Append(@, i)]
    /\ run' = [run EXCEPT ![g][i] = "queued"]
    /\ UNCHANGED <<file, state, mem, reserved, active, lock, called, memory, misproved>>

(* BUSY: no queue wait was asked for, or the queue is full.                  *)
Busy(g, i) ==
    /\ Fresh(g, i)
    /\ ~Free(g)
    /\ AnswerNotSent(g, i)
    /\ UNCHANGED <<file, brokerVars, called, memory>>

(* A completed refusal is repeated with its proof.                           *)
Duplicate(g, i) ==
    /\ state[g] = "serving"
    /\ run[g][i] = "none"
    /\ mem[g][i] = "unsent"
    /\ AnswerNotSent(g, i)
    /\ UNCHANGED <<file, brokerVars, called, memory>>

(* The timer of a queued request: QUEUE_TIMEOUT.                             *)
QueueTimeout(g, i) ==
    /\ run[g][i] = "queued"
    /\ \E n \in 1 .. Len(queue[g]) :
          /\ queue[g][n] = i
          /\ queue' = [queue EXCEPT ![g] = RemoveAt(@, n)]
    /\ run' = [run EXCEPT ![g][i] = "none"]
    /\ AnswerNotSent(g, i)
    /\ UNCHANGED <<file, state, mem, reserved, active, lock, called, memory>>

-----------------------------------------------------------------------------
(* Journal operations: begin under the lock, rename, end *)

Hold(g, records) ==
    lock' = [lock EXCEPT ![g] = [held |-> TRUE, renamed |-> FALSE, snapshot |-> records]]
Unlock(g) == lock' = [lock EXCEPT ![g] = NoLock]

(* A run admitted before the stop looks once more before it claims.          *)
RefuseClosed(g, i) ==
    /\ run[g][i] = "claim"
    /\ state[g] = "closed"
    /\ ReleaseAndDrain(g, i, reserved[g] - 1)
    /\ UNCHANGED <<file, state, mem, active, lock, called, memory, misproved>>

(* FileIdempotencyJournal.claim up to the file: the pending record is        *)
(* written, unless pending records fill the journal (the evictions made so   *)
(* far stay).  No record can have appeared since handle looked for one: see  *)
(* RunMatchesRecord.                                                         *)
ClaimBegin(g, i) ==
    /\ run[g][i] = "claim"
    /\ ~lock[g].held
    /\ mem[g][i] \in {"none", "lapsed"}
    /\ LET before == Prune(mem[g])
           claimed == [before EXCEPT ![i] = "pending"]
       IN \E E \in Evictions(claimed, i) :
             /\ Forget(Dropped(g, E))
             /\ IF Fits(Without(claimed, E))
                THEN /\ mem' = [mem EXCEPT ![g] = Without(claimed, E)]
                     /\ Hold(g, Without(claimed, E))
                     /\ run' = [run EXCEPT ![g][i] = "claiming"]
                     /\ UNCHANGED <<queue, reserved>>
                ELSE /\ mem' = [mem EXCEPT ![g] = Without(before, E)]
                     /\ ReleaseAndDrain(g, i, reserved[g] - 1)
                     /\ UNCHANGED lock
    /\ UNCHANGED <<file, state, active, memory, misproved>>

(* complete up to the file: the pending record takes the response.           *)
CompleteBegin(g, i) ==
    /\ run[g][i] \in {"done", "unsent"}
    /\ ~lock[g].held
    /\ mem[g][i] = "pending"
    /\ LET completed == [Prune(mem[g]) EXCEPT ![i] = run[g][i]]
       IN  \E E \in Evictions(completed, i) :
              /\ Forget(Dropped(g, E))
              /\ IF Fits(Without(completed, E))
                 THEN /\ mem' = [mem EXCEPT ![g] = Without(completed, E)]
                      /\ Hold(g, Without(completed, E))
                      /\ run' = [run EXCEPT ![g][i] = IF @ = "done" THEN "completing"
                                                      ELSE "closing"]
                      /\ UNCHANGED <<queue, reserved>>
                 ELSE /\ mem' = [mem EXCEPT ![g] =
                                   [Without(completed, E) EXCEPT ![i] = mem[g][i]]]
                      /\ ReleaseAndDrain(g, i, reserved[g])
                      /\ UNCHANGED lock
    /\ UNCHANGED <<file, state, active, memory, misproved>>

(* The records that the write of a stopped broker replaces by another.       *)
WrittenOver(g) ==
    {i \in Invocations : /\ g # latest
                         /\ file[i] \notin {"none", "lapsed"}
                         /\ lock[g].snapshot[i] # file[i]}

Rename(g) ==
    /\ lock[g].held
    /\ ~lock[g].renamed
    /\ file' = lock[g].snapshot
    /\ lock' = [lock EXCEPT ![g].renamed = TRUE]
    /\ overwritten' = overwritten \cup WrittenOver(g)
    /\ Forget(WrittenOver(g))
    /\ UNCHANGED <<latest, state, mem, run, queue, reserved, active, misproved>>

(* The claim is durable: the reserved slot becomes the host call.            *)
CallHost(g, i) ==
    /\ IF i \in overwritten THEN UNCHANGED called
       ELSE /\ sent' = [sent EXCEPT ![i] = IF @ = 0 THEN 1 ELSE 2]
            /\ asked' = asked \cup {i}
    /\ active' = [active EXCEPT ![g] = @ + 1]
    /\ reserved' = [reserved EXCEPT ![g] = @ - 1]
    /\ run' = [run EXCEPT ![g][i] = "host"]

(* The request does not fit its profile or its controls, or the broker was   *)
(* closed meanwhile: completed without a host call.                          *)
RefuseRun(g, i) ==
    /\ reserved' = [reserved EXCEPT ![g] = @ - 1]
    /\ run' = [run EXCEPT ![g][i] = "unsent"]
    /\ UNCHANGED <<called, active>>

ClaimPersisted(g, i) ==
    /\ run[g][i] = "claiming"
    /\ lock[g].renamed
    /\ Unlock(g)
    /\ \/ state[g] = "serving" /\ CallHost(g, i)
       \/ RefuseRun(g, i)
    /\ UNCHANGED <<file, state, mem, queue, memory, misproved>>

(* A failed write, before or after the rename, takes the claim back.         *)
ClaimFails(g, i) ==
    /\ run[g][i] = "claiming"
    /\ Unlock(g)
    /\ mem' = [mem EXCEPT ![g][i] = "none"]
    /\ ReleaseAndDrain(g, i, reserved[g] - 1)
    /\ UNCHANGED <<file, state, active, called, memory, misproved>>

(* Mutant of HostReturns: a host that timed out counts as never called.      *)
HostReturnsUnsent(g, i) ==
    /\ run[g][i] = "host"
    /\ active' = [active EXCEPT ![g] = @ - 1]
    /\ run' = [run EXCEPT ![g][i] = "unsent"]
    /\ UNCHANGED <<file, state, mem, queue, reserved, lock, called, memory, misproved>>

(* The host returns or fails, or its timer wins: the slot is given back, but  *)
(* the queue moves only when the record is written.                          *)
HostReturns(g, i) ==
    /\ run[g][i] = "host"
    /\ active' = [active EXCEPT ![g] = @ - 1]
    /\ run' = [run EXCEPT ![g][i] = "done"]
    /\ UNCHANGED <<file, state, mem, queue, reserved, lock, called, memory, misproved>>

(* The host's typed refusal of the required controls, its promise that it    *)
(* dispatched nothing to a provider, is answered as not sent.                *)
HostRefuses(g, i) ==
    /\ run[g][i] = "host"
    /\ active' = [active EXCEPT ![g] = @ - 1]
    /\ run' = [run EXCEPT ![g][i] = "unsent"]
    /\ asked' = IF sent[i] = 1 THEN asked \ {i} ELSE asked
    /\ UNCHANGED <<file, state, mem, queue, reserved, lock, sent, memory, misproved>>

CompletePersisted(g, i) ==
    /\ run[g][i] \in {"completing", "closing"}
    /\ lock[g].renamed
    /\ Unlock(g)
    /\ ReleaseAndDrain(g, i, reserved[g])
    /\ IF run[g][i] = "closing" THEN AnswerNotSent(g, i) ELSE UNCHANGED misproved
    /\ UNCHANGED <<file, state, mem, active, called, memory>>

(* Mutant of CompleteFails: a claim that failed to complete is given up.     *)
CompleteFailsOpen(g, i) ==
    /\ run[g][i] \in {"completing", "closing"}
    /\ Unlock(g)
    /\ mem' = [mem EXCEPT ![g][i] = "none"]
    /\ ReleaseAndDrain(g, i, reserved[g])
    /\ UNCHANGED <<file, state, active, called, memory, misproved>>

(* Mutant of CompleteFails: the journal's promise chain is never settled.    *)
CompleteFailsLocked(g, i) ==
    /\ run[g][i] \in {"completing", "closing"}
    /\ mem' = [mem EXCEPT ![g][i] = "pending"]
    /\ ReleaseAndDrain(g, i, reserved[g])
    /\ UNCHANGED <<file, state, active, lock, called, memory, misproved>>

(* A completion that cannot be written leaves the record pending.            *)
CompleteFails(g, i) ==
    /\ run[g][i] \in {"completing", "closing"}
    /\ Unlock(g)
    /\ mem' = [mem EXCEPT ![g][i] = "pending"]
    /\ ReleaseAndDrain(g, i, reserved[g])
    /\ UNCHANGED <<file, state, active, called, memory, misproved>>

-----------------------------------------------------------------------------
(* Time, stop, start, crash *)

Age(records, i) ==
    IF records[i] \in Completed THEN [records EXCEPT ![i] = "lapsed"] ELSE records

(* The TTL of a completed record runs out.                                   *)
Lapse(i) ==
    /\ file[i] \in Completed \/ \E g \in Generations : mem[g][i] \in Completed
    /\ file' = Age(file, i)
    /\ mem' = [g \in Generations |-> Age(mem[g], i)]
    /\ lock' = [g \in Generations |->
                  [lock[g] EXCEPT !.snapshot = Age(lock[g].snapshot, i)]]
    /\ Forget({j \in {i} : Completed \cap {file[j], mem[latest][j]} # {}})
    /\ UNCHANGED <<memory, state, run, queue, reserved, active, misproved>>

(* ModelBroker.close and the end of every connection: queued requests end    *)
(* with nobody to hear it, runs go on.                                       *)
Stop(g) ==
    /\ state[g] = "serving"
    /\ state' = [state EXCEPT ![g] = "closed"]
    /\ queue' = [queue EXCEPT ![g] = <<>>]
    /\ run' = [run EXCEPT ![g] = [i \in Invocations |->
                  IF run[g][i] = "queued" THEN "none" ELSE run[g][i]]]
    /\ UNCHANGED <<file, mem, reserved, active, lock, called, memory, misproved>>

(* A new broker object over the same file; the runs of those before it may   *)
(* still be at work.                                                         *)
Start(g) ==
    /\ \A h \in Generations : state[h] # "serving"
    /\ state[g] = "down"
    /\ \A h \in Generations : state[h] = "down" => g <= h
    /\ Fits(file)
    /\ latest' = g
    /\ state' = [state EXCEPT ![g] = "serving"]
    /\ mem' = [mem EXCEPT ![g] = Prune(file)]
    /\ UNCHANGED <<file, run, queue, reserved, active, lock, called, overwritten,
                   misproved>>

(* The host process dies.                                                    *)
Crash ==
    /\ \E g \in Generations : state[g] # "down"
    /\ state' = [g \in Generations |-> "down"]
    /\ mem' = [g \in Generations |-> NoRecords]
    /\ run' = [g \in Generations |-> NoRuns]
    /\ queue' = [g \in Generations |-> <<>>]
    /\ reserved' = [g \in Generations |-> 0]
    /\ active' = [g \in Generations |-> 0]
    /\ lock' = [g \in Generations |-> NoLock]
    /\ UNCHANGED <<file, called, memory, misproved>>

-----------------------------------------------------------------------------
Init ==
    /\ file = NoRecords
    /\ latest = CHOOSE g \in Generations : TRUE
    /\ state = [g \in Generations |-> "down"]
    /\ mem = [g \in Generations |-> NoRecords]
    /\ run = [g \in Generations |-> NoRuns]
    /\ queue = [g \in Generations |-> <<>>]
    /\ reserved = [g \in Generations |-> 0]
    /\ active = [g \in Generations |-> 0]
    /\ lock = [g \in Generations |-> NoLock]
    /\ sent = [i \in Invocations |-> 0]
    /\ asked = {}
    /\ overwritten = {}
    /\ misproved = {}

Request(g, i) == Admit(g, i) \/ Enqueue(g, i) \/ Busy(g, i) \/ Duplicate(g, i)

PersistEnd(g, i) ==
    \/ ClaimPersisted(g, i)
    \/ ClaimFails(g, i)
    \/ CompletePersisted(g, i)
    \/ CompleteFails(g, i)

RunStep(g, i) ==
    \/ QueueTimeout(g, i)
    \/ RefuseClosed(g, i)
    \/ ClaimBegin(g, i)
    \/ CompleteBegin(g, i)
    \/ HostReturns(g, i) \/ HostRefuses(g, i)
    \/ PersistEnd(g, i)

Next ==
    \/ \E g \in Generations, i \in Invocations : Request(g, i) \/ RunStep(g, i)
    \/ \E g \in Generations : Rename(g) \/ Stop(g) \/ Start(g)
    \/ \E i \in Invocations : Lapse(i)
    \/ Crash

Spec == Init /\ [][Next]_vars

(* Files get written or fail, hosts answer or time out, timers fire, and the  *)
(* journal serves its waiters first come, first served.                      *)
FairSpec ==
    /\ Spec
    /\ \A g \in Generations : WF_vars(Rename(g))
    /\ \A g \in Generations, i \in Invocations :
          /\ WF_vars(QueueTimeout(g, i) \/ HostReturns(g, i) \/ PersistEnd(g, i))
          /\ SF_vars(ClaimBegin(g, i) \/ CompleteBegin(g, i))

-----------------------------------------------------------------------------
(* Properties *)

In(g, pcs) == {i \in Invocations : run[g][i] \in pcs}

(* The shape of the broker.                                                  *)
TypeOK ==
    /\ file \in [Invocations -> Records]
    /\ state \in [Generations -> {"down", "serving", "closed"}]
    /\ mem \in [Generations -> [Invocations -> Records]]
    /\ run \in [Generations -> [Invocations -> Runs]]
    /\ queue \in [Generations -> Seq(Invocations)]
    /\ reserved \in [Generations -> Nat]
    /\ active \in [Generations -> Nat]
    /\ lock \in [Generations -> [held : BOOLEAN, renamed : BOOLEAN,
                                 snapshot : [Invocations -> Records]]]
    /\ sent \in [Invocations -> 0 .. 2]
    /\ latest \in Generations
    /\ asked \subseteq Invocations
    /\ overwritten \subseteq Invocations
    /\ misproved \subseteq Invocations

(* However runs fail, time out, are closed or queued, the broker's two       *)
(* counters are the runs that hold a slot, and together they never pass      *)
(* maxConcurrent.                                                            *)
SlotsExact ==
    \A g \in Generations :
        /\ reserved[g] = Cardinality(In(g, {"claim", "claiming"}))
        /\ active[g] = Cardinality(In(g, {"host"}))
        /\ active[g] + reserved[g] <= MaxConcurrent

(* A request waits in the queue beside a free slot only while some run is    *)
(* still writing its completion, whose end moves the queue.                  *)
NoLostWakeup ==
    \A g \in Generations : Len(queue[g]) > 0 /\ Free(g) =>
        In(g, {"done", "unsent", "completing", "closing"}) # {}

(* A run that has not claimed yet finds no record, and from its claim to its *)
(* completion the record is pending: neither the TTL, nor evictions, nor a   *)
(* failed write of another run takes it away.                                *)
RunMatchesRecord ==
    \A g \in Generations :
        /\ \A i \in In(g, {"queued", "claim"}) : mem[g][i] \in {"none", "lapsed"}
        /\ \A i \in In(g, {"claiming", "host", "done", "unsent"}) : mem[g][i] = "pending"

(* The broker's account of itself: well typed, its counters are its runs, no *)
(* request is left waiting beside a free slot, and runs and records agree.   *)
Consistent == TypeOK /\ SlotsExact /\ NoLostWakeup /\ RunMatchesRecord

(* As long as its record was not dropped by TTL or capacity, an invocation   *)
(* reaches the host at most once: over crashes, restarts, failed writes,     *)
(* evictions, repeated requests, and brokers stopped in the middle of their  *)
(* runs while the next one serves.  Not so, in the code, once a stopped      *)
(* broker has written its older copy over the record.                        *)
HostOnce == \A i \in Invocations \ overwritten : sent[i] <= 1

(* The proof "definitely not sent" is given only for an invocation of which  *)
(* no provider can have been asked: the host was never called, or its one    *)
(* call was refused by the host itself before it dispatched anything.  Again *)
(* a record that a stopped broker wrote over is out of account.              *)
NotSentIsTrue == misproved = {}

(* Every request is answered: no run waits for a slot, the journal or the    *)
(* host for ever.                                                            *)
RunsEnd ==
    \A g \in Generations, i \in Invocations :
        run[g][i] # "none" ~> run[g][i] = "none"

=============================================================================
