--------------------------- MODULE SharedCapacity ---------------------------
(***************************************************************************)
(* The host's shared model capacity (shared_capacity.py) and the adapter    *)
(* that spends it (openclaw_model_adapter.py).  One SQLite file, shared by  *)
(* the processes of every workspace, holds one reservation per model        *)
(* invocation and the active policy.  The adapter reserves, connects to the *)
(* broker, marks the reservation dispatched, sends, and settles; it may die *)
(* between any two of these transactions.                                   *)
(*                                                                          *)
(* Each method of the authority reads the clock BEFORE it waits for the     *)
(* write lock: a client's "at" is its last reading, and a transaction uses  *)
(* some reading between that one and the present.                           *)
(***************************************************************************)
EXTENDS Naturals, FiniteSets, FiniteSetsExt

CONSTANTS
    Calls,           \* model invocations (workspace_id, invocation_ref)
    Reserve,         \* the maximum_cost_micros of a call
    Policies, First, \* policy records of the scope, the initialized one
    MaxCalls, MaxCost, MaxConcurrency,   \* their caps
    Costs,           \* measured costs a provider may report
    Window,          \* timeout + queue wait + 30 s: life of a reservation
    DayLength,
    MaxTime,         \* bound: the last clock reading
    Settings         \* the settings a behaviour may run under

ASSUME CapacityAssumption ==
    /\ IsFiniteSet(Calls)
    /\ Reserve \in [Calls -> Nat \ {0}]
    /\ First \in Policies
    /\ MaxCalls \in [Policies -> Nat \ {0}]
    /\ MaxCost \in [Policies -> Nat \ {0}]
    /\ MaxConcurrency \in [Policies -> Nat \ {0}]
    /\ Costs \subseteq Nat
    /\ Window \in Nat \ {0} /\ DayLength \in Nat \ {0}
    /\ MaxTime \in Nat
    /\ Settings \subseteq [calls : SUBSET Calls, policies : SUBSET Policies,
                           retries : Nat, overlap : SUBSET Calls, timed : BOOLEAN]

VARIABLES
    now,          \* the wall clock
    head,         \* shared_capacity_policy_heads of the scope
    published,    \* shared_capacity_policies
    row,          \* shared_capacity_reservations
    client,       \* the adapter processes: one execute, one replay per call
    running,      \* calls the provider is working on
    answer,       \* what the broker's journal holds for a call
    refused,      \* calls whose provider answer a settlement refused
    setting       \* which calls and policies take part, the adapter's settings

vars == <<now, head, published, row, client, running, answer, refused>>

(* max_definitely_not_sent_retries; the calls whose replay may start while   *)
(* their first caller still runs; whether the broker's own timer may answer  *)
(* while the provider works on.                                              *)
Retries == setting.retries
Overlap == setting.overlap
TimedAnswers == setting.timed

Modes == {"execute", "replay"}
Day(t) == t \div DayLength

(* The broker's answers: a failure, a success without cost telemetry, a      *)
(* success with a measured cost.                                             *)
Unanswered == [ok |-> FALSE, cost |-> {}]
Failure == [ok |-> FALSE, cost |-> {0}]
Success(cost) == [ok |-> TRUE, cost |-> cost]
Answers == {Failure} \cup {Success(k) : k \in {{}} \cup {{m} : m \in Costs}}

Outcomes == {"none", "definitely_not_sent", "broker_succeeded", "broker_failed",
             "transport_or_protocol_unknown", "undispatched_expired"}
Statuses == {"none", "reserved", "dispatched", "settled", "expired"}

NoRow == [status |-> "none", policy |-> First, day |-> 0, expires |-> 0,
          charged |-> 0, outcome |-> "none"]

Idle == [pc |-> "idle", policy |-> First, at |-> 0, left |-> 0]

-----------------------------------------------------------------------------
(* Queries of the reservation table *)

Open == {i \in Calls : row[i].status \in {"reserved", "dispatched"}}

(* Only undispatched reservations expire.                                    *)
Stale(t) == {i \in Calls : row[i].status = "reserved" /\ row[i].expires <= t}

Charge(i) == IF row[i].status = "settled" THEN row[i].charged ELSE Reserve[i]

OfDay(d) == {i \in Open : row[i].day = d}
              \cup {i \in Calls : row[i].status = "settled" /\ row[i].day = d}

(* Mutant of HasRoom: concurrency is counted over the day's rows only.       *)
HasRoomOfDay(p, i, d, stale) ==
    LET counted == OfDay(d) \ stale
    IN  /\ Cardinality(counted) + 1 <= MaxCalls[p]
        /\ MapThenSumSet(Charge, counted) + Reserve[i] <= MaxCost[p]
        /\ Cardinality(counted \cap Open) + 1 <= MaxConcurrency[p]

(* Mutant of HasRoom: the cost cap is compared without the new call.         *)
HasRoomWithoutSelf(p, i, d, stale) ==
    LET counted == OfDay(d) \ stale
    IN  /\ Cardinality(counted) + 1 <= MaxCalls[p]
        /\ MapThenSumSet(Charge, counted) < MaxCost[p]
        /\ Cardinality(Open \ stale) + 1 <= MaxConcurrency[p]

(* The three caps, with the stale reservations already expired.              *)
HasRoom(p, i, d, stale) ==
    LET counted == OfDay(d) \ stale
    IN  /\ Cardinality(counted) + 1 <= MaxCalls[p]
        /\ MapThenSumSet(Charge, counted) + Reserve[i] <= MaxCost[p]
        /\ Cardinality(Open \ stale) + 1 <= MaxConcurrency[p]

Expired(r) == [r EXCEPT !.status = "expired", !.charged = 0,
                        !.outcome = "undispatched_expired"]

Booked(p, t, expires) ==
    [status |-> "reserved", policy |-> p, day |-> Day(t), expires |-> expires,
     charged |-> 0, outcome |-> "none"]

-----------------------------------------------------------------------------
(* The adapter's client steps *)

Step(i, m, c) == client' = [client EXCEPT ![i][m] = c]
Goto(i, m, pc, at) ==
    Step(i, m, [client[i][m] EXCEPT !.pc = pc, !.at = at])

Done == [Idle EXCEPT !.pc = "done"]

(* A finished execute is over; a replay may be asked again.                  *)
Finish(i, m) == Step(i, m, IF m = "execute" THEN Done ELSE Idle)

(* replay serves the recovery of an attempt whose lease expired; the first    *)
(* caller of an overlapping call may still be at it.                         *)
MayReplay(i) ==
    IF i \in Overlap THEN client[i]["execute"].pc # "idle"
    ELSE client[i]["execute"].pc = "done"

(* The workspace manifest binds the process to a published policy.           *)
Begin(i, m) ==
    /\ client[i][m].pc = "idle"
    /\ m = "replay" => MayReplay(i)
    /\ \E p \in published :
          Step(i, m, [pc |-> "start", policy |-> p, at |-> now,
                      left |-> IF m = "execute" THEN Retries ELSE 0])
    /\ UNCHANGED <<now, head, published, row, running, answer, refused>>

(* SharedCapacityAuthority.reserve, at clock reading t.  An existing row of  *)
(* the same policy is returned whatever its status; a refusal rolls the      *)
(* expiries back.                                                            *)
ReserveCapacity(i, m) == \E t \in client[i][m].at .. now :
    LET c == client[i][m]
        expires == c.at + Window
        stale == Stale(t)
    IN  /\ c.pc = "start"
        /\ \/ /\ expires > t
              /\ row[i].status # "none"
              /\ row[i].policy = c.policy
              /\ Goto(i, m, "connect", t)
              /\ UNCHANGED row
           \/ /\ expires > t
              /\ row[i].status = "none"
              /\ head = c.policy
              /\ HasRoom(c.policy, i, Day(t), stale)
              /\ row' = [j \in Calls |-> IF j = i THEN Booked(c.policy, t, expires)
                                         ELSE IF j \in stale THEN Expired(row[j])
                                         ELSE row[j]]
              /\ Goto(i, m, "connect", t)
           \/ /\ \/ expires <= t
                 \/ row[i].status # "none" /\ row[i].policy # c.policy
                 \/ /\ row[i].status = "none"
                    /\ \/ head # c.policy
                       \/ ~HasRoom(c.policy, i, Day(t), stale)
              /\ Finish(i, m)
              /\ UNCHANGED row
    /\ UNCHANGED <<now, head, published, running, answer, refused>>

(* cancel_undispatched after the exchange failed before anything was sent;   *)
(* its conflict is swallowed.                                                *)
Cancel(i, m) ==
    row' = IF row[i].status = "reserved" /\ row[i].policy = client[i][m].policy
           THEN [row EXCEPT ![i].status = "settled", ![i].charged = 0,
                            ![i].outcome = "definitely_not_sent"]
           ELSE row

(* The broker socket refuses the connection: BrokerDefinitelyNotSent, which  *)
(* _execute_with_safe_retry answers with the same invocation again.          *)
ConnectFails(i, m) ==
    /\ client[i][m].pc = "connect"
    /\ Cancel(i, m)
    /\ IF client[i][m].left > 0
       THEN Step(i, m, [client[i][m] EXCEPT !.pc = "start", !.at = now,
                                            !.left = @ - 1])
       ELSE Finish(i, m)
    /\ UNCHANGED <<now, head, published, running, answer, refused>>

(* mark_dispatched accepts the row.                                          *)
Dispatchable(c, r, t) ==
    /\ r.policy = c.policy
    /\ \/ r.status = "reserved" /\ head = c.policy /\ r.expires > t
       \/ r.status \in {"dispatched", "settled"}

(* before_send: mark_dispatched on the open connection, before any byte.     *)
Dispatch(i, m) == \E t \in client[i][m].at .. now :
    LET c == client[i][m]
    IN  /\ c.pc = "connect"
        /\ \/ /\ Dispatchable(c, row[i], t)
              /\ row' = IF row[i].status = "reserved"
                        THEN [row EXCEPT ![i].status = "dispatched"] ELSE row
              /\ Goto(i, m, "send", 0)
           \/ /\ ~Dispatchable(c, row[i], t)
              /\ Cancel(i, m)
              /\ Finish(i, m)
    /\ UNCHANGED <<now, head, published, running, answer, refused>>

(* The frame reaches the broker: a fresh execute starts the provider, any    *)
(* other request joins it or is answered from the journal.                   *)
Send(i, m) ==
    /\ client[i][m].pc = "send"
    /\ m = "execute" \/ i \in running \/ answer[i] # Unanswered
    /\ Goto(i, m, "wait", 0)
    /\ running' = IF m = "execute" /\ i \notin running /\ answer[i] = Unanswered
                  THEN running \cup {i} ELSE running
    /\ UNCHANGED <<now, head, published, row, answer, refused>>

(* The broker turns the request away (BUSY, QUEUE_TIMEOUT, a journal miss):   *)
(* a failure it does not keep.                                               *)
TurnedAway(i, m) ==
    /\ client[i][m].pc = "send"
    /\ i \notin running
    /\ answer[i] = Unanswered
    /\ Goto(i, m, "refused", 0)
    /\ UNCHANGED <<now, head, published, row, running, answer, refused>>

(* The provider returns; the broker journals the answer.                     *)
ProviderReturns(i) ==
    /\ i \in running
    /\ running' = running \ {i}
    /\ \/ answer[i] = Unanswered /\ \E a \in Answers : answer' = [answer EXCEPT ![i] = a]
       \/ answer[i] # Unanswered /\ UNCHANGED answer
    /\ UNCHANGED <<now, head, published, row, client, refused>>

(* The broker's own timer wins the race: it journals TIMEOUT; the abort it   *)
(* asks for may not have reached the provider.                               *)
BrokerTimesOut(i) ==
    /\ TimedAnswers
    /\ i \in running
    /\ answer[i] = Unanswered
    /\ answer' = [answer EXCEPT ![i] = Failure]
    /\ UNCHANGED <<now, head, published, row, client, running, refused>>

-----------------------------------------------------------------------------
(* Settlement *)

(* outcome and actual_cost_micros of an answer, the charge they stand for.   *)
OutcomeOf(a) == IF a.ok THEN "broker_succeeded" ELSE "broker_failed"
ChargeOf(i, a) == IF a.ok /\ a.cost # {} THEN CHOOSE k \in a.cost : TRUE ELSE Reserve[i]

Settles(i, m, a) ==
    /\ row[i].policy = client[i][m].policy
    /\ \/ row[i].status = "dispatched"
       \/ /\ row[i].status = "settled"
          /\ \/ /\ row[i].outcome = "transport_or_protocol_unknown"
                /\ a.ok /\ a.cost # {}
             \/ /\ row[i].charged = ChargeOf(i, a)
                /\ row[i].outcome = OutcomeOf(a)

(* Mutant of SettleWith: the last settlement wins.                           *)
SettleLast(i, m, a) ==
    /\ row' = [row EXCEPT ![i].status = "settled", ![i].charged = ChargeOf(i, a),
                          ![i].outcome = OutcomeOf(a)]
    /\ UNCHANGED refused

(* SharedCapacityAuthority.settle with the broker's answer.  A row already   *)
(* settled otherwise is a conflict: the adapter raises and drops the answer. *)
SettleWith(i, m, a) ==
    \/ /\ Settles(i, m, a)
       /\ row' = [row EXCEPT ![i].status = "settled",
                             ![i].charged = ChargeOf(i, a),
                             ![i].outcome = OutcomeOf(a)]
       /\ UNCHANGED refused
    \/ /\ ~Settles(i, m, a)
       /\ refused' = IF answer[i] = Unanswered THEN refused ELSE refused \cup {i}
       /\ UNCHANGED row

Answered(i, m) ==
    /\ client[i][m].pc = "wait"
    /\ answer[i] # Unanswered
    /\ SettleWith(i, m, answer[i])
    /\ Finish(i, m)
    /\ UNCHANGED <<now, head, published, running, answer>>

(* The answer of a request that was turned away.                             *)
FailureAnswered(i, m) ==
    /\ client[i][m].pc = "refused"
    /\ SettleWith(i, m, Failure)
    /\ Finish(i, m)
    /\ UNCHANGED <<now, head, published, running, answer>>

(* Mutant of Unknown: the timeout of a call frees its slot.                  *)
UnknownFrees(i, m) ==
    /\ client[i][m].pc \in {"send", "wait", "refused"}
    /\ row' = IF row[i].status = "dispatched" /\ row[i].policy = client[i][m].policy
              THEN [row EXCEPT ![i].status = "settled", ![i].charged = Reserve[i],
                               ![i].outcome = "transport_or_protocol_unknown"]
              ELSE row
    /\ Finish(i, m)
    /\ UNCHANGED <<now, head, published, running, answer, refused>>

(* Timeout, reset connection or malformed answer after dispatch: the charge  *)
(* and the slot stay (settle with transport_or_protocol_unknown).            *)
Unknown(i, m) ==
    /\ client[i][m].pc \in {"send", "wait", "refused"}
    /\ row' = IF row[i].status = "dispatched" /\ row[i].policy = client[i][m].policy
              THEN [row EXCEPT ![i].charged = Reserve[i],
                               ![i].outcome = "transport_or_protocol_unknown"]
              ELSE row
    /\ Finish(i, m)
    /\ UNCHANGED <<now, head, published, running, answer, refused>>

(* The process dies between two transactions.                                *)
Crash(i, m) ==
    /\ client[i][m].pc \notin {"idle", "done"}
    /\ Finish(i, m)
    /\ UNCHANGED <<now, head, published, row, running, answer, refused>>

(* SharedCapacityAuthority.activate: the head moves, usage is not reset.     *)
Activate(p) ==
    /\ p # head
    /\ head' = p
    /\ published' = published \cup {p}
    /\ UNCHANGED <<now, row, client, running, answer, refused>>

Tick ==
    /\ now < MaxTime
    /\ now' = now + 1
    /\ UNCHANGED <<head, published, row, client, running, answer, refused>>

-----------------------------------------------------------------------------
Init ==
    /\ now = 0
    /\ head = First
    /\ published = {First}
    /\ row = [i \in Calls |-> NoRow]
    /\ client = [i \in Calls |-> [m \in Modes |-> Idle]]
    /\ running = {}
    /\ answer = [i \in Calls |-> Unanswered]
    /\ refused = {}
    /\ setting \in Settings

ClientStep(i, m) ==
    \/ ReserveCapacity(i, m)
    \/ ConnectFails(i, m)
    \/ Dispatch(i, m)
    \/ Send(i, m)
    \/ TurnedAway(i, m)
    \/ Answered(i, m)
    \/ FailureAnswered(i, m)
    \/ Unknown(i, m)

Next ==
    /\ \/ \E i \in setting.calls, m \in Modes :
             Begin(i, m) \/ ClientStep(i, m) \/ Crash(i, m)
       \/ \E i \in setting.calls : ProviderReturns(i) \/ BrokerTimesOut(i)
       \/ \E p \in setting.policies : Activate(p)
       \/ Tick
    /\ UNCHANGED setting

Spec == Init /\ [][Next]_<<vars, setting>>

-----------------------------------------------------------------------------
(* Properties *)

Clients == [pc : {"idle", "start", "connect", "send", "wait", "refused", "done"},
            policy : Policies, at : Nat, left : Nat]
Rows == [status : Statuses, policy : Policies, day : Nat, expires : Nat,
         charged : Nat, outcome : Outcomes]

(* The shape of the file, the processes and the provider.                    *)
TypeOK ==
    /\ now \in Nat
    /\ head \in published
    /\ published \subseteq Policies
    /\ row \in [Calls -> Rows]
    /\ client \in [Calls -> [Modes -> Clients]]
    /\ running \subseteq Calls
    /\ answer \in [Calls -> Answers \cup {Unanswered}]
    /\ refused \subseteq Calls
    /\ setting \in Settings

(* The request of a call got past the broker's admission.                    *)
Sent(i) == i \in running \/ answer[i] # Unanswered

(* Whatever the processes of the host do, the reservations that hold a slot  *)
(* never outnumber what some published policy allows (reserve, under one     *)
(* write lock, expiring first and counting the open rows of every day).      *)
ConcurrencyBound ==
    \E p \in published : Cardinality(Open) <= MaxConcurrency[p]

(* A day's reservations and settlements stay within a published policy's     *)
(* daily caps, except for what a call cost above the maximum it reserved:    *)
(* no order of expiry, cancellation, settlement and replay books a day twice.*)
DayBound ==
    \A d \in 0 .. Day(MaxTime) : OfDay(d) # {} =>
        /\ \E p \in published : Cardinality(OfDay(d)) <= MaxCalls[p]
        /\ \E p \in published :
              MapThenSumSet(LAMBDA i : IF Charge(i) < Reserve[i] THEN Charge(i)
                                       ELSE Reserve[i], OfDay(d)) <= MaxCost[p]

(* A reservation that expired undispatched was never sent: the expiry in     *)
(* another process's reserve and mark_dispatched exclude each other.         *)
ExpiredNeverSent ==
    \A i \in Calls : row[i].status = "expired" => ~Sent(i)

(* A settlement stands: no replay, late timeout or duplicate caller changes  *)
(* the charge or the outcome of a settled call.                              *)
SettledIsFinal ==
    [][\A i \in Calls : row[i].status = "settled" => row'[i] = row[i]]_vars

(* A call that went past the broker is on the books: dispatched, or settled  *)
(* by the broker's answer, never settled as definitely_not_sent at cost 0.   *)
(* Left out are the calls whose row a cancel may settle at 0 under a second  *)
(* exchange: the adapter's own retry, or an overlapping caller.              *)
NeverFree ==
    Retries = 0 => \A i \in Calls \ Overlap : Sent(i) =>
        \/ row[i].status = "dispatched"
        \/ row[i].status = "settled" /\ row[i].outcome # "definitely_not_sent"

(* While the provider works on a call, the call holds its concurrency slot,  *)
(* whatever its callers saw, timed out on or died of; unless the broker said *)
(* TIMEOUT before the provider stopped, or a second exchange sent it.        *)
SlotHeld ==
    ~TimedAnswers /\ Retries = 0 =>
        \A i \in running \ Overlap : row[i].status = "dispatched"

(* What the provider answered is always accepted by the settlement, as long  *)
(* as the call has one caller at a time and one answer.                      *)
AnswerKept == ~TimedAnswers /\ Retries = 0 => refused \subseteq Overlap

(* What the file says of a call is true of the provider: rows are well       *)
(* formed, and no order of expiry, dispatch, cancellation, timeout, replay   *)
(* and death leaves a call off the books that the provider got.              *)
OnTheBooks == TypeOK /\ ExpiredNeverSent /\ NeverFree /\ SlotHeld /\ AnswerKept
=============================================================================
