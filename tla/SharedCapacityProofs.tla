------------------------ MODULE SharedCapacityProofs ------------------------
(***************************************************************************)
(* Theorems about the shared model capacity for any number of calls,        *)
(* policies and settings, and without a bound on the clock.                 *)
(***************************************************************************)
EXTENDS SharedCapacity, FiniteSums

-----------------------------------------------------------------------------
(* The inductive invariant *)

AtBroker == {"send", "wait", "refused"}

(* A reservation that was not marked dispatched belongs to a call nobody has *)
(* sent and nobody is about to send.                                         *)
UndispatchedUnsent(i) ==
    row[i].status \in {"none", "reserved", "expired"} =>
        ~Sent(i) /\ \A m \in Modes : client[i][m].pc \notin AtBroker

(* A settled row carries the outcome of a settlement.                        *)
SettledOutcome(i) ==
    row[i].status = "settled" =>
        row[i].outcome \in {"definitely_not_sent", "broker_succeeded", "broker_failed"}

(* A caller past its reservation is bound to the policy of the row.          *)
PolicyKept(i) ==
    \A m \in Modes : client[i][m].pc \in {"connect"} \cup AtBroker =>
        row[i].status # "none" /\ row[i].policy = client[i][m].policy

(* A call without a second exchange: its first caller goes through the file  *)
(* alone, replays come after it, and who was turned away sent nothing.       *)
Alone(i) == Retries = 0 /\ i \notin Overlap
OneCaller(i) ==
    LET first == client[i]["execute"]
    IN  /\ first.left = 0
        /\ client[i]["replay"].left = 0
        /\ client[i]["replay"].pc # "idle" => first.pc = "done"
        /\ first.pc \in {"idle", "start"} => row[i].status = "none"
        /\ first.pc = "connect" => row[i].status \in {"reserved", "expired"}
        /\ first.pc \in AtBroker => row[i].status = "dispatched"
        /\ \A m \in Modes : client[i][m].pc = "refused" => ~Sent(i)
        /\ Sent(i) /\ row[i].status = "settled" => row[i].outcome # "definitely_not_sent"

(* Such a call holds its slot while the provider works on it, and is settled *)
(* by what the provider answered.                                            *)
AnswerSettles(i) ==
    /\ i \in running => answer[i] = Unanswered /\ row[i].status = "dispatched"
    /\ answer[i] # Unanswered /\ row[i].status = "settled" =>
          /\ row[i].charged = ChargeOf(i, answer[i])
          /\ row[i].outcome = OutcomeOf(answer[i])
    /\ i \notin refused

CallOK(i) ==
    Alone(i) => OneCaller(i) /\ (~TimedAnswers => AnswerSettles(i))

CallInv(i) ==
    /\ UndispatchedUnsent(i)
    /\ SettledOutcome(i)
    /\ PolicyKept(i)
    /\ CallOK(i)

IndInv == TypeOK /\ \A i \in Calls : CallInv(i)

-----------------------------------------------------------------------------
(* Clients and rows *)

(* The settings of a behaviour are numbers and calls.                        *)
LEMMA SettingType ==
    ASSUME TypeOK
    PROVE  Retries \in Nat /\ Overlap \subseteq Calls /\ TimedAnswers \in BOOLEAN
BY CapacityAssumption DEF TypeOK, Retries, Overlap, TimedAnswers

(* A step of one caller touches no other.                                    *)
LEMMA StepClient ==
    ASSUME TypeOK, NEW i \in Calls, NEW m \in Modes, NEW c \in Clients, Step(i, m, c)
    PROVE  /\ client' \in [Calls -> [Modes -> Clients]]
           /\ client'[i][m] = c
           /\ \A j \in Calls, n \in Modes :
                 j # i \/ n # m => client'[j][n] = client[j][n]
BY DEF TypeOK, Step

(* Finishing leaves a caller that is done or, for a replay, idle.            *)
LEMMA FinishClient ==
    ASSUME TypeOK, NEW i \in Calls, NEW m \in Modes, Finish(i, m)
    PROVE  /\ client' \in [Calls -> [Modes -> Clients]]
           /\ client'[i][m].pc = IF m = "execute" THEN "done" ELSE "idle"
           /\ client'[i][m].left = 0
           /\ \A j \in Calls, n \in Modes :
                 j # i \/ n # m => client'[j][n] = client[j][n]
<1> DEFINE c == IF m = "execute" THEN Done ELSE Idle
<1>1. /\ c \in Clients
      /\ c.pc = IF m = "execute" THEN "done" ELSE "idle"
      /\ c.left = 0
  BY CapacityAssumption DEF Done, Idle, Clients
<1>2. Step(i, m, c)
  BY DEF Finish
<1> QED BY <1>1, <1>2, StepClient

(* Going on keeps what a caller is bound to.                                 *)
LEMMA GotoClient ==
    ASSUME TypeOK, NEW i \in Calls, NEW m \in Modes, NEW at \in Nat,
           NEW pc \in {"idle", "start", "connect", "send", "wait", "refused", "done"},
           Goto(i, m, pc, at)
    PROVE  /\ client' \in [Calls -> [Modes -> Clients]]
           /\ client'[i][m].pc = pc
           /\ client'[i][m].policy = client[i][m].policy
           /\ client'[i][m].left = client[i][m].left
           /\ \A j \in Calls, n \in Modes :
                 j # i \/ n # m => client'[j][n] = client[j][n]
<1> DEFINE c == [client[i][m] EXCEPT !.pc = pc, !.at = at]
<1>0. client[i][m] \in Clients
  BY DEF TypeOK
<1>1. /\ c \in Clients
      /\ c.pc = pc /\ c.policy = client[i][m].policy /\ c.left = client[i][m].left
  BY <1>0 DEF Clients
<1>2. Step(i, m, c)
  BY DEF Goto
<1> HIDE DEF c
<1>3. /\ client' \in [Calls -> [Modes -> Clients]]
      /\ client'[i][m] = c
      /\ \A j \in Calls, n \in Modes : j # i \/ n # m => client'[j][n] = client[j][n]
  BY <1>1, <1>2, StepClient, ZenonT(40)
<1> QED BY <1>1, <1>3

(* A settlement's write.                                                     *)
SettlesRow(i, k, o) ==
    row' = [row EXCEPT ![i].status = "settled", ![i].charged = k, ![i].outcome = o]

(* Settling one call restates its row and no other.                          *)
LEMMA RowSettled ==
    ASSUME TypeOK, NEW i \in Calls, NEW k \in Nat, NEW o \in Outcomes,
           SettlesRow(i, k, o)
    PROVE  /\ row' \in [Calls -> Rows]
           /\ row'[i].status = "settled" /\ row'[i].charged = k /\ row'[i].outcome = o
           /\ row'[i].policy = row[i].policy /\ row'[i].day = row[i].day
           /\ \A j \in Calls : j # i => row'[j] = row[j]
<1>1. row[i] \in Rows /\ "settled" \in Statuses
  BY DEF TypeOK, Statuses
<1>2. row'[i] = [row[i] EXCEPT !.status = "settled", !.charged = k, !.outcome = o]
  BY DEF TypeOK, SettlesRow
<1>3. /\ row'[i] \in Rows
      /\ row'[i].status = "settled" /\ row'[i].charged = k /\ row'[i].outcome = o
      /\ row'[i].policy = row[i].policy /\ row'[i].day = row[i].day
  <2>1. row'[i] = [status |-> "settled", policy |-> row[i].policy, day |-> row[i].day,
                   expires |-> row[i].expires, charged |-> k, outcome |-> o]
    BY <1>1, <1>2 DEF Rows
  <2>2. row[i].policy \in Policies /\ row[i].day \in Nat /\ row[i].expires \in Nat
    BY <1>1 DEF Rows
  <2> QED BY <1>1, <2>1, <2>2 DEF Rows
<1>4. \A j \in Calls : j # i => row'[j] = row[j]
  BY DEF TypeOK, SettlesRow
<1>5. DOMAIN row' = Calls /\ row' = [j \in Calls |-> row'[j]]
  BY DEF TypeOK, SettlesRow
<1>6. \A j \in Calls : row'[j] \in Rows
  BY <1>3, <1>4 DEF TypeOK
<1> QED BY <1>3, <1>4, <1>5, <1>6

(* An answer stands for a charge and an outcome.                             *)
LEMMA AnswerMeaning ==
    ASSUME NEW i \in Calls, NEW a \in Answers \cup {Unanswered}
    PROVE  /\ ChargeOf(i, a) \in Nat
           /\ OutcomeOf(a) \in {"broker_succeeded", "broker_failed"}
<1>1. a.cost \subseteq Nat
  BY CapacityAssumption DEF Answers, Unanswered, Failure, Success
<1>2. a.cost # {} => (CHOOSE k \in a.cost : TRUE) \in a.cost
  OBVIOUS
<1>3. Reserve[i] \in Nat
  BY CapacityAssumption
<1>4. ChargeOf(i, a) \in Nat
  BY <1>1, <1>2, <1>3 DEF ChargeOf
<1>5. OutcomeOf(a) \in {"broker_succeeded", "broker_failed"}
  BY DEF OutcomeOf
<1> QED BY <1>4, <1>5

-----------------------------------------------------------------------------
(* Preservation *)

(* A call that a step does not touch keeps its part of the invariant.        *)
LEMMA Untouched ==
    ASSUME NEW j \in Calls, CallInv(j),
           row'[j] = row[j],
           \A n \in Modes : client'[j][n] = client[j][n],
           j \in running' <=> j \in running,
           answer'[j] = answer[j],
           j \in refused' <=> j \in refused,
           setting' = setting
    PROVE  CallInv(j)'
<1>1. /\ Retries' = Retries /\ Overlap' = Overlap /\ TimedAnswers' = TimedAnswers
      /\ Sent(j)' <=> Sent(j)
      /\ Alone(j)' <=> Alone(j)
  BY DEF Retries, Overlap, TimedAnswers, Sent, Alone
<1>2. UndispatchedUnsent(j)'
  BY <1>1 DEF CallInv, UndispatchedUnsent
<1>3. SettledOutcome(j)'
  BY DEF CallInv, SettledOutcome
<1>4. PolicyKept(j)'
  BY DEF CallInv, PolicyKept
<1>5. OneCaller(j) => OneCaller(j)'
  BY <1>1 DEF OneCaller, Modes
<1>6. AnswerSettles(j) => AnswerSettles(j)'
  BY DEF AnswerSettles, ChargeOf, OutcomeOf
<1>7. CallOK(j)'
  BY <1>1, <1>5, <1>6 DEF CallInv, CallOK
<1> QED BY <1>2, <1>3, <1>4, <1>7 DEF CallInv

(* A caller binds itself to a policy.                                        *)
LEMMA BeginInv ==
    ASSUME IndInv, NEW i \in Calls, NEW m \in Modes, Begin(i, m), setting' = setting
    PROVE  IndInv'
<1>1. TypeOK /\ CallInv(i)
  BY DEF IndInv
<1>2. PICK p \in published :
        Step(i, m, [pc |-> "start", policy |-> p, at |-> now,
                    left |-> IF m = "execute" THEN Retries ELSE 0])
  BY DEF Begin
<1> DEFINE c == [pc |-> "start", policy |-> p, at |-> now,
                 left |-> IF m = "execute" THEN Retries ELSE 0]
<1>3. /\ c \in Clients
      /\ c.pc = "start" /\ c.left = IF m = "execute" THEN Retries ELSE 0
  BY <1>1, SettingType DEF TypeOK, Clients
<1>4. /\ client' \in [Calls -> [Modes -> Clients]]
      /\ client'[i][m] = c
      /\ \A j \in Calls, n \in Modes : j # i \/ n # m => client'[j][n] = client[j][n]
  BY <1>1, <1>2, <1>3, StepClient
<1>5. UNCHANGED <<now, head, published, row, running, answer, refused, setting>>
  BY DEF Begin
<1>6. TypeOK'
  BY <1>1, <1>4, <1>5 DEF TypeOK
<1>7. ASSUME NEW j \in Calls, j # i PROVE CallInv(j)'
  BY <1>4, <1>5, <1>7, Untouched DEF IndInv
<1>8. CallInv(i)'
  <2> HIDE DEF c
  <2>1. UndispatchedUnsent(i)'
    BY <1>1, <1>3, <1>4, <1>5 DEF CallInv, UndispatchedUnsent, Sent, AtBroker
  <2>2. SettledOutcome(i)' /\ PolicyKept(i)'
    BY <1>1, <1>3, <1>4, <1>5 DEF CallInv, SettledOutcome, PolicyKept, AtBroker
  <2>3. Alone(i)' => Alone(i)
    BY <1>5 DEF Alone, Retries, Overlap
  <2>4. Alone(i) /\ OneCaller(i) => OneCaller(i)'
    <3> SUFFICES ASSUME Alone(i), OneCaller(i) PROVE OneCaller(i)'
      OBVIOUS
    <3>1. client[i][m].pc = "idle"
      BY DEF Begin
    <3>2. m = "replay" => client[i]["execute"].pc = "done"
      BY DEF Begin, MayReplay, Alone
    <3>3. CASE m = "execute"
      BY <1>3, <1>4, <1>5, <3>1, <3>3 DEF OneCaller, Alone, Modes, AtBroker, Sent
    <3>4. CASE m = "replay"
      BY <1>3, <1>4, <1>5, <3>1, <3>2, <3>4 DEF OneCaller, Alone, Modes, AtBroker, Sent
    <3> QED BY <3>3, <3>4 DEF Modes
  <2>5. AnswerSettles(i) => AnswerSettles(i)'
    BY <1>5 DEF AnswerSettles, ChargeOf, OutcomeOf
  <2>6. CallOK(i)'
    BY <1>1, <1>5, <2>3, <2>4, <2>5 DEF CallInv, CallOK, TimedAnswers
  <2> QED BY <2>1, <2>2, <2>6 DEF CallInv
<1> QED BY <1>6, <1>7, <1>8 DEF IndInv



(* A caller that finishes without a word in the file.                        *)
LEMMA FinishInv ==
    ASSUME IndInv, NEW i \in Calls, NEW m \in Modes,
           client[i][m].pc # "idle", Finish(i, m),
           UNCHANGED <<now, head, published, row, running, answer, refused, setting>>
    PROVE  IndInv'
<1>1. TypeOK /\ CallInv(i)
  BY DEF IndInv
<1>2. /\ client' \in [Calls -> [Modes -> Clients]]
      /\ client'[i][m].pc = IF m = "execute" THEN "done" ELSE "idle"
      /\ client'[i][m].left = 0
      /\ \A j \in Calls, n \in Modes : j # i \/ n # m => client'[j][n] = client[j][n]
  BY <1>1, FinishClient
<1>3. TypeOK'
  BY <1>1, <1>2 DEF TypeOK
<1>4. ASSUME NEW j \in Calls, j # i PROVE CallInv(j)'
  BY <1>2, <1>4, Untouched DEF IndInv
<1>5. CallInv(i)'
  <2>1. UndispatchedUnsent(i)'
    BY <1>1, <1>2 DEF CallInv, UndispatchedUnsent, Sent, AtBroker
  <2>2. SettledOutcome(i)' /\ PolicyKept(i)'
    BY <1>1, <1>2 DEF CallInv, SettledOutcome, PolicyKept, AtBroker
  <2>3. Alone(i)' => Alone(i)
    BY DEF Alone, Retries, Overlap
  <2>4. OneCaller(i) => OneCaller(i)'
    BY <1>2 DEF OneCaller, Modes, AtBroker, Sent
  <2>5. AnswerSettles(i) => AnswerSettles(i)'
    BY DEF AnswerSettles, ChargeOf, OutcomeOf
  <2>6. CallOK(i)'
    BY <1>1, <2>3, <2>4, <2>5 DEF CallInv, CallOK, TimedAnswers
  <2> QED BY <2>1, <2>2, <2>6 DEF CallInv
<1> QED BY <1>3, <1>4, <1>5 DEF IndInv

(* A reservation that another call's reserve expires.                        *)
LEMMA ExpireInv ==
    ASSUME TypeOK, NEW j \in Calls, CallInv(j), row[j].status = "reserved",
           row'[j] = Expired(row[j]),
           \A n \in Modes : client'[j][n] = client[j][n],
           UNCHANGED <<running, answer, refused, setting>>
    PROVE  CallInv(j)' /\ row'[j] \in Rows
<1>1. row[j] \in Rows
  BY DEF TypeOK
<1>2. /\ row'[j] \in Rows
      /\ row'[j].status = "expired" /\ row'[j].policy = row[j].policy
  <2>1. row'[j] = [status |-> "expired", policy |-> row[j].policy, day |-> row[j].day,
                   expires |-> row[j].expires, charged |-> 0,
                   outcome |-> "undispatched_expired"]
    BY <1>1 DEF Expired, Rows
  <2>2. row[j].policy \in Policies /\ row[j].day \in Nat /\ row[j].expires \in Nat
    BY <1>1 DEF Rows
  <2> QED BY <2>1, <2>2 DEF Rows, Statuses, Outcomes
<1>3. UndispatchedUnsent(j)'
  BY <1>2 DEF CallInv, UndispatchedUnsent, Sent
<1>4. SettledOutcome(j)' /\ PolicyKept(j)'
  BY <1>2 DEF CallInv, SettledOutcome, PolicyKept
<1>5. Alone(j)' => Alone(j)
  BY DEF Alone, Retries, Overlap
<1>6. OneCaller(j) => OneCaller(j)'
  BY <1>2 DEF OneCaller, Modes, AtBroker, Sent
<1>7. AnswerSettles(j) => AnswerSettles(j)'
  BY <1>2 DEF AnswerSettles
<1>8. CallOK(j)'
  BY <1>5, <1>6, <1>7 DEF CallInv, CallOK, TimedAnswers
<1> QED BY <1>2, <1>3, <1>4, <1>8 DEF CallInv

(* reserve books a call that had no row and expires the stale ones.          *)
LEMMA BookInv ==
    ASSUME IndInv, NEW i \in Calls, NEW m \in Modes, NEW t \in Nat, NEW at \in Nat,
           client[i][m].pc = "start", row[i].status = "none",
           row' = [j \in Calls |->
                     IF j = i THEN Booked(client[i][m].policy, t, at + Window)
                     ELSE IF j \in Stale(t) THEN Expired(row[j]) ELSE row[j]],
           Goto(i, m, "connect", t),
           UNCHANGED <<now, head, published, running, answer, refused, setting>>
    PROVE  IndInv'
<1>1. TypeOK /\ CallInv(i)
  BY DEF IndInv
<1>2. /\ client' \in [Calls -> [Modes -> Clients]]
      /\ client'[i][m].pc = "connect"
      /\ client'[i][m].policy = client[i][m].policy
      /\ client'[i][m].left = client[i][m].left
      /\ \A j \in Calls, n \in Modes : j # i \/ n # m => client'[j][n] = client[j][n]
  BY <1>1, GotoClient
<1>3. client[i][m].policy \in Policies
  BY <1>1 DEF TypeOK, Clients
<1>4. /\ row'[i] \in Rows
      /\ row'[i].status = "reserved" /\ row'[i].policy = client[i][m].policy
  <2>1. at + Window \in Nat
    BY CapacityAssumption
  <2>2. Day(t) \in Nat
    BY CapacityAssumption DEF Day
  <2>3. row'[i] = Booked(client[i][m].policy, t, at + Window)
    OBVIOUS
  <2> QED BY <1>3, <2>1, <2>2, <2>3 DEF Booked, Rows, Statuses, Outcomes
<1>5. ASSUME NEW j \in Calls, j # i PROVE CallInv(j)' /\ row'[j] \in Rows
  <2>1. CallInv(j)
    BY DEF IndInv
  <2>2. CASE j \in Stale(t)
    <3>1. row[j].status = "reserved" /\ row'[j] = Expired(row[j])
      BY <1>5, <2>2 DEF Stale
    <3> QED BY <1>1, <1>2, <1>5, <2>1, <3>1, ExpireInv
  <2>3. CASE j \notin Stale(t)
    <3>1. row'[j] = row[j]
      BY <1>5, <2>3
    <3>2. row'[j] \in Rows
      BY <1>1, <3>1 DEF TypeOK
    <3> QED BY <1>2, <1>5, <2>1, <3>1, <3>2, Untouched
  <2> QED BY <2>2, <2>3
<1>6. TypeOK'
  <2>1. row' \in [Calls -> Rows]
    <3>1. \A j \in Calls : row'[j] \in Rows
      BY <1>4, <1>5
    <3> QED BY <3>1
  <2> QED BY <1>1, <1>2, <2>1 DEF TypeOK
<1>7. CallInv(i)'
  <2>1. ~Sent(i) /\ \A n \in Modes : client[i][n].pc \notin {"connect"} \cup AtBroker
    BY <1>1 DEF CallInv, UndispatchedUnsent, PolicyKept
  <2>2. UndispatchedUnsent(i)'
    BY <1>2, <2>1 DEF UndispatchedUnsent, Sent, AtBroker
  <2>3. SettledOutcome(i)' /\ PolicyKept(i)'
    BY <1>2, <1>4, <2>1 DEF SettledOutcome, PolicyKept
  <2>4. Alone(i)' => Alone(i)
    BY DEF Alone, Retries, Overlap
  <2>5. OneCaller(i) => OneCaller(i)'
    BY <1>2, <1>4, <2>1 DEF OneCaller, Modes, AtBroker, Sent
  <2>6. AnswerSettles(i) => AnswerSettles(i)'
    BY <1>4, <2>1 DEF AnswerSettles, Sent
  <2>7. CallOK(i)'
    BY <1>1, <2>4, <2>5, <2>6 DEF CallInv, CallOK, TimedAnswers
  <2> QED BY <2>2, <2>3, <2>7 DEF CallInv
<1> QED BY <1>5, <1>6, <1>7 DEF IndInv

(* A caller whose row is already there goes on to the broker.                *)
LEMMA FoundInv ==
    ASSUME IndInv, NEW i \in Calls, NEW m \in Modes, NEW t \in Nat,
           client[i][m].pc = "start", row[i].status # "none",
           row[i].policy = client[i][m].policy, Goto(i, m, "connect", t),
           UNCHANGED <<now, head, published, row, running, answer, refused, setting>>
    PROVE  IndInv'
<1>1. TypeOK /\ CallInv(i)
  BY DEF IndInv
<1>2. /\ client' \in [Calls -> [Modes -> Clients]]
      /\ client'[i][m].pc = "connect"
      /\ client'[i][m].policy = client[i][m].policy
      /\ client'[i][m].left = client[i][m].left
      /\ \A j \in Calls, n \in Modes : j # i \/ n # m => client'[j][n] = client[j][n]
  BY <1>1, GotoClient
<1>3. TypeOK'
  BY <1>1, <1>2 DEF TypeOK
<1>4. ASSUME NEW j \in Calls, j # i PROVE CallInv(j)'
  BY <1>2, <1>4, Untouched DEF IndInv
<1>5. CallInv(i)'
  <2>1. UndispatchedUnsent(i)'
    BY <1>1, <1>2 DEF CallInv, UndispatchedUnsent, Sent, AtBroker
  <2>2. SettledOutcome(i)' /\ PolicyKept(i)'
    BY <1>1, <1>2 DEF CallInv, SettledOutcome, PolicyKept
  <2>3. Alone(i)' => Alone(i)
    BY DEF Alone, Retries, Overlap
  <2>4. OneCaller(i) => OneCaller(i)'
    BY <1>2 DEF OneCaller, Modes, AtBroker, Sent
  <2>5. AnswerSettles(i) => AnswerSettles(i)'
    BY DEF AnswerSettles, ChargeOf, OutcomeOf
  <2>6. CallOK(i)'
    BY <1>1, <2>3, <2>4, <2>5 DEF CallInv, CallOK, TimedAnswers
  <2> QED BY <2>1, <2>2, <2>6 DEF CallInv
<1> QED BY <1>3, <1>4, <1>5 DEF IndInv

(* reserve, whatever it finds.                                               *)
LEMMA ReserveInv ==
    ASSUME IndInv, NEW i \in Calls, NEW m \in Modes, ReserveCapacity(i, m),
           setting' = setting
    PROVE  IndInv'
<1>1. client[i][m] \in Clients /\ now \in Nat
  BY DEF IndInv, TypeOK
<1>2. PICK t \in client[i][m].at .. now :
        LET c == client[i][m]
            expires == c.at + Window
            stale == Stale(t)
        IN  /\ c.pc = "start"
            /\ \/ /\ expires > t
                  /\ row[i].status # "none"
                  /\ row[i].policy = c.policy
                  /\ Goto(i, m, "connect", t)
                  /\ UNCHANGED row
               \/ /\ expires > t
                  /\ row[i].status = "none"
                  /\ head = c.policy
                  /\ HasRoom(c.policy, i, Day(t), stale)
                  /\ row' = [j \in Calls |-> IF j = i THEN Booked(c.policy, t, expires)
                                             ELSE IF j \in stale THEN Expired(row[j])
                                             ELSE row[j]]
                  /\ Goto(i, m, "connect", t)
               \/ Finish(i, m) /\ UNCHANGED row
  BY DEF ReserveCapacity
<1>3. t \in Nat /\ client[i][m].at \in Nat
  BY <1>1 DEF Clients
<1>4. UNCHANGED <<now, head, published, running, answer, refused>>
  BY DEF ReserveCapacity
<1>5. CASE /\ row[i].status # "none" /\ row[i].policy = client[i][m].policy
           /\ Goto(i, m, "connect", t) /\ UNCHANGED row
  BY <1>2, <1>3, <1>4, <1>5, FoundInv
<1>6. CASE /\ row[i].status = "none" /\ Goto(i, m, "connect", t)
           /\ row' = [j \in Calls |->
                        IF j = i THEN Booked(client[i][m].policy, t, client[i][m].at + Window)
                        ELSE IF j \in Stale(t) THEN Expired(row[j]) ELSE row[j]]
  BY <1>2, <1>3, <1>4, <1>6, BookInv
<1>7. CASE Finish(i, m) /\ UNCHANGED row
  BY <1>2, <1>4, <1>7, FinishInv
<1> QED BY <1>2, <1>5, <1>6, <1>7

(* cancel_undispatched settles at most the caller's own reservation.         *)
LEMMA CancelRow ==
    ASSUME TypeOK, NEW i \in Calls, NEW m \in Modes, Cancel(i, m)
    PROVE  /\ row' \in [Calls -> Rows]
           /\ row'[i].policy = row[i].policy /\ row'[i].day = row[i].day
           /\ \A j \in Calls : j # i => row'[j] = row[j]
           /\ \/ row'[i] = row[i]
              \/ /\ row[i].status = "reserved"
                 /\ row'[i].status = "settled" /\ row'[i].outcome = "definitely_not_sent"
<1>1. CASE row[i].status = "reserved" /\ row[i].policy = client[i][m].policy
  <2>1. SettlesRow(i, 0, "definitely_not_sent")
    BY <1>1 DEF Cancel, SettlesRow
  <2>2. 0 \in Nat /\ "definitely_not_sent" \in Outcomes
    BY DEF Outcomes
  <2> QED BY <1>1, <2>1, <2>2, RowSettled
<1>2. CASE ~(row[i].status = "reserved" /\ row[i].policy = client[i][m].policy)
  BY <1>2 DEF Cancel, TypeOK
<1> QED BY <1>1, <1>2

(* A caller that gives its exchange up before a byte is sent: alone, it ends. *)
LEMMA CancelInv ==
    ASSUME IndInv, NEW i \in Calls, NEW m \in Modes, client[i][m].pc = "connect",
           Cancel(i, m),
           NEW c \in Clients, Step(i, m, c), c.pc \in {"start", "idle", "done"},
           Alone(i) => c.left = 0 /\ c.pc = (IF m = "execute" THEN "done" ELSE "idle"),
           UNCHANGED <<now, head, published, running, answer, refused, setting>>
    PROVE  IndInv'
<1>1. TypeOK /\ CallInv(i)
  BY DEF IndInv
<1>2. /\ client' \in [Calls -> [Modes -> Clients]]
      /\ client'[i][m] = c
      /\ \A j \in Calls, n \in Modes : j # i \/ n # m => client'[j][n] = client[j][n]
  BY <1>1, StepClient
<1>3. /\ row' \in [Calls -> Rows]
      /\ row'[i].policy = row[i].policy
      /\ \A j \in Calls : j # i => row'[j] = row[j]
      /\ \/ row'[i] = row[i]
         \/ /\ row[i].status = "reserved"
            /\ row'[i].status = "settled" /\ row'[i].outcome = "definitely_not_sent"
  BY <1>1, CancelRow
<1>4. TypeOK'
  BY <1>1, <1>2, <1>3 DEF TypeOK
<1>5. ASSUME NEW j \in Calls, j # i PROVE CallInv(j)'
  BY <1>2, <1>3, <1>5, Untouched DEF IndInv
<1>6. CallInv(i)'
  <2>1. UndispatchedUnsent(i)'
    BY <1>1, <1>2, <1>3 DEF CallInv, UndispatchedUnsent, Sent, AtBroker
  <2>2. SettledOutcome(i)' /\ PolicyKept(i)'
    BY <1>1, <1>2, <1>3 DEF CallInv, SettledOutcome, PolicyKept, AtBroker
  <2>3. Alone(i)' => Alone(i)
    BY DEF Alone, Retries, Overlap
  <2>4. row[i].status = "reserved" => ~Sent(i)
    BY <1>1 DEF CallInv, UndispatchedUnsent
  <2>5. Alone(i) /\ OneCaller(i) => OneCaller(i)'
    BY <1>2, <1>3, <2>4 DEF OneCaller, Modes, AtBroker, Sent
  <2>6. AnswerSettles(i) => AnswerSettles(i)'
    BY <1>3, <2>4 DEF AnswerSettles, ChargeOf, OutcomeOf, Sent
  <2>7. CallOK(i)'
    BY <1>1, <2>3, <2>5, <2>6 DEF CallInv, CallOK, TimedAnswers
  <2> QED BY <2>1, <2>2, <2>7 DEF CallInv
<1> QED BY <1>4, <1>5, <1>6 DEF IndInv

(* The end of a caller is a client state.                                    *)
LEMMA FinishedClient ==
    ASSUME NEW m \in Modes
    PROVE  LET c == IF m = "execute" THEN Done ELSE Idle
           IN  /\ c \in Clients /\ c.left = 0
               /\ c.pc = IF m = "execute" THEN "done" ELSE "idle"
BY CapacityAssumption DEF Done, Idle, Clients

(* A caller that starts over.                                                *)
Retried(r, at, left) == [r EXCEPT !.pc = "start", !.at = at, !.left = left]

(* It is a client state again.                                               *)
LEMMA RetriedClient ==
    ASSUME NEW r \in Clients, NEW at \in Nat, NEW left \in Nat
    PROVE  Retried(r, at, left) \in Clients /\ Retried(r, at, left).pc = "start"
<1> DEFINE p == [r EXCEPT !.pc = "start"]
           q == [p EXCEPT !.at = at]
<1>1. p \in Clients /\ p.pc = "start"
  BY DEF Clients
<1>2. q \in Clients /\ q.pc = "start"
  <2> HIDE DEF p
  <2> QED BY <1>1 DEF Clients
<1>3. [q EXCEPT !.left = left] \in Clients /\ [q EXCEPT !.left = left].pc = "start"
  <2> HIDE DEF q
  <2> QED BY <1>2 DEF Clients
<1>4. Retried(r, at, left) = [q EXCEPT !.left = left]
  BY DEF Retried
<1> QED BY <1>3, <1>4

(* The broker's socket refuses.                                              *)
LEMMA ConnectFailsInv ==
    ASSUME IndInv, NEW i \in Calls, NEW m \in Modes, ConnectFails(i, m),
           setting' = setting
    PROVE  IndInv'
<1>1. TypeOK /\ CallInv(i)
  BY DEF IndInv
<1>2. /\ client[i][m].pc = "connect"
      /\ Cancel(i, m)
      /\ UNCHANGED <<now, head, published, running, answer, refused>>
  BY DEF ConnectFails
<1>3. CASE client[i][m].left > 0
  <2> DEFINE c == [client[i][m] EXCEPT !.pc = "start", !.at = now, !.left = @ - 1]
  <2>1. client[i][m] \in Clients /\ now \in Nat
    BY <1>1 DEF TypeOK
  <2>2. client[i][m].left - 1 \in Nat
    BY <1>3, <2>1 DEF Clients
  <2>3. c = Retried(client[i][m], now, client[i][m].left - 1)
    BY DEF Retried
  <2>4. c \in Clients /\ c.pc = "start"
    <3> HIDE DEF c
    <3> QED BY <2>1, <2>2, <2>3, RetriedClient
  <2>5. Step(i, m, c)
    BY <1>3 DEF ConnectFails
  <2>6. ~Alone(i)
    BY <1>1, <1>3 DEF CallInv, CallOK, OneCaller, Modes
  <2> HIDE DEF c
  <2> QED BY <1>2, <2>4, <2>5, <2>6, CancelInv
<1>4. CASE ~(client[i][m].left > 0)
  <2>1. Finish(i, m)
    BY <1>4 DEF ConnectFails
  <2> QED BY <1>2, <2>1, FinishedClient, CancelInv DEF Finish
<1> QED BY <1>3, <1>4

(* mark_dispatched, or the refusal of it.                                    *)
LEMMA DispatchInv ==
    ASSUME IndInv, NEW i \in Calls, NEW m \in Modes, Dispatch(i, m),
           setting' = setting
    PROVE  IndInv'
<1>1. TypeOK /\ CallInv(i)
  BY DEF IndInv
<1>2. PICK t \in client[i][m].at .. now :
        /\ client[i][m].pc = "connect"
        /\ \/ /\ Dispatchable(client[i][m], row[i], t)
              /\ row' = IF row[i].status = "reserved"
                        THEN [row EXCEPT ![i].status = "dispatched"] ELSE row
              /\ Goto(i, m, "send", 0)
           \/ Cancel(i, m) /\ Finish(i, m)
  BY DEF Dispatch
<1>3. UNCHANGED <<now, head, published, running, answer, refused>>
  BY DEF Dispatch
<1>4. CASE Cancel(i, m) /\ Finish(i, m)
  BY <1>2, <1>3, <1>4, FinishedClient, CancelInv DEF Finish
<1>5. CASE /\ Dispatchable(client[i][m], row[i], t)
           /\ row' = IF row[i].status = "reserved"
                     THEN [row EXCEPT ![i].status = "dispatched"] ELSE row
           /\ Goto(i, m, "send", 0)
  <2>1. /\ client' \in [Calls -> [Modes -> Clients]]
        /\ client'[i][m].pc = "send"
        /\ client'[i][m].policy = client[i][m].policy
        /\ client'[i][m].left = client[i][m].left
        /\ \A j \in Calls, n \in Modes : j # i \/ n # m => client'[j][n] = client[j][n]
    BY <1>1, <1>5, GotoClient
  <2>2. /\ row[i].policy = client[i][m].policy
        /\ row[i].status \in {"reserved", "dispatched", "settled"}
    BY <1>5 DEF Dispatchable
  <2>3. /\ row' \in [Calls -> Rows]
        /\ row'[i].policy = row[i].policy
        /\ \A j \in Calls : j # i => row'[j] = row[j]
        /\ row[i].status = "reserved" => row'[i].status = "dispatched"
        /\ row[i].status # "reserved" => row' = row
    <3>1. row[i] \in Rows
      BY <1>1 DEF TypeOK
    <3>2. CASE row[i].status = "reserved"
      BY <1>1, <1>5, <3>1, <3>2 DEF TypeOK, Rows, Statuses
    <3>3. CASE row[i].status # "reserved"
      BY <1>1, <1>5, <3>3 DEF TypeOK
    <3> QED BY <3>2, <3>3
  <2>4. TypeOK'
    BY <1>1, <1>3, <2>1, <2>3 DEF TypeOK
  <2>5. ASSUME NEW j \in Calls, j # i PROVE CallInv(j)'
    BY <1>3, <2>1, <2>3, <2>5, Untouched DEF IndInv
  <2>6. CallInv(i)'
    <3>1. UndispatchedUnsent(i)'
      BY <2>2, <2>3 DEF UndispatchedUnsent
    <3>2. SettledOutcome(i)'
      BY <1>1, <2>2, <2>3 DEF CallInv, SettledOutcome
    <3>3. PolicyKept(i)'
      BY <1>1, <2>1, <2>2, <2>3 DEF CallInv, PolicyKept, AtBroker
    <3>4. Alone(i)' => Alone(i)
      BY DEF Alone, Retries, Overlap
    <3>5. row[i].status = "reserved" => ~Sent(i)
      BY <1>1 DEF CallInv, UndispatchedUnsent
    <3>6. OneCaller(i) => OneCaller(i)'
      BY <1>2, <1>3, <2>1, <2>2, <2>3, <3>5 DEF OneCaller, Modes, AtBroker, Sent
    <3>7. AnswerSettles(i) => AnswerSettles(i)'
      BY <1>3, <2>2, <2>3, <3>5 DEF AnswerSettles, ChargeOf, OutcomeOf, Sent
    <3>8. CallOK(i)'
      BY <1>1, <3>4, <3>6, <3>7 DEF CallInv, CallOK, TimedAnswers
    <3> QED BY <3>1, <3>2, <3>3, <3>8 DEF CallInv
  <2> QED BY <2>4, <2>5, <2>6 DEF IndInv
<1> QED BY <1>2, <1>4, <1>5

(* A caller past the dispatch waits for an answer or is turned away: its row *)
(* says so, and no other row moves.                                          *)
LEMMA SentRow ==
    ASSUME IndInv, NEW i \in Calls, NEW m \in Modes, client[i][m].pc \in AtBroker
    PROVE  /\ row[i].status \in {"dispatched", "settled"}
           /\ row[i].policy = client[i][m].policy
           /\ Alone(i) /\ m = "execute" => row[i].status = "dispatched"
           /\ Alone(i) /\ client[i][m].pc = "refused" => ~Sent(i)
<1>1. TypeOK /\ CallInv(i)
  BY DEF IndInv
<1>2. row[i].status \in Statuses
  BY <1>1 DEF TypeOK, Rows
<1>3. row[i].status \in {"dispatched", "settled"}
  BY <1>1, <1>2 DEF CallInv, UndispatchedUnsent, Statuses
<1>4. row[i].policy = client[i][m].policy
  BY <1>1 DEF CallInv, PolicyKept
<1>5. Alone(i) => OneCaller(i)
  BY <1>1 DEF CallInv, CallOK
<1> QED BY <1>3, <1>4, <1>5 DEF OneCaller

(* The frame reaches the broker.                                             *)
LEMMA SendInv ==
    ASSUME IndInv, NEW i \in Calls, NEW m \in Modes, Send(i, m), setting' = setting
    PROVE  IndInv'
<1>1. TypeOK /\ CallInv(i)
  BY DEF IndInv
<1>2. /\ client[i][m].pc = "send"
      /\ m = "execute" \/ i \in running \/ answer[i] # Unanswered
      /\ running' = IF m = "execute" /\ i \notin running /\ answer[i] = Unanswered
                    THEN running \cup {i} ELSE running
      /\ UNCHANGED <<now, head, published, row, answer, refused>>
  BY DEF Send
<1>3. /\ client' \in [Calls -> [Modes -> Clients]]
      /\ client'[i][m].pc = "wait"
      /\ client'[i][m].policy = client[i][m].policy
      /\ client'[i][m].left = client[i][m].left
      /\ \A j \in Calls, n \in Modes : j # i \/ n # m => client'[j][n] = client[j][n]
  BY <1>1, GotoClient DEF Send
<1>4. /\ row[i].status \in {"dispatched", "settled"}
      /\ Alone(i) /\ m = "execute" => row[i].status = "dispatched"
  BY <1>2, SentRow DEF AtBroker
<1>5. TypeOK'
  BY <1>1, <1>2, <1>3 DEF TypeOK
<1>6. ASSUME NEW j \in Calls, j # i PROVE CallInv(j)'
  <2>1. j \in running' <=> j \in running
    BY <1>2, <1>6
  <2> QED BY <1>2, <1>3, <1>6, <2>1, Untouched DEF IndInv
<1>7. CallInv(i)'
  <2>1. UndispatchedUnsent(i)'
    BY <1>2, <1>4 DEF UndispatchedUnsent
  <2>2. SettledOutcome(i)' /\ PolicyKept(i)'
    BY <1>1, <1>2, <1>3 DEF CallInv, SettledOutcome, PolicyKept, AtBroker
  <2>3. Alone(i)' => Alone(i)
    BY DEF Alone, Retries, Overlap
  <2>4. Alone(i) /\ OneCaller(i) => OneCaller(i)'
    <3> SUFFICES ASSUME Alone(i), OneCaller(i) PROVE OneCaller(i)'
      OBVIOUS
    <3>1. m = "execute" => client[i]["replay"].pc = "idle"
      BY <1>2 DEF OneCaller
    <3>2. m = "replay" => /\ client[i]["execute"].pc = "done"
                          /\ running' = running
      BY <1>2 DEF OneCaller
    <3>3. \A n \in Modes : client'[i][n].pc # "refused"
      BY <1>3, <3>1, <3>2 DEF Modes
    <3>4. Sent(i)' /\ row'[i].status = "settled" =>
            row'[i].outcome # "definitely_not_sent"
      <4>1. row' = row /\ answer' = answer
        BY <1>2
      <4>2. CASE m = "execute"
        BY <1>4, <4>1, <4>2
      <4>3. CASE m = "replay"
        BY <3>2, <4>1, <4>3 DEF OneCaller, Sent
      <4> QED BY <4>2, <4>3 DEF Modes
    <3>5. CASE m = "execute"
      BY <1>2, <1>3, <1>4, <3>1, <3>3, <3>4, <3>5 DEF OneCaller, AtBroker, Modes
    <3>6. CASE m = "replay"
      BY <1>2, <1>3, <1>4, <3>2, <3>3, <3>4, <3>6 DEF OneCaller, AtBroker, Modes
    <3> QED BY <3>5, <3>6 DEF Modes
  <2>5. Alone(i) /\ AnswerSettles(i) => AnswerSettles(i)'
    BY <1>2, <1>4 DEF AnswerSettles, ChargeOf, OutcomeOf, Modes
  <2>6. CallOK(i)'
    BY <1>1, <2>3, <2>4, <2>5 DEF CallInv, CallOK, TimedAnswers
  <2> QED BY <2>1, <2>2, <2>6 DEF CallInv
<1> QED BY <1>5, <1>6, <1>7 DEF IndInv

(* The broker turns the caller away.                                         *)
LEMMA TurnedAwayInv ==
    ASSUME IndInv, NEW i \in Calls, NEW m \in Modes, TurnedAway(i, m),
           setting' = setting
    PROVE  IndInv'
<1>1. TypeOK /\ CallInv(i)
  BY DEF IndInv
<1>2. /\ client[i][m].pc = "send"
      /\ ~Sent(i)
      /\ UNCHANGED <<now, head, published, row, running, answer, refused>>
  BY DEF TurnedAway, Sent
<1>3. /\ client' \in [Calls -> [Modes -> Clients]]
      /\ client'[i][m].pc = "refused"
      /\ client'[i][m].policy = client[i][m].policy
      /\ client'[i][m].left = client[i][m].left
      /\ \A j \in Calls, n \in Modes : j # i \/ n # m => client'[j][n] = client[j][n]
  BY <1>1, GotoClient DEF TurnedAway
<1>4. row[i].status \in {"dispatched", "settled"}
  BY <1>2, SentRow DEF AtBroker
<1>5. TypeOK'
  BY <1>1, <1>2, <1>3 DEF TypeOK
<1>6. ASSUME NEW j \in Calls, j # i PROVE CallInv(j)'
  BY <1>2, <1>3, <1>6, Untouched DEF IndInv
<1>7. CallInv(i)'
  <2>1. UndispatchedUnsent(i)'
    BY <1>2, <1>4 DEF UndispatchedUnsent
  <2>2. SettledOutcome(i)' /\ PolicyKept(i)'
    BY <1>1, <1>2, <1>3 DEF CallInv, SettledOutcome, PolicyKept, AtBroker
  <2>3. Alone(i)' => Alone(i)
    BY DEF Alone, Retries, Overlap
  <2>4. OneCaller(i) => OneCaller(i)'
    BY <1>2, <1>3 DEF OneCaller, AtBroker, Modes, Sent
  <2>5. AnswerSettles(i) => AnswerSettles(i)'
    BY <1>2 DEF AnswerSettles, ChargeOf, OutcomeOf
  <2>6. CallOK(i)'
    BY <1>1, <2>3, <2>4, <2>5 DEF CallInv, CallOK, TimedAnswers
  <2> QED BY <2>1, <2>2, <2>6 DEF CallInv
<1> QED BY <1>5, <1>6, <1>7 DEF IndInv

(* A call the broker answers was sent and stays so.                          *)
LEMMA BrokerInv ==
    ASSUME IndInv, NEW i \in Calls, i \in running,
           running' \in SUBSET Calls, running' \subseteq running,
           running \subseteq running' \cup {i},
           answer' \in [Calls -> Answers \cup {Unanswered}],
           answer'[i] # Unanswered,
           answer[i] # Unanswered => answer'[i] = answer[i],
           \A j \in Calls : j # i => answer'[j] = answer[j],
           TimedAnswers \/ i \notin running',
           UNCHANGED <<now, head, published, row, client, refused, setting>>
    PROVE  IndInv'
<1>1. TypeOK /\ CallInv(i)
  BY DEF IndInv
<1>2. TypeOK'
  BY <1>1 DEF TypeOK
<1>3. ASSUME NEW j \in Calls, j # i PROVE CallInv(j)'
  <2>1. j \in running' <=> j \in running
    BY <1>3
  <2> QED BY <1>3, <2>1, Untouched DEF IndInv
<1>4. CallInv(i)'
  <2>0. Sent(i) /\ Sent(i)'
    BY DEF Sent
  <2>1. UndispatchedUnsent(i)'
    BY <1>1, <2>0 DEF CallInv, UndispatchedUnsent
  <2>2. SettledOutcome(i)' /\ PolicyKept(i)'
    BY <1>1 DEF CallInv, SettledOutcome, PolicyKept
  <2>3. Alone(i)' => Alone(i)
    BY DEF Alone, Retries, Overlap
  <2>4. OneCaller(i) => OneCaller(i)'
    BY <2>0 DEF OneCaller
  <2>5. ~TimedAnswers /\ AnswerSettles(i) => AnswerSettles(i)'
    BY DEF AnswerSettles
  <2>6. CallOK(i)'
    BY <1>1, <2>3, <2>4, <2>5 DEF CallInv, CallOK, TimedAnswers
  <2> QED BY <2>1, <2>2, <2>6 DEF CallInv
<1> QED BY <1>2, <1>3, <1>4 DEF IndInv

(* No answer is the absence of one.                                          *)
LEMMA AnswersDiffer ==
    ASSUME NEW a \in Answers PROVE a # Unanswered
<1>1. CASE a = Failure
  BY <1>1 DEF Failure, Unanswered
<1>2. CASE a # Failure
  <2>1. PICK k \in {{}} \cup {{x} : x \in Costs} : a = Success(k)
    BY <1>2 DEF Answers
  <2> QED BY <2>1 DEF Success, Unanswered
<1> QED BY <1>1, <1>2

(* The provider returns.                                                     *)
LEMMA ProviderInv ==
    ASSUME IndInv, NEW i \in Calls, ProviderReturns(i), setting' = setting
    PROVE  IndInv'
<1>1. /\ i \in running
      /\ running' = running \ {i}
      /\ \/ answer[i] = Unanswered /\ \E a \in Answers : answer' = [answer EXCEPT ![i] = a]
         \/ answer[i] # Unanswered /\ UNCHANGED answer
      /\ UNCHANGED <<now, head, published, row, client, refused>>
  BY DEF ProviderReturns
<1>2. /\ answer \in [Calls -> Answers \cup {Unanswered}]
      /\ running \subseteq Calls
  BY DEF IndInv, TypeOK
<1>3. /\ answer' \in [Calls -> Answers \cup {Unanswered}]
      /\ answer'[i] # Unanswered
      /\ answer[i] # Unanswered => answer'[i] = answer[i]
      /\ \A j \in Calls : j # i => answer'[j] = answer[j]
  BY <1>1, <1>2, AnswersDiffer
<1> QED BY <1>1, <1>2, <1>3, BrokerInv

(* The broker's timer wins.                                                  *)
LEMMA TimesOutInv ==
    ASSUME IndInv, NEW i \in Calls, BrokerTimesOut(i), setting' = setting
    PROVE  IndInv'
<1>1. /\ TimedAnswers /\ i \in running /\ answer[i] = Unanswered
      /\ answer' = [answer EXCEPT ![i] = Failure]
      /\ UNCHANGED <<now, head, published, row, client, running, refused>>
  BY DEF BrokerTimesOut
<1>2. /\ answer \in [Calls -> Answers \cup {Unanswered}]
      /\ running \subseteq Calls
  BY DEF IndInv, TypeOK
<1>3. Failure \in Answers
  BY DEF Answers
<1>4. /\ answer' \in [Calls -> Answers \cup {Unanswered}]
      /\ answer'[i] # Unanswered
      /\ \A j \in Calls : j # i => answer'[j] = answer[j]
  BY <1>1, <1>2, <1>3, AnswersDiffer
<1> QED BY <1>1, <1>2, <1>4, BrokerInv

(* A caller that settles its row and ends.                                   *)
LEMMA SettleRowInv ==
    ASSUME IndInv, NEW i \in Calls, NEW m \in Modes, NEW a \in Answers,
           client[i][m].pc \in {"wait", "refused"},
           client[i][m].pc = "wait" => answer[i] = a,
           SettlesRow(i, ChargeOf(i, a), OutcomeOf(a)), Finish(i, m),
           UNCHANGED <<now, head, published, running, answer, refused, setting>>
    PROVE  IndInv'
<1>1. TypeOK /\ CallInv(i)
  BY DEF IndInv
<1>2. /\ client' \in [Calls -> [Modes -> Clients]]
      /\ client'[i][m].pc = IF m = "execute" THEN "done" ELSE "idle"
      /\ client'[i][m].left = 0
      /\ \A j \in Calls, n \in Modes : j # i \/ n # m => client'[j][n] = client[j][n]
  BY <1>1, FinishClient
<1>3. /\ ChargeOf(i, a) \in Nat
      /\ OutcomeOf(a) \in {"broker_succeeded", "broker_failed"}
  BY AnswerMeaning
<1>4. /\ row' \in [Calls -> Rows]
      /\ row'[i].status = "settled"
      /\ row'[i].charged = ChargeOf(i, a) /\ row'[i].outcome = OutcomeOf(a)
      /\ row'[i].policy = row[i].policy
      /\ \A j \in Calls : j # i => row'[j] = row[j]
  BY <1>1, <1>3, RowSettled DEF Outcomes
<1>5. /\ row[i].status \in {"dispatched", "settled"}
      /\ Alone(i) /\ client[i][m].pc = "refused" => ~Sent(i)
  BY SentRow DEF AtBroker
<1>6. TypeOK'
  BY <1>1, <1>2, <1>4 DEF TypeOK
<1>7. ASSUME NEW j \in Calls, j # i PROVE CallInv(j)'
  BY <1>2, <1>4, <1>7, Untouched DEF IndInv
<1>8. CallInv(i)'
  <2>1. UndispatchedUnsent(i)'
    BY <1>4 DEF UndispatchedUnsent
  <2>2. SettledOutcome(i)'
    BY <1>3, <1>4 DEF SettledOutcome
  <2>3. PolicyKept(i)'
    BY <1>1, <1>2, <1>4 DEF CallInv, PolicyKept, AtBroker
  <2>4. Alone(i)' => Alone(i)
    BY DEF Alone, Retries, Overlap
  <2>5. OneCaller(i) => OneCaller(i)'
    <3>1. OutcomeOf(a) # "definitely_not_sent"
      BY <1>3
    <3>2. client[i][m].pc # "idle" /\ client[i][m].pc # "done"
      OBVIOUS
    <3> QED BY <1>2, <1>4, <3>1, <3>2 DEF OneCaller, AtBroker, Modes, Sent
  <2>6. Alone(i) /\ AnswerSettles(i) => AnswerSettles(i)'
    <3> SUFFICES ASSUME Alone(i), AnswerSettles(i) PROVE AnswerSettles(i)'
      OBVIOUS
    <3>1. i \notin running
      BY <1>5, AnswersDiffer DEF AnswerSettles, Sent
    <3>2. answer[i] # Unanswered => answer[i] = a
      BY <1>5 DEF Sent
    <3> QED BY <1>4, <3>1, <3>2 DEF AnswerSettles, ChargeOf, OutcomeOf
  <2>7. CallOK(i)'
    BY <1>1, <2>4, <2>5, <2>6 DEF CallInv, CallOK, TimedAnswers
  <2> QED BY <2>1, <2>2, <2>3, <2>7 DEF CallInv
<1> QED BY <1>6, <1>7, <1>8 DEF IndInv

(* A caller whose settlement conflicts with the row drops its answer: that   *)
(* never happens to a call with one caller at a time and one answer.         *)
LEMMA ConflictInv ==
    ASSUME IndInv, NEW i \in Calls, NEW m \in Modes, NEW a \in Answers,
           client[i][m].pc \in {"wait", "refused"},
           client[i][m].pc = "wait" => answer[i] = a,
           ~Settles(i, m, a), Finish(i, m),
           refused' = IF answer[i] = Unanswered THEN refused ELSE refused \cup {i},
           UNCHANGED <<now, head, published, row, running, answer, setting>>
    PROVE  IndInv'
<1>1. TypeOK /\ CallInv(i)
  BY DEF IndInv
<1>2. CASE answer[i] = Unanswered
  <2>1. refused' = refused /\ client[i][m].pc # "idle"
    BY <1>2
  <2> QED BY <2>1, FinishInv
<1>3. CASE answer[i] # Unanswered
  <2>1. /\ client' \in [Calls -> [Modes -> Clients]]
        /\ client'[i][m].pc = IF m = "execute" THEN "done" ELSE "idle"
        /\ client'[i][m].left = 0
        /\ \A j \in Calls, n \in Modes : j # i \/ n # m => client'[j][n] = client[j][n]
    BY <1>1, FinishClient
  <2>2. refused' = refused \cup {i}
    BY <1>3
  <2>3. TypeOK'
    BY <1>1, <2>1, <2>2 DEF TypeOK
  <2>4. ASSUME NEW j \in Calls, j # i PROVE CallInv(j)'
    <3>1. j \in refused' <=> j \in refused
      BY <2>2, <2>4
    <3> QED BY <2>1, <2>4, <3>1, Untouched DEF IndInv
  <2>5. CallInv(i)'
    <3>1. UndispatchedUnsent(i)'
      BY <1>1, <2>1 DEF CallInv, UndispatchedUnsent, Sent, AtBroker
    <3>2. SettledOutcome(i)' /\ PolicyKept(i)'
      BY <1>1, <2>1 DEF CallInv, SettledOutcome, PolicyKept, AtBroker
    <3>3. Alone(i)' => Alone(i)
      BY DEF Alone, Retries, Overlap
    <3>4. OneCaller(i) => OneCaller(i)'
      BY <2>1 DEF OneCaller, Modes, AtBroker, Sent
    <3>5. ~(Alone(i) /\ AnswerSettles(i))
      <4> SUFFICES ASSUME Alone(i), AnswerSettles(i) PROVE Settles(i, m, a)
        OBVIOUS
      <4>1. /\ row[i].status \in {"dispatched", "settled"}
            /\ row[i].policy = client[i][m].policy
            /\ client[i][m].pc # "refused"
        BY <1>3, SentRow DEF AtBroker, Sent
      <4>2. answer[i] = a
        BY <4>1
      <4>3. row[i].status = "settled" =>
              row[i].charged = ChargeOf(i, a) /\ row[i].outcome = OutcomeOf(a)
        BY <1>3, <4>2 DEF AnswerSettles
      <4> QED BY <4>1, <4>3 DEF Settles
    <3>6. CallOK(i)'
      BY <1>1, <3>3, <3>4, <3>5 DEF CallInv, CallOK, TimedAnswers
    <3> QED BY <3>1, <3>2, <3>6 DEF CallInv
  <2> QED BY <2>3, <2>4, <2>5 DEF IndInv
<1> QED BY <1>2, <1>3

(* settle with an answer, accepted or in conflict.                           *)
LEMMA SettleInv ==
    ASSUME IndInv, NEW i \in Calls, NEW m \in Modes, NEW a \in Answers,
           client[i][m].pc \in {"wait", "refused"},
           client[i][m].pc = "wait" => answer[i] = a,
           SettleWith(i, m, a), Finish(i, m),
           UNCHANGED <<now, head, published, running, answer, setting>>
    PROVE  IndInv'
<1>1. CASE SettlesRow(i, ChargeOf(i, a), OutcomeOf(a)) /\ UNCHANGED refused
  BY <1>1, SettleRowInv
<1>2. CASE /\ ~Settles(i, m, a)
           /\ refused' = IF answer[i] = Unanswered THEN refused ELSE refused \cup {i}
           /\ UNCHANGED row
  BY <1>2, ConflictInv
<1> QED BY <1>1, <1>2 DEF SettleWith, SettlesRow

(* The settlement of an answer of the broker.                                *)
LEMMA AnsweredInv ==
    ASSUME IndInv, NEW i \in Calls, NEW m \in Modes, Answered(i, m), setting' = setting
    PROVE  IndInv'
<1>1. answer[i] \in Answers
  BY DEF Answered, IndInv, TypeOK
<1> QED BY <1>1, SettleInv DEF Answered

(* The settlement of a request that was turned away.                         *)
LEMMA FailureAnsweredInv ==
    ASSUME IndInv, NEW i \in Calls, NEW m \in Modes, FailureAnswered(i, m),
           setting' = setting
    PROVE  IndInv'
<1>1. Failure \in Answers
  BY DEF Answers
<1> QED BY <1>1, SettleInv DEF FailureAnswered

(* A timeout after dispatch keeps the row dispatched.                        *)
LEMMA UnknownInv ==
    ASSUME IndInv, NEW i \in Calls, NEW m \in Modes, Unknown(i, m), setting' = setting
    PROVE  IndInv'
<1>1. TypeOK /\ CallInv(i)
  BY DEF IndInv
<1>2. /\ client[i][m].pc \in {"send", "wait", "refused"}
      /\ Finish(i, m)
      /\ UNCHANGED <<now, head, published, running, answer, refused>>
  BY DEF Unknown
<1>3. CASE row' = row
  <2>1. client[i][m].pc # "idle"
    BY <1>2
  <2> QED BY <1>2, <1>3, <2>1, FinishInv
<1>4. CASE /\ row[i].status = "dispatched"
           /\ row' = [row EXCEPT ![i].charged = Reserve[i],
                                 ![i].outcome = "transport_or_protocol_unknown"]
  <2>1. /\ client' \in [Calls -> [Modes -> Clients]]
        /\ client'[i][m].pc = IF m = "execute" THEN "done" ELSE "idle"
        /\ client'[i][m].left = 0
        /\ \A j \in Calls, n \in Modes : j # i \/ n # m => client'[j][n] = client[j][n]
    BY <1>1, <1>2, FinishClient
  <2>2. /\ row' \in [Calls -> Rows]
        /\ row'[i].status = "dispatched" /\ row'[i].policy = row[i].policy
        /\ \A j \in Calls : j # i => row'[j] = row[j]
    <3>1. row[i] \in Rows /\ Reserve[i] \in Nat
      BY <1>1, CapacityAssumption DEF TypeOK
    <3>2. row'[i] = [status |-> row[i].status, policy |-> row[i].policy,
                     day |-> row[i].day, expires |-> row[i].expires,
                     charged |-> Reserve[i], outcome |-> "transport_or_protocol_unknown"]
      BY <1>1, <1>4, <3>1 DEF TypeOK, Rows
    <3>3. /\ row[i].policy \in Policies /\ row[i].day \in Nat /\ row[i].expires \in Nat
          /\ row[i].status \in Statuses
      BY <3>1 DEF Rows
    <3>4. row'[i] \in Rows
      BY <3>1, <3>2, <3>3 DEF Rows, Outcomes
    <3>5. \A j \in Calls : j # i => row'[j] = row[j]
      BY <1>1, <1>4 DEF TypeOK
    <3>6. row' = [j \in Calls |-> row'[j]]
      BY <1>1, <1>4 DEF TypeOK
    <3>7. \A j \in Calls : row'[j] \in Rows
      BY <1>1, <3>4, <3>5 DEF TypeOK
    <3> QED BY <1>4, <3>2, <3>5, <3>6, <3>7, ZenonT(40)
  <2>3. TypeOK'
    BY <1>1, <1>2, <2>1, <2>2 DEF TypeOK
  <2>4. ASSUME NEW j \in Calls, j # i PROVE CallInv(j)'
    BY <1>2, <2>1, <2>2, <2>4, Untouched DEF IndInv
  <2>5. CallInv(i)'
    <3>1. UndispatchedUnsent(i)' /\ SettledOutcome(i)'
      BY <2>2 DEF UndispatchedUnsent, SettledOutcome
    <3>2. PolicyKept(i)'
      BY <1>1, <2>1, <2>2 DEF CallInv, PolicyKept, AtBroker
    <3>3. Alone(i)' => Alone(i)
      BY DEF Alone, Retries, Overlap
    <3>4. OneCaller(i) => OneCaller(i)'
      BY <1>2, <1>4, <2>1, <2>2 DEF OneCaller, Modes, AtBroker, Sent
    <3>5. AnswerSettles(i) => AnswerSettles(i)'
      BY <1>2, <2>2 DEF AnswerSettles
    <3>6. CallOK(i)'
      BY <1>1, <3>3, <3>4, <3>5 DEF CallInv, CallOK, TimedAnswers
    <3> QED BY <3>1, <3>2, <3>6 DEF CallInv
  <2> QED BY <2>3, <2>4, <2>5 DEF IndInv
<1> QED BY <1>3, <1>4 DEF Unknown

-----------------------------------------------------------------------------
(* The invariant of every behaviour *)

(* An empty file and idle processes satisfy it.                              *)
LEMMA InitInv == Init => IndInv
<1> SUFFICES ASSUME Init PROVE IndInv
  OBVIOUS
<1>1. NoRow \in Rows /\ Idle \in Clients
  BY CapacityAssumption DEF NoRow, Idle, Rows, Clients, Statuses, Outcomes
<1>2. TypeOK
  <2>1. row \in [Calls -> Rows] /\ client \in [Calls -> [Modes -> Clients]]
    BY <1>1 DEF Init
  <2>2. published \subseteq Policies /\ head \in published
    BY CapacityAssumption DEF Init
  <2>3. answer \in [Calls -> Answers \cup {Unanswered}]
    BY DEF Init
  <2> QED BY <2>1, <2>2, <2>3 DEF Init, TypeOK
<1>3. ASSUME NEW i \in Calls PROVE CallInv(i)
  <2>1. /\ row[i].status = "none"
        /\ ~Sent(i) /\ i \notin refused /\ i \notin running
        /\ \A m \in Modes : client[i][m].pc = "idle" /\ client[i][m].left = 0
    BY DEF Init, NoRow, Idle, Sent
  <2>2. UndispatchedUnsent(i) /\ SettledOutcome(i) /\ PolicyKept(i)
    BY <2>1 DEF UndispatchedUnsent, SettledOutcome, PolicyKept, AtBroker
  <2>3. OneCaller(i)
    BY <2>1 DEF OneCaller, Modes, AtBroker
  <2>4. AnswerSettles(i)
    BY <2>1 DEF AnswerSettles
  <2> QED BY <2>2, <2>3, <2>4 DEF CallInv, CallOK
<1> QED BY <1>2, <1>3 DEF IndInv

(* A step that leaves the calls alone keeps it.                              *)
LEMMA ElsewhereInv ==
    ASSUME IndInv, now' \in Nat, head' \in published', published' \subseteq Policies,
           UNCHANGED <<row, client, running, answer, refused, setting>>
    PROVE  IndInv'
<1>1. TypeOK'
  BY DEF IndInv, TypeOK
<1>2. ASSUME NEW j \in Calls PROVE CallInv(j)'
  BY Untouched DEF IndInv
<1> QED BY <1>1, <1>2 DEF IndInv

(* The calls and policies of a setting are those of the instance.            *)
LEMMA SettingSets ==
    ASSUME TypeOK PROVE setting.calls \subseteq Calls /\ setting.policies \subseteq Policies
BY CapacityAssumption DEF TypeOK

(* Every step keeps the invariant.                                           *)
LEMMA StepInv == IndInv /\ [Next]_<<vars, setting>> => IndInv'
<1> SUFFICES ASSUME IndInv, [Next]_<<vars, setting>> PROVE IndInv'
  OBVIOUS
<1>1. TypeOK /\ setting.calls \subseteq Calls /\ setting.policies \subseteq Policies
  BY SettingSets DEF IndInv
<1>2. CASE UNCHANGED <<vars, setting>>
  BY <1>2, <1>1, ElsewhereInv DEF vars, TypeOK
<1>3. CASE Next
  <2>1. setting' = setting
    BY <1>3 DEF Next
  <2>2. ASSUME NEW i \in Calls, NEW m \in Modes, Begin(i, m) PROVE IndInv'
    BY <2>1, <2>2, BeginInv
  <2>3. ASSUME NEW i \in Calls, NEW m \in Modes, ClientStep(i, m) PROVE IndInv'
    <3>1. CASE ReserveCapacity(i, m)
      BY <2>1, <3>1, ReserveInv
    <3>2. CASE ConnectFails(i, m)
      BY <2>1, <3>2, ConnectFailsInv
    <3>3. CASE Dispatch(i, m)
      BY <2>1, <3>3, DispatchInv
    <3>4. CASE Send(i, m)
      BY <2>1, <3>4, SendInv
    <3>5. CASE TurnedAway(i, m)
      BY <2>1, <3>5, TurnedAwayInv
    <3>6. CASE Answered(i, m)
      BY <2>1, <3>6, AnsweredInv
    <3>7. CASE FailureAnswered(i, m)
      BY <2>1, <3>7, FailureAnsweredInv
    <3>8. CASE Unknown(i, m)
      BY <2>1, <3>8, UnknownInv
    <3> QED BY <2>3, <3>1, <3>2, <3>3, <3>4, <3>5, <3>6, <3>7, <3>8 DEF ClientStep
  <2>4. ASSUME NEW i \in Calls, NEW m \in Modes, Crash(i, m) PROVE IndInv'
    BY <2>1, <2>4, FinishInv DEF Crash
  <2>5. ASSUME NEW i \in Calls, ProviderReturns(i) PROVE IndInv'
    BY <2>1, <2>5, ProviderInv
  <2>6. ASSUME NEW i \in Calls, BrokerTimesOut(i) PROVE IndInv'
    BY <2>1, <2>6, TimesOutInv
  <2>7. ASSUME NEW p \in Policies, Activate(p) PROVE IndInv'
    BY <1>1, <2>1, <2>7, ElsewhereInv DEF Activate, TypeOK
  <2>8. ASSUME Tick PROVE IndInv'
    BY <1>1, <2>1, <2>8, ElsewhereInv DEF Tick, TypeOK
  <2> QED BY <1>1, <1>3, <2>2, <2>3, <2>4, <2>5, <2>6, <2>7, <2>8 DEF Next
<1> QED BY <1>2, <1>3

(* Whatever the number of workspaces, calls and policies, the file, the      *)
(* processes and the broker stay in the relation IndInv describes.           *)
THEOREM CapacityInvariant == Spec => []IndInv
BY InitInv, StepInv, PTL DEF Spec

-----------------------------------------------------------------------------
(* What follows from it *)

(* What the file says of a call is true of the provider: no order of expiry, *)
(* dispatch, cancellation, timeout, replay and death leaves a call off the   *)
(* books that the provider got.                                              *)
THEOREM BooksAreTrue == Spec => []OnTheBooks
<1>1. ASSUME IndInv PROVE OnTheBooks
  <2>1. TypeOK
    BY <1>1 DEF IndInv
  <2>2. Overlap \subseteq Calls
    BY <2>1, SettingType
  <2>3. ExpiredNeverSent
    BY <1>1 DEF IndInv, CallInv, UndispatchedUnsent, ExpiredNeverSent
  <2>4. NeverFree
    <3> SUFFICES ASSUME Retries = 0, NEW i \in Calls \ Overlap, Sent(i)
                 PROVE  \/ row[i].status = "dispatched"
                        \/ row[i].status = "settled" /\ row[i].outcome # "definitely_not_sent"
      BY DEF NeverFree
    <3>1. CallInv(i) /\ row[i].status \in Statuses
      BY <1>1, <2>1 DEF IndInv, TypeOK, Rows
    <3>2. OneCaller(i)
      BY <3>1 DEF CallInv, CallOK, Alone
    <3> QED BY <3>1, <3>2 DEF CallInv, UndispatchedUnsent, OneCaller, Statuses
  <2>5. SlotHeld
    <3> SUFFICES ASSUME ~TimedAnswers, Retries = 0, NEW i \in running \ Overlap
                 PROVE  row[i].status = "dispatched"
      BY DEF SlotHeld
    <3>1. i \in Calls
      BY <2>1 DEF TypeOK
    <3> QED BY <1>1, <3>1 DEF IndInv, CallInv, CallOK, Alone, AnswerSettles
  <2>6. AnswerKept
    <3> SUFFICES ASSUME ~TimedAnswers, Retries = 0, NEW i \in refused
                 PROVE  i \in Overlap
      BY DEF AnswerKept
    <3>1. i \in Calls
      BY <2>1 DEF TypeOK
    <3> QED BY <1>1, <3>1 DEF IndInv, CallInv, CallOK, Alone, AnswerSettles
  <2> QED BY <2>1, <2>3, <2>4, <2>5, <2>6 DEF OnTheBooks
<1> QED BY <1>1, CapacityInvariant, PTL

(* A settled row is left as it is by every step that writes rows.            *)
LEMMA SettledStays ==
    ASSUME IndInv, [Next]_<<vars, setting>>, NEW j \in Calls, row[j].status = "settled"
    PROVE  row'[j] = row[j]
<1>1. /\ TypeOK /\ CallInv(j)
      /\ setting.calls \subseteq Calls /\ setting.policies \subseteq Policies
  BY SettingSets DEF IndInv
<1>2. row[j].outcome # "transport_or_protocol_unknown"
  BY <1>1 DEF CallInv, SettledOutcome
<1>3. ASSUME NEW i \in Calls, NEW m \in Modes, ReserveCapacity(i, m)
      PROVE  row'[j] = row[j]
  <2>1. PICK t \in client[i][m].at .. now :
          \/ UNCHANGED row
          \/ /\ row[i].status = "none"
             /\ row' = [k \in Calls |->
                          IF k = i THEN Booked(client[i][m].policy, t, client[i][m].at + Window)
                          ELSE IF k \in Stale(t) THEN Expired(row[k]) ELSE row[k]]
    BY <1>3 DEF ReserveCapacity
  <2>2. j \notin Stale(t)
    BY DEF Stale
  <2> QED BY <2>1, <2>2
<1>4. ASSUME NEW i \in Calls, NEW m \in Modes, Cancel(i, m)
      PROVE  row'[j] = row[j]
  BY <1>1, <1>4, CancelRow
<1>5. ASSUME NEW i \in Calls, NEW m \in Modes, Dispatch(i, m)
      PROVE  row'[j] = row[j]
  <2>1. \/ Cancel(i, m)
        \/ row' = row
        \/ row[i].status = "reserved" /\ row' = [row EXCEPT ![i].status = "dispatched"]
    BY <1>5 DEF Dispatch
  <2>2. CASE row[i].status = "reserved" /\ row' = [row EXCEPT ![i].status = "dispatched"]
    BY <1>1, <2>2 DEF TypeOK
  <2> QED BY <1>4, <2>1, <2>2
<1>6. ASSUME NEW i \in Calls, NEW m \in Modes, NEW a \in Answers, SettleWith(i, m, a)
      PROVE  row'[j] = row[j]
  <2>1. CASE row' = row
    BY <2>1
  <2>2. CASE Settles(i, m, a) /\ SettlesRow(i, ChargeOf(i, a), OutcomeOf(a))
    <3>1. /\ ChargeOf(i, a) \in Nat
          /\ OutcomeOf(a) \in Outcomes
      BY AnswerMeaning DEF Outcomes
    <3>2. CASE i # j
      BY <1>1, <2>2, <3>1, <3>2, RowSettled
    <3>3. CASE i = j
      <4>1. row[j].charged = ChargeOf(j, a) /\ row[j].outcome = OutcomeOf(a)
        BY <1>2, <2>2, <3>3 DEF Settles
      <4>2. row[j] \in Rows
        BY <1>1 DEF TypeOK
      <4>3. row'[j] = [row[j] EXCEPT !.status = "settled", !.charged = ChargeOf(j, a),
                                     !.outcome = OutcomeOf(a)]
        BY <1>1, <2>2, <3>3 DEF TypeOK, SettlesRow
      <4>4. row'[j] = [status |-> "settled", policy |-> row[j].policy,
                       day |-> row[j].day, expires |-> row[j].expires,
                       charged |-> ChargeOf(j, a), outcome |-> OutcomeOf(a)]
        BY <4>2, <4>3 DEF Rows
      <4>5. row[j] = [status |-> row[j].status, policy |-> row[j].policy,
                      day |-> row[j].day, expires |-> row[j].expires,
                      charged |-> row[j].charged, outcome |-> row[j].outcome]
        BY <4>2 DEF Rows
      <4> QED BY <4>1, <4>4, <4>5
    <3> QED BY <3>2, <3>3
  <2> QED BY <1>6, <2>1, <2>2 DEF SettleWith, SettlesRow
<1>7. ASSUME NEW i \in Calls, NEW m \in Modes, Unknown(i, m)
      PROVE  row'[j] = row[j]
  <2>1. \/ row' = row
        \/ /\ row[i].status = "dispatched"
           /\ row' = [row EXCEPT ![i].charged = Reserve[i],
                                 ![i].outcome = "transport_or_protocol_unknown"]
    BY <1>7 DEF Unknown
  <2>2. CASE /\ row[i].status = "dispatched"
             /\ row' = [row EXCEPT ![i].charged = Reserve[i],
                                   ![i].outcome = "transport_or_protocol_unknown"]
    BY <1>1, <2>2 DEF TypeOK
  <2> QED BY <2>1, <2>2
<1>8. ASSUME NEW i \in Calls, NEW m \in Modes, ClientStep(i, m) PROVE row'[j] = row[j]
  <2>1. CASE ConnectFails(i, m)
    BY <1>4, <2>1 DEF ConnectFails
  <2>2. CASE Send(i, m) \/ TurnedAway(i, m)
    BY <2>2 DEF Send, TurnedAway
  <2>3. CASE Answered(i, m)
    <3>1. answer[i] \in Answers
      BY <1>1, <2>3 DEF Answered, TypeOK
    <3> QED BY <1>6, <2>3, <3>1 DEF Answered
  <2>4. CASE FailureAnswered(i, m)
    <3>1. Failure \in Answers
      BY DEF Answers
    <3> QED BY <1>6, <2>4, <3>1 DEF FailureAnswered
  <2> QED BY <1>3, <1>5, <1>7, <1>8, <2>1, <2>2, <2>3, <2>4 DEF ClientStep
<1>9. CASE UNCHANGED <<vars, setting>>
  BY <1>9 DEF vars
<1>10. CASE Next
  <2>1. ASSUME NEW i \in Calls, NEW m \in Modes, Begin(i, m) \/ Crash(i, m)
        PROVE  row'[j] = row[j]
    BY <2>1 DEF Begin, Crash
  <2>2. ASSUME NEW i \in Calls, ProviderReturns(i) \/ BrokerTimesOut(i)
        PROVE  row'[j] = row[j]
    BY <2>2 DEF ProviderReturns, BrokerTimesOut
  <2>3. ASSUME NEW p, Activate(p) PROVE row'[j] = row[j]
    BY <2>3 DEF Activate
  <2>4. ASSUME Tick PROVE row'[j] = row[j]
    BY <2>4 DEF Tick
  <2> QED BY <1>1, <1>8, <1>10, <2>1, <2>2, <2>3, <2>4 DEF Next
<1> QED BY <1>9, <1>10

(* A settlement stands: no replay, late timeout or duplicate caller changes  *)
(* the charge or the outcome of a settled call.                              *)
THEOREM SettlementStands == Spec => SettledIsFinal
<1>1. ASSUME IndInv, [Next]_<<vars, setting>>
      PROVE  [\A i \in Calls : row[i].status = "settled" => row'[i] = row[i]]_vars
  BY <1>1, SettledStays
<1> QED BY <1>1, CapacityInvariant, PTL DEF Spec, SettledIsFinal

-----------------------------------------------------------------------------
(* What a step makes of the rows *)

(* A row stays, or an open one moves on to dispatched or settled.            *)
Advances(k) ==
    \/ row'[k] = row[k]
    \/ /\ row[k].status \in {"reserved", "dispatched"}
       /\ row'[k].status \in {"dispatched", "settled"}
       /\ row'[k].day = row[k].day

(* Call i is booked on day d, with room under the policy in force once the   *)
(* stale reservations are gone.                                              *)
Books(i, d, stale) ==
    /\ HasRoom(head, i, d, stale)
    /\ row[i].status = "none"
    /\ row'[i].status = "reserved" /\ row'[i].day = d
    /\ \A k \in Calls \ {i} : row'[k] = row[k] \/ row'[k].status = "expired"
    /\ \A k \in stale : row'[k].status = "expired"

(* One call at most is booked by a step, and only by a reservation.          *)
LEMMA RowMoves ==
    ASSUME IndInv, [Next]_<<vars, setting>>
    PROVE  \/ \A k \in Calls : Advances(k)
           \/ \E i \in Calls, d \in Nat, stale \in SUBSET Calls : Books(i, d, stale)
<1>1. /\ TypeOK
      /\ setting.calls \subseteq Calls /\ setting.policies \subseteq Policies
  BY SettingSets DEF IndInv
<1>2. ASSUME NEW i \in Calls, NEW m \in Modes, ReserveCapacity(i, m)
      PROVE  \/ row' = row
             \/ \E d \in Nat, stale \in SUBSET Calls : Books(i, d, stale)
  <2> DEFINE c == client[i][m]
  <2>1. PICK t \in c.at .. now :
          \/ UNCHANGED row
          \/ /\ head = c.policy
             /\ row[i].status = "none"
             /\ HasRoom(c.policy, i, Day(t), Stale(t))
             /\ row' = [k \in Calls |->
                          IF k = i THEN Booked(c.policy, t, c.at + Window)
                          ELSE IF k \in Stale(t) THEN Expired(row[k]) ELSE row[k]]
    BY <1>2 DEF ReserveCapacity
  <2>2. c.at \in Nat /\ t \in Nat /\ Day(t) \in Nat
    <3>1. c.at \in Nat /\ now \in Nat
      BY <1>1 DEF TypeOK, Clients
    <3>2. t \in Nat /\ DayLength \in Nat \ {0}
      BY <2>1, <3>1, CapacityAssumption
    <3> QED BY <3>1, <3>2 DEF Day
  <2>3. CASE row' = row
    BY <2>3
  <2>4. CASE /\ head = c.policy
             /\ row[i].status = "none"
             /\ HasRoom(c.policy, i, Day(t), Stale(t))
             /\ row' = [k \in Calls |->
                          IF k = i THEN Booked(c.policy, t, c.at + Window)
                          ELSE IF k \in Stale(t) THEN Expired(row[k]) ELSE row[k]]
    <3> HIDE DEF c
    <3>1. Stale(t) \in SUBSET Calls /\ i \notin Stale(t)
      BY <2>4 DEF Stale
    <3>2. row'[i].status = "reserved" /\ row'[i].day = Day(t)
      BY <2>4 DEF Booked
    <3>3. ASSUME NEW k \in Stale(t) PROVE row'[k].status = "expired"
      <4>1. row'[k] = Expired(row[k]) /\ row[k] \in Rows
        BY <1>1, <2>4, <3>1 DEF TypeOK
      <4>2. row'[k] = [status |-> "expired", policy |-> row[k].policy,
                       day |-> row[k].day, expires |-> row[k].expires, charged |-> 0,
                       outcome |-> "undispatched_expired"]
        BY <4>1 DEF Expired, Rows
      <4> QED BY <4>2
    <3>4. \A k \in Calls \ {i} : row'[k] = row[k] \/ k \in Stale(t)
      BY <2>4
    <3>5. Books(i, Day(t), Stale(t))
      BY <2>4, <3>2, <3>3, <3>4 DEF Books
    <3> QED BY <2>2, <3>1, <3>5
  <2> QED BY <2>1, <2>3, <2>4
<1>3. ASSUME row' = row PROVE \A k \in Calls : Advances(k)
  BY <1>3 DEF Advances
<1>4. ASSUME NEW i \in Calls, NEW m \in Modes, Cancel(i, m)
      PROVE  \A k \in Calls : Advances(k)
  BY <1>1, <1>4, CancelRow DEF Advances
<1>5. ASSUME NEW i \in Calls, NEW m \in Modes, Dispatch(i, m)
      PROVE  \A k \in Calls : Advances(k)
  <2>1. \/ Cancel(i, m)
        \/ row' = row
        \/ row[i].status = "reserved" /\ row' = [row EXCEPT ![i].status = "dispatched"]
    BY <1>5 DEF Dispatch
  <2>2. CASE row[i].status = "reserved" /\ row' = [row EXCEPT ![i].status = "dispatched"]
    <3>1. row'[i] = [row[i] EXCEPT !.status = "dispatched"] /\ row[i] \in Rows
      BY <1>1, <2>2 DEF TypeOK
    <3>2. row'[i].status = "dispatched" /\ row'[i].day = row[i].day
      BY <3>1 DEF Rows
    <3>3. \A k \in Calls : k # i => row'[k] = row[k]
      BY <1>1, <2>2 DEF TypeOK
    <3> QED BY <2>2, <3>2, <3>3 DEF Advances
  <2> QED BY <1>3, <1>4, <2>1, <2>2
<1>6. ASSUME NEW i \in Calls, NEW m \in Modes, NEW a \in Answers, SettleWith(i, m, a)
      PROVE  \A k \in Calls : Advances(k)
  <2>1. CASE Settles(i, m, a) /\ SettlesRow(i, ChargeOf(i, a), OutcomeOf(a))
    <3>1. ChargeOf(i, a) \in Nat /\ OutcomeOf(a) \in Outcomes
      BY AnswerMeaning DEF Outcomes
    <3>2. /\ row'[i].status = "settled" /\ row'[i].day = row[i].day
          /\ \A k \in Calls : k # i => row'[k] = row[k]
      BY <1>1, <2>1, <3>1, RowSettled
    <3>3. row[i].status = "settled" => row'[i] = row[i]
      BY SettledStays
    <3>4. row[i].status \in {"dispatched", "settled"}
      BY <2>1 DEF Settles
    <3> QED BY <3>2, <3>3, <3>4 DEF Advances
  <2> QED BY <1>3, <1>6, <2>1 DEF SettleWith, SettlesRow
<1>7. ASSUME NEW i \in Calls, NEW m \in Modes, Unknown(i, m)
      PROVE  \A k \in Calls : Advances(k)
  <2>1. \/ row' = row
        \/ /\ row[i].status = "dispatched"
           /\ row' = [row EXCEPT ![i].charged = Reserve[i],
                                 ![i].outcome = "transport_or_protocol_unknown"]
    BY <1>7 DEF Unknown
  <2>2. CASE /\ row[i].status = "dispatched"
             /\ row' = [row EXCEPT ![i].charged = Reserve[i],
                                   ![i].outcome = "transport_or_protocol_unknown"]
    <3>1. \A k \in Calls : k # i => row'[k] = row[k]
      BY <1>1, <2>2 DEF TypeOK
    <3>2. /\ row'[i] = [row[i] EXCEPT !.charged = Reserve[i],
                                      !.outcome = "transport_or_protocol_unknown"]
          /\ row[i] \in Rows
      BY <1>1, <2>2 DEF TypeOK
    <3>3. row'[i].status = row[i].status /\ row'[i].day = row[i].day
      BY <3>2 DEF Rows
    <3> QED BY <2>2, <3>1, <3>3 DEF Advances
  <2> QED BY <1>3, <2>1, <2>2
<1>8. ASSUME NEW i \in Calls, NEW m \in Modes, ClientStep(i, m), ~ReserveCapacity(i, m)
      PROVE  \A k \in Calls : Advances(k)
  <2>1. CASE ConnectFails(i, m)
    BY <1>4, <2>1 DEF ConnectFails
  <2>2. CASE Send(i, m) \/ TurnedAway(i, m)
    BY <1>3, <2>2 DEF Send, TurnedAway
  <2>3. CASE Answered(i, m)
    <3>1. answer[i] \in Answers
      BY <1>1, <2>3 DEF Answered, TypeOK
    <3> QED BY <1>6, <2>3, <3>1 DEF Answered
  <2>4. CASE FailureAnswered(i, m)
    <3>1. Failure \in Answers
      BY DEF Answers
    <3> QED BY <1>6, <2>4, <3>1 DEF FailureAnswered
  <2> QED BY <1>5, <1>7, <1>8, <2>1, <2>2, <2>3, <2>4 DEF ClientStep
<1>9. CASE UNCHANGED <<vars, setting>>
  BY <1>3, <1>9 DEF vars
<1>10. CASE Next
  <2>1. ASSUME NEW i \in Calls, NEW m \in Modes, ReserveCapacity(i, m)
        PROVE  \/ \A k \in Calls : Advances(k)
               \/ \E d \in Nat, stale \in SUBSET Calls : Books(i, d, stale)
    BY <1>2, <1>3, <2>1
  <2>2. ASSUME NEW i \in Calls, NEW m \in Modes, Begin(i, m) \/ Crash(i, m)
        PROVE  \A k \in Calls : Advances(k)
    BY <1>3, <2>2 DEF Begin, Crash
  <2>3. ASSUME NEW i \in Calls, ProviderReturns(i) \/ BrokerTimesOut(i)
        PROVE  \A k \in Calls : Advances(k)
    BY <1>3, <2>3 DEF ProviderReturns, BrokerTimesOut
  <2>4. ASSUME NEW p, Activate(p) PROVE \A k \in Calls : Advances(k)
    BY <1>3, <2>4 DEF Activate
  <2>5. ASSUME Tick PROVE \A k \in Calls : Advances(k)
    BY <1>3, <2>5 DEF Tick
  <2> QED BY <1>1, <1>8, <1>10, <2>1, <2>2, <2>3, <2>4, <2>5 DEF Next
<1> QED BY <1>9, <1>10

-----------------------------------------------------------------------------
(* The slots *)

(* One slot at most is taken by a step, and only under a policy in force     *)
(* that has room for it once the stale reservations are gone.                *)
LEMMA OpenGrows ==
    ASSUME IndInv, [Next]_<<vars, setting>>
    PROVE  \/ Open' \subseteq Open
           \/ \E i \in Calls : \E stale \in SUBSET Calls :
                 /\ Open' \subseteq (Open \ stale) \cup {i}
                 /\ Cardinality(Open \ stale) + 1 <= MaxConcurrency[head]
<1>1. CASE \A k \in Calls : Advances(k)
  BY <1>1 DEF Advances, Open
<1>2. ASSUME NEW i \in Calls, NEW d \in Nat, NEW stale \in SUBSET Calls, Books(i, d, stale)
      PROVE  /\ Open' \subseteq (Open \ stale) \cup {i}
             /\ Cardinality(Open \ stale) + 1 <= MaxConcurrency[head]
  BY <1>2 DEF Books, HasRoom, Open
<1> QED BY <1>1, <1>2, RowMoves

(* Published policies stay published.                                        *)
LEMMA PublishedGrows ==
    ASSUME [Next]_<<vars, setting>> PROVE published \subseteq published'
<1>1. CASE UNCHANGED <<vars, setting>>
  BY <1>1 DEF vars
<1>2. CASE Next
  <2>1. ASSUME NEW i, NEW m, ClientStep(i, m) PROVE published' = published
    BY <2>1 DEF ClientStep, ReserveCapacity, ConnectFails, Dispatch, Send, TurnedAway,
                Answered, FailureAnswered, Unknown
  <2>2. ASSUME NEW i, NEW m, Begin(i, m) \/ Crash(i, m) PROVE published' = published
    BY <2>2 DEF Begin, Crash
  <2>3. ASSUME NEW i, ProviderReturns(i) \/ BrokerTimesOut(i)
        PROVE  published' = published
    BY <2>3 DEF ProviderReturns, BrokerTimesOut
  <2>4. ASSUME NEW p, Activate(p) PROVE published \subseteq published'
    BY <2>4 DEF Activate
  <2>5. ASSUME Tick PROVE published' = published
    BY <2>5 DEF Tick
  <2> QED BY <1>2, <2>1, <2>2, <2>3, <2>4, <2>5 DEF Next
<1> QED BY <1>1, <1>2

(* Whatever the processes of the host do, the reservations that hold a slot  *)
(* never outnumber what some published policy allows.                        *)
THEOREM SlotsAreBounded == Spec => []ConcurrencyBound
<1>1. Init => ConcurrencyBound
  <2> SUFFICES ASSUME Init PROVE ConcurrencyBound
    OBVIOUS
  <2>1. Open = {}
    BY DEF Init, Open, NoRow
  <2>2. Cardinality(Open) = 0
    BY <2>1, FS_EmptySet
  <2>3. First \in published /\ MaxConcurrency[First] \in Nat
    BY CapacityAssumption DEF Init
  <2> QED BY <2>2, <2>3 DEF ConcurrencyBound
<1>2. IndInv /\ ConcurrencyBound /\ [Next]_<<vars, setting>> => ConcurrencyBound'
  <2> SUFFICES ASSUME IndInv, ConcurrencyBound, [Next]_<<vars, setting>>
               PROVE  ConcurrencyBound'
    OBVIOUS
  <2>1. IsFiniteSet(Calls) /\ Open \subseteq Calls
    BY CapacityAssumption DEF Open
  <2>2. IsFiniteSet(Open) /\ Cardinality(Open) \in Nat
    BY <2>1, FS_Subset, FS_CardinalityType
  <2>3. published \subseteq published' /\ head \in published
    BY PublishedGrows DEF IndInv, TypeOK
  <2>4. \A p \in published : MaxConcurrency[p] \in Nat
    BY CapacityAssumption DEF IndInv, TypeOK
  <2>5. CASE Open' \subseteq Open
    <3>1. Cardinality(Open') \in Nat /\ Cardinality(Open') <= Cardinality(Open)
      BY <2>2, <2>5, FS_Subset, FS_CardinalityType
    <3>2. PICK p \in published : Cardinality(Open) <= MaxConcurrency[p]
      BY DEF ConcurrencyBound
    <3>3. Cardinality(Open') <= MaxConcurrency[p]
      BY <2>2, <2>4, <3>1, <3>2
    <3> QED BY <2>3, <3>2, <3>3 DEF ConcurrencyBound
  <2>6. CASE \E i \in Calls : \E stale \in SUBSET Calls :
                 /\ Open' \subseteq (Open \ stale) \cup {i}
                 /\ Cardinality(Open \ stale) + 1 <= MaxConcurrency[head]
    <3>1. PICK i \in Calls, stale \in SUBSET Calls :
            /\ Open' \subseteq (Open \ stale) \cup {i}
            /\ Cardinality(Open \ stale) + 1 <= MaxConcurrency[head]
      BY <2>6
    <3> DEFINE left == Open \ stale
               grown == left \cup {i}
    <3>2. IsFiniteSet(left) /\ Cardinality(left) \in Nat
      BY <2>2, FS_Subset, FS_CardinalityType
    <3>3. IsFiniteSet(grown) /\ Cardinality(grown) \in Nat
          /\ Cardinality(grown) <= Cardinality(left) + 1
      <4> HIDE DEF left
      <4>1. /\ IsFiniteSet(left \cup {i})
            /\ Cardinality(left \cup {i}) =
                 IF i \in left THEN Cardinality(left) ELSE Cardinality(left) + 1
        BY <3>2, FS_AddElement
      <4> QED BY <3>2, <4>1, FS_CardinalityType
    <3>4. Cardinality(Open') \in Nat /\ Cardinality(Open') <= Cardinality(grown)
      BY <3>1, <3>3, FS_Subset, FS_CardinalityType
    <3>5. Cardinality(Open') <= MaxConcurrency[head]
      <4> HIDE DEF grown, left
      <4>1. Cardinality(left) + 1 <= MaxConcurrency[head]
        BY <3>1 DEF left
      <4> QED BY <2>3, <2>4, <3>2, <3>3, <3>4, <4>1
    <3> QED BY <2>3, <3>5 DEF ConcurrencyBound
  <2> QED BY <2>5, <2>6, OpenGrows
<1> QED BY <1>1, <1>2, CapacityInvariant, PTL DEF Spec

-----------------------------------------------------------------------------
(* The days *)

(* What a call draws on its day, and what it is charged.                     *)
Drawn == [i \in Calls |-> IF Charge(i) < Reserve[i] THEN Charge(i) ELSE Reserve[i]]
Charged == [i \in Calls |-> Charge(i)]

(* Both are numbers; neither the charge nor the reservation is exceeded.    *)
LEMMA DrawnType ==
    ASSUME TypeOK
    PROVE  \A i \in Calls : /\ Charged[i] \in Nat /\ Drawn[i] \in Nat /\ Reserve[i] \in Nat
                            /\ Drawn[i] <= Charged[i] /\ Drawn[i] <= Reserve[i]
<1> SUFFICES ASSUME NEW i \in Calls
             PROVE  /\ Charged[i] \in Nat /\ Drawn[i] \in Nat /\ Reserve[i] \in Nat
                    /\ Drawn[i] <= Charged[i] /\ Drawn[i] <= Reserve[i]
  OBVIOUS
<1>1. Reserve[i] \in Nat
  BY CapacityAssumption
<1>2. row[i].charged \in Nat
  BY DEF TypeOK, Rows
<1>3. Charge(i) \in Nat
  BY <1>1, <1>2 DEF Charge
<1> QED BY <1>1, <1>3 DEF Charged, Drawn

(* The same after a step.                                                   *)
LEMMA DrawnLater ==
    ASSUME TypeOK'
    PROVE  \A i \in Calls : Drawn'[i] \in Nat /\ Drawn'[i] <= Reserve[i]
<1> SUFFICES ASSUME NEW i \in Calls PROVE Drawn'[i] \in Nat /\ Drawn'[i] <= Reserve[i]
  OBVIOUS
<1>1. Reserve[i] \in Nat
  BY CapacityAssumption
<1>2. row'[i].charged \in Nat
  BY DEF TypeOK, Rows
<1>3. Charge(i)' \in Nat
  BY <1>1, <1>2 DEF Charge
<1> QED BY <1>1, <1>3 DEF Drawn

(* The model's sums over a day's rows.                                       *)
LEMMA DayCharge ==
    ASSUME NEW S \in SUBSET Calls
    PROVE  MapThenSumSet(Charge, S) = Total(Charged, S)
<1>1. IsFiniteSet(S)
  BY CapacityAssumption, FS_Subset
<1>2. PICK g : IsSum(g, Charged, S)
  BY <1>1, SumExists
<1>3. \A s \in SUBSET S : s # {} => Charged[Some(s)] = Charge(CHOOSE x \in s : TRUE)
  BY DEF Some, Charged
<1>4. g = [s \in SUBSET S |-> IF s = {} THEN 0
             ELSE Charge(CHOOSE x \in s : TRUE) + g[s \ {CHOOSE x \in s : TRUE}]]
  BY <1>2, <1>3 DEF IsSum, Some
<1>5. PICK h : /\ h = [s \in SUBSET S |-> IF s = {} THEN 0
                         ELSE Charge(CHOOSE x \in s : TRUE) + h[s \ {CHOOSE x \in s : TRUE}]]
               /\ MapThenSumSet(Charge, S) = h[S]
  BY <1>4, Zenon DEF MapThenSumSet, MapThenFoldSet
<1>6. IsSum(h, Charged, S)
  BY <1>3, <1>5 DEF IsSum, Some
<1> QED BY <1>1, <1>5, <1>6, TotalIn

(* What the calls of a day draw, summed.                                    *)
LEMMA DayDrawn ==
    ASSUME NEW S \in SUBSET Calls
    PROVE  MapThenSumSet(LAMBDA i : IF Charge(i) < Reserve[i] THEN Charge(i) ELSE Reserve[i], S)
             = Total(Drawn, S)
<1> DEFINE D(i) == IF Charge(i) < Reserve[i] THEN Charge(i) ELSE Reserve[i]
<1>1. IsFiniteSet(S)
  BY CapacityAssumption, FS_Subset
<1>2. PICK g : IsSum(g, Drawn, S)
  BY <1>1, SumExists
<1>3. \A s \in SUBSET S : s # {} => Drawn[Some(s)] = D(CHOOSE x \in s : TRUE)
  BY DEF Some, Drawn
<1>4. g = [s \in SUBSET S |-> IF s = {} THEN 0
             ELSE D(CHOOSE x \in s : TRUE) + g[s \ {CHOOSE x \in s : TRUE}]]
  <2> HIDE DEF D
  <2> QED BY <1>2, <1>3 DEF IsSum, Some
<1>5. PICK h : /\ h = [s \in SUBSET S |-> IF s = {} THEN 0
                         ELSE D(CHOOSE x \in s : TRUE) + h[s \ {CHOOSE x \in s : TRUE}]]
               /\ MapThenSumSet(LAMBDA i : D(i), S) = h[S]
  <2> HIDE DEF D
  <2> QED BY <1>4, Zenon DEF MapThenSumSet, MapThenFoldSet
<1>6. IsSum(h, Drawn, S)
  <2> HIDE DEF D
  <2> QED BY <1>3, <1>5 DEF IsSum, Some
<1>7. MapThenSumSet(LAMBDA i : D(i), S) = Total(Drawn, S)
  BY <1>1, <1>5, <1>6, TotalIn
<1> QED BY <1>7, Zenon

(* Every day's rows are within the daily caps of a published policy.         *)
DayKept(d) ==
    OfDay(d) # {} =>
        /\ \E p \in published : Cardinality(OfDay(d)) <= MaxCalls[p]
        /\ \E p \in published : Total(Drawn, OfDay(d)) <= MaxCost[p]
DaysKept == \A d \in Nat : DayKept(d)

(* A day to which nothing is added keeps to its caps.                        *)
LEMMA DayShrinks ==
    ASSUME TypeOK, TypeOK', published \subseteq published', NEW d, DayKept(d),
           (OfDay(d))' \subseteq OfDay(d),
           \A i \in (OfDay(d))' : Drawn'[i] <= Drawn[i]
    PROVE  DayKept(d)'
<1> SUFFICES ASSUME (OfDay(d))' # {}
             PROVE  /\ \E p \in published' : Cardinality((OfDay(d))') <= MaxCalls[p]
                    /\ \E p \in published' : Total(Drawn', (OfDay(d))') <= MaxCost[p]
  BY DEF DayKept
<1> DEFINE was == OfDay(d)
           is == (OfDay(d))'
<1>1. was \subseteq Calls /\ is \subseteq was
  BY DEF OfDay, Open
<1>2. IsFiniteSet(was) /\ IsFiniteSet(is)
  BY <1>1, CapacityAssumption, FS_Subset
<1>3. PICK p \in published : Cardinality(was) <= MaxCalls[p]
  BY DEF DayKept
<1>4. PICK q \in published : Total(Drawn, was) <= MaxCost[q]
  BY DEF DayKept
<1>5. \A k \in published : MaxCalls[k] \in Nat /\ MaxCost[k] \in Nat
  BY CapacityAssumption DEF TypeOK
<1>6. \A i \in was : Drawn[i] \in Nat
  BY <1>1, DrawnType
<1>7. \A i \in is : Drawn'[i] \in Nat
  BY <1>1, DrawnLater
<1>8. \A i \in is : Drawn'[i] <= Drawn[i]
  OBVIOUS
<1> HIDE DEF was, is
<1>9. Cardinality(is) <= Cardinality(was) /\ Cardinality(is) \in Nat /\ Cardinality(was) \in Nat
  BY <1>1, <1>2, FS_Subset, FS_CardinalityType
<1>10. Total(Drawn', is) <= Total(Drawn, was)
       /\ Total(Drawn', is) \in Nat /\ Total(Drawn, was) \in Nat
  BY <1>1, <1>2, <1>6, <1>7, <1>8, TotalLess, TotalType
<1>11. Cardinality(is) <= MaxCalls[p]
  BY <1>3, <1>5, <1>9
<1>12. Total(Drawn', is) <= MaxCost[q]
  BY <1>4, <1>5, <1>10
<1> QED BY <1>11, <1>12 DEF is

(* A day to which a call is booked does so by the caps themselves.           *)
LEMMA DayBooked ==
    ASSUME TypeOK, TypeOK', published \subseteq published',
           NEW i \in Calls, NEW d \in Nat, NEW stale \in SUBSET Calls, Books(i, d, stale)
    PROVE  DayKept(d)'
<1> DEFINE left == OfDay(d) \ stale
           is == (OfDay(d))'
           grown == left \cup {i}
<1>1. left \subseteq Calls /\ i \notin left
  BY DEF OfDay, Open, Books
<1>2. is \subseteq grown
  BY DEF OfDay, Open, Books
<1>3. IsFiniteSet(left) /\ IsFiniteSet(grown) /\ IsFiniteSet(is)
  <2> HIDE DEF left, is
  <2>1. IsFiniteSet(left)
    BY <1>1, CapacityAssumption, FS_Subset
  <2>2. IsFiniteSet(grown)
    BY <2>1, FS_AddElement
  <2> QED BY <1>2, <2>1, <2>2, FS_Subset
<1>4. /\ Cardinality(left) + 1 <= MaxCalls[head]
      /\ Total(Charged, left) + Reserve[i] <= MaxCost[head]
  <2>1. /\ Cardinality(left) + 1 <= MaxCalls[head]
        /\ MapThenSumSet(Charge, left) + Reserve[i] <= MaxCost[head]
    BY Zenon DEF Books, HasRoom
  <2>2. MapThenSumSet(Charge, left) = Total(Charged, left)
    BY <1>1, DayCharge
  <2> HIDE DEF left
  <2> QED BY <2>1, <2>2
<1>5. \A k \in left \cap is : Drawn'[k] <= Charged[k]
  <2> SUFFICES ASSUME NEW k \in left, k \in is PROVE Drawn'[k] <= Charged[k]
    OBVIOUS
  <2>1. row'[k] = row[k]
    BY <1>1 DEF OfDay, Open, Books
  <2>2. Drawn'[k] = Drawn[k] /\ Drawn[k] <= Charged[k]
    BY <1>1, <2>1, DrawnType DEF Drawn, Charge
  <2> QED BY <2>2
<1>6. \A k \in Calls : Drawn'[k] \in Nat /\ Drawn'[k] <= Reserve[k]
  BY DrawnLater
<1>7. \A k \in Calls : Charged[k] \in Nat /\ Reserve[k] \in Nat
  BY DrawnType
<1>8. MaxCalls[head] \in Nat /\ MaxCost[head] \in Nat /\ head \in published'
  BY CapacityAssumption DEF TypeOK
<1> HIDE DEF left, is
<1>9. Cardinality(is) <= MaxCalls[head]
  <2>1. Cardinality(grown) = Cardinality(left) + 1
    BY <1>1, <1>3, FS_AddElement
  <2>2. Cardinality(is) <= Cardinality(grown) /\ Cardinality(is) \in Nat
        /\ Cardinality(grown) \in Nat
    BY <1>2, <1>3, FS_Subset, FS_CardinalityType
  <2> QED BY <1>4, <1>8, <2>1, <2>2
<1>10. Total(Drawn', is) <= MaxCost[head]
  <2> DEFINE kept == is \cap left
             a == Total(Drawn', is)
             b == Total(Drawn', kept)
             c == Total(Charged, left)
  <2>1. IsFiniteSet(kept) /\ i \notin kept /\ kept \subseteq left
    BY <1>1, <1>3, FS_Subset
  <2>2. a \in Nat /\ b \in Nat /\ c \in Nat
    <3>1. \A k \in is : Drawn'[k] \in Nat
      BY <1>1, <1>2, <1>6
    <3>2. \A k \in left : Charged[k] \in Nat
      BY <1>1, <1>7
    <3>3. a \in Nat
      BY <1>3, <3>1, TotalType
    <3>4. b \in Nat
      BY <2>1, <3>1, TotalType
    <3>5. c \in Nat
      BY <1>3, <3>2, TotalType
    <3> QED BY <3>3, <3>4, <3>5
  <2>3. b <= c
    <3>1. \A k \in left : Charged[k] \in Nat
      BY <1>1, <1>7
    <3>2. \A k \in kept : Drawn'[k] \in Nat /\ Drawn'[k] <= Charged[k]
      BY <1>1, <1>5, <1>6, <2>1
    <3> HIDE DEF kept
    <3> QED BY <1>3, <2>1, <3>1, <3>2, TotalLess
  <2>4. a <= b + Drawn'[i]
    <3>1. \A k \in kept \cup {i} : Drawn'[k] \in Nat
      BY <1>1, <1>6
    <3>2. is \subseteq kept \cup {i} /\ IsFiniteSet(kept \cup {i})
      BY <1>2, <2>1, FS_AddElement
    <3> HIDE DEF kept
    <3>3. a <= Total(Drawn', kept \cup {i})
      BY <3>1, <3>2, TotalPart
    <3>4. Total(Drawn', kept \cup {i}) = b + Drawn'[i]
      BY <2>1, <3>1, TotalAdd
    <3> QED BY <3>3, <3>4
  <2>5. c + Reserve[i] <= MaxCost[head]
    BY <1>4
  <2>6. Drawn'[i] \in Nat /\ Drawn'[i] <= Reserve[i] /\ Reserve[i] \in Nat
    BY <1>6, <1>7
  <2> HIDE DEF a, b, c
  <2>7. a <= MaxCost[head]
    BY <1>8, <2>2, <2>3, <2>4, <2>5, <2>6
  <2> QED BY <2>7 DEF a
<1> QED BY <1>8, <1>9, <1>10 DEF DayKept, is

(* A step keeps every day within its caps.                                   *)
LEMMA DaysStep ==
    ASSUME IndInv, DaysKept, [Next]_<<vars, setting>>
    PROVE  DaysKept'
<1>1. TypeOK /\ TypeOK'
  BY StepInv DEF IndInv
<1>2. published \subseteq published'
  BY PublishedGrows
<1> SUFFICES ASSUME NEW d \in Nat PROVE DayKept(d)'
  BY DEF DaysKept
<1>3. DayKept(d)
  BY DEF DaysKept
<1>4. CASE \A k \in Calls : Advances(k)
  <2>1. (OfDay(d))' \subseteq OfDay(d)
    BY <1>4 DEF OfDay, Open, Advances
  <2>2. ASSUME NEW k \in (OfDay(d))' PROVE Drawn'[k] <= Drawn[k]
    <3>1. k \in Calls
      BY DEF OfDay, Open
    <3>2. CASE row'[k] = row[k]
      <4>1. Drawn'[k] = Drawn[k] /\ Drawn[k] \in Nat
        BY <1>1, <3>1, <3>2, DrawnType DEF Drawn, Charge
      <4> QED BY <4>1
    <3>3. CASE row[k].status \in {"reserved", "dispatched"}
      <4>1. Drawn[k] = Reserve[k]
        BY <3>1, <3>3 DEF Drawn, Charge
      <4>2. Drawn'[k] <= Reserve[k]
        BY <1>1, <3>1, DrawnLater
      <4> QED BY <4>1, <4>2
    <3> QED BY <1>4, <3>1, <3>2, <3>3 DEF Advances
  <2> QED BY <1>1, <1>2, <1>3, <2>1, <2>2, DayShrinks
<1>5. ASSUME NEW i \in Calls, NEW e \in Nat, NEW stale \in SUBSET Calls, Books(i, e, stale)
      PROVE  DayKept(d)'
  <2>1. CASE d = e
    BY <1>1, <1>2, <1>5, <2>1, DayBooked
  <2>2. CASE d # e
    <3>1. ASSUME NEW k \in (OfDay(d))' PROVE k \in Calls /\ row'[k] = row[k]
      BY <1>5, <2>2 DEF OfDay, Open, Books
    <3>2. (OfDay(d))' \subseteq OfDay(d)
      BY <3>1 DEF OfDay, Open
    <3>3. ASSUME NEW k \in (OfDay(d))' PROVE Drawn'[k] <= Drawn[k]
      <4>1. k \in Calls /\ row'[k] = row[k]
        BY <3>1
      <4>2. Drawn'[k] = Drawn[k] /\ Drawn[k] \in Nat
        BY <1>1, <4>1, DrawnType DEF Drawn, Charge
      <4> QED BY <4>2
    <3> QED BY <1>1, <1>2, <1>3, <3>2, <3>3, DayShrinks
  <2> QED BY <2>1, <2>2
<1> QED BY <1>4, <1>5, RowMoves

(* A day's reservations and settlements stay within a published policy's     *)
(* daily caps, except for what a call cost above the maximum it reserved.    *)
THEOREM DaysAreBounded == Spec => []DayBound
<1>1. Init => DaysKept
  <2> SUFFICES ASSUME Init, NEW d \in Nat PROVE DayKept(d)
    BY DEF DaysKept
  <2>1. OfDay(d) = {}
    BY DEF Init, OfDay, Open, NoRow
  <2> QED BY <2>1 DEF DayKept
<1>2. IndInv /\ DaysKept /\ [Next]_<<vars, setting>> => DaysKept'
  BY DaysStep
<1>3. DaysKept => DayBound
  <2> SUFFICES ASSUME DaysKept, NEW d \in 0 .. Day(MaxTime), OfDay(d) # {}
               PROVE  /\ \E p \in published : Cardinality(OfDay(d)) <= MaxCalls[p]
                      /\ \E p \in published :
                            MapThenSumSet(LAMBDA i : IF Charge(i) < Reserve[i] THEN Charge(i)
                                                     ELSE Reserve[i], OfDay(d)) <= MaxCost[p]
    BY Zenon DEF DayBound
  <2>1. /\ \E p \in published : Cardinality(OfDay(d)) <= MaxCalls[p]
        /\ \E p \in published : Total(Drawn, OfDay(d)) <= MaxCost[p]
    BY DEF DaysKept, DayKept
  <2>2. OfDay(d) \in SUBSET Calls
    BY DEF OfDay, Open
  <2>3. MapThenSumSet(LAMBDA i : IF Charge(i) < Reserve[i] THEN Charge(i)
                                 ELSE Reserve[i], OfDay(d)) = Total(Drawn, OfDay(d))
    BY <2>2, DayDrawn
  <2> QED BY <2>1, <2>3, Zenon
<1> QED BY <1>1, <1>2, <1>3, CapacityInvariant, PTL DEF Spec

=============================================================================
