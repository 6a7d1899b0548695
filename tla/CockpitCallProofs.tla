-------------------------- MODULE CockpitCallProofs --------------------------
(***************************************************************************)
(* Theorems about one paid call of the cockpit, for any number of callers,  *)
(* attempts and other calls, any reservation, chain, costs, locked files    *)
(* and failing disks, with and without the operator's tools.                *)
(***************************************************************************)
EXTENDS CockpitCall, FiniteSums

-----------------------------------------------------------------------------
(* The inductive invariant *)

(* What one call can cost at most, reserved or charged.                      *)
Most == Max(Costs \cup {Reserve})

(* A process at one of these is at work on its attempt and has told nobody   *)
(* what it costs.                                                            *)
Walk == {"claimed", "drain", "route", "admit", "void", "send", "wait", "link",
         "settle", "keep"}

(* The rows of the stores TypeOK does not speak of.                          *)
PCs == Steps \cup {"off", "idle", "release", "reclaim", "free", "unlink", "dead"}
Heard == Endings \cup {"lost", "held", "abandoned"}

CallRecord ==
    [pc : PCs, attempt : 0 .. MaxAttempts, heard : Heard, cost : Nat, doubt : BOOLEAN,
     amount : Nat, result : Results, raising : BOOLEAN, closing : BOOLEAN,
     seen : 0 .. MaxAttempts, freed : BOOLEAN, old : 0 .. MaxAttempts]

ReplayRecord == [kind : {"none", "settle", "void"}, attempt : Attempts, amount : Amounts,
                 written : BOOLEAN]

OpRecord == [pc : {"idle", "apply", "recover", "reconcile"}, attempt : 0 .. MaxAttempts,
             amount : Amounts, seen : Amounts \cup {Unset}]

JournalRecord == [state : Endings \cup {"none", "running"}, cost : Nat, dirty : BOOLEAN]

Shapes ==
    /\ TypeOK
    /\ broker \in [Attempts -> JournalRecord]
    /\ \A a \in Attempts : broker[a].cost <= Most
    /\ replay \in [Callers \cup Others -> ReplayRecord]
    /\ op \in OpRecord

(* The attempts that have been claimed.                                      *)
Known(a) == a < work.attempt \/ (a = work.attempt /\ work.state # "ready")

(* Nothing has happened under an attempt nobody has claimed.                 *)
Untouched(a) ==
    /\ outcome[a] = "none" /\ holder[a].status = "none"
    /\ a \notin admitted /\ routes[a] = 0
    /\ broker[a].state = "none" /\ owed[a] = 0

(* The current attempt is the only open one, and nothing precedes a claim.   *)
Schedule ==
    /\ work.reserved => work.state = "leased"
    /\ work.state = "leased" => outcome[work.attempt] = "none"
    /\ \A a \in Attempts : ~Known(a) => Untouched(a)

(* Whatever waits to be written is about a claimed attempt.                  *)
Waiting ==
    /\ \A r \in pending : Known(r.attempt)
    /\ \A x \in Callers \cup Others : replay[x] # NoReplay => Known(replay[x].attempt)
    /\ op.pc # "idle" => op.attempt \in admitted
    /\ ~Operator => op.pc = "idle"

(* Every charge was routed, and so is the one under way.                     *)
Charged ==
    \A a \in Attempts :
        /\ owed[a] <= routes[a] * Most
        /\ broker[a].state = "running" => owed[a] + Most <= routes[a] * Most

(* The attempts the operator's valuation may miss: those that are over, whose *)
(* window takes in later ones, and those without one metered call.           *)
Loose(a) == Operator /\ \/ outcome[a] # "none"
                        \/ broker[a].dirty
                        \/ routes[a] > 1
                        \/ broker[a].state = "none"

(* The books close on what the provider charged, or on the reservation.      *)
Final(a, n) == \/ broker[a].state # "running" /\ n = owed[a]
               \/ a \in unclear /\ n >= Reserve
               \/ a \in dropped /\ n \in {0, Reserve}
               \/ Loose(a)

(* The operator and a call nobody recorded never meet.                       *)
Truthful == ~Operator \/ \A a \in Attempts : ~Unrecorded(a)

Closed ==
    Truthful =>
        /\ \A a \in Attempts : settled[a] # Unset => Final(a, settled[a])
        /\ \A r \in pending : Final(r.attempt, r.amount)
        /\ \A x \in Callers \cup Others :
              replay[x] # NoReplay => Final(replay[x].attempt, replay[x].amount)
        /\ op.pc # "idle" => Final(op.attempt, op.amount)

(* With one route the journal is what the provider charged, unless it is     *)
(* dirty, and a run nobody waits for is one whose cost nobody was told.      *)
Metered ==
    /\ \A a \in Attempts :
          /\ routes[a] = 0 => broker[a].state = "none"
          /\ routes[a] <= 1 =>
                /\ broker[a].state \in {"none", "running"} => owed[a] = 0
                /\ broker[a].state \in Endings => broker[a].dirty \/ owed[a] = broker[a].cost
          /\ broker[a].state = "running" =>
                \/ a \in unclear
                \/ \E p \in Callers : call[p].pc = "wait" /\ call[p].attempt = a
    /\ \A p \in Callers : call[p].pc \in {"admit", "send"} /\ routes[call[p].attempt] <= 1 =>
          broker[call[p].attempt].state = "none"

(* What holds of the stores, whatever the processes are doing.               *)
Stores == Shapes /\ Schedule /\ AbandonedStands /\ Waiting /\ Charged /\ Closed

(* A process works under the lease of its attempt, or was expired for having *)
(* recorded no holder; the holder file is its own, and a file it has taken   *)
(* up is as it was read, or gone.                                            *)
Holds(p, c) ==
    /\ c \in CallRecord /\ c.cost <= Most /\ c.amount <= 2 * Most
    /\ c.attempt # 0 => Known(c.attempt)
    /\ c.pc \in Steps =>
          /\ c.attempt # 0
          /\ Leased(c.attempt) \/ (Unrecorded(c.attempt) /\ c.pc # "claimed")
          /\ DiskFails \/ c.pc = "claimed" \/ holder[c.attempt].status = "held"
          /\ \/ holder[c.attempt].status = "none"
             \/ holder[c.attempt].status = "held" /\ holder[c.attempt].by = p
    /\ c.pc \in {"free", "unlink"} => c.seen # 0 /\ Known(c.seen)
    /\ c.pc = "free" =>
          \/ holder[c.seen].status = "none"
          \/ holder[c.seen].status = c.heard /\ holder[c.seen].result = c.result

(* Nothing waits to close the reservation of attempt a.                      *)
Untold(a) ==
    /\ settled[a] = Unset
    /\ \A r \in pending : r.attempt # a
    /\ \A x \in Callers \cup Others : replay[x] # NoReplay => replay[x].attempt # a
    /\ op.pc # "idle" => op.attempt # a

NotAdmitted(c) == \/ c.pc \in {"claimed", "drain", "admit"}
                  \/ c.pc = "route" /\ routes[c.attempt] = 0
IsAdmitted(c) == \/ c.pc \in {"send", "wait", "link", "settle", "keep"}
                 \/ c.pc = "route" /\ routes[c.attempt] # 0

(* How far its walk is, as the ledger, the router and the broker have it.    *)
Walks(c) ==
    /\ c.pc \in Walk => Untold(c.attempt) \/ (Operator /\ Unrecorded(c.attempt))
    /\ NotAdmitted(c) => c.attempt \notin admitted
    /\ IsAdmitted(c) => c.attempt \in admitted
    /\ c.pc \in {"claimed", "drain"} => routes[c.attempt] = 0
    /\ c.pc \in {"admit", "send", "wait", "link"} => routes[c.attempt] # 0
    /\ NotAdmitted(c) \/ c.pc = "void" => broker[c.attempt].state = "none"
    /\ c.pc \in {"route", "send"} => broker[c.attempt].state # "running"
    /\ c.pc = "wait" => broker[c.attempt].state # "none"
    /\ c.pc \in {"admit", "send"} => owed[c.attempt] + Most <= routes[c.attempt] * Most

(* What it knows of the cost so far.                                         *)
Reckons(c) ==
    LET a == c.attempt IN
    /\ c.doubt => a \in unclear
    /\ NotAdmitted(c) \/ c.pc = "void" => ~c.doubt /\ owed[a] = 0
    /\ c.pc \in {"route", "send"} => c.doubt \/ owed[a] = 0
    /\ c.pc = "wait" =>
          \/ c.doubt
          \/ broker[a].state \in {"running", "free"} /\ owed[a] = 0
          \/ broker[a].state \in {"served", "over"} /\ owed[a] = broker[a].cost
          \/ broker[a].state = "unclear"
    /\ c.pc = "link" =>
          \/ c.doubt
          \/ broker[a].state # "running" /\ c.heard = "free" /\ owed[a] = 0
          \/ broker[a].state # "running" /\ c.heard \in {"served", "over"} /\ owed[a] = c.cost
    /\ c.pc \in {"settle", "keep"} => Final(a, c.amount)

(* A lost answer leaves the broker running, so the walk cannot go on.        *)
Heeds(c) == c.pc = "link" /\ c.heard # "lost" => broker[c.attempt].state # "running"

(* A process on its walk whose admission nobody else may close.              *)
Walker(q) == call[q].pc \in Walk /\ ~(Operator /\ Unrecorded(call[q].attempt))

(* What holds of a process p in state c.                                     *)
Own(p, c) == Holds(p, c) /\ Walks(c) /\ Heeds(c) /\ (Truthful => Reckons(c))

(* No two processes have claimed the same attempt, and none reclaims what    *)
(* another works on.                                                         *)
Apart ==
    \A p, q \in Callers :
        /\ call[p].attempt # 0 /\ call[p].attempt = call[q].attempt => p = q
        /\ call[p].pc \in {"free", "unlink"} /\ Working(q) => call[q].attempt # call[p].seen

CallInv == Stores /\ Apart /\ (\A p \in Callers : Own(p, call[p]))
           /\ call \in [Callers -> CallRecord]

-----------------------------------------------------------------------------
(* Arithmetic *)

(* A finite set of numbers has a largest.                                    *)
LEMMA HasMax ==
    ASSUME NEW S, IsFiniteSet(S), S \subseteq Nat
    PROVE  \A T \in SUBSET S : T # {} => \E x \in T : \A y \in T : x >= y
<1> DEFINE G == {T \in SUBSET S : T # {} => \E x \in T : \A y \in T : x >= y}
<1>1. {} \in G
  OBVIOUS
<1>2. ASSUME NEW T \in SUBSET S, T # {}, \A x \in T : T \ {x} \in G PROVE T \in G
  <2>1. PICK z \in T : TRUE
    BY <1>2
  <2>2. CASE T \ {z} = {}
    <3>1. \A y \in T : z >= y
      BY <2>2
    <3> QED BY <3>1
  <2>3. CASE T \ {z} # {}
    <3>1. PICK x \in T \ {z} : \A y \in T \ {z} : x >= y
      BY <1>2, <2>3
    <3>2. CASE z >= x
      <4>1. \A y \in T : z >= y
        BY <3>1, <3>2
      <4> QED BY <4>1
    <3>3. CASE ~ (z >= x)
      <4>1. \A y \in T : x >= y
        BY <3>1, <3>3
      <4> QED BY <4>1
    <3> QED BY <3>2, <3>3
  <2> QED BY <2>2, <2>3
<1>3. \A T \in SUBSET S : T \in G
  <2> HIDE DEF G
  <2> QED BY <1>1, <1>2, SubsetInduction
<1> QED BY <1>3

(* The settings give the caps and the costs.                                 *)
LEMMA SettingsFacts ==
    ASSUME setting \in Settings
    PROVE  /\ Cap \in Nat /\ 1 <= Cap /\ Cap <= MaxAttempts
           /\ MaxLinks \in Nat /\ 1 <= MaxLinks
           /\ Most \in Nat /\ Reserve <= Most /\ \A c \in Costs : c \in Nat /\ c <= Most
           /\ MaxAttempts \in Nat /\ 1 <= MaxAttempts /\ Reserve \in Nat /\ 1 <= Reserve
           /\ setting.others \subseteq Others
<1> DEFINE S == Costs \cup {Reserve}
<1>1. /\ setting.cap \in 1 .. MaxAttempts /\ setting.links \in Nat \ {0}
      /\ IsFiniteSet(setting.costs) /\ setting.costs \subseteq Nat
      /\ setting.others \subseteq Others
  BY CockpitCallAssumption
<1>2. IsFiniteSet(S) /\ S \subseteq Nat /\ S # {}
  BY <1>1, CockpitCallAssumption, FS_AddElement DEF Costs
<1>3. \E x \in S : \A y \in S : x >= y
  <2> HIDE DEF S
  <2> QED BY <1>2, HasMax
<1>4. Most \in S /\ \A y \in S : Most >= y
  <2>1. Most = CHOOSE x \in S : \A y \in S : x >= y
    BY DEF Most, Max
  <2> HIDE DEF S
  <2> QED BY <1>3, <2>1
<1>5. Most \in Nat /\ Reserve <= Most /\ \A c \in Costs : c \in Nat /\ c <= Most
  BY <1>2, <1>4
<1> QED BY <1>1, <1>5, CockpitCallAssumption DEF Cap, MaxLinks

(* Products that the bounds on amounts need.                                 *)
LEMMA Products ==
    ASSUME NEW l \in Nat, 1 <= l, NEW u \in Nat, NEW m \in Nat, 1 <= m
    PROVE  /\ (l + 1) * u * m \in Nat
           /\ 2 * u <= (l + 1) * u * m
           /\ m * u <= (l + 1) * u * m
           /\ \A n \in 0 .. l : n * u \in Nat /\ n * u <= (l + 1) * u * m
<1>1. \A x, y, z \in Nat : x <= y => x * z <= y * z /\ x * z \in Nat /\ y * z \in Nat
  OBVIOUS
<1> DEFINE b == (l + 1) * u
<1>2. b \in Nat /\ 2 * u <= b /\ u <= b
  <2>1. 2 * u <= (l + 1) * u
    BY <1>1
  <2> QED BY <2>1
<1>3. b <= b * m /\ b * m \in Nat
  <2> HIDE DEF b
  <2>1. 1 * b <= m * b
    BY <1>1, <1>2
  <2>2. m * b = b * m /\ 1 * b = b
    BY <1>2
  <2>3. m * b \in Nat
    BY <1>1, <1>2
  <2> QED BY <2>1, <2>2, <2>3
<1>4. m * u <= b * m
  <2> HIDE DEF b
  <2>1. u * m <= b * m
    BY <1>1, <1>2
  <2>2. u * m = m * u
    OBVIOUS
  <2> QED BY <2>1, <2>2
<1>5. \A n \in 0 .. l : n * u \in Nat /\ n * u <= b
  <2>1. \A n \in 0 .. l : n \in Nat /\ n <= l + 1 /\ l + 1 \in Nat
    OBVIOUS
  <2> QED BY <1>1, <2>1
<1>6. 2 * u \in Nat /\ \A n \in 0 .. l : n * u <= b * m
  <2> HIDE DEF b
  <2> QED BY <1>2, <1>3, <1>5
<1> HIDE DEF b
<1>7. 2 * u <= b * m /\ b * m \in Nat /\ m * u <= b * m
  BY <1>2, <1>3, <1>4, <1>6
<1>8. b = (l + 1) * u
  BY DEF b
<1> QED BY <1>5, <1>6, <1>7, <1>8

(* Amounts are the numbers up to a bound that leaves room for a call that    *)
(* costs more than its reservation, for every link and for every attempt.    *)
LEMMA AmountBounds ==
    ASSUME setting \in Settings
    PROVE  /\ Amounts \subseteq Nat /\ 0 \in Amounts /\ Reserve \in Amounts
           /\ \A n \in Nat : n <= 2 * Most \/ n <= MaxAttempts * Most => n \in Amounts
           /\ \A r \in 0 .. MaxLinks : \A n \in Nat : n <= r * Most => n \in Amounts
<1> DEFINE b == (MaxLinks + 1) * Most * MaxAttempts
<1>1. Amounts = 0 .. b
  BY DEF Amounts, Most
<1>2. /\ b \in Nat /\ 2 * Most <= b /\ MaxAttempts * Most <= b
      /\ \A n \in 0 .. MaxLinks : n * Most \in Nat /\ n * Most <= b
  BY SettingsFacts, Products
<1>3. Reserve <= 2 * Most /\ Reserve \in Nat /\ 2 * Most \in Nat /\ MaxAttempts * Most \in Nat
  BY SettingsFacts
<1> HIDE DEF b
<1> QED BY <1>1, <1>2, <1>3

-----------------------------------------------------------------------------
(* Steps that only move a process *)

(* No attempt stops being one that was expired for want of a holder.         *)
LEMMA TruthKept ==
    ASSUME setting' = setting,
           \A a \in Attempts : outcome[a] = "unrecorded" => outcome'[a] = "unrecorded"
    PROVE  Truthful' => Truthful
  BY DEF Truthful, Unrecorded, DiskFails, Operator, Attempts

(* What is final stays final while its attempt is left alone.                *)
LEMMA FinalKept ==
    ASSUME setting' = setting, NEW a, broker'[a] = broker[a], owed'[a] = owed[a],
           routes'[a] = routes[a], outcome[a] # "none" => outcome'[a] # "none",
           a \in unclear => a \in unclear', a \in dropped => a \in dropped'
    PROVE  \A n : Final(a, n) => Final(a, n)'
  BY DEF Final, Loose, Operator

(* The stores as they are.                                                   *)
LEMMA StoresKept ==
    ASSUME Stores, setting' = setting,
           UNCHANGED <<scheduler, holder, ledger, pending, wire, truth, replay, op>>
    PROVE  Stores'
<1> USE DEF scheduler, ledger, wire, truth
<1>1. Shapes'
  BY DEF Stores, Shapes, TypeOK, Attempts, Amounts, MaxLinks, Costs, Most, OpRecord,
         ReplayRecord, JournalRecord, Unset
<1>2. Schedule' /\ AbandonedStands' /\ Waiting'
  BY DEF Stores, Schedule, AbandonedStands, Waiting, Attempts, Known, Untouched, Operator
<1>3. Charged' /\ Closed'
  BY DEF Stores, Charged, Closed, Attempts, Most, Costs, Truthful, Final, Loose, Unrecorded,
         DiskFails, Locks, Operator
<1> QED BY <1>1, <1>2, <1>3 DEF Stores

(* What holds of a process, with the stores as they are.                     *)
LEMMA OwnKept ==
    ASSUME setting' = setting, NEW p, NEW c, Own(p, c),
           UNCHANGED <<scheduler, holder, ledger, pending, wire, truth, replay, op>>
    PROVE  Own(p, c)'
<1> USE DEF scheduler, ledger, wire, truth
<1>1. Holds(p, c)'
  BY DEF Own, Holds, CallRecord, Most, Costs, Known, Leased, Unrecorded, DiskFails
<1>2. Walks(c)'
  BY DEF Own, Walks, Untold, NotAdmitted, IsAdmitted, Most, Costs, Unrecorded, DiskFails,
         Operator
<1>3. Heeds(c)' /\ (Truthful => Reckons(c))'
  BY DEF Own, Heeds, Reckons, NotAdmitted, Truthful, Final, Loose, Unrecorded, DiskFails, Attempts,
         Locks, Operator
<1> QED BY <1>1, <1>2, <1>3 DEF Own

(* A process that keeps its attempt, starts no work and takes up no file of  *)
(* an attempt somebody works on.                                             *)
LEMMA StillApart ==
    ASSUME CallInv, NEW p \in Callers, NEW c \in CallRecord,
           call' = [call EXCEPT ![p] = c], c.attempt = call[p].attempt,
           c.pc \in Steps => Working(p),
           c.pc \in {"free", "unlink"} =>
              \A q \in Callers : Working(q) => call[q].attempt # c.seen
    PROVE  Apart' /\ call' \in [Callers -> CallRecord]
<1>1. \A q \in Callers : call'[q] = IF q = p THEN c ELSE call[q]
  BY DEF CallInv
<1>2. \A q \in Callers : Working(q)' => Working(q)
  BY <1>1 DEF Working
<1>3. \A q \in Callers : call'[q].attempt = call[q].attempt
  BY <1>1
<1>4. c.pc \in {"free", "unlink"} => c.pc \notin Steps
  BY DEF Steps
<1>5. Apart'
  BY <1>1, <1>2, <1>3, <1>4 DEF CallInv, Apart, Working
<1> QED BY <1>5 DEF CallInv

(* What holds next of a record that is the one of the process next.          *)
LEMMA OwnNext ==
    ASSUME NEW q, NEW e, e = call'[q], Own(q, e)'
    PROVE  Own(q, call[q])'
<1>1. Holds(q, call[q])'
  BY DEF Own, Holds
<1>2. Walks(call[q])'
  BY DEF Own, Walks, NotAdmitted, IsAdmitted
<1>3. Heeds(call[q])' /\ (Truthful => Reckons(call[q]))'
  BY DEF Own, Heeds, Reckons, NotAdmitted
<1> QED BY <1>1, <1>2, <1>3 DEF Own

(* The same when nothing else changes.                                       *)
LEMMA Moves ==
    ASSUME CallInv, NEW p \in Callers, NEW c,
           call' = [call EXCEPT ![p] = c], setting' = setting,
           UNCHANGED <<scheduler, holder, ledger, pending, wire, truth, replay, op>>,
           Own(p, c), c.attempt = call[p].attempt,
           c.pc \in Steps => Working(p),
           c.pc \in {"free", "unlink"} =>
              \A q \in Callers : Working(q) => call[q].attempt # c.seen
    PROVE  CallInv'
<1>1. c \in CallRecord
  BY DEF Own, Holds
<1>2. Apart' /\ call' \in [Callers -> CallRecord]
  BY <1>1, StillApart
<1>3. Stores'
  BY StoresKept DEF CallInv
<1>4. \A q \in Callers : call'[q] = IF q = p THEN c ELSE call[q]
  BY DEF CallInv
<1>5. ASSUME NEW q \in Callers PROVE Own(q, call[q])'
  <2>1. Own(q, call'[q])
    BY <1>4 DEF CallInv
  <2>2. \A d : Own(q, d) => Own(q, d)'
    BY OwnKept
  <2> DEFINE d == call'[q]
  <2>3. \A e : e = d /\ Own(q, e)' => Own(q, call[q])'
    BY OwnNext
  <2> QED BY <2>1, <2>2, <2>3
<1> QED BY <1>2, <1>3, <1>5 DEF CallInv

(* A process that has left what it was doing.                                *)
LEMMA LeftOwn ==
    ASSUME CallInv, NEW p \in Callers, NEW pc \in {"idle", "release", "reclaim", "dead"}
    PROVE  LET c == [NewCall EXCEPT !.pc = pc, !.attempt = call[p].attempt, !.old = call[p].old]
           IN  Own(p, c) /\ c.attempt = call[p].attempt /\ c.pc = pc
<1> DEFINE c == [NewCall EXCEPT !.pc = pc, !.attempt = call[p].attempt, !.old = call[p].old]
<1>1. setting \in Settings
  BY DEF CallInv, Stores, Shapes, TypeOK
<1>2. call[p].attempt \in 0 .. MaxAttempts /\ call[p].old \in 0 .. MaxAttempts
  BY DEF CallInv, CallRecord
<1>3. c \in CallRecord /\ c.cost = 0 /\ c.amount = 0 /\ c.attempt = call[p].attempt
      /\ c.pc = pc /\ c.doubt = FALSE
  <2>1. /\ NewCall \in CallRecord /\ NewCall.cost = 0 /\ NewCall.amount = 0
        /\ NewCall.doubt = FALSE
    BY CockpitCallAssumption DEF NewCall, CallRecord, PCs, Heard, Endings, Results
  <2>2. pc \in PCs
    BY DEF PCs
  <2> QED BY <1>2, <2>1, <2>2 DEF CallRecord
<1> HIDE DEF c
<1>4. pc \notin Steps /\ pc \notin Walk /\ pc \notin {"free", "unlink", "link"}
  BY DEF Steps, Walk
<1>5. Holds(p, c)
  BY <1>1, <1>3, <1>4, SettingsFacts DEF CallInv, Own, Holds
<1>6. Walks(c) /\ Heeds(c) /\ Reckons(c)
  BY <1>3, <1>4 DEF Walks, NotAdmitted, IsAdmitted, Heeds, Reckons, Walk
<1> QED BY <1>3, <1>5, <1>6 DEF Own, c

(* A process leaves, and nothing else changes.                               *)
LEMMA LeaveInv ==
    ASSUME CallInv, NEW p \in Callers, NEW pc \in {"idle", "release", "reclaim", "dead"},
           Leave(p, pc), setting' = setting,
           UNCHANGED <<scheduler, holder, ledger, pending, wire, truth, replay, op>>
    PROVE  CallInv'
<1> DEFINE c == [NewCall EXCEPT !.pc = pc, !.attempt = call[p].attempt, !.old = call[p].old]
<1>1. Own(p, c) /\ c.attempt = call[p].attempt /\ c.pc = pc
  BY LeftOwn
<1>2. call' = [call EXCEPT ![p] = c]
  BY DEF Leave
<1>3. pc \notin Steps /\ pc \notin {"free", "unlink"}
  BY DEF Steps
<1> HIDE DEF c
<1> QED BY <1>1, <1>2, <1>3, Moves

(* A process goes on, and nothing else changes.                              *)
LEMMA GotoInv ==
    ASSUME CallInv, NEW p \in Callers, NEW pc \in PCs, Goto(p, pc), setting' = setting,
           UNCHANGED <<scheduler, holder, ledger, pending, wire, truth, replay, op>>,
           \/ pc = "reclaim"
           \/ call[p].pc = "claimed" /\ pc = "drain" /\ DiskFails
           \/ call[p].pc = "drain" /\ pc = "route"
           \/ call[p].pc = "settle" /\ pc = "keep"
           \/ call[p].pc = "finish" /\ pc = "abandon"
    PROVE  CallInv'
<1> DEFINE c == [call[p] EXCEPT !.pc = pc]
<1>0. call[p] \in CallRecord /\ Own(p, call[p])
  BY DEF CallInv
<1>1. call' = [call EXCEPT ![p] = c]
  BY DEF Goto, CallInv
<1>2. /\ c \in CallRecord /\ c.pc = pc /\ c.attempt = call[p].attempt /\ c.cost = call[p].cost
      /\ c.amount = call[p].amount /\ c.doubt = call[p].doubt
  BY <1>0 DEF CallRecord
<1> HIDE DEF c
<1>3. c.pc \in Steps => Working(p)
  BY <1>2 DEF Steps, Working
<1>4. Own(p, c)
  <2>1. Holds(p, c)
    BY <1>0, <1>2 DEF Own, Holds, Steps
  <2>2. Walks(c)
    BY <1>0, <1>2 DEF Own, Walks, NotAdmitted, IsAdmitted, Walk
  <2>3. Heeds(c) /\ (Truthful => Reckons(c))
    BY <1>0, <1>2 DEF Own, Heeds, Reckons, NotAdmitted
  <2> QED BY <2>1, <2>2, <2>3 DEF Own
<1> QED BY <1>1, <1>2, <1>3, <1>4, Moves

(* A process starts.                                                         *)
LEMMA StartInv ==
    ASSUME CallInv, NEW p \in Callers, Start(p), setting' = setting PROVE CallInv'
<1> DEFINE o == IF work.state = "leased" THEN work.attempt ELSE 0
           c == [call[p] EXCEPT !.pc = "idle", !.old = o]
<1>0. call[p] \in CallRecord /\ Own(p, call[p]) /\ call[p].pc = "off"
  BY DEF CallInv, Start
<1>1. o \in 0 .. MaxAttempts
  BY CockpitCallAssumption DEF CallInv, Stores, Shapes, TypeOK, Attempts
<1> HIDE DEF o
<1>2. call' = [call EXCEPT ![p] = c]
  BY DEF Start, CallInv, o
<1>3. /\ c \in CallRecord /\ c.pc = "idle" /\ c.attempt = call[p].attempt
      /\ c.cost = call[p].cost /\ c.amount = call[p].amount /\ c.doubt = call[p].doubt
  BY <1>0, <1>1 DEF CallRecord, PCs
<1> HIDE DEF c
<1>4. Own(p, c)
  BY <1>0, <1>3 DEF Own, Holds, Walks, NotAdmitted, IsAdmitted, Heeds, Reckons, Steps, Walk
<1>5. c.pc \notin Steps /\ c.pc \notin {"free", "unlink"}
  BY <1>3 DEF Steps
<1> QED BY <1>2, <1>3, <1>4, <1>5, Moves DEF Start

(* The file of a gone holder is taken up: nobody works on its attempt.       *)
LEMMA ReclaimPickInv ==
    ASSUME CallInv, NEW p \in Callers, ReclaimPick(p), setting' = setting PROVE CallInv'
<1>1. PICK a \in Attempts :
          /\ Gone(holder[a])
          /\ call' = [call EXCEPT ![p].pc = "free", ![p].seen = a,
                         ![p].heard = holder[a].status, ![p].result = holder[a].result]
  BY DEF ReclaimPick
<1> DEFINE c == [call[p] EXCEPT !.pc = "free", !.seen = a, !.heard = holder[a].status,
                                !.result = holder[a].result]
<1>2. call[p] \in CallRecord /\ Own(p, call[p])
  BY DEF CallInv
<1>3. holder[a].status \in {"held", "abandoned"} /\ holder[a].result \in Results
  BY <1>1 DEF CallInv, Stores, Shapes, TypeOK, Gone
<1>4. call' = [call EXCEPT ![p] = c]
  BY <1>1 DEF CallInv
<1>5. a \in 0 .. MaxAttempts /\ a # 0
  BY DEF Attempts
<1>6. /\ c \in CallRecord /\ c.pc = "free" /\ c.attempt = call[p].attempt /\ c.seen = a
      /\ c.cost = call[p].cost /\ c.amount = call[p].amount /\ c.doubt = call[p].doubt
      /\ c.heard = holder[a].status /\ c.result = holder[a].result
  BY <1>2, <1>3, <1>5 DEF CallRecord, PCs, Heard
<1> HIDE DEF c
<1>7. Known(a)
  BY <1>3 DEF CallInv, Stores, Schedule, Untouched
<1>8. Own(p, c)
  BY <1>2, <1>5, <1>6, <1>7
     DEF Own, Holds, Walks, NotAdmitted, IsAdmitted, Heeds, Reckons, Steps, Walk
<1>9. ASSUME NEW q \in Callers, Working(q) PROVE call[q].attempt # a
  <2>1. Own(q, call[q]) /\ call[q].pc # "dead"
    BY <1>9 DEF CallInv, Working, Steps
  <2>2. \/ holder[call[q].attempt].status = "none"
        \/ holder[call[q].attempt].status = "held" /\ holder[call[q].attempt].by = q
    BY <1>9, <2>1 DEF Own, Holds, Working
  <2> QED BY <1>1, <2>1, <2>2 DEF Gone
<1>10. c.pc \notin Steps
  BY <1>6 DEF Steps
<1> QED BY <1>4, <1>6, <1>8, <1>9, <1>10, Moves DEF ReclaimPick

(* The walk ends: its amount is to be settled when it was admitted.          *)
LEMMA EndsInv ==
    ASSUME CallInv, NEW p \in Callers, NEW c, c \in CallRecord,
           call' = [call EXCEPT ![p] = c], setting' = setting,
           UNCHANGED <<scheduler, holder, ledger, pending, wire, truth, replay, op>>,
           call[p].pc \in {"route", "admit", "link"}, c.attempt = call[p].attempt,
           \/ c.pc = "settle" /\ call[p].attempt \in admitted
           \/ c.pc \in {"finish", "exit"} /\ call[p].attempt \notin admitted,
           c.cost <= Most, c.amount <= 2 * Most, c.doubt = FALSE,
           c.pc = "settle" /\ Truthful => Final(c.attempt, c.amount)
    PROVE  CallInv'
<1>1. Own(p, call[p])
  BY DEF CallInv
<1>2. Own(p, c)
  <2>1. Holds(p, c)
    BY <1>1 DEF Own, Holds, Steps
  <2>2. Walks(c)
    BY <1>1 DEF Own, Walks, NotAdmitted, IsAdmitted, Walk
  <2>3. Heeds(c) /\ (Truthful => Reckons(c))
    BY <1>1 DEF Own, Heeds, Reckons, NotAdmitted
  <2> QED BY <2>1, <2>2, <2>3 DEF Own
<1>3. Working(p) /\ c.pc \notin {"free", "unlink"}
  BY DEF Working, Steps
<1> QED BY <1>2, <1>3, Moves

-----------------------------------------------------------------------------
(* The steps of a call that change no store *)

(* What an amount at the end of the walk may be.                             *)
LEMMA ChainAmounts ==
    ASSUME CallInv, NEW p \in Callers
    PROVE  /\ call[p] \in CallRecord /\ Own(p, call[p])
           /\ Reserve <= Most /\ Most \in Nat /\ Reserve \in Nat
           /\ call[p].cost \in Nat /\ call[p].cost <= Most
<1>1. setting \in Settings
  BY DEF CallInv, Stores, Shapes, TypeOK
<1>2. call[p] \in CallRecord /\ Own(p, call[p])
  BY DEF CallInv
<1>3. call[p].cost \in Nat
  BY <1>2 DEF CallRecord
<1> QED BY <1>1, <1>2, <1>3, SettingsFacts DEF Own, Holds

(* The walk ends with what is known of the cost.                             *)
LEMMA ChainEndsInv ==
    ASSUME CallInv, NEW p \in Callers, NEW r \in Results, NEW n \in Nat, n <= 2 * Most,
           ChainEnds(p, call[p], r, n), setting' = setting,
           UNCHANGED <<scheduler, holder, ledger, pending, wire, truth, replay, op>>,
           call[p].pc \in {"route", "admit", "link"},
           Truthful /\ call[p].attempt \in admitted => Final(call[p].attempt, n)
    PROVE  CallInv'
<1> DEFINE pc == IF call[p].attempt \in admitted THEN "settle" ELSE "finish"
           c == [call[p] EXCEPT !.result = r, !.amount = n, !.heard = "free", !.cost = 0,
                                !.doubt = FALSE, !.raising = call[p].raising, !.pc = pc]
<1>0. call[p] \in CallRecord /\ Most \in Nat
  BY ChainAmounts
<1>1. call' = [call EXCEPT ![p] = c]
  <2>1. c = [call[p] EXCEPT !.result = r, !.amount = n, !.heard = "free", !.cost = 0,
                            !.doubt = FALSE, !.pc = pc]
    BY <1>0 DEF CallRecord
  <2> HIDE DEF c
  <2> QED BY <2>1 DEF ChainEnds
<1>2. call[p].raising \in BOOLEAN /\ pc \in {"settle", "finish", "exit"}
  BY <1>0 DEF CallRecord
<1>3. /\ c \in CallRecord /\ c.pc = pc /\ c.attempt = call[p].attempt /\ c.amount = n
      /\ c.cost = 0 /\ c.doubt = FALSE
  <2> HIDE DEF pc
  <2> QED BY <1>0, <1>2 DEF CallRecord, PCs, Steps, Heard, Endings
<1>4. \/ pc = "settle" /\ call[p].attempt \in admitted
      \/ pc = "finish" /\ call[p].attempt \notin admitted
  OBVIOUS
<1> HIDE DEF c, pc
<1>6. /\ c.cost <= Most /\ c.amount <= 2 * Most
      /\ \/ c.pc = "settle" /\ call[p].attempt \in admitted
         \/ c.pc \in {"finish", "exit"} /\ call[p].attempt \notin admitted
      /\ c.pc = "settle" /\ Truthful => Final(c.attempt, c.amount)
  BY <1>0, <1>3, <1>4
<1> QED BY <1>1, <1>3, <1>6, EndsInv

(* An exception leaves the walk.                                             *)
LEMMA ChainRaisesInv ==
    ASSUME CallInv, NEW p \in Callers, NEW n \in Nat, n <= 2 * Most,
           ChainRaises(p, call[p], n), setting' = setting,
           UNCHANGED <<scheduler, holder, ledger, pending, wire, truth, replay, op>>,
           call[p].pc \in {"route", "admit", "link"},
           Truthful /\ call[p].attempt \in admitted => Final(call[p].attempt, n)
    PROVE  CallInv'
<1> DEFINE pc == IF call[p].attempt \in admitted THEN "settle" ELSE "exit"
           c == [call[p] EXCEPT !.result = call[p].result, !.amount = n, !.heard = "free",
                                !.cost = 0, !.doubt = FALSE, !.raising = TRUE, !.pc = pc]
<1>0. call[p] \in CallRecord /\ Most \in Nat
  BY ChainAmounts
<1>1. call' = [call EXCEPT ![p] = c]
  <2>1. c = [call[p] EXCEPT !.raising = TRUE, !.amount = n, !.heard = "free", !.cost = 0,
                            !.doubt = FALSE, !.pc = pc]
    BY <1>0 DEF CallRecord
  <2> HIDE DEF c
  <2> QED BY <2>1 DEF ChainRaises
<1>2. call[p].result \in Results /\ pc \in {"settle", "finish", "exit"}
  BY <1>0 DEF CallRecord
<1>3. /\ c \in CallRecord /\ c.pc = pc /\ c.attempt = call[p].attempt /\ c.amount = n
      /\ c.cost = 0 /\ c.doubt = FALSE
  <2> HIDE DEF pc
  <2> QED BY <1>0, <1>2 DEF CallRecord, PCs, Steps, Heard, Endings
<1>4. \/ pc = "settle" /\ call[p].attempt \in admitted
      \/ pc = "exit" /\ call[p].attempt \notin admitted
  OBVIOUS
<1> HIDE DEF c, pc
<1>6. /\ c.cost <= Most /\ c.amount <= 2 * Most
      /\ \/ c.pc = "settle" /\ call[p].attempt \in admitted
         \/ c.pc \in {"finish", "exit"} /\ call[p].attempt \notin admitted
      /\ c.pc = "settle" /\ Truthful => Final(c.attempt, c.amount)
  BY <1>0, <1>3, <1>4
<1> QED BY <1>1, <1>3, <1>6, EndsInv

(* The day or the pool refuses.                                              *)
LEMMA AdmitRefusedInv ==
    ASSUME CallInv, NEW p \in Callers, AdmitRefused(p), setting' = setting PROVE CallInv'
<1>1. Own(p, call[p]) /\ call[p].pc = "admit" /\ 0 <= 2 * Most
  BY ChainAmounts DEF AdmitRefused
<1>2. call[p].attempt \notin admitted
  BY <1>1 DEF Own, Walks, NotAdmitted
<1>3. "failed" \in Results
  BY DEF Results
<1> QED BY <1>1, <1>2, <1>3, ChainEndsInv DEF AdmitRefused

(* A link is recorded and the walk ends or goes on.                          *)
LEMMA RecordLinkInv ==
    ASSUME CallInv, NEW p \in Callers, RecordLink(p), setting' = setting PROVE CallInv'
<1> DEFINE a == call[p].attempt
           kept == IF call[p].doubt THEN Reserve ELSE 0
<1>1. /\ call[p] \in CallRecord /\ Own(p, call[p]) /\ Reserve <= Most /\ Most \in Nat
      /\ Reserve \in Nat /\ call[p].cost \in Nat /\ call[p].cost <= Most
  BY ChainAmounts
<1>2. call[p].pc = "link"
  BY DEF RecordLink
<1>3. UNCHANGED <<scheduler, holder, ledger, pending, wire, truth, replay, op>>
  BY DEF RecordLink
<1>4. {"succeeded", "failed", "retryable"} \subseteq Results
  BY DEF Results
<1>5. Truthful => \/ a \in unclear /\ call[p].doubt
                  \/ /\ ~call[p].doubt /\ broker[a].state # "running"
                     /\ \/ call[p].heard = "free" /\ owed[a] = 0
                        \/ call[p].heard \in {"served", "over"} /\ owed[a] = call[p].cost
  BY <1>1, <1>2 DEF Own, Reckons, CallRecord
<1>6. CASE /\ call[p].heard = "served"
           /\ ChainEnds(p, call[p], "succeeded", IF call[p].doubt THEN Reserve ELSE call[p].cost)
  <2> DEFINE n == IF call[p].doubt THEN Reserve ELSE call[p].cost
  <2>1. n \in Nat /\ n <= 2 * Most
    BY <1>1
  <2>2. Truthful => Final(a, n)
    BY <1>1, <1>5, <1>6 DEF Final
  <2> HIDE DEF n
  <2>3. ChainEnds(p, call[p], "succeeded", n)
    BY <1>6 DEF n
  <2> QED BY <1>2, <1>3, <1>4, <2>1, <2>2, <2>3, ChainEndsInv
<1>7. CASE /\ call[p].heard = "over"
           /\ \E r \in {"failed", "retryable"} : ChainEnds(p, call[p], r, kept + call[p].cost)
  <2> DEFINE n == kept + call[p].cost
  <2>1. n \in Nat /\ n <= 2 * Most
    BY <1>1
  <2>2. Truthful => Final(a, n)
    BY <1>1, <1>5, <1>7 DEF Final
  <2> HIDE DEF n
  <2>3. PICK r \in {"failed", "retryable"} : ChainEnds(p, call[p], r, n)
    BY <1>7 DEF n
  <2> QED BY <1>2, <1>3, <1>4, <2>1, <2>2, <2>3, ChainEndsInv
<1>8. CASE /\ call[p].heard \in {"free", "unclear", "lost"}
           /\ \E r \in {"failed", "retryable"} : ChainEnds(p, call[p], r, kept)
  <2>1. kept \in Nat /\ kept <= 2 * Most
    BY <1>1
  <2>2. Truthful => Final(a, kept)
    BY <1>1, <1>5, <1>8 DEF Final
  <2> HIDE DEF kept
  <2>3. PICK r \in {"failed", "retryable"} : ChainEnds(p, call[p], r, kept)
    BY <1>8
  <2> QED BY <1>2, <1>3, <1>4, <2>1, <2>2, <2>3, ChainEndsInv
<1>9. CASE /\ call[p].heard \in {"free", "unclear"}
           /\ call' = [call EXCEPT ![p] = [call[p] EXCEPT !.pc = "route", !.heard = "free"]]
  <2> DEFINE c == [call[p] EXCEPT !.pc = "route", !.heard = "free"]
  <2>1. /\ c \in CallRecord /\ c.pc = "route" /\ c.attempt = a /\ c.cost = call[p].cost
        /\ c.amount = call[p].amount /\ c.doubt = call[p].doubt
    BY <1>1 DEF CallRecord, PCs, Steps, Heard, Endings
  <2>2. call' = [call EXCEPT ![p] = c]
    BY <1>9
  <2> HIDE DEF c
  <2>3. Holds(p, c)
    BY <1>1, <1>2, <2>1 DEF Own, Holds, Steps
  <2>4. /\ broker[a].state # "running" /\ a \in admitted /\ "link" \in Walk
        /\ Untold(a) \/ (Operator /\ Unrecorded(a))
    BY <1>1, <1>2, <1>9 DEF Own, Heeds, Walks, IsAdmitted, Walk
  <2>5. routes[a] # 0
    BY <1>1, <1>2 DEF Own, Walks
  <2>6. Walks(c)
    BY <1>1, <1>2, <2>1, <2>4, <2>5 DEF Own, Walks, NotAdmitted, IsAdmitted, Walk
  <2>7. Heeds(c) /\ (Truthful => Reckons(c))
    BY <1>1, <1>2, <1>5, <1>9, <2>1, <2>5 DEF Own, Heeds, Reckons, NotAdmitted
  <2>8. Own(p, c)
    BY <2>3, <2>6, <2>7 DEF Own
  <2>9. Working(p) /\ c.pc \notin {"free", "unlink"}
    BY <1>2, <2>1 DEF Working, Steps
  <2> QED BY <1>3, <2>1, <2>2, <2>8, <2>9, Moves
<1> QED BY <1>2, <1>6, <1>7, <1>8, <1>9 DEF RecordLink

(* The drain is over.                                                        *)
LEMMA DrainedInv ==
    ASSUME CallInv, NEW p \in Callers, Drained(p), setting' = setting PROVE CallInv'
<1>1. "route" \in PCs
  BY DEF PCs, Steps
<1> QED BY <1>1, GotoInv DEF Drained

(* The ledger stays locked.                                                  *)
LEMMA SettleGivesUpInv ==
    ASSUME CallInv, NEW p \in Callers, SettleGivesUp(p), setting' = setting PROVE CallInv'
<1>1. "keep" \in PCs
  BY DEF PCs, Steps
<1> QED BY <1>1, GotoInv DEF SettleGivesUp

(* The Scheduler stays locked.                                               *)
LEMMA CompleteGivesUpInv ==
    ASSUME CallInv, NEW p \in Callers, CompleteGivesUp(p), setting' = setting PROVE CallInv'
<1>1. "abandon" \in PCs
  BY DEF PCs, Steps
<1> QED BY <1>1, GotoInv DEF CompleteGivesUp

(* Nothing can be reclaimed.                                                 *)
LEMMA ReclaimEndsInv ==
    ASSUME CallInv, NEW p \in Callers, ReclaimEnds(p), setting' = setting PROVE CallInv'
  BY LeaveInv DEF ReclaimEnds

(* A worker's lease still stands, or was expired for want of a holder.       *)
LEMMA WorkerLeased ==
    ASSUME CallInv, NEW p \in Callers, Working(p)
    PROVE  /\ call[p].attempt # 0 /\ call[p].attempt \in Attempts
           /\ Leased(call[p].attempt) \/ (Unrecorded(call[p].attempt) /\ call[p].pc # "claimed")
           /\ Leased(call[p].attempt) => work.attempt = call[p].attempt
                                        /\ ~Unrecorded(call[p].attempt)
<1>1. /\ call[p].attempt # 0 /\ call[p].attempt \in 0 .. MaxAttempts
      /\ Leased(call[p].attempt) \/ (Unrecorded(call[p].attempt) /\ call[p].pc # "claimed")
  BY DEF CallInv, Own, Holds, Working, CallRecord
<1>2. call[p].attempt \in Attempts
  BY <1>1, CockpitCallAssumption DEF Attempts
<1>3. Leased(call[p].attempt) => work.attempt = call[p].attempt /\ ~Unrecorded(call[p].attempt)
  BY DEF CallInv, Stores, Schedule, Leased, Unrecorded
<1> QED BY <1>1, <1>2, <1>3

(* Nobody else works under a lease: a process that was expired under its     *)
(* call has another attempt.                                                 *)
LEMMA LoneHolder ==
    ASSUME CallInv, NEW p \in Callers, call[p].attempt # 0, call[p].attempt = work.attempt
    PROVE  \A q \in Callers : Working(q) => q = p \/ Unrecorded(call[q].attempt)
<1>1. \A q \in Callers : Working(q) =>
         call[q].attempt = work.attempt \/ Unrecorded(call[q].attempt)
  BY WorkerLeased
<1> QED BY <1>1 DEF CallInv, Apart

(* Two processes never hold the same attempt.                                *)
LEMMA OtherAttempt ==
    ASSUME CallInv, NEW p \in Callers, call[p].attempt # 0, NEW q \in Callers, q # p
    PROVE  call[q].attempt # call[p].attempt
  BY DEF CallInv, Apart

(* The guard closes: the attempt is completed retryable.                     *)
LEMMA ExitInv ==
    ASSUME CallInv, NEW p \in Callers, Exit(p), setting' = setting PROVE CallInv'
<1>1. call[p].pc = "exit" /\ Working(p)
  BY DEF Exit, Working, Steps
<1>2. CASE Leave(p, "release")
  BY <1>2, LeaveInv DEF Exit
<1>3. CASE call' = [call EXCEPT ![p].pc = "finish", ![p].result = "retryable",
                                ![p].closing = TRUE]
  <2> DEFINE c == [call[p] EXCEPT !.pc = "finish", !.result = "retryable", !.closing = TRUE]
  <2>1. call[p] \in CallRecord /\ Own(p, call[p])
    BY DEF CallInv
  <2>2. /\ c \in CallRecord /\ c.pc = "finish" /\ c.attempt = call[p].attempt
        /\ c.cost = call[p].cost /\ c.amount = call[p].amount /\ c.doubt = call[p].doubt
    BY <2>1 DEF CallRecord, PCs, Steps, Results
  <2>3. call' = [call EXCEPT ![p] = c]
    BY <1>3 DEF CallInv
  <2> HIDE DEF c
  <2>4. Own(p, c)
    BY <1>1, <2>1, <2>2
       DEF Own, Holds, Walks, NotAdmitted, IsAdmitted, Heeds, Reckons, Steps, Walk
  <2>5. c.pc \notin {"free", "unlink"}
    BY <2>2
  <2> QED BY <1>1, <2>2, <2>3, <2>4, <2>5, Moves DEF Exit
<1>4. CASE Leave(p, "idle")
  BY <1>4, LeaveInv DEF Exit
<1> QED BY <1>2, <1>3, <1>4 DEF Exit

-----------------------------------------------------------------------------
(* Steps that change a store *)

(* A process moves and a store changes; what else is to be shown.            *)
LEMMA Works ==
    ASSUME CallInv, NEW p \in Callers, NEW c, call' = [call EXCEPT ![p] = c],
           c.attempt = call[p].attempt, c.pc \in Steps => Working(p),
           c.pc \in {"free", "unlink"} =>
              \A q \in Callers : Working(q) => call[q].attempt # c.seen,
           Stores', c \in CallRecord, Own(p, c)',
           \A q \in Callers \ {p} : \A d : d = call[q] => Own(q, d)'
    PROVE  CallInv'
<1>1. Apart' /\ call' \in [Callers -> CallRecord]
  BY StillApart
<1>2. \A q \in Callers : call'[q] = IF q = p THEN c ELSE call[q]
  BY DEF CallInv
<1>3. ASSUME NEW q \in Callers PROVE Own(q, call[q])'
  <2> DEFINE d == call'[q]
  <2>1. \A e : e = d => Own(q, e)'
    BY <1>2
  <2>2. \A e : e = d /\ Own(q, e)' => Own(q, call[q])'
    BY OwnNext
  <2> QED BY <2>1, <2>2
<1> QED BY <1>1, <1>3 DEF CallInv

(* No process moves and a store changes.                                     *)
LEMMA Stays ==
    ASSUME CallInv, call' = call, Stores',
           \A q \in Callers : \A d : d = call[q] => Own(q, d)'
    PROVE  CallInv'
<1>1. Apart'
  BY DEF CallInv, Apart, Working
<1>2. ASSUME NEW q \in Callers PROVE Own(q, call[q])'
  <2> DEFINE d == call'[q]
  <2>1. \A e : e = d => Own(q, e)'
    OBVIOUS
  <2>2. \A e : e = d /\ Own(q, e)' => Own(q, call[q])'
    BY DEF Own, Holds, Walks, Heeds, Reckons, NotAdmitted, IsAdmitted
  <2> QED BY <2>1, <2>2
<1> QED BY <1>1, <1>2 DEF CallInv

(* The lease and the files a process relies on are as they were.             *)
LEMMA HoldsKept ==
    ASSUME setting' = setting, UNCHANGED <<work, outcome, holder>>, NEW p, NEW c, Holds(p, c)
    PROVE  Holds(p, c)'
  BY DEF Holds, CallRecord, Most, Costs, Known, Leased, Unrecorded, DiskFails

(* So are the books of its attempt.                                          *)
LEMMA BooksKept ==
    ASSUME setting' = setting, NEW c, Walks(c), Heeds(c), Truthful => Reckons(c),
           Untold(c.attempt) => Untold(c.attempt)',
           Truthful' => Truthful,
           outcome[c.attempt] # "none" => outcome'[c.attempt] = outcome[c.attempt],
           c.attempt \in admitted' <=> c.attempt \in admitted,
           routes'[c.attempt] = routes[c.attempt], broker'[c.attempt] = broker[c.attempt],
           owed'[c.attempt] = owed[c.attempt], c.attempt \in unclear => c.attempt \in unclear',
           c.attempt \in dropped => c.attempt \in dropped'
    PROVE  Walks(c)' /\ Heeds(c)' /\ (Truthful => Reckons(c))'
<1>1. Walks(c)'
  BY DEF Walks, NotAdmitted, IsAdmitted, Most, Costs, Unrecorded, DiskFails, Operator
<1>2. \A a, n : a = c.attempt /\ Final(a, n) => Final(a, n)'
  BY FinalKept
<1>3. Heeds(c)' /\ (Truthful' => Reckons(c)')
  BY <1>2 DEF Heeds, Reckons, NotAdmitted
<1> QED BY <1>1, <1>3

(* Nobody is to close an attempt that nobody was to close.                   *)
LEMMA UntoldKept ==
    ASSUME NEW a, Untold(a), UNCHANGED <<pending, replay, op>>, settled'[a] = settled[a]
    PROVE  Untold(a)'
  BY DEF Untold

-----------------------------------------------------------------------------
(* The end of an attempt *)

(* Attempt a may end with outcome o for a process in state c: the process is *)
(* not at work on it, or is the one that recorded no holder.                 *)
Aside(c, a, o) ==
    c.pc \in Steps => \/ c.attempt # a
                      \/ o = "unrecorded" /\ c.pc # "claimed" /\ DiskFails

(* The attempt under lease ends with an outcome the holder file allows; what *)
(* holds of a process the end does not concern goes on to hold.              *)
LEMMA Ended ==
    ASSUME CallInv, setting' = setting, work.state = "leased", NEW a, a = work.attempt,
           NEW o \in {"lapsed", "expired", "recovered", "undispatched", "unrecorded"}
                       \cup Results,
           EndAttempt(a, o),
           holder[a].status = "abandoned" =>
              o \in {"lapsed", "recovered", "undispatched", "unrecorded", holder[a].result},
           UNCHANGED <<holder, ledger, pending, wire, truth, replay>>, op' \in {op, NewOp}
    PROVE  /\ Stores'
           /\ \A q, c : Own(q, c) /\ Aside(c, a, o) => Own(q, c)'
<1> USE DEF ledger, wire, truth
<1>0. /\ setting \in Settings /\ a \in Attempts /\ MaxAttempts \in Nat /\ Cap <= MaxAttempts
      /\ Cap \in Nat
  BY SettingsFacts DEF CallInv, Stores, Shapes, TypeOK
<1>1. /\ work' \in [state : {"ready", "leased", "done"}, attempt : Attempts, reserved : BOOLEAN]
      /\ work'.state # "leased" /\ ~work'.reserved
      /\ \/ work'.attempt = a /\ work'.state = "done"
         \/ work'.attempt = a + 1 /\ work'.state = "ready"
  BY <1>0 DEF EndAttempt, Attempts
<1>2. \A b : b \in Nat => (Known(b)' <=> Known(b))
  BY <1>0, <1>1 DEF Known, Attempts
<1>3. /\ outcome' = [outcome EXCEPT ![a] = o] /\ outcome \in [Attempts -> Results \cup
            {"none", "lapsed", "expired", "recovered", "undispatched", "unrecorded"}]
      /\ Known(a) /\ outcome[a] = "none"
  BY <1>0 DEF EndAttempt, CallInv, Stores, Shapes, TypeOK, Known, Schedule
<1>4. 0 \in Amounts /\ Unset \in Amounts \cup {Unset}
  BY <1>0, AmountBounds
<1>5. op' \in OpRecord
  <2>1. NewOp \in OpRecord
    BY <1>0, <1>4 DEF OpRecord, NewOp
  <2>2. op \in OpRecord
    BY DEF CallInv, Stores, Shapes
  <2> QED BY <2>1, <2>2
<1>6. Shapes'
  BY <1>1, <1>3, <1>5 DEF CallInv, Stores, Shapes, TypeOK, Attempts, Amounts, MaxLinks, Costs,
         Most, OpRecord, ReplayRecord, JournalRecord, Unset
<1>7. Schedule'
  BY <1>0, <1>1, <1>2, <1>3 DEF CallInv, Stores, Schedule, Untouched, Attempts
<1>8. AbandonedStands'
  BY <1>3 DEF CallInv, Stores, AbandonedStands, Attempts
<1>9. Waiting'
  <2>1. \A r \in pending : r.attempt \in Nat
    BY DEF CallInv, Stores, Shapes, TypeOK, Attempts
  <2>2. \A x \in Callers \cup Others : replay[x].attempt \in Nat
    BY DEF CallInv, Stores, Shapes, ReplayRecord, Attempts
  <2>3. op'.pc # "idle" => op' = op
    BY DEF NewOp
  <2> QED BY <1>2, <2>1, <2>2, <2>3 DEF CallInv, Stores, Waiting, Operator
<1>12. \A b \in Nat : outcome[b] # "none" /\ b \in Attempts => outcome'[b] = outcome[b]
  BY <1>3
<1>13. Truthful' => Truthful
  BY <1>12, TruthKept DEF Attempts
<1>14. \A b, n : b \in Attempts /\ Final(b, n) => Final(b, n)'
  BY <1>12, FinalKept DEF Attempts
<1>10. Charged' /\ Closed'
  <2>1. op'.pc # "idle" => op' = op /\ op.attempt \in Attempts
    BY DEF NewOp, CallInv, Stores, Waiting, Shapes, TypeOK
  <2>2. /\ \A r \in pending : r.attempt \in Attempts
        /\ \A x \in Callers \cup Others : replay[x].attempt \in Attempts
    BY DEF CallInv, Stores, Shapes, TypeOK, ReplayRecord
  <2>3. Charged'
    BY DEF CallInv, Stores, Charged, Attempts, Most, Costs
  <2>4. Closed'
    BY <1>13, <1>14, <2>1, <2>2 DEF CallInv, Stores, Closed, Attempts
  <2> QED BY <2>3, <2>4
<1>11. ASSUME NEW q, NEW c, Own(q, c), Aside(c, a, o) PROVE Own(q, c)'
  <2>1. c.attempt \in Nat /\ c.seen \in Nat /\ c.attempt \in 0 .. MaxAttempts
    BY <1>0, <1>11 DEF Own, Holds, CallRecord
  <2>0. outcome[c.attempt] = "unrecorded" => outcome'[c.attempt] = "unrecorded"
    BY <1>3 DEF Attempts
  <2>5. c.pc \in Steps => /\ c.attempt # 0
                         /\ Unrecorded(c.attempt)' /\ c.pc # "claimed"
    <3> SUFFICES ASSUME c.pc \in Steps
                 PROVE  c.attempt # 0 /\ Unrecorded(c.attempt)' /\ c.pc # "claimed"
      OBVIOUS
    <3>1. /\ c.attempt # 0 /\ c.attempt \in Attempts
          /\ Leased(c.attempt) \/ (Unrecorded(c.attempt) /\ c.pc # "claimed")
      BY <1>0, <1>11, <2>1 DEF Own, Holds, Attempts
    <3>2. c.attempt = a => o = "unrecorded" /\ c.pc # "claimed" /\ DiskFails
      BY <1>11 DEF Aside
    <3>3. c.attempt # a => ~Leased(c.attempt)
      BY DEF Leased
    <3>4. CASE c.attempt = a
      BY <1>0, <1>3, <3>1, <3>2, <3>4 DEF Unrecorded, DiskFails
    <3>5. CASE c.attempt # a
      BY <2>0, <3>1, <3>3, <3>5 DEF Unrecorded, DiskFails
    <3> QED BY <3>4, <3>5
  <2>2. Holds(q, c)'
    BY <1>2, <1>11, <2>1, <2>5 DEF Own, Holds, CallRecord, Most, Costs, DiskFails
  <2>3. Untold(c.attempt) => Untold(c.attempt)'
    <3>1. op'.pc # "idle" => op' = op
      BY DEF NewOp
    <3> QED BY <3>1 DEF Untold
  <2>4. Walks(c)' /\ Heeds(c)' /\ (Truthful => Reckons(c))'
    <3>1. outcome[c.attempt] # "none" => outcome'[c.attempt] = outcome[c.attempt]
      BY <1>0, <1>3, <2>1
    <3> QED BY <1>11, <1>13, <2>3, <3>1, BooksKept DEF Own
  <2> QED BY <2>2, <2>4 DEF Own
<1> QED BY <1>6, <1>7, <1>8, <1>9, <1>10, <1>11 DEF Stores

(* When nobody is at work on an attempt its end concerns nobody.             *)
LEMMA NobodyWorks ==
    ASSUME CallInv, NEW a, NEW o, \A q \in Callers : Working(q) => call[q].attempt # a
    PROVE  \A q \in Callers : \A d : d = call[q] => Own(q, d) /\ Aside(d, a, o)
  BY DEF CallInv, Working, Aside

(* The lease runs out.                                                       *)
LEMMA LapseInv == ASSUME CallInv, Lapse, setting' = setting PROVE CallInv'
<1>1. /\ EndAttempt(work.attempt, "lapsed") /\ work.state = "leased" /\ op' \in {op, NewOp}
      /\ UNCHANGED <<holder, ledger, pending, wire, truth, replay>> /\ call' = call
      /\ \A q \in Callers : Working(q) => call[q].attempt # work.attempt
  BY DEF Lapse, Leased, TimeIsUp
<1>2. Stores' /\ \A q, c : Own(q, c) /\ Aside(c, work.attempt, "lapsed") => Own(q, c)'
  BY <1>1, Ended
<1>3. \A q \in Callers : \A d : d = call[q] => Own(q, d) /\ Aside(d, work.attempt, "lapsed")
  BY <1>1, NobodyWorks
<1> QED BY <1>1, <1>2, <1>3, Stays

(* A process that is not at work after its step, when the attempt under      *)
(* lease has ended and that concerns nobody else.                            *)
LEMMA EndsAndMoves ==
    ASSUME CallInv, NEW p \in Callers, NEW c, call' = [call EXCEPT ![p] = c],
           c.attempt = call[p].attempt, c.pc \notin Steps, Own(p, c),
           c.pc = "free" => FALSE, c.pc = "unlink" => c.seen = call[p].seen /\ call[p].pc = "free",
           NEW a, NEW o, Stores',
           \A q \in Callers : \A d : d = call[q] /\ q # p => Own(q, d) /\ Aside(d, a, o),
           \A q, d : Own(q, d) /\ Aside(d, a, o) => Own(q, d)'
    PROVE  CallInv'
<1>1. \A q \in Callers \ {p} : \A d : d = call[q] => Own(q, d) /\ Aside(d, a, o)
  OBVIOUS
<1>2. Own(p, c)' /\ c \in CallRecord
  BY DEF Own, Holds, Aside
<1>3. \A q \in Callers \ {p} : \A d : d = call[q] => Own(q, d)'
  BY <1>1
<1>4. c.pc \in {"free", "unlink"} => \A q \in Callers : Working(q) => call[q].attempt # c.seen
  BY DEF CallInv, Apart
<1> QED BY <1>2, <1>3, <1>4, Works

(* A lease without any holder file is expired.                               *)
LEMMA ReclaimUnrecordedInv ==
    ASSUME CallInv, NEW p \in Callers, ReclaimUnrecorded(p), setting' = setting PROVE CallInv'
<1> DEFINE b == work.attempt
<1>2. /\ EndAttempt(b, "unrecorded") /\ work.state = "leased" /\ op' \in {op, NewOp}
      /\ UNCHANGED <<holder, ledger, pending, wire, truth, replay>> /\ Leave(p, "idle")
      /\ \A a \in Attempts : holder[a] = NoFile
      /\ \A q \in Callers : call[q].pc = "claimed" => call[q].attempt # b
  BY DEF ReclaimUnrecorded, Leased
<1>3. b \in Attempts /\ holder[b].status = "none"
  <2>1. b \in Attempts
    BY DEF CallInv, Stores, Shapes, TypeOK
  <2> QED BY <1>2, <2>1 DEF NoFile
<1>4. Stores' /\ \A q, c : Own(q, c) /\ Aside(c, b, "unrecorded") => Own(q, c)'
  BY <1>2, <1>3, Ended
<1>5. ASSUME NEW q \in Callers PROVE \A d : d = call[q] => Own(q, d) /\ Aside(d, b, "unrecorded")
  <2>1. Own(q, call[q])
    BY DEF CallInv
  <2>2. Working(q) /\ call[q].attempt = b => call[q].pc # "claimed" /\ DiskFails
    BY <1>2, <1>3, <2>1 DEF Own, Holds, Working
  <2> QED BY <2>1, <2>2 DEF Aside, Working
<1> DEFINE c == [NewCall EXCEPT !.pc = "idle", !.attempt = call[p].attempt, !.old = call[p].old]
<1>6. Own(p, c) /\ c.attempt = call[p].attempt /\ c.pc = "idle"
  BY LeftOwn
<1>7. call' = [call EXCEPT ![p] = c]
  BY <1>2 DEF Leave
<1>8. c.pc \notin Steps
  BY <1>6 DEF Steps
<1> HIDE DEF c, b
<1>9. \A d : d = c => /\ call' = [call EXCEPT ![p] = d] /\ d.attempt = call[p].attempt
                      /\ d.pc \notin Steps /\ Own(p, d) /\ d.pc = "idle"
  BY <1>6, <1>7, <1>8
<1> QED BY <1>4, <1>5, <1>9, EndsAndMoves

(* What was taken up is committed or expired, unless the attempt is over.    *)
LEMMA ReclaimCommitInv ==
    ASSUME CallInv, NEW p \in Callers, ReclaimCommit(p), setting' = setting PROVE CallInv'
<1> DEFINE a == call[p].seen
           given == call[p].heard = "abandoned"
           freed == Leased(a) \/ (given /\ outcome[a] = call[p].result)
           c == [call[p] EXCEPT !.pc = "unlink", !.freed = freed]
           o == IF given THEN call[p].result ELSE "expired"
<1>1. call[p] \in CallRecord /\ Own(p, call[p]) /\ call[p].pc = "free"
  BY DEF CallInv, ReclaimCommit
<1>2. freed \in BOOLEAN
  OBVIOUS
<1>3. call' = [call EXCEPT ![p] = c]
  BY DEF CallInv, ReclaimCommit
<1>4. /\ c \in CallRecord /\ c.pc = "unlink" /\ c.attempt = call[p].attempt
      /\ c.seen = a /\ c.cost = call[p].cost /\ c.amount = call[p].amount
      /\ c.doubt = call[p].doubt
  <2> HIDE DEF freed
  <2> QED BY <1>1, <1>2 DEF CallRecord, PCs
<1> HIDE DEF c
<1>5. Own(p, c)
  BY <1>1, <1>4 DEF Own, Holds, Walks, NotAdmitted, IsAdmitted, Heeds, Reckons, Steps, Walk
<1>6. c.pc \notin Steps
  BY <1>4 DEF Steps
<1>7. \A q \in Callers : Working(q) => call[q].attempt # a
  BY <1>1 DEF CallInv, Apart
<1>8. CASE Leased(a)
  <2>1. EndAttempt(a, o) /\ a = work.attempt /\ work.state = "leased"
    BY <1>8 DEF ReclaimCommit, Leased
  <2>2. \A q \in Callers : \A d : d = call[q] => Own(q, d) /\ Aside(d, a, o)
    BY <1>7, NobodyWorks
  <2>3. o \in {"lapsed", "expired", "recovered", "undispatched", "unrecorded"} \cup Results
    BY <1>1 DEF CallRecord
  <2>4. holder[a].status = "abandoned" =>
           o \in {"lapsed", "recovered", "undispatched", "unrecorded", holder[a].result}
    BY <1>1 DEF Own, Holds
  <2>5. UNCHANGED <<holder, ledger, pending, wire, truth, replay>> /\ op' \in {op, NewOp}
    BY DEF ReclaimCommit
  <2> HIDE DEF o, a
  <2>6. Stores' /\ \A q, d : Own(q, d) /\ Aside(d, a, o) => Own(q, d)'
    BY <2>1, <2>3, <2>4, <2>5, Ended
  <2>7. c.seen = call[p].seen
    BY <1>4 DEF a
  <2>8. \A d : d = c => /\ call' = [call EXCEPT ![p] = d] /\ d.attempt = call[p].attempt
                        /\ d.pc \notin Steps /\ Own(p, d) /\ d.pc = "unlink"
                        /\ d.seen = call[p].seen
    BY <1>3, <1>4, <1>5, <1>6, <2>7
  <2> QED BY <1>1, <2>2, <2>6, <2>8, EndsAndMoves
<1>9. CASE ~Leased(a)
  <2>1. UNCHANGED <<scheduler, holder, ledger, pending, wire, truth, replay, op>>
    BY <1>9 DEF ReclaimCommit
  <2> QED BY <1>3, <1>4, <1>5, <1>6, <1>7, <2>1, Moves
<1> QED BY <1>8, <1>9

(* A completion is refused, and the guard is to close.                       *)
LEMMA RefusedInv ==
    ASSUME CallInv, NEW p \in Callers, call[p].pc = "finish", Leave(p, "exit"),
           setting' = setting,
           UNCHANGED <<scheduler, holder, ledger, pending, wire, truth, replay, op>>
    PROVE  CallInv'
<1> DEFINE c == [NewCall EXCEPT !.pc = "exit", !.attempt = call[p].attempt, !.old = call[p].old]
<1>1. setting \in Settings /\ call[p] \in CallRecord /\ Own(p, call[p])
  BY DEF CallInv, Stores, Shapes, TypeOK
<1>2. c \in CallRecord /\ c.cost = 0 /\ c.amount = 0 /\ c.attempt = call[p].attempt
      /\ c.pc = "exit" /\ c.doubt = FALSE
  <2>1. /\ NewCall \in CallRecord /\ NewCall.cost = 0 /\ NewCall.amount = 0
        /\ NewCall.doubt = FALSE
    BY CockpitCallAssumption DEF NewCall, CallRecord, PCs, Heard, Endings, Results
  <2>2. /\ call[p].attempt \in 0 .. MaxAttempts /\ call[p].old \in 0 .. MaxAttempts
        /\ "exit" \in PCs
    BY <1>1 DEF CallRecord, PCs, Steps
  <2> QED BY <2>1, <2>2 DEF CallRecord
<1>3. call' = [call EXCEPT ![p] = c]
  BY DEF Leave
<1> HIDE DEF c
<1>4. Holds(p, c)
  BY <1>1, <1>2, SettingsFacts DEF Own, Holds, Steps
<1>5. Walks(c) /\ Heeds(c) /\ Reckons(c)
  BY <1>2 DEF Walks, NotAdmitted, IsAdmitted, Heeds, Reckons, Walk
<1>6. Own(p, c) /\ Working(p) /\ c.pc \notin {"free", "unlink"}
  BY <1>1, <1>2, <1>4, <1>5 DEF Own, Working, Steps
<1> QED BY <1>2, <1>3, <1>6, Moves

(* The attempt is completed.                                                 *)
LEMMA CompleteInv ==
    ASSUME CallInv, NEW p \in Callers, Complete(p), setting' = setting PROVE CallInv'
<1> DEFINE c == [NewCall EXCEPT !.pc = "release", !.attempt = call[p].attempt, !.old = call[p].old]
<1>8. Own(p, c) /\ c.attempt = call[p].attempt /\ c.pc = "release"
  BY LeftOwn
<1> DEFINE a == call[p].attempt
<1>1. call[p] \in CallRecord /\ Own(p, call[p]) /\ call[p].pc = "finish" /\ Working(p)
  BY DEF CallInv, Complete, Working, Steps
<1>0. CASE ~Leased(a)
  <2> DEFINE pc == IF call[p].closing THEN "idle" ELSE "exit"
  <2>1. Leave(p, pc) /\ UNCHANGED <<scheduler, holder, ledger, pending, wire, truth, replay, op>>
    BY <1>0 DEF Complete
  <2>2. CASE call[p].closing
    BY <2>1, <2>2, LeaveInv
  <2>3. CASE ~call[p].closing
    BY <1>1, <2>1, <2>3, RefusedInv
  <2> QED BY <2>2, <2>3
<1> SUFFICES ASSUME Leased(a) PROVE CallInv'
  BY <1>0
<1>2. \A q \in Callers : q # p => call[q].attempt # a
  BY <1>1, WorkerLeased, OtherAttempt
<1>3. EndAttempt(a, call[p].result) /\ Leave(p, "release") /\ a = work.attempt
      /\ work.state = "leased"
  BY DEF Complete, Leased
<1> DEFINE o == call[p].result
<1>4. o \in {"lapsed", "expired", "recovered", "undispatched", "unrecorded"} \cup Results
  BY <1>1 DEF CallRecord
<1>5. holder[a].status # "abandoned"
  BY <1>1 DEF Own, Holds, Steps
<1>6. UNCHANGED <<holder, ledger, pending, wire, truth, replay>> /\ op' \in {op, NewOp}
  BY DEF Complete
<1>12. \A q \in Callers : \A d : d = call[q] /\ q # p => Own(q, d) /\ Aside(d, a, o)
  BY <1>2 DEF CallInv, Aside
<1> HIDE DEF a, o
<1>13. EndAttempt(a, o)
  BY <1>3 DEF o
<1>7. Stores' /\ \A q, d : Own(q, d) /\ Aside(d, a, o) => Own(q, d)'
  BY <1>3, <1>4, <1>5, <1>6, <1>13, Ended
<1>9. call' = [call EXCEPT ![p] = c]
  BY <1>3 DEF Leave
<1> HIDE DEF c
<1>10. c.pc \notin Steps
  BY <1>8 DEF Steps
<1>11. \A d : d = c => /\ call' = [call EXCEPT ![p] = d] /\ d.attempt = call[p].attempt
                       /\ d.pc \notin Steps /\ Own(p, d) /\ d.pc = "release"
  BY <1>8, <1>9, <1>10
<1> QED BY <1>7, <1>11, <1>12, EndsAndMoves

(* The recovery of a reserved lease ends it: nobody works under it.          *)
LEMMA RecoverReconcileInv ==
    ASSUME CallInv, RecoverReconcile, setting' = setting PROVE CallInv'
<1>1. \A q \in Callers : Working(q) => call[q].attempt # work.attempt
  BY WorkerLeased DEF RecoverReconcile, Leased, Unrecorded, CallInv, Stores, Schedule
<1>2. /\ EndAttempt(work.attempt, "recovered") /\ work.state = "leased" /\ op' \in {op, NewOp}
      /\ UNCHANGED <<holder, ledger, pending, wire, truth, replay>> /\ call' = call
  BY DEF RecoverReconcile
<1>3. Stores' /\ \A q, c : Own(q, c) /\ Aside(c, work.attempt, "recovered") => Own(q, c)'
  BY <1>2, Ended
<1>4. \A q \in Callers : \A d : d = call[q] => Own(q, d) /\ Aside(d, work.attempt, "recovered")
  BY <1>1, NobodyWorks
<1> QED BY <1>2, <1>3, <1>4, Stays

(* A dead process is not at work, and nobody else on its attempt.            *)
LEMMA DeadAttempt ==
    ASSUME CallInv, NEW p \in Callers, NEW a \in Attempts, Interrupted(p, a)
    PROVE  /\ Operator /\ op.pc = "idle" /\ work.state = "leased" /\ work.attempt = a
           /\ \A q \in Callers : Working(q) => call[q].attempt # a
<1>1. call[p].pc = "dead" /\ call[p].attempt = a /\ work.attempt = a /\ a # 0
  BY DEF Interrupted, Attempts
<1>2. ~Working(p)
  BY <1>1 DEF Working, Steps
<1>4. \A q \in Callers : Working(q) => call[q].attempt # a
  BY <1>1, <1>2, OtherAttempt
<1> QED BY <1>1, <1>4 DEF Interrupted

(* The recovery of an attempt that sent nothing ends it.                     *)
LEMMA RecoverUndispatchedInv ==
    ASSUME CallInv, NEW p \in Callers, NEW a \in Attempts, RecoverUndispatched(p, a),
           setting' = setting
    PROVE  CallInv'
<1>1. /\ work.state = "leased" /\ a = work.attempt
      /\ \A q \in Callers : Working(q) => call[q].attempt # a
  BY DeadAttempt DEF RecoverUndispatched
<1>2. /\ EndAttempt(a, "undispatched") /\ op' \in {op, NewOp}
      /\ UNCHANGED <<holder, ledger, pending, wire, truth, replay>> /\ call' = call
  BY DEF RecoverUndispatched
<1>3. Stores' /\ \A q, c : Own(q, c) /\ Aside(c, a, "undispatched") => Own(q, c)'
  BY <1>1, <1>2, Ended
<1>4. \A q \in Callers : \A d : d = call[q] => Own(q, d) /\ Aside(d, a, "undispatched")
  BY <1>1, NobodyWorks
<1> QED BY <1>2, <1>3, <1>4, Stays

-----------------------------------------------------------------------------
(* The claim of an attempt *)

(* Nobody waits to close an attempt nobody has claimed.                      *)
LEMMA UnknownIsUntold ==
    ASSUME CallInv, NEW a \in Attempts, ~Known(a) PROVE Untold(a) /\ Untouched(a)
<1>1. Untouched(a)
  BY DEF CallInv, Stores, Schedule
<1>2. settled[a] = Unset
  BY <1>1 DEF CallInv, Stores, Shapes, TypeOK, Untouched
<1>3. op.pc # "idle" => op.attempt # a
  BY <1>1 DEF CallInv, Stores, Waiting, Untouched
<1> QED BY <1>1, <1>2, <1>3 DEF CallInv, Stores, Waiting, Untold

(* Somebody asks: it claims the attempt, or looks for the holder.            *)
LEMMA AskInv ==
    ASSUME CallInv, NEW p \in Callers, Ask(p), setting' = setting PROVE CallInv'
<1>1. CASE work.state = "leased" /\ Goto(p, "reclaim") /\ UNCHANGED work
  <2>1. "reclaim" \in PCs
    BY DEF PCs
  <2>2. UNCHANGED <<scheduler, holder, ledger, pending, wire, truth, replay, op>>
    BY <1>1 DEF Ask, scheduler
  <2> QED BY <1>1, <2>1, <2>2, GotoInv
<1>2. CASE /\ work.state = "ready"
           /\ work' = [work EXCEPT !.state = "leased"]
           /\ call' = [call EXCEPT ![p] = [NewCall EXCEPT !.pc = "claimed", !.old = call[p].old,
                                                          !.attempt = work.attempt]]
  <2> USE DEF ledger, wire, truth
  <2> DEFINE a == work.attempt
             c == [NewCall EXCEPT !.pc = "claimed", !.old = call[p].old, !.attempt = work.attempt]
  <2>0. UNCHANGED <<outcome, holder, ledger, pending, wire, truth, replay, op>>
    BY DEF Ask
  <2>1. /\ setting \in Settings /\ work \in [state : {"ready", "leased", "done"},
               attempt : Attempts, reserved : BOOLEAN]
        /\ a \in Attempts /\ MaxAttempts \in Nat
    BY SettingsFacts DEF CallInv, Stores, Shapes, TypeOK
  <2>2. /\ work' \in [state : {"ready", "leased", "done"}, attempt : Attempts, reserved : BOOLEAN]
        /\ work'.state = "leased" /\ work'.attempt = a /\ work'.reserved = work.reserved
        /\ ~work.reserved
    BY <1>2, <2>1 DEF CallInv, Stores, Schedule
  <2>3. \A b \in Nat : Known(b)' <=> Known(b) \/ b = a
    BY <1>2, <2>1, <2>2 DEF Known, Attempts
  <2>4. ~Known(a)
    BY <1>2, <2>1 DEF Known, Attempts
  <2>5. Untold(a) /\ Untouched(a)
    BY <2>1, <2>4, UnknownIsUntold
  <2>6. Stores'
    <3>1. Shapes'
      BY <2>0, <2>2 DEF CallInv, Stores, Shapes, TypeOK, Attempts, Amounts, MaxLinks, Costs,
             Most, OpRecord, ReplayRecord, JournalRecord, Unset
    <3>2. Schedule'
      BY <2>0, <2>1, <2>2, <2>3, <2>5 DEF CallInv, Stores, Schedule, Untouched, Attempts
    <3>3. AbandonedStands'
      BY <2>0 DEF CallInv, Stores, AbandonedStands, Attempts
    <3>4. Waiting'
      <4>1. \A r \in pending : r.attempt \in Nat
        BY DEF CallInv, Stores, Shapes, TypeOK, Attempts
      <4>2. \A x \in Callers \cup Others : replay[x].attempt \in Nat
        BY DEF CallInv, Stores, Shapes, ReplayRecord, Attempts
      <4> QED BY <2>0, <2>3, <4>1, <4>2 DEF CallInv, Stores, Waiting, Operator
    <3>5. Charged' /\ Closed'
      BY <2>0 DEF CallInv, Stores, Charged, Closed, Attempts, Most, Costs, Truthful, Final,
             Loose, Unrecorded, DiskFails, Operator
    <3> QED BY <3>1, <3>2, <3>3, <3>4, <3>5 DEF Stores
  <2>7. ASSUME NEW q \in Callers, q # p, NEW d, d = call[q] PROVE Own(q, d)'
    <3>1. Own(q, d) /\ d \in CallRecord
      BY <2>7 DEF CallInv
    <3>2. d.attempt \in Nat /\ d.seen \in Nat
      BY <2>1, <3>1 DEF CallRecord
    <3>3. d.pc \in Steps => Unrecorded(d.attempt)' /\ d.pc # "claimed"
      BY <1>2, <2>0, <3>1 DEF Own, Holds, Leased, Unrecorded, DiskFails
    <3>4. Holds(q, d)'
      BY <2>0, <2>3, <3>1, <3>2, <3>3 DEF Own, Holds, CallRecord, Most, Costs, DiskFails
    <3>5. Untold(d.attempt) => Untold(d.attempt)'
      BY <2>0, UntoldKept
    <3>6. Walks(d)' /\ Heeds(d)' /\ (Truthful => Reckons(d))'
      <4>1. Truthful' => Truthful
        BY <2>0, TruthKept
      <4> QED BY <2>0, <3>1, <3>5, <4>1, BooksKept DEF Own
    <3> QED BY <3>4, <3>6 DEF Own
  <2>8. c \in CallRecord /\ c.pc = "claimed" /\ c.attempt = a /\ c.doubt = FALSE /\ c.cost = 0
        /\ c.amount = 0
    <3>1. /\ NewCall \in CallRecord /\ NewCall.cost = 0 /\ NewCall.amount = 0
          /\ NewCall.doubt = FALSE
      BY CockpitCallAssumption DEF NewCall, CallRecord, PCs, Heard, Endings, Results
    <3>2. "claimed" \in PCs /\ a \in 0 .. MaxAttempts /\ call[p].old \in 0 .. MaxAttempts
      BY <2>1 DEF PCs, Steps, Attempts, CallInv, CallRecord
    <3> QED BY <3>1, <3>2 DEF CallRecord
  <2>9. call' = [call EXCEPT ![p] = c]
    BY <1>2
  <2> HIDE DEF a, c
  <2>10. a \in Nat /\ a # 0 /\ a = work.attempt
    BY <2>1 DEF Attempts, a
  <2>11. ASSUME NEW d, d = c PROVE Own(p, d)'
    <3>1. Most' = Most /\ 0 <= Most
      BY <2>1, SettingsFacts DEF Most, Costs
    <3>2. Holds(p, d)'
      <4>1. /\ d \in CallRecord /\ d.pc = "claimed" /\ d.attempt = a /\ d.cost = 0 /\ d.amount = 0
            /\ 0 <= 2 * Most
        BY <2>1, <2>8, <2>11, SettingsFacts
      <4>2. /\ work'.state = "leased" /\ work'.attempt = a /\ ~work'.reserved
            /\ holder'[a].status = "none"
        BY <2>0, <2>2, <2>5, <2>10 DEF Untouched
      <4>3. Known(d.attempt)'
        BY <2>10, <4>1, <4>2 DEF Known
      <4> QED BY <2>0, <2>10, <3>1, <4>1, <4>2, <4>3 DEF Holds, Leased, Known
    <3>3. Untold(a)'
      <4>1. \A b : b = a /\ Untold(b) => Untold(b)'
        BY <2>0, UntoldKept
      <4>2. a' = a
        BY <2>2, <2>10 DEF a
      <4> QED BY <2>0, <2>5, <4>2 DEF Untold
    <3>4. /\ d.pc = "claimed" /\ d.attempt = a /\ d.doubt = FALSE /\ a' = a
      BY <2>2, <2>8, <2>11 DEF a
    <3>5. /\ d.attempt \notin admitted /\ routes[d.attempt] = 0 /\ owed[d.attempt] = 0
          /\ broker[d.attempt].state = "none" /\ Untold(d.attempt)'
      BY <2>5, <3>3, <3>4 DEF Untouched, Untold
    <3>6. Walks(d)' /\ Heeds(d)' /\ Reckons(d)'
      BY <2>0, <3>4, <3>5 DEF Walks, Heeds, Reckons, NotAdmitted, IsAdmitted
    <3> QED BY <3>2, <3>6 DEF Own
  <2>12. \A q \in Callers : call'[q] = IF q = p THEN c ELSE call[q]
    BY <2>9 DEF CallInv
  <2>13. \A q \in Callers \ {p} : call[q].attempt # a
    BY <2>4, <2>10 DEF CallInv, Own, Holds
  <2>14. Apart' /\ call' \in [Callers -> CallRecord]
    <3>1. \A q \in Callers : Working(q)' => q = p \/ Working(q)
      BY <2>12 DEF Working
    <3>2. \A q \in Callers \ {p} : call[q].pc \in {"free", "unlink"} => call[q].seen # a
      BY <2>4 DEF CallInv, Own, Holds
    <3>3. Apart'
      BY <2>8, <2>10, <2>12, <2>13, <3>1, <3>2 DEF CallInv, Apart
    <3> QED BY <2>8, <2>12, <2>9, <3>3 DEF CallInv
  <2>15. ASSUME NEW q \in Callers PROVE Own(q, call[q])'
    <3> DEFINE d == call'[q]
    <3>1. \A e : e = d => Own(q, e)'
      BY <2>7, <2>11, <2>12
    <3>2. \A e : e = d /\ Own(q, e)' => Own(q, call[q])'
      BY DEF Own, Holds, Walks, Heeds, Reckons, NotAdmitted, IsAdmitted
    <3> QED BY <3>1, <3>2
  <2> QED BY <2>6, <2>14, <2>15 DEF CallInv
<1> QED BY <1>1, <1>2 DEF Ask

-----------------------------------------------------------------------------
(* The holder files *)

(* A file is written or removed and a process moves; nobody else works on    *)
(* its attempt, and one who has taken the file up finds it as it was or      *)
(* gone.                                                                     *)
FileStep(p, c, a, f) ==
    /\ setting' = setting /\ UNCHANGED <<scheduler, ledger, pending, wire, truth, replay, op>>
    /\ c \in CallRecord /\ Walks(c) /\ Heeds(c) /\ (Truthful => Reckons(c))
    /\ call' = [call EXCEPT ![p] = c] /\ c.attempt = call[p].attempt
    /\ c.pc \notin {"free", "unlink"} /\ (c.pc \in Steps => Working(p))
    /\ Known(a) /\ holder' = [holder EXCEPT ![a] = f]
    /\ f \in [status : {"none", "held", "abandoned"}, by : Callers \cup {Nobody},
              result : Results]
    /\ f.status = "abandoned" => outcome[a] \in {"none", "unrecorded"}
    /\ \/ f.status = "none"
       \/ f.status = "held" /\ f.by = p /\ Working(p) /\ call[p].attempt = a
       \/ Working(p) /\ call[p].attempt = a /\ c.pc \notin Steps
    /\ \A q \in Callers \ {p} : Working(q) => call[q].attempt # a
    /\ \/ Holds(p, c) /\ c.pc \notin Steps
       \/ /\ c.pc = "drain" /\ call[p].pc = "claimed"
          /\ c.cost = call[p].cost /\ c.amount = call[p].amount
          /\ f.status = "held" /\ f.by = p /\ c.attempt = a

LEMMA FileChanges ==
    ASSUME CallInv, NEW p \in Callers, NEW c, NEW a \in Attempts, NEW f, FileStep(p, c, a, f)
    PROVE  CallInv'
<1> USE DEF FileStep
<1> USE DEF scheduler, ledger, wire, truth
<1>1. /\ holder \in [Attempts -> [status : {"none", "held", "abandoned"},
                                by : Callers \cup {Nobody}, result : Results]]
      /\ \A b \in Attempts : holder'[b] = IF b = a THEN f ELSE holder[b]
      /\ holder' \in [Attempts -> [status : {"none", "held", "abandoned"},
                                by : Callers \cup {Nobody}, result : Results]]
  BY DEF CallInv, Stores, Shapes, TypeOK
<1>2. Stores'
  <2>1. Shapes'
    BY <1>1 DEF CallInv, Stores, Shapes, TypeOK, Attempts, Amounts, MaxLinks, Costs,
           Most, OpRecord, ReplayRecord, JournalRecord, Unset
  <2>2. Schedule'
    BY <1>1 DEF CallInv, Stores, Schedule, Untouched, Attempts, Known
  <2>3. AbandonedStands'
    BY <1>1 DEF CallInv, Stores, AbandonedStands, Attempts
  <2>4. Waiting' /\ Charged' /\ Closed'
    BY DEF CallInv, Stores, Waiting, Charged, Closed, Attempts, Most, Costs, Truthful, Final,
           Loose, Unrecorded, DiskFails, Operator, Known
  <2> QED BY <2>1, <2>2, <2>3, <2>4 DEF Stores
<1>5. Truthful' => Truthful
  BY TruthKept
<1>3. ASSUME NEW q \in Callers, NEW d, Own(q, d),
             d.pc \in Steps => d.attempt # a,
             d.pc = "free" /\ d.seen = a => f.status = "none"
      PROVE  Own(q, d)'
  <2>1. d.attempt \in 0 .. MaxAttempts /\ d.seen \in 0 .. MaxAttempts
    BY <1>3 DEF Own, Holds, CallRecord
  <2>2. /\ d.attempt # 0 => d.attempt \in Attempts
        /\ d.seen # 0 => d.seen \in Attempts
    BY <2>1, CockpitCallAssumption DEF Attempts
  <2>3. Holds(q, d)'
    BY <1>1, <1>3, <2>2
       DEF Own, Holds, CallRecord, Most, Costs, Known, Leased, Unrecorded, DiskFails
  <2>4. Untold(d.attempt) => Untold(d.attempt)'
    BY UntoldKept
  <2>5. Walks(d)' /\ Heeds(d)' /\ (Truthful => Reckons(d))'
    BY <1>3, <1>5, <2>4, BooksKept DEF Own
  <2> QED BY <2>3, <2>5 DEF Own
<1>4. ASSUME NEW q \in Callers \ {p}, NEW d, d = call[q] PROVE Own(q, d)'
  <2>1. Own(q, d)
    BY <1>4 DEF CallInv
  <2>2. d.pc = "free" /\ d.seen = a => f.status = "none"
    BY <1>4 DEF CallInv, Apart
  <2>3. d.pc \in Steps => d.attempt # a
    BY <1>4 DEF Working
  <2> QED BY <1>3, <2>1, <2>2, <2>3
<1>6. Own(p, c)'
  <2>1. CASE Holds(p, c) /\ c.pc \notin Steps
    BY <1>3, <2>1 DEF Own
  <2>2. CASE /\ c.pc = "drain" /\ call[p].pc = "claimed"
             /\ c.cost = call[p].cost /\ c.amount = call[p].amount
             /\ f.status = "held" /\ f.by = p /\ c.attempt = a
    <3>1. Holds(p, call[p]) /\ "claimed" \in Steps
      BY DEF CallInv, Own, Steps
    <3>2. c.cost <= Most /\ c.amount <= 2 * Most /\ a # 0 /\ Leased(a)
      BY <2>2, <3>1 DEF Holds
    <3>3. holder'[a].status = "held" /\ holder'[a].by = p
      BY <1>1, <2>2
    <3>4. Holds(p, c)'
      BY <2>2, <3>2, <3>3 DEF Holds, CallRecord, Most, Costs, Known, Leased, Attempts
    <3>5. Untold(c.attempt) => Untold(c.attempt)'
      BY UntoldKept
    <3>6. Walks(c)' /\ Heeds(c)' /\ (Truthful => Reckons(c))'
      BY <1>5, <3>5, BooksKept
    <3> QED BY <3>4, <3>6 DEF Own
  <2> QED BY <2>1, <2>2
<1> QED BY <1>2, <1>4, <1>6, Works

(* The guard records who holds the lease.                                    *)
LEMMA RecordHolderInv ==
    ASSUME CallInv, NEW p \in Callers, NEW ok \in BOOLEAN, RecordHolder(p, ok),
           setting' = setting
    PROVE  CallInv'
<1> DEFINE a == call[p].attempt
           f == [NoFile EXCEPT !.status = "held", !.by = p]
           c == [call[p] EXCEPT !.pc = "drain"]
<1>1. call[p] \in CallRecord /\ Own(p, call[p]) /\ call[p].pc = "claimed" /\ Working(p)
  BY DEF CallInv, RecordHolder, Working, Steps
<1>2. a \in Attempts /\ Leased(a) /\ Known(a)
  BY <1>1, WorkerLeased DEF Own, Holds
<1>3. CASE ~ok
  <2>1. "drain" \in PCs
    BY DEF PCs, Steps
  <2>2. UNCHANGED <<scheduler, holder, ledger, pending, wire, truth, replay, op>>
    BY <1>3 DEF RecordHolder
  <2>3. DiskFails /\ Goto(p, "drain")
    BY <1>3 DEF RecordHolder
  <2> QED BY <1>1, <2>1, <2>2, <2>3, GotoInv
<1>4. CASE ok
  <2>1. holder' = [holder EXCEPT ![a] = f]
    BY <1>4 DEF RecordHolder
  <2>2. f \in [status : {"none", "held", "abandoned"}, by : Callers \cup {Nobody},
               result : Results] /\ f.status = "held" /\ f.by = p
    BY DEF NoFile, Results
  <2>3. call' = [call EXCEPT ![p] = c]
    BY DEF RecordHolder, Goto, CallInv
  <2>4. /\ c \in CallRecord /\ c.pc = "drain" /\ c.attempt = a /\ c.cost = call[p].cost
        /\ c.amount = call[p].amount /\ c.doubt = call[p].doubt
    BY <1>1 DEF CallRecord, PCs, Steps
  <2> HIDE DEF c, f
  <2>5. Walks(c) /\ Heeds(c) /\ (Truthful => Reckons(c))
    BY <1>1, <2>4 DEF Own, Walks, NotAdmitted, IsAdmitted, Heeds, Reckons, Walk
  <2>8. \A q \in Callers \ {p} : Working(q) => call[q].attempt # a
    BY <1>1, WorkerLeased, OtherAttempt
  <2>6. UNCHANGED <<scheduler, ledger, pending, wire, truth, replay, op>>
    BY DEF RecordHolder
  <2>7. /\ c.pc \notin {"free", "unlink"} /\ f.status # "abandoned"
        /\ f.status = "held" /\ f.by = p /\ Working(p) /\ call[p].attempt = a
        /\ c.pc \in Steps => Working(p)
        /\ \/ Holds(p, c) /\ c.pc \notin Steps
           \/ /\ c.pc = "drain" /\ call[p].pc = "claimed"
              /\ c.cost = call[p].cost /\ c.amount = call[p].amount
              /\ f.status = "held" /\ f.by = p /\ c.attempt = a
    BY <1>1, <2>2, <2>4
  <2> HIDE DEF a
  <2>9. c.attempt = call[p].attempt
    BY <2>4 DEF a
  <2>10. FileStep(p, c, a, f)
    BY <1>2, <2>1, <2>2, <2>3, <2>4, <2>5, <2>6, <2>7, <2>8, <2>9 DEF FileStep
  <2> QED BY <1>2, <2>10, FileChanges
<1> QED BY <1>3, <1>4

(* The completion is left in the holder file.                                *)
LEMMA AbandonInv ==
    ASSUME CallInv, NEW p \in Callers, NEW ok \in BOOLEAN, Abandon(p, ok), setting' = setting
    PROVE  CallInv'
<1> DEFINE a == call[p].attempt
           f == [status |-> "abandoned", by |-> p, result |-> call[p].result]
           c == [NewCall EXCEPT !.pc = "idle", !.attempt = call[p].attempt, !.old = call[p].old]
<1>1. call[p] \in CallRecord /\ Own(p, call[p]) /\ call[p].pc = "abandon" /\ Working(p)
  BY DEF CallInv, Abandon, Working, Steps
<1>2. a \in Attempts /\ Known(a) /\ (Leased(a) \/ Unrecorded(a))
  BY <1>1, WorkerLeased DEF Own, Holds
<1>3. CASE ~ok
  <2>1. UNCHANGED <<scheduler, holder, ledger, pending, wire, truth, replay, op>>
    BY <1>3 DEF Abandon
  <2> QED BY <2>1, LeaveInv DEF Abandon
<1>4. CASE ok
  <2>1. holder' = [holder EXCEPT ![a] = f]
    BY <1>4 DEF Abandon
  <2>2. f \in [status : {"none", "held", "abandoned"}, by : Callers \cup {Nobody},
               result : Results]
    BY <1>1 DEF CallRecord
  <2>3. outcome[a] \in {"none", "unrecorded"}
    BY <1>2 DEF CallInv, Stores, Schedule, Leased, Unrecorded
  <2>8. \A q \in Callers \ {p} : Working(q) => call[q].attempt # a
    BY <1>1, WorkerLeased, OtherAttempt
  <2>4. call' = [call EXCEPT ![p] = c]
    BY DEF Abandon, Leave
  <2>5. Own(p, c) /\ c.attempt = call[p].attempt /\ c.pc = "idle"
    BY LeftOwn
  <2> HIDE DEF c, f
  <2>6. UNCHANGED <<scheduler, ledger, pending, wire, truth, replay, op>>
    BY DEF Abandon
  <2>7. c.pc \notin {"free", "unlink"} /\ c.pc \notin Steps
    BY <2>5 DEF Steps
  <2>9. c \in CallRecord /\ Holds(p, c) /\ Walks(c) /\ Heeds(c) /\ (Truthful => Reckons(c))
    BY <2>5 DEF Own, Holds
  <2>10. Working(p) /\ call[p].attempt = a /\ c.pc \notin Steps /\ Holds(p, c)
    BY <1>1, <2>7, <2>9
  <2> HIDE DEF a
  <2>11. FileStep(p, c, a, f)
    BY <1>2, <2>1, <2>2, <2>3, <2>4, <2>5, <2>6, <2>7, <2>8, <2>9, <2>10 DEF FileStep
  <2> QED BY <1>2, <2>11, FileChanges
<1> QED BY <1>3, <1>4

(* An empty file is well formed.                                             *)
LEMMA NoFileType ==
    NoFile \in [status : {"none", "held", "abandoned"}, by : Callers \cup {Nobody},
                result : Results] /\ NoFile.status = "none"
  BY DEF NoFile, Results

(* The holder file is removed after the completion.                          *)
LEMMA ReleaseInv ==
    ASSUME CallInv, NEW p \in Callers, Release(p), setting' = setting PROVE CallInv'
<1> DEFINE a == call[p].attempt
           c == [NewCall EXCEPT !.pc = "idle", !.attempt = call[p].attempt, !.old = call[p].old]
<1>1. call[p] \in CallRecord /\ Own(p, call[p])
  BY DEF CallInv
<1>2. holder' = [holder EXCEPT ![a] = NoFile] /\ call' = [call EXCEPT ![p] = c]
  BY DEF Release, Leave
<1>3. Own(p, c) /\ c.attempt = call[p].attempt /\ c.pc = "idle"
  BY LeftOwn
<1> HIDE DEF c
<1>4. UNCHANGED <<scheduler, ledger, pending, wire, truth, replay, op>>
  BY DEF Release
<1>5. c.pc \notin {"free", "unlink"} /\ c.pc \notin Steps
  BY <1>3 DEF Steps
<1>6. CASE a # 0
  <2>1. a \in Attempts /\ Known(a)
    BY <1>1, <1>6, CockpitCallAssumption DEF CallRecord, Attempts, Own, Holds
  <2>2. NoFile.status # "abandoned"
    BY NoFileType
  <2>3. \A q \in Callers \ {p} : Working(q) => call[q].attempt # a
    BY <1>6, OtherAttempt
  <2>4. c \in CallRecord /\ Holds(p, c) /\ Walks(c) /\ Heeds(c) /\ (Truthful => Reckons(c))
    BY <1>3 DEF Own, Holds
  <2> HIDE DEF a
  <2>5. FileStep(p, c, a, NoFile)
    BY <1>2, <1>3, <1>4, <1>5, <2>1, <2>2, <2>3, <2>4, NoFileType DEF FileStep
  <2> QED BY <2>1, <2>5, FileChanges
<1>7. CASE a = 0
  <2>1. holder' = holder
    BY <1>2, <1>7 DEF CallInv, Stores, Shapes, TypeOK, Attempts
  <2>2. Leave(p, "idle")
    BY DEF Release
  <2> QED BY <1>4, <2>1, <2>2, LeaveInv
<1> QED BY <1>6, <1>7

(* A file that was taken up is removed.                                      *)
LEMMA ReclaimUnlinkInv ==
    ASSUME CallInv, NEW p \in Callers, ReclaimUnlink(p), setting' = setting PROVE CallInv'
<1> DEFINE a == call[p].seen
           pc == IF call[p].freed THEN "idle" ELSE "reclaim"
           c == [NewCall EXCEPT !.pc = pc, !.attempt = call[p].attempt, !.old = call[p].old]
<1>1. call[p] \in CallRecord /\ Own(p, call[p]) /\ call[p].pc = "unlink"
  BY DEF CallInv, ReclaimUnlink
<1>2. holder' = [holder EXCEPT ![a] = NoFile] /\ call' = [call EXCEPT ![p] = c]
  BY DEF ReclaimUnlink, Leave
<1>3. pc \in {"idle", "release", "reclaim", "dead"} /\ pc \in {"idle", "reclaim"}
  OBVIOUS
<1>4. Own(p, c) /\ c.attempt = call[p].attempt /\ c.pc = pc
  <2> HIDE DEF pc
  <2> QED BY <1>3, LeftOwn
<1> HIDE DEF c, pc
<1>5. UNCHANGED <<scheduler, ledger, pending, wire, truth, replay, op>>
  BY DEF ReclaimUnlink
<1>6. c.pc \notin {"free", "unlink"} /\ c.pc \notin Steps
  BY <1>3, <1>4 DEF Steps
<1>7. a \in Attempts /\ Known(a)
  BY <1>1, CockpitCallAssumption DEF CallRecord, Attempts, Own, Holds
<1>8. NoFile.status # "abandoned"
  BY NoFileType
<1>9. \A q \in Callers \ {p} : Working(q) => call[q].attempt # a
  BY <1>1 DEF CallInv, Apart
<1>10. c \in CallRecord /\ Holds(p, c) /\ Walks(c) /\ Heeds(c) /\ (Truthful => Reckons(c))
  BY <1>4 DEF Own, Holds
<1> HIDE DEF a
<1>11. FileStep(p, c, a, NoFile)
  BY <1>2, <1>4, <1>5, <1>6, <1>7, <1>8, <1>9, <1>10, NoFileType DEF FileStep
<1> QED BY <1>7, <1>11, FileChanges

-----------------------------------------------------------------------------
(* The ledger and the pending records *)

(* Settlements, pending records and what is being replayed change, about an  *)
(* attempt nobody walks, and no process moves.                               *)
LEMMA BooksChange ==
    ASSUME CallInv, setting' = setting,
           UNCHANGED <<scheduler, holder, admitted, wire, truth, call>>,
           settled' \in [Attempts -> Amounts \cup {Unset}],
           \A a \in Attempts : settled'[a] # Unset => a \in admitted,
           pending' \subseteq pending,
           replay' \in [Callers \cup Others -> ReplayRecord], op' \in OpRecord,
           \A x \in Callers \cup Others : replay'[x] # NoReplay => Known(replay'[x].attempt),
           op'.pc # "idle" => op'.attempt \in admitted /\ Operator,
           Truthful =>
              /\ \A a \in Attempts : settled'[a] # Unset => Final(a, settled'[a])
              /\ \A x \in Callers \cup Others :
                    replay'[x] # NoReplay => Final(replay'[x].attempt, replay'[x].amount)
              /\ op'.pc # "idle" => Final(op'.attempt, op'.amount),
           \A q \in Callers : Walker(q) =>
              /\ settled'[call[q].attempt] = Unset
              /\ \A x \in Callers \cup Others :
                    replay'[x] # NoReplay => replay'[x].attempt # call[q].attempt
              /\ op'.pc # "idle" => op'.attempt # call[q].attempt
    PROVE  CallInv'
<1> USE DEF scheduler, wire, truth
<1>1. Stores'
  <2>1. Shapes'
    BY DEF CallInv, Stores, Shapes, TypeOK, Attempts, Amounts, MaxLinks, Costs,
           Most, OpRecord, ReplayRecord, JournalRecord, Unset
  <2>2. Schedule'
    BY DEF CallInv, Stores, Schedule, Untouched, Attempts, Known
  <2>3. AbandonedStands' /\ Charged'
    BY DEF CallInv, Stores, AbandonedStands, Charged, Attempts, Most, Costs
  <2>4. Waiting'
    BY DEF CallInv, Stores, Waiting, Known, Operator
  <2>5. Closed'
    BY DEF CallInv, Stores, Closed, Truthful, Final, Loose, Unrecorded, DiskFails, Attempts,
           Operator
  <2> QED BY <2>1, <2>2, <2>3, <2>4, <2>5 DEF Stores
<1>2. ASSUME NEW q \in Callers, NEW d, d = call[q] PROVE Own(q, d)'
  <2>1. Own(q, d)
    BY <1>2 DEF CallInv
  <2>2. Holds(q, d)'
    BY <2>1, HoldsKept DEF Own
  <2>6. (Operator /\ Unrecorded(d.attempt))' <=> Operator /\ Unrecorded(d.attempt)
    BY DEF Operator, Unrecorded, DiskFails
  <2>3. d.pc \in Walk => Untold(d.attempt)' \/ (Operator /\ Unrecorded(d.attempt))'
    BY <1>2, <2>1, <2>6 DEF Own, Walks, Untold, Walker
  <2>4. Walks(d)'
    BY <2>1, <2>3 DEF Own, Walks, NotAdmitted, IsAdmitted, Most, Costs
  <2>5. Heeds(d)' /\ (Truthful => Reckons(d))'
    BY <2>1 DEF Own, Heeds, Reckons, NotAdmitted, Truthful, Final, Loose, Unrecorded,
           DiskFails, Attempts, Operator
  <2> QED BY <2>2, <2>4, <2>5 DEF Own
<1> QED BY <1>1, <1>2, Stays

(* The shapes of what BooksChange speaks of, and who walks.                  *)
LEMMA BooksFacts ==
    ASSUME CallInv
    PROVE  /\ setting \in Settings /\ settled \in [Attempts -> Amounts \cup {Unset}]
           /\ \A a \in Attempts : settled[a] # Unset => a \in admitted
           /\ replay \in [Callers \cup Others -> ReplayRecord] /\ op \in OpRecord
           /\ admitted \subseteq Attempts
           /\ \A x \in Callers \cup Others : replay[x] # NoReplay => Known(replay[x].attempt)
           /\ op.pc # "idle" => op.attempt \in admitted /\ Operator
           /\ Truthful =>
              /\ \A a \in Attempts : settled[a] # Unset => Final(a, settled[a])
              /\ \A r \in pending : Final(r.attempt, r.amount)
              /\ \A x \in Callers \cup Others :
                    replay[x] # NoReplay => Final(replay[x].attempt, replay[x].amount)
              /\ op.pc # "idle" => Final(op.attempt, op.amount)
           /\ \A q \in Callers : Walker(q) =>
              /\ settled[call[q].attempt] = Unset
              /\ \A r \in pending : r.attempt # call[q].attempt
              /\ \A x \in Callers \cup Others :
                    replay[x] # NoReplay => replay[x].attempt # call[q].attempt
              /\ op.pc # "idle" => op.attempt # call[q].attempt
<1>1. Stores /\ \A q \in Callers : Walks(call[q])
  BY DEF CallInv, Own
<1>2. Shapes /\ Waiting /\ Closed
  BY <1>1 DEF Stores
<1>3. \A q \in Callers : Walker(q) => Untold(call[q].attempt)
  BY <1>1 DEF Walks, Walker
<1>4. \A q \in Callers : Walker(q) =>
         /\ settled[call[q].attempt] = Unset
         /\ \A r \in pending : r.attempt # call[q].attempt
         /\ \A x \in Callers \cup Others :
               replay[x] # NoReplay => replay[x].attempt # call[q].attempt
         /\ op.pc # "idle" => op.attempt # call[q].attempt
  BY <1>3 DEF Untold
<1>5. /\ setting \in Settings /\ settled \in [Attempts -> Amounts \cup {Unset}]
      /\ \A a \in Attempts : settled[a] # Unset => a \in admitted
      /\ replay \in [Callers \cup Others -> ReplayRecord] /\ op \in OpRecord
      /\ admitted \subseteq Attempts
  BY <1>2 DEF Shapes, TypeOK
<1>6. /\ \A x \in Callers \cup Others : replay[x] # NoReplay => Known(replay[x].attempt)
      /\ op.pc # "idle" => op.attempt \in admitted /\ Operator
  BY <1>2 DEF Waiting
<1>7. Truthful =>
         /\ \A a \in Attempts : settled[a] # Unset => Final(a, settled[a])
         /\ \A r \in pending : Final(r.attempt, r.amount)
         /\ \A x \in Callers \cup Others :
               replay[x] # NoReplay => Final(replay[x].attempt, replay[x].amount)
         /\ op.pc # "idle" => Final(op.attempt, op.amount)
  BY <1>2 DEF Closed
<1> QED BY <1>4, <1>5, <1>6, <1>7

(* Idle records are well formed.                                             *)
LEMMA NoReplayType == ASSUME setting \in Settings PROVE NoReplay \in ReplayRecord
<1>1. 0 \in Amounts /\ 1 \in Attempts
  BY AmountBounds, CockpitCallAssumption DEF Attempts
<1> QED BY <1>1 DEF NoReplay, ReplayRecord

(* The operator starts with nothing planned.                                  *)
LEMMA NewOpType == ASSUME setting \in Settings PROVE NewOp \in OpRecord /\ NewOp.pc = "idle"
<1>1. 0 \in Amounts /\ 0 \in 0 .. MaxAttempts
  BY AmountBounds, CockpitCallAssumption
<1> QED BY <1>1 DEF NewOp, OpRecord

(* A pending record is taken up for replay.                                  *)
LEMMA StartReplayInv ==
    ASSUME CallInv, NEW x \in Callers \cup Others, StartReplay(x), setting' = setting
    PROVE  CallInv'
<1>1. PICK r \in pending :
          replay' = [replay EXCEPT ![x] = [kind |-> r.kind, attempt |-> r.attempt,
                                           amount |-> r.amount, written |-> FALSE]]
  BY DEF StartReplay
<1> DEFINE n == [kind |-> r.kind, attempt |-> r.attempt, amount |-> r.amount, written |-> FALSE]
<1>2. /\ r \in [kind : {"settle", "void"}, attempt : Attempts, amount : Amounts]
      /\ Known(r.attempt)
  BY DEF CallInv, Stores, Shapes, TypeOK, Waiting
<1>3. n \in ReplayRecord /\ n.attempt = r.attempt /\ n.amount = r.amount
  BY <1>2 DEF ReplayRecord
<1> HIDE DEF n
<1>4. /\ \A y \in Callers \cup Others : replay'[y] = IF y = x THEN n ELSE replay[y]
      /\ replay' \in [Callers \cup Others -> ReplayRecord]
  BY <1>1, <1>3, BooksFacts DEF n
<1>5. \A y \in Callers \cup Others : replay'[y] # NoReplay => Known(replay'[y].attempt)
  BY <1>2, <1>3, <1>4, BooksFacts
<1>6. Truthful => \A y \in Callers \cup Others :
         replay'[y] # NoReplay => Final(replay'[y].attempt, replay'[y].amount)
  BY <1>3, <1>4, BooksFacts
<1>7. UNCHANGED <<scheduler, holder, ledger, pending, wire, truth, call, op>>
  BY DEF StartReplay
<1>8. \A q \in Callers : Walker(q) => \A y \in Callers \cup Others :
         replay'[y] # NoReplay => replay'[y].attempt # call[q].attempt
  BY <1>3, <1>4, BooksFacts
<1> QED BY <1>4, <1>5, <1>6, <1>7, <1>8, BooksFacts, BooksChange DEF ledger

(* A settlement settles an open admission, and leaves a settled one alone.   *)
LEMMA Settlement ==
    ASSUME CallInv, NEW a \in admitted, NEW n \in Amounts, LedgerSettle(a, n),
           Truthful => Final(a, n)
    PROVE  /\ settled' \in [Attempts -> Amounts \cup {Unset}]
           /\ \A b \in Attempts : settled'[b] = IF b = a /\ settled[b] = Unset THEN n
                                                ELSE settled[b]
           /\ \A b \in Attempts : settled'[b] # Unset => b \in admitted
           /\ Truthful => \A b \in Attempts : settled'[b] # Unset => Final(b, settled'[b])
<1>1. a \in Attempts
  BY BooksFacts
<1>2. /\ settled' \in [Attempts -> Amounts \cup {Unset}]
      /\ \A b \in Attempts : settled'[b] = IF b = a /\ settled[b] = Unset THEN n
                                           ELSE settled[b]
  BY <1>1, BooksFacts DEF LedgerSettle
<1> QED BY <1>1, <1>2, BooksFacts

(* The record is written to the ledger.                                      *)
LEMMA ReplayInv ==
    ASSUME CallInv, NEW x \in Callers \cup Others, Replay(x), setting' = setting
    PROVE  CallInv'
<1> DEFINE r == replay[x]
           n == [r EXCEPT !.written = TRUE]
<1>1. r \in ReplayRecord /\ r # NoReplay
  BY BooksFacts DEF Replay
<1>2. n \in ReplayRecord /\ n.attempt = r.attempt /\ n.amount = r.amount
  BY <1>1 DEF ReplayRecord
<1>3. replay' = [replay EXCEPT ![x] = n]
  BY BooksFacts DEF Replay
<1>4. r.amount \in Amounts
  BY <1>1 DEF ReplayRecord
<1>5. UNCHANGED <<scheduler, holder, admitted, pending, wire, truth, call, op>>
  BY DEF Replay
<1>6. IF r.attempt \in admitted THEN LedgerSettle(r.attempt, r.amount) ELSE UNCHANGED settled
  BY DEF Replay
<1> HIDE DEF n, r
<1>7. r = replay[x]
  BY DEF r
<1>8. /\ settled' \in [Attempts -> Amounts \cup {Unset}]
      /\ \A b \in Attempts : settled'[b] = settled[b] \/ b = r.attempt
      /\ \A b \in Attempts : settled'[b] # Unset => b \in admitted
      /\ Truthful => \A b \in Attempts : settled'[b] # Unset => Final(b, settled'[b])
  <2>1. CASE r.attempt \in admitted
    <3>1. Truthful => Final(r.attempt, r.amount)
      BY <1>1, <1>7, BooksFacts
    <3> QED BY <1>4, <1>6, <2>1, <3>1, Settlement
  <2>2. CASE r.attempt \notin admitted
    BY <1>6, <2>2, BooksFacts
  <2> QED BY <2>1, <2>2
<1>9. /\ \A y \in Callers \cup Others : replay'[y] = IF y = x THEN n ELSE replay[y]
      /\ replay' \in [Callers \cup Others -> ReplayRecord]
  BY <1>2, <1>3, BooksFacts
<1>10. \A y \in Callers \cup Others : replay'[y] # NoReplay =>
          /\ replay[y] # NoReplay /\ replay'[y].attempt = replay[y].attempt
          /\ replay'[y].amount = replay[y].amount
  BY <1>1, <1>2, <1>7, <1>9
<1>11. \A q \in Callers : Walker(q) => settled'[call[q].attempt] = Unset
  <2> SUFFICES ASSUME NEW q \in Callers, Walker(q)
               PROVE  settled'[call[q].attempt] = Unset
    OBVIOUS
  <2>1. call[q].attempt \in Attempts
    BY WorkerLeased DEF Working, Walker, Walk, Steps
  <2>2. call[q].attempt # r.attempt /\ settled[call[q].attempt] = Unset
    BY <1>1, <1>7, BooksFacts
  <2> QED BY <1>8, <2>1, <2>2
<1> QED BY <1>5, <1>8, <1>9, <1>10, <1>11, BooksFacts, BooksChange

(* The record is removed, or left for later.                                 *)
LEMMA ReplayEndsInv ==
    ASSUME CallInv, NEW x \in Callers \cup Others, ReplayUnlink(x) \/ ReplayStops(x),
           setting' = setting
    PROVE  CallInv'
<1>1. pending' \subseteq pending /\ replay' = [replay EXCEPT ![x] = NoReplay]
  BY DEF ReplayUnlink, ReplayStops
<1>2. UNCHANGED <<scheduler, holder, ledger, wire, truth, call, op>>
  BY DEF ReplayUnlink, ReplayStops
<1>3. NoReplay \in ReplayRecord
  BY NoReplayType, BooksFacts
<1>4. /\ \A y \in Callers \cup Others : replay'[y] = IF y = x THEN NoReplay ELSE replay[y]
      /\ replay' \in [Callers \cup Others -> ReplayRecord]
  BY <1>1, <1>3, BooksFacts
<1> QED BY <1>1, <1>2, <1>4, BooksFacts, BooksChange DEF ledger

-----------------------------------------------------------------------------
(* The operator *)

(* A sum of costs is bounded by the number of attempts.                      *)
LEMMA CostsBounded ==
    ASSUME NEW S, IsFiniteSet(S), NEW f, NEW g, IsSum(g, f, S), NEW u \in Nat,
           \A b \in S : f[b] \in Nat /\ f[b] <= u
    PROVE  g[S] \in Nat /\ g[S] <= Cardinality(S) * u
<1> DEFINE G == {T \in SUBSET S : g[T] <= Cardinality(T) * u}
<1>0. \A T \in SUBSET S : g[T] \in Nat /\ IsFiniteSet(T) /\ Cardinality(T) \in Nat
  BY SumType, FS_Subset, FS_CardinalityType
<1>1. {} \in G
  <2>1. g[{}] = 0 /\ Cardinality({}) = 0
    BY SumIs, FS_EmptySet
  <2> QED BY <2>1
<1>2. ASSUME NEW T \in SUBSET S, T # {}, \A x \in T : T \ {x} \in G PROVE T \in G
  <2> DEFINE x == Some(T)
             n == Cardinality(T \ {x})
  <2>1. g[T] = f[x] + g[T \ {x}] /\ x \in T
    BY <1>2, SumIs
  <2>2. g[T \ {x}] <= n * u /\ n \in Nat
    BY <1>0, <1>2, <2>1
  <2>3. Cardinality(T) = n + 1
    BY <1>0, <2>1, FS_RemoveElement
  <2>4. g[T \ {x}] \in Nat /\ f[x] \in Nat /\ f[x] <= u /\ g[T] \in Nat
    BY <1>0, <2>1
  <2> HIDE DEF n, x
  <2>5. n * u \in Nat /\ (n + 1) * u = n * u + u
    BY <2>2
  <2>6. g[T] <= n * u + u
    BY <2>1, <2>2, <2>4, <2>5
  <2> QED BY <2>3, <2>5, <2>6
<1>3. \A T \in SUBSET S : T \in G
  <2> HIDE DEF G
  <2> QED BY <1>1, <1>2, SubsetInduction
<1> QED BY <1>0, <1>3

(* The operator adds up what the journal has of a set of attempts.           *)
Journal == [b \in Attempts |-> broker[b].cost]

LEMMA CostsAddUp ==
    ASSUME NEW S \in SUBSET Attempts
    PROVE  \E h : IsSum(h, Journal, S) /\ MapThenSumSet(LAMBDA b : broker[b].cost, S) = h[S]
<1>1. IsFiniteSet(S)
  <2>1. IsFiniteSet(Attempts)
    BY FS_Interval, CockpitCallAssumption DEF Attempts
  <2> QED BY <2>1, FS_Subset
<1>2. \A b \in Attempts : Journal[b] = broker[b].cost
  BY DEF Journal
<1>5. ASSUME NEW g
      PROVE  IsSum(g, Journal, S) <=>
                g = [s \in SUBSET S |-> IF s = {} THEN 0
                       ELSE broker[CHOOSE x \in s : TRUE].cost + g[s \ {CHOOSE x \in s : TRUE}]]
  <2>1. \A s \in SUBSET S : s # {} => Journal[Some(s)] = broker[CHOOSE x \in s : TRUE].cost
    BY <1>2 DEF Some
  <2> QED BY <2>1 DEF IsSum, Some
<1>6. PICK h : /\ h = [s \in SUBSET S |-> IF s = {} THEN 0
                         ELSE broker[CHOOSE x \in s : TRUE].cost + h[s \ {CHOOSE x \in s : TRUE}]]
               /\ MapThenSumSet(LAMBDA b : broker[b].cost, S) = h[S]
  <2>1. PICK g : IsSum(g, Journal, S)
    BY <1>1, SumExists
  <2>2. g = [s \in SUBSET S |-> IF s = {} THEN 0
               ELSE broker[CHOOSE x \in s : TRUE].cost + g[s \ {CHOOSE x \in s : TRUE}]]
    BY <1>5, <2>1
  <2> QED BY <2>2, Zenon DEF MapThenSumSet, MapThenFoldSet
<1> QED BY <1>5, <1>6

(* What the operator values an orphan at is an amount.                       *)
LEMMA OrphanAmount ==
    ASSUME CallInv, NEW a \in Attempts, NEW later \in SUBSET Attempts
    PROVE  OrphanCost(a, later) \in Amounts
<1> DEFINE S == {b \in {a} \cup later : broker[b].state \in Endings}
<1>1. /\ setting \in Settings /\ Most \in Nat /\ MaxAttempts \in Nat
      /\ Reserve \in Amounts
      /\ \A n \in Nat : n <= MaxAttempts * Most => n \in Amounts
  BY SettingsFacts, AmountBounds DEF CallInv, Stores, Shapes, TypeOK
<1>2. \A b \in Attempts : Journal[b] \in Nat /\ Journal[b] <= Most
  BY DEF CallInv, Stores, Shapes, JournalRecord, Journal
<1>3. IsFiniteSet(Attempts) /\ Cardinality(Attempts) = MaxAttempts
  BY <1>1, FS_Interval DEF Attempts
<1>4. S \in SUBSET Attempts /\ IsFiniteSet(S) /\ Cardinality(S) <= MaxAttempts
      /\ Cardinality(S) \in Nat
  BY <1>3, FS_Subset, FS_CardinalityType
<1> HIDE DEF S
<1>6. PICK h : IsSum(h, Journal, S) /\ MapThenSumSet(LAMBDA b : broker[b].cost, S) = h[S]
  BY <1>4, CostsAddUp
<1>8. h[S] \in Nat /\ h[S] <= Cardinality(S) * Most
  BY <1>1, <1>2, <1>4, <1>6, CostsBounded
<1>9. Cardinality(S) * Most <= MaxAttempts * Most /\ Cardinality(S) * Most \in Nat
      /\ MaxAttempts * Most \in Nat
  <2>1. \A x, y, z \in Nat : x <= y => x * z <= y * z /\ x * z \in Nat /\ y * z \in Nat
    OBVIOUS
  <2> QED BY <1>1, <1>4, <2>1
<1>10. h[S] \in Amounts
  BY <1>1, <1>8, <1>9
<1>11. OrphanCost(a, later) \in {MapThenSumSet(LAMBDA b : broker[b].cost, S), Reserve}
  BY Zenon DEF OrphanCost, S
<1>12. OrphanCost(a, later) \in {h[S], Reserve}
  BY <1>6, <1>11, Zenon
<1> QED BY <1>1, <1>10, <1>12

(* With nothing but one metered call under a lease, what the operator values *)
(* it at is what the provider charged; a run nobody waits for is valued at   *)
(* the reservation.                                                          *)
LEMMA OrphanIsFinal ==
    ASSUME CallInv, Metered, Operator, NEW a \in Attempts,
           outcome[a] # "none" \/ (work.state = "leased" /\ work.attempt = a /\ TimeIsUp(a)),
           NEW later \in SUBSET {b \in Attempts : b > a /\ outcome[a] # "lapsed"}
    PROVE  Final(a, OrphanCost(a, later))
<1> DEFINE S == {b \in {a} \cup later : broker[b].state \in Endings}
<1>1. CASE Loose(a)
  BY <1>1 DEF Final
<1>2. CASE ~Loose(a)
  <2>1. /\ outcome[a] = "none" /\ ~broker[a].dirty /\ ~(routes[a] > 1)
        /\ broker[a].state # "none" /\ broker[a].state \in Endings \cup {"none", "running"}
        /\ routes[a] \in Int
    <3>1. broker[a] \in JournalRecord /\ routes[a] \in 0 .. MaxLinks
      BY DEF CallInv, Stores, Shapes, TypeOK
    <3>2. setting \in Settings
      BY DEF CallInv, Stores, Shapes, TypeOK
    <3> QED BY <1>2, <3>1, <3>2, SettingsFacts DEF Loose, JournalRecord
  <2>2. \A b \in later : broker[b].state = "none"
    <3> SUFFICES ASSUME NEW b \in later PROVE broker[b].state = "none"
      OBVIOUS
    <3>1. b \in Attempts /\ ~Known(b)
      BY <2>1 DEF Known, Attempts
    <3> QED BY <3>1, UnknownIsUntold DEF Untouched
  <2>3. "none" \notin Endings /\ "running" \notin Endings
    BY DEF Endings
  <2>4. S \in SUBSET Attempts /\ S \subseteq {a}
    BY <2>2, <2>3
  <2>5. OrphanCost(a, later) = IF S # {} /\ \A b \in S : ~broker[b].dirty
                               THEN MapThenSumSet(LAMBDA b : broker[b].cost, S)
                               ELSE Reserve
    BY Zenon DEF OrphanCost
  <2>6. CASE broker[a].state \in Endings
    <3>1. S = {a}
      BY <2>4, <2>6
    <3> HIDE DEF S
    <3>2. PICK h : IsSum(h, Journal, S) /\ MapThenSumSet(LAMBDA b : broker[b].cost, S) = h[S]
      BY <2>4, CostsAddUp
    <3>11. \A s \in SUBSET S :
              /\ s = {} => h[s] = 0
              /\ s # {} => h[s] = Journal[Some(s)] + h[s \ {Some(s)}] /\ Some(s) \in s
      BY <3>2, SumIs
    <3>3. h[S] = Journal[Some(S)] + h[S \ {Some(S)}] /\ Some(S) \in S
      BY <3>1, <3>11
    <3>4. h[{}] = 0
      BY <3>11
    <3>5. Some(S) = a /\ S \ {Some(S)} = {}
      BY <3>1, <3>3
    <3>6. Journal[a] = broker[a].cost /\ broker[a].cost \in Nat
      BY DEF Journal, CallInv, Stores, Shapes, JournalRecord
    <3>7. h[S] = broker[a].cost
      BY <3>3, <3>4, <3>5, <3>6
    <3>8. S # {} /\ \A b \in S : ~broker[b].dirty
      BY <2>1, <3>1
    <3>9. OrphanCost(a, later) = broker[a].cost
      BY <2>5, <3>2, <3>7, <3>8, Zenon
    <3>10. owed[a] = broker[a].cost
      BY <2>1, <2>6 DEF Metered
    <3> QED BY <2>3, <2>6, <3>9, <3>10 DEF Final
  <2>7. CASE broker[a].state = "running"
    <3>1. S = {}
      BY <2>3, <2>4, <2>7
    <3> HIDE DEF S
    <3>2. OrphanCost(a, later) = Reserve
      BY <2>5, <3>1, Zenon
    <3>3. \A p \in Callers : call[p].pc = "wait" => call[p].attempt # a
      BY <2>1 DEF TimeIsUp, Working, Steps
    <3>4. a \in unclear
      BY <2>7, <3>3 DEF Metered
    <3> QED BY <3>2, <3>4, CockpitCallAssumption DEF Final
  <2> QED BY <2>1, <2>6, <2>7
<1> QED BY <1>1, <1>2

(* An orphan is planned: nobody walks its attempt.                           *)
LEMMA PlanOrphanInv ==
    ASSUME CallInv, Metered, PlanOrphan, setting' = setting PROVE CallInv'
<1>1. PICK a \in admitted :
          /\ settled[a] = Unset
          /\ \/ outcome[a] # "none"
             \/ work.state = "leased" /\ work.attempt = a /\ TimeIsUp(a)
          /\ \E later \in SUBSET {b \in Attempts : b > a /\ outcome[a] # "lapsed"} :
                op' = [NewOp EXCEPT !.pc = "apply", !.attempt = a,
                                    !.amount = OrphanCost(a, later)]
  BY Zenon DEF PlanOrphan
<1>2. PICK later \in SUBSET {b \in Attempts : b > a /\ outcome[a] # "lapsed"} :
          op' = [NewOp EXCEPT !.pc = "apply", !.attempt = a, !.amount = OrphanCost(a, later)]
  BY <1>1, Zenon
<1>3. a \in Attempts /\ setting \in Settings
  BY BooksFacts
<1>4. OrphanCost(a, later) \in Amounts
  BY <1>3, OrphanAmount
<1>5. op' \in OpRecord /\ op'.attempt = a /\ op'.pc = "apply"
      /\ op'.amount = OrphanCost(a, later)
  <2>1. a \in 0 .. MaxAttempts
    BY <1>3 DEF Attempts
  <2> QED BY <1>2, <1>3, <1>4, <2>1, NewOpType DEF OpRecord
<1>6. ASSUME NEW q \in Callers, Walker(q) PROVE call[q].attempt # a
  <2>1. Working(q) /\ ~Unrecorded(call[q].attempt)
    BY <1>6 DEF Walker, Working, Walk, Steps, PlanOrphan
  <2>2. Leased(call[q].attempt)
    BY <2>1, WorkerLeased
  <2>3. outcome[call[q].attempt] = "none"
    BY <2>2 DEF CallInv, Stores, Schedule, Leased
  <2> QED BY <1>1, <2>1, <2>3 DEF TimeIsUp
<1>7. UNCHANGED <<scheduler, holder, ledger, pending, wire, truth, call, replay>> /\ Operator
  BY DEF PlanOrphan
<1>8. Final(op'.attempt, op'.amount)
  BY <1>1, <1>3, <1>5, <1>7, OrphanIsFinal
<1> QED BY <1>5, <1>6, <1>7, <1>8, BooksFacts, BooksChange DEF ledger

(* The operator settles the attempt it has planned, or stops.                *)
LEMMA OpSettles ==
    ASSUME CallInv, setting' = setting, op.pc # "idle",
           UNCHANGED <<scheduler, holder, admitted, pending, wire, truth, call, replay>>,
           LedgerSettle(op.attempt, op.amount) \/ UNCHANGED settled,
           op' \in OpRecord,
           op'.pc # "idle" => op'.attempt = op.attempt /\ op'.amount = op.amount
    PROVE  CallInv'
<1>1. op.attempt \in admitted /\ op.amount \in Amounts
      /\ (Truthful => Final(op.attempt, op.amount))
  BY BooksFacts DEF OpRecord
<1>2. /\ settled' \in [Attempts -> Amounts \cup {Unset}]
      /\ \A b \in Attempts : settled'[b] = settled[b] \/ b = op.attempt
      /\ \A b \in Attempts : settled'[b] # Unset => b \in admitted
      /\ Truthful => \A b \in Attempts : settled'[b] # Unset => Final(b, settled'[b])
  <2>1. CASE LedgerSettle(op.attempt, op.amount)
    BY <1>1, <2>1, Settlement
  <2>2. CASE UNCHANGED settled
    BY <2>2, BooksFacts
  <2> QED BY <2>1, <2>2
<1>3. \A q \in Callers : Walker(q) => settled'[call[q].attempt] = Unset
  <2> SUFFICES ASSUME NEW q \in Callers, Walker(q)
               PROVE  settled'[call[q].attempt] = Unset
    OBVIOUS
  <2>1. call[q].attempt \in Attempts
    BY WorkerLeased DEF Working, Walker, Walk, Steps
  <2>2. call[q].attempt # op.attempt /\ settled[call[q].attempt] = Unset
    BY BooksFacts
  <2> QED BY <1>2, <2>1, <2>2
<1> QED BY <1>1, <1>2, <1>3, BooksFacts, BooksChange

(* The planned valuation is written.                                         *)
LEMMA ApplyOrphanInv ==
    ASSUME CallInv, ApplyOrphan, setting' = setting PROVE CallInv'
<1>1. NewOp \in OpRecord /\ NewOp.pc = "idle"
  BY NewOpType, BooksFacts
<1> QED BY <1>1, OpSettles DEF ApplyOrphan

(* A recovery writes what the broker metered, or finds that it disagrees.    *)
LEMMA RecoverSettleInv ==
    ASSUME CallInv, RecoverSettle, setting' = setting PROVE CallInv'
<1>1. NewOp \in OpRecord /\ NewOp.pc = "idle"
  BY NewOpType, BooksFacts
<1>2. op' \in {[op EXCEPT !.pc = "reconcile"], NewOp}
  BY DEF RecoverSettle
<1>3. op' \in OpRecord /\ (op'.pc # "idle" => op'.attempt = op.attempt
                                                 /\ op'.amount = op.amount)
  BY <1>1, <1>2, BooksFacts DEF OpRecord
<1>4. /\ op.pc # "idle" /\ (LedgerSettle(op.attempt, op.amount) \/ UNCHANGED settled)
      /\ UNCHANGED <<scheduler, holder, admitted, pending, wire, truth, call, replay>>
  BY DEF RecoverSettle
<1> QED BY <1>3, <1>4, OpSettles

(* The operator is interrupted.                                              *)
LEMMA OperatorStopsInv ==
    ASSUME CallInv, OperatorStops, setting' = setting PROVE CallInv'
<1>1. NewOp \in OpRecord /\ NewOp.pc = "idle"
  BY NewOpType, BooksFacts
<1> QED BY <1>1, OpSettles DEF OperatorStops, ledger

(* The operator reserves the lease of a dead process: nobody works under it. *)
LEMMA RecoverReserveInv ==
    ASSUME CallInv, Metered, NEW p \in Callers, NEW a \in Attempts, RecoverReserve(p, a),
           setting' = setting
    PROVE  CallInv'
<1> USE DEF ledger, wire, truth
<1>1. /\ Operator /\ work.state = "leased" /\ work.attempt = a
      /\ \A q \in Callers : Working(q) => call[q].attempt # a
  BY DeadAttempt DEF RecoverReserve, Completed
<1>2. /\ work' = [work EXCEPT !.reserved = TRUE] /\ a \in admitted
      /\ op' = [pc |-> "recover", attempt |-> a, amount |-> broker[a].cost, seen |-> settled[a]]
      /\ UNCHANGED <<outcome, holder, ledger, pending, wire, truth, call, replay>>
  BY DEF RecoverReserve, Completed
<1>3. work \in [state : {"ready", "leased", "done"}, attempt : Attempts, reserved : BOOLEAN]
  BY DEF CallInv, Stores, Shapes, TypeOK
<1>4. /\ work' \in [state : {"ready", "leased", "done"}, attempt : Attempts, reserved : BOOLEAN]
      /\ work'.state = work.state /\ work'.attempt = work.attempt
  BY <1>2, <1>3
<1>5. op' \in OpRecord /\ op'.attempt = a
  <2>1. broker[a].cost \in Amounts
    <3>1. broker[a].cost \in Nat /\ broker[a].cost <= Most /\ setting \in Settings
      BY DEF CallInv, Stores, Shapes, JournalRecord, TypeOK
    <3>2. broker[a].cost <= 2 * Most
      BY <3>1, SettingsFacts
    <3> QED BY <3>1, <3>2, AmountBounds
  <2>2. a \in 0 .. MaxAttempts /\ settled[a] \in Amounts \cup {Unset}
    BY BooksFacts DEF Attempts
  <2> QED BY <1>2, <2>1, <2>2 DEF OpRecord
<1>6. Stores'
  <2>1. Shapes'
    BY <1>2, <1>4, <1>5 DEF CallInv, Stores, Shapes, TypeOK, Attempts, Amounts, MaxLinks, Costs,
           Most, OpRecord, ReplayRecord, JournalRecord, Unset
  <2>2. Schedule'
    BY <1>1, <1>2, <1>4 DEF CallInv, Stores, Schedule, Untouched, Attempts, Known
  <2>3. AbandonedStands' /\ Charged'
    BY <1>2 DEF CallInv, Stores, AbandonedStands, Charged, Attempts, Most, Costs
  <2>4. Waiting'
    BY <1>1, <1>2, <1>4 DEF CallInv, Stores, Waiting, Known, Operator
  <2>6. owed[a] = broker[a].cost /\ broker[a].state # "running"
    <3>1. broker[a].state = "served" /\ ~broker[a].dirty /\ routes[a] = 1
      BY DEF RecoverReserve, Completed
    <3> QED BY <3>1 DEF Metered, Endings
  <2>5. Closed'
    BY <1>2, <2>6 DEF CallInv, Stores, Closed, Truthful, Final, Loose, Unrecorded, DiskFails,
           Attempts, Operator
  <2> QED BY <2>1, <2>2, <2>3, <2>4, <2>5 DEF Stores
<1>7. ASSUME NEW q \in Callers, NEW d, d = call[q] PROVE Own(q, d)'
  <2>1. Own(q, d) /\ (d.pc \in Steps => Unrecorded(d.attempt) /\ d.pc # "claimed")
    BY <1>1, <1>7, WorkerLeased DEF CallInv, Working
  <2>5. Unrecorded(d.attempt) => Unrecorded(d.attempt)'
    BY <1>2 DEF Unrecorded, DiskFails
  <2>2. d.pc \in Walk => (Operator /\ Unrecorded(d.attempt))'
    BY <1>1, <2>1, <2>5 DEF Walk, Steps, Operator
  <2>3. Holds(q, d)'
    BY <1>2, <1>4, <2>1, <2>5 DEF Own, Holds, Known, CallRecord, Most, Costs, DiskFails
  <2>4. Walks(d)'
    <3>1. Walks(d)
      BY <2>1 DEF Own
    <3> QED BY <1>2, <2>2, <3>1 DEF Walks, NotAdmitted, IsAdmitted, Most, Costs
  <2>6. Heeds(d)' /\ (Truthful => Reckons(d))'
    BY <1>2, <2>1 DEF Own, Heeds, Reckons, NotAdmitted, Truthful, Final, Loose, Unrecorded,
           DiskFails, Attempts, Operator
  <2> QED BY <2>3, <2>4, <2>6 DEF Own
<1> QED BY <1>2, <1>6, <1>7, Stays

-----------------------------------------------------------------------------
(* The steps of the walk that change a store *)

(* A worker changes only what belongs to its own attempt.                    *)
LEMMA OthersKept ==
    ASSUME CallInv, setting' = setting, UNCHANGED <<work, outcome, holder, op>>,
           NEW p \in Callers, NEW a \in Attempts, call[p].attempt = a,
           \A b \in Attempts \ {a} :
              /\ settled'[b] = settled[b] /\ routes'[b] = routes[b]
              /\ broker'[b] = broker[b] /\ owed'[b] = owed[b]
              /\ b \in admitted' <=> b \in admitted,
           \A b : b \in unclear => b \in unclear', \A b : b \in dropped => b \in dropped',
           \A r \in pending' : r \in pending \/ r.attempt = a,
           \A x \in Callers \cup Others : replay'[x] \in {replay[x], NoReplay}
    PROVE  \A q \in Callers \ {p} : \A d : d = call[q] => Own(q, d)'
<1> SUFFICES ASSUME NEW q \in Callers \ {p}, NEW d, d = call[q] PROVE Own(q, d)'
  OBVIOUS
<1>1. Own(q, d) /\ d \in CallRecord
  BY DEF CallInv
<1>2. Holds(q, d)'
  BY <1>1, HoldsKept DEF Own
<1>6. Truthful' => Truthful
  BY TruthKept
<1>3. a # 0 /\ d.attempt # a
  BY OtherAttempt DEF Attempts
<1>4. CASE d.pc \in Steps
  <2>1. d.attempt \in Attempts
    BY <1>4, WorkerLeased DEF Working
  <2>2. Untold(d.attempt) => Untold(d.attempt)'
    BY <1>3, <2>1 DEF Untold
  <2>3. Walks(d)' /\ Heeds(d)' /\ (Truthful => Reckons(d))'
    BY <1>1, <1>3, <1>6, <2>1, <2>2, BooksKept DEF Own
  <2> QED BY <1>2, <2>3 DEF Own
<1>5. CASE d.pc \notin Steps
  <2>1. d.pc \notin Walk
    BY <1>5 DEF Walk, Steps
  <2>2. Walks(d)' /\ Heeds(d)' /\ (Truthful => Reckons(d))'
    BY <1>1, <1>6, <2>1 DEF Own, Walks, Heeds, Reckons, NotAdmitted, IsAdmitted, Walk
  <2> QED BY <1>2, <2>2 DEF Own
<1> QED BY <1>4, <1>5

(* What a worker stands on.                                                  *)
LEMMA WorkerFacts ==
    ASSUME CallInv, NEW p \in Callers, Working(p)
    PROVE  /\ call[p] \in CallRecord /\ Own(p, call[p]) /\ call[p].attempt \in Attempts
           /\ call[p].attempt # 0 /\ Known(call[p].attempt)
           /\ \A b \in Attempts : ~Known(b) => b # call[p].attempt
           /\ setting \in Settings
  BY WorkerLeased, BooksFacts DEF CallInv, Own, Holds

(* Nothing that waits is about the attempt of one who walks.                 *)
LEMMA WalkerFacts ==
    ASSUME CallInv, NEW p \in Callers, call[p].pc \in Walk
    PROVE  /\ Working(p)
           /\ Untold(call[p].attempt) \/ (Operator /\ Unrecorded(call[p].attempt))
           /\ Truthful =>
                 /\ Untold(call[p].attempt) /\ settled[call[p].attempt] = Unset
                 /\ \A r \in pending : r.attempt # call[p].attempt
                 /\ \A x \in Callers \cup Others :
                       replay[x] # NoReplay => replay[x].attempt # call[p].attempt
<1>1. Working(p)
  BY DEF Working, Walk, Steps
<1>2. Untold(call[p].attempt) \/ (Operator /\ Unrecorded(call[p].attempt))
  BY DEF CallInv, Own, Walks
<1>3. Truthful => Untold(call[p].attempt)
  BY <1>1, <1>2, WorkerLeased DEF Truthful
<1> QED BY <1>1, <1>2, <1>3 DEF Untold

(* The same one step later.                                                  *)
LEMMA WalkerKept ==
    ASSUME setting' = setting, NEW a, UNCHANGED <<outcome, pending, replay, op>>,
           settled'[a] = settled[a], Untold(a) \/ (Operator /\ Unrecorded(a))
    PROVE  Untold(a)' \/ (Operator /\ Unrecorded(a))'
  BY UntoldKept DEF Operator, Unrecorded, DiskFails

(* The ledger admits the attempt, or may have admitted it.                   *)
LEMMA AdmissionInv ==
    ASSUME CallInv, NEW p \in Callers, Admit(p) \/ AdmitGivesUp(p), setting' = setting
    PROVE  CallInv'
<1> USE DEF scheduler, wire, truth
<1> DEFINE a == call[p].attempt
<1>1. call[p].pc = "admit" /\ call[p].pc \in Walk
  BY DEF Admit, AdmitGivesUp, Walk
<1>2. /\ call[p] \in CallRecord /\ Own(p, call[p]) /\ a \in Attempts /\ a # 0 /\ Known(a)
      /\ Working(p) /\ (Untold(a) \/ (Operator /\ Unrecorded(a)))
  BY <1>1, WorkerFacts, WalkerFacts
<1>0. PICK pc \in {"send", "void"} :
          /\ Goto(p, pc)
          /\ pc = "send" => admitted' = admitted \cup {a}
          /\ admitted' \in {admitted, admitted \cup {a}}
  BY DEF Admit, AdmitGivesUp
<1> DEFINE c == [call[p] EXCEPT !.pc = pc]
<1>3. /\ call' = [call EXCEPT ![p] = c] /\ pc \in {"send", "void"}
      /\ pc = "send" => admitted' = admitted \cup {a}
      /\ admitted' \in {admitted, admitted \cup {a}}
      /\ UNCHANGED <<scheduler, holder, settled, pending, wire, truth, replay, op>>
  <2>1. call' = [call EXCEPT ![p] = c]
    BY <1>0 DEF CallInv, Goto
  <2>2. UNCHANGED <<scheduler, holder, settled, pending, wire, truth, replay, op>>
    BY DEF Admit, AdmitGivesUp
  <2> HIDE DEF c
  <2> QED BY <1>0, <2>1, <2>2
<1>4. /\ c \in CallRecord /\ c.pc = pc /\ c.attempt = a /\ c.cost = call[p].cost
      /\ c.amount = call[p].amount /\ c.doubt = call[p].doubt
  BY <1>2, <1>3 DEF CallRecord, PCs, Steps
<1> HIDE DEF c
<1>5. \A d : d = c => Own(p, d)'
  <2> SUFFICES ASSUME NEW d, d = c PROVE Own(p, d)'
    OBVIOUS
  <2>0. /\ d \in CallRecord /\ d.pc \in {"send", "void"} /\ d.attempt = call[p].attempt
        /\ d.cost = call[p].cost /\ d.amount = call[p].amount /\ d.doubt = call[p].doubt
        /\ d.pc = "send" => call[p].attempt \in admitted'
    BY <1>3, <1>4
  <2>1. Holds(p, d)
    BY <1>1, <1>2, <2>0 DEF Own, Holds, Steps
  <2>2. Holds(p, d)'
    BY <1>3, <2>1, HoldsKept
  <2>3. Untold(d.attempt)' \/ (Operator /\ Unrecorded(d.attempt))'
    BY <1>2, <1>3, <2>0, WalkerKept
  <2>4. Walks(d)'
    BY <1>1, <1>2, <1>3, <2>0, <2>3 DEF Own, Walks, NotAdmitted, IsAdmitted, Walk, Most, Costs
  <2>5. Heeds(d)' /\ (Truthful => Reckons(d))'
    BY <1>1, <1>2, <1>3, <2>0 DEF Own, Heeds, Reckons, NotAdmitted, Truthful, Final, Loose,
           Unrecorded, DiskFails, Attempts, Locks, Operator
  <2> QED BY <2>2, <2>4, <2>5 DEF Own
<1>6. Stores'
  <2>1. Shapes'
    BY <1>2, <1>3 DEF CallInv, Stores, Shapes, TypeOK, Attempts, Amounts, MaxLinks, Costs,
           Most, OpRecord, ReplayRecord, JournalRecord, Unset
  <2>2. Schedule'
    BY <1>2, <1>3 DEF CallInv, Stores, Schedule, Untouched, Attempts, Known
  <2>3. AbandonedStands' /\ Charged'
    BY <1>3 DEF CallInv, Stores, AbandonedStands, Charged, Attempts, Most, Costs
  <2>4. Waiting'
    BY <1>3 DEF CallInv, Stores, Waiting, Known, Operator
  <2>5. Closed'
    BY <1>3 DEF CallInv, Stores, Closed, Truthful, Final, Loose, Unrecorded, DiskFails,
           Attempts, Locks, Operator
  <2> QED BY <2>1, <2>2, <2>3, <2>4, <2>5 DEF Stores
<1>7. \A q \in Callers \ {p} : \A d : d = call[q] => Own(q, d)'
  <2>1. UNCHANGED <<work, outcome, holder, op>>
    BY <1>3
  <2> QED BY <1>2, <1>3, <2>1, OthersKept
<1>8. \A d : d = c => /\ call' = [call EXCEPT ![p] = d] /\ d.attempt = call[p].attempt
                      /\ d \in CallRecord /\ d.pc \notin {"free", "unlink"}
  BY <1>3, <1>4
<1> QED BY <1>2, <1>5, <1>6, <1>7, <1>8, Works

(* What its worker says of the cost of an attempt is settled or kept; the    *)
(* worker has nothing left to tell.                                          *)
LEMMA Tells ==
    ASSUME CallInv, NEW p \in Callers, setting' = setting, call[p].pc \in Walk,
           call[p].pc # "claimed", NEW n \in Amounts, NEW kind \in {"settle", "void"},
           Truthful => Final(call[p].attempt, n),
           UNCHANGED <<scheduler, holder, admitted, wire, truth, replay, op>>,
           \/ LedgerSettle(call[p].attempt, n) /\ call[p].attempt \in admitted /\ pending' = pending
           \/ /\ settled' = settled
              /\ pending' \in {pending, pending \cup {[kind |-> kind, attempt |-> call[p].attempt,
                                                       amount |-> n]}},
           NEW c, c \in CallRecord, c.pc \in {"finish", "exit"}, c.attempt = call[p].attempt,
           c.cost = call[p].cost, c.amount <= 2 * Most, c.doubt = call[p].doubt,
           call' = [call EXCEPT ![p] = c]
    PROVE  CallInv'
<1> USE DEF scheduler, wire, truth
<1> DEFINE a == call[p].attempt
           r == [kind |-> kind, attempt |-> a, amount |-> n]
<1>1. /\ call[p] \in CallRecord /\ Own(p, call[p]) /\ a \in Attempts /\ a # 0 /\ Known(a)
      /\ Working(p)
  BY WorkerFacts, WalkerFacts
<1>2. /\ settled' \in [Attempts -> Amounts \cup {Unset}]
      /\ \A b \in Attempts \ {a} : settled'[b] = settled[b]
      /\ \A b \in Attempts : settled'[b] # Unset => b \in admitted
      /\ Truthful => \A b \in Attempts : settled'[b] # Unset => Final(b, settled'[b])
  <2>1. CASE LedgerSettle(a, n) /\ a \in admitted
    BY <2>1, Settlement
  <2>2. CASE settled' = settled
    BY <2>2, BooksFacts
  <2> QED BY <2>1, <2>2
<1>3. \A s \in pending' : s \in pending \/ s = r
  OBVIOUS
<1>4. /\ r.attempt = a /\ r.amount = n
      /\ r \in [kind : {"settle", "void"}, attempt : Attempts, amount : Amounts]
  BY <1>1
<1> HIDE DEF r
<1>5. Stores'
  <2>1. Shapes'
    BY <1>2, <1>3, <1>4 DEF CallInv, Stores, Shapes, TypeOK, Attempts, Amounts, MaxLinks, Costs,
           Most, OpRecord, ReplayRecord, JournalRecord, Unset
  <2>2. Schedule'
    BY DEF CallInv, Stores, Schedule, Untouched, Attempts, Known
  <2>3. AbandonedStands' /\ Charged'
    BY DEF CallInv, Stores, AbandonedStands, Charged, Attempts, Most, Costs
  <2>4. Waiting'
    BY <1>1, <1>3, <1>4 DEF CallInv, Stores, Waiting, Known, Operator
  <2>5. Closed'
    BY <1>2, <1>3, <1>4 DEF CallInv, Stores, Closed, Truthful, Final, Loose, Unrecorded,
           DiskFails, Attempts, Locks, Operator
  <2> QED BY <2>1, <2>2, <2>3, <2>4, <2>5 DEF Stores
<1>6. \A q \in Callers \ {p} : \A d : d = call[q] => Own(q, d)'
  <2>1. \A s \in pending' : s \in pending \/ s.attempt = a
    BY <1>3, <1>4
  <2>2. UNCHANGED <<work, outcome, holder, op>>
    OBVIOUS
  <2> QED BY <1>1, <1>2, <2>1, <2>2, OthersKept
<1>7. Own(p, c)'
  <2>1. Holds(p, c)
    BY <1>1 DEF Own, Holds, Steps, Working
  <2>2. Holds(p, c)'
    BY <2>1, HoldsKept
  <2>4. Truthful' => Truthful
    BY TruthKept
  <2>3. Walks(c)' /\ Heeds(c)' /\ (Truthful => Reckons(c))'
    BY <1>1, <2>4 DEF Own, Walks, Heeds, Reckons, NotAdmitted, IsAdmitted, Walk
  <2> QED BY <2>2, <2>3 DEF Own
<1> QED BY <1>1, <1>5, <1>6, <1>7, Works

(* What may have been admitted is to be voided.                              *)
LEMMA RecordVoidInv ==
    ASSUME CallInv, NEW p \in Callers, NEW ok \in BOOLEAN, RecordVoid(p, ok), setting' = setting
    PROVE  CallInv'
<1> DEFINE c == [call[p] EXCEPT !.pc = "exit", !.raising = TRUE]
<1>1. call[p].pc = "void" /\ call[p].pc \in Walk
  BY DEF RecordVoid, Walk
<1>2. call[p] \in CallRecord /\ Own(p, call[p]) /\ 0 \in Amounts
  BY <1>1, WorkerFacts, WalkerFacts, AmountBounds
<1>3. call' = [call EXCEPT ![p] = c]
  BY DEF CallInv, RecordVoid
<1>4. /\ c \in CallRecord /\ c.pc = "exit" /\ c.attempt = call[p].attempt
      /\ c.cost = call[p].cost /\ c.amount = call[p].amount /\ c.doubt = call[p].doubt
  BY <1>2 DEF CallRecord, PCs, Steps
<1> HIDE DEF c
<1>5. c.amount <= 2 * Most /\ (Truthful => Final(call[p].attempt, 0))
  BY <1>1, <1>2, <1>4 DEF Own, Holds, Walks, Reckons, Final
<1>6. /\ UNCHANGED <<scheduler, holder, admitted, wire, truth, replay, op>> /\ settled' = settled
      /\ pending' \in {pending, pending \cup {[kind |-> "void", attempt |-> call[p].attempt,
                                               amount |-> 0]}}
  BY DEF RecordVoid, ledger
<1>7. /\ c.pc \in {"finish", "exit"} /\ "void" \in {"settle", "void"}
  BY <1>4
<1> QED BY <1>1, <1>2, <1>3, <1>4, <1>5, <1>6, <1>7, Tells

(* The record a settled call goes on with.                                   *)
LEMMA Settled ==
    ASSUME CallInv, NEW p \in Callers, call[p].pc \in {"settle", "keep"},
           call' = [call EXCEPT ![p].pc = AfterSettle(p), ![p].amount = 0]
    PROVE  /\ call[p].pc \in Walk /\ call[p].pc # "claimed"
           /\ call[p].amount \in Amounts /\ call[p].attempt \in admitted
           /\ Truthful => Final(call[p].attempt, call[p].amount)
           /\ \E c \in CallRecord :
                 /\ c.pc \in {"finish", "exit"} /\ c.attempt = call[p].attempt
                 /\ c.cost = call[p].cost /\ c.amount <= 2 * Most /\ c.doubt = call[p].doubt
                 /\ call' = [call EXCEPT ![p] = c]
<1> DEFINE c == [call[p] EXCEPT !.pc = AfterSettle(p), !.amount = 0]
<1>1. call[p].pc \in Walk
  BY DEF Walk
<1>2. call[p] \in CallRecord /\ Own(p, call[p]) /\ setting \in Settings
  BY <1>1, WorkerFacts, WalkerFacts
<1>3. call' = [call EXCEPT ![p] = c]
  BY DEF CallInv
<1>4. AfterSettle(p) \in {"finish", "exit"}
  BY DEF AfterSettle
<1>5. /\ c \in CallRecord /\ c.pc \in {"finish", "exit"} /\ c.attempt = call[p].attempt
      /\ c.cost = call[p].cost /\ c.amount = 0 /\ c.doubt = call[p].doubt
  BY <1>2, <1>4 DEF CallRecord, PCs, Steps
<1> HIDE DEF c
<1>6. c.amount <= 2 * Most
  BY <1>2, <1>5, SettingsFacts
<1>7. call[p].amount \in Nat /\ call[p].amount <= 2 * Most
  BY <1>2 DEF Own, Holds, CallRecord
<1>8. call[p].amount \in Amounts
  BY <1>2, <1>7, AmountBounds
<1>9. call[p].attempt \in admitted /\ (Truthful => Final(call[p].attempt, call[p].amount))
  BY <1>2 DEF Own, Walks, IsAdmitted, Reckons
<1> QED BY <1>1, <1>3, <1>5, <1>6, <1>8, <1>9

(* The settlement is written.                                                *)
LEMMA SettleInv ==
    ASSUME CallInv, NEW p \in Callers, Settle(p), setting' = setting PROVE CallInv'
<1>1. /\ call[p].pc \in {"settle", "keep"}
      /\ call' = [call EXCEPT ![p].pc = AfterSettle(p), ![p].amount = 0]
      /\ LedgerSettle(call[p].attempt, call[p].amount) /\ pending' = pending
      /\ UNCHANGED <<scheduler, holder, admitted, wire, truth, replay, op>>
  BY DEF Settle
<1>2. /\ call[p].pc \in Walk /\ call[p].pc # "claimed"
      /\ call[p].amount \in Amounts /\ call[p].attempt \in admitted
      /\ Truthful => Final(call[p].attempt, call[p].amount)
      /\ \E c \in CallRecord :
                 /\ c.pc \in {"finish", "exit"} /\ c.attempt = call[p].attempt
                 /\ c.cost = call[p].cost /\ c.amount <= 2 * Most /\ c.doubt = call[p].doubt
                 /\ call' = [call EXCEPT ![p] = c]
  BY <1>1, Settled
<1> QED BY <1>1, <1>2, Tells

(* The settlement is kept in a pending record.                               *)
LEMMA RecordSettlementInv ==
    ASSUME CallInv, NEW p \in Callers, NEW ok \in BOOLEAN, RecordSettlement(p, ok),
           setting' = setting
    PROVE  CallInv'
<1>1. /\ call[p].pc \in {"settle", "keep"}
      /\ call' = [call EXCEPT ![p].pc = AfterSettle(p), ![p].amount = 0]
      /\ settled' = settled
      /\ UNCHANGED <<scheduler, holder, admitted, wire, truth, replay, op>>
      /\ pending' \in {pending, pending \cup {[kind |-> "settle", attempt |-> call[p].attempt,
                                               amount |-> call[p].amount]}}
  BY DEF RecordSettlement, ledger
<1>2. /\ call[p].pc \in Walk /\ call[p].pc # "claimed"
      /\ call[p].amount \in Amounts /\ call[p].attempt \in admitted
      /\ Truthful => Final(call[p].attempt, call[p].amount)
      /\ \E c \in CallRecord :
                 /\ c.pc \in {"finish", "exit"} /\ c.attempt = call[p].attempt
                 /\ c.cost = call[p].cost /\ c.amount <= 2 * Most /\ c.doubt = call[p].doubt
                 /\ call' = [call EXCEPT ![p] = c]
  BY <1>1, Settled
<1> QED BY <1>1, <1>2, Tells

-----------------------------------------------------------------------------
(* The steps of the walk that route, send and hear *)

(* The stores, when the router, the broker or the provider has got further.  *)
LEMMA StoresGrow ==
    ASSUME CallInv, setting' = setting,
           UNCHANGED <<scheduler, holder, ledger, pending, op>>,
           routes' \in [Attempts -> 0 .. MaxLinks], broker' \in [Attempts -> JournalRecord],
           owed' \in [Attempts -> Amounts], unclear \subseteq unclear', unclear' \subseteq Attempts,
           dropped \subseteq dropped', dropped' \subseteq Attempts,
           \A a \in Attempts :
              /\ broker'[a].cost <= Most
              /\ ~Known(a) => routes'[a] = 0 /\ broker'[a].state = "none" /\ owed'[a] = 0
              /\ owed'[a] <= routes'[a] * Most
              /\ broker'[a].state = "running" => owed'[a] + Most <= routes'[a] * Most,
           \A x \in Callers \cup Others : replay'[x] \in {replay[x], NoReplay},
           replay' \in [Callers \cup Others -> ReplayRecord],
           Truthful => \A a \in Attempts :
              Untold(a) \/ \A n \in Nat : Final(a, n) => Final(a, n)'
    PROVE  Stores'
<1> USE DEF scheduler, ledger
<1>1. Shapes'
  BY DEF CallInv, Stores, Shapes, TypeOK, Attempts, Amounts, MaxLinks, Costs,
         Most, OpRecord, ReplayRecord, JournalRecord, Unset
<1>2. Schedule'
  BY DEF CallInv, Stores, Schedule, Untouched, Attempts, Known
<1>3. AbandonedStands'
  BY DEF CallInv, Stores, AbandonedStands, Attempts
<1>4. Charged'
  BY DEF Charged, Attempts, Most, Costs
<1>5. Waiting'
  BY DEF CallInv, Stores, Waiting, Known, Operator
<1>6. Closed'
  <2>1. Truthful' => Truthful
    BY TruthKept
  <2>2. /\ setting \in Settings
        /\ \A a \in Attempts : settled[a] # Unset => settled[a] \in Nat
        /\ \A r \in pending : r.attempt \in Attempts /\ r.amount \in Nat
        /\ \A x \in Callers \cup Others :
              replay[x].attempt \in Attempts /\ replay[x].amount \in Nat
        /\ op.pc # "idle" => op.attempt \in Attempts /\ op.amount \in Nat
    <3>1. setting \in Settings
      BY BooksFacts
    <3>2. Amounts \subseteq Nat
      BY <3>1, AmountBounds
    <3>3. pending \subseteq [kind : {"settle", "void"}, attempt : Attempts, amount : Amounts]
      BY DEF CallInv, Stores, Shapes, TypeOK
    <3>4. \A r \in pending : r.attempt \in Attempts /\ r.amount \in Nat
      BY <3>2, <3>3
    <3>5. \A x \in Callers \cup Others :
             replay[x].attempt \in Attempts /\ replay[x].amount \in Nat
      BY <3>2, BooksFacts DEF ReplayRecord
    <3>6. \A a \in Attempts : settled[a] # Unset => settled[a] \in Nat
      BY <3>2, BooksFacts
    <3>7. op.pc # "idle" => op.attempt \in Attempts /\ op.amount \in Nat
      BY <3>2, BooksFacts DEF OpRecord
    <3> QED BY <3>1, <3>4, <3>5, <3>6, <3>7
  <2> SUFFICES ASSUME Truthful
               PROVE  /\ \A a \in Attempts : settled[a] # Unset => Final(a, settled[a])'
                      /\ \A r \in pending : Final(r.attempt, r.amount)'
                      /\ \A x \in Callers \cup Others : \A r :
                            r = replay[x] /\ r # NoReplay => Final(r.attempt, r.amount)'
                      /\ \A o : o = op /\ o.pc # "idle" => Final(o.attempt, o.amount)'
    BY <2>1 DEF Closed, Attempts, Final, Loose, Operator
  <2>3. \A a \in Attempts : settled[a] # Unset => Final(a, settled[a])'
    BY <2>2, BooksFacts DEF Untold
  <2>4. \A r \in pending : Final(r.attempt, r.amount)'
    BY <2>2, BooksFacts DEF Untold
  <2>5. \A x \in Callers \cup Others : \A r :
           r = replay[x] /\ r # NoReplay => Final(r.attempt, r.amount)'
    BY <2>2, BooksFacts DEF Untold
  <2>6. \A o : o = op /\ o.pc # "idle" => Final(o.attempt, o.amount)'
    BY <2>2, BooksFacts DEF Untold
  <2> QED BY <2>3, <2>4, <2>5, <2>6
<1> QED BY <1>1, <1>2, <1>3, <1>4, <1>5, <1>6 DEF Stores

(* What the books of a routed attempt allow.                                 *)
LEMMA WireFacts ==
    ASSUME CallInv
    PROVE  /\ routes \in [Attempts -> 0 .. MaxLinks] /\ broker \in [Attempts -> JournalRecord]
           /\ owed \in [Attempts -> Amounts] /\ unclear \subseteq Attempts
           /\ dropped \subseteq Attempts
           /\ replay \in [Callers \cup Others -> ReplayRecord]
           /\ setting \in Settings /\ MaxLinks \in Nat /\ Most \in Nat /\ Amounts \subseteq Nat
           /\ \A a \in Attempts :
                 /\ broker[a].cost <= Most
                 /\ ~Known(a) => routes[a] = 0 /\ broker[a].state = "none" /\ owed[a] = 0
                 /\ owed[a] <= routes[a] * Most
                 /\ broker[a].state = "running" => owed[a] + Most <= routes[a] * Most
<1>1. Stores /\ setting \in Settings
  BY BooksFacts DEF CallInv
<1>2. Shapes /\ Schedule /\ Charged
  BY <1>1 DEF Stores
<1>3. MaxLinks \in Nat /\ Most \in Nat /\ Amounts \subseteq Nat
  BY <1>1, SettingsFacts, AmountBounds
<1>4. \A a \in Attempts : ~Known(a) => routes[a] = 0 /\ broker[a].state = "none" /\ owed[a] = 0
  BY <1>2 DEF Schedule, Untouched
<1> QED BY <1>1, <1>2, <1>3, <1>4 DEF Shapes, TypeOK, Charged

(* A worker goes on with what it has got of the router, the broker or the    *)
(* provider.                                                                 *)
LEMMA Carried ==
    ASSUME CallInv, NEW p \in Callers, call[p].pc \in Walk, setting' = setting,
           UNCHANGED <<scheduler, holder, ledger, pending, replay, op, owed>>,
           NEW a, a = call[p].attempt,
           routes' \in [Attempts -> 0 .. MaxLinks], broker' \in [Attempts -> JournalRecord],
           \A b \in Attempts \ {a} : routes'[b] = routes[b] /\ broker'[b] = broker[b],
           broker'[a].cost <= Most, owed[a] <= routes'[a] * Most,
           broker'[a].state = "running" => owed[a] + Most <= routes'[a] * Most,
           unclear' \in {unclear, unclear \cup {a}}, dropped' \in {dropped, dropped \cup {a}},
           call[p].pc # "claimed",
           NEW c, c \in CallRecord, c.attempt = a, c.pc \in Steps \ {"claimed"}, c.cost <= Most,
           c.amount <= 2 * Most, call' = [call EXCEPT ![p] = c],
           Walks(c)', Heeds(c)', Truthful => Reckons(c)'
    PROVE  CallInv'
<1>1. /\ call[p] \in CallRecord /\ Own(p, call[p]) /\ a \in Attempts /\ a # 0 /\ Known(a)
      /\ Working(p) /\ (Truthful => Untold(a))
  BY WorkerFacts, WalkerFacts
<1>2. \A b \in Attempts : b # a => \A n \in Nat : Final(b, n) => Final(b, n)'
  BY FinalKept DEF scheduler
<1>3. /\ unclear \subseteq unclear' /\ unclear' \subseteq Attempts
      /\ dropped \subseteq dropped' /\ dropped' \subseteq Attempts
      /\ \A x \in Callers \cup Others : replay'[x] \in {replay[x], NoReplay}
  BY <1>1, WireFacts
<1>4. \A b \in Attempts :
         /\ broker'[b].cost <= Most
         /\ ~Known(b) => routes'[b] = 0 /\ broker'[b].state = "none" /\ owed'[b] = 0
         /\ owed'[b] <= routes'[b] * Most
         /\ broker'[b].state = "running" => owed'[b] + Most <= routes'[b] * Most
  <2> SUFFICES ASSUME NEW b \in Attempts
               PROVE  /\ broker'[b].cost <= Most
                      /\ ~Known(b) => routes'[b] = 0 /\ broker'[b].state = "none" /\ owed'[b] = 0
                      /\ owed'[b] <= routes'[b] * Most
                      /\ broker'[b].state = "running" => owed'[b] + Most <= routes'[b] * Most
    OBVIOUS
  <2>1. CASE b = a
    BY <1>1, <2>1
  <2>2. CASE b # a
    BY <2>2, WireFacts
  <2> QED BY <2>1, <2>2
<1>5. Stores'
  BY <1>1, <1>2, <1>3, <1>4, WireFacts, StoresGrow
<1>6. Own(p, c)'
  <2>1. Holds(p, c)
    BY <1>1 DEF Own, Holds, Working, Steps
  <2>2. Holds(p, c)'
    BY <2>1, HoldsKept DEF scheduler
  <2>3. Truthful' => Truthful
    BY TruthKept DEF scheduler
  <2> QED BY <2>2, <2>3 DEF Own
<1>7. \A q \in Callers \ {p} : \A d : d = call[q] => Own(q, d)'
  <2>1. UNCHANGED <<work, outcome, holder, op, pending, replay, settled, admitted, owed>>
    BY DEF scheduler, ledger
  <2> QED BY <1>1, <1>3, <2>1, OthersKept
<1>8. c.pc \notin {"free", "unlink"}
  BY DEF Steps
<1> QED BY <1>1, <1>5, <1>6, <1>7, <1>8, Works

(* A route is decided: the first one awaits its admission.                   *)
LEMMA RouteInv ==
    ASSUME CallInv, NEW p \in Callers, Route(p), setting' = setting PROVE CallInv'
<1> DEFINE a == call[p].attempt
           pc == IF routes[a] = 0 THEN "admit" ELSE "send"
           c == [call[p] EXCEPT !.pc = pc]
<1>1. call[p].pc = "route" /\ call[p].pc \in Walk
  BY DEF Route, Walk
<1>2. /\ call[p] \in CallRecord /\ Own(p, call[p]) /\ a \in Attempts
      /\ Untold(a) \/ (Operator /\ Unrecorded(a))
  BY <1>1, WorkerFacts, WalkerFacts
<1>3. /\ routes' = [routes EXCEPT ![a] = @ + 1] /\ routes[a] < MaxLinks
      /\ UNCHANGED <<scheduler, holder, ledger, pending, broker, truth, replay, op>>
      /\ call' = [call EXCEPT ![p] = c]
  BY DEF CallInv, Route, Decided, Goto
<1>4. /\ c \in CallRecord /\ c.pc = pc /\ pc \in {"admit", "send"} /\ c.attempt = a
      /\ c.cost = call[p].cost /\ c.amount = call[p].amount /\ c.doubt = call[p].doubt
  BY <1>2 DEF CallRecord, PCs, Steps
<1>5. routes[a] \in 0 .. MaxLinks /\ MaxLinks \in Nat /\ Most \in Nat /\ owed[a] \in Nat
  BY <1>2, WireFacts
<1>6. /\ routes' \in [Attempts -> 0 .. MaxLinks] /\ routes'[a] = routes[a] + 1
      /\ \A b \in Attempts \ {a} : routes'[b] = routes[b]
  BY <1>2, <1>3, <1>5, WireFacts
<1>7. /\ owed[a] + Most <= routes'[a] * Most /\ owed[a] <= routes'[a] * Most
      /\ routes[a] = 0 => owed[a] = 0
  <2> HIDE DEF a
  <2>1. owed[a] <= routes[a] * Most
    BY <1>2, WireFacts
  <2>2. \A n, u \in Nat : (n + 1) * u = n * u + u /\ n * u \in Nat /\ 0 * u = 0
    OBVIOUS
  <2>3. /\ (routes[a] + 1) * Most = routes[a] * Most + Most /\ routes[a] * Most \in Nat
        /\ 0 * Most = 0
    BY <1>5, <2>2
  <2>4. routes'[a] * Most = routes[a] * Most + Most
    BY <1>6, <2>3
  <2> QED BY <1>5, <2>1, <2>3, <2>4
<1>8. pc = "admit" <=> routes[a] = 0
  OBVIOUS
<1> HIDE DEF c, pc
<1>9. \A d : d = c => Walks(d)' /\ Heeds(d)' /\ (Truthful => Reckons(d)')
  <2> SUFFICES ASSUME NEW d, d = c PROVE Walks(d)' /\ Heeds(d)' /\ (Truthful => Reckons(d)')
    OBVIOUS
  <2>1. /\ d \in CallRecord /\ d.pc \in {"admit", "send"} /\ d.attempt = call[p].attempt
        /\ d.doubt = call[p].doubt
        /\ d.pc = "admit" <=> routes[call[p].attempt] = 0
    BY <1>4, <1>8
  <2>2. Untold(d.attempt)' \/ (Operator /\ Unrecorded(d.attempt))'
    BY <1>2, <1>3, <2>1, WalkerKept DEF ledger, scheduler
  <2>3. /\ routes'[d.attempt] # 0 /\ owed[d.attempt] + Most <= routes'[d.attempt] * Most
        /\ d.pc = "admit" => owed[d.attempt] = 0
        /\ UNCHANGED <<admitted, broker, owed, unclear>>
    BY <1>3, <1>5, <1>6, <1>7, <2>1 DEF ledger, truth
  <2>4. Walks(d)'
    BY <1>1, <1>2, <2>1, <2>2, <2>3 DEF Own, Walks, NotAdmitted, IsAdmitted, Walk, Most, Costs
  <2>5. Heeds(d)' /\ (Truthful => Reckons(d)')
    <3>1. Heeds(d)'
      BY <1>1, <1>2, <2>1, <2>3 DEF Own, Heeds
    <3>2. Truthful => Reckons(d)'
      BY <1>1, <1>2, <2>1, <2>3 DEF Own, Reckons, NotAdmitted
    <3> QED BY <3>1, <3>2
  <2> QED BY <2>4, <2>5
<1>10. \A d : d = c =>
          /\ d \in CallRecord /\ d.attempt = call[p].attempt /\ d.pc \in Steps \ {"claimed"}
          /\ d.cost <= Most
          /\ d.amount <= 2 * Most /\ call' = [call EXCEPT ![p] = d]
  BY <1>2, <1>3, <1>4 DEF Own, Holds, Steps
<1>11. /\ broker[a].cost <= Most /\ broker' = broker /\ broker \in [Attempts -> JournalRecord]
       /\ UNCHANGED <<scheduler, holder, ledger, pending, replay, op, owed>>
       /\ unclear' = unclear /\ dropped' = dropped /\ call[p].pc # "claimed"
  BY <1>1, <1>2, <1>3, WireFacts DEF truth
<1> QED BY <1>1, <1>2, <1>6, <1>7, <1>9, <1>10, <1>11, Carried

(* The walk ends at its route: the last decision tells that no link is left. *)
LEMMA RouteEndsInv ==
    ASSUME CallInv, NEW p \in Callers, RouteEnds(p), setting' = setting PROVE CallInv'
<1> DEFINE a == call[p].attempt
           n == IF call[p].doubt THEN Reserve ELSE 0
<1>1. call[p].pc = "route" /\ call[p].pc \in Walk
  BY DEF RouteEnds, Walk
<1>2. /\ call[p] \in CallRecord /\ Own(p, call[p]) /\ a \in Attempts
      /\ Untold(a) \/ (Operator /\ Unrecorded(a))
  BY <1>1, WorkerFacts, WalkerFacts
<1>3. n \in Nat /\ n <= 2 * Most
  BY ChainAmounts
<1>4. Truthful /\ a \in admitted => Final(a, n)
  <2>1. IsAdmitted(call[p]) \/ NotAdmitted(call[p])
    BY <1>1 DEF IsAdmitted, NotAdmitted
  <2> QED BY <1>1, <1>2, <2>1, ChainAmounts DEF Own, Walks, Reckons, Final, CallRecord
<1>5. UNCHANGED <<scheduler, holder, ledger, pending, broker, truth, replay, op>>
  BY DEF RouteEnds
<1>6. "failed" \in Results
  BY DEF Results
<1>7. \/ ChainRaises(p, call[p], n) /\ "router" \in Locks /\ UNCHANGED routes
      \/ ChainEnds(p, call[p], "failed", n) /\ UNCHANGED routes
      \/ ChainEnds(p, call[p], "failed", n) /\ Decided(p) /\ routes[a] < MaxLinks
  BY DEF RouteEnds
<1> HIDE DEF n
<1>8. CASE ChainRaises(p, call[p], n) /\ "router" \in Locks /\ UNCHANGED routes
  BY <1>1, <1>3, <1>4, <1>5, <1>8, ChainRaisesInv DEF wire
<1>9. CASE ChainEnds(p, call[p], "failed", n) /\ UNCHANGED routes
  BY <1>1, <1>3, <1>4, <1>5, <1>6, <1>9, ChainEndsInv DEF wire
<1>10. CASE ChainEnds(p, call[p], "failed", n) /\ Decided(p) /\ routes[a] < MaxLinks
  <2> DEFINE pc == IF a \in admitted THEN "settle" ELSE "finish"
             c == [call[p] EXCEPT !.result = "failed", !.amount = n, !.heard = "free",
                                  !.cost = 0, !.doubt = FALSE, !.pc = pc]
  <2>1. call' = [call EXCEPT ![p] = c]
    BY <1>10 DEF ChainEnds
  <2>2. pc \in {"settle", "finish"} /\ (pc = "settle" <=> a \in admitted)
    OBVIOUS
  <2>3. /\ c \in CallRecord /\ c.pc = pc /\ c.attempt = a /\ c.amount = n
        /\ c.cost = 0 /\ c.doubt = FALSE
    <3> HIDE DEF pc
    <3> QED BY <1>2, <1>3, <1>6, <2>2 DEF CallRecord, PCs, Steps, Heard, Endings
  <2> HIDE DEF c, pc
  <2>4. routes[a] \in 0 .. MaxLinks /\ MaxLinks \in Nat /\ Most \in Nat /\ owed[a] \in Nat
    BY <1>2, WireFacts
  <2>5. /\ routes' \in [Attempts -> 0 .. MaxLinks] /\ routes'[a] = routes[a] + 1
        /\ \A b \in Attempts \ {a} : routes'[b] = routes[b]
    BY <1>2, <1>10, <2>4, WireFacts DEF Decided
  <2>6. owed[a] <= routes'[a] * Most
    <3> HIDE DEF a
    <3>1. owed[a] <= routes[a] * Most
      BY <1>2, WireFacts
    <3>2. \A k, u \in Nat : (k + 1) * u = k * u + u /\ k * u \in Nat
      OBVIOUS
    <3>3. (routes[a] + 1) * Most = routes[a] * Most + Most /\ routes[a] * Most \in Nat
      BY <2>4, <3>2
    <3>4. routes'[a] * Most = routes[a] * Most + Most
      BY <2>5, <3>3
    <3> QED BY <2>4, <3>1, <3>3, <3>4
  <2>7. \A d : d = c => Walks(d)' /\ Heeds(d)' /\ (Truthful => Reckons(d)')
    <3> SUFFICES ASSUME NEW d, d = c PROVE Walks(d)' /\ Heeds(d)' /\ (Truthful => Reckons(d)')
      OBVIOUS
    <3>1. /\ d.pc \in {"settle", "finish"} /\ d.attempt = call[p].attempt /\ d.doubt = FALSE
          /\ d.pc = "settle" => call[p].attempt \in admitted
          /\ d.pc = "settle" /\ Truthful => Final(d.attempt, d.amount)
      BY <1>4, <2>2, <2>3
    <3>2. Untold(d.attempt)' \/ (Operator /\ Unrecorded(d.attempt))'
      BY <1>2, <1>5, <3>1, WalkerKept DEF ledger, scheduler
    <3>3. UNCHANGED <<admitted, broker, owed, unclear, dropped>>
      BY <1>5 DEF ledger, truth
    <3>4. Walks(d)'
      BY <3>1, <3>2, <3>3 DEF Walks, NotAdmitted, IsAdmitted, Walk
    <3>6. Final(d.attempt, d.amount) => Final(d.attempt, d.amount)'
      BY <1>5, <2>4, <2>5, <3>1, <3>3 DEF Final, Loose, Operator, scheduler
    <3>5. Heeds(d)' /\ (Truthful => Reckons(d)')
      BY <3>1, <3>3, <3>6 DEF Heeds, Reckons, NotAdmitted
    <3> QED BY <3>4, <3>5
  <2>8. \A d : d = c =>
          /\ d \in CallRecord /\ d.attempt = call[p].attempt /\ d.pc \in Steps \ {"claimed"}
          /\ d.cost <= Most
          /\ d.amount <= 2 * Most /\ call' = [call EXCEPT ![p] = d]
    BY <1>3, <2>1, <2>2, <2>3, <2>4 DEF Steps
  <2>9. /\ broker[a].cost <= Most /\ broker' = broker /\ broker \in [Attempts -> JournalRecord]
        /\ UNCHANGED <<scheduler, holder, ledger, pending, replay, op, owed>>
        /\ unclear' = unclear /\ dropped' = dropped /\ call[p].pc # "claimed"
        /\ broker[a].state # "running"
    <3>1. broker[a].state # "running"
      BY <1>1, <1>2 DEF Own, Walks
    <3> QED BY <1>1, <1>2, <1>5, <3>1, WireFacts DEF truth
  <2> QED BY <1>1, <1>2, <2>5, <2>6, <2>7, <2>8, <2>9, Carried
<1> QED BY <1>7, <1>8, <1>9, <1>10

(* The request is handed to the broker, or provably was not.                 *)
LEMMA SendInv ==
    ASSUME CallInv, NEW p \in Callers, Send(p), setting' = setting PROVE CallInv'
<1> DEFINE a == call[p].attempt
<1>1. call[p].pc = "send" /\ call[p].pc \in Walk
  BY DEF Send, Walk
<1>2. /\ call[p] \in CallRecord /\ Own(p, call[p]) /\ a \in Attempts
      /\ Untold(a) \/ (Operator /\ Unrecorded(a))
  BY <1>1, WorkerFacts, WalkerFacts
<1>3. UNCHANGED <<scheduler, holder, ledger, pending, routes, truth, replay, op>>
  BY DEF Send
<1>4. CASE /\ broker' = [broker EXCEPT ![a].state = "running"]
           /\ Goto(p, "wait")
  <2> DEFINE c == [call[p] EXCEPT !.pc = "wait"]
  <2>1. call' = [call EXCEPT ![p] = c]
    BY <1>4 DEF CallInv, Goto
  <2>2. /\ c \in CallRecord /\ c.pc = "wait" /\ c.attempt = a
        /\ c.cost = call[p].cost /\ c.amount = call[p].amount /\ c.doubt = call[p].doubt
    BY <1>2 DEF CallRecord, PCs, Steps
  <2> HIDE DEF c
  <2>3. broker[a] \in JournalRecord /\ broker[a].cost <= Most
    BY <1>2, WireFacts
  <2>4. /\ broker' \in [Attempts -> JournalRecord] /\ broker'[a].state = "running"
        /\ broker'[a].cost = broker[a].cost
        /\ \A b \in Attempts \ {a} : broker'[b] = broker[b]
    BY <1>2, <1>4, <2>3, WireFacts DEF JournalRecord
  <2>5. owed[a] + Most <= routes[a] * Most /\ owed[a] <= routes[a] * Most
    BY <1>1, <1>2, WireFacts DEF Own, Walks
  <2>6. \A d : d = c => Walks(d)' /\ Heeds(d)' /\ (Truthful => Reckons(d)')
    <3> SUFFICES ASSUME NEW d, d = c PROVE Walks(d)' /\ Heeds(d)' /\ (Truthful => Reckons(d)')
      OBVIOUS
    <3>1. /\ d \in CallRecord /\ d.pc = "wait" /\ d.attempt = call[p].attempt
          /\ d.doubt = call[p].doubt /\ broker'[d.attempt].state = "running"
          /\ UNCHANGED <<admitted, routes, owed, unclear>>
      BY <1>3, <2>2, <2>4 DEF ledger, truth
    <3>2. Untold(d.attempt)' \/ (Operator /\ Unrecorded(d.attempt))'
      BY <1>2, <1>3, <3>1, WalkerKept DEF ledger, scheduler
    <3>3. Walks(d)'
      BY <1>1, <1>2, <3>1, <3>2 DEF Own, Walks, NotAdmitted, IsAdmitted, Walk
    <3>4. Heeds(d)' /\ (Truthful => Reckons(d)')
      BY <1>1, <1>2, <3>1 DEF Own, Heeds, Reckons, NotAdmitted
    <3> QED BY <3>3, <3>4
  <2>7. \A d : d = c =>
          /\ d \in CallRecord /\ d.attempt = call[p].attempt /\ d.pc \in Steps \ {"claimed"}
          /\ d.cost <= Most
          /\ d.amount <= 2 * Most /\ call' = [call EXCEPT ![p] = d]
    BY <1>2, <2>1, <2>2 DEF Own, Holds, Steps
  <2>8. /\ routes' = routes /\ routes \in [Attempts -> 0 .. MaxLinks]
        /\ unclear' = unclear /\ dropped' = dropped /\ call[p].pc # "claimed"
        /\ UNCHANGED <<scheduler, holder, ledger, pending, replay, op, owed>>
    BY <1>1, <1>3, WireFacts DEF truth
  <2> QED BY <1>1, <1>2, <2>3, <2>4, <2>5, <2>6, <2>7, <2>8, Carried
<1>5. CASE /\ call' = [call EXCEPT ![p].pc = "link", ![p].heard = "free"]
           /\ UNCHANGED broker
  <2> DEFINE c == [call[p] EXCEPT !.pc = "link", !.heard = "free"]
  <2>1. call' = [call EXCEPT ![p] = c]
    BY <1>5 DEF CallInv
  <2>2. /\ c \in CallRecord /\ c.pc = "link" /\ c.attempt = a /\ c.heard = "free"
        /\ c.cost = call[p].cost /\ c.amount = call[p].amount /\ c.doubt = call[p].doubt
    BY <1>2 DEF CallRecord, PCs, Steps, Heard, Endings
  <2> HIDE DEF c
  <2>3. Holds(p, c)
    BY <1>1, <1>2, <2>2 DEF Own, Holds, Steps
  <2>4. Walks(c)
    BY <1>1, <1>2, <2>2 DEF Own, Walks, NotAdmitted, IsAdmitted, Walk
  <2>5. Heeds(c) /\ (Truthful => Reckons(c))
    BY <1>1, <1>2, <2>2 DEF Own, Walks, Heeds, Reckons, NotAdmitted
  <2>6. Own(p, c) /\ Working(p) /\ c.pc \notin {"free", "unlink"}
    BY <1>1, <2>2, <2>3, <2>4, <2>5 DEF Own, Working, Steps
  <2>7. UNCHANGED <<scheduler, holder, ledger, pending, wire, truth, replay, op>>
    BY <1>3, <1>5 DEF wire
  <2> QED BY <2>1, <2>2, <2>6, <2>7, Moves
<1> QED BY <1>4, <1>5 DEF Send

(* A worker hears how its call ended, or that nobody can tell it.            *)
LEMMA HeardInv ==
    ASSUME CallInv, NEW p \in Callers, call[p].pc = "wait", setting' = setting,
           UNCHANGED <<scheduler, holder, ledger, pending, wire, owed, dropped, replay, op>>,
           NEW a, a = call[p].attempt, unclear' \in {unclear, unclear \cup {a}},
           NEW c, c \in CallRecord, c.pc = "link", c.attempt = a, c.cost <= Most,
           c.amount = call[p].amount, call' = [call EXCEPT ![p] = c],
           c.doubt => a \in unclear' \/ call[p].doubt,
           \/ c.doubt
           \/ /\ call[p].doubt = FALSE /\ broker[a].state \in {"free", "served", "over"}
              /\ c.heard = broker[a].state /\ c.cost = broker[a].cost,
           c.heard # "lost" => broker[a].state # "running"
    PROVE  CallInv'
<1>1. call[p].pc \in Walk
  BY DEF Walk
<1>2. /\ call[p] \in CallRecord /\ Own(p, call[p]) /\ a \in Attempts
      /\ Untold(a) \/ (Operator /\ Unrecorded(a))
  BY <1>1, WorkerFacts, WalkerFacts
<1>3. Untold(c.attempt)' \/ (Operator /\ Unrecorded(c.attempt))'
  BY <1>2, WalkerKept DEF ledger, scheduler
<1>4. UNCHANGED <<admitted, routes, broker, owed>>
  BY DEF ledger, wire
<1>5. Walks(c)'
  BY <1>2, <1>3, <1>4 DEF Own, Walks, NotAdmitted, IsAdmitted, Walk
<1>6. Heeds(c)'
  BY <1>4 DEF Heeds
<1>7. Truthful => Reckons(c)'
  BY <1>2, <1>4 DEF Own, Reckons, NotAdmitted
<1>8. c.pc \in Steps /\ c.amount <= 2 * Most
  BY <1>2 DEF Own, Holds, Steps
<1>9. /\ routes' \in [Attempts -> 0 .. MaxLinks] /\ broker' \in [Attempts -> JournalRecord]
      /\ \A b \in Attempts \ {a} : routes'[b] = routes[b] /\ broker'[b] = broker[b]
      /\ broker'[a].cost <= Most /\ owed[a] <= routes'[a] * Most
      /\ broker'[a].state = "running" => owed[a] + Most <= routes'[a] * Most
  BY <1>2, <1>4, WireFacts
<1>10. UNCHANGED <<scheduler, holder, ledger, pending, replay, op, owed>>
       /\ dropped' = dropped /\ c.pc # "claimed" /\ call[p].pc # "claimed"
  OBVIOUS
<1> QED BY <1>1, <1>5, <1>6, <1>7, <1>8, <1>9, <1>10, Carried

(* The broker's record is read.                                              *)
LEMMA ReceiveInv ==
    ASSUME CallInv, NEW p \in Callers, Receive(p), setting' = setting PROVE CallInv'
<1> DEFINE a == call[p].attempt
           doubt == call[p].doubt \/ broker[a].state = "unclear"
           c == [call[p] EXCEPT !.pc = "link", !.heard = broker[a].state,
                                !.cost = broker[a].cost, !.doubt = doubt]
<1>1. call[p].pc = "wait" /\ call[p].pc \in Walk /\ broker[a].state \in Endings
  BY DEF Receive, Walk
<1>2. call[p] \in CallRecord /\ a \in Attempts
  BY <1>1, WorkerFacts, WalkerFacts
<1>3. broker[a] \in JournalRecord /\ broker[a].cost <= Most
  BY <1>2, WireFacts
<1>4. doubt \in BOOLEAN /\ broker[a].state \in Heard /\ broker[a].cost \in Nat
  BY <1>1, <1>2, <1>3 DEF CallRecord, Heard, JournalRecord
<1>5. call' = [call EXCEPT ![p] = c]
  BY DEF CallInv, Receive
<1>6. doubt <=> call[p].doubt \/ broker[a].state = "unclear"
  OBVIOUS
<1>7. /\ c \in CallRecord /\ c.pc = "link" /\ c.attempt = a /\ c.heard = broker[a].state
      /\ c.cost = broker[a].cost /\ c.amount = call[p].amount /\ c.doubt = doubt
  <2> HIDE DEF doubt
  <2> QED BY <1>2, <1>4 DEF CallRecord, PCs, Steps
<1> HIDE DEF c, doubt
<1>8. /\ UNCHANGED <<scheduler, holder, ledger, pending, wire, owed, dropped, replay, op>>
      /\ unclear' \in {unclear, unclear \cup {a}}
      /\ broker[a].state = "unclear" => a \in unclear'
  BY DEF Receive
<1>9. c.doubt => a \in unclear' \/ call[p].doubt
  BY <1>6, <1>7, <1>8
<1>10. \/ c.doubt
       \/ /\ call[p].doubt = FALSE /\ broker[a].state \in {"free", "served", "over"}
          /\ c.heard = broker[a].state /\ c.cost = broker[a].cost
  BY <1>1, <1>2, <1>6, <1>7 DEF Endings, CallRecord
<1>11. c.cost <= Most /\ broker[a].state # "running"
  BY <1>1, <1>3, <1>7 DEF Endings
<1> QED BY <1>1, <1>5, <1>7, <1>8, <1>9, <1>10, <1>11, HeardInv

(* The answer is lost.                                                       *)
LEMMA AnswerLostInv ==
    ASSUME CallInv, NEW p \in Callers, AnswerLost(p), setting' = setting PROVE CallInv'
<1> DEFINE a == call[p].attempt
           c == [call[p] EXCEPT !.pc = "link", !.heard = "lost", !.doubt = TRUE]
<1>1. call[p].pc = "wait"
  BY DEF AnswerLost
<1>2. call[p] \in CallRecord /\ call[p].cost <= Most
  BY DEF CallInv, Own, Holds
<1>3. call' = [call EXCEPT ![p] = c]
  BY DEF CallInv, AnswerLost
<1>4. /\ c \in CallRecord /\ c.pc = "link" /\ c.attempt = a /\ c.heard = "lost"
      /\ c.cost = call[p].cost /\ c.amount = call[p].amount /\ c.doubt = TRUE
  BY <1>2 DEF CallRecord, PCs, Steps, Heard
<1> HIDE DEF c
<1>5. /\ UNCHANGED <<scheduler, holder, ledger, pending, wire, owed, dropped, replay, op>>
      /\ unclear' = unclear \cup {a}
  BY DEF AnswerLost
<1> QED BY <1>1, <1>2, <1>3, <1>4, <1>5, HeardInv

(* An exception leaves the walk with an answer, or with none to come.        *)
LEMMA DropsInv ==
    ASSUME CallInv, NEW p \in Callers, call[p].pc \in {"send", "wait", "link"},
           setting' = setting,
           UNCHANGED <<scheduler, holder, ledger, pending, wire, owed, replay, op>>,
           NEW a, a = call[p].attempt, unclear' \in {unclear, unclear \cup {a}},
           dropped' \in {dropped, dropped \cup {a}},
           NEW n \in Nat, n <= 2 * Most, ChainRaises(p, call[p], n),
           Truthful => Final(a, n)'
    PROVE  CallInv'
<1> DEFINE c == [call[p] EXCEPT !.raising = TRUE, !.amount = n, !.heard = "free", !.cost = 0,
                                !.doubt = FALSE, !.pc = "settle"]
<1>1. call[p].pc \in Walk
  BY DEF Walk
<1>2. /\ call[p] \in CallRecord /\ Own(p, call[p]) /\ a \in Attempts
      /\ Untold(a) \/ (Operator /\ Unrecorded(a))
  BY <1>1, WorkerFacts, WalkerFacts
<1>3. a \in admitted
  BY <1>2 DEF Own, Walks, IsAdmitted
<1>4. call' = [call EXCEPT ![p] = c]
  BY <1>3 DEF ChainRaises
<1>5. /\ c \in CallRecord /\ c.pc = "settle" /\ c.attempt = a /\ c.amount = n
      /\ c.cost = 0 /\ c.doubt = FALSE
  BY <1>2 DEF CallRecord, PCs, Steps, Heard, Endings
<1> HIDE DEF c
<1>7. UNCHANGED <<admitted, routes, broker, owed>>
  BY DEF ledger, wire
<1>8. \A d : d = c => Walks(d)' /\ Heeds(d)' /\ (Truthful => Reckons(d)')
  <2> SUFFICES ASSUME NEW d, d = c PROVE Walks(d)' /\ Heeds(d)' /\ (Truthful => Reckons(d)')
    OBVIOUS
  <2>1. d.pc = "settle" /\ d.attempt = a /\ d.amount = n /\ d.doubt = FALSE
    BY <1>5
  <2>2. Untold(d.attempt)' \/ (Operator /\ Unrecorded(d.attempt))'
    BY <1>2, <2>1, WalkerKept DEF ledger, scheduler
  <2>3. Walks(d)'
    BY <1>3, <1>7, <2>1, <2>2 DEF Walks, NotAdmitted, IsAdmitted
  <2>4. Heeds(d)' /\ (Truthful => Reckons(d)')
    BY <2>1 DEF Heeds, Reckons, NotAdmitted
  <2> QED BY <2>3, <2>4
<1>10. /\ routes' \in [Attempts -> 0 .. MaxLinks] /\ broker' \in [Attempts -> JournalRecord]
       /\ \A b \in Attempts \ {a} : routes'[b] = routes[b] /\ broker'[b] = broker[b]
       /\ broker'[a].cost <= Most /\ owed[a] <= routes'[a] * Most
       /\ broker'[a].state = "running" => owed[a] + Most <= routes'[a] * Most
       /\ Most \in Nat
  BY <1>2, <1>7, WireFacts
<1>11. \A d : d = c =>
          /\ d \in CallRecord /\ d.attempt = a /\ d.pc \in Steps \ {"claimed"} /\ d.cost <= Most
          /\ d.amount <= 2 * Most /\ call' = [call EXCEPT ![p] = d]
  BY <1>4, <1>5, <1>10 DEF Steps
<1>12. call[p].pc # "claimed"
  OBVIOUS
<1> QED BY <1>1, <1>8, <1>10, <1>11, <1>12, Carried

(* The router stays locked after an answer.                                  *)
LEMMA RecordLinkLockedInv ==
    ASSUME CallInv, NEW p \in Callers, RecordLinkLocked(p), setting' = setting PROVE CallInv'
<1> DEFINE n == IF call[p].doubt /\ call[p].heard # "over" THEN Reserve ELSE 0
           a == call[p].attempt
<1>1. n \in Nat /\ n <= 2 * Most
  BY ChainAmounts
<1>2. /\ ChainRaises(p, call[p], n) /\ call[p].pc = "link" /\ dropped' = dropped \cup {a}
      /\ UNCHANGED <<scheduler, holder, ledger, pending, wire, owed, unclear, replay, op>>
  BY DEF RecordLinkLocked
<1>3. \A b, m : b = a /\ m = n => Final(b, m)'
  BY <1>2 DEF Final
<1> HIDE DEF n
<1>4. \A m : m = n => m \in Nat /\ m <= 2 * Most /\ ChainRaises(p, call[p], m)
  BY <1>1, <1>2
<1>5. dropped' \in {dropped, dropped \cup {a}} /\ unclear' \in {unclear, unclear \cup {a}}
  BY <1>2
<1> QED BY <1>2, <1>3, <1>4, <1>5, DropsInv

(* The capacity's database fails around the exchange.                        *)
LEMMA CapacityRaisesInv ==
    ASSUME CallInv, NEW p \in Callers, CapacityRaises(p), setting' = setting PROVE CallInv'
<1> DEFINE n == IF call[p].doubt THEN Reserve ELSE 0
           a == call[p].attempt
<1>1. n \in Nat /\ n <= 2 * Most
  BY ChainAmounts
<1>2. /\ ChainRaises(p, call[p], n) /\ call[p].pc \in {"send", "wait"}
      /\ call[p].pc = "wait" => a \in dropped'
      /\ unclear' \in {unclear, unclear \cup {a}} /\ dropped' \in {dropped, dropped \cup {a}}
      /\ UNCHANGED <<scheduler, holder, ledger, pending, wire, owed, replay, op>>
  BY DEF CapacityRaises
<1>3. \A b, m : b = a /\ m = n => (Truthful => Final(b, m)')
  <2> SUFFICES ASSUME NEW b, b = a, NEW m, m = n, Truthful PROVE Final(b, m)'
    OBVIOUS
  <2>1. CASE call[p].pc = "wait"
    BY <1>2, <2>1 DEF Final
  <2>2. CASE call[p].pc = "send"
    <3>1. /\ Own(p, call[p]) /\ Reserve \in Nat /\ UNCHANGED <<broker, owed>>
      BY <1>2, ChainAmounts DEF wire
    <3>2. broker[b].state # "running"
      BY <2>2, <3>1 DEF Own, Walks
    <3>3. \/ call[p].doubt /\ b \in unclear
          \/ ~call[p].doubt /\ owed[b] = 0
      BY <2>2, <3>1 DEF Own, Reckons
    <3> QED BY <1>2, <3>1, <3>2, <3>3 DEF Final
  <2> QED BY <1>2, <2>1, <2>2
<1> HIDE DEF n
<1>4. \A m : m = n => m \in Nat /\ m <= 2 * Most /\ ChainRaises(p, call[p], m)
  BY <1>1, <1>2
<1> QED BY <1>2, <1>3, <1>4, DropsInv

(* The provider's run ends and its charge is added.                          *)
LEMMA BrokerEndsInv ==
    ASSUME CallInv, NEW a \in Attempts, BrokerEnds(a), setting' = setting PROVE CallInv'
<1>1. PICK how \in Endings, m \in Costs \cup {0} :
         /\ how = "free" => m = 0
         /\ how \in {"served", "over"} => m \in Costs
         /\ broker' = [broker EXCEPT ![a] =
                [state |-> how, cost |-> IF how = "unclear" THEN 0 ELSE m,
                 dirty |-> @.dirty \/ how \in {"free", "unclear"}]]
         /\ owed' = [owed EXCEPT ![a] = @ + m]
  BY DEF BrokerEnds
<1> DEFINE m0 == IF how = "unclear" THEN 0 ELSE m
           dirty == broker[a].dirty \/ how \in {"free", "unclear"}
           j == [state |-> how, cost |-> m0, dirty |-> dirty]
<1>2. /\ broker[a].state = "running" /\ call' = call
      /\ UNCHANGED <<scheduler, holder, ledger, pending, routes, unclear, dropped, replay, op>>
  BY DEF BrokerEnds
<1>3. setting \in Settings /\ Most \in Nat /\ m \in Nat /\ m <= Most /\ MaxLinks \in Nat
  BY WireFacts, SettingsFacts
<1>4. m0 \in Nat /\ m0 <= Most /\ dirty \in BOOLEAN /\ (how # "unclear" => m0 = m)
  BY <1>3
<1>5. /\ j.state = how /\ j.cost = m0 /\ j \in JournalRecord /\ how # "running" /\ how # "none"
      /\ broker[a].dirty => j.dirty
  <2>1. broker[a].dirty => dirty
    OBVIOUS
  <2> HIDE DEF m0, dirty
  <2> QED BY <1>4, <2>1 DEF JournalRecord, Endings
<1>6. broker' = [broker EXCEPT ![a] = j]
  BY <1>1
<1> HIDE DEF j, m0, dirty
<1>7. /\ broker' \in [Attempts -> JournalRecord] /\ broker'[a].state = how
      /\ broker'[a].cost = m0 /\ (broker[a].dirty => broker'[a].dirty)
      /\ \A b \in Attempts \ {a} : broker'[b] = broker[b]
  BY <1>5, <1>6, WireFacts
<1>8. /\ owed[a] \in Nat /\ routes[a] \in 0 .. MaxLinks
      /\ owed[a] + Most <= routes[a] * Most
  BY <1>2, WireFacts
<1>9. routes[a] * Most \in Nat
  <2>1. \A k, u \in Nat : k * u \in Nat
    OBVIOUS
  <2>2. routes[a] \in Nat
    BY <1>3, <1>8
  <2> QED BY <1>3, <2>1, <2>2
<1>10. owed[a] + m \in Nat /\ owed[a] + m <= routes[a] * Most
  BY <1>3, <1>8, <1>9
<1>11. owed[a] + m \in Amounts
  BY <1>3, <1>8, <1>10, AmountBounds
<1>12. /\ owed' \in [Attempts -> Amounts] /\ owed'[a] = owed[a] + m
       /\ \A b \in Attempts \ {a} : owed'[b] = owed[b]
  BY <1>1, <1>11, WireFacts
<1>13. Known(a)
  BY <1>2, WireFacts
<1>14. Stores'
  <2>1. \A b \in Attempts :
           /\ broker'[b].cost <= Most
           /\ ~Known(b) => routes'[b] = 0 /\ broker'[b].state = "none" /\ owed'[b] = 0
           /\ owed'[b] <= routes'[b] * Most
           /\ broker'[b].state = "running" => owed'[b] + Most <= routes'[b] * Most
    <3> SUFFICES ASSUME NEW b \in Attempts
                 PROVE  /\ broker'[b].cost <= Most
                        /\ ~Known(b) => /\ routes'[b] = 0 /\ broker'[b].state = "none"
                                        /\ owed'[b] = 0
                        /\ owed'[b] <= routes'[b] * Most
                        /\ broker'[b].state = "running" => owed'[b] + Most <= routes'[b] * Most
      OBVIOUS
    <3>1. CASE b = a
      BY <1>2, <1>4, <1>5, <1>7, <1>10, <1>12, <1>13, <3>1
    <3>2. CASE b # a
      BY <1>2, <1>7, <1>12, <3>2, WireFacts
    <3> QED BY <3>1, <3>2
  <2>2. \A b \in Attempts : \A n \in Nat : Final(b, n) => Final(b, n)'
    BY <1>2, <1>7, <1>12 DEF Final, Loose, Operator, scheduler
  <2>3. /\ routes' \in [Attempts -> 0 .. MaxLinks] /\ unclear' = unclear
        /\ unclear \subseteq Attempts /\ dropped' = dropped /\ dropped \subseteq Attempts
        /\ replay' = replay
        /\ replay' \in [Callers \cup Others -> ReplayRecord]
        /\ UNCHANGED <<scheduler, holder, ledger, pending, op>>
    BY <1>2, WireFacts
  <2> QED BY <1>7, <1>12, <2>1, <2>2, <2>3, StoresGrow
<1>16. Truthful' => Truthful
  BY <1>2, TruthKept DEF scheduler
<1>15. ASSUME NEW q \in Callers, NEW d, d = call[q] PROVE Own(q, d)'
  <2>1. Own(q, d) /\ d \in CallRecord
    BY <1>15 DEF CallInv
  <2>2. Holds(q, d)'
    BY <1>2, <2>1, HoldsKept DEF Own, scheduler
  <2>3. CASE d.pc \notin Walk
    <3>1. Walks(d)' /\ Heeds(d)'
      BY <2>3 DEF Walks, Heeds, NotAdmitted, IsAdmitted, Walk
    <3>2. Truthful' => Reckons(d)'
      BY <1>2, <1>16, <2>1, <2>3 DEF Own, Reckons, NotAdmitted, Walk
    <3> QED BY <2>2, <3>1, <3>2 DEF Own
  <2>4. CASE d.pc \in Walk
    <3>1. /\ d.attempt \in Attempts
          /\ Untold(d.attempt)' \/ (Operator /\ Unrecorded(d.attempt))'
      <4>1. d.attempt \in Attempts /\ (Untold(d.attempt) \/ (Operator /\ Unrecorded(d.attempt)))
        BY <1>15, <2>4, WorkerFacts, WalkerFacts
      <4> QED BY <1>2, <4>1, WalkerKept DEF ledger, scheduler
    <3>2. CASE d.attempt # a
      <4>1. /\ broker'[d.attempt] = broker[d.attempt] /\ owed'[d.attempt] = owed[d.attempt]
            /\ routes' = routes /\ admitted' = admitted /\ unclear' = unclear
            /\ dropped' = dropped /\ outcome' = outcome
        BY <1>2, <1>7, <1>12, <3>1, <3>2 DEF ledger, scheduler
      <4>2. Untold(d.attempt) => Untold(d.attempt)'
        BY <1>2, UntoldKept DEF ledger
      <4> QED BY <1>16, <2>1, <2>2, <4>1, <4>2, BooksKept DEF Own
    <3>3. CASE d.attempt = a
      <4>1. UNCHANGED <<routes, admitted, unclear, dropped>>
        BY <1>2 DEF ledger
      <4>2. d.pc \in {"wait", "link", "settle", "keep"}
        BY <1>2, <2>1, <2>4, <3>3 DEF Own, Walks, NotAdmitted, Walk
      <4>3. Walks(d)'
        BY <1>5, <1>7, <2>1, <3>1, <3>3, <4>1, <4>2 DEF Own, Walks, NotAdmitted, IsAdmitted, Walk
      <4>4. Heeds(d)'
        BY <1>5, <1>7, <3>3 DEF Heeds
      <4>7. \A n : Final(a, n) => Final(a, n)'
        BY <1>2, <1>7 DEF Final, Loose, Operator, scheduler
      <4>5. ASSUME Truthful PROVE Reckons(d)'
        <5>1. Reckons(d)
          BY <2>1, <4>5 DEF Own
        <5>2. CASE d.doubt
          BY <4>1, <4>2, <4>7, <5>1, <5>2, <1>2, <3>3 DEF Reckons, NotAdmitted
        <5>3. CASE ~d.doubt /\ d.pc = "wait"
          <6>1. owed[a] = 0
            BY <1>2, <3>3, <5>1, <5>3 DEF Reckons
          <6>2. owed'[a] = m
            BY <1>3, <1>12, <6>1
          <6>3. \/ broker'[a].state = "free" /\ owed'[a] = 0
                \/ broker'[a].state \in {"served", "over"} /\ owed'[a] = broker'[a].cost
                \/ broker'[a].state = "unclear"
            BY <1>1, <1>4, <1>7, <6>2 DEF Endings
          <6> QED BY <3>3, <5>3, <6>3 DEF Reckons, NotAdmitted
        <5>4. CASE ~d.doubt /\ d.pc # "wait"
          BY <1>2, <3>3, <4>1, <4>2, <4>7, <5>1, <5>4 DEF Reckons, NotAdmitted
        <5> QED BY <5>2, <5>3, <5>4
      <4> QED BY <1>16, <2>2, <4>3, <4>4, <4>5 DEF Own
    <3> QED BY <3>2, <3>3
  <2> QED BY <2>3, <2>4
<1> QED BY <1>2, <1>14, <1>15, Stays

(* A process dies; what it was about to tell stays untold.                   *)
LEMMA DieInv ==
    ASSUME CallInv, NEW p \in Callers, Die(p), setting' = setting PROVE CallInv'
<1> DEFINE c == [NewCall EXCEPT !.pc = "dead", !.attempt = call[p].attempt, !.old = call[p].old]
<1>1. /\ replay' = [replay EXCEPT ![p] = NoReplay]
      /\ UNCHANGED <<scheduler, holder, ledger, pending, wire, owed, dropped, op>>
      /\ call' = [call EXCEPT ![p] = c]
  BY DEF Die, Leave
<1>2. Own(p, c) /\ c.attempt = call[p].attempt /\ c.pc = "dead"
  BY LeftOwn
<1> HIDE DEF c
<1>3. c \in CallRecord /\ c.pc \notin Steps /\ c.pc \notin {"free", "unlink"}
  BY <1>2 DEF Own, Holds, Steps
<1>4. unclear \subseteq unclear' /\ unclear' \subseteq Attempts
  <2>1. call[p].pc \in {"wait", "link", "settle", "keep"} => call[p].attempt \in Attempts
    BY WorkerFacts DEF Working, Steps
  <2> QED BY <2>1, WireFacts DEF Die
<1>5. /\ \A x \in Callers \cup Others : replay'[x] \in {replay[x], NoReplay}
      /\ replay' \in [Callers \cup Others -> ReplayRecord]
  BY <1>1, NoReplayType, WireFacts
<1>6. Stores'
  <2>1. UNCHANGED <<routes, broker, owed, dropped>> /\ dropped' \subseteq Attempts
    BY <1>1, WireFacts DEF wire
  <2>2. \A b \in Attempts : \A n \in Nat : Final(b, n) => Final(b, n)'
    BY <1>1, <1>4, <2>1, FinalKept DEF scheduler
  <2> QED BY <1>1, <1>4, <1>5, <2>1, <2>2, WireFacts, StoresGrow
<1>7. ASSUME NEW q, NEW d, Own(q, d) PROVE Own(q, d)'
  <2>1. Holds(q, d)'
    BY <1>1, <1>7, HoldsKept DEF Own, scheduler
  <2>2. Untold(d.attempt) => Untold(d.attempt)'
    BY <1>1, <1>5 DEF Untold, ledger
  <2>3. /\ UNCHANGED <<admitted, routes, broker, owed, dropped, outcome>>
        /\ d.attempt \in unclear => d.attempt \in unclear'
    BY <1>1, <1>4 DEF ledger, wire, scheduler
  <2>4. Truthful' => Truthful
    BY <1>1, TruthKept DEF scheduler
  <2> QED BY <1>7, <2>1, <2>2, <2>3, <2>4, BooksKept DEF Own
<1>8. \A d : d = c =>
         /\ Own(p, d)' /\ d \in CallRecord /\ d.pc \notin Steps /\ d.attempt = call[p].attempt
         /\ d.pc \notin {"free", "unlink"} /\ call' = [call EXCEPT ![p] = d]
  BY <1>1, <1>2, <1>3, <1>7
<1>9. \A q \in Callers \ {p} : \A d : d = call[q] => Own(q, d)'
  BY <1>7 DEF CallInv
<1> QED BY <1>6, <1>8, <1>9, Works

-----------------------------------------------------------------------------
(* What the journal says of a single call *)

(* A walk that ends keeps its attempt, and has it to settle when admitted.   *)
LEMMA ChainKeeps ==
    ASSUME CallInv, NEW p \in Callers, NEW r, NEW n,
           ChainEnds(p, call[p], r, n) \/ ChainRaises(p, call[p], n)
    PROVE  /\ call'[p].attempt = call[p].attempt
           /\ call[p].attempt \in admitted => call'[p].pc = "settle"
           /\ call'[p].pc \in {"settle", "finish", "exit"}
           /\ \A q \in Callers \ {p} : call'[q] = call[q]
<1>1. call \in [Callers -> CallRecord]
  BY DEF CallInv
<1>2. call[p] \in CallRecord
  BY <1>1
<1>3. CASE ChainEnds(p, call[p], r, n)
  <2> DEFINE c == [call[p] EXCEPT !.result = r, !.amount = n, !.heard = "free", !.cost = 0,
                      !.doubt = FALSE,
                      !.pc = IF call[p].attempt \in admitted THEN "settle" ELSE "finish"]
  <2>1. call' = [call EXCEPT ![p] = c]
    BY <1>3 DEF ChainEnds
  <2>2. c.attempt = call[p].attempt /\ (call[p].attempt \in admitted => c.pc = "settle")
      /\ c.pc \in {"settle", "finish", "exit"}
    BY <1>2 DEF CallRecord
  <2> HIDE DEF c
  <2> QED BY <1>1, <2>1, <2>2
<1>4. CASE ChainRaises(p, call[p], n)
  <2> DEFINE c == [call[p] EXCEPT !.raising = TRUE, !.amount = n, !.heard = "free", !.cost = 0,
                      !.doubt = FALSE,
                      !.pc = IF call[p].attempt \in admitted THEN "settle" ELSE "exit"]
  <2>1. call' = [call EXCEPT ![p] = c]
    BY <1>4 DEF ChainRaises
  <2>2. c.attempt = call[p].attempt /\ (call[p].attempt \in admitted => c.pc = "settle")
      /\ c.pc \in {"settle", "finish", "exit"}
    BY <1>2 DEF CallRecord
  <2> HIDE DEF c
  <2> QED BY <1>1, <2>1, <2>2
<1> QED BY <1>3, <1>4

(* The books of the wire are as they were, and nobody starts to send.        *)
LEMMA MeteredStays ==
    ASSUME Metered, UNCHANGED <<routes, broker, owed>>, unclear \subseteq unclear',
           \A q \in Callers : call[q].pc = "wait" =>
              \/ call'[q].pc = "wait" /\ call'[q].attempt = call[q].attempt
              \/ broker[call[q].attempt].state # "running"
              \/ call[q].attempt \in unclear',
           \A q \in Callers : call'[q].pc \in {"admit", "send"} =>
              call[q].pc \in {"admit", "send"} /\ call'[q].attempt = call[q].attempt
    PROVE  Metered'
<1>1. ASSUME NEW a \in Attempts, broker[a].state = "running"
      PROVE  \/ a \in unclear'
             \/ \E p \in Callers : call'[p].pc = "wait" /\ call'[p].attempt = a
  BY <1>1 DEF Metered
<1> QED BY <1>1 DEF Metered, Attempts

(* The same for the steps that move one process.                             *)
LEMMA MovesMetered ==
    ASSUME Metered, UNCHANGED <<routes, broker, owed>>, unclear \subseteq unclear',
           NEW p \in Callers, \A q \in Callers \ {p} : call'[q] = call[q],
           \/ call[p].pc # "wait"
           \/ broker[call[p].attempt].state # "running"
           \/ call[p].attempt \in unclear',
           \/ call'[p].pc \notin {"admit", "send"}
           \/ call[p].pc = "admit" /\ call'[p].attempt = call[p].attempt
    PROVE  Metered'
<1>1. ASSUME NEW q \in Callers
      PROVE  /\ call[q].pc = "wait" =>
                \/ call'[q].pc = "wait" /\ call'[q].attempt = call[q].attempt
                \/ broker[call[q].attempt].state # "running"
                \/ call[q].attempt \in unclear'
             /\ call'[q].pc \in {"admit", "send"} =>
                call[q].pc \in {"admit", "send"} /\ call'[q].attempt = call[q].attempt
  <2>1. CASE q = p
    BY <2>1
  <2>2. CASE q # p
    BY <2>2
  <2> QED BY <2>1, <2>2
<1> QED BY <1>1, MeteredStays

(* One more route: the first one was not under way, and after the second the *)
(* journal is no longer the whole of it.                                     *)
LEMMA DecidedMetered ==
    ASSUME CallInv, Metered, NEW p \in Callers, call[p].pc = "route", Decided(p),
           UNCHANGED <<broker, owed, unclear>>, \A q \in Callers \ {p} : call'[q] = call[q],
           call'[p].pc \notin {"admit", "send"} \/ call'[p].attempt = call[p].attempt
    PROVE  Metered'
<1> DEFINE a == call[p].attempt
<1>1. a \in Attempts /\ a # 0 /\ Own(p, call[p])
  BY WorkerFacts DEF Working, Steps
<1>2. routes[a] \in Nat
  BY <1>1, WireFacts
<1>3. /\ routes'[a] = routes[a] + 1
      /\ \A b \in Attempts \ {a} : routes'[b] = routes[b]
  BY <1>1, WireFacts DEF Decided
<1>4. broker[a].state # "running" /\ (routes[a] = 0 => broker[a].state = "none" /\ owed[a] = 0)
  BY <1>1, <1>2 DEF Own, Walks, Metered
<1>5. \A q \in Callers : call[q].attempt = a => q = p
  BY <1>1, OtherAttempt
<1> HIDE DEF a
<1>6. ASSUME NEW b \in Attempts
      PROVE  /\ routes'[b] = 0 => broker[b].state = "none"
             /\ routes'[b] <= 1 =>
                   /\ broker[b].state \in {"none", "running"} => owed[b] = 0
                   /\ broker[b].state \in Endings => broker[b].dirty \/ owed[b] = broker[b].cost
             /\ broker[b].state = "running" =>
                   \/ b \in unclear
                   \/ \E q \in Callers : call'[q].pc = "wait" /\ call'[q].attempt = b
  <2>1. CASE b = a
    <3>1. "none" \notin Endings
      BY DEF Endings
    <3>2. routes'[b] <= 1 => routes[b] = 0
      BY <1>2, <1>3, <2>1
    <3> QED BY <1>2, <1>3, <1>4, <2>1, <3>1, <3>2
  <2>2. CASE b # a
    <3>1. /\ routes[b] = 0 => broker[b].state = "none"
          /\ routes[b] <= 1 =>
                /\ broker[b].state \in {"none", "running"} => owed[b] = 0
                /\ broker[b].state \in Endings => broker[b].dirty \/ owed[b] = broker[b].cost
          /\ broker[b].state = "running" =>
                \/ b \in unclear
                \/ \E q \in Callers : call[q].pc = "wait" /\ call[q].attempt = b
      BY DEF Metered
    <3>2. \A q \in Callers : call[q].pc = "wait" => call'[q] = call[q]
      OBVIOUS
    <3> QED BY <1>3, <2>2, <3>1, <3>2
  <2> QED BY <2>1, <2>2
<1>7. ASSUME NEW q \in Callers, call'[q].pc \in {"admit", "send"}, routes'[call'[q].attempt] <= 1
      PROVE  broker[call'[q].attempt].state = "none"
  <2>1. CASE q = p
    <3>1. call'[q].attempt = a
      BY <1>7, <2>1 DEF a
    <3> QED BY <1>2, <1>3, <1>4, <1>7, <3>1
  <2>2. CASE q # p
    <3>1. call'[q] = call[q] /\ call[q].attempt # a
      BY <1>5, <2>2
    <3>2. call[q].attempt \in Attempts
      BY <1>7, <3>1, WorkerFacts DEF Working, Steps
    <3>3. routes[call[q].attempt] <= 1
      BY <1>3, <1>7, <3>1, <3>2
    <3> QED BY <1>7, <3>1, <3>3 DEF Metered
  <2> QED BY <2>1, <2>2
<1> QED BY <1>6, <1>7 DEF Metered, Attempts

(* The first request of an attempt finds no record of it in the journal.     *)
LEMMA SendMetered ==
    ASSUME CallInv, Metered, NEW p \in Callers, Send(p) PROVE Metered'
<1> DEFINE a == call[p].attempt
<1>0. call \in [Callers -> CallRecord]
  BY DEF CallInv
<1>1. a \in Attempts /\ a # 0 /\ Own(p, call[p]) /\ call[p].pc = "send"
  BY WorkerFacts DEF Working, Steps, Send
<1>2. CASE broker' = [broker EXCEPT ![a].state = "running"] /\ Goto(p, "wait")
  <2>1. /\ broker'[a].state = "running" /\ \A b \in Attempts \ {a} : broker'[b] = broker[b]
        /\ UNCHANGED <<routes, owed, unclear>>
    BY <1>1, <1>2, WireFacts DEF Send, JournalRecord, truth
  <2>2. /\ call'[p].pc = "wait" /\ call'[p].attempt = a
        /\ \A q \in Callers \ {p} : call'[q] = call[q]
    BY <1>0, <1>2 DEF Goto, CallRecord
  <2>3. routes[a] # 0 /\ (routes[a] <= 1 => owed[a] = 0)
    BY <1>1 DEF Own, Walks, Metered
  <2>4. \A q \in Callers : call[q].attempt = a => q = p
    BY <1>1, OtherAttempt
  <2> HIDE DEF a
  <2>5. ASSUME NEW b \in Attempts
        PROVE  /\ routes'[b] = 0 => broker'[b].state = "none"
               /\ routes'[b] <= 1 =>
                     /\ broker'[b].state \in {"none", "running"} => owed'[b] = 0
                     /\ broker'[b].state \in Endings =>
                           broker'[b].dirty \/ owed'[b] = broker'[b].cost
               /\ broker'[b].state = "running" =>
                     \/ b \in unclear'
                     \/ \E q \in Callers : call'[q].pc = "wait" /\ call'[q].attempt = b
    <3>1. CASE b = a
      <4>1. "running" \notin Endings
        BY DEF Endings
      <4> QED BY <2>1, <2>2, <2>3, <3>1, <4>1
    <3>2. CASE b # a
      <4>1. /\ routes[b] = 0 => broker[b].state = "none"
            /\ routes[b] <= 1 =>
                  /\ broker[b].state \in {"none", "running"} => owed[b] = 0
                  /\ broker[b].state \in Endings => broker[b].dirty \/ owed[b] = broker[b].cost
            /\ broker[b].state = "running" =>
                  \/ b \in unclear
                  \/ \E q \in Callers : call[q].pc = "wait" /\ call[q].attempt = b
        BY DEF Metered
      <4>2. \A q \in Callers : call[q].pc = "wait" => call'[q] = call[q]
        BY <1>1, <2>2
      <4> QED BY <2>1, <3>2, <4>1, <4>2
    <3> QED BY <3>1, <3>2
  <2>6. ASSUME NEW q \in Callers, call'[q].pc \in {"admit", "send"}, routes'[call'[q].attempt] <= 1
        PROVE  broker'[call'[q].attempt].state = "none"
    <3>1. q # p
      BY <2>2, <2>6
    <3>2. call'[q] = call[q] /\ call[q].attempt # a
      BY <2>2, <2>4, <3>1
    <3>3. call[q].attempt \in Attempts
      BY <2>6, <3>2, WorkerFacts DEF Working, Steps
    <3> QED BY <2>1, <2>6, <3>2, <3>3 DEF Metered
  <2> QED BY <2>5, <2>6 DEF Metered, Attempts
<1>3. CASE /\ call' = [call EXCEPT ![p].pc = "link", ![p].heard = "free"]
           /\ UNCHANGED broker
  <2>1. /\ UNCHANGED <<routes, broker, owed, unclear>> /\ call'[p].pc = "link"
        /\ \A q \in Callers \ {p} : call'[q] = call[q]
    BY <1>0, <1>3 DEF Send, truth, CallRecord
  <2> QED BY <1>1, <2>1, MovesMetered
<1> QED BY <1>2, <1>3 DEF Send

(* A metered run leaves in the journal what the provider charged for it.     *)
LEMMA BrokerEndsMetered ==
    ASSUME CallInv, Metered, NEW a \in Attempts, BrokerEnds(a) PROVE Metered'
<1>1. PICK how \in Endings, m \in Costs \cup {0} :
         /\ how = "free" => m = 0
         /\ how \in {"served", "over"} => m \in Costs
         /\ broker' = [broker EXCEPT ![a] =
                [state |-> how, cost |-> IF how = "unclear" THEN 0 ELSE m,
                 dirty |-> @.dirty \/ how \in {"free", "unclear"}]]
         /\ owed' = [owed EXCEPT ![a] = @ + m]
  BY DEF BrokerEnds
<1>2. broker[a].state = "running" /\ call' = call /\ UNCHANGED <<routes, unclear>>
  BY DEF BrokerEnds
<1>3. m \in Nat /\ how \notin {"none", "running"}
  BY WireFacts, SettingsFacts, <1>1 DEF Endings
<1>4. /\ broker'[a].state = how /\ (how \notin {"free", "unclear"} => broker'[a].cost = m)
      /\ how \in {"free", "unclear"} => broker'[a].dirty
      /\ \A b \in Attempts \ {a} : broker'[b] = broker[b]
  BY <1>1, WireFacts
<1>5. owed'[a] = owed[a] + m /\ \A b \in Attempts \ {a} : owed'[b] = owed[b]
  BY <1>1, WireFacts
<1>6. routes[a] # 0 /\ (routes[a] <= 1 => owed[a] = 0)
  BY <1>2 DEF Metered
<1>7. ASSUME NEW b \in Attempts
      PROVE  /\ routes[b] = 0 => broker'[b].state = "none"
             /\ routes[b] <= 1 =>
                   /\ broker'[b].state \in {"none", "running"} => owed'[b] = 0
                   /\ broker'[b].state \in Endings =>
                         broker'[b].dirty \/ owed'[b] = broker'[b].cost
             /\ broker'[b].state = "running" =>
                   \/ b \in unclear
                   \/ \E q \in Callers : call[q].pc = "wait" /\ call[q].attempt = b
  <2>1. CASE b = a
    BY <1>3, <1>4, <1>5, <1>6, <2>1
  <2>2. CASE b # a
    <3>1. broker'[b] = broker[b] /\ owed'[b] = owed[b]
      BY <1>4, <1>5, <2>2
    <3> QED BY <3>1 DEF Metered
  <2> QED BY <2>1, <2>2
<1>8. ASSUME NEW q \in Callers, call[q].pc \in {"admit", "send"}, routes[call[q].attempt] <= 1
      PROVE  broker'[call[q].attempt].state = "none"
  <2>1. broker[call[q].attempt].state = "none" /\ call[q].attempt \in Attempts
    BY <1>8, WorkerFacts DEF Metered, Working, Steps
  <2> QED BY <1>2, <1>4, <2>1
<1> QED BY <1>2, <1>7, <1>8 DEF Metered, Attempts

(* A process that returned or raised is where Leave put it.                  *)
LEMMA LeavesOthers ==
    ASSUME call \in [Callers -> CallRecord], NEW p \in Callers, NEW pc, Leave(p, pc)
    PROVE  call'[p].pc = pc /\ \A q \in Callers \ {p} : call'[q] = call[q]
<1> DEFINE c == [NewCall EXCEPT !.pc = pc, !.attempt = call[p].attempt, !.old = call[p].old]
<1>1. call' = [call EXCEPT ![p] = c]
  BY DEF Leave
<1>2. c.pc = pc
  BY DEF NewCall
<1> HIDE DEF c
<1> QED BY <1>1, <1>2

(* The other steps of a call leave a run that is under way to be waited for, *)
(* or its cost unclear.                                                      *)
LEMMA CallStepMetered ==
    ASSUME CallInv, Metered, NEW p \in Callers,
           Start(p) \/ CallStep(p) \/ ReclaimStep(p) \/ Die(p)
    PROVE  Metered'
<1> DEFINE Calm ==
        /\ UNCHANGED <<routes, broker, owed>> /\ unclear \subseteq unclear'
        /\ \A q \in Callers \ {p} : call'[q] = call[q]
        /\ \/ call[p].pc # "wait"
           \/ broker[call[p].attempt].state # "running"
           \/ call[p].attempt \in unclear'
        /\ \/ call'[p].pc \notin {"admit", "send"}
           \/ call[p].pc = "admit" /\ call'[p].attempt = call[p].attempt
<1>0. call \in [Callers -> CallRecord]
  BY DEF CallInv
<1>1. Calm => Metered'
  BY MovesMetered
<1>2. CASE Start(p) \/ Ask(p)
  <2>1. CASE Start(p)
    <3>1. Calm
      BY <1>0, <2>1 DEF Start, CallRecord, wire, truth
    <3> QED BY <1>1, <3>1
  <2>2. CASE Ask(p)
    <3> DEFINE c == [NewCall EXCEPT !.pc = "claimed", !.old = call[p].old,
                                    !.attempt = work.attempt]
    <3>1. c.pc = "claimed"
      BY DEF NewCall
    <3>2. UNCHANGED <<routes, broker, owed, unclear>> /\ call[p].pc = "idle"
      BY <2>2 DEF Ask, wire, truth
    <3>3. call' = [call EXCEPT ![p] = c] \/ Goto(p, "reclaim")
      BY <2>2 DEF Ask
    <3> HIDE DEF c
    <3>4. Calm
      BY <1>0, <3>1, <3>2, <3>3 DEF Goto, CallRecord
    <3> QED BY <1>1, <3>4
  <2> QED BY <1>2, <2>1, <2>2
<1>3. CASE Drained(p) \/ SettleGivesUp(p) \/ CompleteGivesUp(p)
  <2>1. Calm
    BY <1>0, <1>3 DEF Drained, SettleGivesUp, CompleteGivesUp, Goto, CallRecord, wire, truth
  <2> QED BY <1>1, <2>1
<1>4. CASE AdmitRefused(p) \/ RecordLinkLocked(p) \/ CapacityRaises(p)
  <2>1. Calm
    <3>1. /\ UNCHANGED <<routes, broker, owed>> /\ unclear \subseteq unclear'
          /\ \E r, n : ChainEnds(p, call[p], r, n) \/ ChainRaises(p, call[p], n)
      BY <1>4 DEF AdmitRefused, RecordLinkLocked, CapacityRaises, wire, truth
    <3>2. \/ call[p].pc # "wait" \/ broker[call[p].attempt].state # "running"
          \/ call[p].attempt \in unclear'
      BY <1>4 DEF AdmitRefused, RecordLinkLocked, CapacityRaises
    <3> QED BY <3>1, <3>2, ChainKeeps
  <2> QED BY <1>1, <2>1
<1>5. CASE RecordLink(p)
  <2>1. Calm
    <3>1. /\ UNCHANGED <<routes, broker, owed, unclear>> /\ call[p].pc = "link"
          /\ \/ \E r, n : ChainEnds(p, call[p], r, n)
             \/ call' = [call EXCEPT ![p] = [call[p] EXCEPT !.pc = "route", !.heard = "free"]]
      BY <1>5 DEF RecordLink, wire, truth
    <3>2. CASE \E r, n : ChainEnds(p, call[p], r, n)
      BY <3>1, <3>2, ChainKeeps
    <3>3. CASE call' = [call EXCEPT ![p] = [call[p] EXCEPT !.pc = "route", !.heard = "free"]]
      BY <1>0, <3>1, <3>3 DEF CallRecord
    <3> QED BY <3>1, <3>2, <3>3
  <2> QED BY <1>1, <2>1
<1>6. CASE Receive(p) \/ AnswerLost(p)
  <2>1. Calm
    <3>1. "running" \notin Endings
      BY DEF Endings
    <3> QED BY <1>0, <1>6, <3>1 DEF Receive, AnswerLost, CallRecord, wire, truth
  <2> QED BY <1>1, <2>1
<1>7. CASE Admit(p) \/ AdmitGivesUp(p)
  <2>1. Calm
    BY <1>0, <1>7 DEF Admit, AdmitGivesUp, Goto, CallRecord, wire, truth
  <2> QED BY <1>1, <2>1
<1>8. CASE Settle(p) \/ \E ok \in BOOLEAN : RecordSettlement(p, ok) \/ RecordVoid(p, ok)
  <2>1. Calm
    BY <1>0, <1>8 DEF Settle, RecordSettlement, RecordVoid, AfterSettle, CallRecord, wire, truth
  <2> QED BY <1>1, <2>1
<1>9. CASE Complete(p) \/ Exit(p) \/ Release(p)
  <2>1. /\ UNCHANGED <<routes, broker, owed, unclear>>
        /\ call[p].pc \in {"finish", "exit", "release"}
    BY <1>9 DEF Complete, Exit, Release, wire, truth
  <2>2. \/ \E pc \in {"release", "idle", "exit"} : Leave(p, pc)
        \/ call' = [call EXCEPT ![p].pc = "finish", ![p].result = "retryable",
                                ![p].closing = TRUE]
    <3>1. CASE Complete(p)
      BY <3>1 DEF Complete
    <3>2. CASE Exit(p)
      BY <3>2 DEF Exit
    <3>3. CASE Release(p)
      BY <3>3 DEF Release
    <3> QED BY <1>9, <3>1, <3>2, <3>3
  <2>3. CASE \E pc \in {"release", "idle", "exit"} : Leave(p, pc)
    BY <1>0, <1>1, <2>1, <2>3, LeavesOthers
  <2>4. CASE call' = [call EXCEPT ![p].pc = "finish", ![p].result = "retryable",
                                 ![p].closing = TRUE]
    <3>1. call'[p].pc = "finish" /\ \A q \in Callers \ {p} : call'[q] = call[q]
      BY <1>0, <2>4 DEF CallRecord
    <3> QED BY <1>1, <2>1, <3>1
  <2> QED BY <2>2, <2>3, <2>4
<1>10. CASE \E ok \in BOOLEAN : RecordHolder(p, ok) \/ Abandon(p, ok)
  <2>1. /\ UNCHANGED <<routes, broker, owed, unclear>>
        /\ call[p].pc \in {"claimed", "abandon"}
        /\ Goto(p, "drain") \/ Leave(p, "idle")
    BY <1>10 DEF RecordHolder, Abandon, wire, truth
  <2>2. CASE Goto(p, "drain")
    <3>1. call'[p].pc = "drain" /\ \A q \in Callers \ {p} : call'[q] = call[q]
      BY <1>0, <2>2 DEF Goto, CallRecord
    <3> QED BY <1>1, <2>1, <3>1
  <2>3. CASE Leave(p, "idle")
    BY <1>0, <1>1, <2>1, <2>3, LeavesOthers
  <2> QED BY <2>1, <2>2, <2>3
<1>11. CASE ReclaimStep(p)
  <2>1. CASE ReclaimPick(p)
    <3>1. Calm
      BY <1>0, <2>1 DEF ReclaimPick, CallRecord, wire, truth
    <3> QED BY <1>1, <3>1
  <2>2. CASE ReclaimCommit(p)
    <3>1. Calm
      BY <1>0, <2>2 DEF ReclaimCommit, CallRecord, wire, truth
    <3> QED BY <1>1, <3>1
  <2>3. CASE ReclaimUnlink(p) \/ ReclaimUnrecorded(p) \/ ReclaimEnds(p)
    <3>1. /\ UNCHANGED <<routes, broker, owed, unclear>> /\ call[p].pc # "wait"
          /\ \E pc \in {"idle", "reclaim"} : Leave(p, pc)
      BY <2>3 DEF ReclaimUnlink, ReclaimUnrecorded, ReclaimEnds, wire, truth
    <3> QED BY <1>0, <1>1, <3>1, LeavesOthers
  <2> QED BY <1>11, <2>1, <2>2, <2>3 DEF ReclaimStep
<1>12. CASE Die(p)
  <2>1. /\ UNCHANGED <<routes, broker, owed>> /\ unclear \subseteq unclear'
        /\ call[p].pc # "wait" \/ call[p].attempt \in unclear'
        /\ Leave(p, "dead")
    BY <1>12 DEF Die, wire
  <2> QED BY <1>0, <1>1, <2>1, LeavesOthers
<1>13. CASE Route(p)
  <2>1. /\ call[p].pc = "route" /\ Decided(p) /\ UNCHANGED <<broker, owed, unclear>>
        /\ \A q \in Callers \ {p} : call'[q] = call[q]
        /\ call'[p].attempt = call[p].attempt
    BY <1>0, <1>13 DEF Route, Goto, CallRecord, truth
  <2> QED BY <2>1, DecidedMetered
<1>14. CASE RouteEnds(p)
  <2>1. /\ call[p].pc = "route" /\ UNCHANGED <<broker, owed, unclear>>
        /\ Decided(p) \/ UNCHANGED routes
        /\ \E r, n : ChainEnds(p, call[p], r, n) \/ ChainRaises(p, call[p], n)
    BY <1>14 DEF RouteEnds, truth
  <2>2. /\ \A q \in Callers \ {p} : call'[q] = call[q]
        /\ call'[p].attempt = call[p].attempt /\ call'[p].pc \notin {"admit", "send"}
    BY <2>1, ChainKeeps
  <2> QED BY <2>1, <2>2, DecidedMetered, MovesMetered
<1>15. CASE Send(p)
  BY <1>15, SendMetered
<1> QED BY <1>2, <1>3, <1>4, <1>5, <1>6, <1>7, <1>8, <1>9, <1>10, <1>11, <1>12, <1>13, <1>14,
           <1>15 DEF CallStep

(* Nobody but a call and the provider touches the wire.                      *)
LEMMA NextMetered == CallInv /\ Metered /\ [Next]_<<vars, setting>> => Metered'
<1> SUFFICES ASSUME CallInv, Metered, [Next]_<<vars, setting>> PROVE Metered'
  OBVIOUS
<1>0. UNCHANGED <<routes, broker, owed, unclear, call>> => Metered'
  BY MeteredStays
<1>1. ASSUME NEW x, ReplayStep(x) PROVE Metered'
  BY <1>0, <1>1 DEF ReplayStep, StartReplay, Replay, ReplayUnlink, ReplayStops, wire, truth
<1>2. CASE Lapse \/ UNCHANGED <<vars, setting>>
  BY <1>0, <1>2 DEF Lapse, vars, wire, truth
<1>3. ASSUME OperatorStep PROVE Metered'
  <2>1. ASSUME PlanOrphan PROVE UNCHANGED <<wire, truth, call>>
    BY <2>1, Zenon DEF PlanOrphan
  <2>2. ASSUME ApplyOrphan \/ RecoverSettle \/ RecoverReconcile \/ OperatorStops
        PROVE  UNCHANGED <<wire, truth, call>>
    BY <2>2, Zenon DEF ApplyOrphan, RecoverSettle, RecoverReconcile, OperatorStops
  <2>3. ASSUME NEW p \in Callers, NEW a \in Attempts,
               RecoverReserve(p, a) \/ RecoverUndispatched(p, a)
        PROVE  UNCHANGED <<wire, truth, call>>
    BY <2>3, Zenon DEF RecoverReserve, RecoverUndispatched
  <2>4. UNCHANGED <<wire, truth, call>>
    BY <1>3, <2>1, <2>2, <2>3 DEF OperatorStep
  <2> QED BY <1>0, <2>4 DEF wire, truth
<1>4. ASSUME NEW p \in Callers, Start(p) \/ CallStep(p) \/ ReclaimStep(p) \/ Die(p)
      PROVE  Metered'
  BY <1>4, CallStepMetered
<1>5. ASSUME NEW a \in Attempts, BrokerEnds(a) PROVE Metered'
  BY <1>5, BrokerEndsMetered
<1>6. CASE Next
  BY <1>1, <1>2, <1>3, <1>4, <1>5, <1>6 DEF Next
<1> QED BY <1>2, <1>6

LEMMA InitMetered == Init => Metered
  BY DEF Init, Metered, Endings, NewCall

-----------------------------------------------------------------------------
(* The theorems *)

(* A behaviour starts with nothing asked and nothing owed.                   *)
LEMMA InitInv == Init => CallInv
<1> SUFFICES ASSUME Init PROVE CallInv
  OBVIOUS
<1>1. /\ setting \in Settings /\ MaxAttempts \in Nat /\ 1 \in Attempts /\ Most \in Nat
      /\ MaxLinks \in Nat /\ 0 \in Amounts
  BY SettingsFacts, AmountBounds DEF Init, Attempts
<1>2. NoReplay \in ReplayRecord /\ NewOp \in OpRecord /\ NewOp.pc = "idle"
  BY <1>1, NoReplayType, NewOpType
<1>3. /\ NewCall \in CallRecord /\ NewCall.cost = 0 /\ NewCall.amount = 0 /\ NewCall.doubt = FALSE
      /\ NewCall.pc = "off" /\ NewCall.attempt = 0
  BY <1>1 DEF NewCall, CallRecord, PCs, Heard, Endings, Results
<1>4. NoFile \in [status : {"none", "held", "abandoned"}, by : Callers \cup {Nobody},
                  result : Results]
      /\ NoFile.status = "none"
  BY DEF NoFile, Results
<1>5. Stores
  <2>1. TypeOK
    BY <1>1, <1>4 DEF Init, TypeOK
  <2>2. Shapes
    BY <1>1, <1>2, <2>1 DEF Init, Shapes, JournalRecord
  <2>3. Schedule
    BY <1>4 DEF Init, Schedule, Untouched
  <2>4. AbandonedStands
    BY <1>4 DEF Init, AbandonedStands
  <2>5. Waiting
    BY <1>2 DEF Init, Waiting
  <2>6. Charged
    BY <1>1 DEF Init, Charged
  <2>7. Closed
    BY <1>2 DEF Init, Closed
  <2> QED BY <2>2, <2>3, <2>4, <2>5, <2>6, <2>7 DEF Stores
<1>6. \A p \in Callers : call[p] = NewCall
  BY DEF Init
<1>7. Apart
  BY <1>3, <1>6 DEF Apart
<1>8. call \in [Callers -> CallRecord]
  BY <1>3 DEF Init
<1>9. ASSUME NEW p \in Callers, NEW c, c = NewCall PROVE Own(p, c)
  <2>1. c.pc \notin Steps /\ c.pc \notin Walk
    BY <1>3, <1>9 DEF Steps, Walk
  <2>2. Holds(p, c)
    BY <1>1, <1>3, <1>9, <2>1 DEF Holds
  <2>3. Walks(c) /\ Heeds(c) /\ Reckons(c)
    BY <1>3, <1>9, <2>1 DEF Walks, Heeds, Reckons, NotAdmitted, IsAdmitted, Walk
  <2> QED BY <2>2, <2>3 DEF Own
<1> QED BY <1>5, <1>6, <1>7, <1>8, <1>9 DEF CallInv

(* Every step of a process at its call keeps the invariant.                  *)
LEMMA CallStepInv ==
    ASSUME CallInv, NEW p \in Callers, CallStep(p), setting' = setting PROVE CallInv'
<1>1. CASE Ask(p) \/ Drained(p) \/ Route(p) \/ RouteEnds(p)
  BY <1>1, AskInv, DrainedInv, RouteInv, RouteEndsInv
<1>2. CASE Admit(p) \/ AdmitRefused(p) \/ AdmitGivesUp(p)
  BY <1>2, AdmissionInv, AdmitRefusedInv
<1>3. CASE Send(p) \/ Receive(p) \/ AnswerLost(p) \/ RecordLink(p) \/ RecordLinkLocked(p)
           \/ CapacityRaises(p)
  BY <1>3, SendInv, ReceiveInv, AnswerLostInv, RecordLinkInv, RecordLinkLockedInv,
     CapacityRaisesInv
<1>4. CASE Settle(p) \/ SettleGivesUp(p)
  BY <1>4, SettleInv, SettleGivesUpInv
<1>5. CASE Complete(p) \/ CompleteGivesUp(p) \/ Exit(p) \/ Release(p)
  BY <1>5, CompleteInv, CompleteGivesUpInv, ExitInv, ReleaseInv
<1>6. CASE \E ok \in BOOLEAN : \/ RecordHolder(p, ok) \/ RecordVoid(p, ok)
                               \/ RecordSettlement(p, ok) \/ Abandon(p, ok)
  BY <1>6, RecordHolderInv, RecordVoidInv, RecordSettlementInv, AbandonInv
<1> QED BY <1>1, <1>2, <1>3, <1>4, <1>5, <1>6 DEF CallStep

(* So does every other step of the system.                                   *)
LEMMA NextInv == CallInv /\ Metered /\ [Next]_<<vars, setting>> => CallInv'
<1> SUFFICES ASSUME CallInv, Metered, [Next]_<<vars, setting>> PROVE CallInv'
  OBVIOUS
<1>1. ASSUME NEW p \in Callers, Start(p) \/ CallStep(p) \/ ReclaimStep(p) \/ Die(p),
             setting' = setting
      PROVE  CallInv'
  <2>1. CASE Start(p) \/ CallStep(p) \/ Die(p)
    BY <1>1, <2>1, StartInv, CallStepInv, DieInv
  <2>2. CASE ReclaimStep(p)
    BY <1>1, <2>2, ReclaimPickInv, ReclaimCommitInv, ReclaimUnlinkInv, ReclaimUnrecordedInv,
       ReclaimEndsInv DEF ReclaimStep
  <2> QED BY <1>1, <2>1, <2>2
<1>2. ASSUME NEW x \in Callers \cup setting.others, ReplayStep(x), setting' = setting
      PROVE  CallInv'
  <2>1. x \in Callers \cup Others
    BY BooksFacts, SettingsFacts
  <2> QED BY <1>2, <2>1, StartReplayInv, ReplayInv, ReplayEndsInv DEF ReplayStep
<1>3. ASSUME NEW a \in Attempts, BrokerEnds(a), setting' = setting PROVE CallInv'
  BY <1>3, BrokerEndsInv
<1>4. ASSUME Lapse, setting' = setting PROVE CallInv'
  BY <1>4, LapseInv
<1>5. ASSUME OperatorStep, setting' = setting PROVE CallInv'
  BY <1>5, PlanOrphanInv, ApplyOrphanInv, RecoverReserveInv, RecoverUndispatchedInv,
     RecoverSettleInv, RecoverReconcileInv, OperatorStopsInv DEF OperatorStep
<1>6. ASSUME UNCHANGED <<vars, setting>> PROVE CallInv'
  <2>1. /\ UNCHANGED <<scheduler, holder, ledger, pending, wire, truth, replay, op, call>>
        /\ setting' = setting
    BY <1>6 DEF vars, scheduler, ledger, wire, truth
  <2>2. Stores'
    BY <2>1, StoresKept DEF CallInv
  <2>3. \A q \in Callers : \A d : d = call[q] => Own(q, d)
    BY DEF CallInv
  <2>4. \A q \in Callers : \A d : d = call[q] => Own(q, d)'
    BY <2>1, <2>3, OwnKept
  <2> QED BY <2>1, <2>2, <2>4, Stays
<1> QED BY <1>1, <1>2, <1>3, <1>4, <1>5, <1>6 DEF Next

(* The invariant holds, whoever calls, dies, reclaims, replays or recovers.  *)
THEOREM CallInvariant == Spec => [](CallInv /\ Metered)
  BY InitInv, InitMetered, NextInv, NextMetered, PTL DEF Spec

(* The stores are well formed, and a call in flight is the only one of the   *)
(* request and stands under the open reservation of its attempt: what        *)
(* cockpit_model._chained relies on between its admission and its settlement *)
(* whatever other processes replay, reclaim or recover meanwhile.            *)
THEOREM CallsAreCovered == Spec => []CallsCovered
<1>1. CallInv => CallsCovered
  <2> SUFFICES ASSUME CallInv PROVE CallsCovered
    OBVIOUS
  <2>1. TypeOK
    BY DEF CallInv, Stores, Shapes
  <2>2. OneInFlight
    <3> SUFFICES ASSUME NEW p \in Callers, NEW q \in Callers, Working(p), Working(q),
                        ~Unrecorded(call[p].attempt), ~Unrecorded(call[q].attempt)
                 PROVE  p = q
      BY DEF OneInFlight
    <3>1. call[p].attempt # 0 /\ call[p].attempt = work.attempt
      BY WorkerLeased
    <3> QED BY <3>1, LoneHolder
  <2>3. SentUnderReservation
    <3> SUFFICES ASSUME NEW p \in Callers, call[p].pc \in {"send", "wait"}
                 PROVE  /\ call[p].attempt \in admitted
                        /\ \/ settled[call[p].attempt] = Unset
                           \/ Operator /\ Unrecorded(call[p].attempt)
      BY DEF SentUnderReservation
    <3>1. call[p].pc \in Walk
      BY DEF Walk
    <3>2. call[p].attempt \in admitted
      BY DEF CallInv, Own, Walks, IsAdmitted
    <3> QED BY <3>1, <3>2, WalkerFacts DEF Untold
  <2> QED BY <2>1, <2>2, <2>3 DEF CallsCovered
<1> QED BY <1>1, CallInvariant, PTL

(* Without the operator's valuation the ledger says what the provider        *)
(* charged, or keeps at least the whole reservation when the cost of some    *)
(* call was never learned, or, only when the walk raised after an exchange,  *)
(* nothing or the reservation: the settlement _chained computes, whoever     *)
(* writes or replays it.                                                     *)
THEOREM LedgerIsTrue == Spec => []LedgerTruth
<1>1. CallInv => LedgerTruth
  <2> SUFFICES ASSUME CallInv, ~Operator, NEW a \in Attempts, settled[a] # Unset
               PROVE  \/ settled[a] = owed[a]
                      \/ a \in unclear /\ settled[a] >= Reserve
                      \/ a \in dropped /\ settled[a] \in {0, Reserve}
    BY DEF LedgerTruth
  <2> QED BY BooksFacts DEF Final, Loose, Truthful
<1> QED BY <1>1, CallInvariant, PTL

(* A completion handed to the holder file is the only one its attempt can    *)
(* get from this code: what guard._abandon writes for the next process.      *)
THEOREM AbandonedCompletionsStand == Spec => []AbandonedStands
<1>1. CallInv => AbandonedStands
  BY DEF CallInv, Stores
<1> QED BY <1>1, CallInvariant, PTL

-----------------------------------------------------------------------------
(* Open admissions have a keeper *)

(* p has the reservation of attempt a still to close, or died with it.       *)
Keeps(p, a) == call[p].attempt = a /\ (call[p].pc \in Walk \/ call[p].pc = "dead")

(* An open admission is on somebody's walk, or in a pending record; and a    *)
(* record is done with only when its admission is settled.                   *)
Kept(a) == \/ \E p \in Callers : Keeps(p, a)
           \/ \E r \in pending : r.attempt = a
Open(a) == a \in admitted /\ settled[a] = Unset

Keepers ==
    ~DiskFails =>
        /\ \A a \in Attempts : Open(a) => Kept(a)
        /\ \A x \in Callers \cup Others : replay[x].written => ~Open(replay[x].attempt)

(* What keeps them: nothing is opened but on a walk, no walk and no record   *)
(* ends before its admission is settled or written down.                     *)
LEMMA KeepersStay ==
    ASSUME CallInv, Keepers, setting' = setting,
           ~DiskFails => \A a \in Attempts : Open(a)' =>
              \/ \E p \in Callers : Keeps(p, a)'
              \/ \E r \in pending' : r.attempt = a
              \/ /\ Open(a)
                 /\ \A p \in Callers : Keeps(p, a) => Keeps(p, a)'
                 /\ \A r \in pending : r.attempt = a => r \in pending',
           ~DiskFails => \A x \in Callers \cup Others : \A b :
              replay'[x].written /\ b = replay'[x].attempt /\ Open(b)' =>
                 replay[x].written /\ replay[x].attempt = b /\ Open(b)
    PROVE  Keepers'
<1>1. DiskFails' = DiskFails
  BY DEF DiskFails
<1>2. ASSUME ~DiskFails, NEW a \in Attempts, Open(a)' PROVE Kept(a)'
  <2>1. CASE \/ \E p \in Callers : Keeps(p, a)'
             \/ \E r \in pending' : r.attempt = a
    BY <2>1 DEF Kept
  <2>2. CASE /\ Open(a)
             /\ \A p \in Callers : Keeps(p, a) => Keeps(p, a)'
             /\ \A r \in pending : r.attempt = a => r \in pending'
    <3>1. Kept(a)
      BY <1>2, <2>2 DEF Keepers
    <3> QED BY <2>2, <3>1 DEF Kept
  <2> QED BY <1>2, <2>1, <2>2
<1>3. ASSUME ~DiskFails, NEW x \in Callers \cup Others, replay'[x].written,
             NEW b, b = replay'[x].attempt
      PROVE  ~Open(b)'
  BY <1>3 DEF Keepers
<1>4. ~DiskFails => /\ \A a \in Attempts : Open(a)' => Kept(a)'
                    /\ \A x \in Callers \cup Others : \A b :
                          replay'[x].written /\ b = replay'[x].attempt => ~Open(b)'
  BY <1>2, <1>3
<1>5. ~DiskFails => \A a \in Attempts' : Open(a)' => Kept(a)'
  BY <1>4 DEF Attempts
<1>6. ~DiskFails => \A x \in Callers \cup Others : replay'[x].written => ~Open(replay[x].attempt)'
  BY <1>4 DEF Open
<1> QED BY <1>1, <1>5, <1>6 DEF Keepers

(* A process moves, and its walk goes on where it has something to close.    *)
LEMMA MovesKeep ==
    ASSUME CallInv, Keepers, setting' = setting, UNCHANGED <<ledger, pending>>,
           \A x \in Callers \cup Others : replay'[x] = replay[x] \/ replay'[x].written = FALSE,
           NEW p \in Callers, \A q \in Callers \ {p} : call'[q] = call[q],
           /\ call[p].attempt \in admitted
           /\ call[p].pc \in Walk \/ call[p].pc = "dead"
           => call'[p].attempt = call[p].attempt /\ (call'[p].pc \in Walk \/ call'[p].pc = "dead")
    PROVE  Keepers'
<1> USE DEF ledger
<1>1. ASSUME NEW a \in Attempts, Open(a)'
      PROVE  /\ Open(a)
             /\ \A q \in Callers : Keeps(q, a) => Keeps(q, a)'
             /\ \A r \in pending : r.attempt = a => r \in pending'
  <2>1. Open(a)
    BY <1>1 DEF Open
  <2>2. ASSUME NEW q \in Callers, Keeps(q, a) PROVE Keeps(q, a)'
    <3>1. CASE q = p
      BY <2>1, <2>2, <3>1 DEF Keeps, Open
    <3>2. CASE q # p
      BY <2>2, <3>2 DEF Keeps
    <3> QED BY <3>1, <3>2
  <2> QED BY <2>1, <2>2
<1>2. \A x \in Callers \cup Others : \A b :
         replay'[x].written /\ b = replay'[x].attempt /\ Open(b)' =>
            replay[x].written /\ replay[x].attempt = b /\ Open(b)
  BY DEF Open
<1> QED BY <1>1, <1>2, KeepersStay

(* Nobody moves; what is settled stays so, and a record goes only then.      *)
LEMMA BooksKeep ==
    ASSUME CallInv, Keepers, setting' = setting, UNCHANGED <<admitted, call>>,
           \A a \in Attempts : settled'[a] = settled[a] \/ settled'[a] # Unset,
           \A r \in pending : r \in pending' \/ ~Open(r.attempt),
           \A x \in Callers \cup Others :
              \/ replay'[x] = replay[x]
              \/ replay'[x].written => ~(/\ replay'[x].attempt \in admitted
                                         /\ settled'[replay'[x].attempt] = Unset)
    PROVE  Keepers'
<1>0. admitted \subseteq Attempts
  BY BooksFacts
<1>1. ASSUME NEW a \in Attempts, Open(a)'
      PROVE  /\ Open(a)
             /\ \A q \in Callers : Keeps(q, a) => Keeps(q, a)'
             /\ \A r \in pending : r.attempt = a => r \in pending'
  BY <1>1 DEF Open, Keeps
<1>2. \A x \in Callers \cup Others : \A b :
         replay'[x].written /\ b = replay'[x].attempt /\ Open(b)' =>
            replay[x].written /\ replay[x].attempt = b /\ Open(b)
  BY <1>0 DEF Open
<1> QED BY <1>1, <1>2, KeepersStay

(* The process that admits has the admission to close.                       *)
LEMMA AdmissionKeeps ==
    ASSUME CallInv, Keepers, NEW p \in Callers, Admit(p) \/ AdmitGivesUp(p), setting' = setting
    PROVE  Keepers'
<1>1. /\ call[p].pc \in Walk
      /\ call'[p].attempt = call[p].attempt /\ call'[p].pc \in Walk
      /\ \A q \in Callers \ {p} : call'[q] = call[q]
  <2>1. call[p].pc = "admit" /\ call[p].pc \in Walk
    BY DEF Admit, AdmitGivesUp, Walk
  <2>2. call \in [Callers -> CallRecord]
    BY DEF CallInv
  <2>3. Goto(p, "send") \/ Goto(p, "void")
    BY DEF Admit, AdmitGivesUp
  <2> QED BY <2>1, <2>2, <2>3 DEF Goto, CallRecord, Walk
<1>2. /\ admitted' \in {admitted, admitted \cup {call[p].attempt}}
      /\ UNCHANGED <<settled, pending, replay>>
  BY DEF Admit, AdmitGivesUp
<1>3. ASSUME NEW a \in Attempts, Open(a)'
      PROVE  \/ \E q \in Callers : Keeps(q, a)'
             \/ /\ Open(a)
                /\ \A q \in Callers : Keeps(q, a) => Keeps(q, a)'
                /\ \A r \in pending : r.attempt = a => r \in pending'
  <2>1. CASE a = call[p].attempt
    BY <1>1, <2>1 DEF Keeps
  <2>2. CASE a # call[p].attempt
    BY <1>1, <1>2, <1>3, <2>2 DEF Keeps, Open
  <2> QED BY <2>1, <2>2
<1>4. ASSUME ~DiskFails, NEW x \in Callers \cup Others, NEW b, replay'[x].written,
             b = replay'[x].attempt, Open(b)'
      PROVE  replay[x].written /\ replay[x].attempt = b /\ Open(b)
  <2>1. replay[x] # NoReplay
    BY <1>2, <1>4 DEF NoReplay
  <2>2. b # call[p].attempt
    BY <1>1, <1>2, <1>4, <2>1, WalkerFacts DEF Untold, Unrecorded
  <2> QED BY <1>2, <1>4, <2>2 DEF Open
<1> QED BY <1>3, <1>4, KeepersStay

(* The process that settles, or writes down what it could not settle, has    *)
(* nothing left to close.                                                    *)
LEMMA TellingKeeps ==
    ASSUME CallInv, Keepers, NEW p \in Callers, NEW ok \in BOOLEAN,
           Settle(p) \/ RecordSettlement(p, ok) \/ RecordVoid(p, ok), setting' = setting
    PROVE  Keepers'
<1>0. call[p].pc \in Walk
  BY DEF Settle, RecordSettlement, RecordVoid, Walk
<1>1. call[p].attempt \in Attempts /\ call[p].amount \in Nat
  BY <1>0, WorkerFacts, WalkerFacts DEF CallRecord
<1>2. /\ \A q \in Callers \ {p} : call'[q] = call[q]
      /\ UNCHANGED <<admitted, replay>> /\ pending \subseteq pending'
      /\ \/ settled' = settled /\ ~DiskFails
            /\ \E r \in pending' : r.attempt = call[p].attempt
         \/ settled' = settled /\ DiskFails
         \/ LedgerSettle(call[p].attempt, call[p].amount)
  <2>1. \A q \in Callers \ {p} : call'[q] = call[q]
    BY DEF CallInv, Settle, RecordSettlement, RecordVoid
  <2>2. UNCHANGED <<admitted, replay>> /\ pending \subseteq pending'
    BY DEF Settle, RecordSettlement, RecordVoid, ledger
  <2>3. CASE Settle(p)
    BY <2>1, <2>2, <2>3 DEF Settle
  <2>4. CASE RecordSettlement(p, ok)
    <3>1. settled' = settled /\ (ok \/ DiskFails)
      BY <2>4 DEF RecordSettlement, ledger
    <3>2. ok => [kind |-> "settle", attempt |-> call[p].attempt, amount |-> call[p].amount]
                   \in pending'
      BY <2>4 DEF RecordSettlement
    <3>3. ok => \E r \in pending' : r.attempt = call[p].attempt
      BY <3>2
    <3> QED BY <2>1, <2>2, <3>1, <3>3
  <2>5. CASE RecordVoid(p, ok)
    <3>1. settled' = settled /\ (ok \/ DiskFails)
      BY <2>5 DEF RecordVoid, ledger
    <3>2. ok => [kind |-> "void", amount |-> 0, attempt |-> call[p].attempt] \in pending'
      BY <2>5 DEF RecordVoid
    <3>3. ok => \E r \in pending' : r.attempt = call[p].attempt
      BY <3>2
    <3> QED BY <2>1, <2>2, <3>1, <3>3
  <2> QED BY <2>3, <2>4, <2>5
<1>3. /\ \A a \in Attempts : settled'[a] = settled[a] \/ settled'[a] # Unset
      /\ LedgerSettle(call[p].attempt, call[p].amount) => settled'[call[p].attempt] # Unset
  BY <1>1, <1>2, BooksFacts DEF LedgerSettle, Unset
<1>4. ASSUME ~DiskFails, NEW a \in Attempts, Open(a)'
      PROVE  \/ \E r \in pending' : r.attempt = a
             \/ /\ Open(a)
                /\ \A q \in Callers : Keeps(q, a) => Keeps(q, a)'
                /\ \A r \in pending : r.attempt = a => r \in pending'
  <2>1. Open(a)
    BY <1>2, <1>3, <1>4 DEF Open
  <2>2. CASE a = call[p].attempt
    BY <1>2, <1>3, <1>4, <2>2 DEF Open
  <2>3. CASE a # call[p].attempt
    BY <1>2, <2>1, <2>3 DEF Keeps
  <2> QED BY <2>2, <2>3
<1>5. ASSUME NEW x \in Callers \cup Others, NEW b, replay'[x].written, b = replay'[x].attempt,
             Open(b)'
      PROVE  replay[x].written /\ replay[x].attempt = b /\ Open(b)
  BY <1>2, <1>3, <1>5, BooksFacts DEF Open
<1> QED BY <1>4, <1>5, KeepersStay

(* The other steps of a call move its process only.                          *)
LEMMA CallStepKeeps ==
    ASSUME CallInv, Keepers, NEW p \in Callers,
           Start(p) \/ CallStep(p) \/ ReclaimStep(p) \/ Die(p), setting' = setting
    PROVE  Keepers'
<1> DEFINE Quiet ==
        /\ UNCHANGED <<ledger, pending>>
        /\ \A x \in Callers \cup Others : replay'[x] = replay[x] \/ replay'[x].written = FALSE
        /\ \A q \in Callers \ {p} : call'[q] = call[q]
        /\ /\ call[p].attempt \in admitted
           /\ call[p].pc \in Walk \/ call[p].pc = "dead"
           => call'[p].attempt = call[p].attempt
              /\ (call'[p].pc \in Walk \/ call'[p].pc = "dead")
<1>0. call \in [Callers -> CallRecord] /\ replay \in [Callers \cup Others -> ReplayRecord]
  BY BooksFacts DEF CallInv
<1>1. Quiet => Keepers'
  BY MovesKeep
<1>2. CASE Start(p) \/ Ask(p)
  <2>1. Quiet
    BY <1>0, <1>2 DEF Start, Ask, Goto, Walk
  <2> QED BY <1>1, <2>1
<1>3. CASE Drained(p) \/ Route(p) \/ SettleGivesUp(p) \/ CompleteGivesUp(p)
  <2>1. Quiet
    BY <1>0, <1>3 DEF Drained, Route, SettleGivesUp, CompleteGivesUp, Goto, CallRecord, Walk
  <2> QED BY <1>1, <2>1
<1>4. CASE RouteEnds(p) \/ AdmitRefused(p) \/ RecordLinkLocked(p) \/ CapacityRaises(p)
  <2>1. Quiet
    <3>1. /\ UNCHANGED <<ledger, pending, replay>>
          /\ \E r, n : ChainEnds(p, call[p], r, n) \/ ChainRaises(p, call[p], n)
      BY <1>4 DEF RouteEnds, AdmitRefused, RecordLinkLocked, CapacityRaises
    <3>2. call[p].pc \in Walk
      BY <1>4 DEF RouteEnds, AdmitRefused, RecordLinkLocked, CapacityRaises, Walk
    <3> QED BY <1>0, <3>1, <3>2, ChainKeeps DEF Walk
  <2> QED BY <1>1, <2>1
<1>5. CASE RecordLink(p)
  <2>1. Quiet
    <3>1. /\ UNCHANGED <<ledger, pending, replay>>
          /\ \/ \E r, n : ChainEnds(p, call[p], r, n)
             \/ call' = [call EXCEPT ![p] = [call[p] EXCEPT !.pc = "route", !.heard = "free"]]
      BY <1>5 DEF RecordLink
    <3>2. CASE \E r, n : ChainEnds(p, call[p], r, n)
      BY <1>0, <3>1, <3>2, ChainKeeps DEF Walk
    <3>3. CASE call' = [call EXCEPT ![p] = [call[p] EXCEPT !.pc = "route", !.heard = "free"]]
      BY <1>0, <3>1, <3>3 DEF CallRecord, Walk
    <3> QED BY <3>1, <3>2, <3>3
  <2> QED BY <1>1, <2>1
<1>6. CASE Send(p) \/ Receive(p) \/ AnswerLost(p)
  <2>1. Quiet
    BY <1>0, <1>6 DEF Send, Receive, AnswerLost, Goto, CallRecord, Walk
  <2> QED BY <1>1, <2>1
<1>7. CASE Admit(p) \/ AdmitGivesUp(p)
  BY <1>7, AdmissionKeeps
<1>8. CASE Settle(p) \/ \E ok \in BOOLEAN : RecordSettlement(p, ok) \/ RecordVoid(p, ok)
  BY <1>8, TellingKeeps
<1>9. CASE Complete(p) \/ Exit(p) \/ Release(p)
  <2>1. Quiet
    BY <1>0, <1>9 DEF Complete, Exit, Release, Leave, Walk
  <2> QED BY <1>1, <2>1
<1>10. CASE \E ok \in BOOLEAN : RecordHolder(p, ok) \/ Abandon(p, ok)
  <2>1. Quiet
    BY <1>0, <1>10 DEF RecordHolder, Abandon, Goto, Leave, CallRecord, Walk
  <2> QED BY <1>1, <2>1
<1>11. CASE ReclaimStep(p)
  <2>1. Quiet
    <3>1. call[p].pc \in {"reclaim", "free", "unlink"} /\ UNCHANGED <<ledger, pending, replay>>
      <4>1. CASE ReclaimPick(p)
        BY <4>1, Zenon DEF ReclaimPick
      <4>3. CASE ReclaimCommit(p) \/ ReclaimUnlink(p)
        BY <4>3, Zenon DEF ReclaimCommit, ReclaimUnlink
      <4>2. CASE ReclaimUnrecorded(p) \/ ReclaimEnds(p)
        BY <4>2 DEF ReclaimUnrecorded, ReclaimEnds
      <4> QED BY <1>11, <4>1, <4>2, <4>3 DEF ReclaimStep
    <3>2. ASSUME ReclaimPick(p) PROVE \A q \in Callers \ {p} : call'[q] = call[q]
      BY <1>0, <3>2 DEF ReclaimPick
    <3>3. ASSUME ReclaimCommit(p) PROVE \A q \in Callers \ {p} : call'[q] = call[q]
      BY <1>0, <3>3 DEF ReclaimCommit
    <3>4. ASSUME ReclaimUnlink(p) \/ ReclaimUnrecorded(p) \/ ReclaimEnds(p)
          PROVE  \A q \in Callers \ {p} : call'[q] = call[q]
      BY <1>0, <3>4 DEF ReclaimUnlink, ReclaimUnrecorded, ReclaimEnds, Leave
    <3>5. \A q \in Callers \ {p} : call'[q] = call[q]
      BY <1>11, <3>2, <3>3, <3>4 DEF ReclaimStep
    <3> QED BY <3>1, <3>5 DEF Walk
  <2> QED BY <1>1, <2>1
<1>12. CASE Die(p)
  <2>1. Quiet
    BY <1>0, <1>12 DEF Die, Leave, NewCall, NoReplay
  <2> QED BY <1>1, <2>1
<1> QED BY <1>2, <1>3, <1>4, <1>5, <1>6, <1>7, <1>8, <1>9, <1>10, <1>11, <1>12 DEF CallStep

(* A replay is done with a record only when its admission is settled.        *)
LEMMA ReplayStepKeeps ==
    ASSUME CallInv, Keepers, NEW x \in Callers \cup Others, ReplayStep(x), setting' = setting
    PROVE  Keepers'
<1>0. /\ replay \in [Callers \cup Others -> ReplayRecord]
      /\ settled \in [Attempts -> Amounts \cup {Unset}] /\ admitted \subseteq Attempts
      /\ Amounts \subseteq Nat
  BY BooksFacts, AmountBounds
<1>1. CASE StartReplay(x) \/ ReplayStops(x)
  <2>1. /\ UNCHANGED <<admitted, call, settled, pending>>
        /\ \A y \in Callers \cup Others : replay'[y] = replay[y] \/ replay'[y].written = FALSE
    BY <1>0, <1>1 DEF StartReplay, ReplayStops, ledger, NoReplay
  <2> QED BY <2>1, BooksKeep
<1>2. CASE Replay(x)
  <2> DEFINE a == replay[x].attempt
  <2>1. /\ UNCHANGED <<admitted, call, pending>>
        /\ \A y \in Callers \cup Others : y # x => replay'[y] = replay[y]
        /\ replay'[x].attempt = a
        /\ IF a \in admitted THEN LedgerSettle(a, replay[x].amount) ELSE settled' = settled
    BY <1>0, <1>2 DEF Replay, ReplayRecord
  <2>2. /\ \A b \in Attempts : settled'[b] = settled[b] \/ settled'[b] # Unset
        /\ a \in admitted => settled'[a] # Unset
    BY <1>0, <2>1 DEF LedgerSettle, ReplayRecord, Unset
  <2> QED BY <2>1, <2>2, BooksKeep
<1>3. CASE ReplayUnlink(x)
  <2>1. /\ UNCHANGED <<admitted, call, settled>> /\ replay[x].written
        /\ \A y \in Callers \cup Others : replay'[y] = replay[y] \/ replay'[y].written = FALSE
        /\ \A r \in pending : r \in pending' \/ r.attempt = replay[x].attempt
    BY <1>0, <1>3 DEF ReplayUnlink, ledger, NoReplay
  <2>2. CASE ~DiskFails
    <3>1. ~Open(replay[x].attempt)
      BY <2>1, <2>2 DEF Keepers
    <3> QED BY <2>1, <3>1, BooksKeep
  <2>3. CASE DiskFails
    BY <2>3 DEF Keepers, DiskFails
  <2> QED BY <2>2, <2>3
<1> QED BY <1>1, <1>2, <1>3 DEF ReplayStep

(* Nobody else touches a record, and the operator only settles.              *)
LEMMA OtherStepKeeps ==
    ASSUME CallInv, Keepers, setting' = setting,
           \/ \E a \in Attempts : BrokerEnds(a)
           \/ Lapse
           \/ OperatorStep
           \/ UNCHANGED vars
    PROVE  Keepers'
<1>0. /\ settled \in [Attempts -> Amounts \cup {Unset}] /\ Amounts \subseteq Nat
      /\ op \in OpRecord
  BY BooksFacts, AmountBounds
<1>4. /\ UNCHANGED <<admitted, call, pending, replay>>
      /\ settled' = settled \/ LedgerSettle(op.attempt, op.amount)
  <2>1. CASE (\E a \in Attempts : BrokerEnds(a)) \/ Lapse \/ UNCHANGED vars
    BY <2>1 DEF BrokerEnds, Lapse, ledger, vars
  <2>2. CASE PlanOrphan
    BY <2>2 DEF PlanOrphan, ledger
  <2>3. CASE ApplyOrphan \/ OperatorStops
    BY <2>3 DEF ApplyOrphan, OperatorStops, ledger
  <2>4. CASE \E p \in Callers, a \in Attempts : RecoverReserve(p, a) \/ RecoverUndispatched(p, a)
    BY <2>4 DEF RecoverReserve, RecoverUndispatched, ledger
  <2>5. CASE RecoverSettle
    BY <2>5 DEF RecoverSettle
  <2>6. CASE RecoverReconcile
    BY <2>6 DEF RecoverReconcile, ledger
  <2> QED BY <2>1, <2>2, <2>3, <2>4, <2>5, <2>6 DEF OperatorStep
<1>1. UNCHANGED <<admitted, call, pending, replay>>
  BY <1>4
<1>2. settled' = settled \/ LedgerSettle(op.attempt, op.amount)
  BY <1>4
<1>3. \A a \in Attempts : settled'[a] = settled[a] \/ settled'[a] # Unset
  BY <1>0, <1>2 DEF LedgerSettle, OpRecord, Unset
<1> QED BY <1>1, <1>3, BooksKeep

(* As long as the disk can be written, an open admission has a live call at  *)
(* work on it, a dead one, or a pending record that will close it, whoever   *)
(* else calls, replays, reclaims or recovers: nothing is left for no one to  *)
(* settle.                                                                   *)
THEOREM OpenAdmissionsAreKept == Spec => []OpenHasKeeper
<1>1. Init => Keepers
  BY DEF Init, Keepers, Open, NoReplay
<1>2. CallInv /\ Keepers /\ [Next]_<<vars, setting>> => Keepers'
  <2> SUFFICES ASSUME CallInv, Keepers, [Next]_<<vars, setting>> PROVE Keepers'
    OBVIOUS
  <2>1. ASSUME NEW x \in Callers \cup setting.others PROVE x \in Callers \cup Others
    BY BooksFacts, SettingsFacts
  <2> QED BY <2>1, CallStepKeeps, ReplayStepKeeps, OtherStepKeeps DEF Next
<1>3. CallInv /\ Keepers => OpenHasKeeper
  <2> SUFFICES ASSUME CallInv, Keepers, ~DiskFails, NEW a \in admitted, settled[a] = Unset
               PROVE  \/ \E p \in Callers : call[p].attempt = a
                                            /\ (Working(p) \/ call[p].pc = "dead")
                      \/ \E r \in pending : r.attempt = a
    BY DEF OpenHasKeeper
  <2>1. Kept(a)
    BY BooksFacts DEF Keepers, Open
  <2>2. \A p \in Callers : call[p].pc \in Walk => Working(p)
    BY DEF Working, Walk, Steps
  <2> QED BY <2>1, <2>2 DEF Kept, Keeps
<1> QED BY <1>1, <1>2, <1>3, CallInvariant, PTL DEF Spec

-----------------------------------------------------------------------------
(* A reserved lease can be recovered *)

(* What Completed asks, but for the operator: the lease of a dead process,   *)
(* and one metered call under it.                                            *)
Provable(p, a) ==
    /\ Operator
    /\ call[p].pc = "dead" /\ call[p].attempt = a
    /\ work.state = "leased" /\ work.attempt = a
    /\ routes = [b \in Attempts |-> IF b = a THEN 1 ELSE 0]
    /\ a \in admitted
    /\ broker[a].state = "served" /\ ~broker[a].dirty
    /\ broker[a].cost <= Reserve

(* No lease was expired on elapsed time alone.                               *)
Clean == \A a \in Attempts : ~Unrecorded(a)

(* The proof a reservation was made on stays good, and the recovery that     *)
(* made it has the lease.                                                    *)
Recoverable ==
    /\ Clean /\ work.reserved => \E p \in Callers : Provable(p, work.attempt)
    /\ op.pc \in {"recover", "reconcile"} =>
          work.state = "leased" /\ work.attempt = op.attempt /\ work.reserved

(* A call leaves the operator alone, and four of its steps the schedule not. *)
LEMMA CallStepLeaves ==
    ASSUME NEW p \in Callers, Start(p) \/ CallStep(p) \/ ReclaimStep(p) \/ Die(p)
    PROVE  /\ op' = op
           /\ \/ UNCHANGED <<work, outcome>>
              \/ Ask(p) \/ Complete(p) \/ ReclaimCommit(p) \/ ReclaimUnrecorded(p)
<1>1. ASSUME Start(p) PROVE UNCHANGED <<work, outcome, op>>
  BY <1>1, Zenon DEF Start, scheduler
<1>2. ASSUME Die(p) PROVE UNCHANGED <<work, outcome, op>>
  BY <1>2, Zenon DEF Die, scheduler
<1>3. ASSUME ReclaimPick(p) \/ ReclaimUnlink(p) \/ ReclaimEnds(p)
      PROVE  UNCHANGED <<work, outcome, op>>
  BY <1>3, Zenon DEF ReclaimPick, ReclaimUnlink, ReclaimEnds, scheduler
<1>4. ASSUME Drained(p) \/ Route(p) \/ RouteEnds(p) \/ Admit(p) \/ AdmitRefused(p)
             \/ AdmitGivesUp(p)
      PROVE  UNCHANGED <<work, outcome, op>>
  BY <1>4, Zenon DEF Drained, Route, RouteEnds, Admit, AdmitRefused, AdmitGivesUp, scheduler
<1>5. ASSUME Send(p) \/ Receive(p) \/ AnswerLost(p) \/ RecordLinkLocked(p) \/ CapacityRaises(p)
      PROVE  UNCHANGED <<work, outcome, op>>
  BY <1>5, Zenon DEF Send, Receive, AnswerLost, RecordLinkLocked, CapacityRaises, scheduler
<1>6. ASSUME RecordLink(p) \/ Settle(p) \/ SettleGivesUp(p) \/ CompleteGivesUp(p) \/ Exit(p)
             \/ Release(p)
      PROVE  UNCHANGED <<work, outcome, op>>
  BY <1>6, Zenon DEF RecordLink, Settle, SettleGivesUp, CompleteGivesUp, Exit, Release, scheduler
<1>7. ASSUME NEW ok \in BOOLEAN,
             RecordHolder(p, ok) \/ RecordVoid(p, ok) \/ RecordSettlement(p, ok) \/ Abandon(p, ok)
      PROVE  UNCHANGED <<work, outcome, op>>
  BY <1>7, Zenon DEF RecordHolder, RecordVoid, RecordSettlement, Abandon, scheduler
<1>8. ASSUME Ask(p) \/ Complete(p) \/ ReclaimCommit(p) \/ ReclaimUnrecorded(p) PROVE op' = op
  BY <1>8, Zenon DEF Ask, Complete, ReclaimCommit, ReclaimUnrecorded
<1> QED BY <1>1, <1>2, <1>3, <1>4, <1>5, <1>6, <1>7, <1>8 DEF CallStep, ReclaimStep

(* An outcome stands: only the leased attempt is ended.                      *)
LEMMA CleanBefore ==
    ASSUME CallInv, [Next]_<<vars, setting>> PROVE Clean' => Clean
<1>1. outcome' = outcome \/ \E a \in Attempts : \E o : EndAttempt(a, o) /\ outcome[a] = "none"
  <2>0. work.state = "leased" => work.attempt \in Attempts /\ outcome[work.attempt] = "none"
    BY DEF CallInv, Stores, Shapes, TypeOK, Schedule
  <2>1. ASSUME NEW p \in Callers, Complete(p)
        PROVE  \/ outcome' = outcome
               \/ \E a \in Attempts : \E o : EndAttempt(a, o) /\ outcome[a] = "none"
    BY <2>0, <2>1 DEF Complete, Leased, scheduler
  <2>2. ASSUME NEW p \in Callers, ReclaimCommit(p)
        PROVE  \/ outcome' = outcome
               \/ \E a \in Attempts : \E o : EndAttempt(a, o) /\ outcome[a] = "none"
    BY <2>0, <2>2 DEF ReclaimCommit, Leased, scheduler
  <2>3. ASSUME NEW p \in Callers, ReclaimUnrecorded(p)
        PROVE  \E a \in Attempts : \E o : EndAttempt(a, o) /\ outcome[a] = "none"
    BY <2>0, <2>3 DEF ReclaimUnrecorded, Leased
  <2>4. ASSUME NEW p \in Callers, Start(p) \/ CallStep(p) \/ ReclaimStep(p) \/ Die(p),
               ~Complete(p), ~ReclaimCommit(p), ~ReclaimUnrecorded(p)
        PROVE  outcome' = outcome
    <3>1. CASE Ask(p)
      BY <3>1 DEF Ask
    <3>2. CASE ~Ask(p)
      BY <2>4, <3>2, CallStepLeaves
    <3> QED BY <3>1, <3>2
  <2>5. ASSUME NEW x, ReplayStep(x) PROVE outcome' = outcome
    BY <2>5 DEF ReplayStep, StartReplay, Replay, ReplayUnlink, ReplayStops, scheduler
  <2>6. ASSUME NEW a \in Attempts, BrokerEnds(a) PROVE outcome' = outcome
    BY <2>6 DEF BrokerEnds, scheduler
  <2>7. CASE Lapse
    BY <2>0, <2>7 DEF Lapse, Leased
  <2>8. ASSUME OperatorStep
        PROVE  \/ outcome' = outcome
               \/ \E a \in Attempts : \E o : EndAttempt(a, o) /\ outcome[a] = "none"
    <3>1. CASE PlanOrphan
      BY <3>1, Zenon DEF PlanOrphan, scheduler
    <3>2. CASE ApplyOrphan \/ RecoverSettle \/ OperatorStops
      BY <3>2 DEF ApplyOrphan, RecoverSettle, OperatorStops, scheduler
    <3>3. ASSUME NEW p \in Callers, NEW a \in Attempts, RecoverReserve(p, a)
          PROVE  outcome' = outcome
      BY <3>3 DEF RecoverReserve
    <3>4. ASSUME NEW p \in Callers, NEW a \in Attempts, RecoverUndispatched(p, a)
          PROVE  EndAttempt(a, "undispatched") /\ outcome[a] = "none"
      BY <2>0, <3>4 DEF RecoverUndispatched, Interrupted
    <3>5. CASE RecoverReconcile
      BY <2>0, <3>5 DEF RecoverReconcile
    <3> QED BY <2>8, <3>1, <3>2, <3>3, <3>4, <3>5 DEF OperatorStep
  <2>9. CASE UNCHANGED <<vars, setting>>
    BY <2>9 DEF vars, scheduler
  <2>10. CASE Next
    BY <2>1, <2>2, <2>3, <2>4, <2>5, <2>6, <2>7, <2>8, <2>10 DEF Next
  <2> QED BY <2>9, <2>10
<1>2. outcome \in [Attempts -> Results \cup {"none", "lapsed", "expired", "recovered",
                                             "undispatched", "unrecorded"}]
  BY DEF CallInv, Stores, Shapes, TypeOK
<1>3. \A b \in Attempts : outcome[b] = "unrecorded" => outcome'[b] = "unrecorded"
  BY <1>1, <1>2 DEF EndAttempt
<1>4. setting' = setting
  BY DEF Next
<1> QED BY <1>3, <1>4 DEF Clean, Unrecorded, DiskFails, Attempts

(* Nobody works under a reserved lease.                                      *)
LEMMA ReservedIdle ==
    ASSUME CallInv, Clean, work.reserved PROVE \A p \in Callers : ~Working(p)
  BY WorkerLeased DEF Clean, Leased

(* A step that leaves the reservation and what it was proved by.             *)
LEMMA RecoverableStays ==
    ASSUME Recoverable, Clean' => Clean, setting' = setting, UNCHANGED <<work, routes>>,
           op' = op \/ op'.pc \notin {"recover", "reconcile"},
           admitted \subseteq admitted',
           \A a \in Attempts : broker[a].state = "served" => broker'[a] = broker[a],
           \A p \in Callers : call[p].pc = "dead" => call'[p] = call[p],
           work.attempt \in Attempts
    PROVE  Recoverable'
<1>1. \A p \in Callers : Provable(p, work.attempt) => Provable(p, work.attempt)'
  BY DEF Provable, Operator, Attempts
<1> QED BY <1>1 DEF Recoverable

(* A call moves only while no lease is reserved, and reserves none.          *)
LEMMA CallStepRecoverable ==
    ASSUME CallInv, Recoverable, Clean' => Clean, NEW p \in Callers,
           Start(p) \/ CallStep(p) \/ ReclaimStep(p) \/ Die(p), setting' = setting
    PROVE  Recoverable'
<1>0. /\ call \in [Callers -> CallRecord]
      /\ work \in [state : {"ready", "leased", "done"}, attempt : Attempts, reserved : BOOLEAN]
      /\ work.reserved => work.state = "leased"
  BY DEF CallInv, Stores, Shapes, TypeOK, Schedule
<1>1. op' = op
  BY CallStepLeaves
<1>2. CASE ~work.reserved
  <2>1. ~work'.reserved
    <3>1. CASE Ask(p)
      BY <1>0, <1>2, <3>1 DEF Ask
    <3>2. CASE Complete(p) \/ ReclaimCommit(p) \/ ReclaimUnrecorded(p)
      BY <1>2, <3>2 DEF Complete, ReclaimCommit, ReclaimUnrecorded, EndAttempt, scheduler
    <3>3. CASE ~Ask(p) /\ ~Complete(p) /\ ~ReclaimCommit(p) /\ ~ReclaimUnrecorded(p)
      <4>1. work' = work
        BY <3>3, CallStepLeaves
      <4> QED BY <1>2, <4>1
    <3> QED BY <3>1, <3>2, <3>3
  <2>2. op.pc \notin {"recover", "reconcile"}
    BY <1>2 DEF Recoverable
  <2> QED BY <1>1, <2>1, <2>2 DEF Recoverable
<1>3. CASE work.reserved /\ ~Clean
  <2>1. UNCHANGED work
    <3>1. CASE Ask(p) \/ Complete(p) \/ ReclaimCommit(p) \/ ReclaimUnrecorded(p)
      BY <1>0, <1>3, <3>1 DEF Ask, Complete, ReclaimCommit, ReclaimUnrecorded, Leased, scheduler
    <3>2. CASE ~Ask(p) /\ ~Complete(p) /\ ~ReclaimCommit(p) /\ ~ReclaimUnrecorded(p)
      BY <3>2, CallStepLeaves
    <3> QED BY <3>1, <3>2
  <2> QED BY <1>1, <1>3, <2>1 DEF Recoverable
<1>4. CASE work.reserved /\ Clean
  <2>1. call[p].pc \notin Steps
    BY <1>4, ReservedIdle DEF Working
  <2>2. Start(p) \/ Ask(p) \/ Release(p) \/ ReclaimStep(p) \/ Die(p)
    BY <2>1 DEF CallStep, Drained, Route, RouteEnds, Admit, AdmitRefused, AdmitGivesUp, Send,
           Receive, AnswerLost, RecordLink, RecordLinkLocked, CapacityRaises, Settle,
           SettleGivesUp, Complete, CompleteGivesUp, Exit, RecordHolder, RecordVoid,
           RecordSettlement, Abandon, Steps
  <2>3. UNCHANGED <<work, routes, broker, admitted>>
    <3>1. CASE Start(p)
      BY <3>1, Zenon DEF Start, scheduler, wire, ledger
    <3>2. CASE Ask(p)
      BY <1>0, <1>4, <3>2 DEF Ask, wire, ledger
    <3>3. CASE Release(p) \/ Die(p) \/ ReclaimPick(p) \/ ReclaimUnlink(p) \/ ReclaimEnds(p)
      BY <3>3, Zenon DEF Release, Die, ReclaimPick, ReclaimUnlink, ReclaimEnds, scheduler, wire,
             ledger
    <3>4. ASSUME ReclaimCommit(p) PROVE UNCHANGED <<work, routes, broker, admitted>>
      <4>1. ~Leased(call[p].seen)
        BY <1>4 DEF Leased
      <4> QED BY <3>4, <4>1, Zenon DEF ReclaimCommit, scheduler, wire, ledger
    <3>5. ~ReclaimUnrecorded(p)
      BY <1>4 DEF ReclaimUnrecorded, Leased
    <3> QED BY <2>2, <3>1, <3>2, <3>3, <3>4, <3>5 DEF ReclaimStep
  <2>4. /\ call[p].pc # "dead"
        /\ \A q \in Callers \ {p} : call'[q] = call[q]
    <3>1. CASE Start(p)
      BY <1>0, <3>1 DEF Start
    <3>2. CASE Ask(p)
      BY <1>0, <3>2 DEF Ask, Goto
    <3>3. CASE Release(p) \/ Die(p) \/ ReclaimUnlink(p) \/ ReclaimEnds(p) \/ ReclaimUnrecorded(p)
      <4>1. call[p].pc # "dead" /\ \E pc : Leave(p, pc)
        BY <3>3 DEF Release, Die, ReclaimUnlink, ReclaimEnds, ReclaimUnrecorded
      <4> QED BY <1>0, <4>1, LeavesOthers
    <3>4. CASE ReclaimPick(p)
      BY <1>0, <3>4 DEF ReclaimPick
    <3>5. CASE ReclaimCommit(p)
      BY <1>0, <3>5 DEF ReclaimCommit
    <3> QED BY <2>2, <3>1, <3>2, <3>3, <3>4, <3>5 DEF ReclaimStep
  <2>5. work.attempt \in Attempts
    BY <1>0
  <2> QED BY <1>1, <2>3, <2>4, <2>5, RecoverableStays
<1> QED BY <1>2, <1>3, <1>4

(* The operator reserves on a proof, and ends what it has reserved.          *)
LEMMA OperatorStepRecoverable ==
    ASSUME CallInv, Recoverable, Clean' => Clean, OperatorStep, setting' = setting
    PROVE  Recoverable'
<1>0. op \in OpRecord /\ work.attempt \in Attempts
      /\ work \in [state : {"ready", "leased", "done"}, attempt : Attempts, reserved : BOOLEAN]
  BY DEF CallInv, Stores, Shapes, TypeOK
<1>1. CASE PlanOrphan \/ ApplyOrphan \/ OperatorStops
  <2>1. CASE PlanOrphan
    <3>1. UNCHANGED <<work, routes, broker, admitted, call>>
      BY <2>1 DEF PlanOrphan, scheduler, wire, ledger
    <3>2. \E a, n : op' = [NewOp EXCEPT !.pc = "apply", !.attempt = a, !.amount = n]
      BY <2>1, Zenon DEF PlanOrphan
    <3>3. op'.pc = "apply"
      BY <3>2 DEF NewOp
    <3> QED BY <1>0, <3>1, <3>3, RecoverableStays
  <2>2. CASE ApplyOrphan \/ OperatorStops
    <3>1. /\ UNCHANGED <<work, routes, broker, admitted, call>>
          /\ op'.pc \notin {"recover", "reconcile"}
      BY <2>2 DEF ApplyOrphan, OperatorStops, NewOp, scheduler, wire, ledger
    <3> QED BY <1>0, <3>1, RecoverableStays
  <2> QED BY <1>1, <2>1, <2>2
<1>2. ASSUME NEW p \in Callers, NEW a \in Attempts, RecoverReserve(p, a) PROVE Recoverable'
  <2>1. /\ work' = [work EXCEPT !.reserved = TRUE] /\ work.attempt = a
        /\ work.state = "leased"
        /\ op'.pc = "recover" /\ op'.attempt = a
        /\ UNCHANGED <<call, admitted, routes, broker>>
        /\ Provable(p, a)
    BY <1>2 DEF RecoverReserve, Completed, Interrupted, Provable, wire, ledger
  <2>2. Provable(p, a)' /\ work'.attempt = a /\ work'.state = "leased" /\ work'.reserved
    BY <1>0, <2>1 DEF Provable, Operator, Attempts
  <2> QED BY <2>1, <2>2 DEF Recoverable
<1>3. ASSUME NEW p \in Callers, NEW a \in Attempts, RecoverUndispatched(p, a) PROVE Recoverable'
  <2>1. ~work'.reserved /\ op' = op /\ op.pc = "idle"
    BY <1>3 DEF RecoverUndispatched, Interrupted, EndAttempt
  <2> QED BY <2>1 DEF Recoverable
<1>4. CASE RecoverSettle
  <2>1. /\ UNCHANGED <<work, routes, broker, admitted, call>>
        /\ op.pc = "recover"
        /\ (op'.pc = "reconcile" /\ op'.attempt = op.attempt) \/ op' = NewOp
    BY <1>0, <1>4 DEF RecoverSettle, OpRecord, scheduler, wire
  <2>2. \A p \in Callers : Provable(p, work.attempt) => Provable(p, work.attempt)'
    BY <2>1 DEF Provable, Operator, Attempts
  <2> QED BY <2>1, <2>2 DEF Recoverable, NewOp
<1>5. CASE RecoverReconcile
  <2>1. ~work'.reserved /\ op' = NewOp
    BY <1>5 DEF RecoverReconcile, EndAttempt
  <2> QED BY <2>1 DEF Recoverable, NewOp
<1> QED BY <1>1, <1>2, <1>3, <1>4, <1>5 DEF OperatorStep

(* Nobody else reserves a lease or ends a reserved one.                      *)
LEMMA OtherStepRecoverable ==
    ASSUME CallInv, Recoverable, Clean' => Clean, setting' = setting,
           \/ \E x \in Callers \cup Others : ReplayStep(x)
           \/ \E a \in Attempts : BrokerEnds(a)
           \/ Lapse
           \/ UNCHANGED vars
    PROVE  Recoverable'
<1>0. work.attempt \in Attempts /\ broker \in [Attempts -> JournalRecord]
  BY DEF CallInv, Stores, Shapes, TypeOK
<1>1. CASE (\E x \in Callers \cup Others : ReplayStep(x)) \/ UNCHANGED vars
  <2>1. UNCHANGED <<work, routes, broker, admitted, call, op>>
    BY <1>1 DEF ReplayStep, StartReplay, Replay, ReplayUnlink, ReplayStops, scheduler, wire,
           ledger, vars
  <2> QED BY <1>0, <2>1, RecoverableStays
<1>2. ASSUME NEW a \in Attempts, BrokerEnds(a) PROVE Recoverable'
  <2>1. /\ UNCHANGED <<work, routes, admitted, call, op>>
        /\ broker[a].state = "running"
        /\ \A b \in Attempts \ {a} : broker'[b] = broker[b]
    BY <1>0, <1>2 DEF BrokerEnds, scheduler, ledger
  <2> QED BY <1>0, <2>1, RecoverableStays
<1>3. CASE Lapse
  <2>1. ~work.reserved /\ ~work'.reserved /\ op' = op
    BY <1>3 DEF Lapse, Leased, EndAttempt
  <2> QED BY <2>1 DEF Recoverable
<1> QED BY <1>1, <1>2, <1>3

(* A recovery that was interrupted can be begun again, and comes to its end  *)
(* unless the ledger was settled at another amount than the broker metered:  *)
(* at the whole reservation for a cost that was not known, or when a walk    *)
(* raised after an exchange.  One under way is not disturbed.  So the order  *)
(* in which recover reads, reserves, settles and reconciles loses nothing    *)
(* else, whatever happens between two of them.                               *)
THEOREM RecoveriesRepeat == Spec => []RecoveryCanBeRepeated
<1>1. Init => Recoverable
  BY DEF Init, Recoverable, NewOp
<1>2. CallInv /\ Recoverable /\ [Next]_<<vars, setting>> => Recoverable'
  <2> SUFFICES ASSUME CallInv, Recoverable, [Next]_<<vars, setting>> PROVE Recoverable'
    OBVIOUS
  <2>1. ASSUME NEW x \in Callers \cup setting.others PROVE x \in Callers \cup Others
    BY BooksFacts, SettingsFacts
  <2>2. Clean' => Clean
    BY CleanBefore
  <2> QED BY <2>1, <2>2, CallStepRecoverable, OperatorStepRecoverable, OtherStepRecoverable
          DEF Next
<1>3. CallInv /\ Metered /\ Recoverable => RecoveryCanBeRepeated
  <2> SUFFICES ASSUME CallInv, Metered, Recoverable PROVE RecoveryCanBeRepeated
    OBVIOUS
  <2> DEFINE a == work.attempt
  <2>1. ASSUME work.reserved, op.pc = "idle", Clean
        PROVE  /\ \E p \in Callers : Completed(p, a)
               /\ settled[a] \in {Unset, broker[a].cost} \/ CannotAgree(a)
    <3>1. PICK p \in Callers : Provable(p, a)
      BY <2>1 DEF Recoverable
    <3>2. Completed(p, a)
      BY <2>1, <3>1 DEF Provable, Completed, Interrupted
    <3>3. a \in Attempts /\ outcome[a] = "none"
      BY <3>1 DEF Provable, CallInv, Stores, Shapes, TypeOK, Schedule
    <3>4. routes[a] = 1 /\ broker[a].state = "served" /\ ~broker[a].dirty
      BY <3>1, <3>3 DEF Provable
    <3>5. ~Loose(a)
      BY <3>3, <3>4 DEF Loose
    <3>6. owed[a] = broker[a].cost
      BY <3>3, <3>4 DEF Metered, Endings
    <3>7. settled[a] # Unset => Final(a, settled[a])
      BY <2>1, <3>3, BooksFacts DEF Clean, Truthful
    <3> QED BY <3>2, <3>5, <3>6, <3>7 DEF Final, CannotAgree
  <2> QED BY <2>1 DEF Recoverable, RecoveryCanBeRepeated, Clean
<1> QED BY <1>1, <1>2, <1>3, CallInvariant, PTL DEF Spec

(* Nothing is left without somebody who can end it but what RecoveriesRepeat *)
(* names: no open admission while the disk can be written, and no lease the  *)
(* operator has reserved.                                                    *)
THEOREM NothingIsStranded == Spec => []NothingStranded
<1>1. OpenHasKeeper /\ RecoveryCanBeRepeated => NothingStranded
  BY DEF NothingStranded
<1> QED BY <1>1, OpenAdmissionsAreKept, RecoveriesRepeat, PTL

=============================================================================
