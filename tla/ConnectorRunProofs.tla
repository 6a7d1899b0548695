------------------------- MODULE ConnectorRunProofs -------------------------
(***************************************************************************)
(* Theorems about connector calls: what a call costs, what the scheduler    *)
(* and the journal are told of it, and which recoveries are never refused,  *)
(* for any number of requests, attempts and slots.                          *)
(***************************************************************************)
EXTENDS ConnectorRun, FiniteSetTheorems, TLAPS

-----------------------------------------------------------------------------
(* The invariant, request by request *)

Early == {"admitted", "local", "refused", "ended", "settled_ended", "local_again", "held"}
Named == {"journaled", "full", "full_released", "full_settled", "sink", "dispatched"}
Sent  == {"started", "calling", "answered", "shared_settled"}
Committing == {"attempt", "usage", "cost", "settle", "complete", "respond"}

Unsent == {"none", "admitted", "reserved", "released_recovered"}

(* Where the executor is, the journal has been.                              *)
Executor(r) ==
    /\ run[r].at \in Early => journal[r] = "admitted"
    /\ run[r].at \in Named => journal[r] \in {"reserved", "released_recovered"}
    /\ run[r].at \in Sent => journal[r] \in {"transport_started", "indeterminate_recovered"}
    /\ run[r].at \in Committing => journal[r] \in {"observed", "responded"}
    /\ run[r].at \in Named \cup Sent \cup Committing => run[r].n = payload[r].n
    /\ run[r].at \notin {"idle", "admitted"} => run[r].n \in Attempts
    /\ journal[r] \in {"none", "admitted"} <=> payload[r].n = 0

(* Whose work the recovery does, and what it has at least seen journaled.    *)
Recovery(r) ==
    /\ fix[r].at \in {"idle", "release", "free"} => fix[r].by = "none"
    /\ fix[r].at = "unknown" => fix[r].by = "recovery"
    /\ fix[r].at \in {"attempt", "usage", "cost", "settle"} => fix[r].by \in {"commit", "recovery"}
    /\ fix[r].at = "complete" => fix[r].by = "commit"
    /\ fix[r].at # "idle" => payload[r].n # 0
    /\ fix[r].by = "commit" => journal[r] \in {"observed", "responded"}
    /\ ~LiveRecovery /\ fix[r].at # "idle" => run[r].at = "idle"
    /\ ~LiveRecovery /\ fix[r].at # "idle" /\ fix[r].by = "none" => journal[r] = "reserved"

(* A call was made after its start was journaled, once, and under the        *)
(* reservation the journal names; so is a settled row of the account.        *)
CallMade(r, n) ==
    /\ calls[<<r, n>>] > 0 \/ shared[<<r, n>>] = "settled" =>
          n = payload[r].n /\ journal[r] \notin Unsent /\ run[r].at # "started"
    /\ calls[<<r, n>>] <= 1

(* What is charged for one reservation.                                      *)
Charged(r, n) ==
    LET p == <<r, n>> IN
    /\ quota[p] = "released" => chain[p] = NoFacts
    /\ RecoveryHeld /\ quota[p] = "released" => calls[p] = 0
    /\ quota[p] = "consumed" => /\ n = payload[r].n
                                /\ journal[r] \in {"observed", "responded"}
                                /\ payload[r].out \in {"succeeded", "rate_limited"}
    /\ SharedPolicy /\ calls[p] > 0 => shared[p] \in {"dispatched", "settled"}
    /\ SharedPolicy /\ p \in atProvider => shared[p] = "dispatched" /\ calls[p] > 0
    /\ n = run[r].n =>
          /\ RecoveryHeld /\ run[r].at = "sink" =>
                \/ quota[p] # "released"
                \/ SharedPolicy /\ shared[p] \in {"released", "expired"}
          /\ run[r].at \in {"dispatched", "started"} =>
                /\ RecoveryHeld => quota[p] # "released"
                /\ SharedPolicy => shared[p] \in {"dispatched", "settled"}
          /\ run[r].at = "answered" /\ run[r].out \in Observations => p \notin atProvider
          /\ run[r].at = "full_settled" => quota[p] = "released"
    /\ n = payload[r].n =>
          /\ SharedPolicy /\ fix[r].at = "free" => shared[p] \in {"released", "expired"}
          /\ fix[r].at = "end" /\ fix[r].by = "none" => quota[p] = "released"
          /\ journal[r] = "released_recovered" => quota[p] = "released"
          /\ (fix[r].at = "end" /\ fix[r].by = "recovery") \/ journal[r] = "indeterminate_recovered"
                => chain[p].len = 3 /\ quota[p] = "indeterminate"

(* What has been told of a request, and what it rests on.                    *)
Closing(r) ==
    \/ run[r].at \in {"complete", "respond"}
    \/ fix[r].at \in {"complete", "end"} /\ fix[r].by = "commit"
    \/ completed[r]
    \/ journal[r] = "responded"
Closed(r) ==
    /\ Closing(r) => /\ journal[r] \in {"observed", "responded"}
                     /\ chain[Bound(r)] = [by |-> "commit", len |-> 3]
                     /\ quota[Bound(r)] = FinalState(payload[r].out)
    /\ run[r].at = "respond" \/ journal[r] = "responded" => completed[r]
    /\ fix[r].at = "end" /\ fix[r].by = "commit" => completed[r]

RequestInv(r) ==
    /\ Executor(r) /\ Recovery(r) /\ Closed(r)
    /\ \A n \in Attempts : CallMade(r, n) /\ Charged(r, n)

Slots == SharedPolicy => Cardinality(Holding) <= MaxConcurrency

(* The scan records facts of the reservation it has picked.                  *)
Scanning == scan.at \in {"attempt", "usage", "cost", "settle"} => scan.on \in Reservations

RunInv ==
    /\ TypeOK /\ Scanning
    /\ \A r \in Requests : RequestInv(r)
    /\ Slots

-----------------------------------------------------------------------------
(* The tables, entry by entry *)

RunRow == [at : RunSteps, n : 0 .. MaxAttempts, late : BOOLEAN, out : Outcomes \cup {"none"}]
FixRow == [at : FixSteps, by : {"none", "commit", "recovery"}]
QuotaStates == {"none", "open", "released", "indeterminate", "consumed"}
SharedStates == {"none", "reserved", "dispatched", "settled", "released", "expired"}
Facts == [by : {"none", "commit", "recovery", "orphan"}, len : 0 .. 3]

(* A reservation is a request and a number.                                  *)
LEMMA Pairs ==
    ASSUME NEW r \in Requests, NEW n \in Attempts
    PROVE  /\ <<r, n>> \in Reservations
           /\ <<r, n>>[1] = r /\ <<r, n>>[2] = n
           /\ \A s, m : <<r, n>> = <<s, m>> <=> r = s /\ n = m
  BY DEF Reservations

(* One entry of a table of reservations, and of a table of requests.         *)
LEMMA EntrySet ==
    ASSUME NEW T, NEW f \in [Reservations -> T], NEW r \in Requests, NEW m \in Attempts, NEW v \in T
    PROVE  /\ [f EXCEPT ![<<r, m>>] = v] \in [Reservations -> T]
           /\ \A s \in Requests, n \in Attempts :
                 [f EXCEPT ![<<r, m>>] = v][<<s, n>>]
                    = IF s = r /\ n = m THEN v ELSE f[<<s, n>>]
<1>1. [f EXCEPT ![<<r, m>>] = v] \in [Reservations -> T]
  OBVIOUS
<1>2. ASSUME NEW s \in Requests, NEW n \in Attempts
      PROVE  [f EXCEPT ![<<r, m>>] = v][<<s, n>>] = IF s = r /\ n = m THEN v ELSE f[<<s, n>>]
  BY Pairs
<1> QED BY <1>1, <1>2

LEMMA RowSet ==
    ASSUME NEW T, NEW f \in [Requests -> T], NEW r \in Requests, NEW v \in T
    PROVE  /\ [f EXCEPT ![r] = v] \in [Requests -> T]
           /\ \A s \in Requests : [f EXCEPT ![r] = v][s] = IF s = r THEN v ELSE f[s]
  OBVIOUS

(* The executor goes to a step; the recovery does.                           *)
RunAt(r, at, n, out) ==
    /\ run' \in [Requests -> RunRow]
    /\ run'[r].at = at /\ run'[r].n = n /\ run'[r].out = out
    /\ \A s \in Requests : s # r => run'[s] = run[s]

FixAt(r, at, by) ==
    /\ fix' \in [Requests -> FixRow]
    /\ fix'[r].at = at /\ fix'[r].by = by
    /\ \A s \in Requests : s # r => fix'[s] = fix[s]

LEMMA RunTypes ==
    ASSUME TypeOK, NEW r \in Requests
    PROVE  /\ run \in [Requests -> RunRow] /\ run[r] \in RunRow
           /\ run[r].at \in RunSteps /\ run[r].n \in 0 .. MaxAttempts
           /\ run[r].late \in BOOLEAN /\ run[r].out \in Outcomes \cup {"none"}
           /\ fix \in [Requests -> FixRow] /\ fix[r] \in FixRow
           /\ fix[r].at \in FixSteps /\ fix[r].by \in {"none", "commit", "recovery"}
<1>1. run \in [Requests -> RunRow] /\ fix \in [Requests -> FixRow]
  BY DEF TypeOK, RunRow, FixRow
<1>2. run[r] \in RunRow /\ fix[r] \in FixRow
  BY <1>1
<1> QED BY <1>1, <1>2 DEF RunRow, FixRow

LEMMA RunGoes ==
    ASSUME TypeOK, NEW r \in Requests, NEW step \in RunSteps, NEW n \in 0 .. MaxAttempts,
           NEW late \in BOOLEAN, NEW out \in Outcomes \cup {"none"},
           \/ Goto(r, step) /\ n = run[r].n /\ out = run[r].out
           \/ run' = [run EXCEPT ![r].at = step, ![r].n = n] /\ out = run[r].out
           \/ run' = [run EXCEPT ![r].at = step, ![r].late = late] /\ n = run[r].n /\ out = run[r].out
           \/ run' = [run EXCEPT ![r].at = step, ![r].out = out] /\ n = run[r].n
    PROVE  RunAt(r, step, n, out)
<1>1. run \in [Requests -> RunRow] /\ run[r] \in RunRow
  BY RunTypes
<1>2. ASSUME NEW row \in RunRow, run' = [run EXCEPT ![r] = row],
             row.at = step /\ row.n = n /\ row.out = out
      PROVE  RunAt(r, step, n, out)
  BY <1>1, <1>2, RowSet DEF RunAt
<1>3. CASE Goto(r, step) /\ n = run[r].n /\ out = run[r].out
  <2> DEFINE row == [run[r] EXCEPT !.at = step]
  <2>1. row \in RunRow /\ row.at = step /\ row.n = n /\ row.out = out
    BY <1>1, <1>3 DEF RunRow
  <2>2. run' = [run EXCEPT ![r] = row]
    BY <1>3 DEF Goto
  <2> QED BY <1>2, <2>1, <2>2
<1>4. CASE run' = [run EXCEPT ![r].at = step, ![r].n = n] /\ out = run[r].out
  <2> DEFINE row == [[run[r] EXCEPT !.at = step] EXCEPT !.n = n]
  <2>1. row \in RunRow /\ row.at = step /\ row.n = n /\ row.out = out
    BY <1>1, <1>4 DEF RunRow
  <2>2. run' = [run EXCEPT ![r] = row]
    BY <1>1, <1>4
  <2> QED BY <1>2, <2>1, <2>2
<1>5. CASE run' = [run EXCEPT ![r].at = step, ![r].late = late] /\ n = run[r].n /\ out = run[r].out
  <2> DEFINE row == [[run[r] EXCEPT !.at = step] EXCEPT !.late = late]
  <2>1. row \in RunRow /\ row.at = step /\ row.n = n /\ row.out = out
    BY <1>1, <1>5 DEF RunRow
  <2>2. run' = [run EXCEPT ![r] = row]
    BY <1>1, <1>5
  <2> QED BY <1>2, <2>1, <2>2
<1>6. CASE run' = [run EXCEPT ![r].at = step, ![r].out = out] /\ n = run[r].n
  <2> DEFINE row == [[run[r] EXCEPT !.at = step] EXCEPT !.out = out]
  <2>1. row \in RunRow /\ row.at = step /\ row.n = n /\ row.out = out
    BY <1>1, <1>6 DEF RunRow
  <2>2. run' = [run EXCEPT ![r] = row]
    BY <1>1, <1>6
  <2> QED BY <1>2, <2>1, <2>2
<1> QED BY <1>3, <1>4, <1>5, <1>6

LEMMA RunIdles ==
    ASSUME TypeOK, NEW r \in Requests, run' = [run EXCEPT ![r] = Idle]
    PROVE  RunAt(r, "idle", 0, "none")
<1>1. run \in [Requests -> RunRow]
  BY RunTypes
<1>2. Idle \in RunRow /\ Idle.at = "idle" /\ Idle.n = 0 /\ Idle.out = "none"
  BY ConnectorRunAssumption DEF RunRow, Idle, RunSteps
<1> QED BY <1>1, <1>2, RowSet DEF RunAt

LEMMA FixGoes ==
    ASSUME TypeOK, NEW r \in Requests, NEW step \in FixSteps, NEW by \in {"none", "commit", "recovery"},
           \/ FixGoto(r, step) /\ by = fix[r].by
           \/ fix' = [fix EXCEPT ![r] = [at |-> step, by |-> by]]
    PROVE  FixAt(r, step, by)
<1>1. fix \in [Requests -> FixRow] /\ fix[r] \in FixRow
  BY RunTypes
<1>2. ASSUME NEW row \in FixRow, fix' = [fix EXCEPT ![r] = row], row.at = step /\ row.by = by
      PROVE  FixAt(r, step, by)
  BY <1>1, <1>2, RowSet DEF FixAt
<1>3. CASE FixGoto(r, step) /\ by = fix[r].by
  <2> DEFINE row == [fix[r] EXCEPT !.at = step]
  <2>1. row \in FixRow /\ row.at = step /\ row.by = by
    BY <1>1, <1>3 DEF FixRow
  <2>2. fix' = [fix EXCEPT ![r] = row]
    BY <1>3 DEF FixGoto
  <2> QED BY <1>2, <2>1, <2>2
<1>4. CASE fix' = [fix EXCEPT ![r] = [at |-> step, by |-> by]]
  <2>1. [at |-> step, by |-> by] \in FixRow
    BY DEF FixRow
  <2> QED BY <1>2, <1>4, <2>1
<1> QED BY <1>3, <1>4

(* The journal takes an event.                                               *)
JournalAt(r, to) ==
    /\ journal' \in [Requests -> JournalStates]
    /\ \A s \in Requests : journal'[s] = IF s = r THEN to ELSE journal[s]

LEMMA JournalTakes ==
    ASSUME TypeOK, NEW r \in Requests, NEW to \in JournalStates,
           journal' = [journal EXCEPT ![r] = to]
    PROVE  JournalAt(r, to)
  BY RowSet DEF TypeOK, JournalAt

(* Entries of the reservations' tables.                                      *)
QuotaAt(r, m, v) ==
    /\ quota' \in [Reservations -> QuotaStates]
    /\ \A s \in Requests, n \in Attempts :
          quota'[<<s, n>>] = IF s = r /\ n = m THEN v ELSE quota[<<s, n>>]

SharedAt(r, m, v) ==
    /\ shared' \in [Reservations -> SharedStates]
    /\ \A s \in Requests, n \in Attempts :
          shared'[<<s, n>>] = IF s = r /\ n = m THEN v ELSE shared[<<s, n>>]

ChainAt(r, m, v) ==
    /\ chain' \in [Reservations -> Facts]
    /\ \A s \in Requests, n \in Attempts :
          chain'[<<s, n>>] = IF s = r /\ n = m THEN v ELSE chain[<<s, n>>]

LEMMA TableTypes ==
    ASSUME TypeOK
    PROVE  /\ quota \in [Reservations -> QuotaStates]
           /\ shared \in [Reservations -> SharedStates]
           /\ chain \in [Reservations -> Facts]
           /\ calls \in [Reservations -> 0 .. 2]
           /\ atProvider \subseteq Reservations
           /\ journal \in [Requests -> JournalStates]
  BY DEF TypeOK, QuotaStates, SharedStates, Facts

LEMMA QuotaSets ==
    ASSUME TypeOK, NEW r \in Requests, NEW m \in Attempts, NEW v \in QuotaStates,
           quota' = [quota EXCEPT ![<<r, m>>] = v]
    PROVE  QuotaAt(r, m, v)
<1>1. quota \in [Reservations -> QuotaStates]
  BY TableTypes
<1> QED BY <1>1, EntrySet DEF QuotaAt

LEMMA SharedSets ==
    ASSUME TypeOK, NEW r \in Requests, NEW m \in Attempts, NEW v \in SharedStates,
           shared' = [shared EXCEPT ![<<r, m>>] = v]
    PROVE  SharedAt(r, m, v)
<1>1. shared \in [Reservations -> SharedStates]
  BY TableTypes
<1> QED BY <1>1, EntrySet DEF SharedAt

LEMMA ChainSets ==
    ASSUME TypeOK, NEW r \in Requests, NEW m \in Attempts, NEW v \in Facts,
           chain' = [chain EXCEPT ![<<r, m>>] = v]
    PROVE  ChainAt(r, m, v)
<1>1. chain \in [Reservations -> Facts]
  BY TableTypes
<1> QED BY <1>1, EntrySet DEF ChainAt

(* A release, of the reservation and of the account's row.                   *)
LEMMA QuotaReleased ==
    ASSUME TypeOK, NEW r \in Requests, NEW m \in Attempts, SettleReleased(<<r, m>>)
    PROVE  /\ QuotaAt(r, m, "released")
           /\ quota[<<r, m>>] = "released" \/ chain[<<r, m>>] = NoFacts
           /\ quota[<<r, m>>] \in {"open", "released"}
<1>1. QuotaAt(r, m, "released")
  BY QuotaSets DEF QuotaStates, SettleReleased
<1> QED BY <1>1 DEF SettleReleased, MayRelease

LEMMA SharedReleased ==
    ASSUME TypeOK, NEW r \in Requests, NEW m \in Attempts, ReleaseShared(<<r, m>>)
    PROVE  /\ SharedAt(r, m, IF shared[<<r, m>>] = "reserved" THEN "released" ELSE shared[<<r, m>>])
           /\ SharedPolicy => shared[<<r, m>>] \in {"reserved", "released", "expired"}
<1>1. shared \in [Reservations -> SharedStates]
  BY TableTypes
<1>2. CASE shared[<<r, m>>] = "reserved"
  <2>1. shared' = [shared EXCEPT ![<<r, m>>] = "released"]
    BY <1>2 DEF ReleaseShared
  <2>2. SharedAt(r, m, "released")
    BY <2>1, SharedSets DEF SharedStates
  <2> QED BY <1>2, <2>2 DEF ReleaseShared, Undispatched
<1>3. CASE shared[<<r, m>>] # "reserved"
  <2>1. shared' = shared
    BY <1>3 DEF ReleaseShared
  <2> QED BY <1>1, <1>3, <2>1 DEF ReleaseShared, Undispatched, SharedAt
<1> QED BY <1>2, <1>3

(* A fact recorded, and a settlement over three of them.                     *)
LEMMA FactRecorded ==
    ASSUME TypeOK, NEW r \in Requests, NEW m \in Attempts, NEW by \in {"commit", "recovery", "orphan"},
           NEW k \in 1 .. 3, NEW late, RecordFact(<<r, m>>, by, k, late)
    PROVE  \E v \in Facts :
              /\ ChainAt(r, m, v)
              /\ \/ v = chain[<<r, m>>]
                 \/ chain[<<r, m>>].len < 3
                    /\ (quota[<<r, m>>] = "released" => chain[<<r, m>>] # NoFacts)
<1>1. chain \in [Reservations -> Facts] /\ <<r, m>> \in Reservations
  BY TableTypes, Pairs
<1>2. CASE UNCHANGED chain
  <2>1. ChainAt(r, m, chain[<<r, m>>]) /\ chain[<<r, m>>] \in Facts
    BY <1>1, <1>2 DEF ChainAt
  <2> QED BY <2>1
<1>3. CASE /\ IF k = 1 THEN chain[<<r, m>>] = NoFacts /\ ~late /\ quota[<<r, m>>] # "released"
                       ELSE chain[<<r, m>>] = [by |-> by, len |-> k - 1]
           /\ chain' = [chain EXCEPT ![<<r, m>>] = [by |-> by, len |-> k]]
  <2>1. [by |-> by, len |-> k] \in Facts
    BY DEF Facts
  <2>2. ChainAt(r, m, [by |-> by, len |-> k])
    BY <1>3, <2>1, ChainSets
  <2>3. CASE k = 1
    BY <1>3, <2>1, <2>2, <2>3 DEF NoFacts
  <2>4. CASE k # 1
    <3>1. chain[<<r, m>>] = [by |-> by, len |-> k - 1]
      BY <1>3, <2>4
    <3>2. chain[<<r, m>>].by = by /\ chain[<<r, m>>].len = k - 1
      BY <3>1
    <3>3. chain[<<r, m>>].by # NoFacts.by
      BY <3>2 DEF NoFacts
    <3>4. chain[<<r, m>>].len < 3 /\ chain[<<r, m>>] # NoFacts
      BY <3>2, <3>3
    <3> QED BY <2>1, <2>2, <3>4
  <2> QED BY <2>3, <2>4
<1> QED BY <1>2, <1>3 DEF RecordFact, IsNext, IsRepeated

LEMMA UsedSettled ==
    ASSUME TypeOK, NEW r \in Requests, NEW m \in Attempts, NEW by, NEW state \in QuotaStates,
           SettleUsed(<<r, m>>, by, state)
    PROVE  /\ QuotaAt(r, m, state)
           /\ chain[<<r, m>>] = [by |-> by, len |-> 3]
           /\ quota[<<r, m>>] \in {"open", state}
<1>1. QuotaAt(r, m, state)
  BY QuotaSets DEF SettleUsed
<1> QED BY <1>1 DEF SettleUsed, MaySettle

-----------------------------------------------------------------------------
(* The other requests *)

(* What a step of somebody else may do to request s: another request's        *)
(* insertion expires its account rows, the owner releases one, and the scan  *)
(* records facts of an open reservation and settles it.                      *)
Env(s) ==
    /\ journal'[s] = journal[s] /\ payload'[s] = payload[s] /\ completed'[s] = completed[s]
    /\ run'[s] = run[s] /\ fix'[s] = fix[s]
    /\ \A n \in Attempts :
          /\ calls'[<<s, n>>] = calls[<<s, n>>]
          /\ <<s, n>> \in atProvider' <=> <<s, n>> \in atProvider
          /\ \/ quota'[<<s, n>>] = quota[<<s, n>>]
             \/ quota[<<s, n>>] = "open" /\ quota'[<<s, n>>] = "indeterminate"
          /\ \/ chain'[<<s, n>>] = chain[<<s, n>>]
             \/ chain[<<s, n>>].len < 3 /\ quota[<<s, n>>] # "released"
          /\ \/ shared'[<<s, n>>] = shared[<<s, n>>]
             \/ shared[<<s, n>>] = "reserved" /\ shared'[<<s, n>>] \in {"released", "expired"}

(* A journaled reservation has a number.                                     *)
LEMMA Numbered ==
    ASSUME TypeOK, NEW r \in Requests
    PROVE  /\ payload[r].n \in 0 .. MaxAttempts
           /\ payload[r].n # 0 => payload[r].n \in Attempts
           /\ run[r].n # 0 => run[r].n \in Attempts
           /\ 0 \notin Attempts
<1>1. payload[r] \in [n : 0 .. MaxAttempts, late : BOOLEAN, out : Outcomes \cup {"none"}]
  BY DEF TypeOK
<1>2. payload[r].n \in 0 .. MaxAttempts /\ run[r].n \in 0 .. MaxAttempts
  BY <1>1, RunTypes
<1>3. MaxAttempts \in Nat
  BY ConnectorRunAssumption
<1> QED BY <1>2, <1>3 DEF Attempts

LEMMA EnvKeeps ==
    ASSUME TypeOK, NEW s \in Requests, RequestInv(s), Env(s), UNCHANGED setting
    PROVE  RequestInv(s)'
<1>1. Executor(s) /\ Recovery(s) /\ Closed(s) /\ \A n \in Attempts : CallMade(s, n) /\ Charged(s, n)
  BY DEF RequestInv
<1>2. /\ journal'[s] = journal[s] /\ payload'[s] = payload[s] /\ completed'[s] = completed[s]
      /\ run'[s] = run[s] /\ fix'[s] = fix[s]
      /\ SharedPolicy' = SharedPolicy /\ LiveRecovery' = LiveRecovery
      /\ RecoveryHeld' = RecoveryHeld
  BY DEF Env, SharedPolicy, LiveRecovery, RecoveryHeld
<1>3. Executor(s)' /\ Recovery(s)'
  BY <1>1, <1>2 DEF Executor, Recovery
<1>4. Closed(s)'
  <2>1. Closing(s)' = Closing(s)
    BY <1>2 DEF Closing
  <2>2. ASSUME Closing(s)
        PROVE  /\ journal[s] \in {"observed", "responded"}
               /\ chain'[Bound(s)] = [by |-> "commit", len |-> 3]
               /\ quota'[Bound(s)] = FinalState(payload[s].out)
    <3>1. /\ journal[s] \in {"observed", "responded"}
          /\ chain[Bound(s)] = [by |-> "commit", len |-> 3]
          /\ quota[Bound(s)] = FinalState(payload[s].out)
      BY <1>1, <2>2 DEF Closed
    <3>2. payload[s].n \in Attempts
      BY <1>1, <3>1, Numbered DEF Executor
    <3>3. quota[Bound(s)] # "open" /\ chain[Bound(s)].len = 3
      BY <3>1 DEF FinalState
    <3> QED BY <3>1, <3>2, <3>3 DEF Env, Bound
  <2>3. Bound(s)' = Bound(s) /\ FinalState(payload'[s].out) = FinalState(payload[s].out)
    BY <1>2 DEF Bound
  <2> QED BY <1>1, <1>2, <2>1, <2>2, <2>3 DEF Closed
<1>5. ASSUME NEW n \in Attempts PROVE CallMade(s, n)' /\ Charged(s, n)'
  <2>1. CallMade(s, n) /\ Charged(s, n)
    BY <1>1
  <2>2. /\ calls'[<<s, n>>] = calls[<<s, n>>]
        /\ <<s, n>> \in atProvider' <=> <<s, n>> \in atProvider
        /\ \/ quota'[<<s, n>>] = quota[<<s, n>>]
           \/ quota[<<s, n>>] = "open" /\ quota'[<<s, n>>] = "indeterminate"
        /\ \/ chain'[<<s, n>>] = chain[<<s, n>>]
           \/ chain[<<s, n>>].len < 3 /\ quota[<<s, n>>] # "released"
        /\ \/ shared'[<<s, n>>] = shared[<<s, n>>]
           \/ shared[<<s, n>>] = "reserved" /\ shared'[<<s, n>>] \in {"released", "expired"}
    BY DEF Env
  <2>3. CallMade(s, n)'
    BY <1>2, <2>1, <2>2 DEF CallMade
  <2>4. Charged(s, n)'
    BY <1>2, <2>1, <2>2 DEF Charged, NoFacts
  <2> QED BY <2>3, <2>4
<1> QED BY <1>3, <1>4, <1>5 DEF RequestInv

(* The account's slots: rows that hold one are only added by an insertion.   *)
LEMMA SlotsStay ==
    ASSUME TypeOK, Slots, UNCHANGED setting,
           \A s \in Requests, n \in Attempts :
               shared'[<<s, n>>] \in {"reserved", "dispatched"}
                  => shared[<<s, n>>] \in {"reserved", "dispatched"}
    PROVE  Slots'
<1>1. Holding' \subseteq Holding
  BY DEF Holding, Reservations
<1>2. IsFiniteSet(Reservations)
  <2>1. IsFiniteSet(Attempts)
    BY ConnectorRunAssumption, FS_Interval DEF Attempts
  <2> QED BY <2>1, ConnectorRunAssumption, FS_Product DEF Reservations
<1>3. IsFiniteSet(Holding) /\ Holding \subseteq Reservations
  BY <1>2, FS_Subset DEF Holding
<1>4. /\ IsFiniteSet(Holding') /\ Cardinality(Holding') <= Cardinality(Holding)
      /\ Cardinality(Holding') \in Nat /\ Cardinality(Holding) \in Nat
  BY <1>1, <1>3, FS_Subset, FS_CardinalityType
<1>5. SharedPolicy' = SharedPolicy /\ MaxConcurrency \in Nat
  BY ConnectorRunAssumption DEF SharedPolicy
<1> QED BY <1>4, <1>5 DEF Slots

(* A step that is the environment's for every request keeps the invariant.   *)
LEMMA EnvComposed ==
    ASSUME RunInv, TypeOK', Scanning', UNCHANGED setting, \A s \in Requests : Env(s), Slots'
    PROVE  RunInv'
<1>1. TypeOK /\ \A s \in Requests : RequestInv(s)
  BY DEF RunInv
<1>2. ASSUME NEW s \in Requests PROVE RequestInv(s)'
  BY <1>1, EnvKeeps
<1> QED BY <1>2 DEF RunInv

(* A step of one request keeps the invariant if it keeps that request's.     *)
LEMMA Composed ==
    ASSUME RunInv, NEW r \in Requests, TypeOK', UNCHANGED <<scan, setting>>,
           \A s \in Requests : s # r => Env(s),
           RequestInv(r)',
           Slots'
    PROVE  RunInv'
<1>1. TypeOK /\ \A s \in Requests : RequestInv(s)
  BY DEF RunInv
<1>2. ASSUME NEW s \in Requests PROVE RequestInv(s)'
  <2>1. CASE s = r
    BY <2>1
  <2>2. CASE s # r
    BY <1>1, <2>2, EnvKeeps
  <2> QED BY <2>1, <2>2
<1>3. Scanning'
  BY DEF RunInv, Scanning
<1> QED BY <1>2, <1>3 DEF RunInv


(* A step of request r: the tables of the other requests stand, but for the  *)
(* account rows an insertion expires.                                        *)
JournalOf(r)   == /\ journal' \in [Requests -> JournalStates]
                  /\ \A s \in Requests : s # r => journal'[s] = journal[s]
PayloadRow     == [n : 0 .. MaxAttempts, late : BOOLEAN, out : Outcomes \cup {"none"}]
PayloadOf(r)   == /\ payload' \in [Requests -> PayloadRow]
                  /\ \A s \in Requests : s # r => payload'[s] = payload[s]
CompletedOf(r) == /\ completed' \in [Requests -> BOOLEAN]
                  /\ \A s \in Requests : s # r => completed'[s] = completed[s]
RunOf(r)       == /\ run' \in [Requests -> RunRow]
                  /\ \A s \in Requests : s # r => run'[s] = run[s]
FixOf(r)       == /\ fix' \in [Requests -> FixRow]
                  /\ \A s \in Requests : s # r => fix'[s] = fix[s]
QuotaOf(r)     == /\ quota' \in [Reservations -> QuotaStates]
                  /\ \A s \in Requests, n \in Attempts : s # r => quota'[<<s, n>>] = quota[<<s, n>>]
ChainOf(r)     == /\ chain' \in [Reservations -> Facts]
                  /\ \A s \in Requests, n \in Attempts : s # r => chain'[<<s, n>>] = chain[<<s, n>>]
SharedOf(r)    == /\ shared' \in [Reservations -> SharedStates]
                  /\ \A s \in Requests, n \in Attempts : s # r =>
                        \/ shared'[<<s, n>>] = shared[<<s, n>>]
                        \/ shared[<<s, n>>] = "reserved" /\ shared'[<<s, n>>] \in {"released", "expired"}
CallsOf(r)     == /\ calls' \in [Reservations -> 0 .. 2] /\ atProvider' \subseteq Reservations
                  /\ \A s \in Requests, n \in Attempts : s # r =>
                        /\ calls'[<<s, n>>] = calls[<<s, n>>]
                        /\ <<s, n>> \in atProvider' <=> <<s, n>> \in atProvider

LEMMA Unmoved ==
    ASSUME TypeOK, NEW r \in Requests
    PROVE  /\ UNCHANGED journal => JournalOf(r)
           /\ UNCHANGED payload => PayloadOf(r)
           /\ UNCHANGED completed => CompletedOf(r)
           /\ UNCHANGED run => RunOf(r)
           /\ UNCHANGED fix => FixOf(r)
           /\ UNCHANGED quota => QuotaOf(r)
           /\ UNCHANGED chain => ChainOf(r)
           /\ UNCHANGED shared => SharedOf(r)
           /\ UNCHANGED <<calls, atProvider>> => CallsOf(r)
<1>1. run \in [Requests -> RunRow] /\ fix \in [Requests -> FixRow]
  BY RunTypes
<1>2. payload \in [Requests -> PayloadRow] /\ completed \in [Requests -> BOOLEAN]
  BY DEF TypeOK, PayloadRow
<1> QED BY <1>1, <1>2, TableTypes
        DEF JournalOf, PayloadOf, CompletedOf, RunOf, FixOf, QuotaOf, ChainOf, SharedOf, CallsOf

LEMMA MovedRows ==
    ASSUME TypeOK, NEW r \in Requests
    PROVE  /\ \A at, n, out : RunAt(r, at, n, out) => RunOf(r)
           /\ \A at, by : FixAt(r, at, by) => FixOf(r)
           /\ \A to : JournalAt(r, to) => JournalOf(r)
  BY DEF RunAt, RunOf, FixAt, FixOf, JournalAt, JournalOf

LEMMA MovedTables ==
    ASSUME TypeOK, NEW r \in Requests, NEW m \in Attempts, NEW v
    PROVE  /\ QuotaAt(r, m, v) => QuotaOf(r)
           /\ ChainAt(r, m, v) => ChainOf(r)
           /\ SharedAt(r, m, v) => SharedOf(r)
  BY DEF QuotaAt, QuotaOf, ChainAt, ChainOf, SharedAt, SharedOf

StepOf(r) ==
    /\ JournalOf(r) /\ PayloadOf(r) /\ CompletedOf(r) /\ RunOf(r) /\ FixOf(r)
    /\ QuotaOf(r) /\ ChainOf(r) /\ SharedOf(r) /\ CallsOf(r)
    /\ UNCHANGED <<clocks, scan, setting>>

LEMMA StepComposed ==
    ASSUME RunInv, NEW r \in Requests, StepOf(r), RequestInv(r)', Slots'
    PROVE  RunInv'
<1>1. TypeOK
  BY DEF RunInv
<1>2. TypeOK'
  BY <1>1 DEF TypeOK, StepOf, JournalOf, PayloadOf, CompletedOf, RunOf, FixOf, QuotaOf, ChainOf,
              SharedOf, CallsOf, PayloadRow, RunRow, FixRow, QuotaStates, SharedStates, Facts, clocks
<1>3. ASSUME NEW s \in Requests, s # r PROVE Env(s)
  BY <1>3 DEF Env, StepOf, JournalOf, PayloadOf, CompletedOf, RunOf, FixOf, QuotaOf, ChainOf,
              SharedOf, CallsOf
<1> QED BY <1>2, <1>3, Composed DEF StepOf

(* What holds of the request that takes a step.                              *)
LEMMA Given ==
    ASSUME RunInv, NEW r \in Requests
    PROVE  /\ TypeOK /\ Slots
           /\ Executor(r) /\ Recovery(r) /\ Closed(r)
           /\ \A n \in Attempts : CallMade(r, n) /\ Charged(r, n)
  BY DEF RunInv, RequestInv

(* A step that touches no row of the account keeps its slots.                *)
LEMMA SlotsKept ==
    ASSUME RunInv, UNCHANGED <<shared, setting>>
    PROVE  Slots'
  BY DEF RunInv, Slots, Holding, SharedPolicy

(* The journal's payload: a reservation, a late start, an outcome.           *)
LEMMA PayloadTakes ==
    ASSUME TypeOK, NEW r \in Requests
    PROVE  /\ \A m \in 0 .. MaxAttempts : payload' = [payload EXCEPT ![r].n = m] =>
                 PayloadOf(r) /\ payload'[r].n = m /\ payload'[r].out = payload[r].out
           /\ \A late \in BOOLEAN : payload' = [payload EXCEPT ![r].late = late] =>
                 PayloadOf(r) /\ payload'[r].n = payload[r].n /\ payload'[r].out = payload[r].out
           /\ \A out \in Outcomes \cup {"none"} : payload' = [payload EXCEPT ![r].out = out] =>
                 PayloadOf(r) /\ payload'[r].n = payload[r].n /\ payload'[r].out = out
<1>1. payload \in [Requests -> PayloadRow] /\ payload[r] \in PayloadRow
  BY DEF TypeOK, PayloadRow
<1>2. ASSUME NEW row \in PayloadRow, payload' = [payload EXCEPT ![r] = row]
      PROVE  PayloadOf(r) /\ payload'[r] = row
  BY <1>1, <1>2, RowSet DEF PayloadOf
<1>3. ASSUME NEW m \in 0 .. MaxAttempts, payload' = [payload EXCEPT ![r].n = m]
      PROVE  PayloadOf(r) /\ payload'[r].n = m /\ payload'[r].out = payload[r].out
  <2> DEFINE row == [payload[r] EXCEPT !.n = m]
  <2>1. row \in PayloadRow /\ row.n = m /\ row.out = payload[r].out
    BY <1>1 DEF PayloadRow
  <2>2. payload' = [payload EXCEPT ![r] = row]
    BY <1>3
  <2> QED BY <1>2, <2>1, <2>2
<1>4. ASSUME NEW late \in BOOLEAN, payload' = [payload EXCEPT ![r].late = late]
      PROVE  PayloadOf(r) /\ payload'[r].n = payload[r].n /\ payload'[r].out = payload[r].out
  <2> DEFINE row == [payload[r] EXCEPT !.late = late]
  <2>1. row \in PayloadRow /\ row.n = payload[r].n /\ row.out = payload[r].out
    BY <1>1 DEF PayloadRow
  <2>2. payload' = [payload EXCEPT ![r] = row]
    BY <1>4
  <2> QED BY <1>2, <2>1, <2>2
<1>5. ASSUME NEW out \in Outcomes \cup {"none"}, payload' = [payload EXCEPT ![r].out = out]
      PROVE  PayloadOf(r) /\ payload'[r].n = payload[r].n /\ payload'[r].out = out
  <2> DEFINE row == [payload[r] EXCEPT !.out = out]
  <2>1. row \in PayloadRow /\ row.n = payload[r].n /\ row.out = out
    BY <1>1 DEF PayloadRow
  <2>2. payload' = [payload EXCEPT ![r] = row]
    BY <1>5
  <2> QED BY <1>2, <2>1, <2>2
<1> QED BY <1>3, <1>4, <1>5

(* Before its start is journaled a request has called nobody.                *)
LEMMA Uncalled ==
    ASSUME RunInv, NEW r \in Requests, NEW n \in Attempts, journal[r] \in Unsent
    PROVE  calls[<<r, n>>] = 0 /\ shared[<<r, n>>] # "settled"
<1>1. calls[<<r, n>>] \in 0 .. 2
  BY TableTypes, Pairs DEF RunInv
<1>2. ~(calls[<<r, n>>] > 0) /\ shared[<<r, n>>] # "settled"
  BY Given DEF CallMade
<1> QED BY <1>1, <1>2

(* A reservation that is given back has no facts.                            *)
LEMMA GivenBack ==
    ASSUME RunInv, NEW r \in Requests, NEW m \in Attempts, SettleReleased(<<r, m>>)
    PROVE  /\ QuotaAt(r, m, "released")
           /\ quota[<<r, m>>] \in {"open", "released"} /\ chain[<<r, m>>] = NoFacts
  BY Given, QuotaReleased DEF Charged

LEMMA SharedGivenBack ==
    ASSUME RunInv, NEW r \in Requests, NEW m \in Attempts, ReleaseShared(<<r, m>>), UNCHANGED setting
    PROVE  /\ SharedOf(r)
           /\ \A n \in Attempts :
                 \/ shared'[<<r, n>>] = shared[<<r, n>>]
                 \/ n = m /\ shared[<<r, n>>] = "reserved" /\ shared'[<<r, n>>] = "released"
           /\ SharedPolicy => shared'[<<r, m>>] \in {"released", "expired"}
           /\ Slots'
<1> DEFINE v == IF shared[<<r, m>>] = "reserved" THEN "released" ELSE shared[<<r, m>>]
<1>1. TypeOK /\ Slots
  BY DEF RunInv
<1>2. /\ SharedAt(r, m, v)
      /\ SharedPolicy => shared[<<r, m>>] \in {"reserved", "released", "expired"}
  BY <1>1, SharedReleased
<1>3. /\ shared[<<r, m>>] = "reserved" => v = "released"
      /\ shared[<<r, m>>] # "reserved" => v = shared[<<r, m>>]
  OBVIOUS
<1> HIDE DEF v
<1>4. \A s \in Requests, n \in Attempts :
         \/ shared'[<<s, n>>] = shared[<<s, n>>]
         \/ s = r /\ n = m /\ shared[<<s, n>>] = "reserved" /\ shared'[<<s, n>>] = "released"
  BY <1>2, <1>3 DEF SharedAt
<1>5. SharedPolicy => shared'[<<r, m>>] \in {"released", "expired"}
  BY <1>2, <1>3 DEF SharedAt
<1>6. SharedOf(r)
  BY <1>2, <1>4 DEF SharedAt, SharedOf
<1>7. Slots'
  BY <1>1, <1>4, SlotsStay
<1> QED BY <1>4, <1>5, <1>6, <1>7

-----------------------------------------------------------------------------
(* The executor's steps *)

LEMMA JournalReservedKeeps ==
    ASSUME RunInv, NEW r \in Requests, JournalReserved(r), UNCHANGED setting
    PROVE  RunInv'
<1>1. /\ TypeOK /\ Slots /\ Executor(r) /\ Recovery(r) /\ Closed(r)
      /\ \A n \in Attempts : CallMade(r, n) /\ Charged(r, n)
  BY Given
<1>2. /\ RunAt(r, "journaled", run[r].n, run[r].out)
      /\ JournalAt(r, "reserved")
  BY <1>1, RunTypes, RunGoes, JournalTakes DEF JournalReserved, Append, RunSteps, JournalStates
<1>3. PayloadOf(r) /\ payload'[r].n = run[r].n /\ payload'[r].out = payload[r].out
  BY <1>1, RunTypes, PayloadTakes DEF JournalReserved
<1>4. StepOf(r)
  BY <1>1, <1>2, <1>3, Unmoved, MovedRows DEF JournalReserved, StepOf, RunAt, RunOf, JournalAt, JournalOf, authority, world
<1>5. /\ run[r].at = "held" /\ journal[r] = "admitted" 
      /\ run'[r].at = "journaled" /\ run'[r].n = run[r].n /\ run'[r].out = run[r].out
      /\ journal'[r] = "reserved" 
      /\ UNCHANGED <<quota, chain, shared, completed, fix, calls, atProvider, setting>>
  BY <1>2 DEF JournalReserved, Append, RunAt, JournalAt, authority, world
<1>6. Executor(r)'
  BY <1>1, <1>3, <1>5, Numbered DEF Executor, Early, Named, Sent, Committing
<1>7. Recovery(r)'
  BY <1>1, <1>3, <1>5, Numbered DEF Recovery, Executor, LiveRecovery
<1>8. Closed(r)'
  BY <1>1, <1>3, <1>5 DEF Closed, Closing
<1>9. ASSUME NEW n \in Attempts PROVE CallMade(r, n)' /\ Charged(r, n)'
  <2>1. CallMade(r, n) /\ Charged(r, n)
    BY <1>1
  <2>2. CallMade(r, n)'
    BY <1>1, <1>3, <1>5, <2>1 DEF CallMade, Unsent, Executor
  <2>3. Charged(r, n)'
    BY <1>1, <1>3, <1>5, <2>1, Numbered DEF Charged, RecoveryHeld, LiveRecovery, SharedPolicy, CallMade, Recovery, Executor, Unsent
  <2> QED BY <2>2, <2>3
<1>10. Slots'
  BY <1>5, SlotsKept
<1> QED BY <1>4, <1>6, <1>7, <1>8, <1>9, <1>10, StepComposed DEF RequestInv

LEMMA BeginKeeps ==
    ASSUME RunInv, NEW r \in Requests, Begin(r), UNCHANGED setting
    PROVE  RunInv'
<1>1. /\ TypeOK /\ Slots /\ Executor(r) /\ Recovery(r) /\ Closed(r)
      /\ \A n \in Attempts : CallMade(r, n) /\ Charged(r, n)
  BY Given
<1>2. /\ RunAt(r, "admitted", run[r].n, run[r].out)
      /\ JournalAt(r, "admitted")
  BY <1>1, RunTypes, RunGoes, JournalTakes DEF Begin, RunSteps, JournalStates, Append
<1>3. StepOf(r)
  BY <1>1, <1>2, Unmoved, MovedRows DEF Begin, StepOf, authority, world
<1>4. /\ run[r].at = "idle" /\ journal[r] \in {"none", "admitted"}
      /\ ~LiveRecovery => fix[r].at = "idle"
      /\ run'[r].at = "admitted" /\ run'[r].n = run[r].n /\ run'[r].out = run[r].out
      /\ journal'[r] = "admitted"
      /\ UNCHANGED <<fix, quota, shared, chain, payload, completed, calls, atProvider, setting>>
  BY <1>1, <1>2 DEF Begin, RunAt, JournalAt, Append, authority, world
<1>5. Executor(r)'
  BY <1>1, <1>2, <1>4, Numbered DEF Executor, Early, Named, Sent, Committing
<1>6. Recovery(r)'
  BY <1>1, <1>2, <1>4, Numbered DEF Recovery, Executor, LiveRecovery
<1>7. Closed(r)'
  BY <1>1, <1>2, <1>4, Numbered DEF Closed, Closing, Bound, FinalState, Executor, Recovery
<1>8. ASSUME NEW n \in Attempts PROVE CallMade(r, n)' /\ Charged(r, n)'
  <2>1. CallMade(r, n) /\ Charged(r, n)
    BY <1>1
  <2>2. CallMade(r, n)'
    BY <1>1, <1>2, <1>4, <2>1, Numbered DEF CallMade, Unsent, Executor, Named, Sent, Committing, Early
  <2>3. Charged(r, n)'
    BY <1>1, <1>2, <1>4, <2>1, <2>2, Numbered DEF Charged, RecoveryHeld, SharedPolicy, CallMade, Recovery, Executor, Unsent,
         Named, Sent, Committing, Early, LiveRecovery, NoFacts
  <2> QED BY <2>2, <2>3
<1>9. Slots'
  BY <1>4, SlotsKept
<1> QED BY <1>3, <1>5, <1>6, <1>7, <1>8, <1>9, StepComposed DEF RequestInv

LEMMA SpoolSettleKeeps ==
    ASSUME RunInv, NEW r \in Requests, SpoolSettle(r), UNCHANGED setting
    PROVE  RunInv'
<1>1. /\ TypeOK /\ Slots /\ Executor(r) /\ Recovery(r) /\ Closed(r)
      /\ \A n \in Attempts : CallMade(r, n) /\ Charged(r, n)
  BY Given
<1>2. run[r].n \in Attempts /\ journal[r] \in Unsent
  BY <1>1 DEF SpoolSettle, Executor, Named, Unsent
<1>3. /\ QuotaAt(r, run[r].n, "released")
      /\ quota[<<r, run[r].n>>] \in {"open", "released"} /\ chain[<<r, run[r].n>>] = NoFacts
      /\ \A n \in Attempts : calls[<<r, n>>] = 0
  BY <1>2, GivenBack, Uncalled DEF SpoolSettle
<1>4. RunAt(r, "full_settled", run[r].n, run[r].out)
  BY <1>1, <1>2, <1>3, RunTypes, RunGoes DEF SpoolSettle, RunSteps
<1>5. StepOf(r)
  BY <1>1, <1>2, <1>3, <1>4, Unmoved, MovedRows, MovedTables DEF SpoolSettle, StepOf, authority, world
<1>6. /\ run[r].at = "full_released"
      /\ run'[r].at = "full_settled" /\ run'[r].n = run[r].n /\ run'[r].out = run[r].out
      /\ \A n \in Attempts : quota'[<<r, n>>] = IF n = run[r].n THEN "released" ELSE quota[<<r, n>>]
      /\ UNCHANGED <<fix, journal, shared, chain, payload, completed, calls, atProvider, setting>>
  BY <1>1, <1>2, <1>3, <1>4 DEF SpoolSettle, RunAt, QuotaAt, authority, world
<1>7. Executor(r)'
  BY <1>1, <1>2, <1>3, <1>4, <1>6, Numbered DEF Executor, Early, Named, Sent, Committing
<1>8. Recovery(r)'
  BY <1>1, <1>2, <1>3, <1>4, <1>6, Numbered DEF Recovery, Executor, LiveRecovery
<1>9. Closed(r)'
  BY <1>1, <1>2, <1>3, <1>4, <1>6, Numbered DEF Closed, Closing, Bound, FinalState, Executor, Recovery
<1>10. ASSUME NEW n \in Attempts PROVE CallMade(r, n)' /\ Charged(r, n)'
  <2>1. CallMade(r, n) /\ Charged(r, n)
    BY <1>1
  <2>2. CallMade(r, n)'
    BY <1>1, <1>2, <1>3, <1>4, <1>6, <2>1, Numbered DEF CallMade, Unsent, Executor, Named, Sent, Committing, Early
  <2>3. Charged(r, n)'
    BY <1>1, <1>2, <1>3, <1>4, <1>6, <2>1, <2>2, Numbered DEF Charged, RecoveryHeld, SharedPolicy, CallMade, Recovery, Executor, Unsent,
         Named, Sent, Committing, Early, LiveRecovery, NoFacts
  <2> QED BY <2>2, <2>3
<1>11. Slots'
  BY <1>6, SlotsKept
<1> QED BY <1>5, <1>7, <1>8, <1>9, <1>10, <1>11, StepComposed DEF RequestInv

LEMMA SpoolJournalKeeps ==
    ASSUME RunInv, NEW r \in Requests, SpoolJournal(r), UNCHANGED setting
    PROVE  RunInv'
<1>1. /\ TypeOK /\ Slots /\ Executor(r) /\ Recovery(r) /\ Closed(r)
      /\ \A n \in Attempts : CallMade(r, n) /\ Charged(r, n)
  BY Given
<1>2. /\ RunAt(r, "idle", 0, "none")
      /\ JournalAt(r, "released_recovered")
  BY <1>1, RunIdles, JournalTakes DEF SpoolJournal, JournalStates, Append
<1>3. StepOf(r)
  BY <1>1, <1>2, Unmoved, MovedRows DEF SpoolJournal, StepOf, authority, world
<1>4. /\ run[r].at = "full_settled" /\ journal[r] = "reserved"
      /\ run'[r].at = "idle" /\ run'[r].n = 0
      /\ journal'[r] = "released_recovered"
      /\ UNCHANGED <<fix, quota, shared, chain, payload, completed, calls, atProvider, setting>>
  BY <1>1, <1>2 DEF SpoolJournal, RunAt, JournalAt, Append, authority, world
<1>5. Executor(r)'
  BY <1>1, <1>2, <1>4, Numbered DEF Executor, Early, Named, Sent, Committing
<1>6. Recovery(r)'
  BY <1>1, <1>2, <1>4, Numbered DEF Recovery, Executor, LiveRecovery
<1>7. Closed(r)'
  BY <1>1, <1>2, <1>4, Numbered DEF Closed, Closing, Bound, FinalState, Executor, Recovery
<1>8. ASSUME NEW n \in Attempts PROVE CallMade(r, n)' /\ Charged(r, n)'
  <2>1. CallMade(r, n) /\ Charged(r, n)
    BY <1>1
  <2>2. CallMade(r, n)'
    BY <1>1, <1>2, <1>4, <2>1, Numbered DEF CallMade, Unsent, Executor, Named, Sent, Committing, Early
  <2>3. Charged(r, n)'
    BY <1>1, <1>2, <1>4, <2>1, <2>2, Numbered DEF Charged, RecoveryHeld, SharedPolicy, CallMade, Recovery, Executor, Unsent,
         Named, Sent, Committing, Early, LiveRecovery, NoFacts
  <2> QED BY <2>2, <2>3
<1>9. Slots'
  BY <1>4, SlotsKept
<1> QED BY <1>3, <1>5, <1>6, <1>7, <1>8, <1>9, StepComposed DEF RequestInv

LEMMA SpoolReleaseKeeps ==
    ASSUME RunInv, NEW r \in Requests, SpoolRelease(r), UNCHANGED setting
    PROVE  RunInv'
<1>1. /\ TypeOK /\ Slots /\ Executor(r) /\ Recovery(r) /\ Closed(r)
      /\ \A n \in Attempts : CallMade(r, n) /\ Charged(r, n)
  BY Given
<1>2. /\ run[r].n \in Attempts /\ SharedOf(r) /\ Slots'
      /\ \A n \in Attempts :
            \/ shared'[<<r, n>>] = shared[<<r, n>>]
            \/ n = run[r].n /\ shared[<<r, n>>] = "reserved" /\ shared'[<<r, n>>] = "released"
      /\ SharedPolicy => shared'[<<r, run[r].n>>] \in {"released", "expired"}
  BY <1>1, SharedGivenBack DEF SpoolRelease, Executor
<1>3. RunAt(r, "full_released", run[r].n, run[r].out)
  BY <1>1, <1>2, RunTypes, RunGoes DEF SpoolRelease, RunSteps
<1>4. StepOf(r)
  BY <1>1, <1>2, <1>3, Unmoved, MovedRows DEF SpoolRelease, StepOf, authority, world
<1>5. /\ run[r].at = "full"
      /\ run'[r].at = "full_released" /\ run'[r].n = run[r].n /\ run'[r].out = run[r].out
      /\ UNCHANGED <<fix, journal, quota, chain, payload, completed, calls, atProvider, setting>>
  BY <1>1, <1>2, <1>3 DEF SpoolRelease, RunAt, authority, world
<1>6. Executor(r)'
  BY <1>1, <1>2, <1>3, <1>5, Numbered DEF Executor, Early, Named, Sent, Committing
<1>7. Recovery(r)'
  BY <1>1, <1>2, <1>3, <1>5, Numbered DEF Recovery, Executor, LiveRecovery
<1>8. Closed(r)'
  BY <1>1, <1>2, <1>3, <1>5, Numbered DEF Closed, Closing, Bound, FinalState, Executor, Recovery
<1>9. ASSUME NEW n \in Attempts PROVE CallMade(r, n)' /\ Charged(r, n)'
  <2>1. CallMade(r, n) /\ Charged(r, n)
    BY <1>1
  <2>2. CallMade(r, n)'
    BY <1>1, <1>2, <1>3, <1>5, <2>1, Numbered DEF CallMade, Unsent, Executor, Named, Sent, Committing, Early
  <2>3. Charged(r, n)'
    BY <1>1, <1>2, <1>3, <1>5, <2>1, <2>2, Numbered DEF Charged, RecoveryHeld, SharedPolicy, CallMade, Recovery, Executor, Unsent,
         Named, Sent, Committing, Early, LiveRecovery, NoFacts
  <2> QED BY <2>2, <2>3
<1>10. Slots'
  BY <1>2
<1> QED BY <1>4, <1>6, <1>7, <1>8, <1>9, <1>10, StepComposed DEF RequestInv

LEMMA StartTransportKeeps ==
    ASSUME RunInv, NEW r \in Requests, StartTransport(r), UNCHANGED setting
    PROVE  RunInv'
<1>1. /\ TypeOK /\ Slots /\ Executor(r) /\ Recovery(r) /\ Closed(r)
      /\ \A n \in Attempts : CallMade(r, n) /\ Charged(r, n)
  BY Given
<1>2. /\ RunAt(r, "started", run[r].n, run[r].out)
      /\ JournalAt(r, "transport_started")
  BY <1>1, RunTypes, RunGoes, JournalTakes DEF StartTransport, RunSteps, JournalStates, Append
<1>3. PayloadOf(r) /\ payload'[r].n = payload[r].n /\ payload'[r].out = payload[r].out
  BY <1>1, RunTypes, PayloadTakes DEF StartTransport
<1>4. StepOf(r)
  BY <1>1, <1>2, <1>3, Unmoved, MovedRows DEF StartTransport, StepOf, authority, world
<1>5. /\ run[r].at = "dispatched" /\ journal[r] = "reserved"
      /\ run'[r].at = "started" /\ run'[r].n = run[r].n /\ run'[r].out = run[r].out
      /\ journal'[r] = "transport_started"
      /\ UNCHANGED <<fix, quota, shared, chain, completed, calls, atProvider, setting>>
  BY <1>1, <1>2, <1>3 DEF StartTransport, RunAt, JournalAt, Append, authority, world
<1>6. Executor(r)'
  BY <1>1, <1>2, <1>3, <1>5, Numbered DEF Executor, Early, Named, Sent, Committing
<1>7. Recovery(r)'
  BY <1>1, <1>2, <1>3, <1>5, Numbered DEF Recovery, Executor, LiveRecovery
<1>8. Closed(r)'
  BY <1>1, <1>2, <1>3, <1>5, Numbered DEF Closed, Closing, Bound, FinalState, Executor, Recovery
<1>9. ASSUME NEW n \in Attempts PROVE CallMade(r, n)' /\ Charged(r, n)'
  <2>1. CallMade(r, n) /\ Charged(r, n)
    BY <1>1
  <2>2. CallMade(r, n)'
    BY <1>1, <1>2, <1>3, <1>5, <2>1, Numbered DEF CallMade, Unsent, Executor, Named, Sent, Committing, Early
  <2>3. Charged(r, n)'
    BY <1>1, <1>2, <1>3, <1>5, <2>1, <2>2, Numbered DEF Charged, RecoveryHeld, SharedPolicy, CallMade, Recovery, Executor, Unsent,
         Named, Sent, Committing, Early, LiveRecovery, NoFacts
  <2> QED BY <2>2, <2>3
<1>10. Slots'
  BY <1>5, SlotsKept
<1> QED BY <1>4, <1>6, <1>7, <1>8, <1>9, <1>10, StepComposed DEF RequestInv

LEMMA JournalObservedKeeps ==
    ASSUME RunInv, NEW r \in Requests, JournalObserved(r), UNCHANGED setting
    PROVE  RunInv'
<1>1. /\ TypeOK /\ Slots /\ Executor(r) /\ Recovery(r) /\ Closed(r)
      /\ \A n \in Attempts : CallMade(r, n) /\ Charged(r, n)
  BY Given
<1>2. /\ RunAt(r, "attempt", run[r].n, run[r].out)
      /\ JournalAt(r, "observed")
  BY <1>1, RunTypes, RunGoes, JournalTakes DEF JournalObserved, RunSteps, JournalStates, Append
<1>3. PayloadOf(r) /\ payload'[r].n = payload[r].n /\ payload'[r].out = run[r].out
  BY <1>1, RunTypes, PayloadTakes DEF JournalObserved
<1>4. StepOf(r)
  BY <1>1, <1>2, <1>3, Unmoved, MovedRows DEF JournalObserved, StepOf, authority, world
<1>5. /\ run[r].at = "shared_settled" /\ journal[r] = "transport_started"
      /\ run'[r].at = "attempt" /\ run'[r].n = run[r].n /\ run'[r].out = run[r].out
      /\ journal'[r] = "observed"
      /\ UNCHANGED <<fix, quota, shared, chain, completed, calls, atProvider, setting>>
  BY <1>1, <1>2, <1>3 DEF JournalObserved, RunAt, JournalAt, Append, authority, world
<1>6. Executor(r)'
  BY <1>1, <1>2, <1>3, <1>5, Numbered DEF Executor, Early, Named, Sent, Committing
<1>7. Recovery(r)'
  BY <1>1, <1>2, <1>3, <1>5, Numbered DEF Recovery, Executor, LiveRecovery
<1>8. Closed(r)'
  BY <1>1, <1>2, <1>3, <1>5, Numbered DEF Closed, Closing, Bound, FinalState, Executor, Recovery
<1>9. ASSUME NEW n \in Attempts PROVE CallMade(r, n)' /\ Charged(r, n)'
  <2>1. CallMade(r, n) /\ Charged(r, n)
    BY <1>1
  <2>2. CallMade(r, n)'
    BY <1>1, <1>2, <1>3, <1>5, <2>1, Numbered DEF CallMade, Unsent, Executor, Named, Sent, Committing, Early
  <2>3. Charged(r, n)'
    BY <1>1, <1>2, <1>3, <1>5, <2>1, <2>2, Numbered DEF Charged, RecoveryHeld, SharedPolicy, CallMade, Recovery, Executor, Unsent,
         Named, Sent, Committing, Early, LiveRecovery, NoFacts
  <2> QED BY <2>2, <2>3
<1>10. Slots'
  BY <1>5, SlotsKept
<1> QED BY <1>4, <1>6, <1>7, <1>8, <1>9, <1>10, StepComposed DEF RequestInv

(* The executor leaves off, or goes on without a change in any store: what    *)
(* the account has for its reservation is read, or no answer comes in time.   *)
LEMMA LeavesOff ==
    ASSUME RunInv, NEW r \in Requests, NEW at, NEW n, NEW out, RunAt(r, at, n, out),
           \/ at = "idle"
           \/ /\ run[r].at \in {"local", "local_again"} /\ n = run[r].n
              /\ at \in {"ended", "refused", "held"}
           \/ /\ run[r].at \in {"started", "calling"} /\ n = run[r].n
              /\ at = "answered" /\ out \notin Observations,
           UNCHANGED <<journal, payload, authority, shared, clocks, completed, fix, scan, world, setting>>
    PROVE  RunInv'
<1>1. /\ TypeOK /\ Slots /\ Executor(r) /\ Recovery(r) /\ Closed(r)
      /\ \A k \in Attempts : CallMade(r, k) /\ Charged(r, k)
  BY Given
<1>2. StepOf(r)
  BY <1>1, Unmoved, MovedRows DEF StepOf, authority, world
<1>3. /\ \/ run'[r].at = "idle"
         \/ /\ run[r].at \in {"local", "local_again"} /\ run'[r].n = run[r].n
            /\ run'[r].at \in {"ended", "refused", "held"}
         \/ /\ run[r].at \in {"started", "calling"} /\ run'[r].n = run[r].n
            /\ run'[r].at = "answered" /\ run'[r].out \notin Observations
      /\ UNCHANGED <<journal, payload, quota, chain, shared, completed, fix, calls, atProvider, setting>>
  BY DEF RunAt, authority, world
<1>4. Executor(r)' /\ Recovery(r)' /\ Closed(r)'
  BY <1>1, <1>3 DEF Executor, Early, Named, Sent, Committing, Recovery, LiveRecovery, Closed, Closing, Bound
<1>5. ASSUME NEW k \in Attempts PROVE CallMade(r, k)' /\ Charged(r, k)'
  BY <1>1, <1>3 DEF CallMade, Charged, RecoveryHeld, LiveRecovery, SharedPolicy
<1>6. Slots'
  BY <1>3, SlotsKept
<1> QED BY <1>2, <1>4, <1>5, <1>6, StepComposed DEF RequestInv

LEMMA RunStopKeeps ==
    ASSUME RunInv, NEW r \in Requests, RunStop(r), UNCHANGED setting
    PROVE  RunInv'
<1>1. RunAt(r, "idle", 0, "none")
  BY Given, RunIdles DEF RunStop
<1> QED BY <1>1, LeavesOff DEF RunStop

LEMMA SharedEndedKeeps ==
    ASSUME RunInv, NEW r \in Requests, SharedEnded(r), UNCHANGED setting
    PROVE  RunInv'
<1>1. \/ RunAt(r, "idle", 0, "none")
      \/ run[r].at = "local" /\ RunAt(r, "ended", run[r].n, run[r].out)
  BY Given, RunTypes, RunIdles, RunGoes DEF SharedEnded, RunSteps
<1> QED BY <1>1, LeavesOff DEF SharedEnded

LEMMA SharedRefusedKeeps ==
    ASSUME RunInv, NEW r \in Requests, SharedRefused(r), UNCHANGED setting
    PROVE  RunInv'
<1>1. \/ RunAt(r, "idle", 0, "none")
      \/ run[r].at = "local" /\ RunAt(r, "refused", run[r].n, run[r].out)
  BY Given, RunTypes, RunIdles, RunGoes DEF SharedRefused, RunSteps
<1> QED BY <1>1, LeavesOff DEF SharedRefused

LEMMA RefuseKeeps ==
    ASSUME RunInv, NEW r \in Requests, Refuse(r), UNCHANGED setting
    PROVE  RunInv'
<1>1. /\ TypeOK /\ Slots /\ Executor(r) /\ Recovery(r) /\ Closed(r)
      /\ \A n \in Attempts : CallMade(r, n) /\ Charged(r, n)
  BY Given
<1>2. run[r].n \in Attempts /\ journal[r] \in Unsent
  BY <1>1 DEF Refuse, Executor, Named, Early, Unsent
<1>3. /\ QuotaAt(r, run[r].n, "released")
      /\ quota[<<r, run[r].n>>] \in {"open", "released"} /\ chain[<<r, run[r].n>>] = NoFacts
      /\ \A n \in Attempts : calls[<<r, n>>] = 0
  BY <1>2, GivenBack, Uncalled DEF Refuse
<1>4. RunAt(r, "idle", 0, "none")
  BY <1>1, <1>2, <1>3, RunIdles DEF Refuse
<1>5. StepOf(r)
  BY <1>1, <1>2, <1>3, <1>4, Unmoved, MovedRows, MovedTables DEF Refuse, StepOf, authority, world
<1>6. /\ run[r].at = "refused"
      /\ run'[r].at = "idle" /\ run'[r].n = 0
      /\ \A n \in Attempts : quota'[<<r, n>>] = IF n = run[r].n THEN "released" ELSE quota[<<r, n>>]
      /\ UNCHANGED <<fix, journal, shared, chain, payload, completed, calls, atProvider, setting>>
  BY <1>1, <1>2, <1>3, <1>4 DEF Refuse, RunAt, QuotaAt, authority, world
<1>7. Executor(r)'
  BY <1>1, <1>2, <1>3, <1>4, <1>6, Numbered DEF Executor, Early, Named, Sent, Committing
<1>8. Recovery(r)'
  BY <1>1, <1>2, <1>3, <1>4, <1>6, Numbered DEF Recovery, Executor, LiveRecovery
<1>9. Closed(r)'
  BY <1>1, <1>2, <1>3, <1>4, <1>6, Numbered DEF Closed, Closing, Bound, FinalState, Executor, Recovery
<1>10. ASSUME NEW n \in Attempts PROVE CallMade(r, n)' /\ Charged(r, n)'
  <2>1. CallMade(r, n) /\ Charged(r, n)
    BY <1>1
  <2>2. CallMade(r, n)'
    BY <1>1, <1>2, <1>3, <1>4, <1>6, <2>1, Numbered DEF CallMade, Unsent, Executor, Named, Sent, Committing, Early
  <2>3. Charged(r, n)'
    BY <1>1, <1>2, <1>3, <1>4, <1>6, <2>1, <2>2, Numbered DEF Charged, RecoveryHeld, SharedPolicy, CallMade, Recovery, Executor, Unsent,
         Named, Sent, Committing, Early, LiveRecovery, NoFacts
  <2> QED BY <2>2, <2>3
<1>11. Slots'
  BY <1>6, SlotsKept
<1> QED BY <1>5, <1>7, <1>8, <1>9, <1>10, <1>11, StepComposed DEF RequestInv

LEMMA EndAttemptKeeps ==
    ASSUME RunInv, NEW r \in Requests, EndAttempt(r), UNCHANGED setting
    PROVE  RunInv'
<1>1. /\ TypeOK /\ Slots /\ Executor(r) /\ Recovery(r) /\ Closed(r)
      /\ \A n \in Attempts : CallMade(r, n) /\ Charged(r, n)
  BY Given
<1>2. run[r].n \in Attempts /\ journal[r] \in Unsent
  BY <1>1 DEF EndAttempt, Executor, Named, Early, Unsent
<1>3. /\ QuotaAt(r, run[r].n, "released")
      /\ quota[<<r, run[r].n>>] \in {"open", "released"} /\ chain[<<r, run[r].n>>] = NoFacts
      /\ \A n \in Attempts : calls[<<r, n>>] = 0
  BY <1>2, GivenBack, Uncalled DEF EndAttempt
<1>4. RunAt(r, "settled_ended", run[r].n, run[r].out)
  BY <1>1, <1>2, <1>3, RunTypes, RunGoes DEF EndAttempt, RunSteps
<1>5. StepOf(r)
  BY <1>1, <1>2, <1>3, <1>4, Unmoved, MovedRows, MovedTables DEF EndAttempt, StepOf, authority, world
<1>6. /\ run[r].at = "ended"
      /\ run'[r].at = "settled_ended" /\ run'[r].n = run[r].n /\ run'[r].out = run[r].out
      /\ \A n \in Attempts : quota'[<<r, n>>] = IF n = run[r].n THEN "released" ELSE quota[<<r, n>>]
      /\ UNCHANGED <<fix, journal, shared, chain, payload, completed, calls, atProvider, setting>>
  BY <1>1, <1>2, <1>3, <1>4 DEF EndAttempt, RunAt, QuotaAt, authority, world
<1>7. Executor(r)'
  BY <1>1, <1>2, <1>3, <1>4, <1>6, Numbered DEF Executor, Early, Named, Sent, Committing
<1>8. Recovery(r)'
  BY <1>1, <1>2, <1>3, <1>4, <1>6, Numbered DEF Recovery, Executor, LiveRecovery
<1>9. Closed(r)'
  BY <1>1, <1>2, <1>3, <1>4, <1>6, Numbered DEF Closed, Closing, Bound, FinalState, Executor, Recovery
<1>10. ASSUME NEW n \in Attempts PROVE CallMade(r, n)' /\ Charged(r, n)'
  <2>1. CallMade(r, n) /\ Charged(r, n)
    BY <1>1
  <2>2. CallMade(r, n)'
    BY <1>1, <1>2, <1>3, <1>4, <1>6, <2>1, Numbered DEF CallMade, Unsent, Executor, Named, Sent, Committing, Early
  <2>3. Charged(r, n)'
    BY <1>1, <1>2, <1>3, <1>4, <1>6, <2>1, <2>2, Numbered DEF Charged, RecoveryHeld, SharedPolicy, CallMade, Recovery, Executor, Unsent,
         Named, Sent, Committing, Early, LiveRecovery, NoFacts
  <2> QED BY <2>2, <2>3
<1>11. Slots'
  BY <1>6, SlotsKept
<1> QED BY <1>5, <1>7, <1>8, <1>9, <1>10, <1>11, StepComposed DEF RequestInv

LEMMA OpenSinkKeeps ==
    ASSUME RunInv, NEW r \in Requests, OpenSink(r), UNCHANGED setting
    PROVE  RunInv'
<1>1. /\ TypeOK /\ Slots /\ Executor(r) /\ Recovery(r) /\ Closed(r)
      /\ \A n \in Attempts : CallMade(r, n) /\ Charged(r, n)
  BY Given
<1>2. PICK at \in {"sink", "full"} : Goto(r, at)
  BY DEF OpenSink
<1>3. at \in RunSteps
  BY DEF RunSteps
<1>4. run[r].n \in Attempts /\ quota[<<r, run[r].n>>] = "open"
  BY <1>1 DEF OpenSink, Usable, Executor
<1>5. RunAt(r, at, run[r].n, run[r].out)
  BY <1>1, <1>2, <1>3, <1>4, RunTypes, RunGoes
<1>6. StepOf(r)
  BY <1>1, <1>2, <1>3, <1>4, <1>5, Unmoved, MovedRows DEF OpenSink, StepOf, authority, world
<1>7. /\ run[r].at = "journaled"
      /\ run'[r].at \in {"sink", "full"} /\ run'[r].n = run[r].n /\ run'[r].out = run[r].out
      /\ UNCHANGED <<fix, journal, quota, shared, chain, payload, completed, calls, atProvider, setting>>
  BY <1>1, <1>2, <1>3, <1>4, <1>5 DEF OpenSink, RunAt, authority, world
<1>8. Executor(r)'
  BY <1>1, <1>2, <1>3, <1>4, <1>5, <1>7, Numbered DEF Executor, Early, Named, Sent, Committing
<1>9. Recovery(r)'
  BY <1>1, <1>2, <1>3, <1>4, <1>5, <1>7, Numbered DEF Recovery, Executor, LiveRecovery
<1>10. Closed(r)'
  BY <1>1, <1>2, <1>3, <1>4, <1>5, <1>7, Numbered DEF Closed, Closing, Bound, FinalState, Executor, Recovery
<1>11. ASSUME NEW n \in Attempts PROVE CallMade(r, n)' /\ Charged(r, n)'
  <2>1. CallMade(r, n) /\ Charged(r, n)
    BY <1>1
  <2>2. CallMade(r, n)'
    BY <1>1, <1>2, <1>3, <1>4, <1>5, <1>7, <2>1, Numbered DEF CallMade, Unsent, Executor, Named, Sent, Committing, Early
  <2>3. Charged(r, n)'
    BY <1>1, <1>2, <1>3, <1>4, <1>5, <1>7, <2>1, <2>2, Numbered DEF Charged, RecoveryHeld, SharedPolicy, CallMade, Recovery, Executor, Unsent,
         Named, Sent, Committing, Early, LiveRecovery, NoFacts
  <2> QED BY <2>2, <2>3
<1>12. Slots'
  BY <1>7, SlotsKept
<1> QED BY <1>6, <1>8, <1>9, <1>10, <1>11, <1>12, StepComposed DEF RequestInv

LEMMA ReserveLocalKeeps ==
    ASSUME RunInv, NEW r \in Requests, ReserveLocal(r), UNCHANGED setting
    PROVE  RunInv'
<1>1. /\ TypeOK /\ Slots /\ Executor(r) /\ Recovery(r) /\ Closed(r)
      /\ \A n \in Attempts : CallMade(r, n) /\ Charged(r, n)
  BY Given
<1>2. PICK m \in 1 .. setting.attempts[r] :
         /\ quota[<<r, m>>] \in {"none", "open"}
         /\ quota' = [quota EXCEPT ![<<r, m>>] = "open"]
         /\ run' = [run EXCEPT ![r].at = "local", ![r].n = m]
  BY DEF ReserveLocal
<1>3. m \in Attempts /\ m \in 0 .. MaxAttempts
  <2>1. setting.attempts[r] \in 0 .. MaxAttempts /\ MaxAttempts \in Nat
    BY <1>1, ConnectorRunAssumption DEF TypeOK
  <2> QED BY <2>1 DEF Attempts
<1>4. QuotaAt(r, m, "open") /\ \A n \in Attempts : calls[<<r, n>>] = 0
  BY <1>1, <1>2, <1>3, QuotaSets, Uncalled DEF ReserveLocal, Executor, Early, Unsent, QuotaStates
<1>5. RunAt(r, "local", m, run[r].out)
  BY <1>1, <1>2, <1>3, <1>4, RunTypes, RunGoes DEF ReserveLocal, RunSteps
<1>6. StepOf(r)
  BY <1>1, <1>2, <1>3, <1>4, <1>5, Unmoved, MovedRows, MovedTables DEF ReserveLocal, StepOf, authority, world
<1>7. /\ run[r].at = "admitted"
      /\ run'[r].at = "local" /\ run'[r].n = m /\ run'[r].out = run[r].out
      /\ \A n \in Attempts : quota'[<<r, n>>] = IF n = m THEN "open" ELSE quota[<<r, n>>]
      /\ UNCHANGED <<fix, journal, shared, chain, payload, completed, calls, atProvider, setting>>
  BY <1>1, <1>2, <1>3, <1>4, <1>5 DEF ReserveLocal, RunAt, QuotaAt, authority, world
<1>8. Executor(r)'
  BY <1>1, <1>2, <1>3, <1>4, <1>5, <1>7, Numbered DEF Executor, Early, Named, Sent, Committing
<1>9. Recovery(r)'
  BY <1>1, <1>2, <1>3, <1>4, <1>5, <1>7, Numbered DEF Recovery, Executor, LiveRecovery
<1>10. Closed(r)'
  BY <1>1, <1>2, <1>3, <1>4, <1>5, <1>7, Numbered DEF Closed, Closing, Bound, FinalState, Executor, Recovery
<1>11. ASSUME NEW n \in Attempts PROVE CallMade(r, n)' /\ Charged(r, n)'
  <2>1. CallMade(r, n) /\ Charged(r, n)
    BY <1>1
  <2>2. CallMade(r, n)'
    BY <1>1, <1>2, <1>3, <1>4, <1>5, <1>7, <2>1, Numbered DEF CallMade, Unsent, Executor, Named, Sent, Committing, Early
  <2>3. Charged(r, n)'
    BY <1>1, <1>2, <1>3, <1>4, <1>5, <1>7, <2>1, <2>2, Numbered DEF Charged, RecoveryHeld, SharedPolicy, CallMade, Recovery, Executor, Unsent,
         Named, Sent, Committing, Early, LiveRecovery, NoFacts
  <2> QED BY <2>2, <2>3
<1>12. Slots'
  BY <1>7, SlotsKept
<1> QED BY <1>6, <1>8, <1>9, <1>10, <1>11, <1>12, StepComposed DEF RequestInv

LEMMA ReserveNextKeeps ==
    ASSUME RunInv, NEW r \in Requests, ReserveNext(r), UNCHANGED setting
    PROVE  RunInv'
<1>1. /\ TypeOK /\ Slots /\ Executor(r) /\ Recovery(r) /\ Closed(r)
      /\ \A n \in Attempts : CallMade(r, n) /\ Charged(r, n)
  BY Given
<1>2. /\ run[r].n \in Attempts /\ SharedOf(r) /\ Slots'
      /\ \A n \in Attempts :
            \/ shared'[<<r, n>>] = shared[<<r, n>>]
            \/ n = run[r].n /\ shared[<<r, n>>] = "reserved" /\ shared'[<<r, n>>] = "released"
      /\ SharedPolicy => shared'[<<r, run[r].n>>] \in {"released", "expired"}
  BY <1>1, SharedGivenBack DEF ReserveNext, Executor
<1>3. PICK m : m = run[r].n + 1
  OBVIOUS
<1>4. m \in Attempts /\ m \in 0 .. MaxAttempts /\ m # run[r].n
  <2>1. setting.attempts[r] \in 0 .. MaxAttempts /\ MaxAttempts \in Nat
    BY <1>1, ConnectorRunAssumption DEF TypeOK
  <2>2. m <= setting.attempts[r]
    BY <1>3 DEF ReserveNext
  <2> QED BY <1>2, <1>3, <2>1, <2>2 DEF Attempts
<1>5. /\ QuotaAt(r, m, "open")
      /\ run' = [run EXCEPT ![r].at = "local_again", ![r].n = m]
      /\ \A n \in Attempts : calls[<<r, n>>] = 0
  BY <1>1, <1>3, <1>4, QuotaSets, Uncalled DEF ReserveNext, Executor, Early, Unsent, QuotaStates
<1>6. RunAt(r, "local_again", m, run[r].out)
  BY <1>1, <1>2, <1>3, <1>4, <1>5, RunTypes, RunGoes DEF ReserveNext, RunSteps
<1>7. StepOf(r)
  BY <1>1, <1>2, <1>3, <1>4, <1>5, <1>6, Unmoved, MovedRows, MovedTables DEF ReserveNext, StepOf, authority, world
<1>8. /\ run[r].at = "settled_ended"
      /\ run'[r].at = "local_again" /\ run'[r].n = m /\ run'[r].out = run[r].out
      /\ \A n \in Attempts : quota'[<<r, n>>] = IF n = m THEN "open" ELSE quota[<<r, n>>]
      /\ UNCHANGED <<fix, journal, chain, payload, completed, calls, atProvider, setting>>
  BY <1>1, <1>2, <1>3, <1>4, <1>5, <1>6 DEF ReserveNext, RunAt, QuotaAt, authority, world
<1>9. Executor(r)'
  BY <1>1, <1>2, <1>3, <1>4, <1>5, <1>6, <1>8, Numbered DEF Executor, Early, Named, Sent, Committing
<1>10. Recovery(r)'
  BY <1>1, <1>2, <1>3, <1>4, <1>5, <1>6, <1>8, Numbered DEF Recovery, Executor, LiveRecovery
<1>11. Closed(r)'
  BY <1>1, <1>8, Numbered DEF Closed, Closing, Bound, FinalState, Executor, Recovery, Early
<1>12. ASSUME NEW n \in Attempts PROVE CallMade(r, n)' /\ Charged(r, n)'
  <2>1. CallMade(r, n) /\ Charged(r, n)
    BY <1>1
  <2>2. CallMade(r, n)'
    BY <1>1, <1>2, <1>3, <1>4, <1>5, <1>6, <1>8, <2>1, Numbered DEF CallMade, Unsent, Executor, Named, Sent, Committing, Early
  <2>3. Charged(r, n)'
    BY <1>1, <1>2, <1>3, <1>4, <1>5, <1>6, <1>8, <2>1, <2>2, Numbered DEF Charged, RecoveryHeld, SharedPolicy, CallMade, Recovery, Executor, Unsent,
         Named, Sent, Committing, Early, LiveRecovery, NoFacts
  <2> QED BY <2>2, <2>3
<1>13. Slots'
  BY <1>2
<1> QED BY <1>7, <1>9, <1>10, <1>11, <1>12, <1>13, StepComposed DEF RequestInv

(* The stages of a commit, in order.                                         *)
LEMMA StageSteps ==
    ASSUME NEW k \in 1 .. 3
    PROVE  /\ Stages[k] \in {"attempt", "usage", "cost"}
           /\ Stages[k + 1] \in {"usage", "cost", "settle"}
<1>1. k = 1 \/ k = 2 \/ k = 3
  OBVIOUS
<1> QED BY <1>1 DEF Stages

LEMMA MarkDispatchedKeeps ==
    ASSUME RunInv, NEW r \in Requests, MarkDispatched(r), UNCHANGED setting
    PROVE  RunInv'
<1>1. /\ TypeOK /\ Slots /\ Executor(r) /\ Recovery(r) /\ Closed(r)
      /\ \A n \in Attempts : CallMade(r, n) /\ Charged(r, n)
  BY Given
<1>2. run[r].at = "sink" /\ run[r].n \in Attempts
  BY <1>1 DEF MarkDispatched, Executor
<1>3. PICK v \in SharedStates :
         /\ SharedAt(r, run[r].n, v)
         /\ \/ v = shared[<<r, run[r].n>>] /\ (~SharedPolicy \/ v \in {"dispatched", "settled"})
            \/ shared[<<r, run[r].n>>] = "reserved" /\ v = "dispatched"
  <2>1. shared \in [Reservations -> SharedStates] /\ <<r, run[r].n>> \in Reservations
    BY <1>1, <1>2, TableTypes, Pairs
  <2>2. CASE UNCHANGED shared
    <3>1. SharedAt(r, run[r].n, shared[<<r, run[r].n>>]) /\ shared[<<r, run[r].n>>] \in SharedStates
      BY <2>1, <2>2 DEF SharedAt
    <3>2. ~SharedPolicy \/ shared[<<r, run[r].n>>] \in {"dispatched", "settled"}
      <4>1. shared[<<r, run[r].n>>] # "reserved" \/ ~SharedPolicy
        <5>1. ASSUME shared' = [shared EXCEPT ![<<r, run[r].n>>] = "dispatched"],
                     shared[<<r, run[r].n>>] = "reserved"
              PROVE  FALSE
          BY <2>1, <2>2, <5>1
        <5> QED BY <5>1 DEF MarkDispatched
      <4> QED BY <4>1 DEF MarkDispatched
    <3> QED BY <3>1, <3>2
  <2>3. CASE /\ shared[<<r, run[r].n>>] = "reserved"
             /\ shared' = [shared EXCEPT ![<<r, run[r].n>>] = "dispatched"]
    BY <1>1, <1>2, <2>3, SharedSets DEF SharedStates
  <2> QED BY <2>2, <2>3 DEF MarkDispatched
<1>4. /\ SharedOf(r) /\ Slots'
      /\ \A n \in Attempts :
            \/ shared'[<<r, n>>] = shared[<<r, n>>]
            \/ n = run[r].n /\ shared[<<r, n>>] = "reserved" /\ shared'[<<r, n>>] = "dispatched"
      /\ SharedPolicy => shared'[<<r, run[r].n>>] \in {"dispatched", "settled"}
  <2>1. \A s \in Requests, n \in Attempts :
           \/ shared'[<<s, n>>] = shared[<<s, n>>]
           \/ s = r /\ n = run[r].n /\ shared[<<s, n>>] = "reserved" /\ shared'[<<s, n>>] = "dispatched"
    BY <1>3 DEF SharedAt
  <2>2. Slots'
    BY <1>1, <2>1, SlotsStay
  <2> QED BY <1>2, <1>3, <2>1, <2>2 DEF SharedAt, SharedOf
<1>5. run[r].n = payload[r].n /\ journal[r] \in Unsent
  BY <1>1, <1>2 DEF Executor, Named, Unsent
<1>6. \A n \in Attempts : calls[<<r, n>>] = 0 /\ shared[<<r, n>>] # "settled"
  BY <1>5, Uncalled
<1>7. lapsed[<<r, run[r].n>>] \in BOOLEAN
  BY <1>1, <1>2, Pairs DEF TypeOK
<1>8. RunAt(r, "dispatched", run[r].n, run[r].out)
  BY <1>1, <1>2, <1>3, <1>4, <1>5, <1>6, <1>7, RunTypes, RunGoes DEF MarkDispatched, RunSteps
<1>9. StepOf(r)
  BY <1>1, <1>2, <1>3, <1>4, <1>5, <1>6, <1>7, <1>8, Unmoved, MovedRows DEF MarkDispatched, StepOf, authority, world
<1>10. /\ run[r].at = "sink"
       /\ run'[r].at = "dispatched" /\ run'[r].n = run[r].n /\ run'[r].out = run[r].out
       /\ UNCHANGED <<fix, journal, quota, chain, payload, completed, calls, atProvider, setting>>
  BY <1>1, <1>2, <1>3, <1>4, <1>5, <1>6, <1>7, <1>8 DEF MarkDispatched, RunAt, authority, world
<1>11. Executor(r)'
  BY <1>1, <1>2, <1>3, <1>4, <1>5, <1>6, <1>7, <1>8, <1>10, Numbered DEF Executor, Early, Named, Sent, Committing
<1>12. Recovery(r)'
  BY <1>1, <1>2, <1>3, <1>4, <1>5, <1>6, <1>7, <1>8, <1>10, Numbered DEF Recovery, Executor, LiveRecovery
<1>13. Closed(r)'
  BY <1>1, <1>2, <1>3, <1>4, <1>5, <1>6, <1>7, <1>8, <1>10, Numbered DEF Closed, Closing, Bound, FinalState, Executor, Recovery
<1>14. ASSUME NEW n \in Attempts PROVE CallMade(r, n)' /\ Charged(r, n)'
  <2>1. CallMade(r, n) /\ Charged(r, n)
    BY <1>1
  <2>2. CallMade(r, n)'
    BY <1>1, <1>2, <1>3, <1>4, <1>5, <1>6, <1>7, <1>8, <1>10, <2>1, Numbered DEF CallMade, Unsent, Executor, Named, Sent, Committing, Early
  <2>3. Charged(r, n)'
    BY <1>1, <1>2, <1>3, <1>4, <1>5, <1>6, <1>7, <1>8, <1>10, <2>1, <2>2, Numbered DEF Charged, RecoveryHeld, SharedPolicy, CallMade, Recovery, Executor, Unsent,
         Named, Sent, Committing, Early, LiveRecovery, NoFacts
  <2> QED BY <2>2, <2>3
<1>15. Slots'
  BY <1>4
<1> QED BY <1>9, <1>11, <1>12, <1>13, <1>14, <1>15, StepComposed DEF RequestInv

LEMMA SettleSharedKeeps ==
    ASSUME RunInv, NEW r \in Requests, SettleShared(r), UNCHANGED setting
    PROVE  RunInv'
<1>1. /\ TypeOK /\ Slots /\ Executor(r) /\ Recovery(r) /\ Closed(r)
      /\ \A n \in Attempts : CallMade(r, n) /\ Charged(r, n)
  BY Given
<1>2. run[r].at = "answered" /\ run[r].n \in Attempts
  BY <1>1 DEF SettleShared, Executor
<1>3. PICK v \in SharedStates :
         /\ SharedAt(r, run[r].n, v)
         /\ \/ v = shared[<<r, run[r].n>>]
            \/ /\ SharedPolicy /\ run[r].out \in Observations /\ v = "settled"
               /\ shared[<<r, run[r].n>>] \in {"dispatched", "settled"}
  <2>1. shared \in [Reservations -> SharedStates] /\ <<r, run[r].n>> \in Reservations
    BY <1>1, <1>2, TableTypes, Pairs
  <2>2. CASE SharedPolicy /\ run[r].out \in Observations
    <3>1. shared' = [shared EXCEPT ![<<r, run[r].n>>] = "settled"]
      BY <2>2 DEF SettleShared, Dispatched
    <3>2. SharedAt(r, run[r].n, "settled") /\ "settled" \in SharedStates
      BY <1>1, <1>2, <3>1, SharedSets DEF SharedStates
    <3>3. shared[<<r, run[r].n>>] \in {"dispatched", "settled"}
      BY <2>2 DEF SettleShared, Dispatched
    <3> QED BY <2>2, <3>2, <3>3
  <2>3. CASE ~(SharedPolicy /\ run[r].out \in Observations)
    <3>1. shared' = shared
      BY <2>3 DEF SettleShared
    <3>2. SharedAt(r, run[r].n, shared[<<r, run[r].n>>]) /\ shared[<<r, run[r].n>>] \in SharedStates
      BY <2>1, <3>1 DEF SharedAt
    <3> QED BY <3>2
  <2> QED BY <2>2, <2>3
<1>4. /\ SharedOf(r) /\ Slots'
      /\ \A n \in Attempts :
            \/ shared'[<<r, n>>] = shared[<<r, n>>]
            \/ /\ n = run[r].n /\ shared[<<r, n>>] \in {"dispatched", "settled"}
               /\ shared'[<<r, n>>] = "settled" /\ <<r, n>> \notin atProvider
  <2>1. \A s \in Requests, n \in Attempts :
           \/ shared'[<<s, n>>] = shared[<<s, n>>]
           \/ /\ s = r /\ n = run[r].n /\ shared[<<s, n>>] \in {"dispatched", "settled"}
              /\ shared'[<<s, n>>] = "settled" /\ run[r].out \in Observations
    BY <1>3 DEF SharedAt
  <2>2. run[r].out \in Observations => <<r, run[r].n>> \notin atProvider
    BY <1>1, <1>2 DEF Charged
  <2>3. \A s \in Requests, n \in Attempts :
           shared'[<<s, n>>] \in {"reserved", "dispatched"} => shared[<<s, n>>] \in {"reserved", "dispatched"}
    BY <2>1
  <2>4. Slots'
    BY <1>1, <2>3, SlotsStay
  <2> QED BY <1>2, <1>3, <2>1, <2>2, <2>4 DEF SharedAt, SharedOf
<1>5. RunAt(r, "shared_settled", run[r].n, run[r].out)
  BY <1>1, <1>2, <1>3, <1>4, RunTypes, RunGoes DEF SettleShared, RunSteps
<1>6. StepOf(r)
  BY <1>1, <1>2, <1>3, <1>4, <1>5, Unmoved, MovedRows DEF SettleShared, StepOf, authority, world
<1>7. /\ run[r].at = "answered"
      /\ run'[r].at = "shared_settled" /\ run'[r].n = run[r].n /\ run'[r].out = run[r].out
      /\ UNCHANGED <<fix, journal, quota, chain, payload, completed, calls, atProvider, setting>>
  BY <1>1, <1>2, <1>3, <1>4, <1>5 DEF SettleShared, RunAt, authority, world
<1>8. Executor(r)'
  BY <1>1, <1>2, <1>3, <1>4, <1>5, <1>7, Numbered DEF Executor, Early, Named, Sent, Committing
<1>9. Recovery(r)'
  BY <1>1, <1>2, <1>3, <1>4, <1>5, <1>7, Numbered DEF Recovery, Executor, LiveRecovery
<1>10. Closed(r)'
  BY <1>1, <1>2, <1>3, <1>4, <1>5, <1>7, Numbered DEF Closed, Closing, Bound, FinalState, Executor, Recovery
<1>11. ASSUME NEW n \in Attempts PROVE CallMade(r, n)' /\ Charged(r, n)'
  <2>1. CallMade(r, n) /\ Charged(r, n)
    BY <1>1
  <2>2. CallMade(r, n)'
    BY <1>1, <1>2, <1>3, <1>4, <1>5, <1>7, <2>1, Numbered DEF CallMade, Unsent, Executor, Named, Sent, Committing, Early
  <2>3. Charged(r, n)'
    BY <1>1, <1>2, <1>3, <1>4, <1>5, <1>7, <2>1, <2>2, Numbered DEF Charged, RecoveryHeld, SharedPolicy, CallMade, Recovery, Executor, Unsent,
         Named, Sent, Committing, Early, LiveRecovery, NoFacts
  <2> QED BY <2>2, <2>3
<1>12. Slots'
  BY <1>4
<1> QED BY <1>6, <1>8, <1>9, <1>10, <1>11, <1>12, StepComposed DEF RequestInv

LEMMA RunRecordKeeps ==
    ASSUME RunInv, NEW r \in Requests, RunRecord(r), UNCHANGED setting
    PROVE  RunInv'
<1>1. /\ TypeOK /\ Slots /\ Executor(r) /\ Recovery(r) /\ Closed(r)
      /\ \A n \in Attempts : CallMade(r, n) /\ Charged(r, n)
  BY Given
<1>2. PICK k \in 1 .. 3 :
         /\ run[r].at = Stages[k] /\ Goto(r, Stages[k + 1])
         /\ RecordFact(<<r, run[r].n>>, "commit", k, payload[r].late)
  BY DEF RunRecord
<1>3. /\ run[r].at \in {"attempt", "usage", "cost"}
      /\ Stages[k + 1] \in {"usage", "cost", "settle"}
  BY <1>2, StageSteps
<1>4. run[r].n \in Attempts
  BY <1>1, <1>3 DEF Executor
<1>5. PICK v \in Facts :
         /\ ChainAt(r, run[r].n, v)
         /\ \/ v = chain[<<r, run[r].n>>]
            \/ /\ chain[<<r, run[r].n>>].len < 3
               /\ quota[<<r, run[r].n>>] = "released" => chain[<<r, run[r].n>>] # NoFacts
  BY <1>1, <1>2, <1>4, FactRecorded
<1>6. PICK at \in {"usage", "cost", "settle"} : at = Stages[k + 1]
  BY <1>3
<1>7. at \in RunSteps
  BY DEF RunSteps
<1>8. ChainOf(r) /\ \A n \in Attempts : chain'[<<r, n>>] = IF n = run[r].n THEN v ELSE chain[<<r, n>>]
  BY <1>1, <1>4, <1>5, MovedTables DEF ChainAt
<1>9. RunAt(r, at, run[r].n, run[r].out)
  BY <1>1, <1>2, <1>3, <1>4, <1>5, <1>6, <1>7, <1>8, RunTypes, RunGoes DEF RunRecord, RunSteps
<1>10. StepOf(r)
  BY <1>1, <1>2, <1>3, <1>4, <1>5, <1>6, <1>7, <1>8, <1>9, Unmoved, MovedRows, MovedTables DEF RunRecord, StepOf, authority, world
<1>11. /\ run[r].at \in {"attempt", "usage", "cost"}
       /\ run'[r].at \in {"usage", "cost", "settle"} /\ run'[r].n = run[r].n
       /\ UNCHANGED <<fix, journal, quota, shared, payload, completed, calls, atProvider, setting>>
  BY <1>1, <1>2, <1>3, <1>4, <1>5, <1>6, <1>7, <1>8, <1>9 DEF RunRecord, RunAt, ChainAt, authority, world
<1>12. Executor(r)'
  BY <1>1, <1>2, <1>3, <1>4, <1>5, <1>6, <1>7, <1>8, <1>9, <1>11, Numbered DEF Executor, Early, Named, Sent, Committing
<1>13. Recovery(r)'
  BY <1>1, <1>2, <1>3, <1>4, <1>5, <1>6, <1>7, <1>8, <1>9, <1>11, Numbered DEF Recovery, Executor, LiveRecovery
<1>14. Closed(r)'
  BY <1>1, <1>2, <1>3, <1>4, <1>5, <1>6, <1>7, <1>8, <1>9, <1>11, Numbered DEF Closed, Closing, Bound, FinalState, Executor, Recovery
<1>15. ASSUME NEW n \in Attempts PROVE CallMade(r, n)' /\ Charged(r, n)'
  <2>1. CallMade(r, n) /\ Charged(r, n)
    BY <1>1
  <2>2. CallMade(r, n)'
    BY <1>1, <1>2, <1>3, <1>4, <1>5, <1>6, <1>7, <1>8, <1>9, <1>11, <2>1, Numbered DEF CallMade, Unsent, Executor, Named, Sent, Committing, Early
  <2>3. Charged(r, n)'
    BY <1>1, <1>2, <1>3, <1>4, <1>5, <1>6, <1>7, <1>8, <1>9, <1>11, <2>1, <2>2, Numbered DEF Charged, RecoveryHeld, SharedPolicy, CallMade, Recovery, Executor, Unsent,
         Named, Sent, Committing, Early, LiveRecovery, NoFacts
  <2> QED BY <2>2, <2>3
<1>16. Slots'
  BY <1>11, SlotsKept
<1> QED BY <1>10, <1>12, <1>13, <1>14, <1>15, <1>16, StepComposed DEF RequestInv

LEMMA RunSettleKeeps ==
    ASSUME RunInv, NEW r \in Requests, RunSettle(r), UNCHANGED setting
    PROVE  RunInv'
<1>1. /\ TypeOK /\ Slots /\ Executor(r) /\ Recovery(r) /\ Closed(r)
      /\ \A n \in Attempts : CallMade(r, n) /\ Charged(r, n)
  BY Given
<1>2. run[r].at = "settle" /\ run[r].n \in Attempts /\ run[r].n = payload[r].n
  BY <1>1 DEF RunSettle, Executor, Committing
<1>3. /\ FinalState(payload[r].out) \in {"consumed", "indeterminate"}
      /\ FinalState(payload[r].out) = "consumed" => payload[r].out \in {"succeeded", "rate_limited"}
  BY DEF FinalState
<1>4. /\ QuotaAt(r, run[r].n, FinalState(payload[r].out))
      /\ chain[<<r, run[r].n>>] = [by |-> "commit", len |-> 3]
      /\ quota[<<r, run[r].n>>] \in {"open", FinalState(payload[r].out)}
  BY <1>1, <1>2, <1>3, UsedSettled DEF RunSettle, QuotaStates
<1>5. /\ journal[r] \in {"observed", "responded"}
      /\ Bound(r) = <<r, run[r].n>> /\ Bound(r)' = <<r, run'[r].n>>
      /\ quota'[Bound(r)] = FinalState(payload[r].out) /\ payload' = payload
  BY <1>1, <1>2, <1>4 DEF RunSettle, Executor, Committing, Bound, QuotaAt, Goto
<1>6. RunAt(r, "complete", run[r].n, run[r].out)
  BY <1>1, <1>2, <1>3, <1>4, <1>5, RunTypes, RunGoes DEF RunSettle, RunSteps
<1>7. StepOf(r)
  BY <1>1, <1>2, <1>3, <1>4, <1>5, <1>6, Unmoved, MovedRows, MovedTables DEF RunSettle, StepOf, authority, world
<1>8. /\ run[r].at = "settle"
      /\ run'[r].at = "complete" /\ run'[r].n = run[r].n /\ run'[r].out = run[r].out
      /\ \A n \in Attempts : quota'[<<r, n>>] = IF n = run[r].n THEN FinalState(payload[r].out) ELSE quota[<<r, n>>]
      /\ UNCHANGED <<fix, journal, shared, chain, payload, completed, calls, atProvider, setting>>
  BY <1>1, <1>2, <1>3, <1>4, <1>5, <1>6 DEF RunSettle, RunAt, QuotaAt, authority, world
<1>9. Executor(r)'
  BY <1>1, <1>2, <1>3, <1>4, <1>5, <1>6, <1>8, Numbered DEF Executor, Early, Named, Sent, Committing
<1>10. Recovery(r)'
  BY <1>1, <1>2, <1>3, <1>4, <1>5, <1>6, <1>8, Numbered DEF Recovery, Executor, LiveRecovery
<1>11. Closed(r)'
  BY <1>1, <1>2, <1>4, <1>5, <1>8, Numbered DEF Closed, Closing, Bound, FinalState, Executor, Recovery
<1>12. ASSUME NEW n \in Attempts PROVE CallMade(r, n)' /\ Charged(r, n)'
  <2>1. CallMade(r, n) /\ Charged(r, n)
    BY <1>1
  <2>2. CallMade(r, n)'
    BY <1>1, <1>2, <1>3, <1>4, <1>5, <1>6, <1>8, <2>1, Numbered DEF CallMade, Unsent, Executor, Named, Sent, Committing, Early
  <2>3. Charged(r, n)'
    BY <1>1, <1>2, <1>3, <1>4, <1>5, <1>6, <1>8, <2>1, <2>2, Numbered DEF Charged, RecoveryHeld, SharedPolicy, CallMade, Recovery, Executor, Unsent,
         Named, Sent, Committing, Early, LiveRecovery, NoFacts
  <2> QED BY <2>2, <2>3
<1>13. Slots'
  BY <1>8, SlotsKept
<1> QED BY <1>7, <1>9, <1>10, <1>11, <1>12, <1>13, StepComposed DEF RequestInv

LEMMA RunCompleteKeeps ==
    ASSUME RunInv, NEW r \in Requests, RunComplete(r), UNCHANGED setting
    PROVE  RunInv'
<1>1. /\ TypeOK /\ Slots /\ Executor(r) /\ Recovery(r) /\ Closed(r)
      /\ \A n \in Attempts : CallMade(r, n) /\ Charged(r, n)
  BY Given
<1>2. RunAt(r, "respond", run[r].n, run[r].out)
  BY <1>1, RunTypes, RunGoes DEF RunComplete, RunSteps
<1>3. CompletedOf(r) /\ completed'[r] = TRUE
  BY <1>1 DEF RunComplete, CompletedOf, TypeOK
<1>4. StepOf(r)
  BY <1>1, <1>2, <1>3, Unmoved, MovedRows DEF RunComplete, StepOf, authority, world
<1>5. /\ run[r].at = "complete"
      /\ run'[r].at = "respond" /\ run'[r].n = run[r].n /\ run'[r].out = run[r].out
      /\ UNCHANGED <<fix, journal, quota, shared, chain, payload, calls, atProvider, setting>>
  BY <1>1, <1>2, <1>3 DEF RunComplete, RunAt, authority, world
<1>6. Executor(r)'
  BY <1>1, <1>2, <1>3, <1>5, Numbered DEF Executor, Early, Named, Sent, Committing
<1>7. Recovery(r)'
  BY <1>1, <1>2, <1>3, <1>5, Numbered DEF Recovery, Executor, LiveRecovery
<1>8. Closed(r)'
  BY <1>1, <1>2, <1>3, <1>5, Numbered DEF Closed, Closing, Bound, FinalState, Executor, Recovery
<1>9. ASSUME NEW n \in Attempts PROVE CallMade(r, n)' /\ Charged(r, n)'
  <2>1. CallMade(r, n) /\ Charged(r, n)
    BY <1>1
  <2>2. CallMade(r, n)'
    BY <1>1, <1>2, <1>3, <1>5, <2>1, Numbered DEF CallMade, Unsent, Executor, Named, Sent, Committing, Early
  <2>3. Charged(r, n)'
    BY <1>1, <1>2, <1>3, <1>5, <2>1, <2>2, Numbered DEF Charged, RecoveryHeld, SharedPolicy, CallMade, Recovery, Executor, Unsent,
         Named, Sent, Committing, Early, LiveRecovery, NoFacts
  <2> QED BY <2>2, <2>3
<1>10. Slots'
  BY <1>5, SlotsKept
<1> QED BY <1>4, <1>6, <1>7, <1>8, <1>9, <1>10, StepComposed DEF RequestInv

LEMMA RunRespondKeeps ==
    ASSUME RunInv, NEW r \in Requests, RunRespond(r), UNCHANGED setting
    PROVE  RunInv'
<1>1. /\ TypeOK /\ Slots /\ Executor(r) /\ Recovery(r) /\ Closed(r)
      /\ \A n \in Attempts : CallMade(r, n) /\ Charged(r, n)
  BY Given
<1>2. /\ RunAt(r, "idle", 0, "none")
      /\ JournalAt(r, "responded")
  BY <1>1, RunIdles, JournalTakes DEF RunRespond, JournalStates, Append
<1>3. StepOf(r)
  BY <1>1, <1>2, Unmoved, MovedRows DEF RunRespond, StepOf, authority, world
<1>4. /\ run[r].at = "respond" /\ journal[r] = "observed"
      /\ run'[r].at = "idle" /\ run'[r].n = 0
      /\ journal'[r] = "responded"
      /\ UNCHANGED <<fix, quota, shared, chain, payload, completed, calls, atProvider, setting>>
  BY <1>1, <1>2 DEF RunRespond, RunAt, JournalAt, Append, authority, world
<1>5. Executor(r)'
  BY <1>1, <1>2, <1>4, Numbered DEF Executor, Early, Named, Sent, Committing
<1>6. Recovery(r)'
  BY <1>1, <1>2, <1>4, Numbered DEF Recovery, Executor, LiveRecovery
<1>7. Closed(r)'
  BY <1>1, <1>2, <1>4, Numbered DEF Closed, Closing, Bound, FinalState, Executor, Recovery
<1>8. ASSUME NEW n \in Attempts PROVE CallMade(r, n)' /\ Charged(r, n)'
  <2>1. CallMade(r, n) /\ Charged(r, n)
    BY <1>1
  <2>2. CallMade(r, n)'
    BY <1>1, <1>2, <1>4, <2>1, Numbered DEF CallMade, Unsent, Executor, Named, Sent, Committing, Early
  <2>3. Charged(r, n)'
    BY <1>1, <1>2, <1>4, <2>1, <2>2, Numbered DEF Charged, RecoveryHeld, SharedPolicy, CallMade, Recovery, Executor, Unsent,
         Named, Sent, Committing, Early, LiveRecovery, NoFacts
  <2> QED BY <2>2, <2>3
<1>9. Slots'
  BY <1>4, SlotsKept
<1> QED BY <1>3, <1>5, <1>6, <1>7, <1>8, <1>9, StepComposed DEF RequestInv

(* A new row takes a slot that is free once the lapsed rows are expired.     *)
LEMMA SlotTaken ==
    ASSUME RunInv, NEW r \in Requests, NEW m \in Attempts, SharedPolicy, UNCHANGED setting,
           ~lapsed[<<r, m>>], shared[<<r, m>>] = "none", HasSlot,
           shared' = [q \in Reservations |->
                        IF q = <<r, m>> THEN "reserved"
                        ELSE IF q \in Lapsing THEN "expired" ELSE shared[q]]
    PROVE  /\ SharedOf(r) /\ Slots'
           /\ \A n \in Attempts :
                 \/ shared'[<<r, n>>] = shared[<<r, n>>]
                 \/ n = m /\ shared[<<r, n>>] = "none" /\ shared'[<<r, n>>] = "reserved"
                 \/ shared[<<r, n>>] = "reserved" /\ shared'[<<r, n>>] = "expired"
<1> DEFINE p == <<r, m>>
<1>1. p \in Reservations /\ shared \in [Reservations -> SharedStates]
  BY Pairs, TableTypes DEF RunInv
<1>2. \A q \in Reservations : shared'[q] = IF q = p THEN "reserved"
                                          ELSE IF q \in Lapsing THEN "expired" ELSE shared[q]
  OBVIOUS
<1>3. shared' \in [Reservations -> SharedStates]
  BY <1>1 DEF SharedStates
<1>4. \A q \in Reservations : q \in Lapsing => shared[q] = "reserved"
  BY DEF Lapsing
<1> HIDE DEF p
<1>5. \A s \in Requests, n \in Attempts :
         \/ shared'[<<s, n>>] = shared[<<s, n>>]
         \/ s = r /\ n = m /\ shared'[<<s, n>>] = "reserved"
         \/ shared[<<s, n>>] = "reserved" /\ shared'[<<s, n>>] = "expired"
  BY <1>2, <1>4, Pairs DEF p
<1>6. SharedOf(r)
  BY <1>3, <1>5 DEF SharedOf
<1>7. Slots'
  <2> DEFINE Kept == Holding \ Lapsing
  <2>1. Holding' \subseteq Kept \cup {p}
    BY <1>2 DEF Holding
  <2>2. IsFiniteSet(Kept)
    <3>1. IsFiniteSet(Attempts)
      BY ConnectorRunAssumption, FS_Interval DEF Attempts
    <3>2. IsFiniteSet(Reservations)
      BY <3>1, ConnectorRunAssumption, FS_Product DEF Reservations
    <3> QED BY <3>2, FS_Subset DEF Holding
  <2>3. Cardinality(Kept) < MaxConcurrency
    BY DEF HasSlot
  <2> HIDE DEF Kept
  <2>4. /\ IsFiniteSet(Kept \cup {p})
        /\ Cardinality(Kept \cup {p}) <= Cardinality(Kept) + 1
        /\ Cardinality(Kept) \in Nat
    <3>1. Cardinality(Kept) \in Nat
      BY <2>2, FS_CardinalityType
    <3>2. /\ IsFiniteSet(Kept \cup {p})
          /\ \/ Cardinality(Kept \cup {p}) = Cardinality(Kept)
             \/ Cardinality(Kept \cup {p}) = Cardinality(Kept) + 1
      BY <2>2, FS_AddElement
    <3> QED BY <3>1, <3>2
  <2>5. IsFiniteSet(Holding') /\ Cardinality(Holding') <= Cardinality(Kept \cup {p})
    BY <2>1, <2>4, FS_Subset
  <2>6. Cardinality(Holding') \in Nat /\ Cardinality(Kept \cup {p}) \in Nat
    BY <2>4, <2>5, FS_CardinalityType
  <2> QED BY <2>3, <2>4, <2>5, <2>6, ConnectorRunAssumption DEF Slots
<1> QED BY <1>5, <1>6, <1>7

LEMMA NewRowKeeps ==
    ASSUME RunInv, NEW r \in Requests, ReserveShared(r), ~UNCHANGED shared, UNCHANGED setting
    PROVE  RunInv'
<1>1. /\ TypeOK /\ Slots /\ Executor(r) /\ Recovery(r) /\ Closed(r)
      /\ \A n \in Attempts : CallMade(r, n) /\ Charged(r, n)
  BY Given
<1>2. run[r].at \in {"local", "local_again"} /\ run[r].n \in Attempts /\ journal[r] \in Unsent
  BY <1>1 DEF ReserveShared, Executor, Early, Unsent
<1>3. /\ SharedOf(r) /\ Slots'
      /\ \A n \in Attempts :
            \/ shared'[<<r, n>>] = shared[<<r, n>>]
            \/ n = run[r].n /\ shared[<<r, n>>] = "none" /\ shared'[<<r, n>>] = "reserved"
            \/ shared[<<r, n>>] = "reserved" /\ shared'[<<r, n>>] = "expired"
  BY <1>2, SlotTaken DEF ReserveShared
<1>4. \A n \in Attempts : calls[<<r, n>>] = 0
  BY <1>2, Uncalled
<1>5. payload[r].n \notin Attempts
  BY <1>1, <1>2, Numbered DEF Executor, Early
<1>6. RunAt(r, "held", run[r].n, run[r].out)
  BY <1>1, <1>2, <1>3, <1>4, <1>5, RunTypes, RunGoes DEF ReserveShared, RunSteps
<1>7. StepOf(r)
  BY <1>1, <1>2, <1>3, <1>4, <1>5, <1>6, Unmoved, MovedRows DEF ReserveShared, StepOf, authority, world
<1>8. /\ run[r].at \in {"local", "local_again"}
      /\ run'[r].at = "held" /\ run'[r].n = run[r].n /\ run'[r].out = run[r].out
      /\ UNCHANGED <<fix, journal, quota, chain, payload, completed, calls, atProvider, setting>>
  BY <1>1, <1>2, <1>3, <1>4, <1>5, <1>6 DEF ReserveShared, RunAt, authority, world
<1>9. Executor(r)'
  BY <1>1, <1>2, <1>3, <1>4, <1>5, <1>6, <1>8, Numbered DEF Executor, Early, Named, Sent, Committing
<1>10. Recovery(r)'
  BY <1>1, <1>2, <1>3, <1>4, <1>5, <1>6, <1>8, Numbered DEF Recovery, Executor, LiveRecovery
<1>11. Closed(r)'
  BY <1>1, <1>2, <1>3, <1>4, <1>5, <1>6, <1>8, Numbered DEF Closed, Closing, Bound, FinalState, Executor, Recovery
<1>12. ASSUME NEW n \in Attempts PROVE CallMade(r, n)' /\ Charged(r, n)'
  <2>1. CallMade(r, n) /\ Charged(r, n)
    BY <1>1
  <2>2. CallMade(r, n)'
    BY <1>1, <1>2, <1>3, <1>4, <1>5, <1>6, <1>8, <2>1, Numbered DEF CallMade, Unsent, Executor, Named, Sent, Committing, Early
  <2>3. Charged(r, n)'
    BY <1>1, <1>2, <1>3, <1>4, <1>5, <1>6, <1>8, <2>1, <2>2, Numbered DEF Charged, RecoveryHeld, SharedPolicy, CallMade, Recovery, Executor, Unsent,
         Named, Sent, Committing, Early, LiveRecovery, NoFacts
  <2> QED BY <2>2, <2>3
<1>13. Slots'
  BY <1>3
<1> QED BY <1>7, <1>9, <1>10, <1>11, <1>12, <1>13, StepComposed DEF RequestInv

LEMMA ReserveSharedKeeps ==
    ASSUME RunInv, NEW r \in Requests, ReserveShared(r), UNCHANGED setting
    PROVE  RunInv'
<1>1. CASE UNCHANGED shared
  <2>1. RunAt(r, "held", run[r].n, run[r].out)
    BY Given, RunTypes, RunGoes DEF ReserveShared, RunSteps
  <2> QED BY <1>1, <2>1, LeavesOff DEF ReserveShared
<1>2. CASE ~UNCHANGED shared
  BY <1>2, NewRowKeeps
<1> QED BY <1>1, <1>2

(* The call the watchdog lets through.                                       *)
Dials(r) ==
    /\ run[r].at = "started"
    /\ calls' = [calls EXCEPT ![<<r, run[r].n>>] = @ + 1]
    /\ atProvider' = atProvider \cup {<<r, run[r].n>>}
    /\ Goto(r, "calling")
    /\ UNCHANGED <<journal, payload, authority, shared, clocks, completed, fix, scan>>

LEMMA CalledKeeps ==
    ASSUME RunInv, NEW r \in Requests, Dials(r), UNCHANGED setting
    PROVE  RunInv'
<1>1. /\ TypeOK /\ Slots /\ Executor(r) /\ Recovery(r) /\ Closed(r)
      /\ \A n \in Attempts : CallMade(r, n) /\ Charged(r, n)
  BY Given
<1>2. run[r].at = "started" /\ run[r].n \in Attempts /\ run[r].n = payload[r].n /\ journal[r] \notin Unsent
  BY <1>1 DEF Dials, Executor, Sent, Unsent
<1>3. calls[<<r, run[r].n>>] = 0 /\ shared[<<r, run[r].n>>] # "settled"
  <2>1. calls[<<r, run[r].n>>] \in 0 .. 2
    BY <1>1, <1>2, TableTypes, Pairs
  <2> QED BY <1>1, <1>2, <2>1 DEF CallMade
<1>4. /\ RecoveryHeld => quota[<<r, run[r].n>>] # "released"
      /\ SharedPolicy => shared[<<r, run[r].n>>] = "dispatched"
  BY <1>1, <1>2, <1>3 DEF Charged
<1>5. RunAt(r, "calling", run[r].n, run[r].out)
  BY <1>1, <1>2, <1>3, <1>4, RunTypes, RunGoes DEF Dials, RunSteps
<1>6. /\ CallsOf(r)
      /\ calls'[<<r, run[r].n>>] = 1
      /\ \A n \in Attempts : n # run[r].n => calls'[<<r, n>>] = calls[<<r, n>>]
      /\ \A n \in Attempts : <<r, n>> \in atProvider' <=> n = run[r].n \/ <<r, n>> \in atProvider
  <2>1. calls \in [Reservations -> 0 .. 2] /\ atProvider \subseteq Reservations
    BY <1>1, TableTypes
  <2>2. calls' = [calls EXCEPT ![<<r, run[r].n>>] = 1]
    BY <1>3, <2>1 DEF Dials
  <2>3. /\ calls' \in [Reservations -> 0 .. 2]
        /\ calls'[<<r, run[r].n>>] = 1
        /\ \A s \in Requests, n \in Attempts :
              ~(s = r /\ n = run[r].n) => calls'[<<s, n>>] = calls[<<s, n>>]
    <3>1. calls' \in [Reservations -> 0 .. 2]
      <4> DEFINE T == 0 .. 2
      <4>1. 1 \in T /\ calls \in [Reservations -> T]
        BY <2>1
      <4> HIDE DEF T
      <4>2. calls' \in [Reservations -> T]
        BY <2>2, <4>1
      <4> QED BY <4>2 DEF T
    <3>2. <<r, run[r].n>> \in Reservations
      BY <1>2, Pairs
    <3>3. \A q \in Reservations : q # <<r, run[r].n>> => calls'[q] = calls[q]
      BY <2>1, <2>2
    <3> QED BY <1>2, <2>1, <2>2, <3>1, <3>2, <3>3, Pairs
  <2>4. \A s \in Requests, n \in Attempts :
           <<s, n>> \in atProvider' <=> (s = r /\ n = run[r].n) \/ <<s, n>> \in atProvider
    BY DEF Dials
  <2>5. atProvider' \subseteq Reservations
    BY <1>2, <2>1, Pairs DEF Dials
  <2> QED BY <2>3, <2>4, <2>5 DEF CallsOf
<1>7. StepOf(r)
  BY <1>1, <1>2, <1>3, <1>4, <1>5, <1>6, Unmoved, MovedRows DEF Dials, StepOf, authority, world
<1>8. /\ run[r].at = "started"
      /\ run'[r].at = "calling" /\ run'[r].n = run[r].n /\ run'[r].out = run[r].out
      /\ UNCHANGED <<fix, journal, quota, shared, chain, payload, completed, setting>>
  BY <1>1, <1>2, <1>3, <1>4, <1>5, <1>6 DEF Dials, RunAt, authority, world
<1>9. Executor(r)'
  BY <1>1, <1>2, <1>3, <1>4, <1>5, <1>6, <1>8, Numbered DEF Executor, Early, Named, Sent, Committing
<1>10. Recovery(r)'
  BY <1>1, <1>2, <1>3, <1>4, <1>5, <1>6, <1>8, Numbered DEF Recovery, Executor, LiveRecovery
<1>11. Closed(r)'
  BY <1>1, <1>2, <1>3, <1>4, <1>5, <1>6, <1>8, Numbered DEF Closed, Closing, Bound, FinalState, Executor, Recovery
<1>12. ASSUME NEW n \in Attempts PROVE CallMade(r, n)' /\ Charged(r, n)'
  <2>1. CallMade(r, n) /\ Charged(r, n)
    BY <1>1
  <2>2. CallMade(r, n)'
    <3>1. CASE n = run[r].n
      <4>1. calls'[<<r, n>>] <= 1 /\ n = payload'[r].n /\ journal'[r] \notin Unsent
        BY <1>2, <1>6, <1>8, <3>1
      <4>2. run'[r].at # "started"
        BY <1>8
      <4> QED BY <4>1, <4>2 DEF CallMade, Unsent
    <3>2. CASE n # run[r].n
      <4>1. calls'[<<r, n>>] = calls[<<r, n>>] /\ shared' = shared
        BY <1>6, <1>8, <3>2
      <4> QED BY <1>8, <2>1, <4>1 DEF CallMade, Unsent
    <3> QED BY <3>1, <3>2
  <2>3. Charged(r, n)'
    <3>1. CASE n = run[r].n
      <4>1. /\ <<r, n>> \in atProvider' /\ calls'[<<r, n>>] = 1
            /\ RecoveryHeld' => quota'[<<r, n>>] # "released"
            /\ SharedPolicy' => shared'[<<r, n>>] = "dispatched"
        BY <1>4, <1>6, <1>8, <3>1 DEF RecoveryHeld, LiveRecovery, SharedPolicy
      <4> QED BY <1>8, <2>1, <4>1 DEF Charged, SharedPolicy, NoFacts
    <3>2. CASE n # run[r].n
      <4>1. /\ calls'[<<r, n>>] = calls[<<r, n>>]
            /\ <<r, n>> \in atProvider' <=> <<r, n>> \in atProvider
        BY <1>6, <3>2
      <4> QED BY <1>8, <2>1, <3>2, <4>1 DEF Charged, RecoveryHeld, LiveRecovery, SharedPolicy, NoFacts
    <3> QED BY <3>1, <3>2
  <2> QED BY <2>2, <2>3
<1>13. Slots'
  BY <1>8, SlotsKept
<1> QED BY <1>7, <1>9, <1>10, <1>11, <1>12, <1>13, StepComposed DEF RequestInv

LEMMA CallAdapterKeeps ==
    ASSUME RunInv, NEW r \in Requests, CallAdapter(r), UNCHANGED setting
    PROVE  RunInv'
<1>1. CASE Dials(r)
  BY <1>1, CalledKeeps
<1>2. CASE run' = [run EXCEPT ![r].at = "answered", ![r].out = "timeout"] /\ UNCHANGED world
  <2>1. "answered" \in RunSteps /\ "timeout" \in Outcomes \cup {"none"}
    BY DEF RunSteps, Outcomes
  <2>2. RunAt(r, "answered", run[r].n, "timeout")
    BY <1>2, <2>1, Given, RunTypes, RunGoes
  <2>3. "timeout" \notin Observations
    BY DEF Observations
  <2> QED BY <1>2, <2>2, <2>3, LeavesOff DEF CallAdapter
<1> QED BY <1>1, <1>2 DEF CallAdapter, Dials

(* An observation: the provider is done.                                     *)
Observed(r, out) ==
    /\ run[r].at = "calling" /\ RunAt(r, "answered", run[r].n, out)
    /\ atProvider' = atProvider \ {<<r, run[r].n>>}
    /\ UNCHANGED <<journal, payload, authority, shared, clocks, completed, fix, scan, calls>>

LEMMA ObservedKeeps ==
    ASSUME RunInv, NEW r \in Requests, NEW out, Observed(r, out), UNCHANGED setting
    PROVE  RunInv'
<1>1. /\ TypeOK /\ Slots /\ Executor(r) /\ Recovery(r) /\ Closed(r)
      /\ \A n \in Attempts : CallMade(r, n) /\ Charged(r, n)
  BY Given
<1>2. run[r].at = "calling" /\ run[r].n \in Attempts
  BY <1>1 DEF Observed, Executor, Sent
<1>3. /\ CallsOf(r)
      /\ \A n \in Attempts : <<r, n>> \in atProvider' <=> n # run[r].n /\ <<r, n>> \in atProvider
  <2>1. calls \in [Reservations -> 0 .. 2] /\ atProvider \subseteq Reservations
    BY <1>1, TableTypes
  <2>2. \A s \in Requests, n \in Attempts :
           <<s, n>> \in atProvider' <=> ~(s = r /\ n = run[r].n) /\ <<s, n>> \in atProvider
    BY DEF Observed
  <2>3. atProvider' \subseteq Reservations /\ calls' = calls
    BY <2>1 DEF Observed
  <2> QED BY <2>1, <2>2, <2>3 DEF CallsOf
<1>4. StepOf(r)
  BY <1>1, <1>2, <1>3, Unmoved, MovedRows DEF Observed, StepOf, authority, world
<1>5. /\ run[r].at = "calling"
      /\ run'[r].at = "answered" /\ run'[r].n = run[r].n
      /\ UNCHANGED calls
      /\ UNCHANGED <<fix, journal, quota, shared, chain, payload, completed, setting>>
  BY <1>1, <1>2, <1>3 DEF Observed, authority, world, RunAt
<1>6. Executor(r)'
  BY <1>1, <1>2, <1>3, <1>5, Numbered DEF Executor, Early, Named, Sent, Committing
<1>7. Recovery(r)'
  BY <1>1, <1>2, <1>3, <1>5, Numbered DEF Recovery, Executor, LiveRecovery
<1>8. Closed(r)'
  BY <1>1, <1>2, <1>3, <1>5, Numbered DEF Closed, Closing, Bound, FinalState, Executor, Recovery
<1>9. ASSUME NEW n \in Attempts PROVE CallMade(r, n)' /\ Charged(r, n)'
  <2>1. CallMade(r, n) /\ Charged(r, n)
    BY <1>1
  <2>2. CallMade(r, n)'
    BY <1>1, <1>2, <1>3, <1>5, <2>1, Numbered DEF CallMade, Unsent, Executor, Named, Sent, Committing, Early
  <2>3. Charged(r, n)'
    BY <1>1, <1>2, <1>3, <1>5, <2>1, <2>2, Numbered DEF Charged, RecoveryHeld, SharedPolicy, CallMade, Recovery, Executor, Unsent,
         Named, Sent, Committing, Early, LiveRecovery, NoFacts
  <2> QED BY <2>2, <2>3
<1>10. Slots'
  BY <1>5, SlotsKept
<1> QED BY <1>4, <1>6, <1>7, <1>8, <1>9, <1>10, StepComposed DEF RequestInv

LEMMA AnswerKeeps ==
    ASSUME RunInv, NEW r \in Requests, Answer(r), UNCHANGED setting
    PROVE  RunInv'
<1>1. PICK out \in Outcomes :
         /\ run' = [run EXCEPT ![r].at = "answered", ![r].out = out]
         /\ atProvider' = IF out \in Observations THEN atProvider \ {<<r, run[r].n>>} ELSE atProvider
  BY DEF Answer
<1>2. RunAt(r, "answered", run[r].n, out)
  <2>1. "answered" \in RunSteps /\ out \in Outcomes \cup {"none"}
    BY DEF RunSteps
  <2> QED BY <1>1, <2>1, Given, RunTypes, RunGoes
<1>3. CASE out \notin Observations
  BY <1>1, <1>2, <1>3, LeavesOff DEF Answer, world
<1>4. CASE out \in Observations
  BY <1>1, <1>2, <1>4, ObservedKeeps DEF Answer, Observed
<1> QED BY <1>3, <1>4

-----------------------------------------------------------------------------
(* The recovery's steps *)

LEMMA RecoverBeginKeeps ==
    ASSUME RunInv, NEW r \in Requests, RecoverBegin(r), UNCHANGED setting
    PROVE  RunInv'
<1>1. /\ TypeOK /\ Slots /\ Executor(r) /\ Recovery(r) /\ Closed(r)
      /\ \A n \in Attempts : CallMade(r, n) /\ Charged(r, n)
  BY Given
<1>2. PICK at \in {"release", "unknown", "attempt"}, by \in {"none", "recovery", "commit"} :
         /\ fix' = [fix EXCEPT ![r] = [at |-> at, by |-> by]]
         /\ \/ journal[r] = "reserved" /\ at = "release" /\ by = "none"
            \/ journal[r] = "transport_started" /\ at = "unknown" /\ by = "recovery"
            \/ journal[r] = "observed" /\ at = "attempt" /\ by = "commit"
  BY DEF RecoverBegin
<1>3. at \in FixSteps /\ by \in {"none", "commit", "recovery"}
  BY DEF FixSteps
<1>4. FixAt(r, at, by)
  BY <1>1, <1>2, <1>3, RunTypes, FixGoes DEF RecoverBegin, FixSteps
<1>5. StepOf(r)
  BY <1>1, <1>2, <1>3, <1>4, Unmoved, MovedRows DEF RecoverBegin, StepOf, authority, world
<1>6. /\ ~LiveRecovery => run[r].at = "idle"
      /\ fix'[r].at = at /\ fix'[r].by = by
      /\ UNCHANGED <<run, journal, quota, shared, chain, payload, completed, calls, atProvider, setting>>
  BY <1>1, <1>2, <1>3, <1>4 DEF RecoverBegin, FixAt, authority, world
<1>7. Executor(r)'
  BY <1>1, <1>2, <1>3, <1>4, <1>6, Numbered DEF Executor, Early, Named, Sent, Committing
<1>8. Recovery(r)'
  BY <1>1, <1>2, <1>3, <1>4, <1>6, Numbered DEF Recovery, Executor, LiveRecovery
<1>9. Closed(r)'
  BY <1>1, <1>2, <1>3, <1>4, <1>6, Numbered DEF Closed, Closing, Bound, FinalState, Executor, Recovery
<1>10. ASSUME NEW n \in Attempts PROVE CallMade(r, n)' /\ Charged(r, n)'
  <2>1. CallMade(r, n) /\ Charged(r, n)
    BY <1>1
  <2>2. CallMade(r, n)'
    BY <1>1, <1>2, <1>3, <1>4, <1>6, <2>1, Numbered DEF CallMade, Unsent, Executor, Named, Sent, Committing, Early
  <2>3. Charged(r, n)'
    BY <1>1, <1>2, <1>3, <1>4, <1>6, <2>1, <2>2, Numbered DEF Charged, RecoveryHeld, SharedPolicy, CallMade, Recovery, Executor, Unsent,
         Named, Sent, Committing, Early, LiveRecovery, NoFacts
  <2> QED BY <2>2, <2>3
<1>11. Slots'
  BY <1>6, SlotsKept
<1> QED BY <1>5, <1>7, <1>8, <1>9, <1>10, <1>11, StepComposed DEF RequestInv

LEMMA RecoverStopKeeps ==
    ASSUME RunInv, NEW r \in Requests, RecoverStop(r), UNCHANGED setting
    PROVE  RunInv'
<1>1. /\ TypeOK /\ Slots /\ Executor(r) /\ Recovery(r) /\ Closed(r)
      /\ \A n \in Attempts : CallMade(r, n) /\ Charged(r, n)
  BY Given
<1>2. FixAt(r, "idle", "none")
  BY <1>1, RunTypes, FixGoes DEF RecoverStop, FixSteps
<1>3. StepOf(r)
  BY <1>1, <1>2, Unmoved, MovedRows DEF RecoverStop, StepOf, authority, world
<1>4. /\ fix[r].at # "idle"
      /\ fix'[r].at = "idle" /\ fix'[r].by = "none"
      /\ UNCHANGED <<run, journal, quota, shared, chain, payload, completed, calls, atProvider, setting>>
  BY <1>1, <1>2 DEF RecoverStop, FixAt, authority, world
<1>5. Executor(r)'
  BY <1>1, <1>2, <1>4, Numbered DEF Executor, Early, Named, Sent, Committing
<1>6. Recovery(r)'
  BY <1>1, <1>2, <1>4, Numbered DEF Recovery, Executor, LiveRecovery
<1>7. Closed(r)'
  BY <1>1, <1>2, <1>4, Numbered DEF Closed, Closing, Bound, FinalState, Executor, Recovery
<1>8. ASSUME NEW n \in Attempts PROVE CallMade(r, n)' /\ Charged(r, n)'
  <2>1. CallMade(r, n) /\ Charged(r, n)
    BY <1>1
  <2>2. CallMade(r, n)'
    BY <1>1, <1>2, <1>4, <2>1, Numbered DEF CallMade, Unsent, Executor, Named, Sent, Committing, Early
  <2>3. Charged(r, n)'
    BY <1>1, <1>2, <1>4, <2>1, <2>2, Numbered DEF Charged, RecoveryHeld, SharedPolicy, CallMade, Recovery, Executor, Unsent,
         Named, Sent, Committing, Early, LiveRecovery, NoFacts
  <2> QED BY <2>2, <2>3
<1>9. Slots'
  BY <1>4, SlotsKept
<1> QED BY <1>3, <1>5, <1>6, <1>7, <1>8, <1>9, StepComposed DEF RequestInv

LEMMA RecoverReleaseKeeps ==
    ASSUME RunInv, NEW r \in Requests, RecoverRelease(r), UNCHANGED setting
    PROVE  RunInv'
<1>1. /\ TypeOK /\ Slots /\ Executor(r) /\ Recovery(r) /\ Closed(r)
      /\ \A n \in Attempts : CallMade(r, n) /\ Charged(r, n)
  BY Given
<1>2. payload[r].n # 0 /\ fix[r].by = "none"
  BY <1>1 DEF RecoverRelease, Recovery
<1>3. /\ payload[r].n \in Attempts /\ SharedOf(r) /\ Slots'
      /\ \A n \in Attempts :
            \/ shared'[<<r, n>>] = shared[<<r, n>>]
            \/ n = payload[r].n /\ shared[<<r, n>>] = "reserved" /\ shared'[<<r, n>>] = "released"
      /\ SharedPolicy => shared'[<<r, payload[r].n>>] \in {"released", "expired"}
  BY <1>1, <1>2, Numbered, SharedGivenBack DEF RecoverRelease
<1>4. FixAt(r, "free", fix[r].by)
  BY <1>1, <1>2, <1>3, RunTypes, FixGoes DEF RecoverRelease, FixSteps
<1>5. StepOf(r)
  BY <1>1, <1>2, <1>3, <1>4, Unmoved, MovedRows DEF RecoverRelease, StepOf, authority, world
<1>6. /\ fix[r].at = "release"
      /\ fix'[r].at = "free" /\ fix'[r].by = fix[r].by
      /\ UNCHANGED <<run, journal, quota, chain, payload, completed, calls, atProvider, setting>>
  BY <1>1, <1>2, <1>3, <1>4 DEF RecoverRelease, FixAt, authority, world
<1>7. Executor(r)'
  BY <1>1, <1>2, <1>3, <1>4, <1>6, Numbered DEF Executor, Early, Named, Sent, Committing
<1>8. Recovery(r)'
  BY <1>1, <1>2, <1>3, <1>4, <1>6, Numbered DEF Recovery, Executor, LiveRecovery
<1>9. Closed(r)'
  BY <1>1, <1>2, <1>3, <1>4, <1>6, Numbered DEF Closed, Closing, Bound, FinalState, Executor, Recovery
<1>10. ASSUME NEW n \in Attempts PROVE CallMade(r, n)' /\ Charged(r, n)'
  <2>1. CallMade(r, n) /\ Charged(r, n)
    BY <1>1
  <2>2. CallMade(r, n)'
    BY <1>1, <1>2, <1>3, <1>4, <1>6, <2>1, Numbered DEF CallMade, Unsent, Executor, Named, Sent, Committing, Early
  <2>3. Charged(r, n)'
    BY <1>1, <1>2, <1>3, <1>4, <1>6, <2>1, <2>2, Numbered DEF Charged, RecoveryHeld, SharedPolicy, CallMade, Recovery, Executor, Unsent,
         Named, Sent, Committing, Early, LiveRecovery, NoFacts
  <2> QED BY <2>2, <2>3
<1>11. Slots'
  BY <1>3
<1> QED BY <1>5, <1>7, <1>8, <1>9, <1>10, <1>11, StepComposed DEF RequestInv

LEMMA RecoverUnknownKeeps ==
    ASSUME RunInv, NEW r \in Requests, RecoverUnknown(r), UNCHANGED setting
    PROVE  RunInv'
<1>1. /\ TypeOK /\ Slots /\ Executor(r) /\ Recovery(r) /\ Closed(r)
      /\ \A n \in Attempts : CallMade(r, n) /\ Charged(r, n)
  BY Given
<1>2. FixAt(r, "attempt", fix[r].by)
  BY <1>1, RunTypes, FixGoes DEF RecoverUnknown, FixSteps
<1>3. StepOf(r)
  BY <1>1, <1>2, Unmoved, MovedRows DEF RecoverUnknown, StepOf, authority, world
<1>4. /\ fix[r].at = "unknown"
      /\ fix'[r].at = "attempt" /\ fix'[r].by = fix[r].by
      /\ UNCHANGED <<run, journal, quota, shared, chain, payload, completed, calls, atProvider, setting>>
  BY <1>1, <1>2 DEF RecoverUnknown, FixAt, authority, world
<1>5. Executor(r)'
  BY <1>1, <1>2, <1>4, Numbered DEF Executor, Early, Named, Sent, Committing
<1>6. Recovery(r)'
  BY <1>1, <1>2, <1>4, Numbered DEF Recovery, Executor, LiveRecovery
<1>7. Closed(r)'
  BY <1>1, <1>2, <1>4, Numbered DEF Closed, Closing, Bound, FinalState, Executor, Recovery
<1>8. ASSUME NEW n \in Attempts PROVE CallMade(r, n)' /\ Charged(r, n)'
  <2>1. CallMade(r, n) /\ Charged(r, n)
    BY <1>1
  <2>2. CallMade(r, n)'
    BY <1>1, <1>2, <1>4, <2>1, Numbered DEF CallMade, Unsent, Executor, Named, Sent, Committing, Early
  <2>3. Charged(r, n)'
    BY <1>1, <1>2, <1>4, <2>1, <2>2, Numbered DEF Charged, RecoveryHeld, SharedPolicy, CallMade, Recovery, Executor, Unsent,
         Named, Sent, Committing, Early, LiveRecovery, NoFacts
  <2> QED BY <2>2, <2>3
<1>9. Slots'
  BY <1>4, SlotsKept
<1> QED BY <1>3, <1>5, <1>6, <1>7, <1>8, <1>9, StepComposed DEF RequestInv

LEMMA RecoverCompleteKeeps ==
    ASSUME RunInv, NEW r \in Requests, RecoverComplete(r), UNCHANGED setting
    PROVE  RunInv'
<1>1. /\ TypeOK /\ Slots /\ Executor(r) /\ Recovery(r) /\ Closed(r)
      /\ \A n \in Attempts : CallMade(r, n) /\ Charged(r, n)
  BY Given
<1>2. FixAt(r, "end", fix[r].by)
  BY <1>1, RunTypes, FixGoes DEF RecoverComplete, FixSteps
<1>3. CompletedOf(r) /\ completed'[r] = TRUE
  BY <1>1 DEF RecoverComplete, CompletedOf, TypeOK
<1>4. StepOf(r)
  BY <1>1, <1>2, <1>3, Unmoved, MovedRows DEF RecoverComplete, StepOf, authority, world
<1>5. /\ fix[r].at = "complete"
      /\ fix'[r].at = "end" /\ fix'[r].by = fix[r].by
      /\ UNCHANGED <<run, journal, quota, shared, chain, payload, calls, atProvider, setting>>
  BY <1>1, <1>2, <1>3 DEF RecoverComplete, FixAt, authority, world
<1>6. Executor(r)'
  BY <1>1, <1>2, <1>3, <1>5, Numbered DEF Executor, Early, Named, Sent, Committing
<1>7. Recovery(r)'
  BY <1>1, <1>2, <1>3, <1>5, Numbered DEF Recovery, Executor, LiveRecovery
<1>8. Closed(r)'
  BY <1>1, <1>2, <1>3, <1>5, Numbered DEF Closed, Closing, Bound, FinalState, Executor, Recovery
<1>9. ASSUME NEW n \in Attempts PROVE CallMade(r, n)' /\ Charged(r, n)'
  <2>1. CallMade(r, n) /\ Charged(r, n)
    BY <1>1
  <2>2. CallMade(r, n)'
    BY <1>1, <1>2, <1>3, <1>5, <2>1, Numbered DEF CallMade, Unsent, Executor, Named, Sent, Committing, Early
  <2>3. Charged(r, n)'
    BY <1>1, <1>2, <1>3, <1>5, <2>1, <2>2, Numbered DEF Charged, RecoveryHeld, SharedPolicy, CallMade, Recovery, Executor, Unsent,
         Named, Sent, Committing, Early, LiveRecovery, NoFacts
  <2> QED BY <2>2, <2>3
<1>10. Slots'
  BY <1>5, SlotsKept
<1> QED BY <1>4, <1>6, <1>7, <1>8, <1>9, <1>10, StepComposed DEF RequestInv

LEMMA RecoverEndKeeps ==
    ASSUME RunInv, NEW r \in Requests, RecoverEnd(r), UNCHANGED setting
    PROVE  RunInv'
<1>1. /\ TypeOK /\ Slots /\ Executor(r) /\ Recovery(r) /\ Closed(r)
      /\ \A n \in Attempts : CallMade(r, n) /\ Charged(r, n)
  BY Given
<1>2. PICK to \in {"released_recovered", "indeterminate_recovered", "responded"} :
         /\ journal' = [journal EXCEPT ![r] = to]
         /\ \/ fix[r].by = "none" /\ journal[r] = "reserved" /\ to = "released_recovered"
            \/ fix[r].by = "recovery" /\ journal[r] = "transport_started" /\ to = "indeterminate_recovered"
            \/ fix[r].by = "commit" /\ journal[r] = "observed" /\ to = "responded"
  <2>1. fix[r].by \in {"none", "recovery", "commit"}
    BY <1>1, RunTypes
  <2> QED BY <2>1 DEF RecoverEnd, Append
<1>3. to \in JournalStates
  BY DEF JournalStates
<1>4. /\ FixAt(r, "idle", "none")
      /\ JournalAt(r, to)
  BY <1>1, <1>2, <1>3, RunTypes, FixGoes, JournalTakes DEF RecoverEnd, FixSteps, JournalStates, Append
<1>5. StepOf(r)
  BY <1>1, <1>2, <1>3, <1>4, Unmoved, MovedRows DEF RecoverEnd, StepOf, authority, world
<1>6. /\ fix[r].at = "end"
      /\ fix'[r].at = "idle" /\ fix'[r].by = "none"
      /\ journal'[r] = to
      /\ UNCHANGED <<run, quota, shared, chain, payload, completed, calls, atProvider, setting>>
  BY <1>1, <1>2, <1>3, <1>4 DEF RecoverEnd, FixAt, JournalAt, Append, authority, world
<1>7. Executor(r)'
  BY <1>1, <1>2, <1>3, <1>4, <1>6, Numbered DEF Executor, Early, Named, Sent, Committing
<1>8. Recovery(r)'
  BY <1>1, <1>2, <1>3, <1>4, <1>6, Numbered DEF Recovery, Executor, LiveRecovery
<1>9. Closed(r)'
  BY <1>1, <1>2, <1>3, <1>4, <1>6, Numbered DEF Closed, Closing, Bound, FinalState, Executor, Recovery
<1>10. ASSUME NEW n \in Attempts PROVE CallMade(r, n)' /\ Charged(r, n)'
  <2>1. CallMade(r, n) /\ Charged(r, n)
    BY <1>1
  <2>2. CallMade(r, n)'
    BY <1>1, <1>2, <1>3, <1>4, <1>6, <2>1, Numbered DEF CallMade, Unsent, Executor, Named, Sent, Committing, Early
  <2>3. Charged(r, n)'
    BY <1>1, <1>2, <1>3, <1>4, <1>6, <2>1, <2>2, Numbered DEF Charged, RecoveryHeld, SharedPolicy, CallMade, Recovery, Executor, Unsent,
         Named, Sent, Committing, Early, LiveRecovery, NoFacts
  <2> QED BY <2>2, <2>3
<1>11. Slots'
  BY <1>6, SlotsKept
<1> QED BY <1>5, <1>7, <1>8, <1>9, <1>10, <1>11, StepComposed DEF RequestInv

LEMMA RecoverFreeKeeps ==
    ASSUME RunInv, NEW r \in Requests, RecoverFree(r), UNCHANGED setting
    PROVE  RunInv'
<1>1. /\ TypeOK /\ Slots /\ Executor(r) /\ Recovery(r) /\ Closed(r)
      /\ \A n \in Attempts : CallMade(r, n) /\ Charged(r, n)
  BY Given
<1>2. payload[r].n # 0 /\ payload[r].n \in Attempts /\ fix[r].by = "none"
  BY <1>1, Numbered DEF RecoverFree, Recovery
<1>3. /\ QuotaAt(r, payload[r].n, "released")
      /\ quota[<<r, payload[r].n>>] \in {"open", "released"} /\ chain[<<r, payload[r].n>>] = NoFacts
  BY <1>2, GivenBack DEF RecoverFree
<1>4. /\ SharedPolicy => shared[<<r, payload[r].n>>] \in {"released", "expired"}
      /\ ~LiveRecovery => run[r].at = "idle" /\ journal[r] = "reserved"
  BY <1>1, <1>2 DEF RecoverFree, Recovery, Charged
<1>5. RecoveryHeld => calls[<<r, payload[r].n>>] = 0
  <2>1. calls[<<r, payload[r].n>>] \in 0 .. 2
    BY <1>1, <1>2, TableTypes, Pairs
  <2>2. CASE SharedPolicy
    BY <1>1, <1>2, <1>4, <2>1, <2>2 DEF Charged
  <2>3. CASE ~LiveRecovery
    BY <1>2, <1>4, <2>3, Uncalled DEF Unsent
  <2> QED BY <2>2, <2>3 DEF RecoveryHeld
<1>6. FixAt(r, "end", fix[r].by)
  BY <1>1, <1>2, <1>3, <1>4, <1>5, RunTypes, FixGoes DEF RecoverFree, FixSteps
<1>7. StepOf(r)
  BY <1>1, <1>2, <1>3, <1>4, <1>5, <1>6, Unmoved, MovedRows, MovedTables DEF RecoverFree, StepOf, authority, world
<1>8. /\ fix[r].at = "free"
      /\ fix'[r].at = "end" /\ fix'[r].by = "none"
      /\ \A n \in Attempts : quota'[<<r, n>>] = IF n = payload[r].n THEN "released" ELSE quota[<<r, n>>]
      /\ UNCHANGED <<run, journal, shared, chain, payload, completed, calls, atProvider, setting>>
  BY <1>1, <1>2, <1>3, <1>4, <1>5, <1>6 DEF RecoverFree, FixAt, QuotaAt, authority, world
<1>9. Executor(r)'
  BY <1>1, <1>2, <1>3, <1>4, <1>5, <1>6, <1>8, Numbered DEF Executor, Early, Named, Sent, Committing
<1>10. Recovery(r)'
  BY <1>1, <1>2, <1>3, <1>4, <1>5, <1>6, <1>8, Numbered DEF Recovery, Executor, LiveRecovery
<1>11. Closed(r)'
  BY <1>1, <1>2, <1>3, <1>4, <1>5, <1>6, <1>8, Numbered DEF Closed, Closing, Bound, FinalState, Executor, Recovery
<1>12. ASSUME NEW n \in Attempts PROVE CallMade(r, n)' /\ Charged(r, n)'
  <2>1. CallMade(r, n) /\ Charged(r, n)
    BY <1>1
  <2>2. CallMade(r, n)'
    BY <1>1, <1>2, <1>3, <1>4, <1>5, <1>6, <1>8, <2>1, Numbered DEF CallMade, Unsent, Executor, Named, Sent, Committing, Early
  <2>3. Charged(r, n)'
    BY <1>1, <1>2, <1>3, <1>4, <1>5, <1>6, <1>8, <2>1, <2>2, Numbered DEF Charged, RecoveryHeld, SharedPolicy, CallMade, Recovery, Executor, Unsent,
         Named, Sent, Committing, Early, LiveRecovery, NoFacts
  <2> QED BY <2>2, <2>3
<1>13. Slots'
  BY <1>8, SlotsKept
<1> QED BY <1>7, <1>9, <1>10, <1>11, <1>12, <1>13, StepComposed DEF RequestInv

LEMMA RecoverRecordKeeps ==
    ASSUME RunInv, NEW r \in Requests, NEW k \in 1 .. 3, RecoverRecord(r, k), UNCHANGED setting
    PROVE  RunInv'
<1>1. /\ TypeOK /\ Slots /\ Executor(r) /\ Recovery(r) /\ Closed(r)
      /\ \A n \in Attempts : CallMade(r, n) /\ Charged(r, n)
  BY Given
<1>2. /\ fix[r].at \in {"attempt", "usage", "cost"}
      /\ Stages[k + 1] \in {"usage", "cost", "settle"}
  BY StageSteps DEF RecoverRecord
<1>3. payload[r].n \in Attempts /\ fix[r].by \in {"commit", "recovery"}
  BY <1>1, <1>2, Numbered DEF Recovery
<1>4. PICK v \in Facts :
         /\ ChainAt(r, payload[r].n, v)
         /\ \/ v = chain[<<r, payload[r].n>>]
            \/ /\ chain[<<r, payload[r].n>>].len < 3
               /\ quota[<<r, payload[r].n>>] = "released" => chain[<<r, payload[r].n>>] # NoFacts
  BY <1>1, <1>3, FactRecorded DEF RecoverRecord
<1>5. PICK at \in {"usage", "cost", "settle"} : at = Stages[k + 1]
  BY <1>2
<1>6. at \in FixSteps
  BY DEF FixSteps
<1>7. ChainOf(r) /\ \A n \in Attempts : chain'[<<r, n>>] = IF n = payload[r].n THEN v ELSE chain[<<r, n>>]
  BY <1>1, <1>3, <1>4, MovedTables DEF ChainAt
<1>8. FixAt(r, at, fix[r].by)
  BY <1>1, <1>2, <1>3, <1>4, <1>5, <1>6, <1>7, RunTypes, FixGoes DEF RecoverRecord, FixSteps
<1>9. StepOf(r)
  BY <1>1, <1>2, <1>3, <1>4, <1>5, <1>6, <1>7, <1>8, Unmoved, MovedRows, MovedTables DEF RecoverRecord, StepOf, authority, world
<1>10. /\ fix[r].at \in {"attempt", "usage", "cost"}
       /\ fix'[r].at \in {"usage", "cost", "settle"} /\ fix'[r].by = fix[r].by
       /\ UNCHANGED <<run, journal, quota, shared, payload, completed, calls, atProvider, setting>>
  BY <1>1, <1>2, <1>3, <1>4, <1>5, <1>6, <1>7, <1>8 DEF RecoverRecord, FixAt, ChainAt, authority, world
<1>11. Executor(r)'
  BY <1>1, <1>2, <1>3, <1>4, <1>5, <1>6, <1>7, <1>8, <1>10, Numbered DEF Executor, Early, Named, Sent, Committing
<1>12. Recovery(r)'
  BY <1>1, <1>2, <1>3, <1>4, <1>5, <1>6, <1>7, <1>8, <1>10, Numbered DEF Recovery, Executor, LiveRecovery
<1>13. Closed(r)'
  BY <1>1, <1>2, <1>3, <1>4, <1>5, <1>6, <1>7, <1>8, <1>10, Numbered DEF Closed, Closing, Bound, FinalState, Executor, Recovery
<1>14. ASSUME NEW n \in Attempts PROVE CallMade(r, n)' /\ Charged(r, n)'
  <2>1. CallMade(r, n) /\ Charged(r, n)
    BY <1>1
  <2>2. CallMade(r, n)'
    BY <1>1, <1>2, <1>3, <1>4, <1>5, <1>6, <1>7, <1>8, <1>10, <2>1, Numbered DEF CallMade, Unsent, Executor, Named, Sent, Committing, Early
  <2>3. Charged(r, n)'
    BY <1>1, <1>2, <1>3, <1>4, <1>5, <1>6, <1>7, <1>8, <1>10, <2>1, <2>2, Numbered DEF Charged, RecoveryHeld, SharedPolicy, CallMade, Recovery, Executor, Unsent,
         Named, Sent, Committing, Early, LiveRecovery, NoFacts
  <2> QED BY <2>2, <2>3
<1>15. Slots'
  BY <1>10, SlotsKept
<1> QED BY <1>9, <1>11, <1>12, <1>13, <1>14, <1>15, StepComposed DEF RequestInv

LEMMA RecoverSettleKeeps ==
    ASSUME RunInv, NEW r \in Requests, RecoverSettle(r), UNCHANGED setting
    PROVE  RunInv'
<1>1. /\ TypeOK /\ Slots /\ Executor(r) /\ Recovery(r) /\ Closed(r)
      /\ \A n \in Attempts : CallMade(r, n) /\ Charged(r, n)
  BY Given
<1>2. payload[r].n \in Attempts
  BY <1>1, Numbered DEF RecoverSettle, Recovery
<1>3. /\ FinalState(payload[r].out) \in {"consumed", "indeterminate"}
      /\ FinalState(payload[r].out) = "consumed" => payload[r].out \in {"succeeded", "rate_limited"}
  BY DEF FinalState
<1>4. PICK at \in {"complete", "end"}, final \in {"consumed", "indeterminate"} :
         /\ FixGoto(r, at) /\ SettleUsed(<<r, payload[r].n>>, fix[r].by, final)
         /\ \/ fix[r].by = "commit" /\ at = "complete" /\ final = FinalState(payload[r].out)
            \/ fix[r].by = "recovery" /\ at = "end" /\ final = "indeterminate"
  BY <1>3 DEF RecoverSettle
<1>5. /\ QuotaAt(r, payload[r].n, final)
      /\ chain[<<r, payload[r].n>>] = [by |-> fix[r].by, len |-> 3]
      /\ quota[<<r, payload[r].n>>] \in {"open", final}
  BY <1>1, <1>2, <1>4, UsedSettled DEF QuotaStates
<1>6. /\ chain[<<r, payload[r].n>>].len = 3
      /\ fix[r].by # "commit" => chain[<<r, payload[r].n>>] # [by |-> "commit", len |-> 3]
  <2>1. chain[<<r, payload[r].n>>].len = 3 /\ chain[<<r, payload[r].n>>].by = fix[r].by
    BY <1>5
  <2> QED BY <2>1
<1>7. at \in FixSteps
  BY DEF FixSteps
<1>8. FixAt(r, at, fix[r].by)
  BY <1>1, <1>2, <1>3, <1>4, <1>5, <1>6, <1>7, RunTypes, FixGoes DEF RecoverSettle, FixSteps
<1>9. StepOf(r)
  BY <1>1, <1>2, <1>3, <1>4, <1>5, <1>6, <1>7, <1>8, Unmoved, MovedRows, MovedTables DEF RecoverSettle, StepOf, authority, world
<1>10. /\ fix[r].at = "settle"
       /\ fix'[r].at = at /\ fix'[r].by = fix[r].by
       /\ \A n \in Attempts : quota'[<<r, n>>] = IF n = payload[r].n THEN final ELSE quota[<<r, n>>]
       /\ UNCHANGED <<run, journal, shared, chain, payload, completed, calls, atProvider, setting>>
  BY <1>1, <1>2, <1>3, <1>4, <1>5, <1>6, <1>7, <1>8 DEF RecoverSettle, FixAt, QuotaAt, authority, world
<1>11. Executor(r)'
  BY <1>1, <1>2, <1>3, <1>4, <1>5, <1>6, <1>7, <1>8, <1>10, Numbered DEF Executor, Early, Named, Sent, Committing
<1>12. Recovery(r)'
  BY <1>1, <1>2, <1>3, <1>4, <1>5, <1>6, <1>7, <1>8, <1>10, Numbered DEF Recovery, Executor, LiveRecovery
<1>13. Closed(r)'
  BY <1>1, <1>2, <1>3, <1>4, <1>5, <1>6, <1>7, <1>8, <1>10, Numbered DEF Closed, Closing, Bound, FinalState, Executor, Recovery
<1>14. ASSUME NEW n \in Attempts PROVE CallMade(r, n)' /\ Charged(r, n)'
  <2>1. CallMade(r, n) /\ Charged(r, n)
    BY <1>1
  <2>2. CallMade(r, n)'
    BY <1>1, <1>2, <1>3, <1>4, <1>5, <1>6, <1>7, <1>8, <1>10, <2>1, Numbered DEF CallMade, Unsent, Executor, Named, Sent, Committing, Early
  <2>3. Charged(r, n)'
    BY <1>1, <1>2, <1>3, <1>4, <1>5, <1>6, <1>7, <1>8, <1>10, <2>1, <2>2, Numbered DEF Charged, RecoveryHeld, SharedPolicy, CallMade, Recovery, Executor, Unsent,
         Named, Sent, Committing, Early, LiveRecovery, NoFacts
  <2> QED BY <2>2, <2>3
<1>15. Slots'
  BY <1>10, SlotsKept
<1> QED BY <1>9, <1>11, <1>12, <1>13, <1>14, <1>15, StepComposed DEF RequestInv

-----------------------------------------------------------------------------
(* The scan, time, and the account's owner *)

LEMMA APair ==
    ASSUME NEW p \in Reservations
    PROVE  p[1] \in Requests /\ p[2] \in Attempts /\ p = <<p[1], p[2]>>
  BY DEF Reservations

(* A step that leaves the requests alone: the scan's, the clocks'.           *)
LEMMA Aside ==
    ASSUME RunInv, TypeOK', Scanning',
           UNCHANGED <<journal, payload, authority, shared, completed, run, fix, world, setting>>
    PROVE  RunInv'
<1>1. \A s \in Requests : Env(s)
  BY DEF Env, authority, world
<1>2. Slots'
  BY SlotsKept
<1> QED BY <1>1, <1>2, EnvComposed

LEMMA ScanMoves ==
    ASSUME RunInv, ScanBegin \/ ScanList \/ ScanPick \/ ScanEnd, UNCHANGED setting
    PROVE  RunInv'
<1>1. TypeOK /\ Scanning
  BY DEF RunInv
<1>2. /\ scan.at \in {"idle", "list", "pick", "attempt", "usage", "cost", "settle"}
      /\ scan.covered \in SUBSET Reservations /\ scan.left \in SUBSET Reservations
      /\ scan.on \in Reservations \cup {<<>>}
  BY <1>1 DEF TypeOK
<1>3. /\ scan' \in [at : {"idle", "list", "pick", "attempt", "usage", "cost", "settle"},
                    covered : SUBSET Reservations, left : SUBSET Reservations,
                    on : Reservations \cup {<<>>}]
      /\ Scanning'
  <2>1. CASE ScanBegin
    <3> DEFINE named == {p \in Reservations : payload[p[1]].n = p[2]}
    <3>1. scan' = [scan EXCEPT !.at = "list", !.covered = named]
      BY <2>1 DEF ScanBegin
    <3>2. named \in SUBSET Reservations
      OBVIOUS
    <3> HIDE DEF named
    <3>3. scan' = [at |-> "list", covered |-> named, left |-> scan.left, on |-> scan.on]
      BY <1>1, <3>1 DEF TypeOK
    <3> QED BY <1>2, <3>2, <3>3 DEF Scanning
  <2>2. CASE ScanList
    <3> DEFINE found == {p \in Reservations : quota[p] = "open"} \ scan.covered
    <3>1. scan' = [at |-> "pick", covered |-> {}, on |-> <<>>, left |-> found]
      BY <2>2 DEF ScanList
    <3>2. found \in SUBSET Reservations
      OBVIOUS
    <3> HIDE DEF found
    <3> QED BY <3>1, <3>2 DEF Scanning
  <2>3. CASE ScanPick
    <3>1. PICK p \in scan.left : scan' = [scan EXCEPT !.at = "attempt", !.on = p, !.left = @ \ {p}]
      BY <2>3 DEF ScanPick
    <3>2. scan' = [at |-> "attempt", covered |-> scan.covered, left |-> scan.left \ {p}, on |-> p]
      BY <1>1, <3>1 DEF TypeOK
    <3> QED BY <1>2, <3>1, <3>2 DEF Scanning
  <2>4. CASE ScanEnd
    BY <2>4 DEF ScanEnd, Scanning
  <2> QED BY <2>1, <2>2, <2>3, <2>4
<1>4. UNCHANGED <<journal, payload, authority, shared, clocks, completed, run, fix, world>>
  BY DEF ScanBegin, ScanList, ScanPick, ScanEnd
<1>5. TypeOK'
  BY <1>1, <1>3, <1>4 DEF TypeOK, authority, world, clocks
<1> QED BY <1>3, <1>4, <1>5, Aside

(* A fact of the reservation the scan is on, and its settlement.             *)
LEMMA ScanRecordKeeps ==
    ASSUME RunInv, ScanRecord, UNCHANGED setting
    PROVE  RunInv'
<1>1. TypeOK /\ Slots /\ Scanning
  BY DEF RunInv
<1>2. PICK k \in 1 .. 3 : /\ scan.at = Stages[k]
                          /\ RecordFact(scan.on, "orphan", k, FALSE)
                          /\ scan' = [scan EXCEPT !.at = Stages[k + 1]]
  BY DEF ScanRecord
<1>3. scan.at \in {"attempt", "usage", "cost"} /\ Stages[k + 1] \in {"usage", "cost", "settle"}
  BY <1>2, StageSteps
<1>4. PICK r \in Requests, m \in Attempts : scan.on = <<r, m>>
  BY <1>1, <1>3, APair DEF Scanning
<1>5. PICK v \in Facts :
         /\ ChainAt(r, m, v)
         /\ \/ v = chain[<<r, m>>]
            \/ /\ chain[<<r, m>>].len < 3
               /\ quota[<<r, m>>] = "released" => chain[<<r, m>>] # NoFacts
  BY <1>1, <1>2, <1>4, FactRecorded
<1>6. quota[<<r, m>>] = "released" => chain[<<r, m>>] = NoFacts
  BY Given DEF Charged
<1>7. \A s \in Requests, n \in Attempts :
         \/ chain'[<<s, n>>] = chain[<<s, n>>]
         \/ chain[<<s, n>>].len < 3 /\ quota[<<s, n>>] # "released"
  BY <1>5, <1>6 DEF ChainAt
<1>8. UNCHANGED <<journal, payload, quota, shared, clocks, completed, run, fix, world, setting>>
  BY DEF ScanRecord
<1>9. \A s \in Requests : Env(s)
  BY <1>7, <1>8 DEF Env, world
<1>10. scan' \in [at : {"idle", "list", "pick", "attempt", "usage", "cost", "settle"},
                  covered : SUBSET Reservations, left : SUBSET Reservations,
                  on : Reservations \cup {<<>>}] /\ scan'.on = scan.on
  <2> DEFINE next == Stages[k + 1]
  <2>1. next \in {"usage", "cost", "settle"} /\ scan' = [scan EXCEPT !.at = next]
    BY <1>2, <1>3
  <2> HIDE DEF next
  <2>2. scan' = [at |-> next, covered |-> scan.covered, left |-> scan.left, on |-> scan.on]
    BY <1>1, <2>1 DEF TypeOK
  <2>3. /\ scan.covered \in SUBSET Reservations /\ scan.left \in SUBSET Reservations
        /\ scan.on \in Reservations \cup {<<>>}
    BY <1>1 DEF TypeOK
  <2> QED BY <2>1, <2>2, <2>3
<1>11. Scanning'
  BY <1>4, <1>10, Pairs DEF Scanning
<1>12. TypeOK'
  BY <1>1, <1>5, <1>8, <1>10 DEF TypeOK, ChainAt, Facts, clocks, world
<1>13. Slots'
  BY <1>8, SlotsKept
<1> QED BY <1>8, <1>9, <1>11, <1>12, <1>13, EnvComposed

LEMMA ScanSettleKeeps ==
    ASSUME RunInv, ScanSettle, UNCHANGED setting
    PROVE  RunInv'
<1>1. TypeOK /\ Slots /\ Scanning
  BY DEF RunInv
<1>2. PICK r \in Requests, m \in Attempts : scan.on = <<r, m>>
  BY <1>1, APair DEF Scanning, ScanSettle
<1>3. QuotaAt(r, m, "indeterminate") /\ quota[<<r, m>>] \in {"open", "indeterminate"}
  BY <1>1, <1>2, UsedSettled DEF ScanSettle, QuotaStates
<1>4. UNCHANGED <<journal, payload, chain, shared, clocks, completed, run, fix, world, setting>>
  BY DEF ScanSettle
<1>5. \A s \in Requests, n \in Attempts :
         \/ quota'[<<s, n>>] = quota[<<s, n>>]
         \/ quota[<<s, n>>] = "open" /\ quota'[<<s, n>>] = "indeterminate"
  BY <1>3 DEF QuotaAt
<1>6. \A s \in Requests : Env(s)
  BY <1>4, <1>5 DEF Env, world
<1>7. scan' = [at |-> "pick", covered |-> scan.covered, left |-> scan.left, on |-> <<>>]
  BY <1>1 DEF ScanSettle, TypeOK
<1>8. TypeOK' /\ Scanning'
  <2>1. scan.covered \in SUBSET Reservations /\ scan.left \in SUBSET Reservations
    BY <1>1 DEF TypeOK
  <2>2. scan' \in [at : {"idle", "list", "pick", "attempt", "usage", "cost", "settle"},
                   covered : SUBSET Reservations, left : SUBSET Reservations,
                   on : Reservations \cup {<<>>}] /\ Scanning'
    BY <1>7, <2>1 DEF Scanning
  <2> QED BY <1>1, <1>3, <1>4, <2>2 DEF TypeOK, QuotaAt, QuotaStates, clocks, world
<1>9. Slots'
  BY <1>4, SlotsKept
<1> QED BY <1>4, <1>6, <1>8, <1>9, EnvComposed

LEMMA ClocksKeep ==
    ASSUME RunInv, UNCHANGED setting,
           (\E p \in Reservations : Lapse(p)) \/ (\E r \in Requests : LapseLease(r))
    PROVE  RunInv'
<1>1. /\ lapsed' \in [Reservations -> BOOLEAN] /\ leased' \in [Requests -> BOOLEAN]
      /\ UNCHANGED <<journal, payload, authority, shared, completed, run, fix, scan, world>>
  <2>1. lapsed \in [Reservations -> BOOLEAN] /\ leased \in [Requests -> BOOLEAN]
    BY DEF RunInv, TypeOK
  <2>2. ASSUME NEW p \in Reservations, Lapse(p)
        PROVE  /\ lapsed' \in [Reservations -> BOOLEAN] /\ leased' = leased
               /\ UNCHANGED <<journal, payload, authority, shared, completed, run, fix, scan, world>>
    BY <2>1, <2>2 DEF Lapse
  <2>3. ASSUME NEW r \in Requests, LapseLease(r)
        PROVE  /\ lapsed' \in [Reservations -> BOOLEAN] /\ leased' \in [Requests -> BOOLEAN]
               /\ UNCHANGED <<journal, payload, authority, shared, completed, run, fix, scan, world>>
    BY <2>1, <2>3 DEF LapseLease
  <2> QED BY <2>1, <2>2, <2>3
<1>2. TypeOK' /\ Scanning'
  BY <1>1 DEF RunInv, TypeOK, Scanning, authority, world
<1> QED BY <1>1, <1>2, Aside

LEMMA OwnerReleaseKeeps ==
    ASSUME RunInv, NEW p \in Reservations, OwnerRelease(p), UNCHANGED setting
    PROVE  RunInv'
<1>1. TypeOK /\ Slots
  BY DEF RunInv
<1>2. p[1] \in Requests /\ p[2] \in Attempts /\ p = <<p[1], p[2]>>
  BY APair
<1>3. shared[<<p[1], p[2]>>] = "reserved" /\ ReleaseShared(<<p[1], p[2]>>)
  BY <1>2 DEF OwnerRelease
<1>4. SharedAt(p[1], p[2], "released")
  BY <1>1, <1>2, <1>3, SharedReleased
<1>5. \A s \in Requests, n \in Attempts :
         \/ shared'[<<s, n>>] = shared[<<s, n>>]
         \/ shared[<<s, n>>] = "reserved" /\ shared'[<<s, n>>] = "released"
  BY <1>3, <1>4 DEF SharedAt
<1>6. UNCHANGED <<journal, payload, authority, clocks, completed, run, fix, scan, world, setting>>
  BY DEF OwnerRelease
<1>7. \A s \in Requests : Env(s)
  BY <1>5, <1>6 DEF Env, authority, world
<1>8. TypeOK' /\ Scanning'
  BY <1>1, <1>4, <1>6 DEF RunInv, TypeOK, SharedAt, SharedStates, Scanning, authority, world, clocks
<1>9. Slots'
  BY <1>1, <1>5, SlotsStay
<1> QED BY <1>6, <1>7, <1>8, <1>9, EnvComposed

-----------------------------------------------------------------------------
(* The invariant holds *)

LEMMA InitInv ==
    ASSUME Init
    PROVE  RunInv
<1>1. TypeOK
  <2>1. /\ [n |-> 0, late |-> FALSE, out |-> "none"] \in
              [n : 0 .. MaxAttempts, late : BOOLEAN, out : Outcomes \cup {"none"}]
        /\ Idle \in [at : RunSteps, n : 0 .. MaxAttempts, late : BOOLEAN, out : Outcomes \cup {"none"}]
        /\ [at |-> "idle", by |-> "none"] \in [at : FixSteps, by : {"none", "commit", "recovery"}]
        /\ NoFacts \in [by : {"none", "commit", "recovery", "orphan"}, len : 0 .. 3]
    BY ConnectorRunAssumption DEF Idle, NoFacts, RunSteps, FixSteps
  <2>2. "none" \in JournalStates
    BY DEF JournalStates
  <2> QED BY <2>1, <2>2 DEF Init, TypeOK
<1>2. ASSUME NEW r \in Requests PROVE RequestInv(r)
  <2>1. /\ run[r].at = "idle" /\ fix[r] = [at |-> "idle", by |-> "none"]
        /\ journal[r] = "none" /\ payload[r].n = 0 /\ completed[r] = FALSE
    BY <1>2 DEF Init, Idle
  <2>2. Executor(r) /\ Recovery(r) /\ Closed(r)
    BY <2>1 DEF Executor, Early, Named, Sent, Committing, Recovery, Closed, Closing
  <2>3. ASSUME NEW n \in Attempts PROVE CallMade(r, n) /\ Charged(r, n)
    <3>1. /\ calls[<<r, n>>] = 0 /\ shared[<<r, n>>] = "none" /\ quota[<<r, n>>] = "none"
          /\ atProvider = {}
      BY <1>2, <2>3, Pairs DEF Init
    <3> QED BY <2>1, <3>1 DEF CallMade, Charged
  <2> QED BY <2>2, <2>3 DEF RequestInv
<1>3. Slots
  <2>1. Holding = {}
    BY DEF Init, Holding
  <2> QED BY <2>1, FS_EmptySet, ConnectorRunAssumption DEF Slots
<1>4. Scanning
  BY DEF Init, Scanning
<1> QED BY <1>1, <1>2, <1>3, <1>4 DEF RunInv

LEMMA NextInv ==
    ASSUME RunInv, [Next]_<<vars, setting>>
    PROVE  RunInv'
<1>1. ASSUME NEW r \in Requests, RunStep(r), UNCHANGED setting PROVE RunInv'
  BY <1>1, BeginKeeps, ReserveLocalKeeps, ReserveSharedKeeps, SharedEndedKeeps, SharedRefusedKeeps,
     RefuseKeeps, EndAttemptKeeps, ReserveNextKeeps, JournalReservedKeeps, OpenSinkKeeps,
     SpoolReleaseKeeps, SpoolSettleKeeps, SpoolJournalKeeps, MarkDispatchedKeeps, StartTransportKeeps,
     CallAdapterKeeps, AnswerKeeps, SettleSharedKeeps, JournalObservedKeeps, RunRecordKeeps,
     RunSettleKeeps, RunCompleteKeeps, RunRespondKeeps
     DEF RunStep
<1>2. ASSUME NEW r \in Requests, FixStep(r), UNCHANGED setting PROVE RunInv'
  BY <1>2, RecoverBeginKeeps, RecoverReleaseKeeps, RecoverFreeKeeps, RecoverUnknownKeeps,
     RecoverRecordKeeps, RecoverSettleKeeps, RecoverCompleteKeeps, RecoverEndKeeps
     DEF FixStep
<1>3. ASSUME NEW r \in Requests, RunStop(r) \/ RecoverStop(r) \/ LapseLease(r), UNCHANGED setting
      PROVE  RunInv'
  BY <1>3, RunStopKeeps, RecoverStopKeeps, ClocksKeep
<1>4. ASSUME ScanStep, UNCHANGED setting PROVE RunInv'
  BY <1>4, ScanMoves, ScanRecordKeeps, ScanSettleKeeps DEF ScanStep
<1>5. ASSUME NEW p \in Reservations, Lapse(p) \/ OwnerRelease(p), UNCHANGED setting PROVE RunInv'
  BY <1>5, ClocksKeep, OwnerReleaseKeeps
<1>6. CASE UNCHANGED <<vars, setting>>
  BY <1>6, Aside DEF RunInv, TypeOK, Scanning, vars, authority, world
<1> QED BY <1>1, <1>2, <1>3, <1>4, <1>5, <1>6 DEF Next

(* What a request has cost, told and been told, at every moment: the          *)
(* executor and the recoveries of ConnectorRun keep the invariant.           *)
THEOREM ConnectorInvariant ==
    Spec => []RunInv
<1>1. Init => RunInv
  BY InitInv
<1>2. RunInv /\ [Next]_<<vars, setting>> => RunInv'
  BY NextInv
<1> QED BY <1>1, <1>2, PTL DEF Spec

-----------------------------------------------------------------------------
(* What follows *)

(* One request is put to the provider at most once, under a reservation that  *)
(* is never given back and is consumed only for a measured outcome.          *)
THEOREM CallsAreAccounted ==
    Spec => []CallsAccounted
<1>1. ASSUME RunInv PROVE CallsAccounted
  <2>1. ASSUME NEW r \in Requests
        PROVE  /\ Cardinality({n \in Attempts : calls[<<r, n>>] > 0}) <= 1
               /\ \A n \in Attempts : calls[<<r, n>>] <= 1
    <3> DEFINE Called == {n \in Attempts : calls[<<r, n>>] > 0}
    <3>1. Called \subseteq {payload[r].n} /\ \A n \in Attempts : calls[<<r, n>>] <= 1
      BY <1>1, <2>1, Given DEF CallMade
    <3> HIDE DEF Called
    <3>2. IsFiniteSet({payload[r].n}) /\ Cardinality({payload[r].n}) = 1
      BY FS_Singleton
    <3>3. Cardinality(Called) <= 1
      BY <3>1, <3>2, FS_Subset
    <3> QED BY <3>1, <3>3 DEF Called
  <2>2. ASSUME NEW p \in Reservations, calls[p] > 0
        PROVE  /\ RecoveryHeld => quota[p] # "released"
               /\ SharedPolicy => shared[p] \in {"dispatched", "settled"}
               /\ quota[p] = "consumed" => payload[p[1]].out \in {"succeeded", "rate_limited"}
    <3>1. p[1] \in Requests /\ p[2] \in Attempts /\ p = <<p[1], p[2]>>
      BY APair
    <3>2. Charged(p[1], p[2])
      BY <1>1, <3>1, Given
    <3> QED BY <2>2, <3>1, <3>2 DEF Charged
  <2> QED BY <1>1, <2>1, <2>2 DEF CallsAccounted, OneCall, CalledStaysCharged, RunInv
<1> QED BY <1>1, ConnectorInvariant, PTL

(* The provider never has more calls of the account than the policy allows,   *)
(* the calls nobody waits for any more included.                             *)
THEOREM AccountIsBounded ==
    Spec => []AccountBound
<1>1. ASSUME RunInv PROVE AccountBound
  <2> SUFFICES ASSUME SharedPolicy PROVE Cardinality(atProvider) <= MaxConcurrency
    BY DEF AccountBound
  <2>1. atProvider \subseteq Holding
    <3>1. ASSUME NEW p \in atProvider PROVE shared[p] = "dispatched" /\ p \in Reservations
      <4>1. p \in Reservations
        BY <1>1, <3>1, TableTypes DEF RunInv
      <4>2. p[1] \in Requests /\ p[2] \in Attempts /\ p = <<p[1], p[2]>>
        BY <4>1, APair
      <4>3. Charged(p[1], p[2])
        BY <1>1, <4>2, Given
      <4> QED BY <3>1, <4>1, <4>2, <4>3 DEF Charged
    <3> QED BY <3>1 DEF Holding
  <2>2. IsFiniteSet(Holding)
    <3>1. IsFiniteSet(Attempts)
      BY ConnectorRunAssumption, FS_Interval DEF Attempts
    <3>2. IsFiniteSet(Reservations)
      BY <3>1, ConnectorRunAssumption, FS_Product DEF Reservations
    <3> QED BY <3>2, FS_Subset DEF Holding
  <2>3. Cardinality(Holding) <= MaxConcurrency
    BY <1>1 DEF RunInv, Slots
  <2>4. /\ IsFiniteSet(atProvider) /\ Cardinality(atProvider) <= Cardinality(Holding)
        /\ Cardinality(atProvider) \in Nat /\ Cardinality(Holding) \in Nat
    BY <2>1, <2>2, FS_Subset, FS_CardinalityType
  <2> QED BY <2>3, <2>4, ConnectorRunAssumption
<1> QED BY <1>1, ConnectorInvariant, PTL

(* The scheduler learns a result, and the journal closes a request, only over *)
(* a complete set of facts or an uncalled reservation that was given back.   *)
THEOREM ClosesOverFacts ==
    Spec => []ClosedOverFacts
<1>1. ASSUME RunInv PROVE ClosedOverFacts
  <2> SUFFICES ASSUME NEW r \in Requests
               PROVE  /\ completed[r] \/ journal[r] = "responded" =>
                            /\ chain[Bound(r)] = [by |-> "commit", len |-> 3]
                            /\ quota[Bound(r)] = FinalState(payload[r].out)
                      /\ journal[r] = "responded" => completed[r]
                      /\ journal[r] = "indeterminate_recovered" =>
                            chain[Bound(r)].len = 3 /\ quota[Bound(r)] = "indeterminate"
                      /\ journal[r] = "released_recovered" =>
                            chain[Bound(r)] = NoFacts /\ quota[Bound(r)] = "released" /\ calls[Bound(r)] = 0
    BY DEF ClosedOverFacts
  <2>1. Executor(r) /\ Closed(r) /\ TypeOK
    BY <1>1, Given
  <2>2. /\ completed[r] \/ journal[r] = "responded" =>
              /\ chain[Bound(r)] = [by |-> "commit", len |-> 3]
              /\ quota[Bound(r)] = FinalState(payload[r].out)
        /\ journal[r] = "responded" => completed[r]
    BY <2>1 DEF Closed, Closing
  <2>3. ASSUME journal[r] \in {"indeterminate_recovered", "released_recovered"}
        PROVE  payload[r].n \in Attempts /\ Charged(r, payload[r].n)
    <3>1. payload[r].n \in Attempts
      BY <2>1, <2>3, Numbered DEF Executor
    <3> QED BY <1>1, <3>1, Given
  <2>4. journal[r] = "indeterminate_recovered" =>
            chain[Bound(r)].len = 3 /\ quota[Bound(r)] = "indeterminate"
    BY <2>3 DEF Charged, Bound
  <2>5. ASSUME journal[r] = "released_recovered"
        PROVE  chain[Bound(r)] = NoFacts /\ quota[Bound(r)] = "released" /\ calls[Bound(r)] = 0
    <3>1. chain[Bound(r)] = NoFacts /\ quota[Bound(r)] = "released"
      BY <2>3, <2>5 DEF Charged, Bound
    <3>2. calls[Bound(r)] = 0
      BY <2>1, <2>3, <2>5, <1>1, Uncalled DEF Bound, Unsent
    <3> QED BY <3>1, <3>2
  <2> QED BY <2>2, <2>4, <2>5
<1> QED BY <1>1, ConnectorInvariant, PTL

-----------------------------------------------------------------------------
(* A request is never beyond help *)

(* The account has a row for the reservation the journal names, and the row   *)
(* of a call that has started says so.                                       *)
Rowed(r) == SharedPolicy =>
    /\ run[r].at = "held" => shared[<<r, run[r].n>>] # "none"
    /\ payload[r].n # 0 => shared[Bound(r)] # "none"
    /\ journal[r] \notin Unsent => shared[Bound(r)] \in {"dispatched", "settled"}

(* Facts have an author, and the author of a commit has seen the outcome.    *)
Authored(r, n) ==
    /\ chain[<<r, n>>] = NoFacts \/ (chain[<<r, n>>].by # "none" /\ chain[<<r, n>>].len >= 1)
    /\ chain[<<r, n>>].by = "commit" =>
          n = payload[r].n /\ journal[r] \in {"observed", "responded"}

(* A recovery that nobody disturbs has recorded what it has passed.          *)
Has(r, k) ==
    \/ chain[Bound(r)] = [by |-> fix[r].by, len |-> k]
    \/ fix[r].by = "commit" /\ chain[Bound(r)].by = "commit" /\ chain[Bound(r)].len >= k

Follows(r) == ~LiveRecovery =>
    /\ fix[r].by = "recovery" => journal[r] = "transport_started"
    /\ \A k \in 1 .. 3 : fix[r].at = Stages[k + 1] => Has(r, k)

(* The scan of orphans runs alone.                                           *)
Alone == ~LiveRecovery =>
    scan.at = "idle" \/ \A r \in Requests : run[r].at = "idle" /\ fix[r].at = "idle"

Helped(r) == Rowed(r) /\ Follows(r) /\ \A n \in Attempts : Authored(r, n)

HelpInv == Alone /\ \A r \in Requests : Helped(r)

(* A row of the account, once made, stays, and a dispatched one stays so.    *)
RowsStay ==
    \A s \in Requests, n \in Attempts :
        /\ shared[<<s, n>>] # "none" => shared'[<<s, n>>] # "none"
        /\ shared[<<s, n>>] \in {"dispatched", "settled"}
              => shared'[<<s, n>>] \in {"dispatched", "settled"}

LEMMA RowsReleased ==
    ASSUME TypeOK, NEW r \in Requests, NEW m \in Attempts, ReleaseShared(<<r, m>>)
    PROVE  RowsStay
<1>1. SharedAt(r, m, IF shared[<<r, m>>] = "reserved" THEN "released" ELSE shared[<<r, m>>])
  BY SharedReleased
<1> QED BY <1>1 DEF SharedAt, RowsStay

(* A step that moves executors and rows of the account, but neither journal,  *)
(* facts nor recoveries.                                                     *)
LEMMA MovesHelp ==
    ASSUME RunInv, HelpInv, RowsStay, UNCHANGED <<journal, payload, chain, fix, setting>>, Alone',
           \A s \in Requests : run'[s].at = "held" => 
               \/ ~SharedPolicy
               \/ run'[s] = run[s]
               \/ shared'[<<s, run'[s].n>>] # "none"
    PROVE  HelpInv'
<1>1. ASSUME NEW s \in Requests PROVE Helped(s)'
  <2>1. /\ Helped(s) /\ TypeOK /\ Executor(s)
        /\ journal'[s] = journal[s] /\ payload'[s] = payload[s] /\ fix'[s] = fix[s]
        /\ SharedPolicy' = SharedPolicy /\ LiveRecovery' = LiveRecovery
    BY Given DEF HelpInv, SharedPolicy, LiveRecovery
  <2>2. /\ Bound(s) = <<s, payload[s].n>> /\ Bound(s)' = Bound(s)
        /\ \A n \in Attempts : chain'[<<s, n>>] = chain[<<s, n>>]
        /\ chain' = chain
    BY <2>1 DEF Bound
  <2>3. payload[s].n # 0 => payload[s].n \in Attempts
    BY <2>1, Numbered
  <2>4. Rowed(s)'
    <3>1. payload[s].n # 0 => /\ shared[Bound(s)] # "none" => shared'[Bound(s)] # "none"
                              /\ shared[Bound(s)] \in {"dispatched", "settled"}
                                    => shared'[Bound(s)] \in {"dispatched", "settled"}
      BY <2>2, <2>3 DEF RowsStay
    <3>2. journal[s] \notin Unsent => payload[s].n # 0
      BY <2>1 DEF Executor, Unsent
    <3>3. run'[s].at = "held" /\ SharedPolicy => shared'[<<s, run'[s].n>>] # "none"
      BY <2>1 DEF Executor, RowsStay, Helped, Rowed
    <3> QED BY <2>1, <2>2, <3>1, <3>2, <3>3 DEF Helped, Rowed
  <2>5. Follows(s)'
    BY <2>1, <2>2 DEF Helped, Follows, Has
  <2>6. \A n \in Attempts : Authored(s, n)'
    BY <2>1, <2>2 DEF Helped, Authored
  <2> QED BY <2>4, <2>5, <2>6 DEF Helped
<1> QED BY <1>1 DEF HelpInv

(* The executor of r moves, and the scan does not: the scan stays alone.     *)
LEMMA RunsBeside ==
    ASSUME RunInv, HelpInv, NEW r \in Requests, RunStep(r), UNCHANGED setting
    PROVE  Alone' /\ UNCHANGED scan
<1>1. UNCHANGED scan /\ (run[r].at # "idle" \/ Begin(r))
  <2>1. CASE RunRecord(r)
    BY <2>1, StageSteps DEF RunRecord
  <2>2. CASE \/ Begin(r) \/ ReserveLocal(r) \/ ReserveShared(r) \/ SharedEnded(r) \/ SharedRefused(r)
             \/ Refuse(r) \/ EndAttempt(r) \/ ReserveNext(r) \/ JournalReserved(r) \/ OpenSink(r)
    BY <2>2 DEF Begin, ReserveLocal, ReserveShared, SharedEnded, SharedRefused, Refuse, EndAttempt,
                ReserveNext, JournalReserved, OpenSink
  <2>3. CASE \/ SpoolRelease(r) \/ SpoolSettle(r) \/ SpoolJournal(r) \/ MarkDispatched(r)
             \/ StartTransport(r) \/ CallAdapter(r) \/ Answer(r) \/ SettleShared(r)
             \/ JournalObserved(r) \/ RunSettle(r) \/ RunComplete(r) \/ RunRespond(r)
    BY <2>3 DEF SpoolRelease, SpoolSettle, SpoolJournal, MarkDispatched, StartTransport, CallAdapter,
                Answer, SettleShared, JournalObserved, RunSettle, RunComplete, RunRespond
  <2> QED BY <2>1, <2>2, <2>3 DEF RunStep
<1>2. LiveRecovery \/ scan.at = "idle"
  BY <1>1 DEF Begin, HelpInv, Alone
<1> QED BY <1>1, <1>2 DEF Alone, LiveRecovery

(* What the executor does between its journal entries.                       *)
LEMMA RunsBetween ==
    ASSUME RunInv, HelpInv, NEW r \in Requests, UNCHANGED setting,
           \/ ReserveLocal(r) \/ SharedEnded(r) \/ SharedRefused(r)
           \/ Refuse(r) \/ EndAttempt(r) \/ OpenSink(r) \/ SpoolSettle(r)
           \/ CallAdapter(r) \/ Answer(r) \/ RunSettle(r) \/ RunComplete(r)
    PROVE  HelpInv'
<1>1. run \in [Requests -> RunRow] /\ run[r] \in RunRow
  BY RunTypes DEF RunInv
<1>2. UNCHANGED <<journal, payload, chain, fix, shared>>
  BY DEF ReserveLocal, SharedEnded, SharedRefused, Refuse, EndAttempt, OpenSink, SpoolSettle,
         CallAdapter, Answer, RunSettle, RunComplete, authority
<1>3. RowsStay
  BY <1>2 DEF RowsStay
<1>4. \A s \in Requests : run'[s].at = "held" => run'[s] = run[s]
  <2>1. ASSUME NEW at, NEW n, NEW out, RunAt(r, at, n, out), at # "held"
        PROVE  \A s \in Requests : run'[s].at = "held" => run'[s] = run[s]
    BY <2>1 DEF RunAt
  <2>2. CASE run' = [run EXCEPT ![r] = Idle]
    <3>1. RunAt(r, "idle", 0, "none")
      BY <2>2, Given, RunIdles
    <3> QED BY <2>1, <3>1
  <2>3. ASSUME NEW step \in RunSteps \ {"held"}, Goto(r, step)
        PROVE  \A s \in Requests : run'[s].at = "held" => run'[s] = run[s]
    <3>1. RunAt(r, step, run[r].n, run[r].out)
      BY <2>3, Given, RunTypes, RunGoes
    <3> QED BY <2>1, <2>3, <3>1
  <2>4. CASE ReserveLocal(r)
    <3>1. PICK m \in 1 .. setting.attempts[r] : run' = [run EXCEPT ![r].at = "local", ![r].n = m]
      BY <2>4 DEF ReserveLocal
    <3>2. m \in 0 .. MaxAttempts
      <4>1. setting.attempts[r] \in 0 .. MaxAttempts /\ MaxAttempts \in Nat
        BY Given, ConnectorRunAssumption DEF TypeOK
      <4> QED BY <4>1
    <3>3. "local" \in RunSteps
      BY DEF RunSteps
    <3>4. RunAt(r, "local", m, run[r].out)
      BY <3>1, <3>2, <3>3, Given, RunTypes, RunGoes
    <3> QED BY <2>1, <3>4
  <2>5. ASSUME NEW out \in Outcomes, run' = [run EXCEPT ![r].at = "answered", ![r].out = out]
        PROVE  \A s \in Requests : run'[s].at = "held" => run'[s] = run[s]
    <3>1. "answered" \in RunSteps /\ out \in Outcomes \cup {"none"}
      BY DEF RunSteps
    <3>2. RunAt(r, "answered", run[r].n, out)
      BY <2>5, <3>1, Given, RunTypes, RunGoes
    <3> QED BY <2>1, <3>2
  <2>6. CASE CallAdapter(r)
    <3>1. "calling" \in RunSteps \ {"held"} /\ "timeout" \in Outcomes
      BY DEF RunSteps, Outcomes
    <3>2. \/ Goto(r, "calling")
          \/ run' = [run EXCEPT ![r].at = "answered", ![r].out = "timeout"]
      BY <2>6 DEF CallAdapter
    <3> QED BY <2>3, <2>5, <3>1, <3>2
  <2>7. CASE Answer(r)
    BY <2>5, <2>7 DEF Answer
  <2>8. CASE SharedEnded(r) \/ SharedRefused(r) \/ OpenSink(r)
    BY <2>2, <2>3, <2>8 DEF SharedEnded, SharedRefused, OpenSink, RunSteps
  <2>9. CASE Refuse(r) \/ EndAttempt(r) \/ SpoolSettle(r)
    BY <2>2, <2>3, <2>9 DEF Refuse, EndAttempt, SpoolSettle, RunSteps
  <2>10. CASE RunSettle(r) \/ RunComplete(r)
    BY <2>2, <2>3, <2>10 DEF RunSettle, RunComplete, RunSteps
  <2> QED BY <2>4, <2>6, <2>7, <2>8, <2>9, <2>10
<1>5. RunStep(r)
  BY DEF RunStep
<1> QED BY <1>2, <1>3, <1>4, <1>5, RunsBeside, MovesHelp

(* What it does to its row of the account.                                   *)
LEMMA RunsOnRow ==
    ASSUME RunInv, HelpInv, NEW r \in Requests, UNCHANGED setting,
           ReserveShared(r) \/ ReserveNext(r) \/ SpoolRelease(r) \/ MarkDispatched(r) \/ SettleShared(r)
    PROVE  HelpInv'
<1>1. /\ TypeOK /\ Executor(r) /\ run \in [Requests -> RunRow] /\ run[r] \in RunRow
      /\ shared \in [Reservations -> SharedStates]
  BY Given, RunTypes, TableTypes
<1>2. UNCHANGED <<journal, payload, chain, fix>>
  BY DEF ReserveShared, ReserveNext, SpoolRelease, MarkDispatched, SettleShared, authority
<1>3. run[r].n \in Attempts /\ <<r, run[r].n>> \in Reservations
  BY <1>1, Pairs DEF Executor, ReserveShared, ReserveNext, SpoolRelease, MarkDispatched, SettleShared
<1>4. RowsStay
  <2>1. CASE ReserveNext(r) \/ SpoolRelease(r)
    BY <1>1, <1>3, <2>1, RowsReleased DEF ReserveNext, SpoolRelease
  <2>2. CASE ReserveShared(r)
    <3>1. ASSUME NEW s \in Requests, NEW n \in Attempts
          PROVE  /\ shared'[<<s, n>>] = shared[<<s, n>>] \/ shared'[<<s, n>>] \in {"reserved", "expired"}
                 /\ shared'[<<s, n>>] # shared[<<s, n>>] => shared[<<s, n>>] \in {"none", "reserved"}
      BY <1>3, <2>2, Pairs DEF ReserveShared, Lapsing
    <3> QED BY <3>1 DEF RowsStay
  <2>3. CASE MarkDispatched(r) \/ SettleShared(r)
    <3>1. ASSUME NEW s \in Requests, NEW n \in Attempts
          PROVE  /\ shared'[<<s, n>>] = shared[<<s, n>>] \/ shared'[<<s, n>>] \in {"dispatched", "settled"}
      BY <1>1, <1>3, <2>3, Pairs DEF MarkDispatched, SettleShared
    <3> QED BY <3>1 DEF RowsStay
  <2> QED BY <2>1, <2>2, <2>3
<1>5. \A s \in Requests : run'[s].at = "held" =>
         ~SharedPolicy \/ run'[s] = run[s] \/ shared'[<<s, run'[s].n>>] # "none"
  <2>1. CASE ReserveNext(r) \/ SpoolRelease(r) \/ MarkDispatched(r) \/ SettleShared(r)
    BY <1>1, <2>1 DEF ReserveNext, SpoolRelease, MarkDispatched, SettleShared, Goto, RunRow
  <2>2. CASE ReserveShared(r)
    <3>1. run'[r].n = run[r].n /\ \A s \in Requests : s # r => run'[s] = run[s]
      BY <1>1, <2>2 DEF ReserveShared, Goto, RunRow
    <3>2. SharedPolicy => shared'[<<r, run[r].n>>] # "none"
      BY <1>1, <1>3, <2>2 DEF ReserveShared
    <3> QED BY <3>1, <3>2
  <2> QED BY <2>1, <2>2
<1>6. RunStep(r)
  BY DEF RunStep
<1> QED BY <1>2, <1>4, <1>5, <1>6, RunsBeside, MovesHelp

(* What it enters in the journal.                                            *)
LEMMA RunsJournal ==
    ASSUME RunInv, HelpInv, NEW r \in Requests, UNCHANGED setting,
           \/ Begin(r) \/ JournalReserved(r) \/ SpoolJournal(r) \/ StartTransport(r)
           \/ JournalObserved(r) \/ RunRespond(r)
    PROVE  HelpInv'
<1>1. /\ TypeOK /\ Executor(r) /\ Recovery(r) /\ run \in [Requests -> RunRow] /\ run[r] \in RunRow
      /\ journal \in [Requests -> JournalStates] /\ payload \in [Requests -> PayloadRow]
      /\ Helped(r) /\ \A n \in Attempts : Charged(r, n)
  BY Given, RunTypes, TableTypes DEF TypeOK, PayloadRow, HelpInv
<1>2. /\ UNCHANGED <<chain, fix, shared>>
      /\ SharedPolicy' = SharedPolicy /\ LiveRecovery' = LiveRecovery
  BY DEF Begin, JournalReserved, SpoolJournal, StartTransport, JournalObserved, RunRespond, authority,
         SharedPolicy, LiveRecovery
<1>3. \A s \in Requests : s # r =>
         journal'[s] = journal[s] /\ payload'[s] = payload[s] /\ run'[s] = run[s]
  BY <1>1 DEF Begin, JournalReserved, SpoolJournal, StartTransport, JournalObserved, RunRespond,
              Append, Goto
<1>4. ASSUME NEW s \in Requests, s # r PROVE Helped(s)'
  BY <1>2, <1>3, <1>4 DEF HelpInv, Helped, Rowed, Follows, Has, Authored, Bound
<1>5. /\ run'[r].at # "held"
      /\ \/ /\ Begin(r) /\ journal'[r] = "admitted" /\ payload'[r] = payload[r]
            /\ journal[r] \in {"none", "admitted"}
         \/ /\ JournalReserved(r) /\ journal[r] = "admitted" /\ journal'[r] = "reserved"
            /\ run[r].at = "held" /\ payload'[r].n = run[r].n
         \/ /\ SpoolJournal(r) /\ journal[r] = "reserved" /\ journal'[r] = "released_recovered"
            /\ run[r].at = "full_settled" /\ payload'[r] = payload[r]
         \/ /\ StartTransport(r) /\ journal[r] = "reserved" /\ journal'[r] = "transport_started"
            /\ run[r].at = "dispatched" /\ payload'[r].n = payload[r].n
         \/ /\ JournalObserved(r) /\ journal[r] = "transport_started" /\ journal'[r] = "observed"
            /\ run[r].at = "shared_settled" /\ payload'[r].n = payload[r].n
         \/ /\ RunRespond(r) /\ journal[r] = "observed" /\ journal'[r] = "responded"
            /\ run[r].at = "respond" /\ payload'[r] = payload[r]
  BY <1>1 DEF Begin, JournalReserved, SpoolJournal, StartTransport, JournalObserved, RunRespond,
              Append, Goto, Idle, RunRow, PayloadRow
<1>6. Rowed(r)'
  <2>1. CASE StartTransport(r)
    <3>1. run[r].n = payload[r].n /\ payload[r].n \in Attempts /\ payload'[r].n = payload[r].n
          /\ run[r].at = "dispatched" /\ run'[r].at # "held"
      BY <1>1, <1>5, <2>1 DEF Executor, Named, StartTransport, Begin, JournalReserved, SpoolJournal,
                              JournalObserved, RunRespond
    <3>2. SharedPolicy => shared[Bound(r)] \in {"dispatched", "settled"}
      BY <1>1, <3>1 DEF Charged, Bound
    <3> QED BY <1>2, <3>1, <3>2 DEF Rowed, Bound
  <2>2. CASE ~StartTransport(r)
    BY <1>1, <1>2, <1>5, <2>2 DEF Helped, Rowed, Bound, Unsent, Executor
  <2> QED BY <2>1, <2>2
<1>7. Follows(r)'
  <2>1. ASSUME ~LiveRecovery PROVE fix[r].at = "idle" /\ fix[r].by = "none"
    <3>1. run[r].at # "idle" \/ fix[r].at = "idle"
      BY <2>1 DEF Begin, JournalReserved, SpoolJournal, StartTransport, JournalObserved, RunRespond
    <3> QED BY <1>1, <2>1, <3>1 DEF Recovery
  <2>2. ~LiveRecovery => fix[r].by # "recovery" /\ \A k \in 1 .. 3 : fix[r].at # Stages[k + 1]
    BY <2>1, StageSteps
  <2> QED BY <1>2, <2>2 DEF Follows
<1>8. ASSUME NEW n \in Attempts PROVE Authored(r, n)'
  BY <1>1, <1>2, <1>5 DEF Helped, Authored
<1>9. RunStep(r)
  BY DEF RunStep
<1>10. Helped(r)'
  BY <1>6, <1>7, <1>8 DEF Helped
<1> QED BY <1>4, <1>9, <1>10, RunsBeside DEF HelpInv

(* The recovery of r moves, and the scan does not.                           *)
LEMMA FixesBeside ==
    ASSUME RunInv, HelpInv, NEW r \in Requests, FixStep(r), UNCHANGED setting
    PROVE  Alone' /\ UNCHANGED scan
<1>1. UNCHANGED scan /\ (fix[r].at # "idle" \/ RecoverBegin(r))
  <2>1. CASE \E k \in 1 .. 3 : RecoverRecord(r, k)
    BY <2>1, StageSteps DEF RecoverRecord
  <2>2. CASE \/ RecoverBegin(r) \/ RecoverRelease(r) \/ RecoverFree(r) \/ RecoverUnknown(r)
             \/ RecoverSettle(r) \/ RecoverComplete(r) \/ RecoverEnd(r)
    BY <2>2 DEF RecoverBegin, RecoverRelease, RecoverFree, RecoverUnknown, RecoverSettle,
                RecoverComplete, RecoverEnd
  <2> QED BY <2>1, <2>2 DEF FixStep
<1>2. LiveRecovery \/ scan.at = "idle"
  BY <1>1 DEF RecoverBegin, HelpInv, Alone
<1> QED BY <1>1, <1>2 DEF Alone, LiveRecovery

(* What a recovery does, but for its records and its end.                    *)
LEMMA FixesBetween ==
    ASSUME RunInv, HelpInv, NEW r \in Requests, UNCHANGED setting,
           \/ RecoverBegin(r) \/ RecoverRelease(r) \/ RecoverFree(r) \/ RecoverUnknown(r)
           \/ RecoverSettle(r) \/ RecoverComplete(r)
    PROVE  HelpInv'
<1>1. /\ TypeOK /\ Recovery(r) /\ Helped(r) /\ fix \in [Requests -> FixRow] /\ fix[r] \in FixRow
  BY Given, RunTypes DEF HelpInv
<1>2. /\ UNCHANGED <<journal, payload, chain, run>>
      /\ SharedPolicy' = SharedPolicy /\ LiveRecovery' = LiveRecovery
  BY DEF RecoverBegin, RecoverRelease, RecoverFree, RecoverUnknown, RecoverSettle, RecoverComplete,
         authority, SharedPolicy, LiveRecovery
<1>3. RowsStay
  <2>1. CASE RecoverRelease(r)
    <3>1. payload[r].n \in Attempts
      BY <1>1, <2>1, Numbered DEF RecoverRelease, Recovery
    <3> QED BY <1>1, <2>1, <3>1, RowsReleased DEF RecoverRelease
  <2>2. CASE ~RecoverRelease(r)
    BY <2>2 DEF RecoverBegin, RecoverFree, RecoverUnknown, RecoverSettle, RecoverComplete, RowsStay
  <2> QED BY <2>1, <2>2
<1>4. \A s \in Requests : s # r => fix'[s] = fix[s]
  BY <1>1 DEF RecoverBegin, RecoverRelease, RecoverFree, RecoverUnknown, RecoverSettle,
              RecoverComplete, FixGoto
<1>5. /\ fix'[r].at \in {"release", "free", "unknown", "attempt", "complete", "end"}
      /\ fix'[r].by = "recovery" => fix[r].by = "recovery" \/ journal[r] = "transport_started"
  BY <1>1 DEF RecoverBegin, RecoverRelease, RecoverFree, RecoverUnknown, RecoverSettle,
              RecoverComplete, FixGoto, FixRow, Stages
<1>6. \A k \in 1 .. 3 : fix'[r].at # Stages[k + 1]
  BY <1>5, StageSteps
<1>7. ASSUME NEW s \in Requests PROVE Follows(s)'
  <2>1. CASE s = r
    BY <1>1, <1>2, <1>5, <1>6, <2>1 DEF Helped, Follows
  <2>2. CASE s # r
    BY <1>2, <1>4, <2>2 DEF HelpInv, Helped, Follows, Has, Bound
  <2> QED BY <2>1, <2>2
<1>8. ASSUME NEW s \in Requests PROVE Rowed(s)' /\ \A n \in Attempts : Authored(s, n)'
  <2>1. Helped(s) /\ Executor(s)
    BY Given DEF HelpInv
  <2>2. payload[s].n # 0 => payload[s].n \in Attempts
    BY <1>1, Numbered
  <2>3. journal[s] \notin Unsent => payload[s].n # 0
    BY <2>1 DEF Executor, Unsent
  <2>4. run[s].at = "held" => run[s].n \in Attempts
    BY <2>1 DEF Executor
  <2>5. Rowed(s)'
    BY <1>2, <1>3, <2>1, <2>2, <2>3, <2>4 DEF Helped, Rowed, RowsStay, Bound
  <2> QED BY <1>2, <2>1, <2>5 DEF Helped, Authored
<1>9. FixStep(r)
  BY DEF FixStep
<1> QED BY <1>7, <1>8, <1>9, FixesBeside DEF HelpInv, Helped

(* A fact written, or found written.                                         *)
Written(r, m, by, k) ==
    /\ \A s \in Requests, n \in Attempts :
          chain'[<<s, n>>] = chain[<<s, n>>]
             \/ (s = r /\ n = m /\ chain'[<<s, n>>] = [by |-> by, len |-> k])
    /\ \/ chain'[<<r, m>>] = [by |-> by, len |-> k]
       \/ by = "commit" /\ chain'[<<r, m>>].by = "commit" /\ chain'[<<r, m>>].len >= k

LEMMA FactWritten ==
    ASSUME TypeOK, NEW r \in Requests, NEW m \in Attempts, NEW by \in {"commit", "recovery", "orphan"},
           NEW k \in 1 .. 3, NEW late, RecordFact(<<r, m>>, by, k, late)
    PROVE  Written(r, m, by, k)
<1>1. CASE IsRepeated(<<r, m>>, by, k) /\ UNCHANGED chain
  BY <1>1 DEF IsRepeated, Written
<1>2. CASE chain' = [chain EXCEPT ![<<r, m>>] = [by |-> by, len |-> k]]
  <2>1. [by |-> by, len |-> k] \in Facts
    BY DEF Facts
  <2>2. ChainAt(r, m, [by |-> by, len |-> k])
    BY <1>2, <2>1, ChainSets
  <2> QED BY <2>2 DEF ChainAt, Written
<1> QED BY <1>1, <1>2 DEF RecordFact

(* Whoever writes it, it has an author.                                      *)
LEMMA RecordHelps ==
    ASSUME RunInv, HelpInv, NEW r \in Requests, NEW m \in Attempts,
           NEW by \in {"commit", "recovery", "orphan"}, NEW k \in 1 .. 3, NEW late,
           RecordFact(<<r, m>>, by, k, late), UNCHANGED <<journal, payload, shared, setting>>,
           by = "commit" => m = payload[r].n /\ journal[r] \in {"observed", "responded"},
           \A s \in Requests : run'[s].at = "held" => run'[s] = run[s]
    PROVE  \A s \in Requests : Rowed(s)' /\ \A n \in Attempts : Authored(s, n)'
<1>1. Written(r, m, by, k)
  BY FactWritten DEF RunInv
<1> TAKE s \in Requests
<1>2. Helped(s) /\ SharedPolicy' = SharedPolicy
  BY DEF HelpInv, SharedPolicy
<1>3. Rowed(s)'
  BY <1>2 DEF Helped, Rowed, Bound
<1>4. ASSUME NEW n \in Attempts PROVE Authored(s, n)'
  <2>1. CASE chain'[<<s, n>>] = chain[<<s, n>>]
    BY <1>2, <2>1 DEF Helped, Authored
  <2>2. CASE s = r /\ n = m /\ chain'[<<s, n>>] = [by |-> by, len |-> k]
    BY <2>2 DEF Authored
  <2> QED BY <1>1, <2>1, <2>2 DEF Written
<1> QED BY <1>3, <1>4

LEMMA RunRecordHelps ==
    ASSUME RunInv, HelpInv, NEW r \in Requests, RunRecord(r), UNCHANGED setting
    PROVE  HelpInv'
<1>1. TypeOK /\ Executor(r) /\ Recovery(r) /\ run \in [Requests -> RunRow] /\ run[r] \in RunRow
  BY Given, RunTypes
<1>2. PICK k \in 1 .. 3 : /\ run[r].at = Stages[k] /\ Goto(r, Stages[k + 1])
                          /\ RecordFact(<<r, run[r].n>>, "commit", k, payload[r].late)
  BY DEF RunRecord
<1>3. UNCHANGED <<journal, payload, quota, shared, completed, fix, scan, setting>>
  BY DEF RunRecord
<1>4. /\ run[r].at \in {"attempt", "usage", "cost"} /\ Stages[k + 1] # "held"
  BY <1>2, StageSteps
<1>5. /\ run[r].n \in Attempts /\ run[r].n = payload[r].n
      /\ journal[r] \in {"observed", "responded"}
  BY <1>1, <1>4 DEF Executor, Committing
<1>6. \A s \in Requests : run'[s].at = "held" => run'[s] = run[s]
  BY <1>1, <1>2, <1>4 DEF Goto, RunRow
<1>7. \A s \in Requests : Rowed(s)' /\ \A n \in Attempts : Authored(s, n)'
  BY <1>2, <1>3, <1>5, <1>6, RecordHelps
<1>8. Written(r, run[r].n, "commit", k)
  BY <1>1, <1>2, <1>5, FactWritten
<1>9. ASSUME NEW s \in Requests PROVE Follows(s)'
  <2>1. CASE s = r
    <3>1. ~LiveRecovery => fix[r].at = "idle" /\ fix[r].by = "none"
      BY <1>1, <1>4 DEF Recovery
    <3>2. ~LiveRecovery => \A j \in 1 .. 3 : fix[r].at # Stages[j + 1]
      BY <3>1, StageSteps
    <3> QED BY <1>3, <2>1, <3>1, <3>2 DEF Follows, LiveRecovery
  <2>2. CASE s # r
    <3>1. payload[s].n # 0 => chain'[Bound(s)] = chain[Bound(s)]
      BY <1>1, <1>8, <2>2, Numbered DEF Bound, Written
    <3>2. fix[s].at # "idle" => payload[s].n # 0
      BY Given DEF Recovery
    <3>3. \A j \in 1 .. 3 : Stages[j + 1] # "idle"
      BY StageSteps
    <3> QED BY <1>3, <3>1, <3>2, <3>3 DEF HelpInv, Helped, Follows, Has, Bound, LiveRecovery
  <2> QED BY <2>1, <2>2
<1>10. RunStep(r)
  BY DEF RunStep
<1> QED BY <1>7, <1>9, <1>10, RunsBeside DEF HelpInv, Helped

LEMMA RecoverRecordHelps ==
    ASSUME RunInv, HelpInv, NEW r \in Requests, NEW k \in 1 .. 3, RecoverRecord(r, k), UNCHANGED setting
    PROVE  HelpInv'
<1>1. TypeOK /\ Executor(r) /\ Recovery(r) /\ fix \in [Requests -> FixRow] /\ fix[r] \in FixRow
  BY Given, RunTypes
<1>2. UNCHANGED <<journal, payload, quota, shared, completed, run, scan, setting>>
  BY DEF RecoverRecord
<1>3. fix[r].at \in {"attempt", "usage", "cost"}
  BY StageSteps DEF RecoverRecord
<1>4. payload[r].n \in Attempts /\ fix[r].by \in {"commit", "recovery"}
  BY <1>1, <1>3, Numbered DEF Recovery
<1>5. RecordFact(<<r, payload[r].n>>, fix[r].by, k, payload[r].late)
  BY DEF RecoverRecord
<1>6. \A s \in Requests : Rowed(s)' /\ \A n \in Attempts : Authored(s, n)'
  BY <1>1, <1>2, <1>4, <1>5, RecordHelps DEF Recovery
<1>7. /\ fix'[r].at = Stages[k + 1] /\ fix'[r].by = fix[r].by
      /\ \A s \in Requests : s # r => fix'[s] = fix[s]
  BY <1>1 DEF RecoverRecord, FixGoto, FixRow
<1>8. Written(r, payload[r].n, fix[r].by, k)
  BY <1>1, <1>4, <1>5, FactWritten
<1>9. ASSUME NEW s \in Requests PROVE Follows(s)'
  <2>1. CASE s = r
    <3>1. Has(r, k)'
      BY <1>2, <1>7, <1>8 DEF Has, Bound, Written
    <3>2. \A j \in 1 .. 3 : Stages[j + 1] = Stages[k + 1] => j = k
      BY DEF Stages
    <3>3. ~LiveRecovery /\ fix'[r].by = "recovery" => journal[r] = "transport_started"
      BY <1>7 DEF HelpInv, Helped, Follows
    <3> QED BY <1>2, <1>7, <2>1, <3>1, <3>2, <3>3 DEF Follows, LiveRecovery
  <2>2. CASE s # r
    <3>1. payload[s].n # 0 => chain'[Bound(s)] = chain[Bound(s)]
      BY <1>1, <1>8, <2>2, Numbered DEF Bound, Written
    <3>2. fix[s].at # "idle" => payload[s].n # 0
      BY Given DEF Recovery
    <3>3. \A j \in 1 .. 3 : Stages[j + 1] # "idle"
      BY StageSteps
    <3> QED BY <1>2, <1>7, <2>2, <3>1, <3>2, <3>3
            DEF HelpInv, Helped, Follows, Has, Bound, LiveRecovery
  <2> QED BY <2>1, <2>2
<1>10. FixStep(r)
  BY DEF FixStep
<1> QED BY <1>6, <1>9, <1>10, FixesBeside DEF HelpInv, Helped

LEMMA ScanRecordHelps ==
    ASSUME RunInv, HelpInv, ScanRecord, UNCHANGED setting
    PROVE  HelpInv'
<1>1. TypeOK /\ Scanning
  BY DEF RunInv
<1>2. PICK k \in 1 .. 3 : scan.at = Stages[k] /\ RecordFact(scan.on, "orphan", k, FALSE)
  BY DEF ScanRecord
<1>3. scan.at \in {"attempt", "usage", "cost"}
  BY <1>2, StageSteps
<1>4. PICK r \in Requests, m \in Attempts : scan.on = <<r, m>>
  BY <1>1, <1>3, APair DEF Scanning
<1>5. UNCHANGED <<journal, payload, quota, shared, completed, run, fix, setting>>
  BY DEF ScanRecord
<1>6. \A s \in Requests : Rowed(s)' /\ \A n \in Attempts : Authored(s, n)'
  BY <1>2, <1>4, <1>5, RecordHelps
<1>7. ~LiveRecovery => \A s \in Requests : run[s].at = "idle" /\ fix[s].at = "idle"
  BY <1>3 DEF HelpInv, Alone
<1>8. ASSUME NEW s \in Requests PROVE Follows(s)'
  <2>1. ~LiveRecovery => fix[s].at = "idle" /\ fix[s].by = "none"
    BY <1>7, Given DEF Recovery
  <2>2. \A j \in 1 .. 3 : Stages[j + 1] # "idle"
    BY StageSteps
  <2> QED BY <1>5, <2>1, <2>2 DEF Follows, LiveRecovery
<1>9. Alone'
  BY <1>5, <1>7 DEF Alone, LiveRecovery
<1> QED BY <1>6, <1>8, <1>9 DEF HelpInv, Helped

(* A recovery ends, or dies.                                                 *)
LEMMA FixesEnd ==
    ASSUME RunInv, HelpInv, NEW r \in Requests, RecoverEnd(r) \/ RecoverStop(r), UNCHANGED setting
    PROVE  HelpInv'
<1>1. TypeOK /\ Executor(r) /\ fix \in [Requests -> FixRow] /\ journal \in [Requests -> JournalStates]
  BY Given, RunTypes, TableTypes
<1>2. /\ UNCHANGED <<payload, chain, shared, run, scan>>
      /\ SharedPolicy' = SharedPolicy /\ LiveRecovery' = LiveRecovery
  BY DEF RecoverEnd, RecoverStop, authority, SharedPolicy, LiveRecovery
<1>3. /\ \A s \in Requests : s # r => fix'[s] = fix[s]
      /\ fix'[r].at = "idle" /\ fix'[r].by = "none"
  <2>1. fix' = [fix EXCEPT ![r] = [at |-> "idle", by |-> "none"]]
    BY DEF RecoverEnd, RecoverStop
  <2> QED BY <1>1, <2>1
<1>4. fix[r].by \in {"none", "recovery", "commit"}
  BY <1>1, RunTypes
<1>5. /\ \A s \in Requests : s # r => journal'[s] = journal[s]
      /\ \/ journal'[r] = journal[r]
         \/ journal[r] = "reserved" /\ journal'[r] = "released_recovered"
         \/ journal[r] = "transport_started" /\ journal'[r] = "indeterminate_recovered"
         \/ journal[r] = "observed" /\ journal'[r] = "responded"
  BY <1>1, <1>4 DEF RecoverEnd, RecoverStop, Append
<1>6. \A j \in 1 .. 3 : Stages[j + 1] # "idle"
  BY StageSteps
<1>7. ASSUME NEW s \in Requests PROVE Helped(s)'
  <2>1. Helped(s)
    BY DEF HelpInv
  <2>2. Rowed(s)'
    BY <1>2, <1>5, <2>1 DEF Helped, Rowed, Bound, Unsent
  <2>3. Follows(s)'
    BY <1>2, <1>3, <1>5, <1>6, <2>1 DEF Helped, Follows, Has, Bound
  <2>4. \A n \in Attempts : Authored(s, n)'
    BY <1>2, <1>5, <2>1 DEF Helped, Authored
  <2> QED BY <2>2, <2>3, <2>4 DEF Helped
<1>8. Alone'
  BY <1>2, <1>3 DEF HelpInv, Alone
<1> QED BY <1>7, <1>8 DEF HelpInv

(* The executor dies, the scan moves on, time passes, the owner takes a row  *)
(* back.                                                                     *)
LEMMA OthersHelp ==
    ASSUME RunInv, HelpInv, UNCHANGED setting,
           \/ \E r \in Requests : RunStop(r) \/ LapseLease(r)
           \/ ScanBegin \/ ScanList \/ ScanPick \/ ScanSettle \/ ScanEnd
           \/ \E p \in Reservations : Lapse(p) \/ OwnerRelease(p)
           \/ UNCHANGED vars
    PROVE  HelpInv'
<1>1. TypeOK /\ run \in [Requests -> RunRow]
  BY RunTypes DEF RunInv, TypeOK, RunRow
<1>2. UNCHANGED <<journal, payload, chain, fix>>
  BY DEF RunStop, LapseLease, ScanBegin, ScanList, ScanPick, ScanSettle, ScanEnd, Lapse,
         OwnerRelease, authority, vars
<1>3. RowsStay
  <2>1. ASSUME NEW p \in Reservations, OwnerRelease(p) PROVE RowsStay
    BY <1>1, <2>1, APair, RowsReleased DEF OwnerRelease
  <2>2. CASE UNCHANGED shared
    BY <2>2 DEF RowsStay
  <2> QED BY <2>1, <2>2 DEF RunStop, LapseLease, ScanBegin, ScanList, ScanPick, ScanSettle, ScanEnd,
                            Lapse, vars
<1>4. \A s \in Requests : run'[s] = run[s] \/ run'[s].at = "idle"
  <2>1. ASSUME NEW r \in Requests, RunStop(r)
        PROVE  \A s \in Requests : run'[s] = run[s] \/ run'[s].at = "idle"
    BY <1>1, <2>1 DEF RunStop, Idle
  <2>2. (\E r \in Requests : RunStop(r)) \/ UNCHANGED run
    BY DEF LapseLease, ScanBegin, ScanList, ScanPick, ScanSettle, ScanEnd, Lapse, OwnerRelease, vars
  <2> QED BY <2>1, <2>2
<1>5. Alone'
  <2>1. CASE ScanBegin
    BY <2>1 DEF ScanBegin, Alone, LiveRecovery
  <2>2. CASE ScanList \/ ScanPick \/ ScanSettle \/ ScanEnd
    BY <2>2 DEF ScanList, ScanPick, ScanSettle, ScanEnd, HelpInv, Alone, LiveRecovery
  <2>3. CASE UNCHANGED scan
    BY <1>2, <1>4, <2>3 DEF HelpInv, Alone, LiveRecovery
  <2> QED BY <2>1, <2>2, <2>3 DEF RunStop, LapseLease, Lapse, OwnerRelease, vars
<1> QED BY <1>2, <1>3, <1>4, <1>5, MovesHelp

LEMMA InitHelp ==
    ASSUME Init
    PROVE  HelpInv
<1>1. Alone
  BY DEF Init, Alone
<1>2. ASSUME NEW r \in Requests PROVE Helped(r)
  <2>1. /\ run[r].at = "idle" /\ fix[r].at = "idle" /\ fix[r].by = "none"
        /\ journal[r] = "none" /\ payload[r].n = 0
    BY DEF Init, Idle
  <2>2. \A n \in Attempts : chain[<<r, n>>] = NoFacts
    BY Pairs DEF Init
  <2>3. \A j \in 1 .. 3 : Stages[j + 1] # "idle"
    BY StageSteps
  <2> QED BY <2>1, <2>2, <2>3 DEF Helped, Rowed, Follows, Authored, Unsent, NoFacts
<1> QED BY <1>1, <1>2 DEF HelpInv

LEMMA NextHelp ==
    ASSUME RunInv, HelpInv, [Next]_<<vars, setting>>
    PROVE  HelpInv'
<1>1. ASSUME NEW r \in Requests, RunStep(r), UNCHANGED setting PROVE HelpInv'
  BY <1>1, RunsBetween, RunsOnRow, RunsJournal, RunRecordHelps DEF RunStep
<1>2. ASSUME NEW r \in Requests, FixStep(r) \/ RecoverStop(r), UNCHANGED setting PROVE HelpInv'
  BY <1>2, FixesBetween, RecoverRecordHelps, FixesEnd DEF FixStep
<1>3. ASSUME NEW r \in Requests, RunStop(r) \/ LapseLease(r), UNCHANGED setting PROVE HelpInv'
  BY <1>3, OthersHelp
<1>4. ASSUME ScanStep, UNCHANGED setting PROVE HelpInv'
  BY <1>4, ScanRecordHelps, OthersHelp DEF ScanStep
<1>5. ASSUME NEW p \in Reservations, Lapse(p) \/ OwnerRelease(p), UNCHANGED setting PROVE HelpInv'
  BY <1>5, OthersHelp
<1>6. CASE UNCHANGED <<vars, setting>>
  BY <1>6, OthersHelp DEF vars
<1> QED BY <1>1, <1>2, <1>3, <1>4, <1>5, <1>6 DEF Next

(* Which call a recovery asks for next, and why it is not refused.           *)
LEMMA NextIsTaken ==
    ASSUME RunInv, HelpInv, ~LiveRecovery, NEW r \in Requests, payload[r].n # 0, ~Settled(r),
           ~DispatchedUnjournaled(r), ~HalfRecovered(r), ~StartedLate(r)
    PROVE  Recoverable(r)
<1> DEFINE p == Bound(r)
           by == fix[r].by
<1>1. /\ TypeOK /\ Executor(r) /\ Recovery(r) /\ Closed(r) /\ Helped(r)
      /\ fix[r].at \in FixSteps /\ by \in {"none", "commit", "recovery"}
      /\ journal[r] \in JournalStates
  BY Given, RunTypes, TableTypes DEF HelpInv
<1>2. /\ payload[r].n \in Attempts /\ p \in Reservations
      /\ CallMade(r, payload[r].n) /\ Charged(r, payload[r].n) /\ Authored(r, payload[r].n)
      /\ p = <<r, payload[r].n>>
  BY <1>1, Given, Numbered, Pairs DEF Helped, Bound
<1>3. quota[p] = "open"
  BY DEF Settled
<1>4. shared[p] \in SharedStates /\ chain[p] \in Facts
  BY <1>1, <1>2, TableTypes
<1>5. ~Closing(r) /\ journal[r] # "responded"
  BY <1>1, <1>3 DEF Closed, Closing, FinalState
<1>6. /\ journal[r] \in Interrupted
      /\ ~(fix[r].at = "end" /\ by \in {"none", "recovery"})
  BY <1>1, <1>2, <1>3, <1>5 DEF Executor, Charged, JournalStates, Interrupted
<1>7. chain[p] = NoFacts \/ chain[p].by \in {"commit", "recovery"}
  BY <1>2, <1>4 DEF Authored, Facts, HalfRecovered
<1>8. chain[p].by = "recovery" => fix[r].at \in {"usage", "cost", "settle"}
  BY DEF HalfRecovered
<1>9. CASE fix[r].at = "idle"
  BY <1>6, <1>9 DEF Recoverable
<1>10. CASE fix[r].at = "release"
  <2>1. journal[r] = "reserved"
    BY <1>1, <1>10 DEF Recovery
  <2>2. SharedPolicy => shared[p] \notin {"none", "dispatched", "settled"}
    BY <1>1, <1>2, <2>1 DEF Helped, Rowed, CallMade, Unsent, DispatchedUnjournaled
  <2>3. Undispatched(p)
    BY <1>4, <2>2 DEF Undispatched, SharedStates
  <2> QED BY <1>10, <2>3 DEF Recoverable
<1>11. CASE fix[r].at = "free"
  <2>1. journal[r] = "reserved"
    BY <1>1, <1>11 DEF Recovery
  <2>2. chain[p] = NoFacts
    BY <1>2, <1>7, <1>8, <1>11, <2>1 DEF Authored
  <2> QED BY <1>3, <1>11, <2>2 DEF Recoverable, MayRelease
<1>12. CASE fix[r].at = "unknown"
  <2>1. journal[r] = "transport_started"
    BY <1>1, <1>12 DEF Helped, Follows, Recovery
  <2>2. Dispatched(p)
    BY <1>1, <2>1 DEF Helped, Rowed, Unsent, Dispatched
  <2> QED BY <1>12, <2>2 DEF Recoverable
<1>13. ASSUME fix[r].at \in {"attempt", "usage", "cost", "settle"}
       PROVE  \/ by = "recovery" /\ journal[r] = "transport_started"
              \/ by = "commit" /\ journal[r] = "observed"
  <2>1. by = "recovery" => journal[r] = "transport_started"
    BY <1>1 DEF Helped, Follows
  <2>2. by = "commit" => journal[r] = "observed"
    BY <1>1, <1>5 DEF Recovery
  <2>3. by \in {"commit", "recovery"}
    BY <1>1, <1>13 DEF Recovery
  <2> QED BY <2>1, <2>2, <2>3
<1>14. CASE fix[r].at = "attempt"
  <2>1. ~payload[r].late
    BY <1>13, <1>14 DEF StartedLate
  <2>2. CASE chain[p] = NoFacts
    <3>1. IsNext(p, by, 1, payload[r].late)
      BY <1>3, <2>1, <2>2 DEF IsNext
    <3> QED BY <1>14, <3>1 DEF Recoverable, Stages
  <2>3. CASE chain[p] # NoFacts
    <3>1. chain[p].by = "commit" /\ chain[p].len >= 1
      BY <1>2, <1>7, <1>8, <1>14, <2>3 DEF Authored
    <3>2. by = "commit"
      BY <1>2, <1>13, <1>14, <3>1 DEF Authored
    <3>3. IsRepeated(p, by, 1)
      BY <3>1, <3>2 DEF IsRepeated
    <3> QED BY <1>14, <3>3 DEF Recoverable, Stages
  <2> QED BY <2>2, <2>3
<1>15. ASSUME NEW k \in 1 .. 2, fix[r].at = Stages[k + 1] PROVE Recoverable(r)
  <2>1. Has(r, k)
    BY <1>1, <1>15 DEF Helped, Follows
  <2>2. chain[p].len \in 0 .. 3
    BY <1>4 DEF Facts
  <2>3. IsNext(p, by, k + 1, payload[r].late) \/ IsRepeated(p, by, k + 1)
    <3>1. CASE chain[p] = [by |-> by, len |-> k]
      BY <3>1 DEF IsNext
    <3>2. CASE by = "commit" /\ chain[p].by = "commit" /\ chain[p].len >= k + 1
      BY <3>2 DEF IsRepeated
    <3>3. CASE by = "commit" /\ chain[p].by = "commit" /\ chain[p].len = k
      <4>1. chain[p] = [by |-> by, len |-> k]
        BY <1>4, <3>3 DEF Facts
      <4> QED BY <3>1, <4>1
    <3> QED BY <2>1, <2>2, <3>1, <3>2, <3>3 DEF Has
  <2> QED BY <1>15, <2>3 DEF Recoverable
<1>16. CASE fix[r].at = "settle"
  <2>1. Has(r, 3)
    BY <1>1, <1>16 DEF Helped, Follows, Stages
  <2>2. chain[p] = [by |-> by, len |-> 3]
    BY <1>4, <2>1 DEF Has, Facts
  <2> QED BY <1>3, <1>16, <2>2 DEF Recoverable, MaySettle
<1>17. CASE fix[r].at \in {"usage", "cost"}
  <2>1. Stages[1 + 1] = "usage" /\ Stages[2 + 1] = "cost"
    BY DEF Stages
  <2> QED BY <1>15, <1>17, <2>1
<1>18. fix[r].at \notin {"complete", "end"}
  BY <1>1, <1>5, <1>6 DEF Recovery, Closing
<1> QED BY <1>1, <1>9, <1>10, <1>11, <1>12, <1>14, <1>16, <1>17, <1>18 DEF FixSteps

(* A request that is not accounted for is never beyond help, but for three   *)
(* shapes the authority or the account refuse for good: with nobody else at  *)
(* it, ConnectorTransportExecutor.recover can be begun, and the call it has  *)
(* come to is not refused, until the reservation is settled.                 *)
THEOREM RecoveryIsNotRefused ==
    Spec => []RecoverableOrStuck
<1>1. Init => HelpInv
  BY InitHelp
<1>2. RunInv /\ HelpInv /\ [Next]_<<vars, setting>> => HelpInv'
  BY NextHelp
<1>3. RunInv /\ HelpInv => RecoverableOrStuck
  BY NextIsTaken DEF RecoverableOrStuck
<1> QED BY <1>1, <1>2, <1>3, ConnectorInvariant, PTL DEF Spec

=============================================================================
