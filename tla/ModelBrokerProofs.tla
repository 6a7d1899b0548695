------------------------- MODULE ModelBrokerProofs -------------------------
(***************************************************************************)
(* Theorems about the model broker: its account of itself for any number of *)
(* invocations and generations and any limits, and the promise of the       *)
(* journal over crashes and over brokers that overlap.                      *)
(***************************************************************************)
EXTENDS ModelBroker, FiniteSetTheorems, SequenceTheorems, TLAPS

-----------------------------------------------------------------------------
(* The broker's account, generation by generation *)

Slots(g) ==
    /\ reserved[g] = Cardinality(In(g, {"claim", "claiming"}))
    /\ active[g] = Cardinality(In(g, {"host"}))
    /\ active[g] + reserved[g] <= MaxConcurrent

Ending == {"done", "unsent", "completing", "closing"}
Wakeup(g) == Len(queue[g]) > 0 /\ Free(g) => In(g, Ending) # {}

Match(g) ==
    /\ \A i \in In(g, {"queued", "claim"}) : mem[g][i] \in {"none", "lapsed"}
    /\ \A i \in In(g, {"claiming", "host", "done", "unsent"}) : mem[g][i] = "pending"

(* The queue holds the queued requests, each of them once; a broker that     *)
(* does not serve has none.                                                  *)
QueueExact(g) ==
    /\ \A n \in 1 .. Len(queue[g]) : run[g][queue[g][n]] = "queued"
    /\ \A m, n \in 1 .. Len(queue[g]) : queue[g][m] = queue[g][n] => m = n
    /\ \A i \in Invocations : run[g][i] = "queued" => \E n \in 1 .. Len(queue[g]) : queue[g][n] = i
    /\ state[g] # "serving" => Len(queue[g]) = 0

(* A broker that was not started has no runs.                                *)
Asleep(g) == state[g] = "down" => \A i \in Invocations : run[g][i] = "none"

Account(g) == Slots(g) /\ Wakeup(g) /\ Match(g) /\ QueueExact(g) /\ Asleep(g)

BrokerInv == TypeOK /\ \A g \in Generations : Account(g)

(* The account of every generation is the broker's.                          *)
LEMMA AccountIsConsistent == BrokerInv => Consistent
BY DEF BrokerInv, Account, Slots, Wakeup, Ending, Match, Consistent, SlotsExact, NoLostWakeup,
       RunMatchesRecord

(* The runs at some point are finitely many.                                 *)
LEMMA InFinite ==
    ASSUME NEW g, NEW S
    PROVE  IsFiniteSet(In(g, S)) /\ Cardinality(In(g, S)) \in Nat
<1>1. IsFiniteSet(Invocations) /\ In(g, S) \subseteq Invocations
  BY BrokerAssumption DEF In
<1> QED BY <1>1, FS_Subset, FS_CardinalityType

(* The types, one by one.                                                    *)
LEMMA Types ==
    ASSUME TypeOK, NEW g \in Generations
    PROVE  /\ reserved[g] \in Nat /\ active[g] \in Nat
           /\ run[g] \in [Invocations -> Runs]
           /\ mem[g] \in [Invocations -> Records]
           /\ queue[g] \in Seq(Invocations)
           /\ Len(queue[g]) \in Nat
           /\ \A n \in 1 .. Len(queue[g]) : queue[g][n] \in Invocations
           /\ MaxConcurrent \in Nat
<1>1. queue[g] \in Seq(Invocations)
  BY DEF TypeOK
<1> QED BY <1>1, BrokerAssumption DEF TypeOK

(* A generation that a step does not touch keeps its account.                *)
LEMMA Untouched ==
    ASSUME NEW g \in Generations, Account(g),
           reserved'[g] = reserved[g], active'[g] = active[g], run'[g] = run[g],
           queue'[g] = queue[g], state'[g] = state[g], mem'[g] = mem[g]
    PROVE  Account(g)'
<1>1. \A S : In(g, S)' = In(g, S)
  BY DEF In
<1>2. Free(g)' = Free(g)
  BY DEF Free
<1>3. Slots(g)'
  BY <1>1 DEF Account, Slots
<1>4. Wakeup(g)'
  BY <1>1, <1>2 DEF Account, Wakeup
<1>5. Match(g)'
  BY DEF Account, Match, In
<1>6. QueueExact(g)' /\ Asleep(g)'
  BY DEF Account, QueueExact, Asleep
<1> QED BY <1>3, <1>4, <1>5, <1>6 DEF Account

(* One run moves on, the others stay where they are.                         *)
LEMMA MovedRun ==
    ASSUME TypeOK, NEW g \in Generations, NEW i \in Invocations, NEW p \in Runs,
           run' = [run EXCEPT ![g][i] = p]
    PROVE  /\ run' \in [Generations -> [Invocations -> Runs]]
           /\ \A h \in Generations : h # g => run'[h] = run[h]
           /\ \A j \in Invocations : run'[g][j] = IF j = i THEN p ELSE run[g][j]
<1>1. run \in [Generations -> [Invocations -> Runs]]
  BY DEF TypeOK
<1>2. \A j \in Invocations : run'[g][j] = IF j = i THEN p ELSE run[g][j]
  BY <1>1
<1> QED BY <1>1, <1>2

-----------------------------------------------------------------------------
(* Release and drain *)

(* The invocations at the head of the queue are as many as they are taken.   *)
LEMMA HeadOfQueue ==
    ASSUME TypeOK, NEW g \in Generations, QueueExact(g), NEW k \in 0 .. Len(queue[g])
    PROVE  LET head == {queue[g][n] : n \in 1 .. k}
           IN  /\ head \subseteq Invocations
               /\ IsFiniteSet(head) /\ Cardinality(head) = k
               /\ \A j \in head : run[g][j] = "queued"
<1> DEFINE head == {queue[g][n] : n \in 1 .. k}
           take == [n \in 1 .. k |-> queue[g][n]]
<1>1. /\ Len(queue[g]) \in Nat
      /\ \A n \in 1 .. Len(queue[g]) : queue[g][n] \in Invocations /\ run[g][queue[g][n]] = "queued"
      /\ \A m, n \in 1 .. Len(queue[g]) : queue[g][m] = queue[g][n] => m = n
  BY Types DEF QueueExact
<1>2. k \in Nat /\ 1 .. k \subseteq 1 .. Len(queue[g])
  BY <1>1
<1>3. take \in Bijection(1 .. k, head)
  <2>1. take \in [1 .. k -> head]
    OBVIOUS
  <2>2. \A m, n \in 1 .. k : take[m] = take[n] => m = n
    BY <1>1, <1>2
  <2>3. \A h \in head : \E n \in 1 .. k : take[n] = h
    OBVIOUS
  <2> QED BY <2>1, <2>2, <2>3 DEF Bijection, Injection, IsInjective, Surjection
<1>4. IsFiniteSet(head) /\ Cardinality(head) = k
  <2>1. ExistsBijection(1 .. k, head)
    BY <1>3 DEF ExistsBijection
  <2>2. IsFiniteSet(1 .. k) /\ Cardinality(1 .. k) = k
    BY <1>2, FS_Interval
  <2> QED BY <2>1, <2>2, FS_Bijection
<1> QED BY <1>1, <1>2, <1>4

(* What is left of the queue when its head is taken.                         *)
LEMMA RestOfQueue ==
    ASSUME NEW q \in Seq(Invocations), NEW k \in 0 .. Len(q)
    PROVE  LET rest == SubSeq(q, k + 1, Len(q))
           IN  /\ rest \in Seq(Invocations)
               /\ Len(rest) = Len(q) - k
               /\ \A n \in 1 .. Len(q) - k : rest[n] = q[n + k]
<1>1. Len(q) \in Nat /\ \A n \in 1 .. Len(q) : q[n] \in Invocations
  OBVIOUS
<1>2. k + 1 \in Int /\ Len(q) \in Int /\ \A n \in k + 1 .. Len(q) : q[n] \in Invocations
  BY <1>1
<1>3. /\ SubSeq(q, k + 1, Len(q)) \in Seq(Invocations)
      /\ Len(SubSeq(q, k + 1, Len(q))) = IF k + 1 <= Len(q) THEN Len(q) - (k + 1) + 1 ELSE 0
      /\ \A n \in 1 .. Len(q) - (k + 1) + 1 : SubSeq(q, k + 1, Len(q))[n] = q[k + 1 + n - 1]
  BY <1>2, SubSeqProperties
<1> QED BY <1>1, <1>3

(* The end of a run that holds no host call: its slot goes to the queue.     *)
LEMMA Released ==
    ASSUME BrokerInv, NEW g \in Generations, NEW i \in Invocations,
           NEW r, r = Cardinality(In(g, {"claim", "claiming"}) \ {i}),
           run[g][i] \notin {"queued", "host"},
           ReleaseAndDrain(g, i, r), state' = state, active' = active,
           mem' \in [Generations -> [Invocations -> Records]],
           \A h \in Generations : h # g => mem'[h] = mem[h],
           \A j \in Invocations : j # i =>
               /\ mem[g][j] \in {"none", "lapsed"} => mem'[g][j] \in {"none", "lapsed"}
               /\ mem[g][j] = "pending" => mem'[g][j] = "pending"
    PROVE  /\ run' \in [Generations -> [Invocations -> Runs]]
           /\ reserved' \in [Generations -> Nat]
           /\ queue' \in [Generations -> Seq(Invocations)]
           /\ \A h \in Generations : h # g => run'[h] = run[h]
           /\ run'[g][i] = "none"
           /\ \A j \in Invocations : j # i =>
                  run'[g][j] = run[g][j] \/ (run[g][j] = "queued" /\ run'[g][j] = "claim")
           /\ \A h \in Generations : Account(h)'
<1> DEFINE k == Drained(g, r)
           head == {queue[g][n] : n \in 1 .. k}
           claims == In(g, {"claim", "claiming"})
<1>0. TypeOK /\ Account(g) /\ QueueExact(g) /\ Slots(g)
  BY DEF BrokerInv, Account
<1>1. /\ reserved[g] \in Nat /\ active[g] \in Nat /\ MaxConcurrent \in Nat
      /\ Len(queue[g]) \in Nat /\ queue[g] \in Seq(Invocations)
      /\ \A n \in 1 .. Len(queue[g]) : queue[g][n] \in Invocations
      /\ run \in [Generations -> [Invocations -> Runs]]
      /\ reserved \in [Generations -> Nat]
      /\ queue \in [Generations -> Seq(Invocations)]
  BY <1>0, Types DEF TypeOK
<1>2. r \in Nat /\ r <= reserved[g] /\ IsFiniteSet(claims \ {i})
  <2>1. IsFiniteSet(claims)
    BY InFinite
  <2>2. IsFiniteSet(claims \ {i}) /\ Cardinality(claims \ {i}) <= Cardinality(claims)
        /\ Cardinality(claims \ {i}) \in Nat
    BY <2>1, FS_Subset, FS_CardinalityType
  <2> QED BY <2>2, <1>0 DEF Slots
<1>3. active[g] + r <= MaxConcurrent
  BY <1>0, <1>1, <1>2 DEF Slots
<1>4. /\ k \in 0 .. Len(queue[g])
      /\ active[g] + r + k <= MaxConcurrent
      /\ k < Len(queue[g]) => state[g] = "closed" \/ active[g] + r + k >= MaxConcurrent
  BY <1>1, <1>2, <1>3 DEF Drained
<1> HIDE DEF k
<1>5. /\ head \subseteq Invocations
      /\ IsFiniteSet(head) /\ Cardinality(head) = k
      /\ \A j \in head : run[g][j] = "queued"
  BY <1>0, <1>4, HeadOfQueue
<1>6. /\ reserved' = [reserved EXCEPT ![g] = r + k]
      /\ queue' = [queue EXCEPT ![g] = SubSeq(queue[g], k + 1, Len(queue[g]))]
      /\ run' = [run EXCEPT ![g] = [j \in Invocations |->
                    IF j = i THEN "none" ELSE IF j \in head THEN "claim" ELSE run[g][j]]]
  BY DEF ReleaseAndDrain, k
<1>7. /\ queue'[g] \in Seq(Invocations)
      /\ Len(queue'[g]) = Len(queue[g]) - k
      /\ \A n \in 1 .. Len(queue[g]) - k : queue'[g][n] = queue[g][n + k]
  BY <1>1, <1>4, <1>6, RestOfQueue
<1>8. \A j \in Invocations :
          run'[g][j] = IF j = i THEN "none" ELSE IF j \in head THEN "claim" ELSE run[g][j]
  BY <1>1, <1>6
<1>9. run' \in [Generations -> [Invocations -> Runs]]
  <2>1. [j \in Invocations |->
            IF j = i THEN "none" ELSE IF j \in head THEN "claim" ELSE run[g][j]]
          \in [Invocations -> Runs]
    BY <1>1 DEF Runs
  <2> QED BY <2>1, <1>1, <1>6
<1>10. reserved' \in [Generations -> Nat] /\ reserved'[g] = r + k
  BY <1>1, <1>2, <1>4, <1>6
<1>11. queue' \in [Generations -> Seq(Invocations)]
  BY <1>1, <1>6, <1>7
<1>12. i \notin head
  BY <1>5
<1>13. Slots(g)'
  <2>1. In(g, {"claim", "claiming"})' = (claims \ {i}) \cup head
    BY <1>5, <1>8, <1>12 DEF In
  <2>2. (claims \ {i}) \cap head = {}
    BY <1>5 DEF In
  <2>3. Cardinality((claims \ {i}) \cup head) = r + k
    <3>1. Cardinality((claims \ {i}) \cup head)
            = Cardinality(claims \ {i}) + Cardinality(head) - Cardinality((claims \ {i}) \cap head)
      BY <1>2, <1>5, FS_Union
    <3>2. Cardinality((claims \ {i}) \cap head) = 0
      BY <2>2, FS_EmptySet
    <3> QED BY <3>1, <3>2, <1>2, <1>4, <1>5
  <2>4. In(g, {"host"})' = In(g, {"host"})
    BY <1>5, <1>8 DEF In
  <2>5. reserved'[g] = Cardinality(In(g, {"claim", "claiming"})')
    BY <2>1, <2>3, <1>10
  <2>6. active'[g] = Cardinality(In(g, {"host"})')
    BY <2>4, <1>0 DEF Slots
  <2>7. active'[g] + reserved'[g] <= MaxConcurrent
    BY <1>1, <1>2, <1>4, <1>10
  <2> QED BY <2>5, <2>6, <2>7 DEF Slots
<1>14. Wakeup(g)'
  <2> SUFFICES ASSUME Len(queue'[g]) > 0 PROVE ~Free(g)'
    BY DEF Wakeup
  <2>1. state[g] = "serving"
    BY <1>0, <1>1, <1>4, <1>7 DEF QueueExact
  <2> QED BY <2>1, <1>1, <1>2, <1>4, <1>7, <1>10 DEF Free
<1>15. Match(g)'
  BY <1>0, <1>5, <1>8 DEF Account, Match, In
<1>16. QueueExact(g)'
  <2>1. \A n \in 1 .. Len(queue'[g]) :
            n + k \in 1 .. Len(queue[g]) /\ queue'[g][n] = queue[g][n + k]
    BY <1>1, <1>4, <1>7
  <2>2. ASSUME NEW n \in 1 .. Len(queue'[g]) PROVE run'[g][queue'[g][n]] = "queued"
    <3>1. run[g][queue[g][n + k]] = "queued" /\ queue[g][n + k] \in Invocations
      BY <2>1, <1>0, <1>1 DEF QueueExact
    <3>2. queue[g][n + k] \notin head
      <4>1. \A m \in 1 .. k : m \in 1 .. Len(queue[g]) /\ m # n + k
        BY <1>1, <1>4
      <4> QED BY <4>1, <2>1, <1>0 DEF QueueExact
    <3> QED BY <3>1, <3>2, <2>1, <1>8
  <2>3. \A m, n \in 1 .. Len(queue'[g]) : queue'[g][m] = queue'[g][n] => m = n
    <3> SUFFICES ASSUME NEW m \in 1 .. Len(queue'[g]), NEW n \in 1 .. Len(queue'[g]),
                        queue'[g][m] = queue'[g][n]
                 PROVE  m = n
      OBVIOUS
    <3>1. m + k = n + k
      BY <2>1, <1>0 DEF QueueExact
    <3> QED BY <3>1, <1>1, <1>4, <1>7
  <2>4. ASSUME NEW j \in Invocations, run'[g][j] = "queued"
        PROVE  \E n \in 1 .. Len(queue'[g]) : queue'[g][n] = j
    <3>1. j # i /\ j \notin head /\ run[g][j] = "queued"
      BY <2>4, <1>8
    <3>2. PICK m \in 1 .. Len(queue[g]) : queue[g][m] = j
      BY <3>1, <1>0 DEF QueueExact
    <3>3. m \notin 1 .. k
      BY <3>1, <3>2
    <3>4. m - k \in 1 .. Len(queue'[g]) /\ (m - k) + k = m
      BY <3>2, <3>3, <1>1, <1>4, <1>7
    <3> QED BY <3>2, <3>4, <2>1
  <2>5. state'[g] # "serving" => Len(queue'[g]) = 0
    BY <1>0, <1>1, <1>4, <1>7 DEF QueueExact
  <2> QED BY <2>2, <2>3, <2>4, <2>5 DEF QueueExact
<1>17. \A h \in Generations : h # g => run'[h] = run[h] /\ Account(h)'
  <2> SUFFICES ASSUME NEW h \in Generations, h # g PROVE run'[h] = run[h] /\ Account(h)'
    OBVIOUS
  <2>1. run'[h] = run[h] /\ reserved'[h] = reserved[h] /\ queue'[h] = queue[h]
    BY <1>1, <1>6
  <2> QED BY <2>1, Untouched DEF BrokerInv
<1>18. Account(g)'
  <2>1. Asleep(g)'
    BY <1>0, <1>5, <1>8 DEF Account, Asleep
  <2> QED BY <2>1, <1>13, <1>14, <1>15, <1>16 DEF Account
<1>19. /\ run'[g][i] = "none"
       /\ \A j \in Invocations : j # i =>
              run'[g][j] = run[g][j] \/ (run[g][j] = "queued" /\ run'[g][j] = "claim")
  BY <1>5, <1>8
<1>20. \A h \in Generations : h # g => run'[h] = run[h]
  BY <1>17
<1>21. ASSUME NEW h \in Generations PROVE Account(h)'
  <2>1. CASE h = g
    BY <2>1, <1>18
  <2>2. CASE h # g
    BY <2>2, <1>17
  <2> QED BY <2>1, <2>2
<1> QED BY <1>9, <1>10, <1>11, <1>19, <1>20, <1>21

-----------------------------------------------------------------------------
(* Records *)

(* Pruning, dropping and aging, record by record.                            *)
LEMMA RecordOps ==
    ASSUME NEW records \in [Invocations -> Records]
    PROVE  /\ Prune(records) \in [Invocations -> Records]
           /\ \A j \in Invocations :
                  Prune(records)[j] = IF records[j] = "lapsed" THEN "none" ELSE records[j]
           /\ \A E : /\ Without(records, E) \in [Invocations -> Records]
                     /\ \A j \in Invocations :
                            Without(records, E)[j] = IF j \in E THEN "none" ELSE records[j]
           /\ \A i \in Invocations :
                  /\ Age(records, i) \in [Invocations -> Records]
                  /\ \A j \in Invocations : Age(records, i)[j] =
                         IF j = i /\ records[j] \in Completed THEN "lapsed" ELSE records[j]
<1>1. \A j \in Invocations : records[j] \in Records
  OBVIOUS
<1>2. "none" \in Records /\ "lapsed" \in Records
  BY DEF Records
<1>3. /\ Prune(records) \in [Invocations -> Records]
      /\ \A j \in Invocations :
            Prune(records)[j] = IF records[j] = "lapsed" THEN "none" ELSE records[j]
  BY <1>1, <1>2 DEF Prune
<1>4. ASSUME NEW E
      PROVE  /\ Without(records, E) \in [Invocations -> Records]
             /\ \A j \in Invocations :
                    Without(records, E)[j] = IF j \in E THEN "none" ELSE records[j]
  BY <1>1, <1>2 DEF Without
<1>5. ASSUME NEW i \in Invocations
      PROVE  /\ Age(records, i) \in [Invocations -> Records]
             /\ \A j \in Invocations : Age(records, i)[j] =
                    IF j = i /\ records[j] \in Completed THEN "lapsed" ELSE records[j]
  BY <1>1, <1>2 DEF Age
<1> QED BY <1>3, <1>4, <1>5

(* Only completed records are evicted, and never the one being written.      *)
LEMMA EvictedAreCompleted ==
    ASSUME NEW records, NEW pinned, NEW E \in Evictions(records, pinned)
    PROVE  \A j \in E : j \in Invocations /\ j # pinned /\ records[j] \in Completed
<1> DEFINE excess == Cardinality(Kept(records)) - MaxRecords
           room == Evictable(records, pinned)
<1>1. E \in {{}} \/ E \in {room} \/ E \in {D \in SUBSET room : Cardinality(D) = excess}
  BY DEF Evictions
<1>2. E \subseteq room
  BY <1>1
<1> QED BY <1>2 DEF Evictable

(* What a claim does to the records before they are written.                 *)
LEMMA ClaimRecords ==
    ASSUME TypeOK, NEW g \in Generations, NEW i \in Invocations, ClaimBegin(g, i)
    PROVE  \E E \in SUBSET Invocations, claim, turned \in [Invocations -> Records] :
              /\ \A j \in E : j # i /\ mem[g][j] \in Completed
              /\ Forget(Dropped(g, E))
              /\ \A j \in Invocations : claim[j] =
                    IF j = i THEN "pending"
                    ELSE IF j \in E \/ mem[g][j] = "lapsed" THEN "none" ELSE mem[g][j]
              /\ \A j \in Invocations : turned[j] =
                    IF j \in E \/ mem[g][j] = "lapsed" THEN "none" ELSE mem[g][j]
              /\ \/ /\ mem' = [mem EXCEPT ![g] = claim] /\ Hold(g, claim)
                    /\ run' = [run EXCEPT ![g][i] = "claiming"]
                    /\ UNCHANGED <<queue, reserved>>
                 \/ /\ mem' = [mem EXCEPT ![g] = turned]
                    /\ ReleaseAndDrain(g, i, reserved[g] - 1)
                    /\ UNCHANGED lock
<1> DEFINE before == Prune(mem[g])
           claimed == [before EXCEPT ![i] = "pending"]
<1>1. PICK E \in Evictions(claimed, i) :
          /\ Forget(Dropped(g, E))
          /\ IF Fits(Without(claimed, E))
             THEN /\ mem' = [mem EXCEPT ![g] = Without(claimed, E)]
                  /\ Hold(g, Without(claimed, E))
                  /\ run' = [run EXCEPT ![g][i] = "claiming"]
                  /\ UNCHANGED <<queue, reserved>>
             ELSE /\ mem' = [mem EXCEPT ![g] = Without(before, E)]
                  /\ ReleaseAndDrain(g, i, reserved[g] - 1)
                  /\ UNCHANGED lock
  BY DEF ClaimBegin
<1>2. mem[g] \in [Invocations -> Records]
  BY Types
<1>3. /\ before \in [Invocations -> Records]
      /\ \A j \in Invocations : before[j] = IF mem[g][j] = "lapsed" THEN "none" ELSE mem[g][j]
  BY <1>2, RecordOps
<1> HIDE DEF before
<1>4. /\ claimed \in [Invocations -> Records]
      /\ \A j \in Invocations : claimed[j] = IF j = i THEN "pending" ELSE before[j]
  BY <1>3 DEF Records
<1> HIDE DEF claimed
<1>5. \A j \in E : j \in Invocations /\ j # i /\ claimed[j] \in Completed
  BY EvictedAreCompleted
<1>6. \A j \in E : j # i /\ mem[g][j] \in Completed /\ claimed[j] = mem[g][j]
  BY <1>3, <1>4, <1>5 DEF Completed
<1>7. Forget(Dropped(g, E))
  BY <1>1
<1>8. /\ Without(claimed, E) \in [Invocations -> Records]
      /\ \A j \in Invocations : Without(claimed, E)[j] =
            IF j = i THEN "pending"
            ELSE IF j \in E \/ mem[g][j] = "lapsed" THEN "none" ELSE mem[g][j]
  BY <1>3, <1>4, <1>5, RecordOps
<1>9. /\ Without(before, E) \in [Invocations -> Records]
      /\ \A j \in Invocations : Without(before, E)[j] =
            IF j \in E \/ mem[g][j] = "lapsed" THEN "none" ELSE mem[g][j]
  BY <1>3, RecordOps
<1>10. \/ /\ mem' = [mem EXCEPT ![g] = Without(claimed, E)]
          /\ Hold(g, Without(claimed, E))
          /\ run' = [run EXCEPT ![g][i] = "claiming"]
          /\ UNCHANGED <<queue, reserved>>
       \/ /\ mem' = [mem EXCEPT ![g] = Without(before, E)]
          /\ ReleaseAndDrain(g, i, reserved[g] - 1)
          /\ UNCHANGED lock
  BY <1>1
<1>11. E \in SUBSET Invocations
  BY <1>5
<1> DEFINE claim == Without(claimed, E)
           turned == Without(before, E)
<1>12. claim \in [Invocations -> Records] /\ turned \in [Invocations -> Records]
  BY <1>8, <1>9
<1>13. /\ \A j \in Invocations : claim[j] =
             IF j = i THEN "pending"
             ELSE IF j \in E \/ mem[g][j] = "lapsed" THEN "none" ELSE mem[g][j]
       /\ \A j \in Invocations : turned[j] =
             IF j \in E \/ mem[g][j] = "lapsed" THEN "none" ELSE mem[g][j]
  BY <1>8, <1>9
<1>14. \/ /\ mem' = [mem EXCEPT ![g] = claim] /\ Hold(g, claim)
          /\ run' = [run EXCEPT ![g][i] = "claiming"]
          /\ UNCHANGED <<queue, reserved>>
       \/ /\ mem' = [mem EXCEPT ![g] = turned]
          /\ ReleaseAndDrain(g, i, reserved[g] - 1)
          /\ UNCHANGED lock
  BY <1>10
<1> HIDE DEF claim, turned
<1> QED BY <1>6, <1>7, <1>11, <1>12, <1>13, <1>14

(* What a completion does to the records before they are written.            *)
LEMMA CompleteRecords ==
    ASSUME TypeOK, NEW g \in Generations, NEW i \in Invocations, CompleteBegin(g, i)
    PROVE  \E E \in SUBSET Invocations, written \in [Invocations -> Records] :
              /\ \A j \in E : j # i /\ mem[g][j] \in Completed
              /\ Forget(Dropped(g, E))
              /\ mem' = [mem EXCEPT ![g] = written]
              /\ \A j \in Invocations : j # i => written[j] =
                    IF j \in E \/ mem[g][j] = "lapsed" THEN "none" ELSE mem[g][j]
              /\ \/ /\ written[i] = run[g][i]
                    /\ Hold(g, written)
                    /\ run' = [run EXCEPT ![g][i] = IF run[g][i] = "done" THEN "completing"
                                                    ELSE "closing"]
                    /\ UNCHANGED <<queue, reserved>>
                 \/ /\ written[i] = mem[g][i]
                    /\ ReleaseAndDrain(g, i, reserved[g])
                    /\ UNCHANGED lock
<1> DEFINE completed == [Prune(mem[g]) EXCEPT ![i] = run[g][i]]
<1>1. PICK E \in Evictions(completed, i) :
          /\ Forget(Dropped(g, E))
          /\ IF Fits(Without(completed, E))
             THEN /\ mem' = [mem EXCEPT ![g] = Without(completed, E)]
                  /\ Hold(g, Without(completed, E))
                  /\ run' = [run EXCEPT ![g][i] = IF run[g][i] = "done" THEN "completing"
                                                  ELSE "closing"]
                  /\ UNCHANGED <<queue, reserved>>
             ELSE /\ mem' = [mem EXCEPT ![g] =
                               [Without(completed, E) EXCEPT ![i] = mem[g][i]]]
                  /\ ReleaseAndDrain(g, i, reserved[g])
                  /\ UNCHANGED lock
  BY DEF CompleteBegin
<1>2. mem[g] \in [Invocations -> Records] /\ run[g][i] \in {"done", "unsent"}
  BY Types DEF CompleteBegin
<1>3. /\ completed \in [Invocations -> Records]
      /\ \A j \in Invocations : completed[j] =
            IF j = i THEN run[g][i] ELSE IF mem[g][j] = "lapsed" THEN "none" ELSE mem[g][j]
  <2>1. /\ Prune(mem[g]) \in [Invocations -> Records]
        /\ \A j \in Invocations :
              Prune(mem[g])[j] = IF mem[g][j] = "lapsed" THEN "none" ELSE mem[g][j]
    BY <1>2, RecordOps
  <2> QED BY <2>1, <1>2 DEF Records
<1> HIDE DEF completed
<1>4. \A j \in E : j \in Invocations /\ j # i /\ completed[j] \in Completed
  BY EvictedAreCompleted
<1>5. \A j \in E : j # i /\ mem[g][j] \in Completed /\ completed[j] = mem[g][j]
  BY <1>3, <1>4 DEF Completed
<1>6. Forget(Dropped(g, E))
  BY <1>1
<1> DEFINE new == Without(completed, E)
           old == [new EXCEPT ![i] = mem[g][i]]
<1>7. /\ new \in [Invocations -> Records]
      /\ \A j \in Invocations : new[j] = IF j \in E THEN "none" ELSE completed[j]
  BY <1>3, RecordOps
<1>8. E \in SUBSET Invocations
  BY <1>4
<1>9. CASE mem' = [mem EXCEPT ![g] = new] /\ Hold(g, new)
           /\ run' = [run EXCEPT ![g][i] = IF run[g][i] = "done" THEN "completing" ELSE "closing"]
           /\ UNCHANGED <<queue, reserved>>
  <2>1. new[i] = run[g][i]
    BY <1>3, <1>5, <1>7
  <2>2. \A j \in Invocations : j # i => new[j] =
            IF j \in E \/ mem[g][j] = "lapsed" THEN "none" ELSE mem[g][j]
    BY <1>3, <1>7
  <2> HIDE DEF new
  <2> QED BY <2>1, <2>2, <1>5, <1>6, <1>7, <1>8, <1>9
<1>10. CASE mem' = [mem EXCEPT ![g] = old] /\ ReleaseAndDrain(g, i, reserved[g]) /\ UNCHANGED lock
  <2> HIDE DEF new
  <2>1. old \in [Invocations -> Records] /\ old[i] = mem[g][i]
    BY <1>2, <1>7
  <2>2. \A j \in Invocations : j # i => old[j] =
            IF j \in E \/ mem[g][j] = "lapsed" THEN "none" ELSE mem[g][j]
    BY <1>3, <1>7
  <2> HIDE DEF old
  <2> QED BY <2>1, <2>2, <1>5, <1>6, <1>8, <1>10
<1> QED BY <1>1, <1>9, <1>10

-----------------------------------------------------------------------------
(* The broker's account holds: one lemma per kind of step *)

(* The broker starts with an empty account.                                  *)
LEMMA BrokerInit == Init => BrokerInv
<1> SUFFICES ASSUME Init PROVE BrokerInv
  OBVIOUS
<1>1. TypeOK
  <2>1. latest \in Generations
    BY BrokerAssumption DEF Init
  <2> QED BY <2>1 DEF Init, TypeOK, NoRecords, NoRuns, NoLock, Records, Runs
<1>2. ASSUME NEW g \in Generations PROVE Account(g)
  <2>1. /\ reserved[g] = 0 /\ active[g] = 0 /\ queue[g] = <<>>
        /\ \A i \in Invocations : run[g][i] = "none"
    BY DEF Init, NoRuns
  <2>2. In(g, {"claim", "claiming"}) = {} /\ In(g, {"host"}) = {}
    BY <2>1 DEF In
  <2>3. Slots(g)
    <3>1. Cardinality({}) = 0
      BY FS_EmptySet
    <3>2. MaxConcurrent \in Nat
      BY BrokerAssumption
    <3>3. /\ reserved[g] = Cardinality(In(g, {"claim", "claiming"}))
          /\ active[g] = Cardinality(In(g, {"host"}))
      BY <2>1, <2>2, <3>1
    <3>4. active[g] + reserved[g] <= MaxConcurrent
      BY <2>1, <3>2
    <3> QED BY <3>3, <3>4 DEF Slots
  <2>4. Wakeup(g) /\ Match(g) /\ QueueExact(g) /\ Asleep(g)
    BY <2>1 DEF Wakeup, Match, QueueExact, Asleep, In
  <2> QED BY <2>3, <2>4 DEF Account
<1> QED BY <1>1, <1>2 DEF BrokerInv

(* What is only remembered for the properties.                               *)
Traced ==
    /\ sent \in [Invocations -> 0 .. 2]
    /\ latest \in Generations
    /\ asked \subseteq Invocations
    /\ overwritten \subseteq Invocations

(* Every step keeps the histories typed.                                     *)
LEMMA TracedStep == ASSUME TypeOK, Next PROVE Traced'
<1>0. Traced
  BY DEF TypeOK, Traced
<1>1. ASSUME NEW I, Forget(I)
      PROVE  sent' \in [Invocations -> 0 .. 2] /\ asked' \subseteq Invocations
  BY <1>0, <1>1 DEF Forget, Traced
<1>2. CASE UNCHANGED <<called, memory>>
  BY <1>0, <1>2 DEF called, memory, Traced
<1>3. CASE UNCHANGED memory /\ \E I : Forget(I)
  BY <1>0, <1>1, <1>3 DEF memory, Traced
<1>4. ASSUME NEW g \in Generations, NEW i \in Invocations, Request(g, i) PROVE Traced'
  BY <1>2, <1>4 DEF Request, Admit, Enqueue, Busy, Duplicate
<1>5. ASSUME NEW g \in Generations, NEW i \in Invocations, RunStep(g, i) PROVE Traced'
  <2>1. CASE QueueTimeout(g, i) \/ RefuseClosed(g, i) \/ HostReturns(g, i)
    BY <2>1, <1>2 DEF QueueTimeout, RefuseClosed, HostReturns
  <2>2. CASE ClaimBegin(g, i) \/ CompleteBegin(g, i)
    BY <2>2, <1>3 DEF ClaimBegin, CompleteBegin
  <2>3. CASE HostRefuses(g, i)
    BY <2>3, <1>0 DEF HostRefuses, memory, Traced
  <2>4. CASE ClaimPersisted(g, i)
    <3>1. CASE CallHost(g, i)
      BY <2>4, <3>1, <1>0 DEF ClaimPersisted, CallHost, called, memory, Traced
    <3>2. CASE RefuseRun(g, i)
      BY <2>4, <3>2, <1>2 DEF ClaimPersisted, RefuseRun
    <3> QED BY <2>4, <3>1, <3>2 DEF ClaimPersisted
  <2>5. CASE ClaimFails(g, i) \/ CompletePersisted(g, i) \/ CompleteFails(g, i)
    BY <2>5, <1>2 DEF ClaimFails, CompletePersisted, CompleteFails
  <2> QED BY <1>5, <2>1, <2>2, <2>3, <2>4, <2>5 DEF RunStep, PersistEnd
<1>6. ASSUME NEW g \in Generations, Rename(g) PROVE Traced'
  <2>1. sent' \in [Invocations -> 0 .. 2] /\ asked' \subseteq Invocations
    BY <1>1, <1>6 DEF Rename
  <2>2. latest' = latest /\ overwritten' = overwritten \cup WrittenOver(g)
    BY <1>6 DEF Rename
  <2> QED BY <2>1, <2>2, <1>0 DEF WrittenOver, Traced
<1>7. ASSUME NEW g \in Generations, Stop(g) PROVE Traced'
  BY <1>2, <1>7 DEF Stop
<1>8. ASSUME NEW g \in Generations, Start(g) PROVE Traced'
  BY <1>0, <1>8 DEF Start, called, Traced
<1>9. ASSUME NEW i \in Invocations, Lapse(i) PROVE Traced'
  BY <1>3, <1>9 DEF Lapse
<1>10. CASE Crash
  BY <1>2, <1>10 DEF Crash
<1> QED BY <1>4, <1>5, <1>6, <1>7, <1>8, <1>9, <1>10 DEF Next

(* One run more or less at some point.                                       *)
LEMMA Counted ==
    ASSUME NEW g, NEW S, NEW i
    PROVE  /\ i \notin In(g, S) =>
                  Cardinality(In(g, S) \cup {i}) = Cardinality(In(g, S)) + 1
           /\ i \in In(g, S) =>
                  /\ Cardinality(In(g, S) \ {i}) = Cardinality(In(g, S)) - 1
                  /\ Cardinality(In(g, S)) > 0
<1>1. IsFiniteSet(In(g, S)) /\ Cardinality(In(g, S)) \in Nat
  BY InFinite
<1>2. ASSUME i \notin In(g, S)
      PROVE  Cardinality(In(g, S) \cup {i}) = Cardinality(In(g, S)) + 1
  BY <1>1, <1>2, FS_AddElement
<1>3. ASSUME i \in In(g, S)
      PROVE  /\ Cardinality(In(g, S) \ {i}) = Cardinality(In(g, S)) - 1
             /\ Cardinality(In(g, S)) > 0
  <2>1. Cardinality(In(g, S)) # 0
    BY <1>1, <1>3, FS_EmptySet
  <2>2. Cardinality(In(g, S) \ {i}) = Cardinality(In(g, S)) - 1
    BY <1>1, <1>3, FS_RemoveElement
  <2> QED BY <2>1, <2>2, <1>1
<1> QED BY <1>2, <1>3

(* A request that is admitted takes a free slot.                             *)
LEMMA AdmitKeeps ==
    ASSUME BrokerInv, NEW g \in Generations, NEW i \in Invocations, Admit(g, i), Traced'
    PROVE  BrokerInv'
<1>0. TypeOK /\ Account(g)
  BY DEF BrokerInv
<1>1. /\ run' = [run EXCEPT ![g][i] = "claim"]
      /\ reserved' = [reserved EXCEPT ![g] = reserved[g] + 1]
      /\ UNCHANGED <<file, state, mem, queue, active, lock, misproved>>
      /\ run[g][i] = "none" /\ mem[g][i] \in {"none", "lapsed"} /\ Free(g)
      /\ state[g] = "serving"
  BY DEF Admit, Fresh
<1>2. /\ run' \in [Generations -> [Invocations -> Runs]]
      /\ \A h \in Generations : h # g => run'[h] = run[h]
      /\ \A j \in Invocations : run'[g][j] = IF j = i THEN "claim" ELSE run[g][j]
  <2>1. "claim" \in Runs
    BY DEF Runs
  <2>2. run' = [run EXCEPT ![g][i] = "claim"]
    BY <1>1
  <2> QED BY <1>0, <2>1, <2>2, MovedRun, ZenonT(40)
<1>3. /\ reserved[g] \in Nat /\ active[g] \in Nat /\ MaxConcurrent \in Nat
      /\ reserved' \in [Generations -> Nat] /\ reserved'[g] = reserved[g] + 1
      /\ \A h \in Generations : h # g => reserved'[h] = reserved[h]
  BY <1>0, <1>1, Types DEF TypeOK
<1>4. TypeOK'
  BY <1>0, <1>1, <1>2, <1>3 DEF TypeOK, Traced
<1>5. Slots(g)'
  <2>1. i \notin In(g, {"claim", "claiming"}) /\ i \notin In(g, {"host"})
    BY <1>1 DEF In
  <2>2. /\ In(g, {"claim", "claiming"})' = In(g, {"claim", "claiming"}) \cup {i}
        /\ In(g, {"host"})' = In(g, {"host"})
    BY <2>1, <1>2 DEF In
  <2>3. reserved'[g] = Cardinality(In(g, {"claim", "claiming"})')
    BY <2>1, <2>2, <1>0, <1>3, Counted DEF Account, Slots
  <2> QED BY <2>2, <2>3, <1>0, <1>1, <1>3 DEF Account, Slots, Free
<1>6. Wakeup(g)'
  <2>1. In(g, Ending)' = In(g, Ending)
    BY <1>1, <1>2 DEF Ending, In
  <2>2. Free(g)' => Free(g)
    BY <1>1, <1>3 DEF Free
  <2> QED BY <2>1, <2>2, <1>0, <1>1 DEF Account, Wakeup
<1>7. Match(g)'
  BY <1>0, <1>1, <1>2 DEF Account, Match, In
<1>8. QueueExact(g)'
  <2>1. \A n \in 1 .. Len(queue[g]) : queue[g][n] # i /\ queue[g][n] \in Invocations
    BY <1>0, <1>1, Types DEF Account, QueueExact
  <2> QED BY <2>1, <1>0, <1>1, <1>2 DEF Account, QueueExact
<1>9. ASSUME NEW h \in Generations PROVE Account(h)'
  <2>1. CASE h = g
    BY <2>1, <1>1, <1>5, <1>6, <1>7, <1>8 DEF Account, Asleep
  <2>2. CASE h # g
    BY <2>2, <1>1, <1>2, <1>3, Untouched DEF BrokerInv
  <2> QED BY <2>1, <2>2
<1> QED BY <1>4, <1>9 DEF BrokerInv

(* A request that is queued joins the others, while no slot is free.         *)
LEMMA EnqueueKeeps ==
    ASSUME BrokerInv, NEW g \in Generations, NEW i \in Invocations, Enqueue(g, i), Traced'
    PROVE  BrokerInv'
<1>0. TypeOK /\ Account(g)
  BY DEF BrokerInv
<1>1. /\ run' = [run EXCEPT ![g][i] = "queued"]
      /\ queue' = [queue EXCEPT ![g] = Append(queue[g], i)]
      /\ UNCHANGED <<file, state, mem, reserved, active, lock, misproved>>
      /\ state[g] = "serving"
      /\ run[g][i] = "none" /\ mem[g][i] \in {"none", "lapsed"} /\ ~Free(g)
  BY DEF Enqueue, Fresh
<1>2. /\ run' \in [Generations -> [Invocations -> Runs]]
      /\ \A h \in Generations : h # g => run'[h] = run[h]
      /\ \A j \in Invocations : run'[g][j] = IF j = i THEN "queued" ELSE run[g][j]
  <2>1. "queued" \in Runs
    BY DEF Runs
  <2>2. run' = [run EXCEPT ![g][i] = "queued"]
    BY <1>1
  <2> QED BY <1>0, <2>1, <2>2, MovedRun, ZenonT(40)
<1>3. /\ queue[g] \in Seq(Invocations) /\ Len(queue[g]) \in Nat
      /\ \A n \in 1 .. Len(queue[g]) : queue[g][n] \in Invocations
      /\ queue \in [Generations -> Seq(Invocations)]
  BY <1>0, Types DEF TypeOK
<1>4. /\ queue'[g] \in Seq(Invocations)
      /\ Len(queue'[g]) = Len(queue[g]) + 1
      /\ \A n \in 1 .. Len(queue[g]) : queue'[g][n] = queue[g][n]
      /\ queue'[g][Len(queue[g]) + 1] = i
      /\ \A h \in Generations : h # g => queue'[h] = queue[h]
  BY <1>1, <1>3, AppendProperties
<1>5. queue' \in [Generations -> Seq(Invocations)]
  BY <1>1, <1>3
<1>6. TypeOK'
  BY <1>0, <1>1, <1>2, <1>5 DEF TypeOK, Traced
<1>7. Slots(g)'
  <2>1. i \notin In(g, {"claim", "claiming"}) /\ i \notin In(g, {"host"})
    BY <1>1 DEF In
  <2>2. /\ In(g, {"claim", "claiming"})' = In(g, {"claim", "claiming"})
        /\ In(g, {"host"})' = In(g, {"host"})
    BY <2>1, <1>2 DEF In
  <2> QED BY <2>2, <1>0, <1>1 DEF Account, Slots
<1>8. Wakeup(g)'
  BY <1>1 DEF Wakeup, Free
<1>9. Match(g)'
  BY <1>0, <1>1, <1>2 DEF Account, Match, In
<1>10. QueueExact(g)'
  <2>1. \A n \in 1 .. Len(queue[g]) : queue[g][n] # i
    BY <1>0, <1>1 DEF Account, QueueExact
  <2>2. \A n \in 1 .. Len(queue'[g]) :
            \/ n \in 1 .. Len(queue[g]) /\ queue'[g][n] = queue[g][n]
            \/ n = Len(queue[g]) + 1 /\ queue'[g][n] = i
    BY <1>3, <1>4
  <2>3. ASSUME NEW n \in 1 .. Len(queue'[g]) PROVE run'[g][queue'[g][n]] = "queued"
    <3>1. CASE n \in 1 .. Len(queue[g]) /\ queue'[g][n] = queue[g][n]
      <4>1. queue[g][n] \in Invocations /\ run[g][queue[g][n]] = "queued"
        BY <3>1, <1>0, <1>3 DEF Account, QueueExact
      <4> QED BY <3>1, <4>1, <1>2
    <3>2. CASE queue'[g][n] = i
      BY <3>2, <1>2
    <3> QED BY <2>2, <3>1, <3>2
  <2>4. ASSUME NEW m \in 1 .. Len(queue'[g]), NEW n \in 1 .. Len(queue'[g]),
               queue'[g][m] = queue'[g][n]
        PROVE  m = n
    BY <2>1, <2>2, <2>4, <1>0 DEF Account, QueueExact
  <2>5. ASSUME NEW j \in Invocations, run'[g][j] = "queued"
        PROVE  \E n \in 1 .. Len(queue'[g]) : queue'[g][n] = j
    <3>1. CASE j = i
      BY <3>1, <1>3, <1>4
    <3>2. CASE j # i
      <4>1. PICK n \in 1 .. Len(queue[g]) : queue[g][n] = j
        BY <3>2, <2>5, <1>0, <1>2 DEF Account, QueueExact
      <4>2. n \in 1 .. Len(queue'[g]) /\ queue'[g][n] = j
        BY <4>1, <1>3, <1>4
      <4> QED BY <4>2
    <3> QED BY <3>1, <3>2
  <2> QED BY <2>3, <2>4, <2>5, <1>1 DEF QueueExact
<1>11. ASSUME NEW h \in Generations PROVE Account(h)'
  <2>1. CASE h = g
    BY <2>1, <1>1, <1>7, <1>8, <1>9, <1>10 DEF Account, Asleep
  <2>2. CASE h # g
    BY <2>2, <1>1, <1>2, <1>4, Untouched DEF BrokerInv
  <2> QED BY <2>1, <2>2
<1> QED BY <1>6, <1>11 DEF BrokerInv

(* Taking one element out of a sequence.                                     *)
LEMMA TakenOut ==
    ASSUME NEW q \in Seq(Invocations), NEW n \in 1 .. Len(q)
    PROVE  /\ RemoveAt(q, n) \in Seq(Invocations)
           /\ Len(RemoveAt(q, n)) = Len(q) - 1
           /\ \A m \in 1 .. Len(q) - 1 : RemoveAt(q, n)[m] = IF m < n THEN q[m] ELSE q[m + 1]
<1>1. Len(q) \in Nat /\ \A m \in 1 .. Len(q) : q[m] \in Invocations
  OBVIOUS
<1> DEFINE front == SubSeq(q, 1, n - 1)
           back == SubSeq(q, n + 1, Len(q))
<1>2. /\ front \in Seq(Invocations)
      /\ Len(front) = IF 1 <= n - 1 THEN (n - 1) - 1 + 1 ELSE 0
      /\ \A m \in 1 .. (n - 1) - 1 + 1 : front[m] = q[1 + m - 1]
  <2>1. 1 \in Int /\ n - 1 \in Int /\ \A m \in 1 .. n - 1 : q[m] \in Invocations
    BY <1>1
  <2> QED BY <2>1, SubSeqProperties
<1>3. /\ back \in Seq(Invocations)
      /\ Len(back) = IF n + 1 <= Len(q) THEN Len(q) - (n + 1) + 1 ELSE 0
      /\ \A m \in 1 .. Len(q) - (n + 1) + 1 : back[m] = q[n + 1 + m - 1]
  <2>1. n + 1 \in Int /\ Len(q) \in Int /\ \A m \in n + 1 .. Len(q) : q[m] \in Invocations
    BY <1>1
  <2> QED BY <2>1, SubSeqProperties
<1>4. RemoveAt(q, n) = front \o back
  BY DEF RemoveAt
<1> HIDE DEF front, back
<1>5. /\ front \o back \in Seq(Invocations)
      /\ Len(front \o back) = Len(front) + Len(back)
      /\ \A m \in 1 .. Len(front) + Len(back) :
            (front \o back)[m] = IF m <= Len(front) THEN front[m] ELSE back[m - Len(front)]
  BY <1>2, <1>3, ConcatProperties
<1>6. Len(front) = n - 1 /\ Len(back) = Len(q) - n
  BY <1>1, <1>2, <1>3
<1>7. ASSUME NEW m \in 1 .. Len(q) - 1
      PROVE  (front \o back)[m] = IF m < n THEN q[m] ELSE q[m + 1]
  <2>1. CASE m < n
    <3>1. m <= Len(front) /\ m \in 1 .. Len(front) + Len(back)
      BY <2>1, <1>1, <1>6
    <3>2. front[m] = q[m]
      BY <2>1, <1>1, <1>2
    <3> QED BY <2>1, <3>1, <3>2, <1>5
  <2>2. CASE ~(m < n)
    <3>1. ~(m <= Len(front)) /\ m \in 1 .. Len(front) + Len(back)
      BY <2>2, <1>1, <1>6
    <3>2. m - Len(front) = m - (n - 1) /\ m - (n - 1) \in 1 .. Len(q) - (n + 1) + 1
      BY <2>2, <1>1, <1>6
    <3>3. back[m - (n - 1)] = q[n + 1 + (m - (n - 1)) - 1]
      BY <3>2, <1>3
    <3>4. n + 1 + (m - (n - 1)) - 1 = m + 1
      BY <1>1
    <3> QED BY <2>2, <3>1, <3>2, <3>3, <3>4, <1>5
  <2> QED BY <2>1, <2>2
<1>8. Len(front \o back) = Len(q) - 1
  BY <1>1, <1>5, <1>6
<1> QED BY <1>4, <1>5, <1>7, <1>8

(* A request whose wait is over leaves the queue to the others.              *)
LEMMA QueueTimeoutKeeps ==
    ASSUME BrokerInv, NEW g \in Generations, NEW i \in Invocations, QueueTimeout(g, i), Traced'
    PROVE  BrokerInv'
<1>0. TypeOK /\ Account(g)
  BY DEF BrokerInv
<1>1. /\ run[g][i] = "queued"
      /\ run' = [run EXCEPT ![g][i] = "none"]
      /\ AnswerNotSent(g, i)
      /\ UNCHANGED <<file, state, mem, reserved, active, lock>>
  BY DEF QueueTimeout
<1>2. PICK n \in 1 .. Len(queue[g]) :
          queue[g][n] = i /\ queue' = [queue EXCEPT ![g] = RemoveAt(queue[g], n)]
  BY DEF QueueTimeout
<1>3. /\ run' \in [Generations -> [Invocations -> Runs]]
      /\ \A h \in Generations : h # g => run'[h] = run[h]
      /\ \A j \in Invocations : run'[g][j] = IF j = i THEN "none" ELSE run[g][j]
  <2>1. "none" \in Runs
    BY DEF Runs
  <2> QED BY <2>1, <1>0, <1>1, MovedRun, ZenonT(40)
<1>4. /\ queue[g] \in Seq(Invocations) /\ Len(queue[g]) \in Nat
      /\ \A m \in 1 .. Len(queue[g]) : queue[g][m] \in Invocations
      /\ queue \in [Generations -> Seq(Invocations)]
  BY <1>0, Types DEF TypeOK
<1>5. /\ queue'[g] \in Seq(Invocations)
      /\ Len(queue'[g]) = Len(queue[g]) - 1
      /\ \A m \in 1 .. Len(queue[g]) - 1 :
            queue'[g][m] = IF m < n THEN queue[g][m] ELSE queue[g][m + 1]
      /\ \A h \in Generations : h # g => queue'[h] = queue[h]
  BY <1>2, <1>4, TakenOut
<1>6. queue' \in [Generations -> Seq(Invocations)]
  BY <1>2, <1>4, <1>5
<1>7. misproved' \subseteq Invocations
  BY <1>0, <1>1 DEF AnswerNotSent, TypeOK
<1>8. TypeOK'
  BY <1>0, <1>1, <1>3, <1>6, <1>7 DEF TypeOK, Traced
<1>10. Slots(g)'
  <2>1. /\ In(g, {"claim", "claiming"})' = In(g, {"claim", "claiming"})
        /\ In(g, {"host"})' = In(g, {"host"})
    BY <1>1, <1>3 DEF In
  <2> QED BY <2>1, <1>0, <1>1 DEF Account, Slots
<1>11. Wakeup(g)'
  <2>1. In(g, Ending)' = In(g, Ending)
    BY <1>1, <1>3 DEF Ending, In
  <2>2. Free(g)' = Free(g)
    BY <1>1 DEF Free
  <2> QED BY <2>1, <2>2, <1>0, <1>4, <1>5 DEF Account, Wakeup
<1>12. Match(g)'
  BY <1>0, <1>1, <1>3 DEF Account, Match, In
<1>13. QueueExact(g)'
  <2>1. ASSUME NEW m \in 1 .. Len(queue'[g])
        PROVE  \/ m < n /\ m \in 1 .. Len(queue[g]) /\ queue'[g][m] = queue[g][m]
               \/ m >= n /\ m + 1 \in 1 .. Len(queue[g]) /\ queue'[g][m] = queue[g][m + 1]
    BY <1>4, <1>5
  <2>2. ASSUME NEW m \in 1 .. Len(queue'[g]) PROVE run'[g][queue'[g][m]] = "queued"
    <3>0. m \in Nat /\ n \in Nat
      BY <1>4, <1>5
    <3>1. PICK l \in 1 .. Len(queue[g]) : l # n /\ queue'[g][m] = queue[g][l]
      <4>1. CASE m < n /\ m \in 1 .. Len(queue[g]) /\ queue'[g][m] = queue[g][m]
        BY <4>1, <3>0
      <4>2. CASE m >= n /\ m + 1 \in 1 .. Len(queue[g]) /\ queue'[g][m] = queue[g][m + 1]
        <5>1. m + 1 # n
          BY <4>2, <3>0
        <5> QED BY <4>2, <5>1
      <4> QED BY <2>1, <4>1, <4>2
    <3>2. queue[g][l] # i /\ queue[g][l] \in Invocations /\ run[g][queue[g][l]] = "queued"
      BY <3>1, <1>0, <1>2, <1>4 DEF Account, QueueExact
    <3> QED BY <3>1, <3>2, <1>3
  <2>3. ASSUME NEW l \in 1 .. Len(queue'[g]), NEW m \in 1 .. Len(queue'[g]),
               queue'[g][l] = queue'[g][m]
        PROVE  l = m
    <3>1. \A a, b \in 1 .. Len(queue[g]) : queue[g][a] = queue[g][b] => a = b
      BY <1>0 DEF Account, QueueExact
    <3>2. l \in Nat /\ m \in Nat /\ n \in Nat
      BY <1>4, <1>5
    <3>3. CASE l < n /\ m < n
      BY <3>1, <3>2, <3>3, <2>1, <2>3
    <3>4. CASE l >= n /\ m >= n
      <4>1. l + 1 = m + 1
        BY <3>1, <3>2, <3>4, <2>1, <2>3
      <4> QED BY <4>1, <3>2
    <3>5. CASE l < n /\ m >= n
      <4>1. l = m + 1
        BY <3>1, <3>2, <3>5, <2>1, <2>3
      <4> QED BY <4>1, <3>2, <3>5
    <3>6. CASE l >= n /\ m < n
      <4>1. l + 1 = m
        BY <3>1, <3>2, <3>6, <2>1, <2>3
      <4> QED BY <4>1, <3>2, <3>6
    <3> QED BY <3>2, <3>3, <3>4, <3>5, <3>6
  <2>4. ASSUME NEW j \in Invocations, run'[g][j] = "queued"
        PROVE  \E m \in 1 .. Len(queue'[g]) : queue'[g][m] = j
    <3>1. j # i /\ run[g][j] = "queued"
      BY <2>4, <1>3
    <3>2. PICK l \in 1 .. Len(queue[g]) : queue[g][l] = j
      BY <3>1, <1>0 DEF Account, QueueExact
    <3>3. l # n /\ l \in Nat /\ n \in Nat
      BY <3>1, <3>2, <1>2, <1>4
    <3>4. CASE l < n
      <4>1. l \in 1 .. Len(queue[g]) - 1
        BY <3>2, <3>3, <3>4, <1>2, <1>4
      <4>2. l \in 1 .. Len(queue'[g]) /\ queue'[g][l] = j
        BY <4>1, <3>2, <3>4, <1>5
      <4> QED BY <4>2
    <3>5. CASE l > n
      <4>1. l - 1 \in 1 .. Len(queue[g]) - 1 /\ ~(l - 1 < n) /\ (l - 1) + 1 = l
        BY <3>2, <3>3, <3>5, <1>2, <1>4
      <4>2. l - 1 \in 1 .. Len(queue'[g]) /\ queue'[g][l - 1] = j
        BY <4>1, <3>2, <1>5
      <4> QED BY <4>2
    <3> QED BY <3>3, <3>4, <3>5
  <2>5. state'[g] # "serving" => Len(queue'[g]) = 0
    BY <1>0, <1>1, <1>2, <1>4 DEF Account, QueueExact
  <2> QED BY <2>2, <2>3, <2>4, <2>5 DEF QueueExact
<1>14. ASSUME NEW h \in Generations PROVE Account(h)'
  <2>1. CASE h = g
    BY <2>1, <1>0, <1>1, <1>10, <1>11, <1>12, <1>13 DEF Account, Asleep
  <2>2. CASE h # g
    BY <2>2, <1>1, <1>3, <1>5, Untouched DEF BrokerInv
  <2> QED BY <2>1, <2>2
<1> QED BY <1>8, <1>14 DEF BrokerInv

(* A claim that is taken, or finds the journal full.                         *)
LEMMA ClaimBeginKeeps ==
    ASSUME BrokerInv, NEW g \in Generations, NEW i \in Invocations, ClaimBegin(g, i), Traced'
    PROVE  BrokerInv'
<1>0. TypeOK /\ Account(g)
  BY DEF BrokerInv
<1>1. /\ run[g][i] = "claim" /\ mem[g][i] \in {"none", "lapsed"}
      /\ UNCHANGED <<file, state, active, misproved>>
  BY DEF ClaimBegin
<1>2. PICK E \in SUBSET Invocations, claim, turned \in [Invocations -> Records] :
          /\ \A j \in E : j # i /\ mem[g][j] \in Completed
          /\ Forget(Dropped(g, E))
          /\ \A j \in Invocations : claim[j] =
                IF j = i THEN "pending"
                ELSE IF j \in E \/ mem[g][j] = "lapsed" THEN "none" ELSE mem[g][j]
          /\ \A j \in Invocations : turned[j] =
                IF j \in E \/ mem[g][j] = "lapsed" THEN "none" ELSE mem[g][j]
          /\ \/ /\ mem' = [mem EXCEPT ![g] = claim] /\ Hold(g, claim)
                /\ run' = [run EXCEPT ![g][i] = "claiming"]
                /\ UNCHANGED <<queue, reserved>>
             \/ /\ mem' = [mem EXCEPT ![g] = turned]
                /\ ReleaseAndDrain(g, i, reserved[g] - 1)
                /\ UNCHANGED lock
  BY <1>0, ClaimRecords
<1>3. claim \in [Invocations -> Records] /\ turned \in [Invocations -> Records]
  OBVIOUS
<1>4. /\ \A j \in Invocations : claim[j] =
            IF j = i THEN "pending"
            ELSE IF j \in E \/ mem[g][j] = "lapsed" THEN "none" ELSE mem[g][j]
      /\ \A j \in Invocations : turned[j] =
            IF j \in E \/ mem[g][j] = "lapsed" THEN "none" ELSE mem[g][j]
  BY <1>2
<1>5. /\ mem \in [Generations -> [Invocations -> Records]]
      /\ \A j \in E : mem[g][j] \notin {"none", "lapsed", "pending"}
  BY <1>0, <1>2 DEF TypeOK, Completed
<1>6. CASE /\ mem' = [mem EXCEPT ![g] = claim] /\ Hold(g, claim)
           /\ run' = [run EXCEPT ![g][i] = "claiming"] /\ UNCHANGED <<queue, reserved>>
  <2>1. /\ run' \in [Generations -> [Invocations -> Runs]]
        /\ \A h \in Generations : h # g => run'[h] = run[h]
        /\ \A j \in Invocations : run'[g][j] = IF j = i THEN "claiming" ELSE run[g][j]
    <3>1. "claiming" \in Runs
      BY DEF Runs
    <3> QED BY <3>1, <1>0, <1>6, MovedRun, ZenonT(40)
  <2>2. /\ mem' \in [Generations -> [Invocations -> Records]] /\ mem'[g] = claim
        /\ \A h \in Generations : h # g => mem'[h] = mem[h]
    BY <1>3, <1>5, <1>6
  <2>3. lock' \in [Generations -> [held : BOOLEAN, renamed : BOOLEAN,
                                   snapshot : [Invocations -> Records]]]
    BY <1>0, <1>3, <1>6 DEF Hold, TypeOK
  <2>4. TypeOK'
    BY <1>0, <1>1, <1>5, <1>6, <2>1, <2>2, <2>3 DEF TypeOK, Traced
  <2>5. Slots(g)'
    <3>1. /\ In(g, {"claim", "claiming"})' = In(g, {"claim", "claiming"})
          /\ In(g, {"host"})' = In(g, {"host"})
      BY <1>1, <2>1 DEF In
    <3> QED BY <3>1, <1>0, <1>1, <1>6 DEF Account, Slots
  <2>6. Wakeup(g)'
    <3>1. In(g, Ending)' = In(g, Ending)
      BY <1>1, <2>1 DEF In, Ending
    <3>2. Free(g)' = Free(g)
      BY <1>1, <1>6 DEF Free
    <3> QED BY <3>1, <3>2, <1>0, <1>6 DEF Account, Wakeup
  <2>7. Match(g)'
    BY <1>0, <1>4, <1>5, <2>1, <2>2 DEF Account, Match, In
  <2>8. QueueExact(g)'
    <3>1. \A n \in 1 .. Len(queue[g]) : queue[g][n] # i /\ queue[g][n] \in Invocations
      BY <1>0, <1>1, Types DEF Account, QueueExact
    <3>2. QueueExact(g) /\ queue' = queue
      BY <1>0, <1>6 DEF Account
    <3> QED BY <3>1, <3>2, <1>1, <2>1 DEF QueueExact
  <2>9. ASSUME NEW h \in Generations PROVE Account(h)'
    <3>1. CASE h = g
      BY <3>1, <1>0, <1>1, <2>5, <2>6, <2>7, <2>8 DEF Account, Asleep
    <3>2. CASE h # g
      BY <3>2, <1>1, <1>6, <2>1, <2>2, Untouched DEF BrokerInv
    <3> QED BY <3>1, <3>2
  <2> QED BY <2>4, <2>9 DEF BrokerInv
<1>7. CASE /\ mem' = [mem EXCEPT ![g] = turned] /\ ReleaseAndDrain(g, i, reserved[g] - 1)
           /\ UNCHANGED lock
  <2>1. /\ mem' \in [Generations -> [Invocations -> Records]] /\ mem'[g] = turned
        /\ \A h \in Generations : h # g => mem'[h] = mem[h]
    BY <1>3, <1>5, <1>7
  <2>2. \A j \in Invocations : j # i =>
            /\ mem[g][j] \in {"none", "lapsed"} => mem'[g][j] \in {"none", "lapsed"}
            /\ mem[g][j] = "pending" => mem'[g][j] = "pending"
    BY <1>4, <1>5, <2>1
  <2>3. reserved[g] - 1 = Cardinality(In(g, {"claim", "claiming"}) \ {i})
    <3>1. i \in In(g, {"claim", "claiming"})
      BY <1>1 DEF In
    <3> QED BY <3>1, <1>0, Counted DEF Account, Slots
  <2>4. state' = state /\ active' = active /\ run[g][i] \notin {"queued", "host"}
    BY <1>1
  <2>5. /\ run' \in [Generations -> [Invocations -> Runs]]
        /\ reserved' \in [Generations -> Nat]
        /\ queue' \in [Generations -> Seq(Invocations)]
        /\ \A h \in Generations : Account(h)'
    BY <1>7, <2>1, <2>2, <2>3, <2>4, Released
  <2>6. TypeOK'
    BY <1>0, <1>1, <1>5, <1>7, <2>1, <2>5 DEF TypeOK, Traced
  <2> QED BY <2>5, <2>6 DEF BrokerInv
<1> QED BY <1>2, <1>6, <1>7

(* A completion that is begun, or does not fit the journal.                  *)
LEMMA CompleteBeginKeeps ==
    ASSUME BrokerInv, NEW g \in Generations, NEW i \in Invocations, CompleteBegin(g, i), Traced'
    PROVE  BrokerInv'
<1>0. TypeOK /\ Account(g)
  BY DEF BrokerInv
<1>1. /\ run[g][i] \in {"done", "unsent"} /\ mem[g][i] = "pending"
      /\ UNCHANGED <<file, state, active, misproved>>
  BY DEF CompleteBegin
<1>2. PICK E \in SUBSET Invocations, written \in [Invocations -> Records] :
          /\ \A j \in E : j # i /\ mem[g][j] \in Completed
          /\ Forget(Dropped(g, E))
          /\ mem' = [mem EXCEPT ![g] = written]
          /\ \A j \in Invocations : j # i => written[j] =
                IF j \in E \/ mem[g][j] = "lapsed" THEN "none" ELSE mem[g][j]
          /\ \/ /\ written[i] = run[g][i]
                /\ Hold(g, written)
                /\ run' = [run EXCEPT ![g][i] = IF run[g][i] = "done" THEN "completing"
                                                ELSE "closing"]
                /\ UNCHANGED <<queue, reserved>>
             \/ /\ written[i] = mem[g][i]
                /\ ReleaseAndDrain(g, i, reserved[g])
                /\ UNCHANGED lock
  BY <1>0, CompleteRecords
<1>3. /\ mem \in [Generations -> [Invocations -> Records]]
      /\ \A j \in E : mem[g][j] \notin {"none", "lapsed", "pending"}
  BY <1>0, <1>2 DEF TypeOK, Completed
<1>4. /\ mem' \in [Generations -> [Invocations -> Records]] /\ mem'[g] = written
      /\ \A h \in Generations : h # g => mem'[h] = mem[h]
  BY <1>2, <1>3
<1>5. CASE /\ Hold(g, written) /\ UNCHANGED <<queue, reserved>>
           /\ run' = [run EXCEPT ![g][i] = IF run[g][i] = "done" THEN "completing" ELSE "closing"]
  <2> DEFINE p == IF run[g][i] = "done" THEN "completing" ELSE "closing"
  <2>1. /\ run' \in [Generations -> [Invocations -> Runs]]
        /\ \A h \in Generations : h # g => run'[h] = run[h]
        /\ \A j \in Invocations : run'[g][j] = IF j = i THEN p ELSE run[g][j]
    <3>1. p \in Runs /\ run' = [run EXCEPT ![g][i] = p]
      BY <1>5 DEF Runs
    <3> HIDE DEF p
    <3> QED BY <3>1, <1>0, MovedRun, ZenonT(40)
  <2>2. p \in {"completing", "closing"}
    OBVIOUS
  <2> HIDE DEF p
  <2>3. lock' \in [Generations -> [held : BOOLEAN, renamed : BOOLEAN,
                                   snapshot : [Invocations -> Records]]]
    BY <1>0, <1>5 DEF Hold, TypeOK
  <2>4. TypeOK'
    BY <1>0, <1>1, <1>3, <1>4, <1>5, <2>1, <2>3 DEF TypeOK, Traced
  <2>5. Slots(g)'
    <3>1. /\ In(g, {"claim", "claiming"})' = In(g, {"claim", "claiming"})
          /\ In(g, {"host"})' = In(g, {"host"})
      BY <1>1, <2>1, <2>2 DEF In
    <3> QED BY <3>1, <1>0, <1>1, <1>5 DEF Account, Slots
  <2>6. Wakeup(g)'
    <3>1. i \in In(g, Ending)'
      BY <2>1, <2>2 DEF In, Ending
    <3> QED BY <3>1 DEF Wakeup
  <2>7. Match(g)'
    BY <1>0, <1>2, <1>3, <1>4, <2>1, <2>2 DEF Account, Match, In
  <2>8. QueueExact(g)'
    <3>1. \A n \in 1 .. Len(queue[g]) : queue[g][n] # i /\ queue[g][n] \in Invocations
      BY <1>0, <1>1, Types DEF Account, QueueExact
    <3> QED BY <3>1, <1>0, <1>1, <1>5, <2>1, <2>2 DEF Account, QueueExact
  <2>9. ASSUME NEW h \in Generations PROVE Account(h)'
    <3>1. CASE h = g
      BY <3>1, <1>0, <1>1, <2>5, <2>6, <2>7, <2>8 DEF Account, Asleep
    <3>2. CASE h # g
      BY <3>2, <1>1, <1>4, <1>5, <2>1, Untouched DEF BrokerInv
    <3> QED BY <3>1, <3>2
  <2> QED BY <2>4, <2>9 DEF BrokerInv
<1>6. CASE ReleaseAndDrain(g, i, reserved[g]) /\ UNCHANGED lock
  <2>1. \A j \in Invocations : j # i =>
            /\ mem[g][j] \in {"none", "lapsed"} => mem'[g][j] \in {"none", "lapsed"}
            /\ mem[g][j] = "pending" => mem'[g][j] = "pending"
    BY <1>2, <1>3, <1>4
  <2>2. reserved[g] = Cardinality(In(g, {"claim", "claiming"}) \ {i})
    <3>1. In(g, {"claim", "claiming"}) \ {i} = In(g, {"claim", "claiming"})
      BY <1>1 DEF In
    <3> QED BY <3>1, <1>0 DEF Account, Slots
  <2>3. state' = state /\ active' = active /\ run[g][i] \notin {"queued", "host"}
    BY <1>1
  <2>4. /\ run' \in [Generations -> [Invocations -> Runs]]
        /\ reserved' \in [Generations -> Nat]
        /\ queue' \in [Generations -> Seq(Invocations)]
        /\ \A h \in Generations : Account(h)'
    BY <1>4, <1>6, <2>1, <2>2, <2>3, Released
  <2>5. TypeOK'
    BY <1>0, <1>1, <1>3, <1>4, <1>6, <2>4 DEF TypeOK, Traced
  <2> QED BY <2>4, <2>5 DEF BrokerInv
<1> QED BY <1>2, <1>5, <1>6

(* A write that ends a run, well or not: the run is over and its slot free.  *)
LEMMA WriteEndsKeeps ==
    ASSUME BrokerInv, NEW g \in Generations, NEW i \in Invocations,
           ClaimFails(g, i) \/ CompletePersisted(g, i) \/ CompleteFails(g, i),
           Traced'
    PROVE  BrokerInv'
<1>0. TypeOK /\ Account(g)
  BY DEF BrokerInv
<1>1. /\ run[g][i] \in {"claiming", "completing", "closing"}
      /\ Unlock(g) /\ UNCHANGED <<file, state, active>>
      /\ misproved' = misproved \/ AnswerNotSent(g, i)
      /\ \E r \in {"none", "pending", mem[g][i]} : mem' = [mem EXCEPT ![g][i] = r]
      /\ ReleaseAndDrain(g, i, IF run[g][i] = "claiming" THEN reserved[g] - 1 ELSE reserved[g])
  <2>1. CASE ClaimFails(g, i)
    BY <2>1 DEF ClaimFails
  <2>2. CASE CompletePersisted(g, i)
    <3>1. mem' = [mem EXCEPT ![g][i] = mem[g][i]]
      BY <2>2, <1>0 DEF CompletePersisted, TypeOK
    <3> QED BY <2>2, <3>1 DEF CompletePersisted
  <2>3. CASE CompleteFails(g, i)
    BY <2>3 DEF CompleteFails
  <2> QED BY <2>1, <2>2, <2>3
<1>2. PICK r \in {"none", "pending", mem[g][i]} : mem' = [mem EXCEPT ![g][i] = r]
  BY <1>1
<1>3. mem \in [Generations -> [Invocations -> Records]] /\ r \in Records
  <2>1. mem[g][i] \in Records
    BY <1>0, Types
  <2>2. {"none", "pending"} \subseteq Records
    BY DEF Records
  <2> QED BY <2>1, <2>2, <1>0 DEF TypeOK
<1>4. /\ mem' \in [Generations -> [Invocations -> Records]]
      /\ \A h \in Generations : h # g => mem'[h] = mem[h]
      /\ \A j \in Invocations : j # i => mem'[g][j] = mem[g][j]
  BY <1>2, <1>3
<1>5. lock' \in [Generations -> [held : BOOLEAN, renamed : BOOLEAN,
                                 snapshot : [Invocations -> Records]]]
  BY <1>0, <1>1 DEF Unlock, NoLock, NoRecords, Records, TypeOK
<1>6. misproved' \subseteq Invocations
  BY <1>0, <1>1 DEF AnswerNotSent, TypeOK
<1> DEFINE left == IF run[g][i] = "claiming" THEN reserved[g] - 1 ELSE reserved[g]
<1>7. left = Cardinality(In(g, {"claim", "claiming"}) \ {i})
  <2>1. CASE run[g][i] = "claiming"
    <3>1. i \in In(g, {"claim", "claiming"})
      BY <2>1 DEF In
    <3> QED BY <2>1, <3>1, <1>0, Counted DEF Account, Slots
  <2>2. CASE run[g][i] # "claiming"
    <3>1. In(g, {"claim", "claiming"}) \ {i} = In(g, {"claim", "claiming"})
      BY <2>2, <1>1 DEF In
    <3> QED BY <2>2, <3>1, <1>0 DEF Account, Slots
  <2> QED BY <2>1, <2>2
<1>8. state' = state /\ active' = active /\ run[g][i] \notin {"queued", "host"}
      /\ ReleaseAndDrain(g, i, left)
  BY <1>1
<1> HIDE DEF left
<1>9. /\ run' \in [Generations -> [Invocations -> Runs]]
      /\ reserved' \in [Generations -> Nat]
      /\ queue' \in [Generations -> Seq(Invocations)]
      /\ \A h \in Generations : Account(h)'
  BY <1>4, <1>7, <1>8, Released
<1>10. TypeOK'
  BY <1>0, <1>1, <1>4, <1>5, <1>6, <1>9 DEF TypeOK, Traced
<1> QED BY <1>9, <1>10 DEF BrokerInv

(* A claim that is on disk: the host is called, or the run is refused.       *)
LEMMA ClaimPersistedKeeps ==
    ASSUME BrokerInv, NEW g \in Generations, NEW i \in Invocations, ClaimPersisted(g, i), Traced'
    PROVE  BrokerInv'
<1>0. TypeOK /\ Account(g)
  BY DEF BrokerInv
<1>1. /\ run[g][i] = "claiming" /\ Unlock(g)
      /\ reserved' = [reserved EXCEPT ![g] = reserved[g] - 1]
      /\ UNCHANGED <<file, state, mem, queue, misproved>>
      /\ \/ /\ run' = [run EXCEPT ![g][i] = "host"]
            /\ active' = [active EXCEPT ![g] = active[g] + 1]
         \/ /\ run' = [run EXCEPT ![g][i] = "unsent"]
            /\ active' = active
  BY DEF ClaimPersisted, CallHost, RefuseRun
<1>2. PICK p \in {"host", "unsent"} : run' = [run EXCEPT ![g][i] = p]
  BY <1>1
<1>3. /\ run' \in [Generations -> [Invocations -> Runs]]
      /\ \A h \in Generations : h # g => run'[h] = run[h]
      /\ \A j \in Invocations : run'[g][j] = IF j = i THEN p ELSE run[g][j]
  <2>1. p \in Runs
    BY DEF Runs
  <2> QED BY <2>1, <1>0, <1>2, MovedRun, ZenonT(40)
<1>4. /\ reserved[g] \in Nat /\ active[g] \in Nat /\ MaxConcurrent \in Nat
      /\ reserved[g] = Cardinality(In(g, {"claim", "claiming"}))
      /\ active[g] = Cardinality(In(g, {"host"}))
  BY <1>0, Types DEF Account, Slots
<1>5. /\ Cardinality(In(g, {"claim", "claiming"}) \ {i}) = reserved[g] - 1
      /\ reserved[g] > 0
  <2>1. i \in In(g, {"claim", "claiming"})
    BY <1>1 DEF In
  <2> QED BY <2>1, <1>4, Counted
<1>6. /\ reserved' \in [Generations -> Nat] /\ reserved'[g] = reserved[g] - 1
      /\ \A h \in Generations : h # g => reserved'[h] = reserved[h]
  <2>1. reserved \in [Generations -> Nat] /\ reserved[g] - 1 \in Nat
    BY <1>0, <1>4, <1>5 DEF TypeOK
  <2> QED BY <2>1, <1>1
<1>7. /\ active' \in [Generations -> Nat]
      /\ active'[g] = IF p = "host" THEN active[g] + 1 ELSE active[g]
      /\ \A h \in Generations : h # g => active'[h] = active[h]
  <2>1. active \in [Generations -> Nat]
    BY <1>0 DEF TypeOK
  <2>2. CASE /\ run' = [run EXCEPT ![g][i] = "host"]
             /\ active' = [active EXCEPT ![g] = active[g] + 1]
    <3>1. p = "host"
      BY <2>2, <1>3, MovedRun, <1>0 DEF TypeOK
    <3> QED BY <3>1, <2>1, <2>2
  <2>3. CASE run' = [run EXCEPT ![g][i] = "unsent"] /\ active' = active
    <3>1. p = "unsent"
      BY <2>3, <1>3, <1>0 DEF TypeOK
    <3> QED BY <3>1, <2>1, <2>3
  <2> QED BY <1>1, <2>2, <2>3
<1>8. lock' \in [Generations -> [held : BOOLEAN, renamed : BOOLEAN,
                                 snapshot : [Invocations -> Records]]]
  BY <1>0, <1>1 DEF Unlock, NoLock, NoRecords, Records, TypeOK
<1>9. TypeOK'
  BY <1>0, <1>1, <1>3, <1>6, <1>7, <1>8 DEF TypeOK, Traced
<1>10. Slots(g)'
  <2>1. In(g, {"claim", "claiming"})' = In(g, {"claim", "claiming"}) \ {i}
    BY <1>3 DEF In
  <2>2. In(g, {"host"})' = IF p = "host" THEN In(g, {"host"}) \cup {i} ELSE In(g, {"host"})
    BY <1>1, <1>3 DEF In
  <2>3. i \notin In(g, {"host"})
    BY <1>1 DEF In
  <2>4. active'[g] = Cardinality(In(g, {"host"})')
    BY <2>2, <2>3, <1>4, <1>7, Counted
  <2>5. reserved'[g] = Cardinality(In(g, {"claim", "claiming"})')
    BY <2>1, <1>5, <1>6
  <2>6. active'[g] + reserved'[g] <= MaxConcurrent
    BY <1>0, <1>4, <1>5, <1>6, <1>7 DEF Account, Slots
  <2> QED BY <2>4, <2>5, <2>6 DEF Slots
<1>11. Wakeup(g)'
  <2>1. CASE p = "host"
    <3>1. Free(g)' = Free(g)
      BY <2>1, <1>4, <1>5, <1>6, <1>7 DEF Free
    <3>2. In(g, Ending)' = In(g, Ending)
      BY <2>1, <1>1, <1>3 DEF In, Ending
    <3> QED BY <3>1, <3>2, <1>0, <1>1 DEF Account, Wakeup
  <2>2. CASE p = "unsent"
    <3>1. i \in In(g, Ending)'
      BY <2>2, <1>3 DEF In, Ending
    <3> QED BY <3>1 DEF Wakeup
  <2> QED BY <2>1, <2>2
<1>12. Match(g)'
  BY <1>0, <1>1, <1>3 DEF Account, Match, In
<1>13. QueueExact(g)'
  <2>1. \A n \in 1 .. Len(queue[g]) : queue[g][n] # i /\ queue[g][n] \in Invocations
    BY <1>0, <1>1, Types DEF Account, QueueExact
  <2> QED BY <2>1, <1>0, <1>1, <1>3 DEF Account, QueueExact
<1>14. ASSUME NEW h \in Generations PROVE Account(h)'
  <2>1. CASE h = g
    BY <2>1, <1>0, <1>1, <1>10, <1>11, <1>12, <1>13 DEF Account, Asleep
  <2>2. CASE h # g
    BY <2>2, <1>1, <1>3, <1>6, <1>7, Untouched DEF BrokerInv
  <2> QED BY <2>1, <2>2
<1> QED BY <1>9, <1>14 DEF BrokerInv

(* A host call that is over gives its slot back.                             *)
LEMMA HostReturnsKeeps ==
    ASSUME BrokerInv, NEW g \in Generations, NEW i \in Invocations,
           HostReturns(g, i) \/ HostRefuses(g, i), Traced'
    PROVE  BrokerInv'
<1>0. TypeOK /\ Account(g)
  BY DEF BrokerInv
<1>1. /\ run[g][i] = "host"
      /\ active' = [active EXCEPT ![g] = active[g] - 1]
      /\ \E p \in {"done", "unsent"} : run' = [run EXCEPT ![g][i] = p]
      /\ UNCHANGED <<file, state, mem, queue, reserved, lock, misproved>>
  BY DEF HostReturns, HostRefuses
<1>12. PICK p \in {"done", "unsent"} : run' = [run EXCEPT ![g][i] = p]
  BY <1>1
<1>2. /\ run' \in [Generations -> [Invocations -> Runs]]
      /\ \A h \in Generations : h # g => run'[h] = run[h]
      /\ \A j \in Invocations : run'[g][j] = IF j = i THEN p ELSE run[g][j]
  <2>1. p \in Runs
    BY DEF Runs
  <2> QED BY <2>1, <1>0, <1>12, MovedRun, ZenonT(40)
<1>3. /\ reserved[g] \in Nat /\ active[g] \in Nat /\ MaxConcurrent \in Nat
      /\ active[g] = Cardinality(In(g, {"host"}))
  BY <1>0, Types DEF Account, Slots
<1>4. Cardinality(In(g, {"host"}) \ {i}) = active[g] - 1 /\ active[g] > 0
  <2>1. i \in In(g, {"host"})
    BY <1>1 DEF In
  <2> QED BY <2>1, <1>3, Counted
<1>5. /\ active' \in [Generations -> Nat] /\ active'[g] = active[g] - 1
      /\ \A h \in Generations : h # g => active'[h] = active[h]
  <2>1. active \in [Generations -> Nat] /\ active[g] - 1 \in Nat
    BY <1>0, <1>3, <1>4 DEF TypeOK
  <2> QED BY <2>1, <1>1
<1>6. TypeOK'
  BY <1>0, <1>1, <1>2, <1>5 DEF TypeOK, Traced
<1>7. Slots(g)'
  <2>1. In(g, {"host"})' = In(g, {"host"}) \ {i}
    BY <1>2 DEF In
  <2>2. In(g, {"claim", "claiming"})' = In(g, {"claim", "claiming"})
    BY <1>1, <1>2 DEF In
  <2>3. reserved'[g] = Cardinality(In(g, {"claim", "claiming"})')
    BY <2>2, <1>0, <1>1 DEF Account, Slots
  <2>4. active'[g] = Cardinality(In(g, {"host"})')
    BY <2>1, <1>4, <1>5
  <2>5. active'[g] + reserved'[g] <= MaxConcurrent
    BY <1>0, <1>1, <1>3, <1>5 DEF Account, Slots
  <2> QED BY <2>3, <2>4, <2>5 DEF Slots
<1>8. Wakeup(g)'
  <2>1. i \in In(g, Ending)'
    BY <1>2 DEF In, Ending
  <2> QED BY <2>1 DEF Wakeup
<1>9. Match(g)'
  BY <1>0, <1>1, <1>2 DEF Account, Match, In
<1>10. QueueExact(g)'
  <2>1. \A n \in 1 .. Len(queue[g]) : queue[g][n] # i /\ queue[g][n] \in Invocations
    BY <1>0, <1>1, Types DEF Account, QueueExact
  <2> QED BY <2>1, <1>0, <1>1, <1>2 DEF Account, QueueExact
<1>11. ASSUME NEW h \in Generations PROVE Account(h)'
  <2>1. CASE h = g
    BY <2>1, <1>0, <1>1, <1>7, <1>8, <1>9, <1>10 DEF Account, Asleep
  <2>2. CASE h # g
    BY <2>2, <1>1, <1>2, <1>5, Untouched DEF BrokerInv
  <2> QED BY <2>1, <2>2
<1> QED BY <1>6, <1>11 DEF BrokerInv

(* A run that finds its broker closed gives its place up.                    *)
LEMMA RefuseClosedKeeps ==
    ASSUME BrokerInv, NEW g \in Generations, NEW i \in Invocations, RefuseClosed(g, i), Traced'
    PROVE  BrokerInv'
<1>0. TypeOK /\ Account(g)
  BY DEF BrokerInv
<1>1. /\ run[g][i] = "claim"
      /\ ReleaseAndDrain(g, i, reserved[g] - 1)
      /\ UNCHANGED <<file, state, mem, active, lock, misproved>>
  BY DEF RefuseClosed
<1>2. reserved[g] - 1 = Cardinality(In(g, {"claim", "claiming"}) \ {i})
  <2>1. i \in In(g, {"claim", "claiming"})
    BY <1>1 DEF In
  <2> QED BY <2>1, <1>0, Counted DEF Account, Slots
<1>3. mem' = mem /\ mem \in [Generations -> [Invocations -> Records]]
  BY <1>0, <1>1 DEF TypeOK
<1>4. state' = state /\ active' = active /\ run[g][i] \notin {"queued", "host"}
  BY <1>1
<1>5. /\ run' \in [Generations -> [Invocations -> Runs]]
      /\ reserved' \in [Generations -> Nat]
      /\ queue' \in [Generations -> Seq(Invocations)]
      /\ \A h \in Generations : Account(h)'
  BY <1>1, <1>2, <1>3, <1>4, Released
<1>6. TypeOK'
  BY <1>0, <1>1, <1>5 DEF TypeOK, Traced
<1> QED BY <1>5, <1>6 DEF BrokerInv

(* Answers at once and renames touch no run.                                 *)
LEMMA QuietKeeps ==
    ASSUME BrokerInv, NEW g \in Generations,
           \/ Rename(g)
           \/ \E i \in Invocations : Busy(g, i) \/ Duplicate(g, i),
           Traced'
    PROVE  BrokerInv'
<1>0. TypeOK
  BY DEF BrokerInv
<1>1. /\ UNCHANGED <<state, mem, run, queue, reserved, active>>
      /\ file' \in [Invocations -> Records]
      /\ lock' \in [Generations -> [held : BOOLEAN, renamed : BOOLEAN,
                                    snapshot : [Invocations -> Records]]]
      /\ misproved' \subseteq Invocations
  <2>1. CASE Rename(g)
    <3>1. lock[g] \in [held : BOOLEAN, renamed : BOOLEAN, snapshot : [Invocations -> Records]]
      BY <1>0 DEF TypeOK
    <3> QED BY <3>1, <2>1, <1>0 DEF Rename, TypeOK
  <2>2. CASE \E i \in Invocations : Busy(g, i) \/ Duplicate(g, i)
    BY <2>2, <1>0 DEF Busy, Duplicate, AnswerNotSent, brokerVars, TypeOK
  <2> QED BY <2>1, <2>2
<1>2. TypeOK'
  BY <1>0, <1>1 DEF TypeOK, Traced
<1>3. \A h \in Generations : Account(h)'
  BY <1>1, Untouched DEF BrokerInv
<1> QED BY <1>2, <1>3 DEF BrokerInv

(* A record that lapses was completed: no run stands on it.                  *)
LEMMA LapseKeeps == ASSUME BrokerInv, NEW i \in Invocations, Lapse(i), Traced' PROVE BrokerInv'
<1>0. TypeOK
  BY DEF BrokerInv
<1>1. /\ UNCHANGED <<state, run, queue, reserved, active, misproved>>
      /\ file' = Age(file, i)
      /\ mem' = [g \in Generations |-> Age(mem[g], i)]
      /\ lock' = [g \in Generations |->
                    [lock[g] EXCEPT !.snapshot = Age(lock[g].snapshot, i)]]
  BY DEF Lapse
<1>2. ASSUME NEW g \in Generations
      PROVE  /\ Age(mem[g], i) \in [Invocations -> Records]
             /\ \A j \in Invocations : Age(mem[g], i)[j] =
                    IF j = i /\ mem[g][j] \in Completed THEN "lapsed" ELSE mem[g][j]
  <2>1. mem[g] \in [Invocations -> Records]
    BY <1>0, Types
  <2> QED BY <2>1, RecordOps
<1>3. file' \in [Invocations -> Records]
  BY <1>0, <1>1, RecordOps DEF TypeOK
<1>4. mem' \in [Generations -> [Invocations -> Records]]
  BY <1>1, <1>2
<1>5. lock' \in [Generations -> [held : BOOLEAN, renamed : BOOLEAN,
                                 snapshot : [Invocations -> Records]]]
  <2>1. ASSUME NEW g \in Generations
        PROVE  [lock[g] EXCEPT !.snapshot = Age(lock[g].snapshot, i)]
                  \in [held : BOOLEAN, renamed : BOOLEAN, snapshot : [Invocations -> Records]]
    <3>1. /\ lock[g] \in [held : BOOLEAN, renamed : BOOLEAN, snapshot : [Invocations -> Records]]
          /\ lock[g].snapshot \in [Invocations -> Records]
      BY <1>0 DEF TypeOK
    <3>2. Age(lock[g].snapshot, i) \in [Invocations -> Records]
      BY <3>1, RecordOps
    <3> QED BY <3>1, <3>2
  <2> QED BY <2>1, <1>1
<1>6. TypeOK'
  BY <1>0, <1>1, <1>3, <1>4, <1>5 DEF TypeOK, Traced
<1>7. ASSUME NEW g \in Generations PROVE Account(g)'
  <2>1. Account(g)
    BY DEF BrokerInv
  <2>2. \A j \in Invocations :
            /\ mem[g][j] \in {"none", "lapsed"} => mem'[g][j] \in {"none", "lapsed"}
            /\ mem[g][j] = "pending" => mem'[g][j] = "pending"
    BY <1>1, <1>2 DEF Completed
  <2>3. Slots(g)' /\ Wakeup(g)' /\ QueueExact(g)' /\ Asleep(g)'
    BY <2>1, <1>1 DEF Account, Slots, Wakeup, QueueExact, Asleep, In, Free
  <2>4. Match(g)'
    BY <2>1, <2>2, <1>1 DEF Account, Match, In
  <2> QED BY <2>3, <2>4 DEF Account
<1> QED BY <1>6, <1>7 DEF BrokerInv

(* A broker that stops answers its queue and lets its runs go on.            *)
LEMMA StopKeeps == ASSUME BrokerInv, NEW g \in Generations, Stop(g), Traced' PROVE BrokerInv'
<1>0. TypeOK /\ Account(g)
  BY DEF BrokerInv
<1>1. /\ state' = [state EXCEPT ![g] = "closed"]
      /\ queue' = [queue EXCEPT ![g] = <<>>]
      /\ run' = [run EXCEPT ![g] = [j \in Invocations |->
                    IF run[g][j] = "queued" THEN "none" ELSE run[g][j]]]
      /\ UNCHANGED <<file, mem, reserved, active, lock, misproved>>
  BY DEF Stop
<1>2. run[g] \in [Invocations -> Runs]
  BY <1>0, Types
<1>3. [j \in Invocations |-> IF run[g][j] = "queued" THEN "none" ELSE run[g][j]]
          \in [Invocations -> Runs]
  BY <1>2 DEF Runs
<1>4. /\ run' \in [Generations -> [Invocations -> Runs]]
      /\ \A j \in Invocations : run'[g][j] = IF run[g][j] = "queued" THEN "none" ELSE run[g][j]
      /\ \A h \in Generations : h # g => run'[h] = run[h]
  BY <1>0, <1>1, <1>3 DEF TypeOK
<1>5. /\ queue' \in [Generations -> Seq(Invocations)] /\ queue'[g] = <<>>
      /\ \A h \in Generations : h # g => queue'[h] = queue[h]
  <2>1. <<>> \in Seq(Invocations)
    OBVIOUS
  <2> QED BY <2>1, <1>0, <1>1 DEF TypeOK
<1>6. /\ state' \in [Generations -> {"down", "serving", "closed"}] /\ state'[g] = "closed"
      /\ \A h \in Generations : h # g => state'[h] = state[h]
  BY <1>0, <1>1 DEF TypeOK
<1>7. TypeOK'
  BY <1>0, <1>1, <1>4, <1>5, <1>6 DEF TypeOK, Traced
<1>8. Slots(g)'
  <2>1. /\ In(g, {"claim", "claiming"})' = In(g, {"claim", "claiming"})
        /\ In(g, {"host"})' = In(g, {"host"})
    BY <1>4 DEF In
  <2> QED BY <2>1, <1>0, <1>1 DEF Account, Slots
<1>9. Wakeup(g)' /\ QueueExact(g)' /\ Asleep(g)'
  <2>1. Wakeup(g)' /\ QueueExact(g)'
    BY <1>4, <1>5 DEF Wakeup, QueueExact
  <2>2. Asleep(g)'
    BY <1>6 DEF Asleep
  <2> QED BY <2>1, <2>2
<1>10. Match(g)'
  BY <1>0, <1>1, <1>4 DEF Account, Match, In
<1>11. ASSUME NEW h \in Generations PROVE Account(h)'
  <2>1. CASE h = g
    BY <2>1, <1>8, <1>9, <1>10 DEF Account
  <2>2. CASE h # g
    BY <2>2, <1>1, <1>4, <1>5, <1>6, Untouched DEF BrokerInv
  <2> QED BY <2>1, <2>2
<1> QED BY <1>7, <1>11 DEF BrokerInv

(* A broker that starts has no runs and no queue.                            *)
LEMMA StartKeeps == ASSUME BrokerInv, NEW g \in Generations, Start(g), Traced' PROVE BrokerInv'
<1>0. TypeOK /\ Account(g)
  BY DEF BrokerInv
<1>1. /\ state[g] = "down"
      /\ state' = [state EXCEPT ![g] = "serving"]
      /\ mem' = [mem EXCEPT ![g] = Prune(file)]
      /\ UNCHANGED <<file, run, queue, reserved, active, lock, misproved>>
  BY DEF Start
<1>2. mem' \in [Generations -> [Invocations -> Records]]
      /\ \A h \in Generations : h # g => mem'[h] = mem[h]
  <2>1. Prune(file) \in [Invocations -> Records]
    BY <1>0, RecordOps DEF TypeOK
  <2> QED BY <2>1, <1>0, <1>1 DEF TypeOK
<1>3. /\ state' \in [Generations -> {"down", "serving", "closed"}] /\ state'[g] = "serving"
      /\ \A h \in Generations : h # g => state'[h] = state[h]
  BY <1>0, <1>1 DEF TypeOK
<1>4. TypeOK'
  BY <1>0, <1>1, <1>2, <1>3 DEF TypeOK, Traced
<1>5. Len(queue[g]) = 0 /\ \A j \in Invocations : run[g][j] = "none"
  BY <1>0, <1>1 DEF Account, QueueExact, Asleep
<1>6. Slots(g)'
  BY <1>0, <1>1 DEF Account, Slots, In
<1>7. Wakeup(g)' /\ QueueExact(g)' /\ Match(g)' /\ Asleep(g)'
  BY <1>1, <1>3, <1>5 DEF Wakeup, QueueExact, Match, Asleep, In
<1>8. ASSUME NEW h \in Generations PROVE Account(h)'
  <2>1. CASE h = g
    BY <2>1, <1>6, <1>7 DEF Account
  <2>2. CASE h # g
    BY <2>2, <1>1, <1>2, <1>3, Untouched DEF BrokerInv
  <2> QED BY <2>1, <2>2
<1> QED BY <1>4, <1>8 DEF BrokerInv

(* A crash leaves nothing to account for.                                    *)
LEMMA CrashKeeps == BrokerInv /\ Crash /\ Traced' => BrokerInv'
<1> SUFFICES ASSUME BrokerInv, Crash, Traced' PROVE BrokerInv'
  OBVIOUS
<1>0. TypeOK
  BY DEF BrokerInv
<1>1. /\ state' = [g \in Generations |-> "down"]
      /\ mem' = [g \in Generations |-> NoRecords]
      /\ run' = [g \in Generations |-> NoRuns]
      /\ queue' = [g \in Generations |-> <<>>]
      /\ reserved' = [g \in Generations |-> 0]
      /\ active' = [g \in Generations |-> 0]
      /\ lock' = [g \in Generations |-> NoLock]
      /\ UNCHANGED <<file, misproved>>
  BY DEF Crash
<1>2. TypeOK'
  BY <1>0, <1>1 DEF TypeOK, Traced, NoRecords, NoRuns, NoLock, Records, Runs
<1>3. ASSUME NEW g \in Generations PROVE Account(g)'
  <2>1. /\ reserved'[g] = 0 /\ active'[g] = 0 /\ queue'[g] = <<>>
        /\ \A i \in Invocations : run'[g][i] = "none"
    BY <1>1 DEF NoRuns
  <2>2. In(g, {"claim", "claiming"})' = {} /\ In(g, {"host"})' = {}
    BY <2>1 DEF In
  <2>3. Slots(g)'
    <3>1. Cardinality({}) = 0
      BY FS_EmptySet
    <3>2. MaxConcurrent \in Nat
      BY BrokerAssumption
    <3>3. /\ reserved'[g] = Cardinality(In(g, {"claim", "claiming"})')
          /\ active'[g] = Cardinality(In(g, {"host"})')
      BY <2>1, <2>2, <3>1
    <3>4. active'[g] + reserved'[g] <= MaxConcurrent
      BY <2>1, <3>2
    <3> QED BY <3>3, <3>4 DEF Slots
  <2>4. Wakeup(g)' /\ Match(g)' /\ QueueExact(g)' /\ Asleep(g)'
    BY <2>1 DEF Wakeup, Match, QueueExact, Asleep, In
  <2> QED BY <2>3, <2>4 DEF Account
<1> QED BY <1>2, <1>3 DEF BrokerInv

(* Every step keeps the broker's account.                                    *)
LEMMA BrokerStep == BrokerInv /\ [Next]_vars => BrokerInv'
<1> SUFFICES ASSUME BrokerInv, [Next]_vars PROVE BrokerInv'
  OBVIOUS
<1>1. CASE UNCHANGED vars
  <2>1. UNCHANGED <<file, state, mem, run, queue, reserved, active, lock, misproved>>
    BY <1>1 DEF vars, brokerVars
  <2>2. TypeOK'
    BY <1>1, <2>1 DEF vars, called, memory, BrokerInv, TypeOK
  <2>3. \A g \in Generations : Account(g)'
    BY <2>1, Untouched DEF BrokerInv
  <2> QED BY <2>2, <2>3 DEF BrokerInv
<1>2. ASSUME NEW g \in Generations, NEW i \in Invocations, Request(g, i), Traced'
      PROVE  BrokerInv'
  BY <1>2, AdmitKeeps, EnqueueKeeps, QuietKeeps DEF Request
<1>3. ASSUME NEW g \in Generations, NEW i \in Invocations, RunStep(g, i), Traced'
      PROVE  BrokerInv'
  BY <1>3, QueueTimeoutKeeps, RefuseClosedKeeps, ClaimBeginKeeps, CompleteBeginKeeps,
     HostReturnsKeeps, ClaimPersistedKeeps, WriteEndsKeeps DEF RunStep, PersistEnd
<1>4. ASSUME NEW g \in Generations, Rename(g) \/ Stop(g) \/ Start(g), Traced'
      PROVE  BrokerInv'
  BY <1>4, QuietKeeps, StopKeeps, StartKeeps
<1>5. CASE Next
  <2>1. Traced'
    BY <1>5, TracedStep DEF BrokerInv
  <2> QED BY <1>2, <1>3, <1>4, <1>5, <2>1, LapseKeeps, CrashKeeps DEF Next
<1> QED BY <1>1, <1>5

(* For any number of invocations and generations and any limits: however     *)
(* runs fail, time out, are closed or queued, the broker's counters are its  *)
(* runs, a slot is never given twice and never lost, nobody waits beside a   *)
(* free slot, and every run finds the record it left (broker.mjs).           *)
THEOREM BrokerConsistent == Spec => []Consistent
<1>1. Spec => []BrokerInv
  BY BrokerInit, BrokerStep, PTL DEF Spec
<1> QED BY <1>1, AccountIsConsistent, PTL

-----------------------------------------------------------------------------
(* No run is stuck *)

Writing == {"claiming", "completing", "closing"}

(* What the broker's account says of one run and its record.                 *)
LEMMA RunRecord ==
    ASSUME BrokerInv, NEW g \in Generations, NEW i \in Invocations
    PROVE  /\ run[g][i] \in {"queued", "claim"} => mem[g][i] \in {"none", "lapsed"}
           /\ run[g][i] \in {"claiming", "host", "done", "unsent"} => mem[g][i] = "pending"
BY DEF BrokerInv, Account, Match, In

(* Who runs after a run has ended: the others, or who was first in the queue.*)
LEMMA RunsAfterRelease ==
    ASSUME BrokerInv, NEW g \in Generations, NEW i \in Invocations, NEW r \in Int,
           ReleaseAndDrain(g, i, r)
    PROVE  /\ run'[g][i] = "none"
           /\ \A j \in Invocations : j # i =>
                  run'[g][j] = run[g][j] \/ (run[g][j] = "queued" /\ run'[g][j] = "claim")
<1> DEFINE k == Drained(g, r)
           head == {queue[g][n] : n \in 1 .. k}
<1>1. /\ active[g] \in Nat /\ Len(queue[g]) \in Nat /\ MaxConcurrent \in Nat
      /\ run \in [Generations -> [Invocations -> Runs]]
  BY Types DEF BrokerInv, TypeOK
<1>2. k \in Int /\ k <= Len(queue[g])
  BY <1>1 DEF Drained
<1>3. run' = [run EXCEPT ![g] = [j \in Invocations |->
                  IF j = i THEN "none" ELSE IF j \in head THEN "claim" ELSE run[g][j]]]
  BY DEF ReleaseAndDrain
<1> HIDE DEF k
<1>4. \A j \in head : run[g][j] = "queued"
  BY <1>1, <1>2 DEF BrokerInv, Account, QueueExact
<1> HIDE DEF head
<1> QED BY <1>1, <1>3, <1>4

(* The journal of a generation is locked exactly while one run writes it.    *)
WriterAlone(g) ==
    /\ lock[g].held <=> \E i \in Invocations : run[g][i] \in Writing
    /\ \A i, j \in Invocations : run[g][i] \in Writing /\ run[g][j] \in Writing => i = j
    /\ lock[g].renamed => lock[g].held

(* The run of i has a step of its own: its timer, its host call or its write *)
(* can end, or the journal is free and the record is the one it expects.     *)
MayMove(g, i) ==
    \/ run[g][i] = "queued" /\ \E n \in 1 .. Len(queue[g]) : queue[g][n] = i
    \/ run[g][i] = "host"
    \/ run[g][i] \in Writing /\ lock[g].held
    \/ run[g][i] = "claim" /\ ~lock[g].held /\ mem[g][i] \in {"none", "lapsed"}
    \/ run[g][i] \in {"done", "unsent"} /\ ~lock[g].held /\ mem[g][i] = "pending"

(* A run waits for nothing but the one run that writes the journal, and the  *)
(* lock is never left behind by a run that is gone (#locked of journal.mjs,  *)
(* #admitAndRun of broker.mjs).                                              *)
NoRunIsStuck ==
    \A g \in Generations :
        /\ WriterAlone(g)
        /\ \A i \in Invocations : run[g][i] # "none" =>
              \/ MayMove(g, i)
              \/ run[g][i] \in {"claim", "done", "unsent"} /\ lock[g].held

LockInv == BrokerInv /\ \A g \in Generations : WriterAlone(g)

(* Steps after which the same runs write under the same lock.                *)
LEMMA SameWriter ==
    ASSUME NEW g \in Generations, WriterAlone(g), lock'[g] = lock[g],
           \A j \in Invocations : run'[g][j] \in Writing <=> run[g][j] \in Writing
    PROVE  WriterAlone(g)'
BY DEF WriterAlone

(* A write that begins under a free lock is the only one.                    *)
LEMMA WriterBegins ==
    ASSUME NEW g \in Generations, NEW i \in Invocations, WriterAlone(g), ~lock[g].held,
           lock'[g].held, ~lock'[g].renamed, run'[g][i] \in Writing,
           \A j \in Invocations \ {i} : run'[g][j] = run[g][j]
    PROVE  WriterAlone(g)'
<1>1. \A j \in Invocations \ {i} : run'[g][j] \notin Writing
  BY DEF WriterAlone
<1> QED BY <1>1 DEF WriterAlone

(* The write that ends frees the lock, and nobody else was writing.          *)
LEMMA WriterEnds ==
    ASSUME NEW g \in Generations, NEW i \in Invocations, WriterAlone(g),
           run[g][i] \in Writing, lock'[g] = NoLock, run'[g][i] \notin Writing,
           \A j \in Invocations \ {i} : run'[g][j] \in Writing <=> run[g][j] \in Writing
    PROVE  WriterAlone(g)'
<1>1. \A j \in Invocations \ {i} : run'[g][j] \notin Writing
  BY DEF WriterAlone
<1> QED BY <1>1 DEF WriterAlone, NoLock

(* A release touches the runs of its own generation only, and makes nobody a *)
(* writer.                                                                   *)
LEMMA ReleaseWriters ==
    ASSUME BrokerInv, NEW g \in Generations, NEW i \in Invocations, NEW r \in Int,
           ReleaseAndDrain(g, i, r)
    PROVE  /\ run'[g][i] \notin Writing
           /\ \A j \in Invocations \ {i} : run'[g][j] \in Writing <=> run[g][j] \in Writing
           /\ \A h \in Generations \ {g} : run'[h] = run[h]
<1>1. /\ run'[g][i] = "none"
      /\ \A j \in Invocations : j # i =>
             run'[g][j] = run[g][j] \/ (run[g][j] = "queued" /\ run'[g][j] = "claim")
  BY RunsAfterRelease
<1>2. \A h \in Generations \ {g} : run'[h] = run[h]
  <2>1. run \in [Generations -> [Invocations -> Runs]]
    BY DEF BrokerInv, TypeOK
  <2>2. \E row : run' = [run EXCEPT ![g] = row]
    BY DEF ReleaseAndDrain
  <2> QED BY <2>1, <2>2
<1> QED BY <1>1, <1>2 DEF Writing

(* A generation that a step leaves alone keeps its writer.                   *)
LEMMA OtherWriters ==
    ASSUME LockInv, NEW g \in Generations,
           \A h \in Generations \ {g} : run'[h] = run[h] /\ lock'[h] = lock[h],
           WriterAlone(g)'
    PROVE  \A h \in Generations : WriterAlone(h)'
<1>1. ASSUME NEW h \in Generations \ {g} PROVE WriterAlone(h)'
  BY <1>1, SameWriter DEF LockInv
<1> QED BY <1>1

(* Requests, timers and hosts do not write.                                  *)
LEMMA QuietWriters ==
    ASSUME LockInv, NEW g \in Generations, NEW i \in Invocations,
           Request(g, i) \/ QueueTimeout(g, i) \/ HostReturns(g, i) \/ HostRefuses(g, i)
    PROVE  \A h \in Generations : WriterAlone(h)'
<1>1. TypeOK /\ WriterAlone(g)
  BY DEF LockInv, BrokerInv
<1>2. /\ lock' = lock
      /\ \/ run' = run
         \/ /\ \E p \in {"none", "queued", "claim", "done", "unsent"} :
                  run' = [run EXCEPT ![g][i] = p]
            /\ run[g][i] \notin Writing
  BY DEF Request, Admit, Enqueue, Busy, Duplicate, Fresh, QueueTimeout, HostReturns,
         HostRefuses, brokerVars, Writing
<1>3. CASE run' = run
  BY <1>1, <1>2, <1>3, SameWriter, OtherWriters
<1>4. ASSUME NEW p \in {"none", "queued", "claim", "done", "unsent"},
             run' = [run EXCEPT ![g][i] = p], run[g][i] \notin Writing
      PROVE  \A h \in Generations : WriterAlone(h)'
  <2>1. /\ \A h \in Generations : h # g => run'[h] = run[h]
        /\ \A j \in Invocations : run'[g][j] = IF j = i THEN p ELSE run[g][j]
    <3>1. p \in Runs
      BY DEF Runs
    <3> QED BY <1>1, <1>4, <3>1, MovedRun
  <2>2. \A j \in Invocations : run'[g][j] \in Writing <=> run[g][j] \in Writing
    BY <2>1, <1>4 DEF Writing
  <2>3. WriterAlone(g)'
    BY <2>2, <1>1, <1>2, SameWriter
  <2> QED BY <2>1, <2>3, <1>2, OtherWriters
<1> QED BY <1>2, <1>3, <1>4

(* A run that gives its place up does not write.                             *)
LEMMA RefusedWriters ==
    ASSUME LockInv, NEW g \in Generations, NEW i \in Invocations, RefuseClosed(g, i)
    PROVE  \A h \in Generations : WriterAlone(h)'
<1>1. TypeOK /\ WriterAlone(g) /\ BrokerInv
  BY DEF LockInv, BrokerInv
<1>2. /\ ReleaseAndDrain(g, i, reserved[g] - 1) /\ lock' = lock
      /\ run[g][i] \notin Writing
  BY DEF RefuseClosed, Writing
<1>3. reserved[g] - 1 \in Int
  BY <1>1, Types
<1>4. /\ \A j \in Invocations : run'[g][j] \in Writing <=> run[g][j] \in Writing
      /\ \A h \in Generations \ {g} : run'[h] = run[h]
  BY <1>1, <1>2, <1>3, ReleaseWriters
<1>5. WriterAlone(g)'
  BY <1>1, <1>2, <1>4, SameWriter
<1> QED BY <1>2, <1>4, <1>5, OtherWriters

(* A write begins only when the journal is free.                             *)
LEMMA BeginWriters ==
    ASSUME LockInv, NEW g \in Generations, NEW i \in Invocations,
           ClaimBegin(g, i) \/ CompleteBegin(g, i)
    PROVE  \A h \in Generations : WriterAlone(h)'
<1>1. TypeOK /\ WriterAlone(g) /\ BrokerInv
  BY DEF LockInv, BrokerInv
<1>2. /\ ~lock[g].held /\ run[g][i] \notin Writing
      /\ \/ \E new : Hold(g, new) /\ \E p \in Writing : run' = [run EXCEPT ![g][i] = p]
         \/ lock' = lock /\ \E r \in {reserved[g] - 1, reserved[g]} : ReleaseAndDrain(g, i, r)
  <2>1. CASE ClaimBegin(g, i)
    <3>1. ~lock[g].held /\ run[g][i] \notin Writing
      BY <2>1 DEF ClaimBegin, Writing
    <3>2. \/ \E new : Hold(g, new) /\ run' = [run EXCEPT ![g][i] = "claiming"]
          \/ lock' = lock /\ ReleaseAndDrain(g, i, reserved[g] - 1)
      BY <2>1, <1>1, ClaimRecords
    <3>3. "claiming" \in Writing
      BY DEF Writing
    <3> QED BY <3>1, <3>2, <3>3
  <2>2. CASE CompleteBegin(g, i)
    <3> DEFINE p == IF run[g][i] = "done" THEN "completing" ELSE "closing"
    <3>1. ~lock[g].held /\ run[g][i] \notin Writing
      BY <2>2 DEF CompleteBegin, Writing
    <3>2. p \in Writing
      BY DEF Writing
    <3>3. \/ \E new : Hold(g, new) /\ run' = [run EXCEPT ![g][i] = p]
          \/ lock' = lock /\ ReleaseAndDrain(g, i, reserved[g])
      BY <2>2, <1>1, CompleteRecords
    <3> HIDE DEF p
    <3> QED BY <3>1, <3>2, <3>3
  <2> QED BY <2>1, <2>2
<1>3. ASSUME NEW new, NEW p \in Writing, Hold(g, new), run' = [run EXCEPT ![g][i] = p]
      PROVE  \A h \in Generations : WriterAlone(h)'
  <2>1. /\ \A h \in Generations : h # g => run'[h] = run[h]
        /\ \A j \in Invocations : run'[g][j] = IF j = i THEN p ELSE run[g][j]
    <3>1. p \in Runs
      BY DEF Runs, Writing
    <3> QED BY <1>1, <1>3, <3>1, MovedRun
  <2>2. /\ lock'[g] = [held |-> TRUE, renamed |-> FALSE, snapshot |-> new]
        /\ \A h \in Generations \ {g} : lock'[h] = lock[h]
    BY <1>1, <1>3 DEF Hold, TypeOK
  <2>3. WriterAlone(g)'
    BY <2>1, <2>2, <1>1, <1>2, WriterBegins
  <2> QED BY <2>1, <2>2, <2>3, OtherWriters
<1>4. ASSUME NEW r \in {reserved[g] - 1, reserved[g]}, ReleaseAndDrain(g, i, r), lock' = lock
      PROVE  \A h \in Generations : WriterAlone(h)'
  <2>1. r \in Int
    BY <1>1, Types
  <2>2. /\ \A j \in Invocations : run'[g][j] \in Writing <=> run[g][j] \in Writing
        /\ \A h \in Generations \ {g} : run'[h] = run[h]
    BY <2>1, <1>1, <1>2, <1>4, ReleaseWriters
  <2>3. WriterAlone(g)'
    BY <2>2, <1>1, <1>4, SameWriter
  <2> QED BY <2>2, <2>3, <1>4, OtherWriters
<1> QED BY <1>2, <1>3, <1>4

(* A write that ends, well or badly, frees the journal.                      *)
LEMMA EndWriters ==
    ASSUME LockInv, NEW g \in Generations, NEW i \in Invocations, PersistEnd(g, i)
    PROVE  \A h \in Generations : WriterAlone(h)'
<1>1. TypeOK /\ WriterAlone(g) /\ BrokerInv
  BY DEF LockInv, BrokerInv
<1>2. /\ run[g][i] \in Writing
      /\ lock' = [lock EXCEPT ![g] = NoLock]
  BY DEF PersistEnd, ClaimPersisted, ClaimFails, CompletePersisted, CompleteFails, Unlock, Writing
<1>3. lock'[g] = NoLock /\ \A h \in Generations \ {g} : lock'[h] = lock[h]
  BY <1>1, <1>2 DEF TypeOK
<1>4. /\ run'[g][i] \notin Writing
      /\ \A j \in Invocations \ {i} : run'[g][j] \in Writing <=> run[g][j] \in Writing
      /\ \A h \in Generations \ {g} : run'[h] = run[h]
  <2>1. CASE ClaimPersisted(g, i)
    <3>1. PICK p \in {"host", "unsent"} : run' = [run EXCEPT ![g][i] = p]
      BY <2>1 DEF ClaimPersisted, CallHost, RefuseRun
    <3>2. p \in Runs
      BY DEF Runs
    <3>3. /\ \A h \in Generations : h # g => run'[h] = run[h]
          /\ \A j \in Invocations : run'[g][j] = IF j = i THEN p ELSE run[g][j]
      BY <1>1, <3>1, <3>2, MovedRun
    <3> QED BY <3>3 DEF Writing
  <2>2. CASE ~ClaimPersisted(g, i)
    <3>1. PICK r \in {reserved[g] - 1, reserved[g]} : ReleaseAndDrain(g, i, r)
      BY <2>2 DEF PersistEnd, ClaimFails, CompletePersisted, CompleteFails
    <3>2. r \in Int
      BY <1>1, Types
    <3> QED BY <3>1, <3>2, <1>1, ReleaseWriters
  <2> QED BY <2>1, <2>2
<1>5. WriterAlone(g)'
  BY <1>1, <1>2, <1>3, <1>4, WriterEnds
<1> QED BY <1>3, <1>4, <1>5, OtherWriters

(* The rename, the stop and the start of a broker leave the writer alone.    *)
LEMMA GenerationWriters ==
    ASSUME LockInv, NEW g \in Generations, Rename(g) \/ Stop(g) \/ Start(g)
    PROVE  \A h \in Generations : WriterAlone(h)'
<1>1. TypeOK /\ WriterAlone(g)
  BY DEF LockInv, BrokerInv
<1>2. CASE Rename(g)
  <2>1. lock' = [lock EXCEPT ![g].renamed = TRUE] /\ run' = run /\ lock[g].held
    BY <1>2 DEF Rename
  <2>2. /\ lock'[g].held = lock[g].held
        /\ \A h \in Generations \ {g} : lock'[h] = lock[h]
    BY <2>1, <1>1 DEF TypeOK
  <2>3. WriterAlone(g)'
    BY <2>1, <2>2, <1>1 DEF WriterAlone
  <2> QED BY <2>1, <2>2, <2>3, OtherWriters
<1>3. CASE Stop(g)
  <2>1. /\ lock' = lock
        /\ run' = [run EXCEPT ![g] = [i \in Invocations |->
                     IF run[g][i] = "queued" THEN "none" ELSE run[g][i]]]
    BY <1>3 DEF Stop
  <2>2. /\ \A h \in Generations \ {g} : run'[h] = run[h]
        /\ \A j \in Invocations : run'[g][j] = IF run[g][j] = "queued" THEN "none" ELSE run[g][j]
    BY <2>1, <1>1 DEF TypeOK
  <2>3. \A j \in Invocations : run'[g][j] \in Writing <=> run[g][j] \in Writing
    BY <2>2 DEF Writing
  <2>4. WriterAlone(g)'
    BY <2>1, <2>3, <1>1, SameWriter
  <2> QED BY <2>1, <2>2, <2>4, OtherWriters
<1>4. CASE Start(g)
  <2>1. lock' = lock /\ run' = run
    BY <1>4 DEF Start
  <2> QED BY <2>1, SameWriter DEF LockInv
<1> QED BY <1>2, <1>3, <1>4

(* Every step keeps the writer alone.                                        *)
LEMMA LockStep == LockInv /\ [Next]_vars => LockInv'
<1> SUFFICES ASSUME LockInv, [Next]_vars PROVE \A h \in Generations : WriterAlone(h)'
  BY BrokerStep DEF LockInv
<1>1. CASE UNCHANGED vars
  <2>1. lock' = lock /\ run' = run
    BY <1>1 DEF vars, brokerVars
  <2> QED BY <2>1, SameWriter DEF LockInv
<1>2. ASSUME NEW g \in Generations, NEW i \in Invocations, Request(g, i) \/ RunStep(g, i)
      PROVE  \A h \in Generations : WriterAlone(h)'
  BY <1>2, QuietWriters, RefusedWriters, BeginWriters, EndWriters DEF RunStep
<1>3. ASSUME NEW i \in Invocations, Lapse(i) PROVE \A h \in Generations : WriterAlone(h)'
  <2>1. /\ run' = run
        /\ lock' = [h \in Generations |->
                      [lock[h] EXCEPT !.snapshot = Age(lock[h].snapshot, i)]]
        /\ lock \in [Generations -> [held : BOOLEAN, renamed : BOOLEAN,
                                     snapshot : [Invocations -> Records]]]
    BY <1>3 DEF Lapse, LockInv, BrokerInv, TypeOK
  <2>2. ASSUME NEW h \in Generations PROVE WriterAlone(h)'
    <3>1. lock'[h].held = lock[h].held /\ lock'[h].renamed = lock[h].renamed
      BY <2>1
    <3> QED BY <3>1, <2>1 DEF LockInv, WriterAlone
  <2> QED BY <2>2
<1>4. CASE Crash
  <2>1. \A h \in Generations : lock'[h] = NoLock /\ run'[h] = NoRuns
    BY <1>4 DEF Crash
  <2> QED BY <2>1 DEF WriterAlone, NoLock, NoRuns, Writing
<1> QED BY <1>1, <1>2, <1>3, <1>4, GenerationWriters DEF Next

(* For any number of invocations and generations and any limits, over        *)
(* crashes, stops, failed writes and full journals: a run always has a step  *)
(* of its own, or waits for the one run that writes the journal.  This is    *)
(* what RunsEnd needs of the code beside fairness (broker.mjs, journal.mjs). *)
THEOREM NobodyStuck == Spec => []NoRunIsStuck
<1>1. Init => LockInv
  <2> SUFFICES ASSUME Init PROVE \A g \in Generations : WriterAlone(g)
    BY BrokerInit DEF LockInv
  <2> QED BY DEF Init, WriterAlone, NoRuns, NoLock, Writing
<1>2. LockInv => NoRunIsStuck
  <2> SUFFICES ASSUME LockInv, NEW g \in Generations
               PROVE  /\ WriterAlone(g)
                      /\ \A i \in Invocations : run[g][i] # "none" =>
                            \/ MayMove(g, i)
                            \/ run[g][i] \in {"claim", "done", "unsent"} /\ lock[g].held
    BY DEF NoRunIsStuck
  <2>1. WriterAlone(g)
    BY DEF LockInv
  <2>2. ASSUME NEW i \in Invocations, run[g][i] # "none"
        PROVE  \/ MayMove(g, i)
               \/ run[g][i] \in {"claim", "done", "unsent"} /\ lock[g].held
    <3>1. run[g][i] \in Runs
      BY Types DEF LockInv, BrokerInv
    <3>2. run[g][i] = "queued" => \E n \in 1 .. Len(queue[g]) : queue[g][n] = i
      BY DEF LockInv, BrokerInv, Account, QueueExact
    <3>3. /\ run[g][i] = "claim" => mem[g][i] \in {"none", "lapsed"}
          /\ run[g][i] \in {"done", "unsent"} => mem[g][i] = "pending"
      BY RunRecord DEF LockInv
    <3>4. run[g][i] \in Writing => lock[g].held
      BY <2>1 DEF WriterAlone
    <3> QED BY <2>2, <3>1, <3>2, <3>3, <3>4 DEF MayMove, Runs, Writing
  <2> QED BY <2>1, <2>2
<1> QED BY <1>1, <1>2, LockStep, PTL DEF Spec

-----------------------------------------------------------------------------
(* The promise of the journal *)

(* Only the broker that was started last serves.                             *)
Serving == \A g \in Generations : state[g] = "serving" => g = latest

(* What a broker is writing is what it has in memory.                        *)
Snapshot == \A g \in Generations : lock[g].held => lock[g].snapshot = mem[g]

(* A host call that is still counted was the only one, and is on disk; a     *)
(* call that may have asked a provider is not on disk as refused.            *)
OnDisk(i) ==
    /\ sent[i] <= 1
    /\ i \in overwritten => sent[i] = 0
    /\ i \in asked => sent[i] = 1
    /\ sent[i] = 1 => file[i] \in {"pending", "done", "unsent"}
    /\ i \in asked => file[i] \in {"pending", "done"}

(* The broker started last has it in memory too; a run of its own that has   *)
(* not called the host stands for no counted call, and what it claimed is on *)
(* disk before it calls.                                                     *)
InMemory(i) ==
    /\ sent[i] = 1 => mem[latest][i] \in {"pending", "done", "unsent"}
    /\ i \in asked => mem[latest][i] \in {"pending", "done"}
    /\ run[latest][i] \in {"queued", "claim", "claiming"} => sent[i] = 0
    /\ run[latest][i] \in {"unsent", "closing"} => i \notin asked
    /\ run[latest][i] = "claiming" /\ lock[latest].renamed /\ i \notin overwritten
          => file[i] = "pending"

Promise ==
    /\ \A i \in Invocations : OnDisk(i)
    /\ \A i \in Invocations : state[latest] # "down" => InMemory(i)
    /\ misproved = {}

Base == LockInv /\ Serving /\ Snapshot
KeptInv == Base /\ Promise

(* Types and shapes that the steps below need.                               *)
LEMMA BaseTypes ==
    ASSUME Base
    PROVE  /\ TypeOK /\ BrokerInv
           /\ latest \in Generations
           /\ sent \in [Invocations -> 0 .. 2]
           /\ mem \in [Generations -> [Invocations -> Records]]
           /\ run \in [Generations -> [Invocations -> Runs]]
           /\ state \in [Generations -> {"down", "serving", "closed"}]
           /\ file \in [Invocations -> Records]
           /\ \A g \in Generations : state[g] = "down" =>
                  ~lock[g].held /\ \A i \in Invocations : run[g][i] = "none"
<1>1. TypeOK /\ BrokerInv
  BY DEF Base, LockInv, BrokerInv
<1>2. ASSUME NEW g \in Generations, state[g] = "down"
      PROVE  ~lock[g].held /\ \A i \in Invocations : run[g][i] = "none"
  <2>1. \A i \in Invocations : run[g][i] = "none"
    BY <1>2 DEF Base, LockInv, BrokerInv, Account, Asleep
  <2> QED BY <2>1 DEF Base, LockInv, WriterAlone, Writing
<1> QED BY <1>1, <1>2 DEF TypeOK

(* One broker serves at a time, and it is the last.                          *)
LEMMA ServingStep == ASSUME Base, Next PROVE Serving'
<1>0. state \in [Generations -> {"down", "serving", "closed"}] /\ Serving
  BY BaseTypes DEF Base
<1>1. CASE state' = state /\ latest' = latest
  BY <1>0, <1>1 DEF Serving
<1>2. ASSUME NEW g \in Generations, NEW i \in Invocations, Request(g, i) \/ RunStep(g, i)
      PROVE  Serving'
  <2>1. state' = state /\ latest' = latest
    BY <1>2 DEF Request, Admit, Enqueue, Busy, Duplicate, RunStep, QueueTimeout, RefuseClosed,
       ClaimBegin, CompleteBegin, HostReturns, HostRefuses, PersistEnd, ClaimPersisted, ClaimFails,
       CompletePersisted, CompleteFails, brokerVars, memory
  <2> QED BY <1>1, <2>1
<1>3. ASSUME NEW g \in Generations, Rename(g) PROVE Serving'
  BY <1>1, <1>3 DEF Rename
<1>4. ASSUME NEW g \in Generations, Stop(g) PROVE Serving'
  BY <1>0, <1>4 DEF Stop, memory, Serving
<1>5. ASSUME NEW g \in Generations, Start(g) PROVE Serving'
  BY <1>0, <1>5 DEF Start, Serving
<1>6. ASSUME NEW i \in Invocations, Lapse(i) PROVE Serving'
  BY <1>1, <1>6 DEF Lapse, memory
<1>7. CASE Crash
  BY <1>7 DEF Crash, Serving
<1> QED BY <1>2, <1>3, <1>4, <1>5, <1>6, <1>7 DEF Next

(* A broker's memory does not move under a write, but with it.               *)
LEMMA SnapshotStep == ASSUME Base, Next PROVE Snapshot'
<1>0. /\ TypeOK /\ Snapshot
      /\ \A g \in Generations : WriterAlone(g)
      /\ lock \in [Generations -> [held : BOOLEAN, renamed : BOOLEAN,
                                   snapshot : [Invocations -> Records]]]
      /\ mem \in [Generations -> [Invocations -> Records]]
  BY BaseTypes DEF Base, LockInv, TypeOK
<1>1. CASE lock' = lock /\ mem' = mem
  BY <1>0, <1>1 DEF Snapshot
<1>2. ASSUME NEW g \in Generations, NEW new,
             mem' = [mem EXCEPT ![g] = new],
             \/ Hold(g, new) \/ Unlock(g) \/ (lock' = lock /\ ~lock[g].held)
      PROVE  Snapshot'
  <2>1. /\ mem'[g] = new /\ \A h \in Generations \ {g} : mem'[h] = mem[h]
        /\ \A h \in Generations \ {g} : lock'[h] = lock[h]
        /\ lock'[g].held => lock'[g].snapshot = new
    BY <1>0, <1>2 DEF Hold, Unlock, NoLock
  <2> QED BY <2>1, <1>0 DEF Snapshot
<1>3. ASSUME NEW g \in Generations, NEW i \in Invocations, Request(g, i) \/ RunStep(g, i)
      PROVE  Snapshot'
  <2>1. CASE \/ Request(g, i) \/ QueueTimeout(g, i) \/ RefuseClosed(g, i)
             \/ HostReturns(g, i) \/ HostRefuses(g, i)
    BY <2>1, <1>1 DEF Request, Admit, Enqueue, Busy, Duplicate, QueueTimeout, RefuseClosed,
       HostReturns, HostRefuses, brokerVars
  <2>2. CASE ClaimBegin(g, i)
    <3>1. ~lock[g].held
      BY <2>2 DEF ClaimBegin
    <3>2. \E new : \/ mem' = [mem EXCEPT ![g] = new] /\ Hold(g, new)
                   \/ mem' = [mem EXCEPT ![g] = new] /\ UNCHANGED lock
      BY <1>0, <2>2, ClaimRecords
    <3> QED BY <1>2, <3>1, <3>2
  <2>3. CASE CompleteBegin(g, i)
    <3>1. ~lock[g].held
      BY <2>3 DEF CompleteBegin
    <3>2. \E new : \/ mem' = [mem EXCEPT ![g] = new] /\ Hold(g, new)
                   \/ mem' = [mem EXCEPT ![g] = new] /\ UNCHANGED lock
      BY <1>0, <2>3, CompleteRecords
    <3> QED BY <1>2, <3>1, <3>2
  <2>4. CASE PersistEnd(g, i)
    <3>1. Unlock(g) /\ (mem' = mem \/ \E r : mem' = [mem EXCEPT ![g][i] = r])
      BY <2>4 DEF PersistEnd, ClaimPersisted, ClaimFails, CompletePersisted, CompleteFails
    <3>2. \A h \in Generations \ {g} : lock'[h] = lock[h] /\ mem'[h] = mem[h]
      BY <3>1, <1>0 DEF Unlock
    <3>3. ~lock'[g].held
      BY <3>1, <1>0 DEF Unlock, NoLock
    <3> QED BY <3>2, <3>3, <1>0 DEF Snapshot
  <2> QED BY <1>3, <2>1, <2>2, <2>3, <2>4 DEF RunStep
<1>4. ASSUME NEW g \in Generations, Rename(g) PROVE Snapshot'
  <2>1. mem' = mem /\ lock' = [lock EXCEPT ![g].renamed = TRUE]
    BY <1>4 DEF Rename
  <2>2. \A h \in Generations :
            lock'[h].held = lock[h].held /\ lock'[h].snapshot = lock[h].snapshot
    BY <2>1, <1>0
  <2> QED BY <2>1, <2>2, <1>0 DEF Snapshot
<1>5. ASSUME NEW g \in Generations, Stop(g) PROVE Snapshot'
  BY <1>1, <1>5 DEF Stop
<1>6. ASSUME NEW g \in Generations, Start(g) PROVE Snapshot'
  <2>1. mem' = [mem EXCEPT ![g] = Prune(file)] /\ lock' = lock /\ ~lock[g].held
    BY <1>6, BaseTypes DEF Start
  <2> QED BY <1>2, <2>1
<1>7. ASSUME NEW i \in Invocations, Lapse(i) PROVE Snapshot'
  <2>1. /\ mem' = [g \in Generations |-> Age(mem[g], i)]
        /\ lock' = [g \in Generations |->
                      [lock[g] EXCEPT !.snapshot = Age(lock[g].snapshot, i)]]
    BY <1>7 DEF Lapse
  <2>2. \A h \in Generations : /\ mem'[h] = Age(mem[h], i)
                               /\ lock'[h].held = lock[h].held
                               /\ lock'[h].snapshot = Age(lock[h].snapshot, i)
    BY <2>1, <1>0
  <2> QED BY <2>2, <1>0 DEF Snapshot
<1>8. CASE Crash
  BY <1>8 DEF Crash, Snapshot, NoLock
<1> QED BY <1>3, <1>4, <1>5, <1>6, <1>7, <1>8 DEF Next

-----------------------------------------------------------------------------
(* The promise holds: one lemma per kind of step *)

(* Steps that change neither the file nor what is counted, nor what the      *)
(* broker started last remembers: its runs only end, or fall back.           *)
LEMMA PromiseStays ==
    ASSUME KeptInv, file' = file, sent' = sent, asked' \subseteq asked, UNCHANGED memory,
           misproved' = {}, state'[latest] # "down" => state[latest] # "down",
           mem'[latest] = mem[latest], lock'[latest].renamed => lock[latest].renamed,
           \A i \in Invocations :
              \/ run'[latest][i] = run[latest][i]
              \/ run'[latest][i] \in {"none", "done", "host"}
              \/ run'[latest][i] \in {"queued", "claim"} /\ sent[i] = 0
              \/ run'[latest][i] = "unsent" /\ i \notin asked'
    PROVE  Promise'
<1>1. ASSUME NEW i \in Invocations PROVE OnDisk(i)'
  BY DEF KeptInv, Promise, OnDisk, memory
<1>2. ASSUME NEW i \in Invocations, (state[latest] # "down")' PROVE InMemory(i)'
  <2>1. InMemory(i)
    BY <1>2 DEF KeptInv, Promise, memory
  <2> QED BY <2>1 DEF InMemory, memory
<1> QED BY <1>1, <1>2 DEF Promise

(* An invocation whose one run in the last broker has not called, or which   *)
(* has no record there, stands for no counted call.                          *)
LEMMA Uncounted ==
    ASSUME KeptInv, NEW i \in Invocations, state[latest] # "down",
           \/ mem[latest][i] \in {"none", "lapsed"}
           \/ run[latest][i] \in {"queued", "claim", "claiming"}
    PROVE  sent[i] = 0 /\ i \notin asked
<1>1. sent[i] \in 0 .. 2 /\ sent[i] <= 1
  BY BaseTypes DEF KeptInv, Promise, OnDisk
<1> QED BY <1>1 DEF KeptInv, Promise, OnDisk, InMemory

(* The proof that nothing was sent is true of an invocation that no provider *)
(* was asked for, and nobody hears it from a broker that does not serve.     *)
LEMMA ProofIsTrue ==
    ASSUME KeptInv, NEW g, NEW i,
           AnswerNotSent(g, i), state[g] = "serving" => i \notin asked
    PROVE  misproved' = {}
BY DEF AnswerNotSent, KeptInv, Promise

(* Every request, and every end of a wait, keeps the promise.                *)
LEMMA RequestKept ==
    ASSUME KeptInv, NEW g \in Generations, NEW i \in Invocations,
           Request(g, i) \/ QueueTimeout(g, i)
    PROVE  Promise'
<1>0. /\ latest \in Generations /\ run \in [Generations -> [Invocations -> Runs]]
      /\ Serving /\ misproved = {}
      /\ state[g] = "down" => run[g][i] = "none"
  BY BaseTypes DEF KeptInv, Base, Promise
<1>1. /\ file' = file /\ mem' = mem /\ lock' = lock /\ state' = state
      /\ UNCHANGED called /\ UNCHANGED memory
      /\ misproved' = misproved \/ AnswerNotSent(g, i)
      /\ \/ run' = run
         \/ run' = [run EXCEPT ![g][i] = "none"]
         \/ /\ \E p \in {"queued", "claim"} : run' = [run EXCEPT ![g][i] = p]
            /\ state[g] = "serving" /\ mem[g][i] \in {"none", "lapsed"}
  BY DEF Request, Admit, Enqueue, Busy, Duplicate, Fresh, QueueTimeout, brokerVars
<1>2. state[g] = "serving" => g = latest /\ i \notin asked
  <2> SUFFICES ASSUME state[g] = "serving" PROVE g = latest /\ i \notin asked
    OBVIOUS
  <2>1. g = latest
    BY <1>0 DEF Serving
  <2>2. CASE mem[g][i] = "unsent"
    BY <2>1, <2>2 DEF KeptInv, Promise, InMemory
  <2>3. CASE mem[g][i] \in {"none", "lapsed"} \/ run[g][i] = "queued"
    BY <2>1, <2>3, Uncounted
  <2> QED BY <2>1, <2>2, <2>3
        DEF Request, Admit, Enqueue, Busy, Duplicate, Fresh, QueueTimeout
<1>3. misproved' = {}
  BY <1>0, <1>1, <1>2, ProofIsTrue
<1>4. ASSUME NEW j \in Invocations
      PROVE  \/ run'[latest][j] = run[latest][j]
             \/ run'[latest][j] \in {"none", "done", "host"}
             \/ run'[latest][j] \in {"queued", "claim"} /\ sent[j] = 0
  <2>1. CASE run' = run
    BY <2>1
  <2>2. CASE run' = [run EXCEPT ![g][i] = "none"]
    BY <2>2, <1>0
  <2>3. CASE /\ \E p \in {"queued", "claim"} : run' = [run EXCEPT ![g][i] = p]
             /\ state[g] = "serving" /\ mem[g][i] \in {"none", "lapsed"}
    <3>1. g = latest /\ sent[i] = 0
      BY <2>3, <1>2, Uncounted
    <3>2. PICK p \in {"queued", "claim"} : run' = [run EXCEPT ![g][i] = p]
      BY <2>3
    <3>3. run'[latest][j] = IF j = i THEN p ELSE run[latest][j]
      BY <3>1, <3>2, <1>0
    <3> QED BY <3>1, <3>3
  <2> QED BY <1>1, <2>1, <2>2, <2>3
<1>5. sent' = sent /\ asked' = asked
  BY <1>1 DEF called
<1> QED BY <1>1, <1>3, <1>4, <1>5, PromiseStays

(* A run of a broker that was stopped changes nothing that is counted: it    *)
(* calls no host, and evicts from its own copy.                              *)
LEMMA OldRunKept ==
    ASSUME KeptInv, NEW g \in Generations, NEW i \in Invocations, RunStep(g, i), g # latest
    PROVE  Promise'
<1>0. /\ latest \in Generations /\ TypeOK /\ BrokerInv /\ state[g] # "serving"
      /\ run \in [Generations -> [Invocations -> Runs]]
      /\ mem \in [Generations -> [Invocations -> Records]]
      /\ misproved = {} /\ sent \in [Invocations -> 0 .. 2] /\ asked \subseteq Invocations
  BY BaseTypes DEF KeptInv, Base, Serving, Promise, TypeOK
<1>1. /\ file' = file /\ state' = state /\ UNCHANGED memory
      /\ misproved' = misproved \/ AnswerNotSent(g, i)
      /\ UNCHANGED called \/ Forget({}) \/ (sent' = sent /\ asked' \subseteq asked)
  <2>1. CASE \/ QueueTimeout(g, i) \/ RefuseClosed(g, i) \/ HostReturns(g, i)
             \/ HostRefuses(g, i) \/ ClaimFails(g, i) \/ CompletePersisted(g, i)
             \/ CompleteFails(g, i)
    BY <2>1 DEF QueueTimeout, RefuseClosed, HostReturns, HostRefuses, ClaimFails,
       CompletePersisted, CompleteFails
  <2>2. CASE ClaimBegin(g, i) \/ CompleteBegin(g, i)
    BY <2>2 DEF ClaimBegin, CompleteBegin, Dropped
  <2>3. CASE ClaimPersisted(g, i)
    BY <2>3, <1>0 DEF ClaimPersisted, RefuseRun
  <2> QED BY <2>1, <2>2, <2>3 DEF RunStep, PersistEnd
<1>2. sent' = sent /\ asked' \subseteq asked
  BY <1>0, <1>1 DEF called, Forget
<1>3. misproved' = {}
  BY <1>0, <1>1, ProofIsTrue
<1>4. mem'[latest] = mem[latest]
  <2>1. \/ mem' = mem
        \/ \E new : mem' = [mem EXCEPT ![g] = new]
        \/ \E r : mem' = [mem EXCEPT ![g][i] = r]
    BY DEF RunStep, PersistEnd, QueueTimeout, RefuseClosed, ClaimBegin, CompleteBegin,
       HostReturns, HostRefuses, ClaimPersisted, ClaimFails, CompletePersisted, CompleteFails
  <2> QED BY <2>1, <1>0
<1>5. lock'[latest] = lock[latest]
  <2>1. lock' = lock \/ \E l : lock' = [lock EXCEPT ![g] = l]
    BY DEF RunStep, PersistEnd, QueueTimeout, RefuseClosed, ClaimBegin, CompleteBegin,
       HostReturns, HostRefuses, ClaimPersisted, ClaimFails, CompletePersisted, CompleteFails,
       Hold, Unlock
  <2> QED BY <2>1, <1>0 DEF TypeOK
<1>6. run'[latest] = run[latest]
  <2>1. \/ \E p : run' = [run EXCEPT ![g][i] = p]
        \/ \E row : run' = [run EXCEPT ![g] = row]
    BY DEF RunStep, PersistEnd, QueueTimeout, RefuseClosed, ClaimBegin, CompleteBegin,
       HostReturns, HostRefuses, ClaimPersisted, CallHost, RefuseRun, ClaimFails,
       CompletePersisted, CompleteFails, ReleaseAndDrain
  <2> QED BY <2>1, <1>0
<1> QED BY <1>1, <1>2, <1>3, <1>4, <1>5, <1>6, PromiseStays

(* In the broker started last: who runs after a run has ended.               *)
LEMMA ReleaseKept ==
    ASSUME KeptInv, NEW i \in Invocations, NEW r \in Int, ReleaseAndDrain(latest, i, r),
           state[latest] # "down"
    PROVE  \A j \in Invocations :
              \/ run'[latest][j] = run[latest][j]
              \/ run'[latest][j] = "none"
              \/ run'[latest][j] = "claim" /\ sent[j] = 0
<1>1. /\ run'[latest][i] = "none"
      /\ \A j \in Invocations : j # i =>
             run'[latest][j] = run[latest][j] \/
             (run[latest][j] = "queued" /\ run'[latest][j] = "claim")
  BY BaseTypes, RunsAfterRelease DEF KeptInv
<1>2. \A j \in Invocations : run[latest][j] = "queued" => sent[j] = 0
  BY Uncounted
<1> QED BY <1>1, <1>2

(* A host that returns or refuses changes no record; a refusal takes back    *)
(* that a provider may have been asked.                                      *)
LEMMA HostReturnsKept ==
    ASSUME KeptInv, NEW i \in Invocations, HostReturns(latest, i) \/ HostRefuses(latest, i)
    PROVE  Promise'
<1>0. /\ latest \in Generations /\ misproved = {}
      /\ run \in [Generations -> [Invocations -> Runs]]
      /\ i \in asked => sent[i] = 1
  BY BaseTypes DEF KeptInv, Promise, OnDisk
<1>1. /\ file' = file /\ mem' = mem /\ lock' = lock /\ state' = state /\ UNCHANGED memory
      /\ misproved' = misproved /\ sent' = sent /\ asked' \subseteq asked
  BY DEF HostReturns, HostRefuses, called
<1>2. CASE HostReturns(latest, i)
  <2>1. \A j \in Invocations : run'[latest][j] = IF j = i THEN "done" ELSE run[latest][j]
    BY <1>0, <1>2 DEF HostReturns
  <2> QED BY <2>1, <1>0, <1>1, PromiseStays
<1>3. CASE HostRefuses(latest, i)
  <2>1. \A j \in Invocations : run'[latest][j] = IF j = i THEN "unsent" ELSE run[latest][j]
    BY <1>0, <1>3 DEF HostRefuses
  <2>2. i \notin asked'
    BY <1>0, <1>3 DEF HostRefuses
  <2> QED BY <2>1, <2>2, <1>0, <1>1, PromiseStays
<1> QED BY <1>2, <1>3

(* A run that its broker's stop turns away changes no record.                *)
LEMMA RefuseClosedKept ==
    ASSUME KeptInv, NEW i \in Invocations, RefuseClosed(latest, i)
    PROVE  Promise'
<1>0. TypeOK /\ latest \in Generations /\ misproved = {}
  BY BaseTypes DEF KeptInv, Promise
<1>1. /\ file' = file /\ mem' = mem /\ lock' = lock /\ state' = state /\ UNCHANGED memory
      /\ misproved' = misproved /\ sent' = sent /\ asked' = asked
      /\ state[latest] # "down" /\ ReleaseAndDrain(latest, i, reserved[latest] - 1)
  BY DEF RefuseClosed, called
<1>2. reserved[latest] - 1 \in Int
  BY <1>0, Types
<1>3. \A j \in Invocations :
          \/ run'[latest][j] = run[latest][j]
          \/ run'[latest][j] = "none"
          \/ run'[latest][j] = "claim" /\ sent[j] = 0
  BY <1>1, <1>2, ReleaseKept
<1> QED BY <1>0, <1>1, <1>3, PromiseStays

(* What a write forgets is forgotten for good, and what stays counted stays  *)
(* as it was.                                                                *)
LEMMA Forgotten ==
    ASSUME KeptInv, NEW I, Forget(I)
    PROVE  \A j \in Invocations :
              /\ j \in I => sent'[j] = 0 /\ j \notin asked'
              /\ j \notin I => sent'[j] = sent[j] /\ (j \in asked' <=> j \in asked)
BY DEF Forget

(* A write of the journal begins: memory takes the record, and what is       *)
(* evicted is no longer counted.                                             *)
LEMMA BeginKept ==
    ASSUME KeptInv, NEW i \in Invocations,
           ClaimBegin(latest, i) \/ CompleteBegin(latest, i)
    PROVE  Promise'
<1>0. /\ latest \in Generations /\ misproved = {} /\ TypeOK /\ BrokerInv
      /\ run \in [Generations -> [Invocations -> Runs]]
      /\ mem \in [Generations -> [Invocations -> Records]]
      /\ WriterAlone(latest)
  BY BaseTypes DEF KeptInv, Base, LockInv, Promise
<1>1. /\ ~lock[latest].held /\ ~lock[latest].renamed
      /\ file' = file /\ state' = state /\ UNCHANGED memory /\ misproved' = misproved
      /\ run[latest][i] \in {"claim", "done", "unsent"}
      /\ state[latest] # "down"
  BY <1>0, BaseTypes DEF ClaimBegin, CompleteBegin, WriterAlone, KeptInv
<1>2. PICK E, new, p :
          /\ Forget(E)
          /\ i \notin E
          /\ mem'[latest] = new
          /\ \A j \in Invocations : j # i => new[j] =
                IF j \in E \/ mem[latest][j] = "lapsed" THEN "none" ELSE mem[latest][j]
          /\ sent[i] = 1 => new[i] \in {"pending", "done", "unsent"}
          /\ i \in asked => new[i] \in {"pending", "done"}
          /\ \/ /\ Hold(latest, new)
                /\ run' = [run EXCEPT ![latest][i] = p]
                /\ p \in {"claiming", "completing", "closing"}
                /\ p = "claiming" => sent[i] = 0
                /\ p = "closing" => i \notin asked
             \/ /\ lock' = lock
                /\ \E r \in {reserved[latest] - 1, reserved[latest]} :
                      ReleaseAndDrain(latest, i, r)
  <2>1. CASE ClaimBegin(latest, i)
    <3>1. sent[i] = 0 /\ i \notin asked
      BY <2>1, <1>1, Uncounted DEF ClaimBegin
    <3>2. PICK E \in SUBSET Invocations, claim, turned \in [Invocations -> Records] :
              /\ \A j \in E : j # i /\ mem[latest][j] \in Completed
              /\ Forget(Dropped(latest, E))
              /\ \A j \in Invocations : claim[j] =
                    IF j = i THEN "pending"
                    ELSE IF j \in E \/ mem[latest][j] = "lapsed" THEN "none" ELSE mem[latest][j]
              /\ \A j \in Invocations : turned[j] =
                    IF j \in E \/ mem[latest][j] = "lapsed" THEN "none" ELSE mem[latest][j]
              /\ \/ /\ mem' = [mem EXCEPT ![latest] = claim] /\ Hold(latest, claim)
                    /\ run' = [run EXCEPT ![latest][i] = "claiming"]
                    /\ UNCHANGED <<queue, reserved>>
                 \/ /\ mem' = [mem EXCEPT ![latest] = turned]
                    /\ ReleaseAndDrain(latest, i, reserved[latest] - 1)
                    /\ UNCHANGED lock
      BY <1>0, <2>1, ClaimRecords
    <3>3. Dropped(latest, E) = E /\ i \notin E
      BY <3>2 DEF Dropped
    <3>4. CASE /\ mem' = [mem EXCEPT ![latest] = claim] /\ Hold(latest, claim)
               /\ run' = [run EXCEPT ![latest][i] = "claiming"]
      <4>1. mem'[latest] = claim
        BY <3>4, <1>0
      <4> QED BY <3>1, <3>2, <3>3, <3>4, <4>1
    <3>5. CASE /\ mem' = [mem EXCEPT ![latest] = turned]
               /\ ReleaseAndDrain(latest, i, reserved[latest] - 1)
               /\ UNCHANGED lock
      <4>1. mem'[latest] = turned
        BY <3>5, <1>0
      <4> QED BY <3>1, <3>2, <3>3, <3>5, <4>1
    <3> QED BY <3>2, <3>4, <3>5
  <2>2. CASE CompleteBegin(latest, i)
    <3>1. /\ run[latest][i] \in {"done", "unsent"} /\ mem[latest][i] = "pending"
          /\ run[latest][i] = "unsent" => i \notin asked
      BY <2>2, <1>1 DEF CompleteBegin, KeptInv, Promise, InMemory
    <3>2. PICK E \in SUBSET Invocations, written \in [Invocations -> Records] :
              /\ \A j \in E : j # i /\ mem[latest][j] \in Completed
              /\ Forget(Dropped(latest, E))
              /\ mem' = [mem EXCEPT ![latest] = written]
              /\ \A j \in Invocations : j # i => written[j] =
                    IF j \in E \/ mem[latest][j] = "lapsed" THEN "none" ELSE mem[latest][j]
              /\ \/ /\ written[i] = run[latest][i]
                    /\ Hold(latest, written)
                    /\ run' = [run EXCEPT ![latest][i] = IF run[latest][i] = "done"
                                                         THEN "completing" ELSE "closing"]
                    /\ UNCHANGED <<queue, reserved>>
                 \/ /\ written[i] = mem[latest][i]
                    /\ ReleaseAndDrain(latest, i, reserved[latest])
                    /\ UNCHANGED lock
      BY <1>0, <2>2, CompleteRecords
    <3>3. Dropped(latest, E) = E /\ i \notin E
      BY <3>2 DEF Dropped
    <3>4. mem'[latest] = written
      BY <3>2, <1>0
    <3>5. CASE /\ written[i] = run[latest][i]
               /\ Hold(latest, written)
               /\ run' = [run EXCEPT ![latest][i] = IF run[latest][i] = "done"
                                                    THEN "completing" ELSE "closing"]
      <4> DEFINE p == IF run[latest][i] = "done" THEN "completing" ELSE "closing"
      <4>1. /\ run' = [run EXCEPT ![latest][i] = p]
            /\ p \in {"claiming", "completing", "closing"}
            /\ p = "claiming" => sent[i] = 0
            /\ p = "closing" => i \notin asked
        BY <3>1, <3>5
      <4> HIDE DEF p
      <4> QED BY <3>1, <3>2, <3>3, <3>4, <3>5, <4>1
    <3>6. CASE /\ written[i] = mem[latest][i]
               /\ ReleaseAndDrain(latest, i, reserved[latest])
               /\ UNCHANGED lock
      BY <3>1, <3>2, <3>3, <3>4, <3>6
    <3> QED BY <3>2, <3>5, <3>6
  <2> QED BY <2>1, <2>2
<1>3. \A j \in Invocations :
          /\ j \in E => sent'[j] = 0 /\ j \notin asked'
          /\ j \notin E => sent'[j] = sent[j] /\ (j \in asked' <=> j \in asked)
  BY <1>2, Forgotten
<1>4. ASSUME NEW j \in Invocations
      PROVE  /\ OnDisk(j) /\ InMemory(j)
             /\ sent'[j] \in {0, sent[j]} /\ (j \in asked' => j \in asked /\ sent'[j] = sent[j])
             /\ j \in asked => sent[j] = 1
             /\ sent[j] \in 0 .. 2
  BY <1>1, <1>3, BaseTypes DEF KeptInv, Promise, OnDisk
<1>5. ASSUME NEW j \in Invocations PROVE OnDisk(j)'
  BY <1>1, <1>4 DEF OnDisk, memory
<1>6. ASSUME NEW j \in Invocations
      PROVE  /\ sent'[j] = 1 => mem'[latest][j] \in {"pending", "done", "unsent"}
             /\ j \in asked' => mem'[latest][j] \in {"pending", "done"}
  <2>1. CASE j = i
    BY <2>1, <1>2, <1>3
  <2>2. CASE j # i
    <3>1. j \notin E => mem[latest][j] = mem'[latest][j] \/ mem[latest][j] = "lapsed"
      BY <2>2, <1>2
    <3> QED BY <2>2, <3>1, <1>3, <1>4 DEF InMemory
  <2> QED BY <2>1, <2>2
<1>7. ASSUME NEW j \in Invocations
      PROVE  /\ run'[latest][j] \in {"queued", "claim", "claiming"} => sent'[j] = 0
             /\ run'[latest][j] \in {"unsent", "closing"} => j \notin asked'
             /\ run'[latest][j] = "claiming" => ~lock'[latest].renamed
  <2>1. CASE /\ Hold(latest, new)
             /\ run' = [run EXCEPT ![latest][i] = p]
             /\ p \in {"claiming", "completing", "closing"}
             /\ p = "claiming" => sent[i] = 0
             /\ p = "closing" => i \notin asked
    <3>1. run'[latest][j] = IF j = i THEN p ELSE run[latest][j]
      BY <2>1, <1>0
    <3>2. ~lock'[latest].renamed
      BY <2>1, <1>0 DEF Hold, TypeOK
    <3> QED BY <2>1, <3>1, <3>2, <1>4 DEF InMemory
  <2>2. CASE lock' = lock /\ \E r \in {reserved[latest] - 1, reserved[latest]} :
                                ReleaseAndDrain(latest, i, r)
    <3>1. PICK r \in {reserved[latest] - 1, reserved[latest]} : ReleaseAndDrain(latest, i, r)
      BY <2>2
    <3>2. r \in Int
      BY <1>0, Types
    <3>3. \/ run'[latest][j] = run[latest][j]
          \/ run'[latest][j] = "none"
          \/ run'[latest][j] = "claim" /\ sent[j] = 0
      BY <3>1, <3>2, <1>1, ReleaseKept
    <3> QED BY <2>2, <3>3, <1>1, <1>4 DEF InMemory
  <2> QED BY <1>2, <2>1, <2>2
<1>8. ASSUME NEW j \in Invocations PROVE InMemory(j)'
  BY <1>1, <1>6, <1>7 DEF InMemory, memory
<1> QED BY <1>0, <1>1, <1>5, <1>8 DEF Promise

(* The host is called once its record is on disk, and only for an invocation *)
(* with nothing counted.                                                     *)
LEMMA ClaimPersistedKept ==
    ASSUME KeptInv, NEW i \in Invocations, ClaimPersisted(latest, i)
    PROVE  Promise'
<1>0. /\ latest \in Generations /\ misproved = {} /\ TypeOK /\ BrokerInv
      /\ run \in [Generations -> [Invocations -> Runs]]
      /\ sent \in [Invocations -> 0 .. 2]
  BY BaseTypes DEF KeptInv, Promise
<1>1. /\ run[latest][i] = "claiming" /\ lock[latest].renamed
      /\ lock' = [lock EXCEPT ![latest] = NoLock]
      /\ UNCHANGED <<file, state, mem, misproved>> /\ UNCHANGED memory
      /\ CallHost(latest, i) \/ RefuseRun(latest, i)
  BY DEF ClaimPersisted, Unlock
<1>2. state[latest] # "down"
  BY <1>0, <1>1, BaseTypes DEF KeptInv
<1>3. /\ sent[i] = 0 /\ i \notin asked
      /\ mem[latest][i] = "pending"
      /\ i \notin overwritten => file[i] = "pending"
  <2>1. mem[latest][i] = "pending"
    BY <1>0, <1>1, RunRecord
  <2>2. sent[i] = 0 /\ i \notin asked
    BY <1>1, <1>2, Uncounted
  <2> QED BY <2>1, <2>2, <1>1, <1>2 DEF KeptInv, Promise, InMemory
<1>4. ~lock'[latest].renamed
  BY <1>0, <1>1 DEF NoLock, TypeOK
<1>5. CASE RefuseRun(latest, i) \/ (CallHost(latest, i) /\ i \in overwritten)
  <2>1. sent' = sent /\ asked' = asked
    BY <1>5 DEF RefuseRun, CallHost, called
  <2>2. \A j \in Invocations :
            \/ run'[latest][j] = run[latest][j]
            \/ run'[latest][j] = "host"
            \/ run'[latest][j] = "unsent" /\ j \notin asked'
    <3>1. PICK p \in {"host", "unsent"} : run' = [run EXCEPT ![latest][i] = p]
      BY <1>5 DEF RefuseRun, CallHost
    <3>2. \A j \in Invocations : run'[latest][j] = IF j = i THEN p ELSE run[latest][j]
      BY <3>1, <1>0
    <3> QED BY <3>2, <2>1, <1>3
  <2> QED BY <2>1, <2>2, <1>0, <1>1, <1>4, PromiseStays
<1>6. CASE CallHost(latest, i) /\ i \notin overwritten
  <2>1. /\ sent' = [sent EXCEPT ![i] = IF sent[i] = 0 THEN 1 ELSE 2]
        /\ asked' = asked \cup {i}
        /\ run' = [run EXCEPT ![latest][i] = "host"]
    BY <1>6 DEF CallHost
  <2>2. \A j \in Invocations :
            /\ run'[latest][j] = IF j = i THEN "host" ELSE run[latest][j]
            /\ sent'[j] = IF j = i THEN 1 ELSE sent[j]
            /\ j \in asked' <=> j = i \/ j \in asked
    BY <2>1, <1>0, <1>3
  <2>3. \A j \in Invocations : OnDisk(j) /\ InMemory(j)
    BY <1>2 DEF KeptInv, Promise
  <2>4. ASSUME NEW j \in Invocations PROVE OnDisk(j)'
    BY <2>2, <2>3, <1>1, <1>3, <1>6 DEF OnDisk, memory
  <2>5. ASSUME NEW j \in Invocations PROVE InMemory(j)'
    BY <2>2, <2>3, <1>1, <1>3, <1>4 DEF InMemory, memory
  <2> QED BY <2>4, <2>5, <1>0, <1>1 DEF Promise
<1> QED BY <1>1, <1>5, <1>6

(* A write that ends a run leaves the record as it was or pending, or takes  *)
(* back a claim that nothing was sent for.                                   *)
LEMMA WriteEndsKept ==
    ASSUME KeptInv, NEW i \in Invocations,
           \/ ClaimFails(latest, i)
           \/ CompletePersisted(latest, i)
           \/ CompleteFails(latest, i)
    PROVE  Promise'
<1>0. /\ latest \in Generations /\ misproved = {} /\ TypeOK
      /\ run \in [Generations -> [Invocations -> Runs]]
      /\ mem \in [Generations -> [Invocations -> Records]]
  BY BaseTypes DEF KeptInv, Promise
<1>1. /\ run[latest][i] \in Writing
      /\ lock' = [lock EXCEPT ![latest] = NoLock]
      /\ file' = file /\ state' = state /\ UNCHANGED memory /\ sent' = sent /\ asked' = asked
      /\ \E r \in {reserved[latest] - 1, reserved[latest]} : ReleaseAndDrain(latest, i, r)
  BY DEF ClaimFails, CompletePersisted, CompleteFails, Writing, Unlock, called
<1>2. state[latest] # "down"
  BY <1>0, <1>1, BaseTypes DEF Writing, KeptInv
<1>3. \A j \in Invocations : OnDisk(j) /\ InMemory(j)
  BY <1>2 DEF KeptInv, Promise
<1>4. misproved' = {}
  <2>1. CASE AnswerNotSent(latest, i) /\ run[latest][i] = "closing"
    BY <2>1, <1>3, ProofIsTrue DEF InMemory
  <2>2. CASE misproved' = misproved
    BY <2>2, <1>0
  <2> QED BY <2>1, <2>2 DEF ClaimFails, CompletePersisted, CompleteFails
<1>5. ASSUME NEW j \in Invocations
      PROVE  \/ mem'[latest][j] = mem[latest][j]
             \/ mem'[latest][j] = "pending"
             \/ sent[j] = 0 /\ j \notin asked
  <2>1. CASE ClaimFails(latest, i)
    <3>1. sent[i] = 0 /\ i \notin asked
      BY <2>1, <1>2, Uncounted DEF ClaimFails
    <3>2. mem' = [mem EXCEPT ![latest][i] = "none"]
      BY <2>1 DEF ClaimFails
    <3> QED BY <3>1, <3>2, <1>0
  <2>2. CASE CompletePersisted(latest, i)
    BY <2>2 DEF CompletePersisted
  <2>3. CASE CompleteFails(latest, i)
    BY <2>3, <1>0 DEF CompleteFails
  <2> QED BY <2>1, <2>2, <2>3
<1>6. \A j \in Invocations :
          \/ run'[latest][j] = run[latest][j]
          \/ run'[latest][j] = "none"
          \/ run'[latest][j] = "claim" /\ sent[j] = 0
  <2>1. PICK r \in {reserved[latest] - 1, reserved[latest]} : ReleaseAndDrain(latest, i, r)
    BY <1>1
  <2>2. r \in Int
    BY <1>0, Types
  <2> QED BY <2>1, <2>2, <1>2, ReleaseKept
<1>7. ~lock'[latest].renamed
  BY <1>0, <1>1 DEF NoLock, TypeOK
<1>8. ASSUME NEW j \in Invocations PROVE OnDisk(j)'
  BY <1>1, <1>3 DEF OnDisk, memory
<1>9. ASSUME NEW j \in Invocations PROVE InMemory(j)'
  BY <1>1, <1>3, <1>5, <1>6, <1>7 DEF InMemory, memory
<1> QED BY <1>4, <1>8, <1>9 DEF Promise

(* The write of the broker started last puts on disk what it has in memory;  *)
(* that of an earlier one takes what it replaces out of the account.         *)
LEMMA RenameKept ==
    ASSUME KeptInv, NEW g \in Generations, Rename(g)
    PROVE  Promise'
<1>0. /\ latest \in Generations /\ misproved = {} /\ TypeOK
      /\ lock \in [Generations -> [held : BOOLEAN, renamed : BOOLEAN,
                                   snapshot : [Invocations -> Records]]]
  BY BaseTypes DEF KeptInv, Promise, TypeOK
<1>1. /\ lock[g].held /\ file' = lock[g].snapshot /\ file' = mem[g]
      /\ lock' = [lock EXCEPT ![g].renamed = TRUE]
      /\ overwritten' = overwritten \cup WrittenOver(g)
      /\ Forget(WrittenOver(g))
      /\ UNCHANGED <<latest, state, mem, run, misproved>>
  BY DEF Rename, KeptInv, Base, Snapshot
<1>2. \A j \in Invocations :
          /\ j \in WrittenOver(g) => sent'[j] = 0 /\ j \notin asked'
          /\ j \notin WrittenOver(g) => sent'[j] = sent[j] /\ (j \in asked' <=> j \in asked)
  BY <1>1, Forgotten
<1>3. \A j \in Invocations : OnDisk(j) /\ sent[j] \in 0 .. 2
  BY BaseTypes DEF KeptInv, Promise
<1>4. state[g] # "down"
  BY <1>0, <1>1, BaseTypes DEF KeptInv
<1>5. ASSUME NEW j \in Invocations, (state[latest] # "down")' PROVE InMemory(j)
  BY <1>1, <1>5 DEF KeptInv, Promise
<1>6. CASE g = latest
  <2>1. WrittenOver(g) = {}
    BY <1>6 DEF WrittenOver
  <2>2. \A j \in Invocations : sent'[j] = sent[j] /\ (j \in asked' <=> j \in asked)
    BY <2>1, <1>2
  <2>3. \A j \in Invocations : InMemory(j)
    BY <1>1, <1>4, <1>5, <1>6
  <2>4. \A j \in Invocations : run[latest][j] = "claiming" => mem[latest][j] = "pending"
    BY <1>0, BaseTypes, RunRecord DEF KeptInv
  <2>5. ASSUME NEW j \in Invocations PROVE OnDisk(j)' /\ InMemory(j)'
    BY <2>1, <2>2, <2>3, <2>4, <1>1, <1>3, <1>6 DEF OnDisk, InMemory
  <2> QED BY <2>5, <1>0, <1>1 DEF Promise
<1>7. CASE g # latest
  <2>1. lock'[latest] = lock[latest]
    BY <1>0, <1>1, <1>7
  <2>2. ASSUME NEW j \in Invocations, j \notin WrittenOver(g)
        PROVE  file'[j] = file[j] \/ file[j] \in {"none", "lapsed"}
    BY <2>2, <1>1, <1>7 DEF WrittenOver
  <2>3. ASSUME NEW j \in Invocations PROVE OnDisk(j)'
    <3>1. CASE j \in WrittenOver(g)
      BY <3>1, <1>1, <1>2 DEF OnDisk
    <3>2. CASE j \notin WrittenOver(g)
      BY <3>2, <2>2, <1>1, <1>2, <1>3 DEF OnDisk
    <3> QED BY <3>1, <3>2
  <2>4. ASSUME NEW j \in Invocations, (state[latest] # "down")' PROVE InMemory(j)'
    <3>1. InMemory(j)
      BY <2>4, <1>5
    <3>2. CASE j \in WrittenOver(g)
      BY <3>1, <3>2, <1>1, <1>2, <2>1 DEF InMemory
    <3>3. CASE j \notin WrittenOver(g)
      BY <3>1, <3>3, <2>1, <2>2, <1>1, <1>2 DEF InMemory
    <3> QED BY <3>2, <3>3
  <2> QED BY <2>3, <2>4, <1>0, <1>1 DEF Promise
<1> QED BY <1>6, <1>7

(* A record that lapses is no longer counted, or was of a call never made.   *)
LEMMA LapseKept == ASSUME KeptInv, NEW i \in Invocations, Lapse(i) PROVE Promise'
<1>0. /\ latest \in Generations /\ misproved = {} /\ TypeOK
      /\ file \in [Invocations -> Records]
      /\ mem[latest] \in [Invocations -> Records]
      /\ lock \in [Generations -> [held : BOOLEAN, renamed : BOOLEAN,
                                   snapshot : [Invocations -> Records]]]
  BY BaseTypes DEF KeptInv, Promise, TypeOK
<1> DEFINE I == {j \in {i} : Completed \cap {file[j], mem[latest][j]} # {}}
<1>1. /\ file' = Age(file, i)
      /\ mem'[latest] = Age(mem[latest], i)
      /\ lock' = [g \in Generations |->
                    [lock[g] EXCEPT !.snapshot = Age(lock[g].snapshot, i)]]
      /\ Forget(I)
      /\ UNCHANGED <<state, run, misproved>> /\ UNCHANGED memory
  BY <1>0 DEF Lapse
<1>2. \A j \in Invocations :
          /\ j \in I => sent'[j] = 0 /\ j \notin asked'
          /\ j \notin I => sent'[j] = sent[j] /\ (j \in asked' <=> j \in asked)
  BY <1>1, Forgotten
<1>3. lock'[latest].renamed = lock[latest].renamed
  BY <1>0, <1>1
<1>4. \A j \in Invocations :
          /\ file'[j] = IF j = i /\ file[j] \in Completed THEN "lapsed" ELSE file[j]
          /\ mem'[latest][j] =
                IF j = i /\ mem[latest][j] \in Completed THEN "lapsed" ELSE mem[latest][j]
  <2>1. \A j \in Invocations : Age(file, i)[j] =
            IF j = i /\ file[j] \in Completed THEN "lapsed" ELSE file[j]
    BY <1>0 DEF Age
  <2>2. \A j \in Invocations : Age(mem[latest], i)[j] =
            IF j = i /\ mem[latest][j] \in Completed THEN "lapsed" ELSE mem[latest][j]
    BY <1>0 DEF Age
  <2> QED BY <2>1, <2>2, <1>1
<1>5. \A j \in Invocations :
          /\ j \notin I => file'[j] = file[j] /\ mem'[latest][j] = mem[latest][j]
          /\ file[j] = "pending" => file'[j] = "pending"
  BY <1>4 DEF Completed
<1> HIDE DEF I
<1>6. ASSUME NEW j \in Invocations PROVE OnDisk(j)'
  <2>1. OnDisk(j)
    BY DEF KeptInv, Promise
  <2> QED BY <2>1, <1>1, <1>2, <1>5 DEF OnDisk, memory
<1>7. ASSUME NEW j \in Invocations, (state[latest] # "down")' PROVE InMemory(j)'
  <2>1. InMemory(j)
    BY <1>1, <1>7 DEF KeptInv, Promise, memory
  <2> QED BY <2>1, <1>1, <1>2, <1>3, <1>5 DEF InMemory, memory
<1> QED BY <1>0, <1>1, <1>6, <1>7 DEF Promise

(* A stop, a start and a crash leave the account as it is: who starts reads  *)
(* the file back.                                                            *)
LEMMA LifeKept ==
    ASSUME KeptInv, Crash \/ \E g \in Generations : Stop(g) \/ Start(g)
    PROVE  Promise'
<1>0. /\ latest \in Generations /\ misproved = {} /\ TypeOK
      /\ file \in [Invocations -> Records]
      /\ mem \in [Generations -> [Invocations -> Records]]
      /\ run \in [Generations -> [Invocations -> Runs]]
      /\ state \in [Generations -> {"down", "serving", "closed"}]
  BY BaseTypes DEF KeptInv, Promise
<1>1. CASE Crash
  <2>1. /\ UNCHANGED <<file, misproved>> /\ UNCHANGED called /\ UNCHANGED memory
        /\ state'[latest] = "down"
    BY <1>0, <1>1 DEF Crash
  <2>2. \A i \in Invocations : OnDisk(i)'
    BY <2>1 DEF called, memory, OnDisk, KeptInv, Promise
  <2> QED BY <2>1, <2>2, <1>0 DEF memory, Promise
<1>2. ASSUME NEW g \in Generations, Stop(g) PROVE Promise'
  <2>1. /\ UNCHANGED <<file, mem, lock, misproved>> /\ UNCHANGED memory
        /\ sent' = sent /\ asked' = asked
    BY <1>2 DEF Stop, called
  <2>2. \A j \in Invocations : run'[latest][j] \in {run[latest][j], "none"}
    <3>1. run' = [run EXCEPT ![g] = [j \in Invocations |->
                     IF run[g][j] = "queued" THEN "none" ELSE run[g][j]]]
      BY <1>2 DEF Stop
    <3>2. CASE g = latest
      BY <3>1, <3>2, <1>0
    <3>3. CASE g # latest
      BY <3>1, <3>3, <1>0
    <3> QED BY <3>2, <3>3
  <2>3. state'[latest] # "down" => state[latest] # "down"
    BY <1>0, <1>2 DEF Stop
  <2> QED BY <2>1, <2>2, <2>3, <1>0, PromiseStays
<1>3. ASSUME NEW g \in Generations, Start(g) PROVE Promise'
  <2>1. /\ UNCHANGED <<file, run, lock, overwritten, misproved>>
        /\ sent' = sent /\ asked' = asked
        /\ latest' = g /\ state[g] = "down" /\ mem'[g] = Prune(file)
    BY <1>0, <1>3 DEF Start, called
  <2>2. \A j \in Invocations : run[g][j] = "none"
    BY <2>1, BaseTypes DEF KeptInv
  <2>3. \A j \in Invocations : Prune(file)[j] = IF file[j] = "lapsed" THEN "none" ELSE file[j]
    BY <1>0, RecordOps
  <2>4. \A j \in Invocations : OnDisk(j)
    BY DEF KeptInv, Promise
  <2>5. ASSUME NEW j \in Invocations PROVE OnDisk(j)'
    BY <2>1, <2>4 DEF OnDisk
  <2>6. ASSUME NEW j \in Invocations PROVE InMemory(j)'
    BY <2>1, <2>2, <2>3, <2>4 DEF OnDisk, InMemory
  <2> QED BY <2>1, <2>5, <2>6, <1>0 DEF Promise
<1> QED BY <1>1, <1>2, <1>3

(* Every step keeps the promise.                                             *)
LEMMA KeptStep == KeptInv /\ [Next]_vars => KeptInv'
<1> SUFFICES ASSUME KeptInv, [Next]_vars PROVE KeptInv'
  OBVIOUS
<1>1. CASE UNCHANGED vars
  <2>1. LockInv'
    BY LockStep DEF KeptInv, Base
  <2>2. /\ UNCHANGED <<file, state, mem, run, queue, reserved, active, lock>>
        /\ UNCHANGED <<sent, asked, latest, overwritten, misproved>>
    BY <1>1 DEF vars, brokerVars, called, memory
  <2>3. Serving' /\ Snapshot'
    BY <2>2 DEF KeptInv, Base, Serving, Snapshot
  <2>4. Promise'
    BY <2>2 DEF KeptInv, Promise, OnDisk, InMemory
  <2> QED BY <2>1, <2>3, <2>4 DEF KeptInv, Base
<1>2. CASE Next
  <2>1. LockInv' /\ Serving' /\ Snapshot'
    BY <1>2, LockStep, ServingStep, SnapshotStep DEF KeptInv, Base
  <2>2. ASSUME NEW g \in Generations, NEW i \in Invocations, Request(g, i) PROVE Promise'
    BY <2>2, RequestKept
  <2>3. ASSUME NEW g \in Generations, NEW i \in Invocations, RunStep(g, i) PROVE Promise'
    <3>1. CASE g # latest
      BY <2>3, <3>1, OldRunKept
    <3>2. CASE g = latest
      BY <2>3, <3>2, RequestKept, RefuseClosedKept, BeginKept, HostReturnsKept,
         ClaimPersistedKept, WriteEndsKept DEF RunStep, PersistEnd
    <3> QED BY <3>1, <3>2
  <2>4. ASSUME NEW g \in Generations, Rename(g) \/ Stop(g) \/ Start(g) PROVE Promise'
    BY <2>4, RenameKept, LifeKept
  <2>5. Promise'
    BY <1>2, <2>2, <2>3, <2>4, LapseKept, LifeKept DEF Next
  <2> QED BY <2>1, <2>5 DEF KeptInv, Base
<1> QED BY <1>1, <1>2

(* The journal starts empty.                                                 *)
LEMMA KeptInit == Init => KeptInv
<1> SUFFICES ASSUME Init PROVE KeptInv
  OBVIOUS
<1>1. LockInv
  BY BrokerInit DEF Init, LockInv, WriterAlone, NoRuns, NoLock, Writing
<1>2. latest \in Generations
  BY BrokerAssumption DEF Init
<1>3. Serving /\ Snapshot
  BY DEF Init, Serving, Snapshot, NoLock
<1>4. Promise
  BY <1>2 DEF Init, Promise, OnDisk
<1> QED BY <1>1, <1>3, <1>4 DEF KeptInv, Base

(* The promise of the journal is kept.                                       *)
LEMMA KeptInvariant == Spec => []KeptInv
BY KeptInit, KeptStep, PTL DEF Spec

(* Any number of invocations and of brokers that one process starts, any     *)
(* limits: as long as its record was not dropped by TTL or capacity, an      *)
(* invocation reaches the host at most once, over crashes, stops and starts  *)
(* that wait for no run, failed writes, evictions and repeated requests; but *)
(* for the records that a stopped broker wrote over (journal.mjs,            *)
(* broker.mjs, server.mjs).                                                  *)
THEOREM HostCalledOnce == Spec => []HostOnce
<1>1. KeptInv => HostOnce
  BY DEF KeptInv, Promise, OnDisk, HostOnce
<1> QED BY <1>1, KeptInvariant, PTL

(* Over the same behaviours the proof "definitely not sent" is given only    *)
(* for an invocation that was never handed to the host, or whose one call    *)
(* the host itself refused before it dispatched anything.                    *)
THEOREM NotSentProved == Spec => []NotSentIsTrue
<1>1. KeptInv => NotSentIsTrue
  BY DEF KeptInv, Promise, NotSentIsTrue
<1> QED BY <1>1, KeptInvariant, PTL

=============================================================================
