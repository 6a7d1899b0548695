-------------------------- MODULE SchedulerProofs --------------------------
(***************************************************************************)
(* Theorems about the Scheduler for any number of WorkOrders, callers and   *)
(* attempts, any lease policy and any bounds: the state of a WorkOrder, its *)
(* history, and the abstract life cycle it implements.                      *)
(***************************************************************************)
EXTENDS SchedulerInvariants, SequenceTheorems, TLAPS

(* A log that gains one event: its type, length, last event and old events.  *)
LEMMA AppendedLog ==
    ASSUME NEW S, NEW s \in Seq(S), NEW e \in S
    PROVE  /\ Append(s, e) \in Seq(S)
           /\ Len(Append(s, e)) = Len(s) + 1
           /\ Len(s) \in Nat
           /\ Append(s, e) # <<>>
           /\ LastOf(Append(s, e)) = e
           /\ \A i \in 1 .. Len(s) : Append(s, e)[i] = s[i]
           /\ \A i \in 1 .. Len(Append(s, e)) : i \in 1 .. Len(s) \/ Append(s, e)[i] = e
<1>1. /\ Append(s, e) \in Seq(S)
      /\ Len(Append(s, e)) = Len(s) + 1
      /\ Len(s) \in Nat
      /\ Append(s, e)[Len(s) + 1] = e
      /\ \A i \in 1 .. Len(s) : Append(s, e)[i] = s[i]
  BY AppendProperties, LenProperties
<1>2. Append(s, e) # <<>>
  BY <1>1, EmptySeq
<1> QED BY <1>1, <1>2 DEF LastOf

(* A log that is not empty has a last event, of the type of its events.      *)
LEMMA LastEvent ==
    ASSUME NEW S, NEW s \in Seq(S), s # <<>>
    PROVE  /\ Len(s) \in Nat
           /\ Len(s) \in 1 .. Len(s)
           /\ LastOf(s) = s[Len(s)]
           /\ LastOf(s) \in S
  BY DEF LastOf

(* LogOK survives an event that stays within the cap, is no older than any   *)
(* lease of the WorkOrder, and names its lease if it is a leased event.      *)
LEMMA LogGrows ==
    ASSUME NEW w, NEW log, NEW ls, NEW cap \in Nat,
           LogOK(w, log, ls, cap), ls \in Seq(Lease), log # <<>>,
           NEW e \in Event,
           e.attempt <= cap,
           e.state = "leased" => /\ e.lease \in 1 .. Len(ls)
                                 /\ ls[e.lease].work = w
                                 /\ ls[e.lease].attempt = e.attempt,
           \A l \in 1 .. Len(ls) : ls[l].work = w =>
                /\ ls[l].attempt <= e.attempt
                /\ e.state = "ready" => ls[l].attempt < e.attempt
    PROVE  LogOK(w, Append(log, e), ls, cap)
<1> DEFINE new == Append(log, e)
<1>1. log \in Seq(Event) /\ cap # 0
  BY DEF LogOK
<1>2. /\ new \in Seq(Event)
      /\ Len(new) = Len(log) + 1
      /\ Len(log) \in Nat
      /\ new # <<>>
      /\ LastOf(new) = e
      /\ \A i \in 1 .. Len(log) : new[i] = log[i]
      /\ \A i \in 1 .. Len(new) : i \in 1 .. Len(log) \/ new[i] = e
  BY <1>1, AppendedLog
<1>3. \A i \in 1 .. Len(new) :
          /\ new[i].attempt <= cap
          /\ new[i].state = "leased" =>
                /\ new[i].lease \in 1 .. Len(ls)
                /\ ls[new[i].lease].work = w
                /\ ls[new[i].lease].attempt = new[i].attempt
  BY <1>2 DEF LogOK
<1>4. \A l \in 1 .. Len(ls) : ls[l].work = w =>
          \E i \in 1 .. Len(new) : new[i].state = "leased" /\ new[i].lease = l
  <2> SUFFICES ASSUME NEW l \in 1 .. Len(ls), ls[l].work = w
               PROVE  \E i \in 1 .. Len(new) : new[i].state = "leased" /\ new[i].lease = l
    OBVIOUS
  <2>1. PICK i \in 1 .. Len(log) : log[i].state = "leased" /\ log[i].lease = l
    BY DEF LogOK
  <2>2. i \in 1 .. Len(new) /\ new[i] = log[i]
    BY <1>2
  <2> QED BY <2>1, <2>2
<1> QED BY <1>1, <1>2, <1>3, <1>4 DEF LogOK

(* The log of an enqueued WorkOrder only depends on the WorkOrder and the    *)
(* attempt of each lease, so a renewal does not disturb it.                  *)
LEMMA LogSameLeases ==
    ASSUME NEW w, NEW log, NEW ls, NEW new, NEW cap,
           LogOK(w, log, ls, cap),
           Len(new) = Len(ls),
           \A l \in 1 .. Len(ls) : new[l].work = ls[l].work /\ new[l].attempt = ls[l].attempt
    PROVE  LogOK(w, log, new, cap)
  BY DEF LogOK

(* A lease granted on another WorkOrder does not disturb it either.          *)
LEMMA LogOtherLease ==
    ASSUME NEW w, NEW log, NEW ls \in Seq(Lease), NEW l \in Lease, NEW cap,
           LogOK(w, log, ls, cap), l.work # w
    PROVE  LogOK(w, log, Append(ls, l), cap)
<1>1. /\ Len(Append(ls, l)) = Len(ls) + 1
      /\ Len(ls) \in Nat
      /\ \A i \in 1 .. Len(ls) : Append(ls, l)[i] = ls[i]
      /\ \A i \in 1 .. Len(Append(ls, l)) : i \in 1 .. Len(ls) \/ Append(ls, l)[i] = l
  BY AppendedLog
<1> QED BY <1>1 DEF LogOK

-----------------------------------------------------------------------------
(* What follows an attempt that is over fits the log it is appended to.      *)
LEMMA NextEventFits ==
    ASSUME NEW w, max_attempts[w] \in Nat, NEW n \in Nat \ {0},
           n <= max_attempts[w], NEW at \in Nat
    PROVE  /\ NextEvent(w, n, at) \in Event
           /\ NextEvent(w, n, at).attempt <= max_attempts[w]
           /\ NextEvent(w, n, at).attempt >= n
           /\ NextEvent(w, n, at).state \in {"ready", "failed"}
           /\ NextEvent(w, n, at).state = "ready" => NextEvent(w, n, at).attempt > n
  BY DEF NextEvent, EventRow, Event, AttemptStates

(* The end of an attempt and the event that follows it.                      *)
LEMMA LogEndsAttempt ==
    ASSUME NEW w, NEW log, max_attempts[w] \in Nat, leases \in Seq(Lease),
           LogOK(w, log, leases, max_attempts[w]), log # <<>>,
           NEW e \in Event, e.attempt <= max_attempts[w],
           e.state \notin {"leased", "ready"},
           \A l \in 1 .. Len(leases) : leases[l].work = w => leases[l].attempt <= e.attempt,
           NEW at \in Nat
    PROVE  /\ LogOK(w, Append(log, e), leases, max_attempts[w])
           /\ LogOK(w, Append(Append(log, e), NextEvent(w, e.attempt, at)), leases,
                    max_attempts[w])
           /\ LastOf(Append(log, e)) = e
           /\ LastOf(Append(Append(log, e), NextEvent(w, e.attempt, at))).state
                 \in {"ready", "failed"}
<1> DEFINE once == Append(log, e)
           next == NextEvent(w, e.attempt, at)
<1>1. LogOK(w, once, leases, max_attempts[w])
  BY LogGrows
<1>2. once \in Seq(Event) /\ once # <<>> /\ LastOf(once) = e
  BY AppendedLog DEF LogOK
<1>3. e.attempt \in Nat \ {0}
  BY DEF Event
<1>4. /\ next \in Event
      /\ next.attempt <= max_attempts[w]
      /\ next.attempt >= e.attempt
      /\ next.state \in {"ready", "failed"}
      /\ next.state = "ready" => next.attempt > e.attempt
  BY <1>3, NextEventFits
<1> HIDE DEF once, next
<1>5. \A l \in 1 .. Len(leases) : leases[l].work = w =>
          /\ leases[l].attempt <= next.attempt
          /\ next.state = "ready" => leases[l].attempt < next.attempt
  <2> SUFFICES ASSUME NEW l \in 1 .. Len(leases), leases[l].work = w
               PROVE  /\ leases[l].attempt <= next.attempt
                      /\ next.state = "ready" => leases[l].attempt < next.attempt
    OBVIOUS
  <2>1. leases[l] \in Lease
    BY ElementOfSeq
  <2>2. leases[l].attempt \in Nat /\ leases[l].attempt <= e.attempt
    BY <2>1 DEF Lease
  <2>3. next.attempt \in Nat
    BY <1>4 DEF Event
  <2> QED BY <2>2, <2>3, <1>3, <1>4
<1>6. LogOK(w, Append(once, next), leases, max_attempts[w])
  BY <1>1, <1>2, <1>4, <1>5, LogGrows
<1>7. LastOf(Append(once, next)) = next
  BY <1>2, <1>4, AppendedLog
<1> QED BY <1>1, <1>2, <1>4, <1>6, <1>7 DEF once, next

(* In a log that fits, a leased last event names a lease of the WorkOrder    *)
(* for the same attempt, and no lease of the WorkOrder is newer.             *)
LEMMA LeasedLast ==
    ASSUME NEW w, NEW log, NEW ls \in Seq(Lease), NEW cap \in Nat,
           LogOK(w, log, ls, cap), log # <<>>
    PROVE  /\ LastOf(log) \in Event
           /\ LastOf(log).attempt \in Nat \ {0}
           /\ LastOf(log).attempt <= cap
           /\ \A l \in 1 .. Len(ls) : ls[l].work = w => ls[l].attempt <= LastOf(log).attempt
           /\ LastOf(log).state = "leased" =>
                /\ LastOf(log).lease \in 1 .. Len(ls)
                /\ ls[LastOf(log).lease] \in Lease
                /\ ls[LastOf(log).lease].work = w
                /\ ls[LastOf(log).lease].attempt = LastOf(log).attempt
<1>1. log \in Seq(Event) /\ Len(log) \in 1 .. Len(log) /\ LastOf(log) = log[Len(log)]
      /\ LastOf(log) \in Event
  BY LastEvent DEF LogOK
<1>2. LastOf(log).attempt \in Nat \ {0}
  BY <1>1 DEF Event
<1>3. LastOf(log).state = "leased" =>
         LastOf(log).lease \in 1 .. Len(ls) /\ ls[LastOf(log).lease].work = w
         /\ ls[LastOf(log).lease].attempt = LastOf(log).attempt
  BY <1>1 DEF LogOK
<1>4. \A l \in 1 .. Len(ls) : ls[l] \in Lease
  BY ElementOfSeq
<1> QED BY <1>1, <1>2, <1>3, <1>4 DEF LogOK

(* _expire_one keeps the log fitting and ends the lease.                     *)
LEMMA LogExpires ==
    ASSUME NEW w, NEW log, max_attempts[w] \in Nat, leases \in Seq(Lease),
           LogOK(w, log, leases, max_attempts[w]),
           log # <<>>, LastOf(log).state = "leased"
    PROVE  /\ LogOK(w, ExpireOne(log, w), leases, max_attempts[w])
           /\ ExpireOne(log, w) # <<>>
           /\ LastOf(ExpireOne(log, w)).state \in {"ready", "failed"}
<1> DEFINE last == LastOf(log)
           e == EventRow(last.attempt, "expired", last.lease,
                         Len(leases[last.lease].expires), 0, 0)
<1>1. /\ last \in Event
      /\ last.attempt \in Nat \ {0}
      /\ last.attempt <= max_attempts[w]
      /\ \A l \in 1 .. Len(leases) : leases[l].work = w => leases[l].attempt <= last.attempt
      /\ last.lease \in 1 .. Len(leases)
      /\ leases[last.lease] \in Lease
  BY LeasedLast
<1>2. Len(leases[last.lease].expires) \in Nat
  BY <1>1, LenProperties DEF Lease
<1>3. e \in Event /\ e.attempt = last.attempt /\ e.state = "expired"
  BY <1>1, <1>2 DEF EventRow, Event, AttemptStates
<1>4. ExpireOne(log, w) = Append(Append(log, e), NextEvent(w, e.attempt, 0))
  BY <1>3 DEF ExpireOne
<1> HIDE DEF e, last
<1>5. /\ LogOK(w, Append(Append(log, e), NextEvent(w, e.attempt, 0)), leases,
               max_attempts[w])
      /\ LastOf(Append(Append(log, e), NextEvent(w, e.attempt, 0))).state
            \in {"ready", "failed"}
  <2>1. e.state \notin {"leased", "ready"} /\ e.attempt <= max_attempts[w]
    BY <1>1, <1>3
  <2>2. \A l \in 1 .. Len(leases) : leases[l].work = w => leases[l].attempt <= e.attempt
    BY <1>1, <1>3
  <2>3. 0 \in Nat
    OBVIOUS
  <2> QED BY <1>3, <2>1, <2>2, <2>3, LogEndsAttempt
<1>6. ExpireOne(log, w) # <<>>
  BY <1>1, <1>4, <1>5 DEF LogOK
<1> QED BY <1>4, <1>5, <1>6

-----------------------------------------------------------------------------
(* One WorkOrder's log and index row change together.                        *)
LEMMA OneLogChanges ==
    ASSUME NEW log, NEW index, NEW ls, NEW caps, Tables(log, index, ls, caps),
           NEW w \in WorkOrders, NEW new,
           LogOK(w, new, ls, caps[w]),
           NEW row \in [lease : Nat, expires : Nat, reserved : BOOLEAN],
           row = RowOf(new, ls)
    PROVE  Tables([log EXCEPT ![w] = new], [index EXCEPT ![w] = row], ls, caps)
<1>1. new \in Seq(Event)
  BY DEF LogOK
<1> QED BY <1>1 DEF Tables

(* A log whose last event is not leased has no index row.                    *)
LEMMA NoRowOf ==
    ASSUME NEW log, NEW ls, LastOf(log).state # "leased"
    PROVE  /\ RowOf(log, ls) = NoRow
           /\ NoRow \in [lease : Nat, expires : Nat, reserved : BOOLEAN]
  BY DEF RowOf, NoRow

(* A leased attempt that ends leaves fitting tables.                         *)
LEMMA LogReleased ==
    ASSUME NEW log, NEW index, NEW ls, NEW caps, Tables(log, index, ls, caps),
           NEW w \in WorkOrders, NEW new,
           LogOK(w, new, ls, caps[w]), LastOf(new).state # "leased"
    PROVE  Tables([log EXCEPT ![w] = new], [index EXCEPT ![w] = NoRow], ls, caps)
  BY NoRowOf, OneLogChanges

(* The expiry that claim and sweep start with keeps the tables fitting.      *)
LEMMA TablesExpire ==
    ASSUME Tables(events, current, leases, max_attempts),
           NEW among, NEW now
    PROVE  Tables(ExpireDueAmong(among, now), IndexAfterExpiry(among, now), leases,
                  max_attempts)
<1> DEFINE log == ExpireDueAmong(among, now)
           index == IndexAfterExpiry(among, now)
<1>1. ASSUME NEW w \in WorkOrders
      PROVE  /\ log[w] \in Seq(Event)
             /\ index[w] \in [lease : Nat, expires : Nat, reserved : BOOLEAN]
             /\ LogOK(w, log[w], leases, max_attempts[w])
             /\ index[w] = RowOf(log[w], leases)
  <2>0. /\ LogOK(w, events[w], leases, max_attempts[w])
        /\ max_attempts[w] \in Nat
        /\ leases \in Seq(Lease)
        /\ current[w] = RowOf(events[w], leases)
        /\ current[w] \in [lease : Nat, expires : Nat, reserved : BOOLEAN]
    BY DEF Tables
  <2>1. CASE w \in among /\ Overdue(w, now)
    <3>1. log[w] = ExpireOne(events[w], w) /\ index[w] = NoRow
      BY <2>1 DEF ExpireDueAmong, IndexAfterExpiry
    <3>2. events[w] # <<>> /\ LastOf(events[w]).state = "leased"
      BY <2>0, <2>1 DEF Overdue, Leased, Enqueued, Latest, LogOK
    <3>3. /\ LogOK(w, ExpireOne(events[w], w), leases, max_attempts[w])
          /\ LastOf(ExpireOne(events[w], w)).state # "leased"
      BY <2>0, <3>2, LogExpires
    <3> QED BY <3>1, <3>3, NoRowOf DEF LogOK
  <2>2. CASE ~(w \in among /\ Overdue(w, now))
    <3>1. log[w] = events[w] /\ index[w] = current[w]
      BY <2>2 DEF ExpireDueAmong, IndexAfterExpiry
    <3> QED BY <2>0, <3>1 DEF LogOK
  <2> QED BY <2>1, <2>2
<1>2. /\ log = [w \in WorkOrders |-> log[w]]
      /\ index = [w \in WorkOrders |-> index[w]]
  BY DEF ExpireDueAmong, IndexAfterExpiry
<1>3. /\ leases \in Seq(Lease)
      /\ max_attempts \in [WorkOrders -> Nat]
      /\ LeasesOK(leases)
  BY DEF Tables
<1> HIDE DEF log, index
<1>4. /\ log \in [WorkOrders -> Seq(Event)]
      /\ index \in [WorkOrders -> [lease : Nat, expires : Nat, reserved : BOOLEAN]]
  BY <1>1, <1>2
<1> QED BY <1>1, <1>3, <1>4 DEF Tables, log, index

(* GrantLease on claimable, fitting tables: the attempt is new, so the       *)
(* tables fit again, and no earlier lease changes.                           *)
LEMMA TablesGrant ==
    ASSUME NEW log, NEW index, Tables(log, index, leases, max_attempts),
           NEW c \in Callers, NEW w \in WorkOrders, NEW seconds \in Nat,
           call[c].now \in Nat,
           Claimable(log[w], w, call[c].now),
           GrantLease(c, w, seconds, log, index)
    PROVE  /\ Tables(events', current', leases', max_attempts)
           /\ Len(leases') = Len(leases) + 1
           /\ Len(leases) \in Nat
           /\ \A l \in 1 .. Len(leases) : leases'[l] = leases[l]
<1> DEFINE n == LastOf(log[w]).attempt
           l == Len(leases) + 1
           e == EventRow(n, "leased", l, 1, 0, 0)
           expiry == call[c].now + seconds
           lease == [work |-> w, attempt |-> n, owner |-> c,
                     issued_at |-> call[c].now, expires |-> <<expiry>>]
<1>1. /\ leases \in Seq(Lease)
      /\ LeasesOK(leases)
      /\ max_attempts \in [WorkOrders -> Nat]
      /\ LogOK(w, log[w], leases, max_attempts[w])
      /\ log \in [WorkOrders -> Seq(Event)]
      /\ log[w] \in Seq(Event)
      /\ log[w] # <<>>
      /\ LastOf(log[w]).state = "ready"
  BY DEF Tables, Claimable
<1>2. /\ n \in Nat \ {0}
      /\ n <= max_attempts[w]
      /\ \A k \in 1 .. Len(leases) : leases[k].work = w => leases[k].attempt < n
  <2>1. n \in Nat \ {0} /\ n <= max_attempts[w]
    BY <1>1, LeasedLast
  <2>2. \A k \in 1 .. Len(leases) : leases[k].work = w => leases[k].attempt < n
    BY <1>1 DEF LogOK
  <2> QED BY <2>1, <2>2
<1>3. Len(leases) \in Nat /\ l \in Nat \ {0}
  BY <1>1, LenProperties
<1>4. /\ expiry \in Nat
      /\ <<expiry>> \in Seq(Nat)
      /\ <<expiry>> # <<>>
      /\ LastOf(<<expiry>>) = expiry
  BY DEF LastOf
<1>5. lease \in Lease
  BY <1>2, <1>4 DEF Lease
<1>6. /\ e \in Event
      /\ e.attempt = n /\ e.state = "leased" /\ e.lease = l /\ e.reserved = 0
  BY <1>2, <1>3 DEF EventRow, Event, AttemptStates
<1>7. /\ leases' = Append(leases, lease)
      /\ events' = [log EXCEPT ![w] = Append(log[w], e)]
      /\ current' = [index EXCEPT ![w] = IndexRow(e, expiry)]
  BY DEF GrantLease
<1>8. lease.work = w /\ lease.attempt = n /\ lease.expires = <<expiry>>
  OBVIOUS
<1>9. IndexRow(e, expiry) = [lease |-> l, expires |-> expiry, reserved |-> FALSE]
  BY <1>6 DEF IndexRow
<1> HIDE DEF e, lease, n, expiry, l
<1>a. log[w] \in Seq(Event) /\ e \in Event
  BY <1>1, <1>6
<1>10. /\ leases' \in Seq(Lease)
       /\ Len(leases') = Len(leases) + 1
       /\ \A k \in 1 .. Len(leases) : leases'[k] = leases[k]
       /\ leases'[l] = lease
       /\ l \in 1 .. Len(leases')
       /\ \A k \in 1 .. Len(leases') : k \in 1 .. Len(leases) \/ k = l
  <2>1. Append(leases, lease) \in Seq(Lease)
        /\ Len(Append(leases, lease)) = Len(leases) + 1
        /\ Append(leases, lease)[Len(leases) + 1] = lease
        /\ \A k \in 1 .. Len(leases) : Append(leases, lease)[k] = leases[k]
    BY <1>1, <1>5, AppendProperties
  <2> QED BY <2>1, <1>3, <1>7 DEF l
<1>11. LeasesOK(leases')
  <2>1. \A k \in 1 .. Len(leases') : leases'[k].expires # <<>>
    BY <1>1, <1>4, <1>8, <1>10 DEF LeasesOK
  <2>2. ASSUME NEW i \in 1 .. Len(leases'), NEW k \in 1 .. Len(leases'),
               leases'[i].work = leases'[k].work, leases'[i].attempt = leases'[k].attempt
        PROVE  i = k
    <3>1. \A j \in 1 .. Len(leases) : ~(leases[j].work = w /\ leases[j].attempt = n)
      BY <1>2
    <3>2. CASE i \in 1 .. Len(leases) /\ k \in 1 .. Len(leases)
      BY <2>2, <3>2, <1>1, <1>10 DEF LeasesOK
    <3>3. CASE i = l /\ k \in 1 .. Len(leases)
      BY <2>2, <3>1, <3>3, <1>8, <1>10
    <3>4. CASE i \in 1 .. Len(leases) /\ k = l
      BY <2>2, <3>1, <3>4, <1>8, <1>10
    <3> QED BY <3>2, <3>3, <3>4, <1>10
  <2> QED BY <2>1, <2>2 DEF LeasesOK
<1>12. LogOK(w, Append(log[w], e), leases', max_attempts[w])
  <2> DEFINE new == Append(log[w], e)
  <2>1. /\ new \in Seq(Event)
        /\ Len(new) = Len(log[w]) + 1
        /\ Len(log[w]) \in Nat
        /\ new # <<>>
        /\ LastOf(new) = e
        /\ \A i \in 1 .. Len(log[w]) : new[i] = log[w][i]
        /\ \A i \in 1 .. Len(new) : i \in 1 .. Len(log[w]) \/ new[i] = e
    BY <1>a, AppendedLog
  <2>2. new[Len(log[w]) + 1] = e
    BY <1>a, AppendProperties
  <2> HIDE DEF new
  <2>3. ASSUME NEW i \in 1 .. Len(new)
        PROVE  /\ new[i].attempt <= max_attempts[w]
               /\ new[i].state = "leased" =>
                     /\ new[i].lease \in 1 .. Len(leases')
                     /\ leases'[new[i].lease].work = w
                     /\ leases'[new[i].lease].attempt = new[i].attempt
    <3>1. CASE i \in 1 .. Len(log[w])
      <4>1. new[i] = log[w][i]
        BY <3>1, <2>1
      <4>2. /\ log[w][i].attempt <= max_attempts[w]
            /\ log[w][i].state = "leased" =>
                  /\ log[w][i].lease \in 1 .. Len(leases)
                  /\ leases[log[w][i].lease].work = w
                  /\ leases[log[w][i].lease].attempt = log[w][i].attempt
        BY <3>1, <1>1 DEF LogOK
      <4>3. \A k \in 1 .. Len(leases) : k \in 1 .. Len(leases') /\ leases'[k] = leases[k]
        BY <1>3, <1>10
      <4> QED BY <4>1, <4>2, <4>3
    <3>2. CASE new[i] = e
      BY <3>2, <1>2, <1>6, <1>8, <1>10
    <3> QED BY <3>1, <3>2, <2>1
  <2>4. ASSUME NEW k \in 1 .. Len(leases'), leases'[k].work = w
        PROVE  /\ \E i \in 1 .. Len(new) : new[i].state = "leased" /\ new[i].lease = k
               /\ leases'[k].attempt <= LastOf(new).attempt
    <3>1. CASE k \in 1 .. Len(leases)
      <4>1. leases[k].work = w /\ leases'[k] = leases[k] /\ leases[k] \in Lease
        BY <2>4, <3>1, <1>1, <1>10, ElementOfSeq
      <4>2. PICK i \in 1 .. Len(log[w]) : log[w][i].state = "leased" /\ log[w][i].lease = k
        BY <3>1, <4>1, <1>1 DEF LogOK
      <4>3. i \in 1 .. Len(new) /\ new[i] = log[w][i]
        BY <2>1
      <4>4. leases[k].attempt <= n
        BY <3>1, <4>1, <1>2 DEF Lease
      <4> QED BY <4>1, <4>2, <4>3, <4>4, <2>1, <1>6
    <3>2. CASE k = l
      <4>1. Len(log[w]) + 1 \in 1 .. Len(new)
        BY <2>1
      <4> QED BY <3>2, <4>1, <2>1, <2>2, <1>2, <1>6, <1>8, <1>10
    <3> QED BY <3>1, <3>2, <1>10
  <2>5. max_attempts[w] # 0 /\ LastOf(new).state # "ready"
    BY <1>1, <1>6, <2>1 DEF LogOK
  <2> QED BY <2>1, <2>3, <2>4, <2>5 DEF LogOK, new
<1>13. ASSUME NEW x \in WorkOrders
       PROVE  /\ LogOK(x, events'[x], leases', max_attempts[x])
              /\ current'[x] = RowOf(events'[x], leases')
              /\ current'[x] \in [lease : Nat, expires : Nat, reserved : BOOLEAN]
  <2>0. /\ LogOK(x, log[x], leases, max_attempts[x])
        /\ index[x] = RowOf(log[x], leases)
        /\ index \in [WorkOrders -> [lease : Nat, expires : Nat, reserved : BOOLEAN]]
        /\ max_attempts[x] \in Nat
    BY DEF Tables
  <2>1. CASE x = w
    <3>1. /\ events'[x] = Append(log[w], e)
          /\ current'[x] = [lease |-> l, expires |-> expiry, reserved |-> FALSE]
      BY <2>0, <2>1, <1>1, <1>7, <1>9
    <3>2. LastOf(Append(log[w], e)) = e /\ Append(log[w], e) # <<>>
      BY <1>a, AppendedLog
    <3>3. RowOf(events'[x], leases') = IndexRow(e, expiry)
      BY <3>1, <3>2, <1>4, <1>6, <1>8, <1>10 DEF RowOf
    <3> QED BY <2>1, <3>1, <3>3, <1>3, <1>4, <1>9, <1>12
  <2>2. CASE x # w
    <3>1. events'[x] = log[x] /\ current'[x] = index[x]
      BY <2>0, <2>2, <1>1, <1>7
    <3>2. LogOK(x, log[x], leases', max_attempts[x])
      BY <2>0, <2>2, <1>1, <1>5, <1>7, <1>8, LogOtherLease
    <3>3. RowOf(log[x], leases') = RowOf(log[x], leases)
      <4>1. CASE log[x] # <<>> /\ LastOf(log[x]).state = "leased"
        <5>1. LastOf(log[x]).lease \in 1 .. Len(leases)
          BY <4>1, <2>0, <1>1, LeasedLast
        <5> QED BY <4>1, <5>1, <1>10 DEF RowOf
      <4>2. CASE ~(log[x] # <<>> /\ LastOf(log[x]).state = "leased")
        BY <4>2 DEF RowOf
      <4> QED BY <4>1, <4>2
    <3> QED BY <2>0, <3>1, <3>2, <3>3
  <2> QED BY <2>1, <2>2
<1>14. /\ events' \in [WorkOrders -> Seq(Event)]
       /\ current' \in [WorkOrders -> [lease : Nat, expires : Nat, reserved : BOOLEAN]]
  <2>1. Append(log[w], e) \in Seq(Event)
    BY <1>12 DEF LogOK
  <2>2. index \in [WorkOrders -> [lease : Nat, expires : Nat, reserved : BOOLEAN]]
    BY DEF Tables
  <2> QED BY <2>1, <2>2, <1>1, <1>3, <1>4, <1>7, <1>9
<1>15. Tables(events', current', leases', max_attempts)
  BY <1>1, <1>10, <1>11, <1>13, <1>14 DEF Tables
<1> QED BY <1>3, <1>10, <1>15

-----------------------------------------------------------------------------
(* The invariant at the start. *)
LEMMA InitIndInv == Init => IndInv
<1> SUFFICES ASSUME Init PROVE IndInv
  OBVIOUS
<1> USE DEF Init
<1>1. TypeOK
  BY DEF TypeOK, NoCall, NoRow, NoResult
<1>2. Len(leases) = 0 /\ leases \in Seq(Lease)
  OBVIOUS
<1>3. ASSUME NEW w \in WorkOrders
      PROVE  /\ LogOK(w, events[w], leases, max_attempts[w])
             /\ current[w] = RowOf(events[w], leases)
  <2>1. events[w] = <<>> /\ max_attempts[w] = 0 /\ Len(events[w]) = 0
    OBVIOUS
  <2>2. LogOK(w, events[w], leases, max_attempts[w])
    BY <1>2, <2>1 DEF LogOK
  <2> QED BY <2>1, <2>2 DEF RowOf
<1>4. LeasesOK(leases)
  BY <1>2 DEF LeasesOK
<1>5. Tables(events, current, leases, max_attempts)
  BY <1>1, <1>2, <1>3, <1>4 DEF Tables, TypeOK
<1>6. SentOK(leases)
  BY DEF SentOK
<1> QED BY <1>1, <1>5, <1>6 DEF IndInv

(* What the invariant says of one lease and of the WorkOrder it is on.       *)
LEMMA LeaseFacts ==
    ASSUME IndInv, NEW l \in LeaseIds, NEW w, w = leases[l].work
    PROVE  /\ leases[l] \in Lease
           /\ w \in WorkOrders
           /\ leases[l].attempt \in Nat \ {0}
           /\ leases[l].attempt <= max_attempts[w]
           /\ leases[l].owner \in Callers
           /\ leases[l].issued_at \in Nat
           /\ leases[l].expires \in Seq(Nat)
           /\ leases[l].expires # <<>>
           /\ Len(leases[l].expires) \in Nat \ {0}
           /\ ExpiresAt(l) \in Nat
           /\ leases \in Seq(Lease)
           /\ max_attempts[w] \in Nat
           /\ LogOK(w, events[w], leases, max_attempts[w])
           /\ events[w] \in Seq(Event)
           /\ events[w] # <<>>
<1>1. /\ leases \in Seq(Lease)
      /\ LeasesOK(leases)
      /\ max_attempts \in [WorkOrders -> Nat]
      /\ \A x \in WorkOrders : LogOK(x, events[x], leases, max_attempts[x])
  BY DEF IndInv, Tables
<1>2. l \in 1 .. Len(leases)
  BY DEF LeaseIds
<1>3. leases[l] \in Lease
  BY <1>1, <1>2, ElementOfSeq
<1>4. /\ w \in WorkOrders
      /\ leases[l].attempt \in Nat \ {0}
      /\ leases[l].owner \in Callers
      /\ leases[l].issued_at \in Nat
      /\ leases[l].expires \in Seq(Nat)
  BY <1>3 DEF Lease
<1>5. leases[l].expires # <<>>
  BY <1>1, <1>2 DEF LeasesOK
<1>6. Len(leases[l].expires) \in Nat \ {0} /\ ExpiresAt(l) \in Nat
  BY <1>4, <1>5, LastEvent, EmptySeq DEF ExpiresAt
<1>7. LogOK(w, events[w], leases, max_attempts[w]) /\ max_attempts[w] \in Nat
  BY <1>1, <1>4
<1>8. PICK i \in 1 .. Len(events[w]) :
          events[w][i].state = "leased" /\ events[w][i].lease = l
  BY <1>2, <1>7 DEF LogOK
<1>9. events[w] \in Seq(Event) /\ leases[l].attempt <= max_attempts[w]
  <2>1. events[w] \in Seq(Event)
    BY <1>7, SMTT(30) DEF LogOK
  <2>2. leases[l].attempt <= max_attempts[w]
    BY <1>7, <1>8 DEF LogOK
  <2> QED BY <2>1, <2>2
<1>10. events[w] # <<>>
  <2> SUFFICES ASSUME events[w] = <<>> PROVE FALSE
    OBVIOUS
  <2>1. Len(events[w]) = 0
    OBVIOUS
  <2> QED BY <2>1, <1>8
<1> QED BY <1>1, <1>3, <1>4, <1>5, <1>6, <1>7, <1>9, <1>10

(* A WorkOrder whose latest event is leased, seen from its lease.            *)
LEMMA LeasedFacts ==
    ASSUME IndInv, NEW w \in WorkOrders, Leased(w)
    PROVE  /\ events[w] # <<>>
           /\ LastOf(events[w]).state = "leased"
           /\ LogOK(w, events[w], leases, max_attempts[w])
           /\ max_attempts[w] \in Nat
           /\ leases \in Seq(Lease)
           /\ Latest(w).lease \in LeaseIds
           /\ leases[Latest(w).lease].work = w
           /\ leases[Latest(w).lease].attempt = Latest(w).attempt
           /\ \A k \in LeaseIds : leases[k].work = w => leases[k].attempt <= Latest(w).attempt
<1>1. /\ leases \in Seq(Lease)
      /\ max_attempts[w] \in Nat
      /\ LogOK(w, events[w], leases, max_attempts[w])
  BY DEF IndInv, Tables
<1>2. events[w] # <<>> /\ LastOf(events[w]).state = "leased"
  BY <1>1 DEF Leased, Enqueued, Latest, LogOK
<1> QED BY <1>1, <1>2, LeasedLast DEF Latest, LeaseIds

(* A step that ends the attempt of one WorkOrder and leaves the leases.      *)
LEMMA ReleaseStep ==
    ASSUME IndInv, NEW w \in WorkOrders, NEW new,
           LogOK(w, new, leases, max_attempts[w]), LastOf(new).state # "leased",
           events' = [events EXCEPT ![w] = new],
           current' = [current EXCEPT ![w] = NoRow],
           leases' = leases, max_attempts' = max_attempts
    PROVE  Tables(events', current', leases', max_attempts')
<1>1. Tables(events, current, leases, max_attempts)
  BY DEF IndInv
<1>2. Tables([events EXCEPT ![w] = new], [current EXCEPT ![w] = NoRow], leases, max_attempts)
  BY <1>1, LogReleased
<1> QED BY <1>2

(* The outcome event of an attempt no newer lease follows, and what is       *)
(* appended behind a retryable one.                                          *)
LEMMA OutcomeLogOK ==
    ASSUME IndInv, NEW l \in LeaseIds, NEW w, w = leases[l].work,
           NEW n, n = leases[l].attempt,
           \A k \in LeaseIds : leases[k].work = w => leases[k].attempt <= n,
           NEW v \in Nat, NEW outcome \in ResultStates,
           NEW next \in Event, next.attempt <= max_attempts[w],
           next.state \in {"ready", "failed"},
           \A k \in LeaseIds : leases[k].work = w =>
                /\ leases[k].attempt <= next.attempt
                /\ next.state = "ready" => leases[k].attempt < next.attempt
    PROVE  /\ LogOK(w, OutcomeLog(events[w], w, n, l, v, outcome, next), leases,
                    max_attempts[w])
           /\ LastOf(OutcomeLog(events[w], w, n, l, v, outcome, next)).state # "leased"
<1> DEFINE e == EventRow(n, outcome, l, v, 0, 0)
           once == Append(events[w], e)
<1>1. /\ n \in Nat \ {0} /\ n <= max_attempts[w]
      /\ leases \in Seq(Lease) /\ max_attempts[w] \in Nat
      /\ LogOK(w, events[w], leases, max_attempts[w])
      /\ events[w] \in Seq(Event) /\ events[w] # <<>>
  BY LeaseFacts
<1>2. l \in Nat
  <2>1. Len(leases) \in Nat
    BY <1>1, LenProperties
  <2> QED BY <2>1 DEF LeaseIds
<1>3. e \in Event /\ e.attempt = n /\ e.state \notin {"leased", "ready"}
  BY <1>1, <1>2 DEF EventRow, Event, AttemptStates, ResultStates
<1>4. OutcomeLog(events[w], w, n, l, v, outcome, next)
        = IF outcome = "retryable" THEN Append(once, next) ELSE once
  BY DEF OutcomeLog
<1> HIDE DEF e
<1>5. LogOK(w, once, leases, max_attempts[w])
  BY <1>1, <1>3, LogGrows DEF LeaseIds
<1>6. once \in Seq(Event) /\ once # <<>> /\ LastOf(once) = e
  BY <1>1, <1>3, AppendedLog
<1> HIDE DEF once
<1>7. LogOK(w, Append(once, next), leases, max_attempts[w])
  <2>1. \A k \in 1 .. Len(leases) : leases[k].work = w =>
            /\ leases[k].attempt <= next.attempt
            /\ next.state = "ready" => leases[k].attempt < next.attempt
    BY DEF LeaseIds
  <2> QED BY <1>1, <1>5, <1>6, <2>1, LogGrows
<1>8. LastOf(Append(once, next)) = next
  BY <1>6, AppendedLog
<1> QED BY <1>3, <1>4, <1>5, <1>6, <1>7, <1>8

-----------------------------------------------------------------------------
(* One lemma per action: it preserves the invariant. *)

(* Time, process deaths and the unlocked readings do not touch the tables.   *)
LEMMA StepReading ==
    ASSUME IndInv,
           Tick \/ \E c \in Callers : Crash(c) \/ Begin(c) \/ Return(c)
    PROVE  IndInv'
<1> DEFINE OnlyReads ==
        /\ UNCHANGED <<max_attempts, events, leases, current, formal, receipts, routed,
                       durable>>
        /\ clock' \in Nat
        /\ alive' \subseteq Callers
        /\ call' \in [Callers -> [open : BOOLEAN, now : Nat, due : SUBSET WorkOrders]]
<1>1. OnlyReads
  <2>0. TypeOK
    BY DEF IndInv
  <2>1. CASE Tick
    BY <2>0, <2>1 DEF TypeOK, Tick
  <2>2. ASSUME NEW c \in Callers, Crash(c)
        PROVE  OnlyReads
    BY <2>0, <2>2 DEF TypeOK, Crash, NoCall
  <2>3. ASSUME NEW c \in Callers, Begin(c)
        PROVE  OnlyReads
    <3>1. DueCandidates(clock) \in SUBSET WorkOrders
      BY DEF DueCandidates
    <3> HIDE DEF DueCandidates
    <3> QED BY <2>0, <2>3, <3>1 DEF TypeOK, Begin
  <2>4. ASSUME NEW c \in Callers, Return(c)
        PROVE  OnlyReads
    BY <2>0, <2>4 DEF TypeOK, Return, NoCall
  <2> QED BY <2>1, <2>2, <2>3, <2>4
<1>2. TypeOK'
  BY <1>1 DEF IndInv, TypeOK
<1>3. Tables(events', current', leases', max_attempts')
  BY <1>1 DEF IndInv
<1>4. SentOK(leases)'
  BY <1>1 DEF IndInv, SentOK
<1> QED BY <1>2, <1>3, <1>4 DEF IndInv

(* The typing and the sent calls, for a step that keeps the leases.          *)
LEMMA SameLeasesStep ==
    ASSUME IndInv,
           Tables(events', current', leases', max_attempts'),
           leases' = leases, UNCHANGED <<clock, alive, routed, durable>>,
           call' \in [Callers -> [open : BOOLEAN, now : Nat, due : SUBSET WorkOrders]],
           formal' \in [WorkOrders -> [attempt : Nat, state : {"none", "succeeded", "failed"}]],
           receipts' \subseteq [op : {"complete", "journal", "recover"}, work : WorkOrders,
                                attempt : Nat, lease : Nat,
                                outcome : ResultStates \cup {"expired"}]
    PROVE  IndInv'
<1>1. TypeOK'
  BY DEF IndInv, TypeOK, Tables
<1>2. SentOK(leases)'
  BY DEF IndInv, SentOK
<1> QED BY <1>1, <1>2 DEF IndInv

(* Commit spends the caller's reading and keeps its type.                    *)
LEMMA CommitTyped ==
    ASSUME IndInv, NEW c \in Callers, Commit(c)
    PROVE  /\ call' \in [Callers -> [open : BOOLEAN, now : Nat, due : SUBSET WorkOrders]]
           /\ call[c].now \in Nat
           /\ UNCHANGED <<clock, alive>>
  BY DEF IndInv, TypeOK, Commit, NoCall

(* enqueue opens attempt 1 of a new WorkOrder under a positive cap.          *)
LEMMA StepEnqueue ==
    ASSUME IndInv, NEW w \in WorkOrders, Enqueue(w)
    PROVE  IndInv'
<1> DEFINE e == EventRow(1, "ready", 0, 0, 0, 0)
           cap == max_attempts'[w]
<1>1. /\ Tables(events, current, leases, max_attempts)
      /\ max_attempts[w] = 0
      /\ LogOK(w, events[w], leases, 0)
  BY DEF IndInv, Tables, Enqueue, Enqueued
<1>2. events[w] = <<>> /\ leases \in Seq(Lease)
  BY <1>1 DEF LogOK, Tables
<1>3. /\ max_attempts' \in [WorkOrders -> Nat]
      /\ cap \in Nat \ {0}
      /\ \A x \in WorkOrders \ {w} : max_attempts'[x] = max_attempts[x]
  <2>1. /\ PolicyMaxAttempts \in Nat \ {0}
        /\ StepMaxAttempts[w] \in Nat
        /\ max_attempts \in [WorkOrders -> Nat]
    BY <1>1, PolicyAssumption DEF Tables
  <2> QED BY <2>1 DEF Enqueue
<1>4. e \in Event /\ e.attempt = 1 /\ e.state = "ready"
  BY DEF EventRow, Event, AttemptStates
<1>5. /\ events' = [events EXCEPT ![w] = <<e>>]
      /\ UNCHANGED <<clock, alive, call, leases, current, formal, receipts, routed, durable>>
  BY DEF Enqueue
<1> HIDE DEF e
<1>6. /\ <<e>> \in Seq(Event) /\ Len(<<e>>) = 1 /\ <<e>>[1] = e /\ <<e>> # <<>>
      /\ LastOf(<<e>>) = e
  BY <1>4 DEF LastOf
<1>7. \A k \in 1 .. Len(leases) : leases[k].work # w
  <2> SUFFICES ASSUME NEW k \in 1 .. Len(leases), leases[k].work = w PROVE FALSE
    OBVIOUS
  <2>1. \E i \in 1 .. Len(events[w]) : events[w][i].state = "leased"
    BY <1>1 DEF LogOK
  <2>2. Len(events[w]) = 0
    BY <1>2
  <2> QED BY <2>1, <2>2
<1>8. LogOK(w, <<e>>, leases, cap)
  BY <1>3, <1>4, <1>6, <1>7 DEF LogOK
<1>9. current[w] = NoRow /\ RowOf(<<e>>, leases) = NoRow
  BY <1>1, <1>2, <1>4, <1>6 DEF Tables, RowOf
<1>10. Tables(events', current', leases', max_attempts')
  <2> HIDE DEF cap
  <2>1. events \in [WorkOrders -> Seq(Event)]
    BY <1>1 DEF Tables
  <2>2. events' \in [WorkOrders -> Seq(Event)]
    BY <2>1, <1>5, <1>6
  <2>3. ASSUME NEW x \in WorkOrders
        PROVE  /\ LogOK(x, events'[x], leases', max_attempts'[x])
               /\ current'[x] = RowOf(events'[x], leases')
    <3>1. CASE x = w
      <4>1. events'[x] = <<e>>
        BY <3>1, <2>1, <1>5
      <4> QED BY <3>1, <4>1, <1>5, <1>8, <1>9 DEF cap
    <3>2. CASE x # w
      <4>1. events'[x] = events[x] /\ max_attempts'[x] = max_attempts[x]
        BY <3>2, <2>1, <1>3, <1>5
      <4>2. LogOK(x, events[x], leases, max_attempts[x]) /\ current[x] = RowOf(events[x], leases)
        BY <1>1 DEF Tables
      <4> QED BY <4>1, <4>2, <1>5
    <3> QED BY <3>1, <3>2
  <2> QED BY <1>1, <1>3, <1>5, <2>2, <2>3 DEF Tables
<1> QED BY <1>5, <1>10, SameLeasesStep DEF IndInv, TypeOK

(* The part of claim and sweep that only expires.                            *)
LEMMA StepExpiry ==
    ASSUME IndInv, NEW c \in Callers, Commit(c), NEW among,
           events' = ExpireDueAmong(among, call[c].now),
           current' = IndexAfterExpiry(among, call[c].now),
           UNCHANGED <<max_attempts, leases, formal, receipts, routed, durable>>
    PROVE  IndInv'
<1>1. Tables(events', current', leases', max_attempts')
  BY TablesExpire DEF IndInv
<1>2. /\ call' \in [Callers -> [open : BOOLEAN, now : Nat, due : SUBSET WorkOrders]]
      /\ UNCHANGED <<clock, alive>>
  BY CommitTyped
<1> QED BY <1>1, <1>2, SameLeasesStep DEF IndInv, TypeOK

(* The part of claim that grants a lease, on the logs after the expiry.      *)
LEMMA StepGrant ==
    ASSUME IndInv, NEW c \in Callers, Commit(c), NEW among, NEW w \in WorkOrders,
           NEW seconds \in LeaseRequests,
           Claimable(ExpireDueAmong(among, call[c].now)[w], w, call[c].now),
           GrantLease(c, w, seconds, ExpireDueAmong(among, call[c].now),
                      IndexAfterExpiry(among, call[c].now)),
           UNCHANGED <<max_attempts, formal, receipts, routed, durable>>
    PROVE  IndInv'
<1> DEFINE log == ExpireDueAmong(among, call[c].now)
           index == IndexAfterExpiry(among, call[c].now)
<1>1. /\ call' \in [Callers -> [open : BOOLEAN, now : Nat, due : SUBSET WorkOrders]]
      /\ call[c].now \in Nat
      /\ UNCHANGED <<clock, alive>>
  BY CommitTyped
<1>2. Tables(log, index, leases, max_attempts)
  BY TablesExpire DEF IndInv
<1>3. seconds \in Nat
  BY PolicyAssumption
<1>4. /\ Claimable(log[w], w, call[c].now)
      /\ GrantLease(c, w, seconds, log, index)
  OBVIOUS
<1> HIDE DEF log, index
<1>5. /\ Tables(events', current', leases', max_attempts)
      /\ Len(leases') = Len(leases) + 1
      /\ Len(leases) \in Nat
      /\ \A l \in 1 .. Len(leases) : leases'[l] = leases[l]
  BY <1>1, <1>2, <1>3, <1>4, TablesGrant
<1>6. TypeOK'
  BY <1>1, <1>5 DEF IndInv, TypeOK, Tables
<1>7. SentOK(leases)'
  <2>1. \A l \in 1 .. Len(leases) : l \in 1 .. Len(leases') /\ leases'[l] = leases[l]
    BY <1>5
  <2> QED BY <2>1 DEF IndInv, SentOK
<1> QED BY <1>5, <1>6, <1>7 DEF IndInv

(* claim of one WorkOrder, with its lazy expiry, keeps the tables fitting.   *)
LEMMA StepClaim ==
    ASSUME IndInv, NEW c \in Callers, NEW w \in WorkOrders, NEW seconds \in LeaseRequests,
           Claim(c, w, seconds)
    PROVE  IndInv'
<1> DEFINE among == call[c].due \cup {w}
           log == ExpireDueAmong(among, call[c].now)
           index == IndexAfterExpiry(among, call[c].now)
<1>1. /\ Commit(c)
      /\ UNCHANGED <<max_attempts, formal, receipts, routed, durable>>
      /\ \/ Claimable(log[w], w, call[c].now) /\ GrantLease(c, w, seconds, log, index)
         \/ events' = log /\ current' = index /\ UNCHANGED leases
  BY DEF Claim
<1>2. CASE Claimable(log[w], w, call[c].now) /\ GrantLease(c, w, seconds, log, index)
  <2> HIDE DEF among
  <2> QED BY <1>1, <1>2, StepGrant
<1>3. CASE events' = log /\ current' = index /\ UNCHANGED leases
  <2> HIDE DEF among
  <2> QED BY <1>1, <1>3, StepExpiry
<1> QED BY <1>1, <1>2, <1>3

(* An untargeted claim, which expires every overdue lease, does so too.      *)
LEMMA StepClaimAny ==
    ASSUME IndInv, NEW c \in Callers, NEW seconds \in LeaseRequests, ClaimAny(c, seconds)
    PROVE  IndInv'
<1> DEFINE log == ExpireDueAmong(WorkOrders, call[c].now)
           index == IndexAfterExpiry(WorkOrders, call[c].now)
<1>1. /\ Commit(c)
      /\ UNCHANGED <<max_attempts, formal, receipts, routed, durable>>
      /\ \/ \E w \in WorkOrders : /\ Claimable(log[w], w, call[c].now)
                                  /\ GrantLease(c, w, seconds, log, index)
         \/ events' = log /\ current' = index /\ UNCHANGED leases
  BY DEF ClaimAny
<1>2. ASSUME NEW w \in WorkOrders,
             Claimable(log[w], w, call[c].now), GrantLease(c, w, seconds, log, index)
      PROVE  IndInv'
  BY <1>1, <1>2, StepGrant
<1>3. CASE events' = log /\ current' = index /\ UNCHANGED leases
  BY <1>1, <1>3, StepExpiry
<1> QED BY <1>1, <1>2, <1>3

(* sweep_expired ends the overdue leases its probe named.                    *)
LEMMA StepSweep ==
    ASSUME IndInv, NEW c \in Callers, Sweep(c)
    PROVE  IndInv'
  BY StepExpiry DEF Sweep

(* The lease a valid token names is the last event of its WorkOrder, and no  *)
(* lease of that WorkOrder is newer.                                         *)
LEMMA ActiveFacts ==
    ASSUME IndInv, NEW c \in Callers, NEW l \in LeaseIds, NEW w, w = leases[l].work,
           ActiveLease(c, l)
    PROVE  /\ w \in WorkOrders
           /\ Leased(w)
           /\ Latest(w).lease = l
           /\ Latest(w).attempt = leases[l].attempt
           /\ \A k \in LeaseIds : leases[k].work = w => leases[k].attempt <= leases[l].attempt
<1>1. w \in WorkOrders
  BY LeaseFacts
<1>2. Leased(w) /\ Latest(w).lease = l /\ Latest(w).attempt = leases[l].attempt
  BY DEF ActiveLease
<1> QED BY <1>1, <1>2, LeasedFacts

(* The late branch of a holder's method ends the attempt of its own lease.   *)
LEMMA StepExpireOnUse ==
    ASSUME IndInv, NEW c \in Callers, NEW l \in LeaseIds, Commit(c), ActiveLease(c, l),
           ExpireOnUse(c, l), UNCHANGED <<max_attempts, durable>>
    PROVE  IndInv'
<1> DEFINE w == leases[l].work
<1>1. w \in WorkOrders /\ Leased(w)
  BY ActiveFacts
<1>2. /\ events' = [events EXCEPT ![w] = ExpireOne(events[w], w)]
      /\ current' = [current EXCEPT ![w] = NoRow]
      /\ UNCHANGED <<leases, formal, receipts, routed>>
  BY DEF ExpireOnUse
<1> HIDE DEF w
<1>3. /\ LogOK(w, ExpireOne(events[w], w), leases, max_attempts[w])
      /\ LastOf(ExpireOne(events[w], w)).state # "leased"
  BY <1>1, LeasedFacts, LogExpires
<1>4. Tables(events', current', leases', max_attempts')
  BY <1>1, <1>2, <1>3, ReleaseStep
<1>5. /\ call' \in [Callers -> [open : BOOLEAN, now : Nat, due : SUBSET WorkOrders]]
      /\ UNCHANGED <<clock, alive>>
  BY CommitTyped
<1> QED BY <1>2, <1>4, <1>5, SameLeasesStep DEF IndInv, TypeOK

(* A call sent under an existing revision of an existing lease.              *)
LEMMA SentStep ==
    ASSUME IndInv, NEW l \in LeaseIds, NEW v \in 1 .. Len(leases[l].expires),
           routed' = routed \cup {[lease |-> l, version |-> v]},
           UNCHANGED <<clock, alive, max_attempts, events, leases, current, formal,
                       receipts, durable>>,
           call' \in [Callers -> [open : BOOLEAN, now : Nat, due : SUBSET WorkOrders]]
    PROVE  IndInv'
<1>1. l \in Nat /\ v \in Nat
  <2>1. Len(leases[l].expires) \in Nat /\ leases \in Seq(Lease)
    BY LeaseFacts
  <2>2. Len(leases) \in Nat
    BY <2>1, LenProperties
  <2> QED BY <2>1, <2>2 DEF LeaseIds
<1>2. TypeOK'
  BY <1>1 DEF IndInv, TypeOK
<1>3. Tables(events', current', leases', max_attempts')
  BY DEF IndInv
<1>4. SentOK(leases)'
  BY DEF IndInv, SentOK, LeaseIds
<1> QED BY <1>2, <1>3, <1>4 DEF IndInv

(* validate_lease_for_use records a send under the newest revision.          *)
LEMMA StepValidateLease ==
    ASSUME IndInv, NEW c \in Callers, NEW l \in LeaseIds,
           NEW v \in 1 .. Len(leases[l].expires), ValidateLease(c, l, v)
    PROVE  IndInv'
<1>1. /\ Commit(c)
      /\ ActiveLease(c, l)
      /\ UNCHANGED <<max_attempts, durable>>
      /\ \/ ExpireOnUse(c, l)
         \/ /\ routed' = routed \cup {[lease |-> l, version |-> v]}
            /\ UNCHANGED <<events, leases, current, formal, receipts>>
  BY DEF ValidateLease
<1>2. /\ call' \in [Callers -> [open : BOOLEAN, now : Nat, due : SUBSET WorkOrders]]
      /\ UNCHANGED <<clock, alive>>
  BY <1>1, CommitTyped
<1> QED BY <1>1, <1>2, StepExpireOnUse, SentStep

(* A model call is sent under the revision its lease was claimed with.       *)
LEMMA StepDispatch ==
    ASSUME IndInv, NEW c \in Callers, NEW l \in LeaseIds, Dispatch(c, l)
    PROVE  IndInv'
<1>1. 1 \in 1 .. Len(leases[l].expires)
  BY LeaseFacts
<1> QED BY <1>1, SentStep DEF Dispatch, IndInv, TypeOK

(* A durable answer names the revision its call was sent under.              *)
LEMMA StepRespond ==
    ASSUME IndInv, NEW r \in routed, NEW outcome \in Outcomes, NEW delay \in RetryDelays,
           Respond(r, outcome, delay)
    PROVE  IndInv'
<1> DEFINE d == [lease |-> r.lease, version |-> r.version, outcome |-> outcome,
                 recorded_at |-> clock,
                 retry_at |-> IF outcome = "retryable" THEN clock + delay ELSE 0]
<1>1. /\ durable' = durable \cup {d}
      /\ UNCHANGED <<clock, alive, call, max_attempts, events, leases, current, formal,
                     receipts, routed>>
  BY DEF Respond
<1>2. d \in [lease : Nat, version : Nat, outcome : ResultStates, recorded_at : Nat,
             retry_at : Nat]
  <2>1. outcome \in ResultStates /\ delay \in Nat
    BY PolicyAssumption DEF ResultStates
  <2>2. r.lease \in Nat /\ r.version \in Nat /\ clock \in Nat
    BY DEF IndInv, TypeOK
  <2> QED BY <2>1, <2>2
<1>3. d.lease = r.lease /\ d.version = r.version
  OBVIOUS
<1> HIDE DEF d
<1>4. TypeOK'
  BY <1>1, <1>2 DEF IndInv, TypeOK
<1>5. Tables(events', current', leases', max_attempts')
  BY <1>1 DEF IndInv
<1>6. SentOK(leases)'
  BY <1>1, <1>3 DEF IndInv, SentOK
<1> QED BY <1>4, <1>5, <1>6 DEF IndInv

(* A lease table in which one lease was replaced.                            *)
LEMMA LeaseReplaced ==
    ASSUME NEW ls \in Seq(Lease), NEW l \in 1 .. Len(ls), NEW x \in Lease
    PROVE  /\ [ls EXCEPT ![l] = x] \in Seq(Lease)
           /\ Len([ls EXCEPT ![l] = x]) = Len(ls)
           /\ \A k \in 1 .. Len(ls) : [ls EXCEPT ![l] = x][k] = IF k = l THEN x ELSE ls[k]
  BY ExceptSeq

(* A renewal that extends the lease: one revision more, and the index row of *)
(* the WorkOrder moves with it.                                              *)
LEMMA StepExtend ==
    ASSUME IndInv, NEW c \in Callers, NEW l \in LeaseIds, NEW expiry \in Nat, Commit(c),
           leases' = [leases EXCEPT ![l].expires = Append(@, expiry)],
           current' = [w \in WorkOrders |-> IF current[w].lease = l
                                            THEN [current[w] EXCEPT !.expires = expiry]
                                            ELSE current[w]],
           UNCHANGED <<max_attempts, events, formal, receipts, routed, durable>>
    PROVE  IndInv'
<1> DEFINE revs == Append(leases[l].expires, expiry)
           longer == [leases[l] EXCEPT !.expires = revs]
<1>1. /\ leases \in Seq(Lease)
      /\ leases[l] \in Lease
      /\ leases[l].expires \in Seq(Nat)
      /\ Len(leases[l].expires) \in Nat
      /\ l \in 1 .. Len(leases)
  BY LeaseFacts DEF LeaseIds
<1>2. /\ revs \in Seq(Nat) /\ revs # <<>> /\ LastOf(revs) = expiry
      /\ Len(revs) = Len(leases[l].expires) + 1
  BY <1>1, AppendedLog
<1> HIDE DEF revs
<1>3. /\ longer \in Lease
      /\ longer.work = leases[l].work
      /\ longer.attempt = leases[l].attempt
      /\ longer.expires = revs
  BY <1>1, <1>2 DEF Lease
<1>4. leases' = [leases EXCEPT ![l] = longer]
  BY DEF revs
<1> HIDE DEF longer
<1>5. /\ leases' \in Seq(Lease)
      /\ Len(leases') = Len(leases)
      /\ Len(leases) \in Nat
      /\ \A k \in 1 .. Len(leases) : leases'[k] = IF k = l THEN longer ELSE leases[k]
  <2>1. Len(leases) \in Nat
    BY <1>1, LenProperties
  <2> DEFINE new == [leases EXCEPT ![l] = longer]
  <2>2. /\ new \in Seq(Lease)
        /\ Len(new) = Len(leases)
        /\ \A k \in 1 .. Len(leases) : new[k] = IF k = l THEN longer ELSE leases[k]
    BY <1>1, <1>3, LeaseReplaced
  <2>3. leases' = new
    BY <1>4
  <2> HIDE DEF new
  <2> QED BY <2>1, <2>2, <2>3
<1>6. \A k \in 1 .. Len(leases) : /\ leases'[k].work = leases[k].work
                                  /\ leases'[k].attempt = leases[k].attempt
  BY <1>3, <1>5
<1>7. LeasesOK(leases')
  <2>1. LeasesOK(leases)
    BY DEF IndInv, Tables
  <2>2. \A k \in 1 .. Len(leases') : leases'[k].expires # <<>>
    <3> SUFFICES ASSUME NEW k \in 1 .. Len(leases) PROVE leases'[k].expires # <<>>
      BY <1>5
    <3>1. leases[k].expires # <<>>
      BY <2>1 DEF LeasesOK
    <3> QED BY <3>1, <1>2, <1>3, <1>5
  <2> QED BY <2>1, <2>2, <1>5, <1>6 DEF LeasesOK
<1>8. ASSUME NEW w \in WorkOrders
      PROVE  /\ LogOK(w, events[w], leases', max_attempts[w])
             /\ current'[w] \in [lease : Nat, expires : Nat, reserved : BOOLEAN]
             /\ current'[w] = RowOf(events[w], leases')
  <2>1. /\ LogOK(w, events[w], leases, max_attempts[w])
        /\ current[w] = RowOf(events[w], leases)
        /\ current[w] \in [lease : Nat, expires : Nat, reserved : BOOLEAN]
        /\ max_attempts[w] \in Nat
    BY DEF IndInv, Tables
  <2>2. LogOK(w, events[w], leases', max_attempts[w])
    BY <2>1, <1>5, <1>6, LogSameLeases
  <2>3. current'[w] = IF current[w].lease = l
                      THEN [current[w] EXCEPT !.expires = expiry] ELSE current[w]
    OBVIOUS
  <2>4. CASE events[w] # <<>> /\ LastOf(events[w]).state = "leased"
    <3> DEFINE k == LastOf(events[w]).lease
               last == LastOf(events[w])
    <3>1. k \in 1 .. Len(leases)
      BY <2>1, <2>4, <1>1, LeasedLast
    <3>2. /\ current[w] = [lease |-> k, expires |-> LastOf(leases[k].expires),
                           reserved |-> last.reserved # 0]
          /\ RowOf(events[w], leases')
                = [lease |-> k, expires |-> LastOf(leases'[k].expires),
                   reserved |-> last.reserved # 0]
      BY <2>1, <2>4 DEF RowOf, IndexRow
    <3> HIDE DEF k, last
    <3>3. CASE k = l
      <4>1. LastOf(leases'[k].expires) = expiry
        BY <3>1, <3>3, <1>2, <1>3, <1>5
      <4>2. current'[w] = [lease |-> k, expires |-> expiry, reserved |-> last.reserved # 0]
        BY <2>3, <3>2, <3>3
      <4> QED BY <2>1, <2>2, <2>3, <3>2, <4>1, <4>2
    <3>4. CASE k # l
      <4>1. leases'[k] = leases[k]
        BY <3>1, <3>4, <1>5
      <4>2. current[w].lease = k
        BY <3>2
      <4>3. current'[w] = current[w]
        BY <2>3, <3>4, <4>2
      <4> QED BY <2>1, <2>2, <3>2, <4>1, <4>3
    <3> QED BY <3>3, <3>4
  <2>5. CASE ~(events[w] # <<>> /\ LastOf(events[w]).state = "leased")
    <3>1. current[w] = NoRow /\ RowOf(events[w], leases') = NoRow
      BY <2>1, <2>5 DEF RowOf
    <3>2. current[w].lease # l
      BY <3>1, <1>1, <1>5 DEF NoRow
    <3> QED BY <2>1, <2>2, <2>3, <3>1, <3>2
  <2> QED BY <2>4, <2>5
<1>9. current' \in [WorkOrders -> [lease : Nat, expires : Nat, reserved : BOOLEAN]]
  BY <1>8
<1>10. Tables(events', current', leases', max_attempts')
  <2>1. events \in [WorkOrders -> Seq(Event)] /\ max_attempts \in [WorkOrders -> Nat]
    BY DEF IndInv, Tables
  <2> QED BY <2>1, <1>5, <1>7, <1>8, <1>9 DEF Tables
<1>11. /\ call' \in [Callers -> [open : BOOLEAN, now : Nat, due : SUBSET WorkOrders]]
       /\ UNCHANGED <<clock, alive>>
  BY CommitTyped
<1>12. TypeOK'
  BY <1>10, <1>11 DEF IndInv, TypeOK, Tables
<1>13. SentOK(leases)'
  <2>1. \A k \in 1 .. Len(leases) : \A v \in 1 .. Len(leases[k].expires) :
            v \in 1 .. Len(leases'[k].expires)
    <3> SUFFICES ASSUME NEW k \in 1 .. Len(leases), NEW v \in 1 .. Len(leases[k].expires)
                 PROVE  v \in 1 .. Len(leases'[k].expires)
      OBVIOUS
    <3>1. CASE k = l
      BY <3>1, <1>1, <1>2, <1>3, <1>5
    <3>2. CASE k # l
      BY <3>2, <1>5
    <3> QED BY <3>1, <3>2
  <2> QED BY <2>1, <1>5 DEF IndInv, SentOK
<1> QED BY <1>10, <1>12, <1>13 DEF IndInv

(* renew appends a revision to one lease and moves the index row with it.    *)
LEMMA StepRenew ==
    ASSUME IndInv, NEW c \in Callers, NEW l \in LeaseIds, NEW seconds \in RenewRequests,
           Renew(c, l, seconds)
    PROVE  IndInv'
<1> DEFINE deadline == leases[l].issued_at + MaxTotalLeaseSeconds
           wanted == ExpiresAt(l) + seconds
           expiry == IF wanted < deadline THEN wanted ELSE deadline
<1>1. expiry \in Nat
  <2>1. leases[l].issued_at \in Nat /\ ExpiresAt(l) \in Nat
    BY LeaseFacts
  <2>2. seconds \in Nat /\ MaxTotalLeaseSeconds \in Nat
    BY PolicyAssumption
  <2> QED BY <2>1, <2>2
<1>2. /\ Commit(c)
      /\ ActiveLease(c, l)
      /\ UNCHANGED <<max_attempts, durable>>
      /\ \/ ExpireOnUse(c, l)
         \/ /\ leases' = [leases EXCEPT ![l].expires = Append(@, expiry)]
            /\ current' = [w \in WorkOrders |-> IF current[w].lease = l
                                                THEN [current[w] EXCEPT !.expires = expiry]
                                                ELSE current[w]]
            /\ UNCHANGED <<events, formal, receipts, routed>>
  BY DEF Renew
<1> HIDE DEF expiry
<1> QED BY <1>1, <1>2, StepExpireOnUse, StepExtend

(* The formal result and the receipt of an accepted outcome.                 *)
LEMMA OutcomeTyped ==
    ASSUME IndInv, NEW l \in LeaseIds, NEW w, w = leases[l].work,
           NEW op \in {"complete", "journal", "recover"}
    PROVE  /\ \A outcome \in ResultStates :
                 FormalAfter(w, leases[l].attempt, outcome)
                    \in [WorkOrders -> [attempt : Nat, state : {"none", "succeeded", "failed"}]]
           /\ \A outcome \in ResultStates \cup {"expired"} :
                 receipts \cup {Receipt(op, l, outcome)}
                    \subseteq [op : {"complete", "journal", "recover"}, work : WorkOrders,
                               attempt : Nat, lease : Nat,
                               outcome : ResultStates \cup {"expired"}]
<1>1. /\ w \in WorkOrders /\ leases[l].attempt \in Nat /\ leases \in Seq(Lease)
  BY LeaseFacts
<1>2. l \in Nat
  BY <1>1, LenProperties DEF LeaseIds
<1>3. \A outcome \in ResultStates \cup {"expired"} :
          Receipt(op, l, outcome)
             \in [op : {"complete", "journal", "recover"}, work : WorkOrders,
                  attempt : Nat, lease : Nat, outcome : ResultStates \cup {"expired"}]
  BY <1>1, <1>2 DEF Receipt
<1>4. formal \in [WorkOrders -> [attempt : Nat, state : {"none", "succeeded", "failed"}]]
      /\ receipts \subseteq [op : {"complete", "journal", "recover"}, work : WorkOrders,
                             attempt : Nat, lease : Nat,
                             outcome : ResultStates \cup {"expired"}]
  BY DEF IndInv, TypeOK
<1>5. \A outcome \in ResultStates :
          FormalAfter(w, leases[l].attempt, outcome)
             \in [WorkOrders -> [attempt : Nat, state : {"none", "succeeded", "failed"}]]
  BY <1>1, <1>4 DEF FormalAfter, ResultStates
<1> QED BY <1>3, <1>4, <1>5

(* An outcome of a lease that no newer lease of its WorkOrder follows.       *)
LEMMA StepOutcome ==
    ASSUME IndInv, NEW l \in LeaseIds, NEW w, w = leases[l].work,
           NEW n, n = leases[l].attempt,
           \A k \in LeaseIds : leases[k].work = w => leases[k].attempt <= n,
           NEW v \in Nat, NEW outcome \in ResultStates,
           NEW next \in Event, next.attempt <= max_attempts[w],
           next.state \in {"ready", "failed"},
           \A k \in LeaseIds : leases[k].work = w =>
                /\ leases[k].attempt <= next.attempt
                /\ next.state = "ready" => leases[k].attempt < next.attempt,
           NEW op \in {"complete", "journal", "recover"},
           events' = [events EXCEPT ![w] =
                         OutcomeLog(events[w], w, n, l, v, outcome, next)],
           formal' = FormalAfter(w, n, outcome),
           current' = [current EXCEPT ![w] = NoRow],
           receipts' = receipts \cup {Receipt(op, l, outcome)},
           call' \in [Callers -> [open : BOOLEAN, now : Nat, due : SUBSET WorkOrders]],
           UNCHANGED <<clock, alive, leases, max_attempts, routed, durable>>
    PROVE  IndInv'
<1>1. w \in WorkOrders
  BY LeaseFacts
<1> DEFINE new == OutcomeLog(events[w], w, n, l, v, outcome, next)
<1>2. LogOK(w, new, leases, max_attempts[w]) /\ LastOf(new).state # "leased"
  BY OutcomeLogOK
<1> HIDE DEF new
<1>3. Tables(events', current', leases', max_attempts')
  BY <1>1, <1>2, ReleaseStep DEF new
<1>4. /\ formal' \in [WorkOrders -> [attempt : Nat, state : {"none", "succeeded", "failed"}]]
      /\ receipts' \subseteq [op : {"complete", "journal", "recover"}, work : WorkOrders,
                              attempt : Nat, lease : Nat,
                              outcome : ResultStates \cup {"expired"}]
  BY OutcomeTyped
<1> QED BY <1>3, <1>4, SameLeasesStep

(* NextEvent may follow the newest attempt of a WorkOrder.                   *)
LEMMA NextFollows ==
    ASSUME IndInv, NEW l \in LeaseIds, NEW w, w = leases[l].work,
           NEW n, n = leases[l].attempt,
           \A k \in LeaseIds : leases[k].work = w => leases[k].attempt <= n,
           NEW at \in Nat
    PROVE  /\ NextEvent(w, n, at) \in Event
           /\ NextEvent(w, n, at).attempt <= max_attempts[w]
           /\ NextEvent(w, n, at).state \in {"ready", "failed"}
           /\ \A k \in LeaseIds : leases[k].work = w =>
                /\ leases[k].attempt <= NextEvent(w, n, at).attempt
                /\ NextEvent(w, n, at).state = "ready" =>
                      leases[k].attempt < NextEvent(w, n, at).attempt
<1> DEFINE next == NextEvent(w, n, at)
<1>1. n \in Nat \ {0} /\ n <= max_attempts[w] /\ max_attempts[w] \in Nat
  BY LeaseFacts
<1>2. /\ next \in Event
      /\ next.attempt <= max_attempts[w]
      /\ next.attempt >= n
      /\ next.state \in {"ready", "failed"}
      /\ next.state = "ready" => next.attempt > n
  BY <1>1, NextEventFits
<1> HIDE DEF next
<1>3. next.attempt \in Nat
  BY <1>2 DEF Event
<1>4. \A k \in LeaseIds : leases[k].attempt \in Nat
  BY LeaseFacts
<1>5. \A k \in LeaseIds : leases[k].work = w =>
          /\ leases[k].attempt <= next.attempt
          /\ next.state = "ready" => leases[k].attempt < next.attempt
  BY <1>1, <1>2, <1>3, <1>4
<1> QED BY <1>2, <1>5 DEF next

(* complete preserves the invariant. *)
LEMMA StepComplete ==
    ASSUME IndInv, NEW c \in Callers, NEW l \in LeaseIds, NEW outcome \in Outcomes,
           NEW at \in RetryTimes(c), Complete(c, l, outcome, at)
    PROVE  IndInv'
<1> DEFINE w == leases[l].work
           n == leases[l].attempt
           v == Len(leases[l].expires)
           next == NextEvent(w, n, at)
<1>1. /\ Commit(c)
      /\ ActiveLease(c, l)
      /\ UNCHANGED <<max_attempts, durable>>
      /\ \/ ExpireOnUse(c, l)
         \/ /\ events' = [events EXCEPT ![w] =
                             OutcomeLog(events[w], w, n, l, v, outcome, next)]
            /\ formal' = FormalAfter(w, n, outcome)
            /\ current' = [current EXCEPT ![w] = NoRow]
            /\ receipts' = receipts \cup {Receipt("complete", l, outcome)}
            /\ UNCHANGED <<leases, routed>>
  BY DEF Complete
<1>2. /\ call' \in [Callers -> [open : BOOLEAN, now : Nat, due : SUBSET WorkOrders]]
      /\ call[c].now \in Nat
      /\ UNCHANGED <<clock, alive>>
  BY <1>1, CommitTyped
<1>3. at \in Nat
  BY <1>2, PolicyAssumption DEF RetryTimes
<1>4. outcome \in ResultStates
  BY PolicyAssumption DEF ResultStates
<1>5. v \in Nat
  BY LeaseFacts
<1>6. \A k \in LeaseIds : leases[k].work = w => leases[k].attempt <= n
  BY <1>1, ActiveFacts
<1> HIDE DEF w, n, v, next
<1>7. /\ next \in Event
      /\ next.attempt <= max_attempts[w]
      /\ next.state \in {"ready", "failed"}
      /\ \A k \in LeaseIds : leases[k].work = w =>
           /\ leases[k].attempt <= next.attempt
           /\ next.state = "ready" => leases[k].attempt < next.attempt
  BY <1>3, <1>6, NextFollows DEF next, w, n
<1>8. CASE ExpireOnUse(c, l)
  BY <1>1, <1>8, StepExpireOnUse
<1>9. CASE ~ExpireOnUse(c, l)
  <2>1. w = leases[l].work /\ n = leases[l].attempt
    BY DEF w, n
  <2> QED BY <1>1, <1>2, <1>4, <1>5, <1>6, <1>7, <1>9, <2>1, StepOutcome
<1> QED BY <1>8, <1>9

(* Until a later attempt is claimed, no lease of the WorkOrder is newer than *)
(* the one the journaled completion was written under.                       *)
LEMMA NotReclaimed ==
    ASSUME IndInv, NEW d \in durable, d.lease \in LeaseIds, ~Reclaimed(d)
    PROVE  \A k \in LeaseIds : leases[k].work = leases[d.lease].work =>
              leases[k].attempt <= leases[d.lease].attempt
<1> DEFINE w == leases[d.lease].work
           n == leases[d.lease].attempt
<1>1. /\ LogOK(w, events[w], leases, max_attempts[w])
      /\ events[w] \in Seq(Event)
      /\ n \in Nat
  BY LeaseFacts
<1>2. \A i \in 1 .. Len(events[w]) :
          ~(events[w][i].attempt > n /\ events[w][i].state = "leased")
  BY DEF Reclaimed
<1> HIDE DEF w, n
<1> SUFFICES ASSUME NEW k \in LeaseIds, leases[k].work = w PROVE leases[k].attempt <= n
  BY DEF w, n
<1>3. PICK i \in 1 .. Len(events[w]) : events[w][i].state = "leased" /\ events[w][i].lease = k
  BY <1>1 DEF LogOK, LeaseIds
<1>4. leases[k].attempt = events[w][i].attempt
  BY <1>1, <1>3 DEF LogOK
<1>5. leases[k].attempt \in Nat
  BY LeaseFacts
<1> QED BY <1>1, <1>2, <1>3, <1>4, <1>5

(* reconcile_journaled_completion preserves the invariant. *)
LEMMA StepReconcileJournaled ==
    ASSUME IndInv, NEW d \in durable, ReconcileJournaled(d)
    PROVE  IndInv'
<1> DEFINE l == d.lease
           w == leases[l].work
           n == leases[l].attempt
           restored == EventRow(Latest(w).attempt, Latest(w).state, 0, 0, 0,
                                Latest(w).not_before)
           next == IF SameLiveAttempt(d) THEN NextEvent(w, n, d.retry_at) ELSE restored
<1>1. /\ ~Reclaimed(d)
      /\ SameLiveAttempt(d) \/ ExpiredUnclaimed(d)
      /\ events' = [events EXCEPT ![w] =
                       OutcomeLog(events[w], w, n, l, d.version, d.outcome, next)]
      /\ formal' = FormalAfter(w, n, d.outcome)
      /\ current' = [current EXCEPT ![w] = NoRow]
      /\ receipts' = receipts \cup {Receipt("journal", l, d.outcome)}
      /\ UNCHANGED <<clock, alive, call, max_attempts, leases, routed, durable>>
  BY DEF ReconcileJournaled
<1>2. /\ l \in LeaseIds
      /\ d.outcome \in ResultStates
      /\ d.version \in Nat
      /\ d.retry_at \in Nat
  BY DEF IndInv, TypeOK, SentOK, LeaseIds
<1>3. \A k \in LeaseIds : leases[k].work = w => leases[k].attempt <= n
  BY <1>1, <1>2, NotReclaimed
<1>4. /\ LogOK(w, events[w], leases, max_attempts[w])
      /\ max_attempts[w] \in Nat
      /\ leases \in Seq(Lease)
      /\ events[w] # <<>>
  BY <1>2, LeaseFacts
<1>5. ExpiredUnclaimed(d) => Latest(w).state \in {"ready", "failed"}
  BY DEF ExpiredUnclaimed
<1>6. call' \in [Callers -> [open : BOOLEAN, now : Nat, due : SUBSET WorkOrders]]
  BY <1>1 DEF IndInv, TypeOK
<1> HIDE DEF l, w, n
<1>7. /\ restored \in Event
      /\ restored.attempt = Latest(w).attempt
      /\ restored.state = Latest(w).state
  <2>1. Latest(w) \in Event
    BY <1>4, LeasedLast DEF Latest
  <2> QED BY <2>1 DEF EventRow, Event
<1> HIDE DEF restored
<1>8. /\ next \in Event
      /\ next.attempt <= max_attempts[w]
      /\ next.state \in {"ready", "failed"}
      /\ \A k \in LeaseIds : leases[k].work = w =>
           /\ leases[k].attempt <= next.attempt
           /\ next.state = "ready" => leases[k].attempt < next.attempt
  <2>1. CASE SameLiveAttempt(d)
    BY <2>1, <1>2, <1>3, NextFollows DEF next, w, n
  <2>2. CASE ~SameLiveAttempt(d)
    <3>1. /\ next = restored
          /\ Latest(w).state \in {"ready", "failed"}
      BY <2>2, <1>1, <1>5
    <3>2. Latest(w).attempt <= max_attempts[w]
      BY <1>4, LeasedLast DEF Latest
    <3>3. \A k \in LeaseIds : leases[k].work = w =>
              /\ leases[k].attempt <= Latest(w).attempt
              /\ Latest(w).state = "ready" => leases[k].attempt < Latest(w).attempt
      BY <1>4 DEF LogOK, Latest, LeaseIds
    <3> QED BY <3>1, <3>2, <3>3, <1>7
  <2> QED BY <2>1, <2>2
<1> HIDE DEF next
<1>9. w = leases[l].work /\ n = leases[l].attempt
  BY DEF w, n
<1> QED BY <1>1, <1>2, <1>3, <1>6, <1>8, <1>9, StepOutcome

(* The lease a recovery names is the newest of its WorkOrder.                *)
LEMMA ClaimFacts ==
    ASSUME IndInv, NEW l \in LeaseIds, NEW w, w = leases[l].work, CurrentClaim(l)
    PROVE  /\ w \in WorkOrders
           /\ Leased(w)
           /\ LogOK(w, events[w], leases, max_attempts[w])
           /\ max_attempts[w] \in Nat
           /\ leases \in Seq(Lease)
           /\ events[w] # <<>>
           /\ LastOf(events[w]).state = "leased"
           /\ Latest(w).attempt = leases[l].attempt
           /\ l \in Nat \ {0}
           /\ \A k \in LeaseIds : leases[k].work = w => leases[k].attempt <= leases[l].attempt
<1>1. w \in WorkOrders /\ leases \in Seq(Lease)
  BY LeaseFacts
<1>2. Leased(w) /\ Latest(w).attempt = leases[l].attempt
  BY DEF CurrentClaim
<1>3. l \in Nat \ {0}
  BY <1>1, LenProperties DEF LeaseIds
<1> QED BY <1>1, <1>2, <1>3, LeasedFacts

(* reserve_interrupted_model_recovery preserves the invariant. *)
LEMMA StepReserveRecovery ==
    ASSUME IndInv, NEW d \in durable, NEW h \in Reservations, ReserveRecovery(d, h)
    PROVE  IndInv'
<1> DEFINE l == d.lease
           w == leases[l].work
           e == EventRow(leases[l].attempt, "leased", l, 1, h, 0)
           new == Append(events[w], e)
           row == IndexRow(e, ExpiresAt(l))
<1>1. /\ CurrentClaim(l)
      /\ events' = [events EXCEPT ![w] = new]
      /\ current' = [current EXCEPT ![w] = row]
      /\ UNCHANGED <<clock, alive, call, max_attempts, leases, formal, receipts, routed,
                     durable>>
  BY DEF ReserveRecovery, Interrupted
<1>2. l \in LeaseIds
  BY DEF IndInv, SentOK, LeaseIds
<1>3. /\ w \in WorkOrders
      /\ LogOK(w, events[w], leases, max_attempts[w])
      /\ max_attempts[w] \in Nat
      /\ leases \in Seq(Lease)
      /\ events[w] # <<>>
      /\ l \in Nat \ {0}
      /\ \A k \in LeaseIds : leases[k].work = w => leases[k].attempt <= leases[l].attempt
  BY <1>1, <1>2, ClaimFacts
<1>4. /\ leases[l].attempt \in Nat \ {0}
      /\ leases[l].attempt <= max_attempts[w]
      /\ ExpiresAt(l) \in Nat
      /\ events[w] \in Seq(Event)
  BY <1>2, LeaseFacts
<1>5. h \in Nat \ {0}
  BY PolicyAssumption
<1>6. /\ e \in Event
      /\ e.attempt = leases[l].attempt /\ e.state = "leased" /\ e.lease = l
      /\ e.reserved = h
  BY <1>3, <1>4, <1>5 DEF EventRow, Event, AttemptStates
<1>7. row = [lease |-> l, expires |-> ExpiresAt(l), reserved |-> TRUE]
  BY <1>5, <1>6 DEF IndexRow
<1> HIDE DEF e
<1>8. new # <<>> /\ LastOf(new) = e
  BY <1>4, <1>6, AppendedLog
<1>9. LogOK(w, new, leases, max_attempts[w])
  <2>1. /\ e.lease \in 1 .. Len(leases)
        /\ leases[e.lease].work = w
        /\ leases[e.lease].attempt = e.attempt
    BY <1>2, <1>6 DEF LeaseIds
  <2>2. \A k \in 1 .. Len(leases) : leases[k].work = w =>
            /\ leases[k].attempt <= e.attempt
            /\ e.state = "ready" => leases[k].attempt < e.attempt
    BY <1>3, <1>6 DEF LeaseIds
  <2> HIDE DEF w
  <2> QED BY <2>1, <2>2, <1>3, <1>4, <1>6, LogGrows
<1> HIDE DEF new
<1>10. /\ row = RowOf(new, leases)
       /\ row \in [lease : Nat, expires : Nat, reserved : BOOLEAN]
  <2>1. RowOf(new, leases) = IndexRow(e, LastOf(leases[l].expires))
    BY <1>6, <1>8 DEF RowOf
  <2>2. row = RowOf(new, leases)
    BY <2>1 DEF ExpiresAt
  <2>3. row \in [lease : Nat, expires : Nat, reserved : BOOLEAN]
    BY <1>3, <1>4, <1>7
  <2> QED BY <2>2, <2>3
<1> HIDE DEF row
<1>11. Tables(events', current', leases', max_attempts')
  <2>1. Tables(events, current, leases, max_attempts)
    BY DEF IndInv
  <2>2. Tables([events EXCEPT ![w] = new], [current EXCEPT ![w] = row], leases, max_attempts)
    <3> HIDE DEF w
    <3> QED BY <2>1, <1>3, <1>9, <1>10, OneLogChanges
  <2> QED BY <2>2, <1>1
<1> QED BY <1>1, <1>11, SameLeasesStep DEF IndInv, TypeOK

(* reconcile_interrupted_model_attempt(durable_completion) preserves the     *)
(* invariant.                                                                *)
LEMMA StepReconcileDurable ==
    ASSUME IndInv, NEW d \in durable, NEW h \in Reservations, ReconcileDurable(d, h)
    PROVE  IndInv'
<1> DEFINE l == d.lease
           w == leases[l].work
           n == leases[l].attempt
           e == EventRow(n, d.outcome, l, 1, 0, 0)
           new == Append(events[w], e)
<1>1. /\ CurrentClaim(l)
      /\ events' = [events EXCEPT ![w] = new]
      /\ formal' = FormalAfter(w, n, d.outcome)
      /\ current' = [current EXCEPT ![w] = NoRow]
      /\ receipts' = receipts \cup {Receipt("recover", l, d.outcome)}
      /\ UNCHANGED <<clock, alive, call, max_attempts, leases, routed, durable>>
  BY DEF ReconcileDurable, Interrupted
<1>2. l \in LeaseIds /\ d.outcome \in ResultStates
  BY DEF IndInv, TypeOK, SentOK, LeaseIds
<1>3. /\ w \in WorkOrders
      /\ LogOK(w, events[w], leases, max_attempts[w])
      /\ max_attempts[w] \in Nat
      /\ leases \in Seq(Lease)
      /\ events[w] # <<>>
      /\ l \in Nat
      /\ \A k \in LeaseIds : leases[k].work = w => leases[k].attempt <= n
  BY <1>1, <1>2, ClaimFacts
<1>4. n \in Nat \ {0} /\ n <= max_attempts[w] /\ events[w] \in Seq(Event)
  BY <1>2, LeaseFacts
<1>5. e \in Event /\ e.attempt = n /\ e.state \notin {"leased", "ready"}
  BY <1>2, <1>3, <1>4 DEF EventRow, Event, AttemptStates, ResultStates
<1>6. /\ formal' \in [WorkOrders -> [attempt : Nat, state : {"none", "succeeded", "failed"}]]
      /\ receipts' \subseteq [op : {"complete", "journal", "recover"}, work : WorkOrders,
                              attempt : Nat, lease : Nat,
                              outcome : ResultStates \cup {"expired"}]
  BY <1>1, <1>2, OutcomeTyped
<1> HIDE DEF e, n, w, l
<1>7. LogOK(w, new, leases, max_attempts[w])
  BY <1>3, <1>4, <1>5, LogGrows DEF LeaseIds
<1>8. LastOf(new) = e
  BY <1>4, <1>5, AppendedLog
<1> HIDE DEF new
<1>9. Tables(events', current', leases', max_attempts')
  BY <1>1, <1>3, <1>5, <1>7, <1>8, ReleaseStep
<1> QED BY <1>1, <1>6, <1>9, SameLeasesStep DEF IndInv, TypeOK

(* reconcile_interrupted_model_attempt(undispatched) preserves the invariant. *)
LEMMA StepReconcileUndispatched ==
    ASSUME IndInv, NEW l \in LeaseIds, ReconcileUndispatched(l)
    PROVE  IndInv'
<1> DEFINE w == leases[l].work
           n == leases[l].attempt
           e == EventRow(n, "expired", l, 1, 0, 0)
           new == Append(Append(events[w], e), NextEvent(w, n, 0))
<1>1. /\ CurrentClaim(l)
      /\ events' = [events EXCEPT ![w] = new]
      /\ current' = [current EXCEPT ![w] = NoRow]
      /\ receipts' = receipts \cup {Receipt("recover", l, "expired")}
      /\ UNCHANGED <<clock, alive, call, max_attempts, leases, formal, routed, durable>>
  BY DEF ReconcileUndispatched, Interrupted
<1>2. /\ w \in WorkOrders
      /\ LogOK(w, events[w], leases, max_attempts[w])
      /\ max_attempts[w] \in Nat
      /\ leases \in Seq(Lease)
      /\ events[w] # <<>>
      /\ l \in Nat
      /\ \A k \in LeaseIds : leases[k].work = w => leases[k].attempt <= n
  BY <1>1, ClaimFacts
<1>3. n \in Nat \ {0} /\ n <= max_attempts[w]
  BY LeaseFacts
<1>4. e \in Event /\ e.attempt = n /\ e.state = "expired"
  BY <1>2, <1>3 DEF EventRow, Event, AttemptStates
<1>5. receipts' \subseteq [op : {"complete", "journal", "recover"}, work : WorkOrders,
                           attempt : Nat, lease : Nat,
                           outcome : ResultStates \cup {"expired"}]
  BY <1>1, OutcomeTyped
<1> HIDE DEF e, w, n
<1>6. /\ LogOK(w, new, leases, max_attempts[w])
      /\ LastOf(new).state # "leased"
  <2>1. /\ e.attempt <= max_attempts[w]
        /\ e.state \notin {"leased", "ready"}
        /\ \A k \in 1 .. Len(leases) : leases[k].work = w => leases[k].attempt <= e.attempt
        /\ 0 \in Nat
    BY <1>2, <1>3, <1>4 DEF LeaseIds
  <2>2. /\ LogOK(w, Append(Append(events[w], e), NextEvent(w, e.attempt, 0)), leases,
                 max_attempts[w])
        /\ LastOf(Append(Append(events[w], e), NextEvent(w, e.attempt, 0))).state
              \in {"ready", "failed"}
    BY <2>1, <1>2, <1>4, LogEndsAttempt
  <2> QED BY <2>2, <1>4
<1> HIDE DEF new
<1>7. Tables(events', current', leases', max_attempts')
  BY <1>1, <1>2, <1>6, ReleaseStep
<1> QED BY <1>1, <1>5, <1>7, SameLeasesStep DEF IndInv, TypeOK

(* expire_orphaned_lease preserves the invariant. *)
LEMMA StepExpireOrphaned ==
    ASSUME IndInv, NEW l \in LeaseIds, ExpireOrphaned(l)
    PROVE  IndInv'
<1> DEFINE w == leases[l].work
<1>1. /\ CurrentClaim(l)
      /\ events' = [events EXCEPT ![w] = ExpireOne(events[w], w)]
      /\ current' = [current EXCEPT ![w] = NoRow]
      /\ UNCHANGED <<clock, alive, call, max_attempts, leases, formal, receipts, routed,
                     durable>>
  BY DEF ExpireOrphaned
<1>2. /\ w \in WorkOrders
      /\ LogOK(w, events[w], leases, max_attempts[w])
      /\ max_attempts[w] \in Nat
      /\ leases \in Seq(Lease)
      /\ events[w] # <<>>
      /\ LastOf(events[w]).state = "leased"
  BY <1>1, ClaimFacts
<1> HIDE DEF w
<1>3. /\ LogOK(w, ExpireOne(events[w], w), leases, max_attempts[w])
      /\ LastOf(ExpireOne(events[w], w)).state # "leased"
  BY <1>2, LogExpires
<1>4. Tables(events', current', leases', max_attempts')
  BY <1>1, <1>2, <1>3, ReleaseStep
<1> QED BY <1>1, <1>4, SameLeasesStep DEF IndInv, TypeOK

(* Every step of the specification, or a stutter, preserves the invariant.   *)
LEMMA NextIndInv == IndInv /\ [Next]_vars => IndInv'
<1> SUFFICES ASSUME IndInv, [Next]_vars PROVE IndInv'
  OBVIOUS
<1>1. CASE Tick
  BY <1>1, StepReading
<1>2. ASSUME NEW w \in WorkOrders, Enqueue(w)
      PROVE  IndInv'
  BY <1>2, StepEnqueue
<1>3. ASSUME NEW c \in Callers, Crash(c)
      PROVE  IndInv'
  BY <1>3, StepReading
<1>4. ASSUME NEW c \in Callers, CallerStep(c)
      PROVE  IndInv'
  <2>1. CASE Begin(c) \/ Return(c)
    BY <2>1, StepReading
  <2>2. CASE ClaimStep(c)
    BY <2>2, StepClaim, StepClaimAny DEF ClaimStep
  <2>3. CASE Sweep(c)
    BY <2>3, StepSweep
  <2>4. CASE HolderStep(c)
    BY <2>4, StepValidateLease, StepRenew, StepComplete, StepDispatch DEF HolderStep
  <2> QED BY <1>4, <2>1, <2>2, <2>3, <2>4 DEF CallerStep
<1>5. CASE RecoveryStep
  BY <1>5, StepRespond, StepReconcileJournaled, StepReserveRecovery, StepReconcileDurable,
     StepReconcileUndispatched, StepExpireOrphaned DEF RecoveryStep
<1>6. CASE UNCHANGED vars
  <2>1. TypeOK'
    BY <1>6 DEF IndInv, TypeOK, vars
  <2>2. Tables(events', current', leases', max_attempts')
    BY <1>6 DEF IndInv, vars
  <2>3. SentOK(leases)'
    BY <1>6 DEF IndInv, SentOK, vars
  <2> QED BY <2>1, <2>2, <2>3 DEF IndInv
<1> QED BY <1>1, <1>2, <1>3, <1>4, <1>5, <1>6 DEF Next

-----------------------------------------------------------------------------
(* The tables of scheduler.py always fit together: in every reachable state  *)
(* the inductive invariant holds, whatever the number of WorkOrders, callers *)
(* and attempts and whatever the lease policy.                               *)
THEOREM IndInvariant == Spec => []IndInv
<1>1. Init => IndInv
  BY InitIndInv
<1>2. IndInv /\ [Next]_vars => IndInv'
  BY NextIndInv
<1> QED BY <1>1, <1>2, PTL DEF Spec

(* Every write method leaves rows of the declared shape in every table: no   *)
(* attempt 0, no event without a state, no lease without an owner.           *)
THEOREM TypeCorrect == Spec => []TypeOK
<1>1. IndInv => TypeOK
  BY DEF IndInv
<1> QED BY <1>1, IndInvariant, PTL

(* The index the triggers maintain is exact after every commit of every      *)
(* write method, so the probe of claim and sweep misses no overdue lease.    *)
THEOREM IndexExact == Spec => []CurrentLeaseIndexExact
<1>1. IndInv => CurrentLeaseIndexExact
  <2> SUFFICES ASSUME IndInv, NEW w \in WorkOrders
               PROVE  current[w] = IF Leased(w)
                                   THEN [lease |-> Latest(w).lease,
                                         expires |-> ExpiresAt(Latest(w).lease),
                                         reserved |-> Latest(w).reserved # 0]
                                   ELSE NoRow
    BY DEF CurrentLeaseIndexExact
  <2>1. current[w] = RowOf(events[w], leases) /\ LogOK(w, events[w], leases, max_attempts[w])
    BY DEF IndInv, Tables
  <2>2. Leased(w) <=> events[w] # <<>> /\ LastOf(events[w]).state = "leased"
    BY <2>1 DEF Leased, Enqueued, Latest, LogOK
  <2> QED BY <2>1, <2>2 DEF RowOf, IndexRow, Latest, ExpiresAt
<1> QED BY <1>1, IndInvariant, PTL

(* claim leases an attempt once and never an attempt above the cap frozen at *)
(* enqueue, however attempts were ended and reopened.                        *)
THEOREM ClaimedOnce == Spec => []AttemptClaimedOnce
<1>1. IndInv => AttemptClaimedOnce
  <2> SUFFICES ASSUME IndInv PROVE AttemptClaimedOnce
    OBVIOUS
  <2>1. \A l \in LeaseIds : leases[l].attempt <= max_attempts[leases[l].work]
    BY LeaseFacts
  <2>2. LeasesOK(leases)
    BY DEF IndInv, Tables
  <2> QED BY <2>1, <2>2 DEF AttemptClaimedOnce, LeasesOK, LeaseIds
<1> QED BY <1>1, IndInvariant, PTL

-----------------------------------------------------------------------------
(***************************************************************************)
(* The history of a WorkOrder: which outcomes, expiries and grants its log  *)
(* can hold.                                                                *)
(***************************************************************************)

-----------------------------------------------------------------------------
(* What one transaction does to one WorkOrder *)

(* The log after the lease of w was lost: expired, and what follows.         *)
LostLog(w, v) ==
    Append(Append(events[w], EventRow(Latest(w).attempt, "expired", Latest(w).lease, v, 0, 0)),
           NextEvent(w, Latest(w).attempt, 0))

(* The current lease may be lost: it ran out, or a recovery may end it, and  *)
(* no operator has reserved it over a sent call.                             *)
MayLose(w) ==
    /\ Leased(w)
    /\ Latest(w).reserved = 0 \/ \A r \in routed : leases[r.lease].work # w
    /\ ExpiresAt(Latest(w).lease) <= clock \/ w \in ModelWork

LeasedRow(n, l) == EventRow(n, "leased", l, 1, 0, 0)

Stays(w) == events'[w] = events[w] /\ formal'[w] = formal[w]

Opens(w) ==
    /\ max_attempts[w] = 0
    /\ max_attempts'[w] \in 1 .. PolicyMaxAttempts
    /\ events'[w] = <<EventRow(1, "ready", 0, 0, 0, 0)>>
    /\ formal'[w] = formal[w]

Grants(w) ==
    /\ Enqueued(w) /\ Latest(w).state = "ready" /\ formal[w] = NoResult
    /\ events'[w] = Append(events[w], LeasedRow(Latest(w).attempt, Len(leases) + 1))
    /\ formal'[w] = formal[w]

Loses(w) ==
    /\ MayLose(w)
    /\ \E v \in Nat : events'[w] = LostLog(w, v)
    /\ formal'[w] = formal[w]

Regrants(w) ==
    /\ MayLose(w)
    /\ Latest(w).attempt < max_attempts[w]
    /\ \E v \in Nat :
          events'[w] = Append(LostLog(w, v), LeasedRow(Latest(w).attempt + 1, Len(leases) + 1))
    /\ formal'[w] = formal[w]

(* The outcome of the attempt that is leased.                                *)
Reports(w, outcome) ==
    /\ Leased(w)
    /\ Latest(w).reserved # 0 => outcome # "retryable"
    /\ \E v \in Nat, at \in Nat :
          events'[w] = OutcomeLog(events[w], w, Latest(w).attempt, Latest(w).lease, v, outcome,
                                  NextEvent(w, Latest(w).attempt, at))
    /\ formal'[w] = IF outcome = "retryable" THEN formal[w]
                    ELSE [attempt |-> Latest(w).attempt, state |-> outcome]

(* The outcome of a lost attempt, journaled before it was lost.              *)
ReportsLate(w, l, outcome) ==
    LET n == leases[l].attempt
    IN  /\ Enqueued(w) /\ formal[w] = NoResult
        /\ leases[l].work = w
        /\ \A k \in LeaseIds : leases[k].work = w => leases[k].attempt <= n
        /\ Latest(w).attempt \in {n, n + 1}
        /\ Latest(w).state \in {"ready", "failed"}
        /\ \E i \in 1 .. Len(events[w]) : /\ events[w][i].attempt = n
                                          /\ events[w][i].state = "expired"
        /\ ~JournalUsed(receipts, w, n) /\ JournalUsed(receipts', w, n)
        /\ \E v \in Nat :
              events'[w] = OutcomeLog(events[w], w, n, l, v, outcome,
                                      EventRow(Latest(w).attempt, Latest(w).state, 0, 0, 0,
                                               Latest(w).not_before))
        /\ formal'[w] = IF outcome = "retryable" THEN formal[w]
                        ELSE [attempt |-> n, state |-> outcome]

Reserves(w) ==
    /\ Leased(w) /\ w \in ModelWork
    /\ \E h \in Nat \ {0} :
          events'[w] = Append(events[w], EventRow(Latest(w).attempt, "leased", Latest(w).lease,
                                                  1, h, 0))
    /\ \E r \in routed : leases[r.lease].work = w
    /\ formal'[w] = formal[w]

Moves(w) ==
    \/ Opens(w)
    \/ /\ max_attempts'[w] = max_attempts[w]
       /\ \/ Stays(w) \/ Grants(w) \/ Loses(w) \/ Regrants(w) \/ Reserves(w)
          \/ \E outcome \in ResultStates : Reports(w, outcome)
          \/ \E l \in LeaseIds, outcome \in ResultStates : ReportsLate(w, l, outcome)

-----------------------------------------------------------------------------
(* One log *)

(* An event added to a log without a formal result keeps its history.        *)
LEMMA HistoryGrows ==
    ASSUME NEW w, NEW log \in Seq(Event), NEW rows, NEW more, rows \subseteq more,
           HistoryOK(w, log, NoResult, rows), NEW e \in Event,
           e.state \in {"leased", "ready"} =>
              \A i \in 1 .. Len(log) : Ended(log[i]) => log[i].attempt < e.attempt,
           e.state = "failed" /\ e.lease = 0 =>
              \E i \in 1 .. Len(log) : log[i].state = "leased" /\ log[i].attempt = e.attempt,
           Ended(e) => \A i \in 1 .. Len(log) :
              /\ IsOutcome(log[i]) => log[i].attempt # e.attempt
              /\ log[i].state = "expired" /\ log[i].attempt = e.attempt
                    => JournalUsed(more, w, e.attempt)
    PROVE  HistoryOK(w, Append(log, e),
                     IF IsOutcome(e) /\ e.state # "retryable"
                     THEN [attempt |-> e.attempt, state |-> e.state] ELSE NoResult, more)
<1> DEFINE new == Append(log, e)
           result == IF IsOutcome(e) /\ e.state # "retryable"
                     THEN [attempt |-> e.attempt, state |-> e.state] ELSE NoResult
<1>1. /\ new \in Seq(Event)
      /\ Len(new) = Len(log) + 1
      /\ Len(log) \in Nat
      /\ new # <<>>
      /\ LastOf(new) = e
      /\ \A i \in 1 .. Len(log) : new[i] = log[i]
      /\ \A i \in 1 .. Len(new) : i \in 1 .. Len(log) \/ i = Len(new)
      /\ new[Len(new)] = e
  <2>1. /\ new \in Seq(Event)
        /\ Len(new) = Len(log) + 1
        /\ Len(log) \in Nat
        /\ new # <<>>
        /\ LastOf(new) = e
        /\ \A i \in 1 .. Len(log) : new[i] = log[i]
    BY AppendedLog
  <2>2. new[Len(new)] = e
    BY <2>1 DEF LastOf
  <2>3. \A i \in 1 .. Len(new) : i \in 1 .. Len(log) \/ i = Len(new)
    BY <2>1
  <2> QED BY <2>1, <2>2, <2>3
<1>2. \A i \in 1 .. Len(log) : ~(IsOutcome(log[i]) /\ log[i].state # "retryable")
  BY DEF HistoryOK
<1>3. \A i \in 1 .. Len(new) : i # Len(new) => i \in 1 .. Len(log) /\ new[i] = log[i]
  BY <1>1
<1> HIDE DEF new
<1>4. e.state \in {"leased", "ready"} =>
        \A i \in 1 .. Len(new) : Ended(new[i]) => new[i].attempt < e.attempt
  BY <1>1, <1>3 DEF Ended, IsOutcome, ResultStates
<1>5. e.state = "failed" /\ e.lease = 0 =>
        \E i \in 1 .. Len(new) : new[i].state = "leased" /\ new[i].attempt = e.attempt
  <2>1. \A i \in 1 .. Len(log) : i \in 1 .. Len(new)
    BY <1>1
  <2> QED BY <1>1, <2>1
<1>6. ASSUME NEW i \in 1 .. Len(new), NEW j \in 1 .. Len(new), IsOutcome(new[i]),
             IsOutcome(new[j]), new[i].attempt = new[j].attempt
      PROVE  i = j
  <2>1. CASE i # Len(new) /\ j # Len(new)
    <3>1. \A a, b \in 1 .. Len(log) :
             IsOutcome(log[a]) /\ IsOutcome(log[b]) /\ log[a].attempt = log[b].attempt => a = b
      BY DEF HistoryOK
    <3> QED BY <1>6, <2>1, <1>3, <3>1
  <2>2. CASE i = Len(new) /\ j # Len(new)
    BY <1>6, <2>2, <1>1, <1>3 DEF Ended
  <2>3. CASE i # Len(new) /\ j = Len(new)
    BY <1>6, <2>3, <1>1, <1>3 DEF Ended
  <2> QED BY <2>1, <2>2, <2>3
<1>7. ASSUME NEW i \in 1 .. Len(new), NEW j \in 1 .. Len(new), new[i].state = "expired",
             IsOutcome(new[j]), new[i].attempt = new[j].attempt
      PROVE  JournalUsed(more, w, new[j].attempt)
  <2>1. CASE i # Len(new) /\ j # Len(new)
    <3>1. \A a, b \in 1 .. Len(log) :
             log[a].state = "expired" /\ IsOutcome(log[b]) /\ log[a].attempt = log[b].attempt
                => JournalUsed(rows, w, log[b].attempt)
      BY DEF HistoryOK
    <3>2. JournalUsed(rows, w, new[j].attempt)
      BY <1>7, <2>1, <1>3, <3>1
    <3> QED BY <3>2 DEF JournalUsed
  <2>2. CASE i = Len(new) /\ j # Len(new)
    BY <1>7, <2>2, <1>1, <1>3 DEF Ended
  <2>3. CASE i # Len(new) /\ j = Len(new)
    BY <1>7, <2>3, <1>1, <1>3 DEF Ended
  <2>4. CASE i = Len(new) /\ j = Len(new)
    BY <1>7, <2>4 DEF IsOutcome, ResultStates
  <2> QED BY <2>1, <2>2, <2>3, <2>4
<1>8. result # NoResult => /\ IsOutcome(e)
                           /\ result = [attempt |-> e.attempt, state |-> e.state]
  OBVIOUS
<1>9. ASSUME NEW i \in 1 .. Len(new), IsOutcome(new[i]), new[i].state # "retryable"
      PROVE  result # NoResult
  <2>1. i = Len(new) /\ new[i] = e
    BY <1>9, <1>2, <1>3, <1>1
  <2>2. e.attempt # 0
    BY DEF Event
  <2>3. result.attempt = e.attempt
    BY <2>1, <1>9
  <2> QED BY <2>2, <2>3 DEF NoResult
<1> HIDE DEF result
<1>10. HistoryOK(w, new, result, more)
  BY <1>1, <1>4, <1>5, <1>6, <1>7, <1>8, <1>9 DEF HistoryOK
<1> QED BY <1>10 DEF new, result

(* The events of a log have their own shape.                                 *)
LEMMA AttemptNumbers ==
    ASSUME NEW log \in Seq(Event)
    PROVE  \A i \in 1 .. Len(log) : log[i] \in Event /\ log[i].attempt \in Nat \ {0}
<1>1. \A i \in 1 .. Len(log) : log[i] \in Event
  OBVIOUS
<1> QED BY <1>1 DEF Event

(* More receipts do not disturb a history.                                   *)
LEMMA HistoryKept ==
    ASSUME NEW w, NEW log, NEW result, NEW rows, NEW more, rows \subseteq more,
           HistoryOK(w, log, result, rows)
    PROVE  HistoryOK(w, log, result, more)
<1>1. \A n : JournalUsed(rows, w, n) => JournalUsed(more, w, n)
  BY DEF JournalUsed
<1> QED BY <1>1 DEF HistoryOK

(* An attempt ends, and unless that is the end of the WorkOrder another row  *)
(* follows in the same transaction.                                          *)
LEMMA HistoryEnds ==
    ASSUME NEW w, NEW log \in Seq(Event), NEW rows, NEW more, rows \subseteq more,
           HistoryOK(w, log, NoResult, rows),
           NEW e \in Event, Ended(e),
           \A i \in 1 .. Len(log) :
              /\ IsOutcome(log[i]) => log[i].attempt # e.attempt
              /\ log[i].state = "expired" /\ log[i].attempt = e.attempt
                    => JournalUsed(more, w, e.attempt),
           NEW next \in Event, next.lease = 0, next.state \in {"ready", "failed"},
           next.state = "ready" =>
              /\ e.attempt < next.attempt
              /\ \A i \in 1 .. Len(log) : Ended(log[i]) => log[i].attempt < next.attempt,
           next.state = "failed" => \E i \in 1 .. Len(log) :
              log[i].state = "leased" /\ log[i].attempt = next.attempt
    PROVE  /\ e.state \in {"expired", "retryable"} =>
                HistoryOK(w, Append(Append(log, e), next), NoResult, more)
           /\ e.state \notin {"expired", "retryable"} =>
                HistoryOK(w, Append(log, e), [attempt |-> e.attempt, state |-> e.state], more)
<1> DEFINE new == Append(log, e)
<1>1. HistoryOK(w, new, IF IsOutcome(e) /\ e.state # "retryable"
                        THEN [attempt |-> e.attempt, state |-> e.state] ELSE NoResult, more)
  <2>1. e.state \notin {"leased", "ready"} /\ ~(e.state = "failed" /\ e.lease = 0)
    BY DEF Ended, IsOutcome, ResultStates
  <2> QED BY <2>1, HistoryGrows
<1>2. CASE e.state \in {"expired", "retryable"}
  <2>1. HistoryOK(w, new, NoResult, more)
    BY <1>1, <1>2 DEF IsOutcome, ResultStates
  <2>2. /\ new \in Seq(Event)
        /\ \A i \in 1 .. Len(log) : new[i] = log[i] /\ i \in 1 .. Len(new)
        /\ \A i \in 1 .. Len(new) : i \in 1 .. Len(log) \/ new[i] = e
    <3>1. Len(new) = Len(log) + 1 /\ Len(log) \in Nat
      BY AppendedLog
    <3> QED BY <3>1, AppendedLog
  <2> HIDE DEF new
  <2>3. ~Ended(next) /\ ~IsOutcome(next)
    BY DEF Ended, IsOutcome, ResultStates
  <2>4. next.state \in {"leased", "ready"} =>
           \A i \in 1 .. Len(new) : Ended(new[i]) => new[i].attempt < next.attempt
    BY <2>2
  <2>5. next.state = "failed" /\ next.lease = 0 =>
           \E i \in 1 .. Len(new) : new[i].state = "leased" /\ new[i].attempt = next.attempt
    BY <2>2
  <2>6. more \subseteq more
    OBVIOUS
  <2>7. HistoryOK(w, Append(new, next),
                  IF IsOutcome(next) /\ next.state # "retryable"
                  THEN [attempt |-> next.attempt, state |-> next.state] ELSE NoResult, more)
    BY <2>1, <2>2, <2>3, <2>4, <2>5, <2>6, HistoryGrows
  <2> QED BY <2>3, <2>7, <1>2 DEF new
<1>3. CASE e.state \notin {"expired", "retryable"}
  BY <1>1, <1>3 DEF Ended
<1> QED BY <1>2, <1>3

-----------------------------------------------------------------------------
(* What the invariant says of one WorkOrder *)

(* The log of an enqueued WorkOrder is not empty, fits the leases and its    *)
(* cap, and has a well-formed last event.                                    *)
LEMMA EnqueuedFacts ==
    ASSUME HistInv, NEW w \in WorkOrders, Enqueued(w)
    PROVE  /\ events[w] \in Seq(Event)
           /\ events[w] # <<>>
           /\ LogOK(w, events[w], leases, max_attempts[w])
           /\ max_attempts[w] \in Nat
           /\ leases \in Seq(Lease)
           /\ Latest(w) \in Event
           /\ Latest(w).attempt \in Nat \ {0}
           /\ Latest(w).attempt <= max_attempts[w]
           /\ Len(events[w]) \in 1 .. Len(events[w])
           /\ Latest(w) = events[w][Len(events[w])]
           /\ HistoryOK(w, events[w], formal[w], receipts)
<1>1. /\ LogOK(w, events[w], leases, max_attempts[w])
      /\ max_attempts[w] \in Nat
      /\ leases \in Seq(Lease)
      /\ HistoryOK(w, events[w], formal[w], receipts)
  BY DEF HistInv, IndInv, Tables
<1>2. events[w] \in Seq(Event) /\ events[w] # <<>>
  BY <1>1 DEF LogOK, Enqueued
<1>3. /\ Len(events[w]) \in 1 .. Len(events[w])
      /\ Latest(w) = events[w][Len(events[w])]
      /\ Latest(w) \in Event
  BY <1>2, LastEvent DEF Latest
<1>4. Latest(w).attempt \in Nat \ {0} /\ Latest(w).attempt <= max_attempts[w]
  BY <1>1, <1>3 DEF LogOK, Event
<1> QED BY <1>1, <1>2, <1>3, <1>4

(* While a WorkOrder is leased or ready it has no formal result, and nothing *)
(* of its current attempt is over.                                           *)
LEMMA OpenFacts ==
    ASSUME HistInv, NEW w \in WorkOrders, Enqueued(w), Latest(w).state \in {"leased", "ready"}
    PROVE  /\ formal[w] = NoResult
           /\ \A i \in 1 .. Len(events[w]) :
                 Ended(events[w][i]) => events[w][i].attempt < Latest(w).attempt
<1>1. HistoryOK(w, events[w], formal[w], receipts) /\ events[w] # <<>>
  BY EnqueuedFacts
<1>2. formal[w] = NoResult
  BY <1>1 DEF HistoryOK, IsOutcome, ResultStates, Latest
<1> QED BY <1>1, <1>2 DEF HistoryOK, Latest

(* The next attempt, or the exhaustion that takes its place.                 *)
LEMMA NextRow ==
    ASSUME NEW w, max_attempts[w] \in Nat, NEW n \in Nat \ {0}, n <= max_attempts[w], NEW at \in Nat
    PROVE  /\ NextEvent(w, n, at) \in Event
           /\ NextEvent(w, n, at).lease = 0
           /\ NextEvent(w, n, at).state \in {"ready", "failed"}
           /\ NextEvent(w, n, at).state = "ready" =>
                 NextEvent(w, n, at).attempt = n + 1 /\ n < max_attempts[w]
           /\ NextEvent(w, n, at).state = "failed" =>
                 NextEvent(w, n, at).attempt = n /\ n = max_attempts[w]
  BY DEF NextEvent, EventRow, Event, AttemptStates

(* The current lease is the last event, and its row is well formed.          *)
LEMMA LeasedRowFacts ==
    ASSUME HistInv, NEW w \in WorkOrders, Leased(w)
    PROVE  /\ Enqueued(w)
           /\ Latest(w).state = "leased"
           /\ Latest(w).lease \in LeaseIds
           /\ Latest(w).lease \in Nat \ {0}
           /\ leases[Latest(w).lease].work = w
           /\ leases[Latest(w).lease].attempt = Latest(w).attempt
<1>1. IndInv
  BY DEF HistInv
<1>2. Enqueued(w) /\ Latest(w).state = "leased"
  BY DEF Leased
<1>3. /\ Latest(w).lease \in LeaseIds
      /\ leases[Latest(w).lease].work = w
      /\ leases[Latest(w).lease].attempt = Latest(w).attempt
      /\ leases \in Seq(Lease)
  BY <1>1, LeasedFacts
<1>4. Latest(w).lease \in Nat \ {0}
  BY <1>3 DEF LeaseIds
<1> QED BY <1>2, <1>3, <1>4

(* Losing a lease, with what follows it.                                     *)
LEMMA LostHistory ==
    ASSUME HistInv, NEW w \in WorkOrders, Leased(w), NEW v \in Nat,
           NEW more, receipts \subseteq more
    PROVE  /\ HistoryOK(w, LostLog(w, v), NoResult, more)
           /\ LostLog(w, v) \in Seq(Event)
           /\ LostLog(w, v) # <<>>
           /\ LastOf(LostLog(w, v)) = NextEvent(w, Latest(w).attempt, 0)
<1> DEFINE n == Latest(w).attempt
           e == EventRow(n, "expired", Latest(w).lease, v, 0, 0)
           next == NextEvent(w, n, 0)
<1>1. /\ events[w] \in Seq(Event)
      /\ HistoryOK(w, events[w], NoResult, receipts)
      /\ n \in Nat \ {0} /\ n <= max_attempts[w] /\ max_attempts[w] \in Nat
      /\ \A i \in 1 .. Len(events[w]) : Ended(events[w][i]) => events[w][i].attempt < n
      /\ Len(events[w]) \in 1 .. Len(events[w])
      /\ events[w][Len(events[w])].state = "leased"
      /\ events[w][Len(events[w])].attempt = n
  BY EnqueuedFacts, LeasedRowFacts, OpenFacts
<1>2. e \in Event /\ e.attempt = n /\ e.state = "expired"
  BY <1>1, LeasedRowFacts DEF EventRow, Event, AttemptStates
<1>3. /\ next \in Event
      /\ next.lease = 0
      /\ next.state \in {"ready", "failed"}
      /\ next.state = "ready" => next.attempt = n + 1
      /\ next.state = "failed" => next.attempt = n
  BY <1>1, NextRow
<1>4. \A i \in 1 .. Len(events[w]) : events[w][i].attempt \in Nat
  BY <1>1, AttemptNumbers
<1> HIDE DEF n, e, next
<1>5. Ended(e)
  BY <1>2 DEF Ended
<1>6. \A i \in 1 .. Len(events[w]) :
         /\ IsOutcome(events[w][i]) => events[w][i].attempt # e.attempt
         /\ events[w][i].state = "expired" /\ events[w][i].attempt = e.attempt
               => JournalUsed(more, w, e.attempt)
  BY <1>1, <1>2, <1>4 DEF Ended
<1>7. next.state = "ready" =>
         /\ e.attempt < next.attempt
         /\ \A i \in 1 .. Len(events[w]) :
               Ended(events[w][i]) => events[w][i].attempt < next.attempt
  BY <1>1, <1>2, <1>3, <1>4
<1>8. HistoryOK(w, Append(Append(events[w], e), next), NoResult, more)
  BY <1>1, <1>2, <1>3, <1>5, <1>6, <1>7, HistoryEnds
<1>9. /\ Append(Append(events[w], e), next) \in Seq(Event)
      /\ Append(Append(events[w], e), next) # <<>>
      /\ LastOf(Append(Append(events[w], e), next)) = next
  <2> DEFINE log == Append(events[w], e)
  <2>1. log \in Seq(Event)
    BY <1>1, <1>2, AppendedLog
  <2> HIDE DEF log
  <2>2. Append(log, next) \in Seq(Event) /\ Append(log, next) # <<>> /\ LastOf(Append(log, next)) = next
    BY <2>1, <1>3, AppendedLog
  <2> QED BY <2>2 DEF log
<1> QED BY <1>8, <1>9 DEF LostLog, n, e, next

(* A lease granted on a ready log.                                           *)
LEMMA GrantHistory ==
    ASSUME NEW w, NEW log \in Seq(Event), log # <<>>, NEW rows, HistoryOK(w, log, NoResult, rows),
           LastOf(log).state = "ready", NEW l \in Nat
    PROVE  HistoryOK(w, Append(log, LeasedRow(LastOf(log).attempt, l)), NoResult, rows)
<1> DEFINE e == LeasedRow(LastOf(log).attempt, l)
<1>1. LastOf(log) \in Event
  BY LastEvent
<1>2. e \in Event /\ e.attempt = LastOf(log).attempt /\ e.state = "leased"
  BY <1>1 DEF LeasedRow, EventRow, Event, AttemptStates
<1>3. \A i \in 1 .. Len(log) : Ended(log[i]) => log[i].attempt < e.attempt
  BY <1>2 DEF HistoryOK
<1>4. ~Ended(e) /\ ~IsOutcome(e)
  BY <1>2 DEF Ended, IsOutcome, ResultStates
<1>5. rows \subseteq rows
  OBVIOUS
<1> HIDE DEF e
<1>6. HistoryOK(w, Append(log, e), IF IsOutcome(e) /\ e.state # "retryable"
                  THEN [attempt |-> e.attempt, state |-> e.state] ELSE NoResult, rows)
  BY <1>2, <1>3, <1>4, <1>5, HistoryGrows
<1> QED BY <1>4, <1>6 DEF e

(* The outcome of the attempt that is leased.                                *)
LEMMA ReportHistory ==
    ASSUME HistInv, NEW w \in WorkOrders, NEW outcome \in ResultStates, Reports(w, outcome),
           receipts \subseteq receipts'
    PROVE  HistoryOK(w, events'[w], formal'[w], receipts')
<1> DEFINE n == Latest(w).attempt
<1>1. Leased(w)
  BY DEF Reports
<1>2. PICK v \in Nat, at \in Nat :
         events'[w] = OutcomeLog(events[w], w, n, Latest(w).lease, v, outcome,
                                 NextEvent(w, n, at))
  BY DEF Reports
<1> DEFINE e == EventRow(n, outcome, Latest(w).lease, v, 0, 0)
           next == NextEvent(w, n, at)
<1>3. /\ events[w] \in Seq(Event)
      /\ HistoryOK(w, events[w], NoResult, receipts)
      /\ formal[w] = NoResult
      /\ n \in Nat \ {0} /\ n <= max_attempts[w] /\ max_attempts[w] \in Nat
      /\ \A i \in 1 .. Len(events[w]) : Ended(events[w][i]) => events[w][i].attempt < n
      /\ Len(events[w]) \in 1 .. Len(events[w])
      /\ events[w][Len(events[w])].state = "leased"
      /\ events[w][Len(events[w])].attempt = n
  BY <1>1, EnqueuedFacts, LeasedRowFacts, OpenFacts
<1>4. /\ e \in Event /\ e.attempt = n /\ e.state = outcome
      /\ Ended(e)
  BY <1>1, <1>3, LeasedRowFacts DEF EventRow, Event, AttemptStates, ResultStates, Ended, IsOutcome
<1>5. /\ next \in Event
      /\ next.lease = 0
      /\ next.state \in {"ready", "failed"}
      /\ next.state = "ready" => next.attempt = n + 1
      /\ next.state = "failed" => next.attempt = n
  BY <1>3, NextRow
<1>6. \A i \in 1 .. Len(events[w]) : events[w][i].attempt \in Nat
  BY <1>3, AttemptNumbers
<1>7. events'[w] = IF outcome = "retryable" THEN Append(Append(events[w], e), next)
                                            ELSE Append(events[w], e)
  BY <1>2 DEF OutcomeLog
<1>8. formal'[w] = IF outcome = "retryable" THEN NoResult ELSE [attempt |-> n, state |-> outcome]
  BY <1>3 DEF Reports
<1> HIDE DEF n, e, next
<1>9. \A i \in 1 .. Len(events[w]) :
         /\ IsOutcome(events[w][i]) => events[w][i].attempt # e.attempt
         /\ events[w][i].state = "expired" /\ events[w][i].attempt = e.attempt
               => JournalUsed(receipts', w, e.attempt)
  BY <1>3, <1>4, <1>6 DEF Ended
<1>10. next.state = "ready" =>
         /\ e.attempt < next.attempt
         /\ \A i \in 1 .. Len(events[w]) :
               Ended(events[w][i]) => events[w][i].attempt < next.attempt
  BY <1>3, <1>4, <1>5, <1>6
<1>11. /\ e.state \in {"expired", "retryable"} =>
             HistoryOK(w, Append(Append(events[w], e), next), NoResult, receipts')
       /\ e.state \notin {"expired", "retryable"} =>
             HistoryOK(w, Append(events[w], e), [attempt |-> e.attempt, state |-> e.state], receipts')
  BY <1>3, <1>4, <1>5, <1>9, <1>10, HistoryEnds
<1>12. outcome # "expired"
  BY DEF ResultStates
<1> QED BY <1>4, <1>7, <1>8, <1>11, <1>12

(* Where the outcome of a lost attempt finds its WorkOrder: the attempt is   *)
(* the last one that was leased, it has no outcome yet, and what follows it  *)
(* is the next attempt or its own exhaustion.                                *)
LEMMA LateFacts ==
    ASSUME HistInv, NEW w \in WorkOrders, NEW l \in LeaseIds, NEW outcome \in ResultStates,
           ReportsLate(w, l, outcome)
    PROVE  /\ Enqueued(w)
           /\ formal[w] = NoResult
           /\ l \in Nat \ {0}
           /\ leases[l].attempt \in Nat \ {0}
           /\ leases[l].attempt <= max_attempts[w]
           /\ \A i \in 1 .. Len(events[w]) :
                 IsOutcome(events[w][i]) => events[w][i].attempt # leases[l].attempt
           /\ Latest(w).state = "ready" => Latest(w).attempt = leases[l].attempt + 1
           /\ Latest(w).state = "failed" => /\ Latest(w).attempt = leases[l].attempt
                                            /\ Latest(w).lease = 0
<1> DEFINE n == leases[l].attempt
<1>1. /\ Enqueued(w)
      /\ formal[w] = NoResult
      /\ leases[l].work = w
      /\ \A k \in LeaseIds : leases[k].work = w => leases[k].attempt <= n
      /\ Latest(w).attempt \in {n, n + 1}
      /\ \E i \in 1 .. Len(events[w]) : /\ events[w][i].attempt = n
                                        /\ events[w][i].state = "expired"
      /\ ~JournalUsed(receipts, w, n)
  BY DEF ReportsLate
<1>2. /\ events[w] \in Seq(Event)
      /\ events[w] # <<>>
      /\ LogOK(w, events[w], leases, max_attempts[w])
      /\ HistoryOK(w, events[w], NoResult, receipts)
      /\ Len(events[w]) \in 1 .. Len(events[w])
      /\ Latest(w) = events[w][Len(events[w])]
  BY <1>1, EnqueuedFacts
<1>3. n \in Nat \ {0} /\ n <= max_attempts[w] /\ l \in Nat \ {0}
  <2>1. IndInv
    BY DEF HistInv
  <2>2. l \in Nat \ {0}
    BY <1>1, <2>1, LeaseFacts DEF LeaseIds
  <2> QED BY <1>1, <2>1, <2>2, LeaseFacts
<1> HIDE DEF n
<1>4. ASSUME NEW i \in 1 .. Len(events[w]), IsOutcome(events[w][i]), events[w][i].attempt = n
      PROVE  FALSE
  BY <1>1, <1>2, <1>4 DEF HistoryOK
<1>5. CASE Latest(w).state = "ready"
  <2>1. \A i \in 1 .. Len(events[w]) :
           events[w][i].state = "expired" => events[w][i].attempt < Latest(w).attempt
    BY <1>1, <1>2, <1>5, OpenFacts DEF Ended
  <2>2. Latest(w).attempt = n + 1
    BY <1>1, <1>3, <2>1
  <2> QED BY <1>1, <1>3, <1>4, <1>5, <2>2 DEF n
<1>6. CASE Latest(w).state = "failed"
  <2>1. Latest(w).lease = 0
    BY <1>2, <1>6 DEF HistoryOK, IsOutcome, ResultStates
  <2>2. PICK i \in 1 .. Len(events[w]) : /\ events[w][i].state = "leased"
                                         /\ events[w][i].attempt = Latest(w).attempt
    BY <1>2, <1>6, <2>1 DEF HistoryOK, Latest
  <2>3. events[w][i].attempt <= n
    BY <1>1, <1>2, <2>2, SMTT(30) DEF LogOK, LeaseIds
  <2>4. Latest(w).attempt = n
    BY <1>1, <1>3, <2>2, <2>3
  <2> QED BY <1>1, <1>3, <1>4, <1>6, <2>1, <2>4 DEF n
<1>7. Latest(w).state \in {"ready", "failed"}
  BY DEF ReportsLate
<1> QED BY <1>5, <1>6, <1>7

(* The outcome of a lost attempt keeps the history.                          *)
LEMMA LateHistory ==
    ASSUME HistInv, NEW w \in WorkOrders, NEW l \in LeaseIds, NEW outcome \in ResultStates,
           ReportsLate(w, l, outcome), receipts \subseteq receipts'
    PROVE  HistoryOK(w, events'[w], formal'[w], receipts')
<1> DEFINE n == leases[l].attempt
           next == EventRow(Latest(w).attempt, Latest(w).state, 0, 0, 0, Latest(w).not_before)
<1>1. PICK v \in Nat : events'[w] = OutcomeLog(events[w], w, n, l, v, outcome, next)
  BY DEF ReportsLate
<1> DEFINE e == EventRow(n, outcome, l, v, 0, 0)
<1>2. /\ events[w] \in Seq(Event)
      /\ events[w] # <<>>
      /\ HistoryOK(w, events[w], NoResult, receipts)
      /\ Latest(w) \in Event
      /\ Latest(w).attempt \in Nat
  BY LateFacts, EnqueuedFacts
<1>3. /\ e \in Event /\ e.attempt = n /\ e.state = outcome
      /\ Ended(e)
  BY LateFacts DEF EventRow, Event, AttemptStates, ResultStates, Ended, IsOutcome
<1>4. /\ next \in Event
      /\ next.lease = 0
      /\ next.state = Latest(w).state
      /\ next.attempt = Latest(w).attempt
  BY <1>2 DEF EventRow, Event
<1>5. Latest(w).state \in {"ready", "failed"} /\ JournalUsed(receipts', w, n)
  BY DEF ReportsLate
<1>6. /\ events'[w] = IF outcome = "retryable" THEN Append(Append(events[w], e), next)
                                               ELSE Append(events[w], e)
      /\ formal'[w] = IF outcome = "retryable" THEN NoResult ELSE [attempt |-> n, state |-> outcome]
  BY <1>1, LateFacts DEF OutcomeLog, ReportsLate
<1>7. next.state = "ready" => /\ e.attempt < next.attempt
                              /\ \A i \in 1 .. Len(events[w]) :
                                    Ended(events[w][i]) => events[w][i].attempt < next.attempt
  <2> SUFFICES ASSUME next.state = "ready"
               PROVE  /\ e.attempt < next.attempt
                      /\ \A i \in 1 .. Len(events[w]) :
                            Ended(events[w][i]) => events[w][i].attempt < next.attempt
    OBVIOUS
  <2>1. e.attempt < next.attempt
    BY <1>3, <1>4, LateFacts
  <2> QED BY <2>1, <1>4, LateFacts, OpenFacts
<1>8. next.state = "failed" => \E i \in 1 .. Len(events[w]) :
         events[w][i].state = "leased" /\ events[w][i].attempt = next.attempt
  BY <1>2, <1>4, LateFacts DEF HistoryOK, Latest
<1>9. \A i \in 1 .. Len(events[w]) : IsOutcome(events[w][i]) => events[w][i].attempt # e.attempt
  BY <1>3, LateFacts
<1>10. next.state \in {"ready", "failed"} /\ JournalUsed(receipts', w, e.attempt)
  BY <1>3, <1>4, <1>5
<1> HIDE DEF n, e, next
<1>11. /\ e.state \in {"expired", "retryable"} =>
             HistoryOK(w, Append(Append(events[w], e), next), NoResult, receipts')
       /\ e.state \notin {"expired", "retryable"} =>
             HistoryOK(w, Append(events[w], e), [attempt |-> e.attempt, state |-> e.state], receipts')
  BY <1>2, <1>3, <1>4, <1>7, <1>8, <1>9, <1>10, HistoryEnds
<1>12. outcome # "expired"
  BY DEF ResultStates
<1> QED BY <1>3, <1>6, <1>11, <1>12

(* The reservation of a lease re-appends its row.                            *)
LEMMA ReserveHistory ==
    ASSUME HistInv, NEW w \in WorkOrders, Reserves(w)
    PROVE  HistoryOK(w, events'[w], formal'[w], receipts)
<1>1. PICK h \in Nat \ {0} :
         events'[w] = Append(events[w], EventRow(Latest(w).attempt, "leased", Latest(w).lease,
                                                 1, h, 0))
  BY DEF Reserves
<1> DEFINE e == EventRow(Latest(w).attempt, "leased", Latest(w).lease, 1, h, 0)
<1>2. Leased(w) /\ formal'[w] = formal[w]
  BY DEF Reserves
<1>3. /\ events[w] \in Seq(Event)
      /\ HistoryOK(w, events[w], NoResult, receipts)
      /\ formal[w] = NoResult
      /\ Latest(w).attempt \in Nat \ {0}
      /\ Latest(w).lease \in Nat
      /\ \A i \in 1 .. Len(events[w]) :
            Ended(events[w][i]) => events[w][i].attempt < Latest(w).attempt
  BY <1>2, EnqueuedFacts, LeasedRowFacts, OpenFacts
<1>4. e \in Event /\ e.attempt = Latest(w).attempt /\ e.state = "leased"
  BY <1>3 DEF EventRow, Event, AttemptStates
<1>5. ~Ended(e) /\ ~IsOutcome(e) /\ receipts \subseteq receipts
  BY <1>4 DEF Ended, IsOutcome, ResultStates
<1> HIDE DEF e
<1>6. HistoryOK(w, Append(events[w], e), IF IsOutcome(e) /\ e.state # "retryable"
                  THEN [attempt |-> e.attempt, state |-> e.state] ELSE NoResult, receipts)
  BY <1>3, <1>4, <1>5, HistoryGrows
<1> QED BY <1>1, <1>2, <1>3, <1>5, <1>6 DEF e

(* Every move of a WorkOrder keeps its history.                              *)
LEMMA HistoryStep ==
    ASSUME HistInv, NEW w \in WorkOrders, Moves(w), receipts \subseteq receipts'
    PROVE  HistoryOK(w, events'[w], formal'[w], receipts')
<1>1. CASE Opens(w)
  <2>1. HistoryOK(w, events[w], formal[w], receipts) /\ events[w] = <<>>
    BY <1>1 DEF HistInv, IndInv, Tables, LogOK, Opens
  <2>2. formal'[w] = NoResult
    BY <1>1, <2>1 DEF HistoryOK, Opens
  <2>3. /\ Len(events'[w]) = 1
        /\ LastOf(events'[w]) = events'[w][1]
        /\ events'[w][1].state = "ready"
        /\ events'[w] # <<>>
    BY <1>1 DEF Opens, EventRow, LastOf
  <2> QED BY <2>2, <2>3 DEF HistoryOK, Ended, IsOutcome, ResultStates
<1>2. CASE Stays(w)
  <2>1. HistoryOK(w, events[w], formal[w], receipts)
    BY DEF HistInv
  <2> QED BY <1>2, <2>1, HistoryKept DEF Stays
<1>3. CASE Grants(w)
  <2>1. /\ events[w] \in Seq(Event) /\ events[w] # <<>>
        /\ HistoryOK(w, events[w], NoResult, receipts')
        /\ Len(leases) + 1 \in Nat
    BY <1>3, EnqueuedFacts, HistoryKept DEF Grants
  <2> QED BY <1>3, <2>1, GrantHistory DEF Grants, Latest
<1>4. CASE Loses(w)
  <2>1. PICK v \in Nat : events'[w] = LostLog(w, v)
    BY <1>4 DEF Loses
  <2>2. Leased(w) /\ formal'[w] = NoResult
    BY <1>4, LeasedRowFacts, OpenFacts DEF Loses, MayLose
  <2> QED BY <2>1, <2>2, LostHistory
<1>5. CASE Regrants(w)
  <2>1. PICK v \in Nat :
           events'[w] = Append(LostLog(w, v), LeasedRow(Latest(w).attempt + 1, Len(leases) + 1))
    BY <1>5 DEF Regrants
  <2>2. Leased(w) /\ formal'[w] = NoResult
    BY <1>5, LeasedRowFacts, OpenFacts DEF Regrants, MayLose
  <2>3. /\ HistoryOK(w, LostLog(w, v), NoResult, receipts')
        /\ LostLog(w, v) \in Seq(Event)
        /\ LostLog(w, v) # <<>>
        /\ LastOf(LostLog(w, v)) = NextEvent(w, Latest(w).attempt, 0)
    BY <2>2, LostHistory
  <2>4. /\ NextEvent(w, Latest(w).attempt, 0).state = "ready"
        /\ NextEvent(w, Latest(w).attempt, 0).attempt = Latest(w).attempt + 1
    BY <1>5, <2>2, EnqueuedFacts, LeasedRowFacts DEF Regrants, NextEvent, EventRow
  <2>5. Len(leases) + 1 \in Nat
    BY <2>2, EnqueuedFacts, LeasedRowFacts
  <2> QED BY <2>1, <2>2, <2>3, <2>4, <2>5, GrantHistory
<1>6. CASE Reserves(w)
  BY <1>6, ReserveHistory, HistoryKept
<1>7. ASSUME NEW outcome \in ResultStates, Reports(w, outcome)
      PROVE  HistoryOK(w, events'[w], formal'[w], receipts')
  BY <1>7, ReportHistory
<1>8. ASSUME NEW l \in LeaseIds, NEW outcome \in ResultStates, ReportsLate(w, l, outcome)
      PROVE  HistoryOK(w, events'[w], formal'[w], receipts')
  BY <1>8, LateHistory
<1> QED BY <1>1, <1>2, <1>3, <1>4, <1>5, <1>6, <1>7, <1>8 DEF Moves

-----------------------------------------------------------------------------
(* Every method moves each WorkOrder as above *)

(* A step that changes one log and no other WorkOrder.                       *)
Only(w, new) ==
    /\ events' = [events EXCEPT ![w] = new]
    /\ \A x \in WorkOrders : x # w => formal'[x] = formal[x]
    /\ max_attempts' = max_attempts

(* A step that changes the log of one WorkOrder moves the others nowhere.    *)
LEMMA OnlyMoves ==
    ASSUME HistInv, NEW w \in WorkOrders, NEW new, Only(w, new),
           events'[w] = new /\ max_attempts'[w] = max_attempts[w] => Moves(w)
    PROVE  \A x \in WorkOrders : Moves(x)
<1>1. events \in [WorkOrders -> Seq(Event)]
  BY DEF HistInv, IndInv, TypeOK
<1>2. Moves(w)
  BY <1>1 DEF Only
<1>3. ASSUME NEW x \in WorkOrders, x # w PROVE Moves(x)
  BY <1>1, <1>3 DEF Only, Moves, Stays
<1> QED BY <1>2, <1>3

(* A step that leaves logs, results and caps alone.                          *)
LEMMA IdleMoves ==
    ASSUME UNCHANGED <<events, formal, max_attempts>>
    PROVE  \A x \in WorkOrders : Moves(x)
  BY DEF Moves, Stays

(* An overdue lease may be lost, whichever earlier reading found it overdue. *)
LEMMA OverdueFacts ==
    ASSUME HistInv, NEW c \in Callers, NEW w \in WorkOrders, Leased(w), Latest(w).reserved = 0,
           ExpiresAt(Latest(w).lease) <= call[c].now
    PROVE  /\ MayLose(w)
           /\ Len(leases[Latest(w).lease].expires) \in Nat
           /\ ExpireOne(events[w], w) = LostLog(w, Len(leases[Latest(w).lease].expires))
<1>1. IndInv /\ Latest(w).lease \in LeaseIds
  BY LeasedRowFacts DEF HistInv
<1>2. /\ ExpiresAt(Latest(w).lease) \in Nat
      /\ Len(leases[Latest(w).lease].expires) \in Nat
  BY <1>1, LeaseFacts
<1>3. clock \in Nat /\ call[c].now \in Nat /\ call[c].now <= clock
  BY DEF HistInv, IndInv, TypeOK
<1>4. MayLose(w)
  BY <1>2, <1>3 DEF MayLose
<1>5. ExpireOne(events[w], w) = LostLog(w, Len(leases[Latest(w).lease].expires))
  BY DEF ExpireOne, LostLog, Latest
<1> QED BY <1>2, <1>4, <1>5

(* sweep_expired, and a claim that finds nothing to lease.                   *)
LEMMA ExpiryMoves ==
    ASSUME HistInv, NEW c \in Callers, NEW among, NEW x \in WorkOrders,
           events'[x] = ExpireDueAmong(among, call[c].now)[x],
           UNCHANGED <<formal, max_attempts>>
    PROVE  Moves(x)
<1>1. CASE x \in among /\ Overdue(x, call[c].now)
  <2>1. /\ Leased(x) /\ Latest(x).reserved = 0
        /\ ExpiresAt(Latest(x).lease) <= call[c].now
    BY <1>1 DEF Overdue
  <2>2. events'[x] = ExpireOne(events[x], x)
    BY <1>1 DEF ExpireDueAmong
  <2>3. Loses(x)
    BY <2>1, <2>2, OverdueFacts DEF Loses
  <2> QED BY <2>3 DEF Moves
<1>2. CASE ~(x \in among /\ Overdue(x, call[c].now))
  BY <1>2 DEF ExpireDueAmong, Moves, Stays
<1> QED BY <1>1, <1>2

(* A claim that leases one WorkOrder.                                        *)
LEMMA GrantMoves ==
    ASSUME HistInv, NEW c \in Callers, NEW among, NEW w \in WorkOrders, NEW seconds,
           Claimable(ExpireDueAmong(among, call[c].now)[w], w, call[c].now),
           GrantLease(c, w, seconds, ExpireDueAmong(among, call[c].now),
                      IndexAfterExpiry(among, call[c].now)),
           UNCHANGED <<formal, max_attempts>>
    PROVE  \A x \in WorkOrders : Moves(x)
<1> DEFINE log == ExpireDueAmong(among, call[c].now)
           row == LeasedRow(LastOf(log[w]).attempt, Len(leases) + 1)
<1>1. DOMAIN log = WorkOrders
  BY DEF ExpireDueAmong
<1>2. events' = [log EXCEPT ![w] = Append(log[w], row)]
  BY DEF GrantLease, LeasedRow
<1>3. /\ log[w] # <<>> /\ LastOf(log[w]).state = "ready" /\ formal[w] = NoResult
  BY DEF Claimable
<1>4. log[w] = IF w \in among /\ Overdue(w, call[c].now) THEN ExpireOne(events[w], w)
                                                         ELSE events[w]
  BY DEF ExpireDueAmong
<1>5. \A x \in WorkOrders : x # w => events'[x] = log[x]
  BY <1>1, <1>2
<1>6. events'[w] = Append(log[w], row)
  BY <1>1, <1>2
<1>7. CASE w \in among /\ Overdue(w, call[c].now)
  <2>1. /\ Leased(w) /\ Latest(w).reserved = 0
        /\ ExpiresAt(Latest(w).lease) <= call[c].now
    BY <1>7 DEF Overdue
  <2> DEFINE v == Len(leases[Latest(w).lease].expires)
  <2>2. MayLose(w) /\ v \in Nat /\ log[w] = LostLog(w, v)
    BY <1>4, <1>7, <2>1, OverdueFacts
  <2>3. LastOf(log[w]) = NextEvent(w, Latest(w).attempt, 0)
    <3>1. receipts \subseteq receipts
      OBVIOUS
    <3> QED BY <2>1, <2>2, <3>1, LostHistory
  <2>4. /\ max_attempts[w] \in Nat
        /\ Latest(w).attempt \in Nat \ {0}
        /\ Latest(w).attempt <= max_attempts[w]
    BY <2>1, LeasedRowFacts, EnqueuedFacts
  <2>5. /\ Latest(w).attempt < max_attempts[w]
        /\ LastOf(log[w]).attempt = Latest(w).attempt + 1
    BY <1>3, <2>3, <2>4, NextRow
  <2>6. Regrants(w)
    BY <1>6, <2>2, <2>5 DEF Regrants
  <2> QED BY <1>5, <2>6, ExpiryMoves DEF Moves
<1>8. CASE ~(w \in among /\ Overdue(w, call[c].now))
  <2>1. log[w] = events[w]
    BY <1>4, <1>8
  <2>2. Enqueued(w)
    BY <1>3, <2>1 DEF HistInv, IndInv, Tables, LogOK, Enqueued
  <2>3. Grants(w)
    BY <1>3, <1>6, <2>1, <2>2 DEF Grants, Latest
  <2> QED BY <1>5, <2>3, ExpiryMoves DEF Moves
<1> QED BY <1>7, <1>8

(* Both claims and the sweep: what is overdue is lost, and one WorkOrder may *)
(* be leased.                                                                *)
LEMMA ClaimMoves ==
    ASSUME HistInv, NEW c \in Callers, ClaimStep(c) \/ Sweep(c)
    PROVE  \A x \in WorkOrders : Moves(x)
<1>1. ASSUME NEW among, NEW w \in WorkOrders, NEW seconds \in LeaseRequests,
             Claimable(ExpireDueAmong(among, call[c].now)[w], w, call[c].now),
             GrantLease(c, w, seconds, ExpireDueAmong(among, call[c].now),
                        IndexAfterExpiry(among, call[c].now)),
             UNCHANGED <<formal, max_attempts>>
      PROVE  \A x \in WorkOrders : Moves(x)
  BY <1>1, GrantMoves
<1>2. ASSUME NEW among, events' = ExpireDueAmong(among, call[c].now),
             UNCHANGED <<formal, max_attempts>>
      PROVE  \A x \in WorkOrders : Moves(x)
  BY <1>2, ExpiryMoves
<1>3. ASSUME NEW seconds \in LeaseRequests, NEW w \in WorkOrders, Claim(c, w, seconds)
      PROVE  \A x \in WorkOrders : Moves(x)
  BY <1>1, <1>2, <1>3 DEF Claim
<1>4. ASSUME NEW seconds \in LeaseRequests, ClaimAny(c, seconds)
      PROVE  \A x \in WorkOrders : Moves(x)
  BY <1>1, <1>2, <1>4 DEF ClaimAny
<1>5. CASE Sweep(c)
  BY <1>2, <1>5 DEF Sweep
<1> QED BY <1>3, <1>4, <1>5 DEF ClaimStep

(* The late branch of a holder's method.                                     *)
LEMMA ExpireOnUseMoves ==
    ASSUME HistInv, NEW c \in Callers, NEW l \in LeaseIds, ActiveLease(c, l),
           ExpireOnUse(c, l), UNCHANGED max_attempts
    PROVE  \A x \in WorkOrders : Moves(x)
<1> DEFINE w == leases[l].work
<1>1. w \in WorkOrders /\ Leased(w) /\ Latest(w).lease = l /\ Latest(w).reserved = 0
  BY ActiveFacts DEF HistInv, ActiveLease
<1>2. /\ ExpiresAt(l) <= call[c].now
      /\ events' = [events EXCEPT ![w] = ExpireOne(events[w], w)]
      /\ formal' = formal
  BY DEF ExpireOnUse
<1> HIDE DEF w
<1>3. Only(w, ExpireOne(events[w], w))
  BY <1>2 DEF Only
<1>4. events'[w] = ExpireOne(events[w], w) => Loses(w)
  BY <1>1, <1>2, OverdueFacts DEF Loses
<1> QED BY <1>1, <1>3, <1>4, OnlyMoves DEF Moves

(* A completion reports the outcome of the leased attempt.                   *)
LEMMA CompleteMoves ==
    ASSUME HistInv, NEW c \in Callers, NEW l \in LeaseIds, NEW outcome \in Outcomes,
           NEW at \in RetryTimes(c), Complete(c, l, outcome, at)
    PROVE  \A x \in WorkOrders : Moves(x)
<1> DEFINE w == leases[l].work
           n == leases[l].attempt
           v == Len(leases[l].expires)
           new == OutcomeLog(events[w], w, n, l, v, outcome, NextEvent(w, n, at))
<1>1. ActiveLease(c, l) /\ UNCHANGED max_attempts
  BY DEF Complete
<1>2. CASE ExpireOnUse(c, l)
  BY <1>1, <1>2, ExpireOnUseMoves
<1>3. CASE ~ExpireOnUse(c, l)
  <2>1. events' = [events EXCEPT ![w] = new] /\ formal' = FormalAfter(w, n, outcome)
    BY <1>3 DEF Complete
  <2>2. IndInv /\ Commit(c)
    BY DEF HistInv, Complete
  <2>3. /\ w \in WorkOrders /\ Leased(w)
        /\ Latest(w).lease = l /\ Latest(w).attempt = n /\ Latest(w).reserved = 0
    BY <1>1, <2>2, ActiveFacts DEF ActiveLease
  <2>4. v \in Nat
    BY <2>2, LeaseFacts
  <2>5. at \in Nat
    BY <2>2, CommitTyped, PolicyAssumption DEF RetryTimes
  <2>6. outcome \in ResultStates
    BY PolicyAssumption DEF ResultStates
  <2>7. formal \in [WorkOrders -> [attempt : Nat, state : {"none", "succeeded", "failed"}]]
    BY <2>2 DEF IndInv, TypeOK
  <2> HIDE DEF w, n, v
  <2>8. formal'[w] = IF outcome = "retryable" THEN formal[w]
                     ELSE [attempt |-> n, state |-> outcome]
    BY <2>1, <2>3, <2>7 DEF FormalAfter
  <2>9. Only(w, new)
    BY <1>1, <2>1, <2>3, <2>7 DEF Only, FormalAfter
  <2>10. events'[w] = new => Reports(w, outcome)
    BY <2>3, <2>4, <2>5, <2>8 DEF Reports
  <2> QED BY <2>3, <2>6, <2>9, <2>10, OnlyMoves DEF Moves
<1> QED BY <1>2, <1>3

(* The methods that take a lease token.                                      *)
LEMMA HolderMoves ==
    ASSUME HistInv, NEW c \in Callers, HolderStep(c)
    PROVE  \A x \in WorkOrders : Moves(x)
<1>1. ASSUME NEW l \in LeaseIds, NEW v, ValidateLease(c, l, v)
      PROVE  \A x \in WorkOrders : Moves(x)
  <2>1. CASE ExpireOnUse(c, l)
    BY <1>1, <2>1, ExpireOnUseMoves DEF ValidateLease
  <2>2. CASE ~ExpireOnUse(c, l)
    BY <1>1, <2>2, IdleMoves DEF ValidateLease
  <2> QED BY <2>1, <2>2
<1>2. ASSUME NEW l \in LeaseIds, NEW seconds, Renew(c, l, seconds)
      PROVE  \A x \in WorkOrders : Moves(x)
  <2>1. CASE ExpireOnUse(c, l)
    BY <1>2, <2>1, ExpireOnUseMoves DEF Renew
  <2>2. CASE ~ExpireOnUse(c, l)
    BY <1>2, <2>2, IdleMoves DEF Renew
  <2> QED BY <2>1, <2>2
<1>3. ASSUME NEW l \in LeaseIds, Dispatch(c, l)
      PROVE  \A x \in WorkOrders : Moves(x)
  BY <1>3, IdleMoves DEF Dispatch
<1> QED BY <1>1, <1>2, <1>3, CompleteMoves DEF HolderStep

(* The exact lease a recovery names.                                         *)
LEMMA PlanFacts ==
    ASSUME HistInv, NEW l \in LeaseIds, NEW w, w = leases[l].work, CurrentClaim(l)
    PROVE  /\ w \in WorkOrders /\ w \in ModelWork
           /\ Leased(w)
           /\ Latest(w).lease = l /\ Latest(w).attempt = leases[l].attempt
  BY ClaimFacts DEF HistInv, CurrentClaim

(* A durable answer belongs to a call that was sent.                         *)
LEMMA AnswerFacts ==
    ASSUME HistInv, NEW d \in durable
    PROVE  /\ d.lease \in LeaseIds
           /\ d.version \in Nat /\ d.retry_at \in Nat
           /\ d.outcome \in ResultStates
           /\ \E r \in routed : leases[r.lease].work = leases[d.lease].work
           /\ leases[d.lease].work \in ModelWork => d.outcome # "retryable"
<1>1. d.lease \in LeaseIds
  BY DEF HistInv, IndInv, SentOK, LeaseIds
<1>2. d.version \in Nat /\ d.retry_at \in Nat /\ d.outcome \in ResultStates
  BY DEF HistInv, IndInv, TypeOK
<1>3. /\ \E r \in routed : r.lease = d.lease
      /\ leases[d.lease].work \in ModelWork => d.outcome # "retryable"
  BY DEF HistInv, AnswersOK
<1> QED BY <1>1, <1>2, <1>3

(* A journaled completion reports the leased attempt, or a lost one late.    *)
LEMMA JournaledMoves ==
    ASSUME HistInv, NEW d \in durable, ReconcileJournaled(d)
    PROVE  \A x \in WorkOrders : Moves(x)
<1> DEFINE l == d.lease
           w == leases[l].work
           n == leases[l].attempt
           restored == EventRow(Latest(w).attempt, Latest(w).state, 0, 0, 0,
                                Latest(w).not_before)
           next == IF SameLiveAttempt(d) THEN NextEvent(w, n, d.retry_at) ELSE restored
           new == OutcomeLog(events[w], w, n, l, d.version, d.outcome, next)
<1>1. /\ w \in ConnectorWork
      /\ ~KeyUsed("journal", l)
      /\ ~Reclaimed(d)
      /\ SameLiveAttempt(d) \/ ExpiredUnclaimed(d)
      /\ formal[w] = NoResult
      /\ events' = [events EXCEPT ![w] = new]
      /\ formal' = FormalAfter(w, n, d.outcome)
      /\ receipts' = receipts \cup {Receipt("journal", l, d.outcome)}
      /\ max_attempts' = max_attempts
  BY DEF ReconcileJournaled
<1>2. /\ l \in LeaseIds /\ d.version \in Nat /\ d.retry_at \in Nat
      /\ d.outcome \in ResultStates
      /\ IndInv
  BY AnswerFacts DEF HistInv
<1>3. w \in WorkOrders /\ events[w] # <<>> /\ Enqueued(w)
  <2>1. w \in WorkOrders /\ events[w] # <<>> /\ LogOK(w, events[w], leases, max_attempts[w])
    BY <1>2, LeaseFacts
  <2> QED BY <2>1 DEF LogOK, Enqueued
<1>4. formal \in [WorkOrders -> [attempt : Nat, state : {"none", "succeeded", "failed"}]]
  BY <1>2 DEF IndInv, TypeOK
<1>5. /\ formal'[w] = IF d.outcome = "retryable" THEN formal[w]
                      ELSE [attempt |-> n, state |-> d.outcome]
      /\ \A x \in WorkOrders : x # w => formal'[x] = formal[x]
  BY <1>1, <1>3, <1>4 DEF FormalAfter
<1>6. Only(w, new)
  BY <1>1, <1>5 DEF Only
<1>7. CASE SameLiveAttempt(d)
  <2>1. /\ Leased(w)
        /\ Latest(w).attempt = n /\ Latest(w).lease = l
    BY <1>3, <1>7 DEF SameLiveAttempt, Leased
  <2>2. Latest(w).reserved = 0
    BY <1>1, <1>3, <2>1, WorkKindsAssumption DEF HistInv, HeldOK
  <2>3. new = OutcomeLog(events[w], w, n, l, d.version, d.outcome, NextEvent(w, n, d.retry_at))
    BY <1>7
  <2> HIDE DEF l, w, n, new
  <2>4. events'[w] = new => Reports(w, d.outcome)
    BY <1>2, <1>5, <2>1, <2>2, <2>3 DEF Reports
  <2> QED BY <1>2, <1>3, <1>6, <2>4, OnlyMoves DEF Moves
<1>8. CASE ~SameLiveAttempt(d)
  <2>1. /\ Latest(w).attempt \in {n, n + 1}
        /\ Latest(w).state \in {"ready", "failed"}
        /\ \E i \in 1 .. Len(events[w]) : /\ events[w][i].attempt = n
                                          /\ events[w][i].state = "expired"
    BY <1>1, <1>8 DEF ExpiredUnclaimed
  <2>2. \A k \in LeaseIds : leases[k].work = w => leases[k].attempt <= n
    BY <1>1, <1>2, NotReclaimed
  <2>3. ~JournalUsed(receipts, w, n)
    BY <1>1 DEF KeyUsed, JournalUsed
  <2>4. JournalUsed(receipts', w, n)
    <3>1. /\ Receipt("journal", l, d.outcome) \in receipts'
          /\ Receipt("journal", l, d.outcome).op = "journal"
          /\ Receipt("journal", l, d.outcome).work = w
          /\ Receipt("journal", l, d.outcome).attempt = n
      BY <1>1 DEF Receipt
    <3> QED BY <3>1 DEF JournalUsed
  <2>5. new = OutcomeLog(events[w], w, n, l, d.version, d.outcome, restored)
    BY <1>8
  <2>6. leases[l].work = w /\ leases[l].attempt = n
    OBVIOUS
  <2>7. restored = EventRow(Latest(w).attempt, Latest(w).state, 0, 0, 0, Latest(w).not_before)
    OBVIOUS
  <2> HIDE DEF l, w, n, new, restored
  <2>8. events'[w] = new => ReportsLate(w, l, d.outcome)
    BY <1>1, <1>2, <1>3, <1>5, <2>1, <2>2, <2>3, <2>4, <2>5, <2>6, <2>7 DEF ReportsLate
  <2> QED BY <1>2, <1>3, <1>6, <2>8, OnlyMoves DEF Moves
<1> QED BY <1>7, <1>8

(* A reservation re-appends the leased row over a sent call.                 *)
LEMMA ReserveMoves ==
    ASSUME HistInv, NEW d \in durable, NEW h \in Reservations, ReserveRecovery(d, h)
    PROVE  \A x \in WorkOrders : Moves(x)
<1> DEFINE l == d.lease
           w == leases[l].work
           new == Append(events[w], EventRow(leases[l].attempt, "leased", l, 1, h, 0))
<1>1. /\ CurrentClaim(l)
      /\ events' = [events EXCEPT ![w] = new]
      /\ UNCHANGED <<formal, max_attempts>>
  BY DEF ReserveRecovery, Interrupted
<1>2. /\ l \in LeaseIds
      /\ \E r \in routed : leases[r.lease].work = w
  BY AnswerFacts
<1>3. /\ w \in WorkOrders /\ w \in ModelWork
      /\ Leased(w)
      /\ Latest(w).lease = l /\ Latest(w).attempt = leases[l].attempt
  BY <1>1, <1>2, PlanFacts
<1>4. h \in Nat \ {0}
  BY PolicyAssumption
<1>5. new = Append(events[w], EventRow(Latest(w).attempt, "leased", Latest(w).lease, 1, h, 0))
  BY <1>3
<1> HIDE DEF l, w, new
<1>6. Only(w, new)
  BY <1>1 DEF Only
<1>7. events'[w] = new => Reserves(w)
  BY <1>1, <1>2, <1>3, <1>4, <1>5 DEF Reserves
<1> QED BY <1>3, <1>6, <1>7, OnlyMoves DEF Moves

(* The broker's completion reports the reserved attempt, and is final.       *)
LEMMA DurableMoves ==
    ASSUME HistInv, NEW d \in durable, NEW h \in Reservations, ReconcileDurable(d, h)
    PROVE  \A x \in WorkOrders : Moves(x)
<1> DEFINE l == d.lease
           w == leases[l].work
           n == leases[l].attempt
           new == Append(events[w], EventRow(n, d.outcome, l, 1, 0, 0))
<1>1. /\ CurrentClaim(l)
      /\ events' = [events EXCEPT ![w] = new]
      /\ formal' = FormalAfter(w, n, d.outcome)
      /\ max_attempts' = max_attempts
  BY DEF ReconcileDurable, Interrupted
<1>2. l \in LeaseIds /\ d.outcome \in ResultStates /\ IndInv
  BY AnswerFacts DEF HistInv
<1>3. /\ w \in WorkOrders /\ w \in ModelWork
      /\ Leased(w)
      /\ Latest(w).lease = l /\ Latest(w).attempt = n
  BY <1>1, <1>2, PlanFacts
<1>4. d.outcome # "retryable"
  BY <1>3, AnswerFacts
<1>5. formal \in [WorkOrders -> [attempt : Nat, state : {"none", "succeeded", "failed"}]]
  BY <1>2 DEF IndInv, TypeOK
<1>6. new = OutcomeLog(events[w], w, n, l, 1, d.outcome, NextEvent(w, n, 0))
  BY <1>4 DEF OutcomeLog
<1> HIDE DEF l, w, n, new
<1>7. Only(w, new) /\ formal'[w] = [attempt |-> n, state |-> d.outcome]
  BY <1>1, <1>3, <1>4, <1>5 DEF Only, FormalAfter
<1>8. 1 \in Nat /\ 0 \in Nat
  OBVIOUS
<1>9. events'[w] = new => Reports(w, d.outcome)
  BY <1>3, <1>4, <1>6, <1>7, <1>8 DEF Reports
<1> QED BY <1>2, <1>3, <1>7, <1>9, OnlyMoves DEF Moves

(* An interrupted attempt that was never sent, or whose holder is gone, is   *)
(* lost.                                                                     *)
LEMMA UndispatchedMoves ==
    ASSUME HistInv, NEW l \in LeaseIds, ReconcileUndispatched(l) \/ ExpireOrphaned(l)
    PROVE  \A x \in WorkOrders : Moves(x)
<1> DEFINE w == leases[l].work
<1>1. CurrentClaim(l) /\ UNCHANGED <<formal, max_attempts>>
  BY DEF ReconcileUndispatched, ExpireOrphaned, Interrupted
<1>2. /\ w \in WorkOrders /\ w \in ModelWork
      /\ Leased(w)
      /\ Latest(w).lease = l /\ Latest(w).attempt = leases[l].attempt
  BY <1>1, PlanFacts
<1>3. Len(leases[l].expires) \in Nat
  BY LeaseFacts DEF HistInv
<1>4. \E v \in Nat : /\ events' = [events EXCEPT ![w] = LostLog(w, v)]
                     /\ Latest(w).reserved = 0 \/ \A r \in routed : leases[r.lease].work # w
  <2>1. CASE ReconcileUndispatched(l)
    <3>1. events' = [events EXCEPT ![w] = LostLog(w, 1)]
      BY <1>2, <2>1 DEF ReconcileUndispatched, LostLog
    <3>2. \A r \in routed : leases[r.lease].work # w
      BY <2>1 DEF ReconcileUndispatched
    <3> QED BY <3>1, <3>2
  <2>2. CASE ExpireOrphaned(l)
    <3>1. events' = [events EXCEPT ![w] = ExpireOne(events[w], w)] /\ Latest(w).reserved = 0
      BY <2>2 DEF ExpireOrphaned
    <3>2. ExpireOne(events[w], w) = LostLog(w, Len(leases[l].expires))
      BY <1>2 DEF ExpireOne, LostLog, Latest
    <3> QED BY <1>3, <3>1, <3>2
  <2> QED BY <2>1, <2>2
<1>5. PICK v \in Nat : /\ events' = [events EXCEPT ![w] = LostLog(w, v)]
                       /\ Latest(w).reserved = 0 \/ \A r \in routed : leases[r.lease].work # w
  BY <1>4
<1> HIDE DEF w
<1>6. Only(w, LostLog(w, v))
  BY <1>1, <1>5 DEF Only
<1>7. MayLose(w)
  BY <1>2, <1>5 DEF MayLose
<1>8. events'[w] = LostLog(w, v) => Loses(w)
  BY <1>1, <1>5, <1>7 DEF Loses
<1> QED BY <1>2, <1>6, <1>8, OnlyMoves DEF Moves

(* An enqueue opens the first attempt of a WorkOrder.                        *)
LEMMA EnqueueMoves ==
    ASSUME HistInv, NEW w \in WorkOrders, Enqueue(w)
    PROVE  \A x \in WorkOrders : Moves(x)
<1>1. /\ max_attempts \in [WorkOrders -> Nat]
      /\ events \in [WorkOrders -> Seq(Event)]
  BY DEF HistInv, IndInv, TypeOK
<1>2. /\ max_attempts[w] = 0
      /\ max_attempts'[w] \in 1 .. PolicyMaxAttempts
  BY <1>1, PolicyAssumption DEF Enqueue, Enqueued
<1>3. events'[w] = <<EventRow(1, "ready", 0, 0, 0, 0)>> /\ formal' = formal
  BY <1>1 DEF Enqueue
<1>4. ASSUME NEW x \in WorkOrders, x # w PROVE Moves(x)
  BY <1>1, <1>3, <1>4 DEF Enqueue, Moves, Stays
<1>5. Moves(w)
  BY <1>2, <1>3 DEF Moves, Opens
<1> QED BY <1>4, <1>5

(* Every step of the Scheduler moves each WorkOrder in one of these ways,    *)
(* and never takes a receipt away.                                           *)
LEMMA EveryMove ==
    ASSUME HistInv, [Next]_vars
    PROVE  /\ \A x \in WorkOrders : Moves(x)
           /\ receipts \subseteq receipts'
<1>1. \A x \in WorkOrders : Moves(x)
  <2>1. ASSUME Tick \/ UNCHANGED vars
        PROVE  \A x \in WorkOrders : Moves(x)
    BY <2>1, IdleMoves DEF Tick, vars
  <2>2. ASSUME NEW c \in Callers, Crash(c) \/ Begin(c) \/ Return(c)
        PROVE  \A x \in WorkOrders : Moves(x)
    BY <2>2, IdleMoves DEF Crash, Begin, Return
  <2>3. ASSUME NEW c \in Callers, CallerStep(c)
        PROVE  \A x \in WorkOrders : Moves(x)
    BY <2>2, <2>3, ClaimMoves, HolderMoves DEF CallerStep
  <2>4. ASSUME RecoveryStep
        PROVE  \A x \in WorkOrders : Moves(x)
    <3>1. ASSUME NEW r, NEW outcome, NEW delay, Respond(r, outcome, delay)
          PROVE  \A x \in WorkOrders : Moves(x)
      BY <3>1, IdleMoves DEF Respond
    <3> QED BY <2>4, <3>1, JournaledMoves, ReserveMoves, DurableMoves, UndispatchedMoves
            DEF RecoveryStep
  <2> QED BY <2>1, <2>2, <2>3, <2>4, EnqueueMoves DEF Next
<1>2. receipts \subseteq receipts'
  <2>1. ASSUME NEW c, CallerStep(c) PROVE receipts \subseteq receipts'
    <3>1. CASE Begin(c) \/ Return(c) \/ Sweep(c)
      BY <3>1 DEF Begin, Return, Sweep
    <3>2. CASE ClaimStep(c)
      BY <3>2 DEF ClaimStep, Claim, ClaimAny
    <3>3. CASE HolderStep(c)
      <4>1. ASSUME NEW l, NEW v, ValidateLease(c, l, v) PROVE receipts' = receipts
        BY <4>1 DEF ValidateLease, ExpireOnUse
      <4>2. ASSUME NEW l, NEW seconds, Renew(c, l, seconds) PROVE receipts' = receipts
        BY <4>2 DEF Renew, ExpireOnUse
      <4>3. ASSUME NEW l, NEW outcome, NEW at, Complete(c, l, outcome, at)
            PROVE  receipts \subseteq receipts'
        BY <4>3 DEF Complete, ExpireOnUse
      <4>4. ASSUME NEW l, Dispatch(c, l) PROVE receipts' = receipts
        BY <4>4 DEF Dispatch
      <4> QED BY <3>3, <4>1, <4>2, <4>3, <4>4 DEF HolderStep
    <3> QED BY <2>1, <3>1, <3>2, <3>3 DEF CallerStep
  <2>2. ASSUME RecoveryStep PROVE receipts \subseteq receipts'
    BY <2>2 DEF RecoveryStep, Respond, ReconcileJournaled, ReserveRecovery, ReconcileDurable,
       ReconcileUndispatched, ExpireOrphaned
  <2>3. ASSUME Tick \/ UNCHANGED vars PROVE receipts \subseteq receipts'
    BY <2>3 DEF Tick, vars
  <2> QED BY <2>1, <2>2, <2>3 DEF Next, Enqueue, Crash
<1> QED BY <1>1, <1>2

-----------------------------------------------------------------------------
(* The other tables *)

(* Leases are only added to, and a new one is the current lease of its       *)
(* WorkOrder.                                                                *)
LeasesGrow ==
    /\ Len(leases') \in Nat
    /\ \A l \in LeaseIds : /\ l \in LeaseIds'
                           /\ leases'[l].work = leases[l].work
                           /\ leases'[l].attempt = leases[l].attempt
    /\ \/ Len(leases') = Len(leases)
       \/ /\ Len(leases') = Len(leases) + 1
          /\ \E w \in WorkOrders : /\ leases'[Len(leases')].work = w
                                   /\ events'[w] # <<>>
                                   /\ LastOf(events'[w]).state = "leased"
                                   /\ LastOf(events'[w]).lease = Len(leases')

(* A step that leaves the lease table alone.                                 *)
LEMMA SameLeasesGrow ==
    ASSUME IndInv, leases' = leases
    PROVE  LeasesGrow
<1>1. leases \in Seq(Lease)
  BY DEF IndInv, TypeOK
<1> QED BY <1>1 DEF LeasesGrow, LeaseIds

(* A grant adds one lease, and it is the current one.                        *)
LEMMA GrantGrows ==
    ASSUME IndInv, NEW c \in Callers, NEW among, NEW now, NEW w \in WorkOrders,
           NEW seconds \in LeaseRequests,
           Claimable(ExpireDueAmong(among, now)[w], w, now),
           GrantLease(c, w, seconds, ExpireDueAmong(among, now), IndexAfterExpiry(among, now))
    PROVE  LeasesGrow
<1> DEFINE log == ExpireDueAmong(among, now)
           n == LastOf(log[w]).attempt
           l == Len(leases) + 1
           e == EventRow(n, "leased", l, 1, 0, 0)
           lease == [work |-> w, attempt |-> n, owner |-> c, issued_at |-> call[c].now,
                     expires |-> <<call[c].now + seconds>>]
<1>1. /\ leases \in Seq(Lease)
      /\ call[c].now \in Nat
      /\ seconds \in Nat
  BY PolicyAssumption DEF IndInv, TypeOK
<1>2. log[w] \in Seq(Event) /\ log[w] # <<>>
  BY TablesExpire DEF IndInv, Tables, Claimable
<1>3. n \in Nat \ {0}
  <2> HIDE DEF log
  <2>1. LastOf(log[w]) \in Event
    BY <1>2, LastEvent
  <2> QED BY <2>1 DEF Event
<1>4. /\ leases' = Append(leases, lease)
      /\ events' = [log EXCEPT ![w] = Append(log[w], e)]
  BY DEF GrantLease
<1>5. lease \in Lease
  BY <1>1, <1>3 DEF Lease
<1>6. e \in Event /\ e.state = "leased" /\ e.lease = l
  BY <1>1, <1>3 DEF EventRow, Event, AttemptStates
<1>7. DOMAIN log = WorkOrders
  BY DEF ExpireDueAmong
<1>8. events'[w] = Append(log[w], e)
  BY <1>4, <1>7
<1>9. lease.work = w
  OBVIOUS
<1> HIDE DEF lease, e, log, n
<1>10. /\ Len(leases') = l /\ Len(leases) \in Nat
       /\ LastOf(leases') = lease
       /\ \A k \in 1 .. Len(leases) : leases'[k] = leases[k]
  BY <1>1, <1>4, <1>5, AppendedLog
<1>11. events'[w] # <<>> /\ LastOf(events'[w]) = e
  BY <1>2, <1>6, <1>8, AppendedLog
<1>12. leases'[Len(leases')].work = w
  BY <1>9, <1>10 DEF LastOf
<1>13. \A k \in LeaseIds : k \in LeaseIds' /\ leases'[k] = leases[k]
  BY <1>10 DEF LeaseIds
<1> QED BY <1>6, <1>10, <1>11, <1>12, <1>13 DEF LeasesGrow

(* A renewal changes neither the WorkOrder nor the attempt of a lease.       *)
LEMMA RenewGrows ==
    ASSUME IndInv, NEW c \in Callers, NEW l \in LeaseIds, NEW seconds \in RenewRequests,
           Renew(c, l, seconds)
    PROVE  LeasesGrow
<1>1. CASE leases' = leases
  BY <1>1, SameLeasesGrow
<1>2. CASE leases' # leases
  <2>1. PICK expiry : leases' = [leases EXCEPT ![l].expires = Append(@, expiry)]
    BY <1>2 DEF Renew, ExpireOnUse
  <2>2. leases \in Seq(Lease)
    BY DEF IndInv, TypeOK
  <2>3. /\ Len(leases') = Len(leases) /\ Len(leases) \in Nat
        /\ DOMAIN leases = 1 .. Len(leases)
    BY <2>1, <2>2
  <2>4. \A k \in LeaseIds : /\ leases'[k].work = leases[k].work
                            /\ leases'[k].attempt = leases[k].attempt
    <3> SUFFICES ASSUME NEW k \in LeaseIds
                 PROVE  /\ leases'[k].work = leases[k].work
                        /\ leases'[k].attempt = leases[k].attempt
      OBVIOUS
    <3>1. leases[k] \in Lease
      BY LeaseFacts
    <3>2. CASE k # l
      BY <2>1, <2>3, <3>2 DEF LeaseIds
    <3>3. CASE k = l
      <4>1. leases'[k] = [leases[k] EXCEPT !.expires = Append(@, expiry)]
        BY <2>1, <2>3, <3>3 DEF LeaseIds
      <4> QED BY <3>1, <4>1 DEF Lease
    <3> QED BY <3>2, <3>3
  <2> QED BY <2>3, <2>4 DEF LeasesGrow, LeaseIds
<1> QED BY <1>1, <1>2

(* Every step only adds to the leases and to the sent calls.                 *)
LEMMA EveryLease ==
    ASSUME IndInv, [Next]_vars
    PROVE  LeasesGrow /\ routed \subseteq routed'
<1>1. ASSUME NEW c \in Callers, ClaimStep(c) PROVE LeasesGrow
  <2>1. ASSUME NEW w \in WorkOrders, NEW seconds \in LeaseRequests, Claim(c, w, seconds)
        PROVE  LeasesGrow
    BY <2>1, GrantGrows, SameLeasesGrow DEF Claim
  <2>2. ASSUME NEW seconds \in LeaseRequests, ClaimAny(c, seconds)
        PROVE  LeasesGrow
    BY <2>2, GrantGrows, SameLeasesGrow DEF ClaimAny
  <2> QED BY <1>1, <2>1, <2>2 DEF ClaimStep
<1>2. ASSUME NEW c \in Callers, HolderStep(c) PROVE LeasesGrow
  <2>1. ASSUME NEW l, NEW v, ValidateLease(c, l, v) PROVE leases' = leases
    BY <2>1 DEF ValidateLease, ExpireOnUse
  <2>2. ASSUME NEW l, NEW outcome, NEW at, Complete(c, l, outcome, at) PROVE leases' = leases
    BY <2>2 DEF Complete, ExpireOnUse
  <2>3. ASSUME NEW l, Dispatch(c, l) PROVE leases' = leases
    BY <2>3 DEF Dispatch
  <2> QED BY <1>2, <2>1, <2>2, <2>3, RenewGrows, SameLeasesGrow DEF HolderStep
<1>3. ASSUME NEW c \in Callers, Crash(c) \/ Begin(c) \/ Return(c) \/ Sweep(c)
      PROVE  leases' = leases
  BY <1>3 DEF Crash, Begin, Return, Sweep
<1>4. ASSUME RecoveryStep PROVE leases' = leases
  BY <1>4 DEF RecoveryStep, Respond, ReconcileJournaled, ReserveRecovery, ReconcileDurable,
     ReconcileUndispatched, ExpireOrphaned
<1>5. ASSUME Tick \/ (\E w \in WorkOrders : Enqueue(w)) \/ UNCHANGED vars
      PROVE  leases' = leases
  BY <1>5 DEF Tick, Enqueue, vars
<1>6. LeasesGrow
  BY <1>1, <1>2, <1>3, <1>4, <1>5, SameLeasesGrow DEF Next, CallerStep
<1>7. routed \subseteq routed'
  <2>1. ASSUME NEW c, CallerStep(c) PROVE routed \subseteq routed'
    <3>1. CASE Begin(c) \/ Return(c) \/ Sweep(c)
      BY <3>1 DEF Begin, Return, Sweep, Commit
    <3>2. CASE ClaimStep(c)
      BY <3>2 DEF ClaimStep, Claim, ClaimAny, Commit
    <3>3. CASE HolderStep(c)
      <4>1. ASSUME NEW l, NEW v, ValidateLease(c, l, v) PROVE routed \subseteq routed'
        BY <4>1 DEF ValidateLease, ExpireOnUse
      <4>2. ASSUME NEW l, NEW seconds, Renew(c, l, seconds) PROVE routed' = routed
        BY <4>2 DEF Renew, ExpireOnUse
      <4>3. ASSUME NEW l, NEW outcome, NEW at, Complete(c, l, outcome, at)
            PROVE  routed' = routed
        BY <4>3 DEF Complete, ExpireOnUse
      <4>4. ASSUME NEW l, Dispatch(c, l) PROVE routed \subseteq routed'
        BY <4>4 DEF Dispatch
      <4> QED BY <3>3, <4>1, <4>2, <4>3, <4>4 DEF HolderStep
    <3> QED BY <2>1, <3>1, <3>2, <3>3 DEF CallerStep
  <2>2. ASSUME RecoveryStep PROVE routed \subseteq routed'
    BY <2>2 DEF RecoveryStep, Respond, ReconcileJournaled, ReserveRecovery, ReconcileDurable,
       ReconcileUndispatched, ExpireOrphaned
  <2>3. ASSUME Tick \/ UNCHANGED vars PROVE routed \subseteq routed'
    BY <2>3 DEF Tick, vars
  <2> QED BY <2>1, <2>2, <2>3 DEF Next, Enqueue, Crash
<1> QED BY <1>6, <1>7

(* A new lease has a newer attempt than every lease of its WorkOrder.        *)
LEMMA LeaseOrderStep ==
    ASSUME HistInv, IndInv', LeasesGrow
    PROVE  LeaseOrder'
<1> SUFFICES ASSUME NEW k \in LeaseIds', NEW l \in LeaseIds', k < l,
                    leases'[k].work = leases'[l].work
             PROVE  leases'[k].attempt < leases'[l].attempt
  BY DEF LeaseOrder
<1>1. Len(leases) \in Nat /\ Len(leases') \in Nat
  BY DEF LeasesGrow, HistInv, IndInv, TypeOK
<1>2. CASE l \in LeaseIds
  <2>1. k \in LeaseIds
    BY <1>1, <1>2 DEF LeaseIds
  <2>2. leases[k].attempt < leases[l].attempt
    BY <1>2, <2>1 DEF LeasesGrow, HistInv, LeaseOrder
  <2> QED BY <1>2, <2>1, <2>2 DEF LeasesGrow
<1>3. CASE l \notin LeaseIds
  <2>1. l = Len(leases') /\ Len(leases') = Len(leases) + 1
    BY <1>1, <1>3 DEF LeasesGrow, LeaseIds
  <2>2. PICK w \in WorkOrders : /\ leases'[l].work = w
                                /\ events'[w] # <<>>
                                /\ LastOf(events'[w]).state = "leased"
                                /\ LastOf(events'[w]).lease = l
    BY <1>1, <2>1 DEF LeasesGrow
  <2>3. /\ LogOK(w, events'[w], leases', max_attempts'[w])
        /\ LeasesOK(leases')
        /\ leases' \in Seq(Lease)
    BY DEF IndInv, Tables
  <2>4. events'[w] \in Seq(Event) /\ leases'[k] \in Lease /\ leases'[l] \in Lease
    BY <2>3 DEF LogOK, LeaseIds
  <2>5. /\ LastOf(events'[w]) = events'[w][Len(events'[w])]
        /\ Len(events'[w]) \in 1 .. Len(events'[w])
    BY <2>2, <2>4, LastEvent
  <2>6. leases'[l].attempt = LastOf(events'[w]).attempt
    BY <2>2, <2>3, <2>5 DEF LogOK
  <2>7. leases'[k].attempt <= LastOf(events'[w]).attempt
    BY <2>2, <2>3 DEF LogOK, LeaseIds
  <2>8. leases'[k].attempt # leases'[l].attempt
    BY <1>1, <2>3 DEF LeasesOK, LeaseIds
  <2>9. leases'[k].attempt \in Nat /\ leases'[l].attempt \in Nat
    BY <2>4 DEF Lease
  <2> QED BY <2>6, <2>7, <2>8, <2>9
<1> QED BY <1>2, <1>3

(* A reservation is put only on a sent model call, and the next row of the   *)
(* WorkOrder takes it away again.                                            *)
LEMMA HeldStep ==
    ASSUME HistInv, LeasesGrow, routed \subseteq routed', NEW w \in WorkOrders, Moves(w)
    PROVE  HeldOK(w)'
<1> SUFFICES ASSUME Leased(w)', (Latest(w).reserved # 0)'
             PROVE  w \in ModelWork /\ \E r \in routed' : leases'[r.lease].work = w
  BY DEF HeldOK
<1>1. ASSUME \E r \in routed : leases[r.lease].work = w
      PROVE  \E r \in routed' : leases'[r.lease].work = w
  <2>1. PICK r \in routed : leases[r.lease].work = w
    BY <1>1
  <2>2. r.lease \in LeaseIds
    BY DEF HistInv, IndInv, SentOK, LeaseIds
  <2> QED BY <2>1, <2>2 DEF LeasesGrow
<1>2. ASSUME Enqueued(w), NEW e \in Event, NEW log \in Seq(Event), events'[w] = Append(log, e)
      PROVE  e.state = "leased" /\ e.reserved # 0
  <2>1. LastOf(events'[w]) = e
    BY <1>2, AppendedLog
  <2> QED BY <2>1 DEF Leased, Latest
<1>3. ASSUME NEW n \in Nat \ {0}, NEW at \in Nat, max_attempts[w] \in Nat
      PROVE  /\ NextEvent(w, n, at).state # "leased"
             /\ NextEvent(w, n, at) \in Event
  BY <1>3 DEF NextEvent, EventRow, Event, AttemptStates
<1>4. ASSUME Enqueued(w), NEW v \in Nat
      PROVE  LostLog(w, v) \in Seq(Event) /\ events'[w] # LostLog(w, v)
  <2>1. /\ events[w] \in Seq(Event)
        /\ Latest(w) \in Event
        /\ Latest(w).attempt \in Nat \ {0}
        /\ max_attempts[w] \in Nat
    BY <1>4, EnqueuedFacts
  <2> DEFINE e == EventRow(Latest(w).attempt, "expired", Latest(w).lease, v, 0, 0)
  <2>2. e \in Event
    BY <2>1 DEF EventRow, Event, AttemptStates
  <2> HIDE DEF e
  <2>3. Append(events[w], e) \in Seq(Event)
    BY <2>1, <2>2
  <2>4. NextEvent(w, Latest(w).attempt, 0) \in Event
    BY <2>1, <1>3
  <2>5. NextEvent(w, Latest(w).attempt, 0).state # "leased"
    BY <2>1, <1>3
  <2> DEFINE log == Append(events[w], e)
             next == NextEvent(w, Latest(w).attempt, 0)
  <2>6. LostLog(w, v) = Append(log, next)
    BY DEF LostLog, e
  <2> HIDE DEF log, next, NextEvent
  <2>7. log \in Seq(Event) /\ next \in Event /\ next.state # "leased"
    BY <2>3, <2>4, <2>5 DEF log, next
  <2>8. events'[w] # Append(log, next)
    BY <1>2, <1>4, <2>7
  <2> QED BY <2>6, <2>7, <2>8
<1>5. ~Opens(w)
  <2>1. ASSUME Opens(w) PROVE Latest(w)'.state = "ready"
    <3>1. events'[w] = <<EventRow(1, "ready", 0, 0, 0, 0)>>
      BY <2>1 DEF Opens
    <3> QED BY <3>1 DEF Latest, LastOf, EventRow
  <2> QED BY <2>1 DEF Leased, Latest
<1>6. max_attempts'[w] = max_attempts[w] /\ Enqueued(w)
  BY <1>5 DEF Moves, Leased, Enqueued
<1>7. CASE Stays(w)
  <2>1. Leased(w) /\ Latest(w).reserved # 0
    BY <1>6, <1>7 DEF Stays, Leased, Latest, Enqueued
  <2> QED BY <2>1, <1>1 DEF HistInv, HeldOK
<1>8. CASE Reserves(w)
  BY <1>1, <1>8 DEF Reserves
<1>9. ~Grants(w) /\ ~Regrants(w)
  <2>1. ASSUME NEW n \in Nat \ {0}, NEW l \in Nat
        PROVE  LeasedRow(n, l) \in Event /\ LeasedRow(n, l).reserved = 0
    BY DEF LeasedRow, EventRow, Event, AttemptStates
  <2>2. Len(leases) + 1 \in Nat /\ Latest(w).attempt \in Nat \ {0} /\ events[w] \in Seq(Event)
        /\ Latest(w).attempt + 1 \in Nat \ {0}
    BY <1>6, EnqueuedFacts
  <2>3. ~Grants(w)
    <3>1. LeasedRow(Latest(w).attempt, Len(leases) + 1) \in Event
      BY <2>1, <2>2
    <3>2. LeasedRow(Latest(w).attempt, Len(leases) + 1).reserved = 0
      BY <2>1, <2>2
    <3> QED BY <1>2, <1>6, <2>2, <3>1, <3>2 DEF Grants
  <2>4. ~Regrants(w)
    <3>1. LeasedRow(Latest(w).attempt + 1, Len(leases) + 1) \in Event
      BY <2>1, <2>2
    <3>2. LeasedRow(Latest(w).attempt + 1, Len(leases) + 1).reserved = 0
      BY <2>1, <2>2
    <3>3. ASSUME NEW v \in Nat
          PROVE  events'[w] # Append(LostLog(w, v), LeasedRow(Latest(w).attempt + 1, Len(leases) + 1))
      <4>1. LostLog(w, v) \in Seq(Event)
        BY <1>4, <1>6
      <4> HIDE DEF LostLog, LeasedRow
      <4> QED BY <1>2, <1>6, <3>1, <3>2, <4>1
    <3> QED BY <3>3 DEF Regrants
  <2> QED BY <2>3, <2>4
<1>10. ~Loses(w)
  BY <1>4, <1>6 DEF Loses
<1>11. ASSUME NEW outcome \in ResultStates, NEW n \in Nat \ {0}, NEW l \in Nat, NEW v \in Nat,
              NEW next \in Event, next.state # "leased"
       PROVE  events'[w] # OutcomeLog(events[w], w, n, l, v, outcome, next)
  <2> DEFINE e == EventRow(n, outcome, l, v, 0, 0)
  <2>1. e \in Event /\ e.state # "leased" /\ events[w] \in Seq(Event)
    BY <1>6, EnqueuedFacts DEF EventRow, Event, AttemptStates, ResultStates
  <2> HIDE DEF e
  <2>2. Append(events[w], e) \in Seq(Event)
    BY <2>1
  <2> QED BY <1>2, <1>6, <1>11, <2>1, <2>2 DEF OutcomeLog, e
<1>12. ASSUME NEW outcome \in ResultStates PROVE ~Reports(w, outcome)
  <2>1. /\ Latest(w) \in Event
        /\ Latest(w).attempt \in Nat \ {0}
        /\ max_attempts[w] \in Nat
    BY <1>6, EnqueuedFacts
  <2>2. Latest(w).lease \in Nat
    BY <2>1 DEF Event
  <2> QED BY <1>3, <1>11, <1>12, <2>1, <2>2 DEF Reports
<1>13. ASSUME NEW l \in LeaseIds, NEW outcome \in ResultStates PROVE ~ReportsLate(w, l, outcome)
  <2> SUFFICES ASSUME ReportsLate(w, l, outcome) PROVE FALSE
    OBVIOUS
  <2>1. Latest(w) \in Event /\ leases \in Seq(Lease)
    BY <1>6, EnqueuedFacts
  <2>2. leases[l] \in Lease /\ l \in Nat
    BY <2>1 DEF LeaseIds
  <2>3. leases[l].attempt \in Nat \ {0}
    BY <2>2 DEF Lease
  <2>4. EventRow(Latest(w).attempt, Latest(w).state, 0, 0, 0, Latest(w).not_before) \in Event
    BY <2>1 DEF EventRow, Event
  <2>5. EventRow(Latest(w).attempt, Latest(w).state, 0, 0, 0, Latest(w).not_before).state
           # "leased"
    BY DEF EventRow, ReportsLate
  <2> QED BY <1>11, <2>2, <2>3, <2>4, <2>5 DEF ReportsLate
<1> QED BY <1>5, <1>7, <1>8, <1>9, <1>10, <1>12, <1>13 DEF Moves

(* The clock never goes back.                                                *)
LEMMA ClockRuns ==
    ASSUME IndInv, [Next]_vars
    PROVE  clock \in Nat /\ clock' \in Nat /\ clock <= clock'
<1>0. clock \in Nat
  BY DEF IndInv, TypeOK
<1>1. ASSUME NEW c, CallerStep(c) \/ Crash(c) PROVE clock' = clock
  <2>1. CASE Begin(c) \/ Return(c) \/ Sweep(c) \/ Crash(c)
    BY <2>1 DEF Begin, Return, Sweep, Crash, Commit
  <2>2. CASE ClaimStep(c)
    BY <2>2 DEF ClaimStep, Claim, ClaimAny, Commit
  <2>3. CASE HolderStep(c)
    <3>1. ASSUME NEW l, NEW v, ValidateLease(c, l, v) PROVE clock' = clock
      BY <3>1 DEF ValidateLease, Commit
    <3>2. ASSUME NEW l, NEW seconds, Renew(c, l, seconds) PROVE clock' = clock
      BY <3>2 DEF Renew, Commit
    <3>3. ASSUME NEW l, NEW outcome, NEW at, Complete(c, l, outcome, at)
          PROVE  clock' = clock
      BY <3>3 DEF Complete, Commit
    <3>4. ASSUME NEW l, Dispatch(c, l) PROVE clock' = clock
      BY <3>4 DEF Dispatch
    <3> QED BY <2>3, <3>1, <3>2, <3>3, <3>4 DEF HolderStep
  <2> QED BY <1>1, <2>1, <2>2, <2>3 DEF CallerStep
<1>2. ASSUME UNCHANGED vars \/ (\E w \in WorkOrders : Enqueue(w)) \/ RecoveryStep
      PROVE  clock' = clock
  BY <1>2 DEF vars, Enqueue, RecoveryStep, Respond, ReconcileJournaled, ReserveRecovery,
     ReconcileDurable, ReconcileUndispatched, ExpireOrphaned
<1> QED BY <1>0, <1>1, <1>2 DEF Next, Tick

(* A reading is taken from a clock that only moves forward.                  *)
LEMMA ReadingStep ==
    ASSUME HistInv, [Next]_vars
    PROVE  \A c \in Callers : call'[c].now <= clock'
<1>1. /\ clock \in Nat
      /\ call \in [Callers -> [open : BOOLEAN, now : Nat, due : SUBSET WorkOrders]]
      /\ \A c \in Callers : call[c].now <= clock /\ call[c].now \in Nat
  BY DEF HistInv, IndInv, TypeOK
<1>2. clock' \in Nat /\ clock <= clock'
  BY ClockRuns DEF HistInv
<1>3. \A c \in Callers : call'[c] = call[c] \/ call'[c] = NoCall \/ call'[c].now = clock
  <2>1. ASSUME Tick \/ UNCHANGED vars \/ (\E w \in WorkOrders : Enqueue(w)) \/ RecoveryStep
        PROVE  call' = call
    BY <2>1 DEF Tick, vars, Enqueue, RecoveryStep, Respond, ReconcileJournaled, ReserveRecovery,
       ReconcileDurable, ReconcileUndispatched, ExpireOrphaned
  <2>2. ASSUME NEW c \in Callers, CallerStep(c) \/ Crash(c)
        PROVE  \/ call' = call
               \/ call' = [call EXCEPT ![c] = NoCall]
               \/ call' = [call EXCEPT ![c] = [open |-> TRUE, now |-> clock,
                                               due |-> DueCandidates(clock)]]
    BY <2>2 DEF CallerStep, Crash, Begin, Return, ClaimStep, Claim, ClaimAny, Sweep, HolderStep,
       ValidateLease, Renew, Complete, Dispatch, Commit
  <2> QED BY <1>1, <2>1, <2>2 DEF Next
<1> QED BY <1>1, <1>2, <1>3 DEF NoCall

(* Answers are recorded for sent calls only, and once they are they stay.    *)
LEMMA AnswersStep ==
    ASSUME HistInv, LeasesGrow, routed \subseteq routed', [Next]_vars
    PROVE  AnswersOK'
<1>1. ASSUME NEW d \in durable'
      PROVE  \/ d \in durable
             \/ /\ \E r \in routed : r.lease = d.lease
                /\ leases[d.lease].work \in ModelWork => d.outcome # "retryable"
  <2>1. ASSUME NEW c, CallerStep(c) \/ Crash(c) PROVE durable' = durable
    BY <2>1 DEF CallerStep, Crash, Begin, Return, ClaimStep, Claim, ClaimAny, Sweep, HolderStep,
       ValidateLease, Renew, Complete, Dispatch, Commit
  <2>2. ASSUME NEW e \in durable,
               \/ ReconcileJournaled(e)
               \/ \E h \in Reservations : ReserveRecovery(e, h) \/ ReconcileDurable(e, h)
        PROVE  durable' = durable
    BY <2>2 DEF ReconcileJournaled, ReserveRecovery, ReconcileDurable
  <2>3. ASSUME \/ UNCHANGED vars
               \/ Tick
               \/ \E w \in WorkOrders : Enqueue(w)
               \/ \E l \in LeaseIds : ReconcileUndispatched(l) \/ ExpireOrphaned(l)
        PROVE  durable' = durable
    BY <2>3 DEF vars, Enqueue, Tick, ReconcileUndispatched, ExpireOrphaned
  <2>4. ASSUME NEW r \in routed, NEW outcome \in Outcomes, NEW delay \in RetryDelays,
               Respond(r, outcome, delay)
        PROVE  \/ d \in durable
               \/ /\ \E x \in routed : x.lease = d.lease
                  /\ leases[d.lease].work \in ModelWork => d.outcome # "retryable"
    BY <2>4, <1>1, WorkKindsAssumption DEF Respond
  <2> QED BY <1>1, <2>1, <2>2, <2>3, <2>4 DEF Next, RecoveryStep
<1>2. \A d \in durable' : d.lease \in LeaseIds
  <2>1. \A r \in routed : r.lease \in LeaseIds
    BY DEF HistInv, IndInv, SentOK, LeaseIds
  <2>2. \A d \in durable : d.lease \in LeaseIds
    BY DEF HistInv, IndInv, SentOK, LeaseIds
  <2> QED BY <1>1, <2>1, <2>2
<1>3. \A d \in durable' : /\ \E r \in routed' : r.lease = d.lease
                          /\ leases[d.lease].work \in ModelWork => d.outcome # "retryable"
  BY <1>1 DEF HistInv, AnswersOK
<1>4. \A d \in durable' : leases'[d.lease].work = leases[d.lease].work
  BY <1>2 DEF LeasesGrow
<1> QED BY <1>3, <1>4 DEF AnswersOK

-----------------------------------------------------------------------------
(* The theorems *)

(* The empty tables satisfy the invariant.                                   *)
LEMMA InitHistInv == Init => HistInv
<1> SUFFICES ASSUME Init PROVE HistInv
  OBVIOUS
<1>1. IndInv
  BY InitIndInv
<1>2. ASSUME NEW w \in WorkOrders
      PROVE  HistoryOK(w, events[w], formal[w], receipts) /\ HeldOK(w)
  BY DEF Init, HistoryOK, HeldOK, Leased, Enqueued
<1>3. \A c \in Callers : call[c].now <= clock
  BY DEF Init, NoCall
<1>4. LeaseOrder /\ AnswersOK
  BY DEF Init, LeaseOrder, AnswersOK, LeaseIds
<1> QED BY <1>1, <1>2, <1>3, <1>4 DEF HistInv

(* Every step preserves the invariant.                                       *)
LEMMA NextHistInv == HistInv /\ [Next]_vars => HistInv'
<1> SUFFICES ASSUME HistInv, [Next]_vars PROVE HistInv'
  OBVIOUS
<1>1. IndInv'
  BY NextIndInv DEF HistInv
<1>2. LeasesGrow /\ routed \subseteq routed'
  BY EveryLease DEF HistInv
<1>3. (\A w \in WorkOrders : Moves(w)) /\ receipts \subseteq receipts'
  BY EveryMove
<1>4. ASSUME NEW w \in WorkOrders
      PROVE  HistoryOK(w, events'[w], formal'[w], receipts') /\ HeldOK(w)'
  BY <1>2, <1>3, HistoryStep, HeldStep
<1>5. \A c \in Callers : call'[c].now <= clock'
  BY ReadingStep
<1>6. LeaseOrder'
  BY <1>1, <1>2, LeaseOrderStep
<1>7. AnswersOK'
  BY <1>2, AnswersStep
<1> QED BY <1>1, <1>4, <1>5, <1>6, <1>7 DEF HistInv

(* The history invariant holds in every reachable state, for any number of   *)
(* WorkOrders, callers, attempts and instants.                               *)
THEOREM HistoryInvariant == Spec => []HistInv
<1> QED BY InitHistInv, NextHistInv, PTL DEF Spec

(* An attempt never gets a second outcome, whichever of the worker, the      *)
(* journal and the operator reports it.                                      *)
THEOREM OneOutcome == Spec => []OneOutcomePerAttempt
<1>1. HistInv => OneOutcomePerAttempt
  BY DEF HistInv, HistoryOK, OneOutcomePerAttempt
<1> QED BY <1>1, HistoryInvariant, PTL

(* A formal result is the last event of its WorkOrder, and every final       *)
(* outcome has one.                                                          *)
THEOREM ResultStands == Spec => []FormalResultStands
<1>1. HistInv => FormalResultStands
  <2> SUFFICES ASSUME HistInv, NEW w \in WorkOrders
               PROVE  /\ formal[w] # NoResult =>
                            /\ Enqueued(w)
                            /\ IsOutcome(Latest(w))
                            /\ Latest(w).attempt = formal[w].attempt
                            /\ Latest(w).state = formal[w].state
                      /\ \A i \in 1 .. Len(events[w]) :
                            IsOutcome(events[w][i]) /\ events[w][i].state # "retryable"
                            => formal[w] # NoResult
    BY DEF FormalResultStands
  <2>1. HistoryOK(w, events[w], formal[w], receipts)
    BY DEF HistInv
  <2>2. events[w] # <<>> => Enqueued(w)
    BY DEF HistInv, IndInv, Tables, LogOK, Enqueued
  <2> QED BY <2>1, <2>2 DEF HistoryOK, Latest
<1> QED BY <1>1, HistoryInvariant, PTL

-----------------------------------------------------------------------------
(* What a step adds to a log *)

(* Every event of `new` past the end of `log` is in S.                       *)
AddsOnly(log, new, S) ==
    /\ new \in Seq(Event)
    /\ Len(log) <= Len(new)
    /\ \A i \in (Len(log) + 1) .. Len(new) : new[i] \in S

(* One more event appended to a log that grew by events of S.                *)
LEMMA AddsOne ==
    ASSUME NEW log \in Seq(Event), NEW new, NEW S, AddsOnly(log, new, S), NEW e \in Event
    PROVE  AddsOnly(log, Append(new, e), S \cup {e})
<1>1. new \in Seq(Event) /\ Len(log) \in Nat /\ Len(new) \in Nat
  BY DEF AddsOnly
<1> DEFINE more == Append(new, e)
<1>2. /\ more \in Seq(Event)
      /\ Len(more) = Len(new) + 1
      /\ LastOf(more) = e
      /\ \A i \in 1 .. Len(new) : more[i] = new[i]
  BY <1>1, AppendedLog
<1>3. more[Len(more)] = e
  BY <1>2 DEF LastOf
<1> HIDE DEF more
<1>4. ASSUME NEW i \in (Len(log) + 1) .. Len(more) PROVE more[i] \in S \cup {e}
  <2>1. CASE i = Len(more)
    BY <2>1, <1>3
  <2>2. CASE i # Len(more)
    <3>1. i \in (Len(log) + 1) .. Len(new) /\ i \in 1 .. Len(new)
      BY <1>1, <1>2, <2>2
    <3> QED BY <3>1, <1>2 DEF AddsOnly
  <2> QED BY <2>1, <2>2
<1>5. Len(log) <= Len(more)
  BY <1>1, <1>2 DEF AddsOnly
<1> QED BY <1>2, <1>4, <1>5 DEF AddsOnly, more

(* The same events, and their two supersets.                                 *)
LEMMA AddsTwo ==
    ASSUME NEW log \in Seq(Event), NEW e \in Event, NEW f \in Event
    PROVE  /\ AddsOnly(log, log, {})
           /\ AddsOnly(log, Append(log, e), {e})
           /\ AddsOnly(log, Append(Append(log, e), f), {e, f})
<1>1. AddsOnly(log, log, {})
  BY DEF AddsOnly
<1>2. AddsOnly(log, Append(log, e), {} \cup {e})
  BY <1>1, AddsOne
<1>3. {} \cup {e} = {e} /\ {e} \cup {f} = {e, f}
  OBVIOUS
<1>4. AddsOnly(log, Append(log, e), {e})
  BY <1>2, <1>3
<1>5. AddsOnly(log, Append(Append(log, e), f), {e} \cup {f})
  BY <1>4, AddsOne
<1> QED BY <1>1, <1>3, <1>4, <1>5

(* Where the event that ends an attempt can come from.                       *)
EndsBy(w, e) ==
    \/ e.state = "expired" /\ MayLose(w) /\ e.lease = Latest(w).lease
    \/ IsOutcome(e) /\ Leased(w) /\ e.lease = Latest(w).lease
    \/ /\ IsOutcome(e)
       /\ e.lease \in LeaseIds
       /\ \E outcome \in ResultStates : ReportsLate(w, e.lease, outcome)

(* Losing a lease adds its expired event and a row that ends nothing.        *)
LEMMA LostAdds ==
    ASSUME HistInv, NEW w \in WorkOrders, MayLose(w), NEW v \in Nat
    PROVE  \E e, next \in Event : /\ AddsOnly(events[w], LostLog(w, v), {e, next})
                                  /\ EndsBy(w, e)
                                  /\ ~Ended(next)
<1>1. /\ events[w] \in Seq(Event)
      /\ Latest(w) \in Event
      /\ Latest(w).attempt \in Nat \ {0}
      /\ Latest(w).attempt <= max_attempts[w]
      /\ max_attempts[w] \in Nat
  BY EnqueuedFacts DEF MayLose, Leased
<1> DEFINE e == EventRow(Latest(w).attempt, "expired", Latest(w).lease, v, 0, 0)
           next == NextEvent(w, Latest(w).attempt, 0)
<1>2. e \in Event /\ e.state = "expired" /\ e.lease = Latest(w).lease
  BY <1>1 DEF EventRow, Event, AttemptStates
<1>3. next \in Event /\ next.lease = 0 /\ next.state \in {"ready", "failed"}
  BY <1>1, NextRow
<1>4. LostLog(w, v) = Append(Append(events[w], e), next)
  BY DEF LostLog
<1> HIDE DEF e, next
<1>5. AddsOnly(events[w], LostLog(w, v), {e, next})
  BY <1>1, <1>2, <1>3, <1>4, AddsTwo
<1>6. EndsBy(w, e)
  BY <1>2 DEF EndsBy
<1>7. ~Ended(next)
  BY <1>3 DEF Ended, IsOutcome, ResultStates
<1> QED BY <1>2, <1>3, <1>5, <1>6, <1>7

(* Reporting adds one outcome and possibly a row that ends nothing.          *)
LEMMA OutcomeAdds ==
    ASSUME NEW w, NEW log \in Seq(Event), NEW n \in Nat \ {0}, NEW l \in Nat \ {0}, NEW v \in Nat,
           NEW outcome \in ResultStates, NEW next \in Event, next.lease = 0,
           next.state \in {"ready", "failed"}
    PROVE  /\ EventRow(n, outcome, l, v, 0, 0) \in Event
           /\ IsOutcome(EventRow(n, outcome, l, v, 0, 0))
           /\ ~Ended(next)
           /\ AddsOnly(log, OutcomeLog(log, w, n, l, v, outcome, next),
                       {EventRow(n, outcome, l, v, 0, 0), next})
<1> DEFINE e == EventRow(n, outcome, l, v, 0, 0)
<1>1. e \in Event /\ IsOutcome(e) /\ ~Ended(next)
  BY DEF EventRow, Event, AttemptStates, ResultStates, IsOutcome, Ended
<1>2. OutcomeLog(log, w, n, l, v, outcome, next)
         = IF outcome = "retryable" THEN Append(Append(log, e), next) ELSE Append(log, e)
  BY DEF OutcomeLog
<1> HIDE DEF e
<1>3. AddsOnly(log, Append(log, e), {e}) /\ AddsOnly(log, Append(Append(log, e), next), {e, next})
  BY <1>1, AddsTwo
<1>4. AddsOnly(log, Append(log, e), {e, next})
  BY <1>3 DEF AddsOnly
<1> QED BY <1>1, <1>2, <1>3, <1>4 DEF e

(* An event added to a log either ends no attempt, or ends the leased one or *)
(* a lost one as the move says.                                              *)
LEMMA EveryAddition ==
    ASSUME HistInv, NEW w \in WorkOrders, Moves(w), NEW e \in AddedEvents(w), Ended(e)
    PROVE  EndsBy(w, e)
<1>1. events[w] \in Seq(Event) /\ Len(leases) \in Nat
  BY DEF HistInv, IndInv, TypeOK
<1>2. ASSUME NEW S, AddsOnly(events[w], events'[w], S) PROVE e \in S
  BY <1>2 DEF AddedEvents, AddsOnly
<1>3. CASE Opens(w)
  <2>1. events[w] = <<>>
    BY <1>3 DEF Opens, HistInv, IndInv, Tables, LogOK
  <2> DEFINE first == EventRow(1, "ready", 0, 0, 0, 0)
  <2>2. first \in Event /\ ~Ended(first)
    BY DEF EventRow, Event, AttemptStates, Ended, IsOutcome, ResultStates
  <2>3. events'[w] = <<first>>
    BY <1>3 DEF Opens
  <2> HIDE DEF first
  <2>4. AddsOnly(events[w], events'[w], {first})
    BY <2>1, <2>2, <2>3 DEF AddsOnly
  <2> QED BY <1>2, <2>2, <2>4
<1>4. CASE Stays(w)
  <2>1. AddsOnly(events[w], events'[w], {})
    BY <1>1, <1>4 DEF AddsOnly, Stays
  <2> QED BY <1>2, <2>1
<1>5. ASSUME NEW n \in Nat \ {0}, NEW l \in Nat, NEW v \in Nat, NEW h \in Nat
      PROVE  /\ EventRow(n, "leased", l, v, h, 0) \in Event
             /\ ~Ended(EventRow(n, "leased", l, v, h, 0))
  BY DEF EventRow, Event, AttemptStates, Ended, IsOutcome, ResultStates
<1>6. CASE Grants(w) \/ Reserves(w)
  <2>1. Latest(w).attempt \in Nat \ {0} /\ Latest(w) \in Event
    BY <1>6, EnqueuedFacts DEF Grants, Reserves, Leased
  <2>2. Latest(w).lease \in Nat
    BY <2>1 DEF Event
  <2>3. PICK l \in Nat, h \in Nat :
           events'[w] = Append(events[w], EventRow(Latest(w).attempt, "leased", l, 1, h, 0))
    <3>1. CASE Grants(w)
      BY <1>1, <3>1 DEF Grants, LeasedRow
    <3>2. CASE Reserves(w)
      BY <2>2, <3>2 DEF Reserves
    <3> QED BY <1>6, <3>1, <3>2
  <2> DEFINE f == EventRow(Latest(w).attempt, "leased", l, 1, h, 0)
  <2>4. f \in Event /\ ~Ended(f)
    BY <1>5, <2>1
  <2> HIDE DEF f
  <2>5. AddsOnly(events[w], events'[w], {f})
    BY <1>1, <2>3, <2>4, AddsTwo DEF f
  <2> QED BY <1>2, <2>4, <2>5
<1>7. CASE Loses(w)
  <2>1. PICK v \in Nat : MayLose(w) /\ events'[w] = LostLog(w, v)
    BY <1>7 DEF Loses
  <2>2. PICK d, next \in Event : /\ AddsOnly(events[w], LostLog(w, v), {d, next})
                                 /\ EndsBy(w, d)
                                 /\ ~Ended(next)
    BY <2>1, LostAdds
  <2>3. e \in {d, next}
    BY <1>2, <2>1, <2>2
  <2> QED BY <2>2, <2>3
<1>8. CASE Regrants(w)
  <2>1. PICK v \in Nat : /\ MayLose(w)
                         /\ events'[w] = Append(LostLog(w, v),
                               LeasedRow(Latest(w).attempt + 1, Len(leases) + 1))
    BY <1>8 DEF Regrants
  <2>2. PICK d, next \in Event : /\ AddsOnly(events[w], LostLog(w, v), {d, next})
                                 /\ EndsBy(w, d)
                                 /\ ~Ended(next)
    BY <2>1, LostAdds
  <2>3. Latest(w).attempt + 1 \in Nat \ {0} /\ Len(leases) + 1 \in Nat
    BY <1>1, <2>1, EnqueuedFacts DEF MayLose, Leased
  <2> DEFINE f == LeasedRow(Latest(w).attempt + 1, Len(leases) + 1)
  <2>4. f \in Event /\ ~Ended(f)
    BY <1>5, <2>3 DEF LeasedRow
  <2>5. events'[w] = Append(LostLog(w, v), f)
    BY <2>1
  <2> HIDE DEF f
  <2>6. AddsOnly(events[w], events'[w], {d, next} \cup {f})
    BY <1>1, <2>2, <2>4, <2>5, AddsOne
  <2>7. e \in {d, next} \cup {f}
    BY <1>2, <2>6
  <2> QED BY <2>2, <2>4, <2>7
<1>9. ASSUME NEW outcome \in ResultStates, Reports(w, outcome) PROVE EndsBy(w, e)
  <2>1. Leased(w)
    BY <1>9 DEF Reports
  <2>2. /\ Latest(w).attempt \in Nat \ {0}
        /\ Latest(w).attempt <= max_attempts[w]
        /\ max_attempts[w] \in Nat
        /\ Latest(w).lease \in Nat \ {0}
    BY <2>1, EnqueuedFacts, LeasedRowFacts
  <2>3. PICK v \in Nat, at \in Nat :
           events'[w] = OutcomeLog(events[w], w, Latest(w).attempt, Latest(w).lease, v, outcome,
                                   NextEvent(w, Latest(w).attempt, at))
    BY <1>9 DEF Reports
  <2> DEFINE next == NextEvent(w, Latest(w).attempt, at)
             d == EventRow(Latest(w).attempt, outcome, Latest(w).lease, v, 0, 0)
  <2>4. next \in Event /\ next.lease = 0 /\ next.state \in {"ready", "failed"}
    BY <2>2, NextRow
  <2>5. d.lease = Latest(w).lease
    BY DEF EventRow
  <2> HIDE DEF next
  <2>6. ~Ended(next) /\ IsOutcome(d) /\ AddsOnly(events[w], events'[w], {d, next})
    BY <1>1, <2>2, <2>3, <2>4, OutcomeAdds DEF next
  <2> HIDE DEF d
  <2>7. e \in {d, next}
    BY <1>2, <2>6
  <2> QED BY <2>1, <2>5, <2>6, <2>7 DEF EndsBy
<1>10. ASSUME NEW k \in LeaseIds, NEW outcome \in ResultStates, ReportsLate(w, k, outcome)
       PROVE  EndsBy(w, e)
  <2>1. Latest(w) \in Event /\ leases \in Seq(Lease)
    BY <1>10, EnqueuedFacts DEF ReportsLate
  <2>2. k \in Nat \ {0} /\ leases[k] \in Lease
    BY <2>1 DEF LeaseIds
  <2>3. leases[k].attempt \in Nat \ {0}
    BY <2>2 DEF Lease
  <2> DEFINE next == EventRow(Latest(w).attempt, Latest(w).state, 0, 0, 0, Latest(w).not_before)
  <2>4. PICK v \in Nat :
           events'[w] = OutcomeLog(events[w], w, leases[k].attempt, k, v, outcome, next)
    BY <1>10 DEF ReportsLate
  <2> DEFINE d == EventRow(leases[k].attempt, outcome, k, v, 0, 0)
  <2>5. next \in Event /\ next.lease = 0 /\ next.state \in {"ready", "failed"}
    BY <1>10, <2>1 DEF EventRow, Event, ReportsLate
  <2>6. d.lease = k
    BY DEF EventRow
  <2> DEFINE n == leases[k].attempt
  <2>7. ~Ended(next) /\ IsOutcome(d) /\ AddsOnly(events[w], events'[w], {d, next})
    <3>1. /\ n \in Nat \ {0}
          /\ events'[w] = OutcomeLog(events[w], w, n, k, v, outcome, next)
          /\ d = EventRow(n, outcome, k, v, 0, 0)
      BY <2>3, <2>4
    <3> HIDE DEF n, next, d
    <3> QED BY <1>1, <1>10, <2>2, <2>5, <3>1, OutcomeAdds
  <2> HIDE DEF d, next
  <2>8. e \in {d, next}
    BY <1>2, <2>7
  <2> QED BY <1>10, <2>6, <2>7, <2>8 DEF EndsBy
<1> QED BY <1>3, <1>4, <1>6, <1>7, <1>8, <1>9, <1>10 DEF Moves

(* A lease expires only when its newest revision has run out, however stale  *)
(* the reading of the process that expires it; only the lease of a model     *)
(* call may go earlier, and not while an operator's reservation is on it.    *)
THEOREM NeverExpiresEarly == Spec => NoEarlyExpiry
<1>1. ASSUME HistInv, [Next]_vars, NEW w \in WorkOrders, NEW e \in AddedEvents(w),
             e.state = "expired"
      PROVE  \/ ExpiresAt(e.lease) <= clock
             \/ /\ w \in ModelWork
                /\ Latest(w).lease = e.lease
                /\ Latest(w).reserved = 0
  <2>1. MayLose(w) /\ e.lease = Latest(w).lease
    <3>1. EndsBy(w, e)
      BY <1>1, EveryMove, EveryAddition DEF Ended
    <3>2. ~IsOutcome(e)
      BY <1>1 DEF IsOutcome, ResultStates
    <3> QED BY <3>1, <3>2 DEF EndsBy
  <2>2. Latest(w).reserved = 0
    BY <1>1, <2>1 DEF MayLose, HistInv, HeldOK
  <2> QED BY <2>1, <2>2 DEF MayLose
<1>2. HistInv /\ [Next]_vars =>
         [\A w \in WorkOrders : \A e \in AddedEvents(w) :
             e.state = "expired" =>
                 \/ ExpiresAt(e.lease) <= clock
                 \/ /\ w \in ModelWork
                    /\ Latest(w).lease = e.lease
                    /\ Latest(w).reserved = 0]_vars
  BY <1>1
<1> QED BY <1>2, HistoryInvariant, PTL DEF Spec, NoEarlyExpiry

(* Only the runner journal reports an attempt after its expiry, and it knows *)
(* no model call.                                                            *)
LEMMA NextOwnJournals ==
    (\A r \in receipts : r.op = "journal" => r.work \notin ModelWork) /\ [Next]_vars
        => (\A r \in receipts : r.op = "journal" => r.work \notin ModelWork)'
<1> SUFFICES ASSUME \A r \in receipts : r.op = "journal" => r.work \notin ModelWork,
                    [Next]_vars,
                    NEW r \in receipts', r.op = "journal"
             PROVE  r.work \notin ModelWork
  OBVIOUS
<1>1. CASE receipts' = receipts
  BY <1>1
<1>2. ASSUME NEW op, NEW l, NEW outcome, op # "journal",
             receipts' = receipts \cup {Receipt(op, l, outcome)}
      PROVE  r.work \notin ModelWork
  BY <1>2 DEF Receipt
<1>3. ASSUME NEW c \in Callers, NEW l \in LeaseIds, NEW outcome, NEW at, Complete(c, l, outcome, at)
      PROVE  r.work \notin ModelWork
  <2>1. CASE ExpireOnUse(c, l)
    BY <1>1, <2>1 DEF ExpireOnUse
  <2>2. CASE receipts' = receipts \cup {Receipt("complete", l, outcome)}
    BY <1>2, <2>2
  <2> QED BY <1>3, <2>1, <2>2 DEF Complete
<1>4. ASSUME NEW c \in Callers, CallerStep(c)
      PROVE  r.work \notin ModelWork
  <2>1. CASE Begin(c) \/ Return(c) \/ ClaimStep(c) \/ Sweep(c)
    BY <1>1, <2>1 DEF Begin, Return, ClaimStep, Claim, ClaimAny, GrantLease, Sweep
  <2>2. ASSUME NEW l \in LeaseIds, NEW v, ValidateLease(c, l, v)
        PROVE  r.work \notin ModelWork
    BY <1>1, <2>2 DEF ValidateLease, ExpireOnUse
  <2>3. ASSUME NEW l \in LeaseIds, NEW seconds, Renew(c, l, seconds)
        PROVE  r.work \notin ModelWork
    BY <1>1, <2>3 DEF Renew, ExpireOnUse
  <2>4. ASSUME NEW l \in LeaseIds, Dispatch(c, l)
        PROVE  r.work \notin ModelWork
    BY <1>1, <2>4 DEF Dispatch
  <2> QED BY <1>3, <1>4, <2>1, <2>2, <2>3, <2>4 DEF CallerStep, HolderStep
<1>5. ASSUME NEW d \in durable, ReconcileJournaled(d)
      PROVE  r.work \notin ModelWork
  BY <1>5, WorkKindsAssumption DEF ReconcileJournaled, Receipt
<1>6. ASSUME NEW d \in durable, NEW h, ReserveRecovery(d, h) \/ ReconcileDurable(d, h)
      PROVE  r.work \notin ModelWork
  BY <1>1, <1>2, <1>6 DEF ReserveRecovery, ReconcileDurable
<1>7. ASSUME NEW l \in LeaseIds, ReconcileUndispatched(l) \/ ExpireOrphaned(l)
      PROVE  r.work \notin ModelWork
  BY <1>1, <1>2, <1>7 DEF ReconcileUndispatched, ExpireOrphaned
<1>8. ASSUME NEW q \in routed, NEW outcome, NEW delay, Respond(q, outcome, delay)
      PROVE  r.work \notin ModelWork
  BY <1>1, <1>8 DEF Respond
<1>9. CASE RecoveryStep
  BY <1>5, <1>6, <1>7, <1>8, <1>9 DEF RecoveryStep
<1>10. CASE \/ Tick
            \/ \E w \in WorkOrders : Enqueue(w)
            \/ \E c \in Callers : Crash(c)
            \/ UNCHANGED vars
  BY <1>1, <1>10 DEF Tick, Enqueue, Crash, vars
<1> QED BY <1>4, <1>9, <1>10 DEF Next

(* Once the lease of a model call has expired, whoever decided it, neither   *)
(* the late completion of its holder nor an operator's recovery gives that   *)
(* attempt an outcome; and an attempt with an outcome never expires.         *)
THEOREM ExpiredIsFenced == Spec => []LostOrAnswered
<1> DEFINE Own == \A r \in receipts : r.op = "journal" => r.work \notin ModelWork
<1>1. Init => Own
  BY DEF Init
<1>2. Own /\ [Next]_vars => Own'
  BY NextOwnJournals
<1>3. HistInv /\ Own => LostOrAnswered
  <2> SUFFICES ASSUME HistInv, Own, NEW w \in ModelWork,
                      NEW i \in 1 .. Len(events[w]), NEW j \in 1 .. Len(events[w]),
                      events[w][i].state = "expired", IsOutcome(events[w][j]),
                      events[w][i].attempt = events[w][j].attempt
               PROVE  FALSE
    BY DEF LostOrAnswered
  <2>1. HistoryOK(w, events[w], formal[w], receipts)
    BY DEF HistInv, WorkOrders
  <2>2. JournalUsed(receipts, w, events[w][j].attempt)
    BY <2>1 DEF HistoryOK
  <2> QED BY <2>2 DEF JournalUsed
<1> HIDE DEF Own
<1> QED BY <1>1, <1>2, <1>3, HistoryInvariant, PTL DEF Spec

(* An outcome is accepted only for the newest lease of its WorkOrder: every  *)
(* earlier token is fenced off, late reports of the journal included.        *)
THEOREM TokenFenced == Spec => StaleTokenFenced
<1>1. ASSUME HistInv, [Next]_vars, NEW w \in WorkOrders, NEW e \in AddedEvents(w), IsOutcome(e),
             NEW k \in LeaseIds, leases[k].work = w
      PROVE  k <= e.lease
  <2>1. EndsBy(w, e)
    BY <1>1, EveryMove, EveryAddition DEF Ended
  <2>2. e.state # "expired"
    BY <1>1 DEF IsOutcome, ResultStates
  <2>3. /\ e.lease \in LeaseIds
        /\ leases[e.lease].work = w
        /\ leases[k].attempt <= leases[e.lease].attempt
    <3>1. CASE Leased(w) /\ e.lease = Latest(w).lease
      <4>1. leases[k].attempt <= Latest(w).attempt
        BY <1>1, <3>1, EnqueuedFacts DEF LogOK, LeaseIds, Latest, Leased
      <4>2. /\ Latest(w).lease \in LeaseIds
            /\ leases[Latest(w).lease].work = w
            /\ leases[Latest(w).lease].attempt = Latest(w).attempt
        BY <1>1, <3>1, LeasedRowFacts
      <4> QED BY <3>1, <4>1, <4>2
    <3>2. CASE /\ e.lease \in LeaseIds
               /\ \E outcome \in ResultStates : ReportsLate(w, e.lease, outcome)
      BY <1>1, <3>2 DEF ReportsLate
    <3> QED BY <2>1, <2>2, <3>1, <3>2 DEF EndsBy
  <2>4. e.lease < k => leases[e.lease].attempt < leases[k].attempt
    BY <1>1, <2>3 DEF HistInv, LeaseOrder
  <2>5. leases[k].attempt \in Nat /\ leases[e.lease].attempt \in Nat /\ k \in Nat /\ e.lease \in Nat
    <3>1. leases[k] \in Lease /\ leases[e.lease] \in Lease
      BY <1>1, <2>3 DEF HistInv, IndInv, TypeOK, LeaseIds
    <3> QED BY <2>3, <3>1 DEF Lease, LeaseIds
  <2> QED BY <2>3, <2>4, <2>5
<1>2. HistInv /\ [Next]_vars =>
         [\A w \in WorkOrders : \A e \in AddedEvents(w) :
             IsOutcome(e) => \A k \in LeaseIds : leases[k].work = w => k <= e.lease]_vars
  BY <1>1
<1> QED BY <1>2, HistoryInvariant, PTL DEF Spec, StaleTokenFenced

(* A reserved lease leaves the leased state only with the formal result that *)
(* its reservation is waiting for.                                           *)
THEOREM ReservationIsHeld == Spec => ReservationHeld
<1>1. ASSUME HistInv, [Next]_vars, NEW w \in WorkOrders, Leased(w), Latest(w).reserved # 0,
             events'[w] # events[w]
      PROVE  /\ LastOf(events'[w]).lease = Latest(w).lease
             /\ \/ /\ LastOf(events'[w]).state = "leased"
                   /\ LastOf(events'[w]).reserved # 0
                \/ formal'[w] # NoResult
  <2>1. Moves(w)
    BY <1>1, EveryMove
  <2>2. /\ events[w] \in Seq(Event)
        /\ Latest(w).attempt \in Nat \ {0}
        /\ Latest(w).lease \in Nat \ {0}
        /\ Latest(w).state = "leased"
        /\ Enqueued(w)
    BY <1>1, EnqueuedFacts, LeasedRowFacts
  <2>3. ~MayLose(w)
    BY <1>1 DEF HistInv, HeldOK, MayLose
  <2>4. ~Opens(w) /\ ~Stays(w) /\ ~Grants(w) /\ ~Loses(w) /\ ~Regrants(w)
    BY <1>1, <2>2, <2>3 DEF Opens, Stays, Grants, Loses, Regrants, Enqueued
  <2>5. ASSUME NEW e \in Event, events'[w] = Append(events[w], e) PROVE LastOf(events'[w]) = e
    BY <2>2, <2>5, AppendedLog
  <2>6. CASE Reserves(w)
    <3>1. PICK h \in Nat \ {0} :
             events'[w] = Append(events[w], EventRow(Latest(w).attempt, "leased",
                                                     Latest(w).lease, 1, h, 0))
      BY <2>6 DEF Reserves
    <3> DEFINE e == EventRow(Latest(w).attempt, "leased", Latest(w).lease, 1, h, 0)
    <3>2. e \in Event /\ e.state = "leased" /\ e.reserved # 0 /\ e.lease = Latest(w).lease
      BY <2>2 DEF EventRow, Event, AttemptStates
    <3> HIDE DEF e
    <3>3. LastOf(events'[w]) = e
      BY <2>5, <3>1, <3>2 DEF e
    <3> QED BY <3>2, <3>3
  <2>7. ASSUME NEW outcome \in ResultStates, Reports(w, outcome)
        PROVE  LastOf(events'[w]).lease = Latest(w).lease /\ formal'[w] # NoResult
    <3>1. outcome # "retryable"
      BY <1>1, <2>7 DEF Reports
    <3>2. formal'[w] = [attempt |-> Latest(w).attempt, state |-> outcome]
      BY <2>7, <3>1 DEF Reports
    <3>3. formal'[w] # NoResult
      <4>1. formal'[w].attempt # 0
        BY <2>2, <3>2
      <4> QED BY <4>1 DEF NoResult
    <3>4. PICK v \in Nat : events'[w] = Append(events[w], EventRow(Latest(w).attempt, outcome,
                                                                   Latest(w).lease, v, 0, 0))
      BY <2>7, <3>1 DEF Reports, OutcomeLog
    <3> DEFINE e == EventRow(Latest(w).attempt, outcome, Latest(w).lease, v, 0, 0)
    <3>5. e \in Event /\ e.lease = Latest(w).lease
      BY <2>2 DEF EventRow, Event, AttemptStates, ResultStates
    <3> HIDE DEF e
    <3>6. LastOf(events'[w]) = e
      BY <2>5, <3>4, <3>5 DEF e
    <3> QED BY <3>3, <3>5, <3>6
  <2>8. ASSUME NEW l \in LeaseIds, NEW outcome \in ResultStates PROVE ~ReportsLate(w, l, outcome)
    BY <2>2 DEF ReportsLate
  <2> QED BY <2>1, <2>4, <2>6, <2>7, <2>8 DEF Moves
<1>2. HistInv /\ [Next]_vars =>
         [\A w \in WorkOrders :
             Leased(w) /\ Latest(w).reserved # 0 /\ events'[w] # events[w] =>
                 /\ LastOf(events'[w]).lease = Latest(w).lease
                 /\ \/ /\ LastOf(events'[w]).state = "leased"
                       /\ LastOf(events'[w]).reserved # 0
                    \/ formal'[w] # NoResult]_vars
  BY <1>1
<1> QED BY <1>2, HistoryInvariant, PTL DEF Spec, ReservationHeld

-----------------------------------------------------------------------------
(* Receipts and outcomes *)

(* An outcome as a receipt and as an event of a log tell it.                 *)
Told(w, n, l, outcome) == [work |-> w, attempt |-> n, lease |-> l, state |-> outcome]

Filed(rows) ==
    {Told(r.work, r.attempt, r.lease, r.outcome) : r \in {x \in rows : x.outcome \in ResultStates}}
Logged(w, log) ==
    {Told(w, log[i].attempt, log[i].lease, log[i].state) :
        i \in {j \in 1 .. Len(log) : IsOutcome(log[j])}}

(* A step tells nothing new, or one outcome in its log and in its receipts.  *)
TellsNothing ==
    /\ Filed(receipts') = Filed(receipts)
    /\ \A x \in WorkOrders : Logged(x, events'[x]) = Logged(x, events[x])
TellsOne ==
    \E w \in WorkOrders : \E k :
        /\ Filed(receipts') = Filed(receipts) \cup {k}
        /\ Logged(w, events'[w]) = Logged(w, events[w]) \cup {k}
        /\ \A x \in WorkOrders : x # w => Logged(x, events'[x]) = Logged(x, events[x])
Tells == TellsNothing \/ TellsOne

(* Appending an event to a log.                                              *)
LEMMA LoggedGrows ==
    ASSUME NEW w, NEW log \in Seq(Event), NEW e \in Event
    PROVE  Logged(w, Append(log, e))
              = IF IsOutcome(e) THEN Logged(w, log) \cup {Told(w, e.attempt, e.lease, e.state)}
                                ELSE Logged(w, log)
<1> DEFINE new == Append(log, e)
<1>1. /\ Len(new) = Len(log) + 1 /\ Len(log) \in Nat
      /\ \A i \in 1 .. Len(log) : new[i] = log[i]
      /\ new[Len(log) + 1] = e
  BY AppendedLog DEF LastOf
<1> HIDE DEF new
<1>2. ASSUME NEW k
      PROVE  k \in Logged(w, new) <=>
                k \in Logged(w, log) \/ (IsOutcome(e) /\ k = Told(w, e.attempt, e.lease, e.state))
  <2>1. k \in Logged(w, new) <=>
           \E i \in 1 .. Len(new) : /\ IsOutcome(new[i])
                                    /\ k = Told(w, new[i].attempt, new[i].lease, new[i].state)
    BY DEF Logged
  <2>2. k \in Logged(w, log) <=>
           \E i \in 1 .. Len(log) : /\ IsOutcome(log[i])
                                    /\ k = Told(w, log[i].attempt, log[i].lease, log[i].state)
    BY DEF Logged
  <2>3. \A i \in 1 .. Len(new) : i \in 1 .. Len(log) \/ i = Len(log) + 1
    BY <1>1
  <2>4. Len(log) + 1 \in 1 .. Len(new) /\ \A i \in 1 .. Len(log) : i \in 1 .. Len(new)
    BY <1>1
  <2>5. ASSUME k \in Logged(w, new)
        PROVE  k \in Logged(w, log) \/ (IsOutcome(e) /\ k = Told(w, e.attempt, e.lease, e.state))
    <3>1. PICK i \in 1 .. Len(new) : /\ IsOutcome(new[i])
                                     /\ k = Told(w, new[i].attempt, new[i].lease, new[i].state)
      BY <2>1, <2>5
    <3>2. CASE i \in 1 .. Len(log)
      <4>1. new[i] = log[i]
        BY <1>1, <3>2
      <4> QED BY <2>2, <3>1, <3>2, <4>1
    <3>3. CASE i = Len(log) + 1
      <4>1. new[i] = e
        BY <1>1, <3>3
      <4> QED BY <3>1, <4>1
    <3> QED BY <2>3, <3>2, <3>3
  <2>6. ASSUME k \in Logged(w, log) PROVE k \in Logged(w, new)
    <3>1. PICK i \in 1 .. Len(log) : /\ IsOutcome(log[i])
                                     /\ k = Told(w, log[i].attempt, log[i].lease, log[i].state)
      BY <2>2, <2>6
    <3>2. new[i] = log[i] /\ i \in 1 .. Len(new)
      BY <1>1, <2>4
    <3> QED BY <2>1, <3>1, <3>2
  <2>7. IsOutcome(e) /\ k = Told(w, e.attempt, e.lease, e.state) => k \in Logged(w, new)
    BY <1>1, <2>1, <2>4
  <2> QED BY <2>5, <2>6, <2>7
<1> QED BY <1>2 DEF new

(* A lost lease tells nothing.                                               *)
LEMMA LostTellsNothing ==
    ASSUME HistInv, NEW w \in WorkOrders, Leased(w), NEW v \in Nat
    PROVE  LostLog(w, v) \in Seq(Event) /\ Logged(w, LostLog(w, v)) = Logged(w, events[w])
<1>1. /\ events[w] \in Seq(Event)
      /\ Latest(w).attempt \in Nat \ {0}
      /\ Latest(w).attempt <= max_attempts[w]
      /\ max_attempts[w] \in Nat
      /\ Latest(w).lease \in Nat \ {0}
  BY EnqueuedFacts, LeasedRowFacts DEF Leased
<1> DEFINE e == EventRow(Latest(w).attempt, "expired", Latest(w).lease, v, 0, 0)
           next == NextEvent(w, Latest(w).attempt, 0)
<1>2. e \in Event /\ ~IsOutcome(e)
  BY <1>1 DEF EventRow, Event, AttemptStates, IsOutcome, ResultStates
<1>3. next \in Event /\ next.lease = 0 /\ next.state \in {"ready", "failed"}
  BY <1>1, NextRow
<1>4. LostLog(w, v) = Append(Append(events[w], e), next)
  BY DEF LostLog
<1> HIDE DEF e, next
<1>5. ~IsOutcome(next)
  BY <1>3 DEF IsOutcome, ResultStates
<1>6. Append(events[w], e) \in Seq(Event) /\ Append(Append(events[w], e), next) \in Seq(Event)
  BY <1>1, <1>2, <1>3
<1>7. Logged(w, Append(events[w], e)) = Logged(w, events[w])
  BY <1>1, <1>2, LoggedGrows
<1>8. Logged(w, Append(Append(events[w], e), next)) = Logged(w, Append(events[w], e))
  BY <1>3, <1>5, <1>6, LoggedGrows
<1> QED BY <1>4, <1>6, <1>7, <1>8

(* A step that loses one lease tells nothing.                                *)
LEMMA LossTells ==
    ASSUME HistInv, NEW w \in WorkOrders, Leased(w), NEW v \in Nat,
           events' = [events EXCEPT ![w] = LostLog(w, v)], Filed(receipts') = Filed(receipts)
    PROVE  Tells
<1>1. events \in [WorkOrders -> Seq(Event)]
  BY DEF HistInv, IndInv, TypeOK
<1>2. Logged(w, events'[w]) = Logged(w, events[w])
  BY <1>1, LostTellsNothing
<1>3. \A x \in WorkOrders : x # w => events'[x] = events[x]
  BY <1>1
<1> QED BY <1>2, <1>3 DEF Tells, TellsNothing

(* A step that reports an outcome tells it in both places.                   *)
LEMMA ReportTells ==
    ASSUME HistInv, NEW l \in LeaseIds, NEW w, NEW n, w = leases[l].work, n = leases[l].attempt,
           NEW v \in Nat, NEW outcome \in ResultStates, NEW op,
           NEW next \in Event, next.lease = 0, next.state \in {"ready", "failed"},
           events' = [events EXCEPT ![w] = OutcomeLog(events[w], w, n, l, v, outcome, next)],
           receipts' = receipts \cup {Receipt(op, l, outcome)}
    PROVE  Tells
<1>1. w \in WorkOrders /\ n \in Nat \ {0} /\ events[w] \in Seq(Event) /\ l \in Nat \ {0}
  BY LeaseFacts DEF HistInv, LeaseIds
<1>2. events \in [WorkOrders -> Seq(Event)]
  BY DEF HistInv, IndInv, TypeOK
<1> DEFINE e == EventRow(n, outcome, l, v, 0, 0)
           k == Told(w, n, l, outcome)
           row == Receipt(op, l, outcome)
<1>3. e \in Event /\ IsOutcome(e) /\ ~IsOutcome(next)
  BY <1>1, OutcomeAdds DEF Ended
<1>4. Told(w, e.attempt, e.lease, e.state) = k
  BY DEF EventRow
<1>5. OutcomeLog(events[w], w, n, l, v, outcome, next)
         = IF outcome = "retryable" THEN Append(Append(events[w], e), next)
                                    ELSE Append(events[w], e)
  BY DEF OutcomeLog
<1>6. row.outcome = outcome /\ Told(row.work, row.attempt, row.lease, row.outcome) = k
  BY DEF Receipt
<1> HIDE DEF e, k, row
<1>7. Logged(w, Append(events[w], e)) = Logged(w, events[w]) \cup {k}
  BY <1>1, <1>3, <1>4, LoggedGrows
<1>8. Append(events[w], e) \in Seq(Event)
  BY <1>1, <1>3
<1>9. Logged(w, Append(Append(events[w], e), next)) = Logged(w, Append(events[w], e))
  BY <1>3, <1>8, LoggedGrows
<1>10. Logged(w, events'[w]) = Logged(w, events[w]) \cup {k}
  BY <1>1, <1>2, <1>5, <1>7, <1>9
<1>11. \A x \in WorkOrders : x # w => events'[x] = events[x]
  BY <1>2
<1>12. Filed(receipts') = Filed(receipts) \cup {k}
  <2>1. receipts' = receipts \cup {row}
    BY DEF row
  <2> QED BY <2>1, <1>6 DEF Filed
<1> QED BY <1>1, <1>10, <1>11, <1>12 DEF Tells, TellsOne

(* A claim and a sweep tell nothing.                                         *)
LEMMA ExpiryTells ==
    ASSUME HistInv, NEW c \in Callers, NEW among, NEW x \in WorkOrders
    PROVE  LET log == ExpireDueAmong(among, call[c].now)
           IN  log[x] \in Seq(Event) /\ Logged(x, log[x]) = Logged(x, events[x])
<1> DEFINE log == ExpireDueAmong(among, call[c].now)
<1>1. CASE x \in among /\ Overdue(x, call[c].now)
  <2>1. /\ Leased(x) /\ Latest(x).reserved = 0
        /\ ExpiresAt(Latest(x).lease) <= call[c].now
    BY <1>1 DEF Overdue
  <2>2. log[x] = ExpireOne(events[x], x)
    BY <1>1 DEF ExpireDueAmong
  <2> QED BY <2>1, <2>2, OverdueFacts, LostTellsNothing
<1>2. CASE ~(x \in among /\ Overdue(x, call[c].now))
  <2>1. log[x] = events[x]
    BY <1>2 DEF ExpireDueAmong
  <2>2. events[x] \in Seq(Event)
    BY DEF HistInv, IndInv, TypeOK
  <2> QED BY <2>1, <2>2
<1> QED BY <1>1, <1>2

LEMMA GrantTells ==
    ASSUME HistInv, NEW c \in Callers, NEW among, NEW w \in WorkOrders, NEW seconds,
           Claimable(ExpireDueAmong(among, call[c].now)[w], w, call[c].now),
           GrantLease(c, w, seconds, ExpireDueAmong(among, call[c].now),
                      IndexAfterExpiry(among, call[c].now)),
           UNCHANGED receipts
    PROVE  Tells
<1> DEFINE log == ExpireDueAmong(among, call[c].now)
           n == LastOf(log[w]).attempt
           row == EventRow(n, "leased", Len(leases) + 1, 1, 0, 0)
<1>1. DOMAIN log = WorkOrders
  BY DEF ExpireDueAmong
<1>2. events' = [log EXCEPT ![w] = Append(log[w], row)]
  BY DEF GrantLease
<1>3. \A x \in WorkOrders : log[x] \in Seq(Event) /\ Logged(x, log[x]) = Logged(x, events[x])
  BY ExpiryTells
<1>4. log[w] # <<>>
  BY DEF Claimable
<1> HIDE DEF log
<1>5. LastOf(log[w]) \in Event
  BY <1>3, <1>4, LastEvent
<1>6. n \in Nat \ {0} /\ Len(leases) + 1 \in Nat
  BY <1>5 DEF Event, HistInv, IndInv, TypeOK
<1> HIDE DEF n
<1>7. row \in Event /\ ~IsOutcome(row)
  BY <1>6 DEF EventRow, Event, AttemptStates, IsOutcome, ResultStates
<1> HIDE DEF row
<1>8. Logged(w, Append(log[w], row)) = Logged(w, log[w])
  BY <1>3, <1>7, LoggedGrows
<1>9. /\ events'[w] = Append(log[w], row)
      /\ \A x \in WorkOrders : x # w => events'[x] = log[x]
  BY <1>1, <1>2
<1> QED BY <1>3, <1>8, <1>9 DEF Tells, TellsNothing

LEMMA ClaimTells ==
    ASSUME HistInv, NEW c \in Callers, ClaimStep(c) \/ Sweep(c)
    PROVE  Tells
<1>1. ASSUME NEW among, NEW w \in WorkOrders, NEW seconds,
             Claimable(ExpireDueAmong(among, call[c].now)[w], w, call[c].now),
             GrantLease(c, w, seconds, ExpireDueAmong(among, call[c].now),
                        IndexAfterExpiry(among, call[c].now)),
             UNCHANGED receipts
      PROVE  Tells
  BY <1>1, GrantTells
<1>2. ASSUME NEW among, events' = ExpireDueAmong(among, call[c].now), UNCHANGED receipts
      PROVE  Tells
  BY <1>2, ExpiryTells DEF Tells, TellsNothing
<1>3. ASSUME NEW seconds, NEW w \in WorkOrders, Claim(c, w, seconds)
      PROVE  Tells
  BY <1>1, <1>2, <1>3 DEF Claim
<1>4. ASSUME NEW seconds, ClaimAny(c, seconds)
      PROVE  Tells
  BY <1>1, <1>2, <1>4 DEF ClaimAny
<1>5. CASE Sweep(c)
  BY <1>2, <1>5 DEF Sweep
<1> QED BY <1>3, <1>4, <1>5 DEF ClaimStep

(* The methods that take a lease token tell the outcome they commit.         *)
LEMMA ExpireOnUseTells ==
    ASSUME HistInv, NEW c \in Callers, NEW l \in LeaseIds, ActiveLease(c, l), ExpireOnUse(c, l)
    PROVE  Tells
<1> DEFINE w == leases[l].work
<1>1. w \in WorkOrders /\ Leased(w) /\ Latest(w).lease = l /\ Latest(w).reserved = 0
  BY ActiveFacts DEF HistInv, ActiveLease
<1>2. /\ ExpiresAt(l) <= call[c].now
      /\ events' = [events EXCEPT ![w] = ExpireOne(events[w], w)]
      /\ receipts' = receipts
  BY DEF ExpireOnUse
<1> HIDE DEF w
<1>3. /\ Len(leases[l].expires) \in Nat
      /\ ExpireOne(events[w], w) = LostLog(w, Len(leases[l].expires))
  BY <1>1, <1>2, OverdueFacts
<1> QED BY <1>1, <1>2, <1>3, LossTells

LEMMA CompleteTells ==
    ASSUME HistInv, NEW c \in Callers, NEW l \in LeaseIds, NEW outcome \in Outcomes,
           NEW at \in RetryTimes(c), Complete(c, l, outcome, at)
    PROVE  Tells
<1> DEFINE w == leases[l].work
           n == leases[l].attempt
           v == Len(leases[l].expires)
           next == NextEvent(w, n, at)
<1>1. CASE ExpireOnUse(c, l)
  BY <1>1, ExpireOnUseTells DEF Complete
<1>2. CASE ~ExpireOnUse(c, l)
  <2>1. /\ events' = [events EXCEPT ![w] = OutcomeLog(events[w], w, n, l, v, outcome, next)]
        /\ receipts' = receipts \cup {Receipt("complete", l, outcome)}
    BY <1>2 DEF Complete
  <2>2. IndInv /\ Commit(c)
    BY DEF HistInv, Complete
  <2>3. /\ v \in Nat /\ n \in Nat \ {0} /\ n <= max_attempts[w] /\ max_attempts[w] \in Nat
    BY <2>2, LeaseFacts
  <2>4. at \in Nat
    BY <2>2, CommitTyped, PolicyAssumption DEF RetryTimes
  <2>5. outcome \in ResultStates
    BY PolicyAssumption DEF ResultStates
  <2>6. w = leases[l].work /\ n = leases[l].attempt
    OBVIOUS
  <2>7. next \in Event /\ next.lease = 0 /\ next.state \in {"ready", "failed"}
    BY <2>3, <2>4, NextRow
  <2> HIDE DEF w, n, v, next
  <2> QED BY <2>1, <2>3, <2>5, <2>6, <2>7, ReportTells
<1> QED BY <1>1, <1>2

LEMMA HolderTells ==
    ASSUME HistInv, NEW c \in Callers, HolderStep(c)
    PROVE  Tells
<1>1. ASSUME UNCHANGED <<events, receipts>> PROVE Tells
  BY <1>1 DEF Tells, TellsNothing
<1>2. ASSUME NEW l \in LeaseIds, NEW v, ValidateLease(c, l, v) PROVE Tells
  <2>1. CASE ExpireOnUse(c, l)
    BY <1>2, <2>1, ExpireOnUseTells DEF ValidateLease
  <2>2. CASE ~ExpireOnUse(c, l)
    BY <1>1, <1>2, <2>2 DEF ValidateLease
  <2> QED BY <2>1, <2>2
<1>3. ASSUME NEW l \in LeaseIds, NEW seconds, Renew(c, l, seconds) PROVE Tells
  <2>1. CASE ExpireOnUse(c, l)
    BY <1>3, <2>1, ExpireOnUseTells DEF Renew
  <2>2. CASE ~ExpireOnUse(c, l)
    BY <1>1, <1>3, <2>2 DEF Renew
  <2> QED BY <2>1, <2>2
<1>4. ASSUME NEW l \in LeaseIds, Dispatch(c, l) PROVE Tells
  BY <1>1, <1>4 DEF Dispatch
<1> QED BY <1>2, <1>3, <1>4, CompleteTells DEF HolderStep

(* The recoveries tell the outcome they reconcile.                           *)
LEMMA JournaledTells ==
    ASSUME HistInv, NEW d \in durable, ReconcileJournaled(d)
    PROVE  Tells
<1> DEFINE l == d.lease
           w == leases[l].work
           n == leases[l].attempt
           restored == EventRow(Latest(w).attempt, Latest(w).state, 0, 0, 0,
                                Latest(w).not_before)
           next == IF SameLiveAttempt(d) THEN NextEvent(w, n, d.retry_at) ELSE restored
<1>1. /\ SameLiveAttempt(d) \/ ExpiredUnclaimed(d)
      /\ events' = [events EXCEPT ![w] =
                        OutcomeLog(events[w], w, n, l, d.version, d.outcome, next)]
      /\ receipts' = receipts \cup {Receipt("journal", l, d.outcome)}
  BY DEF ReconcileJournaled
<1>2. /\ l \in LeaseIds /\ d.version \in Nat /\ d.retry_at \in Nat
      /\ d.outcome \in ResultStates
      /\ IndInv
  BY AnswerFacts DEF HistInv
<1>3. /\ n \in Nat \ {0} /\ n <= max_attempts[w] /\ max_attempts[w] \in Nat
      /\ events[w] \in Seq(Event) /\ events[w] # <<>>
  BY <1>2, LeaseFacts
<1>4. Latest(w) \in Event
  BY <1>3, LastEvent DEF Latest
<1>5. w = leases[l].work /\ n = leases[l].attempt
  OBVIOUS
<1>6. CASE SameLiveAttempt(d)
  <2>1. next = NextEvent(w, n, d.retry_at)
    BY <1>6
  <2>2. next \in Event /\ next.lease = 0 /\ next.state \in {"ready", "failed"}
    BY <1>2, <1>3, <2>1, NextRow
  <2> HIDE DEF l, w, n, next
  <2> QED BY <1>1, <1>2, <1>5, <2>2, ReportTells
<1>7. CASE ~SameLiveAttempt(d)
  <2>1. Latest(w).state \in {"ready", "failed"}
    BY <1>1, <1>7 DEF ExpiredUnclaimed
  <2>2. next = restored
    BY <1>7
  <2>3. restored \in Event /\ restored.lease = 0 /\ restored.state \in {"ready", "failed"}
    BY <1>4, <2>1 DEF EventRow, Event
  <2> HIDE DEF l, w, n, next, restored
  <2> QED BY <1>1, <1>2, <1>5, <2>2, <2>3, ReportTells
<1> QED BY <1>6, <1>7

LEMMA DurableTells ==
    ASSUME HistInv, NEW d \in durable, NEW h \in Reservations, ReconcileDurable(d, h)
    PROVE  Tells
<1> DEFINE l == d.lease
           w == leases[l].work
           n == leases[l].attempt
           next == NextEvent(w, n, 0)
<1>1. /\ CurrentClaim(l)
      /\ events' = [events EXCEPT ![w] = Append(events[w], EventRow(n, d.outcome, l, 1, 0, 0))]
      /\ receipts' = receipts \cup {Receipt("recover", l, d.outcome)}
  BY DEF ReconcileDurable, Interrupted
<1>2. l \in LeaseIds /\ d.outcome \in ResultStates /\ IndInv
  BY AnswerFacts DEF HistInv
<1>3. w \in ModelWork
  BY <1>1, <1>2, PlanFacts
<1>4. d.outcome # "retryable"
  BY <1>3, AnswerFacts
<1>5. n \in Nat \ {0} /\ n <= max_attempts[w] /\ max_attempts[w] \in Nat
  BY <1>2, LeaseFacts
<1>6. Append(events[w], EventRow(n, d.outcome, l, 1, 0, 0))
         = OutcomeLog(events[w], w, n, l, 1, d.outcome, next)
  BY <1>4 DEF OutcomeLog
<1>7. next \in Event /\ next.lease = 0 /\ next.state \in {"ready", "failed"}
  BY <1>5, NextRow
<1>8. w = leases[l].work /\ n = leases[l].attempt /\ 1 \in Nat
  OBVIOUS
<1> HIDE DEF l, w, n, next
<1> QED BY <1>1, <1>2, <1>6, <1>7, <1>8, ReportTells

LEMMA ReserveTells ==
    ASSUME HistInv, NEW d \in durable, NEW h \in Reservations, ReserveRecovery(d, h)
    PROVE  Tells
<1> DEFINE l == d.lease
           w == leases[l].work
           e == EventRow(leases[l].attempt, "leased", l, 1, h, 0)
<1>1. /\ events' = [events EXCEPT ![w] = Append(events[w], e)]
      /\ receipts' = receipts
  BY DEF ReserveRecovery
<1>2. l \in LeaseIds /\ IndInv
  BY AnswerFacts DEF HistInv
<1>3. w \in WorkOrders /\ leases[l].attempt \in Nat \ {0} /\ l \in Nat
  BY <1>2, LeaseFacts DEF LeaseIds
<1>4. h \in Nat
  BY PolicyAssumption
<1>5. events \in [WorkOrders -> Seq(Event)]
  BY <1>2 DEF IndInv, TypeOK
<1>6. e \in Event /\ ~IsOutcome(e)
  BY <1>3, <1>4 DEF EventRow, Event, AttemptStates, IsOutcome, ResultStates
<1> HIDE DEF l, w, e
<1>7. Logged(w, Append(events[w], e)) = Logged(w, events[w])
  BY <1>3, <1>5, <1>6, LoggedGrows
<1>8. events'[w] = Append(events[w], e) /\ \A x \in WorkOrders : x # w => events'[x] = events[x]
  BY <1>1, <1>3, <1>5
<1> QED BY <1>1, <1>7, <1>8 DEF Tells, TellsNothing

LEMMA UndispatchedTells ==
    ASSUME HistInv, NEW l \in LeaseIds, ReconcileUndispatched(l) \/ ExpireOrphaned(l)
    PROVE  Tells
<1> DEFINE w == leases[l].work
<1>1. /\ w \in WorkOrders
      /\ Leased(w)
      /\ Latest(w).lease = l /\ Latest(w).attempt = leases[l].attempt
  BY PlanFacts DEF ReconcileUndispatched, ExpireOrphaned, Interrupted
<1>2. Len(leases[l].expires) \in Nat
  BY LeaseFacts DEF HistInv
<1>3. CASE ReconcileUndispatched(l)
  <2>1. events' = [events EXCEPT ![w] = LostLog(w, 1)]
    BY <1>1, <1>3 DEF ReconcileUndispatched, LostLog
  <2>2. /\ receipts' = receipts \cup {Receipt("recover", l, "expired")}
        /\ Receipt("recover", l, "expired").outcome \notin ResultStates
    BY <1>3 DEF ReconcileUndispatched, Receipt, ResultStates
  <2>3. Filed(receipts') = Filed(receipts)
    BY <2>2 DEF Filed
  <2> HIDE DEF w
  <2> QED BY <1>1, <2>1, <2>3, LossTells
<1>4. CASE ExpireOrphaned(l)
  <2>1. events' = [events EXCEPT ![w] = ExpireOne(events[w], w)] /\ receipts' = receipts
    BY <1>4 DEF ExpireOrphaned
  <2>2. ExpireOne(events[w], w) = LostLog(w, Len(leases[l].expires))
    BY <1>1 DEF ExpireOne, LostLog, Latest
  <2> HIDE DEF w
  <2> QED BY <1>1, <1>2, <2>1, <2>2, LossTells
<1> QED BY <1>3, <1>4

LEMMA EnqueueTells ==
    ASSUME HistInv, NEW w \in WorkOrders, Enqueue(w)
    PROVE  Tells
<1> DEFINE first == EventRow(1, "ready", 0, 0, 0, 0)
<1>1. events \in [WorkOrders -> Seq(Event)] /\ events[w] = <<>>
  BY DEF HistInv, IndInv, TypeOK, Tables, LogOK, Enqueue, Enqueued
<1>2. events' = [events EXCEPT ![w] = <<first>>] /\ receipts' = receipts
  BY DEF Enqueue
<1>3. first \in Event /\ ~IsOutcome(first)
  BY DEF EventRow, Event, AttemptStates, IsOutcome, ResultStates
<1> HIDE DEF first
<1>4. Logged(w, Append(events[w], first)) = Logged(w, events[w])
  BY <1>1, <1>3, LoggedGrows
<1>5. Append(events[w], first) = <<first>>
  BY <1>1
<1>6. events'[w] = <<first>> /\ \A x \in WorkOrders : x # w => events'[x] = events[x]
  BY <1>1, <1>2
<1> QED BY <1>2, <1>4, <1>5, <1>6 DEF Tells, TellsNothing

(* Every step of the Scheduler tells nothing, or one outcome in both places. *)
LEMMA EveryStepTells == ASSUME HistInv, [Next]_vars PROVE Tells
<1>1. ASSUME UNCHANGED <<events, receipts>> PROVE Tells
  BY <1>1 DEF Tells, TellsNothing
<1>2. CASE Tick \/ UNCHANGED vars
  BY <1>1, <1>2 DEF Tick, vars
<1>3. ASSUME NEW c \in Callers, Crash(c) \/ Begin(c) \/ Return(c) PROVE Tells
  BY <1>1, <1>3 DEF Crash, Begin, Return
<1>4. ASSUME NEW c \in Callers, CallerStep(c) PROVE Tells
  BY <1>3, <1>4, ClaimTells, HolderTells DEF CallerStep
<1>5. CASE RecoveryStep
  <2>1. ASSUME NEW r, NEW outcome, NEW delay, Respond(r, outcome, delay) PROVE Tells
    BY <1>1, <2>1 DEF Respond
  <2> QED BY <1>5, <2>1, JournaledTells, DurableTells, ReserveTells, UndispatchedTells
          DEF RecoveryStep
<1> QED BY <1>2, <1>3, <1>4, <1>5, EnqueueTells DEF Next

(* A receipt is found exactly for the outcomes in the logs, for any number   *)
(* of attempts and whichever of complete, the journal and the operator's     *)
(* recovery decided them: a replay is answered from what was committed.      *)
THEOREM ReceiptsMatch == Spec => []ReceiptsMatchLog
<1> DEFINE Matched == Filed(receipts) = UNION {Logged(w, events[w]) : w \in WorkOrders}
<1>1. Matched => ReceiptsMatchLog
  BY DEF ReceiptsMatchLog, Filed, Logged, Told
<1>2. Init => Matched
  <2> SUFFICES ASSUME Init PROVE Matched
    OBVIOUS
  <2>1. Filed(receipts) = {}
    BY DEF Init, Filed
  <2>2. \A w \in WorkOrders : Logged(w, events[w]) = {}
    BY DEF Init, Logged
  <2> QED BY <2>1, <2>2
<1>3. HistInv /\ Matched /\ [Next]_vars => Matched'
  <2> SUFFICES ASSUME HistInv, Matched, [Next]_vars PROVE Matched'
    OBVIOUS
  <2>1. CASE TellsNothing
    BY <2>1 DEF TellsNothing
  <2>2. CASE TellsOne
    <3>1. PICK w \in WorkOrders : \E k :
             /\ Filed(receipts') = Filed(receipts) \cup {k}
             /\ Logged(w, events'[w]) = Logged(w, events[w]) \cup {k}
             /\ \A x \in WorkOrders : x # w => Logged(x, events'[x]) = Logged(x, events[x])
      BY <2>2 DEF TellsOne
    <3> QED BY <3>1
  <2> QED BY <2>1, <2>2, EveryStepTells DEF Tells
<1> QED BY <1>1, <1>2, <1>3, HistoryInvariant, PTL DEF Spec


-----------------------------------------------------------------------------
(***************************************************************************)
(* The Scheduler implements the abstract life cycle of a WorkOrder: what    *)
(* each move above does to the mapped record is one step of WorkLifecycle   *)
(* or none.                                                                 *)
(***************************************************************************)

-----------------------------------------------------------------------------
(* The refinement mapping as an operator on a log, its cap and its result *)

PriorOf(log) ==
    IF LastOf(log).state = "failed" THEN LastOf(log).attempt ELSE LastOf(log).attempt - 1

LostOf(log, result) ==
    /\ LastOf(log).state \in {"ready", "failed"}
    /\ result = NoResult
    /\ \E i \in 1 .. Len(log) : log[i].attempt = PriorOf(log) /\ log[i].state = "expired"
    /\ \A i \in 1 .. Len(log) : log[i].attempt = PriorOf(log) => ~IsOutcome(log[i])

PhaseOf(log) ==
    CASE LastOf(log).state = "leased" -> "running"
      [] LastOf(log).state = "ready" -> "queued"
      [] OTHER -> "over"

LifeOf(log, cap, result) ==
    IF cap = 0
    THEN [phase |-> "absent", attempt |-> 0, cap |-> 0, lost |-> FALSE, result |-> "none"]
    ELSE [phase |-> PhaseOf(log), attempt |-> LastOf(log).attempt, cap |-> cap,
          lost |-> LostOf(log, result), result |-> result.state]

(* It is the mapping of the Scheduler, before and after a step.              *)
LEMMA MappedLife ==
    ASSUME NEW w \in WorkOrders
    PROVE  /\ LifecycleOf(w) = LifeOf(events[w], max_attempts[w], formal[w])
           /\ LifecycleOf(w)' = LifeOf(events'[w], max_attempts'[w], formal'[w])
<1>1. /\ Enqueued(w) = (max_attempts[w] # 0)
      /\ Enqueued(w)' = (max_attempts'[w] # 0)
      /\ Latest(w) = LastOf(events[w])
      /\ Latest(w)' = LastOf(events'[w])
  BY DEF Enqueued, Latest
<1>2. PriorAttempt(w) = PriorOf(events[w]) /\ PriorAttempt(w)' = PriorOf(events'[w])
  BY DEF PriorAttempt, PriorOf, Latest, LastOf
<1>3. Phase(w) = PhaseOf(events[w]) /\ Phase(w)' = PhaseOf(events'[w])
  BY DEF Phase, PhaseOf, Latest, LastOf
<1>4. Lost(w) = LostOf(events[w], formal[w])
  BY <1>2 DEF Lost, LostOf, Latest
<1>5. Lost(w)' = LostOf(events'[w], formal'[w])
  BY <1>2 DEF Lost, LostOf, Latest
<1>6. LifecycleOf(w) = LifeOf(events[w], max_attempts[w], formal[w])
  BY <1>1, <1>3, <1>4 DEF LifecycleOf, LifeOf
<1>7. LifecycleOf(w)' = LifeOf(events'[w], max_attempts'[w], formal'[w])
  BY <1>1, <1>3, <1>5 DEF LifecycleOf, LifeOf
<1> QED BY <1>6, <1>7

(* The mapped record of a WorkOrder in each of its phases.                   *)
Record(phase, n, cap, lost, result) ==
    [phase |-> phase, attempt |-> n, cap |-> cap, lost |-> lost, result |-> result]

(* The record a log maps to in each of its phases.                           *)
LEMMA Lives ==
    ASSUME NEW log, NEW cap \in Nat \ {0}, NEW result
    PROVE  /\ LastOf(log).state = "leased" =>
                LifeOf(log, cap, result)
                   = Record("running", LastOf(log).attempt, cap, FALSE, result.state)
           /\ LastOf(log).state = "ready" =>
                LifeOf(log, cap, result)
                   = Record("queued", LastOf(log).attempt, cap, LostOf(log, result), result.state)
           /\ LastOf(log).state \notin {"leased", "ready"} =>
                LifeOf(log, cap, result)
                   = Record("over", LastOf(log).attempt, cap, LostOf(log, result), result.state)
<1>1. LastOf(log).state = "leased" => LostOf(log, result) = FALSE
  BY DEF LostOf
<1> QED BY <1>1 DEF LifeOf, PhaseOf, Record

(* The record of a WorkOrder before a step.                                  *)
LEMMA LifeBefore ==
    ASSUME NEW w \in WorkOrders, max_attempts[w] \in Nat \ {0}
    PROVE  /\ LastOf(events[w]).state = "leased" =>
                LifecycleOf(w) = Record("running", LastOf(events[w]).attempt, max_attempts[w], FALSE,
                                        formal[w].state)
           /\ LastOf(events[w]).state = "ready" =>
                LifecycleOf(w) = Record("queued", LastOf(events[w]).attempt, max_attempts[w],
                                        LostOf(events[w], formal[w]), formal[w].state)
           /\ LastOf(events[w]).state \notin {"leased", "ready"} =>
                LifecycleOf(w) = Record("over", LastOf(events[w]).attempt, max_attempts[w],
                                        LostOf(events[w], formal[w]), formal[w].state)
<1>1. LifecycleOf(w) = LifeOf(events[w], max_attempts[w], formal[w])
  BY MappedLife
<1> QED BY <1>1, Lives

(* The record of a WorkOrder after a step.                                   *)
LEMMA LifeAfter ==
    ASSUME NEW w \in WorkOrders, max_attempts'[w] \in Nat \ {0}
    PROVE  /\ LastOf(events'[w]).state = "leased" =>
                LifecycleOf(w)' = Record("running", LastOf(events'[w]).attempt, max_attempts'[w],
                                         FALSE, formal'[w].state)
           /\ LastOf(events'[w]).state = "ready" =>
                LifecycleOf(w)' = Record("queued", LastOf(events'[w]).attempt, max_attempts'[w],
                                         LostOf(events'[w], formal'[w]), formal'[w].state)
           /\ LastOf(events'[w]).state \notin {"leased", "ready"} =>
                LifecycleOf(w)' = Record("over", LastOf(events'[w]).attempt, max_attempts'[w],
                                         LostOf(events'[w], formal'[w]), formal'[w].state)
<1>1. LifecycleOf(w)' = LifeOf(events'[w], max_attempts'[w], formal'[w])
  BY MappedLife
<1> QED BY <1>1, Lives

-----------------------------------------------------------------------------
(* The steps of the abstract life cycle, on records written out *)

Mapped(w, record, next) == LifecycleOf(w) = record /\ LifecycleOf(w)' = next

(* The mapped variable of the abstract specification, one WorkOrder at a     *)
(* time.                                                                     *)
LEMMA MappedRecord ==
    ASSUME NEW w \in WorkOrders, NEW record, NEW next, Mapped(w, record, next)
    PROVE  /\ [x \in WorkOrders |-> LifecycleOf(x)][w] = record
           /\ [x \in WorkOrders |-> LifecycleOf(x)]'[w] = next
  BY DEF Mapped

(* An absent order becomes queued.                                           *)
LEMMA SubmitStep ==
    ASSUME NEW w \in WorkOrders, NEW cap \in 1 .. PolicyMaxAttempts,
           Mapped(w, Record("absent", 0, 0, FALSE, "none"),
                     Record("queued", 1, cap, FALSE, "none"))
    PROVE  Lifecycle!Step(w)
<1>1. Lifecycle!Submit(w)
  BY MappedRecord DEF Lifecycle!Submit, Lifecycle!Absent, Record
<1> QED BY <1>1 DEF Lifecycle!Step

(* A queued order starts to run.                                             *)
LEMMA StartStep ==
    ASSUME NEW w \in WorkOrders, NEW cap, NEW n, NEW lost,
           Mapped(w, Record("queued", n, cap, lost, "none"),
                     Record("running", n, cap, FALSE, "none"))
    PROVE  Lifecycle!Step(w)
<1>1. Lifecycle!Start(w)
  BY MappedRecord DEF Lifecycle!Start, Lifecycle!Become, Record
<1> QED BY <1>1 DEF Lifecycle!Step

(* A running attempt ends without a result.                                  *)
LEMMA GiveUpStep ==
    ASSUME NEW w \in WorkOrders, NEW cap, NEW n, NEW lost \in BOOLEAN,
           Mapped(w, Record("running", n, cap, FALSE, "none"),
                     IF n < cap THEN Record("queued", n + 1, cap, lost, "none")
                                ELSE Record("over", n, cap, lost, "none"))
    PROVE  Lifecycle!Step(w)
<1>1. Lifecycle!GiveUp(w, lost)
  <2>1. CASE n < cap
    BY <2>1, MappedRecord DEF Lifecycle!GiveUp, Lifecycle!Become, Record
  <2>2. CASE ~(n < cap)
    BY <2>2, MappedRecord DEF Lifecycle!GiveUp, Lifecycle!Become, Record
  <2> QED BY <2>1, <2>2
<1> QED BY <1>1 DEF Lifecycle!Step

(* A running attempt is replaced by the next one.                            *)
LEMMA RestartStep ==
    ASSUME NEW w \in WorkOrders, NEW cap, NEW n, n < cap,
           Mapped(w, Record("running", n, cap, FALSE, "none"),
                     Record("running", n + 1, cap, FALSE, "none"))
    PROVE  Lifecycle!Step(w)
<1>1. Lifecycle!Restart(w)
  BY MappedRecord DEF Lifecycle!Restart, Lifecycle!Become, Record
<1> QED BY <1>1 DEF Lifecycle!Step

(* A running attempt gives the order its result.                             *)
LEMMA FinishStep ==
    ASSUME NEW w \in WorkOrders, NEW cap, NEW n, NEW result \in {"succeeded", "failed"},
           Mapped(w, Record("running", n, cap, FALSE, "none"),
                     Record("over", n, cap, FALSE, result))
    PROVE  Lifecycle!Step(w)
<1>1. Lifecycle!Finish(w, result)
  BY MappedRecord DEF Lifecycle!Finish, Lifecycle!Become, Record
<1> QED BY <1>1 DEF Lifecycle!Step, Lifecycle!Results

(* A lost attempt gives the order its result.                                *)
LEMMA LateFinishStep ==
    ASSUME NEW w \in WorkOrders, NEW cap, NEW n \in Nat, NEW result \in {"succeeded", "failed"},
           \/ Mapped(w, Record("queued", n + 1, cap, TRUE, "none"),
                        Record("over", n, cap, FALSE, result))
           \/ Mapped(w, Record("over", n, cap, TRUE, "none"),
                        Record("over", n, cap, FALSE, result))
    PROVE  Lifecycle!Step(w)
<1>1. CASE Mapped(w, Record("queued", n + 1, cap, TRUE, "none"),
                     Record("over", n, cap, FALSE, result))
  <2>1. (n + 1) - 1 = n
    OBVIOUS
  <2>2. Lifecycle!LateFinish(w, result)
    BY <1>1, <2>1, MappedRecord DEF Lifecycle!LateFinish, Lifecycle!Become, Record
  <2> QED BY <2>2 DEF Lifecycle!Step, Lifecycle!Results
<1>2. CASE Mapped(w, Record("over", n, cap, TRUE, "none"),
                     Record("over", n, cap, FALSE, result))
  <2>1. Lifecycle!LateFinish(w, result)
    BY <1>2, MappedRecord DEF Lifecycle!LateFinish, Lifecycle!Become, Record
  <2> QED BY <2>1 DEF Lifecycle!Step, Lifecycle!Results
<1> QED BY <1>1, <1>2

(* A lost attempt is accounted for without a result.                         *)
LEMMA LateRetryStep ==
    ASSUME NEW w \in WorkOrders, NEW phase, NEW cap, NEW n,
           Mapped(w, Record(phase, n, cap, TRUE, "none"), Record(phase, n, cap, FALSE, "none"))
    PROVE  Lifecycle!Step(w)
<1>1. Lifecycle!LateRetry(w)
  BY MappedRecord DEF Lifecycle!LateRetry, Record
<1> QED BY <1>1 DEF Lifecycle!Step

-----------------------------------------------------------------------------
(* What each move does to the mapped record *)

(* An attempt that ended, with the row that follows it.                      *)
EndsWith(log, e, next, new) ==
    /\ LastOf(new) = next
    /\ \E k \in 1 .. Len(new) : new[k] = e
    /\ \A i \in 1 .. Len(new) :
          \/ i \in 1 .. Len(log) /\ new[i] = log[i]
          \/ new[i] \in {e, next}

(* The log of an attempt that ended has its event and ends with the row that *)
(* follows it.                                                               *)
LEMMA EndedLog ==
    ASSUME NEW log \in Seq(Event), NEW e \in Event, NEW next \in Event
    PROVE  EndsWith(log, e, next, Append(Append(log, e), next))
<1> DEFINE new == Append(Append(log, e), next)
<1> DEFINE one == Append(log, e)
<1>1. /\ one \in Seq(Event)
      /\ Len(one) = Len(log) + 1
      /\ Len(log) \in Nat
      /\ LastOf(one) = e
      /\ \A i \in 1 .. Len(log) : one[i] = log[i]
  BY AppendedLog
<1>2. one[Len(one)] = e /\ new = Append(one, next)
  BY <1>1 DEF LastOf
<1> HIDE DEF one, new
<1>3. /\ new \in Seq(Event)
      /\ Len(new) = Len(one) + 1
      /\ LastOf(new) = next
      /\ \A i \in 1 .. Len(one) : new[i] = one[i]
      /\ \A i \in 1 .. Len(new) : i \in 1 .. Len(one) \/ new[i] = next
  BY <1>1, <1>2, AppendedLog
<1>4. Len(one) \in 1 .. Len(new) /\ new[Len(one)] = e
  BY <1>1, <1>2, <1>3
<1>5. ASSUME NEW i \in 1 .. Len(new)
      PROVE  (i \in 1 .. Len(log) /\ new[i] = log[i]) \/ new[i] \in {e, next}
  <2>1. CASE i \in 1 .. Len(log)
    <3>1. i \in 1 .. Len(one)
      BY <1>1, <2>1
    <3> QED BY <1>1, <1>3, <2>1, <3>1
  <2>2. CASE i = Len(one)
    BY <1>4, <2>2
  <2>3. CASE i \notin 1 .. Len(one)
    BY <1>3, <2>3
  <2> QED BY <1>1, <2>1, <2>2, <2>3
<1>6. \E k \in 1 .. Len(new) : new[k] = e
  BY <1>4
<1>7. EndsWith(log, e, next, new)
  BY <1>3, <1>5, <1>6 DEF EndsWith
<1> QED BY <1>7 DEF new

(* The event e of attempt n and the one that follows it, at the end of a log. *)
Ends(log, n, e, next) ==
    /\ log \in Seq(Event) /\ n \in Nat \ {0} /\ e \in Event /\ next \in Event
    /\ e.attempt = n /\ next.lease = 0 /\ next.state \in {"ready", "failed"}
    /\ next.state = "ready" => next.attempt = n + 1
    /\ next.state = "failed" => next.attempt = n

(* After an expiry the attempt is lost, unless an outcome of it is known;    *)
(* after an outcome it is not.                                               *)
LEMMA LostAfter ==
    ASSUME NEW log, NEW n, NEW e, NEW next, Ends(log, n, e, next)
    PROVE  /\ /\ e.state = "expired"
              /\ \A i \in 1 .. Len(log) : IsOutcome(log[i]) => log[i].attempt # n
              => LostOf(Append(Append(log, e), next), NoResult) = TRUE
           /\ IsOutcome(e) => LostOf(Append(Append(log, e), next), NoResult) = FALSE
<1> DEFINE new == Append(Append(log, e), next)
<1> USE DEF Ends
<1>1. /\ LastOf(new) = next
      /\ \E k \in 1 .. Len(new) : new[k] = e
      /\ \A i \in 1 .. Len(new) :
            \/ i \in 1 .. Len(log) /\ new[i] = log[i]
            \/ new[i] \in {e, next}
  <2>1. EndsWith(log, e, next, new)
    BY EndedLog
  <2> HIDE DEF new
  <2> QED BY <2>1 DEF EndsWith
<1> HIDE DEF new
<1>2. PriorOf(new) = n
  <2>1. (n + 1) - 1 = n
    OBVIOUS
  <2> QED BY <1>1, <2>1 DEF PriorOf
<1>3. ~IsOutcome(next)
  BY DEF IsOutcome
<1>4. ASSUME e.state = "expired", \A i \in 1 .. Len(log) : IsOutcome(log[i]) => log[i].attempt # n
      PROVE  LostOf(new, NoResult)
  <2>1. ~IsOutcome(e)
    BY <1>4 DEF IsOutcome, ResultStates
  <2>2. \A i \in 1 .. Len(new) : new[i].attempt = n => ~IsOutcome(new[i])
    BY <1>1, <1>3, <1>4, <2>1
  <2>3. \E i \in 1 .. Len(new) : new[i].attempt = n /\ new[i].state = "expired"
    BY <1>1, <1>4
  <2> QED BY <1>1, <1>2, <2>2, <2>3 DEF LostOf
<1>5. ASSUME IsOutcome(e) PROVE ~LostOf(new, NoResult)
  BY <1>1, <1>2, <1>5 DEF LostOf
<1>6. LostOf(new, NoResult) \in BOOLEAN
  BY DEF LostOf
<1> QED BY <1>4, <1>5, <1>6 DEF new

(* The record of a WorkOrder whose current attempt is leased.                *)
LEMMA LeasedLife ==
    ASSUME HistInv, NEW w \in WorkOrders, Leased(w)
    PROVE  /\ LifecycleOf(w) = Record("running", Latest(w).attempt, max_attempts[w], FALSE, "none")
           /\ max_attempts[w] \in Nat \ {0}
<1>1. Enqueued(w) /\ Latest(w).state = "leased" /\ formal[w] = NoResult
  BY OpenFacts DEF Leased
<1>2. max_attempts[w] \in Nat \ {0}
  BY <1>1, EnqueuedFacts DEF Enqueued
<1>3. formal[w].state = "none"
  BY <1>1 DEF NoResult
<1>4. LastOf(events[w]) = Latest(w)
  BY DEF Latest
<1>5. LifecycleOf(w) = Record("running", Latest(w).attempt, max_attempts[w], FALSE, "none")
  BY <1>1, <1>2, <1>3, <1>4, LifeBefore
<1> QED BY <1>2, <1>5

(* Opening a WorkOrder submits it.                                           *)
LEMMA OpensMapped ==
    ASSUME HistInv, NEW w \in WorkOrders, Opens(w)
    PROVE  Lifecycle!Step(w)
<1>1. HistoryOK(w, events[w], formal[w], receipts) /\ events[w] = <<>>
  BY DEF HistInv, IndInv, Tables, LogOK, Opens
<1>2. formal'[w] = NoResult
  BY <1>1 DEF HistoryOK, Opens
<1>3. max_attempts[w] = 0 /\ max_attempts'[w] \in 1 .. PolicyMaxAttempts
  BY DEF Opens
<1>4. LifecycleOf(w) = Record("absent", 0, 0, FALSE, "none")
  BY <1>3, MappedLife DEF LifeOf, Record
<1>5. /\ Len(events'[w]) = 1
      /\ LastOf(events'[w]) = events'[w][1]
      /\ events'[w][1].state = "ready"
      /\ events'[w][1].attempt = 1
  BY DEF Opens, EventRow, LastOf
<1>6. LostOf(events'[w], formal'[w]) = FALSE
  BY <1>5 DEF LostOf
<1>7. max_attempts'[w] \in Nat \ {0}
  BY <1>3, PolicyAssumption
<1>8. LifecycleOf(w)' = Record("queued", 1, max_attempts'[w], FALSE, "none")
  <2>1. formal'[w].state = "none"
    BY <1>2 DEF NoResult
  <2> QED BY <1>5, <1>6, <1>7, <2>1, LifeAfter
<1> QED BY <1>3, <1>4, <1>8, SubmitStep DEF Mapped

(* A grant starts the queued attempt.                                        *)
LEMMA GrantsMapped ==
    ASSUME HistInv, NEW w \in WorkOrders, Grants(w), max_attempts'[w] = max_attempts[w]
    PROVE  Lifecycle!Step(w)
<1> DEFINE n == Latest(w).attempt
           cap == max_attempts[w]
           lost == LostOf(events[w], formal[w])
<1>1. /\ Enqueued(w) /\ Latest(w).state = "ready"
      /\ formal[w] = NoResult /\ formal'[w] = NoResult
  BY DEF Grants
<1>2. /\ cap \in Nat \ {0}
      /\ n \in Nat \ {0}
      /\ events[w] \in Seq(Event)
      /\ Len(leases) \in Nat
  BY <1>1, EnqueuedFacts DEF Enqueued
<1>3. LifecycleOf(w) = Record("queued", n, cap, lost, "none")
  <2>1. formal[w].state = "none" /\ LastOf(events[w]) = Latest(w)
    BY <1>1 DEF NoResult, Latest
  <2> QED BY <1>1, <1>2, <2>1, LifeBefore
<1> DEFINE e == LeasedRow(n, Len(leases) + 1)
<1>4. e \in Event /\ e.state = "leased" /\ e.attempt = n /\ events'[w] = Append(events[w], e)
  BY <1>2 DEF LeasedRow, EventRow, Event, AttemptStates, Grants
<1> HIDE DEF e
<1>5. LastOf(events'[w]) = e
  BY <1>2, <1>4, AppendedLog
<1>6. LifecycleOf(w)' = Record("running", n, cap, FALSE, "none")
  <2>1. formal'[w].state = "none" /\ max_attempts'[w] = cap
    BY <1>1, <1>2 DEF NoResult
  <2> QED BY <1>2, <1>4, <1>5, <2>1, LifeAfter
<1> QED BY <1>3, <1>6, StartStep DEF Mapped

(* A reservation does not show in the life cycle.                            *)
LEMMA ReservesMapped ==
    ASSUME HistInv, NEW w \in WorkOrders, Reserves(w), max_attempts'[w] = max_attempts[w]
    PROVE  LifecycleOf(w)' = LifecycleOf(w)
<1> DEFINE n == Latest(w).attempt
           cap == max_attempts[w]
<1>1. Leased(w) /\ formal'[w] = formal[w]
  BY DEF Reserves
<1>2. /\ LifecycleOf(w) = Record("running", n, cap, FALSE, "none")
      /\ cap \in Nat \ {0}
      /\ n \in Nat \ {0}
      /\ events[w] \in Seq(Event)
      /\ Latest(w).lease \in Nat
      /\ formal[w] = NoResult
  BY <1>1, LeasedLife, EnqueuedFacts, LeasedRowFacts, OpenFacts
<1>3. PICK h \in Nat \ {0} :
         events'[w] = Append(events[w], EventRow(n, "leased", Latest(w).lease, 1, h, 0))
  BY DEF Reserves
<1> DEFINE e == EventRow(n, "leased", Latest(w).lease, 1, h, 0)
<1>4. e \in Event /\ e.state = "leased" /\ e.attempt = n /\ events'[w] = Append(events[w], e)
  BY <1>2, <1>3 DEF EventRow, Event, AttemptStates
<1> HIDE DEF e
<1>5. LastOf(events'[w]) = e
  BY <1>2, <1>4, AppendedLog
<1>6. LifecycleOf(w)' = Record("running", n, cap, FALSE, "none")
  <2>1. formal'[w].state = "none" /\ max_attempts'[w] = cap
    BY <1>1, <1>2 DEF NoResult
  <2> QED BY <1>2, <1>4, <1>5, <2>1, LifeAfter
<1> QED BY <1>2, <1>6

(* The log of an attempt that was lost, and the record it maps to.           *)
LEMMA LostLife ==
    ASSUME HistInv, NEW w \in WorkOrders, Leased(w), NEW v \in Nat
    PROVE  /\ LostLog(w, v) \in Seq(Event)
           /\ LastOf(LostLog(w, v)) = NextEvent(w, Latest(w).attempt, 0)
           /\ LostOf(LostLog(w, v), NoResult) = TRUE
           /\ NextEvent(w, Latest(w).attempt, 0).state = "ready" =>
                 /\ NextEvent(w, Latest(w).attempt, 0).attempt = Latest(w).attempt + 1
                 /\ Latest(w).attempt < max_attempts[w]
           /\ NextEvent(w, Latest(w).attempt, 0).state = "failed" =>
                 /\ NextEvent(w, Latest(w).attempt, 0).attempt = Latest(w).attempt
                 /\ ~(Latest(w).attempt < max_attempts[w])
           /\ NextEvent(w, Latest(w).attempt, 0).state \in {"ready", "failed"}
<1> DEFINE n == Latest(w).attempt
           e == EventRow(n, "expired", Latest(w).lease, v, 0, 0)
           next == NextEvent(w, n, 0)
           new == Append(Append(events[w], e), next)
<1>1. /\ events[w] \in Seq(Event)
      /\ n \in Nat \ {0} /\ n <= max_attempts[w] /\ max_attempts[w] \in Nat
      /\ \A i \in 1 .. Len(events[w]) : Ended(events[w][i]) => events[w][i].attempt < n
      /\ Latest(w).lease \in Nat
  BY EnqueuedFacts, LeasedRowFacts, OpenFacts
<1>2. e \in Event /\ e.attempt = n /\ e.state = "expired"
  BY <1>1 DEF EventRow, Event, AttemptStates
<1>3. /\ next \in Event
      /\ next.lease = 0
      /\ next.state \in {"ready", "failed"}
      /\ next.state = "ready" => next.attempt = n + 1 /\ n < max_attempts[w]
      /\ next.state = "failed" => next.attempt = n /\ n = max_attempts[w]
  BY <1>1, NextRow
<1>4. \A i \in 1 .. Len(events[w]) : events[w][i].attempt \in Nat
  BY <1>1, AttemptNumbers
<1>5. LostLog(w, v) = new
  BY DEF LostLog
<1>6. LostLog(w, v) \in Seq(Event) /\ LastOf(LostLog(w, v)) = next
  BY <1>1, LostHistory
<1> HIDE DEF n, e, next
<1>7. \A i \in 1 .. Len(events[w]) : IsOutcome(events[w][i]) => events[w][i].attempt # n
  BY <1>1, <1>4 DEF Ended
<1>8. LostOf(new, NoResult) = TRUE
  <2>1. Ends(events[w], n, e, next)
    BY <1>1, <1>2, <1>3 DEF Ends
  <2>2. /\ e.state = "expired"
        /\ \A i \in 1 .. Len(events[w]) : IsOutcome(events[w][i]) => events[w][i].attempt # n
        => LostOf(Append(Append(events[w], e), next), NoResult) = TRUE
    BY <2>1, LostAfter
  <2> QED BY <1>2, <1>7, <2>2
<1>9. next.state = "failed" => ~(n < max_attempts[w])
  BY <1>1, <1>3
<1> QED BY <1>3, <1>5, <1>6, <1>8, <1>9 DEF n, next

(* A lost lease gives the running attempt up.                                *)
LEMMA LosesMapped ==
    ASSUME HistInv, NEW w \in WorkOrders, Loses(w), max_attempts'[w] = max_attempts[w]
    PROVE  Lifecycle!Step(w)
<1> DEFINE n == Latest(w).attempt
           cap == max_attempts[w]
           next == NextEvent(w, Latest(w).attempt, 0)
<1>1. PICK v \in Nat : events'[w] = LostLog(w, v)
  BY DEF Loses
<1>2. Leased(w) /\ formal'[w] = formal[w]
  BY DEF Loses, MayLose
<1>3. /\ LifecycleOf(w) = Record("running", n, cap, FALSE, "none")
      /\ cap \in Nat \ {0}
      /\ formal'[w] = NoResult
  BY <1>2, LeasedLife, OpenFacts DEF Leased
<1> DEFINE log == LostLog(w, v)
<1>4. /\ LastOf(log) = next
      /\ LostOf(log, NoResult) = TRUE
      /\ next.state = "ready" => next.attempt = n + 1 /\ n < cap
      /\ next.state = "failed" => next.attempt = n /\ ~(n < cap)
      /\ next.state \in {"ready", "failed"}
  BY <1>2, LostLife
<1>5. NoResult.state = "none" /\ max_attempts'[w] = cap /\ events'[w] = log
  BY <1>1 DEF NoResult
<1> HIDE DEF n, cap, next, log
<1>6. LifecycleOf(w)' = IF n < cap THEN Record("queued", n + 1, cap, TRUE, "none")
                                   ELSE Record("over", n, cap, TRUE, "none")
  <2>1. CASE next.state = "ready"
    <3>1. LifecycleOf(w)' = Record("queued", LastOf(events'[w]).attempt, max_attempts'[w],
                                   LostOf(events'[w], formal'[w]), formal'[w].state)
      BY <1>3, <1>4, <1>5, <2>1, LifeAfter
    <3> QED BY <1>3, <1>4, <1>5, <2>1, <3>1
  <2>2. CASE next.state = "failed"
    <3>1. LifecycleOf(w)' = Record("over", LastOf(events'[w]).attempt, max_attempts'[w],
                                   LostOf(events'[w], formal'[w]), formal'[w].state)
      BY <1>3, <1>4, <1>5, <2>2, LifeAfter
    <3> QED BY <1>3, <1>4, <1>5, <2>2, <3>1
  <2> QED BY <1>4, <2>1, <2>2
<1> QED BY <1>3, <1>6, GiveUpStep DEF Mapped

(* A claim of an overdue lease restarts the order.                           *)
LEMMA RegrantsMapped ==
    ASSUME HistInv, NEW w \in WorkOrders, Regrants(w), max_attempts'[w] = max_attempts[w]
    PROVE  Lifecycle!Step(w)
<1> DEFINE n == Latest(w).attempt
           cap == max_attempts[w]
           e == LeasedRow(n + 1, Len(leases) + 1)
<1>1. PICK v \in Nat : events'[w] = Append(LostLog(w, v), e)
  BY DEF Regrants
<1>2. Leased(w) /\ formal'[w] = formal[w] /\ n < cap
  BY DEF Regrants, MayLose
<1>3. /\ LifecycleOf(w) = Record("running", n, cap, FALSE, "none")
      /\ cap \in Nat \ {0}
      /\ formal'[w] = NoResult
      /\ n \in Nat \ {0}
      /\ Len(leases) \in Nat
  <2>1. Enqueued(w) /\ formal[w] = NoResult
    BY <1>2, OpenFacts DEF Leased
  <2>2. n \in Nat \ {0} /\ leases \in Seq(Lease)
    BY <2>1, EnqueuedFacts
  <2>3. /\ LifecycleOf(w) = Record("running", n, cap, FALSE, "none")
        /\ cap \in Nat \ {0}
    BY <1>2, LeasedLife
  <2> QED BY <1>2, <2>1, <2>2, <2>3
<1>4. LostLog(w, v) \in Seq(Event)
  BY <1>2, LostLife
<1>5. e \in Event /\ e.state = "leased" /\ e.attempt = n + 1
  BY <1>3 DEF LeasedRow, EventRow, Event, AttemptStates
<1>6. NoResult.state = "none" /\ max_attempts'[w] = cap
  BY DEF NoResult
<1> HIDE DEF n, cap, e
<1>7. LastOf(events'[w]) = e
  BY <1>1, <1>4, <1>5, AppendedLog
<1>8. LifecycleOf(w)' = Record("running", n + 1, cap, FALSE, "none")
  <2>1. LifecycleOf(w)' = Record("running", LastOf(events'[w]).attempt, max_attempts'[w], FALSE,
                                 formal'[w].state)
    BY <1>3, <1>5, <1>6, <1>7, LifeAfter
  <2> QED BY <1>3, <1>5, <1>6, <1>7, <2>1
<1> QED BY <1>2, <1>3, <1>8, RestartStep DEF Mapped

(* The outcome of the leased attempt finishes the order or gives the attempt *)
(* up.                                                                       *)
LEMMA ReportsMapped ==
    ASSUME HistInv, NEW w \in WorkOrders, NEW outcome \in ResultStates, Reports(w, outcome),
           max_attempts'[w] = max_attempts[w]
    PROVE  Lifecycle!Step(w)
<1> DEFINE n == Latest(w).attempt
           cap == max_attempts[w]
           l == Latest(w).lease
<1>1. Leased(w)
  BY DEF Reports
<1>2. /\ LifecycleOf(w) = Record("running", n, cap, FALSE, "none")
      /\ cap \in Nat \ {0}
      /\ formal[w] = NoResult
      /\ events[w] \in Seq(Event)
      /\ n \in Nat \ {0} /\ n <= cap
      /\ l \in Nat \ {0}
  BY <1>1, LeasedLife, OpenFacts, EnqueuedFacts, LeasedRowFacts DEF Leased
<1>3. PICK v \in Nat, at \in Nat :
         events'[w] = OutcomeLog(events[w], w, n, l, v, outcome, NextEvent(w, n, at))
  BY DEF Reports
<1> DEFINE e == EventRow(n, outcome, l, v, 0, 0)
           next == NextEvent(w, n, at)
<1>4. e \in Event /\ IsOutcome(e) /\ e.attempt = n /\ e.state = outcome
  BY <1>2 DEF EventRow, Event, AttemptStates, ResultStates, IsOutcome
<1>5. /\ next \in Event
      /\ next.lease = 0
      /\ next.state \in {"ready", "failed"}
      /\ next.state = "ready" => next.attempt = n + 1 /\ n < cap
      /\ next.state = "failed" => next.attempt = n /\ n = cap
  BY <1>2, NextRow
<1>6. /\ outcome = "retryable" => /\ events'[w] = Append(Append(events[w], e), next)
                                  /\ formal'[w] = NoResult
      /\ outcome # "retryable" => /\ events'[w] = Append(events[w], e)
                                  /\ formal'[w] = [attempt |-> n, state |-> outcome]
  BY <1>2, <1>3 DEF OutcomeLog, Reports
<1>7. max_attempts'[w] = cap /\ NoResult.state = "none"
  BY DEF NoResult
<1> HIDE DEF n, cap, l, e, next
<1>8. CASE outcome = "retryable"
  <2> DEFINE log == Append(Append(events[w], e), next)
  <2>1. LastOf(log) = next
    <3>1. EndsWith(events[w], e, next, log)
      BY <1>2, <1>4, <1>5, EndedLog
    <3> QED BY <3>1 DEF EndsWith
  <2>2. LostOf(log, NoResult) = FALSE
    <3>1. Ends(events[w], n, e, next)
      BY <1>2, <1>4, <1>5 DEF Ends
    <3>2. IsOutcome(e) => LostOf(Append(Append(events[w], e), next), NoResult) = FALSE
      BY <3>1, LostAfter
    <3>3. IsOutcome(e)
      BY <1>4
    <3> QED BY <3>2, <3>3
  <2>3. events'[w] = log /\ formal'[w] = NoResult
    BY <1>6, <1>8
  <2> HIDE DEF log
  <2>4. CASE next.state = "ready"
    <3>1. LifecycleOf(w)' = Record("queued", LastOf(events'[w]).attempt, max_attempts'[w],
                                   LostOf(events'[w], formal'[w]), formal'[w].state)
      BY <1>2, <1>7, <2>1, <2>3, <2>4, LifeAfter
    <3>2. LifecycleOf(w)' = Record("queued", n + 1, cap, FALSE, "none") /\ n < cap
      BY <1>5, <1>7, <2>1, <2>2, <2>3, <2>4, <3>1
    <3> QED BY <1>2, <3>2, GiveUpStep DEF Mapped
  <2>5. CASE next.state = "failed"
    <3>1. LifecycleOf(w)' = Record("over", LastOf(events'[w]).attempt, max_attempts'[w],
                                   LostOf(events'[w], formal'[w]), formal'[w].state)
      BY <1>2, <1>7, <2>1, <2>3, <2>5, LifeAfter
    <3>2. LifecycleOf(w)' = Record("over", n, cap, FALSE, "none")
      BY <1>5, <1>7, <2>1, <2>2, <2>3, <2>5, <3>1
    <3>3. ~(n < cap)
      BY <1>2, <1>5, <2>5
    <3> QED BY <1>2, <3>2, <3>3, GiveUpStep DEF Mapped
  <2> QED BY <1>5, <2>4, <2>5
<1>9. CASE outcome # "retryable"
  <2> DEFINE log == Append(events[w], e)
             result == [attempt |-> n, state |-> outcome]
  <2>1. LastOf(log) = e
    BY <1>2, <1>4, AppendedLog
  <2>2. outcome \in {"succeeded", "failed"}
    BY <1>9 DEF ResultStates
  <2>3. LostOf(log, result) = FALSE
    <3>1. result.attempt # 0
      BY <1>2
    <3> QED BY <3>1 DEF LostOf, NoResult
  <2>4. events'[w] = log /\ formal'[w] = result /\ result.state = outcome
    BY <1>6, <1>9
  <2> HIDE DEF log, result
  <2>5. LifecycleOf(w)' = Record("over", LastOf(events'[w]).attempt, max_attempts'[w],
                                 LostOf(events'[w], formal'[w]), formal'[w].state)
    <3>1. LastOf(events'[w]).state \notin {"leased", "ready"} /\ max_attempts'[w] \in Nat \ {0}
      BY <1>2, <1>4, <1>7, <2>1, <2>2, <2>4
    <3> QED BY <3>1, LifeAfter
  <2>6. LifecycleOf(w)' = Record("over", n, cap, FALSE, outcome)
    BY <1>4, <1>7, <2>1, <2>3, <2>4, <2>5
  <2> QED BY <1>2, <2>2, <2>6, FinishStep DEF Mapped
<1> QED BY <1>8, <1>9

(* The outcome of a lost attempt finishes the order late or asks for a       *)
(* retry.                                                                    *)
LEMMA LateMapped ==
    ASSUME HistInv, NEW w \in WorkOrders, NEW l \in LeaseIds, NEW outcome \in ResultStates,
           ReportsLate(w, l, outcome), max_attempts'[w] = max_attempts[w]
    PROVE  Lifecycle!Step(w)
<1> DEFINE n == leases[l].attempt
           cap == max_attempts[w]
           next == EventRow(Latest(w).attempt, Latest(w).state, 0, 0, 0, Latest(w).not_before)
<1>1. /\ Enqueued(w)
      /\ formal[w] = NoResult
      /\ l \in Nat \ {0}
      /\ n \in Nat \ {0}
      /\ \A i \in 1 .. Len(events[w]) : IsOutcome(events[w][i]) => events[w][i].attempt # n
      /\ Latest(w).state = "ready" => Latest(w).attempt = n + 1
      /\ Latest(w).state = "failed" => Latest(w).attempt = n
  BY LateFacts
<1>2. /\ Latest(w).state \in {"ready", "failed"}
      /\ \E i \in 1 .. Len(events[w]) : /\ events[w][i].attempt = n
                                        /\ events[w][i].state = "expired"
      /\ \E v \in Nat : events'[w] = OutcomeLog(events[w], w, n, l, v, outcome, next)
      /\ formal'[w] = IF outcome = "retryable" THEN formal[w]
                      ELSE [attempt |-> n, state |-> outcome]
  BY DEF ReportsLate
<1>3. PICK v \in Nat : events'[w] = OutcomeLog(events[w], w, n, l, v, outcome, next)
  BY <1>2
<1> DEFINE e == EventRow(n, outcome, l, v, 0, 0)
           phase == IF Latest(w).state = "ready" THEN "queued" ELSE "over"
<1>4. /\ events[w] \in Seq(Event)
      /\ Latest(w) \in Event
      /\ cap \in Nat \ {0}
      /\ LastOf(events[w]) = Latest(w)
  BY <1>1, EnqueuedFacts DEF Enqueued, Latest
<1>5. e \in Event /\ IsOutcome(e) /\ e.attempt = n /\ e.state = outcome
  BY <1>1 DEF EventRow, Event, AttemptStates, ResultStates, IsOutcome
<1>6. /\ next \in Event /\ next.lease = 0
      /\ next.state = Latest(w).state /\ next.attempt = Latest(w).attempt
  BY <1>4 DEF EventRow, Event
<1>7. NoResult.state = "none" /\ max_attempts'[w] = cap
  BY DEF NoResult
<1>8. /\ outcome = "retryable" => /\ events'[w] = Append(Append(events[w], e), next)
                                  /\ formal'[w] = NoResult
      /\ outcome # "retryable" => /\ events'[w] = Append(events[w], e)
                                  /\ formal'[w] = [attempt |-> n, state |-> outcome]
  BY <1>1, <1>2, <1>3 DEF OutcomeLog
<1>9. LostOf(events[w], formal[w]) = TRUE
  <2>1. (n + 1) - 1 = n
    BY <1>1
  <2>2. PriorOf(events[w]) = n
    BY <1>1, <1>2, <1>4, <2>1 DEF PriorOf
  <2>3. LostOf(events[w], formal[w])
    BY <1>1, <1>2, <1>4, <2>2 DEF LostOf
  <2> QED BY <2>3
<1> HIDE DEF n, cap, next, e
<1>10. LifecycleOf(w) = Record(phase, Latest(w).attempt, cap, TRUE, "none")
  <2>1. CASE Latest(w).state = "ready"
    <3>1. LifecycleOf(w) = Record("queued", LastOf(events[w]).attempt, max_attempts[w],
                                  LostOf(events[w], formal[w]), formal[w].state)
      BY <1>4, <2>1, LifeBefore DEF cap
    <3> QED BY <1>1, <1>4, <1>7, <1>9, <2>1, <3>1 DEF cap
  <2>2. CASE Latest(w).state = "failed"
    <3>1. LifecycleOf(w) = Record("over", LastOf(events[w]).attempt, max_attempts[w],
                                  LostOf(events[w], formal[w]), formal[w].state)
      BY <1>4, <2>2, LifeBefore DEF cap
    <3> QED BY <1>1, <1>4, <1>7, <1>9, <2>2, <3>1 DEF cap
  <2> QED BY <1>2, <2>1, <2>2
<1>11. CASE outcome = "retryable"
  <2> DEFINE log == Append(Append(events[w], e), next)
  <2>1. LastOf(log) = next
    <3>1. EndsWith(events[w], e, next, log)
      BY <1>4, <1>5, <1>6, EndedLog
    <3> QED BY <3>1 DEF EndsWith
  <2>2. LostOf(log, NoResult) = FALSE
    <3>1. Ends(events[w], n, e, next)
      BY <1>1, <1>2, <1>4, <1>5, <1>6 DEF Ends
    <3>2. IsOutcome(e) => LostOf(Append(Append(events[w], e), next), NoResult) = FALSE
      BY <3>1, LostAfter
    <3>3. IsOutcome(e)
      BY <1>5
    <3> QED BY <3>2, <3>3
  <2>3. events'[w] = log /\ formal'[w] = NoResult
    BY <1>8, <1>11
  <2> HIDE DEF log
  <2>4. LifecycleOf(w)' = Record(phase, Latest(w).attempt, cap, FALSE, "none")
    <3>1. CASE Latest(w).state = "ready"
      <4>1. LifecycleOf(w)' = Record("queued", LastOf(events'[w]).attempt, max_attempts'[w],
                                     LostOf(events'[w], formal'[w]), formal'[w].state)
        BY <1>4, <1>6, <1>7, <2>1, <2>3, <3>1, LifeAfter
      <4> QED BY <1>6, <1>7, <2>1, <2>2, <2>3, <3>1, <4>1
    <3>2. CASE Latest(w).state = "failed"
      <4>1. LifecycleOf(w)' = Record("over", LastOf(events'[w]).attempt, max_attempts'[w],
                                     LostOf(events'[w], formal'[w]), formal'[w].state)
        BY <1>4, <1>6, <1>7, <2>1, <2>3, <3>2, LifeAfter
      <4> QED BY <1>6, <1>7, <2>1, <2>2, <2>3, <3>2, <4>1
    <3> QED BY <1>2, <3>1, <3>2
  <2> QED BY <1>10, <2>4, LateRetryStep DEF Mapped
<1>12. CASE outcome # "retryable"
  <2> DEFINE log == Append(events[w], e)
             result == [attempt |-> n, state |-> outcome]
  <2>1. LastOf(log) = e
    BY <1>4, <1>5, AppendedLog
  <2>2. outcome \in {"succeeded", "failed"}
    BY <1>12 DEF ResultStates
  <2>3. LostOf(log, result) = FALSE
    <3>1. result.attempt # 0
      BY <1>1
    <3> QED BY <3>1 DEF LostOf, NoResult
  <2>4. events'[w] = log /\ formal'[w] = result /\ result.state = outcome
    BY <1>8, <1>12
  <2> HIDE DEF log, result
  <2>5. LifecycleOf(w)' = Record("over", LastOf(events'[w]).attempt, max_attempts'[w],
                                 LostOf(events'[w], formal'[w]), formal'[w].state)
    <3>1. LastOf(events'[w]).state \notin {"leased", "ready"} /\ max_attempts'[w] \in Nat \ {0}
      BY <1>4, <1>5, <1>7, <2>1, <2>2, <2>4
    <3> QED BY <3>1, LifeAfter
  <2>6. LifecycleOf(w)' = Record("over", n, cap, FALSE, outcome)
    BY <1>5, <1>7, <2>1, <2>3, <2>4, <2>5
  <2>7. \/ LifecycleOf(w) = Record("queued", n + 1, cap, TRUE, "none")
        \/ LifecycleOf(w) = Record("over", n, cap, TRUE, "none")
    BY <1>1, <1>2, <1>10
  <2> QED BY <1>1, <2>2, <2>6, <2>7, LateFinishStep DEF Mapped
<1> QED BY <1>11, <1>12

(* Every move of a WorkOrder is a step of its abstract life cycle, or none.  *)
LEMMA MoveMapped ==
    ASSUME HistInv, NEW w \in WorkOrders, Moves(w)
    PROVE  LifecycleOf(w)' = LifecycleOf(w) \/ Lifecycle!Step(w)
<1>1. CASE Opens(w)
  BY <1>1, OpensMapped
<1>2. ASSUME Stays(w), max_attempts'[w] = max_attempts[w] PROVE LifecycleOf(w)' = LifecycleOf(w)
  BY <1>2, MappedLife DEF Stays
<1> QED BY <1>1, <1>2, GrantsMapped, LosesMapped, RegrantsMapped, ReservesMapped, ReportsMapped,
           LateMapped DEF Moves

(* The Scheduler implements the abstract life cycle of its WorkOrders: one   *)
(* attempt at a time up to the frozen cap, at most one result, and a lost    *)
(* attempt's result only until the next attempt starts.                      *)
THEOREM Implements == Spec => ImplementsLifecycle
<1>1. Init => Lifecycle!Init
  <2> SUFFICES ASSUME Init PROVE Lifecycle!Init
    OBVIOUS
  <2>1. \A w \in WorkOrders : LifecycleOf(w) = Lifecycle!Absent
    BY DEF Init, LifecycleOf, Enqueued, Lifecycle!Absent
  <2> QED BY <2>1 DEF Lifecycle!Init
<1>2. HistInv /\ [Next]_vars => [Lifecycle!Next]_([w \in WorkOrders |-> LifecycleOf(w)])
  <2> SUFFICES ASSUME HistInv, [Next]_vars PROVE Lifecycle!Next
    OBVIOUS
  <2>1. \A w \in WorkOrders : LifecycleOf(w)' = LifecycleOf(w) \/ Lifecycle!Step(w)
    BY EveryMove, MoveMapped
  <2> QED BY <2>1 DEF Lifecycle!Next
<1> QED BY <1>1, <1>2, HistoryInvariant, PTL DEF Spec, ImplementsLifecycle, Lifecycle!Spec
-----------------------------------------------------------------------------
(* No lease is kept for ever *)

(* A lease ends after it was issued, every renewal moves its end, and none   *)
(* moves it past the total lifetime of the policy.                           *)
Termed(lease) ==
    /\ lease.issued_at < lease.expires[1]
    /\ \A i, j \in 1 .. Len(lease.expires) : i < j => lease.expires[i] < lease.expires[j]
    /\ LastOf(lease.expires) <= lease.issued_at + MaxTotalLeaseSeconds

(* However often it is renewed, and however stale the readings it was        *)
(* claimed and renewed with, a lease is over max_total_lease_seconds after   *)
(* it was issued, by the clock that has passed its issue already; from then  *)
(* on every probe of the index (below the limit of 256 it has) names the     *)
(* WorkOrder, and the check under the lock agrees; and no probe ever names   *)
(* another one.                                                              *)
LeasesRunOut ==
    /\ \A l \in LeaseIds : Termed(leases[l]) /\ leases[l].issued_at <= clock
    /\ \A now \in Nat : DueCandidates(now) = {w \in WorkOrders : Overdue(w, now)}
    /\ \A w \in WorkOrders, now \in Nat :
          /\ Leased(w) /\ Latest(w).reserved = 0
          /\ leases[Latest(w).lease].issued_at + MaxTotalLeaseSeconds <= now
          => w \in DueCandidates(now)

TermInv == \A l \in LeaseIds : Termed(leases[l]) /\ leases[l].issued_at <= clock

(* A step that leaves the leases alone.                                      *)
LEMMA TermStays ==
    ASSUME HistInv, TermInv, [Next]_vars, leases' = leases
    PROVE  TermInv'
<1>1. clock \in Nat /\ clock' \in Nat /\ clock <= clock'
  BY ClockRuns DEF HistInv
<1>2. ASSUME NEW l \in LeaseIds PROVE leases[l].issued_at <= clock'
  <2>1. leases[l].issued_at \in Nat
    BY LeaseFacts DEF HistInv
  <2> QED BY <1>1, <2>1 DEF TermInv
<1> QED BY <1>2 DEF TermInv, LeaseIds

(* A claim adds a lease with one revision, within the lifetime.              *)
LEMMA TermGranted ==
    ASSUME HistInv, TermInv, NEW c \in Callers, NEW among, NEW now, NEW w \in WorkOrders,
           NEW seconds \in LeaseRequests, seconds <= MaxLeaseSeconds, clock' = clock,
           Claimable(ExpireDueAmong(among, now)[w], w, now),
           GrantLease(c, w, seconds, ExpireDueAmong(among, now), IndexAfterExpiry(among, now))
    PROVE  TermInv'
<1> DEFINE log == ExpireDueAmong(among, now)
           n == LastOf(log[w]).attempt
           end == call[c].now + seconds
           lease == [work |-> w, attempt |-> n, owner |-> c, issued_at |-> call[c].now,
                     expires |-> <<end>>]
<1>1. /\ leases \in Seq(Lease)
      /\ call[c].now \in Nat /\ call[c].now <= clock
      /\ seconds \in Nat \ {0}
      /\ MaxLeaseSeconds \in Nat /\ MaxTotalLeaseSeconds \in Nat
      /\ MaxLeaseSeconds <= MaxTotalLeaseSeconds
  BY PolicyAssumption DEF HistInv, IndInv, TypeOK
<1>2. n \in Nat \ {0}
  <2>1. log[w] \in Seq(Event) /\ log[w] # <<>>
    BY TablesExpire DEF HistInv, IndInv, Tables, Claimable
  <2> HIDE DEF log
  <2>2. LastOf(log[w]) \in Event
    BY <2>1, LastEvent
  <2> QED BY <2>2 DEF Event
<1>3. leases' = Append(leases, lease)
  BY DEF GrantLease
<1> HIDE DEF n
<1>4. end \in Nat /\ call[c].now < end /\ end <= call[c].now + MaxTotalLeaseSeconds
  BY <1>1
<1> HIDE DEF end
<1>5. lease \in Lease /\ lease.issued_at = call[c].now /\ lease.expires = <<end>>
  BY <1>1, <1>2, <1>4 DEF Lease
<1> HIDE DEF lease
<1>6. /\ Len(leases') = Len(leases) + 1 /\ Len(leases) \in Nat
      /\ \A k \in 1 .. Len(leases) : leases'[k] = leases[k]
      /\ leases'[Len(leases) + 1] = lease
  <2>1. /\ Len(leases') = Len(leases) + 1 /\ Len(leases) \in Nat
        /\ LastOf(leases') = lease
        /\ \A k \in 1 .. Len(leases) : leases'[k] = leases[k]
    BY <1>1, <1>3, <1>5, AppendedLog
  <2> QED BY <2>1 DEF LastOf
<1>7. Termed(lease)
  <2>1. Len(<<end>>) = 1 /\ <<end>>[1] = end
    OBVIOUS
  <2> QED BY <2>1, <1>4, <1>5 DEF Termed, LastOf
<1>8. ASSUME NEW k \in LeaseIds' PROVE Termed(leases'[k]) /\ leases'[k].issued_at <= clock'
  <2>1. CASE k \in LeaseIds
    <3>1. leases'[k] = leases[k]
      BY <2>1, <1>6 DEF LeaseIds
    <3> QED BY <2>1, <3>1 DEF TermInv
  <2>2. CASE k \notin LeaseIds
    <3>1. k = Len(leases) + 1
      BY <2>2, <1>6 DEF LeaseIds
    <3> QED BY <3>1, <1>1, <1>5, <1>6, <1>7
  <2> QED BY <2>1, <2>2
<1>9. \A k \in LeaseIds' : Termed(leases'[k]) /\ leases'[k].issued_at <= clock'
  BY <1>8
<1> QED BY <1>9 DEF TermInv, Termed

(* A later end within the lifetime keeps the lease within its term.          *)
LEMMA TermExtended ==
    ASSUME NEW lease \in Lease, Termed(lease), lease.expires # <<>>, NEW end \in Nat,
           LastOf(lease.expires) < end, end <= lease.issued_at + MaxTotalLeaseSeconds
    PROVE  Termed([lease EXCEPT !.expires = Append(@, end)])
<1> DEFINE old == lease.expires
           new == Append(old, end)
           longer == [lease EXCEPT !.expires = new]
<1>1. old \in Seq(Nat) /\ lease.issued_at \in Nat
  BY DEF Lease
<1>2. longer.expires = new /\ longer.issued_at = lease.issued_at
  BY DEF Lease
<1>3. /\ Len(old) \in Nat \ {0} /\ LastOf(old) = old[Len(old)]
      /\ \A i \in 1 .. Len(old) : old[i] \in Nat
  <2>1. Len(old) \in Nat /\ Len(old) \in 1 .. Len(old) /\ LastOf(old) = old[Len(old)]
    BY <1>1, LastEvent
  <2>2. \A i \in 1 .. Len(old) : old[i] \in Nat
    BY <1>1, ElementOfSeq
  <2> QED BY <2>1, <2>2
<1>4. /\ Len(new) = Len(old) + 1
      /\ LastOf(new) = end
      /\ \A i \in 1 .. Len(old) : new[i] = old[i]
  BY <1>1, AppendedLog
<1>5. new[Len(old) + 1] = end
  BY <1>4 DEF LastOf
<1>6. /\ lease.issued_at < old[1]
      /\ \A i, j \in 1 .. Len(old) : i < j => old[i] < old[j]
  BY DEF Termed
<1> HIDE DEF new, old
<1>7. ASSUME NEW i \in 1 .. Len(new), NEW j \in 1 .. Len(new), i < j PROVE new[i] < new[j]
  <2>1. i \in 1 .. Len(old)
    BY <1>3, <1>4, <1>7
  <2>2. CASE j \in 1 .. Len(old)
    BY <2>1, <2>2, <1>4, <1>6, <1>7
  <2>3. CASE j \notin 1 .. Len(old)
    <3>1. j = Len(old) + 1
      BY <2>3, <1>3, <1>4
    <3>2. old[i] <= LastOf(old)
      <4>1. i = Len(old) \/ i < Len(old)
        BY <2>1, <1>3
      <4>2. Len(old) \in 1 .. Len(old) /\ old[i] \in Nat /\ old[Len(old)] \in Nat
        BY <2>1, <1>3
      <4> QED BY <2>1, <4>1, <4>2, <1>3, <1>6
    <3>3. LastOf(old) < end
      BY DEF old
    <3>4. new[i] = old[i] /\ new[j] = end /\ old[i] \in Nat /\ LastOf(old) \in Nat
      BY <2>1, <3>1, <1>3, <1>4, <1>5
    <3> QED BY <3>2, <3>3, <3>4
  <2> QED BY <2>2, <2>3
<1>8. lease.issued_at < new[1]
  <2>1. 1 \in 1 .. Len(old)
    BY <1>3
  <2> QED BY <2>1, <1>4, <1>6
<1>9. Termed(longer)
  <2> HIDE DEF longer
  <2> QED BY <1>2, <1>4, <1>7, <1>8 DEF Termed
<1> QED BY <1>9 DEF new, old

(* A renewal moves the end of its lease, if the lifetime allows it.          *)
LEMMA TermRenewed ==
    ASSUME HistInv, TermInv, NEW c \in Callers, NEW l \in LeaseIds,
           NEW seconds \in RenewRequests, Renew(c, l, seconds), leases' # leases
    PROVE  TermInv'
<1> DEFINE deadline == leases[l].issued_at + MaxTotalLeaseSeconds
           wanted == ExpiresAt(l) + seconds
           expiry == IF wanted < deadline THEN wanted ELSE deadline
<1>1. /\ leases' = [leases EXCEPT ![l].expires = Append(@, expiry)]
      /\ expiry > ExpiresAt(l) /\ clock' = clock
  BY DEF Renew, ExpireOnUse, Commit
<1>2. /\ leases \in Seq(Lease) /\ leases[l] \in Lease
      /\ leases[l].issued_at \in Nat /\ ExpiresAt(l) \in Nat
      /\ leases[l].expires # <<>>
      /\ seconds \in Nat /\ MaxTotalLeaseSeconds \in Nat
  BY LeaseFacts, PolicyAssumption DEF HistInv
<1>3. expiry \in Nat /\ expiry <= deadline
  BY <1>2
<1> HIDE DEF expiry
<1> DEFINE longer == [leases[l] EXCEPT !.expires = Append(@, expiry)]
<1>4. Termed(longer)
  <2>1. Termed(leases[l])
    BY DEF TermInv
  <2> QED BY <2>1, <1>1, <1>2, <1>3, TermExtended DEF ExpiresAt
<1>5. longer.issued_at = leases[l].issued_at
  BY <1>2 DEF Lease
<1>6. leases' = [leases EXCEPT ![l] = longer]
  BY <1>1
<1> HIDE DEF longer
<1>7. /\ Len(leases') = Len(leases)
      /\ \A k \in LeaseIds : leases'[k] = IF k = l THEN longer ELSE leases[k]
  <2>1. DOMAIN leases = LeaseIds /\ Len(leases) \in Nat
    BY <1>2 DEF LeaseIds
  <2> QED BY <2>1, <1>2, <1>6
<1>8. ASSUME NEW k \in LeaseIds PROVE Termed(leases'[k]) /\ leases'[k].issued_at <= clock'
  <2>1. Termed(leases[k]) /\ leases[k].issued_at <= clock
    BY DEF TermInv
  <2> QED BY <2>1, <1>1, <1>4, <1>5, <1>7
<1>9. LeaseIds' = LeaseIds
  BY <1>7 DEF LeaseIds
<1>10. \A k \in LeaseIds' : Termed(leases'[k]) /\ leases'[k].issued_at <= clock'
  BY <1>8, <1>9
<1> QED BY <1>10 DEF TermInv, Termed

(* Every step keeps the leases within their term.                            *)
LEMMA TermStep == HistInv /\ TermInv /\ [Next]_vars => TermInv'
<1> SUFFICES ASSUME HistInv, TermInv, [Next]_vars PROVE TermInv'
  OBVIOUS
<1>1. CASE leases' = leases
  BY <1>1, TermStays
<1>2. ASSUME NEW c \in Callers, ClaimStep(c), leases' # leases PROVE TermInv'
  <2>1. PICK w \in WorkOrders, seconds \in LeaseRequests, among \in SUBSET WorkOrders :
            /\ seconds <= MaxLeaseSeconds /\ clock' = clock
            /\ Claimable(ExpireDueAmong(among, call[c].now)[w], w, call[c].now)
            /\ GrantLease(c, w, seconds, ExpireDueAmong(among, call[c].now),
                          IndexAfterExpiry(among, call[c].now))
    <3>1. call[c].due \in SUBSET WorkOrders
      BY DEF HistInv, IndInv, TypeOK
    <3>2. ASSUME NEW w \in WorkOrders, NEW seconds \in LeaseRequests, Claim(c, w, seconds)
          PROVE  /\ seconds <= MaxLeaseSeconds /\ clock' = clock
                 /\ call[c].due \cup {w} \in SUBSET WorkOrders
                 /\ Claimable(ExpireDueAmong(call[c].due \cup {w}, call[c].now)[w], w, call[c].now)
                 /\ GrantLease(c, w, seconds, ExpireDueAmong(call[c].due \cup {w}, call[c].now),
                               IndexAfterExpiry(call[c].due \cup {w}, call[c].now))
      BY <1>2, <3>1, <3>2 DEF Claim, Commit
    <3>3. ASSUME NEW seconds \in LeaseRequests, ClaimAny(c, seconds)
          PROVE  /\ WorkOrders \in SUBSET WorkOrders /\ clock' = clock
                 /\ \E w \in WorkOrders :
                       /\ seconds <= MaxLeaseSeconds
                       /\ Claimable(ExpireDueAmong(WorkOrders, call[c].now)[w], w, call[c].now)
                       /\ GrantLease(c, w, seconds, ExpireDueAmong(WorkOrders, call[c].now),
                                     IndexAfterExpiry(WorkOrders, call[c].now))
      BY <1>2, <3>3 DEF ClaimAny, Commit
    <3>4. CASE \E seconds \in LeaseRequests, w \in WorkOrders : Claim(c, w, seconds)
      BY <3>2, <3>4
    <3>5. CASE \E seconds \in LeaseRequests : ClaimAny(c, seconds)
      BY <3>3, <3>5
    <3> QED BY <1>2, <3>4, <3>5 DEF ClaimStep
  <2> QED BY <2>1, TermGranted
<1>3. ASSUME NEW c \in Callers, HolderStep(c), leases' # leases PROVE TermInv'
  <2>1. ASSUME NEW l, NEW v, ValidateLease(c, l, v) PROVE leases' = leases
    BY <2>1 DEF ValidateLease, ExpireOnUse
  <2>2. ASSUME NEW l, NEW outcome, NEW at, Complete(c, l, outcome, at) PROVE leases' = leases
    BY <2>2 DEF Complete, ExpireOnUse
  <2>3. ASSUME NEW l, Dispatch(c, l) PROVE leases' = leases
    BY <2>3 DEF Dispatch
  <2>4. \E l \in LeaseIds, seconds \in RenewRequests : Renew(c, l, seconds)
    BY <1>3, <2>1, <2>2, <2>3 DEF HolderStep
  <2> QED BY <1>3, <2>4, TermRenewed
<1>4. ASSUME leases' # leases PROVE \E c \in Callers : ClaimStep(c) \/ HolderStep(c)
  <2>1. ASSUME NEW c \in Callers, Crash(c) \/ Begin(c) \/ Return(c) \/ Sweep(c)
        PROVE  leases' = leases
    BY <2>1 DEF Crash, Begin, Return, Sweep
  <2>2. ASSUME RecoveryStep PROVE leases' = leases
    BY <2>2 DEF RecoveryStep, Respond, ReconcileJournaled, ReserveRecovery, ReconcileDurable,
       ReconcileUndispatched, ExpireOrphaned
  <2>3. ASSUME Tick \/ (\E w \in WorkOrders : Enqueue(w)) \/ UNCHANGED vars
        PROVE  leases' = leases
    BY <2>3 DEF Tick, Enqueue, vars
  <2> QED BY <1>4, <2>1, <2>2, <2>3 DEF Next, CallerStep
<1> QED BY <1>1, <1>2, <1>3, <1>4

(* A probe of the index names the overdue leases and no other.               *)
LEMMA ProbeIsExact ==
    ASSUME IndInv, CurrentLeaseIndexExact, NEW now \in Nat
    PROVE  DueCandidates(now) = {w \in WorkOrders : Overdue(w, now)}
<1> SUFFICES ASSUME NEW w \in WorkOrders
             PROVE  (/\ current[w].lease # 0 /\ ~current[w].reserved
                     /\ current[w].expires <= now) <=> Overdue(w, now)
  BY DEF DueCandidates
<1>1. CASE Leased(w)
  <2>1. current[w] = [lease |-> Latest(w).lease, expires |-> ExpiresAt(Latest(w).lease),
                      reserved |-> Latest(w).reserved # 0]
    BY <1>1 DEF CurrentLeaseIndexExact
  <2>2. current[w].lease = Latest(w).lease /\ current[w].expires = ExpiresAt(Latest(w).lease)
    BY <2>1
  <2>3. current[w].reserved = (Latest(w).reserved # 0)
    <3> DEFINE held == Latest(w).reserved # 0
    <3>1. current[w] = [lease |-> Latest(w).lease, expires |-> ExpiresAt(Latest(w).lease),
                        reserved |-> held]
      BY <2>1
    <3> HIDE DEF held
    <3>2. current[w].reserved = held
      BY <3>1
    <3> QED BY <3>2 DEF held
  <2>4. ~current[w].reserved <=> Latest(w).reserved = 0
    BY <2>3, Zenon
  <2>5. Latest(w).lease # 0
    BY <1>1, LeasedFacts DEF LeaseIds
  <2> QED BY <1>1, <2>2, <2>4, <2>5, Zenon DEF Overdue
<1>2. CASE ~Leased(w)
  <2>1. current[w] = NoRow
    BY <1>2 DEF CurrentLeaseIndexExact
  <2>2. current[w].lease = 0
    BY <2>1 DEF NoRow
  <2> QED BY <1>2, <2>2 DEF Overdue
<1> QED BY <1>1, <1>2

(* For any number of WorkOrders, callers and renewals and any lease policy:  *)
(* no renewal keeps a lease past max_total_lease_seconds, and once that time *)
(* is over every probe of the index names it.  This is what LeaseIsReleased  *)
(* needs of the code beside fairness (claim, renew, _due_lease_candidates of *)
(* scheduler.py).                                                            *)
THEOREM LeaseTerm == Spec => []LeasesRunOut
<1>1. Init => TermInv
  BY DEF Init, TermInv, LeaseIds
<1>2. HistInv /\ CurrentLeaseIndexExact /\ TermInv => LeasesRunOut
  <2> SUFFICES ASSUME HistInv, CurrentLeaseIndexExact, TermInv PROVE LeasesRunOut
    OBVIOUS
  <2>1. ASSUME NEW now \in Nat
        PROVE  DueCandidates(now) = {w \in WorkOrders : Overdue(w, now)}
    BY ProbeIsExact DEF HistInv
  <2>2. ASSUME NEW w \in WorkOrders, NEW now \in Nat, Leased(w), Latest(w).reserved = 0,
               leases[Latest(w).lease].issued_at + MaxTotalLeaseSeconds <= now
        PROVE  w \in DueCandidates(now)
    <3> DEFINE l == Latest(w).lease
    <3>1. l \in LeaseIds
      BY <2>2, LeasedFacts DEF HistInv
    <3> HIDE DEF l
    <3>2. /\ leases[l].issued_at \in Nat /\ ExpiresAt(l) \in Nat /\ MaxTotalLeaseSeconds \in Nat
      BY <3>1, LeaseFacts, PolicyAssumption DEF HistInv
    <3>3. ExpiresAt(l) <= leases[l].issued_at + MaxTotalLeaseSeconds
      BY <3>1 DEF TermInv, Termed, ExpiresAt
    <3>4. leases[l].issued_at + MaxTotalLeaseSeconds <= now
      BY <2>2 DEF l
    <3>5. ExpiresAt(l) <= now
      BY <3>2, <3>3, <3>4
    <3>6. Overdue(w, now)
      BY <2>2, <3>5 DEF Overdue, l
    <3> QED BY <3>6, <2>1
  <2> QED BY <2>1, <2>2 DEF LeasesRunOut, TermInv
<1> QED BY <1>1, <1>2, HistoryInvariant, IndexExact, NextHistInv, TermStep, PTL DEF Spec
=============================================================================
