----------------------------- MODULE DayBudget -----------------------------
(***************************************************************************)
(* The paid-call day ledgers: thesis_impact_budget.py (one ledger per       *)
(* research environment), budget_pools.py (the four pools of a mission's    *)
(* day and the loans between them) and shared_daily_budget.py (the cap over *)
(* all environments of the host).  Every paid model call reserves before it *)
(* is sent (admit) and is bound to its real cost afterwards (settle); a     *)
(* reservation nobody settles stays charged.                                *)
(*                                                                          *)
(* admit fixes the day, the policy version and the other environments'      *)
(* spend BEFORE it takes this ledger's write lock: Begin takes that         *)
(* reading, Admit commits with it.                                          *)
(***************************************************************************)
EXTENDS Naturals, Sequences, FiniteSets, FiniteSetsExt

CONSTANTS
    Environments,
    Requests,        \* admission identities (WorkOrder, attempt, phase)
    Home,            \* the environment whose ledger a request is made to
    Reserve,         \* its reserved_micros
    Mission,         \* its mission_ref, NoMission when it has no binding
    Pool,            \* its budget pool, NoPool when it names none
    NoMission, NoPool,
    DayCap,          \* day_cap_micros of the policy versions, in order
    MissionCost, MissionCalls,   \* a mission's own day caps
    PoolCap,                     \* its split of the day into pools
    PoolEnforced,                \* pool_enforcement # "off"
    OuterCost, OuterCalls,       \* the outer research budget of a binding
    SharedCost, SharedCalls,     \* the host's shared day caps
    FlakyPeers,      \* environments whose ledger file may fail to read
    Costs,           \* amounts a call may turn out to cost
    LastDay          \* bound: the last day of the calendar

PoolNames == <<"coverage", "event_response", "adhoc", "maintenance">>
Pools == {PoolNames[i] : i \in 1 .. Len(PoolNames)}
NoLoan == [p \in Pools |-> 0]

ASSUME BudgetAssumption ==
    /\ IsFiniteSet(Environments) /\ IsFiniteSet(Requests)
    /\ Home \in [Requests -> Environments]
    /\ Reserve \in [Requests -> Nat \ {0}]
    /\ Pool \in [Requests -> Pools \cup {NoPool}]
    /\ \A r \in Requests : Pool[r] # NoPool => Mission[r] # NoMission
    /\ DayCap \in Seq(Nat \ {0}) /\ DayCap # <<>>
    /\ PoolCap \in [Pools -> Nat]
    /\ \A r \in Requests : Mission[r] # NoMission =>
          /\ MissionCost[Mission[r]] \in 0 .. OuterCost
          /\ MissionCalls[Mission[r]] \in 0 .. OuterCalls
          /\ Pool[r] # NoPool => MapThenSumSet(LAMBDA p : PoolCap[p], Pools)
                                    <= MissionCost[Mission[r]]
    /\ {OuterCost, OuterCalls, SharedCost, SharedCalls} \subseteq Nat
    /\ Costs \subseteq Nat
    /\ LastDay \in Nat \ {0}

VARIABLES
    today,        \* the UTC day
    late,         \* more than half of today has passed
    call,         \* what an admit read before waiting for the write lock
    policy,       \* head of each ledger's policy chain
    admitted,     \* thesis_impact_day_admissions
    actual,       \* thesis_impact_day_settlements
    corrected,    \* thesis_impact_settlement_corrections
    rejected,     \* thesis_impact_day_rejections
    refused,      \* model_budget_pool_rejections
    frozen        \* ledgers holding a model_reservation_overrun alert

vars == <<today, late, call, policy, admitted, actual, corrected, rejected,
          refused, frozen>>

NoCall == [open |-> FALSE, day |-> 0, version |-> 0, calls |-> 0, cost |-> 0]

(* A table is a function on the identities that have a row.                  *)
NoRows == [r \in {} |-> 0]
Insert(table, r, row) ==
    [x \in DOMAIN table \cup {r} |-> IF x = r THEN row ELSE table[x]]

-----------------------------------------------------------------------------
(* Queries *)

IsAdmitted(r) == r \in DOMAIN admitted
IsOpen(r) == IsAdmitted(r) /\ r \notin DOMAIN actual

(* COALESCE(corrected, actual), or the reservation while it is open.         *)
Charge(r) ==
    IF IsOpen(r) THEN Reserve[r]
    ELSE IF r \in DOMAIN corrected THEN corrected[r] ELSE actual[r]

(* Mutant of Counted: open reservations of other days are forgotten.         *)
CountedToday(e, day) ==
    {r \in Requests : /\ Home[r] = e
                      /\ IsAdmitted(r)
                      /\ admitted[r].day = day}

(* DAY_OR_OPEN_ADMISSIONS_SQL: the day's, and every one still open.          *)
Counted(e, day) ==
    {r \in Requests : /\ Home[r] = e
                      /\ IsAdmitted(r)
                      /\ admitted[r].day = day \/ IsOpen(r)}

(* day_spend_rows: what a cap is compared against.                           *)
Spend(rows) == MapThenSumSet(Charge, rows)

(* cross_environment_spend: the ledgers of the peers that could be read.     *)
PeerCalls(peers, day) == MapThenSumSet(LAMBDA e : Cardinality(Counted(e, day)), peers)
PeerCost(peers, day) == MapThenSumSet(LAMBDA e : Spend(Counted(e, day)), peers)

(* One reservation more, against a cap on calls and one on cost.             *)
Exceeds(rows, r, calls, cost) ==
    \/ Cardinality(rows) + 1 > calls
    \/ Spend(rows) + Reserve[r] > cost

MissionRows(r, day) ==
    {x \in Counted(Home[r], day) : Mission[x] \in {Mission[r], NoMission}}

(* day_pool_spend and day_pool_loans: the day's rows only.                   *)
PoolRows(r, day) ==
    {x \in MissionRows(r, day) : admitted[x].day = day /\ Pool[x] # NoPool}
PoolSpend(r, day, p) == Spend({x \in PoolRows(r, day) : Pool[x] = p})
Lent(r, day, p) ==
    MapThenSumSet(LAMBDA x : admitted[x].loan[p], PoolRows(r, day))
Borrowed(r, day, p) ==
    MapThenSumSet(LAMBDA x : MapThenSumSet(LAMBDA q : admitted[x].loan[q], Pools),
                  {x \in PoolRows(r, day) : Pool[x] = p})

Monus(x, y) == IF x > y THEN x - y ELSE 0
Least(x, y) == IF x < y THEN x ELSE y

(* borrow_open: by the clock inside the transaction, not the call's day.     *)
BorrowOpen(day) == day < today \/ (day = today /\ late)

(* Mutant of Offers: what a pool has already lent is offered again.          *)
OffersAgain(r, day) ==
    [p \in Pools |->
        IF Pool[r] = "coverage" /\ BorrowOpen(day) /\ p # Pool[r]
        THEN Monus(PoolCap[p], PoolSpend(r, day, p))
        ELSE 0]

(* borrowable_micros: only coverage borrows, and only late in the day.       *)
Offers(r, day) ==
    [p \in Pools |->
        IF Pool[r] = "coverage" /\ BorrowOpen(day) /\ p # Pool[r]
        THEN Monus(PoolCap[p], PoolSpend(r, day, p) + Lent(r, day, p))
        ELSE 0]

(* allocate_borrow: from the offers in pool order, all of it or nothing.     *)
Allocate(need, offers) ==
    LET before(i) == MapThenSumSet(LAMBDA j : offers[PoolNames[j]], 1 .. (i - 1))
    IN  IF before(Len(PoolNames) + 1) < need THEN NoLoan
        ELSE [p \in Pools |->
                LET i == CHOOSE j \in 1 .. Len(PoolNames) : PoolNames[j] = p
                IN  Least(offers[p], Monus(need, before(i)))]

Shortfall(r, day) ==
    Monus(PoolSpend(r, day, Pool[r]) + Lent(r, day, Pool[r]) + Reserve[r],
          PoolCap[Pool[r]] + Borrowed(r, day, Pool[r]))

(* pool_decision: the loan the admission takes, or that the pool is spent.   *)
PoolShort(r, day) ==
    Pool[r] # NoPool /\ PoolEnforced /\ Shortfall(r, day) > 0
LoanFor(r, day) ==
    IF PoolShort(r, day) THEN Allocate(Shortfall(r, day), Offers(r, day)) ELSE NoLoan
PoolExhausted(r, day) == PoolShort(r, day) /\ LoanFor(r, day) = NoLoan

(* The caps admit checks once the pool has agreed.                           *)
OverMissionCap(r, day) ==
    /\ Mission[r] # NoMission
    /\ Exceeds(MissionRows(r, day), r, MissionCalls[Mission[r]], MissionCost[Mission[r]])
OverOuterCap(r, day) ==
    /\ Mission[r] # NoMission
    /\ Exceeds(Counted(Home[r], day), r, OuterCalls, OuterCost)
(* Mutant of OverSharedCap: only the other environments are counted.         *)
OverSharedCapPeers(r, k) ==
    k.calls + 1 > SharedCalls \/ k.cost + Reserve[r] > SharedCost
OverSharedCap(r, k) ==
    LET rows == Counted(Home[r], k.day)
    IN  \/ Cardinality(rows) + k.calls + 1 > SharedCalls
        \/ Spend(rows) + k.cost + Reserve[r] > SharedCost
(* Mutant of OverDayCap: the reservation itself is not counted.              *)
OverDayCapAlready(r, k) ==
    Spend(Counted(Home[r], k.day)) > DayCap[k.version]
OverDayCap(r, k) ==
    Spend(Counted(Home[r], k.day)) + Reserve[r] > DayCap[k.version]

OverCap(r, k) ==
    \/ OverMissionCap(r, k.day)
    \/ OverOuterCap(r, k.day)
    \/ OverSharedCap(r, k)
    \/ OverDayCap(r, k)

-----------------------------------------------------------------------------
Init ==
    /\ today = 1
    /\ late = FALSE
    /\ call = [r \in Requests |-> NoCall]
    /\ policy = [e \in Environments |-> 1]
    /\ admitted = NoRows
    /\ actual = NoRows
    /\ corrected = NoRows
    /\ rejected = {}
    /\ refused = {}
    /\ frozen = {}

Ledger == <<policy, admitted, actual, corrected, rejected, refused, frozen>>

(* Half of the day passes, then the rest of it.                              *)
Midday ==
    /\ ~late
    /\ late' = TRUE
    /\ UNCHANGED <<today, call, Ledger>>

Midnight ==
    /\ late
    /\ today < LastDay
    /\ today' = today + 1
    /\ late' = FALSE
    /\ UNCHANGED <<call, Ledger>>

(* admit, before BEGIN IMMEDIATE: the caller's day and policy version, and   *)
(* cross_environment_spend over the peers whose ledger can be read.  (The    *)
(* replay of an admitted identity only returns its row, and is left out.)    *)
Begin(r, unreadable) ==
    LET peers == Environments \ ({Home[r]} \cup unreadable)
    IN  /\ ~call[r].open
        /\ ~IsAdmitted(r)
        /\ call' = [call EXCEPT ![r] =
              [open |-> TRUE, day |-> today, version |-> policy[Home[r]],
               calls |-> PeerCalls(peers, today), cost |-> PeerCost(peers, today)]]
        /\ UNCHANGED <<today, late, Ledger>>

(* admit ends without a decision of its own: owner emergency stop, replay of *)
(* a rejected identity, policy superseded in between, ledger frozen, or the  *)
(* busy timeout on the lock.                                                 *)
Return(r) ==
    /\ call[r].open
    /\ call' = [call EXCEPT ![r] = NoCall]
    /\ UNCHANGED <<today, late, Ledger>>

(* Mutant of Undecided: an earlier rejection is not looked up.               *)
UndecidedAgain(r) ==
    /\ call[r].open
    /\ ~IsAdmitted(r)
    /\ call[r].version = policy[Home[r]]
    /\ Home[r] \notin frozen

(* What the transaction of admit requires before it decides.                 *)
Undecided(r) ==
    /\ call[r].open
    /\ ~IsAdmitted(r)
    /\ r \notin rejected
    /\ call[r].version = policy[Home[r]]
    /\ Home[r] \notin frozen

(* The pool is spent: refused for the day, recorded, no verdict for ever.    *)
RefusePool(r) ==
    /\ Undecided(r)
    /\ PoolExhausted(r, call[r].day)
    /\ refused' = refused \cup {[request |-> r, day |-> call[r].day]}
    /\ call' = [call EXCEPT ![r] = NoCall]
    /\ UNCHANGED <<today, late, policy, admitted, actual, corrected, rejected, frozen>>

(* A cap would be passed: the rejection row makes the verdict permanent.     *)
Reject(r) ==
    /\ Undecided(r)
    /\ ~PoolExhausted(r, call[r].day)
    /\ OverCap(r, call[r])
    /\ rejected' = rejected \cup {r}
    /\ call' = [call EXCEPT ![r] = NoCall]
    /\ UNCHANGED <<today, late, policy, admitted, actual, corrected, refused, frozen>>

Admit(r) ==
    LET k == call[r]
    IN  /\ Undecided(r)
        /\ ~PoolExhausted(r, k.day)
        /\ ~OverCap(r, k)
        /\ admitted' = Insert(admitted, r, [day |-> k.day, version |-> k.version,
                                            loan |-> LoanFor(r, k.day)])
        /\ call' = [call EXCEPT ![r] = NoCall]
        /\ UNCHANGED <<today, late, policy, actual, corrected, rejected, refused, frozen>>

(* settle: once per admission, at the real cost, above the reservation too.  *)
Settle(r, micros) ==
    /\ IsOpen(r)
    /\ actual' = Insert(actual, r, micros)
    /\ UNCHANGED <<today, late, call, policy, admitted, corrected, rejected, refused,
                   frozen>>

(* correct_uncertain_settlement: once, upwards, within the reservation.      *)
Correct(r, micros) ==
    /\ IsAdmitted(r)
    /\ ~IsOpen(r)
    /\ r \notin DOMAIN corrected
    /\ micros > actual[r]
    /\ micros <= Reserve[r]
    /\ corrected' = Insert(corrected, r, micros)
    /\ UNCHANGED <<today, late, call, policy, admitted, actual, rejected, refused, frozen>>

(* A lane that finds its call above the reservation records the alert that   *)
(* freezes the ledger and leaves the admission open (_after_accounting).     *)
Freeze(r) ==
    /\ IsOpen(r)
    /\ Home[r] \notin frozen
    /\ \E micros \in Costs : micros > Reserve[r]
    /\ frozen' = frozen \cup {Home[r]}
    /\ UNCHANGED <<today, late, call, policy, admitted, actual, corrected, rejected,
                   refused>>

(* register_policy: the chain advances by one version from its head.         *)
RegisterPolicy(e) ==
    /\ policy[e] < Len(DayCap)
    /\ policy' = [policy EXCEPT ![e] = @ + 1]
    /\ UNCHANGED <<today, late, call, admitted, actual, corrected, rejected, refused,
                   frozen>>

RequestStep(r) ==
    \/ \E unreadable \in SUBSET FlakyPeers : Begin(r, unreadable)
    \/ Return(r)
    \/ RefusePool(r)
    \/ Reject(r)
    \/ Admit(r)
    \/ \E micros \in Costs : Settle(r, micros) \/ Correct(r, micros)
    \/ Freeze(r)

Next ==
    \/ Midday
    \/ Midnight
    \/ \E r \in Requests : RequestStep(r)
    \/ \E e \in Environments : RegisterPolicy(e)

Spec == Init /\ [][Next]_vars

-----------------------------------------------------------------------------
(* Properties *)

(* Every ledger holds rows of its own shape. *)
TypeOK ==
    /\ today \in 1 .. LastDay
    /\ late \in BOOLEAN
    /\ call \in [Requests -> [open : BOOLEAN, day : 0 .. LastDay, version : 0 .. Len(DayCap),
                              calls : Nat, cost : Nat]]
    /\ policy \in [Environments -> 1 .. Len(DayCap)]
    /\ DOMAIN corrected \subseteq DOMAIN actual
    /\ DOMAIN actual \subseteq DOMAIN admitted
    /\ DOMAIN admitted \subseteq Requests
    /\ admitted \in [DOMAIN admitted -> [day : 1 .. LastDay, version : 1 .. Len(DayCap),
                                         loan : [Pools -> Nat]]]
    /\ actual \in [DOMAIN actual -> Nat]
    /\ corrected \in [DOMAIN corrected -> Nat]
    /\ rejected \subseteq Requests
    /\ refused \subseteq [request : Requests, day : 1 .. LastDay]
    /\ frozen \subseteq Environments

(* What an admission draws on the caps it was admitted under: its            *)
(* reservation, or less once it settled lower.  What a call cost above its   *)
(* reservation, or was corrected to later, comes on top and is no decision   *)
(* of admit.                                                                 *)
Drawn(r) == IF IsOpen(r) THEN Reserve[r] ELSE Least(actual[r], Reserve[r])
TotalDrawn(rows) == MapThenSumSet(Drawn, rows)
AdmittedOn(e, day) ==
    {r \in Requests : Home[r] = e /\ IsAdmitted(r) /\ admitted[r].day = day}

(* The policy cap binds every day: what a day's admissions draw is within    *)
(* the cap of a policy version one of them was admitted under, across        *)
(* settlements, corrections, overruns, a policy change in mid-day and calls  *)
(* that read the day before midnight and commit after it.                    *)
PolicyCapBinds ==
    \A e \in Environments, day \in 1 .. LastDay :
        AdmittedOn(e, day) # {} =>
            \E r \in AdmittedOn(e, day) :
                TotalDrawn(AdmittedOn(e, day)) <= DayCap[admitted[r].version]

(* A mission never draws more on a day than its own two caps, and all        *)
(* missions of a ledger together never more than the outer research budget.  *)
MissionCapsBind ==
    \A e \in Environments, day \in 1 .. LastDay :
        LET bound == {r \in AdmittedOn(e, day) : Mission[r] # NoMission}
            of(m) == {r \in bound : Mission[r] = m}
        IN  /\ Cardinality(bound) <= OuterCalls
            /\ TotalDrawn(bound) <= OuterCost
            /\ \A r \in bound :
                  /\ Cardinality(of(Mission[r])) <= MissionCalls[Mission[r]]
                  /\ TotalDrawn(of(Mission[r])) <= MissionCost[Mission[r]]

(* Reservations nobody settles (crashed lanes, lost settlements) are never   *)
(* forgotten at midnight: whatever the number of days, the open ones of a    *)
(* ledger stay within one day's cap.                                         *)
OpenWithinOneDay ==
    \A e \in Environments :
        LET open == {r \in Requests : Home[r] = e /\ IsOpen(r)}
        IN  open # {} => \E r \in Requests : /\ Home[r] = e
                                             /\ IsAdmitted(r)
                                             /\ TotalDrawn(open) <= DayCap[admitted[r].version]

(* No micro is lent twice and no shortfall is borrowed for twice: what a     *)
(* pool drew plus what it lent stays within its cap plus what it borrowed.   *)
PoolsLendOnce ==
    \A r \in Requests : \A day \in 1 .. LastDay :
        Pool[r] # NoPool /\ PoolEnforced =>
            TotalDrawn({x \in PoolRows(r, day) : Pool[x] = Pool[r]})
              + Lent(r, day, Pool[r])
            <= PoolCap[Pool[r]] + Borrowed(r, day, Pool[r])

(* Every day and every mission keeps to its caps.                            *)
CapsBind == PolicyCapBinds /\ MissionCapsBind

(* A refusal because a cap was passed is final: the identity is never        *)
(* admitted later, on another day or under another policy.                   *)
RejectionIsFinal == \A r \in rejected : ~IsAdmitted(r)

(* What a ledger decided stands: its rows are well formed (a settlement only *)
(* of an admitted call, a correction only of a settled one) and no rejection *)
(* is taken back.                                                            *)
DecisionsStand == TypeOK /\ RejectionIsFinal

(* One environment alone never draws more on a day than the host's shared    *)
(* caps allow, however stale or unreadable the other ledgers are.            *)
SharedCapPerLedger ==
    \A e \in Environments, day \in 1 .. LastDay :
        /\ TotalDrawn(AdmittedOn(e, day)) <= SharedCost
        /\ Cardinality(AdmittedOn(e, day)) <= SharedCalls

(* shared_daily_budget.py:9-12: "the day's cost and the day's paid calls are *)
(* counted across all environments, and a call is refused when the shared    *)
(* cap would be passed".                                                     *)
SharedCapHolds ==
    \A day \in 1 .. LastDay :
        LET rows == UNION {AdmittedOn(e, day) : e \in Environments}
        IN  TotalDrawn(rows) <= SharedCost /\ Cardinality(rows) <= SharedCalls
=============================================================================
