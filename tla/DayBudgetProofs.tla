-------------------------- MODULE DayBudgetProofs --------------------------
(***************************************************************************)
(* Theorems about the paid-call day ledgers for any environments, requests, *)
(* caps and days.                                                           *)
(***************************************************************************)
EXTENDS DayBudget, FiniteSums

(* The pools are four.                                                       *)
LEMMA FourPools ==
    /\ Pools = {"coverage", "event_response", "adhoc", "maintenance"}
    /\ IsFiniteSet(Pools)
<1>1. /\ Len(PoolNames) = 4
      /\ PoolNames[1] = "coverage" /\ PoolNames[2] = "event_response"
      /\ PoolNames[3] = "adhoc" /\ PoolNames[4] = "maintenance"
  BY DEF PoolNames
<1>2. Pools = {"coverage", "event_response", "adhoc", "maintenance"}
  BY <1>1 DEF Pools
<1>3. IsFiniteSet({} \cup {"coverage"} \cup {"event_response"} \cup {"adhoc"} \cup {"maintenance"})
  BY FS_EmptySet, FS_AddElement
<1>4. {} \cup {"coverage"} \cup {"event_response"} \cup {"adhoc"} \cup {"maintenance"} = Pools
  BY <1>2
<1> QED BY <1>2, <1>3, <1>4

-----------------------------------------------------------------------------
(* What the ledgers sum, as functions on the requests                        *)

Charged == [x \in Requests |-> IF IsAdmitted(x) THEN Charge(x) ELSE 0]
Draws == [x \in Requests |-> IF IsAdmitted(x) THEN Drawn(x) ELSE 0]
LentBy(p) == [x \in Requests |-> IF IsAdmitted(x) THEN admitted[x].loan[p] ELSE 0]
Loan == [x \in Requests |-> IF IsAdmitted(x) THEN Total(admitted[x].loan, Pools) ELSE 0]

(* Spend and TotalDrawn sum them.                                            *)
LEMMA SpendIs ==
    ASSUME NEW S \in SUBSET Requests, \A x \in S : IsAdmitted(x)
    PROVE  Spend(S) = Total(Charged, S)
<1>1. IsFiniteSet(S)
  BY BudgetAssumption, FS_Subset
<1>2. ASSUME NEW g
      PROVE  IsSum(g, Charged, S) <=>
                g = [s \in SUBSET S |-> IF s = {} THEN 0
                       ELSE Charge(CHOOSE x \in s : TRUE) + g[s \ {CHOOSE x \in s : TRUE}]]
  <2>1. \A s \in SUBSET S : s # {} => Charged[Some(s)] = Charge(CHOOSE x \in s : TRUE)
    BY DEF Some, Charged
  <2> QED BY <2>1 DEF IsSum, Some
<1>3. PICK h : /\ h = [s \in SUBSET S |-> IF s = {} THEN 0
                         ELSE Charge(CHOOSE x \in s : TRUE) + h[s \ {CHOOSE x \in s : TRUE}]]
               /\ MapThenSumSet(Charge, S) = h[S]
  <2>1. PICK g : IsSum(g, Charged, S)
    BY <1>1, SumExists
  <2>2. g = [s \in SUBSET S |-> IF s = {} THEN 0
               ELSE Charge(CHOOSE x \in s : TRUE) + g[s \ {CHOOSE x \in s : TRUE}]]
    BY <1>2, <2>1
  <2> QED BY <2>2, ZenonT(60) DEF MapThenSumSet, MapThenFoldSet
<1>4. IsSum(h, Charged, S)
  BY <1>2, <1>3
<1>5. Spend(S) = h[S]
  BY <1>3, Zenon DEF Spend
<1> QED BY <1>1, <1>4, <1>5, TotalIn

(* The same of what admissions draw.                                        *)
LEMMA TotalDrawnIs ==
    ASSUME NEW S \in SUBSET Requests, \A x \in S : IsAdmitted(x)
    PROVE  TotalDrawn(S) = Total(Draws, S)
<1>1. IsFiniteSet(S)
  BY BudgetAssumption, FS_Subset
<1>2. ASSUME NEW g
      PROVE  IsSum(g, Draws, S) <=>
                g = [s \in SUBSET S |-> IF s = {} THEN 0
                       ELSE Drawn(CHOOSE x \in s : TRUE) + g[s \ {CHOOSE x \in s : TRUE}]]
  <2>1. \A s \in SUBSET S : s # {} => Draws[Some(s)] = Drawn(CHOOSE x \in s : TRUE)
    BY DEF Some, Draws
  <2> QED BY <2>1 DEF IsSum, Some
<1>3. PICK h : /\ h = [s \in SUBSET S |-> IF s = {} THEN 0
                         ELSE Drawn(CHOOSE x \in s : TRUE) + h[s \ {CHOOSE x \in s : TRUE}]]
               /\ MapThenSumSet(Drawn, S) = h[S]
  <2>1. PICK g : IsSum(g, Draws, S)
    BY <1>1, SumExists
  <2>2. g = [s \in SUBSET S |-> IF s = {} THEN 0
               ELSE Drawn(CHOOSE x \in s : TRUE) + g[s \ {CHOOSE x \in s : TRUE}]]
    BY <1>2, <2>1
  <2> QED BY <2>2, ZenonT(60) DEF MapThenSumSet, MapThenFoldSet
<1>4. IsSum(h, Draws, S)
  BY <1>2, <1>3
<1>5. TotalDrawn(S) = h[S]
  BY <1>3, Zenon DEF TotalDrawn
<1> QED BY <1>1, <1>4, <1>5, TotalIn

(* Lent and Borrowed sum the loans.                                          *)
LEMMA LoansIs ==
    ASSUME NEW S \in SUBSET Requests, \A x \in S : IsAdmitted(x), NEW p
    PROVE  MapThenSumSet(LAMBDA x : admitted[x].loan[p], S) = Total(LentBy(p), S)
<1> DEFINE L(x) == admitted[x].loan[p]
<1>1. IsFiniteSet(S)
  BY BudgetAssumption, FS_Subset
<1>2. ASSUME NEW g
      PROVE  IsSum(g, LentBy(p), S) <=>
                g = [s \in SUBSET S |-> IF s = {} THEN 0
                       ELSE L(CHOOSE x \in s : TRUE) + g[s \ {CHOOSE x \in s : TRUE}]]
  <2>1. \A s \in SUBSET S : s # {} => LentBy(p)[Some(s)] = L(CHOOSE x \in s : TRUE)
    BY DEF Some, LentBy
  <2> HIDE DEF L
  <2> QED BY <2>1 DEF IsSum, Some
<1>3. PICK h : /\ h = [s \in SUBSET S |-> IF s = {} THEN 0
                         ELSE L(CHOOSE x \in s : TRUE) + h[s \ {CHOOSE x \in s : TRUE}]]
               /\ MapThenSumSet(LAMBDA x : L(x), S) = h[S]
  <2>1. PICK g : IsSum(g, LentBy(p), S)
    BY <1>1, SumExists
  <2> HIDE DEF L
  <2>2. g = [s \in SUBSET S |-> IF s = {} THEN 0
               ELSE L(CHOOSE x \in s : TRUE) + g[s \ {CHOOSE x \in s : TRUE}]]
    BY <1>2, <2>1
  <2> QED BY <2>2, ZenonT(60) DEF MapThenSumSet, MapThenFoldSet
<1>4. IsSum(h, LentBy(p), S)
  BY <1>2, <1>3
<1>5. MapThenSumSet(LAMBDA x : L(x), S) = Total(LentBy(p), S)
  BY <1>1, <1>3, <1>4, TotalIn
<1> QED BY <1>5, Zenon

(* A loan is the sum of what each pool gives to it.                         *)
LEMMA LoanIs ==
    ASSUME NEW l \in [Pools -> Nat]
    PROVE  MapThenSumSet(LAMBDA q : l[q], Pools) = Total(l, Pools)
<1>1. IsFiniteSet(Pools)
  BY FourPools
<1>2. PICK h : IsSum(h, l, Pools) /\ MapThenSumSet(LAMBDA q : l[q], Pools) = h[Pools]
  <2>1. PICK g : IsSum(g, l, Pools)
    BY <1>1, SumExists
  <2> QED BY <2>1, Zenon DEF MapThenSumSet, MapThenFoldSet, IsSum, Some
<1> QED BY <1>1, <1>2, TotalIn

(* What was borrowed is the sum of the loans.                               *)
LEMMA BorrowedIs ==
    ASSUME NEW S \in SUBSET Requests,
           \A x \in S : IsAdmitted(x) /\ admitted[x].loan \in [Pools -> Nat]
    PROVE  MapThenSumSet(LAMBDA x : MapThenSumSet(LAMBDA q : admitted[x].loan[q], Pools), S)
             = Total(Loan, S)
<1> DEFINE L(x) == MapThenSumSet(LAMBDA q : admitted[x].loan[q], Pools)
<1>1. IsFiniteSet(S)
  BY BudgetAssumption, FS_Subset
<1>2. ASSUME NEW g
      PROVE  IsSum(g, Loan, S) <=>
                g = [s \in SUBSET S |-> IF s = {} THEN 0
                       ELSE L(CHOOSE x \in s : TRUE) + g[s \ {CHOOSE x \in s : TRUE}]]
  <2>1. ASSUME NEW s \in SUBSET S, s # {}
        PROVE  Loan[Some(s)] = L(CHOOSE x \in s : TRUE)
    <3> DEFINE y == Some(s)
    <3>1. y \in S
      BY <2>1 DEF Some
    <3>2. Loan[y] = Total(admitted[y].loan, Pools)
      BY <3>1 DEF Loan
    <3>3. L(y) = Total(admitted[y].loan, Pools)
      <4>1. admitted[y].loan \in [Pools -> Nat]
        BY <3>1
      <4> HIDE DEF y
      <4>2. MapThenSumSet(LAMBDA q : admitted[y].loan[q], Pools) = Total(admitted[y].loan, Pools)
        BY <4>1, LoanIs
      <4> QED BY <4>2, Zenon
    <3> HIDE DEF L
    <3> QED BY <3>2, <3>3 DEF Some
  <2>2. \A s \in SUBSET S :
          (IF s = {} THEN 0 ELSE Loan[Some(s)] + g[s \ {Some(s)}])
            = (IF s = {} THEN 0
               ELSE L(CHOOSE x \in s : TRUE) + g[s \ {CHOOSE x \in s : TRUE}])
    <3> HIDE DEF L
    <3> QED BY <2>1 DEF Some
  <2> HIDE DEF L
  <2>3. [s \in SUBSET S |-> IF s = {} THEN 0 ELSE Loan[Some(s)] + g[s \ {Some(s)}]]
          = [s \in SUBSET S |-> IF s = {} THEN 0
               ELSE L(CHOOSE x \in s : TRUE) + g[s \ {CHOOSE x \in s : TRUE}]]
    BY <2>2
  <2> QED BY <2>3 DEF IsSum
<1>3. PICK h : /\ h = [s \in SUBSET S |-> IF s = {} THEN 0
                         ELSE L(CHOOSE x \in s : TRUE) + h[s \ {CHOOSE x \in s : TRUE}]]
               /\ MapThenSumSet(LAMBDA x : L(x), S) = h[S]
  <2>1. PICK g : IsSum(g, Loan, S)
    BY <1>1, SumExists
  <2> HIDE DEF L
  <2>2. g = [s \in SUBSET S |-> IF s = {} THEN 0
               ELSE L(CHOOSE x \in s : TRUE) + g[s \ {CHOOSE x \in s : TRUE}]]
    BY <1>2, <2>1
  <2> QED BY <2>2, ZenonT(60) DEF MapThenSumSet, MapThenFoldSet
<1>4. IsSum(h, Loan, S)
  <2> HIDE DEF L
  <2> QED BY <1>2, <1>3
<1>5. MapThenSumSet(LAMBDA x : L(x), S) = Total(Loan, S)
  <2> HIDE DEF L
  <2> QED BY <1>1, <1>3, <1>4, TotalIn
<1> QED BY <1>5, Zenon

-----------------------------------------------------------------------------
(* Types *)

(* No correction lowers a settlement.                                        *)
Raised == \A r \in DOMAIN corrected : actual[r] <= corrected[r]

(* A reading that is open is one of a day.                                   *)
CallsDated == \A r \in Requests : call[r].open => call[r].day \in 1 .. LastDay

(* Charges, draws and reservations are numbers; no draw passes its          *)
(* reservation.                                                             *)
LEMMA AmountsType ==
    ASSUME TypeOK
    PROVE  \A x \in Requests : /\ Charged[x] \in Nat /\ Draws[x] \in Nat
                               /\ Reserve[x] \in Nat /\ Draws[x] <= Reserve[x]
<1> SUFFICES ASSUME NEW x \in Requests
             PROVE  /\ Charged[x] \in Nat /\ Draws[x] \in Nat
                    /\ Reserve[x] \in Nat /\ Draws[x] <= Reserve[x]
  OBVIOUS
<1>1. Reserve[x] \in Nat
  BY BudgetAssumption
<1>2. /\ x \in DOMAIN actual => actual[x] \in Nat
      /\ x \in DOMAIN corrected => corrected[x] \in Nat
  BY DEF TypeOK
<1> QED BY <1>1, <1>2 DEF Charged, Draws, Charge, Drawn, Least, IsOpen, IsAdmitted

(* What a call draws is no more than it is charged.                          *)
LEMMA DrawsCharged ==
    ASSUME TypeOK, Raised
    PROVE  \A x \in Requests : Draws[x] <= Charged[x]
<1> SUFFICES ASSUME NEW x \in Requests PROVE Draws[x] <= Charged[x]
  OBVIOUS
<1>1. Reserve[x] \in Nat
  BY BudgetAssumption
<1>2. /\ x \in DOMAIN actual => actual[x] \in Nat
      /\ x \in DOMAIN corrected => /\ corrected[x] \in Nat /\ x \in DOMAIN actual
                                   /\ actual[x] <= corrected[x]
  BY DEF TypeOK, Raised
<1> QED BY <1>1, <1>2 DEF Charged, Draws, Charge, Drawn, Least, IsOpen, IsAdmitted

(* A loan names an amount of each pool.                                     *)
LEMMA LoanType ==
    ASSUME TypeOK, NEW x \in DOMAIN admitted
    PROVE  admitted[x].loan \in [Pools -> Nat]
BY DEF TypeOK

(* The loans, by borrower and by lender, are numbers.                       *)
LEMMA LoansType ==
    ASSUME TypeOK
    PROVE  \A x \in Requests : Loan[x] \in Nat /\ \A p \in Pools : LentBy(p)[x] \in Nat
<1> SUFFICES ASSUME NEW x \in Requests
             PROVE  Loan[x] \in Nat /\ \A p \in Pools : LentBy(p)[x] \in Nat
  OBVIOUS
<1>1. CASE ~IsAdmitted(x)
  BY <1>1 DEF Loan, LentBy
<1>2. CASE IsAdmitted(x)
  <2>1. admitted[x].loan \in [Pools -> Nat]
    BY <1>2, LoanType DEF IsAdmitted
  <2>2. Total(admitted[x].loan, Pools) \in Nat
    BY <2>1, FourPools, TotalType
  <2> QED BY <1>2, <2>1, <2>2 DEF Loan, LentBy
<1> QED BY <1>1, <1>2

(* The readings of the other ledgers are numbers.                            *)
LEMMA PeerCallsType ==
    ASSUME TypeOK, NEW peers \in SUBSET Environments, NEW day
    PROVE  PeerCalls(peers, day) \in Nat
<1> DEFINE rows(e) == Counted(e, day)
           of == [e \in Environments |-> Cardinality(rows(e))]
<1>1. IsFiniteSet(peers)
  BY BudgetAssumption, FS_Subset
<1>2. \A e \in peers : of[e] \in Nat
  <2> SUFFICES ASSUME NEW e \in Environments PROVE Cardinality(rows(e)) \in Nat
    OBVIOUS
  <2> HIDE DEF of
  <2>1. rows(e) \subseteq Requests /\ \A x \in rows(e) : IsAdmitted(x)
    BY DEF Counted
  <2> HIDE DEF rows
  <2>2. IsFiniteSet(rows(e))
    BY <2>1, BudgetAssumption, FS_Subset
  <2> QED BY <2>2, FS_CardinalityType
<1>3. ASSUME NEW g
      PROVE  IsSum(g, of, peers) <=>
                g = [s \in SUBSET peers |-> IF s = {} THEN 0
                       ELSE Cardinality(rows(CHOOSE x \in s : TRUE)) + g[s \ {CHOOSE x \in s : TRUE}]]
  <2>1. \A s \in SUBSET peers : s # {} => of[Some(s)] = Cardinality(rows(CHOOSE x \in s : TRUE))
    <3> HIDE DEF rows
    <3> QED BY DEF Some
  <2> HIDE DEF rows, of
  <2> QED BY <2>1 DEF IsSum, Some
<1> HIDE DEF rows, of
<1>4. PICK g : IsSum(g, of, peers)
  BY <1>1, SumExists
<1>5. g = [s \in SUBSET peers |-> IF s = {} THEN 0
             ELSE Cardinality(rows(CHOOSE x \in s : TRUE)) + g[s \ {CHOOSE x \in s : TRUE}]]
  BY <1>3, <1>4
<1>6. PICK h : /\ h = [s \in SUBSET peers |-> IF s = {} THEN 0
                         ELSE Cardinality(rows(CHOOSE x \in s : TRUE)) + h[s \ {CHOOSE x \in s : TRUE}]]
               /\ MapThenSumSet(LAMBDA e : Cardinality(rows(e)), peers) = h[peers]
  BY <1>5, Zenon DEF MapThenSumSet, MapThenFoldSet
<1>7. IsSum(h, of, peers)
  BY <1>3, <1>6
<1>8. h[peers] \in Nat
  BY <1>1, <1>2, <1>7, SumType
<1>9. PeerCalls(peers, day) = h[peers]
  BY <1>6, Zenon DEF PeerCalls, rows
<1> QED BY <1>8, <1>9

(* So is the sum of their costs.                                            *)
LEMMA PeerCostType ==
    ASSUME TypeOK, NEW peers \in SUBSET Environments, NEW day
    PROVE  PeerCost(peers, day) \in Nat
<1> DEFINE rows(e) == Counted(e, day)
           of == [e \in Environments |-> Spend(rows(e))]
<1>1. IsFiniteSet(peers)
  BY BudgetAssumption, FS_Subset
<1>2. \A e \in peers : of[e] \in Nat
  <2> SUFFICES ASSUME NEW e \in Environments PROVE Spend(rows(e)) \in Nat
    OBVIOUS
  <2> HIDE DEF of
  <2>1. rows(e) \subseteq Requests /\ \A x \in rows(e) : IsAdmitted(x)
    BY DEF Counted
  <2> HIDE DEF rows
  <2>2. IsFiniteSet(rows(e))
    BY <2>1, BudgetAssumption, FS_Subset
  <2>3. \A x \in rows(e) : Charged[x] \in Nat
    BY <2>1, AmountsType
  <2> QED BY <2>1, <2>2, <2>3, SpendIs, TotalType
<1>3. ASSUME NEW g
      PROVE  IsSum(g, of, peers) <=>
                g = [s \in SUBSET peers |-> IF s = {} THEN 0
                       ELSE Spend(rows(CHOOSE x \in s : TRUE)) + g[s \ {CHOOSE x \in s : TRUE}]]
  <2>1. \A s \in SUBSET peers : s # {} => of[Some(s)] = Spend(rows(CHOOSE x \in s : TRUE))
    <3> HIDE DEF rows
    <3> QED BY DEF Some
  <2> HIDE DEF rows, of
  <2> QED BY <2>1 DEF IsSum, Some
<1> HIDE DEF rows, of
<1>4. PICK g : IsSum(g, of, peers)
  BY <1>1, SumExists
<1>5. g = [s \in SUBSET peers |-> IF s = {} THEN 0
             ELSE Spend(rows(CHOOSE x \in s : TRUE)) + g[s \ {CHOOSE x \in s : TRUE}]]
  BY <1>3, <1>4
<1>6. PICK h : /\ h = [s \in SUBSET peers |-> IF s = {} THEN 0
                         ELSE Spend(rows(CHOOSE x \in s : TRUE)) + h[s \ {CHOOSE x \in s : TRUE}]]
               /\ MapThenSumSet(LAMBDA e : Spend(rows(e)), peers) = h[peers]
  BY <1>5, Zenon DEF MapThenSumSet, MapThenFoldSet
<1>7. IsSum(h, of, peers)
  BY <1>3, <1>6
<1>8. h[peers] \in Nat
  BY <1>1, <1>2, <1>7, SumType
<1>9. PeerCost(peers, day) = h[peers]
  BY <1>6, Zenon DEF PeerCost, rows
<1> QED BY <1>8, <1>9

-----------------------------------------------------------------------------
(* Loans *)

(* The four pools written out.                                              *)
LEMMA TotalOfPools ==
    ASSUME NEW l \in [Pools -> Nat]
    PROVE  Total(l, Pools) = l["coverage"] + l["event_response"] + l["adhoc"] + l["maintenance"]
<1> DEFINE one == {"coverage"}
           two == one \cup {"event_response"}
           three == two \cup {"adhoc"}
<1>1. Pools = three \cup {"maintenance"}
  BY FourPools
<1>2. /\ l["coverage"] \in Nat /\ l["event_response"] \in Nat
      /\ l["adhoc"] \in Nat /\ l["maintenance"] \in Nat
      /\ \A x \in three \cup {"maintenance"} : l[x] \in Nat
  BY FourPools
<1>3. Total(l, one) = l["coverage"]
  <2>1. {} \cup {"coverage"} = one
    OBVIOUS
  <2>2. Total(l, {} \cup {"coverage"}) = Total(l, {}) + l["coverage"]
    BY <1>2, FS_EmptySet, TotalAdd
  <2> QED BY <1>2, <2>1, <2>2, TotalEmpty
<1>4. IsFiniteSet(one) /\ IsFiniteSet(two) /\ IsFiniteSet(three)
  BY FS_Singleton, FS_AddElement
<1>5. Total(l, two) = Total(l, one) + l["event_response"]
  <2>1. \A x \in one \cup {"event_response"} : l[x] \in Nat
    BY <1>2
  <2> QED BY <1>4, <2>1, TotalAdd
<1>6. Total(l, three) = Total(l, two) + l["adhoc"]
  <2>1. \A x \in two \cup {"adhoc"} : l[x] \in Nat
    BY <1>2
  <2>2. "adhoc" \notin two
    OBVIOUS
  <2> HIDE DEF two
  <2> QED BY <1>4, <2>1, <2>2, TotalAdd
<1>7. Total(l, three \cup {"maintenance"}) = Total(l, three) + l["maintenance"]
  <2>1. "maintenance" \notin three
    OBVIOUS
  <2> HIDE DEF three
  <2> QED BY <1>2, <1>4, <2>1, TotalAdd
<1> HIDE DEF one, two, three
<1> QED BY <1>1, <1>3, <1>5, <1>6, <1>7

(* The offers before the i-th pool.                                          *)
Before(offers, i) == MapThenSumSet(LAMBDA j : offers[PoolNames[j]], 1 .. (i - 1))

(* The partial sums of allocate_borrow written out.                         *)
LEMMA BeforeIs ==
    ASSUME NEW offers \in [Pools -> Nat]
    PROVE  /\ Before(offers, 1) = 0
           /\ Before(offers, 2) = offers["coverage"]
           /\ Before(offers, 3) = offers["coverage"] + offers["event_response"]
           /\ Before(offers, 4) = offers["coverage"] + offers["event_response"] + offers["adhoc"]
           /\ Before(offers, 5) = offers["coverage"] + offers["event_response"]
                                    + offers["adhoc"] + offers["maintenance"]
<1> DEFINE o == [j \in 1 .. 4 |-> offers[PoolNames[j]]]
<1>1. /\ o[1] = offers["coverage"] /\ o[2] = offers["event_response"]
      /\ o[3] = offers["adhoc"] /\ o[4] = offers["maintenance"]
  BY DEF PoolNames
<1>2. \A j \in 1 .. 4 : o[j] \in Nat
  <2>1. \A j \in 1 .. 4 : PoolNames[j] \in Pools
    BY DEF PoolNames, Pools
  <2> QED BY <2>1
<1>3. \A n \in 0 .. 4 : IsFiniteSet(1 .. n)
  BY FS_Interval
<1>4. ASSUME NEW i \in 1 .. 5
      PROVE  Before(offers, i) = Total(o, 1 .. (i - 1))
  <2> DEFINE S == 1 .. (i - 1)
             L(j) == offers[PoolNames[j]]
  <2>1. IsFiniteSet(S) /\ S \subseteq 1 .. 4
    <3>1. i - 1 \in 0 .. 4
      OBVIOUS
    <3>2. IsFiniteSet(S)
      BY <1>3, <3>1
    <3> QED BY <3>1, <3>2
  <2>2. \A s \in SUBSET S : s # {} => o[Some(s)] = L(CHOOSE x \in s : TRUE)
    BY <2>1 DEF Some
  <2>3. ASSUME NEW g
        PROVE  IsSum(g, o, S) <=>
                 g = [s \in SUBSET S |-> IF s = {} THEN 0
                        ELSE L(CHOOSE x \in s : TRUE) + g[s \ {CHOOSE x \in s : TRUE}]]
    <3> HIDE DEF S, o
    <3> QED BY <2>2 DEF IsSum, Some
  <2>4. PICK g : IsSum(g, o, S)
    BY <2>1, SumExists
  <2> HIDE DEF o
  <2>5. PICK h : /\ h = [s \in SUBSET S |-> IF s = {} THEN 0
                        ELSE L(CHOOSE x \in s : TRUE) + h[s \ {CHOOSE x \in s : TRUE}]]
                 /\ MapThenSumSet(LAMBDA j : L(j), S) = h[S]
    <3>1. g = [s \in SUBSET S |-> IF s = {} THEN 0
                 ELSE L(CHOOSE x \in s : TRUE) + g[s \ {CHOOSE x \in s : TRUE}]]
      BY <2>3, <2>4
    <3> HIDE DEF S, L
    <3> DEFINE f == CHOOSE f : f = [s \in SUBSET S |-> IF s = {} THEN 0
                      ELSE L(CHOOSE x \in s : TRUE) + f[s \ {CHOOSE x \in s : TRUE}]]
    <3>2. f = [s \in SUBSET S |-> IF s = {} THEN 0
                 ELSE L(CHOOSE x \in s : TRUE) + f[s \ {CHOOSE x \in s : TRUE}]]
      BY <3>1, ZenonT(60)
    <3>3. MapThenSumSet(LAMBDA j : L(j), S) = f[S]
      BY ZenonT(60) DEF MapThenSumSet, MapThenFoldSet
    <3> HIDE DEF f
    <3> QED BY <3>2, <3>3, ZenonT(60)
  <2>6. IsSum(h, o, S)
    BY <2>3, <2>5
  <2>7. h[S] = Total(o, S)
    BY <2>1, <2>6, TotalIn
  <2> QED BY <2>5, <2>7, Zenon DEF Before
<1>5. Total(o, 1 .. 0) = 0
  <2>1. 1 .. 0 = {}
    OBVIOUS
  <2> QED BY <2>1, TotalEmpty
<1>6. ASSUME NEW n \in 1 .. 4
      PROVE  Total(o, 1 .. n) = Total(o, 1 .. (n - 1)) + o[n]
  <2>1. 1 .. n = (1 .. (n - 1)) \cup {n} /\ n \notin 1 .. (n - 1) /\ IsFiniteSet(1 .. (n - 1))
    <3>1. n - 1 \in 0 .. 4
      OBVIOUS
    <3>2. IsFiniteSet(1 .. (n - 1))
      BY <1>3, <3>1
    <3>3. n \notin 1 .. (n - 1)
      OBVIOUS
    <3>4. 1 .. n = (1 .. (n - 1)) \cup {n}
      OBVIOUS
    <3> QED BY <3>2, <3>3, <3>4
  <2>2. \A x \in (1 .. (n - 1)) \cup {n} : o[x] \in Nat
    BY <1>2, <2>1
  <2> HIDE DEF o
  <2> QED BY <2>1, <2>2, TotalAdd
<1> HIDE DEF o
<1>7. Total(o, 1 .. 1) = o[1]
  BY <1>2, <1>5, <1>6
<1>8. Total(o, 1 .. 2) = o[1] + o[2]
  BY <1>6, <1>7
<1>9. Total(o, 1 .. 3) = o[1] + o[2] + o[3]
  BY <1>6, <1>8
<1>10. Total(o, 1 .. 4) = o[1] + o[2] + o[3] + o[4]
  BY <1>6, <1>9
<1>11. /\ Before(offers, 1) = Total(o, 1 .. 0) /\ Before(offers, 2) = Total(o, 1 .. 1)
       /\ Before(offers, 3) = Total(o, 1 .. 2) /\ Before(offers, 4) = Total(o, 1 .. 3)
       /\ Before(offers, 5) = Total(o, 1 .. 4)
  BY <1>4
<1> QED BY <1>1, <1>5, <1>7, <1>8, <1>9, <1>10, <1>11

(* allocate_borrow takes no more than is offered, and what is needed exactly *)
(* or nothing.                                                               *)
LEMMA AllocateIs ==
    ASSUME NEW need \in Nat, NEW offers \in [Pools -> Nat]
    PROVE  /\ Allocate(need, offers) \in [Pools -> Nat]
           /\ \A p \in Pools : Allocate(need, offers)[p] <= offers[p]
           /\ Allocate(need, offers) # NoLoan => Total(Allocate(need, offers), Pools) = need
<1> DEFINE index(p) == CHOOSE j \in 1 .. Len(PoolNames) : PoolNames[j] = p
           taken == [p \in Pools |-> Least(offers[p], Monus(need, Before(offers, index(p))))]
           total == Before(offers, Len(PoolNames) + 1)
<1>1. Allocate(need, offers) = IF total < need THEN NoLoan ELSE taken
  BY Zenon DEF Allocate, Before
<1>2. /\ index("coverage") = 1 /\ index("event_response") = 2
      /\ index("adhoc") = 3 /\ index("maintenance") = 4
  BY DEF PoolNames
<1> DEFINE c == offers["coverage"]
           e == offers["event_response"]
           a == offers["adhoc"]
           m == offers["maintenance"]
<1>3. c \in Nat /\ e \in Nat /\ a \in Nat /\ m \in Nat
  BY FourPools
<1>4. total = c + e + a + m
  BY BeforeIs DEF PoolNames
<1>5. /\ taken["coverage"] = Least(c, Monus(need, 0))
      /\ taken["event_response"] = Least(e, Monus(need, c))
      /\ taken["adhoc"] = Least(a, Monus(need, c + e))
      /\ taken["maintenance"] = Least(m, Monus(need, c + e + a))
  <2> HIDE DEF index
  <2> QED BY <1>2, BeforeIs, FourPools
<1>6. DOMAIN taken = Pools
  OBVIOUS
<1> HIDE DEF taken, total, index
<1>7. \A p \in Pools : taken[p] \in Nat /\ taken[p] <= offers[p]
  BY <1>3, <1>5, FourPools DEF Least, Monus
<1>8. taken \in [Pools -> Nat]
  <2>1. taken = [p \in Pools |-> taken[p]]
    BY <1>6 DEF taken
  <2> QED BY <1>7, <2>1
<1>9. total >= need => Total(taken, Pools) = need
  <2> DEFINE t1 == taken["coverage"]
             t2 == taken["event_response"]
             t3 == taken["adhoc"]
             t4 == taken["maintenance"]
  <2>1. Total(taken, Pools) = t1 + t2 + t3 + t4
    BY <1>8, TotalOfPools
  <2>2. /\ t1 = Least(c, Monus(need, 0)) /\ t2 = Least(e, Monus(need, c))
        /\ t3 = Least(a, Monus(need, c + e)) /\ t4 = Least(m, Monus(need, c + e + a))
    BY <1>5
  <2> HIDE DEF t1, t2, t3, t4, c, e, a, m
  <2>3. c + e + a + m >= need => t1 + t2 + t3 + t4 = need
    BY <1>3, <2>2 DEF Least, Monus
  <2> QED BY <1>4, <2>1, <2>3
<1>10. NoLoan \in [Pools -> Nat] /\ \A p \in Pools : NoLoan[p] <= offers[p]
  BY DEF NoLoan
<1>11. total \in Nat
  BY <1>3, <1>4
<1> QED BY <1>1, <1>7, <1>8, <1>9, <1>10, <1>11

(* The empty loan is worth nothing.                                         *)
LEMMA NoLoanTotal == Total(NoLoan, Pools) = 0
<1>1. NoLoan \in [Pools -> Nat]
  BY DEF NoLoan
<1>2. Total(NoLoan, Pools) = NoLoan["coverage"] + NoLoan["event_response"] + NoLoan["adhoc"]
                               + NoLoan["maintenance"]
  BY <1>1, TotalOfPools
<1> QED BY <1>2, FourPools DEF NoLoan

-----------------------------------------------------------------------------
(* The inductive invariant *)

Bound(e, day) == {r \in AdmittedOn(e, day) : Mission[r] # NoMission}
OfMission(e, day, m) == {r \in Bound(e, day) : Mission[r] = m}
OpenIn(e) == {r \in Requests : Home[r] = e /\ IsOpen(r)}
PoolMembers(r, day) == {x \in PoolRows(r, day) : Pool[x] = Pool[r]}

PolicyKept(e, day) ==
    AdmittedOn(e, day) # {} =>
        \E r \in AdmittedOn(e, day) :
            Total(Draws, AdmittedOn(e, day)) <= DayCap[admitted[r].version]

OuterKept(e, day) ==
    /\ Cardinality(Bound(e, day)) <= OuterCalls
    /\ Total(Draws, Bound(e, day)) <= OuterCost

MissionKept(e, day) ==
    \A r \in Bound(e, day) :
        /\ Cardinality(OfMission(e, day, Mission[r])) <= MissionCalls[Mission[r]]
        /\ Total(Draws, OfMission(e, day, Mission[r])) <= MissionCost[Mission[r]]

SharedKept(e, day) ==
    /\ Total(Draws, AdmittedOn(e, day)) <= SharedCost
    /\ Cardinality(AdmittedOn(e, day)) <= SharedCalls

OpenKept(e) ==
    OpenIn(e) # {} => \E r \in Requests : /\ Home[r] = e
                                          /\ IsAdmitted(r)
                                          /\ Total(Draws, OpenIn(e)) <= DayCap[admitted[r].version]

PoolKept(r, day) ==
    Pool[r] # NoPool /\ PoolEnforced =>
        Total(Draws, PoolMembers(r, day)) + Total(LentBy(Pool[r]), PoolRows(r, day))
          <= PoolCap[Pool[r]] + Total(Loan, PoolMembers(r, day))

DayKept(e, day) ==
    PolicyKept(e, day) /\ OuterKept(e, day) /\ MissionKept(e, day) /\ SharedKept(e, day)

CapsKept ==
    \A e \in Environments : OpenKept(e) /\ \A day \in 1 .. LastDay : DayKept(e, day)

PoolsKept == \A r \in Requests, day \in 1 .. LastDay : PoolKept(r, day)

WellFormed == TypeOK /\ CallsDated /\ Raised /\ RejectionIsFinal

IndInv == WellFormed /\ CapsKept /\ PoolsKept

(* The rows of a pool's day are the pooled admissions of its mission.        *)
Pooled(table, r, day) ==
    {x \in Requests : /\ x \in DOMAIN table /\ Home[x] = Home[r]
                      /\ Mission[x] = Mission[r] /\ table[x].day = day /\ Pool[x] # NoPool}

(* They are the rows the model selects, before and after a step.            *)
LEMMA PoolRowsAre ==
    ASSUME NEW r \in Requests, NEW day
    PROVE  /\ PoolRows(r, day) = Pooled(admitted, r, day)
           /\ (PoolRows(r, day))' = Pooled(admitted', r, day)
<1>1. \A x \in Requests : Pool[x] # NoPool => Mission[x] # NoMission
  BY BudgetAssumption
<1> QED BY <1>1 DEF PoolRows, MissionRows, Counted, IsAdmitted, IsOpen, Pooled

-----------------------------------------------------------------------------
(* Steps that admit nothing *)

Quiet ==
    /\ admitted' = admitted
    /\ DOMAIN actual \subseteq DOMAIN actual'
    /\ \A x \in Requests : Draws'[x] \in Nat /\ Draws'[x] <= Draws[x]

(* What a set of requests draws does not grow.                               *)
LEMMA QuietTotal ==
    ASSUME TypeOK, Quiet, NEW S \in SUBSET Requests, NEW T \in SUBSET S, NEW cap \in Nat,
           Total(Draws, S) <= cap
    PROVE  Total(Draws', T) <= cap
<1>1. IsFiniteSet(S) /\ IsFiniteSet(T)
  BY BudgetAssumption, FS_Subset
<1>2. \A x \in S : Draws[x] \in Nat
  BY AmountsType
<1>3. \A x \in T : Draws'[x] \in Nat /\ Draws'[x] <= Draws[x]
  BY DEF Quiet
<1>4. Total(Draws', T) <= Total(Draws, S)
  BY <1>1, <1>2, <1>3, TotalLess
<1>5. Total(Draws', T) \in Nat /\ Total(Draws, S) \in Nat
  BY <1>1, <1>2, <1>3, TotalType
<1> QED BY <1>4, <1>5

(* The caps are numbers.                                                     *)
LEMMA CapsType ==
    ASSUME TypeOK
    PROVE  /\ \A r \in DOMAIN admitted : DayCap[admitted[r].version] \in Nat
           /\ \A r \in Requests : Mission[r] # NoMission =>
                 MissionCost[Mission[r]] \in Nat /\ MissionCalls[Mission[r]] \in Nat
           /\ OuterCost \in Nat /\ OuterCalls \in Nat /\ SharedCost \in Nat /\ SharedCalls \in Nat
<1>1. OuterCost \in Nat /\ OuterCalls \in Nat /\ SharedCost \in Nat /\ SharedCalls \in Nat
  BY BudgetAssumption
<1>2. ASSUME NEW r \in Requests, Mission[r] # NoMission
      PROVE  MissionCost[Mission[r]] \in Nat /\ MissionCalls[Mission[r]] \in Nat
  <2>1. MissionCost[Mission[r]] \in 0 .. OuterCost /\ MissionCalls[Mission[r]] \in 0 .. OuterCalls
    BY <1>2, BudgetAssumption
  <2> QED BY <1>1, <2>1
<1>3. ASSUME NEW r \in DOMAIN admitted PROVE DayCap[admitted[r].version] \in Nat
  <2>1. admitted[r].version \in 1 .. Len(DayCap)
    BY DEF TypeOK
  <2>2. DayCap \in Seq(Nat \ {0})
    BY BudgetAssumption
  <2> QED BY <2>1, <2>2
<1> QED BY <1>1, <1>2, <1>3

(* A day keeps to its caps.                                                 *)
LEMMA QuietDay ==
    ASSUME TypeOK, Quiet, NEW e \in Environments, NEW day, DayKept(e, day)
    PROVE  DayKept(e, day)'
<1> DEFINE A == AdmittedOn(e, day)
           B == Bound(e, day)
           M(m) == OfMission(e, day, m)
<1>1. A' = A /\ B' = B /\ \A m : M(m)' = M(m)
  BY DEF Quiet, AdmittedOn, Bound, OfMission, IsAdmitted
<1>2. A \subseteq Requests /\ B \subseteq Requests /\ \A m : M(m) \subseteq Requests
  BY DEF AdmittedOn, Bound, OfMission
<1>3. \A r \in A : r \in DOMAIN admitted
  BY DEF AdmittedOn, IsAdmitted
<1>4. PolicyKept(e, day)'
  <2> SUFFICES ASSUME A' # {}
               PROVE  \E r \in A' : Total(Draws', A') <= DayCap[admitted'[r].version]
    BY DEF PolicyKept
  <2>1. PICK r \in A : Total(Draws, A) <= DayCap[admitted[r].version]
    BY <1>1 DEF DayKept, PolicyKept
  <2>2. DayCap[admitted[r].version] \in Nat
    BY <1>3, CapsType
  <2>3. Total(Draws', A) <= DayCap[admitted[r].version]
    <3> HIDE DEF A
    <3> QED BY <1>2, <2>1, <2>2, QuietTotal
  <2> HIDE DEF A
  <2> QED BY <1>1, <2>3 DEF Quiet
<1>5. OuterKept(e, day)'
  <2>1. Cardinality(B) <= OuterCalls /\ Total(Draws, B) <= OuterCost
    BY DEF DayKept, OuterKept
  <2>2. Total(Draws', B) <= OuterCost
    <3> HIDE DEF B
    <3> QED BY <1>2, <2>1, CapsType, QuietTotal
  <2>3. Cardinality(B') <= OuterCalls /\ Total(Draws', B') <= OuterCost
    <3> HIDE DEF B
    <3> QED BY <1>1, <2>1, <2>2
  <2> QED BY <2>3 DEF OuterKept
<1>6. MissionKept(e, day)'
  <2> SUFFICES ASSUME NEW r \in B'
               PROVE  /\ Cardinality(M(Mission[r])') <= MissionCalls[Mission[r]]
                      /\ Total(Draws', M(Mission[r])') <= MissionCost[Mission[r]]
    BY DEF MissionKept
  <2> DEFINE N == M(Mission[r])
  <2>1. r \in B /\ r \in Requests /\ Mission[r] # NoMission /\ N' = N /\ N \subseteq Requests
    BY <1>1, <1>2 DEF Bound
  <2>2. Cardinality(N) <= MissionCalls[Mission[r]] /\ Total(Draws, N) <= MissionCost[Mission[r]]
    BY <2>1 DEF DayKept, MissionKept
  <2>3. MissionCost[Mission[r]] \in Nat
    BY <2>1, CapsType
  <2> HIDE DEF N, M, B
  <2>4. Total(Draws', N) <= MissionCost[Mission[r]]
    BY <2>1, <2>2, <2>3, QuietTotal
  <2>5. Cardinality(N') <= MissionCalls[Mission[r]] /\ Total(Draws', N') <= MissionCost[Mission[r]]
    BY <2>1, <2>2, <2>4
  <2> QED BY <2>5 DEF N, M
<1>7. SharedKept(e, day)'
  <2>1. Cardinality(A) <= SharedCalls /\ Total(Draws, A) <= SharedCost
    BY DEF DayKept, SharedKept
  <2>2. Total(Draws', A) <= SharedCost
    <3> HIDE DEF A
    <3> QED BY <1>2, <2>1, CapsType, QuietTotal
  <2>3. Cardinality(A') <= SharedCalls /\ Total(Draws', A') <= SharedCost
    <3> HIDE DEF A
    <3> QED BY <1>1, <2>1, <2>2
  <2> QED BY <2>3 DEF SharedKept
<1> QED BY <1>4, <1>5, <1>6, <1>7 DEF DayKept

(* The open reservations keep to one day's cap.                             *)
LEMMA QuietOpen ==
    ASSUME TypeOK, Quiet, NEW e \in Environments, OpenKept(e)
    PROVE  OpenKept(e)'
<1> DEFINE O == OpenIn(e)
<1>1. O' \subseteq O /\ O \subseteq Requests
  BY DEF Quiet, OpenIn, IsOpen, IsAdmitted
<1> SUFFICES ASSUME O' # {}
             PROVE  \E r \in Requests : /\ Home[r] = e
                                        /\ r \in DOMAIN admitted'
                                        /\ Total(Draws', O') <= DayCap[admitted'[r].version]
  BY DEF OpenKept, IsAdmitted
<1>2. PICK r \in Requests : /\ Home[r] = e
                            /\ r \in DOMAIN admitted
                            /\ Total(Draws, O) <= DayCap[admitted[r].version]
  BY <1>1 DEF OpenKept, IsAdmitted
<1>3. DayCap[admitted[r].version] \in Nat
  BY <1>2, CapsType
<1> HIDE DEF O
<1>4. Total(Draws', O') <= DayCap[admitted[r].version]
  BY <1>1, <1>2, <1>3, QuietTotal
<1> QED BY <1>2, <1>4 DEF Quiet

(* A pool keeps to its cap and its loans.                                   *)
LEMMA QuietPool ==
    ASSUME TypeOK, Quiet, NEW r \in Requests, NEW day, PoolKept(r, day)
    PROVE  PoolKept(r, day)'
<1> DEFINE R == PoolRows(r, day)
           P == PoolMembers(r, day)
           p == Pool[r]
<1> SUFFICES ASSUME p # NoPool, PoolEnforced
             PROVE  Total(Draws', P') + Total(LentBy(p)', R') <= PoolCap[p] + Total(Loan', P')
  BY DEF PoolKept
<1>1. R' = R /\ P' = P
  <2>1. R' = R
    BY PoolRowsAre DEF Quiet
  <2> QED BY <2>1 DEF PoolMembers
<1>2. R \subseteq Requests /\ P \subseteq Requests /\ p \in Pools
  BY BudgetAssumption, PoolRowsAre DEF Pooled, PoolMembers
<1>3. LentBy(p)' = LentBy(p) /\ Loan' = Loan
  BY DEF Quiet, LentBy, Loan, IsAdmitted
<1>4. Total(Draws, P) + Total(LentBy(p), R) <= PoolCap[p] + Total(Loan, P)
  BY DEF PoolKept
<1>5. IsFiniteSet(R) /\ IsFiniteSet(P)
  <2> HIDE DEF R, P
  <2> QED BY <1>2, BudgetAssumption, FS_Subset
<1> DEFINE a == Total(Draws, P)
           b == Total(Draws', P)
           c == Total(LentBy(p), R)
           d == Total(Loan, P)
<1> HIDE DEF R, P, p
<1>6. a \in Nat /\ b \in Nat /\ b <= a
  <2>1. \A x \in P : Draws[x] \in Nat
    BY <1>2, AmountsType
  <2>2. \A x \in P : Draws'[x] \in Nat /\ Draws'[x] <= Draws[x]
    BY <1>2 DEF Quiet
  <2> QED BY <1>5, <2>1, <2>2, TotalType, TotalMono
<1>7. c \in Nat /\ d \in Nat /\ PoolCap[p] \in Nat
  <2>1. \A x \in R : LentBy(p)[x] \in Nat
    BY <1>2, LoansType
  <2>2. \A x \in P : Loan[x] \in Nat
    BY <1>2, LoansType
  <2>3. PoolCap[p] \in Nat
    BY <1>2, BudgetAssumption
  <2> QED BY <1>5, <2>1, <2>2, <2>3, TotalType
<1>8. b + c <= PoolCap[p] + d
  <2>1. a + c <= PoolCap[p] + d
    BY <1>4
  <2> HIDE DEF a, b, c, d
  <2> QED BY <1>6, <1>7, <2>1
<1> QED BY <1>1, <1>3, <1>8

-----------------------------------------------------------------------------
(* The admission, and the caps it was checked against *)

(* What a pool spent, lent and borrowed on a day, as sums over its rows.      *)
LEMMA PoolNumbers ==
    ASSUME TypeOK, NEW r \in Requests, NEW day, NEW p \in Pools
    PROVE  LET R == PoolRows(r, day)
               S == {x \in R : Pool[x] = p}
           IN  /\ PoolSpend(r, day, p) = Total(Charged, S) /\ Total(Charged, S) \in Nat
               /\ Lent(r, day, p) = Total(LentBy(p), R) /\ Total(LentBy(p), R) \in Nat
               /\ Borrowed(r, day, p) = Total(Loan, S) /\ Total(Loan, S) \in Nat
<1> DEFINE R == PoolRows(r, day)
           S == {x \in R : Pool[x] = p}
<1>1. /\ R \subseteq Requests /\ S \subseteq Requests
      /\ \A x \in R : IsAdmitted(x)
      /\ \A x \in S : IsAdmitted(x)
  BY PoolRowsAre DEF Pooled, IsAdmitted
<1>2. PoolSpend(r, day, p) = Spend(S)
  BY DEF PoolSpend
<1>3. Lent(r, day, p) = MapThenSumSet(LAMBDA x : admitted[x].loan[p], R)
  BY Zenon DEF Lent
<1>4. Borrowed(r, day, p)
        = MapThenSumSet(LAMBDA x : MapThenSumSet(LAMBDA q : admitted[x].loan[q], Pools), S)
  BY Zenon DEF Borrowed
<1> HIDE DEF R, S
<1>5. Spend(S) = Total(Charged, S)
  BY <1>1, SpendIs
<1>6. MapThenSumSet(LAMBDA x : admitted[x].loan[p], R) = Total(LentBy(p), R)
  BY <1>1, LoansIs
<1>7. MapThenSumSet(LAMBDA x : MapThenSumSet(LAMBDA q : admitted[x].loan[q], Pools), S)
        = Total(Loan, S)
  <2>1. \A x \in S : admitted[x].loan \in [Pools -> Nat]
    BY <1>1, LoanType DEF IsAdmitted
  <2> QED BY <1>1, <2>1, BorrowedIs
<1>8. Lent(r, day, p) = Total(LentBy(p), R)
  BY <1>3, <1>6, Zenon
<1>9. Borrowed(r, day, p) = Total(Loan, S)
  BY <1>4, <1>7, Zenon
<1>10. IsFiniteSet(R) /\ IsFiniteSet(S)
  BY <1>1, BudgetAssumption, FS_Subset
<1>11. /\ \A x \in S : Charged[x] \in Nat
       /\ \A x \in S : Loan[x] \in Nat
       /\ \A x \in R : LentBy(p)[x] \in Nat
  BY <1>1, AmountsType, LoansType
<1>12. Total(Charged, S) \in Nat /\ Total(Loan, S) \in Nat /\ Total(LentBy(p), R) \in Nat
  BY <1>10, <1>11, TotalType
<1>13. PoolSpend(r, day, p) = Total(Charged, S)
  BY <1>2, <1>5
<1> QED BY <1>8, <1>9, <1>12, <1>13 DEF R, S

(* The offers and the shortfall it is decided by are numbers.                *)
LEMMA OffersType ==
    ASSUME TypeOK, NEW r \in Requests, NEW day, Pool[r] # NoPool
    PROVE  /\ Offers(r, day) \in [Pools -> Nat]
           /\ Shortfall(r, day) \in Nat
<1>1. Pool[r] \in Pools
  BY BudgetAssumption
<1>2. \A p \in Pools : PoolCap[p] \in Nat
  BY BudgetAssumption
<1>3. ASSUME NEW p \in Pools
      PROVE  /\ PoolSpend(r, day, p) \in Nat /\ Lent(r, day, p) \in Nat
             /\ Borrowed(r, day, p) \in Nat
  <2> DEFINE R == PoolRows(r, day)
             S == {x \in R : Pool[x] = p}
  <2>1. /\ PoolSpend(r, day, p) = Total(Charged, S) /\ Total(Charged, S) \in Nat
        /\ Lent(r, day, p) = Total(LentBy(p), R) /\ Total(LentBy(p), R) \in Nat
        /\ Borrowed(r, day, p) = Total(Loan, S) /\ Total(Loan, S) \in Nat
    BY PoolNumbers, Zenon
  <2> HIDE DEF R, S
  <2> QED BY <2>1
<1>4. Borrowed(r, day, Pool[r]) \in Nat
  BY <1>1, <1>3
<1>5. Offers(r, day) \in [Pools -> Nat]
  BY <1>2, <1>3 DEF Offers, Monus
<1>6. Shortfall(r, day) \in Nat
  <2>1. PoolSpend(r, day, Pool[r]) \in Nat /\ Lent(r, day, Pool[r]) \in Nat
    BY <1>1, <1>3
  <2>2. Reserve[r] \in Nat /\ PoolCap[Pool[r]] \in Nat
    BY <1>1, <1>2, BudgetAssumption
  <2> QED BY <1>4, <2>1, <2>2 DEF Shortfall, Monus
<1> QED BY <1>3, <1>4, <1>5, <1>6

(* The loan of any request is a loan.                                       *)
LEMMA LoanForType ==
    ASSUME TypeOK, NEW r \in Requests, NEW day
    PROVE  LoanFor(r, day) \in [Pools -> Nat]
<1>1. CASE PoolShort(r, day)
  <2>1. Pool[r] # NoPool
    BY <1>1 DEF PoolShort
  <2>2. Offers(r, day) \in [Pools -> Nat] /\ Shortfall(r, day) \in Nat
    BY <2>1, OffersType
  <2> QED BY <1>1, <2>2, AllocateIs DEF LoanFor
<1>2. CASE ~PoolShort(r, day)
  BY <1>2 DEF LoanFor, NoLoan
<1> QED BY <1>1, <1>2

(* What an admission adds.                                                   *)
LEMMA AdmitRow ==
    ASSUME TypeOK, CallsDated, NEW r \in Requests, Admit(r)
    PROVE  /\ r \notin DOMAIN admitted
           /\ DOMAIN admitted' = DOMAIN admitted \cup {r}
           /\ \A x \in DOMAIN admitted : admitted'[x] = admitted[x]
           /\ admitted'[r] = [day |-> call[r].day, version |-> call[r].version,
                              loan |-> LoanFor(r, call[r].day)]
           /\ admitted'[r].day = call[r].day /\ admitted'[r].version = call[r].version
           /\ admitted'[r].loan = LoanFor(r, call[r].day)
           /\ call[r].day \in 1 .. LastDay
           /\ call[r].version \in 1 .. Len(DayCap)
           /\ Home[r] \in Environments
           /\ actual' = actual /\ r \notin DOMAIN actual
<1>1. /\ call[r].open /\ r \notin DOMAIN admitted /\ call[r].version = policy[Home[r]]
      /\ actual' = actual
  BY DEF Admit, Undecided, IsAdmitted
<1> DEFINE new == [day |-> call[r].day, version |-> call[r].version,
                   loan |-> LoanFor(r, call[r].day)]
<1>2. admitted' = Insert(admitted, r, new)
  BY DEF Admit
<1>3. Home[r] \in Environments
  BY BudgetAssumption
<1>4. call[r].day \in 1 .. LastDay /\ call[r].version \in 1 .. Len(DayCap)
  BY <1>1, <1>3 DEF TypeOK, CallsDated
<1>5. r \notin DOMAIN actual
  BY <1>1 DEF TypeOK
<1>6. new.day = call[r].day /\ new.version = call[r].version /\ new.loan = LoanFor(r, call[r].day)
  OBVIOUS
<1>7. /\ DOMAIN admitted' = DOMAIN admitted \cup {r}
      /\ admitted'[r] = new
      /\ \A x \in DOMAIN admitted : admitted'[x] = admitted[x]
  <2> HIDE DEF new
  <2> DEFINE table == Insert(admitted, r, new)
  <2>1. /\ DOMAIN table = DOMAIN admitted \cup {r}
        /\ table[r] = new
        /\ \A x \in DOMAIN admitted \ {r} : table[x] = admitted[x]
    BY DEF Insert
  <2> HIDE DEF table
  <2>2. admitted' = table
    BY <1>2 DEF table
  <2>3. \A x \in DOMAIN admitted : x # r
    BY <1>1
  <2> QED BY <2>1, <2>2, <2>3
<1> QED BY <1>1, <1>3, <1>4, <1>5, <1>6, <1>7

(* The request draws its reservation, the others what they drew.            *)
LEMMA AdmitDraws ==
    ASSUME TypeOK, CallsDated, NEW r \in Requests, Admit(r)
    PROVE  /\ Draws'[r] = Reserve[r] /\ Reserve[r] \in Nat
           /\ \A x \in Requests \ {r} : Draws'[x] = Draws[x]
<1>1. Draws'[r] = Reserve[r]
  BY AdmitRow DEF Draws, Drawn, IsAdmitted, IsOpen
<1>2. ASSUME NEW x \in Requests \ {r} PROVE Draws'[x] = Draws[x]
  <2>1. /\ x \in DOMAIN admitted' <=> x \in DOMAIN admitted
        /\ actual' = actual
    BY <1>2, AdmitRow
  <2> QED BY <2>1 DEF Draws, Drawn, IsAdmitted, IsOpen, Least
<1>3. Reserve[r] \in Nat
  BY BudgetAssumption
<1> QED BY <1>1, <1>2, <1>3

(* A set of requests, with and without the admitted one.                     *)
LEMMA AdmitTotal ==
    ASSUME TypeOK, CallsDated, NEW r \in Requests, Admit(r),
           NEW T \in SUBSET Requests, r \notin T
    PROVE  /\ Total(Draws', T) = Total(Draws, T)
           /\ Total(Draws', T \cup {r}) = Total(Draws, T) + Reserve[r]
           /\ Cardinality(T \cup {r}) = Cardinality(T) + 1
<1>1. IsFiniteSet(T)
  BY BudgetAssumption, FS_Subset
<1>2. \A x \in T : Draws[x] \in Nat /\ Draws[x] = Draws'[x]
  BY AmountsType, AdmitDraws
<1>3. Total(Draws', T) = Total(Draws, T)
  BY <1>1, <1>2, TotalSame
<1>4. \A x \in T \cup {r} : Draws'[x] \in Nat
  BY <1>2, AdmitDraws
<1>5. Total(Draws', T \cup {r}) = Total(Draws', T) + Draws'[r]
  BY <1>1, <1>4, TotalAdd
<1>6. Cardinality(T \cup {r}) = Cardinality(T) + 1
  BY <1>1, FS_AddElement
<1> QED BY <1>3, <1>5, <1>6, AdmitDraws

(* Part of some rows draws no more than the rows are charged.                *)
LEMMA PartSpends ==
    ASSUME TypeOK, Raised, NEW rows \in SUBSET Requests, \A x \in rows : IsAdmitted(x),
           NEW T \in SUBSET rows
    PROVE  /\ Total(Draws, T) <= Spend(rows) /\ Total(Draws, T) \in Nat /\ Spend(rows) \in Nat
           /\ Cardinality(T) <= Cardinality(rows)
           /\ Cardinality(T) \in Nat /\ Cardinality(rows) \in Nat
<1>1. IsFiniteSet(rows) /\ IsFiniteSet(T)
  BY BudgetAssumption, FS_Subset
<1>2. \A x \in rows : Charged[x] \in Nat
  BY AmountsType
<1>3. \A x \in T : Draws[x] \in Nat /\ Draws[x] <= Charged[x]
  BY AmountsType, DrawsCharged
<1>4. Spend(rows) = Total(Charged, rows)
  BY SpendIs
<1>5. Total(Draws, T) <= Total(Charged, rows)
      /\ Total(Draws, T) \in Nat /\ Total(Charged, rows) \in Nat
  BY <1>1, <1>2, <1>3, TotalLess, TotalType
<1>6. Cardinality(T) <= Cardinality(rows) /\ Cardinality(T) \in Nat /\ Cardinality(rows) \in Nat
  BY <1>1, FS_Subset, FS_CardinalityType
<1> QED BY <1>4, <1>5, <1>6

(* Whatever part of the counted rows a cap is about, it has room.            *)
LEMMA AdmitRoom ==
    ASSUME WellFormed, NEW r \in Requests, Admit(r),
           NEW T \in SUBSET Counted(Home[r], call[r].day)
    PROVE  /\ T \subseteq Requests /\ r \notin T
           /\ Total(Draws, T) + Reserve[r] <= DayCap[call[r].version]
           /\ Total(Draws, T) + Reserve[r] <= SharedCost
           /\ Cardinality(T) + 1 <= SharedCalls
           /\ Mission[r] # NoMission =>
                /\ Total(Draws, T) + Reserve[r] <= OuterCost
                /\ Cardinality(T) + 1 <= OuterCalls
                /\ T \subseteq MissionRows(r, call[r].day) =>
                     /\ Total(Draws, T) + Reserve[r] <= MissionCost[Mission[r]]
                     /\ Cardinality(T) + 1 <= MissionCalls[Mission[r]]
<1> DEFINE k == call[r]
           rows == Counted(Home[r], k.day)
<1>0. TypeOK /\ CallsDated /\ Raised
  BY DEF WellFormed
<1>1. rows \subseteq Requests /\ \A x \in rows : IsAdmitted(x)
  BY DEF Counted
<1>2. T \subseteq Requests /\ r \notin T
  BY <1>0, <1>1, AdmitRow DEF IsAdmitted
<1>3. /\ Total(Draws, T) <= Spend(rows) /\ Total(Draws, T) \in Nat /\ Spend(rows) \in Nat
      /\ Cardinality(T) <= Cardinality(rows)
      /\ Cardinality(T) \in Nat /\ Cardinality(rows) \in Nat
  <2> HIDE DEF rows
  <2>1. T \in SUBSET rows
    BY DEF rows
  <2> QED BY <1>0, <1>1, <2>1, PartSpends
<1>4. Reserve[r] \in Nat /\ k.calls \in Nat /\ k.cost \in Nat
  BY <1>0, BudgetAssumption DEF TypeOK
<1>5. DayCap[k.version] \in Nat
  <2>1. k.version \in 1 .. Len(DayCap)
    BY <1>0, AdmitRow
  <2>2. DayCap \in Seq(Nat \ {0})
    BY BudgetAssumption
  <2> QED BY <2>1, <2>2
<1>6. ~OverCap(r, k)
  BY DEF Admit
<1>7. Total(Draws, T) + Reserve[r] <= DayCap[k.version]
  <2>1. ~(Spend(rows) + Reserve[r] > DayCap[k.version])
    BY <1>6 DEF OverCap, OverDayCap
  <2> HIDE DEF k, rows
  <2> QED BY <1>3, <1>4, <1>5, <2>1
<1>8. /\ Total(Draws, T) + Reserve[r] <= SharedCost
      /\ Cardinality(T) + 1 <= SharedCalls
  <2>1. /\ ~(Cardinality(rows) + k.calls + 1 > SharedCalls)
        /\ ~(Spend(rows) + k.cost + Reserve[r] > SharedCost)
    BY <1>6 DEF OverCap, OverSharedCap
  <2>2. SharedCost \in Nat /\ SharedCalls \in Nat
    BY BudgetAssumption
  <2> DEFINE kc == k.calls
             kk == k.cost
  <2> HIDE DEF k, rows, kc, kk
  <2>3. kc \in Nat /\ kk \in Nat
    BY <1>4 DEF kc, kk
  <2>4. /\ ~(Cardinality(rows) + kc + 1 > SharedCalls)
        /\ ~(Spend(rows) + kk + Reserve[r] > SharedCost)
    BY <2>1 DEF kc, kk
  <2> QED BY <1>3, <1>4, <2>2, <2>3, <2>4
<1>9. ASSUME Mission[r] # NoMission
      PROVE  /\ Total(Draws, T) + Reserve[r] <= OuterCost
             /\ Cardinality(T) + 1 <= OuterCalls
  <2>1. /\ ~(Cardinality(rows) + 1 > OuterCalls)
        /\ ~(Spend(rows) + Reserve[r] > OuterCost)
    BY <1>6, <1>9 DEF OverCap, OverOuterCap, Exceeds
  <2>2. OuterCost \in Nat /\ OuterCalls \in Nat
    BY BudgetAssumption
  <2> HIDE DEF k, rows
  <2> QED BY <1>3, <1>4, <2>1, <2>2
<1>10. ASSUME Mission[r] # NoMission, T \subseteq MissionRows(r, k.day)
       PROVE  /\ Total(Draws, T) + Reserve[r] <= MissionCost[Mission[r]]
              /\ Cardinality(T) + 1 <= MissionCalls[Mission[r]]
  <2> DEFINE own == MissionRows(r, k.day)
  <2>1. /\ ~(Cardinality(own) + 1 > MissionCalls[Mission[r]])
        /\ ~(Spend(own) + Reserve[r] > MissionCost[Mission[r]])
    BY <1>6, <1>10 DEF OverCap, OverMissionCap, Exceeds
  <2>2. MissionCost[Mission[r]] \in Nat /\ MissionCalls[Mission[r]] \in Nat
    BY <1>0, <1>10, CapsType
  <2>3. own \subseteq Requests /\ \A x \in own : IsAdmitted(x)
    BY DEF MissionRows, Counted
  <2>4. T \in SUBSET own
    BY <1>10
  <2> HIDE DEF k, rows, own
  <2>5. /\ Total(Draws, T) <= Spend(own) /\ Total(Draws, T) \in Nat /\ Spend(own) \in Nat
        /\ Cardinality(T) <= Cardinality(own)
        /\ Cardinality(T) \in Nat /\ Cardinality(own) \in Nat
    BY <1>0, <2>3, <2>4, PartSpends
  <2> QED BY <1>4, <2>1, <2>2, <2>5
<1> QED BY <1>2, <1>7, <1>8, <1>9, <1>10


(* The sets the caps are about either stay as they are or gain the request.  *)
LEMMA AdmitSets ==
    ASSUME TypeOK, CallsDated, NEW r \in Requests, Admit(r), NEW e, NEW day, NEW m
    PROVE  LET here == e = Home[r] /\ day = call[r].day
               grown(S) == S \cup {r}
           IN  /\ AdmittedOn(e, day)' = IF here THEN grown(AdmittedOn(e, day)) ELSE AdmittedOn(e, day)
               /\ Bound(e, day)' = IF here /\ Mission[r] # NoMission
                                   THEN grown(Bound(e, day)) ELSE Bound(e, day)
               /\ OfMission(e, day, m)' = IF here /\ Mission[r] # NoMission /\ Mission[r] = m
                                          THEN grown(OfMission(e, day, m))
                                          ELSE OfMission(e, day, m)
               /\ OpenIn(e)' = IF e = Home[r] THEN grown(OpenIn(e)) ELSE OpenIn(e)
<1> DEFINE here == e = Home[r] /\ day = call[r].day
           A == AdmittedOn(e, day)
           B == Bound(e, day)
           M == OfMission(e, day, m)
           O == OpenIn(e)
<1>1. /\ r \notin DOMAIN admitted
      /\ DOMAIN admitted' = DOMAIN admitted \cup {r}
      /\ \A x \in DOMAIN admitted : admitted'[x] = admitted[x]
      /\ admitted'[r].day = call[r].day
      /\ actual' = actual /\ r \notin DOMAIN actual
  BY AdmitRow
<1>2. A' = IF here THEN A \cup {r} ELSE A
  BY <1>1 DEF AdmittedOn, IsAdmitted
<1>3. B' = IF here /\ Mission[r] # NoMission THEN B \cup {r} ELSE B
  <2> HIDE DEF here
  <2> QED BY <1>2 DEF Bound
<1>4. M' = IF here /\ Mission[r] # NoMission /\ Mission[r] = m THEN M \cup {r} ELSE M
  <2> HIDE DEF here
  <2> QED BY <1>3 DEF OfMission
<1>5. O' = IF e = Home[r] THEN O \cup {r} ELSE O
  BY <1>1 DEF OpenIn, IsOpen, IsAdmitted
<1> QED BY <1>2, <1>3, <1>4, <1>5

(* A set within two caps stays within them.                                  *)
LEMMA AdmitCap ==
    ASSUME TypeOK, CallsDated, NEW r \in Requests, Admit(r),
           NEW T \in SUBSET Requests, r \notin T, NEW U, NEW cost \in Nat, NEW calls \in Nat,
           \/ U = T /\ Total(Draws, T) <= cost /\ Cardinality(T) <= calls
           \/ /\ U = T \cup {r}
              /\ Total(Draws, T) + Reserve[r] <= cost
              /\ Cardinality(T) + 1 <= calls
    PROVE  Total(Draws', U) <= cost /\ Cardinality(U) <= calls
<1>1. /\ Total(Draws', T) = Total(Draws, T)
      /\ Total(Draws', T \cup {r}) = Total(Draws, T) + Reserve[r]
      /\ Cardinality(T \cup {r}) = Cardinality(T) + 1
  BY AdmitTotal
<1> QED BY <1>1

(* An admission keeps every day within its caps: its own by the checks it   *)
(* was admitted by, the others because nothing of theirs changes.           *)
LEMMA AdmitDay ==
    ASSUME WellFormed, NEW r \in Requests, Admit(r), NEW e \in Environments, NEW day,
           DayKept(e, day)
    PROVE  DayKept(e, day)'
<1> DEFINE here == e = Home[r] /\ day = call[r].day
           A == AdmittedOn(e, day)
           B == Bound(e, day)
           M(m) == OfMission(e, day, m)
<1>0. TypeOK /\ CallsDated
  BY DEF WellFormed
<1>1. /\ A' = IF here THEN A \cup {r} ELSE A
      /\ B' = IF here /\ Mission[r] # NoMission THEN B \cup {r} ELSE B
      /\ \A m : M(m)' = IF here /\ Mission[r] # NoMission /\ Mission[r] = m THEN M(m) \cup {r}
                        ELSE M(m)
  BY <1>0, AdmitSets
<1>2. /\ A \subseteq Requests /\ B \subseteq Requests /\ \A m : M(m) \subseteq Requests
      /\ A \subseteq DOMAIN admitted /\ B \subseteq A /\ \A m : M(m) \subseteq B
  BY DEF AdmittedOn, Bound, OfMission, IsAdmitted
<1>3. r \notin A /\ r \notin B /\ \A m : r \notin M(m)
  <2>1. r \notin DOMAIN admitted
    BY <1>0, AdmitRow
  <2> HIDE DEF A, B, M
  <2> QED BY <1>2, <2>1
<1>4. here => /\ A \subseteq Counted(Home[r], call[r].day)
              /\ B \subseteq Counted(Home[r], call[r].day)
              /\ M(Mission[r]) \subseteq Counted(Home[r], call[r].day)
              /\ M(Mission[r]) \subseteq MissionRows(r, call[r].day)
  BY DEF AdmittedOn, Bound, OfMission, MissionRows, Counted
<1>5. OuterCost \in Nat /\ OuterCalls \in Nat /\ SharedCost \in Nat /\ SharedCalls \in Nat
  BY BudgetAssumption
<1>6. PolicyKept(e, day)'
  <2> SUFFICES ASSUME A' # {}
               PROVE  \E x \in A' : Total(Draws', A') <= DayCap[admitted'[x].version]
    BY DEF PolicyKept
  <2>1. CASE here
    <3>1. Total(Draws, A) + Reserve[r] <= DayCap[call[r].version]
      <4> HIDE DEF A, here
      <4> QED BY <1>4, <2>1, AdmitRoom
    <3>2. A' = A \cup {r} /\ r \in A'
      BY <1>1, <2>1
    <3>3. Total(Draws', A \cup {r}) = Total(Draws, A) + Reserve[r]
      <4> HIDE DEF A
      <4> QED BY <1>0, <1>2, <1>3, AdmitTotal
    <3>4. admitted'[r].version = call[r].version
      BY <1>0, AdmitRow
    <3> HIDE DEF A, here
    <3> QED BY <3>1, <3>2, <3>3, <3>4
  <2>2. CASE ~here
    <3>1. A' = A
      BY <1>1, <2>2
    <3>2. PICK x \in A : Total(Draws, A) <= DayCap[admitted[x].version]
      BY <3>1 DEF DayKept, PolicyKept
    <3>3. Total(Draws', A) = Total(Draws, A)
      <4> HIDE DEF A
      <4> QED BY <1>0, <1>2, <1>3, AdmitTotal
    <3>4. admitted'[x] = admitted[x]
      <4> HIDE DEF A
      <4> QED BY <1>0, <1>2, <3>2, AdmitRow
    <3> HIDE DEF A, here
    <3> QED BY <3>1, <3>2, <3>3, <3>4
  <2> QED BY <2>1, <2>2
<1>7. OuterKept(e, day)'
  <2>1. Cardinality(B) <= OuterCalls /\ Total(Draws, B) <= OuterCost
    BY DEF DayKept, OuterKept
  <2>2. here /\ Mission[r] # NoMission =>
           Total(Draws, B) + Reserve[r] <= OuterCost /\ Cardinality(B) + 1 <= OuterCalls
    <3> HIDE DEF B, here
    <3> QED BY <1>4, AdmitRoom
  <2>3. Total(Draws', B') <= OuterCost /\ Cardinality(B') <= OuterCalls
    <3> DEFINE C == B'
    <3>1. C = IF here /\ Mission[r] # NoMission THEN B \cup {r} ELSE B
      BY <1>1
    <3> HIDE DEF B, here, C
    <3>2. Total(Draws', C) <= OuterCost /\ Cardinality(C) <= OuterCalls
      BY <1>0, <1>2, <1>3, <1>5, <2>1, <2>2, <3>1, AdmitCap
    <3> QED BY <3>2 DEF C
  <2> QED BY <2>3 DEF OuterKept
<1>8. MissionKept(e, day)'
  <2> SUFFICES ASSUME NEW x \in B'
               PROVE  /\ Cardinality(M(Mission[x])') <= MissionCalls[Mission[x]]
                      /\ Total(Draws', M(Mission[x])') <= MissionCost[Mission[x]]
    BY DEF MissionKept
  <2> DEFINE N == M(Mission[x])
             grows == here /\ Mission[r] # NoMission /\ Mission[r] = Mission[x]
  <2>1. /\ x \in Requests /\ Mission[x] # NoMission
        /\ grows \/ x \in B
        /\ N' = IF grows THEN N \cup {r} ELSE N
        /\ N \subseteq Requests /\ r \notin N
    <3>1. x \in B => x \in Requests /\ Mission[x] # NoMission
      BY <1>2 DEF Bound
    <3>2. x \in B \/ (here /\ Mission[r] # NoMission /\ x = r)
      BY <1>1
    <3> HIDE DEF M, B, here
    <3> QED BY <1>1, <1>2, <1>3, <3>1, <3>2
  <2>2. x \in B => /\ Cardinality(N) <= MissionCalls[Mission[x]]
                   /\ Total(Draws, N) <= MissionCost[Mission[x]]
    BY DEF DayKept, MissionKept
  <2>3. MissionCost[Mission[x]] \in Nat /\ MissionCalls[Mission[x]] \in Nat
    BY <1>0, <2>1, CapsType
  <2>4. grows => /\ Total(Draws, N) + Reserve[r] <= MissionCost[Mission[x]]
                 /\ Cardinality(N) + 1 <= MissionCalls[Mission[x]]
    <3>1. grows => /\ N \subseteq Counted(Home[r], call[r].day)
                   /\ N \subseteq MissionRows(r, call[r].day)
                   /\ Mission[r] # NoMission /\ Mission[r] = Mission[x]
      <4> HIDE DEF here, M
      <4> QED BY <1>4
    <3> HIDE DEF N, grows
    <3> QED BY <3>1, AdmitRoom
  <2> DEFINE C == N'
  <2>5. C = IF grows THEN N \cup {r} ELSE N
    BY <2>1
  <2> HIDE DEF N, grows, C, B, M
  <2>6. Total(Draws', C) <= MissionCost[Mission[x]] /\ Cardinality(C) <= MissionCalls[Mission[x]]
    BY <1>0, <2>1, <2>2, <2>3, <2>4, <2>5, AdmitCap
  <2> QED BY <2>6 DEF C, N, M
<1>9. SharedKept(e, day)'
  <2>1. Cardinality(A) <= SharedCalls /\ Total(Draws, A) <= SharedCost
    BY DEF DayKept, SharedKept
  <2>2. here => Total(Draws, A) + Reserve[r] <= SharedCost /\ Cardinality(A) + 1 <= SharedCalls
    <3> HIDE DEF A, here
    <3> QED BY <1>4, AdmitRoom
  <2>3. Total(Draws', A') <= SharedCost /\ Cardinality(A') <= SharedCalls
    <3> DEFINE C == A'
    <3>1. C = IF here THEN A \cup {r} ELSE A
      BY <1>1
    <3> HIDE DEF A, here, C
    <3>2. Total(Draws', C) <= SharedCost /\ Cardinality(C) <= SharedCalls
      BY <1>0, <1>2, <1>3, <1>5, <2>1, <2>2, <3>1, AdmitCap
    <3> QED BY <3>2 DEF C
  <2> QED BY <2>3 DEF SharedKept
<1> QED BY <1>6, <1>7, <1>8, <1>9 DEF DayKept

(* Its checks counted every open reservation, so those keep to one cap.     *)
LEMMA AdmitOpen ==
    ASSUME WellFormed, NEW r \in Requests, Admit(r), NEW e \in Environments, OpenKept(e)
    PROVE  OpenKept(e)'
<1> DEFINE O == OpenIn(e)
<1>0. TypeOK /\ CallsDated
  BY DEF WellFormed
<1>1. O' = IF e = Home[r] THEN O \cup {r} ELSE O
  BY <1>0, AdmitSets
<1>2. O \subseteq Requests /\ O \subseteq DOMAIN admitted
  BY DEF OpenIn, IsOpen, IsAdmitted
<1>3. /\ r \notin DOMAIN admitted /\ r \in DOMAIN admitted'
      /\ admitted'[r].version = call[r].version
      /\ \A x \in DOMAIN admitted : x \in DOMAIN admitted' /\ admitted'[x] = admitted[x]
  BY <1>0, AdmitRow
<1>4. r \notin O
  <2> HIDE DEF O
  <2> QED BY <1>2, <1>3
<1>5. /\ Total(Draws', O) = Total(Draws, O)
      /\ Total(Draws', O \cup {r}) = Total(Draws, O) + Reserve[r]
  <2> HIDE DEF O
  <2> QED BY <1>0, <1>2, <1>4, AdmitTotal
<1> SUFFICES ASSUME O' # {}
             PROVE  \E x \in Requests : /\ Home[x] = e
                                        /\ x \in DOMAIN admitted'
                                        /\ Total(Draws', O') <= DayCap[admitted'[x].version]
  BY DEF OpenKept, IsAdmitted
<1>6. CASE e = Home[r]
  <2>1. O \subseteq Counted(Home[r], call[r].day)
    BY <1>6 DEF OpenIn, Counted, IsOpen
  <2>2. Total(Draws, O) + Reserve[r] <= DayCap[call[r].version]
    <3> HIDE DEF O
    <3> QED BY <2>1, AdmitRoom
  <2> HIDE DEF O
  <2> QED BY <1>1, <1>3, <1>5, <1>6, <2>2
<1>7. CASE e # Home[r]
  <2>1. PICK x \in Requests : /\ Home[x] = e
                              /\ x \in DOMAIN admitted
                              /\ Total(Draws, O) <= DayCap[admitted[x].version]
    BY <1>1, <1>7 DEF OpenKept, IsAdmitted
  <2> HIDE DEF O
  <2> QED BY <1>1, <1>3, <1>5, <1>7, <2>1
<1> QED BY <1>6, <1>7

(* What the loan of an admission is.                                         *)
LEMMA AdmitLoan ==
    ASSUME TypeOK, NEW r \in Requests, Admit(r), Pool[r] # NoPool, PoolEnforced,
           NEW day, day = call[r].day, NEW loan, loan = LoanFor(r, day)
    PROVE  /\ loan \in [Pools -> Nat]
           /\ loan[Pool[r]] = 0
           /\ Total(loan, Pools) = Shortfall(r, day)
           /\ \A p \in Pools : loan[p] # 0 =>
                 loan[p] <= Monus(PoolCap[p], PoolSpend(r, day, p) + Lent(r, day, p))
<1>1. Offers(r, day) \in [Pools -> Nat] /\ Shortfall(r, day) \in Nat
  BY OffersType
<1>2. Pool[r] \in Pools
  BY BudgetAssumption
<1>3. ~PoolExhausted(r, day)
  BY DEF Admit
<1>4. CASE Shortfall(r, day) > 0
  <2>1. PoolShort(r, day)
    BY <1>4 DEF PoolShort
  <2>2. loan = Allocate(Shortfall(r, day), Offers(r, day)) /\ loan # NoLoan
    BY <1>3, <2>1 DEF PoolExhausted, LoanFor
  <2>3. /\ loan \in [Pools -> Nat]
        /\ \A p \in Pools : loan[p] <= Offers(r, day)[p]
        /\ Total(loan, Pools) = Shortfall(r, day)
    BY <1>1, <2>2, AllocateIs
  <2>4. Offers(r, day)[Pool[r]] = 0
    BY <1>2 DEF Offers
  <2>5. ASSUME NEW p \in Pools, loan[p] # 0
        PROVE  loan[p] <= Monus(PoolCap[p], PoolSpend(r, day, p) + Lent(r, day, p))
    <3>1. Offers(r, day)[p] = 0
            \/ Offers(r, day)[p] = Monus(PoolCap[p], PoolSpend(r, day, p) + Lent(r, day, p))
      BY DEF Offers
    <3>2. Offers(r, day)[p] # 0
      BY <1>1, <2>3, <2>5
    <3> QED BY <2>3, <3>1, <3>2
  <2> QED BY <1>1, <1>2, <2>3, <2>4, <2>5
<1>5. CASE ~(Shortfall(r, day) > 0)
  <2>1. loan = NoLoan
    BY <1>5 DEF PoolShort, LoanFor
  <2>2. Shortfall(r, day) = 0
    BY <1>1, <1>5
  <2>3. \A p \in Pools : loan[p] = 0
    BY <2>1 DEF NoLoan
  <2>4. loan \in [Pools -> Nat]
    BY <2>1 DEF NoLoan
  <2> QED BY <1>2, <2>1, <2>2, <2>3, <2>4, NoLoanTotal
<1> QED BY <1>4, <1>5

(* What it adds to the sums of the loans.                                    *)
LEMMA AdmitLoans ==
    ASSUME TypeOK, CallsDated, NEW r \in Requests, Admit(r),
           NEW T \in SUBSET Requests, r \notin T, NEW p \in Pools,
           NEW loan, loan = LoanFor(r, call[r].day)
    PROVE  /\ Total(LentBy(p)', T) = Total(LentBy(p), T)
           /\ Total(LentBy(p)', T \cup {r}) = Total(LentBy(p), T) + loan[p]
           /\ Total(Loan', T) = Total(Loan, T)
           /\ Total(Loan', T \cup {r}) = Total(Loan, T) + Total(loan, Pools)
<1> DEFINE L == LentBy(p)
           N == Loan
<1>1. IsFiniteSet(T)
  BY BudgetAssumption, FS_Subset
<1>2. loan \in [Pools -> Nat] /\ Total(loan, Pools) \in Nat
  <2>1. loan \in [Pools -> Nat]
    BY LoanForType
  <2> QED BY <2>1, FourPools, TotalType
<1>3. L'[r] = loan[p] /\ N'[r] = Total(loan, Pools)
  BY AdmitRow DEF LentBy, Loan, IsAdmitted
<1>4. ASSUME NEW x \in T PROVE L'[x] = L[x] /\ N'[x] = N[x]
  <2>1. /\ x \in DOMAIN admitted' <=> x \in DOMAIN admitted
        /\ x \in DOMAIN admitted => admitted'[x] = admitted[x]
    BY <1>4, AdmitRow
  <2> QED BY <2>1 DEF LentBy, Loan, IsAdmitted
<1>5. \A x \in T : L[x] \in Nat /\ N[x] \in Nat
  BY LoansType
<1> DEFINE K == L'
           M == N'
<1>6. /\ \A x \in T : L[x] \in Nat /\ L[x] = K[x]
      /\ \A x \in T : N[x] \in Nat /\ N[x] = M[x]
      /\ \A x \in T \cup {r} : K[x] \in Nat
      /\ \A x \in T \cup {r} : M[x] \in Nat
      /\ K[r] = loan[p] /\ M[r] = Total(loan, Pools)
  <2>1. \A x \in T : K[x] = L[x] /\ M[x] = N[x]
    BY <1>4
  <2>2. K[r] = loan[p] /\ M[r] = Total(loan, Pools) /\ K[r] \in Nat /\ M[r] \in Nat
    BY <1>2, <1>3
  <2> HIDE DEF L, N, K, M
  <2> QED BY <1>5, <2>1, <2>2
<1> HIDE DEF L, N, K, M
<1>7. Total(K, T) = Total(L, T) /\ Total(M, T) = Total(N, T)
  BY <1>1, <1>6, TotalSame
<1>8. Total(K, T \cup {r}) = Total(K, T) + K[r]
  <2>1. \A x \in T \cup {r} : K[x] \in Nat
    BY <1>6
  <2> QED BY <1>1, <2>1, TotalAdd
<1>9. Total(M, T \cup {r}) = Total(M, T) + M[r]
  <2>1. \A x \in T \cup {r} : M[x] \in Nat
    BY <1>6
  <2> QED BY <1>1, <2>1, TotalAdd
<1>10. /\ Total(K, T) = Total(L, T)
       /\ Total(K, T \cup {r}) = Total(L, T) + loan[p]
       /\ Total(M, T) = Total(N, T)
       /\ Total(M, T \cup {r}) = Total(N, T) + Total(loan, Pools)
  BY <1>6, <1>7, <1>8, <1>9
<1> QED BY <1>10 DEF K, M, L, N

(* A pool stays within its cap and its loans: what the request draws above  *)
(* them is what the loan covers, and a lender had that much to offer.       *)
LEMMA AdmitPool ==
    ASSUME WellFormed, NEW a \in Requests, Admit(a), NEW r \in Requests, NEW day,
           PoolKept(r, day)
    PROVE  PoolKept(r, day)'
<1> DEFINE R == PoolRows(r, day)
           P == PoolMembers(r, day)
           p == Pool[r]
           joins == /\ Home[a] = Home[r] /\ Mission[a] = Mission[r]
                    /\ day = call[a].day /\ Pool[a] # NoPool
<1> SUFFICES ASSUME p # NoPool, PoolEnforced
             PROVE  Total(Draws', P') + Total(LentBy(p)', R') <= PoolCap[p] + Total(Loan', P')
  BY DEF PoolKept
<1>0. TypeOK /\ CallsDated /\ Raised
  BY DEF WellFormed
<1>1. R' = IF joins THEN R \cup {a} ELSE R
  <2>1. /\ R = Pooled(admitted, r, day)
        /\ R' = Pooled(admitted', r, day)
    BY PoolRowsAre
  <2>2. /\ a \notin DOMAIN admitted
        /\ DOMAIN admitted' = DOMAIN admitted \cup {a}
        /\ \A x \in DOMAIN admitted : admitted'[x] = admitted[x]
        /\ admitted'[a].day = call[a].day
    BY <1>0, AdmitRow
  <2> HIDE DEF R
  <2> QED BY <2>1, <2>2 DEF Pooled
<1>2. P' = IF joins /\ Pool[a] = p THEN P \cup {a} ELSE P
  <2>1. P = {x \in R : Pool[x] = p} /\ P' = {x \in R' : Pool[x] = p}
    BY DEF PoolMembers
  <2> HIDE DEF R, P, joins
  <2> QED BY <1>1, <2>1
<1>3. /\ R \subseteq Requests /\ P \subseteq R /\ p \in Pools
      /\ \A x \in P : IsAdmitted(x)
      /\ a \notin R
  <2>1. \A x \in R : x \in Requests /\ x \in DOMAIN admitted
    BY PoolRowsAre DEF Pooled
  <2>2. P \subseteq R
    BY DEF PoolMembers
  <2>3. a \notin DOMAIN admitted
    BY <1>0, AdmitRow
  <2>4. p \in Pools
    BY BudgetAssumption
  <2> HIDE DEF R, P
  <2> QED BY <2>1, <2>2, <2>3, <2>4 DEF IsAdmitted
<1> DEFINE loan == LoanFor(a, call[a].day)
           draws == Total(Draws, P)
           lent == Total(LentBy(p), R)
           borrowed == Total(Loan, P)
           cap == PoolCap[p]
           spent == Total(Charged, P)
<1>4. IsFiniteSet(R) /\ IsFiniteSet(P)
  <2> HIDE DEF R, P
  <2> QED BY <1>3, BudgetAssumption, FS_Subset
<1>5. /\ draws \in Nat /\ lent \in Nat /\ borrowed \in Nat /\ spent \in Nat /\ cap \in Nat
      /\ draws <= spent
  <2> HIDE DEF R, P, p
  <2>1. /\ \A x \in P : Draws[x] \in Nat /\ Charged[x] \in Nat /\ Draws[x] <= Charged[x]
        /\ \A x \in P : Loan[x] \in Nat
        /\ \A x \in R : LentBy(p)[x] \in Nat
    BY <1>0, <1>3, AmountsType, DrawsCharged, LoansType
  <2>2. draws \in Nat /\ spent \in Nat /\ draws <= spent
    BY <1>4, <2>1, TotalType, TotalMono
  <2>3. borrowed \in Nat /\ lent \in Nat
    BY <1>4, <2>1, TotalType
  <2>4. cap \in Nat
    BY <1>3, BudgetAssumption
  <2> QED BY <2>2, <2>3, <2>4
<1>6. draws + lent <= cap + borrowed
  BY DEF PoolKept
<1>7. /\ Total(Draws', P) = draws /\ Total(Draws', P \cup {a}) = draws + Reserve[a]
      /\ Reserve[a] \in Nat
  <2>1. P \subseteq Requests /\ a \notin P
    <3> HIDE DEF R, P
    <3> QED BY <1>3
  <2> HIDE DEF P
  <2> QED BY <1>0, <2>1, AdmitTotal, AdmitDraws
<1>8. /\ Total(LentBy(p)', R) = lent /\ Total(LentBy(p)', R \cup {a}) = lent + loan[p]
  <2> HIDE DEF R, p, loan
  <2> QED BY <1>0, <1>3, AdmitLoans DEF loan
<1>9. Total(Loan', P) = borrowed /\ Total(Loan', P \cup {a}) = borrowed + Total(loan, Pools)
  <2>1. P \subseteq Requests /\ a \notin P
    <3> HIDE DEF R, P
    <3> QED BY <1>3
  <2> HIDE DEF P, p, loan
  <2> QED BY <1>0, <1>3, <2>1, AdmitLoans DEF loan
<1>10. CASE ~joins
  <2>1. R' = R /\ P' = P
    BY <1>1, <1>2, <1>10
  <2> QED BY <1>6, <1>7, <1>8, <1>9, <2>1
<1>11. CASE joins
  <2>1. /\ loan \in [Pools -> Nat]
        /\ loan[Pool[a]] = 0
        /\ Total(loan, Pools) = Shortfall(a, day)
        /\ loan[p] # 0 => loan[p] <= Monus(cap, PoolSpend(a, day, p) + Lent(a, day, p))
    <3> HIDE DEF loan, p, cap
    <3>1. day = call[a].day /\ Pool[a] # NoPool
      BY <1>11
    <3>2. loan = LoanFor(a, day)
      BY <3>1 DEF loan
    <3> HIDE DEF joins
    <3> QED BY <1>0, <1>3, <3>1, <3>2, AdmitLoan DEF cap
  <2>2. PoolRows(a, day) = R
    <3>1. PoolRows(a, day) = Pooled(admitted, a, day) /\ R = Pooled(admitted, r, day)
      BY PoolRowsAre
    <3> HIDE DEF R
    <3> QED BY <1>11, <3>1 DEF Pooled
  <2>3. {x \in PoolRows(a, day) : Pool[x] = p} = P
    <3> HIDE DEF R
    <3> QED BY <2>2 DEF PoolMembers, R
  <2>4. /\ PoolSpend(a, day, p) = spent /\ Lent(a, day, p) = lent /\ Borrowed(a, day, p) = borrowed
    <3> HIDE DEF R, P, p
    <3> QED BY <1>0, <1>3, <2>2, <2>3, PoolNumbers
  <2>5. loan[p] \in Nat
    BY <1>3, <2>1
  <2>6. CASE Pool[a] = p
    <3>1. R' = R \cup {a} /\ P' = P \cup {a}
      BY <1>1, <1>2, <1>11, <2>6
    <3>2. Total(loan, Pools) = Monus(spent + lent + Reserve[a], cap + borrowed) /\ loan[p] = 0
      <4>1. Shortfall(a, day) = Monus(PoolSpend(a, day, Pool[a]) + Lent(a, day, Pool[a]) + Reserve[a],
                                      PoolCap[Pool[a]] + Borrowed(a, day, Pool[a]))
        BY DEF Shortfall
      <4> HIDE DEF loan, spent, lent, borrowed, joins, p
      <4> QED BY <2>1, <2>4, <2>6, <4>1
    <3> DEFINE more == Total(loan, Pools)
               reserve == Reserve[a]
    <3>3. (draws + reserve) + lent <= cap + (borrowed + more)
      <4>1. reserve \in Nat /\ more = Monus(spent + lent + reserve, cap + borrowed)
        BY <1>7, <3>2
      <4> HIDE DEF draws, reserve, lent, cap, borrowed, more, spent
      <4> QED BY <1>5, <4>1 DEF Monus
    <3>4. Total(LentBy(p)', R \cup {a}) = lent
      <4> HIDE DEF lent, loan, R, p
      <4> QED BY <1>5, <1>8, <3>2
    <3>5. Total(Draws', P') = draws + reserve
      <4> HIDE DEF draws
      <4> QED BY <1>7, <3>1
    <3>6. Total(LentBy(p)', R') = lent
      <4> HIDE DEF lent
      <4> QED BY <3>1, <3>4
    <3>7. Total(Loan', P') = borrowed + more
      <4> HIDE DEF borrowed, loan
      <4> QED BY <1>9, <3>1
    <3> QED BY <3>3, <3>5, <3>6, <3>7, Zenon
  <2>7. CASE Pool[a] # p
    <3>1. R' = R \cup {a} /\ P' = P
      BY <1>1, <1>2, <1>11, <2>7
    <3> DEFINE given == loan[p]
    <3>2. given # 0 => given <= Monus(cap, spent + lent)
      BY <2>1, <2>4
    <3>3. draws + (lent + given) <= cap + borrowed
      <4>1. given \in Nat
        BY <2>5
      <4> HIDE DEF draws, lent, cap, borrowed, spent, given
      <4> QED BY <1>5, <1>6, <3>2, <4>1 DEF Monus
    <3>4. Total(Draws', P') = draws
      <4> HIDE DEF draws
      <4> QED BY <1>7, <3>1
    <3>5. Total(LentBy(p)', R') = lent + given
      <4> HIDE DEF lent, loan
      <4> QED BY <1>8, <3>1
    <3>6. Total(Loan', P') = borrowed
      <4> HIDE DEF borrowed
      <4> QED BY <1>9, <3>1
    <3> QED BY <3>3, <3>4, <3>5, <3>6, Zenon
  <2> QED BY <2>6, <2>7
<1> QED BY <1>10, <1>11

-----------------------------------------------------------------------------
(* Every step keeps the ledgers well formed *)

Call == [open : BOOLEAN, day : 0 .. LastDay, version : 0 .. Len(DayCap), calls : Nat, cost : Nat]
Row == [day : 1 .. LastDay, version : 1 .. Len(DayCap), loan : [Pools -> Nat]]

(* Half of the day passes.                                                  *)
LEMMA MiddayShape ==
    ASSUME WellFormed, Midday
    PROVE  WellFormed' /\ Quiet
<1>1. TypeOK'
  BY DEF WellFormed, TypeOK, Midday, Ledger
<1>2. CallsDated' /\ Raised' /\ RejectionIsFinal'
  BY DEF WellFormed, CallsDated, Raised, RejectionIsFinal, IsAdmitted, Midday, Ledger
<1>3. Draws' = Draws /\ admitted' = admitted /\ actual' = actual
  BY DEF Midday, Ledger, Draws, Drawn, IsAdmitted, IsOpen
<1>4. Quiet
  BY <1>3, AmountsType DEF WellFormed, Quiet
<1> QED BY <1>1, <1>2, <1>4 DEF WellFormed

(* A day ends.                                                              *)
LEMMA MidnightShape ==
    ASSUME WellFormed, Midnight
    PROVE  WellFormed' /\ Quiet
<1>1. TypeOK'
  <2>1. today' \in 1 .. LastDay
    BY BudgetAssumption DEF WellFormed, TypeOK, Midnight
  <2> QED BY <2>1 DEF WellFormed, TypeOK, Midnight, Ledger
<1>2. CallsDated' /\ Raised' /\ RejectionIsFinal'
  BY DEF WellFormed, CallsDated, Raised, RejectionIsFinal, IsAdmitted, Midnight, Ledger
<1>3. Draws' = Draws /\ admitted' = admitted /\ actual' = actual
  BY DEF Midnight, Ledger, Draws, Drawn, IsAdmitted, IsOpen
<1>4. Quiet
  BY <1>3, AmountsType DEF WellFormed, Quiet
<1> QED BY <1>1, <1>2, <1>4 DEF WellFormed

(* A reading before the lock is one of today.                               *)
LEMMA BeginShape ==
    ASSUME WellFormed, NEW r \in Requests, NEW unreadable, Begin(r, unreadable)
    PROVE  WellFormed' /\ Quiet
<1> DEFINE peers == Environments \ ({Home[r]} \cup unreadable)
           new == [open |-> TRUE, day |-> today, version |-> policy[Home[r]],
                   calls |-> PeerCalls(peers, today), cost |-> PeerCost(peers, today)]
<1>0. TypeOK
  BY DEF WellFormed
<1>1. call' = [call EXCEPT ![r] = new]
  BY DEF Begin
<1>2. new \in Call /\ new.day \in 1 .. LastDay
  <2>1. PeerCalls(peers, today) \in Nat /\ PeerCost(peers, today) \in Nat
    BY <1>0, PeerCallsType, PeerCostType
  <2>2. today \in 1 .. LastDay /\ policy[Home[r]] \in 1 .. Len(DayCap)
    BY <1>0, BudgetAssumption DEF TypeOK
  <2>3. today \in 0 .. LastDay /\ policy[Home[r]] \in 0 .. Len(DayCap)
    BY <2>2
  <2> HIDE DEF peers
  <2> QED BY <2>1, <2>2, <2>3 DEF Call
<1> HIDE DEF new
<1>3. call' \in [Requests -> Call]
  BY <1>0, <1>1, <1>2 DEF TypeOK, Call
<1>4. UNCHANGED <<today, late, Ledger>>
  BY DEF Begin
<1>5. TypeOK'
  BY <1>0, <1>3, <1>4 DEF TypeOK, Call, Ledger
<1>6. CallsDated'
  <2>1. \A x \in Requests : call'[x] = IF x = r THEN new ELSE call[x]
    BY <1>0, <1>1 DEF TypeOK
  <2> QED BY <1>2, <2>1 DEF WellFormed, CallsDated
<1>7. Raised' /\ RejectionIsFinal'
  BY <1>4 DEF WellFormed, Raised, RejectionIsFinal, IsAdmitted, Ledger
<1>8. Draws' = Draws /\ admitted' = admitted /\ actual' = actual
  BY <1>4 DEF Ledger, Draws, Drawn, IsAdmitted, IsOpen
<1>9. Quiet
  BY <1>8, AmountsType DEF WellFormed, Quiet
<1> QED BY <1>5, <1>6, <1>7, <1>9 DEF WellFormed

(* A call that ends leaves an empty reading.                                 *)
LEMMA CallEnds ==
    ASSUME WellFormed, NEW r \in Requests, call' = [call EXCEPT ![r] = NoCall]
    PROVE  /\ call' \in [Requests -> Call]
           /\ \A x \in Requests : call'[x].open => call'[x].day \in 1 .. LastDay
<1>1. call \in [Requests -> Call]
  BY DEF WellFormed, TypeOK, Call
<1>2. NoCall \in Call /\ ~NoCall.open
  BY BudgetAssumption DEF NoCall, Call
<1>3. \A x \in Requests : call'[x] = IF x = r THEN NoCall ELSE call[x]
  BY <1>1
<1>4. call' \in [Requests -> Call]
  BY <1>1, <1>2
<1> QED BY <1>2, <1>3, <1>4 DEF WellFormed, CallsDated

(* A call ends without a decision.                                          *)
LEMMA ReturnShape ==
    ASSUME WellFormed, NEW r \in Requests, Return(r)
    PROVE  WellFormed' /\ Quiet
<1>1. call' \in [Requests -> Call] /\ CallsDated'
  BY CallEnds DEF Return, CallsDated
<1>2. UNCHANGED <<today, late, Ledger>>
  BY DEF Return
<1>3. TypeOK'
  BY <1>1, <1>2 DEF WellFormed, TypeOK, Call, Ledger
<1>4. Raised' /\ RejectionIsFinal'
  BY <1>2 DEF WellFormed, Raised, RejectionIsFinal, IsAdmitted, Ledger
<1>5. Draws' = Draws /\ admitted' = admitted /\ actual' = actual
  BY <1>2 DEF Ledger, Draws, Drawn, IsAdmitted, IsOpen
<1>6. Quiet
  BY <1>5, AmountsType DEF WellFormed, Quiet
<1> QED BY <1>1, <1>3, <1>4, <1>6 DEF WellFormed

(* A refusal for a spent pool is recorded.                                  *)
LEMMA RefusePoolShape ==
    ASSUME WellFormed, NEW r \in Requests, RefusePool(r)
    PROVE  WellFormed' /\ Quiet
<1>1. call' \in [Requests -> Call] /\ CallsDated'
  BY CallEnds DEF RefusePool, CallsDated
<1>2. UNCHANGED <<today, late, policy, admitted, actual, corrected, rejected, frozen>>
  BY DEF RefusePool
<1>3. refused' \subseteq [request : Requests, day : 1 .. LastDay]
  <2>1. call[r].open /\ refused' = refused \cup {[request |-> r, day |-> call[r].day]}
    BY DEF RefusePool, Undecided
  <2>2. call[r].day \in 1 .. LastDay
    BY <2>1 DEF WellFormed, CallsDated
  <2> QED BY <2>1, <2>2 DEF WellFormed, TypeOK
<1>4. TypeOK'
  BY <1>1, <1>2, <1>3 DEF WellFormed, TypeOK, Call
<1>5. Raised' /\ RejectionIsFinal'
  BY <1>2 DEF WellFormed, Raised, RejectionIsFinal, IsAdmitted
<1>6. Draws' = Draws /\ admitted' = admitted /\ actual' = actual
  BY <1>2 DEF Draws, Drawn, IsAdmitted, IsOpen
<1>7. Quiet
  BY <1>6, AmountsType DEF WellFormed, Quiet
<1> QED BY <1>1, <1>4, <1>5, <1>7 DEF WellFormed

(* A rejected identity is not an admitted one.                              *)
LEMMA RejectShape ==
    ASSUME WellFormed, NEW r \in Requests, Reject(r)
    PROVE  WellFormed' /\ Quiet
<1>1. call' \in [Requests -> Call] /\ CallsDated'
  BY CallEnds DEF Reject, CallsDated
<1>2. UNCHANGED <<today, late, policy, admitted, actual, corrected, refused, frozen>>
  BY DEF Reject
<1>3. rejected' = rejected \cup {r} /\ ~IsAdmitted(r)
  BY DEF Reject, Undecided
<1>4. TypeOK'
  BY <1>1, <1>2, <1>3 DEF WellFormed, TypeOK, Call
<1>5. Raised' /\ RejectionIsFinal'
  BY <1>2, <1>3 DEF WellFormed, Raised, RejectionIsFinal, IsAdmitted
<1>6. Draws' = Draws /\ admitted' = admitted /\ actual' = actual
  BY <1>2 DEF Draws, Drawn, IsAdmitted, IsOpen
<1>7. Quiet
  BY <1>6, AmountsType DEF WellFormed, Quiet
<1> QED BY <1>1, <1>4, <1>5, <1>7 DEF WellFormed

(* An admitted identity was never rejected.                                 *)
LEMMA AdmitShape ==
    ASSUME WellFormed, NEW r \in Requests, Admit(r)
    PROVE  WellFormed'
<1> DEFINE new == [day |-> call[r].day, version |-> call[r].version,
                   loan |-> LoanFor(r, call[r].day)]
<1>0. TypeOK /\ CallsDated
  BY DEF WellFormed
<1>1. call' \in [Requests -> Call] /\ CallsDated'
  BY CallEnds DEF Admit, CallsDated
<1>2. /\ UNCHANGED <<today, late, policy, actual, corrected, rejected, refused, frozen>>
      /\ admitted' = Insert(admitted, r, new)
      /\ r \notin rejected
  BY DEF Admit, Undecided
<1>3. new \in Row
  <2>1. call[r].day \in 1 .. LastDay /\ call[r].version \in 1 .. Len(DayCap)
    BY <1>0, AdmitRow
  <2>2. LoanFor(r, call[r].day) \in [Pools -> Nat]
    BY <1>0, LoanForType
  <2> QED BY <2>1, <2>2 DEF Row
<1>4. DOMAIN admitted' = DOMAIN admitted \cup {r} /\ admitted' \in [DOMAIN admitted' -> Row]
  <2>1. admitted \in [DOMAIN admitted -> Row]
    BY <1>0 DEF TypeOK, Row
  <2> HIDE DEF new
  <2> DEFINE table == Insert(admitted, r, new)
  <2>2. DOMAIN table = DOMAIN admitted \cup {r} /\ table \in [DOMAIN table -> Row]
    BY <1>3, <2>1 DEF Insert
  <2>3. admitted' = table
    BY <1>2
  <2> HIDE DEF table
  <2> QED BY <2>2, <2>3
<1>5. TypeOK'
  BY <1>0, <1>1, <1>2, <1>4 DEF TypeOK, Call, Row
<1>6. Raised'
  BY <1>2 DEF WellFormed, Raised
<1>7. RejectionIsFinal'
  BY <1>2, <1>4 DEF WellFormed, RejectionIsFinal, IsAdmitted
<1> QED BY <1>1, <1>5, <1>6, <1>7 DEF WellFormed

(* A settlement draws at most what was reserved.                            *)
LEMMA SettleShape ==
    ASSUME WellFormed, NEW r \in Requests, NEW micros \in Nat, Settle(r, micros)
    PROVE  WellFormed' /\ Quiet
<1>0. TypeOK /\ CallsDated /\ Raised /\ RejectionIsFinal
  BY DEF WellFormed
<1>1. /\ UNCHANGED <<today, late, call, policy, admitted, corrected, rejected, refused, frozen>>
      /\ r \in DOMAIN admitted /\ r \notin DOMAIN actual
      /\ actual' = Insert(actual, r, micros)
  BY DEF Settle, IsOpen, IsAdmitted
<1>2. /\ DOMAIN actual' = DOMAIN actual \cup {r} /\ actual' \in [DOMAIN actual' -> Nat]
      /\ actual'[r] = micros /\ \A x \in DOMAIN actual : actual'[x] = actual[x]
  <2>1. actual \in [DOMAIN actual -> Nat]
    BY <1>0 DEF TypeOK
  <2> DEFINE table == Insert(actual, r, micros)
  <2>2. /\ DOMAIN table = DOMAIN actual \cup {r} /\ table \in [DOMAIN table -> Nat]
        /\ table[r] = micros /\ \A x \in DOMAIN actual : x # r => table[x] = actual[x]
    BY <2>1 DEF Insert
  <2>3. actual' = table
    BY <1>1
  <2> HIDE DEF table
  <2> QED BY <1>1, <2>2, <2>3
<1>3. TypeOK'
  BY <1>0, <1>1, <1>2 DEF TypeOK
<1>4. CallsDated' /\ RejectionIsFinal'
  BY <1>0, <1>1 DEF CallsDated, RejectionIsFinal, IsAdmitted
<1>5. Raised'
  <2>1. DOMAIN corrected \subseteq DOMAIN actual
    BY <1>0 DEF TypeOK
  <2> QED BY <1>0, <1>1, <1>2, <2>1 DEF Raised
<1>6. Quiet
  <2> SUFFICES ASSUME NEW x \in Requests PROVE Draws'[x] \in Nat /\ Draws'[x] <= Draws[x]
    BY <1>1, <1>2 DEF Quiet
  <2>1. Reserve[x] \in Nat /\ Draws[x] \in Nat
    BY <1>0, AmountsType
  <2>2. CASE x = r
    <3>1. Draws[x] = Reserve[x] /\ Draws'[x] = Least(micros, Reserve[x])
      BY <1>1, <1>2, <2>2 DEF Draws, Drawn, IsAdmitted, IsOpen
    <3> QED BY <2>1, <3>1 DEF Least
  <2>3. CASE x # r
    <3>1. Draws'[x] = Draws[x]
      BY <1>1, <1>2, <2>3 DEF Draws, Drawn, IsAdmitted, IsOpen, Least
    <3> QED BY <2>1, <3>1
  <2> QED BY <2>2, <2>3
<1> QED BY <1>3, <1>4, <1>5, <1>6 DEF WellFormed

(* A correction raises the charge and not the draw.                         *)
LEMMA CorrectShape ==
    ASSUME WellFormed, NEW r \in Requests, NEW micros \in Nat, Correct(r, micros)
    PROVE  WellFormed' /\ Quiet
<1>0. TypeOK /\ CallsDated /\ Raised /\ RejectionIsFinal
  BY DEF WellFormed
<1>1. /\ UNCHANGED <<today, late, call, policy, admitted, actual, rejected, refused, frozen>>
      /\ r \in DOMAIN actual /\ r \notin DOMAIN corrected /\ micros > actual[r]
      /\ corrected' = Insert(corrected, r, micros)
  BY DEF Correct, IsOpen, IsAdmitted
<1>2. /\ DOMAIN corrected' = DOMAIN corrected \cup {r}
      /\ corrected' \in [DOMAIN corrected' -> Nat]
      /\ corrected'[r] = micros /\ \A x \in DOMAIN corrected : corrected'[x] = corrected[x]
  <2>1. corrected \in [DOMAIN corrected -> Nat]
    BY <1>0 DEF TypeOK
  <2> DEFINE table == Insert(corrected, r, micros)
  <2>2. /\ DOMAIN table = DOMAIN corrected \cup {r} /\ table \in [DOMAIN table -> Nat]
        /\ table[r] = micros /\ \A x \in DOMAIN corrected : x # r => table[x] = corrected[x]
    BY <2>1 DEF Insert
  <2>3. corrected' = table
    BY <1>1
  <2> HIDE DEF table
  <2> QED BY <1>1, <2>2, <2>3
<1>3. TypeOK'
  BY <1>0, <1>1, <1>2 DEF TypeOK
<1>4. CallsDated' /\ RejectionIsFinal'
  BY <1>0, <1>1 DEF CallsDated, RejectionIsFinal, IsAdmitted
<1>5. Raised'
  <2>1. actual[r] \in Nat
    BY <1>0, <1>1 DEF TypeOK
  <2> QED BY <1>0, <1>1, <1>2, <2>1 DEF Raised
<1>6. Draws' = Draws /\ admitted' = admitted /\ actual' = actual
  BY <1>1 DEF Draws, Drawn, IsAdmitted, IsOpen
<1>7. Quiet
  BY <1>0, <1>6, AmountsType DEF Quiet
<1> QED BY <1>3, <1>4, <1>5, <1>7 DEF WellFormed

(* A ledger is frozen.                                                      *)
LEMMA FreezeShape ==
    ASSUME WellFormed, NEW r \in Requests, Freeze(r)
    PROVE  WellFormed' /\ Quiet
<1>1. /\ UNCHANGED <<today, late, call, policy, admitted, actual, corrected, rejected, refused>>
      /\ frozen' = frozen \cup {Home[r]}
  BY DEF Freeze
<1>2. TypeOK'
  <2>1. Home[r] \in Environments
    BY BudgetAssumption
  <2> QED BY <1>1, <2>1 DEF WellFormed, TypeOK
<1>3. CallsDated' /\ Raised' /\ RejectionIsFinal'
  BY <1>1 DEF WellFormed, CallsDated, Raised, RejectionIsFinal, IsAdmitted
<1>4. Draws' = Draws /\ admitted' = admitted /\ actual' = actual
  BY <1>1 DEF Draws, Drawn, IsAdmitted, IsOpen
<1>5. Quiet
  BY <1>4, AmountsType DEF WellFormed, Quiet
<1> QED BY <1>2, <1>3, <1>5 DEF WellFormed

(* A policy version follows the last one.                                   *)
LEMMA RegisterPolicyShape ==
    ASSUME WellFormed, NEW e \in Environments, RegisterPolicy(e)
    PROVE  WellFormed' /\ Quiet
<1>1. /\ UNCHANGED <<today, late, call, admitted, actual, corrected, rejected, refused, frozen>>
      /\ policy[e] < Len(DayCap) /\ policy' = [policy EXCEPT ![e] = @ + 1]
  BY DEF RegisterPolicy
<1>2. TypeOK'
  <2>1. policy \in [Environments -> 1 .. Len(DayCap)] /\ Len(DayCap) \in Nat
    BY BudgetAssumption DEF WellFormed, TypeOK
  <2>2. policy[e] + 1 \in 1 .. Len(DayCap)
    BY <1>1, <2>1
  <2>3. policy' \in [Environments -> 1 .. Len(DayCap)]
    BY <1>1, <2>1, <2>2
  <2> QED BY <1>1, <2>3 DEF WellFormed, TypeOK
<1>3. CallsDated' /\ Raised' /\ RejectionIsFinal'
  BY <1>1 DEF WellFormed, CallsDated, Raised, RejectionIsFinal, IsAdmitted
<1>4. Draws' = Draws /\ admitted' = admitted /\ actual' = actual
  BY <1>1 DEF Draws, Drawn, IsAdmitted, IsOpen
<1>5. Quiet
  BY <1>4, AmountsType DEF WellFormed, Quiet
<1> QED BY <1>2, <1>3, <1>5 DEF WellFormed

-----------------------------------------------------------------------------
(* The invariant is inductive *)

(* Empty ledgers satisfy it.                                                *)
LEMMA InitHolds == Init => IndInv
<1> SUFFICES ASSUME Init PROVE IndInv
  OBVIOUS
<1>1. /\ DOMAIN admitted = {} /\ DOMAIN actual = {} /\ DOMAIN corrected = {}
      /\ admitted = NoRows /\ actual = NoRows /\ corrected = NoRows
  BY DEF Init, NoRows
<1>2. WellFormed
  <2>1. DayCap \in Seq(Nat \ {0}) /\ Len(DayCap) \in Nat /\ Len(DayCap) # 0
    BY BudgetAssumption
  <2>2. call \in [Requests -> Call] /\ policy \in [Environments -> 1 .. Len(DayCap)]
    BY <2>1, BudgetAssumption DEF Init, Call, NoCall
  <2>3. today \in 1 .. LastDay
    BY BudgetAssumption DEF Init
  <2>4. TypeOK
    BY <1>1, <2>2, <2>3 DEF Init, TypeOK, Call, NoRows
  <2>5. CallsDated /\ Raised /\ RejectionIsFinal
    BY <1>1 DEF Init, CallsDated, Raised, RejectionIsFinal, NoCall
  <2> QED BY <2>4, <2>5 DEF WellFormed
<1>3. /\ \A e, day : AdmittedOn(e, day) = {} /\ Bound(e, day) = {}
      /\ \A e : OpenIn(e) = {}
  BY <1>1 DEF AdmittedOn, Bound, OpenIn, IsOpen, IsAdmitted
<1>4. Cardinality({}) = 0 /\ \A f : Total(f, {}) = 0
  BY FS_EmptySet, TotalEmpty
<1>5. CapsKept
  <2>1. OuterCost \in Nat /\ OuterCalls \in Nat /\ SharedCost \in Nat /\ SharedCalls \in Nat
    BY BudgetAssumption
  <2> SUFFICES ASSUME NEW e \in Environments
               PROVE  OpenKept(e) /\ \A day \in 1 .. LastDay : DayKept(e, day)
    BY DEF CapsKept
  <2>2. OpenKept(e)
    BY <1>3 DEF OpenKept
  <2>3. ASSUME NEW day \in 1 .. LastDay PROVE DayKept(e, day)
    <3>1. PolicyKept(e, day)
      BY <1>3 DEF PolicyKept
    <3>2. OuterKept(e, day)
      BY <1>3, <1>4, <2>1 DEF OuterKept
    <3>3. MissionKept(e, day)
      BY <1>3 DEF MissionKept
    <3>4. SharedKept(e, day)
      BY <1>3, <1>4, <2>1 DEF SharedKept
    <3> QED BY <3>1, <3>2, <3>3, <3>4 DEF DayKept
  <2> QED BY <2>2, <2>3
<1>6. PoolsKept
  <2> SUFFICES ASSUME NEW r \in Requests, NEW day \in 1 .. LastDay, Pool[r] # NoPool
               PROVE  Total(Draws, PoolMembers(r, day)) + Total(LentBy(Pool[r]), PoolRows(r, day))
                        <= PoolCap[Pool[r]] + Total(Loan, PoolMembers(r, day))
    BY DEF PoolsKept, PoolKept
  <2>1. PoolRows(r, day) = {} /\ PoolMembers(r, day) = {}
    BY <1>1, PoolRowsAre DEF Pooled, PoolMembers
  <2>2. PoolCap[Pool[r]] \in Nat
    BY BudgetAssumption
  <2> QED BY <1>4, <2>1, <2>2
<1> QED BY <1>2, <1>5, <1>6 DEF IndInv

(* Every step that admits nothing keeps it.                                 *)
LEMMA QuietPreserves ==
    ASSUME IndInv, WellFormed', Quiet
    PROVE  IndInv'
<1>0. TypeOK
  BY DEF IndInv, WellFormed
<1>1. CapsKept'
  <2>1. ASSUME NEW e \in Environments PROVE OpenKept(e)'
    BY <1>0, QuietOpen DEF IndInv, CapsKept
  <2>2. ASSUME NEW e \in Environments, NEW day \in 1 .. LastDay PROVE DayKept(e, day)'
    BY <1>0, QuietDay DEF IndInv, CapsKept
  <2> QED BY <2>1, <2>2 DEF CapsKept
<1>2. PoolsKept'
  <2>1. ASSUME NEW r \in Requests, NEW day \in 1 .. LastDay PROVE PoolKept(r, day)'
    BY <1>0, QuietPool DEF IndInv, PoolsKept
  <2> QED BY <2>1 DEF PoolsKept
<1> QED BY <1>1, <1>2 DEF IndInv

(* So does an admission.                                                    *)
LEMMA AdmitPreserves ==
    ASSUME IndInv, NEW r \in Requests, Admit(r)
    PROVE  IndInv'
<1>0. WellFormed
  BY DEF IndInv
<1>1. WellFormed'
  BY <1>0, AdmitShape
<1>2. CapsKept'
  <2>1. ASSUME NEW e \in Environments PROVE OpenKept(e)'
    BY <1>0, AdmitOpen DEF IndInv, CapsKept
  <2>2. ASSUME NEW e \in Environments, NEW day \in 1 .. LastDay PROVE DayKept(e, day)'
    BY <1>0, AdmitDay DEF IndInv, CapsKept
  <2> QED BY <2>1, <2>2 DEF CapsKept
<1>3. PoolsKept'
  <2>1. ASSUME NEW x \in Requests, NEW day \in 1 .. LastDay PROVE PoolKept(x, day)'
    BY <1>0, AdmitPool DEF IndInv, PoolsKept
  <2> QED BY <2>1 DEF PoolsKept
<1> QED BY <1>1, <1>2, <1>3 DEF IndInv

(* Every step keeps it.                                                     *)
LEMMA StepHolds == IndInv /\ [Next]_vars => IndInv'
<1> SUFFICES ASSUME IndInv, [Next]_vars PROVE IndInv'
  OBVIOUS
<1>0. WellFormed
  BY DEF IndInv
<1>1. CASE Midday
  BY <1>0, <1>1, MiddayShape, QuietPreserves
<1>2. CASE Midnight
  BY <1>0, <1>2, MidnightShape, QuietPreserves
<1>3. ASSUME NEW r \in Requests, RequestStep(r) PROVE IndInv'
  <2>1. ASSUME NEW unreadable, Begin(r, unreadable) PROVE IndInv'
    BY <1>0, <2>1, BeginShape, QuietPreserves
  <2>2. CASE Return(r)
    BY <1>0, <2>2, ReturnShape, QuietPreserves
  <2>3. CASE RefusePool(r)
    BY <1>0, <2>3, RefusePoolShape, QuietPreserves
  <2>4. CASE Reject(r)
    BY <1>0, <2>4, RejectShape, QuietPreserves
  <2>5. CASE Admit(r)
    BY <2>5, AdmitPreserves
  <2>6. ASSUME NEW micros \in Costs, Settle(r, micros) PROVE IndInv'
    <3>1. micros \in Nat
      BY BudgetAssumption
    <3> QED BY <1>0, <2>6, <3>1, SettleShape, QuietPreserves
  <2>7. ASSUME NEW micros \in Costs, Correct(r, micros) PROVE IndInv'
    <3>1. micros \in Nat
      BY BudgetAssumption
    <3> QED BY <1>0, <2>7, <3>1, CorrectShape, QuietPreserves
  <2>8. CASE Freeze(r)
    BY <1>0, <2>8, FreezeShape, QuietPreserves
  <2> QED BY <1>3, <2>1, <2>2, <2>3, <2>4, <2>5, <2>6, <2>7, <2>8 DEF RequestStep
<1>4. ASSUME NEW e \in Environments, RegisterPolicy(e) PROVE IndInv'
  BY <1>0, <1>4, RegisterPolicyShape, QuietPreserves
<1>5. CASE UNCHANGED vars
  <2>1. WellFormed'
    <3>1. TypeOK'
      BY <1>0, <1>5 DEF WellFormed, TypeOK, vars
    <3>2. CallsDated' /\ Raised' /\ RejectionIsFinal'
      BY <1>0, <1>5 DEF WellFormed, CallsDated, Raised, RejectionIsFinal, IsAdmitted, vars
    <3> QED BY <3>1, <3>2 DEF WellFormed
  <2>2. Draws' = Draws /\ admitted' = admitted /\ actual' = actual
    BY <1>5 DEF vars, Draws, Drawn, IsAdmitted, IsOpen
  <2>3. Quiet
    BY <1>0, <2>2, AmountsType DEF WellFormed, Quiet
  <2> QED BY <2>1, <2>3, QuietPreserves
<1> QED BY <1>1, <1>2, <1>3, <1>4, <1>5 DEF Next

-----------------------------------------------------------------------------
(* The theorems *)

(* Every ledger is well formed and within its caps, whatever is admitted,    *)
(* settled, corrected, frozen or refused, and in whatever order.             *)
THEOREM LedgersAreKept == Spec => []IndInv
<1>1. Init => IndInv
  BY InitHolds
<1>2. IndInv /\ [Next]_vars => IndInv'
  BY StepHolds
<1> QED BY <1>1, <1>2, PTL DEF Spec

(* What the invariant says of decisions.                                    *)
LEMMA DecisionsFollow == IndInv => DecisionsStand
BY DEF IndInv, WellFormed, DecisionsStand

(* What it says of the policy, mission and outer caps of a day.             *)
LEMMA CapsFollow == IndInv => CapsBind
<1> SUFFICES ASSUME IndInv, NEW e \in Environments, NEW day \in 1 .. LastDay
             PROVE  LET A == AdmittedOn(e, day)
                        bound == {r \in A : Mission[r] # NoMission}
                        of(m) == {r \in bound : Mission[r] = m}
                    IN  /\ A # {} => \E r \in A : TotalDrawn(A) <= DayCap[admitted[r].version]
                        /\ Cardinality(bound) <= OuterCalls
                        /\ TotalDrawn(bound) <= OuterCost
                        /\ \A r \in bound :
                              /\ Cardinality(of(Mission[r])) <= MissionCalls[Mission[r]]
                              /\ TotalDrawn(of(Mission[r])) <= MissionCost[Mission[r]]
  BY DEF CapsBind, PolicyCapBinds, MissionCapsBind
<1> DEFINE A == AdmittedOn(e, day)
           B == Bound(e, day)
           M(m) == OfMission(e, day, m)
<1>1. /\ B = {r \in A : Mission[r] # NoMission}
      /\ \A m : M(m) = {r \in {r \in A : Mission[r] # NoMission} : Mission[r] = m}
  BY DEF Bound, OfMission
<1>2. /\ A \subseteq Requests /\ \A x \in A : IsAdmitted(x)
      /\ B \subseteq A /\ \A m : M(m) \subseteq A
  BY DEF AdmittedOn, Bound, OfMission
<1>3. /\ TotalDrawn(A) = Total(Draws, A) /\ TotalDrawn(B) = Total(Draws, B)
      /\ \A m : TotalDrawn(M(m)) = Total(Draws, M(m))
  <2> HIDE DEF A, B, M
  <2> QED BY <1>2, TotalDrawnIs
<1>4. DayKept(e, day)
  BY DEF IndInv, CapsKept
<1>5. A # {} => \E r \in A : TotalDrawn(A) <= DayCap[admitted[r].version]
  BY <1>3, <1>4 DEF DayKept, PolicyKept
<1>6. Cardinality(B) <= OuterCalls /\ TotalDrawn(B) <= OuterCost
  BY <1>3, <1>4 DEF DayKept, OuterKept
<1>7. \A r \in B : /\ Cardinality(M(Mission[r])) <= MissionCalls[Mission[r]]
                   /\ TotalDrawn(M(Mission[r])) <= MissionCost[Mission[r]]
  BY <1>3, <1>4 DEF DayKept, MissionKept
<1> HIDE DEF A, B, M
<1>8. {r \in A : Mission[r] # NoMission} = B
  BY <1>1
<1>9. \A m : {r \in B : Mission[r] = m} = M(m)
  BY <1>1
<1> QED BY <1>5, <1>6, <1>7, <1>8, <1>9 DEF A

(* What it says of open reservations.                                       *)
LEMMA OpenFollows == IndInv => OpenWithinOneDay
<1> SUFFICES ASSUME IndInv, NEW e \in Environments, OpenIn(e) # {}
             PROVE  \E r \in Requests : /\ Home[r] = e
                                        /\ IsAdmitted(r)
                                        /\ TotalDrawn(OpenIn(e)) <= DayCap[admitted[r].version]
  BY DEF OpenWithinOneDay, OpenIn
<1> DEFINE O == OpenIn(e)
<1>1. O \subseteq Requests /\ \A x \in O : IsAdmitted(x)
  BY DEF OpenIn, IsOpen
<1>2. OpenKept(e)
  BY DEF IndInv, CapsKept
<1>3. TotalDrawn(O) = Total(Draws, O)
  <2> HIDE DEF O
  <2> QED BY <1>1, TotalDrawnIs
<1> QED BY <1>2, <1>3 DEF OpenKept

(* What it says of the shared caps.                                         *)
LEMMA SharedFollows == IndInv => SharedCapPerLedger
<1> SUFFICES ASSUME IndInv, NEW e \in Environments, NEW day \in 1 .. LastDay
             PROVE  /\ TotalDrawn(AdmittedOn(e, day)) <= SharedCost
                    /\ Cardinality(AdmittedOn(e, day)) <= SharedCalls
  BY DEF SharedCapPerLedger
<1> DEFINE A == AdmittedOn(e, day)
<1>1. A \subseteq Requests /\ \A x \in A : IsAdmitted(x)
  BY DEF AdmittedOn
<1>2. DayKept(e, day)
  BY DEF IndInv, CapsKept
<1>3. TotalDrawn(A) = Total(Draws, A)
  <2> HIDE DEF A
  <2> QED BY <1>1, TotalDrawnIs
<1> QED BY <1>2, <1>3 DEF DayKept, SharedKept

(* What it says of the pools.                                               *)
LEMMA PoolsFollow == IndInv => PoolsLendOnce
<1> SUFFICES ASSUME IndInv, NEW r \in Requests, NEW day \in 1 .. LastDay,
                    Pool[r] # NoPool, PoolEnforced
             PROVE  TotalDrawn({x \in PoolRows(r, day) : Pool[x] = Pool[r]})
                      + Lent(r, day, Pool[r])
                    <= PoolCap[Pool[r]] + Borrowed(r, day, Pool[r])
  BY DEF PoolsLendOnce
<1> DEFINE R == PoolRows(r, day)
           P == {x \in R : Pool[x] = Pool[r]}
<1>0. TypeOK /\ Pool[r] \in Pools
  BY BudgetAssumption DEF IndInv, WellFormed
<1>1. P \subseteq Requests /\ \A x \in P : IsAdmitted(x)
  BY PoolRowsAre DEF Pooled, IsAdmitted
<1>2. P = PoolMembers(r, day)
  BY DEF PoolMembers
<1>3. PoolKept(r, day)
  BY DEF IndInv, PoolsKept
<1>4. Lent(r, day, Pool[r]) = Total(LentBy(Pool[r]), R) /\ Borrowed(r, day, Pool[r]) = Total(Loan, P)
  BY <1>0, PoolNumbers, Zenon
<1>5. TotalDrawn(P) = Total(Draws, P)
  <2> HIDE DEF P
  <2> QED BY <1>1, TotalDrawnIs
<1>6. Total(Draws, P) + Total(LentBy(Pool[r]), R) <= PoolCap[Pool[r]] + Total(Loan, P)
  <2> HIDE DEF P
  <2> QED BY <1>2, <1>3 DEF PoolKept
<1> HIDE DEF P, R
<1>7. TotalDrawn(P) + Lent(r, day, Pool[r]) <= PoolCap[Pool[r]] + Borrowed(r, day, Pool[r])
  BY <1>4, <1>5, <1>6
<1> QED BY <1>7 DEF P, R

(* A ledger's rows are well formed and a refusal for a cap is final: no      *)
(* identity once rejected is ever admitted, on another day or under another  *)
(* policy version.                                                           *)
THEOREM DecisionsAreFinal == Spec => []DecisionsStand
BY LedgersAreKept, DecisionsFollow, PTL

(* What a day's admissions draw is within a policy cap one of them was       *)
(* admitted under, and within the calls and the cost of its mission and of   *)
(* the outer research budget.                                                *)
THEOREM CapsAreKept == Spec => []CapsBind
BY LedgersAreKept, CapsFollow, PTL

(* However many days pass, the reservations nobody settled never exceed one  *)
(* day's cap.                                                                *)
THEOREM OpenIsWithinOneDay == Spec => []OpenWithinOneDay
BY LedgersAreKept, OpenFollows, PTL

(* One ledger alone stays within the host's shared caps, whatever it could   *)
(* not read of the others.                                                   *)
THEOREM SharedCapIsKeptPerLedger == Spec => []SharedCapPerLedger
BY LedgersAreKept, SharedFollows, PTL

(* What a pool drew and lent on a day is within its cap and what it          *)
(* borrowed: no micro is lent twice.                                         *)
THEOREM PoolsLendOnlyOnce == Spec => []PoolsLendOnce
BY LedgersAreKept, PoolsFollow, PTL

=============================================================================
