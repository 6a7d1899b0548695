----------------------------- MODULE FiniteSums -----------------------------
(***************************************************************************)
(* Sums over finite sets, for proofs about the day ledgers.  MapThenSumSet *)
(* of the community modules is a function defined by recursion on the      *)
(* subsets of a set; Total is the same sum of a function's values, and the *)
(* lemmas say what the ledgers need of it: that it exists, that it is      *)
(* determined by the values, and how it grows with the set and the values. *)
(***************************************************************************)
EXTENDS Integers, FiniteSets, FiniteSetsExt, FiniteSetTheorems, WellFoundedInduction, TLAPS

(* The element MapThenSumSet takes next.                                     *)
Some(s) == CHOOSE x \in s : TRUE

(* g sums f over every subset of S, the way MapThenSumSet does.              *)
IsSum(g, f, S) ==
    g = [s \in SUBSET S |-> IF s = {} THEN 0 ELSE f[Some(s)] + g[s \ {Some(s)}]]

(* The sum of f over S.                                                      *)
Total(f, S) == (CHOOSE g : IsSum(g, f, S))[S]

(* Induction on the naturals, over the set of those that have a property.    *)
LEMMA NatSet ==
    ASSUME NEW G, 0 \in G, \A n \in Nat : n \in G => n + 1 \in G
    PROVE  Nat \subseteq G
<1> SUFFICES ASSUME Nat \ G # {} PROVE FALSE
  OBVIOUS
<1>1. PICK n \in Nat \ G : \A m \in Nat \ G : n <= m
  <2>1. PICK n \in Nat \ G : \A m \in Nat \ G : ~ (<<m, n>> \in OpToRel(<, Nat))
    BY NatLessThanWellFounded, WFMin
  <2>2. ASSUME NEW m \in Nat \ G PROVE n <= m
    <3>1. <<m, n>> \notin OpToRel(<, Nat)
      BY <2>1
    <3>2. ~ (m < n)
      BY <3>1 DEF OpToRel
    <3> QED BY <3>2
  <2> QED BY <2>2
<1>2. n # 0 /\ n - 1 \in Nat /\ n - 1 \in G
  BY <1>1
<1>3. (n - 1) + 1 = n
  BY <1>1
<1> QED BY <1>1, <1>2, <1>3

(* One element less.                                                         *)
LEMMA OneLess ==
    ASSUME NEW S, IsFiniteSet(S), NEW s \in SUBSET S, NEW x \in s, NEW n \in Nat,
           Cardinality(s) = n + 1
    PROVE  s \ {x} \in SUBSET S /\ Cardinality(s \ {x}) = n
<1>1. IsFiniteSet(s)
  BY FS_Subset
<1>2. Cardinality(s \ {x}) = Cardinality(s) - 1
  BY <1>1, FS_RemoveElement
<1> QED BY <1>2

(* Induction on the subsets of a finite set.                                 *)
LEMMA SubsetInduction ==
    ASSUME NEW S, IsFiniteSet(S), NEW G, {} \in G,
           \A T \in SUBSET S : T # {} /\ (\A x \in T : T \ {x} \in G) => T \in G
    PROVE  \A T \in SUBSET S : T \in G
<1> DEFINE P == {n \in Nat : \A T \in SUBSET S : Cardinality(T) = n => T \in G}
<1>1. \A T \in SUBSET S : IsFiniteSet(T) /\ Cardinality(T) \in Nat
  BY FS_Subset, FS_CardinalityType
<1>2. 0 \in P
  <2>1. \A T \in SUBSET S : Cardinality(T) = 0 => T = {}
    BY <1>1, FS_EmptySet
  <2> QED BY <2>1
<1>3. ASSUME NEW n \in Nat, n \in P PROVE n + 1 \in P
  <2> SUFFICES ASSUME NEW T \in SUBSET S, Cardinality(T) = n + 1 PROVE T \in G
    BY <1>3
  <2>1. T # {}
    BY <1>1, FS_EmptySet
  <2>2. \A x \in T : T \ {x} \in SUBSET S /\ Cardinality(T \ {x}) = n
    BY OneLess
  <2>3. \A x \in T : T \ {x} \in G
    BY <1>3, <2>2
  <2> QED BY <2>1, <2>3
<1>4. Nat \subseteq P
  <2> HIDE DEF P
  <2> QED BY <1>2, <1>3, NatSet
<1> QED BY <1>1, <1>4

(* A sum over a finite set exists.                                           *)
LEMMA SumExists ==
    ASSUME NEW S, IsFiniteSet(S), NEW f
    PROVE  \E g : IsSum(g, f, S)
<1> DEFINE Upto(n) == {s \in SUBSET S : Cardinality(s) <= n}
           Body(g, s) == IF s = {} THEN 0 ELSE f[Some(s)] + g[s \ {Some(s)}]
           G == {n \in Nat : \E g : g = [s \in Upto(n) |-> Body(g, s)]}
<1>1. \A T \in SUBSET S : IsFiniteSet(T) /\ Cardinality(T) \in Nat
  BY FS_Subset, FS_CardinalityType
<1>2. 0 \in G
  <2> DEFINE g == [s \in Upto(0) |-> 0]
  <2>1. \A s \in Upto(0) : s = {}
    BY <1>1, FS_EmptySet
  <2>2. g = [s \in Upto(0) |-> Body(g, s)]
    BY <2>1
  <2> HIDE DEF g
  <2> QED BY <2>2
<1>3. \A n \in Nat : n \in G => n + 1 \in G
  <2> SUFFICES ASSUME NEW n \in Nat, n \in G PROVE n + 1 \in G
    OBVIOUS
  <2>0. PICK g : g = [s \in Upto(n) |-> Body(g, s)]
    OBVIOUS
  <2> DEFINE h == [s \in Upto(n + 1) |-> Body(g, s)]
  <2>1. \A s \in Upto(n + 1) : s # {} => s \ {Some(s)} \in Upto(n)
    <3> SUFFICES ASSUME NEW s \in Upto(n + 1), s # {} PROVE s \ {Some(s)} \in Upto(n)
      OBVIOUS
    <3>1. Some(s) \in s
      BY DEF Some
    <3>2. Cardinality(s \ {Some(s)}) = Cardinality(s) - 1 /\ Cardinality(s) <= n + 1
      BY <1>1, <3>1, FS_RemoveElement
    <3>3. Cardinality(s) - 1 <= n
      BY <1>1, <3>2
    <3> QED BY <3>2, <3>3
  <2>2. \A t \in Upto(n) : t \in Upto(n + 1)
    BY <1>1
  <2>3. \A t \in Upto(n) : h[t] = g[t]
    <3> HIDE DEF Upto
    <3> QED BY <2>0, <2>2
  <2>4. \A s \in Upto(n + 1) : Body(g, s) = Body(h, s)
    <3> HIDE DEF Upto, h
    <3> QED BY <2>1, <2>3
  <2>5. h = [s \in Upto(n + 1) |-> Body(h, s)]
    <3>1. h = [s \in Upto(n + 1) |-> Body(g, s)]
      OBVIOUS
    <3> HIDE DEF h, Upto, Body
    <3> QED BY <3>1, <2>4
  <2>6. \E k : k = [s \in Upto(n + 1) |-> Body(k, s)]
    <3> HIDE DEF h
    <3> QED BY <2>5
  <2>7. n + 1 \in Nat
    OBVIOUS
  <2> HIDE DEF Upto, Body, h
  <2> QED BY <2>6, <2>7
<1>4. Nat \subseteq G
  <2> HIDE DEF G
  <2> QED BY <1>2, <1>3, NatSet
<1>5. Cardinality(S) \in G
  <2> HIDE DEF G
  <2> QED BY <1>4, <1>1
<1>6. Upto(Cardinality(S)) = SUBSET S
  BY <1>1, FS_Subset
<1> QED BY <1>5, <1>6 DEF IsSum

(* The defining equation of a sum, one subset at a time.                     *)
LEMMA SumIs ==
    ASSUME NEW S, NEW f, NEW g, IsSum(g, f, S), NEW s \in SUBSET S
    PROVE  /\ s = {} => g[s] = 0
           /\ s # {} => g[s] = f[Some(s)] + g[s \ {Some(s)}] /\ Some(s) \in s
<1>1. g[s] = IF s = {} THEN 0 ELSE f[Some(s)] + g[s \ {Some(s)}]
  <2> DEFINE F == [t \in SUBSET S |-> IF t = {} THEN 0 ELSE f[Some(t)] + g[t \ {Some(t)}]]
  <2>1. g = F
    BY DEF IsSum
  <2>2. F[s] = IF s = {} THEN 0 ELSE f[Some(s)] + g[s \ {Some(s)}]
    OBVIOUS
  <2> HIDE DEF F
  <2> QED BY <2>1, <2>2
<1>2. s # {} => Some(s) \in s
  BY DEF Some
<1> QED BY <1>1, <1>2

(* It is a natural number when every term is.                                *)
LEMMA SumType ==
    ASSUME NEW S, IsFiniteSet(S), NEW f, NEW g, IsSum(g, f, S), \A x \in S : f[x] \in Nat
    PROVE  \A s \in SUBSET S : g[s] \in Nat
<1> DEFINE G == {s \in SUBSET S : g[s] \in Nat}
<1>1. {} \in G
  <2>1. g[{}] = 0
    BY SumIs
  <2> QED BY <2>1
<1>2. ASSUME NEW T \in SUBSET S, T # {}, \A x \in T : T \ {x} \in G PROVE T \in G
  <2>1. g[T] = f[Some(T)] + g[T \ {Some(T)}] /\ Some(T) \in T
    BY <1>2, SumIs
  <2>2. g[T \ {Some(T)}] \in Nat /\ f[Some(T)] \in Nat
    BY <1>2, <2>1
  <2> QED BY <2>1, <2>2
<1>3. \A T \in SUBSET S : T \in G
  <2> HIDE DEF G
  <2> QED BY <1>1, <1>2, SubsetInduction
<1> QED BY <1>3

(* The sum of a subset is the same from whatever set it is taken.            *)
LEMMA SumUnique ==
    ASSUME NEW S, IsFiniteSet(S), NEW T \in SUBSET S, NEW f, NEW g, NEW h,
           IsSum(g, f, S), IsSum(h, f, T)
    PROVE  \A s \in SUBSET T : h[s] = g[s]
<1> DEFINE G == {s \in SUBSET T : h[s] = g[s]}
<1>1. {} \in G
  <2>1. g[{}] = 0 /\ h[{}] = 0
    BY SumIs
  <2> QED BY <2>1
<1>2. ASSUME NEW s \in SUBSET T, s # {}, \A x \in s : s \ {x} \in G PROVE s \in G
  <2>1. g[s] = f[Some(s)] + g[s \ {Some(s)}] /\ Some(s) \in s
    BY <1>2, SumIs
  <2>2. h[s] = f[Some(s)] + h[s \ {Some(s)}]
    BY <1>2, SumIs
  <2>3. h[s \ {Some(s)}] = g[s \ {Some(s)}]
    BY <1>2, <2>1
  <2> QED BY <2>1, <2>2, <2>3
<1>3. \A s \in SUBSET T : s \in G
  <2>1. IsFiniteSet(T)
    BY FS_Subset
  <2> HIDE DEF G
  <2> QED BY <1>1, <1>2, <2>1, SubsetInduction
<1> QED BY <1>3

(* Any element may be taken out first.                                       *)
LEMMA SumRemove ==
    ASSUME NEW S, IsFiniteSet(S), NEW f, NEW g, IsSum(g, f, S), \A x \in S : f[x] \in Nat
    PROVE  \A s \in SUBSET S : \A x \in s : g[s] = f[x] + g[s \ {x}]
<1> DEFINE G == {s \in SUBSET S : \A x \in s : g[s] = f[x] + g[s \ {x}]}
<1>1. {} \in G
  OBVIOUS
<1>2. ASSUME NEW s \in SUBSET S, s # {}, \A x \in s : s \ {x} \in G PROVE s \in G
  <2> SUFFICES ASSUME NEW x \in s PROVE g[s] = f[x] + g[s \ {x}]
    OBVIOUS
  <2> DEFINE y == Some(s)
  <2>1. g[s] = f[y] + g[s \ {y}] /\ y \in s
    BY <1>2, SumIs
  <2>2. CASE x = y
    BY <2>1, <2>2
  <2>3. CASE x # y
    <3> DEFINE rest == g[(s \ {x}) \ {y}]
    <3> HIDE DEF y
    <3>1. g[s \ {y}] = f[x] + g[(s \ {y}) \ {x}]
      BY <1>2, <2>1, <2>3
    <3>2. g[s \ {x}] = f[y] + rest
      BY <1>2, <2>1, <2>3
    <3>3. (s \ {x}) \ {y} = (s \ {y}) \ {x} /\ (s \ {x}) \ {y} \in SUBSET S
      OBVIOUS
    <3>4. rest \in Nat /\ f[x] \in Nat /\ f[y] \in Nat
      BY <2>1, <3>3, SumType
    <3>5. g[s] = f[y] + (f[x] + rest)
      BY <2>1, <3>1, <3>3
    <3> HIDE DEF rest
    <3> QED BY <3>2, <3>4, <3>5
  <2> QED BY <2>2, <2>3
<1>3. \A s \in SUBSET S : s \in G
  <2> HIDE DEF G
  <2> QED BY <1>1, <1>2, SubsetInduction
<1> QED BY <1>3

(* What Total sums, seen from any larger finite set.                         *)
LEMMA TotalIn ==
    ASSUME NEW S, IsFiniteSet(S), NEW f, NEW g, IsSum(g, f, S)
    PROVE  \A T \in SUBSET S : Total(f, T) = g[T]
<1> SUFFICES ASSUME NEW T \in SUBSET S PROVE Total(f, T) = g[T]
  OBVIOUS
<1> DEFINE h == CHOOSE k : IsSum(k, f, T)
<1>1. IsFiniteSet(T)
  BY FS_Subset
<1>2. IsSum(h, f, T)
  BY <1>1, SumExists
<1>3. Total(f, T) = h[T]
  BY DEF Total
<1> HIDE DEF h
<1> QED BY <1>2, <1>3, SumUnique

(* The total over no elements, and the type of any other.                   *)
LEMMA TotalEmpty == ASSUME NEW f PROVE Total(f, {}) = 0
<1>1. PICK g : IsSum(g, f, {})
  BY SumExists, FS_EmptySet
<1>2. Total(f, {}) = g[{}]
  BY <1>1, TotalIn, FS_EmptySet
<1> QED BY <1>1, <1>2, SumIs

(* The total of numbers is a number.                                        *)
LEMMA TotalType ==
    ASSUME NEW S, IsFiniteSet(S), NEW f, \A x \in S : f[x] \in Nat
    PROVE  Total(f, S) \in Nat
<1>1. PICK g : IsSum(g, f, S)
  BY SumExists
<1> QED BY <1>1, TotalIn, SumType

(* A sum without one of its terms.                                           *)
LEMMA TotalRemove ==
    ASSUME NEW S, IsFiniteSet(S), NEW f, \A x \in S : f[x] \in Nat, NEW x \in S
    PROVE  Total(f, S) = f[x] + Total(f, S \ {x})
<1>1. PICK g : IsSum(g, f, S)
  BY SumExists
<1>2. Total(f, S) = g[S] /\ Total(f, S \ {x}) = g[S \ {x}]
  BY <1>1, TotalIn
<1> QED BY <1>1, <1>2, SumRemove

(* A sum of smaller terms is no larger.                                      *)
LEMMA TotalMono ==
    ASSUME NEW S, IsFiniteSet(S), NEW f, NEW h,
           \A x \in S : f[x] \in Nat /\ h[x] \in Nat /\ f[x] <= h[x]
    PROVE  Total(f, S) <= Total(h, S)
<1> DEFINE G == {s \in SUBSET S : Total(f, s) <= Total(h, s)}
<1>1. {} \in G
  BY TotalEmpty
<1>2. ASSUME NEW s \in SUBSET S, s # {}, \A x \in s : s \ {x} \in G PROVE s \in G
  <2>1. PICK x \in s : TRUE
    BY <1>2
  <2> DEFINE a == Total(f, s \ {x})
             b == Total(h, s \ {x})
  <2>2. IsFiniteSet(s) /\ IsFiniteSet(s \ {x})
    BY FS_Subset
  <2>3. Total(f, s) = f[x] + a /\ Total(h, s) = h[x] + b
    BY <2>2, TotalRemove
  <2>4. a \in Nat /\ b \in Nat
    BY <2>2, TotalType
  <2>5. a <= b
    BY <1>2
  <2>6. f[x] \in Nat /\ h[x] \in Nat /\ f[x] <= h[x]
    OBVIOUS
  <2> HIDE DEF a, b
  <2> QED BY <2>3, <2>4, <2>5, <2>6
<1>3. \A s \in SUBSET S : s \in G
  <2> HIDE DEF G
  <2> QED BY <1>1, <1>2, SubsetInduction
<1> QED BY <1>3

(* A sum depends on its terms only.                                          *)
LEMMA TotalSame ==
    ASSUME NEW S, IsFiniteSet(S), NEW f, NEW h,
           \A x \in S : f[x] \in Nat /\ f[x] = h[x]
    PROVE  Total(f, S) = Total(h, S)
<1>1. Total(f, S) \in Nat /\ Total(h, S) \in Nat
  BY TotalType
<1>2. \A x \in S : f[x] <= h[x] /\ h[x] <= f[x] /\ h[x] \in Nat
  OBVIOUS
<1>3. Total(f, S) <= Total(h, S) /\ Total(h, S) <= Total(f, S)
  BY <1>2, TotalMono
<1> QED BY <1>1, <1>3

(* One term more.                                                            *)
LEMMA TotalAdd ==
    ASSUME NEW S, IsFiniteSet(S), NEW x, x \notin S, NEW f,
           \A y \in S \cup {x} : f[y] \in Nat
    PROVE  Total(f, S \cup {x}) = Total(f, S) + f[x]
<1> DEFINE T == S \cup {x}
<1>1. IsFiniteSet(T) /\ x \in T /\ T \ {x} = S
  BY FS_AddElement
<1>2. Total(f, T) = f[x] + Total(f, S)
  <2> HIDE DEF T
  <2>1. \A y \in T : f[y] \in Nat
    BY DEF T
  <2>2. Total(f, T) = f[x] + Total(f, T \ {x})
    BY <1>1, <2>1, TotalRemove
  <2> QED BY <1>1, <2>2
<1>3. Total(f, S) \in Nat /\ f[x] \in Nat
  BY TotalType
<1> QED BY <1>2, <1>3

(* A part of a sum is no larger.                                             *)
LEMMA TotalPart ==
    ASSUME NEW S, IsFiniteSet(S), NEW T \in SUBSET S, NEW f, \A x \in S : f[x] \in Nat
    PROVE  Total(f, T) <= Total(f, S)
<1> DEFINE G == {s \in SUBSET S : Total(f, s \cap T) <= Total(f, s)}
<1>1. {} \in G
  <2>1. {} \cap T = {}
    OBVIOUS
  <2> QED BY <2>1, TotalEmpty
<1>2. ASSUME NEW s \in SUBSET S, s # {}, \A x \in s : s \ {x} \in G PROVE s \in G
  <2>1. PICK x \in s : TRUE
    BY <1>2
  <2> DEFINE r == s \ {x}
             a == Total(f, r \cap T)
             b == Total(f, r)
  <2>2. IsFiniteSet(s) /\ IsFiniteSet(s \cap T) /\ IsFiniteSet(r) /\ IsFiniteSet(r \cap T)
    BY FS_Subset
  <2>3. Total(f, s) = f[x] + b
    BY <2>2, TotalRemove
  <2>4. a \in Nat /\ b \in Nat /\ f[x] \in Nat
    BY <2>2, TotalType
  <2>5. a <= b
    BY <1>2
  <2>6. Total(f, s \cap T) = f[x] + a \/ Total(f, s \cap T) = a
    <3>1. CASE x \in T
      <4>1. Total(f, s \cap T) = f[x] + Total(f, (s \cap T) \ {x})
        BY <2>2, <3>1, TotalRemove
      <4>2. (s \cap T) \ {x} = r \cap T
        OBVIOUS
      <4> QED BY <4>1, <4>2
    <3>2. CASE x \notin T
      <4>1. s \cap T = r \cap T
        BY <3>2
      <4> QED BY <4>1
    <3> QED BY <3>1, <3>2
  <2> HIDE DEF a, b
  <2> QED BY <2>3, <2>4, <2>5, <2>6
<1>3. \A s \in SUBSET S : s \in G
  <2> HIDE DEF G
  <2> QED BY <1>1, <1>2, SubsetInduction
<1>4. S \cap T = T
  OBVIOUS
<1> QED BY <1>3, <1>4
(* A sum over fewer and smaller terms is no larger.                          *)
LEMMA TotalLess ==
    ASSUME NEW S, IsFiniteSet(S), NEW T \in SUBSET S, NEW f, NEW h,
           \A x \in S : h[x] \in Nat, \A x \in T : f[x] \in Nat /\ f[x] <= h[x]
    PROVE  Total(f, T) <= Total(h, S)
<1>1. IsFiniteSet(T)
  BY FS_Subset
<1>2. Total(f, T) \in Nat /\ Total(h, T) \in Nat /\ Total(h, S) \in Nat
  BY <1>1, TotalType
<1>3. Total(f, T) <= Total(h, T)
  BY <1>1, TotalMono
<1>4. Total(h, T) <= Total(h, S)
  BY TotalPart
<1> QED BY <1>2, <1>3, <1>4

=============================================================================
