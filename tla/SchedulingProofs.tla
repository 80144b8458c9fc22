-------------------------- MODULE SchedulingProofs --------------------------
(***************************************************************************)
(* Lemmas about the operators of Scheduling, for every set of Nodes and    *)
(* every number of GPUs on each: totals over finite sets, first of all     *)
(* that they exist, and what the ranking of Nodes and the measured         *)
(* fragmentation guarantee.                                                *)
(*                                                                         *)
(* The induction theorems of the library take a predicate, which the       *)
(* provers do not instantiate; here the good cases are a set, and the      *)
(* induction is the existence of a minimal element outside it.             *)
(***************************************************************************)
EXTENDS Scheduling, FiniteSetTheorems, TLAPS

-----------------------------------------------------------------------------
(* Induction over numbers and over the subsets of a finite set. *)

LEMMA NumberInduction ==
    ASSUME NEW good, 0 \in good, \A n \in Nat : n \in good => n + 1 \in good
    PROVE  Nat \subseteq good
<1> SUFFICES ASSUME Nat \ good # {} PROVE FALSE
  OBVIOUS
<1>1. PICK m \in Nat \ good : \A k \in Nat \ good : <<k, m>> \notin OpToRel(<, Nat)
  <2>1. Nat \ good \subseteq Nat
    OBVIOUS
  <2> QED BY <2>1, NatLessThanWellFounded, WFMin
<1>2. m # 0 /\ m - 1 \in Nat /\ m - 1 < m /\ m - 1 + 1 = m
  OBVIOUS
<1>3. m - 1 \notin Nat \ good
  BY <1>1, <1>2 DEF OpToRel
<1> QED BY <1>2, <1>3

LEMMA SubsetInduction ==
    ASSUME NEW S, IsFiniteSet(S), NEW good,
           \A T \in SUBSET S : (\A x \in T : T \ {x} \in good) => T \in good
    PROVE  SUBSET S \subseteq good
<1> DEFINE bad == (SUBSET S) \ good
<1> SUFFICES ASSUME bad # {} PROVE FALSE
  OBVIOUS
<1>1. IsWellFoundedOn(StrictSubsetOrdering(S), SUBSET S)
  <2>1. IsWellFoundedOn(StrictSubsetOrdering(S), FiniteSubsetsOf(S))
    BY FS_StrictSubsetOrderingWellFounded
  <2>2. FiniteSubsetsOf(S) = SUBSET S
    BY FS_FiniteSubsetsOfFinite
  <2> QED BY <2>1, <2>2
<1>2. PICK T \in bad : \A U \in bad : <<U, T>> \notin StrictSubsetOrdering(S)
  <2>1. bad \subseteq SUBSET S
    OBVIOUS
  <2> HIDE DEF bad
  <2> QED BY <1>1, <2>1, WFMin
<1>3. \A x \in T : T \ {x} \in good
  <2> SUFFICES ASSUME NEW x \in T PROVE T \ {x} \notin bad
    OBVIOUS
  <2>1. <<T \ {x}, T>> \in StrictSubsetOrdering(S)
    BY DEF StrictSubsetOrdering
  <2> QED BY <1>2, <2>1
<1> QED BY <1>3

-----------------------------------------------------------------------------
(* Totals. *)

\* The member that Total adds first.
First(s) == CHOOSE x \in s : TRUE

LEMMA FirstIsMember == \A s : s # {} => First(s) \in s
BY DEF First

\* h gives the total of f over every subset of S.
Sums(h, f, S) ==
    h = [s \in SUBSET S |-> IF s = {} THEN 0 ELSE f[First(s)] + h[s \ {First(s)}]]

LEMMA TotalIsChosen == \A f, S : Total(f, S) = (CHOOSE h : Sums(h, f, S))[S]
BY Zenon DEF Total, MapThenSumSet, MapThenFoldSet, Sums, First

\* There is such a function: one that is right for sets of n members gives one
\* that is right for sets of n + 1.
LEMMA SumsExist ==
    ASSUME NEW S, IsFiniteSet(S), NEW f, \A x \in S : f[x] \in Nat
    PROVE  \E h \in [SUBSET S -> Nat] : Sums(h, f, S)
<1> DEFINE step(h, s) == IF s = {} THEN 0 ELSE f[First(s)] + h[s \ {First(s)}]
           good == {n \in Nat : \E h \in [SUBSET S -> Nat] :
                       \A s \in SUBSET S : Cardinality(s) <= n => h[s] = step(h, s)}
<1>1. \A s \in SUBSET S : IsFiniteSet(s) /\ Cardinality(s) \in Nat
  BY FS_Subset, FS_CardinalityType
<1>2. 0 \in good
  <2>1. \A s \in SUBSET S : Cardinality(s) <= 0 => s = {}
    BY <1>1, FS_EmptySet
  <2>2. [s \in SUBSET S |-> 0] \in [SUBSET S -> Nat]
    OBVIOUS
  <2> QED BY <2>1, <2>2
<1>3. ASSUME NEW n \in Nat, n \in good PROVE n + 1 \in good
  <2>1. PICK h \in [SUBSET S -> Nat] :
           \A s \in SUBSET S : Cardinality(s) <= n => h[s] = step(h, s)
    BY <1>3
  <2> DEFINE k == [s \in SUBSET S |-> step(h, s)]
  <2>2. k \in [SUBSET S -> Nat]
    <3> SUFFICES ASSUME NEW s \in SUBSET S, s # {} PROVE step(h, s) \in Nat
      OBVIOUS
    <3>1. First(s) \in S /\ s \ {First(s)} \in SUBSET S
      BY FirstIsMember
    <3> QED BY <3>1
  <2>3. ASSUME NEW s \in SUBSET S, Cardinality(s) <= n + 1 PROVE k[s] = step(k, s)
    <3>1. CASE s = {}
      BY <3>1
    <3>2. CASE s # {}
      <4>1. First(s) \in s /\ s \ {First(s)} \in SUBSET S
        BY <3>2, FirstIsMember
      <4>2. Cardinality(s \ {First(s)}) = Cardinality(s) - 1
        BY <1>1, <4>1, FS_RemoveElement
      <4>3. h[s \ {First(s)}] = step(h, s \ {First(s)})
        <5>1. Cardinality(s \ {First(s)}) <= n
          BY <1>1, <2>3, <4>2
        <5> HIDE DEF step
        <5> QED BY <2>1, <4>1, <5>1
      <4>4. k[s \ {First(s)}] = h[s \ {First(s)}]
        BY <4>1, <4>3
      <4> QED BY <3>2, <4>4
    <3> QED BY <3>1, <3>2
  <2>4. \A s \in SUBSET S : Cardinality(s) <= n + 1 => k[s] = step(k, s)
    BY <2>3
  <2> HIDE DEF k, step
  <2> QED BY <2>2, <2>4
<1>4. Cardinality(S) \in good
  <2> HIDE DEF good
  <2> QED BY <1>1, <1>2, <1>3, NumberInduction
<1>5. PICK h \in [SUBSET S -> Nat] :
         \A s \in SUBSET S : Cardinality(s) <= Cardinality(S) => h[s] = step(h, s)
  BY <1>4
<1>6. \A s \in SUBSET S : h[s] = step(h, s)
  BY <1>5, FS_Subset
<1>7. h = [s \in SUBSET S |-> step(h, s)]
  BY <1>6
<1> QED BY <1>7 DEF Sums

LEMMA ChosenSums ==
    ASSUME NEW S, IsFiniteSet(S), NEW f, \A x \in S : f[x] \in Nat
    PROVE  Sums(CHOOSE h : Sums(h, f, S), f, S)
<1>1. \E h : Sums(h, f, S)
  BY SumsExist
<1> QED BY <1>1

LEMMA SumsStep ==
    ASSUME NEW S, NEW f, NEW h, Sums(h, f, S), NEW s \in SUBSET S
    PROVE  h[s] = IF s = {} THEN 0 ELSE f[First(s)] + h[s \ {First(s)}]
BY DEF Sums

\* They agree, also when they are about different sets.
LEMMA SumsAgree ==
    ASSUME NEW S, IsFiniteSet(S), NEW T \in SUBSET S, NEW f,
           NEW g, Sums(g, f, S), NEW h, Sums(h, f, T)
    PROVE  \A s \in SUBSET T : g[s] = h[s]
<1> DEFINE good == {s \in SUBSET T : g[s] = h[s]}
<1>1. ASSUME NEW s \in SUBSET T, \A x \in s : s \ {x} \in good PROVE s \in good
  <2>1. g[s] = IF s = {} THEN 0 ELSE f[First(s)] + g[s \ {First(s)}]
    BY SumsStep
  <2>2. h[s] = IF s = {} THEN 0 ELSE f[First(s)] + h[s \ {First(s)}]
    BY SumsStep
  <2>3. s # {} => g[s \ {First(s)}] = h[s \ {First(s)}]
    BY <1>1, FirstIsMember
  <2> QED BY <2>1, <2>2, <2>3
<1>2. IsFiniteSet(T)
  BY FS_Subset
<1>3. SUBSET T \subseteq good
  <2> HIDE DEF good
  <2> QED BY <1>1, <1>2, SubsetInduction
<1> QED BY <1>3

LEMMA TotalEquation ==
    ASSUME NEW S, IsFiniteSet(S), NEW f, \A x \in S : f[x] \in Nat
    PROVE  /\ Total(f, S) \in Nat
           /\ S = {} => Total(f, S) = 0
           /\ S # {} => Total(f, S) = f[First(S)] + Total(f, S \ {First(S)})
<1> DEFINE R == S \ {First(S)}
           g == CHOOSE h : Sums(h, f, S)
           k == CHOOSE h : Sums(h, f, R)
<1>1. IsFiniteSet(R) /\ R \in SUBSET S /\ \A x \in R : f[x] \in Nat
  BY FS_Subset
<1>2. Sums(g, f, S) /\ Sums(k, f, R)
  BY <1>1, ChosenSums
<1>3. Total(f, S) = g[S] /\ Total(f, R) = k[R]
  BY TotalIsChosen
<1>4. PICK h \in [SUBSET S -> Nat] : Sums(h, f, S)
  BY SumsExist
<1> HIDE DEF R, g, k
<1>5. g[S] = h[S]
  BY <1>2, <1>4, SumsAgree
<1>6. g[R] = k[R]
  BY <1>1, <1>2, SumsAgree
<1>7. g[S] = IF S = {} THEN 0 ELSE f[First(S)] + g[R]
  <2>1. S \in SUBSET S
    OBVIOUS
  <2>2. g[S] = IF S = {} THEN 0 ELSE f[First(S)] + g[S \ {First(S)}]
    BY <1>2, <2>1 DEF Sums
  <2> QED BY <2>2 DEF R
<1> QED BY <1>3, <1>4, <1>5, <1>6, <1>7 DEF R

\* The order in which the members are added does not matter.
LEMMA TotalSplit ==
    ASSUME NEW S, IsFiniteSet(S), NEW f, \A x \in S : f[x] \in Nat, NEW y \in S
    PROVE  Total(f, S) = f[y] + Total(f, S \ {y})
<1> DEFINE good == {T \in SUBSET S : \A x \in T : Total(f, T) = f[x] + Total(f, T \ {x})}
<1>0. \A T \in SUBSET S : IsFiniteSet(T) /\ Total(f, T) \in Nat
  BY FS_Subset, TotalEquation
<1>1. ASSUME NEW T \in SUBSET S, \A x \in T : T \ {x} \in good, NEW z \in T
      PROVE  Total(f, T) = f[z] + Total(f, T \ {z})
  <2>1. First(T) \in T /\ Total(f, T) = f[First(T)] + Total(f, T \ {First(T)})
    <3>1. T # {} /\ IsFiniteSet(T) /\ \A x \in T : f[x] \in Nat
      BY <1>0, <1>1
    <3> QED BY <3>1, TotalEquation, FirstIsMember
  <2>2. CASE z = First(T)
    BY <2>1, <2>2
  <2>3. CASE z # First(T)
    <3> DEFINE U == (T \ {z}) \ {First(T)}
    <3>1. Total(f, T \ {First(T)}) = f[z] + Total(f, U)
      <4>1. T \ {First(T)} \in good /\ z \in T \ {First(T)} /\ (T \ {First(T)}) \ {z} = U
        BY <1>1, <2>1, <2>3
      <4> QED BY <4>1
    <3>2. Total(f, T \ {z}) = f[First(T)] + Total(f, U)
      <4>1. T \ {z} \in good /\ First(T) \in T \ {z}
        BY <1>1, <2>1, <2>3
      <4> QED BY <4>1
    <3>3. f[z] \in Nat /\ f[First(T)] \in Nat /\ Total(f, U) \in Nat
      BY <1>0, <1>1, <2>1
    <3> HIDE DEF U
    <3> QED BY <2>1, <3>1, <3>2, <3>3
  <2> QED BY <2>2, <2>3
<1>2. SUBSET S \subseteq good
  <2>1. \A T \in SUBSET S : (\A x \in T : T \ {x} \in good) => T \in good
    BY <1>1
  <2> HIDE DEF good
  <2> QED BY <2>1, SubsetInduction
<1> QED BY <1>2

LEMMA TotalType ==
    ASSUME NEW S, IsFiniteSet(S), NEW f, \A x \in S : f[x] \in Nat
    PROVE  Total(f, S) \in Nat
BY TotalEquation

LEMMA TotalOfNone == \A f : Total(f, {}) = 0
<1> SUFFICES ASSUME NEW f PROVE Total(f, {}) = 0
  OBVIOUS
<1>1. IsFiniteSet({}) /\ \A x \in {} : f[x] \in Nat
  BY FS_EmptySet
<1> QED BY <1>1, TotalEquation

LEMMA TotalBounded ==
    ASSUME NEW S, IsFiniteSet(S), NEW f, NEW g,
           \A x \in S : f[x] \in Nat /\ g[x] \in Nat /\ f[x] <= g[x]
    PROVE  Total(f, S) <= Total(g, S)
<1> DEFINE good == {T \in SUBSET S : Total(f, T) <= Total(g, T)}
<1>1. ASSUME NEW T \in SUBSET S, \A x \in T : T \ {x} \in good PROVE T \in good
  <2>1. CASE T = {}
    BY <2>1, TotalOfNone
  <2>2. ASSUME NEW x \in T PROVE T \in good
    <3>1. IsFiniteSet(T) /\ IsFiniteSet(T \ {x})
      BY FS_Subset
    <3>2. \A z \in T : f[z] \in Nat /\ g[z] \in Nat /\ f[z] <= g[z]
      OBVIOUS
    <3>3. Total(f, T) = f[x] + Total(f, T \ {x}) /\ Total(g, T) = g[x] + Total(g, T \ {x})
      BY <3>1, <3>2, TotalSplit
    <3>4. Total(f, T \ {x}) \in Nat /\ Total(g, T \ {x}) \in Nat
      BY <3>1, <3>2, TotalType
    <3> QED BY <1>1, <3>2, <3>3, <3>4
  <2> QED BY <2>1, <2>2
<1>2. SUBSET S \subseteq good
  <2> HIDE DEF good
  <2> QED BY <1>1, SubsetInduction
<1> QED BY <1>2

LEMMA TotalAgrees ==
    ASSUME NEW S, IsFiniteSet(S), NEW f, NEW g, \A x \in S : f[x] \in Nat /\ f[x] = g[x]
    PROVE  Total(f, S) = Total(g, S)
<1>1. /\ \A x \in S : f[x] \in Nat /\ g[x] \in Nat /\ f[x] <= g[x]
      /\ \A x \in S : g[x] \in Nat /\ f[x] \in Nat /\ g[x] <= f[x]
  OBVIOUS
<1>2. Total(f, S) <= Total(g, S) /\ Total(g, S) <= Total(f, S)
  BY <1>1, TotalBounded
<1>3. Total(f, S) \in Nat /\ Total(g, S) \in Nat
  BY <1>1, TotalType
<1> QED BY <1>2, <1>3

\* Nothing is above its total, and a total of nothing but zeros is zero.
LEMMA TotalPositive ==
    ASSUME NEW S, IsFiniteSet(S), NEW f, \A x \in S : f[x] \in Nat
    PROVE  /\ \A x \in S : f[x] <= Total(f, S)
           /\ Total(f, S) > 0 <=> \E x \in S : f[x] > 0
<1>1. Total(f, S) \in Nat
  BY TotalType
<1>2. ASSUME NEW x \in S PROVE f[x] <= Total(f, S)
  <2>1. Total(f, S \ {x}) \in Nat
    BY FS_Subset, TotalType
  <2>2. Total(f, S) = f[x] + Total(f, S \ {x})
    BY TotalSplit
  <2> QED BY <2>1, <2>2
<1>3. ASSUME \A x \in S : ~(f[x] > 0) PROVE Total(f, S) = 0
  <2> DEFINE good == {T \in SUBSET S : Total(f, T) = 0}
  <2>1. ASSUME NEW T \in SUBSET S, \A x \in T : T \ {x} \in good PROVE T \in good
    <3>1. CASE T = {}
      BY <3>1, TotalOfNone
    <3>2. ASSUME NEW x \in T PROVE T \in good
      <4>1. Total(f, T) = f[x] + Total(f, T \ {x})
        BY FS_Subset, TotalSplit
      <4>2. f[x] = 0 /\ Total(f, T \ {x}) = 0
        BY <1>3, <2>1
      <4> QED BY <4>1, <4>2
    <3> QED BY <3>1, <3>2
  <2>2. SUBSET S \subseteq good
    <3> HIDE DEF good
    <3> QED BY <2>1, SubsetInduction
  <2> QED BY <2>2
<1> QED BY <1>1, <1>2, <1>3

\* Renaming the members does not change a total.
LEMMA TotalRenamed ==
    ASSUME NEW S, IsFiniteSet(S), NEW name, NEW f,
           \A x \in S : f[name[x]] \in Nat,
           \A x, y \in S : name[x] = name[y] => x = y
    PROVE  Total(f, {name[x] : x \in S}) = Total([x \in S |-> f[name[x]]], S)
<1> DEFINE g == [x \in S |-> f[name[x]]]
           image(T) == {name[x] : x \in T}
           good == {T \in SUBSET S : Total(f, image(T)) = Total(g, T)}
<1>1. ASSUME NEW T \in SUBSET S, \A x \in T : T \ {x} \in good PROVE T \in good
  <2>1. CASE T = {}
    <3>1. image(T) = {}
      BY <2>1
    <3> QED BY <2>1, <3>1, TotalOfNone
  <2>2. ASSUME NEW x \in T PROVE T \in good
    <3>1. IsFiniteSet(T) /\ IsFiniteSet(image(T))
      <4>1. IsFiniteSet(T)
        BY FS_Subset
      <4>2. [z \in T |-> name[z]] \in Surjection(T, image(T))
        BY DEF Surjection
      <4> HIDE DEF image
      <4> QED BY <4>1, <4>2, FS_Surjection
    <3>2. image(T) \ {name[x]} = image(T \ {x}) /\ name[x] \in image(T)
      OBVIOUS
    <3>3. Total(f, image(T)) = f[name[x]] + Total(f, image(T) \ {name[x]})
      <4>1. \A z \in image(T) : f[z] \in Nat
        OBVIOUS
      <4> HIDE DEF image
      <4> QED BY <3>1, <3>2, <4>1, TotalSplit
    <3>4. Total(g, T) = g[x] + Total(g, T \ {x})
      <4>1. \A z \in T : g[z] \in Nat
        OBVIOUS
      <4> HIDE DEF g
      <4> QED BY <3>1, <4>1, TotalSplit
    <3>5. g[x] = f[name[x]]
      OBVIOUS
    <3>6. Total(f, image(T \ {x})) = Total(g, T \ {x})
      BY <1>1
    <3> HIDE DEF g, image
    <3> QED BY <3>2, <3>3, <3>4, <3>5, <3>6
  <2> QED BY <2>1, <2>2
<1>2. SUBSET S \subseteq good
  <2> HIDE DEF good
  <2> QED BY <1>1, SubsetInduction
<1> QED BY <1>2

\* Totals over one, two and three members.
LEMMA TotalOfOne ==
    ASSUME NEW f, NEW x, f[x] \in Nat
    PROVE  Total(f, {x}) = f[x]
<1>1. IsFiniteSet({x}) /\ {x} \ {x} = {} /\ \A z \in {x} : f[z] \in Nat
  BY FS_Singleton
<1>2. Total(f, {x}) = f[x] + Total(f, {x} \ {x})
  BY <1>1, TotalSplit
<1> QED BY <1>1, <1>2, TotalOfNone

LEMMA TotalOfTwo ==
    ASSUME NEW f, NEW x, NEW y, x # y, f[x] \in Nat, f[y] \in Nat
    PROVE  Total(f, {x, y}) = f[x] + f[y]
<1>1. IsFiniteSet({x, y}) /\ {x, y} \ {y} = {x} /\ \A z \in {x, y} : f[z] \in Nat
  <2>1. IsFiniteSet({x} \cup {y})
    BY FS_Singleton, FS_AddElement
  <2>2. {x} \cup {y} = {x, y}
    OBVIOUS
  <2> QED BY <2>1, <2>2
<1>2. Total(f, {x, y}) = f[y] + Total(f, {x, y} \ {y})
  BY <1>1, TotalSplit
<1> QED BY <1>1, <1>2, TotalOfOne

LEMMA TotalOfThree ==
    ASSUME NEW f, NEW x, NEW y, NEW z, x # y, x # z, y # z,
           f[x] \in Nat, f[y] \in Nat, f[z] \in Nat
    PROVE  Total(f, {x, y, z}) = f[x] + f[y] + f[z]
<1>1. IsFiniteSet({x, y, z}) /\ {x, y, z} \ {z} = {x, y} /\ \A v \in {x, y, z} : f[v] \in Nat
  <2>1. IsFiniteSet(({x} \cup {y}) \cup {z})
    BY FS_Singleton, FS_AddElement
  <2>2. ({x} \cup {y}) \cup {z} = {x, y, z}
    OBVIOUS
  <2> QED BY <2>1, <2>2
<1>2. Total(f, {x, y, z}) = f[z] + Total(f, {x, y, z} \ {z})
  BY <1>1, TotalSplit
<1>3. Total(f, {x, y}) = f[x] + f[y]
  BY TotalOfTwo
<1> QED BY <1>1, <1>2, <1>3

-----------------------------------------------------------------------------
(* Numbers. *)

LEMMA Division ==
    ASSUME NEW x \in Nat, NEW d \in Nat \ {0}
    PROVE  /\ x \div d \in Nat
           /\ (x \div d) * d \in Nat
           /\ (x \div d) * d <= x
           /\ x < (x \div d) * d + d
OBVIOUS

LEMMA MultipleFits ==
    ASSUME NEW x \in Nat, NEW d \in Nat \ {0}
    PROVE  (x \div d) * d > 0 <=> x >= d
<1> DEFINE q == x \div d
<1>1. q \in Nat /\ q * d \in Nat /\ q * d <= x /\ x < q * d + d
  BY Division
<1> HIDE DEF q
<1>2. CASE q = 0
  BY <1>1, <1>2
<1>3. CASE q > 0
  <2>1. q * d >= d
    BY <1>1, <1>3
  <2> QED BY <1>1, <2>1
<1> QED BY <1>1, <1>2, <1>3 DEF q

\* Some member of a finite set has the highest score.
LEMMA SomeMaximum ==
    ASSUME NEW S, IsFiniteSet(S), S # {}, NEW score, \A x \in S : score[x] \in Nat
    PROVE  \E x \in S : \A y \in S : score[x] >= score[y]
<1> DEFINE good == {T \in SUBSET S : T # {} => \E x \in T : \A y \in T : score[x] >= score[y]}
<1>1. ASSUME NEW T \in SUBSET S, \A x \in T : T \ {x} \in good PROVE T \in good
  <2> SUFFICES ASSUME NEW z \in T PROVE \E x \in T : \A y \in T : score[x] >= score[y]
    OBVIOUS
  <2>1. CASE T \ {z} = {}
    BY <2>1
  <2>2. CASE T \ {z} # {}
    <3>1. PICK x \in T \ {z} : \A y \in T \ {z} : score[x] >= score[y]
      BY <1>1, <2>2
    <3>2. CASE score[z] >= score[x]
      <4>1. \A y \in T : score[z] >= score[y]
        BY <3>1, <3>2
      <4> QED BY <4>1
    <3>3. CASE ~(score[z] >= score[x])
      <4>1. \A y \in T : score[x] >= score[y]
        BY <3>1, <3>3
      <4> QED BY <4>1
    <3> QED BY <3>2, <3>3
  <2> QED BY <2>1, <2>2
<1>2. SUBSET S \subseteq good
  <2> HIDE DEF good
  <2> QED BY <1>1, SubsetInduction
<1> QED BY <1>2

-----------------------------------------------------------------------------
(* Free GPUs, scores and candidates. *)

PodRequests == [gpus : Nat, preference : {"", "nvlink", "pcie"},
                required : {"", "nvlink", "pcie"}]

FreeVectors == [Nodes -> 0..Allocatable]

LEMMA AllocatableType == Allocatable \in Nat \ {0}
BY NodesAssumption

LEMMA RemainingType == \A used \in Nat : Remaining(used) \in 0..Allocatable
BY AllocatableType DEF Remaining

LEMMA AllocationScoreBounds ==
    ASSUME NEW strategy \in Strategies, NEW used \in 0..Allocatable
    PROVE  /\ AllocationScore(strategy, used) \in Nat
           /\ strategy = "LeastAllocated" =>
                 /\ AllocationScore(strategy, used) * Allocatable <= (Allocatable - used) * 100
                 /\ (Allocatable - used) * 100
                       < AllocationScore(strategy, used) * Allocatable + Allocatable
           /\ strategy = "MostAllocated" =>
                 /\ AllocationScore(strategy, used) * Allocatable <= used * 100
                 /\ used * 100 < AllocationScore(strategy, used) * Allocatable + Allocatable
<1>1. /\ (Allocatable - used) * 100 \in Nat /\ used * 100 \in Nat
      /\ Allocatable \in Nat \ {0}
  BY AllocatableType
<1>2. CASE strategy = "LeastAllocated"
  <2>1. AllocationScore(strategy, used) = ((Allocatable - used) * 100) \div Allocatable
    BY <1>2 DEF AllocationScore
  <2> QED BY <1>1, <1>2, <2>1, Division
<1>3. CASE strategy = "MostAllocated"
  <2>1. AllocationScore(strategy, used) = (used * 100) \div Allocatable
    BY <1>3 DEF AllocationScore
  <2> QED BY <1>1, <1>3, <2>1, Division
<1>4. CASE strategy = "Default"
  BY <1>4 DEF AllocationScore
<1> QED BY <1>2, <1>3, <1>4 DEF Strategies

LEMMA PreferenceScoreType ==
    \A want, class : TopologyPreferenceScore(want, class) \in 0..100
BY DEF TopologyPreferenceScore

LEMMA FeasibleNodes ==
    ASSUME NEW pod \in PodRequests, NEW free \in FreeVectors, NEW n \in Feasible(pod, free)
    PROVE  /\ n \in Nodes
           /\ free[n] \in 0..Allocatable /\ free[n] >= pod.gpus
           /\ Allocatable - free[n] + pod.gpus \in 0..Allocatable
<1>1. n \in Nodes /\ free[n] >= pod.gpus
  BY DEF Feasible
<1>2. free[n] \in 0..Allocatable /\ pod.gpus \in Nat
  BY <1>1 DEF FreeVectors, PodRequests
<1> QED BY <1>1, <1>2, AllocatableType

LEMMA NodeScoreType ==
    ASSUME NEW strategy \in Strategies, NEW pod \in PodRequests, NEW free \in FreeVectors,
           NEW n \in Feasible(pod, free)
    PROVE  NodeScore(strategy, pod, free, n) \in Nat
BY FeasibleNodes, AllocationScoreBounds, PreferenceScoreType DEF NodeScore

\* A Pod that finds no candidate finds no feasible Node: ranking excludes none.
LEMMA CandidatesExist ==
    ASSUME NEW strategy \in Strategies, NEW pod \in PodRequests, NEW free \in FreeVectors
    PROVE  /\ Candidates(strategy, pod, free) \subseteq Feasible(pod, free)
           /\ Feasible(pod, free) # {} => Candidates(strategy, pod, free) # {}
<1> DEFINE feasible == Feasible(pod, free)
           score == [n \in feasible |-> NodeScore(strategy, pod, free, n)]
<1>1. IsFiniteSet(feasible)
  BY NodesAssumption, FS_Subset DEF Feasible
<1>2. \A n \in feasible : score[n] \in Nat
  BY NodeScoreType
<1>3. feasible # {} => \E n \in feasible : \A m \in feasible : score[n] >= score[m]
  <2> HIDE DEF feasible, score
  <2> QED BY <1>1, <1>2, SomeMaximum
<1> QED BY <1>3 DEF Candidates

\* The best Node may be fuller than another feasible one, or emptier when Nodes
\* are packed, by what a preference is worth: 51 of 100 with the rounding.
LEMMA CandidateLoad ==
    ASSUME NEW strategy \in {"LeastAllocated", "MostAllocated"}, NEW pod \in PodRequests,
           NEW free \in FreeVectors, NEW c \in Candidates(strategy, pod, free),
           NEW n \in Feasible(pod, free)
    PROVE  IF strategy = "MostAllocated"
           THEN 100 * free[c] < 100 * free[n] + 51 * Allocatable
           ELSE 100 * free[n] < 100 * free[c] + 51 * Allocatable
<1> DEFINE used(m) == Allocatable - free[m] + pod.gpus
           s(m) == AllocationScore(strategy, used(m))
<1>1. c \in Feasible(pod, free) /\ strategy \in Strategies
  BY CandidatesExist DEF Strategies
<1>2. /\ used(c) \in 0..Allocatable /\ used(n) \in 0..Allocatable
      /\ free[c] \in Nat /\ free[n] \in Nat /\ pod.gpus \in Nat /\ Allocatable \in Nat
  <2>1. pod.gpus \in Nat /\ Allocatable \in Nat
    BY AllocatableType DEF PodRequests
  <2>2. /\ free[c] \in 0..Allocatable /\ used(c) \in 0..Allocatable
        /\ free[n] \in 0..Allocatable /\ used(n) \in 0..Allocatable
    BY <1>1, FeasibleNodes
  <2> QED BY <2>1, <2>2
<1>3. s(n) <= s(c) + 50
  <2>1. NodeScore(strategy, pod, free, c) >= NodeScore(strategy, pod, free, n)
    BY DEF Candidates
  <2>2. s(c) \in Nat /\ s(n) \in Nat
    BY <1>1, <1>2, AllocationScoreBounds
  <2>3. /\ NodeScore(strategy, pod, free, c) <= 10 * s(c) + 500
        /\ NodeScore(strategy, pod, free, n) >= 10 * s(n)
    <3> HIDE DEF s
    <3>1. /\ NodeScore(strategy, pod, free, c)
                = 10 * s(c) + 5 * TopologyPreferenceScore(pod.preference, Class[c])
          /\ NodeScore(strategy, pod, free, n)
                = 10 * s(n) + 5 * TopologyPreferenceScore(pod.preference, Class[n])
      BY DEF NodeScore, s
    <3> QED BY <2>2, <3>1, PreferenceScoreType
  <2>4. NodeScore(strategy, pod, free, c) \in Nat /\ NodeScore(strategy, pod, free, n) \in Nat
    BY <1>1, NodeScoreType
  <2> HIDE DEF s
  <2> QED BY <2>1, <2>2, <2>3, <2>4
<1>4. s(c) \in Nat /\ s(n) \in Nat
  BY <1>1, <1>2, AllocationScoreBounds
<1>5. s(n) * Allocatable <= s(c) * Allocatable + 50 * Allocatable
  <2> HIDE DEF s
  <2> QED BY <1>2, <1>3, <1>4
<1>6. CASE strategy = "LeastAllocated"
  <2>1. /\ s(c) * Allocatable <= (Allocatable - used(c)) * 100
        /\ (Allocatable - used(n)) * 100 < s(n) * Allocatable + Allocatable
    BY <1>1, <1>2, <1>6, AllocationScoreBounds
  <2>2. s(c) * Allocatable \in Nat /\ s(n) * Allocatable \in Nat
    BY <1>2, <1>4
  <2> HIDE DEF s
  <2> QED BY <1>2, <1>5, <1>6, <2>1, <2>2
<1>7. CASE strategy = "MostAllocated"
  <2>1. /\ s(c) * Allocatable <= used(c) * 100
        /\ used(n) * 100 < s(n) * Allocatable + Allocatable
    BY <1>1, <1>2, <1>7, AllocationScoreBounds
  <2>2. s(c) * Allocatable \in Nat /\ s(n) * Allocatable \in Nat
    BY <1>2, <1>4
  <2> HIDE DEF s
  <2> QED BY <1>2, <1>5, <1>7, <2>1, <2>2
<1> QED BY <1>6, <1>7

\* Where two GPUs go on Nodes of four, without a preference: a profile that
\* spreads takes an empty Node if there is one, one that packs a half-full one.
LEMMA HalfNodePlaced ==
    ASSUME Allocatable = 4, NEW strategy \in {"LeastAllocated", "MostAllocated"},
           NEW pod, pod.gpus = 2, pod.preference \notin {"nvlink", "pcie"},
           pod.required \notin {"nvlink", "pcie"},
           NEW free \in [Nodes -> {0, 2, 4}], NEW c \in Candidates(strategy, pod, free)
    PROVE  /\ c \in Nodes /\ free[c] # 0
           /\ strategy = "LeastAllocated" /\ (\E n \in Nodes : free[n] = 4) => free[c] = 4
           /\ strategy = "MostAllocated" /\ (\E n \in Nodes : free[n] = 2) => free[c] = 2
<1>1. c \in Nodes /\ free[c] >= 2
  BY DEF Candidates, Feasible
<1>3. /\ AllocationScore("LeastAllocated", 2) = 50 /\ AllocationScore("LeastAllocated", 4) = 0
      /\ AllocationScore("MostAllocated", 2) = 50 /\ AllocationScore("MostAllocated", 4) = 100
  <2>1. /\ AllocationScore("LeastAllocated", 2) = ((4 - 2) * 100) \div 4
        /\ AllocationScore("LeastAllocated", 4) = ((4 - 4) * 100) \div 4
        /\ AllocationScore("MostAllocated", 2) = (2 * 100) \div 4
        /\ AllocationScore("MostAllocated", 4) = (4 * 100) \div 4
    BY DEF AllocationScore
  <2>2. /\ ((4 - 2) * 100) \div 4 = 50 /\ ((4 - 4) * 100) \div 4 = 0
        /\ (2 * 100) \div 4 = 50 /\ (4 * 100) \div 4 = 100
    OBVIOUS
  <2> QED BY <2>1, <2>2
<1>4. ASSUME NEW n \in Nodes, free[n] \in {2, 4}
      PROVE  /\ n \in Feasible(pod, free)
             /\ NodeScore(strategy, pod, free, n) = IF free[n] = 2 THEN 10 * AllocationScore(strategy, 4)
                                                    ELSE 10 * AllocationScore(strategy, 2)
  <2>1. n \in Feasible(pod, free)
    BY <1>4 DEF Feasible, TopologyRequirementMet
  <2>2. TopologyPreferenceScore(pod.preference, Class[n]) = 0
    BY DEF TopologyPreferenceScore
  <2>3. NodeScore(strategy, pod, free, n) = 10 * AllocationScore(strategy, 4 - free[n] + 2) + 5 * 0
    BY <2>2 DEF NodeScore
  <2>4. AllocationScore(strategy, 4) \in Nat /\ AllocationScore(strategy, 2) \in Nat
    BY <1>3
  <2>5. CASE free[n] = 2
    <3>1. 4 - free[n] + 2 = 4
      BY <2>5
    <3> QED BY <2>1, <2>3, <2>4, <2>5, <3>1
  <2>6. CASE free[n] = 4
    <3>1. 4 - free[n] + 2 = 2
      BY <2>6
    <3> QED BY <2>1, <2>3, <2>4, <2>6, <3>1
  <2> QED BY <1>4, <2>5, <2>6
<1>5. \A n \in Feasible(pod, free) : NodeScore(strategy, pod, free, c) >= NodeScore(strategy, pod, free, n)
  BY DEF Candidates
<1>6. free[c] \in {2, 4}
  <2>1. free[c] \in {0, 2, 4}
    BY <1>1
  <2> QED BY <1>1, <2>1
<1>7. ASSUME strategy = "LeastAllocated", NEW n \in Nodes, free[n] = 4 PROVE free[c] = 4
  <2> SUFFICES ASSUME free[c] = 2 PROVE FALSE
    BY <1>6
  <2>1. NodeScore(strategy, pod, free, n) = 500 /\ n \in Feasible(pod, free)
    BY <1>3, <1>4, <1>7
  <2>2. NodeScore(strategy, pod, free, c) = 0
    BY <1>1, <1>3, <1>4, <1>7
  <2> QED BY <1>5, <2>1, <2>2
<1>8. ASSUME strategy = "MostAllocated", NEW n \in Nodes, free[n] = 2 PROVE free[c] = 2
  <2> SUFFICES ASSUME free[c] = 4 PROVE FALSE
    BY <1>6
  <2>1. NodeScore(strategy, pod, free, n) = 1000 /\ n \in Feasible(pod, free)
    BY <1>3, <1>4, <1>8
  <2>2. NodeScore(strategy, pod, free, c) = 500
    BY <1>1, <1>3, <1>4, <1>8
  <2> QED BY <1>5, <2>1, <2>2
<1> QED BY <1>1, <1>6, <1>7, <1>8

-----------------------------------------------------------------------------
(* What the lab measures. *)

\* FreeGPUs of any finite set of Pods leaves each Node none to all of its GPUs.
LEMMA FreeGPUsType ==
    ASSUME NEW pods, IsFiniteSet(pods), \A p \in pods : p.gpus \in Nat
    PROVE  FreeGPUs(pods) \in FreeVectors
<1>1. ASSUME NEW n PROVE Total(Requested(pods), {p \in pods : p.node = n /\ ~p.finished}) \in Nat
  <2> DEFINE bound == {p \in pods : p.node = n /\ ~p.finished}
  <2>1. IsFiniteSet(bound)
    BY FS_Subset
  <2>2. \A p \in bound : Requested(pods)[p] \in Nat
    BY DEF Requested
  <2> HIDE DEF bound
  <2>3. Total(Requested(pods), bound) \in Nat
    BY <2>1, <2>2, TotalType
  <2> QED BY <2>3 DEF bound
<1>2. \A n \in Nodes : Remaining(Total(Requested(pods), {p \in pods : p.node = n /\ ~p.finished}))
                          \in 0..Allocatable
  BY <1>1, RemainingType
<1> QED BY <1>2 DEF FreeGPUs, FreeVectors

\* CalculateFragmentation counts no more usable than free GPUs, and counts some
\* exactly when a Node has room for the target.
LEMMA FragmentationBounds ==
    ASSUME NEW free \in FreeVectors, NEW target \in Nat \ {0}
    PROVE  /\ CalculateFragmentation(free, target).target = target
           /\ CalculateFragmentation(free, target).total \in Nat
           /\ CalculateFragmentation(free, target).usable \in Nat
           /\ CalculateFragmentation(free, target).usable
                 <= CalculateFragmentation(free, target).total
           /\ (CalculateFragmentation(free, target).usable > 0)
                 <=> (\E n \in Nodes : free[n] >= target)
<1> DEFINE usable == [n \in Nodes |-> (free[n] \div target) * target]
<1>1. IsFiniteSet(Nodes)
  BY NodesAssumption
<1>2. ASSUME NEW n \in Nodes
      PROVE  /\ free[n] \in Nat /\ usable[n] \in Nat /\ usable[n] <= free[n]
             /\ usable[n] > 0 <=> free[n] >= target
  <2>1. free[n] \in Nat
    BY AllocatableType DEF FreeVectors
  <2> QED BY <2>1, Division, MultipleFits
<1>3. /\ CalculateFragmentation(free, target).target = target
      /\ CalculateFragmentation(free, target).total = Total(free, Nodes)
      /\ CalculateFragmentation(free, target).usable = Total(usable, Nodes)
  BY DEF CalculateFragmentation
<1> HIDE DEF usable
<1>4. Total(usable, Nodes) \in Nat /\ Total(free, Nodes) \in Nat
  BY <1>1, <1>2, TotalType
<1>5. Total(usable, Nodes) <= Total(free, Nodes)
  BY <1>1, <1>2, TotalBounded
<1>6. Total(usable, Nodes) > 0 <=> \E n \in Nodes : usable[n] > 0
  BY <1>1, <1>2, TotalPositive
<1> QED BY <1>2, <1>3, <1>4, <1>5, <1>6

\* What three holders of two GPUs leave on three Nodes of four, and how much of
\* it a Pod of four could use: none when they are spread, a Node when packed.
LEMMA FragmentationOfThree ==
    ASSUME NEW a, NEW b, NEW c, Nodes = {a, b, c}, a # b, a # c, b # c,
           NEW free \in [Nodes -> {0, 2, 4}]
    PROVE  CalculateFragmentation(free, 4) =
             [target |-> 4, total |-> free[a] + free[b] + free[c],
              usable |-> (IF free[a] = 4 THEN 4 ELSE 0) + (IF free[b] = 4 THEN 4 ELSE 0)
                           + (IF free[c] = 4 THEN 4 ELSE 0)]
<1> DEFINE usable == [n \in Nodes |-> (free[n] \div 4) * 4]
<1>1. \A n \in Nodes : free[n] \in Nat /\ usable[n] = IF free[n] = 4 THEN 4 ELSE 0
  <2> SUFFICES ASSUME NEW n \in Nodes PROVE free[n] \in Nat /\ usable[n] = IF free[n] = 4 THEN 4 ELSE 0
    OBVIOUS
  <2>1. free[n] \in {0, 2, 4}
    OBVIOUS
  <2>2. 0 \div 4 = 0 /\ 2 \div 4 = 0 /\ 4 \div 4 = 1
    OBVIOUS
  <2> QED BY <2>1, <2>2
<1>2. CalculateFragmentation(free, 4) =
        [target |-> 4, total |-> Total(free, Nodes), usable |-> Total(usable, Nodes)]
  BY DEF CalculateFragmentation
<1> HIDE DEF usable
<1>3. Total(free, Nodes) = free[a] + free[b] + free[c]
  BY <1>1, TotalOfThree
<1>4. Total(usable, Nodes) = usable[a] + usable[b] + usable[c]
  <2>1. usable[a] \in Nat /\ usable[b] \in Nat /\ usable[c] \in Nat
    BY <1>1
  <2> QED BY <2>1, TotalOfThree
<1> QED BY <1>1, <1>2, <1>3, <1>4

=============================================================================
