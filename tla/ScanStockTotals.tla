-------------------------- MODULE ScanStockTotals --------------------------
(***************************************************************************)
(* Lemmas about Total, the sum of an amount over a finite set.  The fold   *)
(* behind it takes the elements off one by one, in an order of its own;    *)
(* the lemmas show that the order does not matter, so that an order may    *)
(* join or leave the orders that hold goods without another one noticing.  *)
(*                                                                         *)
(* Each induction takes a minimal counterexample: a least number outside a *)
(* set of numbers, or a set of orders none of whose subsets is a           *)
(* counterexample too.                                                     *)
(***************************************************************************)
EXTENDS ScanStock, FiniteSetTheorems, WellFoundedInduction, TLAPS

(* The element a fold takes off a set first, one step of its recursion, and  *)
(* the functions that solve the recursion on the subsets of S.               *)
First(s) == CHOOSE x \in s : TRUE
SumStep(q, f, s) == IF s = {} THEN 0 ELSE q[First(s)] + f[s \ {First(s)}]
Sums(q, S, f) == f = [s \in SUBSET S |-> SumStep(q, f, s)]

(* What the fold of the community modules comes to. *)
LEMMA TotalIsSum ==
  ASSUME NEW q, NEW S
  PROVE  Total(q, S) = (CHOOSE f : Sums(q, S, f))[S]
  BY DEF Total, MapThenSumSet, MapThenFoldSet, Sums, SumStep, First

(* A set of subsets of a finite set has a minimal element. *)
LEMMA MinimalSet ==
  ASSUME NEW S, IsFiniteSet(S), NEW B, B \subseteq SUBSET S, B # {}
  PROVE  \E m \in B : \A t \in B : t \subseteq m => t = m
<1>1. IsWellFoundedOn(StrictSubsetOrdering(S), FiniteSubsetsOf(S))
  BY FS_StrictSubsetOrderingWellFounded
<1>2. B \subseteq FiniteSubsetsOf(S)
  BY FS_Subset DEF FiniteSubsetsOf
<1>3. PICK m \in B : \A t \in B : ~ (<<t, m>> \in StrictSubsetOrdering(S))
  BY <1>1, <1>2, WFMin
<1> QED BY <1>3 DEF StrictSubsetOrdering

(* Induction over the numbers, for a set of them. *)
LEMMA AllNumbers ==
  ASSUME NEW A \in SUBSET Nat, 0 \in A, \A n \in A : n + 1 \in A
  PROVE  A = Nat
<1> SUFFICES ASSUME Nat \ A # {} PROVE FALSE
  OBVIOUS
<1>1. PICK m \in Nat \ A : \A n \in Nat \ A : ~ (<<n, m>> \in OpToRel(<, Nat))
  BY NatLessThanWellFounded, WFMin
<1>2. m \in Nat /\ m \notin A /\ m # 0
  BY <1>1
<1>3. m - 1 \in Nat /\ m - 1 < m /\ (m - 1) + 1 = m
  BY <1>2
<1>4. <<m - 1, m>> \in OpToRel(<, Nat)
  BY <1>2, <1>3 DEF OpToRel
<1>5. m - 1 \in A
  BY <1>1, <1>3, <1>4
<1> QED BY <1>2, <1>3, <1>5

(* The recursion has a solution: one on the sets of at most n elements       *)
(* extends to those of n + 1.                                                *)
LEMMA SumsExist ==
  ASSUME NEW q, NEW S, IsFiniteSet(S)
  PROVE  \E f : Sums(q, S, f)
<1> DEFINE Upto(n) == {s \in SUBSET S : Cardinality(s) <= n}
           Solved == {n \in Nat : \E f : f = [s \in Upto(n) |-> SumStep(q, f, s)]}
<1>1. \A s \in SUBSET S : Cardinality(s) \in Nat /\ (Cardinality(s) = 0 <=> s = {})
  BY FS_Subset, FS_CardinalityType, FS_EmptySet
<1>2. 0 \in Solved
  <2> DEFINE f == [s \in Upto(0) |-> 0]
  <2>1. \A s \in Upto(0) : s = {}
    BY <1>1
  <2>2. f = [s \in Upto(0) |-> SumStep(q, f, s)]
    BY <2>1 DEF SumStep
  <2> QED BY <2>2
<1>3. ASSUME NEW n \in Solved PROVE n + 1 \in Solved
  <2>1. PICK f : f = [s \in Upto(n) |-> SumStep(q, f, s)]
    BY <1>3
  <2> DEFINE g == [s \in Upto(n + 1) |-> SumStep(q, f, s)]
  <2>2. ASSUME NEW s \in Upto(n + 1), s # {}
        PROVE  s \ {First(s)} \in Upto(n)
    <3>1. First(s) \in s
      BY <2>2 DEF First
    <3>2. IsFiniteSet(s)
      BY FS_Subset
    <3>3. Cardinality(s \ {First(s)}) = Cardinality(s) - 1
      BY <3>1, <3>2, FS_RemoveElement
    <3> QED BY <1>1, <3>3
  <2>3. \A s \in Upto(n) : f[s] = g[s]
    <3>1. \A s \in Upto(n) : s \in Upto(n + 1)
      BY <1>1
    <3>2. \A s \in Upto(n) : f[s] = SumStep(q, f, s)
      BY <2>1
    <3> QED BY <3>1, <3>2
  <2>4. \A s \in Upto(n + 1) : SumStep(q, f, s) = SumStep(q, g, s)
    BY <2>2, <2>3 DEF SumStep
  <2>5. g = [s \in Upto(n + 1) |-> SumStep(q, g, s)]
    BY <2>4
  <2> HIDE DEF g, Upto
  <2>6. \E h : h = [s \in Upto(n + 1) |-> SumStep(q, h, s)]
    BY <2>5
  <2> QED BY <2>6
<1>4. Solved = Nat
  BY <1>2, <1>3, AllNumbers
<1>5. Cardinality(S) \in Nat /\ SUBSET S = Upto(Cardinality(S))
  BY FS_CardinalityType, FS_Subset
<1>6. PICK f : f = [s \in Upto(Cardinality(S)) |-> SumStep(q, f, s)]
  BY <1>4, <1>5
<1> QED BY <1>5, <1>6 DEF Sums

(* A solution obeys the recursion. *)
LEMMA SumsStep ==
  ASSUME NEW q, NEW S, NEW f, Sums(q, S, f), NEW s \in SUBSET S
  PROVE  f[s] = SumStep(q, f, s)
  BY DEF Sums

(* The solutions for two sets agree where both are defined. *)
LEMMA SumsAgree ==
  ASSUME NEW q, NEW S, NEW T \in SUBSET S, IsFiniteSet(S),
         NEW f, NEW g, Sums(q, S, f), Sums(q, T, g)
  PROVE  f[T] = g[T]
<1> DEFINE B == {s \in SUBSET T : f[s] # g[s]}
<1>1. B \subseteq SUBSET T /\ IsFiniteSet(T)
  BY FS_Subset
<1>2. ASSUME NEW m \in B, \A t \in B : t \subseteq m => t = m
      PROVE  FALSE
  <2>1. f[m] = SumStep(q, f, m) /\ g[m] = SumStep(q, g, m)
    BY SumsStep
  <2>2. First(m) \in m
    BY <2>1 DEF SumStep, First
  <2>3. f[m \ {First(m)}] = g[m \ {First(m)}]
    BY <1>2, <2>2
  <2> QED BY <2>1, <2>3 DEF SumStep
<1>3. B = {}
  <2> HIDE DEF B
  <2> QED BY <1>1, <1>2, MinimalSet
<1> QED BY <1>3

(* One solution gives the totals of all subsets. *)
LEMMA TotalOfSubset ==
  ASSUME NEW q, NEW S, IsFiniteSet(S), NEW f, Sums(q, S, f), NEW T \in SUBSET S
  PROVE  Total(q, T) = f[T]
<1> DEFINE g == CHOOSE h : Sums(q, T, h)
<1>1. Sums(q, T, g)
  BY SumsExist, FS_Subset
<1>2. f[T] = g[T]
  BY <1>1, SumsAgree
<1> QED BY <1>2, TotalIsSum

(* Nobody holds nothing. *)
LEMMA TotalEmpty ==
  ASSUME NEW q PROVE Total(q, {}) = 0
<1>1. PICK f : Sums(q, {}, f)
  BY SumsExist, FS_EmptySet
<1> QED BY <1>1, FS_EmptySet, TotalOfSubset, SumsStep DEF SumStep

(* Totals of natural numbers are natural numbers. *)
LEMMA TotalNat ==
  ASSUME NEW S, IsFiniteSet(S), NEW q, \A x \in S : q[x] \in Nat
  PROVE  Total(q, S) \in Nat
<1>1. PICK f : Sums(q, S, f)
  BY SumsExist
<1> DEFINE B == {s \in SUBSET S : f[s] \notin Nat}
<1>2. ASSUME NEW m \in B, \A t \in B : t \subseteq m => t = m
      PROVE  FALSE
  <2>1. f[m] = SumStep(q, f, m)
    BY <1>1, SumsStep
  <2>2. First(m) \in m /\ m # {}
    BY <2>1 DEF SumStep, First
  <2>3. f[m \ {First(m)}] \in Nat /\ q[First(m)] \in Nat
    BY <1>2, <2>2
  <2> QED BY <2>1, <2>2, <2>3 DEF SumStep
<1>3. B = {}
  <2>1. B \subseteq SUBSET S
    OBVIOUS
  <2> HIDE DEF B
  <2> QED BY <1>2, <2>1, MinimalSet
<1> QED BY <1>1, <1>3, TotalOfSubset

(* Any element may be the first to be taken off. *)
LEMMA SumsRemove ==
  ASSUME NEW S, IsFiniteSet(S), NEW q, \A x \in S : q[x] \in Nat, NEW f, Sums(q, S, f),
         NEW s \in SUBSET S, NEW x \in s
  PROVE  f[s] = q[x] + f[s \ {x}]
<1> DEFINE B == {t \in SUBSET S : \E y \in t : f[t] # q[y] + f[t \ {y}]}
<1>1. ASSUME NEW m \in B, \A t \in B : t \subseteq m => t = m
      PROVE  FALSE
  <2>1. PICK y \in m : f[m] # q[y] + f[m \ {y}]
    OBVIOUS
  <2>2. PICK z \in m : z = First(m)
    BY <2>1 DEF First
  <2>3. f[m] = q[z] + f[m \ {z}]
    BY <2>2, SumsStep DEF SumStep
  <2>4. y # z
    BY <2>1, <2>3
  <2>5. PICK r \in SUBSET S : r = (m \ {y}) \ {z} /\ r = (m \ {z}) \ {y}
    OBVIOUS
  <2>6. f[m \ {z}] = q[y] + f[r]
    BY <1>1, <2>4, <2>5
  <2>7. f[m \ {y}] = q[z] + f[r]
    BY <1>1, <2>4, <2>5
  <2>8. q[y] \in Nat /\ q[z] \in Nat /\ f[r] \in Nat
    <3>1. Total(q, r) = f[r]
      BY TotalOfSubset
    <3>2. Total(q, r) \in Nat
      BY FS_Subset, TotalNat
    <3> QED BY <3>1, <3>2
  <2> QED BY <2>1, <2>3, <2>6, <2>7, <2>8
<1>2. B = {}
  <2>1. B \subseteq SUBSET S
    OBVIOUS
  <2> HIDE DEF B
  <2> QED BY <1>1, <2>1, MinimalSet
<1> QED BY <1>2

(* One that leaves takes its amount along. *)
LEMMA TotalRemove ==
  ASSUME NEW S, IsFiniteSet(S), NEW q, \A x \in S : q[x] \in Nat, NEW x \in S
  PROVE  Total(q, S) = Total(q, S \ {x}) + q[x]
<1>1. PICK f : Sums(q, S, f)
  BY SumsExist
<1>2. f[S] = q[x] + f[S \ {x}]
  BY <1>1, SumsRemove
<1>3. Total(q, S \ {x}) \in Nat
  BY FS_RemoveElement, TotalNat
<1> QED BY <1>1, <1>2, <1>3, TotalOfSubset

(* One that joins brings its amount along. *)
LEMMA TotalAdd ==
  ASSUME NEW S, IsFiniteSet(S), NEW q, NEW x, x \notin S, \A y \in S \cup {x} : q[y] \in Nat
  PROVE  Total(q, S \cup {x}) = Total(q, S) + q[x]
<1>1. IsFiniteSet(S \cup {x}) /\ (S \cup {x}) \ {x} = S
  BY FS_AddElement
<1> QED BY <1>1, TotalRemove

(* More elements come to no less. *)
LEMMA TotalGrows ==
  ASSUME NEW S, IsFiniteSet(S), NEW q, \A x \in S : q[x] \in Nat, NEW T \in SUBSET S
  PROVE  Total(q, T) <= Total(q, S)
<1> DEFINE B == {s \in SUBSET S : T \subseteq s /\ ~(Total(q, T) <= Total(q, s))}
<1>1. \A s \in SUBSET S : IsFiniteSet(s) /\ Total(q, s) \in Nat
  BY FS_Subset, TotalNat
<1>2. ASSUME NEW m \in B, \A t \in B : t \subseteq m => t = m
      PROVE  FALSE
  <2>1. m # T
    BY <1>1
  <2>2. PICK x \in m : x \notin T
    BY <2>1
  <2>3. m \ {x} \in SUBSET S /\ T \subseteq m \ {x}
    BY <2>2
  <2>4. Total(q, T) <= Total(q, m \ {x})
    BY <1>2, <2>3
  <2>5. Total(q, m) = Total(q, m \ {x}) + q[x]
    BY <1>1, TotalRemove
  <2>6. /\ q[x] \in Nat /\ Total(q, T) \in Nat /\ Total(q, m) \in Nat
        /\ Total(q, m \ {x}) \in Nat
    BY <1>1, <2>3
  <2>7. ~(Total(q, T) <= Total(q, m))
    OBVIOUS
  <2> HIDE DEF B
  <2> QED BY <2>4, <2>5, <2>6, <2>7
<1>3. B = {}
  <2>1. B \subseteq SUBSET S
    OBVIOUS
  <2> HIDE DEF B
  <2> QED BY <1>2, <2>1, MinimalSet
<1> QED BY <1>3
=============================================================================
