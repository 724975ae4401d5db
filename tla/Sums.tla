---- MODULE Sums ----
EXTENDS Naturals, FiniteSets, FiniteSetsExt, FiniteSetTheorems, WellFoundedInduction, TLAPS

-----------------------------------------------------------------------------
(* Sums over finite sets.  MapThenSumSet(LAMBDA x : f[x], T) is the value at T  *)
(* of a function that takes one element at a time; which one depends on the    *)
(* set alone, so that two sums take their elements in the same order.          *)

Total(f, T) == MapThenSumSet(LAMBDA x : f[x], T)
First(s) == CHOOSE x \in s : TRUE
Adds(g, f, T) == g = [s \in SUBSET T |-> IF s = {} THEN 0 ELSE f[First(s)] + g[s \ {First(s)}]]

\* What holds of 0 and of the next number holds of all.
LEMMA NumbersByInduction ==
  ASSUME NEW A \in SUBSET Nat, 0 \in A, \A n \in A : n + 1 \in A
  PROVE  A = Nat
<1> SUFFICES ASSUME Nat \ A # {} PROVE FALSE
  OBVIOUS
<1>1. PICK n \in Nat \ A : \A m \in Nat \ A : ~ (<<m, n>> \in OpToRel(<, Nat))
  BY NatLessThanWellFounded, WFMin, Zenon
<1>2. \A m \in Nat \ A : ~ (m < n)
  BY <1>1 DEF OpToRel
<1>3. n # 0 /\ n \in Nat
  OBVIOUS
<1>4. n - 1 \in Nat /\ n - 1 < n /\ (n - 1) + 1 = n
  BY <1>3
<1>5. n - 1 \in A
  BY <1>2, <1>4
<1> QED
  BY <1>4, <1>5

\* Taking the first element makes a set smaller.
LEMMA FirstIs ==
  ASSUME NEW T, IsFiniteSet(T), NEW s \in SUBSET T, s # {}
  PROVE  /\ First(s) \in s /\ s \ {First(s)} \in SUBSET T
         /\ Cardinality(s) \in Nat \ {0} /\ Cardinality(s \ {First(s)}) = Cardinality(s) - 1
<1>1. First(s) \in s
  BY DEF First
<1>2. IsFiniteSet(s)
  BY FS_Subset
<1>3. Cardinality(s \ {First(s)}) = Cardinality(s) - 1
  BY <1>1, <1>2, FS_RemoveElement
<1>4. Cardinality(s) \in Nat /\ Cardinality(s) # 0
  BY <1>2, FS_CardinalityType, FS_EmptySet
<1> QED
  BY <1>1, <1>3, <1>4

\* What holds of the empty set and, with a set less its first element, of the
\* set, holds of all subsets.
LEMMA SubsetsByInduction ==
  ASSUME NEW T, IsFiniteSet(T), NEW A, {} \in A,
         \A s \in SUBSET T : s # {} /\ s \ {First(s)} \in A => s \in A
  PROVE  \A s \in SUBSET T : s \in A
<1> DEFINE N == {n \in Nat : \A s \in SUBSET T : Cardinality(s) = n => s \in A}
<1>1. 0 \in N
  <2>1. ASSUME NEW s \in SUBSET T, Cardinality(s) = 0 PROVE s \in A
    BY <2>1, FS_Subset, FS_EmptySet
  <2> QED
    BY <2>1
<1>2. ASSUME NEW n \in N PROVE n + 1 \in N
  <2>1. n \in Nat /\ n + 1 \in Nat /\ n + 1 # 0
    OBVIOUS
  <2>2. ASSUME NEW s \in SUBSET T, Cardinality(s) = n + 1 PROVE s \in A
    <3>1. s # {}
      BY <2>1, <2>2, FS_EmptySet
    <3>2. s \ {First(s)} \in SUBSET T /\ Cardinality(s \ {First(s)}) = n
      BY <2>1, <2>2, <3>1, FirstIs
    <3>3. s \ {First(s)} \in A
      BY <3>2
    <3> QED
      BY <3>1, <3>3
  <2> QED
    BY <2>1, <2>2
<1>3. N \in SUBSET Nat
  OBVIOUS
<1> HIDE DEF N
<1>4. N = Nat
  BY <1>1, <1>2, <1>3, NumbersByInduction
<1>5. ASSUME NEW s \in SUBSET T PROVE s \in A
  <2>1. Cardinality(s) \in N
    BY <1>4, FS_Subset, FS_CardinalityType
  <2> QED
    BY <2>1 DEF N
<1> QED
  BY <1>5

\* There is such a function.
LEMMA AddsExists == ASSUME NEW T, IsFiniteSet(T), NEW f PROVE \E g : Adds(g, f, T)
<1> DEFINE Small(n) == {s \in SUBSET T : Cardinality(s) <= n}
           Fits(g, n) == \A s \in Small(n) : g[s] = IF s = {} THEN 0 ELSE f[First(s)] + g[s \ {First(s)}]
           N == {n \in Nat : \E g : g = [s \in SUBSET T |-> g[s]] /\ Fits(g, n)}
<1>1. 0 \in N
  <2> DEFINE g == [s \in SUBSET T |-> 0]
  <2>1. \A s \in Small(0) : s = {}
    BY FS_Subset, FS_EmptySet, FS_CardinalityType
  <2>2. g = [s \in SUBSET T |-> g[s]] /\ Fits(g, 0)
    BY <2>1
  <2> QED
    BY <2>2
<1>2. ASSUME NEW n \in N PROVE n + 1 \in N
  <2>1. PICK g : g = [s \in SUBSET T |-> g[s]] /\ Fits(g, n)
    OBVIOUS
  <2> DEFINE h == [s \in SUBSET T |-> IF s = {} THEN 0 ELSE f[First(s)] + g[s \ {First(s)}]]
  <2>2. n \in Nat
    OBVIOUS
  <2>3. ASSUME NEW s \in Small(n + 1), s # {} PROVE s \ {First(s)} \in Small(n)
    <3>1. s \in SUBSET T /\ Cardinality(s) <= n + 1
      OBVIOUS
    <3>2. /\ s \ {First(s)} \in SUBSET T /\ Cardinality(s) \in Nat
          /\ Cardinality(s \ {First(s)}) = Cardinality(s) - 1
      BY <2>3, <3>1, FirstIs
    <3> QED
      BY <2>2, <3>1, <3>2
  <2>4. \A s \in Small(n) : h[s] = g[s]
    BY <2>1
  <2>5. ASSUME NEW s \in Small(n + 1) PROVE h[s] = IF s = {} THEN 0 ELSE f[First(s)] + h[s \ {First(s)}]
    <3>1. CASE s = {}
      BY <3>1
    <3>2. CASE s # {}
      <4>1. h[s \ {First(s)}] = g[s \ {First(s)}]
        BY <2>3, <2>4, <3>2
      <4>2. h[s] = f[First(s)] + g[s \ {First(s)}]
        BY <3>2
      <4> QED
        BY <3>2, <4>1, <4>2
    <3> QED
      BY <3>1, <3>2
  <2>6. h = [s \in SUBSET T |-> h[s]]
    OBVIOUS
  <2> HIDE DEF h
  <2>7. Fits(h, n + 1)
    BY <2>5
  <2> HIDE DEF Fits
  <2>8. \E h1 : h1 = [s \in SUBSET T |-> h1[s]] /\ Fits(h1, n + 1)
    BY <2>6, <2>7
  <2> QED
    BY <2>2, <2>8
<1>3. N \in SUBSET Nat
  OBVIOUS
<1>4. Cardinality(T) \in N
  <2> HIDE DEF N
  <2>1. N = Nat
    BY <1>1, <1>2, <1>3, NumbersByInduction
  <2> QED
    BY <2>1, FS_CardinalityType
<1>5. PICK g : g = [s \in SUBSET T |-> g[s]] /\ Fits(g, Cardinality(T))
  BY <1>4
<1>6. \A s \in SUBSET T : s \in Small(Cardinality(T))
  BY FS_Subset
<1>7. \A s \in SUBSET T : g[s] = IF s = {} THEN 0 ELSE f[First(s)] + g[s \ {First(s)}]
  BY <1>5, <1>6
<1>8. g = [s \in SUBSET T |-> IF s = {} THEN 0 ELSE f[First(s)] + g[s \ {First(s)}]]
  BY <1>5, <1>7
<1> QED
  BY <1>8 DEF Adds

\* A sum is the value of such a function.
LEMMA TotalAdds ==
  ASSUME NEW T, IsFiniteSet(T), NEW f
  PROVE  \E g : Adds(g, f, T) /\ Total(f, T) = g[T]
<1>1. PICK g : g = (CHOOSE g1 : Adds(g1, f, T))
  OBVIOUS
<1>2. Adds(g, f, T)
  BY <1>1, AddsExists
<1>3. Total(f, T) = (CHOOSE g1 : Adds(g1, f, T))[T]
  BY DEF Total, Adds, First, MapThenSumSet, MapThenFoldSet
<1> QED
  BY <1>1, <1>2, <1>3

\* The sum of numbers is a number...
LEMMA TotalIsNat ==
  ASSUME NEW U, NEW T \in SUBSET U, IsFiniteSet(T), NEW f \in [U -> Nat]
  PROVE  Total(f, T) \in Nat
<1>1. PICK g : Adds(g, f, T) /\ Total(f, T) = g[T]
  BY TotalAdds
<1> DEFINE A == {s \in SUBSET T : g[s] \in Nat}
<1>2. {} \in A
  BY <1>1 DEF Adds
<1>3. ASSUME NEW s \in SUBSET T, s # {}, s \ {First(s)} \in A PROVE s \in A
  <2>1. First(s) \in s
    BY <1>3, FirstIs
  <2>2. g[s] = f[First(s)] + g[s \ {First(s)}]
    BY <1>1, <1>3 DEF Adds
  <2> QED
    BY <1>3, <2>1, <2>2
<1> HIDE DEF A
<1>4. \A s \in SUBSET T : s \in A
  BY <1>2, <1>3, SubsetsByInduction
<1>5. T \in A
  BY <1>4
<1> QED
  BY <1>1, <1>5 DEF A

\* ... 0 when all of them are...
LEMMA TotalOfNothing ==
  ASSUME NEW T, IsFiniteSet(T), NEW f, \A x \in T : f[x] = 0
  PROVE  Total(f, T) = 0
<1>1. PICK g : Adds(g, f, T) /\ Total(f, T) = g[T]
  BY TotalAdds
<1> DEFINE A == {s \in SUBSET T : g[s] = 0}
<1>2. {} \in A
  BY <1>1 DEF Adds
<1>3. ASSUME NEW s \in SUBSET T, s # {}, s \ {First(s)} \in A PROVE s \in A
  <2>1. First(s) \in s
    BY <1>3, FirstIs
  <2>2. g[s] = f[First(s)] + g[s \ {First(s)}]
    BY <1>1, <1>3 DEF Adds
  <2> QED
    BY <1>3, <2>1, <2>2
<1> HIDE DEF A
<1>4. \A s \in SUBSET T : s \in A
  BY <1>2, <1>3, SubsetsByInduction
<1>5. T \in A
  BY <1>4
<1> QED
  BY <1>1, <1>5 DEF A

\* ... and grows by what one of them grows by.
LEMMA TotalGrows ==
  ASSUME NEW T, IsFiniteSet(T), NEW f \in [T -> Nat], NEW a \in T, NEW n \in Nat,
         NEW e \in [T -> Nat], e[a] = f[a] + n, \A x \in T \ {a} : e[x] = f[x]
  PROVE  Total(e, T) = Total(f, T) + n
<1>1. PICK g : Adds(g, f, T) /\ Total(f, T) = g[T]
  BY TotalAdds
<1>2. PICK h : Adds(h, e, T) /\ Total(e, T) = h[T]
  BY TotalAdds
<1> DEFINE A == {s \in SUBSET T : g[s] \in Nat /\ h[s] = g[s] + (IF a \in s THEN n ELSE 0)}
<1>3. {} \in A
  BY <1>1, <1>2 DEF Adds
<1>4. ASSUME NEW s \in SUBSET T, s # {}, s \ {First(s)} \in A PROVE s \in A
  <2>1. PICK x \in s : x = First(s)
    BY <1>4, FirstIs
  <2>2. g[s] = f[x] + g[s \ {x}] /\ h[s] = e[x] + h[s \ {x}]
    BY <1>1, <1>2, <1>4, <2>1 DEF Adds
  <2>3. /\ g[s \ {x}] \in Nat /\ f[x] \in Nat /\ e[x] \in Nat
        /\ h[s \ {x}] = g[s \ {x}] + (IF a \in s \ {x} THEN n ELSE 0)
    BY <1>4, <2>1
  <2>4. CASE x = a
    BY <2>2, <2>3, <2>4
  <2>5. CASE x # a
    <3>1. e[x] = f[x] /\ (a \in s \ {x} <=> a \in s)
      BY <2>5
    <3> QED
      BY <2>2, <2>3, <3>1
  <2> QED
    BY <2>4, <2>5
<1> HIDE DEF A
<1>5. \A s \in SUBSET T : s \in A
  BY <1>3, <1>4, SubsetsByInduction
<1>6. T \in A
  BY <1>5
<1> QED
  BY <1>1, <1>2, <1>6 DEF A
====
