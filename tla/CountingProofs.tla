-------------------------- MODULE CountingProofs --------------------------
(* Facts about numbers, finite sets and sums that other proofs rest on.    *)
EXTENDS Integers, SequencesExt, FiniteSetTheorems, WellFoundedInduction, TLAPS

(* Least elements: induction over the elements of a set, where the library *)
(* states it over a predicate.                                             *)

LEMMA LeastNumber ==
    ASSUME NEW T \in SUBSET Nat, T # {}
    PROVE  \E m \in T : \A k \in T : ~(k < m)
<1>1. \E m \in T : \A k \in T : <<k, m>> \notin OpToRel(<, Nat)
  BY NatLessThanWellFounded, WFMin
<1> QED BY <1>1 DEF OpToRel

\* Among subsets of a finite set there is one that contains no other.
LEMMA LeastSubset ==
    ASSUME NEW S, IsFiniteSet(S), NEW C \in SUBSET SUBSET S, C # {}
    PROVE  \E s \in C : \A x \in s : s \ {x} \notin C
<1> DEFINE sizes == {Cardinality(s) : s \in C}
<1>1. \A s \in C : IsFiniteSet(s) /\ Cardinality(s) \in Nat
  BY FS_Subset, FS_CardinalityType
<1>2. PICK m \in sizes : \A k \in sizes : ~(k < m)
  <2>1. sizes \in SUBSET Nat /\ sizes # {}
    BY <1>1
  <2> HIDE DEF sizes
  <2> QED BY <2>1, LeastNumber
<1>3. PICK s \in C : m = Cardinality(s)
  BY <1>2
<1>4. ASSUME NEW x \in s, s \ {x} \in C PROVE FALSE
  <2>1. Cardinality(s \ {x}) = Cardinality(s) - 1
    BY <1>1, FS_RemoveElement
  <2>2. Cardinality(s \ {x}) \in sizes
    BY <1>4
  <2> HIDE DEF sizes
  <2>3. ~(Cardinality(s) - 1 < Cardinality(s))
    BY <1>2, <1>3, <2>1, <2>2
  <2> QED BY <1>1, <2>3
<1> QED BY <1>4

---------------------------------------------------------------------------
(* Powers of two, by counting subsets.                                     *)

LEMMA PowerCounts ==
    ASSUME NEW n \in Nat
    PROVE  IsFiniteSet(SUBSET (1..n)) /\ Cardinality(SUBSET (1..n)) = 2^n
<1>1. IsFiniteSet(1..n) /\ Cardinality(1..n) = n
  BY FS_Interval
<1> QED BY <1>1, FS_SUBSET

LEMMA PowerType ==
    ASSUME NEW n \in Nat
    PROVE  2^n \in Nat /\ 2^n > 0
<1>1. Cardinality(SUBSET (1..n)) \in Nat
  BY PowerCounts, FS_CardinalityType
<1>2. Cardinality(SUBSET (1..n)) # 0
  <2>1. SUBSET (1..n) # {}
    OBVIOUS
  <2> QED BY <2>1, PowerCounts, FS_EmptySet
<1> QED BY <1>1, <1>2, PowerCounts

LEMMA PowerMonotone ==
    ASSUME NEW m \in Nat, NEW n \in Nat, m <= n
    PROVE  2^m <= 2^n
<1>1. SUBSET (1..m) \in SUBSET SUBSET (1..n)
  OBVIOUS
<1>2. Cardinality(SUBSET (1..m)) <= Cardinality(SUBSET (1..n))
  BY <1>1, PowerCounts, FS_Subset
<1> QED BY <1>2, PowerCounts

\* Half of the subsets of a set contain one given element of it.
LEMMA SubsetsDouble ==
    ASSUME NEW D, IsFiniteSet(D), NEW x, x \notin D
    PROVE  Cardinality(SUBSET (D \cup {x})) = 2 * Cardinality(SUBSET D)
<1> DEFINE A == SUBSET D
           B == {T \cup {x} : T \in A}
           f == [T \in A |-> T \cup {x}]
<1>1. SUBSET (D \cup {x}) = A \cup B
  <2>1. ASSUME NEW T \in SUBSET (D \cup {x}) PROVE T \in A \cup B
    <3>1. CASE x \in T
      <4>1. T \ {x} \in A /\ T = (T \ {x}) \cup {x}
        BY <3>1
      <4> QED BY <4>1
    <3>2. CASE x \notin T
      BY <3>2
    <3> QED BY <3>1, <3>2
  <2>2. ASSUME NEW T \in A PROVE T \in SUBSET (D \cup {x}) /\ T \cup {x} \in SUBSET (D \cup {x})
    OBVIOUS
  <2>3. A \cup B \subseteq SUBSET (D \cup {x})
    BY <2>2
  <2> QED BY <2>1, <2>3
<1>2. A \cap B = {}
  OBVIOUS
<1>3. f \in Bijection(A, B)
  <2>1. \A S, T \in A : S \cup {x} = T \cup {x} => S = T
    <3> SUFFICES ASSUME NEW S \in A, NEW T \in A, S \cup {x} = T \cup {x} PROVE S = T
      OBVIOUS
    <3>1. \A y \in D : y \in S <=> y \in T
      OBVIOUS
    <3> QED BY <3>1
  <2>2. f \in Injection(A, B)
    <3>1. f \in [A -> B] /\ \A S \in A : f[S] = S \cup {x}
      OBVIOUS
    <3> HIDE DEF f, A, B
    <3> QED BY <2>1, <3>1 DEF Injection, IsInjective
  <2>3. f \in Surjection(A, B)
    BY DEF Surjection
  <2> QED BY <2>2, <2>3 DEF Bijection
<1>4. IsFiniteSet(A) /\ Cardinality(A) \in Nat
  BY FS_SUBSET, FS_CardinalityType
<1> HIDE DEF A, B, f
<1>5. IsFiniteSet(B) /\ Cardinality(B) = Cardinality(A)
  BY <1>3, <1>4, FS_Bijection DEF ExistsBijection
<1>6. Cardinality(A \cup B) = Cardinality(A) + Cardinality(B) - Cardinality(A \cap B)
  BY <1>4, <1>5, FS_Union
<1>7. Cardinality(A \cap B) = 0
  BY <1>2, FS_EmptySet
<1>8. Cardinality(A \cup B) = 2 * Cardinality(A)
  BY <1>4, <1>5, <1>6, <1>7
<1> QED BY <1>1, <1>8 DEF A

LEMMA PowerDoubles ==
    ASSUME NEW n \in Nat
    PROVE  2^(n+1) = 2 * 2^n
<1>1. IsFiniteSet(1..n) /\ n+1 \notin 1..n
  BY FS_Interval
<1>2. Cardinality(SUBSET ((1..n) \cup {n+1})) = 2 * Cardinality(SUBSET (1..n))
  BY <1>1, SubsetsDouble
<1>3. (1..n) \cup {n+1} = 1..n+1
  OBVIOUS
<1>4. Cardinality(SUBSET (1..n)) = 2^n
  BY PowerCounts
<1>5. Cardinality(SUBSET (1..n+1)) = 2^(n+1)
  <2>1. n+1 \in Nat
    OBVIOUS
  <2> QED BY <2>1, PowerCounts
<1> QED BY <1>2, <1>3, <1>4, <1>5

---------------------------------------------------------------------------
(* Sums over finite sets.                                                  *)

\* The function by which the library computes the sum of f over S.
SumBy(g, f, S) ==
    g = [s \in SUBSET S |->
            IF s = {} THEN 0
            ELSE LET x == CHOOSE x \in s : TRUE IN f[x] + g[s \ {x}]]

LEMMA SumByStep ==
    ASSUME NEW f, NEW S, NEW g, SumBy(g, f, S), NEW s \in SUBSET S
    PROVE  /\ s = {} => g[s] = 0
           /\ s # {} => \E x \in s : x = (CHOOSE y \in s : TRUE) /\ g[s] = f[x] + g[s \ {x}]
<1> DEFINE x == CHOOSE y \in s : TRUE
<1>1. g[s] = IF s = {} THEN 0 ELSE f[x] + g[s \ {x}]
  BY DEF SumBy
<1>2. s # {} => x \in s
  OBVIOUS
<1> HIDE DEF x
<1>3. s # {} => x \in s /\ x = x /\ g[s] = f[x] + g[s \ {x}]
  BY <1>1, <1>2
<1> QED BY <1>1, <1>3 DEF x

\* There is such a function: it is built for larger and larger subsets.
LEMMA SumByExists ==
    ASSUME NEW f, NEW S, IsFiniteSet(S)
    PROVE  \E g : SumBy(g, f, S)
<1> DEFINE D(n) == {s \in SUBSET S : Cardinality(s) <= n}
           Val(g, s) == IF s = {} THEN 0
                        ELSE LET x == CHOOSE x \in s : TRUE IN f[x] + g[s \ {x}]
           P(n) == \E g : g = [s \in D(n) |-> Val(g, s)]
           Bad == {n \in Nat : ~P(n)}
<1>1. \A s \in SUBSET S : IsFiniteSet(s) /\ Cardinality(s) \in Nat
  BY FS_Subset, FS_CardinalityType
<1>2. \A s \in SUBSET S : s # {} =>
        LET x == CHOOSE x \in s : TRUE IN
        s \ {x} \in SUBSET S /\ Cardinality(s \ {x}) = Cardinality(s) - 1
  BY <1>1, FS_RemoveElement
<1>3. Bad = {}
  <2> SUFFICES ASSUME Bad # {} PROVE FALSE
    OBVIOUS
  <2>1. PICK m \in Bad : \A k \in Bad : ~(k < m)
    <3>1. Bad \in SUBSET Nat
      OBVIOUS
    <3> HIDE DEF Bad
    <3> QED BY <3>1, LeastNumber
  <2>2. CASE m = 0
    <3> DEFINE g == [s \in D(m) |-> 0]
    <3>1. \A s \in D(m) : s = {}
      BY <1>1, <2>2, FS_EmptySet
    <3>2. \A s \in D(m) : Val(g, s) = 0
      BY <3>1
    <3>3. g = [s \in D(m) |-> Val(g, s)]
      <4> HIDE DEF D, Val
      <4> QED BY <3>2
    <3>4. P(m)
      <4> HIDE DEF g, D, Val
      <4> QED BY <3>3
    <3> QED BY <2>1, <3>4
  <2>3. CASE m # 0
    <3>1. m - 1 \in Nat /\ m - 1 < m
      BY <2>3
    <3>2. P(m - 1)
      BY <2>1, <3>1
    <3>3. PICK h : h = [s \in D(m - 1) |-> Val(h, s)]
      BY <3>2
    <3> DEFINE g == [s \in D(m) |-> Val(h, s)]
    <3>4. \A s \in D(m - 1) : s \in D(m) /\ h[s] = Val(h, s)
      <4>1. \A s \in D(m - 1) : s \in D(m)
        BY <1>1
      <4> HIDE DEF D, Val
      <4> QED BY <3>3, <4>1
    <3>5. \A s \in D(m - 1) : g[s] = h[s]
      <4> HIDE DEF D, Val
      <4> QED BY <3>4
    <3>6. \A s \in D(m) : s # {} => s \ {CHOOSE x \in s : TRUE} \in D(m - 1)
      BY <1>1, <1>2
    <3>7. \A s \in D(m) : Val(g, s) = Val(h, s)
      <4> SUFFICES ASSUME NEW s \in D(m), s # {} PROVE Val(g, s) = Val(h, s)
        OBVIOUS
      <4> DEFINE x == CHOOSE x \in s : TRUE
      <4>1. g[s \ {x}] = h[s \ {x}]
        <5> HIDE DEF g, D
        <5> QED BY <3>5, <3>6
      <4> HIDE DEF g
      <4> QED BY <4>1
    <3>8. g = [s \in D(m) |-> Val(g, s)]
      <4> HIDE DEF D, Val
      <4> QED BY <3>7
    <3>9. P(m)
      <4> HIDE DEF g, D, Val
      <4> QED BY <3>8
    <3> QED BY <2>1, <3>9
  <2> QED BY <2>2, <2>3
<1>4. Cardinality(S) \in Nat /\ D(Cardinality(S)) = SUBSET S
  <2>1. \A s \in SUBSET S : Cardinality(s) <= Cardinality(S)
    BY FS_Subset
  <2> QED BY <1>1, <2>1
<1>5. P(Cardinality(S))
  <2> HIDE DEF P
  <2> QED BY <1>3, <1>4
<1>6. PICK g : g = [s \in D(Cardinality(S)) |-> Val(g, s)]
  BY <1>5
<1>7. g = [s \in SUBSET S |-> Val(g, s)]
  <2> HIDE DEF D, Val
  <2> QED BY <1>4, <1>6
<1>8. SumBy(g, f, S)
  BY <1>7 DEF SumBy
<1> QED BY <1>8

\* It does not depend on the rest of the set, nor of the function.
LEMMA SumByAgrees ==
    ASSUME NEW f, NEW e, NEW S, IsFiniteSet(S), NEW T \in SUBSET S, NEW g, NEW h,
           SumBy(g, f, S), SumBy(h, e, T), \A x \in T : f[x] = e[x]
    PROVE  h[T] = g[T]
<1> DEFINE C == {s \in SUBSET T : h[s] # g[s]}
<1>1. C = {}
  <2> SUFFICES ASSUME C # {} PROVE FALSE
    OBVIOUS
  <2>1. C \in SUBSET SUBSET S
    OBVIOUS
  <2>2. PICK s \in C : \A x \in s : s \ {x} \notin C
    <3> HIDE DEF C
    <3> QED BY <2>1, LeastSubset
  <2>3. s \in SUBSET T /\ s \in SUBSET S
    OBVIOUS
  <2>4. s # {}
    <3> SUFFICES ASSUME s = {} PROVE FALSE
      OBVIOUS
    <3>1. h[s] = 0 /\ g[s] = 0
      BY <2>3, SumByStep
    <3> QED BY <3>1
  <2>5. PICK x \in s : x = (CHOOSE y \in s : TRUE) /\ h[s] = e[x] + h[s \ {x}]
    BY <2>3, <2>4, SumByStep
  <2>6. g[s] = f[x] + g[s \ {x}]
    <3>1. PICK z \in s : z = (CHOOSE y \in s : TRUE) /\ g[s] = f[z] + g[s \ {z}]
      BY <2>3, <2>4, SumByStep
    <3>2. z = x
      BY <2>5, <3>1
    <3> QED BY <3>1, <3>2
  <2>7. h[s \ {x}] = g[s \ {x}]
    BY <2>2, <2>3, <2>5
  <2>8. f[x] = e[x]
    BY <2>3, <2>5
  <2> QED BY <2>5, <2>6, <2>7, <2>8
<1> QED BY <1>1

\* Nor on the order.
LEMMA SumByRemove ==
    ASSUME NEW f, NEW S, IsFiniteSet(S), NEW g, SumBy(g, f, S), \A x \in S : f[x] \in Int
    PROVE  \A s \in SUBSET S : /\ g[s] \in Int
                              /\ \A x \in s : g[s] = f[x] + g[s \ {x}]
<1>1. \A s \in SUBSET S : g[s] \in Int
  <2> DEFINE C == {s \in SUBSET S : g[s] \notin Int}
  <2> SUFFICES ASSUME C # {} PROVE FALSE
    OBVIOUS
  <2>1. C \in SUBSET SUBSET S
    OBVIOUS
  <2>2. PICK s \in C : \A x \in s : s \ {x} \notin C
    <3> HIDE DEF C
    <3> QED BY <2>1, LeastSubset
  <2>3. CASE s = {}
    BY <2>3, SumByStep
  <2>4. CASE s # {}
    <3>1. PICK x \in s : g[s] = f[x] + g[s \ {x}]
      BY <2>4, SumByStep
    <3>2. g[s \ {x}] \in Int /\ f[x] \in Int
      BY <2>2
    <3> QED BY <3>1, <3>2
  <2> QED BY <2>3, <2>4
<1>2. \A s \in SUBSET S : \A x \in s : g[s] = f[x] + g[s \ {x}]
  <2> DEFINE OK(s) == \A x \in s : g[s] = f[x] + g[s \ {x}]
             C == {s \in SUBSET S : ~OK(s)}
  <2> SUFFICES ASSUME C # {} PROVE FALSE
    OBVIOUS
  <2>1. C \in SUBSET SUBSET S
    OBVIOUS
  <2>2. PICK s \in C : \A x \in s : s \ {x} \notin C
    <3> HIDE DEF C
    <3> QED BY <2>1, LeastSubset
  <2>3. s \in SUBSET S /\ \A x \in s : OK(s \ {x})
    <3> HIDE DEF OK
    <3> QED BY <2>2
  <2>4. PICK x \in s : g[s] # f[x] + g[s \ {x}]
    OBVIOUS
  <2> HIDE DEF C
  <2>5. PICK y \in s : g[s] = f[y] + g[s \ {y}]
    <3>1. s # {}
      BY <2>4
    <3> QED BY <2>3, <3>1, SumByStep
  <2>6. x # y
    BY <2>4, <2>5
  <2>7. g[s \ {y}] = f[x] + g[(s \ {y}) \ {x}]
    BY <2>3, <2>6
  <2>8. g[s \ {x}] = f[y] + g[(s \ {y}) \ {x}]
    <3>1. (s \ {x}) \ {y} = (s \ {y}) \ {x}
      OBVIOUS
    <3> QED BY <2>3, <2>6, <3>1
  <2>9. f[x] \in Int /\ f[y] \in Int /\ g[(s \ {y}) \ {x}] \in Int
    BY <1>1, <2>3
  <2> QED BY <2>4, <2>5, <2>7, <2>8, <2>9
<1> QED BY <1>1, <1>2

LEMMA SumIsBy ==
    ASSUME NEW f, NEW S, IsFiniteSet(S)
    PROVE  \E g : SumBy(g, f, S) /\ SumFunctionOnSet(f, S) = g[S]
<1>1. PICK g : SumBy(g, f, S)
  BY SumByExists
<1> QED BY <1>1 DEF SumFunctionOnSet, FoldFunctionOnSet, MapThenFoldSet, SumBy

---------------------------------------------------------------------------
(* What is used of the sums.                                               *)

LEMMA SumEmpty == ASSUME NEW f PROVE SumFunctionOnSet(f, {}) = 0
<1>1. IsFiniteSet({})
  BY FS_EmptySet
<1>2. PICK g : SumBy(g, f, {}) /\ SumFunctionOnSet(f, {}) = g[{}]
  BY <1>1, SumIsBy
<1>3. {} \in SUBSET {}
  OBVIOUS
<1> QED BY <1>2, <1>3, SumByStep

LEMMA SumType ==
    ASSUME NEW f, NEW S, IsFiniteSet(S), \A x \in S : f[x] \in Int
    PROVE  SumFunctionOnSet(f, S) \in Int
<1>1. PICK g : SumBy(g, f, S) /\ SumFunctionOnSet(f, S) = g[S]
  BY SumIsBy
<1>2. g[S] \in Int
  BY <1>1, SumByRemove
<1> QED BY <1>1, <1>2

LEMMA SumSame ==
    ASSUME NEW f, NEW e, NEW S, IsFiniteSet(S), \A x \in S : f[x] = e[x]
    PROVE  SumFunctionOnSet(f, S) = SumFunctionOnSet(e, S)
<1>1. PICK g : SumBy(g, f, S) /\ SumFunctionOnSet(f, S) = g[S]
  BY SumIsBy
<1>2. PICK h : SumBy(h, e, S) /\ SumFunctionOnSet(e, S) = h[S]
  BY SumIsBy
<1>3. S \in SUBSET S
  OBVIOUS
<1>4. h[S] = g[S]
  BY <1>1, <1>2, <1>3, SumByAgrees
<1> QED BY <1>1, <1>2, <1>4

LEMMA SumRemove ==
    ASSUME NEW f, NEW S, IsFiniteSet(S), \A x \in S : f[x] \in Int, NEW x \in S
    PROVE  SumFunctionOnSet(f, S) = f[x] + SumFunctionOnSet(f, S \ {x})
<1>1. PICK g : SumBy(g, f, S) /\ SumFunctionOnSet(f, S) = g[S]
  BY SumIsBy
<1>2. IsFiniteSet(S \ {x}) /\ S \ {x} \in SUBSET S
  BY FS_RemoveElement
<1>3. PICK h : SumBy(h, f, S \ {x}) /\ SumFunctionOnSet(f, S \ {x}) = h[S \ {x}]
  BY <1>2, SumIsBy
<1>4. h[S \ {x}] = g[S \ {x}]
  BY <1>1, <1>2, <1>3, SumByAgrees
<1>5. g[S] = f[x] + g[S \ {x}]
  BY <1>1, SumByRemove
<1> QED BY <1>1, <1>3, <1>4, <1>5
===========================================================================
