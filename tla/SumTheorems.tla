------------------------------ MODULE SumTheorems ------------------------------
(***************************************************************************)
(* What MapThenSumSet computes for every finite set of elements: a sum in  *)
(* which the order does not count, which can be taken by parts and by      *)
(* classes. The pages of Reports are such sums. Numbers and finite sets    *)
(* are gone through with sets, T and P below, that are closed under adding *)
(* one or an element.                                                      *)
(***************************************************************************)
EXTENDS Integers, FiniteSets, FiniteSetsExt, FiniteSetTheorems, WellFoundedInduction, TLAPS

-----------------------------------------------------------------------------
(* Induction.                                                              *)

LEMMA AllNumbers ==
    ASSUME NEW T, 0 \in T, \A n \in Nat : n \in T => n + 1 \in T
    PROVE  \A n \in Nat : n \in T
<1> SUFFICES ASSUME Nat \ T # {} PROVE FALSE
  OBVIOUS
<1>1. PICK n \in Nat \ T : \A m \in Nat \ T : ~(<<m, n>> \in OpToRel(<, Nat))
  BY NatLessThanWellFounded, WFMin
<1>2. \A m \in Nat \ T : ~(m < n)
  BY <1>1 DEF OpToRel
<1>3. n # 0 /\ n - 1 \in Nat
  OBVIOUS
<1>4. n - 1 \in T
  BY <1>2, <1>3
<1>5. (n - 1) + 1 \in T
  BY <1>3, <1>4
<1> QED
  BY <1>5

\* A family of sets with the empty one and, with a set, the one with another element of D,
\* has all subsets of D.
LEMMA AllSubsets ==
    ASSUME NEW D, IsFiniteSet(D), NEW P, {} \in P,
           \A s \in SUBSET D, x \in D : s \in P /\ x \notin s => s \cup {x} \in P
    PROVE  \A s \in SUBSET D : s \in P
<1> DEFINE T == {n \in Nat : \A s \in SUBSET D : Cardinality(s) = n => s \in P}
<1>1. \A s \in SUBSET D : IsFiniteSet(s) /\ Cardinality(s) \in Nat
  BY FS_Subset, FS_CardinalityType
<1>2. 0 \in T
  BY <1>1, FS_EmptySet
<1>3. ASSUME NEW n \in Nat, n \in T
      PROVE  n + 1 \in T
  <2> SUFFICES ASSUME NEW s \in SUBSET D, Cardinality(s) = n + 1
               PROVE  s \in P
    OBVIOUS
  <2>1. PICK x : x \in s
    BY <1>1, FS_EmptySet
  <2>2. Cardinality(s \ {x}) = n
    <3>1. Cardinality(s \ {x}) = Cardinality(s) - 1
      BY <1>1, <2>1, FS_RemoveElement
    <3> QED
      BY <3>1
  <2>3. s \ {x} \in P
    BY <1>3, <2>2
  <2>4. s = (s \ {x}) \cup {x}
    BY <2>1
  <2> QED
    BY <2>1, <2>3, <2>4
<1> HIDE DEF T
<1>4. \A n \in Nat : n \in T
  BY <1>2, <1>3, AllNumbers
<1> QED
  BY <1>1, <1>4 DEF T

-----------------------------------------------------------------------------
(* The recursion of MapThenSumSet.                                         *)

Sum(h, S) == MapThenSumSet(LAMBDA x : h[x], S)

Picked(s) == CHOOSE x \in s : TRUE
Adds(g, h, s) == g[s] = IF s = {} THEN 0 ELSE h[Picked(s)] + g[s \ {Picked(s)}]
Counts(g, h, S) == \A s \in SUBSET S : Adds(g, h, s)

Iterates(g, h, S) == g = [s \in SUBSET S |-> IF s = {} THEN 0
                                             ELSE h[Picked(s)] + g[s \ {Picked(s)}]]

LEMMA SomeIteration ==
    ASSUME NEW h, NEW S, IsFiniteSet(S)
    PROVE  \E g : Iterates(g, h, S)
<1> DEFINE T == {n \in Nat : \E g : \A s \in SUBSET S : Cardinality(s) <= n => Adds(g, h, s)}
           Next(g) == [s \in SUBSET S |-> IF s = {} THEN 0
                                          ELSE h[Picked(s)] + g[s \ {Picked(s)}]]
<1>1. \A s \in SUBSET S : /\ IsFiniteSet(s) /\ Cardinality(s) \in Nat
                          /\ Cardinality(s) <= Cardinality(S)
  BY FS_Subset, FS_CardinalityType
<1>2. \A s \in SUBSET S : s # {} => Picked(s) \in s
  BY DEF Picked
<1>3. \A s \in SUBSET S : s # {} => Cardinality(s \ {Picked(s)}) = Cardinality(s) - 1
  BY <1>1, <1>2, FS_RemoveElement
<1>4. \A g : \A s \in SUBSET S :
        Next(g)[s] = IF s = {} THEN 0 ELSE h[Picked(s)] + g[s \ {Picked(s)}]
  OBVIOUS
<1> HIDE DEF Next
<1>5. 0 \in T
  <2>1. \A s \in SUBSET S : Cardinality(s) <= 0 => s = {}
    BY <1>1, FS_EmptySet
  <2>2. \A s \in SUBSET S : Cardinality(s) <= 0 => Adds(Next(0), h, s)
    BY <1>4, <2>1 DEF Adds
  <2> QED
    BY <2>2
<1>6. ASSUME NEW n \in Nat, n \in T
      PROVE  n + 1 \in T
  <2>1. PICK g : \A s \in SUBSET S : Cardinality(s) <= n => Adds(g, h, s)
    BY <1>6
  <2>2. ASSUME NEW s \in SUBSET S, Cardinality(s) <= n + 1
        PROVE  Adds(Next(g), h, s)
    <3>1. CASE s = {}
      BY <1>4, <3>1 DEF Adds
    <3>2. CASE s # {}
      <4> DEFINE r == s \ {Picked(s)}
      <4>1. r \in SUBSET S /\ Cardinality(r) <= n
        BY <1>1, <1>3, <2>2, <3>2
      <4>2. Adds(g, h, r)
        BY <2>1, <4>1
      <4>3. Next(g)[r] = g[r]
        BY <1>4, <4>1, <4>2 DEF Adds
      <4> QED
        BY <1>4, <3>2, <4>3 DEF Adds
    <3> QED
      BY <3>1, <3>2
  <2> QED
    BY <2>2
<1> HIDE DEF T
<1>7. Cardinality(S) \in T
  BY <1>5, <1>6, AllNumbers, FS_CardinalityType
<1>8. PICK g : \A s \in SUBSET S : Adds(g, h, s)
  BY <1>1, <1>7 DEF T
<1>9. ASSUME NEW s \in SUBSET S
      PROVE  Next(g)[s] = Next(Next(g))[s]
  <2>1. \A r \in SUBSET S : Next(g)[r] = g[r]
    BY <1>4, <1>8 DEF Adds
  <2> QED
    BY <1>4, <2>1
<1>10. Next(g) = Next(Next(g))
  BY <1>9 DEF Next
<1> QED
  BY <1>10 DEF Next, Iterates

\* Two that count alike agree.
LEMMA OneIteration ==
    ASSUME NEW h, NEW S, IsFiniteSet(S), NEW f, NEW g,
           Counts(f, h, S), Counts(g, h, S)
    PROVE  \A s \in SUBSET S : f[s] = g[s]
<1> DEFINE T == {n \in Nat : \A s \in SUBSET S : Cardinality(s) = n => f[s] = g[s]}
<1>1. \A s \in SUBSET S : IsFiniteSet(s) /\ Cardinality(s) \in Nat
  BY FS_Subset, FS_CardinalityType
<1>2. 0 \in T
  BY <1>1, FS_EmptySet DEF Adds, Counts
<1>3. ASSUME NEW n \in Nat, n \in T
      PROVE  n + 1 \in T
  <2> SUFFICES ASSUME NEW s \in SUBSET S, Cardinality(s) = n + 1
               PROVE  f[s] = g[s]
    OBVIOUS
  <2>1. s # {}
    BY FS_EmptySet
  <2>2. Picked(s) \in s
    BY <2>1 DEF Picked
  <2>3. Cardinality(s \ {Picked(s)}) = n
    <3>1. Cardinality(s \ {Picked(s)}) = Cardinality(s) - 1
      BY <1>1, <2>2, FS_RemoveElement
    <3> QED
      BY <3>1
  <2>4. f[s \ {Picked(s)}] = g[s \ {Picked(s)}]
    BY <1>3, <2>3
  <2> QED
    BY <2>1, <2>4 DEF Adds, Counts
<1> HIDE DEF T
<1>4. \A n \in Nat : n \in T
  BY <1>2, <1>3, AllNumbers
<1> QED
  BY <1>1, <1>4 DEF T

\* The sum is the value of an iteration over the subsets, the same for all of them.
LEMMA SumIterates ==
    ASSUME NEW h, NEW S, IsFiniteSet(S)
    PROVE  \E g : Counts(g, h, S) /\ \A s \in SUBSET S : Sum(h, s) = g[s]
<1> DEFINE It(R) == CHOOSE g : Iterates(g, h, R)
<1>1. \A R : Sum(h, R) = It(R)[R]
  BY DEF Sum, MapThenSumSet, MapThenFoldSet, Picked, Iterates
<1>2. ASSUME NEW R \in SUBSET S
      PROVE  Counts(It(R), h, R)
  <2>1. IsFiniteSet(R)
    BY FS_Subset
  <2>2. \E g : Iterates(g, h, R)
    BY <2>1, SomeIteration
  <2>3. Iterates(It(R), h, R)
    BY <2>2
  <2> HIDE DEF It
  <2>4. It(R) = [s \in SUBSET R |-> IF s = {} THEN 0
                                    ELSE h[Picked(s)] + It(R)[s \ {Picked(s)}]]
    BY <2>3 DEF Iterates
  <2> QED
    BY <2>4 DEF Adds, Counts
<1> HIDE DEF It
<1>3. ASSUME NEW R \in SUBSET S
      PROVE  It(R)[R] = It(S)[R]
  <2>1. IsFiniteSet(R) /\ R \in SUBSET R /\ S \in SUBSET S
    BY FS_Subset
  <2>2. Counts(It(R), h, R) /\ Counts(It(S), h, R)
    BY <1>2, <2>1 DEF Counts
  <2> QED
    BY <2>1, <2>2, OneIteration
<1> QED
  BY <1>1, <1>2, <1>3

LEMMA SumUnfolds ==
    ASSUME NEW h, NEW S, IsFiniteSet(S)
    PROVE  /\ Sum(h, {}) = 0
           /\ S # {} => Sum(h, S) = h[Picked(S)] + Sum(h, S \ {Picked(S)})
<1>1. PICK g : Counts(g, h, S) /\ \A s \in SUBSET S : Sum(h, s) = g[s]
  BY SumIterates
<1>2. {} \in SUBSET S /\ S \in SUBSET S /\ S \ {Picked(S)} \in SUBSET S
  OBVIOUS
<1> QED
  BY <1>1, <1>2 DEF Adds, Counts

\* Whoever counts like this gets the sum.
LEMMA CountsAsSum ==
    ASSUME NEW h, NEW S, IsFiniteSet(S), NEW count, Counts(count, h, S)
    PROVE  count[S] = Sum(h, S)
<1>1. PICK it : Counts(it, h, S) /\ \A s \in SUBSET S : Sum(h, s) = it[s]
  BY SumIterates
<1>2. S \in SUBSET S /\ Counts(it, h, S) /\ Counts(count, h, S) /\ IsFiniteSet(S)
  BY <1>1
<1>3. \A s \in SUBSET S : it[s] = count[s]
  BY ONLY <1>2, OneIteration
<1> QED
  BY <1>1, <1>2, <1>3

-----------------------------------------------------------------------------
(* Sums of integers.                                                       *)

LEMMA SumType ==
    ASSUME NEW S, IsFiniteSet(S), NEW h, \A x \in S : h[x] \in Int
    PROVE  Sum(h, S) \in Int
<1> DEFINE T == {n \in Nat : \A s \in SUBSET S : Cardinality(s) = n => Sum(h, s) \in Int}
<1>1. \A s \in SUBSET S : IsFiniteSet(s) /\ Cardinality(s) \in Nat
  BY FS_Subset, FS_CardinalityType
<1>2. 0 \in T
  <2>1. Sum(h, {}) = 0
    BY SumUnfolds
  <2> QED
    BY <1>1, <2>1, FS_EmptySet
<1>3. ASSUME NEW n \in Nat, n \in T
      PROVE  n + 1 \in T
  <2> SUFFICES ASSUME NEW s \in SUBSET S, Cardinality(s) = n + 1
               PROVE  Sum(h, s) \in Int
    OBVIOUS
  <2>1. s # {}
    BY FS_EmptySet
  <2>2. Picked(s) \in s
    BY <2>1 DEF Picked
  <2>3. Cardinality(s \ {Picked(s)}) = n
    <3>1. Cardinality(s \ {Picked(s)}) = Cardinality(s) - 1
      BY <1>1, <2>2, FS_RemoveElement
    <3> QED
      BY <3>1
  <2>4. Sum(h, s \ {Picked(s)}) \in Int
    BY <1>3, <2>3
  <2> QED
    BY <1>1, <2>1, <2>2, <2>4, SumUnfolds
<1> HIDE DEF T
<1>4. \A n \in Nat : n \in T
  BY <1>2, <1>3, AllNumbers
<1> QED
  BY <1>1, <1>4 DEF T

\* Any element may be taken out first.
LEMMA SumRemoves ==
    ASSUME NEW S, IsFiniteSet(S), NEW h, \A x \in S : h[x] \in Int
    PROVE  \A x \in S : Sum(h, S) = h[x] + Sum(h, S \ {x})
<1> DEFINE T == {n \in Nat : \A s \in SUBSET S : Cardinality(s) = n =>
                               \A x \in s : Sum(h, s) = h[x] + Sum(h, s \ {x})}
<1>1. \A s \in SUBSET S : IsFiniteSet(s) /\ Cardinality(s) \in Nat /\ Sum(h, s) \in Int
  BY FS_Subset, FS_CardinalityType, SumType
<1>2. 0 \in T
  BY <1>1, FS_EmptySet
<1>3. ASSUME NEW n \in Nat, n \in T
      PROVE  n + 1 \in T
  <2> SUFFICES ASSUME NEW s \in SUBSET S, Cardinality(s) = n + 1, NEW x \in s
               PROVE  Sum(h, s) = h[x] + Sum(h, s \ {x})
    OBVIOUS
  <2> DEFINE y == Picked(s)
  <2>1. y \in s
    BY DEF Picked
  <2>2. Sum(h, s) = h[y] + Sum(h, s \ {y})
    BY <1>1, SumUnfolds
  <2> HIDE DEF y
  <2>3. CASE x = y
    BY <2>2, <2>3
  <2>4. CASE x # y
    <3>1. \A z \in s : Cardinality(s \ {z}) = n
      <4> SUFFICES ASSUME NEW z \in s PROVE Cardinality(s \ {z}) = n
        OBVIOUS
      <4>1. Cardinality(s \ {z}) = Cardinality(s) - 1
        BY <1>1, FS_RemoveElement
      <4> QED
        BY <4>1
    <3>2. Sum(h, s \ {y}) = h[x] + Sum(h, (s \ {y}) \ {x})
      BY <1>3, <2>1, <2>4, <3>1
    <3>3. Sum(h, s \ {x}) = h[y] + Sum(h, (s \ {x}) \ {y})
      BY <1>3, <2>1, <2>4, <3>1
    <3>4. (s \ {y}) \ {x} = (s \ {x}) \ {y}
      OBVIOUS
    <3> DEFINE rest == Sum(h, (s \ {x}) \ {y})
    <3>5. h[x] \in Int /\ h[y] \in Int /\ rest \in Int
      BY <1>1, <2>1
    <3>6. Sum(h, s) = h[y] + (h[x] + rest) /\ Sum(h, s \ {x}) = h[y] + rest
      BY <2>2, <3>2, <3>3, <3>4
    <3> HIDE DEF rest
    <3> QED
      BY <3>5, <3>6
  <2> QED
    BY <2>3, <2>4
<1> HIDE DEF T
<1>4. \A n \in Nat : n \in T
  BY <1>2, <1>3, AllNumbers
<1> QED
  BY <1>1, <1>4 DEF T

LEMMA SumAdds ==
    ASSUME NEW S, IsFiniteSet(S), NEW h, \A z \in S : h[z] \in Int, NEW x, x \notin S, h[x] \in Int
    PROVE  Sum(h, S \cup {x}) = h[x] + Sum(h, S)
<1> PICK R : R = S \cup {x}
  OBVIOUS
<1>1. IsFiniteSet(R) /\ R \ {x} = S /\ x \in R /\ \A z \in R : h[z] \in Int
  BY FS_AddElement
<1> QED
  BY <1>1, SumRemoves

LEMMA SumOfParts ==
    ASSUME NEW S, IsFiniteSet(S), NEW h, \A x \in S : h[x] \in Int,
           NEW A \in SUBSET S
    PROVE  Sum(h, S) = Sum(h, A) + Sum(h, S \ A)
<1> DEFINE P == {a \in SUBSET S : Sum(h, S) = Sum(h, a) + Sum(h, S \ a)}
<1>1. \A s \in SUBSET S : IsFiniteSet(s) /\ Sum(h, s) \in Int /\ \A x \in s : h[x] \in Int
  BY FS_Subset, SumType
<1>2. {} \in P
  <2>1. Sum(h, {}) = 0 /\ S \ {} = S
    BY SumUnfolds
  <2> QED
    BY <1>1, <2>1
<1>3. ASSUME NEW s \in SUBSET S, NEW x \in S, s \in P, x \notin s
      PROVE  s \cup {x} \in P
  <2>1. Sum(h, s \cup {x}) = h[x] + Sum(h, s)
    BY <1>1, <1>3, SumAdds
  <2>2. x \in S \ s /\ S \ s \in SUBSET S /\ (S \ s) \ {x} = S \ (s \cup {x})
    BY <1>3
  <2>3. Sum(h, S \ s) = h[x] + Sum(h, S \ (s \cup {x}))
    BY <1>1, <2>2, SumRemoves
  <2>4. /\ s \cup {x} \in SUBSET S /\ h[x] \in Int /\ Sum(h, s) \in Int
        /\ Sum(h, S \ (s \cup {x})) \in Int /\ Sum(h, S) = Sum(h, s) + Sum(h, S \ s)
    BY <1>1, <1>3
  <2> QED
    BY <2>1, <2>3, <2>4
<1> HIDE DEF P
<1>4. A \in P
  BY <1>2, <1>3, AllSubsets
<1> QED
  BY <1>4 DEF P

LEMMA SameSum ==
    ASSUME NEW S, IsFiniteSet(S), NEW h, NEW k, \A x \in S : h[x] \in Int /\ h[x] = k[x]
    PROVE  Sum(h, S) = Sum(k, S)
<1> DEFINE P == {s \in SUBSET S : Sum(h, s) = Sum(k, s)}
<1>1. \A s \in SUBSET S : IsFiniteSet(s) /\ \A x \in s : h[x] \in Int /\ k[x] \in Int
  BY FS_Subset
<1>2. {} \in P
  BY SumUnfolds
<1>3. ASSUME NEW s \in SUBSET S, NEW x \in S, s \in P, x \notin s
      PROVE  s \cup {x} \in P
  <2>1. Sum(h, s \cup {x}) = h[x] + Sum(h, s) /\ Sum(k, s \cup {x}) = k[x] + Sum(k, s)
    BY <1>1, <1>3, SumAdds
  <2> QED
    BY <1>3, <2>1
<1> HIDE DEF P
<1>4. S \in P
  BY <1>2, <1>3, AllSubsets
<1> QED
  BY <1>4 DEF P

LEMMA NoSum ==
    ASSUME NEW S, IsFiniteSet(S), NEW h, \A x \in S : h[x] = 0
    PROVE  Sum(h, S) = 0
<1> DEFINE P == {s \in SUBSET S : Sum(h, s) = 0}
<1>1. \A s \in SUBSET S : IsFiniteSet(s) /\ \A x \in s : h[x] \in Int
  BY FS_Subset
<1>2. {} \in P
  BY SumUnfolds
<1>3. ASSUME NEW s \in SUBSET S, NEW x \in S, s \in P, x \notin s
      PROVE  s \cup {x} \in P
  <2>1. Sum(h, s \cup {x}) = h[x] + Sum(h, s)
    BY <1>1, <1>3, SumAdds
  <2> QED
    BY <1>3, <2>1
<1> HIDE DEF P
<1>4. S \in P
  BY <1>2, <1>3, AllSubsets
<1> QED
  BY <1>4 DEF P

LEMMA SumOfOnes ==
    ASSUME NEW S, IsFiniteSet(S), NEW h, \A x \in S : h[x] = 1
    PROVE  Sum(h, S) = Cardinality(S)
<1> DEFINE P == {s \in SUBSET S : Sum(h, s) = Cardinality(s)}
<1>1. \A s \in SUBSET S : /\ IsFiniteSet(s) /\ Cardinality(s) \in Nat
                          /\ \A x \in s : h[x] \in Int
  BY FS_Subset, FS_CardinalityType
<1>2. {} \in P
  <2>1. Sum(h, {}) = 0
    BY SumUnfolds
  <2> QED
    BY <2>1, FS_EmptySet
<1>3. ASSUME NEW s \in SUBSET S, NEW x \in S, s \in P, x \notin s
      PROVE  s \cup {x} \in P
  <2>1. Sum(h, s \cup {x}) = h[x] + Sum(h, s)
    BY <1>1, <1>3, SumAdds
  <2>2. Cardinality(s \cup {x}) = Cardinality(s) + 1
    BY <1>1, <1>3, FS_AddElement
  <2> QED
    BY <1>1, <1>3, <2>1, <2>2
<1> HIDE DEF P
<1>4. S \in P
  BY <1>2, <1>3, AllSubsets
<1> QED
  BY <1>4 DEF P

\* The elements of A that are left out of B count nothing.
LEMMA SumWithout ==
    ASSUME NEW S, IsFiniteSet(S), NEW h, \A x \in S : h[x] \in Int,
           NEW A \in SUBSET S, \A x \in S \ A : h[x] = 0
    PROVE  Sum(h, S) = Sum(h, A)
<1>1. IsFiniteSet(S \ A) /\ IsFiniteSet(A) /\ Sum(h, A) \in Int
  BY FS_Subset, SumType
<1>2. Sum(h, S \ A) = 0
  BY <1>1, NoSum
<1> QED
  BY <1>1, <1>2, SumOfParts

LEMMA SumIsNatural ==
    ASSUME NEW S, IsFiniteSet(S), NEW h, \A x \in S : h[x] \in Nat
    PROVE  Sum(h, S) \in Nat
<1> DEFINE P == {s \in SUBSET S : Sum(h, s) \in Nat}
<1>1. \A s \in SUBSET S : IsFiniteSet(s) /\ \A x \in s : h[x] \in Int
  BY FS_Subset
<1>2. {} \in P
  <2>1. Sum(h, {}) = 0
    BY SumUnfolds
  <2> QED
    BY <2>1
<1>3. ASSUME NEW s \in SUBSET S, NEW x \in S, s \in P, x \notin s
      PROVE  s \cup {x} \in P
  <2>1. Sum(h, s \cup {x}) = h[x] + Sum(h, s)
    BY <1>1, <1>3, SumAdds
  <2> QED
    BY <1>3, <2>1
<1> HIDE DEF P
<1>4. S \in P
  BY <1>2, <1>3, AllSubsets
<1> QED
  BY <1>4 DEF P

\* An element x of S is of class b[x], one of B, and k sums up each class.
SumsClasses(k, B, h, S, b) ==
    /\ \A x \in S : h[x] \in Int /\ b[x] \in B
    /\ \A c \in B : k[c] = Sum(h, {x \in S : b[x] = c})

\* Sums over classes add up to the sum over all.
LEMMA SumByClass ==
    ASSUME NEW S, IsFiniteSet(S), NEW B, IsFiniteSet(B), NEW h, NEW b, NEW k,
           SumsClasses(k, B, h, S, b)
    PROVE  Sum(k, B) = Sum(h, S)
<1>0. /\ \A x \in S : h[x] \in Int /\ b[x] \in B
      /\ \A c \in B : k[c] = Sum(h, {x \in S : b[x] = c})
  BY DEF SumsClasses
<1> DEFINE In(C) == {x \in S : b[x] \in C}
           P == {C \in SUBSET B : Sum(k, C) = Sum(h, In(C))}
<1>1. \A s \in SUBSET S : IsFiniteSet(s) /\ Sum(h, s) \in Int /\ \A x \in s : h[x] \in Int
  BY <1>0, FS_Subset, SumType
<1>2. \A c \in B : k[c] \in Int
  BY <1>0, <1>1
<1>3. \A C \in SUBSET B : IsFiniteSet(C) /\ \A c \in C : k[c] \in Int
  BY <1>2, FS_Subset
<1>4. {} \in P
  <2>1. In({}) = {}
    OBVIOUS
  <2>2. Sum(k, {}) = 0 /\ Sum(h, {}) = 0
    BY SumUnfolds
  <2> QED
    BY <2>1, <2>2
<1>5. ASSUME NEW C \in SUBSET B, NEW c \in B, C \in P, c \notin C
      PROVE  C \cup {c} \in P
  <2>1. Sum(k, C \cup {c}) = k[c] + Sum(k, C)
    BY <1>2, <1>3, <1>5, SumAdds
  <2>2. /\ In(C) \in SUBSET In(C \cup {c}) /\ In(C \cup {c}) \in SUBSET S
        /\ In(C \cup {c}) \ In(C) = {x \in S : b[x] = c}
    BY <1>5
  <2> PICK whole : whole = In(C \cup {c})
    OBVIOUS
  <2> PICK part : part = In(C)
    OBVIOUS
  <2>3. /\ IsFiniteSet(whole) /\ part \in SUBSET whole /\ \A x \in whole : h[x] \in Int
        /\ Sum(h, whole) \in Int /\ Sum(h, part) \in Int /\ k[c] \in Int
    BY <1>1, <1>2, <2>2
  <2>4. Sum(h, whole) = Sum(h, part) + Sum(h, whole \ part)
    <3>1. IsFiniteSet(whole)
      BY <2>3
    <3>2. part \in SUBSET whole
      BY <2>3
    <3>3. \A x \in whole : h[x] \in Int
      BY <2>3
    <3> QED
      BY ONLY <3>1, <3>2, <3>3, SumOfParts
  <2>5. Sum(k, C \cup {c}) = Sum(h, whole)
    <3>1. k[c] = Sum(h, whole \ part)
      BY <1>0, <2>2
    <3>2. Sum(k, C) = Sum(h, part)
      BY <1>5
    <3> QED
      BY <2>1, <2>3, <2>4, <3>1, <3>2
  <2> QED
    BY <1>5, <2>5
<1> HIDE DEF P
<1>6. B \in P
  BY <1>4, <1>5, AllSubsets
<1>7. In(B) = S
  BY <1>0
<1> QED
  BY <1>6, <1>7 DEF P

LEMMA ImageIsFinite ==
    ASSUME NEW S, IsFiniteSet(S), NEW f
    PROVE  IsFiniteSet({f[x] : x \in S})
<1> DEFINE g == [x \in S |-> f[x]]
<1>1. g \in Surjection(S, {f[x] : x \in S})
  BY DEF Surjection
<1> HIDE DEF g
<1> QED
  BY <1>1, FS_Surjection
=============================================================================
