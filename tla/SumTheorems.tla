----------------------------- MODULE SumTheorems -----------------------------
(***************************************************************************)
(* Sums of a field of records over a finite set, as compute_stats makes    *)
(* them of the clients' counters, for every finite set.                    *)
(*                                                                         *)
(* MapThenSumSet is a recursive function on the subsets of the set, that   *)
(* is a CHOOSE.  That there is such a function, and that the order of the  *)
(* elements does not matter, is shown by induction over the subsets, which *)
(* is stated with a set in place of a predicate.  Before that, the fact    *)
(* that proofs about Min rest on.                                          *)
(***************************************************************************)
EXTENDS Integers, FiniteSets, FiniteSetsExt, FiniteSetTheorems, TLAPS

\* A set of numbers that is not empty has a smallest.
LEMMA SmallestExists ==
  ASSUME NEW T, T \subseteq Nat, T # {}
  PROVE  \E x \in T : \A y \in T : x <= y
<1> DEFINE R == OpToRel(<, Nat)
<1>1. \E x \in T : \A y \in T : ~ (<<y, x>> \in R)
  <2> HIDE DEF R
  <2>1. IsWellFoundedOn(R, Nat)
    BY NatLessThanWellFounded DEF R
  <2> QED
    BY <2>1, WFMin
<1>2. ASSUME NEW x \in T, NEW y \in T, ~ (<<y, x>> \in R) PROVE x <= y
  <2>1. x \in Nat /\ y \in Nat /\ ~ (y < x)
    BY <1>2 DEF OpToRel
  <2> QED
    BY <2>1
<1> HIDE DEF R
<1> QED
  BY <1>1, <1>2

\* The sum of the field over the records c[i] with i in S.
TotalOf(c, field, S) == MapThenSumSet(LAMBDA i : c[i][field], S)

\* Induction over the subsets of a finite set.
LEMMA SubsetInduction ==
  ASSUME NEW S, IsFiniteSet(S), NEW Good,
         \A T \in SUBSET S : (\A U \in SUBSET T : U # T => U \in Good) => T \in Good
  PROVE  \A T \in SUBSET S : T \in Good
<1> DEFINE R == StrictSubsetOrdering(S)
           Bad == (SUBSET S) \ Good
<1>1. IsWellFoundedOn(R, SUBSET S)
  BY FS_StrictSubsetOrderingWellFounded, FS_FiniteSubsetsOfFinite
<1>2. ASSUME Bad # {} PROVE FALSE
  <2>1. PICK T \in Bad : \A U \in Bad : ~ (<<U, T>> \in R)
    <3>1. Bad \subseteq SUBSET S
      OBVIOUS
    <3> HIDE DEF R, Bad
    <3> QED
      BY <1>1, <1>2, <3>1, WFMin
  <2>2. ASSUME NEW U \in SUBSET T, U # T PROVE U \in Good
    <3>1. <<U, T>> \in R
      BY <2>1, <2>2 DEF StrictSubsetOrdering
    <3> HIDE DEF R
    <3> QED
      BY <2>1, <2>2, <3>1
  <2>3. T \in SUBSET S /\ T \notin Good
    BY <2>1
  <2> HIDE DEF R, Bad
  <2> QED
    BY <2>2, <2>3
<1> QED
  BY <1>2

\* The element that the sum over s begins with.
First(s) == CHOOSE x \in s : TRUE

\* g has the sums over all subsets of S.
IsSums(g, c, field, S) ==
  g = [s \in SUBSET S |-> IF s = {} THEN 0
                          ELSE c[First(s)][field] + g[s \ {First(s)}]]

Sums(c, field, S) == CHOOSE g : IsSums(g, c, field, S)

\* The element that CHOOSE takes out of a set is one of it.
LEMMA FirstIn == ASSUME NEW s, s # {} PROVE First(s) \in s
  BY DEF First

\* There is at most one such function on each set.
LEMMA SumsAgree ==
  ASSUME NEW S, IsFiniteSet(S), NEW c, NEW field, NEW A \in SUBSET S, NEW B \in SUBSET S,
         NEW g, IsSums(g, c, field, A), NEW h, IsSums(h, c, field, B)
  PROVE  \A s \in SUBSET (A \cap B) : g[s] = h[s]
<1> DEFINE Good == {s \in SUBSET S : s \subseteq A \cap B => g[s] = h[s]}
<1>1. ASSUME NEW s \in SUBSET S, \A u \in SUBSET s : u # s => u \in Good
      PROVE  s \in Good
  <2> SUFFICES ASSUME s \subseteq A \cap B PROVE g[s] = h[s]
    OBVIOUS
  <2>1. CASE s = {}
    BY <2>1 DEF IsSums
  <2>2. CASE s # {}
    <3> DEFINE u == s \ {First(s)}
    <3>1. u \in Good /\ u \subseteq A \cap B
      BY <1>1, <2>2, FirstIn
    <3>2. g[u] = h[u]
      BY <3>1
    <3>3. g[s] = c[First(s)][field] + g[u] /\ h[s] = c[First(s)][field] + h[u]
      BY <2>2 DEF IsSums
    <3> QED
      BY <3>2, <3>3
  <2> QED
    BY <2>1, <2>2
<1>2. \A s \in SUBSET S : s \in Good
  <2> HIDE DEF Good
  <2> QED
    BY <1>1, SubsetInduction
<1> QED
  BY <1>2

\* There is such a function on each finite set.
LEMMA SumsExist ==
  ASSUME NEW S, IsFiniteSet(S), NEW c, NEW field
  PROVE  IsSums(Sums(c, field, S), c, field, S)
<1> DEFINE Good == {T \in SUBSET S : \E g : IsSums(g, c, field, T)}
<1>1. ASSUME NEW T \in SUBSET S, \A U \in SUBSET T : U # T => U \in Good
      PROVE  T \in Good
  <2> DEFINE Rest(s) == s \ {First(s)}
             g == [s \in SUBSET T |->
                     IF s = {} THEN 0
                     ELSE c[First(s)][field] + Sums(c, field, Rest(s))[Rest(s)]]
  <2>1. ASSUME NEW s \in SUBSET T, s # {}
        PROVE  IsSums(Sums(c, field, Rest(s)), c, field, Rest(s))
    <3>1. Rest(s) \in Good
      BY <1>1, <2>1, FirstIn
    <3> QED
      BY <3>1 DEF Sums
  <2>2. ASSUME NEW s \in SUBSET T, s # {}
        PROVE  g[Rest(s)] = Sums(c, field, Rest(s))[Rest(s)]
    <3> DEFINE u == Rest(s)
    <3>1. u \in SUBSET T
      OBVIOUS
    <3>2. CASE u = {}
      BY <2>1, <2>2, <3>1, <3>2 DEF IsSums
    <3>3. CASE u # {}
      <4> DEFINE w == Rest(u)
      <4>1. IsSums(Sums(c, field, u), c, field, u) /\ IsSums(Sums(c, field, w), c, field, w)
        BY <2>1, <2>2, <3>1, <3>3
      <4>2. u \in SUBSET S /\ w \in SUBSET S /\ w \subseteq u \cap w
        OBVIOUS
      <4>3. Sums(c, field, u)[w] = Sums(c, field, w)[w]
        <5> HIDE DEF u, w
        <5> QED
          BY <4>1, <4>2, SumsAgree
      <4>4. Sums(c, field, u)[u] = c[First(u)][field] + Sums(c, field, u)[w]
        <5> HIDE DEF u
        <5> QED BY <4>1, <3>3 DEF IsSums
      <4>5. g[u] = c[First(u)][field] + Sums(c, field, w)[w]
        BY <3>1, <3>3
      <4> QED
        BY <4>3, <4>4, <4>5
    <3> QED
      BY <3>2, <3>3
  <2>3. \A s \in SUBSET T : g[s] = IF s = {} THEN 0
                                   ELSE c[First(s)][field] + g[s \ {First(s)}]
    BY <2>2
  <2>4. IsSums(g, c, field, T)
    <3> HIDE DEF g
    <3>1. g = [s \in SUBSET T |-> g[s]]
      BY DEF g
    <3> QED
      BY <2>3, <3>1 DEF IsSums
  <2> QED
    BY <2>4
<1>2. S \in Good
  <2>1. \A T \in SUBSET S : T \in Good
    <3> HIDE DEF Good
    <3> QED
      BY <1>1, SubsetInduction
  <2> QED
    BY <2>1
<1> QED
  BY <1>2 DEF Sums

\* The sum is what that function has for the whole set.
LEMMA TotalIsSums ==
  ASSUME NEW S, NEW c, NEW field
  PROVE  TotalOf(c, field, S) = Sums(c, field, S)[S]
BY DEF TotalOf, MapThenSumSet, MapThenFoldSet, Sums, IsSums, First

\* The sum over a set that is not empty is that over the rest and one more.
LEMMA TotalStep ==
  ASSUME NEW S, IsFiniteSet(S), NEW c, NEW field
  PROVE  TotalOf(c, field, S) =
           IF S = {} THEN 0
           ELSE c[First(S)][field] + TotalOf(c, field, S \ {First(S)})
<1> DEFINE R == S \ {First(S)}
<1>1. IsSums(Sums(c, field, S), c, field, S)
  BY SumsExist
<1>2. IsSums(Sums(c, field, R), c, field, R)
  <2>1. IsFiniteSet(R)
    BY FS_Subset
  <2> HIDE DEF R
  <2> QED
    BY <2>1, SumsExist
<1>3. Sums(c, field, S)[R] = Sums(c, field, R)[R]
  <2>1. S \in SUBSET S /\ R \in SUBSET S /\ R \in SUBSET (S \cap R)
    OBVIOUS
  <2> HIDE DEF R
  <2> QED
    BY <1>1, <1>2, <2>1, SumsAgree
<1>4. Sums(c, field, S)[S] = IF S = {} THEN 0
                             ELSE c[First(S)][field] + Sums(c, field, S)[R]
  BY <1>1 DEF IsSums
<1> HIDE DEF R
<1> QED
  BY <1>3, <1>4, TotalIsSums DEF R

\* A sum of natural numbers is one.
LEMMA TotalType ==
  ASSUME NEW S, IsFiniteSet(S), NEW c, NEW field, \A i \in S : c[i][field] \in Nat
  PROVE  TotalOf(c, field, S) \in Nat
<1> DEFINE Good == {T \in SUBSET S : TotalOf(c, field, T) \in Nat}
<1>1. ASSUME NEW T \in SUBSET S, \A U \in SUBSET T : U # T => U \in Good
      PROVE  T \in Good
  <2>1. IsFiniteSet(T)
    BY FS_Subset
  <2>2. CASE T = {}
    BY <2>1, <2>2, TotalStep
  <2>3. CASE T # {}
    <3>1. First(T) \in T /\ T \ {First(T)} \in Good
      BY <1>1, <2>3, FirstIn
    <3>2. TotalOf(c, field, T) = c[First(T)][field] + TotalOf(c, field, T \ {First(T)})
      BY <2>1, <2>3, TotalStep
    <3> QED
      BY <3>1, <3>2
  <2> QED
    BY <2>2, <2>3
<1>2. \A T \in SUBSET S : T \in Good
  <2> HIDE DEF Good
  <2> QED
    BY <1>1, SubsetInduction
<1> QED
  BY <1>2

\* Any element may be taken out of a sum.
LEMMA TotalSplit ==
  ASSUME NEW S, IsFiniteSet(S), NEW c, NEW field, \A i \in S : c[i][field] \in Nat,
         NEW i \in S
  PROVE  TotalOf(c, field, S) = c[i][field] + TotalOf(c, field, S \ {i})
<1> DEFINE Sum(T) == TotalOf(c, field, T)
           Good == {T \in SUBSET S : \A x \in T : Sum(T) = c[x][field] + Sum(T \ {x})}
<1>1. ASSUME NEW T \in SUBSET S, \A U \in SUBSET T : U # T => U \in Good
      PROVE  T \in Good
  <2> SUFFICES ASSUME NEW x \in T PROVE Sum(T) = c[x][field] + Sum(T \ {x})
    OBVIOUS
  <2> DEFINE y == First(T)
  <2>1. IsFiniteSet(T) /\ y \in T
    BY FS_Subset, FirstIn
  <2>2. Sum(T) = c[y][field] + Sum(T \ {y})
    BY <2>1, TotalStep
  <2>3. CASE x # y
    <3> HIDE DEF y
    <3>1. T \ {y} \in Good /\ T \ {x} \in Good
      BY <1>1, <2>1
    <3>2. /\ Sum(T \ {y}) = c[x][field] + Sum((T \ {y}) \ {x})
          /\ Sum(T \ {x}) = c[y][field] + Sum((T \ {x}) \ {y})
      BY <2>1, <2>3, <3>1
    <3>3. (T \ {x}) \ {y} = (T \ {y}) \ {x}
      OBVIOUS
    <3>4. IsFiniteSet((T \ {x}) \ {y})
      BY FS_Subset
    <3>5. \A U \in SUBSET S : Sum(U) \in Nat
      BY FS_Subset, TotalType
    <3>6. /\ Sum((T \ {x}) \ {y}) \in Nat /\ c[x][field] \in Nat /\ c[y][field] \in Nat
      BY <2>1, <3>5
    <3>7. /\ Sum(T) = c[y][field] + (c[x][field] + Sum((T \ {x}) \ {y}))
          /\ Sum(T \ {x}) = c[y][field] + Sum((T \ {x}) \ {y})
      BY <2>2, <3>2, <3>3
    <3> HIDE DEF Sum, Good
    <3> QED
      BY <3>6, <3>7
  <2> QED
    BY <2>2, <2>3
<1>2. \A T \in SUBSET S : T \in Good
  <2> HIDE DEF Good
  <2> QED
    BY <1>1, SubsetInduction
<1> QED
  BY <1>2

\* Equal numbers have equal sums, under whatever names.
LEMMA TotalRenamed ==
  ASSUME NEW S, IsFiniteSet(S), NEW c, NEW d, NEW field, NEW name,
         \A i \in S : c[i][field] = d[i][name]
  PROVE  TotalOf(c, field, S) = TotalOf(d, name, S)
<1> DEFINE Good == {T \in SUBSET S : TotalOf(c, field, T) = TotalOf(d, name, T)}
<1>1. ASSUME NEW T \in SUBSET S, \A U \in SUBSET T : U # T => U \in Good
      PROVE  T \in Good
  <2>1. IsFiniteSet(T)
    BY FS_Subset
  <2>2. CASE T = {}
    BY <2>1, <2>2, TotalStep
  <2>3. CASE T # {}
    <3>1. First(T) \in T /\ T \ {First(T)} \in Good
      BY <1>1, <2>3, FirstIn
    <3>2. /\ TotalOf(c, field, T) = c[First(T)][field] + TotalOf(c, field, T \ {First(T)})
          /\ TotalOf(d, name, T) = d[First(T)][name] + TotalOf(d, name, T \ {First(T)})
      BY <2>1, <2>3, TotalStep
    <3> QED
      BY <3>1, <3>2
  <2> QED
    BY <2>2, <2>3
<1>2. \A T \in SUBSET S : T \in Good
  <2> HIDE DEF Good
  <2> QED
    BY <1>1, SubsetInduction
<1> QED
  BY <1>2

\* Equal numbers have equal sums.
LEMMA TotalSame ==
  ASSUME NEW S, IsFiniteSet(S), NEW c, NEW d, NEW field,
         \A i \in S : c[i][field] = d[i][field]
  PROVE  TotalOf(c, field, S) = TotalOf(d, field, S)
BY TotalRenamed

\* When one number changes, the sum changes by as much.
LEMMA TotalChange ==
  ASSUME NEW S, IsFiniteSet(S), NEW c, NEW d, NEW field, NEW i \in S,
         \A j \in S : c[j][field] \in Nat /\ d[j][field] \in Nat,
         \A j \in S \ {i} : c[j][field] = d[j][field]
  PROVE  TotalOf(d, field, S) = TotalOf(c, field, S) - c[i][field] + d[i][field]
<1> DEFINE R == S \ {i}
<1>1. IsFiniteSet(R)
  BY FS_Subset
<1>2. TotalOf(c, field, R) = TotalOf(d, field, R)
  <2>1. \A j \in R : c[j][field] = d[j][field]
    OBVIOUS
  <2> HIDE DEF R
  <2> QED
    BY <1>1, <2>1, TotalSame
<1>3. /\ TotalOf(c, field, S) = c[i][field] + TotalOf(c, field, R)
      /\ TotalOf(d, field, S) = d[i][field] + TotalOf(d, field, R)
  BY TotalSplit
<1>4. TotalOf(c, field, R) \in Nat
  <2>1. \A j \in R : c[j][field] \in Nat
    OBVIOUS
  <2> HIDE DEF R
  <2> QED
    BY <1>1, <2>1, TotalType
<1> QED
  BY <1>2, <1>3, <1>4

\* The sum of zeros.
LEMMA TotalZero ==
  ASSUME NEW S, IsFiniteSet(S), NEW c, NEW field, \A i \in S : c[i][field] = 0
  PROVE  TotalOf(c, field, S) = 0
<1> DEFINE Good == {T \in SUBSET S : TotalOf(c, field, T) = 0}
<1>1. ASSUME NEW T \in SUBSET S, \A U \in SUBSET T : U # T => U \in Good
      PROVE  T \in Good
  <2>1. IsFiniteSet(T)
    BY FS_Subset
  <2>2. CASE T = {}
    BY <2>1, <2>2, TotalStep
  <2>3. CASE T # {}
    <3>1. First(T) \in T /\ T \ {First(T)} \in Good
      BY <1>1, <2>3, FirstIn
    <3>2. TotalOf(c, field, T) = c[First(T)][field] + TotalOf(c, field, T \ {First(T)})
      BY <2>1, <2>3, TotalStep
    <3> QED
      BY <3>1, <3>2
  <2> QED
    BY <2>2, <2>3
<1>2. \A T \in SUBSET S : T \in Good
  <2> HIDE DEF Good
  <2> QED
    BY <1>1, SubsetInduction
<1> QED
  BY <1>2

\* A sum of which only the elements in A are not zero, and those at most m.
LEMMA TotalBound ==
  ASSUME NEW S, IsFiniteSet(S), NEW c, NEW field, NEW m \in Nat, NEW A,
         \A i \in S : c[i][field] \in 0 .. m /\ (i \notin A => c[i][field] = 0)
  PROVE  TotalOf(c, field, S) <= m * Cardinality(S \cap A)
<1> DEFINE Good == {T \in SUBSET S : TotalOf(c, field, T) <= m * Cardinality(T \cap A)}
<1>1. ASSUME NEW T \in SUBSET S, \A U \in SUBSET T : U # T => U \in Good
      PROVE  T \in Good
  <2>1. IsFiniteSet(T)
    BY FS_Subset
  <2>2. CASE T = {}
    <3>1. TotalOf(c, field, T) = 0 /\ T \cap A = {}
      BY <2>1, <2>2, TotalStep
    <3>2. Cardinality(T \cap A) = 0
      BY <3>1, FS_EmptySet
    <3>3. m * 0 = 0
      OBVIOUS
    <3> QED
      BY <3>1, <3>2, <3>3
  <2>3. CASE T # {}
    <3> DEFINE x == First(T)
               R == T \ {x}
    <3>1. x \in T /\ R \in Good
      BY <1>1, <2>3, FirstIn
    <3>2. TotalOf(c, field, T) = c[x][field] + TotalOf(c, field, R)
      BY <2>1, <2>3, TotalStep
    <3>3. TotalOf(c, field, R) <= m * Cardinality(R \cap A)
      BY <3>1
    <3>4. IsFiniteSet(T \cap A) /\ R \cap A = (T \cap A) \ {x}
      BY <2>1, FS_Intersection
    <3>5. /\ Cardinality(T \cap A) \in Nat /\ Cardinality(R \cap A) \in Nat
          /\ Cardinality(R \cap A) = IF x \in A THEN Cardinality(T \cap A) - 1
                                     ELSE Cardinality(T \cap A)
      <4>1. x \in T \cap A <=> x \in A
        BY <3>1
      <4> DEFINE B == T \cap A
      <4> HIDE DEF x, R, B
      <4>2. Cardinality(B \ {x}) = IF x \in B THEN Cardinality(B) - 1 ELSE Cardinality(B)
        BY <3>4, FS_RemoveElement DEF B
      <4>3. Cardinality(B) \in Nat /\ Cardinality(B \ {x}) \in Nat
        BY <3>4, FS_RemoveElement, FS_CardinalityType DEF B
      <4>4. R \cap A = B \ {x}
        BY <3>4 DEF B
      <4> QED
        BY <4>1, <4>2, <4>3, <4>4 DEF B
    <3>6. TotalOf(c, field, R) \in Nat /\ c[x][field] \in 0 .. m
      BY <2>1, <3>1, FS_Subset, TotalType
    <3> DEFINE a == Cardinality(T \cap A)
               b == Cardinality(R \cap A)
    <3>7. ASSUME x \in A PROVE TotalOf(c, field, T) <= m * a
      <4>1. a = b + 1
        BY <3>5, <3>7
      <4>2. m * (b + 1) = m * b + m
        <5> HIDE DEF b
        <5> QED BY <3>5 DEF b
      <4> HIDE DEF a, b, x, R, Good
      <4>3. TotalOf(c, field, T) <= m * a
        BY <3>2, <3>3, <3>5, <3>6, <4>1, <4>2 DEF b
      <4> QED
        BY <4>3
    <3>8. ASSUME x \notin A PROVE TotalOf(c, field, T) <= m * a
      <4>1. a = b /\ c[x][field] = 0
        BY <3>1, <3>5, <3>8
      <4> HIDE DEF a, b, x, R, Good
      <4>2. TotalOf(c, field, T) <= m * a
        BY <3>2, <3>3, <3>6, <4>1 DEF b
      <4> QED
        BY <4>2
    <3>9. TotalOf(c, field, T) <= m * a
      BY <3>7, <3>8
    <3> QED
      BY <3>9, Zenon
  <2> QED
    BY <2>2, <2>3
<1>2. \A T \in SUBSET S : T \in Good
  <2> HIDE DEF Good
  <2> QED
    BY <1>1, SubsetInduction
<1> QED
  BY <1>2
=============================================================================
