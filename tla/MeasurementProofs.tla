-------------------------- MODULE MeasurementProofs --------------------------
(***************************************************************************)
(* Proofs about Measurement:                                               *)
(*   what the cut of a sample keeps, and that sums of values are values;   *)
(*   that lines arrive as they were written, whatever their lengths, the   *)
(*   buffers, the writes and the reads;                                    *)
(*   that what ClientRunProofs shows of a run holds in every load;         *)
(*   that the counters of the clients are books of what was done in the    *)
(*   load, so that the report tells of it, and the master reads what the   *)
(*   report tells;                                                         *)
(*   the types, and what the table is made of.                             *)
(***************************************************************************)
EXTENDS Measurement, ClientRunProofs, SumTheorems, SequenceTheorems

-----------------------------------------------------------------------------
(***************************************************************************)
(* The cut: percentil_average_Lf keeps the share it is asked for, whatever *)
(* rounding does to the share.  Its assertion end_i > start_i never fails, *)
(* and it reads inside the sample.                                         *)
(***************************************************************************)

\* The largest whole number of 200ths that fits.
LEMMA CutBounds ==
  ASSUME NEW x \in Nat
  PROVE  /\ (x \div 200) \in Nat
         /\ 200 * (x \div 200) <= x
         /\ x < 200 * (x \div 200) + 200
BY Z3

\* For every size of a sample and every percent_stats_kept_master, what
\* start_i may be leaves at least the share asked for, which is at least one
\* element, and at most two elements more.
THEOREM CutsKeepTheShare ==
  ASSUME NEW n \in Nat \ {0}, NEW p \in 1 .. 100, NEW c \in Cuts(n, p)
  PROVE  /\ c \in Nat /\ n - c > c
         /\ n * p <= 100 * (n - 2 * c)
         /\ 100 * (n - 2 * c) <= n * p + 200
<1> DEFINE x == n * (100 - p)
           cut == x \div 200
<1>1. /\ x \in Nat /\ n * p \in Nat /\ n * p >= n
      /\ x = 100 * n - n * p
  <2>1. n * p >= n
    BY Z3
  <2>2. n * (100 - p) = 100 * n - n * p
    BY Z3
  <2>3. n * (100 - p) >= 0
    BY Z3
  <2> QED BY <2>1, <2>2, <2>3
<1>2. n \in Nat /\ n >= 1
  OBVIOUS
<1>3. p # 100 => x >= n
  <2>1. SUFFICES ASSUME p # 100 PROVE n * (100 - p) >= n
    OBVIOUS
  <2>2. 100 - p >= 1
    BY <2>1
  <2> QED BY <2>2, <1>2, Z3
<1>4. cut \in Nat /\ 200 * cut <= x /\ x < 200 * cut + 200
  BY <1>1, CutBounds
<1>5. c = cut \/ (c = cut - 1 /\ n >= 150 /\ p # 100 /\ x = 200 * cut)
  BY <1>2 DEF Cuts
<1> HIDE DEF x, cut
<1> DEFINE np == n * p
<1>6. np \in Nat /\ np >= n /\ x = 100 * n - np
  BY <1>1
<1> HIDE DEF np
<1>7. /\ c \in Nat
      /\ 200 * c <= x /\ x <= 200 * c + 200
  BY <1>1, <1>2, <1>3, <1>4, <1>5
<1>8. np <= 100 * (n - 2 * c) /\ 100 * (n - 2 * c) <= np + 200 /\ n - c > c
  BY <1>2, <1>6, <1>7
<1> QED BY <1>7, <1>8 DEF np

-----------------------------------------------------------------------------
(***************************************************************************)
(* What the cut keeps of a sample                                          *)
(***************************************************************************)

\* Values that are numbers are ordered.
LEMMA BelowIsAnOrder ==
  ASSUME NEW a \in Values, NEW b \in Values, NEW c \in Values, NaN \notin {a, b, c}
  PROVE  /\ ~ Below(a, a)
         /\ ~ Below(b, a) /\ ~ Below(c, b) => ~ Below(c, a)
<1>1. Inf \notin Int
  BY StatsSampleAssumption
<1>2. ~ Below(a, a)
  <2>1. CASE a = Inf
    BY <2>1 DEF Below
  <2>2. CASE a \in Nat
    BY <1>1, <2>2 DEF Below
  <2> QED BY <2>1, <2>2 DEF Values
<1>3. ASSUME ~ Below(b, a), ~ Below(c, b) PROVE ~ Below(c, a)
  <2>1. CASE c = Inf
    BY <2>1 DEF Below
  <2>2. CASE c \in Nat
    <3>1. c # Inf
      BY <1>1, <2>2
    <3>2. b \in Nat /\ b <= c
      BY <1>1, <1>3, <2>2, <3>1 DEF Below, Values
    <3>3. a \in Nat /\ a <= b
      BY <1>1, <1>3, <3>2 DEF Below, Values
    <3> QED BY <1>1, <2>2, <3>2, <3>3 DEF Below
  <2> QED BY <2>1, <2>2 DEF Values
<1> QED BY <1>2, <1>3

\* In a sequence of n numbers of which none is below the one before it, none is
\* below any before it.
LEMMA SortedPairs ==
  ASSUME NEW n \in Nat, NEW t \in [1 .. n -> Values],
         \A k \in 1 .. n : t[k] # NaN,
         \A k \in 1 .. n - 1 : ~ Below(t[k + 1], t[k])
  PROVE  \A j \in 1 .. n : \A i \in 1 .. j : ~ Below(t[j], t[i])
<1> DEFINE S == 1 .. n
           Ordered(m) == \A j \in 1 .. m : \A i \in 1 .. j : ~ Below(t[j], t[i])
           Good == {T \in SUBSET S : \A m \in 0 .. n : T = 1 .. m => Ordered(m)}
<1>1. ASSUME NEW T \in SUBSET S, \A U \in SUBSET T : U # T => U \in Good
      PROVE  T \in Good
  <2> SUFFICES ASSUME NEW m \in 0 .. n, T = 1 .. m PROVE Ordered(m)
    OBVIOUS
  <2>1. CASE m = 0
    BY <2>1
  <2>2. CASE m # 0
    <3> DEFINE U == 1 .. m - 1
    <3>1. m - 1 \in 0 .. n /\ m \in 1 .. n /\ U \in SUBSET T /\ U # T
      <4>1. m \in T /\ m \notin U
        BY <2>2
      <4> QED BY <2>2, <4>1
    <3>2. Ordered(m - 1)
      <4>1. U \in Good
        BY <1>1, <3>1
      <4> HIDE DEF Ordered
      <4> QED BY <3>1, <4>1
    <3>3. ASSUME NEW i \in 1 .. m PROVE ~ Below(t[m], t[i])
      <4>1. t[m] \in Values /\ t[m] # NaN /\ t[i] \in Values /\ t[i] # NaN
        BY <3>1
      <4>2. CASE i = m
        BY <4>1, <4>2, BelowIsAnOrder
      <4>3. CASE i # m
        <5>1. m - 1 \in 1 .. n /\ i \in 1 .. m - 1 /\ m - 1 \in 1 .. n - 1 /\ m - 1 + 1 = m
          BY <3>1, <4>3
        <5>2. ~ Below(t[m], t[m - 1])
          BY <5>1
        <5>3. ~ Below(t[m - 1], t[i])
          BY <3>2, <5>1
        <5>4. t[m - 1] \in Values /\ t[m - 1] # NaN
          BY <5>1
        <5> QED BY <4>1, <5>2, <5>3, <5>4, BelowIsAnOrder
      <4> QED BY <4>2, <4>3
    <3>4. ASSUME NEW j \in 1 .. m, NEW i \in 1 .. j PROVE ~ Below(t[j], t[i])
      <4>1. CASE j = m
        BY <3>3, <4>1
      <4>2. CASE j # m
        <5>1. j \in 1 .. m - 1
          BY <4>2
        <5> QED BY <3>2, <5>1
      <4> QED BY <4>1, <4>2
    <3> QED BY <3>4
  <2> QED BY <2>1, <2>2
<1>2. S \in Good
  <2>1. IsFiniteSet(S)
    BY FS_Interval
  <2> HIDE DEF Good, S
  <2> QED BY <1>1, <2>1, SubsetInduction
<1>3. n \in 0 .. n
  OBVIOUS
<1> QED BY <1>2, <1>3

\* A rearrangement of positions has as many in the image of an interval as
\* there are in the interval.
LEMMA ImageOfInterval ==
  ASSUME NEW n \in Nat, NEW f \in Bijection(1 .. n, 1 .. n),
         NEW a \in 1 .. n, NEW b \in a .. n, NEW T \in SUBSET (1 .. n),
         \A i \in a .. b : f[i] \in T
  PROVE  b - a + 1 <= Cardinality(T)
<1> DEFINE S == 1 .. n
           g == [i \in a .. b |-> f[i]]
<1>1. IsFiniteSet(S) /\ IsFiniteSet(T)
  <2>1. 1 \in Int /\ n \in Int
    OBVIOUS
  <2>2. IsFiniteSet(S)
    BY <2>1, FS_Interval
  <2> QED BY <2>2, FS_Subset
<1>3. f \in Injection(S, S)
  BY DEF Bijection
<1>4. g \in Injection(a .. b, T)
  <2>1. a .. b \subseteq S
    OBVIOUS
  <2>2. \A i, j \in S : f[i] = f[j] => i = j
    BY <1>3 DEF Injection, IsInjective
  <2>3. g \in [a .. b -> T]
    OBVIOUS
  <2> QED BY <2>1, <2>2, <2>3 DEF Injection, IsInjective
<1>5. Cardinality(a .. b) <= Cardinality(T)
  <2> HIDE DEF g
  <2> QED BY <1>1, <1>4, FS_Injection
<1>6. Cardinality(a .. b) = b - a + 1
  BY FS_Interval
<1> QED BY <1>5, <1>6

\* Each of the values that are kept is one of the sample's, and more values than
\* were cut at an end are not above it, and not below it.
Middle(kept, s) ==
  \A k \in 1 .. Len(kept) :
    LET v == kept[k]
        notAbove == {j \in 1 .. Len(s) : ~ Below(v, s[j])}
        notBelow == {j \in 1 .. Len(s) : ~ Below(s[j], v)}
    IN  /\ v \in Range(s)
        /\ 2 * Cardinality(notAbove) > Len(s) - Len(kept)
        /\ 2 * Cardinality(notBelow) > Len(s) - Len(kept)

\* What is kept is the middle of the sample.
LEMMA KeptIsTheMiddle ==
  ASSUME NEW n \in Nat \ {0}, NEW s \in [1 .. n -> Values], NEW p \in 1 .. 100,
         NEW kept \in Kept(s, p)
  PROVE  /\ kept \in Seq(Values)
         /\ Len(kept) > 0 /\ 100 * Len(kept) \in n * p .. n * p + 200
         /\ NaN \notin Range(s) => Middle(kept, s)
<1>1. s \in Seq(Values) /\ Len(s) = n /\ DOMAIN s = 1 .. n
  <2>1. s \in Seq(Values)
    BY SeqDef
  <2> QED BY <2>1, LenProperties
<1>2. PICK t \in Sorted(s), c \in Cuts(n, p) : kept = SubSeq(t, c + 1, n - c)
  BY <1>1 DEF Kept
<1>3. PICK f \in Bijection(1 .. n, 1 .. n) : t = [k \in 1 .. n |-> s[f[k]]]
  BY <1>1 DEF Sorted
<1>4. f \in [1 .. n -> 1 .. n]
  BY DEF Bijection, Injection
<1>5. t \in [1 .. n -> Values]
  BY <1>3, <1>4
<1>6. /\ c \in Nat /\ n - c > c
      /\ n * p <= 100 * (n - 2 * c)
      /\ 100 * (n - 2 * c) <= n * p + 200
  BY CutsKeepTheShare
<1> DEFINE m == n - 2 * c
<1>7. /\ m \in Nat /\ m > 0 /\ \A k \in 1 .. m : c + k \in 1 .. n
  BY <1>6
<1>8. kept \in Seq(Values) /\ Len(kept) = m /\ \A k \in 1 .. m : kept[k] = t[c + k]
  <2>1. t \in Seq(Values) /\ Len(t) = n
    <3>1. t \in Seq(Values)
      BY <1>5, SeqDef
    <3> QED BY <1>5, <3>1, LenProperties
  <2>2. /\ c + 1 \in Int /\ n - c \in Int
        /\ \A i \in c + 1 .. n - c : i \in 1 .. n /\ t[i] \in Values
    BY <1>5, <1>6
  <2>3. /\ SubSeq(t, c + 1, n - c) \in Seq(Values)
        /\ Len(SubSeq(t, c + 1, n - c)) =
             IF c + 1 <= n - c THEN n - c - (c + 1) + 1 ELSE 0
        /\ \A i \in 1 .. n - c - (c + 1) + 1 :
             SubSeq(t, c + 1, n - c)[i] = t[c + 1 + i - 1]
    BY <2>1, <2>2, SubSeqProperties
  <2>4. n - c - (c + 1) + 1 = m /\ c + 1 <= n - c
    BY <1>6
  <2>5. \A k \in 1 .. m : c + 1 + k - 1 = c + k
    BY <1>6
  <2> HIDE DEF m
  <2> QED BY <1>2, <2>3, <2>4, <2>5
<1>9. 100 * Len(kept) \in n * p .. n * p + 200
  <2> DEFINE np == n * p
  <2>1. np \in Int /\ np <= 100 * m /\ 100 * m <= np + 200
    <3>1. n \in Int /\ p \in Int
      OBVIOUS
    <3> QED BY <1>6, <3>1
  <2> HIDE DEF np, m
  <2>2. 100 * m \in np .. np + 200
    BY <1>7, <2>1
  <2> QED BY <1>8, <2>2 DEF np
<1>10. ASSUME NaN \notin Range(s), NEW k \in 1 .. m
       PROVE  /\ t[c + k] \in Range(s)
              /\ 2 * Cardinality({j \in 1 .. n : ~ Below(t[c + k], s[j])}) > n - m
              /\ 2 * Cardinality({j \in 1 .. n : ~ Below(s[j], t[c + k])}) > n - m
  <2> DEFINE i == c + k
             v == t[i]
             notAbove == {j \in 1 .. n : ~ Below(v, s[j])}
             notBelow == {j \in 1 .. n : ~ Below(s[j], v)}
  <2>1. i \in 1 .. n /\ i >= c + 1 /\ n - i + 1 >= c + 1 /\ n - m = 2 * c
    BY <1>6, <1>7
  <2>2. \A j \in 1 .. n : t[j] # NaN
    BY <1>3, <1>4, <1>10 DEF Range
  <2>3. \A j \in 1 .. n - 1 : ~ Below(t[j + 1], t[j])
    BY <1>1, <1>10 DEF Sorted
  <2>4. \A h \in 1 .. n : \A j \in 1 .. h : ~ Below(t[h], t[j])
    BY <1>5, <2>2, <2>3, SortedPairs
  <2> HIDE DEF i
  <2>5. v \in Range(s)
    BY <1>3, <1>4, <2>1 DEF Range
  <2>6. i - 1 + 1 <= Cardinality(notAbove)
    <3>1. ASSUME NEW j \in 1 .. i PROVE f[j] \in notAbove
      <4>1. j \in 1 .. n
        BY <2>1
      <4>2. f[j] \in 1 .. n /\ t[j] = s[f[j]]
        BY <4>1, <1>3, <1>4
      <4>3. ~ Below(t[i], t[j])
        BY <2>1, <2>4
      <4> QED BY <4>2, <4>3
    <3>2. notAbove \in SUBSET (1 .. n) /\ 1 \in 1 .. n /\ i \in 1 .. n
      BY <2>1
    <3> HIDE DEF notAbove
    <3> QED BY <3>1, <3>2, ImageOfInterval
  <2>7. n - i + 1 <= Cardinality(notBelow)
    <3>1. ASSUME NEW j \in i .. n PROVE f[j] \in notBelow
      <4>1. j \in 1 .. n /\ i \in 1 .. j
        BY <2>1
      <4>2. f[j] \in 1 .. n /\ t[j] = s[f[j]]
        BY <4>1, <1>3, <1>4
      <4>3. ~ Below(t[j], t[i])
        BY <4>1, <2>4
      <4> QED BY <4>2, <4>3
    <3>2. notBelow \in SUBSET (1 .. n) /\ n \in i .. n /\ i \in 1 .. n
      BY <2>1
    <3> HIDE DEF notBelow
    <3> QED BY <3>1, <3>2, ImageOfInterval
  <2>8. Cardinality(notAbove) \in Nat /\ Cardinality(notBelow) \in Nat
    <3>0. 1 \in Int /\ n \in Int
      OBVIOUS
    <3>1. IsFiniteSet(1 .. n)
      BY <3>0, FS_Interval
    <3>2. notAbove \in SUBSET (1 .. n) /\ notBelow \in SUBSET (1 .. n)
      OBVIOUS
    <3> HIDE DEF notAbove, notBelow
    <3> QED BY <3>1, <3>2, FS_Subset, FS_CardinalityType
  <2>9. 2 * Cardinality(notAbove) > n - m /\ 2 * Cardinality(notBelow) > n - m
    <3> HIDE DEF notAbove, notBelow, m
    <3> QED BY <1>6, <2>1, <2>6, <2>7, <2>8
  <2> QED BY <2>5, <2>9 DEF i
<1>11. NaN \notin Range(s) => Middle(kept, s)
  <2> HIDE DEF m
  <2>1. SUFFICES ASSUME NaN \notin Range(s), NEW k \in 1 .. m
                 PROVE  LET v == kept[k]
                            notAbove == {j \in 1 .. n : ~ Below(v, s[j])}
                            notBelow == {j \in 1 .. n : ~ Below(s[j], v)}
                        IN  /\ v \in Range(s)
                            /\ 2 * Cardinality(notAbove) > n - m
                            /\ 2 * Cardinality(notBelow) > n - m
    BY <1>1, <1>8 DEF Middle
  <2>2. kept[k] = t[c + k]
    BY <1>8
  <2> QED BY <1>10, <2>1, <2>2
<1> HIDE DEF m
<1> QED BY <1>7, <1>8, <1>9, <1>11

-----------------------------------------------------------------------------
(***************************************************************************)
(* The sum over the slaves, which is a value of a sample like its parts    *)
(***************************************************************************)

\* g has the sums of s over all sets of positions in S.
IsSumsOf(g, s, S) ==
  g = [t \in SUBSET S |-> IF t = {} THEN 0 ELSE Plus(g[t \ {Max(t)}], s[Max(t)])]

SumsOf(s, S) == CHOOSE g : IsSumsOf(g, s, S)

\* Finitely many numbers have a largest one.
LEMMA MaxIn ==
  ASSUME NEW S \in SUBSET Nat, IsFiniteSet(S), S # {}
  PROVE  Max(S) \in S
<1> DEFINE Good == {T \in SUBSET S : T # {} => \E m \in T : \A y \in T : m >= y}
<1>1. ASSUME NEW T \in SUBSET S, \A U \in SUBSET T : U # T => U \in Good
      PROVE  T \in Good
  <2> SUFFICES ASSUME T # {} PROVE \E m \in T : \A y \in T : m >= y
    OBVIOUS
  <2>1. PICK x \in T : TRUE
    OBVIOUS
  <2>2. T \ {x} \in Good
    BY <1>1, <2>1
  <2>3. CASE T \ {x} = {}
    BY <2>1, <2>3
  <2>4. CASE T \ {x} # {}
    <3>1. PICK m \in T \ {x} : \A y \in T \ {x} : m >= y
      BY <2>2, <2>4
    <3>2. m \in Nat /\ x \in Nat
      OBVIOUS
    <3>3. CASE m >= x
      BY <3>1, <3>3
    <3>4. CASE x >= m
      <4>1. \A y \in T : x >= y
        BY <3>1, <3>2, <3>4
      <4> QED BY <4>1
    <3> QED BY <3>2, <3>3, <3>4
  <2> QED BY <2>3, <2>4
<1>2. S \in Good
  <2> HIDE DEF Good
  <2> QED BY <1>1, SubsetInduction
<1> QED BY <1>2 DEF Max

\* There is at most one such function on each set.
LEMMA SumsOfAgree ==
  ASSUME NEW S \in SUBSET Nat, IsFiniteSet(S), NEW s, NEW A \in SUBSET S, NEW B \in SUBSET S,
         NEW g, IsSumsOf(g, s, A), NEW h, IsSumsOf(h, s, B)
  PROVE  \A t \in SUBSET (A \cap B) : g[t] = h[t]
<1> DEFINE Good == {t \in SUBSET S : t \subseteq A \cap B => g[t] = h[t]}
<1>1. ASSUME NEW t \in SUBSET S, \A u \in SUBSET t : u # t => u \in Good
      PROVE  t \in Good
  <2> SUFFICES ASSUME t \subseteq A \cap B PROVE g[t] = h[t]
    OBVIOUS
  <2>1. CASE t = {}
    BY <2>1 DEF IsSumsOf
  <2>2. CASE t # {}
    <3> DEFINE m == Max(t)
               u == t \ {m}
    <3>1. m \in t
      BY <2>2, MaxIn, FS_Subset
    <3> HIDE DEF m
    <3>2. u \in Good /\ u \subseteq A \cap B
      BY <1>1, <3>1
    <3>3. g[u] = h[u]
      BY <3>2
    <3>4. g[t] = Plus(g[u], s[m]) /\ h[t] = Plus(h[u], s[m])
      BY <2>2 DEF IsSumsOf, m
    <3> QED BY <3>3, <3>4
  <2> QED BY <2>1, <2>2
<1>2. \A t \in SUBSET S : t \in Good
  <2> HIDE DEF Good
  <2> QED BY <1>1, SubsetInduction
<1> QED BY <1>2

\* There is such a function on each finite set of positions.
LEMMA SumsOfExist ==
  ASSUME NEW S \in SUBSET Nat, IsFiniteSet(S), NEW s
  PROVE  IsSumsOf(SumsOf(s, S), s, S)
<1> DEFINE Good == {T \in SUBSET S : \E g : IsSumsOf(g, s, T)}
<1>1. ASSUME NEW T \in SUBSET S, \A U \in SUBSET T : U # T => U \in Good
      PROVE  T \in Good
  <2> DEFINE Rest(t) == t \ {Max(t)}
             g == [t \in SUBSET T |->
                     IF t = {} THEN 0
                     ELSE Plus(SumsOf(s, Rest(t))[Rest(t)], s[Max(t)])]
  <2>1. ASSUME NEW t \in SUBSET T, t # {}
        PROVE  IsSumsOf(SumsOf(s, Rest(t)), s, Rest(t))
    <3>1. Max(t) \in t
      BY <2>1, MaxIn, FS_Subset
    <3>2. Rest(t) \in Good
      BY <1>1, <3>1
    <3> QED BY <3>2 DEF SumsOf
  <2>2. ASSUME NEW t \in SUBSET T, t # {}
        PROVE  g[Rest(t)] = SumsOf(s, Rest(t))[Rest(t)]
    <3> DEFINE u == Rest(t)
    <3>1. u \in SUBSET T
      OBVIOUS
    <3>2. CASE u = {}
      BY <2>1, <2>2, <3>1, <3>2 DEF IsSumsOf
    <3>3. CASE u # {}
      <4> DEFINE w == Rest(u)
      <4>1. IsSumsOf(SumsOf(s, u), s, u) /\ IsSumsOf(SumsOf(s, w), s, w)
        BY <2>1, <2>2, <3>1, <3>3
      <4>2. u \in SUBSET S /\ w \in SUBSET S /\ w \subseteq u \cap w
        OBVIOUS
      <4>3. SumsOf(s, u)[w] = SumsOf(s, w)[w]
        <5> HIDE DEF u, w
        <5> QED BY <4>1, <4>2, SumsOfAgree
      <4>4. SumsOf(s, u)[u] = Plus(SumsOf(s, u)[w], s[Max(u)])
        <5> HIDE DEF u
        <5> QED BY <4>1, <3>3 DEF IsSumsOf
      <4>5. g[u] = Plus(SumsOf(s, w)[w], s[Max(u)])
        BY <3>1, <3>3
      <4> QED BY <4>3, <4>4, <4>5
    <3> QED BY <3>2, <3>3
  <2>3. \A t \in SUBSET T : g[t] = IF t = {} THEN 0
                                   ELSE Plus(g[t \ {Max(t)}], s[Max(t)])
    BY <2>2
  <2>4. IsSumsOf(g, s, T)
    <3> HIDE DEF g
    <3>1. g = [t \in SUBSET T |-> g[t]]
      BY DEF g
    <3> QED BY <2>3, <3>1 DEF IsSumsOf
  <2> QED BY <2>4
<1>2. S \in Good
  <2>1. \A T \in SUBSET S : T \in Good
    <3> HIDE DEF Good
    <3> QED BY <1>1, SubsetInduction
  <2> QED BY <2>1
<1> QED BY <1>2 DEF SumsOf

\* The sum of two values is one.
LEMMA PlusType ==
  ASSUME NEW a \in Values, NEW b \in Values
  PROVE  Plus(a, b) \in Values
BY DEF Plus, Values

\* SumOf is what that function has for all positions.
LEMMA SumOfIsSums ==
  ASSUME NEW s
  PROVE  SumOf(s) = SumsOf(s, DOMAIN s)[DOMAIN s]
BY DEF SumOf, FoldLeft, MapThenFoldSet, SumsOf, IsSumsOf

\* The sum of finitely many values is one.
LEMMA SumOfType ==
  ASSUME NEW n \in Nat, NEW s \in [1 .. n -> Values]
  PROVE  SumOf(s) \in Values
<1> DEFINE S == 1 .. n
           g == SumsOf(s, S)
           Good == {t \in SUBSET S : g[t] \in Values}
<1>1. S \in SUBSET Nat /\ IsFiniteSet(S) /\ SumOf(s) = g[S]
  BY SumOfIsSums, FS_Interval
<1>2. IsSumsOf(g, s, S)
  BY <1>1, SumsOfExist
<1> HIDE DEF g
<1>3. ASSUME NEW t \in SUBSET S, \A u \in SUBSET t : u # t => u \in Good
      PROVE  t \in Good
  <2>1. CASE t = {}
    BY <1>2, <2>1 DEF IsSumsOf, Values
  <2>2. CASE t # {}
    <3> DEFINE m == Max(t)
               u == t \ {m}
    <3>1. m \in t
      BY <1>1, <2>2, MaxIn, FS_Subset
    <3>2. g[t] = Plus(g[u], s[m])
      BY <1>2, <2>2 DEF IsSumsOf
    <3> HIDE DEF m
    <3>3. g[u] \in Values /\ s[m] \in Values
      BY <1>3, <3>1
    <3> QED BY <3>2, <3>3, PlusType
  <2> QED BY <2>1, <2>2
<1>4. S \in Good
  <2> HIDE DEF Good, S
  <2> QED BY <1>1, <1>3, SubsetInduction
<1> QED BY <1>1, <1>4

-----------------------------------------------------------------------------
(***************************************************************************)
(* One line                                                                *)
(***************************************************************************)

\* What the reader has, and after it what is in the connection, are the bytes
\* that were written; and the reader is where it should be.
LineOK(l, cap) ==
  /\ l \in LineType
  /\ Len(l.buf) + Len(l.pipe) = l.written /\ l.written <= l.len
  /\ \A j \in 1 .. Len(l.buf) : l.buf[j] = j
  /\ \A j \in 1 .. Len(l.pipe) : l.pipe[j] = Len(l.buf) + j
  /\ l.at = "moving" => Len(l.buf) < l.len
  /\ l.at = "whole" => Len(l.buf) = l.len
  /\ l.at = "lost" => cap < l.len

\* A line like that arrives as it was written.
LEMMA LineIsIntact ==
  ASSUME NEW l, NEW cap, LineOK(l, cap)
  PROVE  Intact(l, cap)
<1>1. /\ l.buf \in Seq(Nat) /\ l.pipe \in Seq(Nat) /\ l.written \in Nat /\ l.len \in Nat
  BY DEF LineOK, LineType
<1>2. ASSUME l.at = "whole"
      PROVE  /\ l.buf = [j \in 1 .. l.len |-> j]
             /\ l.pipe = <<>> /\ l.written = l.len
  <2>1. Len(l.buf) = l.len
    BY <1>2 DEF LineOK
  <2>2. l.buf = [j \in 1 .. Len(l.buf) |-> l.buf[j]]
    BY <1>1, LenProperties
  <2>3. l.buf = [j \in 1 .. l.len |-> j]
    BY <2>1, <2>2 DEF LineOK
  <2>4. Len(l.pipe) = 0 /\ l.written = l.len
    BY <1>1, <2>1, LenProperties DEF LineOK
  <2>5. l.pipe = <<>>
    BY <1>1, <2>4, EmptySeq
  <2> QED BY <2>3, <2>4, <2>5
<1> QED BY <1>2 DEF Intact, LineOK

\* No line, and one that has just been formatted, are such.
LEMMA NewLineOK ==
  ASSUME NEW n \in Nat \ {0}, NEW cap
  PROVE  /\ LineOK(NoLine, cap) /\ LineOK(NewLine(n), cap)
         /\ NewLine(n).len = n /\ NewLine(n).written = 0
<1>1. <<>> \in Seq(Nat) /\ Len(<<>>) = 0
  BY EmptySeq
<1>2. NoLine \in LineType
  BY <1>1 DEF NoLine, LineType
<1>3. LineOK(NoLine, cap)
  BY <1>1, <1>2 DEF LineOK, NoLine
<1> DEFINE l == NewLine(n)
<1>4. l = [NoLine EXCEPT !.len = n, !.at = "moving"]
  BY DEF NewLine
<1> HIDE DEF l
<1>5. /\ l \in LineType /\ l.len = n /\ l.written = NoLine.written
      /\ l.buf = NoLine.buf /\ l.pipe = NoLine.pipe /\ l.at = "moving"
  BY <1>2, <1>4 DEF LineType
<1>6. LineOK(l, cap) /\ l.len = n /\ l.written = 0
  BY <1>1, <1>5 DEF LineOK, NoLine
<1> QED BY <1>3, <1>6 DEF l

\* What a sequence of bytes and another one after it are.
LEMMA BytesAfterBytes ==
  ASSUME NEW s \in Seq(Nat), NEW t \in Seq(Nat)
  PROVE  /\ s \o t \in Seq(Nat) /\ Len(s \o t) = Len(s) + Len(t)
         /\ \A j \in 1 .. Len(s) + Len(t) :
              (s \o t)[j] = IF j <= Len(s) THEN s[j] ELSE t[j - Len(s)]
BY ConcatProperties

\* A write of k bytes.
LEMMA WroteOK ==
  ASSUME NEW l, NEW cap, LineOK(l, cap), NEW k \in 1 .. l.len - l.written
  PROVE  LineOK(Wrote(l, k), cap)
<1> DEFINE p == Piece(l, k)
           q == l.pipe \o p
           n == l.written + k
           m == Wrote(l, k)
<1>1. /\ l \in LineType /\ l.buf \in Seq(Nat) /\ l.pipe \in Seq(Nat)
      /\ l.written \in Nat /\ l.len \in Nat /\ k \in Nat
      /\ Len(l.buf) \in Nat /\ Len(l.pipe) \in Nat
      /\ Len(l.buf) + Len(l.pipe) = l.written
  BY LenProperties DEF LineOK, LineType
<1>2. /\ p \in Seq(Nat) /\ Len(p) = k
      /\ \A j \in 1 .. k : p[j] = l.written + j
  <2>1. p = [j \in 1 .. k |-> l.written + j]
    BY DEF Piece
  <2>2. p \in [1 .. k -> Nat]
    BY <2>1, <1>1
  <2>3. p \in Seq(Nat)
    BY <2>2, <1>1, SeqDef
  <2>4. DOMAIN p = 1 .. k /\ DOMAIN p = 1 .. Len(p) /\ Len(p) \in Nat
    BY <2>2, <2>3, LenProperties
  <2>5. Len(p) = k
    BY <2>4, <1>1
  <2> QED BY <2>1, <2>3, <2>5
<1> HIDE DEF p
<1>3. /\ q \in Seq(Nat) /\ Len(q) = Len(l.pipe) + k
      /\ \A j \in 1 .. Len(l.pipe) + k :
           q[j] = IF j <= Len(l.pipe) THEN l.pipe[j] ELSE p[j - Len(l.pipe)]
  <2>1. /\ q \in Seq(Nat) /\ Len(q) = Len(l.pipe) + Len(p)
        /\ \A j \in 1 .. Len(l.pipe) + Len(p) :
             q[j] = IF j <= Len(l.pipe) THEN l.pipe[j] ELSE p[j - Len(l.pipe)]
    <3>1. p \in Seq(Nat) /\ l.pipe \in Seq(Nat)
      BY <1>1, <1>2
    <3> QED BY <3>1, BytesAfterBytes
  <2>2. Len(p) = k
    BY <1>2
  <2> HIDE DEF q
  <2> QED BY <2>1, <2>2
<1>4. m = [l EXCEPT !.pipe = q, !.written = n]
  BY DEF Wrote, p
<1>5. n \in Nat /\ n <= l.len
  BY <1>1
<1> HIDE DEF q, m
<1>6. ASSUME NEW j \in 1 .. Len(q) PROVE q[j] = Len(l.buf) + j
  <2>1. CASE j <= Len(l.pipe)
    <3>1. j \in 1 .. Len(l.pipe) /\ j \in 1 .. Len(l.pipe) + k
      BY <2>1, <1>1, <1>3
    <3>2. q[j] = l.pipe[j]
      BY <2>1, <3>1, <1>3
    <3> QED BY <3>1, <3>2 DEF LineOK
  <2>2. CASE j > Len(l.pipe)
    <3>1. j - Len(l.pipe) \in 1 .. k /\ j \in 1 .. Len(l.pipe) + k
      BY <2>2, <1>1, <1>3
    <3>2. q[j] = l.written + (j - Len(l.pipe))
      <4>1. q[j] = p[j - Len(l.pipe)]
        BY <2>2, <3>1, <1>1, <1>3
      <4> QED BY <3>1, <4>1, <1>2
    <3> DEFINE B == Len(l.buf)
               P == Len(l.pipe)
               W == l.written
    <3>3. j \in Nat /\ B \in Nat /\ P \in Nat /\ W \in Nat /\ B + P = W
      <4>1. j \in Nat
        OBVIOUS
      <4>2. B \in Nat /\ P \in Nat /\ W \in Nat /\ B + P = W
        BY <1>1
      <4> QED BY <4>1, <4>2
    <3>4. q[j] = W + (j - P)
      BY <3>2
    <3> HIDE DEF B, P, W
    <3>5. W + (j - P) = B + j
      BY <3>3
    <3>6. q[j] = B + j
      BY <3>4, <3>5
    <3> QED BY <3>6 DEF B
  <2> QED BY <2>1, <2>2, <1>1, <1>3
<1>7. Len(l.buf) + Len(q) = n
  <2> DEFINE B == Len(l.buf)
             P == Len(l.pipe)
             W == l.written
             Q == Len(q)
  <2>1. B \in Nat /\ P \in Nat /\ W \in Nat /\ B + P = W /\ Q = P + k /\ k \in Nat
    BY <1>1, <1>3
  <2> HIDE DEF B, P, W, Q
  <2>2. B + Q = W + k
    BY <2>1
  <2> QED BY <2>2 DEF B, W, Q
<1> HIDE DEF n
<1>8. m \in LineType
  BY <1>1, <1>3, <1>4, <1>5 DEF LineType
<1>9. m.pipe = q /\ m.written = n /\ m.buf = l.buf /\ m.len = l.len /\ m.at = l.at
  BY <1>1, <1>4 DEF LineType
<1> QED BY <1>5, <1>6, <1>7, <1>8, <1>9 DEF LineOK, m

\* A read of k bytes.
LEMMA GotOK ==
  ASSUME NEW l, NEW cap, LineOK(l, cap), NEW k \in ReadSizes(l, cap)
  PROVE  LineOK(Got(l, k), cap)
<1> DEFINE s == SubSeq(l.pipe, 1, k)
           b == l.buf \o s
           q == SubSeq(l.pipe, k + 1, Len(l.pipe))
           a == IF EndOfLine(l, b) THEN "whole" ELSE l.at
           m == Got(l, k)
<1>1. /\ l \in LineType /\ l.buf \in Seq(Nat) /\ l.pipe \in Seq(Nat)
      /\ l.written \in Nat /\ l.len \in Nat /\ l.at = "moving"
      /\ Len(l.buf) \in Nat /\ Len(l.pipe) \in Nat
      /\ k \in Nat /\ k >= 1 /\ k <= Len(l.pipe)
      /\ Len(l.buf) + Len(l.pipe) = l.written /\ l.written <= l.len
  BY LenProperties DEF LineOK, LineType, ReadSizes
<1>2. \A j \in 1 .. Len(l.pipe) : l.pipe[j] \in Nat
  BY <1>1, LenProperties
<1>3. /\ s \in Seq(Nat) /\ Len(s) = k /\ \A j \in 1 .. k : s[j] = l.pipe[j]
  <2>1. \A j \in 1 .. k : l.pipe[j] \in Nat
    BY <1>1, <1>2
  <2>2. /\ s \in Seq(Nat) /\ Len(s) = IF 1 <= k THEN k - 1 + 1 ELSE 0
        /\ \A j \in 1 .. k - 1 + 1 : s[j] = l.pipe[1 + j - 1]
    BY <1>1, <2>1, SubSeqProperties
  <2> HIDE DEF s
  <2>3. k - 1 + 1 = k /\ \A j \in 1 .. k : 1 + j - 1 = j
    BY <1>1
  <2> QED BY <1>1, <2>2, <2>3
<1>4. /\ q \in Seq(Nat) /\ Len(q) = Len(l.pipe) - k
      /\ \A j \in 1 .. Len(l.pipe) - k : q[j] = l.pipe[k + j]
  <2>1. \A j \in k + 1 .. Len(l.pipe) : l.pipe[j] \in Nat
    BY <1>1, <1>2
  <2>2. /\ q \in Seq(Nat)
        /\ Len(q) = IF k + 1 <= Len(l.pipe) THEN Len(l.pipe) - (k + 1) + 1 ELSE 0
        /\ \A j \in 1 .. Len(l.pipe) - (k + 1) + 1 : q[j] = l.pipe[k + 1 + j - 1]
    BY <1>1, <2>1, SubSeqProperties
  <2> HIDE DEF q
  <2>3. /\ Len(l.pipe) - (k + 1) + 1 = Len(l.pipe) - k
        /\ \A j \in 1 .. Len(l.pipe) - k : k + 1 + j - 1 = k + j
    BY <1>1
  <2>4. Len(q) = Len(l.pipe) - k
    BY <1>1, <2>2, <2>3
  <2> QED BY <2>2, <2>3, <2>4
<1>5. /\ b \in Seq(Nat) /\ Len(b) = Len(l.buf) + k
      /\ \A j \in 1 .. Len(l.buf) + k :
           b[j] = IF j <= Len(l.buf) THEN l.buf[j] ELSE s[j - Len(l.buf)]
  <2>1. /\ b \in Seq(Nat) /\ Len(b) = Len(l.buf) + Len(s)
        /\ \A j \in 1 .. Len(l.buf) + Len(s) :
             b[j] = IF j <= Len(l.buf) THEN l.buf[j] ELSE s[j - Len(l.buf)]
    <3>1. s \in Seq(Nat) /\ l.buf \in Seq(Nat)
      BY <1>1, <1>3
    <3> HIDE DEF s
    <3> QED BY <3>1, BytesAfterBytes
  <2>2. Len(s) = k
    BY <1>3
  <2> HIDE DEF b, s
  <2> QED BY <2>1, <2>2
<1>6. m = [l EXCEPT !.buf = b, !.pipe = q, !.at = a]
  BY DEF Got, s, q
<1> HIDE DEF s, q, b, m
<1>7. ASSUME NEW j \in 1 .. Len(b) PROVE b[j] = j
  <2>1. CASE j <= Len(l.buf)
    <3>1. j \in 1 .. Len(l.buf) /\ j \in 1 .. Len(l.buf) + k
      BY <2>1, <1>1, <1>5
    <3>2. b[j] = l.buf[j]
      BY <2>1, <3>1, <1>5
    <3> QED BY <3>1, <3>2 DEF LineOK
  <2>2. CASE j > Len(l.buf)
    <3>1. /\ j - Len(l.buf) \in 1 .. k /\ j - Len(l.buf) \in 1 .. Len(l.pipe)
          /\ j \in 1 .. Len(l.buf) + k
      <4> DEFINE B == Len(l.buf)
                 P == Len(l.pipe)
      <4>1. B \in Nat /\ P \in Nat /\ k \in Nat /\ k <= P
        BY <1>1
      <4>2. j \in 1 .. B + k /\ j > B
        BY <2>2, <1>5
      <4> HIDE DEF B, P
      <4>3. j - B \in 1 .. k /\ j - B \in 1 .. P /\ j \in 1 .. B + k
        BY <4>1, <4>2
      <4> QED BY <4>3 DEF B, P
    <3>2. b[j] = l.pipe[j - Len(l.buf)]
      <4>1. b[j] = s[j - Len(l.buf)]
        BY <2>2, <3>1, <1>1, <1>5
      <4> QED BY <3>1, <4>1, <1>3
    <3>3. b[j] = Len(l.buf) + (j - Len(l.buf))
      BY <3>1, <3>2 DEF LineOK
    <3>4. j \in Nat
      BY <3>1
    <3> QED BY <3>3, <3>4, <1>1
  <2> QED BY <2>1, <2>2, <1>1, <1>5
<1>8. ASSUME NEW j \in 1 .. Len(q) PROVE q[j] = Len(b) + j
  <2>1. k + j \in 1 .. Len(l.pipe) /\ j \in 1 .. Len(l.pipe) - k
    <3> DEFINE P == Len(l.pipe)
    <3>1. P \in Nat /\ k \in Nat /\ k <= P /\ j \in 1 .. P - k
      BY <1>1, <1>4
    <3> HIDE DEF P
    <3>2. k + j \in 1 .. P /\ j \in 1 .. P - k
      BY <3>1
    <3> QED BY <3>2 DEF P
  <2>2. q[j] = Len(l.buf) + (k + j)
    BY <2>1, <1>4 DEF LineOK
  <2> DEFINE B == Len(l.buf)
             L == Len(b)
  <2>3. L = B + k /\ j \in Nat /\ B \in Nat /\ k \in Nat /\ q[j] = B + (k + j)
    BY <2>1, <2>2, <1>1, <1>5
  <2> HIDE DEF B, L
  <2>4. B + (k + j) = L + j
    BY <2>3
  <2>5. q[j] = L + j
    BY <2>3, <2>4
  <2> QED BY <2>5 DEF L
<1>9. Len(b) + Len(q) = l.written /\ l.written <= l.len /\ Len(b) \in Nat
  <2> DEFINE B == Len(l.buf)
             P == Len(l.pipe)
             W == l.written
             L == Len(b)
             Q == Len(q)
  <2>1. /\ Q = P - k /\ L = B + k /\ B \in Nat /\ P \in Nat /\ k \in Nat
        /\ W \in Nat /\ B + P = W
    BY <1>1, <1>4, <1>5
  <2> HIDE DEF B, P, W, L, Q
  <2>2. L + Q = W /\ L \in Nat
    BY <2>1
  <2> QED BY <2>2, <1>1 DEF L, Q, W
<1>10. a = "whole" <=> Len(b) = l.len
  <2>1. Len(b) \in 1 .. Len(b)
    BY <1>1, <1>5, <1>9
  <2>2. b[Len(b)] = Len(b)
    BY <2>1, <1>7
  <2> QED BY <2>2, <1>1 DEF EndOfLine
<1>11. a \in {"moving", "whole"}
  BY <1>1
<1> HIDE DEF a
<1>12. m \in LineType
  BY <1>1, <1>4, <1>5, <1>6, <1>11 DEF LineType
<1>13. m.buf = b /\ m.pipe = q /\ m.at = a /\ m.written = l.written /\ m.len = l.len
  BY <1>1, <1>6 DEF LineType
<1>14. a = "moving" => Len(b) < l.len
  <2>1. Len(q) \in Nat
    BY <1>4, LenProperties
  <2>2. Len(b) <= l.len
    BY <2>1, <1>1, <1>9
  <2> QED BY <2>2, <1>1, <1>9, <1>10
<1> QED BY <1>7, <1>8, <1>9, <1>10, <1>11, <1>12, <1>13, <1>14 DEF LineOK, m

\* The reader has given up, because its buffer is full.
LEMMA GivenUpOK ==
  ASSUME NEW l, NEW cap, LineOK(l, cap), ReadsNoMore(l, cap)
  PROVE  LineOK(GivenUp(l), cap)
<1> DEFINE m == GivenUp(l)
<1>1. l \in LineType /\ cap < l.len
  BY DEF LineOK, ReadsNoMore
<1>2. m = [l EXCEPT !.at = "lost"]
  BY DEF GivenUp
<1> HIDE DEF m
<1>3. m \in LineType
  BY <1>1, <1>2 DEF LineType
<1>4. /\ m.at = "lost" /\ m.buf = l.buf /\ m.pipe = l.pipe
      /\ m.written = l.written /\ m.len = l.len
  BY <1>1, <1>2 DEF LineType
<1> QED BY <1>1, <1>3, <1>4 DEF LineOK, m

-----------------------------------------------------------------------------
(***************************************************************************)
(* The order and the report                                                *)
(***************************************************************************)

LinesOK == LineOK(order, OrderCap) /\ LineOK(report, ReportCap)

\* There are no lines at first.
LEMMA LinesOKInit ==
  ASSUME MeasurementInit
  PROVE  LinesOK
<1>1. LineOK(NoLine, OrderCap) /\ LineOK(NoLine, ReportCap)
  <2>1. 1 \in Nat \ {0}
    OBVIOUS
  <2> QED BY <2>1, NewLineOK
<1> QED BY <1>1 DEF MeasurementInit, LinesOK

\* Whoever writes or reads does so by one of these steps.
LEMMA LinesOKNext ==
  ASSUME LinesOK, MeasurementNext
  PROVE  LinesOK'
<1>1. LineOK(order, OrderCap) /\ LineOK(report, ReportCap)
  BY DEF LinesOK
<1>2. LineOK(NoLine, OrderCap) /\ LineOK(NoLine, ReportCap)
  <2>1. 1 \in Nat \ {0}
    OBVIOUS
  <2> QED BY <2>1, NewLineOK
<1>3. CASE ReadOrder
  <2>1. CASE \E k \in ReadSizes(order, OrderCap) : order' = Got(order, k)
    BY <1>1, <1>3, <2>1, GotOK DEF ReadOrder, LinesOK
  <2>2. CASE ReadsNoMore(order, OrderCap) /\ order' = GivenUp(order)
    BY <1>1, <1>3, <2>2, GivenUpOK DEF ReadOrder, LinesOK
  <2> QED BY <1>3, <2>1, <2>2 DEF ReadOrder
<1>4. CASE TakeOrder
  BY <1>1, <1>2, <1>4 DEF TakeOrder, LinesOK
<1>5. CASE Load
  BY <1>1, <1>5 DEF Load, LinesOK
<1>6. CASE ComputeStats
  <2>1. ReportLen \in Nat \ {0}
    BY MeasurementAssumption
  <2> QED BY <1>1, <1>6, <2>1, NewLineOK DEF ComputeStats, LinesOK
<1>7. CASE WriteReport
  <2>1. PICK k \in WriteSizes(report) : report' = Wrote(report, k)
    BY <1>7 DEF WriteReport
  <2>2. k \in 1 .. report.len - report.written
    BY DEF WriteSizes
  <2> QED BY <1>1, <1>7, <2>1, <2>2, WroteOK DEF WriteReport, LinesOK
<1>8. CASE ResetStats
  BY <1>1, <1>8 DEF ResetStats, LinesOK
<1>9. CASE SendOrder
  <2>1. PICK n \in OrderLens : order' = Wrote(NewLine(n), n)
    BY <1>9 DEF SendOrder
  <2>2. n \in Nat \ {0}
    BY MeasurementAssumption
  <2>3. /\ LineOK(NewLine(n), OrderCap)
        /\ NewLine(n).len = n /\ NewLine(n).written = 0
    BY <2>2, NewLineOK
  <2>4. n \in 1 .. NewLine(n).len - NewLine(n).written
    BY <2>2, <2>3
  <2> QED BY <1>1, <1>9, <2>1, <2>3, <2>4, WroteOK DEF SendOrder, LinesOK
<1>10. CASE ReadReport
  BY <1>1, <1>10, GotOK DEF ReadReport, LinesOK
<1>11. CASE ParseReports
  BY <1>1, <1>2, <1>11 DEF ParseReports, LinesOK
<1>12. CASE FillMasterStatReport
  BY <1>1, <1>12 DEF FillMasterStatReport, LinesOK
<1>13. CASE PrintStats
  BY <1>1, <1>13 DEF PrintStats, LinesOK
<1>14. CASE Terminated
  BY <1>1, <1>14 DEF Terminated, allVars, LinesOK
<1> QED BY <1>3, <1>4, <1>5, <1>6, <1>7, <1>8, <1>9, <1>10, <1>11, <1>12,
           <1>13, <1>14 DEF MeasurementNext

\* Whatever the lengths and the pieces, a line that is taken for whole is the
\* one that was written, and only a line longer than the buffer is lost.
THEOREM LinesArriveWhole == MeasurementSpec => []LinesWhole
<1>1. MeasurementInit => LinesOK
  BY LinesOKInit
<1>2. LinesOK /\ [MeasurementNext]_allVars => LinesOK'
  BY LinesOKNext DEF LinesOK, allVars
<1>3. LinesOK => LinesWhole
  BY LineIsIntact DEF LinesOK, LinesWhole
<1> QED BY <1>1, <1>2, <1>3, PTL DEF MeasurementSpec

-----------------------------------------------------------------------------
(***************************************************************************)
(* The loads of a wave                                                     *)
(***************************************************************************)

\* ClientRun's invariant holds while a load runs and until its report is
\* written; what is left when the sums are reset is typed.
LoadOK ==
  /\ RunTypeOK
  /\ exit = "no" => \A i \in Clients : ClientOK(client[i], net[i], now)
  /\ ExitExplained
  /\ slaveAt \in {"load", "report", "reset"} => TimesRight

\* ClientRun's initial states are typed, and nothing else is claimed of them.
LEMMA LoadOKInit ==
  ASSUME MeasurementInit
  PROVE  LoadOK
<1>1. IInv
  BY InitOK DEF MeasurementInit
<1> QED BY <1>1 DEF LoadOK, IInv

\* A step that leaves the variables of ClientRun alone.
LEMMA LoadOKUnchanged ==
  ASSUME LoadOK, UNCHANGED vars,
         slaveAt' \in {"load", "report", "reset"} =>
           slaveAt \in {"load", "report", "reset"}
  PROVE  LoadOK' /\ [AnswerStep]_vars
BY DEF LoadOK, vars, RunTypeOK, TimesRight, ExitExplained, Reading

\* A step that counts no answer of any client.
LEMMA NothingCounted ==
  ASSUME client \in [Clients -> ClientType],
         \/ client' = client
         \/ client' = [i \in Clients |-> NewClient]
  PROVE  AnswerStep
<1>1. ASSUME NEW j \in Clients
      PROVE  ~ (client'[j].total_resp_recv > client[j].total_resp_recv)
  <2>1. client[j].total_resp_recv \in Nat
    BY DEF ClientType
  <2>2. CASE client' = client
    BY <2>1, <2>2
  <2>3. CASE client' = [i \in Clients |-> NewClient]
    <3>1. client'[j].total_resp_recv = 0
      BY <2>3 DEF NewClient
    <3> QED BY <2>1, <3>1
  <2> QED BY <2>2, <2>3
<1> QED BY <1>1 DEF AnswerStep, AnswerCounted

\* init_clients starts from new clients and from sums that are zero.
LEMMA TakeOrderOK ==
  ASSUME LoadOK, exit = "no", TakeOrder
  PROVE  LoadOK' /\ AnswerStep
<1>1. RunTypeOK /\ client \in [Clients -> ClientType] /\ stats \in StatsType
  BY DEF LoadOK, RunTypeOK
<1>2. CASE /\ exit' = "assertion"
           /\ UNCHANGED <<client, net, stats, took, taken, slaveVars, order>>
  <2>1. LoadOK'
    BY <1>2 DEF TakeOrder, LoadOK, RunTypeOK, TimesRight, ExitExplained, slaveVars
  <2> QED BY <1>1, <1>2, <2>1, NothingCounted
<1>3. CASE /\ client' = [i \in Clients |-> NewClient]
           /\ net' = [i \in Clients |-> NewConnection]
           /\ stats' = InitStats(stats)
           /\ took' = NothingTook /\ taken' = NothingTaken
           /\ UNCHANGED exit
  <2>1. ClientOK(NewClient, NewConnection, now)
    BY NewClientOK
  <2>2. /\ NewClient \in ClientType /\ NewConnection \in ConnectionType
        /\ Len(NewClient.read_hdr_buf) <= MaxHdr
    BY <2>1 DEF ClientOK
  <2>3. /\ stats' \in StatsType
        /\ stats'.avgCT = 0 /\ stats'.nb_CT = 0 /\ stats'.avgRT = 0
        /\ stats'.nb_RT = 0 /\ stats'.avgCRT = 0
    BY <1>1, <1>3 DEF InitStats, StatsType
  <2>4. took' \in TookType /\ taken' \in [bytes : Nat, nothings : Nat]
    BY <1>3 DEF NothingTook, NothingTaken, TookType
  <2>5. UNCHANGED <<now, used>>
    BY DEF TakeOrder
  <2>6. RunTypeOK'
    BY <1>1, <1>3, <2>2, <2>3, <2>4, <2>5 DEF RunTypeOK
  <2>7. TimesRight'
    BY <1>3, <2>3 DEF TimesRight, NothingTook
  <2>8. \A i \in Clients : ClientOK(client'[i], net'[i], now')
    BY <1>3, <2>1, <2>5
  <2>9. ExitExplained'
    BY <1>3 DEF ExitExplained
  <2> QED BY <1>1, <1>3, <2>6, <2>7, <2>8, <2>9, NothingCounted DEF LoadOK
<1> QED BY <1>2, <1>3 DEF TakeOrder

\* Reading an order does not touch the clients.
LEMMA ReadOrderOK ==
  ASSUME LoadOK, exit = "no", ReadOrder
  PROVE  LoadOK' /\ AnswerStep
<1>1. RunTypeOK /\ client \in [Clients -> ClientType]
  BY DEF LoadOK, RunTypeOK
<1>2. /\ UNCHANGED <<now, client, net, stats, took, taken, used, slaveAt>>
      /\ exit' \in {"no", "order"}
  BY DEF ReadOrder, slaveVars
<1>3. LoadOK'
  BY <1>2 DEF LoadOK, RunTypeOK, TimesRight, ExitExplained
<1> QED BY <1>1, <1>2, <1>3, NothingCounted

\* reset_stats leaves sums that are typed.
LEMMA ResetStatsOK ==
  ASSUME LoadOK, exit = "no", ResetStats
  PROVE  LoadOK' /\ AnswerStep
<1>1. RunTypeOK /\ client \in [Clients -> ClientType]
  BY DEF LoadOK, RunTypeOK
<1>2. /\ UNCHANGED <<now, client, net, exit, took, taken, used>>
      /\ slaveAt' = "order" /\ stats' = NoStats
  BY DEF ResetStats
<1>3. NoStats \in StatsType
  BY DEF NoStats, StatsType
<1>4. LoadOK'
  BY <1>2, <1>3 DEF LoadOK, RunTypeOK, ExitExplained
<1> QED BY <1>1, <1>2, <1>4, NothingCounted

\* Steps of a load are ClientRun's, the others leave the clients alone.
LEMMA LoadOKNext ==
  ASSUME LoadOK, MeasurementNext
  PROVE  LoadOK' /\ [AnswerStep]_vars
<1>1. CASE exit = "no" /\ ReadOrder
  BY <1>1, ReadOrderOK
<1>2. CASE exit = "no" /\ TakeOrder
  BY <1>2, TakeOrderOK
<1>3. CASE exit = "no" /\ Load
  <2>1. IInv /\ Next
    BY <1>3 DEF Load, LoadOK, IInv
  <2>2. IInv' /\ AnswerStep
    BY <2>1, NextOK
  <2> QED BY <2>2 DEF LoadOK, IInv
<1>4. CASE ComputeStats
  BY <1>4, LoadOKUnchanged DEF ComputeStats
<1>5. CASE WriteReport
  BY <1>5, LoadOKUnchanged DEF WriteReport
<1>6. CASE exit = "no" /\ ResetStats
  BY <1>6, ResetStatsOK
<1>7. CASE SendOrder \/ ReadReport \/ ParseReports \/ FillMasterStatReport \/ PrintStats
  <2>1. UNCHANGED vars /\ UNCHANGED slaveAt
    BY <1>7 DEF SendOrder, ReadReport, ParseReports, FillMasterStatReport,
                PrintStats, slaveVars
  <2> QED BY <2>1, LoadOKUnchanged
<1>8. CASE Terminated
  <2>1. UNCHANGED vars /\ UNCHANGED slaveAt
    BY <1>8 DEF Terminated, allVars, slaveVars
  <2> QED BY <2>1, LoadOKUnchanged
<1> QED BY <1>1, <1>2, <1>3, <1>4, <1>5, <1>6, <1>7, <1>8 DEF MeasurementNext

\* So do stuttering steps.
LEMMA LoadOKUnchangedAll ==
  ASSUME LoadOK, UNCHANGED allVars
  PROVE  LoadOK' /\ [AnswerStep]_vars
BY LoadOKUnchanged DEF allVars, slaveVars

\* The invariant of the loads, with what it says of each step.
LEMMA LoadsAreOK == MeasurementSpec => []LoadOK /\ [][AnswerStep]_vars
<1>1. MeasurementInit => LoadOK
  BY LoadOKInit
<1>2. LoadOK /\ [MeasurementNext]_allVars => LoadOK' /\ [AnswerStep]_vars
  BY LoadOKNext, LoadOKUnchangedAll
<1> QED BY <1>1, <1>2, PTL DEF MeasurementSpec

\* What ClientsServeHonestAnswers says of one run holds in every load of a wave:
\* nothing that the loads before have left makes a client wait or give up that
\* was only given answers that do not mislead.
THEOREM EveryLoadServesHonestAnswers == MeasurementSpec => []HonestAnswersServed
<1>1. ASSUME LoadOK PROVE HonestAnswersServed
  <2>1. ASSUME NEW i \in Clients PROVE Waits(i)
    <3>1. CASE exit = "no"
      BY <1>1, <3>1, NobodyWaitsInVain DEF LoadOK
    <3>2. CASE exit # "no"
      BY <3>2 DEF Waits
    <3> QED BY <3>1, <3>2
  <2>2. ExitExplained
    BY <1>1 DEF LoadOK
  <2> QED BY <2>1, <2>2 DEF HonestAnswersServed, ExitExplained, Explains, Waits
<1> QED BY <1>1, LoadsAreOK, PTL

\* What CountedAnswersAreWhole says of one run holds in every load of a wave, of
\* connections without a misleading answer.
THEOREM EveryLoadCountsWholeAnswers == MeasurementSpec => AnswersWhole
<1>1. [AnswerStep]_vars <=>
        [\A i \in Clients :
           AnswerCounted(i) =>
             LET c == net'[i]
             IN  \/ c.odd
                 \/ /\ ~ c.owed /\ c.text = <<>> /\ Has(c.cur.hdr, "200-OK")
                    /\ Len(c.cur.body) = Announced(c.cur)]_vars
  BY DEF AnswerStep, Whole
<1> QED BY <1>1, LoadsAreOK, PTL DEF AnswersWhole

-----------------------------------------------------------------------------
(***************************************************************************)
(* The books of a load: what the clients' counters, and what is still on   *)
(* its way to them, add up to.                                             *)
(***************************************************************************)

\* What is entered for client c with its connection w.  due: an error that a
\* fault has already provided for.
Book(c, w) ==
  [errors |-> c.errors, answers |-> c.total_resp_recv,
   open |-> c.nbRequestsOnIteration, bytes |-> c.total_bytes_recv,
   unread |-> Unread(w),
   due |-> IF c.state # "CONNECT" /\ w.fin THEN 1 ELSE 0]
BookType == [errors : Nat, answers : Nat, open : Nat, bytes : Nat, unread : Nat,
             due : Nat]

books == [i \in Clients |-> Book(client[i], net[i])]
InBooks(field) == TotalOf(books, field, Clients)

\* x and y are the same unsigned long.
SameWord(x, y) == \E m \in Int : x = y + m * Word

\* The books agree with what was done in the load, and there is never more of
\* it than the bytes of the server and the faults of the environment have
\* provided for, when no answer is longer than len bytes: each answer and each
\* error takes at least a byte or a fault, although a byte in excess of one
\* answer may make another.
Agree(len) ==
  /\ InBooks("errors") = took.errors
  /\ InBooks("answers") = took.answers
  /\ stats.nb_CRT + InBooks("open") = took.answers
  /\ SameWord(InBooks("bytes"), taken.bytes - taken.nothings)
  /\ took.answers + took.errors + InBooks("due") <= taken.bytes + used.faults
  /\ taken.bytes + InBooks("unread") <= used.replies * len
  /\ taken.nothings <= used.faults

\* What a step enters for client i when its counters go from b to d.
Entered(b, d, len) ==
  /\ d.errors - b.errors = took'.errors - took.errors
  /\ d.answers - b.answers = took'.answers - took.answers
  /\ stats'.nb_CRT + d.open - (stats.nb_CRT + b.open) = took'.answers - took.answers
  /\ SameWord(d.bytes - b.bytes,
              (taken'.bytes - taken'.nothings) - (taken.bytes - taken.nothings))
  /\ took'.answers + took'.errors + d.due + taken.bytes + used.faults
       <= took.answers + took.errors + b.due + taken'.bytes + used'.faults
  /\ taken'.bytes + d.unread + used.replies * len
       <= taken.bytes + b.unread + used'.replies * len
  /\ taken'.nothings + used.faults <= taken.nothings + used'.faults

\* The clients are finitely many.
LEMMA ClientsAreFinite == IsFiniteSet(Clients)
<1>1. 0 \in Int /\ N - 1 \in Int
  BY ClientRunAssumption
<1> QED BY <1>1, FS_Interval DEF Clients

\* What is unread is so many bytes.
LEMMA UnreadTyped ==
  ASSUME NEW w \in ConnectionType
  PROVE  Unread(w) \in Nat
BY LenProperties DEF Unread, ConnectionType

\* An entry is made of numbers.
LEMMA BookTyped ==
  ASSUME NEW c \in ClientType, NEW w \in ConnectionType
  PROVE  Book(c, w) \in BookType
<1>1. /\ c.errors \in Nat /\ c.total_resp_recv \in Nat
      /\ c.nbRequestsOnIteration \in Nat /\ c.total_bytes_recv \in Nat
  BY ClientRunAssumption, TimeArithAssumption DEF ClientType
<1>2. Unread(w) \in Nat
  BY UnreadTyped
<1> QED BY <1>1, <1>2 DEF Book, BookType

\* All entries are.
LEMMA BooksTyped ==
  ASSUME RunTypeOK
  PROVE  books \in [Clients -> BookType]
BY BookTyped DEF RunTypeOK, books

\* The sums are numbers.
LEMMA InBooksTyped ==
  ASSUME RunTypeOK
  PROVE  /\ InBooks("errors") \in Nat /\ InBooks("answers") \in Nat
         /\ InBooks("open") \in Nat /\ InBooks("bytes") \in Nat
         /\ InBooks("unread") \in Nat /\ InBooks("due") \in Nat
<1>1. books \in [Clients -> BookType]
  BY BooksTyped
<1>2. \A i \in Clients :
        /\ books[i].errors \in Nat /\ books[i].answers \in Nat /\ books[i].open \in Nat
        /\ books[i].bytes \in Nat /\ books[i].unread \in Nat /\ books[i].due \in Nat
  BY <1>1 DEF BookType
<1> HIDE DEF books
<1> QED BY <1>2, ClientsAreFinite, TotalType DEF InBooks

\* An entry for one client changes the sums by what it changes there.
LEMMA EntryInBooks ==
  ASSUME RunTypeOK, RunTypeOK', NEW i \in Clients,
         \A j \in Clients \ {i} : books'[j] = books[j],
         NEW field \in {"errors", "answers", "open", "bytes", "unread", "due"}
  PROVE  InBooks(field)' = InBooks(field) - books[i][field] + books'[i][field]
<1>1. books \in [Clients -> BookType] /\ books' \in [Clients -> BookType]
  BY BooksTyped, BookTyped DEF RunTypeOK, books
<1>2. \A b \in BookType : b[field] \in Nat
  BY DEF BookType
<1>3. \A j \in Clients : books[j][field] \in Nat /\ books'[j][field] \in Nat
  BY <1>1, <1>2
<1>4. InBooks(field)' = TotalOf(books', field, Clients)
  BY DEF InBooks, Clients
<1> DEFINE c == books
           d == books'
<1>5. /\ \A j \in Clients \ {i} : c[j][field] = d[j][field]
      /\ \A j \in Clients : c[j][field] \in Nat /\ d[j][field] \in Nat
  BY <1>3
<1> HIDE DEF books, c, d
<1>6. TotalOf(d, field, Clients) = TotalOf(c, field, Clients) - c[i][field] + d[i][field]
  BY <1>5, ClientsAreFinite, TotalChange
<1> QED BY <1>4, <1>6 DEF InBooks, c, d

\* Sums of words that are the same, are.
LEMMA SameWordAdds ==
  ASSUME NEW x \in Int, NEW y \in Int, NEW u \in Int, NEW v \in Int,
         SameWord(x, y), SameWord(u, v)
  PROVE  SameWord(x + u, y + v)
<1>1. PICK m \in Int : x = y + m * Word
  BY DEF SameWord
<1>2. PICK n \in Int : u = v + n * Word
  BY DEF SameWord
<1>3. (m + n) * Word = m * Word + n * Word
  BY TimeArithAssumption, Z3
<1>4. m * Word \in Int /\ n * Word \in Int
  BY TimeArithAssumption
<1>5. x + u = y + v + (m + n) * Word
  <2> DEFINE a == m * Word
             b == n * Word
  <2>1. x = y + a /\ u = v + b /\ (m + n) * Word = a + b /\ a \in Int /\ b \in Int
    BY <1>1, <1>2, <1>3, <1>4
  <2> HIDE DEF a, b
  <2> QED BY <2>1
<1>6. m + n \in Int
  OBVIOUS
<1> QED BY <1>5, <1>6 DEF SameWord

\* The books agree after an entry if they did before.
LEMMA EntryAgrees ==
  ASSUME RunTypeOK, RunTypeOK', NEW i \in Clients, NEW len \in Nat, Agree(len),
         NEW b, NEW d, books[i] = b, books'[i] = d,
         \A j \in Clients \ {i} : books'[j] = books[j],
         Entered(b, d, len)
  PROVE  Agree(len)'
<1>1. /\ took \in TookType /\ took' \in TookType
      /\ stats \in StatsType /\ stats' \in StatsType
      /\ taken \in [bytes : Nat, nothings : Nat] /\ taken' \in [bytes : Nat, nothings : Nat]
      /\ used \in [replies : 0 .. MaxReplies, faults : 0 .. MaxFaults]
      /\ used' \in [replies : 0 .. MaxReplies, faults : 0 .. MaxFaults]
  BY DEF RunTypeOK
<1>2. /\ took.errors \in Nat /\ took.answers \in Nat
      /\ took'.errors \in Nat /\ took'.answers \in Nat
      /\ stats.nb_CRT \in Nat /\ stats'.nb_CRT \in Nat
      /\ taken.bytes \in Nat /\ taken.nothings \in Nat
      /\ taken'.bytes \in Nat /\ taken'.nothings \in Nat
      /\ used.replies \in Nat /\ used.faults \in Nat
      /\ used'.replies \in Nat /\ used'.faults \in Nat
  BY <1>1, ClientRunAssumption DEF TookType, StatsType
<1>3. used.replies * len \in Nat /\ used'.replies * len \in Nat
  BY <1>2
<1>4. /\ InBooks("errors")' = InBooks("errors") - b.errors + d.errors
      /\ InBooks("answers")' = InBooks("answers") - b.answers + d.answers
      /\ InBooks("open")' = InBooks("open") - b.open + d.open
      /\ InBooks("bytes")' = InBooks("bytes") - b.bytes + d.bytes
      /\ InBooks("unread")' = InBooks("unread") - b.unread + d.unread
      /\ InBooks("due")' = InBooks("due") - b.due + d.due
  <2> HIDE DEF books
  <2> QED BY EntryInBooks
<1>5. /\ InBooks("errors") \in Nat /\ InBooks("answers") \in Nat
      /\ InBooks("open") \in Nat /\ InBooks("bytes") \in Nat
      /\ InBooks("unread") \in Nat /\ InBooks("due") \in Nat
  BY InBooksTyped
<1>6. b \in BookType /\ d \in BookType
  BY BookTyped DEF RunTypeOK, books
<1>7. /\ b.errors \in Nat /\ b.answers \in Nat /\ b.open \in Nat /\ b.bytes \in Nat
      /\ b.unread \in Nat /\ b.due \in Nat
      /\ d.errors \in Nat /\ d.answers \in Nat /\ d.open \in Nat /\ d.bytes \in Nat
      /\ d.unread \in Nat /\ d.due \in Nat
  BY <1>6 DEF BookType
<1> HIDE DEF books, InBooks
<1>8. InBooks("errors")' = took'.errors /\ InBooks("answers")' = took'.answers
  <2>1. /\ InBooks("errors") = took.errors /\ InBooks("answers") = took.answers
        /\ d.errors - b.errors = took'.errors - took.errors
        /\ d.answers - b.answers = took'.answers - took.answers
    BY DEF Agree, Entered
  <2> QED BY <2>1, <1>2, <1>4, <1>5, <1>7
<1>9. stats'.nb_CRT + InBooks("open")' = took'.answers
  <2>1. /\ stats.nb_CRT + InBooks("open") = took.answers
        /\ stats'.nb_CRT + d.open - (stats.nb_CRT + b.open) = took'.answers - took.answers
    BY DEF Agree, Entered
  <2> QED BY <2>1, <1>2, <1>4, <1>5, <1>7
<1>10. SameWord(InBooks("bytes")', taken'.bytes - taken'.nothings)
  <2> DEFINE x == InBooks("bytes")
             u == d.bytes - b.bytes
             y == taken.bytes - taken.nothings
             v == (taken'.bytes - taken'.nothings) - y
  <2>1. x \in Int /\ u \in Int /\ y \in Int /\ v \in Int
    BY <1>2, <1>5, <1>7
  <2>2. SameWord(x, y) /\ SameWord(u, v)
    BY DEF Agree, Entered
  <2>3. x + u = InBooks("bytes")' /\ y + v = taken'.bytes - taken'.nothings
    BY <1>2, <1>4, <1>5, <1>7
  <2> HIDE DEF x, u, y, v
  <2>4. SameWord(x + u, y + v)
    BY <2>1, <2>2, SameWordAdds
  <2> QED BY <2>3, <2>4
<1>11. took'.answers + took'.errors + InBooks("due")' <= taken'.bytes + used'.faults
  BY <1>2, <1>4, <1>5, <1>7 DEF Agree, Entered
<1>12. taken'.bytes + InBooks("unread")' <= used'.replies * len
  <2> DEFINE p == used.replies * len
             q == used'.replies * len
  <2>1. p \in Nat /\ q \in Nat
    BY <1>3
  <2>2. /\ taken.bytes + InBooks("unread") <= p
        /\ taken'.bytes + d.unread + p <= taken.bytes + b.unread + q
    BY DEF Agree, Entered
  <2> HIDE DEF p, q
  <2>3. taken'.bytes + InBooks("unread")' <= q
    BY <2>1, <2>2, <1>2, <1>4, <1>5, <1>7
  <2> QED BY <2>3 DEF q
<1>13. taken'.nothings <= used'.faults
  BY <1>2 DEF Agree, Entered
<1> QED BY <1>8, <1>9, <1>10, <1>11, <1>12, <1>13 DEF Agree

-----------------------------------------------------------------------------
(***************************************************************************)
(* What each step of a load enters                                         *)
(***************************************************************************)

\* A step of client i, to c, and of its connection, to w, and what it enters.
LEMMA StepAgrees ==
  ASSUME RunTypeOK, RunTypeOK', NEW i \in Clients, NEW len \in Nat, Agree(len),
         NEW c, NEW w, Moved(i, c, w),
         Entered(Book(client[i], net[i]), Book(c, w), len)
  PROVE  Agree(len)'
<1>1. client \in [Clients -> ClientType] /\ net \in [Clients -> ConnectionType]
  BY DEF RunTypeOK
<1>2. /\ client'[i] = c /\ net'[i] = w
      /\ \A j \in Clients \ {i} : client'[j] = client[j] /\ net'[j] = net[j]
  BY <1>1 DEF Moved
<1>3. /\ books[i] = Book(client[i], net[i]) /\ books'[i] = Book(c, w)
      /\ \A j \in Clients \ {i} : books'[j] = books[j]
  BY <1>2 DEF books
<1> HIDE DEF books
<1> QED BY <1>3, EntryAgrees

\* change_state leaves all counters but that of the connection alone.
LEMMA ChangeStateKeeps ==
  ASSUME NEW c \in CountingType, NEW new \in {"WRITING", "CONNECT"}
  PROVE  LET d == ChangeState(c, new)
         IN  /\ d.state = new /\ d.errors = c.errors
             /\ d.total_resp_recv = c.total_resp_recv
             /\ d.total_bytes_recv = c.total_bytes_recv
             /\ d.nbRequestsOnIteration =
                  IF new = "CONNECT" THEN 0 ELSE c.nbRequestsOnIteration
<1>1. CASE new = "WRITING"
  <2>1. ChangeState(c, new) = [c EXCEPT !.state = "WRITING", !.bytes_read = 0,
                                        !.header_length = 0, !.content_length = 0,
                                        !.read_hdr_buf = <<>>]
    BY <1>1 DEF ChangeState
  <2> QED BY <1>1, <2>1 DEF CountingType
<1>2. CASE new = "CONNECT"
  <2>1. ChangeState(c, new) = [c EXCEPT !.state = "CONNECT", !.bytes_read = 0,
                                        !.header_length = 0, !.content_length = 0,
                                        !.nbRequestsOnIteration = 0]
    BY <1>2 DEF ChangeState
  <2> QED BY <1>2, <2>1 DEF CountingType
<1> QED BY <1>1, <1>2

\* Nothing is the same as nothing.
LEMMA SameWordReflexive ==
  ASSUME NEW x \in Int
  PROVE  SameWord(x, x)
<1>1. x = x + 0 * Word
  BY TimeArithAssumption
<1> QED BY <1>1 DEF SameWord

\* An entry of nothing.
LEMMA NothingEntered ==
  ASSUME RunTypeOK, NEW len \in Nat, NEW b \in BookType, NEW d \in BookType,
         d.errors = b.errors, d.answers = b.answers, d.open = b.open,
         d.bytes = b.bytes, d.unread <= b.unread, d.due <= b.due,
         took'.errors = took.errors, took'.answers = took.answers,
         stats'.nb_CRT = stats.nb_CRT,
         UNCHANGED <<taken, used>>
  PROVE  Entered(b, d, len)
<1>1. /\ took.errors \in Nat /\ took.answers \in Nat /\ stats.nb_CRT \in Nat
      /\ taken.bytes \in Nat /\ taken.nothings \in Nat
      /\ used.replies \in Nat /\ used.faults \in Nat
  BY ClientRunAssumption DEF RunTypeOK, TookType, StatsType
<1>2. used.replies * len \in Nat
  BY <1>1
<1>3. /\ b.errors \in Nat /\ b.answers \in Nat /\ b.open \in Nat /\ b.bytes \in Nat
      /\ b.unread \in Nat /\ b.due \in Nat /\ d.unread \in Nat /\ d.due \in Nat
  BY DEF BookType
<1>4. SameWord(0, 0)
  BY SameWordReflexive
<1>5. /\ d.bytes - b.bytes = 0
      /\ (taken'.bytes - taken'.nothings) - (taken.bytes - taken.nothings) = 0
  BY <1>1, <1>3
<1>6. taken'.bytes + d.unread + used.replies * len
        <= taken.bytes + b.unread + used'.replies * len
  <2> DEFINE p == used.replies * len
  <2>1. p \in Nat /\ used'.replies * len = p /\ taken'.bytes = taken.bytes
    BY <1>2
  <2> HIDE DEF p
  <2>2. taken'.bytes + d.unread + p <= taken.bytes + b.unread + p
    BY <2>1, <1>1, <1>3
  <2> QED BY <2>1, <2>2 DEF p
<1>7. SameWord(d.bytes - b.bytes,
              (taken'.bytes - taken'.nothings) - (taken.bytes - taken.nothings))
  BY <1>4, <1>5
<1>8. taken'.nothings + used.faults <= taken.nothings + used'.faults
  BY <1>1
<1>9. took'.answers + took'.errors + d.due + taken.bytes + used.faults
        <= took.answers + took.errors + b.due + taken'.bytes + used'.faults
  BY <1>1, <1>3
<1> QED BY <1>1, <1>3, <1>6, <1>7, <1>8, <1>9 DEF Entered

\* A connect.
LEMMA InitClientSocketAgrees ==
  ASSUME IInv, exit = "no", RunTypeOK', NEW len \in Nat, Agree(len),
         NEW i \in Clients, InitClientSocket(i)
  PROVE  Agree(len)'
<1> DEFINE tv == Timeval(now)
           c == [client[i] EXCEPT !.fd = TRUE, !.CTstart = tv, !.CRTstart = tv]
<1>1. RunTypeOK
  BY DEF IInv
<1>2. client[i] \in ClientType /\ net[i] \in ConnectionType
  BY <1>1 DEF RunTypeOK
<1>3. Moved(i, c, NewConnection)
  BY <1>1 DEF InitClientSocket, Moved, RunTypeOK
<1>4. c = client'[i] /\ NewConnection = net'[i]
  BY <1>1, <1>3 DEF Moved, RunTypeOK
<1>5. c \in ClientType /\ NewConnection \in ConnectionType
  BY <1>4 DEF RunTypeOK
<1>6. /\ c.errors = client[i].errors /\ c.total_resp_recv = client[i].total_resp_recv
      /\ c.nbRequestsOnIteration = client[i].nbRequestsOnIteration
      /\ c.total_bytes_recv = client[i].total_bytes_recv
      /\ c.state = "CONNECT"
  BY <1>2 DEF InitClientSocket, ClientType
<1>7. Unread(NewConnection) = 0
  BY EmptySeq DEF Unread, NewConnection
<1> HIDE DEF c
<1> DEFINE b == Book(client[i], net[i])
           d == Book(c, NewConnection)
<1>8. b \in BookType /\ d \in BookType
  BY <1>2, <1>5, BookTyped
<1>9. /\ d.errors = b.errors /\ d.answers = b.answers /\ d.open = b.open
      /\ d.bytes = b.bytes /\ d.unread = 0 /\ d.due = 0
  BY <1>6, <1>7 DEF Book
<1>10. b.unread \in Nat /\ b.due \in Nat
  BY <1>8 DEF BookType
<1>11. UNCHANGED <<stats, took, taken, used>>
  BY DEF InitClientSocket
<1> HIDE DEF b, d
<1>12. Entered(b, d, len)
  BY <1>1, <1>8, <1>9, <1>10, <1>11, NothingEntered
<1> QED BY <1>1, <1>3, <1>12, StepAgrees DEF b, d

\* The end of a connect.
LEMMA FinalizeConnectAgrees ==
  ASSUME IInv, exit = "no", RunTypeOK', NEW len \in Nat, Agree(len),
         NEW i \in Clients, FinalizeConnect(i)
  PROVE  Agree(len)'
<1> DEFINE c == ChangeState(client[i], "WRITING")
<1>1. RunTypeOK /\ client[i].state = "CONNECT" /\ client[i].fd
  BY DEF IInv, FinalizeConnect
<1>2. client[i] \in ClientType /\ net[i] \in ConnectionType
  BY <1>1 DEF RunTypeOK
<1>3. net[i] = NewConnection
  BY <1>1 DEF IInv, ClientOK, IdleOK
<1>4. Moved(i, c, net[i])
  BY <1>1 DEF FinalizeConnect, Moved, RunTypeOK
<1>5. c = client'[i]
  BY <1>1, <1>4 DEF Moved, RunTypeOK
<1>6. c \in ClientType
  BY <1>5 DEF RunTypeOK
<1>7. /\ c.errors = client[i].errors /\ c.total_resp_recv = client[i].total_resp_recv
      /\ c.nbRequestsOnIteration = client[i].nbRequestsOnIteration
      /\ c.total_bytes_recv = client[i].total_bytes_recv
      /\ c.state = "WRITING"
  BY <1>2, ClientIsCounting, ChangeStateKeeps
<1> HIDE DEF c
<1> DEFINE b == Book(client[i], net[i])
           d == Book(c, net[i])
<1>8. b \in BookType /\ d \in BookType
  BY <1>2, <1>6, BookTyped
<1>9. /\ d.errors = b.errors /\ d.answers = b.answers /\ d.open = b.open
      /\ d.bytes = b.bytes /\ d.unread = b.unread /\ d.due = 0
  BY <1>3, <1>7 DEF Book, NewConnection
<1>10. b.unread \in Nat /\ b.due \in Nat
  BY <1>8 DEF BookType
<1>11. /\ took'.errors = took.errors /\ took'.answers = took.answers
       /\ stats'.nb_CRT = stats.nb_CRT /\ UNCHANGED <<taken, used>>
  <2>1. took \in TookType /\ stats \in StatsType
    BY <1>1 DEF RunTypeOK
  <2> QED BY <2>1 DEF FinalizeConnect, TookType, StatsType
<1> HIDE DEF b, d
<1>12. Entered(b, d, len)
  BY <1>1, <1>8, <1>9, <1>10, <1>11, NothingEntered
<1> QED BY <1>1, <1>4, <1>12, StepAgrees DEF b, d

\* A request.
LEMMA SendRequestAgrees ==
  ASSUME IInv, exit = "no", RunTypeOK', NEW len \in Nat, Agree(len),
         NEW i \in Clients, SendRequest(i)
  PROVE  Agree(len)'
<1> DEFINE tv == Timeval(now)
           c == ChangeState([client[i] EXCEPT !.RTstart = tv], "READING")
           w == [net[i] EXCEPT !.owed = TRUE]
<1>1. RunTypeOK /\ client[i].state = "WRITING"
  BY DEF IInv, SendRequest
<1>2. client[i] \in ClientType /\ net[i] \in ConnectionType
  BY <1>1 DEF RunTypeOK
<1>3. Moved(i, c, w)
  BY <1>1 DEF SendRequest, Moved, RunTypeOK
<1>4. c = client'[i] /\ w = net'[i]
  BY <1>1, <1>3 DEF Moved, RunTypeOK
<1>5. c \in ClientType /\ w \in ConnectionType
  <2>1. client'[i] \in ClientType /\ net'[i] \in ConnectionType
    BY DEF RunTypeOK
  <2> HIDE DEF c, w
  <2> QED BY <2>1, <1>4
<1>6. /\ c.errors = client[i].errors /\ c.total_resp_recv = client[i].total_resp_recv
      /\ c.nbRequestsOnIteration = client[i].nbRequestsOnIteration
      /\ c.total_bytes_recv = client[i].total_bytes_recv
      /\ c.state = "READING"
  BY <1>2 DEF ChangeState, ClientType
<1>7. w.owed /\ w.fin = net[i].fin /\ Unread(w) = Unread(net[i])
  BY <1>2 DEF ConnectionType, Unread
<1> HIDE DEF c, w
<1> DEFINE b == Book(client[i], net[i])
           d == Book(c, w)
<1>8. b \in BookType /\ d \in BookType
  BY <1>2, <1>5, BookTyped
<1>9. /\ d.errors = b.errors /\ d.answers = b.answers /\ d.open = b.open
      /\ d.bytes = b.bytes /\ d.unread = b.unread /\ d.due = b.due
  BY <1>1, <1>6, <1>7 DEF Book
<1>10. b.unread \in Nat /\ b.due \in Nat
  BY <1>8 DEF BookType
<1>11. /\ took'.errors = took.errors /\ took'.answers = took.answers
       /\ stats'.nb_CRT = stats.nb_CRT /\ UNCHANGED <<taken, used>>
  <2>1. stats \in StatsType
    BY <1>1 DEF RunTypeOK
  <2> QED BY <2>1 DEF SendRequest, StatsType
<1> HIDE DEF b, d
<1>12. Entered(b, d, len)
  BY <1>1, <1>8, <1>9, <1>10, <1>11, NothingEntered
<1> QED BY <1>1, <1>3, <1>12, StepAgrees DEF b, d

\* Client i reads k bytes: it is brought to c and its connection to w.
Reads(i, c, w, k) ==
  /\ c \in CountingType /\ c.state = "READING" /\ c.errors = client[i].errors
  /\ c.total_resp_recv = client[i].total_resp_recv
  /\ c.nbRequestsOnIteration = client[i].nbRequestsOnIteration
  /\ SameWord(c.total_bytes_recv - client[i].total_bytes_recv, k)
  /\ w \in ConnectionType /\ w.fin = net[i].fin
  /\ k \in Nat /\ Unread(w) + k = Unread(net[i])
  /\ net' = [net EXCEPT ![i] = w]
  /\ taken'.bytes = taken.bytes + k /\ taken'.nothings = taken.nothings
  /\ used' = used

\* What a read that brings client i on to d enters, and e errors and a answers.
LEMMA ReadEntered ==
  ASSUME RunTypeOK, RunTypeOK', NEW len \in Nat, Agree(len),
         NEW i \in Clients, Reading(i), NEW c, NEW w, NEW k, Reads(i, c, w, k),
         NEW d \in ClientType, client' = [client EXCEPT ![i] = d],
         NEW e \in Nat, NEW a \in Nat,
         d.errors = c.errors + e, d.total_resp_recv = c.total_resp_recv + a,
         d.total_bytes_recv = c.total_bytes_recv,
         took'.errors = took.errors + e, took'.answers = took.answers + a,
         stats'.nb_CRT + d.nbRequestsOnIteration
           = stats.nb_CRT + c.nbRequestsOnIteration + a,
         \/ e = 0 /\ a = 0 /\ d.state = "READING"
         \/ /\ e + a = 1 /\ d.state \in {"WRITING", "CONNECT"}
            /\ k > 0 \/ (w.fin /\ d.state = "CONNECT")
  PROVE  Agree(len)'
<1> DEFINE b == Book(client[i], net[i])
           f == Book(d, w)
<1>1. client[i] \in ClientType /\ net[i] \in ConnectionType
  BY DEF RunTypeOK
<1>2. b \in BookType /\ f \in BookType
  BY <1>1, BookTyped DEF Reads
<1>3. /\ b.errors \in Nat /\ b.answers \in Nat /\ b.open \in Nat /\ b.bytes \in Nat
      /\ b.unread \in Nat /\ b.due \in Nat
      /\ f.errors \in Nat /\ f.answers \in Nat /\ f.open \in Nat /\ f.bytes \in Nat
      /\ f.unread \in Nat /\ f.due \in Nat
  BY <1>2 DEF BookType
<1>4. /\ f.errors = b.errors + e /\ f.answers = b.answers + a
      /\ stats'.nb_CRT + f.open = stats.nb_CRT + b.open + a
      /\ SameWord(f.bytes - b.bytes, k)
      /\ f.unread + k = b.unread
  BY DEF Book, Reads
<1>5. f.due + e + a <= b.due + k
  <2>1. k \in Nat
    BY DEF Reads
  <2> QED BY <2>1 DEF Book, Reads, Reading
<1>6. Moved(i, d, w)
  BY DEF Moved, Reads
<1>7. /\ took.errors \in Nat /\ took.answers \in Nat /\ stats.nb_CRT \in Nat
      /\ stats'.nb_CRT \in Nat
      /\ taken.bytes \in Nat /\ taken.nothings \in Nat
      /\ used.replies \in Nat /\ used.faults \in Nat
  BY ClientRunAssumption DEF RunTypeOK, TookType, StatsType
<1>8. /\ k \in Nat /\ taken'.bytes = taken.bytes + k
      /\ taken'.nothings = taken.nothings /\ used' = used
  BY DEF Reads
<1> HIDE DEF b, f
<1>9. Entered(b, f, len)
  <2>1. /\ f.errors - b.errors = took'.errors - took.errors
        /\ f.answers - b.answers = took'.answers - took.answers
    <3>1. took'.errors - took.errors = e /\ took'.answers - took.answers = a
      BY <1>7
    <3>2. f.errors - b.errors = e /\ f.answers - b.answers = a
      BY <1>3, <1>4
    <3> QED BY <3>1, <3>2
  <2>2. stats'.nb_CRT + f.open - (stats.nb_CRT + b.open) = took'.answers - took.answers
    <3>1. took'.answers - took.answers = a
      BY <1>7
    <3>2. stats'.nb_CRT + f.open - (stats.nb_CRT + b.open) = a
      BY <1>3, <1>4, <1>7
    <3> QED BY <3>1, <3>2
  <2>3. (taken'.bytes - taken'.nothings) - (taken.bytes - taken.nothings) = k
    BY <1>7, <1>8
  <2>4. took'.answers + took'.errors + f.due + taken.bytes + used.faults
          <= took.answers + took.errors + b.due + taken'.bytes + used'.faults
    <3>1. used'.replies = used.replies /\ used'.faults = used.faults
      BY <1>8
    <3> QED BY <3>1, <1>3, <1>5, <1>7, <1>8
  <2>5. taken'.bytes + f.unread + used.replies * len
          <= taken.bytes + b.unread + used'.replies * len
    <3> DEFINE p == used.replies * len
    <3>1. p \in Nat /\ used'.replies * len = p
      BY <1>7, <1>8
    <3> HIDE DEF p
    <3>2. taken'.bytes + f.unread + p <= taken.bytes + b.unread + p
      BY <3>1, <1>3, <1>4, <1>7, <1>8
    <3> QED BY <3>1, <3>2 DEF p
  <2>6. taken'.nothings + used.faults <= taken.nothings + used'.faults
    BY <1>7, <1>8
  <2> QED BY <2>1, <2>2, <2>3, <2>4, <2>5, <2>6, <1>4 DEF Entered
<1> QED BY <1>6, <1>9, StepAgrees DEF b, f

\* The bytes are in, and no more than that.
LEMMA GoOnAgrees ==
  ASSUME RunTypeOK, RunTypeOK', NEW len \in Nat, Agree(len), NEW i \in Clients,
         Reading(i), NEW c, NEW w, NEW k, Reads(i, c, w, k), GoOn(i, c)
  PROVE  Agree(len)'
<1>1. c \in ClientType /\ c.state = "READING"
  <2>1. client'[i] \in ClientType /\ client'[i] = c
    BY DEF RunTypeOK, GoOn
  <2> QED BY <2>1 DEF Reads
<1>2. /\ c.errors \in Nat /\ c.total_resp_recv \in Nat /\ took.errors \in Nat
      /\ took.answers \in Nat /\ stats.nb_CRT \in Nat /\ c.nbRequestsOnIteration \in Nat
  BY <1>1, ClientRunAssumption DEF RunTypeOK, ClientType, TookType, StatsType
<1>3. /\ client' = [client EXCEPT ![i] = c] /\ stats' = stats /\ took' = took
  BY DEF GoOn
<1>4. /\ c.errors = c.errors + 0 /\ c.total_resp_recv = c.total_resp_recv + 0
      /\ took'.errors = took.errors + 0 /\ took'.answers = took.answers + 0
      /\ stats'.nb_CRT + c.nbRequestsOnIteration
           = stats.nb_CRT + c.nbRequestsOnIteration + 0
  BY <1>2, <1>3
<1> QED BY <1>1, <1>3, <1>4, ReadEntered

\* treat_error.
LEMMA TreatErrorAgrees ==
  ASSUME RunTypeOK, RunTypeOK', NEW len \in Nat, Agree(len), NEW i \in Clients,
         Reading(i), NEW c, NEW w, NEW k, Reads(i, c, w, k), TreatError(i, c),
         k > 0 \/ w.fin
  PROVE  Agree(len)'
<1> DEFINE er == c.errors + 1
           g == [c EXCEPT !.errors = er, !.fd = FALSE]
           d == ChangeState(g, "CONNECT")
<1>1. c \in CountingType /\ er \in Nat
  BY DEF Reads, CountingType
<1>2. client' = [client EXCEPT ![i] = d]
  BY DEF TreatError
<1>3. d = client'[i]
  BY <1>2 DEF RunTypeOK
<1>4. d \in ClientType
  <2>1. client'[i] \in ClientType
    BY DEF RunTypeOK
  <2> HIDE DEF d
  <2> QED BY <2>1, <1>3
<1>5. /\ g \in CountingType /\ g.errors = er
      /\ g.total_resp_recv = c.total_resp_recv
      /\ g.total_bytes_recv = c.total_bytes_recv
  <2> HIDE DEF er
  <2> QED BY <1>1 DEF CountingType
<1> HIDE DEF g
<1>6. /\ d.state = "CONNECT" /\ d.errors = c.errors + 1
      /\ d.total_resp_recv = c.total_resp_recv
      /\ d.total_bytes_recv = c.total_bytes_recv /\ d.nbRequestsOnIteration = 0
  BY <1>5, ChangeStateKeeps
<1>7. /\ took.errors \in Nat /\ took.answers \in Nat /\ stats.nb_CRT \in Nat
      /\ c.nbRequestsOnIteration \in Nat /\ c.total_resp_recv \in Nat
  BY <1>1 DEF RunTypeOK, CountingType, TookType, StatsType
<1>8. /\ took'.errors = took.errors + 1 /\ took'.answers = took.answers
      /\ stats'.nb_CRT = stats.nb_CRT + c.nbRequestsOnIteration
  <2>1. took \in TookType /\ stats \in StatsType
    BY DEF RunTypeOK
  <2> QED BY <2>1 DEF TreatError, WithCRT, TookType, StatsType
<1> HIDE DEF d
<1>9. /\ d.total_resp_recv = c.total_resp_recv + 0
      /\ took'.answers = took.answers + 0
      /\ stats'.nb_CRT + d.nbRequestsOnIteration
           = stats.nb_CRT + c.nbRequestsOnIteration + 0
  BY <1>6, <1>7, <1>8
<1>10. 1 + 0 = 1 /\ 1 \in Nat /\ 0 \in Nat
  OBVIOUS
<1> QED BY <1>2, <1>4, <1>6, <1>8, <1>9, <1>10, ReadEntered, ZenonT(60)

\* read_complete.
LEMMA ReadCompleteAgrees ==
  ASSUME RunTypeOK, RunTypeOK', NEW len \in Nat, Agree(len), NEW i \in Clients,
         Reading(i), NEW c, NEW w, NEW k, Reads(i, c, w, k), ReadComplete(i, c),
         k > 0
  PROVE  Agree(len)'
<1> DEFINE nr == c.total_resp_recv + 1
           nq == c.nbRequestsOnIteration + 1
           g == [c EXCEPT !.total_resp_recv = nr, !.nbRequestsOnIteration = nq]
           h == [g EXCEPT !.fd = FALSE]
<1>1. /\ c \in CountingType /\ nr \in Nat /\ nq \in Nat
      /\ c.errors \in Nat /\ c.total_resp_recv \in Nat /\ c.nbRequestsOnIteration \in Nat
  BY SMTT(30) DEF Reads, CountingType
<1>2. took \in TookType /\ stats \in StatsType
  BY DEF RunTypeOK
<1>3. took.errors \in Nat /\ took.answers \in Nat /\ stats.nb_CRT \in Nat
  BY <1>2 DEF TookType, StatsType
<1>4. /\ took'.errors = took.errors /\ took'.answers = took.answers + 1
      /\ \/ /\ client' = [client EXCEPT ![i] = ChangeState(g, "WRITING")]
            /\ stats'.nb_CRT = stats.nb_CRT
         \/ /\ client' = [client EXCEPT ![i] = ChangeState(h, "CONNECT")]
            /\ stats'.nb_CRT = stats.nb_CRT + g.nbRequestsOnIteration
  BY <1>2 DEF ReadComplete, WithCRT, TookType, StatsType
<1>5. /\ g \in CountingType /\ g.errors = c.errors /\ g.total_resp_recv = nr
      /\ g.total_bytes_recv = c.total_bytes_recv /\ g.nbRequestsOnIteration = nq
  <2> HIDE DEF nr, nq
  <2> QED BY <1>1 DEF CountingType
<1> HIDE DEF g
<1>6. /\ h \in CountingType /\ h.errors = g.errors
      /\ h.total_resp_recv = g.total_resp_recv
      /\ h.total_bytes_recv = g.total_bytes_recv
      /\ h.nbRequestsOnIteration = g.nbRequestsOnIteration
  BY <1>5 DEF CountingType
<1> HIDE DEF h
<1>7. ASSUME NEW d, client' = [client EXCEPT ![i] = d],
             d.errors = c.errors, d.total_resp_recv = nr,
             d.total_bytes_recv = c.total_bytes_recv,
             d.state \in {"WRITING", "CONNECT"},
             stats'.nb_CRT + d.nbRequestsOnIteration
               = stats.nb_CRT + c.nbRequestsOnIteration + 1
      PROVE  Agree(len)'
  <2>1. d \in ClientType
    <3>1. client'[i] \in ClientType /\ client'[i] = d
      BY <1>7 DEF RunTypeOK
    <3> QED BY <3>1
  <2>2. d.errors = c.errors + 0 /\ took'.errors = took.errors + 0
    BY <1>1, <1>3, <1>4, <1>7
  <2>3. 0 + 1 = 1 /\ 1 \in Nat /\ 0 \in Nat
    OBVIOUS
  <2>4. d.total_resp_recv = c.total_resp_recv + 1 /\ took'.answers = took.answers + 1
    BY <1>4, <1>7
  <2> HIDE DEF nr, nq
  <2> QED BY <1>7, <2>1, <2>2, <2>3, <2>4, ReadEntered
<1>8. CASE /\ client' = [client EXCEPT ![i] = ChangeState(g, "WRITING")]
           /\ stats'.nb_CRT = stats.nb_CRT
  <2> DEFINE d == ChangeState(g, "WRITING")
  <2>1. /\ d.state = "WRITING" /\ d.errors = c.errors /\ d.total_resp_recv = nr
        /\ d.total_bytes_recv = c.total_bytes_recv /\ d.nbRequestsOnIteration = nq
    BY <1>5, ChangeStateKeeps
  <2> HIDE DEF d
  <2>2. stats'.nb_CRT + d.nbRequestsOnIteration
          = stats.nb_CRT + c.nbRequestsOnIteration + 1
    BY <1>1, <1>3, <1>8, <2>1
  <2> QED BY <1>7, <1>8, <2>1, <2>2 DEF d
<1>9. CASE /\ client' = [client EXCEPT ![i] = ChangeState(h, "CONNECT")]
           /\ stats'.nb_CRT = stats.nb_CRT + g.nbRequestsOnIteration
  <2> DEFINE d == ChangeState(h, "CONNECT")
  <2>1. /\ d.state = "CONNECT" /\ d.errors = c.errors /\ d.total_resp_recv = nr
        /\ d.total_bytes_recv = c.total_bytes_recv /\ d.nbRequestsOnIteration = 0
    BY <1>5, <1>6, ChangeStateKeeps
  <2> HIDE DEF d
  <2>2. stats'.nb_CRT + d.nbRequestsOnIteration
          = stats.nb_CRT + c.nbRequestsOnIteration + 1
    BY <1>1, <1>3, <1>5, <1>9, <2>1
  <2> QED BY <1>7, <1>9, <2>1, <2>2 DEF d
<1> QED BY <1>4, <1>8, <1>9

\* A read of k bytes takes them off the connection.
LEMMA UnreadDrop ==
  ASSUME NEW w \in ConnectionType, NEW k \in 1 .. Unread(w)
  PROVE  /\ k \in Nat /\ k > 0 /\ Unread(w) \in Nat
         /\ Unread(Drop(w, k)) + k = Unread(w)
<1>1. Unread(w) \in Nat
  BY UnreadTyped
<1>2. Unread(Drop(w, k)) = Unread(w) - k
  BY DropParts DEF Unread
<1> QED BY <1>1, <1>2

\* What Counted adds is ret, as unsigned longs go.
LEMMA CountedAdds ==
  ASSUME NEW x \in 0 .. Word - 1, NEW k \in Int
  PROVE  SameWord(((x + k) % Word) - x, k)
<1> DEFINE t == (x + k) % Word
<1>1. x \in Int /\ x + k \in Int
  BY TimeArithAssumption
<1>2. /\ t \in 0 .. Word - 1
      /\ \E m \in Int : x + k = m * Word + t
  BY <1>1, ModIsCongruent
<1> HIDE DEF t
<1>3. PICK m \in Int : x + k = m * Word + t
  BY <1>2
<1>4. t \in Int
  BY <1>2, TimeArithAssumption
<1>5. (- m) * Word = - (m * Word) /\ m * Word \in Int /\ - m \in Int
  BY TimeArithAssumption, Z3
<1>6. t - x = k + (- m) * Word
  <2> DEFINE p == m * Word
             q == (- m) * Word
  <2>1. q = - p /\ p \in Int /\ x + k = p + t
    BY <1>3, <1>5
  <2> HIDE DEF p, q
  <2>2. t - x = k + q
    BY <2>1, <1>1, <1>4
  <2> QED BY <2>2 DEF q
<1> QED BY <1>5, <1>6 DEF SameWord, t

\* What a read brings a client to.
LEMMA ReceivedReads ==
  ASSUME IInv, exit = "no", NEW i \in Clients, Reading(i),
         NEW k \in 1 .. Unread(net[i]), Takes(i, k)
  PROVE  Reads(i, Received(i, k), Drop(net[i], k), k)
<1> DEFINE o == client[i]
           x == o.total_bytes_recv
           t == (x + k) % Word
           r == Received(i, k)
           w == Drop(net[i], k)
<1>1. /\ o \in ClientType /\ net[i] \in ConnectionType
      /\ taken \in [bytes : Nat, nothings : Nat] /\ RunTypeOK
  BY DEF IInv, RunTypeOK
<1>2. k \in Nat /\ Unread(w) + k = Unread(net[i])
  BY <1>1, UnreadDrop
<1>3. w \in ConnectionType /\ w.fin = net[i].fin
  BY <1>1, DropParts
<1>4. x \in 0 .. Word - 1 /\ k \in Int
  BY <1>1, <1>2 DEF ClientType
<1>5. SameWord(t - x, k)
  BY <1>4, CountedAdds
<1>6. /\ r \in ClientType
      /\ \A f \in DOMAIN o \ {"bytes_read", "total_bytes_recv"} : r[f] = o[f]
  BY <1>1, <1>2, ReceivedIs
<1>7. r.total_bytes_recv = t
  BY <1>1 DEF Received, Counted, ClientType
<1> HIDE DEF t, r
<1>8. /\ r.state = o.state /\ r.errors = o.errors
      /\ r.total_resp_recv = o.total_resp_recv
      /\ r.nbRequestsOnIteration = o.nbRequestsOnIteration
  BY <1>1, <1>6 DEF ClientType
<1>9. r \in CountingType
  BY <1>6, ClientIsCounting
<1>10. /\ net' = [net EXCEPT ![i] = w] /\ used' = used
       /\ taken'.bytes = taken.bytes + k /\ taken'.nothings = taken.nothings
  BY <1>1 DEF Takes
<1> HIDE DEF w
<1> QED BY <1>2, <1>3, <1>5, <1>7, <1>8, <1>9, <1>10 DEF Reads, Reading, r, w

\* So does one into read_hdr_buf.
LEMMA BufferedReads ==
  ASSUME IInv, exit = "no", NEW i \in Clients, Reading(i),
         client[i].header_length = 0,
         NEW k \in Pieces(net[i], MaxHdr - client[i].bytes_read), Takes(i, k)
  PROVE  Reads(i, Buffered(i, k), Drop(net[i], k), k)
<1> DEFINE r == Received(i, k)
           u == Buffered(i, k)
           s == r.read_hdr_buf \o Taken(net[i], k)
<1>1. k \in 1 .. Unread(net[i]) /\ Brought(i, u)
  BY BufferedBrought
<1>2. Reads(i, r, Drop(net[i], k), k)
  BY <1>1, ReceivedReads
<1>3. u = [r EXCEPT !.read_hdr_buf = s]
  BY DEF Buffered
<1>4. u \in CountingType
  BY <1>1, ClientIsCounting DEF Brought
<1> HIDE DEF r, u, s
<1>5. r \in CountingType
  BY <1>2 DEF Reads
<1>6. /\ u.state = r.state /\ u.errors = r.errors
      /\ u.total_resp_recv = r.total_resp_recv
      /\ u.nbRequestsOnIteration = r.nbRequestsOnIteration
      /\ u.total_bytes_recv = r.total_bytes_recv
  BY <1>3, <1>5 DEF CountingType
<1> QED BY <1>2, <1>4, <1>6 DEF Reads, u

\* What the three words bring it to.
LEMMA ParsedReads ==
  ASSUME NEW i \in Clients, NEW c, NEW w, NEW k, Reads(i, c, w, k),
         Parsed(c) \in ClientType
  PROVE  Reads(i, Parsed(c), w, k)
<1> DEFINE p == Parsed(c)
           buf == c.read_hdr_buf
           hl == FirstAt(buf, "empty-line")
           cl == Atoi(buf[FirstAt(buf, "Content-Length")].number)
           br == c.bytes_read - hl
<1>1. c \in CountingType
  BY DEF Reads
<1>2. p = [c EXCEPT !.header_length = hl, !.content_length = cl, !.bytes_read = br]
  BY DEF Parsed
<1>3. p \in CountingType
  BY ClientIsCounting
<1> HIDE DEF hl, cl, br, p
<1>4. /\ p.state = c.state /\ p.errors = c.errors
      /\ p.total_resp_recv = c.total_resp_recv
      /\ p.nbRequestsOnIteration = c.nbRequestsOnIteration
      /\ p.total_bytes_recv = c.total_bytes_recv
  BY <1>1, <1>2 DEF CountingType
<1> QED BY <1>3, <1>4 DEF Reads, p

\* read_headers.
LEMMA ReadHeadersAgrees ==
  ASSUME IInv, exit = "no", RunTypeOK', exit' = "no", NEW len \in Nat, Agree(len),
         NEW i \in Clients, Reading(i), client[i].header_length = 0,
         NEW k \in Pieces(net[i], MaxHdr - client[i].bytes_read),
         ReadHeaders(i, k), Takes(i, k)
  PROVE  Agree(len)'
<1> DEFINE r == Buffered(i, k)
           v == Drop(net[i], k)
           p == Parsed(r)
           sized == Has(r.read_hdr_buf, "empty-line") /\ Has(r.read_hdr_buf, "Content-Length")
<1>1. RunTypeOK /\ net[i] \in ConnectionType
  BY DEF IInv, RunTypeOK
<1>2. /\ k \in 1 .. Unread(net[i]) /\ Brought(i, r)
      /\ r.bytes_read = Len(r.read_hdr_buf)
  BY BufferedBrought
<1>3. k > 0
  BY <1>1, <1>2, UnreadDrop
<1>4. Reads(i, r, v, k)
  BY BufferedReads
<1>5. \/ GoOn(i, r) \/ TreatError(i, r)
      \/ Panic("no-headers") \/ Panic("no-length")
      \/ sized /\ GoOn(i, p)
      \/ sized /\ ReadComplete(i, p)
  BY DEF ReadHeaders
<1>6. ~ Panic("no-headers") /\ ~ Panic("no-length")
  BY DEF Panic
<1>7. ASSUME sized PROVE Reads(i, p, v, k)
  <2>1. Brought(i, p)
    BY <1>2, <1>7, ParsedBrought
  <2>2. p \in ClientType
    BY <2>1 DEF Brought
  <2> QED BY <1>4, <2>2, ParsedReads
<1> HIDE DEF r, v, p, sized
<1> QED BY <1>1, <1>3, <1>4, <1>5, <1>6, <1>7, GoOnAgrees, TreatErrorAgrees,
           ReadCompleteAgrees

\* read_content.
LEMMA ReadContentAgrees ==
  ASSUME IInv, exit = "no", RunTypeOK', NEW len \in Nat, Agree(len),
         NEW i \in Clients, Reading(i), client[i].header_length > 0,
         NEW k \in Pieces(net[i], MaxHdr), ReadContent(i, k), Takes(i, k)
  PROVE  Agree(len)'
<1> DEFINE r == Received(i, k)
           v == Drop(net[i], k)
<1>1. RunTypeOK /\ net[i] \in ConnectionType
  BY DEF IInv, RunTypeOK
<1>2. k \in 1 .. Unread(net[i])
  <2>1. Unread(net[i]) \in Nat
    BY <1>1, UnreadTyped
  <2> QED BY <2>1, ClientRunAssumption DEF Pieces, Least
<1>3. k > 0
  BY <1>1, <1>2, UnreadDrop
<1>4. Reads(i, r, v, k)
  BY <1>2, ReceivedReads
<1>5. GoOn(i, r) \/ ReadComplete(i, r)
  BY DEF ReadContent
<1> HIDE DEF r, v
<1> QED BY <1>1, <1>3, <1>4, <1>5, GoOnAgrees, ReadCompleteAgrees

\* read_response.
LEMMA ReadResponseAgrees ==
  ASSUME IInv, exit = "no", RunTypeOK', exit' = "no", NEW len \in Nat, Agree(len),
         NEW i \in Clients, ReadResponse(i)
  PROVE  Agree(len)'
<1>1. Reading(i)
  BY DEF ReadResponse
<1>2. CASE /\ client[i].header_length = 0
           /\ \E k \in Pieces(net[i], MaxHdr - client[i].bytes_read) :
                ReadHeaders(i, k) /\ Takes(i, k)
  BY <1>1, <1>2, ReadHeadersAgrees
<1>3. CASE /\ client[i].header_length > 0
           /\ \E k \in Pieces(net[i], MaxHdr) : ReadContent(i, k) /\ Takes(i, k)
  BY <1>1, <1>3, ReadContentAgrees
<1> QED BY <1>2, <1>3 DEF ReadResponse, Takes

\* The end of the connection.
LEMMA ReadEofAgrees ==
  ASSUME IInv, exit = "no", RunTypeOK', exit' = "no", NEW len \in Nat, Agree(len),
         NEW i \in Clients, ReadEof(i)
  PROVE  Agree(len)'
<1> DEFINE c == client[i]
           w == net[i]
<1>1. RunTypeOK /\ Reading(i) /\ w.fin
  BY DEF IInv, ReadEof
<1>2. c \in ClientType /\ w \in ConnectionType /\ net' = [net EXCEPT ![i] = w]
  BY <1>1 DEF ReadEof, RunTypeOK
<1>3. TreatError(i, c)
  BY DEF ReadEof, Panic
<1>4. c.total_bytes_recv - c.total_bytes_recv = 0 /\ Unread(w) + 0 = Unread(w)
  BY <1>2, UnreadTyped, TimeArithAssumption DEF ClientType
<1>5. taken'.bytes = taken.bytes + 0 /\ taken'.nothings = taken.nothings /\ used' = used
  BY <1>1 DEF ReadEof, RunTypeOK
<1>6. SameWord(0, 0) /\ c \in CountingType
  BY <1>2, SameWordReflexive, ClientIsCounting
<1>7. Reads(i, c, w, 0)
  BY <1>1, <1>2, <1>4, <1>5, <1>6 DEF Reads, Reading
<1> HIDE DEF c, w
<1> QED BY <1>1, <1>3, <1>7, TreatErrorAgrees

\* A read that finds nothing.
LEMMA ReadNothingAgrees ==
  ASSUME IInv, exit = "no", RunTypeOK', NEW len \in Nat, Agree(len),
         NEW i \in Clients, ReadNothing(i)
  PROVE  Agree(len)'
<1> DEFINE o == client[i]
           x == o.total_bytes_recv
           t == (x + (-1)) % Word
           c == [o EXCEPT !.total_bytes_recv = t]
           w == net[i]
           b == Book(o, w)
           d == Book(c, w)
<1>1. RunTypeOK /\ Reading(i)
  BY DEF IInv, ReadNothing
<1>2. o \in ClientType /\ w \in ConnectionType
  BY <1>1 DEF RunTypeOK
<1>3. x \in 0 .. Word - 1 /\ -1 \in Int
  BY <1>2 DEF ClientType
<1>4. SameWord(t - x, -1) /\ t \in 0 .. Word - 1
  BY <1>3, CountedAdds, CountedFits
<1>5. Moved(i, c, w)
  BY <1>1 DEF ReadNothing, Counted, Moved, RunTypeOK
<1> HIDE DEF t
<1>6. /\ c \in ClientType /\ c.state = o.state /\ c.errors = o.errors
      /\ c.total_resp_recv = o.total_resp_recv
      /\ c.nbRequestsOnIteration = o.nbRequestsOnIteration
      /\ c.total_bytes_recv = t
  BY <1>2, <1>4 DEF ClientType
<1> HIDE DEF c
<1>7. b \in BookType /\ d \in BookType
  BY <1>2, <1>6, BookTyped
<1>8. /\ b.errors \in Nat /\ b.answers \in Nat /\ b.open \in Nat /\ b.bytes \in Nat
      /\ b.unread \in Nat /\ b.due \in Nat
  BY <1>7 DEF BookType
<1>9. /\ d.errors = b.errors /\ d.answers = b.answers /\ d.open = b.open
      /\ SameWord(d.bytes - b.bytes, -1) /\ d.unread = b.unread /\ d.due = b.due
  BY <1>4, <1>6 DEF Book
<1>10. /\ took' = took /\ stats' = stats
       /\ taken'.bytes = taken.bytes /\ taken'.nothings = taken.nothings + 1
       /\ used'.replies = used.replies /\ used'.faults = used.faults + 1
  BY <1>1 DEF ReadNothing, OneMoreFault, RunTypeOK
<1>11. /\ took.errors \in Nat /\ took.answers \in Nat /\ stats.nb_CRT \in Nat
       /\ taken.bytes \in Nat /\ taken.nothings \in Nat
       /\ used.replies \in Nat /\ used.faults \in Nat
  BY <1>1, ClientRunAssumption DEF RunTypeOK, TookType, StatsType
<1> HIDE DEF b, d
<1>12. Entered(b, d, len)
  <2>1. (taken'.bytes - taken'.nothings) - (taken.bytes - taken.nothings) = -1
    BY <1>10, <1>11
  <2>2. taken'.bytes + d.unread + used.replies * len
          <= taken.bytes + b.unread + used'.replies * len
    <3> DEFINE p == used.replies * len
    <3>1. p \in Nat /\ used'.replies * len = p
      BY <1>10, <1>11
    <3> HIDE DEF p
    <3>2. taken'.bytes + d.unread + p <= taken.bytes + b.unread + p
      BY <3>1, <1>8, <1>9, <1>10, <1>11
    <3> QED BY <3>1, <3>2 DEF p
  <2>3. /\ d.errors - b.errors = took'.errors - took.errors
        /\ d.answers - b.answers = took'.answers - took.answers
        /\ stats'.nb_CRT + d.open - (stats.nb_CRT + b.open) = took'.answers - took.answers
    BY <1>8, <1>9, <1>10, <1>11
  <2>4. took'.answers + took'.errors + d.due + taken.bytes + used.faults
          <= took.answers + took.errors + b.due + taken'.bytes + used'.faults
    BY <1>8, <1>9, <1>10, <1>11
  <2>5. taken'.nothings + used.faults <= taken.nothings + used'.faults
    BY <1>10, <1>11
  <2> QED BY <1>9, <2>1, <2>2, <2>3, <2>4, <2>5 DEF Entered
<1> QED BY <1>1, <1>5, <1>12, StepAgrees DEF b, d

\* A step of the server on the connection of client i, to w.
LEMMA ServerStepAgrees ==
  ASSUME RunTypeOK, RunTypeOK', NEW len \in Nat, Agree(len), NEW i \in Clients,
         NEW w \in ConnectionType, net' = [net EXCEPT ![i] = w],
         UNCHANGED <<client, stats, took, taken>>,
         NEW n \in Nat, NEW m \in Nat,
         used'.replies = used.replies + n, used'.faults = used.faults + m,
         Unread(w) <= Unread(net[i]) + n * len,
         Book(client[i], w).due <= Book(client[i], net[i]).due + m
  PROVE  Agree(len)'
<1> DEFINE b == Book(client[i], net[i])
           d == Book(client[i], w)
<1>1. client[i] \in ClientType /\ net[i] \in ConnectionType
  BY DEF RunTypeOK
<1>2. Moved(i, client[i], w)
  BY DEF Moved, RunTypeOK
<1>3. b \in BookType /\ d \in BookType
  BY <1>1, BookTyped
<1>4. /\ b.errors \in Nat /\ b.answers \in Nat /\ b.open \in Nat /\ b.bytes \in Nat
      /\ b.unread \in Nat /\ b.due \in Nat /\ d.unread \in Nat /\ d.due \in Nat
  BY <1>3 DEF BookType
<1>5. /\ d.errors = b.errors /\ d.answers = b.answers /\ d.open = b.open
      /\ d.bytes = b.bytes /\ d.unread <= b.unread + n * len /\ d.due <= b.due + m
  BY DEF Book
<1>6. /\ took.errors \in Nat /\ took.answers \in Nat /\ stats.nb_CRT \in Nat
      /\ taken.bytes \in Nat /\ taken.nothings \in Nat
      /\ used.replies \in Nat /\ used.faults \in Nat
  BY ClientRunAssumption DEF RunTypeOK, TookType, StatsType
<1> HIDE DEF b, d
<1>7. Entered(b, d, len)
  <2>1. /\ d.bytes - b.bytes = 0
        /\ (taken'.bytes - taken'.nothings) - (taken.bytes - taken.nothings) = 0
    BY <1>4, <1>5, <1>6
  <2>2. SameWord(0, 0)
    BY SameWordReflexive
  <2>3. taken'.bytes + d.unread + used.replies * len
          <= taken.bytes + b.unread + used'.replies * len
    <3> DEFINE p == used.replies * len
               q == n * len
    <3>1. used'.replies * len = p + q
      BY <1>6, Z3
    <3>2. p \in Nat /\ q \in Nat /\ d.unread <= b.unread + q
      BY <1>5, <1>6
    <3> HIDE DEF p, q
    <3>3. taken'.bytes + d.unread + p <= taken.bytes + b.unread + (p + q)
      BY <3>2, <1>4, <1>6
    <3> QED BY <3>1, <3>3 DEF p
  <2>4. /\ d.errors - b.errors = took'.errors - took.errors
        /\ d.answers - b.answers = took'.answers - took.answers
        /\ stats'.nb_CRT + d.open - (stats.nb_CRT + b.open) = took'.answers - took.answers
    BY <1>4, <1>5, <1>6
  <2>5. took'.answers + took'.errors + d.due + taken.bytes + used.faults
          <= took.answers + took.errors + b.due + taken'.bytes + used'.faults
    BY <1>4, <1>5, <1>6
  <2>6. taken'.nothings + used.faults <= taken.nothings + used'.faults
    BY <1>6
  <2> QED BY <2>1, <2>2, <2>3, <2>4, <2>5, <2>6 DEF Entered
<1> QED BY <1>2, <1>7, StepAgrees DEF b, d

\* No answer is longer than len bytes.
AnswersUpTo(len) == \A a \in Answers : Len(a.hdr) + Len(a.body) <= len

\* An answer.
LEMMA ServerAnswersAgrees ==
  ASSUME IInv, exit = "no", RunTypeOK', NEW len \in Nat, Agree(len),
         AnswersUpTo(len), NEW i \in Clients, ServerAnswers(i)
  PROVE  Agree(len)'
<1>1. RunTypeOK /\ net[i].owed
  BY DEF IInv, ServerAnswers
<1>2. PICK a \in Answers :
        /\ net' = [net EXCEPT ![i] = Sent(@, a)]
        /\ \/ Honest(a) /\ used' = [used EXCEPT !.replies = @ + 1]
           \/ /\ ~ Honest(a) /\ used.faults < MaxFaults
              /\ used' = [replies |-> used.replies + 1, faults |-> used.faults + 1]
  BY DEF ServerAnswers
<1> DEFINE w == Sent(net[i], a)
           u == Unread(net[i])
<1>3. /\ net' = [net EXCEPT ![i] = w] /\ net[i] \in ConnectionType
      /\ w = net'[i] /\ client[i] \in ClientType
  BY <1>1, <1>2 DEF RunTypeOK
<1>4. w \in ConnectionType
  <2>1. net'[i] \in ConnectionType
    BY DEF RunTypeOK
  <2> HIDE DEF w
  <2> QED BY <2>1, <1>3
<1>5. /\ a.hdr \in Seq(UnitType) /\ a.body \in Seq(UnitType)
      /\ net[i].text \in Seq(UnitType)
      /\ Len(a.hdr) + Len(a.body) <= len
  BY <1>3, ClientRunAssumption DEF AnswersUpTo, AnswerType, ConnectionType
<1>6. Unread(w) <= u + 1 * len
  <2> DEFINE x == net[i].text
             y == a.hdr
             z == a.body
  <2>1. w.text = x \o y \o z
    BY <1>3 DEF Sent, ConnectionType
  <2>2. /\ x \in Seq(UnitType) /\ y \in Seq(UnitType) /\ z \in Seq(UnitType)
        /\ Len(y) + Len(z) <= len /\ u = Len(x)
    BY <1>5 DEF Unread
  <2> HIDE DEF x, y, z, u, w
  <2>3. x \o y \in Seq(UnitType) /\ Len(x \o y) = Len(x) + Len(y)
    BY <2>2, ConcatProperties
  <2>4. Len((x \o y) \o z) = Len(x \o y) + Len(z)
    BY <2>2, <2>3, ConcatProperties
  <2>5. Len(x) \in Nat /\ Len(y) \in Nat /\ Len(z) \in Nat
    BY <2>2, LenProperties
  <2>6. Unread(w) = Len(x) + Len(y) + Len(z)
    BY <2>1, <2>3, <2>4 DEF Unread
  <2> QED BY <2>2, <2>5, <2>6
<1>7. w.fin = net[i].fin
  BY <1>3 DEF Sent, ConnectionType
<1> HIDE DEF w
<1>8. Book(client[i], w).due = Book(client[i], net[i]).due
  BY <1>1, <1>7 DEF Book
<1>9. Book(client[i], w) \in BookType /\ Book(client[i], net[i]) \in BookType
  BY <1>3, <1>4, BookTyped
<1>10. Book(client[i], w).due \in Nat /\ Book(client[i], net[i]).due \in Nat
  BY <1>9 DEF BookType
<1>11. /\ UNCHANGED <<client, stats, took, taken>>
       /\ used'.replies = used.replies + 1
       /\ \E m \in {0, 1} : used'.faults = used.faults + m
  <2>1. used \in [replies : 0 .. MaxReplies, faults : 0 .. MaxFaults]
    BY <1>1 DEF RunTypeOK
  <2>2. used.faults = used.faults + 0
    BY <2>1, ClientRunAssumption
  <2> QED BY <1>2, <2>1, <2>2 DEF ServerAnswers
<1>12. PICK m \in {0, 1} : used'.faults = used.faults + m
  BY <1>11
<1>13. Book(client[i], w).due <= Book(client[i], net[i]).due + m
  BY <1>8, <1>10
<1>14. 1 \in Nat /\ m \in Nat
  OBVIOUS
<1> QED BY <1>1, <1>3, <1>4, <1>6, <1>11, <1>12, <1>13, <1>14, ServerStepAgrees

\* The end of a connection.
LEMMA ServerClosesAgrees ==
  ASSUME IInv, exit = "no", RunTypeOK', NEW len \in Nat, Agree(len),
         NEW i \in Clients, ServerCloses(i)
  PROVE  Agree(len)'
<1> DEFINE w == [net[i] EXCEPT !.fin = TRUE]
<1>1. RunTypeOK /\ ~ net[i].fin
  BY DEF IInv, ServerCloses
<1>2. net' = [net EXCEPT ![i] = w] /\ net[i] \in ConnectionType /\ client[i] \in ClientType
  BY <1>1 DEF RunTypeOK, ServerCloses
<1>3. w \in ConnectionType /\ Unread(w) = Unread(net[i])
  BY <1>2 DEF ConnectionType, Unread
<1> HIDE DEF w
<1>4. Book(client[i], w).due <= Book(client[i], net[i]).due + 1
  BY <1>1, <1>3 DEF Book
<1>5. Book(client[i], w) \in BookType /\ Book(client[i], net[i]) \in BookType
  BY <1>2, <1>3, BookTyped
<1>6. /\ Book(client[i], w).due \in Nat /\ Book(client[i], net[i]).due \in Nat
      /\ Unread(net[i]) \in Nat
  BY <1>2, <1>5, UnreadTyped DEF BookType
<1>7. Book(client[i], w).due <= Book(client[i], net[i]).due + 1
  BY <1>4, <1>6
<1>8. Unread(w) <= Unread(net[i]) + 0 * len
  BY <1>3, <1>6
<1>9. /\ UNCHANGED <<client, stats, took, taken>>
      /\ used'.replies = used.replies + 0 /\ used'.faults = used.faults + 1
  <2>1. /\ used \in [replies : 0 .. MaxReplies, faults : 0 .. MaxFaults]
        /\ used' = [used EXCEPT !.faults = @ + 1]
    BY <1>1 DEF RunTypeOK, ServerCloses, OneMoreFault
  <2>2. used.replies = used.replies + 0
    BY <2>1, ClientRunAssumption
  <2> QED BY <2>1, <2>2 DEF ServerCloses
<1>10. 0 \in Nat /\ 1 \in Nat
  OBVIOUS
<1> QED BY <1>1, <1>2, <1>3, <1>7, <1>8, <1>9, <1>10, ServerStepAgrees

\* A step that leaves everything alone that the books are about.
LEMMA SameBooksAgree ==
  ASSUME NEW len \in Nat, Agree(len),
         UNCHANGED <<client, net, stats, took, taken, used>>
  PROVE  Agree(len)'
BY DEF Agree, InBooks, books

\* The books agree in every step of a load that does not end the process.
LEMMA NextAgrees ==
  ASSUME IInv, Next, exit' = "no", NEW len \in Nat, AnswersUpTo(len), Agree(len)
  PROVE  Agree(len)'
<1>1. exit = "no" /\ RunTypeOK'
  BY NextOK DEF Next, IInv
<1>2. CASE Tick
  BY <1>2, SameBooksAgree DEF Tick
<1>3. ASSUME NEW i \in Clients,
             ClientStep(i) \/ ServerAnswers(i) \/ ServerCloses(i)
      PROVE  Agree(len)'
  <2>1. CASE InitClientSocket(i)
    BY <1>1, <2>1, InitClientSocketAgrees
  <2>2. CASE FinalizeConnect(i)
    BY <1>1, <2>2, FinalizeConnectAgrees
  <2>3. CASE SendRequest(i)
    BY <1>1, <2>3, SendRequestAgrees
  <2>4. CASE ReadResponse(i)
    BY <1>1, <2>4, ReadResponseAgrees
  <2>5. CASE ReadEof(i)
    BY <1>1, <2>5, ReadEofAgrees
  <2>6. CASE ReadNothing(i)
    BY <1>1, <2>6, ReadNothingAgrees
  <2>7. CASE ServerAnswers(i)
    BY <1>1, <2>7, ServerAnswersAgrees
  <2>8. CASE ServerCloses(i)
    BY <1>1, <2>8, ServerClosesAgrees
  <2> QED BY <1>3, <2>1, <2>2, <2>3, <2>4, <2>5, <2>6, <2>7, <2>8 DEF ClientStep
<1> QED BY <1>2, <1>3 DEF Next

\* New clients have nothing in the books.
LEMMA NewBooks ==
  ASSUME client' = [i \in Clients |-> NewClient],
         net' = [i \in Clients |-> NewConnection],
         NEW field \in {"errors", "answers", "open", "bytes", "unread", "due"}
  PROVE  InBooks(field)' = 0
<1> DEFINE b == Book(NewClient, NewConnection)
<1>1. b[field] = 0
  BY DEF Book, NewClient, NewConnection, Unread
<1>2. \A i \in Clients : books'[i][field] = 0
  BY <1>1 DEF books
<1>3. InBooks(field)' = TotalOf(books', field, Clients)
  BY DEF InBooks, Clients
<1> HIDE DEF books
<1> QED BY <1>2, <1>3, ClientsAreFinite, TotalZero

\* So the books of a load agree when it begins.
LEMMA NewBooksAgree ==
  ASSUME client' = [i \in Clients |-> NewClient],
         net' = [i \in Clients |-> NewConnection],
         stats'.nb_CRT = 0, took' = NothingTook, taken' = NothingTaken,
         used' \in [replies : 0 .. MaxReplies, faults : 0 .. MaxFaults],
         NEW len \in Nat
  PROVE  Agree(len)'
<1>1. /\ InBooks("errors")' = 0 /\ InBooks("answers")' = 0 /\ InBooks("open")' = 0
      /\ InBooks("bytes")' = 0 /\ InBooks("unread")' = 0 /\ InBooks("due")' = 0
  BY NewBooks
<1>2. took'.errors = 0 /\ took'.answers = 0 /\ taken'.bytes = 0 /\ taken'.nothings = 0
  BY DEF NothingTook, NothingTaken
<1>3. used'.replies \in Nat /\ used'.faults \in Nat /\ used'.replies * len \in Nat
  BY ClientRunAssumption
<1>4. SameWord(0, 0)
  BY SameWordReflexive
<1>5. SameWord(InBooks("bytes")', taken'.bytes - taken'.nothings)
  BY <1>1, <1>2, <1>4
<1> HIDE DEF InBooks
<1> QED BY <1>1, <1>2, <1>3, <1>5 DEF Agree

-----------------------------------------------------------------------------
(***************************************************************************)
(* What the report says of the load                                        *)
(***************************************************************************)

\* A load is short: what it counts is far from the 2^63 of a signed long, which
\* is as far as the master can read, when no answer is longer than len bytes.
LoadIsShort(len) ==
  /\ AnswersUpTo(len)
  /\ MaxTicks < Word \div 2
  /\ MaxReplies * len + MaxFaults < Word \div 2

\* What report r, as the master has read it, should tell of the load.
Told(r) ==
  /\ r.totalTime = took_time /\ r.errors = took.errors /\ r.resp_recv = took.answers
  /\ IsAverage(r.avgCT, took.CT, took.connections)
  /\ IsAverage(r.avgRT, took.RT, took.answers)
  /\ IsAverage(r.avgCRT, took.CRT, took.answers)
  /\ r.bytes_recv = LET really == taken.bytes - taken.nothings
                    IN  IF really >= 0 THEN really ELSE Word \div 2 - 1

\* Half of a word, rounded down.
LEMMA HalfWord ==
  /\ (Word \div 2) \in Nat
  /\ 2 * (Word \div 2) <= Word
BY TimeArithAssumption, Z3

\* What %Lf prints is the nearest number.
LEMMA RoundedIsNearest ==
  ASSUME NEW a \in Nat, NEW nb \in Nat \ {0}
  PROVE  Rounded(a, nb) \in Nat /\ 2 * (Rounded(a, nb) * nb - a) \in -nb .. nb
<1> DEFINE q == a \div nb
           r == a % nb
           p == q * nb
<1>1. q \in Nat /\ r \in 0 .. nb - 1 /\ a = q * nb + r
  BY Z3
<1>2. p \in Nat /\ a = p + r /\ (q + 1) * nb = p + nb
  BY <1>1, Z3
<1>3. \/ Rounded(a, nb) = q /\ 2 * r <= nb
      \/ Rounded(a, nb) = q + 1 /\ 2 * r >= nb
  BY <1>1 DEF Rounded
<1> HIDE DEF r
<1>4. CASE Rounded(a, nb) = q /\ 2 * r <= nb
  <2>1. Rounded(a, nb) * nb = p
    BY <1>4
  <2> HIDE DEF p, q
  <2>2. 2 * (p - a) \in -nb .. nb
    BY <1>1, <1>2, <1>4
  <2> QED BY <2>1, <2>2, <1>1, <1>4
<1>5. CASE Rounded(a, nb) = q + 1 /\ 2 * r >= nb
  <2>1. Rounded(a, nb) * nb = p + nb
    BY <1>2, <1>5
  <2> HIDE DEF p, q
  <2>2. 2 * (p + nb - a) \in -nb .. nb
    BY <1>1, <1>2, <1>5
  <2> QED BY <2>1, <2>2, <1>1, <1>5
<1> QED BY <1>3, <1>4, <1>5

\* So is the mean of a sum.
LEMMA MeanIsAverage ==
  ASSUME NEW sum \in Nat, NEW nb \in Nat
  PROVE  IsAverage(Mean(sum, nb), sum, nb)
<1>1. CASE nb = 0
  BY <1>1 DEF Mean, IsAverage
<1>2. CASE nb # 0
  <2>1. sum * Scale \in Nat
    BY MeasurementAssumption
  <2>2. Mean(sum, nb) = Rounded(sum * Scale, nb)
    BY <1>2 DEF Mean
  <2>3. /\ Rounded(sum * Scale, nb) \in Nat
        /\ 2 * (Rounded(sum * Scale, nb) * nb - sum * Scale) \in -nb .. nb
    BY <1>2, <2>1, RoundedIsNearest
  <2> QED BY <1>2, <2>2, <2>3 DEF IsAverage
<1> QED BY <1>1, <1>2

\* The sums of compute_stats are those of the books.
LEMMA TotalsAreInBooks ==
  /\ Total("errors") = InBooks("errors")
  /\ Total("total_resp_recv") = InBooks("answers")
  /\ Total("nbRequestsOnIteration") = InBooks("open")
  /\ Total("total_bytes_recv") = InBooks("bytes")
<1>1. \A f : Total(f) = TotalOf(client, f, Clients)
  BY DEF Total, TotalOf, MapThenSumSet, MapThenFoldSet
<1>2. \A i \in Clients :
        /\ client[i].errors = books[i].errors
        /\ client[i].total_resp_recv = books[i].answers
        /\ client[i].nbRequestsOnIteration = books[i].open
        /\ client[i].total_bytes_recv = books[i].bytes
  BY DEF books, Book
<1> HIDE DEF books
<1>3. TotalOf(client, "errors", Clients) = TotalOf(books, "errors", Clients)
  BY <1>2, ClientsAreFinite, TotalRenamed
<1>4. TotalOf(client, "total_resp_recv", Clients) = TotalOf(books, "answers", Clients)
  BY <1>2, ClientsAreFinite, TotalRenamed
<1>5. TotalOf(client, "nbRequestsOnIteration", Clients) = TotalOf(books, "open", Clients)
  BY <1>2, ClientsAreFinite, TotalRenamed
<1>6. TotalOf(client, "total_bytes_recv", Clients) = TotalOf(books, "bytes", Clients)
  BY <1>2, ClientsAreFinite, TotalRenamed
<1> QED BY <1>1, <1>3, <1>4, <1>5, <1>6 DEF InBooks

\* A word that is the same as a short number, as the master reads it.
LEMMA ReadAsWord ==
  ASSUME NEW x \in Int, NEW y \in Int, SameWord(x, y),
         y < Word \div 2, - y < Word \div 2
  PROVE  Atol(x % Word) = IF y >= 0 THEN y ELSE Word \div 2 - 1
<1> DEFINE h == Word \div 2
<1>1. h \in Nat /\ 2 * h <= Word /\ Word \in Nat
  BY HalfWord, TimeArithAssumption
<1>2. PICK m \in Int : x = y + m * Word
  BY DEF SameWord
<1>3. m * Word \in Int
  BY <1>1
<1>4. CASE y >= 0
  <2>1. y \in 0 .. Word - 1 /\ y <= h - 1
    <3> HIDE DEF h
    <3>1. y < h
      BY DEF h
    <3> QED BY <3>1, <1>1, <1>4
  <2>2. x = m * Word + y
    BY <1>2, <1>3
  <2>3. x % Word = y
    BY <2>1, <2>2, ModIsUnique
  <2> QED BY <1>4, <2>1, <2>3 DEF Atol, Least
<1>5. CASE y < 0
  <2> DEFINE z == y + Word
  <2>1. z \in 0 .. Word - 1 /\ ~ (z <= h - 1)
    <3> HIDE DEF h
    <3>1. - y < h
      BY DEF h
    <3> QED BY <3>1, <1>1, <1>5
  <2>2. x = (m - 1) * Word + z
    <3>1. (m - 1) * Word = m * Word - Word
      BY <1>1, Z3
    <3> DEFINE p == m * Word
    <3>2. x = y + p /\ p \in Int /\ (m - 1) * Word = p - Word
      BY <1>2, <1>3, <3>1
    <3> HIDE DEF p
    <3> QED BY <3>2, <1>1
  <2> HIDE DEF z
  <2>3. x % Word = z
    <3>1. m - 1 \in Int
      OBVIOUS
    <3> QED BY <2>1, <2>2, <3>1, ModIsUnique
  <2> QED BY <1>5, <2>1, <2>3 DEF Atol, Least
<1> QED BY <1>4, <1>5

\* A number that is short is read as it is.
LEMMA ReadAsItIs ==
  ASSUME NEW v \in Nat, v < Word \div 2
  PROVE  Atol(v) = v
<1> DEFINE h == Word \div 2
<1>1. h \in Nat
  BY HalfWord
<1>2. v <= h - 1
  <2>1. v < h
    OBVIOUS
  <2> HIDE DEF h
  <2> QED BY <1>1, <2>1
<1> QED BY <1>2 DEF Atol, Least

\* What the slave knows of the load that runs: its books agree, the totals are
\* those of this load, and so is the moment it began.
LoadKnown ==
  /\ \A len \in Nat : AnswersUpTo(len) => Agree(len)
  /\ global_total = [bytes |-> 0, resp |-> 0]
  /\ start_time \in TimevalType /\ TakenBy(start_time, now)

\* What compute_stats puts into the report tells of the load.
LEMMA ComputeStatsTells ==
  ASSUME LoadOK, slaveAt = "load", exit = "no", LoadKnown, ComputeStats,
         NEW len \in Nat, LoadIsShort(len)
  PROVE  Told(Fields(said))'
<1> DEFINE h == Word \div 2
<1>1. RunTypeOK /\ TimesRight /\ NowOK /\ Agree(len)
  BY NowIsOK DEF LoadOK, LoadKnown, LoadIsShort
<1>2. /\ took.errors \in Nat /\ took.answers \in Nat /\ took.CT \in Nat
      /\ took.RT \in Nat /\ took.CRT \in Nat /\ took.connections \in Nat
      /\ stats.nb_CRT \in Nat /\ taken.bytes \in Nat /\ taken.nothings \in Nat
      /\ used.replies \in 0 .. MaxReplies /\ used.faults \in 0 .. MaxFaults
  BY <1>1 DEF RunTypeOK, TookType, StatsType
<1>3. UNCHANGED <<took, taken>>
  BY DEF ComputeStats, vars
<1>4. /\ InBooks("errors") \in Nat /\ InBooks("answers") \in Nat
      /\ InBooks("open") \in Nat /\ InBooks("bytes") \in Nat
      /\ InBooks("unread") \in Nat /\ InBooks("due") \in Nat
  BY <1>1, InBooksTyped
<1>5. /\ said' = [totalTime |-> Elapsed(start_time),
                  bytes_recv |-> (0 + InBooks("bytes")) % Word,
                  resp_recv |-> 0 + InBooks("answers"),
                  avgCT |-> Mean(stats.avgCT, stats.nb_CT),
                  avgRT |-> Mean(stats.avgRT, stats.nb_RT),
                  avgCRT |-> Mean(stats.avgCRT, stats.nb_CRT + InBooks("open")),
                  minCT |-> Word - 1, maxCT |-> 0,
                  errors |-> InBooks("errors")]
      /\ took_time' = TrueElapsed(start_time)
  <2> HIDE DEF InBooks
  <2> QED BY TotalsAreInBooks DEF ComputeStats, LoadKnown
<1> HIDE DEF InBooks
<1>6. /\ InBooks("errors") = took.errors /\ InBooks("answers") = took.answers
      /\ stats.nb_CRT + InBooks("open") = took.answers
      /\ SameWord(InBooks("bytes"), taken.bytes - taken.nothings)
      /\ took.answers + took.errors + InBooks("due") <= taken.bytes + used.faults
      /\ taken.bytes + InBooks("unread") <= used.replies * len
      /\ taken.nothings <= used.faults
  BY <1>1 DEF Agree
<1>7. /\ stats.avgCT = took.CT /\ stats.nb_CT = took.connections
      /\ stats.avgRT = took.RT /\ stats.nb_RT = took.answers
      /\ stats.avgCRT = took.CRT
  BY <1>1 DEF TimesRight
<1>8. /\ said'.totalTime = took_time' /\ took_time' = TrueElapsed(start_time)
      /\ said'.resp_recv = took.answers /\ said'.errors = took.errors
      /\ said'.avgCT = Mean(took.CT, took.connections)
      /\ said'.avgRT = Mean(took.RT, took.answers)
      /\ said'.avgCRT = Mean(took.CRT, took.answers)
      /\ said'.bytes_recv = InBooks("bytes") % Word
  <2>1. Elapsed(start_time) = TrueElapsed(start_time)
    BY <1>1, ElapsedRight DEF LoadKnown
  <2>2. 0 + InBooks("answers") = took.answers /\ 0 + InBooks("bytes") = InBooks("bytes")
    BY <1>4, <1>6
  <2> QED BY <1>5, <1>6, <1>7, <2>1, <2>2
<1>9. /\ h \in Nat /\ MaxTicks < h /\ MaxReplies * len + MaxFaults < h
      /\ MaxReplies \in Nat /\ MaxFaults \in Nat /\ MaxTicks \in Nat
  BY HalfWord, ClientRunAssumption DEF LoadIsShort
<1>10. taken.bytes + MaxFaults < h
  <2> DEFINE p == used.replies * len
             q == MaxReplies * len
  <2>1. p \in Nat /\ q \in Nat /\ p <= q
    <3>1. used.replies \in Nat /\ MaxReplies - used.replies \in Nat /\ MaxReplies \in Nat
      BY <1>2, <1>9
    <3>2. (MaxReplies - used.replies) * len \in Nat
      BY <3>1
    <3>3. q - p = (MaxReplies - used.replies) * len
      BY <3>1, Z3
    <3>4. p \in Nat /\ q \in Nat
      BY <3>1
    <3> HIDE DEF p, q
    <3> QED BY <3>2, <3>3, <3>4
  <2>2. taken.bytes + InBooks("unread") <= p /\ q + MaxFaults < h
    BY <1>6, <1>9
  <2> HIDE DEF p, q, h
  <2> QED BY <2>1, <2>2, <1>2, <1>4, <1>9
<1>11. took.errors < h /\ took.answers < h /\ taken.nothings < h /\ taken.bytes < h
  <2> HIDE DEF h
  <2> QED BY <1>2, <1>4, <1>6, <1>9, <1>10
<1>12. took_time' \in Nat /\ took_time' < h
  <2>1. took_time' \in Nat
    BY <1>1, <1>8, ElapsedRight DEF LoadKnown
  <2>2. /\ took_time' = now - Moment(start_time)
        /\ Moment(start_time) \in Start .. now /\ now \in Start .. Start + MaxTicks
    BY <1>1, <1>8 DEF LoadKnown, TakenBy, NowOK, TrueElapsed
  <2> HIDE DEF h
  <2>3. Start \in Nat
    BY ClientRunAssumption
  <2> QED BY <2>1, <2>2, <2>3, <1>9
<1>13. /\ Atol(took_time') = took_time' /\ Atol(took.errors) = took.errors
       /\ Atol(took.answers) = took.answers
  BY <1>2, <1>11, <1>12, ReadAsItIs
<1>14. Atol(InBooks("bytes") % Word) =
         LET really == taken.bytes - taken.nothings
         IN  IF really >= 0 THEN really ELSE Word \div 2 - 1
  <2> DEFINE y == taken.bytes - taken.nothings
  <2>1. y \in Int /\ y < h /\ - y < h
    <3> HIDE DEF h
    <3> QED BY <1>2, <1>9, <1>11
  <2>2. SameWord(InBooks("bytes"), y) /\ InBooks("bytes") \in Int
    BY <1>4, <1>6
  <2> HIDE DEF y
  <2>3. Atol(InBooks("bytes") % Word) = IF y >= 0 THEN y ELSE Word \div 2 - 1
    BY <2>1, <2>2, ReadAsWord
  <2> QED BY <2>3 DEF y
<1>15. /\ IsAverage(Mean(took.CT, took.connections), took.CT, took.connections)
       /\ IsAverage(Mean(took.RT, took.answers), took.RT, took.answers)
       /\ IsAverage(Mean(took.CRT, took.answers), took.CRT, took.answers)
  BY <1>2, MeanIsAverage
<1> DEFINE r == Fields(said')
<1>16. /\ r.totalTime = Atol(said'.totalTime) /\ r.bytes_recv = Atol(said'.bytes_recv)
       /\ r.resp_recv = Atol(said'.resp_recv) /\ r.errors = Atol(said'.errors)
       /\ r.avgCT = said'.avgCT /\ r.avgRT = said'.avgRT /\ r.avgCRT = said'.avgCRT
  BY <1>5 DEF Fields
<1>17. Fields(said)' = r
  BY DEF Fields, Atol, Least
<1> HIDE DEF r
<1> QED BY <1>3, <1>8, <1>13, <1>14, <1>15, <1>16, <1>17 DEF Told

-----------------------------------------------------------------------------
(***************************************************************************)
(* Whose turn it is: the order and the report keep the master and the      *)
(* slave in step                                                           *)
(***************************************************************************)

\* The master waits for the report before it orders again, and the slave for
\* an order before it loads: so neither is ever elsewhere than these lines say.
Turns ==
  /\ masterAt # "read" =>
       order = NoLine /\ report = NoLine /\ slaveAt \in {"order", "reset"}
  /\ slaveAt = "load" => masterAt = "read" /\ order = NoLine /\ report = NoLine
  /\ slaveAt = "report" => masterAt = "read" /\ report.written < report.len
  /\ report # NoLine => order = NoLine
  /\ slaveAt \in {"order", "load", "report", "reset"}

\* What is known of the load at each of the slave's and the master's turns.
Known ==
  /\ slaveAt = "load" /\ exit = "no" => LoadKnown
  /\ slaveAt = "order" => global_total = [bytes |-> 0, resp |-> 0]
  /\ report # NoLine => Told(Fields(said))
  /\ masterAt = "fill" => Told(slaves_stats[1])

WaveInv == LoadOK /\ LinesOK /\ Turns /\ Known

\* Before the first order, nothing is on its way and nothing is said.
LEMMA WaveInit ==
  ASSUME MeasurementInit
  PROVE  WaveInv
BY LoadOKInit, LinesOKInit DEF MeasurementInit, WaveInv, Turns, Known

\* A line that is moving or whole is one.
LEMMA LineThere ==
  ASSUME NEW l, l.at \in {"moving", "whole"}
  PROVE  l # NoLine
BY DEF NoLine

\* No line that is not written to its end is there whole.
LEMMA WrittenWhole ==
  ASSUME NEW l, NEW cap, LineOK(l, cap), l.at = "whole"
  PROVE  ~ (l.written < l.len)
<1>1. /\ l.written \in Nat /\ l.len \in Nat /\ Len(l.buf) \in Nat /\ Len(l.pipe) \in Nat
      /\ Len(l.buf) + Len(l.pipe) = l.written /\ Len(l.buf) = l.len
  BY LenProperties DEF LineOK, LineType
<1> QED BY <1>1

\* The turns of the slave.
LEMMA SlaveTurns ==
  ASSUME LinesOK, Turns,
         ReadOrder \/ TakeOrder \/ Load \/ ComputeStats \/ WriteReport \/ ResetStats
  PROVE  Turns'
<1>1. CASE ReadOrder
  <2>1. order.at = "moving" /\ UNCHANGED <<masterAt, slaveAt, report>>
    BY <1>1 DEF ReadOrder, ReadSizes, ReadsNoMore, masterVars, slaveVars
  <2>2. order # NoLine
    BY <2>1, LineThere
  <2> QED BY <2>1, <2>2 DEF Turns
<1>2. CASE TakeOrder
  <2>1. order # NoLine /\ UNCHANGED <<masterAt, report>>
    BY <1>2, LineThere DEF TakeOrder, masterVars
  <2>2. \/ UNCHANGED <<order, slaveAt>>
        \/ slaveAt' = "load" /\ order' = NoLine
    BY <1>2 DEF TakeOrder, slaveVars
  <2> QED BY <2>1, <2>2 DEF Turns
<1>3. CASE Load
  BY <1>3 DEF Load, Turns, masterVars, slaveVars
<1>4. CASE ComputeStats
  <2>1. ReportLen \in Nat \ {0}
    BY MeasurementAssumption
  <2>2. NewLine(ReportLen).written < NewLine(ReportLen).len
    BY <2>1, NewLineOK
  <2>3. /\ slaveAt = "load" /\ slaveAt' = "report" /\ report' = NewLine(ReportLen)
        /\ UNCHANGED <<masterAt, order>>
    BY <1>4 DEF ComputeStats, masterVars
  <2> QED BY <2>2, <2>3 DEF Turns
<1>5. CASE WriteReport
  <2>1. slaveAt = "report" /\ UNCHANGED <<masterAt, order>>
    BY <1>5 DEF WriteReport, masterVars
  <2>2. LineOK(report', ReportCap)
    <3>1. MeasurementNext \/ exit # "no"
      BY <1>5 DEF MeasurementNext
    <3>2. PICK k \in WriteSizes(report) : report' = Wrote(report, k)
      BY <1>5 DEF WriteReport
    <3>3. k \in 1 .. report.len - report.written
      BY DEF WriteSizes
    <3> QED BY <3>2, <3>3, WroteOK DEF LinesOK
  <2>3. report'.written \in Nat /\ report'.len \in Nat /\ report'.written <= report'.len
    BY <2>2 DEF LineOK, LineType
  <2>4. \/ slaveAt' = "reset"
        \/ slaveAt' = "report" /\ report'.written # report'.len
    <3>1. slaveAt' = IF report'.written = report.len THEN "reset" ELSE slaveAt
      BY <1>5 DEF WriteReport
    <3>2. report'.len = report.len
      BY <1>5 DEF WriteReport, LinesOK, LineOK, LineType, Wrote
    <3> QED BY <2>1, <3>1, <3>2
  <2>5. order = NoLine /\ masterAt = "read"
    <3>1. report # NoLine
      BY <2>1 DEF Turns, NoLine
    <3> QED BY <2>1, <3>1 DEF Turns
  <2> QED BY <2>1, <2>3, <2>4, <2>5 DEF Turns
<1>6. CASE ResetStats
  BY <1>6 DEF ResetStats, Turns, masterVars
<1> QED BY <1>1, <1>2, <1>3, <1>4, <1>5, <1>6

\* The turns of the master.
LEMMA MasterTurns ==
  ASSUME LinesOK, Turns,
         SendOrder \/ ReadReport \/ ParseReports \/ FillMasterStatReport \/ PrintStats
  PROVE  Turns'
<1>1. UNCHANGED slaveAt
  BY DEF SendOrder, ReadReport, ParseReports, FillMasterStatReport, PrintStats, slaveVars
<1>2. CASE SendOrder
  BY <1>1, <1>2 DEF SendOrder, Turns
<1>3. CASE ReadReport
  <2>1. PICK k \in ReadSizes(report, ReportCap) : report' = Got(report, k)
    BY <1>3 DEF ReadReport
  <2>2. report # NoLine
    BY <2>1, LineThere DEF ReadSizes
  <2>3. report'.written = report.written /\ report'.len = report.len
    BY <2>1 DEF LinesOK, LineOK, LineType, Got
  <2>4. masterAt = "read" /\ UNCHANGED <<masterAt, order>>
    BY <1>3 DEF ReadReport, masterVars
  <2> QED BY <1>1, <2>2, <2>3, <2>4 DEF Turns
<1>4. CASE ParseReports
  <2>1. /\ report.at = "whole" /\ report' = NoLine /\ masterAt = "read"
        /\ masterAt' = "fill" /\ order' = order
    BY <1>4 DEF ParseReports
  <2>2. report # NoLine /\ slaveAt # "report"
    BY <2>1, LineThere, WrittenWhole DEF LinesOK, Turns
  <2> QED BY <1>1, <2>1, <2>2 DEF Turns
<1>5. CASE FillMasterStatReport
  BY <1>1, <1>5 DEF FillMasterStatReport, Turns
<1>6. CASE PrintStats
  BY <1>1, <1>6 DEF PrintStats, Turns
<1> QED BY <1>2, <1>3, <1>4, <1>5, <1>6

\* A step that leaves the load's history and the report's words alone tells the
\* same.
LEMMA StillTold ==
  ASSUME UNCHANGED <<took, taken, took_time>>
  PROVE  \A r : Told(r) => Told(r)'
BY DEF Told

\* What the slave's steps make known.
LEMMA SlaveKnows ==
  ASSUME WaveInv, exit = "no", NEW len \in Nat, LoadIsShort(len), RunTypeOK', Turns',
         ReadOrder \/ TakeOrder \/ Load \/ ComputeStats \/ WriteReport \/ ResetStats
  PROVE  Known'
<1>1. /\ LoadOK /\ LinesOK /\ Turns /\ Known /\ RunTypeOK
  BY DEF WaveInv, LoadOK
<1>2. CASE ReadOrder
  <2>1. /\ order.at = "moving" /\ slaveAt = "order"
        /\ UNCHANGED <<masterAt, slaveAt, report, global_total>>
    BY <1>2 DEF ReadOrder, ReadSizes, ReadsNoMore, masterVars, slaveVars
  <2>2. report = NoLine /\ masterAt = "read"
    BY <2>1, <1>1, LineThere DEF Turns
  <2> QED BY <1>1, <2>1, <2>2 DEF Known
<1>3. CASE TakeOrder
  <2>1. order # NoLine /\ UNCHANGED <<masterAt, report>> /\ slaveAt = "order"
    BY <1>3, LineThere DEF TakeOrder, masterVars
  <2>2. report = NoLine /\ masterAt = "read"
    BY <2>1, <1>1 DEF Turns
  <2>3. \/ UNCHANGED <<slaveAt, global_total>>
        \/ slaveAt' = "load" /\ LoadKnown'
    <3>1. SUFFICES ASSUME /\ slaveAt' = "load" /\ start_time' = Timeval(now)
                          /\ client' = [i \in Clients |-> NewClient]
                          /\ net' = [i \in Clients |-> NewConnection]
                          /\ stats' = InitStats(stats)
                          /\ took' = NothingTook /\ taken' = NothingTaken
                          /\ UNCHANGED global_total
                   PROVE  LoadKnown'
      BY <1>3 DEF TakeOrder, slaveVars
    <3>2. stats'.nb_CRT = 0
      BY <3>1, <1>1 DEF InitStats, RunTypeOK, StatsType
    <3>3. used' \in [replies : 0 .. MaxReplies, faults : 0 .. MaxFaults]
      BY DEF RunTypeOK
    <3>4. ASSUME NEW n \in Nat PROVE Agree(n)'
      BY <3>1, <3>2, <3>3, NewBooksAgree
    <3>5. now' = now /\ start_time' \in TimevalType /\ TakenBy(start_time', now')
      <4>1. now' = now
        BY <1>3 DEF TakeOrder
      <4> QED BY <3>1, <4>1, <1>1, NowIsOK, TimevalNow
    <3>6. global_total' = [bytes |-> 0, resp |-> 0]
      BY <1>1, <2>1, <3>1 DEF Known
    <3> QED BY <3>4, <3>5, <3>6 DEF LoadKnown
  <2> QED BY <1>1, <2>1, <2>2, <2>3 DEF Known
<1>4. CASE Load
  <2>1. /\ slaveAt = "load" /\ Next
        /\ UNCHANGED <<slaveAt, masterAt, report, global_total, start_time>>
    BY <1>4 DEF Load, slaveVars, masterVars
  <2>2. report = NoLine /\ masterAt = "read"
    BY <1>1, <2>1 DEF Turns
  <2>3. ASSUME exit' = "no" PROVE LoadKnown'
    <3>1. IInv /\ LoadKnown
      BY <1>1, <2>1 DEF LoadOK, IInv, Known
    <3>2. ASSUME NEW n \in Nat, AnswersUpTo(n) PROVE Agree(n)'
      BY <2>1, <2>3, <3>1, <3>2, NextAgrees DEF LoadKnown
    <3>3. now' \in Nat /\ now \in Nat /\ now <= now'
      <4>1. now \in Nat /\ now' \in Nat
        BY <1>1, ClientRunAssumption DEF RunTypeOK
      <4>2. now' = now \/ now' = now + 1
        BY <2>1 DEF Next, ClientStep, Tick, InitClientSocket, FinalizeConnect,
                    SendRequest, ReadResponse, ReadEof, ReadNothing,
                    ServerAnswers, ServerCloses
      <4> QED BY <4>1, <4>2
    <3>4. TakenBy(start_time, now')
      BY <3>1, <3>3, ClientRunAssumption DEF LoadKnown, TakenBy
    <3> QED BY <2>1, <3>1, <3>2, <3>4 DEF LoadKnown, TakenBy, Moment
  <2> QED BY <1>1, <2>1, <2>2, <2>3 DEF Known
<1>5. CASE ComputeStats
  <2>1. slaveAt = "load" /\ slaveAt' = "report" /\ masterAt' = masterAt
    BY <1>5 DEF ComputeStats, masterVars
  <2>2. LoadKnown
    BY <1>1, <2>1 DEF Known
  <2>3. Told(Fields(said))'
    BY <1>1, <1>5, <2>1, <2>2, ComputeStatsTells
  <2>4. masterAt = "read"
    BY <1>1, <2>1 DEF Turns
  <2> QED BY <2>1, <2>3, <2>4 DEF Known
<1>6. CASE WriteReport
  <2>1. /\ slaveAt = "report" /\ slaveAt' \in {"report", "reset"}
        /\ UNCHANGED <<took, taken, took_time, said, masterAt>>
    BY <1>6 DEF WriteReport, masterVars, vars
  <2>2. report # NoLine /\ masterAt = "read"
    BY <1>1, <2>1 DEF Turns, NoLine
  <2>3. Told(Fields(said))'
    BY <1>1, <2>1, <2>2, StillTold DEF Known, Told, Fields
  <2> QED BY <2>1, <2>2, <2>3 DEF Known
<1>7. CASE ResetStats
  <2>1. /\ slaveAt' = "order" /\ global_total' = [bytes |-> 0, resp |-> 0]
        /\ UNCHANGED <<took, taken, took_time, said, masterAt, slaves_stats, report>>
    BY <1>7 DEF ResetStats, ResetTotal, masterVars
  <2> QED BY <1>1, <2>1 DEF Known, Told, Fields
<1> QED BY <1>2, <1>3, <1>4, <1>5, <1>6, <1>7

\* What the master's steps make known.
LEMMA MasterKnows ==
  ASSUME WaveInv, Turns',
         SendOrder \/ ReadReport \/ ParseReports \/ FillMasterStatReport \/ PrintStats
  PROVE  Known'
<1>1. Turns /\ Known
  BY DEF WaveInv
<1>2. /\ UNCHANGED <<vars, slaveVars>>
  BY DEF SendOrder, ReadReport, ParseReports, FillMasterStatReport, PrintStats
<1>3. /\ LoadKnown <=> LoadKnown'
      /\ Told(Fields(said)) <=> Told(Fields(said))'
      /\ UNCHANGED <<slaveAt, exit, global_total>>
  BY <1>2 DEF vars, slaveVars, LoadKnown, Agree, InBooks, books, TakenBy, Told, Fields
<1>4. CASE SendOrder \/ ReadReport
  <2>1. masterAt' # "fill" /\ (report # NoLine \/ report' = NoLine)
    <3>1. CASE SendOrder
      BY <1>1, <3>1 DEF SendOrder, Turns
    <3>2. CASE ReadReport
      BY <3>2, LineThere DEF ReadReport, ReadSizes, masterVars
    <3> QED BY <1>4, <3>1, <3>2
  <2> QED BY <1>1, <1>3, <2>1 DEF Known
<1>5. CASE ParseReports
  <2>1. /\ report.at = "whole" /\ report' = NoLine /\ slaves_stats'[1] = Fields(said)
    <3>1. 1 \in 1 .. NbSlaves
      BY MeasurementAssumption
    <3> QED BY <1>5, <3>1 DEF ParseReports
  <2>2. Told(Fields(said))
    BY <1>1, <2>1, LineThere DEF Known
  <2>3. Told(slaves_stats[1])'
    BY <1>2, <2>1, <2>2 DEF Told, vars, slaveVars
  <2> QED BY <1>1, <1>3, <2>1, <2>3 DEF Known
<1>6. CASE FillMasterStatReport
  BY <1>1, <1>3, <1>6 DEF FillMasterStatReport, Known
<1>7. CASE PrintStats
  BY <1>1, <1>3, <1>7 DEF PrintStats, Known
<1> QED BY <1>4, <1>5, <1>6, <1>7

\* Every step keeps the turns and what is known.
LEMMA WaveNext ==
  ASSUME WaveInv, [MeasurementNext]_allVars, NEW len \in Nat, LoadIsShort(len)
  PROVE  WaveInv'
<1>1. LoadOK' /\ LinesOK'
  BY LoadOKNext, LoadOKUnchangedAll, LinesOKNext DEF WaveInv, allVars, LinesOK
<1>2. CASE UNCHANGED allVars
  <2>1. Turns' /\ Known'
    BY <1>2 DEF WaveInv, Turns, Known, allVars, vars, slaveVars, masterVars,
                LoadKnown, Agree, InBooks, books, TakenBy, Told, Fields
  <2> QED BY <1>1, <2>1 DEF WaveInv
<1>3. CASE /\ exit = "no"
           /\ ReadOrder \/ TakeOrder \/ Load \/ ComputeStats \/ WriteReport \/ ResetStats
  <2>1. RunTypeOK'
    BY <1>1 DEF LoadOK
  <2>2. Turns'
    BY <1>3, SlaveTurns DEF WaveInv
  <2> QED BY <1>1, <1>3, <2>1, <2>2, SlaveKnows DEF WaveInv
<1>4. CASE SendOrder \/ ReadReport \/ ParseReports \/ FillMasterStatReport \/ PrintStats
  <2>1. Turns'
    BY <1>4, MasterTurns DEF WaveInv
  <2> QED BY <1>1, <1>4, <2>1, MasterKnows DEF WaveInv
<1> QED BY <1>2, <1>3, <1>4 DEF MeasurementNext, Terminated

\* What the master has read from a slave is made of what happened in the load it
\* has ordered, for any number of clients, answers of any lengths and lines in
\* any pieces, when a load is short of the 2^63 that the master can read: its
\* avgCT and avgRT are averages of all the connects and answers of the load, and
\* its avgCRT the time of the connections that have ended by all its answers.
THEOREM AveragesRightCorrect ==
  ASSUME NEW len \in Nat, LoadIsShort(len)
  PROVE  MeasurementSpec => []AveragesRight
<1>1. MeasurementInit => WaveInv
  BY WaveInit
<1>2. WaveInv /\ [MeasurementNext]_allVars => WaveInv'
  BY WaveNext
<1>3. WaveInv => AveragesRight
  BY DEF WaveInv, Known, Told, AveragesRight
<1> QED BY <1>1, <1>2, <1>3, PTL DEF MeasurementSpec

\* The bytes that the master takes for received are off by the reads that found
\* nothing, and the largest long if these are more, under the same condition.
THEOREM BytesCountedCorrect ==
  ASSUME NEW len \in Nat, LoadIsShort(len)
  PROVE  MeasurementSpec => []BytesCounted
<1>1. MeasurementInit => WaveInv
  BY WaveInit
<1>2. WaveInv /\ [MeasurementNext]_allVars => WaveInv'
  BY WaveNext
<1>3. WaveInv => BytesCounted
  BY DEF WaveInv, Known, Told, BytesCounted
<1> QED BY <1>1, <1>2, <1>3, PTL DEF MeasurementSpec

-----------------------------------------------------------------------------
(***************************************************************************)
(* The types, and the samples of the wave                                  *)
(***************************************************************************)

\* The samples of all columns grow together, by one value for a load, until
\* there is one of each load; then the table is printed from them.
SamplesOK ==
  /\ slaves_stats \in Seq(ReportType)
  /\ masterAt = "fill" => slaves_stats \in [1 .. NbSlaves -> ReportType]
  /\ master_stats \in [Columns -> Seq(Values)]
  /\ \A c \in Columns : Len(master_stats[c]) = Len(master_stats["errors"])
  /\ masterAt \in {"send", "read", "fill"} => Len(master_stats["errors"]) < Iterations
  /\ masterAt \in {"print", "end"} => Len(master_stats["errors"]) = Iterations
  /\ \/ row = NoRow
     \/ /\ row \in [col : Columns, percent : Percents, kept : Seq(Values)]
        /\ masterAt = "end"
        /\ row.kept \in Kept(master_stats[row.col], row.percent)

Typed ==
  /\ LoadOK /\ LinesOK /\ SamplesOK
  /\ exit \in {"no", "order", "assertion", "no-headers", "no-length", "EOF"}
  /\ slaveAt \in {"order", "load", "report", "reset"}
  /\ masterAt \in {"send", "read", "fill", "print", "end"}
  /\ said \in ReportType /\ start_time \in TimevalType
  /\ global_total \in [bytes : Words, resp : Nat]

\* What %Lf prints of a mean is a value.
LEMMA MeanType ==
  ASSUME NEW sum \in Nat, NEW nb \in Nat
  PROVE  Mean(sum, nb) \in Values
<1>1. IsAverage(Mean(sum, nb), sum, nb)
  BY MeanIsAverage
<1> QED BY <1>1 DEF IsAverage, Values

\* The fields of a line that is read are what may be on a line.
LEMMA FieldsType ==
  ASSUME NEW r \in ReportType
  PROVE  Fields(r) \in ReportType
<1> DEFINE h == Word \div 2
<1>1. h \in Nat /\ h > 0 /\ h <= Word /\ Word \in Nat
  <2>1. Word \in Nat /\ Word >= 2
    BY ClientRunAssumption, TimeArithAssumption
  <2>2. (Word \div 2) \in Nat /\ (Word \div 2) > 0 /\ (Word \div 2) <= Word
    BY <2>1, Z3
  <2> QED BY <2>1, <2>2
<1>2. ASSUME NEW v \in Words PROVE Atol(v) \in Words
  <2>1. v \in 0 .. Word - 1
    BY DEF Words
  <2>2. Least(v, h - 1) \in 0 .. Word - 1
    <3> HIDE DEF h
    <3> QED BY <1>1, <2>1 DEF Least
  <2> QED BY <2>2 DEF Atol, Words
<1>3. ASSUME NEW v \in Nat PROVE Atol(v) \in Nat
  <2>1. Least(v, h - 1) \in Nat
    <3> HIDE DEF h
    <3> QED BY <1>1 DEF Least
  <2> QED BY <2>1 DEF Atol
<1>4. /\ r.totalTime \in Words /\ r.bytes_recv \in Words /\ r.resp_recv \in Nat
      /\ r.minCT \in Words /\ r.maxCT \in Words /\ r.errors \in Nat
  BY DEF ReportType
<1>5. /\ Atol(r.totalTime) \in Words /\ Atol(r.bytes_recv) \in Words
      /\ Atol(r.resp_recv) \in Nat /\ Atol(r.minCT) \in Words
      /\ Atol(r.maxCT) \in Words /\ Atol(r.errors) \in Nat
  BY <1>2, <1>3, <1>4
<1> QED BY <1>5 DEF Fields, ReportType

\* A report is of values, whatever the column.
LEMMA ColumnType ==
  ASSUME NEW r \in ReportType, NEW c \in Columns
  PROVE  r[c] \in Values
<1>1. Words \subseteq Values /\ Nat \subseteq Values
  BY TimeArithAssumption DEF Words, Values
<1> QED BY <1>1 DEF Columns, ReportType

\* The samples are empty at first.
LEMMA TypedInit ==
  ASSUME MeasurementInit
  PROVE  Typed
<1>1. NoReport \in ReportType
  BY TimeArithAssumption DEF NoReport, ReportType, Words, Values
<1>2. Timeval(0) \in TimevalType
  BY TimevalIsTheMoment DEF TimevalType
<1>3. [bytes |-> 0, resp |-> 0] \in [bytes : Words, resp : Nat]
  BY TimeArithAssumption DEF Words
<1>4. <<>> \in Seq(ReportType) /\ <<>> \in Seq(Values) /\ Len(<<>>) = 0
  BY EmptySeq
<1>5. SamplesOK
  BY <1>4, MeasurementAssumption DEF MeasurementInit, SamplesOK, EmptySamples, Columns
<1> QED BY <1>1, <1>2, <1>3, <1>5, LoadOKInit, LinesOKInit
        DEF MeasurementInit, Init, Typed

\* Why the process exits in a load.
LEMMA ExitsOfALoad ==
  ASSUME Next
  PROVE  exit' \in {"no", "no-headers", "no-length", "EOF"}
<1>1. exit = "no"
  BY DEF Next
<1>2. CASE Tick
  BY <1>1, <1>2 DEF Tick
<1>3. ASSUME NEW i \in Clients,
             ClientStep(i) \/ ServerAnswers(i) \/ ServerCloses(i)
      PROVE  exit' \in {"no", "no-headers", "no-length", "EOF"}
  <2>1. CASE InitClientSocket(i) \/ FinalizeConnect(i) \/ SendRequest(i) \/ ReadNothing(i)
    BY <1>1, <2>1 DEF InitClientSocket, FinalizeConnect, SendRequest, ReadNothing
  <2>2. CASE ServerAnswers(i) \/ ServerCloses(i)
    BY <1>1, <2>2 DEF ServerAnswers, ServerCloses
  <2>3. ASSUME NEW c, TreatError(i, c) \/ ReadComplete(i, c) \/ GoOn(i, c)
        PROVE  exit' = "no"
    BY <1>1, <2>3 DEF TreatError, ReadComplete, GoOn
  <2>4. CASE ReadEof(i)
    BY <2>3, <2>4 DEF ReadEof, Panic
  <2>5. ASSUME NEW k, ReadHeaders(i, k) PROVE exit' \in {"no", "no-headers", "no-length"}
    BY <2>3, <2>5 DEF ReadHeaders, Panic
  <2>6. ASSUME NEW k, ReadContent(i, k) PROVE exit' = "no"
    BY <2>3, <2>6 DEF ReadContent
  <2>7. CASE ReadResponse(i)
    BY <2>5, <2>6, <2>7 DEF ReadResponse
  <2> QED BY <1>3, <2>1, <2>2, <2>4, <2>7 DEF ClientStep
<1> QED BY <1>2, <1>3 DEF Next

\* What compute_stats leaves is typed.
LEMMA ComputeStatsTyped ==
  ASSUME Typed, ComputeStats
  PROVE  said' \in ReportType /\ global_total' \in [bytes : Words, resp : Nat]
<1>1. RunTypeOK /\ NowOK /\ start_time \in TimevalType
  BY NowIsOK DEF Typed, LoadOK
<1>2. /\ Total("errors") \in Nat /\ Total("total_resp_recv") \in Nat
      /\ Total("nbRequestsOnIteration") \in Nat /\ Total("total_bytes_recv") \in Nat
  <2> HIDE DEF InBooks
  <2> QED BY <1>1, InBooksTyped, TotalsAreInBooks
<1>3. global_total.bytes \in Nat /\ global_total.resp \in Nat
  <2>1. global_total.bytes \in 0 .. Word - 1 /\ global_total.resp \in Nat
    BY DEF Typed, Words
  <2> QED BY <2>1
<1> DEFINE bytes == (global_total.bytes + Total("total_bytes_recv")) % Word
           resp == global_total.resp + Total("total_resp_recv")
           nb == stats.nb_CRT + Total("nbRequestsOnIteration")
<1>4. bytes \in Words
  <2>1. global_total.bytes + Total("total_bytes_recv") \in Int
    BY <1>2, <1>3
  <2> QED BY <2>1, ModIsCongruent DEF Words
<1>5. resp \in Nat
  BY <1>2, <1>3
<1>6. /\ stats.avgCT \in Nat /\ stats.nb_CT \in Nat /\ stats.avgRT \in Nat
      /\ stats.nb_RT \in Nat /\ stats.avgCRT \in Nat /\ nb \in Nat
  BY <1>1, <1>2, SMTT(30) DEF RunTypeOK, StatsType
<1>7. Elapsed(start_time) \in Words
  <2> DEFINE now_tv == Timeval(now)
             sec_res == (now_tv.sec - start_time.sec) % Word
             usec_res == (now_tv.usec - start_time.usec) % Word
  <2>1. now_tv \in TimevalType
    BY <1>1, TimevalNow
  <2>2. /\ now_tv.sec - start_time.sec \in Int /\ now_tv.usec - start_time.usec \in Int
    BY <1>1, <2>1, TimeArithAssumption DEF TimevalType
  <2>3. sec_res \in Int /\ usec_res \in Int
    <3>1. sec_res \in 0 .. Word - 1 /\ usec_res \in 0 .. Word - 1
      BY <2>2, ModIsCongruent
    <3> QED BY <3>1
  <2>4. Elapsed(start_time) = (((Second * sec_res) % Word) + usec_res) % Word
    BY DEF Elapsed, CompareTime
  <2> HIDE DEF sec_res, usec_res
  <2>5. ((Second * sec_res) % Word) \in Int
    <3>1. Second * sec_res \in Int
      BY <2>3, TimeArithAssumption
    <3>2. ((Second * sec_res) % Word) \in 0 .. Word - 1
      BY <3>1, ModIsCongruent
    <3> QED BY <3>2
  <2>6. (((Second * sec_res) % Word) + usec_res) \in Int
    BY <2>3, <2>5
  <2> QED BY <2>4, <2>6, ModIsCongruent DEF Words
<1>8. Word - 1 \in Words /\ 0 \in Words
  BY TimeArithAssumption DEF Words
<1>9. /\ global_total' = [bytes |-> bytes, resp |-> resp]
      /\ said' = [totalTime |-> Elapsed(start_time),
                  bytes_recv |-> bytes, resp_recv |-> resp,
                  avgCT |-> Mean(stats.avgCT, stats.nb_CT),
                  avgRT |-> Mean(stats.avgRT, stats.nb_RT),
                  avgCRT |-> Mean(stats.avgCRT, nb),
                  minCT |-> Word - 1, maxCT |-> 0,
                  errors |-> Total("errors")]
  BY DEF ComputeStats
<1>10. /\ Mean(stats.avgCT, stats.nb_CT) \in Values
       /\ Mean(stats.avgRT, stats.nb_RT) \in Values
       /\ Mean(stats.avgCRT, nb) \in Values
  BY <1>6, MeanType
<1> HIDE DEF bytes, resp, nb
<1> QED BY <1>2, <1>4, <1>5, <1>7, <1>8, <1>9, <1>10 DEF ReportType

\* What the master adds to the samples.
LEMMA FillTyped ==
  ASSUME SamplesOK, FillMasterStatReport
  PROVE  SamplesOK'
<1>1. /\ slaves_stats \in [1 .. NbSlaves -> ReportType]
      /\ master_stats \in [Columns -> Seq(Values)]
      /\ \A c \in Columns : Len(master_stats[c]) = Len(master_stats["errors"])
      /\ Len(master_stats["errors"]) < Iterations
      /\ row = NoRow
  BY DEF FillMasterStatReport, SamplesOK
<1> DEFINE V(c) == SumOf([s \in 1 .. NbSlaves |-> slaves_stats[s][c]])
<1>2. ASSUME NEW c \in Columns PROVE V(c) \in Values
  <2>1. [s \in 1 .. NbSlaves |-> slaves_stats[s][c]] \in [1 .. NbSlaves -> Values]
    BY <1>1, ColumnType
  <2>2. NbSlaves \in Nat
    BY MeasurementAssumption
  <2> QED BY <2>1, <2>2, SumOfType
<1>3. master_stats' = [c \in Columns |-> Append(master_stats[c], V(c))]
  BY DEF FillMasterStatReport
<1> HIDE DEF V
<1>4. ASSUME NEW c \in Columns
      PROVE  /\ master_stats'[c] \in Seq(Values)
             /\ Len(master_stats'[c]) = Len(master_stats["errors"]) + 1
  <2>1. master_stats'[c] = Append(master_stats[c], V(c))
    BY <1>3
  <2> QED BY <1>1, <1>2, <2>1, AppendProperties
<1>5. master_stats' \in [Columns -> Seq(Values)]
  BY <1>3, <1>4
<1>6. "errors" \in Columns
  BY DEF Columns
<1>7. Len(master_stats["errors"]) \in Nat /\ Iterations \in Nat
  BY <1>1, <1>6, LenProperties, MeasurementAssumption
<1>8. /\ slaves_stats' \in Seq(ReportType) /\ UNCHANGED row
      /\ masterAt' = IF Len(master_stats'["errors"]) < Iterations THEN "send" ELSE "print"
  BY EmptySeq DEF FillMasterStatReport
<1>9. /\ \A c \in Columns : Len(master_stats'[c]) = Len(master_stats'["errors"])
      /\ masterAt' = "send" => Len(master_stats'["errors"]) < Iterations
      /\ masterAt' = "print" => Len(master_stats'["errors"]) = Iterations
      /\ masterAt' \in {"send", "print"}
  <2> DEFINE l == Len(master_stats["errors"])
             m == Len(master_stats'["errors"])
  <2>1. l \in Nat /\ m = l + 1 /\ l < Iterations /\ Iterations \in Nat
    BY <1>1, <1>4, <1>6, <1>7
  <2>2. masterAt' = IF m < Iterations THEN "send" ELSE "print"
    BY <1>8
  <2>3. \A c \in Columns : Len(master_stats'[c]) = m
    BY <1>4, <2>1
  <2> HIDE DEF l, m
  <2>4. /\ masterAt' = "send" => m < Iterations
        /\ masterAt' = "print" => m = Iterations
        /\ masterAt' \in {"send", "print"}
    BY <2>1, <2>2
  <2> QED BY <2>3, <2>4 DEF m
<1> QED BY <1>1, <1>5, <1>8, <1>9 DEF SamplesOK

\* What the master has read from the slaves.
LEMMA ParseTyped ==
  ASSUME Typed, ParseReports
  PROVE  SamplesOK'
<1>1. PICK others \in [2 .. NbSlaves -> OtherReports] :
        slaves_stats' = [s \in 1 .. NbSlaves |->
                           IF s = 1 THEN Fields(said) ELSE Fields(others[s])]
  BY DEF ParseReports
<1>2. ASSUME NEW s \in 1 .. NbSlaves, s # 1 PROVE Fields(others[s]) \in ReportType
  <2>1. s \in 2 .. NbSlaves
    BY <1>2, MeasurementAssumption
  <2>2. others[s] \in ReportType
    BY <2>1, MeasurementAssumption
  <2> QED BY <2>2, FieldsType
<1>3. Fields(said) \in ReportType
  BY FieldsType DEF Typed
<1>4. slaves_stats' \in [1 .. NbSlaves -> ReportType]
  BY <1>1, <1>2, <1>3
<1>5. slaves_stats' \in Seq(ReportType)
  <2>1. NbSlaves \in Nat
    BY MeasurementAssumption
  <2> QED BY <1>4, <2>1, SeqDef
<1>6. /\ masterAt = "read" /\ masterAt' = "fill" /\ UNCHANGED <<master_stats, row>>
  BY DEF ParseReports
<1> QED BY <1>4, <1>5, <1>6 DEF SamplesOK, Typed

\* The row that the master prints.
LEMMA PrintTyped ==
  ASSUME SamplesOK, PrintStats
  PROVE  SamplesOK'
<1>1. PICK p \in Percents, c \in Columns : \E kept \in Kept(master_stats[c], p) :
        row' = [col |-> c, percent |-> p, kept |-> kept]
  BY DEF PrintStats
<1>2. PICK kept \in Kept(master_stats[c], p) :
        row' = [col |-> c, percent |-> p, kept |-> kept]
  BY <1>1
<1>3. /\ masterAt = "print" /\ masterAt' = "end" /\ UNCHANGED <<slaves_stats, master_stats>>
  BY DEF PrintStats
<1>4. /\ master_stats[c] \in Seq(Values) /\ Len(master_stats[c]) = Iterations
  BY <1>3 DEF SamplesOK
<1>5. /\ master_stats[c] \in [1 .. Iterations -> Values] /\ Iterations \in Nat \ {0}
      /\ p \in 1 .. 100
  BY <1>4, LenProperties, MeasurementAssumption
<1>6. kept \in Seq(Values)
  <2> DEFINE s == master_stats[c]
  <2>1. s \in [1 .. Iterations -> Values] /\ kept \in Kept(s, p)
    BY <1>5
  <2> HIDE DEF s
  <2> QED BY <1>5, <2>1, KeptIsTheMiddle
<1>7. row' \in [col : Columns, percent : Percents, kept : Seq(Values)]
  BY <1>2, <1>6
<1>8. row'.kept \in Kept(master_stats'[row'.col], row'.percent)
  <2>1. row'.kept = kept /\ row'.col = c /\ row'.percent = p
    BY <1>2
  <2> QED BY <1>3, <2>1
<1> QED BY <1>3, <1>7, <1>8 DEF SamplesOK

\* Every other step leaves the samples alone, and stays where they can be so.
LEMMA SamplesUnchanged ==
  ASSUME SamplesOK, UNCHANGED <<slaves_stats, master_stats, row>>,
         \/ masterAt' = masterAt
         \/ masterAt = "send" /\ masterAt' = "read"
  PROVE  SamplesOK'
BY DEF SamplesOK, NoRow

\* Every step keeps the types and the samples.
LEMMA TypedNext ==
  ASSUME Typed, MeasurementNext
  PROVE  Typed'
<1>1. LoadOK' /\ LinesOK' /\ SamplesOK
  BY LoadOKNext, LinesOKNext DEF Typed
<1>2. ASSUME exit' \in {"no", "order", "assertion", "no-headers", "no-length", "EOF"},
             slaveAt' \in {"order", "load", "report", "reset"},
             masterAt' = masterAt, UNCHANGED <<slaves_stats, master_stats, row>>,
             said' \in ReportType, start_time' \in TimevalType,
             global_total' \in [bytes : Words, resp : Nat]
      PROVE  Typed'
  <2>1. SamplesOK'
    BY <1>1, <1>2, SamplesUnchanged
  <2> QED BY <1>1, <1>2, <2>1 DEF Typed
<1>3. CASE ReadOrder
  BY <1>2, <1>3 DEF ReadOrder, Typed, slaveVars, masterVars
<1>4. CASE TakeOrder
  <2>1. Timeval(now) \in TimevalType
    BY NowIsOK, TimevalNow DEF Typed, LoadOK
  <2>2. /\ masterAt' = masterAt /\ UNCHANGED <<slaves_stats, master_stats, row>>
        /\ UNCHANGED <<said, global_total>>
        /\ slaveAt' \in {"load", slaveAt} /\ exit' \in {exit, "assertion"}
        /\ start_time' \in {Timeval(now), start_time}
    BY <1>4 DEF TakeOrder, slaveVars, masterVars
  <2> QED BY <1>2, <2>1, <2>2 DEF Typed
<1>5. CASE Load
  <2>1. exit' \in {"no", "no-headers", "no-length", "EOF"}
    BY <1>5, ExitsOfALoad DEF Load
  <2> QED BY <1>2, <1>5, <2>1 DEF Load, Typed, slaveVars, masterVars
<1>6. CASE ComputeStats
  <2>1. said' \in ReportType /\ global_total' \in [bytes : Words, resp : Nat]
    BY <1>6, ComputeStatsTyped
  <2> QED BY <1>2, <1>6, <2>1 DEF ComputeStats, Typed, vars, masterVars
<1>7. CASE WriteReport
  BY <1>2, <1>7 DEF WriteReport, Typed, vars, masterVars
<1>8. CASE ResetStats
  <2>1. [bytes |-> 0, resp |-> 0] \in [bytes : Words, resp : Nat]
    BY TimeArithAssumption DEF Words
  <2> QED BY <1>2, <1>8, <2>1 DEF ResetStats, ResetTotal, Typed, masterVars
<1>9. CASE SendOrder \/ ReadReport \/ ParseReports \/ FillMasterStatReport \/ PrintStats
  <2>1. SamplesOK'
    <3>1. CASE SendOrder \/ ReadReport
      BY <1>1, <3>1, SamplesUnchanged DEF SendOrder, ReadReport, masterVars
    <3>2. CASE ParseReports
      BY <3>2, ParseTyped
    <3>3. CASE FillMasterStatReport
      BY <1>1, <3>3, FillTyped
    <3>4. CASE PrintStats
      BY <1>1, <3>4, PrintTyped
    <3> QED BY <1>9, <3>1, <3>2, <3>3, <3>4
  <2>2. UNCHANGED <<vars, slaveVars>>
    BY <1>9 DEF SendOrder, ReadReport, ParseReports, FillMasterStatReport, PrintStats
  <2>3. masterAt' \in {"send", "read", "fill", "print", "end"}
    BY <1>9 DEF SendOrder, ReadReport, ParseReports, FillMasterStatReport, PrintStats,
                masterVars, Typed
  <2> QED BY <1>1, <2>1, <2>2, <2>3 DEF Typed, vars, slaveVars
<1>10. CASE Terminated
  BY <1>2, <1>10 DEF Terminated, allVars, vars, slaveVars, masterVars, Typed
<1> QED BY <1>3, <1>4, <1>5, <1>6, <1>7, <1>8, <1>9, <1>10 DEF MeasurementNext

\* So they are kept for ever.
LEMMA TypedAlways == MeasurementSpec => []Typed
<1>1. MeasurementInit => Typed
  BY TypedInit
<1>2. Typed /\ UNCHANGED allVars => Typed'
  <2>1. SUFFICES ASSUME Typed, UNCHANGED allVars PROVE Typed'
    OBVIOUS
  <2>2. LoadOK' /\ LinesOK'
    BY <2>1, LoadOKUnchangedAll DEF Typed, allVars, LinesOK
  <2>3. SamplesOK'
    BY <2>1, SamplesUnchanged DEF Typed, allVars, masterVars
  <2> QED BY <2>1, <2>2, <2>3 DEF Typed, allVars, vars, slaveVars, masterVars
<1>3. Typed /\ [MeasurementNext]_allVars => Typed'
  BY <1>2, TypedNext
<1> QED BY <1>1, <1>3, PTL DEF MeasurementSpec

\* The variables of slave and master are of their types: what compute_stats
\* makes fits the report, and what read_slaves_response makes of it the samples.
THEOREM TypesAreRight == MeasurementSpec => []TypeOK
<1>1. ASSUME Typed PROVE TypeOK
  <2>1. RunTypeOK /\ order \in LineType /\ report \in LineType
    BY <1>1 DEF Typed, LoadOK, LinesOK, LineOK
  <2>2. row \in [col : Columns \cup {"none"}, percent : 0 .. 100, kept : Seq(Values)]
    <3>1. NoRow \in [col : Columns \cup {"none"}, percent : 0 .. 100, kept : Seq(Values)]
      BY EmptySeq DEF NoRow
    <3>2. Percents \subseteq 0 .. 100
      BY MeasurementAssumption
    <3> QED BY <1>1, <3>1, <3>2 DEF Typed, SamplesOK
  <2> QED BY <1>1, <2>1, <2>2 DEF Typed, SamplesOK, TypeOK
<1> QED BY <1>1, TypedAlways, PTL

\* The table has one value of each load but for the ends that were cut, for any
\* number of loads, any percent_stats_kept_master and whatever the slaves have
\* reported, and what it keeps of the numbers is their middle.
THEOREM TableHoldsCorrect == MeasurementSpec => []TableHolds
<1>1. ASSUME Typed PROVE TableHolds
  <2>1. SUFFICES ASSUME row.col # "none" PROVE TableHolds
    BY DEF TableHolds
  <2>2. /\ row \in [col : Columns, percent : Percents, kept : Seq(Values)]
        /\ row.kept \in Kept(master_stats[row.col], row.percent)
        /\ masterAt = "end"
    <3>1. SamplesOK /\ NoRow.col = "none"
      BY <1>1 DEF Typed, NoRow
    <3>2. row # NoRow
      BY <2>1, <3>1
    <3> QED BY <3>1, <3>2 DEF SamplesOK
  <2> DEFINE s == master_stats[row.col]
             n == Len(s)
             p == row.percent
             kept == row.kept
  <2>3. s \in Seq(Values) /\ n = Iterations /\ p \in 1 .. 100
    BY <1>1, <2>2, MeasurementAssumption DEF Typed, SamplesOK
  <2>4. n \in Nat \ {0} /\ s \in [1 .. n -> Values] /\ kept \in Kept(s, p)
    BY <2>2, <2>3, LenProperties, MeasurementAssumption
  <2> HIDE DEF s, p, kept
  <2>5. /\ Len(kept) > 0 /\ 100 * Len(kept) \in n * p .. n * p + 200
        /\ NaN \notin Range(s) => Middle(kept, s)
    <3> HIDE DEF n
    <3> QED BY <2>3, <2>4, KeptIsTheMiddle, ZenonT(60)
  <2>6. /\ Len(kept) > 0 /\ 100 * Len(kept) \in n * p .. n * p + 200 /\ n = Iterations
        /\ NaN \notin Range(s) =>
             \A k \in 1 .. Len(kept) :
               LET v == kept[k]
                   notAbove == {j \in 1 .. n : ~ Below(v, s[j])}
                   notBelow == {j \in 1 .. n : ~ Below(s[j], v)}
               IN  /\ v \in Range(s)
                   /\ 2 * Cardinality(notAbove) > n - Len(kept)
                   /\ 2 * Cardinality(notBelow) > n - Len(kept)
    <3> HIDE DEF n
    <3>1. Middle(kept, s) => \A k \in 1 .. Len(kept) :
               LET v == kept[k]
                   notAbove == {j \in 1 .. n : ~ Below(v, s[j])}
                   notBelow == {j \in 1 .. n : ~ Below(s[j], v)}
               IN  /\ v \in Range(s)
                   /\ 2 * Cardinality(notAbove) > n - Len(kept)
                   /\ 2 * Cardinality(notBelow) > n - Len(kept)
      BY Zenon DEF Middle, n
    <3> QED BY <2>3, <2>5, <3>1, Zenon
  <2> QED BY <2>6 DEF TableHolds, s, p, kept
<1> QED BY <1>1, TypedAlways, PTL

=============================================================================
