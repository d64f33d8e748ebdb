----------------------------- MODULE StatsSample -----------------------------
(***************************************************************************)
(* stats_utils.c: a sample of long doubles, of which the master prints the *)
(* average and the deviation after cutting the same number of elements     *)
(* from both ends of the sorted sample.                                    *)
(*                                                                         *)
(* The elements are numbers of one unit, NaN and Inf: 0/0 and x/0 are      *)
(* computed by the slaves, printed, read back and inserted like numbers.   *)
(***************************************************************************)
EXTENDS Integers, Sequences, SequencesExt

CONSTANTS NaN, Inf

ASSUME StatsSampleAssumption == NaN \notin Int /\ Inf \notin Int /\ NaN # Inf

Values == Nat \cup {NaN, Inf}

\* a + b, for values that are not negative.
Plus(a, b) == IF NaN \in {a, b} THEN NaN
              ELSE IF Inf \in {a, b} THEN Inf
              ELSE a + b

SumOf(s) == FoldLeft(Plus, 0, s)

\* a < b, which no NaN is.
Below(a, b) == /\ NaN \notin {a, b} /\ a # Inf
               /\ b = Inf \/ a < b

\* start_i: how many elements percentil p cuts from each end of n elements.
\* The share and its product with n are floats.  When the product should be a
\* whole number it may be just below, and floor takes one less; with p = 100
\* it is 0, and for n < 150 it never happens.
Cuts(n, p) ==
  LET cut == (n * (100 - p)) \div 200
  IN  IF n < 150 \/ p = 100 \/ n * (100 - p) # 200 * cut THEN {cut}
                                                        ELSE {cut, cut - 1}

\* What qsort may make of s.  compare_elem says that NaN is equal to all, which
\* is no order: the result may be any.
Sorted(s) ==
  {t \in {[k \in DOMAIN s |-> s[f[k]]] : f \in Bijection(DOMAIN s, DOMAIN s)} :
     NaN \in Range(s) \/ \A k \in 1 .. Len(s) - 1 : ~ Below(t[k + 1], t[k])}

\* Mutant: the sample is cut as it is.
Kept_Unsorted(s, p) == {SubSeq(s, c + 1, Len(s) - c) : c \in Cuts(Len(s), p)}

\* The elements percentil_average_Lf and percentil_stddev_Lf work on.
Kept(s, p) ==
  {SubSeq(t, c + 1, Len(s) - c) : t \in Sorted(s), c \in Cuts(Len(s), p)}
=============================================================================
