--------------------------- MODULE ClientRunProofs ---------------------------
(***************************************************************************)
(* Proofs about ClientRun, for every number of clients and requests, every *)
(* size of the buffer, every set of answers and every clock.               *)
(*                                                                         *)
(* The invariant is of one client and its connection at a time, ClientOK:  *)
(* when its times were taken, and that what is in its read_hdr_buf and what *)
(* is still unread are together the answer, as long as no answer on the    *)
(* connection was misleading.  That the searches in read_hdr_buf find in   *)
(* it what they should is AnswerFound.                                     *)
(***************************************************************************)
EXTENDS ClientRun, SumTheorems, SequenceTheorems

-----------------------------------------------------------------------------
(***************************************************************************)
(* The clock: compare_time is right whatever wraps around in it, as long   *)
(* as the stop is not before the start and the difference fits an unsigned *)
(* long.                                                                   *)
(***************************************************************************)

\* What % returns differs from its argument by a multiple of Word.
LEMMA ModIsCongruent ==
  ASSUME NEW x \in Int
  PROVE  /\ (x % Word) \in 0 .. Word - 1
         /\ \E k \in Int : x = k * Word + (x % Word)
<1> DEFINE k == x \div Word
<1>1. k \in Int /\ x = k * Word + (x % Word) /\ (x % Word) \in 0 .. Word - 1
  BY TimeArithAssumption, Z3
<1> QED BY <1>1

\* A number below Word that is congruent to another is what % returns.
LEMMA ModIsUnique ==
  ASSUME NEW x \in Int, NEW y \in 0 .. Word - 1, NEW k \in Int,
         x = k * Word + y
  PROVE  (x % Word) = y
<1>1. PICK j \in Int : x = j * Word + (x % Word)
  BY ModIsCongruent
<1>2. (x % Word) \in 0 .. Word - 1
  BY ModIsCongruent
<1>3. (j - k) * Word = y - (x % Word)
  BY <1>1, <1>2, TimeArithAssumption, Z3
<1>4. y - (x % Word) < Word /\ (x % Word) - y < Word
  BY <1>2, TimeArithAssumption
<1> DEFINE d == j - k
<1>5. d \in Int /\ d * Word < Word /\ (- d) * Word < Word
  BY <1>3, <1>4, <1>2, TimeArithAssumption, Z3
<1>6. d < 1
  <2>1. SUFFICES ASSUME d >= 1 PROVE FALSE
    BY <1>5
  <2>2. d * Word >= Word
    BY <2>1, <1>5, TimeArithAssumption, Z3
  <2> QED BY <2>2, <1>5, TimeArithAssumption
<1>7. d > -1
  <2>1. SUFFICES ASSUME d <= -1 PROVE FALSE
    BY <1>5
  <2>2. (- d) * Word >= Word
    BY <2>1, <1>5, TimeArithAssumption, Z3
  <2> QED BY <2>2, <1>5, TimeArithAssumption
<1>8. j = k
  BY <1>5, <1>6, <1>7
<1> QED BY <1>8, <1>1, <1>2, TimeArithAssumption, Z3

\* A timeval of gettimeofday stands for the moment it was taken.
LEMMA TimevalIsTheMoment ==
  ASSUME NEW t \in Nat
  PROVE  /\ Timeval(t) \in [sec : Nat, usec : 0 .. Second - 1]
         /\ Moment(Timeval(t)) = t
<1>1. /\ (t \div Second) \in Nat /\ (t % Second) \in 0 .. Second - 1
      /\ t = (t \div Second) * Second + (t % Second)
  BY TimeArithAssumption, Z3
<1>2. /\ Timeval(t).sec = t \div Second
      /\ Timeval(t).usec = t % Second
      /\ Timeval(t) \in [sec : Nat, usec : 0 .. Second - 1]
  BY <1>1, TimeArithAssumption DEF Timeval
<1>3. Moment(Timeval(t)) = (t \div Second) * Second + (t % Second)
  BY <1>2 DEF Moment
<1> QED BY <1>1, <1>2, <1>3

\* compare_time returns the time from start to stop, whatever wrapped around
\* in the computation, if stop is not before start and not 2^64 microseconds
\* after it.
THEOREM CompareTimeIsRight ==
  ASSUME NEW start \in [sec : Nat, usec : 0 .. Second - 1],
         NEW stop \in [sec : Nat, usec : 0 .. Second - 1],
         Moment(stop) - Moment(start) \in 0 .. Word - 1
  PROVE  CompareTime(start, stop) = Moment(stop) - Moment(start)
<1> DEFINE ds == stop.sec - start.sec
           du == stop.usec - start.usec
           s == ds % Word
           u == du % Word
           ss == (Second * s) % Word
<1>1. ds \in Int /\ du \in Int
  BY TimeArithAssumption
<1>2. PICK a \in Int : ds = a * Word + s
  BY <1>1, ModIsCongruent
<1>3. PICK b \in Int : du = b * Word + u
  BY <1>1, ModIsCongruent
<1>4. s \in Int /\ u \in Int
  <2>1. s \in 0 .. Word - 1
    BY <1>1, ModIsCongruent
  <2>2. u \in 0 .. Word - 1
    BY <1>1, ModIsCongruent
  <2> QED BY <2>1, <2>2, TimeArithAssumption
<1>5. Second * s \in Int
  BY <1>4, TimeArithAssumption
<1>6. PICK c \in Int : Second * s = c * Word + ss
  BY <1>5, ModIsCongruent
<1>7. ss \in Int
  <2>1. ss \in 0 .. Word - 1
    BY <1>5, ModIsCongruent
  <2> QED BY <2>1, TimeArithAssumption
<1> HIDE DEF s, u, ss
<1> DEFINE y == Moment(stop) - Moment(start)
<1>8. y = Second * ds + du
  BY TimeArithAssumption, Z3 DEF Moment
<1>9. y \in 0 .. Word - 1
  OBVIOUS
<1>a. Second * ds = (Second * a) * Word + Second * s
  BY <1>2, <1>4, <1>1, TimeArithAssumption, Z3
<1> HIDE DEF ds, du, y
<1> DEFINE k == - (Second * a + c + b)
<1>b. k \in Int
  BY TimeArithAssumption, Z3
<1>c. (Second * a) * Word + c * Word + b * Word = - (k * Word)
  BY TimeArithAssumption, Z3
<1>d. Word \in Int /\ y \in Int
  BY TimeArithAssumption, <1>9
<1>e. /\ (Second * a) * Word \in Int /\ c * Word \in Int /\ b * Word \in Int
      /\ k * Word \in Int /\ Second * s \in Int /\ Second * ds \in Int
  BY <1>d, <1>b, <1>5, <1>1, TimeArithAssumption
<1> DEFINE A == (Second * a) * Word
           B == b * Word
           C == c * Word
           K == k * Word
           S == Second * s
           D == Second * ds
<1> HIDE DEF k
<1>f. ss + u = K + y
  <2>1. A \in Int /\ B \in Int /\ C \in Int /\ K \in Int /\ S \in Int /\ D \in Int
    BY <1>e
  <2>2. du = B + u /\ S = C + ss /\ y = D + du /\ D = A + S /\ A + C + B = - K
    BY <1>3, <1>6, <1>8, <1>a, <1>c
  <2> HIDE DEF A, B, C, K, S, D
  <2> QED BY <2>1, <2>2, <1>1, <1>4, <1>7, <1>d
<1>g. (ss + u) % Word = y
  BY <1>b, <1>4, <1>7, <1>f, <1>9, ModIsUnique
<1>h. CompareTime(start, stop) = (ss + u) % Word
  BY DEF CompareTime, ss, s, u, ds, du
<1> QED BY <1>g, <1>h DEF y

\* The time between two looks at a clock that is not set back.
COROLLARY ClockDifference ==
  ASSUME NEW t0 \in Nat, NEW t1 \in Nat, t0 <= t1, t1 - t0 < Word
  PROVE  CompareTime(Timeval(t0), Timeval(t1)) = t1 - t0
<1>1. Moment(Timeval(t0)) = t0 /\ Moment(Timeval(t1)) = t1
  BY TimevalIsTheMoment
<1>2. t1 - t0 \in 0 .. Word - 1
  BY TimeArithAssumption
<1> QED BY <1>1, <1>2, TimevalIsTheMoment, CompareTimeIsRight

-----------------------------------------------------------------------------
(***************************************************************************)
(* Text                                                                    *)
(***************************************************************************)

\* What strstr finds is in the text.
LEMMA FoundWithin ==
  ASSUME NEW s \in Seq(UnitType), NEW word
  PROVE  StrStr(s, word) \subseteq 1 .. Len(s) /\ Len(s) \in Nat
BY LenProperties DEF StrStr

\* A word that is in a text is found where it is first.
LEMMA FirstIsFound ==
  ASSUME NEW s \in Seq(UnitType), NEW word, Has(s, word)
  PROVE  /\ FirstAt(s, word) \in StrStr(s, word)
         /\ FirstAt(s, word) \in 1 .. Len(s)
         /\ \A p \in StrStr(s, word) : FirstAt(s, word) <= p
<1> DEFINE T == StrStr(s, word)
<1>1. T \subseteq Nat /\ T # {}
  BY FoundWithin DEF Has
<1> HIDE DEF T
<1>2. \E x \in T : \A y \in T : x <= y
  BY <1>1, SmallestExists
<1>3. Min(T) \in T /\ \A p \in T : Min(T) <= p
  BY <1>2 DEF Min
<1> QED BY <1>3, FoundWithin DEF FirstAt, T

\* s is the beginning of t.
Begins(s, t) == Len(s) <= Len(t) /\ \A p \in 1 .. Len(s) : s[p] = t[p]

\* In the beginning of a text a word is found where it is found in the text.
LEMMA FoundInBeginning ==
  ASSUME NEW s \in Seq(UnitType), NEW t \in Seq(UnitType), NEW word, Begins(s, t)
  PROVE  StrStr(s, word) = {p \in StrStr(t, word) : p <= Len(s)}
<1>1. Len(s) \in Nat /\ Len(t) \in Nat /\ Len(s) <= Len(t)
  BY LenProperties DEF Begins
<1>2. ASSUME NEW p \in 1 .. Len(s)
      PROVE  p \in StrStr(s, word) <=> p \in StrStr(t, word)
  <2>1. p \in 1 .. Len(t) /\ \A q \in 1 .. p : s[q] = t[q]
    BY <1>1, <1>2 DEF Begins
  <2>2. s[p] = t[p]
    BY <1>1, <1>2, <2>1
  <2> QED BY <2>1, <2>2 DEF StrStr
<1>3. StrStr(s, word) \subseteq 1 .. Len(s) /\ StrStr(t, word) \subseteq 1 .. Len(t)
  BY FoundWithin
<1> QED BY <1>1, <1>2, <1>3

\* And it is first where it is first in the text.
LEMMA FirstInBeginning ==
  ASSUME NEW s \in Seq(UnitType), NEW t \in Seq(UnitType), NEW word, Begins(s, t),
         Has(s, word)
  PROVE  Has(t, word) /\ FirstAt(t, word) = FirstAt(s, word)
<1> DEFINE a == FirstAt(s, word)
           b == FirstAt(t, word)
<1>1. StrStr(s, word) = {p \in StrStr(t, word) : p <= Len(s)}
  BY FoundInBeginning
<1>2. /\ a \in StrStr(s, word) /\ a \in 1 .. Len(s)
      /\ \A p \in StrStr(s, word) : a <= p
  BY FirstIsFound
<1>3. Has(t, word)
  BY <1>1, <1>2 DEF Has
<1>4. /\ b \in StrStr(t, word) /\ b \in 1 .. Len(t)
      /\ \A p \in StrStr(t, word) : b <= p
  BY <1>3, FirstIsFound
<1> HIDE DEF a, b
<1>5. b <= a /\ Len(s) \in Nat
  BY <1>1, <1>2, <1>4, LenProperties
<1>6. b \in StrStr(s, word)
  BY <1>1, <1>2, <1>4, <1>5
<1>7. a <= b
  BY <1>2, <1>6
<1> QED BY <1>2, <1>3, <1>4, <1>5, <1>7 DEF a, b

\* A text that is s and then t, and also h and then b: the shorter of s and h
\* begins the other, and what s has behind h is from b.
TwoSplits(s, t, h, b) ==
  /\ Len(s) + Len(t) = Len(h) + Len(b)
  /\ Len(s) <= Len(h) => Begins(s, h)
  /\ Len(h) <= Len(s) => Begins(h, s)
  /\ \A p \in 1 .. Len(s) : p > Len(h) => s[p] = b[p - Len(h)]

LEMMA SplitLater ==
  ASSUME NEW s \in Seq(UnitType), NEW t \in Seq(UnitType),
         NEW h \in Seq(UnitType), NEW b \in Seq(UnitType), s \o t = h \o b
  PROVE  TwoSplits(s, t, h, b)
<1> DEFINE m == s \o t
<1>1. Len(s) \in Nat /\ Len(t) \in Nat /\ Len(h) \in Nat /\ Len(b) \in Nat
  BY LenProperties
<1>2. /\ Len(m) = Len(s) + Len(t)
      /\ \A p \in 1 .. Len(s) + Len(t) : m[p] = IF p <= Len(s) THEN s[p] ELSE t[p - Len(s)]
  BY ConcatProperties
<1>3. /\ Len(m) = Len(h) + Len(b)
      /\ \A p \in 1 .. Len(h) + Len(b) : m[p] = IF p <= Len(h) THEN h[p] ELSE b[p - Len(h)]
  BY ConcatProperties
<1> HIDE DEF m
<1>4. \A p \in 1 .. Len(s) : m[p] = s[p]
  BY <1>1, <1>2
<1>5. \A p \in 1 .. Len(h) : m[p] = h[p]
  BY <1>1, <1>3
<1>6. \A p \in 1 .. Len(s) : p > Len(h) => m[p] = b[p - Len(h)]
  BY <1>1, <1>2, <1>3
<1> QED BY <1>1, <1>2, <1>3, <1>4, <1>5, <1>6 DEF Begins, TwoSplits

\* An answer that does not mislead announces a length.
LEMMA AnnouncesLength ==
  ASSUME NEW a \in AnswerType, ~ Misleads(a)
  PROVE  /\ a.hdr \in Seq(UnitType) /\ a.body \in Seq(UnitType)
         /\ IsHeader(a.hdr)
         /\ Has(a.hdr, "Content-Length")
         /\ Announced(a) = a.hdr[FirstAt(a.hdr, "Content-Length")].number
         /\ Announced(a) \in 0 .. UInt - 1
         /\ Len(a.body) <= Announced(a)
<1>1. a.hdr \in Seq(UnitType) /\ a.body \in Seq(UnitType) /\ Len(a.body) \in Nat
  BY LenProperties DEF AnswerType
<1>2. IsHeader(a.hdr) /\ ~ (Len(a.body) > Announced(a)) /\ ~ (Announced(a) >= UInt)
  BY DEF Misleads
<1>3. Has(a.hdr, "Content-Length")
  <2>1. SUFFICES ASSUME ~ Has(a.hdr, "Content-Length") PROVE FALSE
    OBVIOUS
  <2>2. Announced(a) = -1
    BY <2>1 DEF Announced
  <2> QED BY <2>2, <1>1, <1>2
<1>4. Announced(a) = a.hdr[FirstAt(a.hdr, "Content-Length")].number
  BY <1>3 DEF Announced
<1>5. FirstAt(a.hdr, "Content-Length") \in 1 .. Len(a.hdr)
  BY <1>1, <1>3, FirstIsFound
<1>6. a.hdr[FirstAt(a.hdr, "Content-Length")] \in UnitType
  BY <1>1, <1>5, ElementOfSeq
<1>7. Announced(a) \in Nat
  BY <1>4, <1>6 DEF UnitType
<1> QED BY <1>1, <1>2, <1>3, <1>4, <1>7, ClientRunAssumption

\* What is found in s, the beginning of an answer that does not mislead, when t
\* is the rest of it: the empty line when all of the header is there, and then
\* what the header tells, whatever there is of the body.
LEMMA AnswerFound ==
  ASSUME NEW a \in AnswerType, ~ Misleads(a),
         NEW s \in Seq(UnitType), NEW t \in Seq(UnitType), s \o t = a.hdr \o a.body
  PROVE  /\ Len(s) + Len(t) = Len(a.hdr) + Len(a.body)
         /\ Has(s, "empty-line") <=> Len(s) >= Len(a.hdr)
         /\ Has(s, "empty-line") =>
              /\ FirstAt(s, "empty-line") = Len(a.hdr)
              /\ Has(s, "200-OK") <=> Has(a.hdr, "200-OK")
              /\ Has(s, "Content-Length")
              /\ s[FirstAt(s, "Content-Length")].number = Announced(a)
<1> DEFINE h == a.hdr
           b == a.body
<1>1. /\ h \in Seq(UnitType) /\ b \in Seq(UnitType)
      /\ StrStr(h, "empty-line") = {Len(h)}
      /\ Has(h, "Content-Length")
      /\ Announced(a) = h[FirstAt(h, "Content-Length")].number
  BY AnnouncesLength DEF IsHeader
<1>2. Has(b, "200-OK") => Has(h, "200-OK")
  BY DEF Misleads
<1> HIDE DEF h, b
<1>3. s \o t = h \o b
  BY DEF h, b
<1>4. /\ Len(s) \in Nat /\ Len(t) \in Nat /\ Len(h) \in Nat /\ Len(b) \in Nat
  BY <1>1, LenProperties
<1>5. /\ Len(s) + Len(t) = Len(h) + Len(b)
      /\ Len(s) <= Len(h) => Begins(s, h)
      /\ Len(h) <= Len(s) => Begins(h, s)
      /\ \A p \in 1 .. Len(s) : p > Len(h) => s[p] = b[p - Len(h)]
  <2>1. h \in Seq(UnitType) /\ b \in Seq(UnitType)
    BY <1>1
  <2>2. s \in Seq(UnitType) /\ t \in Seq(UnitType)
    OBVIOUS
  <2>3. TwoSplits(s, t, h, b)
    BY <1>3, <2>1, <2>2, SplitLater, Zenon
  <2> QED BY <2>3 DEF TwoSplits
<1>6. Has(h, "empty-line") /\ FirstAt(h, "empty-line") = Len(h)
  <2>1. Has(h, "empty-line")
    BY <1>1 DEF Has
  <2>2. FirstAt(h, "empty-line") \in StrStr(h, "empty-line")
    BY <1>1, <2>1, FirstIsFound
  <2> QED BY <1>1, <2>1, <2>2
<1>7. ASSUME Len(s) < Len(h) PROVE ~ Has(s, "empty-line")
  <2>1. Begins(s, h)
    BY <1>4, <1>5, <1>7
  <2>2. StrStr(s, "empty-line") = {p \in StrStr(h, "empty-line") : p <= Len(s)}
    BY <1>1, <2>1, FoundInBeginning
  <2>3. StrStr(s, "empty-line") = {}
    BY <2>2, <1>1, <1>4, <1>7
  <2> QED BY <2>3 DEF Has
<1>8. ASSUME Len(s) >= Len(h)
      PROVE  /\ Has(s, "empty-line") /\ FirstAt(s, "empty-line") = Len(h)
             /\ Has(s, "Content-Length")
             /\ s[FirstAt(s, "Content-Length")].number = Announced(a)
             /\ Has(s, "200-OK") <=> Has(h, "200-OK")
  <2>1. Begins(h, s)
    BY <1>4, <1>5, <1>8
  <2>2. Has(s, "empty-line") /\ FirstAt(s, "empty-line") = Len(h)
    BY <1>1, <1>6, <2>1, FirstInBeginning
  <2>3. Has(s, "Content-Length") /\ FirstAt(s, "Content-Length") = FirstAt(h, "Content-Length")
    BY <1>1, <2>1, FirstInBeginning
  <2>4. FirstAt(h, "Content-Length") \in 1 .. Len(h)
    BY <1>1, FirstIsFound
  <2>5. s[FirstAt(s, "Content-Length")].number = Announced(a)
    BY <1>1, <2>1, <2>3, <2>4 DEF Begins
  <2>6. Has(h, "200-OK") => Has(s, "200-OK")
    BY <1>1, <2>1, FirstInBeginning
  <2>7. ASSUME NEW p \in StrStr(s, "200-OK"), p > Len(h) PROVE Has(b, "200-OK")
    <3> DEFINE q == p - Len(h)
    <3>1. p \in 1 .. Len(s) /\ "200-OK" \in s[p].words /\ \A r \in 1 .. p : "nul" \notin s[r].words
      BY <2>7 DEF StrStr
    <3>2. q \in 1 .. Len(b)
      BY <1>4, <1>5, <2>7, <3>1
    <3>3. "200-OK" \in b[q].words
      BY <1>5, <2>7, <3>1
    <3>4. ASSUME NEW r \in 1 .. q PROVE "nul" \notin b[r].words
      <4>1. Len(h) + r \in 1 .. p /\ Len(h) + r \in 1 .. Len(s) /\ Len(h) + r > Len(h)
        BY <1>4, <3>1, <3>4
      <4>2. (Len(h) + r) - Len(h) = r
        BY <1>4, <3>4
      <4>3. s[Len(h) + r] = b[(Len(h) + r) - Len(h)]
        BY <1>5, <4>1
      <4> QED BY <4>1, <4>2, <4>3, <3>1
    <3> QED BY <3>2, <3>3, <3>4 DEF Has, StrStr
  <2>8. ASSUME NEW p \in StrStr(s, "200-OK"), p <= Len(h) PROVE Has(h, "200-OK")
    <3>1. StrStr(h, "200-OK") = {r \in StrStr(s, "200-OK") : r <= Len(h)}
      BY <1>1, <2>1, FoundInBeginning
    <3> QED BY <2>8, <3>1 DEF Has
  <2>9. Has(s, "200-OK") => Has(h, "200-OK")
    <3>1. SUFFICES ASSUME NEW p \in StrStr(s, "200-OK") PROVE Has(h, "200-OK")
      BY DEF Has
    <3>2. p \in Nat
      BY FoundWithin, <1>4
    <3> QED BY <1>2, <1>4, <2>7, <2>8, <3>2
  <2> QED BY <2>2, <2>3, <2>5, <2>6, <2>9
<1>9. Has(s, "empty-line") <=> Len(s) >= Len(h)
  BY <1>4, <1>7, <1>8
<1>10. Has(s, "empty-line") =>
         /\ FirstAt(s, "empty-line") = Len(h)
         /\ Has(s, "200-OK") <=> Has(h, "200-OK")
         /\ Has(s, "Content-Length")
         /\ s[FirstAt(s, "Content-Length")].number = Announced(a)
  BY <1>8, <1>9
<1> QED BY <1>5, <1>9, <1>10 DEF h, b

\* A length that an unsigned int holds is what atoi makes of it.
LEMMA AtoiOfLength ==
  ASSUME NEW n \in Nat
  PROVE  /\ Atoi(n) \in 0 .. UInt - 1
         /\ n < UInt => Atoi(n) = n
<1>1. UInt \in Nat /\ UInt >= 2 /\ Word \in Nat /\ 2 * UInt <= Word
  BY ClientRunAssumption, TimeArithAssumption
<1> DEFINE half == Word \div 2
<1>2. half \in Nat /\ UInt <= half
  BY <1>1, Z3
<1> HIDE DEF half
<1> DEFINE m == Atol(n)
<1>3. m \in Nat /\ (n < UInt => m = n)
  BY <1>1, <1>2 DEF Atol, Least, half
<1> HIDE DEF m
<1>4. (m % UInt) \in 0 .. UInt - 1 /\ (m < UInt => (m % UInt) = m)
  BY <1>1, <1>3, Z3
<1> QED BY <1>3, <1>4 DEF Atoi, m

-----------------------------------------------------------------------------
(***************************************************************************)
(* The invariant                                                           *)
(***************************************************************************)

\* A time that was taken at t or before.
TakenBy(tv, t) == Moment(tv) \in Start .. t

\* The clock is within its bounds.
NowOK == now \in Start .. Start + MaxTicks

\* The times of client c at time t.
TimesOK(c, t) ==
  /\ c.fd => TakenBy(c.CTstart, t) /\ TakenBy(c.CRTstart, t)
  /\ c.state = "READING" => TakenBy(c.RTstart, t)

\* Client c, which does not read, and its connection w.
IdleOK(c, w) ==
  /\ c.state = "CONNECT" => /\ c.bytes_read = 0 /\ c.header_length = 0
                            /\ c.fd => w = NewConnection
  /\ c.state # "CONNECT" => c.fd
  /\ c.state = "WRITING" => /\ c.bytes_read = 0 /\ c.header_length = 0
                            /\ c.read_hdr_buf = <<>>
                            /\ ~ w.odd => ~ w.owed /\ w.text = <<>>

\* Client c, with w still to be read, is before the empty line of an answer:
\* one that has not been sent, or w.cur.
HeaderOK(c, w) ==
  /\ c.bytes_read = Len(c.read_hdr_buf) /\ c.bytes_read < MaxHdr
  /\ ~ w.odd /\ w.owed => w.text = <<>> /\ c.read_hdr_buf = <<>>
  /\ ~ w.odd /\ ~ w.owed => /\ ~ Misleads(w.cur)
                            /\ c.read_hdr_buf \o w.text = w.cur.hdr \o w.cur.body
                            /\ Len(c.read_hdr_buf) < Len(w.cur.hdr)

\* Client c is in the body of the answer w.cur.
BodyOK(c, w) == /\ ~ w.owed /\ ~ Misleads(w.cur) /\ Has(w.cur.hdr, "200-OK")
                /\ c.content_length = Announced(w.cur)
                /\ c.bytes_read = Len(w.cur.body) - Len(w.text)
                /\ c.bytes_read # c.content_length

ReadingOK(c, w) ==
  c.state = "READING" => /\ c.header_length = 0 => HeaderOK(c, w)
                         /\ c.header_length > 0 /\ ~ w.odd => BodyOK(c, w)

\* Client c with its connection w at time t.
ClientOK(c, w, t) ==
  /\ c \in ClientType /\ Len(c.read_hdr_buf) <= MaxHdr /\ w \in ConnectionType
  /\ TimesOK(c, t) /\ IdleOK(c, w) /\ ReadingOK(c, w)

\* w, which was being read when the process exited, explains the exit.
Explains(w, why) == /\ why = "no-headers" => w.odd \/ Len(w.cur.hdr) > MaxHdr
                    /\ why = "no-length" => w.odd
                    /\ why = "EOF" => w.odd \/ Len(w.cur.body) # Announced(w.cur)

ExitExplained == exit \in {"no-headers", "no-length", "EOF"} =>
                   \E i \in Clients : Reading(i) /\ Explains(net[i], exit)

\* The inductive invariant.  After an exit there is nothing left to know of the
\* client that was being read.
IInv == /\ RunTypeOK /\ TimesRight /\ ExitExplained
        /\ exit = "no" => \A i \in Clients : ClientOK(client[i], net[i], now)

\* Every client is in its place.
ClientsPlaced == /\ client \in [Clients -> ClientType]
                 /\ net \in [Clients -> ConnectionType]
                 /\ \A j \in Clients : Len(client[j].read_hdr_buf) <= MaxHdr
                 /\ \A j \in Clients : ClientOK(client[j], net[j], now)

\* What a step of client i makes of it and its connection, when the others are
\* left as they are.
Moved(i, c, w) == /\ client' = [client EXCEPT ![i] = c]
                  /\ net' = [net EXCEPT ![i] = w]

\* A step that moves client i into a right place leaves all clients right.
LEMMA MovedOK ==
  ASSUME IInv, exit = "no", NEW i \in Clients, NEW c, NEW w, Moved(i, c, w),
         now' = now, ClientOK(c, w, now)
  PROVE  ClientsPlaced'
<1>1. client \in [Clients -> ClientType] /\ net \in [Clients -> ConnectionType]
  BY DEF IInv, RunTypeOK
<1>2. c \in ClientType /\ w \in ConnectionType
  BY DEF ClientOK
<1>3. \A j \in Clients : ClientOK(client[j], net[j], now)
  BY DEF IInv
<1>4. /\ client' \in [Clients -> ClientType]
      /\ net' \in [Clients -> ConnectionType]
  BY <1>1, <1>2 DEF Moved
<1>5. ASSUME NEW j \in Clients PROVE ClientOK(client'[j], net'[j], now')
  <2>1. CASE j = i
    <3>1. client'[j] = c /\ net'[j] = w
      BY <2>1, <1>1 DEF Moved
    <3> QED BY <3>1
  <2>2. CASE j # i
    <3>1. client'[j] = client[j] /\ net'[j] = net[j]
      BY <2>2, <1>1 DEF Moved
    <3> QED BY <3>1, <1>3
  <2> QED BY <2>1, <2>2
<1>6. \A j \in Clients : Len(client'[j].read_hdr_buf) <= MaxHdr
  BY <1>5 DEF ClientOK
<1> QED BY <1>4, <1>5, <1>6 DEF ClientsPlaced

-----------------------------------------------------------------------------
(***************************************************************************)
(* Times                                                                   *)
(***************************************************************************)

\* compare_time of a start time that was taken is the time that passed since.
LEMMA ElapsedRight ==
  ASSUME NowOK, NEW tv \in TimevalType, TakenBy(tv, now)
  PROVE  /\ Elapsed(tv) = TrueElapsed(tv)
         /\ TrueElapsed(tv) \in Nat
<1>0. now \in Nat
  BY ClientRunAssumption DEF NowOK
<1>1. Moment(tv) \in Nat
  BY TimeArithAssumption, Z3 DEF Moment, TimevalType
<1>2. Timeval(now) \in TimevalType /\ Moment(Timeval(now)) = now
  BY <1>0, TimevalIsTheMoment DEF TimevalType
<1>3. now - Moment(tv) \in 0 .. Word - 1
  BY <1>1, <1>0, ClientRunAssumption, TimeArithAssumption DEF TakenBy, NowOK
<1>4. CompareTime(tv, Timeval(now)) = now - Moment(tv)
  BY <1>2, <1>3, CompareTimeIsRight DEF TimevalType
<1> QED BY <1>4, <1>3 DEF Elapsed, TrueElapsed

\* gettimeofday gives a start time taken now.
LEMMA TimevalNow ==
  ASSUME NowOK
  PROVE  Timeval(now) \in TimevalType /\ TakenBy(Timeval(now), now)
<1>1. now \in Nat /\ now \in Start .. now
  BY ClientRunAssumption DEF NowOK
<1> QED BY <1>1, TimevalIsTheMoment, TimeArithAssumption DEF TimevalType, TakenBy

\* The clock is among the typed variables.
LEMMA NowIsOK ==
  ASSUME RunTypeOK
  PROVE  NowOK
BY DEF RunTypeOK, NowOK

-----------------------------------------------------------------------------
(***************************************************************************)
(* Init, connecting and sending                                            *)
(***************************************************************************)

\* A client at the beginning of a run is in its place.
LEMMA NewClientOK ==
  ASSUME NEW t
  PROVE  ClientOK(NewClient, NewConnection, t)
<1>1. Timeval(0) \in TimevalType
  BY TimevalIsTheMoment DEF TimevalType
<1>2. <<>> \in Seq(UnitType) /\ Len(<<>>) = 0
  BY EmptySeq
<1>3. 0 \in 0 .. UInt - 1 /\ 0 \in 0 .. Word - 1 /\ 0 \in 0 .. MaxHdr /\ 0 \in 0 .. MsgPerConn - 1
  BY ClientRunAssumption, TimeArithAssumption
<1>4. NewClient \in ClientType
  BY <1>1, <1>2, <1>3 DEF NewClient, ClientType
<1>5. NewConnection \in ConnectionType
  BY <1>2 DEF NewConnection, ConnectionType, NoAnswer, AnswerType
<1>6. Len(NewClient.read_hdr_buf) <= MaxHdr
  BY <1>2, ClientRunAssumption DEF NewClient
<1> QED BY <1>4, <1>5, <1>6 DEF ClientOK, TimesOK, IdleOK, ReadingOK, NewClient

\* The invariant holds at first.
LEMMA InitOK ==
  ASSUME Init
  PROVE  IInv
<1>2. ClientOK(NewClient, NewConnection, now)
  BY NewClientOK
<1>3. /\ NewClient \in ClientType /\ NewConnection \in ConnectionType
      /\ Len(NewClient.read_hdr_buf) <= MaxHdr
  BY <1>2 DEF ClientOK
<1>4. RunTypeOK
  BY <1>3, ClientRunAssumption
  DEF Init, RunTypeOK, NoStats, NothingTook, NothingTaken, StatsType, TookType
<1>5. TimesRight
  BY DEF Init, TimesRight, NoStats, NothingTook
<1>6. \A i \in Clients : ClientOK(client[i], net[i], now)
  BY <1>2 DEF Init
<1>7. exit = "no"
  BY DEF Init
<1> QED BY <1>4, <1>5, <1>6, <1>7 DEF IInv, ExitExplained

\* A client whose request has just been counted: it may be one too many.
CountingType ==
  [state : {"CONNECT", "WRITING", "READING"}, fd : BOOLEAN,
   nbRequestsOnIteration : Nat, bytes_read : 0 .. UInt - 1,
   header_length : 0 .. MaxHdr, content_length : 0 .. UInt - 1,
   read_hdr_buf : Seq(UnitType), errors : Nat,
   total_bytes_recv : 0 .. Word - 1, total_resp_recv : Nat,
   CTstart : TimevalType, RTstart : TimevalType, CRTstart : TimevalType]

\* A client record is also one that is being counted.
LEMMA ClientIsCounting ==
  ASSUME NEW c \in ClientType
  PROVE  c \in CountingType /\ c.nbRequestsOnIteration \in 0 .. MsgPerConn - 1
BY DEF ClientType, CountingType

\* It is a client record again once its request counter is in range.
LEMMA CountingIsClient ==
  ASSUME NEW c \in CountingType, c.nbRequestsOnIteration \in 0 .. MsgPerConn - 1
  PROVE  c \in ClientType
BY DEF ClientType, CountingType

\* What change_state leaves alone, and what it resets.
LEMMA ToWriting ==
  ASSUME NEW c \in CountingType, c.nbRequestsOnIteration \in 0 .. MsgPerConn - 1
  PROVE  LET d == ChangeState(c, "WRITING")
         IN  /\ d \in ClientType /\ d.state = "WRITING"
             /\ d.bytes_read = 0 /\ d.header_length = 0 /\ d.read_hdr_buf = <<>>
             /\ d.fd = c.fd /\ d.CTstart = c.CTstart /\ d.CRTstart = c.CRTstart
             /\ d.nbRequestsOnIteration = c.nbRequestsOnIteration
             /\ d.total_resp_recv = c.total_resp_recv
<1> DEFINE d == ChangeState(c, "WRITING")
<1>1. d = [c EXCEPT !.state = "WRITING", !.bytes_read = 0, !.header_length = 0,
                    !.content_length = 0, !.read_hdr_buf = <<>>]
  BY DEF ChangeState
<1> HIDE DEF d
<1>2. 0 \in 0 .. MaxHdr /\ 0 \in 0 .. UInt - 1 /\ <<>> \in Seq(UnitType)
  BY ClientRunAssumption, EmptySeq
<1>3. d \in CountingType /\ d.nbRequestsOnIteration = c.nbRequestsOnIteration
  BY <1>1, <1>2 DEF CountingType
<1>4. d \in ClientType
  BY <1>3, CountingIsClient
<1>5. /\ d.state = "WRITING" /\ d.bytes_read = 0 /\ d.header_length = 0
      /\ d.read_hdr_buf = <<>>
      /\ d.fd = c.fd /\ d.CTstart = c.CTstart /\ d.CRTstart = c.CRTstart
      /\ d.nbRequestsOnIteration = c.nbRequestsOnIteration
      /\ d.total_resp_recv = c.total_resp_recv
  BY <1>1 DEF CountingType
<1> QED BY <1>4, <1>5 DEF d

\* change_state to CONNECT forgets what was read and keeps the rest, the bytes
\* in read_hdr_buf included.
LEMMA ToConnect ==
  ASSUME NEW c \in CountingType
  PROVE  LET d == ChangeState(c, "CONNECT")
         IN  /\ d \in ClientType /\ d.state = "CONNECT"
             /\ d.bytes_read = 0 /\ d.header_length = 0
             /\ d.read_hdr_buf = c.read_hdr_buf
             /\ d.fd = c.fd /\ d.total_resp_recv = c.total_resp_recv
<1> DEFINE d == ChangeState(c, "CONNECT")
<1>1. d = [c EXCEPT !.state = "CONNECT", !.bytes_read = 0, !.header_length = 0,
                    !.content_length = 0, !.nbRequestsOnIteration = 0]
  BY DEF ChangeState
<1> HIDE DEF d
<1>2. 0 \in 0 .. MaxHdr /\ 0 \in 0 .. UInt - 1 /\ 0 \in 0 .. MsgPerConn - 1
  BY ClientRunAssumption
<1>3. d \in ClientType
  BY <1>1, <1>2 DEF ClientType, CountingType
<1>4. /\ d.state = "CONNECT" /\ d.bytes_read = 0 /\ d.header_length = 0
      /\ d.read_hdr_buf = c.read_hdr_buf
      /\ d.fd = c.fd /\ d.total_resp_recv = c.total_resp_recv
  BY <1>1 DEF CountingType
<1> QED BY <1>3, <1>4 DEF d

\* What AnswersWhole says of the connection of an answer that is counted, and of
\* a step.
Whole(c) == \/ c.odd
            \/ /\ ~ c.owed /\ c.text = <<>> /\ Has(c.cur.hdr, "200-OK")
               /\ Len(c.cur.body) = Announced(c.cur)

AnswerStep == \A i \in Clients : AnswerCounted(i) => Whole(net'[i])

\* A step that counts no answer of client i.
LEMMA NoAnswerCounted ==
  ASSUME RunTypeOK, NEW i \in Clients, NEW c \in ClientType,
         client' = [client EXCEPT ![i] = c],
         c.total_resp_recv = client[i].total_resp_recv
  PROVE  AnswerStep
<1>1. client \in [Clients -> ClientType]
  BY DEF RunTypeOK
<1>2. ASSUME NEW j \in Clients
      PROVE  ~ (client'[j].total_resp_recv > client[j].total_resp_recv)
  <2>1. client[j].total_resp_recv \in Nat
    BY <1>1 DEF ClientType
  <2>2. client'[j].total_resp_recv = client[j].total_resp_recv
    BY <1>1
  <2> QED BY <2>1, <2>2
<1> QED BY <1>2 DEF AnswerStep, AnswerCounted

\* From the parts of IInv' to IInv', while the process runs.
LEMMA GoesOn ==
  ASSUME RunTypeOK', TimesRight', exit' = "no", ClientsPlaced'
  PROVE  IInv'
BY DEF IInv, ExitExplained, ClientsPlaced

\* socket and connect of the writing thread.
LEMMA InitClientSocketOK ==
  ASSUME IInv, exit = "no", NEW i \in Clients, InitClientSocket(i)
  PROVE  IInv' /\ AnswerStep
<1> DEFINE tv == Timeval(now)
           c == [client[i] EXCEPT !.fd = TRUE, !.CTstart = tv, !.CRTstart = tv]
<1>1. RunTypeOK /\ NowOK /\ TimesRight
  BY NowIsOK DEF IInv
<1>2. tv \in TimevalType /\ TakenBy(tv, now)
  BY <1>1, TimevalNow
<1>3. ClientOK(client[i], net[i], now)
  BY DEF IInv
<1>4. client[i] \in ClientType /\ client \in [Clients -> ClientType]
  BY <1>1 DEF RunTypeOK
<1>5. client' = [client EXCEPT ![i] = c]
  BY <1>4 DEF InitClientSocket
<1> HIDE DEF tv
<1>6. c \in ClientType
  BY <1>4, <1>2 DEF ClientType
<1>7. NewConnection \in ConnectionType
  BY NewClientOK, <1>1 DEF ClientOK
<1>8. ClientOK(c, NewConnection, now)
  <2>1. /\ c.state = "CONNECT" /\ c.fd /\ c.CTstart = tv /\ c.CRTstart = tv
        /\ c.bytes_read = client[i].bytes_read
        /\ c.header_length = client[i].header_length
        /\ c.read_hdr_buf = client[i].read_hdr_buf
    BY <1>4 DEF InitClientSocket, ClientType
  <2>2. /\ client[i].bytes_read = 0 /\ client[i].header_length = 0
        /\ Len(client[i].read_hdr_buf) <= MaxHdr
    BY <1>3 DEF InitClientSocket, ClientOK, IdleOK
  <2> QED BY <2>1, <2>2, <1>2, <1>6, <1>7 DEF ClientOK, TimesOK, IdleOK, ReadingOK
<1>9. Moved(i, c, NewConnection) /\ now' = now
  BY <1>5 DEF InitClientSocket, Moved
<1>10. ClientsPlaced'
  BY <1>8, <1>9, MovedOK
<1>11. RunTypeOK' /\ TimesRight' /\ exit' = "no"
  BY <1>1, <1>10 DEF InitClientSocket, RunTypeOK, ClientsPlaced, TimesRight
<1>12. AnswerStep
  BY <1>1, <1>5, <1>6, <1>4, NoAnswerCounted DEF ClientType
<1> QED BY <1>10, <1>11, <1>12, GoesOn

\* The connection is there, or has failed.
LEMMA FinalizeConnectOK ==
  ASSUME IInv, exit = "no", NEW i \in Clients, FinalizeConnect(i)
  PROVE  IInv' /\ AnswerStep
<1> DEFINE c == ChangeState(client[i], "WRITING")
           tv == client[i].CTstart
<1>1. RunTypeOK /\ NowOK /\ TimesRight
  BY NowIsOK DEF IInv
<1>2. ClientOK(client[i], net[i], now)
  BY DEF IInv
<1>3. client[i] \in ClientType /\ client \in [Clients -> ClientType]
  BY <1>1 DEF RunTypeOK
<1>4. client' = [client EXCEPT ![i] = c] /\ client[i].state = "CONNECT" /\ client[i].fd
  BY <1>3 DEF FinalizeConnect
<1>5. /\ c \in ClientType
      /\ c.state = "WRITING" /\ c.fd /\ c.bytes_read = 0 /\ c.header_length = 0
      /\ c.read_hdr_buf = <<>>
      /\ c.CTstart = client[i].CTstart /\ c.CRTstart = client[i].CRTstart
      /\ c.total_resp_recv = client[i].total_resp_recv
  BY <1>3, <1>4, ToWriting, ClientIsCounting
<1> HIDE DEF c
<1>6. net[i] = NewConnection
  BY <1>2, <1>4 DEF ClientOK, IdleOK
<1>7. ClientOK(c, net[i], now)
  BY <1>2, <1>5, <1>4, <1>6, EmptySeq, ClientRunAssumption
  DEF ClientOK, TimesOK, IdleOK, ReadingOK, NewConnection
<1>8. Moved(i, c, net[i]) /\ now' = now
  BY <1>1, <1>4 DEF FinalizeConnect, Moved, RunTypeOK
<1>9. ClientsPlaced'
  BY <1>7, <1>8, MovedOK
<1>10. tv \in TimevalType /\ TakenBy(tv, now)
  BY <1>2, <1>3, <1>4 DEF ClientOK, TimesOK, ClientType
<1>11. Elapsed(tv) = TrueElapsed(tv) /\ TrueElapsed(tv) \in Nat
  BY <1>10, <1>1, ElapsedRight
<1>12. stats \in StatsType /\ took \in TookType
  BY <1>1 DEF RunTypeOK
<1>13. /\ stats' \in StatsType /\ took' \in TookType
       /\ stats'.avgCT = stats.avgCT + Elapsed(tv) /\ stats'.nb_CT = stats.nb_CT + 1
       /\ stats'.avgRT = stats.avgRT /\ stats'.nb_RT = stats.nb_RT
       /\ stats'.avgCRT = stats.avgCRT
       /\ took'.CT = took.CT + TrueElapsed(tv)
       /\ took'.connections = took.connections + 1
       /\ took'.RT = took.RT /\ took'.answers = took.answers /\ took'.CRT = took.CRT
  <2> DEFINE e == Elapsed(tv)
             te == TrueElapsed(tv)
  <2>1. e \in Nat /\ te \in Nat
    BY <1>11
  <2>2. /\ stats' = [stats EXCEPT !.minCT = IF e < @ THEN e ELSE @,
                                 !.maxCT = IF e > @ THEN e ELSE @,
                                 !.avgCT = @ + e, !.nb_CT = @ + 1]
        /\ took' = [took EXCEPT !.CT = @ + te, !.connections = @ + 1]
    BY DEF FinalizeConnect
  <2> HIDE DEF e, te
  <2> DEFINE mi == IF e < stats.minCT THEN e ELSE stats.minCT
             ma == IF e > stats.maxCT THEN e ELSE stats.maxCT
  <2>3. /\ mi \in Nat /\ ma \in Nat
        /\ stats' = [stats EXCEPT !.minCT = mi, !.maxCT = ma, !.avgCT = @ + e,
                                  !.nb_CT = @ + 1]
    BY <2>1, <2>2, <1>12 DEF StatsType
  <2> HIDE DEF mi, ma
  <2> DEFINE a1 == stats.avgCT + e
             a2 == stats.nb_CT + 1
             a3 == took.CT + te
             a4 == took.connections + 1
  <2>4. /\ a1 \in Nat /\ a2 \in Nat /\ a3 \in Nat /\ a4 \in Nat
        /\ stats' = [stats EXCEPT !.minCT = mi, !.maxCT = ma, !.avgCT = a1,
                                  !.nb_CT = a2]
        /\ took' = [took EXCEPT !.CT = a3, !.connections = a4]
    BY <2>1, <2>2, <2>3, <1>12 DEF StatsType, TookType
  <2> HIDE DEF a1, a2, a3, a4
  <2>5. stats' \in StatsType /\ took' \in TookType
    <3>1. stats' \in StatsType
      BY <2>3, <2>4, <1>12 DEF StatsType
    <3>2. took' \in TookType
      BY <2>4, <1>12 DEF TookType
    <3> QED BY <3>1, <3>2
  <2>6. /\ stats'.avgCT = a1 /\ stats'.nb_CT = a2
        /\ stats'.avgRT = stats.avgRT /\ stats'.nb_RT = stats.nb_RT
        /\ stats'.avgCRT = stats.avgCRT
        /\ took'.CT = a3 /\ took'.connections = a4
        /\ took'.RT = took.RT /\ took'.answers = took.answers /\ took'.CRT = took.CRT
    BY <2>4, <1>12 DEF StatsType, TookType
  <2> QED BY <2>5, <2>6 DEF e, te, a1, a2, a3, a4
<1>14. RunTypeOK' /\ TimesRight' /\ exit' = "no"
  BY <1>1, <1>9, <1>11, <1>13 DEF FinalizeConnect, RunTypeOK, ClientsPlaced, TimesRight
<1>15. AnswerStep
  BY <1>1, <1>4, <1>5, NoAnswerCounted
<1> QED BY <1>9, <1>14, <1>15, GoesOn

\* A request is sent.
LEMMA SendRequestOK ==
  ASSUME IInv, exit = "no", NEW i \in Clients, SendRequest(i)
  PROVE  IInv' /\ AnswerStep
<1> DEFINE tv == Timeval(now)
           c == ChangeState([client[i] EXCEPT !.RTstart = tv], "READING")
           w == [net[i] EXCEPT !.owed = TRUE]
<1>1. RunTypeOK /\ NowOK /\ TimesRight
  BY NowIsOK DEF IInv
<1>2. ClientOK(client[i], net[i], now)
  BY DEF IInv
<1>3. /\ client[i] \in ClientType /\ client \in [Clients -> ClientType]
      /\ net[i] \in ConnectionType /\ net \in [Clients -> ConnectionType]
  BY <1>1 DEF RunTypeOK
<1>4. tv \in TimevalType /\ TakenBy(tv, now)
  BY <1>1, TimevalNow
<1>5. Moved(i, c, w) /\ now' = now /\ client[i].state = "WRITING"
  BY <1>3 DEF SendRequest, Moved
<1> HIDE DEF tv
<1>6. /\ c \in ClientType
      /\ c.state = "READING" /\ c.fd = client[i].fd /\ c.RTstart = tv
      /\ c.bytes_read = client[i].bytes_read
      /\ c.header_length = client[i].header_length
      /\ c.read_hdr_buf = client[i].read_hdr_buf
      /\ c.CTstart = client[i].CTstart /\ c.CRTstart = client[i].CRTstart
      /\ c.total_resp_recv = client[i].total_resp_recv
  BY <1>3, <1>4 DEF ChangeState, ClientType
<1>7. /\ w \in ConnectionType /\ w.owed /\ w.text = net[i].text
      /\ w.odd = net[i].odd
  BY <1>3 DEF ConnectionType
<1> HIDE DEF c, w
<1>8. ClientOK(c, w, now)
  <2>1. /\ c.fd /\ c.bytes_read = 0 /\ c.header_length = 0 /\ c.read_hdr_buf = <<>>
        /\ ~ w.odd => w.text = <<>>
    BY <1>2, <1>5, <1>6, <1>7 DEF ClientOK, IdleOK
  <2>2. TimesOK(c, now)
    BY <1>2, <1>4, <1>6, <2>1 DEF ClientOK, TimesOK
  <2>3. IdleOK(c, w)
    BY <1>6, <2>1 DEF IdleOK
  <2>4. Len(c.read_hdr_buf) = 0
    BY <2>1, EmptySeq
  <2>5. HeaderOK(c, w)
    BY <2>1, <2>4, <1>7, ClientRunAssumption DEF HeaderOK
  <2>6. ReadingOK(c, w) /\ Len(c.read_hdr_buf) <= MaxHdr
    BY <2>1, <2>4, <2>5, ClientRunAssumption DEF ReadingOK
  <2> QED BY <1>6, <1>7, <2>2, <2>3, <2>6 DEF ClientOK
<1>9. ClientsPlaced'
  BY <1>5, <1>8, MovedOK
<1>10. stats \in StatsType
  BY <1>1 DEF RunTypeOK
<1>11. /\ stats' \in StatsType
       /\ stats'.avgCT = stats.avgCT /\ stats'.nb_CT = stats.nb_CT
       /\ stats'.avgRT = stats.avgRT /\ stats'.nb_RT = stats.nb_RT
       /\ stats'.avgCRT = stats.avgCRT
  BY <1>10 DEF SendRequest, StatsType
<1>12. RunTypeOK' /\ TimesRight' /\ exit' = "no"
  BY <1>1, <1>9, <1>11 DEF SendRequest, RunTypeOK, ClientsPlaced, TimesRight
<1>13. AnswerStep
  BY <1>1, <1>5, <1>6, NoAnswerCounted DEF Moved
<1> QED BY <1>9, <1>12, <1>13, GoesOn

-----------------------------------------------------------------------------
(***************************************************************************)
(* Reading                                                                 *)
(***************************************************************************)

\* What a read of k bytes leaves on the connection.
LEMMA DropParts ==
  ASSUME NEW w \in ConnectionType, NEW k \in 1 .. Unread(w)
  PROVE  LET v == Drop(w, k)
         IN  /\ v \in ConnectionType
             /\ v.cur = w.cur /\ v.owed = w.owed /\ v.fin = w.fin
             /\ v.odd = w.odd
             /\ Taken(w, k) \in Seq(UnitType) /\ Len(Taken(w, k)) = k
             /\ Taken(w, k) \o v.text = w.text
             /\ Len(v.text) = Len(w.text) - k
             /\ w.text # <<>>
<1> DEFINE v == Drop(w, k)
           x == w.text
           rest == SubSeq(x, k + 1, Len(x))
<1>1. x \in Seq(UnitType) /\ Len(x) \in Nat /\ k \in 1 .. Len(x)
  BY LenProperties DEF ConnectionType, Unread
<1>2. v = [w EXCEPT !.text = rest]
  BY DEF Drop
<1> HIDE DEF x
<1>3. \A p \in 1 .. Len(x) : x[p] \in UnitType
  BY <1>1, ElementOfSeq
<1>4. rest \in Seq(UnitType) /\ Len(rest) = Len(x) - k
  <2>1. k + 1 \in Int /\ Len(x) \in Int /\ \A p \in k + 1 .. Len(x) : x[p] \in UnitType
    BY <1>1, <1>3
  <2>2. /\ rest \in Seq(UnitType)
        /\ Len(rest) = IF k + 1 <= Len(x) THEN Len(x) - (k + 1) + 1 ELSE 0
    BY <2>1, SubSeqProperties
  <2> QED BY <1>1, <2>2
<1>5. SubSeq(x, 1, k) \in Seq(UnitType) /\ Len(SubSeq(x, 1, k)) = k
  <2>1. k \in Int /\ 1 \in Int /\ \A p \in 1 .. k : x[p] \in UnitType
    BY <1>1, <1>3
  <2>2. /\ SubSeq(x, 1, k) \in Seq(UnitType)
        /\ Len(SubSeq(x, 1, k)) = IF 1 <= k THEN k - 1 + 1 ELSE 0
    BY <2>1, SubSeqProperties
  <2> QED BY <1>1, <2>2
<1>6. SubSeq(x, 1, k) \o rest = x
  <2>1. /\ 1 \in 1 .. Len(x) + 1 /\ k \in 1 - 1 .. Len(x) /\ Len(x) \in k .. Len(x)
    BY <1>1
  <2>2. SubSeq(x, 1, k) \o SubSeq(x, k + 1, Len(x)) = SubSeq(x, 1, Len(x))
    BY <1>1, <2>1, ConcatAdjacentSubSeq
  <2> QED BY <1>1, <2>2, SubSeqFull
<1>7. x # <<>>
  BY <1>1, EmptySeq
<1> HIDE DEF v, rest
<1>8. v \in ConnectionType
  BY <1>2, <1>4 DEF ConnectionType
<1>9. /\ v.cur = w.cur /\ v.owed = w.owed /\ v.fin = w.fin /\ v.odd = w.odd
      /\ v.text = rest
  BY <1>2 DEF ConnectionType
<1> QED BY <1>4, <1>5, <1>6, <1>7, <1>8, <1>9 DEF v, x, Taken

\* What total_bytes_recv may become.
LEMMA CountedFits ==
  ASSUME NEW x \in 0 .. Word - 1, NEW k \in Int
  PROVE  ((x + k) % Word) \in 0 .. Word - 1
<1>1. x + k \in Int
  BY TimeArithAssumption
<1> QED BY <1>1, ModIsCongruent

\* What a counter of bytes may become, and that it is the sum if that fits.
LEMMA AddedFits ==
  ASSUME NEW x \in 0 .. UInt - 1, NEW k \in Nat
  PROVE  /\ ((x + k) % UInt) \in 0 .. UInt - 1
         /\ x + k < UInt => ((x + k) % UInt) = x + k
<1>1. x + k \in Nat /\ UInt \in Nat \ {0}
  BY ClientRunAssumption
<1> DEFINE y == x + k
<1> HIDE DEF y
<1>2. y \in Nat
  BY <1>1 DEF y
<1>3. (y % UInt) \in 0 .. UInt - 1 /\ (y < UInt => (y % UInt) = y)
  BY <1>1, <1>2, Z3
<1> QED BY <1>3 DEF y

\* Client i, with k bytes more than before.
LEMMA ReceivedIs ==
  ASSUME RunTypeOK, NEW i \in Clients, NEW k \in Nat
  PROVE  /\ Received(i, k) \in ClientType
         /\ client[i].bytes_read + k < UInt =>
              Received(i, k).bytes_read = client[i].bytes_read + k
         /\ \A f \in DOMAIN client[i] \ {"bytes_read", "total_bytes_recv"} :
              Received(i, k)[f] = client[i][f]
         /\ DOMAIN Received(i, k) = DOMAIN client[i]
<1> DEFINE c == client[i]
           t == (c.total_bytes_recv + k) % Word
           b == (c.bytes_read + k) % UInt
           d == Received(i, k)
<1>1. c \in ClientType
  BY DEF RunTypeOK
<1>2. /\ t \in 0 .. Word - 1 /\ b \in 0 .. UInt - 1
      /\ c.bytes_read + k < UInt => b = c.bytes_read + k
  <2>1. c.total_bytes_recv \in 0 .. Word - 1 /\ c.bytes_read \in 0 .. UInt - 1 /\ k \in Int
    BY <1>1 DEF ClientType
  <2> HIDE DEF c
  <2> QED BY <2>1, CountedFits, AddedFits
<1>3. d = [c EXCEPT !.total_bytes_recv = t, !.bytes_read = b]
  BY <1>1 DEF Received, Counted, ClientType
<1> HIDE DEF t, b, d, c
<1>4. d \in ClientType
  BY <1>1, <1>2, <1>3 DEF ClientType
<1>5. d.bytes_read = b
  BY <1>1, <1>3 DEF ClientType
<1>6. /\ \A f \in DOMAIN c \ {"bytes_read", "total_bytes_recv"} : d[f] = c[f]
      /\ DOMAIN d = DOMAIN c
  BY <1>3
<1> QED BY <1>2, <1>4, <1>5, <1>6 DEF d, c

\* What every read leaves alone.
ReadFrame(i, w) == /\ net' = [net EXCEPT ![i] = w] /\ w \in ConnectionType
                   /\ taken' \in [bytes : Nat, nothings : Nat]
                   /\ used' \in [replies : 0 .. MaxReplies, faults : 0 .. MaxFaults]
                   /\ now' = now

\* Client i, which reads, brought to c: its times and answers are the same.
Brought(i, c) == /\ c \in ClientType /\ c.state = "READING" /\ c.fd
                 /\ Len(c.read_hdr_buf) <= MaxHdr
                 /\ c.CTstart = client[i].CTstart /\ c.CRTstart = client[i].CRTstart
                 /\ c.RTstart = client[i].RTstart
                 /\ c.total_resp_recv = client[i].total_resp_recv

\* The start times of a client that reads are right after its bytes are counted.
LEMMA BroughtTimes ==
  ASSUME IInv, exit = "no", NEW i \in Clients, NEW c, Brought(i, c), Reading(i)
  PROVE  /\ TimesOK(c, now)
         /\ Elapsed(c.RTstart) = TrueElapsed(c.RTstart)
         /\ TrueElapsed(c.RTstart) \in Nat
         /\ Elapsed(c.CRTstart) = TrueElapsed(c.CRTstart)
         /\ TrueElapsed(c.CRTstart) \in Nat
<1>1. NowOK
  BY NowIsOK DEF IInv
<1>2. TimesOK(client[i], now) /\ IdleOK(client[i], net[i])
  BY DEF IInv, ClientOK
<1>3. client[i].fd
  BY <1>2 DEF IdleOK, Reading
<1>4. TimesOK(c, now) /\ TakenBy(c.RTstart, now) /\ TakenBy(c.CRTstart, now)
  BY <1>2, <1>3 DEF TimesOK, Brought, Reading
<1>5. c.RTstart \in TimevalType /\ c.CRTstart \in TimevalType
  BY DEF Brought, ClientType
<1> QED BY <1>1, <1>4, <1>5, ElapsedRight

\* Bytes are counted and the client waits for the rest of the answer.
LEMMA GoOnOK ==
  ASSUME IInv, exit = "no", NEW i \in Clients, Reading(i),
         NEW c, NEW w, Brought(i, c), IdleOK(c, w), ReadingOK(c, w),
         GoOn(i, c), ReadFrame(i, w)
  PROVE  IInv' /\ AnswerStep
<1>1. RunTypeOK /\ TimesRight
  BY DEF IInv
<1>2. ClientOK(c, w, now)
  BY BroughtTimes DEF ClientOK, Brought, ReadFrame
<1>3. Moved(i, c, w) /\ now' = now
  BY DEF GoOn, ReadFrame, Moved
<1>4. ClientsPlaced'
  BY <1>2, <1>3, MovedOK
<1>5. RunTypeOK' /\ TimesRight' /\ exit' = "no"
  BY <1>1, <1>4 DEF GoOn, ReadFrame, RunTypeOK, ClientsPlaced, TimesRight
<1>6. AnswerStep
  BY <1>1, NoAnswerCounted DEF Brought, GoOn
<1> QED BY <1>4, <1>5, <1>6, GoesOn

\* The process may end anywhere, if the connection explains it.
LEMMA PanicOK ==
  ASSUME IInv, exit = "no", NEW i \in Clients, Reading(i), NEW w, NEW why,
         Panic(why), why # "no", ReadFrame(i, w),
         Explains(w, why)
  PROVE  IInv' /\ AnswerStep
<1>1. RunTypeOK /\ TimesRight
  BY DEF IInv
<1>2. client \in [Clients -> ClientType] /\ net \in [Clients -> ConnectionType]
  BY <1>1 DEF RunTypeOK
<1>3. net' \in [Clients -> ConnectionType] /\ net'[i] = w /\ client' = client
  BY <1>2 DEF ReadFrame, Panic
<1>4. RunTypeOK' /\ TimesRight'
  BY <1>1, <1>3 DEF Panic, ReadFrame, RunTypeOK, TimesRight
<1>5. exit' = why
  BY DEF Panic
<1>6. ExitExplained'
  BY <1>3, <1>5 DEF ExitExplained, Reading
<1>7. AnswerStep
  <2>1. client[i] \in ClientType /\ client' = [client EXCEPT ![i] = client[i]]
    BY <1>2, <1>3
  <2> QED BY <1>1, <2>1, NoAnswerCounted
<1> QED BY <1>4, <1>5, <1>6, <1>7 DEF IInv

\* A failed answer is counted and its connection closed.
LEMMA TreatErrorOK ==
  ASSUME IInv, exit = "no", NEW i \in Clients, Reading(i),
         NEW c, NEW w, Brought(i, c), TreatError(i, c), ReadFrame(i, w)
  PROVE  IInv' /\ AnswerStep
<1> DEFINE er == c.errors + 1
           b == [c EXCEPT !.errors = er, !.fd = FALSE]
           d == ChangeState(b, "CONNECT")
           e == Elapsed(c.CRTstart)
           a1 == stats.avgCRT + e
           a2 == stats.nb_CRT + c.nbRequestsOnIteration
           a3 == took.CRT + e
           a4 == took.errors + 1
<1>1. RunTypeOK /\ TimesRight
  BY DEF IInv
<1>2. c \in ClientType /\ er \in Nat
  BY DEF Brought, ClientType
<1>3. stats \in StatsType /\ took \in TookType
  BY <1>1 DEF RunTypeOK
<1>4. e = TrueElapsed(c.CRTstart) /\ e \in Nat
  BY BroughtTimes
<1>5. client' = [client EXCEPT ![i] = d]
  BY DEF TreatError
<1>6. /\ stats' = [stats EXCEPT !.avgCRT = a1, !.nb_CRT = a2]
      /\ took' = [took EXCEPT !.CRT = a3, !.errors = a4]
  BY <1>4 DEF TreatError, WithCRT
<1>7. a1 \in Nat /\ a2 \in Nat /\ a3 \in Nat /\ a4 \in Nat
  <2>1. c.nbRequestsOnIteration \in Nat
    BY <1>2, ClientIsCounting DEF CountingType
  <2> HIDE DEF e
  <2> QED BY <2>1, <1>3, <1>4 DEF StatsType, TookType
<1> HIDE DEF er, a2, a4
<1>8. /\ b \in ClientType /\ ~ b.fd /\ b.total_resp_recv = c.total_resp_recv
      /\ b.read_hdr_buf = c.read_hdr_buf
  BY <1>2 DEF ClientType
<1> HIDE DEF b
<1>9. /\ d \in ClientType /\ d.state = "CONNECT" /\ ~ d.fd
      /\ d.bytes_read = 0 /\ d.header_length = 0 /\ Len(d.read_hdr_buf) <= MaxHdr
      /\ d.total_resp_recv = client[i].total_resp_recv
  BY <1>8, ClientIsCounting, ToConnect DEF Brought
<1> HIDE DEF d
<1>10. ClientOK(d, w, now)
  BY <1>9 DEF ClientOK, TimesOK, IdleOK, ReadingOK, ReadFrame
<1>11. Moved(i, d, w) /\ now' = now
  BY <1>5 DEF ReadFrame, Moved
<1>12. ClientsPlaced'
  BY <1>10, <1>11, MovedOK
<1>13. stats' \in StatsType /\ took' \in TookType /\ TimesRight'
  <2>1. stats.avgCRT = took.CRT
    BY <1>1 DEF TimesRight
  <2>2. a1 = a3
    BY <2>1
  <2> HIDE DEF a1, a3
  <2>3. stats' \in StatsType /\ took' \in TookType
    BY <1>3, <1>6, <1>7 DEF StatsType, TookType
  <2>4. /\ stats'.avgCT = stats.avgCT /\ stats'.nb_CT = stats.nb_CT
        /\ stats'.avgRT = stats.avgRT /\ stats'.nb_RT = stats.nb_RT
        /\ stats'.avgCRT = a1
        /\ took'.CT = took.CT /\ took'.connections = took.connections
        /\ took'.RT = took.RT /\ took'.answers = took.answers /\ took'.CRT = a3
    BY <1>3, <1>6 DEF StatsType, TookType
  <2> QED BY <2>2, <2>3, <2>4, <1>1 DEF TimesRight
<1>14. RunTypeOK' /\ exit' = "no"
  BY <1>1, <1>12, <1>13 DEF TreatError, ReadFrame, RunTypeOK, ClientsPlaced
<1>15. AnswerStep
  BY <1>1, <1>5, <1>9, NoAnswerCounted
<1> QED BY <1>12, <1>13, <1>14, <1>15, GoesOn

\* An answer is counted when all of it, and no more, has been read, as far as no
\* answer was misleading.
LEMMA ReadCompleteOK ==
  ASSUME IInv, exit = "no", NEW i \in Clients, Reading(i),
         NEW c, NEW w, Brought(i, c), ReadComplete(i, c), ReadFrame(i, w),
         Whole(w)
  PROVE  IInv' /\ AnswerStep
<1> DEFINE nr == c.total_resp_recv + 1
           nq == c.nbRequestsOnIteration + 1
           b == [c EXCEPT !.total_resp_recv = nr, !.nbRequestsOnIteration = nq]
           e == Elapsed(c.RTstart)
           f == Elapsed(c.CRTstart)
           timed == [stats EXCEPT !.avgRT = @ + e, !.nb_RT = @ + 1]
           tookRT == [took EXCEPT !.RT = @ + e, !.answers = @ + 1]
<1>1. RunTypeOK /\ TimesRight
  BY DEF IInv
<1>2. /\ c \in CountingType /\ c.nbRequestsOnIteration \in 0 .. MsgPerConn - 1
      /\ client[i] \in ClientType
  BY <1>1, ClientIsCounting DEF Brought, RunTypeOK
<1>3. nr \in Nat /\ nq \in Nat
  BY <1>2, ClientRunAssumption DEF CountingType
<1>4. stats \in StatsType /\ took \in TookType
  BY <1>1 DEF RunTypeOK
<1>5. /\ e = TrueElapsed(c.RTstart) /\ e \in Nat
      /\ f = TrueElapsed(c.CRTstart) /\ f \in Nat /\ TimesOK(c, now)
  BY BroughtTimes
<1>6. exit' = "no"
  BY DEF ReadComplete
<1> HIDE DEF nr, nq
<1>7. /\ b \in CountingType /\ b.state = "READING" /\ b.fd
      /\ b.nbRequestsOnIteration = nq /\ b.total_resp_recv = nr
      /\ b.read_hdr_buf = c.read_hdr_buf
      /\ b.CTstart = c.CTstart /\ b.CRTstart = c.CRTstart
  BY <1>2, <1>3 DEF CountingType, Brought
<1>8. /\ timed \in StatsType /\ tookRT \in TookType
      /\ timed.avgCT = stats.avgCT /\ timed.nb_CT = stats.nb_CT
      /\ timed.avgRT = stats.avgRT + e /\ timed.nb_RT = stats.nb_RT + 1
      /\ timed.avgCRT = stats.avgCRT
      /\ tookRT.CT = took.CT /\ tookRT.connections = took.connections
      /\ tookRT.RT = took.RT + e /\ tookRT.answers = took.answers + 1
      /\ tookRT.CRT = took.CRT
  <2> HIDE DEF e
  <2> DEFINE a1 == stats.avgRT + e
             a2 == stats.nb_RT + 1
             a3 == took.RT + e
             a4 == took.answers + 1
  <2>1. a1 \in Nat /\ a2 \in Nat /\ a3 \in Nat /\ a4 \in Nat
    BY <1>4, <1>5 DEF StatsType, TookType
  <2>2. /\ timed = [stats EXCEPT !.avgRT = a1, !.nb_RT = a2]
        /\ tookRT = [took EXCEPT !.RT = a3, !.answers = a4]
    OBVIOUS
  <2> HIDE DEF a1, a2, a3, a4, timed, tookRT
  <2>3. timed \in StatsType /\ tookRT \in TookType
    BY <2>1, <2>2, <1>4 DEF StatsType, TookType
  <2>4. /\ timed.avgCT = stats.avgCT /\ timed.nb_CT = stats.nb_CT
        /\ timed.avgRT = a1 /\ timed.nb_RT = a2 /\ timed.avgCRT = stats.avgCRT
        /\ tookRT.CT = took.CT /\ tookRT.connections = took.connections
        /\ tookRT.RT = a3 /\ tookRT.answers = a4 /\ tookRT.CRT = took.CRT
    BY <2>2, <1>4 DEF StatsType, TookType
  <2> QED BY <2>3, <2>4 DEF a1, a2, a3, a4
\* What has to be shown of the client's new state d in both cases.
<1>9. ASSUME NEW d \in ClientType, client' = [client EXCEPT ![i] = d],
             ClientOK(d, w, now),
             stats' \in StatsType, took' \in TookType, TimesRight'
      PROVE  IInv' /\ AnswerStep
  <2>1. Moved(i, d, w) /\ now' = now
    BY <1>9 DEF ReadFrame, Moved
  <2>2. ClientsPlaced'
    BY <1>9, <2>1, MovedOK
  <2>3. RunTypeOK'
    BY <1>1, <1>9, <2>2 DEF ReadFrame, RunTypeOK, ClientsPlaced
  <2>4. IInv'
    BY <1>6, <1>9, <2>2, <2>3, GoesOn
  <2>5. AnswerStep
    <3>1. client \in [Clients -> ClientType] /\ net \in [Clients -> ConnectionType]
      BY <1>1 DEF RunTypeOK
    <3>2. net'[i] = w
      BY <3>1 DEF ReadFrame
    <3>3. ASSUME NEW j \in Clients, j # i
          PROVE  ~ (client'[j].total_resp_recv > client[j].total_resp_recv)
      <4>1. client[j].total_resp_recv \in Nat /\ client'[j] = client[j]
        BY <3>1, <3>3, <1>9 DEF ClientType
      <4> QED BY <4>1
    <3> QED BY <3>2, <3>3 DEF AnswerStep, AnswerCounted
  <2> QED BY <2>4, <2>5
<1>10. CASE nq < MsgPerConn
  <2> DEFINE d == ChangeState(b, "WRITING")
  <2>1. client' = [client EXCEPT ![i] = d] /\ stats' = timed /\ took' = tookRT
    BY <1>10, <1>3, <1>5, <1>7, ClientRunAssumption DEF ReadComplete, nr, nq
  <2>2. nq \in 0 .. MsgPerConn - 1
    BY <1>10, <1>3, ClientRunAssumption
  <2> HIDE DEF b, timed, tookRT
  <2>3. /\ d \in ClientType /\ d.state = "WRITING" /\ d.fd
        /\ d.bytes_read = 0 /\ d.header_length = 0 /\ d.read_hdr_buf = <<>>
        /\ d.CTstart = c.CTstart /\ d.CRTstart = c.CRTstart
    BY <1>7, <2>2, ToWriting
  <2> HIDE DEF d
  <2>4. ClientOK(d, w, now)
    <3>1. TimesOK(d, now)
      BY <2>3, <1>5 DEF TimesOK, Brought
    <3>2. Len(d.read_hdr_buf) <= MaxHdr
      BY <2>3, EmptySeq, ClientRunAssumption
    <3>3. d.fd /\ (~ w.odd => ~ w.owed /\ w.text = <<>>)
      BY <2>3 DEF Whole
    <3> QED BY <2>3, <3>1, <3>2, <3>3 DEF ClientOK, IdleOK, ReadingOK, ReadFrame
  <2>5. TimesRight'
    BY <1>1, <1>8, <2>1 DEF TimesRight
  <2> QED BY <1>8, <1>9, <2>1, <2>3, <2>4, <2>5
<1>11. CASE nq >= MsgPerConn
  <2> DEFINE g == [b EXCEPT !.fd = FALSE]
             d == ChangeState(g, "CONNECT")
             a1 == timed.avgCRT + f
             a2 == timed.nb_CRT + nq
             a3 == tookRT.CRT + f
  <2>1. /\ client' = [client EXCEPT ![i] = d]
        /\ stats' = [timed EXCEPT !.avgCRT = a1, !.nb_CRT = a2]
        /\ took' = [tookRT EXCEPT !.CRT = a3]
    <3>1. ~ (b.nbRequestsOnIteration < MsgPerConn)
      BY <1>11, <1>3, <1>7, ClientRunAssumption
    <3>2. /\ client' = [client EXCEPT ![i] = d]
          /\ stats' = WithCRT(timed, b)
          /\ took' = [tookRT EXCEPT !.CRT = @ + TrueElapsed(c.CRTstart)]
      <4>1. \/ b.nbRequestsOnIteration < MsgPerConn
            \/ /\ client' = [client EXCEPT ![i] = d]
               /\ stats' = WithCRT(timed, b)
               /\ took' = [tookRT EXCEPT !.CRT = @ + TrueElapsed(c.CRTstart)]
        <5>1. e = TrueElapsed(c.RTstart)
          BY <1>5
        <5> QED BY <5>1 DEF ReadComplete, nr, nq
      <4> QED BY <4>1, <3>1
    <3>3. WithCRT(timed, b) = [timed EXCEPT !.avgCRT = a1, !.nb_CRT = a2]
      <4> HIDE DEF b, timed
      <4> QED BY <1>7 DEF WithCRT
    <3> QED BY <3>2, <3>3, <1>5
  <2> HIDE DEF b, timed, tookRT
  <2>2. g \in CountingType /\ ~ g.fd /\ g.read_hdr_buf = c.read_hdr_buf
    BY <1>7 DEF CountingType
  <2> HIDE DEF g
  <2>3. /\ d \in ClientType /\ d.state = "CONNECT" /\ ~ d.fd
        /\ d.bytes_read = 0 /\ d.header_length = 0 /\ Len(d.read_hdr_buf) <= MaxHdr
    BY <2>2, ToConnect DEF Brought
  <2> HIDE DEF d
  <2>4. ClientOK(d, w, now)
    BY <2>3 DEF ClientOK, TimesOK, IdleOK, ReadingOK, ReadFrame
  <2>5. a1 \in Nat /\ a2 \in Nat /\ a3 \in Nat /\ a1 = a3
    <3> HIDE DEF f
    <3>1. timed.avgCRT = tookRT.CRT
      BY <1>1, <1>8 DEF TimesRight
    <3>2. timed.avgCRT \in Nat /\ timed.nb_CRT \in Nat
      BY <1>8 DEF StatsType
    <3> QED BY <3>1, <3>2, <1>3, <1>5
  <2> HIDE DEF a1, a2, a3
  <2>6. stats' \in StatsType /\ took' \in TookType
    BY <2>1, <2>5, <1>8 DEF StatsType, TookType
  <2>7. /\ stats'.avgCT = timed.avgCT /\ stats'.nb_CT = timed.nb_CT
        /\ stats'.avgRT = timed.avgRT /\ stats'.nb_RT = timed.nb_RT
        /\ stats'.avgCRT = a1
        /\ took'.CT = tookRT.CT /\ took'.connections = tookRT.connections
        /\ took'.RT = tookRT.RT /\ took'.answers = tookRT.answers
        /\ took'.CRT = a3
    BY <2>1, <1>8 DEF StatsType, TookType
  <2>8. TimesRight'
    BY <1>1, <1>8, <2>5, <2>7 DEF TimesRight
  <2> QED BY <1>9, <2>1, <2>3, <2>4, <2>6, <2>8
<1> QED BY <1>3, <1>10, <1>11, ClientRunAssumption

\* A client that reads is still the same reader after a read of k bytes.
LEMMA ReceivedBrought ==
  ASSUME IInv, exit = "no", NEW i \in Clients, Reading(i), NEW k \in Nat
  PROVE  /\ Brought(i, Received(i, k))
         /\ client[i].bytes_read + k < UInt =>
              Received(i, k).bytes_read = client[i].bytes_read + k
         /\ Received(i, k).header_length = client[i].header_length
         /\ Received(i, k).content_length = client[i].content_length
         /\ Received(i, k).read_hdr_buf = client[i].read_hdr_buf
<1> DEFINE r == Received(i, k)
<1>1. RunTypeOK /\ client[i] \in ClientType
  BY DEF IInv, RunTypeOK
<1>2. /\ r \in ClientType
      /\ client[i].bytes_read + k < UInt => r.bytes_read = client[i].bytes_read + k
      /\ \A f \in DOMAIN client[i] \ {"bytes_read", "total_bytes_recv"} :
           r[f] = client[i][f]
  BY <1>1, ReceivedIs
<1>3. /\ r.state = client[i].state /\ r.fd = client[i].fd
      /\ r.CTstart = client[i].CTstart /\ r.CRTstart = client[i].CRTstart
      /\ r.RTstart = client[i].RTstart
      /\ r.total_resp_recv = client[i].total_resp_recv
      /\ r.header_length = client[i].header_length
      /\ r.content_length = client[i].content_length
      /\ r.read_hdr_buf = client[i].read_hdr_buf
  <2> HIDE DEF r
  <2> QED BY <1>1, <1>2 DEF ClientType
<1>4. client[i].fd /\ Len(client[i].read_hdr_buf) <= MaxHdr
  BY DEF IInv, ClientOK, IdleOK, Reading
<1> QED BY <1>2, <1>3, <1>4 DEF Brought, Reading

\* A read of k bytes by client i.
Takes(i, k) == /\ net' = [net EXCEPT ![i] = Drop(@, k)]
               /\ taken' = [taken EXCEPT !.bytes = @ + k]
               /\ UNCHANGED <<now, used>>

\* Reading k bytes changes one connection, by these bytes.
LEMMA TakesFrame ==
  ASSUME IInv, NEW i \in Clients, NEW k \in 1 .. Unread(net[i]), Takes(i, k)
  PROVE  ReadFrame(i, Drop(net[i], k))
<1> DEFINE v == Drop(net[i], k)
<1>1. RunTypeOK
  BY DEF IInv
<1>2. /\ net \in [Clients -> ConnectionType] /\ net[i] \in ConnectionType
      /\ taken \in [bytes : Nat, nothings : Nat]
      /\ used \in [replies : 0 .. MaxReplies, faults : 0 .. MaxFaults]
  BY <1>1 DEF RunTypeOK
<1>3. v \in ConnectionType
  BY <1>2, DropParts
<1>4. net' = [net EXCEPT ![i] = v]
  BY <1>2 DEF Takes
<1>5. taken' \in [bytes : Nat, nothings : Nat]
  <2>1. taken.bytes + k \in Nat
    BY <1>2, LenProperties DEF ConnectionType, Unread
  <2> QED BY <1>2, <2>1 DEF Takes
<1> QED BY <1>2, <1>3, <1>4, <1>5 DEF ReadFrame, Takes

\* A body of x bytes, of which as many have been read as announced, z, and y not.
LEMMA WholeByCount ==
  \A x, y, z \in Nat : x - y = z /\ x <= z => y = 0 /\ x = z
OBVIOUS

\* A read of the body.
LEMMA ReadContentOK ==
  ASSUME IInv, exit = "no", NEW i \in Clients, Reading(i),
         client[i].header_length > 0,
         NEW k \in Pieces(net[i], MaxHdr), ReadContent(i, k), Takes(i, k)
  PROVE  IInv' /\ AnswerStep
<1> DEFINE r == Received(i, k)
           w == net[i]
           v == Drop(w, k)
<1>1. ClientOK(client[i], w, now)
  BY DEF IInv
<1>2. /\ ~ w.odd => BodyOK(client[i], w)
      /\ client[i] \in ClientType /\ w \in ConnectionType
  BY <1>1 DEF ClientOK, ReadingOK, Reading
<1>3. k \in Nat /\ k \in 1 .. Unread(w)
  <2>1. Unread(w) \in Nat
    BY <1>2, LenProperties DEF ConnectionType, Unread
  <2> QED BY <2>1, ClientRunAssumption DEF Pieces, Least
<1>4. /\ v.cur = w.cur /\ v.owed = w.owed /\ v.odd = w.odd
      /\ v.text \in Seq(UnitType) /\ Len(v.text) = Len(w.text) - k
  BY <1>2, <1>3, DropParts DEF ConnectionType
<1>5. ReadFrame(i, v)
  BY <1>3, TakesFrame
<1>6. /\ Brought(i, r)
      /\ client[i].bytes_read + k < UInt => r.bytes_read = client[i].bytes_read + k
      /\ r.header_length = client[i].header_length
      /\ r.content_length = client[i].content_length
  BY <1>3, ReceivedBrought
<1>7. ReadContent(i, k) <=> \/ r.bytes_read # r.content_length /\ GoOn(i, r)
                            \/ r.bytes_read = r.content_length /\ ReadComplete(i, r)
  BY DEF ReadContent
<1>8. Len(v.text) \in Nat /\ (Len(v.text) = 0 => v.text = <<>>)
  BY <1>4, EmptySeq, LenProperties
<1>9. ASSUME ~ v.odd
      PROVE  /\ ~ v.owed /\ ~ Misleads(v.cur) /\ Has(v.cur.hdr, "200-OK")
             /\ r.content_length = Announced(v.cur)
             /\ r.bytes_read = Len(v.cur.body) - Len(v.text)
             /\ Len(v.cur.body) <= Announced(v.cur) /\ Len(v.cur.body) \in Nat
             /\ Announced(v.cur) \in Nat
  <2>1. BodyOK(client[i], w)
    BY <1>2, <1>4, <1>9
  <2>2. w.cur \in AnswerType
    BY <1>2 DEF ConnectionType
  <2>3. /\ w.cur.body \in Seq(UnitType) /\ Announced(w.cur) \in 0 .. UInt - 1
        /\ Len(w.cur.body) <= Announced(w.cur)
    BY <2>1, <2>2, AnnouncesLength DEF BodyOK
  <2>4. Len(w.cur.body) \in Nat /\ Len(w.text) \in Nat
    BY <2>3, <1>2, LenProperties DEF ConnectionType
  <2>5. client[i].bytes_read + k = Len(v.cur.body) - Len(v.text)
    BY <2>1, <2>4, <1>3, <1>4 DEF BodyOK
  <2>6. client[i].bytes_read + k < UInt
    <3>1. \A x, y, z \in Nat : z < UInt /\ x <= z => x - y < UInt
      BY ClientRunAssumption
    <3>2. Len(w.cur.body) \in Nat /\ Len(v.text) \in Nat /\ v.cur = w.cur
      BY <2>4, <1>4, <1>8
    <3>3. Announced(w.cur) \in Nat /\ Announced(w.cur) < UInt
      BY <2>3, ClientRunAssumption
    <3> HIDE DEF v, w
    <3>4. Len(w.cur.body) - Len(v.text) < UInt
      BY <2>3, <3>1, <3>2, <3>3, Zenon
    <3> QED BY <2>5, <3>2, <3>4
  <2>7. r.bytes_read = Len(v.cur.body) - Len(v.text)
    BY <2>5, <2>6, <1>6
  <2>8. Announced(w.cur) \in Nat
    BY <2>3, ClientRunAssumption
  <2> QED BY <2>1, <2>3, <2>4, <2>7, <2>8, <1>4, <1>6 DEF BodyOK
<1> HIDE DEF r, v
<1>10. CASE r.bytes_read # r.content_length
  <2>1. GoOn(i, r)
    BY <1>7, <1>10
  <2>2. IdleOK(r, v)
    BY <1>6 DEF IdleOK, Brought
  <2>3. ReadingOK(r, v)
    <3>1. r.header_length # 0
      BY <1>2, <1>6, ClientRunAssumption DEF ClientType
    <3> QED BY <3>1, <1>9, <1>10 DEF ReadingOK, BodyOK
  <2> QED BY <1>5, <1>6, <2>1, <2>2, <2>3, GoOnOK
<1>11. CASE r.bytes_read = r.content_length
  <2>1. ReadComplete(i, r)
    BY <1>7, <1>11
  <2>2. ASSUME ~ v.odd
        PROVE  /\ ~ v.owed /\ v.text = <<>> /\ Has(v.cur.hdr, "200-OK")
               /\ Len(v.cur.body) = Announced(v.cur)
    <3>1. /\ Len(v.cur.body) - Len(v.text) = Announced(v.cur)
          /\ Len(v.cur.body) <= Announced(v.cur) /\ Len(v.cur.body) \in Nat
          /\ Announced(v.cur) \in Nat
      BY <2>2, <1>9, <1>11
    <3>2. Len(v.text) = 0 /\ Len(v.cur.body) = Announced(v.cur)
      BY <3>1, <1>8, WholeByCount, Zenon
    <3> QED BY <3>2, <2>2, <1>8, <1>9
  <2>3. Whole(v)
    BY <2>2 DEF Whole
  <2> QED BY <1>5, <1>6, <2>1, <2>3, ReadCompleteOK
<1> QED BY <1>10, <1>11

\* A client before the empty line, after a read of k bytes into read_hdr_buf.
LEMMA BufferedBrought ==
  ASSUME IInv, exit = "no", NEW i \in Clients, Reading(i),
         client[i].header_length = 0,
         NEW k \in Pieces(net[i], MaxHdr - client[i].bytes_read)
  PROVE  LET c == client[i]
             r == Buffered(i, k)
         IN  /\ k \in Nat /\ k \in 1 .. Unread(net[i])
             /\ Brought(i, r) /\ r.header_length = 0
             /\ r.content_length = c.content_length
             /\ r.read_hdr_buf \in Seq(UnitType)
             /\ r.bytes_read = Len(r.read_hdr_buf) /\ r.bytes_read <= MaxHdr
             /\ r.bytes_read = c.bytes_read + k
             /\ r.read_hdr_buf = c.read_hdr_buf \o Taken(net[i], k)
             /\ r.read_hdr_buf \o Drop(net[i], k).text = c.read_hdr_buf \o net[i].text
<1> DEFINE c == client[i]
           w == net[i]
           d == Received(i, k)
           r == Buffered(i, k)
           new == Taken(w, k)
           buf == c.read_hdr_buf \o new
<1>1. ClientOK(c, w, now)
  BY DEF IInv
<1>2. /\ c \in ClientType /\ w \in ConnectionType
      /\ c.bytes_read = Len(c.read_hdr_buf) /\ c.bytes_read < MaxHdr
  BY <1>1 DEF ClientOK, ReadingOK, HeaderOK, Reading
<1>3. c.bytes_read \in Nat /\ c.read_hdr_buf \in Seq(UnitType) /\ MaxHdr \in Nat
  BY <1>2, ClientRunAssumption DEF ClientType
<1>4. k \in Nat /\ k \in 1 .. Unread(w) /\ k <= MaxHdr - c.bytes_read
  <2>1. Unread(w) \in Nat
    BY <1>2, LenProperties DEF ConnectionType, Unread
  <2> QED BY <2>1, <1>3 DEF Pieces, Least
<1>5. /\ new \in Seq(UnitType) /\ Len(new) = k
      /\ new \o Drop(w, k).text = w.text /\ Drop(w, k) \in ConnectionType
  BY <1>2, <1>4, DropParts
<1>6. buf \in Seq(UnitType) /\ Len(buf) = c.bytes_read + k
  <2>1. buf \in Seq(UnitType) /\ Len(buf) = Len(c.read_hdr_buf) + Len(new)
    <3>1. c.read_hdr_buf \in Seq(UnitType) /\ new \in Seq(UnitType)
      BY <1>3, <1>5
    <3> HIDE DEF new, c
    <3> QED BY <3>1, ConcatProperties
  <2> QED BY <2>1, <1>2, <1>5
<1>7. buf \o Drop(w, k).text = c.read_hdr_buf \o w.text
  <2>1. /\ c.read_hdr_buf \in Seq(UnitType) /\ new \in Seq(UnitType)
        /\ Drop(w, k).text \in Seq(UnitType)
    BY <1>3, <1>5 DEF ConnectionType
  <2> DEFINE x == c.read_hdr_buf
             y == new
             z == Drop(w, k).text
  <2>2. x \in Seq(UnitType) /\ y \in Seq(UnitType) /\ z \in Seq(UnitType)
    BY <2>1
  <2>3. y \o z = w.text
    BY <1>5
  <2> HIDE DEF x, y, z
  <2>4. (x \o y) \o z = x \o (y \o z)
    BY <2>2, ConcatAssociative
  <2>5. (x \o y) \o z = x \o w.text
    BY <2>3, <2>4, Zenon
  <2> QED BY <2>5 DEF x, y, z
<1>8. c.bytes_read + k <= MaxHdr /\ c.bytes_read + k < UInt
  BY <1>3, <1>4, ClientRunAssumption
<1>9. /\ Brought(i, d) /\ d.bytes_read = c.bytes_read + k
      /\ d.header_length = 0 /\ d.content_length = c.content_length
      /\ d.read_hdr_buf = c.read_hdr_buf
  BY <1>4, <1>8, ReceivedBrought
<1>10. r = [d EXCEPT !.read_hdr_buf = buf]
  BY <1>9 DEF Buffered, Brought, ClientType
<1> HIDE DEF d, buf, r, new
<1>11. d \in ClientType
  BY <1>9 DEF Brought
<1>12. r \in ClientType
  BY <1>6, <1>10, <1>11 DEF ClientType
<1>13. /\ r.read_hdr_buf = buf /\ r.bytes_read = d.bytes_read
       /\ r.header_length = d.header_length /\ r.content_length = d.content_length
       /\ r.state = d.state /\ r.fd = d.fd
       /\ r.CTstart = d.CTstart /\ r.CRTstart = d.CRTstart /\ r.RTstart = d.RTstart
       /\ r.total_resp_recv = d.total_resp_recv
  BY <1>10, <1>11 DEF ClientType
<1>14. Brought(i, r)
  BY <1>6, <1>8, <1>9, <1>12, <1>13 DEF Brought
<1> QED BY <1>4, <1>6, <1>7, <1>8, <1>9, <1>13, <1>14 DEF buf, r, new

\* A client with all three words in its read_hdr_buf, and what it makes of them.
LEMMA ParsedBrought ==
  ASSUME NEW i \in Clients, NEW c, Brought(i, c), c.bytes_read = Len(c.read_hdr_buf),
         Has(c.read_hdr_buf, "empty-line"), Has(c.read_hdr_buf, "Content-Length")
  PROVE  LET buf == c.read_hdr_buf
             p == Parsed(c)
         IN  /\ Brought(i, p) /\ p.header_length > 0
             /\ p.header_length = FirstAt(buf, "empty-line")
             /\ p.content_length = Atoi(buf[FirstAt(buf, "Content-Length")].number)
             /\ p.bytes_read = Len(buf) - FirstAt(buf, "empty-line")
             /\ p.read_hdr_buf = buf
<1> DEFINE buf == c.read_hdr_buf
           p == Parsed(c)
           hl == FirstAt(buf, "empty-line")
           x == buf[FirstAt(buf, "Content-Length")]
           cl == Atoi(x.number)
           br == c.bytes_read - hl
<1>1. c \in ClientType /\ Len(buf) <= MaxHdr /\ buf \in Seq(UnitType)
  BY DEF Brought, ClientType
<1>2. Len(buf) \in Nat /\ MaxHdr \in Nat /\ MaxHdr < UInt /\ UInt \in Nat
  BY <1>1, LenProperties, ClientRunAssumption
<1>3. hl \in 1 .. Len(buf)
  BY <1>1, FirstIsFound
<1>4. x \in UnitType
  BY <1>1, FirstIsFound, ElementOfSeq
<1>5. cl \in 0 .. UInt - 1
  BY <1>4, AtoiOfLength DEF UnitType
<1>6. p = [c EXCEPT !.header_length = hl, !.content_length = cl, !.bytes_read = br]
  BY DEF Parsed
<1> HIDE DEF hl, cl, p
<1>7. hl \in 0 .. MaxHdr /\ br \in 0 .. UInt - 1 /\ br = Len(buf) - hl /\ hl > 0
  BY <1>1, <1>2, <1>3
<1> HIDE DEF br
<1>8. p \in ClientType
  BY <1>1, <1>5, <1>6, <1>7 DEF ClientType
<1>9. /\ p.header_length = hl /\ p.content_length = cl /\ p.bytes_read = br
      /\ p.read_hdr_buf = c.read_hdr_buf /\ p.state = c.state /\ p.fd = c.fd
      /\ p.CTstart = c.CTstart /\ p.CRTstart = c.CRTstart
      /\ p.RTstart = c.RTstart /\ p.total_resp_recv = c.total_resp_recv
  BY <1>1, <1>6 DEF ClientType
<1>10. Brought(i, p)
  BY <1>8, <1>9 DEF Brought
<1> QED BY <1>7, <1>9, <1>10 DEF p, hl, cl

\* A read before the empty line has been found.
LEMMA ReadHeadersOK ==
  ASSUME IInv, exit = "no", NEW i \in Clients, Reading(i),
         client[i].header_length = 0,
         NEW k \in Pieces(net[i], MaxHdr - client[i].bytes_read),
         ReadHeaders(i, k), Takes(i, k)
  PROVE  IInv' /\ AnswerStep
<1> DEFINE c == client[i]
           r == Buffered(i, k)
           w == net[i]
           v == Drop(w, k)
           p == Parsed(r)
           buf == r.read_hdr_buf
           found == Has(buf, "empty-line")
           good == found /\ Has(buf, "200-OK")
           sized == good /\ Has(buf, "Content-Length")
<1>1. ClientOK(c, w, now)
  BY DEF IInv
<1>2. w \in ConnectionType /\ HeaderOK(c, w)
  BY <1>1 DEF ClientOK, ReadingOK, Reading
<1>3. /\ k \in 1 .. Unread(w) /\ Brought(i, r) /\ r.header_length = 0
      /\ buf \in Seq(UnitType)
      /\ r.bytes_read = Len(buf) /\ r.bytes_read <= MaxHdr
      /\ buf \o v.text = c.read_hdr_buf \o w.text
  BY BufferedBrought
<1>4. /\ v.cur = w.cur /\ v.owed = w.owed /\ v.odd = w.odd
      /\ v.text \in Seq(UnitType) /\ w.text # <<>> /\ v.cur \in AnswerType
  BY <1>2, <1>3, DropParts DEF ConnectionType
<1>5. ReadFrame(i, v)
  BY <1>3, TakesFrame
<1>6. \/ ~ found /\ r.bytes_read < MaxHdr /\ GoOn(i, r)
      \/ ~ found /\ r.bytes_read >= MaxHdr /\ Panic("no-headers")
      \/ found /\ ~ good /\ TreatError(i, r)
      \/ good /\ ~ sized /\ Panic("no-length")
      \/ sized /\ p.bytes_read # p.content_length /\ GoOn(i, p)
      \/ sized /\ p.bytes_read = p.content_length /\ ReadComplete(i, p)
  BY DEF ReadHeaders
<1>7. Len(buf) \in Nat /\ Len(v.text) \in Nat /\ (Len(v.text) = 0 => v.text = <<>>)
  BY <1>3, <1>4, LenProperties, EmptySeq
<1>8. found /\ sized =>
        /\ Brought(i, p) /\ p.header_length > 0
        /\ p.content_length = Atoi(buf[FirstAt(buf, "Content-Length")].number)
        /\ p.bytes_read = Len(buf) - FirstAt(buf, "empty-line")
  BY <1>3, ParsedBrought
<1> HIDE DEF c, r, w, v, p, buf
\* If no answer was misleading, buf is the beginning of the latest.
<1>9. ASSUME ~ v.odd
      PROVE  /\ ~ v.owed /\ ~ Misleads(v.cur)
             /\ buf \o v.text = v.cur.hdr \o v.cur.body
             /\ Len(buf) + Len(v.text) = Len(v.cur.hdr) + Len(v.cur.body)
             /\ found <=> Len(buf) >= Len(v.cur.hdr)
             /\ found => /\ FirstAt(buf, "empty-line") = Len(v.cur.hdr)
                         /\ Has(buf, "200-OK") <=> Has(v.cur.hdr, "200-OK")
                         /\ Has(buf, "Content-Length")
                         /\ buf[FirstAt(buf, "Content-Length")].number = Announced(v.cur)
             /\ Announced(v.cur) \in Nat /\ Announced(v.cur) < UInt
             /\ Len(v.cur.body) \in Nat /\ Len(v.cur.hdr) \in Nat
             /\ Len(v.cur.body) <= Announced(v.cur)
  <2>1. ~ v.owed /\ ~ Misleads(v.cur) /\ buf \o v.text = v.cur.hdr \o v.cur.body
    BY <1>2, <1>3, <1>4, <1>9 DEF HeaderOK
  <2>2. /\ Len(buf) + Len(v.text) = Len(v.cur.hdr) + Len(v.cur.body)
        /\ found <=> Len(buf) >= Len(v.cur.hdr)
        /\ found => /\ FirstAt(buf, "empty-line") = Len(v.cur.hdr)
                    /\ Has(buf, "200-OK") <=> Has(v.cur.hdr, "200-OK")
                    /\ Has(buf, "Content-Length")
                    /\ buf[FirstAt(buf, "Content-Length")].number = Announced(v.cur)
    BY <2>1, <1>3, <1>4, AnswerFound
  <2>3. /\ v.cur.hdr \in Seq(UnitType) /\ v.cur.body \in Seq(UnitType)
        /\ Announced(v.cur) \in 0 .. UInt - 1
        /\ Len(v.cur.body) <= Announced(v.cur)
    BY <2>1, <1>4, AnnouncesLength
  <2>4. Len(v.cur.body) \in Nat /\ Len(v.cur.hdr) \in Nat
    BY <2>3, LenProperties
  <2>5. Announced(v.cur) \in Nat /\ Announced(v.cur) < UInt
    BY <2>3, ClientRunAssumption
  <2> QED BY <2>1, <2>2, <2>3, <2>4, <2>5
<1>10. ASSUME ~ v.odd, sized
       PROVE  /\ Has(v.cur.hdr, "200-OK")
              /\ p.content_length = Announced(v.cur)
              /\ p.bytes_read = Len(v.cur.body) - Len(v.text)
  <2>1. p.content_length = Announced(v.cur)
    BY <1>8, <1>9, <1>10, AtoiOfLength
  <2>2. p.bytes_read = Len(v.cur.body) - Len(v.text)
    <3>1. /\ FirstAt(buf, "empty-line") = Len(v.cur.hdr)
          /\ Len(buf) + Len(v.text) = Len(v.cur.hdr) + Len(v.cur.body)
          /\ Len(v.cur.body) \in Nat /\ Len(v.cur.hdr) \in Nat
      BY <1>9, <1>10
    <3>2. p.bytes_read = Len(buf) - FirstAt(buf, "empty-line")
      BY <1>8, <1>10
    <3> DEFINE x == Len(buf)
               y == Len(v.text)
               h == Len(v.cur.hdr)
               b == Len(v.cur.body)
    <3>3. x \in Nat /\ y \in Nat /\ h \in Nat /\ b \in Nat /\ x + y = h + b
      BY <3>1, <1>7
    <3> HIDE DEF x, y, h, b
    <3>4. x - h = b - y
      BY <3>3
    <3>5. Len(buf) - Len(v.cur.hdr) = Len(v.cur.body) - Len(v.text)
      BY <3>4 DEF x, y, h, b
    <3> QED BY <3>1, <3>2, <3>5
  <2> QED BY <2>1, <2>2, <1>9, <1>10
<1>11. CASE ~ found /\ r.bytes_read < MaxHdr /\ GoOn(i, r)
  <2>1. IdleOK(r, v)
    BY <1>3 DEF IdleOK, Brought
  <2>2. HeaderOK(r, v)
    <3>1. ~ v.odd => ~ (Len(buf) >= Len(v.cur.hdr)) /\ Len(v.cur.hdr) \in Nat
      BY <1>9, <1>11
    <3>2. ~ v.odd => Len(buf) < Len(v.cur.hdr)
      BY <3>1, <1>7
    <3> QED BY <3>2, <1>3, <1>9, <1>11 DEF HeaderOK, buf
  <2>3. ReadingOK(r, v)
    BY <2>2, <1>3 DEF ReadingOK
  <2> QED BY <1>3, <1>5, <1>11, <2>1, <2>3, GoOnOK
<1>12. CASE ~ found /\ r.bytes_read >= MaxHdr /\ Panic("no-headers")
  <2>1. ~ v.odd => Len(v.cur.hdr) > MaxHdr
    <3>1. ~ v.odd => ~ (Len(buf) >= Len(v.cur.hdr)) /\ Len(v.cur.hdr) \in Nat
      BY <1>9, <1>12
    <3>2. Len(buf) >= MaxHdr
      BY <1>3, <1>12
    <3> QED BY <3>1, <3>2, <1>7, ClientRunAssumption
  <2>2. Explains(v, "no-headers")
    BY <2>1 DEF Explains
  <2> QED BY <1>5, <1>12, <2>2, PanicOK
<1>13. CASE found /\ ~ good /\ TreatError(i, r)
  BY <1>3, <1>5, <1>13, TreatErrorOK
<1>14. CASE good /\ ~ sized /\ Panic("no-length")
  <2>1. v.odd
    BY <1>9, <1>14
  <2>2. Explains(v, "no-length")
    BY <2>1 DEF Explains
  <2> QED BY <1>5, <1>14, <2>2, PanicOK
<1>15. CASE sized /\ p.bytes_read # p.content_length /\ GoOn(i, p)
  <2>1. IdleOK(p, v)
    BY <1>8, <1>15 DEF IdleOK, Brought
  <2>2. ~ v.odd => BodyOK(p, v)
    BY <1>9, <1>10, <1>15 DEF BodyOK
  <2>3. ReadingOK(p, v)
    BY <2>2, <1>8, <1>15 DEF ReadingOK
  <2> QED BY <1>5, <1>8, <1>15, <2>1, <2>3, GoOnOK
<1>16. CASE sized /\ p.bytes_read = p.content_length /\ ReadComplete(i, p)
  <2>1. ASSUME ~ v.odd
        PROVE  /\ ~ v.owed /\ v.text = <<>> /\ Has(v.cur.hdr, "200-OK")
               /\ Len(v.cur.body) = Announced(v.cur)
    <3>1. Len(v.cur.body) - Len(v.text) = Announced(v.cur)
      BY <2>1, <1>10, <1>16
    <3>2. /\ Len(v.cur.body) <= Announced(v.cur) /\ Len(v.cur.body) \in Nat
          /\ Announced(v.cur) \in Nat
      BY <2>1, <1>9
    <3>3. Len(v.text) = 0 /\ Len(v.cur.body) = Announced(v.cur)
      BY <3>1, <3>2, <1>7, WholeByCount, Zenon
    <3> QED BY <3>3, <2>1, <1>7, <1>9, <1>10, <1>16
  <2>2. Whole(v)
    BY <2>1 DEF Whole
  <2> QED BY <1>5, <1>8, <1>16, <2>2, ReadCompleteOK
<1> QED BY <1>6, <1>11, <1>12, <1>13, <1>14, <1>15, <1>16

\* A read of either kind.
LEMMA ReadResponseOK ==
  ASSUME IInv, exit = "no", NEW i \in Clients, ReadResponse(i)
  PROVE  IInv' /\ AnswerStep
<1>1. Reading(i)
  BY DEF ReadResponse
<1>2. CASE /\ client[i].header_length = 0
           /\ \E k \in Pieces(net[i], MaxHdr - client[i].bytes_read) :
                /\ ReadHeaders(i, k)
                /\ net' = [net EXCEPT ![i] = Drop(@, k)]
                /\ taken' = [taken EXCEPT !.bytes = @ + k]
  <2>1. PICK k \in Pieces(net[i], MaxHdr - client[i].bytes_read) :
               ReadHeaders(i, k) /\ Takes(i, k)
    BY <1>2 DEF Takes, ReadResponse
  <2> QED BY <1>1, <1>2, <2>1, ReadHeadersOK
<1>3. CASE /\ client[i].header_length > 0
           /\ \E k \in Pieces(net[i], MaxHdr) :
                /\ ReadContent(i, k)
                /\ net' = [net EXCEPT ![i] = Drop(@, k)]
                /\ taken' = [taken EXCEPT !.bytes = @ + k]
  <2>1. PICK k \in Pieces(net[i], MaxHdr) : ReadContent(i, k) /\ Takes(i, k)
    BY <1>3 DEF Takes, ReadResponse
  <2> QED BY <1>1, <1>3, <2>1, ReadContentOK
<1> QED BY <1>2, <1>3 DEF ReadResponse

\* A client as it is, brought nowhere.
LEMMA AsItIs ==
  ASSUME IInv, exit = "no", NEW i \in Clients, Reading(i)
  PROVE  /\ Brought(i, client[i]) /\ net[i] \in ConnectionType
         /\ ReadingOK(client[i], net[i])
BY DEF IInv, ClientOK, IdleOK, Brought, Reading

\* The server has closed the connection.
LEMMA ReadEofOK ==
  ASSUME IInv, exit = "no", NEW i \in Clients, ReadEof(i)
  PROVE  IInv' /\ AnswerStep
<1>1. Reading(i) /\ RunTypeOK
  BY DEF ReadEof, IInv
<1>2. Brought(i, client[i]) /\ net[i] \in ConnectionType
  BY <1>1, AsItIs
<1>3. net' = [net EXCEPT ![i] = net[i]]
  BY <1>1 DEF ReadEof, RunTypeOK
<1>4. ReadFrame(i, net[i])
  BY <1>1, <1>2, <1>3 DEF ReadEof, ReadFrame, RunTypeOK
<1>5. CASE TreatError(i, client[i])
  BY <1>1, <1>2, <1>4, <1>5, TreatErrorOK
<1>6. CASE client[i].header_length > 0 /\ Panic("EOF")
  <2>1. Len(net[i].text) = 0 /\ ReadingOK(client[i], net[i])
    BY <1>1, AsItIs DEF ReadEof, Unread
  <2>2. ~ net[i].odd => BodyOK(client[i], net[i])
    BY <1>1, <1>6, <2>1 DEF ReadingOK, Reading
  <2>3. ASSUME ~ net[i].odd
        PROVE  Len(net[i].cur.body) # Announced(net[i].cur)
    <3>1. net[i].cur.body \in Seq(UnitType)
      BY <1>2 DEF ConnectionType, AnswerType
    <3>2. Len(net[i].cur.body) \in Nat
      BY <3>1, LenProperties
    <3>3. client[i].bytes_read = Len(net[i].cur.body)
      BY <2>1, <2>2, <2>3, <3>2 DEF BodyOK
    <3> QED BY <3>3, <2>2, <2>3 DEF BodyOK
  <2>4. Explains(net[i], "EOF")
    BY <2>3 DEF Explains
  <2> QED BY <1>1, <1>4, <1>6, <2>4, PanicOK
<1> QED BY <1>5, <1>6 DEF ReadEof

\* One more fault is within its bound.
LEMMA FaultFits ==
  ASSUME RunTypeOK, OneMoreFault
  PROVE  used' \in [replies : 0 .. MaxReplies, faults : 0 .. MaxFaults]
<1>1. /\ used \in [replies : 0 .. MaxReplies, faults : 0 .. MaxFaults]
      /\ used.faults < MaxFaults /\ used' = [used EXCEPT !.faults = @ + 1]
  BY DEF RunTypeOK, OneMoreFault
<1>2. used.faults + 1 \in 0 .. MaxFaults
  <2>1. used.faults \in 0 .. MaxFaults
    BY <1>1
  <2> QED BY <1>1, <2>1, ClientRunAssumption
<1> QED BY <1>1, <1>2

\* A read finds nothing after all.
LEMMA ReadNothingOK ==
  ASSUME IInv, exit = "no", NEW i \in Clients, ReadNothing(i)
  PROVE  IInv' /\ AnswerStep
<1> DEFINE t == (client[i].total_bytes_recv + (-1)) % Word
           c == [client[i] EXCEPT !.total_bytes_recv = t]
<1>1. Reading(i) /\ RunTypeOK
  BY DEF ReadNothing, IInv
<1>2. Brought(i, client[i]) /\ net[i] \in ConnectionType
  BY <1>1, AsItIs
<1>3. net' = [net EXCEPT ![i] = net[i]]
  BY <1>1 DEF ReadNothing, RunTypeOK
<1>4. taken' \in [bytes : Nat, nothings : Nat]
  <2>1. taken.nothings + 1 \in Nat /\ taken \in [bytes : Nat, nothings : Nat]
    BY <1>1 DEF RunTypeOK
  <2> QED BY <2>1 DEF ReadNothing
<1>5. ReadFrame(i, net[i])
  BY <1>1, <1>2, <1>3, <1>4, FaultFits DEF ReadNothing, ReadFrame
<1>6. client' = [client EXCEPT ![i] = c] /\ UNCHANGED <<stats, took, exit>>
  <2>1. Counted(client[i], -1) = c
    BY DEF Counted
  <2>2. client' = [client EXCEPT ![i] = Counted(client[i], -1)]
    BY <1>1 DEF ReadNothing, RunTypeOK
  <2> QED BY <2>1, <2>2 DEF ReadNothing
<1>7. t \in 0 .. Word - 1
  <2>1. client[i].total_bytes_recv \in 0 .. Word - 1 /\ -1 \in Int
    BY <1>2 DEF Brought, ClientType
  <2> QED BY <2>1, CountedFits
<1> HIDE DEF t
<1>8. /\ c \in ClientType /\ c.state = client[i].state /\ c.fd = client[i].fd
      /\ c.bytes_read = client[i].bytes_read
      /\ c.header_length = client[i].header_length
      /\ c.content_length = client[i].content_length
      /\ c.read_hdr_buf = client[i].read_hdr_buf
      /\ c.CTstart = client[i].CTstart /\ c.CRTstart = client[i].CRTstart
      /\ c.RTstart = client[i].RTstart
      /\ c.total_resp_recv = client[i].total_resp_recv
  BY <1>2, <1>7 DEF Brought, ClientType
<1> HIDE DEF c
<1>9. Brought(i, c) /\ GoOn(i, c)
  BY <1>2, <1>6, <1>8 DEF Brought, GoOn
<1>10. IdleOK(client[i], net[i]) /\ ReadingOK(client[i], net[i])
  BY DEF IInv, ClientOK
<1>11. IdleOK(c, net[i])
  BY <1>8, <1>10 DEF IdleOK
<1>12. ReadingOK(c, net[i])
  BY <1>8, <1>10 DEF ReadingOK, HeaderOK, BodyOK
<1> QED BY <1>1, <1>5, <1>9, <1>11, <1>12, GoOnOK

-----------------------------------------------------------------------------
(***************************************************************************)
(* The server and the clock                                                *)
(***************************************************************************)

\* A step that changes only the connection of client i, to w.
LEMMA ServerStepOK ==
  ASSUME IInv, exit = "no", NEW i \in Clients, NEW w,
         net' = [net EXCEPT ![i] = w], ClientOK(client[i], w, now),
         UNCHANGED <<now, client, stats, exit, took, taken>>,
         used' \in [replies : 0 .. MaxReplies, faults : 0 .. MaxFaults]
  PROVE  IInv' /\ AnswerStep
<1>1. RunTypeOK /\ TimesRight
  BY DEF IInv
<1>2. client[i] \in ClientType /\ client' = [client EXCEPT ![i] = client[i]]
  BY <1>1 DEF RunTypeOK
<1>3. Moved(i, client[i], w) /\ now' = now
  BY <1>2 DEF Moved
<1>4. ClientsPlaced'
  BY <1>3, MovedOK
<1>5. RunTypeOK' /\ TimesRight' /\ exit' = "no"
  BY <1>1, <1>4 DEF RunTypeOK, ClientsPlaced, TimesRight
<1>6. AnswerStep
  BY <1>1, <1>2, NoAnswerCounted
<1> QED BY <1>4, <1>5, <1>6, GoesOn

\* The server gives an answer, honest or not.
LEMMA ServerAnswersOK ==
  ASSUME IInv, exit = "no", NEW i \in Clients, ServerAnswers(i)
  PROVE  IInv' /\ AnswerStep
<1>1. RunTypeOK /\ ClientOK(client[i], net[i], now) /\ net[i].owed
  BY DEF IInv, ServerAnswers
<1>2. PICK a \in Answers :
        /\ net' = [net EXCEPT ![i] = Sent(@, a)]
        /\ \/ Honest(a) /\ used' = [used EXCEPT !.replies = @ + 1]
           \/ /\ ~ Honest(a) /\ used.faults < MaxFaults
              /\ used' = [replies |-> used.replies + 1, faults |-> used.faults + 1]
  BY DEF ServerAnswers
<1> DEFINE x == net[i].odd \/ Misleads(a)
           t == (net[i].text \o a.hdr) \o a.body
           w == Sent(net[i], a)
<1>3. net' = [net EXCEPT ![i] = w]
  BY <1>2
<1>4. /\ a \in AnswerType /\ net[i] \in ConnectionType /\ client[i] \in ClientType
      /\ a.hdr \in Seq(UnitType) /\ a.body \in Seq(UnitType)
      /\ net[i].text \in Seq(UnitType)
  BY <1>1, ClientRunAssumption DEF RunTypeOK, ConnectionType, AnswerType
<1>5. x \in BOOLEAN /\ t \in Seq(UnitType)
  <2>1. net[i].text \o a.hdr \in Seq(UnitType)
    BY <1>4, ConcatProperties
  <2>2. t \in Seq(UnitType)
    BY <2>1, <1>4, ConcatProperties
  <2>3. Misleads(a) \in BOOLEAN
    BY DEF Misleads
  <2> QED BY <1>4, <2>2, <2>3 DEF ConnectionType
<1>6. net[i].text = <<>> => t = a.hdr \o a.body
  BY <1>4, ConcatEmptySeq
<1>7. /\ w \in ConnectionType /\ w.text = t /\ w.cur = a /\ ~ w.owed
      /\ w.fin = net[i].fin /\ (w.odd <=> x)
  <2>1. w = [net[i] EXCEPT !.text = t, !.cur = a, !.owed = FALSE, !.odd = x]
    BY <1>4 DEF Sent, ConnectionType
  <2> HIDE DEF x, w, t
  <2>2. w \in ConnectionType
    BY <2>1, <1>4, <1>5 DEF ConnectionType
  <2>3. /\ w.text = t /\ w.cur = a /\ w.owed = FALSE /\ w.fin = net[i].fin /\ w.odd = x
    BY <2>1, <1>4 DEF ConnectionType
  <2> QED BY <2>2, <2>3
<1> HIDE DEF w, t
<1>8. ClientOK(client[i], w, now)
  <2>1. TimesOK(client[i], now) /\ Len(client[i].read_hdr_buf) <= MaxHdr
    BY <1>1 DEF ClientOK
  <2>2. client[i].state = "CONNECT" => ~ client[i].fd
    BY <1>1, <1>4 DEF ClientOK, IdleOK, NewConnection
  <2>3. client[i].state = "WRITING" => net[i].odd
    BY <1>1 DEF ClientOK, IdleOK
  <2>4. IdleOK(client[i], w)
    BY <1>1, <1>7, <2>2, <2>3 DEF ClientOK, IdleOK
  <2>5. ASSUME client[i].state = "READING", client[i].header_length = 0
        PROVE  HeaderOK(client[i], w)
    <3>1. HeaderOK(client[i], net[i])
      BY <1>1, <2>5 DEF ClientOK, ReadingOK
    <3>2. ASSUME ~ x
          PROVE  /\ ~ Misleads(a)
                 /\ client[i].read_hdr_buf \o t = a.hdr \o a.body
                 /\ Len(client[i].read_hdr_buf) < Len(a.hdr)
      <4>1. net[i].text = <<>> /\ client[i].read_hdr_buf = <<>> /\ ~ Misleads(a)
        BY <1>1, <3>1, <3>2 DEF HeaderOK
      <4>2. t = a.hdr \o a.body /\ t \in Seq(UnitType)
        BY <4>1, <1>5, <1>6
      <4>3. client[i].read_hdr_buf \o t = t
        BY <4>1, <4>2, ConcatEmptySeq
      <4>4. Has(a.hdr, "empty-line")
        BY <4>1 DEF Misleads, IsHeader, Has
      <4>5. FirstAt(a.hdr, "empty-line") \in 1 .. Len(a.hdr) /\ Len(a.hdr) \in Nat
        BY <4>4, <1>4, FirstIsFound, LenProperties
      <4>6. Len(client[i].read_hdr_buf) = 0 /\ Len(a.hdr) > 0
        BY <4>1, <4>5, EmptySeq
      <4> QED BY <4>1, <4>2, <4>3, <4>6
    <3> HIDE DEF x
    <3> QED BY <1>7, <3>1, <3>2 DEF HeaderOK
  <2>6. client[i].state = "READING" /\ client[i].header_length > 0 => net[i].odd
    BY <1>1 DEF ClientOK, ReadingOK, BodyOK
  <2>7. ReadingOK(client[i], w)
    BY <1>7, <2>5, <2>6 DEF ReadingOK
  <2> QED BY <1>4, <1>7, <2>1, <2>4, <2>7 DEF ClientOK
<1>9. used' \in [replies : 0 .. MaxReplies, faults : 0 .. MaxFaults]
  <2>1. /\ used \in [replies : 0 .. MaxReplies, faults : 0 .. MaxFaults]
        /\ used.replies < MaxReplies
    BY <1>1 DEF RunTypeOK, ServerAnswers
  <2>2. used.replies \in 0 .. MaxReplies /\ used.faults \in 0 .. MaxFaults
    BY <2>1
  <2>3. /\ used.replies + 1 \in 0 .. MaxReplies
        /\ used.faults < MaxFaults => used.faults + 1 \in 0 .. MaxFaults
    BY <2>1, <2>2, ClientRunAssumption
  <2> QED BY <1>2, <2>1, <2>3
<1> QED BY <1>3, <1>8, <1>9, ServerStepOK DEF ServerAnswers

\* The server closes the connection.
LEMMA ServerClosesOK ==
  ASSUME IInv, exit = "no", NEW i \in Clients, ServerCloses(i)
  PROVE  IInv' /\ AnswerStep
<1> DEFINE w == [net[i] EXCEPT !.fin = TRUE]
<1>1. RunTypeOK /\ ClientOK(client[i], net[i], now) /\ client[i].state # "CONNECT"
  BY DEF IInv, ServerCloses
<1>2. net' = [net EXCEPT ![i] = w] /\ net[i] \in ConnectionType
  BY <1>1 DEF RunTypeOK, ServerCloses
<1>3. /\ w \in ConnectionType /\ w.text = net[i].text /\ w.cur = net[i].cur
      /\ w.owed = net[i].owed /\ w.odd = net[i].odd
  BY <1>2 DEF ConnectionType
<1> HIDE DEF w
<1>4. ClientOK(client[i], w, now)
  <2>1. IdleOK(client[i], w)
    BY <1>1, <1>3 DEF ClientOK, IdleOK
  <2>2. ReadingOK(client[i], w)
    BY <1>1, <1>3 DEF ClientOK, ReadingOK, HeaderOK, BodyOK
  <2> QED BY <1>1, <1>3, <2>1, <2>2 DEF ClientOK
<1>5. used' \in [replies : 0 .. MaxReplies, faults : 0 .. MaxFaults]
  BY <1>1, FaultFits DEF ServerCloses
<1> QED BY <1>2, <1>4, <1>5, ServerStepOK DEF ServerCloses

\* Time passes, and no difference grows beyond a word.
LEMMA TickOK ==
  ASSUME IInv, exit = "no", Tick
  PROVE  IInv' /\ AnswerStep
<1>1. RunTypeOK /\ TimesRight /\ NowOK
  BY NowIsOK DEF IInv
<1>2. NowOK' /\ now \in Nat /\ now' = now + 1
  BY <1>1, ClientRunAssumption DEF NowOK, Tick
<1>3. RunTypeOK' /\ TimesRight' /\ exit' = "no"
  BY <1>1, <1>2 DEF Tick, RunTypeOK, TimesRight, NowOK
<1>4. ASSUME NEW j \in Clients PROVE ClientOK(client'[j], net'[j], now')
  <2>1. ClientOK(client[j], net[j], now) /\ client' = client /\ net' = net
    BY DEF IInv, Tick
  <2>2. \A tv : TakenBy(tv, now) => TakenBy(tv, now')
    BY <1>2, ClientRunAssumption DEF TakenBy
  <2>3. TimesOK(client[j], now')
    BY <2>1, <2>2 DEF ClientOK, TimesOK
  <2> QED BY <2>1, <2>3 DEF ClientOK
<1>5. AnswerStep
  <2>1. client \in [Clients -> ClientType] /\ client' = client
    BY <1>1 DEF RunTypeOK, Tick
  <2>2. \A j \in Clients : client[j].total_resp_recv \in Nat
    BY <2>1 DEF ClientType
  <2> QED BY <2>1, <2>2 DEF AnswerStep, AnswerCounted
<1>6. ClientsPlaced'
  <2>1. \A j \in Clients : Len(client'[j].read_hdr_buf) <= MaxHdr
    BY <1>4 DEF ClientOK
  <2> QED BY <1>3, <1>4, <2>1 DEF ClientsPlaced, RunTypeOK
<1> QED BY <1>3, <1>5, <1>6, GoesOn

-----------------------------------------------------------------------------
(***************************************************************************)
(* The theorems                                                            *)
(***************************************************************************)

\* Every step keeps the invariant and counts whole answers only.
LEMMA NextOK ==
  ASSUME IInv, Next
  PROVE  IInv' /\ AnswerStep
<1>1. exit = "no"
  BY DEF Next
<1>2. CASE Tick
  BY <1>1, <1>2, TickOK
<1>3. ASSUME NEW i \in Clients,
             ClientStep(i) \/ ServerAnswers(i) \/ ServerCloses(i)
      PROVE  IInv' /\ AnswerStep
  <2>1. CASE InitClientSocket(i)
    BY <1>1, <2>1, InitClientSocketOK
  <2>2. CASE FinalizeConnect(i)
    BY <1>1, <2>2, FinalizeConnectOK
  <2>3. CASE SendRequest(i)
    BY <1>1, <2>3, SendRequestOK
  <2>4. CASE ReadResponse(i)
    BY <1>1, <2>4, ReadResponseOK
  <2>5. CASE ReadEof(i)
    BY <1>1, <2>5, ReadEofOK
  <2>6. CASE ReadNothing(i)
    BY <1>1, <2>6, ReadNothingOK
  <2>7. CASE ServerAnswers(i)
    BY <1>1, <2>7, ServerAnswersOK
  <2>8. CASE ServerCloses(i)
    BY <1>1, <2>8, ServerClosesOK
  <2> QED BY <1>3, <2>1, <2>2, <2>3, <2>4, <2>5, <2>6, <2>7, <2>8 DEF ClientStep
<1> QED BY <1>2, <1>3 DEF Next

\* The invariant is about the variables of the specification.
LEMMA StutterOK ==
  ASSUME IInv, UNCHANGED vars
  PROVE  IInv'
BY DEF IInv, vars, RunTypeOK, TimesRight, ExitExplained, Reading

\* The invariant holds in every run.
LEMMA InvariantHolds == Spec => []IInv
<1>1. Init => IInv
  BY InitOK
<1>2. IInv /\ [Next]_vars => IInv'
  BY NextOK, StutterOK
<1> QED BY <1>1, <1>2, PTL DEF Spec

\* Every count, length and time of a run stays within its type, whatever the
\* server answers: in particular header and body, as read_headers tells them
\* apart, add up to what was read, neither is negative, and read_hdr_buf is never
\* read beyond its end.
THEOREM RunIsTyped == Spec => []RunTypeOK
<1>1. IInv => RunTypeOK
  BY DEF IInv
<1> QED BY <1>1, InvariantHolds, PTL

\* The sums of the run are the sums of the times that really passed, for every
\* number of clients and every interleaving of their connections and answers,
\* although each is the unsigned difference of two timevals.
THEOREM SumsAreTheTimes == Spec => []TimesRight
<1>1. IInv => TimesRight
  BY DEF IInv
<1> QED BY <1>1, InvariantHolds, PTL

\* A client whose connection has nothing to read, and never had a misleading
\* answer, waits for an answer, or for bytes that its answer has announced and
\* does not have.
Waits(i) == Reading(i) /\ exit = "no" /\ net[i].text = <<>> /\ ~ net[i].odd =>
              net[i].owed \/ Len(net[i].cur.body) # Announced(net[i].cur)

\* A client in its place waits for an answer only if one is owed.
LEMMA NobodyWaitsInVain ==
  ASSUME NEW i \in Clients, exit = "no", ClientOK(client[i], net[i], now)
  PROVE  Waits(i)
<1> SUFFICES ASSUME Reading(i), net[i].text = <<>>, ~ net[i].odd, ~ net[i].owed
             PROVE  Len(net[i].cur.body) # Announced(net[i].cur)
  BY DEF Waits
<1> DEFINE c == client[i]
           w == net[i]
<1>1. ReadingOK(c, w) /\ c \in ClientType /\ w \in ConnectionType
  BY DEF ClientOK
<1>2. /\ c.read_hdr_buf \in Seq(UnitType) /\ Len(c.read_hdr_buf) \in Nat
      /\ w.cur.hdr \in Seq(UnitType) /\ Len(w.cur.hdr) \in Nat
      /\ w.cur.body \in Seq(UnitType) /\ Len(w.cur.body) \in Nat
      /\ w.text \in Seq(UnitType) /\ Len(w.text) = 0
      /\ c.header_length \in 0 .. MaxHdr
  BY <1>1, EmptySeq, LenProperties DEF ConnectionType, AnswerType, ClientType
<1>3. CASE c.header_length = 0
  <2>1. /\ c.read_hdr_buf \o w.text = w.cur.hdr \o w.cur.body
        /\ Len(c.read_hdr_buf) < Len(w.cur.hdr)
    BY <1>1, <1>3 DEF ReadingOK, HeaderOK, Reading
  <2>2. Len(c.read_hdr_buf) + Len(w.text) = Len(w.cur.hdr) + Len(w.cur.body)
    <3>1. /\ c.read_hdr_buf \in Seq(UnitType) /\ w.text \in Seq(UnitType)
          /\ w.cur.hdr \in Seq(UnitType) /\ w.cur.body \in Seq(UnitType)
      BY <1>2
    <3> HIDE DEF c, w
    <3>2. TwoSplits(c.read_hdr_buf, w.text, w.cur.hdr, w.cur.body)
      BY <2>1, <3>1, SplitLater, Zenon
    <3> QED BY <3>2 DEF TwoSplits
  <2>3. FALSE
    <3>1. \A x, h, b \in Nat : x < h => x + 0 # h + b
      OBVIOUS
    <3> HIDE DEF c, w
    <3>2. Len(c.read_hdr_buf) + 0 = Len(w.cur.hdr) + Len(w.cur.body)
      BY <1>2, <2>2
    <3> QED BY <1>2, <2>1, <3>1, <3>2, Zenon
  <2> QED BY <2>3
<1>4. CASE c.header_length > 0
  <2>1. BodyOK(c, w)
    BY <1>1, <1>4 DEF ReadingOK, Reading
  <2>2. c.bytes_read = Len(w.cur.body)
    BY <2>1, <1>2 DEF BodyOK
  <2> QED BY <2>1, <2>2 DEF BodyOK
<1> QED BY <1>2, <1>3, <1>4, ClientRunAssumption

\* A server is always served whose answers do not mislead: its clients never
\* wait for bytes that were never announced, in whatever pieces the answers come
\* and whatever words are in their bodies, and the process gives up on no header
\* that fits, on no length, and on no connection that ends behind an answer that
\* is as long as announced.  Nothing is said of a client that a misleading
\* answer has reached over the connection it has.
THEOREM ClientsServeHonestAnswers == Spec => []HonestAnswersServed
<1>1. ASSUME IInv PROVE HonestAnswersServed
  <2>1. ASSUME NEW i \in Clients PROVE Waits(i)
    <3>1. CASE exit = "no"
      BY <1>1, <3>1, NobodyWaitsInVain DEF IInv
    <3>2. CASE exit # "no"
      BY <3>2 DEF Waits
    <3> QED BY <3>1, <3>2
  <2>2. ExitExplained
    BY <1>1 DEF IInv
  <2> QED BY <2>1, <2>2 DEF HonestAnswersServed, ExitExplained, Explains, Waits
<1> QED BY <1>1, InvariantHolds, PTL

\* An answer is counted when its header and all the bytes it announces have been
\* read, and nothing else, in whatever pieces they came.  Of a connection that
\* has had a misleading answer it says nothing: there the code does count what
\* it should not.
THEOREM CountedAnswersAreWhole == Spec => AnswersWhole
<1>1. ASSUME IInv, [Next]_vars PROVE [AnswerStep]_vars
  BY <1>1, NextOK
<1>2. [AnswerStep]_vars <=>
        [\A i \in Clients :
           AnswerCounted(i) =>
             LET c == net'[i]
             IN  \/ c.odd
                 \/ /\ ~ c.owed /\ c.text = <<>> /\ Has(c.cur.hdr, "200-OK")
                    /\ Len(c.cur.body) = Announced(c.cur)]_vars
  BY DEF AnswerStep, Whole
<1> QED BY <1>1, <1>2, InvariantHolds, PTL DEF Spec, AnswersWhole
=============================================================================
