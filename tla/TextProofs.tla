------------------------------ MODULE TextProofs ------------------------------
(***************************************************************************)
(* Theorems about the text functions (Strings, TemplateText), for texts of *)
(* any bytes and any length, and any number.  Each recursive function of   *)
(* the model is shown to exist, and what it gives by induction along the   *)
(* text.                                                                   *)
(***************************************************************************)
EXTENDS TemplateText, Lemmas, FiniteSetTheorems

\* The bytes of the texts, and those the functions put in.
Bytes ==
  (UNION Alphabets)
    \cup {".", ",", "-", "0", "1", "2", "3", "4", "5", "6", "7", "8", "9",
          "\\", "\"", "n", "\n", "u", "f", "ctl",
          "&", "l", "g", "t", "q", "o", "a", "m", "p", "#", ";", "<", ">", "'"}

TextInv == text \in Seq(Bytes) /\ number \in 0..MaxNumber

\* Texts are of the bytes of their alphabet, and numbers are counted.
LEMMA TextInvariant == Spec => []TextInv
<1> DEFINE IInv == alphabet \in Alphabets /\ text \in Seq(Bytes) /\ number \in 0..MaxNumber
<1>1. Init => IInv
  <2>1. <<>> \in Seq(Bytes)
    BY EmptySeq
  <2> QED BY <2>1, TemplateTextAssumption DEF Init
<1>2. IInv /\ [Next]_vars => IInv'
  <2> SUFFICES ASSUME IInv, [Next]_vars PROVE IInv'
    OBVIOUS
  <2>1. CASE Extend
    <3>1. PICK c \in alphabet : text' = Append(text, c)
      BY <2>1 DEF Extend
    <3>2. c \in Bytes
      BY DEF Bytes
    <3> QED BY <2>1, <3>1, <3>2, AppendProperties DEF Extend
  <2>2. CASE Count
    BY <2>2, TemplateTextAssumption DEF Count
  <2>3. CASE UNCHANGED vars
    BY <2>3 DEF vars
  <2> QED BY <2>1, <2>2, <2>3 DEF Next
<1>3. IInv => TextInv
  BY DEF TextInv
<1> QED BY <1>1, <1>2, <1>3, PTL DEF Spec

(***************************************************************************)
(* Cutting between characters.                                             *)
(***************************************************************************)

\* Behind a byte that is not wide there is a boundary.
LEMMA BetweenNarrow ==
  ASSUME NEW s \in Seq(Bytes), NEW p \in Nat, s[p + 1] # "hi"
  PROVE  Between(s, p + 1)
<1> DEFINE run == {q \in 0..(p + 1) : \A k \in (q + 1)..(p + 1) : s[k] = "hi"}
<1>1. run = {p + 1}
  <2>1. \A q \in 0..(p + 1) : q # p + 1 => p + 1 \in (q + 1)..(p + 1)
    OBVIOUS
  <2>2. \A k \in (p + 1 + 1)..(p + 1) : FALSE
    OBVIOUS
  <2> QED BY <2>1, <2>2
<1>2. Min(run) = p + 1
  BY <1>1 DEF Min
<1> QED BY <1>2 DEF Between

\* A wide byte takes a boundary to a place inside a character, and back.
LEMMA BetweenWide ==
  ASSUME NEW s \in Seq(Bytes), NEW p \in Nat, s[p + 1] = "hi"
  PROVE  Between(s, p + 1) <=> ~Between(s, p)
<1> DEFINE run(e) == {q \in 0..e : \A k \in (q + 1)..e : s[k] = "hi"}
<1>1. ASSUME NEW e \in Nat
      PROVE  /\ run(e) \in SUBSET Nat /\ e \in run(e)
             /\ Min(run(e)) \in run(e) /\ \A j \in run(e) : Min(run(e)) <= j
  <2>1. run(e) \in SUBSET Nat /\ e \in run(e)
    OBVIOUS
  <2> DEFINE r == run(e)
  <2> HIDE DEF run
  <2>2. \E k \in r : \A j \in r : k <= j
    BY <2>1, LeastOf
  <2> QED BY <2>1, <2>2 DEF Min
<1>2. ASSUME NEW e \in Nat, s[e + 1] = "hi"
      PROVE  run(e + 1) = run(e) \cup {e + 1} /\ Min(run(e + 1)) = Min(run(e))
  <2>1. \A q \in 0..e : (q + 1)..(e + 1) = ((q + 1)..e) \cup {e + 1}
    OBVIOUS
  <2>2. \A q \in 0..e : q \in run(e + 1) <=> q \in run(e)
    BY <1>2, <2>1
  <2>3. e + 1 \in run(e + 1)
    OBVIOUS
  <2>8. 0..(e + 1) = (0..e) \cup {e + 1} /\ run(e) \subseteq 0..e /\ run(e + 1) \subseteq 0..(e + 1)
    OBVIOUS
  <2>4. run(e + 1) = run(e) \cup {e + 1}
    <3> HIDE DEF run
    <3> QED BY <2>2, <2>3, <2>8
  <2>5. e + 1 \in Nat
    OBVIOUS
  <2>6. \A j \in run(e) : j <= e /\ j \in Nat
    OBVIOUS
  <2> HIDE DEF run
  <2>7. /\ Min(run(e)) \in run(e) /\ \A j \in run(e) : Min(run(e)) <= j
        /\ Min(run(e + 1)) \in run(e + 1) /\ \A j \in run(e + 1) : Min(run(e + 1)) <= j
    BY <1>1, <2>5
  <2> QED BY <2>4, <2>6, <2>7
<1> HIDE DEF run
<1>6. p + 1 \in Nat /\ p \in Nat
  OBVIOUS
<1> DEFINE even(e) == (e - Min(run(e))) % 2 = 0
<1>9. ASSUME NEW e \in Nat PROVE Between(s, e) <=> even(e)
  BY Zenon DEF Between, run
<1>3. Min(run(p)) \in 0..p
  <2>1. Min(run(p)) \in run(p)
    BY <1>1
  <2>2. run(p) \subseteq 0..p
    BY DEF run
  <2> QED BY <2>1, <2>2
<1>4. Min(run(p + 1)) = Min(run(p))
  BY <1>2
<1>5. even(p + 1) <=> ~even(p)
  <2>1. PICK m \in 0..p : m = Min(run(p))
    BY <1>3
  <2>2. (p + 1 - m) % 2 = 0 <=> (p - m) % 2 # 0
    OBVIOUS
  <2> QED BY <1>4, <2>1, <2>2
<1> QED
  <2> HIDE DEF even
  <2> QED BY <1>5, <1>6, <1>9, Zenon

LEMMA BehindWide ==
  ASSUME NEW s \in Seq(Bytes), NEW p \in Nat, s[p + 1] = "hi", Between(s, p)
  PROVE  ~Between(s, p + 1) /\ Between(s, p + 2)
<1>1. ~Between(s, p + 1)
  BY BetweenWide
<1>2. p + 1 \in Nat /\ p + 1 + 1 = p + 2
  OBVIOUS
<1>3. CASE s[p + 2] = "hi"
  BY <1>1, <1>2, <1>3, BetweenWide
<1>4. CASE s[p + 2] # "hi"
  BY <1>1, <1>2, <1>4, BetweenNarrow
<1> QED BY <1>3, <1>4

LEMMA BetweenStart == ASSUME NEW s PROVE Between(s, 0)
<1> DEFINE run == {q \in 0..0 : \A k \in (q + 1)..0 : s[k] = "hi"}
<1>1. run = {0}
  OBVIOUS
<1>2. Min(run) = 0
  BY <1>1 DEF Min
<1> QED BY <1>2 DEF Between

\* Where the loops that copy up to len bytes of whole characters end.
CutPlace(s, len) ==
  IF Len(s) <= len THEN Len(s) ELSE IF Between(s, len) THEN len ELSE len + 1

\* A loop that goes on by characters exists, and where it ends.
LEMMA WalkEnds ==
  ASSUME NEW s \in Seq(Bytes), NEW len \in Nat, WholeCharacters(s), NEW f,
         f = [i \in Nat |-> IF i >= Len(s) \/ i >= len THEN i
                            ELSE IF s[i + 1] # "hi" THEN f[i + 1]
                            ELSE IF i + 1 < Len(s) THEN f[i + 2] ELSE i]
  PROVE  f[0] = CutPlace(s, len)
<1> DEFINE L == Len(s)
           e == CutPlace(s, len)
           mu == [i \in Nat |-> IF i <= L THEN L - i ELSE 0]
           S == {i \in Nat : i <= e /\ Between(s, i) => f[i] = e}
<1>1. L \in Nat /\ e \in Nat /\ e <= L
  BY LenProperties DEF CutPlace
<1>2. mu \in [Nat -> Nat]
  BY <1>1
<1>3. ASSUME NEW i \in Nat, \A j \in Nat : mu[j] < mu[i] => j \in S PROVE i \in S
  <2>1. SUFFICES ASSUME i <= e, Between(s, i) PROVE f[i] = e
    OBVIOUS
  <2>2. f[i] = IF i >= L \/ i >= len THEN i
               ELSE IF s[i + 1] # "hi" THEN f[i + 1]
               ELSE IF i + 1 < L THEN f[i + 2] ELSE i
    OBVIOUS
  <2>3. CASE i >= L \/ i >= len
    <3>1. i = e
      BY <1>1, <2>1, <2>3 DEF CutPlace
    <3> QED BY <2>2, <2>3, <3>1
  <2>4. ASSUME ~(i >= L \/ i >= len), s[i + 1] # "hi" PROVE f[i] = e
    <3>1. Between(s, i + 1)
      BY <2>4, BetweenNarrow
    <3>2. i + 1 \in Nat /\ i + 1 <= e /\ mu[i + 1] < mu[i]
      BY <1>1, <2>4 DEF CutPlace
    <3>3. i + 1 \in S
      BY <1>3, <3>2
    <3> QED BY <2>2, <2>4, <3>1, <3>2, <3>3
  <2>5. ASSUME ~(i >= L \/ i >= len), s[i + 1] = "hi" PROVE f[i] = e
    <3>1. ~Between(s, i + 1) /\ Between(s, i + 2)
      BY <2>1, <2>5, BehindWide
    <3>2. i + 1 < L
      BY <1>1, <2>5, <3>1 DEF WholeCharacters
    <3>3. i + 2 \in Nat /\ mu[i + 2] < mu[i]
      BY <1>1, <2>5, <3>2
    <3>5. i + 2 <= e
      <4>1. len = i + 1 => e = len + 1
        BY <1>1, <2>5, <3>1, <3>2 DEF CutPlace
      <4>2. e >= len \/ e = L
        BY <1>1 DEF CutPlace
      <4> HIDE DEF e
      <4> QED BY <1>1, <2>5, <3>2, <4>1, <4>2
    <3>4. i + 2 \in S
      BY <1>3, <3>3
    <3> QED BY <2>2, <2>5, <3>1, <3>2, <3>3, <3>4, <3>5
  <2> QED BY <2>3, <2>4, <2>5
<1>4. \A i \in Nat : i \in S
  <2> HIDE DEF S, mu
  <2>1. Inherited(Nat, mu, S)
    BY <1>2, <1>3 DEF Inherited
  <2> QED BY <2>1, ByMeasure, Zenon
<1>5. 0 \in S
  BY <1>4
<1> QED BY <1>1, <1>5, BetweenStart

LEMMA WalkExists ==
  ASSUME NEW s \in Seq(Bytes), NEW len \in Int
  PROVE  \E f : f = [i \in Nat |-> IF i >= Len(s) \/ i >= len THEN i
                                   ELSE IF s[i + 1] # "hi" THEN f[i + 1]
                                   ELSE IF i + 1 < Len(s) THEN f[i + 2] ELSE i]
<1> DEFINE L == Len(s)
           mu == [i \in Nat |-> IF i <= L THEN L - i ELSE 0]
           Stop == {i \in Nat : i >= L \/ i >= len \/ (s[i + 1] = "hi" /\ ~(i + 1 < L))}
           base == [i \in Nat |-> i]
           next == [i \in Nat |-> IF s[i + 1] # "hi" THEN i + 1 ELSE i + 2]
           comb == [i \in Nat |-> [v \in Nat |-> v]]
<1>1. L \in Nat
  BY LenProperties
<1>2. mu \in [Nat -> Nat]
  BY <1>1
<1>3. base \in [Nat -> Nat] /\ next \in [Nat -> Nat] /\ comb \in [Nat -> [Nat -> Nat]]
  OBVIOUS
<1>4. \A i \in Nat : i \notin Stop => mu[next[i]] < mu[i]
  BY <1>1
<1>5. PICK f : Computed(f, Nat, Nat, Stop, base, next, comb)
  <2> HIDE DEF mu, Stop, base, next, comb
  <2>1. GoesDown(Nat, Nat, mu, Stop, base, next, comb)
    BY <1>2, <1>3, <1>4 DEF GoesDown
  <2> QED BY <2>1, RecursionExists
<1>8. /\ f \in [Nat -> Nat]
      /\ \A i \in Nat : f[i] = IF i \in Stop THEN base[i] ELSE comb[i][f[next[i]]]
  BY <1>5, Zenon DEF Computed
<1> DEFINE g == [i \in Nat |-> IF i >= L \/ i >= len THEN i
                               ELSE IF s[i + 1] # "hi" THEN f[i + 1]
                               ELSE IF i + 1 < L THEN f[i + 2] ELSE i]
<1>6. ASSUME NEW i \in Nat PROVE f[i] = g[i]
  <2>1. f[i] = IF i \in Stop THEN i ELSE f[IF s[i + 1] # "hi" THEN i + 1 ELSE i + 2]
    <3>1. next[i] \in Nat
      OBVIOUS
    <3>2. f[next[i]] \in Nat
      BY <1>8, <3>1
    <3> QED BY <1>8, <3>1, <3>2
  <2>2. i \in Stop <=> (i >= L \/ i >= len \/ (s[i + 1] = "hi" /\ ~(i + 1 < L)))
    OBVIOUS
  <2> HIDE DEF Stop
  <2> QED BY <2>1, <2>2
<1>7. f = g
  <2>1. g = [i \in Nat |-> g[i]] /\ f = [i \in Nat |-> f[i]]
    BY <1>8
  <2> HIDE DEF g
  <2> QED BY <1>6, <2>1
<1> QED BY <1>7

LEMMA CutAtIs ==
  ASSUME NEW s \in Seq(Bytes), NEW len \in Nat, WholeCharacters(s)
  PROVE  CutAt(s, len) = CutPlace(s, len)
<1> DEFINE From[i \in Nat] ==
             IF i >= Len(s) \/ i >= len THEN i
             ELSE IF s[i + 1] # "hi" THEN From[i + 1]
             ELSE IF i + 1 < Len(s) THEN From[i + 2] ELSE i
<1>1. From = [i \in Nat |-> IF i >= Len(s) \/ i >= len THEN i
                            ELSE IF s[i + 1] # "hi" THEN From[i + 1]
                            ELSE IF i + 1 < Len(s) THEN From[i + 2] ELSE i]
  <2>1. \E f : f = [i \in Nat |-> IF i >= Len(s) \/ i >= len THEN i
                                  ELSE IF s[i + 1] # "hi" THEN f[i + 1]
                                  ELSE IF i + 1 < Len(s) THEN f[i + 2] ELSE i]
    <3>1. len \in Int
      OBVIOUS
    <3> QED BY <3>1, WalkExists, Zenon
  <2> QED BY <2>1
<1>2. CutAt(s, len) = From[0]
  BY Zenon DEF CutAt
<1> HIDE DEF From
<1> QED BY <1>1, <1>2, WalkEnds

\* fixstring, for wide characters of two bytes, goes the same way.
LEMMA FixstringIs ==
  ASSUME NEW s \in Seq(Bytes), NEW size \in Nat, size >= 2, WholeCharacters(s)
  PROVE  fixstring(s, size, 2) =
           [rv  |-> CutPlace(s, size - 1),
            out |-> IF CutPlace(s, size - 1) > size - 1 THEN s
                    ELSE SubSeq(s, 1, CutPlace(s, size - 1))]
<1> DEFINE last == size - 1
           wide == IF 2 < 2 THEN 2 ELSE 2
           Step(f) == [i \in Nat |-> IF i >= Len(s) \/ i >= last THEN i
                                     ELSE IF s[i + 1] # "hi" THEN f[i + 1]
                                     ELSE IF i + 1 < Len(s) THEN f[i + 2] ELSE i]
           From[i \in Nat] ==
             IF i >= Len(s) \/ i >= last THEN i
             ELSE IF s[i + 1] # "hi" THEN From[i + 1]
             ELSE IF i + wide > Len(s) THEN i
             ELSE From[i + wide]
           Step2(f) == [i \in Nat |-> IF i >= Len(s) \/ i >= last THEN i
                                      ELSE IF s[i + 1] # "hi" THEN f[i + 1]
                                      ELSE IF i + wide > Len(s) THEN i
                                      ELSE f[i + wide]]
<1>1. last \in Nat /\ Len(s) \in Nat
  BY LenProperties
<1>2. ASSUME NEW f PROVE Step(f) = Step2(f)
  <2>1. \A i \in Nat : i + wide > Len(s) <=> ~(i + 1 < Len(s))
    BY <1>1
  <2>2. wide = 2
    OBVIOUS
  <2> HIDE DEF wide
  <2> QED BY <2>1, <2>2
<1>3. \E f : f = Step(f)
  <2>1. last \in Int
    BY <1>1
  <2> HIDE DEF last
  <2> QED BY <2>1, WalkExists, Zenon
<1>4. \E f : f = Step2(f)
  <2> HIDE DEF Step, Step2
  <2> QED BY <1>2, <1>3, Zenon
<1>5. From = Step2(From)
  BY <1>4, Zenon
<1>6. From = Step(From)
  <2> HIDE DEF From, Step, Step2
  <2> QED BY <1>2, <1>5, Zenon
<1>7. From[0] = CutPlace(s, last)
  <2> HIDE DEF From, last
  <2> QED BY <1>1, <1>6, WalkEnds, Zenon
<1>8. fixstring(s, size, 2) = [rv |-> From[0], out |-> IF From[0] > last THEN s ELSE SubSeq(s, 1, From[0])]
  <2>1. ~(size < 2)
    OBVIOUS
  <2> QED BY <2>1, Zenon DEF fixstring
<1> HIDE DEF From
<1> QED BY <1>7, <1>8, Zenon

\* Where a cut lies.
LEMMA CutPlaceIs ==
  ASSUME NEW s \in Seq(Bytes), NEW len \in Nat, WholeCharacters(s)
  PROVE  /\ CutPlace(s, len) \in 0..Len(s) /\ Between(s, CutPlace(s, len))
         /\ Len(s) <= len => CutPlace(s, len) = Len(s)
         /\ Len(s) > len => CutPlace(s, len) \in {len, len + 1}
         /\ CutPlace(s, len) = len + 1 <=> len < Len(s) /\ ~Between(s, len)
<1>1. Len(s) \in Nat
  BY LenProperties
<1>2. CASE Len(s) <= len
  BY <1>1, <1>2 DEF CutPlace, WholeCharacters
<1>3. CASE Len(s) > len /\ Between(s, len)
  BY <1>1, <1>3 DEF CutPlace
<1>4. CASE Len(s) > len /\ ~Between(s, len)
  <2>1. Between(s, len + 1)
    BY <1>4, BetweenNarrow, BetweenWide
  <2>2. CutPlace(s, len) = len + 1
    BY <1>1, <1>4 DEF CutPlace
  <2> QED BY <1>1, <1>4, <2>1, <2>2
<1> QED BY <1>1, <1>2, <1>3, <1>4

LEMMA PrefixIs ==
  ASSUME NEW s \in Seq(Bytes), NEW n \in 0..Len(s)
  PROVE  /\ SubSeq(s, 1, n) \in Seq(Bytes) /\ Len(SubSeq(s, 1, n)) = n
         /\ \A i \in 1..n : SubSeq(s, 1, n)[i] = s[i]
         /\ IsPrefix(SubSeq(s, 1, n), s)
         /\ n = Len(s) => SubSeq(s, 1, n) = s
<1>1. Len(s) \in Nat /\ \A i \in 1..Len(s) : s[i] \in Bytes
  BY LenProperties, ElementOfSeq
<1>2. n \in Int /\ 1 \in Int /\ \A i \in 1..n : s[i] \in Bytes
  BY <1>1
<1> DEFINE p == SubSeq(s, 1, n)
<1>3. /\ p \in Seq(Bytes) /\ Len(p) = (IF 1 <= n THEN n - 1 + 1 ELSE 0)
      /\ \A i \in 1..(n - 1 + 1) : p[i] = s[1 + i - 1]
  <2> HIDE DEF p
  <2> QED BY <1>2, SubSeqProperties DEF p
<1>4. p \in Seq(Bytes) /\ Len(p) = n /\ \A i \in 1..n : p[i] = s[i]
  <2>1. n \in Nat /\ n - 1 + 1 = n /\ \A i \in 1..n : 1 + i - 1 = i
    BY <1>1
  <2> HIDE DEF p
  <2> QED BY <1>3, <2>1
<1>5. SubSeq(p, 1, Len(p)) = p
  BY <1>4, SubSeqFull
<1>6. IsPrefix(p, s)
  BY <1>1, <1>4, <1>5 DEF IsPrefix
<1>7. n = Len(s) => p = s
  BY SubSeqFull
<1> HIDE DEF p
<1> QED BY <1>4, <1>6, <1>7 DEF p

LEMMA ReverseIs ==
  ASSUME NEW v \in Seq(Bytes)
  PROVE  /\ Reverse(v) \in Seq(Bytes) /\ Len(Reverse(v)) = Len(v)
         /\ \A i \in 1..Len(v) : Reverse(v)[i] = v[Len(v) - i + 1]
<1> DEFINE n == Len(v)
           e == [i \in 1..n |-> v[(n - i) + 1]]
<1>1. n \in Nat /\ \A i \in 1..n : v[i] \in Bytes
  BY LenProperties, ElementOfSeq
<1>2. \A i \in 1..n : n - i + 1 \in 1..n
  BY <1>1
<1> HIDE DEF n
<1>3. e \in [1..n -> Bytes]
  BY <1>1, <1>2
<1>4. e \in Seq(Bytes) /\ Len(e) = n
  BY <1>1, <1>3
<1>5. Reverse(v) = e
  BY DEF Reverse, n
<1>6. \A i \in 1..n : e[i] = v[n - i + 1]
  OBVIOUS
<1> HIDE DEF e
<1> QED BY <1>4, <1>5, <1>6 DEF n

LEMMA ThreeOf ==
  ASSUME NEW S, NEW c \in S
  PROVE  <<c, c, c>> \in Seq(S) /\ Len(<<c, c, c>>) = 3
OBVIOUS

\* What is put behind a text is its end.
LEMMA SuffixIs ==
  ASSUME NEW s \in Seq(Bytes), NEW t \in Seq(Bytes)
  PROVE  IsSuffix(t, s \o t)
<1> DEFINE w == s \o t
           r == Reverse(w)
           q == Reverse(t)
<1>1. /\ Len(s) \in Nat /\ Len(t) \in Nat /\ w \in Seq(Bytes) /\ Len(w) = Len(s) + Len(t)
      /\ \A i \in 1..(Len(s) + Len(t)) : w[i] = IF i <= Len(s) THEN s[i] ELSE t[i - Len(s)]
  BY LenProperties, ConcatProperties
<1> HIDE DEF w
<1>2. /\ r \in Seq(Bytes) /\ Len(r) = Len(w) /\ \A i \in 1..Len(w) : r[i] = w[Len(w) - i + 1]
      /\ q \in Seq(Bytes) /\ Len(q) = Len(t) /\ \A i \in 1..Len(t) : q[i] = t[Len(t) - i + 1]
  BY <1>1, ReverseIs
<1>3. /\ r \in Seq(Bytes) /\ Len(r) = Len(s) + Len(t)
      /\ q \in Seq(Bytes) /\ Len(q) = Len(t)
  BY <1>1, <1>2
<1>4. ASSUME NEW i \in 1..Len(t) PROVE r[i] = q[i]
  <2>1. r[i] = w[Len(s) + Len(t) - i + 1] /\ q[i] = t[Len(t) - i + 1]
    <3>1. i \in 1..Len(w)
      BY <1>1
    <3> HIDE DEF r, q
    <3> QED BY <1>1, <1>2, <3>1
  <2>2. Len(s) + Len(t) - i + 1 \in 1..(Len(s) + Len(t))
        /\ ~(Len(s) + Len(t) - i + 1 <= Len(s))
        /\ Len(s) + Len(t) - i + 1 - Len(s) = Len(t) - i + 1
    BY <1>1
  <2> QED BY <1>1, <2>1, <2>2
<1> HIDE DEF r, q
<1>5. Len(t) \in 0..Len(r)
  BY <1>1, <1>3
<1>6. /\ SubSeq(r, 1, Len(t)) \in Seq(Bytes) /\ Len(SubSeq(r, 1, Len(t))) = Len(t)
      /\ \A i \in 1..Len(t) : SubSeq(r, 1, Len(t))[i] = r[i]
  BY <1>3, <1>5, PrefixIs
<1>7. SubSeq(r, 1, Len(t)) = q
  BY <1>3, <1>4, <1>6, SeqEqual
<1>8. SubSeq(q, 1, Len(q)) = q
  BY <1>3, SubSeqFull
<1>9. IsPrefix(q, r)
  BY <1>1, <1>3, <1>7, <1>8 DEF IsPrefix
<1> QED BY <1>9 DEF IsSuffix, q, r, w

\* temp_cutdown, temp_cutdown_with_more and fixstring cut whatever text
\* between two of its characters, within a byte of where they were asked to.
THEOREM CutsBetweenCharactersHolds == Spec => []CutsBetweenCharacters
<1>1. TextInv => CutsBetweenCharacters
  <2> DEFINE dots == <<".", ".", ".">>
             fixed(size) == fixstring(text, size, 2)
             cut(size, len) == temp_cutdown(text, size, len)
             more(size, len) == temp_cutdown_with_more(text, size, len)
             IsCut(s, at) == /\ IsPrefix(s, text) /\ Between(text, Len(s))
                             /\ s = text \/ Len(s) \in {at, at + 1}
             Straddled(at) == at < Len(text) /\ ~Between(text, at)
             Plain(size, len) ==
               /\ IsCut(cut(size, len), CutLen(size, len))
               /\ Len(cut(size, len)) >= size <=> CutLen(size, len) = size - 1 /\ Straddled(size - 1)
             Dotted(size, len) ==
               /\ Len(text) <= CutLen(size, len) => more(size, len) = text
               /\ Len(text) > CutLen(size, len) =>
                    /\ IsSuffix(dots, more(size, len)) /\ Len(more(size, len)) <= size
                    /\ Between(text, Len(more(size, len)) - 3)
                    /\ IsPrefix(SubSeq(more(size, len), 1, Len(more(size, len)) - 3), text)
                    /\ Len(more(size, len)) = size => Straddled(size - 4)
             Fixed(size) ==
               IF Straddled(size - 1) THEN fixed(size) = [rv |-> size, out |-> text]
               ELSE IsCut(fixed(size).out, size - 1) /\ fixed(size).rv = Len(fixed(size).out)
                      /\ fixed(size).rv < size
             AllCut(size, len) ==
               /\ IsCut(cut(size, len), CutLen(size, len))
               /\ Len(cut(size, len)) >= size <=> CutLen(size, len) = size - 1 /\ Straddled(size - 1)
               /\ Len(text) <= CutLen(size, len) => more(size, len) = text
               /\ Len(text) > CutLen(size, len) =>
                    /\ IsSuffix(dots, more(size, len)) /\ Len(more(size, len)) <= size
                    /\ Between(text, Len(more(size, len)) - 3)
                         /\ IsPrefix(SubSeq(more(size, len), 1, Len(more(size, len)) - 3), text)
                    /\ Len(more(size, len)) = size => Straddled(size - 4)
               /\ Fixed(size)
  <2> SUFFICES ASSUME TextInv
               PROVE  WholeCharacters(text) => \A size \in 5..Room, len \in 1..Room : AllCut(size, len)
    BY Zenon DEF CutsBetweenCharacters
  <2> HIDE DEF AllCut
  <2> SUFFICES ASSUME WholeCharacters(text), NEW size \in 5..Room, NEW len \in 1..Room
               PROVE  AllCut(size, len)
    OBVIOUS
  <2>16. ASSUME Plain(size, len), Dotted(size, len), Fixed(size) PROVE AllCut(size, len)
    <3> HIDE DEF dots, fixed, cut, more, IsCut, Straddled, Fixed
    <3> QED BY <2>16, Zenon DEF AllCut
  <2> DEFINE a == CutLen(size, len)
             L == Len(text)
             P(n) == SubSeq(text, 1, n)
  <2>1. text \in Seq(Bytes) /\ L \in Nat /\ size \in Nat /\ size >= 5 /\ len \in Nat /\ len >= 1
    BY LenProperties, TemplateTextAssumption DEF TextInv
  <2>2. a \in Nat /\ a <= size - 1 /\ a >= 1
    BY <2>1 DEF CutLen
  <2>3. ASSUME NEW n \in Nat
        PROVE  /\ CutPlace(text, n) \in 0..L /\ Between(text, CutPlace(text, n))
               /\ L <= n => CutPlace(text, n) = L
               /\ L > n => CutPlace(text, n) \in {n, n + 1}
               /\ CutPlace(text, n) = n + 1 <=> Straddled(n)
    BY <2>1, CutPlaceIs
  <2>4. ASSUME NEW n \in 0..L
        PROVE  P(n) \in Seq(Bytes) /\ Len(P(n)) = n /\ IsPrefix(P(n), text) /\ (n = L => P(n) = text)
    BY <2>1, PrefixIs
  <2>5. ASSUME NEW n \in Nat PROVE Prefix(text, n) = P(CutPlace(text, n))
    BY <2>1, CutAtIs DEF Prefix
  <2> HIDE DEF a, L, P, Straddled
  <2>6. ASSUME NEW n \in Nat
        PROVE  /\ IsCut(P(CutPlace(text, n)), n) /\ Len(P(CutPlace(text, n))) = CutPlace(text, n)
    <3> DEFINE c == CutPlace(text, n)
    <3>1. /\ c \in 0..L /\ Between(text, c) /\ (L <= n => c = L)
          /\ L > n => c \in {n, n + 1}
      BY <2>3
    <3> HIDE DEF c
    <3>2. Len(P(c)) = c /\ IsPrefix(P(c), text) /\ (c = L => P(c) = text)
      BY <2>4, <3>1
    <3>3. c = L \/ c \in {n, n + 1}
      BY <2>1, <3>1
    <3>4. IsCut(P(c), n) /\ Len(P(c)) = c
      <4> HIDE DEF P
      <4> QED BY <3>1, <3>2, <3>3
    <3> QED BY <3>4 DEF c
  <2>7. Plain(size, len)
    <3>1. cut(size, len) = P(CutPlace(text, a))
      BY <2>2, <2>5 DEF temp_cutdown, a
    <3>2. CutPlace(text, a) >= size <=> a = size - 1 /\ Straddled(size - 1)
      <4>1. /\ CutPlace(text, a) \in 0..L /\ (L <= a => CutPlace(text, a) = L)
            /\ L > a => CutPlace(text, a) \in {a, a + 1}
            /\ CutPlace(text, a) = a + 1 <=> Straddled(a)
        BY <2>2, <2>3
      <4>2. CutPlace(text, a) >= size <=> a = size - 1 /\ CutPlace(text, a) = a + 1
        BY <2>1, <2>2, <4>1
      <4> QED BY <4>1, <4>2
    <3>3. IsCut(cut(size, len), a) /\ Len(cut(size, len)) = CutPlace(text, a)
      BY <2>2, <2>6, <3>1
    <3> HIDE DEF cut, IsCut
    <3> QED BY <3>2, <3>3 DEF a
  <2>8. Dotted(size, len)
    <3> DEFINE kept == IF a + 3 > size - 1 THEN size - 4 ELSE a
    <3>1. more(size, len) = IF L <= a THEN Prefix(text, a) ELSE Prefix(text, kept) \o dots
      BY Zenon DEF temp_cutdown_with_more, a, L
    <3>2. kept \in Nat /\ kept <= a /\ kept <= size - 4
      BY <2>1, <2>2
    <3> HIDE DEF kept, more
    <3>3. ASSUME L <= a PROVE more(size, len) = text
      <4>1. CutPlace(text, a) = L /\ L \in 0..L
        BY <2>1, <2>2, <2>3, <3>3
      <4> QED BY <2>2, <2>4, <2>5, <3>1, <3>3, <4>1
    <3>4. ASSUME L > a
          PROVE  /\ IsSuffix(dots, more(size, len)) /\ Len(more(size, len)) <= size
                 /\ Between(text, Len(more(size, len)) - 3)
                 /\ IsPrefix(SubSeq(more(size, len), 1, Len(more(size, len)) - 3), text)
                 /\ Len(more(size, len)) = size => Straddled(size - 4)
      <4> DEFINE c == CutPlace(text, kept)
                 p == P(c)
      <4>1. /\ c \in 0..L /\ Between(text, c) /\ c \in {kept, kept + 1}
            /\ c = kept + 1 <=> Straddled(kept)
        <5>1. /\ c \in 0..L /\ Between(text, c) /\ (L > kept => c \in {kept, kept + 1})
              /\ c = kept + 1 <=> Straddled(kept)
          BY <2>3, <3>2
        <5>2. L > kept
          BY <2>1, <2>2, <3>2, <3>4
        <5> QED BY <5>1, <5>2
      <4>2. p \in Seq(Bytes) /\ Len(p) = c /\ IsPrefix(p, text)
        BY <2>4, <4>1
      <4>3. more(size, len) = p \o dots
        <5>1. ~(L <= a)
          BY <2>1, <2>2, <3>4
        <5>2. Prefix(text, kept) = P(c)
          BY <2>5, <3>2
        <5> HIDE DEF c, dots, P
        <5> QED BY <3>1, <5>1, <5>2
      <4>4. dots \in Seq(Bytes) /\ Len(dots) = 3
        <5>1. "." \in Bytes
          BY Zenon DEF Bytes
        <5>2. <<".", ".", ".">> \in Seq(Bytes) /\ Len(<<".", ".", ".">>) = 3
          BY ONLY <5>1, ThreeOf, Zenon
        <5> QED BY ONLY <5>2, Zenon DEF dots
      <4> HIDE DEF dots, c, p
      <4>5. IsSuffix(dots, more(size, len))
        BY <4>2, <4>3, <4>4, SuffixIs
      <4>6. /\ more(size, len) \in Seq(Bytes) /\ Len(more(size, len)) = c + 3
            /\ \A i \in 1..c : more(size, len)[i] = p[i]
        <5>1. /\ p \o dots \in Seq(Bytes) /\ Len(p \o dots) = Len(p) + Len(dots)
              /\ \A i \in 1..(Len(p) + Len(dots)) :
                   (p \o dots)[i] = IF i <= Len(p) THEN p[i] ELSE dots[i - Len(p)]
          BY <4>2, <4>4, ConcatProperties
        <5>2. c \in Nat /\ Len(p) = c /\ Len(dots) = 3 /\ \A i \in 1..c : i \in 1..(c + 3) /\ i <= c
          BY <2>1, <4>1, <4>2, <4>4
        <5> QED BY <4>3, <5>1, <5>2
      <4>7. SubSeq(more(size, len), 1, c) = p
        <5>1. c \in 0..Len(more(size, len)) /\ c \in Nat
          BY <2>1, <4>1, <4>6
        <5>2. /\ SubSeq(more(size, len), 1, c) \in Seq(Bytes)
              /\ Len(SubSeq(more(size, len), 1, c)) = c
              /\ \A i \in 1..c : SubSeq(more(size, len), 1, c)[i] = more(size, len)[i]
          BY <4>6, <5>1, PrefixIs
        <5> QED BY <4>2, <4>6, <5>1, <5>2, SeqEqual
      <4>8. Len(more(size, len)) - 3 = c
        BY <2>1, <4>1, <4>6
      <4>9. Len(more(size, len)) <= size /\ (Len(more(size, len)) = size => Straddled(size - 4))
        <5>1. c + 3 = size => kept = size - 4 /\ c = kept + 1
          BY <2>1, <3>2, <4>1
        <5>2. c + 3 <= size
          BY <2>1, <3>2, <4>1
        <5> QED BY <4>1, <4>6, <5>1, <5>2
      <4> QED BY <4>1, <4>2, <4>5, <4>7, <4>8, <4>9
    <3> QED BY <3>3, <3>4 DEF a, L
  <2>9. Fixed(size)
    <3> DEFINE c == CutPlace(text, size - 1)
               out == IF c > size - 1 THEN text ELSE P(c)
    <3>1. size - 1 \in Nat /\ size - 1 + 1 = size
      BY <2>1
    <3>2. fixed(size) = [rv |-> c, out |-> out]
      BY <2>1, FixstringIs DEF P
    <3>3. IsCut(P(c), size - 1) /\ Len(P(c)) = c /\ c \in Nat
      <4>1. c \in 0..L
        BY <2>3, <3>1
      <4>2. IsCut(P(c), size - 1) /\ Len(P(c)) = c
        <5> HIDE DEF IsCut
        <5> QED BY <2>6, <3>1
      <4> QED BY <2>1, <4>1, <4>2
    <3>4. IF Straddled(size - 1) THEN c = size ELSE c <= size - 1
      <4>1. /\ c \in 0..L /\ (L <= size - 1 => c = L)
            /\ L > size - 1 => c \in {size - 1, size - 1 + 1}
            /\ c = size - 1 + 1 <=> Straddled(size - 1)
        BY <2>3, <3>1
      <4> HIDE DEF c
      <4> QED BY <2>1, <3>1, <4>1
    <3> HIDE DEF IsCut, c, fixed
    <3>5. CASE Straddled(size - 1)
      <4>1. c > size - 1 /\ c = size
        BY <2>1, <3>4, <3>5
      <4> QED BY <3>2, <3>5, <4>1
    <3>6. CASE ~Straddled(size - 1)
      <4>1. ~(c > size - 1) /\ c < size
        BY <2>1, <3>3, <3>4, <3>6
      <4>2. fixed(size).out = P(c) /\ fixed(size).rv = c
        BY <3>2, <4>1
      <4> QED BY <3>3, <3>6, <4>1, <4>2
    <3> QED BY <3>5, <3>6
  <2> HIDE DEF Plain, Dotted, Fixed
  <2> QED BY <2>7, <2>8, <2>9, <2>16
<1> QED BY <1>1, TextInvariant, PTL

(***************************************************************************)
(* Encoding and decoding for XML.                                          *)
(***************************************************************************)
Brackets == {"<", ">", "\"", "'"}

Name(c) == IF c \in DOMAIN XmlName THEN XmlName[c] ELSE <<c>>

\* How much longer a byte's name is.
Extra(c) == CASE c \in {"<", ">"} -> 3 [] c \in {"&", "'"} -> 4 [] c = "\"" -> 5 [] OTHER -> 0

LEMMA NamedBytes ==
  /\ DOMAIN XmlName = {"<", ">", "\"", "'", "&"}
  /\ XmlName["<"] = <<"&", "l", "t", ";">> /\ XmlName[">"] = <<"&", "g", "t", ";">>
  /\ XmlName["\""] = <<"&", "q", "u", "o", "t", ";">>
  /\ XmlName["'"] = <<"&", "#", "3", "9", ";">> /\ XmlName["&"] = <<"&", "a", "m", "p", ";">>
BY DEF XmlName

LEMMA NameBytes ==
  {"&", "l", "t", ";", "g", "q", "u", "o", "#", "3", "9", "a", "m", "p"} \subseteq Bytes \ Brackets
<1>1. {"&", "l", "t", ";", "g", "q", "u", "o", "#", "3", "9", "a", "m", "p"} \subseteq Bytes
  BY Zenon DEF Bytes
<1> QED BY <1>1 DEF Brackets

\* A name starts with an ampersand, and its second byte tells which it is.
LEMMA NameIs ==
  ASSUME NEW c \in Bytes
  PROVE  /\ Name(c) \in Seq(Bytes) /\ Name(c) \in Seq(Bytes \ Brackets)
         /\ Len(Name(c)) = 1 + Extra(c) /\ Extra(c) \in Nat
         /\ c \in DOMAIN XmlName =>
              /\ Len(Name(c)) >= 2 /\ Name(c)[1] = "&"
              /\ \A d \in DOMAIN XmlName : d # c => Name(d)[2] # Name(c)[2]
<1> DEFINE W == Bytes \ Brackets
<1>1. /\ "&" \in W /\ "l" \in W /\ "t" \in W /\ ";" \in W /\ "g" \in W /\ "q" \in W /\ "u" \in W
      /\ "o" \in W /\ "#" \in W /\ "3" \in W /\ "9" \in W /\ "a" \in W /\ "m" \in W /\ "p" \in W
  <2> HIDE DEF W
  <2> QED BY NameBytes DEF W
<1>2. \A s \in Seq(W) : s \in Seq(Bytes)
  <2>1. W \subseteq Bytes
    OBVIOUS
  <2> HIDE DEF W
  <2> QED BY <2>1
<1> HIDE DEF W
<1>3. /\ Name("<") = <<"&", "l", "t", ";">> /\ Name(">") = <<"&", "g", "t", ";">>
      /\ Name("\"") = <<"&", "q", "u", "o", "t", ";">>
      /\ Name("'") = <<"&", "#", "3", "9", ";">> /\ Name("&") = <<"&", "a", "m", "p", ";">>
  BY NamedBytes DEF Name
<1>4. CASE c \notin DOMAIN XmlName
  <2>1. Name(c) = <<c>> /\ Extra(c) = 0 /\ c \in W
    BY <1>4, NamedBytes DEF Name, Extra, W, Brackets
  <2>2. Name(c) \in Seq(W) /\ Len(Name(c)) = 1
    BY <2>1
  <2> QED BY <1>2, <1>4, <2>1, <2>2 DEF W
<1>5. /\ Name("<") \in Seq(W) /\ Len(Name("<")) = 4 /\ Name("<")[1] = "&" /\ Name("<")[2] = "l"
      /\ Name(">") \in Seq(W) /\ Len(Name(">")) = 4 /\ Name(">")[1] = "&" /\ Name(">")[2] = "g"
  <2>1. <<"&", "l", "t", ";">> \in Seq(W) /\ Len(<<"&", "l", "t", ";">>) = 4
        /\ <<"&", "l", "t", ";">>[1] = "&" /\ <<"&", "l", "t", ";">>[2] = "l"
    BY <1>1, FourOf, Zenon
  <2>2. <<"&", "g", "t", ";">> \in Seq(W) /\ Len(<<"&", "g", "t", ";">>) = 4
        /\ <<"&", "g", "t", ";">>[1] = "&" /\ <<"&", "g", "t", ";">>[2] = "g"
    BY <1>1, FourOf, Zenon
  <2> QED BY <1>3, <2>1, <2>2, Zenon
<1>6. /\ Name("'") \in Seq(W) /\ Len(Name("'")) = 5 /\ Name("'")[1] = "&" /\ Name("'")[2] = "#"
      /\ Name("&") \in Seq(W) /\ Len(Name("&")) = 5 /\ Name("&")[1] = "&" /\ Name("&")[2] = "a"
  <2>1. <<"&", "#", "3", "9", ";">> \in Seq(W) /\ Len(<<"&", "#", "3", "9", ";">>) = 5
        /\ <<"&", "#", "3", "9", ";">>[1] = "&" /\ <<"&", "#", "3", "9", ";">>[2] = "#"
    BY <1>1, FiveOf, Zenon
  <2>2. <<"&", "a", "m", "p", ";">> \in Seq(W) /\ Len(<<"&", "a", "m", "p", ";">>) = 5
        /\ <<"&", "a", "m", "p", ";">>[1] = "&" /\ <<"&", "a", "m", "p", ";">>[2] = "a"
    BY <1>1, FiveOf, Zenon
  <2> QED BY <1>3, <2>1, <2>2, Zenon
<1>7. Name("\"") \in Seq(W) /\ Len(Name("\"")) = 6 /\ Name("\"")[1] = "&" /\ Name("\"")[2] = "q"
  <2>1. <<"&", "q", "u", "o", "t", ";">> \in Seq(W) /\ Len(<<"&", "q", "u", "o", "t", ";">>) = 6
        /\ <<"&", "q", "u", "o", "t", ";">>[1] = "&" /\ <<"&", "q", "u", "o", "t", ";">>[2] = "q"
    BY <1>1, SixOf, Zenon
  <2> QED BY <1>3, <2>1, Zenon
<1>9. Extra("<") = 3 /\ Extra(">") = 3 /\ Extra("'") = 4 /\ Extra("&") = 4 /\ Extra("\"") = 5
  BY DEF Extra
<1>8. CASE c \in DOMAIN XmlName
  <2>1. Name(c) \in Seq(W) /\ Len(Name(c)) = 1 + Extra(c) /\ Extra(c) \in {3, 4, 5}
    <3>1. c \in {"<", ">", "\"", "'", "&"}
      BY <1>8, NamedBytes
    <3>2. c = "<" \/ c = ">" => Name(c) \in Seq(W) /\ Len(Name(c)) = 4 /\ Extra(c) = 3
      BY <1>5, <1>9
    <3>3. c = "'" \/ c = "&" => Name(c) \in Seq(W) /\ Len(Name(c)) = 5 /\ Extra(c) = 4
      BY <1>6, <1>9
    <3>4. c = "\"" => Name(c) \in Seq(W) /\ Len(Name(c)) = 6 /\ Extra(c) = 5
      BY <1>7, <1>9
    <3>5. /\ Name(c) \in Seq(W)
          /\ \/ Len(Name(c)) = 4 /\ Extra(c) = 3
             \/ Len(Name(c)) = 5 /\ Extra(c) = 4
             \/ Len(Name(c)) = 6 /\ Extra(c) = 5
      BY <3>1, <3>2, <3>3, <3>4, Zenon
    <3>6. 4 = 1 + 3 /\ 5 = 1 + 4 /\ 6 = 1 + 5
      OBVIOUS
    <3> QED BY <3>5, <3>6, Zenon
  <2>2. \A d \in DOMAIN XmlName : Name(d)[1] = "&"
    BY <1>5, <1>6, <1>7, NamedBytes
  <2>3. \A d \in DOMAIN XmlName : d # c => Name(d)[2] # Name(c)[2]
    BY <1>5, <1>6, <1>7, <1>8, NamedBytes
  <2> QED BY <1>2, <1>8, <2>1, <2>2, <2>3 DEF W
<1> QED BY <1>4, <1>8

\* Where the names of s stand in e.
NamePlaces(s, e, at) ==
  /\ at \in [0..Len(s) -> Nat] /\ at[0] = 0
  /\ \A i \in 1..Len(s) : /\ at[i] = at[i - 1] + Len(Name(s[i])) /\ at[i] <= Len(e)
                          /\ \A k \in 1..Len(Name(s[i])) : e[at[i - 1] + k] = Name(s[i])[k]
  /\ Len(e) = at[Len(s)]

LEMMA EncodedIs ==
  ASSUME NEW s \in Seq(Bytes)
  PROVE  /\ Encoded(s) \in Seq(Bytes) /\ Range(Encoded(s)) \cap Brackets = {}
         /\ \E at : NamePlaces(s, Encoded(s), at)
<1> DEFINE W == Bytes \ Brackets
           seqs == [i \in DOMAIN s |-> Name(s[i])]
<1>1. Len(s) \in Nat /\ DOMAIN s = 1..Len(s) /\ \A i \in 1..Len(s) : s[i] \in Bytes
  BY LenProperties, ElementOfSeq
<1>2. seqs \in Seq(Seq(Bytes)) /\ seqs \in Seq(Seq(W)) /\ Len(seqs) = Len(s)
  <2>1. \A i \in 1..Len(s) : Name(s[i]) \in Seq(Bytes) /\ Name(s[i]) \in Seq(W)
    BY <1>1, NameIs
  <2>2. seqs \in [1..Len(s) -> Seq(Bytes)] /\ seqs \in [1..Len(s) -> Seq(W)]
    BY <1>1, <2>1
  <2> HIDE DEF seqs, W
  <2> QED BY <1>1, <2>2, FunctionIsSeq
<1>3. Encoded(s) = FlattenSeq(seqs)
  BY Zenon DEF Encoded, Name
<1>4. \A i \in 1..Len(s) : seqs[i] = Name(s[i])
  BY <1>1
<1> HIDE DEF seqs, W
<1>5. Encoded(s) \in Seq(Bytes) /\ Encoded(s) \in Seq(W)
  BY <1>2, <1>3, FlattenTyped
<1>6. Range(Encoded(s)) \cap Brackets = {}
  <2>1. Range(Encoded(s)) \subseteq W
    <3>1. \A i \in DOMAIN Encoded(s) : Encoded(s)[i] \in W
      BY <1>5
    <3> QED BY <3>1, Zenon DEF Range
  <2> QED BY <2>1 DEF W
<1>7. PICK at : Joined(seqs, at)
  BY <1>2, FlattenJoins
<1>8. /\ at \in [0..Len(s) -> Nat] /\ at[0] = 0
      /\ \A i \in 1..Len(s) : at[i] = at[i - 1] + Len(Name(s[i]))
      /\ \A i \in 1..Len(s) : \A k \in 1..Len(Name(s[i])) : Encoded(s)[at[i - 1] + k] = Name(s[i])[k]
      /\ Len(Encoded(s)) = at[Len(s)]
      /\ \A i \in 0..Len(s) : at[i] <= at[Len(s)]
  <2>1. /\ at \in [0..Len(seqs) -> Nat] /\ at[0] = 0
        /\ \A i \in 1..Len(seqs) : at[i] = at[i - 1] + Len(seqs[i])
        /\ Len(FlattenSeq(seqs)) = at[Len(seqs)]
        /\ \A i \in 0..Len(seqs) : at[i] <= at[Len(seqs)]
    BY <1>7, Zenon DEF Joined
  <2>2. ASSUME NEW i \in 1..Len(seqs), NEW k \in 1..Len(seqs[i])
        PROVE  FlattenSeq(seqs)[at[i - 1] + k] = seqs[i][k]
    BY <1>7, Zenon DEF Joined
  <2>3. \A i \in 1..Len(s) : \A k \in 1..Len(Name(s[i])) : Encoded(s)[at[i - 1] + k] = Name(s[i])[k]
    BY <1>2, <1>3, <1>4, <2>2
  <2>4. \A i \in 1..Len(s) : at[i] = at[i - 1] + Len(Name(s[i]))
    BY <1>2, <1>4, <2>1
  <2> QED BY <1>2, <1>3, <2>1, <2>3, <2>4
<1>9. \A i \in 1..Len(s) : i \in 0..Len(s)
  OBVIOUS
<1>10. NamePlaces(s, Encoded(s), at)
  BY <1>8, <1>9 DEF NamePlaces
<1> QED BY <1>5, <1>6, <1>10

\* Read from the left, names give back the bytes they stand for.
LEMMA DecodedIs ==
  ASSUME NEW s \in Seq(Bytes), NEW e \in Seq(Bytes), NEW at, NamePlaces(s, e, at)
  PROVE  Decoded(e) = s
<1> DEFINE Named(i) == {c \in DOMAIN XmlName : IsPrefix(XmlName[c], SubSeq(e, i, Len(e)))}
           Step(f) == [i \in Nat |->
             IF i > Len(e) THEN <<>>
             ELSE IF Named(i) = {} THEN <<e[i]>> \o f[i + 1]
             ELSE LET c == CHOOSE c \in Named(i) : TRUE IN <<c>> \o f[i + Len(XmlName[c])]]
           From[i \in Nat] ==
             IF i > Len(e) THEN <<>>
             ELSE IF Named(i) = {} THEN <<e[i]>> \o From[i + 1]
             ELSE LET c == CHOOSE c \in Named(i) : TRUE IN <<c>> \o From[i + Len(XmlName[c])]
           tok == [i \in Nat |-> IF Named(i) = {} THEN e[i] ELSE CHOOSE c \in Named(i) : TRUE]
           step == [i \in Nat |-> IF Named(i) = {} THEN 1
                                  ELSE Len(XmlName[CHOOSE c \in Named(i) : TRUE])]
           V == {tok[i] : i \in Nat}
<1>1. Len(s) \in Nat /\ Len(e) \in Nat /\ \A i \in 1..Len(s) : s[i] \in Bytes
  BY LenProperties, ElementOfSeq
<1>2. \A c \in DOMAIN XmlName : /\ Name(c) = XmlName[c] /\ XmlName[c] \in Seq(Bytes)
                                /\ Len(XmlName[c]) \in Nat \ {0, 1} /\ XmlName[c][1] = "&"
  <2>1. ASSUME NEW c \in DOMAIN XmlName
        PROVE  /\ Name(c) = XmlName[c] /\ XmlName[c] \in Seq(Bytes)
               /\ Len(XmlName[c]) \in Nat \ {0, 1} /\ XmlName[c][1] = "&"
    <3>1. c \in Bytes
      BY NamedBytes, Zenon DEF Bytes
    <3>2. Name(c) = XmlName[c]
      BY DEF Name
    <3>3. /\ Name(c) \in Seq(Bytes) /\ Len(Name(c)) >= 2 /\ Name(c)[1] = "&"
      BY <3>1, NameIs
    <3>4. Len(Name(c)) \in Nat
      BY <3>3, LenProperties
    <3>5. \A n \in Nat : n >= 2 => n \in Nat \ {0, 1}
      OBVIOUS
    <3> QED BY <3>2, <3>3, <3>4, <3>5
  <2> QED BY <2>1
<1>3. ASSUME NEW i \in Nat, 1 <= i, i <= Len(e)
      PROVE  Named(i) = {c \in DOMAIN XmlName :
                           /\ i + Len(XmlName[c]) - 1 <= Len(e)
                           /\ \A k \in 1..Len(XmlName[c]) : e[i + k - 1] = XmlName[c][k]}
  <2>1. ASSUME NEW c \in DOMAIN XmlName
        PROVE  IsPrefix(XmlName[c], SubSeq(e, i, Len(e)))
                 <=> /\ i + Len(XmlName[c]) - 1 <= Len(e)
                     /\ \A k \in 1..Len(XmlName[c]) : e[i + k - 1] = XmlName[c][k]
    BY <1>2, <1>3, PrefixAt
  <2> QED BY <2>1
<1> HIDE DEF Named
<1>4. tok \in [Nat -> V] /\ step \in [Nat -> Nat \ {0}]
  <2>1. tok \in [Nat -> V]
    OBVIOUS
  <2>2. ASSUME NEW i \in Nat, Named(i) # {}
        PROVE  Len(XmlName[CHOOSE c \in Named(i) : TRUE]) \in Nat \ {0}
    <3>1. (CHOOSE c \in Named(i) : TRUE) \in Named(i)
      BY <2>2
    <3>2. Named(i) \subseteq DOMAIN XmlName
      BY Zenon DEF Named
    <3> QED BY <1>2, <3>1, <3>2
  <2> QED BY <2>1, <2>2
<1>5. ASSUME NEW f, Reads(f, tok, step, Len(e))
      PROVE  \A i \in Nat : f[i] = Step(f)[i]
  <2>1. SUFFICES ASSUME NEW i \in Nat PROVE f[i] = Step(f)[i]
    OBVIOUS
  <2>2. f[i] = IF i > Len(e) THEN <<>> ELSE <<tok[i]>> \o f[i + step[i]]
    BY <1>5, Zenon DEF Reads
  <2>3. CASE Named(i) = {}
    BY <2>2, <2>3
  <2>4. CASE Named(i) # {}
    BY <2>2, <2>4
  <2> QED BY <2>3, <2>4
<1>6. \E f : f = Step(f)
  <2> DEFINE len == Len(e)
  <2>1. PICK f : f \in [Nat -> Seq(V)] /\ Reads(f, tok, step, len)
    <3>1. len \in Nat
      BY <1>1
    <3> HIDE DEF tok, step, V, len
    <3> QED BY <1>4, <3>1, ReadsExists
  <2>2. \A i \in Nat : f[i] = Step(f)[i]
    <3> HIDE DEF tok, step, V, Step
    <3> QED BY <1>5, <2>1
  <2>3. f = [i \in Nat |-> f[i]] /\ Step(f) = [i \in Nat |-> Step(f)[i]]
    BY <2>1
  <2>4. f = Step(f)
    <3> HIDE DEF Step
    <3> QED BY <2>2, <2>3
  <2> HIDE DEF Step
  <2> QED BY <2>4
<1>7. From = Step(From)
  BY <1>6, Zenon
<1>8. Decoded(e) = From[1]
  BY Zenon DEF Decoded, Named
<1> HIDE DEF From
<1>9. Reads(From, tok, step, Len(e))
  <2>1. ASSUME NEW i \in Nat
        PROVE  From[i] = IF i > Len(e) THEN <<>> ELSE <<tok[i]>> \o From[i + step[i]]
    <3>1. From[i] = Step(From)[i]
      BY <1>7, Zenon
    <3>2. CASE Named(i) = {}
      BY <3>1, <3>2
    <3>3. CASE Named(i) # {}
      BY <3>1, <3>3
    <3> QED BY <3>2, <3>3
  <2> QED BY <2>1, Zenon DEF Reads
<1>10. ASSUME NEW i \in 1..Len(s)
       PROVE  /\ at[i - 1] < at[i] /\ tok[at[i - 1] + 1] = s[i]
              /\ step[at[i - 1] + 1] = at[i] - at[i - 1]
  <2> DEFINE p == at[i - 1] + 1
             c == s[i]
  <2>1. /\ at[i - 1] \in Nat /\ at[i] \in Nat
        /\ at[i] = at[i - 1] + Len(Name(c)) /\ at[i] <= Len(e)
        /\ \A k \in 1..Len(Name(c)) : e[at[i - 1] + k] = Name(c)[k]
    <3>1. i \in 0..Len(s) /\ i - 1 \in 0..Len(s)
      BY <1>1
    <3> QED BY <3>1 DEF NamePlaces
  <2>2. c \in Bytes
    BY <1>1
  <2> HIDE DEF c
  <2>3. Len(Name(c)) \in Nat /\ Len(Name(c)) >= 1
    BY <2>2, NameIs
  <2>4. p \in Nat /\ 1 <= p /\ p <= Len(e) /\ p + Len(Name(c)) - 1 = at[i] /\ at[i - 1] < at[i]
    BY <1>1, <2>1, <2>3
  <2>5. \A k \in 1..Len(Name(c)) : e[p + k - 1] = Name(c)[k]
    <3>1. \A k \in 1..Len(Name(c)) : p + k - 1 = at[i - 1] + k
      BY <2>1
    <3> QED BY <2>1, <3>1
  <2> HIDE DEF p
  <2>6. CASE c \in DOMAIN XmlName
    <3>1. Name(c) = XmlName[c]
      BY <1>2, <2>6
    <3>2. c \in Named(p)
      BY <1>3, <2>1, <2>4, <2>5, <2>6, <3>1, SMTT(30)
    <3>3. ASSUME NEW d \in Named(p) PROVE d = c
      <4>1. d \in DOMAIN XmlName /\ \A k \in 1..Len(XmlName[d]) : e[p + k - 1] = XmlName[d][k]
        BY <1>3, <2>4
      <4>2. 2 \in 1..Len(XmlName[d]) /\ 2 \in 1..Len(XmlName[c])
        <5>1. Len(XmlName[d]) \in Nat \ {0, 1} /\ Len(XmlName[c]) \in Nat \ {0, 1}
          BY <1>2, <2>6, <4>1
        <5>2. \A n \in Nat \ {0, 1} : 2 \in 1..n
          OBVIOUS
        <5> QED BY <5>1, <5>2
      <4>3. XmlName[d][2] = XmlName[c][2]
        BY <2>5, <3>1, <4>1, <4>2
      <4>4. Name(d)[2] = Name(c)[2]
        BY <1>2, <2>6, <4>1, <4>3
      <4> QED BY <2>2, <2>6, <4>1, <4>4, NameIs
    <3>4. Named(p) # {} /\ (CHOOSE x \in Named(p) : TRUE) = c
      BY <3>2, <3>3
    <3>5. tok[p] = c /\ step[p] = Len(XmlName[c])
      BY <2>4, <3>4
    <3>6. step[p] = at[i] - at[i - 1]
      BY <2>1, <2>3, <3>1, <3>5
    <3> QED BY <2>4, <3>5, <3>6 DEF p, c
  <2>7. CASE c \notin DOMAIN XmlName
    <3>1. Name(c) = <<c>>
      BY <2>7 DEF Name
    <3>2. e[p] = c /\ at[i] - at[i - 1] = 1
      <4>1. 1 \in 1..Len(Name(c)) /\ Len(Name(c)) = 1 /\ Name(c)[1] = c
        BY <3>1
      <4>2. p + 1 - 1 = p
        BY <2>4
      <4> QED BY <2>1, <2>5, <4>1, <4>2
    <3>3. Named(p) = {}
      <4>1. SUFFICES ASSUME NEW d \in Named(p) PROVE FALSE
        OBVIOUS
      <4>2. d \in DOMAIN XmlName /\ \A k \in 1..Len(XmlName[d]) : e[p + k - 1] = XmlName[d][k]
        BY <1>3, <2>4
      <4>3. 1 \in 1..Len(XmlName[d]) /\ XmlName[d][1] = "&" /\ p + 1 - 1 = p
        BY <1>2, <2>4, <4>2
      <4>4. e[p] = "&"
        BY <4>2, <4>3
      <4> QED BY <2>7, <3>2, <4>4, NamedBytes
    <3>4. tok[p] = c /\ step[p] = 1
      BY <2>4, <3>2, <3>3
    <3> QED BY <2>4, <3>2, <3>4 DEF p, c
  <2> QED BY <2>6, <2>7
<1>11. From[1] = s
  <2> DEFINE len == Len(e)
  <2>1. len \in Nat /\ at \in [0..Len(s) -> Nat] /\ at[0] = 0 /\ at[Len(s)] = len
    BY <1>1 DEF NamePlaces
  <2> HIDE DEF len, tok, step
  <2>2. Reads(From, tok, step, len)
    BY <1>9 DEF len
  <2>3. Tells(s, at, tok, step, len)
    BY <1>10, <2>1, Zenon DEF Tells
  <2> QED BY <2>1, <2>2, <2>3, ReadBack
<1> QED BY <1>8, <1>11

\* What XMLEncode counts before it writes.
LEMMA NeedIs ==
  ASSUME NEW s \in Seq(Bytes), NEW at, NamePlaces(s, Encoded(s), at)
  PROVE  Len(s) + FoldLeft(LAMBDA sum, c :
           sum + CASE c \in {"<", ">"} -> 3 [] c \in {"&", "'"} -> 4 [] c = "\"" -> 5 [] OTHER -> 0,
           0, s) = Len(Encoded(s))
<1> DEFINE n == Len(s)
           w == [i \in 1..n |-> Extra(s[i])]
           t == [i \in 0..n |-> at[i] - i]
           iter[S \in SUBSET DOMAIN s] ==
             IF S = {} THEN 0
             ELSE LET x == Max(S) IN iter[S \ {x}] + (CASE s[x] \in {"<", ">"} -> 3
               [] s[x] \in {"&", "'"} -> 4 [] s[x] = "\"" -> 5 [] OTHER -> 0)
           sum == FoldLeft(LAMBDA total, c :
             total + CASE c \in {"<", ">"} -> 3 [] c \in {"&", "'"} -> 4 [] c = "\"" -> 5 [] OTHER -> 0,
             0, s)
<1>1. n \in Nat /\ DOMAIN s = 1..n /\ \A i \in 1..n : s[i] \in Bytes
  BY LenProperties, ElementOfSeq
<1>2. \A i \in 1..n : Len(Name(s[i])) = 1 + Extra(s[i]) /\ Extra(s[i]) \in Nat /\ w[i] = Extra(s[i])
  BY <1>1, NameIs
<1>3. sum = iter[DOMAIN s]
  BY Zenon DEF FoldLeft, MapThenFoldSet
<1>4. Summing(iter, n, w)
  <2>1. \E f : Summing(f, n, w)
    <3> HIDE DEF w, n
    <3> QED BY <1>1, <1>2, SumExists
  <2> DEFINE Step(f) == [S \in SUBSET DOMAIN s |->
               IF S = {} THEN 0
               ELSE LET x == Max(S) IN f[S \ {x}] + (CASE s[x] \in {"<", ">"} -> 3
                 [] s[x] \in {"&", "'"} -> 4 [] s[x] = "\"" -> 5 [] OTHER -> 0)]
  <2>2. ASSUME NEW f
        PROVE  Step(f) = [S \in SUBSET (1..n) |-> IF S = {} THEN 0 ELSE f[S \ {Max(S)}] + w[Max(S)]]
    <3>1. ASSUME NEW S \in SUBSET (1..n), S # {} PROVE w[Max(S)] = Extra(s[Max(S)])
      <4>1. S \in SUBSET (0..n)
        BY <1>1
      <4>2. Max(S) \in S
        BY <1>1, <3>1, <4>1, MaxOf
      <4> QED BY <4>2
    <3>2. \A S \in SUBSET (1..n) : Step(f)[S] = IF S = {} THEN 0 ELSE f[S \ {Max(S)}] + Extra(s[Max(S)])
      BY <1>1 DEF Extra
    <3>3. \A S \in SUBSET (1..n) : Step(f)[S] = IF S = {} THEN 0 ELSE f[S \ {Max(S)}] + w[Max(S)]
      <4> HIDE DEF Step, w
      <4> QED BY <3>1, <3>2
    <3>4. Step(f) = [S \in SUBSET (1..n) |-> Step(f)[S]]
      BY <1>1
    <3> HIDE DEF Step, w
    <3> QED BY <3>3, <3>4
  <2>3. \E f : f = Step(f)
    <3> HIDE DEF Step, w
    <3> QED BY <2>1, <2>2 DEF Summing
  <2>4. iter = Step(iter)
    BY <2>3, Zenon
  <2> HIDE DEF iter, Step, w
  <2> QED BY <2>2, <2>4 DEF Summing
<1>5. at \in [0..n -> Nat] /\ at[0] = 0 /\ Len(Encoded(s)) = at[n]
      /\ \A i \in 1..n : at[i] = at[i - 1] + Len(Name(s[i]))
  BY DEF NamePlaces
<1>6. t[0] = 0 /\ t[n] = at[n] - n /\ \A i \in 1..n : t[i] = t[i - 1] + w[i]
  <2>1. \A i \in 1..n : i \in 0..n /\ i - 1 \in 0..n
    BY <1>1
  <2>2. ASSUME NEW i \in 1..n PROVE t[i] = t[i - 1] + w[i]
    <3>1. t[i] = at[i] - i /\ t[i - 1] = at[i - 1] - (i - 1) /\ at[i - 1] \in Nat
      BY <1>5, <2>1
    <3>2. at[i] = at[i - 1] + (1 + w[i]) /\ w[i] \in Nat
      BY <1>2, <1>5
    <3> HIDE DEF t, w
    <3> QED BY <1>1, <3>1, <3>2
  <2>3. t[0] = 0
    <3>1. 0 \in 0..n
      BY <1>1
    <3>2. t[0] = at[0] - 0
      BY <3>1
    <3> QED BY <1>5, <3>2
  <2>4. t[n] = at[n] - n
    <3>1. n \in 0..n
      BY <1>1
    <3> QED BY <3>1
  <2> QED BY <2>2, <2>3, <2>4
<1>7. iter[1..n] = t[n]
  <2> HIDE DEF n, iter, w, t
  <2> QED BY <1>1, <1>4, <1>6, SumIs
<1>8. sum = at[n] - n
  <2> HIDE DEF sum, iter, t
  <2> QED BY <1>1, <1>3, <1>6, <1>7
<1>9. at[n] \in Nat
  BY <1>1, <1>5
<1>10. n + sum = Len(Encoded(s))
  <2> HIDE DEF sum, n
  <2> QED BY <1>1, <1>5, <1>8, <1>9
<1> QED BY <1>10, Zenon

\* XMLEncode and XMLDecode: whatever the text, what is encoded holds no
\* bracket and no quote and is as long as was counted, it decodes to the text,
\* and either is refused exactly in a buffer that it does not fit.
THEOREM XmlRoundTripHolds == Spec => []XmlRoundTrip
<1>1. TextInv => XmlRoundTrip
  <2> DEFINE need == Len(text) + FoldLeft(LAMBDA sum, c :
                       sum + CASE c \in {"<", ">"} -> 3 [] c \in {"&", "'"} -> 4
                               [] c = "\"" -> 5 [] OTHER -> 0, 0, text)
             e == Encoded(text)
             L == Len(text)
             Back(out) == text # <<>> => /\ XMLDecode(out, Len(text) + 1).out = text
                                         /\ XMLDecode(out, Len(text)) = Refused
             Trip(size) ==
               IF need >= size THEN XMLEncode(text, size) = Refused
               ELSE /\ XMLEncode(text, size).rv = need
                    /\ Range(XMLEncode(text, size).out) \cap {"<", ">", "\"", "'"} = {}
                    /\ Back(XMLEncode(text, size).out)
  <2> SUFFICES ASSUME TextInv, NEW size \in 2..(6 * MaxLen + 1) PROVE Trip(size)
    BY Zenon DEF XmlRoundTrip
  <2>1. text \in Seq(Bytes) /\ L \in Nat /\ (text # <<>> => L >= 1)
    <3>1. text \in Seq(Bytes)
      BY DEF TextInv
    <3> QED BY <3>1, LenProperties, EmptySeq
  <2>2. size \in Nat /\ size >= 2
    BY TemplateTextAssumption
  <2>3. e \in Seq(Bytes) /\ Range(e) \cap Brackets = {}
    BY <2>1, EncodedIs
  <2>4. PICK at : NamePlaces(text, e, at)
    BY <2>1, EncodedIs
  <2>5. need = Len(e)
    BY <2>1, <2>4, NeedIs, Zenon
  <2>6. Len(e) \in Nat
    BY <2>3, LenProperties
  <2>7. Decoded(e) = text
    BY <2>1, <2>3, <2>4, DecodedIs
  <2> HIDE DEF need, e, L
  <2>8. CASE need >= size
    <3>1. size - 1 < Len(e)
      BY <2>2, <2>5, <2>6, <2>8
    <3> QED BY <2>8, <3>1 DEF XMLEncode, WrittenWhole, e
  <2>9. CASE ~(need >= size)
    <3>1. XMLEncode(text, size) = [rv |-> Len(e), out |-> e]
      <4>1. ~(size < 2 \/ size - 1 < Len(e))
        BY <2>2, <2>5, <2>6, <2>9
      <4> QED BY <4>1 DEF XMLEncode, WrittenWhole, e
    <3>2. Back(e)
      <4>1. SUFFICES ASSUME text # <<>>
                     PROVE  XMLDecode(e, L + 1).out = text /\ XMLDecode(e, L) = Refused
        BY DEF L
      <4>2. ~(L + 1 < 2 \/ L + 1 - 1 < L) /\ L - 1 < L
        BY <2>1, <4>1
      <4>3. XMLDecode(e, L + 1) = [rv |-> L, out |-> text]
        BY <2>7, <4>2 DEF XMLDecode, WrittenWhole, L
      <4>4. XMLDecode(e, L) = Refused
        BY <2>7, <4>2 DEF XMLDecode, WrittenWhole, L
      <4> QED BY <4>3, <4>4
    <3>3. XMLEncode(text, size).rv = need /\ XMLEncode(text, size).out = e
      BY <2>5, <3>1
    <3> HIDE DEF Back
    <3> QED BY <2>3, <2>9, <3>2, <3>3 DEF Brackets
  <2> QED BY <2>8, <2>9
<1> QED BY <1>1, TextInvariant, PTL

(***************************************************************************)
(* Escaping in pieces.                                                     *)
(***************************************************************************)
Long == <<"\\", "u", "0", "0", "1", "f">>

\* An escape is the byte itself, a backslash and a byte that is no "u", or the
\* long one.
LEMMA EscapeIs ==
  ASSUME NEW c \in Bytes
  PROVE  /\ EscapeOf(c) \in Seq(Bytes) /\ Len(EscapeOf(c)) \in Nat \ {0}
         /\ \/ c # "\\" /\ EscapeOf(c) = <<c>> /\ Len(EscapeOf(c)) = 1
            \/ c = "ctl" /\ EscapeOf(c) = Long /\ Len(EscapeOf(c)) = 6
            \/ /\ Len(EscapeOf(c)) = 2 /\ EscapeOf(c)[1] = "\\" /\ EscapeOf(c)[2] # "u"
               /\ c = IF EscapeOf(c)[2] = "n" THEN "\n" ELSE EscapeOf(c)[2]
<1>1. "\\" \in Bytes /\ "n" \in Bytes /\ "u" \in Bytes /\ "0" \in Bytes /\ "1" \in Bytes /\ "f" \in Bytes
  BY Zenon DEF Bytes
<1>2. CASE c \in {"\\", "\""}
  <2>1. EscapeOf(c) = <<"\\", c>>
    BY <1>2 DEF EscapeOf
  <2>2. <<"\\", c>> \in Seq(Bytes) /\ Len(<<"\\", c>>) = 2 /\ <<"\\", c>>[1] = "\\" /\ <<"\\", c>>[2] = c
    BY <1>1, TwoOf, Zenon
  <2>3. c # "u" /\ c # "n"
    BY <1>2
  <2> QED BY <2>1, <2>2, <2>3
<1>3. CASE c = "\n"
  <2>1. EscapeOf(c) = <<"\\", "n">>
    BY <1>3 DEF EscapeOf
  <2>2. <<"\\", "n">> \in Seq(Bytes) /\ Len(<<"\\", "n">>) = 2
        /\ <<"\\", "n">>[1] = "\\" /\ <<"\\", "n">>[2] = "n"
    BY <1>1, TwoOf, Zenon
  <2> QED BY <1>3, <2>1, <2>2
<1>4. CASE c = "ctl"
  <2>1. EscapeOf(c) = Long
    BY <1>4 DEF EscapeOf, Long
  <2>2. Long \in Seq(Bytes) /\ Len(Long) = 6
    BY <1>1, SixOf, Zenon DEF Long
  <2>3. 6 \in Nat \ {0}
    OBVIOUS
  <2> QED BY <1>4, <2>1, <2>2, <2>3, Zenon
<1>5. CASE c \notin {"\\", "\"", "\n", "ctl"}
  <2>1. EscapeOf(c) = <<c>>
    BY <1>5 DEF EscapeOf
  <2>2. <<c>> \in Seq(Bytes) /\ Len(<<c>>) = 1
    BY OneOf, Zenon
  <2>3. 1 \in Nat \ {0}
    OBVIOUS
  <2>4. c # "\\"
    BY <1>5, Zenon
  <2> QED BY <2>1, <2>2, <2>3, <2>4, Zenon
<1> QED BY <1>2, <1>3, <1>4, <1>5

\* Where the escapes of s stand in e.
EscapePlaces(s, e, at) ==
  /\ at \in [0..Len(s) -> Nat] /\ at[0] = 0
  /\ \A i \in 1..Len(s) : /\ at[i] = at[i - 1] + Len(EscapeOf(s[i])) /\ at[i] <= Len(e)
                          /\ \A k \in 1..Len(EscapeOf(s[i])) : e[at[i - 1] + k] = EscapeOf(s[i])[k]
  /\ Len(e) = at[Len(s)]

LEMMA EscapedIs ==
  ASSUME NEW s \in Seq(Bytes)
  PROVE  Escaped(s) \in Seq(Bytes) /\ \E at : EscapePlaces(s, Escaped(s), at)
<1> DEFINE seqs == [i \in DOMAIN s |-> EscapeOf(s[i])]
<1>1. Len(s) \in Nat /\ DOMAIN s = 1..Len(s) /\ \A i \in 1..Len(s) : s[i] \in Bytes
  BY LenProperties, ElementOfSeq
<1>2. seqs \in Seq(Seq(Bytes)) /\ Len(seqs) = Len(s)
  <2>1. \A i \in 1..Len(s) : EscapeOf(s[i]) \in Seq(Bytes)
    BY <1>1, EscapeIs
  <2>2. seqs \in [1..Len(s) -> Seq(Bytes)]
    BY <1>1, <2>1
  <2> HIDE DEF seqs
  <2> QED BY <1>1, <2>2, FunctionIsSeq
<1>3. Escaped(s) = FlattenSeq(seqs)
  BY Zenon DEF Escaped
<1>4. \A i \in 1..Len(s) : seqs[i] = EscapeOf(s[i])
  BY <1>1
<1> HIDE DEF seqs
<1>5. Escaped(s) \in Seq(Bytes)
  BY <1>2, <1>3, FlattenTyped
<1>6. PICK at : Joined(seqs, at)
  BY <1>2, FlattenJoins
<1>7. /\ at \in [0..Len(s) -> Nat] /\ at[0] = 0
      /\ \A i \in 1..Len(s) : at[i] = at[i - 1] + Len(EscapeOf(s[i]))
      /\ \A i \in 1..Len(s) : \A k \in 1..Len(EscapeOf(s[i])) :
           Escaped(s)[at[i - 1] + k] = EscapeOf(s[i])[k]
      /\ Len(Escaped(s)) = at[Len(s)]
      /\ \A i \in 0..Len(s) : at[i] <= at[Len(s)]
  <2>1. /\ at \in [0..Len(seqs) -> Nat] /\ at[0] = 0
        /\ \A i \in 1..Len(seqs) : at[i] = at[i - 1] + Len(seqs[i])
        /\ Len(FlattenSeq(seqs)) = at[Len(seqs)]
        /\ \A i \in 0..Len(seqs) : at[i] <= at[Len(seqs)]
    BY <1>6, Zenon DEF Joined
  <2>2. ASSUME NEW i \in 1..Len(seqs), NEW k \in 1..Len(seqs[i])
        PROVE  FlattenSeq(seqs)[at[i - 1] + k] = seqs[i][k]
    BY <1>6, Zenon DEF Joined
  <2>3. \A i \in 1..Len(s) : \A k \in 1..Len(EscapeOf(s[i])) :
          Escaped(s)[at[i - 1] + k] = EscapeOf(s[i])[k]
    BY <1>2, <1>3, <1>4, <2>2
  <2>4. \A i \in 1..Len(s) : at[i] = at[i - 1] + Len(EscapeOf(s[i]))
    BY <1>2, <1>4, <2>1
  <2> QED BY <1>2, <1>3, <2>1, <2>3, <2>4
<1>8. \A i \in 1..Len(s) : i \in 0..Len(s)
  OBVIOUS
<1>9. EscapePlaces(s, Escaped(s), at)
  BY <1>7, <1>8 DEF EscapePlaces
<1> QED BY <1>5, <1>9

\* Read from the left, escapes give back the bytes they stand for.
LEMMA UnescapedIs ==
  ASSUME NEW s \in Seq(Bytes)
  PROVE  Unescaped(Escaped(s)) = s
<1> DEFINE e == Escaped(s)
           len == Len(e)
           IsLong(i) == IsPrefix(Long, SubSeq(e, i, Len(e)))
           Step(f) == [i \in Nat |->
             IF i > Len(e) THEN <<>>
             ELSE IF e[i] # "\\" THEN <<e[i]>> \o f[i + 1]
             ELSE IF IsPrefix(Long, SubSeq(e, i, Len(e))) THEN <<"ctl">> \o f[i + 6]
             ELSE <<IF e[i + 1] = "n" THEN "\n" ELSE e[i + 1]>> \o f[i + 2]]
           From[i \in Nat] ==
             IF i > Len(e) THEN <<>>
             ELSE IF e[i] # "\\" THEN <<e[i]>> \o From[i + 1]
             ELSE IF IsPrefix(Long, SubSeq(e, i, Len(e))) THEN <<"ctl">> \o From[i + 6]
             ELSE <<IF e[i + 1] = "n" THEN "\n" ELSE e[i + 1]>> \o From[i + 2]
           tok == [i \in Nat |-> IF e[i] # "\\" THEN e[i] ELSE IF IsLong(i) THEN "ctl"
                                 ELSE IF e[i + 1] = "n" THEN "\n" ELSE e[i + 1]]
           step == [i \in Nat |-> IF e[i] # "\\" THEN 1 ELSE IF IsLong(i) THEN 6 ELSE 2]
           V == {tok[i] : i \in Nat}
<1>1. e \in Seq(Bytes) /\ len \in Nat /\ Len(s) \in Nat /\ \A i \in 1..Len(s) : s[i] \in Bytes
  BY EscapedIs, LenProperties, ElementOfSeq
<1>2. PICK at : EscapePlaces(s, e, at)
  BY EscapedIs
<1>3. Unescaped(e) = From[1]
  BY Zenon DEF Unescaped, Long
<1> HIDE DEF e
<1>4. tok \in [Nat -> V] /\ step \in [Nat -> Nat \ {0}]
  OBVIOUS
<1>5. ASSUME NEW f, NEW i \in Nat
      PROVE  Step(f)[i] = IF i > len THEN <<>> ELSE <<tok[i]>> \o f[i + step[i]]
  <2>1. CASE e[i] # "\\"
    BY <2>1
  <2>2. CASE e[i] = "\\" /\ IsLong(i)
    <3>1. Step(f)[i] = IF i > len THEN <<>> ELSE <<"ctl">> \o f[i + 6]
      BY <2>2
    <3>2. tok[i] = "ctl" /\ step[i] = 6
      BY <2>2
    <3> QED BY <3>1, <3>2
  <2>3. CASE e[i] = "\\" /\ ~IsLong(i)
    <3>1. Step(f)[i] = IF i > len THEN <<>>
                       ELSE <<IF e[i + 1] = "n" THEN "\n" ELSE e[i + 1]>> \o f[i + 2]
      BY <2>3
    <3>2. tok[i] = (IF e[i + 1] = "n" THEN "\n" ELSE e[i + 1]) /\ step[i] = 2
      BY <2>3
    <3> QED BY <3>1, <3>2
  <2> QED BY <2>1, <2>2, <2>3
<1>6. \E f : f = Step(f)
  <2>1. PICK f : f \in [Nat -> Seq(V)] /\ Reads(f, tok, step, len)
    <3> HIDE DEF tok, step, V, len
    <3> QED BY <1>1, <1>4, ReadsExists
  <2>2. \A i \in Nat : f[i] = Step(f)[i]
    <3>1. \A i \in Nat : f[i] = IF i > len THEN <<>> ELSE <<tok[i]>> \o f[i + step[i]]
      BY <2>1, Zenon DEF Reads
    <3> HIDE DEF tok, step, V, len, Step
    <3> QED BY <1>5, <3>1
  <2>3. f = [i \in Nat |-> f[i]] /\ Step(f) = [i \in Nat |-> Step(f)[i]]
    BY <2>1
  <2>4. f = Step(f)
    <3> HIDE DEF Step
    <3> QED BY <2>2, <2>3
  <2> HIDE DEF Step
  <2> QED BY <2>4
<1>7. From = Step(From)
  BY <1>6, Zenon
<1> HIDE DEF From
<1>8. Reads(From, tok, step, len)
  <2>1. ASSUME NEW i \in Nat
        PROVE  From[i] = IF i > len THEN <<>> ELSE <<tok[i]>> \o From[i + step[i]]
    <3>1. From[i] = Step(From)[i]
      BY <1>7, Zenon
    <3> HIDE DEF tok, step, len, Step
    <3> QED BY <1>5, <3>1
  <2> HIDE DEF tok, step, len
  <2> QED BY <2>1, Zenon DEF Reads
<1>9. ASSUME NEW i \in 1..Len(s)
      PROVE  /\ at[i - 1] < at[i] /\ tok[at[i - 1] + 1] = s[i]
             /\ step[at[i - 1] + 1] = at[i] - at[i - 1]
  <2> DEFINE p == at[i - 1] + 1
             c == s[i]
  <2>1. /\ at[i - 1] \in Nat /\ at[i] \in Nat
        /\ at[i] = at[i - 1] + Len(EscapeOf(c)) /\ at[i] <= len
        /\ \A k \in 1..Len(EscapeOf(c)) : e[at[i - 1] + k] = EscapeOf(c)[k]
    <3>1. i \in 0..Len(s) /\ i - 1 \in 0..Len(s)
      BY <1>1
    <3> QED BY <1>2, <3>1 DEF EscapePlaces
  <2>2. c \in Bytes
    BY <1>1
  <2> HIDE DEF c
  <2>3. Len(EscapeOf(c)) \in Nat \ {0}
    BY <2>2, EscapeIs
  <2>4. p \in Nat /\ 1 <= p /\ p <= len /\ p + Len(EscapeOf(c)) - 1 = at[i] /\ at[i - 1] < at[i]
    BY <1>1, <2>1, <2>3
  <2>5. \A k \in 1..Len(EscapeOf(c)) : e[p + k - 1] = EscapeOf(c)[k]
    <3>1. \A k \in 1..Len(EscapeOf(c)) : p + k - 1 = at[i - 1] + k
      BY <2>1
    <3> QED BY <2>1, <3>1
  <2> HIDE DEF p
  <2>6. Long \in Seq(Bytes) /\ Len(Long) = 6 /\ Long[1] = "\\" /\ Long[2] = "u"
    <3>1. "\\" \in Bytes /\ "u" \in Bytes /\ "0" \in Bytes /\ "1" \in Bytes /\ "f" \in Bytes
      BY Zenon DEF Bytes
    <3> QED BY <3>1, SixOf, Zenon DEF Long
  <2>7. IsLong(p) <=> p + 6 - 1 <= len /\ \A k \in 1..6 : e[p + k - 1] = Long[k]
    <3>1. IsPrefix(Long, SubSeq(e, p, Len(e)))
            <=> p + Len(Long) - 1 <= Len(e) /\ \A k \in 1..Len(Long) : e[p + k - 1] = Long[k]
      <4>1. e \in Seq(Bytes) /\ Long \in Seq(Bytes) /\ p \in Nat /\ 1 <= p /\ p <= Len(e)
        BY <1>1, <2>4, <2>6
      <4> HIDE DEF Long
      <4> QED BY ONLY <4>1, PrefixAt
    <3> QED BY <2>6, <3>1
  <2> HIDE DEF IsLong, len
  <2>10. p + 1 - 1 = p /\ p + 2 - 1 = p + 1
    BY <2>4
  <2>8. tok[p] = c /\ step[p] = Len(EscapeOf(c))
    <3>1. CASE c # "\\" /\ EscapeOf(c) = <<c>> /\ Len(EscapeOf(c)) = 1
      <4>1. 1 \in 1..Len(EscapeOf(c)) /\ EscapeOf(c)[1] = c
        BY <3>1
      <4>2. e[p] = c
        BY <2>5, <2>10, <4>1
      <4> QED BY <2>4, <3>1, <4>2
    <3>2. CASE c = "ctl" /\ EscapeOf(c) = Long /\ Len(EscapeOf(c)) = 6
      <4>1. IsLong(p)
        BY <2>1, <2>4, <2>5, <2>7, <3>2
      <4>2. e[p] = "\\"
        <5>1. 1 \in 1..Len(EscapeOf(c))
          <6>1. 1 \in 1..6
            OBVIOUS
          <6> QED BY <3>2, <6>1, Zenon
        <5> QED BY <2>5, <2>6, <2>10, <3>2, <5>1
      <4> QED BY <2>4, <3>2, <4>1, <4>2
    <3>3. CASE /\ Len(EscapeOf(c)) = 2 /\ EscapeOf(c)[1] = "\\" /\ EscapeOf(c)[2] # "u"
               /\ c = IF EscapeOf(c)[2] = "n" THEN "\n" ELSE EscapeOf(c)[2]
      <4>1. 1 \in 1..Len(EscapeOf(c)) /\ 2 \in 1..Len(EscapeOf(c)) /\ 2 \in 1..6
        BY <3>3
      <4>2. e[p] = "\\" /\ e[p + 1] = EscapeOf(c)[2]
        BY <2>5, <2>10, <3>3, <4>1
      <4>3. ~IsLong(p)
        <5>1. IsLong(p) => e[p + 2 - 1] = Long[2]
          BY <2>7, <4>1
        <5> QED BY <2>6, <2>10, <3>3, <4>2, <5>1
      <4>4. tok[p] = (IF e[p + 1] = "n" THEN "\n" ELSE e[p + 1]) /\ step[p] = 2
        BY <2>4, <4>2, <4>3
      <4> QED BY <3>3, <4>2, <4>4
    <3> QED BY <2>2, <3>1, <3>2, <3>3, EscapeIs
  <2>9. Len(EscapeOf(c)) = at[i] - at[i - 1]
    BY <2>1, <2>3
  <2> QED BY <2>4, <2>8, <2>9 DEF p, c
<1>10. From[1] = s
  <2>1. at \in [0..Len(s) -> Nat] /\ at[0] = 0 /\ at[Len(s)] = len
    BY <1>2 DEF EscapePlaces
  <2> HIDE DEF len, tok, step
  <2>2. Tells(s, at, tok, step, len)
    BY <1>9, <2>1, Zenon DEF Tells
  <2> QED BY <1>1, <1>8, <2>2, ReadBack
<1> QED BY <1>3, <1>10 DEF e

\* What one call takes, and why it takes no more.
TakenFrom(src, size, n) ==
  /\ n \in 0..Len(src) /\ Len(Escaped(SubSeq(src, 1, n))) < size - 1
  /\ Len(Escaped(SubSeq(src, 1, n))) >= n
  /\ src # <<>> /\ n = 0 => Len(EscapeOf(src[1])) > size - 2
  /\ quote_escape(src, size) = [rv     |-> Len(Escaped(SubSeq(src, 1, n))),
                                out    |-> Escaped(SubSeq(src, 1, n)), esclen |-> n]

LEMMA EscapedLonger ==
  ASSUME NEW s \in Seq(Bytes)
  PROVE  Len(Escaped(s)) \in Nat /\ Len(Escaped(s)) >= Len(s)
<1>1. PICK at : EscapePlaces(s, Escaped(s), at)
  BY EscapedIs
<1>2. Len(s) \in Nat /\ \A i \in 1..Len(s) : s[i] \in Bytes
  BY LenProperties, ElementOfSeq
<1>3. /\ at \in [0..Len(s) -> Nat] /\ at[0] = 0 /\ Len(Escaped(s)) = at[Len(s)]
      /\ \A i \in 1..Len(s) : at[i] = at[i - 1] + Len(EscapeOf(s[i]))
  BY <1>1 DEF EscapePlaces
<1> DEFINE S == {i \in Nat : i <= Len(s) => at[i] >= i}
<1>4. 0 \in S
  BY <1>3
<1>5. \A i \in Nat : i \in S => i + 1 \in S
  <2>1. SUFFICES ASSUME NEW i \in Nat, i \in S, i + 1 <= Len(s) PROVE at[i + 1] >= i + 1
    OBVIOUS
  <2>2. i + 1 \in 1..Len(s) /\ i \in 0..Len(s) /\ i + 1 - 1 = i
    BY <1>2, <2>1
  <2>3. at[i + 1] = at[i] + Len(EscapeOf(s[i + 1]))
    BY <1>3, <2>2
  <2>4. Len(EscapeOf(s[i + 1])) \in Nat \ {0}
    BY <1>2, <2>2, EscapeIs
  <2>5. at[i] \in Nat /\ at[i] >= i
    <3>1. i <= Len(s)
      BY <1>2, <2>1
    <3> QED BY <1>3, <2>1, <2>2, <3>1
  <2> QED BY <2>3, <2>4, <2>5
<1>6. \A i \in Nat : i \in S
  <2> HIDE DEF S
  <2> QED BY <1>4, <1>5, NatBySteps
<1>7. Len(s) \in S /\ Len(s) \in 0..Len(s)
  BY <1>2, <1>6
<1> QED BY <1>2, <1>3, <1>7

LEMMA QuoteEscapeIs ==
  ASSUME NEW src \in Seq(Bytes), NEW size \in Nat, size >= 2
  PROVE  \E n : TakenFrom(src, size, n)
<1> DEFINE full == {i \in DOMAIN src : ~RoomFor(src, i, size - 1)}
           n == IF full = {} THEN Len(src) ELSE Min(full) - 1
           E(i) == Len(Escaped(SubSeq(src, 1, i)))
<1>1. Len(src) \in Nat /\ DOMAIN src = 1..Len(src) /\ \A i \in 1..Len(src) : src[i] \in Bytes
  BY LenProperties, ElementOfSeq
<1>2. \A i \in 1..Len(src) : i \in full <=> ~(E(i) < size - 1)
  BY <1>1 DEF RoomFor
<1>3. full # {} => Min(full) \in full /\ \A j \in full : Min(full) <= j
  <2>1. full \in SUBSET Nat
    BY <1>1
  <2> HIDE DEF full
  <2>2. full # {} => \E k \in full : \A j \in full : k <= j
    BY <2>1, LeastOf
  <2> QED BY <2>2 DEF Min
<1>4. \A i \in full : i \in 1..Len(src)
  BY <1>1
<1>5. quote_escape(src, size) = [rv |-> E(n), out |-> Escaped(SubSeq(src, 1, n)), esclen |-> n]
  <2>1. ~(size < 2)
    OBVIOUS
  <2> QED BY <2>1, Zenon DEF quote_escape
<1> HIDE DEF full
<1>6. n \in 0..Len(src) /\ (n # 0 => n \in 1..Len(src) /\ n \notin full)
      /\ (n # Len(src) => n + 1 \in full)
  <2>1. CASE full = {}
    BY <1>1, <2>1
  <2>2. CASE full # {}
    <3>1. Min(full) \in 1..Len(src) /\ Min(full) \in full /\ \A j \in full : Min(full) <= j
      BY <1>3, <1>4, <2>2
    <3>2. n = Min(full) - 1
      BY <2>2
    <3> HIDE DEF n
    <3>3. n \in 0..Len(src) /\ n + 1 = Min(full) /\ ~(Min(full) <= n)
      BY <1>1, <3>1, <3>2
    <3>4. n \notin full
      BY <3>1, <3>3
    <3>5. n # 0 => n \in 1..Len(src)
      BY <1>1, <3>3
    <3> QED BY <3>1, <3>3, <3>4, <3>5, Zenon
  <2> QED BY <2>1, <2>2
<1> HIDE DEF n
<1>7. ASSUME NEW i \in 0..Len(src)
      PROVE  SubSeq(src, 1, i) \in Seq(Bytes) /\ Len(SubSeq(src, 1, i)) = i /\ E(i) \in Nat /\ E(i) >= i
  <2>1. SubSeq(src, 1, i) \in Seq(Bytes) /\ Len(SubSeq(src, 1, i)) = i
    BY PrefixIs
  <2> QED BY <2>1, EscapedLonger
<1>8. E(n) < size - 1
  <2>1. CASE n # 0
    BY <1>2, <1>6, <2>1
  <2>2. CASE n = 0
    <3>1. SubSeq(src, 1, 0) = <<>>
      BY <1>1, SubSeqEmpty
    <3>2. Escaped(<<>>) = <<>>
      <4> DEFINE seqs == [i \in DOMAIN <<>> |-> EscapeOf(<<>>[i])]
      <4>1. seqs = <<>>
        OBVIOUS
      <4>2. Escaped(<<>>) = FlattenSeq(<<>>)
        <5>1. Escaped(<<>>) = FlattenSeq(seqs)
          BY Zenon DEF Escaped
        <5> HIDE DEF seqs
        <5> QED BY <4>1, <5>1, Zenon
      <4>3. FlattenSeq(<<>>) = <<>>
        BY DEF FlattenSeq
      <4> QED BY <4>2, <4>3, Zenon
    <3>3. E(n) = 0
      BY <2>2, <3>1, <3>2, EmptySeq
    <3> QED BY <3>3
  <2> QED BY <2>1, <2>2
<1>9. ASSUME src # <<>>, n = 0 PROVE Len(EscapeOf(src[1])) > size - 2
  <2>1. Len(src) # 0 /\ 1 \in 1..Len(src) /\ 1 \in 0..Len(src)
    BY <1>1, <1>9, EmptySeq
  <2>2. ~(E(1) < size - 1)
    <3>1. 0 + 1 \in full /\ 0 + 1 = 1
      BY <1>6, <1>9, <2>1
    <3> HIDE DEF E
    <3> QED BY <1>2, <2>1, <3>1
  <2> DEFINE one == SubSeq(src, 1, 1)
  <2>3. one \in Seq(Bytes) /\ Len(one) = 1 /\ one[1] = src[1]
    <3>1. 1 \in 1..1
      OBVIOUS
    <3> QED BY <2>1, <3>1, PrefixIs
  <2>4. E(1) = Len(Escaped(one))
    OBVIOUS
  <2> HIDE DEF one
  <2>5. PICK at : EscapePlaces(one, Escaped(one), at)
    BY <2>3, EscapedIs
  <2>6. /\ at[0] = 0 /\ Len(Escaped(one)) = at[1]
        /\ \A i \in 1..1 : at[i] = at[i - 1] + Len(EscapeOf(one[i]))
    BY <2>3, <2>5 DEF EscapePlaces
  <2>7. at[1] = at[0] + Len(EscapeOf(one[1]))
    <3>1. 1 \in 1..1 /\ 1 - 1 = 0
      OBVIOUS
    <3> QED BY <2>6, <3>1
  <2>8. Len(EscapeOf(src[1])) \in Nat
    BY <1>1, <2>1, EscapeIs
  <2>9. E(1) = Len(EscapeOf(src[1]))
    BY <2>3, <2>4, <2>6, <2>7, <2>8
  <2> HIDE DEF E
  <2> QED BY <2>2, <2>8, <2>9
<1>10. TakenFrom(src, size, n)
  BY <1>5, <1>6, <1>7, <1>8, <1>9 DEF TakenFrom
<1> QED BY <1>10

\* A part of what is left of a text is a part of the text.
LEMMA PartOfRest ==
  ASSUME NEW s \in Seq(Bytes), NEW a \in 0..Len(s), NEW n \in 0..(Len(s) - a)
  PROVE  /\ SubSeq(s, a + 1, Len(s)) \in Seq(Bytes) /\ Len(SubSeq(s, a + 1, Len(s))) = Len(s) - a
         /\ \A i \in 1..(Len(s) - a) : SubSeq(s, a + 1, Len(s))[i] = s[a + i]
         /\ SubSeq(SubSeq(s, a + 1, Len(s)), 1, n) = SubSeq(s, a + 1, a + n)
<1> DEFINE L == Len(s)
           r == SubSeq(s, a + 1, L)
           q == SubSeq(s, a + 1, a + n)
           p == SubSeq(r, 1, n)
<1>1. L \in Nat /\ a \in Nat /\ n \in Nat /\ a <= L /\ a + n <= L /\ \A i \in 1..L : s[i] \in Bytes
  BY LenProperties, ElementOfSeq
<1>2. r \in Seq(Bytes) /\ Len(r) = L - a /\ \A i \in 1..(L - a) : r[i] = s[a + i]
  <2>1. a + 1 \in Int /\ L \in Int /\ \A i \in (a + 1)..L : s[i] \in Bytes
    BY <1>1
  <2> HIDE DEF L
  <2>2. /\ r \in Seq(Bytes) /\ Len(r) = (IF a + 1 <= L THEN L - (a + 1) + 1 ELSE 0)
        /\ \A i \in 1..(L - (a + 1) + 1) : r[i] = s[a + 1 + i - 1]
    BY <2>1, SubSeqProperties
  <2>3. (IF a + 1 <= L THEN L - (a + 1) + 1 ELSE 0) = L - a /\ L - (a + 1) + 1 = L - a
        /\ \A i \in Nat : a + 1 + i - 1 = a + i
    BY <1>1
  <2>4. \A i \in 1..(L - a) : i \in Nat
    BY <1>1
  <2> HIDE DEF r
  <2> QED BY <2>2, <2>3, <2>4
<1>3. q \in Seq(Bytes) /\ Len(q) = n /\ \A i \in 1..n : q[i] = s[a + i]
  <2>1. a + 1 \in Int /\ a + n \in Int /\ \A i \in (a + 1)..(a + n) : s[i] \in Bytes
    BY <1>1
  <2>2. /\ q \in Seq(Bytes) /\ Len(q) = (IF a + 1 <= a + n THEN a + n - (a + 1) + 1 ELSE 0)
        /\ \A i \in 1..(a + n - (a + 1) + 1) : q[i] = s[a + 1 + i - 1]
    BY <2>1, SubSeqProperties
  <2>3. (IF a + 1 <= a + n THEN a + n - (a + 1) + 1 ELSE 0) = n /\ a + n - (a + 1) + 1 = n
        /\ \A i \in Nat : a + 1 + i - 1 = a + i
    BY <1>1
  <2>4. \A i \in 1..n : i \in Nat
    BY <1>1
  <2> HIDE DEF q
  <2> QED BY <2>2, <2>3, <2>4
<1> HIDE DEF r, q, L
<1>4. p \in Seq(Bytes) /\ Len(p) = n /\ \A i \in 1..n : p[i] = r[i]
  <2>1. n \in 0..Len(r)
    BY <1>1, <1>2
  <2> QED BY <1>2, <2>1, PrefixIs
<1>5. \A i \in 1..n : p[i] = q[i]
  <2>1. \A i \in 1..n : i \in 1..(L - a)
    BY <1>1
  <2> QED BY <1>2, <1>3, <1>4, <2>1
<1> HIDE DEF p
<1>6. p = q
  BY <1>3, <1>4, <1>5, SeqEqual
<1> QED BY <1>2, <1>6 DEF L, p, q, r

\* The call for what is left behind a bytes.
Piece(src, size, a) == quote_escape(SubSeq(src, a + 1, Len(src)), size)

LEMMA PieceIs ==
  ASSUME NEW src \in Seq(Bytes), NEW size \in Nat, size >= 2, NEW a \in 0..Len(src)
  PROVE  \E n \in 0..(Len(src) - a) :
           /\ Piece(src, size, a).esclen = n
           /\ Piece(src, size, a).rv \in Nat /\ (Piece(src, size, a).rv = 0 <=> n = 0)
           /\ Len(Piece(src, size, a).out) < size - 1
           /\ Unescaped(Piece(src, size, a).out) = SubSeq(src, a + 1, a + n)
           /\ n = 0 /\ a < Len(src) => Len(EscapeOf(src[a + 1])) > size - 2
<1> DEFINE r == SubSeq(src, a + 1, Len(src))
<1>1. Len(src) \in Nat /\ a \in Nat /\ 0 \in 0..(Len(src) - a)
  BY LenProperties
<1>2. /\ r \in Seq(Bytes) /\ Len(r) = Len(src) - a
      /\ \A i \in 1..(Len(src) - a) : r[i] = src[a + i]
  BY <1>1, PartOfRest
<1>3. PICK n : TakenFrom(r, size, n)
  BY <1>2, QuoteEscapeIs
<1> DEFINE p == SubSeq(r, 1, n)
<1>4. /\ n \in 0..(Len(src) - a) /\ Len(Escaped(p)) < size - 1 /\ Len(Escaped(p)) >= n
      /\ r # <<>> /\ n = 0 => Len(EscapeOf(r[1])) > size - 2
      /\ quote_escape(r, size) = [rv |-> Len(Escaped(p)), out |-> Escaped(p), esclen |-> n]
  BY <1>2, <1>3 DEF TakenFrom
<1>5. p = SubSeq(src, a + 1, a + n) /\ p \in Seq(Bytes) /\ Len(p) = n
  <2>1. n \in 0..Len(r)
    BY <1>2, <1>4
  <2>2. p \in Seq(Bytes) /\ Len(p) = n
    BY <1>2, <2>1, PrefixIs
  <2> QED BY <1>4, <2>2, PartOfRest
<1>6. Piece(src, size, a) = quote_escape(r, size)
  BY DEF Piece
<1>7. Len(Escaped(p)) \in Nat /\ (Len(Escaped(p)) = 0 <=> n = 0)
  <2>1. n = 0 => Escaped(p) = <<>>
    <3>1. SUFFICES ASSUME n = 0 PROVE Escaped(p) = <<>>
      OBVIOUS
    <3>2. p = <<>>
      BY <1>5, <3>1, EmptySeq
    <3> DEFINE seqs == [i \in DOMAIN p |-> EscapeOf(p[i])]
    <3>3. Escaped(p) = FlattenSeq(seqs)
      BY Zenon DEF Escaped
    <3>4. seqs = <<>>
      <4> HIDE DEF p
      <4>1. DOMAIN p = {}
        BY <3>2
      <4> QED BY <4>1
    <3>5. FlattenSeq(<<>>) = <<>>
      BY DEF FlattenSeq
    <3> HIDE DEF seqs
    <3> QED BY <3>3, <3>4, <3>5, Zenon
  <2>2. Len(Escaped(p)) \in Nat /\ n \in Nat
    BY <1>1, <1>4, <1>5, EscapedLonger
  <2> QED BY <1>4, <2>1, <2>2, EmptySeq
<1>8. Unescaped(Escaped(p)) = p
  BY <1>5, UnescapedIs
<1>9. n = 0 /\ a < Len(src) => Len(EscapeOf(src[a + 1])) > size - 2
  <2>1. a < Len(src) => 1 \in 1..(Len(src) - a) /\ Len(r) # 0
    BY <1>1, <1>2
  <2>2. a < Len(src) => r # <<>> /\ r[1] = src[a + 1]
    BY <1>2, <2>1, EmptySeq
  <2> QED BY <1>4, <2>2
<1>10. /\ Piece(src, size, a).esclen = n /\ Piece(src, size, a).rv = Len(Escaped(p))
       /\ Piece(src, size, a).out = Escaped(p)
  BY <1>4, <1>6
<1> HIDE DEF r, p
<1> QED BY <1>4, <1>5, <1>7, <1>8, <1>9, <1>10

\* The calls that the pieces p come from: behind t[k - 1] bytes the k-th is
\* made, and behind the last nothing is written.
Calls(src, size, a, p, t) ==
  /\ Len(p) \in Nat /\ DOMAIN p = 1..Len(p) /\ t \in [0..Len(p) -> 0..Len(src)] /\ t[0] = a
  /\ \A k \in 1..Len(p) : /\ p[k] = Piece(src, size, t[k - 1]) /\ p[k].rv > 0
                          /\ t[k] = t[k - 1] + p[k].esclen
  /\ Piece(src, size, t[Len(p)]).rv <= 0

\* What is put in front of a sequence.
LEMMA InFront ==
  ASSUME NEW W, NEW c \in W, NEW q \in Seq(W)
  PROVE  /\ <<c>> \o q \in Seq(W) /\ Len(<<c>> \o q) = Len(q) + 1 /\ (<<c>> \o q)[1] = c
         /\ \A k \in 1..Len(q) : (<<c>> \o q)[k + 1] = q[k]
<1> DEFINE one == <<c>>
<1>1. one \in Seq(W) /\ Len(one) = 1 /\ one[1] = c /\ Len(q) \in Nat
  BY LenProperties
<1> HIDE DEF one
<1>2. /\ one \o q \in Seq(W) /\ Len(one \o q) = Len(one) + Len(q)
      /\ \A k \in 1..Len(one) : (one \o q)[k] = one[k]
      /\ \A k \in 1..Len(q) : (one \o q)[Len(one) + k] = q[k]
  <2>1. one \in Seq(W) /\ q \in Seq(W)
    BY <1>1
  <2> QED BY ONLY <2>1, ConcatPlaces
<1>3. 1 \in 1..1 /\ \A k \in 1..Len(q) : 1 + k = k + 1
  BY <1>1
<1>4. /\ one \o q \in Seq(W) /\ Len(one \o q) = Len(q) + 1 /\ (one \o q)[1] = c
      /\ \A k \in 1..Len(q) : (one \o q)[k + 1] = q[k]
  BY <1>1, <1>2, <1>3
<1> QED BY <1>4 DEF one

\* One call before the others.
LEMMA CallBefore ==
  ASSUME NEW src \in Seq(Bytes), NEW size, NEW a \in 0..Len(src), NEW W, NEW q \in Seq(W), NEW u,
         Piece(src, size, a) \in W, Piece(src, size, a).rv > 0,
         Calls(src, size, a + Piece(src, size, a).esclen, q, u)
  PROVE  \E t : Calls(src, size, a, <<Piece(src, size, a)>> \o q, t)
<1> DEFINE n == Len(q)
           L == Len(src)
           c == Piece(src, size, a)
           p == <<c>> \o q
           t == [k \in 0..(n + 1) |-> IF k = 0 THEN a ELSE u[k - 1]]
<1>1. n \in Nat /\ L \in Nat
  BY LenProperties
<1>2. p \in Seq(W) /\ Len(p) = n + 1 /\ p[1] = c /\ \A k \in 1..n : p[k + 1] = q[k]
  <2> HIDE DEF c
  <2>1. c \in W
    BY DEF c
  <2> QED BY <2>1, InFront
<1>3. /\ u \in [0..n -> 0..L] /\ u[0] = a + c.esclen /\ c.rv > 0
      /\ \A k \in 1..n : /\ q[k] = Piece(src, size, u[k - 1]) /\ q[k].rv > 0
                         /\ u[k] = u[k - 1] + q[k].esclen
      /\ Piece(src, size, u[n]).rv <= 0
  <2>1. /\ u \in [0..n -> 0..L] /\ u[0] = a + c.esclen
        /\ \A k \in 1..n : /\ q[k] = Piece(src, size, u[k - 1]) /\ q[k].rv > 0
                           /\ u[k] = u[k - 1] + q[k].esclen
        /\ Piece(src, size, u[n]).rv <= 0
    BY DEF Calls
  <2> QED BY <2>1
<1> HIDE DEF c, p
<1>4. t \in [0..(n + 1) -> 0..L]
  <2>1. ASSUME NEW k \in 0..(n + 1), k # 0 PROVE u[k - 1] \in 0..L
    <3>1. k - 1 \in 0..n
      BY <1>1, <2>1
    <3> QED BY <1>3, <3>1
  <2> HIDE DEF n, L
  <2>2. a \in 0..L
    BY DEF L
  <2> QED BY <2>1, <2>2
<1>5. t[0] = a /\ \A k \in 1..(n + 1) : t[k] = u[k - 1]
  BY <1>1
<1> HIDE DEF t
<1>6. ASSUME NEW k \in 1..(n + 1)
      PROVE  p[k] = Piece(src, size, t[k - 1]) /\ p[k].rv > 0 /\ t[k] = t[k - 1] + p[k].esclen
  <2>1. CASE k = 1
    <3>1. t[1] = u[0] /\ 1 - 1 = 0
      BY <1>5, <2>1
    <3> QED BY <1>2, <1>3, <1>5, <2>1, <3>1 DEF c
  <2>2. CASE k # 1
    <3> DEFINE j == k - 1
    <3>1. j \in 1..n /\ j \in 1..(n + 1) /\ j + 1 = k /\ j = k - 1
      BY <1>1, <2>2
    <3> HIDE DEF j
    <3>2. p[k] = q[j] /\ t[k] = u[j] /\ t[j] = u[j - 1]
      BY <1>2, <1>5, <3>1
    <3> QED BY <1>3, <3>1, <3>2
  <2> QED BY <2>1, <2>2
<1>7. Piece(src, size, t[n + 1]).rv <= 0
  <2>1. n + 1 \in 1..(n + 1) /\ n + 1 - 1 = n
    BY <1>1
  <2> QED BY <1>3, <1>5, <2>1
<1>8. Len(p) \in Nat /\ DOMAIN p = 1..Len(p)
  BY <1>2, LenProperties
<1>9. Calls(src, size, a, p, t)
  BY <1>2, <1>4, <1>5, <1>6, <1>7, <1>8 DEF Calls
<1> QED BY <1>9 DEF p, c

LEMMA PiecesAre ==
  ASSUME NEW src \in Seq(Bytes), NEW size \in Nat, size >= 2
  PROVE  /\ \E W : EscapedPieces(src, size) \in Seq(W)
         /\ \E t : Calls(src, size, 0, EscapedPieces(src, size), t)
<1> DEFINE L == Len(src)
           call(a) == Piece(src, size, a)
           mu == [a \in Nat |-> IF a <= L THEN L - a ELSE 0]
           Step(f) == [at \in Nat |->
             LET piece == quote_escape(SubSeq(src, at + 1, Len(src)), size)
             IN  IF piece.rv <= 0 THEN <<>> ELSE <<piece>> \o f[at + piece.esclen]]
           From[at \in Nat] ==
             LET piece == quote_escape(SubSeq(src, at + 1, Len(src)), size)
             IN  IF piece.rv <= 0 THEN <<>> ELSE <<piece>> \o From[at + piece.esclen]
           W == {call(a) : a \in Nat}
           Stop == {a \in Nat : call(a).rv <= 0}
           base == [a \in Nat |-> <<>>]
           next == [a \in Nat |-> a + call(a).esclen]
           comb == [a \in Nat |-> [v \in Seq(W) |-> <<call(a)>> \o v]]
<1>1. L \in Nat
  BY LenProperties
<1>2. ASSUME NEW a \in Nat
      PROVE  /\ call(a).esclen \in Nat /\ call(a).rv \in Nat /\ call(a) \in W
             /\ a <= L => a + call(a).esclen <= L
             /\ ~(call(a).rv <= 0) => a < L /\ call(a).esclen > 0
  <2>1. CASE a <= L
    <3>1. a \in 0..Len(src)
      BY <1>1, <2>1
    <3>2. PICK n \in 0..(L - a) : call(a).esclen = n /\ call(a).rv \in Nat /\ (call(a).rv = 0 <=> n = 0)
      BY <3>1, PieceIs
    <3> QED BY <1>1, <2>1, <3>2
  <2>2. CASE a > L
    <3>1. SubSeq(src, a + 1, L) = <<>> /\ SubSeq(src, L + 1, L) = <<>>
      BY <1>1, <2>2, SubSeqEmpty
    <3>2. call(a) = call(L)
      BY <3>1 DEF Piece
    <3>3. L \in 0..Len(src)
      BY <1>1
    <3>4. PICK n \in 0..(L - L) : call(L).esclen = n /\ call(L).rv \in Nat /\ (call(L).rv = 0 <=> n = 0)
      BY <3>3, PieceIs
    <3>5. n = 0
      BY <1>1
    <3> QED BY <1>1, <2>2, <3>2, <3>4, <3>5
  <2> QED BY <1>1, <2>1, <2>2
<1> HIDE DEF call
<1>3. mu \in [Nat -> Nat] /\ next \in [Nat -> Nat]
  BY <1>1, <1>2
<1>4. base \in [Nat -> Seq(W)]
  BY EmptySeq
<1>5. comb \in [Nat -> [Seq(W) -> Seq(W)]]
  <2>1. ASSUME NEW a \in Nat, NEW v \in Seq(W) PROVE <<call(a)>> \o v \in Seq(W)
    <3>1. call(a) \in W
      OBVIOUS
    <3> HIDE DEF W
    <3> QED BY <3>1, InFront
  <2> HIDE DEF W
  <2> QED BY <2>1
<1>6. \A a \in Nat : a \notin Stop => mu[next[a]] < mu[a]
  <2>1. SUFFICES ASSUME NEW a \in Nat, ~(call(a).rv <= 0) PROVE mu[next[a]] < mu[a]
    OBVIOUS
  <2> DEFINE b == a + call(a).esclen
  <2>2. call(a).esclen \in Nat /\ call(a).esclen > 0 /\ a < L /\ b <= L
    BY <1>1, <1>2, <2>1
  <2>3. next[a] = b /\ b \in Nat /\ b > a
    BY <2>2
  <2> HIDE DEF b
  <2>4. mu[b] = L - b /\ mu[a] = L - a
    BY <2>2, <2>3
  <2> QED BY <1>1, <2>2, <2>3, <2>4
<1>7. PICK g : Computed(g, Nat, Seq(W), Stop, base, next, comb)
  <2> HIDE DEF mu, Stop, base, next, comb, W
  <2>1. GoesDown(Nat, Seq(W), mu, Stop, base, next, comb)
    BY <1>3, <1>4, <1>5, <1>6 DEF GoesDown
  <2> QED BY <2>1, RecursionExists
<1>8. /\ g \in [Nat -> Seq(W)]
      /\ \A a \in Nat : g[a] = IF a \in Stop THEN base[a] ELSE comb[a][g[next[a]]]
  BY <1>7, Zenon DEF Computed
<1>9. ASSUME NEW a \in Nat
      PROVE  g[a] = IF call(a).rv <= 0 THEN <<>> ELSE <<call(a)>> \o g[a + call(a).esclen]
  <2>1. next[a] = a + call(a).esclen /\ next[a] \in Nat
    BY <1>3
  <2>2. g[next[a]] \in Seq(W)
    BY <1>8, <2>1
  <2>3. comb[a][g[next[a]]] = <<call(a)>> \o g[a + call(a).esclen]
    BY <2>1, <2>2
  <2>4. a \in Stop <=> call(a).rv <= 0
    OBVIOUS
  <2>5. base[a] = <<>>
    OBVIOUS
  <2> HIDE DEF Stop, base, comb
  <2> QED BY <1>8, <2>3, <2>4, <2>5
<1>10. ASSUME NEW f, NEW a \in Nat
       PROVE  Step(f)[a] = IF call(a).rv <= 0 THEN <<>> ELSE <<call(a)>> \o f[a + call(a).esclen]
  BY DEF call, Piece
<1>11. \E f : f = Step(f)
  <2>1. \A a \in Nat : g[a] = Step(g)[a]
    <3> HIDE DEF Step, W, Stop, base, next, comb
    <3> QED BY <1>9, <1>10
  <2>2. g = [a \in Nat |-> g[a]] /\ Step(g) = [a \in Nat |-> Step(g)[a]]
    BY <1>8
  <2> HIDE DEF Step
  <2> QED BY <2>1, <2>2
<1>12. From = Step(From)
  BY <1>11, Zenon
<1>13. EscapedPieces(src, size) = From[0]
  BY Zenon DEF EscapedPieces
<1> HIDE DEF From
<1>14. ASSUME NEW a \in Nat
       PROVE  From[a] = IF call(a).rv <= 0 THEN <<>> ELSE <<call(a)>> \o From[a + call(a).esclen]
  <2>1. From[a] = Step(From)[a]
    BY <1>12, Zenon
  <2> HIDE DEF Step
  <2> QED BY <1>10, <2>1
<1> HIDE DEF Step, Stop, base, next, comb
<1> DEFINE S == {a \in Nat : a <= L => From[a] \in Seq(W) /\ \E t : Calls(src, size, a, From[a], t)}
<1>15. ASSUME NEW a \in Nat, \A b \in Nat : mu[b] < mu[a] => b \in S PROVE a \in S
  <2>1. SUFFICES ASSUME a <= L PROVE From[a] \in Seq(W) /\ \E t : Calls(src, size, a, From[a], t)
    OBVIOUS
  <2>2. a \in 0..L
    BY <1>1, <2>1
  <2>3. CASE call(a).rv <= 0
    <3>1. From[a] = <<>>
      BY <1>14, <2>3
    <3> DEFINE t == [k \in 0..0 |-> a]
    <3>2. t \in [0..0 -> 0..L] /\ t[0] = a
      BY <2>2
    <3> HIDE DEF t
    <3>3. Len(<<>>) = 0 /\ DOMAIN <<>> = 1..0 /\ 0 \in Nat /\ <<>> \in Seq(W) /\ \A k \in 1..0 : FALSE
      BY EmptySeq
    <3>4. Calls(src, size, a, <<>>, t)
      BY <2>3, <3>2, <3>3 DEF Calls, call, L
    <3> QED BY <3>1, <3>3, <3>4
  <2>4. CASE ~(call(a).rv <= 0)
    <3> DEFINE b == a + call(a).esclen
    <3>1. b \in Nat /\ b <= L /\ b > a /\ a < L
      <4>1. /\ call(a).esclen \in Nat /\ a + call(a).esclen <= L
            /\ a < L /\ call(a).esclen > 0
        BY <1>2, <2>1, <2>4
      <4> DEFINE e == call(a).esclen
      <4>2. e \in Nat /\ e > 0 /\ b = a + e /\ a + e <= L /\ a < L
        BY <4>1
      <4> HIDE DEF e, b
      <4> QED BY <4>2
    <3>2. From[a] = <<call(a)>> \o From[b]
      BY <1>14, <2>4
    <3> HIDE DEF b
    <3>3. mu[b] < mu[a]
      BY <1>1, <3>1
    <3>4. b \in S
      BY <1>15, <3>1, <3>3
    <3>5. PICK u : Calls(src, size, b, From[b], u)
      BY <3>1, <3>4
    <3>6. From[b] \in Seq(W) /\ call(a) \in W
      BY <3>1, <3>4
    <3> HIDE DEF W
    <3>7. call(a).rv > 0
      BY <1>2, <2>4
    <3>8. \E t : Calls(src, size, a, <<call(a)>> \o From[b], t)
      BY <2>2, <3>5, <3>6, <3>7, CallBefore DEF call, b, L
    <3>9. <<call(a)>> \o From[b] \in Seq(W)
      BY <3>6, InFront
    <3> QED BY <3>2, <3>8, <3>9
  <2> QED BY <2>3, <2>4
<1>16. \A a \in Nat : a \in S
  <2> HIDE DEF S, mu
  <2>1. Inherited(Nat, mu, S)
    BY <1>3, <1>15 DEF Inherited
  <2> QED BY <2>1, ByMeasure, Zenon
<1>17. 0 \in S /\ 0 <= L
  BY <1>1, <1>16
<1>18. From[0] \in Seq(W) /\ \E t : Calls(src, size, 0, From[0], t)
  BY <1>17
<1> HIDE DEF W
<1> QED BY <1>13, <1>18

\* What the calls have taken together.
TakenBy(q) == FoldLeft(LAMBDA sum, p : sum + p.esclen, 0, q)

LEMMA TakenIs ==
  ASSUME NEW n \in Nat, NEW q, DOMAIN q = 1..n, NEW t, t[0] = 0,
         \A i \in 1..n : q[i].esclen \in Nat /\ t[i] = t[i - 1] + q[i].esclen
  PROVE  TakenBy(q) = t[n]
<1> DEFINE w == [i \in 1..n |-> q[i].esclen]
           iter[S \in SUBSET DOMAIN q] ==
             IF S = {} THEN 0 ELSE LET x == Max(S) IN iter[S \ {x}] + q[x].esclen
           Step(f) == [S \in SUBSET DOMAIN q |->
             IF S = {} THEN 0 ELSE LET x == Max(S) IN f[S \ {x}] + q[x].esclen]
<1>1. TakenBy(q) = iter[DOMAIN q]
  BY Zenon DEF TakenBy, FoldLeft, MapThenFoldSet
<1>2. ASSUME NEW f
      PROVE  Step(f) = [S \in SUBSET (1..n) |-> IF S = {} THEN 0 ELSE f[S \ {Max(S)}] + w[Max(S)]]
  <2>1. ASSUME NEW S \in SUBSET (1..n), S # {} PROVE w[Max(S)] = q[Max(S)].esclen
    <3>1. S \in SUBSET (0..n)
      OBVIOUS
    <3>2. Max(S) \in S
      BY <2>1, <3>1, MaxOf
    <3> QED BY <3>2
  <2>2. \A S \in SUBSET (1..n) : Step(f)[S] = IF S = {} THEN 0 ELSE f[S \ {Max(S)}] + q[Max(S)].esclen
    OBVIOUS
  <2>3. \A S \in SUBSET (1..n) : Step(f)[S] = IF S = {} THEN 0 ELSE f[S \ {Max(S)}] + w[Max(S)]
    <3> HIDE DEF Step, w
    <3> QED BY <2>1, <2>2
  <2>4. Step(f) = [S \in SUBSET (1..n) |-> Step(f)[S]]
    OBVIOUS
  <2> HIDE DEF Step, w
  <2> QED BY <2>3, <2>4
<1>3. \E f : f = Step(f)
  <2>1. \E f : Summing(f, n, w)
    <3>1. \A i \in 1..n : w[i] \in Nat
      OBVIOUS
    <3> HIDE DEF w
    <3> QED BY <3>1, SumExists
  <2> HIDE DEF Step, w
  <2> QED BY <1>2, <2>1 DEF Summing
<1>4. iter = Step(iter)
  BY <1>3, Zenon
<1> HIDE DEF iter
<1>5. Summing(iter, n, w)
  <2> HIDE DEF Step, w
  <2> QED BY <1>2, <1>4 DEF Summing
<1>6. \A i \in 1..n : t[i] = t[i - 1] + w[i]
  OBVIOUS
<1> HIDE DEF w
<1>7. iter[1..n] = t[n]
  BY <1>5, <1>6, SumIs
<1> QED BY <1>1, <1>7

\* quote_escape: whatever the text and the buffer, each piece with its end lies
\* in the buffer and stands by itself for the bytes taken, no escape in halves,
\* and nothing is left unless the buffer is too small for its first escape.
THEOREM EscapedInPiecesHolds == Spec => []EscapedInPieces
<1>1. TextInv => EscapedInPieces
  <2> DEFINE pieces(size) == EscapedPieces(text, size)
             Taken(size, k) == FoldLeft(LAMBDA sum, p : sum + p.esclen, 0, SubSeq(pieces(size), 1, k))
             Whole(size) ==
               /\ \A k \in DOMAIN pieces(size) :
                    /\ Len(pieces(size)[k].out) < size - 1
                    /\ Unescaped(pieces(size)[k].out)
                         = SubSeq(text, Taken(size, k - 1) + 1, Taken(size, k))
               /\ Taken(size, Len(pieces(size))) < Len(text) =>
                    Len(EscapeOf(text[Taken(size, Len(pieces(size))) + 1])) > size - 2
  <2> SUFFICES ASSUME TextInv, NEW size \in 2..Room PROVE Whole(size)
    BY Zenon DEF EscapedInPieces
  <2> DEFINE ps == pieces(size)
             n == Len(ps)
             L == Len(text)
  <2>1. text \in Seq(Bytes) /\ L \in Nat /\ size \in Nat /\ size >= 2
    BY LenProperties, TemplateTextAssumption DEF TextInv
  <2>2. PICK t : Calls(text, size, 0, ps, t)
    BY <2>1, PiecesAre
  <2>3. /\ n \in Nat /\ DOMAIN ps = 1..n /\ t \in [0..n -> 0..L] /\ t[0] = 0
        /\ \A k \in 1..n : /\ ps[k] = Piece(text, size, t[k - 1]) /\ ps[k].rv > 0
                           /\ t[k] = t[k - 1] + ps[k].esclen
        /\ Piece(text, size, t[n]).rv <= 0
    BY <2>2 DEF Calls
  <2> HIDE DEF ps, n
  <2>4. ASSUME NEW k \in 1..n
        PROVE  /\ ps[k].esclen \in Nat /\ Len(ps[k].out) < size - 1
               /\ Unescaped(ps[k].out) = SubSeq(text, t[k - 1] + 1, t[k])
    <3>1. t[k - 1] \in 0..L /\ ps[k] = Piece(text, size, t[k - 1]) /\ t[k] = t[k - 1] + ps[k].esclen
      <4>1. k - 1 \in 0..n
        BY <2>3
      <4> QED BY <2>3, <4>1
    <3> DEFINE a == t[k - 1]
    <3> HIDE DEF a
    <3>2. a \in 0..Len(text) /\ ps[k] = Piece(text, size, a) /\ t[k] = a + ps[k].esclen
      BY <3>1 DEF a
    <3>3. PICK e \in 0..(Len(text) - a) :
            /\ Piece(text, size, a).esclen = e
            /\ Len(Piece(text, size, a).out) < size - 1
            /\ Unescaped(Piece(text, size, a).out) = SubSeq(text, a + 1, a + e)
      BY <2>1, <3>2, PieceIs
    <3>4. e \in Nat
      BY <2>1, <3>2
    <3> QED BY <3>2, <3>3, <3>4 DEF a
  <2>5. ASSUME NEW k \in 0..n PROVE Taken(size, k) = t[k]
    <3> DEFINE q == SubSeq(ps, 1, k)
    <3>1. k \in Nat /\ DOMAIN q = 1..k /\ \A i \in 1..k : q[i] = ps[i] /\ i \in 1..n
      <4> DEFINE r == SubSeq(ps, 1, k)
      <4>1. PICK W : ps \in Seq(W)
        BY <2>1, PiecesAre DEF ps
      <4>2. k \in Nat /\ k <= n /\ n \in Nat
        BY <2>3
      <4>3. 1 \in Int /\ k \in Int /\ \A i \in 1..k : i \in 1..n /\ ps[i] \in W
        <5>1. \A i \in 1..n : ps[i] \in W
          BY <4>1, ElementOfSeq DEF n
        <5> QED BY <4>2, <5>1
      <4>4. /\ r \in Seq(W) /\ Len(r) = (IF 1 <= k THEN k - 1 + 1 ELSE 0)
            /\ \A i \in 1..(k - 1 + 1) : r[i] = ps[1 + i - 1]
        BY <4>3, SubSeqProperties
      <4>5. (IF 1 <= k THEN k - 1 + 1 ELSE 0) = k /\ k - 1 + 1 = k /\ \A i \in 1..k : 1 + i - 1 = i
        BY <4>2
      <4> HIDE DEF r
      <4>6. DOMAIN r = 1..k /\ \A i \in 1..k : r[i] = ps[i]
        <5>1. DOMAIN r = 1..Len(r)
          BY <4>4
        <5> QED BY <4>4, <4>5, <5>1
      <4> QED BY <4>2, <4>3, <4>6 DEF r
    <3>2. \A i \in 1..k : q[i].esclen \in Nat /\ t[i] = t[i - 1] + q[i].esclen
      BY <2>3, <2>4, <3>1
    <3> HIDE DEF q
    <3>3. TakenBy(q) = t[k]
      <4>1. k \in Nat /\ DOMAIN q = 1..k /\ t[0] = 0
        BY <2>3, <3>1
      <4> QED BY ONLY <3>2, <4>1, TakenIs, ZenonT(30)
    <3> QED BY <3>3, Zenon DEF q, ps, TakenBy
  <2>6. t[n] < L => Len(EscapeOf(text[t[n] + 1])) > size - 2
    <3> DEFINE a == t[n]
    <3>1. a \in 0..Len(text) /\ Piece(text, size, a).rv <= 0
      BY <2>3
    <3> HIDE DEF a
    <3>2. PICK e \in 0..(Len(text) - a) :
            /\ Piece(text, size, a).rv \in Nat /\ (Piece(text, size, a).rv = 0 <=> e = 0)
            /\ e = 0 /\ a < Len(text) => Len(EscapeOf(text[a + 1])) > size - 2
      BY <2>1, <3>1, PieceIs
    <3>3. e = 0
      BY <3>1, <3>2
    <3> QED BY <3>2, <3>3 DEF a
  <2>7. \A k \in 1..n : k \in 0..n /\ k - 1 \in 0..n
    BY <2>3
  <2>8. n \in 0..n
    BY <2>3
  <2> HIDE DEF Taken
  <2>9. \A k \in 1..n : Taken(size, k) = t[k] /\ Taken(size, k - 1) = t[k - 1]
    BY <2>5, <2>7
  <2>10. Taken(size, n) = t[n]
    BY <2>5, <2>8
  <2> QED BY <2>3, <2>4, <2>6, <2>9, <2>10 DEF ps, n
<1> QED BY <1>1, TextInvariant, PTL

(***************************************************************************)
(* Numbers with separators.                                                *)
(***************************************************************************)
Separator == ","
Cells == Range(Digit) \cup {Separator}

\* The number that is left behind j digits, and the j-th digit from the right.
Leavings(m, n) == m \in [Nat -> Nat] /\ m[0] = n /\ \A j \in Nat : m[j + 1] = m[j] \div 10
DigitOf(m, j) == Digit[(m[j] % 10) + 1]

\* It has d digits.
LastAt(m, d) == d \in Nat \ {0} /\ m[d] = 0 /\ \A j \in 1..(d - 1) : m[j] > 0

LEMMA DigitIs == \A x \in Nat : Digit[(x % 10) + 1] \in Range(Digit)
<1>1. SUFFICES ASSUME NEW x \in Nat PROVE Digit[(x % 10) + 1] \in Range(Digit)
  OBVIOUS
<1>2. (x % 10) + 1 \in 1..10
  OBVIOUS
<1>3. DOMAIN Digit = 1..10
  BY DEF Digit
<1> QED BY <1>2, <1>3 DEF Range

LEMMA LeavingsExist ==
  ASSUME NEW n \in Nat
  PROVE  \E m, d : Leavings(m, n) /\ LastAt(m, d)
<1> DEFINE mu == [j \in Nat |-> j]
           Stop == {0}
           base == [j \in Nat |-> n]
           next == [j \in Nat |-> IF j = 0 THEN 0 ELSE j - 1]
           comb == [j \in Nat |-> [v \in Nat |-> v \div 10]]
<1>1. /\ mu \in [Nat -> Nat] /\ base \in [Nat -> Nat] /\ next \in [Nat -> Nat]
      /\ comb \in [Nat -> [Nat -> Nat]] /\ \A j \in Nat : j \notin Stop => mu[next[j]] < mu[j]
  OBVIOUS
<1>2. PICK m : Computed(m, Nat, Nat, Stop, base, next, comb)
  <2> HIDE DEF mu, Stop, base, next, comb
  <2>1. GoesDown(Nat, Nat, mu, Stop, base, next, comb)
    BY <1>1 DEF GoesDown
  <2> QED BY <2>1, RecursionExists
<1>3. /\ m \in [Nat -> Nat]
      /\ \A j \in Nat : m[j] = IF j \in Stop THEN base[j] ELSE comb[j][m[next[j]]]
  BY <1>2, Zenon DEF Computed
<1>4. Leavings(m, n)
  <2>1. m[0] = n
    BY <1>3
  <2>2. ASSUME NEW j \in Nat PROVE m[j + 1] = m[j] \div 10
    <3>1. j + 1 \in Nat /\ j + 1 \notin Stop /\ next[j + 1] = j
      OBVIOUS
    <3>2. m[j + 1] = comb[j + 1][m[j]]
      BY <1>3, <3>1
    <3> QED BY <1>3, <3>1, <3>2
  <2> QED BY <1>3, <2>1, <2>2 DEF Leavings
<1> DEFINE S == {j \in Nat : m[j] = 0 \/ m[j] + j <= n}
<1>5. \A j \in Nat : m[j] \in Nat /\ m[j + 1] = m[j] \div 10 /\ m[j + 1] \in Nat
  BY <1>3, <1>4 DEF Leavings
<1>6. 0 \in S
  BY <1>4 DEF Leavings
<1>7. \A j \in Nat : j \in S => j + 1 \in S
  <2>1. ASSUME NEW j \in Nat, j \in S PROVE j + 1 \in S
    <3>1. \A x \in Nat : x = 0 \/ x \div 10 < x
      OBVIOUS
    <3>2. \A x \in Nat : x = 0 => x \div 10 = 0
      OBVIOUS
    <3>3. m[j] = 0 => m[j + 1] = 0
      BY <1>5, <3>2
    <3>4. m[j] # 0 => m[j + 1] + 1 <= m[j]
      <4>1. \A x \in Nat : x # 0 => x \div 10 + 1 <= x
        OBVIOUS
      <4> QED BY <1>5, <4>1
    <3> QED BY <1>5, <2>1, <3>3, <3>4
  <2> QED BY <2>1
<1>8. \A j \in Nat : j \in S
  <2> HIDE DEF S
  <2> QED BY <1>6, <1>7, NatBySteps
<1>9. n + 1 \in Nat \ {0} /\ m[n + 1] = 0
  <2>1. n + 1 \in S
    BY <1>8
  <2> QED BY <1>5, <2>1
<1> DEFINE Ends == {d \in Nat \ {0} : m[d] = 0}
<1>10. PICK d \in Ends : \A e \in Ends : d <= e
  <2>1. Ends \in SUBSET Nat /\ n + 1 \in Ends
    BY <1>9
  <2> HIDE DEF Ends
  <2> QED BY <2>1, LeastOf
<1>11. \A j \in 1..(d - 1) : m[j] > 0
  <2>1. ASSUME NEW j \in 1..(d - 1) PROVE m[j] > 0
    <3>1. j \in Nat \ {0} /\ ~(d <= j)
      OBVIOUS
    <3>2. m[j] # 0
      BY <1>10, <3>1
    <3> QED BY <1>5, <3>1, <3>2
  <2> QED BY <2>1
<1>12. LastAt(m, d)
  BY <1>11 DEF LastAt
<1> QED BY <1>4, <1>12

\* "%d" from its last digit.
LEMMA DecimalIs ==
  ASSUME NEW x \in Nat
  PROVE  /\ Decimal(x) \in Seq(Cells)
         /\ x < 10 => Decimal(x) = <<Digit[(x % 10) + 1]>>
         /\ x >= 10 => Decimal(x) = Decimal(x \div 10) \o <<Digit[(x % 10) + 1]>>
         /\ x > 0 => Decimal(-x) = <<"-">> \o Decimal(x)
<1> DEFINE From[m \in Nat] == (IF m < 10 THEN <<>> ELSE From[m \div 10]) \o <<Digit[(m % 10) + 1]>>
           Step(f) == [m \in Nat |->
             (IF m < 10 THEN <<>> ELSE f[m \div 10]) \o <<Digit[(m % 10) + 1]>>]
           last == [m \in Nat |-> <<Digit[(m % 10) + 1]>>]
           mu == [m \in Nat |-> m]
           Stop == {m \in Nat : m < 10}
           base == [m \in Nat |-> <<>> \o last[m]]
           next == [m \in Nat |-> m \div 10]
           comb == [m \in Nat |-> [v \in Seq(Cells) |-> v \o last[m]]]
<1>1. ASSUME NEW m \in Nat
      PROVE  last[m] = <<Digit[(m % 10) + 1]>> /\ last[m] \in Seq(Cells) /\ <<>> \o last[m] = last[m]
  <2>1. Digit[(m % 10) + 1] \in Cells
    BY DigitIs DEF Cells
  <2>2. last[m] = <<Digit[(m % 10) + 1]>>
    OBVIOUS
  <2>3. last[m] \in Seq(Cells)
    BY <2>1, <2>2
  <2> QED BY <2>2, <2>3, ConcatEmptySeq
<1> HIDE DEF last
<1>2. mu \in [Nat -> Nat] /\ next \in [Nat -> Nat] /\ \A m \in Nat : m \notin Stop => mu[next[m]] < mu[m]
  <2>1. \A m \in Nat : m \div 10 \in Nat /\ (~(m < 10) => m \div 10 < m)
    OBVIOUS
  <2> QED BY <2>1
<1>3. base \in [Nat -> Seq(Cells)] /\ comb \in [Nat -> [Seq(Cells) -> Seq(Cells)]]
  <2>1. base \in [Nat -> Seq(Cells)]
    BY <1>1
  <2>2. ASSUME NEW m \in Nat, NEW v \in Seq(Cells) PROVE v \o last[m] \in Seq(Cells)
    BY <1>1, ConcatProperties
  <2> QED BY <2>1, <2>2
<1>4. PICK g : Computed(g, Nat, Seq(Cells), Stop, base, next, comb)
  <2> HIDE DEF mu, Stop, base, next, comb
  <2>1. GoesDown(Nat, Seq(Cells), mu, Stop, base, next, comb)
    BY <1>2, <1>3 DEF GoesDown
  <2> QED BY <2>1, RecursionExists
<1>5. /\ g \in [Nat -> Seq(Cells)]
      /\ \A m \in Nat : g[m] = IF m \in Stop THEN base[m] ELSE comb[m][g[next[m]]]
  BY <1>4, Zenon DEF Computed
<1>6. ASSUME NEW m \in Nat
      PROVE  g[m] = (IF m < 10 THEN <<>> ELSE g[m \div 10]) \o last[m]
  <2>1. m \div 10 \in Nat /\ next[m] = m \div 10
    OBVIOUS
  <2>2. g[m \div 10] \in Seq(Cells)
    BY <1>5, <2>1
  <2>3. comb[m][g[next[m]]] = g[m \div 10] \o last[m] /\ base[m] = <<>> \o last[m]
    BY <2>1, <2>2
  <2>4. m \in Stop <=> m < 10
    OBVIOUS
  <2> HIDE DEF Stop, base, comb, next
  <2> QED BY <1>5, <2>3, <2>4
<1>7. \E f : f = Step(f)
  <2>1. \A m \in Nat : g[m] = Step(g)[m]
    BY <1>1, <1>6
  <2>2. g = [m \in Nat |-> g[m]] /\ Step(g) = [m \in Nat |-> Step(g)[m]]
    BY <1>5
  <2> HIDE DEF Step
  <2> QED BY <2>1, <2>2
<1>8. From = Step(From)
  BY <1>7, Zenon
<1>9. /\ x \div 10 \in Nat /\ ~(x < 0) /\ ~(x \div 10 < 0) /\ (x > 0 => -x < 0) /\ -(-x) = x
  OBVIOUS
<1>10. /\ Decimal(x) = IF x < 0 THEN <<"-">> \o From[-x] ELSE From[x]
       /\ Decimal(-x) = IF -x < 0 THEN <<"-">> \o From[-(-x)] ELSE From[-x]
       /\ Decimal(x \div 10) = IF x \div 10 < 0 THEN <<"-">> \o From[-(x \div 10)] ELSE From[x \div 10]
  BY Zenon DEF Decimal
<1> HIDE DEF From
<1>11. Decimal(x) = From[x] /\ Decimal(x \div 10) = From[x \div 10]
       /\ (x > 0 => Decimal(-x) = <<"-">> \o From[x])
  BY <1>9, <1>10
<1>12. ASSUME NEW m \in Nat
       PROVE  /\ m < 10 => From[m] = last[m]
              /\ ~(m < 10) => From[m] = From[m \div 10] \o last[m]
  <2>1. From[m] = Step(From)[m]
    BY <1>8, Zenon
  <2>2. From[m] = (IF m < 10 THEN <<>> ELSE From[m \div 10]) \o last[m]
    BY <1>1, <2>1
  <2>3. m < 10 => From[m] = <<>> \o last[m]
    BY <2>2, Zenon
  <2>4. ~(m < 10) => From[m] = From[m \div 10] \o last[m]
    BY <2>2, Zenon
  <2> QED BY <1>1, <2>3, <2>4
<1> DEFINE T == {m \in Nat : From[m] \in Seq(Cells)}
<1>13. ASSUME NEW m \in Nat, \A i \in Nat : mu[i] < mu[m] => i \in T PROVE m \in T
  <2>1. m < 10 => From[m] = last[m]
    BY <1>1, <1>12
  <2>2. ~(m < 10) => m \div 10 \in T
    <3>1. \A y \in Nat : ~(y < 10) => y \div 10 < y /\ y \div 10 \in Nat
      OBVIOUS
    <3>2. ~(m < 10) => mu[m \div 10] < mu[m] /\ m \div 10 \in Nat
      BY <3>1
    <3> HIDE DEF mu, T
    <3> QED BY <1>13, <3>2
  <2>3. ~(m < 10) => From[m] = From[m \div 10] \o last[m]
    BY <1>12
  <2>4. ~(m < 10) => From[m \div 10] \o last[m] \in Seq(Cells)
    BY <1>1, <2>2, ConcatProperties
  <2> QED BY <1>1, <2>1, <2>3, <2>4
<1>14. \A m \in Nat : m \in T
  <2> HIDE DEF T, mu
  <2>1. Inherited(Nat, mu, T)
    BY <1>2, <1>13 DEF Inherited
  <2> QED BY <2>1, ByMeasure, Zenon
<1>15. From[x] \in Seq(Cells)
  BY <1>14
<1>16. /\ x < 10 => From[x] = last[x]
       /\ x >= 10 => From[x] = From[x \div 10] \o last[x]
  <2>1. x >= 10 <=> ~(x < 10)
    OBVIOUS
  <2> QED BY <1>12, <2>1
<1> QED BY <1>1, <1>11, <1>15, <1>16

\* A sequence with one more element.
LEMMA Behind ==
  ASSUME NEW W, NEW c \in W, NEW q \in Seq(W)
  PROVE  /\ q \o <<c>> \in Seq(W) /\ Len(q \o <<c>>) = Len(q) + 1 /\ (q \o <<c>>)[Len(q) + 1] = c
         /\ \A k \in 1..Len(q) : (q \o <<c>>)[k] = q[k]
<1> DEFINE one == <<c>>
<1>1. one \in Seq(W) /\ Len(one) = 1 /\ one[1] = c
  OBVIOUS
<1> HIDE DEF one
<1>2. /\ q \o one \in Seq(W) /\ Len(q \o one) = Len(q) + Len(one)
      /\ \A k \in 1..Len(q) : (q \o one)[k] = q[k]
      /\ \A k \in 1..Len(one) : (q \o one)[Len(q) + k] = one[k]
  <2>1. one \in Seq(W) /\ q \in Seq(W)
    BY <1>1
  <2> QED BY ONLY <2>1, ConcatPlaces
<1>3. 1 \in 1..1
  OBVIOUS
<1>4. /\ q \o one \in Seq(W) /\ Len(q \o one) = Len(q) + 1 /\ (q \o one)[Len(q) + 1] = c
      /\ \A k \in 1..Len(q) : (q \o one)[k] = q[k]
  BY <1>1, <1>2, <1>3
<1> QED BY <1>4 DEF one

\* The digits of what is left behind j digits are the first d - j of the number.
LEMMA DecimalDigits ==
  ASSUME NEW n \in Nat, NEW m, NEW d, Leavings(m, n), LastAt(m, d), NEW j \in 0..(d - 1)
  PROVE  /\ Decimal(m[j]) \in Seq(Cells) /\ Len(Decimal(m[j])) = d - j
         /\ \A p \in 1..(d - j) : Decimal(m[j])[p] = DigitOf(m, d - p)
<1> DEFINE Told(i) == /\ Decimal(m[i]) \in Seq(Cells) /\ Len(Decimal(m[i])) = d - i
                      /\ \A p \in 1..(d - i) : Decimal(m[i])[p] = DigitOf(m, d - p)
           S == {i \in Nat : i < d => Told(d - 1 - i)}
<1>1. d \in Nat /\ d >= 1 /\ m[d] = 0 /\ \A i \in 1..(d - 1) : m[i] > 0
  BY DEF LastAt
<1>2. \A i \in Nat : m[i] \in Nat /\ m[i + 1] = m[i] \div 10
  BY DEF Leavings
<1>3. 0 \in S
  <2> DEFINE e == d - 1
  <2>1. e \in Nat /\ e + 1 = d /\ d - e = 1 /\ d - 1 - 0 = e
    BY <1>1
  <2> HIDE DEF e
  <2>2. m[e] \in Nat /\ m[e] \div 10 = 0
    BY <1>1, <1>2, <2>1
  <2>3. \A x \in Nat : x \div 10 = 0 => x < 10
    OBVIOUS
  <2>4. m[e] < 10
    BY <2>2, <2>3
  <2>5. Decimal(m[e]) \in Seq(Cells) /\ Decimal(m[e]) = <<DigitOf(m, e)>>
    BY <2>2, <2>4, DecimalIs DEF DigitOf
  <2>6. Len(Decimal(m[e])) = 1 /\ Decimal(m[e])[1] = DigitOf(m, e)
    BY <2>5
  <2>7. ASSUME NEW p \in 1..(d - e) PROVE Decimal(m[e])[p] = DigitOf(m, d - p)
    <3>1. p = 1 /\ d - p = e
      BY <1>1, <2>1
    <3> QED BY <2>6, <3>1
  <2>8. Told(e)
    BY <2>1, <2>5, <2>6, <2>7
  <2> HIDE DEF Told
  <2> QED BY <2>1, <2>8
<1>4. \A i \in Nat : i \in S => i + 1 \in S
  <2>1. SUFFICES ASSUME NEW i \in Nat, i \in S, i + 1 < d PROVE Told(d - 1 - (i + 1))
    OBVIOUS
  <2> DEFINE e == d - 1 - (i + 1)
  <2>2. e \in Nat /\ e + 1 = d - 1 - i /\ e + 1 \in 1..(d - 1) /\ d - e = (d - (e + 1)) + 1 /\ e < d
    BY <1>1, <2>1
  <2>3. Told(e + 1)
    <3>1. i < d
      BY <1>1, <2>1
    <3>2. Told(d - 1 - i)
      BY <2>1, <3>1
    <3> HIDE DEF Told, e
    <3> QED BY <2>2, <3>2
  <2> HIDE DEF e
  <2>4. m[e] \in Nat /\ m[e] \div 10 = m[e + 1] /\ m[e + 1] > 0
    BY <1>1, <1>2, <2>2
  <2>5. \A x \in Nat : x \div 10 > 0 => x >= 10
    OBVIOUS
  <2>6. m[e] >= 10
    BY <2>4, <2>5
  <2> DEFINE u == Decimal(m[e + 1])
             v == Decimal(m[e])
             c == DigitOf(m, e)
  <2>7. v = u \o <<c>>
    BY <2>4, <2>6, DecimalIs DEF DigitOf
  <2>8. u \in Seq(Cells) /\ Len(u) = d - (e + 1) /\ \A p \in 1..(d - (e + 1)) : u[p] = DigitOf(m, d - p)
    BY <2>3
  <2>9. c \in Cells
    BY <2>4, DigitIs DEF DigitOf, Cells
  <2> HIDE DEF u, v, c
  <2>10. /\ u \o <<c>> \in Seq(Cells) /\ Len(u \o <<c>>) = Len(u) + 1 /\ (u \o <<c>>)[Len(u) + 1] = c
         /\ \A k \in 1..Len(u) : (u \o <<c>>)[k] = u[k]
    BY <2>8, <2>9, Behind
  <2>11. v \in Seq(Cells) /\ Len(v) = d - e /\ v[d - e] = c /\ \A k \in 1..(d - (e + 1)) : v[k] = u[k]
    BY <2>2, <2>7, <2>8, <2>10
  <2>12. ASSUME NEW p \in 1..(d - e) PROVE v[p] = DigitOf(m, d - p)
    <3>1. CASE p = d - e
      <4>1. d - p = e
        BY <1>1, <2>2, <3>1
      <4> QED BY <2>11, <3>1, <4>1 DEF c
    <3>2. CASE p # d - e
      <4>1. p \in 1..(d - (e + 1))
        BY <1>1, <2>2, <3>2
      <4> QED BY <2>8, <2>11, <4>1
    <3> QED BY <3>1, <3>2
  <2>13. Told(e)
    BY <2>11, <2>12 DEF v
  <2> QED BY <2>13 DEF e
<1>5. \A i \in Nat : i \in S
  <2> HIDE DEF S
  <2> QED BY <1>3, <1>4, NatBySteps
<1>6. d - 1 - j \in S /\ d - 1 - j \in Nat /\ d - 1 - j < d /\ d - 1 - (d - 1 - j) = j
  <2>1. d - 1 - j \in Nat /\ d - 1 - j < d /\ d - 1 - (d - 1 - j) = j
    BY <1>1
  <2> HIDE DEF S
  <2> QED BY <1>5, <2>1
<1>7. Told(j)
  <2> HIDE DEF Told
  <2> QED BY <1>6
<1> QED BY <1>7

\* The groups of k that are full behind q digits; whether one is full there.
Groups(k, q) == q \div k
Due(k, q) == q % k = 0

LEMMA GroupsAre ==
  ASSUME NEW k \in {1, 2, 3}, NEW q \in Nat
  PROVE  /\ Groups(k, q) \in Nat /\ Groups(k, 0) = 0
         /\ Due(k, q + 1) => Groups(k, q + 1) = Groups(k, q) + 1
         /\ ~Due(k, q + 1) => Groups(k, q + 1) = Groups(k, q)
         /\ \A i \in 0..q : Groups(k, i) \in Nat /\ Groups(k, i) <= Groups(k, q)
<1>1. CASE k = 1
  BY <1>1 DEF Groups, Due
<1>2. CASE k = 2
  BY <1>2 DEF Groups, Due
<1>3. CASE k = 3
  BY <1>3 DEF Groups, Due
<1> QED BY <1>1, <1>2, <1>3

\* Where the bytes written tell that a group is full.
LEMMA DueAt ==
  ASSUME NEW k \in {1, 2, 3}, NEW q \in Nat
  PROVE  (q + 1 + Groups(k, q) + 1) % (k + 1) = 0 <=> Due(k, q + 1)
<1>1. CASE k = 1
  BY <1>1 DEF Groups, Due
<1>2. CASE k = 2
  BY <1>2 DEF Groups, Due
<1>3. CASE k = 3
  BY <1>3 DEF Groups, Due
<1> QED BY <1>1, <1>2, <1>3

LEMMA DueWhere ==
  ASSUME NEW k \in {1, 2, 3}, NEW q \in Nat \ {0}, Groups(k, q) # Groups(k, q - 1)
  PROVE  Due(k, q)
<1> DEFINE r == q - 1
<1>1. r \in Nat /\ q = r + 1
  OBVIOUS
<1> HIDE DEF r
<1>2. ~Due(k, r + 1) => Groups(k, r + 1) = Groups(k, r)
  BY <1>1, GroupsAre
<1>3. Groups(k, q) # Groups(k, r)
  BY DEF r
<1> QED BY <1>1, <1>2, <1>3

(***************************************************************************)
(* The loop of temp_itoa: one round takes the last digit, and puts a comma *)
(* behind it where one is due.                                             *)
(***************************************************************************)
States == [left : Nat, out : Seq(Cells)]

Added(at, size, k) ==
  LET one == Append(at.out, Digit[(at.left % 10) + 1])
  IN  IF Comma(at.left \div 10, Len(one), size, k) THEN Append(one, Separator) ELSE one

After(at, size, k) == [left |-> at.left \div 10, out |-> Added(at, size, k)]

GoesOn(at, size) == at.left > 0 /\ Len(at.out) < size

Loops(f, size, k) ==
  \A at \in States : f[at] = IF GoesOn(After(at, size, k), size) THEN f[After(at, size, k)]
                             ELSE After(at, size, k)

\* What is made of what the loop leaves.
Finished(n, size, end) ==
  LET signed == IF n < 0 /\ Len(end.out) < size THEN Append(end.out, "-") ELSE end.out
  IN  IF Len(signed) < size THEN [rv |-> Len(signed), out |-> Reverse(signed)]
      ELSE Printed(Decimal(end.left), size)

LEMMA AfterIs ==
  ASSUME NEW at \in States, NEW size, NEW k
  PROVE  /\ After(at, size, k) \in States
         /\ After(at, size, k).left = at.left \div 10 /\ After(at, size, k).out = Added(at, size, k)
         /\ GoesOn(After(at, size, k), size) => After(at, size, k).left < at.left
<1>1. at.left \in Nat /\ at.out \in Seq(Cells)
  BY DEF States
<1>2. Digit[(at.left % 10) + 1] \in Cells /\ Separator \in Cells
  BY <1>1, DigitIs DEF Cells
<1>3. Added(at, size, k) \in Seq(Cells)
  BY <1>1, <1>2, AppendProperties DEF Added
<1>4. \A x \in Nat : x \div 10 \in Nat /\ (x \div 10 > 0 => x \div 10 < x)
  OBVIOUS
<1> QED BY <1>1, <1>3, <1>4 DEF After, States, GoesOn

LEMMA ItoaIs ==
  ASSUME NEW n \in Int, NEW size \in Nat \ {0}, NEW k \in Nat \ {0}
  PROVE  \E f : /\ Loops(f, size, k)
                /\ temp_itoa(n, size, k)
                     = Finished(n, size, f[[left |-> IF n < 0 THEN -n ELSE n, out |-> <<>>]])
<1> DEFINE Loop[at \in [left : Nat, out : Seq(Range(Digit) \cup {","})]] ==
             LET one  == Append(at.out, Digit[(at.left % 10) + 1])
                 rest == at.left \div 10
                 out  == IF Comma(rest, Len(one), size, k) THEN Append(one, ",") ELSE one
                 next == [left |-> rest, out |-> out]
             IN  IF rest > 0 /\ Len(out) < size THEN Loop[next] ELSE next
           Step(f) == [at \in [left : Nat, out : Seq(Range(Digit) \cup {","})] |->
             LET one  == Append(at.out, Digit[(at.left % 10) + 1])
                 rest == at.left \div 10
                 out  == IF Comma(rest, Len(one), size, k) THEN Append(one, ",") ELSE one
                 next == [left |-> rest, out |-> out]
             IN  IF rest > 0 /\ Len(out) < size THEN f[next] ELSE next]
           aft == [at \in States |-> After(at, size, k)]
           mu == [at \in States |-> at.left]
           Stop == {at \in States : ~GoesOn(After(at, size, k), size)}
           comb == [at \in States |-> [v \in States |-> v]]
<1>1. ASSUME NEW at \in States
      PROVE  /\ aft[at] = After(at, size, k) /\ aft[at] \in States
             /\ at \notin Stop => aft[at].left < at.left
  BY AfterIs
<1>2. /\ mu \in [States -> Nat] /\ aft \in [States -> States] /\ comb \in [States -> [States -> States]]
      /\ \A at \in States : at \notin Stop => mu[aft[at]] < mu[at]
  <2>1. \A at \in States : at.left \in Nat
    BY DEF States
  <2>2. mu \in [States -> Nat]
    BY <2>1
  <2>3. aft \in [States -> States]
    BY <1>1
  <2>4. \A at \in States : at \notin Stop => mu[aft[at]] < mu[at]
    <3> HIDE DEF aft, Stop
    <3> QED BY <1>1
  <2> QED BY <2>2, <2>3, <2>4
<1>3. PICK g : Computed(g, States, States, Stop, aft, aft, comb)
  <2> HIDE DEF mu, Stop, aft, comb
  <2>1. GoesDown(States, States, mu, Stop, aft, aft, comb)
    BY <1>2 DEF GoesDown
  <2> QED BY <2>1, RecursionExists
<1>4. /\ g \in [States -> States]
      /\ \A at \in States : g[at] = IF at \in Stop THEN aft[at] ELSE comb[at][g[aft[at]]]
  BY <1>3, Zenon DEF Computed
<1>5. ASSUME NEW at \in States
      PROVE  g[at] = IF GoesOn(After(at, size, k), size) THEN g[After(at, size, k)]
                     ELSE After(at, size, k)
  <2>1. g[aft[at]] \in States
    BY <1>1, <1>4
  <2>2. comb[at][g[aft[at]]] = g[aft[at]]
    BY <2>1
  <2>3. at \in Stop <=> ~GoesOn(After(at, size, k), size)
    OBVIOUS
  <2> HIDE DEF Stop, comb, aft
  <2> QED BY <1>1, <1>4, <2>2, <2>3
<1>6. ASSUME NEW f, NEW at \in States
      PROVE  Step(f)[at] = IF GoesOn(After(at, size, k), size) THEN f[After(at, size, k)]
                           ELSE After(at, size, k)
  BY Zenon DEF States, Cells, Separator, GoesOn, After, Added
<1>7. \E f : f = Step(f)
  <2>1. \A at \in States : g[at] = Step(g)[at]
    <3> HIDE DEF Step, Stop, aft, comb
    <3> QED BY <1>5, <1>6
  <2>2. g = [at \in States |-> g[at]] /\ Step(g) = [at \in States |-> Step(g)[at]]
    BY <1>4, Zenon DEF States, Cells, Separator
  <2> HIDE DEF Step
  <2> QED BY <2>1, <2>2
<1>8. Loop = Step(Loop)
  BY <1>7, Zenon
<1>9. temp_itoa(n, size, k) = Finished(n, size, Loop[[left |-> IF n < 0 THEN -n ELSE n, out |-> <<>>]])
  <2>1. ~(size < 1) /\ ~(k < 1)
    OBVIOUS
  <2> QED BY <2>1, Zenon DEF temp_itoa, Finished
<1> HIDE DEF Loop
<1>10. Loops(Loop, size, k)
  <2>1. \A at \in States : Loop[at] = Step(Loop)[at]
    BY <1>8, Zenon
  <2> HIDE DEF Step
  <2> QED BY <1>6, <2>1 DEF Loops
<1> QED BY <1>9, <1>10

\* j digits from the right stand in out, with commas behind those up to l.
Grouped(out, m, k, j, l) ==
  /\ out \in Seq(Cells) /\ Len(out) = j + Groups(k, l)
  /\ \A q \in 0..(j - 1) : out[q + 1 + Groups(k, q)] = DigitOf(m, q)
  /\ \A q \in 1..l : Due(k, q) => out[q + Groups(k, q)] = Separator

LEMMA OneMore ==
  ASSUME NEW W, NEW s \in Seq(W), NEW c \in W
  PROVE  /\ Append(s, c) \in Seq(W) /\ Len(Append(s, c)) = Len(s) + 1 /\ Append(s, c)[Len(s) + 1] = c
         /\ \A i \in 1..Len(s) : Append(s, c)[i] = s[i]
BY AppendProperties, LenProperties

LEMMA DigitAdded ==
  ASSUME NEW m, NEW n, Leavings(m, n), NEW k \in {1, 2, 3}, NEW j \in Nat, NEW out,
         Grouped(out, m, k, j, j)
  PROVE  Grouped(Append(out, DigitOf(m, j)), m, k, j + 1, j)
<1> DEFINE one == Append(out, DigitOf(m, j))
<1>1. out \in Seq(Cells) /\ Len(out) = j + Groups(k, j)
  BY DEF Grouped
<1>2. DigitOf(m, j) \in Cells
  <2>1. m[j] \in Nat
    BY DEF Leavings
  <2> QED BY <2>1, DigitIs DEF DigitOf, Cells
<1>3. /\ one \in Seq(Cells) /\ Len(one) = Len(out) + 1 /\ one[Len(out) + 1] = DigitOf(m, j)
      /\ \A i \in 1..Len(out) : one[i] = out[i]
  BY <1>1, <1>2, OneMore
<1> HIDE DEF one
<1>4. Groups(k, j) \in Nat /\ \A q \in 0..j : Groups(k, q) \in Nat /\ Groups(k, q) <= Groups(k, j)
  BY GroupsAre
<1>5. Len(one) = j + 1 + Groups(k, j)
  BY <1>1, <1>3, <1>4
<1>6. ASSUME NEW q \in 0..(j + 1 - 1) PROVE one[q + 1 + Groups(k, q)] = DigitOf(m, q)
  <2>1. CASE q = j
    <3>1. Len(out) + 1 = q + 1 + Groups(k, q)
      BY <1>1, <1>4, <2>1
    <3> QED BY <1>3, <2>1, <3>1
  <2>2. CASE q # j
    <3>1. q \in 0..(j - 1) /\ q \in 0..j /\ q < j
      BY <2>2
    <3>2. q + 1 + Groups(k, q) \in 1..Len(out)
      BY <1>1, <1>4, <3>1
    <3> QED BY <1>3, <3>1, <3>2 DEF Grouped
  <2> QED BY <2>1, <2>2
<1>7. ASSUME NEW q \in 1..j, Due(k, q) PROVE one[q + Groups(k, q)] = Separator
  <2>1. q + Groups(k, q) \in 1..Len(out)
    <3>1. q \in 0..j
      OBVIOUS
    <3> QED BY <1>1, <1>4, <3>1
  <2> QED BY <1>3, <1>7, <2>1 DEF Grouped
<1>8. Grouped(one, m, k, j + 1, j)
  <2>1. one \in Seq(Cells) /\ Len(one) = (j + 1) + Groups(k, j)
    BY <1>3, <1>5
  <2> QED BY <1>6, <1>7, <2>1 DEF Grouped
<1> QED BY <1>8 DEF one

LEMMA CommaAdded ==
  ASSUME NEW m, NEW k \in {1, 2, 3}, NEW j \in Nat, NEW one, Grouped(one, m, k, j + 1, j)
  PROVE  /\ ~Due(k, j + 1) => Grouped(one, m, k, j + 1, j + 1)
         /\ Due(k, j + 1) => Grouped(Append(one, Separator), m, k, j + 1, j + 1)
         /\ (Len(one) + 1) % (k + 1) = 0 <=> Due(k, j + 1)
         /\ Len(one) <= (j + 1) + Groups(k, j + 1)
<1> DEFINE c == Append(one, Separator)
<1>1. one \in Seq(Cells) /\ Len(one) = j + 1 + Groups(k, j)
  BY DEF Grouped
<1>2. /\ Groups(k, j) \in Nat
      /\ Due(k, j + 1) => Groups(k, j + 1) = Groups(k, j) + 1
      /\ ~Due(k, j + 1) => Groups(k, j + 1) = Groups(k, j)
      /\ \A i \in 0..j : Groups(k, i) \in Nat /\ Groups(k, i) <= Groups(k, j)
  BY GroupsAre
<1>3. /\ c \in Seq(Cells) /\ Len(c) = Len(one) + 1 /\ c[Len(one) + 1] = Separator
      /\ \A i \in 1..Len(one) : c[i] = one[i]
  <2>1. Separator \in Cells
    BY DEF Cells
  <2> QED BY <1>1, <2>1, OneMore
<1> HIDE DEF c
<1>4. ASSUME ~Due(k, j + 1) PROVE Grouped(one, m, k, j + 1, j + 1)
  <2>1. Len(one) = j + 1 + Groups(k, j + 1)
    BY <1>1, <1>2, <1>4
  <2>2. ASSUME NEW q \in 1..(j + 1), Due(k, q) PROVE one[q + Groups(k, q)] = Separator
    <3>1. q # j + 1
      BY <1>4, <2>2
    <3>2. q \in 1..j
      BY <3>1
    <3> QED BY <2>2, <3>2 DEF Grouped
  <2> QED BY <2>1, <2>2 DEF Grouped
<1>5. ASSUME Due(k, j + 1) PROVE Grouped(c, m, k, j + 1, j + 1)
  <2>1. Len(c) = j + 1 + Groups(k, j + 1)
    BY <1>1, <1>2, <1>3, <1>5
  <2>2. ASSUME NEW q \in 0..(j + 1 - 1) PROVE c[q + 1 + Groups(k, q)] = DigitOf(m, q)
    <3>1. q + 1 + Groups(k, q) \in 1..Len(one)
      <4>1. q \in 0..j
        OBVIOUS
      <4> QED BY <1>1, <1>2, <4>1
    <3>2. one[q + 1 + Groups(k, q)] = DigitOf(m, q)
      BY DEF Grouped
    <3> QED BY <1>3, <3>1, <3>2
  <2>3. ASSUME NEW q \in 1..(j + 1), Due(k, q) PROVE c[q + Groups(k, q)] = Separator
    <3>1. CASE q = j + 1
      <4>1. Len(one) + 1 = q + Groups(k, q)
        BY <1>1, <1>2, <1>5, <3>1
      <4> QED BY <1>3, <4>1
    <3>2. CASE q # j + 1
      <4>1. q \in 1..j /\ q \in 0..j
        BY <3>2
      <4>2. q + Groups(k, q) \in 1..Len(one)
        BY <1>1, <1>2, <4>1
      <4> QED BY <1>3, <2>3, <4>1, <4>2 DEF Grouped
    <3> QED BY <3>1, <3>2
  <2>4. c \in Seq(Cells) /\ Len(c) = (j + 1) + Groups(k, j + 1)
    BY <1>3, <2>1
  <2> QED BY <2>2, <2>3, <2>4 DEF Grouped
<1>6. Len(one) + 1 = j + 1 + Groups(k, j) + 1 /\ Len(one) <= (j + 1) + Groups(k, j + 1)
  BY <1>1, <1>2
<1>7. (Len(one) + 1) % (k + 1) = 0 <=> Due(k, j + 1)
  BY <1>6, DueAt
<1> QED BY <1>4, <1>5, <1>6, <1>7 DEF c

\* One round, with j digits taken before it.
LEMMA RoundOf ==
  ASSUME NEW n \in Nat, NEW m, NEW d, Leavings(m, n), LastAt(m, d), NEW k \in {1, 2, 3},
         NEW size \in Nat \ {0}, NEW j \in 0..(d - 1), NEW out, Grouped(out, m, k, j, j),
         NEW nxt, nxt = After([left |-> m[j], out |-> out], size, k)
  PROVE  /\ nxt \in States /\ nxt.left = m[j + 1] /\ nxt.out \in Seq(Cells)
         /\ j + 1 = d => Grouped(nxt.out, m, k, d, d - 1)
         /\ j + 1 < d => \/ Grouped(nxt.out, m, k, j + 1, j + 1)
                         \/ size <= Len(nxt.out) /\ Len(nxt.out) <= (j + 1) + Groups(k, j + 1)
<1> DEFINE at == [left |-> m[j], out |-> out]
           one == Append(out, DigitOf(m, j))
<1>1. d \in Nat /\ j \in Nat /\ m[d] = 0 /\ \A i \in 1..(d - 1) : m[i] > 0
  BY DEF LastAt
<1>2. m[j] \in Nat /\ m[j + 1] = m[j] \div 10 /\ m[j + 1] \in Nat
  BY <1>1 DEF Leavings
<1>3. at \in States /\ at.left = m[j] /\ at.out = out
  BY <1>2 DEF States, Grouped
<1>4. Grouped(one, m, k, j + 1, j)
  BY <1>1, DigitAdded
<1>5. Added(at, size, k) = IF Comma(m[j + 1], Len(one), size, k) THEN Append(one, Separator) ELSE one
  BY <1>2, <1>3 DEF Added, DigitOf
<1> HIDE DEF at, one
<1>6. nxt \in States /\ nxt.left = m[j + 1] /\ nxt.out = Added(at, size, k)
  BY <1>2, <1>3, AfterIs DEF at
<1>7. nxt.out \in Seq(Cells)
  BY <1>6 DEF States
<1>8. /\ ~Due(k, j + 1) => Grouped(one, m, k, j + 1, j + 1)
      /\ Due(k, j + 1) => Grouped(Append(one, Separator), m, k, j + 1, j + 1)
      /\ (Len(one) + 1) % (k + 1) = 0 <=> Due(k, j + 1)
      /\ Len(one) <= (j + 1) + Groups(k, j + 1)
  BY <1>1, <1>4, CommaAdded
<1>9. Len(one) \in Nat
  BY <1>4, LenProperties DEF Grouped
<1>10. CASE j + 1 = d
  <2>1. ~Comma(m[j + 1], Len(one), size, k)
    BY <1>1, <1>10 DEF Comma
  <2>2. nxt.out = one /\ j = d - 1
    BY <1>1, <1>5, <1>6, <1>10, <2>1
  <2>3. Grouped(nxt.out, m, k, d, d - 1)
    BY <1>4, <1>10, <2>2
  <2>4. ~(j + 1 < d)
    BY <1>1, <1>10
  <2> QED BY <1>6, <1>7, <2>3, <2>4
<1>11. CASE j + 1 # d
  <2>1. j + 1 \in 1..(d - 1) /\ m[j + 1] > 0
    BY <1>1, <1>11
  <2>2. Comma(m[j + 1], Len(one), size, k) <=> Len(one) < size /\ Due(k, j + 1)
    BY <1>8, <2>1 DEF Comma
  <2>3. CASE Len(one) < size
    BY <1>5, <1>6, <1>7, <1>8, <1>11, <2>2, <2>3
  <2>4. CASE size <= Len(one)
    <3>1. ~(Len(one) < size)
      BY <1>9, <2>4
    <3>2. nxt.out = one
      BY <1>5, <1>6, <2>2, <3>1
    <3> QED BY <1>6, <1>7, <1>8, <1>11, <2>4, <3>2
  <2> QED BY <1>9, <2>3, <2>4
<1> QED BY <1>10, <1>11

\* What the loop leaves: every digit with its commas, or as many as fill the room.
Ended(end, m, d, k, size) ==
  \E e \in 1..d :
    /\ end.left = m[e] /\ end.out \in Seq(Cells)
    /\ \/ e = d /\ Grouped(end.out, m, k, d, d - 1)
       \/ e < d /\ size <= Len(end.out) /\ Len(end.out) <= e + Groups(k, e)

LEMMA LoopEnds ==
  ASSUME NEW n \in Nat, NEW m, NEW d, Leavings(m, n), LastAt(m, d), NEW k \in {1, 2, 3},
         NEW size \in Nat \ {0}, NEW f, Loops(f, size, k)
  PROVE  Ended(f[[left |-> n, out |-> <<>>]], m, d, k, size)
<1> DEFINE Ends(j) == \A out : Grouped(out, m, k, j, j) /\ Len(out) < size
                        => Ended(f[[left |-> m[j], out |-> out]], m, d, k, size)
           S == {i \in Nat : i < d => Ends(d - 1 - i)}
<1>1. d \in Nat /\ d >= 1 /\ m[d] = 0 /\ \A i \in 1..(d - 1) : m[i] > 0
  BY DEF LastAt
<1>2. \A i \in Nat : m[i] \in Nat
  BY DEF Leavings
<1>3. ASSUME NEW j \in 0..(d - 1), j + 1 < d => Ends(j + 1) PROVE Ends(j)
  <2>1. SUFFICES ASSUME NEW out, Grouped(out, m, k, j, j), Len(out) < size
                 PROVE  Ended(f[[left |-> m[j], out |-> out]], m, d, k, size)
    OBVIOUS
  <2> DEFINE at == [left |-> m[j], out |-> out]
             nxt == After(at, size, k)
  <2>2. at \in States
    <3>1. m[j] \in Nat /\ out \in Seq(Cells)
      BY <1>1, <1>2, <2>1 DEF Grouped
    <3> QED BY <3>1 DEF States
  <2>3. f[at] = IF GoesOn(nxt, size) THEN f[nxt] ELSE nxt
    BY <2>2 DEF Loops
  <2>4. /\ nxt \in States /\ nxt.left = m[j + 1] /\ nxt.out \in Seq(Cells)
        /\ j + 1 = d => Grouped(nxt.out, m, k, d, d - 1)
        /\ j + 1 < d => \/ Grouped(nxt.out, m, k, j + 1, j + 1)
                        \/ size <= Len(nxt.out) /\ Len(nxt.out) <= (j + 1) + Groups(k, j + 1)
    BY <2>1, RoundOf
  <2> HIDE DEF at, nxt
  <2>5. nxt = [left |-> m[j + 1], out |-> nxt.out]
    BY <2>4 DEF States
  <2>6. Len(nxt.out) \in Nat
    BY <2>4, LenProperties
  <2>7. CASE j + 1 = d
    <3>1. ~GoesOn(nxt, size)
      BY <1>1, <2>4, <2>7 DEF GoesOn
    <3>2. f[at] = nxt /\ d \in 1..d
      BY <1>1, <2>3, <3>1
    <3>3. nxt.left = m[d] /\ Grouped(nxt.out, m, k, d, d - 1)
      BY <2>4, <2>7
    <3>4. Ended(nxt, m, d, k, size)
      BY <2>4, <3>2, <3>3 DEF Ended
    <3> QED BY <3>2, <3>4 DEF at
  <2>8. CASE j + 1 < d
    <3>1. j + 1 \in 1..d /\ j + 1 \in 1..(d - 1) /\ m[j + 1] > 0
      BY <1>1, <2>8
    <3>2. CASE Len(nxt.out) < size
      <4>1. GoesOn(nxt, size)
        BY <2>4, <3>1, <3>2 DEF GoesOn
      <4>2. Grouped(nxt.out, m, k, j + 1, j + 1)
        BY <2>4, <2>6, <2>8, <3>2
      <4>3. Ended(f[[left |-> m[j + 1], out |-> nxt.out]], m, d, k, size)
        BY <1>3, <2>8, <3>2, <4>2
      <4> QED BY <2>3, <2>5, <4>1, <4>3 DEF at
    <3>3. CASE size <= Len(nxt.out)
      <4>1. ~GoesOn(nxt, size)
        BY <2>6, <3>3 DEF GoesOn
      <4>2. Len(nxt.out) <= (j + 1) + Groups(k, j + 1)
        <5>1. ASSUME Grouped(nxt.out, m, k, j + 1, j + 1) PROVE Len(nxt.out) = j + 1 + Groups(k, j + 1)
          BY <5>1 DEF Grouped
        <5> QED BY <2>4, <2>6, <2>8, <5>1
      <4>3. Ended(nxt, m, d, k, size)
        BY <2>4, <2>8, <3>1, <3>3, <4>2 DEF Ended
      <4> QED BY <2>3, <4>1, <4>3 DEF at
    <3> QED BY <2>6, <3>2, <3>3
  <2> QED BY <1>1, <2>7, <2>8
<1>4. 0 \in S
  <2>1. d - 1 \in 0..(d - 1) /\ ~((d - 1) + 1 < d) /\ d - 1 - 0 = d - 1
    BY <1>1
  <2> HIDE DEF Ends
  <2>2. Ends(d - 1)
    BY <1>3, <2>1
  <2> QED BY <2>1, <2>2
<1>5. \A i \in Nat : i \in S => i + 1 \in S
  <2>1. SUFFICES ASSUME NEW i \in Nat, i \in S, i + 1 < d PROVE Ends(d - 1 - (i + 1))
    OBVIOUS
  <2> DEFINE e == d - 1 - (i + 1)
  <2>2. e \in 0..(d - 1) /\ e + 1 = d - 1 - i /\ i < d
    BY <1>1, <2>1
  <2> HIDE DEF Ends, e
  <2>3. Ends(e + 1)
    BY <2>1, <2>2
  <2>4. Ends(e)
    BY <1>3, <2>2, <2>3
  <2> QED BY <2>4 DEF e
<1>6. Ends(0)
  <2>1. \A i \in Nat : i \in S
    <3> HIDE DEF S
    <3> QED BY <1>4, <1>5, NatBySteps
  <2>2. d - 1 \in Nat /\ d - 1 < d /\ d - 1 - (d - 1) = 0
    BY <1>1
  <2> HIDE DEF Ends
  <2> QED BY <2>1, <2>2
<1>7. Grouped(<<>>, m, k, 0, 0) /\ Len(<<>>) = 0
  <2>1. Groups(k, 0) = 0
    BY GroupsAre
  <2>2. <<>> \in Seq(Cells) /\ Len(<<>>) = 0
    OBVIOUS
  <2> QED BY <2>1, <2>2 DEF Grouped
<1>8. m[0] = n
  BY DEF Leavings
<1> QED BY <1>6, <1>7, <1>8

\* What is wanted of a number whose digits are those of x, in size bytes and in
\* groups of k.
CommasBehind(k, q) == IF k = 0 THEN 0 ELSE q \div k

Shown(x, n, size, k, got) ==
  LET digits == Len(Decimal(x))
      length == digits + CommasBehind(k, digits - 1) + (IF n < 0 THEN 1 ELSE 0)
      Place(q) == length - q - CommasBehind(k, q)
  IN  IF length < size
        THEN /\ got.rv = length /\ Len(got.out) = length
             /\ n < 0 => got.out[1] = "-"
             /\ \A q \in 0..(digits - 1) :
                  /\ got.out[Place(q)] = Decimal(x)[digits - q]
                  /\ q > 0 /\ CommasBehind(k, q) # CommasBehind(k, q - 1)
                       => got.out[Place(q) + 1] = Separator
      ELSE IF k = 0 THEN got = Printed(Decimal(n), size)
      ELSE \E lost \in 1..digits :
             got = Printed(IF lost = digits THEN <<"0">> ELSE UpTo(Decimal(x), digits - lost), size)

LEMMA CellsAreBytes == \A v \in Seq(Cells) : v \in Seq(Bytes)
<1>1. Cells \subseteq Bytes
  <2>1. ASSUME NEW i \in 1..10 PROVE Digit[i] \in Bytes
    <3>1. Digit[i] \in {"0", "1", "2", "3", "4", "5", "6", "7", "8", "9"}
      BY DEF Digit
    <3> QED BY <3>1, Zenon DEF Bytes
  <2>2. DOMAIN Digit = 1..10
    BY DEF Digit
  <2>3. Separator \in Bytes
    BY Zenon DEF Bytes, Separator
  <2> QED BY <2>1, <2>2, <2>3 DEF Cells, Range
<1>2. SUFFICES ASSUME NEW v \in Seq(Cells) PROVE v \in Seq(Bytes)
  OBVIOUS
<1>3. Len(v) \in Nat /\ \A i \in 1..Len(v) : v[i] \in Bytes
  BY <1>1, LenProperties, ElementOfSeq
<1>4. v = [i \in 1..Len(v) |-> v[i]]
  BY LenProperties
<1>5. v \in [1..Len(v) -> Bytes]
  BY <1>3, <1>4
<1> QED BY <1>3, <1>5, FunctionIsSeq

\* What fits is printed whole.
LEMMA PrintedWhole ==
  ASSUME NEW v \in Seq(Bytes), NEW size \in Nat \ {0}, Len(v) < size
  PROVE  Printed(v, size) = [rv |-> Len(v), out |-> v]
<1>1. Len(v) \in Nat /\ SubSeq(v, 1, Len(v)) = v
  BY LenProperties, SubSeqFull
<1>2. (IF size - 1 < Len(v) THEN size - 1 ELSE Len(v)) = Len(v)
  BY <1>1
<1> QED BY <1>1, <1>2 DEF Printed, UpTo

\* Without groups a number is what "%d" prints.
LEMMA PlainShown ==
  ASSUME NEW x \in Nat, NEW n \in {x, -x}, NEW size \in Nat \ {0}
  PROVE  Shown(x, n, size, 0, temp_itoa(n, size, 0))
<1> DEFINE w == Decimal(x)
           digits == Len(w)
           length == digits + CommasBehind(0, digits - 1) + (IF n < 0 THEN 1 ELSE 0)
           v == Decimal(n)
           got == temp_itoa(n, size, 0)
           Place(q) == length - q - CommasBehind(0, q)
<1>1. got = Printed(v, size)
  <2>1. ~(size < 1) /\ 0 < 1
    OBVIOUS
  <2> QED BY <2>1, Zenon DEF temp_itoa
<1>2. w \in Seq(Bytes) /\ digits \in Nat
  BY DecimalIs, CellsAreBytes, LenProperties
<1>3. \A q : CommasBehind(0, q) = 0
  BY DEF CommasBehind
<1>4. length = digits + (IF n < 0 THEN 1 ELSE 0)
  BY <1>2, <1>3
<1> HIDE DEF w, digits, length, v, got
<1>5. /\ v \in Seq(Bytes) /\ Len(v) = length
      /\ n < 0 => v[1] = "-"
      /\ \A q \in 0..(digits - 1) : v[length - q] = w[digits - q]
  <2>1. CASE n < 0
    <3>1. x > 0 /\ n = -x
      BY <2>1
    <3> DEFINE one == <<"-">>
    <3>2. v = one \o w
      BY <3>1, DecimalIs DEF v, w
    <3>3. one \in Seq(Bytes) /\ Len(one) = 1 /\ one[1] = "-"
      <4>1. "-" \in Bytes
        BY DEF Bytes
      <4> QED BY <4>1
    <3> HIDE DEF one
    <3>4. /\ one \o w \in Seq(Bytes) /\ Len(one \o w) = Len(one) + Len(w)
          /\ \A i \in 1..Len(one) : (one \o w)[i] = one[i]
          /\ \A i \in 1..Len(w) : (one \o w)[Len(one) + i] = w[i]
      <4>1. one \in Seq(Bytes) /\ w \in Seq(Bytes)
        BY <1>2, <3>3
      <4> QED BY ONLY <4>1, ConcatPlaces
    <3>5. \A q \in 0..(digits - 1) : digits - q \in 1..digits /\ 1 + (digits - q) = length - q
      BY <1>2, <1>4, <2>1
    <3>6. 1 \in 1..1 /\ length = 1 + digits
      BY <1>2, <1>4, <2>1
    <3> QED BY <3>2, <3>3, <3>4, <3>5, <3>6 DEF digits
  <2>2. CASE ~(n < 0)
    <3>1. n = x /\ length = digits
      BY <1>2, <1>4, <2>2
    <3> QED BY <1>2, <2>2, <3>1 DEF v, w, digits
  <2> QED BY <2>1, <2>2
<1>6. CASE length < size
  <2>1. got = [rv |-> length, out |-> v]
    BY <1>1, <1>5, <1>6, PrintedWhole
  <2>2. /\ got.rv = length /\ Len(got.out) = length
        /\ n < 0 => got.out[1] = "-"
    BY <1>5, <2>1
  <2>3. ASSUME NEW q \in 0..(digits - 1)
        PROVE  /\ got.out[Place(q)] = w[digits - q]
               /\ CommasBehind(0, q) = CommasBehind(0, q - 1)
    <3>1. Place(q) = length - q
      BY <1>2, <1>3, <1>4
    <3> QED BY <1>3, <1>5, <2>1, <3>1
  <2> QED BY <1>6, <2>2, <2>3 DEF Shown, w, digits, length, got
<1>7. CASE ~(length < size)
  BY <1>1, <1>7 DEF Shown, w, digits, length, got, v
<1> QED BY <1>6, <1>7

\* In groups of k, a number whose digits, commas and sign fit has all of them;
\* of another one the last digits are lost.
LEMMA GroupedShown ==
  ASSUME NEW x \in Nat, NEW n \in {x, -x}, NEW size \in Nat \ {0}, NEW k \in {1, 2, 3}
  PROVE  Shown(x, n, size, k, temp_itoa(n, size, k))
<1> DEFINE w == Decimal(x)
           digits == Len(w)
           sign == IF n < 0 THEN 1 ELSE 0
           length == digits + CommasBehind(k, digits - 1) + sign
           got == temp_itoa(n, size, k)
           Place(q) == length - q - CommasBehind(k, q)
<1>1. \A q : CommasBehind(k, q) = Groups(k, q)
  BY DEF CommasBehind, Groups
<1>2. PICK m, d : Leavings(m, x) /\ LastAt(m, d)
  BY LeavingsExist
<1>3. PICK f : Loops(f, size, k)
                 /\ got = Finished(n, size, f[[left |-> IF n < 0 THEN -n ELSE n, out |-> <<>>]])
  BY ItoaIs
<1> DEFINE end == f[[left |-> x, out |-> <<>>]]
<1>4. got = Finished(n, size, end)
  <2>1. (IF n < 0 THEN -n ELSE n) = x
    OBVIOUS
  <2> QED BY <1>3, <2>1
<1>5. PICK e \in 1..d :
        /\ end.left = m[e] /\ end.out \in Seq(Cells)
        /\ \/ e = d /\ Grouped(end.out, m, k, d, d - 1)
           \/ e < d /\ size <= Len(end.out) /\ Len(end.out) <= e + Groups(k, e)
  <2>1. Ended(end, m, d, k, size)
    BY <1>2, <1>3, LoopEnds
  <2> QED BY <2>1 DEF Ended
<1>6. d \in Nat /\ d >= 1 /\ m[d] = 0 /\ m[0] = x /\ 0 \in 0..(d - 1) /\ d - 0 = d
  BY <1>2 DEF LastAt, Leavings
<1>7. /\ w \in Seq(Bytes) /\ digits = d
      /\ \A p \in 1..d : w[p] = DigitOf(m, d - p)
  <2>1. /\ Decimal(m[0]) \in Seq(Cells) /\ Len(Decimal(m[0])) = d - 0
        /\ \A p \in 1..(d - 0) : Decimal(m[0])[p] = DigitOf(m, d - p)
    <3>1. x \in Nat /\ Leavings(m, x) /\ LastAt(m, d) /\ 0 \in 0..(d - 1)
      BY <1>2, <1>6
    <3> QED BY ONLY <3>1, DecimalDigits
  <2> QED BY <1>6, <2>1, CellsAreBytes
<1> HIDE DEF w, digits, got, end
<1>8. /\ Groups(k, d - 1) \in Nat
      /\ \A q \in 0..(d - 1) : Groups(k, q) \in Nat /\ Groups(k, q) <= Groups(k, d - 1)
  <2>1. d - 1 \in Nat
    BY <1>6
  <2> QED BY <2>1, GroupsAre
<1>9. sign \in {0, 1} /\ length = d + Groups(k, d - 1) + sign
  BY <1>1, <1>7
<1>10. n < 0 <=> sign = 1
  OBVIOUS
<1> HIDE DEF sign, length
<1>11. end.out \in Seq(Bytes) /\ Len(end.out) \in Nat
  BY <1>5, CellsAreBytes, LenProperties
<1> DEFINE signed == IF n < 0 /\ Len(end.out) < size THEN Append(end.out, "-") ELSE end.out
<1>12. got = IF Len(signed) < size THEN [rv |-> Len(signed), out |-> Reverse(signed)]
             ELSE Printed(Decimal(end.left), size)
  BY <1>4, Zenon DEF Finished
<1>13. /\ Append(end.out, "-") \in Seq(Bytes) /\ Len(Append(end.out, "-")) = Len(end.out) + 1
       /\ Append(end.out, "-")[Len(end.out) + 1] = "-"
       /\ \A i \in 1..Len(end.out) : Append(end.out, "-")[i] = end.out[i]
  <2>1. "-" \in Bytes
    BY DEF Bytes
  <2> QED BY <1>11, <2>1, OneMore
<1>14. signed \in Seq(Bytes) /\ \A i \in 1..Len(end.out) : signed[i] = end.out[i]
  BY <1>11, <1>13
<1>18. ASSUME Len(end.out) < size
       PROVE  Len(signed) = Len(end.out) + sign /\ (n < 0 => signed[Len(end.out) + 1] = "-")
  <2>1. CASE n < 0
    BY <1>10, <1>13, <1>18, <2>1
  <2>2. CASE ~(n < 0)
    <3>1. sign = 0 /\ Len(end.out) + 0 = Len(end.out)
      BY <1>9, <1>10, <1>11, <2>2
    <3> QED BY <2>2, <3>1
  <2> QED BY <2>1, <2>2
<1>19. ASSUME ~(Len(end.out) < size) PROVE Len(signed) = Len(end.out)
  BY <1>19
<1> HIDE DEF signed
<1>15. ASSUME e = d, Grouped(end.out, m, k, d, d - 1)
       PROVE  Len(end.out) = d + Groups(k, d - 1)
  BY <1>15 DEF Grouped
<1>16. CASE length < size
  <2>1. e = d /\ Grouped(end.out, m, k, d, d - 1)
    <3>1. ASSUME e < d, size <= Len(end.out), Len(end.out) <= e + Groups(k, e) PROVE FALSE
      <4>1. e \in 0..(d - 1)
        BY ONLY <1>5, <1>6, <3>1
      <4>2. Groups(k, e) \in Nat /\ Groups(k, e) <= Groups(k, d - 1)
        BY ONLY <1>8, <4>1
      <4> DEFINE a == Groups(k, e)
                 b == Groups(k, d - 1)
                 l == Len(end.out)
      <4>3. /\ a \in Nat /\ b \in Nat /\ l \in Nat /\ a <= b /\ size <= l /\ l <= e + a
            /\ sign \in {0, 1} /\ length = d + b + sign
        BY ONLY <1>8, <1>9, <1>11, <3>1, <4>2
      <4> HIDE DEF a, b, l
      <4> QED BY ONLY <4>1, <4>3, <1>6, <1>16, size \in Nat
    <3> HIDE DEF Grouped, Groups
    <3> QED BY ONLY <1>5, <3>1
  <2>2. Len(end.out) = d + Groups(k, d - 1)
    BY <1>15, <2>1
  <2>3. Len(end.out) < size /\ Len(signed) = length
    <3>1. Len(end.out) < size /\ Len(end.out) + sign = length
      BY <1>6, <1>8, <1>9, <1>16, <2>2
    <3>2. Len(signed) = Len(end.out) + sign
      BY <1>18, <3>1
    <3> QED BY <3>1, <3>2
  <2>4. got = [rv |-> length, out |-> Reverse(signed)]
    BY <1>12, <1>16, <2>3
  <2>5. /\ Len(Reverse(signed)) = length
        /\ \A i \in 1..length : Reverse(signed)[i] = signed[length - i + 1]
    BY <1>14, <2>3, ReverseIs
  <2>6. n < 0 => got.out[1] = "-"
    <3>1. SUFFICES ASSUME n < 0 PROVE got.out[1] = "-"
      OBVIOUS
    <3>2. 1 \in 1..length /\ length - 1 + 1 = Len(end.out) + 1
      BY <1>6, <1>8, <1>9, <1>10, <2>2, <3>1
    <3>3. Reverse(signed)[1] = signed[Len(end.out) + 1]
      BY <2>5, <3>2
    <3>4. signed[Len(end.out) + 1] = "-"
      BY <1>18, <2>3, <3>1
    <3> QED BY <2>4, <3>3, <3>4
  <2>7. ASSUME NEW q \in 0..(d - 1)
        PROVE  /\ got.out[Place(q)] = w[digits - q]
               /\ q > 0 /\ CommasBehind(k, q) # CommasBehind(k, q - 1) => got.out[Place(q) + 1] = Separator
    <3> DEFINE g == Groups(k, q)
    <3>1. g \in Nat /\ g <= Groups(k, d - 1)
      BY <1>8
    <3>2. Place(q) = length - q - g
      BY <1>1
    <3> HIDE DEF g, Place
    <3>3. /\ Place(q) \in 1..length /\ length - Place(q) + 1 = q + 1 + g /\ q + 1 + g \in 1..Len(end.out)
          /\ q > 0 => /\ Place(q) + 1 \in 1..length /\ length - (Place(q) + 1) + 1 = q + g
                      /\ q + g \in 1..Len(end.out)
      <4>2. sign \in Nat /\ q < d /\ d + Groups(k, d - 1) + sign - q - g = Place(q)
        BY <1>6, <1>8, <1>9, <3>1, <3>2
      <4> DEFINE full == Groups(k, d - 1)
                 place == Place(q)
                 written == Len(end.out)
      <4>3. q \in Nat /\ g \in Nat /\ d \in Nat /\ full \in Nat /\ sign \in Nat /\ q < d /\ g <= full
        BY <1>6, <1>8, <3>1, <4>2
      <4>4. length = d + full + sign /\ written = d + full /\ place = d + full + sign - q - g
        BY <1>9, <2>2, <4>2
      <4> HIDE DEF full, place, written
      <4>5. /\ place \in 1..length /\ length - place + 1 = q + 1 + g /\ q + 1 + g \in 1..written
            /\ q > 0 => /\ place + 1 \in 1..length /\ length - (place + 1) + 1 = q + g
                        /\ q + g \in 1..written
        BY ONLY <4>3, <4>4
      <4> QED BY <4>5 DEF place, written
    <3>4. got.out[Place(q)] = DigitOf(m, q)
      <4>1. end.out[q + 1 + g] = DigitOf(m, q)
        BY <2>1 DEF Grouped, g
      <4> QED BY <1>14, <2>4, <2>5, <3>3, <4>1
    <3>5. w[digits - q] = DigitOf(m, q)
      <4>1. digits - q \in 1..d /\ d - (digits - q) = q
        BY <1>6, <1>7
      <4> QED BY <1>7, <4>1
    <3>6. ASSUME q > 0, CommasBehind(k, q) # CommasBehind(k, q - 1) PROVE got.out[Place(q) + 1] = Separator
      <4>1. q \in Nat \ {0} /\ q \in 1..(d - 1)
        BY <3>6
      <4>2. Due(k, q)
        BY <1>1, <3>6, <4>1, DueWhere
      <4>3. end.out[q + g] = Separator
        BY <2>1, <4>1, <4>2 DEF Grouped, g
      <4> QED BY <1>14, <2>4, <2>5, <3>3, <3>6, <4>3
    <3> QED BY <3>4, <3>5, <3>6
  <2>8. /\ got.rv = length /\ Len(got.out) = length
    BY <2>4, <2>5
  <2> HIDE DEF Place
  <2>9. \A q \in 0..(digits - 1) :
          /\ got.out[Place(q)] = w[digits - q]
          /\ q > 0 /\ CommasBehind(k, q) # CommasBehind(k, q - 1) => got.out[Place(q) + 1] = Separator
    BY <1>7, <2>7
  <2> QED BY <1>16, <2>6, <2>8, <2>9 DEF Shown, w, digits, sign, length, got, Place
<1>17. CASE ~(length < size)
  <2>1. ~(Len(signed) < size)
    <3>1. CASE Len(end.out) < size
      <4>1. e = d /\ Len(end.out) = d + Groups(k, d - 1)
        BY <1>5, <1>11, <1>15, <3>1
      <4>2. Len(signed) = length
        BY <1>9, <1>18, <3>1, <4>1
      <4> QED BY <1>17, <4>2
    <3>2. CASE ~(Len(end.out) < size)
      BY <1>11, <1>19, <3>2
    <3> QED BY <3>1, <3>2
  <2>2. got = Printed(Decimal(m[e]), size)
    BY <1>5, <1>12, <2>1
  <2>3. Decimal(m[e]) = IF e = digits THEN <<"0">> ELSE UpTo(w, digits - e)
    <3>1. CASE e = d
      <4>1. 0 \in Nat /\ 0 < 10 /\ (0 % 10) + 1 = 1
        OBVIOUS
      <4>2. Decimal(0) = <<Digit[1]>>
        BY <4>1, DecimalIs
      <4>3. Digit[1] = "0"
        BY DEF Digit
      <4> QED BY <1>6, <1>7, <3>1, <4>2, <4>3
    <3>2. CASE e # d
      <4>1. e \in 0..(d - 1) /\ d - e \in 0..Len(w) /\ d - e \in Nat /\ digits = Len(w)
        BY <1>6, <1>7, <3>2 DEF digits
      <4>2. (IF d - e < Len(w) THEN d - e ELSE Len(w)) = d - e
        BY <1>7, <4>1
      <4>3. UpTo(w, digits - e) = SubSeq(w, 1, d - e)
        BY <1>7, <4>2 DEF UpTo
      <4> DEFINE p == SubSeq(w, 1, d - e)
                 v == Decimal(m[e])
      <4>4. p \in Seq(Bytes) /\ Len(p) = d - e /\ \A i \in 1..(d - e) : p[i] = w[i]
        BY <1>7, <4>1, PrefixIs
      <4>5. /\ v \in Seq(Bytes) /\ Len(v) = d - e
            /\ \A i \in 1..(d - e) : v[i] = DigitOf(m, d - i)
        BY <1>2, <4>1, DecimalDigits, CellsAreBytes
      <4> HIDE DEF p, v
      <4>6. \A i \in 1..(d - e) : i \in 1..d
        BY <1>6, <4>1
      <4>7. \A i \in 1..Len(v) : v[i] = p[i]
        BY <1>7, <4>4, <4>5, <4>6
      <4>8. v = p
        BY <4>4, <4>5, <4>7, SeqEqual
      <4> QED BY <1>7, <3>2, <4>3, <4>8 DEF v, p
    <3> QED BY <3>1, <3>2
  <2>4. e \in 1..digits
    BY <1>7
  <2>5. k # 0
    OBVIOUS
  <2>6. \E lost \in 1..digits :
          got = Printed(IF lost = digits THEN <<"0">> ELSE UpTo(w, digits - lost), size)
    BY <2>2, <2>3, <2>4
  <2> QED BY <1>17, <2>5, <2>6 DEF Shown, w, digits, sign, length, got
<1> QED BY <1>16, <1>17

\* temp_itoa: whatever the number and the buffer, one with room for it has all its
\* digits in their groups and its sign, and in a smaller one the number without
\* its last digits is printed in place of it.
THEOREM NumbersGroupedHolds == Spec => []NumbersGrouped
<1>1. TextInv => NumbersGrouped
  <2> SUFFICES ASSUME TextInv,
                      NEW n \in {number, -number}, NEW size \in 1..Room, NEW k \in 0..3
               PROVE  Shown(number, n, size, k, temp_itoa(n, size, k))
    BY Zenon DEF NumbersGrouped, Shown, CommasBehind, Separator
  <2>1. number \in Nat /\ size \in Nat \ {0}
    BY TemplateTextAssumption DEF TextInv
  <2>2. CASE k = 0
    BY <2>1, <2>2, PlainShown
  <2>3. CASE k # 0
    <3>1. k \in {1, 2, 3}
      BY <2>3
    <3> QED BY <2>1, <3>1, GroupedShown
  <2> QED BY <2>2, <2>3
<1> QED BY <1>1, TextInvariant, PTL

(***************************************************************************)
(* Texts without some of their cells.                                      *)
(***************************************************************************)
Kept(s, cells) == [i \in DOMAIN s |-> IF s[i] \in cells THEN <<>> ELSE <<s[i]>>]

LEMMA KeptIs ==
  ASSUME NEW W, NEW s \in Seq(W), NEW cells
  PROVE  /\ Kept(s, cells) \in Seq(Seq(W)) /\ Len(Kept(s, cells)) = Len(s)
         /\ Without(s, cells) = FlattenSeq(Kept(s, cells)) /\ Without(s, cells) \in Seq(W)
<1>1. DOMAIN s = 1..Len(s) /\ Len(s) \in Nat /\ \A i \in 1..Len(s) : s[i] \in W
  BY LenProperties, ElementOfSeq
<1>2. Kept(s, cells) \in [1..Len(s) -> Seq(W)]
  BY <1>1, EmptySeq DEF Kept
<1>3. Kept(s, cells) \in Seq(Seq(W)) /\ Len(Kept(s, cells)) = Len(s)
  BY <1>1, <1>2, FunctionIsSeq
<1>4. Without(s, cells) = FlattenSeq(Kept(s, cells))
  BY Zenon DEF Without, Kept
<1>5. FlattenSeq(Kept(s, cells)) \in Seq(W)
  BY <1>3, FlattenTyped
<1> QED BY <1>3, <1>4, <1>5

LEMMA WithoutConcat ==
  ASSUME NEW W, NEW a \in Seq(W), NEW b \in Seq(W), NEW cells
  PROVE  Without(a \o b, cells) = Without(a, cells) \o Without(b, cells)
<1> DEFINE ab == a \o b
           ka == Kept(a, cells)
           kb == Kept(b, cells)
           k == Kept(ab, cells)
           One(c) == IF c \in cells THEN <<>> ELSE <<c>>
<1>1. /\ ab \in Seq(W) /\ Len(ab) = Len(a) + Len(b) /\ Len(a) \in Nat /\ Len(b) \in Nat
      /\ \A i \in 1..Len(a) : ab[i] = a[i]
      /\ \A i \in 1..Len(b) : ab[Len(a) + i] = b[i]
  BY ConcatPlaces, LenProperties
<1>2. /\ ka \in Seq(Seq(W)) /\ Len(ka) = Len(a) /\ Without(a, cells) = FlattenSeq(ka)
      /\ kb \in Seq(Seq(W)) /\ Len(kb) = Len(b) /\ Without(b, cells) = FlattenSeq(kb)
  BY KeptIs
<1>3. k \in Seq(Seq(W)) /\ Len(k) = Len(ab) /\ Without(ab, cells) = FlattenSeq(k)
  BY <1>1, KeptIs
<1>4. /\ \A i \in 1..Len(a) : ka[i] = One(a[i])
      /\ \A i \in 1..Len(b) : kb[i] = One(b[i])
      /\ \A i \in 1..(Len(a) + Len(b)) : k[i] = One(ab[i])
  <2>1. DOMAIN a = 1..Len(a) /\ DOMAIN b = 1..Len(b) /\ DOMAIN ab = 1..(Len(a) + Len(b))
    BY <1>1, LenProperties
  <2> HIDE DEF ab, One
  <2> QED BY <2>1, Zenon DEF Kept, One
<1> HIDE DEF ab, ka, kb, k, One
<1>5. /\ ka \o kb \in Seq(Seq(W)) /\ Len(ka \o kb) = Len(ka) + Len(kb)
      /\ \A i \in 1..Len(ka) : (ka \o kb)[i] = ka[i]
      /\ \A i \in 1..Len(kb) : (ka \o kb)[Len(ka) + i] = kb[i]
  <2>1. ka \in Seq(Seq(W)) /\ kb \in Seq(Seq(W))
    BY <1>2
  <2> QED BY ONLY <2>1, ConcatPlaces
<1>6. k = ka \o kb
  <2>1. ASSUME NEW i \in 1..(Len(a) + Len(b)) PROVE k[i] = (ka \o kb)[i]
    <3>1. CASE i <= Len(a)
      <4>1. i \in 1..Len(a)
        BY <1>1, <3>1
      <4> QED BY <1>1, <1>2, <1>4, <1>5, <4>1
    <3>2. CASE ~(i <= Len(a))
      <4> DEFINE j == i - Len(a)
      <4>1. j \in 1..Len(b) /\ Len(a) + j = i
        BY <1>1, <3>2
      <4> HIDE DEF j
      <4> QED BY <1>1, <1>2, <1>4, <1>5, <4>1
    <3> QED BY <3>1, <3>2
  <2> DEFINE q == ka \o kb
  <2>2. k \in Seq(Seq(W)) /\ q \in Seq(Seq(W)) /\ Len(k) = Len(q) /\ Len(k) = Len(a) + Len(b)
    BY <1>1, <1>2, <1>3, <1>5
  <2>3. \A i \in 1..Len(k) : k[i] = q[i]
    BY <2>1, <2>2
  <2> HIDE DEF q
  <2>4. k = q
    BY ONLY <2>2, <2>3, SeqEqual
  <2> QED BY <2>4 DEF q
<1>7. FlattenSeq(ka \o kb) = FlattenSeq(ka) \o FlattenSeq(kb)
  BY <1>2, FlattenConcat
<1> QED BY <1>2, <1>3, <1>6, <1>7 DEF ab

LEMMA WithoutEmpty == ASSUME NEW cells PROVE Without(<<>>, cells) = <<>>
<1>1. Kept(<<>>, cells) = <<>>
  BY DEF Kept
<1>2. Without(<<>>, cells) = FlattenSeq(Kept(<<>>, cells))
  BY Zenon DEF Without, Kept
<1> QED BY <1>1, <1>2, FlattenEmpty

\* One sequence, joined.
LEMMA FlattenOne ==
  ASSUME NEW W, NEW e \in Seq(W)
  PROVE  FlattenSeq(<<e>>) = e
<1>1. <<>> \in Seq(Seq(W)) /\ Append(<<>>, e) = <<e>>
  BY EmptySeq
<1>2. FlattenSeq(Append(<<>>, e)) = FlattenSeq(<<>>) \o e
  BY <1>1, FlattenAppend
<1>3. <<>> \o e = e
  BY ConcatEmptySeq
<1> QED BY <1>1, <1>2, <1>3, FlattenEmpty

LEMMA WithoutOne ==
  ASSUME NEW W, NEW c \in W, NEW cells
  PROVE  Without(<<c>>, cells) = IF c \in cells THEN <<>> ELSE <<c>>
<1> DEFINE one == IF c \in cells THEN <<>> ELSE <<c>>
<1>1. one \in Seq(W)
  BY EmptySeq
<1>2. Kept(<<c>>, cells) = <<one>>
  BY DEF Kept
<1>3. Without(<<c>>, cells) = FlattenSeq(Kept(<<c>>, cells))
  BY Zenon DEF Without, Kept
<1> HIDE DEF one
<1>4. FlattenSeq(<<one>>) = one
  BY <1>1, FlattenOne
<1> QED BY <1>2, <1>3, <1>4 DEF one

\* A text without any of the cells stays.
LEMMA WithoutNone ==
  ASSUME NEW W, NEW s \in Seq(W), NEW cells, \A i \in 1..Len(s) : s[i] \notin cells
  PROVE  Without(s, cells) = s
<1> DEFINE n == Len(s)
           part(i) == SubSeq(s, 1, i)
           Ok == {i \in Nat : i <= n => Without(part(i), cells) = part(i)}
<1>0. n \in Nat /\ \A i \in 1..n : s[i] \in W
  BY LenProperties, ElementOfSeq
<1>1. 0 \in Ok
  <2>1. part(0) = <<>>
    BY SubSeqEmpty
  <2> QED BY <2>1, WithoutEmpty
<1>2. ASSUME NEW i \in Nat, i + 1 <= n, Without(part(i), cells) = part(i)
      PROVE  Without(part(i + 1), cells) = part(i + 1)
  <2>1. i + 1 \in 1..n /\ 1 \in 1..n /\ i + 1 - 1 = i /\ i + 1 \in 1..(i + 1) /\ \A j \in 1..i : j \in 1..n
    BY <1>0, <1>2
  <2>2. part(i + 1) = part(i) \o <<s[i + 1]>>
    BY <2>1, SubSeqRecursiveSecond
  <2>3. part(i) \in Seq(W) /\ s[i + 1] \in W /\ s[i + 1] \notin cells /\ <<s[i + 1]>> \in Seq(W)
    BY <1>0, <2>1, SubSeqProperties
  <2>4. Without(<<s[i + 1]>>, cells) = <<s[i + 1]>>
    BY <2>3, WithoutOne
  <2> HIDE DEF part
  <2>5. Without(part(i) \o <<s[i + 1]>>, cells) = Without(part(i), cells) \o Without(<<s[i + 1]>>, cells)
    <3> DEFINE p == part(i)
               x == <<s[i + 1]>>
    <3>1. p \in Seq(W) /\ x \in Seq(W)
      BY <2>3
    <3> HIDE DEF p, x
    <3>2. Without(p \o x, cells) = Without(p, cells) \o Without(x, cells)
      BY ONLY <3>1, WithoutConcat
    <3> QED BY <3>2 DEF p, x
  <2> QED BY <1>2, <2>2, <2>4, <2>5
<1>3. \A i \in Nat : i \in Ok
  <2>1. ASSUME NEW i \in Nat, i \in Ok PROVE i + 1 \in Ok
    <3>1. i + 1 \in Nat /\ (i + 1 <= n => i <= n)
      BY <1>0
    <3>2. i <= n => Without(part(i), cells) = part(i)
      <4> HIDE DEF part, n
      <4> QED BY <2>1, Zenon
    <3>3. i + 1 <= n => Without(part(i + 1), cells) = part(i + 1)
      <4> HIDE DEF Ok, part, n
      <4> QED BY <1>2, <3>1, <3>2
    <3> HIDE DEF part, n
    <3> QED BY <3>1, <3>3, Zenon
  <2> HIDE DEF Ok
  <2> QED BY <1>1, <2>1, NatBySteps
<1>4. n \in Ok /\ n <= n /\ part(n) = s
  BY <1>0, <1>3, SubSeqFull
<1> QED BY <1>4

-----------------------------------------------------------------------------
(***************************************************************************)
(* The words of a query.                                                   *)
(***************************************************************************)
Spots == [from : Nat, to : Nat]

Word(src, spot) == SubSeq(src, spot.from + 1, spot.to)

\* Where the word ends that begins behind at bytes.
WordEnds(src, sep, at) == {e \in (at + 1)..Len(src) : e = Len(src) \/ src[e + 1] = sep}

WordEnd(src, sep, at) == Min(WordEnds(src, sep, at))

LEMMA WordEndIs ==
  ASSUME NEW src \in Seq(Bytes), NEW sep, NEW at \in 0..(Len(src) - 1), src[at + 1] # sep
  PROVE  /\ WordEnd(src, sep, at) \in (at + 1)..Len(src)
         /\ WordEnd(src, sep, at) # Len(src) => src[WordEnd(src, sep, at) + 1] = sep
         /\ \A k \in (at + 1)..WordEnd(src, sep, at) : src[k] # sep
<1> DEFINE n == Len(src)
           S == WordEnds(src, sep, at)
           e == WordEnd(src, sep, at)
<1>1. n \in Nat /\ at \in Nat /\ at < n
  BY LenProperties
<1>2. S \in SUBSET Nat /\ n \in S
  BY <1>1 DEF WordEnds
<1>3. PICK m \in S : \A j \in S : m <= j
  <2> HIDE DEF S
  <2> QED BY <1>2, LeastOf
<1>4. e = m
  <2>1. \A x \in S : (\A j \in S : x <= j) => x = m
    <3>1. \A x, y \in Nat : x <= y /\ y <= x => x = y
      OBVIOUS
    <3> HIDE DEF S
    <3> QED BY <1>2, <1>3, <3>1
  <2>2. e = CHOOSE x \in S : \A j \in S : x <= j
    BY Zenon DEF WordEnd, Min
  <2> HIDE DEF S, e
  <2> QED BY <1>3, <2>1, <2>2
<1>5. \A k \in Nat : k \in S <=> k \in (at + 1)..n /\ (k = n \/ src[k + 1] = sep)
  BY DEF WordEnds
<1> HIDE DEF S, e, n
<1>6. m \in Nat /\ m \in (at + 1)..n /\ (m = n \/ src[m + 1] = sep)
  BY <1>2, <1>3, <1>5
<1>7. ASSUME NEW k \in (at + 1)..m PROVE src[k] # sep
  <2>1. CASE k = at + 1
    BY <2>1
  <2>2. CASE k # at + 1
    <3> DEFINE j == k - 1
    <3>1. j \in Nat /\ j \in (at + 1)..n /\ ~(m <= j) /\ j + 1 = k
      BY <1>1, <1>6, <2>2
    <3> HIDE DEF j
    <3>2. j \notin S
      BY <1>3, <3>1
    <3> QED BY <1>5, <3>1, <3>2
  <2> QED BY <2>1, <2>2
<1> QED BY <1>4, <1>6, <1>7 DEF e, n

Splitting(f, src, sep) ==
  f = [at \in Nat |->
         IF at >= Len(src) THEN <<>>
         ELSE IF src[at + 1] = sep THEN f[at + 1]
         ELSE <<[from |-> at, to |-> WordEnd(src, sep, at)]>> \o f[WordEnd(src, sep, at)]]

LEMMA SplittingExists ==
  ASSUME NEW src \in Seq(Bytes), NEW sep
  PROVE  \E f : Splitting(f, src, sep)
<1> DEFINE L == Len(src)
           V == Seq(Spots)
           w(i) == WordEnd(src, sep, i)
           mu == [i \in Nat |-> IF i <= L THEN L - i ELSE 0]
           Stop == {i \in Nat : i >= L}
           base == [i \in Nat |-> <<>>]
           next == [i \in Nat |-> IF i >= L \/ src[i + 1] = sep THEN i + 1 ELSE w(i)]
           comb == [i \in Nat |-> IF i >= L \/ src[i + 1] = sep THEN [v \in V |-> v]
                                  ELSE [v \in V |-> <<[from |-> i, to |-> w(i)]>> \o v]]
<1>1. L \in Nat
  BY LenProperties
<1>2. mu \in [Nat -> Nat]
  BY <1>1
<1>3. ASSUME NEW i \in Nat, ~(i >= L), src[i + 1] # sep
      PROVE  w(i) \in Nat /\ w(i) > i /\ w(i) <= L /\ [from |-> i, to |-> w(i)] \in Spots
  <2>1. i \in 0..(Len(src) - 1)
    BY <1>1, <1>3
  <2>2. w(i) \in (i + 1)..Len(src)
    BY <1>3, <2>1, WordEndIs
  <2>3. w(i) \in Nat /\ w(i) > i /\ w(i) <= L
    BY <1>1, <2>2
  <2> HIDE DEF w
  <2> QED BY <2>3 DEF Spots
<1> HIDE DEF w
<1>4. base \in [Nat -> V] /\ next \in [Nat -> Nat]
  <2>1. base \in [Nat -> V]
    BY EmptySeq
  <2>3. ASSUME NEW i \in Nat PROVE (IF i >= L \/ src[i + 1] = sep THEN i + 1 ELSE w(i)) \in Nat
    <3>1. CASE i >= L \/ src[i + 1] = sep
      BY <3>1
    <3>2. CASE ~(i >= L \/ src[i + 1] = sep)
      <4>1. w(i) \in Nat
        BY <1>3, <3>2
      <4> QED BY <3>2, <4>1
    <3> QED BY <3>1, <3>2
  <2>2. next \in [Nat -> Nat]
    <3> HIDE DEF L
    <3> QED BY <2>3
  <2> QED BY <2>1, <2>2
<1>5. comb \in [Nat -> [V -> V]]
  <2>1. ASSUME NEW i \in Nat, ~(i >= L), src[i + 1] # sep, NEW v \in V
        PROVE  <<[from |-> i, to |-> w(i)]>> \o v \in V
    <3>1. <<[from |-> i, to |-> w(i)]>> \in Seq(Spots)
      BY <1>3, <2>1
    <3> QED BY <3>1, ConcatProperties
  <2> HIDE DEF V, L
  <2> QED BY <2>1
<1>6. \A i \in Nat : i \notin Stop => mu[next[i]] < mu[i]
  <2>1. ASSUME NEW i \in Nat, i \notin Stop PROVE mu[next[i]] < mu[i]
    <3>1. ~(i >= L)
      BY <2>1
    <3>2. CASE src[i + 1] = sep
      BY <1>1, <3>1, <3>2
    <3>3. CASE src[i + 1] # sep
      <4>1. next[i] = w(i) /\ w(i) \in Nat /\ w(i) > i /\ w(i) <= L
        BY <1>3, <3>1, <3>3
      <4> HIDE DEF next
      <4>2. mu[w(i)] = L - w(i) /\ mu[i] = L - i
        BY <1>1, <3>1, <4>1
      <4> HIDE DEF mu
      <4> QED BY <1>1, <4>1, <4>2
    <3> QED BY <3>2, <3>3
  <2> QED BY <2>1
<1>7. PICK f : Computed(f, Nat, V, Stop, base, next, comb)
  <2> HIDE DEF mu, Stop, base, next, comb, V
  <2>1. GoesDown(Nat, V, mu, Stop, base, next, comb)
    BY <1>2, <1>4, <1>5, <1>6 DEF GoesDown
  <2> QED BY <2>1, RecursionExists
<1>8. /\ f \in [Nat -> V]
      /\ \A i \in Nat : f[i] = IF i \in Stop THEN base[i] ELSE comb[i][f[next[i]]]
  BY <1>7, Zenon DEF Computed
<1> DEFINE g == [i \in Nat |-> IF i >= L THEN <<>>
                               ELSE IF src[i + 1] = sep THEN f[i + 1]
                               ELSE <<[from |-> i, to |-> w(i)]>> \o f[w(i)]]
<1>9. ASSUME NEW i \in Nat PROVE f[i] = g[i]
  <2>1. next[i] \in Nat /\ f[next[i]] \in V
    BY <1>4, <1>8
  <2>2. CASE i >= L
    <3>1. i \in Stop /\ base[i] = <<>> /\ g[i] = <<>>
      BY <2>2
    <3> HIDE DEF Stop, base, g
    <3> QED BY <1>8, <3>1
  <2>3. CASE ~(i >= L) /\ src[i + 1] = sep
    <3>1. i \notin Stop /\ next[i] = i + 1 /\ comb[i] = [v \in V |-> v] /\ g[i] = f[i + 1]
      BY <2>3
    <3>2. f[i] = comb[i][f[next[i]]]
      <4> HIDE DEF Stop, base, next, comb, V
      <4> QED BY <1>8, <3>1
    <3> HIDE DEF Stop, base, next, comb, g, V
    <3>3. f[i] = [v \in V |-> v][f[next[i]]]
      BY <3>1, <3>2
    <3> QED BY <2>1, <3>1, <3>3
  <2>4. CASE ~(i >= L) /\ src[i + 1] # sep
    <3>1. /\ i \notin Stop /\ next[i] = w(i) /\ comb[i] = [v \in V |-> <<[from |-> i, to |-> w(i)]>> \o v]
          /\ g[i] = <<[from |-> i, to |-> w(i)]>> \o f[w(i)]
      BY <2>4
    <3>2. f[i] = comb[i][f[next[i]]]
      <4> HIDE DEF Stop, base, next, comb, V
      <4> QED BY <1>8, <3>1
    <3> HIDE DEF Stop, base, next, comb, g, V
    <3>3. f[i] = [v \in V |-> <<[from |-> i, to |-> w(i)]>> \o v][f[next[i]]]
      BY <3>1, <3>2
    <3> QED BY <2>1, <3>1, <3>3
  <2> QED BY <2>2, <2>3, <2>4
<1>10. f = g
  <2>1. f = [i \in Nat |-> f[i]] /\ g = [i \in Nat |-> g[i]]
    BY <1>8
  <2> HIDE DEF g
  <2> QED BY <1>9, <2>1
<1>11. Splitting(f, src, sep)
  <2> HIDE DEF V, mu, Stop, base, next, comb
  <2> QED BY <1>10, Zenon DEF Splitting, g, w, L
<1> QED BY <1>11

Words(src, spots) == [i \in DOMAIN spots |-> Word(src, spots[i])]

\* What the words from at on are.
Split(src, sep, at, spots) ==
  /\ spots \in Seq(Spots) /\ Len(spots) <= Len(src) - at
  /\ \A i \in 1..Len(spots) :
       /\ spots[i].from < spots[i].to /\ spots[i].to <= Len(src)
       /\ \A k \in (spots[i].from + 1)..spots[i].to : src[k] # sep
  /\ FlattenSeq(Words(src, spots)) = Without(SubSeq(src, at + 1, Len(src)), {sep})

LEMMA WordIs ==
  ASSUME NEW src \in Seq(Bytes), NEW spot \in Spots, spot.from < spot.to, spot.to <= Len(src)
  PROVE  /\ Word(src, spot) \in Seq(Bytes) /\ Len(Word(src, spot)) = spot.to - spot.from
         /\ \A k \in 1..(spot.to - spot.from) : Word(src, spot)[k] = src[spot.from + k]
<1> DEFINE a == spot.from
           b == spot.to
<1>1. a \in Nat /\ b \in Nat /\ a < b /\ b <= Len(src) /\ Len(src) \in Nat
  BY LenProperties DEF Spots
<1>2. \A k \in (a + 1)..b : src[k] \in Bytes
  <2>1. \A k \in 1..Len(src) : src[k] \in Bytes
    BY ElementOfSeq
  <2> HIDE DEF a, b
  <2> QED BY <1>1, <2>1
<1> HIDE DEF a, b
<1> DEFINE w == SubSeq(src, a + 1, b)
<1>3. /\ w \in Seq(Bytes) /\ Len(w) = IF a + 1 <= b THEN b - (a + 1) + 1 ELSE 0
      /\ \A k \in 1..(b - (a + 1) + 1) : w[k] = src[a + 1 + k - 1]
  BY <1>1, <1>2, SubSeqProperties
<1>4. w \in Seq(Bytes) /\ Len(w) = b - a /\ \A k \in 1..(b - a) : w[k] = src[a + k]
  <2>1. a + 1 <= b /\ b - (a + 1) + 1 = b - a /\ \A k \in 1..(b - a) : a + 1 + k - 1 = a + k
    BY <1>1
  <2> HIDE DEF w
  <2> QED BY <1>3, <2>1
<1> QED BY <1>4 DEF Word, w, a, b

LEMMA WordsAre ==
  ASSUME NEW src \in Seq(Bytes), NEW spots \in Seq(Spots),
         \A i \in 1..Len(spots) : spots[i].from < spots[i].to /\ spots[i].to <= Len(src)
  PROVE  /\ Words(src, spots) \in Seq(Seq(Bytes)) /\ Len(Words(src, spots)) = Len(spots)
         /\ \A i \in 1..Len(spots) : Words(src, spots)[i] = Word(src, spots[i])
<1>1. DOMAIN spots = 1..Len(spots) /\ Len(spots) \in Nat /\ \A i \in 1..Len(spots) : spots[i] \in Spots
  BY LenProperties, ElementOfSeq
<1>2. \A i \in 1..Len(spots) : Words(src, spots)[i] = Word(src, spots[i])
  BY <1>1, Zenon DEF Words
<1>3. \A i \in 1..Len(spots) : Word(src, spots[i]) \in Seq(Bytes)
  BY <1>1, WordIs
<1>4. Words(src, spots) \in [1..Len(spots) -> Seq(Bytes)]
  <2>1. Words(src, spots) = [i \in 1..Len(spots) |-> Word(src, spots[i])]
    BY <1>1, Zenon DEF Words
  <2> QED BY <1>3, <2>1
<1> QED BY <1>1, <1>2, <1>4, FunctionIsSeq

LEMMA SplitAt ==
  ASSUME NEW src \in Seq(Bytes), NEW sep, NEW f, Splitting(f, src, sep), NEW at \in 0..Len(src),
         \A later \in (at + 1)..Len(src) : Split(src, sep, later, f[later])
  PROVE  Split(src, sep, at, f[at])
<1> DEFINE L == Len(src)
           rest(i) == SubSeq(src, i + 1, L)
<1>1. L \in Nat /\ at \in Nat /\ at <= L /\ \A k \in 1..L : src[k] \in Bytes
  BY LenProperties, ElementOfSeq
<1>2. f[at] = IF at >= L THEN <<>>
              ELSE IF src[at + 1] = sep THEN f[at + 1]
              ELSE <<[from |-> at, to |-> WordEnd(src, sep, at)]>> \o f[WordEnd(src, sep, at)]
  <2>1. f = [i \in Nat |->
              IF i >= L THEN <<>>
              ELSE IF src[i + 1] = sep THEN f[i + 1]
              ELSE <<[from |-> i, to |-> WordEnd(src, sep, i)]>> \o f[WordEnd(src, sep, i)]]
    BY Zenon DEF Splitting
  <2> HIDE DEF L
  <2> QED BY <1>1, <2>1, Zenon
<1>3. ASSUME NEW i \in 0..L PROVE rest(i) \in Seq(Bytes)
  <2>1. \A k \in (i + 1)..L : src[k] \in Bytes
    BY <1>1
  <2> QED BY <1>1, <2>1, SubSeqProperties
<1>4. CASE at >= L
  <2>1. f[at] = <<>> /\ at = L
    BY <1>1, <1>2, <1>4
  <2>2. rest(at) = <<>>
    BY <1>1, <2>1, SubSeqEmpty
  <2>3. Words(src, <<>>) = <<>>
    BY DEF Words
  <2>4. FlattenSeq(Words(src, <<>>)) = Without(rest(at), {sep})
    BY <2>2, <2>3, FlattenEmpty, WithoutEmpty
  <2>5. <<>> \in Seq(Spots) /\ Len(<<>>) = 0
    BY EmptySeq
  <2> QED BY <1>1, <2>1, <2>4, <2>5 DEF Split
<1>5. CASE ~(at >= L) /\ src[at + 1] = sep
  <2> DEFINE b == at + 1
  <2>1. b \in (at + 1)..L /\ b \in 0..L /\ b \in Nat /\ at + 1 \in 1..L /\ L \in (at + 1)..L
    BY <1>1, <1>5
  <2>2. f[at] = f[b]
    BY <1>2, <1>5
  <2>3. Split(src, sep, b, f[b])
    BY <2>1
  <2>4. rest(at) = <<sep>> \o rest(b)
    <3>1. rest(at) = <<src[at + 1]>> \o SubSeq(src, at + 1 + 1, L)
      BY <2>1, SubSeqRecursiveFirst
    <3> QED BY <1>5, <3>1
  <2>5. Without(rest(at), {sep}) = Without(rest(b), {sep})
    <3> DEFINE x == <<sep>>
               r == rest(b)
    <3>1. r \in Seq(Bytes) /\ sep \in Bytes /\ x \in Seq(Bytes)
      BY <1>1, <1>3, <1>5, <2>1
    <3>2. Without(x, {sep}) = <<>>
      BY <3>1, WithoutOne
    <3>3. Without(r, {sep}) \in Seq(Bytes)
      <4> HIDE DEF r
      <4> QED BY <3>1, KeptIs
    <3>5. rest(at) = x \o r
      BY <2>4
    <3> HIDE DEF x, r
    <3>4. Without(x \o r, {sep}) = Without(x, {sep}) \o Without(r, {sep})
      BY ONLY <3>1, WithoutConcat
    <3> QED BY <3>2, <3>3, <3>4, <3>5, ConcatEmptySeq DEF r
  <2>6. Len(f[b]) <= L - b => Len(f[b]) <= L - at
    <3>1. Len(f[b]) \in Nat
      <4>1. f[b] \in Seq(Spots)
        BY <2>3 DEF Split
      <4> QED BY <4>1, LenProperties
    <3> QED BY <1>1, <2>1, <3>1
  <2> HIDE DEF b
  <2> QED BY <2>2, <2>3, <2>5, <2>6 DEF Split
<1>6. CASE ~(at >= L) /\ src[at + 1] # sep
  <2> DEFINE e == WordEnd(src, sep, at)
             spot == [from |-> at, to |-> e]
             one == <<spot>>
             more == f[e]
             fe == one \o more
  <2>1. at \in 0..(L - 1)
    BY <1>1, <1>6
  <2>2. e \in (at + 1)..L /\ \A k \in (at + 1)..e : src[k] # sep
    BY <1>6, <2>1, WordEndIs
  <2> HIDE DEF e
  <2>3. e \in Nat /\ e \in 0..L /\ at < e /\ e <= L
    BY <1>1, <2>2
  <2>4. spot \in Spots /\ spot.from = at /\ spot.to = e
    BY <1>1, <2>3 DEF Spots
  <2>5. f[at] = fe
    BY <1>2, <1>6 DEF e
  <2>6. Split(src, sep, e, more)
    BY <2>2
  <2>7. /\ more \in Seq(Spots) /\ Len(more) <= L - e /\ Len(more) \in Nat
        /\ \A i \in 1..Len(more) :
             /\ more[i].from < more[i].to /\ more[i].to <= L
             /\ \A k \in (more[i].from + 1)..more[i].to : src[k] # sep
        /\ FlattenSeq(Words(src, more)) = Without(rest(e), {sep})
    BY <2>6, LenProperties DEF Split
  <2> HIDE DEF spot, more
  <2>8. one \in Seq(Spots) /\ Len(one) = 1 /\ one[1] = spot
    BY <2>4, OneOf
  <2> HIDE DEF one
  <2>9. /\ fe \in Seq(Spots) /\ Len(fe) = 1 + Len(more) /\ fe[1] = spot
        /\ \A i \in 1..Len(more) : fe[1 + i] = more[i]
    <3>1. /\ fe \in Seq(Spots) /\ Len(fe) = Len(one) + Len(more)
          /\ \A i \in 1..Len(one) : fe[i] = one[i]
          /\ \A i \in 1..Len(more) : fe[Len(one) + i] = more[i]
      <4>1. one \in Seq(Spots) /\ more \in Seq(Spots)
        BY <2>7, <2>8
      <4> QED BY ONLY <4>1, ConcatPlaces
    <3> HIDE DEF fe
    <3> QED BY <2>8, <3>1
  <2> HIDE DEF fe
  <2>10. Len(fe) <= L - at
    BY <1>1, <2>3, <2>7, <2>9
  <2>11. ASSUME NEW i \in 1..Len(fe)
         PROVE  /\ fe[i].from < fe[i].to /\ fe[i].to <= L
                /\ \A k \in (fe[i].from + 1)..fe[i].to : src[k] # sep
    <3>1. CASE i = 1
      BY <2>2, <2>3, <2>4, <2>9, <3>1
    <3>2. CASE i # 1
      <4> DEFINE j == i - 1
      <4>1. j \in 1..Len(more) /\ 1 + j = i
        BY <2>7, <2>9, <3>2
      <4> HIDE DEF j
      <4>2. fe[i] = more[j]
        BY <2>9, <4>1
      <4> QED BY <2>7, <4>1, <4>2
    <3> QED BY <3>1, <3>2
  <2> DEFINE w == Word(src, spot)
             ws == Words(src, more)
  <2>12. w \in Seq(Bytes) /\ ws \in Seq(Seq(Bytes)) /\ Len(ws) = Len(more)
    BY <2>3, <2>4, <2>7, WordIs, WordsAre
  <2>13. Words(src, fe) = <<w>> \o ws
    <3> DEFINE a == Words(src, fe)
               h == <<w>>
               b == h \o ws
    <3>1. a \in Seq(Seq(Bytes)) /\ Len(a) = Len(fe) /\ \A i \in 1..Len(fe) : a[i] = Word(src, fe[i])
      BY <2>9, <2>11, WordsAre
    <3>2. \A i \in 1..Len(more) : ws[i] = Word(src, more[i])
      BY <2>7, WordsAre
    <3>3. h \in Seq(Seq(Bytes)) /\ Len(h) = 1 /\ h[1] = w
      BY <2>12, OneOf
    <3>4. /\ b \in Seq(Seq(Bytes)) /\ Len(b) = Len(h) + Len(ws)
          /\ \A i \in 1..Len(h) : b[i] = h[i]
          /\ \A i \in 1..Len(ws) : b[Len(h) + i] = ws[i]
      <4>1. h \in Seq(Seq(Bytes)) /\ ws \in Seq(Seq(Bytes))
        BY <2>12, <3>3
      <4> HIDE DEF h, ws
      <4> QED BY ONLY <4>1, ConcatPlaces
    <3> HIDE DEF a, b, h, ws
    <3>5. ASSUME NEW i \in 1..Len(fe) PROVE a[i] = b[i]
      <4>1. CASE i = 1
        <5>1. 1 \in 1..Len(h) /\ a[1] = Word(src, fe[1])
          BY <3>1, <3>3, <4>1
        <5> QED BY <2>9, <3>3, <3>4, <4>1, <5>1
      <4>2. CASE i # 1
        <5> DEFINE j == i - 1
        <5>1. j \in 1..Len(more) /\ 1 + j = i
          BY <2>7, <2>9, <4>2
        <5> HIDE DEF j
        <5> QED BY <2>9, <2>12, <3>1, <3>2, <3>3, <3>4, <5>1
      <4> QED BY <4>1, <4>2
    <3>6. Len(a) = Len(b)
      BY <2>9, <2>12, <3>1, <3>3, <3>4
    <3>7. a = b
      <4>1. a \in Seq(Seq(Bytes)) /\ b \in Seq(Seq(Bytes)) /\ \A i \in 1..Len(a) : a[i] = b[i]
        BY <3>1, <3>4, <3>5
      <4> QED BY ONLY <3>6, <4>1, SeqEqual
    <3> QED BY <3>7 DEF a, b, h
  <2>14. FlattenSeq(Words(src, fe)) = w \o FlattenSeq(ws)
    <3> DEFINE h == <<w>>
    <3>1. h \in Seq(Seq(Bytes)) /\ FlattenSeq(h) = w
      BY <2>12, FlattenOne
    <3>3. Words(src, fe) = h \o ws
      BY <2>13
    <3> HIDE DEF h, ws
    <3>2. FlattenSeq(h \o ws) = FlattenSeq(h) \o FlattenSeq(ws)
      BY <2>12, <3>1, FlattenConcat
    <3> QED BY <3>1, <3>2, <3>3
  <2>15. Without(rest(at), {sep}) = w \o Without(rest(e), {sep})
    <3>1. rest(at) = w \o rest(e)
      <4> DEFINE m == at + 1
      <4>1. m \in 1..(Len(src) + 1) /\ e \in (m - 1)..Len(src) /\ Len(src) \in e..Len(src)
        BY <1>1, <2>3
      <4> HIDE DEF m
      <4>2. SubSeq(src, m, e) \o SubSeq(src, e + 1, Len(src)) = SubSeq(src, m, Len(src))
        BY <4>1, ConcatAdjacentSubSeq
      <4>3. w = SubSeq(src, m, e)
        BY <2>4, Zenon DEF Word, m
      <4> QED BY <4>2, <4>3 DEF m
    <3>2. \A k \in 1..Len(w) : w[k] \notin {sep}
      <4>1. Len(w) = e - at /\ \A k \in 1..(e - at) : w[k] = src[at + k]
        <5>1. spot.from < spot.to /\ spot.to <= Len(src)
          BY <2>3, <2>4
        <5>2. Len(w) = spot.to - spot.from /\ \A k \in 1..(spot.to - spot.from) : w[k] = src[spot.from + k]
          BY <2>4, <5>1, WordIs
        <5> HIDE DEF w
        <5> QED BY <2>4, <5>2
      <4>2. \A k \in 1..(e - at) : at + k \in (at + 1)..e
        BY <1>1, <2>3
      <4> HIDE DEF w
      <4> QED BY <2>2, <4>1, <4>2
    <3>3. rest(e) \in Seq(Bytes)
      BY <1>3, <2>3
    <3> DEFINE r == rest(e)
    <3> HIDE DEF w, r
    <3>4. Without(w, {sep}) = w
      BY <2>12, <3>2, WithoutNone
    <3>5. Without(w \o r, {sep}) = Without(w, {sep}) \o Without(r, {sep})
      <4>1. r \in Seq(Bytes)
        BY <3>3 DEF r
      <4>2. w \in Seq(Bytes)
        BY <2>12
      <4> QED BY ONLY <4>1, <4>2, WithoutConcat
    <3> QED BY <3>1, <3>4, <3>5 DEF r
  <2>16. FlattenSeq(Words(src, fe)) = Without(rest(at), {sep})
    BY <2>7, <2>14, <2>15
  <2> QED BY <2>5, <2>9, <2>10, <2>11, <2>16 DEF Split
<1> QED BY <1>4, <1>5, <1>6

LEMMA SplitsAll ==
  ASSUME NEW src \in Seq(Bytes), NEW sep, NEW f, Splitting(f, src, sep)
  PROVE  Split(src, sep, 0, f[0])
<1> DEFINE L == Len(src)
           mu == [i \in 0..L |-> L - i]
           S == {i \in 0..L : Split(src, sep, i, f[i])}
<1>1. L \in Nat
  BY LenProperties
<1>2. ASSUME NEW i \in 0..L, \A j \in 0..L : mu[j] < mu[i] => j \in S PROVE i \in S
  <2>1. ASSUME NEW j \in (i + 1)..L PROVE Split(src, sep, j, f[j])
    <3>1. j \in 0..L /\ mu[j] < mu[i]
      BY <1>1
    <3> HIDE DEF mu
    <3> QED BY <1>2, <3>1
  <2>2. Split(src, sep, i, f[i])
    BY <2>1, SplitAt
  <2> QED BY <2>2
<1>3. \A i \in 0..L : i \in S
  <2>1. mu \in [0..L -> Nat]
    BY <1>1
  <2> HIDE DEF S, mu, L
  <2>2. Inherited(0..L, mu, S)
    BY <1>2, <2>1 DEF Inherited
  <2> QED BY <2>2, ByMeasure
<1> QED BY <1>1, <1>3

\* cstr_split, asked for more words than there are bytes.
LEMMA CstrSplitIs ==
  ASSUME NEW src \in Seq(Bytes), NEW sep
  PROVE  \E spots : /\ Split(src, sep, 0, spots)
                    /\ cstr_split(src, sep, Len(src) + 1) = Words(src, spots)
<1> DEFINE L == Len(src)
           size == L + 1
           Ends(at) == {e \in (at + 1)..Len(src) : e = Len(src) \/ src[e + 1] = sep}
           Step(f) == [at \in Nat |->
             IF at >= Len(src) THEN <<>>
             ELSE IF src[at + 1] = sep THEN f[at + 1]
             ELSE <<[from |-> at, to |-> Min(Ends(at))]>> \o f[Min(Ends(at))]]
           From[at \in Nat] ==
             IF at >= Len(src) THEN <<>>
             ELSE IF src[at + 1] = sep THEN From[at + 1]
             ELSE <<[from |-> at, to |-> Min(Ends(at))]>> \o From[Min(Ends(at))]
           words == UpTo(From[0], size)
<1>1. \A f : Splitting(f, src, sep) <=> f = Step(f)
  BY Zenon DEF Splitting, WordEnd, WordEnds
<1>2. From = Step(From)
  <2>1. \E f : f = Step(f)
    <3> HIDE DEF Step
    <3> QED BY <1>1, SplittingExists
  <2> QED BY <2>1, Zenon
<1>3. Split(src, sep, 0, From[0])
  <2> HIDE DEF From, Step
  <2> QED BY <1>1, <1>2, SplitsAll
<1>4. cstr_split(src, sep, size)
        = [w \in DOMAIN words |->
             SubSeq(src, words[w].from + 1, IF w = size THEN Len(src) ELSE words[w].to)]
  BY Zenon DEF cstr_split
<1> HIDE DEF From
<1>5. From[0] \in Seq(Spots) /\ Len(From[0]) <= L - 0
  BY <1>3, Zenon DEF Split
<1>6. L \in Nat /\ Len(From[0]) \in Nat /\ Len(From[0]) < size
  BY <1>5, LenProperties
<1>7. words = From[0]
  <2>1. words = SubSeq(From[0], 1, Len(From[0]))
    BY <1>6 DEF UpTo
  <2> HIDE DEF words
  <2> QED BY <1>5, <2>1, SubSeqFull
<1> HIDE DEF words
<1>8. \A w \in DOMAIN words : w # size
  <2>1. DOMAIN words = 1..Len(From[0])
    BY <1>5, <1>7, LenProperties
  <2> QED BY <1>6, <2>1
<1> HIDE DEF size
<1>9. cstr_split(src, sep, size) = Words(src, words)
  BY <1>4, <1>8 DEF Words, Word
<1> QED BY <1>3, <1>7, <1>9 DEF size

\* The beginning of a sequence.
LEMMA BeginningIs ==
  ASSUME NEW S, NEW s \in Seq(S), NEW n \in Nat, n <= Len(s)
  PROVE  /\ SubSeq(s, 1, n) \in Seq(S) /\ Len(SubSeq(s, 1, n)) = n
         /\ \A i \in 1..n : SubSeq(s, 1, n)[i] = s[i]
<1> DEFINE p == SubSeq(s, 1, n)
<1>1. \A i \in 1..n : s[i] \in S
  BY LenProperties, ElementOfSeq
<1>2. /\ p \in Seq(S) /\ Len(p) = (IF 1 <= n THEN n - 1 + 1 ELSE 0)
      /\ \A i \in 1..(n - 1 + 1) : p[i] = s[1 + i - 1]
  BY <1>1, SubSeqProperties
<1>3. n - 1 + 1 = n /\ (IF 1 <= n THEN n - 1 + 1 ELSE 0) = n /\ \A i \in 1..n : 1 + i - 1 = i
  OBVIOUS
<1> HIDE DEF p
<1>4. p \in Seq(S) /\ Len(p) = n /\ \A i \in 1..n : p[i] = s[i]
  BY <1>2, <1>3
<1> QED BY <1>4 DEF p

\* The terms are words: they have no blank, and together are the query without
\* its blanks, if there is room for all of them.
LEMMA TermsAre ==
  ASSUME NEW query \in Seq(Bytes)
  PROVE  LET terms == as_temp_split_query_terms(query) IN
         /\ terms \in Seq(Seq(Bytes))
         /\ \A i \in DOMAIN terms : " " \notin Range(terms[i]) /\ terms[i] # <<>>
         /\ Len(terms) < MAX_QUERY_TERMS_NUM => FlattenSeq(terms) = Without(query, {" "})
<1> DEFINE terms == as_temp_split_query_terms(query)
           max == MAX_QUERY_TERMS_NUM
<1>1. PICK spots : /\ Split(query, " ", 0, spots)
                   /\ cstr_split(query, " ", Len(query) + 1) = Words(query, spots)
  BY CstrSplitIs
<1>2. /\ spots \in Seq(Spots) /\ Len(spots) \in Nat
      /\ \A i \in 1..Len(spots) :
           /\ spots[i] \in Spots /\ spots[i].from < spots[i].to /\ spots[i].to <= Len(query)
           /\ \A k \in (spots[i].from + 1)..spots[i].to : query[k] # " "
      /\ FlattenSeq(Words(query, spots)) = Without(SubSeq(query, 0 + 1, Len(query)), {" "})
  BY <1>1, LenProperties, ElementOfSeq DEF Split
<1> DEFINE ws == Words(query, spots)
           n == Len(spots)
           m == IF max < n THEN max ELSE n
<1>3. /\ ws \in Seq(Seq(Bytes)) /\ Len(ws) = n
      /\ \A i \in 1..n : ws[i] = Word(query, spots[i])
  BY <1>2, WordsAre
<1>4. max \in Nat /\ n \in Nat /\ m \in Nat /\ m <= n
  <2>1. max \in Nat /\ n \in Nat
    BY <1>2, TemplateTextAssumption
  <2> HIDE DEF max, n
  <2> QED BY <2>1
<1>5. terms = SubSeq(ws, 1, m)
  <2>1. terms = UpTo(ws, max)
    BY <1>1, Zenon DEF as_temp_split_query_terms
  <2> HIDE DEF terms, ws
  <2> QED BY <1>3, <2>1 DEF UpTo
<1> HIDE DEF terms, ws, m, max, n
<1>6. terms \in Seq(Seq(Bytes)) /\ Len(terms) = m /\ \A i \in 1..m : terms[i] = ws[i]
  <2>1. m <= Len(ws)
    BY <1>3, <1>4
  <2> QED BY <1>3, <1>4, <1>5, <2>1, BeginningIs
<1>7. ASSUME NEW i \in DOMAIN terms PROVE " " \notin Range(terms[i]) /\ terms[i] # <<>>
  <2>1. i \in 1..m /\ i \in 1..n
    <3>1. DOMAIN terms = 1..m
      BY <1>6, LenProperties
    <3> QED BY <1>4, <3>1
  <2> DEFINE w == Word(query, spots[i])
             a == spots[i].from
             b == spots[i].to
  <2>2. terms[i] = w
    BY <1>3, <1>6, <2>1
  <2>3. /\ w \in Seq(Bytes) /\ Len(w) = b - a /\ a \in Nat /\ b \in Nat /\ a < b
        /\ \A k \in 1..(b - a) : w[k] = query[a + k]
        /\ \A k \in (a + 1)..b : query[k] # " "
    <3>1. spots[i] \in Spots /\ a < b /\ b <= Len(query) /\ \A k \in (a + 1)..b : query[k] # " "
      BY <1>2, <2>1 DEF n
    <3>2. w \in Seq(Bytes) /\ Len(w) = b - a /\ \A k \in 1..(b - a) : w[k] = query[a + k]
      BY <3>1, WordIs
    <3>3. a \in Nat /\ b \in Nat
      BY <3>1 DEF Spots
    <3> QED BY <3>1, <3>2, <3>3
  <2> HIDE DEF w, a, b
  <2>4. \A k \in 1..Len(w) : w[k] # " "
    <3>2. a \in Nat /\ b \in Nat /\ a < b
      BY <2>3
    <3>1. \A k \in 1..(b - a) : a + k \in (a + 1)..b
      BY ONLY <3>2
    <3> QED BY <2>3, <3>1
  <2>5. DOMAIN w = 1..Len(w) /\ Len(w) # 0
    <3>1. a \in Nat /\ b \in Nat /\ a < b /\ Len(w) = b - a
      BY <2>3
    <3>2. Len(w) # 0
      BY ONLY <3>1
    <3> QED BY <2>3, <3>2, LenProperties
  <2> QED BY <2>2, <2>4, <2>5 DEF Range
<1>8. ASSUME Len(terms) < max PROVE FlattenSeq(terms) = Without(query, {" "})
  <2>1. m = n
    BY <1>4, <1>6, <1>8 DEF m
  <2>2. terms = ws
    BY <1>3, <1>5, <2>1, SubSeqFull
  <2>3. SubSeq(query, 0 + 1, Len(query)) = query
    BY SubSeqFull
  <2> QED BY <1>2, <2>2, <2>3 DEF ws
<1> QED BY <1>6, <1>7, <1>8 DEF terms, max

-----------------------------------------------------------------------------
(***************************************************************************)
(* The search for a term.                                                  *)
(***************************************************************************)
StandsAt(src, i, dest) ==
  /\ i + Len(dest) <= Len(src) /\ src[i + 1] = dest[1]
  /\ \A k \in DOMAIN dest : Lower(src[i + k]) = Lower(dest[k])

\* What a search from at finds: the first such place between two characters, if
\* at is one.
Hit(src, dest, at, r) ==
  /\ r = -1 \/ (r \in Nat /\ at <= r /\ StandsAt(src, r, dest))
  /\ Between(src, at) =>
       /\ r # -1 => Between(src, r)
       /\ \A q \in Nat : at <= q /\ Between(src, q) /\ StandsAt(src, q, dest) => r # -1 /\ r <= q

Searching(f, src, dest) ==
  f = [i \in Nat |-> IF i >= Len(src) THEN -1
                     ELSE IF StandsAt(src, i, dest) THEN i
                     ELSE f[IF src[i + 1] = "hi" THEN i + 2 ELSE i + 1]]

LEMMA SearchingExists ==
  ASSUME NEW src \in Seq(Bytes), NEW dest
  PROVE  \E f : Searching(f, src, dest)
<1> DEFINE L == Len(src)
           V == Nat \cup {-1}
           mu == [i \in Nat |-> IF i <= L THEN L - i ELSE 0]
           Here(i) == StandsAt(src, i, dest)
           Stop == {i \in Nat : i >= L \/ Here(i)}
           base == [i \in Nat |-> IF i >= L THEN -1 ELSE i]
           next == [i \in Nat |-> IF src[i + 1] = "hi" THEN i + 2 ELSE i + 1]
           comb == [i \in Nat |-> [v \in V |-> v]]
<1>1. L \in Nat
  BY LenProperties
<1> HIDE DEF Here
<1>2. mu \in [Nat -> Nat]
  BY <1>1
<1>3. base \in [Nat -> V] /\ next \in [Nat -> Nat] /\ comb \in [Nat -> [V -> V]]
  OBVIOUS
<1>4. \A i \in Nat : i \notin Stop => mu[next[i]] < mu[i]
  BY <1>1
<1>5. PICK f : Computed(f, Nat, V, Stop, base, next, comb)
  <2> HIDE DEF mu, Stop, base, next, comb, V
  <2>1. GoesDown(Nat, V, mu, Stop, base, next, comb)
    BY <1>2, <1>3, <1>4 DEF GoesDown
  <2> QED BY <2>1, RecursionExists
<1>6. /\ f \in [Nat -> V]
      /\ \A i \in Nat : f[i] = IF i \in Stop THEN base[i] ELSE comb[i][f[next[i]]]
  BY <1>5, Zenon DEF Computed
<1> DEFINE g == [i \in Nat |-> IF i >= L THEN -1
                               ELSE IF Here(i) THEN i
                               ELSE f[IF src[i + 1] = "hi" THEN i + 2 ELSE i + 1]]
<1>7. ASSUME NEW i \in Nat PROVE f[i] = g[i]
  <2>1. f[i] = IF i \in Stop THEN base[i] ELSE f[next[i]]
    <3>1. next[i] \in Nat
      BY <1>3
    <3>2. f[next[i]] \in V
      BY <1>6, <3>1
    <3>3. comb[i][f[next[i]]] = f[next[i]]
      BY <3>2
    <3> HIDE DEF Stop, base, next, comb
    <3> QED BY <1>6, <3>3
  <2>2. i \in Stop <=> (i >= L \/ Here(i))
    OBVIOUS
  <2>3. base[i] = (IF i >= L THEN -1 ELSE i) /\ next[i] = IF src[i + 1] = "hi" THEN i + 2 ELSE i + 1
    OBVIOUS
  <2> HIDE DEF Stop, base, next
  <2> QED BY <2>1, <2>2, <2>3
<1>8. f = g
  <2>1. g = [i \in Nat |-> g[i]] /\ f = [i \in Nat |-> f[i]]
    BY <1>6
  <2> HIDE DEF g
  <2> QED BY <1>7, <2>1
<1>9. Searching(f, src, dest)
  <2> HIDE DEF V, mu, Stop, base, next, comb
  <2> QED BY <1>8, Zenon DEF Searching, g, L, Here
<1> QED BY <1>9

LEMMA SearchHits ==
  ASSUME NEW src \in Seq(Bytes), NEW dest \in Seq(Bytes), dest # <<>>,
         NEW f, Searching(f, src, dest), NEW at \in Nat
  PROVE  Hit(src, dest, at, f[at])
<1> DEFINE L == Len(src)
           mu == [i \in Nat |-> IF i <= L THEN L - i ELSE 0]
           S == {i \in Nat : Hit(src, dest, i, f[i])}
<1>1. L \in Nat /\ Len(dest) \in Nat /\ Len(dest) # 0
  BY LenProperties
<1>2. \A i \in Nat : f[i] = IF i >= L THEN -1
                            ELSE IF StandsAt(src, i, dest) THEN i
                            ELSE f[IF src[i + 1] = "hi" THEN i + 2 ELSE i + 1]
  <2>1. f = [i \in Nat |-> IF i >= L THEN -1
                           ELSE IF StandsAt(src, i, dest) THEN i
                           ELSE f[IF src[i + 1] = "hi" THEN i + 2 ELSE i + 1]]
    BY Zenon DEF Searching
  <2> HIDE DEF L
  <2> QED BY <2>1, Zenon
<1>3. \A q \in Nat : StandsAt(src, q, dest) => q < L
  BY <1>1 DEF StandsAt
<1>4. ASSUME NEW i \in Nat, \A j \in Nat : mu[j] < mu[i] => j \in S PROVE i \in S
  <2> DEFINE j == IF src[i + 1] = "hi" THEN i + 2 ELSE i + 1
  <2>1. CASE i >= L
    <3>1. f[i] = -1
      BY <1>2, <2>1
    <3>2. \A q \in Nat : i <= q => ~StandsAt(src, q, dest)
      BY <1>1, <1>3, <2>1
    <3> QED BY <3>1, <3>2 DEF Hit
  <2>2. CASE ~(i >= L) /\ StandsAt(src, i, dest)
    <3>1. f[i] = i /\ i # -1
      BY <1>2, <2>2
    <3> QED BY <2>2, <3>1 DEF Hit
  <2>3. CASE ~(i >= L) /\ ~StandsAt(src, i, dest)
    <3>1. f[i] = f[j]
      BY <1>2, <2>3
    <3>2. j \in Nat /\ mu[j] < mu[i]
      BY <1>1, <2>3
    <3>3. Hit(src, dest, j, f[j])
      BY <1>4, <3>2
    <3>4. i <= j
      OBVIOUS
    <3>5. Between(src, i) => Between(src, j)
      BY BetweenNarrow, BehindWide
    <3>6. ASSUME Between(src, i), NEW q \in Nat, i <= q, Between(src, q), StandsAt(src, q, dest)
          PROVE  j <= q
      <4>1. q # i
        BY <2>3, <3>6
      <4>2. src[i + 1] = "hi" => q # i + 1
        BY <3>6, BehindWide
      <4>3. i + 1 <= q /\ (q # i + 1 => i + 2 <= q)
        BY <3>6, <4>1
      <4> QED BY <4>2, <4>3
    <3> HIDE DEF j
    <3>7. /\ f[j] = -1 \/ (f[j] \in Nat /\ j <= f[j] /\ StandsAt(src, f[j], dest))
          /\ Between(src, j) =>
               /\ f[j] # -1 => Between(src, f[j])
               /\ \A q \in Nat : j <= q /\ Between(src, q) /\ StandsAt(src, q, dest) => f[j] # -1 /\ f[j] <= q
      BY <3>3 DEF Hit
    <3>8. f[j] = -1 \/ (f[j] \in Nat /\ i <= f[j] /\ StandsAt(src, f[j], dest))
      BY <3>2, <3>4, <3>7
    <3>9. ASSUME Between(src, i)
          PROVE  /\ f[j] # -1 => Between(src, f[j])
                 /\ \A q \in Nat : i <= q /\ Between(src, q) /\ StandsAt(src, q, dest) =>
                      f[j] # -1 /\ f[j] <= q
      BY <3>5, <3>6, <3>7, <3>9
    <3>10. Hit(src, dest, i, f[j])
      BY <3>8, <3>9, Zenon DEF Hit
    <3> QED BY <3>1, <3>10
  <2> QED BY <2>1, <2>2, <2>3
<1>5. \A i \in Nat : i \in S
  <2>1. mu \in [Nat -> Nat]
    BY <1>1
  <2> HIDE DEF S, mu
  <2>2. Inherited(Nat, mu, S)
    BY <1>4, <2>1 DEF Inherited
  <2> QED BY <2>2, ByMeasure, Zenon
<1> QED BY <1>5

LEMMA StrcasestrIs ==
  ASSUME NEW src \in Seq(Bytes), NEW dest \in Seq(Bytes), dest # <<>>, NEW at \in Nat
  PROVE  Hit(src, dest, at, strcasestrGBK(src, at, dest))
<1> DEFINE Here(i) == /\ i + Len(dest) <= Len(src) /\ src[i + 1] = dest[1]
                      /\ \A k \in DOMAIN dest : Lower(src[i + k]) = Lower(dest[k])
           Step(f) == [i \in Nat |-> IF i >= Len(src) THEN -1
                                     ELSE IF Here(i) THEN i
                                     ELSE f[IF src[i + 1] = "hi" THEN i + 2 ELSE i + 1]]
           From[i \in Nat] ==
             IF i >= Len(src) THEN -1
             ELSE IF Here(i) THEN i
             ELSE From[IF src[i + 1] = "hi" THEN i + 2 ELSE i + 1]
<1>1. \A f : Searching(f, src, dest) <=> f = Step(f)
  BY Zenon DEF Searching, StandsAt
<1>2. From = Step(From)
  <2>1. \E f : f = Step(f)
    <3> HIDE DEF Step
    <3> QED BY <1>1, SearchingExists
  <2> QED BY <2>1, Zenon
<1>3. strcasestrGBK(src, at, dest) = From[at]
  BY Zenon DEF strcasestrGBK
<1> HIDE DEF From, Step
<1> QED BY <1>1, <1>2, <1>3, SearchHits

\* A term of whole characters that stands between two characters ends so too.
LEMMA HitEnds ==
  ASSUME NEW src \in Seq(Bytes), NEW dest \in Seq(Bytes), WholeCharacters(dest),
         NEW p \in Nat, Between(src, p), StandsAt(src, p, dest)
  PROVE  Between(src, p + Len(dest))
<1> DEFINE n == Len(dest)
           S == {k \in Nat : k <= n => (Between(src, p + k) <=> Between(dest, k))}
<1>1. n \in Nat /\ DOMAIN dest = 1..n
  BY LenProperties
<1>2. \A c : Lower(c) = "hi" <=> c = "hi"
  BY DEF Lower
<1>3. 0 \in S
  <2>1. p + 0 = p
    OBVIOUS
  <2> QED BY <2>1, BetweenStart
<1>4. \A k \in Nat : k \in S => k + 1 \in S
  <2>1. SUFFICES ASSUME NEW k \in Nat, k \in S, k + 1 <= n
                 PROVE  Between(src, p + (k + 1)) <=> Between(dest, k + 1)
    OBVIOUS
  <2> DEFINE q == p + k
             j == k + 1
  <2>2. q \in Nat /\ p + (k + 1) = q + 1 /\ p + j = q + 1 /\ j \in 1..n
    BY <1>1, <2>1
  <2>3. Between(src, q) <=> Between(dest, k)
    BY <1>1, <2>1
  <2> HIDE DEF q, j
  <2>4. src[q + 1] = "hi" <=> dest[j] = "hi"
    <3>1. Lower(src[p + j]) = Lower(dest[j])
      BY <1>1, <2>2 DEF StandsAt
    <3> QED BY <1>2, <2>2, <3>1
  <2>5. Between(src, q + 1) <=> Between(dest, k + 1)
    BY <2>2, <2>3, <2>4, BetweenNarrow, BetweenWide DEF j
  <2> QED BY <2>2, <2>5
<1>5. n \in S
  <2> HIDE DEF S
  <2> QED BY <1>1, <1>3, <1>4, NatBySteps
<1> QED BY <1>1, <1>5 DEF WholeCharacters

-----------------------------------------------------------------------------
(***************************************************************************)
(* The places found.                                                       *)
(***************************************************************************)
Spans == [offset : Nat, len : Nat]

InOrder(s) == \A i \in 1..(Len(s) - 1) : s[i].offset <= s[i + 1].offset

\* The places at which a term stands between two characters.
PlacesOf(value, t) ==
  {p \in 0..(Len(value) - Len(t)) :
     /\ Between(value, p) /\ value[p + 1] = t[1]
     /\ \A k \in DOMAIN t : Lower(value[p + k]) = Lower(t[k])}

\* The smallest of a set of numbers.
LEMMA MinOf ==
  ASSUME NEW S \in SUBSET Nat, S # {}
  PROVE  Min(S) \in S /\ \A j \in S : Min(S) <= j
<1>1. \E k \in S : \A j \in S : k <= j
  BY LeastOf
<1>2. Min(S) = CHOOSE x \in S : \A j \in S : x <= j
  BY Zenon DEF Min
<1> QED BY <1>1, <1>2, Zenon

LEMMA InsertedIs ==
  ASSUME NEW s \in Seq(Spans), NEW new \in Spans
  PROVE  /\ Inserted(s, new) \in Seq(Spans) /\ (InOrder(s) => InOrder(Inserted(s, new)))
         /\ Len(Inserted(s, new)) = Len(s) + 1
         /\ Range(Inserted(s, new)) = Range(s) \cup {new}
<1> DEFINE n == Len(s)
           behind == {i \in DOMAIN s : s[i].offset > new.offset}
           j == IF behind = {} THEN n + 1 ELSE Min(behind)
           t == InsertAt(s, j, new)
<1>1. n \in Nat /\ DOMAIN s = 1..n /\ \A i \in 1..n : s[i] \in Spans
  BY LenProperties, ElementOfSeq
<1>2. Inserted(s, new) = t
  BY Zenon DEF Inserted
<1>3. /\ j \in 1..(n + 1)
      /\ \A i \in 1..n : i < j => ~(s[i].offset > new.offset)
      /\ j \in 1..n => s[j].offset > new.offset
  <2>1. CASE behind = {}
    BY <1>1, <2>1
  <2>2. CASE behind # {}
    <3>1. behind \in SUBSET Nat /\ \A i \in 1..n : i \in behind <=> s[i].offset > new.offset
      BY <1>1
    <3>2. behind \subseteq 1..n
      BY <1>1
    <3> HIDE DEF behind
    <3>3. j \in behind /\ \A i \in behind : j <= i
      BY <2>2, <3>1, MinOf
    <3> HIDE DEF j
    <3>4. j \in 1..n /\ j \in Nat
      BY <3>2, <3>3
    <3>5. \A i \in 1..n : i < j => i \notin behind
      BY <3>3, <3>4
    <3> HIDE DEF n
    <3> QED BY <1>1, <3>1, <3>3, <3>4, <3>5
  <2> QED BY <2>1, <2>2
<1> HIDE DEF j
<1>4. /\ t \in Seq(Spans) /\ Len(t) = n + 1 /\ t[j] = new
      /\ \A k \in 1..(j - 1) : t[k] = s[k]
      /\ \A k \in j..n : t[k + 1] = s[k]
  BY <1>3, InsertIs
<1> HIDE DEF t, n, behind
<1>5. DOMAIN t = 1..(n + 1)
  BY <1>4, LenProperties
<1>6. ASSUME InOrder(s) PROVE InOrder(t)
  <2>0. \A i \in 1..(n - 1) : s[i].offset <= s[i + 1].offset
    BY <1>6 DEF InOrder, n
  <2>1. SUFFICES ASSUME NEW i \in 1..n PROVE t[i].offset <= t[i + 1].offset
    <3>1. Len(t) - 1 = n
      BY <1>1, <1>4
    <3> QED BY <3>1 DEF InOrder
  <2>2. new.offset \in Nat /\ \A k \in 1..n : s[k].offset \in Nat
    BY <1>1 DEF Spans
  <2>3. CASE i + 1 < j
    <3>1. i \in 1..(j - 1) /\ i + 1 \in 1..(j - 1) /\ i \in 1..(n - 1)
      BY <1>1, <1>3, <2>3
    <3> QED BY <1>4, <2>0, <3>1
  <2>4. CASE i + 1 = j
    <3>1. i \in 1..(j - 1) /\ i < j
      BY <1>1, <1>3, <2>4
    <3> QED BY <1>3, <1>4, <2>2, <2>4, <3>1
  <2>5. CASE i = j
    <3>1. i \in j..n /\ j \in 1..n
      BY <1>1, <2>5
    <3>2. t[i + 1] = s[i] /\ s[i].offset > new.offset /\ t[i] = new
      BY <1>3, <1>4, <2>5, <3>1
    <3> QED BY <2>2, <3>2
  <2>6. CASE i > j
    <3> DEFINE h == i - 1
    <3>1. h \in j..n /\ i \in j..n /\ h + 1 = i /\ h \in 1..(n - 1)
      BY <1>1, <1>3, <2>6
    <3> HIDE DEF h
    <3>2. t[h + 1] = s[h] /\ t[i + 1] = s[i] /\ s[h].offset <= s[h + 1].offset
      BY <1>4, <2>0, <3>1
    <3> QED BY <3>1, <3>2
  <2>7. i + 1 < j \/ i + 1 = j \/ i = j \/ i > j
    BY <1>1, <1>3
  <2> QED BY <2>3, <2>4, <2>5, <2>6, <2>7
<1>7. Range(t) = Range(s) \cup {new}
  <2>1. ASSUME NEW i \in 1..(n + 1) PROVE t[i] = new \/ \E k \in 1..n : t[i] = s[k]
    <3>1. CASE i < j
      <4>1. i \in 1..(j - 1) /\ i \in 1..n
        BY <1>1, <1>3, <3>1
      <4> QED BY <1>4, <4>1
    <3>2. CASE i = j
      BY <1>4, <3>2
    <3>3. CASE i > j
      <4> DEFINE h == i - 1
      <4>1. h \in j..n /\ h \in 1..n /\ h + 1 = i
        BY <1>1, <1>3, <3>3
      <4> HIDE DEF h
      <4> QED BY <1>4, <4>1
    <3>4. i < j \/ i = j \/ i > j
      BY <1>1, <1>3
    <3> QED BY <3>1, <3>2, <3>3, <3>4
  <2>2. ASSUME NEW k \in 1..n PROVE \E i \in 1..(n + 1) : t[i] = s[k]
    <3>1. CASE k < j
      <4>1. k \in 1..(j - 1) /\ k \in 1..(n + 1)
        BY <1>1, <1>3, <3>1
      <4> QED BY <1>4, <4>1
    <3>2. CASE ~(k < j)
      <4>1. k \in j..n /\ k + 1 \in 1..(n + 1)
        BY <1>1, <1>3, <3>2
      <4> QED BY <1>4, <4>1
    <3> QED BY <3>1, <3>2
  <2> DEFINE m == n + 1
  <2>3. /\ Range(t) = {t[i] : i \in 1..m} /\ Range(s) = {s[k] : k \in 1..n} /\ j \in 1..m /\ t[j] = new
        /\ \A i \in 1..m : t[i] = new \/ \E k \in 1..n : t[i] = s[k]
        /\ \A k \in 1..n : \E i \in 1..m : t[i] = s[k]
    BY <1>1, <1>3, <1>4, <1>5, <2>1, <2>2 DEF Range
  <2> HIDE DEF m
  <2> QED BY <2>3
<1> QED BY <1>2, <1>4, <1>6, <1>7 DEF n

\* The bytes that some places cover.
Covers(s) == UNION {(s[i].offset + 1)..End(s[i]) : i \in DOMAIN s}

LEMMA CoversIs ==
  ASSUME NEW s, NEW b
  PROVE  b \in Covers(s) <=> \E h \in Range(s) : b \in (h.offset + 1)..End(h)
BY DEF Covers, Range

LEMMA PlacesAre ==
  ASSUME NEW value \in Seq(Bytes), NEW t \in Seq(Bytes)
  PROVE  /\ \A p : p \in PlacesOf(value, t) <=> p \in Nat /\ Between(value, p) /\ StandsAt(value, p, t)
         /\ IsFiniteSet(PlacesOf(value, t))
<1> DEFINE m == Len(value) - Len(t)
<1>1. Len(value) \in Nat /\ Len(t) \in Nat /\ m \in Int
  BY LenProperties
<1>2. \A p \in Nat : p \in 0..m <=> p + Len(t) <= Len(value)
  BY <1>1
<1>3. \A p : p \in 0..m => p \in Nat
  OBVIOUS
<1>4. IsFiniteSet(0..m)
  BY <1>1, FS_Interval
<1> HIDE DEF m
<1>5. PlacesOf(value, t) =
        {p \in 0..m : /\ Between(value, p) /\ value[p + 1] = t[1]
                      /\ \A k \in DOMAIN t : Lower(value[p + k]) = Lower(t[k])}
  BY DEF PlacesOf, m
<1>6. PlacesOf(value, t) \in SUBSET (0..m)
  BY <1>5
<1>7. IsFiniteSet(PlacesOf(value, t))
  BY <1>4, <1>6, FS_Subset
<1> QED BY <1>2, <1>3, <1>5, <1>7, Zenon DEF StandsAt

\* One turn of Found's loop.
Turns == [at : Nat, count : Nat, got : Seq(Spans)]

PlaceSeen(value, term, s) == strcasestrGBK(value, s.at, term)

GotNow(value, term, s) ==
  LET new == Span(PlaceSeen(value, term, s), Len(term))
  IN  IF \E h \in Range(s.got) : Inside(new, h) THEN s.got ELSE Inserted(s.got, new)

Enough(value, term, s) ==
  (Full(GotNow(value, term, s)) /\ GotNow(value, term, s) # s.got) \/ s.count + 1 = PER_TERM

NextTurn(value, term, s) ==
  [at |-> PlaceSeen(value, term, s) + Len(term), count |-> s.count + 1, got |-> GotNow(value, term, s)]

Finding(f, value, term) ==
  f = [s \in Turns |-> IF PlaceSeen(value, term, s) = -1 THEN s.got
                       ELSE IF Enough(value, term, s) THEN GotNow(value, term, s)
                       ELSE f[NextTurn(value, term, s)]]

\* What a turn finds, unless there is nothing more.
LEMMA TurnIs ==
  ASSUME NEW value \in Seq(Bytes), NEW term \in Seq(Bytes), term # <<>>, NEW s \in Turns,
         PlaceSeen(value, term, s) # -1
  PROVE  LET p == PlaceSeen(value, term, s)
             more == GotNow(value, term, s)
             new == Span(p, Len(term))
         IN  /\ p \in Nat /\ s.at <= p /\ StandsAt(value, p, term) /\ Len(term) \in Nat \ {0}
             /\ new \in Spans /\ more \in Seq(Spans)
             /\ NextTurn(value, term, s) \in Turns
             /\ s.got \in Seq(Spans) /\ Len(s.got) <= Len(more)
             /\ InOrder(s.got) => InOrder(more)
             /\ Range(s.got) \subseteq Range(more) /\ Range(more) \subseteq Range(s.got) \cup {new}
             /\ (p + 1)..(p + Len(term)) \subseteq Covers(more)
<1> DEFINE p == PlaceSeen(value, term, s)
           more == GotNow(value, term, s)
           n == Len(term)
           new == Span(p, n)
           got == s.got
<1>1. s.at \in Nat /\ s.count \in Nat /\ got \in Seq(Spans)
  BY DEF Turns
<1>2. n \in Nat \ {0}
  BY LenProperties
<1>3. p \in Nat /\ s.at <= p /\ StandsAt(value, p, term)
  <2>1. Hit(value, term, s.at, strcasestrGBK(value, s.at, term))
    BY <1>1, StrcasestrIs
  <2>2. Hit(value, term, s.at, p)
    BY <2>1 DEF PlaceSeen
  <2> QED BY <2>2 DEF Hit
<1> HIDE DEF p, n
<1>4. new \in Spans /\ new.offset = p /\ new.len = n /\ End(new) = p + n
  BY <1>2, <1>3 DEF Span, Spans, End
<1>5. more = IF \E h \in Range(got) : Inside(new, h) THEN got ELSE Inserted(got, new)
  BY DEF GotNow, p, n
<1>6. (p + 1)..(p + n) = (new.offset + 1)..End(new)
  BY <1>2, <1>3, <1>4
<1>7. NextTurn(value, term, s) = [at |-> p + n, count |-> s.count + 1, got |-> more]
  BY DEF NextTurn, p, n
<1>8. got \in Seq(Spans) /\ Len(got) \in Nat /\ \A h \in Range(got) : h \in Spans
  <2>1. Len(got) \in Nat /\ DOMAIN got = 1..Len(got) /\ \A i \in 1..Len(got) : got[i] \in Spans
    BY <1>1, LenProperties, ElementOfSeq
  <2> HIDE DEF got
  <2> QED BY <1>1, <2>1 DEF Range
<1> HIDE DEF new, more, got
<1>9. /\ more \in Seq(Spans) /\ Len(got) <= Len(more)
      /\ InOrder(got) => InOrder(more)
      /\ Range(got) \subseteq Range(more) /\ Range(more) \subseteq Range(got) \cup {new}
      /\ (p + 1)..(p + n) \subseteq Covers(more)
  <2>1. CASE \E h \in Range(got) : Inside(new, h)
    <3>1. more = got
      BY <1>5, <2>1
    <3>2. PICK h \in Range(got) : Inside(new, h)
      BY <2>1
    <3>3. h.offset \in Nat /\ End(h) \in Nat
      BY <1>8 DEF Spans, End
    <3>4. new.offset >= h.offset /\ End(new) <= End(h)
      BY <3>2 DEF Inside
    <3>5. \A b \in (p + 1)..(p + n) : b \in (h.offset + 1)..End(h)
      BY <1>2, <1>3, <1>4, <3>3, <3>4
    <3>6. (p + 1)..(p + n) \subseteq Covers(got)
      BY <3>5, CoversIs
    <3> QED BY <1>8, <3>1, <3>6
  <2>2. CASE ~ \E h \in Range(got) : Inside(new, h)
    <3>1. more = Inserted(got, new)
      BY <1>5, <2>2
    <3>2. /\ more \in Seq(Spans) /\ (InOrder(got) => InOrder(more))
          /\ Len(more) = Len(got) + 1 /\ Range(more) = Range(got) \cup {new}
      BY <1>4, <1>8, <3>1, InsertedIs
    <3>3. (p + 1)..(p + n) \subseteq Covers(more)
      BY <1>6, <3>2, CoversIs
    <3> QED BY <1>8, <3>2, <3>3
  <2> QED BY <2>1, <2>2
<1>10. NextTurn(value, term, s) \in Turns
  BY <1>1, <1>2, <1>3, <1>7, <1>9 DEF Turns
<1> QED BY <1>2, <1>3, <1>4, <1>8, <1>9, <1>10 DEF p, n, more, new, got

LEMMA FindingExists ==
  ASSUME NEW value \in Seq(Bytes), NEW term \in Seq(Bytes), term # <<>>
  PROVE  \E f : Finding(f, value, term)
<1> DEFINE L == Len(value)
           V == Seq(Spans)
           P(s) == PlaceSeen(value, term, s)
           G(s) == GotNow(value, term, s)
           E(s) == Enough(value, term, s)
           N(s) == NextTurn(value, term, s)
           mu == [s \in Turns |-> IF s.at <= L THEN L - s.at ELSE 0]
           Stop == {s \in Turns : P(s) = -1 \/ E(s)}
           base == [s \in Turns |-> IF P(s) = -1 THEN s.got ELSE G(s)]
           next == [s \in Turns |-> IF P(s) = -1 THEN s ELSE N(s)]
           comb == [s \in Turns |-> [v \in V |-> v]]
<1>1. L \in Nat /\ \A s \in Turns : s.at \in Nat /\ s.got \in V
  BY LenProperties DEF Turns
<1>2. ASSUME NEW s \in Turns, P(s) # -1
      PROVE  N(s) \in Turns /\ G(s) \in V /\ s.at < N(s).at /\ N(s).at <= L
  <2>1. /\ P(s) \in Nat /\ s.at <= P(s) /\ StandsAt(value, P(s), term) /\ Len(term) \in Nat \ {0}
        /\ G(s) \in V /\ N(s) \in Turns
    BY <1>2, TurnIs
  <2>2. N(s).at = P(s) + Len(term)
    BY DEF NextTurn
  <2>3. P(s) + Len(term) <= L
    BY <2>1 DEF StandsAt
  <2>4. s.at \in Nat
    BY <1>1
  <2> HIDE DEF P, N, G
  <2> QED BY <2>1, <2>2, <2>3, <2>4
<1> HIDE DEF P, G, E, N, L, V
<1>3. mu \in [Turns -> Nat]
  BY <1>1
<1>4. base \in [Turns -> V] /\ next \in [Turns -> Turns] /\ comb \in [Turns -> [V -> V]]
  BY <1>1, <1>2
<1>5. ASSUME NEW s \in Turns, s \notin Stop PROVE mu[next[s]] < mu[s]
  <2>1. P(s) # -1 /\ next[s] = N(s)
    BY <1>5
  <2>2. N(s) \in Turns /\ s.at < N(s).at /\ N(s).at <= L /\ s.at \in Nat /\ N(s).at \in Nat
    BY <1>1, <1>2, <2>1
  <2>3. mu[N(s)] = L - N(s).at /\ mu[s] = L - s.at
    BY <1>1, <2>2
  <2> HIDE DEF mu, next
  <2> QED BY <1>1, <2>1, <2>2, <2>3
<1>6. PICK f : Computed(f, Turns, V, Stop, base, next, comb)
  <2> HIDE DEF mu, Stop, base, next, comb
  <2>1. GoesDown(Turns, V, mu, Stop, base, next, comb)
    BY <1>3, <1>4, <1>5 DEF GoesDown
  <2> QED BY <2>1, RecursionExists
<1>7. /\ f \in [Turns -> V]
      /\ \A s \in Turns : f[s] = IF s \in Stop THEN base[s] ELSE comb[s][f[next[s]]]
  BY <1>6, Zenon DEF Computed
<1> DEFINE g == [s \in Turns |-> IF P(s) = -1 THEN s.got ELSE IF E(s) THEN G(s) ELSE f[N(s)]]
<1>8. ASSUME NEW s \in Turns PROVE f[s] = g[s]
  <2>1. f[s] = IF s \in Stop THEN base[s] ELSE f[next[s]]
    <3>1. next[s] \in Turns
      BY <1>4
    <3>2. f[next[s]] \in V
      BY <1>7, <3>1
    <3>3. comb[s][f[next[s]]] = f[next[s]]
      BY <3>2
    <3> HIDE DEF Stop, base, next, comb
    <3> QED BY <1>7, <3>3
  <2>2. s \in Stop <=> (P(s) = -1 \/ E(s))
    OBVIOUS
  <2>3. base[s] = (IF P(s) = -1 THEN s.got ELSE G(s)) /\ next[s] = IF P(s) = -1 THEN s ELSE N(s)
    OBVIOUS
  <2> HIDE DEF Stop, base, next
  <2> QED BY <2>1, <2>2, <2>3
<1>9. f = g
  <2>1. g = [s \in Turns |-> g[s]] /\ f = [s \in Turns |-> f[s]]
    BY <1>7
  <2> HIDE DEF g
  <2> QED BY <1>8, <2>1
<1>10. Finding(f, value, term)
  <2> HIDE DEF mu, Stop, base, next, comb
  <2> QED BY <1>9, Zenon DEF Finding, g, P, G, E, N
<1> QED BY <1>10

\* A place of the term has a byte that is covered.
Met(s, term, p) == ((p + 1)..(p + Len(term))) \cap Covers(s) # {}

\* At a turn the places before it are met, and as many as were counted.
TurnOk(value, term, s) ==
  /\ Between(value, s.at)
  /\ s.count <= Cardinality({q \in PlacesOf(value, term) : q < s.at})
  /\ \A q \in PlacesOf(value, term) : q < s.at => Met(s.got, term, q)

\* Only places of the term are added; all of them are met, unless there are too
\* many, or no room.
FoundFrom(value, term, spans, r) ==
  /\ r \in Seq(Spans) /\ Len(spans) <= Len(r) /\ (InOrder(spans) => InOrder(r))
  /\ Range(spans) \subseteq Range(r)
  /\ \A h \in Range(r) :
       h \in Range(spans) \/ \E p \in PlacesOf(value, term) : h = Span(p, Len(term))
  /\ Len(r) < MAX_HIGH_LIGHT_TERM_NUM - 1 /\ Cardinality(PlacesOf(value, term)) < PER_TERM =>
       \A q \in PlacesOf(value, term) : Met(r, term, q)

LEMMA TurnGoesOn ==
  ASSUME NEW value \in Seq(Bytes), NEW term \in Seq(Bytes), term # <<>>, WholeCharacters(term),
         NEW s \in Turns, TurnOk(value, term, s), PlaceSeen(value, term, s) # -1
  PROVE  /\ PlaceSeen(value, term, s) \in PlacesOf(value, term)
         /\ s.count + 1 <= Cardinality(PlacesOf(value, term))
         /\ TurnOk(value, term, NextTurn(value, term, s))
<1> DEFINE p == PlaceSeen(value, term, s)
           more == GotNow(value, term, s)
           n == Len(term)
           Q == PlacesOf(value, term)
           A == {q \in Q : q < s.at}
           B == {q \in Q : q < p + n}
<1>1. /\ p \in Nat /\ s.at <= p /\ StandsAt(value, p, term) /\ n \in Nat \ {0}
      /\ Range(s.got) \subseteq Range(more)
      /\ (p + 1)..(p + n) \subseteq Covers(more)
  BY TurnIs
<1>2. s.at \in Nat /\ s.count \in Nat
  BY DEF Turns
<1>3. Between(value, p) /\ \A q \in Nat : s.at <= q /\ Between(value, q) /\ StandsAt(value, q, term) => p <= q
  <2>1. Hit(value, term, s.at, p)
    BY <1>2, StrcasestrIs DEF PlaceSeen
  <2>2. Between(value, s.at) /\ p # -1
    BY DEF TurnOk
  <2> HIDE DEF p
  <2> QED BY <2>1, <2>2 DEF Hit
<1>4. /\ IsFiniteSet(Q)
      /\ \A q : q \in Q <=> q \in Nat /\ Between(value, q) /\ StandsAt(value, q, term)
  BY PlacesAre
<1>5. Between(value, p + n)
  BY <1>1, <1>3, HitEnds
<1>6. NextTurn(value, term, s) = [at |-> p + n, count |-> s.count + 1, got |-> more]
  BY DEF NextTurn
<1>7. s.count <= Cardinality(A) /\ \A q \in Q : q < s.at => Met(s.got, term, q)
  BY DEF TurnOk
<1> HIDE DEF p, more, n, Q
<1>8. p \in Q
  BY <1>1, <1>3, <1>4
<1>9. /\ A \in SUBSET Q /\ B \in SUBSET Q /\ A \cup {p} \in SUBSET B /\ p \notin A
  <2>1. \A q \in Q : q \in Nat
    BY <1>4
  <2>2. \A q \in Q : q < s.at => q < p + n
    BY <1>1, <1>2, <2>1
  <2>3. p < p + n /\ ~(p < s.at)
    BY <1>1, <1>2
  <2> QED BY <1>8, <2>2, <2>3
<1> HIDE DEF A, B
<1>10. s.count + 1 <= Cardinality(B) /\ Cardinality(B) <= Cardinality(Q)
       /\ Cardinality(B) \in Nat /\ Cardinality(Q) \in Nat
  <2>1. IsFiniteSet(A) /\ IsFiniteSet(B) /\ Cardinality(B) <= Cardinality(Q)
    BY <1>4, <1>9, FS_Subset
  <2>2. Cardinality(A \cup {p}) = Cardinality(A) + 1
    BY <1>9, <2>1, FS_AddElement
  <2>3. Cardinality(A \cup {p}) <= Cardinality(B)
    BY <1>9, <2>1, FS_Subset
  <2>4. Cardinality(A) \in Nat /\ Cardinality(B) \in Nat /\ Cardinality(Q) \in Nat
    BY <1>4, <2>1, FS_CardinalityType
  <2> DEFINE a == Cardinality(A)
             b == Cardinality(B)
  <2>5. s.count \in Nat /\ s.count <= a /\ a + 1 <= b /\ a \in Nat /\ b \in Nat
    BY <1>2, <1>7, <2>2, <2>3, <2>4
  <2> HIDE DEF a, b
  <2>6. s.count + 1 <= b
    BY <2>5
  <2> QED BY <2>1, <2>4, <2>6 DEF b
<1>11. ASSUME NEW q \in Q, q < p + n PROVE Met(more, term, q)
  <2>1. q \in Nat
    BY <1>4
  <2>2. CASE q < s.at
    <3>1. Met(s.got, term, q)
      BY <1>7, <2>2
    <3>2. Covers(s.got) \subseteq Covers(more)
      BY <1>1, CoversIs
    <3> QED BY <3>1, <3>2 DEF Met
  <2>3. CASE ~(q < s.at)
    <3>1. p <= q
      BY <1>2, <1>3, <1>4, <2>1, <2>3
    <3>2. q + 1 \in (p + 1)..(p + n) /\ q + 1 \in (q + 1)..(q + n)
      BY <1>1, <1>11, <2>1, <3>1
    <3> QED BY <1>1, <3>2 DEF Met, n
  <2> QED BY <2>2, <2>3
<1>12. s.count + 1 <= Cardinality(Q)
  BY <1>2, <1>10
<1>13. TurnOk(value, term, NextTurn(value, term, s))
  <2> DEFINE nt == NextTurn(value, term, s)
  <2>1. nt.at = p + n /\ nt.count = s.count + 1 /\ nt.got = more
    BY <1>6
  <2> HIDE DEF nt
  <2>2. TurnOk(value, term, nt)
    BY <1>5, <1>10, <1>11, <2>1 DEF TurnOk, Q, B
  <2> QED BY <2>2 DEF nt
<1> QED BY <1>8, <1>12, <1>13 DEF p, Q

LEMMA TurnsFind ==
  ASSUME NEW value \in Seq(Bytes), NEW term \in Seq(Bytes), term # <<>>, WholeCharacters(term),
         NEW f, Finding(f, value, term)
  PROVE  \A s \in Turns : TurnOk(value, term, s) => FoundFrom(value, term, s.got, f[s])
<1> DEFINE L == Len(value)
           P(s) == PlaceSeen(value, term, s)
           G(s) == GotNow(value, term, s)
           E(s) == Enough(value, term, s)
           N(s) == NextTurn(value, term, s)
           Q == PlacesOf(value, term)
           mu == [s \in Turns |-> IF s.at <= L THEN L - s.at ELSE 0]
           S == {s \in Turns : TurnOk(value, term, s) => FoundFrom(value, term, s.got, f[s])}
<1>1. L \in Nat /\ \A s \in Turns : s.at \in Nat /\ s.got \in Seq(Spans) /\ s.count \in Nat
  BY LenProperties DEF Turns
<1>2. \A s \in Turns : f[s] = IF P(s) = -1 THEN s.got ELSE IF E(s) THEN G(s) ELSE f[N(s)]
  <2>1. f = [s \in Turns |-> IF P(s) = -1 THEN s.got ELSE IF E(s) THEN G(s) ELSE f[N(s)]]
    BY Zenon DEF Finding
  <2> HIDE DEF P, G, E, N
  <2> QED BY <2>1, Zenon
<1>3. ASSUME NEW s \in Turns, \A x \in Turns : mu[x] < mu[s] => x \in S PROVE s \in S
  <2> SUFFICES ASSUME TurnOk(value, term, s) PROVE FoundFrom(value, term, s.got, f[s])
    OBVIOUS
  <2>1. CASE P(s) = -1
    <3>1. f[s] = s.got
      BY <1>2, <2>1
    <3>2. \A q \in Q : q < s.at
      <4>1. Hit(value, term, s.at, P(s))
        BY <1>1, StrcasestrIs DEF PlaceSeen
      <4>2. Between(value, s.at)
        BY DEF TurnOk
      <4>3. \A q \in Nat : s.at <= q => ~(Between(value, q) /\ StandsAt(value, q, term))
        BY <2>1, <4>1, <4>2 DEF Hit
      <4>4. \A q \in Q : q \in Nat /\ ~(s.at <= q)
        BY <4>3, PlacesAre
      <4> QED BY <1>1, <4>4
    <3>3. \A q \in Q : Met(s.got, term, q)
      BY <3>2 DEF TurnOk
    <3>4. Len(s.got) <= Len(s.got)
      BY <1>1, LenProperties
    <3> QED BY <1>1, <3>1, <3>3, <3>4 DEF FoundFrom
  <2>2. CASE P(s) # -1
    <3>1. /\ P(s) \in Q /\ s.count + 1 <= Cardinality(Q)
          /\ TurnOk(value, term, N(s))
      BY <2>2, TurnGoesOn
    <3>2. /\ P(s) \in Nat /\ s.at <= P(s) /\ StandsAt(value, P(s), term) /\ Len(term) \in Nat \ {0}
          /\ G(s) \in Seq(Spans) /\ N(s) \in Turns /\ Len(s.got) <= Len(G(s))
          /\ InOrder(s.got) => InOrder(G(s))
          /\ Range(s.got) \subseteq Range(G(s))
          /\ Range(G(s)) \subseteq Range(s.got) \cup {Span(P(s), Len(term))}
      BY <2>2, TurnIs
    <3>3. N(s).got = G(s) /\ N(s).at = P(s) + Len(term)
      BY DEF NextTurn
    <3> HIDE DEF P, G, N, Q
    <3>4. \A h \in Range(G(s)) : h \in Range(s.got) \/ \E p \in Q : h = Span(p, Len(term))
      BY <3>1, <3>2
    <3>5. CASE E(s)
      <4>1. f[s] = G(s)
        BY <1>2, <2>2, <3>5
      <4>2. ~(Len(G(s)) < MAX_HIGH_LIGHT_TERM_NUM - 1 /\ Cardinality(Q) < PER_TERM)
        <5>1. CASE s.count + 1 = PER_TERM
          <6>1. Cardinality(Q) \in Nat
            BY PlacesAre, FS_CardinalityType DEF Q
          <6> QED BY <1>1, <3>1, <5>1, <6>1
        <5>2. CASE Full(G(s)) /\ G(s) # s.got
          <6>1. Len(G(s)) = MAX_HIGH_LIGHT_TERM_NUM - 1
            BY <5>2 DEF Full
          <6>2. Len(G(s)) \in Nat
            BY <3>2, LenProperties
          <6> QED BY <6>1, <6>2
        <5> QED BY <3>5, <5>1, <5>2 DEF Enough, G
      <4> QED BY <3>2, <3>4, <4>1, <4>2 DEF FoundFrom, Q
    <3>6. CASE ~E(s)
      <4>1. f[s] = f[N(s)]
        BY <1>2, <2>2, <3>6
      <4>2. mu[N(s)] < mu[s]
        <5>1. P(s) + Len(term) <= L /\ N(s).at = P(s) + Len(term)
          BY <3>2, <3>3 DEF StandsAt
        <5>2. /\ mu[N(s)] = (IF N(s).at <= L THEN L - N(s).at ELSE 0)
              /\ mu[s] = (IF s.at <= L THEN L - s.at ELSE 0)
          BY <3>2
        <5>3. s.at \in Nat
          BY <1>1
        <5> HIDE DEF mu, L
        <5> QED BY <1>1, <3>2, <5>1, <5>2, <5>3
      <4>3. N(s) \in S
        BY <1>3, <3>2, <4>2
      <4>4. FoundFrom(value, term, G(s), f[s])
        BY <3>1, <3>3, <4>1, <4>3
      <4> DEFINE r == f[s]
      <4> HIDE DEF r
      <4>5. /\ r \in Seq(Spans) /\ Len(G(s)) <= Len(r) /\ (InOrder(G(s)) => InOrder(r))
            /\ Range(G(s)) \subseteq Range(r)
            /\ \A h \in Range(r) : h \in Range(G(s)) \/ \E p \in Q : h = Span(p, Len(term))
            /\ Len(r) < MAX_HIGH_LIGHT_TERM_NUM - 1 /\ Cardinality(Q) < PER_TERM =>
                 \A q \in Q : Met(r, term, q)
        BY <4>4 DEF FoundFrom, Q, r
      <4>6. Len(s.got) <= Len(r)
        <5>1. Len(s.got) \in Nat /\ Len(G(s)) \in Nat /\ Len(r) \in Nat
          BY <1>1, <3>2, <4>5, LenProperties
        <5> QED BY <3>2, <4>5, <5>1
      <4>7. \A h \in Range(r) : h \in Range(s.got) \/ \E p \in Q : h = Span(p, Len(term))
        BY <3>4, <4>5
      <4>8. FoundFrom(value, term, s.got, r)
        BY <3>2, <4>5, <4>6, <4>7 DEF FoundFrom, Q
      <4> QED BY <4>8 DEF r
    <3> QED BY <3>5, <3>6
  <2> QED BY <2>1, <2>2
<1>4. \A s \in Turns : s \in S
  <2>1. mu \in [Turns -> Nat]
    BY <1>1
  <2> HIDE DEF S, mu
  <2>2. Inherited(Turns, mu, S)
    BY <1>3, <2>1 DEF Inherited
  <2> QED BY <2>2, ByMeasure, Zenon
<1> QED BY <1>4

LEMMA FoundIs ==
  ASSUME NEW value \in Seq(Bytes), NEW term \in Seq(Bytes), term # <<>>, WholeCharacters(term),
         NEW spans \in Seq(Spans)
  PROVE  FoundFrom(value, term, spans, Found(value, spans, term))
<1> DEFINE Step(f) ==
             [s \in [at : Nat, count : Nat, got : Seq([offset : Nat, len : Nat])] |->
               LET p    == strcasestrGBK(value, s.at, term)
                   new  == Span(p, Len(term))
                   more == IF \E h \in Range(s.got) : Inside(new, h) THEN s.got ELSE Inserted(s.got, new)
               IN  IF p = -1 THEN s.got
                   ELSE IF (Full(more) /\ more # s.got) \/ s.count + 1 = PER_TERM THEN more
                   ELSE f[[at |-> p + Len(term), count |-> s.count + 1, got |-> more]]]
           From[s \in [at : Nat, count : Nat, got : Seq([offset : Nat, len : Nat])]] ==
             LET p    == strcasestrGBK(value, s.at, term)
                 new  == Span(p, Len(term))
                 more == IF \E h \in Range(s.got) : Inside(new, h) THEN s.got ELSE Inserted(s.got, new)
             IN  IF p = -1 THEN s.got
                 ELSE IF (Full(more) /\ more # s.got) \/ s.count + 1 = PER_TERM THEN more
                 ELSE From[[at |-> p + Len(term), count |-> s.count + 1, got |-> more]]
           first == [at |-> 0, count |-> 0, got |-> spans]
<1>1. \A f : Finding(f, value, term) <=> f = Step(f)
  BY Zenon DEF Finding, Turns, Spans, PlaceSeen, GotNow, Enough, NextTurn
<1>2. From = Step(From)
  <2>1. \E f : f = Step(f)
    <3> HIDE DEF Step
    <3> QED BY <1>1, FindingExists
  <2> QED BY <2>1, Zenon
<1>3. Found(value, spans, term) = From[first]
  BY Zenon DEF Found
<1> HIDE DEF From, Step
<1>4. first \in Turns /\ first.got = spans /\ first.at = 0 /\ first.count = 0
  BY DEF Turns
<1>5. TurnOk(value, term, first)
  <2>1. \A q \in PlacesOf(value, term) : q \in Nat /\ ~(q < 0)
    BY PlacesAre
  <2>2. {q \in PlacesOf(value, term) : q < 0} = {}
    BY <2>1
  <2>3. Cardinality({q \in PlacesOf(value, term) : q < 0}) = 0
    BY <2>2, FS_EmptySet
  <2> HIDE DEF first
  <2> QED BY <1>4, <2>1, <2>3, BetweenStart DEF TurnOk
<1>6. FoundFrom(value, term, first.got, From[first])
  <2>1. \A s \in Turns : TurnOk(value, term, s) => FoundFrom(value, term, s.got, From[s])
    BY <1>1, <1>2, TurnsFind
  <2> HIDE DEF first
  <2> QED BY <1>4, <1>5, <2>1
<1> HIDE DEF first
<1> QED BY <1>3, <1>4, <1>6

-----------------------------------------------------------------------------
(***************************************************************************)
(* The places of all terms.                                                *)
(***************************************************************************)
Terms(terms) ==
  /\ terms \in Seq(Seq(Bytes))
  /\ \A i \in 1..Len(terms) : terms[i] # <<>> /\ WholeCharacters(terms[i])

FoundUpTo(acc, value, terms) ==
  /\ acc \in [0..Len(terms) -> Seq(Spans)] /\ acc[0] = <<>>
  /\ \A i \in 1..Len(terms) :
       acc[i] = IF Full(acc[i - 1]) THEN acc[i - 1] ELSE Found(value, acc[i - 1], terms[i])

LEMMA FoundAllSteps ==
  ASSUME NEW value \in Seq(Bytes), NEW terms, Terms(terms)
  PROVE  \E acc : FoundUpTo(acc, value, terms) /\ acc[Len(terms)] = FoundAll(value, terms)
<1> DEFINE n == Len(terms)
           V == Seq(Spans)
           Next1(v, i) == IF Full(v) THEN v ELSE Found(value, v, terms[i])
           step == [i \in 1..n |-> [v \in V |-> Next1(v, i)]]
           iter[S \in SUBSET DOMAIN terms] ==
             IF S = {} THEN <<>>
             ELSE LET x == Max(S) IN
                    IF Full(iter[S \ {x}]) THEN iter[S \ {x}] ELSE Found(value, iter[S \ {x}], terms[x])
           Step(f) == [S \in SUBSET DOMAIN terms |->
             IF S = {} THEN <<>>
             ELSE LET x == Max(S) IN
                    IF Full(f[S \ {x}]) THEN f[S \ {x}] ELSE Found(value, f[S \ {x}], terms[x])]
<1>1. n \in Nat /\ DOMAIN terms = 1..n /\ <<>> \in V
      /\ \A i \in 1..n : terms[i] \in Seq(Bytes) /\ terms[i] # <<>> /\ WholeCharacters(terms[i])
  BY LenProperties, ElementOfSeq, EmptySeq DEF Terms
<1>2. \A v \in V, i \in 1..n : Next1(v, i) \in V
  <2>1. \A v \in V, i \in 1..n : FoundFrom(value, terms[i], v, Found(value, v, terms[i]))
    <3> HIDE DEF n
    <3> QED BY <1>1, FoundIs
  <2>2. \A v \in V, i \in 1..n : Found(value, v, terms[i]) \in V
    <3> HIDE DEF V, n
    <3> QED BY <2>1, Zenon DEF FoundFrom, V
  <2> HIDE DEF V, n
  <2> QED BY <2>2
<1> HIDE DEF V
<1>3. FoundAll(value, terms) = iter[DOMAIN terms]
  BY Zenon DEF FoundAll, FoldLeft, MapThenFoldSet
<1>4. step \in [1..n -> [V -> V]] /\ \A i \in 1..n, v \in V : step[i][v] = Next1(v, i)
  <2> HIDE DEF Next1, n
  <2> QED BY <1>2
<1> HIDE DEF step
<1>5. ASSUME NEW S \in SUBSET (1..n), S # {} PROVE Max(S) \in 1..n /\ S \ {Max(S)} \in SUBSET (1..n)
  <2>1. S \in SUBSET (0..n)
    BY <1>1
  <2>2. Max(S) \in S
    BY <1>1, <1>5, <2>1, MaxOf
  <2> QED BY <2>2
<1>6. \E f : f = Step(f)
  <2>1. PICK f \in [SUBSET (1..n) -> V] :
          \A S \in SUBSET (1..n) : f[S] = IF S = {} THEN <<>> ELSE step[Max(S)][f[S \ {Max(S)}]]
    <3> DEFINE base == <<>>
    <3>1. n \in Nat /\ base \in V /\ step \in [1..n -> [V -> V]]
      BY <1>1, <1>4
    <3> HIDE DEF n, base
    <3>2. PICK f : Folded(f, n, V, base, step)
      BY ONLY <3>1, FoldExists
    <3> QED BY <3>2 DEF Folded, base
  <2>2. ASSUME NEW S \in SUBSET (1..n), S # {} PROVE f[S] = Next1(f[S \ {Max(S)}], Max(S))
    <3>1. Max(S) \in 1..n /\ f[S \ {Max(S)}] \in V
      BY <1>5, <2>1, <2>2
    <3> HIDE DEF Next1, n
    <3> QED BY <1>4, <2>1, <2>2, <3>1
  <2>3. \A S \in SUBSET (1..n) : f[S] = Step(f)[S]
    <3>1. ASSUME NEW S \in SUBSET (1..n)
          PROVE  Step(f)[S] = IF S = {} THEN <<>> ELSE Next1(f[S \ {Max(S)}], Max(S))
      BY <1>1, Zenon
    <3>2. f[{}] = <<>>
      BY <2>1
    <3> HIDE DEF Step, Next1
    <3> QED BY <2>2, <3>1, <3>2
  <2>4. Step(f) = [S \in SUBSET (1..n) |-> Step(f)[S]] /\ f = [S \in SUBSET (1..n) |-> f[S]]
    BY <1>1, <2>1
  <2>5. f = Step(f)
    <3> HIDE DEF Step
    <3> QED BY <2>3, <2>4
  <2> QED BY <2>5
<1>7. iter = Step(iter)
  BY <1>6, Zenon
<1> HIDE DEF iter
<1>8. Follows(iter, n, V, <<>>, step)
  <2>1. \A S \in SUBSET (1..n) :
          iter[S] = IF S = {} THEN <<>> ELSE Next1(iter[S \ {Max(S)}], Max(S))
    <3>1. ASSUME NEW S \in SUBSET (1..n)
          PROVE  Step(iter)[S] = IF S = {} THEN <<>> ELSE Next1(iter[S \ {Max(S)}], Max(S))
      BY <1>1, Zenon
    <3> HIDE DEF Step
    <3> QED BY <1>7, <3>1
  <2>2. iter[{}] = <<>>
    BY <2>1
  <2>3. ASSUME NEW S \in SUBSET (1..n), S # {}, iter[S \ {Max(S)}] \in V
        PROVE  iter[S] = step[Max(S)][iter[S \ {Max(S)}]]
    <3>1. Max(S) \in 1..n
      BY <1>5, <2>3
    <3> HIDE DEF Next1, n
    <3> QED BY <1>4, <2>1, <2>3, <3>1
  <2> HIDE DEF Next1, n
  <2> QED BY <2>2, <2>3 DEF Follows
<1>9. PICK acc \in [0..n -> V] :
        /\ acc[0] = <<>> /\ acc[n] = iter[1..n]
        /\ \A i \in 1..n : acc[i] = step[i][acc[i - 1]]
  <2> DEFINE base == <<>>
  <2>1. /\ n \in Nat /\ base \in V /\ step \in [1..n -> [V -> V]]
        /\ Follows(iter, n, V, base, step)
    BY <1>1, <1>4, <1>8
  <2> HIDE DEF n, base, V, step
  <2>2. \E acc : Stepped(acc, iter, n, V, base, step)
    BY ONLY <2>1, FoldSteps
  <2> QED BY <2>2 DEF Stepped, base
<1>10. ASSUME NEW i \in 1..n PROVE acc[i] = Next1(acc[i - 1], i)
  <2>1. i - 1 \in 0..n
    BY <1>1
  <2>2. acc[i - 1] \in V
    BY <1>9, <2>1
  <2> HIDE DEF Next1, n
  <2> QED BY <1>4, <1>9, <2>2
<1>11. FoundUpTo(acc, value, terms)
  <2> HIDE DEF n
  <2> QED BY <1>9, <1>10, Zenon DEF FoundUpTo, V, n
<1> QED BY <1>1, <1>3, <1>9, <1>11

PlaceOfTerm(value, terms, h) ==
  \E j \in 1..Len(terms) : \E p \in PlacesOf(value, terms[j]) : h = Span(p, Len(terms[j]))

\* They are in order, each a place of a term; of no term that could still be
\* taken is a place not met.
LEMMA FoundAllIs ==
  ASSUME NEW value \in Seq(Bytes), NEW terms, Terms(terms)
  PROVE  LET all == FoundAll(value, terms) IN
         /\ all \in Seq(Spans) /\ InOrder(all)
         /\ \A h \in Range(all) : PlaceOfTerm(value, terms, h)
         /\ Len(all) < MAX_HIGH_LIGHT_TERM_NUM - 1 =>
              \A j \in 1..Len(terms) :
                Cardinality(PlacesOf(value, terms[j])) < PER_TERM =>
                  \A q \in PlacesOf(value, terms[j]) : Met(all, terms[j], q)
<1> DEFINE n == Len(terms)
           Placed(h) == \E j \in 1..n : \E p \in PlacesOf(value, terms[j]) : h = Span(p, Len(terms[j]))
           AllMet(r, i) ==
             Len(r) < MAX_HIGH_LIGHT_TERM_NUM - 1 =>
               \A j \in 1..i :
                 Cardinality(PlacesOf(value, terms[j])) < PER_TERM =>
                   \A q \in PlacesOf(value, terms[j]) : Met(r, terms[j], q)
           Fine(r, i) == InOrder(r) /\ (\A h \in Range(r) : Placed(h)) /\ AllMet(r, i)
<1>1. PICK acc : FoundUpTo(acc, value, terms) /\ acc[n] = FoundAll(value, terms)
  BY FoundAllSteps
<1>2. /\ acc \in [0..n -> Seq(Spans)] /\ acc[0] = <<>>
      /\ \A i \in 1..n : acc[i] = IF Full(acc[i - 1]) THEN acc[i - 1] ELSE Found(value, acc[i - 1], terms[i])
  BY <1>1 DEF FoundUpTo
<1>3. n \in Nat /\ \A i \in 1..n : terms[i] \in Seq(Bytes) /\ terms[i] # <<>> /\ WholeCharacters(terms[i])
  BY LenProperties, ElementOfSeq DEF Terms
<1> HIDE DEF n
<1> DEFINE S == {i \in Nat : i <= n => Fine(acc[i], i)}
<1>4. Fine(<<>>, 0)
  <2>1. Range(<<>>) = {}
    BY DEF Range
  <2>2. InOrder(<<>>)
    BY DEF InOrder
  <2>3. AllMet(<<>>, 0)
    OBVIOUS
  <2> HIDE DEF AllMet, Placed
  <2> QED BY <2>1, <2>2, <2>3
<1>5. ASSUME NEW i \in Nat, i + 1 <= n, Fine(acc[i], i) PROVE Fine(acc[i + 1], i + 1)
  <2> DEFINE j == i + 1
             a == acc[i]
             r == acc[j]
             term == terms[j]
  <2>1. j \in 1..n /\ j - 1 = i /\ i \in 0..n /\ j \in 0..n
    BY <1>3, <1>5
  <2>2. r = IF Full(a) THEN a ELSE Found(value, a, term)
    BY <1>2, <2>1
  <2>3. a \in Seq(Spans) /\ r \in Seq(Spans) /\ Len(a) \in Nat /\ Len(r) \in Nat
    BY <1>2, <2>1, LenProperties
  <2>4. InOrder(a) /\ (\A h \in Range(a) : Placed(h)) /\ AllMet(a, i)
    BY <1>5
  <2>8. \A k \in 1..j : k \in 1..i \/ k = j
    BY <2>1
  <2> HIDE DEF j, a, r
  <2>5. CASE Full(a)
    <3>1. ~(Len(a) < MAX_HIGH_LIGHT_TERM_NUM - 1)
      BY <2>3, <2>5 DEF Full
    <3>2. r = a
      BY <2>2, <2>5
    <3>3. AllMet(r, j)
      BY <3>1, <3>2
    <3> HIDE DEF AllMet, Placed
    <3> QED BY <2>4, <3>2, <3>3 DEF r, j
  <2>6. CASE ~Full(a)
    <3>1. FoundFrom(value, term, a, r)
      BY <1>3, <2>1, <2>2, <2>3, <2>6, FoundIs
    <3>2. /\ Len(a) <= Len(r) /\ (InOrder(a) => InOrder(r)) /\ Range(a) \subseteq Range(r)
          /\ \A h \in Range(r) : h \in Range(a) \/ \E p \in PlacesOf(value, term) : h = Span(p, Len(term))
          /\ Len(r) < MAX_HIGH_LIGHT_TERM_NUM - 1 /\ Cardinality(PlacesOf(value, term)) < PER_TERM =>
               \A q \in PlacesOf(value, term) : Met(r, term, q)
      BY <3>1, Zenon DEF FoundFrom
    <3>3. \A h \in Range(r) : Placed(h)
      BY <2>1, <2>4, <3>2
    <3>4. AllMet(r, j)
      <4> SUFFICES ASSUME Len(r) < MAX_HIGH_LIGHT_TERM_NUM - 1, NEW k \in 1..j,
                          Cardinality(PlacesOf(value, terms[k])) < PER_TERM,
                          NEW q \in PlacesOf(value, terms[k])
                   PROVE  Met(r, terms[k], q)
        BY Zenon
      <4>1. CASE k = j
        BY <3>2, <4>1
      <4>2. CASE k # j
        <5>1. k \in 1..i
          BY <2>8, <4>2
        <5>2. Len(a) < MAX_HIGH_LIGHT_TERM_NUM - 1
          <6>1. MAX_HIGH_LIGHT_TERM_NUM \in Nat
            BY TemplateTextAssumption
          <6> QED BY <2>3, <3>2, <6>1
        <5>3. Met(a, terms[k], q)
          BY <2>4, <5>1, <5>2
        <5>4. Covers(a) \subseteq Covers(r)
          BY <3>2, CoversIs
        <5> QED BY <5>3, <5>4 DEF Met
      <4> QED BY <4>1, <4>2
    <3> HIDE DEF AllMet, Placed
    <3> QED BY <2>4, <3>2, <3>3, <3>4 DEF r, j
  <2> QED BY <2>5, <2>6
<1> HIDE DEF Fine
<1>6. \A i \in Nat : i \in S
  <2>1. 0 \in S
    BY <1>2, <1>4
  <2>2. ASSUME NEW i \in Nat, i \in S PROVE i + 1 \in S
    <3>1. i + 1 \in Nat /\ (i + 1 <= n => i <= n)
      BY <1>3
    <3>2. i + 1 <= n => Fine(acc[i + 1], i + 1)
      BY <1>5, <2>2, <3>1
    <3> QED BY <3>1, <3>2
  <2> HIDE DEF S
  <2> QED BY <2>1, <2>2, NatBySteps
<1>7. Fine(acc[n], n)
  BY <1>3, <1>6
<1>8. acc[n] \in Seq(Spans)
  BY <1>2, <1>3
<1> QED BY <1>1, <1>7, <1>8, Zenon DEF Fine, n, PlaceOfTerm

-----------------------------------------------------------------------------
(***************************************************************************)
(* The places merged.                                                      *)
(***************************************************************************)
Merge(done, next) ==
  IF done # <<>> /\ End(Last(done)) >= next.offset
    THEN Append(Front(done), Extended(Last(done), next))
    ELSE Append(done, next)

MergedUpTo(acc, spans) ==
  /\ acc \in [0..Len(spans) -> Seq(Spans)] /\ acc[0] = <<>>
  /\ \A i \in 1..Len(spans) : acc[i] = Merge(acc[i - 1], spans[i])

LEMMA ExtendedIs ==
  ASSUME NEW last \in Spans, NEW next \in Spans
  PROVE  /\ Extended(last, next) \in Spans
         /\ Extended(last, next).offset = last.offset
         /\ End(Extended(last, next)) = IF End(next) > End(last) THEN End(next) ELSE End(last)
<1>1. last.offset \in Nat /\ last.len \in Nat /\ next.offset \in Nat /\ next.len \in Nat
  BY DEF Spans
<1>2. End(last) = last.offset + last.len /\ End(next) \in Nat
  BY <1>1 DEF End
<1>3. CASE End(next) > End(last)
  <2> DEFINE d == End(next) - last.offset
  <2>1. d \in Nat /\ last.offset + d = End(next)
    BY <1>1, <1>2, <1>3
  <2>2. Extended(last, next) = [offset |-> last.offset, len |-> d]
    BY <1>3 DEF Extended, Span
  <2> HIDE DEF d
  <2>3. Extended(last, next) \in Spans
    BY <1>1, <2>1, <2>2 DEF Spans
  <2>4. End(Extended(last, next)) = End(next)
    BY <2>1, <2>2 DEF End
  <2> QED BY <1>3, <2>2, <2>3, <2>4
<1>4. CASE ~(End(next) > End(last))
  BY <1>4 DEF Extended
<1> QED BY <1>3, <1>4

LEMMA MergeIs ==
  ASSUME NEW done \in Seq(Spans), NEW next \in Spans
  PROVE  /\ Merge(done, next) \in Seq(Spans) /\ Len(Merge(done, next)) >= 1
         /\ \/ /\ done # <<>> /\ End(Last(done)) >= next.offset
               /\ Len(Merge(done, next)) = Len(done)
               /\ \A k \in 1..(Len(done) - 1) : Merge(done, next)[k] = done[k]
               /\ Merge(done, next)[Len(done)] = Extended(Last(done), next)
            \/ /\ done = <<>> \/ End(Last(done)) < next.offset
               /\ Len(Merge(done, next)) = Len(done) + 1
               /\ \A k \in 1..Len(done) : Merge(done, next)[k] = done[k]
               /\ Merge(done, next)[Len(done) + 1] = next
<1>1. Len(done) \in Nat /\ \A i \in 1..Len(done) : done[i] \in Spans
  BY LenProperties, ElementOfSeq
<1>2. CASE done # <<>> /\ End(Last(done)) >= next.offset
  <2> DEFINE n == Len(done)
             a == Front(done)
             x == Extended(Last(done), next)
             m == Append(a, x)
  <2>1. a \in Seq(Spans) /\ n >= 1 /\ Len(a) = n - 1 /\ \A i \in 1..(n - 1) : a[i] = done[i]
    BY <1>2, FrontShorter
  <2>2. x \in Spans
    <3>1. Last(done) \in Spans
      BY <1>1, <2>1 DEF Last
    <3> QED BY <3>1, ExtendedIs
  <2>3. Merge(done, next) = m
    BY <1>2, Zenon DEF Merge
  <2> HIDE DEF a, x, n
  <2>4. m \in Seq(Spans) /\ Len(m) = Len(a) + 1 /\ m[Len(a) + 1] = x /\ \A i \in 1..Len(a) : m[i] = a[i]
    BY <2>1, <2>2, OneMore
  <2>5. n - 1 + 1 = n
    BY <1>1 DEF n
  <2> HIDE DEF m
  <2> QED BY <1>2, <2>1, <2>3, <2>4, <2>5 DEF n, x
<1>3. CASE ~(done # <<>> /\ End(Last(done)) >= next.offset)
  <2>1. Merge(done, next) = Append(done, next)
    BY <1>3, Zenon DEF Merge
  <2>2. /\ Append(done, next) \in Seq(Spans) /\ Len(Append(done, next)) = Len(done) + 1
        /\ Append(done, next)[Len(done) + 1] = next
        /\ \A i \in 1..Len(done) : Append(done, next)[i] = done[i]
    BY OneMore
  <2>3. done = <<>> \/ End(Last(done)) < next.offset
    <3>1. CASE done # <<>>
      <4>1. Len(done) # 0
        BY <3>1
      <4>2. Last(done) \in Spans
        BY <1>1, <4>1 DEF Last
      <4>3. End(Last(done)) \in Nat /\ next.offset \in Nat
        BY <4>2 DEF Spans, End
      <4> QED BY <1>3, <3>1, <4>3
    <3> QED BY <3>1
  <2> QED BY <1>1, <2>1, <2>2, <2>3
<1> QED BY <1>2, <1>3

LEMMA MergedSteps ==
  ASSUME NEW spans \in Seq(Spans)
  PROVE  \E acc : MergedUpTo(acc, spans) /\ acc[Len(spans)] = Merged(spans)
<1> DEFINE n == Len(spans)
           V == Seq(Spans)
           step == [i \in 1..n |-> [v \in V |-> Merge(v, spans[i])]]
           iter[S \in SUBSET DOMAIN spans] ==
             IF S = {} THEN <<>>
             ELSE LET x == Max(S) IN
                    IF iter[S \ {x}] # <<>> /\ End(Last(iter[S \ {x}])) >= spans[x].offset
                      THEN Append(Front(iter[S \ {x}]), Extended(Last(iter[S \ {x}]), spans[x]))
                      ELSE Append(iter[S \ {x}], spans[x])
           Step(f) == [S \in SUBSET DOMAIN spans |->
             IF S = {} THEN <<>>
             ELSE LET x == Max(S) IN
                    IF f[S \ {x}] # <<>> /\ End(Last(f[S \ {x}])) >= spans[x].offset
                      THEN Append(Front(f[S \ {x}]), Extended(Last(f[S \ {x}]), spans[x]))
                      ELSE Append(f[S \ {x}], spans[x])]
<1>1. n \in Nat /\ DOMAIN spans = 1..n /\ <<>> \in V /\ \A i \in 1..n : spans[i] \in Spans
  BY LenProperties, ElementOfSeq, EmptySeq
<1>2. \A v \in V, i \in 1..n : Merge(v, spans[i]) \in V
  <2> HIDE DEF n
  <2> QED BY <1>1, MergeIs
<1> HIDE DEF V
<1>3. Merged(spans) = iter[DOMAIN spans]
  BY Zenon DEF Merged, FoldLeft, MapThenFoldSet
<1>4. step \in [1..n -> [V -> V]] /\ \A i \in 1..n, v \in V : step[i][v] = Merge(v, spans[i])
  <2> HIDE DEF n
  <2> QED BY <1>2
<1> HIDE DEF step
<1>5. ASSUME NEW S \in SUBSET (1..n), S # {} PROVE Max(S) \in 1..n /\ S \ {Max(S)} \in SUBSET (1..n)
  <2>1. S \in SUBSET (0..n)
    BY <1>1
  <2>2. Max(S) \in S
    BY <1>1, <1>5, <2>1, MaxOf
  <2> QED BY <2>2
<1>0. \A f : \A S \in SUBSET (1..n) :
        Step(f)[S] = IF S = {} THEN <<>> ELSE Merge(f[S \ {Max(S)}], spans[Max(S)])
  BY <1>1, Zenon DEF Merge
<1>6. \E f : f = Step(f)
  <2>1. PICK f \in [SUBSET (1..n) -> V] :
          \A S \in SUBSET (1..n) : f[S] = IF S = {} THEN <<>> ELSE step[Max(S)][f[S \ {Max(S)}]]
    <3> DEFINE base == <<>>
    <3>1. n \in Nat /\ base \in V /\ step \in [1..n -> [V -> V]]
      BY <1>1, <1>4
    <3> HIDE DEF n, base
    <3>2. PICK f : Folded(f, n, V, base, step)
      BY ONLY <3>1, FoldExists
    <3> QED BY <3>2 DEF Folded, base
  <2>2. ASSUME NEW S \in SUBSET (1..n), S # {} PROVE f[S] = Merge(f[S \ {Max(S)}], spans[Max(S)])
    <3>1. Max(S) \in 1..n /\ f[S \ {Max(S)}] \in V
      BY <1>5, <2>1, <2>2
    <3> HIDE DEF n
    <3> QED BY <1>4, <2>1, <2>2, <3>1
  <2>3. \A S \in SUBSET (1..n) : f[S] = Step(f)[S]
    <3>1. f[{}] = <<>>
      BY <2>1
    <3> HIDE DEF Step
    <3> QED BY <1>0, <2>2, <3>1
  <2>4. Step(f) = [S \in SUBSET (1..n) |-> Step(f)[S]] /\ f = [S \in SUBSET (1..n) |-> f[S]]
    BY <1>1, <2>1
  <2>5. f = Step(f)
    <3> HIDE DEF Step
    <3> QED BY <2>3, <2>4
  <2> QED BY <2>5
<1>7. iter = Step(iter)
  BY <1>6, Zenon
<1> HIDE DEF iter
<1>8. Follows(iter, n, V, <<>>, step)
  <2>1. \A S \in SUBSET (1..n) :
          iter[S] = IF S = {} THEN <<>> ELSE Merge(iter[S \ {Max(S)}], spans[Max(S)])
    <3> HIDE DEF Step
    <3> QED BY <1>0, <1>7
  <2>2. iter[{}] = <<>>
    BY <2>1
  <2>3. ASSUME NEW S \in SUBSET (1..n), S # {}, iter[S \ {Max(S)}] \in V
        PROVE  iter[S] = step[Max(S)][iter[S \ {Max(S)}]]
    <3>1. Max(S) \in 1..n
      BY <1>5, <2>3
    <3> HIDE DEF n
    <3> QED BY <1>4, <2>1, <2>3, <3>1
  <2> HIDE DEF n
  <2> QED BY <2>2, <2>3 DEF Follows
<1>9. PICK acc \in [0..n -> V] :
        /\ acc[0] = <<>> /\ acc[n] = iter[1..n]
        /\ \A i \in 1..n : acc[i] = step[i][acc[i - 1]]
  <2> DEFINE base == <<>>
  <2>1. /\ n \in Nat /\ base \in V /\ step \in [1..n -> [V -> V]]
        /\ Follows(iter, n, V, base, step)
    BY <1>1, <1>4, <1>8
  <2> HIDE DEF n, base, V, step
  <2>2. \E acc : Stepped(acc, iter, n, V, base, step)
    BY ONLY <2>1, FoldSteps
  <2> QED BY <2>2 DEF Stepped, base
<1>10. ASSUME NEW i \in 1..n PROVE acc[i] = Merge(acc[i - 1], spans[i])
  <2>1. i - 1 \in 0..n
    BY <1>1
  <2>2. acc[i - 1] \in V
    BY <1>9, <2>1
  <2> HIDE DEF n
  <2> QED BY <1>4, <1>9, <2>2
<1>11. MergedUpTo(acc, spans)
  <2> HIDE DEF n
  <2> QED BY <1>9, <1>10, Zenon DEF MergedUpTo, V, n
<1> QED BY <1>1, <1>3, <1>9, <1>11

\* Merged places lie apart, in a text of len bytes.
Apart(d, len) ==
  /\ \A k \in 2..Len(d) : End(d[k - 1]) < d[k].offset
  /\ \A k \in 1..Len(d) : End(d[k]) <= len

LEMMA MergeGoesOn ==
  ASSUME NEW len \in Nat, NEW done \in Seq(Spans), Apart(done, len),
         NEW next \in Spans, End(next) <= len,
         done # <<>> => Last(done).offset <= next.offset
  PROVE  LET d == Merge(done, next) IN
         /\ d \in Seq(Spans) /\ d # <<>> /\ Apart(d, len)
         /\ Last(d).offset <= next.offset
         /\ Covers(d) = Covers(done) \cup (next.offset + 1)..End(next)
<1> DEFINE d == Merge(done, next)
           n == Len(done)
           l == Last(done)
           x == Extended(l, next)
<1>1. n \in Nat /\ DOMAIN done = 1..n /\ \A i \in 1..n : done[i] \in Spans
  BY LenProperties, ElementOfSeq
<1>2. /\ \A k \in 2..n : End(done[k - 1]) < done[k].offset
      /\ \A k \in 1..n : End(done[k]) <= len
  BY DEF Apart
<1>3. /\ d \in Seq(Spans) /\ Len(d) >= 1
      /\ \/ /\ done # <<>> /\ End(l) >= next.offset
            /\ Len(d) = n
            /\ \A k \in 1..(n - 1) : d[k] = done[k]
            /\ d[n] = x
         \/ /\ done = <<>> \/ End(l) < next.offset
            /\ Len(d) = n + 1
            /\ \A k \in 1..n : d[k] = done[k]
            /\ d[n + 1] = next
  BY MergeIs
<1>4. done # <<>> => n >= 1 /\ l = done[n] /\ l \in Spans /\ l.offset <= next.offset
  <2>1. done # <<>> => n # 0
    OBVIOUS
  <2>2. done # <<>> => n >= 1 /\ n \in 1..n
    BY <1>1, <2>1
  <2> QED BY <1>1, <2>2 DEF Last
<1>5. DOMAIN d = 1..Len(d)
  BY <1>3, LenProperties
<1>6. \A h \in Spans : h.offset \in Nat /\ End(h) \in Nat
  BY DEF Spans, End
<1>13. done # <<>> =>
         /\ x \in Spans /\ x.offset = l.offset
         /\ End(x) = IF End(next) > End(l) THEN End(next) ELSE End(l)
  BY <1>4, ExtendedIs
<1>14. Last(d) = d[Len(d)]
  BY DEF Last
<1>15. d # <<>>
  <2>1. Len(<<>>) = 0
    OBVIOUS
  <2> HIDE DEF d
  <2> QED BY <1>3, <2>1
<1>16. done = <<>> => n = 0
  OBVIOUS
<1> HIDE DEF d, n, l, x
<1>7. CASE /\ done # <<>> /\ End(l) >= next.offset
           /\ Len(d) = n
           /\ \A k \in 1..(n - 1) : d[k] = done[k]
           /\ d[n] = x
  <2>1. n >= 1 /\ n \in 1..n /\ l = done[n] /\ x.offset = l.offset
        /\ End(x) = IF End(next) > End(l) THEN End(next) ELSE End(l)
    BY <1>1, <1>4, <1>7, <1>13
  <2>2. ASSUME NEW k \in 2..n PROVE End(d[k - 1]) < d[k].offset
    <3>1. k - 1 \in 1..(n - 1) /\ End(done[k - 1]) < done[k].offset
      BY <1>1, <1>2
    <3>2. d[k].offset = done[k].offset
      <4>1. CASE k = n
        BY <1>7, <2>1, <4>1
      <4>2. CASE k # n
        <5>1. k \in 1..(n - 1)
          BY <1>1, <4>2
        <5> QED BY <1>7, <5>1
      <4> QED BY <4>1, <4>2
    <3> QED BY <1>7, <3>1, <3>2
  <2>3. ASSUME NEW k \in 1..n PROVE End(d[k]) <= len
    <3>1. CASE k = n
      <4>1. End(l) <= len
        BY <1>2, <2>1
      <4> QED BY <1>7, <2>1, <3>1, <4>1
    <3>2. CASE k # n
      <4>1. k \in 1..(n - 1)
        BY <1>1, <3>2
      <4> QED BY <1>2, <1>7, <4>1
    <3> QED BY <3>1, <3>2
  <2>4. Apart(d, len)
    BY <1>7, <2>2, <2>3 DEF Apart
  <2>5. Covers(d) = Covers(done) \cup (next.offset + 1)..End(next)
    <3>1. (x.offset + 1)..End(x) = ((l.offset + 1)..End(l)) \cup ((next.offset + 1)..End(next))
      <4>1. /\ l.offset \in Nat /\ End(l) \in Nat /\ next.offset \in Nat /\ End(next) \in Nat
            /\ l.offset <= next.offset /\ next.offset <= End(l)
        BY <1>4, <1>6, <1>7
      <4> DEFINE a == l.offset
                 b == End(l)
                 c == next.offset
                 e == End(next)
                 y == End(x)
      <4>2. a \in Nat /\ b \in Nat /\ c \in Nat /\ e \in Nat /\ a <= c /\ c <= b /\ y = IF e > b THEN e ELSE b
        BY <2>1, <4>1
      <4> HIDE DEF a, b, c, e, y
      <4>3. (a + 1)..y = ((a + 1)..b) \cup ((c + 1)..e)
        BY <4>2
      <4> QED BY <2>1, <4>3 DEF a, b, c, e, y
    <3> DEFINE C(s) == (s.offset + 1)..End(s)
    <3>2. C(x) = C(l) \cup C(next)
      BY <3>1
    <3> HIDE DEF C
    <3>3. \A s : Covers(s) = UNION {C(s[i]) : i \in DOMAIN s}
      BY DEF Covers, C
    <3>4. \A k \in 1..n : k \in 1..(n - 1) \/ k = n
      BY <1>1
    <3>5. \A k \in 1..(n - 1) : k \in 1..n
      BY <1>1
    <3>6. Covers(d) = Covers(done) \cup C(next)
      <4>1. \A k \in 1..n : C(d[k]) \subseteq Covers(done) \cup C(next)
        BY <1>1, <1>7, <2>1, <3>2, <3>3, <3>4, <3>5
      <4>2. \A k \in 1..n : C(done[k]) \subseteq Covers(d)
        BY <1>5, <1>7, <2>1, <3>2, <3>3, <3>4, <3>5
      <4>3. C(next) \subseteq Covers(d)
        BY <1>5, <1>7, <2>1, <3>2, <3>3
      <4>4. Covers(d) = UNION {C(d[i]) : i \in 1..n} /\ Covers(done) = UNION {C(done[i]) : i \in 1..n}
        BY <1>1, <1>5, <1>7, <3>3
      <4> QED BY <4>1, <4>2, <4>3, <4>4
    <3> QED BY <3>6 DEF C
  <2>6. Last(d).offset <= next.offset
    BY <1>4, <1>7, <1>14, <2>1
  <2> QED BY <1>3, <1>15, <2>4, <2>5, <2>6, Zenon DEF d
<1>8. CASE /\ done = <<>> \/ End(l) < next.offset
           /\ Len(d) = n + 1
           /\ \A k \in 1..n : d[k] = done[k]
           /\ d[n + 1] = next
  <2> DEFINE m == n + 1
  <2>1. m \in Nat /\ \A k \in 1..m : k \in 1..n \/ k = m
    BY <1>1
  <2>2. ASSUME NEW k \in 2..m PROVE End(d[k - 1]) < d[k].offset
    <3>1. k - 1 \in 1..n /\ n # 0
      BY <1>1
    <3>2. d[k - 1] = done[k - 1]
      BY <1>8, <3>1
    <3>3. CASE k = m
      <4>1. k - 1 = n /\ done # <<>>
        BY <1>1, <1>16, <3>1, <3>3
      <4>2. End(done[k - 1]) < next.offset
        BY <1>4, <1>8, <4>1
      <4> QED BY <1>8, <3>2, <3>3, <4>2
    <3>4. CASE k # m
      <4>1. k \in 1..n /\ k \in 2..n
        BY <1>1, <3>4
      <4> QED BY <1>2, <1>8, <3>2, <4>1
    <3> QED BY <3>3, <3>4
  <2>3. \A k \in 1..m : End(d[k]) <= len
    BY <1>2, <1>8, <2>1
  <2>4. Apart(d, len)
    <3> HIDE DEF m
    <3>1. Len(d) = m
      BY <1>8 DEF m
    <3> QED BY <2>2, <2>3, <3>1 DEF Apart
  <2>5. Covers(d) = Covers(done) \cup (next.offset + 1)..End(next)
    <3> DEFINE C(s) == (s.offset + 1)..End(s)
    <3> HIDE DEF C
    <3>3. \A s : Covers(s) = UNION {C(s[i]) : i \in DOMAIN s}
      BY DEF Covers, C
    <3>4. Len(d) = m /\ d[m] = next /\ m \in 1..m /\ \A k \in 1..n : k \in 1..m
      BY <1>1, <1>8
    <3> HIDE DEF m
    <3>6. Covers(d) = Covers(done) \cup C(next)
      <4>4. Covers(d) = UNION {C(d[i]) : i \in 1..m} /\ Covers(done) = UNION {C(done[i]) : i \in 1..n}
        BY <1>1, <1>5, <3>3, <3>4
      <4> QED BY <1>8, <2>1, <3>4, <4>4
    <3> QED BY <3>6 DEF C
  <2>6. Last(d).offset <= next.offset
    <3>1. Last(d) = next /\ next.offset \in Nat
      BY <1>6, <1>8, <1>14
    <3> QED BY <3>1
  <2> QED BY <1>3, <1>15, <2>4, <2>5, <2>6, Zenon DEF d
<1>9. QED BY <1>3, <1>7, <1>8 DEF d, n, l, x

LEMMA MergedIs ==
  ASSUME NEW len \in Nat, NEW spans \in Seq(Spans), InOrder(spans),
         \A i \in 1..Len(spans) : End(spans[i]) <= len
  PROVE  /\ Merged(spans) \in Seq(Spans) /\ Apart(Merged(spans), len)
         /\ Covers(Merged(spans)) = Covers(spans)
<1> DEFINE n == Len(spans)
           C(s) == (s.offset + 1)..End(s)
           Fine(d, i) == /\ Apart(d, len) /\ Covers(d) = UNION {C(spans[k]) : k \in 1..i}
                         /\ i >= 1 => d # <<>> /\ Last(d).offset <= spans[i].offset
                         /\ i = 0 => d = <<>>
<1>1. PICK acc : MergedUpTo(acc, spans) /\ acc[n] = Merged(spans)
  BY MergedSteps
<1>2. /\ acc \in [0..n -> Seq(Spans)] /\ acc[0] = <<>>
      /\ \A i \in 1..n : acc[i] = Merge(acc[i - 1], spans[i])
  BY <1>1 DEF MergedUpTo
<1>3. n \in Nat /\ DOMAIN spans = 1..n /\ \A i \in 1..n : spans[i] \in Spans
  BY LenProperties, ElementOfSeq
<1>10. /\ \A i \in 1..(n - 1) : spans[i].offset <= spans[i + 1].offset
       /\ \A i \in 1..n : End(spans[i]) <= len
  BY DEF InOrder
<1> HIDE DEF n
<1> DEFINE S == {i \in Nat : i <= n => Fine(acc[i], i)}
<1>4. Fine(<<>>, 0)
  <2>1. Covers(<<>>) = {}
    BY DEF Covers
  <2>2. Apart(<<>>, len)
    BY DEF Apart
  <2>3. UNION {C(spans[k]) : k \in 1..0} = {}
    OBVIOUS
  <2> HIDE DEF C
  <2> QED BY <2>1, <2>2, <2>3
<1>5. ASSUME NEW i \in Nat, i + 1 <= n, Fine(acc[i], i) PROVE Fine(acc[i + 1], i + 1)
  <2> DEFINE j == i + 1
             a == acc[i]
             d == Merge(a, spans[j])
  <2>1. j \in 1..n /\ j - 1 = i /\ i \in 0..n /\ j \in 0..n /\ (i >= 1 => i \in 1..(n - 1)) /\ j >= 1 /\ j # 0
    BY <1>3, <1>5
  <2>2. acc[j] = d
    BY <1>2, <2>1
  <2>3. a \in Seq(Spans) /\ spans[j] \in Spans /\ End(spans[j]) <= len
    BY <1>2, <1>3, <1>10, <2>1
  <2>4. Apart(a, len) /\ Covers(a) = UNION {C(spans[k]) : k \in 1..i}
    BY <1>5
  <2>5. a # <<>> => Last(a).offset <= spans[j].offset
    <3>1. a # <<>> => i >= 1
      BY <1>5
    <3>2. i >= 1 => Last(a).offset <= spans[i].offset /\ spans[i].offset <= spans[j].offset
      BY <1>5, <1>10, <2>1
    <3>3. i >= 1 => i \in 1..n
      BY <1>3, <2>1
    <3>4. a # <<>> => Last(a) \in Spans
      <4>1. a # <<>> => Len(a) # 0 /\ Len(a) \in Nat
        BY <2>3, LenProperties
      <4>2. a # <<>> => Len(a) \in 1..Len(a)
        BY <4>1
      <4> QED BY <2>3, <4>2, ElementOfSeq DEF Last
    <3>5. a # <<>> => Last(a).offset \in Nat /\ spans[i].offset \in Nat /\ spans[j].offset \in Nat
      BY <1>3, <2>3, <3>1, <3>3, <3>4 DEF Spans
    <3> HIDE DEF a, j
    <3> QED BY <3>1, <3>2, <3>5
  <2>8. (1..i) \cup {j} = 1..j
    BY <2>1
  <2> HIDE DEF a, j
  <2>6. /\ d \in Seq(Spans) /\ d # <<>> /\ Apart(d, len) /\ Last(d).offset <= spans[j].offset
        /\ Covers(d) = Covers(a) \cup C(spans[j])
    BY <2>3, <2>4, <2>5, MergeGoesOn
  <2> HIDE DEF d, C
  <2>7. Covers(d) = UNION {C(spans[k]) : k \in 1..j}
    BY <2>4, <2>6, <2>8
  <2>9. Fine(d, j)
    BY <2>1, <2>6, <2>7
  <2> HIDE DEF Fine
  <2> QED BY <2>2, <2>9 DEF j
<1> HIDE DEF Fine
<1>6. \A i \in Nat : i \in S
  <2>1. 0 \in S
    BY <1>2, <1>4
  <2>2. ASSUME NEW i \in Nat, i \in S PROVE i + 1 \in S
    <3>1. i + 1 \in Nat /\ (i + 1 <= n => i <= n)
      BY <1>3
    <3>2. i + 1 <= n => Fine(acc[i + 1], i + 1)
      BY <1>5, <2>2, <3>1
    <3> QED BY <3>1, <3>2
  <2> HIDE DEF S
  <2> QED BY <2>1, <2>2, NatBySteps
<1>7. Fine(acc[n], n)
  BY <1>3, <1>6
<1>8. acc[n] \in Seq(Spans)
  BY <1>2, <1>3
<1>9. Covers(spans) = UNION {C(spans[k]) : k \in 1..n}
  BY <1>3 DEF Covers
<1> QED BY <1>1, <1>7, <1>8, <1>9, Zenon DEF Fine

-----------------------------------------------------------------------------
(***************************************************************************)
(* The value with its tags.                                                *)
(***************************************************************************)
Tags == {"start", "end"}
StartTag == "start"
EndTag == "end"
Tagging == Bytes \cup Tags

SpanEnd(spans, i) == IF i = 0 THEN 0 ELSE End(spans[i])

Block(value, spans, i) ==
  <<SubSeq(value, SpanEnd(spans, i - 1) + 1, spans[i].offset), <<StartTag>>,
    SubSeq(value, spans[i].offset + 1, End(spans[i])), <<EndTag>>>>

Pieces(value, spans) ==
  FlattenSeq([i \in DOMAIN spans |-> Block(value, spans, i)])
    \o <<SubSeq(value, SpanEnd(spans, Len(spans)) + 1, Len(value))>>

LEMMA TwoAppended == ASSUME NEW V, NEW a \in V, NEW b \in V PROVE <<a, b>> = Append(<<a>>, b)
<1> DEFINE s == <<a>>
           t == <<a,b>>
<1>1. s \in Seq(V) /\ Len(s) = 1 /\ s[1] = a /\ t \in Seq(V) /\ Len(t) = 2 /\ t[1] = a /\ t[2] = b
  BY OneOf, TwoOf
<1> HIDE DEF s, t
<1>2. Append(s, b) \in Seq(V) /\ Len(Append(s,b)) = 1 + 1 /\ Append(s,b)[1] = a /\ Append(s,b)[1 + 1] = b
  <2> DEFINE x == Append(s, b)
  <2>1. x \in Seq(V) /\ Len(x) = Len(s) + 1 /\ (\A i \in 1..Len(s) : x[i] = s[i]) /\ x[Len(s) + 1] = b
    <3>1. s \in Seq(V) /\ b \in V
      BY <1>1
    <3> QED BY ONLY <3>1, AppendProperties
  <2> HIDE DEF x
  <2> QED BY <1>1, <2>1 DEF x
<1>3. \A i \in 1..2 : Append(s,b)[i] = t[i]
  BY <1>1, <1>2
<1>4. Append(s,b) = t
  BY <1>1, <1>2, <1>3, SeqEqual
<1> QED BY <1>4 DEF s, t

JoinsFour(a, b, c, d) == FlattenSeq(<<a, b, c, d>>) = ((a \o b) \o c) \o d

LEMMA FlattenFour ==
  ASSUME NEW W, NEW a \in Seq(W), NEW b \in Seq(W), NEW c \in Seq(W), NEW d \in Seq(W)
  PROVE  JoinsFour(a, b, c, d)
<1> DEFINE V == Seq(W)
           s1 == <<a>>
           s2 == <<a, b>>
           s3 == <<a, b, c>>
           s4 == <<a, b, c, d>>
<1>1. /\ s1 \in Seq(V) /\ s2 \in Seq(V) /\ s3 \in Seq(V)
      /\ s3 = Append(s2, c) /\ s4 = Append(s3, d)
  <2>1. a \in V /\ b \in V /\ c \in V /\ d \in V
    OBVIOUS
  <2> HIDE DEF V
  <2>2. s1 \in Seq(V) /\ s2 \in Seq(V) /\ s3 \in Seq(V)
    BY <2>1
  <2>4. s3 = Append(s2, c)
    BY <2>1
  <2>5. s4 = Append(s3, d)
    BY <2>1
  <2> QED BY <2>2, <2>4, <2>5
<1>2. s2 = Append(s1, b)
  BY TwoAppended
<1>3. FlattenSeq(s1) = a
  BY FlattenOne
<1> HIDE DEF s1, s2, s3, s4
<1>4. FlattenSeq(s2) = FlattenSeq(s1) \o b
  BY <1>1, <1>2, FlattenAppend
<1>5. FlattenSeq(s3) = FlattenSeq(s2) \o c
  BY <1>1, FlattenAppend
<1>6. FlattenSeq(s4) = FlattenSeq(s3) \o d
  BY <1>1, FlattenAppend
<1> QED BY <1>3, <1>4, <1>5, <1>6 DEF s4, JoinsFour

\* A part of a text between two of its places.
LEMMA PartIs ==
  ASSUME NEW W, NEW s \in Seq(W), NEW a \in 0..Len(s), NEW b \in a..Len(s)
  PROVE  /\ SubSeq(s, a + 1, b) \in Seq(W) /\ Len(SubSeq(s, a + 1, b)) = b - a
         /\ \A i \in 1..(b - a) : SubSeq(s, a + 1, b)[i] = s[a + i]
<1> DEFINE p == SubSeq(s, a + 1, b)
<1>1. Len(s) \in Nat /\ a \in Nat /\ b \in Nat /\ a <= b /\ b <= Len(s)
  BY LenProperties
<1>2. \A i \in (a + 1)..b : s[i] \in W
  <2>1. \A i \in 1..Len(s) : s[i] \in W
    BY ElementOfSeq
  <2> QED BY <1>1, <2>1
<1>3. /\ p \in Seq(W) /\ Len(p) = IF a + 1 <= b THEN b - (a + 1) + 1 ELSE 0
      /\ \A i \in 1..(b - (a + 1) + 1) : p[i] = s[a + 1 + i - 1]
  BY <1>1, <1>2, SubSeqProperties
<1>4. /\ (IF a + 1 <= b THEN b - (a + 1) + 1 ELSE 0) = b - a /\ b - (a + 1) + 1 = b - a
      /\ \A i \in 1..(b - a) : a + 1 + i - 1 = a + i
  BY <1>1
<1> HIDE DEF p
<1>5. p \in Seq(W) /\ Len(p) = b - a /\ \A i \in 1..(b - a) : p[i] = s[a + i]
  BY <1>3, <1>4
<1> QED BY <1>5 DEF p

LEMMA PartsJoin ==
  ASSUME NEW W, NEW s \in Seq(W), NEW a \in 0..Len(s), NEW b \in a..Len(s), NEW c \in b..Len(s)
  PROVE  SubSeq(s, a + 1, b) \o SubSeq(s, b + 1, c) = SubSeq(s, a + 1, c)
<1> DEFINE m == a + 1
<1>1. m \in 1..(Len(s) + 1) /\ b \in (m - 1)..Len(s)
  BY LenProperties
<1> HIDE DEF m
<1>2. SubSeq(s, m, b) \o SubSeq(s, b + 1, c) = SubSeq(s, m, c)
  BY <1>1, ConcatAdjacentSubSeq
<1> QED BY <1>2 DEF m

LEMMA StartJoins ==
  ASSUME NEW W, NEW s \in Seq(W), NEW b \in 0..Len(s), NEW c \in b..Len(s)
  PROVE  SubSeq(s, 1, b) \o SubSeq(s, b + 1, c) = SubSeq(s, 1, c)
<1> DEFINE m == 1
<1>1. m \in 1..(Len(s) + 1) /\ b \in (m - 1)..Len(s)
  BY LenProperties
<1> HIDE DEF m
<1>2. SubSeq(s, m, b) \o SubSeq(s, b + 1, c) = SubSeq(s, m, c)
  BY <1>1, ConcatAdjacentSubSeq
<1> QED BY <1>2 DEF m

\* What is left of a tagged part is the part.
Stretch(value, spans, i, a, b, c) ==
  /\ a \in 0..Len(value) /\ b \in a..Len(value) /\ c \in b..Len(value)
  /\ a = SpanEnd(spans, i - 1) /\ b = spans[i].offset /\ c = End(spans[i])
  /\ \A k \in 1..Len(value) : value[k] \notin Tags

LEMMA BlockIs ==
  ASSUME NEW value \in Seq(Bytes), NEW spans, NEW i, NEW a, NEW b, NEW c,
         Stretch(value, spans, i, a, b, c)
  PROVE  /\ Block(value, spans, i) \in Seq(Seq(Tagging))
         /\ Without(FlattenSeq(Block(value, spans, i)), Tags) = SubSeq(value, a + 1, c)
<1> DEFINE A == SubSeq(value, a + 1, b)
           B == SubSeq(value, b + 1, c)
           s == <<StartTag>>
           e == <<EndTag>>
<1>0. /\ a \in 0..Len(value) /\ b \in a..Len(value) /\ c \in b..Len(value)
      /\ a = SpanEnd(spans, i - 1) /\ b = spans[i].offset /\ c = End(spans[i])
      /\ \A k \in 1..Len(value) : value[k] \notin Tags
  BY DEF Stretch
<1> USE <1>0
<1>1. Len(value) \in Nat /\ value \in Seq(Tagging)
  <2>1. Len(value) \in Nat /\ \A k \in 1..Len(value) : value[k] \in Tagging
    BY LenProperties, ElementOfSeq DEF Tagging
  <2>2. value = [k \in 1..Len(value) |-> value[k]]
    BY LenProperties
  <2>3. value \in [1..Len(value) -> Tagging]
    BY <2>1, <2>2
  <2> QED BY <2>1, <2>3, FunctionIsSeq
<1>2. b \in 0..Len(value) /\ c \in b..Len(value) /\ b \in a..Len(value)
  BY <1>1
<1>3. /\ A \in Seq(Tagging) /\ \A k \in 1..Len(A) : A[k] \notin Tags
      /\ B \in Seq(Tagging) /\ \A k \in 1..Len(B) : B[k] \notin Tags
  <2>1. /\ A \in Seq(Tagging) /\ Len(A) = b - a /\ \A k \in 1..(b - a) : A[k] = value[a + k]
        /\ B \in Seq(Tagging) /\ Len(B) = c - b /\ \A k \in 1..(c - b) : B[k] = value[b + k]
    <3>1. /\ a \in 0..Len(value) /\ b \in 0..Len(value) /\ b \in a..Len(value) /\ c \in b..Len(value)
          /\ value \in Seq(Tagging)
      BY <1>1, <1>2
    <3>2. A \in Seq(Tagging) /\ Len(A) = b - a /\ \A k \in 1..(b - a) : A[k] = value[a + k]
      BY ONLY <3>1, PartIs
    <3>3. B \in Seq(Tagging) /\ Len(B) = c - b /\ \A k \in 1..(c - b) : B[k] = value[b + k]
      BY ONLY <3>1, PartIs
    <3> QED BY <3>2, <3>3
  <2>2. /\ \A k \in 1..(b - a) : a + k \in 1..Len(value)
        /\ \A k \in 1..(c - b) : b + k \in 1..Len(value)
    BY <1>1, <1>2
  <2> HIDE DEF A, B
  <2>3. ASSUME NEW k \in 1..Len(A) PROVE A[k] \notin Tags
    <3> DEFINE j == a + k
    <3>1. k \in 1..(b - a)
      BY <2>1
    <3>2. j \in 1..Len(value) /\ A[k] = value[j]
      BY <2>1, <2>2, <3>1
    <3> HIDE DEF j
    <3> QED BY <1>0, <3>2
  <2>4. ASSUME NEW k \in 1..Len(B) PROVE B[k] \notin Tags
    <3> DEFINE j == b + k
    <3>1. k \in 1..(c - b)
      BY <2>1
    <3>2. j \in 1..Len(value) /\ B[k] = value[j]
      BY <2>1, <2>2, <3>1
    <3> HIDE DEF j
    <3> QED BY <1>0, <3>2
  <2> QED BY <2>1, <2>3, <2>4
<1>4. A \o B = SubSeq(value, a + 1, c)
  BY <1>2, PartsJoin
<1>5. StartTag \in Tags /\ EndTag \in Tags /\ StartTag \in Tagging /\ EndTag \in Tagging
  BY DEF StartTag, EndTag, Tags, Tagging
<1>6. s \in Seq(Tagging) /\ e \in Seq(Tagging) /\ Without(s, Tags) = <<>> /\ Without(e, Tags) = <<>>
  <2>1. s \in Seq(Tagging) /\ e \in Seq(Tagging)
    BY <1>5
  <2>2. Without(s, Tags) = <<>> /\ Without(e, Tags) = <<>>
    BY <1>5, WithoutOne
  <2> QED BY <2>1, <2>2
<1>7. Block(value, spans, i) = <<A, s, B, e>>
  BY Zenon DEF Block
<1> HIDE DEF A, B, s, e
<1>8. <<A, s, B, e>> \in Seq(Seq(Tagging))
  <2>1. A \in Seq(Tagging) /\ s \in Seq(Tagging) /\ B \in Seq(Tagging) /\ e \in Seq(Tagging)
    BY <1>3, <1>6
  <2> DEFINE W == Seq(Tagging)
  <2> HIDE DEF W
  <2>2. A \in W /\ s \in W /\ B \in W /\ e \in W
    BY <2>1 DEF W
  <2>3. <<A, s, B, e>> \in Seq(W)
    BY <2>2, FourOf
  <2> QED BY <2>3 DEF W
<1>9. FlattenSeq(<<A, s, B, e>>) = ((A \o s) \o B) \o e
  <2>1. A \in Seq(Tagging) /\ s \in Seq(Tagging) /\ B \in Seq(Tagging) /\ e \in Seq(Tagging)
    BY <1>3, <1>6
  <2>2. JoinsFour(A, s, B, e)
    BY ONLY <2>1, FlattenFour
  <2> QED BY <2>2, Zenon DEF JoinsFour
<1>10. Without(A, Tags) = A /\ Without(B, Tags) = B
  BY <1>3, WithoutNone
<1> DEFINE As == A \o s
           AsB == As \o B
<1>11. As \in Seq(Tagging) /\ Without(As, Tags) = A
  <2>1. Without(A \o s, Tags) = Without(A, Tags) \o Without(s, Tags)
    <3>1. A \in Seq(Tagging) /\ s \in Seq(Tagging)
      BY <1>3, <1>6
    <3> QED BY ONLY <3>1, WithoutConcat
  <2>2. A \o <<>> = A
    BY <1>3, ConcatEmptySeq
  <2>3. A \o s \in Seq(Tagging)
    BY <1>3, <1>6, ConcatProperties
  <2> QED BY <1>6, <1>10, <2>1, <2>2, <2>3
<1> HIDE DEF As
<1>12. AsB \in Seq(Tagging) /\ Without(AsB, Tags) = A \o B
  <2>1. Without(As \o B, Tags) = Without(As, Tags) \o Without(B, Tags)
    <3>1. As \in Seq(Tagging) /\ B \in Seq(Tagging)
      BY <1>3, <1>11
    <3> QED BY ONLY <3>1, WithoutConcat
  <2>3. As \o B \in Seq(Tagging)
    BY <1>3, <1>11, ConcatProperties
  <2> QED BY <1>10, <1>11, <2>1, <2>3
<1> HIDE DEF AsB
<1>13. Without(AsB \o e, Tags) = A \o B
  <2>1. Without(AsB \o e, Tags) = Without(AsB, Tags) \o Without(e, Tags)
    <3>1. AsB \in Seq(Tagging) /\ e \in Seq(Tagging)
      BY <1>6, <1>12
    <3> QED BY ONLY <3>1, WithoutConcat
  <2> DEFINE ab == A \o B
  <2>3. ab \in Seq(Tagging)
    BY <1>3, ConcatProperties
  <2> HIDE DEF ab
  <2>2. ab \o <<>> = ab
    BY <2>3, ConcatEmptySeq
  <2> QED BY <1>6, <1>12, <2>1, <2>2 DEF ab
<1> QED BY <1>4, <1>7, <1>8, <1>9, <1>13 DEF As, AsB

LEMMA PiecesWithoutTags ==
  ASSUME NEW value \in Seq(Bytes), \A i \in 1..Len(value) : value[i] \notin Tags,
         NEW spans \in Seq(Spans), Apart(spans, Len(value))
  PROVE  Without(FlattenSeq(Pieces(value, spans)), Tags) = value
<1> DEFINE n == Len(spans)
           L == Len(value)
           blocks == [i \in DOMAIN spans |-> Block(value, spans, i)]
           at(i) == SpanEnd(spans, i)
           W == Seq(Tagging)
<1>1. n \in Nat /\ L \in Nat /\ DOMAIN spans = 1..n /\ \A i \in 1..n : spans[i] \in Spans
  BY LenProperties, ElementOfSeq
<1>2. /\ \A k \in 2..n : End(spans[k - 1]) < spans[k].offset
      /\ \A k \in 1..n : End(spans[k]) <= L
  BY DEF Apart
<1>3. \A i \in 1..n : spans[i].offset \in Nat /\ End(spans[i]) \in Nat /\ spans[i].offset <= End(spans[i])
  BY <1>1 DEF Spans, End
<1>4. ASSUME NEW i \in 1..n
      PROVE  /\ at(i - 1) \in 0..L /\ spans[i].offset \in at(i - 1)..L
             /\ End(spans[i]) \in spans[i].offset..L /\ at(i) = End(spans[i]) /\ at(i) \in 0..L
             /\ at(i) \in at(i - 1)..L
  <2>1. at(i) = End(spans[i]) /\ at(i - 1) = IF i - 1 = 0 THEN 0 ELSE End(spans[i - 1])
    <3>1. i # 0
      OBVIOUS
    <3> QED BY <3>1 DEF SpanEnd
  <2>2. CASE i = 1
    BY <1>1, <1>2, <1>3, <2>1, <2>2
  <2>3. CASE i # 1
    <3>1. i \in 2..n /\ i - 1 \in 1..n /\ i - 1 # 0
      BY <1>1, <2>3
    <3>2. at(i - 1) = End(spans[i - 1]) /\ End(spans[i - 1]) < spans[i].offset /\ End(spans[i - 1]) \in Nat
      BY <1>2, <1>3, <2>1, <3>1
    <3> DEFINE a == at(i - 1)
               b == spans[i].offset
               c == End(spans[i])
    <3>3. a \in Nat /\ b \in Nat /\ c \in Nat /\ a < b /\ b <= c /\ c <= L
      BY <1>2, <1>3, <3>2
    <3> HIDE DEF a, b, c, at
    <3>4. a \in 0..L /\ b \in a..L /\ c \in b..L /\ c \in 0..L /\ c \in a..L
      BY <1>1, <3>3
    <3> QED BY <2>1, <3>4 DEF a, b, c
  <2> QED BY <2>2, <2>3
<1> HIDE DEF n, L, at
<1>5. ASSUME NEW i \in 1..n
      PROVE  /\ Block(value, spans, i) \in Seq(W)
             /\ Without(FlattenSeq(Block(value, spans, i)), Tags) = SubSeq(value, at(i - 1) + 1, at(i))
  <2> DEFINE a == at(i - 1)
             b == spans[i].offset
             c == End(spans[i])
  <2>1. a \in 0..L /\ b \in a..L /\ c \in b..L /\ at(i) = c /\ a = SpanEnd(spans, i - 1)
    BY <1>4 DEF at
  <2> HIDE DEF a, b, c
  <2>2. /\ Block(value, spans, i) \in Seq(Seq(Tagging))
        /\ Without(FlattenSeq(Block(value, spans, i)), Tags) = SubSeq(value, a + 1, c)
    <3>1. Stretch(value, spans, i, a, b, c)
      BY <2>1 DEF b, c, L, Stretch
    <3> QED BY <3>1, BlockIs
  <2> QED BY <2>1, <2>2 DEF a
<1>6. blocks \in Seq(Seq(W)) /\ Len(blocks) = n /\ \A i \in 1..n : blocks[i] = Block(value, spans, i)
  <2>1. blocks \in [1..n -> Seq(W)]
    BY <1>1, <1>5
  <2>2. \A i \in 1..n : blocks[i] = Block(value, spans, i)
    BY <1>1
  <2> HIDE DEF blocks, W
  <2> QED BY <1>1, <2>1, <2>2, FunctionIsSeq
<1> HIDE DEF blocks
<1>7. PICK upto \in [0..n -> Seq(W)] :
        /\ upto[0] = <<>> /\ FlattenSeq(blocks) = upto[n]
        /\ \A i \in 1..n : upto[i] = upto[i - 1] \o blocks[i]
  <2>1. \E u \in [0..Len(blocks) -> Seq(W)] :
          /\ u[0] = <<>> /\ FlattenSeq(blocks) = u[Len(blocks)]
          /\ \A i \in 1..Len(blocks) : u[i] = u[i - 1] \o blocks[i]
    <3> HIDE DEF W
    <3> QED BY <1>6, FlattenUpto
  <2> HIDE DEF W
  <2> QED BY <1>6, <2>1
<1> DEFINE Left(i) == Without(FlattenSeq(upto[i]), Tags)
           Ok == {i \in Nat : i <= n => Left(i) = SubSeq(value, 1, at(i))}
<1>8. at(0) = 0
  BY DEF at, SpanEnd
<1>9. Left(0) = SubSeq(value, 1, at(0))
  <2>1. SubSeq(value, 1, 0) = <<>>
    BY SubSeqEmpty
  <2> QED BY <1>7, <1>8, <2>1, FlattenEmpty, WithoutEmpty
\* Two pieces of text, joined and without tags.
<1>10. ASSUME NEW x \in Seq(W), NEW y \in Seq(W)
       PROVE  /\ x \o y \in Seq(W)
              /\ Without(FlattenSeq(x \o y), Tags)
                   = Without(FlattenSeq(x), Tags) \o Without(FlattenSeq(y), Tags)
  <2> DEFINE fx == FlattenSeq(x)
             fy == FlattenSeq(y)
  <2>1. FlattenSeq(x \o y) = fx \o fy
    BY FlattenConcat
  <2>2. fx \in Seq(Tagging) /\ fy \in Seq(Tagging)
    BY FlattenTyped
  <2> HIDE DEF fx, fy
  <2>3. Without(fx \o fy, Tags) = Without(fx, Tags) \o Without(fy, Tags)
    BY ONLY <2>2, WithoutConcat
  <2>4. x \o y \in Seq(W)
    <3> HIDE DEF W
    <3> QED BY ConcatProperties
  <2> QED BY <2>1, <2>3, <2>4 DEF fx, fy
<1>11. ASSUME NEW i \in Nat, i + 1 <= n, Left(i) = SubSeq(value, 1, at(i))
       PROVE  Left(i + 1) = SubSeq(value, 1, at(i + 1))
  <2> DEFINE j == i + 1
             u == upto[i]
             v == blocks[j]
  <2>1. j \in 1..n /\ j - 1 = i /\ i \in 0..n /\ j \in 0..n
    BY <1>1, <1>11
  <2>2. upto[j] = u \o v /\ u \in Seq(W) /\ v \in Seq(W)
    <3>1. upto[j] = upto[j - 1] \o blocks[j]
      BY <1>7, <2>1
    <3>2. upto[i] \in Seq(W)
      BY <1>7, <2>1
    <3>3. blocks[j] \in Seq(W)
      BY <1>5, <1>6, <2>1
    <3> QED BY <2>1, <3>1, <3>2, <3>3
  <2>3. Without(FlattenSeq(v), Tags) = SubSeq(value, at(i) + 1, at(j))
    BY <1>5, <1>6, <2>1
  <2>4. Without(FlattenSeq(u), Tags) = SubSeq(value, 1, at(i))
    BY <1>11
  <2> HIDE DEF u, v, j
  <2>5. Without(FlattenSeq(u \o v), Tags) = SubSeq(value, 1, at(i)) \o SubSeq(value, at(i) + 1, at(j))
    BY <1>10, <2>2, <2>3, <2>4
  <2>6. SubSeq(value, 1, at(i)) \o SubSeq(value, at(i) + 1, at(j)) = SubSeq(value, 1, at(j))
    <3>1. at(i) \in 0..L /\ at(j) \in at(i)..L /\ 0 \in 0..L
      BY <1>1, <1>4, <2>1
    <3> HIDE DEF at
    <3> QED BY <3>1, StartJoins DEF L
  <2> QED BY <2>2, <2>5, <2>6 DEF j
<1> HIDE DEF Left
<1>12. \A i \in Nat : i \in Ok
  <2>1. 0 \in Ok
    BY <1>9
  <2>2. ASSUME NEW i \in Nat, i \in Ok PROVE i + 1 \in Ok
    <3>1. i + 1 \in Nat /\ (i + 1 <= n => i <= n)
      BY <1>1
    <3>2. i + 1 <= n => Left(i + 1) = SubSeq(value, 1, at(i + 1))
      BY <1>11, <2>2, <3>1
    <3> QED BY <3>1, <3>2
  <2> HIDE DEF Ok
  <2> QED BY <2>1, <2>2, NatBySteps
<1>13. Left(n) = SubSeq(value, 1, at(n)) /\ at(n) \in 0..L
  <2>1. n \in Ok /\ n <= n
    BY <1>1, <1>12
  <2>2. at(n) \in 0..L
    <3>1. CASE n = 0
      BY <1>1, <1>8, <3>1
    <3>2. CASE n # 0
      <4>1. n \in 1..n
        BY <1>1, <3>2
      <4> QED BY <1>4, <4>1
    <3> QED BY <3>1, <3>2
  <2> QED BY <2>1, <2>2
<1> DEFINE tail == SubSeq(value, at(n) + 1, L)
           last == <<tail>>
<1>14. tail \in Seq(Tagging) /\ Without(tail, Tags) = tail
  <2>1. value \in Seq(Tagging)
    <3>1. L \in Nat /\ \A k \in 1..L : value[k] \in Tagging
      BY LenProperties, ElementOfSeq DEF Tagging, L
    <3>2. value = [k \in 1..L |-> value[k]]
      BY LenProperties DEF L
    <3>3. value \in [1..L -> Tagging]
      BY <3>1, <3>2
    <3> QED BY <3>1, <3>3, FunctionIsSeq
  <2> DEFINE a == at(n)
  <2>2. a \in 0..L /\ L \in a..L
    BY <1>1, <1>13
  <2> HIDE DEF a
  <2>3. /\ SubSeq(value, a + 1, L) \in Seq(Tagging) /\ Len(SubSeq(value, a + 1, L)) = L - a
        /\ \A k \in 1..(L - a) : SubSeq(value, a + 1, L)[k] = value[a + k]
    BY <2>1, <2>2, PartIs DEF L
  <2> DEFINE t == SubSeq(value, a + 1, L)
  <2>4. \A k \in 1..(L - a) : a + k \in 1..L
    BY <1>1, <2>2
  <2>5. t \in Seq(Tagging) /\ \A k \in 1..Len(t) : t[k] \notin Tags
    BY <2>3, <2>4 DEF L
  <2> HIDE DEF t
  <2>6. Without(t, Tags) = t
    BY <2>5, WithoutNone
  <2> QED BY <2>5, <2>6 DEF t, a
<1>15. SubSeq(value, 1, at(n)) \o tail = value
  <2>1. 0 \in 0..L /\ at(n) \in 0..L /\ L \in at(n)..L
    BY <1>1, <1>13
  <2>2. SubSeq(value, 1, at(n)) \o SubSeq(value, at(n) + 1, L) = SubSeq(value, 1, L)
    BY <2>1, StartJoins DEF L
  <2>3. SubSeq(value, 1, L) = value
    BY SubSeqFull DEF L
  <2> QED BY <2>2, <2>3
<1> HIDE DEF tail
<1>16. last \in Seq(W) /\ FlattenSeq(last) = tail
  BY <1>14, FlattenOne
<1>17. Pieces(value, spans) = upto[n] \o last
  BY <1>7, Zenon DEF Pieces, blocks, tail, at, L, n
<1> HIDE DEF last
<1>18. upto[n] \in Seq(W)
  BY <1>1, <1>7
<1> DEFINE u == upto[n]
<1>19. Without(FlattenSeq(u \o last), Tags) = Without(FlattenSeq(u), Tags) \o Without(FlattenSeq(last), Tags)
  BY <1>10, <1>16, <1>18
<1> QED BY <1>13, <1>14, <1>15, <1>16, <1>17, <1>19 DEF Left

-----------------------------------------------------------------------------
(***************************************************************************)
(* The value shown.                                                        *)
(***************************************************************************)
LEMMA ShownIs ==
  ASSUME NEW value, NEW terms, NEW size
  PROVE  LET shown == as_temp_make_high_light(value, terms, size) IN
         shown.rv # -1 => shown.out = FlattenSeq(Pieces(value, Merged(FoundAll(value, terms))))
<1> DEFINE spans == Merged(FoundAll(value, terms))
           pieces == Pieces(value, spans)
           Before(k) == Len(FlattenSeq(SubSeq(pieces, 1, k - 1)))
           refused == \E k \in DOMAIN pieces : 2 * Len(pieces[k]) > size - Before(k)
           out == FlattenSeq(pieces)
           shown == as_temp_make_high_light(value, terms, size)
<1>1. shown = IF refused THEN Refused ELSE [rv |-> Len(out), out |-> out]
  BY Zenon DEF as_temp_make_high_light, Pieces, Block, SpanEnd, StartTag, EndTag
<1> HIDE DEF shown, refused, out
<1>2. Refused.rv = -1
  BY DEF Refused
<1>3. shown.rv # -1 => shown.out = out
  BY <1>1, <1>2
<1> QED BY <1>3, Zenon DEF shown, out

\* A place found ends within the value, and every byte of it is covered.
LEMMA FoundPlaces ==
  ASSUME NEW value \in Seq(Bytes), NEW terms, Terms(terms)
  PROVE  LET all == FoundAll(value, terms) IN
         /\ \A i \in 1..Len(all) : End(all[i]) <= Len(value)
         /\ \A b \in Covers(all) :
              \E j \in 1..Len(terms) : \E p \in PlacesOf(value, terms[j]) :
                /\ b \in (p + 1)..(p + Len(terms[j]))
                /\ (p + 1)..(p + Len(terms[j])) \subseteq Covers(all)
<1> DEFINE all == FoundAll(value, terms)
<1>1. all \in Seq(Spans) /\ \A h \in Range(all) : PlaceOfTerm(value, terms, h)
  BY FoundAllIs
<1>2. \A j \in 1..Len(terms) : terms[j] \in Seq(Bytes)
  BY ElementOfSeq DEF Terms
<1> HIDE DEF all
<1>3. \A i \in 1..Len(all) : all[i] \in Range(all)
  <2>1. DOMAIN all = 1..Len(all)
    BY <1>1, LenProperties
  <2> QED BY <2>1 DEF Range
<1>4. ASSUME NEW h \in Range(all)
      PROVE  \E j \in 1..Len(terms) : \E p \in PlacesOf(value, terms[j]) :
               /\ End(h) <= Len(value) /\ End(h) = p + Len(terms[j]) /\ h.offset = p
  <2>0. PICK j \in 1..Len(terms) : \E p \in PlacesOf(value, terms[j]) : h = Span(p, Len(terms[j]))
    BY <1>1 DEF PlaceOfTerm
  <2>1. PICK p \in PlacesOf(value, terms[j]) : h = Span(p, Len(terms[j]))
    BY <2>0
  <2>2. p \in Nat /\ StandsAt(value, p, terms[j])
    BY <1>2, PlacesAre
  <2>3. p + Len(terms[j]) <= Len(value)
    BY <2>2 DEF StandsAt
  <2>4. End(h) = p + Len(terms[j]) /\ h.offset = p
    BY <2>1 DEF End, Span
  <2> QED BY <2>3, <2>4
<1>5. ASSUME NEW b \in Covers(all)
      PROVE  \E j \in 1..Len(terms) : \E p \in PlacesOf(value, terms[j]) :
               /\ b \in (p + 1)..(p + Len(terms[j]))
               /\ (p + 1)..(p + Len(terms[j])) \subseteq Covers(all)
  <2>1. PICK h \in Range(all) : b \in (h.offset + 1)..End(h)
    BY CoversIs
  <2>2. (h.offset + 1)..End(h) \subseteq Covers(all)
    BY CoversIs
  <2>3. PICK j \in 1..Len(terms) : \E p \in PlacesOf(value, terms[j]) :
          End(h) = p + Len(terms[j]) /\ h.offset = p
    BY <1>4
  <2>4. PICK p \in PlacesOf(value, terms[j]) : End(h) = p + Len(terms[j]) /\ h.offset = p
    BY <2>3
  <2> QED BY <2>1, <2>2, <2>4
<1> QED BY <1>3, <1>4, <1>5 DEF all

\* What is shown of a value, and what of it is tagged.
LEMMA TaggedIs ==
  ASSUME NEW value \in Seq(Bytes), \A k \in 1..Len(value) : value[k] \notin Tags,
         NEW terms, Terms(terms), NEW size
  PROVE  LET spans == Merged(FoundAll(value, terms))
             shown == as_temp_make_high_light(value, terms, size)
         IN  /\ shown.rv # -1 => Without(shown.out, Tags) = value
             /\ \A i \in 2..Len(spans) : End(spans[i - 1]) < spans[i].offset
             /\ \A b \in Covers(spans) : \E i \in 1..Len(terms) : \E p \in PlacesOf(value, terms[i]) :
                  b \in (p + 1)..(p + Len(terms[i])) /\ (p + 1)..(p + Len(terms[i])) \subseteq Covers(spans)
             /\ Len(FoundAll(value, terms)) < MAX_HIGH_LIGHT_TERM_NUM - 1 =>
                  \A i \in 1..Len(terms) :
                    Cardinality(PlacesOf(value, terms[i])) < PER_TERM =>
                      \A p \in PlacesOf(value, terms[i]) :
                        ((p + 1)..(p + Len(terms[i]))) \cap Covers(spans) # {}
<1> DEFINE all == FoundAll(value, terms)
           spans == Merged(all)
           shown == as_temp_make_high_light(value, terms, size)
<1>1. /\ all \in Seq(Spans) /\ InOrder(all)
      /\ Len(all) < MAX_HIGH_LIGHT_TERM_NUM - 1 =>
           \A j \in 1..Len(terms) :
             Cardinality(PlacesOf(value, terms[j])) < PER_TERM =>
               \A q \in PlacesOf(value, terms[j]) : Met(all, terms[j], q)
  BY FoundAllIs
<1>2. /\ \A i \in 1..Len(all) : End(all[i]) <= Len(value)
      /\ \A b \in Covers(all) :
           \E j \in 1..Len(terms) : \E p \in PlacesOf(value, terms[j]) :
             /\ b \in (p + 1)..(p + Len(terms[j]))
             /\ (p + 1)..(p + Len(terms[j])) \subseteq Covers(all)
  BY FoundPlaces
<1>3. shown.rv # -1 => shown.out = FlattenSeq(Pieces(value, spans))
  BY ShownIs
<1> HIDE DEF all, shown
<1>4. spans \in Seq(Spans) /\ Apart(spans, Len(value)) /\ Covers(spans) = Covers(all)
  <2>1. Len(value) \in Nat
    BY LenProperties
  <2> QED BY <1>1, <1>2, <2>1, MergedIs
<1> HIDE DEF spans
<1>5. Without(FlattenSeq(Pieces(value, spans)), Tags) = value
  BY <1>4, PiecesWithoutTags
<1>6. shown.rv # -1 => Without(shown.out, Tags) = value
  BY <1>3, <1>5
<1>7. \A i \in 2..Len(spans) : End(spans[i - 1]) < spans[i].offset
  BY <1>4 DEF Apart
<1>8. Len(all) < MAX_HIGH_LIGHT_TERM_NUM - 1 =>
        \A j \in 1..Len(terms) :
          Cardinality(PlacesOf(value, terms[j])) < PER_TERM =>
            \A q \in PlacesOf(value, terms[j]) :
              ((q + 1)..(q + Len(terms[j]))) \cap Covers(spans) # {}
  BY <1>1, <1>4 DEF Met
<1>9. \A b \in Covers(spans) : \E i \in 1..Len(terms) : \E p \in PlacesOf(value, terms[i]) :
        b \in (p + 1)..(p + Len(terms[i])) /\ (p + 1)..(p + Len(terms[i])) \subseteq Covers(spans)
  BY <1>2, <1>4
<1> QED BY <1>6, <1>7, <1>8, <1>9, Zenon DEF spans, all, shown

\* HighlightsTerms: whatever the query and the values, the terms are the words
\* of the query; of a value nothing is lost, tagged parts are made of places of
\* terms and lie apart, and no place that could be taken is left out.
THEOREM HighlightsTermsHolds == Spec => []HighlightsTerms
<1>1. TextInv => HighlightsTerms
  <2> DEFINE terms == as_temp_split_query_terms(text)
             spans(value) == Merged(FoundAll(value, terms))
             shown(value) == as_temp_make_high_light(value, terms, 4 * (Len(value) + 1))
             Lit(value) ==
               /\ shown(value).rv # -1 => Without(shown(value).out, {"start", "end"}) = value
               /\ \A i \in 2..Len(spans(value)) : End(spans(value)[i - 1]) < spans(value)[i].offset
               /\ \A b \in Covers(spans(value)) :
                    \E i \in DOMAIN terms : \E p \in PlacesOf(value, terms[i]) :
                      /\ b \in (p + 1)..(p + Len(terms[i]))
                      /\ (p + 1)..(p + Len(terms[i])) \subseteq Covers(spans(value))
               /\ Len(FoundAll(value, terms)) < MAX_HIGH_LIGHT_TERM_NUM - 1 =>
                    \A i \in DOMAIN terms :
                      Cardinality(PlacesOf(value, terms[i])) < PER_TERM =>
                        \A p \in PlacesOf(value, terms[i]) :
                          ((p + 1)..(p + Len(terms[i]))) \cap Covers(spans(value)) # {}
             words == /\ \A i \in DOMAIN terms : " " \notin Range(terms[i]) /\ terms[i] # <<>>
                      /\ Len(terms) < MAX_QUERY_TERMS_NUM => FlattenSeq(terms) = Without(text, {" "})
             whole == \A i \in DOMAIN terms : WholeCharacters(terms[i])
  <2>1. (\A value \in Values : words /\ (whole => Lit(value))) => HighlightsTerms
    BY Zenon DEF HighlightsTerms, PlacesOf, Covers
  <2> SUFFICES ASSUME TextInv, NEW value \in Values PROVE words /\ (whole => Lit(value))
    <3> HIDE DEF words, whole, Lit
    <3> QED BY <2>1
  <2>2. terms \in Seq(Seq(Bytes)) /\ words
    BY TermsAre, Zenon DEF TextInv
  <2>3. DOMAIN terms = 1..Len(terms)
    BY <2>2, LenProperties
  <2>4. value \in Seq(Bytes) /\ \A k \in 1..Len(value) : value[k] \notin Tags
    <3> DEFINE U == UNION Alphabets
    <3>1. value \in Seq(U) /\ U \cap Tags = {} /\ U \subseteq Bytes
      BY TemplateTextAssumption DEF Bytes, Tags
    <3> HIDE DEF U
    <3>2. Len(value) \in Nat /\ \A k \in 1..Len(value) : value[k] \in U
      BY <3>1, LenProperties, ElementOfSeq
    <3>3. value = [k \in 1..Len(value) |-> value[k]]
      BY <3>1, LenProperties
    <3>4. value \in [1..Len(value) -> Bytes]
      BY <3>1, <3>2, <3>3
    <3>5. value \in Seq(Bytes)
      BY <3>2, <3>4, FunctionIsSeq
    <3> QED BY <3>1, <3>2, <3>5
  <2>5. ASSUME whole PROVE Lit(value)
    <3> HIDE DEF terms
    <3>1. Terms(terms)
      BY <2>2, <2>3, <2>5 DEF Terms
    <3>2. /\ shown(value).rv # -1 => Without(shown(value).out, Tags) = value
          /\ \A i \in 2..Len(spans(value)) : End(spans(value)[i - 1]) < spans(value)[i].offset
          /\ \A b \in Covers(spans(value)) :
               \E i \in 1..Len(terms) : \E p \in PlacesOf(value, terms[i]) :
                 /\ b \in (p + 1)..(p + Len(terms[i]))
                 /\ (p + 1)..(p + Len(terms[i])) \subseteq Covers(spans(value))
          /\ Len(FoundAll(value, terms)) < MAX_HIGH_LIGHT_TERM_NUM - 1 =>
               \A i \in 1..Len(terms) :
                 Cardinality(PlacesOf(value, terms[i])) < PER_TERM =>
                   \A p \in PlacesOf(value, terms[i]) :
                     ((p + 1)..(p + Len(terms[i]))) \cap Covers(spans(value)) # {}
      <4> DEFINE size == 4 * (Len(value) + 1)
      <4> HIDE DEF size
      <4>1. /\ value \in Seq(Bytes) /\ Terms(terms)
            /\ \A k \in 1..Len(value) : value[k] \notin Tags
        BY <2>4, <3>1
      <4> QED BY ONLY <4>1, TaggedIs, Zenon DEF size
    <3>3. Tags = {"start", "end"}
      BY DEF Tags
    <3> HIDE DEF shown, spans
    <3> QED BY <2>3, <3>2, <3>3, Zenon
  <2> QED BY <2>2, <2>5
<1> QED BY <1>1, TextInvariant, PTL
===============================================================================
