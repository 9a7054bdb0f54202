---------------------------- MODULE StartupProofs ----------------------------
(***************************************************************************)
(* Theorems about template_load (TemplateLoad), for any files and limits,  *)
(* and about the start of the process (Startup), whose steps are those of  *)
(* the three loads.                                                        *)
(***************************************************************************)
EXTENDS Startup, ConfigProofs, SequenceTheorems

(***************************************************************************)
(* The variables of a text.                                                *)
(***************************************************************************)

\* What Opening gives from place a of a text on: openings in order, none at the
\* dollar that closes the one before; and every opening of the text is one of
\* them or such a closing dollar.
Marked(marks, text, Here, a) ==
  /\ marks \in Seq(Nat)
  /\ \A m \in 1..Len(marks) : marks[m] \in Here /\ a <= marks[m] /\ marks[m] < Len(text)
  /\ \A m, n \in 1..Len(marks) : m < n => marks[m] + 1 < marks[n]
  /\ \A k \in Here : a <= k /\ k < Len(text) =>
       \E m \in 1..Len(marks) : k = marks[m] \/ k = marks[m] + 1

\* The loop of temp_load_content_file comes to an end.
LEMMA FoundExists ==
  ASSUME NEW text, NEW Here, Len(text) \in Nat
  PROVE  \E found : found =
           [k \in 1..(Len(text) + 1) |->
              IF k >= Len(text) THEN <<>>
              ELSE IF k \in Here THEN <<k>> \o found[k + 2] ELSE found[k + 1]]
<1> DEFINE L == Len(text)
           IsFound(f, b) == f =
             [k \in b..(L + 1) |->
                IF k >= L THEN <<>> ELSE IF k \in Here THEN <<k>> \o f[k + 2] ELSE f[k + 1]]
           Without == {d \in 0..L : ~ \E f : IsFound(f, L + 1 - d)}
<1>1. SUFFICES ASSUME Without # {} PROVE FALSE
  <2>1. L \in 0..L /\ L + 1 - L = 1
    OBVIOUS
  <2>2. Without = {} => \E f : IsFound(f, 1)
    <3> HIDE DEF IsFound
    <3> QED BY <2>1
  <2> QED BY <2>2
<1>2. PICK d \in Without : \A e \in Without : d <= e
  <2>1. Without \in SUBSET Nat
    OBVIOUS
  <2> HIDE DEF Without
  <2> QED BY <1>1, <2>1, LeastOf
<1>3. d \in 0..L
  OBVIOUS
<1>4. CASE d = 0
  <2> DEFINE f == [k \in (L + 1)..(L + 1) |-> <<>>]
  <2>1. IsFound(f, L + 1)
    OBVIOUS
  <2> QED BY <1>4, <2>1
<1>5. CASE d # 0
  <2>1. d - 1 \in 0..L /\ ~ (d <= d - 1)
    BY <1>3, <1>5
  <2>2. PICK s : IsFound(s, L + 1 - (d - 1))
    BY <1>2, <2>1
  <2> DEFINE b == L + 1 - d
             f == [k \in b..(L + 1) |->
                     IF k # b THEN s[k]
                     ELSE IF b >= L THEN <<>>
                     ELSE IF b \in Here THEN <<b>> \o s[b + 2] ELSE s[b + 1]]
  <2>3. b \in 1..L /\ L + 1 - (d - 1) = b + 1
    BY <1>3, <1>5
  <2> HIDE DEF b
  <2>4. ASSUME NEW k \in b..(L + 1)
        PROVE  f[k] = IF k >= L THEN <<>>
                      ELSE IF k \in Here THEN <<k>> \o f[k + 2] ELSE f[k + 1]
    <3>1. k \in Nat /\ b \in Nat /\ L \in Nat
      BY <2>3
    <3>2. k < L => k + 2 \in b..(L + 1) /\ k + 1 \in b..(L + 1) /\ k + 2 # b /\ k + 1 # b
      BY <2>3, <3>1
    <3>3. k < L => f[k + 2] = s[k + 2] /\ f[k + 1] = s[k + 1]
      BY <3>2
    <3>4. CASE k = b
      BY <3>1, <3>3, <3>4
    <3>5. CASE k # b
      <4>1. k \in (b + 1)..(L + 1)
        BY <2>3, <3>1, <3>5
      <4>2. s[k] = IF k >= L THEN <<>>
                   ELSE IF k \in Here THEN <<k>> \o s[k + 2] ELSE s[k + 1]
        BY <2>2, <2>3, <4>1
      <4> QED BY <3>1, <3>3, <3>5, <4>2
    <3> QED BY <3>4, <3>5
  <2>5. IsFound(f, b)
    <3> DEFINE u == [k \in b..(L + 1) |-> IF k >= L THEN <<>>
                      ELSE IF k \in Here THEN <<k>> \o f[k + 2] ELSE f[k + 1]]
    <3>1. \A k \in b..(L + 1) : f[k] = u[k]
      <4> HIDE DEF f
      <4> QED BY <2>4
    <3>2. f = u
      BY <3>1
    <3> QED BY <3>2
  <2> QED BY <2>5 DEF b
<1> QED BY <1>4, <1>5

LEMMA OneMoreMark ==
  ASSUME NEW text, NEW Here \in SUBSET Nat, Len(text) \in Nat,
         NEW a \in Nat, a < Len(text), a \in Here,
         NEW marks, Marked(marks, text, Here, a + 2)
  PROVE  Marked(<<a>> \o marks, text, Here, a)
<1> DEFINE more == <<a>> \o marks
<1>1. /\ marks \in Seq(Nat) /\ Len(marks) \in Nat /\ <<a>> \in Seq(Nat) /\ Len(<<a>>) = 1
      /\ <<a>>[1] = a
  BY LenProperties DEF Marked
<1>2. /\ <<a>> \o marks \in Seq(Nat) /\ Len(<<a>> \o marks) = Len(<<a>>) + Len(marks)
      /\ \A m \in 1 .. Len(<<a>>) + Len(marks) : (<<a>> \o marks)[m] =
                     IF m <= Len(<<a>>) THEN <<a>>[m] ELSE marks[m - Len(<<a>>)]
  BY <1>1, ConcatProperties
<1>3. /\ more \in Seq(Nat) /\ Len(more) = 1 + Len(marks)
      /\ \A m \in 1..(1 + Len(marks)) : more[m] = IF m <= 1 THEN <<a>>[m] ELSE marks[m - 1]
  BY <1>1, <1>2
<1> HIDE DEF more
<1>4. more[1] = a
  <2>1. 1 \in 1..(1 + Len(marks)) /\ 1 <= 1
    BY <1>1
  <2> QED BY <1>1, <1>3, <2>1
<1>5. \A m \in 2..(1 + Len(marks)) : m - 1 \in 1..Len(marks) /\ more[m] = marks[m - 1]
  <2>1. \A m \in 2..(1 + Len(marks)) :
          m - 1 \in 1..Len(marks) /\ m \in 1..(1 + Len(marks)) /\ ~(m <= 1)
    BY <1>1
  <2> QED BY <1>3, <2>1
<1>6. \A m \in 1..Len(more) : m = 1 \/ m \in 2..(1 + Len(marks))
  BY <1>1, <1>3
<1>7. \A m \in 1..Len(marks) : /\ marks[m] \in Here /\ a + 2 <= marks[m] /\ marks[m] < Len(text)
                               /\ marks[m] \in Nat
  BY <1>1, ElementOfSeq DEF Marked
<1>8. ASSUME NEW m \in 1..Len(more)
      PROVE  more[m] \in Here /\ a <= more[m] /\ more[m] < Len(text)
  <2>1. CASE m = 1
    BY <1>4, <2>1
  <2>2. CASE m \in 2..(1 + Len(marks))
    BY <1>5, <1>7, <2>2
  <2> QED BY <1>6, <2>1, <2>2
<1>9. ASSUME NEW m \in 1..Len(more), NEW n \in 1..Len(more), m < n
      PROVE  more[m] + 1 < more[n]
  <2>1. n \in 2..(1 + Len(marks))
    BY <1>1, <1>3, <1>9
  <2>2. CASE m = 1
    BY <1>4, <1>5, <1>7, <2>1, <2>2
  <2>3. CASE m \in 2..(1 + Len(marks))
    <3>1. m - 1 < n - 1 /\ m - 1 \in 1..Len(marks) /\ n - 1 \in 1..Len(marks)
      BY <1>1, <1>9, <2>1, <2>3
    <3>2. marks[m - 1] + 1 < marks[n - 1]
      BY <3>1 DEF Marked
    <3> QED BY <1>5, <2>1, <2>3, <3>2
  <2> QED BY <1>6, <2>2, <2>3
<1>10. ASSUME NEW k \in Here, a <= k, k < Len(text)
       PROVE  \E m \in 1..Len(more) : k = more[m] \/ k = more[m] + 1
  <2>1. CASE k = a \/ k = a + 1
    <3>1. 1 \in 1..Len(more)
      BY <1>1, <1>3
    <3> QED BY <1>4, <2>1, <3>1
  <2>0. k \in Nat
    OBVIOUS
  <2>2. CASE a + 2 <= k
    <3>1. PICK m \in 1..Len(marks) : k = marks[m] \/ k = marks[m] + 1
      BY <1>10, <2>2 DEF Marked
    <3>2. m + 1 \in 2..(1 + Len(marks)) /\ (m + 1) - 1 = m /\ m + 1 \in 1..Len(more)
      BY <1>1, <1>3
    <3>3. more[m + 1] = marks[m]
      BY <1>5, <3>2
    <3> QED BY <3>1, <3>2, <3>3
  <2> QED BY <1>10, <2>0, <2>1, <2>2
<1> QED BY <1>3, <1>8, <1>9, <1>10 DEF Marked, more

LEMMA OpeningIs ==
  ASSUME NEW text, NEW Here \in SUBSET Nat, Len(text) \in Nat
  PROVE  Marked(Opening(text, Here), text, Here, 1)
<1> DEFINE L == Len(text)
           IsFound(f) == f = [k \in 1..(Len(text) + 1) |->
                                IF k >= Len(text) THEN <<>>
                                ELSE IF k \in Here THEN <<k>> \o f[k + 2] ELSE f[k + 1]]
           found == CHOOSE f : IsFound(f)
<1>1. IsFound(found)
  <2>1. \E f : IsFound(f)
    BY FoundExists
  <2> HIDE DEF IsFound
  <2> QED BY <2>1
<1>2. Opening(text, Here) = found[1]
  BY DEF Opening
<1>3. \A k \in 1..(L + 1) : found[k] =
        IF k >= L THEN <<>> ELSE IF k \in Here THEN <<k>> \o found[k + 2] ELSE found[k + 1]
  <2> HIDE DEF found
  <2> QED BY <1>1
<1> HIDE DEF found
<1> DEFINE Unmarked == {d \in 0..L : ~Marked(found[L + 1 - d], text, Here, L + 1 - d)}
<1>4. SUFFICES ASSUME Unmarked # {} PROVE FALSE
  <2>1. L \in 0..L /\ L + 1 - L = 1
    OBVIOUS
  <2> QED BY <1>2, <2>1
<1>5. PICK d \in Unmarked : \A e \in Unmarked : d <= e
  <2>1. Unmarked \in SUBSET Nat
    OBVIOUS
  <2> HIDE DEF Unmarked
  <2> QED BY <1>4, <2>1, LeastOf
<1> DEFINE a == L + 1 - d
<1>6. d \in 0..L /\ a \in 1..(L + 1) /\ a \in Nat
  OBVIOUS
<1>7. ~Marked(found[a], text, Here, a)
  OBVIOUS
<1>8. \A b \in (a + 1)..(L + 1) : Marked(found[b], text, Here, b)
  <2>1. SUFFICES ASSUME NEW b \in (a + 1)..(L + 1) PROVE Marked(found[b], text, Here, b)
    OBVIOUS
  <2>2. L + 1 - b \in 0..L /\ ~ (d <= L + 1 - b) /\ L + 1 - (L + 1 - b) = b
    BY <1>6
  <2>3. L + 1 - b \notin Unmarked
    BY <1>5, <2>2
  <2> QED BY <2>2, <2>3
<1> HIDE DEF a, Unmarked
<1>9. CASE a >= L
  <2>1. found[a] = <<>>
    BY <1>3, <1>6, <1>9
  <2>2. Marked(<<>>, text, Here, a)
    <3>1. <<>> \in Seq(Nat) /\ Len(<<>>) = 0 /\ 1..0 = {}
      OBVIOUS
    <3>2. \A k \in Here : k \in Nat /\ ~(a <= k /\ k < L)
      BY <1>6, <1>9
    <3> QED BY <3>1, <3>2 DEF Marked
  <2> QED BY <1>7, <2>1, <2>2
<1>10. CASE a < L /\ a \in Here
  <2>1. found[a] = <<a>> \o found[a + 2] /\ a + 2 \in (a + 1)..(L + 1)
    <3>1. ~(a >= L) /\ a + 2 \in (a + 1)..(L + 1)
      <4>1. L \in Nat
        OBVIOUS
      <4> HIDE DEF L
      <4> QED BY <1>6, <1>10, <4>1
    <3> HIDE DEF L
    <3> QED BY <1>3, <1>6, <1>10, <3>1
  <2>2. Marked(found[a + 2], text, Here, a + 2)
    BY <1>8, <2>1
  <2> QED BY <1>6, <1>7, <1>10, <2>1, <2>2, OneMoreMark
<1>11. CASE a < L /\ a \notin Here
  <2>1. found[a] = found[a + 1] /\ a + 1 \in (a + 1)..(L + 1)
    <3>1. ~(a >= L) /\ a + 1 \in (a + 1)..(L + 1)
      <4>1. L \in Nat
        OBVIOUS
      <4> HIDE DEF L
      <4> QED BY <1>6, <1>11, <4>1
    <3> HIDE DEF L
    <3> QED BY <1>3, <1>6, <1>11, <3>1
  <2>2. Marked(found[a + 1], text, Here, a + 1)
    BY <1>8, <2>1
  <2>3. Marked(found[a + 1], text, Here, a)
    <3>1. \A k \in Here : a <= k => k \in Nat /\ a + 1 <= k
      BY <1>6, <1>11
    <3>2. \A m \in 1..Len(found[a + 1]) : /\ found[a + 1][m] \in Nat
                                          /\ (a + 1 <= found[a + 1][m] => a <= found[a + 1][m])
      <4>1. found[a + 1] \in Seq(Nat)
        BY <2>2 DEF Marked
      <4>2. \A m \in 1..Len(found[a + 1]) : found[a + 1][m] \in Nat
        BY <4>1, ElementOfSeq
      <4> QED BY <1>6, <4>2
    <3> QED BY <2>2, <3>1, <3>2 DEF Marked
  <2> QED BY <1>7, <2>1, <2>3
<1> QED BY <1>6, <1>9, <1>10, <1>11

\* The first l elements of a sequence.
LEMMA FirstPart ==
  ASSUME NEW S, NEW seq \in Seq(S), NEW l \in 0..Len(seq)
  PROVE  /\ SubSeq(seq, 1, l) \in Seq(S) /\ Len(SubSeq(seq, 1, l)) = l
         /\ \A k \in 1..l : SubSeq(seq, 1, l)[k] = seq[k]
<1>1. Len(seq) \in Nat /\ l \in Int /\ 1 \in Int
  BY LenProperties
<1>2. \A k \in 1..l : seq[k] \in S
  <2>1. \A k \in 1..l : k \in 1..Len(seq)
    BY <1>1
  <2> QED BY <2>1, ElementOfSeq
<1>3. /\ SubSeq(seq, 1, l) \in Seq(S)
      /\ Len(SubSeq(seq, 1, l)) = IF 1 <= l THEN l - 1 + 1 ELSE 0
      /\ \A k \in 1..(l - 1 + 1) : SubSeq(seq, 1, l)[k] = seq[1 + k - 1]
  BY <1>1, <1>2, SubSeqProperties
<1>4. /\ l - 1 + 1 = l
      /\ (IF 1 <= l THEN l - 1 + 1 ELSE 0) = l
      /\ \A k \in 1..l : 1 + k - 1 = k
  BY <1>1
<1> QED BY <1>3, <1>4

\* As many numbers are in an increasing sequence as it has places.
LEMMA CountIncreasing ==
  ASSUME NEW seq \in Seq(Nat), \A m, n \in 1..Len(seq) : m < n => seq[m] < seq[n]
  PROVE  Cardinality({seq[m] : m \in 1..Len(seq)}) = Len(seq)
<1> DEFINE R == {seq[m] : m \in 1..Len(seq)}
<1>1. /\ Len(seq) \in Nat /\ seq \in [1..Len(seq) -> Nat]
      /\ \A m \in 1..Len(seq) : seq[m] \in Nat
  BY LenProperties, ElementOfSeq
<1>2. IsFiniteSet(1..Len(seq)) /\ Cardinality(1..Len(seq)) = Len(seq)
  <2>1. 1 \in Int /\ Len(seq) \in Int /\ (IF 1 > Len(seq) THEN 0 ELSE Len(seq) - 1 + 1) = Len(seq)
    BY <1>1
  <2> QED BY <2>1, FS_Interval
<1>3. seq \in Bijection(1..Len(seq), R)
  <2>1. seq \in [1..Len(seq) -> R]
    BY <1>1
  <2>2. \A m, n \in 1..Len(seq) : seq[m] = seq[n] => m = n
    <3>1. \A m, n \in 1..Len(seq) : m = n \/ m < n \/ n < m
      BY <1>1
    <3>2. \A m, n \in 1..Len(seq) : m < n => seq[m] # seq[n]
      BY <1>1
    <3> QED BY <3>1, <3>2
  <2>3. \A r \in R : \E m \in 1..Len(seq) : seq[m] = r
    OBVIOUS
  <2> QED BY <2>1, <2>2, <2>3 DEF Bijection, Injection, Surjection, IsInjective
<1>4. ExistsBijection(1..Len(seq), R)
  BY <1>3 DEF ExistsBijection
<1> QED BY <1>2, <1>4, FS_Bijection

\* The variables that are taken stand in order and apart, and only for want of
\* places is one left out.
LEMMA ScanIs ==
  ASSUME NEW text, Len(text) \in Nat, NEW Here \in SUBSET (1..Len(text))
  PROVE  /\ Scan(text, Here) \in Seq(Nat) /\ Len(Scan(text, Here)) <= MAX_VARS_NUM
         /\ \A m \in 1..Len(Scan(text, Here)) : Scan(text, Here)[m] \in Here
         /\ Covers(text, Here, Scan(text, Here))
<1> DEFINE all == Opening(text, Here)
           l == Min2(Len(all), MAX_VARS_NUM)
           marks == Scan(text, Here)
<1>1. Marked(all, text, Here, 1)
  <2>1. Here \in SUBSET Nat
    OBVIOUS
  <2> QED BY <2>1, OpeningIs
<1>2. all \in Seq(Nat) /\ Len(all) \in Nat /\ \A m \in 1..Len(all) : all[m] \in Nat
  BY <1>1, LenProperties, ElementOfSeq DEF Marked
<1>3. MAX_VARS_NUM \in Nat
  BY TemplateLoadAssumption
<1>4. marks = SubSeq(all, 1, l)
  BY DEF Scan
<1> HIDE DEF all, marks
<1>5. l \in 0..Len(all) /\ l <= MAX_VARS_NUM /\ (l < Len(all) => l = MAX_VARS_NUM) /\ l \in Nat
  BY <1>2, <1>3 DEF Min2
<1> HIDE DEF l
<1>6. marks \in Seq(Nat) /\ Len(marks) = l /\ \A m \in 1..l : marks[m] = all[m]
  BY <1>2, <1>4, <1>5, FirstPart
<1>7. \A m \in 1..l : m \in 1..Len(all)
  BY <1>2, <1>5
<1>8. \A m, n \in 1..l : m < n => marks[m] + 1 < marks[n]
  BY <1>1, <1>6, <1>7 DEF Marked
<1>9. \A m \in 1..l : /\ marks[m] \in Here /\ marks[m] < Len(text) /\ marks[m] \in Nat
  BY <1>1, <1>2, <1>6, <1>7 DEF Marked
<1> DEFINE M == Range(marks)
<1>10. DOMAIN marks = 1..l /\ M = {marks[m] : m \in 1..l}
  BY <1>6, LenProperties DEF Range
<1> HIDE DEF M
<1>11. Len(marks) = Cardinality(M)
  <2>1. \A m, n \in 1..Len(marks) : m < n => marks[m] < marks[n]
    BY <1>6, <1>8, <1>9
  <2> QED BY <1>6, <1>10, <2>1, CountIncreasing
<1>12. \A m, n \in DOMAIN marks : m < n => marks[m] < marks[n]
  BY <1>8, <1>9, <1>10
<1>13. M \subseteq Here /\ \A k \in M : k < Len(text)
  BY <1>9, <1>10
<1>14. \A k \in M : k + 1 \notin M
  <2>1. \A m, n \in 1..l : marks[m] + 1 # marks[n]
    <3>1. \A m, n \in 1..l : m = n \/ m < n \/ n < m
      BY <1>5
    <3> QED BY <1>8, <1>9, <3>1
  <2> QED BY <1>10, <2>1
<1>15. ASSUME NEW k \in Here \ M, k # Len(text)
       PROVE  k - 1 \in M \/ (Len(marks) = MAX_VARS_NUM /\ \A m \in M : m < k)
  <2>1. k \in Nat /\ 1 <= k /\ k < Len(text)
    BY <1>15
  <2>2. PICK m \in 1..Len(all) : k = all[m] \/ k = all[m] + 1
    BY <1>1, <2>1 DEF Marked
  <2>3. all[m] \in Nat
    BY <1>2
  <2>4. CASE m \in 1..l
    <3>1. all[m] \in M
      BY <1>6, <1>10, <2>4
    <3> QED BY <1>15, <2>1, <2>2, <2>3, <3>1
  <2>5. CASE m \notin 1..l
    <3>1. l = MAX_VARS_NUM /\ \A n \in 1..l : n < m
      BY <1>2, <1>5, <2>5
    <3>2. \A n \in 1..l : all[n] + 1 < all[m]
      BY <1>1, <1>7, <3>1 DEF Marked
    <3>3. \A n \in 1..l : marks[n] < k
      <4>1. ASSUME NEW n \in 1..l PROVE marks[n] < k
        <5>1. marks[n] \in Nat /\ marks[n] + 1 < all[m]
          BY <1>6, <1>9, <3>2
        <5> QED BY <2>1, <2>2, <2>3, <5>1
      <4> QED BY <4>1
    <3> QED BY <1>6, <1>10, <3>1, <3>3
  <2> QED BY <2>4, <2>5
<1>16. Covers(text, Here, marks)
  BY <1>11, <1>12, <1>13, <1>14, <1>15 DEF Covers, M
<1> QED BY <1>5, <1>6, <1>9, <1>16 DEF marks

(***************************************************************************)
(* The lines of one kind, in a sequence of their names.                    *)
(***************************************************************************)
Upto(S, n) == {k \in S : k <= n}

\* Of what a file's lines say, seq holds the names of those in S up to n.
Lists(seq, S, n, file_lines) ==
  /\ Len(seq) = Cardinality(Upto(S, n))
  /\ \A l \in Upto(S, n) :
       /\ Cardinality(Upto(S, l)) \in 1..Len(seq)
       /\ seq[Cardinality(Upto(S, l))] = file_lines[l].name
  /\ \A t \in 1..Len(seq) : \E l \in Upto(S, n) : Cardinality(Upto(S, l)) = t

LEMMA UptoCounted ==
  ASSUME NEW S \in SUBSET Nat, NEW n \in Nat
  PROVE  IsFiniteSet(Upto(S, n)) /\ Cardinality(Upto(S, n)) \in Nat
<1>1. IsFiniteSet(0..n)
  BY FS_Interval
<1>2. Upto(S, n) \in SUBSET (0..n)
  <2>1. \A k \in S : k \in Nat
    OBVIOUS
  <2>2. \A k \in S : k <= n => k \in 0..n
    BY <2>1
  <2> QED BY <2>2 DEF Upto
<1> QED BY <1>1, <1>2, FS_Subset, FS_CardinalityType

LEMMA UptoGrows ==
  ASSUME NEW S \in SUBSET Nat, NEW n \in Nat
  PROVE  /\ n + 1 \in S => /\ Upto(S, n + 1) = Upto(S, n) \cup {n + 1}
                           /\ Cardinality(Upto(S, n + 1)) = Cardinality(Upto(S, n)) + 1
         /\ n + 1 \notin S => Upto(S, n + 1) = Upto(S, n)
<1>1. \A k \in S : k <= n + 1 <=> k <= n \/ k = n + 1
  OBVIOUS
<1>2. n + 1 \notin Upto(S, n)
  BY DEF Upto
<1>3. n + 1 \in S => Upto(S, n + 1) = Upto(S, n) \cup {n + 1}
  BY <1>1 DEF Upto
<1>4. IsFiniteSet(Upto(S, n))
  BY UptoCounted
<1>5. Cardinality(Upto(S, n) \cup {n + 1}) = Cardinality(Upto(S, n)) + 1
  BY <1>2, <1>4, FS_AddElement
<1>6. n + 1 \notin S => Upto(S, n + 1) = Upto(S, n)
  BY <1>1 DEF Upto
<1> QED BY <1>3, <1>5, <1>6

LEMMA UptoOrdered ==
  ASSUME NEW S \in SUBSET Nat, NEW l \in Nat, NEW m \in S
  PROVE  /\ l < m => Cardinality(Upto(S, l)) < Cardinality(Upto(S, m))
         /\ m <= l => Cardinality(Upto(S, m)) <= Cardinality(Upto(S, l))
<1>1. m \in Nat
  OBVIOUS
<1>2. /\ IsFiniteSet(Upto(S, l)) /\ Cardinality(Upto(S, l)) \in Nat
      /\ IsFiniteSet(Upto(S, m)) /\ Cardinality(Upto(S, m)) \in Nat
  BY <1>1, UptoCounted
<1>3. ASSUME l < m PROVE Cardinality(Upto(S, l)) < Cardinality(Upto(S, m))
  <2>1. Upto(S, l) \in SUBSET Upto(S, m)
    <3>1. \A k \in S : k \in Nat
      OBVIOUS
    <3>2. \A k \in S : k <= l => k <= m
      BY <1>1, <1>3, <3>1
    <3> QED BY <3>2 DEF Upto
  <2>2. m \in Upto(S, m) /\ m \notin Upto(S, l)
    BY <1>1, <1>3 DEF Upto
  <2>3. /\ Cardinality(Upto(S, l)) <= Cardinality(Upto(S, m))
        /\ Cardinality(Upto(S, l)) # Cardinality(Upto(S, m))
    BY <1>2, <2>1, <2>2, FS_Subset
  <2> QED BY <1>2, <2>3
<1>4. ASSUME m <= l PROVE Cardinality(Upto(S, m)) <= Cardinality(Upto(S, l))
  <2>1. Upto(S, m) \in SUBSET Upto(S, l)
    <3>1. \A k \in S : k \in Nat
      OBVIOUS
    <3>2. \A k \in S : k <= m => k <= l
      BY <1>1, <1>4, <3>1
    <3> QED BY <3>2 DEF Upto
  <2> QED BY <1>2, <2>1, FS_Subset
<1> QED BY <1>3, <1>4

LEMMA ListsNothing ==
  ASSUME NEW S \in SUBSET (Nat \ {0}), NEW ls
  PROVE  Lists(<<>>, S, 0, ls)
<1>1. Upto(S, 0) = {}
  <2>1. \A k \in S : k \in Nat /\ k # 0
    OBVIOUS
  <2>2. \A k \in S : ~(k <= 0)
    BY <2>1
  <2> QED BY <2>2 DEF Upto
<1>2. Cardinality({}) = 0 /\ Len(<<>>) = 0
  BY FS_EmptySet
<1>3. \A t \in 1..Len(<<>>) : FALSE
  BY <1>2
<1> QED BY <1>1, <1>2, <1>3 DEF Lists

LEMMA ListsOneMore ==
  ASSUME NEW S \in SUBSET Nat, NEW n \in Nat, n + 1 \in S, NEW ls,
         NEW X, NEW seq \in Seq(X), NEW name \in X, name = ls[n + 1].name,
         Lists(seq, S, n, ls)
  PROVE  Lists(Append(seq, name), S, n + 1, ls)
<1> DEFINE more == Append(seq, name)
           C(l) == Cardinality(Upto(S, l))
<1>1. /\ more \in Seq(X) /\ Len(more) = Len(seq) + 1 /\ Len(seq) \in Nat
      /\ \A t \in 1..Len(seq) : more[t] = seq[t]
      /\ more[Len(seq) + 1] = name
  BY AppendProperties, LenProperties
<1> HIDE DEF more
<1>2. Upto(S, n + 1) = Upto(S, n) \cup {n + 1} /\ C(n + 1) = C(n) + 1
  BY UptoGrows
<1>3. Len(seq) = C(n)
  BY DEF Lists
<1>4. \A l \in Upto(S, n) : C(l) \in 1..Len(seq) /\ seq[C(l)] = ls[l].name
  BY DEF Lists
<1>5. \A t \in 1..Len(seq) : \E l \in Upto(S, n) : C(l) = t
  BY DEF Lists
<1> HIDE DEF C
<1>6. \A t \in 1..Len(more) : t \in 1..Len(seq) \/ t = Len(seq) + 1
  BY <1>1
<1>7. \A t \in 1..Len(seq) : t \in 1..Len(more)
  BY <1>1
<1>8. ASSUME NEW l \in Upto(S, n + 1) PROVE C(l) \in 1..Len(more) /\ more[C(l)] = ls[l].name
  <2>1. CASE l \in Upto(S, n)
    BY <1>1, <1>4, <1>7, <2>1
  <2>2. CASE l = n + 1
    <3>1. C(l) = Len(seq) + 1
      BY <1>2, <1>3, <2>2
    <3> QED BY <1>1, <2>2, <3>1
  <2> QED BY <1>2, <2>1, <2>2
<1>9. ASSUME NEW t \in 1..Len(more) PROVE \E l \in Upto(S, n + 1) : C(l) = t
  <2>1. CASE t \in 1..Len(seq)
    BY <1>2, <1>5, <2>1
  <2>2. CASE t = Len(seq) + 1
    BY <1>2, <1>3, <2>2
  <2> QED BY <1>6, <2>1, <2>2
<1>10. Len(more) = C(n + 1)
  BY <1>1, <1>2, <1>3
<1> QED BY <1>8, <1>9, <1>10 DEF Lists, C, more

LEMMA ListsNoMore ==
  ASSUME NEW S \in SUBSET Nat, NEW n \in Nat, n + 1 \notin S, NEW ls, NEW seq,
         Lists(seq, S, n, ls)
  PROVE  Lists(seq, S, n + 1, ls)
<1>1. Upto(S, n + 1) = Upto(S, n)
  BY UptoGrows
<1> QED BY <1>1 DEF Lists

\* What is left of a file of which at lines are read.
IsRest(left, seq, at) ==
  /\ at \in 0..Len(seq) /\ left \in Seq(Range(seq)) /\ Len(left) = Len(seq) - at
  /\ \A k \in 1..Len(left) : left[k] = seq[at + k]

LEMMA RestAll ==
  ASSUME NEW X, NEW seq \in Seq(X)
  PROVE  IsRest(seq, seq, 0)
<1>1. Len(seq) \in Nat /\ DOMAIN seq = 1..Len(seq) /\ seq \in [1..Len(seq) -> X]
  BY LenProperties
<1>2. seq \in Seq(Range(seq))
  <2>1. seq \in [1..Len(seq) -> Range(seq)]
    BY <1>1 DEF Range
  <2> QED BY <1>1, <2>1
<1>3. \A k \in 1..Len(seq) : 0 + k = k
  OBVIOUS
<1> QED BY <1>1, <1>2, <1>3 DEF IsRest

LEMMA RestStep ==
  ASSUME NEW X, NEW seq \in Seq(X), NEW at, NEW left, IsRest(left, seq, at)
  PROVE  /\ at \in Nat
         /\ left = <<>> => at = Len(seq)
         /\ left # <<>> => /\ at + 1 \in 1..Len(seq)
                           /\ Head(left) = seq[at + 1] /\ Head(left) \in X
                           /\ IsRest(Tail(left), seq, at + 1)
<1>1. Len(seq) \in Nat /\ at \in Nat /\ at <= Len(seq)
  BY LenProperties DEF IsRest
<1>2. left \in Seq(Range(seq)) /\ \A k \in 1..Len(left) : left[k] = seq[at + k]
  BY DEF IsRest
<1>5. Len(left) \in Nat /\ Len(left) = Len(seq) - at
  BY <1>2, LenProperties DEF IsRest
<1>3. left = <<>> => at = Len(seq)
  <2>1. left = <<>> => Len(left) = 0
    BY EmptySeq
  <2> QED BY <1>1, <1>5, <2>1
<1>4. ASSUME left # <<>>
      PROVE  /\ at + 1 \in 1..Len(seq) /\ Head(left) = seq[at + 1] /\ Head(left) \in X
             /\ IsRest(Tail(left), seq, at + 1)
  <2>1. Len(left) \in Nat \ {0}
    BY <1>2, <1>4, EmptySeq
  <2>2. /\ Tail(left) \in Seq(Range(seq)) /\ Len(Tail(left)) = Len(left) - 1
        /\ \A k \in 1..Len(Tail(left)) : Tail(left)[k] = left[k + 1]
    BY <1>2, <1>4, HeadTailProperties
  <2>3. Head(left) = left[1]
    BY <1>2, <1>4
  <2>4. at + 1 \in 1..Len(seq) /\ 1 \in 1..Len(left) /\ at + 1 \in 0..Len(seq)
    BY <1>1, <1>5, <2>1
  <2>5. Head(left) = seq[at + 1]
    BY <1>2, <2>3, <2>4
  <2>6. seq[at + 1] \in X
    BY <2>4, ElementOfSeq
  <2>0. Len(Tail(left)) = Len(left) - 1
    BY <2>2
  <2>7. \A k \in 1..Len(Tail(left)) : k + 1 \in 1..Len(left) /\ at + (k + 1) = at + 1 + k
    BY <1>1, <2>0, <2>1
  <2>8. \A k \in 1..Len(Tail(left)) : Tail(left)[k] = seq[at + 1 + k]
    BY <1>2, <2>2, <2>7
  <2>9. Len(Tail(left)) = Len(seq) - (at + 1)
    BY <1>1, <1>5, <2>0
  <2> QED BY <2>2, <2>4, <2>5, <2>6, <2>8, <2>9 DEF IsRest
<1> QED BY <1>1, <1>3, <1>4

\* The place SelectInSeq gives, of those it finds: the first, 0 if there is none.
LEMMA FirstPlace ==
  ASSUME NEW n \in Nat, NEW I \in SUBSET (1..n), NEW place,
         place = IF I # {} THEN Min(I) ELSE 0
  PROVE  /\ place \in 0..n
         /\ I = {} <=> place = 0
         /\ place # 0 => place \in I /\ \A t \in I : place <= t
<1>1. I \in SUBSET Nat /\ 0 \notin I /\ 0 \in 0..n
  OBVIOUS
<1>2. CASE I = {}
  BY <1>1, <1>2
<1>3. CASE I # {}
  <2>1. \E k \in I : \A j \in I : k <= j
    BY <1>1, <1>3, LeastOf
  <2>2. Min(I) \in I /\ \A j \in I : Min(I) <= j
    BY <2>1 DEF Min
  <2>3. place \in I /\ \A j \in I : place <= j
    BY <1>3, <2>2
  <2> QED BY <1>1, <1>3, <2>3
<1> QED BY <1>2, <1>3

(***************************************************************************)
(* What is in memory at each step of template_load.                        *)
(***************************************************************************)
Words == STRING \cup {"none"}
Variables == [at : Nat, name : Words, row : Nat]
Templates ==
  [page : Seq(Nat), none : Seq(Nat), error : Seq(Nat), res : Seq(Variables),
   digest : {0, 2}, overwritten : BOOLEAN]

FilesKnown == files \in Files /\ enable_digest = FALSE

MemoryTyped ==
  /\ table \in Seq(STRING) /\ Len(table) <= MAX_VARS_NUM
  /\ tn \in Seq(DOMAIN files.disk) /\ Len(tn) <= MAX_TEMPLATE_NUM
  /\ tn_num = (IF state = "loaded" THEN Len(tn) ELSE 0)
  /\ i \in 1..(Len(tn) + 1)
  /\ state \in Steps \cup {"loaded", "failed"}
  /\ tpl \in [1..MAX_TEMPLATE_NUM -> Templates]
  /\ \A t \in 1..MAX_TEMPLATE_NUM :
       /\ Len(tpl[t].page) <= MAX_VARS_NUM /\ Len(tpl[t].none) <= MAX_VARS_NUM
       /\ Len(tpl[t].error) <= MAX_VARS_NUM

\* Of template_table.conf, at lines are read, and they were in order.
TableRead(at) ==
  /\ at \in 0..Len(files.table) /\ Lists(table, Rows, at, files.table)
  /\ Len(table) < MAX_VARS_NUM
  /\ \A l \in 1..at : files.table[l].kind \notin {"broken", "missing"}
  /\ \A r \in Upto(Rows, at) : Valid(files.table[r])
TableDone == TableRead(Len(files.table))

\* The same of template.conf, of which the rest may stay unread.
NamesRead(at) ==
  /\ at \in 0..Len(files.list) /\ Lists(tn, Names, at, files.list)
  /\ \A l \in 1..at : files.list[l].kind # "missing"
NamesDone == \E at : NamesRead(at) /\ (at = Len(files.list) \/ Len(tn) = MAX_TEMPLATE_NUM)

ReadSoFar ==
  /\ state \in {"table", "names"} => i = 1
  /\ state = "table" => tn = <<>> /\ \E at : IsRest(rest, files.table, at) /\ TableRead(at)
  /\ state = "names" => /\ TableDone /\ Len(tn) < MAX_TEMPLATE_NUM
                        /\ \E at : IsRest(rest, files.list, at) /\ NamesRead(at)
  /\ state \notin {"table", "names", "failed"} => TableDone /\ NamesDone

\* A text of template t is loaded.
TextLoaded(t, p) ==
  /\ Dir(t)[p].ok
  /\ tpl[t][p] = Scan(Dir(t)[p].text, UiOpenings(Dir(t)[p].text))
ResLoaded(t) ==
  LET f   == Dir(t).res
      got == Scan(f.text, ResOpenings(f.text))
  IN  /\ f.ok /\ Len(tpl[t].res) = Len(got)
      /\ \A v \in 1..Len(got) : /\ tpl[t].res[v].at = got[v]
                                /\ tpl[t].res[v].name = ResName(f.text, got[v])
TextsLoaded(t) ==
  TextLoaded(t, "page") /\ TextLoaded(t, "none") /\ TextLoaded(t, "error") /\ ResLoaded(t)
RowsFound(t) ==
  \A v \in 1..Len(tpl[t].res) : /\ tpl[t].res[v].row # 0
                                /\ tpl[t].res[v].row = RowOf(tpl[t].res[v].name)

Loading ==
  /\ \A t \in 1..(i - 1) : TextsLoaded(t) /\ RowsFound(t)
  /\ state \in {"page", "none", "error", "res", "config", "methods"} => i <= Len(tn)
  /\ state \in {"none", "error", "res"} => TextLoaded(i, "page")
  /\ state \in {"error", "res"} => TextLoaded(i, "none")
  /\ state = "res" => TextLoaded(i, "error")
  /\ state \in {"config", "methods"} => TextsLoaded(i)
  /\ state = "loaded" => i = Len(tn) + 1

TemplatesInvariant ==
  FilesKnown /\ MemoryTyped /\ ReadSoFar /\ Loading /\ (state = "failed" => BadTemplates)

LEMMA FilesWell ==
  ASSUME files \in Files
  PROVE  /\ files.table \in Seq(TableLines) /\ files.list \in Seq(ListLines(DOMAIN files.disk))
         /\ files.disk \in [DOMAIN files.disk -> Directories]
         /\ \A l \in 1..Len(files.table) : files.table[l].kind = "missing" => Len(files.table) = 1
         /\ \A l \in 1..Len(files.list) : files.list[l].kind = "missing" => Len(files.list) = 1
         /\ Len(files.table) \in Nat /\ DOMAIN files.table = 1..Len(files.table)
         /\ Len(files.list) \in Nat /\ DOMAIN files.list = 1..Len(files.list)
         /\ Rows \in SUBSET (1..Len(files.table)) /\ Rows \in SUBSET (Nat \ {0})
         /\ Names \in SUBSET (1..Len(files.list)) /\ Names \in SUBSET (Nat \ {0})
<1>1. WellFormed(files)
  BY TemplateLoadAssumption
<1>2. /\ files.table \in Seq(TableLines) /\ files.list \in Seq(ListLines(DOMAIN files.disk))
      /\ files.disk \in [DOMAIN files.disk -> Directories]
  BY <1>1 DEF WellFormed
<1>3. /\ Len(files.table) \in Nat /\ DOMAIN files.table = 1..Len(files.table)
      /\ Len(files.list) \in Nat /\ DOMAIN files.list = 1..Len(files.list)
  BY <1>2, LenProperties
<1>4. /\ \A l \in DOMAIN files.table : files.table[l].kind = "missing" => Len(files.table) = 1
      /\ \A l \in DOMAIN files.list : files.list[l].kind = "missing" => Len(files.list) = 1
  BY <1>1 DEF WellFormed
<1>5. /\ Rows \in SUBSET (1..Len(files.table)) /\ Names \in SUBSET (1..Len(files.list))
  BY <1>3 DEF Rows, Names
<1>6. \A n \in Nat : 1..n \in SUBSET (Nat \ {0})
  OBVIOUS
<1>7. /\ Rows \in SUBSET (Nat \ {0}) /\ Names \in SUBSET (Nat \ {0})
  BY <1>3, <1>5, <1>6
<1> QED BY <1>2, <1>3, <1>4, <1>5, <1>7

LEMMA Limits == /\ MAX_VARS_NUM \in Nat \ {0} /\ MAX_RES_VARS_NUM \in Nat \ {0}
                /\ MAX_TEMPLATE_NUM \in Nat \ {0}
BY TemplateLoadAssumption

LEMMA TemplatesInitially == TemplatesInit => TemplatesInvariant
<1>1. SUFFICES ASSUME TemplatesInit PROVE TemplatesInvariant
  OBVIOUS
<1>2. /\ files \in Files /\ enable_digest = FALSE /\ rest = files.table /\ state = "table"
      /\ table = <<>> /\ tn = <<>> /\ tn_num = 0 /\ i = 1
      /\ tpl = [t \in 1..MAX_TEMPLATE_NUM |-> Blank]
  BY <1>1 DEF TemplatesInit
<1>3. <<>> \in Seq(STRING) /\ <<>> \in Seq(DOMAIN files.disk) /\ Len(<<>>) = 0
  BY EmptySeq
<1>4. Blank \in Templates /\ Blank.page = <<>> /\ Blank.none = <<>> /\ Blank.error = <<>>
  <2>1. <<>> \in Seq(Nat) /\ <<>> \in Seq(Variables)
    BY EmptySeq
  <2> QED BY <2>1 DEF Blank, Templates
<1>5. FilesKnown
  BY <1>2 DEF FilesKnown
<1>6. MemoryTyped
  <2>1. tpl \in [1..MAX_TEMPLATE_NUM -> Templates] /\ \A t \in 1..MAX_TEMPLATE_NUM : tpl[t] = Blank
    BY <1>2, <1>4
  <2>2. \A t \in 1..MAX_TEMPLATE_NUM :
       /\ Len(tpl[t].page) <= MAX_VARS_NUM /\ Len(tpl[t].none) <= MAX_VARS_NUM
       /\ Len(tpl[t].error) <= MAX_VARS_NUM
    BY <1>3, <1>4, <2>1, Limits
  <2> QED BY <1>2, <1>3, <2>1, <2>2, Limits DEF MemoryTyped, Steps
<1>7. ReadSoFar
  <2>1. IsRest(rest, files.table, 0)
    BY <1>2, FilesWell, RestAll
  <2>2. TableRead(0)
    <3>1. Lists(table, Rows, 0, files.table)
      BY <1>2, FilesWell, ListsNothing
    <3>2. Upto(Rows, 0) = {}
      <4>1. \A r \in Rows : r \in Nat /\ r # 0
        BY <1>2, FilesWell
      <4>2. \A r \in Rows : ~(r <= 0)
        BY <4>1
      <4> QED BY <4>2 DEF Upto
    <3>3. 0 \in 0..Len(files.table)
      BY <1>2, FilesWell
    <3>4. \A l \in 1..0 : FALSE
      OBVIOUS
    <3> QED BY <1>2, <1>3, <3>1, <3>2, <3>3, <3>4, Limits DEF TableRead
  <2> QED BY <1>2, <2>1, <2>2 DEF ReadSoFar
<1>8. Loading
  <2>1. \A t \in 1..(i - 1) : FALSE
    BY <1>2
  <2> QED BY <1>2, <2>1 DEF Loading
<1> QED BY <1>2, <1>5, <1>6, <1>7, <1>8 DEF TemplatesInvariant

(***************************************************************************)
(* The steps that read template_table.conf and template.conf.              *)
(***************************************************************************)
LEMMA SameFiles ==
  ASSUME files' = files
  PROVE  /\ Rows' = Rows /\ Names' = Names /\ RowNames' = RowNames /\ Listed' = Listed
         /\ BadTemplates' = BadTemplates
<1>1. Rows' = Rows /\ Names' = Names
  BY DEF Rows, Names
<1>2. RowNames' = RowNames
  BY <1>1 DEF RowNames
<1>3. \A l : Position(l)' = Position(l)
  BY <1>1 DEF Position
<1>4. Listed' = Listed
  BY <1>1, <1>3 DEF Listed
<1>5. BadTemplates' = BadTemplates
  BY <1>1, <1>2, <1>4 DEF BadTemplates, Valid
<1> QED BY <1>1, <1>2, <1>4, <1>5

LEMMA TableReadStays ==
  ASSUME UNCHANGED <<files, table>>, NEW at, TableRead(at)
  PROVE  TableRead(at)'
<1>1. Rows' = Rows
  BY SameFiles
<1>2. Lists(table, Rows, at, files.table)'
  BY <1>1 DEF TableRead, Lists, Upto
<1>3. \A r \in Upto(Rows, at)' : Valid(files.table[r])'
  BY <1>1 DEF TableRead, Upto, Valid
<1> QED BY <1>2, <1>3 DEF TableRead

LEMMA NamesReadStays ==
  ASSUME UNCHANGED <<files, tn>>, NEW at, NamesRead(at)
  PROVE  NamesRead(at)'
<1>1. Names' = Names
  BY SameFiles
<1>2. Lists(tn, Names, at, files.list)'
  BY <1>1 DEF NamesRead, Lists, Upto
<1> QED BY <1>2 DEF NamesRead

LEMMA DoneStays ==
  ASSUME UNCHANGED <<files, table>>
  PROVE  /\ TableDone => TableDone'
         /\ NamesDone /\ UNCHANGED tn => NamesDone'
<1>1. TableDone => TableDone'
  BY TableReadStays DEF TableDone
<1>2. ASSUME NamesDone, UNCHANGED tn PROVE NamesDone'
  <2>1. PICK at : NamesRead(at) /\ (at = Len(files.list) \/ Len(tn) = MAX_TEMPLATE_NUM)
    BY <1>2 DEF NamesDone
  <2>2. NamesRead(at)'
    BY <1>2, <2>1, NamesReadStays
  <2> QED BY <1>2, <2>1, <2>2 DEF NamesDone
<1> QED BY <1>1, <1>2

LEMMA NothingLoaded ==
  ASSUME i' = 1, state' \in {"table", "names", "page", "loaded", "failed"}, Len(tn') \in Nat,
         state' = "page" => Len(tn') # 0, state' = "loaded" => Len(tn') = 0
  PROVE  Loading'
<1>1. \A t \in 1..(i' - 1) : FALSE
  OBVIOUS
<1>2. (\A t \in 1..(i - 1) : TextsLoaded(t) /\ RowsFound(t))'
  BY <1>1
<1>3. (state \in {"page", "none", "error", "res", "config", "methods"} => i <= Len(tn))'
  OBVIOUS
<1>4. (state = "loaded" => i = Len(tn) + 1)'
  OBVIOUS
<1> QED BY <1>2, <1>3, <1>4 DEF Loading

\* One more line of template_table.conf, which is no row.
LEMMA TableLinePassed ==
  ASSUME FilesKnown, UNCHANGED <<files, table>>, NEW at \in Nat, TableRead(at),
         at + 1 \in 1..Len(files.table), at + 1 \notin Rows,
         files.table[at + 1].kind \notin {"broken", "missing"}
  PROVE  TableRead(at + 1)'
<1>1. Rows \in SUBSET Nat /\ Len(files.table) \in Nat
  BY FilesWell DEF FilesKnown
<1>2. Lists(table, Rows, at + 1, files.table)
  BY <1>1, ListsNoMore DEF TableRead
<1>3. Upto(Rows, at + 1) = Upto(Rows, at)
  BY <1>1, UptoGrows
<1>4. \A l \in 1..(at + 1) : l \in 1..at \/ l = at + 1
  OBVIOUS
<1>5. \A l \in 1..(at + 1) : files.table[l].kind \notin {"broken", "missing"}
  BY <1>4 DEF TableRead
<1>6. at + 1 \in 0..Len(files.table)
  BY <1>1
<1>7. TableRead(at + 1)
  BY <1>2, <1>3, <1>5, <1>6 DEF TableRead
<1> QED BY <1>7, TableReadStays

LEMMA NameLinePassed ==
  ASSUME FilesKnown, UNCHANGED <<files, tn>>, NEW at \in Nat, NamesRead(at),
         at + 1 \in 1..Len(files.list), files.list[at + 1].kind \notin {"name", "missing"}
  PROVE  NamesRead(at + 1)'
<1>1. Names \in SUBSET Nat /\ Len(files.list) \in Nat /\ at + 1 \notin Names
  BY FilesWell DEF FilesKnown, Names
<1>2. Lists(tn, Names, at + 1, files.list)
  BY <1>1, ListsNoMore DEF NamesRead
<1>3. \A l \in 1..(at + 1) : l \in 1..at \/ l = at + 1
  OBVIOUS
<1>4. \A l \in 1..(at + 1) : files.list[l].kind # "missing"
  BY <1>3 DEF NamesRead
<1>5. at + 1 \in 0..Len(files.list)
  BY <1>1
<1>6. NamesRead(at + 1)
  BY <1>2, <1>4, <1>5 DEF NamesRead
<1> QED BY <1>6, NamesReadStays

\* Nothing but the state and the rest of the file changes.
LEMMA MemoryStays ==
  ASSUME MemoryTyped, UNCHANGED <<files, table, tn, tn_num, tpl, i>>,
         state' \in Steps \cup {"failed"}, state # "loaded"
  PROVE  MemoryTyped'
<1>1. state' # "loaded"
  BY DEF Steps
<1>2. UNCHANGED files.disk
  OBVIOUS
<1> QED BY <1>1, <1>2 DEF MemoryTyped

LEMMA CommentStep == TemplatesInvariant /\ Comment => TemplatesInvariant'
<1>1. SUFFICES ASSUME TemplatesInvariant, Comment PROVE TemplatesInvariant'
  OBVIOUS
<1>2. FilesKnown /\ MemoryTyped /\ ReadSoFar /\ Loading
  BY <1>1 DEF TemplatesInvariant
<1>3. /\ state \in {"table", "names"} /\ rest # <<>> /\ Head(rest).kind = "comment"
      /\ rest' = Tail(rest)
      /\ UNCHANGED <<files, enable_digest, table, tn, tn_num, tpl, i, state>>
  BY <1>1 DEF Comment, inputs
<1>4. FilesKnown'
  BY <1>2, <1>3 DEF FilesKnown
<1>5. MemoryTyped'
  <2>1. state' \in Steps /\ state # "loaded"
    BY <1>3 DEF Steps
  <2> QED BY <1>2, <1>3, <2>1, MemoryStays
<1>6. ReadSoFar'
  <2>1. CASE state = "table"
    <3>1. PICK at : IsRest(rest, files.table, at) /\ TableRead(at)
      BY <1>2, <2>1 DEF ReadSoFar
    <3>2. /\ at \in Nat /\ at + 1 \in 1..Len(files.table) /\ Head(rest) = files.table[at + 1]
          /\ IsRest(Tail(rest), files.table, at + 1)
      BY <1>2, <1>3, <3>1, RestStep, FilesWell DEF FilesKnown
    <3>3. files.table[at + 1].kind = "comment"
      BY <1>3, <3>2
    <3>4. at + 1 \notin Rows
      BY <3>3 DEF Rows
    <3>5. TableRead(at + 1)'
      BY <1>2, <1>3, <3>1, <3>2, <3>3, <3>4, TableLinePassed
    <3>6. IsRest(rest, files.table, at + 1)'
      BY <1>3, <3>2 DEF IsRest
    <3> QED BY <1>2, <1>3, <2>1, <3>5, <3>6 DEF ReadSoFar
  <2>2. CASE state = "names"
    <3>1. PICK at : IsRest(rest, files.list, at) /\ NamesRead(at)
      BY <1>2, <2>2 DEF ReadSoFar
    <3>2. /\ at \in Nat /\ at + 1 \in 1..Len(files.list) /\ Head(rest) = files.list[at + 1]
          /\ IsRest(Tail(rest), files.list, at + 1)
      BY <1>2, <1>3, <3>1, RestStep, FilesWell DEF FilesKnown
    <3>3. files.list[at + 1].kind = "comment"
      BY <1>3, <3>2
    <3>4. NamesRead(at + 1)'
      BY <1>2, <1>3, <3>1, <3>2, <3>3, NameLinePassed
    <3>5. IsRest(rest, files.list, at + 1)'
      BY <1>3, <3>2 DEF IsRest
    <3>6. TableDone'
      BY <1>2, <1>3, <2>2, DoneStays DEF ReadSoFar
    <3> QED BY <1>2, <1>3, <2>2, <3>4, <3>5, <3>6 DEF ReadSoFar
  <2> QED BY <1>3, <2>1, <2>2
<1>7. Loading'
  <2>1. i' = 1 /\ Len(tn') \in Nat
    BY <1>2, <1>3, LenProperties DEF ReadSoFar, MemoryTyped
  <2> QED BY <1>3, <2>1, NothingLoaded
<1>8. state' # "failed"
  BY <1>3
<1> QED BY <1>4, <1>5, <1>6, <1>7, <1>8 DEF TemplatesInvariant

LEMMA UnreadableStep == TemplatesInvariant /\ Unreadable => TemplatesInvariant'
<1>1. SUFFICES ASSUME TemplatesInvariant, Unreadable PROVE TemplatesInvariant'
  OBVIOUS
<1>2. FilesKnown /\ MemoryTyped /\ ReadSoFar /\ Loading
  BY <1>1 DEF TemplatesInvariant
<1>3. /\ state \in {"table", "names"} /\ rest # <<>> /\ Head(rest).kind = "missing"
      /\ state' = "failed"
      /\ UNCHANGED <<files, enable_digest, rest, table, tn, tn_num, tpl, i>>
  BY <1>1 DEF Unreadable, inputs
<1>4. FilesKnown'
  BY <1>2, <1>3 DEF FilesKnown
<1>5. MemoryTyped'
  <2>1. state # "loaded"
    BY <1>3
  <2> QED BY <1>2, <1>3, <2>1, MemoryStays
<1>6. ReadSoFar'
  BY <1>3 DEF ReadSoFar
<1>7. Loading'
  <2>1. i' = 1 /\ Len(tn') \in Nat
    BY <1>2, <1>3, LenProperties DEF ReadSoFar, MemoryTyped
  <2> QED BY <1>3, <2>1, NothingLoaded
<1>8. BadTemplates'
  <2>1. CASE state = "table"
    <3>1. PICK at : IsRest(rest, files.table, at)
      BY <1>2, <2>1 DEF ReadSoFar
    <3>0. files.table \in Seq(TableLines) /\ DOMAIN files.table = 1..Len(files.table)
      BY <1>2, FilesWell DEF FilesKnown
    <3>2. /\ at + 1 \in 1..Len(files.table) /\ Head(rest) = files.table[at + 1]
          /\ IsRest(Tail(rest), files.table, at + 1)
      <4>1. rest # <<>> /\ files.table \in Seq(TableLines)
        BY <1>3, <3>0
      <4> QED BY <3>1, <4>1, RestStep
    <3>3. files'.table[at + 1].kind = "missing" /\ at + 1 \in DOMAIN files'.table
      BY <1>3, <3>0, <3>2
    <3> QED BY <3>3 DEF BadTemplates
  <2>2. CASE state = "names"
    <3>1. PICK at : IsRest(rest, files.list, at)
      BY <1>2, <2>2 DEF ReadSoFar
    <3>0. files.list \in Seq(ListLines(DOMAIN files.disk)) /\ DOMAIN files.list = 1..Len(files.list)
      BY <1>2, FilesWell DEF FilesKnown
    <3>2. /\ at + 1 \in 1..Len(files.list) /\ Head(rest) = files.list[at + 1]
          /\ IsRest(Tail(rest), files.list, at + 1)
      <4>1. rest # <<>> /\ files.list \in Seq(ListLines(DOMAIN files.disk))
        BY <1>3, <3>0
      <4> QED BY <3>1, <4>1, RestStep
    <3>3. files'.list[at + 1].kind = "missing" /\ at + 1 \in DOMAIN files'.list
      BY <1>3, <3>0, <3>2
    <3> QED BY <3>3 DEF BadTemplates
  <2> QED BY <1>3, <2>1, <2>2
<1> QED BY <1>4, <1>5, <1>6, <1>7, <1>8 DEF TemplatesInvariant

\* One more row, of which the name is taken.
LEMMA RowTaken ==
  ASSUME FilesKnown, UNCHANGED files, table \in Seq(STRING), NEW at \in Nat, TableRead(at),
         at + 1 \in Rows, Valid(files.table[at + 1]),
         table' = Append(table, files.table[at + 1].name), ~TableFull
  PROVE  TableRead(at + 1)'
<1>1. /\ Rows \in SUBSET Nat /\ Len(files.table) \in Nat
      /\ at + 1 \in 1..Len(files.table) /\ files.table \in Seq(TableLines)
  BY FilesWell DEF FilesKnown
<1>2. files.table[at + 1] \in TableLines /\ files.table[at + 1].kind = "row"
  BY <1>1, ElementOfSeq DEF Rows
<1>3. files.table[at + 1].name \in STRING
  BY <1>2 DEF TableLines
<1>4. Lists(table', Rows, at + 1, files.table)
  BY <1>1, <1>3, ListsOneMore DEF TableRead
<1>5. Len(table') < MAX_VARS_NUM
  <2>1. Len(table') = Len(table) + 1 /\ Len(table) \in Nat
    BY <1>3, AppendProperties, LenProperties
  <2>2. Len(table) < MAX_VARS_NUM /\ Len(table) + 1 # MAX_VARS_NUM
    BY DEF TableRead, TableFull
  <2> QED BY <2>1, <2>2, Limits
<1>6. Upto(Rows, at + 1) = Upto(Rows, at) \cup {at + 1}
  BY <1>1, UptoGrows
<1>7. \A l \in 1..(at + 1) : l \in 1..at \/ l = at + 1
  OBVIOUS
<1>8. \A l \in 1..(at + 1) : files.table[l].kind \notin {"broken", "missing"}
  BY <1>2, <1>7 DEF TableRead
<1>9. \A r \in Upto(Rows, at + 1) : Valid(files.table[r])
  BY <1>6 DEF TableRead
<1>10. at + 1 \in 0..Len(files.table)
  BY <1>1
<1>11. Rows' = Rows
  BY SameFiles
<1>12. (\A r \in Upto(Rows, at + 1) : Valid(files.table[r]))'
  BY <1>9, <1>11 DEF Upto, Valid
<1>13. Lists(table, Rows, at + 1, files.table)'
  BY <1>4, <1>11 DEF Lists, Upto
<1> QED BY <1>5, <1>8, <1>10, <1>12, <1>13 DEF TableRead

LEMMA TableLineStep == TemplatesInvariant /\ TableLine => TemplatesInvariant'
<1>1. SUFFICES ASSUME TemplatesInvariant, TableLine PROVE TemplatesInvariant'
  OBVIOUS
<1>2. FilesKnown /\ MemoryTyped /\ ReadSoFar /\ Loading
  BY <1>1 DEF TemplatesInvariant
<1> DEFINE row == Head(rest)
<1>3. /\ state = "table" /\ rest # <<>> /\ row.kind \in {"row", "broken"} /\ rest' = Tail(rest)
      /\ IF row.kind = "broken" THEN state' = "failed" /\ UNCHANGED table
         ELSE IF ~row.digit THEN UNCHANGED <<state, table>>
         ELSE IF ~Valid(row) THEN state' = "failed" /\ UNCHANGED table
         ELSE /\ table' = Append(table, row.name)
              /\ state' = IF TableFull THEN "failed" ELSE state
      /\ UNCHANGED <<files, enable_digest, tn, tn_num, tpl, i>>
  BY <1>1 DEF TableLine, inputs
<1>4. PICK at : IsRest(rest, files.table, at) /\ TableRead(at)
  BY <1>2, <1>3 DEF ReadSoFar
<1>5. /\ files.table \in Seq(TableLines) /\ Len(files.table) \in Nat /\ Rows \in SUBSET Nat
      /\ DOMAIN files.table = 1..Len(files.table)
  BY <1>2, FilesWell DEF FilesKnown
<1>6. /\ at \in Nat /\ at + 1 \in 1..Len(files.table) /\ row = files.table[at + 1]
      /\ row \in TableLines /\ IsRest(Tail(rest), files.table, at + 1)
  BY <1>3, <1>4, <1>5, RestStep
<1>7. row.kind = "row" => row.name \in STRING /\ row.digit \in BOOLEAN
  BY <1>6 DEF TableLines
<1> HIDE DEF row
<1>8. tn = <<>> /\ i = 1 /\ tn' = <<>> /\ i' = 1 /\ Len(tn') = 0
  BY <1>2, <1>3, EmptySeq DEF ReadSoFar
<1>9. FilesKnown'
  BY <1>2, <1>3 DEF FilesKnown
<1>10. state' \in {"table", "failed"}
  BY <1>3
<1>11. table' \in Seq(STRING) /\ Len(table') <= MAX_VARS_NUM
  <2>1. table \in Seq(STRING) /\ Len(table) \in Nat /\ Len(table) < MAX_VARS_NUM
    BY <1>2, <1>4, LenProperties DEF MemoryTyped, TableRead
  <2>2. CASE table' = table
    BY <2>1, <2>2, Limits
  <2>3. CASE row.kind = "row" /\ table' = Append(table, row.name)
    <3>1. table' \in Seq(STRING) /\ Len(table') = Len(table) + 1
      BY <1>7, <2>1, <2>3, AppendProperties
    <3> QED BY <2>1, <3>1, Limits
  <2> QED BY <1>3, <2>2, <2>3
<1>12. MemoryTyped'
  BY <1>2, <1>3, <1>10, <1>11 DEF MemoryTyped, Steps
<1>13. Loading'
  BY <1>8, <1>10, NothingLoaded
<1>14. ReadSoFar'
  <2>1. SUFFICES ASSUME state' = "table" PROVE TableRead(at + 1)'
    <3>1. IsRest(rest, files.table, at + 1)'
      BY <1>3, <1>6 DEF IsRest
    <3> QED BY <1>8, <1>10, <2>1, <3>1 DEF ReadSoFar
  <2>2. row.kind = "row"
    BY <1>3, <2>1
  <2>3. CASE ~row.digit
    <3>1. UNCHANGED <<files, table>>
      BY <1>3, <2>2, <2>3
    <3>2. at + 1 \notin Rows
      BY <1>6, <2>3 DEF Rows
    <3> QED BY <1>2, <1>4, <1>6, <2>2, <3>1, <3>2, TableLinePassed
  <2>4. CASE row.digit
    <3>1. at + 1 \in Rows
      BY <1>5, <1>6, <2>2, <2>4 DEF Rows
    <3>2. Valid(row) /\ table' = Append(table, row.name) /\ ~TableFull
      BY <1>3, <2>1, <2>2, <2>4
    <3>3. table \in Seq(STRING)
      BY <1>2 DEF MemoryTyped
    <3> QED BY <1>2, <1>3, <1>4, <1>6, <3>1, <3>2, <3>3, RowTaken
  <2> QED BY <2>3, <2>4
<1>15. ASSUME state' = "failed" PROVE BadTemplates'
  <2>1. BadTemplates
    <3>1. CASE row.kind = "broken"
      BY <1>5, <1>6, <3>1 DEF BadTemplates
    <3>2. CASE row.kind = "row" /\ row.digit /\ ~Valid(row)
      <4>1. at + 1 \in Rows
        BY <1>5, <1>6, <3>2 DEF Rows
      <4> QED BY <1>6, <3>2, <4>1 DEF BadTemplates
    <3>3. CASE row.kind = "row" /\ row.digit /\ TableFull
      <4>1. at + 1 \in Rows
        BY <1>5, <1>6, <3>3 DEF Rows
      <4>2. Cardinality(Upto(Rows, at + 1)) = Len(table) + 1
        <5>1. Len(table) = Cardinality(Upto(Rows, at))
          BY <1>4 DEF TableRead, Lists
        <5>2. Cardinality(Upto(Rows, at + 1)) = Cardinality(Upto(Rows, at)) + 1
          BY <1>5, <1>6, <4>1, UptoGrows
        <5> QED BY <5>1, <5>2
      <4>3. Upto(Rows, at + 1) \in SUBSET Rows /\ IsFiniteSet(Rows)
        <5>1. IsFiniteSet(1..Len(files.table)) /\ Rows \in SUBSET (1..Len(files.table))
          BY <1>2, <1>5, FS_Interval, FilesWell DEF FilesKnown
        <5>2. IsFiniteSet(Rows)
          BY <5>1, FS_Subset
        <5> QED BY <5>2 DEF Upto
      <4>4. Cardinality(Upto(Rows, at + 1)) <= Cardinality(Rows) /\ Cardinality(Rows) \in Nat
        BY <4>3, FS_Subset, FS_CardinalityType
      <4>5. Cardinality(Rows) >= MAX_VARS_NUM
        BY <3>3, <4>2, <4>4, Limits DEF TableFull
      <4> QED BY <4>5 DEF BadTemplates
    <3> QED BY <1>3, <1>15, <3>1, <3>2, <3>3
  <2> QED BY <1>3, <2>1, SameFiles
<1> QED BY <1>9, <1>12, <1>13, <1>14, <1>15 DEF TemplatesInvariant

LEMMA EndOfTableStep == TemplatesInvariant /\ EndOfTable => TemplatesInvariant'
<1>1. SUFFICES ASSUME TemplatesInvariant, EndOfTable PROVE TemplatesInvariant'
  OBVIOUS
<1>2. FilesKnown /\ MemoryTyped /\ ReadSoFar /\ Loading
  BY <1>1 DEF TemplatesInvariant
<1>3. /\ state = "table" /\ rest = <<>> /\ state' = "names" /\ rest' = files.list
      /\ UNCHANGED <<files, enable_digest, table, tn, tn_num, tpl, i>>
  BY <1>1 DEF EndOfTable, inputs
<1>4. PICK at : IsRest(rest, files.table, at) /\ TableRead(at)
  BY <1>2, <1>3 DEF ReadSoFar
<1>5. tn = <<>> /\ i = 1 /\ Len(tn) = 0
  BY <1>2, <1>3, EmptySeq DEF ReadSoFar
<1>6. /\ files.table \in Seq(TableLines) /\ files.list \in Seq(ListLines(DOMAIN files.disk))
      /\ Names \in SUBSET (Nat \ {0}) /\ Len(files.list) \in Nat
  BY <1>2, FilesWell DEF FilesKnown
<1>7. TableDone'
  <2>1. at = Len(files.table)
    BY <1>3, <1>4, <1>6, RestStep
  <2>2. TableDone
    BY <1>4, <2>1 DEF TableDone
  <2> QED BY <1>3, <2>2, DoneStays
<1>8. NamesRead(0)'
  <2>1. Lists(tn, Names, 0, files.list)
    BY <1>5, <1>6, ListsNothing
  <2>2. \A l \in 1..0 : FALSE
    OBVIOUS
  <2>3. 0 \in 0..Len(files.list)
    BY <1>6
  <2>4. NamesRead(0)
    BY <2>1, <2>2, <2>3 DEF NamesRead
  <2> QED BY <1>3, <2>4, NamesReadStays
<1>9. IsRest(rest', files'.list, 0)
  BY <1>3, <1>6, RestAll
<1>10. ReadSoFar'
  <2>1. (\E at_line : IsRest(rest, files.list, at_line) /\ NamesRead(at_line))'
    BY <1>8, <1>9
  <2>2. Len(tn') < MAX_TEMPLATE_NUM
    BY <1>3, <1>5, Limits
  <2> QED BY <1>3, <1>5, <1>7, <2>1, <2>2 DEF ReadSoFar
<1>11. MemoryTyped'
  <2>1. state' \in Steps /\ state # "loaded"
    BY <1>3 DEF Steps
  <2> QED BY <1>2, <1>3, <2>1, MemoryStays
<1>12. Loading'
  BY <1>3, <1>5, NothingLoaded
<1>13. FilesKnown'
  BY <1>2, <1>3 DEF FilesKnown
<1> QED BY <1>3, <1>10, <1>11, <1>12, <1>13 DEF TemplatesInvariant

\* The list is done: the templates are loaded, if there are any.
LEMMA ListDone ==
  ASSUME TemplatesInvariant, UNCHANGED <<files, enable_digest, table, tn_num, tpl, i>>,
         state = "names", StartTemplates, NamesDone',
         tn' \in Seq(DOMAIN files.disk), Len(tn') <= MAX_TEMPLATE_NUM
  PROVE  TemplatesInvariant'
<1>1. FilesKnown /\ MemoryTyped /\ ReadSoFar /\ Loading
  BY DEF TemplatesInvariant
<1>2. i' = 1 /\ i = 1
  BY <1>1 DEF ReadSoFar
<1>3. Len(tn') \in Nat /\ (tn' = <<>> <=> Len(tn') = 0)
  BY LenProperties, EmptySeq
<1>4. state' = IF tn' = <<>> THEN "loaded" ELSE "page"
  BY DEF StartTemplates
<1>5. FilesKnown'
  BY <1>1 DEF FilesKnown
<1>6. MemoryTyped'
  <2>1. tn_num' = 0
    BY <1>1 DEF MemoryTyped
  <2>2. tn_num' = (IF state' = "loaded" THEN Len(tn') ELSE 0)
    BY <1>3, <1>4, <2>1
  <2>3. i' \in 1..(Len(tn') + 1)
    BY <1>2, <1>3
  <2>4. state' \in Steps \cup {"loaded", "failed"}
    BY <1>4 DEF Steps
  <2>5. files'.disk = files.disk
    OBVIOUS
  <2> QED BY <1>1, <2>2, <2>3, <2>4, <2>5 DEF MemoryTyped
<1>7. ReadSoFar'
  <2>1. TableDone'
    BY <1>1, DoneStays DEF ReadSoFar
  <2> QED BY <1>2, <1>4, <2>1 DEF ReadSoFar
<1>8. Loading'
  BY <1>2, <1>3, <1>4, NothingLoaded
<1>9. state' # "failed"
  BY <1>4
<1> QED BY <1>5, <1>6, <1>7, <1>8, <1>9 DEF TemplatesInvariant

LEMMA EndOfNamesStep == TemplatesInvariant /\ EndOfNames => TemplatesInvariant'
<1>1. SUFFICES ASSUME TemplatesInvariant, EndOfNames PROVE TemplatesInvariant'
  OBVIOUS
<1>2. FilesKnown /\ MemoryTyped /\ ReadSoFar
  BY <1>1 DEF TemplatesInvariant
<1>3. /\ state = "names" /\ rest = <<>> /\ StartTemplates
      /\ UNCHANGED <<files, enable_digest, rest, table, tn, tn_num, tpl, i>>
  BY <1>1 DEF EndOfNames, inputs
<1>4. PICK at : IsRest(rest, files.list, at) /\ NamesRead(at)
  BY <1>2, <1>3 DEF ReadSoFar
<1>5. files.list \in Seq(ListLines(DOMAIN files.disk))
  BY <1>2, FilesWell DEF FilesKnown
<1>6. at = Len(files.list)
  BY <1>3, <1>4, <1>5, RestStep
<1>7. NamesDone
  BY <1>4, <1>6 DEF NamesDone
<1>8. NamesDone'
  BY <1>3, <1>7, DoneStays
<1>9. tn' \in Seq(DOMAIN files.disk) /\ Len(tn') <= MAX_TEMPLATE_NUM
  BY <1>2, <1>3 DEF MemoryTyped
<1> QED BY <1>1, <1>3, <1>8, <1>9, ListDone

LEMMA NameTaken ==
  ASSUME FilesKnown, UNCHANGED files, tn \in Seq(DOMAIN files.disk), NEW at \in Nat, NamesRead(at),
         at + 1 \in 1..Len(files.list), files.list[at + 1].kind = "name",
         tn' = Append(tn, files.list[at + 1].name)
  PROVE  /\ NamesRead(at + 1)' /\ tn' \in Seq(DOMAIN files.disk)
         /\ Len(tn') = Len(tn) + 1 /\ Len(tn) \in Nat
<1>1. /\ Names \in SUBSET Nat /\ Len(files.list) \in Nat
      /\ DOMAIN files.list = 1..Len(files.list)
      /\ files.list \in Seq(ListLines(DOMAIN files.disk))
  BY FilesWell DEF FilesKnown
<1>2. files.list[at + 1] \in ListLines(DOMAIN files.disk)
  BY <1>1, ElementOfSeq
<1>3. files.list[at + 1].name \in DOMAIN files.disk
  BY <1>2 DEF ListLines
<1>4. at + 1 \in Names
  BY <1>1 DEF Names
<1>5. /\ tn' \in Seq(DOMAIN files.disk) /\ Len(tn') = Len(tn) + 1 /\ Len(tn) \in Nat
  BY <1>3, AppendProperties, LenProperties
<1>6. Lists(tn', Names, at + 1, files.list)
  BY <1>1, <1>3, <1>4, ListsOneMore DEF NamesRead
<1>7. \A l \in 1..(at + 1) : l \in 1..at \/ l = at + 1
  OBVIOUS
<1>8. \A l \in 1..(at + 1) : files.list[l].kind # "missing"
  BY <1>7 DEF NamesRead
<1>9. at + 1 \in 0..Len(files.list)
  BY <1>1
<1>10. Names' = Names
  BY SameFiles
<1>11. Lists(tn, Names, at + 1, files.list)'
  BY <1>6, <1>10 DEF Lists, Upto
<1>12. NamesRead(at + 1)'
  BY <1>8, <1>9, <1>11 DEF NamesRead
<1> QED BY <1>5, <1>12

LEMMA NameLineStep == TemplatesInvariant /\ NameLine => TemplatesInvariant'
<1>1. SUFFICES ASSUME TemplatesInvariant, NameLine PROVE TemplatesInvariant'
  OBVIOUS
<1>2. FilesKnown /\ MemoryTyped /\ ReadSoFar /\ Loading
  BY <1>1 DEF TemplatesInvariant
<1>3. /\ state = "names" /\ rest # <<>> /\ Head(rest).kind = "name"
      /\ tn' = Append(tn, Head(rest).name)
      /\ IF Len(tn') = MAX_TEMPLATE_NUM
           THEN rest' = <<>> /\ StartTemplates
           ELSE rest' = Tail(rest) /\ UNCHANGED state
      /\ UNCHANGED <<files, enable_digest, table, tn_num, tpl, i>>
  BY <1>1 DEF NameLine, inputs
<1>4. PICK at : IsRest(rest, files.list, at) /\ NamesRead(at)
  BY <1>2, <1>3 DEF ReadSoFar
<1>5. files.list \in Seq(ListLines(DOMAIN files.disk))
  BY <1>2, FilesWell DEF FilesKnown
<1>6. /\ at \in Nat /\ at + 1 \in 1..Len(files.list) /\ Head(rest) = files.list[at + 1]
      /\ IsRest(Tail(rest), files.list, at + 1)
  BY <1>3, <1>4, <1>5, RestStep
<1>7. tn \in Seq(DOMAIN files.disk) /\ Len(tn) < MAX_TEMPLATE_NUM
  BY <1>2, <1>3 DEF MemoryTyped, ReadSoFar
<1>8. /\ NamesRead(at + 1)' /\ tn' \in Seq(DOMAIN files.disk)
      /\ Len(tn') = Len(tn) + 1 /\ Len(tn) \in Nat
  BY <1>2, <1>3, <1>4, <1>6, <1>7, NameTaken
<1>9. Len(tn') <= MAX_TEMPLATE_NUM
  BY <1>7, <1>8, Limits
<1>10. CASE Len(tn') = MAX_TEMPLATE_NUM
  <2>1. NamesDone'
    BY <1>8, <1>10 DEF NamesDone
  <2> QED BY <1>1, <1>3, <1>8, <1>9, <1>10, <2>1, ListDone
<1>11. CASE Len(tn') # MAX_TEMPLATE_NUM
  <2>1. state' = "names" /\ rest' = Tail(rest) /\ i' = 1
    BY <1>2, <1>3, <1>11 DEF ReadSoFar
  <2>2. IsRest(rest, files.list, at + 1)'
    BY <1>3, <1>6, <2>1 DEF IsRest
  <2>3. Len(tn') < MAX_TEMPLATE_NUM
    BY <1>8, <1>9, <1>11, Limits
  <2>4. TableDone'
    BY <1>2, <1>3, DoneStays DEF ReadSoFar
  <2>5. ReadSoFar'
    BY <1>8, <2>1, <2>2, <2>3, <2>4 DEF ReadSoFar
  <2>6. MemoryTyped'
    <3>1. i' \in 1..(Len(tn') + 1)
      BY <1>8, <2>1
    <3>2. tn_num' = 0 /\ files'.disk = files.disk
      BY <1>2, <1>3 DEF MemoryTyped
    <3> QED BY <1>2, <1>3, <1>8, <1>9, <2>1, <3>1, <3>2 DEF MemoryTyped, Steps
  <2>7. Loading'
    BY <1>8, <2>1, NothingLoaded
  <2>8. FilesKnown'
    BY <1>2, <1>3 DEF FilesKnown
  <2> QED BY <2>1, <2>5, <2>6, <2>7, <2>8 DEF TemplatesInvariant
<1> QED BY <1>10, <1>11

(***************************************************************************)
(* The steps that load the templates.                                      *)
(***************************************************************************)
\* tn has the names listed, in their order, and the list was all in order.
LEMMA NamesAre ==
  ASSUME FilesKnown, tn \in Seq(DOMAIN files.disk), Len(tn) <= MAX_TEMPLATE_NUM, NamesDone
  PROVE  /\ \A l \in Listed : /\ Position(l) \in 1..Len(tn)
                              /\ tn[Position(l)] = files.list[l].name
         /\ \A t \in 1..Len(tn) : /\ tn[t] \in DOMAIN files.disk
                                  /\ \E l \in Listed : /\ Position(l) = t
                                                       /\ tn[t] = files.list[l].name
         /\ \A l \in DOMAIN files.list : files.list[l].kind # "missing"
<1>1. PICK at : NamesRead(at) /\ (at = Len(files.list) \/ Len(tn) = MAX_TEMPLATE_NUM)
  BY DEF NamesDone
<1>2. /\ Names \in SUBSET Nat /\ Names \in SUBSET (1..Len(files.list)) /\ Len(files.list) \in Nat
      /\ DOMAIN files.list = 1..Len(files.list)
  BY FilesWell DEF FilesKnown
<1>3. at \in Nat /\ at <= Len(files.list) /\ Len(tn) \in Nat /\ \A l \in Names : l \in Nat
  BY <1>1, <1>2, LenProperties DEF NamesRead
<1>5. \A l : Position(l) = Cardinality(Upto(Names, l))
  BY DEF Position, Upto
<1>6. Lists(tn, Names, at, files.list)
  BY <1>1 DEF NamesRead
<1>7. ASSUME NEW l \in Names PROVE l \in Listed <=> l \in Upto(Names, at)
  <2>1. CASE l <= at
    <3>1. l \in Upto(Names, at)
      BY <2>1 DEF Upto
    <3>2. Position(l) \in 1..Len(tn)
      BY <1>5, <1>6, <3>1 DEF Lists
    <3>3. Position(l) <= MAX_TEMPLATE_NUM
      BY <1>3, <3>2, Limits
    <3> QED BY <3>1, <3>3 DEF Listed
  <2>2. CASE ~(l <= at)
    <3>1. at < l /\ l \in 1..Len(files.list)
      BY <1>2, <1>3, <2>2
    <3>2. Cardinality(Upto(Names, at)) < Cardinality(Upto(Names, l))
      BY <1>2, <1>3, <3>1, UptoOrdered
    <3>3. Cardinality(Upto(Names, l)) \in Nat
      BY <1>2, <1>3, UptoCounted
    <3>4. Len(tn) = MAX_TEMPLATE_NUM
      BY <1>1, <1>3, <3>1
    <3>5. ~(Position(l) <= MAX_TEMPLATE_NUM)
      BY <1>3, <1>5, <1>6, <3>2, <3>3, <3>4 DEF Lists
    <3>6. l \notin Upto(Names, at)
      BY <2>2 DEF Upto
    <3> QED BY <3>5, <3>6 DEF Listed
  <2> QED BY <2>1, <2>2
<1>8. Listed = Upto(Names, at)
  BY <1>7 DEF Listed, Upto
<1>9. \A l \in Listed : Position(l) \in 1..Len(tn) /\ tn[Position(l)] = files.list[l].name
  BY <1>5, <1>6, <1>8 DEF Lists
<1>10. \A t \in 1..Len(tn) : tn[t] \in DOMAIN files.disk
  BY ElementOfSeq
<1>11. \A t \in 1..Len(tn) : \E l \in Listed : Position(l) = t
  BY <1>5, <1>6, <1>8 DEF Lists
<1>12. ASSUME NEW l \in DOMAIN files.list, files.list[l].kind = "missing" PROVE FALSE
  <2>1. Len(files.list) = 1 /\ l = 1
    <3>1. Len(files.list) = 1
      BY <1>2, <1>12, FilesWell DEF FilesKnown
    <3>2. l \in 1..1
      BY <1>2, <3>1
    <3> QED BY <3>1, <3>2
  <2>2. at >= 1
    <3>1. CASE at = Len(files.list)
      BY <2>1, <3>1
    <3>2. CASE Len(tn) = MAX_TEMPLATE_NUM
      <4>1. 1 \in 1..Len(tn)
        BY <1>3, <3>2, Limits
      <4>2. PICK m \in Upto(Names, at) : Position(m) = 1
        BY <1>8, <1>11, <4>1
      <4>3. m \in 1..Len(files.list) /\ m <= at /\ m \in Nat
        BY <1>2, <1>3 DEF Upto
      <4> QED BY <1>3, <4>3
    <3> QED BY <1>1, <3>1, <3>2
  <2>3. 1 \in 1..at
    BY <1>3, <2>2
  <2> QED BY <1>1, <1>12, <2>1, <2>3 DEF NamesRead
<1> QED BY <1>9, <1>10, <1>11, <1>12

LEMMA DirTyped ==
  ASSUME FilesKnown, tn \in Seq(DOMAIN files.disk), NEW t \in 1..Len(tn)
  PROVE  /\ Dir(t) \in Directories /\ tn[t] \in DOMAIN files.disk
         /\ \A p \in {"page", "none", "error", "res"} :
              Dir(t)[p].ok \in BOOLEAN /\ Dir(t)[p].text \in Texts
<1>1. tn[t] \in DOMAIN files.disk
  BY ElementOfSeq
<1>2. files.disk \in [DOMAIN files.disk -> Directories]
  BY FilesWell DEF FilesKnown
<1>3. Dir(t) \in Directories
  BY <1>1, <1>2 DEF Dir
<1>4. \A p \in {"page", "none", "error", "res"} : Dir(t)[p] \in Contents
  BY <1>3 DEF Directories
<1>5. \A c \in Contents : c.ok \in BOOLEAN /\ c.text \in Texts
  BY DEF Contents
<1> QED BY <1>1, <1>3, <1>4, <1>5

LEMMA TextsScanned ==
  ASSUME NEW text \in Texts, NEW marks,
         marks = Scan(text, UiOpenings(text)) \/ marks = Scan(text, ResOpenings(text))
  PROVE  /\ marks \in Seq(Nat) /\ Len(marks) <= MAX_VARS_NUM /\ Len(marks) \in Nat
         /\ \A m \in 1..Len(marks) : marks[m] \in 1..Len(text) /\ marks[m] \in Nat
         /\ marks = Scan(text, UiOpenings(text)) => Covers(text, UiOpenings(text), marks)
         /\ marks = Scan(text, ResOpenings(text)) => Covers(text, ResOpenings(text), marks)
<1>1. Len(text) \in Nat /\ DOMAIN text = 1..Len(text)
  BY LenProperties DEF Texts
<1>2. UiOpenings(text) \in SUBSET (1..Len(text)) /\ ResOpenings(text) \in SUBSET (1..Len(text))
  BY <1>1 DEF UiOpenings, ResOpenings
<1>3. ASSUME NEW Here \in SUBSET (1..Len(text)), marks = Scan(text, Here)
      PROVE  /\ marks \in Seq(Nat) /\ Len(marks) <= MAX_VARS_NUM
             /\ \A m \in 1..Len(marks) : marks[m] \in 1..Len(text)
             /\ Covers(text, Here, marks)
  BY <1>1, <1>3, ScanIs
<1>4. /\ marks \in Seq(Nat) /\ Len(marks) <= MAX_VARS_NUM
      /\ \A m \in 1..Len(marks) : marks[m] \in 1..Len(text)
  BY <1>2, <1>3
<1>5. Len(marks) \in Nat /\ \A m \in 1..Len(marks) : marks[m] \in Nat
  BY <1>4, LenProperties, ElementOfSeq
<1> QED BY <1>2, <1>3, <1>4, <1>5

TableSearched ==
  \A name : RowOf(name) = LET I == {t \in 1..Len(table) : table[t] = name}
                          IN  IF I # {} THEN Min(I) ELSE 0

LEMMA RowOfIs == TableSearched
BY DEF TableSearched, RowOf, SelectInSeq

LEMMA SameTemplate ==
  ASSUME UNCHANGED <<files, tn, table>>, NEW t
  PROVE  /\ \A p : tpl'[t][p] = tpl[t][p] /\ TextLoaded(t, p) => TextLoaded(t, p)'
         /\ tpl'[t].res = tpl[t].res /\ ResLoaded(t) => ResLoaded(t)'
         /\ tpl'[t] = tpl[t] /\ TextsLoaded(t) => TextsLoaded(t)'
         /\ tpl'[t] = tpl[t] /\ RowsFound(t) => RowsFound(t)'
<1>1. Dir(t)' = Dir(t) /\ \A name : RowOf(name)' = RowOf(name)
  <2>1. TableSearched'
    BY RowOfIs, PTL
  <2> QED BY <2>1, RowOfIs DEF TableSearched, Dir
<1>2. \A p : tpl'[t][p] = tpl[t][p] /\ TextLoaded(t, p) => TextLoaded(t, p)'
  BY <1>1 DEF TextLoaded
<1>3. tpl'[t].res = tpl[t].res /\ ResLoaded(t) => ResLoaded(t)'
  BY <1>1 DEF ResLoaded
<1>4. tpl'[t] = tpl[t] /\ TextsLoaded(t) => TextsLoaded(t)'
  BY <1>2, <1>3 DEF TextsLoaded
<1>5. tpl'[t] = tpl[t] /\ RowsFound(t) => RowsFound(t)'
  BY <1>1 DEF RowsFound
<1> QED BY <1>2, <1>3, <1>4, <1>5

LoadSteps == {"page", "none", "error", "res", "config", "methods"}

Fits(rec) == /\ Len(rec.page) <= MAX_VARS_NUM /\ Len(rec.none) <= MAX_VARS_NUM
             /\ Len(rec.error) <= MAX_VARS_NUM

\* What every step of one template leaves as it was.
LEMMA LoadsOn ==
  ASSUME TemplatesInvariant, UNCHANGED <<files, enable_digest, table, tn, tn_num, i>>,
         state \in LoadSteps, state' \in LoadSteps \cup {"failed"},
         NEW rec \in Templates, Fits(rec), tpl' = [tpl EXCEPT ![i] = rec]
  PROVE  /\ FilesKnown' /\ MemoryTyped' /\ ReadSoFar' /\ (i <= Len(tn))'
         /\ tpl'[i] = rec /\ i \in 1..Len(tn)
         /\ \A t \in 1..(i' - 1) : (TextsLoaded(t) /\ RowsFound(t))'
<1>1. FilesKnown /\ MemoryTyped /\ ReadSoFar /\ Loading
  BY DEF TemplatesInvariant
<1>2. /\ i <= Len(tn) /\ Len(tn) \in Nat /\ i \in 1..(Len(tn) + 1)
      /\ Len(tn) <= MAX_TEMPLATE_NUM
  BY <1>1, LenProperties DEF Loading, LoadSteps, MemoryTyped
<1>3. i \in 1..Len(tn) /\ i \in 1..MAX_TEMPLATE_NUM
  BY <1>2, Limits
<1>4. tpl \in [1..MAX_TEMPLATE_NUM -> Templates]
  BY <1>1 DEF MemoryTyped
<1>5. /\ tpl' \in [1..MAX_TEMPLATE_NUM -> Templates] /\ tpl'[i] = rec
      /\ \A t \in 1..MAX_TEMPLATE_NUM : t # i => tpl'[t] = tpl[t]
  BY <1>3, <1>4
<1>6. FilesKnown'
  BY <1>1 DEF FilesKnown
<1>7. MemoryTyped'
  <2>1. \A t \in 1..MAX_TEMPLATE_NUM : Fits(tpl'[t])
    <3>1. \A t \in 1..MAX_TEMPLATE_NUM : Fits(tpl[t])
      BY <1>1 DEF MemoryTyped, Fits
    <3> QED BY <1>5, <3>1
  <2>2. tn_num' = (IF state' = "loaded" THEN Len(tn') ELSE 0)
    BY <1>1 DEF MemoryTyped, LoadSteps
  <2>3. state' \in Steps \cup {"loaded", "failed"}
    BY DEF Steps, LoadSteps
  <2>4. files'.disk = files.disk
    OBVIOUS
  <2> QED BY <1>1, <1>5, <2>1, <2>2, <2>3, <2>4 DEF MemoryTyped, Fits
<1>8. ReadSoFar'
  <2>1. TableDone /\ NamesDone
    BY <1>1 DEF ReadSoFar, LoadSteps
  <2>2. TableDone' /\ NamesDone'
    BY <2>1, DoneStays
  <2> QED BY <2>2 DEF ReadSoFar, LoadSteps
<1>9. ASSUME NEW t \in 1..(i' - 1) PROVE (TextsLoaded(t) /\ RowsFound(t))'
  <2>1. t \in 1..MAX_TEMPLATE_NUM /\ t # i /\ t \in 1..(i - 1)
    BY <1>3, Limits
  <2>2. TextsLoaded(t) /\ RowsFound(t) /\ tpl'[t] = tpl[t]
    BY <1>1, <1>5, <2>1 DEF Loading
  <2> QED BY <2>2, SameTemplate
<1> QED BY <1>2, <1>3, <1>5, <1>6, <1>7, <1>8, <1>9

LEMMA BadFile ==
  ASSUME FilesKnown, MemoryTyped, TableDone, NamesDone, NEW t \in 1..Len(tn),
         \/ \E p \in {"page", "none", "error", "res"} : ~Dir(t)[p].ok
         \/ \E k \in Range(Scan(Dir(t).res.text, ResOpenings(Dir(t).res.text))) :
              ResName(Dir(t).res.text, k) \notin RowNames
  PROVE  BadTemplates
<1>1. PICK l \in Listed : tn[t] = files.list[l].name
  BY NamesAre DEF MemoryTyped
<1>2. Dir(t) = files.disk[files.list[l].name]
  BY <1>1 DEF Dir
<1> QED BY <1>2 DEF BadTemplates

LEMMA TextSet ==
  ASSUME NEW rec \in Templates, NEW part \in {"page", "none", "error"},
         NEW marks \in Seq(Nat), Len(marks) <= MAX_VARS_NUM, Fits(rec)
  PROVE  /\ [rec EXCEPT ![part] = marks] \in Templates
         /\ Fits([rec EXCEPT ![part] = marks])
         /\ [rec EXCEPT ![part] = marks][part] = marks
         /\ \A p \in {"page", "none", "error"} \ {part} : [rec EXCEPT ![part] = marks][p] = rec[p]
<1>1. CASE part = "page"
  BY <1>1 DEF Templates, Fits
<1>2. CASE part = "none"
  BY <1>2 DEF Templates, Fits
<1>3. CASE part = "error"
  BY <1>3 DEF Templates, Fits
<1> QED BY <1>1, <1>2, <1>3

LEMMA LoadContentStep ==
  ASSUME TemplatesInvariant, NEW part, NEW next, LoadContent(part, next),
         \/ part = "page" /\ next = "none"
         \/ part = "none" /\ next = "error"
         \/ part = "error" /\ next = "res"
  PROVE  TemplatesInvariant'
<1>1. FilesKnown /\ MemoryTyped /\ ReadSoFar /\ Loading
  BY DEF TemplatesInvariant
<1> DEFINE text == Dir(i)[part].text
           marks == Scan(text, UiOpenings(text))
<1>2. /\ state = part
      /\ IF ~Dir(i)[part].ok THEN state' = "failed" /\ UNCHANGED tpl
         ELSE tpl' = [tpl EXCEPT ![i][part] = marks] /\ state' = next
      /\ UNCHANGED <<files, enable_digest, rest, table, tn, tn_num, i>>
  BY DEF LoadContent, Fail, inputs
<1>3. part \in {"page", "none", "error"} /\ state \in LoadSteps
  BY <1>2 DEF LoadSteps
<1>4. i \in 1..Len(tn) /\ i \in 1..MAX_TEMPLATE_NUM
  <2>1. /\ i <= Len(tn) /\ Len(tn) \in Nat /\ i \in 1..(Len(tn) + 1)
        /\ Len(tn) <= MAX_TEMPLATE_NUM
    BY <1>1, <1>3, LenProperties DEF Loading, LoadSteps, MemoryTyped
  <2> QED BY <2>1, Limits
<1>5. text \in Texts
  BY <1>1, <1>3, <1>4, DirTyped DEF MemoryTyped
<1>6. marks \in Seq(Nat) /\ Len(marks) <= MAX_VARS_NUM
  <2> HIDE DEF text
  <2> QED BY <1>5, TextsScanned
<1>7. tpl \in [1..MAX_TEMPLATE_NUM -> Templates] /\ tpl[i] \in Templates /\ Fits(tpl[i])
  BY <1>1, <1>4 DEF MemoryTyped, Fits
<1>8. CASE ~Dir(i)[part].ok
  <2>1. tpl' = [tpl EXCEPT ![i] = tpl[i]] /\ state' = "failed"
    BY <1>2, <1>4, <1>7, <1>8
  <2>2. /\ FilesKnown' /\ MemoryTyped' /\ ReadSoFar'
        /\ \A t \in 1..(i' - 1) : (TextsLoaded(t) /\ RowsFound(t))'
    BY <1>2, <1>3, <1>7, <2>1, LoadsOn
  <2>3. BadTemplates
    BY <1>1, <1>3, <1>4, <1>8, BadFile DEF ReadSoFar, LoadSteps
  <2>4. BadTemplates'
    BY <1>2, <2>3, SameFiles
  <2>5. Loading'
    BY <2>1, <2>2 DEF Loading
  <2> QED BY <2>2, <2>4, <2>5 DEF TemplatesInvariant
<1>9. CASE Dir(i)[part].ok
  <2> DEFINE rec == [tpl[i] EXCEPT ![part] = marks]
  <2>1. state' = next /\ tpl' = [tpl EXCEPT ![i] = rec]
    <3> HIDE DEF marks
    <3> QED BY <1>2, <1>9
  <2>2. /\ rec \in Templates /\ Fits(rec) /\ rec[part] = marks
        /\ \A p \in {"page", "none", "error"} \ {part} : rec[p] = tpl[i][p]
    <3> HIDE DEF marks
    <3> QED BY <1>3, <1>6, <1>7, TextSet
  <2> HIDE DEF rec
  <2>3. state' \in LoadSteps
    BY <2>1 DEF LoadSteps
  <2>4. /\ FilesKnown' /\ MemoryTyped' /\ ReadSoFar' /\ (i <= Len(tn))' /\ tpl'[i] = rec
        /\ \A t \in 1..(i' - 1) : (TextsLoaded(t) /\ RowsFound(t))'
    BY <1>2, <1>3, <2>1, <2>2, <2>3, LoadsOn
  <2>5. TextLoaded(i, part)'
    <3>1. tpl'[i][part] = marks
      BY <2>2, <2>4
    <3>2. Dir(i)' = Dir(i) /\ UNCHANGED i
      BY <1>2 DEF Dir
    <3> QED BY <1>9, <3>1, <3>2 DEF TextLoaded
  <2>6. \A p \in {"page", "none", "error"} \ {part} : TextLoaded(i, p) => TextLoaded(i, p)'
    <3>1. \A p \in {"page", "none", "error"} \ {part} : tpl'[i][p] = tpl[i][p]
      BY <2>2, <2>4
    <3>2. Dir(i)' = Dir(i) /\ UNCHANGED i
      BY <1>2 DEF Dir
    <3>3. \A p : tpl'[i][p] = tpl[i][p] /\ TextLoaded(i, p) => TextLoaded(i, p)'
      BY <3>2 DEF TextLoaded
    <3> QED BY <3>1, <3>3
  <2>7. Loading'
    <3>1. CASE part = "page"
      BY <2>1, <2>4, <2>5, <3>1 DEF Loading
    <3>2. CASE part = "none"
      <4>1. TextLoaded(i, "page")'
        BY <1>1, <1>2, <2>6, <3>2 DEF Loading
      <4> QED BY <2>1, <2>4, <2>5, <3>2, <4>1 DEF Loading
    <3>3. CASE part = "error"
      <4>1. TextLoaded(i, "page")' /\ TextLoaded(i, "none")'
        BY <1>1, <1>2, <2>6, <3>3 DEF Loading
      <4> QED BY <2>1, <2>4, <2>5, <3>3, <4>1 DEF Loading
    <3> QED BY <3>1, <3>2, <3>3
  <2>8. state' # "failed"
    BY <2>3 DEF LoadSteps
  <2> QED BY <2>4, <2>7, <2>8 DEF TemplatesInvariant
<1> QED BY <1>8, <1>9

LEMMA NamesTyped ==
  ASSUME NEW text \in Texts, NEW k \in 1..Len(text)
  PROVE  ResName(text, k) \in Words
<1>1. Len(text) \in Nat /\ \A m \in 1..Len(text) : text[m].name \in STRING
  <2>1. \A m \in 1..Len(text) :
          text[m] \in [pre : {"ui", "res", "any", "two", "one", "bare"}, name : STRING]
    BY ElementOfSeq DEF Texts
  <2> QED BY <2>1, LenProperties DEF Texts
<1>2. text[k].name \in Words /\ text[Len(text)].name \in Words /\ "none" \in Words
  BY <1>1 DEF Words
<1>3. ResName(text, k) \in {text[k].name, text[Len(text)].name, "none"}
  BY Zenon DEF ResName
<1> QED BY <1>2, <1>3

LEMMA LoadResStep == TemplatesInvariant /\ LoadRes => TemplatesInvariant'
<1>1. SUFFICES ASSUME TemplatesInvariant, LoadRes PROVE TemplatesInvariant'
  OBVIOUS
<1>2. FilesKnown /\ MemoryTyped /\ ReadSoFar /\ Loading
  BY <1>1 DEF TemplatesInvariant
<1> DEFINE text == Dir(i).res.text
           got == Scan(text, ResOpenings(text))
           vars_got == [v \in DOMAIN got |-> [at |-> got[v], name |-> ResName(text, got[v]), row |-> 0]]
           many == Len(got) > MAX_RES_VARS_NUM
<1>3. /\ state = "res"
      /\ IF ~Dir(i).res.ok THEN state' = "failed" /\ UNCHANGED tpl
         ELSE /\ tpl' = [tpl EXCEPT ![i].res = vars_got, ![i].overwritten = many]
              /\ state' = "config"
      /\ UNCHANGED <<files, enable_digest, rest, table, tn, tn_num, i>>
  BY <1>1 DEF LoadRes, Fail, inputs
<1>4. i \in 1..Len(tn) /\ i \in 1..MAX_TEMPLATE_NUM
  <2>1. /\ i <= Len(tn) /\ Len(tn) \in Nat /\ i \in 1..(Len(tn) + 1)
        /\ Len(tn) <= MAX_TEMPLATE_NUM
    BY <1>2, <1>3, LenProperties DEF Loading, MemoryTyped
  <2> QED BY <2>1, Limits
<1>5. text \in Texts
  BY <1>2, <1>4, DirTyped DEF MemoryTyped
<1>6. /\ got \in Seq(Nat) /\ Len(got) \in Nat /\ DOMAIN got = 1..Len(got)
      /\ \A v \in 1..Len(got) : got[v] \in 1..Len(text) /\ got[v] \in Nat
  <2>1. /\ got \in Seq(Nat) /\ Len(got) \in Nat
        /\ \A v \in 1..Len(got) : got[v] \in 1..Len(text) /\ got[v] \in Nat
    <3> HIDE DEF text
    <3> QED BY <1>5, TextsScanned
  <2>2. DOMAIN got = 1..Len(got)
    <3> HIDE DEF got
    <3> QED BY <2>1, LenProperties
  <2> QED BY <2>1, <2>2
<1>7. tpl \in [1..MAX_TEMPLATE_NUM -> Templates] /\ tpl[i] \in Templates /\ Fits(tpl[i])
  BY <1>2, <1>4 DEF MemoryTyped, Fits
<1>8. CASE ~Dir(i).res.ok
  <2>1. tpl' = [tpl EXCEPT ![i] = tpl[i]] /\ state' = "failed"
    BY <1>3, <1>4, <1>7, <1>8
  <2>2. /\ FilesKnown' /\ MemoryTyped' /\ ReadSoFar'
        /\ \A t \in 1..(i' - 1) : (TextsLoaded(t) /\ RowsFound(t))'
    BY <1>1, <1>3, <1>7, <2>1, LoadsOn DEF LoadSteps
  <2>3. BadTemplates
    <3>1. ~Dir(i)["res"].ok
      BY <1>8
    <3> QED BY <1>2, <1>3, <1>4, <3>1, BadFile DEF ReadSoFar
  <2>4. BadTemplates'
    BY <1>3, <2>3, SameFiles
  <2>5. Loading'
    BY <2>1, <2>2 DEF Loading
  <2> QED BY <2>2, <2>4, <2>5 DEF TemplatesInvariant
<1>9. CASE Dir(i).res.ok
  <2> DEFINE rec == [tpl[i] EXCEPT !.res = vars_got, !.overwritten = many]
  <2>1. state' = "config" /\ tpl' = [tpl EXCEPT ![i] = rec]
    <3>1. state' = "config" /\ tpl' = [tpl EXCEPT ![i].res = vars_got, ![i].overwritten = many]
      BY <1>3, <1>9
    <3> HIDE DEF vars_got, many
    <3> QED BY <1>4, <1>7, <3>1
  <2>2. /\ vars_got \in Seq(Variables) /\ Len(vars_got) = Len(got)
        /\ \A v \in 1..Len(got) : /\ vars_got[v].at = got[v]
                                  /\ vars_got[v].name = ResName(text, got[v])
    <3> HIDE DEF got, text
    <3>1. \A v \in 1..Len(got) : ResName(text, got[v]) \in Words
      BY <1>5, <1>6, NamesTyped
    <3>2. \A v \in 1..Len(got) :
            [at |-> got[v], name |-> ResName(text, got[v]), row |-> 0] \in Variables
      BY <1>6, <3>1 DEF Variables
    <3>3. vars_got \in [1..Len(got) -> Variables]
      BY <1>6, <3>2
    <3>4. vars_got \in Seq(Variables)
      BY <1>6, <3>3
    <3>5. Len(vars_got) = Len(got)
      <4>1. DOMAIN vars_got = 1..Len(got) /\ DOMAIN vars_got = 1..Len(vars_got) /\ Len(vars_got) \in Nat
        BY <3>3, <3>4, LenProperties
      <4> HIDE DEF vars_got
      <4> QED BY <1>6, <4>1
    <3> QED BY <1>6, <3>4, <3>5
  <2>3. many \in BOOLEAN
    OBVIOUS
  <2>4. /\ rec \in Templates /\ Fits(rec) /\ rec.res = vars_got
        /\ rec.page = tpl[i].page /\ rec.none = tpl[i].none /\ rec.error = tpl[i].error
    <3> HIDE DEF vars_got, many
    <3> QED BY <1>7, <2>2, <2>3 DEF Templates, Fits
  <2> HIDE DEF rec, vars_got
  <2>5. /\ FilesKnown' /\ MemoryTyped' /\ ReadSoFar' /\ (i <= Len(tn))' /\ tpl'[i] = rec
        /\ \A t \in 1..(i' - 1) : (TextsLoaded(t) /\ RowsFound(t))'
    BY <1>1, <1>3, <2>1, <2>4, LoadsOn DEF LoadSteps
  <2>6. Dir(i)' = Dir(i) /\ UNCHANGED i
    BY <1>3 DEF Dir
  <2>7. ResLoaded(i)'
    <3>1. tpl'[i].res = vars_got
      BY <2>4, <2>5
    <3> QED BY <1>9, <2>2, <2>6, <3>1 DEF ResLoaded
  <2>8. TextLoaded(i, "page")' /\ TextLoaded(i, "none")' /\ TextLoaded(i, "error")'
    <3>1. /\ tpl'[i]["page"] = tpl[i]["page"] /\ tpl'[i]["none"] = tpl[i]["none"]
          /\ tpl'[i]["error"] = tpl[i]["error"]
      BY <2>4, <2>5
    <3>2. TextLoaded(i, "page") /\ TextLoaded(i, "none") /\ TextLoaded(i, "error")
      BY <1>2, <1>3 DEF Loading
    <3>3. \A p : tpl'[i][p] = tpl[i][p] /\ TextLoaded(i, p) => TextLoaded(i, p)'
      BY <2>6 DEF TextLoaded
    <3> QED BY <3>1, <3>2, <3>3
  <2>9. Loading'
    BY <2>1, <2>5, <2>7, <2>8 DEF Loading, TextsLoaded
  <2> QED BY <2>1, <2>5, <2>9 DEF TemplatesInvariant
<1> QED BY <1>8, <1>9

LEMMA LoadConfigStep == TemplatesInvariant /\ LoadConfig => TemplatesInvariant'
<1>1. SUFFICES ASSUME TemplatesInvariant, LoadConfig PROVE TemplatesInvariant'
  OBVIOUS
<1>2. FilesKnown /\ MemoryTyped /\ ReadSoFar /\ Loading
  BY <1>1 DEF TemplatesInvariant
<1> DEFINE wanted == IF WantsDigest(Dir(i)) /\ HasDigest(i) THEN 2 ELSE 0
           rec == [tpl[i] EXCEPT !.digest = wanted]
<1>3. /\ state = "config" /\ state' = "methods" /\ tpl' = [tpl EXCEPT ![i].digest = wanted]
      /\ UNCHANGED <<files, enable_digest, rest, table, tn, tn_num, i>>
  BY <1>1 DEF LoadConfig, inputs
<1>4. wanted \in {0, 2}
  OBVIOUS
<1> HIDE DEF wanted
<1>5. i \in 1..MAX_TEMPLATE_NUM
  <2>1. /\ i <= Len(tn) /\ Len(tn) \in Nat /\ i \in 1..(Len(tn) + 1)
        /\ Len(tn) <= MAX_TEMPLATE_NUM
    BY <1>2, <1>3, LenProperties DEF Loading, MemoryTyped
  <2> QED BY <2>1, Limits
<1>6. tpl \in [1..MAX_TEMPLATE_NUM -> Templates] /\ tpl[i] \in Templates /\ Fits(tpl[i])
  BY <1>2, <1>5 DEF MemoryTyped, Fits
<1>7. tpl' = [tpl EXCEPT ![i] = rec]
  BY <1>3, <1>5, <1>6
<1>8. /\ rec \in Templates /\ Fits(rec) /\ rec.res = tpl[i].res
      /\ rec.page = tpl[i].page /\ rec.none = tpl[i].none /\ rec.error = tpl[i].error
  BY <1>4, <1>6 DEF Templates, Fits
<1> HIDE DEF rec
<1>9. /\ FilesKnown' /\ MemoryTyped' /\ ReadSoFar' /\ (i <= Len(tn))' /\ tpl'[i] = rec
      /\ \A t \in 1..(i' - 1) : (TextsLoaded(t) /\ RowsFound(t))'
  BY <1>1, <1>3, <1>7, <1>8, LoadsOn DEF LoadSteps
<1>10. TextsLoaded(i)'
  <2>1. TextsLoaded(i)
    BY <1>2, <1>3 DEF Loading
  <2>2. Dir(i)' = Dir(i) /\ UNCHANGED i
    BY <1>3 DEF Dir
  <2>3. /\ tpl'[i]["page"] = tpl[i]["page"] /\ tpl'[i]["none"] = tpl[i]["none"]
        /\ tpl'[i]["error"] = tpl[i]["error"] /\ tpl'[i].res = tpl[i].res
    BY <1>8, <1>9
  <2>4. \A p : tpl'[i][p] = tpl[i][p] /\ TextLoaded(i, p) => TextLoaded(i, p)'
    BY <2>2 DEF TextLoaded
  <2>5. ResLoaded(i) => ResLoaded(i)'
    BY <2>2, <2>3 DEF ResLoaded
  <2> QED BY <2>1, <2>3, <2>4, <2>5 DEF TextsLoaded
<1>11. Loading'
  BY <1>3, <1>9, <1>10 DEF Loading
<1> QED BY <1>3, <1>9, <1>11 DEF TemplatesInvariant

\* RowOf finds the first row of a name, if there is one.
LEMMA RowIs ==
  ASSUME table \in Seq(STRING), NEW name
  PROVE  /\ RowOf(name) \in 0..Len(table) /\ Len(table) \in Nat /\ RowOf(name) \in Nat
         /\ RowOf(name) = 0 <=> \A t \in 1..Len(table) : table[t] # name
         /\ RowOf(name) # 0 => /\ RowOf(name) \in 1..Len(table) /\ table[RowOf(name)] = name
                               /\ \A t \in 1..Len(table) : table[t] = name => RowOf(name) <= t
<1> DEFINE I == {t \in 1..Len(table) : table[t] = name}
<1>1. RowOf(name) = IF I # {} THEN Min(I) ELSE 0
  BY RowOfIs DEF TableSearched
<1>2. Len(table) \in Nat /\ I \in SUBSET (1..Len(table))
  BY LenProperties
<1>3. I = {} <=> \A t \in 1..Len(table) : table[t] # name
  OBVIOUS
<1>4. \A t \in 1..Len(table) : table[t] = name <=> t \in I
  OBVIOUS
<1>5. \A t \in I : t \in 1..Len(table) /\ table[t] = name
  OBVIOUS
<1> HIDE DEF I
<1>6. /\ RowOf(name) \in 0..Len(table) /\ (I = {} <=> RowOf(name) = 0)
      /\ RowOf(name) # 0 => RowOf(name) \in I /\ \A t \in I : RowOf(name) <= t
  BY <1>1, <1>2, FirstPlace
<1>7. RowOf(name) \in Nat
  BY <1>2, <1>6
<1> QED BY <1>2, <1>3, <1>4, <1>5, <1>6, <1>7

LEMMA RowNamed ==
  ASSUME FilesKnown, table \in Seq(STRING), TableDone, NEW name
  PROVE  RowOf(name) = 0 <=> name \notin RowNames
<1>1. Lists(table, Rows, Len(files.table), files.table)
  BY DEF TableDone, TableRead
<1>2. /\ Len(files.table) \in Nat /\ Rows \in SUBSET (1..Len(files.table))
  BY FilesWell DEF FilesKnown
<1>3. Upto(Rows, Len(files.table)) = Rows
  <2>1. \A r \in Rows : r <= Len(files.table)
    BY <1>2
  <2> QED BY <2>1 DEF Upto
<1>4. (\E t \in 1..Len(table) : table[t] = name) <=> name \in RowNames
  <2>1. ASSUME NEW t \in 1..Len(table), table[t] = name PROVE name \in RowNames
    <3>1. PICK r \in Rows : Cardinality(Upto(Rows, r)) = t
      BY <1>1, <1>3 DEF Lists
    <3>2. files.table[r].name = name
      BY <1>1, <1>3, <2>1, <3>1 DEF Lists
    <3> QED BY <3>2 DEF RowNames
  <2>2. ASSUME NEW r \in Rows, files.table[r].name = name
        PROVE  \E t \in 1..Len(table) : table[t] = name
    BY <1>1, <1>3, <2>2 DEF Lists
  <2> QED BY <2>1, <2>2 DEF RowNames
<1> QED BY <1>4, RowIs

LEMMA SetMethodsStep == TemplatesInvariant /\ SetMethods => TemplatesInvariant'
<1>1. SUFFICES ASSUME TemplatesInvariant, SetMethods PROVE TemplatesInvariant'
  OBVIOUS
<1>2. FilesKnown /\ MemoryTyped /\ ReadSoFar /\ Loading
  BY <1>1 DEF TemplatesInvariant
<1> DEFINE res == tpl[i].res
           Lost(v) == RowOf(res[v].name) = 0
           set == [v \in DOMAIN res |->
                     IF \E u \in 1..v : Lost(u) THEN res[v]
                     ELSE [res[v] EXCEPT !.row = RowOf(res[v].name)]]
           rec == [tpl[i] EXCEPT !.res = set]
<1>3. /\ state = "methods" /\ tpl' = [tpl EXCEPT ![i].res = set]
      /\ IF \E v \in DOMAIN res : Lost(v)
           THEN state' = "failed" /\ UNCHANGED <<i, tn_num>>
           ELSE /\ i' = i + 1
                /\ IF i = Len(tn) THEN tn_num' = Len(tn) /\ state' = "loaded"
                                  ELSE state' = "page" /\ UNCHANGED tn_num
      /\ UNCHANGED <<files, enable_digest, rest, table, tn>>
  BY <1>1 DEF SetMethods, inputs
<1>4. /\ i \in 1..Len(tn) /\ i \in 1..MAX_TEMPLATE_NUM /\ Len(tn) \in Nat
      /\ Len(tn) <= MAX_TEMPLATE_NUM
  <2>1. /\ i <= Len(tn) /\ Len(tn) \in Nat /\ i \in 1..(Len(tn) + 1)
        /\ Len(tn) <= MAX_TEMPLATE_NUM
    BY <1>2, <1>3, LenProperties DEF Loading, MemoryTyped
  <2> QED BY <2>1, Limits
<1>5. tpl \in [1..MAX_TEMPLATE_NUM -> Templates] /\ tpl[i] \in Templates /\ Fits(tpl[i])
  BY <1>2, <1>4 DEF MemoryTyped, Fits
<1>6. /\ TextsLoaded(i) /\ TableDone /\ NamesDone /\ table \in Seq(STRING)
      /\ \A t \in 1..(i - 1) : TextsLoaded(t) /\ RowsFound(t)
  BY <1>2, <1>3 DEF Loading, ReadSoFar, MemoryTyped
<1>7. tpl' = [tpl EXCEPT ![i] = rec]
  <2> HIDE DEF set
  <2> QED BY <1>3, <1>4, <1>5
<1>8. /\ res \in Seq(Variables) /\ Len(res) \in Nat /\ DOMAIN res = 1..Len(res)
      /\ \A v \in 1..Len(res) : res[v] \in Variables
  <2>1. res \in Seq(Variables)
    BY <1>5 DEF Templates
  <2> HIDE DEF res
  <2> QED BY <2>1, LenProperties, ElementOfSeq
<1>9. /\ set \in Seq(Variables) /\ Len(set) = Len(res)
      /\ \A v \in 1..Len(res) :
           /\ set[v].at = res[v].at /\ set[v].name = res[v].name
           /\ ~(\E u \in 1..v : Lost(u)) => set[v].row = RowOf(res[v].name)
  <2> HIDE DEF res, Lost
  <2>1. \A v \in 1..Len(res) : RowOf(res[v].name) \in Nat
    BY <1>6, RowIs
  <2>2. \A v \in 1..Len(res) :
          /\ [res[v] EXCEPT !.row = RowOf(res[v].name)] \in Variables
          /\ [res[v] EXCEPT !.row = RowOf(res[v].name)].at = res[v].at
          /\ [res[v] EXCEPT !.row = RowOf(res[v].name)].name = res[v].name
          /\ [res[v] EXCEPT !.row = RowOf(res[v].name)].row = RowOf(res[v].name)
    BY <1>8, <2>1 DEF Variables
  <2>3. set \in [1..Len(res) -> Variables]
    BY <1>8, <2>2
  <2>4. set \in Seq(Variables)
    BY <1>8, <2>3
  <2>5. Len(set) = Len(res)
    <3>1. DOMAIN set = 1..Len(res) /\ DOMAIN set = 1..Len(set) /\ Len(set) \in Nat
      BY <2>3, <2>4, LenProperties
    <3> HIDE DEF set
    <3> QED BY <1>8, <3>1
  <2> QED BY <1>8, <2>2, <2>4, <2>5
<1>10. /\ rec \in Templates /\ Fits(rec) /\ rec.res = set
       /\ rec.page = tpl[i].page /\ rec.none = tpl[i].none /\ rec.error = tpl[i].error
  <2> HIDE DEF set, res
  <2> QED BY <1>5, <1>9 DEF Templates, Fits
<1>11. CASE \E v \in DOMAIN res : Lost(v)
  <2>1. state' = "failed" /\ UNCHANGED <<i, tn_num>>
    BY <1>3, <1>11
  <2>2. /\ FilesKnown' /\ MemoryTyped' /\ ReadSoFar'
        /\ \A t \in 1..(i' - 1) : (TextsLoaded(t) /\ RowsFound(t))'
    <3> HIDE DEF rec
    <3> QED BY <1>1, <1>3, <1>7, <1>10, <2>1, LoadsOn DEF LoadSteps
  <2>3. Loading'
    BY <2>1, <2>2 DEF Loading
  <2>4. BadTemplates
    <3> DEFINE text == Dir(i).res.text
               got == Scan(text, ResOpenings(text))
    <3>1. PICK v \in 1..Len(res) : Lost(v)
      BY <1>8, <1>11
    <3>2. res[v].name \notin RowNames
      BY <1>2, <1>6, <3>1, RowNamed
    <3>3. Len(res) = Len(got) /\ \A u \in 1..Len(got) : res[u].name = ResName(text, got[u])
      BY <1>6 DEF TextsLoaded, ResLoaded
    <3>4. text \in Texts
      BY <1>2, <1>4, DirTyped DEF MemoryTyped
    <3>5. got \in Seq(Nat)
      <4> HIDE DEF text
      <4> QED BY <3>4, TextsScanned
    <3>6. got[v] \in Range(got)
      <4> HIDE DEF got
      <4>1. DOMAIN got = 1..Len(got)
        BY <3>5, LenProperties
      <4> QED BY <3>3, <4>1 DEF Range
    <3>7. ResName(text, got[v]) \notin RowNames
      BY <3>2, <3>3
    <3> QED BY <1>2, <1>4, <1>6, <3>6, <3>7, BadFile
  <2>5. BadTemplates'
    BY <1>3, <2>4, SameFiles
  <2> QED BY <2>2, <2>3, <2>5 DEF TemplatesInvariant
<1>12. CASE ~(\E v \in DOMAIN res : Lost(v))
  <2>1. /\ i' = i + 1
        /\ IF i = Len(tn) THEN tn_num' = Len(tn) /\ state' = "loaded"
                          ELSE state' = "page" /\ UNCHANGED tn_num
    BY <1>3, <1>12
  <2>2. /\ tpl' \in [1..MAX_TEMPLATE_NUM -> Templates] /\ tpl'[i] = rec
        /\ \A t \in 1..MAX_TEMPLATE_NUM : t # i => tpl'[t] = tpl[t]
    <3> HIDE DEF rec
    <3> QED BY <1>4, <1>5, <1>7, <1>10
  <2>3. FilesKnown'
    BY <1>2, <1>3 DEF FilesKnown
  <2>4. MemoryTyped'
    <3>1. \A t \in 1..MAX_TEMPLATE_NUM : Fits(tpl'[t])
      <4>1. \A t \in 1..MAX_TEMPLATE_NUM : Fits(tpl[t])
        BY <1>2 DEF MemoryTyped, Fits
      <4> HIDE DEF rec
      <4> QED BY <1>10, <2>2, <4>1
    <3>2. tn_num' = (IF state' = "loaded" THEN Len(tn') ELSE 0)
      BY <1>2, <1>3, <2>1 DEF MemoryTyped
    <3>3. state' \in Steps \cup {"loaded", "failed"}
      BY <2>1 DEF Steps
    <3>4. files'.disk = files.disk /\ i' \in 1..(Len(tn') + 1)
      BY <1>3, <1>4, <2>1
    <3> QED BY <1>2, <1>3, <2>2, <3>1, <3>2, <3>3, <3>4 DEF MemoryTyped, Fits
  <2>5. ReadSoFar'
    <3>1. TableDone' /\ NamesDone'
      BY <1>3, <1>6, DoneStays
    <3> QED BY <2>1, <3>1 DEF ReadSoFar
  <2>6. ASSUME NEW t \in 1..(i' - 1) PROVE (TextsLoaded(t) /\ RowsFound(t))'
    <3>1. CASE t # i
      <4>1. t \in 1..MAX_TEMPLATE_NUM /\ t \in 1..(i - 1)
        BY <1>4, <2>1, <3>1, Limits
      <4>2. TextsLoaded(t) /\ RowsFound(t) /\ tpl'[t] = tpl[t]
        BY <1>6, <2>2, <3>1, <4>1
      <4> QED BY <1>3, <4>2, SameTemplate
    <3>2. CASE t = i
      <4>0. UNCHANGED <<files, tn, table>>
        BY <1>3
      <4>1. tpl'[t].res = set /\ tpl'[t].page = tpl[t].page /\ tpl'[t].none = tpl[t].none
            /\ tpl'[t].error = tpl[t].error
        BY <1>10, <2>2, <3>2
      <4>2. TextLoaded(t, "page") /\ TextLoaded(t, "none") /\ TextLoaded(t, "error") /\ ResLoaded(t)
        BY <1>6, <3>2 DEF TextsLoaded
      <4>3. TextLoaded(t, "page")' /\ TextLoaded(t, "none")' /\ TextLoaded(t, "error")'
        BY <4>0, <4>1, <4>2, SameTemplate
      <4>4. ResLoaded(t)'
        <5>1. Dir(t)' = Dir(t)
          BY <4>0 DEF Dir
        <5> HIDE DEF set
        <5> QED BY <1>9, <3>2, <4>1, <4>2, <5>1 DEF ResLoaded
      <4>5. RowsFound(t)'
        <5>1. \A name : RowOf(name)' = RowOf(name)
          <6>1. TableSearched'
            BY RowOfIs, PTL
          <6> QED BY <1>3, <6>1, RowOfIs DEF TableSearched
        <5>2. \A v \in 1..Len(res) : ~(\E u \in 1..v : Lost(u)) /\ ~Lost(v)
          <6>1. \A v \in 1..Len(res) : ~Lost(v)
            BY <1>8, <1>12
          <6>2. \A v \in 1..Len(res) : \A u \in 1..v : u \in 1..Len(res)
            BY <1>8
          <6> QED BY <6>1, <6>2
        <5>3. \A v \in 1..Len(set) : set[v].row # 0 /\ set[v].row = RowOf(set[v].name)
          <6> HIDE DEF set
          <6> QED BY <1>9, <5>2
        <5> HIDE DEF set
        <5> QED BY <4>1, <5>1, <5>3 DEF RowsFound
      <4> QED BY <4>3, <4>4, <4>5 DEF TextsLoaded
    <3> QED BY <3>1, <3>2
  <2>7. Loading'
    <3>1. state' \in {"page", "loaded"}
      BY <2>1
    <3>2. state' = "page" => i' <= Len(tn')
      BY <1>3, <1>4, <2>1
    <3>3. state' = "loaded" => i' = Len(tn') + 1
      BY <1>3, <2>1
    <3> QED BY <2>6, <3>1, <3>2, <3>3 DEF Loading
  <2> QED BY <2>1, <2>3, <2>4, <2>5, <2>7 DEF TemplatesInvariant
<1> QED BY <1>11, <1>12

LEMMA TemplatesStep == TemplatesInvariant /\ [TemplatesNext]_templateVars => TemplatesInvariant'
<1>1. SUFFICES ASSUME TemplatesInvariant, [TemplatesNext]_templateVars PROVE TemplatesInvariant'
  OBVIOUS
<1>2. CASE TemplatesNext
  <2>1. CASE Comment
    BY <1>1, <2>1, CommentStep
  <2>2. CASE Unreadable
    BY <1>1, <2>2, UnreadableStep
  <2>3. CASE TableLine
    BY <1>1, <2>3, TableLineStep
  <2>4. CASE EndOfTable
    BY <1>1, <2>4, EndOfTableStep
  <2>5. CASE NameLine
    BY <1>1, <2>5, NameLineStep
  <2>6. CASE EndOfNames
    BY <1>1, <2>6, EndOfNamesStep
  <2>7. CASE LoadPage
    BY <1>1, <2>7, LoadContentStep DEF LoadPage
  <2>8. CASE LoadNone
    BY <1>1, <2>8, LoadContentStep DEF LoadNone
  <2>9. CASE LoadError
    BY <1>1, <2>9, LoadContentStep DEF LoadError
  <2>10. CASE LoadRes
    BY <1>1, <2>10, LoadResStep
  <2>11. CASE LoadConfig
    BY <1>1, <2>11, LoadConfigStep
  <2>12. CASE SetMethods
    BY <1>1, <2>12, SetMethodsStep
  <2> QED BY <1>2, <2>1, <2>2, <2>3, <2>4, <2>5, <2>6, <2>7, <2>8, <2>9, <2>10, <2>11, <2>12
          DEF TemplatesNext
<1>3. CASE UNCHANGED templateVars
  <2>1. UNCHANGED <<files, enable_digest, rest, table, tn, tn_num, tpl, i, state>>
    BY <1>3 DEF templateVars
  <2>2. FilesKnown /\ MemoryTyped /\ ReadSoFar /\ Loading /\ (state = "failed" => BadTemplates)
    BY <1>1 DEF TemplatesInvariant
  <2>3. FilesKnown' /\ MemoryTyped'
    <3>1. files'.disk = files.disk
      BY <2>1
    <3> QED BY <2>1, <2>2, <3>1 DEF FilesKnown, MemoryTyped
  <2>4. ReadSoFar'
    <3>1. TableDone => TableDone'
      BY <2>1, DoneStays
    <3>2. NamesDone => NamesDone'
      BY <2>1, DoneStays
    <3>3. ASSUME state = "table" PROVE (\E at : IsRest(rest, files.table, at) /\ TableRead(at))'
      <4>1. PICK at : IsRest(rest, files.table, at) /\ TableRead(at)
        BY <2>2, <3>3 DEF ReadSoFar
      <4>2. TableRead(at)'
        BY <2>1, <4>1, TableReadStays
      <4>3. IsRest(rest, files.table, at)'
        BY <2>1, <4>1 DEF IsRest
      <4> QED BY <4>2, <4>3
    <3>4. ASSUME state = "names" PROVE (\E at : IsRest(rest, files.list, at) /\ NamesRead(at))'
      <4>1. PICK at : IsRest(rest, files.list, at) /\ NamesRead(at)
        BY <2>2, <3>4 DEF ReadSoFar
      <4>2. NamesRead(at)'
        BY <2>1, <4>1, NamesReadStays
      <4>3. IsRest(rest, files.list, at)'
        BY <2>1, <4>1 DEF IsRest
      <4> QED BY <4>2, <4>3
    <3> QED BY <2>1, <2>2, <3>1, <3>2, <3>3, <3>4 DEF ReadSoFar
  <2>5. Loading'
    <3>1. \A t : (TextsLoaded(t) => TextsLoaded(t)') /\ (RowsFound(t) => RowsFound(t)')
      BY <2>1, SameTemplate
    <3>2. \A t, p : TextLoaded(t, p) => TextLoaded(t, p)'
      BY <2>1 DEF TextLoaded, Dir
    <3>3. \A t \in 1..(i' - 1) : (TextsLoaded(t) /\ RowsFound(t))'
      BY <2>1, <2>2, <3>1 DEF Loading
    <3>4. (TextsLoaded(i) => TextsLoaded(i)') /\ \A p : TextLoaded(i, p) => TextLoaded(i, p)'
      <4>1. \A p : TextLoaded(i, p) => TextLoaded(i, p)'
        BY <2>1 DEF TextLoaded, Dir
      <4>2. ResLoaded(i) => ResLoaded(i)'
        BY <2>1 DEF ResLoaded, Dir
      <4> QED BY <4>1, <4>2 DEF TextsLoaded
    <3> QED BY <2>1, <2>2, <3>3, <3>4 DEF Loading
  <2>6. state' = "failed" => BadTemplates'
    BY <2>1, <2>2, SameFiles
  <2> QED BY <2>3, <2>4, <2>5, <2>6 DEF TemplatesInvariant
<1> QED BY <1>1, <1>2, <1>3

\* template_load: the inductive invariant, which says what is in memory at each
\* step, for any files and limits.
THEOREM TemplatesInvariantHolds == TemplatesSpec => []TemplatesInvariant
BY TemplatesInitially, TemplatesStep, PTL DEF TemplatesSpec

LEMMA TypesFollow == TemplatesInvariant => TemplatesTypeOK
<1>1. SUFFICES ASSUME TemplatesInvariant PROVE TemplatesTypeOK
  OBVIOUS
<1>2. MemoryTyped /\ enable_digest = FALSE
  BY <1>1 DEF TemplatesInvariant, FilesKnown
<1>3. Len(tn) \in Nat /\ Len(tn) <= MAX_TEMPLATE_NUM
  BY <1>2, LenProperties DEF MemoryTyped
<1>4. tn_num \in 0..MAX_TEMPLATE_NUM /\ i \in 1..(MAX_TEMPLATE_NUM + 1)
  <2>1. tn_num \in {0, Len(tn)} /\ i \in 1..(Len(tn) + 1)
    BY <1>2 DEF MemoryTyped
  <2>2. 0 \in 0..MAX_TEMPLATE_NUM /\ Len(tn) \in 0..MAX_TEMPLATE_NUM
    BY <1>3, Limits
  <2>3. \A k \in 1..(Len(tn) + 1) : k \in 1..(MAX_TEMPLATE_NUM + 1)
    BY <1>3, Limits
  <2> QED BY <2>1, <2>2, <2>3
<1>5. ASSUME NEW t \in DOMAIN tpl
      PROVE  /\ tpl[t].digest \in {0, 2} /\ tpl[t].overwritten \in BOOLEAN
             /\ \A p \in {"page", "none", "error"} : Len(tpl[t][p]) <= MAX_VARS_NUM
  <2>1. t \in 1..MAX_TEMPLATE_NUM /\ tpl[t] \in Templates
    BY <1>2 DEF MemoryTyped
  <2>2. tpl[t].digest \in {0, 2} /\ tpl[t].overwritten \in BOOLEAN
    BY <2>1 DEF Templates
  <2>3. \A p \in {"page", "none", "error"} : Len(tpl[t][p]) <= MAX_VARS_NUM
    BY <1>2, <2>1 DEF MemoryTyped
  <2> QED BY <2>2, <2>3
<1> QED BY <1>2, <1>3, <1>4, <1>5 DEF TemplatesTypeOK, MemoryTyped

\* TemplatesTypeOK for any files and limits: the tables of variables and
\* templates keep to their sizes, and a digest is on or off.
THEOREM TemplatesTypeCorrect == TemplatesSpec => []TemplatesTypeOK
BY TemplatesInvariantHolds, TypesFollow, PTL

LEMMA MarksCover ==
  ASSUME FilesKnown, MemoryTyped, NEW t \in 1..Len(tn), TextsLoaded(t)
  PROVE  /\ \A p \in {"page", "none", "error"} :
              Covers(Dir(t)[p].text, UiOpenings(Dir(t)[p].text), tpl[t][p])
         /\ LET text == Dir(t).res.text IN
            Covers(text, ResOpenings(text), [v \in DOMAIN tpl[t].res |-> tpl[t].res[v].at])
<1>1. \A p \in {"page", "none", "error", "res"} : Dir(t)[p].text \in Texts
  BY DirTyped DEF MemoryTyped
<1>2. ASSUME NEW p \in {"page", "none", "error"}
      PROVE  Covers(Dir(t)[p].text, UiOpenings(Dir(t)[p].text), tpl[t][p])
  <2>1. tpl[t][p] = Scan(Dir(t)[p].text, UiOpenings(Dir(t)[p].text))
    BY DEF TextsLoaded, TextLoaded
  <2> QED BY <1>1, <2>1, TextsScanned
<1> DEFINE text == Dir(t).res.text
           got == Scan(text, ResOpenings(text))
<1>3. /\ Len(tpl[t].res) = Len(got)
      /\ \A v \in 1..Len(got) : tpl[t].res[v].at = got[v]
  BY DEF TextsLoaded, ResLoaded
<1>4. text \in Texts
  BY <1>1
<1> HIDE DEF text
<1>5. got \in Seq(Nat) /\ Covers(text, ResOpenings(text), got)
  BY <1>4, TextsScanned
<1> HIDE DEF got
<1>6. got \in [1..Len(got) -> Nat]
  BY <1>5, LenProperties
<1>7. DOMAIN tpl[t].res = 1..Len(got)
  <2>1. t \in 1..MAX_TEMPLATE_NUM
    <3>1. Len(tn) \in Nat /\ Len(tn) <= MAX_TEMPLATE_NUM
      BY LenProperties DEF MemoryTyped
    <3> QED BY <3>1, Limits
  <2>2. tpl[t].res \in Seq(Variables)
    BY <2>1 DEF MemoryTyped, Templates
  <2> QED BY <1>3, <2>2, LenProperties
<1>8. [v \in DOMAIN tpl[t].res |-> tpl[t].res[v].at] = got
  BY <1>3, <1>6, <1>7
<1> QED BY <1>2, <1>5, <1>8 DEF text

LEMMA VarsFollow == TemplatesInvariant => VarsFound
<1>1. SUFFICES ASSUME TemplatesInvariant PROVE VarsFound
  OBVIOUS
<1>2. FilesKnown /\ MemoryTyped /\ Loading
  BY <1>1 DEF TemplatesInvariant
<1>3. ASSUME NEW t \in 1..Len(tn), t < i \/ (t = i /\ state \in {"config", "methods"})
      PROVE  TextsLoaded(t)
  <2>1. CASE t < i
    <3>1. t \in 1..(i - 1)
      <4>1. i \in Int /\ t \in Nat /\ 1 <= t
        <5>1. Len(tn) \in Nat /\ i \in 1..(Len(tn) + 1)
          BY <1>2, LenProperties DEF MemoryTyped
        <5> QED BY <5>1
      <4> QED BY <2>1, <4>1
    <3> QED BY <1>2, <3>1 DEF Loading
  <2>2. CASE t = i /\ state \in {"config", "methods"}
    BY <1>2, <2>2 DEF Loading
  <2> QED BY <1>3, <2>1, <2>2
<1> QED BY <1>2, <1>3, MarksCover DEF VarsFound

\* VarsFound for any files and limits: of a text that is loaded, the variables
\* taken are in order and apart, and none is left out but for want of places.
THEOREM VarsFoundHolds == TemplatesSpec => []VarsFound
BY TemplatesInvariantHolds, VarsFollow, PTL

LEMMA RowsCounted ==
  ASSUME FilesKnown, table \in Seq(STRING), TableDone, NEW name, RowOf(name) # 0
  PROVE  LET r == CHOOSE r \in Rows : /\ files.table[r].name = name
                                      /\ \A q \in Rows : files.table[q].name = name => r <= q
         IN  RowOf(name) = Cardinality({q \in Rows : q <= r})
<1> DEFINE C(l) == Cardinality(Upto(Rows, l))
           Named == {r \in Rows : files.table[r].name = name}
           First(r) == /\ files.table[r].name = name
                       /\ \A q \in Rows : files.table[q].name = name => r <= q
           r == CHOOSE r \in Rows : First(r)
<1>1. Lists(table, Rows, Len(files.table), files.table)
  BY DEF TableDone, TableRead
<1>2. /\ Len(files.table) \in Nat /\ Rows \in SUBSET (1..Len(files.table)) /\ Rows \in SUBSET Nat
  BY FilesWell DEF FilesKnown
<1>3. Upto(Rows, Len(files.table)) = Rows
  <2>1. \A q \in Rows : q <= Len(files.table)
    BY <1>2
  <2> QED BY <2>1 DEF Upto
<1>4. /\ \A q \in Rows : C(q) \in 1..Len(table) /\ table[C(q)] = files.table[q].name
      /\ \A t \in 1..Len(table) : \E q \in Rows : C(q) = t
  BY <1>1, <1>3 DEF Lists
<1>5. /\ RowOf(name) \in 1..Len(table) /\ table[RowOf(name)] = name /\ RowOf(name) \in Nat
      /\ \A t \in 1..Len(table) : table[t] = name => RowOf(name) <= t
  BY RowIs
<1>6. PICK l \in Rows : C(l) = RowOf(name)
  BY <1>4, <1>5
<1>7. files.table[l].name = name
  BY <1>4, <1>5, <1>6
<1>8. \E q \in Rows : First(q)
  <2>1. Named \in SUBSET Nat /\ Named # {}
    BY <1>2, <1>6, <1>7
  <2>2. \E q \in Named : \A j \in Named : q <= j
    <3> HIDE DEF Named
    <3> QED BY <2>1, LeastOf
  <2> QED BY <2>2
<1>9. r \in Rows /\ First(r)
  <2> HIDE DEF First
  <2> QED BY <1>8
<1> HIDE DEF r
<1>10. RowOf(name) <= C(r)
  BY <1>4, <1>5, <1>9
<1>11. C(r) <= C(l) /\ C(r) \in Nat
  <2>1. r <= l /\ r \in Nat /\ l \in Nat
    BY <1>2, <1>6, <1>7, <1>9
  <2> QED BY <1>2, <1>6, <1>9, <2>1, UptoOrdered, UptoCounted
<1>12. RowOf(name) = C(r)
  BY <1>5, <1>6, <1>10, <1>11
<1> QED BY <1>12 DEF Upto, r

LEMMA TemplateFound ==
  ASSUME TemplatesInvariant, state = "loaded", NEW n
  PROVE  LET at == {Position(l) : l \in {l \in Listed : files.list[l].name.name = n.name}} IN
         IF at = {} THEN temp_get_template_index(n) = 0
         ELSE /\ temp_get_template_index(n) \in at
              /\ \A l \in at : temp_get_template_index(n) <= l
<1> DEFINE at == {Position(l) : l \in {l \in Listed : files.list[l].name.name = n.name}}
           I == {t \in 1..Len(tn) : tn[t].name = n.name}
           place == temp_get_template_index(n)
<1>1. FilesKnown /\ MemoryTyped /\ NamesDone /\ tn_num = Len(tn)
  BY DEF TemplatesInvariant, ReadSoFar, MemoryTyped
<1>2. tn \in Seq(DOMAIN files.disk) /\ Len(tn) \in Nat /\ Len(tn) <= MAX_TEMPLATE_NUM
  BY <1>1, LenProperties DEF MemoryTyped
<1>3. SubSeq(tn, 1, tn_num) = tn
  BY <1>1, <1>2, SubSeqFull
<1>4. place = IF I # {} THEN Min(I) ELSE 0
  BY <1>3 DEF temp_get_template_index, SelectInSeq
<1>5. at = I
  <2>1. ASSUME NEW l \in Listed, files.list[l].name.name = n.name PROVE Position(l) \in I
    BY <1>1, <1>2, <2>1, NamesAre
  <2>2. ASSUME NEW t \in I PROVE t \in at
    <3>1. PICK l \in Listed : Position(l) = t /\ tn[t] = files.list[l].name
      BY <1>1, <1>2, NamesAre
    <3>2. files.list[l].name.name = n.name
      BY <3>1
    <3> QED BY <3>1, <3>2
  <2> QED BY <2>1, <2>2
<1>6. I \in SUBSET (1..Len(tn))
  OBVIOUS
<1> HIDE DEF at, I, place
<1>7. /\ I = {} <=> place = 0
      /\ place # 0 => place \in I /\ \A t \in I : place <= t
  BY <1>2, <1>4, <1>6, FirstPlace
<1>8. IF at = {} THEN place = 0 ELSE place \in at /\ \A l \in at : place <= l
  BY <1>5, <1>7
<1> QED BY <1>8 DEF at, place

LEMMA FirstFollows == TemplatesInvariant => FirstWins
<1>1. SUFFICES ASSUME TemplatesInvariant PROVE FirstWins
  OBVIOUS
<1>2. FilesKnown /\ MemoryTyped /\ ReadSoFar /\ Loading
  BY <1>1 DEF TemplatesInvariant
<1>3. ASSUME NEW t \in 1..tn_num, NEW v \in DOMAIN tpl[t].res
      PROVE  LET var == tpl[t].res[v]
                 r   == CHOOSE r \in Rows : /\ files.table[r].name = var.name
                                            /\ \A q \in Rows : files.table[q].name = var.name => r <= q
             IN  var.row = Cardinality({q \in Rows : q <= r})
  <2>1. state = "loaded" /\ tn_num = Len(tn)
    <3>1. tn_num # 0
      <4>1. \A k \in 1..0 : FALSE
        OBVIOUS
      <4> QED BY <4>1
    <3> QED BY <1>2, <3>1 DEF MemoryTyped
  <2>2. t \in 1..(i - 1) /\ t \in 1..MAX_TEMPLATE_NUM
    <3>1. Len(tn) \in Nat /\ i = Len(tn) + 1 /\ Len(tn) <= MAX_TEMPLATE_NUM
      BY <1>2, <2>1, LenProperties DEF MemoryTyped, Loading
    <3> QED BY <2>1, <3>1, Limits
  <2>3. RowsFound(t)
    BY <1>2, <2>2 DEF Loading
  <2>4. v \in 1..Len(tpl[t].res)
    <3>1. tpl[t].res \in Seq(Variables)
      BY <1>2, <2>2 DEF MemoryTyped, Templates
    <3> QED BY <3>1, LenProperties
  <2>5. tpl[t].res[v].row = RowOf(tpl[t].res[v].name) /\ RowOf(tpl[t].res[v].name) # 0
    BY <2>3, <2>4 DEF RowsFound
  <2>6. TableDone /\ table \in Seq(STRING)
    BY <1>2, <2>1 DEF ReadSoFar, MemoryTyped
  <2> QED BY <1>2, <2>5, <2>6, RowsCounted
<1>4. ASSUME state = "loaded", NEW n \in DOMAIN files.disk
      PROVE  LET at == {Position(l) : l \in {l \in Listed : files.list[l].name.name = n.name}} IN
             IF at = {} THEN temp_get_template_index(n) = 0
             ELSE /\ temp_get_template_index(n) \in at
                  /\ \A l \in at : temp_get_template_index(n) <= l
  BY <1>1, <1>4, TemplateFound
<1> QED BY <1>3, <1>4 DEF FirstWins

\* FirstWins for any files and limits: a variable of a loaded template has the
\* method of the first row that names it, and a request finds the first template
\* of its name.
THEOREM FirstWinsHolds == TemplatesSpec => []FirstWins
BY TemplatesInvariantHolds, FirstFollows, PTL

\* template_load fails for these files only, and never succeeds with them.
FailsIffBad ==
  /\ state = "failed" => BadTemplates
  /\ state = "loaded" => ~BadTemplates

LEMMA LoadedIsGood == TemplatesInvariant => FailsIffBad
<1>1. SUFFICES ASSUME TemplatesInvariant, state = "loaded", BadTemplates PROVE FALSE
  BY DEF FailsIffBad, TemplatesInvariant
<1>2. FilesKnown /\ MemoryTyped /\ ReadSoFar /\ Loading /\ TableDone /\ NamesDone
  BY <1>1 DEF TemplatesInvariant, ReadSoFar
<1>3. /\ Len(files.table) \in Nat /\ DOMAIN files.table = 1..Len(files.table)
      /\ Rows \in SUBSET (1..Len(files.table))
  BY <1>2, FilesWell DEF FilesKnown
<1>4. TableRead(Len(files.table))
  BY <1>2 DEF TableDone
<1>5. Upto(Rows, Len(files.table)) = Rows
  <2>1. \A r \in Rows : r <= Len(files.table)
    BY <1>3
  <2> QED BY <2>1 DEF Upto
<1>6. ~(\E l \in DOMAIN files.table : files.table[l].kind \in {"broken", "missing"})
  BY <1>3, <1>4 DEF TableRead
<1>7. ~(\E r \in Rows : ~Valid(files.table[r]))
  BY <1>4, <1>5 DEF TableRead
<1>8. ~(Cardinality(Rows) >= MAX_VARS_NUM)
  <2>1. Len(table) < MAX_VARS_NUM /\ Cardinality(Rows) = Len(table) /\ Len(table) \in Nat
    BY <1>2, <1>4, <1>5, LenProperties DEF TableRead, Lists, MemoryTyped
  <2> QED BY <2>1, Limits
<1>9. ~(\E l \in DOMAIN files.list : files.list[l].kind = "missing")
  BY <1>2, NamesAre DEF MemoryTyped
<1>10. ASSUME NEW l \in Listed
       PROVE  LET d == files.disk[files.list[l].name] IN
              /\ \A p \in {"page", "none", "error", "res"} : d[p].ok
              /\ \A k \in Range(Scan(d.res.text, ResOpenings(d.res.text))) :
                   ResName(d.res.text, k) \in RowNames
  <2> DEFINE t == Position(l)
             text == Dir(t).res.text
             got == Scan(text, ResOpenings(text))
  <2>1. t \in 1..Len(tn) /\ Dir(t) = files.disk[files.list[l].name]
    BY <1>2, NamesAre DEF MemoryTyped, Dir
  <2> HIDE DEF t
  <2>2. TextsLoaded(t) /\ RowsFound(t)
    <3>1. Len(tn) \in Nat /\ i = Len(tn) + 1
      BY <1>1, <1>2, LenProperties DEF MemoryTyped, Loading
    <3>2. t \in 1..(i - 1)
      BY <2>1, <3>1
    <3> QED BY <1>2, <3>2 DEF Loading
  <2>3. \A p \in {"page", "none", "error", "res"} : Dir(t)[p].ok
    <3>1. Dir(t)["page"].ok /\ Dir(t)["none"].ok /\ Dir(t)["error"].ok /\ Dir(t).res.ok
      BY <2>2 DEF TextsLoaded, TextLoaded, ResLoaded
    <3> QED BY <3>1
  <2>4. /\ Len(tpl[t].res) = Len(got)
        /\ \A v \in 1..Len(got) : tpl[t].res[v].name = ResName(text, got[v])
    BY <2>2 DEF TextsLoaded, ResLoaded
  <2>5. text \in Texts
    BY <1>2, <2>1, DirTyped DEF MemoryTyped
  <2> HIDE DEF text
  <2>6. got \in Seq(Nat)
    BY <2>5, TextsScanned
  <2> HIDE DEF got
  <2>7. ASSUME NEW k \in Range(got) PROVE ResName(text, k) \in RowNames
    <3>1. PICK v \in 1..Len(got) : got[v] = k
      BY <2>6, LenProperties DEF Range
    <3>2. RowOf(tpl[t].res[v].name) # 0
      BY <2>2, <2>4 DEF RowsFound
    <3>3. tpl[t].res[v].name \in RowNames
      BY <1>2, <3>2, RowNamed DEF MemoryTyped
    <3> QED BY <2>4, <3>1, <3>3
  <2> QED BY <2>1, <2>3, <2>7 DEF got, text
<1> QED BY <1>1, <1>6, <1>7, <1>8, <1>9, <1>10 DEF BadTemplates

\* template_load: for any files and limits it fails if and only if the files are
\* such that it must (BadTemplates says which, without the loading).
THEOREM FailsIffBadHolds == TemplatesSpec => []FailsIffBad
BY TemplatesInvariantHolds, LoadedIsGood, PTL

(***************************************************************************)
(* The start of the process: each of its steps is one of a load, or none.  *)
(***************************************************************************)
LEMMA LoadsStart == Init => ConfInit /\ ServersInit /\ TemplatesInit
BY DEF Init

LEMMA LoadsStep ==
  [Next]_vars => [ConfNext]_confVars /\ [ServersNext]_serverVars /\ [TemplatesNext]_templateVars
<1>1. SUFFICES ASSUME [Next]_vars
               PROVE  [ConfNext]_confVars /\ [ServersNext]_serverVars /\ [TemplatesNext]_templateVars
  OBVIOUS
<1>2. CASE LoadConf
  BY <1>2 DEF LoadConf
<1>3. CASE ServerConfLoad
  BY <1>3 DEF ServerConfLoad
<1>4. CASE template_init
  BY <1>4 DEF template_init
<1>5. CASE LoadTemplates
  BY <1>5 DEF LoadTemplates
<1>6. CASE Listen
  BY <1>6 DEF Listen
<1>7. CASE UNCHANGED vars
  BY <1>7 DEF vars
<1> QED BY <1>1, <1>2, <1>3, <1>4, <1>5, <1>6, <1>7 DEF Next

\* main, init: each load goes on during the start as it does on its own.
THEOREM StartIsTheLoads == Spec => ConfSpec /\ ServersSpec /\ TemplatesSpec
BY LoadsStart, LoadsStep, PTL DEF Spec, ConfSpec, ServersSpec, TemplatesSpec

\* The order of the loads, and what went well so far.
InTurn ==
  /\ stage \in Stages /\ missing \in SUBSET Outages
  /\ stage = "conf" => conf_loaded = FALSE /\ file = "server" /\ state = "table"
  /\ stage = "servers" =>
       /\ conf_loaded = TRUE /\ file # "done" /\ state = "table" /\ "ui.conf" \notin missing
  /\ stage \in {"memory", "templates", "port", "listening"} =>
       /\ conf_loaded = TRUE /\ file = "done"
       /\ "ui.conf" \notin missing /\ "server.conf" \notin missing
  /\ stage = "memory" => state = "table"
  /\ stage = "templates" => "memory" \notin missing /\ state \notin {"loaded", "failed"}
  /\ stage \in {"port", "listening"} => "memory" \notin missing /\ state = "loaded"
  /\ stage = "listening" => "port" \notin missing
  /\ stage = "exited" => missing # {} \/ state = "failed"

LEMMA InTurnInitially == Init => InTurn
<1>1. SUFFICES ASSUME Init PROVE InTurn
  OBVIOUS
<1>2. stage = "conf" /\ conf_loaded = FALSE /\ file = "server" /\ state = "table"
  BY <1>1 DEF Init, ConfInit, ServersInit, TemplatesInit
<1>3. missing \in SUBSET Outages
  BY <1>1 DEF Init
<1> QED BY <1>2, <1>3 DEF InTurn, Stages

LEMMA InTurnStep ==
  ASSUME InTurn, [Next]_vars, conf_loaded' \in BOOLEAN
  PROVE  InTurn'
<1>1. CASE LoadConf
  <2>1. stage = "conf" /\ UNCHANGED <<missing, file, state>> /\ file = "server" /\ state = "table"
    BY <1>1 DEF LoadConf, Fails, GoesOn, serverVars, templateVars, InTurn
  <2>2. \/ "ui.conf" \in missing /\ stage' = "exited"
        \/ "ui.conf" \notin missing /\ stage' = IF conf_loaded' THEN "servers" ELSE stage
    BY <1>1 DEF LoadConf, Fails, GoesOn
  <2>3. CASE "ui.conf" \in missing /\ stage' = "exited"
    BY <2>1, <2>3 DEF InTurn, Stages
  <2>4. CASE "ui.conf" \notin missing /\ stage' = IF conf_loaded' THEN "servers" ELSE stage
    <3>1. CASE conf_loaded' = TRUE
      BY <2>1, <2>4, <3>1 DEF InTurn, Stages
    <3>2. CASE conf_loaded' = FALSE
      BY <2>1, <2>4, <3>2 DEF InTurn, Stages
    <3> QED BY <3>1, <3>2
  <2> QED BY <2>2, <2>3, <2>4
<1>2. CASE ServerConfLoad
  <2>1. stage = "servers" /\ UNCHANGED <<missing, conf_loaded, state>>
    BY <1>2 DEF ServerConfLoad, Fails, GoesOn, confVars, templateVars
  <2>2. \/ "server.conf" \in missing /\ stage' = "exited"
        \/ "server.conf" \notin missing /\ stage' = IF file' = "done" THEN "memory" ELSE stage
    BY <1>2 DEF ServerConfLoad, Fails, GoesOn
  <2>3. CASE "server.conf" \in missing /\ stage' = "exited"
    BY <2>1, <2>3 DEF InTurn, Stages
  <2>4. CASE "server.conf" \notin missing /\ stage' = IF file' = "done" THEN "memory" ELSE stage
    BY <2>1, <2>4 DEF InTurn, Stages
  <2> QED BY <2>2, <2>3, <2>4
<1>3. CASE template_init
  <2>1. stage = "memory" /\ UNCHANGED <<missing, conf_loaded, file, state>>
    BY <1>3 DEF template_init, Fails, GoesOn, confVars, serverVars, templateVars
  <2>2. \/ "memory" \in missing /\ stage' = "exited"
        \/ "memory" \notin missing /\ stage' = "templates"
    BY <1>3 DEF template_init, Fails, GoesOn
  <2> QED BY <2>1, <2>2 DEF InTurn, Stages
<1>4. CASE LoadTemplates
  <2>1. stage = "templates" /\ UNCHANGED <<missing, conf_loaded, file>>
    BY <1>4 DEF LoadTemplates, confVars, serverVars
  <2>2. stage' = CASE state' = "failed" -> "exited"
                   [] state' = "loaded" -> "port"
                   [] OTHER             -> stage
    BY <1>4 DEF LoadTemplates
  <2>3. CASE state' = "failed"
    BY <2>1, <2>2, <2>3 DEF InTurn, Stages
  <2>4. CASE state' = "loaded"
    BY <2>1, <2>2, <2>4 DEF InTurn, Stages
  <2>5. CASE state' \notin {"failed", "loaded"}
    BY <2>1, <2>2, <2>5 DEF InTurn, Stages
  <2> QED BY <2>3, <2>4, <2>5
<1>5. CASE Listen
  <2>1. stage = "port" /\ UNCHANGED <<missing, conf_loaded, file, state>>
    BY <1>5 DEF Listen, Fails, GoesOn, confVars, serverVars, templateVars
  <2>2. \/ "port" \in missing /\ stage' = "exited"
        \/ "port" \notin missing /\ stage' = "listening"
    BY <1>5 DEF Listen, Fails, GoesOn
  <2> QED BY <2>1, <2>2 DEF InTurn, Stages
<1>6. CASE UNCHANGED vars
  <2>1. UNCHANGED <<stage, missing, conf_loaded, file, state>>
    BY <1>6 DEF vars, startVars, confVars, serverVars, templateVars
  <2> QED BY <2>1 DEF InTurn
<1> QED BY <1>1, <1>2, <1>3, <1>4, <1>5, <1>6 DEF Next

\* main, init: the loads come in their order, and each only when all before it
\* went well.
THEOREM InTurnHolds == Spec => []InTurn
<1>1. ConfTypeOK' => conf_loaded' \in BOOLEAN
  BY DEF ConfTypeOK
<1>2. InTurn /\ ConfTypeOK' /\ [Next]_vars => InTurn'
  BY <1>1, InTurnStep
<1> QED BY <1>2, InTurnInitially, StartIsTheLoads, ConfTypeCorrect, PTL DEF Spec

LEMMA StartTyped ==
  ConfTypeOK /\ ServersTypeOK /\ TemplatesTypeOK /\ InTurn => StartupTypeOK
BY DEF InTurn, StartupTypeOK

\* StartupTypeOK, for any files, limits and lines: the types of all that is
\* loaded, in whatever stage the start is.
THEOREM StartupTypeCorrect == Spec => []StartupTypeOK
BY StartTyped, InTurnHolds, StartIsTheLoads, ConfTypeCorrect, ServersTypeCorrect,
   TemplatesTypeCorrect, PTL

\* What each load keeps on its own, it keeps during the start.
THEOREM LoadsKeepTheirs ==
  Spec => [](/\ ChecksAsWritten /\ MergeStatSticksOff
             /\ LinesAsHeard /\ SharesAreRates /\ NumbersFit
             /\ VarsFound /\ FirstWins)
BY StartIsTheLoads, ChecksAsWrittenHolds, MergeStatSticksOffHolds, LinesAsHeardHolds,
   SharesAreRatesHolds, NumbersFitHolds, VarsFoundHolds, FirstWinsHolds, PTL

LEMMA NothingFoundYet ==
  ASSUME TemplatesInvariant, state # "loaded", NEW n
  PROVE  temp_get_template_index(n) = 0
<1>1. tn_num = 0
  BY DEF TemplatesInvariant, MemoryTyped
<1>2. SubSeq(tn, 1, 0) = <<>> /\ Len(<<>>) = 0
  BY SubSeqEmpty
<1>3. \A k \in 1..Len(SubSeq(tn, 1, 0)) : FALSE
  BY <1>2
<1> QED BY <1>1, <1>3 DEF temp_get_template_index, SelectInSeq

LEMMA ListensFollows == TemplatesInvariant /\ InTurn /\ FailsIffBad => ListensIffLoadable
<1>1. SUFFICES ASSUME TemplatesInvariant, InTurn, FailsIffBad PROVE ListensIffLoadable
  OBVIOUS
<1>2. stage = "exited" => missing # {} \/ BadTemplates
  BY <1>1 DEF InTurn, FailsIffBad
<1>3. stage = "listening" => missing = {} /\ ~BadTemplates
  <2>1. SUFFICES ASSUME stage = "listening" PROVE missing = {} /\ ~BadTemplates
    OBVIOUS
  <2>2. state = "loaded" /\ \A what \in Outages : what \notin missing
    BY <1>1, <2>1 DEF InTurn, Outages
  <2>3. missing \in SUBSET Outages
    BY <1>1 DEF InTurn
  <2> QED BY <1>1, <2>2, <2>3 DEF FailsIffBad
<1>4. state # "loaded" => \A n \in DOMAIN files.disk : temp_get_template_index(n) = 0
  BY <1>1, NothingFoundYet
<1> QED BY <1>2, <1>3, <1>4 DEF ListensIffLoadable

\* ListensIffLoadable for any files, limits and lines of the three
\* configurations: the process listens only if nothing was missing and no
\* template is broken, gives up only if something was, and before the templates
\* are loaded no request finds one.
THEOREM ListensIffLoadableHolds == Spec => []ListensIffLoadable
BY ListensFollows, TemplatesInvariantHolds, InTurnHolds, StartIsTheLoads, FailsIffBadHolds, PTL

=============================================================================
