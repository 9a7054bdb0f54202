-------------------------------- MODULE Lemmas --------------------------------
(***************************************************************************)
(* Lemmas about numbers, recursive functions and sequences that the proofs *)
(* of several modules rest on.                                             *)
(***************************************************************************)
EXTENDS Integers, SequencesExt, SequenceTheorems, FiniteSetTheorems, WellFoundedInduction, TLAPS

(***************************************************************************)
(* Induction.  The library's theorems take the statement as an operator;   *)
(* here it is a set, that of the elements for which it holds.              *)
(***************************************************************************)
LEMMA LeastOf ==
  ASSUME NEW S \in SUBSET Nat, S # {}
  PROVE  \E k \in S : \A j \in S : k <= j
<1>1. \E k \in S : \A j \in S : ~ (<<j, k>> \in OpToRel(<, Nat))
  BY NatLessThanWellFounded, WFMin
<1>2. PICK k \in S : \A j \in S : ~ (<<j, k>> \in OpToRel(<, Nat))
  BY <1>1
<1>3. \A j \in S : ~ (j < k)
  BY <1>2 DEF OpToRel
<1> QED BY <1>3

LEMMA NatBySteps ==
  ASSUME NEW S, 0 \in S, \A n \in Nat : n \in S => n + 1 \in S
  PROVE  \A n \in Nat : n \in S
<1> DEFINE Rest == {n \in Nat : n \notin S}
<1>1. SUFFICES ASSUME Rest # {} PROVE FALSE
  OBVIOUS
<1>2. PICK n \in Rest : \A j \in Rest : n <= j
  <2>1. Rest \in SUBSET Nat
    OBVIOUS
  <2> HIDE DEF Rest
  <2> QED BY <1>1, <2>1, LeastOf
<1>3. n \in Nat /\ n \notin S
  OBVIOUS
<1>4. n # 0
  BY <1>3
<1>5. n - 1 \in Nat /\ ~ (n <= n - 1) /\ n - 1 + 1 = n
  BY <1>3, <1>4
<1>6. n - 1 \in S
  BY <1>2, <1>5
<1> QED BY <1>3, <1>5, <1>6

Inherited(D, mu, S) ==
  /\ mu \in [D -> Nat]
  /\ \A x \in D : (\A y \in D : mu[y] < mu[x] => y \in S) => x \in S

LEMMA ByMeasure ==
  ASSUME NEW D, NEW mu, NEW S, Inherited(D, mu, S)
  PROVE  \A x \in D : x \in S
<1>0. /\ mu \in [D -> Nat]
      /\ \A x \in D : (\A y \in D : mu[y] < mu[x] => y \in S) => x \in S
  BY DEF Inherited
<1> USE <1>0
<1> DEFINE Rest == {mu[x] : x \in {y \in D : y \notin S}}
<1>1. SUFFICES ASSUME NEW x \in D, x \notin S PROVE FALSE
  OBVIOUS
<1>2. PICK n \in Rest : \A j \in Rest : n <= j
  <2>1. Rest \in SUBSET Nat /\ mu[x] \in Rest
    BY <1>1
  <2> HIDE DEF Rest
  <2> QED BY <2>1, LeastOf
<1>3. PICK y \in D : y \notin S /\ n = mu[y]
  BY <1>2
<1>4. \A z \in D : mu[z] < mu[y] => z \in S
  <2>1. \A z \in D : z \notin S => mu[y] <= mu[z]
    BY <1>2, <1>3
  <2>2. \A z \in D : mu[z] \in Nat
    OBVIOUS
  <2> QED BY <2>1, <2>2
<1> QED BY <1>3, <1>4

(***************************************************************************)
(* A function whose value at x is computed from that at next[x], until x   *)
(* is in Stop, exists if every step makes a measure smaller.               *)
(***************************************************************************)
GoesDown(D, V, mu, Stop, base, next, comb) ==
  /\ mu \in [D -> Nat] /\ base \in [D -> V] /\ next \in [D -> D] /\ comb \in [D -> [V -> V]]
  /\ \A x \in D : x \notin Stop => mu[next[x]] < mu[x]

Computed(f, D, V, Stop, base, next, comb) ==
  /\ f \in [D -> V]
  /\ \A x \in D : f[x] = IF x \in Stop THEN base[x] ELSE comb[x][f[next[x]]]

LEMMA RecursionExists ==
  ASSUME NEW D, NEW V, NEW mu, NEW Stop, NEW base, NEW next, NEW comb,
         GoesDown(D, V, mu, Stop, base, next, comb)
  PROVE  \E f : Computed(f, D, V, Stop, base, next, comb)
<1>0. /\ mu \in [D -> Nat] /\ base \in [D -> V] /\ next \in [D -> D] /\ comb \in [D -> [V -> V]]
      /\ \A x \in D : x \notin Stop => mu[next[x]] < mu[x]
  BY DEF GoesDown
<1> USE <1>0
<1> DEFINE Good(f, x) == f[x] = IF x \in Stop THEN base[x] ELSE comb[x][f[next[x]]]
           GoodTo(f, n) == f \in [D -> V] /\ \A x \in D : mu[x] < n => Good(f, x)
           Have == {n \in Nat : \E f : GoodTo(f, n)}
<1>1. 0 \in Have
  <2>1. GoodTo(base, 0)
    <3>1. \A x \in D : mu[x] \in Nat
      OBVIOUS
    <3> QED BY <3>1
  <2> QED BY <2>1
<1>2. ASSUME NEW n \in Nat, n \in Have PROVE n + 1 \in Have
  <2>1. PICK f : GoodTo(f, n)
    BY <1>2
  <2> DEFINE g == [x \in D |-> IF x \in Stop THEN base[x] ELSE comb[x][f[next[x]]]]
  <2>2. g \in [D -> V]
    BY <2>1
  <2>3. ASSUME NEW x \in D, mu[x] < n + 1 PROVE Good(g, x)
    <3>1. CASE x \in Stop
      BY <3>1
    <3>2. CASE x \notin Stop
      <4>1. next[x] \in D /\ mu[next[x]] < n
        <5>1. mu[x] \in Nat /\ next[x] \in D /\ mu[next[x]] \in Nat /\ mu[next[x]] < mu[x]
          BY <3>2
        <5> QED BY <2>3, <5>1
      <4>2. Good(f, next[x])
        BY <2>1, <4>1
      <4>3. g[next[x]] = f[next[x]]
        BY <4>1, <4>2
      <4> QED BY <3>2, <4>3
    <3> QED BY <3>1, <3>2
  <2>4. GoodTo(g, n + 1)
    <3> HIDE DEF g, Good
    <3> QED BY <2>2, <2>3
  <2>5. \E h : GoodTo(h, n + 1)
    <3> HIDE DEF GoodTo, g
    <3> QED BY <2>4
  <2> QED BY <2>5
<1>3. \A n \in Nat : n \in Have
  <2> HIDE DEF Have
  <2> QED BY <1>1, <1>2, NatBySteps
<1> DEFINE fs == [n \in Nat |-> CHOOSE f : GoodTo(f, n)]
<1>4. \A n \in Nat : GoodTo(fs[n], n)
  <2> HIDE DEF GoodTo
  <2> QED BY <1>3
<1> HIDE DEF fs, Have
\* Where two of them are good, they agree.
<1>5. ASSUME NEW n \in Nat, NEW m \in Nat
      PROVE  \A x \in D : mu[x] < n /\ mu[x] < m => fs[n][x] = fs[m][x]
  <2> DEFINE S == {x \in D : mu[x] < n /\ mu[x] < m => fs[n][x] = fs[m][x]}
  <2>1. ASSUME NEW x \in D, \A y \in D : mu[y] < mu[x] => y \in S PROVE x \in S
    <3>1. SUFFICES ASSUME mu[x] < n, mu[x] < m PROVE fs[n][x] = fs[m][x]
      OBVIOUS
    <3>2. Good(fs[n], x) /\ Good(fs[m], x)
      BY <1>4, <3>1
    <3>3. CASE x \in Stop
      BY <3>2, <3>3
    <3>4. CASE x \notin Stop
      <4>1. next[x] \in D /\ mu[next[x]] < mu[x]
        BY <3>4
      <4>2. mu[next[x]] < n /\ mu[next[x]] < m
        <5>1. mu[x] \in Nat /\ mu[next[x]] \in Nat
          BY <4>1
        <5> QED BY <3>1, <4>1, <5>1
      <4>3. fs[n][next[x]] = fs[m][next[x]]
        BY <2>1, <4>1, <4>2
      <4> QED BY <3>2, <3>4, <4>3
    <3> QED BY <3>3, <3>4
  <2>2. \A x \in D : x \in S
    <3> HIDE DEF S
    <3>1. Inherited(D, mu, S)
      BY <2>1 DEF Inherited
    <3> QED BY <3>1, ByMeasure, Zenon
  <2> QED BY <2>2
<1> DEFINE f == [x \in D |-> fs[mu[x] + 1][x]]
<1>6. f \in [D -> V]
  <2>1. ASSUME NEW x \in D PROVE fs[mu[x] + 1][x] \in V
    <3>1. mu[x] + 1 \in Nat
      OBVIOUS
    <3>2. fs[mu[x] + 1] \in [D -> V]
      BY <1>4, <3>1
    <3> QED BY <3>2
  <2> QED BY <2>1
<1>7. ASSUME NEW x \in D PROVE Good(f, x)
  <2>1. mu[x] + 1 \in Nat /\ mu[x] < mu[x] + 1 /\ mu[x] \in Nat
    OBVIOUS
  <2>2. Good(fs[mu[x] + 1], x)
    BY <1>4, <2>1
  <2>3. CASE x \in Stop
    BY <2>2, <2>3
  <2>4. CASE x \notin Stop
    <3>1. next[x] \in D /\ mu[next[x]] < mu[x]
      BY <2>4
    <3>2. mu[next[x]] \in Nat /\ mu[next[x]] + 1 \in Nat /\ mu[next[x]] < mu[next[x]] + 1
          /\ mu[next[x]] < mu[x] + 1
      BY <2>1, <3>1
    <3>3. fs[mu[next[x]] + 1][next[x]] = fs[mu[x] + 1][next[x]]
      BY <1>5, <2>1, <3>1, <3>2
    <3>4. f[next[x]] = fs[mu[x] + 1][next[x]]
      BY <3>1, <3>3
    <3> QED BY <2>2, <2>4, <3>4
  <2> QED BY <2>3, <2>4
<1> QED BY <1>6, <1>7 DEF Computed

(***************************************************************************)
(* The largest of a set of numbers.                                        *)
(***************************************************************************)
\* Max finds it in a set with a bound.
LEMMA MaxOf ==
  ASSUME NEW n \in Nat, NEW S \in SUBSET (0..n), S # {}
  PROVE  Max(S) \in S /\ \A j \in S : j <= Max(S)
<1> DEFINE gaps == {n - j : j \in S}
<1>1. \A j \in S : j \in Nat /\ j <= n /\ n - j \in Nat
  OBVIOUS
<1>2. gaps \in SUBSET Nat
  BY <1>1
<1>3. PICK s \in S : TRUE
  OBVIOUS
<1>4. n - s \in gaps
  BY <1>3
<1>5. \A j \in S : n - j \in gaps
  OBVIOUS
<1>6. PICK d \in gaps : \A e \in gaps : d <= e
  <2> HIDE DEF gaps
  <2> QED BY <1>2, <1>4, LeastOf
<1>7. PICK k \in S : d = n - k
  OBVIOUS
<1>8. ASSUME NEW j \in S PROVE k >= j
  <2>1. d <= n - j
    BY <1>5, <1>6
  <2>2. j \in Nat /\ k \in Nat
    BY <1>1
  <2> QED BY <2>1, <2>2, <1>7
<1>9. \E x \in S : \A y \in S : x >= y
  BY <1>8
<1>10. Max(S) \in S /\ \A y \in S : Max(S) >= y
  <2> HIDE DEF gaps
  <2>1. Max(S) = CHOOSE x \in S : \A y \in S : x >= y
    BY Zenon DEF Max
  <2> QED BY <1>9, <2>1, Zenon
<1>11. \A y \in S : y \in Nat /\ Max(S) \in Nat
  BY <1>1, <1>10
<1> QED BY <1>10, <1>11

\* It is the one that no other exceeds.
LEMMA MaxIs ==
  ASSUME NEW n \in Nat, NEW S \in SUBSET (0..n), NEW k \in S, \A j \in S : j <= k
  PROVE  Max(S) = k
<1>1. Max(S) \in S /\ \A j \in S : j <= Max(S)
  BY MaxOf
<1>2. Max(S) <= k /\ k <= Max(S)
  BY <1>1
<1>3. \A j \in S : j \in Nat
  OBVIOUS
<1>4. Max(S) \in Nat /\ k \in Nat
  BY <1>1, <1>3
<1> QED BY <1>2, <1>4

(***************************************************************************)
(* What a fold from left to right adds up.                                 *)
(***************************************************************************)
Summing(f, n, w) ==
  f = [S \in SUBSET (1..n) |-> IF S = {} THEN 0 ELSE f[S \ {Max(S)}] + w[Max(S)]]

LEMMA SumExists ==
  ASSUME NEW n \in Nat, NEW w, \A i \in 1..n : w[i] \in Nat
  PROVE  \E f : Summing(f, n, w)
<1> DEFINE D == SUBSET (1..n)
           mu == [S \in D |-> Cardinality(S)]
           Stop == {{}}
           base == [S \in D |-> 0]
           next == [S \in D |-> S \ {Max(S)}]
           comb == [S \in D |-> [v \in Nat |-> IF S = {} THEN 0 ELSE v + w[Max(S)]]]
<1>1. ASSUME NEW S \in D
      PROVE  /\ IsFiniteSet(S) /\ Cardinality(S) \in Nat
             /\ S # {} => Max(S) \in S /\ w[Max(S)] \in Nat /\ Cardinality(S \ {Max(S)}) < Cardinality(S)
  <2>1. IsFiniteSet(1..n)
    <3>1. 1 \in Int /\ n \in Int
      OBVIOUS
    <3> QED BY <3>1, FS_Interval
  <2>2. IsFiniteSet(S)
    BY <2>1, FS_Subset
  <2>3. Cardinality(S) \in Nat
    BY <2>2, FS_CardinalityType
  <2>4. S # {} => Max(S) \in S
    <3>1. S \in SUBSET (0..n)
      OBVIOUS
    <3> QED BY <3>1, MaxOf
  <2>5. S # {} => Cardinality(S \ {Max(S)}) = Cardinality(S) - 1
    BY <2>2, <2>4, FS_RemoveElement
  <2>6. S # {} => w[Max(S)] \in Nat
    <3>1. S # {} => Max(S) \in 1..n
      BY <2>4
    <3> QED BY <3>1
  <2>7. Cardinality(S) \in Nat => Cardinality(S) - 1 < Cardinality(S)
    OBVIOUS
  <2> QED BY <2>2, <2>3, <2>4, <2>5, <2>6, <2>7
<1>2. mu \in [D -> Nat] /\ base \in [D -> Nat] /\ next \in [D -> D]
  BY <1>1
<1>3. comb \in [D -> [Nat -> Nat]]
  <2>1. ASSUME NEW S \in D, NEW v \in Nat PROVE (IF S = {} THEN 0 ELSE v + w[Max(S)]) \in Nat
    <3>1. S # {} => w[Max(S)] \in Nat
      BY <1>1
    <3> QED BY <3>1
  <2> HIDE DEF D
  <2> QED BY <2>1
<1>4. \A S \in D : S \notin Stop => mu[next[S]] < mu[S]
  <2>1. SUFFICES ASSUME NEW S \in D, S # {} PROVE mu[next[S]] < mu[S]
    OBVIOUS
  <2>2. next[S] = S \ {Max(S)} /\ next[S] \in D
    OBVIOUS
  <2>3. mu[next[S]] = Cardinality(S \ {Max(S)}) /\ mu[S] = Cardinality(S)
    BY <2>2
  <2> QED BY <1>1, <2>1, <2>3
<1>5. PICK f : Computed(f, D, Nat, Stop, base, next, comb)
  <2> HIDE DEF D, mu, Stop, base, next, comb
  <2>1. GoesDown(D, Nat, mu, Stop, base, next, comb)
    BY <1>2, <1>3, <1>4 DEF GoesDown
  <2> QED BY <2>1, RecursionExists
<1>6. /\ f \in [D -> Nat]
      /\ \A S \in D : f[S] = IF S \in Stop THEN base[S] ELSE comb[S][f[next[S]]]
  BY <1>5, Zenon DEF Computed
<1> DEFINE g == [S \in D |-> IF S = {} THEN 0 ELSE f[S \ {Max(S)}] + w[Max(S)]]
<1>7. ASSUME NEW S \in D PROVE f[S] = g[S]
  <2>1. CASE S = {}
    BY <1>6, <2>1
  <2>2. CASE S # {}
    <3>1. next[S] \in D /\ next[S] = S \ {Max(S)}
      OBVIOUS
    <3>2. f[next[S]] \in Nat
      BY <1>6, <3>1
    <3>3. comb[S][f[next[S]]] = f[next[S]] + w[Max(S)]
      BY <2>2, <3>2
    <3>4. f[S] = comb[S][f[next[S]]]
      BY <1>6, <2>2
    <3> QED BY <2>2, <3>1, <3>3, <3>4
  <2> QED BY <2>1, <2>2
<1>8. f = g
  <2>1. g = [S \in D |-> g[S]] /\ f = [S \in D |-> f[S]]
    BY <1>6
  <2> HIDE DEF g, D
  <2> QED BY <1>7, <2>1
<1> QED BY <1>8 DEF Summing

LEMMA SumIs ==
  ASSUME NEW n \in Nat, NEW w, NEW f, Summing(f, n, w), NEW t, t[0] = 0,
         \A i \in 1..n : t[i] = t[i - 1] + w[i]
  PROVE  f[1..n] = t[n]
<1> DEFINE S == {i \in Nat : i <= n => f[1..i] = t[i]}
<1>1. \A R \in SUBSET (1..n) : f[R] = IF R = {} THEN 0 ELSE f[R \ {Max(R)}] + w[Max(R)]
  BY DEF Summing
<1>2. 0 \in S
  <2>1. 1..0 = {} /\ {} \in SUBSET (1..n)
    OBVIOUS
  <2>2. f[{}] = 0
    BY <1>1, <2>1
  <2> QED BY <2>1, <2>2
<1>3. \A i \in Nat : i \in S => i + 1 \in S
  <2>1. SUFFICES ASSUME NEW i \in Nat, i \in S, i + 1 <= n PROVE f[1..(i + 1)] = t[i + 1]
    OBVIOUS
  <2> DEFINE R == 1..(i + 1)
  <2>2. R \in SUBSET (1..n) /\ R # {} /\ i + 1 \in R
    <3>1. i + 1 \in R
      OBVIOUS
    <3>2. \A j \in R : j \in 1..n
      BY <2>1
    <3> HIDE DEF R
    <3> QED BY <3>1, <3>2
  <2>3. Max(R) = i + 1
    <3>1. R \in SUBSET (0..(i + 1)) /\ i + 1 \in Nat /\ \A j \in R : j <= i + 1
      OBVIOUS
    <3> HIDE DEF R
    <3> QED BY <2>2, <3>1, MaxIs
  <2>4. R \ {i + 1} = 1..i
    OBVIOUS
  <2>5. f[1..i] = t[i]
    BY <2>1
  <2>6. t[i + 1] = t[i] + w[i + 1]
    <3>1. i + 1 \in 1..n /\ i + 1 - 1 = i
      BY <2>1
    <3> QED BY <3>1
  <2>7. f[R] = f[R \ {Max(R)}] + w[Max(R)]
    <3> HIDE DEF R
    <3> QED BY <1>1, <2>2
  <2> HIDE DEF R
  <2> QED BY <2>3, <2>4, <2>5, <2>6, <2>7 DEF R
<1>4. \A i \in Nat : i \in S
  <2> HIDE DEF S
  <2> QED BY <1>2, <1>3, NatBySteps
<1>5. n \in S
  BY <1>4
<1> QED BY <1>5

-----------------------------------------------------------------------------
(***************************************************************************)
(* Sequences.                                                              *)
(***************************************************************************)

\* A sequence without its last element.
LEMMA FrontShorter ==
  ASSUME NEW S, NEW s \in Seq(S), s # <<>>
  PROVE  /\ Front(s) \in Seq(S) /\ Len(s) >= 1 /\ Len(Front(s)) = Len(s) - 1
         /\ \A i \in 1..(Len(s) - 1) : Front(s)[i] = s[i]
<1>1. Len(s) \in Nat \ {0}
  BY EmptySeq
<1>2. \A i \in 1..(Len(s) - 1) : s[i] \in S
  BY <1>1, ElementOfSeq
<1> DEFINE n == Len(s) - 1
<1>3. n \in Nat /\ 1 \in Int /\ n \in Int /\ \A i \in 1..n : s[i] \in S
  BY <1>1, <1>2
<1> HIDE DEF n
<1>4. /\ SubSeq(s, 1, n) \in Seq(S) /\ Len(SubSeq(s, 1, n)) = IF 1 <= n THEN n - 1 + 1 ELSE 0
      /\ \A i \in 1..(n - 1 + 1) : SubSeq(s, 1, n)[i] = s[1 + i - 1]
  BY <1>3, SubSeqProperties
<1>5. /\ SubSeq(s, 1, n) \in Seq(S) /\ Len(SubSeq(s, 1, n)) = n
      /\ \A i \in 1..n : SubSeq(s, 1, n)[i] = s[i]
  <2>1. n - 1 + 1 = n /\ (IF 1 <= n THEN n - 1 + 1 ELSE 0) = n /\ \A i \in 1..n : 1 + i - 1 = i
    BY <1>3
  <2> QED BY <1>4, <2>1
<1> QED BY <1>1, <1>5 DEF Front, n

\* FlattenSeq's recursion has a value.
LEMMA FlattenExists ==
  ASSUME NEW seqs, NEW L \in Nat
  PROVE  \E f : f = [i \in 1..L |-> IF i = 1 THEN seqs[i] ELSE f[i - 1] \o seqs[i]]
<1> DEFINE IsFlat(f, n) ==
             f = [i \in 1..n |-> IF i = 1 THEN seqs[i] ELSE f[i - 1] \o seqs[i]]
           Without == {n \in Nat : ~ \E f : IsFlat(f, n)}
<1>1. SUFFICES ASSUME Without # {} PROVE FALSE
  BY Zenon
<1>2. PICK n \in Without : \A e \in Without : n <= e
  <2>1. Without \in SUBSET Nat
    OBVIOUS
  <2> HIDE DEF Without
  <2> QED BY <1>1, <2>1, LeastOf
<1>3. n \in Nat
  OBVIOUS
<1>4. CASE n = 0
  <2> DEFINE f == [i \in 1..0 |-> seqs[i]]
  <2>1. IsFlat(f, 0)
    OBVIOUS
  <2> QED BY <1>4, <2>1
<1>5. CASE n # 0
  <2>1. n - 1 \in Nat /\ ~ (n <= n - 1)
    BY <1>3, <1>5
  <2>2. PICK s : IsFlat(s, n - 1)
    BY <1>2, <2>1
  <2> DEFINE f == [i \in 1..n |-> IF i # n THEN s[i]
                                 ELSE IF i = 1 THEN seqs[i] ELSE s[i - 1] \o seqs[i]]
  <2>3. ASSUME NEW i \in 1..n
        PROVE  f[i] = IF i = 1 THEN seqs[i] ELSE f[i - 1] \o seqs[i]
    <3>1. i \in Nat /\ (i # 1 => i - 1 \in 1..n /\ i - 1 # n)
      BY <1>3, <1>5
    <3>2. i # 1 => f[i - 1] = s[i - 1]
      BY <3>1
    <3>3. CASE i = n
      BY <3>2, <3>3
    <3>4. CASE i # n
      <4>1. i \in 1..(n - 1)
        BY <1>3, <3>4
      <4>2. s[i] = IF i = 1 THEN seqs[i] ELSE s[i - 1] \o seqs[i]
        BY <2>2, <4>1
      <4>3. f[i] = s[i]
        BY <3>4
      <4> QED BY <3>2, <4>2, <4>3
    <3> QED BY <3>3, <3>4
  <2> DEFINE g == [i \in 1..n |-> IF i = 1 THEN seqs[i] ELSE f[i - 1] \o seqs[i]]
  <2>4. \A i \in 1..n : f[i] = g[i]
    BY <2>3
  <2>5. DOMAIN f = 1..n /\ DOMAIN g = 1..n /\ f = [i \in 1..n |-> f[i]] /\ g = [i \in 1..n |-> g[i]]
    OBVIOUS
  <2> HIDE DEF f, g
  <2>6. f = g
    BY <2>4, <2>5
  <2>7. IsFlat(f, n)
    BY <2>6 DEF g
  <2> QED BY <1>2, <2>7
<1> QED BY <1>4, <1>5

\* What it joins it keeps a sequence of the same elements.
LEMMA FlattenTyped ==
  ASSUME NEW W, NEW seqs \in Seq(Seq(W))
  PROVE  FlattenSeq(seqs) \in Seq(W)
<1> DEFINE L == Len(seqs)
           flatten[i \in 1..L] == IF i = 1 THEN seqs[i] ELSE flatten[i - 1] \o seqs[i]
           Untyped == {i \in 1..L : flatten[i] \notin Seq(W)}
<1>1. L \in Nat /\ \A i \in 1..L : seqs[i] \in Seq(W)
  BY LenProperties, ElementOfSeq
<1>2. CASE L = 0
  <2>1. seqs = <<>>
    BY <1>2
  <2>2. FlattenSeq(seqs) = <<>>
    BY <1>2, <2>1 DEF FlattenSeq
  <2> QED BY <2>2
<1>3. CASE L # 0
  <2>1. flatten = [i \in 1..L |-> IF i = 1 THEN seqs[i] ELSE flatten[i - 1] \o seqs[i]]
    <3>1. \E f : f = [i \in 1..L |-> IF i = 1 THEN seqs[i] ELSE f[i - 1] \o seqs[i]]
      BY <1>1, FlattenExists
    <3> HIDE DEF L
    <3> QED BY <3>1
  <2>2. FlattenSeq(seqs) = flatten[L]
    BY <1>3 DEF FlattenSeq
  <2> HIDE DEF flatten
  <2>3. Untyped = {}
    <3>1. SUFFICES ASSUME Untyped # {} PROVE FALSE
      OBVIOUS
    <3>2. PICK i \in Untyped : \A j \in Untyped : i <= j
      <4>1. Untyped \in SUBSET Nat
        BY <1>1
      <4> HIDE DEF Untyped
      <4> QED BY <3>1, <4>1, LeastOf
    <3>3. i \in 1..L /\ flatten[i] \notin Seq(W)
      OBVIOUS
    <3>4. flatten[i] = IF i = 1 THEN seqs[i] ELSE flatten[i - 1] \o seqs[i]
      BY <2>1, <3>3
    <3>5. i # 1 => i - 1 \in 1..L /\ ~ (i <= i - 1)
      BY <1>1, <3>3
    <3>6. i # 1 => flatten[i - 1] \in Seq(W)
      BY <3>2, <3>5
    <3>7. i # 1 => flatten[i - 1] \o seqs[i] \in Seq(W)
      BY <1>1, <3>3, <3>6, ConcatProperties
    <3> QED BY <1>1, <3>3, <3>4, <3>7
  <2>4. L \in 1..L
    BY <1>1, <1>3
  <2> QED BY <2>2, <2>3, <2>4
<1> QED BY <1>2, <1>3

\* Where each of the sequences that are joined begins and what stands there.
Joined(seqs, at) ==
  /\ at \in [0..Len(seqs) -> Nat] /\ at[0] = 0
  /\ \A i \in 1..Len(seqs) : at[i] = at[i - 1] + Len(seqs[i])
  /\ \A i \in 1..Len(seqs) : \A k \in 1..Len(seqs[i]) : FlattenSeq(seqs)[at[i - 1] + k] = seqs[i][k]
  /\ Len(FlattenSeq(seqs)) = at[Len(seqs)]
  /\ \A i \in 0..Len(seqs) : at[i] <= at[Len(seqs)]

\* What is joined stands behind what was there.
LEMMA ConcatPlaces ==
  ASSUME NEW W, NEW a \in Seq(W), NEW b \in Seq(W)
  PROVE  /\ a \o b \in Seq(W) /\ Len(a \o b) = Len(a) + Len(b)
         /\ \A k \in 1..Len(a) : (a \o b)[k] = a[k]
         /\ \A k \in 1..Len(b) : (a \o b)[Len(a) + k] = b[k]
<1> DEFINE c == a \o b
<1>1. /\ c \in Seq(W) /\ Len(c) = Len(a) + Len(b)
      /\ \A k \in 1..(Len(a) + Len(b)) : c[k] = IF k <= Len(a) THEN a[k] ELSE b[k - Len(a)]
  BY ConcatProperties
<1>2. Len(a) \in Nat /\ Len(b) \in Nat
  BY LenProperties
<1> HIDE DEF c
<1>3. ASSUME NEW k \in 1..Len(a) PROVE c[k] = a[k]
  <2>1. k \in 1..(Len(a) + Len(b)) /\ k <= Len(a)
    BY <1>2
  <2> QED BY <1>1, <2>1
<1>4. ASSUME NEW k \in 1..Len(b) PROVE c[Len(a) + k] = b[k]
  <2>1. /\ Len(a) + k \in 1..(Len(a) + Len(b)) /\ ~ (Len(a) + k <= Len(a))
        /\ Len(a) + k - Len(a) = k
    BY <1>2
  <2> QED BY <1>1, <2>1
<1> QED BY <1>1, <1>3, <1>4 DEF c

\* Sequences of one and of several elements.
LEMMA OneOf ==
  ASSUME NEW S, NEW a \in S
  PROVE  <<a>> \in Seq(S) /\ Len(<<a>>) = 1 /\ <<a>>[1] = a
OBVIOUS

LEMMA TwoOf ==
  ASSUME NEW S, NEW a \in S, NEW b \in S
  PROVE  <<a, b>> \in Seq(S) /\ Len(<<a, b>>) = 2 /\ <<a, b>>[1] = a /\ <<a, b>>[2] = b
OBVIOUS

LEMMA FourOf ==
  ASSUME NEW S, NEW a \in S, NEW b \in S, NEW c \in S, NEW d \in S
  PROVE  /\ <<a, b, c, d>> \in Seq(S) /\ Len(<<a, b, c, d>>) = 4
         /\ <<a, b, c, d>>[1] = a /\ <<a, b, c, d>>[2] = b
OBVIOUS

LEMMA FiveOf ==
  ASSUME NEW S, NEW a \in S, NEW b \in S, NEW c \in S, NEW d \in S, NEW e \in S
  PROVE  /\ <<a, b, c, d, e>> \in Seq(S) /\ Len(<<a, b, c, d, e>>) = 5
         /\ <<a, b, c, d, e>>[1] = a /\ <<a, b, c, d, e>>[2] = b
OBVIOUS

LEMMA SixOf ==
  ASSUME NEW S, NEW a \in S, NEW b \in S, NEW c \in S, NEW d \in S, NEW e \in S, NEW f \in S
  PROVE  /\ <<a, b, c, d, e, f>> \in Seq(S) /\ Len(<<a, b, c, d, e, f>>) = 6
         /\ <<a, b, c, d, e, f>>[1] = a /\ <<a, b, c, d, e, f>>[2] = b
OBVIOUS

\* A function on the numbers from 1 is a sequence.
LEMMA FunctionIsSeq ==
  ASSUME NEW S, NEW n \in Nat, NEW f, f \in [1..n -> S]
  PROVE  f \in Seq(S) /\ Len(f) = n
OBVIOUS

\* Where a text begins inside another one.
LEMMA PrefixAt ==
  ASSUME NEW W, NEW p \in Seq(W), NEW s \in Seq(W), NEW i \in Nat, 1 <= i, i <= Len(s)
  PROVE  IsPrefix(p, SubSeq(s, i, Len(s)))
           <=> i + Len(p) - 1 <= Len(s) /\ \A k \in 1..Len(p) : s[i + k - 1] = p[k]
<1> DEFINE n == Len(s)
           r == SubSeq(s, i, n)
           m == n - i + 1
<1>1. n \in Nat /\ Len(p) \in Nat /\ \A j \in 1..n : s[j] \in W
  BY LenProperties, ElementOfSeq
<1>2. m \in Nat /\ i \in Int /\ n \in Int /\ \A j \in i..n : s[j] \in W
  BY <1>1
<1>3. r \in Seq(W) /\ Len(r) = m /\ \A k \in 1..m : r[k] = s[i + k - 1]
  <2>1. /\ r \in Seq(W) /\ Len(r) = (IF i <= n THEN n - i + 1 ELSE 0)
        /\ \A k \in 1..(n - i + 1) : r[k] = s[i + k - 1]
    <3> HIDE DEF n, m
    <3> QED BY <1>2, SubSeqProperties
  <2>2. i <= n
    OBVIOUS
  <2> QED BY <2>1, <2>2
<1> HIDE DEF r
<1>4. SubSeq(p, 1, Len(p)) = p
  BY SubSeqFull
<1>5. i + Len(p) - 1 <= n <=> Len(p) <= m
  BY <1>1
<1> HIDE DEF n, m
<1>6. ASSUME Len(p) <= m
      PROVE  SubSeq(r, 1, Len(p)) = p <=> \A k \in 1..Len(p) : r[k] = p[k]
  <2> DEFINE q == SubSeq(r, 1, Len(p))
  <2>1. 1 \in Int /\ Len(p) \in Int /\ \A k \in 1..Len(p) : r[k] \in W
    <3>1. \A k \in 1..Len(p) : k \in 1..Len(r)
      BY <1>1, <1>2, <1>3, <1>6
    <3> QED BY <1>1, <1>3, <3>1, ElementOfSeq
  <2>2. /\ q \in Seq(W) /\ Len(q) = (IF 1 <= Len(p) THEN Len(p) - 1 + 1 ELSE 0)
        /\ \A k \in 1..(Len(p) - 1 + 1) : q[k] = r[1 + k - 1]
    BY <2>1, SubSeqProperties
  <2>3. q \in Seq(W) /\ Len(q) = Len(p) /\ \A k \in 1..Len(p) : q[k] = r[k]
    <3>1. Len(p) - 1 + 1 = Len(p) /\ \A k \in 1..Len(p) : 1 + k - 1 = k
      BY <1>1
    <3> HIDE DEF q
    <3> QED BY <1>1, <2>2, <3>1
  <2> HIDE DEF q
  <2>4. (\A k \in 1..Len(p) : q[k] = p[k]) => q = p
    BY <2>3, SeqEqual
  <2>5. q = p <=> \A k \in 1..Len(p) : r[k] = p[k]
    BY <2>3, <2>4
  <2> QED BY <2>5 DEF q
<1>7. Len(p) <= m => \A k \in 1..Len(p) : r[k] = s[i + k - 1]
  BY <1>1, <1>2, <1>3
<1>8. IsPrefix(p, r) <=> Len(p) <= m /\ SubSeq(p, 1, Len(p)) = SubSeq(r, 1, Len(p))
  BY <1>3 DEF IsPrefix
<1>9. IsPrefix(p, r) <=> i + Len(p) - 1 <= n /\ \A k \in 1..Len(p) : s[i + k - 1] = p[k]
  BY <1>4, <1>5, <1>6, <1>7, <1>8
<1> QED BY <1>9 DEF r, n

LEMMA JoinPlaces ==
  ASSUME NEW W, NEW seqs \in Seq(Seq(W)), NEW upto \in [0..Len(seqs) -> Seq(W)],
         upto[0] = <<>>, \A i \in 1..Len(seqs) : upto[i] = upto[i - 1] \o seqs[i],
         FlattenSeq(seqs) = upto[Len(seqs)]
  PROVE  \E at : Joined(seqs, at)
<1> DEFINE L == Len(seqs)
           at == [i \in 0..L |-> Len(upto[i])]
<1>1. L \in Nat /\ \A i \in 1..L : seqs[i] \in Seq(W) /\ Len(seqs[i]) \in Nat
  BY LenProperties, ElementOfSeq
<1>2. at \in [0..L -> Nat]
  BY LenProperties
<1>3. \A i \in 0..L : at[i] = Len(upto[i]) /\ upto[i] \in Seq(W) /\ at[i] \in Nat
  BY <1>2
<1>4. at[0] = 0
  BY <1>1, <1>3, EmptySeq
<1> HIDE DEF at
<1>5. ASSUME NEW i \in 1..L
      PROVE  /\ at[i] = at[i - 1] + Len(seqs[i])
             /\ \A k \in 1..at[i - 1] : upto[i][k] = upto[i - 1][k]
             /\ \A k \in 1..Len(seqs[i]) : upto[i][at[i - 1] + k] = seqs[i][k]
  <2>1. i \in 0..L /\ i - 1 \in 0..L
    BY <1>1
  <2>2. /\ upto[i - 1] \in Seq(W) /\ seqs[i] \in Seq(W) /\ upto[i] = upto[i - 1] \o seqs[i]
        /\ at[i] = Len(upto[i]) /\ at[i - 1] = Len(upto[i - 1])
    BY <1>1, <1>3, <2>1
  <2> DEFINE a == upto[i - 1]
             b == seqs[i]
  <2>3. /\ Len(a \o b) = Len(a) + Len(b)
        /\ \A k \in 1..Len(a) : (a \o b)[k] = a[k]
        /\ \A k \in 1..Len(b) : (a \o b)[Len(a) + k] = b[k]
    <3> HIDE DEF a, b
    <3>1. a \in Seq(W) /\ b \in Seq(W)
      BY <2>2 DEF a, b
    <3> QED BY <3>1, ConcatPlaces
  <2>4. upto[i] = a \o b /\ at[i] = Len(a \o b) /\ at[i - 1] = Len(a)
    BY <2>2
  <2>5. /\ at[i] = at[i - 1] + Len(b)
        /\ \A k \in 1..at[i - 1] : upto[i][k] = a[k]
        /\ \A k \in 1..Len(b) : upto[i][at[i - 1] + k] = b[k]
    <3> HIDE DEF a, b
    <3> QED BY <2>3, <2>4
  <2> QED BY <2>5
\* What stands in the beginning stays.
<1> DEFINE Kept(i, j) == at[i] <= at[j] /\ \A k \in 1..at[i] : upto[j][k] = upto[i][k]
           Stays == {d \in Nat : \A i \in 1..L : i + d <= L => Kept(i, i + d)}
<1>6. 0 \in Stays
  <2>1. ASSUME NEW i \in 1..L PROVE Kept(i, i + 0)
    <3>1. i + 0 = i /\ i \in 0..L
      BY <1>1
    <3>2. at[i] <= at[i]
      BY <1>3, <3>1
    <3> QED BY <3>1, <3>2
  <2> HIDE DEF Kept
  <2> QED BY <2>1
<1>7. \A d \in Nat : d \in Stays => d + 1 \in Stays
  <2>1. ASSUME NEW d \in Nat, d \in Stays, NEW i \in 1..L, i + (d + 1) <= L
        PROVE  Kept(i, i + (d + 1))
    <3> DEFINE j == i + (d + 1)
    <3>1. j \in 1..L /\ j - 1 = i + d /\ i + d <= L /\ i + d \in 0..L /\ i \in 0..L /\ j \in 0..L
      BY <1>1, <2>1
    <3>2. Kept(i, i + d)
      BY <2>1, <3>1
    <3>3. at[j] = at[i + d] + Len(seqs[j]) /\ \A k \in 1..at[i + d] : upto[j][k] = upto[i + d][k]
      <4>1. /\ at[j] = at[j - 1] + Len(seqs[j])
            /\ \A k \in 1..at[j - 1] : upto[j][k] = upto[j - 1][k]
        <5> HIDE DEF j
        <5> QED BY <1>5, <3>1
      <4> HIDE DEF j
      <4> QED BY <3>1, <4>1
    <3>4. at[i] \in Nat /\ at[i + d] \in Nat /\ Len(seqs[j]) \in Nat
      BY <1>1, <1>3, <3>1
    <3>5. \A k \in 1..at[i] : k \in 1..at[i + d]
      BY <3>2, <3>4
    <3> HIDE DEF j
    <3>6. Kept(i, j)
      BY <3>2, <3>3, <3>4, <3>5
    <3> HIDE DEF Kept
    <3> QED BY <3>6 DEF j
  <2>2. \A d \in Nat : d \in Stays => \A i \in 1..L : i + (d + 1) <= L => Kept(i, i + (d + 1))
    <3> HIDE DEF Stays, Kept
    <3> QED BY <2>1
  <2> HIDE DEF Kept
  <2>3. ASSUME NEW d \in Nat, d \in Stays PROVE d + 1 \in Stays
    <3>1. d + 1 \in Nat
      OBVIOUS
    <3>2. \A i \in 1..L : i + (d + 1) <= L => Kept(i, i + (d + 1))
      <4> HIDE DEF Stays
      <4> QED BY <2>2, <2>3
    <3> QED BY <3>1, <3>2
  <2> QED BY <2>3
<1>8. \A d \in Nat : d \in Stays
  <2> HIDE DEF Stays
  <2> QED BY <1>6, <1>7, NatBySteps
<1>9. ASSUME NEW i \in 1..L, NEW k \in 1..Len(seqs[i])
      PROVE  FlattenSeq(seqs)[at[i - 1] + k] = seqs[i][k]
  <2>1. L - i \in Nat /\ i + (L - i) = L /\ L <= L /\ i \in 0..L /\ i - 1 \in 0..L
    BY <1>1
  <2>2. Kept(i, L)
    <3>1. L - i \in Stays
      BY <1>8, <2>1
    <3> HIDE DEF Kept
    <3> QED BY <2>1, <3>1
  <2>3. \A h \in 1..at[i] : upto[L][h] = upto[i][h]
    BY <2>2
  <2>4. at[i] = at[i - 1] + Len(seqs[i]) /\ upto[i][at[i - 1] + k] = seqs[i][k]
    BY <1>5
  <2>5. at[i - 1] \in Nat /\ at[i] \in Nat /\ Len(seqs[i]) \in Nat
    BY <1>1, <1>3, <2>1
  <2>6. at[i - 1] + k \in 1..at[i]
    <3> DEFINE a == at[i - 1]
               b == at[i]
               l == Len(seqs[i])
    <3>1. a \in Nat /\ b \in Nat /\ l \in Nat /\ b = a + l /\ k \in 1..l
      BY <2>4, <2>5
    <3> HIDE DEF a, b, l
    <3>2. a + k \in 1..b
      BY <3>1
    <3> QED BY <3>2 DEF a, b
  <2> QED BY <2>3, <2>4, <2>6
<1>10. Len(FlattenSeq(seqs)) = at[L]
  BY <1>1, <1>3
<1>12. ASSUME NEW i \in 0..L PROVE at[i] <= at[L]
  <2>1. CASE i = 0
    <3>1. at[L] \in Nat
      BY <1>1, <1>3
    <3> QED BY <1>4, <2>1, <3>1
  <2>2. CASE i # 0
    <3>1. i \in 1..L /\ L - i \in Nat /\ i + (L - i) = L /\ L <= L
      BY <1>1, <2>2
    <3>2. L - i \in Stays
      BY <1>8, <3>1
    <3>3. Kept(i, L)
      <4> HIDE DEF Kept
      <4> QED BY <3>1, <3>2
    <3> QED BY <3>3
  <2> QED BY <2>1, <2>2
<1>11. Joined(seqs, at)
  BY <1>2, <1>4, <1>5, <1>9, <1>10, <1>12 DEF Joined
<1> QED BY <1>11

\* FlattenSeq adds one sequence behind the other.
LEMMA FlattenUpto ==
  ASSUME NEW W, NEW seqs \in Seq(Seq(W))
  PROVE  \E upto \in [0..Len(seqs) -> Seq(W)] :
           /\ upto[0] = <<>> /\ FlattenSeq(seqs) = upto[Len(seqs)]
           /\ \A i \in 1..Len(seqs) : upto[i] = upto[i - 1] \o seqs[i]
<1> DEFINE L == Len(seqs)
           flatten[i \in 1..L] == IF i = 1 THEN seqs[i] ELSE flatten[i - 1] \o seqs[i]
<1>1. L \in Nat /\ \A i \in 1..L : seqs[i] \in Seq(W)
  BY LenProperties, ElementOfSeq
<1>2. CASE L = 0
  <2> DEFINE upto == [i \in 0..L |-> <<>>]
  <2>1. FlattenSeq(seqs) = <<>>
    <3>1. seqs = <<>>
      BY <1>2
    <3> QED BY <1>2, <3>1 DEF FlattenSeq
  <2>2. /\ upto \in [0..L -> Seq(W)] /\ upto[0] = <<>> /\ FlattenSeq(seqs) = upto[L]
        /\ \A i \in 1..L : upto[i] = upto[i - 1] \o seqs[i]
    BY <1>2, <2>1, EmptySeq
  <2> HIDE DEF upto, L
  <2> QED BY <2>2 DEF L
<1>3. CASE L # 0
  <2>1. flatten = [i \in 1..L |-> IF i = 1 THEN seqs[i] ELSE flatten[i - 1] \o seqs[i]]
    <3>1. \E f : f = [i \in 1..L |-> IF i = 1 THEN seqs[i] ELSE f[i - 1] \o seqs[i]]
      BY <1>1, FlattenExists
    <3> HIDE DEF L
    <3> QED BY <3>1
  <2>2. FlattenSeq(seqs) = flatten[L]
    BY <1>3 DEF FlattenSeq
  <2> HIDE DEF flatten
  <2>3. \A i \in 1..L : flatten[i] = IF i = 1 THEN seqs[i] ELSE flatten[i - 1] \o seqs[i]
    BY <2>1
  <2> DEFINE upto == [i \in 0..L |-> IF i = 0 THEN <<>> ELSE flatten[i]]
             Typed == {i \in Nat : i <= L => upto[i] \in Seq(W)}
  <2>4. upto[0] = <<>>
    BY <1>1
  <2>5. \A i \in 1..L : upto[i] = flatten[i] /\ upto[i - 1] = IF i = 1 THEN <<>> ELSE flatten[i - 1]
    BY <1>1
  <2>10. DOMAIN upto = 0..L /\ upto = [i \in 0..L |-> upto[i]]
    OBVIOUS
  <2> HIDE DEF upto
  <2>6. ASSUME NEW i \in 1..L, upto[i - 1] \in Seq(W)
        PROVE  upto[i] = upto[i - 1] \o seqs[i] /\ upto[i] \in Seq(W)
    <3>1. seqs[i] \in Seq(W) /\ <<>> \o seqs[i] = seqs[i]
      BY <1>1, ConcatEmptySeq
    <3>2. upto[i] = upto[i - 1] \o seqs[i]
      BY <2>3, <2>5, <3>1
    <3> QED BY <2>6, <3>1, <3>2, ConcatProperties
  <2>7. 0 \in Typed
    BY <2>4, EmptySeq
  <2>8. \A i \in Nat : i \in Typed => i + 1 \in Typed
    <3>1. SUFFICES ASSUME NEW i \in Nat, i \in Typed, i + 1 <= L PROVE upto[i + 1] \in Seq(W)
      OBVIOUS
    <3> DEFINE j == i + 1
    <3>2. j \in 1..L /\ j - 1 = i /\ upto[j - 1] \in Seq(W)
      BY <1>1, <3>1
    <3> HIDE DEF j
    <3>3. upto[j] \in Seq(W)
      BY <2>6, <3>2
    <3> QED BY <3>3 DEF j
  <2>9. \A i \in Nat : i \in Typed
    <3> HIDE DEF Typed
    <3> QED BY <2>7, <2>8, NatBySteps
  <2>11. upto \in [0..L -> Seq(W)]
    <3>1. ASSUME NEW i \in 0..L PROVE upto[i] \in Seq(W)
      <4>1. i \in Nat /\ i <= L
        BY <1>1
      <4> QED BY <2>9, <4>1
    <3> QED BY <2>10, <3>1
  <2>12. \A i \in 1..L : upto[i] = upto[i - 1] \o seqs[i]
    <3>1. \A i \in 1..L : i - 1 \in 0..L
      BY <1>1
    <3> QED BY <2>6, <2>11, <3>1
  <2>13. FlattenSeq(seqs) = upto[L]
    <3>1. L \in 1..L
      BY <1>1, <1>3
    <3> QED BY <2>2, <2>5, <3>1
  <2> HIDE DEF L
  <2> QED BY <2>4, <2>11, <2>12, <2>13 DEF L
<1> QED BY <1>2, <1>3

\* Where it puts each of them.
LEMMA FlattenJoins ==
  ASSUME NEW W, NEW seqs \in Seq(Seq(W))
  PROVE  \E at : Joined(seqs, at)
<1>1. PICK upto \in [0..Len(seqs) -> Seq(W)] :
        /\ upto[0] = <<>> /\ FlattenSeq(seqs) = upto[Len(seqs)]
        /\ \A i \in 1..Len(seqs) : upto[i] = upto[i - 1] \o seqs[i]
  BY FlattenUpto
<1> QED BY <1>1, JoinPlaces

LEMMA FlattenAppend ==
  ASSUME NEW W, NEW seqs \in Seq(Seq(W)), NEW e \in Seq(W)
  PROVE  FlattenSeq(Append(seqs, e)) = FlattenSeq(seqs) \o e
<1> DEFINE n == Len(seqs)
           more == Append(seqs, e)
<1>1. PICK a \in [0..n -> Seq(W)] :
        /\ a[0] = <<>> /\ FlattenSeq(seqs) = a[n]
        /\ \A i \in 1..n : a[i] = a[i - 1] \o seqs[i]
  BY FlattenUpto
<1>2. /\ more \in Seq(Seq(W)) /\ Len(more) = n + 1 /\ n \in Nat /\ more[n + 1] = e
      /\ \A i \in 1..n : more[i] = seqs[i]
  BY AppendProperties, LenProperties
<1> HIDE DEF more, n
<1>3. PICK b \in [0..Len(more) -> Seq(W)] :
        /\ b[0] = <<>> /\ FlattenSeq(more) = b[Len(more)]
        /\ \A i \in 1..Len(more) : b[i] = b[i - 1] \o more[i]
  BY <1>2, FlattenUpto
<1> DEFINE Same == {i \in Nat : i <= n => a[i] = b[i]}
<1>4. 0 \in Same
  BY <1>1, <1>3
<1>5. \A i \in Nat : i \in Same => i + 1 \in Same
  <2>1. SUFFICES ASSUME NEW i \in Nat, i \in Same, i + 1 <= n PROVE a[i + 1] = b[i + 1]
    OBVIOUS
  <2> DEFINE j == i + 1
  <2>2. j \in 1..n /\ j \in 1..(n + 1) /\ j - 1 = i /\ i <= n
    BY <1>2, <2>1
  <2> HIDE DEF j
  <2>3. a[j] = a[i] \o seqs[j]
    BY <1>1, <2>2
  <2>4. b[j] = b[i] \o more[j]
    BY <1>2, <1>3, <2>2
  <2>5. more[j] = seqs[j]
    BY <1>2, <2>2
  <2>6. a[j] = b[j]
    BY <2>1, <2>2, <2>3, <2>4, <2>5
  <2> QED BY <2>6 DEF j
<1>6. n \in Same
  <2> HIDE DEF Same
  <2> QED BY <1>2, <1>4, <1>5, NatBySteps
<1>7. b[n + 1] = b[n] \o e
  <2> DEFINE j == n + 1
  <2>1. j \in 1..j /\ j - 1 = n /\ Len(more) = j /\ more[j] = e
    BY <1>2
  <2> HIDE DEF j
  <2>2. b[j] = b[n] \o e
    BY <1>3, <2>1
  <2> QED BY <2>2 DEF j
<1>8. a[n] = b[n]
  BY <1>2, <1>6
<1> QED BY <1>1, <1>2, <1>3, <1>7, <1>8 DEF more

LEMMA FlattenEmpty == FlattenSeq(<<>>) = <<>>
BY DEF FlattenSeq

LEMMA AppendBehind ==
  ASSUME NEW V, NEW a \in Seq(V), NEW p \in Seq(V), NEW e \in V
  PROVE  a \o Append(p, e) = Append(a \o p, e) /\ a \o p \in Seq(V)
<1> DEFINE ap == a \o p
           l == <<e>>
<1>1. l \in Seq(V)
  OBVIOUS
<1>2. ap \in Seq(V)
  BY ConcatProperties
<1>3. Append(p, e) = p \o l
  BY AppendIsConcat
<1> HIDE DEF ap
<1>4. Append(ap, e) = ap \o l
  BY <1>2, AppendIsConcat
<1> HIDE DEF l
<1>5. (a \o p) \o l = a \o (p \o l)
  BY <1>1, ConcatAssociative
<1> QED BY <1>2, <1>3, <1>4, <1>5 DEF ap

\* What is joined is joined in parts.
LEMMA FlattenConcat ==
  ASSUME NEW W, NEW a \in Seq(Seq(W)), NEW b \in Seq(Seq(W))
  PROVE  FlattenSeq(a \o b) = FlattenSeq(a) \o FlattenSeq(b)
<1> DEFINE n == Len(b)
           part(i) == SubSeq(b, 1, i)
           Ok == {i \in Nat : i <= n => FlattenSeq(a \o part(i)) = FlattenSeq(a) \o FlattenSeq(part(i))}
<1>0. FlattenSeq(a) \in Seq(W)
  BY FlattenTyped
<1>1. 0 \in Ok
  <2>1. part(0) = <<>>
    BY SubSeqEmpty
  <2>2. a \o <<>> = a /\ FlattenSeq(a) \o <<>> = FlattenSeq(a)
    BY <1>0, ConcatEmptySeq
  <2> QED BY <2>1, <2>2, FlattenEmpty
<1>2. ASSUME NEW i \in Nat, i + 1 <= n, FlattenSeq(a \o part(i)) = FlattenSeq(a) \o FlattenSeq(part(i))
      PROVE  FlattenSeq(a \o part(i + 1)) = FlattenSeq(a) \o FlattenSeq(part(i + 1))
  <2>2. i \in 0..n /\ i <= n /\ i + 1 \in 1..n /\ n \in Nat
    BY <1>2, LenProperties
  <2>3. part(i + 1) = Append(part(i), b[i + 1]) /\ b[i + 1] \in Seq(W) /\ part(i) \in Seq(Seq(W))
    <3>1. i + 1 \in 1..Len(b) /\ i + 1 - 1 = i
      BY <2>2
    <3>2. \A j \in 1..n : b[j] \in Seq(W)
      BY ElementOfSeq
    <3>5. 1 \in 1..n /\ i + 1 \in 1..n /\ \A j \in 1..i : j \in 1..n
      BY <2>2
    <3>3. SubSeq(b, 1, i + 1) = SubSeq(b, 1, i) \o <<b[i + 1]>>
      BY <3>1, <3>5, SubSeqRecursiveSecond
    <3>4. part(i) \in Seq(Seq(W))
      BY <2>2, <3>2, <3>5, SubSeqProperties
    <3> QED BY <2>2, <3>2, <3>3, <3>4, AppendIsConcat
  <2> DEFINE p == part(i)
             e == b[i + 1]
  <2>4. FlattenSeq(a \o p) = FlattenSeq(a) \o FlattenSeq(p)
    BY <1>2
  <2>5. part(i + 1) = Append(p, e) /\ p \in Seq(Seq(W)) /\ e \in Seq(W)
    BY <2>3
  <2> HIDE DEF p, e, part
  <2>6. a \o Append(p, e) = Append(a \o p, e) /\ a \o p \in Seq(Seq(W))
    <3> DEFINE V == Seq(W)
    <3>1. a \in Seq(V) /\ p \in Seq(V) /\ e \in V
      BY <2>5
    <3> HIDE DEF V
    <3>2. a \o Append(p, e) = Append(a \o p, e) /\ a \o p \in Seq(V)
      BY ONLY <3>1, AppendBehind
    <3> QED BY <3>2 DEF V
  <2>7. FlattenSeq(Append(a \o p, e)) = FlattenSeq(a \o p) \o e
    BY <2>5, <2>6, FlattenAppend
  <2>8. FlattenSeq(Append(p, e)) = FlattenSeq(p) \o e /\ FlattenSeq(p) \in Seq(W)
    BY <2>5, FlattenAppend, FlattenTyped
  <2> DEFINE fa == FlattenSeq(a)
             fp == FlattenSeq(p)
  <2>10. fa \in Seq(W) /\ fp \in Seq(W)
    BY <1>0, <2>8
  <2> HIDE DEF fa, fp
  <2>9. (fa \o fp) \o e = fa \o (fp \o e)
    <3>1. e \in Seq(W)
      BY <2>5
    <3> QED BY ONLY <2>10, <3>1, ConcatAssociative
  <2>11. /\ FlattenSeq(a \o part(i + 1)) = (fa \o fp) \o e
         /\ FlattenSeq(part(i + 1)) = fp \o e
    BY <2>4, <2>5, <2>6, <2>7, <2>8 DEF fa, fp
  <2> QED BY <2>9, <2>11 DEF fa
<1>3. n \in Ok
  <2>1. n \in Nat
    BY LenProperties
  <2>2. \A i \in Nat : i \in Ok => i + 1 \in Ok
    <3> SUFFICES ASSUME NEW i \in Nat, i \in Ok PROVE i + 1 \in Ok
      OBVIOUS
    <3>1. i + 1 \in Nat /\ (i + 1 <= n => i <= n)
      BY <2>1
    <3>2. i <= n => FlattenSeq(a \o part(i)) = FlattenSeq(a) \o FlattenSeq(part(i))
      <4> HIDE DEF part, n
      <4> QED BY Zenon
    <3>3. i + 1 <= n => FlattenSeq(a \o part(i + 1)) = FlattenSeq(a) \o FlattenSeq(part(i + 1))
      <4> HIDE DEF Ok, part, n
      <4> QED BY <1>2, <3>1, <3>2
    <3> HIDE DEF part, n
    <3> QED BY <3>1, <3>3, Zenon
  <2> HIDE DEF Ok
  <2> QED BY <1>1, <2>1, <2>2, NatBySteps
<1>4. part(n) = b
  BY SubSeqFull
<1>5. n \in Nat /\ n <= n
  BY LenProperties
<1> QED BY <1>3, <1>4, <1>5

(***************************************************************************)
(* A sequence read from left to right: from place i on, tok[i] is told and *)
(* step[i] elements are taken.                                             *)
(***************************************************************************)
Reads(f, tok, step, len) ==
  \A i \in Nat : f[i] = IF i > len THEN <<>> ELSE <<tok[i]>> \o f[i + step[i]]

LEMMA ReadsExists ==
  ASSUME NEW V, NEW len \in Nat, NEW tok \in [Nat -> V], NEW step \in [Nat -> Nat \ {0}]
  PROVE  \E f : f \in [Nat -> Seq(V)] /\ Reads(f, tok, step, len)
<1> DEFINE mu == [i \in Nat |-> IF i <= len THEN len + 1 - i ELSE 0]
           Stop == {i \in Nat : i > len}
           base == [i \in Nat |-> <<>>]
           next == [i \in Nat |-> i + step[i]]
           comb == [i \in Nat |-> [v \in Seq(V) |-> <<tok[i]>> \o v]]
<1>1. mu \in [Nat -> Nat]
  OBVIOUS
<1>2. base \in [Nat -> Seq(V)]
  BY EmptySeq
<1>3. next \in [Nat -> Nat]
  OBVIOUS
<1>4. comb \in [Nat -> [Seq(V) -> Seq(V)]]
  <2>1. ASSUME NEW i \in Nat, NEW v \in Seq(V) PROVE <<tok[i]>> \o v \in Seq(V)
    <3>1. <<tok[i]>> \in Seq(V)
      OBVIOUS
    <3> QED BY <3>1, ConcatProperties
  <2> QED BY <2>1
<1>5. \A i \in Nat : i \notin Stop => mu[next[i]] < mu[i]
  OBVIOUS
<1>6. PICK f : Computed(f, Nat, Seq(V), Stop, base, next, comb)
  <2> HIDE DEF mu, Stop, base, next, comb
  <2>1. GoesDown(Nat, Seq(V), mu, Stop, base, next, comb)
    BY <1>1, <1>2, <1>3, <1>4, <1>5 DEF GoesDown
  <2> QED BY <2>1, RecursionExists
<1>7. /\ f \in [Nat -> Seq(V)]
      /\ \A i \in Nat : f[i] = IF i \in Stop THEN base[i] ELSE comb[i][f[next[i]]]
  BY <1>6, Zenon DEF Computed
<1>8. ASSUME NEW i \in Nat
      PROVE  f[i] = IF i > len THEN <<>> ELSE <<tok[i]>> \o f[i + step[i]]
  <2>1. next[i] = i + step[i] /\ i + step[i] \in Nat
    OBVIOUS
  <2>2. f[i + step[i]] \in Seq(V)
    BY <1>7, <2>1
  <2>3. comb[i][f[next[i]]] = <<tok[i]>> \o f[i + step[i]]
    BY <2>1, <2>2
  <2>4. i \in Stop <=> i > len
    OBVIOUS
  <2>5. base[i] = <<>>
    OBVIOUS
  <2> HIDE DEF Stop, base, comb
  <2> QED BY <1>7, <2>3, <2>4, <2>5
<1> QED BY <1>7, <1>8 DEF Reads

\* Behind at[i - 1] elements t[i] is told, and the elements up to at[i] are taken.
Tells(t, at, tok, step, len) ==
  /\ at \in [0..Len(t) -> Nat] /\ at[0] = 0 /\ at[Len(t)] = len
  /\ \A i \in 1..Len(t) : /\ at[i - 1] < at[i]
                           /\ tok[at[i - 1] + 1] = t[i]
                           /\ step[at[i - 1] + 1] = at[i] - at[i - 1]

\* Read at the places where t's elements stand, it gives t.
LEMMA ReadBack ==
  ASSUME NEW V, NEW len \in Nat, NEW tok, NEW step, NEW f, Reads(f, tok, step, len),
         NEW t \in Seq(V), NEW at, Tells(t, at, tok, step, len)
  PROVE  f[1] = t
<1>0. /\ at \in [0..Len(t) -> Nat] /\ at[0] = 0 /\ at[Len(t)] = len
      /\ \A i \in 1..Len(t) : /\ at[i - 1] < at[i]
                               /\ tok[at[i - 1] + 1] = t[i]
                               /\ step[at[i - 1] + 1] = at[i] - at[i - 1]
  BY DEF Tells
<1> USE <1>0
<1> DEFINE n == Len(t)
           Same == {d \in Nat : d <= n => f[at[n - d] + 1] = SubSeq(t, n - d + 1, n)}
           Below == {d \in Nat : d <= n => at[n - d] <= len}
<1>1. n \in Nat
  BY LenProperties
<1>2. \A d \in Nat : d \in Below
  <2>1. 0 \in Below
    BY <1>1
  <2>2. \A d \in Nat : d \in Below => d + 1 \in Below
    <3>1. SUFFICES ASSUME NEW d \in Nat, d \in Below, d + 1 <= n PROVE at[n - (d + 1)] <= len
      OBVIOUS
    <3>2. n - d \in 1..n /\ n - d - 1 = n - (d + 1) /\ n - d \in 0..n /\ n - (d + 1) \in 0..n
      BY <1>1, <3>1
    <3>3. at[n - d - 1] < at[n - d]
      BY <3>2
    <3>4. at[n - d] <= len
      BY <1>1, <3>1
    <3>5. at[n - d] \in Nat /\ at[n - (d + 1)] \in Nat
      BY <3>2
    <3> QED BY <3>2, <3>3, <3>4, <3>5
  <2> HIDE DEF Below
  <2> QED BY <2>1, <2>2, NatBySteps
<1>3. 0 \in Same
  <2>1. f[len + 1] = <<>>
    <3>1. len + 1 \in Nat /\ len + 1 > len
      OBVIOUS
    <3> QED BY <3>1 DEF Reads
  <2>2. SubSeq(t, n + 1, n) = <<>>
    BY <1>1, SubSeqEmpty
  <2>3. n - 0 = n
    BY <1>1
  <2> QED BY <1>1, <2>1, <2>2, <2>3
<1>4. \A d \in Nat : d \in Same => d + 1 \in Same
  <2>1. SUFFICES ASSUME NEW d \in Nat, d \in Same, d + 1 <= n
                 PROVE  f[at[n - (d + 1)] + 1] = SubSeq(t, n - (d + 1) + 1, n)
    OBVIOUS
  <2> DEFINE i == n - d
             p == at[i - 1] + 1
  <2>2. i \in 1..n /\ n - (d + 1) = i - 1 /\ i - 1 \in 0..n /\ i \in 0..n /\ i - 1 + 1 = i /\ n \in i..n
    BY <1>1, <2>1
  <2>3. /\ at[i - 1] < at[i] /\ tok[p] = t[i] /\ step[p] = at[i] - at[i - 1]
        /\ at[i - 1] \in Nat /\ at[i] \in Nat
    BY <2>2
  <2>4. at[i] <= len
    BY <1>2, <2>1
  <2>5. f[at[i] + 1] = SubSeq(t, i + 1, n)
    BY <1>1, <2>1
  <2> HIDE DEF i
  <2>6. p \in Nat /\ ~ (p > len) /\ p + step[p] = at[i] + 1
    <3>1. at[i - 1] + 1 \in Nat /\ ~ (at[i - 1] + 1 > len)
      BY <2>3, <2>4
    <3>2. at[i - 1] + 1 + (at[i] - at[i - 1]) = at[i] + 1
      BY <2>3
    <3> QED BY <2>3, <3>1, <3>2
  <2> HIDE DEF p
  <2>9. f[p] = IF p > len THEN <<>> ELSE <<tok[p]>> \o f[p + step[p]]
    BY <2>6, Zenon DEF Reads
  <2>7. f[p] = <<t[i]>> \o SubSeq(t, i + 1, n)
    BY <2>3, <2>5, <2>6, <2>9
  <2>8. SubSeq(t, i, n) = <<t[i]>> \o SubSeq(t, i + 1, n)
    BY <2>2, SubSeqRecursiveFirst
  <2> QED BY <2>2, <2>7, <2>8 DEF p
<1>5. \A d \in Nat : d \in Same
  <2> HIDE DEF Same
  <2> QED BY <1>3, <1>4, NatBySteps
<1>6. f[at[0] + 1] = SubSeq(t, 1, n)
  <2>1. n \in Same
    BY <1>1, <1>5
  <2>2. n - n = 0 /\ n <= n /\ n - n + 1 = 1
    BY <1>1
  <2> QED BY <2>1, <2>2
<1>7. at[0] + 1 = 1
  OBVIOUS
<1>8. SubSeq(t, 1, n) = t
  BY SubSeqFull
<1> QED BY <1>6, <1>7, <1>8

(***************************************************************************)
(* A fold from left to right, step[i] taking what the first i - 1 elements *)
(* gave to what the first i give.  Follows says so of the function on sets *)
(* of places that FoldLeft is defined by, as far as values are in V.       *)
(***************************************************************************)
Follows(f, n, V, base, step) ==
  /\ f[{}] = base
  /\ \A S \in SUBSET (1..n) :
       S # {} /\ f[S \ {Max(S)}] \in V => f[S] = step[Max(S)][f[S \ {Max(S)}]]

Folded(f, n, V, base, step) ==
  /\ f \in [SUBSET (1..n) -> V]
  /\ \A S \in SUBSET (1..n) : f[S] = IF S = {} THEN base ELSE step[Max(S)][f[S \ {Max(S)}]]

LEMMA FoldExists ==
  ASSUME NEW n \in Nat, NEW V, NEW base \in V, NEW step \in [1..n -> [V -> V]]
  PROVE  \E f : Folded(f, n, V, base, step)
<1> DEFINE D == SUBSET (1..n)
           mu == [S \in D |-> Cardinality(S)]
           Stop == {{}}
           start == [S \in D |-> base]
           next == [S \in D |-> S \ {Max(S)}]
           comb == [S \in D |-> IF S = {} THEN [v \in V |-> v] ELSE step[Max(S)]]
<1>1. ASSUME NEW S \in D
      PROVE  /\ Cardinality(S) \in Nat
             /\ S # {} => Max(S) \in 1..n /\ Cardinality(S \ {Max(S)}) < Cardinality(S)
  <2>1. IsFiniteSet(1..n)
    BY FS_Interval
  <2>2. IsFiniteSet(S)
    BY <2>1, FS_Subset
  <2>3. Cardinality(S) \in Nat
    BY <2>2, FS_CardinalityType
  <2>4. S # {} => Max(S) \in S
    <3>1. S \in SUBSET (0..n)
      OBVIOUS
    <3> QED BY <3>1, MaxOf
  <2>5. S # {} => Cardinality(S \ {Max(S)}) = Cardinality(S) - 1
    BY <2>2, <2>4, FS_RemoveElement
  <2>6. S # {} => Max(S) \in 1..n
    BY <2>4
  <2>7. S # {} => Cardinality(S \ {Max(S)}) < Cardinality(S)
    <3> DEFINE c == Cardinality(S)
               d == Cardinality(S \ {Max(S)})
    <3>1. c \in Nat /\ (S # {} => d = c - 1)
      BY <2>3, <2>5
    <3> HIDE DEF c, d
    <3>2. S # {} => d < c
      BY <3>1
    <3> QED BY <3>2 DEF c, d
  <2> HIDE DEF D
  <2> QED BY <2>3, <2>6, <2>7
<1>2. mu \in [D -> Nat] /\ start \in [D -> V] /\ next \in [D -> D]
  BY <1>1
<1>3. comb \in [D -> [V -> V]]
  BY <1>1
<1>4. \A S \in D : S \notin Stop => mu[next[S]] < mu[S]
  BY <1>1
<1>5. PICK f : Computed(f, D, V, Stop, start, next, comb)
  <2> HIDE DEF D, mu, Stop, start, next, comb
  <2>1. GoesDown(D, V, mu, Stop, start, next, comb)
    BY <1>2, <1>3, <1>4 DEF GoesDown
  <2> QED BY <2>1, RecursionExists
<1>6. /\ f \in [D -> V]
      /\ \A S \in D : f[S] = IF S \in Stop THEN start[S] ELSE comb[S][f[next[S]]]
  BY <1>5, Zenon DEF Computed
<1>7. ASSUME NEW S \in D PROVE f[S] = IF S = {} THEN base ELSE step[Max(S)][f[S \ {Max(S)}]]
  <2>1. /\ S \in Stop <=> S = {}
        /\ start[S] = base /\ next[S] = S \ {Max(S)}
        /\ S # {} => comb[S] = step[Max(S)]
    OBVIOUS
  <2> HIDE DEF Stop, start, next, comb
  <2> QED BY <1>6, <2>1
<1> QED BY <1>6, <1>7 DEF Folded

\* What it gives, element by element.
Stepped(acc, f, n, V, base, step) ==
  /\ acc \in [0..n -> V] /\ acc[0] = base /\ acc[n] = f[1..n]
  /\ \A i \in 1..n : acc[i] = step[i][acc[i - 1]]

LEMMA FoldSteps ==
  ASSUME NEW n \in Nat, NEW V, NEW base \in V, NEW step \in [1..n -> [V -> V]],
         NEW f, Follows(f, n, V, base, step)
  PROVE  \E acc : Stepped(acc, f, n, V, base, step)
<1> DEFINE acc == [i \in 0..n |-> f[1..i]]
           Typed == {i \in Nat : i <= n => f[1..i] \in V}
<1>1. f[1..0] = base
  <2>1. 1..0 = {}
    OBVIOUS
  <2> QED BY <2>1 DEF Follows
<1>2. ASSUME NEW i \in Nat, i + 1 <= n, f[1..i] \in V
      PROVE  f[1..(i + 1)] = step[i + 1][f[1..i]] /\ f[1..(i + 1)] \in V
  <2> DEFINE S == 1..(i + 1)
  <2>1. S \in SUBSET (1..n) /\ S # {} /\ S \in SUBSET (0..n) /\ i + 1 \in S /\ \A j \in S : j <= i + 1
    BY <1>2
  <2>2. Max(S) = i + 1
    <3> HIDE DEF S
    <3> QED BY <2>1, MaxIs
  <2>3. S \ {i + 1} = 1..i
    OBVIOUS
  <2>4. f[S] = step[Max(S)][f[S \ {Max(S)}]]
    <3>1. f[S \ {Max(S)}] \in V
      BY <1>2, <2>2, <2>3
    <3> HIDE DEF S
    <3> QED BY <2>1, <3>1, Zenon DEF Follows
  <2>5. i + 1 \in 1..n
    BY <1>2
  <2>6. f[S] = step[i + 1][f[1..i]]
    BY <2>2, <2>3, <2>4
  <2>7. step[i + 1][f[1..i]] \in V
    BY <1>2, <2>5
  <2> QED BY <2>6, <2>7
<1>3. \A i \in Nat : i \in Typed
  <2>1. 0 \in Typed
    BY <1>1
  <2>2. \A i \in Nat : i \in Typed => i + 1 \in Typed
    BY <1>2
  <2> HIDE DEF Typed
  <2> QED BY <2>1, <2>2, NatBySteps
<1>4. \A i \in 0..n : f[1..i] \in V
  BY <1>3
<1>5. acc \in [0..n -> V] /\ acc[0] = base /\ acc[n] = f[1..n]
  BY <1>1, <1>4
<1>6. ASSUME NEW i \in 1..n PROVE acc[i] = step[i][acc[i - 1]]
  <2>1. i - 1 \in Nat /\ i - 1 + 1 = i /\ i <= n /\ i - 1 \in 0..n /\ i \in 0..n
    OBVIOUS
  <2>2. f[1..(i - 1)] \in V
    BY <1>4, <2>1
  <2>3. f[1..i] = step[i][f[1..(i - 1)]]
    BY <1>2, <2>1, <2>2
  <2> QED BY <2>1, <2>3
<1> HIDE DEF acc
<1> QED BY <1>5, <1>6 DEF Stepped

\* What is put in stands in its place, what was behind moves on.
LEMMA InsertIs ==
  ASSUME NEW S, NEW s \in Seq(S), NEW e \in S, NEW i \in 1..(Len(s) + 1)
  PROVE  /\ InsertAt(s, i, e) \in Seq(S) /\ Len(InsertAt(s, i, e)) = Len(s) + 1
         /\ InsertAt(s, i, e)[i] = e
         /\ \A k \in 1..(i - 1) : InsertAt(s, i, e)[k] = s[k]
         /\ \A k \in i..Len(s) : InsertAt(s, i, e)[k + 1] = s[k]
<1> DEFINE n == Len(s)
           a == SubSeq(s, 1, i - 1)
           b == SubSeq(s, i, n)
           ae == a \o <<e>>
<1>1. n \in Nat /\ i \in 1..(n + 1) /\ \A k \in 1..n : s[k] \in S
  BY LenProperties, ElementOfSeq
<1>2. a \in Seq(S) /\ Len(a) = i - 1 /\ \A k \in 1..(i - 1) : a[k] = s[k]
  <2>1. \A k \in 1..(i - 1) : s[k] \in S /\ 1 + k - 1 = k
    BY <1>1
  <2>2. /\ a \in Seq(S) /\ Len(a) = IF 1 <= i - 1 THEN i - 1 - 1 + 1 ELSE 0
        /\ \A k \in 1..(i - 1 - 1 + 1) : a[k] = s[1 + k - 1]
    <3>1. 1 \in Int /\ i - 1 \in Int
      BY <1>1
    <3> QED BY <2>1, <3>1, SubSeqProperties
  <2>3. (IF 1 <= i - 1 THEN i - 1 - 1 + 1 ELSE 0) = i - 1 /\ i - 1 - 1 + 1 = i - 1
    BY <1>1
  <2> HIDE DEF a
  <2> QED BY <2>1, <2>2, <2>3
<1>3. b \in Seq(S) /\ Len(b) = n - i + 1 /\ \A k \in 1..(n - i + 1) : b[k] = s[i + k - 1]
  <2>1. \A k \in i..n : s[k] \in S
    BY <1>1
  <2>2. /\ b \in Seq(S) /\ Len(b) = IF i <= n THEN n - i + 1 ELSE 0
        /\ \A k \in 1..(n - i + 1) : b[k] = s[i + k - 1]
    BY <1>1, <2>1, SubSeqProperties
  <2>3. (IF i <= n THEN n - i + 1 ELSE 0) = n - i + 1
    BY <1>1
  <2> HIDE DEF b
  <2> QED BY <2>2, <2>3
<1>4. InsertAt(s, i, e) = ae \o b
  BY DEF InsertAt
<1> HIDE DEF a, b, n
<1>5. /\ ae \in Seq(S) /\ Len(ae) = i /\ ae[i] = e
      /\ \A k \in 1..(i - 1) : ae[k] = a[k]
  <2>1. <<e>> \in Seq(S) /\ Len(<<e>>) = 1 /\ <<e>>[1] = e
    OBVIOUS
  <2>2. /\ ae \in Seq(S) /\ Len(ae) = Len(a) + 1
        /\ \A k \in 1..Len(a) : ae[k] = a[k]
        /\ ae[Len(a) + 1] = e
    BY <1>2, <2>1, ConcatPlaces
  <2>3. i - 1 + 1 = i
    BY <1>1
  <2> HIDE DEF ae
  <2> QED BY <1>2, <2>2, <2>3
<1> HIDE DEF ae
<1>6. /\ ae \o b \in Seq(S) /\ Len(ae \o b) = Len(ae) + Len(b)
      /\ \A k \in 1..Len(ae) : (ae \o b)[k] = ae[k]
      /\ \A k \in 1..Len(b) : (ae \o b)[Len(ae) + k] = b[k]
  <2>1. ae \in Seq(S) /\ b \in Seq(S)
    BY <1>3, <1>5
  <2> QED BY ONLY <2>1, ConcatPlaces
<1>7. Len(ae \o b) = n + 1
  <2>1. i + (n - i + 1) = n + 1
    BY <1>1
  <2> QED BY <1>3, <1>5, <1>6, <2>1
<1>8. (ae \o b)[i] = e /\ \A k \in 1..(i - 1) : (ae \o b)[k] = s[k]
  <2>1. i \in 1..i /\ \A k \in 1..(i - 1) : k \in 1..i
    BY <1>1
  <2> QED BY <1>2, <1>5, <1>6, <2>1
<1>9. ASSUME NEW k \in i..n PROVE (ae \o b)[k + 1] = s[k]
  <2> DEFINE j == k - i + 1
  <2>1. j \in 1..(n - i + 1) /\ i + j = k + 1 /\ i + j - 1 = k
    BY <1>1
  <2>2. b[j] = s[k] /\ j \in 1..Len(b)
    <3> HIDE DEF j
    <3> QED BY <1>3, <2>1
  <2>3. (ae \o b)[i + j] = b[j]
    <3> HIDE DEF j
    <3> QED BY <1>5, <1>6, <2>2
  <2> HIDE DEF j
  <2> QED BY <2>1, <2>2, <2>3
<1>10. Len(ae \o b) = Len(s) + 1 /\ \A k \in i..Len(s) : (ae \o b)[k + 1] = s[k]
  BY <1>7, <1>9 DEF n
<1> DEFINE r == ae \o b
<1>11. /\ r \in Seq(S) /\ Len(r) = Len(s) + 1 /\ r[i] = e
       /\ \A k \in 1..(i - 1) : r[k] = s[k]
       /\ \A k \in i..Len(s) : r[k + 1] = s[k]
  BY <1>6, <1>8, <1>10
<1>12. InsertAt(s, i, e) = r
  BY <1>4
<1> HIDE DEF r
<1> QED BY ONLY <1>11, <1>12
=============================================================================
