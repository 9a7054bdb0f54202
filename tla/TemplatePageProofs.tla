------------------------- MODULE TemplatePageProofs -------------------------
(***************************************************************************)
(* Theorems about worker_handler and temp_make_page (TemplatePage), for    *)
(* any buffer, any templates and any request.                              *)
(***************************************************************************)
EXTENDS TemplatePage, Lemmas, FiniteSetTheorems

(***************************************************************************)
(* What the writes of a part give.                                         *)
(***************************************************************************)
Kinds == {"copy", "print", "tail", "grouped", "least", "date", "back", "field", "odd"}
Writes == [kind : Kinds, n : Nat, letter : Letters]

LEMMA CellsTyped ==
  ASSUME NEW w \in Writes
  PROVE  /\ Cells(w) \in Seq(Letters) /\ Len(Cells(w)) = w.n
         /\ \A i \in 1..w.n : Cells(w)[i] = w.letter
<1>1. w.n \in Nat /\ w.letter \in Letters
  BY DEF Writes
<1> DEFINE n == w.n
<1>2. [i \in 1..n |-> w.letter] \in [1..n -> Letters]
  BY <1>1
<1>3. [i \in 1..n |-> w.letter] \in Seq(Letters)
  <2> HIDE DEF n
  <2>1. n \in Nat
    BY <1>1 DEF n
  <2> QED BY <1>2, <2>1
<1>4. Len([i \in 1..n |-> w.letter]) = n
  <2> HIDE DEF n
  <2>1. n \in Nat
    BY <1>1 DEF n
  <2> QED BY <2>1
<1> QED BY <1>3, <1>4 DEF Cells

LEMMA EffectTyped ==
  ASSUME NEW s \in Seq(Letters), NEW w \in Writes
  PROVE  Effect(s, w) \in Seq(Letters)
<1>1. CASE w.kind = "back"
  BY <1>1, FrontShorter DEF Effect
<1>2. CASE w.kind # "back"
  <2>1. s \o Cells(w) \in Seq(Letters)
    BY CellsTyped, ConcatProperties
  <2> QED BY <1>2, <2>1 DEF Effect
<1> QED BY <1>1, <1>2

LEMMA RenderingExists ==
  ASSUME NEW ws, NEW L \in Nat
  PROVE  \E f : f = [k \in 0..L |-> IF k = 0 THEN <<>> ELSE Effect(f[k - 1], ws[k])]
<1> DEFINE IsAfter(f, n) ==
             f = [k \in 0..n |-> IF k = 0 THEN <<>> ELSE Effect(f[k - 1], ws[k])]
           Without == {n \in Nat : ~ \E f : IsAfter(f, n)}
<1>1. SUFFICES ASSUME Without # {} PROVE FALSE
  BY Zenon
<1>2. PICK n \in Without : \A e \in Without : n <= e
  <2>1. Without \in SUBSET Nat
    OBVIOUS
  <2> HIDE DEF Without
  <2> QED BY <1>1, <2>1, LeastOf
<1>3. n \in Nat
  OBVIOUS
<1>4. CASE n = 0
  <2> DEFINE f == [k \in 0..0 |-> <<>>]
  <2>1. IsAfter(f, 0)
    OBVIOUS
  <2> QED BY <1>4, <2>1
<1>5. CASE n # 0
  <2>1. n - 1 \in Nat /\ ~ (n <= n - 1)
    BY <1>3, <1>5
  <2>2. PICK s : IsAfter(s, n - 1)
    BY <1>2, <2>1
  <2> DEFINE f == [k \in 0..n |-> IF k # n THEN s[k]
                                 ELSE IF k = 0 THEN <<>> ELSE Effect(s[k - 1], ws[k])]
  <2>3. ASSUME NEW k \in 0..n
        PROVE  f[k] = IF k = 0 THEN <<>> ELSE Effect(f[k - 1], ws[k])
    <3>1. k \in Nat /\ (k # 0 => k - 1 \in 0..n /\ k - 1 # n)
      BY <1>3, <1>5
    <3>2. k # 0 => f[k - 1] = s[k - 1]
      BY <3>1
    <3>3. CASE k = n
      BY <3>2, <3>3
    <3>4. CASE k # n
      <4>1. k \in 0..(n - 1)
        BY <1>3, <3>4
      <4>2. s[k] = IF k = 0 THEN <<>> ELSE Effect(s[k - 1], ws[k])
        BY <2>2, <4>1
      <4>3. f[k] = s[k]
        BY <3>4
      <4> QED BY <3>2, <4>2, <4>3
    <3> QED BY <3>3, <3>4
  <2> DEFINE g == [k \in 0..n |-> IF k = 0 THEN <<>> ELSE Effect(f[k - 1], ws[k])]
  <2>4. \A k \in 0..n : f[k] = g[k]
    BY <2>3
  <2>5. DOMAIN f = 0..n /\ DOMAIN g = 0..n /\ f = [k \in 0..n |-> f[k]] /\ g = [k \in 0..n |-> g[k]]
    OBVIOUS
  <2> HIDE DEF f, g
  <2>6. f = g
    BY <2>4, <2>5
  <2>7. IsAfter(f, n)
    BY <2>6 DEF g
  <2> QED BY <1>2, <2>7
<1> QED BY <1>4, <1>5

\* Rendering, one write after the other.
LEMMA RenderingSteps ==
  ASSUME NEW ws \in Seq(Writes)
  PROVE  /\ Rendering(ws)[0] = <<>>
         /\ \A k \in 1..Len(ws) : Rendering(ws)[k] = Effect(Rendering(ws)[k - 1], ws[k])
         /\ \A k \in 0..Len(ws) : Rendering(ws)[k] \in Seq(Letters)
<1> DEFINE L == Len(ws)
           after[k \in 0..L] == IF k = 0 THEN <<>> ELSE Effect(after[k - 1], ws[k])
           Untyped == {k \in 0..L : after[k] \notin Seq(Letters)}
<1>1. L \in Nat /\ \A k \in 1..L : ws[k] \in Writes
  BY LenProperties, ElementOfSeq
<1>2. after = [k \in 0..L |-> IF k = 0 THEN <<>> ELSE Effect(after[k - 1], ws[k])]
  <2>1. \E f : f = [k \in 0..L |-> IF k = 0 THEN <<>> ELSE Effect(f[k - 1], ws[k])]
    BY <1>1, RenderingExists
  <2> HIDE DEF L
  <2> QED BY <2>1
<1>3. Rendering(ws) = after
  BY DEF Rendering
<1> HIDE DEF after
<1>4. after[0] = <<>>
  BY <1>1, <1>2
<1>5. \A k \in 1..L : k \in 0..L /\ k # 0 /\ k - 1 \in 0..L /\ ~ (k <= k - 1)
  BY <1>1
<1>6. \A k \in 1..L : after[k] = Effect(after[k - 1], ws[k])
  BY <1>2, <1>5
<1>7. Untyped = {}
  <2>1. SUFFICES ASSUME Untyped # {} PROVE FALSE
    OBVIOUS
  <2>2. PICK k \in Untyped : \A j \in Untyped : k <= j
    <3>1. Untyped \in SUBSET Nat
      BY <1>1
    <3> HIDE DEF Untyped
    <3> QED BY <2>1, <3>1, LeastOf
  <2>3. k \in 0..L /\ after[k] \notin Seq(Letters)
    OBVIOUS
  <2>4. k # 0
    BY <1>4, <2>3, EmptySeq
  <2>5. k \in 1..L
    BY <1>1, <2>3, <2>4
  <2>6. after[k - 1] \in Seq(Letters)
    BY <1>5, <2>2, <2>5
  <2> QED BY <1>1, <1>6, <2>3, <2>5, <2>6, EffectTyped
<1> QED BY <1>3, <1>4, <1>6, <1>7

(***************************************************************************)
(* The writes of the parts of a template.                                  *)
(***************************************************************************)
LEMMA WriteTyped ==
  ASSUME NEW kind \in Kinds, NEW n \in Nat, NEW letter \in Letters
  PROVE  Write(kind, n, letter) \in Writes
<1> QED BY DEF Write, Writes

\* A part ends in its tail.
LEMMA WritesOfTyped ==
  ASSUME NEW V, NEW t \in Parts(V), NEW varWrites \in [DOMAIN t.pieces -> Seq(Writes)]
  PROVE  /\ WritesOf(t, varWrites) \in Seq(Writes)
         /\ Len(WritesOf(t, varWrites)) \in Nat \ {0}
         /\ WritesOf(t, varWrites)[Len(WritesOf(t, varWrites))].kind = "tail"
<1> DEFINE Piece == [text : Nat, var : V]
           L == Len(t.pieces)
           texts == [i \in DOMAIN t.pieces |->
                      <<Write("copy", t.pieces[i].text, "text")>> \o varWrites[i]]
           last == Write("tail", t.tail, "text")
           body == FlattenSeq(texts)
<1>1. t.pieces \in Seq(Piece) /\ t.tail \in Nat
  BY DEF Parts
<1>2. L \in Nat /\ DOMAIN t.pieces = 1..L /\ \A i \in 1..L : t.pieces[i] \in Piece
  BY <1>1, LenProperties, ElementOfSeq
<1>3. last \in Writes /\ last.kind = "tail"
  BY <1>1 DEF Write, Writes, Kinds, Letters
<1>4. ASSUME NEW i \in 1..L
      PROVE  <<Write("copy", t.pieces[i].text, "text")>> \o varWrites[i] \in Seq(Writes)
  <2>1. Write("copy", t.pieces[i].text, "text") \in Writes
    BY <1>2 DEF Write, Writes, Kinds, Letters
  <2>2. <<Write("copy", t.pieces[i].text, "text")>> \in Seq(Writes)
    BY <2>1
  <2>3. varWrites[i] \in Seq(Writes)
    BY <1>2
  <2> QED BY <2>2, <2>3, ConcatProperties
<1>5. texts \in Seq(Seq(Writes))
  <2>1. texts = [i \in 1..L |-> <<Write("copy", t.pieces[i].text, "text")>> \o varWrites[i]]
    BY <1>2
  <2>2. texts \in [1..L -> Seq(Writes)]
    BY <1>4, <2>1
  <2> HIDE DEF texts, L
  <2> QED BY <1>2, <2>2
<1>6. body \in Seq(Writes)
  <2> HIDE DEF texts
  <2> QED BY <1>5, FlattenTyped
<1> HIDE DEF body, last
<1>7. <<last>> \in Seq(Writes) /\ Len(<<last>>) = 1 /\ <<last>>[1] = last /\ Len(body) \in Nat
  BY <1>3, <1>6, LenProperties
<1>8. /\ body \o <<last>> \in Seq(Writes) /\ Len(body \o <<last>>) = Len(body) + Len(<<last>>)
      /\ \A i \in 1..Len(body) + Len(<<last>>) : (body \o <<last>>)[i] =
           IF i <= Len(body) THEN body[i] ELSE <<last>>[i - Len(body)]
  BY <1>6, <1>7, ConcatProperties
<1>9. (body \o <<last>>)[Len(body) + 1] = last
  <2>1. Len(body) + 1 \in 1..Len(body) + Len(<<last>>) /\ ~ (Len(body) + 1 <= Len(body))
    BY <1>7
  <2>2. Len(body) + 1 - Len(body) = 1
    BY <1>7
  <2> QED BY <1>7, <1>8, <2>1, <2>2
<1>10. WritesOf(t, varWrites) = body \o <<last>>
  BY DEF WritesOf, body, last
<1>11. Len(body \o <<last>>) = Len(body) + 1 /\ Len(body) + 1 \in Nat \ {0}
  BY <1>7, <1>8
<1> QED BY <1>3, <1>8, <1>9, <1>10, <1>11

LEMMA DigitsTyped ==
  ASSUME NEW n \in Nat
  PROVE  Digits(n) \in Nat /\ Digits(n) >= 1 /\ Grouped(Digits(n)) \in Nat
<1> DEFINE longer == {d \in 1..9 : n >= 10^d}
<1>1. longer \in SUBSET (1..9)
  OBVIOUS
<1>2. IsFiniteSet(1..9)
  <2>1. 1 \in Int /\ 9 \in Int
    OBVIOUS
  <2> QED BY <2>1, FS_Interval
<1> HIDE DEF longer
<1>3. Cardinality(longer) \in Nat
  BY <1>1, <1>2, FS_Subset, FS_CardinalityType
<1>4. Digits(n) = 1 + Cardinality(longer)
  BY DEF Digits, longer
<1> DEFINE d == Digits(n)
<1>5. d \in Nat /\ d >= 1
  BY <1>3, <1>4
<1> HIDE DEF d
<1>6. Grouped(d) \in Nat
  BY <1>5 DEF Grouped
<1> QED BY <1>5, <1>6 DEF d

LEMMA UintMax == INT_MAX \in Nat /\ UINT_MAX \in Nat /\ UINT_MAX = 2 * INT_MAX + 1
BY TemplatePageAssumption DEF UINT_MAX

LEMMA IntWriteTyped ==
  ASSUME NEW value \in 0..UINT_MAX
  PROVE  IntWrite(value) \in Writes
<1>1. value \in Nat /\ UINT_MAX + 1 - value \in Nat
  BY UintMax
<1> DEFINE shown == Grouped(Digits(value))
           negative == Grouped(Digits(UINT_MAX + 1 - value)) + 1
<1>2. shown \in Nat
  BY <1>1, DigitsTyped
<1>3. negative \in Nat
  <2>1. Grouped(Digits(UINT_MAX + 1 - value)) \in Nat
    BY <1>1, DigitsTyped
  <2> QED BY <2>1
<1>4. /\ Write("grouped", shown, "value") \in Writes
      /\ Write("grouped", negative, "wrong") \in Writes
      /\ Write("least", 0, "wrong") \in Writes
  <2> HIDE DEF shown, negative
  <2> QED BY <1>2, <1>3, WriteTyped DEF Kinds, Letters
<1> QED BY <1>4, Zenon DEF IntWrite

LEMMA SecondsTyped ==
  ASSUME NEW value \in Nat
  PROVE  Seconds(value) \in Nat
<1> DEFINE up == value \in 99999996..99999999 \/ value \in 999999968..999999999
           whole == (value + IF up THEN 32 ELSE 0) \div 1000
<1>1. whole \in Nat
  <2>1. (IF up THEN 32 ELSE 0) \in Nat
    OBVIOUS
  <2>2. \A more \in Nat : (value + more) \div 1000 \in Nat
    OBVIOUS
  <2> HIDE DEF up
  <2> QED BY <2>1, <2>2
<1>2. Seconds(value) = Digits(whole) + 4
  BY DEF Seconds
<1> HIDE DEF whole
<1>3. Digits(whole) \in Nat
  BY <1>1, DigitsTyped
<1> QED BY <1>2, <1>3

LEMMA UintWriteTyped ==
  ASSUME NEW value \in 0..UINT_MAX, NEW method
  PROVE  UintWrite(value, method) \in Writes
<1>1. value \in Nat
  BY UintMax
<1>2. Digits(value) \in Nat /\ Seconds(value) \in Nat /\ DateLen \in Nat
  BY <1>1, DigitsTyped, SecondsTyped, TemplatePageAssumption
<1>3. JAVASCRIPT_DATE \in Nat /\ CodeName(value) \in Nat
  BY <1>1 DEF JAVASCRIPT_DATE, CodeName
<1>4. /\ Write("print", Digits(value), "value") \in Writes
      /\ Write("print", Seconds(value), "value") \in Writes
      /\ Write("date", DateLen, "value") \in Writes
      /\ Write("date", JAVASCRIPT_DATE, "value") \in Writes
      /\ Write("print", CodeName(value), "value") \in Writes
      /\ Write("print", 0, "value") \in Writes
      /\ Write("odd", 0, "value") \in Writes
  BY <1>2, <1>3, WriteTyped DEF Kinds, Letters
<1> QED BY <1>4, IntWriteTyped DEF UintWrite

LEMMA CharWriteTyped ==
  ASSUME NEW method
  PROVE  CharWrite(method) \in Writes
<1>1. /\ Write("field", 0, "value") \in Writes /\ Write("print", 0, "value") \in Writes
      /\ Write("odd", 0, "value") \in Writes
  BY WriteTyped DEF Kinds, Letters
<1> QED BY <1>1, Zenon DEF CharWrite

LEMMA MaxPageNoTyped ==
  ASSUME NEW rn \in Nat, NEW total \in Nat
  PROVE  max_page_no(rn, total) \in Nat
<1>1. Min2(total, MAX_SEARCH_RES_NUM) \in Nat
  BY DEF Min2, MAX_SEARCH_RES_NUM
<1>2. CASE rn = 0
  BY <1>2 DEF max_page_no
<1>3. CASE rn # 0
  <2> DEFINE a == Min2(total, MAX_SEARCH_RES_NUM) + rn - 1
  <2>1. a \in Nat
    BY <1>1, <1>3
  <2> HIDE DEF a
  <2>2. a \div rn \in Nat
    BY <1>3, <2>1
  <2> QED BY <1>3, <2>2 DEF max_page_no, a
<1> QED BY <1>2, <1>3

\* uiPageNum writes links only, and twelve at the most; the current page is
\* among them unless it is not a page.
LEMMA LinksTyped ==
  ASSUME NEW no \in Nat, NEW count \in Nat
  PROVE  /\ PageLinks(no, count) \in Seq(Writes)
         /\ Len(PageLinks(no, count)) <= 2 * PAGE_WINDOW
         /\ no <= count =>
              ((\A j \in DOMAIN PageLinks(no, count) : PageLinks(no, count)[j].letter = "link")
                 <=> no = count)
<1> DEFINE first == Max2(no - PAGE_WINDOW, 0)
           stop  == Min2(no + PAGE_WINDOW, count)
           many  == Max2(stop - first, 0)
           At(j) == Write("print", 1, IF first + j - 1 = no THEN "current" ELSE "link")
<1>1. /\ first \in Nat /\ first <= no /\ no - 6 <= first /\ stop \in Nat /\ stop <= no + 6
      /\ stop <= count /\ (no < count => no < stop) /\ PAGE_WINDOW = 6
  BY DEF Max2, Min2, PAGE_WINDOW
<1> HIDE DEF first, stop
<1>2. many \in Nat /\ many <= 12 /\ (stop > first => many = stop - first) /\ (stop <= first => many = 0)
  BY <1>1 DEF Max2
<1>3. PageLinks(no, count) = [j \in 1..many |-> At(j)]
  BY DEF PageLinks, first, stop
<1>4. \A j \in 1..many : At(j) \in Writes
  BY DEF Write, Writes, Kinds, Letters
<1>5. \A j \in 1..many : At(j).letter = "link" <=> first + j - 1 # no
  BY DEF Write
<1> HIDE DEF many, At
<1> DEFINE links == [j \in 1..many |-> At(j)]
<1>6. links \in [1..many -> Writes] /\ DOMAIN links = 1..many /\ \A j \in 1..many : links[j] = At(j)
  BY <1>4
<1> HIDE DEF links
<1>7. links \in Seq(Writes) /\ Len(links) = many
  BY <1>2, <1>6, LenProperties
<1>8. ASSUME no <= count
      PROVE  (\A j \in 1..many : first + j - 1 # no) <=> no = count
  <2>1. CASE no = count
    BY <1>1, <1>2, <1>8, <2>1
  <2>2. CASE no < count
    <3>1. no - first + 1 \in 1..many /\ first + (no - first + 1) - 1 = no
      BY <1>1, <1>2, <2>2
    <3> QED BY <2>2, <3>1
  <2> QED BY <1>8, <2>1, <2>2
<1>9. PageLinks(no, count) = links
  BY <1>3 DEF links
<1>10. Len(links) <= 2 * PAGE_WINDOW
  BY <1>1, <1>2, <1>7
<1>11. (\A j \in DOMAIN links : links[j].letter = "link") <=> \A j \in 1..many : first + j - 1 # no
  BY <1>5, <1>6
<1> HIDE DEF first
<1> QED BY <1>7, <1>8, <1>9, <1>10, <1>11

RequestSet ==
  [page_no : Nat, rn : Nat, total_num : 0..UINT_MAX, return_num : Nat, len : Nat,
   unset : 0..UINT_MAX, known : BOOLEAN]
PartNames == {"page", "none", "error"}

\* A sequence of writes that ends in a tail.
Ended(ws) == ws \in Seq(Writes) /\ Len(ws) \in Nat \ {0} /\ ws[Len(ws)].kind = "tail"

LEMMA ResVarTyped ==
  ASSUME req \in RequestSet, NEW var
  PROVE  ResVarWrites(var) \in Seq(Writes)
<1> DEFINE Doc == Write("field", 0, "value")
           Odd == Write("odd", 0, "value")
           Total == UintWrite(req.total_num, var.method)
           Unset == UintWrite(req.unset, var.method)
           Zero == UintWrite(0, var.method)
           Char == CharWrite(var.method)
           All == {Doc, Odd, Total, Unset, Zero, Char}
<1>1. Doc \in Writes /\ Odd \in Writes /\ Char \in Writes
  BY WriteTyped, CharWriteTyped DEF Kinds, Letters
<1>2. Total \in Writes /\ Unset \in Writes /\ Zero \in Writes
  <2>1. req.total_num \in 0..UINT_MAX /\ req.unset \in 0..UINT_MAX
    BY DEF RequestSet
  <2>2. 0 \in 0..UINT_MAX
    BY UintMax
  <2> QED BY <2>1, <2>2, UintWriteTyped
<1>3. \E w \in All : ResVarWrites(var) = <<w>>
  <2>1. CASE FieldType(var.field) = "uint"
    BY <2>1, Zenon DEF ResVarWrites
  <2>2. CASE FieldType(var.field) = "char"
    BY <2>2, Zenon DEF ResVarWrites
  <2>3. CASE FieldType(var.field) # "uint" /\ FieldType(var.field) # "char"
    BY <2>3, Zenon DEF ResVarWrites
  <2> QED BY <2>1, <2>2, <2>3
<1>4. All \subseteq Writes
  <2> HIDE DEF Doc, Odd, Total, Unset, Zero, Char
  <2> QED BY <1>1, <1>2
<1>5. \A w \in Writes : <<w>> \in Seq(Writes)
  OBVIOUS
<1> HIDE DEF All
<1> QED BY <1>3, <1>4, <1>5

LEMMA ResultsTyped ==
  ASSUME req \in RequestSet, tpl \in Templates
  PROVE  FlattenSeq([k \in 1..req.return_num |->
           WritesOf(tpl.res, [i \in DOMAIN tpl.res.pieces |-> ResVarWrites(tpl.res.pieces[i].var)])])
         \in Seq(Writes)
<1> DEFINE varWrites == [i \in DOMAIN tpl.res.pieces |-> ResVarWrites(tpl.res.pieces[i].var)]
           one == WritesOf(tpl.res, varWrites)
           n == req.return_num
<1>1. tpl.res \in Parts(ResVars) /\ n \in Nat
  BY TemplatePageAssumption DEF RequestSet
<1>2. varWrites \in [DOMAIN tpl.res.pieces -> Seq(Writes)]
  BY ResVarTyped
<1> HIDE DEF varWrites
<1>3. one \in Seq(Writes)
  BY <1>1, <1>2, WritesOfTyped
<1> HIDE DEF one, n
<1>4. [k \in 1..n |-> one] \in Seq(Seq(Writes))
  <2>1. [k \in 1..n |-> one] \in [1..n -> Seq(Writes)]
    BY <1>3
  <2> QED BY <1>1, <2>1
<1>5. FlattenSeq([k \in 1..n |-> one]) \in Seq(Writes)
  BY <1>4, FlattenTyped
<1> QED BY <1>5 DEF one, n, varWrites

LEMMA PageVarTyped ==
  ASSUME req \in RequestSet, tpl \in Templates, NEW no \in Nat, NEW var \in PageVars
  PROVE  PageVarWrites(var, no) \in Seq(Writes)
<1>1. /\ req.len \in Nat /\ req.rn \in Nat /\ req.total_num \in Nat
  BY DEF RequestSet
<1>2. /\ Write("copy", req.len, "value") \in Writes /\ Write("print", 1, "value") \in Writes
      /\ Write("print", 2, "value") \in Writes /\ Write("back", 0, "text") \in Writes
  BY <1>1, WriteTyped DEF Kinds, Letters
<1>3. /\ <<Write("copy", req.len, "value")>> \in Seq(Writes)
      /\ <<Write("print", 1, "value")>> \in Seq(Writes)
      /\ <<Write("print", 2, "value")>> \in Seq(Writes)
      /\ <<Write("back", 0, "text")>> \in Seq(Writes) /\ <<>> \in Seq(Writes)
  BY <1>2
<1>4. PageLinks(no, max_page_no(req.rn, req.total_num)) \in Seq(Writes)
  BY <1>1, MaxPageNoTyped, LinksTyped
<1>5. CASE var = "PageNum"
  BY <1>4, <1>5 DEF PageVarWrites
<1>6. CASE var = "Results"
  BY <1>6, ResultsTyped DEF PageVarWrites
<1>7. CASE var \in {"ResStr", "Width", "Name", "Backspace", "Other"}
  BY <1>3, <1>7 DEF PageVarWrites
<1> QED BY <1>5, <1>6, <1>7 DEF PageVars

\* The writes of a part end in the tail of the part.
LEMMA WritesAtTyped ==
  ASSUME req \in RequestSet, tpl \in Templates, NEW no \in Nat, NEW p \in PartNames
  PROVE  Ended(WritesAt(p, no))
<1> DEFINE t == tpl[p]
           varWrites == [i \in DOMAIN t.pieces |-> PageVarWrites(t.pieces[i].var, no)]
<1>1. t \in Parts(PageVars)
  BY TemplatePageAssumption DEF PartNames
<1> HIDE DEF t
<1>2. \A i \in DOMAIN t.pieces : t.pieces[i].var \in PageVars
  <2>1. t.pieces \in Seq([text : Nat, var : PageVars])
    BY <1>1 DEF Parts
  <2>2. \A i \in DOMAIN t.pieces : t.pieces[i] \in [text : Nat, var : PageVars]
    BY <2>1, LenProperties, ElementOfSeq
  <2> QED BY <2>2
<1>3. varWrites \in [DOMAIN t.pieces -> Seq(Writes)]
  BY <1>2, PageVarTyped
<1> HIDE DEF varWrites
<1>4. Ended(WritesOf(t, varWrites))
  BY <1>1, <1>3, WritesOfTyped DEF Ended
<1> QED BY <1>4 DEF WritesAt, t, varWrites

LEMMA PartWritesTyped ==
  ASSUME req \in RequestSet, tpl \in Templates, NEW p \in PartNames
  PROVE  Ended(PartWrites(p))
<1>1. req.page_no \in Nat
  BY DEF RequestSet
<1> QED BY <1>1, WritesAtTyped DEF PartWrites

(***************************************************************************)
(* The writes of a part depend on the template and on the request; of the  *)
(* request, only page_no is ever changed.                                  *)
(***************************************************************************)
SameRequest ==
  /\ req'.rn = req.rn /\ req'.total_num = req.total_num /\ req'.return_num = req.return_num
  /\ req'.len = req.len /\ req'.unset = req.unset

LEMMA SameResVar ==
  ASSUME SameRequest, NEW var
  PROVE  ResVarWrites(var)' = ResVarWrites(var)
<1> QED BY Zenon DEF SameRequest, ResVarWrites

LEMMA SameResults ==
  ASSUME SameRequest, tpl' = tpl
  PROVE  FlattenSeq([k \in 1..req.return_num |->
           WritesOf(tpl.res, [i \in DOMAIN tpl.res.pieces |-> ResVarWrites(tpl.res.pieces[i].var)])])'
         = FlattenSeq([k \in 1..req.return_num |->
           WritesOf(tpl.res, [i \in DOMAIN tpl.res.pieces |-> ResVarWrites(tpl.res.pieces[i].var)])])
<1> DEFINE varWrites == [i \in DOMAIN tpl.res.pieces |-> ResVarWrites(tpl.res.pieces[i].var)]
<1>1. \A i : ResVarWrites(tpl.res.pieces[i].var)' = ResVarWrites(tpl.res.pieces[i].var)
  <2> TAKE i
  <2>1. PICK v : v = tpl.res.pieces[i].var
    OBVIOUS
  <2>2. v = tpl'.res.pieces[i].var
    BY <2>1
  <2>3. ResVarWrites(v)' = ResVarWrites(v)
    BY SameResVar
  <2>4. ResVarWrites(tpl.res.pieces[i].var)' = ResVarWrites(v)'
    BY <2>2, Zenon DEF ResVarWrites
  <2> QED BY <2>1, <2>3, <2>4
<1>2. varWrites' = varWrites
  <2>1. \A i : (ResVarWrites(tpl.res.pieces[i].var))' = ResVarWrites(tpl.res.pieces[i].var)
    BY <1>1
  <2> QED BY <2>1
<1> HIDE DEF varWrites
<1>3. FlattenSeq([k \in 1..req.return_num |-> WritesOf(tpl.res, varWrites)])'
      = FlattenSeq([k \in 1..req.return_num |-> WritesOf(tpl.res, varWrites)])
  <2>1. req'.return_num = req.return_num /\ tpl'.res = tpl.res
    BY DEF SameRequest
  <2> QED BY <1>2, <2>1, Zenon
<1> QED BY <1>3 DEF varWrites

LEMMA SamePageVar ==
  ASSUME SameRequest, tpl' = tpl, NEW no, NEW var \in PageVars
  PROVE  PageVarWrites(var, no)' = PageVarWrites(var, no)
<1>1. CASE var = "Results"
  BY <1>1, SameResults DEF PageVarWrites
<1>2. CASE var \in PageVars \ {"Results"}
  <2>1. /\ req'.rn = req.rn /\ req'.total_num = req.total_num /\ req'.len = req.len
    BY DEF SameRequest
  <2> QED BY <1>2, <2>1 DEF PageVarWrites, PageVars
<1> QED BY <1>1, <1>2

LEMMA SameWritesAt ==
  ASSUME SameRequest, tpl' = tpl, tpl \in Templates, NEW no, NEW p \in PartNames
  PROVE  WritesAt(p, no)' = WritesAt(p, no)
<1> DEFINE varWrites ==
             [i \in DOMAIN tpl[p].pieces |-> PageVarWrites(tpl[p].pieces[i].var, no)]
<1>1. ASSUME NEW i \in DOMAIN tpl[p].pieces
      PROVE  PageVarWrites(tpl[p].pieces[i].var, no)' = PageVarWrites(tpl[p].pieces[i].var, no)
  <2>1. PICK v : v = tpl[p].pieces[i].var
    OBVIOUS
  <2>2. v \in PageVars
    <3>1. tpl[p] \in Parts(PageVars)
      BY TemplatePageAssumption DEF PartNames
    <3>2. tpl[p].pieces \in Seq([text : Nat, var : PageVars])
      BY <3>1 DEF Parts
    <3>3. tpl[p].pieces[i] \in [text : Nat, var : PageVars]
      BY <3>2, LenProperties, ElementOfSeq
    <3> QED BY <2>1, <3>3
  <2>3. v = tpl'[p].pieces[i].var
    BY <2>1
  <2>4. PageVarWrites(v, no)' = PageVarWrites(v, no)
    BY <2>2, SamePageVar
  <2>5. PageVarWrites(tpl[p].pieces[i].var, no)' = PageVarWrites(v, no)'
    BY <2>3, Zenon DEF PageVarWrites
  <2> QED BY <2>1, <2>4, <2>5
<1>2. varWrites' = varWrites
  <2>1. tpl'[p] = tpl[p]
    OBVIOUS
  <2>2. \A i \in DOMAIN tpl[p].pieces :
          (PageVarWrites(tpl[p].pieces[i].var, no))' = PageVarWrites(tpl[p].pieces[i].var, no)
    BY <1>1
  <2> QED BY <2>1, <2>2
<1> HIDE DEF varWrites
<1>3. WritesOf(tpl[p], varWrites)' = WritesOf(tpl[p], varWrites)
  BY <1>2, Zenon
<1> QED BY <1>3 DEF WritesAt, varWrites

(***************************************************************************)
(* The inductive invariant.                                                *)
(***************************************************************************)

\* The k-th write is the least int, or a number or a date that comes to the end of
\* the buffer.
SqueezedAt(ws, k) ==
  \/ ws[k].kind = "least"
  \/ ws[k].kind \in {"grouped", "date"} /\ Len(Rendering(ws)[k - 1]) + ws[k].n >= size

\* The page holds what the first n writes give, but for a last cell.
Whole(ws, n) ==
  /\ \A k \in 1..n : Len(Rendering(ws)[k]) <= size
  /\ Len(out) = Len(Rendering(ws)[n])
  /\ \A i \in 1..Len(out) : out[i] = Rendering(ws)[n][i] \/ (i = size /\ out[i] = "nul")

\* The first n writes were carried out.
Written(ws, n) ==
  /\ \A k \in 1..n : ws[k].kind # "odd"
  /\ (\E k \in 1..n : SqueezedAt(ws, k)) \/ Whole(ws, n)

\* There is a reason to give part p up.
Hopeless(ws) == TooLong(ws) \/ Has("odd", ws) \/ Squeezed(ws)

PageTyped ==
  /\ size \in Nat \ {0} /\ size \in Sizes /\ tpl \in Templates /\ req \in RequestSet
  /\ part \in PartNames
  /\ out \in Seq(Letters) /\ nleft = size - Len(out) /\ Len(out) <= size
  /\ beyond \in BOOLEAN
  /\ state \in {"begin", "write", "sent", "braces", "empty", "crashed"}

\* Nothing happens before the page number is corrected.
PageBegun ==
  IF state \in {"begin", "braces"}
  THEN part = "page" /\ out = <<>>
  ELSE req.page_no <= max_page_no(req.rn, req.total_num)

\* The parts are tried in turn, each for a reason.
PartInTurn ==
  state \notin {"begin", "braces"} =>
    /\ part \in {Called, "error"}
    /\ part = "error" => Hopeless(PartWrites(Called))

\* What is left to write, and what was written.
PartWritten ==
  LET ws == PartWrites(part) IN
  /\ state = "write" =>
       \E n \in 0..(Len(ws) - 1) : Written(ws, n) /\ todo = SubSeq(ws, n + 1, Len(ws))
  /\ state = "sent" => Written(ws, Len(ws))
  /\ state = "empty" => part = "error" /\ Hopeless(ws)

PageInvariant == PageTyped /\ PageBegun /\ PartInTurn /\ PartWritten

(***************************************************************************)
(* A single write.                                                         *)
(***************************************************************************)

\* n writes of the part are done.
Place(ws, n) ==
  /\ ws = PartWrites(part) /\ Ended(ws) /\ n \in 0..(Len(ws) - 1) /\ n + 1 \in 1..Len(ws)
  /\ Written(ws, n)
  /\ todo = SubSeq(ws, n + 1, Len(ws)) /\ Head(todo) = ws[n + 1] /\ ws[n + 1] \in Writes
  /\ Tail(todo) = SubSeq(ws, n + 2, Len(ws)) /\ Len(todo) = Len(ws) - n
  /\ ws[n + 1].kind # "tail" => n + 1 < Len(ws)

LEMMA WritesAreAtAPlace ==
  ASSUME PageInvariant, state = "write"
  PROVE  \E ws, n : Place(ws, n)
<1>1. PICK ws : ws = PartWrites(part)
  OBVIOUS
<1>2. PICK n \in 0..(Len(ws) - 1) : Written(ws, n) /\ todo = SubSeq(ws, n + 1, Len(ws))
  BY <1>1 DEF PageInvariant, PartWritten
<1>3. Ended(ws)
  BY <1>1, PartWritesTyped DEF PageInvariant, PageTyped
<1> DEFINE L == Len(ws)
<1>4. L \in Nat \ {0} /\ ws \in Seq(Writes) /\ n \in 0..(L - 1) /\ ws[L].kind = "tail"
  BY <1>2, <1>3 DEF Ended
<1>5. n + 1 \in 1..L /\ L \in (n + 1)..L /\ n + 1 + 1 = n + 2 /\ n + 1 \in Int /\ L \in Int
      /\ L - (n + 1) + 1 = L - n /\ n + 1 <= L /\ (n + 1 # L => n + 1 < L)
  BY <1>4
<1>6. Head(SubSeq(ws, n + 1, L)) = ws[n + 1] /\ Tail(SubSeq(ws, n + 1, L)) = SubSeq(ws, n + 1 + 1, L)
  BY <1>4, <1>5, HeadTailOfSubSeq
<1>7. Len(SubSeq(ws, n + 1, L)) = L - (n + 1) + 1
  <2>1. \A i \in (n + 1)..L : ws[i] \in Writes
    <3>1. \A i \in (n + 1)..L : i \in 1..L
      BY <1>4
    <3> QED BY <1>4, <3>1, ElementOfSeq
  <2>2. Len(SubSeq(ws, n + 1, L)) = IF n + 1 <= L THEN L - (n + 1) + 1 ELSE 0
    <3>1. n + 1 \in Int /\ L \in Int
      BY <1>5
    <3> QED BY <2>1, <3>1, SubSeqProperties
  <2> QED BY <1>5, <2>2
<1>8. ws[n + 1] \in Writes
  BY <1>4, <1>5, ElementOfSeq
<1>9. ws[n + 1].kind # "tail" => n + 1 < L
  BY <1>4, <1>5
<1>10. Place(ws, n)
  <2>1. todo = SubSeq(ws, n + 1, L) /\ Written(ws, n)
    BY <1>2
  <2>2. Head(todo) = ws[n + 1] /\ Tail(todo) = SubSeq(ws, n + 2, L) /\ Len(todo) = L - n
    BY <1>5, <1>6, <1>7, <2>1
  <2> QED BY <1>1, <1>2, <1>3, <1>5, <1>8, <1>9, <2>1, <2>2 DEF Place
<1> QED BY <1>10

\* Cells appended where there was room for them.
LEMMA WholeGrows ==
  ASSUME PageTyped, NEW ws \in Seq(Writes), NEW n \in 0..(Len(ws) - 1), Whole(ws, n),
         ws[n + 1].kind # "back", NEW cells \in Seq(Letters), Len(cells) = ws[n + 1].n,
         Len(out) + ws[n + 1].n <= size,
         \A i \in 1..Len(cells) :
           cells[i] = ws[n + 1].letter \/ (Len(out) + i = size /\ cells[i] = "nul"),
         out' = out \o cells, size' = size
  PROVE  Whole(ws, n + 1)'
<1> DEFINE R == Rendering(ws)
           w == ws[n + 1]
           more == R[n] \o Cells(w)
           a == Len(out)
           b == Len(cells)
<1>1. /\ n + 1 \in 1..Len(ws) /\ n \in 0..Len(ws) /\ n + 1 - 1 = n /\ n \in Nat /\ Len(ws) \in Nat
      /\ \A k \in 1..(n + 1) : k = n + 1 \/ k \in 1..n
  BY LenProperties
<1>2. w \in Writes /\ R[n] \in Seq(Letters) /\ R[n + 1] = Effect(R[n], w)
  BY <1>1, RenderingSteps, ElementOfSeq
<1>3. R[n + 1] = more
  BY <1>2 DEF Effect
<1>4. Cells(w) \in Seq(Letters) /\ Len(Cells(w)) = b /\ \A i \in 1..b : Cells(w)[i] = w.letter
  BY <1>2, CellsTyped
<1>5. a \in Nat /\ b \in Nat /\ Len(R[n]) = a /\ out \in Seq(Letters)
  BY LenProperties DEF Whole, PageTyped
<1>6. Len(more) = a + b /\ \A i \in 1..(a + b) : more[i] = IF i <= a THEN R[n][i] ELSE Cells(w)[i - a]
  <2> DEFINE old == R[n]
             new == Cells(w)
  <2>1. old \in Seq(Letters) /\ new \in Seq(Letters) /\ Len(old) = a /\ Len(new) = b
    BY <1>2, <1>4, <1>5
  <2> HIDE DEF old, new
  <2>2. /\ Len(old \o new) = Len(old) + Len(new)
        /\ \A i \in 1..(Len(old) + Len(new)) :
             (old \o new)[i] = IF i <= Len(old) THEN old[i] ELSE new[i - Len(old)]
    BY <2>1, ConcatProperties, SMTT(30)
  <2>3. /\ Len(old \o new) = a + b
        /\ \A i \in 1..(a + b) : (old \o new)[i] = IF i <= a THEN old[i] ELSE new[i - a]
    BY <2>1, <2>2
  <2> QED BY <2>3 DEF old, new
<1>7. Len(out') = a + b /\ \A i \in 1..(a + b) : out'[i] = IF i <= a THEN out[i] ELSE cells[i - a]
  BY <1>5, ConcatProperties
<1>8. \A i \in 1..a : out[i] = R[n][i] \/ (i = size /\ out[i] = "nul")
  BY DEF Whole
<1>9. a + b <= size /\ \A i \in 1..b : cells[i] = w.letter \/ (a + i = size /\ cells[i] = "nul")
  OBVIOUS
<1>10. \A k \in 1..n : Len(R[k]) <= size
  BY DEF Whole
<1> HIDE DEF a, b, more, w, R
<1>11. \A k \in 1..(n + 1) : Len(R[k]) <= size
  BY <1>1, <1>3, <1>6, <1>9, <1>10
<1>12. ASSUME NEW i \in 1..(a + b)
       PROVE  out'[i] = more[i] \/ (i = size /\ out'[i] = "nul")
  <2>1. CASE i <= a
    <3>1. i \in 1..a
      BY <1>5, <2>1
    <3> QED BY <1>6, <1>7, <1>8, <2>1, <3>1
  <2>2. CASE ~(i <= a)
    <3>1. i - a \in 1..b /\ a + (i - a) = i
      BY <1>5, <2>2
    <3>2. out'[i] = cells[i - a] /\ more[i] = w.letter
      BY <1>4, <1>6, <1>7, <2>2, <3>1
    <3> QED BY <1>9, <3>1, <3>2
  <2> QED BY <2>1, <2>2
<1>13. /\ \A k \in 1..(n + 1) : Len(Rendering(ws)[k]) <= size'
       /\ Len(out') = Len(Rendering(ws)[n + 1])
       /\ \A i \in 1..Len(out') :
            out'[i] = Rendering(ws)[n + 1][i] \/ (i = size' /\ out'[i] = "nul")
  BY <1>3, <1>6, <1>7, <1>11, <1>12 DEF R
<1> QED BY <1>13 DEF Whole

\* uiBackspace.
LEMMA WholeShrinks ==
  ASSUME PageTyped, NEW ws \in Seq(Writes), NEW n \in 0..(Len(ws) - 1), Whole(ws, n),
         ws[n + 1].kind = "back", out' = IF out = <<>> THEN out ELSE Front(out), size' = size
  PROVE  Whole(ws, n + 1)'
<1> DEFINE R == Rendering(ws)
           w == ws[n + 1]
<1>1. /\ n + 1 \in 1..Len(ws) /\ n \in 0..Len(ws) /\ n + 1 - 1 = n /\ n \in Nat
      /\ \A k \in 1..(n + 1) : k = n + 1 \/ k \in 1..n
  BY LenProperties
<1>2. R[n] \in Seq(Letters) /\ R[n + 1] = IF R[n] = <<>> THEN R[n] ELSE Front(R[n])
  BY <1>1, RenderingSteps DEF Effect
<1>3. /\ Len(out) \in Nat /\ Len(out) = Len(R[n]) /\ out \in Seq(Letters) /\ Len(out) <= size
      /\ size \in Nat
  BY LenProperties DEF Whole, PageTyped
<1>4. \A i \in 1..Len(out) : out[i] = R[n][i] \/ (i = size /\ out[i] = "nul")
  BY DEF Whole
<1>5. \A k \in 1..n : Len(R[k]) <= size
  BY DEF Whole
<1>6. out = <<>> <=> R[n] = <<>>
  BY <1>2, <1>3, EmptySeq
<1> HIDE DEF R
<1>7. Len(R[n + 1]) <= size /\ Len(out') = Len(R[n + 1])
      /\ \A i \in 1..Len(out') : out'[i] = R[n + 1][i] \/ (i = size /\ out'[i] = "nul")
  <2>1. CASE out = <<>>
    BY <1>2, <1>3, <1>4, <1>6, <2>1
  <2>2. CASE out # <<>>
    <3>1. out' = Front(out) /\ R[n + 1] = Front(R[n])
      BY <1>2, <1>6, <2>2
    <3>2. /\ Len(out) >= 1 /\ Len(Front(out)) = Len(out) - 1
          /\ \A i \in 1..(Len(out) - 1) : Front(out)[i] = out[i]
      BY <1>3, <2>2, FrontShorter
    <3>3. /\ Len(Front(R[n])) = Len(R[n]) - 1
          /\ \A i \in 1..(Len(R[n]) - 1) : Front(R[n])[i] = R[n][i]
      BY <1>2, <1>6, <2>2, FrontShorter
    <3>4. \A i \in 1..(Len(out) - 1) : i \in 1..Len(out)
      BY <1>3
    <3>5. Len(out') = Len(out) - 1 /\ Len(R[n + 1]) = Len(out) - 1
      BY <1>3, <3>1, <3>2, <3>3
    <3>6. \A i \in 1..(Len(out) - 1) : out'[i] = out[i] /\ R[n + 1][i] = R[n][i]
      BY <1>3, <3>1, <3>2, <3>3
    <3>7. Len(R[n + 1]) <= size
      BY <1>3, <3>5
    <3>8. \A i \in 1..(Len(out) - 1) : out'[i] = R[n + 1][i] \/ (i = size /\ out'[i] = "nul")
      BY <1>4, <3>4, <3>6
    <3> QED BY <3>5, <3>7, <3>8
  <2> QED BY <2>1, <2>2
<1>8. \A k \in 1..(n + 1) : Len(R[k]) <= size
  BY <1>1, <1>5, <1>7
<1>9. /\ \A k \in 1..(n + 1) : Len(Rendering(ws)[k]) <= size'
      /\ Len(out') = Len(Rendering(ws)[n + 1])
      /\ \A i \in 1..Len(out') :
            out'[i] = Rendering(ws)[n + 1][i] \/ (i = size' /\ out'[i] = "nul")
  BY <1>7, <1>8 DEF R
<1> QED BY <1>9 DEF Whole

(***************************************************************************)
(* Giving up.                                                              *)
(***************************************************************************)

\* A write that does not fit, or that is unknown, is a reason; so is a number
\* or a date that comes to the end of the buffer.
LEMMA ReasonsToGiveUp ==
  ASSUME PageTyped, NEW ws, NEW n, Place(ws, n),
         \/ ws[n + 1].kind # "back" /\ Len(out) + ws[n + 1].n > size
         \/ ws[n + 1].kind = "odd"
         \/ SqueezedAt(ws, n + 1)
  PROVE  Hopeless(ws)
<1>1. /\ n + 1 \in 1..Len(ws) /\ n \in 0..Len(ws) /\ ws \in Seq(Writes) /\ Len(ws) \in Nat
      /\ n \in Nat /\ n + 1 - 1 = n /\ DOMAIN ws = 1..Len(ws)
      /\ \A k \in 1..n : k \in 1..Len(ws)
  BY LenProperties DEF Place, Ended
<1>2. CASE ws[n + 1].kind = "odd"
  BY <1>1, <1>2 DEF Hopeless, Has
<1>3. CASE \E k \in 1..n : SqueezedAt(ws, k)
  BY <1>1, <1>3 DEF Hopeless, Squeezed, SqueezedAt
<1>4. CASE SqueezedAt(ws, n + 1)
  BY <1>1, <1>4 DEF Hopeless, Squeezed, SqueezedAt
<1>5. CASE Whole(ws, n) /\ ws[n + 1].kind # "back" /\ Len(out) + ws[n + 1].n > size
  <2> DEFINE w == ws[n + 1]
             sofar == Rendering(ws)[n]
  <2>1. w \in Writes /\ sofar \in Seq(Letters) /\ Len(sofar) = Len(out)
    BY <1>1, <1>5, RenderingSteps, ElementOfSeq DEF Whole
  <2>2. Rendering(ws)[n + 1] = Effect(sofar, w)
    BY <1>1, RenderingSteps
  <2>3. Effect(sofar, w) = sofar \o Cells(w)
    BY <1>5 DEF Effect
  <2> HIDE DEF sofar
  <2>4. Len(sofar \o Cells(w)) = Len(sofar) + Len(Cells(w)) /\ Len(Cells(w)) = w.n
    BY <2>1, CellsTyped, ConcatProperties
  <2>5. Len(Rendering(ws)[n + 1]) = Len(out) + ws[n + 1].n
    BY <2>1, <2>2, <2>3, <2>4
  <2>6. TooLong(ws)
    BY <1>1, <1>5, <2>5 DEF TooLong
  <2> QED BY <2>6 DEF Hopeless
<1>6. (\E k \in 1..n : SqueezedAt(ws, k)) \/ Whole(ws, n)
  BY DEF Place, Written
<1> QED BY <1>2, <1>3, <1>4, <1>5, <1>6

LEMMA CalledIsAPart == Called \in PartNames \ {"error"}
<1> QED BY DEF Called, PartNames

LEMMA SameParts ==
  ASSUME PageTyped, UNCHANGED <<size, tpl, req>>
  PROVE  /\ Called' = Called
         /\ \A p \in PartNames : PartWrites(p)' = PartWrites(p)
         /\ \A ws : Hopeless(ws)' <=> Hopeless(ws)
         /\ \A ws, k : SqueezedAt(ws, k)' <=> SqueezedAt(ws, k)
<1>1. SameRequest
  BY DEF SameRequest
<1>2. Called' = Called
  BY DEF Called
<1>3. ASSUME NEW p \in PartNames
      PROVE  PartWrites(p)' = PartWrites(p)
  <2>1. PICK no : no = req.page_no
    OBVIOUS
  <2>2. WritesAt(p, no)' = WritesAt(p, no)
    BY <1>1, SameWritesAt DEF PageTyped
  <2>3. WritesAt(p, req.page_no)' = WritesAt(p, no)'
    <3>1. no = req'.page_no
      BY <2>1
    <3> QED BY <3>1, Zenon DEF WritesAt
  <2> QED BY <2>1, <2>2, <2>3 DEF PartWrites
<1>4. \A ws : Hopeless(ws)' <=> Hopeless(ws)
  BY DEF Hopeless, TooLong, Squeezed, Has
<1>5. \A ws, k : SqueezedAt(ws, k)' <=> SqueezedAt(ws, k)
  BY DEF SqueezedAt
<1> QED BY <1>2, <1>3, <1>4, <1>5

LEMMA GivingUpIsInTurn ==
  ASSUME PageInvariant, state = "write", Hopeless(PartWrites(part)), GiveUp,
         UNCHANGED <<size, tpl, req>>, beyond' \in BOOLEAN
  PROVE  PageInvariant'
<1> USE DEF PageInvariant
<1>1. PageTyped /\ part \in {Called, "error"}
  BY DEF PartInTurn
<1>2. /\ Called' = Called /\ \A p \in PartNames : PartWrites(p)' = PartWrites(p)
      /\ \A ws : Hopeless(ws)' <=> Hopeless(ws)
  BY <1>1, SameParts
<1>3. Called \in PartNames /\ Called # "error" /\ "error" \in PartNames
  BY CalledIsAPart DEF PartNames
<1>4. out' = <<>> /\ nleft' = size
  BY DEF GiveUp
<1>5. /\ part' = "error" /\ state' \in {"write", "empty"}
      /\ part # "error" => state' = "write" /\ todo' = PartWrites("error")
      /\ part = "error" => state' = "empty"
  BY DEF GiveUp
<1>6. PageTyped'
  BY <1>1, <1>3, <1>4, <1>5, EmptySeq DEF PageTyped
<1>7. PageBegun'
  BY <1>5 DEF PageBegun
<1>8. Hopeless(PartWrites(Called))
  BY <1>1 DEF PartInTurn
<1>9. PartInTurn'
  <2>1. PICK ws : ws = PartWrites(Called)
    OBVIOUS
  <2>2. PartWrites(Called)' = ws
    <3>1. PICK p \in PartNames : p = Called
      BY <1>3
    <3>2. PartWrites(p)' = ws
      BY <1>2, <2>1, <3>1
    <3>3. PartWrites(Called)' = PartWrites(p)'
      BY <1>2, <3>1
    <3> QED BY <3>2, <3>3
  <2>3. Hopeless(PartWrites(Called))' <=> Hopeless(ws)'
    BY <2>2, Zenon DEF Hopeless, TooLong, Squeezed, Has
  <2> QED BY <1>2, <1>5, <1>8, <2>1, <2>3 DEF PartInTurn
<1>10. PartWritten'
  <2>1. PICK ws : ws = PartWrites("error")
    OBVIOUS
  <2>2. PartWrites("error")' = ws
    BY <1>2, <1>3, <2>1
  <2>3. PartWrites(part)' = ws
    BY <1>5, <2>2
  <2>4. CASE part # "error"
    <3>1. Ended(ws)
      BY <1>1, <1>3, <2>1, PartWritesTyped DEF PageTyped
    <3>2. ws \in Seq(Writes) /\ Len(ws) \in Nat \ {0} /\ 0 \in 0..(Len(ws) - 1)
      BY <3>1 DEF Ended
    <3>3. todo' = SubSeq(ws, 0 + 1, Len(ws))
      BY <1>5, <2>1, <2>4, <3>2, SubSeqFull
    <3>4. Written(ws, 0)'
      <4>1. Rendering(ws)[0] = <<>>
        BY <3>2, RenderingSteps
      <4>2. Whole(ws, 0)'
        BY <1>4, <4>1 DEF Whole
      <4> QED BY <4>2 DEF Written
    <3>5. state' = "write"
      BY <1>5, <2>4
    <3> QED BY <2>3, <3>2, <3>3, <3>4, <3>5 DEF PartWritten
  <2>5. CASE part = "error"
    <3>1. Hopeless(ws)'
      BY <1>2, <2>1, <2>5
    <3>2. state' = "empty"
      BY <1>5, <2>5
    <3>3. Hopeless(PartWrites(part))' <=> Hopeless(ws)'
      BY <2>3, Zenon DEF Hopeless, TooLong, Squeezed, Has
    <3> QED BY <1>5, <3>1, <3>2, <3>3 DEF PartWritten
  <2> QED BY <2>4, <2>5
<1> QED BY <1>6, <1>7, <1>9, <1>10

(***************************************************************************)
(* Going on.                                                               *)
(***************************************************************************)
LEMMA TurnKept ==
  ASSUME PageTyped, PartInTurn, UNCHANGED <<size, tpl, req, part>>,
         state \in {"begin", "braces"} => state' = state
  PROVE  PartInTurn'
<1>1. /\ Called' = Called /\ \A p \in PartNames : PartWrites(p)' = PartWrites(p)
      /\ \A v : Hopeless(v)' <=> Hopeless(v)
  BY SameParts
<1>2. PICK p \in PartNames : p = Called
  BY CalledIsAPart
<1>3. PICK u : u = PartWrites(p)
  OBVIOUS
<1>4. PartWrites(Called)' = u
  <2>1. PartWrites(p)' = u
    BY <1>1, <1>3
  <2>2. PartWrites(Called)' = PartWrites(p)'
    BY <1>1, <1>2
  <2> QED BY <2>1, <2>2
<1>5. Hopeless(PartWrites(Called))' <=> Hopeless(u)'
  BY <1>4, Zenon DEF Hopeless, TooLong, Squeezed, Has
<1>6. SUFFICES ASSUME state' \notin {"begin", "braces"} PROVE PartInTurn'
  BY DEF PartInTurn
<1>7. part \in {Called, "error"} /\ (part = "error" => Hopeless(PartWrites(Called)))
  BY <1>6 DEF PartInTurn
<1> QED BY <1>1, <1>2, <1>3, <1>5, <1>7 DEF PartInTurn

LEMMA GoingOnIsInTurn ==
  ASSUME PageInvariant, state = "write", NEW ws, NEW n, Place(ws, n),
         UNCHANGED <<size, tpl, req, part>>, todo' = Tail(todo),
         state' = IF n + 1 = Len(ws) THEN "sent" ELSE "write",
         out' \in Seq(Letters), nleft' = size - Len(out'), Len(out') <= size,
         beyond' \in BOOLEAN, ws[n + 1].kind # "odd",
         (\E k \in 1..(n + 1) : SqueezedAt(ws, k)) \/ (Whole(ws, n) => Whole(ws, n + 1)')
  PROVE  PageInvariant'
<1> USE DEF PageInvariant
<1>1. PageTyped /\ PartInTurn /\ part \in PartNames
  BY DEF PageTyped
<1>2. /\ Called' = Called /\ \A p \in PartNames : PartWrites(p)' = PartWrites(p)
      /\ \A v : Hopeless(v)' <=> Hopeless(v)
      /\ \A v, k : SqueezedAt(v, k)' <=> SqueezedAt(v, k)
  BY <1>1, SameParts
<1>3. state' \in {"write", "sent"}
  OBVIOUS
<1>4. PageTyped'
  BY <1>1, <1>3 DEF PageTyped
<1>5. PageBegun'
  <2>1. req'.page_no <= max_page_no(req'.rn, req'.total_num)
    BY DEF PageBegun
  <2>2. state' \notin {"begin", "braces"}
    BY <1>3
  <2> QED BY <2>1, <2>2 DEF PageBegun
<1>6. PartInTurn'
  <2>1. state \notin {"begin", "braces"}
    OBVIOUS
  <2> QED BY <1>1, <2>1, TurnKept
<1>7. PartWritten'
  <2>1. ws = PartWrites(part) /\ Ended(ws) /\ n \in 0..(Len(ws) - 1) /\ Written(ws, n)
        /\ Tail(todo) = SubSeq(ws, n + 2, Len(ws))
    BY DEF Place
  <2>2. PartWrites(part)' = ws
    <3>1. PICK p \in PartNames : p = part
      BY <1>1
    <3>2. PartWrites(p)' = ws
      BY <1>2, <2>1, <3>1
    <3>3. PartWrites(part)' = PartWrites(p)'
      BY <3>1
    <3> QED BY <3>2, <3>3
  <2>3. /\ Len(ws) \in Nat \ {0} /\ n \in Nat /\ n + 1 + 1 = n + 2
        /\ \A k \in 1..(n + 1) : k = n + 1 \/ k \in 1..n
        /\ \A k \in 1..n : k \in 1..(n + 1)
        /\ (n + 1 # Len(ws) => n + 1 \in 0..(Len(ws) - 1))
    BY <2>1 DEF Ended
  <2>4. Written(ws, n + 1)'
    <3>1. \A k \in 1..(n + 1) : ws[k].kind # "odd"
      BY <2>1, <2>3 DEF Written
    <3>2. (\E k \in 1..n : SqueezedAt(ws, k)) \/ Whole(ws, n)
      BY <2>1 DEF Written
    <3>3. (\E k \in 1..(n + 1) : SqueezedAt(ws, k)) \/ Whole(ws, n + 1)'
      BY <2>3, <3>2
    <3>4. (\E k \in 1..(n + 1) : SqueezedAt(ws, k)') \/ Whole(ws, n + 1)'
      BY <1>2, <3>3
    <3> QED BY <3>1, <3>4 DEF Written
  <2>5. CASE n + 1 = Len(ws)
    <3>1. state' = "sent" /\ Written(ws, Len(ws))'
      BY <2>4, <2>5
    <3> QED BY <2>2, <3>1 DEF PartWritten
  <2>6. CASE n + 1 # Len(ws)
    <3>1. state' = "write" /\ todo' = SubSeq(ws, n + 1 + 1, Len(ws))
      BY <2>1, <2>3, <2>6
    <3>2. PICK m : m = n + 1
      OBVIOUS
    <3>3. m \in 0..(Len(ws) - 1) /\ Written(ws, m)' /\ todo' = SubSeq(ws, m + 1, Len(ws))
      <4>1. Written(ws, m)' <=> Written(ws, n + 1)'
        BY <3>2, Zenon
      <4>2. Written(ws, m)'
        BY <2>4, <4>1, Zenon
      <4>3. n + 1 \in 0..(Len(ws) - 1) /\ todo' = SubSeq(ws, n + 1 + 1, Len(ws))
        BY <2>3, <2>6, <3>1
      <4>4. m \in 0..(Len(ws) - 1) /\ todo' = SubSeq(ws, m + 1, Len(ws))
        BY <3>2, <4>3, Zenon
      <4> QED BY <4>2, <4>4, Zenon
    <3>4. \E k \in 0..(Len(ws) - 1) : Written(ws, k)' /\ todo' = SubSeq(ws, k + 1, Len(ws))
      BY <3>3
    <3>5. state' # "sent" /\ state' # "empty"
      BY <3>1
    <3> QED BY <2>2, <3>4, <3>5, Zenon DEF PartWritten
  <2> QED BY <2>5, <2>6
<1> QED BY <1>4, <1>5, <1>6, <1>7

\* Cells that fit are appended.
LEMMA AppendingIsInTurn ==
  ASSUME PageInvariant, state = "write", NEW ws, NEW n, Place(ws, n),
         NEW cells \in Seq(Letters), Len(cells) <= nleft, Put(cells, Len(cells)),
         UNCHANGED <<size, tpl, req>>, beyond' \in BOOLEAN,
         state' = IF n + 1 = Len(ws) THEN "sent" ELSE "write",
         ws[n + 1].kind \notin {"odd", "back"},
         \/ \E k \in 1..(n + 1) : SqueezedAt(ws, k)
         \/ /\ Len(cells) = ws[n + 1].n
            /\ \A i \in 1..Len(cells) :
                 cells[i] = ws[n + 1].letter \/ (Len(out) + i = size /\ cells[i] = "nul")
  PROVE  PageInvariant'
<1>1. PageTyped /\ ws \in Seq(Writes) /\ n \in 0..(Len(ws) - 1)
  BY DEF PageInvariant, Place, Ended
<1>2. /\ out \in Seq(Letters) /\ size \in Nat /\ Len(out) \in Nat /\ Len(cells) \in Nat
      /\ nleft = size - Len(out)
  BY <1>1, LenProperties DEF PageTyped
<1>3. /\ out' = out \o cells /\ todo' = Tail(todo) /\ part' = part
      /\ nleft' = nleft - Len(cells)
  BY DEF Put
<1>4. out \o cells \in Seq(Letters) /\ Len(out \o cells) = Len(out) + Len(cells)
  BY <1>2, ConcatProperties
<1>5. out' \in Seq(Letters) /\ nleft' = size - Len(out') /\ Len(out') <= size
  BY <1>2, <1>3, <1>4
<1>6. Len(out) + Len(cells) <= size
  BY <1>2
<1>7. ASSUME Len(cells) = ws[n + 1].n, Whole(ws, n),
             \A i \in 1..Len(cells) :
               cells[i] = ws[n + 1].letter \/ (Len(out) + i = size /\ cells[i] = "nul")
      PROVE  Whole(ws, n + 1)'
  BY <1>1, <1>3, <1>6, <1>7, WholeGrows
<1> QED BY <1>3, <1>5, <1>7, GoingOnIsInTurn

LEMMA SqueezedSoFar ==
  ASSUME NEW ws, NEW n, Place(ws, n), \E k \in 1..(n + 1) : SqueezedAt(ws, k)
  PROVE  Hopeless(ws)
<1>1. DOMAIN ws = 1..Len(ws) /\ \A k \in 1..(n + 1) : k \in 1..Len(ws)
  BY LenProperties DEF Place, Ended
<1> QED BY <1>1 DEF Hopeless, Squeezed, SqueezedAt

\* A number with separators, or a date, as long as the room.
LEMMA AtTheEnd ==
  ASSUME PageTyped, NEW ws, NEW n, Place(ws, n), ws[n + 1].kind \in {"grouped", "date"},
         ws[n + 1].n >= nleft
  PROVE  \E k \in 1..(n + 1) : SqueezedAt(ws, k)
<1>1. /\ n \in Nat /\ n + 1 \in 1..(n + 1) /\ n + 1 - 1 = n /\ ws[n + 1].n \in Nat
      /\ \A k \in 1..n : k \in 1..(n + 1)
  BY DEF Place, Ended, Writes
<1>2. CASE Whole(ws, n)
  <2>1. Len(Rendering(ws)[n]) = Len(out) /\ Len(out) \in Nat /\ size \in Nat
        /\ nleft = size - Len(out)
    BY <1>2, LenProperties DEF Whole, PageTyped
  <2>2. Len(Rendering(ws)[n]) + ws[n + 1].n >= size
    BY <1>1, <2>1
  <2>3. SqueezedAt(ws, n + 1)
    BY <1>1, <2>2 DEF SqueezedAt
  <2> QED BY <1>1, <2>3
<1>3. CASE \E k \in 1..n : SqueezedAt(ws, k)
  BY <1>1, <1>3
<1> QED BY <1>2, <1>3 DEF Place, Written

(***************************************************************************)
(* The actions.                                                            *)
(***************************************************************************)
LEMMA PageInit ==
  ASSUME Init
  PROVE  PageInvariant
<1>1. PageTyped
  <2>1. size \in Nat \ {0} /\ size \in Sizes /\ tpl \in Templates /\ req \in RequestSet
    BY TemplatePageAssumption DEF Init, RequestSet
  <2>2. out = <<>> /\ nleft = size
    BY DEF Init
  <2>3. out \in Seq(Letters) /\ nleft = size - Len(out) /\ Len(out) <= size
    BY <2>1, <2>2
  <2>4. /\ part \in PartNames /\ beyond \in BOOLEAN
        /\ state \in {"begin", "write", "sent", "braces", "empty", "crashed"}
    BY DEF Init, PartNames
  <2> QED BY <2>1, <2>3, <2>4 DEF PageTyped
<1> QED BY <1>1 DEF Init, PageInvariant, PageBegun, PartInTurn, PartWritten

LEMMA NoTemplateIsInTurn ==
  ASSUME PageInvariant, NoTemplate
  PROVE  PageInvariant'
<1> USE DEF PageInvariant, NoTemplate
<1>1. PageTyped'
  BY DEF PageTyped
<1>2. PageBegun'
  BY DEF PageBegun
<1>3. PartInTurn' /\ PartWritten'
  BY DEF PartInTurn, PartWritten
<1> QED BY <1>1, <1>2, <1>3

LEMMA MakePageIsInTurn ==
  ASSUME PageInvariant, MakePage
  PROVE  PageInvariant'
<1> DEFINE count == max_page_no(req.rn, req.total_num)
           new == ClampPageNo(req.page_no, count)
<1>1. /\ PageTyped /\ out = <<>> /\ state' = "write"
      /\ UNCHANGED <<size, tpl, out, nleft, beyond>>
      /\ req' = [req EXCEPT !.page_no = new]
  BY DEF PageInvariant, PageBegun, MakePage
<1>2. count \in Nat /\ req.page_no \in Nat
  BY <1>1, MaxPageNoTyped DEF PageTyped, RequestSet
<1> HIDE DEF count
<1>3. new \in Nat /\ new <= count
  BY <1>2 DEF ClampPageNo
<1> HIDE DEF new
<1>4. /\ req' \in RequestSet /\ req'.page_no = new /\ SameRequest
      /\ req'.return_num = req.return_num
  BY <1>1, <1>3 DEF PageTyped, RequestSet, SameRequest
<1>5. part' = Called' /\ part' \in PartNames /\ part' # "error"
  BY <1>4 DEF MakePage, Called, PartNames
<1>6. PageTyped'
  BY <1>1, <1>4, <1>5 DEF PageTyped
<1>7. PageBegun'
  <2>1. max_page_no(req.rn, req.total_num)' = count
    <3>1. req'.rn = req.rn /\ req'.total_num = req.total_num
      BY <1>4 DEF SameRequest
    <3> QED BY <3>1, Zenon DEF count
  <2> QED BY <1>1, <1>3, <1>4, <2>1 DEF PageBegun
<1>8. PartInTurn'
  BY <1>5 DEF PartInTurn
<1>9. PartWritten'
  <2>1. PICK p \in PartNames : p = part'
    BY <1>5
  <2>2. PICK no \in Nat : no = new
    BY <1>3
  <2>3. PICK ws : ws = WritesAt(p, no)
    OBVIOUS
  <2>4. Ended(ws)
    BY <1>1, <2>3, WritesAtTyped DEF PageTyped
  <2>5. WritesAt(p, no)' = ws
    BY <1>1, <1>4, <2>3, SameWritesAt DEF PageTyped
  <2>6. PartWrites(part)' = ws
    <3>1. no = req'.page_no
      BY <1>4, <2>2
    <3>2. PartWrites(part)' = WritesAt(p, no)'
      BY <2>1, <3>1, Zenon DEF PartWrites, WritesAt
    <3> QED BY <2>5, <3>2
  <2>7. todo' = ws
    <3>1. todo' = WritesAt(part', req'.page_no)
      BY DEF MakePage
    <3>2. part' = p /\ req'.page_no = no
      BY <1>4, <2>1, <2>2
    <3> QED BY <2>3, <3>1, <3>2, Zenon
  <2>8. ws \in Seq(Writes) /\ Len(ws) \in Nat \ {0} /\ 0 \in 0..(Len(ws) - 1)
    BY <2>4 DEF Ended
  <2>9. todo' = SubSeq(ws, 0 + 1, Len(ws))
    BY <2>7, <2>8, SubSeqFull
  <2>10. Written(ws, 0)'
    <3>1. Rendering(ws)[0] = <<>>
      BY <2>8, RenderingSteps
    <3>2. Whole(ws, 0)'
      BY <1>1, <3>1 DEF Whole
    <3> QED BY <3>2 DEF Written
  <2> QED BY <1>1, <2>6, <2>8, <2>9, <2>10 DEF PartWritten
<1> QED BY <1>6, <1>7, <1>8, <1>9 DEF PageInvariant

LEMMA CopyIsInTurn ==
  ASSUME PageInvariant, Copy
  PROVE  PageInvariant'
<1>1. state = "write" /\ PageTyped
  BY DEF Copy, PageInvariant
<1>2. PICK ws, n : Place(ws, n)
  BY <1>1, WritesAreAtAPlace
<1> DEFINE w == ws[n + 1]
<1>3. w \in Writes /\ w = Head(todo) /\ w.kind = "copy" /\ n + 1 < Len(ws) /\ ws = PartWrites(part)
  BY <1>2 DEF Place, Copy
<1>4. Cells(w) \in Seq(Letters) /\ Len(Cells(w)) = w.n /\ \A i \in 1..w.n : Cells(w)[i] = w.letter
  BY <1>3, CellsTyped
<1>5. /\ w.n \in Nat /\ Len(out) \in Nat /\ size \in Nat /\ nleft = size - Len(out)
      /\ n + 1 # Len(ws) /\ beyond' \in BOOLEAN /\ UNCHANGED <<size, tpl, req>>
  BY <1>1, <1>2, <1>3, LenProperties DEF PageTyped, Writes, Copy, Place, Ended
<1>6. CASE w.n > nleft
  <2>1. GiveUp
    BY <1>3, <1>6 DEF Copy
  <2>2. Len(out) + w.n > size
    BY <1>5, <1>6
  <2>3. Hopeless(ws)
    BY <1>1, <1>2, <1>3, <2>2, ReasonsToGiveUp
  <2> QED BY <1>1, <1>3, <1>5, <2>1, <2>3, GivingUpIsInTurn
<1>7. CASE ~(w.n > nleft)
  <2>1. Put(Cells(w), w.n) /\ UNCHANGED state
    BY <1>3, <1>7 DEF Copy
  <2> HIDE DEF w
  <2>2. Put(Cells(w), Len(Cells(w))) /\ Len(Cells(w)) <= nleft
    BY <1>4, <1>5, <1>7, <2>1
  <2>3. w.kind \notin {"odd", "back"}
    BY <1>3
  <2>4. state' = IF n + 1 = Len(ws) THEN "sent" ELSE "write"
    BY <1>1, <1>5, <2>1
  <2> QED BY <1>1, <1>2, <1>4, <1>5, <2>2, <2>3, <2>4, AppendingIsInTurn DEF w
<1> QED BY <1>6, <1>7

\* snprintf of a value, or of what temp_itoa left of a number at the end of the
\* buffer.
LEMMA PrintingIsInTurn ==
  ASSUME PageInvariant, state = "write", NEW ws, NEW n, Place(ws, n),
         ws[n + 1].kind \in {"print", "grouped", "least"}, NEW w \in Writes,
         w = ws[n + 1] \/ \E k \in 1..(n + 1) : SqueezedAt(ws, k),
         PrintCells(w), UNCHANGED <<size, tpl, req, beyond>>
  PROVE  PageInvariant'
<1>1. /\ PageTyped /\ ws = PartWrites(part) /\ ws[n + 1].kind \notin {"odd", "back"}
      /\ n + 1 < Len(ws)
  BY DEF PageInvariant, Place
<1>2. Cells(w) \in Seq(Letters) /\ Len(Cells(w)) = w.n /\ \A i \in 1..w.n : Cells(w)[i] = w.letter
  BY CellsTyped
<1>3. /\ w.n \in Nat /\ Len(out) \in Nat /\ size \in Nat /\ nleft = size - Len(out)
      /\ n + 1 # Len(ws) /\ beyond' \in BOOLEAN
  BY <1>1, LenProperties DEF PageTyped, Writes, Place, Ended
<1>4. CASE w.n > nleft
  <2>1. GiveUp
    BY <1>4 DEF PrintCells
  <2>2. Len(out) + w.n > size
    BY <1>3, <1>4
  <2>3. Hopeless(ws)
    <3>1. CASE w = ws[n + 1]
      BY <1>1, <2>2, <3>1, ReasonsToGiveUp
    <3>2. CASE \E k \in 1..(n + 1) : SqueezedAt(ws, k)
      BY <3>2, SqueezedSoFar
    <3> QED BY <3>1, <3>2
  <2> QED BY <1>1, <1>3, <2>1, <2>3, GivingUpIsInTurn
<1>5. CASE ~(w.n > nleft)
  <2> DEFINE cells == IF w.n = nleft /\ w.n > 0 THEN [Cells(w) EXCEPT ![w.n] = "nul"] ELSE Cells(w)
  <2>1. Put(cells, w.n) /\ UNCHANGED state
    BY <1>5 DEF PrintCells
  <2>2. /\ cells \in Seq(Letters) /\ Len(cells) = w.n
        /\ \A i \in 1..w.n : cells[i] = w.letter \/ (Len(out) + i = size /\ cells[i] = "nul")
    <3>1. CASE w.n = nleft /\ w.n > 0
      <4> DEFINE last == w.n
      <4>1. last \in 1..Len(Cells(w)) /\ "nul" \in Letters
        BY <1>2, <1>3, <3>1 DEF Letters
      <4>2. /\ [Cells(w) EXCEPT ![last] = "nul"] \in Seq(Letters)
            /\ Len([Cells(w) EXCEPT ![last] = "nul"]) = Len(Cells(w))
            /\ \A j \in 1 .. Len(Cells(w)) :
                 [Cells(w) EXCEPT ![last] = "nul"][j] = IF j = last THEN "nul" ELSE Cells(w)[j]
        <5> HIDE DEF last
        <5> QED BY <1>2, <4>1, ExceptSeq
      <4>3. cells = [Cells(w) EXCEPT ![last] = "nul"]
        BY <3>1
      <4>4. Len(out) + last = size
        BY <1>3, <3>1
      <4> HIDE DEF cells
      <4> QED BY <1>2, <4>2, <4>3, <4>4
    <3>2. CASE ~(w.n = nleft /\ w.n > 0)
      BY <1>2, <3>2
    <3> QED BY <3>1, <3>2
  <2> HIDE DEF cells
  <2>3. Put(cells, Len(cells)) /\ Len(cells) <= nleft
    BY <1>3, <1>5, <2>1, <2>2
  <2>4. state' = IF n + 1 = Len(ws) THEN "sent" ELSE "write"
    BY <1>3, <2>1
  <2>5. \/ \E k \in 1..(n + 1) : SqueezedAt(ws, k)
        \/ /\ Len(cells) = ws[n + 1].n
           /\ \A i \in 1..Len(cells) :
                cells[i] = ws[n + 1].letter \/ (Len(out) + i = size /\ cells[i] = "nul")
    BY <2>2
  <2> QED BY <1>1, <1>3, <2>2, <2>3, <2>4, <2>5, AppendingIsInTurn
<1> QED BY <1>4, <1>5

LEMMA PrintValueIsInTurn ==
  ASSUME PageInvariant, PrintValue
  PROVE  PageInvariant'
<1>1. state = "write" /\ PageTyped
  BY DEF PrintValue, PageInvariant
<1>2. PICK ws, n : Place(ws, n)
  BY <1>1, WritesAreAtAPlace
<1>3. ws[n + 1] \in Writes /\ ws[n + 1].kind = "print" /\ PrintCells(ws[n + 1])
  BY <1>2 DEF Place, PrintValue
<1>4. UNCHANGED <<size, tpl, req, beyond>>
  BY DEF PrintValue
<1> QED BY <1>1, <1>2, <1>3, <1>4, PrintingIsInTurn

\* Nothing appended.
LEMMA RestingIsInTurn ==
  ASSUME PageInvariant, state = "write", NEW ws, NEW n, Place(ws, n),
         ws[n + 1].kind \in {"grouped", "least", "date"}, \E k \in 1..(n + 1) : SqueezedAt(ws, k),
         Put(<<>>, 0), UNCHANGED <<size, tpl, req, beyond, state>>
  PROVE  PageInvariant'
<1>1. PageTyped /\ n + 1 < Len(ws) /\ n \in Nat /\ Len(ws) \in Nat
  BY DEF PageInvariant, Place, Ended
<1>2. \E k \in 1..(n + 1) : SqueezedAt(ws, k)
  OBVIOUS
<1>3. /\ <<>> \in Seq(Letters) /\ Len(<<>>) = 0 /\ 0 <= nleft /\ beyond' \in BOOLEAN
  BY <1>1, LenProperties DEF PageTyped
<1>4. Put(<<>>, Len(<<>>))
  BY <1>3
<1>5. state' = IF n + 1 = Len(ws) THEN "sent" ELSE "write"
  BY <1>1
<1>6. ws[n + 1].kind \notin {"odd", "back"} /\ Len(<<>>) <= nleft
  BY <1>3
<1> QED BY <1>2, <1>3, <1>4, <1>5, <1>6, AppendingIsInTurn

LEMMA LeftoverTyped ==
  ASSUME PageTyped, NEW w \in Writes
  PROVE  Leftover(w) \in Writes
<1> DEFINE cells == IF w.letter = "wrong" THEN w.n - 1 ELSE w.n
           a == cells - cells \div 4
           b == nleft - nleft \div 4
           left == Max2(a - b, 1)
<1>1. cells \in Int
  BY DEF Writes
<1>2. nleft \in Int
  BY LenProperties DEF PageTyped
<1>3. a \in Int /\ b \in Int
  <2> HIDE DEF cells
  <2> QED BY <1>1, <1>2
<1>4. left \in Nat
  <2> HIDE DEF a, b
  <2> QED BY <1>3 DEF Max2
<1>5. Leftover(w) = Write("print", left, "wrong")
  BY DEF Leftover
<1> HIDE DEF left
<1> QED BY <1>4, <1>5, WriteTyped DEF Kinds, Letters

\* temp_itoa.
LEMMA PrintNumberIsInTurn ==
  ASSUME PageInvariant, state = "write", NEW ws, NEW n, Place(ws, n),
         ws[n + 1].kind \in {"grouped", "least"}, NEW w \in Writes,
         (w = ws[n + 1] /\ w.kind = "grouped") \/ \E k \in 1..(n + 1) : SqueezedAt(ws, k),
         PrintNumber(w), UNCHANGED <<size, tpl, req, beyond>>
  PROVE  PageInvariant'
<1>1. PageTyped /\ w.n \in Nat /\ nleft \in Nat
  BY LenProperties DEF PageInvariant, PageTyped, Writes
<1>2. w.n >= nleft => \E k \in 1..(n + 1) : SqueezedAt(ws, k)
  BY <1>1, AtTheEnd
<1>3. CASE nleft = 0
  <2>1. Put(<<>>, 0) /\ UNCHANGED <<size, tpl, req, beyond, state>>
    BY <1>3 DEF PrintNumber
  <2>2. \E k \in 1..(n + 1) : SqueezedAt(ws, k)
    BY <1>1, <1>2, <1>3
  <2> QED BY <2>1, <2>2, RestingIsInTurn
<1>4. CASE nleft # 0 /\ w.n < nleft
  <2>1. PrintCells(w)
    BY <1>4 DEF PrintNumber
  <2> QED BY <2>1, PrintingIsInTurn
<1>5. CASE nleft # 0 /\ ~(w.n < nleft)
  <2>1. PrintCells(Leftover(w)) /\ Leftover(w) \in Writes
    BY <1>1, <1>5, LeftoverTyped DEF PrintNumber
  <2>2. \E k \in 1..(n + 1) : SqueezedAt(ws, k)
    BY <1>1, <1>2, <1>5
  <2> QED BY <2>1, <2>2, PrintingIsInTurn
<1> QED BY <1>3, <1>4, <1>5

LEMMA PrintGroupedIsInTurn ==
  ASSUME PageInvariant, PrintGrouped
  PROVE  PageInvariant'
<1>1. state = "write"
  BY DEF PrintGrouped
<1>2. PICK ws, n : Place(ws, n)
  BY <1>1, WritesAreAtAPlace
<1>3. ws[n + 1] \in Writes /\ ws[n + 1].kind = "grouped" /\ PrintNumber(ws[n + 1])
  BY <1>2 DEF Place, PrintGrouped
<1>4. UNCHANGED <<size, tpl, req, beyond>>
  BY DEF PrintGrouped
<1> QED BY <1>1, <1>2, <1>3, <1>4, PrintNumberIsInTurn

LEMMA PrintLeastIsInTurn ==
  ASSUME PageInvariant, PrintLeast
  PROVE  PageInvariant'
<1>1. state = "write"
  BY DEF PrintLeast
<1>2. PICK ws, n : Place(ws, n)
  BY <1>1, WritesAreAtAPlace
<1>3. ws[n + 1].kind = "least" /\ ws = PartWrites(part)
  BY <1>2 DEF Place, PrintLeast
<1>4. UNCHANGED <<size, tpl, req, beyond>>
  BY DEF PrintLeast
<1>5. \E k \in 1..(n + 1) : SqueezedAt(ws, k)
  <2>1. SqueezedAt(ws, n + 1)
    BY <1>3 DEF SqueezedAt
  <2>2. n + 1 \in 1..(n + 1)
    BY <1>2 DEF Place, Ended
  <2> QED BY <2>1, <2>2
<1>6. ASSUME NEW w \in Writes, PrintNumber(w) PROVE PageInvariant'
  BY <1>1, <1>2, <1>3, <1>4, <1>5, <1>6, PrintNumberIsInTurn
<1> DEFINE unsigned == Grouped(Digits(INT_MAX + 1)) + 1
<1>7. Write("grouped", 2, "wrong") \in Writes /\ Write("grouped", unsigned, "wrong") \in Writes
  <2>1. unsigned \in Nat
    <3>1. INT_MAX + 1 \in Nat
      BY UintMax
    <3>2. Grouped(Digits(INT_MAX + 1)) \in Nat
      BY <3>1, DigitsTyped
    <3> QED BY <3>2
  <2> HIDE DEF unsigned
  <2> QED BY <2>1, WriteTyped DEF Kinds, Letters
<1>8. CASE GiveUp
  <2>1. Hopeless(PartWrites(part))
    BY <1>2, <1>3, <1>5, SqueezedSoFar
  <2>2. beyond' \in BOOLEAN
    BY <1>4 DEF PageInvariant, PageTyped
  <2> QED BY <1>1, <1>4, <1>8, <2>1, <2>2, GivingUpIsInTurn
<1>9. \/ GiveUp \/ PrintNumber(Write("grouped", 2, "wrong"))
      \/ PrintNumber(Write("grouped", unsigned, "wrong"))
  BY Zenon DEF PrintLeast
<1> HIDE DEF unsigned
<1> QED BY <1>6, <1>7, <1>8, <1>9

LEMMA PrintDateIsInTurn ==
  ASSUME PageInvariant, PrintDate
  PROVE  PageInvariant'
<1>1. state = "write" /\ PageTyped
  BY DEF PrintDate, PageInvariant
<1>2. PICK ws, n : Place(ws, n)
  BY <1>1, WritesAreAtAPlace
<1> DEFINE w == ws[n + 1]
<1>3. w \in Writes /\ w.kind = "date" /\ w = Head(todo) /\ n + 1 < Len(ws)
  BY <1>2 DEF Place, PrintDate
<1>4. UNCHANGED <<size, tpl, req, beyond, state>> /\ beyond' \in BOOLEAN
  BY <1>1 DEF PrintDate, PageTyped
<1>5. w.n \in Nat /\ nleft \in Nat /\ n + 1 # Len(ws)
  <2>1. w.n \in Nat
    BY <1>3 DEF Writes
  <2>2. nleft \in Nat
    BY <1>1, LenProperties DEF PageTyped
  <2>3. n \in Nat /\ Len(ws) \in Nat
    BY <1>2 DEF Place, Ended
  <2> QED BY <1>3, <2>1, <2>2, <2>3
<1>6. CASE w.n < nleft
  <2>1. Put(Cells(w), w.n)
    BY <1>3, <1>6 DEF PrintDate
  <2>2. Cells(w) \in Seq(Letters) /\ Len(Cells(w)) = w.n /\ \A i \in 1..w.n : Cells(w)[i] = w.letter
    BY <1>3, CellsTyped
  <2> HIDE DEF w
  <2>3. Put(Cells(w), Len(Cells(w))) /\ Len(Cells(w)) <= nleft
    BY <1>5, <1>6, <2>1, <2>2
  <2>4. w.kind \notin {"odd", "back"}
    BY <1>3
  <2>5. state' = IF n + 1 = Len(ws) THEN "sent" ELSE "write"
    BY <1>1, <1>4, <1>5
  <2> QED BY <1>1, <1>2, <1>4, <2>2, <2>3, <2>4, <2>5, AppendingIsInTurn DEF w
<1>7. CASE ~(w.n < nleft)
  <2>1. Put(<<>>, 0)
    BY <1>3, <1>7 DEF PrintDate
  <2>2. \E k \in 1..(n + 1) : SqueezedAt(ws, k)
    <3>1. w.n >= nleft
      BY <1>5, <1>7
    <3> QED BY <1>1, <1>2, <1>3, <3>1, AtTheEnd
  <2> QED BY <1>1, <1>2, <1>3, <1>4, <2>1, <2>2, RestingIsInTurn
<1> QED BY <1>6, <1>7

LEMMA BackspaceIsInTurn ==
  ASSUME PageInvariant, Backspace
  PROVE  PageInvariant'
<1>1. state = "write" /\ PageTyped
  BY DEF Backspace, PageInvariant
<1>2. PICK ws, n : Place(ws, n)
  BY <1>1, WritesAreAtAPlace
<1>3. /\ ws[n + 1].kind = "back" /\ n + 1 < Len(ws) /\ ws \in Seq(Writes)
      /\ n \in 0..(Len(ws) - 1) /\ n + 1 # Len(ws)
  BY <1>2, LenProperties DEF Place, Backspace, Ended
<1>4. /\ UNCHANGED <<size, tpl, req, part, beyond, state>> /\ beyond' \in BOOLEAN
      /\ todo' = Tail(todo)
  BY <1>1 DEF Backspace, PageTyped
<1>5. out \in Seq(Letters) /\ Len(out) \in Nat /\ size \in Nat /\ nleft = size - Len(out)
      /\ Len(out) <= size
  BY <1>1, LenProperties DEF PageTyped
<1>6. /\ out' = IF out = <<>> THEN out ELSE Front(out)
      /\ out' \in Seq(Letters) /\ nleft' = size - Len(out') /\ Len(out') <= size
  <2>1. CASE out = <<>>
    <3>1. Len(out) = 0
      BY <2>1
    <3>2. ~(nleft < size)
      BY <1>5, <3>1
    <3>3. out' = out /\ nleft' = nleft
      BY <3>2 DEF Backspace
    <3> QED BY <1>5, <2>1, <3>3
  <2>2. CASE out # <<>>
    <3>1. Front(out) \in Seq(Letters) /\ Len(out) >= 1 /\ Len(Front(out)) = Len(out) - 1
      BY <1>5, <2>2, FrontShorter
    <3>2. nleft < size
      BY <1>5, <3>1
    <3>3. out' = Front(out) /\ nleft' = nleft + 1
      BY <3>2 DEF Backspace
    <3> QED BY <1>5, <2>2, <3>1, <3>3
  <2> QED BY <2>1, <2>2
<1>7. Whole(ws, n) => Whole(ws, n + 1)'
  BY <1>1, <1>3, <1>4, <1>6, WholeShrinks
<1>8. state' = IF n + 1 = Len(ws) THEN "sent" ELSE "write"
  BY <1>1, <1>3, <1>4
<1>9. ws[n + 1].kind # "odd"
  BY <1>3
<1> QED BY <1>1, <1>2, <1>4, <1>6, <1>7, <1>8, <1>9, GoingOnIsInTurn

LEMMA CopyTailIsInTurn ==
  ASSUME PageInvariant, CopyTail
  PROVE  PageInvariant'
<1>1. state = "write" /\ PageTyped
  BY DEF CopyTail, PageInvariant
<1>2. PICK ws, n : Place(ws, n)
  BY <1>1, WritesAreAtAPlace
<1> DEFINE w == ws[n + 1]
<1>3. /\ w \in Writes /\ w.kind = "tail" /\ w = Head(todo) /\ ws = PartWrites(part)
      /\ Len(todo) = Len(ws) - n
  BY <1>2 DEF Place, CopyTail
<1>4. UNCHANGED <<size, tpl, req>>
  BY DEF CopyTail
<1>5. /\ w.n \in Nat /\ Len(out) \in Nat /\ size \in Nat /\ nleft = size - Len(out)
      /\ n \in Nat /\ Len(ws) \in Nat /\ n + 1 <= Len(ws)
  BY <1>1, <1>2, <1>3, LenProperties DEF PageTyped, Writes, Place, Ended
<1>6. CASE w.n > nleft
  <2>1. GiveUp /\ UNCHANGED beyond
    BY <1>3, <1>6 DEF CopyTail
  <2>2. Len(out) + w.n > size /\ w.kind # "back"
    BY <1>3, <1>5, <1>6
  <2>3. Hopeless(ws)
    BY <1>1, <1>2, <2>2, ReasonsToGiveUp
  <2>4. beyond' \in BOOLEAN
    BY <1>1, <2>1 DEF PageTyped
  <2> QED BY <1>1, <1>3, <1>4, <2>1, <2>3, <2>4, GivingUpIsInTurn
<1>7. CASE ~(w.n > nleft)
  <2>1. /\ Put(Cells(w), w.n) /\ beyond' = (beyond \/ w.n = nleft)
        /\ state' = IF Len(todo) = 1 THEN "sent" ELSE state
    BY <1>3, <1>7 DEF CopyTail
  <2>2. Cells(w) \in Seq(Letters) /\ Len(Cells(w)) = w.n /\ \A i \in 1..w.n : Cells(w)[i] = w.letter
    BY <1>3, CellsTyped
  <2> HIDE DEF w
  <2>3. Put(Cells(w), Len(Cells(w))) /\ Len(Cells(w)) <= nleft
    BY <1>5, <1>7, <2>1, <2>2
  <2>4. w.kind \notin {"odd", "back"}
    BY <1>3
  <2>5. state' = IF n + 1 = Len(ws) THEN "sent" ELSE "write"
    BY <1>1, <1>3, <1>5, <2>1
  <2>6. beyond' \in BOOLEAN
    <3>1. beyond' = (beyond \/ w.n = nleft)
      BY <2>1
    <3> QED BY <3>1, Zenon
  <2> QED BY <1>1, <1>2, <1>4, <2>2, <2>3, <2>4, <2>5, <2>6, AppendingIsInTurn DEF w
<1> QED BY <1>6, <1>7

LEMMA ReadFieldIsInTurn ==
  ASSUME PageInvariant, ReadField
  PROVE  PageInvariant'
<1>1. /\ PageTyped /\ PageBegun /\ PartInTurn /\ state = "write" /\ state' = "crashed"
      /\ UNCHANGED <<size, tpl, req, part, out, nleft, beyond>>
  BY DEF PageInvariant, ReadField
<1>2. PageTyped'
  BY <1>1 DEF PageTyped
<1>3. PageBegun'
  BY <1>1 DEF PageBegun
<1>4. PartInTurn'
  <2>1. state \notin {"begin", "braces"}
    BY <1>1
  <2> QED BY <1>1, <2>1, TurnKept
<1>5. PartWritten'
  BY <1>1 DEF PartWritten
<1> QED BY <1>2, <1>3, <1>4, <1>5 DEF PageInvariant

LEMMA OddVariableIsInTurn ==
  ASSUME PageInvariant, OddVariable
  PROVE  PageInvariant'
<1>1. /\ state = "write" /\ PageTyped /\ GiveUp /\ UNCHANGED <<size, tpl, req, beyond>>
      /\ beyond' \in BOOLEAN
  BY DEF OddVariable, PageInvariant, PageTyped
<1>2. PICK ws, n : Place(ws, n)
  BY <1>1, WritesAreAtAPlace
<1>3. ws[n + 1].kind = "odd" /\ ws = PartWrites(part)
  BY <1>2 DEF Place, OddVariable
<1>4. Hopeless(ws)
  BY <1>1, <1>2, <1>3, ReasonsToGiveUp
<1> QED BY <1>1, <1>3, <1>4, GivingUpIsInTurn

LEMMA PageStep ==
  ASSUME PageInvariant, [Next]_vars
  PROVE  PageInvariant'
<1>1. CASE UNCHANGED vars
  <2>1. UNCHANGED <<size, tpl, req, part, todo, out, nleft, beyond, state>>
    BY <1>1 DEF vars
  <2>2. PageTyped' /\ PageBegun'
    BY <2>1 DEF PageInvariant, PageTyped, PageBegun
  <2>3. PartInTurn'
    BY <2>1, TurnKept DEF PageInvariant
  <2>4. PartWritten'
    <3>1. PICK ws : ws = PartWrites(part)
      OBVIOUS
    <3>2. PartWrites(part)' = ws
      <4>1. PICK p \in PartNames : p = part
        BY DEF PageInvariant, PageTyped
      <4>2. PartWrites(p)' = ws
        BY <2>1, <3>1, <4>1, SameParts DEF PageInvariant
      <4>3. PartWrites(part)' = PartWrites(p)'
        BY <2>1, <4>1
      <4> QED BY <4>2, <4>3
    <3>3. /\ \A n : Written(ws, n)' <=> Written(ws, n)
          /\ Hopeless(ws)' <=> Hopeless(ws)
      BY <2>1, Zenon DEF Written, Whole, SqueezedAt, Hopeless, TooLong, Squeezed, Has
    <3>4. /\ state = "write" =>
               \E n \in 0..(Len(ws) - 1) : Written(ws, n) /\ todo = SubSeq(ws, n + 1, Len(ws))
          /\ state = "sent" => Written(ws, Len(ws))
          /\ state = "empty" => part = "error" /\ Hopeless(ws)
      BY <3>1 DEF PageInvariant, PartWritten
    <3>5. /\ state' = "write" =>
               \E n \in 0..(Len(ws) - 1) :
                 Written(ws, n)' /\ todo' = SubSeq(ws, n + 1, Len(ws))
          /\ state' = "sent" => Written(ws, Len(ws))'
          /\ state' = "empty" => part' = "error" /\ Hopeless(ws)'
      BY <2>1, <3>3, <3>4, Zenon
    <3> QED BY <3>2, <3>5, Zenon DEF PartWritten
  <2> QED BY <2>2, <2>3, <2>4 DEF PageInvariant
<1>2. CASE Next
  BY <1>2, NoTemplateIsInTurn, MakePageIsInTurn, CopyIsInTurn, PrintValueIsInTurn,
     PrintGroupedIsInTurn, PrintLeastIsInTurn, PrintDateIsInTurn, BackspaceIsInTurn, CopyTailIsInTurn,
     ReadFieldIsInTurn, OddVariableIsInTurn DEF Next
<1> QED BY <1>1, <1>2

-----------------------------------------------------------------------------
(***************************************************************************)
(* What worker_handler promises.                                           *)
(***************************************************************************)

\* Behind every state is what the invariant says of it: which writes of which
\* part were carried out, and why a part was given up.
THEOREM PageInvariantHolds == Spec => []PageInvariant
<1>1. Init => PageInvariant
  BY PageInit
<1>2. PageInvariant /\ [Next]_vars => PageInvariant'
  BY PageStep
<1> QED BY <1>1, <1>2, PTL DEF Spec

\* worker_handler, temp_make_page: nleft is the room behind pbuf, and what is
\* counted as written stays within the size cells of the buffer.
THEOREM PageTypeCorrect == Spec => []TypeOK
<1>1. PageInvariant => TypeOK
  BY DEF PageInvariant, PageTyped, TypeOK, PartNames, RequestSet
<1> QED BY <1>1, PageInvariantHolds, PTL

\* temp_make_page: a page that is sent is the whole template, in any buffer that
\* no number with separators and no date comes to the end of, unless it has the
\* least int in it.  A number with separators that is no int counts as replaced by
\* the int temp_itoa makes of it.
THEOREM SentPageCompleteHolds == Spec => []SentPageComplete
<1>1. ASSUME PageInvariant PROVE SentPageComplete
  <2>1. SUFFICES ASSUME state = "sent", ~Squeezed(PartWrites(part))
                 PROVE  LET ws    == PartWrites(part)
                            whole == Rendering(ws)[Len(ws)]
                        IN  /\ Len(out) = Len(whole)
                            /\ \A i \in DOMAIN out :
                                 out[i] = whole[i] \/ (i = size /\ out[i] = "nul")
    BY DEF SentPageComplete
  <2>2. PICK ws : ws = PartWrites(part)
    OBVIOUS
  <2>3. Written(ws, Len(ws)) /\ DOMAIN out = 1..Len(out) /\ Ended(ws)
    BY <1>1, <2>1, <2>2, PartWritesTyped, LenProperties DEF PageInvariant, PartWritten, PageTyped
  <2>4. DOMAIN ws = 1..Len(ws)
    BY <2>3, LenProperties DEF Ended
  <2>5. ~ \E k \in 1..Len(ws) : SqueezedAt(ws, k)
    BY <2>1, <2>2, <2>4 DEF Squeezed, SqueezedAt
  <2>6. Whole(ws, Len(ws))
    BY <2>3, <2>5 DEF Written
  <2> QED BY <2>2, <2>3, <2>6 DEF Whole
<1> QED BY <1>1, PageInvariantHolds, PTL

\* worker_handler: the page the data call for, then the error page, then
\* nothing, each only when there is a reason to give the one before up: a write
\* that is too long or that the code refuses, or one of which it is not certain.
THEOREM FallsBackInOrderHolds == Spec => []FallsBackInOrder
<1>1. ASSUME PageInvariant PROVE FallsBackInOrder
  <2> DEFINE Bad(p) == TooLong(PartWrites(p)) \/ Has("odd", PartWrites(p))
             Unsure(p) == Squeezed(PartWrites(p))
  <2>1. \A p : Hopeless(PartWrites(p)) <=> Bad(p) \/ Unsure(p)
    BY DEF Hopeless
  <2>2. ASSUME state = "sent"
        PROVE  /\ ~Has("odd", PartWrites(part))
               /\ part \in {Called, "error"}
               /\ ~Unsure(Called) => part = IF Bad(Called) THEN "error" ELSE Called
    <3>1. PICK ws : ws = PartWrites(part)
      OBVIOUS
    <3>2. Written(ws, Len(ws)) /\ Ended(ws)
      BY <1>1, <2>2, <3>1, PartWritesTyped DEF PageInvariant, PartWritten, PageTyped
    <3>3. DOMAIN ws = 1..Len(ws)
      BY <3>2, LenProperties DEF Ended
    <3>4. ~Has("odd", ws)
      BY <3>2, <3>3 DEF Written, Has
    <3>5. ~Squeezed(ws) => ~TooLong(ws)
      <4>1. SUFFICES ASSUME ~Squeezed(ws) PROVE ~TooLong(ws)
        OBVIOUS
      <4>2. ~ \E k \in 1..Len(ws) : SqueezedAt(ws, k)
        BY <3>3, <4>1 DEF Squeezed, SqueezedAt
      <4>3. Whole(ws, Len(ws))
        BY <3>2, <4>2 DEF Written
      <4>4. \A k \in 1..Len(ws) : Rendering(ws)[k] \in Seq(Letters)
        <5>1. \A k \in 1..Len(ws) : k \in 0..Len(ws)
          BY <3>2 DEF Ended
        <5> QED BY <3>2, <5>1, RenderingSteps DEF Ended
      <4>5. \A k \in 1..Len(ws) : Len(Rendering(ws)[k]) \in Nat /\ Len(Rendering(ws)[k]) <= size
        BY <4>3, <4>4, LenProperties DEF Whole
      <4>6. size \in Nat
        BY <1>1 DEF PageInvariant, PageTyped
      <4>7. \A k \in 1..Len(ws) : ~(Len(Rendering(ws)[k]) > size)
        BY <4>5, <4>6
      <4> QED BY <3>3, <4>7 DEF TooLong
    <3>6. /\ part \in {Called, "error"} /\ Called # "error"
          /\ part = "error" => Hopeless(PartWrites(Called))
      BY <1>1, <2>2, CalledIsAPart DEF PageInvariant, PartInTurn
    <3>7. CASE part = Called
      BY <3>1, <3>4, <3>5, <3>6, <3>7
    <3>8. CASE part = "error"
      BY <2>1, <3>1, <3>4, <3>6, <3>8
    <3> QED BY <3>6, <3>7, <3>8
  <2>3. ASSUME state = "empty", NEW p \in {Called, "error"}
        PROVE  Bad(p) \/ Unsure(p)
    <3>1. /\ part = "error" /\ Hopeless(PartWrites("error"))
      BY <1>1, <2>3 DEF PageInvariant, PartWritten
    <3>2. Hopeless(PartWrites(Called))
      BY <1>1, <2>3, <3>1 DEF PageInvariant, PartInTurn
    <3> QED BY <2>1, <2>3, <3>1, <3>2
  <2> QED BY <2>2, <2>3 DEF FallsBackInOrder
<1> QED BY <1>1, PageInvariantHolds, PTL

\* uiPageNum: never more than twelve links, and one of them is the current page
\* unless that is the page behind the last.
THEOREM CurrentPageLinkedHolds == Spec => []CurrentPageLinked
<1>1. ASSUME PageInvariant PROVE CurrentPageLinked
  <2> DEFINE count == max_page_no(req.rn, req.total_num)
             no == req.page_no
             links == PageLinks(no, count)
  <2>1. SUFFICES ASSUME state \notin {"begin", "braces"}
                 PROVE  /\ Len(links) <= 2 * PAGE_WINDOW
                        /\ (\A j \in DOMAIN links : links[j].letter = "link") <=> no = count
    BY DEF CurrentPageLinked
  <2>2. no \in Nat /\ count \in Nat
    <3>1. no \in Nat /\ req.rn \in Nat /\ req.total_num \in Nat
      BY <1>1, UintMax DEF PageInvariant, PageTyped, RequestSet
    <3> HIDE DEF no
    <3> QED BY <3>1, MaxPageNoTyped
  <2>3. no <= count
    BY <1>1, <2>1 DEF PageInvariant, PageBegun
  <2> HIDE DEF count, no
  <2> QED BY <2>2, <2>3, LinksTyped
<1> QED BY <1>1, PageInvariantHolds, PTL

(***************************************************************************)
(* The cell behind the buffer.                                             *)
(***************************************************************************)

\* A tail of part p, of the page or of a result, ends exactly with the buffer.
TailFills(ws) == \E k \in DOMAIN ws : ws[k].kind = "tail" /\ Len(Rendering(ws)[k]) = size
MayFill(p) == TailFills(PartWrites(p)) \/ Squeezed(PartWrites(p))

BeyondOnlyWhenFull == beyond => MayFill(Called) \/ MayFill("error")

BeyondInv == beyond => state \notin {"begin", "braces"} /\ (MayFill(Called) \/ MayFill("error"))

LEMMA FillingStays ==
  ASSUME PageTyped, UNCHANGED <<size, tpl, req>>
  PROVE  /\ MayFill("error")' <=> MayFill("error")
         /\ MayFill(Called)' <=> MayFill(Called)
<1>1. /\ Called' = Called /\ \A p \in PartNames : PartWrites(p)' = PartWrites(p)
  BY SameParts
<1>2. Called \in PartNames /\ "error" \in PartNames
  BY CalledIsAPart DEF PartNames
<1>3. ASSUME NEW p \in PartNames PROVE MayFill(p)' <=> MayFill(p)
  <2>1. PICK ws : ws = PartWrites(p)
    OBVIOUS
  <2>2. PartWrites(p)' = ws
    BY <1>1, <2>1
  <2>3. size' = size
    OBVIOUS
  <2>4. (TailFills(ws)' <=> TailFills(ws)) /\ (Squeezed(ws)' <=> Squeezed(ws))
    BY <2>3, Zenon DEF TailFills, Squeezed
  <2>5. TailFills(PartWrites(p))' <=> TailFills(ws)'
    BY <2>2, Zenon DEF TailFills
  <2>6. Squeezed(PartWrites(p))' <=> Squeezed(ws)'
    BY <2>2, Zenon DEF Squeezed
  <2> QED BY <2>1, <2>4, <2>5, <2>6, Zenon DEF MayFill
<1>4. PICK q \in PartNames : q = Called
  BY <1>2
<1>5. MayFill(q)' <=> MayFill(q)
  BY <1>3
<1>6. MayFill(Called)' <=> MayFill(q)'
  <2>1. PICK ws : ws = PartWrites(q)'
    OBVIOUS
  <2>2. PartWrites(Called)' = ws
    BY <1>1, <1>4, <2>1
  <2> QED BY <2>1, <2>2, Zenon DEF MayFill, TailFills, Squeezed
<1>7. MayFill(Called) <=> MayFill(q)
  BY <1>4
<1> QED BY <1>2, <1>3, <1>5, <1>6, <1>7, Zenon

LEMMA TailAtTheEnd ==
  ASSUME PageInvariant, CopyTail, ~beyond, beyond'
  PROVE  MayFill(part)
<1>1. state = "write" /\ PageTyped
  BY DEF CopyTail, PageInvariant
<1>2. PICK ws, n : Place(ws, n)
  BY <1>1, WritesAreAtAPlace
<1> DEFINE w == ws[n + 1]
<1>3. /\ w \in Writes /\ w.kind = "tail" /\ w = Head(todo) /\ ws = PartWrites(part)
      /\ ws \in Seq(Writes) /\ DOMAIN ws = 1..Len(ws)
  BY <1>2, LenProperties DEF Place, Ended, CopyTail
<1>4. w.n = nleft
  BY <1>3 DEF CopyTail
<1>5. /\ w.n \in Nat /\ Len(out) \in Nat /\ size \in Nat /\ nleft = size - Len(out)
      /\ n \in 0..Len(ws) /\ n + 1 \in 1..Len(ws) /\ n + 1 - 1 = n
      /\ \A k \in 1..n : k \in 1..Len(ws)
  BY <1>1, <1>2, <1>3, LenProperties DEF PageTyped, Writes, Place, Ended
<1>6. (\E k \in 1..n : SqueezedAt(ws, k)) \/ Whole(ws, n)
  BY <1>2 DEF Place, Written
<1>7. CASE \E k \in 1..n : SqueezedAt(ws, k)
  <2>1. PICK k \in 1..n : SqueezedAt(ws, k)
    BY <1>7
  <2>2. k \in DOMAIN ws
    BY <1>3, <1>5
  <2>3. Squeezed(ws)
    BY <2>1, <2>2, Zenon DEF Squeezed, SqueezedAt
  <2> QED BY <1>3, <2>3 DEF MayFill
<1>8. CASE Whole(ws, n)
  <2> DEFINE sofar == Rendering(ws)[n]
  <2>1. sofar \in Seq(Letters) /\ Len(sofar) = Len(out)
    BY <1>3, <1>5, <1>8, RenderingSteps DEF Whole
  <2>2. Rendering(ws)[n + 1] = sofar \o Cells(w)
    <3>1. Rendering(ws)[n + 1] = Effect(sofar, w)
      <4>1. \A k \in 1..Len(ws) : Rendering(ws)[k] = Effect(Rendering(ws)[k - 1], ws[k])
        BY <1>3, RenderingSteps
      <4>2. Rendering(ws)[n + 1] = Effect(Rendering(ws)[n + 1 - 1], ws[n + 1])
        BY <1>5, <4>1
      <4> QED BY <1>5, <4>2
    <3> QED BY <1>3, <3>1 DEF Effect
  <2> HIDE DEF sofar, w
  <2>3. Len(sofar \o Cells(w)) = Len(sofar) + Len(Cells(w)) /\ Len(Cells(w)) = w.n
    BY <1>3, <2>1, CellsTyped, ConcatProperties
  <2>4. Len(Rendering(ws)[n + 1]) = size
    BY <1>4, <1>5, <2>1, <2>2, <2>3
  <2>5. TailFills(ws)
    BY <1>3, <1>5, <2>4 DEF TailFills, w
  <2> QED BY <1>3, <2>5 DEF MayFill
<1> QED BY <1>6, <1>7, <1>8

\* temp_make_page: whatever the buffer and the templates, the cell behind the
\* buffer is written only for a page, or an error page, with a tail that ends
\* exactly with it, or one that a number with separators or a date came to the
\* end of, or one with the least int; every other page respects the room.
THEOREM BeyondOnlyWhenFullHolds == Spec => []BeyondOnlyWhenFull
<1>1. Init => BeyondInv
  BY DEF Init, BeyondInv
<1>2. PageInvariant /\ BeyondInv /\ [Next]_vars => BeyondInv'
  <2> SUFFICES ASSUME PageInvariant, BeyondInv, [Next]_vars, beyond'
               PROVE  state' \notin {"begin", "braces"} /\ (MayFill(Called)' \/ MayFill("error")')
    BY DEF BeyondInv
  <2>1. PageTyped
    BY DEF PageInvariant
  <2>2. CASE beyond
    <3>1. state \notin {"begin", "braces"} /\ (MayFill(Called) \/ MayFill("error"))
      BY <2>2 DEF BeyondInv
    <3>2. UNCHANGED <<size, tpl, req>> /\ state' \notin {"begin", "braces"}
      BY <3>1 DEF Next, vars, NoTemplate, MakePage, Copy, PrintValue, PrintGrouped, PrintLeast,
                  PrintDate, Backspace, CopyTail, ReadField, OddVariable, PrintNumber, PrintCells, GiveUp
    <3> QED BY <2>1, <3>1, <3>2, FillingStays
  <2>3. CASE ~beyond
    <3>1. CopyTail
      BY <2>3 DEF Next, vars, NoTemplate, MakePage, Copy, PrintValue, PrintGrouped, PrintLeast,
                  PrintDate, Backspace, ReadField, OddVariable
    <3>2. UNCHANGED <<size, tpl, req>> /\ state = "write" /\ state' \notin {"begin", "braces"}
      BY <3>1 DEF CopyTail, GiveUp
    <3>3. part = Called \/ part = "error"
      BY <3>2 DEF PageInvariant, PartInTurn
    <3>4. MayFill(part)
      BY <2>3, <3>1, TailAtTheEnd
    <3>5. MayFill(Called) \/ MayFill("error")
      BY <3>3, <3>4
    <3> QED BY <2>1, <3>2, <3>5, FillingStays
  <2> QED BY <2>2, <2>3
<1>3. BeyondInv => BeyondOnlyWhenFull
  BY DEF BeyondInv, BeyondOnlyWhenFull
<1> QED BY <1>1, <1>2, <1>3, PageInvariantHolds, PTL DEF Spec

=============================================================================
