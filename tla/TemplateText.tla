----------------------------- MODULE TemplateText -----------------------------
(***************************************************************************)
(* The text functions of template.cpp, over those of util.cpp: cutting,    *)
(* numbers with separators, the terms of a query and their highlighting.   *)
(* Each is a function of its arguments; TLC writes every short text and    *)
(* counts through every small number, and compares what the functions give *)
(* with what is wanted of them.                                            *)
(***************************************************************************)
EXTENDS Strings

CONSTANTS
  Alphabets,   \* sets of bytes that texts are made of
  MaxLen,      \* bound: bytes of a text
  MaxNumber,   \* bound: numbers
  Room,        \* bound: sizes of buffers, of cuts and of groups of digits
  Values,      \* the values in which the terms of a query are highlighted
  MAX_QUERY_TERMS_NUM, MAX_HIGH_LIGHT_TERM_NUM,
  PER_TERM     \* 5, the places looked at for one term

ASSUME TemplateTextAssumption ==
  /\ {MaxLen, MaxNumber, Room} \subseteq Nat /\ Room >= 12
  /\ {MAX_QUERY_TERMS_NUM, PER_TERM} \subseteq Nat \ {0}
  /\ MAX_HIGH_LIGHT_TERM_NUM \in Nat \ {0, 1}
  /\ \A value \in Values : value \in Seq(UNION Alphabets)
  /\ {"start", "end"} \cap UNION Alphabets = {}   \* a tag is no byte

VARIABLES alphabet, text, number

vars == <<alphabet, text, number>>

Init == alphabet \in Alphabets /\ text = <<>> /\ number = 0

Extend ==
  /\ number = 0 /\ Len(text) < MaxLen
  /\ \E c \in alphabet : text' = Append(text, c)
  /\ UNCHANGED <<alphabet, number>>

Count ==
  /\ text = <<>> /\ number < MaxNumber
  /\ number' = number + 1
  /\ UNCHANGED <<alphabet, text>>

Next == Extend \/ Count

Spec == Init /\ [][Next]_vars

-----------------------------------------------------------------------------
(***************************************************************************)
(* temp_cutdown and temp_cutdown_with_more.                                *)
(***************************************************************************)

\* Mutant: the second byte of a wide character is not looked for.
CutBytes(s, len) == IF len < 0 THEN 0 ELSE IF Len(s) < len THEN Len(s) ELSE len

\* The loop that copies up to len bytes: a wide character that begins before
\* len is copied whole, one that the string ends in is not.
CutAt(s, len) ==
  LET From[i \in Nat] ==
        IF i >= Len(s) \/ i >= len THEN i
        ELSE IF s[i + 1] # "hi" THEN From[i + 1]
        ELSE IF i + 1 < Len(s) THEN From[i + 2] ELSE i
  IN  From[0]

Prefix(s, len) == SubSeq(s, 1, CutAt(s, len))

\* A length of none or of more than the buffer is that of the buffer.
CutLen(size, len) == IF len > size - 1 \/ len <= 0 THEN size - 1 ELSE len

temp_cutdown(s, size, len) == Prefix(s, CutLen(size, len))

temp_cutdown_with_more(s, size, len) ==
  LET asked == CutLen(size, len)
      kept  == IF asked + 3 > size - 1 THEN size - 4 ELSE asked
  IN  IF Len(s) <= asked THEN Prefix(s, asked) ELSE Prefix(s, kept) \o <<".", ".", ".">>

-----------------------------------------------------------------------------
(***************************************************************************)
(* temp_itoa.                                                              *)
(***************************************************************************)
Digit == <<"0", "1", "2", "3", "4", "5", "6", "7", "8", "9">>

\* "%d"
Decimal(n) ==
  LET From[m \in Nat] == (IF m < 10 THEN <<>> ELSE From[m \div 10]) \o <<Digit[(m % 10) + 1]>>
  IN  IF n < 0 THEN <<"-">> \o From[-n] ELSE From[n]

\* What snprintf makes of cells in size bytes.
Printed(cells, size) == [rv |-> Len(cells), out |-> UpTo(cells, size - 1)]

\* Mutant: digits are grouped whether or not another one follows.
CommaAlways(m, i, size, k) == i < size /\ (i + 1) % (k + 1) = 0

\* Behind i bytes a separator goes before m, the digits that are left.
Comma(m, i, size, k) == m > 0 /\ i < size /\ (i + 1) % (k + 1) = 0

\* The digits from the last to the first.  When they and the sign reach the
\* size, what is left of the number is printed instead.
temp_itoa(n, size, k) ==
  LET Loop[at \in [left : Nat, out : Seq(Range(Digit) \cup {","})]] ==
        LET one  == Append(at.out, Digit[(at.left % 10) + 1])
            rest == at.left \div 10
            out  == IF Comma(rest, Len(one), size, k) THEN Append(one, ",") ELSE one
            next == [left |-> rest, out |-> out]
        IN  IF rest > 0 /\ Len(out) < size THEN Loop[next] ELSE next
      end    == Loop[[left |-> IF n < 0 THEN -n ELSE n, out |-> <<>>]]
      signed == IF n < 0 /\ Len(end.out) < size THEN Append(end.out, "-") ELSE end.out
  IN  IF size < 1 THEN [rv |-> 0, out |-> <<>>]
      ELSE IF k < 1 THEN Printed(Decimal(n), size)
      ELSE IF Len(signed) < size THEN [rv |-> Len(signed), out |-> Reverse(signed)]
      ELSE Printed(Decimal(end.left), size)

-----------------------------------------------------------------------------
(***************************************************************************)
(* as_temp_split_query_terms and as_temp_make_high_light.                  *)
(***************************************************************************)

\* The words of a query; when there are as many as there is room for, the
\* query is left cut behind the last of them.
as_temp_split_query_terms(query) ==
  UpTo(cstr_split(query, " ", Len(query) + 1), MAX_QUERY_TERMS_NUM)

Span(offset, len) == [offset |-> offset, len |-> len]
End(span) == span.offset + span.len
Inside(a, b) == a.offset >= b.offset /\ End(a) <= End(b)

\* A place found goes before the first that begins after it.
Inserted(spans, new) ==
  LET behind == {i \in DOMAIN spans : spans[i].offset > new.offset}
  IN  InsertAt(spans, IF behind = {} THEN Len(spans) + 1 ELSE Min(behind), new)

Full(spans) == Len(spans) = MAX_HIGH_LIGHT_TERM_NUM - 1

\* The places of one term, from left to right, that lie in none found before.
Found(value, spans, term) ==
  LET From[s \in [at : Nat, count : Nat, got : Seq([offset : Nat, len : Nat])]] ==
        LET p    == strcasestrGBK(value, s.at, term)
            new  == Span(p, Len(term))
            more == IF \E h \in Range(s.got) : Inside(new, h) THEN s.got ELSE Inserted(s.got, new)
        IN  IF p = -1 THEN s.got
            ELSE IF (Full(more) /\ more # s.got) \/ s.count + 1 = PER_TERM THEN more
            ELSE From[[at |-> p + Len(term), count |-> s.count + 1, got |-> more]]
  IN  From[[at |-> 0, count |-> 0, got |-> spans]]

FoundAll(value, terms) ==
  FoldLeft(LAMBDA spans, term : IF Full(spans) THEN spans ELSE Found(value, spans, term), <<>>, terms)

\* Mutant: the later place always sets the end.
ExtendedAnyway(last, next) == Span(last.offset, End(next) - last.offset)

\* Two places that overlap or touch become one.
Extended(last, next) ==
  IF End(next) > End(last) THEN Span(last.offset, End(next) - last.offset) ELSE last

Merged(spans) ==
  FoldLeft(LAMBDA done, next :
             IF done # <<>> /\ End(Last(done)) >= next.offset
               THEN Append(Front(done), Extended(Last(done), next))
               ELSE Append(done, next), <<>>, spans)

\* The value with tags around the merged places.  It is printed piece by piece,
\* and a piece that takes more than half of the room that is left is refused:
\* the test comes after the room was taken away.
as_temp_make_high_light(value, terms, size) ==
  LET spans  == Merged(FoundAll(value, terms))
      From(i) == IF i = 0 THEN 0 ELSE End(spans[i])
      pieces == FlattenSeq([i \in DOMAIN spans |->
                  <<SubSeq(value, From(i - 1) + 1, spans[i].offset), <<"start">>,
                    SubSeq(value, spans[i].offset + 1, End(spans[i])), <<"end">>>>])
                \o <<SubSeq(value, From(Len(spans)) + 1, Len(value))>>
      Before(k) == Len(FlattenSeq(SubSeq(pieces, 1, k - 1)))
      out    == FlattenSeq(pieces)
  IN  IF \E k \in DOMAIN pieces : 2 * Len(pieces[k]) > size - Before(k)
        THEN Refused ELSE [rv |-> Len(out), out |-> out]

-----------------------------------------------------------------------------
(***************************************************************************)
(* What is wanted, told without following the code.                        *)
(***************************************************************************)

\* No wide character reaches across place p: the bytes "hi" right before it,
\* all of which begin or end one, come in pairs.
Between(s, p) ==
  LET run == {q \in 0..p : \A k \in (q + 1)..p : s[k] = "hi"}
  IN  (p - Min(run)) % 2 = 0

WholeCharacters(s) == Between(s, Len(s))

Without(s, cells) == FlattenSeq([i \in DOMAIN s |-> IF s[i] \in cells THEN <<>> ELSE <<s[i]>>])

Unescaped(s) ==
  LET Long == <<"\\", "u", "0", "0", "1", "f">>
      From[i \in Nat] ==
        IF i > Len(s) THEN <<>>
        ELSE IF s[i] # "\\" THEN <<s[i]>> \o From[i + 1]
        ELSE IF IsPrefix(Long, SubSeq(s, i, Len(s))) THEN <<"ctl">> \o From[i + 6]
        ELSE <<IF s[i + 1] = "n" THEN "\n" ELSE s[i + 1]>> \o From[i + 2]
  IN  From[1]

\* quote_escape: escaped in pieces, a text is escaped whole, unless the buffer
\* is too small for one of its escapes; each piece, with its end, lies in the
\* buffer and stands by itself for the bytes taken, no escape in halves.
EscapedInPieces ==
  \A size \in 2..Room :
    LET pieces == EscapedPieces(text, size)
        Taken(k) == FoldLeft(LAMBDA sum, p : sum + p.esclen, 0, SubSeq(pieces, 1, k))
        all == Taken(Len(pieces))
    IN  /\ \A k \in DOMAIN pieces :
             /\ Len(pieces[k].out) < size - 1
             /\ Unescaped(pieces[k].out) = SubSeq(text, Taken(k - 1) + 1, Taken(k))
        /\ all < Len(text) => Len(EscapeOf(text[all + 1])) > size - 2

\* XMLEncode, XMLDecode: what is encoded holds no bracket and no quote, decodes
\* to the text it came from in a buffer just large enough for that text, and is
\* refused exactly in a buffer that it does not fit.
XmlRoundTrip ==
  \A size \in 2..(6 * MaxLen + 1) :
    LET encoded == XMLEncode(text, size)
        need == Len(text) + FoldLeft(LAMBDA sum, c :
                  sum + CASE c \in {"<", ">"} -> 3 [] c \in {"&", "'"} -> 4
                          [] c = "\"" -> 5 [] OTHER -> 0, 0, text)
    IN  IF need >= size THEN encoded = Refused
        ELSE /\ encoded.rv = need
             /\ Range(encoded.out) \cap {"<", ">", "\"", "'"} = {}
             /\ text # <<>> => /\ XMLDecode(encoded.out, Len(text) + 1).out = text
                               /\ XMLDecode(encoded.out, Len(text)) = Refused

\* temp_cutdown, temp_cutdown_with_more, fixstring: a text is cut between two
\* characters, at the length asked for or one byte on, and only if it is longer;
\* it lies in its buffer with its end, but for a wide character across the last
\* place: then the end is one byte behind, or fixstring has not cut at all.
CutsBetweenCharacters ==
  WholeCharacters(text) => \A size \in 5..Room, len \in 1..Room :
    LET cut  == temp_cutdown(text, size, len)
        more == temp_cutdown_with_more(text, size, len)
        dots == <<".", ".", ".">>
        fixed == fixstring(text, size, 2)
        IsCut(s, at) == /\ IsPrefix(s, text) /\ Between(text, Len(s))
                        /\ s = text \/ Len(s) \in {at, at + 1}
        Straddled(at) == at < Len(text) /\ ~Between(text, at)
    IN  /\ IsCut(cut, CutLen(size, len))
        /\ Len(cut) >= size <=> CutLen(size, len) = size - 1 /\ Straddled(size - 1)
        /\ Len(text) <= CutLen(size, len) => more = text
        /\ Len(text) > CutLen(size, len) =>
             /\ IsSuffix(dots, more) /\ Len(more) <= size
             /\ Between(text, Len(more) - 3) /\ IsPrefix(SubSeq(more, 1, Len(more) - 3), text)
             /\ Len(more) = size => Straddled(size - 4)
        /\ IF Straddled(size - 1) THEN fixed = [rv |-> size, out |-> text]
           ELSE IsCut(fixed.out, size - 1) /\ fixed.rv = Len(fixed.out) /\ fixed.rv < size

\* temp_itoa: in a buffer with room for it and its end, a number has all its
\* digits, in groups of k counted from the right, and its sign; in a smaller one
\* what is printed is the number without its last digits, sign and groups, and
\* counts as if it were whole.
NumbersGrouped ==
  \A n \in {number, -number}, size \in 1..Room, k \in 0..3 :
    LET got    == temp_itoa(n, size, k)
        digits == Len(Decimal(number))
        Commas(q) == IF k = 0 THEN 0 ELSE q \div k
        length == digits + Commas(digits - 1) + (IF n < 0 THEN 1 ELSE 0)
        Place(q) == length - q - Commas(q)
    IN  IF length < size
          THEN /\ got.rv = length /\ Len(got.out) = length
               /\ n < 0 => got.out[1] = "-"
               /\ \A q \in 0..(digits - 1) :
                    /\ got.out[Place(q)] = Decimal(number)[digits - q]
                    /\ q > 0 /\ Commas(q) # Commas(q - 1) => got.out[Place(q) + 1] = ","
        ELSE IF k = 0 THEN got = Printed(Decimal(n), size)
        ELSE \E lost \in 1..digits :
               got = Printed(IF lost = digits THEN <<"0">> ELSE UpTo(Decimal(number), digits - lost), size)

\* as_temp_split_query_terms, as_temp_make_high_light: the terms are the words of
\* the query, up to the maximum; without its tags a value is what it was; every
\* tagged part is made of places of terms, and has bytes that are not tagged
\* around it; of no term that could still be taken is a place left without a
\* tagged byte.
HighlightsTerms ==
  \A value \in Values :
    LET terms == as_temp_split_query_terms(text)
        spans == Merged(FoundAll(value, terms))
        shown == as_temp_make_high_light(value, terms, 4 * (Len(value) + 1))
        Places(t) == {p \in 0..(Len(value) - Len(t)) :
                        /\ Between(value, p) /\ value[p + 1] = t[1]
                        /\ \A k \in DOMAIN t : Lower(value[p + k]) = Lower(t[k])}
        Tagged == UNION {(spans[i].offset + 1)..End(spans[i]) : i \in DOMAIN spans}
        Covered(t, p) == (p + 1)..(p + Len(t)) \subseteq Tagged
    IN  /\ \A i \in DOMAIN terms : " " \notin Range(terms[i]) /\ terms[i] # <<>>
        /\ Len(terms) < MAX_QUERY_TERMS_NUM =>
             FlattenSeq(terms) = Without(text, {" "})
        /\ (\A i \in DOMAIN terms : WholeCharacters(terms[i])) =>
             /\ shown.rv # -1 => Without(shown.out, {"start", "end"}) = value
             /\ \A i \in 2..Len(spans) : End(spans[i - 1]) < spans[i].offset
             /\ \A b \in Tagged : \E i \in DOMAIN terms : \E p \in Places(terms[i]) :
                  b \in (p + 1)..(p + Len(terms[i])) /\ Covered(terms[i], p)
             /\ Len(FoundAll(value, terms)) < MAX_HIGH_LIGHT_TERM_NUM - 1 =>
                  \A i \in DOMAIN terms :
                    Cardinality(Places(terms[i])) < PER_TERM =>
                      \A p \in Places(terms[i]) : ((p + 1)..(p + Len(terms[i]))) \cap Tagged # {}
=============================================================================
