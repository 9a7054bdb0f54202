------------------------------- MODULE Strings -------------------------------
(***************************************************************************)
(* The string functions of util.cpp.  A text is a sequence of bytes; "hi"  *)
(* is one with its high bit set, which starts a wide character, and "ctl"  *)
(* one below the blank that has no short escape.  An end of string is the  *)
(* end of the sequence.                                                    *)
(***************************************************************************)
EXTENDS Integers, FiniteSets, SequencesExt

\* What a function that returns -1 leaves.
Refused == [rv |-> -1, out |-> <<>>]

\* The first n elements, or all.
UpTo(s, n) == SubSeq(s, 1, IF n < Len(s) THEN n ELSE Len(s))

-----------------------------------------------------------------------------
(***************************************************************************)
(* quote_escape.                                                           *)
(***************************************************************************)
EscapeOf(c) ==
  CASE c \in {"\\", "\""} -> <<"\\", c>>
    [] c = "\n"           -> <<"\\", "n">>
    [] c = "ctl"          -> <<"\\", "u", "0", "0", "1", "f">>
    [] OTHER              -> <<c>>

Escaped(src) == FlattenSeq([i \in DOMAIN src |-> EscapeOf(src[i])])

\* Mutant: an escape is begun where only its first byte has room.
RoomForFirst(src, i, can_push) == Len(Escaped(SubSeq(src, 1, i - 1))) + 1 < can_push

\* SIZE_CHECK, for the bytes that src[i] pushes.
RoomFor(src, i, can_push) == Len(Escaped(SubSeq(src, 1, i))) < can_push

\* It stops in front of the first byte whose escape has no room, and that is no
\* error: esclen tells how many bytes of src were taken.  rv is use_len.
quote_escape(src, size) ==
  IF size < 2 THEN [rv |-> -1, out |-> <<>>, esclen |-> 0]
  ELSE LET full  == {i \in DOMAIN src : ~RoomFor(src, i, size - 1)}
           taken == IF full = {} THEN Len(src) ELSE Min(full) - 1
           all   == Escaped(SubSeq(src, 1, taken))
       IN  [rv |-> Len(all), out |-> all, esclen |-> taken]

\* The loop of util.cpp's main: what is left is escaped, until nothing was
\* written.
EscapedPieces(src, size) ==
  LET From[at \in Nat] ==
        LET piece == quote_escape(SubSeq(src, at + 1, Len(src)), size)
        IN  IF piece.rv <= 0 THEN <<>> ELSE <<piece>> \o From[at + piece.esclen]
  IN  From[0]

-----------------------------------------------------------------------------
(***************************************************************************)
(* XMLEncode and XMLDecode.                                                *)
(***************************************************************************)
XmlName == [c \in {"<", ">", "\"", "'", "&"} |->
  CASE c = "<"  -> <<"&", "l", "t", ";">>
    [] c = ">"  -> <<"&", "g", "t", ";">>
    [] c = "\"" -> <<"&", "q", "u", "o", "t", ";">>
    [] c = "'"  -> <<"&", "#", "3", "9", ";">>
    [] c = "&"  -> <<"&", "a", "m", "p", ";">>]

\* Mutant: an ampersand is left as it is.
EncodedButAmp(src) ==
  FlattenSeq([i \in DOMAIN src |->
    IF src[i] \in DOMAIN XmlName \ {"&"} THEN XmlName[src[i]] ELSE <<src[i]>>])

Encoded(src) ==
  FlattenSeq([i \in DOMAIN src |->
    IF src[i] \in DOMAIN XmlName THEN XmlName[src[i]] ELSE <<src[i]>>])

\* One pass from the left: what a name stands for is not looked at again.
Decoded(src) ==
  LET Named(i) == {c \in DOMAIN XmlName : IsPrefix(XmlName[c], SubSeq(src, i, Len(src)))}
      From[i \in Nat] ==
        IF i > Len(src) THEN <<>>
        ELSE IF Named(i) = {} THEN <<src[i]>> \o From[i + 1]
        ELSE LET c == CHOOSE c \in Named(i) : TRUE IN <<c>> \o From[i + Len(XmlName[c])]
  IN  From[1]

\* The need is counted first; a result that has no room is refused as a whole.
WrittenWhole(out, size) ==
  IF size < 2 \/ size - 1 < Len(out) THEN Refused ELSE [rv |-> Len(out), out |-> out]

XMLEncode(src, size) == WrittenWhole(Encoded(src), size)
XMLDecode(src, size) == WrittenWhole(Decoded(src), size)

-----------------------------------------------------------------------------
(***************************************************************************)
(* Wide characters.                                                        *)
(***************************************************************************)

\* fixstring, in place: the text is cut at the last place of its buffer, or
\* before a wide character that the string ends in; a wide character across
\* the last place leaves it as it is.
fixstring(s, size, word_len) ==
  LET last == size - 1
      wide == IF word_len < 2 THEN 2 ELSE word_len
      From[i \in Nat] ==
        IF i >= Len(s) \/ i >= last THEN i
        ELSE IF s[i + 1] # "hi" THEN From[i + 1]
        ELSE IF i + wide > Len(s) THEN i
        ELSE From[i + wide]
      end == From[0]
  IN  IF size < 2 THEN [rv |-> -1, out |-> s]
      ELSE [rv |-> end, out |-> IF end > last THEN s ELSE SubSeq(s, 1, end)]

Lower(c) == CASE c = "A" -> "a" [] c = "B" -> "b" [] OTHER -> c

\* strcasestrGBK from src[at]: the first place of dest, or -1.  The first byte
\* must agree in its letter's size too, the others need not; a place inside a
\* wide character is none.
strcasestrGBK(src, at, dest) ==
  LET Here(i) == /\ i + Len(dest) <= Len(src) /\ src[i + 1] = dest[1]
                 /\ \A k \in DOMAIN dest : Lower(src[i + k]) = Lower(dest[k])
      From[i \in Nat] ==
        IF i >= Len(src) THEN -1
        ELSE IF Here(i) THEN i
        ELSE From[IF src[i + 1] = "hi" THEN i + 2 ELSE i + 1]
  IN  From[at]

\* cstr_split of a whole text: the first size words between separators; the
\* last of as many as asked for is not ended, it runs on to the end of the text.
cstr_split(src, sep, size) ==
  LET Ends(at) == {e \in (at + 1)..Len(src) : e = Len(src) \/ src[e + 1] = sep}
      From[at \in Nat] ==
        IF at >= Len(src) THEN <<>>
        ELSE IF src[at + 1] = sep THEN From[at + 1]
        ELSE <<[from |-> at, to |-> Min(Ends(at))]>> \o From[Min(Ends(at))]
      words == UpTo(From[0], size)
  IN  [w \in DOMAIN words |->
         SubSeq(src, words[w].from + 1, IF w = size THEN Len(src) ELSE words[w].to)]
=============================================================================
