------------------------------ MODULE MCStartup ------------------------------
(***************************************************************************)
(* Instance of Startup for TLC.                                            *)
(*   ui.conf: a number below every range, one inside all of them and one   *)
(*     above the range of Def_search_sort.                                 *)
(*   servers: arrays for two groups of two servers, and files that ask for *)
(*     fewer, for as many and for more.                                    *)
(*   templates: tables of up to three lines, lists of up to four, two      *)
(*     slots, and templates that differ from a good one in one file or in  *)
(*     the digest switch.                                                  *)
(***************************************************************************)
EXTENDS Startup

SomeValues == {-1, 1, 6}

SomeNumbers == {0, 1, 2, 3}
SomeRates == {0, 2, 3}

Ui == {"Width"}
Res == {"Title", "Digest"}

Seg(pre, name) == [pre |-> pre, name |-> name]
Good(text) == [ok |-> TRUE, text |-> text]
Missing == [ok |-> FALSE, text |-> <<>>]

UiTexts == SeqOf({Seg("ui", "Width"), Seg("ui", "Nope"), Seg("bare", "text")}, 4)
\* Dollars with fewer than three characters in between, and what stands four
\* characters behind the first.
two == Seg("two", "")
one == Seg("one", "")
bare == Seg("bare", "")
Near ==
  LET Title(pre) == Seg(pre, "Title") IN
  {<<one, Title("one")>>, <<one, bare, Title("bare")>>, <<bare, Title("two")>>,
   <<bare, one, Title("bare")>>, <<bare, bare, Title("one")>>, <<bare, bare, bare, Title("bare")>>,
   <<one, Title("bare")>>, <<one, Title("one"), bare>>}

ResTexts ==
  SeqOf({Seg("res", "Title"), Seg("any", "Digest"), two, Seg("bare", "Title")}, 4) \cup Near

\* More variables than MAX_VARS_NUM.
Many(var) == [k \in 1..9 |-> var]

Plain == [page  |-> Good(<<Seg("ui", "Width"), Seg("bare", "text")>>),
          none  |-> Good(<<>>), error |-> Good(<<>>),
          res   |-> Good(<<Seg("res", "Digest"), Seg("bare", "text")>>),
          digest |-> "unset"]

Dirs ==
  UNION {
    {[Plain EXCEPT !.page = Good(t)] : t \in UiTexts \cup {Many(Seg("ui", "Width"))}},
    {[Plain EXCEPT !.res = Good(t), !.digest = d] :
       t \in ResTexts \cup {Many(Seg("res", "Title"))}, d \in {"on", "off"}},
    {[Plain EXCEPT ![p] = Missing] : p \in {"page", "none", "error", "res"}}}

Name(n, case) == [name |-> n, case |-> case]
first == Name("first", "small")
FIRST == Name("first", "capital")
second == Name("second", "small")

NameOf(n) == [kind |-> "name", name |-> n]
Remark == [kind |-> "comment"]
Absent == [kind |-> "missing"]
Row(name, digit, field, method) ==
  [kind |-> "row", name |-> name, digit |-> digit, field |-> field, method |-> method]

SomeRows ==
  {Remark, [kind |-> "broken"], Row("Title", TRUE, TRUE, TRUE),
   Row("Digest", TRUE, TRUE, TRUE), Row("Title", FALSE, FALSE, TRUE),
   Row("Title", TRUE, FALSE, TRUE), Row("Digest", TRUE, TRUE, FALSE)}

GoodTable == <<Row("Title", TRUE, TRUE, TRUE), Row("Digest", TRUE, TRUE, TRUE)>>

Lists ==
  {<<Remark, NameOf(first)>>, <<NameOf(second), NameOf(first)>>,
   <<NameOf(FIRST), NameOf(first), Remark, NameOf(second)>>}

AllSound == [table |-> GoodTable, list |-> <<NameOf(first)>>,
             disk |-> [n \in {first, FIRST, second} |-> Plain]]

Disk(d) == [n \in {first, FIRST, second} |-> IF n = first THEN d ELSE Plain]

SomeFiles ==
  UNION {{AllSound},
         {[table |-> GoodTable, list |-> l, disk |-> Disk(d)] : l \in Lists, d \in Dirs},
         {[table |-> t, list |-> l, disk |-> Disk(Plain)] :
            t \in SeqOf(SomeRows, 3) \cup {<<Absent>>},
            l \in Lists \cup {<<>>, <<Remark>>, <<Absent>>}}}
=============================================================================
