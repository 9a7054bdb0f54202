---------------------------- MODULE TemplatePage ----------------------------
(***************************************************************************)
(* How the worker fills the response buffer: worker_handler (core.cpp),    *)
(* temp_make_page and as_temp_make_res (template.cpp).                     *)
(*                                                                         *)
(* A loaded template is a sequence of texts, each followed by a variable,  *)
(* and a tail.  What the code does with it comes down to a few kinds of    *)
(* writes at pbuf, each guarded by nleft, the room that is left.  The      *)
(* model keeps the writes and the guards; of what is written it keeps the  *)
(* length and where it comes from.                                         *)
(***************************************************************************)
EXTENDS Integers, FiniteSets, SequencesExt

CONSTANTS
  Sizes,      \* values of size, RESPONSE_BUF_SIZE in the code
  Templates,  \* [page, none, error, res], each [pieces, tail]
  DateLen,    \* cells of a date in strftime_fmt
  INT_MAX,    \* the greatest int
  Requests    \* [page_no, rn, total_num, return_num, len, unset, known];
              \* nothing ever sets page_no and rn, they are what malloc
              \* delivered; unset is the number a uint_value holds that
              \* nothing was assigned to

\* The greatest u_int.
UINT_MAX == 2 * INT_MAX + 1

\* The variables of a page, by what the switch of temp_make_page does for them.
PageVars == {"ResStr", "Width", "Name", "PageNum", "Results", "Backspace", "Other"}
ResVars == [field : STRING, method : STRING]

Parts(vars_of) == [pieces : Seq([text : Nat, var : vars_of]), tail : Nat]

ASSUME TemplatePageAssumption ==
  /\ Sizes \subseteq Nat \ {0} /\ DateLen \in Nat \ {0}
  /\ INT_MAX \in Nat /\ INT_MAX >= 2^7 - 1
  /\ Requests \subseteq [page_no : Nat, rn : Nat, total_num : 0..UINT_MAX, return_num : Nat,
                        len : Nat, unset : 0..UINT_MAX, known : BOOLEAN]
  /\ Templates \subseteq [page : Parts(PageVars), none : Parts(PageVars),
                         error : Parts(PageVars), res : Parts(ResVars)]

MAX_SEARCH_RES_NUM == 750
PAGE_WINDOW == 6

VARIABLES
  size, tpl,
  req,    \* what the request and the reply hold; known: tpl is a template's name
  part,   \* which part of the template is being written
  todo,   \* the writes that are left
  out,    \* page[0..pbuf), each cell a letter
  nleft,
  beyond, \* the terminating NUL was written to page[size]
  state   \* "begin", "write", or how worker_handler ended

vars == <<size, tpl, req, part, todo, out, nleft, beyond, state>>

\* Cells: of a template's text, of a value, of another number than the value
\* (what is left of one that did not fit, or of one that is no int), of a link to
\* another page and to the current one, of an end of string in the middle of the
\* page.
Letters == {"text", "value", "wrong", "link", "current", "nul"}

TypeOK ==
  /\ size \in Sizes /\ tpl \in Templates
  /\ req.page_no \in Nat
  /\ part \in {"page", "none", "error"}
  /\ out \in Seq(Letters)
  /\ Len(out) <= size /\ nleft = size - Len(out)
  /\ beyond \in BOOLEAN
  /\ state \in {"begin", "write", "sent", "braces", "empty", "crashed"}

Init ==
  /\ size \in Sizes /\ tpl \in Templates /\ req \in Requests
  /\ part = "page" /\ todo = <<>> /\ out = <<>> /\ nleft = size
  /\ beyond = FALSE /\ state = "begin"

-----------------------------------------------------------------------------
(***************************************************************************)
(* The writes.                                                             *)
(***************************************************************************)

\* Kinds: "copy" (strncpy of n cells), "print" (snprintf of n cells), "tail"
\* (strcpy of n cells), "grouped" (temp_itoa of a number of n cells), "least"
\* (temp_itoa of the least int), "date" (strftime of n cells), "back"
\* (uiBackspace), "field" (what a pointer to the document's fields leads to),
\* "odd" (a variable as_temp_make_res does not know).
Write(kind, n, letter) == [kind |-> kind, n |-> n, letter |-> letter]

Min2(a, b) == IF a < b THEN a ELSE b
Max2(a, b) == IF a > b THEN a ELSE b

\* max_page_no.
max_page_no(rn, total) ==
  IF rn = 0 THEN 0 ELSE (Min2(total, MAX_SEARCH_RES_NUM) + rn - 1) \div rn

\* temp_make_page, the correction of page_no.  Pages are counted from 0, yet
\* page_no = page_count is let through.
ClampPageNo(no, count) ==
  IF no > count THEN IF count > 1 THEN count - 1 ELSE 0 ELSE no

\* Mutant: the window starts after the current page.
PageLinksFromNext(no, count) ==
  LET first == no + 1
      stop  == Min2(no + PAGE_WINDOW, count)
  IN  [j \in 1..Max2(stop - first, 0) |->
         Write("print", 1, IF first + j - 1 = no THEN "current" ELSE "link")]

\* uiPageNum: a link to each page around the current one.
PageLinks(no, count) ==
  LET first == Max2(no - PAGE_WINDOW, 0)
      stop  == Min2(no + PAGE_WINDOW, count)
  IN  [j \in 1..Max2(stop - first, 0) |->
         Write("print", 1, IF first + j - 1 = no THEN "current" ELSE "link")]

-----------------------------------------------------------------------------
(***************************************************************************)
(* A variable of a result: a field, and the method that its row of the     *)
(* table gives it; no load checks one against the other.                   *)
(***************************************************************************)

\* as_get_attr_from_id_by_field_name, one name for each group of fields with
\* the same fate.  What the last group gives is no type of a result's switch.
FieldType(field) ==
  CASE field \in {"result_head_total_num", "result_head_return_num", "result_node_attr_int",
                  "result_node_key1", "as_request_sort_field"} -> "uint"
    [] field \in {"result_node_abstract", "as_request_query"} -> "char"
    [] field \in {"result_node_attr_discrete", "result_node_0", "field_type_url"} -> "other"

\* Cells of an unsigned int in decimal, and with a comma before each three digits.
Digits(n) == 1 + Cardinality({d \in 1..9 : n >= 10^d})
Grouped(digits) == digits + (digits - 1) \div 3

\* Cells of (float)value/1000 with three decimals: a float has 24 bits, and some
\* values below 10^8 and 10^9 are rounded to these.
Seconds(value) ==
  LET up == value \in 99999996..99999999 \/ value \in 999999968..999999999
  IN  Digits((value + IF up THEN 32 ELSE 0) \div 1000) + 4

\* get_code_name: "ENG", "GB", and four letters for all others.
CodeName(value) == CASE value = 0 -> 3 [] value = 1 -> 2 [] OTHER -> 4

\* A date as "%F %T".
JAVASCRIPT_DATE == 19

\* temp_itoa takes an int: a greater u_int becomes a negative one.
IntWrite(value) ==
  IF value <= INT_MAX THEN Write("grouped", Grouped(Digits(value)), "value")
  ELSE IF value = INT_MAX + 1 THEN Write("least", 0, "wrong")
  ELSE Write("grouped", Grouped(Digits(UINT_MAX + 1 - value)) + 1, "wrong")

\* as_uint_value_to_other_process.
UintWrite(value, method) ==
  CASE method = "uint_to_uint"             -> Write("print", Digits(value), "value")
    [] method = "uint_to_time_used"        -> Write("print", Seconds(value), "value")
    [] method = "uint_to_total_number_str" -> IntWrite(value)
    [] method = "uint_to_time_str"         -> Write("date", DateLen, "value")
    [] method = "uint_to_javascript_time"  -> Write("date", JAVASCRIPT_DATE, "value")
    [] method = "uint_to_language_str"     -> Write("print", CodeName(value), "value")
    [] method \in {"uint_to_pidstr", "uint_to_flag"} -> Write("print", 0, "value")
    [] OTHER -> Write("odd", 0, "value")

\* as_char_value_to_other_process of an array of the document, of which there is
\* none: most methods read it, urlencode is empty and str_to_pid_name does nothing.
CharWrite(method) ==
  CASE method \in {"str_to_conv", "str_to_conv_quote_escape", "str_xml_encode", "str_to_str",
                   "str_full_high_light", "str_title_type_basic", "str_high_light_basic",
                   "str_abstract_type_basic", "str_to_escape_backslash"} -> Write("field", 0, "value")
    [] method \in {"str_uri_encode", "str_uri_encode_utf8", "str_to_pid_name"} ->
         Write("print", 0, "value")
    [] OTHER -> Write("odd", 0, "value")

\* Of the numbers, the total is one of the reply's head; attr_int is left
\* unassigned; key1 is of the document, of which temp_make_page passes none; the
\* switch writes 0 for as_request_sort_field, whose value in its enumeration is
\* that of result_node_0 in another; all others it does not know.
ResVarWrites(var) ==
  LET Odd == Write("odd", 0, "value")
  IN  CASE FieldType(var.field) = "uint" ->
             <<CASE var.field = "result_head_total_num" -> UintWrite(req.total_num, var.method)
                 [] var.field = "result_node_attr_int"  -> UintWrite(req.unset, var.method)
                 [] var.field = "as_request_sort_field" -> UintWrite(0, var.method)
                 [] var.field = "result_node_key1"      -> Write("field", 0, "value")
                 [] OTHER -> Odd>>
        [] FieldType(var.field) = "char" ->
             <<IF var.field = "result_node_abstract" THEN CharWrite(var.method) ELSE Odd>>
        [] OTHER -> <<Odd>>

\* The pieces of template t in order: the text before a variable, then what
\* the variable writes; last, the text after the last variable.
WritesOf(t, varWrites) ==
  FlattenSeq([i \in DOMAIN t.pieces |->
                <<Write("copy", t.pieces[i].text, "text")>> \o varWrites[i]])
  \o <<Write("tail", t.tail, "text")>>

\* The switch of temp_make_page; a variable it does not list writes nothing.
PageVarWrites(var, page_no) ==
  CASE var = "ResStr"  -> <<Write("copy", req.len, "value")>>
    [] var = "Width"   -> <<Write("print", 1, "value")>>
    [] var = "Name"    -> <<Write("print", 2, "value")>>
    [] var = "PageNum" -> PageLinks(page_no, max_page_no(req.rn, req.total_num))
    [] var = "Results" ->
         FlattenSeq([k \in 1..req.return_num |->
           WritesOf(tpl.res, [i \in DOMAIN tpl.res.pieces |-> ResVarWrites(tpl.res.pieces[i].var)])])
    [] var = "Backspace" -> <<Write("back", 0, "text")>>
    [] var = "Other"   -> <<>>

WritesAt(p, page_no) ==
  WritesOf(tpl[p], [i \in DOMAIN tpl[p].pieces |-> PageVarWrites(tpl[p].pieces[i].var, page_no)])

PartWrites(p) == WritesAt(p, req.page_no)

-----------------------------------------------------------------------------
(***************************************************************************)
(* worker_handler and the calls of temp_make_page.                         *)
(***************************************************************************)

\* worker_handler finds no template of the name the reply asks for.
NoTemplate ==
  /\ state = "begin" /\ ~req.known
  /\ state' = "braces"
  /\ UNCHANGED <<size, tpl, req, part, todo, out, nleft, beyond>>

\* temp_make_page with iserr = 0, up to the loop.
MakePage ==
  /\ state = "begin" /\ req.known
  /\ req' = [req EXCEPT !.page_no =
                ClampPageNo(@, max_page_no(req.rn, req.total_num))]
  /\ part' = IF req.return_num = 0 THEN "none" ELSE "page"
  /\ todo' = WritesAt(part', req'.page_no)
  /\ state' = "write"
  /\ UNCHANGED <<size, tpl, out, nleft, beyond>>

\* Mutants: worker_handler does not try again; the error page is written
\* behind what was written before.
GiveUpAtOnce ==
  /\ state' = "empty" /\ out' = <<>> /\ nleft' = size
  /\ UNCHANGED <<part, todo>>
GiveUpWritesOn ==
  /\ UNCHANGED <<out, nleft>>
  /\ IF part # "error"
       THEN part' = "error" /\ todo' = PartWrites("error") /\ UNCHANGED state
       ELSE state' = "empty" /\ UNCHANGED <<part, todo>>

\* temp_make_page returns -1.  worker_handler calls it again with iserr = 1,
\* and sends nothing when that fails too.
GiveUp ==
  /\ out' = <<>> /\ nleft' = size
  /\ IF part # "error"
       THEN part' = "error" /\ todo' = PartWrites("error") /\ UNCHANGED state
       ELSE state' = "empty" /\ UNCHANGED <<part, todo>>

Put(cells, room) ==
  /\ out' = out \o cells /\ nleft' = nleft - room
  /\ todo' = Tail(todo)
  /\ UNCHANGED part

Cells(w) == [i \in 1..w.n |-> w.letter]

\* Copy n cells of the template or of upstream_response.
Copy ==
  /\ state = "write" /\ Head(todo).kind = "copy"
  /\ LET w == Head(todo) IN
     IF w.n > nleft THEN GiveUp ELSE Put(Cells(w), w.n) /\ UNCHANGED state
  /\ UNCHANGED <<size, tpl, req, beyond>>

\* snprintf, which keeps the last cell of the room for the NUL; the test
\* n1 > nleft overlooks it: a value as long as the room loses its end.
PrintCells(w) ==
  IF w.n > nleft THEN GiveUp
  ELSE /\ Put(IF w.n = nleft /\ w.n > 0 THEN [Cells(w) EXCEPT ![w.n] = "nul"]
                                         ELSE Cells(w), w.n)
       /\ UNCHANGED state

PrintValue ==
  /\ state = "write" /\ Head(todo).kind = "print"
  /\ PrintCells(Head(todo))
  /\ UNCHANGED <<size, tpl, req, beyond>>

\* temp_itoa of a number whose cells reach the end of the room: printed is what is
\* left of it when as many cells as there is room for have been used up from its
\* end, 0 if nothing is left.
Leftover(w) ==
  LET cells  == IF w.letter = "wrong" THEN w.n - 1 ELSE w.n  \* without the sign
      digits == cells - cells \div 4
      used   == nleft - nleft \div 4
  IN  Write("print", Max2(digits - used, 1), "wrong")

PrintNumber(w) ==
  IF nleft = 0 THEN Put(<<>>, 0) /\ UNCHANGED state
  ELSE PrintCells(IF w.n < nleft THEN w ELSE Leftover(w))

PrintGrouped ==
  /\ state = "write" /\ Head(todo).kind = "grouped"
  /\ PrintNumber(Head(todo))
  /\ UNCHANGED <<size, tpl, req, beyond>>

\* The negation of the least int is undefined.  It stays negative, then its last
\* digit, which is no digit, and a sign are written, or with no room for these all
\* but its last digit, which needs more; or it is taken for the unsigned number.
PrintLeast ==
  /\ state = "write" /\ Head(todo).kind = "least"
  /\ \/ IF nleft \in {1, 2} THEN GiveUp ELSE PrintNumber(Write("grouped", 2, "wrong"))
     \/ PrintNumber(Write("grouped", Grouped(Digits(INT_MAX + 1)) + 1, "wrong"))
  /\ UNCHANGED <<size, tpl, req, beyond>>

\* strftime returns 0 when a date and its NUL do not fit: nothing is written.
PrintDate ==
  /\ state = "write" /\ Head(todo).kind = "date"
  /\ LET w == Head(todo) IN IF w.n < nleft THEN Put(Cells(w), w.n) ELSE Put(<<>>, 0)
  /\ UNCHANGED <<size, tpl, req, beyond, state>>

\* Mutant: nleft is not given back.
BackspaceKeepsRoom ==
  /\ state = "write" /\ Head(todo).kind = "back"
  /\ todo' = Tail(todo)
  /\ out' = IF nleft < size THEN Front(out) ELSE out
  /\ UNCHANGED <<size, tpl, req, part, nleft, beyond, state>>

\* uiBackspace takes the last cell back, whatever it is.
Backspace ==
  /\ state = "write" /\ Head(todo).kind = "back"
  /\ todo' = Tail(todo)
  /\ IF nleft < size
       THEN out' = Front(out) /\ nleft' = nleft + 1
       ELSE UNCHANGED <<out, nleft>>
  /\ UNCHANGED <<size, tpl, req, part, beyond, state>>

\* The tail of the page or of a result, with its NUL, for which the test of
\* the room does not count a cell.
CopyTail ==
  /\ state = "write" /\ Head(todo).kind = "tail"
  /\ LET w == Head(todo) IN
     IF w.n > nleft THEN GiveUp /\ UNCHANGED beyond
     ELSE /\ Put(Cells(w), w.n)
          /\ beyond' = (beyond \/ w.n = nleft)
          /\ state' = IF Len(todo) = 1 THEN "sent" ELSE state
  /\ UNCHANGED <<size, tpl, req>>

\* What is read of the document: presnode is NULL.
ReadField ==
  /\ state = "write" /\ Head(todo).kind = "field"
  /\ state' = "crashed"
  /\ UNCHANGED <<size, tpl, req, part, todo, out, nleft, beyond>>

\* as_temp_make_res returns -1 for a variable of no known source.
OddVariable ==
  /\ state = "write" /\ Head(todo).kind = "odd"
  /\ GiveUp
  /\ UNCHANGED <<size, tpl, req, beyond>>

Next ==
  \/ NoTemplate \/ MakePage
  \/ Copy \/ PrintValue \/ PrintGrouped \/ PrintLeast \/ PrintDate
  \/ Backspace \/ CopyTail \/ ReadField \/ OddVariable

Spec == Init /\ [][Next]_vars

-----------------------------------------------------------------------------
(***************************************************************************)
(* What the writes of a part would give in a buffer without an end, and    *)
(* whether some prefix of them needs more than size cells.                 *)
(***************************************************************************)
Effect(sofar, w) ==
  IF w.kind = "back" THEN IF sofar = <<>> THEN sofar ELSE Front(sofar)
  ELSE sofar \o Cells(w)

\* After the first k of them.
Rendering(ws) ==
  LET after[k \in 0..Len(ws)] == IF k = 0 THEN <<>> ELSE Effect(after[k - 1], ws[k])
  IN  after

TooLong(ws) == \E k \in DOMAIN ws : Len(Rendering(ws)[k]) > size
Has(kind, ws) == \E k \in DOMAIN ws : ws[k].kind = kind

\* The part of the template the data calls for.
Called == IF req.return_num = 0 THEN "none" ELSE "page"

\* A number with separators, or a date, that comes to the end of the buffer, or
\* the least int, of which nothing is certain.
Squeezed(ws) ==
  \E k \in DOMAIN ws :
    \/ ws[k].kind = "least"
    \/ ws[k].kind \in {"grouped", "date"} /\ Len(Rendering(ws)[k - 1]) + ws[k].n >= size

\* temp_make_page: a page that is sent is the template with every variable
\* replaced, nothing lost and nothing else in it, but for its last cell when it
\* fills the buffer, and unless a number with separators or a date came to the
\* end of the buffer or that number was the least int.  Only a number with
\* separators that is no int is replaced by another.
SentPageComplete ==
  state = "sent" /\ ~Squeezed(PartWrites(part)) =>
    LET ws    == PartWrites(part)
        whole == Rendering(ws)[Len(ws)]
    IN
    /\ Len(out) = Len(whole)
    /\ \A i \in DOMAIN out : out[i] = whole[i] \/ (i = size /\ out[i] = "nul")

\* worker_handler: the client gets the page its data call for unless that page
\* is too long or broken, then the error page unless that is too long or
\* broken, and only then nothing.  With a number or a date at the end of the
\* buffer, or the least int, a page may be sent that is too long, never one that
\* is broken.
FallsBackInOrder ==
  LET Bad(p) == TooLong(PartWrites(p)) \/ Has("odd", PartWrites(p))
      Unsure(p) == Squeezed(PartWrites(p))
  IN  /\ state = "sent" => /\ ~Has("odd", PartWrites(part))
                           /\ part \in {Called, "error"}
                           /\ ~Unsure(Called) => part = IF Bad(Called) THEN "error" ELSE Called
      /\ state = "empty" => \A p \in {Called, "error"} : Bad(p) \/ Unsure(p)

\* temp_make_page, uiPageNum: the links are at most twelve, and the current
\* page is among them unless there is no page at all or the request asked for
\* the page just after the last.
CurrentPageLinked ==
  state \notin {"begin", "braces"} =>
    LET count == max_page_no(req.rn, req.total_num)
        links == PageLinks(req.page_no, count)
    IN  /\ Len(links) <= 2 * PAGE_WINDOW
        /\ (\A j \in DOMAIN links : links[j].letter = "link") <=>
             req.page_no = count

\* "the remaining writable size of the buffer" (nleft, template.cpp:991): no
\* cell behind that size is written.
RoomRespected == ~beyond
=============================================================================
