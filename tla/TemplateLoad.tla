---------------------------- MODULE TemplateLoad ----------------------------
(***************************************************************************)
(* template_load (template.cpp) at start-up: the table of variables, the   *)
(* list of templates, and for each template its four texts, its            *)
(* config.conf and the methods of its result variables.                    *)
(*                                                                         *)
(* A text is kept as the sequence of what follows each of its dollar       *)
(* signs: text[k] lies between dollar k and dollar k + 1, and its last     *)
(* element behind the last dollar.  A variable is a text[k] with both its  *)
(* dollars.  An element is a prefix, "ui", "res", three other characters   *)
(* ("any"), two, one or none ("bare"), and the name behind it.             *)
(***************************************************************************)
EXTENDS Integers, FiniteSets, SequencesExt

CONSTANTS
  MAX_VARS_NUM, MAX_RES_VARS_NUM, MAX_TEMPLATE_NUM,
  UiVars,   \* uivar, without its prefix
  ResVars,  \* resvar, "Digest" among them
  Files     \* sets of files: [table, list, disk]; table are the lines of
            \* template_table.conf, list what fgets makes of template.conf, and
            \* disk has the directory of each name

\* What the lines and the texts of a set of files may be; a file that cannot be
\* opened is one line.
TableLines ==
  [kind : {"comment", "missing", "broken"}]
    \cup [kind : {"row"}, name : STRING, digit : BOOLEAN, field : BOOLEAN, method : BOOLEAN]
ListLines(names) == [kind : {"comment", "missing"}] \cup [kind : {"name"}, name : names]
Texts == Seq([pre : {"ui", "res", "any", "two", "one", "bare"}, name : STRING])
Contents == [ok : BOOLEAN, text : Texts]
Directories == [page : Contents, none : Contents, error : Contents, res : Contents,
                digest : {"unset", "on", "off"}]

WellFormed(f) ==
  /\ f.table \in Seq(TableLines) /\ f.list \in Seq(ListLines(DOMAIN f.disk))
  /\ f.disk \in [DOMAIN f.disk -> Directories]
  /\ \A l \in DOMAIN f.table : f.table[l].kind = "missing" => Len(f.table) = 1
  /\ \A l \in DOMAIN f.list : f.list[l].kind = "missing" => Len(f.list) = 1

ASSUME TemplateLoadAssumption ==
  /\ \A f \in Files : WellFormed(f)
  /\ {MAX_VARS_NUM, MAX_RES_VARS_NUM, MAX_TEMPLATE_NUM} \subseteq Nat \ {0}
  /\ MAX_RES_VARS_NUM <= MAX_VARS_NUM
  /\ "Digest" \in ResVars

VARIABLES
  files,    \* the files there are
  enable_digest,  \* of g_conf
  rest,     \* lines of the open file that are left
  table,    \* template_table[0..template_table_real_vars_num)
  tn, tn_num,
  tpl,      \* g_pTemplate->tpl
  i,        \* the template being loaded
  state

inputs == <<files, enable_digest>>
templateVars == <<files, enable_digest, rest, table, tn, tn_num, tpl, i, state>>

Steps == {"table", "names", "page", "none", "error", "res", "config", "methods"}

\* template_init clears everything.
Blank == [page |-> <<>>, none |-> <<>>, error |-> <<>>, res |-> <<>>,
          digest |-> 0, overwritten |-> FALSE]

TemplatesTypeOK ==
  /\ enable_digest \in BOOLEAN
  /\ Len(table) <= MAX_VARS_NUM /\ Len(tn) <= MAX_TEMPLATE_NUM
  /\ tn_num \in 0..MAX_TEMPLATE_NUM
  /\ i \in 1..(MAX_TEMPLATE_NUM + 1)
  /\ state \in Steps \cup {"loaded", "failed"}
  /\ \A t \in DOMAIN tpl :
       /\ tpl[t].digest \in {0, 2} /\ tpl[t].overwritten \in BOOLEAN
       /\ \A p \in {"page", "none", "error"} : Len(tpl[t][p]) <= MAX_VARS_NUM

\* g_conf starts as zeros; neither init_conf nor a key of ui.conf sets its
\* enable_digest.
TemplatesInit ==
  /\ files \in Files /\ enable_digest = FALSE
  /\ rest = files.table /\ state = "table"
  /\ table = <<>> /\ tn = <<>> /\ tn_num = 0 /\ i = 1
  /\ tpl = [t \in 1..MAX_TEMPLATE_NUM |-> Blank]

-----------------------------------------------------------------------------
(***************************************************************************)
(* as_load_template_var_table.                                             *)
(***************************************************************************)

\* as_template_var_valid knows the field and the method.
Valid(row) == row.field /\ row.method

\* Mutant: a table that is just full is no error.
TableOverfull == Len(table) + 1 > MAX_VARS_NUM

\* A table that is full counts as an error.
TableFull == Len(table) + 1 = MAX_VARS_NUM

Comment ==
  /\ state \in {"table", "names"} /\ rest # <<>> /\ Head(rest).kind = "comment"
  /\ rest' = Tail(rest)
  /\ UNCHANGED <<inputs, table, tn, tn_num, tpl, i, state>>

\* fopen fails.
Unreadable ==
  /\ state \in {"table", "names"} /\ rest # <<>> /\ Head(rest).kind = "missing"
  /\ state' = "failed"
  /\ UNCHANGED <<inputs, rest, table, tn, tn_num, tpl, i>>

\* A row whose index is no number is passed over, whatever its field is.
TableLine ==
  /\ state = "table" /\ rest # <<>> /\ Head(rest).kind \in {"row", "broken"}
  /\ rest' = Tail(rest)
  /\ LET row == Head(rest) IN
     IF row.kind = "broken" THEN state' = "failed" /\ UNCHANGED table
     ELSE IF ~row.digit THEN UNCHANGED <<state, table>>
     ELSE IF ~Valid(row) THEN state' = "failed" /\ UNCHANGED table
     ELSE /\ table' = Append(table, row.name)
          /\ state' = IF TableFull THEN "failed" ELSE state
  /\ UNCHANGED <<inputs, tn, tn_num, tpl, i>>

EndOfTable ==
  /\ state = "table" /\ rest = <<>>
  /\ state' = "names" /\ rest' = files.list
  /\ UNCHANGED <<inputs, table, tn, tn_num, tpl, i>>

-----------------------------------------------------------------------------
(***************************************************************************)
(* template_load_conf: readlines_2_array.  fgets reads at most             *)
(* MAX_TEMPLATE_NAME_LEN - 1 characters, so that a longer line, comment or *)
(* name, is followed by its remainder as a line of its own.                *)
(***************************************************************************)
StartTemplates ==
  IF tn' = <<>> THEN state' = "loaded" ELSE state' = "page"

\* Names beyond the maximum are not read.
NameLine ==
  /\ state = "names" /\ rest # <<>> /\ Head(rest).kind = "name"
  /\ tn' = Append(tn, Head(rest).name)
  /\ IF Len(tn') = MAX_TEMPLATE_NUM
       THEN rest' = <<>> /\ StartTemplates
       ELSE rest' = Tail(rest) /\ UNCHANGED state
  /\ UNCHANGED <<inputs, table, tn_num, tpl, i>>

EndOfNames ==
  /\ state = "names" /\ rest = <<>>
  /\ UNCHANGED tn /\ StartTemplates
  /\ UNCHANGED <<inputs, rest, table, tn_num, tpl, i>>

-----------------------------------------------------------------------------
(***************************************************************************)
(* temp_load_content_file and temp_load_res_file.                          *)
(***************************************************************************)
Dir(t) == files.disk[tn[t]]

Min2(a, b) == IF a < b THEN a ELSE b

KnownUi(text, k) == text[k].pre = "ui" /\ text[k].name \in UiVars

\* Characters of a prefix.
Width(pre) == CASE pre \in {"res", "any"} -> 3 [] pre \in {"ui", "two"} -> 2
                [] pre = "one" -> 1 [] pre = "bare" -> 0

\* What temp_load_res_file looks up: what stands four characters behind the
\* opening dollar, whatever the three in between.  With fewer in between that is
\* text behind the closing dollar, up to its end, other dollars included.
ResName(text, k) ==
  LET last == Len(text)
      ahead[j \in k..last] ==
        IF j = k THEN Width(text[k].pre) ELSE ahead[j - 1] + 1 + Width(text[j].pre)
  IN  IF Width(text[k].pre) = 3 THEN text[k].name
      ELSE IF ahead[last] = 3 /\ \A j \in k..(last - 1) : text[j].name = "" THEN text[last].name
      ELSE "none"

KnownRes(text, k) == ResName(text, k) \in ResVars

\* Mutant: the closing dollar of a variable may open the next.
OpeningOverlapping(text, Here) ==
  SelectSeq([k \in 1..Len(text) |-> k], LAMBDA k : k \in Here /\ k < Len(text))

\* The opening dollars of the variables.  Behind a variable the search goes on
\* after its closing dollar; behind anything else the closing dollar may open.
Opening(text, Here) ==
  LET found[k \in 1..(Len(text) + 1)] ==
        IF k >= Len(text) THEN <<>>
        ELSE IF k \in Here THEN <<k>> \o found[k + 2] ELSE found[k + 1]
  IN  found[1]

\* At most MAX_VARS_NUM variables are taken.
Scan(text, Here) ==
  LET all == Opening(text, Here) IN SubSeq(all, 1, Min2(Len(all), MAX_VARS_NUM))

UiOpenings(text) == {k \in DOMAIN text : KnownUi(text, k)}
ResOpenings(text) == {k \in DOMAIN text : KnownRes(text, k)}

Fail == state' = "failed" /\ UNCHANGED tpl

\* page.html, none.html and error.html; ok: it can be read and is not too big.
LoadContent(part, next) ==
  /\ state = part
  /\ LET f == Dir(i)[part] IN
     IF ~f.ok THEN Fail
     ELSE /\ tpl' = [tpl EXCEPT ![i][part] = Scan(f.text, UiOpenings(f.text))]
          /\ state' = next
  /\ UNCHANGED <<inputs, rest, table, tn, tn_num, i>>

LoadPage == LoadContent("page", "none")
LoadNone == LoadContent("none", "error")
LoadError == LoadContent("error", "res")

\* res.html, which is given the limit of a page: the entries of res_vars from
\* MAX_RES_VARS_NUM on lie in nonebuf.
LoadRes ==
  /\ state = "res"
  /\ LET f   == Dir(i).res
         got == Scan(f.text, ResOpenings(f.text))
     IN  IF ~f.ok THEN Fail
         ELSE /\ tpl' = [tpl EXCEPT
                   ![i].res = [v \in DOMAIN got |->
                       [at |-> got[v], name |-> ResName(f.text, got[v]), row |-> 0]],
                   ![i].overwritten = Len(got) > MAX_RES_VARS_NUM]
              /\ state' = "config"
  /\ UNCHANGED <<inputs, rest, table, tn, tn_num, i>>

-----------------------------------------------------------------------------
(***************************************************************************)
(* temp_load_config_file, the digest, and as_set_method_for_vars.          *)
(***************************************************************************)

\* config.conf can only switch off what ui.conf allows; when it cannot be read
\* the template is loaded all the same.
WantsDigest(dir) == enable_digest /\ dir.digest # "off"

HasDigest(t) == \E v \in DOMAIN tpl[t].res : tpl[t].res[v].name = "Digest"

LoadConfig ==
  /\ state = "config"
  /\ tpl' = [tpl EXCEPT ![i].digest = IF WantsDigest(Dir(i)) /\ HasDigest(i) THEN 2 ELSE 0]
  /\ state' = "methods"
  /\ UNCHANGED <<inputs, rest, table, tn, tn_num, i>>

\* Mutant: the last row.
RowOfLast(name) == SelectLastInSeq(table, LAMBDA n : n = name)

\* The first row of that name, 0 if there is none.
RowOf(name) == SelectInSeq(table, LAMBDA n : n = name)

\* The last template publishes them all.
SetMethods ==
  /\ state = "methods"
  /\ LET res  == tpl[i].res
         Lost(v) == RowOf(res[v].name) = 0
     IN  /\ tpl' = [tpl EXCEPT ![i].res = [v \in DOMAIN res |->
                IF \E u \in 1..v : Lost(u) THEN res[v]
                ELSE [res[v] EXCEPT !.row = RowOf(res[v].name)]]]
         /\ IF \E v \in DOMAIN res : Lost(v)
              THEN state' = "failed" /\ UNCHANGED <<i, tn_num>>
              ELSE /\ i' = i + 1
                   /\ IF i = Len(tn) THEN tn_num' = Len(tn) /\ state' = "loaded"
                                     ELSE state' = "page" /\ UNCHANGED tn_num
  /\ UNCHANGED <<inputs, rest, table, tn>>

TemplatesNext ==
  \/ Comment \/ Unreadable \/ TableLine \/ EndOfTable \/ NameLine \/ EndOfNames
  \/ LoadPage \/ LoadNone \/ LoadError \/ LoadRes \/ LoadConfig \/ SetMethods

TemplatesSpec == TemplatesInit /\ [][TemplatesNext]_templateVars

-----------------------------------------------------------------------------
(***************************************************************************)
(* temp_get_template_index, which does not tell small letters from         *)
(* capitals; 0 stands for its -1.                                          *)
(***************************************************************************)
temp_get_template_index(name) ==
  SelectInSeq(SubSeq(tn, 1, tn_num), LAMBDA n : n.name = name.name)

-----------------------------------------------------------------------------
(***************************************************************************)
(* What a file says, without going through it step by step.                *)
(***************************************************************************)
Rows == {r \in DOMAIN files.table : /\ files.table[r].kind = "row" /\ files.table[r].digit}
Names == {l \in DOMAIN files.list : files.list[l].kind = "name"}
Position(l) == Cardinality({m \in Names : m <= l})
Listed == {l \in Names : Position(l) <= MAX_TEMPLATE_NUM}

RowNames == {files.table[r].name : r \in Rows}

\* The marks are openings of the text that share no dollar; an opening that is
\* not marked shares its dollar with a marked one before it, or comes when all
\* the places are taken.
Covers(text, Here, marks) ==
  LET M == Range(marks) IN
  /\ Len(marks) = Cardinality(M) /\ \A a, b \in DOMAIN marks : a < b => marks[a] < marks[b]
  /\ M \subseteq Here /\ \A k \in M : k < Len(text) /\ k + 1 \notin M
  /\ \A k \in Here \ M :
       \/ k = Len(text)
       \/ k - 1 \in M
       \/ Len(marks) = MAX_VARS_NUM /\ \A m \in M : m < k

\* temp_load_content_file, temp_load_res_file: temp_make_page takes the text
\* between two variables for what lies between their ends, so they must be in
\* order and apart; and no variable of the text is left to be shown as text.
VarsFound ==
  \A t \in 1..Len(tn) :
    /\ \A p \in {"page", "none", "error"} :
         t < i \/ (t = i /\ state \in {"config", "methods"}) =>
           Covers(Dir(t)[p].text, UiOpenings(Dir(t)[p].text), tpl[t][p])
    /\ t < i \/ (t = i /\ state \in {"config", "methods"}) =>
         LET text == Dir(t).res.text IN
         Covers(text, ResOpenings(text), [v \in DOMAIN tpl[t].res |-> tpl[t].res[v].at])

\* template_load fails exactly for these: a broken table, a missing file of a
\* listed template, a result variable without a row.
BadTemplates ==
  LET BadTable == \/ \E l \in DOMAIN files.table : files.table[l].kind \in {"broken", "missing"}
                  \/ \E r \in Rows : ~Valid(files.table[r])
                  \/ Cardinality(Rows) >= MAX_VARS_NUM
      BadDir(d) == \/ \E p \in {"page", "none", "error", "res"} : ~d[p].ok
                   \/ \E k \in Range(Scan(d.res.text, ResOpenings(d.res.text))) :
                        ResName(d.res.text, k) \notin RowNames
  IN  \/ BadTable \/ \E l \in DOMAIN files.list : files.list[l].kind = "missing"
      \/ \E l \in Listed : BadDir(files.disk[files.list[l].name])

\* as_set_method_for_vars, temp_get_template_index: a variable of a loaded
\* template has the method of the first row that names it, of the rows whose
\* index is a number; a request finds the first template of its name, in
\* whatever letters, among the first MAX_TEMPLATE_NUM of template.conf.
FirstWins ==
  /\ \A t \in 1..tn_num : \A v \in DOMAIN tpl[t].res :
       LET var == tpl[t].res[v]
           r   == CHOOSE r \in Rows : /\ files.table[r].name = var.name
                                      /\ \A q \in Rows : files.table[q].name = var.name => r <= q
       IN  var.row = Cardinality({q \in Rows : q <= r})
  /\ state = "loaded" =>
       \A n \in DOMAIN files.disk :
         LET at == {Position(l) : l \in {l \in Listed : files.list[l].name.name = n.name}} IN
         IF at = {} THEN temp_get_template_index(n) = 0
         ELSE /\ temp_get_template_index(n) \in at
              /\ \A l \in at : temp_get_template_index(n) <= l
=============================================================================
