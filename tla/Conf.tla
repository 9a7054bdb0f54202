-------------------------------- MODULE Conf --------------------------------
(***************************************************************************)
(* ui.conf as load_conf and assign_conf_item read it (conf.cpp).           *)
(*                                                                         *)
(* assign_conf_item compares a key with the known names in a fixed order   *)
(* and returns at the first that fits.  Checks of the configuration stand  *)
(* between the comparisons, so a line runs just those checks that precede  *)
(* its own name: the value a line assigns is checked by later lines, if    *)
(* there are any that get that far.                                        *)
(***************************************************************************)
EXTENDS Integers, Sequences, FiniteSetsExt

CONSTANTS
  Values,    \* the numbers that may stand in the file, after atoi
  ConfLines  \* bound: lines of the file

ASSUME ConfAssumption ==
  /\ Values \subseteq Int
  /\ ConfLines \in Nat

SEARCH_SORT_MIN == 0
SEARCH_SORT_MAX == 5
SEARCH_SORT_DEF == 0

\* The names in the order they are compared.  One name stands for each stretch
\* of names with no check in between; a key not in the list passes all checks.
Chain == <<"Listen_port", "Enable_merge_stat", "Top_pid_num", "Log_size",
           "Title_length", "High_light_length", "Def_search_sort",
           "Magic_ui_num">>

Items == {Chain[i] : i \in DOMAIN Chain}
Keys  == Items \cup {"unknown"}

Place(key) == IF key \in Items
                THEN CHOOSE i \in DOMAIN Chain : Chain[i] = key
                ELSE Len(Chain) + 1

\* The ways of writing a line.  parse_config_line wants a blank after the
\* colon or around it: "key:value" and "key value" are not understood.
Forms == {"key: value", "key : value", "key:value", "key value",
          "# key: value"}
Understood == {"key: value", "key : value"}

VARIABLES
  conf,        \* g_conf
  conf_lines,  \* the lines that reached assign_conf_item, in order
  nread,       \* lines read
  conf_loaded  \* load_conf has returned

confVars == <<conf, conf_lines, nread, conf_loaded>>

ConfTypeOK ==
  /\ conf \in [Items -> Int] /\ conf["Enable_merge_stat"] \in {0, 1}
  /\ conf_lines \in Seq([key : Keys, value : Values])
  /\ nread \in 0..ConfLines
  /\ conf_loaded \in BOOLEAN

\* init_conf; Listen_port, Log_size and Magic_ui_num stand for others too.
Defaults == [k \in Items |->
  CASE k = "Listen_port"       -> 9110
    [] k = "Enable_merge_stat" -> 0
    [] k = "Top_pid_num"       -> 10
    [] k = "Log_size"          -> 64000000
    [] k = "Title_length"      -> 0
    [] k = "High_light_length" -> 256
    [] k = "Def_search_sort"   -> SEARCH_SORT_DEF
    [] k = "Magic_ui_num"      -> 0]

ConfInit == conf = Defaults /\ conf_lines = <<>> /\ nread = 0 /\ conf_loaded = FALSE

-----------------------------------------------------------------------------
\* The values the checks accept, and what they put in place of others.
Acceptable(item, v) ==
  CASE item \in {"Title_length", "High_light_length"} -> v >= 0
    [] item = "Def_search_sort" -> v \in SEARCH_SORT_MIN..SEARCH_SORT_MAX
    [] OTHER -> TRUE
Fallback(item) == IF item = "Def_search_sort" THEN SEARCH_SORT_DEF ELSE 0

\* Mutants: each check stands one name further down; merging is not switched
\* off.
CheckedLate(c, n) ==
  [k \in Items |->
     IF k = "Enable_merge_stat" /\ n > Place("Top_pid_num") /\ c["Top_pid_num"] < 1
       THEN 0
       ELSE IF n > Place(k) + 1 /\ ~Acceptable(k, c[k]) THEN Fallback(k) ELSE c[k]]
CheckedNoMerge(c, n) ==
  [k \in Items |->
     IF n > Place(k) /\ ~Acceptable(k, c[k]) THEN Fallback(k) ELSE c[k]]

\* The configuration after the checks that stand before the n-th name.
Checked(c, n) ==
  [k \in Items |->
     IF k = "Enable_merge_stat" /\ n > Place("Top_pid_num") /\ c["Top_pid_num"] < 1
       THEN 0
       ELSE IF n > Place(k) /\ ~Acceptable(k, c[k]) THEN Fallback(k) ELSE c[k]]

\* Mutant: the number is stored as it is.
StoredAsInt(key, v) == v

\* enable_merge_stat is a bool.
Stored(key, v) == IF key = "Enable_merge_stat" /\ v # 0 THEN 1 ELSE v

\* assign_conf_item.
Assign(c, key, v) ==
  LET checked == Checked(c, Place(key))
  IN  IF key \in Items THEN [checked EXCEPT ![key] = Stored(key, v)] ELSE checked

\* One round of the loop of async_load_conf.
ReadLine(form, key, v) ==
  /\ ~conf_loaded /\ nread < ConfLines
  /\ nread' = nread + 1
  /\ \/ /\ form \in Understood
        /\ conf' = Assign(conf, key, v)
        /\ conf_lines' = Append(conf_lines, [key |-> key, value |-> v])
     \/ form \notin Understood /\ UNCHANGED <<conf, conf_lines>>
  /\ UNCHANGED conf_loaded

EndOfFile == ~conf_loaded /\ conf_loaded' = TRUE /\ UNCHANGED <<conf, conf_lines, nread>>

ConfNext ==
  \/ \E form \in Forms, key \in Keys, v \in Values : ReadLine(form, key, v)
  \/ EndOfFile

ConfSpec == ConfInit /\ [][ConfNext]_confVars

-----------------------------------------------------------------------------
\* The value the file gives an item: the last line's, or else the default; and
\* whether that value was followed by a line that got beyond place n.
LinesOf(key) == {i \in DOMAIN conf_lines : conf_lines[i].key = key}
LastLine(key) == Max(LinesOf(key) \cup {0})
Given(key) == IF LastLine(key) = 0 THEN Defaults[key]
              ELSE Stored(key, conf_lines[LastLine(key)].value)
PassedSince(i, n) == \E j \in DOMAIN conf_lines : j > i /\ Place(conf_lines[j].key) > n

\* assign_conf_item, Title_length to Def_search_sort: an unacceptable value is
\* in force exactly when no line after the one that gave it was compared with
\* a later name; every other item has the value the file gives it last.
ChecksAsWritten ==
  \A k \in Items \ {"Enable_merge_stat"} :
    conf[k] = IF ~Acceptable(k, Given(k)) /\ PassedSince(LastLine(k), Place(k))
                THEN Fallback(k) ELSE Given(k)

\* assign_conf_item, Enable_merge_stat and Top_pid_num: merging is off although
\* the file asked for it last exactly when some later line got past Top_pid_num
\* while the number of pids was below 1, even if that number was raised since.
PidsAt(i) ==
  LET last == Max({j \in LinesOf("Top_pid_num") : j < i} \cup {0})
  IN  IF last = 0 THEN Defaults["Top_pid_num"] ELSE conf_lines[last].value
MergeStatSticksOff ==
  conf["Enable_merge_stat"] =
    IF \E i \in DOMAIN conf_lines :
         /\ i > LastLine("Enable_merge_stat")
         /\ Place(conf_lines[i].key) > Place("Top_pid_num")
         /\ PidsAt(i) < 1
      THEN 0 ELSE Given("Enable_merge_stat")
=============================================================================
