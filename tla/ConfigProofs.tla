---------------------------- MODULE ConfigProofs ----------------------------
(***************************************************************************)
(* Theorems about the configuration files: ui.conf (Conf), for any file of *)
(* any length, and the server and group files (ServerConf), for any sizes  *)
(* of the arrays.                                                          *)
(***************************************************************************)
EXTENDS Conf, ServerConf, Lemmas

(***************************************************************************)
(* ui.conf.                                                                *)
(***************************************************************************)
LEMMA Places ==
  /\ \A key : Place(key) \in Nat
  /\ "Enable_merge_stat" \in Items /\ "Top_pid_num" \in Items
<1>1. \A i \in DOMAIN Chain : i \in Nat
  BY DEF Chain
<1>2. \A key \in Items : \E i \in DOMAIN Chain : Chain[i] = key
  BY DEF Items
<1>3. \A key \in Items : Place(key) \in DOMAIN Chain
  BY <1>2, Zenon DEF Place
<1>4. \A key : key \notin Items => Place(key) = Len(Chain) + 1
  BY Zenon DEF Place
<1>5. Len(Chain) + 1 \in Nat
  BY DEF Chain
<1>6. Chain[2] = "Enable_merge_stat" /\ Chain[3] = "Top_pid_num"
      /\ 2 \in DOMAIN Chain /\ 3 \in DOMAIN Chain
  BY DEF Chain
<1>7. "Enable_merge_stat" \in Items /\ "Top_pid_num" \in Items
  BY <1>6, Zenon DEF Items
<1> QED BY <1>1, <1>3, <1>4, <1>5, <1>7

\* What a line may become, and what takes the place of a value refused.
LEMMA CheckedValues ==
  ASSUME NEW c \in [Items -> Int], c["Enable_merge_stat"] \in {0, 1}, NEW n \in Nat
  PROVE  /\ Checked(c, n) \in [Items -> Int]
         /\ Checked(c, n)["Enable_merge_stat"] \in {0, 1}
         /\ \A k \in Items \ {"Enable_merge_stat"} :
              Checked(c, n)[k] = IF n > Place(k) /\ ~Acceptable(k, c[k])
                                   THEN Fallback(k) ELSE c[k]
         /\ Checked(c, n)["Enable_merge_stat"] =
              IF n > Place("Top_pid_num") /\ c["Top_pid_num"] < 1
                THEN 0 ELSE c["Enable_merge_stat"]
<1>1. "Enable_merge_stat" \in Items
  BY Places
<1>2. \A k : Fallback(k) \in Int
  BY DEF Fallback, SEARCH_SORT_DEF
<1>3. \A v : Acceptable("Enable_merge_stat", v)
  BY DEF Acceptable
<1>4. Checked(c, n) = [k \in Items |->
        IF k = "Enable_merge_stat" /\ n > Place("Top_pid_num") /\ c["Top_pid_num"] < 1
          THEN 0
          ELSE IF n > Place(k) /\ ~Acceptable(k, c[k]) THEN Fallback(k) ELSE c[k]]
  BY DEF Checked
<1>5. Checked(c, n) \in [Items -> Int]
  BY <1>2, <1>4
<1>6. \A k \in Items \ {"Enable_merge_stat"} :
        Checked(c, n)[k] = IF n > Place(k) /\ ~Acceptable(k, c[k])
                             THEN Fallback(k) ELSE c[k]
  BY <1>4
<1>7. Checked(c, n)["Enable_merge_stat"] =
        IF n > Place("Top_pid_num") /\ c["Top_pid_num"] < 1
          THEN 0 ELSE c["Enable_merge_stat"]
  BY <1>1, <1>3, <1>4
<1> QED BY <1>5, <1>6, <1>7

LEMMA FallbackAccepted == \A k : Acceptable(k, Fallback(k))
BY DEF Acceptable, Fallback, SEARCH_SORT_DEF, SEARCH_SORT_MIN, SEARCH_SORT_MAX

\* A line that is understood, and what it makes of the configuration.
LEMMA LineAssigned ==
  ASSUME ConfTypeOK, NEW key \in Keys, NEW v \in Values, conf' = Assign(conf, key, v)
  PROVE  /\ conf' \in [Items -> Int] /\ conf["Enable_merge_stat"]' \in {0, 1}
         /\ \A k \in Items : conf'[k] = IF key = k THEN Stored(k, v)
                                        ELSE Checked(conf, Place(key))[k]
<1> DEFINE checked == Checked(conf, Place(key))
<1>1. checked \in [Items -> Int] /\ checked["Enable_merge_stat"] \in {0, 1}
  BY Places, CheckedValues DEF ConfTypeOK
<1>2. v \in Int
  BY ConfAssumption
<1>3. Stored(key, v) \in Int /\ (key = "Enable_merge_stat" => Stored(key, v) \in {0, 1})
  BY <1>2 DEF Stored
<1>4. conf' = IF key \in Items THEN [checked EXCEPT ![key] = Stored(key, v)] ELSE checked
  BY DEF Assign
<1>5. \A k \in Items : conf'[k] = IF key = k THEN Stored(k, v) ELSE checked[k]
  <2> HIDE DEF checked
  <2> QED BY <1>1, <1>4
<1>6. conf' \in [Items -> Int]
  <2> HIDE DEF checked
  <2> QED BY <1>1, <1>3, <1>4
<1>7. conf'["Enable_merge_stat"] \in {0, 1}
  <2> HIDE DEF checked
  <2> QED BY <1>1, <1>3, <1>5, Places
<1> QED BY <1>5, <1>6, <1>7

\* init_conf gives every item a number.
LEMMA DefaultsSet ==
  Defaults \in [Items -> Int] /\ Defaults["Enable_merge_stat"] = 0
<1>1. \A i \in DOMAIN Chain : i \in 1..8
  BY SMT DEF Chain
<1>2. \A i \in 1..8 : Chain[i] \in
        {"Listen_port", "Enable_merge_stat", "Top_pid_num", "Log_size",
         "Title_length", "High_light_length", "Def_search_sort", "Magic_ui_num"}
  BY SMT DEF Chain
<1>3. \A k \in Items : k \in
        {"Listen_port", "Enable_merge_stat", "Top_pid_num", "Log_size",
         "Title_length", "High_light_length", "Def_search_sort", "Magic_ui_num"}
  BY <1>1, <1>2, Zenon DEF Items
<1> DEFINE value(k) == CASE k = "Listen_port"       -> 9110
                          [] k = "Enable_merge_stat" -> 0
                          [] k = "Top_pid_num"       -> 10
                          [] k = "Log_size"          -> 64000000
                          [] k = "Title_length"      -> 0
                          [] k = "High_light_length" -> 256
                          [] k = "Def_search_sort"   -> SEARCH_SORT_DEF
                          [] k = "Magic_ui_num"      -> 0
<1>4. \A k \in Items : value(k) \in Int
  BY <1>3, SMT DEF SEARCH_SORT_DEF
<1>5. Defaults = [k \in Items |-> value(k)]
  BY SMT DEF Defaults
<1>6. value("Enable_merge_stat") = 0
  BY SMT
<1> HIDE DEF value
<1> QED BY <1>4, <1>5, <1>6, Places, SMT

\* load_conf: ui.conf's items keep their types, and enable_merge_stat is a bool.
THEOREM ConfTypeCorrect == ConfSpec => []ConfTypeOK
<1>1. ConfInit => ConfTypeOK
  <2>1. Defaults \in [Items -> Int] /\ Defaults["Enable_merge_stat"] = 0
    BY DefaultsSet
  <2>2. 0 \in 0..ConfLines /\ << >> \in Seq([key : Keys, value : Values])
    BY ConfAssumption
  <2> QED BY <2>1, <2>2 DEF ConfInit, ConfTypeOK
<1>2. ASSUME ConfTypeOK, [ConfNext]_confVars
      PROVE  ConfTypeOK'
  <2>1. CASE UNCHANGED confVars
    BY <1>2, <2>1 DEF ConfTypeOK, confVars
  <2>2. CASE EndOfFile
    BY <1>2, <2>2 DEF ConfTypeOK, EndOfFile
  <2>3. ASSUME NEW form \in Forms, NEW key \in Keys, NEW v \in Values,
               ReadLine(form, key, v)
        PROVE  ConfTypeOK'
    <3>1. nread' \in 0..ConfLines /\ conf_loaded' \in BOOLEAN
      BY <1>2, <2>3, ConfAssumption DEF ConfTypeOK, ReadLine
    <3>2. CASE form \in Understood
      <4>1. conf' = Assign(conf, key, v)
            /\ conf_lines' = Append(conf_lines, [key |-> key, value |-> v])
        BY <2>3, <3>2 DEF ReadLine
      <4>2. conf' \in [Items -> Int] /\ conf["Enable_merge_stat"]' \in {0, 1}
        BY <1>2, <4>1, LineAssigned
      <4>3. conf_lines' \in Seq([key : Keys, value : Values])
        BY <1>2, <4>1 DEF ConfTypeOK
      <4> QED BY <3>1, <4>2, <4>3 DEF ConfTypeOK
    <3>3. CASE form \notin Understood
      BY <1>2, <2>3, <3>1, <3>3 DEF ConfTypeOK, ReadLine
    <3> QED BY <3>2, <3>3
  <2> QED BY <1>2, <2>1, <2>2, <2>3 DEF ConfNext
<1> QED BY <1>1, <1>2, PTL DEF ConfSpec

\* The lines read so far keep their places when another is added.
LEMMA LinesGrow ==
  ASSUME ConfTypeOK, NEW key \in Keys, NEW v \in Values,
         conf_lines' = Append(conf_lines, [key |-> key, value |-> v])
  PROVE  /\ Len(conf_lines) \in Nat /\ DOMAIN conf_lines = 1..Len(conf_lines)
         /\ DOMAIN conf_lines' = 1..(Len(conf_lines) + 1)
         /\ \A i \in 1..Len(conf_lines) : conf_lines'[i] = conf_lines[i]
         /\ conf_lines'[Len(conf_lines) + 1] = [key |-> key, value |-> v]
BY DEF ConfTypeOK

\* The last line about an item is one of the lines, if it is not 0.
LEMMA LastLineIs ==
  ASSUME ConfTypeOK, NEW k
  PROVE  /\ LastLine(k) \in LinesOf(k) \cup {0}
         /\ \A i \in LinesOf(k) : i <= LastLine(k)
         /\ LastLine(k) \in 0..Len(conf_lines)
<1> DEFINE S == LinesOf(k) \cup {0}
<1>1. Len(conf_lines) \in Nat /\ S \in SUBSET (0..Len(conf_lines)) /\ S # {}
  BY DEF LinesOf, ConfTypeOK
<1>2. Max(S) \in S /\ \A j \in S : j <= Max(S)
  <2> HIDE DEF S
  <2> QED BY <1>1, MaxOf
<1>3. LastLine(k) = Max(S)
  BY DEF LastLine
<1> QED BY <1>1, <1>2, <1>3

\* How a line that is understood changes the last line of each item.
LEMMA LastLineNext ==
  ASSUME ConfTypeOK, NEW key \in Keys, NEW v \in Values,
         conf_lines' = Append(conf_lines, [key |-> key, value |-> v]), NEW k
  PROVE  LastLine(k)' = IF key = k THEN Len(conf_lines) + 1 ELSE LastLine(k)
<1> DEFINE n == Len(conf_lines)
<1>1. n \in Nat
  BY LinesGrow
<1>2. CASE key # k
  <2>1. LinesOf(k)' = LinesOf(k)
    BY <1>2, LinesGrow DEF LinesOf
  <2> QED BY <1>2, <2>1 DEF LastLine
<1>3. CASE key = k
  <2> DEFINE S == LinesOf(k)' \cup {0}
  <2>1. S \in SUBSET (0..(n + 1)) /\ n + 1 \in S
    BY <1>3, LinesGrow DEF LinesOf
  <2>2. n + 1 \in Nat /\ \A j \in S : j <= n + 1
    BY <1>1, <2>1
  <2>3. Max(S) = n + 1
    <3> HIDE DEF S, n
    <3> QED BY <2>1, <2>2, MaxIs
  <2> QED BY <1>3, <2>3 DEF LastLine
<1> QED BY <1>2, <1>3

\* How it changes the value the file gives each item.
LEMMA GivenNext ==
  ASSUME ConfTypeOK, NEW key \in Keys, NEW v \in Values,
         conf_lines' = Append(conf_lines, [key |-> key, value |-> v]), NEW k
  PROVE  Given(k)' = IF key = k THEN Stored(k, v) ELSE Given(k)
<1>1. LastLine(k)' = IF key = k THEN Len(conf_lines) + 1 ELSE LastLine(k)
  BY LastLineNext
<1>2. LastLine(k) \in 0..Len(conf_lines)
  BY LastLineIs
<1>3. Given(k)' = IF LastLine(k)' = 0 THEN Defaults[k]
                  ELSE Stored(k, conf_lines'[LastLine(k)'].value)
  BY DEF Given
<1>4. CASE key = k
  BY <1>1, <1>3, <1>4, LinesGrow
<1>5. CASE key # k /\ LastLine(k) = 0
  BY <1>1, <1>3, <1>5 DEF Given
<1>6. CASE key # k /\ LastLine(k) # 0
  <2>1. LastLine(k) \in 1..Len(conf_lines)
    BY <1>2, <1>6, LinesGrow
  <2>2. conf_lines'[LastLine(k)] = conf_lines[LastLine(k)]
    BY <2>1, LinesGrow
  <2> QED BY <1>1, <1>3, <1>6, <2>2 DEF Given
<1> QED BY <1>4, <1>5, <1>6

\* What a line that is understood does to the value of an item other than
\* Enable_merge_stat.
LEMMA LineChecksAsWritten ==
  ASSUME ConfTypeOK, ChecksAsWritten, NEW key \in Keys, NEW v \in Values,
         conf' = Assign(conf, key, v),
         conf_lines' = Append(conf_lines, [key |-> key, value |-> v])
  PROVE  ChecksAsWritten'
<1> DEFINE n == Len(conf_lines)
<1> SUFFICES ASSUME NEW k \in Items \ {"Enable_merge_stat"}
             PROVE  conf'[k] = IF /\ ~Acceptable(k, Given(k)')
                                  /\ PassedSince(LastLine(k), Place(k))'
                                 THEN Fallback(k) ELSE Given(k)'
  BY DEF ChecksAsWritten
<1>1. conf[k] = IF ~Acceptable(k, Given(k)) /\ PassedSince(LastLine(k), Place(k))
                  THEN Fallback(k) ELSE Given(k)
  BY DEF ChecksAsWritten
<1>2. /\ LastLine(k)' = IF key = k THEN n + 1 ELSE LastLine(k)
      /\ Given(k)' = IF key = k THEN Stored(k, v) ELSE Given(k)
  BY LastLineNext, GivenNext
<1>3. /\ n \in Nat /\ LastLine(k) \in 0..n
      /\ DOMAIN conf_lines = 1..n /\ DOMAIN conf_lines' = 1..(n + 1)
      /\ \A i \in 1..n : conf_lines'[i] = conf_lines[i]
      /\ conf_lines'[n + 1].key = key
  BY LinesGrow, LastLineIs
<1>4. PassedSince(LastLine(k), Place(k))' <=>
        \E j \in 1..(n + 1) : j > LastLine(k)' /\ Place(conf_lines'[j].key) > Place(k)
  BY <1>3 DEF PassedSince
<1>5. PassedSince(LastLine(k), Place(k)) <=>
        \E j \in 1..n : j > LastLine(k) /\ Place(conf_lines[j].key) > Place(k)
  BY <1>3 DEF PassedSince
<1>6. CASE key = k
  <2>1. conf'[k] = Stored(k, v)
    BY <1>6, LineAssigned
  <2>2. ~PassedSince(LastLine(k), Place(k))'
    <3> HIDE DEF n
    <3> QED BY <1>2, <1>3, <1>4, <1>6
  <2> QED BY <1>2, <1>6, <2>1, <2>2
<1>7. CASE key # k
  <2>1. conf'[k] = IF Place(key) > Place(k) /\ ~Acceptable(k, conf[k])
                     THEN Fallback(k) ELSE conf[k]
    <3>1. conf'[k] = Checked(conf, Place(key))[k]
      BY <1>7, LineAssigned
    <3> QED BY <3>1, CheckedValues, Places DEF ConfTypeOK
  <2>2. PassedSince(LastLine(k), Place(k))' <=>
          PassedSince(LastLine(k), Place(k)) \/ Place(key) > Place(k)
    <3> HIDE DEF n
    <3>1. \A j \in 1..(n + 1) : j \in 1..n \/ j = n + 1
      BY <1>3
    <3>2. \A j \in 1..n : j \in 1..(n + 1)
      BY <1>3
    <3>3. n + 1 \in 1..(n + 1) /\ n + 1 > LastLine(k)
      BY <1>3
    <3>4. LastLine(k)' = LastLine(k)
      BY <1>2, <1>7
    <3> QED BY <1>3, <1>4, <1>5, <3>1, <3>2, <3>3, <3>4
  <2>3. Acceptable(k, Fallback(k))
    BY FallbackAccepted
  <2>4. Given(k)' = Given(k)
    BY <1>2, <1>7
  <2> QED BY <1>1, <2>1, <2>2, <2>3, <2>4
<1> QED BY <1>6, <1>7

\* The number of pids that a line of the file found.
LEMMA PidsNext ==
  ASSUME ConfTypeOK, ChecksAsWritten, NEW key \in Keys, NEW v \in Values,
         conf_lines' = Append(conf_lines, [key |-> key, value |-> v])
  PROVE  /\ \A i \in 1..Len(conf_lines) : PidsAt(i)' = PidsAt(i)
         /\ \A i : i = Len(conf_lines) + 1 => PidsAt(i)' = conf["Top_pid_num"]
<1> DEFINE n == Len(conf_lines)
           Before(i) == {j \in LinesOf("Top_pid_num") : j < i}
           BeforeNext(i) == {j \in LinesOf("Top_pid_num")' : j < i}
           last(i) == Max(Before(i) \cup {0})
<1>1. /\ n \in Nat
      /\ DOMAIN conf_lines = 1..n /\ DOMAIN conf_lines' = 1..(n + 1)
      /\ \A i \in 1..n : conf_lines'[i] = conf_lines[i]
  BY LinesGrow
<1>2. /\ LinesOf("Top_pid_num") = {i \in 1..n : conf_lines[i].key = "Top_pid_num"}
      /\ LinesOf("Top_pid_num")' =
           {i \in 1..(n + 1) : conf_lines'[i].key = "Top_pid_num"}
  BY <1>1 DEF LinesOf
<1>3. ASSUME NEW i \in 1..(n + 1)
      PROVE  /\ BeforeNext(i) = Before(i)
             /\ last(i) \in 1..n \/ last(i) = 0
  <2>1. BeforeNext(i) = Before(i)
    <3> HIDE DEF n
    <3>1. \A j \in 1..(n + 1) : j < i => j \in 1..n
      BY <1>1
    <3>2. \A j \in 1..n : j \in 1..(n + 1)
      BY <1>1
    <3> QED BY <1>1, <1>2, <3>1, <3>2
  <2> DEFINE S == Before(i) \cup {0}
  <2>2. S \in SUBSET (0..n) /\ S # {}
    <3> HIDE DEF n
    <3> QED BY <1>1, <1>2
  <2>3. Max(S) \in S
    <3> HIDE DEF S, n
    <3> QED BY <1>1, <2>2, MaxOf
  <2>4. last(i) \in Before(i) \/ last(i) = 0
    BY <2>3
  <2> QED BY <2>1, <2>4, <1>2
<1>4. /\ \A i : PidsAt(i) = IF last(i) = 0 THEN Defaults["Top_pid_num"]
                            ELSE conf_lines[last(i)].value
      /\ \A i : PidsAt(i)' = IF Max(BeforeNext(i) \cup {0}) = 0
                               THEN Defaults["Top_pid_num"]
                               ELSE conf_lines'[Max(BeforeNext(i) \cup {0})].value
  BY DEF PidsAt
<1>5. \A i \in 1..(n + 1) : PidsAt(i)' = IF last(i) = 0 THEN Defaults["Top_pid_num"]
                                         ELSE conf_lines[last(i)].value
  <2> TAKE i \in 1..(n + 1)
  <2>1. PidsAt(i)' = IF last(i) = 0 THEN Defaults["Top_pid_num"]
                     ELSE conf_lines'[last(i)].value
    BY <1>3, <1>4
  <2>2. last(i) = 0 \/ conf_lines'[last(i)] = conf_lines[last(i)]
    BY <1>1, <1>3
  <2> QED BY <2>1, <2>2
<1>6. \A i \in 1..n : PidsAt(i)' = PidsAt(i)
  <2>1. \A i \in 1..n : i \in 1..(n + 1)
    BY <1>1
  <2> QED BY <1>4, <1>5, <2>1
<1>7. Before(n + 1) = LinesOf("Top_pid_num")
  <2> HIDE DEF n
  <2>1. \A j \in 1..n : j < n + 1
    BY <1>1
  <2> QED BY <1>2, <2>1
<1>8. last(n + 1) = LastLine("Top_pid_num")
  BY <1>7 DEF LastLine
<1>9. ASSUME NEW i, i = n + 1
      PROVE  PidsAt(i)' = Given("Top_pid_num")
  <2>1. n + 1 \in 1..(n + 1)
    BY <1>1
  <2>2. \A w : Stored("Top_pid_num", w) = w
    BY DEF Stored
  <2>3. Given("Top_pid_num") = IF last(n + 1) = 0 THEN Defaults["Top_pid_num"]
                               ELSE conf_lines[last(n + 1)].value
    <3> HIDE DEF last
    <3> QED BY <1>8, <2>2 DEF Given
  <2> HIDE DEF last, n
  <2> QED BY <1>5, <1>9, <2>1, <2>3
<1>10. conf["Top_pid_num"] = Given("Top_pid_num")
  <2>1. \A v0 : Acceptable("Top_pid_num", v0)
    BY DEF Acceptable
  <2> QED BY <2>1, Places DEF ChecksAsWritten
<1> QED BY <1>6, <1>9, <1>10

\* What it does to Enable_merge_stat.
LEMMA LineMerges ==
  ASSUME ConfTypeOK, ChecksAsWritten, MergeStatSticksOff,
         NEW key \in Keys, NEW v \in Values, conf' = Assign(conf, key, v),
         conf_lines' = Append(conf_lines, [key |-> key, value |-> v])
  PROVE  MergeStatSticksOff'
<1> DEFINE n == Len(conf_lines)
           E == "Enable_merge_stat"
           T == "Top_pid_num"
           Off(i) == i > LastLine(E) /\ Place(conf_lines[i].key) > Place(T) /\ PidsAt(i) < 1
           OffNext(i) == /\ i > LastLine(E)' /\ Place(conf_lines'[i].key) > Place(T)
                         /\ PidsAt(i)' < 1
<1>1. /\ n \in Nat /\ LastLine(E) \in 0..n
      /\ DOMAIN conf_lines = 1..n /\ DOMAIN conf_lines' = 1..(n + 1)
      /\ \A i \in 1..n : conf_lines'[i] = conf_lines[i]
      /\ conf_lines'[n + 1].key = key
  BY LinesGrow, LastLineIs
<1>2. /\ LastLine(E)' = IF key = E THEN n + 1 ELSE LastLine(E)
      /\ Given(E)' = IF key = E THEN Stored(E, v) ELSE Given(E)
  BY LastLineNext, GivenNext
<1>3. /\ \A i \in 1..n : PidsAt(i)' = PidsAt(i)
      /\ \A i : i = n + 1 => PidsAt(i)' = conf[T]
  BY PidsNext
<1>4. conf[E] = IF \E i \in 1..n : Off(i) THEN 0 ELSE Given(E)
  BY <1>1 DEF MergeStatSticksOff
<1>5. MergeStatSticksOff' <=>
        conf'[E] = IF \E i \in 1..(n + 1) : OffNext(i) THEN 0 ELSE Given(E)'
  BY <1>1 DEF MergeStatSticksOff
<1>6. CASE key = E
  <2>1. conf'[E] = Stored(E, v)
    BY <1>6, LineAssigned, Places
  <2>2. \A i \in 1..(n + 1) : ~OffNext(i)
    <3>1. \A i \in 1..(n + 1) : ~(i > n + 1)
      BY <1>1
    <3> QED BY <1>2, <1>6, <3>1
  <2> QED BY <1>2, <1>5, <1>6, <2>1, <2>2
<1>7. CASE key # E
  <2>1. conf'[E] = IF Place(key) > Place(T) /\ conf[T] < 1 THEN 0 ELSE conf[E]
    <3>1. conf'[E] = Checked(conf, Place(key))[E]
      BY <1>7, LineAssigned, Places
    <3> QED BY <3>1, CheckedValues, Places DEF ConfTypeOK
  <2>2. LastLine(E)' = LastLine(E) /\ Given(E)' = Given(E)
    BY <1>2, <1>7
  <2>3. \A i \in 1..n : OffNext(i) <=> Off(i)
    BY <1>1, <1>3, <2>2
  <2>4. ASSUME NEW i, i = n + 1
        PROVE  OffNext(i) <=> Place(key) > Place(T) /\ conf[T] < 1
    <3>1. i > LastLine(E)
      <4> HIDE DEF n
      <4> QED BY <1>1, <2>4
    <3> QED BY <1>1, <1>3, <2>2, <2>4, <3>1
  <2>5. (\E i \in 1..(n + 1) : OffNext(i)) <=>
          (\E i \in 1..n : Off(i)) \/ (Place(key) > Place(T) /\ conf[T] < 1)
    <3>1. \A i \in 1..(n + 1) : i \in 1..n \/ i = n + 1
      BY <1>1
    <3>2. n + 1 \in 1..(n + 1) /\ \A i \in 1..n : i \in 1..(n + 1)
      BY <1>1
    <3> HIDE DEF Off, OffNext, n
    <3> QED BY <2>3, <2>4, <3>1, <3>2
  <2> HIDE DEF Off, OffNext, n
  <2> QED BY <1>4, <1>5, <2>1, <2>2, <2>5
<1> QED BY <1>6, <1>7

\* load_conf: whatever the file, an item has the value the file gives it last,
\* but for one that was refused and for merging that was switched off: exactly
\* those values that some later line checked.
ConfInvariant == ConfTypeOK /\ ChecksAsWritten /\ MergeStatSticksOff

LEMMA ConfInvariantHolds == ConfSpec => []ConfInvariant
<1>1. ConfInit => ConfInvariant
  <2> SUFFICES ASSUME ConfInit PROVE ConfInvariant
    OBVIOUS
  <2>1. ConfTypeOK
    <3>1. 0 \in 0..ConfLines /\ << >> \in Seq([key : Keys, value : Values])
      BY ConfAssumption
    <3> QED BY <3>1, DefaultsSet DEF ConfInit, ConfTypeOK
  <2>2. conf = Defaults /\ DOMAIN conf_lines = {}
    BY DEF ConfInit
  <2>3. \A k : LinesOf(k) = {}
    BY <2>2 DEF LinesOf
  <2>4. \A k : LastLine(k) = 0
    <3>1. 0 \in Nat /\ {0} \in SUBSET (0..0) /\ 0 \in {0} /\ \A j \in {0} : j <= 0
      OBVIOUS
    <3>2. Max({0}) = 0
      BY <3>1, MaxIs
    <3> QED BY <2>3, <3>2 DEF LastLine
  <2>5. \A k : Given(k) = Defaults[k]
    BY <2>4 DEF Given
  <2>6. ChecksAsWritten
    BY <2>2, <2>5, Zenon DEF ChecksAsWritten, PassedSince
  <2>7. MergeStatSticksOff
    BY <2>2, <2>5, Zenon DEF MergeStatSticksOff
  <2> QED BY <2>1, <2>6, <2>7 DEF ConfInvariant
<1>2. ASSUME ConfInvariant, ConfTypeOK', [ConfNext]_confVars
      PROVE  ConfInvariant'
  <2>1. ASSUME UNCHANGED <<conf, conf_lines>>
        PROVE  ChecksAsWritten' /\ MergeStatSticksOff'
    <3>1. \A k : LinesOf(k)' = LinesOf(k)
      BY <2>1 DEF LinesOf
    <3>2. \A k : LastLine(k)' = LastLine(k)
      BY <3>1 DEF LastLine
    <3>3. \A k : Given(k)' = Given(k)
      BY <2>1, <3>2 DEF Given
    <3>4. \A i : PidsAt(i)' = PidsAt(i)
      BY <2>1, <3>1 DEF PidsAt
    <3>5. \A k, p : PassedSince(LastLine(k), p)' = PassedSince(LastLine(k), p)
      BY <2>1, <3>2 DEF PassedSince
    <3>6. ChecksAsWritten'
      BY <1>2, <2>1, <3>3, <3>5 DEF ConfInvariant, ChecksAsWritten
    <3>7. MergeStatSticksOff'
      BY <1>2, <2>1, <3>2, <3>3, <3>4 DEF ConfInvariant, MergeStatSticksOff
    <3> QED BY <3>6, <3>7
  <2>2. CASE UNCHANGED confVars
    BY <1>2, <2>1, <2>2 DEF confVars, ConfInvariant
  <2>3. CASE EndOfFile
    BY <1>2, <2>1, <2>3 DEF EndOfFile, ConfInvariant
  <2>4. ASSUME NEW form \in Forms, NEW key \in Keys, NEW v \in Values,
               ReadLine(form, key, v)
        PROVE  ConfInvariant'
    <3>1. CASE form \in Understood
      <4>1. conf' = Assign(conf, key, v)
            /\ conf_lines' = Append(conf_lines, [key |-> key, value |-> v])
        BY <2>4, <3>1 DEF ReadLine
      <4> QED BY <1>2, <4>1, LineChecksAsWritten, LineMerges DEF ConfInvariant
    <3>2. CASE form \notin Understood
      BY <1>2, <2>1, <2>4, <3>2 DEF ReadLine, ConfInvariant
    <3> QED BY <3>1, <3>2
  <2> QED BY <1>2, <2>2, <2>3, <2>4 DEF ConfNext
<1> QED BY <1>1, <1>2, ConfTypeCorrect, PTL DEF ConfSpec

\* ChecksAsWritten and MergeStatSticksOff, for a file of any length.
THEOREM ChecksAsWrittenHolds == ConfSpec => []ChecksAsWritten
BY ConfInvariantHolds, PTL DEF ConfInvariant

\* Merging stays off once it was switched off for want of pids, until the file
\* asks for it again; and it is off for no other reason.
THEOREM MergeStatSticksOffHolds == ConfSpec => []MergeStatSticksOff
BY ConfInvariantHolds, PTL DEF ConfInvariant

(***************************************************************************)
(* The table of rates.                                                     *)
(***************************************************************************)
\* The loop of server_conf_load has a table to show after every turn.
LEMMA TableExists ==
  ASSUME NEW n \in Nat
  PROVE  \E t : t = [i \in 0..n |-> IF i = 0 THEN g_rate ELSE Tabulate(t[i - 1], i - 1)]
<1> DEFINE IsTable(t, m) ==
      t = [i \in 0..m |-> IF i = 0 THEN g_rate ELSE Tabulate(t[i - 1], i - 1)]
           Without == {m \in Nat : ~ \E t : IsTable(t, m)}
<1>1. SUFFICES ASSUME Without # {} PROVE FALSE
  OBVIOUS
<1>2. PICK m \in Without : \A j \in Without : m <= j
  <2> HIDE DEF Without
  <2>1. Without \in SUBSET Nat
    BY DEF Without
  <2> QED BY <1>1, <2>1, LeastOf
<1>3. m \in Nat
  OBVIOUS
<1>4. CASE m = 0
  <2> DEFINE t == [i \in 0..0 |-> g_rate]
  <2>1. IsTable(t, 0)
    OBVIOUS
  <2> QED BY <1>4, <2>1
<1>5. CASE m # 0
  <2>1. m - 1 \in Nat /\ ~ (m <= m - 1)
    BY <1>3, <1>5
  <2>2. PICK s : IsTable(s, m - 1)
    BY <1>2, <2>1
  <2> DEFINE t == [i \in 0..m |-> IF i = m THEN Tabulate(s[m - 1], m - 1) ELSE s[i]]
  <2>3. ASSUME NEW i \in 0..m
        PROVE  t[i] = IF i = 0 THEN g_rate ELSE Tabulate(t[i - 1], i - 1)
    <3>1. CASE i = m
      <4>1. m - 1 \in 0..m /\ m - 1 # m
        BY <1>3, <1>5
      <4> QED BY <1>5, <3>1, <4>1
    <3>2. CASE i = 0
      BY <1>3, <1>5, <2>2, <3>2
    <3>3. CASE i # m /\ i # 0
      <4>1. i \in 0..(m - 1) /\ i - 1 \in 0..m /\ i - 1 # m
        BY <1>3, <3>3
      <4>2. s[i] = Tabulate(s[i - 1], i - 1)
        BY <2>2, <3>3, <4>1
      <4> QED BY <3>3, <4>1, <4>2
    <3> QED BY <3>1, <3>2, <3>3
  <2>4. IsTable(t, m)
    <3> DEFINE u == [i \in 0..m |-> IF i = 0 THEN g_rate ELSE Tabulate(t[i - 1], i - 1)]
    <3>1. \A i \in 0..m : t[i] = u[i]
      <4> HIDE DEF t
      <4> QED BY <2>3
    <3>2. t = u
      BY <3>1
    <3> QED BY <3>2
  <2> QED BY <2>4
<1> QED BY <1>4, <1>5

LEMMA TableSteps ==
  ASSUME NEW n \in Nat
  PROVE  \E t : /\ t[0] = g_rate /\ RateTable(n) = t[n]
                /\ \A i \in 1..n : t[i] = Tabulate(t[i - 1], i - 1)
<1> DEFINE IsTable(t) ==
      t = [i \in 0..n |-> IF i = 0 THEN g_rate ELSE Tabulate(t[i - 1], i - 1)]
           table == CHOOSE t : IsTable(t)
<1>1. IsTable(table)
  <2>1. \E t : IsTable(t)
    BY TableExists
  <2> HIDE DEF IsTable
  <2> QED BY <2>1
<1>2. RateTable(n) = table[n]
  BY DEF RateTable
<1>3. \A i \in 0..n : table[i] = IF i = 0 THEN g_rate ELSE Tabulate(table[i - 1], i - 1)
  <2> HIDE DEF table
  <2> QED BY <1>1
<1>4. \A i \in 1..n : table[i] = Tabulate(table[i - 1], i - 1)
  <2> HIDE DEF table
  <2>1. \A i \in 1..n : i \in 0..n /\ i # 0
    OBVIOUS
  <2> QED BY <1>3, <2>1
<1>5. table[0] = g_rate
  <2> HIDE DEF table
  <2> QED BY <1>3
<1> HIDE DEF table
<1> QED BY <1>2, <1>4, <1>5

\* What is known of the table after m turns: each of the first m groups stands
\* in it once, in the part that its rate puts it in, and the running totals are
\* apart by the rates.
Tables == [rate : Seq(Int), id : Seq(Int), nid : Seq(Int)]
PlacesOf(seq, g) == {k \in DOMAIN seq : seq[k] = g + 1}
Tabulated(t, m) ==
  /\ t \in Tables
  /\ Len(t.id) + Len(t.nid) = m /\ Len(t.rate) = Len(t.id)
  /\ \A k \in DOMAIN t.id : t.id[k] \in 1..m
  /\ \A k \in DOMAIN t.nid : t.nid[k] \in 1..m
  /\ \A g \in 0..(m - 1) :
       IF rate[g] > 0
         THEN /\ \E k \in DOMAIN t.id : PlacesOf(t.id, g) = {k}
              /\ PlacesOf(t.nid, g) = {}
         ELSE /\ \E k \in DOMAIN t.nid : PlacesOf(t.nid, g) = {k}
              /\ PlacesOf(t.id, g) = {}
  /\ \A k \in DOMAIN t.id :
       t.rate[k] - (IF k = 1 THEN 0 ELSE t.rate[k - 1]) = rate[t.id[k] - 1]

\* A place at the end of a sequence is a new one.
LEMMA PlacesGrow ==
  ASSUME NEW m \in Nat, NEW seq \in Seq(Int), \A k \in DOMAIN seq : seq[k] \in 1..m
  PROVE  /\ \A g \in 0..(m - 1) : PlacesOf(Append(seq, m + 1), g) = PlacesOf(seq, g)
         /\ PlacesOf(Append(seq, m + 1), m) = {Len(seq) + 1}
         /\ PlacesOf(seq, m) = {}
         /\ \A k \in DOMAIN Append(seq, m + 1) : Append(seq, m + 1)[k] \in 1..(m + 1)
<1> DEFINE longer == Append(seq, m + 1)
<1>1. /\ DOMAIN seq = 1..Len(seq) /\ Len(seq) \in Nat
      /\ DOMAIN longer = 1..(Len(seq) + 1)
      /\ \A k \in 1..Len(seq) : longer[k] = seq[k]
      /\ longer[Len(seq) + 1] = m + 1
  OBVIOUS
<1>2. \A k \in 1..(Len(seq) + 1) : k \in 1..Len(seq) \/ k = Len(seq) + 1
  BY <1>1
<1>3. \A k \in 1..Len(seq) : k \in 1..(Len(seq) + 1)
  BY <1>1
<1>4. \A g \in 0..(m - 1) : PlacesOf(longer, g) = PlacesOf(seq, g)
  <2> HIDE DEF longer
  <2>1. \A g \in 0..(m - 1) : m + 1 # g + 1
    OBVIOUS
  <2> QED BY <1>1, <1>2, <1>3, <2>1 DEF PlacesOf
<1>5. PlacesOf(seq, m) = {} /\ PlacesOf(longer, m) = {Len(seq) + 1}
  <2> HIDE DEF longer
  <2>1. \A k \in 1..Len(seq) : seq[k] # m + 1
    BY <1>1
  <2>2. Len(seq) + 1 \in 1..(Len(seq) + 1)
    BY <1>1
  <2> QED BY <1>1, <1>2, <1>3, <2>1, <2>2 DEF PlacesOf
<1>6. \A k \in DOMAIN longer : longer[k] \in 1..(m + 1)
  <2> HIDE DEF longer
  <2>1. 1..m \subseteq 1..(m + 1) /\ m + 1 \in 1..(m + 1)
    OBVIOUS
  <2> QED BY <1>1, <1>2, <2>1
<1> QED BY <1>4, <1>5, <1>6

\* An append leaves what was there.
LEMMA AppendedIs ==
  ASSUME NEW seq \in Seq(Int), NEW x \in Int
  PROVE  /\ DOMAIN seq = 1..Len(seq)
         /\ DOMAIN Append(seq, x) = 1..(Len(seq) + 1)
         /\ DOMAIN seq \subseteq DOMAIN Append(seq, x)
         /\ Len(seq) + 1 \in DOMAIN Append(seq, x)
         /\ \A k \in DOMAIN seq : Append(seq, x)[k] = seq[k]
         /\ Append(seq, x)[Len(seq) + 1] = x
<1>1. Len(seq) \in Nat /\ DOMAIN seq = 1..Len(seq)
  OBVIOUS
<1>2. DOMAIN Append(seq, x) = 1..(Len(seq) + 1)
  OBVIOUS
<1>3. \A k \in 1..Len(seq) : Append(seq, x)[k] = seq[k]
  OBVIOUS
<1>4. Append(seq, x)[Len(seq) + 1] = x
  BY <1>1
<1>5. \A n \in Nat : 1..n \subseteq 1..(n + 1) /\ n + 1 \in 1..(n + 1)
  OBVIOUS
<1> QED BY <1>1, <1>2, <1>3, <1>4, <1>5, Zenon

\* A turn of the loop.
LEMMA OneMoreGroup ==
  ASSUME NEW m \in Nat, rate[m] \in Int, NEW t, Tabulated(t, m)
  PROVE  Tabulated(Tabulate(t, m), m + 1)
<1> DEFINE total == IF t.rate = <<>> THEN 0 ELSE t.rate[Len(t.rate)]
           with == Append(t.rate, total + rate[m])
           id == Append(t.id, m + 1)
           nid == Append(t.nid, m + 1)
           s == Tabulate(t, m)
<1>1. /\ t.rate \in Seq(Int) /\ t.id \in Seq(Int) /\ t.nid \in Seq(Int)
      /\ t = [rate |-> t.rate, id |-> t.id, nid |-> t.nid]
      /\ Len(t.id) + Len(t.nid) = m /\ Len(t.rate) = Len(t.id)
  BY DEF Tabulated, Tables
<1>2. total \in Int
  BY <1>1
<1>3. /\ with \in Seq(Int) /\ id \in Seq(Int) /\ nid \in Seq(Int)
      /\ Len(with) = Len(t.rate) + 1 /\ Len(id) = Len(t.id) + 1
      /\ Len(nid) = Len(t.nid) + 1
      /\ Len(t.id) \in Nat /\ Len(t.nid) \in Nat
  BY <1>1, <1>2
<1>4. \A g \in 0..m : g \in 0..(m - 1) \/ g = m
  OBVIOUS
<1>5. /\ \A k \in DOMAIN t.id : t.id[k] \in 1..m
      /\ \A k \in DOMAIN t.nid : t.nid[k] \in 1..m
      /\ 1..m \subseteq 1..(m + 1)
  BY DEF Tabulated
<1>6. CASE rate[m] > 0
  <2>1. s = [rate |-> with, id |-> id, nid |-> t.nid]
    BY <1>1, <1>6 DEF Tabulate
  <2>2. /\ \A g \in 0..(m - 1) : PlacesOf(id, g) = PlacesOf(t.id, g)
        /\ PlacesOf(id, m) = {Len(t.id) + 1}
        /\ \A k \in DOMAIN id : id[k] \in 1..(m + 1)
        /\ PlacesOf(t.nid, m) = {}
    <3>1. \A seq \in Seq(Int) : (\A k \in DOMAIN seq : seq[k] \in 1..m) =>
            /\ \A g \in 0..(m - 1) : PlacesOf(Append(seq, m + 1), g) = PlacesOf(seq, g)
            /\ PlacesOf(Append(seq, m + 1), m) = {Len(seq) + 1}
            /\ PlacesOf(seq, m) = {}
            /\ \A k \in DOMAIN Append(seq, m + 1) : Append(seq, m + 1)[k] \in 1..(m + 1)
      BY PlacesGrow
    <3> QED BY <1>1, <1>5, <3>1
  <2>3. /\ DOMAIN t.id \subseteq DOMAIN id /\ Len(t.id) + 1 \in DOMAIN id
        /\ DOMAIN t.id = 1..Len(t.id) /\ DOMAIN id = 1..(Len(t.id) + 1)
    <3>1. m + 1 \in Int
      OBVIOUS
    <3> QED BY <1>1, <3>1, AppendedIs, Zenon
  <2>4. ASSUME NEW g \in 0..m
        PROVE  IF rate[g] > 0
                 THEN /\ \E k \in DOMAIN id : PlacesOf(id, g) = {k}
                      /\ PlacesOf(t.nid, g) = {}
                 ELSE /\ \E k \in DOMAIN t.nid : PlacesOf(t.nid, g) = {k}
                      /\ PlacesOf(id, g) = {}
    <3> HIDE DEF id
    <3>1. CASE g = m
      BY <1>6, <2>2, <2>3, <3>1
    <3>2. CASE g \in 0..(m - 1)
      BY <2>2, <2>3, <3>2 DEF Tabulated
    <3> QED BY <1>4, <3>1, <3>2
  <2>5. ASSUME NEW k \in DOMAIN id
        PROVE  with[k] - (IF k = 1 THEN 0 ELSE with[k - 1]) = rate[id[k] - 1]
    <3>1. CASE k = Len(t.id) + 1
      <4>1. with[k] = total + rate[m] /\ id[k] = m + 1
        BY <1>1, <1>2, <3>1
      <4>2. (IF k = 1 THEN 0 ELSE with[k - 1]) = total
        <5>1. CASE k = 1
          BY <1>1, <3>1, <5>1
        <5>2. CASE k # 1
          <6>1. k - 1 = Len(t.rate) /\ k - 1 \in 1..Len(t.rate)
            BY <1>1, <3>1, <5>2
          <6> QED BY <1>1, <1>2, <5>2, <6>1
        <5> QED BY <5>1, <5>2
      <4> HIDE DEF total, with, id
      <4> QED BY <1>2, <4>1, <4>2
    <3>2. CASE k # Len(t.id) + 1
      <4>1. k \in DOMAIN t.id /\ k \in 1..Len(t.rate)
        <5> HIDE DEF id, with
        <5> QED BY <1>1, <1>3, <2>3, <3>2
      <4>a. total + rate[m] \in Int /\ m + 1 \in Int
        <5> HIDE DEF total
        <5> QED BY <1>2
      <4>b. /\ DOMAIN t.rate = 1..Len(t.rate)
            /\ \A j \in DOMAIN t.rate : with[j] = t.rate[j]
            /\ \A j \in DOMAIN t.id : id[j] = t.id[j]
        BY <1>1, <4>a, AppendedIs, Zenon
      <4>2. with[k] = t.rate[k] /\ id[k] = t.id[k]
        BY <4>1, <4>b, Zenon
      <4>3. k # 1 => with[k - 1] = t.rate[k - 1]
        <5>1. k # 1 => k - 1 \in 1..Len(t.rate)
          <6> HIDE DEF with
          <6> QED BY <1>1, <4>1
        <5> QED BY <4>b, <5>1, Zenon
      <4> HIDE DEF with, id
      <4> QED BY <4>1, <4>2, <4>3 DEF Tabulated
    <3> QED BY <3>1, <3>2
  <2>6. \A k \in DOMAIN t.nid : t.nid[k] \in 1..(m + 1)
    BY <1>5
  <2>7. Len(id) + Len(t.nid) = m + 1 /\ Len(with) = Len(id)
    BY <1>1, <1>3
  <2> HIDE DEF with, id, s
  <2>8. s.id = id /\ s.nid = t.nid /\ s.rate = with /\ s \in Tables
    BY <1>1, <1>3, <2>1 DEF Tables
  <2>9. (m + 1) - 1 = m
    OBVIOUS
  <2>10. Tabulated(s, m + 1)
    <3>1. s \in Tables /\ Len(s.id) + Len(s.nid) = m + 1 /\ Len(s.rate) = Len(s.id)
      BY <2>7, <2>8
    <3>2. \A k \in DOMAIN s.id :
            s.rate[k] - (IF k = 1 THEN 0 ELSE s.rate[k - 1]) = rate[s.id[k] - 1]
      BY <2>5, <2>8
    <3>3. /\ \A k \in DOMAIN s.id : s.id[k] \in 1..(m + 1)
          /\ \A k \in DOMAIN s.nid : s.nid[k] \in 1..(m + 1)
      BY <2>2, <2>6, <2>8, Zenon
    <3>4. \A g \in 0..((m + 1) - 1) :
            IF rate[g] > 0
              THEN /\ \E k \in DOMAIN s.id : PlacesOf(s.id, g) = {k}
                   /\ PlacesOf(s.nid, g) = {}
              ELSE /\ \E k \in DOMAIN s.nid : PlacesOf(s.nid, g) = {k}
                   /\ PlacesOf(s.id, g) = {}
      BY <2>4, <2>8, <2>9, Zenon
    <3> QED BY <3>1, <3>2, <3>3, <3>4, Zenon DEF Tabulated
  <2> QED BY <2>10 DEF s
<1>7. CASE ~(rate[m] > 0)
  <2>1. s = [rate |-> t.rate, id |-> t.id, nid |-> nid]
    BY <1>1, <1>7 DEF Tabulate
  <2>2. /\ \A g \in 0..(m - 1) : PlacesOf(nid, g) = PlacesOf(t.nid, g)
        /\ PlacesOf(nid, m) = {Len(t.nid) + 1}
        /\ \A k \in DOMAIN nid : nid[k] \in 1..(m + 1)
        /\ PlacesOf(t.id, m) = {}
    <3>1. \A seq \in Seq(Int) : (\A k \in DOMAIN seq : seq[k] \in 1..m) =>
            /\ \A g \in 0..(m - 1) : PlacesOf(Append(seq, m + 1), g) = PlacesOf(seq, g)
            /\ PlacesOf(Append(seq, m + 1), m) = {Len(seq) + 1}
            /\ PlacesOf(seq, m) = {}
            /\ \A k \in DOMAIN Append(seq, m + 1) : Append(seq, m + 1)[k] \in 1..(m + 1)
      BY PlacesGrow
    <3> QED BY <1>1, <1>5, <3>1
  <2>3. /\ DOMAIN t.nid \subseteq DOMAIN nid /\ Len(t.nid) + 1 \in DOMAIN nid
        /\ DOMAIN t.nid = 1..Len(t.nid) /\ DOMAIN nid = 1..(Len(t.nid) + 1)
    <3>1. m + 1 \in Int
      OBVIOUS
    <3> QED BY <1>1, <3>1, AppendedIs, Zenon
  <2>4. ASSUME NEW g \in 0..m
        PROVE  IF rate[g] > 0
                 THEN /\ \E k \in DOMAIN t.id : PlacesOf(t.id, g) = {k}
                      /\ PlacesOf(nid, g) = {}
                 ELSE /\ \E k \in DOMAIN nid : PlacesOf(nid, g) = {k}
                      /\ PlacesOf(t.id, g) = {}
    <3> HIDE DEF nid
    <3>1. CASE g = m
      BY <1>7, <2>2, <2>3, <3>1
    <3>2. CASE g \in 0..(m - 1)
      BY <2>2, <2>3, <3>2 DEF Tabulated
    <3> QED BY <1>4, <3>1, <3>2
  <2>5. \A k \in DOMAIN t.id :
          t.rate[k] - (IF k = 1 THEN 0 ELSE t.rate[k - 1]) = rate[t.id[k] - 1]
    BY DEF Tabulated
  <2>6. \A k \in DOMAIN t.id : t.id[k] \in 1..(m + 1)
    BY <1>5
  <2>7. Len(t.id) + Len(nid) = m + 1
    BY <1>1, <1>3
  <2> HIDE DEF nid, s
  <2>8. s.id = t.id /\ s.nid = nid /\ s.rate = t.rate /\ s \in Tables
    BY <1>1, <1>3, <2>1 DEF Tables
  <2>9. (m + 1) - 1 = m
    OBVIOUS
  <2>10. Tabulated(s, m + 1)
    BY <1>1, <2>2, <2>4, <2>5, <2>6, <2>7, <2>8, <2>9 DEF Tabulated
  <2> QED BY <2>10 DEF s
<1> QED BY <1>6, <1>7

\* All its turns.
LEMMA RatesTabulated ==
  ASSUME NEW n \in Nat, \A g \in 0..(n - 1) : rate[g] \in Int,
         g_rate = [rate |-> <<>>, id |-> <<>>, nid |-> <<>>]
  PROVE  Tabulated(RateTable(n), n)
<1>1. PICK t : /\ t[0] = g_rate /\ RateTable(n) = t[n]
               /\ \A i \in 1..n : t[i] = Tabulate(t[i - 1], i - 1)
  BY TableSteps
<1> DEFINE Untrue == {m \in 0..n : ~Tabulated(t[m], m)}
<1>2. SUFFICES ASSUME Untrue # {} PROVE FALSE
  <2>1. n \in 0..n
    OBVIOUS
  <2> QED BY <1>1, <2>1
<1>3. PICK m \in Untrue : \A j \in Untrue : m <= j
  <2>1. Untrue \in SUBSET Nat
    OBVIOUS
  <2> HIDE DEF Untrue
  <2> QED BY <1>2, <2>1, LeastOf
<1>4. m \in 0..n
  OBVIOUS
<1>5. CASE m = 0
  <2>1. g_rate \in Tables
    BY DEF Tables
  <2>2. Tabulated(g_rate, 0)
    BY <2>1 DEF Tabulated
  <2> QED BY <1>1, <1>5, <2>2
<1>6. CASE m # 0
  <2>1. m - 1 \in 0..n /\ ~ (m <= m - 1) /\ m - 1 \in Nat /\ m \in 1..n
        /\ m - 1 \in 0..(n - 1) /\ (m - 1) + 1 = m
    BY <1>4, <1>6
  <2>2. Tabulated(t[m - 1], m - 1)
    BY <1>3, <2>1
  <2>3. Tabulated(Tabulate(t[m - 1], m - 1), m)
    BY <2>1, <2>2, OneMoreGroup
  <2> QED BY <1>1, <2>1, <2>3
<1> QED BY <1>5, <1>6

LEMMA MaxWithZero ==
  ASSUME NEW n \in Int
  PROVE  Max({n, 0}) = IF n > 0 THEN n ELSE 0
<1> DEFINE most == IF n > 0 THEN n ELSE 0
<1>1. most \in {n, 0} /\ \A y \in {n, 0} : most >= y
  OBVIOUS
<1>2. Max({n, 0}) \in {n, 0} /\ \A y \in {n, 0} : Max({n, 0}) >= y
  <2>1. Max({n, 0}) = CHOOSE x \in {n, 0} : \A y \in {n, 0} : x >= y
    BY Zenon DEF Max
  <2> HIDE DEF most
  <2> QED BY <1>1, <2>1, Zenon
<1> QED BY <1>2

\* The numbers of places in a table of m turns.
LEMMA PlacesCounted ==
  ASSUME NEW t, NEW m \in Nat, Tabulated(t, m), NEW g \in 0..(m - 1)
  PROVE  /\ Cardinality(PlacesOf(t.id, g)) + Cardinality(PlacesOf(t.nid, g)) = 1
         /\ PlacesOf(t.id, g) # {} <=> rate[g] > 0
<1>1. Cardinality({}) = 0
  BY FS_EmptySet
<1>2. \A k : Cardinality({k}) = 1
  BY FS_Singleton
<1>3. CASE rate[g] > 0
  <2>1. PICK k \in DOMAIN t.id : PlacesOf(t.id, g) = {k}
    BY <1>3 DEF Tabulated
  <2>2. PlacesOf(t.nid, g) = {}
    BY <1>3 DEF Tabulated
  <2>3. Cardinality(PlacesOf(t.id, g)) = 1 /\ Cardinality(PlacesOf(t.nid, g)) = 0
    BY <1>1, <1>2, <2>1, <2>2
  <2>4. PlacesOf(t.id, g) # {}
    BY <2>1
  <2> QED BY <1>3, <2>3, <2>4
<1>4. CASE ~(rate[g] > 0)
  <2>1. PICK k \in DOMAIN t.nid : PlacesOf(t.nid, g) = {k}
    BY <1>4 DEF Tabulated
  <2>2. PlacesOf(t.id, g) = {}
    BY <1>4 DEF Tabulated
  <2>3. Cardinality(PlacesOf(t.id, g)) = 0 /\ Cardinality(PlacesOf(t.nid, g)) = 1
    BY <1>1, <1>2, <2>1, <2>2
  <2> QED BY <1>4, <2>2, <2>3
<1> QED BY <1>3, <1>4

\* SharesAreRates as a matter of the table, the rates and the number of groups.
Shares(t, r, n) ==
  LET groups == Len(t.id) + Len(t.nid)
      Below(k) == IF k = 1 THEN 0 ELSE t.rate[k - 1]
  IN  /\ groups = Max({n, 0}) \/ (Debug /\ groups = 0)
      /\ Len(t.rate) = Len(t.id)
      /\ \A g \in 0..(groups - 1) :
           /\ Cardinality(PlacesOf(t.id, g)) + Cardinality(PlacesOf(t.nid, g)) = 1
           /\ PlacesOf(t.id, g) # {} <=> r[g] > 0
           /\ \A k \in PlacesOf(t.id, g) : t.rate[k] - Below(k) = r[g]

LEMMA SharesAreShares ==
  /\ SharesAreRates <=> (file # "server" => Shares(g_rate, rate, g_sg_num))
  /\ SharesAreRates' <=> (file' # "server" => Shares(g_rate', rate', g_sg_num'))
<1>1. SharesAreRates <=> (file # "server" => Shares(g_rate, rate, g_sg_num))
  BY DEF SharesAreRates, Shares, PlacesOf
<1>2. SharesAreRates' <=> (file' # "server" => Shares(g_rate', rate', g_sg_num'))
  BY DEF SharesAreRates, Shares, PlacesOf
<1> QED BY <1>1, <1>2

\* SharesAreRates, for the table that the loop makes.
LEMMA SharesMade ==
  ASSUME NEW m \in Nat, Tabulated(RateTable(m), m), g_rate' = RateTable(m), rate' = rate,
         m = Max({g_sg_num', 0}) \/ (Debug /\ m = 0)
  PROVE  SharesAreRates'
<1> DEFINE t == RateTable(m)
           Below(k) == IF k = 1 THEN 0 ELSE t.rate[k - 1]
<1>1. Len(t.id) + Len(t.nid) = m /\ Len(t.rate) = Len(t.id)
  BY DEF Tabulated
<1>2. \A g \in 0..(m - 1) :
        /\ Cardinality(PlacesOf(t.id, g)) + Cardinality(PlacesOf(t.nid, g)) = 1
        /\ PlacesOf(t.id, g) # {} <=> rate[g] > 0
  <2> HIDE DEF t
  <2> QED BY PlacesCounted DEF t
<1>3. ASSUME NEW g \in 0..(m - 1), NEW k \in PlacesOf(t.id, g)
      PROVE  t.rate[k] - Below(k) = rate[g]
  <2>1. k \in DOMAIN t.id /\ t.id[k] = g + 1
    BY <1>3 DEF PlacesOf
  <2>2. t.rate[k] - Below(k) = rate[t.id[k] - 1]
    BY <2>1 DEF Tabulated
  <2>3. (g + 1) - 1 = g
    OBVIOUS
  <2> HIDE DEF t, Below
  <2> QED BY <2>1, <2>2, <2>3
<1>4. Shares(t, rate, g_sg_num')
  <2> HIDE DEF t
  <2> QED BY <1>1, <1>2, <1>3 DEF Shares
<1> HIDE DEF t
<1> QED BY <1>4, SharesAreShares DEF t

\* Nothing after server.conf touches the table.
LEMMA SharesStay ==
  ASSUME SharesAreRates, file # "server", UNCHANGED <<g_rate, rate, g_sg_num>>
  PROVE  SharesAreRates'
BY SharesAreShares

(***************************************************************************)
(* The lines of a file.                                                    *)
(***************************************************************************)
LineNames == {"num", "rate"} \cup Parts
LineRecords == [name : {"num", "rate"} \cup Parts, idx : Int, value : Int]

\* The number in force after the lines read so far.
NumberNow == NumberAt(Len(lines) + 1)

LEMMA FileGrows ==
  ASSUME lines \in Seq(LineRecords), NEW name, NEW idx, NEW value,
         lines' = Append(lines, Line(name, idx, value))
  PROVE  /\ Len(lines) \in Nat /\ DOMAIN lines = 1..Len(lines)
         /\ Len(lines') = Len(lines) + 1 /\ DOMAIN lines' = 1..(Len(lines) + 1)
         /\ \A i \in 1..Len(lines) : lines'[i] = lines[i]
         /\ lines'[Len(lines) + 1].name = name
         /\ lines'[Len(lines) + 1].idx = idx
         /\ lines'[Len(lines) + 1].value = value
BY DEF Line

\* A line does not change the number that was in force before it.
LEMMA NumbersNext ==
  ASSUME lines \in Seq(LineRecords), NEW name, NEW idx, NEW value,
         lines' = Append(lines, Line(name, idx, value))
  PROVE  /\ \A k \in 1..(Len(lines) + 1) : NumberAt(k)' = NumberAt(k)
         /\ NumberNow' = IF name = "num" THEN value ELSE NumberNow
<1> DEFINE n == Len(lines)
           Before(k) == {j \in 1..(k - 1) : lines[j].name = "num"}
           BeforeNext(k) == {j \in 1..(k - 1) : lines'[j].name = "num"}
<1>1. /\ n \in Nat /\ \A i \in 1..n : lines'[i] = lines[i]
      /\ lines'[n + 1].name = name /\ lines'[n + 1].value = value
      /\ Len(lines') = n + 1
  BY FileGrows
<1>2. \A k : NumberAt(k) = IF Max(Before(k) \cup {0}) = 0 THEN 0
                           ELSE lines[Max(Before(k) \cup {0})].value
  BY DEF NumberAt
<1>3. \A k : NumberAt(k)' = IF Max(BeforeNext(k) \cup {0}) = 0 THEN 0
                            ELSE lines'[Max(BeforeNext(k) \cup {0})].value
  BY DEF NumberAt
<1>4. ASSUME NEW k \in 1..(n + 1)
      PROVE  /\ BeforeNext(k) = Before(k)
             /\ Max(Before(k) \cup {0}) \in 1..n \/ Max(Before(k) \cup {0}) = 0
  <2>1. \A j \in 1..(k - 1) : j \in 1..n
    <3> HIDE DEF n
    <3> QED BY <1>1
  <2>2. BeforeNext(k) = Before(k)
    <3> HIDE DEF n
    <3> QED BY <1>1, <2>1
  <2> DEFINE S == Before(k) \cup {0}
  <2>3. S \in SUBSET (0..n) /\ S # {}
    <3>1. \A j \in 1..n : j \in 0..n
      OBVIOUS
    <3>2. 0 \in 0..n
      BY <1>1
    <3> HIDE DEF n
    <3> QED BY <2>1, <3>1, <3>2
  <2>4. Max(S) \in S
    <3> HIDE DEF S, n
    <3> QED BY <1>1, <2>3, MaxOf
  <2> QED BY <2>1, <2>2, <2>4
<1>5. ASSUME NEW k \in 1..(n + 1)
      PROVE  NumberAt(k)' = NumberAt(k)
  <2>1. lines'[Max(Before(k) \cup {0})] = lines[Max(Before(k) \cup {0})]
        \/ Max(Before(k) \cup {0}) = 0
    BY <1>1, <1>4
  <2>2. BeforeNext(k) = Before(k)
    BY <1>4
  <2> HIDE DEF Before, BeforeNext
  <2> QED BY <1>2, <1>3, <2>1, <2>2
<1>6. NumberNow' = IF Max(BeforeNext(n + 2) \cup {0}) = 0 THEN 0
                   ELSE lines'[Max(BeforeNext(n + 2) \cup {0})].value
  <2>1. Len(lines') + 1 = n + 2
    BY <1>1
  <2> QED BY <1>3, <2>1 DEF NumberNow
<1>7. NumberNow = IF Max(Before(n + 1) \cup {0}) = 0 THEN 0
                  ELSE lines[Max(Before(n + 1) \cup {0})].value
  BY <1>2 DEF NumberNow
<1>8. (n + 2) - 1 = n + 1 /\ (n + 1) - 1 = n /\ n + 1 \in 1..(n + 1)
  BY <1>1
<1>9. BeforeNext(n + 2) = IF name = "num" THEN Before(n + 1) \cup {n + 1} ELSE Before(n + 1)
  <2>1. \A j \in 1..(n + 1) : j \in 1..n \/ j = n + 1
    BY <1>1
  <2>2. \A j \in 1..n : j \in 1..(n + 1)
    BY <1>1
  <2> HIDE DEF n
  <2> QED BY <1>1, <1>8, <2>1, <2>2
<1>10. ASSUME name = "num" PROVE NumberNow' = value
  <2> DEFINE S == BeforeNext(n + 2) \cup {0}
  <2>1. S \in SUBSET (0..(n + 1)) /\ n + 1 \in S
    <3>1. \A j \in 1..n : j \in 0..(n + 1)
      BY <1>1
    <3>2. 0 \in 0..(n + 1) /\ n + 1 \in 0..(n + 1)
      BY <1>1
    <3> HIDE DEF n
    <3> QED BY <1>8, <1>9, <1>10, <3>1, <3>2
  <2>2. n + 1 \in Nat /\ \A j \in S : j <= n + 1
    <3> HIDE DEF S, n
    <3> QED BY <1>1, <2>1
  <2>3. Max(S) = n + 1
    <3> HIDE DEF S, n
    <3> QED BY <2>1, <2>2, MaxIs
  <2>4. n + 1 # 0
    BY <1>1
  <2> HIDE DEF BeforeNext, n
  <2> QED BY <1>1, <1>6, <1>10, <2>3, <2>4
<1>11. ASSUME name # "num" PROVE NumberNow' = NumberNow
  <2>1. lines'[Max(Before(n + 1) \cup {0})] = lines[Max(Before(n + 1) \cup {0})]
        \/ Max(Before(n + 1) \cup {0}) = 0
    BY <1>1, <1>4, <1>8
  <2> HIDE DEF Before, BeforeNext, n
  <2> QED BY <1>6, <1>7, <1>9, <1>11, <2>1
<1> QED BY <1>5, <1>10, <1>11

\* A line is heard if its index is below the number in force.
LEMMA HeardNext ==
  ASSUME lines \in Seq(LineRecords), NEW name, NEW idx, NEW value,
         lines' = Append(lines, Line(name, idx, value)), NEW what, NEW i
  PROVE  /\ Heard(what, i)' = IF what = name /\ i = idx /\ i < NumberNow
                                THEN Heard(what, i) \cup {Len(lines) + 1}
                                ELSE Heard(what, i)
         /\ Heard(what, i) \in SUBSET (1..Len(lines))
<1> DEFINE n == Len(lines)
<1>1. /\ n \in Nat /\ DOMAIN lines = 1..n /\ DOMAIN lines' = 1..(n + 1)
      /\ \A j \in 1..n : lines'[j] = lines[j]
      /\ lines'[n + 1].name = name /\ lines'[n + 1].idx = idx
  BY FileGrows
<1>2. \A k \in 1..(n + 1) : NumberAt(k)' = NumberAt(k)
  BY NumbersNext
<1>3. NumberNow = NumberAt(n + 1)
  BY DEF NumberNow
<1>4. Heard(what, i) = {k \in 1..n : lines[k].name = what /\ lines[k].idx = i
                                      /\ i < NumberAt(k)}
  BY <1>1 DEF Heard
<1>5. Heard(what, i)' = {k \in 1..(n + 1) : lines'[k].name = what /\ lines'[k].idx = i
                                             /\ i < NumberAt(k)'}
  BY <1>1 DEF Heard
<1>6. Heard(what, i)' = {k \in 1..(n + 1) : lines'[k].name = what /\ lines'[k].idx = i
                                             /\ i < NumberAt(k)}
  BY <1>2, <1>5
<1>7. \A j \in 1..(n + 1) : j \in 1..n \/ j = n + 1
  BY <1>1
<1>8. n + 1 \in 1..(n + 1) /\ \A j \in 1..n : j \in 1..(n + 1) /\ j # n + 1
  BY <1>1
<1> HIDE DEF n
<1>9. Heard(what, i)' = IF what = name /\ i = idx /\ i < NumberNow
                          THEN Heard(what, i) \cup {n + 1} ELSE Heard(what, i)
  BY <1>1, <1>3, <1>4, <1>6, <1>7, <1>8
<1> QED BY <1>4, <1>9 DEF n

\* The last line heard is one of those read, and stays what it is.
LEMMA LastHeard ==
  ASSUME lines \in Seq(LineRecords), NEW name, NEW idx, NEW value,
         lines' = Append(lines, Line(name, idx, value)), NEW what, NEW i
  PROVE  /\ Heard(what, i) # {} =>
              lines'[Max(Heard(what, i))] = lines[Max(Heard(what, i))]
         /\ Max(Heard(what, i) \cup {Len(lines) + 1}) = Len(lines) + 1
<1> DEFINE n == Len(lines)
           S == Heard(what, i)
           T == S \cup {n + 1}
<1>1. n \in Nat /\ S \in SUBSET (1..n) /\ \A j \in 1..n : lines'[j] = lines[j]
  BY FileGrows, HeardNext
<1> HIDE DEF n, S
<1>2. ASSUME S # {} PROVE lines'[Max(S)] = lines[Max(S)]
  <2>1. S \in SUBSET (0..n)
    BY <1>1
  <2>2. Max(S) \in S
    BY <1>1, <1>2, <2>1, MaxOf
  <2> QED BY <1>1, <2>2
<1>3. Max(T) = n + 1
  <2>1. \A j \in 1..n : j \in 0..(n + 1) /\ j <= n + 1
    BY <1>1
  <2>2. n + 1 \in Nat /\ n + 1 \in 0..(n + 1) /\ n + 1 <= n + 1
    BY <1>1
  <2>3. T \in SUBSET (0..(n + 1)) /\ n + 1 \in T /\ \A j \in T : j <= n + 1
    BY <1>1, <2>1, <2>2
  <2> HIDE DEF T
  <2> QED BY <2>2, <2>3, MaxIs
<1> QED BY <1>2, <1>3 DEF n, S

(***************************************************************************)
(* The invariant of the server and group files.                            *)
(***************************************************************************)
\* What stands in the tables at each stage: nothing before its file is read,
\* and after it no more than fits.
StagesKept ==
  /\ file = "server" => g_rate = [rate |-> <<>>, id |-> <<>>, nid |-> <<>>]
  /\ file # "server" => g_sg_num <= MAX_GROUP_NUM
  /\ \A g \in GroupIdx :
       /\ file = "server" \/ (file = "group" /\ g > cur) => srv_num[g] = 0 /\ addr[g] = {}
       /\ file # "group" \/ g # cur => srv_num[g] <= GROUP_MAX_SERVER_NUM

\* The tables hold the number that the lines leave in force.
NumberInForce ==
  /\ file = "server" => NumberNow = g_sg_num
  /\ file = "group" => NumberNow = srv_num[cur]

ServersInvariant ==
  /\ ServersTypeOK
  /\ StagesKept
  /\ NumberInForce
  /\ LinesAsHeard
  /\ SharesAreRates

\* Of no lines, none is heard and none is in force.
LEMMA NoLines ==
  ASSUME lines = <<>>
  PROVE  NumberNow = 0 /\ \A what, i : Heard(what, i) = {}
<1>1. Len(lines) = 0 /\ DOMAIN lines = {}
  OBVIOUS
<1>2. \A what, i : Heard(what, i) = {}
  BY <1>1 DEF Heard
<1>3. Max({0}) = 0
  <2>1. 0 \in Nat /\ {0} \in SUBSET (0..0) /\ 0 \in {0} /\ \A j \in {0} : j <= 0
    OBVIOUS
  <2> QED BY <2>1, MaxIs
<1>4. {j \in 1..((Len(lines) + 1) - 1) : lines[j].name = "num"} \cup {0} = {0}
  BY <1>1
<1>5. NumberNow = 0
  BY <1>3, <1>4 DEF NumberNow, NumberAt
<1> QED BY <1>2, <1>5

LEMMA NoLinesNext ==
  ASSUME lines' = <<>>
  PROVE  NumberNow' = 0 /\ \A what, i : Heard(what, i)' = {}
<1>1. Len(lines') = 0 /\ DOMAIN lines' = {}
  OBVIOUS
<1>2. \A what, i : Heard(what, i)' = {}
  BY <1>1 DEF Heard
<1>3. Max({0}) = 0
  <2>1. 0 \in Nat /\ {0} \in SUBSET (0..0) /\ 0 \in {0} /\ \A j \in {0} : j <= 0
    OBVIOUS
  <2> QED BY <2>1, MaxIs
<1>4. {j \in 1..((Len(lines') + 1) - 1) : lines'[j].name = "num"} \cup {0} = {0}
  BY <1>1
<1>5. NumberNow' = 0
  BY <1>3, <1>4 DEF NumberNow, NumberAt
<1> QED BY <1>2, <1>5

LEMMA ServersInitially == ServersInit => ServersInvariant
<1> SUFFICES ASSUME ServersInit PROVE ServersInvariant
  OBVIOUS
<1> USE DEF ServersInit
<1>1. ServersTypeOK
  <2>1. 0 \in 0..MAX_GROUP_NUM
    BY ServerConfAssumption
  <2>2. lines \in Seq([name : {"num", "rate"} \cup Parts, idx : Int, value : Int])
    OBVIOUS
  <2>3. g_rate \in [rate : Seq(Int), id : Seq(Int), nid : Seq(Int)]
    OBVIOUS
  <2>4. rate \in [GroupIdx -> Int] /\ srv_num \in [GroupIdx -> Int]
    OBVIOUS
  <2>5. addr \in [GroupIdx -> SUBSET (Parts \X ServerIdx)]
    OBVIOUS
  <2>6. file = "server" /\ cur = 0 /\ g_sg_num = 0
    OBVIOUS
  <2>7. outside \in BOOLEAN
    BY Zenon
  <2> HIDE DEF ServersInit
  <2> QED BY <2>1, <2>2, <2>3, <2>4, <2>5, <2>6, <2>7 DEF ServersTypeOK
<1>2. StagesKept
  BY ServerConfAssumption DEF StagesKept
<1>3. NumberInForce
  BY NoLines DEF NumberInForce
<1>4. LinesAsHeard
  BY NoLines DEF LinesAsHeard
<1>5. SharesAreRates
  BY SharesAreShares
<1> QED BY <1>1, <1>2, <1>3, <1>4, <1>5 DEF ServersInvariant

\* The lines with one more are lines.
LEMMA LinesTyped ==
  \A name \in LineNames, idx \in Int, value \in Int :
    lines \in Seq(LineRecords) => Append(lines, Line(name, idx, value)) \in Seq(LineRecords)
BY DEF Line, LineRecords, LineNames

LEMMA GroupNumLineStep ==
  ASSUME ServersInvariant, NEW n \in Numbers, GroupNumLine(n)
  PROVE  ServersInvariant'
<1> USE DEF GroupNumLine, Reading, tableVars
<1>1. lines \in Seq(LineRecords) /\ n \in Int
      /\ lines' = Append(lines, Line("num", 0, n))
  BY ServerConfAssumption DEF ServersInvariant, ServersTypeOK, LineRecords
<1>2. lines' \in Seq(LineRecords)
  <2>1. "num" \in LineNames /\ "rate" \in LineNames /\ Parts \subseteq LineNames /\ 0 \in Int
    BY DEF LineNames
  <2> QED BY <1>1, <2>1, LinesTyped
<1>3. ServersTypeOK'
  BY <1>1, <1>2 DEF ServersInvariant, ServersTypeOK, LineRecords
<1>4. StagesKept'
  BY DEF ServersInvariant, StagesKept
<1>5. NumberInForce'
  BY <1>1, NumbersNext DEF NumberInForce
<1>6. LinesAsHeard'
  <2>1. \A g : Heard("rate", g)' = Heard("rate", g)
    BY <1>1, HeardNext
  <2>2. \A g : Heard("rate", g) # {} =>
                 lines'[Max(Heard("rate", g))] = lines[Max(Heard("rate", g))]
    BY <1>1, LastHeard
  <2> QED BY <2>1, <2>2 DEF ServersInvariant, LinesAsHeard
<1>7. SharesAreRates'
  BY SharesAreShares
<1> QED BY <1>3, <1>4, <1>5, <1>6, <1>7 DEF ServersInvariant

LEMMA RateLineStep ==
  ASSUME ServersInvariant, NEW i \in Indexes, NEW r \in Rates, RateLine(i, r)
  PROVE  ServersInvariant'
<1> USE DEF RateLine, Reading
<1>1. lines \in Seq(LineRecords) /\ i \in Int /\ r \in Int
      /\ lines' = Append(lines, Line("rate", i, r))
  BY ServerConfAssumption DEF ServersInvariant, ServersTypeOK, LineRecords, Indexes
<1>2. lines' \in Seq(LineRecords)
  <2>1. "num" \in LineNames /\ "rate" \in LineNames /\ Parts \subseteq LineNames /\ 0 \in Int
    BY DEF LineNames
  <2> QED BY <1>1, <2>1, LinesTyped
<1>3. rate' \in [GroupIdx -> Int] /\ outside' \in BOOLEAN
  <2>1. rate \in [GroupIdx -> Int] /\ outside \in BOOLEAN
    BY DEF ServersInvariant, ServersTypeOK
  <2>2. CASE i >= g_sg_num \/ i < 0
    BY <2>1, <2>2
  <2>3. CASE ~(i >= g_sg_num \/ i < 0) /\ i \in GroupIdx
    BY <1>1, <2>1, <2>3
  <2>4. CASE ~(i >= g_sg_num \/ i < 0) /\ i \notin GroupIdx
    BY <2>1, <2>4
  <2> QED BY <2>2, <2>3, <2>4
<1>4. ServersTypeOK'
  BY <1>2, <1>3 DEF ServersInvariant, ServersTypeOK, LineRecords
<1>5. StagesKept'
  BY DEF ServersInvariant, StagesKept
<1>6. NumberInForce'
  BY <1>1, NumbersNext DEF ServersInvariant, NumberInForce
<1>7. LinesAsHeard'
  <2> SUFFICES ASSUME ~outside', NEW g \in GroupIdx
               PROVE  rate'[g] = IF Heard("rate", g)' = {} THEN 0
                                 ELSE lines'[Max(Heard("rate", g)')].value
    BY DEF LinesAsHeard
  <2>1. rate[g] = IF Heard("rate", g) = {} THEN 0 ELSE lines[Max(Heard("rate", g))].value
    BY DEF ServersInvariant, LinesAsHeard
  <2>2. Heard("rate", g)' = IF g = i /\ g < g_sg_num
                              THEN Heard("rate", g) \cup {Len(lines) + 1}
                              ELSE Heard("rate", g)
    <3>1. NumberNow = g_sg_num
      BY DEF ServersInvariant, NumberInForce
    <3> QED BY <1>1, <3>1, HeardNext
  <2>3. /\ Heard("rate", g) # {} =>
             lines'[Max(Heard("rate", g))] = lines[Max(Heard("rate", g))]
        /\ Max(Heard("rate", g) \cup {Len(lines) + 1}) = Len(lines) + 1
    BY <1>1, LastHeard
  <2>4. lines'[Len(lines) + 1].value = r
    BY <1>1, FileGrows
  <2>5. g \in Int /\ g >= 0 /\ g_sg_num \in Int
    BY ServerConfAssumption DEF GroupIdx, ServersInvariant, ServersTypeOK
  <2>6. CASE g = i /\ g < g_sg_num
    <3>1. ~(i >= g_sg_num \/ i < 0) /\ i \in GroupIdx
      BY <2>5, <2>6
    <3>2. rate' = [rate EXCEPT ![i] = r]
      BY <3>1
    <3>3. rate'[g] = r
      BY <2>6, <3>2 DEF ServersInvariant, ServersTypeOK
    <3>4. Heard("rate", g)' = Heard("rate", g) \cup {Len(lines) + 1}
      BY <2>2, <2>6
    <3> QED BY <2>3, <2>4, <3>3, <3>4
  <2>7. CASE ~(g = i /\ g < g_sg_num)
    <3>1. rate'[g] = rate[g]
      <4>1. CASE i >= g_sg_num \/ i < 0 \/ i \notin GroupIdx
        BY <4>1
      <4>2. CASE ~(i >= g_sg_num \/ i < 0) /\ i \in GroupIdx
        <5>1. g # i /\ rate' = [rate EXCEPT ![i] = r]
          BY <2>5, <2>7, <4>2
        <5> QED BY <5>1 DEF ServersInvariant, ServersTypeOK
      <4> QED BY <4>1, <4>2
    <3>2. Heard("rate", g)' = Heard("rate", g)
      BY <2>2, <2>7
    <3> QED BY <2>1, <2>3, <3>1, <3>2
  <2> QED BY <2>6, <2>7
<1>8. SharesAreRates'
  BY SharesAreShares
<1> QED BY <1>4, <1>5, <1>6, <1>7, <1>8 DEF ServersInvariant

\* A group whose file is read has its place in the arrays.
LEMMA CurrentGroup ==
  ASSUME ServersInvariant, file = "group"
  PROVE  cur \in GroupIdx /\ g_sg_num <= MAX_GROUP_NUM /\ cur < g_sg_num
BY ServerConfAssumption DEF ServersInvariant, ServersTypeOK, StagesKept, GroupIdx

LEMMA ServerNumLineStep ==
  ASSUME ServersInvariant, NEW n \in Numbers, ServerNumLine(n)
  PROVE  ServersInvariant'
<1> USE DEF ServerNumLine, Reading
<1>1. lines \in Seq(LineRecords) /\ n \in Int
      /\ lines' = Append(lines, Line("num", 0, n))
  BY ServerConfAssumption DEF ServersInvariant, ServersTypeOK, LineRecords
<1>2. lines' \in Seq(LineRecords)
  <2>1. "num" \in LineNames /\ "rate" \in LineNames /\ Parts \subseteq LineNames /\ 0 \in Int
    BY DEF LineNames
  <2> QED BY <1>1, <2>1, LinesTyped
<1>3. cur \in GroupIdx /\ srv_num \in [GroupIdx -> Int]
  BY CurrentGroup DEF ServersInvariant, ServersTypeOK
<1>4. /\ srv_num' \in [GroupIdx -> Int] /\ srv_num'[cur] = n
      /\ \A g \in GroupIdx : g # cur => srv_num'[g] = srv_num[g]
  BY <1>1, <1>3
<1>5. ServersTypeOK'
  BY <1>2, <1>4 DEF ServersInvariant, ServersTypeOK, LineRecords
<1>6. StagesKept'
  <2>1. \A g \in GroupIdx : g > cur => g # cur
    BY <1>3, ServerConfAssumption DEF GroupIdx
  <2> QED BY <1>4, <2>1 DEF ServersInvariant, StagesKept
<1>7. NumberInForce'
  BY <1>1, <1>4, NumbersNext DEF NumberInForce
<1>8. LinesAsHeard'
  <2>1. \A part \in Parts : \A s : Heard(part, s)' = Heard(part, s)
    <3>1. \A part \in Parts : part # "num"
      BY DEF Parts
    <3> QED BY <1>1, <3>1, HeardNext
  <2> QED BY <2>1 DEF ServersInvariant, LinesAsHeard
<1>9. SharesAreRates'
  BY SharesStay DEF ServersInvariant
<1> QED BY <1>5, <1>6, <1>7, <1>8, <1>9 DEF ServersInvariant

LEMMA AddressLineStep ==
  ASSUME ServersInvariant, NEW part \in Parts, NEW i \in Indexes, AddressLine(part, i)
  PROVE  ServersInvariant'
<1> USE DEF AddressLine, Reading
<1>1. lines \in Seq(LineRecords) /\ i \in Int
      /\ lines' = Append(lines, Line(part, i, 0))
  BY DEF ServersInvariant, ServersTypeOK, LineRecords, Indexes
<1>2. lines' \in Seq(LineRecords)
  <2>1. "num" \in LineNames /\ "rate" \in LineNames /\ Parts \subseteq LineNames /\ 0 \in Int
    BY DEF LineNames
  <2> QED BY <1>1, <2>1, LinesTyped
<1>3. /\ cur \in GroupIdx /\ srv_num[cur] \in Int
      /\ addr \in [GroupIdx -> SUBSET (Parts \X ServerIdx)] /\ outside \in BOOLEAN
  BY CurrentGroup DEF ServersInvariant, ServersTypeOK
<1> DEFINE lost == srv_num[cur] < 1 \/ i >= srv_num[cur] \/ i < 0
<1>5. /\ addr' \in [GroupIdx -> SUBSET (Parts \X ServerIdx)] /\ outside' \in BOOLEAN
      /\ \A g \in GroupIdx : g # cur => addr'[g] = addr[g]
      /\ addr'[cur] = IF ~lost /\ i \in ServerIdx THEN addr[cur] \cup {<<part, i>>}
                      ELSE addr[cur]
  <2>1. CASE lost
    BY <1>3, <2>1
  <2>2. CASE ~lost /\ i \in ServerIdx
    BY <1>3, <2>2
  <2>3. CASE ~lost /\ i \notin ServerIdx
    BY <1>3, <2>3
  <2> QED BY <2>1, <2>2, <2>3
<1>6. ServersTypeOK'
  BY <1>2, <1>5 DEF ServersInvariant, ServersTypeOK, LineRecords
<1>7. StagesKept'
  <2>1. \A g \in GroupIdx : g > cur => g # cur
    BY <1>3, ServerConfAssumption DEF GroupIdx
  <2> QED BY <1>5, <2>1 DEF ServersInvariant, StagesKept
<1>8. NumberInForce'
  <2>1. part # "num"
    BY DEF Parts
  <2> QED BY <1>1, <2>1, NumbersNext DEF ServersInvariant, NumberInForce
<1>9. LinesAsHeard'
  <2> SUFFICES ASSUME ~outside', NEW p \in Parts, NEW s \in ServerIdx
               PROVE  <<p, s>> \in addr'[cur] <=> Heard(p, s)' # {}
    BY DEF LinesAsHeard
  <2>1. <<p, s>> \in addr[cur] <=> Heard(p, s) # {}
    BY DEF ServersInvariant, LinesAsHeard
  <2>2. Heard(p, s)' = IF p = part /\ s = i /\ s < srv_num[cur]
                         THEN Heard(p, s) \cup {Len(lines) + 1} ELSE Heard(p, s)
    <3>1. NumberNow = srv_num[cur]
      BY DEF ServersInvariant, NumberInForce
    <3> QED BY <1>1, <3>1, HeardNext
  <2>3. s \in Int /\ s >= 0
    BY ServerConfAssumption DEF ServerIdx
  <2>4. s = i => (s < srv_num[cur] <=> ~lost)
    BY <1>1, <1>3, <2>3
  <2>5. <<p, s>> \in addr'[cur] <=>
          <<p, s>> \in addr[cur] \/ (p = part /\ s = i /\ s < srv_num[cur])
    <3> HIDE DEF lost
    <3> QED BY <1>5, <2>4
  <2> QED BY <2>1, <2>2, <2>5
<1>10. SharesAreRates'
  BY SharesStay DEF ServersInvariant
<1> QED BY <1>6, <1>7, <1>8, <1>9, <1>10 DEF ServersInvariant

\* What server.conf is closed with.
LEMMA EndServerFileStep ==
  ASSUME ServersInvariant, EndServerFile
  PROVE  ServersInvariant'
<1> DEFINE n == GroupsCut(g_sg_num)
           fallback == Debug /\ n <= 0
           m == Max({n, 0})
<1>1. /\ file = "server" /\ ~outside /\ g_rate' = RateTable(m) /\ cur' = 0
      /\ file' = IF 0 < n THEN "group" ELSE "done"
      /\ g_sg_num' = IF fallback THEN 1 ELSE n
      /\ srv_num' = IF fallback THEN [srv_num EXCEPT ![0] = 1] ELSE srv_num
      /\ addr' = IF fallback THEN [addr EXCEPT ![0] = @ \cup (Parts \X {0})] ELSE addr
      /\ lines' = <<>> /\ rate' = rate /\ outside' = outside
  BY DEF EndServerFile, Continue
<1>2. g_sg_num \in Int /\ MAX_GROUP_NUM \in Nat \ {0} /\ GROUP_MAX_SERVER_NUM \in Nat \ {0}
  BY ServerConfAssumption DEF ServersInvariant, ServersTypeOK
<1>3. n \in Int /\ n <= MAX_GROUP_NUM
  BY <1>2 DEF GroupsCut, Least
<1> HIDE DEF n
<1>4. m = IF n > 0 THEN n ELSE 0
  BY <1>3, MaxWithZero
<1>5. m \in Nat /\ m <= MAX_GROUP_NUM
  BY <1>2, <1>3, <1>4
<1>6. 0 \in GroupIdx /\ 0 \in ServerIdx
  BY <1>2 DEF GroupIdx, ServerIdx
<1>7. Tabulated(RateTable(m), m)
  <2>1. \A g \in 0..(m - 1) : g \in GroupIdx
    <3> HIDE DEF m
    <3> QED BY <1>2, <1>5 DEF GroupIdx
  <2>2. \A g \in 0..(m - 1) : rate[g] \in Int
    <3> HIDE DEF m
    <3> QED BY <2>1 DEF ServersInvariant, ServersTypeOK
  <2>3. g_rate = [rate |-> <<>>, id |-> <<>>, nid |-> <<>>]
    BY <1>1 DEF ServersInvariant, StagesKept
  <2> HIDE DEF m
  <2> QED BY <1>5, <2>2, <2>3, RatesTabulated
<1>8. /\ srv_num' \in [GroupIdx -> Int]
      /\ \A g \in GroupIdx : srv_num'[g] = IF fallback /\ g = 0 THEN 1 ELSE srv_num[g]
  <2>1. srv_num \in [GroupIdx -> Int]
    BY DEF ServersInvariant, ServersTypeOK
  <2> HIDE DEF fallback
  <2>2. CASE fallback
    BY <1>1, <1>6, <2>1, <2>2
  <2>3. CASE ~fallback
    BY <1>1, <2>1, <2>3
  <2> QED BY <2>2, <2>3
<1>9. addr' \in [GroupIdx -> SUBSET (Parts \X ServerIdx)]
  <2>1. addr \in [GroupIdx -> SUBSET (Parts \X ServerIdx)]
    BY DEF ServersInvariant, ServersTypeOK
  <2>2. Parts \X {0} \in SUBSET (Parts \X ServerIdx)
    BY <1>6
  <2> HIDE DEF fallback
  <2>3. CASE fallback
    BY <1>1, <1>6, <2>1, <2>2, <2>3
  <2>4. CASE ~fallback
    BY <1>1, <2>1, <2>4
  <2> QED BY <2>3, <2>4
<1>10. ServersTypeOK'
  <2>1. g_rate' \in [rate : Seq(Int), id : Seq(Int), nid : Seq(Int)]
    BY <1>1, <1>7 DEF Tabulated, Tables
  <2>2. lines' \in Seq([name : {"num", "rate"} \cup Parts, idx : Int, value : Int])
    BY <1>1
  <2>3. /\ file' \in {"server", "group", "done"} /\ cur' \in 0..MAX_GROUP_NUM
        /\ g_sg_num' \in Int /\ (file' = "group" => cur' < g_sg_num')
    BY <1>1, <1>2, <1>3
  <2>4. rate' \in [GroupIdx -> Int] /\ outside' \in BOOLEAN
    BY <1>1 DEF ServersInvariant, ServersTypeOK
  <2> QED BY <1>8, <1>9, <2>1, <2>2, <2>3, <2>4 DEF ServersTypeOK
<1>11. \A g \in GroupIdx : srv_num[g] = 0 /\ addr[g] = {}
  BY <1>1 DEF ServersInvariant, StagesKept
<1>12. StagesKept'
  <2>1. file' # "server" /\ g_sg_num' <= MAX_GROUP_NUM
    BY <1>1, <1>2, <1>3
  <2>2. \A g \in GroupIdx : srv_num'[g] <= GROUP_MAX_SERVER_NUM
    <3> HIDE DEF fallback
    <3> QED BY <1>2, <1>8, <1>11
  <2>3. file' = "group" => srv_num' = srv_num /\ addr' = addr
    BY <1>1, <1>3
  <2> QED BY <1>11, <2>1, <2>2, <2>3 DEF StagesKept
<1>13. NumberInForce'
  <2>1. file' # "server" /\ NumberNow' = 0
    BY <1>1, NoLinesNext
  <2>2. file' = "group" => srv_num'[cur'] = 0
    BY <1>1, <1>3, <1>6, <1>11
  <2> QED BY <2>1, <2>2 DEF NumberInForce
<1>14. LinesAsHeard'
  <2>1. \A what, i : Heard(what, i)' = {}
    BY <1>1, NoLinesNext
  <2>2. file' = "group" => addr'[cur'] = {}
    BY <1>1, <1>3, <1>6, <1>11
  <2>3. file' # "server"
    BY <1>1
  <2> QED BY <2>1, <2>2, <2>3 DEF LinesAsHeard
<1>15. SharesAreRates'
  <2>1. m = Max({g_sg_num', 0}) \/ (Debug /\ m = 0)
    <3>1. CASE fallback
      BY <1>3, <1>4, <3>1
    <3>2. CASE ~fallback
      BY <1>1, <3>2
    <3> QED BY <3>1, <3>2
  <2>2. g_rate' = RateTable(m) /\ rate' = rate
    BY <1>1
  <2> HIDE DEF m
  <2> QED BY <1>5, <1>7, <2>1, <2>2, SharesMade
<1> QED BY <1>10, <1>12, <1>13, <1>14, <1>15 DEF ServersInvariant

\* What a group file is closed with, or its want: the number is cut or made 0.
LEMMA NextGroup ==
  ASSUME ServersInvariant, file = "group", NEW k \in Int, k <= GROUP_MAX_SERVER_NUM,
         srv_num' = [srv_num EXCEPT ![cur] = k], Continue(cur + 1, g_sg_num),
         lines' = <<>>, UNCHANGED <<g_sg_num, rate, g_rate, addr, outside>>
  PROVE  ServersInvariant'
<1>1. /\ cur \in GroupIdx /\ g_sg_num \in Int /\ g_sg_num <= MAX_GROUP_NUM
      /\ cur < g_sg_num /\ MAX_GROUP_NUM \in Nat \ {0} /\ GROUP_MAX_SERVER_NUM \in Nat \ {0}
  BY CurrentGroup, ServerConfAssumption DEF ServersInvariant, ServersTypeOK
<1>2. cur \in Int /\ cur >= 0
  BY <1>1 DEF GroupIdx
<1>3. /\ cur' = cur + 1 /\ file' = IF cur + 1 < g_sg_num THEN "group" ELSE "done"
      /\ cur' \in 0..MAX_GROUP_NUM
  BY <1>1, <1>2 DEF Continue
<1>4. /\ srv_num' \in [GroupIdx -> Int] /\ srv_num'[cur] = k
      /\ \A g \in GroupIdx : g # cur => srv_num'[g] = srv_num[g]
  BY <1>1 DEF ServersInvariant, ServersTypeOK
<1>5. ServersTypeOK'
  <2>1. lines' \in Seq([name : {"num", "rate"} \cup Parts, idx : Int, value : Int])
    OBVIOUS
  <2>2. file' \in {"server", "group", "done"} /\ (file' = "group" => cur' < g_sg_num')
    BY <1>3
  <2> QED BY <1>3, <1>4, <2>1, <2>2 DEF ServersInvariant, ServersTypeOK
<1>6. file' = "group" =>
        cur' \in GroupIdx /\ cur' # cur /\ srv_num'[cur'] = 0 /\ addr'[cur'] = {}
  <2> SUFFICES ASSUME file' = "group"
               PROVE  cur' \in GroupIdx /\ cur' # cur /\ srv_num'[cur'] = 0
                      /\ addr'[cur'] = {}
    OBVIOUS
  <2>1. cur' \in GroupIdx /\ cur' # cur /\ cur' > cur
    BY <1>1, <1>2, <1>3 DEF GroupIdx
  <2>2. srv_num[cur'] = 0 /\ addr[cur'] = {}
    BY <2>1 DEF ServersInvariant, StagesKept
  <2> QED BY <1>4, <2>1, <2>2
<1>7. StagesKept'
  <2>1. file' # "server" /\ g_sg_num' <= MAX_GROUP_NUM
    BY <1>1, <1>3
  <2>2. \A g \in GroupIdx : srv_num'[g] <= GROUP_MAX_SERVER_NUM
    BY <1>4 DEF ServersInvariant, StagesKept
  <2>3. \A g \in GroupIdx : g > cur' => srv_num'[g] = 0 /\ addr'[g] = {}
    <3>1. \A g \in GroupIdx : g > cur' => g > cur /\ g # cur
      BY <1>2, <1>3 DEF GroupIdx
    <3> QED BY <1>4, <3>1 DEF ServersInvariant, StagesKept
  <2> QED BY <2>1, <2>2, <2>3 DEF StagesKept
<1>8. NumberInForce' /\ LinesAsHeard'
  <2>1. NumberNow' = 0 /\ \A what, i : Heard(what, i)' = {}
    BY NoLinesNext
  <2>2. file' # "server"
    BY <1>3
  <2> QED BY <1>6, <2>1, <2>2 DEF NumberInForce, LinesAsHeard
<1>9. SharesAreRates'
  BY SharesStay DEF ServersInvariant
<1> QED BY <1>5, <1>7, <1>8, <1>9 DEF ServersInvariant

LEMMA EndGroupFileStep ==
  ASSUME ServersInvariant, EndGroupFile
  PROVE  ServersInvariant'
<1> DEFINE k == Least(srv_num[cur], GROUP_MAX_SERVER_NUM)
<1>1. /\ file = "group" /\ srv_num' = [srv_num EXCEPT ![cur] = k]
      /\ Continue(cur + 1, g_sg_num) /\ lines' = <<>>
      /\ UNCHANGED <<g_sg_num, rate, g_rate, addr, outside>>
  BY DEF EndGroupFile
<1>2. srv_num[cur] \in Int
  BY <1>1, CurrentGroup DEF ServersInvariant, ServersTypeOK
<1>3. k \in Int /\ k <= GROUP_MAX_SERVER_NUM
  BY <1>2, ServerConfAssumption DEF Least
<1> HIDE DEF k
<1> QED BY <1>1, <1>3, NextGroup

LEMMA NoGroupFileStep ==
  ASSUME ServersInvariant, NoGroupFile
  PROVE  ServersInvariant'
<1>1. /\ file = "group" /\ srv_num' = [srv_num EXCEPT ![cur] = 0]
      /\ Continue(cur + 1, g_sg_num) /\ lines' = <<>>
      /\ UNCHANGED <<g_sg_num, rate, g_rate, addr, outside>>
  BY DEF NoGroupFile
<1>2. 0 \in Int /\ 0 <= GROUP_MAX_SERVER_NUM
  BY ServerConfAssumption
<1> QED BY <1>1, <1>2, NextGroup

LEMMA ServersStep == ServersInvariant /\ [ServersNext]_serverVars => ServersInvariant'
<1> SUFFICES ASSUME ServersInvariant, [ServersNext]_serverVars
             PROVE  ServersInvariant'
  OBVIOUS
<1>1. CASE UNCHANGED serverVars
  <2> USE <1>1 DEF serverVars, tableVars
  <2>1. \A k : NumberAt(k)' = NumberAt(k)
    BY DEF NumberAt
  <2>2. \A what, i : Heard(what, i)' = Heard(what, i)
    BY <2>1 DEF Heard
  <2>3. NumberNow' = NumberNow
    BY DEF NumberNow, NumberAt
  <2>4. ServersTypeOK' /\ StagesKept'
    BY DEF ServersInvariant, ServersTypeOK, StagesKept
  <2>5. NumberInForce'
    BY <2>3 DEF ServersInvariant, NumberInForce
  <2>6. LinesAsHeard'
    BY <2>2 DEF ServersInvariant, LinesAsHeard
  <2>7. SharesAreRates'
    BY SharesAreShares DEF ServersInvariant
  <2> QED BY <2>4, <2>5, <2>6, <2>7 DEF ServersInvariant
<1>2. ASSUME NEW n \in Numbers, GroupNumLine(n) \/ ServerNumLine(n)
      PROVE  ServersInvariant'
  BY <1>2, GroupNumLineStep, ServerNumLineStep
<1>3. ASSUME NEW i \in Indexes, NEW r \in Rates, RateLine(i, r)
      PROVE  ServersInvariant'
  BY <1>3, RateLineStep
<1>4. ASSUME NEW i \in Indexes, NEW part \in Parts, AddressLine(part, i)
      PROVE  ServersInvariant'
  BY <1>4, AddressLineStep
<1>5. CASE EndServerFile \/ EndGroupFile \/ NoGroupFile
  BY <1>5, EndServerFileStep, EndGroupFileStep, NoGroupFileStep
<1> QED BY <1>1, <1>2, <1>3, <1>4, <1>5 DEF ServersNext

\* server_conf_load: at every line, the tables, the numbers in force and the lines
\* read so far fit together.
THEOREM ServersInvariantHolds == ServersSpec => []ServersInvariant
BY ServersInitially, ServersStep, PTL DEF ServersSpec

\* server_conf_load: the tables of groups and servers keep their types, the
\* table of rates included.
THEOREM ServersTypeCorrect == ServersSpec => []ServersTypeOK
BY ServersInvariantHolds, PTL DEF ServersInvariant

\* Whatever order the lines of server.conf and of the group files come in, each
\* of the tables holds what the lines say that were within the number in force.
THEOREM LinesAsHeardHolds == ServersSpec => []LinesAsHeard
BY ServersInvariantHolds, PTL DEF ServersInvariant

\* Every group is in the table of rates or in the list of those without one,
\* once, and its share of the running totals is its rate: for any number of
\* groups and any rates.
THEOREM SharesAreRatesHolds == ServersSpec => []SharesAreRates
BY ServersInvariantHolds, PTL DEF ServersInvariant

\* The numbers that the contexts are built from fit their arrays.
THEOREM NumbersFitHolds == ServersSpec => []NumbersFit
<1>1. ServersInvariant => NumbersFit
  BY DEF ServersInvariant, StagesKept, NumbersFit
<1> QED BY <1>1, ServersInvariantHolds, PTL

=============================================================================
