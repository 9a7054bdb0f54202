----------------------------- MODULE ServerConf -----------------------------
(***************************************************************************)
(* server_conf_load (server.cpp): server.conf gives the number of groups   *)
(* and a rate for each, group_<i>.conf the number of servers of group i    *)
(* with their addresses.  A number of groups or servers may be written     *)
(* anywhere in its file, any number of times; what a line may address      *)
(* depends on the number in force when it is read.  The numbers are cut    *)
(* to the size of the arrays only after the whole file.                    *)
(*                                                                         *)
(* A line that writes outside the arrays has no defined continuation: it   *)
(* sets outside, and the model stops there.                                *)
(***************************************************************************)
EXTENDS Integers, Sequences, FiniteSetsExt

CONSTANTS
  MAX_GROUP_NUM, GROUP_MAX_SERVER_NUM,
  Numbers,   \* the numbers that may be given for groups and for servers
  Rates,     \* the rates that may be given
  Debug,     \* built with -DDEBUG
  MaxLines   \* bound: lines of a file that are understood

ASSUME ServerConfAssumption ==
  /\ MAX_GROUP_NUM \in Nat \ {0} /\ GROUP_MAX_SERVER_NUM \in Nat \ {0}
  /\ Numbers \subseteq Int /\ Rates \subseteq Int
  /\ Debug \in BOOLEAN
  /\ MaxLines \in Nat

GroupIdx  == 0..(MAX_GROUP_NUM - 1)
ServerIdx == 0..(GROUP_MAX_SERVER_NUM - 1)

\* The numbers a line may carry in its name, less 1.
Indexes == -1..(Max({MAX_GROUP_NUM, GROUP_MAX_SERVER_NUM} \cup Numbers) - 1)

VARIABLES
  file,     \* "server", "group" or "done"
  cur,      \* the group whose file is read
  g_sg_num,
  rate,     \* g_sgroup[i].rate
  g_rate,   \* [rate, id, nid], each a sequence
  srv_num,  \* g_sgroup[i].srv_num
  addr,     \* the servers whose _host and whose _port line was accepted
  lines,    \* the lines read of this file
  outside   \* a line wrote outside the arrays

tableVars == <<rate, g_rate, srv_num, addr>>
serverVars == <<file, cur, g_sg_num, tableVars, lines, outside>>

Parts == {"host", "port"}

ServersTypeOK ==
  /\ file \in {"server", "group", "done"}
  /\ cur \in 0..MAX_GROUP_NUM
  /\ file = "group" => cur < g_sg_num
  /\ g_sg_num \in Int
  /\ rate \in [GroupIdx -> Int]
  /\ g_rate \in [rate : Seq(Int), id : Seq(Int), nid : Seq(Int)]
  /\ srv_num \in [GroupIdx -> Int]
  /\ addr \in [GroupIdx -> SUBSET (Parts \X ServerIdx)]
  /\ lines \in Seq([name : {"num", "rate"} \cup Parts, idx : Int, value : Int])
  /\ outside \in BOOLEAN

\* server_conf_init.
ServersInit ==
  /\ file = "server" /\ cur = 0
  /\ g_sg_num = 0 /\ rate = [g \in GroupIdx |-> 0]
  /\ g_rate = [rate |-> <<>>, id |-> <<>>, nid |-> <<>>]
  /\ srv_num = [g \in GroupIdx |-> 0]
  /\ addr = [g \in GroupIdx |-> {}]
  /\ lines = <<>> /\ outside = FALSE

-----------------------------------------------------------------------------
Line(name, idx, value) == [name |-> name, idx |-> idx, value |-> value]

Reading(f) == file = f /\ Len(lines) < MaxLines /\ ~outside

\* server_assign_conf_item, a name that Server_group_num starts with, be it
\* empty: only as many characters as the name has are compared.
GroupNumLine(n) ==
  /\ Reading("server")
  /\ g_sg_num' = n
  /\ lines' = Append(lines, Line("num", 0, n))
  /\ UNCHANGED <<file, cur, tableVars, outside>>

\* Mutant: the number in force is not asked.
RateLineAnyIndex(i, r) ==
  /\ Reading("server")
  /\ IF i < 0 THEN UNCHANGED <<rate, outside>>
     ELSE IF i \in GroupIdx THEN rate' = [rate EXCEPT ![i] = r] /\ UNCHANGED outside
     ELSE outside' = TRUE /\ UNCHANGED rate
  /\ lines' = Append(lines, Line("rate", i, r))
  /\ UNCHANGED <<file, cur, g_sg_num, g_rate, srv_num, addr>>

\* server_assign_conf_item, Group_<i+1>_rate.
RateLine(i, r) ==
  /\ Reading("server")
  /\ IF i >= g_sg_num \/ i < 0 THEN UNCHANGED <<rate, outside>>
     ELSE IF i \in GroupIdx THEN rate' = [rate EXCEPT ![i] = r] /\ UNCHANGED outside
     ELSE outside' = TRUE /\ UNCHANGED rate
  /\ lines' = Append(lines, Line("rate", i, r))
  /\ UNCHANGED <<file, cur, g_sg_num, g_rate, srv_num, addr>>

Least(a, b) == IF a < b THEN a ELSE b

\* One turn of the loop that fills g_rate, for group i: groups with a rate are
\* listed with the running total, the others apart.
Tabulate(t, i) ==
  LET total == IF t.rate = <<>> THEN 0 ELSE t.rate[Len(t.rate)] IN
  IF rate[i] > 0
    THEN [t EXCEPT !.rate = Append(@, total + rate[i]), !.id = Append(@, i + 1)]
    ELSE [t EXCEPT !.nid = Append(@, i + 1)]

\* Mutant: the running total is not carried on.
RateTableNoTotal(n) ==
  LET t[i \in 0..n] ==
        IF i = 0 THEN g_rate
        ELSE IF rate[i - 1] > 0
          THEN [t[i - 1] EXCEPT !.rate = Append(@, rate[i - 1]), !.id = Append(@, i)]
          ELSE [t[i - 1] EXCEPT !.nid = Append(@, i)]
  IN  t[n]

RateTable(n) ==
  LET t[i \in 0..n] == IF i = 0 THEN g_rate ELSE Tabulate(t[i - 1], i - 1)
  IN  t[n]

\* The clamp of g_sg_num; a negative number runs no loop, like 0.
GroupsCut(n) == Least(n, MAX_GROUP_NUM)

\* Where the loading goes on after server.conf or a group file.
Continue(next, n) ==
  /\ cur' = next
  /\ file' = IF next < n THEN "group" ELSE "done"

\* The end of server.conf: the clamp, and the table of rates.  With no group to
\* read about, server_conf_init_fallback_for_debug makes one of one server.
EndServerFile ==
  /\ file = "server" /\ ~outside
  /\ LET n == GroupsCut(g_sg_num)
         fallback == Debug /\ n <= 0
     IN  /\ g_rate' = RateTable(Max({n, 0}))
         /\ Continue(0, n)
         /\ g_sg_num' = IF fallback THEN 1 ELSE n
         /\ srv_num' = IF fallback THEN [srv_num EXCEPT ![0] = 1] ELSE srv_num
         /\ addr' = IF fallback THEN [addr EXCEPT ![0] = @ \cup (Parts \X {0})]
                                ELSE addr
  /\ lines' = <<>>
  /\ UNCHANGED <<rate, outside>>

-----------------------------------------------------------------------------
\* server_group_assign_conf_item, a name that Server_num starts with.
ServerNumLine(n) ==
  /\ Reading("group")
  /\ srv_num' = [srv_num EXCEPT ![cur] = n]
  /\ lines' = Append(lines, Line("num", 0, n))
  /\ UNCHANGED <<file, cur, g_sg_num, rate, g_rate, addr, outside>>

\* server_group_assign_conf_item, Srv_<i+1>_host and Srv_<i+1>_port.
AddressLine(part, i) ==
  /\ Reading("group")
  /\ IF srv_num[cur] < 1 \/ i >= srv_num[cur] \/ i < 0 THEN UNCHANGED <<addr, outside>>
     ELSE IF i \in ServerIdx
       THEN addr' = [addr EXCEPT ![cur] = @ \cup {<<part, i>>}] /\ UNCHANGED outside
     ELSE outside' = TRUE /\ UNCHANGED addr
  /\ lines' = Append(lines, Line(part, i, 0))
  /\ UNCHANGED <<file, cur, g_sg_num, rate, g_rate, srv_num>>

\* Mutant: the number of servers is not cut.
EndGroupFileUncut ==
  /\ file = "group" /\ ~outside
  /\ Continue(cur + 1, g_sg_num)
  /\ lines' = <<>>
  /\ UNCHANGED <<g_sg_num, tableVars, outside>>

EndGroupFile ==
  /\ file = "group" /\ ~outside
  /\ srv_num' = [srv_num EXCEPT ![cur] = Least(@, GROUP_MAX_SERVER_NUM)]
  /\ Continue(cur + 1, g_sg_num)
  /\ lines' = <<>>
  /\ UNCHANGED <<g_sg_num, rate, g_rate, addr, outside>>

\* async_load_conf cannot open group_<cur+1>.conf.
NoGroupFile ==
  /\ file = "group" /\ lines = <<>> /\ ~outside
  /\ srv_num' = [srv_num EXCEPT ![cur] = 0]
  /\ Continue(cur + 1, g_sg_num)
  /\ UNCHANGED <<g_sg_num, rate, g_rate, addr, lines, outside>>

ServersNext ==
  \/ \E n \in Numbers : GroupNumLine(n) \/ ServerNumLine(n)
  \/ \E i \in Indexes : \/ \E r \in Rates : RateLine(i, r)
                        \/ \E part \in Parts : AddressLine(part, i)
  \/ EndServerFile \/ EndGroupFile \/ NoGroupFile

ServersSpec == ServersInit /\ [][ServersNext]_serverVars

-----------------------------------------------------------------------------
\* The number in force when line k is read: that of the last such line before
\* it, or what the file started with.
NumberAt(k) ==
  LET last == Max({j \in 1..(k - 1) : lines[j].name = "num"} \cup {0})
  IN  IF last = 0 THEN 0 ELSE lines[last].value

\* The lines about idx that were within the number in force at that moment.
Heard(name, idx) ==
  {k \in DOMAIN lines : lines[k].name = name /\ lines[k].idx = idx
                        /\ idx < NumberAt(k)}

\* server_assign_conf_item, server_group_assign_conf_item: a group has the rate
\* of the last line about it that came after a sufficient number of groups, and
\* a server has a host, or a port, if some line gave it one after a sufficient
\* number of servers.  What number comes later does not matter; a line above the
\* number in force is lost.
LinesAsHeard ==
  ~outside =>
    /\ file = "server" =>
         \A g \in GroupIdx :
           rate[g] = IF Heard("rate", g) = {} THEN 0 ELSE lines[Max(Heard("rate", g))].value
    /\ file = "group" =>
         \A part \in Parts, s \in ServerIdx :
           <<part, s>> \in addr[cur] <=> Heard(part, s) # {}

\* server_conf_load: every group that was configured is in the table of rates
\* or in the list of groups without one, exactly once, and the running totals
\* give each group of the table a share as wide as its rate.
SharesAreRates ==
  LET groups == Len(g_rate.id) + Len(g_rate.nid)
      In(seq, g) == {k \in DOMAIN seq : seq[k] = g + 1}
      Below(k) == IF k = 1 THEN 0 ELSE g_rate.rate[k - 1]
  IN  file # "server" =>
        /\ groups = Max({g_sg_num, 0}) \/ (Debug /\ groups = 0)
        /\ Len(g_rate.rate) = Len(g_rate.id)
        /\ \A g \in 0..(groups - 1) :
             /\ Cardinality(In(g_rate.id, g)) + Cardinality(In(g_rate.nid, g)) = 1
             /\ In(g_rate.id, g) # {} <=> rate[g] > 0
             /\ \A k \in In(g_rate.id, g) : g_rate.rate[k] - Below(k) = rate[g]

\* server_conf_load: what the connection contexts are built from fits the
\* arrays of a context, whatever numbers the files give.
NumbersFit ==
  file = "done" => /\ g_sg_num <= MAX_GROUP_NUM
                   /\ \A g \in GroupIdx : srv_num[g] <= GROUP_MAX_SERVER_NUM

\* "the idx [%d] is out of range" (server.cpp:336, 361): an index the code lets
\* through is one of the array it addresses.
IndexInRange == ~outside
=============================================================================
