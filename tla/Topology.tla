------------------------------ MODULE Topology ------------------------------
(***************************************************************************)
(* The shape of one connection context of server.cpp: which upstream       *)
(* connections it holds, which libuv handles, and the pointer arithmetic   *)
(* by which a callback that is handed an upstream finds its context again. *)
(***************************************************************************)
EXTENDS Integers, FiniteSets

CONSTANTS
  NGroups,  \* g_sg_num, the number of server groups after server_conf_load
  SrvNum,   \* SrvNum[g], the srv_num of group g: servers configured in it
  UpBytes   \* sizeof(upstream_connect_t)

MAX_GROUP_NUM == 16
GROUP_MAX_SERVER_NUM == 10

\* server_conf_load clamps both numbers; a struct is never empty.
ASSUME TopologyAssumption ==
  /\ NGroups \in 0..MAX_GROUP_NUM
  /\ SrvNum \in [0..(NGroups - 1) -> 0..GROUP_MAX_SERVER_NUM]
  /\ UpBytes \in Nat \ {0}

GroupIdx == 0..(NGroups - 1)

\* An upstream connection is named by its group_idx and its server_idx.
Upstreams ==
  {u \in GroupIdx \X (0..(GROUP_MAX_SERVER_NUM - 1)) : u[2] < SrvNum[u[1]]}

InGroup(g) == {u \in Upstreams : u[1] = g}

(***************************************************************************)
(* The handles that keep a context alive: the accepted client, and a tcp   *)
(* and a timer handle for each upstream connection.  The idle handle of a  *)
(* context is not among them: nothing ever calls uv_close on it.           *)
(***************************************************************************)
Client   == <<"client", <<0, 0>>>>
Tcp(u)   == <<"tcp", u>>
Timer(u) == <<"timer", u>>

TcpsOf(us) == {"tcp"} \X us
Handles == {Client} \cup ({"tcp", "timer"} \X Upstreams)

(***************************************************************************)
(* gs = (Group_sock_t * )(upstream - upstream->group_idx): the callback    *)
(* steps back group_idx ELEMENTS of type upstream_connect_t, while the     *)
(* upstream lies server_idx elements into group number group_idx, and a    *)
(* group is its ten upstreams followed by four ints.  OwnerOffset is how   *)
(* many bytes past the context's Group_sock_t the result points.           *)
(***************************************************************************)
GroupBytes == GROUP_MAX_SERVER_NUM * UpBytes + 16

OwnerOffset(u) == u[1] * GroupBytes + u[2] * UpBytes - u[1] * UpBytes

RecoversCtx(u) == OwnerOffset(u) = 0
=============================================================================
