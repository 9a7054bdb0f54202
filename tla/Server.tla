------------------------------- MODULE Server -------------------------------
(***************************************************************************)
(* The event-driven core of the front end (server.cpp, core.cpp): one slot *)
(* for a connection context (conn_ctx_t), with the client connection, the  *)
(* upstream connections opened for it, the idle handle that distributes a  *)
(* request, the worker that renders the page, and the need_close count     *)
(* that decides when the context is freed.                                 *)
(*                                                                         *)
(* Contexts share nothing but the heap their memory comes from, so one     *)
(* slot that is freed and allocated again shows what a client may meet.    *)
(*                                                                         *)
(* Every callback runs on the loop thread.  An iteration of the loop has   *)
(* three phases: the idle handles, the I/O callbacks (and the after-work   *)
(* callback), the close callbacks.  Only handle_request runs on another    *)
(* thread, in any phase.                                                   *)
(*                                                                         *)
(* Where the code calls libuv against its contract, or uses memory it has  *)
(* freed or mis-computed, the program has no defined continuation: the     *)
(* step sets fault to the reason and the model stops there.                *)
(*                                                                         *)
(* Two breaches are so common that nothing could be said after them: every *)
(* free of a context leaves its idle handle, initialised and never closed, *)
(* in the queue of the loop's handles, and every reconnect initialises a   *)
(* timer that is still in it.  They are counted, in dangling and relinked, *)
(* and the model goes on as if the broken links of that queue led to no    *)
(* memory it knows of.                                                     *)
(***************************************************************************)
EXTENDS Topology, Sequences

CONSTANTS
  MaxConn,  \* bound: connections accepted in a behaviour
  MaxReq,   \* bound: requests read on one connection
  Env       \* what the clients, the upstreams and the heap may do

EnvEvents == {
  "hangup",       \* the client closes or resets while it waits for an answer
  "pipeline",     \* the client sends a request before the previous answer
  "bad_magic",    \* the client sends bytes whose magic is not a request's
  "accept_fail",  \* uv_accept fails
  "connect_fail", \* a connection to an upstream fails, at once or later
  "write_fail",   \* uv_write of a request fails at once
  "send_fail",    \* uv_write of a request fails in its callback
  "read_fail",    \* an upstream closes or resets while its reply is awaited
  "split_reply",  \* a reply arrives in two reads
  "heap_reuse"}   \* malloc hands out the memory of the context freed before

ASSUME ServerAssumption ==
  /\ MaxConn \in Nat /\ MaxReq \in Nat
  /\ Env \subseteq EnvEvents

May(event) == event \in Env

\* upstream_connect_status_t.  upstream_connect_init and upstream_connect_fail
\* are overwritten before any other callback can see them.
Status == {"connecting", "idle", "work", "close", "wait_reconnect"}

Faults == {
  "none",
  "wild_ctx",      \* a callback computes the wrong context from an upstream
  "double_close",  \* uv_close on a handle that is closing or closed
  "freed_in_use",  \* the context is freed while its idler or worker is active
  "requeued_work", \* uv_queue_work on a request the pool still holds
  "write_reuse"}   \* uv_write with a request still queued on the stream

\* The requests of a connection are numbered from 1.
Tags == 0..MaxReq

VARIABLES
  phase,        \* of the loop: "idle", "io" or "close"
  fault,        \* "none" while the behaviour is defined
  conns,        \* connections accepted so far
  mem,          \* "live" from malloc to free of the context
  dangling,     \* freed contexts whose idle handle is still in the loop's queue
  relinked,     \* upstreams whose timer was initialised again while open
  need_close,   \* ctx->need_close
  handles,      \* handles initialised whose close callback has not yet run
  closing,      \* those of them on which uv_close was called
  reconnecting, \* upstreams whose tcp closes with upstream_reconnect_tcp_cb
  status,       \* up->status
  connReq,      \* upstreams with a connect request under way
  writeReq,     \* upstreams with a write request under way
  reading,      \* upstreams between uv_read_start and the read it waits for
  owed,         \* owed[u]: the chunks u will still send, each named by its request
  sock_num, connecting, lru,           \* of each group
  distribute_count, response_count,    \* of the context
  skew,         \* distribute_count - response_count as malloc delivered them
  idler,        \* the idle handle is started
  asked,        \* requests accepted on this connection
  merged,       \* requests whose replies are in upstream_response
  worker,       \* "none", "queued", "running" or "done"
  seen,         \* what the running worker has read of upstream_response
  page,         \* requests whose replies response_buf shows, {} if len = 0
  respWrite,    \* ctx->write is queued on the client stream
  answers,      \* the pages written to this client, in order
  upset         \* an upstream failed this connection while serving a request

breachVars == <<dangling, relinked>>
loopVars  == <<phase, conns, mem, breachVars>>
lifeVars  == <<need_close, handles, closing, reconnecting>>
linkVars  == <<status, connReq, writeReq, reading, owed, upset>>
groupVars == <<sock_num, connecting, lru>>
countVars == <<distribute_count, response_count, skew>>
reqVars   == <<idler, asked, merged>>
workVars  == <<worker, seen, page, respWrite, answers>>

vars == <<loopVars, fault, lifeVars, linkVars, groupVars, countVars, reqVars,
          workVars>>

TypeOK ==
  /\ phase \in {"idle", "io", "close"}
  /\ fault \in Faults
  /\ conns \in 0..MaxConn
  /\ mem \in {"none", "live"}
  /\ dangling \in Nat
  /\ relinked \subseteq Upstreams
  /\ need_close \in Int
  /\ handles \subseteq Handles
  /\ closing \subseteq Handles
  /\ reconnecting \subseteq Upstreams
  /\ status \in [Upstreams -> Status]
  /\ connReq \subseteq Upstreams
  /\ writeReq \subseteq Upstreams
  /\ reading \subseteq Upstreams
  /\ owed \in [Upstreams -> Seq(Tags)]
  /\ upset \in BOOLEAN
  /\ sock_num \in [GroupIdx -> Int]
  /\ connecting \in [GroupIdx -> Int]
  /\ lru \in [GroupIdx -> Nat]
  /\ distribute_count \in Int
  /\ response_count \in Int
  /\ skew \in Int
  /\ idler \in BOOLEAN
  /\ asked \in 0..MaxReq
  /\ merged \subseteq Tags
  /\ worker \in {"none", "queued", "running", "done"}
  /\ seen \subseteq Tags
  /\ page \subseteq Tags
  /\ respWrite \in BOOLEAN
  /\ answers \in Seq(SUBSET Tags)

Init ==
  /\ phase = "idle" /\ fault = "none" /\ conns = 0 /\ mem = "none"
  /\ dangling = 0 /\ relinked = {}
  /\ need_close = 0 /\ handles = {} /\ closing = {} /\ reconnecting = {}
  /\ status = [u \in Upstreams |-> "connecting"]
  /\ connReq = {} /\ writeReq = {} /\ reading = {}
  /\ owed = [u \in Upstreams |-> <<>>]
  /\ upset = FALSE
  /\ sock_num = [g \in GroupIdx |-> 0]
  /\ connecting = [g \in GroupIdx |-> 0]
  /\ lru = [g \in GroupIdx |-> 0]
  /\ distribute_count = 0 /\ response_count = 0 /\ skew = 0
  /\ idler = FALSE /\ asked = 0 /\ merged = {}
  /\ worker = "none" /\ seen = {} /\ page = {}
  /\ respWrite = FALSE /\ answers = <<>>

-----------------------------------------------------------------------------
(***************************************************************************)
(* Pieces of handlers.                                                     *)
(***************************************************************************)

\* The step ends in undefined behaviour; what it did before is of no interest.
Fail(reason) ==
  /\ fault' = reason
  /\ UNCHANGED <<loopVars, lifeVars, linkVars, groupVars, countVars, reqVars,
                 workVars>>

\* libuv delivers reads and write results on a handle until uv_close.
Listening(h) == h \in handles \ closing

\* Mutant: the upstreams are forgotten.
ContextCloseClientOnly ==
  IF closing = {}
    THEN closing' = {Client} /\ fault' = fault
    ELSE closing' = closing /\ fault' = "double_close"

\* context_close: upstream_clean closes the timer and the tcp of every
\* upstream, then the client is closed.  The idle handle and the worker are
\* left as they are.
ContextClose ==
  IF closing = {}
    THEN closing' = handles /\ fault' = fault
    ELSE closing' = closing /\ fault' = "double_close"

\* Mutants: a callback frees one reference early, or one late.
ReleaseAt(h, limit) ==
  /\ handles' = handles \ {h}
  /\ closing' = closing \ {h}
  /\ need_close' = need_close - 1
  /\ mem' = IF need_close' < limit THEN "none" ELSE mem
  /\ dangling' = IF need_close' < limit THEN dangling + 1 ELSE dangling
  /\ fault' = fault
ReleaseEarly(h) == ReleaseAt(h, 2)
ReleaseLate(h) == ReleaseAt(h, 0)

\* The tail of the close callbacks upstream_tcp_clean_cb,
\* upstream_timer_clean_cb and context_clean_cb.  The idle handle is not among
\* the handles that are closed: the context is freed with it.
Release(h) ==
  /\ handles' = handles \ {h}
  /\ closing' = closing \ {h}
  /\ need_close' = need_close - 1
  /\ mem' = IF need_close' < 1 THEN "none" ELSE mem
  /\ dangling' = IF need_close' < 1 THEN dangling + 1 ELSE dangling
  /\ fault' = IF need_close' < 1 /\ (idler \/ worker # "none")
                THEN "freed_in_use" ELSE fault

\* Mutant: the reference of the timer is forgotten.
ServerErrKeepsRef(us) ==
  /\ status' = [u \in Upstreams |-> IF u \in us THEN "close" ELSE status[u]]
  /\ sock_num' = [g \in GroupIdx |->
                    sock_num[g] - Cardinality(us \cap InGroup(g))]
  /\ reconnecting' = reconnecting \cup us
  /\ closing' = closing \cup TcpsOf(us)
  /\ upset' = TRUE
  /\ UNCHANGED need_close

\* upstream_server_err for the upstreams in us.  The timer is stopped, not
\* closed, yet need_close is decremented for it.
UpstreamServerErr(us) ==
  /\ status' = [u \in Upstreams |-> IF u \in us THEN "close" ELSE status[u]]
  /\ sock_num' = [g \in GroupIdx |->
                    sock_num[g] - Cardinality(us \cap InGroup(g))]
  /\ need_close' = need_close - Cardinality(us)
  /\ reconnecting' = reconnecting \cup us
  /\ closing' = closing \cup TcpsOf(us)
  /\ upset' = TRUE

-----------------------------------------------------------------------------
(***************************************************************************)
(* Connecting: on_new_connection, upstream_connect_cb.                     *)
(***************************************************************************)

\* on_new_connection: a fresh context, a connection to every upstream of
\* every group, then the accept.  refused are the upstreams for which
\* uv_tcp_connect fails at once.  The two counters of gs are not initialised.
OnNewConnection(refused, accepted) ==
  /\ phase = "io" /\ mem = "none" /\ conns < MaxConn
  /\ refused # {} => May("connect_fail")
  /\ accepted \/ May("accept_fail")
  /\ mem' = "live" /\ conns' = conns + 1
  /\ handles' = Handles
  /\ need_close' = 1 + 2 * Cardinality(Upstreams)
  /\ reconnecting' = {} /\ relinked' = {}
  /\ closing' = IF accepted THEN {} ELSE Handles
  /\ status' = [u \in Upstreams |->
                  IF u \in refused THEN "wait_reconnect" ELSE "connecting"]
  /\ connReq' = Upstreams \ refused
  /\ writeReq' = {} /\ reading' = {} /\ owed' = [u \in Upstreams |-> <<>>]
  /\ upset' = FALSE
  /\ sock_num' = [g \in GroupIdx |-> 0]
  /\ connecting' = [g \in GroupIdx |-> Cardinality(InGroup(g) \ refused)]
  /\ lru' = [g \in GroupIdx |-> 0]
  /\ \/ distribute_count' = 0 /\ response_count' = 0
     \/ May("heap_reuse") /\ UNCHANGED <<distribute_count, response_count>>
  /\ skew' = distribute_count' - response_count'
  /\ idler' = FALSE /\ asked' = 0 /\ merged' = {}
  /\ worker' = "none" /\ seen' = {} /\ page' = {}
  /\ respWrite' = FALSE /\ answers' = <<>>
  /\ UNCHANGED <<phase, dangling, fault>>

\* Mutants: a failure ends in upstream_connect_fail, or leaves the status as it
\* was; the counts are taken from
\* the first group.
ConnectedLeavesFail(u, ok) ==
  /\ connReq' = connReq \ {u}
  /\ connecting' = [connecting EXCEPT ![u[1]] = @ - 1]
  /\ status' = [status EXCEPT ![u] = IF ok THEN "idle" ELSE "connect_fail"]
  /\ sock_num' = IF ok THEN [sock_num EXCEPT ![u[1]] = @ + 1] ELSE sock_num
ConnectedKeepsStatus(u, ok) ==
  /\ connReq' = connReq \ {u}
  /\ connecting' = [connecting EXCEPT ![u[1]] = @ - 1]
  /\ status' = IF ok THEN [status EXCEPT ![u] = "idle"] ELSE status
  /\ sock_num' = IF ok THEN [sock_num EXCEPT ![u[1]] = @ + 1] ELSE sock_num
ConnectedFirstGroup(u, ok) ==
  /\ connReq' = connReq \ {u}
  /\ connecting' = [connecting EXCEPT ![0] = @ - 1]
  /\ status' = [status EXCEPT ![u] = IF ok THEN "idle" ELSE "wait_reconnect"]
  /\ sock_num' = IF ok THEN [sock_num EXCEPT ![0] = @ + 1] ELSE sock_num

\* upstream_connect_cb, the part common to a callback that reports success or
\* failure and to the cancellation of the request by a close.
Connected(u, ok) ==
  /\ connReq' = connReq \ {u}
  /\ connecting' = [connecting EXCEPT ![u[1]] = @ - 1]
  /\ status' = [status EXCEPT ![u] = IF ok THEN "idle" ELSE "wait_reconnect"]
  /\ sock_num' = IF ok THEN [sock_num EXCEPT ![u[1]] = @ + 1] ELSE sock_num

\* The group is found through req->data, so this callback is right for every
\* upstream.
UpstreamConnectCb(u, ok) ==
  /\ phase = "io" /\ u \in connReq /\ Listening(Tcp(u))
  /\ ok \/ May("connect_fail")
  /\ Connected(u, ok)
  /\ UNCHANGED <<loopVars, fault, lifeVars, writeReq, reading, owed, upset,
                 lru, countVars, reqVars, workVars>>

-----------------------------------------------------------------------------
(***************************************************************************)
(* The client: on_request, and do_distribute in the idle phase.            *)
(***************************************************************************)

\* The client has its answers: they were written out, which libuv reports
\* before it reads from the client again.
AllAnswered == asked = Len(answers) /\ ~respWrite

\* Mutant: upstream_response is not emptied.
OnRequestKeepsReply ==
  /\ phase = "io" /\ Listening(Client) /\ asked < MaxReq
  /\ AllAnswered \/ May("pipeline")
  /\ asked' = asked + 1
  /\ page' = {} /\ idler' = TRUE
  /\ UNCHANGED <<loopVars, fault, lifeVars, linkVars, groupVars, countVars,
                 merged, worker, seen, respWrite, answers>>

\* on_request, nread > 0 and the magic is a request's.  The request buffer is
\* filled from its start, upstream_response and response_buf are emptied,
\* whatever else is under way.
OnRequest ==
  /\ phase = "io" /\ Listening(Client) /\ asked < MaxReq
  /\ AllAnswered \/ May("pipeline")
  /\ asked' = asked + 1
  /\ merged' = {} /\ page' = {}
  /\ idler' = TRUE
  /\ UNCHANGED <<loopVars, fault, lifeVars, linkVars, groupVars, countVars,
                 worker, seen, respWrite, answers>>

\* Mutant: the return after context_close is missing.
OnBadRequestFallsThrough ==
  /\ phase = "io" /\ Listening(Client) /\ May("bad_magic")
  /\ AllAnswered \/ May("pipeline")
  /\ page' = {} /\ merged' = {} /\ idler' = TRUE
  /\ ContextClose
  /\ UNCHANGED <<loopVars, need_close, handles, reconnecting, linkVars,
                 groupVars, countVars, asked, worker, seen, respWrite,
                 answers>>

\* on_request, nread > 0 and the magic is not a request's.
OnBadRequest ==
  /\ phase = "io" /\ Listening(Client) /\ May("bad_magic")
  /\ AllAnswered \/ May("pipeline")
  /\ page' = {}
  /\ ContextClose
  /\ UNCHANGED <<loopVars, need_close, handles, reconnecting, linkVars,
                 groupVars, countVars, reqVars, worker, seen, respWrite,
                 answers>>

\* on_request, nread < 0: end of file or an error on the client.
OnClientEof ==
  /\ phase = "io" /\ Listening(Client)
  /\ AllAnswered \/ May("hangup")
  /\ ContextClose
  /\ UNCHANGED <<loopVars, need_close, handles, reconnecting, linkVars,
                 groupVars, countVars, reqVars, workVars>>

NeedWaitUpstream == \E g \in GroupIdx : connecting[g] > 0

\* The k-th upstream after lru that distribute_request_group looks at.
Probe(g, k) == <<g, (lru[g] + k) % SrvNum[g]>>

\* Mutants: every server is probed and any status but work will do; the last
\* probe is missing.
PickedAnyStatus ==
  {u \in Upstreams : \E k \in 1..SrvNum[u[1]] :
     /\ u = Probe(u[1], k)
     /\ status[u] # "work"
     /\ \A j \in 1..(k - 1) : status[Probe(u[1], j)] = "work"}
PickedOneShort ==
  {u \in Upstreams : \E k \in 1..(sock_num[u[1]] - 1) :
     /\ u = Probe(u[1], k)
     /\ status[u] = "idle"
     /\ \A j \in 1..(k - 1) : status[Probe(u[1], j)] # "idle"}

\* distribute_request_group: it makes sock_num probes, not one per server, and
\* takes the first idle upstream.  At most one upstream of each group.
Picked ==
  {u \in Upstreams : \E k \in 1..sock_num[u[1]] :
     /\ u = Probe(u[1], k)
     /\ status[u] = "idle"
     /\ \A j \in 1..(k - 1) : status[Probe(u[1], j)] # "idle"}

\* do_distribute while a connection is still being set up: the idle handle is
\* started again.
WaitUpstream ==
  /\ phase = "idle" /\ idler /\ NeedWaitUpstream
  /\ phase' = "io"
  /\ UNCHANGED <<conns, mem, breachVars, fault, lifeVars, linkVars, groupVars,
                 countVars, reqVars, workVars>>

\* do_distribute otherwise: the request goes to one upstream of each group.
\* lost are the picked upstreams on which uv_write fails at once.  When no
\* group took the request the context is closed; a tcp that upstream_server_err
\* has just closed is then closed again.
DoDistribute(lost) ==
  /\ phase = "idle" /\ idler /\ ~NeedWaitUpstream
  /\ lost \subseteq Picked
  /\ lost # {} => May("write_fail")
  /\ LET sent == Picked \ lost IN
     \/ /\ sent = {} /\ lost # {}
        /\ Fail("double_close")
     \/ /\ sent = {} /\ lost = {}
        /\ ContextClose
        /\ phase' = "io" /\ idler' = FALSE
        /\ UNCHANGED <<conns, mem, breachVars, need_close, handles,
                       reconnecting, linkVars, groupVars, countVars, asked,
                       merged, workVars>>
     \/ /\ sent # {}
        /\ phase' = "io" /\ idler' = FALSE
        /\ status' = [u \in Upstreams |-> IF u \in sent THEN "work"
                                          ELSE IF u \in lost THEN "close"
                                          ELSE status[u]]
        /\ lru' = [g \in GroupIdx |->
                     IF \E u \in Picked : u[1] = g
                       THEN (CHOOSE u \in Picked : u[1] = g)[2]
                       ELSE lru[g]]
        /\ writeReq' = writeReq \cup sent
        /\ sock_num' = [g \in GroupIdx |->
                          sock_num[g] - Cardinality(lost \cap InGroup(g))]
        /\ need_close' = need_close - Cardinality(lost)
        /\ reconnecting' = reconnecting \cup lost
        /\ closing' = closing \cup TcpsOf(lost)
        /\ upset' = (upset \/ lost # {})
        /\ UNCHANGED <<conns, mem, breachVars, fault, handles, connReq,
                       reading, owed, connecting, countVars, asked, merged,
                       workVars>>

-----------------------------------------------------------------------------
(***************************************************************************)
(* An upstream: distribute_upstream_cb, on_got_upstream_response.          *)
(***************************************************************************)

\* distribute_upstream_cb, status = 0.  The upstream will answer, in one chunk
\* or in two.
RequestSent(u) ==
  /\ phase = "io" /\ u \in writeReq /\ Listening(Tcp(u))
  /\ IF ~RecoversCtx(u) THEN Fail("wild_ctx") ELSE
     /\ writeReq' = writeReq \ {u}
     /\ distribute_count' = distribute_count + 1
     /\ reading' = reading \cup {u}
     /\ \/ owed' = [owed EXCEPT ![u] = Append(@, asked)]
        \/ /\ May("split_reply")
           /\ owed' = [owed EXCEPT ![u] = @ \o <<asked, asked>>]
     /\ UNCHANGED <<loopVars, fault, lifeVars, status, connReq, upset,
                    groupVars, response_count, skew, reqVars, workVars>>

\* distribute_upstream_cb, status # 0.
RequestNotSent(u) ==
  /\ phase = "io" /\ u \in writeReq /\ Listening(Tcp(u)) /\ May("send_fail")
  /\ IF ~RecoversCtx(u) THEN Fail("wild_ctx") ELSE
     /\ writeReq' = writeReq \ {u}
     /\ UpstreamServerErr({u})
     /\ UNCHANGED <<loopVars, fault, handles, connReq, reading, owed,
                    connecting, lru, countVars, reqVars, workVars>>

\* Mutants of the test that follows: one reply less, or one more, is enough.
CompleteEarly == response_count + 1 >= distribute_count - 1
CompleteStrict == response_count + 1 > distribute_count

\* response_count >= distribute_count, once this read is counted.
Complete == response_count + 1 >= distribute_count

\* Mutant: reading is not stopped.
OnGotKeepsReading(u) ==
  /\ phase = "io" /\ u \in reading /\ Listening(Tcp(u)) /\ owed[u] # <<>>
  /\ IF Complete /\ worker # "none" THEN Fail("requeued_work") ELSE
       /\ response_count' = response_count + 1
       /\ status' = [status EXCEPT ![u] = "idle"]
       /\ merged' = merged \cup {Head(owed[u])}
       /\ owed' = [owed EXCEPT ![u] = Tail(@)]
       /\ worker' = IF Complete THEN "queued" ELSE worker
       /\ UNCHANGED <<loopVars, fault, lifeVars, connReq, writeReq, reading,
                      upset, groupVars, distribute_count, skew, idler, asked,
                      seen, page, respWrite, answers>>

\* on_got_upstream_response, nread > 0: the first chunk counts as the whole
\* reply; need_merge is always 1.  Once as many reads as writes were counted
\* the worker is queued.
OnGotUpstreamResponse(u) ==
  /\ phase = "io" /\ u \in reading /\ Listening(Tcp(u)) /\ owed[u] # <<>>
  /\ IF ~RecoversCtx(u) THEN Fail("wild_ctx") ELSE
     IF Complete /\ worker # "none" THEN Fail("requeued_work") ELSE
       /\ response_count' = response_count + 1
       /\ reading' = reading \ {u}
       /\ status' = [status EXCEPT ![u] = "idle"]
       /\ merged' = merged \cup {Head(owed[u])}
       /\ owed' = [owed EXCEPT ![u] = Tail(@)]
       /\ worker' = IF Complete THEN "queued" ELSE worker
       /\ UNCHANGED <<loopVars, fault, lifeVars, connReq, writeReq, upset,
                      groupVars, distribute_count, skew, idler, asked, seen,
                      page, respWrite, answers>>

\* Mutant: the failed read is not counted.
OnUpstreamEofUncounted(u) ==
  /\ phase = "io" /\ u \in reading /\ Listening(Tcp(u)) /\ May("read_fail")
  /\ reading' = reading \ {u}
  /\ UpstreamServerErr({u})
  /\ UNCHANGED <<loopVars, fault, handles, connReq, writeReq, owed,
                 connecting, lru, countVars, reqVars, workVars>>

\* on_got_upstream_response, nread < 0.  The worker is not queued.
OnUpstreamEof(u) ==
  /\ phase = "io" /\ u \in reading /\ Listening(Tcp(u)) /\ May("read_fail")
  /\ IF ~RecoversCtx(u) THEN Fail("wild_ctx") ELSE
     /\ response_count' = response_count + 1
     /\ reading' = reading \ {u}
     /\ UpstreamServerErr({u})
     /\ UNCHANGED <<loopVars, fault, handles, connReq, writeReq, owed,
                    connecting, lru, distribute_count, skew, reqVars, workVars>>

-----------------------------------------------------------------------------
(***************************************************************************)
(* The answer: handle_request on a pool thread, send_response.             *)
(***************************************************************************)

\* handle_request starts worker_handler, which reads upstream_response.
HandleRequest ==
  /\ worker = "queued"
  /\ worker' = "running" /\ seen' = merged
  /\ UNCHANGED <<loopVars, fault, lifeVars, linkVars, groupVars, countVars,
                 reqVars, page, respWrite, answers>>

\* worker_handler returns: a page, or "{}" when no template fits.  The loop
\* thread may have changed upstream_response meanwhile: the page then shows the
\* old contents, the new ones or some of both.
WorkerDone ==
  /\ worker = "running"
  /\ worker' = "done"
  /\ page' \in {seen, merged, seen \cup merged}
  /\ UNCHANGED <<loopVars, fault, lifeVars, linkVars, groupVars, countVars,
                 reqVars, seen, respWrite, answers>>

\* send_response, the after-work callback.  uv_write fails, unnoticed, on a
\* client that was closed.
SendResponse ==
  /\ phase = "io" /\ worker = "done"
  /\ \/ Listening(Client) /\ respWrite /\ Fail("write_reuse")
     \/ /\ Listening(Client) /\ ~respWrite
        /\ respWrite' = TRUE /\ answers' = Append(answers, page)
        /\ worker' = "none"
        /\ UNCHANGED <<loopVars, fault, lifeVars, linkVars, groupVars,
                       countVars, reqVars, seen, page>>
     \/ /\ ~Listening(Client)
        /\ worker' = "none"
        /\ UNCHANGED <<loopVars, fault, lifeVars, linkVars, groupVars,
                       countVars, reqVars, seen, page, respWrite, answers>>

ResponseSendCb ==
  /\ phase = "io" /\ respWrite /\ Listening(Client)
  /\ respWrite' = FALSE
  /\ UNCHANGED <<loopVars, fault, lifeVars, linkVars, groupVars, countVars,
                 reqVars, worker, seen, page, answers>>

-----------------------------------------------------------------------------
(***************************************************************************)
(* The close callbacks.                                                    *)
(***************************************************************************)

\* context_clean_cb.  A write still queued on the client was cancelled, with a
\* callback that changes nothing.
CloseClient ==
  /\ phase = "close" /\ Client \in closing
  /\ Release(Client)
  /\ respWrite' = FALSE
  /\ UNCHANGED <<phase, conns, relinked, reconnecting, linkVars, groupVars,
                 countVars, reqVars, worker, seen, page, answers>>

\* upstream_timer_clean_cb.
CloseTimer(u) ==
  /\ phase = "close" /\ Timer(u) \in closing
  /\ IF ~RecoversCtx(u) THEN Fail("wild_ctx") ELSE
     /\ Release(Timer(u))
     /\ UNCHANGED <<phase, conns, relinked, reconnecting, linkVars, groupVars,
                    countVars, reqVars, workVars>>

\* upstream_tcp_clean_cb.  libuv first cancels the requests queued on the tcp:
\* a connect request gets its callback with an error; so does a write request,
\* and distribute_upstream_cb then calls upstream_server_err, which closes the
\* closed tcp once more.
CloseTcp(u) ==
  /\ phase = "close" /\ Tcp(u) \in closing /\ u \notin reconnecting
  /\ IF ~RecoversCtx(u) THEN Fail("wild_ctx") ELSE
     IF u \in writeReq THEN Fail("double_close") ELSE
     /\ Release(Tcp(u))
     /\ IF u \in connReq
          THEN Connected(u, FALSE)
          ELSE UNCHANGED <<connReq, connecting, status, sock_num>>
     /\ UNCHANGED <<phase, conns, relinked, reconnecting, writeReq, reading,
                    owed, upset, lru, countVars, reqVars, workVars>>

\* upstream_reconnect_tcp_cb: one reference is dropped, then
\* upstream_connect_group_server initialises timer and tcp again, takes two
\* and connects.  The tcp has just been closed; the timer was only stopped.
ReconnectTcp(u, refused) ==
  /\ phase = "close" /\ Tcp(u) \in closing /\ u \in reconnecting
  /\ refused => May("connect_fail")
  /\ IF ~RecoversCtx(u) THEN Fail("wild_ctx") ELSE
     /\ need_close' = need_close - 1 + 2
     /\ closing' = closing \ {Tcp(u)}
     /\ reconnecting' = reconnecting \ {u}
     /\ relinked' = relinked \cup {u}
     /\ owed' = [owed EXCEPT ![u] = <<>>]
     /\ IF refused
          THEN /\ status' = [status EXCEPT ![u] = "wait_reconnect"]
               /\ UNCHANGED <<connReq, connecting>>
          ELSE /\ status' = [status EXCEPT ![u] = "connecting"]
               /\ connReq' = connReq \cup {u}
               /\ connecting' = [connecting EXCEPT ![u[1]] = @ + 1]
     /\ UNCHANGED <<phase, conns, mem, dangling, fault, handles, writeReq,
                    reading, upset, sock_num, lru, countVars, reqVars, workVars>>

-----------------------------------------------------------------------------
(***************************************************************************)
(* The loop.                                                               *)
(***************************************************************************)

NoIdler ==
  /\ phase = "idle" /\ ~idler /\ phase' = "io"
  /\ UNCHANGED <<conns, mem, breachVars, fault, lifeVars, linkVars, groupVars,
                 countVars, reqVars, workVars>>

EndOfIo ==
  /\ phase = "io" /\ phase' = "close"
  /\ UNCHANGED <<conns, mem, breachVars, fault, lifeVars, linkVars, groupVars,
                 countVars, reqVars, workVars>>

EndOfIteration ==
  /\ phase = "close" /\ closing = {} /\ phase' = "idle"
  /\ UNCHANGED <<conns, mem, breachVars, fault, lifeVars, linkVars, groupVars,
                 countVars, reqVars, workVars>>

IdlePhase == NoIdler \/ WaitUpstream \/ \E lost \in SUBSET Upstreams : DoDistribute(lost)

ClosePhase ==
  \/ CloseClient
  \/ \E u \in Upstreams :
       \/ CloseTimer(u) \/ CloseTcp(u)
       \/ \E refused \in BOOLEAN : ReconnectTcp(u, refused)
  \/ EndOfIteration

ClientCallbacks ==
  \/ \E refused \in SUBSET Upstreams, accepted \in BOOLEAN :
       OnNewConnection(refused, accepted)
  \/ OnRequest \/ OnBadRequest \/ OnClientEof

UpstreamCallbacks ==
  \E u \in Upstreams :
    \/ \E ok \in BOOLEAN : UpstreamConnectCb(u, ok)
    \/ RequestSent(u) \/ RequestNotSent(u)
    \/ OnGotUpstreamResponse(u) \/ OnUpstreamEof(u)

AnswerSteps == HandleRequest \/ WorkerDone \/ SendResponse \/ ResponseSendCb

Next ==
  /\ fault = "none"
  /\ IdlePhase \/ ClosePhase \/ ClientCallbacks \/ UpstreamCallbacks
     \/ AnswerSteps \/ EndOfIo

(***************************************************************************)
(* The loop thread never blocks in a callback, the pool runs what is       *)
(* queued, and libuv delivers the result of every request and the reply an *)
(* upstream has sent: a callback that is ready again and again is run.     *)
(* Nothing is assumed of the client.                                       *)
(***************************************************************************)
Defined(A) == fault = "none" /\ A

Fairness ==
  /\ WF_vars(Defined(IdlePhase))
  /\ WF_vars(Defined(EndOfIo))
  /\ WF_vars(Defined(ClosePhase))
  /\ WF_vars(Defined(HandleRequest \/ WorkerDone))
  /\ SF_vars(Defined(SendResponse))
  /\ SF_vars(Defined(ResponseSendCb))
  /\ \A u \in Upstreams :
       /\ SF_vars(Defined(\E ok \in BOOLEAN : UpstreamConnectCb(u, ok)))
       /\ SF_vars(Defined(RequestSent(u) \/ RequestNotSent(u)))
       /\ SF_vars(Defined(OnGotUpstreamResponse(u) \/ OnUpstreamEof(u)))

Spec == Init /\ [][Next]_vars

FairSpec == Spec /\ Fairness

-----------------------------------------------------------------------------
(***************************************************************************)
(* Safety.                                                                 *)
(***************************************************************************)

\* need_close counts exactly the handles whose close callback is still to
\* come, less one for each upstream between upstream_server_err (which counts
\* its timer as closed) and upstream_reconnect_tcp_cb (which takes two again).
CloseAccounting ==
  need_close = Cardinality(handles) - Cardinality(reconnecting)

\* The context is freed by the last close callback, not before and not later,
\* although upstream_server_err takes references away ahead of the callbacks.
FreedByLastClose == mem = "live" <=> handles # {}

\* A context is either serving, and then only upstreams on their way to a
\* reconnect are closing, or it is shut down as a whole.
CloseShape ==
  \/ mem = "none" /\ handles = {} /\ closing = {} /\ reconnecting = {}
  \/ mem = "live" /\ handles = Handles /\ closing = TcpsOf(reconnecting)
  \/ mem = "live" /\ handles # {} /\ closing = handles /\ reconnecting = {}

\* up->status says what libuv is doing for the upstream.
StatusTruthful ==
  mem = "live" => \A u \in Upstreams :
    /\ status[u] = "work" <=> u \in writeReq \cup reading
    /\ status[u] = "connecting" <=> u \in connReq
    /\ status[u] = "close" <=> u \in reconnecting
    /\ ~(u \in writeReq /\ u \in reading)

\* The counters a group's decisions rest on are those of its upstreams:
\* need_wait_upstream waits for real connects, and distribute_request_group
\* probes as often as there are connected upstreams.
GroupCounts ==
  mem = "live" => \A g \in GroupIdx :
    /\ sock_num[g] = Cardinality({u \in InGroup(g) : status[u] \in {"idle", "work"}})
    /\ connecting[g] = Cardinality({u \in InGroup(g) : status[u] = "connecting"})

\* The counters of gs differ by the replies still awaited, plus whatever
\* difference the uninitialised memory started with.
CountersBalance ==
  mem = "live" =>
    distribute_count - response_count = skew + Cardinality(reading)

\* A context that malloc handed over with distribute_count ahead of
\* response_count never queues its worker: its client is never answered.
SkewStarves == skew > 0 => worker = "none" /\ answers = <<>>

\* The i-th answer a client gets is made of the reply to its i-th request and
\* of nothing else.
AnswersOwnRequest == \A i \in DOMAIN answers : answers[i] = {i}

\* Each context that was freed left its idle handle in the loop's queue.  A
\* connection was failed by an upstream exactly if one of them is on its way to
\* a reconnect or came back, its timer initialised while open.
BreachesCounted ==
  /\ dangling = IF mem = "live" THEN conns - 1 ELSE conns
  /\ upset <=> reconnecting \cup relinked # {}

\* The contracts of libuv and of the heap are broken in those two ways and in
\* no other.
OnlyKnownBreaches == fault = "none" /\ BreachesCounted

\* With every configured server connected the probes of
\* distribute_request_group reach all of them: some upstream of the group is
\* picked unless all are at work.
FullGroupServes ==
  \A g \in GroupIdx :
    /\ mem = "live" /\ sock_num[g] = SrvNum[g]
    /\ \E u \in InGroup(g) : status[u] = "idle"
    => \E u \in Picked : u[1] = g

\* "no live upstream" (server.cpp:640) is logged only when no upstream of the
\* group is connected and idle.
NoLiveUpstreamLog ==
  mem = "live" /\ ~NeedWaitUpstream =>
    \A g \in GroupIdx :
      (\A u \in Picked : u[1] # g) => \A u \in InGroup(g) : status[u] # "idle"

\* upstream_wait_reconnect is final: whatever follows, the upstream is not
\* connected again for this client.
WaitReconnectFinal ==
  [][\A u \in Upstreams :
       mem = "live" /\ status[u] = "wait_reconnect" /\ conns' = conns
         => status'[u] = "wait_reconnect"]_vars

\* A client never gets more answers than it asked for, however its requests
\* and the pieces of the replies interleave.
AtMostOneAnswer == Len(answers) <= asked

-----------------------------------------------------------------------------
(***************************************************************************)
(* Liveness, under Fairness.                                               *)
(***************************************************************************)

\* A context that is being closed is freed, unless the program fails first.
ClosingEnds == Client \in closing ~> mem = "none" \/ fault # "none"

\* A request is answered or its client dropped, unless the context started
\* with skewed counters or one of its upstreams failed: then it may wait
\* forever (the two "TODO fail" of server.cpp).
RequestSettles ==
  asked > Len(answers) ~>
    \/ asked = Len(answers) \/ Client \notin handles \ closing
    \/ skew # 0 \/ upset \/ fault # "none"

(***************************************************************************)
(* What the core promises, see Lifetime and Session.                       *)
(***************************************************************************)
LifetimeOfCtx == INSTANCE Lifetime WITH
  Parts <- Handles, held <- handles, alive <- mem = "live"

FreedOnce == LifetimeOfCtx!Spec

Link == IF mem = "none" THEN "absent"
        ELSE IF Client \in handles \ closing THEN "open" ELSE "closing"

SessionOfClient == INSTANCE Session WITH link <- Link

ServesSession == SessionOfClient!FairSpec
=============================================================================
