---------------------------- MODULE ServerProofs ----------------------------
(***************************************************************************)
(* Theorems about Server, for every topology, every Env and every bound.   *)
(***************************************************************************)
EXTENDS Server, Lemmas, FiniteSetTheorems

(***************************************************************************)
(* The topology.                                                           *)
(***************************************************************************)

\* The pointer arithmetic of the callbacks is right for exactly one upstream:
\* the first server of the first group.
THEOREM OwnerOfFirstOnly ==
  ASSUME NEW u \in Upstreams
  PROVE  RecoversCtx(u) <=> u = <<0, 0>>
<1> DEFINE g == u[1]
           s == u[2]
<1>1. /\ g \in Nat /\ s \in Nat /\ u = <<g, s>>
  BY TopologyAssumption DEF Upstreams, GroupIdx, GROUP_MAX_SERVER_NUM, MAX_GROUP_NUM
<1>2. UpBytes \in Nat /\ UpBytes >= 1
  BY TopologyAssumption
<1> HIDE DEF g, s
<1>3. g * (10 * UpBytes + 16) - g * UpBytes = g * (9 * UpBytes + 16)
  BY <1>1, <1>2, Z3
<1>4. OwnerOffset(u) = g * (9 * UpBytes + 16) + s * UpBytes
  BY <1>1, <1>2, <1>3 DEF OwnerOffset, GroupBytes, GROUP_MAX_SERVER_NUM, g, s
<1>5. CASE g = 0 /\ s = 0
  BY <1>1, <1>2, <1>4, <1>5 DEF RecoversCtx
<1>6. CASE g >= 1
  <2>1. g * (9 * UpBytes + 16) >= 1 /\ s * UpBytes >= 0
    BY <1>1, <1>2, <1>6, Z3
  <2> QED BY <1>1, <1>2, <1>4, <1>6, <2>1 DEF RecoversCtx
<1>7. CASE s >= 1
  <2>1. g * (9 * UpBytes + 16) >= 0 /\ s * UpBytes >= 1
    BY <1>1, <1>2, <1>7, Z3
  <2> QED BY <1>1, <1>2, <1>4, <1>7, <2>1 DEF RecoversCtx
<1> QED BY <1>1, <1>5, <1>6, <1>7

LEMMA UpstreamsFinite == IsFiniteSet(Upstreams)
<1>a. NGroups - 1 \in Int /\ GROUP_MAX_SERVER_NUM - 1 \in Int /\ 0 \in Int
  BY TopologyAssumption DEF GROUP_MAX_SERVER_NUM, MAX_GROUP_NUM
<1>b. IsFiniteSet(0..(NGroups - 1)) /\ IsFiniteSet(0..(GROUP_MAX_SERVER_NUM - 1))
  BY <1>a, FS_Interval
<1>1. IsFiniteSet(GroupIdx) /\ IsFiniteSet(0..(GROUP_MAX_SERVER_NUM - 1))
  BY <1>b DEF GroupIdx
<1>2. IsFiniteSet(GroupIdx \X (0..(GROUP_MAX_SERVER_NUM - 1)))
  BY <1>1, FS_Product
<1> QED BY <1>2, FS_Subset DEF Upstreams

LEMMA UpstreamInGroup ==
  ASSUME NEW u \in Upstreams
  PROVE  u[1] \in GroupIdx
BY DEF Upstreams

\* A context has a client handle and two handles for each upstream.
LEMMA HandleCount ==
  /\ IsFiniteSet(Handles)
  /\ Cardinality(Handles) = 1 + 2 * Cardinality(Upstreams)
<1> DEFINE kinds == {"tcp", "timer"}
<1>1. IsFiniteSet(kinds) /\ Cardinality(kinds) = 2
  <2>1. IsFiniteSet({"tcp"}) /\ Cardinality({"tcp"}) = 1
    BY FS_Singleton
  <2>2. kinds = {"tcp"} \cup {"timer"} /\ "timer" \notin {"tcp"}
    OBVIOUS
  <2> QED BY <2>1, <2>2, FS_AddElement
<1>2. /\ IsFiniteSet(kinds \X Upstreams)
      /\ Cardinality(kinds \X Upstreams) = 2 * Cardinality(Upstreams)
  BY <1>1, UpstreamsFinite, FS_Product
<1>3. Client \notin kinds \X Upstreams
  BY DEF Client
<1>4. Cardinality(Upstreams) \in Nat
  BY UpstreamsFinite, FS_CardinalityType
<1>5. Handles = (kinds \X Upstreams) \cup {Client}
  BY DEF Handles
<1> HIDE DEF kinds
<1>6. /\ IsFiniteSet(Handles)
      /\ Cardinality(Handles) = Cardinality(kinds \X Upstreams) + 1
  BY <1>2, <1>3, <1>5, FS_AddElement
<1> QED BY <1>2, <1>4, <1>6

\* Any part of the upstreams can be counted.
LEMMA PartCount ==
  ASSUME NEW us \in SUBSET Upstreams
  PROVE  IsFiniteSet(us) /\ Cardinality(us) \in Nat
BY UpstreamsFinite, FS_Subset, FS_CardinalityType

LEMMA PartOfGroupCount ==
  ASSUME NEW us \in SUBSET Upstreams, NEW g \in GroupIdx
  PROVE  /\ Cardinality(us \cap InGroup(g)) \in Nat
         /\ Cardinality(InGroup(g) \ us) \in Nat
<1>1. us \cap InGroup(g) \in SUBSET Upstreams /\ InGroup(g) \ us \in SUBSET Upstreams
  BY DEF InGroup
<1> QED BY <1>1, PartCount

LEMMA HandlesOfUpstreams ==
  /\ Client \in Handles
  /\ \A u \in Upstreams : Tcp(u) \in Handles /\ Timer(u) \in Handles
  /\ \A us \in SUBSET Upstreams : TcpsOf(us) \subseteq Handles
BY DEF Handles, Client, Tcp, Timer, TcpsOf

LEMMA TcpsOfNone ==
  ASSUME NEW us
  PROVE  TcpsOf(us) = {} <=> us = {}
<1>1. \A u \in us : <<"tcp", u>> \in TcpsOf(us)
  BY DEF TcpsOf
<1>2. us = {} => TcpsOf(us) = {}
  BY DEF TcpsOf
<1> QED BY <1>1, <1>2

(***************************************************************************)
(* Types.                                                                  *)
(***************************************************************************)

LEMMA TypeInit == Init => TypeOK
<1> SUFFICES ASSUME Init PROVE TypeOK
  OBVIOUS
<1>1. owed \in [Upstreams -> Seq(Tags)] /\ answers \in Seq(SUBSET Tags)
  BY DEF Init
<1>2. conns \in 0..MaxConn /\ asked \in 0..MaxReq
  BY ServerAssumption DEF Init
<1>3. status \in [Upstreams -> Status] /\ fault \in Faults
  BY DEF Init, Status, Faults
<1>4. /\ sock_num \in [GroupIdx -> Int] /\ connecting \in [GroupIdx -> Int]
      /\ lru \in [GroupIdx -> Nat]
  BY DEF Init
<1>5. /\ handles \subseteq Handles /\ closing \subseteq Handles
      /\ reconnecting \subseteq Upstreams /\ connReq \subseteq Upstreams
      /\ writeReq \subseteq Upstreams /\ reading \subseteq Upstreams
      /\ merged \subseteq Tags /\ seen \subseteq Tags /\ page \subseteq Tags
  BY DEF Init
<1>6. /\ need_close \in Int /\ distribute_count \in Int
      /\ response_count \in Int /\ skew \in Int
      /\ phase \in {"idle", "io", "close"} /\ mem \in {"none", "live"}
      /\ worker \in {"none", "queued", "running", "done"}
      /\ dangling \in Nat /\ relinked \subseteq Upstreams
  BY DEF Init
<1>7. idler \in BOOLEAN /\ respWrite \in BOOLEAN /\ upset \in BOOLEAN
  BY Zenon DEF Init
<1> QED BY <1>1, <1>2, <1>3, <1>4, <1>5, <1>6, <1>7 DEF TypeOK

LEMMA TypeNewConnection ==
  ASSUME TypeOK,
         NEW refused \in SUBSET Upstreams, NEW accepted \in BOOLEAN,
         OnNewConnection(refused, accepted)
  PROVE  TypeOK'
<1> USE DEF OnNewConnection, TypeOK
<1>1. need_close' \in Int
  BY PartCount
<1>2. connecting' \in [GroupIdx -> Int]
  <2>2. connecting' = [g \in GroupIdx |-> Cardinality(InGroup(g) \ refused)]
    OBVIOUS
  <2> HIDE DEF OnNewConnection, TypeOK
  <2>1. ASSUME NEW g \in GroupIdx
        PROVE  Cardinality(InGroup(g) \ refused) \in Nat
    BY PartOfGroupCount, Zenon
  <2> QED BY <2>1, <2>2
<1>3. conns' \in 0..MaxConn
  BY ServerAssumption
<1>4. distribute_count' \in Int /\ response_count' \in Int /\ skew' \in Int
  OBVIOUS
<1>5. status' \in [Upstreams -> Status]
  BY DEF Status
<1>6. owed' \in [Upstreams -> Seq(Tags)] /\ answers' \in Seq(SUBSET Tags)
  OBVIOUS
<1>7. asked' \in 0..MaxReq
  BY ServerAssumption
<1>8. handles' \subseteq Handles /\ closing' \subseteq Handles
  OBVIOUS
<1>9. connReq' \subseteq Upstreams /\ lru' \in [GroupIdx -> Nat]
      /\ sock_num' \in [GroupIdx -> Int]
  OBVIOUS
<1> QED BY <1>1, <1>2, <1>3, <1>4, <1>5, <1>6, <1>7, <1>8, <1>9

LEMMA TypeConnectCb ==
  ASSUME TypeOK, NEW u \in Upstreams, NEW ok \in BOOLEAN,
         UpstreamConnectCb(u, ok)
  PROVE  TypeOK'
<1> USE DEF UpstreamConnectCb, Connected, TypeOK
<1>1. connecting' \in [GroupIdx -> Int] /\ sock_num' \in [GroupIdx -> Int]
  <2>1. u[1] \in GroupIdx
    BY UpstreamInGroup
  <2> QED BY <2>1
<1>2. status' \in [Upstreams -> Status] /\ connReq' \subseteq Upstreams
  BY DEF Status
<1>3. UNCHANGED <<loopVars, fault, lifeVars, writeReq, reading, owed, upset, lru, countVars,
                  reqVars, workVars>>
  OBVIOUS
<1> HIDE DEF UpstreamConnectCb, Connected
<1> QED BY <1>1, <1>2, <1>3 DEF loopVars, breachVars, lifeVars, countVars, reqVars, workVars

LEMMA TypeOnRequest ==
  ASSUME TypeOK, OnRequest
  PROVE  TypeOK'
BY ServerAssumption
   DEF TypeOK, OnRequest, Status, Faults, loopVars, breachVars, lifeVars, linkVars, groupVars,
         countVars, reqVars, workVars

LEMMA TypeOnBadRequest ==
  ASSUME TypeOK, OnBadRequest
  PROVE  TypeOK'
BY ServerAssumption
   DEF TypeOK, OnBadRequest, ContextClose, Status, Faults, loopVars, breachVars, lifeVars, linkVars, groupVars,
         countVars, reqVars, workVars

LEMMA TypeOnClientEof ==
  ASSUME TypeOK, OnClientEof
  PROVE  TypeOK'
BY ServerAssumption
   DEF TypeOK, OnClientEof, ContextClose, Status, Faults, loopVars, breachVars, lifeVars, linkVars, groupVars,
         countVars, reqVars, workVars

LEMMA TypeWaitUpstream ==
  ASSUME TypeOK, WaitUpstream
  PROVE  TypeOK'
BY ServerAssumption
   DEF TypeOK, WaitUpstream, Status, Faults, loopVars, breachVars, lifeVars, linkVars, groupVars,
         countVars, reqVars, workVars

LEMMA TypeHandleRequest ==
  ASSUME TypeOK, HandleRequest
  PROVE  TypeOK'
BY ServerAssumption
   DEF TypeOK, HandleRequest, Status, Faults, loopVars, breachVars, lifeVars, linkVars, groupVars,
         countVars, reqVars, workVars

LEMMA TypeWorkerDone ==
  ASSUME TypeOK, WorkerDone
  PROVE  TypeOK'
BY ServerAssumption
   DEF TypeOK, WorkerDone, Status, Faults, loopVars, breachVars, lifeVars, linkVars, groupVars,
         countVars, reqVars, workVars

LEMMA TypeFail ==
  ASSUME TypeOK, NEW reason \in Faults, Fail(reason)
  PROVE  TypeOK'
BY DEF TypeOK, Fail, loopVars, breachVars, lifeVars, linkVars, groupVars,
       countVars, reqVars, workVars

LEMMA TypeSendResponse ==
  ASSUME TypeOK, SendResponse
  PROVE  TypeOK'
<1>1. CASE Fail("write_reuse")
  BY <1>1, TypeFail DEF Faults
<1>2. CASE /\ respWrite' = TRUE /\ answers' = Append(answers, page)
           /\ worker' = "none"
           /\ UNCHANGED <<loopVars, fault, lifeVars, linkVars, groupVars,
                          countVars, reqVars, seen, page>>
  <2>1. answers' \in Seq(SUBSET Tags)
    BY <1>2 DEF TypeOK
  <2> QED BY <1>2, <2>1
          DEF TypeOK, loopVars, breachVars, lifeVars, linkVars, groupVars, countVars, reqVars
<1>3. CASE /\ worker' = "none"
           /\ UNCHANGED <<loopVars, fault, lifeVars, linkVars, groupVars,
                          countVars, reqVars, seen, page, respWrite, answers>>
  BY <1>3
  DEF TypeOK, loopVars, breachVars, lifeVars, linkVars, groupVars, countVars, reqVars
<1> QED BY <1>1, <1>2, <1>3 DEF SendResponse

LEMMA TypeResponseSendCb ==
  ASSUME TypeOK, ResponseSendCb
  PROVE  TypeOK'
BY ServerAssumption
   DEF TypeOK, ResponseSendCb, Status, Faults, loopVars, breachVars, lifeVars, linkVars, groupVars,
         countVars, reqVars, workVars

LEMMA TypeRelease ==
  ASSUME TypeOK, NEW h, Release(h)
  PROVE  /\ handles' \subseteq Handles
         /\ closing' \subseteq Handles
         /\ need_close' \in Int
         /\ mem' \in {"none", "live"}
         /\ dangling' \in Nat
         /\ fault' \in Faults
BY DEF TypeOK, Release, Faults

LEMMA TypeCloseClient ==
  ASSUME TypeOK, CloseClient
  PROVE  TypeOK'
BY TypeRelease
   DEF TypeOK, CloseClient, linkVars, groupVars, countVars, reqVars

LEMMA TypeNoIdler ==
  ASSUME TypeOK, NoIdler
  PROVE  TypeOK'
BY ServerAssumption
   DEF TypeOK, NoIdler, Status, Faults, loopVars, breachVars, lifeVars, linkVars, groupVars,
         countVars, reqVars, workVars

LEMMA TypeEndOfIo ==
  ASSUME TypeOK, EndOfIo
  PROVE  TypeOK'
BY ServerAssumption
   DEF TypeOK, EndOfIo, Status, Faults, loopVars, breachVars, lifeVars, linkVars, groupVars,
         countVars, reqVars, workVars

LEMMA TypeEndOfIteration ==
  ASSUME TypeOK, EndOfIteration
  PROVE  TypeOK'
BY ServerAssumption
   DEF TypeOK, EndOfIteration, Status, Faults, loopVars, breachVars, lifeVars, linkVars, groupVars,
         countVars, reqVars, workVars

LEMMA TypeServerErr ==
  ASSUME TypeOK, NEW us \in SUBSET Upstreams, UpstreamServerErr(us)
  PROVE  /\ status' \in [Upstreams -> Status]
         /\ sock_num' \in [GroupIdx -> Int]
         /\ need_close' \in Int
         /\ reconnecting' \subseteq Upstreams
         /\ closing' \subseteq Handles
         /\ upset' = TRUE
<1>1. status' \in [Upstreams -> Status]
  BY DEF TypeOK, UpstreamServerErr, Status
<1>2. sock_num' \in [GroupIdx -> Int]
  <2>1. ASSUME NEW g \in GroupIdx
        PROVE  sock_num[g] - Cardinality(us \cap InGroup(g)) \in Int
    <3>1. Cardinality(us \cap InGroup(g)) \in Nat
      BY PartOfGroupCount, Zenon
    <3> QED BY <3>1 DEF TypeOK
  <2> QED BY <2>1 DEF UpstreamServerErr
<1>3. need_close' \in Int
  BY PartCount DEF TypeOK, UpstreamServerErr
<1>4. closing' \subseteq Handles /\ reconnecting' \subseteq Upstreams
  BY HandlesOfUpstreams DEF TypeOK, UpstreamServerErr
<1> QED BY <1>1, <1>2, <1>3, <1>4 DEF UpstreamServerErr

LEMMA TypeRequestSent ==
  ASSUME TypeOK, NEW u \in Upstreams, RequestSent(u)
  PROVE  TypeOK'
<1>1. CASE ~RecoversCtx(u)
  BY <1>1, TypeFail DEF Faults, RequestSent
<1>2. CASE RecoversCtx(u)
  <2>1. asked \in Tags /\ owed[u] \in Seq(Tags)
    BY DEF TypeOK, Tags
  <2>2. Append(owed[u], asked) \in Seq(Tags) /\ owed[u] \o <<asked, asked>> \in Seq(Tags)
    BY <2>1
  <2>3. owed' \in [Upstreams -> Seq(Tags)]
    BY <1>2, <2>2 DEF TypeOK, RequestSent
  <2>4. UNCHANGED <<loopVars, fault, lifeVars, status, connReq, upset,
                    groupVars, response_count, skew, reqVars, workVars>>
    BY <1>2, Zenon DEF RequestSent
  <2>5. writeReq' \subseteq Upstreams /\ reading' \subseteq Upstreams /\ distribute_count' \in Int
    BY <1>2 DEF TypeOK, RequestSent
  <2> QED BY <2>3, <2>4, <2>5
          DEF TypeOK, loopVars, breachVars, lifeVars, groupVars, reqVars, workVars
<1> QED BY <1>1, <1>2

LEMMA TypeRequestNotSent ==
  ASSUME TypeOK, NEW u \in Upstreams, RequestNotSent(u)
  PROVE  TypeOK'
<1>1. CASE ~RecoversCtx(u)
  BY <1>1, TypeFail DEF Faults, RequestNotSent
<1>2. CASE RecoversCtx(u)
  <2>1. UpstreamServerErr({u})
    BY <1>2 DEF RequestNotSent
  <2> QED BY <1>2, <2>1, TypeServerErr
          DEF TypeOK, RequestNotSent, loopVars, breachVars, countVars, reqVars, workVars
<1> QED BY <1>1, <1>2

LEMMA TypeOnGotUpstreamResponse ==
  ASSUME TypeOK, NEW u \in Upstreams, OnGotUpstreamResponse(u)
  PROVE  TypeOK'
<1>1. CASE ~RecoversCtx(u)
  BY <1>1, TypeFail DEF Faults, OnGotUpstreamResponse
<1>2. CASE RecoversCtx(u) /\ Fail("requeued_work")
  BY <1>2, TypeFail DEF Faults
<1>3. CASE RecoversCtx(u) /\ ~Fail("requeued_work")
  <2>1. owed[u] \in Seq(Tags) /\ owed[u] # <<>>
    BY <1>3 DEF TypeOK, OnGotUpstreamResponse
  <2>2. Head(owed[u]) \in Tags /\ Tail(owed[u]) \in Seq(Tags)
    BY <2>1
  <2>3. /\ response_count' = response_count + 1
        /\ reading' = reading \ {u}
        /\ status' = [status EXCEPT ![u] = "idle"]
        /\ merged' = merged \cup {Head(owed[u])}
        /\ owed' = [owed EXCEPT ![u] = Tail(@)]
        /\ worker' \in {"queued", worker}
        /\ UNCHANGED <<loopVars, fault, lifeVars, connReq, writeReq, upset,
                       groupVars, distribute_count, skew, idler, asked, seen,
                       page, respWrite, answers>>
    BY <1>3 DEF OnGotUpstreamResponse
  <2>4. /\ owed' \in [Upstreams -> Seq(Tags)]
        /\ status' \in [Upstreams -> Status]
        /\ merged' \subseteq Tags /\ reading' \subseteq Upstreams
        /\ response_count' \in Int
        /\ worker' \in {"none", "queued", "running", "done"}
    BY <2>2, <2>3 DEF TypeOK, Status
  <2> QED BY <2>3, <2>4 DEF TypeOK, loopVars, breachVars, lifeVars, groupVars
<1> QED BY <1>1, <1>2, <1>3

LEMMA TypeOnUpstreamEof ==
  ASSUME TypeOK, NEW u \in Upstreams, OnUpstreamEof(u)
  PROVE  TypeOK'
<1>1. CASE ~RecoversCtx(u)
  BY <1>1, TypeFail DEF Faults, OnUpstreamEof
<1>2. CASE RecoversCtx(u)
  <2>1. UpstreamServerErr({u})
    BY <1>2 DEF OnUpstreamEof
  <2>2. /\ response_count' = response_count + 1
        /\ reading' = reading \ {u}
        /\ UNCHANGED <<loopVars, fault, handles, connReq, writeReq, owed,
                       connecting, lru, distribute_count, skew, reqVars,
                       workVars>>
    BY <1>2 DEF OnUpstreamEof
  <2>3. /\ status' \in [Upstreams -> Status]
        /\ sock_num' \in [GroupIdx -> Int]
        /\ need_close' \in Int
        /\ reconnecting' \subseteq Upstreams
        /\ closing' \subseteq Handles
        /\ upset' = TRUE
    BY <2>1, TypeServerErr
  <2>4. response_count' \in Int /\ reading' \subseteq Upstreams
    BY <2>2 DEF TypeOK
  <2> QED BY <2>2, <2>3, <2>4 DEF TypeOK, loopVars, breachVars, reqVars, workVars
<1> QED BY <1>1, <1>2

LEMMA TypeCloseTimer ==
  ASSUME TypeOK, NEW u \in Upstreams, CloseTimer(u)
  PROVE  TypeOK'
<1>1. CASE ~RecoversCtx(u)
  BY <1>1, TypeFail DEF Faults, CloseTimer
<1>2. CASE RecoversCtx(u)
  BY <1>2, TypeRelease
  DEF TypeOK, CloseTimer, linkVars, groupVars, countVars, reqVars, workVars
<1> QED BY <1>1, <1>2

LEMMA TypeCloseTcp ==
  ASSUME TypeOK, NEW u \in Upstreams, CloseTcp(u)
  PROVE  TypeOK'
<1>1. CASE ~RecoversCtx(u)
  BY <1>1, TypeFail DEF Faults, CloseTcp
<1>2. CASE RecoversCtx(u) /\ u \in writeReq
  BY <1>2, TypeFail DEF Faults, CloseTcp
<1>3. CASE RecoversCtx(u) /\ u \notin writeReq
  <2>1. Release(Tcp(u))
    BY <1>3 DEF CloseTcp
  <2>2. /\ status' \in [Upstreams -> Status] /\ connReq' \subseteq Upstreams
        /\ connecting' \in [GroupIdx -> Int] /\ sock_num' \in [GroupIdx -> Int]
    <3>1. \/ Connected(u, FALSE)
          \/ UNCHANGED <<connReq, connecting, status, sock_num>>
      BY <1>3 DEF CloseTcp
    <3> QED BY <3>1, UpstreamInGroup DEF TypeOK, Connected, Status
  <2> QED BY <1>3, <2>1, <2>2, TypeRelease
          DEF TypeOK, CloseTcp, countVars, reqVars, workVars
<1> QED BY <1>1, <1>2, <1>3

LEMMA TypeReconnectTcp ==
  ASSUME TypeOK, NEW u \in Upstreams, NEW refused \in BOOLEAN,
         ReconnectTcp(u, refused)
  PROVE  TypeOK'
<1>1. CASE ~RecoversCtx(u)
  BY <1>1, TypeFail DEF Faults, ReconnectTcp
<1>2. CASE RecoversCtx(u)
  <2>1. /\ need_close' = need_close - 1 + 2
        /\ closing' = closing \ {Tcp(u)}
        /\ reconnecting' = reconnecting \ {u}
        /\ owed' = [owed EXCEPT ![u] = <<>>]
        /\ relinked' = relinked \cup {u}
        /\ UNCHANGED <<phase, conns, mem, dangling, fault, handles, writeReq,
                       reading, upset, sock_num, lru, countVars, reqVars,
                       workVars>>
    BY <1>2 DEF ReconnectTcp
  <2>2. \/ /\ status' = [status EXCEPT ![u] = "wait_reconnect"]
           /\ UNCHANGED <<connReq, connecting>>
        \/ /\ status' = [status EXCEPT ![u] = "connecting"]
           /\ connReq' = connReq \cup {u}
           /\ connecting' = [connecting EXCEPT ![u[1]] = @ + 1]
    BY <1>2 DEF ReconnectTcp
  <2>3. /\ status' \in [Upstreams -> Status] /\ connReq' \subseteq Upstreams
        /\ connecting' \in [GroupIdx -> Int]
    <3>1. u[1] \in GroupIdx
      BY UpstreamInGroup
    <3>2. /\ [status EXCEPT ![u] = "wait_reconnect"] \in [Upstreams -> Status]
          /\ [status EXCEPT ![u] = "connecting"] \in [Upstreams -> Status]
          /\ [connecting EXCEPT ![u[1]] = @ + 1] \in [GroupIdx -> Int]
          /\ connecting \in [GroupIdx -> Int] /\ connReq \subseteq Upstreams
      BY <3>1 DEF TypeOK, Status
    <3> QED BY <2>2, <3>2
  <2>4. owed' \in [Upstreams -> Seq(Tags)]
    BY <2>1 DEF TypeOK
  <2> QED BY <2>1, <2>3, <2>4
          DEF TypeOK, loopVars, breachVars, countVars, reqVars, workVars
<1> QED BY <1>1, <1>2

LEMMA TypeDoDistribute ==
  ASSUME TypeOK, NEW lost \in SUBSET Upstreams, DoDistribute(lost)
  PROVE  TypeOK'
<1> DEFINE sent == Picked \ lost
<1>1. CASE sent = {} /\ lost # {}
  BY <1>1, TypeFail DEF Faults, DoDistribute
<1>2. CASE sent = {} /\ lost = {}
  BY <1>2 DEF TypeOK, DoDistribute, ContextClose, Faults, breachVars, linkVars,
              groupVars, countVars, workVars
<1>3. CASE sent # {}
  <2>1. lost \subseteq Picked /\ Picked \subseteq Upstreams
    BY DEF DoDistribute, Picked
  <2>2. status' \in [Upstreams -> Status]
    BY <1>3 DEF TypeOK, DoDistribute, Status
  <2>3. lru' \in [GroupIdx -> Nat]
    <3>1. ASSUME NEW g \in GroupIdx, \E u \in Picked : u[1] = g
          PROVE  (CHOOSE u \in Picked : u[1] = g)[2] \in Nat
      <4>1. (CHOOSE u \in Picked : u[1] = g) \in Upstreams
        BY <2>1, <3>1
      <4>2. \A u \in Upstreams : u[2] \in Nat
        BY DEF Upstreams, GROUP_MAX_SERVER_NUM
      <4> QED BY <4>1, <4>2
    <3>2. \A g \in GroupIdx : lru[g] \in Nat
      BY DEF TypeOK
    <3> QED BY <1>3, <3>1, <3>2 DEF DoDistribute
  <2>4. sock_num' \in [GroupIdx -> Int]
    <3>1. ASSUME NEW g \in GroupIdx
          PROVE  sock_num[g] - Cardinality(lost \cap InGroup(g)) \in Int
      <4>1. Cardinality(lost \cap InGroup(g)) \in Nat
        BY PartOfGroupCount, Zenon
      <4> QED BY <4>1 DEF TypeOK
    <3>2. sock_num' = [g \in GroupIdx |->
                         sock_num[g] - Cardinality(lost \cap InGroup(g))]
      BY <1>3 DEF DoDistribute
    <3> QED BY <3>1, <3>2
  <2>5. need_close' \in Int
    <3>1. need_close' = need_close - Cardinality(lost)
      BY <1>3 DEF DoDistribute
    <3> QED BY <3>1, PartCount DEF TypeOK
  <2>6. /\ closing' \subseteq Handles /\ reconnecting' \subseteq Upstreams
        /\ writeReq' \subseteq Upstreams
    BY <1>3, <2>1, HandlesOfUpstreams DEF TypeOK, DoDistribute
  <2>7. upset' \in BOOLEAN /\ idler' \in BOOLEAN
    BY <1>3, Zenon DEF DoDistribute
  <2>8. /\ phase' = "io"
        /\ UNCHANGED <<conns, mem, breachVars, fault, handles, connReq,
                       reading, owed, connecting, countVars, asked, merged,
                       workVars>>
    BY <1>3 DEF DoDistribute
  <2> QED BY <2>2, <2>3, <2>4, <2>5, <2>6, <2>7, <2>8
          DEF TypeOK, breachVars, countVars, workVars
<1> QED BY <1>1, <1>2, <1>3

LEMMA TypeStep == TypeOK /\ [Next]_vars => TypeOK'
<1> SUFFICES ASSUME TypeOK, [Next]_vars
             PROVE  TypeOK'
  OBVIOUS
<1>1. CASE IdlePhase
  BY <1>1, TypeNoIdler, TypeWaitUpstream, TypeDoDistribute DEF IdlePhase
<1>2. CASE ClosePhase
  BY <1>2, TypeCloseClient, TypeCloseTimer, TypeCloseTcp, TypeReconnectTcp,
     TypeEndOfIteration DEF ClosePhase
<1>3. CASE ClientCallbacks
  BY <1>3, TypeNewConnection, TypeOnRequest, TypeOnBadRequest,
     TypeOnClientEof DEF ClientCallbacks
<1>4. CASE UpstreamCallbacks
  BY <1>4, TypeConnectCb, TypeRequestSent, TypeRequestNotSent,
     TypeOnGotUpstreamResponse, TypeOnUpstreamEof DEF UpstreamCallbacks
<1>5. CASE AnswerSteps
  BY <1>5, TypeHandleRequest, TypeWorkerDone, TypeSendResponse,
     TypeResponseSendCb DEF AnswerSteps
<1>6. CASE EndOfIo
  BY <1>6, TypeEndOfIo
<1>7. CASE UNCHANGED vars
  BY <1>7 DEF TypeOK, vars, loopVars, breachVars, lifeVars, linkVars, groupVars,
              countVars, reqVars, workVars
<1> QED BY <1>1, <1>2, <1>3, <1>4, <1>5, <1>6, <1>7 DEF Next

\* Every variable keeps its type, whatever the environment does.
THEOREM TypeCorrect == Spec => []TypeOK
BY TypeInit, TypeStep, PTL DEF Spec

(***************************************************************************)
(* The life of a context.  CloseAccounting is not inductive alone: that a  *)
(* close callback frees the context exactly when no handle is left needs   *)
(* the shape of closing, that do_distribute only runs on a context nobody  *)
(* is closing, and that an armed idle handle or a busy worker belongs to a *)
(* live context.                                                           *)
(***************************************************************************)
LifeInv ==
  /\ CloseShape
  /\ CloseAccounting
  /\ phase = "idle" => closing = {}
  /\ fault = "none" /\ (idler \/ worker # "none") => mem = "live"

LEMMA LifeInit == Init => LifeInv
BY FS_EmptySet DEF Init, LifeInv, CloseShape, CloseAccounting

\* Steps that leave the handles alone.
LEMMA LifeFrame ==
  ASSUME LifeInv, UNCHANGED <<mem, lifeVars>>,
         phase' = "idle" => closing = {},
         fault' = "none" /\ (idler' \/ worker' # "none") => mem = "live"
  PROVE  LifeInv'
BY DEF LifeInv, CloseShape, CloseAccounting, lifeVars

LEMMA LifeFail ==
  ASSUME LifeInv, NEW reason \in Faults \ {"none"}, Fail(reason)
  PROVE  LifeInv'
BY LifeFrame DEF Fail, LifeInv, loopVars, reqVars, workVars

\* A handle that has not been closed belongs to a live context with all its
\* handles.
LEMMA ListeningIsServing ==
  ASSUME LifeInv, NEW h, Listening(h)
  PROVE  mem = "live" /\ handles = Handles /\ closing = TcpsOf(reconnecting)
BY DEF LifeInv, CloseShape, Listening

LEMMA LifeContextClose ==
  ASSUME LifeInv, NEW h, Listening(h), phase = "io", ContextClose,
         UNCHANGED <<phase, mem, need_close, handles, reconnecting>>
  PROVE  LifeInv'
<1>1. mem = "live" /\ handles = Handles /\ closing = TcpsOf(reconnecting)
  BY ListeningIsServing
<1>2. CASE closing = {}
  <2>1. reconnecting = {}
    BY <1>1, <1>2, TcpsOfNone
  <2>2. closing' = handles /\ handles # {}
    BY <1>2 DEF ContextClose, Listening
  <2> QED BY <1>1, <2>1, <2>2 DEF LifeInv, CloseShape, CloseAccounting
<1>3. CASE closing # {}
  BY <1>1, <1>3, LifeFrame DEF ContextClose, LifeInv, lifeVars
<1> QED BY <1>2, <1>3

\* upstream_server_err on upstreams that are not yet closing.
LEMMA LifeServerErr ==
  ASSUME TypeOK, LifeInv, NEW us \in SUBSET Upstreams,
         mem = "live", handles = Handles, closing = TcpsOf(reconnecting),
         us \cap reconnecting = {},
         need_close' = need_close - Cardinality(us),
         reconnecting' = reconnecting \cup us,
         closing' = closing \cup TcpsOf(us),
         UNCHANGED <<mem, handles>>, phase' = "io"
  PROVE  LifeInv'
<1>1. reconnecting \in SUBSET Upstreams
  BY DEF TypeOK
<1>2. Cardinality(reconnecting') = Cardinality(reconnecting) + Cardinality(us)
  <2>1. IsFiniteSet(us) /\ IsFiniteSet(reconnecting)
    BY <1>1, PartCount
  <2>2. Cardinality(reconnecting \cup us) =
          Cardinality(reconnecting) + Cardinality(us)
            - Cardinality(reconnecting \cap us)
    BY <2>1, FS_Union
  <2>3. Cardinality(reconnecting \cap us) = 0
    <3>1. reconnecting \cap us = {}
      OBVIOUS
    <3> QED BY <3>1, FS_EmptySet
  <2>4. Cardinality(reconnecting) \in Nat /\ Cardinality(us) \in Nat
    BY <1>1, PartCount
  <2> QED BY <2>2, <2>3, <2>4
<1>2a. Cardinality(us) \in Nat /\ Cardinality(reconnecting) \in Nat
       /\ Cardinality(handles) \in Nat
  BY <1>1, PartCount, HandleCount, FS_CardinalityType
<1>3. CloseAccounting'
  BY <1>2, <1>2a DEF CloseAccounting, LifeInv
<1>4. closing' = TcpsOf(reconnecting')
  BY DEF TcpsOf
<1> QED BY <1>3, <1>4 DEF LifeInv, CloseShape

\* A close callback that drops one reference.
LEMMA LifeRelease ==
  ASSUME TypeOK, LifeInv, NEW h, h \in closing, h \notin TcpsOf(reconnecting),
         Release(h), UNCHANGED <<reconnecting, idler, worker>>, phase' = "close"
  PROVE  LifeInv'
<1>1. /\ mem = "live" /\ closing = handles /\ reconnecting = {}
  BY DEF LifeInv, CloseShape
<1>2. need_close = Cardinality(handles)
  <2>1. Cardinality(reconnecting) = 0
    BY <1>1, FS_EmptySet
  <2>2. Cardinality(handles) \in Nat
    BY HandleCount, FS_Subset, FS_CardinalityType DEF TypeOK
  <2> QED BY <2>1, <2>2 DEF LifeInv, CloseAccounting
<1>3. /\ IsFiniteSet(handles \ {h})
      /\ Cardinality(handles \ {h}) = Cardinality(handles) - 1
      /\ Cardinality(handles \ {h}) \in Nat
  <2>1. IsFiniteSet(handles)
    BY HandleCount, FS_Subset DEF TypeOK
  <2> QED BY <1>1, <2>1, FS_RemoveElement, FS_CardinalityType
<1>4. /\ handles' = handles \ {h} /\ closing' = handles' /\ reconnecting' = {}
      /\ need_close' = Cardinality(handles')
  BY <1>1, <1>2, <1>3 DEF Release
<1>5. CloseAccounting'
  <2>1. Cardinality({}) = 0
    BY FS_EmptySet
  <2> QED BY <1>3, <1>4, <2>1 DEF CloseAccounting
<1>6. need_close' < 1 <=> handles' = {}
  <2>1. Cardinality(handles \ {h}) = 0 <=> handles \ {h} = {}
    BY <1>3, FS_EmptySet
  <2>2. need_close' = Cardinality(handles \ {h})
    BY <1>4
  <2>3. need_close' < 1 <=> Cardinality(handles \ {h}) = 0
    <3>1. \A n \in Nat : n < 1 <=> n = 0
      OBVIOUS
    <3> QED BY <1>3, <2>2, <3>1, Zenon
  <2>4. need_close' < 1 <=> handles \ {h} = {}
    BY <2>1, <2>3, Zenon
  <2>5. handles' = handles \ {h}
    BY <1>4
  <2> QED BY <2>4, <2>5, Zenon
<1>7. CloseShape'
  BY <1>1, <1>4, <1>6 DEF CloseShape, Release
<1>8. fault' = "none" /\ (idler' \/ worker' # "none") => mem' = "live"
  BY <1>1 DEF Release
<1> QED BY <1>5, <1>7, <1>8 DEF LifeInv

LEMMA LifeNewConnection ==
  ASSUME LifeInv, NEW refused \in SUBSET Upstreams, NEW accepted \in BOOLEAN,
         OnNewConnection(refused, accepted)
  PROVE  LifeInv'
<1>1. /\ mem' = "live" /\ handles' = Handles /\ reconnecting' = {}
      /\ need_close' = 1 + 2 * Cardinality(Upstreams) /\ phase' = "io"
      /\ closing' = {} \/ closing' = Handles
  BY DEF OnNewConnection
<1>2. CloseShape'
  BY <1>1, HandlesOfUpstreams DEF CloseShape, TcpsOf
<1>3. CloseAccounting'
  <2>1. Cardinality(Handles) \in Nat
    BY HandleCount, FS_CardinalityType
  <2> QED BY <1>1, <2>1, HandleCount, FS_EmptySet DEF CloseAccounting
<1> QED BY <1>1, <1>2, <1>3 DEF LifeInv

LEMMA LifeReconnect ==
  ASSUME TypeOK, LifeInv, NEW u \in Upstreams, NEW refused \in BOOLEAN,
         ReconnectTcp(u, refused)
  PROVE  LifeInv'
<1>1. CASE ~RecoversCtx(u)
  BY <1>1, LifeFail DEF ReconnectTcp, Faults
<1>2. CASE RecoversCtx(u)
  <2>1. /\ phase = "close" /\ u \in reconnecting
        /\ need_close' = need_close - 1 + 2
        /\ closing' = closing \ {Tcp(u)}
        /\ reconnecting' = reconnecting \ {u}
        /\ UNCHANGED <<phase, mem, fault, handles, idler, worker>>
    BY <1>2 DEF ReconnectTcp, loopVars, reqVars, workVars
  <2>2. mem = "live" /\ handles = Handles /\ closing = TcpsOf(reconnecting)
    BY <2>1 DEF LifeInv, CloseShape
  <2>3. closing' = TcpsOf(reconnecting')
    BY <2>1, <2>2 DEF TcpsOf, Tcp
  <2>4. /\ IsFiniteSet(reconnecting) /\ Cardinality(reconnecting) \in Nat
        /\ Cardinality(handles) \in Nat
    BY <2>2, PartCount, HandleCount, FS_CardinalityType DEF TypeOK
  <2>5. Cardinality(reconnecting') = Cardinality(reconnecting) - 1
    BY <2>1, <2>4, FS_RemoveElement
  <2>6. CloseAccounting'
    BY <2>1, <2>4, <2>5 DEF LifeInv, CloseAccounting
  <2> QED BY <2>1, <2>2, <2>3, <2>6 DEF LifeInv, CloseShape
<1> QED BY <1>1, <1>2

LEMMA LifeDistribute ==
  ASSUME TypeOK, LifeInv, fault = "none", NEW lost \in SUBSET Upstreams,
         DoDistribute(lost)
  PROVE  LifeInv'
<1> DEFINE sent == Picked \ lost
<1>1. /\ mem = "live" /\ closing = {} /\ handles = Handles /\ reconnecting = {}
  <2>1. closing = {} /\ mem = "live"
    BY DEF DoDistribute, LifeInv
  <2>2. handles = Handles /\ closing = TcpsOf(reconnecting)
    BY <2>1 DEF LifeInv, CloseShape
  <2> QED BY <2>1, <2>2, TcpsOfNone
<1>2. CASE sent = {} /\ lost # {}
  BY <1>2, LifeFail DEF DoDistribute, Faults
<1>3. CASE sent = {} /\ lost = {}
  <2>1. /\ closing' = handles /\ phase' = "io"
        /\ UNCHANGED <<mem, need_close, handles, reconnecting>>
    BY <1>1, <1>3 DEF DoDistribute, ContextClose
  <2> QED BY <1>1, <2>1, HandlesOfUpstreams DEF LifeInv, CloseShape, CloseAccounting
<1>4. CASE sent # {}
  <2>1. /\ need_close' = need_close - Cardinality(lost)
        /\ reconnecting' = reconnecting \cup lost
        /\ closing' = closing \cup TcpsOf(lost)
        /\ UNCHANGED <<mem, handles>> /\ phase' = "io"
    BY <1>4 DEF DoDistribute
  <2>2. closing = TcpsOf(reconnecting) /\ lost \cap reconnecting = {}
    BY <1>1 DEF TcpsOf
  <2> QED BY <1>1, <2>1, <2>2, LifeServerErr
<1> QED BY <1>2, <1>3, <1>4

\* upstream_server_err as called from the callbacks of an upstream.
LEMMA LifeUpstreamErr ==
  ASSUME TypeOK, LifeInv, NEW u \in Upstreams, phase = "io",
         Listening(Tcp(u)), UpstreamServerErr({u}), UNCHANGED <<loopVars, handles>>
  PROVE  LifeInv'
<1>1. mem = "live" /\ handles = Handles /\ closing = TcpsOf(reconnecting)
  BY ListeningIsServing
<1>2. {u} \cap reconnecting = {}
  BY <1>1 DEF Listening, Tcp, TcpsOf
<1>3. /\ need_close' = need_close - Cardinality({u})
      /\ reconnecting' = reconnecting \cup {u}
      /\ closing' = closing \cup TcpsOf({u})
      /\ UNCHANGED <<mem, handles>> /\ phase' = "io"
  BY DEF UpstreamServerErr, loopVars
<1>4. {u} \in SUBSET Upstreams
  OBVIOUS
<1> HIDE DEF UpstreamServerErr
<1> QED BY <1>1, <1>2, <1>3, <1>4, LifeServerErr

LEMMA LifeStep == TypeOK /\ LifeInv /\ [Next]_vars => LifeInv'
<1> SUFFICES ASSUME TypeOK, LifeInv, [Next]_vars
             PROVE  LifeInv'
  OBVIOUS
<1>1. CASE UNCHANGED vars
  BY <1>1, LifeFrame DEF LifeInv, vars, loopVars, reqVars, workVars
<1> SUFFICES ASSUME Next, fault = "none" PROVE LifeInv'
  BY <1>1 DEF Next
<1>2. ASSUME IdlePhase PROVE LifeInv'
  <2>1. CASE NoIdler \/ WaitUpstream
    BY <2>1, LifeFrame
    DEF NoIdler, WaitUpstream, LifeInv, reqVars, workVars
  <2>2. ASSUME NEW lost \in SUBSET Upstreams, DoDistribute(lost) PROVE LifeInv'
    BY <2>2, LifeDistribute
  <2> QED BY <1>2, <2>1, <2>2 DEF IdlePhase
<1>3. ASSUME ClosePhase PROVE LifeInv'
  <2>1. CASE CloseClient
    <3>1. Client \notin TcpsOf(reconnecting)
      BY DEF Client, TcpsOf
    <3>2. /\ Client \in closing /\ Release(Client) /\ phase' = "close"
          /\ UNCHANGED <<reconnecting, idler, worker>>
      BY <2>1 DEF CloseClient, reqVars
    <3> QED BY <3>1, <3>2, LifeRelease
  <2>2. ASSUME NEW u \in Upstreams, CloseTimer(u) PROVE LifeInv'
    <3>1. CASE ~RecoversCtx(u)
      BY <2>2, <3>1, LifeFail DEF CloseTimer, Faults
    <3>2. CASE RecoversCtx(u)
      <4>1. Timer(u) \notin TcpsOf(reconnecting)
        BY DEF Timer, TcpsOf
      <4>2. /\ Timer(u) \in closing /\ Release(Timer(u)) /\ phase' = "close"
            /\ UNCHANGED <<reconnecting, idler, worker>>
        BY <2>2, <3>2 DEF CloseTimer, reqVars, workVars
      <4> QED BY <4>1, <4>2, LifeRelease
    <3> QED BY <3>1, <3>2
  <2>3. ASSUME NEW u \in Upstreams, CloseTcp(u) PROVE LifeInv'
    <3>1. CASE ~RecoversCtx(u)
      BY <2>3, <3>1, LifeFail DEF CloseTcp, Faults
    <3>2. CASE RecoversCtx(u) /\ u \in writeReq
      BY <2>3, <3>2, LifeFail DEF CloseTcp, Faults
    <3>3. CASE RecoversCtx(u) /\ u \notin writeReq
      <4>1. Tcp(u) \notin TcpsOf(reconnecting)
        BY <2>3 DEF CloseTcp, Tcp, TcpsOf
      <4>2. /\ Tcp(u) \in closing /\ Release(Tcp(u)) /\ phase' = "close"
            /\ UNCHANGED <<reconnecting, idler, worker>>
        BY <2>3, <3>3 DEF CloseTcp, reqVars, workVars
      <4> QED BY <4>1, <4>2, LifeRelease
    <3> QED BY <3>1, <3>2, <3>3
  <2>4. ASSUME NEW u \in Upstreams, NEW refused \in BOOLEAN,
               ReconnectTcp(u, refused)
        PROVE LifeInv'
    BY <2>4, LifeReconnect
  <2>5. CASE EndOfIteration
    BY <2>5, LifeFrame DEF EndOfIteration, LifeInv, reqVars, workVars
  <2> QED BY <1>3, <2>1, <2>2, <2>3, <2>4, <2>5 DEF ClosePhase
<1>4. ASSUME ClientCallbacks PROVE LifeInv'
  <2>1. ASSUME NEW refused \in SUBSET Upstreams, NEW accepted \in BOOLEAN,
               OnNewConnection(refused, accepted)
        PROVE LifeInv'
    BY <2>1, LifeNewConnection
  <2>2. CASE OnRequest
    <3>1. mem = "live"
      BY <2>2, ListeningIsServing DEF OnRequest
    <3> QED BY <2>2, <3>1, LifeFrame DEF OnRequest, loopVars
  <2>3. CASE OnBadRequest
    BY <2>3, LifeContextClose DEF OnBadRequest, loopVars
  <2>4. CASE OnClientEof
    BY <2>4, LifeContextClose DEF OnClientEof, loopVars
  <2> QED BY <1>4, <2>1, <2>2, <2>3, <2>4 DEF ClientCallbacks
<1>5. ASSUME NEW u \in Upstreams,
             \/ \E ok \in BOOLEAN : UpstreamConnectCb(u, ok)
             \/ RequestSent(u) \/ RequestNotSent(u)
             \/ OnGotUpstreamResponse(u) \/ OnUpstreamEof(u)
      PROVE LifeInv'
  <2>1. CASE Fail("wild_ctx") \/ Fail("requeued_work")
    BY <2>1, LifeFail DEF Faults
  <2>2. CASE \E ok \in BOOLEAN : UpstreamConnectCb(u, ok)
    BY <2>2, LifeFrame
    DEF UpstreamConnectCb, LifeInv, loopVars, reqVars, workVars
  <2>3. CASE RequestSent(u) /\ RecoversCtx(u)
    BY <2>3, LifeFrame DEF RequestSent, LifeInv, loopVars, reqVars, workVars
  <2>4. CASE RequestNotSent(u) /\ RecoversCtx(u)
    BY <2>4, LifeUpstreamErr DEF RequestNotSent
  <2>5. CASE OnGotUpstreamResponse(u) /\ RecoversCtx(u) /\ ~Fail("requeued_work")
    <3>1. mem = "live"
      BY <2>5, ListeningIsServing DEF OnGotUpstreamResponse
    <3>2. UNCHANGED <<loopVars, lifeVars>> /\ phase = "io"
      BY <2>5 DEF OnGotUpstreamResponse
    <3> QED BY <3>1, <3>2, LifeFrame DEF loopVars
  <2>6. CASE OnUpstreamEof(u) /\ RecoversCtx(u)
    BY <2>6, LifeUpstreamErr DEF OnUpstreamEof
  <2> QED BY <1>5, <2>1, <2>2, <2>3, <2>4, <2>5, <2>6
          DEF RequestSent, RequestNotSent, OnGotUpstreamResponse, OnUpstreamEof
<1>6. ASSUME AnswerSteps PROVE LifeInv'
  <2>1. CASE Fail("write_reuse")
    BY <2>1, LifeFail DEF Faults
  <2>2. CASE ~Fail("write_reuse")
    <3>1. /\ UNCHANGED <<loopVars, fault, lifeVars, idler>>
          /\ worker' # "none" => worker # "none"
      BY <1>6, <2>2 DEF AnswerSteps, HandleRequest, WorkerDone, SendResponse,
                        ResponseSendCb, reqVars
    <3> QED BY <3>1, LifeFrame DEF LifeInv, loopVars
  <2> QED BY <2>1, <2>2
<1>7. ASSUME EndOfIo PROVE LifeInv'
  BY <1>7, LifeFrame DEF EndOfIo, LifeInv, reqVars, workVars
<1> QED BY <1>2, <1>3, <1>4, <1>5, <1>6, <1>7 DEF Next, UpstreamCallbacks

THEOREM LifeInvariant == Spec => []LifeInv
BY TypeCorrect, LifeInit, LifeStep, PTL DEF Spec

\* need_close counts the close callbacks still to come, in every state.
THEOREM AccountingCorrect == Spec => []CloseAccounting
<1>1. LifeInv => CloseAccounting
  BY DEF LifeInv
<1> QED BY <1>1, LifeInvariant, PTL

\* No close callback frees the context while a handle is left, and the last one
\* frees it.
THEOREM FreedByLastCloseCorrect == Spec => []FreedByLastClose
<1>1. LifeInv => FreedByLastClose
  BY HandlesOfUpstreams DEF LifeInv, CloseShape, FreedByLastClose
<1> QED BY <1>1, LifeInvariant, PTL

\* Closing is all of a context or only upstreams about to reconnect.
THEOREM CloseShapeCorrect == Spec => []CloseShape
<1>1. LifeInv => CloseShape
  BY DEF LifeInv
<1> QED BY <1>1, LifeInvariant, PTL

(***************************************************************************)
(* The refinement of Lifetime.                                             *)
(***************************************************************************)
LEMMA ReleaseRefines ==
  ASSUME TypeOK, LifeInv, LifeInv', NEW h, h \in closing,
         h \notin TcpsOf(reconnecting), Release(h)
  PROVE  LifetimeOfCtx!Release(h) /\ h \in Handles
<1>1. /\ mem = "live" /\ closing = handles
  BY DEF LifeInv, CloseShape
<1>2. handles' = handles \ {h} /\ (mem' = "live") = (handles' # {})
  BY HandlesOfUpstreams DEF Release, LifeInv, CloseShape
<1> QED BY <1>1, <1>2 DEF LifetimeOfCtx!Release, TypeOK

LEMMA FailStutters ==
  ASSUME NEW reason, Fail(reason)
  PROVE  UNCHANGED <<handles, mem = "live">>
BY DEF Fail, loopVars, lifeVars

LEMMA LifetimeStep ==
  ASSUME TypeOK, LifeInv, LifeInv', [Next]_vars
  PROVE  LifetimeOfCtx!Next \/ UNCHANGED <<handles, mem = "live">>
<1>1. ASSUME NEW refused \in SUBSET Upstreams, NEW accepted \in BOOLEAN,
             OnNewConnection(refused, accepted)
      PROVE  LifetimeOfCtx!Allocate
  BY <1>1 DEF OnNewConnection, LifetimeOfCtx!Allocate
<1>2. CASE CloseClient
  <2>1. Client \notin TcpsOf(reconnecting)
    BY DEF Client, TcpsOf
  <2> QED BY <1>2, <2>1, ReleaseRefines DEF CloseClient, LifetimeOfCtx!Next
<1>3. ASSUME NEW u \in Upstreams, CloseTimer(u)
      PROVE  LifetimeOfCtx!Next \/ UNCHANGED <<handles, mem = "live">>
  <2>1. CASE Fail("wild_ctx")
    BY <2>1, FailStutters
  <2>2. CASE Release(Timer(u))
    <3>1. Timer(u) \notin TcpsOf(reconnecting) /\ Timer(u) \in closing
      BY <1>3 DEF CloseTimer, Timer, TcpsOf
    <3> QED BY <2>2, <3>1, ReleaseRefines DEF LifetimeOfCtx!Next
  <2> QED BY <1>3, <2>1, <2>2 DEF CloseTimer
<1>4. ASSUME NEW u \in Upstreams, CloseTcp(u)
      PROVE  LifetimeOfCtx!Next \/ UNCHANGED <<handles, mem = "live">>
  <2>1. CASE Fail("wild_ctx") \/ Fail("double_close")
    BY <2>1, FailStutters
  <2>2. CASE Release(Tcp(u))
    <3>1. Tcp(u) \notin TcpsOf(reconnecting) /\ Tcp(u) \in closing
      BY <1>4 DEF CloseTcp, Tcp, TcpsOf
    <3> QED BY <2>2, <3>1, ReleaseRefines DEF LifetimeOfCtx!Next
  <2> QED BY <1>4, <2>1, <2>2 DEF CloseTcp
<1>5. ASSUME NEW u \in Upstreams, NEW refused \in BOOLEAN, ReconnectTcp(u, refused)
      PROVE  UNCHANGED <<handles, mem = "live">>
  BY <1>5, FailStutters DEF ReconnectTcp, loopVars
<1>6. ASSUME NEW lost \in SUBSET Upstreams, DoDistribute(lost)
      PROVE  UNCHANGED <<handles, mem = "live">>
  BY <1>6, FailStutters DEF DoDistribute
<1>7. CASE NoIdler \/ WaitUpstream \/ EndOfIo \/ EndOfIteration
  BY <1>7 DEF NoIdler, WaitUpstream, EndOfIo, EndOfIteration, lifeVars
<1>8. CASE OnRequest \/ OnBadRequest \/ OnClientEof
  BY <1>8 DEF OnRequest, OnBadRequest, OnClientEof, loopVars, lifeVars
<1>9. ASSUME NEW u \in Upstreams,
             \/ \E ok \in BOOLEAN : UpstreamConnectCb(u, ok)
             \/ RequestSent(u) \/ RequestNotSent(u)
             \/ OnGotUpstreamResponse(u) \/ OnUpstreamEof(u)
      PROVE  UNCHANGED <<handles, mem = "live">>
  BY <1>9, FailStutters
  DEF UpstreamConnectCb, RequestSent, RequestNotSent, OnGotUpstreamResponse,
      OnUpstreamEof, loopVars, lifeVars
<1>10. CASE AnswerSteps
  BY <1>10, FailStutters
  DEF AnswerSteps, HandleRequest, WorkerDone, SendResponse, ResponseSendCb,
      loopVars, lifeVars
<1>11. CASE UNCHANGED vars
  BY <1>11 DEF vars, loopVars, lifeVars
<1> QED
  BY <1>1, <1>2, <1>3, <1>4, <1>5, <1>6, <1>7, <1>8, <1>9, <1>10, <1>11
  DEF Next, IdlePhase, ClosePhase, ClientCallbacks, UpstreamCallbacks,
      LifetimeOfCtx!Next

\* The context is a reference-counted object as Lifetime describes it.
THEOREM LifetimeRefined == Spec => FreedOnce
<1>1. Init => LifetimeOfCtx!Init
  BY DEF Init, LifetimeOfCtx!Init
<1>2. TypeOK /\ LifeInv /\ LifeInv' /\ [Next]_vars
        => [LifetimeOfCtx!Next]_<<handles, mem = "live">>
  BY LifetimeStep
<1> QED BY <1>1, <1>2, TypeCorrect, LifeInvariant, PTL
        DEF Spec, FreedOnce, LifetimeOfCtx!Spec

(***************************************************************************)
(* The status of the upstreams.                                            *)
(***************************************************************************)
LEMMA StatusFrame ==
  ASSUME StatusTruthful, mem' = "live" => mem = "live",
         UNCHANGED <<status, connReq, writeReq, reading, reconnecting>>
  PROVE  StatusTruthful'
BY DEF StatusTruthful

LEMMA StatusFail ==
  ASSUME StatusTruthful, NEW reason, Fail(reason)
  PROVE  StatusTruthful'
BY StatusFrame DEF Fail, loopVars, lifeVars, linkVars

\* One upstream changes its status and the requests that go with it.
LEMMA StatusOfOne ==
  ASSUME TypeOK, StatusTruthful, mem' = "live" => mem = "live",
         NEW u \in Upstreams, NEW st \in Status,
         status' = [v \in Upstreams |-> IF v = u THEN st ELSE status[v]],
         connReq' \ {u} = connReq \ {u}, writeReq' \ {u} = writeReq \ {u},
         reading' \ {u} = reading \ {u},
         reconnecting' \ {u} = reconnecting \ {u},
         mem = "live" =>
           /\ st = "work" <=> u \in writeReq' \cup reading'
           /\ st = "connecting" <=> u \in connReq'
           /\ st = "close" <=> u \in reconnecting'
           /\ ~(u \in writeReq' /\ u \in reading')
  PROVE  StatusTruthful'
<1> SUFFICES ASSUME mem' = "live", NEW v \in Upstreams
             PROVE  /\ status'[v] = "work" <=> v \in writeReq' \cup reading'
                    /\ status'[v] = "connecting" <=> v \in connReq'
                    /\ status'[v] = "close" <=> v \in reconnecting'
                    /\ ~(v \in writeReq' /\ v \in reading')
  BY DEF StatusTruthful
<1>1. CASE v = u
  BY <1>1
<1>2. CASE v # u
  <2>1. /\ v \in connReq' <=> v \in connReq
        /\ v \in writeReq' <=> v \in writeReq
        /\ v \in reading' <=> v \in reading
        /\ v \in reconnecting' <=> v \in reconnecting
    BY <1>2
  <2> QED BY <1>2, <2>1 DEF StatusTruthful
<1> QED BY <1>1, <1>2

LEMMA StatusConnected ==
  ASSUME TypeOK, StatusTruthful, mem' = "live" => mem = "live",
         NEW u \in connReq, NEW ok \in BOOLEAN, Connected(u, ok),
         UNCHANGED <<writeReq, reading, reconnecting>>
  PROVE  StatusTruthful'
<1> DEFINE st == IF ok THEN "idle" ELSE "wait_reconnect"
<1>1. u \in Upstreams /\ st \in Status
  BY DEF TypeOK, Status
<1>2. status' = [v \in Upstreams |-> IF v = u THEN st ELSE status[v]]
  BY DEF Connected, TypeOK
<1>3. mem = "live" => /\ u \notin writeReq \cup reading
                      /\ u \notin reconnecting
  BY <1>1 DEF StatusTruthful
<1>4. connReq' = connReq \ {u}
  BY DEF Connected
<1>5. st # "work" /\ st # "connecting" /\ st # "close"
  OBVIOUS
<1> HIDE DEF st
<1> QED BY <1>1, <1>2, <1>3, <1>4, <1>5, StatusOfOne

LEMMA StatusServerErr ==
  ASSUME TypeOK, StatusTruthful, NEW u \in Upstreams, UpstreamServerErr({u}),
         mem = "live",
         \/ u \in writeReq /\ writeReq' = writeReq \ {u} /\ reading' = reading
         \/ u \in reading /\ reading' = reading \ {u} /\ writeReq' = writeReq,
         UNCHANGED connReq
  PROVE  StatusTruthful'
<1>1. /\ status[u] = "work" /\ ~(u \in writeReq /\ u \in reading)
      /\ u \notin connReq
  BY DEF StatusTruthful
<1>2. status' = [v \in Upstreams |-> IF v = u THEN "close" ELSE status[v]]
  BY DEF UpstreamServerErr
<1>3. reconnecting' = reconnecting \cup {u}
  BY DEF UpstreamServerErr
<1>4. "close" \in Status
  BY DEF Status
<1>5. /\ u \notin writeReq' \cup reading'
      /\ writeReq' \ {u} = writeReq \ {u} /\ reading' \ {u} = reading \ {u}
  BY <1>1
<1> HIDE DEF UpstreamServerErr
<1> QED BY <1>1, <1>2, <1>3, <1>4, <1>5, StatusOfOne

LEMMA StatusDistribute ==
  ASSUME TypeOK, StatusTruthful, NEW lost \in SUBSET Upstreams, DoDistribute(lost)
  PROVE  StatusTruthful'
<1> DEFINE sent == Picked \ lost
<1>1. CASE sent = {} /\ lost # {}
  BY <1>1, StatusFail DEF DoDistribute
<1>2. CASE sent = {} /\ lost = {}
  BY <1>2, StatusFrame DEF DoDistribute, linkVars
<1>3. CASE sent # {}
  <2>1. /\ lost \subseteq Picked /\ mem' = mem /\ connReq' = connReq
        /\ reading' = reading /\ writeReq' = writeReq \cup (Picked \ lost)
        /\ reconnecting' = reconnecting \cup lost
        /\ status' = [u \in Upstreams |->
                        IF u \in Picked \ lost THEN "work"
                        ELSE IF u \in lost THEN "close" ELSE status[u]]
    BY <1>3 DEF DoDistribute
  <2>2. \A u \in Picked : u \in Upstreams /\ status[u] = "idle"
    BY DEF Picked
  <2> HIDE DEF sent
  <2> SUFFICES ASSUME mem = "live", NEW u \in Upstreams
               PROVE  /\ status'[u] = "work" <=> u \in writeReq' \cup reading'
                      /\ status'[u] = "connecting" <=> u \in connReq'
                      /\ status'[u] = "close" <=> u \in reconnecting'
                      /\ ~(u \in writeReq' /\ u \in reading')
    BY <2>1 DEF StatusTruthful
  <2>3. /\ status[u] = "work" <=> u \in writeReq \cup reading
        /\ status[u] = "connecting" <=> u \in connReq
        /\ status[u] = "close" <=> u \in reconnecting
        /\ ~(u \in writeReq /\ u \in reading)
    BY DEF StatusTruthful
  <2>4. CASE u \in Picked /\ u \notin lost
    BY <2>1, <2>2, <2>3, <2>4
  <2>5. CASE u \in lost
    BY <2>1, <2>2, <2>3, <2>5
  <2>6. CASE u \notin Picked
    BY <2>1, <2>3, <2>6
  <2> QED BY <2>4, <2>5, <2>6
<1> QED BY <1>1, <1>2, <1>3

LEMMA StatusNewConnection ==
  ASSUME NEW refused \in SUBSET Upstreams, NEW accepted \in BOOLEAN,
         OnNewConnection(refused, accepted)
  PROVE  StatusTruthful'
BY DEF OnNewConnection, StatusTruthful

LEMMA StatusReconnect ==
  ASSUME TypeOK, StatusTruthful, NEW u \in Upstreams, NEW refused \in BOOLEAN,
         ReconnectTcp(u, refused)
  PROVE  StatusTruthful'
<1>1. CASE ~RecoversCtx(u)
  BY <1>1, StatusFail DEF ReconnectTcp
<1>2. CASE RecoversCtx(u)
  <2>1. /\ u \in reconnecting /\ reconnecting' = reconnecting \ {u}
        /\ UNCHANGED <<mem, writeReq, reading>>
    BY <1>2 DEF ReconnectTcp, loopVars
  <2>2. mem = "live" => u \notin writeReq \cup reading /\ u \notin connReq
    BY <2>1 DEF StatusTruthful
  <2>3. "connecting" \in Status /\ "wait_reconnect" \in Status
    BY DEF Status
  <2>4. CASE /\ status' = [status EXCEPT ![u] = "wait_reconnect"]
             /\ connReq' = connReq
    <3>1. status' = [v \in Upstreams |->
                       IF v = u THEN "wait_reconnect" ELSE status[v]]
      BY <2>4 DEF TypeOK
    <3>2. /\ connReq' \ {u} = connReq \ {u} /\ writeReq' \ {u} = writeReq \ {u}
          /\ reading' \ {u} = reading \ {u} /\ reconnecting' \ {u} = reconnecting \ {u}
          /\ u \notin reconnecting' /\ mem' = mem
      BY <2>1, <2>4
    <3>3. mem = "live" => /\ u \notin writeReq' \cup reading'
                          /\ u \notin connReq'
      BY <2>1, <2>2, <2>4
    <3> QED BY <2>3, <3>1, <3>2, <3>3, StatusOfOne
  <2>5. CASE /\ status' = [status EXCEPT ![u] = "connecting"]
             /\ connReq' = connReq \cup {u}
    <3>1. status' = [v \in Upstreams |->
                       IF v = u THEN "connecting" ELSE status[v]]
      BY <2>5 DEF TypeOK
    <3>2. /\ connReq' \ {u} = connReq \ {u} /\ writeReq' \ {u} = writeReq \ {u}
          /\ reading' \ {u} = reading \ {u} /\ reconnecting' \ {u} = reconnecting \ {u}
          /\ u \notin reconnecting' /\ mem' = mem
      BY <2>1, <2>5
    <3>3. mem = "live" => /\ u \notin writeReq' \cup reading'
                          /\ u \in connReq'
      BY <2>1, <2>2, <2>5
    <3> QED BY <2>3, <3>1, <3>2, <3>3, StatusOfOne
  <2> QED BY <1>2, <2>4, <2>5 DEF ReconnectTcp
<1> QED BY <1>1, <1>2

LEMMA StatusUpstreamCallback ==
  ASSUME TypeOK, LifeInv, StatusTruthful, NEW u \in Upstreams,
         \/ \E ok \in BOOLEAN : UpstreamConnectCb(u, ok)
         \/ RequestSent(u) \/ RequestNotSent(u)
         \/ OnGotUpstreamResponse(u) \/ OnUpstreamEof(u)
  PROVE  StatusTruthful'
<1>1. CASE Fail("wild_ctx") \/ Fail("requeued_work")
  BY <1>1, StatusFail
<1>2. ASSUME NEW ok \in BOOLEAN, UpstreamConnectCb(u, ok)
      PROVE  StatusTruthful'
  BY <1>2, StatusConnected DEF UpstreamConnectCb, loopVars, lifeVars
<1>3. mem = "live"
  BY ListeningIsServing
  DEF UpstreamConnectCb, RequestSent, RequestNotSent, OnGotUpstreamResponse,
      OnUpstreamEof
<1>4. CASE RequestSent(u) /\ RecoversCtx(u)
  <2>1. /\ u \in writeReq /\ writeReq' = writeReq \ {u}
        /\ reading' = reading \cup {u}
        /\ UNCHANGED <<status, connReq, reconnecting, mem>>
    BY <1>4 DEF RequestSent, loopVars, lifeVars
  <2>2. status[u] = "work" /\ u \notin connReq /\ u \notin reconnecting
    BY <1>3, <2>1 DEF StatusTruthful
  <2>3. status' = [v \in Upstreams |-> IF v = u THEN "work" ELSE status[v]]
    BY <2>1, <2>2 DEF TypeOK
  <2>4. "work" \in Status
    BY DEF Status
  <2> QED BY <1>3, <2>1, <2>2, <2>3, <2>4, StatusOfOne
<1>5. CASE RequestNotSent(u) /\ RecoversCtx(u)
  BY <1>3, <1>5, StatusServerErr DEF RequestNotSent
<1>6. CASE /\ OnGotUpstreamResponse(u) /\ RecoversCtx(u)
           /\ ~Fail("requeued_work")
  <2>1. /\ u \in reading /\ reading' = reading \ {u}
        /\ status' = [status EXCEPT ![u] = "idle"]
        /\ UNCHANGED <<connReq, writeReq, reconnecting, mem>>
    BY <1>6 DEF OnGotUpstreamResponse, loopVars, lifeVars
  <2>2. u \notin writeReq /\ u \notin connReq /\ u \notin reconnecting
    BY <1>3, <2>1 DEF StatusTruthful
  <2>3. status' = [v \in Upstreams |-> IF v = u THEN "idle" ELSE status[v]]
    BY <2>1 DEF TypeOK
  <2>4. "idle" \in Status
    BY DEF Status
  <2> QED BY <1>3, <2>1, <2>2, <2>3, <2>4, StatusOfOne
<1>7. CASE OnUpstreamEof(u) /\ RecoversCtx(u)
  BY <1>3, <1>7, StatusServerErr DEF OnUpstreamEof
<1> QED BY <1>1, <1>2, <1>4, <1>5, <1>6, <1>7
        DEF RequestSent, RequestNotSent, OnGotUpstreamResponse, OnUpstreamEof

LEMMA StatusStep ==
  ASSUME TypeOK, LifeInv, StatusTruthful, [Next]_vars
  PROVE  StatusTruthful'
<1>1. ASSUME NEW lost \in SUBSET Upstreams, DoDistribute(lost) PROVE StatusTruthful'
  BY <1>1, StatusDistribute
<1>2. CASE NoIdler \/ WaitUpstream \/ EndOfIo \/ EndOfIteration
  BY <1>2, StatusFrame
  DEF NoIdler, WaitUpstream, EndOfIo, EndOfIteration, lifeVars, linkVars
<1>3. CASE OnRequest \/ OnBadRequest \/ OnClientEof
  BY <1>3, StatusFrame
  DEF OnRequest, OnBadRequest, OnClientEof, loopVars, lifeVars, linkVars
<1>4. ASSUME NEW refused \in SUBSET Upstreams, NEW accepted \in BOOLEAN,
             OnNewConnection(refused, accepted)
      PROVE  StatusTruthful'
  BY <1>4, StatusNewConnection
<1>5. CASE UpstreamCallbacks
  BY <1>5, StatusUpstreamCallback DEF UpstreamCallbacks
<1>6. CASE AnswerSteps
  BY <1>6, StatusFrame, StatusFail
  DEF AnswerSteps, HandleRequest, WorkerDone, SendResponse, ResponseSendCb,
      loopVars, lifeVars, linkVars
<1>7. ASSUME NEW h, Release(h) PROVE mem' = "live" => mem = "live"
  BY <1>7 DEF Release
<1>8. CASE CloseClient
  BY <1>7, <1>8, StatusFrame DEF CloseClient, linkVars
<1>9. ASSUME NEW u \in Upstreams, CloseTimer(u) PROVE StatusTruthful'
  BY <1>7, <1>9, StatusFrame, StatusFail DEF CloseTimer, linkVars
<1>10. ASSUME NEW u \in Upstreams, CloseTcp(u) PROVE StatusTruthful'
  <2>1. CASE Fail("wild_ctx") \/ Fail("double_close")
    BY <2>1, StatusFail
  <2>2. CASE /\ Release(Tcp(u))
             /\ IF u \in connReq
                  THEN Connected(u, FALSE)
                  ELSE UNCHANGED <<connReq, connecting, status, sock_num>>
             /\ UNCHANGED <<reconnecting, writeReq, reading>>
    <3>1. mem' = "live" => mem = "live"
      BY <1>7, <2>2
    <3>2. CASE u \in connReq
      BY <2>2, <3>1, <3>2, StatusConnected
    <3>3. CASE u \notin connReq
      BY <2>2, <3>1, <3>3, StatusFrame
    <3> QED BY <3>2, <3>3
  <2> QED BY <1>10, <2>1, <2>2 DEF CloseTcp
<1>11. ASSUME NEW u \in Upstreams, NEW refused \in BOOLEAN, ReconnectTcp(u, refused)
       PROVE  StatusTruthful'
  BY <1>11, StatusReconnect
<1>12. CASE UNCHANGED vars
  BY <1>12, StatusFrame DEF vars, loopVars, lifeVars, linkVars
<1> QED BY <1>1, <1>2, <1>3, <1>4, <1>5, <1>6, <1>8, <1>9, <1>10, <1>11, <1>12
        DEF Next, IdlePhase, ClosePhase, ClientCallbacks

\* up->status agrees with what libuv is doing for the upstream, in particular
\* an upstream is never given a request while another is under way.
THEOREM StatusCorrect == Spec => []StatusTruthful
<1>1. Init => StatusTruthful
  BY DEF Init, StatusTruthful
<1>2. TypeOK /\ LifeInv /\ StatusTruthful /\ [Next]_vars => StatusTruthful'
  BY StatusStep
<1> QED BY <1>1, <1>2, TypeCorrect, LifeInvariant, PTL DEF Spec

(***************************************************************************)
(* The counters of the context.                                            *)
(***************************************************************************)
CountInv == CountersBalance /\ SkewStarves

LEMMA CountFrame ==
  ASSUME CountInv, mem' = "live" => mem = "live",
         UNCHANGED <<distribute_count, response_count, skew, reading, answers>>,
         worker' # "none" => worker # "none"
  PROVE  CountInv'
BY DEF CountInv, CountersBalance, SkewStarves

LEMMA CountFail ==
  ASSUME CountInv, NEW reason, Fail(reason)
  PROVE  CountInv'
BY CountFrame DEF Fail, loopVars, linkVars, countVars, workVars

LEMMA CountNewConnection ==
  ASSUME TypeOK, NEW refused \in SUBSET Upstreams, NEW accepted \in BOOLEAN,
         OnNewConnection(refused, accepted)
  PROVE  CountInv'
<1>1. /\ reading' = {} /\ worker' = "none" /\ answers' = <<>>
      /\ skew' = distribute_count' - response_count'
      /\ \/ distribute_count' = 0 /\ response_count' = 0
         \/ UNCHANGED <<distribute_count, response_count>>
  BY DEF OnNewConnection
<1>2. distribute_count' \in Int /\ response_count' \in Int
  BY <1>1 DEF TypeOK
<1>3. Cardinality({}) = 0
  BY FS_EmptySet
<1> QED BY <1>1, <1>2, <1>3
        DEF CountInv, CountersBalance, SkewStarves

LEMMA ReadingCount ==
  ASSUME TypeOK
  PROVE  /\ IsFiniteSet(reading) /\ Cardinality(reading) \in Nat
         /\ distribute_count \in Int /\ response_count \in Int /\ skew \in Int
BY PartCount DEF TypeOK

\* One read less is awaited and one response more is counted.
LEMMA CountRead ==
  ASSUME TypeOK, CountInv, mem = "live", NEW u \in reading,
         reading' = reading \ {u}, response_count' = response_count + 1,
         UNCHANGED <<mem, distribute_count, skew, answers>>,
         skew > 0 => worker' = worker
  PROVE  CountInv'
<1>1. Cardinality(reading \ {u}) = Cardinality(reading) - 1
  BY ReadingCount, FS_RemoveElement
<1>2. CountersBalance'
  <2>1. distribute_count - response_count = skew + Cardinality(reading)
    BY DEF CountInv, CountersBalance
  <2>2. distribute_count' - response_count' = skew' + Cardinality(reading')
    BY <1>1, <2>1, ReadingCount
  <2> QED BY <2>2 DEF CountersBalance
<1>3. SkewStarves'
  BY DEF CountInv, SkewStarves
<1> QED BY <1>2, <1>3 DEF CountInv

\* While a reply is awaited in a skewed context, the one just read never is the
\* last.
LEMMA SkewNeverCompletes ==
  ASSUME TypeOK, CountInv, mem = "live", NEW u \in reading, skew > 0
  PROVE  ~Complete
<1>1. Cardinality(reading) # 0
  BY ReadingCount, FS_EmptySet
<1>2. distribute_count - response_count = skew + Cardinality(reading)
  BY DEF CountInv, CountersBalance
<1> QED BY <1>1, <1>2, ReadingCount DEF Complete

LEMMA CountUpstreamCallback ==
  ASSUME TypeOK, LifeInv, StatusTruthful, CountInv, NEW u \in Upstreams,
         \/ \E ok \in BOOLEAN : UpstreamConnectCb(u, ok)
         \/ RequestSent(u) \/ RequestNotSent(u)
         \/ OnGotUpstreamResponse(u) \/ OnUpstreamEof(u)
  PROVE  CountInv'
<1>1. CASE Fail("wild_ctx") \/ Fail("requeued_work")
  BY <1>1, CountFail
<1>2. CASE (\E ok \in BOOLEAN : UpstreamConnectCb(u, ok))
           \/ (RequestNotSent(u) /\ RecoversCtx(u))
  BY <1>2, CountFrame
  DEF UpstreamConnectCb, RequestNotSent, loopVars, countVars, workVars
<1>3. mem = "live"
  BY ListeningIsServing
  DEF UpstreamConnectCb, RequestSent, RequestNotSent, OnGotUpstreamResponse,
      OnUpstreamEof
<1>4. CASE RequestSent(u) /\ RecoversCtx(u)
  <2>1. /\ u \in writeReq /\ reading' = reading \cup {u}
        /\ distribute_count' = distribute_count + 1
        /\ UNCHANGED <<mem, response_count, skew, worker, answers>>
    BY <1>4 DEF RequestSent, loopVars, workVars
  <2>2. u \notin reading
    BY <1>3, <2>1 DEF StatusTruthful
  <2>3. Cardinality(reading \cup {u}) = Cardinality(reading) + 1
    BY <2>2, ReadingCount, FS_AddElement
  <2>4. CountersBalance'
    <3>1. distribute_count - response_count = skew + Cardinality(reading)
      BY <1>3 DEF CountInv, CountersBalance
    <3>2. distribute_count' - response_count' = skew' + Cardinality(reading')
      BY <2>1, <2>3, <3>1, ReadingCount
    <3> QED BY <3>2 DEF CountersBalance
  <2> QED BY <2>1, <2>4 DEF CountInv, SkewStarves
<1>5. CASE /\ OnGotUpstreamResponse(u) /\ RecoversCtx(u)
           /\ ~Fail("requeued_work")
  <2>1. /\ u \in reading /\ reading' = reading \ {u}
        /\ response_count' = response_count + 1
        /\ worker' = IF Complete THEN "queued" ELSE worker
        /\ UNCHANGED <<mem, distribute_count, skew, answers>>
    BY <1>5 DEF OnGotUpstreamResponse, loopVars
  <2>2. skew > 0 => ~Complete
    BY <1>3, <2>1, SkewNeverCompletes
  <2> QED BY <1>3, <2>1, <2>2, CountRead
<1>6. CASE OnUpstreamEof(u) /\ RecoversCtx(u)
  <2>1. /\ u \in reading /\ reading' = reading \ {u}
        /\ response_count' = response_count + 1
        /\ UNCHANGED <<mem, distribute_count, skew, worker, answers>>
    BY <1>6 DEF OnUpstreamEof, loopVars, workVars
  <2> QED BY <1>3, <2>1, CountRead
<1> QED BY <1>1, <1>2, <1>4, <1>5, <1>6
        DEF RequestSent, RequestNotSent, OnGotUpstreamResponse, OnUpstreamEof

\* A busy worker belongs to a context without skew, so what it writes does too.
LEMMA CountAnswer ==
  ASSUME CountInv, AnswerSteps
  PROVE  CountInv'
<1>1. CASE Fail("write_reuse")
  BY <1>1, CountFail
<1>2. CASE HandleRequest \/ WorkerDone \/ ResponseSendCb
  BY <1>2, CountFrame
  DEF HandleRequest, WorkerDone, ResponseSendCb, loopVars, linkVars, countVars
<1>3. CASE SendResponse /\ ~Fail("write_reuse")
  <2>1. /\ worker = "done" /\ worker' = "none"
        /\ UNCHANGED <<loopVars, linkVars, countVars>>
    BY <1>3 DEF SendResponse
  <2>2. ~(skew > 0)
    BY <2>1 DEF CountInv, SkewStarves
  <2> QED BY <2>1, <2>2
          DEF CountInv, CountersBalance, SkewStarves,
              loopVars, linkVars, countVars
<1> QED BY <1>1, <1>2, <1>3 DEF AnswerSteps

LEMMA CountStep ==
  ASSUME TypeOK, LifeInv, StatusTruthful, CountInv, [Next]_vars
  PROVE  CountInv'
<1>1. ASSUME NEW lost \in SUBSET Upstreams, DoDistribute(lost) PROVE CountInv'
  BY <1>1, CountFail, CountFrame DEF DoDistribute, linkVars, countVars, workVars
<1>2. CASE NoIdler \/ WaitUpstream \/ EndOfIo \/ EndOfIteration
  BY <1>2, CountFrame
  DEF NoIdler, WaitUpstream, EndOfIo, EndOfIteration, linkVars, countVars, workVars
<1>3. CASE OnRequest \/ OnBadRequest \/ OnClientEof
  BY <1>3, CountFrame
  DEF OnRequest, OnBadRequest, OnClientEof, loopVars, linkVars, countVars, workVars
<1>4. ASSUME NEW refused \in SUBSET Upstreams, NEW accepted \in BOOLEAN,
             OnNewConnection(refused, accepted)
      PROVE  CountInv'
  BY <1>4, CountNewConnection
<1>5. CASE UpstreamCallbacks
  BY <1>5, CountUpstreamCallback DEF UpstreamCallbacks
<1>6. CASE AnswerSteps
  BY <1>6, CountAnswer
<1>7. ASSUME NEW h, Release(h) PROVE mem' = "live" => mem = "live"
  BY <1>7 DEF Release
<1>8. CASE CloseClient
  BY <1>7, <1>8, CountFrame DEF CloseClient, linkVars, countVars
<1>9. ASSUME NEW u \in Upstreams, CloseTimer(u) \/ CloseTcp(u) PROVE CountInv'
  BY <1>7, <1>9, CountFrame, CountFail
  DEF CloseTimer, CloseTcp, linkVars, countVars, workVars
<1>10. ASSUME NEW u \in Upstreams, NEW refused \in BOOLEAN, ReconnectTcp(u, refused)
       PROVE  CountInv'
  BY <1>10, CountFrame, CountFail DEF ReconnectTcp, loopVars, countVars, workVars
<1>11. CASE UNCHANGED vars
  BY <1>11, CountFrame DEF vars, loopVars, linkVars, countVars, workVars
<1> QED BY <1>1, <1>2, <1>3, <1>4, <1>5, <1>6, <1>8, <1>9, <1>10, <1>11
        DEF Next, IdlePhase, ClosePhase, ClientCallbacks

THEOREM CountInvariant == Spec => []CountInv
<1>1. Init => CountInv
  BY FS_EmptySet
  DEF Init, CountInv, CountersBalance, SkewStarves
<1>2. /\ TypeOK /\ LifeInv /\ StatusTruthful /\ CountInv /\ [Next]_vars
      => CountInv'
  BY CountStep
<1> QED BY <1>1, <1>2, TypeCorrect, LifeInvariant, StatusCorrect, PTL DEF Spec

\* distribute_count - response_count is the number of replies awaited, shifted
\* by what the uninitialised memory held.
THEOREM CountersCorrect == Spec => []CountersBalance
<1>1. CountInv => CountersBalance
  BY DEF CountInv
<1> QED BY <1>1, CountInvariant, PTL

\* A context that starts with distribute_count ahead never answers its client.
THEOREM SkewStarvesCorrect == Spec => []SkewStarves
<1>1. CountInv => SkewStarves
  BY DEF CountInv
<1> QED BY <1>1, CountInvariant, PTL

(***************************************************************************)
(* The two breaches that the model goes on after.                          *)
(***************************************************************************)

\* A close callback drops a reference of a context that is there.
LEMMA BreachRelease ==
  ASSUME LifeInv, BreachesCounted, TypeOK, NEW h \in closing, Release(h),
         UNCHANGED <<conns, relinked, reconnecting, upset>>
  PROVE  BreachesCounted'
<1>1. mem = "live"
  BY DEF LifeInv, CloseShape
<1>2. \/ mem' = "none" /\ dangling' = dangling + 1
      \/ mem' = "live" /\ dangling' = dangling
  BY <1>1 DEF Release
<1>3. conns \in Int /\ dangling \in Int
  BY DEF TypeOK
<1> QED BY <1>1, <1>2, <1>3 DEF BreachesCounted

LEMMA BreachFrame ==
  ASSUME BreachesCounted, UNCHANGED <<conns, mem, dangling, relinked, reconnecting, upset>>
  PROVE  BreachesCounted'
BY DEF BreachesCounted

LEMMA BreachFail ==
  ASSUME BreachesCounted, NEW reason, Fail(reason)
  PROVE  BreachesCounted'
BY BreachFrame DEF Fail, loopVars, breachVars, lifeVars, linkVars

\* An upstream that fails is on its way to a reconnect.
LEMMA BreachServerErr ==
  ASSUME BreachesCounted, NEW u, RequestNotSent(u) \/ OnUpstreamEof(u)
  PROVE  BreachesCounted'
<1>1. CASE Fail("wild_ctx")
  BY <1>1, BreachFail
<1>2. CASE ~Fail("wild_ctx")
  <2>1. /\ reconnecting' = reconnecting \cup {u} /\ upset' = TRUE
        /\ UNCHANGED <<conns, mem, dangling, relinked>>
    BY <1>2 DEF RequestNotSent, OnUpstreamEof, UpstreamServerErr, loopVars, breachVars
  <2> QED BY <2>1 DEF BreachesCounted
<1> QED BY <1>1, <1>2

LEMMA BreachDistribute ==
  ASSUME BreachesCounted, NEW lost \in SUBSET Upstreams, DoDistribute(lost)
  PROVE  BreachesCounted'
<1>1. CASE Fail("double_close")
  BY <1>1, BreachFail
<1>2. CASE ~Fail("double_close")
  <2>1. /\ \/ lost = {} /\ UNCHANGED <<reconnecting, upset>>
           \/ /\ reconnecting' = reconnecting \cup lost
              /\ upset' = (upset \/ lost # {})
        /\ UNCHANGED <<conns, mem, dangling, relinked>>
    BY <1>2 DEF DoDistribute, breachVars, linkVars
  <2> QED BY <2>1 DEF BreachesCounted
<1> QED BY <1>1, <1>2

LEMMA BreachStep ==
  ASSUME TypeOK, LifeInv, BreachesCounted, [Next]_vars
  PROVE  BreachesCounted'
<1>1. ASSUME NEW lost \in SUBSET Upstreams, DoDistribute(lost) PROVE BreachesCounted'
  BY <1>1, BreachDistribute
<1>2. CASE NoIdler \/ WaitUpstream \/ EndOfIo \/ EndOfIteration
  BY <1>2, BreachFrame
  DEF NoIdler, WaitUpstream, EndOfIo, EndOfIteration, breachVars, lifeVars, linkVars
<1>3. CASE OnRequest \/ OnBadRequest \/ OnClientEof
  BY <1>3, BreachFrame
  DEF OnRequest, OnBadRequest, OnClientEof, loopVars, breachVars, lifeVars, linkVars
<1>4. ASSUME NEW refused \in SUBSET Upstreams, NEW accepted \in BOOLEAN,
             OnNewConnection(refused, accepted)
      PROVE  BreachesCounted'
  <2>1. /\ mem = "none" /\ mem' = "live" /\ conns' = conns + 1 /\ dangling' = dangling
        /\ reconnecting' = {} /\ relinked' = {} /\ upset' = FALSE
    BY <1>4 DEF OnNewConnection
  <2>2. conns \in Int
    BY DEF TypeOK
  <2> QED BY <2>1, <2>2 DEF BreachesCounted
<1>5. ASSUME NEW u \in Upstreams,
             \/ \E ok \in BOOLEAN : UpstreamConnectCb(u, ok)
             \/ RequestSent(u) \/ OnGotUpstreamResponse(u)
      PROVE  BreachesCounted'
  BY <1>5, BreachFrame, BreachFail
  DEF UpstreamConnectCb, RequestSent, OnGotUpstreamResponse, loopVars, breachVars, lifeVars
<1>6. ASSUME NEW u \in Upstreams, RequestNotSent(u) \/ OnUpstreamEof(u)
      PROVE  BreachesCounted'
  BY <1>6, BreachServerErr
<1>7. CASE AnswerSteps
  BY <1>7, BreachFrame, BreachFail
  DEF AnswerSteps, HandleRequest, WorkerDone, SendResponse, ResponseSendCb, loopVars,
      breachVars, lifeVars, linkVars
<1>8. CASE CloseClient
  BY <1>8, BreachRelease DEF CloseClient, linkVars
<1>9. ASSUME NEW u \in Upstreams, CloseTimer(u) PROVE BreachesCounted'
  BY <1>9, BreachRelease, BreachFail DEF CloseTimer, linkVars
<1>10. ASSUME NEW u \in Upstreams, CloseTcp(u) PROVE BreachesCounted'
  BY <1>10, BreachRelease, BreachFail DEF CloseTcp
<1>11. ASSUME NEW u \in Upstreams, NEW refused \in BOOLEAN, ReconnectTcp(u, refused)
       PROVE  BreachesCounted'
  <2>1. CASE Fail("wild_ctx")
    BY <2>1, BreachFail
  <2>2. CASE ~Fail("wild_ctx")
    <3>1. /\ u \in reconnecting /\ reconnecting' = reconnecting \ {u}
          /\ relinked' = relinked \cup {u}
          /\ UNCHANGED <<conns, mem, dangling, upset>>
      BY <1>11, <2>2 DEF ReconnectTcp
    <3> QED BY <3>1 DEF BreachesCounted
  <2> QED BY <2>1, <2>2
<1>12. CASE UNCHANGED vars
  BY <1>12, BreachFrame DEF vars, loopVars, breachVars, lifeVars, linkVars
<1> QED BY <1>1, <1>2, <1>3, <1>4, <1>5, <1>6, <1>7, <1>8, <1>9, <1>10, <1>11, <1>12
        DEF Next, IdlePhase, ClosePhase, ClientCallbacks, UpstreamCallbacks

\* Whatever clients and upstreams do, every context that is freed leaves one
\* idle handle behind, and every upstream that fails a connection is on its way
\* to a reconnect or came back with a timer that was initialised while open.
THEOREM BreachesCorrect == Spec => []BreachesCounted
<1>1. Init => BreachesCounted
  BY DEF Init, BreachesCounted
<1>2. TypeOK /\ LifeInv /\ BreachesCounted /\ [Next]_vars => BreachesCounted'
  BY BreachStep
<1> QED BY <1>1, <1>2, TypeCorrect, LifeInvariant, PTL DEF Spec

-----------------------------------------------------------------------------
(***************************************************************************)
(* The server groups: the counters a group's decisions rest on, which      *)
(* upstream distribute_request_group picks, and what is final about a      *)
(* failed one.                                                             *)
(***************************************************************************)

(***************************************************************************)
(* Counting the upstreams of a group by their status.                      *)
(***************************************************************************)

\* The upstreams of a group with a status of K, under the status function f.
With(f, g, K) == {v \in InGroup(g) : f[v] \in K}

LEMMA WithCount ==
  ASSUME NEW f, NEW g \in GroupIdx, NEW K
  PROVE  IsFiniteSet(With(f, g, K)) /\ Cardinality(With(f, g, K)) \in Nat
<1>1. With(f, g, K) \in SUBSET Upstreams
  BY DEF With, InGroup
<1> QED BY <1>1, PartCount

\* One upstream changes its status: only its own group counts differently.
LEMMA WithOfOne ==
  ASSUME NEW f, NEW h, NEW u \in Upstreams,
         \A v \in Upstreams : v # u => h[v] = f[v],
         NEW g \in GroupIdx, NEW K
  PROVE  Cardinality(With(h, g, K)) =
           Cardinality(With(f, g, K))
             + (IF u[1] = g /\ h[u] \in K THEN 1 ELSE 0)
             - (IF u[1] = g /\ f[u] \in K THEN 1 ELSE 0)
<1> DEFINE rest == With(f, g, K) \ {u}
<1>1. /\ IsFiniteSet(With(f, g, K)) /\ Cardinality(With(f, g, K)) \in Nat
      /\ IsFiniteSet(With(h, g, K)) /\ Cardinality(With(h, g, K)) \in Nat
  BY WithCount
<1>2. rest = With(h, g, K) \ {u}
  BY DEF With, InGroup
<1>3. u \in With(f, g, K) <=> u[1] = g /\ f[u] \in K
  BY DEF With, InGroup
<1>4. u \in With(h, g, K) <=> u[1] = g /\ h[u] \in K
  BY DEF With, InGroup
<1>5. Cardinality(rest) = IF u \in With(f, g, K)
                            THEN Cardinality(With(f, g, K)) - 1
                            ELSE Cardinality(With(f, g, K))
  BY <1>1, FS_RemoveElement
<1>6. Cardinality(rest) = IF u \in With(h, g, K)
                            THEN Cardinality(With(h, g, K)) - 1
                            ELSE Cardinality(With(h, g, K))
  BY <1>1, <1>2, FS_RemoveElement
<1> HIDE DEF rest
<1> QED BY <1>1, <1>3, <1>4, <1>5, <1>6

(***************************************************************************)
(* The counters of a group.                                                *)
(***************************************************************************)

\* GroupCounts says that the counters are those of these two sets.
Serving == {"idle", "work"}

LEMMA CountedSets ==
  ASSUME NEW f, NEW g
  PROVE  /\ With(f, g, Serving) = {u \in InGroup(g) : f[u] \in {"idle", "work"}}
         /\ With(f, g, {"connecting"}) = {u \in InGroup(g) : f[u] = "connecting"}
BY DEF With, Serving

LEMMA GroupsFrame ==
  ASSUME GroupCounts, mem' = "live" => mem = "live",
         UNCHANGED <<status, sock_num, connecting>>
  PROVE  GroupCounts'
BY DEF GroupCounts

LEMMA GroupsFail ==
  ASSUME GroupCounts, NEW reason, Fail(reason)
  PROVE  GroupCounts'
BY GroupsFrame DEF Fail, loopVars, linkVars, groupVars

\* One upstream changes its status and the counters of its group follow.
LEMMA GroupsOfOne ==
  ASSUME TypeOK, GroupCounts, mem' = "live" => mem = "live",
         NEW u \in Upstreams,
         \A v \in Upstreams : v # u => status'[v] = status[v],
         \A g \in GroupIdx :
           /\ sock_num'[g] = sock_num[g]
                + (IF u[1] = g /\ status'[u] \in Serving THEN 1 ELSE 0)
                - (IF u[1] = g /\ status[u] \in Serving THEN 1 ELSE 0)
           /\ connecting'[g] = connecting[g]
                + (IF u[1] = g /\ status'[u] = "connecting" THEN 1 ELSE 0)
                - (IF u[1] = g /\ status[u] = "connecting" THEN 1 ELSE 0)
  PROVE  GroupCounts'
<1> SUFFICES ASSUME mem' = "live", NEW g \in GroupIdx
             PROVE  /\ sock_num'[g] = Cardinality(With(status', g, Serving))
                    /\ connecting'[g] = Cardinality(With(status', g, {"connecting"}))
  BY CountedSets DEF GroupCounts
<1>1. /\ sock_num[g] = Cardinality(With(status, g, Serving))
      /\ connecting[g] = Cardinality(With(status, g, {"connecting"}))
  BY CountedSets DEF GroupCounts
<1>2. Cardinality(With(status', g, Serving)) =
        Cardinality(With(status, g, Serving))
          + (IF u[1] = g /\ status'[u] \in Serving THEN 1 ELSE 0)
          - (IF u[1] = g /\ status[u] \in Serving THEN 1 ELSE 0)
  BY WithOfOne
<1>3. Cardinality(With(status', g, {"connecting"})) =
        Cardinality(With(status, g, {"connecting"}))
          + (IF u[1] = g /\ status'[u] \in {"connecting"} THEN 1 ELSE 0)
          - (IF u[1] = g /\ status[u] \in {"connecting"} THEN 1 ELSE 0)
  BY WithOfOne
<1> QED BY <1>1, <1>2, <1>3

LEMMA GroupsConnected ==
  ASSUME TypeOK, StatusTruthful, GroupCounts, mem' = "live" => mem = "live",
         NEW u \in connReq, NEW ok \in BOOLEAN, Connected(u, ok)
  PROVE  GroupCounts'
<1>1. CASE mem' # "live"
  BY <1>1 DEF GroupCounts
<1>2. CASE mem' = "live"
  <2>1. u \in Upstreams /\ u[1] \in GroupIdx /\ status[u] = "connecting"
    BY <1>2, UpstreamInGroup DEF TypeOK, StatusTruthful
  <2>2. \A v \in Upstreams : v # u => status'[v] = status[v]
    BY DEF Connected, TypeOK
  <2>3. status'[u] = IF ok THEN "idle" ELSE "wait_reconnect"
    BY <2>1 DEF Connected, TypeOK
  <2>4. ASSUME NEW g \in GroupIdx
        PROVE  /\ sock_num'[g] = sock_num[g] + (IF u[1] = g /\ ok THEN 1 ELSE 0)
               /\ connecting'[g] = connecting[g] - (IF u[1] = g THEN 1 ELSE 0)
    BY <2>1 DEF Connected, TypeOK
  <2> HIDE DEF Connected
  <2>5. \A g \in GroupIdx :
          /\ sock_num'[g] = sock_num[g]
               + (IF u[1] = g /\ status'[u] \in Serving THEN 1 ELSE 0)
               - (IF u[1] = g /\ status[u] \in Serving THEN 1 ELSE 0)
          /\ connecting'[g] = connecting[g]
               + (IF u[1] = g /\ status'[u] = "connecting" THEN 1 ELSE 0)
               - (IF u[1] = g /\ status[u] = "connecting" THEN 1 ELSE 0)
    BY <2>1, <2>3, <2>4 DEF Serving, TypeOK
  <2> QED BY <2>1, <2>2, <2>5, GroupsOfOne
<1> QED BY <1>1, <1>2

\* upstream_server_err is called for an upstream that is at work.
LEMMA GroupsServerErr ==
  ASSUME TypeOK, StatusTruthful, GroupCounts, mem' = "live" => mem = "live",
         NEW u \in writeReq \cup reading, UpstreamServerErr({u}),
         UNCHANGED connecting
  PROVE  GroupCounts'
<1>1. CASE mem' # "live"
  BY <1>1 DEF GroupCounts
<1>2. CASE mem' = "live"
  <2>1. u \in Upstreams /\ status[u] = "work"
    BY <1>2 DEF TypeOK, StatusTruthful
  <2>2. \A v \in Upstreams : v # u => status'[v] = status[v]
    BY DEF UpstreamServerErr
  <2>3. status'[u] = "close"
    BY <2>1 DEF UpstreamServerErr
  <2>4. ASSUME NEW g \in GroupIdx
        PROVE  sock_num'[g] = sock_num[g] - (IF u[1] = g THEN 1 ELSE 0)
    <3>1. sock_num'[g] = sock_num[g] - Cardinality({u} \cap InGroup(g))
      BY DEF UpstreamServerErr
    <3>2. CASE u[1] = g
      <4>1. {u} \cap InGroup(g) = {u}
        BY <2>1, <3>2 DEF InGroup
      <4> QED BY <3>1, <3>2, <4>1, FS_Singleton
    <3>3. CASE u[1] # g
      <4>1. {u} \cap InGroup(g) = {}
        BY <3>3 DEF InGroup
      <4> QED BY <3>1, <3>3, <4>1, FS_EmptySet DEF TypeOK
    <3> QED BY <3>2, <3>3
  <2> HIDE DEF UpstreamServerErr
  <2>5. \A g \in GroupIdx :
          /\ sock_num'[g] = sock_num[g]
               + (IF u[1] = g /\ status'[u] \in Serving THEN 1 ELSE 0)
               - (IF u[1] = g /\ status[u] \in Serving THEN 1 ELSE 0)
          /\ connecting'[g] = connecting[g]
               + (IF u[1] = g /\ status'[u] = "connecting" THEN 1 ELSE 0)
               - (IF u[1] = g /\ status[u] = "connecting" THEN 1 ELSE 0)
    BY <2>1, <2>3, <2>4 DEF Serving, TypeOK
  <2> QED BY <2>1, <2>2, <2>5, GroupsOfOne
<1> QED BY <1>1, <1>2

\* A request goes out: those it was lost on no longer serve, the others are
\* at work instead of idle.
LEMMA GroupsDistribute ==
  ASSUME TypeOK, GroupCounts, NEW lost \in SUBSET Upstreams, DoDistribute(lost)
  PROVE  GroupCounts'
<1> DEFINE sent == Picked \ lost
<1>1. CASE sent = {} /\ lost # {}
  BY <1>1, GroupsFail DEF DoDistribute
<1>2. CASE sent = {} /\ lost = {}
  BY <1>2, GroupsFrame DEF DoDistribute, linkVars, groupVars
<1>3. CASE sent # {}
  <2>1. /\ lost \subseteq Picked /\ mem' = mem /\ connecting' = connecting
        /\ sock_num' = [g \in GroupIdx |->
                          sock_num[g] - Cardinality(lost \cap InGroup(g))]
        /\ status' = [u \in Upstreams |->
                        IF u \in Picked \ lost THEN "work"
                        ELSE IF u \in lost THEN "close" ELSE status[u]]
    BY <1>3 DEF DoDistribute
  <2>2. \A u \in Picked : u \in Upstreams /\ status[u] = "idle"
    BY DEF Picked
  <2>3. mem' = "live" => mem = "live"
    BY <2>1
  <2> HIDE DEF sent
  <2> SUFFICES ASSUME mem = "live", NEW g \in GroupIdx
               PROVE  /\ sock_num'[g] = Cardinality(With(status', g, Serving))
                      /\ connecting'[g] = Cardinality(With(status', g, {"connecting"}))
    BY <2>3, CountedSets DEF GroupCounts
  <2>4. /\ sock_num[g] = Cardinality(With(status, g, Serving))
        /\ connecting[g] = Cardinality(With(status, g, {"connecting"}))
    BY CountedSets DEF GroupCounts
  <2>5. With(status', g, {"connecting"}) = With(status, g, {"connecting"})
    BY <2>1, <2>2 DEF With, InGroup
  <2>6. With(status', g, Serving) = With(status, g, Serving) \ (lost \cap InGroup(g))
    BY <2>1, <2>2 DEF With, InGroup, Serving
  <2>7. With(status, g, Serving) \cap (lost \cap InGroup(g)) = lost \cap InGroup(g)
    BY <2>1, <2>2 DEF With, InGroup, Serving
  <2>8. Cardinality(With(status', g, Serving)) =
          Cardinality(With(status, g, Serving)) - Cardinality(lost \cap InGroup(g))
    <3> DEFINE served == With(status, g, Serving)
               gone == lost \cap InGroup(g)
    <3>1. IsFiniteSet(served)
      BY WithCount
    <3> HIDE DEF served, gone
    <3>2. Cardinality(served \ gone) = Cardinality(served) - Cardinality(served \cap gone)
      BY <3>1, FS_Difference
    <3> QED BY <2>6, <2>7, <3>2 DEF served, gone
  <2> QED BY <2>1, <2>4, <2>5, <2>8
<1> QED BY <1>1, <1>2, <1>3

LEMMA GroupsNewConnection ==
  ASSUME NEW refused \in SUBSET Upstreams, NEW accepted \in BOOLEAN,
         OnNewConnection(refused, accepted)
  PROVE  GroupCounts'
<1>1. /\ status' = [u \in Upstreams |-> IF u \in refused THEN "wait_reconnect"
                                                         ELSE "connecting"]
      /\ sock_num' = [g \in GroupIdx |-> 0]
      /\ connecting' = [g \in GroupIdx |-> Cardinality(InGroup(g) \ refused)]
  BY DEF OnNewConnection
<1> SUFFICES ASSUME NEW g \in GroupIdx
             PROVE  /\ sock_num'[g] = Cardinality(With(status', g, Serving))
                    /\ connecting'[g] = Cardinality(With(status', g, {"connecting"}))
  BY CountedSets DEF GroupCounts
<1>2. With(status', g, Serving) = {}
  BY <1>1 DEF With, InGroup, Serving
<1>3. With(status', g, {"connecting"}) = InGroup(g) \ refused
  BY <1>1 DEF With, InGroup
<1> QED BY <1>1, <1>2, <1>3, FS_EmptySet

LEMMA GroupsReconnect ==
  ASSUME TypeOK, LifeInv, StatusTruthful, GroupCounts,
         NEW u \in Upstreams, NEW refused \in BOOLEAN, ReconnectTcp(u, refused)
  PROVE  GroupCounts'
<1>1. CASE ~RecoversCtx(u)
  BY <1>1, GroupsFail DEF ReconnectTcp
<1>2. CASE RecoversCtx(u)
  <2> DEFINE st == IF refused THEN "wait_reconnect" ELSE "connecting"
  <2>1. /\ u \in reconnecting /\ mem' = mem /\ sock_num' = sock_num
        /\ status' = [status EXCEPT ![u] = st]
        /\ connecting' = IF refused THEN connecting
                         ELSE [connecting EXCEPT ![u[1]] = @ + 1]
    BY <1>2 DEF ReconnectTcp, loopVars
  <2>2. mem = "live"
    BY <2>1 DEF LifeInv, CloseShape
  <2>3. status[u] = "close" /\ u[1] \in GroupIdx
    BY <2>1, <2>2, UpstreamInGroup DEF StatusTruthful
  <2>4. status'[u] = st /\ \A v \in Upstreams : v # u => status'[v] = status[v]
    BY <2>1 DEF TypeOK
  <2>5. \A g \in GroupIdx :
          connecting'[g] = connecting[g] + (IF u[1] = g /\ ~refused THEN 1 ELSE 0)
    BY <2>1, <2>3 DEF TypeOK
  <2>6. \A g \in GroupIdx :
          /\ sock_num'[g] = sock_num[g]
               + (IF u[1] = g /\ status'[u] \in Serving THEN 1 ELSE 0)
               - (IF u[1] = g /\ status[u] \in Serving THEN 1 ELSE 0)
          /\ connecting'[g] = connecting[g]
               + (IF u[1] = g /\ status'[u] = "connecting" THEN 1 ELSE 0)
               - (IF u[1] = g /\ status[u] = "connecting" THEN 1 ELSE 0)
    BY <2>1, <2>3, <2>4, <2>5 DEF Serving, TypeOK
  <2> HIDE DEF st
  <2> QED BY <2>1, <2>4, <2>6, GroupsOfOne
<1> QED BY <1>1, <1>2

LEMMA GroupsUpstreamCallback ==
  ASSUME TypeOK, LifeInv, StatusTruthful, GroupCounts, NEW u \in Upstreams,
         \/ \E ok \in BOOLEAN : UpstreamConnectCb(u, ok)
         \/ RequestSent(u) \/ RequestNotSent(u)
         \/ OnGotUpstreamResponse(u) \/ OnUpstreamEof(u)
  PROVE  GroupCounts'
<1>1. CASE Fail("wild_ctx") \/ Fail("requeued_work")
  BY <1>1, GroupsFail
<1>2. ASSUME NEW ok \in BOOLEAN, UpstreamConnectCb(u, ok)
      PROVE  GroupCounts'
  BY <1>2, GroupsConnected DEF UpstreamConnectCb, loopVars
<1>3. CASE RequestSent(u) /\ RecoversCtx(u)
  BY <1>3, GroupsFrame DEF RequestSent, loopVars, groupVars
<1>4. CASE RequestNotSent(u) /\ RecoversCtx(u)
  <2>1. /\ u \in writeReq \cup reading /\ UpstreamServerErr({u})
        /\ mem' = mem /\ connecting' = connecting
    BY <1>4 DEF RequestNotSent, loopVars
  <2> QED BY <2>1, GroupsServerErr
<1>5. CASE OnUpstreamEof(u) /\ RecoversCtx(u)
  <2>1. /\ u \in writeReq \cup reading /\ UpstreamServerErr({u})
        /\ mem' = mem /\ connecting' = connecting
    BY <1>5 DEF OnUpstreamEof, loopVars
  <2> QED BY <2>1, GroupsServerErr
<1>6. CASE /\ OnGotUpstreamResponse(u) /\ RecoversCtx(u)
           /\ ~Fail("requeued_work")
  <2>1. /\ u \in reading /\ mem' = mem
        /\ status' = [status EXCEPT ![u] = "idle"]
        /\ UNCHANGED <<sock_num, connecting>>
    BY <1>6 DEF OnGotUpstreamResponse, loopVars, groupVars
  <2>2. CASE mem # "live"
    BY <2>1, <2>2 DEF GroupCounts
  <2>3. CASE mem = "live"
    <3>1. status[u] = "work"
      BY <2>1, <2>3 DEF StatusTruthful
    <3>2. status'[u] = "idle" /\ \A v \in Upstreams : v # u => status'[v] = status[v]
      BY <2>1 DEF TypeOK
    <3>3. \A g \in GroupIdx :
            /\ sock_num'[g] = sock_num[g]
                 + (IF u[1] = g /\ status'[u] \in Serving THEN 1 ELSE 0)
                 - (IF u[1] = g /\ status[u] \in Serving THEN 1 ELSE 0)
            /\ connecting'[g] = connecting[g]
                 + (IF u[1] = g /\ status'[u] = "connecting" THEN 1 ELSE 0)
                 - (IF u[1] = g /\ status[u] = "connecting" THEN 1 ELSE 0)
      BY <2>1, <3>1, <3>2 DEF Serving, TypeOK
    <3> QED BY <2>1, <3>2, <3>3, GroupsOfOne
  <2> QED BY <2>2, <2>3
<1> QED BY <1>1, <1>2, <1>3, <1>4, <1>5, <1>6
        DEF RequestSent, RequestNotSent, OnGotUpstreamResponse, OnUpstreamEof

LEMMA GroupsStep ==
  ASSUME TypeOK, LifeInv, StatusTruthful, GroupCounts, [Next]_vars
  PROVE  GroupCounts'
<1>1. ASSUME NEW lost \in SUBSET Upstreams, DoDistribute(lost) PROVE GroupCounts'
  BY <1>1, GroupsDistribute
<1>2. CASE NoIdler \/ WaitUpstream \/ EndOfIo \/ EndOfIteration
  BY <1>2, GroupsFrame
  DEF NoIdler, WaitUpstream, EndOfIo, EndOfIteration, linkVars, groupVars
<1>3. CASE OnRequest \/ OnBadRequest \/ OnClientEof
  BY <1>3, GroupsFrame
  DEF OnRequest, OnBadRequest, OnClientEof, loopVars, linkVars, groupVars
<1>4. ASSUME NEW refused \in SUBSET Upstreams, NEW accepted \in BOOLEAN,
             OnNewConnection(refused, accepted)
      PROVE  GroupCounts'
  BY <1>4, GroupsNewConnection
<1>5. CASE UpstreamCallbacks
  BY <1>5, GroupsUpstreamCallback DEF UpstreamCallbacks
<1>6. CASE AnswerSteps
  BY <1>6, GroupsFrame, GroupsFail
  DEF AnswerSteps, HandleRequest, WorkerDone, SendResponse, ResponseSendCb,
      loopVars, linkVars, groupVars
<1>7. ASSUME NEW h, Release(h) PROVE mem' = "live" => mem = "live"
  BY <1>7 DEF Release
<1>8. CASE CloseClient
  BY <1>7, <1>8, GroupsFrame DEF CloseClient, linkVars, groupVars
<1>9. ASSUME NEW u \in Upstreams, CloseTimer(u) PROVE GroupCounts'
  BY <1>7, <1>9, GroupsFrame, GroupsFail DEF CloseTimer, linkVars, groupVars
<1>10. ASSUME NEW u \in Upstreams, CloseTcp(u) PROVE GroupCounts'
  <2>1. CASE Fail("wild_ctx") \/ Fail("double_close")
    BY <2>1, GroupsFail
  <2>2. CASE /\ Release(Tcp(u))
             /\ IF u \in connReq
                  THEN Connected(u, FALSE)
                  ELSE UNCHANGED <<connReq, connecting, status, sock_num>>
    <3>1. mem' = "live" => mem = "live"
      BY <1>7, <2>2
    <3>2. CASE u \in connReq
      BY <2>2, <3>1, <3>2, GroupsConnected
    <3>3. CASE u \notin connReq
      BY <2>2, <3>1, <3>3, GroupsFrame
    <3> QED BY <3>2, <3>3
  <2> QED BY <1>10, <2>1, <2>2 DEF CloseTcp
<1>11. ASSUME NEW u \in Upstreams, NEW refused \in BOOLEAN, ReconnectTcp(u, refused)
       PROVE  GroupCounts'
  BY <1>11, GroupsReconnect
<1>12. CASE UNCHANGED vars
  BY <1>12, GroupsFrame DEF vars, loopVars, linkVars, groupVars
<1> QED BY <1>1, <1>2, <1>3, <1>4, <1>5, <1>6, <1>8, <1>9, <1>10, <1>11, <1>12
        DEF Next, IdlePhase, ClosePhase, ClientCallbacks

\* sock_num and connecting of a group are what they are read as: the number of
\* its upstreams that are connected, and that are being connected.
THEOREM GroupCountsCorrect == Spec => []GroupCounts
<1>1. Init => GroupCounts
  BY DEF Init, GroupCounts
<1>2. TypeOK /\ LifeInv /\ StatusTruthful /\ GroupCounts /\ [Next]_vars
      => GroupCounts'
  BY GroupsStep
<1> QED BY <1>1, <1>2, TypeCorrect, LifeInvariant, StatusCorrect, PTL DEF Spec

(***************************************************************************)
(* What is final.                                                          *)
(***************************************************************************)

\* A failed upstream keeps its status over a step of the same connection.
LEMMA WaitReconnectStep ==
  ASSUME TypeOK, LifeInv, StatusTruthful, [Next]_vars, NEW u \in Upstreams,
         mem = "live", status[u] = "wait_reconnect", conns' = conns
  PROVE  status'[u] = "wait_reconnect"
<1>1. /\ u \notin connReq /\ u \notin writeReq /\ u \notin reading
      /\ u \notin reconnecting /\ u \notin Picked
  BY DEF StatusTruthful, Picked
<1>2. ASSUME UNCHANGED status PROVE status'[u] = "wait_reconnect"
  BY <1>2
<1>3. ASSUME NEW reason, Fail(reason) PROVE UNCHANGED status
  BY <1>3 DEF Fail, linkVars
<1>4. ASSUME NEW lost \in SUBSET Upstreams, DoDistribute(lost)
      PROVE  status'[u] = "wait_reconnect"
  <2>1. CASE Picked \ lost = {}
    BY <1>2, <1>3, <1>4, <2>1 DEF DoDistribute, linkVars
  <2>2. CASE Picked \ lost # {}
    <3>1. /\ lost \subseteq Picked
          /\ status' = [v \in Upstreams |-> IF v \in Picked \ lost THEN "work"
                                            ELSE IF v \in lost THEN "close"
                                            ELSE status[v]]
      BY <1>4, <2>2 DEF DoDistribute
    <3> QED BY <1>1, <3>1
  <2> QED BY <2>1, <2>2
<1>5. ASSUME NEW v \in Upstreams, v # u,
             \A w \in Upstreams : w # v => status'[w] = status[w]
      PROVE  status'[u] = "wait_reconnect"
  BY <1>5
<1>6. ASSUME NEW v \in connReq, NEW ok \in BOOLEAN, Connected(v, ok)
      PROVE  status'[u] = "wait_reconnect"
  BY <1>1, <1>6 DEF Connected, TypeOK
<1>7. ASSUME NEW v \in writeReq \cup reading, UpstreamServerErr({v})
      PROVE  status'[u] = "wait_reconnect"
  BY <1>1, <1>7 DEF UpstreamServerErr
<1>8. ASSUME NEW v \in Upstreams,
             \/ \E ok \in BOOLEAN : UpstreamConnectCb(v, ok)
             \/ RequestSent(v) \/ RequestNotSent(v)
             \/ OnGotUpstreamResponse(v) \/ OnUpstreamEof(v)
      PROVE  status'[u] = "wait_reconnect"
  <2>1. CASE Fail("wild_ctx") \/ Fail("requeued_work") \/ UNCHANGED status
    BY <1>2, <1>3, <2>1
  <2>2. CASE OnGotUpstreamResponse(v) /\ status' = [status EXCEPT ![v] = "idle"]
    BY <1>1, <2>2 DEF OnGotUpstreamResponse, TypeOK
  <2>3. CASE \E ok \in BOOLEAN : UpstreamConnectCb(v, ok)
    BY <1>6, <2>3 DEF UpstreamConnectCb
  <2>4. CASE RequestNotSent(v) /\ RecoversCtx(v)
    BY <1>7, <2>4 DEF RequestNotSent
  <2>5. CASE OnUpstreamEof(v) /\ RecoversCtx(v)
    BY <1>7, <2>5 DEF OnUpstreamEof
  <2> QED BY <1>8, <2>1, <2>2, <2>3, <2>4, <2>5
          DEF RequestSent, RequestNotSent, OnGotUpstreamResponse, OnUpstreamEof
<1>9. CASE NoIdler \/ WaitUpstream \/ EndOfIo \/ EndOfIteration
           \/ OnRequest \/ OnBadRequest \/ OnClientEof
  BY <1>2, <1>9
  DEF NoIdler, WaitUpstream, EndOfIo, EndOfIteration, OnRequest, OnBadRequest,
      OnClientEof, linkVars
<1>10. ASSUME NEW refused \in SUBSET Upstreams, NEW accepted \in BOOLEAN,
              OnNewConnection(refused, accepted)
       PROVE  FALSE
  BY <1>10 DEF OnNewConnection, TypeOK
<1>11. CASE AnswerSteps
  BY <1>2, <1>3, <1>11
  DEF AnswerSteps, HandleRequest, WorkerDone, SendResponse, ResponseSendCb, linkVars
<1>12. CASE CloseClient
  BY <1>2, <1>12 DEF CloseClient, linkVars
<1>13. ASSUME NEW v \in Upstreams, CloseTimer(v) PROVE status'[u] = "wait_reconnect"
  BY <1>2, <1>3, <1>13 DEF CloseTimer, linkVars
<1>14. ASSUME NEW v \in Upstreams, CloseTcp(v) PROVE status'[u] = "wait_reconnect"
  BY <1>2, <1>3, <1>6, <1>14 DEF CloseTcp
<1>15. ASSUME NEW v \in Upstreams, NEW refused \in BOOLEAN, ReconnectTcp(v, refused)
       PROVE  status'[u] = "wait_reconnect"
  BY <1>1, <1>2, <1>3, <1>15 DEF ReconnectTcp, TypeOK
<1>16. CASE UNCHANGED vars
  BY <1>2, <1>16 DEF vars, linkVars
<1> QED BY <1>4, <1>8, <1>9, <1>10, <1>11, <1>12, <1>13, <1>14, <1>15, <1>16
        DEF Next, IdlePhase, ClosePhase, ClientCallbacks, UpstreamCallbacks

\* upstream_wait_reconnect is final: no later callback of the connection takes
\* an upstream out of it, so its server is lost to that client.
THEOREM WaitReconnectIsFinal == Spec => WaitReconnectFinal
<1>1. TypeOK /\ LifeInv /\ StatusTruthful /\ [Next]_vars
      => [\A u \in Upstreams :
            mem = "live" /\ status[u] = "wait_reconnect" /\ conns' = conns
              => status'[u] = "wait_reconnect"]_vars
  BY WaitReconnectStep
<1> QED BY <1>1, TypeCorrect, LifeInvariant, StatusCorrect, PTL
        DEF Spec, WaitReconnectFinal

(***************************************************************************)
(* Who is picked.                                                          *)
(***************************************************************************)

\* n probes after l reach each of n servers.
LEMMA ProbesReachAll ==
  ASSUME NEW n \in 1..GROUP_MAX_SERVER_NUM, NEW l \in Nat, NEW s \in 0..(n - 1)
  PROVE  \E k \in 1..n : (l + k) % n = s
<1> DEFINE r == l % n
           k == IF s > r THEN s - r ELSE n + s - r
<1>1. n \in Nat /\ n > 0 /\ r \in 0..(n - 1)
  BY DEF GROUP_MAX_SERVER_NUM
<1>2. k \in 1..n
  BY <1>1
<1>3. (l + k) % n = s
  <2>1. CASE n = 1
    BY <1>1, <1>2, <2>1
  <2>2. CASE n = 2
    BY <2>2
  <2>3. CASE n = 3
    BY <2>3
  <2>4. CASE n = 4
    BY <2>4
  <2>5. CASE n = 5
    BY <2>5
  <2>6. CASE n = 6
    BY <2>6
  <2>7. CASE n = 7
    BY <2>7
  <2>8. CASE n = 8
    BY <2>8
  <2>9. CASE n = 9
    BY <2>9
  <2>10. CASE n = 10
    BY <2>10
  <2> QED BY <2>1, <2>2, <2>3, <2>4, <2>5, <2>6, <2>7, <2>8, <2>9, <2>10
          DEF GROUP_MAX_SERVER_NUM
<1> QED BY <1>2, <1>3

\* A group that still has as many connected upstreams as servers probes all of
\* them, from wherever lru stands: it picks an upstream unless all are at work.
LEMMA FullGroupPicks ==
  ASSUME TypeOK, NEW g \in GroupIdx, sock_num[g] = SrvNum[g],
         NEW u \in InGroup(g), status[u] = "idle"
  PROVE  \E v \in Picked : v[1] = g
<1> DEFINE n == SrvNum[g]
           idle == {k \in 1..n : status[Probe(g, k)] = "idle"}
<1>1. u \in Upstreams /\ u = <<g, u[2]>> /\ u[2] \in Nat /\ u[2] < n
  BY DEF InGroup, Upstreams, GROUP_MAX_SERVER_NUM
<1>2. n \in 1..GROUP_MAX_SERVER_NUM /\ u[2] \in 0..(n - 1) /\ lru[g] \in Nat
  BY <1>1, TopologyAssumption DEF TypeOK, GroupIdx, GROUP_MAX_SERVER_NUM
<1> HIDE DEF n
<1>3. \A k \in 1..n : Probe(g, k) \in Upstreams
  <2> SUFFICES ASSUME NEW k \in 1..n PROVE Probe(g, k) \in Upstreams
    OBVIOUS
  <2>1. n \in Nat /\ n > 0 /\ lru[g] + k \in Nat
    BY <1>2 DEF GROUP_MAX_SERVER_NUM
  <2>2. (lru[g] + k) % n \in 0..(n - 1)
    BY <2>1
  <2>3. (lru[g] + k) % n \in 0..(GROUP_MAX_SERVER_NUM - 1) /\ (lru[g] + k) % n < n
    BY <1>2, <2>2 DEF GROUP_MAX_SERVER_NUM
  <2> QED BY <2>3 DEF Probe, Upstreams, n
<1>4. idle # {} /\ idle \in SUBSET Nat
  <2>1. PICK k \in 1..n : (lru[g] + k) % n = u[2]
    BY <1>2, ProbesReachAll
  <2>2. Probe(g, k) = u
    BY <1>1, <2>1 DEF Probe, n
  <2>3. idle \in SUBSET Nat
    BY <1>2 DEF GROUP_MAX_SERVER_NUM
  <2> QED BY <2>1, <2>2, <2>3
<1>5. PICK k \in idle : \A j \in idle : k <= j
  <2> HIDE DEF idle
  <2> QED BY <1>4, LeastOf
<1>6. k \in 1..n /\ status[Probe(g, k)] = "idle"
  BY <1>5
<1>7. \A j \in 1..(k - 1) : status[Probe(g, j)] # "idle"
  <2> SUFFICES ASSUME NEW j \in 1..(k - 1), status[Probe(g, j)] = "idle"
               PROVE  FALSE
    OBVIOUS
  <2>1. j \in 1..n /\ j < k
    BY <1>2, <1>6 DEF GROUP_MAX_SERVER_NUM
  <2>2. j \in idle
    BY <2>1
  <2>3. k <= j
    BY <1>5, <2>2
  <2> QED BY <1>2, <1>6, <2>1, <2>3 DEF GROUP_MAX_SERVER_NUM
<1>8. Probe(g, k)[1] = g
  BY DEF Probe
<1>9. k \in 1..sock_num[g]
  BY <1>6 DEF n
<1> HIDE DEF idle
<1>10. Probe(g, k) \in Upstreams
  BY <1>3, <1>6
<1>11. Probe(g, k) \in Picked
  BY <1>6, <1>7, <1>8, <1>9, <1>10 DEF Picked
<1> QED BY <1>8, <1>11

\* With every configured server of a group connected, a request of the client
\* is given to that group whenever one of its upstreams is idle.
THEOREM FullGroupIsServed == Spec => []FullGroupServes
<1>1. TypeOK => FullGroupServes
  BY FullGroupPicks DEF FullGroupServes
<1> QED BY <1>1, TypeCorrect, PTL

=============================================================================
