---------------------------- MODULE AnswerProofs ----------------------------
(***************************************************************************)
(* Theorems about the requests and the answers of Server: how many answers *)
(* a client gets, whose reply they show, and when no callback leaves the   *)
(* defined behaviour of the program.                                       *)
(***************************************************************************)
EXTENDS ServerProofs

(***************************************************************************)
(* A request under way is in one of three places: the idle handle that     *)
(* will distribute it, the upstream that works on it, the worker that      *)
(* renders its page.  Only the first upstream ever reaches the worker.     *)
(***************************************************************************)
First == <<0, 0>>

Bit(b) == IF b THEN 1 ELSE 0

InFlight ==
  Bit(idler) + Bit(First \in writeReq \cup reading) + Bit(worker # "none")

\* Every request has been answered, is under way, or is lost.
AnswerInv == Len(answers) + InFlight <= asked

LEMMA AnswerTypes ==
  ASSUME TypeOK
  PROVE  Len(answers) \in Nat /\ asked \in Nat /\ InFlight \in 0..3
<1>1. Len(answers) \in Nat /\ asked \in Nat
  BY ServerAssumption DEF TypeOK
<1>2. \A b : Bit(b) \in 0..1
  BY DEF Bit
<1>3. InFlight \in 0..3
  <2>1. /\ Bit(idler) \in 0..1 /\ Bit(worker # "none") \in 0..1
        /\ Bit(First \in writeReq \cup reading) \in 0..1
    BY <1>2
  <2> QED BY <2>1 DEF InFlight
<1> QED BY <1>1, <1>3

LEMMA AnswerFrame ==
  ASSUME AnswerInv, TypeOK, UNCHANGED <<answers, asked>>,
         idler' => idler, worker' # "none" => worker # "none",
         First \in writeReq' \cup reading' => First \in writeReq \cup reading
  PROVE  AnswerInv' /\ InFlight' <= InFlight
<1>1. InFlight' <= InFlight /\ InFlight' \in Nat /\ InFlight \in Nat
  <2>1. /\ Bit(idler') \in 0..1 /\ Bit(idler) \in 0..1
        /\ Bit(idler') <= Bit(idler)
    BY DEF Bit
  <2>2. /\ Bit(worker' # "none") \in 0..1 /\ Bit(worker # "none") \in 0..1
        /\ Bit(worker' # "none") <= Bit(worker # "none")
    BY DEF Bit
  <2>3. /\ Bit(First \in writeReq' \cup reading') \in 0..1
        /\ Bit(First \in writeReq \cup reading) \in 0..1
        /\ Bit(First \in writeReq' \cup reading') <= Bit(First \in writeReq \cup reading)
    BY DEF Bit
  <2> QED BY <2>1, <2>2, <2>3 DEF InFlight
<1> QED BY <1>1, AnswerTypes DEF AnswerInv

LEMMA AnswerFail ==
  ASSUME AnswerInv, TypeOK, NEW reason, Fail(reason)
  PROVE  AnswerInv'
BY AnswerFrame DEF Fail, linkVars, reqVars, workVars

\* The idle handle hands the request to upstreams, or drops it.
LEMMA AnswerDistribute ==
  ASSUME AnswerInv, TypeOK, NEW lost \in SUBSET Upstreams, DoDistribute(lost)
  PROVE  AnswerInv'
<1>1. CASE Fail("double_close")
  BY <1>1, AnswerFail
<1>2. CASE ~Fail("double_close")
  <2>1. /\ idler /\ idler' = FALSE /\ UNCHANGED <<asked, worker, answers, reading>>
    BY <1>2 DEF DoDistribute, linkVars, workVars
  <2>2. Bit(idler) = 1 /\ Bit(idler') = 0 /\ Bit(worker' # "none") = Bit(worker # "none")
    BY <2>1 DEF Bit
  <2>3. /\ Bit(First \in writeReq' \cup reading') \in 0..1
        /\ Bit(First \in writeReq \cup reading) \in 0..1
        /\ Bit(worker # "none") \in 0..1
    BY DEF Bit
  <2>4. InFlight' <= InFlight /\ InFlight' \in Nat /\ InFlight \in Nat
    BY <2>2, <2>3 DEF InFlight
  <2> QED BY <2>1, <2>4, AnswerTypes DEF AnswerInv
<1> QED BY <1>1, <1>2

\* The reply to the request is in: it moves from the upstream to the worker.
LEMMA AnswerGotResponse ==
  ASSUME AnswerInv, TypeOK, LifeInv, StatusTruthful,
         NEW u \in Upstreams, OnGotUpstreamResponse(u)
  PROVE  AnswerInv'
<1>1. CASE Fail("wild_ctx") \/ Fail("requeued_work")
  BY <1>1, AnswerFail
<1>2. CASE ~Fail("wild_ctx") /\ ~Fail("requeued_work")
  <2>1. /\ RecoversCtx(u) /\ u \in reading /\ reading' = reading \ {u}
        /\ UNCHANGED <<idler, asked, answers, writeReq>>
        /\ ~(Complete /\ worker # "none")
        /\ worker' = IF Complete THEN "queued" ELSE worker
    BY <1>2 DEF OnGotUpstreamResponse
  <2>2. u = First
    BY <2>1, OwnerOfFirstOnly DEF First
  <2>3. mem = "live"
    BY ListeningIsServing DEF OnGotUpstreamResponse
  <2>4. u \notin writeReq
    BY <2>1, <2>3 DEF StatusTruthful
  <2>5. /\ Bit(First \in writeReq \cup reading) = 1
        /\ Bit(First \in writeReq' \cup reading') = 0
        /\ Bit(idler') = Bit(idler) /\ Bit(idler) \in 0..1
    BY <2>1, <2>2, <2>4 DEF Bit
  <2>6. /\ Bit(worker' # "none") <= Bit(worker # "none") + 1
        /\ Bit(worker' # "none") \in 0..1 /\ Bit(worker # "none") \in 0..1
    BY DEF Bit
  <2>7. InFlight' <= InFlight /\ InFlight' \in Nat /\ InFlight \in Nat
    BY <2>5, <2>6 DEF InFlight
  <2> QED BY <2>1, <2>7, AnswerTypes DEF AnswerInv
<1> QED BY <1>1, <1>2

LEMMA AnswerOnRequest ==
  ASSUME AnswerInv, TypeOK, OnRequest
  PROVE  AnswerInv'
<1>1. /\ asked' = asked + 1 /\ UNCHANGED <<worker, answers, writeReq, reading>>
  BY DEF OnRequest, linkVars
<1>2. /\ Bit(idler') <= Bit(idler) + 1 /\ Bit(idler') \in 0..1 /\ Bit(idler) \in 0..1
      /\ Bit(worker' # "none") = Bit(worker # "none") /\ Bit(worker # "none") \in 0..1
      /\ Bit(First \in writeReq' \cup reading') = Bit(First \in writeReq \cup reading)
      /\ Bit(First \in writeReq \cup reading) \in 0..1
  BY <1>1 DEF Bit
<1>3. InFlight' <= InFlight + 1 /\ InFlight' \in Nat /\ InFlight \in Nat
  BY <1>2 DEF InFlight
<1> QED BY <1>1, <1>3, AnswerTypes DEF AnswerInv

LEMMA AnswerSend ==
  ASSUME AnswerInv, TypeOK, SendResponse
  PROVE  AnswerInv'
<1>1. CASE Fail("write_reuse")
  BY <1>1, AnswerFail
<1>2. CASE ~Fail("write_reuse")
  <2>1. /\ worker = "done" /\ worker' = "none"
        /\ answers' = Append(answers, page) \/ answers' = answers
        /\ UNCHANGED <<idler, asked, writeReq, reading>>
    BY <1>2 DEF SendResponse, linkVars, reqVars
  <2>2. Len(answers') \in Nat /\ Len(answers') <= Len(answers) + 1
    BY <2>1 DEF TypeOK
  <2>3. /\ Bit(idler') = Bit(idler) /\ Bit(idler) \in 0..1
        /\ Bit(worker' # "none") = 0 /\ Bit(worker # "none") = 1
        /\ Bit(First \in writeReq' \cup reading') = Bit(First \in writeReq \cup reading)
        /\ Bit(First \in writeReq \cup reading) \in 0..1
    BY <2>1 DEF Bit
  <2>4. InFlight' = InFlight - 1 /\ InFlight \in Nat
    BY <2>3 DEF InFlight
  <2> QED BY <2>1, <2>2, <2>4, AnswerTypes DEF AnswerInv
<1> QED BY <1>1, <1>2

LEMMA AnswerStep ==
  ASSUME AnswerInv, TypeOK, LifeInv, StatusTruthful, [Next]_vars
  PROVE  AnswerInv'
<1>1. ASSUME NEW lost \in SUBSET Upstreams, DoDistribute(lost) PROVE AnswerInv'
  BY <1>1, AnswerDistribute
<1>2. CASE NoIdler \/ WaitUpstream \/ EndOfIo \/ EndOfIteration
  BY <1>2, AnswerFrame
  DEF NoIdler, WaitUpstream, EndOfIo, EndOfIteration, linkVars, reqVars, workVars
<1>3. CASE OnBadRequest \/ OnClientEof
  BY <1>3, AnswerFrame DEF OnBadRequest, OnClientEof, linkVars, reqVars, workVars
<1>4. CASE OnRequest
  BY <1>4, AnswerOnRequest
<1>5. ASSUME NEW refused \in SUBSET Upstreams, NEW accepted \in BOOLEAN,
             OnNewConnection(refused, accepted)
      PROVE  AnswerInv'
  BY <1>5 DEF OnNewConnection, AnswerInv, InFlight, Bit
<1>6. ASSUME NEW u \in Upstreams, NEW ok \in BOOLEAN, UpstreamConnectCb(u, ok)
      PROVE  AnswerInv'
  BY <1>6, AnswerFrame DEF UpstreamConnectCb, reqVars, workVars
<1>7. ASSUME NEW u \in Upstreams, RequestSent(u) PROVE AnswerInv'
  BY <1>7, AnswerFrame, AnswerFail DEF RequestSent, reqVars, workVars
<1>8. ASSUME NEW u \in Upstreams, RequestNotSent(u) \/ OnUpstreamEof(u) PROVE AnswerInv'
  BY <1>8, AnswerFrame, AnswerFail DEF RequestNotSent, OnUpstreamEof, reqVars, workVars
<1>9. ASSUME NEW u \in Upstreams, OnGotUpstreamResponse(u) PROVE AnswerInv'
  BY <1>9, AnswerGotResponse
<1>10. CASE HandleRequest \/ WorkerDone \/ ResponseSendCb
  BY <1>10, AnswerFrame DEF HandleRequest, WorkerDone, ResponseSendCb, linkVars, reqVars
<1>11. CASE SendResponse
  BY <1>11, AnswerSend
<1>12. CASE CloseClient
  BY <1>12, AnswerFrame DEF CloseClient, linkVars, reqVars
<1>13. ASSUME NEW u \in Upstreams, CloseTimer(u) \/ CloseTcp(u) PROVE AnswerInv'
  BY <1>13, AnswerFrame, AnswerFail DEF CloseTimer, CloseTcp, linkVars, reqVars, workVars
<1>14. ASSUME NEW u \in Upstreams, NEW refused \in BOOLEAN, ReconnectTcp(u, refused)
       PROVE  AnswerInv'
  BY <1>14, AnswerFrame, AnswerFail DEF ReconnectTcp, reqVars, workVars
<1>15. CASE UNCHANGED vars
  BY <1>15, AnswerFrame DEF vars, linkVars, reqVars, workVars
<1> QED BY <1>1, <1>2, <1>3, <1>4, <1>5, <1>6, <1>7, <1>8, <1>9, <1>10, <1>11,
           <1>12, <1>13, <1>14, <1>15
        DEF Next, IdlePhase, ClosePhase, ClientCallbacks, UpstreamCallbacks, AnswerSteps

THEOREM AnswerInvariant == Spec => []AnswerInv
<1>1. Init => AnswerInv
  BY DEF Init, AnswerInv, InFlight, Bit
<1>2. AnswerInv /\ TypeOK /\ LifeInv /\ StatusTruthful /\ [Next]_vars => AnswerInv'
  BY AnswerStep
<1> QED BY <1>1, <1>2, TypeCorrect, LifeInvariant, StatusCorrect, PTL DEF Spec

\* A client never gets more answers than it asked for, whatever it, the
\* upstreams and the heap do.
THEOREM AtMostOneAnswerCorrect == Spec => []AtMostOneAnswer
<1>1. TypeOK /\ AnswerInv => AtMostOneAnswer
  BY AnswerTypes DEF AnswerInv, AtMostOneAnswer
<1> QED BY <1>1, TypeCorrect, AnswerInvariant, PTL

(***************************************************************************)
(* A client that asks one thing at a time: of the requests it sent, only   *)
(* the last can be without an answer, and it is in one place.              *)
(***************************************************************************)
SerialInv == asked <= Len(answers) + 1

LEMMA OneUnderWay ==
  ASSUME TypeOK, AnswerInv, SerialInv
  PROVE  /\ idler => First \notin writeReq \cup reading /\ worker = "none"
         /\ First \in writeReq \cup reading => ~idler /\ worker = "none"
         /\ worker # "none" => ~idler /\ First \notin writeReq \cup reading
         /\ InFlight # 0 => asked = Len(answers) + 1
<1>1. InFlight <= 1
  BY AnswerTypes DEF AnswerInv, SerialInv
<1>2. InFlight # 0 => asked = Len(answers) + 1
  BY AnswerTypes DEF AnswerInv, SerialInv
<1>3. /\ Bit(idler) = (IF idler THEN 1 ELSE 0)
      /\ Bit(worker # "none") = (IF worker # "none" THEN 1 ELSE 0)
      /\ Bit(First \in writeReq \cup reading) =
           (IF First \in writeReq \cup reading THEN 1 ELSE 0)
  BY DEF Bit
<1> QED BY <1>1, <1>2, <1>3 DEF InFlight

LEMMA NothingUnderWay ==
  ASSUME TypeOK, AnswerInv
  PROVE  /\ asked = Len(answers) => InFlight = 0
         /\ InFlight = 0 <=>
              ~idler /\ First \notin writeReq \cup reading /\ worker = "none"
<1>1. asked = Len(answers) => InFlight = 0
  BY AnswerTypes DEF AnswerInv
<1>2. /\ Bit(idler) = (IF idler THEN 1 ELSE 0)
      /\ Bit(worker # "none") = (IF worker # "none" THEN 1 ELSE 0)
      /\ Bit(First \in writeReq \cup reading) =
           (IF First \in writeReq \cup reading THEN 1 ELSE 0)
  BY DEF Bit
<1> QED BY <1>1, <1>2 DEF InFlight

\* What the places hold is the reply to the last request: upstream_response is
\* empty until the upstream has answered, what the worker reads and the page it
\* made are of that request, and an upstream owes nothing else.
OwnInv ==
  mem = "live" =>
    /\ idler \/ First \in writeReq \cup reading => merged = {}
    /\ worker # "none" => merged = {asked}
    /\ worker = "running" => seen = {asked}
    /\ worker = "done" => page = {asked}
    /\ First \in reading => owed[First] = <<asked>>
    /\ First \in Upstreams \ reading /\ status[First] \in {"idle", "work", "connecting"}
         => owed[First] = <<>>

SerialParts == SerialInv /\ OwnInv /\ AnswersOwnRequest

LEMMA SerialFrame ==
  ASSUME SerialParts, mem' = "live" => mem = "live",
         UNCHANGED <<asked, answers, merged, seen, page, owed>>,
         idler' => idler, worker' \in {"none", worker},
         First \in writeReq' \cup reading' => First \in writeReq \cup reading,
         First \in reading' => First \in reading,
         First \in Upstreams \ reading' /\ status'[First] \in {"idle", "work", "connecting"}
           => /\ First \notin reading
              /\ status[First] \in {"idle", "work", "connecting"}
  PROVE  SerialParts'
<1>1. SerialInv' /\ AnswersOwnRequest'
  BY DEF SerialParts, SerialInv, AnswersOwnRequest
<1>2. OwnInv'
  BY DEF SerialParts, OwnInv
<1> QED BY <1>1, <1>2 DEF SerialParts

LEMMA SerialFail ==
  ASSUME SerialParts, NEW reason, Fail(reason)
  PROVE  SerialParts'
<1>1. UNCHANGED <<mem, asked, answers, merged, seen, page, owed, idler, worker,
                  writeReq, reading, status>>
  BY DEF Fail, loopVars, linkVars, reqVars, workVars
<1> QED BY <1>1, SerialFrame

LEMMA SerialOnRequest ==
  ASSUME SerialParts, AnswerInv, TypeOK, ~May("pipeline"), OnRequest
  PROVE  SerialParts'
<1>1. asked = Len(answers) /\ ~idler /\ First \notin writeReq \cup reading
      /\ worker = "none"
  BY NothingUnderWay DEF OnRequest, AllAnswered
<1>2. /\ asked' = asked + 1 /\ merged' = {}
      /\ UNCHANGED <<mem, answers, worker, seen, writeReq, reading, owed, status>>
  BY DEF OnRequest, loopVars, linkVars
<1>3. SerialInv' /\ AnswersOwnRequest'
  BY <1>1, <1>2, AnswerTypes DEF SerialParts, SerialInv, AnswersOwnRequest
<1>4. OwnInv'
  BY <1>1, <1>2 DEF SerialParts, OwnInv
<1> QED BY <1>3, <1>4 DEF SerialParts

LEMMA SerialOnBadRequest ==
  ASSUME SerialParts, AnswerInv, TypeOK, ~May("pipeline"), OnBadRequest
  PROVE  SerialParts'
<1>1. worker = "none"
  BY NothingUnderWay DEF OnBadRequest, AllAnswered
<1>2. UNCHANGED <<mem, asked, answers, merged, seen, owed, idler, worker,
                  writeReq, reading, status>>
  BY DEF OnBadRequest, loopVars, linkVars, reqVars
<1>3. SerialInv' /\ AnswersOwnRequest'
  BY <1>2 DEF SerialParts, SerialInv, AnswersOwnRequest
<1>4. OwnInv'
  BY <1>1, <1>2 DEF SerialParts, OwnInv
<1> QED BY <1>3, <1>4 DEF SerialParts

LEMMA SerialDistribute ==
  ASSUME SerialParts, AnswerInv, TypeOK, NEW lost \in SUBSET Upstreams, DoDistribute(lost)
  PROVE  SerialParts'
<1>1. CASE Fail("double_close")
  BY <1>1, SerialFail
<1>2. CASE ~Fail("double_close") /\ Picked \ lost = {}
  <2>1. /\ idler' = FALSE
        /\ UNCHANGED <<mem, asked, answers, merged, seen, page, owed, worker,
                       writeReq, reading, status>>
    BY <1>2 DEF DoDistribute, linkVars, workVars
  <2> QED BY <2>1, SerialFrame
<1>3. CASE Picked \ lost # {}
  <2>1. /\ idler /\ idler' = FALSE /\ lost \subseteq Picked
        /\ status' = [u \in Upstreams |-> IF u \in Picked \ lost THEN "work"
                                          ELSE IF u \in lost THEN "close"
                                          ELSE status[u]]
        /\ UNCHANGED <<mem, asked, answers, merged, seen, page, owed, worker,
                       reading>>
    BY <1>3 DEF DoDistribute, workVars
  <2>2. First \notin writeReq \cup reading /\ worker = "none"
    BY <2>1, OneUnderWay DEF SerialParts
  <2>3. \A u \in Picked : status[u] = "idle"
    BY DEF Picked
  <2>4. SerialInv' /\ AnswersOwnRequest'
    BY <2>1 DEF SerialParts, SerialInv, AnswersOwnRequest
  <2>5. OwnInv'
    BY <2>1, <2>2, <2>3 DEF SerialParts, OwnInv
  <2> QED BY <2>4, <2>5 DEF SerialParts
<1> QED BY <1>1, <1>2, <1>3

LEMMA SerialRequestSent ==
  ASSUME SerialParts, AnswerInv, TypeOK, LifeInv, StatusTruthful, ~May("split_reply"),
         NEW u \in Upstreams, RequestSent(u)
  PROVE  SerialParts'
<1>1. CASE ~RecoversCtx(u)
  BY <1>1, SerialFail DEF RequestSent
<1>2. CASE RecoversCtx(u)
  <2>1. u = First /\ mem = "live"
    BY <1>2, OwnerOfFirstOnly, ListeningIsServing DEF First, RequestSent
  <2>2. /\ First \in writeReq /\ reading' = reading \cup {First}
        /\ owed' = [owed EXCEPT ![First] = Append(owed[First], asked)]
        /\ UNCHANGED <<mem, asked, answers, merged, seen, page, idler, worker, status>>
    BY <1>2, <2>1 DEF RequestSent, loopVars, reqVars, workVars
  <2>3. status[First] = "work" /\ First \notin reading
    BY <2>1, <2>2 DEF StatusTruthful
  <2>4. owed[First] = <<>>
    BY <2>1, <2>3 DEF SerialParts, OwnInv
  <2>5. owed'[First] = <<asked>>
    BY <2>1, <2>2, <2>4 DEF TypeOK
  <2>6. worker = "none"
    BY <2>2, OneUnderWay DEF SerialParts
  <2>7. SerialInv' /\ AnswersOwnRequest'
    BY <2>2 DEF SerialParts, SerialInv, AnswersOwnRequest
  <2>8. merged = {}
    BY <2>1, <2>2 DEF SerialParts, OwnInv
  <2>9. OwnInv'
    BY <2>2, <2>5, <2>6, <2>8 DEF OwnInv
  <2> QED BY <2>7, <2>9 DEF SerialParts
<1> QED BY <1>1, <1>2

LEMMA SerialGotResponse ==
  ASSUME SerialParts, AnswerInv, TypeOK, LifeInv, StatusTruthful,
         NEW u \in Upstreams, OnGotUpstreamResponse(u)
  PROVE  SerialParts'
<1>1. CASE Fail("wild_ctx") \/ Fail("requeued_work")
  BY <1>1, SerialFail
<1>2. CASE ~Fail("wild_ctx") /\ ~Fail("requeued_work")
  <2>1. u = First /\ mem = "live"
    BY <1>2, OwnerOfFirstOnly, ListeningIsServing DEF First, OnGotUpstreamResponse
  <2>2. /\ First \in reading /\ reading' = reading \ {First}
        /\ merged' = merged \cup {Head(owed[First])}
        /\ owed' = [owed EXCEPT ![First] = Tail(owed[First])]
        /\ worker' \in {"queued", worker}
        /\ UNCHANGED <<mem, asked, answers, seen, page, idler, writeReq>>
    BY <1>2, <2>1 DEF OnGotUpstreamResponse, loopVars
  <2>3. First \notin writeReq
    BY <2>1, <2>2 DEF StatusTruthful
  <2>4. ~idler /\ worker = "none"
    BY <2>2, OneUnderWay DEF SerialParts
  <2>5. merged = {} /\ owed[First] = <<asked>>
    BY <2>1, <2>2 DEF SerialParts, OwnInv
  <2>6. merged' = {asked} /\ owed'[First] = <<>>
    BY <2>1, <2>2, <2>5 DEF TypeOK
  <2>7. SerialInv' /\ AnswersOwnRequest'
    BY <2>2 DEF SerialParts, SerialInv, AnswersOwnRequest
  <2>8. OwnInv'
    BY <2>2, <2>3, <2>4, <2>6 DEF OwnInv
  <2> QED BY <2>7, <2>8 DEF SerialParts
<1> QED BY <1>1, <1>2

\* An upstream that failed is not served until it is connected anew.
LEMMA SerialServerErr ==
  ASSUME SerialParts, TypeOK, NEW u \in Upstreams,
         RequestNotSent(u) \/ OnUpstreamEof(u)
  PROVE  SerialParts'
<1>1. CASE ~RecoversCtx(u)
  BY <1>1, SerialFail DEF RequestNotSent, OnUpstreamEof
<1>2. CASE RecoversCtx(u)
  <2>1. u = First
    BY <1>2, OwnerOfFirstOnly DEF First
  <2>2. /\ writeReq' \subseteq writeReq /\ reading' \subseteq reading
        /\ UpstreamServerErr({u})
        /\ UNCHANGED <<mem, asked, answers, merged, seen, page, owed, idler, worker>>
    BY <1>2 DEF RequestNotSent, OnUpstreamEof, loopVars, reqVars, workVars
  <2>3. status'[First] = "close"
    BY <2>1, <2>2 DEF UpstreamServerErr
  <2> QED BY <2>2, <2>3, SerialFrame
<1> QED BY <1>1, <1>2

LEMMA SerialConnected ==
  ASSUME SerialParts, TypeOK, StatusTruthful, NEW u \in connReq, NEW ok \in BOOLEAN,
         Connected(u, ok), mem' = "live" => mem = "live",
         UNCHANGED <<asked, answers, merged, seen, page, owed, idler, worker,
                     writeReq, reading>>
  PROVE  SerialParts'
<1>1. u \in Upstreams /\ (mem = "live" => status[u] = "connecting" /\ u \notin reading)
  BY DEF TypeOK, StatusTruthful
<1>2. status' = [status EXCEPT ![u] = IF ok THEN "idle" ELSE "wait_reconnect"]
  BY DEF Connected
<1>3. SerialInv' /\ AnswersOwnRequest'
  BY DEF SerialParts, SerialInv, AnswersOwnRequest
<1>4. mem = "live" /\ First \in Upstreams \ reading
      /\ status'[First] \in {"idle", "work", "connecting"}
      => status[First] \in {"idle", "work", "connecting"}
  BY <1>1, <1>2 DEF TypeOK
<1> HIDE DEF Connected
<1>5. OwnInv'
  BY <1>4 DEF SerialParts, OwnInv
<1> QED BY <1>3, <1>5 DEF SerialParts

LEMMA SerialReconnect ==
  ASSUME SerialParts, TypeOK, LifeInv, StatusTruthful,
         NEW u \in Upstreams, NEW refused \in BOOLEAN, ReconnectTcp(u, refused)
  PROVE  SerialParts'
<1>1. CASE ~RecoversCtx(u)
  BY <1>1, SerialFail DEF ReconnectTcp
<1>2. CASE RecoversCtx(u)
  <2>1. u = First
    BY <1>2, OwnerOfFirstOnly DEF First
  <2>2. /\ First \in reconnecting /\ owed' = [owed EXCEPT ![First] = <<>>]
        /\ UNCHANGED <<mem, asked, answers, merged, seen, page, idler, worker,
                       writeReq, reading>>
    BY <1>2, <2>1 DEF ReconnectTcp, loopVars, reqVars, workVars
  <2>3. mem = "live"
    BY <2>2 DEF LifeInv, CloseShape
  <2>4. First \notin reading /\ owed'[First] = <<>>
    BY <2>1, <2>2, <2>3 DEF StatusTruthful, TypeOK
  <2>5. SerialInv' /\ AnswersOwnRequest'
    BY <2>2 DEF SerialParts, SerialInv, AnswersOwnRequest
  <2>6. OwnInv'
    BY <2>2, <2>4 DEF SerialParts, OwnInv
  <2> QED BY <2>5, <2>6 DEF SerialParts
<1> QED BY <1>1, <1>2

LEMMA SerialAnswer ==
  ASSUME SerialParts, AnswerInv, TypeOK, LifeInv, fault = "none", AnswerSteps
  PROVE  SerialParts'
<1>1. CASE Fail("write_reuse")
  BY <1>1, SerialFail
<1>2. CASE HandleRequest
  <2>1. /\ worker = "queued" /\ worker' = "running" /\ seen' = merged
        /\ UNCHANGED <<mem, asked, answers, merged, page, owed, idler,
                       writeReq, reading, status>>
    BY <1>2 DEF HandleRequest, loopVars, linkVars, reqVars
  <2>2. SerialInv' /\ AnswersOwnRequest'
    BY <2>1 DEF SerialParts, SerialInv, AnswersOwnRequest
  <2>3. OwnInv'
    BY <2>1 DEF SerialParts, OwnInv
  <2> QED BY <2>2, <2>3 DEF SerialParts
<1>3. CASE WorkerDone
  <2>1. /\ worker = "running" /\ worker' = "done"
        /\ page' \in {seen, merged, seen \cup merged}
        /\ UNCHANGED <<mem, asked, answers, merged, seen, owed, idler,
                       writeReq, reading, status>>
    BY <1>3 DEF WorkerDone, loopVars, linkVars, reqVars
  <2>2. SerialInv' /\ AnswersOwnRequest'
    BY <2>1 DEF SerialParts, SerialInv, AnswersOwnRequest
  <2>3. OwnInv'
    BY <2>1 DEF SerialParts, OwnInv
  <2> QED BY <2>2, <2>3 DEF SerialParts
<1>4. CASE SendResponse /\ answers' = Append(answers, page)
           /\ worker' = "none"
           /\ UNCHANGED <<loopVars, fault, lifeVars, linkVars, groupVars,
                          countVars, reqVars, seen, page>>
  <2>1. worker = "done"
    BY <1>4 DEF SendResponse
  <2>2. UNCHANGED <<mem, asked, merged, seen, page, owed, idler, writeReq, reading, status>>
    BY <1>4 DEF loopVars, linkVars, reqVars
  <2>3. mem = "live" /\ asked = Len(answers) + 1
    BY <2>1, OneUnderWay, NothingUnderWay DEF LifeInv, SerialParts
  <2>4. page = {Len(answers) + 1}
    BY <2>1, <2>3 DEF SerialParts, OwnInv
  <2>5. AnswersOwnRequest'
    BY <1>4, <2>4 DEF SerialParts, AnswersOwnRequest, TypeOK
  <2>6. SerialInv'
    BY <1>4, <2>2, <2>3, AnswerTypes DEF SerialInv, TypeOK
  <2>7. OwnInv'
    BY <1>4, <2>1, <2>2 DEF SerialParts, OwnInv
  <2> QED BY <2>5, <2>6, <2>7 DEF SerialParts
<1>5. CASE SendResponse /\ answers' = answers
           /\ worker' = "none"
           /\ UNCHANGED <<loopVars, fault, lifeVars, linkVars, groupVars,
                          countVars, reqVars, seen, page>>
  BY <1>5, SerialFrame DEF loopVars, linkVars, reqVars
<1>6. CASE ResponseSendCb
  BY <1>6, SerialFrame DEF ResponseSendCb, loopVars, linkVars, reqVars
<1> QED BY <1>1, <1>2, <1>3, <1>4, <1>5, <1>6 DEF AnswerSteps, SendResponse

LEMMA SerialStep ==
  ASSUME SerialParts, AnswerInv, TypeOK, LifeInv, StatusTruthful, [Next]_vars,
         ~May("pipeline"), ~May("split_reply")
  PROVE  SerialParts'
<1>1. ASSUME NEW lost \in SUBSET Upstreams, DoDistribute(lost) PROVE SerialParts'
  BY <1>1, SerialDistribute
<1>2. CASE NoIdler \/ WaitUpstream \/ EndOfIo \/ EndOfIteration
  BY <1>2, SerialFrame
  DEF NoIdler, WaitUpstream, EndOfIo, EndOfIteration, linkVars, reqVars, workVars
<1>3. CASE OnClientEof
  BY <1>3, SerialFrame DEF OnClientEof, loopVars, linkVars, reqVars, workVars
<1>4. CASE OnRequest
  BY <1>4, SerialOnRequest
<1>5. CASE OnBadRequest
  BY <1>5, SerialOnBadRequest
<1>6. ASSUME NEW refused \in SUBSET Upstreams, NEW accepted \in BOOLEAN,
             OnNewConnection(refused, accepted)
      PROVE  SerialParts'
  BY <1>6 DEF OnNewConnection, SerialParts, SerialInv, OwnInv, AnswersOwnRequest
<1>7. ASSUME NEW u \in Upstreams, NEW ok \in BOOLEAN, UpstreamConnectCb(u, ok)
      PROVE  SerialParts'
  BY <1>7, SerialConnected DEF UpstreamConnectCb, loopVars, reqVars, workVars
<1>8. ASSUME NEW u \in Upstreams, RequestSent(u) PROVE SerialParts'
  BY <1>8, SerialRequestSent
<1>9. ASSUME NEW u \in Upstreams, RequestNotSent(u) \/ OnUpstreamEof(u) PROVE SerialParts'
  BY <1>9, SerialServerErr
<1>10. ASSUME NEW u \in Upstreams, OnGotUpstreamResponse(u) PROVE SerialParts'
  BY <1>10, SerialGotResponse
<1>11. CASE AnswerSteps /\ fault = "none"
  BY <1>11, SerialAnswer
<1>12. ASSUME NEW h, Release(h) PROVE mem' = "live" => mem = "live"
  BY <1>12 DEF Release
<1>13. CASE CloseClient
  BY <1>12, <1>13, SerialFrame DEF CloseClient, linkVars, reqVars
<1>14. ASSUME NEW u \in Upstreams, CloseTimer(u) PROVE SerialParts'
  BY <1>12, <1>14, SerialFrame, SerialFail DEF CloseTimer, linkVars, reqVars, workVars
<1>15. ASSUME NEW u \in Upstreams, CloseTcp(u) PROVE SerialParts'
  <2>1. CASE Fail("wild_ctx") \/ Fail("double_close")
    BY <2>1, SerialFail
  <2>2. CASE /\ Release(Tcp(u))
             /\ IF u \in connReq
                  THEN Connected(u, FALSE)
                  ELSE UNCHANGED <<connReq, connecting, status, sock_num>>
             /\ UNCHANGED <<asked, answers, merged, seen, page, owed, idler,
                            worker, writeReq, reading>>
    <3>1. mem' = "live" => mem = "live"
      BY <1>12, <2>2
    <3>2. CASE u \in connReq
      BY <2>2, <3>1, <3>2, SerialConnected
    <3>3. CASE u \notin connReq
      BY <2>2, <3>1, <3>3, SerialFrame
    <3> QED BY <3>2, <3>3
  <2> QED BY <1>15, <2>1, <2>2 DEF CloseTcp, reqVars, workVars
<1>16. ASSUME NEW u \in Upstreams, NEW refused \in BOOLEAN, ReconnectTcp(u, refused)
       PROVE  SerialParts'
  BY <1>16, SerialReconnect
<1>17. CASE UNCHANGED vars
  BY <1>17, SerialFrame DEF vars, loopVars, linkVars, reqVars, workVars
<1> QED BY <1>1, <1>2, <1>3, <1>4, <1>5, <1>6, <1>7, <1>8, <1>9, <1>10, <1>11,
           <1>13, <1>14, <1>15, <1>16, <1>17
        DEF Next, IdlePhase, ClosePhase, ClientCallbacks, UpstreamCallbacks

THEOREM SerialInvariant ==
  ASSUME ~May("pipeline"), ~May("split_reply")
  PROVE  Spec => []SerialParts
<1>1. Init => SerialParts
  BY DEF Init, SerialParts, SerialInv, OwnInv, AnswersOwnRequest
<1>2. /\ SerialParts /\ AnswerInv /\ TypeOK /\ LifeInv /\ StatusTruthful /\ [Next]_vars
      => SerialParts'
  BY SerialStep
<1> QED BY <1>1, <1>2, TypeCorrect, LifeInvariant, StatusCorrect, AnswerInvariant,
           PTL DEF Spec

\* When a client asks one thing at a time and replies come in one piece, every
\* answer shows the reply to its own request, whatever else fails: no reply of
\* an earlier request or of an earlier client of the same memory gets into it.
THEOREM AnswersOwnRequestCorrect ==
  ASSUME ~May("pipeline"), ~May("split_reply")
  PROVE  Spec => []AnswersOwnRequest
<1>1. SerialParts => AnswersOwnRequest
  BY DEF SerialParts
<1> QED BY <1>1, SerialInvariant, PTL

(***************************************************************************)
(* A patient client on the one topology whose callbacks find their         *)
(* context: one server.  The program then has a defined continuation after *)
(* every step: between the failure of the upstream and its new connection  *)
(* the client waits, so nothing closes a handle a second time; a request   *)
(* in its idle handle or its worker keeps the connection open, so nothing  *)
(* frees the context under them; and the worker is free when the reply     *)
(* comes in.                                                               *)
(***************************************************************************)
PatientInv ==
  /\ fault = "none"
  /\ respWrite => asked = Len(answers)
  /\ reconnecting # {} => asked = Len(answers) + 1 /\ InFlight = 0
  /\ mem = "live" /\ ~Listening(Client) => InFlight = 0

LEMMA StillNothing ==
  ASSUME InFlight = 0, idler' => idler, worker' # "none" => worker # "none",
         First \in writeReq' \cup reading' => First \in writeReq \cup reading
  PROVE  InFlight' = 0
<1>1. ~idler /\ First \notin writeReq \cup reading /\ worker = "none"
  <2>1. /\ Bit(idler) = (IF idler THEN 1 ELSE 0)
        /\ Bit(worker # "none") = (IF worker # "none" THEN 1 ELSE 0)
        /\ Bit(First \in writeReq \cup reading) =
             (IF First \in writeReq \cup reading THEN 1 ELSE 0)
    BY DEF Bit
  <2> QED BY <2>1 DEF InFlight
<1>2. /\ Bit(idler') = 0 /\ Bit(worker' # "none") = 0
      /\ Bit(First \in writeReq' \cup reading') = 0
  BY <1>1 DEF Bit
<1> QED BY <1>2 DEF InFlight

\* Steps that start nothing: no request, no answer, no failure, no close.
LEMMA PatientFrame ==
  ASSUME PatientInv, fault' = fault,
         UNCHANGED <<asked, answers>>, respWrite' => respWrite,
         reconnecting' \subseteq reconnecting,
         idler' => idler, worker' # "none" => worker # "none",
         First \in writeReq' \cup reading' => First \in writeReq \cup reading,
         mem' = "live" => mem = "live",
         Listening(Client) => Listening(Client)'
  PROVE  PatientInv'
BY StillNothing DEF PatientInv

\* Nothing is closing while the client is listened to and a request is under
\* way or answered.
LEMMA NothingClosing ==
  ASSUME PatientInv, LifeInv, AnswerInv, TypeOK, Listening(Client),
         asked = Len(answers) \/ InFlight # 0
  PROVE  closing = {} /\ mem = "live"
<1>1. reconnecting = {}
  BY AnswerTypes DEF PatientInv
<1>2. mem = "live" /\ closing = TcpsOf(reconnecting)
  BY ListeningIsServing
<1> QED BY <1>1, <1>2, TcpsOfNone

\* The idle handle or the worker is busy only while the client is there.
LEMMA BusyListens ==
  ASSUME PatientInv, LifeInv, AnswerInv, TypeOK, idler \/ worker # "none"
  PROVE  Listening(Client) /\ InFlight # 0
BY NothingUnderWay DEF PatientInv, LifeInv

LEMMA PatientClose ==
  ASSUME PatientInv, LifeInv, AnswerInv, TypeOK, Listening(Client),
         asked = Len(answers), ContextClose,
         UNCHANGED <<mem, asked, answers, respWrite, reconnecting, handles,
                     idler, worker, writeReq, reading>>
  PROVE  PatientInv'
<1>1. closing = {} /\ InFlight = 0
  BY NothingClosing, NothingUnderWay
<1>2. fault' = fault /\ InFlight' = 0
  BY <1>1, StillNothing DEF ContextClose
<1>3. reconnecting' = {}
  BY <1>1, AnswerTypes DEF PatientInv
<1> QED BY <1>2, <1>3 DEF PatientInv

LEMMA PatientOnRequest ==
  ASSUME PatientInv, LifeInv, AnswerInv, TypeOK, ~May("pipeline"), OnRequest
  PROVE  PatientInv'
<1>1. asked = Len(answers) /\ ~respWrite /\ Listening(Client)
  BY DEF OnRequest, AllAnswered
<1>2. reconnecting = {} /\ mem = "live"
  BY <1>1, AnswerTypes, ListeningIsServing DEF PatientInv
<1>3. UNCHANGED <<fault, mem, handles, closing, reconnecting, respWrite>>
  BY DEF OnRequest, loopVars, lifeVars
<1>4. Listening(Client)'
  BY <1>1, <1>3 DEF Listening
<1> QED BY <1>1, <1>2, <1>3, <1>4 DEF PatientInv

LEMMA PatientDistribute ==
  ASSUME PatientInv, LifeInv, AnswerInv, TypeOK, SerialInv, ~May("write_fail"),
         NEW lost \in SUBSET Upstreams, DoDistribute(lost)
  PROVE  PatientInv'
<1>1. idler /\ lost = {}
  BY DEF DoDistribute
<1>2. Listening(Client) /\ InFlight # 0
  BY <1>1, BusyListens
<1>3. closing = {} /\ mem = "live" /\ reconnecting = {} /\ asked # Len(answers)
  BY <1>2, NothingClosing, NothingUnderWay DEF PatientInv
<1>4. CASE Picked = {}
  <2>1. /\ ContextClose /\ idler' = FALSE
        /\ UNCHANGED <<asked, answers, reconnecting, worker, writeReq, reading,
                       respWrite>>
    BY <1>1, <1>4 DEF DoDistribute, linkVars, workVars
  <2>2. fault' = fault
    BY <1>3, <2>1 DEF ContextClose
  <2>3. First \notin writeReq \cup reading /\ worker = "none"
    BY <1>1, OneUnderWay
  <2>4. InFlight' = 0
    BY <2>1, <2>3 DEF InFlight, Bit
  <2> QED BY <1>3, <2>1, <2>2, <2>4 DEF PatientInv
<1>5. CASE Picked # {}
  <2>1. /\ reconnecting' = reconnecting \cup lost /\ closing' = closing \cup TcpsOf(lost)
        /\ UNCHANGED <<fault, mem, handles, asked, answers, respWrite>>
    BY <1>1, <1>5 DEF DoDistribute, workVars
  <2>2. reconnecting' = {} /\ closing' = {}
    BY <1>1, <1>3, <2>1, TcpsOfNone
  <2>3. Listening(Client)'
    BY <1>2, <1>3, <2>1, <2>2 DEF Listening
  <2> QED BY <2>1, <2>2, <2>3 DEF PatientInv
<1> QED BY <1>4, <1>5

LEMMA PatientNewConnection ==
  ASSUME PatientInv, NEW refused \in SUBSET Upstreams, NEW accepted \in BOOLEAN,
         OnNewConnection(refused, accepted)
  PROVE  PatientInv'
<1>1. /\ idler' = FALSE /\ worker' = "none" /\ writeReq' = {} /\ reading' = {}
      /\ respWrite' = FALSE /\ reconnecting' = {} /\ fault' = fault
  BY DEF OnNewConnection
<1>2. InFlight' = 0
  BY <1>1 DEF InFlight, Bit
<1> QED BY <1>1, <1>2 DEF PatientInv

LEMMA PatientServerErr ==
  ASSUME PatientInv, LifeInv, StatusTruthful, AnswerInv, TypeOK, SerialInv,
         NEW u \in Upstreams, u = First, RequestNotSent(u) \/ OnUpstreamEof(u)
  PROVE  PatientInv'
<1>1. RecoversCtx(u) /\ mem = "live" /\ u \in writeReq \cup reading
  BY OwnerOfFirstOnly, ListeningIsServing DEF First, RequestNotSent, OnUpstreamEof
<1>2. /\ UpstreamServerErr({u})
      /\ UNCHANGED <<mem, fault, handles, asked, answers, respWrite, idler, worker>>
      /\ \/ u \in writeReq /\ writeReq' = writeReq \ {u} /\ reading' = reading
         \/ u \in reading /\ reading' = reading \ {u} /\ writeReq' = writeReq
  BY <1>1 DEF RequestNotSent, OnUpstreamEof, loopVars, reqVars, workVars
<1>3. ~(u \in writeReq /\ u \in reading)
  BY <1>1 DEF StatusTruthful
<1>4. ~idler /\ worker = "none" /\ asked = Len(answers) + 1 /\ InFlight # 0
  BY <1>1, OneUnderWay, NothingUnderWay
<1>5. InFlight' = 0
  BY <1>2, <1>3, <1>4 DEF InFlight, Bit
<1>6. ~respWrite /\ asked' = Len(answers') + 1
  BY <1>2, <1>4, AnswerTypes DEF PatientInv
<1> QED BY <1>2, <1>5, <1>6 DEF PatientInv

\* The worker is free when the reply comes in, so it can be queued.
LEMMA PatientGotResponse ==
  ASSUME PatientInv, LifeInv, StatusTruthful, AnswerInv, TypeOK, SerialInv,
         NEW u \in Upstreams, u = First, OnGotUpstreamResponse(u)
  PROVE  PatientInv'
<1>1. RecoversCtx(u) /\ u \in reading /\ Listening(Tcp(u)) /\ mem = "live"
  BY OwnerOfFirstOnly, ListeningIsServing DEF First, OnGotUpstreamResponse
<1>2. worker = "none" /\ InFlight # 0
  BY <1>1, OneUnderWay, NothingUnderWay
<1>3. UNCHANGED <<mem, fault, handles, closing, reconnecting, asked, answers, respWrite>>
  BY <1>1, <1>2 DEF OnGotUpstreamResponse, loopVars, lifeVars
<1>4. reconnecting = {} /\ Listening(Client)
  BY <1>1, <1>2 DEF PatientInv
<1>5. Listening(Client)'
  BY <1>3, <1>4 DEF Listening
<1> QED BY <1>3, <1>4, <1>5 DEF PatientInv

\* The last answer was written out before the next one is ready.
LEMMA PatientSend ==
  ASSUME PatientInv, LifeInv, AnswerInv, TypeOK, SerialInv, SendResponse
  PROVE  PatientInv'
<1>1. worker = "done"
  BY DEF SendResponse
<1>2. Listening(Client) /\ InFlight # 0 /\ asked = Len(answers) + 1
  BY <1>1, BusyListens, OneUnderWay
<1>3. ~respWrite /\ reconnecting = {}
  BY <1>2, AnswerTypes DEF PatientInv
<1>4. /\ answers' = Append(answers, page)
      /\ UNCHANGED <<mem, fault, handles, closing, reconnecting, asked>>
  BY <1>2, <1>3 DEF SendResponse, loopVars, lifeVars, reqVars
<1>5. asked' = Len(answers')
  BY <1>2, <1>4, AnswerTypes DEF TypeOK
<1>6. Listening(Client)'
  BY <1>2, <1>4 DEF Listening
<1> QED BY <1>3, <1>4, <1>5, <1>6 DEF PatientInv

\* A close callback that drops a reference: the context is shut down as a
\* whole, so no idle handle and no worker can be using it.
LEMMA PatientRelease ==
  ASSUME PatientInv, LifeInv, AnswerInv, TypeOK, NEW h \in closing,
         h \notin TcpsOf(reconnecting), Release(h),
         UNCHANGED <<asked, answers, reconnecting, idler, worker, writeReq, reading>>,
         respWrite' => respWrite
  PROVE  PatientInv'
<1>1. mem = "live" /\ closing = handles
  BY DEF LifeInv, CloseShape
<1>2. ~Listening(Client)
  BY <1>1 DEF Listening
<1>3. ~idler /\ worker = "none"
  BY <1>1, <1>2, NothingUnderWay DEF PatientInv
<1>4. fault' = fault /\ (mem' = "live" => mem = "live")
  BY <1>3 DEF Release
<1> HIDE DEF Release
<1> QED BY <1>2, <1>4, PatientFrame

LEMMA PatientCloseTcp ==
  ASSUME PatientInv, LifeInv, AnswerInv, TypeOK, NEW u \in Upstreams, u = First,
         CloseTcp(u)
  PROVE  PatientInv'
<1>1. /\ RecoversCtx(u) /\ Tcp(u) \in closing
  BY OwnerOfFirstOnly DEF First, CloseTcp
<1>2. Tcp(u) \notin TcpsOf(reconnecting)
  BY DEF CloseTcp, Tcp, TcpsOf
<1>3. u \notin writeReq
  <2>1. mem = "live" /\ closing = handles
    BY <1>1, <1>2 DEF LifeInv, CloseShape
  <2>2. InFlight = 0
    BY <2>1 DEF PatientInv, Listening
  <2> QED BY <2>2, NothingUnderWay
<1>4. /\ Release(Tcp(u))
      /\ UNCHANGED <<asked, answers, reconnecting, idler, worker, writeReq, reading,
                     respWrite>>
  BY <1>1, <1>3 DEF CloseTcp, reqVars, workVars
<1> QED BY <1>1, <1>2, <1>4, PatientRelease

LEMMA PatientReconnect ==
  ASSUME PatientInv, NEW u \in Upstreams, u = First, NEW refused \in BOOLEAN,
         ReconnectTcp(u, refused)
  PROVE  PatientInv'
<1>1. /\ reconnecting' \subseteq reconnecting /\ closing' \subseteq closing
      /\ UNCHANGED <<fault, mem, handles, asked, answers, respWrite, idler, worker,
                     writeReq, reading>>
  BY OwnerOfFirstOnly DEF First, ReconnectTcp, loopVars, reqVars, workVars
<1>2. Listening(Client) => Listening(Client)'
  BY <1>1 DEF Listening
<1> QED BY <1>1, <1>2, PatientFrame

LEMMA PatientStep ==
  ASSUME PatientInv, SerialInv, AnswerInv, TypeOK, LifeInv, StatusTruthful, [Next]_vars,
         Upstreams \subseteq {First}, ~May("hangup"), ~May("pipeline"), ~May("write_fail")
  PROVE  PatientInv'
<1>0. \A u \in Upstreams : u = First
  OBVIOUS
<1>1. ASSUME NEW lost \in SUBSET Upstreams, DoDistribute(lost) PROVE PatientInv'
  BY <1>1, PatientDistribute
<1>2. CASE NoIdler \/ WaitUpstream \/ EndOfIo \/ EndOfIteration
  BY <1>2, PatientFrame
  DEF NoIdler, WaitUpstream, EndOfIo, EndOfIteration, lifeVars, linkVars, reqVars,
      workVars, Listening
<1>3. CASE OnBadRequest
  BY <1>3, PatientClose
  DEF OnBadRequest, AllAnswered, loopVars, linkVars, reqVars
<1>4. CASE OnClientEof
  BY <1>4, PatientClose
  DEF OnClientEof, AllAnswered, loopVars, linkVars, reqVars, workVars
<1>5. CASE OnRequest
  BY <1>5, PatientOnRequest
<1>6. ASSUME NEW refused \in SUBSET Upstreams, NEW accepted \in BOOLEAN,
             OnNewConnection(refused, accepted)
      PROVE  PatientInv'
  BY <1>6, PatientNewConnection
<1>7. ASSUME NEW u \in Upstreams, NEW ok \in BOOLEAN, UpstreamConnectCb(u, ok)
      PROVE  PatientInv'
  BY <1>7, PatientFrame
  DEF UpstreamConnectCb, loopVars, lifeVars, reqVars, workVars, Listening
<1>8. ASSUME NEW u \in Upstreams, RequestSent(u) PROVE PatientInv'
  <2>1. RecoversCtx(u)
    BY <1>0, OwnerOfFirstOnly DEF First
  <2> QED BY <1>8, <2>1, PatientFrame
          DEF RequestSent, loopVars, lifeVars, reqVars, workVars, Listening
<1>9. ASSUME NEW u \in Upstreams, RequestNotSent(u) \/ OnUpstreamEof(u) PROVE PatientInv'
  BY <1>0, <1>9, PatientServerErr
<1>10. ASSUME NEW u \in Upstreams, OnGotUpstreamResponse(u) PROVE PatientInv'
  BY <1>0, <1>10, PatientGotResponse
<1>11. CASE HandleRequest \/ WorkerDone \/ ResponseSendCb
  BY <1>11, PatientFrame
  DEF HandleRequest, WorkerDone, ResponseSendCb, loopVars, lifeVars, linkVars, reqVars,
      Listening
<1>12. CASE SendResponse
  BY <1>12, PatientSend
<1>13. CASE CloseClient
  <2>1. Client \notin TcpsOf(reconnecting)
    BY DEF Client, TcpsOf
  <2> QED BY <1>13, <2>1, PatientRelease DEF CloseClient, linkVars, reqVars
<1>14. ASSUME NEW u \in Upstreams, CloseTimer(u) PROVE PatientInv'
  <2>1. RecoversCtx(u)
    BY <1>0, OwnerOfFirstOnly DEF First
  <2>2. Timer(u) \notin TcpsOf(reconnecting)
    BY DEF Timer, TcpsOf
  <2> QED BY <1>14, <2>1, <2>2, PatientRelease DEF CloseTimer, linkVars, reqVars, workVars
<1>15. ASSUME NEW u \in Upstreams, CloseTcp(u) PROVE PatientInv'
  BY <1>0, <1>15, PatientCloseTcp
<1>16. ASSUME NEW u \in Upstreams, NEW refused \in BOOLEAN, ReconnectTcp(u, refused)
       PROVE  PatientInv'
  BY <1>0, <1>16, PatientReconnect
<1>17. CASE UNCHANGED vars
  BY <1>17, PatientFrame DEF vars, loopVars, lifeVars, linkVars, reqVars, workVars, Listening
<1> QED BY <1>1, <1>2, <1>3, <1>4, <1>5, <1>6, <1>7, <1>8, <1>9, <1>10, <1>11, <1>12,
           <1>13, <1>14, <1>15, <1>16, <1>17
        DEF Next, IdlePhase, ClosePhase, ClientCallbacks, UpstreamCallbacks, AnswerSteps

THEOREM PatientInvariant ==
  ASSUME Upstreams \subseteq {First}, ~May("hangup"), ~May("pipeline"),
         ~May("split_reply"), ~May("write_fail")
  PROVE  Spec => []PatientInv
<1>1. Init => PatientInv
  BY DEF Init, PatientInv, InFlight, Bit
<1>2. /\ PatientInv /\ SerialInv /\ AnswerInv /\ TypeOK /\ LifeInv /\ StatusTruthful
      /\ [Next]_vars
      => PatientInv'
  BY PatientStep
<1>3. SerialParts => SerialInv
  BY DEF SerialParts
<1> QED BY <1>1, <1>2, <1>3, TypeCorrect, LifeInvariant, StatusCorrect,
           AnswerInvariant, SerialInvariant, PTL DEF Spec

\* With one configured server, a client that waits for its answers before it
\* sends or leaves, replies in one piece and a uv_write that takes the request,
\* no step of the program is undefined but for the two breaches the model goes
\* on after, which happen at every free and at every reconnect: connections may
\* be refused, requests and replies may fail, the server may be lost, requests
\* may be malformed.
THEOREM OnlyKnownBreachesCorrect ==
  ASSUME Upstreams \subseteq {First}, ~May("hangup"), ~May("pipeline"),
         ~May("split_reply"), ~May("write_fail")
  PROVE  Spec => []OnlyKnownBreaches
<1>1. PatientInv /\ BreachesCounted => OnlyKnownBreaches
  BY DEF PatientInv, OnlyKnownBreaches
<1> QED BY <1>1, PatientInvariant, BreachesCorrect, PTL

-----------------------------------------------------------------------------
(***************************************************************************)
(* Server implements the safety part of Session, step by step, for a       *)
(* client that asks one thing at a time and replies that come in one       *)
(* piece: what the client sees is one conversation after the other.        *)
(***************************************************************************)

(***************************************************************************)
(* The link as Session sees it.                                            *)
(***************************************************************************)
LEMMA LinkIs ==
  ASSUME TypeOK, LifeInv
  PROVE  /\ Link = "absent" <=> mem = "none"
         /\ Link = "open" <=> Listening(Client)
         /\ Link = "closing" <=> mem = "live" /\ ~Listening(Client)
BY ListeningIsServing DEF Link, Listening, TypeOK

\* Steps the client does not see.
LEMMA SessionFrame ==
  ASSUME UNCHANGED <<mem, asked, answers>>, Listening(Client)' <=> Listening(Client)
  PROVE  UNCHANGED SessionOfClient!svars
BY DEF Link, Listening, SessionOfClient!svars

LEMMA SessionFail ==
  ASSUME NEW reason, Fail(reason)
  PROVE  UNCHANGED SessionOfClient!svars
BY SessionFrame DEF Fail, loopVars, lifeVars, reqVars, workVars, Listening

\* The callbacks that close the context: the client is told, or the program
\* has no continuation.
LEMMA SessionClose ==
  ASSUME Listening(Client), mem = "live", ContextClose,
         UNCHANGED <<mem, asked, answers, handles>>
  PROVE  SessionOfClient!Next \/ UNCHANGED SessionOfClient!svars
<1>1. CASE closing = {}
  <2>1. Link = "open" /\ Link' = "closing"
    BY <1>1 DEF ContextClose, Link, Listening
  <2> QED BY <2>1 DEF SessionOfClient!Next, SessionOfClient!Close
<1>2. CASE closing # {}
  BY <1>2, SessionFrame DEF ContextClose, Listening
<1> QED BY <1>1, <1>2

LEMMA SessionNewConnection ==
  ASSUME TypeOK, NEW refused \in SUBSET Upstreams, NEW accepted \in BOOLEAN,
         OnNewConnection(refused, accepted)
  PROVE  SessionOfClient!Next
<1>1. Link = "absent"
  BY DEF OnNewConnection, Link
<1>2. Link' \in {"open", "closing"} /\ asked' = 0 /\ answers' = <<>>
  BY DEF OnNewConnection, Link
<1> QED BY <1>1, <1>2 DEF SessionOfClient!Next, SessionOfClient!Connect

LEMMA SessionOnRequest ==
  ASSUME TypeOK, LifeInv, ~May("pipeline"), OnRequest
  PROVE  SessionOfClient!Next
<1>1. asked = Len(answers) /\ Link = "open"
  BY LinkIs DEF OnRequest, AllAnswered
<1>2. asked' = asked + 1 /\ Link' = Link /\ answers' = answers
  BY DEF OnRequest, Link, loopVars, lifeVars
<1> QED BY <1>1, <1>2 DEF SessionOfClient!Next, SessionOfClient!Ask

\* The page that is sent is the answer to the one request that waits.
LEMMA SessionSend ==
  ASSUME TypeOK, LifeInv, AnswerInv, SerialParts, fault = "none", SendResponse
  PROVE  SessionOfClient!Next \/ UNCHANGED SessionOfClient!svars
<1>1. CASE Fail("write_reuse")
  BY <1>1, SessionFail
<1>2. CASE Listening(Client) /\ ~respWrite
  <2>1. /\ worker = "done" /\ answers' = Append(answers, page)
        /\ UNCHANGED <<mem, handles, closing, asked>>
    BY <1>2 DEF SendResponse, loopVars, lifeVars, reqVars
  <2>2. mem = "live" /\ page = {asked} /\ asked = Len(answers) + 1
    BY <2>1, OneUnderWay, NothingUnderWay DEF SerialParts, OwnInv, LifeInv
  <2>3. Link = "open" /\ Link' = Link
    BY <1>2, <2>1, LinkIs DEF Link
  <2>4. asked > Len(answers)
    BY <2>2, AnswerTypes
  <2> QED BY <2>1, <2>2, <2>3, <2>4 DEF SessionOfClient!Next, SessionOfClient!Answer
<1>3. CASE ~Listening(Client)
  BY <1>3, SessionFrame DEF SendResponse, loopVars, lifeVars, reqVars, Listening
<1> QED BY <1>1, <1>2, <1>3 DEF SendResponse

\* A close callback that drops a reference: the client has long been told, and
\* with the last reference the connection is gone.
LEMMA SessionRelease ==
  ASSUME TypeOK, LifeInv, NEW h \in closing, h \notin TcpsOf(reconnecting), Release(h),
         UNCHANGED <<asked, answers>>
  PROVE  SessionOfClient!Next \/ UNCHANGED SessionOfClient!svars
<1>1. mem = "live" /\ closing = handles
  BY DEF LifeInv, CloseShape
<1>2. Link = "closing"
  BY <1>1 DEF Link
<1>3. handles' = closing' /\ mem' \in {"none", mem}
  BY <1>1 DEF Release
<1>4. Link' \in {"closing", "absent"}
  BY <1>1, <1>3 DEF Link
<1> QED BY <1>2, <1>4 DEF SessionOfClient!Next, SessionOfClient!Gone, SessionOfClient!svars

LEMMA SessionStep ==
  ASSUME TypeOK, LifeInv, AnswerInv, SerialParts, [Next]_vars, ~May("pipeline")
  PROVE  [SessionOfClient!Next]_(SessionOfClient!svars)
<1>1. ASSUME NEW lost \in SUBSET Upstreams, DoDistribute(lost), fault = "none"
      PROVE  SessionOfClient!Next \/ UNCHANGED SessionOfClient!svars
  <2>1. CASE Fail("double_close")
    BY <2>1, SessionFail
  <2>2. CASE ~Fail("double_close") /\ Picked \ lost = {}
    <3>1. mem = "live" /\ ContextClose /\ UNCHANGED <<mem, asked, answers, handles>>
      BY <1>1, <2>2 DEF DoDistribute, LifeInv, workVars
    <3>2. CASE Listening(Client)
      BY <3>1, <3>2, SessionClose
    <3>3. CASE ~Listening(Client)
      BY <3>1, <3>3, SessionFrame DEF ContextClose, Listening
    <3> QED BY <3>2, <3>3
  <2>3. CASE Picked \ lost # {}
    <3>1. Client \notin TcpsOf(lost)
      BY DEF Client, TcpsOf
    <3> QED BY <1>1, <2>3, <3>1, SessionFrame DEF DoDistribute, workVars, Listening
  <2> QED BY <2>1, <2>2, <2>3
<1>2. CASE NoIdler \/ WaitUpstream \/ EndOfIo \/ EndOfIteration
  BY <1>2, SessionFrame
  DEF NoIdler, WaitUpstream, EndOfIo, EndOfIteration, lifeVars, reqVars, workVars,
      Listening
<1>3. CASE OnBadRequest \/ OnClientEof
  BY <1>3, SessionClose, ListeningIsServing
  DEF OnBadRequest, OnClientEof, loopVars, reqVars, workVars
<1>4. CASE OnRequest
  BY <1>4, SessionOnRequest
<1>5. ASSUME NEW refused \in SUBSET Upstreams, NEW accepted \in BOOLEAN,
             OnNewConnection(refused, accepted)
      PROVE  SessionOfClient!Next
  BY <1>5, SessionNewConnection
<1>6. ASSUME NEW u \in Upstreams,
             \/ \E ok \in BOOLEAN : UpstreamConnectCb(u, ok)
             \/ RequestSent(u) \/ OnGotUpstreamResponse(u)
      PROVE  UNCHANGED SessionOfClient!svars
  BY <1>6, SessionFrame, SessionFail
  DEF UpstreamConnectCb, RequestSent, OnGotUpstreamResponse, loopVars, lifeVars,
      reqVars, workVars, Listening
<1>7. ASSUME NEW u \in Upstreams, RequestNotSent(u) \/ OnUpstreamEof(u)
      PROVE  UNCHANGED SessionOfClient!svars
  <2>1. CASE Fail("wild_ctx")
    BY <2>1, SessionFail
  <2>2. CASE ~Fail("wild_ctx")
    <3>1. /\ closing' = closing \cup TcpsOf({u})
          /\ UNCHANGED <<mem, handles, asked, answers>>
      BY <1>7, <2>2
      DEF RequestNotSent, OnUpstreamEof, UpstreamServerErr, loopVars, reqVars, workVars
    <3>2. Client \notin TcpsOf({u})
      BY DEF Client, TcpsOf
    <3> QED BY <3>1, <3>2, SessionFrame DEF Listening
  <2> QED BY <2>1, <2>2
<1>8. CASE HandleRequest \/ WorkerDone \/ ResponseSendCb
  BY <1>8, SessionFrame
  DEF HandleRequest, WorkerDone, ResponseSendCb, loopVars, lifeVars, reqVars, Listening
<1>9. CASE SendResponse /\ fault = "none"
  BY <1>9, SessionSend
<1>10. CASE CloseClient
  <2>1. Client \notin TcpsOf(reconnecting)
    BY DEF Client, TcpsOf
  <2> QED BY <1>10, <2>1, SessionRelease DEF CloseClient, reqVars
<1>11. ASSUME NEW u \in Upstreams, CloseTimer(u)
       PROVE  SessionOfClient!Next \/ UNCHANGED SessionOfClient!svars
  <2>1. Timer(u) \notin TcpsOf(reconnecting)
    BY DEF Timer, TcpsOf
  <2> QED BY <1>11, <2>1, SessionRelease, SessionFail DEF CloseTimer, reqVars, workVars
<1>12. ASSUME NEW u \in Upstreams, CloseTcp(u)
       PROVE  SessionOfClient!Next \/ UNCHANGED SessionOfClient!svars
  <2>1. Tcp(u) \notin TcpsOf(reconnecting)
    BY <1>12 DEF Tcp, TcpsOf, CloseTcp
  <2> QED BY <1>12, <2>1, SessionRelease, SessionFail DEF CloseTcp, reqVars, workVars
<1>13. ASSUME NEW u \in Upstreams, NEW refused \in BOOLEAN, ReconnectTcp(u, refused)
       PROVE  UNCHANGED SessionOfClient!svars
  <2>1. CASE Fail("wild_ctx")
    BY <2>1, SessionFail
  <2>2. CASE ~Fail("wild_ctx")
    <3>1. /\ closing' = closing \ {Tcp(u)}
          /\ UNCHANGED <<mem, handles, asked, answers>>
      BY <1>13, <2>2 DEF ReconnectTcp, loopVars, reqVars, workVars
    <3>2. Client # Tcp(u)
      BY DEF Client, Tcp
    <3> QED BY <3>1, <3>2, SessionFrame DEF Listening
  <2> QED BY <2>1, <2>2
<1>14. CASE UNCHANGED vars
  BY <1>14, SessionFrame DEF vars, loopVars, lifeVars, reqVars, workVars, Listening
<1> QED BY <1>1, <1>2, <1>3, <1>4, <1>5, <1>6, <1>7, <1>8, <1>9, <1>10, <1>11, <1>12,
           <1>13, <1>14
        DEF Next, IdlePhase, ClosePhase, ClientCallbacks, UpstreamCallbacks, AnswerSteps

\* For a client that asks one thing at a time the front end is the session it
\* promises, up to its liveness: answers come in the order of the requests,
\* each made of its own reply, none after the connection began to close.
THEOREM SessionRefined ==
  ASSUME ~May("pipeline"), ~May("split_reply")
  PROVE  Spec => SessionOfClient!SafeSpec
<1>1. Init => SessionOfClient!Init
  BY DEF Init, Link, SessionOfClient!Init
<1>2. TypeOK /\ LifeInv /\ AnswerInv /\ SerialParts /\ [Next]_vars
        => [SessionOfClient!Next]_(SessionOfClient!svars)
  BY SessionStep
<1> QED BY <1>1, <1>2, TypeCorrect, LifeInvariant, AnswerInvariant, SerialInvariant, PTL
        DEF Spec, SessionOfClient!SafeSpec

=============================================================================
