----------------------------- MODULE WireProofs -----------------------------
(***************************************************************************)
(* Theorems about the bytes of a connection (Wire): for requests, buffers  *)
(* and bodies of any sizes, any number of requests, and reads that end     *)
(* anywhere.                                                               *)
(***************************************************************************)
EXTENDS Wire, SequenceTheorems, TLAPS

Kinds == {"junk", "memory", "request", "some", "none", "data", "body"}
CellSet == [kind : Kinds, n : Nat, k : Nat]

LEMMA SizesAre ==
  /\ Len(MAGIC) \in Nat /\ Len(MAGIC) >= 1 /\ Len(MAGIC) < REQUEST_BUF_SIZE
  /\ REQUEST_BUF_SIZE \in Nat /\ REQUEST_BUF_SIZE >= 2
  /\ RESPONSE_BUF_SIZE \in Nat /\ RESPONSE_BUF_SIZE >= HEAD /\ HEAD = 2
  /\ Bodies \subseteq Nat /\ MaxRequests \in Nat
<1>1. Len(MAGIC) \in Nat /\ Len(MAGIC) # 0
  BY WireAssumption, LenProperties, EmptySeq
<1>2. QUERY \in Nat /\ QUERY >= 1 /\ REQUEST_BUF_SIZE = Len(MAGIC) + QUERY
  BY WireAssumption DEF REQUEST_BUF_SIZE
<1> QED BY <1>1, <1>2, WireAssumption DEF HEAD

\* A function on 1..n is a sequence of n elements.
LEMMA LenOf ==
  ASSUME NEW n \in Nat, NEW S, NEW f \in [1..n -> S]
  PROVE  f \in Seq(S) /\ Len(f) = n
<1>1. f \in Seq(S)
  BY SeqDef
<1>2. Len(f) \in Nat /\ DOMAIN f = 1..Len(f)
  BY <1>1, LenProperties
<1>3. 1..Len(f) = 1..n
  BY <1>2
<1>4. Len(f) = n
  <2>1. \A x : x \in 1..Len(f) <=> x \in 1..n
    BY <1>3
  <2>2. ~(Len(f) < n)
    <3>1. Len(f) < n => n \in 1..n /\ n \notin 1..Len(f)
      BY <1>2
    <3> QED BY <2>1, <3>1
  <2>3. ~(n < Len(f))
    <3>1. n < Len(f) => Len(f) \in 1..Len(f) /\ Len(f) \notin 1..n
      BY <1>2
    <3> QED BY <2>1, <3>1
  <2> QED BY <1>2, <2>2, <2>3
<1> QED BY <1>1, <1>4

LEMMA SameFunction ==
  ASSUME NEW S, NEW T, NEW f \in [S -> T], NEW g \in [S -> T], \A x \in S : f[x] = g[x]
  PROVE  f = g
OBVIOUS

LEMMA CellTyped ==
  ASSUME NEW kind \in Kinds, NEW n \in Nat, NEW k \in Nat
  PROVE  Cell(kind, n, k) \in CellSet
BY DEF Cell, CellSet

LEMMA CellsAre ==
  ASSUME NEW kind \in Kinds, NEW n \in Nat, NEW m \in Nat
  PROVE  /\ Cells(kind, n, m) \in [1..m -> CellSet]
         /\ Cells(kind, n, m) \in Seq(CellSet) /\ Len(Cells(kind, n, m)) = m
         /\ \A k \in 1..m : Cells(kind, n, m)[k] = Cell(kind, n, k)
<1>1. \A k \in 1..m : Cell(kind, n, k) \in CellSet
  BY CellTyped
<1>2. Cells(kind, n, m) \in [1..m -> CellSet]
  BY <1>1 DEF Cells
<1>3. \A k \in 1..m : Cells(kind, n, m)[k] = Cell(kind, n, k)
  BY DEF Cells
<1> QED BY <1>2, <1>3, LenOf

\* What a request is made of, and request.web before one was read.
LEMMA RequestIs ==
  ASSUME NEW n \in Nat
  PROVE  /\ Request(n) \in [1..REQUEST_BUF_SIZE -> CellSet]
         /\ Request(n) \in Seq(CellSet) /\ Len(Request(n)) = REQUEST_BUF_SIZE
         /\ \A k \in 1..REQUEST_BUF_SIZE : Request(n)[k] = Cell("request", n, k)
<1>1. REQUEST_BUF_SIZE \in Nat /\ "request" \in Kinds
  BY SizesAre DEF Kinds
<1> QED BY <1>1, CellsAre DEF Request

LEMMA UnsetIs == Unset \in [1..REQUEST_BUF_SIZE -> CellSet]
<1>1. REQUEST_BUF_SIZE \in Nat /\ "memory" \in Kinds /\ 0 \in Nat
  BY SizesAre DEF Kinds
<1> QED BY <1>1, CellsAre DEF Unset

\* The last cell of a request says which request it is.
LEMMA LastOfRequest ==
  ASSUME NEW n \in Nat
  PROVE  Request(n)[REQUEST_BUF_SIZE].n = n
<1>1. REQUEST_BUF_SIZE \in 1..REQUEST_BUF_SIZE
  BY SizesAre
<1>2. Request(n)[REQUEST_BUF_SIZE] = Cell("request", n, REQUEST_BUF_SIZE)
  BY <1>1, RequestIs
<1> QED BY <1>2 DEF Cell

\* No other cell of a request than its first can pass for the first of a magic,
\* if no query has the byte.
LEMMA OtherBytes ==
  ASSUME NEW n \in DOMAIN queries, NEW k \in 2..REQUEST_BUF_SIZE,
         \A m \in DOMAIN queries : \A j \in 1..QUERY : queries[m][j] # MAGIC[1]
  PROVE  Byte(Cell("request", n, k)) # MAGIC[1]
<1>1. /\ Len(MAGIC) \in Nat /\ QUERY \in Nat /\ REQUEST_BUF_SIZE = Len(MAGIC) + QUERY
  BY SizesAre, WireAssumption DEF REQUEST_BUF_SIZE
<1>2. Cell("request", n, k).kind = "request" /\ Cell("request", n, k).n = n
      /\ Cell("request", n, k).k = k
  BY DEF Cell
<1> DEFINE cell == Cell("request", n, k)
<1> HIDE DEF cell
<1>3. cell.kind = "request" /\ cell.n = n /\ cell.k = k
  BY <1>2 DEF cell
<1>4. CASE k <= Len(MAGIC)
  <2>1. Byte(cell) = MAGIC[k]
    BY <1>3, <1>4 DEF Byte
  <2>2. k \in 2..Len(MAGIC)
    BY <1>1, <1>4
  <2> QED BY <2>1, <2>2, WireAssumption DEF cell
<1>5. CASE ~(k <= Len(MAGIC))
  <2>1. Byte(cell) = queries[n][k - Len(MAGIC)]
    BY <1>3, <1>5 DEF Byte
  <2>2. k - Len(MAGIC) \in 1..QUERY
    BY <1>1, <1>5
  <2> QED BY <2>1, <2>2 DEF cell
<1> QED BY <1>4, <1>5

LEMMA TakenIs ==
  ASSUME NEW stream \in Seq(CellSet), NEW room \in Nat, NEW n \in Taken(stream, room)
  PROVE  n \in Nat /\ n >= 1 /\ n <= Len(stream) /\ n <= room
<1>1. Len(stream) \in Nat
  BY LenProperties
<1> QED BY <1>1 DEF Taken

\* What reading n cells leaves of a stream.
LEMMA ReadIs ==
  ASSUME NEW stream \in Seq(CellSet), NEW n \in 1..Len(stream)
  PROVE  /\ SubSeq(stream, n + 1, Len(stream)) \in Seq(CellSet)
         /\ Len(SubSeq(stream, n + 1, Len(stream))) = Len(stream) - n
         /\ \A j \in 1..(Len(stream) - n) :
              SubSeq(stream, n + 1, Len(stream))[j] = stream[j + n]
<1>1. Len(stream) \in Nat /\ n \in Nat /\ n + 1 \in Int
  BY LenProperties
<1>2. \A i \in (n + 1)..Len(stream) : stream[i] \in CellSet
  <2>1. \A i \in (n + 1)..Len(stream) : i \in 1..Len(stream)
    BY <1>1
  <2> QED BY <2>1, ElementOfSeq
<1>3. /\ SubSeq(stream, n + 1, Len(stream)) \in Seq(CellSet)
      /\ Len(SubSeq(stream, n + 1, Len(stream))) =
           IF n + 1 <= Len(stream) THEN Len(stream) - (n + 1) + 1 ELSE 0
      /\ \A i \in 1..(Len(stream) - (n + 1) + 1) :
           SubSeq(stream, n + 1, Len(stream))[i] = stream[(n + 1) + i - 1]
  BY <1>1, <1>2, SubSeqProperties
<1>4. Len(stream) - (n + 1) + 1 = Len(stream) - n
  BY <1>1
<1>5. \A j \in 1..(Len(stream) - n) : (n + 1) + j - 1 = j + n
  BY <1>1
<1>6. Len(SubSeq(stream, n + 1, Len(stream))) = Len(stream) - n
  <2>1. IF n + 1 <= Len(stream) THEN TRUE ELSE Len(stream) - n = 0
    BY <1>1
  <2> QED BY <1>3, <1>4, <2>1, Zenon
<1>7. \A j \in 1..(Len(stream) - n) :
        SubSeq(stream, n + 1, Len(stream))[j] = stream[j + n]
  <2>1. \A j \in 1..(Len(stream) - n) :
          SubSeq(stream, n + 1, Len(stream))[j] = stream[(n + 1) + j - 1]
    BY <1>3, <1>4, Zenon
  <2> QED BY <1>5, <2>1, Zenon
<1> QED BY <1>3, <1>6, <1>7, Zenon

LEMMA OverwrittenIs ==
  ASSUME NEW old \in [1..REQUEST_BUF_SIZE -> CellSet], NEW stream \in Seq(CellSet),
         NEW n \in 1..Len(stream)
  PROVE  /\ Overwritten(old, stream, n) \in [1..REQUEST_BUF_SIZE -> CellSet]
         /\ \A k \in 1..REQUEST_BUF_SIZE :
              Overwritten(old, stream, n)[k] = IF k <= n THEN stream[k] ELSE old[k]
<1>1. Len(stream) \in Nat /\ REQUEST_BUF_SIZE \in Nat
  BY LenProperties, SizesAre
<1>2. \A k \in 1..REQUEST_BUF_SIZE : k <= n => k \in 1..Len(stream)
  BY <1>1
<1>3. \A k \in 1..REQUEST_BUF_SIZE : k <= n => stream[k] \in CellSet
  BY <1>2, ElementOfSeq
<1> QED BY <1>3 DEF Overwritten

(***************************************************************************)
(* Types.                                                                  *)
(***************************************************************************)
Requests == [1..REQUEST_BUF_SIZE -> CellSet]
AnswerSet == [counts : Seq(CellSet), data : CellSet, body : Seq(CellSet)]

WireTyped ==
  /\ state \in {"open", "closed", "undefined"}
  /\ queries \in Seq(Queries) /\ sent \in 0..MaxRequests /\ replied \in 0..Len(forwarded)
  /\ memory \in Memories
  /\ toCore \in Seq(CellSet) /\ fromUp \in Seq(CellSet)
  /\ web \in Requests /\ forwarded \in Seq(Requests)
  /\ buf \in [Places -> CellSet] /\ len \in 0..(2 * RESPONSE_BUF_SIZE)
  /\ counts \in Seq(CellSet) /\ data \in CellSet /\ past \in Nat
  /\ answers \in Seq(AnswerSet)
  /\ Len(answers) <= Len(forwarded)
  /\ state = "open" /\ reading => Len(answers) < Len(forwarded)
  /\ scheduled \in BOOLEAN /\ reading \in BOOLEAN /\ torn \in BOOLEAN /\ hasty \in BOOLEAN
  /\ past > 0 => state = "undefined"

LEMMA JunkTyped == Junk \in CellSet
<1>1. "junk" \in Kinds /\ 0 \in Nat
  BY DEF Kinds
<1> QED BY <1>1, CellTyped DEF Junk

LEMMA InitTyped == Init => WireTyped
<1> SUFFICES ASSUME Init PROVE WireTyped
  OBVIOUS
<1>1. Junk \in CellSet
  BY JunkTyped
<1>2. web \in Requests /\ buf \in [Places -> CellSet] /\ data \in CellSet
  BY <1>1, UnsetIs DEF Init, Requests
<1>3. /\ toCore = <<>> /\ fromUp = <<>> /\ forwarded = <<>> /\ counts = <<>> /\ answers = <<>>
      /\ queries = <<>> /\ memory \in Memories
      /\ sent = 0 /\ replied = 0 /\ len = 0 /\ past = 0 /\ state = "open"
  BY DEF Init, sent
<1>4. scheduled = FALSE /\ reading = FALSE /\ torn = FALSE /\ hasty = FALSE
  BY Zenon DEF Init
<1>5. scheduled \in BOOLEAN /\ reading \in BOOLEAN /\ torn \in BOOLEAN /\ hasty \in BOOLEAN
  BY <1>4, Zenon
<1>6. \A S : <<>> \in Seq(S) /\ Len(<<>>) = 0
  OBVIOUS
<1>7. 0 \in 0..MaxRequests /\ 0 \in 0..0 /\ 0 \in 0..(2 * RESPONSE_BUF_SIZE)
  BY SizesAre
<1> QED BY <1>2, <1>3, <1>4, <1>5, <1>6, <1>7 DEF WireTyped

\* A reply: two cells of head, and its body.
LEMMA ReplyIs ==
  ASSUME NEW n \in Nat, NEW size \in Nat
  PROVE  /\ Reply(n, size) \in Seq(CellSet) /\ Len(Reply(n, size)) = HEAD + size
         /\ Reply(n, size)[1] = Cell(IF size > 0 THEN "some" ELSE "none", n, 1)
         /\ Reply(n, size)[2] = Cell("data", n, 1)
         /\ \A k \in 1..size : Reply(n, size)[k + HEAD] = Cell("body", n, k)
<1> DEFINE first == Cell(IF size > 0 THEN "some" ELSE "none", n, 1)
           second == Cell("data", n, 1)
           head == <<first, second>>
           body == Body(n, size)
<1>1. {"some", "none", "data", "body"} \subseteq Kinds /\ 1 \in Nat /\ HEAD = 2
  BY SizesAre DEF Kinds
<1>2. first \in CellSet /\ second \in CellSet
  <2>1. (IF size > 0 THEN "some" ELSE "none") \in Kinds /\ "data" \in Kinds
    BY <1>1
  <2> QED BY <1>1, <2>1, CellTyped
<1>3. body \in Seq(CellSet) /\ Len(body) = size
      /\ \A k \in 1..size : body[k] = Cell("body", n, k)
  BY <1>1, CellsAre DEF Body
<1> HIDE DEF first, second, body
<1>4. head \in Seq(CellSet) /\ Len(head) = 2 /\ head[1] = first /\ head[2] = second
  BY <1>2
<1>5. Reply(n, size) = head \o body
  BY DEF Reply, first, second, body
<1> HIDE DEF head
<1>6. /\ head \o body \in Seq(CellSet)
      /\ Len(head \o body) = Len(head) + Len(body)
      /\ \A i \in 1 .. Len(head) + Len(body) : (head \o body)[i] =
                  IF i <= Len(head) THEN head[i] ELSE body[i - Len(head)]
  BY <1>3, <1>4, ConcatProperties
<1>7. 1 \in 1..(2 + size) /\ 2 \in 1..(2 + size) /\ 1 <= 2
  OBVIOUS
<1>8. \A k \in 1..size : k + 2 \in 1..(2 + size) /\ ~(k + 2 <= 2) /\ (k + 2) - 2 = k
  OBVIOUS
<1>9. Len(head) + Len(body) = 2 + size
  BY <1>3, <1>4
<1> QED BY <1>1, <1>3, <1>4, <1>5, <1>6, <1>7, <1>8, <1>9 DEF first, second

LEMMA QueriesGrow ==
  ASSUME WireTyped, ClientSends
  PROVE  /\ queries' \in Seq(Queries) /\ sent' = sent + 1
         /\ \A m \in DOMAIN queries : m \in DOMAIN queries' /\ queries'[m] = queries[m]
<1>1. PICK query \in Queries : queries' = Append(queries, query)
  BY DEF ClientSends
<1>2. queries \in Seq(Queries)
  BY DEF WireTyped
<1>3. /\ Append(queries, query) \in Seq(Queries)
      /\ Len(Append(queries, query)) = Len(queries) + 1
      /\ \A m \in 1..Len(queries) : Append(queries, query)[m] = queries[m]
  BY <1>2, AppendProperties
<1>4. /\ DOMAIN queries = 1..Len(queries) /\ Len(queries) \in Nat
      /\ DOMAIN Append(queries, query) = 1..(Len(queries) + 1)
  BY <1>2, <1>3, LenProperties
<1>5. \A m \in 1..Len(queries) : m \in 1..(Len(queries) + 1)
  BY <1>4
<1> QED BY <1>1, <1>3, <1>4, <1>5 DEF sent

LEMMA ClientSendsTyped ==
  ASSUME WireTyped, ClientSends
  PROVE  WireTyped'
<1>1. /\ sent \in Nat /\ sent + 1 \in Nat /\ sent' = sent + 1 /\ sent' \in 0..MaxRequests
      /\ queries' \in Seq(Queries)
  BY QueriesGrow, SizesAre DEF WireTyped, ClientSends
<1>2. toCore' \in Seq(CellSet)
  <2>1. Request(sent + 1) \in Seq(CellSet)
    BY <1>1, RequestIs
  <2> QED BY <2>1, ConcatProperties DEF WireTyped, ClientSends
<1>3. hasty' \in BOOLEAN
  BY Zenon DEF WireTyped, ClientSends
<1> QED BY <1>1, <1>2, <1>3 DEF WireTyped, ClientSends, requestVars, upstreamVars, responseVars

LEMMA OnRequestTyped ==
  ASSUME WireTyped, OnRequest
  PROVE  WireTyped'
<1>1. PICK n \in Taken(toCore, REQUEST_BUF_SIZE + 1) :
        /\ web' = Overwritten(web, toCore, n)
        /\ toCore' = SubSeq(toCore, n + 1, Len(toCore))
        /\ torn' = (torn \/ n # REQUEST_BUF_SIZE)
        /\ IF HasMagic(web')
             THEN /\ scheduled' = TRUE /\ counts' = <<>> /\ data' = Junk /\ len' = 0
                  /\ UNCHANGED state
             ELSE state' = "closed" /\ UNCHANGED <<scheduled, counts, data, len>>
  BY DEF OnRequest
<1>2. n \in 1..Len(toCore)
  <2>1. REQUEST_BUF_SIZE + 1 \in Nat /\ toCore \in Seq(CellSet) /\ Len(toCore) \in Nat
    BY SizesAre, LenProperties DEF WireTyped
  <2> QED BY <2>1, TakenIs
<1>3. web' \in Requests /\ toCore' \in Seq(CellSet)
  BY <1>1, <1>2, ReadIs, OverwrittenIs DEF WireTyped, Requests
<1>4. /\ state = "open" /\ UNCHANGED <<queries, sent, memory, hasty, forwarded, replied, fromUp,
                                        reading, buf, past, answers>>
  BY DEF OnRequest, upstreamVars, sent
<1>5. torn' \in BOOLEAN
  BY <1>1, Zenon DEF WireTyped
<1>6. scheduled' \in BOOLEAN
  BY <1>1, Zenon DEF WireTyped
<1>7. /\ counts' \in Seq(CellSet) /\ data' \in CellSet
      /\ len' \in 0..(2 * RESPONSE_BUF_SIZE) /\ state' \in {"open", "closed"}
  <2>1. CASE HasMagic(web')
    <3>1. 0 \in 0..(2 * RESPONSE_BUF_SIZE) /\ <<>> \in Seq(CellSet)
      BY SizesAre
    <3> QED BY <1>1, <1>4, <2>1, <3>1, JunkTyped
  <2>2. CASE ~HasMagic(web')
    BY <1>1, <2>2 DEF WireTyped
  <2> QED BY <2>1, <2>2
<1> QED BY <1>3, <1>4, <1>5, <1>6, <1>7 DEF WireTyped

LEMMA DoDistributeTyped ==
  ASSUME WireTyped, DoDistribute
  PROVE  WireTyped'
<1>1. /\ state = "open" /\ scheduled' = FALSE
      /\ IF reading THEN state' = "closed" /\ UNCHANGED <<forwarded, reading>>
         ELSE forwarded' = Append(forwarded, web) /\ reading' = TRUE /\ UNCHANGED state
      /\ UNCHANGED <<queries, sent, memory, toCore, hasty, web, replied, fromUp, buf, len, counts,
                     data, past, answers, torn>>
  BY DEF DoDistribute, clientVars, responseVars, sent
<1>2. /\ forwarded \in Seq(Requests) /\ Len(forwarded) \in Nat /\ web \in Requests
      /\ Len(answers) \in Nat /\ Len(answers) <= Len(forwarded) /\ replied \in 0..Len(forwarded)
  BY LenProperties DEF WireTyped
<1>3. scheduled' \in BOOLEAN
  BY <1>1, Zenon
<1>4. CASE reading
  <2>1. state' = "closed" /\ UNCHANGED <<forwarded, reading>>
    BY <1>1, <1>4
  <2>2. past' = 0
    BY <1>1 DEF WireTyped
  <2> QED BY <1>1, <1>3, <2>1, <2>2 DEF WireTyped
<1>5. CASE ~reading
  <2>1. forwarded' = Append(forwarded, web) /\ UNCHANGED state
    BY <1>1, <1>5
  <2>2. reading' \in BOOLEAN
    BY <1>1, <1>5, Zenon
  <2>3. forwarded' \in Seq(Requests) /\ Len(forwarded') = Len(forwarded) + 1
    BY <1>2, <2>1
  <2>4. replied \in 0..Len(forwarded') /\ Len(answers) < Len(forwarded')
        /\ Len(answers) <= Len(forwarded')
    BY <1>2, <2>3
  <2> QED BY <1>1, <1>3, <2>1, <2>2, <2>3, <2>4 DEF WireTyped
<1> QED BY <1>4, <1>5

LEMMA UpstreamRepliesTyped ==
  ASSUME WireTyped, UpstreamReplies
  PROVE  WireTyped'
<1>1. PICK size \in Bodies : fromUp' = fromUp \o Reply(replied + 1, size)
  BY DEF UpstreamReplies
<1>2. replied \in Nat /\ replied + 1 \in Nat /\ size \in Nat /\ Len(forwarded) \in Nat
  BY SizesAre, LenProperties DEF WireTyped
<1>3. fromUp' \in Seq(CellSet)
  <2>1. Reply(replied + 1, size) \in Seq(CellSet)
    BY <1>2, ReplyIs
  <2> QED BY <1>1, <2>1, ConcatProperties DEF WireTyped
<1>4. replied' \in 0..Len(forwarded')
  BY <1>2 DEF UpstreamReplies, WireTyped
<1> QED BY <1>3, <1>4 DEF UpstreamReplies, WireTyped, clientVars, requestVars, responseVars, sent

\* What is held fits in half of the buffer while it may still grow: an answer
\* was added to it at most once since on_request emptied it.
HeldFits ==
  state = "open" => /\ reading \/ scheduled => len <= RESPONSE_BUF_SIZE
                    /\ reading /\ scheduled => len = 0

LEMMA HeldFitsInit == Init => HeldFits
<1>1. Init => len = 0 /\ RESPONSE_BUF_SIZE \in Nat
  BY SizesAre DEF Init
<1> QED BY <1>1 DEF HeldFits

LEMMA PlacesAre ==
  /\ Places = 1..(2 * RESPONSE_BUF_SIZE) /\ 2 * RESPONSE_BUF_SIZE \in Nat
  /\ HEAD + RESPONSE_BUF_SIZE <= 2 * RESPONSE_BUF_SIZE
BY SizesAre DEF Places

LEMMA FilledIs ==
  ASSUME WireTyped, NEW n \in 1..Len(fromUp)
  PROVE  /\ Filled(n) \in [Places -> CellSet]
         /\ \A k \in Places : Filled(n)[k] = IF k \in (len + 1)..(len + n) THEN fromUp[k - len]
                                             ELSE buf[k]
<1>1. /\ len \in Nat /\ fromUp \in Seq(CellSet) /\ buf \in [Places -> CellSet]
      /\ Len(fromUp) \in Nat /\ n \in Nat
  BY LenProperties DEF WireTyped
<1>2. \A k \in (len + 1)..(len + n) : k - len \in 1..Len(fromUp)
  BY <1>1
<1>3. \A k \in (len + 1)..(len + n) : fromUp[k - len] \in CellSet
  BY <1>1, <1>2, ElementOfSeq
<1> QED BY <1>1, <1>3 DEF Filled

LEMMA MovedIs ==
  ASSUME WireTyped, NEW cells \in [Places -> CellSet], NEW size \in Nat,
         len + size + HEAD <= 2 * RESPONSE_BUF_SIZE, NEW b \in Moved(cells, size)
  PROVE  /\ b \in [Places -> CellSet]
         /\ \A k \in Places : k \notin (len + 1)..(len + size) => b[k] = cells[k]
         /\ \/ \A k \in (len + 1)..(len + size) : b[k] = cells[k + HEAD]
            \/ size > HEAD /\ \A k \in (len + 1)..(len + size) : b[k] = Junk
<1> DEFINE right == [k \in Places |-> IF k \in (len + 1)..(len + size) THEN cells[k + HEAD]
                                      ELSE cells[k]]
           wrong == [k \in Places |-> IF k \in (len + 1)..(len + size) THEN Junk ELSE cells[k]]
<1>1. len \in Nat /\ HEAD = 2 /\ 2 * RESPONSE_BUF_SIZE \in Nat
  BY SizesAre DEF WireTyped
<1>2. \A k \in (len + 1)..(len + size) : k \in Places /\ k + HEAD \in Places
  BY <1>1, PlacesAre
<1>3. right \in [Places -> CellSet] /\ wrong \in [Places -> CellSet]
  BY <1>2, JunkTyped
<1>4. /\ \A k \in Places : k \notin (len + 1)..(len + size) => right[k] = cells[k] /\ wrong[k] = cells[k]
      /\ \A k \in (len + 1)..(len + size) : right[k] = cells[k + HEAD] /\ wrong[k] = Junk
  BY <1>2
<1>5. b = right \/ (size > HEAD /\ b = wrong)
  BY DEF Moved
<1> HIDE DEF right, wrong
<1> QED BY <1>3, <1>4, <1>5

\* on_got_upstream_response, taken apart: a read goes out of bounds, or what it
\* leaves in the buffer is another answer.
OutOfBounds(n) ==
  /\ state' = "undefined" /\ UNCHANGED <<buf, len, counts, data, answers>>
  /\ Excess(n) > 0 \/ \E returned \in Returned(Filled(n)[len + 1]) : returned /\ n < HEAD

Answered(n) ==
  /\ Excess(n) = 0 /\ state' = "open"
  /\ counts' = Append(counts, Filled(n)[len + 1]) /\ data' = Filled(n)[len + 2]
  /\ \/ TRUE \in Returned(Filled(n)[len + 1]) /\ n >= HEAD
        /\ buf' \in Moved(Filled(n), n - HEAD) /\ len' = len + (n - HEAD)
     \/ FALSE \in Returned(Filled(n)[len + 1]) /\ buf' = Filled(n) /\ len' = len
  /\ answers' = Append(answers,
       [counts |-> counts', data |-> data', body |-> [k \in 1..len' |-> buf'[k]]])

LEMMA GotIs ==
  ASSUME WireTyped, OnGotUpstreamResponse
  PROVE  /\ state = "open" /\ reading /\ reading' = FALSE
         /\ UNCHANGED <<queries, sent, memory, toCore, hasty, web, scheduled, forwarded, replied>>
         /\ \E n \in 1..Len(fromUp) :
              /\ n \in Taken(fromUp, HEAD + RESPONSE_BUF_SIZE) /\ n <= HEAD + RESPONSE_BUF_SIZE
              /\ fromUp' = SubSeq(fromUp, n + 1, Len(fromUp))
              /\ torn' = (torn \/ n # Len(fromUp))
              /\ past' = Excess(n) /\ Excess(n) \in Nat
              /\ OutOfBounds(n) \/ Answered(n)
<1>1. PICK n \in Taken(fromUp, HEAD + RESPONSE_BUF_SIZE) :
        LET filled == Filled(n) IN
        /\ fromUp' = SubSeq(fromUp, n + 1, Len(fromUp))
        /\ torn' = (torn \/ n # Len(fromUp))
        /\ past' = Excess(n)
        /\ IF Excess(n) > 0
             THEN state' = "undefined" /\ UNCHANGED <<buf, len, counts, data, answers>>
           ELSE \E returned \in Returned(filled[len + 1]) :
             IF returned /\ n < HEAD
               THEN state' = "undefined" /\ UNCHANGED <<buf, len, counts, data, answers>>
             ELSE /\ counts' = Append(counts, filled[len + 1])
                  /\ data' = filled[len + 2]
                  /\ IF returned THEN buf' \in Moved(filled, n - HEAD) /\ len' = NewLen(n - HEAD)
                                 ELSE buf' = filled /\ UNCHANGED len
                  /\ answers' = Append(answers,
                       [counts |-> counts', data |-> data', body |-> [k \in 1..len' |-> buf'[k]]])
                  /\ UNCHANGED state
  BY DEF OnGotUpstreamResponse
<1>2. /\ fromUp \in Seq(CellSet) /\ Len(fromUp) \in Nat /\ len \in Nat
      /\ HEAD + RESPONSE_BUF_SIZE \in Nat /\ HEAD = 2 /\ 2 * RESPONSE_BUF_SIZE \in Nat
  BY SizesAre, LenProperties DEF WireTyped
<1>3. n \in Nat /\ n \in 1..Len(fromUp) /\ n <= HEAD + RESPONSE_BUF_SIZE
  BY <1>2, TakenIs
<1>4. Excess(n) \in Nat
  BY <1>2, <1>3 DEF Excess
<1>5. /\ state = "open" /\ reading /\ reading' = FALSE
      /\ UNCHANGED <<queries, sent, memory, toCore, hasty, web, scheduled, forwarded, replied>>
  BY DEF OnGotUpstreamResponse, clientVars, requestVars, sent
<1>6. OutOfBounds(n) \/ Answered(n)
  <2>1. CASE Excess(n) > 0
    BY <1>1, <2>1 DEF OutOfBounds
  <2>2. CASE ~(Excess(n) > 0)
    <3>1. PICK returned \in Returned(Filled(n)[len + 1]) :
             IF returned /\ n < HEAD
               THEN state' = "undefined" /\ UNCHANGED <<buf, len, counts, data, answers>>
             ELSE /\ counts' = Append(counts, Filled(n)[len + 1])
                  /\ data' = Filled(n)[len + 2]
                  /\ IF returned THEN buf' \in Moved(Filled(n), n - HEAD) /\ len' = NewLen(n - HEAD)
                                 ELSE buf' = Filled(n) /\ UNCHANGED len
                  /\ answers' = Append(answers,
                       [counts |-> counts', data |-> data', body |-> [k \in 1..len' |-> buf'[k]]])
                  /\ UNCHANGED state
      BY <1>1, <2>2
    <3>2. Excess(n) = 0
      BY <1>4, <2>2
    <3>3. returned = TRUE \/ returned = FALSE
      BY DEF Returned
    <3>4. CASE returned /\ n < HEAD
      BY <3>1, <3>4 DEF OutOfBounds
    <3>5. CASE returned = TRUE /\ ~(n < HEAD)
      <4>1. n >= HEAD
        BY <1>2, <1>3, <3>5
      <4> QED BY <1>5, <3>1, <3>2, <3>5, <4>1 DEF Answered, NewLen
    <3>6. CASE returned = FALSE
      BY <1>5, <3>1, <3>2, <3>6 DEF Answered
    <3> QED BY <3>3, <3>4, <3>5, <3>6
  <2> QED BY <2>1, <2>2
<1> QED BY <1>1, <1>3, <1>4, <1>5, <1>6

\* The data of an answer.
LEMMA AnsweredTyped ==
  ASSUME WireTyped, HeldFits, OnGotUpstreamResponse,
         NEW n \in 1..Len(fromUp), n <= HEAD + RESPONSE_BUF_SIZE, Answered(n)
  PROVE  /\ len + n <= 2 * RESPONSE_BUF_SIZE /\ len <= RESPONSE_BUF_SIZE
         /\ len + 1 \in Places /\ len + 2 \in Places
         /\ buf' \in [Places -> CellSet] /\ len' \in Nat /\ len' <= len + n
         /\ len' > len => len' + HEAD = len + n
         /\ counts' \in Seq(CellSet) /\ data' \in CellSet
         /\ [counts |-> counts', data |-> data', body |-> [k \in 1..len' |-> buf'[k]]] \in AnswerSet
<1>1. /\ fromUp \in Seq(CellSet) /\ Len(fromUp) \in Nat /\ len \in Nat /\ n \in Nat /\ n >= 1
      /\ HEAD = 2 /\ 2 * RESPONSE_BUF_SIZE \in Nat /\ RESPONSE_BUF_SIZE \in Nat
      /\ RESPONSE_BUF_SIZE >= 2 /\ Places = 1..(2 * RESPONSE_BUF_SIZE)
  BY SizesAre, PlacesAre, LenProperties DEF WireTyped
<1>2. len + n <= 2 * RESPONSE_BUF_SIZE
  <2>1. Excess(n) = 0
    BY DEF Answered
  <2> QED BY <1>1, <2>1 DEF Excess
<1>3. len <= RESPONSE_BUF_SIZE
  BY GotIs DEF HeldFits
<1>4. len + 1 \in Places /\ len + 2 \in Places
  BY <1>1, <1>2, <1>3
<1>5. /\ Filled(n) \in [Places -> CellSet]
      /\ Filled(n)[len + 1] \in CellSet /\ Filled(n)[len + 2] \in CellSet
  BY <1>4, FilledIs
<1>6. counts' \in Seq(CellSet) /\ data' \in CellSet
  BY <1>5 DEF Answered, WireTyped
<1>7. /\ buf' \in [Places -> CellSet] /\ len' \in Nat /\ len' <= len + n
      /\ len' > len => len' + HEAD = len + n
  <2>1. CASE n >= HEAD /\ buf' \in Moved(Filled(n), n - HEAD) /\ len' = len + (n - HEAD)
    <3>1. n - HEAD \in Nat /\ len + (n - HEAD) + HEAD <= 2 * RESPONSE_BUF_SIZE
      BY <1>1, <1>2, <2>1
    <3> QED BY <1>1, <1>5, <2>1, <3>1, MovedIs
  <2>2. CASE buf' = Filled(n) /\ len' = len
    BY <1>1, <1>5, <2>2
  <2> QED BY <2>1, <2>2 DEF Answered
<1>8. [k \in 1..len' |-> buf'[k]] \in Seq(CellSet)
  <2>1. \A k \in 1..len' : k \in Places
    BY <1>1, <1>2, <1>7
  <2>2. [k \in 1..len' |-> buf'[k]] \in [1..len' -> CellSet]
    BY <1>7, <2>1
  <2> QED BY <1>7, <2>2, LenOf
<1> QED BY <1>2, <1>3, <1>4, <1>6, <1>7, <1>8 DEF AnswerSet

LEMMA OnGotTyped ==
  ASSUME WireTyped, HeldFits, OnGotUpstreamResponse
  PROVE  WireTyped' /\ HeldFits'
<1>1. PICK n \in 1..Len(fromUp) :
              /\ n \in Taken(fromUp, HEAD + RESPONSE_BUF_SIZE) /\ n <= HEAD + RESPONSE_BUF_SIZE
              /\ fromUp' = SubSeq(fromUp, n + 1, Len(fromUp))
              /\ torn' = (torn \/ n # Len(fromUp))
              /\ past' = Excess(n) /\ Excess(n) \in Nat
              /\ OutOfBounds(n) \/ Answered(n)
  BY GotIs
<1>2. /\ state = "open" /\ reading /\ reading' = FALSE
      /\ UNCHANGED <<queries, sent, memory, toCore, hasty, web, scheduled, forwarded, replied>>
  BY GotIs
<1>3. torn' \in BOOLEAN
  BY <1>1, Zenon DEF WireTyped
<1>4. reading' \in BOOLEAN
  BY <1>2, Zenon
<1>5. fromUp' \in Seq(CellSet)
  BY <1>1, ReadIs DEF WireTyped
<1>6. Len(answers) \in Nat /\ Len(forwarded) \in Nat /\ Len(answers) < Len(forwarded)
      /\ Len(forwarded') = Len(forwarded)
  BY <1>2, LenProperties DEF WireTyped
<1>7. CASE OutOfBounds(n)
  BY <1>1, <1>2, <1>3, <1>4, <1>5, <1>6, <1>7 DEF WireTyped, HeldFits, OutOfBounds
<1>8. CASE Answered(n)
  <2>1. /\ len + n <= 2 * RESPONSE_BUF_SIZE
        /\ buf' \in [Places -> CellSet] /\ len' \in Nat /\ len' <= len + n
        /\ len' > len => len' + HEAD = len + n
        /\ counts' \in Seq(CellSet) /\ data' \in CellSet
        /\ [counts |-> counts', data |-> data', body |-> [k \in 1..len' |-> buf'[k]]] \in AnswerSet
    BY <1>1, <1>8, AnsweredTyped
  <2>2. state' = "open" /\ past' = 0 /\ answers' = Append(answers,
         [counts |-> counts', data |-> data', body |-> [k \in 1..len' |-> buf'[k]]])
    BY <1>1, <1>8 DEF Answered
  <2>3. answers' \in Seq(AnswerSet) /\ Len(answers') = Len(answers) + 1
    BY <2>1, <2>2 DEF WireTyped
  <2>4. len' \in 0..(2 * RESPONSE_BUF_SIZE)
    BY <2>1, SizesAre DEF WireTyped
  <2>5. WireTyped'
    <3>1. Len(answers') <= Len(forwarded')
      BY <1>6, <2>3
    <3>2. /\ state' = "open" /\ past' \in Nat /\ ~(past' > 0) /\ counts' \in Seq(CellSet)
          /\ data' \in CellSet /\ buf' \in [Places -> CellSet]
      BY <2>1, <2>2
    <3>3. reading' = FALSE /\ reading' \in BOOLEAN /\ torn' \in BOOLEAN
      BY <1>2, <1>3, <1>4
    <3>4. /\ queries' \in Seq(Queries) /\ sent' \in 0..MaxRequests
          /\ replied' \in 0..Len(forwarded') /\ memory' \in Memories
          /\ toCore' \in Seq(CellSet) /\ web' \in Requests /\ forwarded' \in Seq(Requests)
          /\ scheduled' \in BOOLEAN /\ hasty' \in BOOLEAN
      BY <1>2, Zenon DEF WireTyped
    <3> QED BY <1>5, <2>3, <2>4, <3>1, <3>2, <3>3, <3>4, Zenon DEF WireTyped
  <2>6. HeldFits'
    <3>1. SUFFICES ASSUME scheduled PROVE len' <= RESPONSE_BUF_SIZE
      BY <1>2 DEF HeldFits
    <3>2. len = 0
      BY <1>2, <3>1 DEF HeldFits
    <3>3. n \in Nat
      BY LenProperties DEF WireTyped
    <3>4. RESPONSE_BUF_SIZE \in Nat /\ HEAD = 2
      BY SizesAre
    <3>5. n <= HEAD + RESPONSE_BUF_SIZE /\ len' \in Nat /\ (len' > len => len' + HEAD = len + n)
      BY <1>1, <2>1
    <3>6. \A a \in Nat : a > 0 /\ a + 2 = 0 + n /\ n <= 2 + RESPONSE_BUF_SIZE => a <= RESPONSE_BUF_SIZE
      BY <3>3, <3>4
    <3>7. len' > 0 => len' <= RESPONSE_BUF_SIZE
      BY <3>2, <3>4, <3>5, <3>6
    <3>8. len' = 0 => len' <= RESPONSE_BUF_SIZE
      BY <3>4
    <3> QED BY <3>5, <3>7, <3>8
  <2> QED BY <2>5, <2>6
<1> QED BY <1>1, <1>7, <1>8

LEMMA WireTypedStep ==
  ASSUME WireTyped, HeldFits, [Next]_vars
  PROVE  WireTyped' /\ HeldFits'
<1>1. CASE ClientSends
  <2>1. UNCHANGED <<state, reading, scheduled, len>>
    BY <1>1 DEF ClientSends, requestVars, upstreamVars, responseVars
  <2>2. HeldFits'
    BY <2>1 DEF HeldFits
  <2> QED BY <1>1, <2>2, ClientSendsTyped
<1>2. CASE OnRequest
  <2>1. state' = "closed" \/ (state' = state /\ len' = 0)
    BY <1>2 DEF OnRequest
  <2>2. HeldFits'
    BY <1>2, <2>1, SizesAre DEF HeldFits, OnRequest
  <2> QED BY <1>2, <2>2, OnRequestTyped
<1>3. CASE DoDistribute
  <2>1. /\ state = "open" /\ scheduled /\ scheduled' = FALSE /\ UNCHANGED len
        /\ state' = "open" => ~reading
    BY <1>3 DEF DoDistribute, responseVars
  <2>2. HeldFits'
    BY <2>1 DEF HeldFits
  <2> QED BY <1>3, <2>2, DoDistributeTyped
<1>4. CASE UpstreamReplies
  <2>1. UNCHANGED <<state, reading, scheduled, len>>
    BY <1>4 DEF UpstreamReplies, requestVars, responseVars
  <2>2. HeldFits'
    BY <2>1 DEF HeldFits
  <2> QED BY <1>4, <2>2, UpstreamRepliesTyped
<1>5. CASE OnGotUpstreamResponse
  BY <1>5, OnGotTyped
<1>6. CASE UNCHANGED vars
  <2>1. UNCHANGED <<state, queries, sent, memory, toCore, hasty, web, scheduled, forwarded,
                    replied, fromUp, reading, buf, len, counts, data, past, answers, torn>>
    BY <1>6 DEF vars, clientVars, requestVars, upstreamVars, responseVars, sent
  <2>2. HeldFits'
    BY <2>1 DEF HeldFits
  <2>3. WireTyped'
    BY <2>1 DEF WireTyped
  <2> QED BY <2>2, <2>3
<1> QED BY <1>1, <1>2, <1>3, <1>4, <1>5, <1>6 DEF Next

LEMMA WireTypedIs == WireTyped => TypeOK
<1> SUFFICES ASSUME WireTyped PROVE TypeOK
  OBVIOUS
<1>1. Len(web) = REQUEST_BUF_SIZE
  <2>1. web \in [1..REQUEST_BUF_SIZE -> CellSet] /\ REQUEST_BUF_SIZE \in Nat
    BY SizesAre DEF WireTyped, Requests
  <2> QED BY <2>1, LenOf
<1>2. ASSUME NEW i \in DOMAIN forwarded PROVE Len(forwarded[i]) = REQUEST_BUF_SIZE
  <2>1. forwarded[i] \in Requests
    BY ElementOfSeq, LenProperties DEF WireTyped
  <2>2. forwarded[i] \in [1..REQUEST_BUF_SIZE -> CellSet] /\ REQUEST_BUF_SIZE \in Nat
    BY <2>1, SizesAre DEF Requests
  <2> QED BY <2>2, LenOf
<1>3. {scheduled, reading, torn, hasty} \subseteq BOOLEAN
  BY Zenon DEF WireTyped
<1> QED BY <1>1, <1>2, <1>3 DEF WireTyped, TypeOK, sent

\* The values a connection's variables have, and how the counters bound one
\* another: no more replies than forwarded requests, and no more answers; the
\* cells held stay within the buffer and its padding.
THEOREM WireTypeCorrect == Spec => []TypeOK
<1>1. Init => WireTyped /\ HeldFits
  BY InitTyped, HeldFitsInit
<1>2. (WireTyped /\ HeldFits) /\ [Next]_vars => (WireTyped /\ HeldFits)'
  BY WireTypedStep
<1>3. (WireTyped /\ HeldFits) => TypeOK
  BY WireTypedIs
<1> QED BY <1>1, <1>2, <1>3, PTL DEF Spec

(***************************************************************************)
(* The client's stream.                                                    *)
(***************************************************************************)

LEMMA TimesIs ==
  ASSUME NEW a \in Int
  PROVE  /\ (a + 1) * REQUEST_BUF_SIZE = a * REQUEST_BUF_SIZE + REQUEST_BUF_SIZE
         /\ a * REQUEST_BUF_SIZE \in Int /\ 0 * REQUEST_BUF_SIZE = 0
<1>1. REQUEST_BUF_SIZE \in Int
  BY SizesAre
<1> QED BY <1>1

LEMMA TimesMonotonic ==
  ASSUME NEW a \in Int, NEW b \in Int, a <= b
  PROVE  a * REQUEST_BUF_SIZE <= b * REQUEST_BUF_SIZE
<1>1. REQUEST_BUF_SIZE \in Nat
  BY SizesAre
<1>2. \A c, d \in Int, e \in Nat : c <= d => c * e <= d * e
  OBVIOUS
<1> QED BY <1>1, <1>2

\* What is unread begins after q whole requests and r cells of the next.
StreamAt(q, r) ==
  /\ q \in 0..sent /\ r \in 0..(REQUEST_BUF_SIZE - 1)
  /\ r > 0 => q < sent
  /\ Len(toCore) = (sent - q) * REQUEST_BUF_SIZE - r
  /\ \A n \in (q + 1)..sent, k \in 1..REQUEST_BUF_SIZE, j \in 1..Len(toCore) :
       j = (n - 1 - q) * REQUEST_BUF_SIZE + k - r => toCore[j] = Request(n)[k]

\* A request more.
LEMMA StreamGrows ==
  ASSUME WireTyped, NEW q, NEW r, StreamAt(q, r),
         sent' = sent + 1, toCore' = toCore \o Request(sent + 1)
  PROVE  StreamAt(q, r)'
<1>1. /\ sent \in Nat /\ toCore \in Seq(CellSet) /\ Len(toCore) \in Nat
      /\ REQUEST_BUF_SIZE \in Nat /\ q \in Nat /\ r \in Nat /\ q <= sent
      /\ Len(toCore) = (sent - q) * REQUEST_BUF_SIZE - r
  BY SizesAre, LenProperties DEF WireTyped, StreamAt
<1>2. /\ Request(sent + 1) \in Seq(CellSet) /\ Len(Request(sent + 1)) = REQUEST_BUF_SIZE
  BY <1>1, RequestIs
<1>3. /\ Len(toCore') = Len(toCore) + REQUEST_BUF_SIZE
      /\ \A i \in 1..(Len(toCore) + REQUEST_BUF_SIZE) :
           toCore'[i] = IF i <= Len(toCore) THEN toCore[i] ELSE Request(sent + 1)[i - Len(toCore)]
  <2>1. /\ Len(toCore \o Request(sent + 1)) = Len(toCore) + Len(Request(sent + 1))
        /\ \A i \in 1 .. Len(toCore) + Len(Request(sent + 1)) :
             (toCore \o Request(sent + 1))[i] =
               IF i <= Len(toCore) THEN toCore[i] ELSE Request(sent + 1)[i - Len(toCore)]
    BY <1>1, <1>2, ConcatProperties
  <2> QED BY <1>2, <2>1
<1>4. Len(toCore') = (sent' - q) * REQUEST_BUF_SIZE - r
  <2>1. (sent - q) + 1 = sent' - q /\ sent - q \in Int
    BY <1>1
  <2>2. ((sent - q) + 1) * REQUEST_BUF_SIZE = (sent - q) * REQUEST_BUF_SIZE + REQUEST_BUF_SIZE
        /\ (sent - q) * REQUEST_BUF_SIZE \in Int
    BY <2>1, TimesIs
  <2>3. (sent' - q) * REQUEST_BUF_SIZE = (sent - q) * REQUEST_BUF_SIZE + REQUEST_BUF_SIZE
    BY <2>1, <2>2
  <2> QED BY <1>1, <1>3, <2>2, <2>3
<1>5. ASSUME NEW n \in (q + 1)..sent', NEW k \in 1..REQUEST_BUF_SIZE, NEW j \in 1..Len(toCore'),
             j = (n - 1 - q) * REQUEST_BUF_SIZE + k - r
      PROVE  toCore'[j] = Request(n)[k]
  <2>1. /\ j \in 1..(Len(toCore) + REQUEST_BUF_SIZE)
        /\ n \in Nat /\ k \in Nat /\ j \in Nat /\ (n - 1 - q) * REQUEST_BUF_SIZE \in Int
        /\ k >= 1 /\ k <= REQUEST_BUF_SIZE /\ j >= 1 /\ n - 1 - q \in Int
    <3>1. n \in Nat /\ n - 1 - q \in Int
      BY <1>1
    <3> QED BY <1>1, <1>3, <3>1, TimesIs
  <2>2. CASE n = sent + 1
    <3>1. n - 1 - q = sent - q
      BY <1>1, <2>2
    <3>2. j = Len(toCore) + k
      BY <1>1, <1>5, <2>1, <3>1
    <3>3. ~(j <= Len(toCore)) /\ j - Len(toCore) = k
      BY <1>1, <2>1, <3>2
    <3>4. toCore'[j] = Request(sent + 1)[j - Len(toCore)]
      BY <1>3, <2>1, <3>3
    <3> QED BY <2>2, <3>3, <3>4
  <2>3. CASE n # sent + 1
    <3>1. n \in (q + 1)..sent /\ n - 1 - q <= (sent - q) - 1 /\ (sent - q) - 1 \in Int
      BY <1>1, <2>3
    <3>2. (n - 1 - q) * REQUEST_BUF_SIZE <= ((sent - q) - 1) * REQUEST_BUF_SIZE
      BY <2>1, <3>1, TimesMonotonic
    <3>3. (((sent - q) - 1) + 1) * REQUEST_BUF_SIZE
             = ((sent - q) - 1) * REQUEST_BUF_SIZE + REQUEST_BUF_SIZE
          /\ ((sent - q) - 1) * REQUEST_BUF_SIZE \in Int
      BY <3>1, TimesIs
    <3>4. ((sent - q) - 1) + 1 = sent - q
      BY <1>1
    <3>5. j <= Len(toCore)
      <4>1. (sent - q) * REQUEST_BUF_SIZE = ((sent - q) - 1) * REQUEST_BUF_SIZE + REQUEST_BUF_SIZE
        BY <3>3, <3>4
      <4>2. (n - 1 - q) * REQUEST_BUF_SIZE <= (sent - q) * REQUEST_BUF_SIZE - REQUEST_BUF_SIZE
        BY <1>1, <2>1, <3>2, <3>3, <4>1
      <4>3. j <= (n - 1 - q) * REQUEST_BUF_SIZE + REQUEST_BUF_SIZE - r
        BY <1>1, <1>5, <2>1
      <4>4. \A x, y \in Int, size, rest, l, i \in Nat :
              y <= x - size /\ l = x - rest /\ i <= y + size - rest => i <= l
        OBVIOUS
      <4>5. (sent - q) * REQUEST_BUF_SIZE \in Int
        BY <3>3, <4>1, <1>1
      <4> HIDE <3>2, <3>3, <3>4
      <4> QED BY <1>1, <2>1, <4>2, <4>3, <4>4, <4>5
    <3>6. toCore'[j] = toCore[j] /\ j \in 1..Len(toCore)
      BY <1>1, <1>3, <2>1, <3>5
    <3> QED BY <1>5, <3>1, <3>6 DEF StreamAt
  <2> QED BY <2>2, <2>3
<1>6. q \in 0..sent' /\ (r > 0 => q < sent') /\ r \in 0..(REQUEST_BUF_SIZE - 1)
  BY <1>1 DEF StreamAt
<1> QED BY <1>4, <1>5, <1>6 DEF StreamAt

\* m cells less: q2 requests and r2 cells are read then.
LEMMA StreamShrinks ==
  ASSUME WireTyped, NEW q, NEW r, StreamAt(q, r), NEW m \in 1..Len(toCore),
         sent' = sent, toCore' = SubSeq(toCore, m + 1, Len(toCore)),
         NEW q2 \in 0..sent, NEW r2 \in 0..(REQUEST_BUF_SIZE - 1), r2 > 0 => q2 < sent,
         \/ q2 = q /\ r2 = r + m
         \/ q2 = q + 1 /\ r2 = r + m - REQUEST_BUF_SIZE
  PROVE  StreamAt(q2, r2)'
<1>1. /\ sent \in Nat /\ toCore \in Seq(CellSet) /\ Len(toCore) \in Nat /\ m \in Nat
      /\ REQUEST_BUF_SIZE \in Nat /\ q \in Nat /\ r \in Nat /\ q <= sent
      /\ Len(toCore) = (sent - q) * REQUEST_BUF_SIZE - r
  BY SizesAre, LenProperties DEF WireTyped, StreamAt
<1>2. /\ Len(toCore') = Len(toCore) - m
      /\ \A j \in 1..(Len(toCore) - m) : toCore'[j] = toCore[j + m]
  BY <1>1, ReadIs
<1>3. \A n \in Int : (n - q2) * REQUEST_BUF_SIZE - r2 = (n - q) * REQUEST_BUF_SIZE - r - m
                     /\ (n - q2) * REQUEST_BUF_SIZE \in Int
  <2> SUFFICES ASSUME NEW n \in Int
               PROVE  /\ (n - q2) * REQUEST_BUF_SIZE - r2 = (n - q) * REQUEST_BUF_SIZE - r - m
                      /\ (n - q2) * REQUEST_BUF_SIZE \in Int
    OBVIOUS
  <2>1. /\ n - q2 \in Int /\ q2 \in Int /\ r2 \in Int
        /\ (n - q2) * REQUEST_BUF_SIZE \in Int
        /\ ((n - q2) + 1) * REQUEST_BUF_SIZE = (n - q2) * REQUEST_BUF_SIZE + REQUEST_BUF_SIZE
    <3>1. n - q2 \in Int /\ q2 \in Int /\ r2 \in Int
      BY <1>1
    <3> QED BY <3>1, TimesIs
  <2>2. CASE q2 = q /\ r2 = r + m
    BY <1>1, <2>1, <2>2
  <2>3. CASE q2 = q + 1 /\ r2 = r + m - REQUEST_BUF_SIZE
    <3>1. (n - q2) + 1 = n - q
      BY <1>1, <2>3
    <3>2. (n - q) * REQUEST_BUF_SIZE = (n - q2) * REQUEST_BUF_SIZE + REQUEST_BUF_SIZE
      BY <2>1, <3>1
    <3> QED BY <1>1, <2>1, <2>3, <3>2
  <2> QED BY <2>2, <2>3
<1>4. Len(toCore') = (sent' - q2) * REQUEST_BUF_SIZE - r2
  BY <1>1, <1>2, <1>3
<1>5. ASSUME NEW n \in (q2 + 1)..sent', NEW k \in 1..REQUEST_BUF_SIZE, NEW j \in 1..Len(toCore'),
             j = (n - 1 - q2) * REQUEST_BUF_SIZE + k - r2
      PROVE  toCore'[j] = Request(n)[k]
  <2>1. n \in (q + 1)..sent /\ n \in Int /\ n - 1 \in Int /\ j \in Nat /\ k \in Nat /\ j >= 1
        /\ q2 \in Nat /\ r2 \in Nat
    BY <1>1, <1>2
  <2>2. /\ (n - 1 - q2) * REQUEST_BUF_SIZE - r2 = (n - 1 - q) * REQUEST_BUF_SIZE - r - m
        /\ (n - 1 - q2) * REQUEST_BUF_SIZE \in Int
    BY <1>3, <2>1
  <2>3. (n - 1 - q) * REQUEST_BUF_SIZE \in Int
    <3>1. n - 1 - q \in Int
      BY <1>1, <2>1
    <3> QED BY <3>1, TimesIs
  <2>4. j + m = (n - 1 - q) * REQUEST_BUF_SIZE + k - r /\ j + m \in 1..Len(toCore)
        /\ j \in 1..(Len(toCore) - m)
    BY <1>1, <1>2, <1>5, <2>1, <2>2, <2>3
  <2>5. toCore[j + m] = Request(n)[k]
    BY <2>1, <2>4 DEF StreamAt
  <2> QED BY <1>2, <2>4, <2>5
<1> QED BY <1>1, <1>4, <1>5 DEF StreamAt

\* The first cells of what is unread.
LEMMA StreamHead ==
  ASSUME WireTyped, NEW q, NEW r, StreamAt(q, r), Len(toCore) >= 1
  PROVE  /\ q < sent
         /\ \A k \in 1..REQUEST_BUF_SIZE : k - r \in 1..Len(toCore) =>
              toCore[k - r] = Request(q + 1)[k]
         /\ r = 0 /\ Len(toCore) > REQUEST_BUF_SIZE => q + 1 < sent
<1>1. /\ sent \in Nat /\ toCore \in Seq(CellSet) /\ Len(toCore) \in Nat
      /\ REQUEST_BUF_SIZE \in Nat /\ q \in Nat /\ r \in Nat /\ q <= sent
      /\ Len(toCore) = (sent - q) * REQUEST_BUF_SIZE - r
  BY SizesAre, LenProperties DEF WireTyped, StreamAt
<1>2. q < sent
  <2>1. q = sent => sent - q = 0
    BY <1>1
  <2>2. 0 * REQUEST_BUF_SIZE = 0
    BY TimesIs
  <2>3. q # sent
    BY <1>1, <2>1, <2>2
  <2> QED BY <1>1, <2>3
<1>3. ASSUME NEW k \in 1..REQUEST_BUF_SIZE, k - r \in 1..Len(toCore)
      PROVE  toCore[k - r] = Request(q + 1)[k]
  <2>1. q + 1 \in (q + 1)..sent /\ (q + 1) - 1 - q = 0 /\ k \in Nat
    BY <1>1, <1>2
  <2>2. 0 * REQUEST_BUF_SIZE = 0
    BY TimesIs
  <2>3. k - r = ((q + 1) - 1 - q) * REQUEST_BUF_SIZE + k - r
    BY <1>1, <2>1, <2>2
  <2> QED BY <1>3, <2>1, <2>3 DEF StreamAt
<1>4. ASSUME r = 0, Len(toCore) > REQUEST_BUF_SIZE
      PROVE  q + 1 < sent
  <2>1. q + 1 = sent => sent - q = 0 + 1
    BY <1>1
  <2>2. 0 * REQUEST_BUF_SIZE = 0 /\ (0 + 1) * REQUEST_BUF_SIZE = 0 * REQUEST_BUF_SIZE + REQUEST_BUF_SIZE
    BY TimesIs
  <2>3. q + 1 # sent
    BY <1>1, <1>4, <2>1, <2>2
  <2> QED BY <1>1, <1>2, <2>3
<1> QED BY <1>2, <1>3, <1>4

\* The first l of what was forwarded are requests up to b, in order.
Forwards(l, b) ==
  /\ l <= b /\ b \in Nat /\ l \in 0..Len(forwarded)
  /\ \A i \in 1..l : \E m \in 1..b : forwarded[i] = Request(m)
  /\ \A i, j \in 1..l : i < j =>
       forwarded[i][REQUEST_BUF_SIZE].n < forwarded[j][REQUEST_BUF_SIZE].n

\* The first piece of request m over an earlier one.
PieceOf(w, m) ==
  \E k \in 1..REQUEST_BUF_SIZE : \E old \in {Unset} \cup {Request(o) : o \in 1..(m - 1)} :
    w = Overwritten(old, Request(m), k)

\* Where a connection is in its stream, which request.web has, and what was
\* forwarded: whole requests, until a piece of one was taken for a request.
BetweenRequests(q) ==
  /\ web = IF q = 0 THEN Unset ELSE Request(q)
  /\ scheduled => q >= 1
  /\ Forwards(Len(forwarded), IF scheduled THEN q - 1 ELSE q)

InsideRequest(q, r) ==
  /\ r > 0 /\ PieceOf(web, q + 1)
  /\ \/ scheduled /\ Forwards(Len(forwarded), q)
     \/ /\ ~scheduled /\ Len(forwarded) > 0 /\ forwarded[Len(forwarded)] = web
        /\ Forwards(Len(forwarded) - 1, q)

Framing ==
  state = "open" /\ ~Mistakable =>
    \E q, r \in Nat : /\ StreamAt(q, r) /\ (~torn => r = 0)
                      /\ BetweenRequests(q) \/ InsideRequest(q, r)

\* What was cut or sent remains so.
LEMMA MistakableStays ==
  ASSUME WireTyped, Mistakable, [Next]_vars
  PROVE  Mistakable'
<1>1. torn'
  <2>1. ClientSends \/ DoDistribute \/ UpstreamReplies \/ UNCHANGED vars => torn' = torn
    BY DEF ClientSends, DoDistribute, UpstreamReplies, vars
  <2>2. OnRequest \/ OnGotUpstreamResponse => (torn => torn')
    BY DEF OnRequest, OnGotUpstreamResponse
  <2> QED BY <2>1, <2>2 DEF Next, Mistakable
<1>2. \A m \in DOMAIN queries : m \in DOMAIN queries' /\ queries'[m] = queries[m]
  <2>1. CASE ClientSends
    BY <2>1, QueriesGrow
  <2>2. OnRequest \/ DoDistribute \/ UpstreamReplies \/ OnGotUpstreamResponse \/ UNCHANGED vars
          => queries' = queries
    BY DEF OnRequest, DoDistribute, UpstreamReplies, OnGotUpstreamResponse, vars, clientVars
  <2> QED BY <2>1, <2>2 DEF Next
<1> QED BY <1>1, <1>2 DEF Mistakable

LEMMA FramingInit == Init => Framing
<1> SUFFICES ASSUME Init PROVE Framing
  OBVIOUS
<1>1. /\ sent = 0 /\ toCore = <<>> /\ web = Unset /\ forwarded = <<>> /\ Len(<<>>) = 0
      /\ 0 * REQUEST_BUF_SIZE = 0 /\ REQUEST_BUF_SIZE \in Nat /\ REQUEST_BUF_SIZE >= 2
  BY TimesIs, SizesAre DEF Init, sent
<1>2. ~scheduled
  BY Zenon DEF Init
<1>3. StreamAt(0, 0)
  BY <1>1 DEF StreamAt
<1>4. Forwards(0, 0)
  BY <1>1 DEF Forwards
<1>5. BetweenRequests(0)
  BY <1>1, <1>2, <1>4 DEF BetweenRequests
<1> QED BY <1>3, <1>5 DEF Framing

\* A read that on_request goes on with is one that begins with a request, while
\* nothing else can be taken for it.
LEMMA FramingOnRequest ==
  ASSUME WireTyped, state = "open", ~Mistakable',
         NEW q \in Nat, NEW r \in Nat, StreamAt(q, r), ~torn => r = 0,
         BetweenRequests(q) \/ InsideRequest(q, r), OnRequest, state' = "open"
  PROVE  /\ Framing'
         /\ BetweenRequests(q) /\ q < sent /\ scheduled' = TRUE /\ len' = 0
<1>1. PICK n \in Taken(toCore, REQUEST_BUF_SIZE + 1) :
        /\ web' = Overwritten(web, toCore, n)
        /\ toCore' = SubSeq(toCore, n + 1, Len(toCore))
        /\ torn' = (torn \/ n # REQUEST_BUF_SIZE)
        /\ HasMagic(web') /\ scheduled' = TRUE /\ len' = 0
  BY DEF OnRequest
<1>2. /\ n \in 1..Len(toCore) /\ n <= REQUEST_BUF_SIZE + 1 /\ Len(toCore) \in Nat
      /\ Len(toCore) >= 1 /\ n \in Nat /\ n >= 1 /\ web \in Requests
  <2>1. REQUEST_BUF_SIZE + 1 \in Nat /\ toCore \in Seq(CellSet) /\ Len(toCore) \in Nat
    BY SizesAre, LenProperties DEF WireTyped
  <2>2. n \in Nat /\ n >= 1 /\ n <= Len(toCore) /\ n <= REQUEST_BUF_SIZE + 1
    BY <2>1, TakenIs
  <2> QED BY <2>1, <2>2 DEF WireTyped
<1>3. /\ q < sent /\ q \in Nat /\ sent \in Nat /\ r \in 0..(REQUEST_BUF_SIZE - 1)
      /\ REQUEST_BUF_SIZE \in Nat /\ REQUEST_BUF_SIZE >= 2
      /\ \A k \in 1..REQUEST_BUF_SIZE : k - r \in 1..Len(toCore) =>
              toCore[k - r] = Request(q + 1)[k]
      /\ r = 0 /\ Len(toCore) > REQUEST_BUF_SIZE => q + 1 < sent
  <2>1. /\ q < sent
        /\ \A k \in 1..REQUEST_BUF_SIZE : k - r \in 1..Len(toCore) =>
              toCore[k - r] = Request(q + 1)[k]
        /\ r = 0 /\ Len(toCore) > REQUEST_BUF_SIZE => q + 1 < sent
    BY <1>2, StreamHead
  <2>2. sent \in Nat
    BY SizesAre DEF WireTyped
  <2>3. r \in 0..(REQUEST_BUF_SIZE - 1)
    BY DEF StreamAt
  <2> QED BY <2>1, <2>2, <2>3, SizesAre
<1>4. /\ web' \in [1..REQUEST_BUF_SIZE -> CellSet]
      /\ \A k \in 1..REQUEST_BUF_SIZE : web'[k] = IF k <= n THEN toCore[k] ELSE web[k]
  <2>1. web \in [1..REQUEST_BUF_SIZE -> CellSet] /\ toCore \in Seq(CellSet)
    BY DEF WireTyped, Requests
  <2> QED BY <1>1, <1>2, <2>1, OverwrittenIs, Zenon
<1>5. UNCHANGED <<queries, sent, forwarded>>
  BY DEF OnRequest, upstreamVars, sent
<1>6. r = 0
  <2>1. CASE ~torn
    BY <2>1
  <2>2. CASE torn
    <3>1. \A m \in DOMAIN queries : \A j \in 1..QUERY : queries[m][j] # MAGIC[1]
      BY <1>1, <1>5, <2>2 DEF Mistakable
    <3>2. 1 \in 1..REQUEST_BUF_SIZE /\ 1 <= n /\ r + 1 \in 1..REQUEST_BUF_SIZE
          /\ (r + 1) - r = 1 /\ 1 \in 1..Len(toCore)
      BY <1>2, <1>3
    <3>3. Byte(web'[1]) = MAGIC[1]
      <4>1. 1 \in 1..Len(MAGIC)
        BY SizesAre
      <4> QED BY <1>1, <4>1 DEF HasMagic
    <3>4. web'[1] = Request(q + 1)[r + 1]
      BY <1>3, <1>4, <3>2
    <3>5. Request(q + 1)[r + 1] = Cell("request", q + 1, r + 1)
      <4>1. q + 1 \in Nat
        BY <1>3
      <4> QED BY <3>2, <4>1, RequestIs
    <3>6. q + 1 \in DOMAIN queries
      <4>1. DOMAIN queries = 1..sent
        BY LenProperties DEF WireTyped, sent
      <4> QED BY <1>3, <4>1
    <3>7. r + 1 \notin 2..REQUEST_BUF_SIZE
      BY <3>1, <3>3, <3>4, <3>5, <3>6, OtherBytes
    <3> QED BY <1>3, <3>2, <3>7
  <2> QED BY <2>1, <2>2
<1>7. BetweenRequests(q)
  BY <1>6 DEF InsideRequest
<1>8. \A k \in 1..REQUEST_BUF_SIZE :
        web'[k] = IF k <= n THEN Request(q + 1)[k] ELSE web[k]
  <2>1. \A k \in 1..REQUEST_BUF_SIZE : k <= n => k - 0 = k /\ k \in 1..Len(toCore)
    BY <1>2
  <2> QED BY <1>3, <1>4, <1>6, <2>1
<1>9. Forwards(Len(forwarded), q)'
  <2>1. Forwards(Len(forwarded), q) \/ (q >= 1 /\ Forwards(Len(forwarded), q - 1))
    BY <1>7 DEF BetweenRequests
  <2>2. ASSUME q >= 1, Forwards(Len(forwarded), q - 1)
        PROVE  Forwards(Len(forwarded), q)
    <3>1. 1..(q - 1) \subseteq 1..q /\ Len(forwarded) \in Nat
      BY <1>3, LenProperties DEF WireTyped
    <3> QED BY <1>3, <2>2, <3>1 DEF Forwards
  <2>3. Forwards(Len(forwarded), q)
    BY <2>1, <2>2
  <2> QED BY <1>5, <2>3 DEF Forwards
<1>10. CASE n >= REQUEST_BUF_SIZE
  <2>1. web' = Request(q + 1)
    <3>1. \A k \in 1..REQUEST_BUF_SIZE : web'[k] = Request(q + 1)[k]
      BY <1>2, <1>3, <1>8, <1>10
    <3>2. Request(q + 1) \in [1..REQUEST_BUF_SIZE -> CellSet]
      <4>1. q + 1 \in Nat
        BY <1>3
      <4> QED BY <4>1, RequestIs
    <3>3. web' \in [1..REQUEST_BUF_SIZE -> CellSet]
      BY <1>4
    <3>4. \A f, g \in [1..REQUEST_BUF_SIZE -> CellSet] :
             (\A k \in 1..REQUEST_BUF_SIZE : f[k] = g[k]) => f = g
      BY SameFunction
    <3> QED BY <3>1, <3>2, <3>3, <3>4, Zenon
  <2>2. /\ n - REQUEST_BUF_SIZE \in 0..(REQUEST_BUF_SIZE - 1)
        /\ n - REQUEST_BUF_SIZE > 0 => q + 1 < sent
        /\ q + 1 \in 0..sent /\ n - REQUEST_BUF_SIZE = r + n - REQUEST_BUF_SIZE
        /\ n - REQUEST_BUF_SIZE \in Nat
        /\ n = REQUEST_BUF_SIZE => n - REQUEST_BUF_SIZE = 0
    BY <1>2, <1>3, <1>6, <1>10
  <2>3. StreamAt(q + 1, n - REQUEST_BUF_SIZE)'
    BY <1>1, <1>2, <1>5, <2>2, StreamShrinks
  <2>4. (q + 1) - 1 = q /\ q + 1 # 0 /\ q + 1 >= 1 /\ q + 1 \in Nat
    BY <1>3
  <2>5. BetweenRequests(q + 1)'
    BY <1>1, <1>9, <2>1, <2>4 DEF BetweenRequests
  <2>6. Framing'
    BY <1>1, <2>2, <2>3, <2>4, <2>5 DEF Framing
  <2> QED BY <1>1, <1>3, <1>7, <2>6
<1>11. CASE n < REQUEST_BUF_SIZE
  <2>1. n \in 0..(REQUEST_BUF_SIZE - 1) /\ q \in 0..sent /\ n = r + n /\ n > 0
        /\ n \in 1..REQUEST_BUF_SIZE
    BY <1>2, <1>3, <1>6, <1>11
  <2>2. StreamAt(q, n)'
    BY <1>1, <1>2, <1>3, <1>5, <2>1, StreamShrinks
  <2>3. web \in {Unset} \cup {Request(o) : o \in 1..q}
    <3>1. q # 0 => q \in 1..q
      BY <1>3
    <3> QED BY <1>7, <3>1 DEF BetweenRequests
  <2>4. web' = Overwritten(web, Request(q + 1), n)
    <3>1. DOMAIN web = 1..REQUEST_BUF_SIZE
      BY <1>2 DEF Requests
    <3> QED BY <1>4, <1>8, <3>1 DEF Overwritten
  <2>5. PieceOf(web, q + 1)'
    <3>1. (q + 1) - 1 = q
      BY <1>3
    <3> QED BY <2>1, <2>3, <2>4, <3>1 DEF PieceOf
  <2>6. InsideRequest(q, n)'
    BY <1>1, <1>9, <2>1, <2>5 DEF InsideRequest
  <2>7. Framing'
    <3>1. torn'
      <4>1. n # REQUEST_BUF_SIZE
        BY <1>2, <1>3, <1>11
      <4> QED BY <1>1, <4>1, Zenon
    <3> QED BY <1>2, <2>2, <2>6, <3>1 DEF Framing
  <2> QED BY <1>1, <1>3, <1>7, <2>7
<1>12. n >= REQUEST_BUF_SIZE \/ n < REQUEST_BUF_SIZE
  BY <1>2, <1>3
<1> QED BY <1>10, <1>11, <1>12

\* What was to be forwarded is forwarded.
LEMMA FramingDoDistribute ==
  ASSUME WireTyped, Framing, DoDistribute
  PROVE  Framing'
<1> SUFFICES ASSUME state' = "open", ~Mistakable' PROVE Framing'
  BY DEF Framing
<1>1. /\ state = "open" /\ scheduled /\ scheduled' = FALSE
      /\ forwarded' = Append(forwarded, web)
      /\ UNCHANGED <<queries, sent, toCore, web, torn>>
  BY DEF DoDistribute, clientVars, sent
<1>2. PICK q \in Nat, r \in Nat : /\ StreamAt(q, r) /\ (~torn => r = 0)
                                  /\ BetweenRequests(q) \/ InsideRequest(q, r)
  BY <1>1 DEF Framing, Mistakable
<1>3. /\ forwarded \in Seq(Requests) /\ web \in Requests /\ Len(forwarded) \in Nat
      /\ Len(forwarded') = Len(forwarded) + 1
      /\ \A i \in 1..Len(forwarded) : forwarded'[i] = forwarded[i]
      /\ forwarded'[Len(forwarded) + 1] = web
  <2>1. forwarded \in Seq(Requests) /\ web \in Requests
    BY DEF WireTyped
  <2>2. Len(forwarded) \in Nat
    BY <2>1, LenProperties
  <2> QED BY <1>1, <2>1, <2>2, AppendProperties
<1>4. StreamAt(q, r)'
  BY <1>1, <1>2 DEF StreamAt
<1>5. CASE BetweenRequests(q)
  <2>1. q >= 1 /\ web = Request(q) /\ Forwards(Len(forwarded), q - 1)
    BY <1>1, <1>5 DEF BetweenRequests
  <2>2. \A i \in 1..Len(forwarded') : i \in 1..Len(forwarded) \/ i = Len(forwarded) + 1
    BY <1>3
  <2>3. ASSUME NEW i \in 1..Len(forwarded)
        PROVE  \E m \in 1..(q - 1) : forwarded'[i] = Request(m)
    BY <1>3, <2>1 DEF Forwards
  <2>4. ASSUME NEW i \in 1..Len(forwarded')
        PROVE  \E m \in 1..q : forwarded'[i] = Request(m)
    <3>1. CASE i \in 1..Len(forwarded)
      <4>1. PICK m \in 1..(q - 1) : forwarded'[i] = Request(m)
        BY <2>3, <3>1
      <4>2. m \in 1..q
        BY <1>2
      <4> QED BY <4>1, <4>2
    <3>2. CASE i = Len(forwarded) + 1
      BY <1>3, <2>1, <3>2
    <3> QED BY <2>2, <3>1, <3>2
  <2>5. ASSUME NEW i \in 1..Len(forwarded'), NEW j \in 1..Len(forwarded'), i < j
        PROVE  forwarded'[i][REQUEST_BUF_SIZE].n < forwarded'[j][REQUEST_BUF_SIZE].n
    <3>1. i \in 1..Len(forwarded)
      BY <1>3, <2>2, <2>5
    <3>2. CASE j \in 1..Len(forwarded)
      BY <1>3, <2>1, <2>5, <3>1, <3>2 DEF Forwards
    <3>3. CASE j = Len(forwarded) + 1
      <4>1. forwarded'[j][REQUEST_BUF_SIZE].n = q
        BY <1>3, <2>1, <3>3, LastOfRequest
      <4>2. PICK m \in 1..(q - 1) : forwarded'[i] = Request(m)
        BY <2>3, <3>1
      <4>3. m \in Nat /\ m < q
        OBVIOUS
      <4>4. forwarded'[i][REQUEST_BUF_SIZE].n = m
        BY <4>2, <4>3, LastOfRequest
      <4> QED BY <4>1, <4>3, <4>4
    <3> QED BY <2>2, <3>2, <3>3
  <2>6. Forwards(Len(forwarded), q)'
    <3>1. Len(forwarded') <= q /\ Len(forwarded') \in 0..Len(forwarded')
      BY <1>3, <2>1 DEF Forwards
    <3> QED BY <2>4, <2>5, <3>1 DEF Forwards
  <2>7. BetweenRequests(q)'
    BY <1>1, <2>1, <2>6 DEF BetweenRequests
  <2> QED BY <1>1, <1>2, <1>4, <2>7 DEF Framing
<1>6. CASE InsideRequest(q, r)
  <2>1. r > 0 /\ PieceOf(web, q + 1) /\ Forwards(Len(forwarded), q)
    BY <1>1, <1>6 DEF InsideRequest
  <2>2. Forwards(Len(forwarded) - 1, q)'
    <3>1. Len(forwarded') - 1 = Len(forwarded) /\ Len(forwarded) \in 0..Len(forwarded')
      BY <1>3
    <3> QED BY <1>3, <2>1, <3>1 DEF Forwards
  <2>3. Len(forwarded') > 0 /\ forwarded'[Len(forwarded')] = web'
    BY <1>1, <1>3
  <2>4. InsideRequest(q, r)'
    BY <1>1, <2>1, <2>2, <2>3 DEF InsideRequest, PieceOf
  <2> QED BY <1>1, <1>2, <1>4, <2>4 DEF Framing
<1> QED BY <1>2, <1>5, <1>6

\* A step that leaves the requests alone.
LEMMA FramingKept ==
  ASSUME NEW q, NEW r, UNCHANGED <<web, scheduled, forwarded>>,
         BetweenRequests(q) \/ InsideRequest(q, r)
  PROVE  (BetweenRequests(q) \/ InsideRequest(q, r))'
BY DEF BetweenRequests, InsideRequest, PieceOf, Forwards

LEMMA FramingStep ==
  ASSUME WireTyped, Framing, [Next]_vars
  PROVE  Framing'
<1> SUFFICES ASSUME state' = "open", ~Mistakable' PROVE Framing'
  BY DEF Framing
<1>0. state = "open" /\ ~Mistakable
  <2>1. state = "open"
    BY DEF Next, ClientSends, OnRequest, DoDistribute, UpstreamReplies, OnGotUpstreamResponse, vars
  <2> QED BY <2>1, MistakableStays
<1>1. PICK q \in Nat, r \in Nat : /\ StreamAt(q, r) /\ (~torn => r = 0)
                                  /\ BetweenRequests(q) \/ InsideRequest(q, r)
  BY <1>0 DEF Framing
<1>2. CASE ClientSends
  <2>1. /\ sent' = sent + 1 /\ toCore' = toCore \o Request(sent + 1)
        /\ UNCHANGED <<web, scheduled, forwarded, torn>>
    BY <1>2, QueriesGrow DEF ClientSends, requestVars, upstreamVars
  <2>2. StreamAt(q, r)'
    BY <1>1, <2>1, StreamGrows
  <2> QED BY <1>1, <2>1, <2>2, FramingKept DEF Framing
<1>3. CASE OnRequest
  BY <1>0, <1>1, <1>3, FramingOnRequest
<1>4. CASE DoDistribute
  BY <1>4, FramingDoDistribute
<1>5. CASE UNCHANGED <<sent, toCore, web, scheduled, forwarded>> /\ (torn => torn')
  <2>1. StreamAt(q, r)'
    BY <1>1, <1>5 DEF StreamAt
  <2> QED BY <1>1, <1>5, <2>1, FramingKept DEF Framing
<1>6. UpstreamReplies => UNCHANGED <<sent, toCore, web, scheduled, forwarded>> /\ (torn => torn')
  BY DEF UpstreamReplies, clientVars, requestVars, sent
<1>7. OnGotUpstreamResponse => UNCHANGED <<sent, toCore, web, scheduled, forwarded>> /\ (torn => torn')
  BY DEF OnGotUpstreamResponse, clientVars, requestVars, sent
<1>8. UNCHANGED vars => UNCHANGED <<sent, toCore, web, scheduled, forwarded>> /\ (torn => torn')
  BY DEF vars, clientVars, requestVars, upstreamVars, sent
<1> QED BY <1>2, <1>3, <1>4, <1>5, <1>6, <1>7, <1>8 DEF Next

IsOpen == state = "open"

LEMMA FramingIsWhole == WireTyped /\ Framing /\ IsOpen => WholeThenShut
<1> SUFFICES ASSUME WireTyped, Framing, state = "open", ~Mistakable PROVE WholeThenShut
  BY DEF IsOpen, WholeThenShut
<1>1. PICK q \in Nat, r \in Nat : StreamAt(q, r) /\ (BetweenRequests(q) \/ InsideRequest(q, r))
  BY DEF Framing
<1>2. /\ q <= sent /\ sent \in Nat /\ (r > 0 => q + 1 \in 1..sent)
      /\ Len(forwarded) \in Nat
  <2>1. sent \in Nat
    BY SizesAre DEF WireTyped
  <2>2. Len(forwarded) \in Nat
    BY LenProperties DEF WireTyped
  <2> QED BY <1>1, <2>1, <2>2 DEF StreamAt
<1> DEFINE Whole(i) == \E m \in 1..sent : forwarded[i] = Request(m)
           Piece(i) == \E m \in 1..sent, k \in 1..REQUEST_BUF_SIZE :
                    \E old \in {Unset} \cup {Request(o) : o \in 1..(m - 1)} :
                      forwarded[i] = Overwritten(old, Request(m), k)
           InOrder == \A i, j \in 1..(Len(forwarded) - 1) : i < j =>
                 forwarded[i][REQUEST_BUF_SIZE].n < forwarded[j][REQUEST_BUF_SIZE].n
<1>3. ASSUME NEW l, NEW b \in Nat, Forwards(l, b), b <= q, l >= Len(forwarded) - 1
      PROVE  (\A i \in 1..(Len(forwarded) - 1) : Whole(i)) /\ InOrder
  <2>1. 1..(Len(forwarded) - 1) \subseteq 1..l /\ 1..b \subseteq 1..sent
    BY <1>2, <1>3 DEF Forwards
  <2> QED BY <1>3, <2>1 DEF Forwards
<1>4. ASSUME NEW b \in Nat, Forwards(Len(forwarded), b), b <= q, Len(forwarded) > 0
      PROVE  Whole(Len(forwarded))
  <2>1. Len(forwarded) \in 1..Len(forwarded) /\ 1..b \subseteq 1..sent
    BY <1>2, <1>4
  <2> QED BY <1>4, <2>1 DEF Forwards
<1>5. /\ \A i \in 1..(Len(forwarded) - 1) : Whole(i)
      /\ InOrder
      /\ Len(forwarded) > 0 => Whole(Len(forwarded)) \/ Piece(Len(forwarded))
  <2>1. CASE BetweenRequests(q)
    <3>1. PICK b \in Nat : Forwards(Len(forwarded), b) /\ b <= q
      <4>1. scheduled => q - 1 \in Nat /\ q - 1 <= q /\ Forwards(Len(forwarded), q - 1)
        BY <2>1 DEF BetweenRequests
      <4>2. ~scheduled => Forwards(Len(forwarded), q) /\ q <= q
        BY <2>1 DEF BetweenRequests
      <4> QED BY <4>1, <4>2
    <3>2. Len(forwarded) >= Len(forwarded) - 1
      BY <1>2
    <3> QED BY <1>3, <1>4, <3>1, <3>2
  <2>2. CASE InsideRequest(q, r) /\ scheduled
    <3>1. Forwards(Len(forwarded), q) /\ q <= q /\ Len(forwarded) >= Len(forwarded) - 1
      BY <1>2, <2>2 DEF InsideRequest
    <3> QED BY <1>3, <1>4, <3>1
  <2>3. CASE InsideRequest(q, r) /\ ~scheduled
    <3>1. /\ Forwards(Len(forwarded) - 1, q) /\ q <= q /\ Len(forwarded) - 1 >= Len(forwarded) - 1
          /\ PieceOf(forwarded[Len(forwarded)], q + 1) /\ r > 0
      BY <1>2, <2>3 DEF InsideRequest
    <3>2. Piece(Len(forwarded))
      BY <1>2, <3>1 DEF PieceOf
    <3> QED BY <1>3, <3>1, <3>2
  <2> QED BY <1>1, <2>1, <2>2, <2>3
<1> QED BY <1>5 DEF WholeThenShut

LEMMA WholeStep ==
  ASSUME WireTyped, Framing, WholeThenShut, [Next]_vars
  PROVE  WholeThenShut'
<1>0. Mistakable => Mistakable'
  BY MistakableStays
<1>1. (WireTyped' /\ Framing') \/ UNCHANGED <<sent, forwarded>>
  <2>1. CASE DoDistribute
    BY <2>1, DoDistributeTyped, FramingStep
  <2>2. CASE ClientSends
    BY <2>2, ClientSendsTyped, FramingStep
  <2>3. (OnRequest \/ UpstreamReplies \/ OnGotUpstreamResponse \/ UNCHANGED vars)
           => UNCHANGED <<sent, forwarded>>
    BY DEF OnRequest, UpstreamReplies, OnGotUpstreamResponse, vars, clientVars, upstreamVars, sent
  <2> QED BY <2>1, <2>2, <2>3 DEF Next
<1>2. CASE UNCHANGED <<sent, forwarded>>
  BY <1>0, <1>2 DEF WholeThenShut
<1>3. CASE state' = "open" /\ WireTyped' /\ Framing'
  <2>1. IsOpen'
    BY <1>3 DEF IsOpen
  <2> QED BY <1>3, <2>1, FramingIsWhole, PTL
<1>4. CASE state' # "open" /\ ~UNCHANGED <<sent, forwarded>>
  <2>1. ASSUME ClientSends PROVE state' = "open"
    BY <2>1 DEF ClientSends
  <2>2. ASSUME DoDistribute PROVE state' = "open" \/ UNCHANGED <<sent, forwarded>>
    BY <2>2 DEF DoDistribute, clientVars, sent
  <2>3. (OnRequest \/ UpstreamReplies \/ OnGotUpstreamResponse \/ UNCHANGED vars)
           => UNCHANGED <<sent, forwarded>>
    BY DEF OnRequest, UpstreamReplies, OnGotUpstreamResponse, vars, clientVars, upstreamVars, sent
  <2> QED BY <1>4, <2>1, <2>2, <2>3 DEF Next
<1> QED BY <1>1, <1>2, <1>3, <1>4

\* What the upstream is given are whole requests, in the order the client sent
\* them, save perhaps the last, of which only a piece came: however the stream is
\* cut into reads, for requests and magics of any length, unless it is cut and a
\* query has the byte a magic begins with.
THEOREM WholeThenShutCorrect == Spec => []WholeThenShut
<1>1. Init => WireTyped /\ HeldFits /\ Framing /\ WholeThenShut
  <2>1. Init => WireTyped /\ HeldFits /\ Framing /\ IsOpen
    BY InitTyped, HeldFitsInit, FramingInit DEF Init, IsOpen
  <2> QED BY <2>1, FramingIsWhole
<1>2. (WireTyped /\ HeldFits /\ Framing /\ WholeThenShut) /\ [Next]_vars
        => (WireTyped /\ HeldFits /\ Framing /\ WholeThenShut)'
  BY WireTypedStep, FramingStep, WholeStep
<1> QED BY <1>1, <1>2, PTL DEF Spec

(***************************************************************************)
(* The bounds of the buffers.                                              *)
(***************************************************************************)

\* What a client that waits for its answers keeps: one request at a time, and
\* nothing is held when its answer is read; and what reads that end with a reply
\* leave.
Waits ==
  state = "open" =>
    /\ Len(answers) = IF reading THEN Len(forwarded) - 1 ELSE Len(forwarded)
    /\ ~hasty /\ ~Mistakable =>
         /\ sent <= Len(answers) + 1
         /\ reading \/ scheduled => len = 0
         /\ ~(reading /\ scheduled)
    /\ ~torn => fromUp = <<>> \/ Len(fromUp) >= HEAD

LEMMA WaitsInit == Init => Waits
<1>1. ASSUME Init PROVE ~reading /\ ~scheduled
  BY <1>1, Zenon DEF Init
<1>2. Init => Len(answers) = 0 /\ Len(forwarded) = 0 /\ sent = 0 /\ fromUp = <<>> /\ len = 0
  BY DEF Init, sent
<1> QED BY <1>1, <1>2 DEF Waits

LEMMA WaitsStep ==
  ASSUME WireTyped, HeldFits, Framing, Waits, [Next]_vars
  PROVE  Waits'
<1> SUFFICES ASSUME state' = "open" PROVE Waits'
  BY DEF Waits
<1>1. state = "open"
  BY DEF Next, ClientSends, OnRequest, DoDistribute, UpstreamReplies, OnGotUpstreamResponse, vars
<1>2. /\ Len(answers) \in Nat /\ Len(forwarded) \in Nat /\ sent \in Nat /\ len \in Nat
      /\ Len(fromUp) \in Nat /\ fromUp \in Seq(CellSet) /\ HEAD = 2
  BY SizesAre, LenProperties DEF WireTyped
<1>3. /\ Len(answers) = IF reading THEN Len(forwarded) - 1 ELSE Len(forwarded)
      /\ ~hasty /\ ~Mistakable =>
           /\ sent <= Len(answers) + 1
           /\ reading \/ scheduled => len = 0
           /\ ~(reading /\ scheduled)
      /\ ~torn => fromUp = <<>> \/ Len(fromUp) >= HEAD
  BY <1>1 DEF Waits
<1>0. Mistakable => Mistakable'
  BY MistakableStays
<1>4. CASE ClientSends
  <2>1. /\ sent' = sent + 1 /\ hasty' = (hasty \/ Len(answers) < sent)
        /\ UNCHANGED <<answers, forwarded, reading, scheduled, len, torn, fromUp>>
    BY <1>4, QueriesGrow DEF ClientSends, requestVars, upstreamVars, responseVars
  <2>2. ~hasty' => ~hasty /\ sent' <= Len(answers) + 1
    <3>1. ~hasty' => ~hasty /\ ~(Len(answers) < sent)
      BY <2>1, Zenon
    <3>2. ~(Len(answers) < sent) => sent' <= Len(answers) + 1
      BY <1>2, <2>1
    <3> QED BY <3>1, <3>2
  <2> QED BY <1>0, <1>3, <2>1, <2>2 DEF Waits
<1>5. CASE OnRequest
  <2>1. UNCHANGED <<sent, hasty, forwarded, fromUp, reading, answers>>
    BY <1>5 DEF OnRequest, upstreamVars, sent
  <2>2. torn => torn'
    BY <1>5 DEF OnRequest
  <2>3. ASSUME ~hasty, ~Mistakable'
        PROVE  len' = 0 /\ ~reading
    <3>1. PICK q \in Nat, r \in Nat : /\ StreamAt(q, r) /\ (~torn => r = 0)
                                      /\ BetweenRequests(q) \/ InsideRequest(q, r)
      BY <1>0, <1>1, <2>3 DEF Framing
    <3>2. BetweenRequests(q) /\ q < sent /\ len' = 0
      BY <1>1, <1>5, <2>3, <3>1, FramingOnRequest
    <3>3. Len(forwarded) <= q
      BY <1>2, <3>1, <3>2 DEF BetweenRequests, Forwards
    <3>4. ~reading
      BY <1>0, <1>2, <1>3, <2>3, <3>1, <3>2, <3>3
    <3> QED BY <3>2, <3>4
  <2> QED BY <1>0, <1>3, <2>1, <2>2, <2>3 DEF Waits
<1>6. CASE DoDistribute
  <2>1. /\ scheduled /\ scheduled' = FALSE /\ ~reading /\ reading' = TRUE
        /\ forwarded' = Append(forwarded, web)
        /\ UNCHANGED <<sent, hasty, fromUp, len, answers, torn>>
    BY <1>1, <1>6 DEF DoDistribute, clientVars, responseVars, sent
  <2>2. Len(forwarded') = Len(forwarded) + 1
    BY <2>1 DEF WireTyped
  <2>3. Len(answers') = Len(forwarded') - 1
    BY <1>2, <1>3, <2>1, <2>2
  <2> QED BY <1>0, <1>3, <2>1, <2>3 DEF Waits
<1>7. CASE UpstreamReplies
  <2>1. UNCHANGED <<answers, forwarded, reading, scheduled, len, torn, sent, hasty>>
    BY <1>7 DEF UpstreamReplies, clientVars, requestVars, responseVars, sent
  <2>2. PICK size \in Bodies : fromUp' = fromUp \o Reply(replied + 1, size)
    BY <1>7 DEF UpstreamReplies
  <2>3. replied + 1 \in Nat /\ size \in Nat
    BY <1>2, SizesAre DEF WireTyped
  <2>4. Reply(replied + 1, size) \in Seq(CellSet) /\ Len(Reply(replied + 1, size)) = HEAD + size
    BY <2>3, ReplyIs
  <2>5. Len(fromUp') = Len(fromUp) + (HEAD + size)
    <3>1. Len(fromUp \o Reply(replied + 1, size)) = Len(fromUp) + Len(Reply(replied + 1, size))
      BY <1>2, <2>4, ConcatProperties
    <3> QED BY <2>2, <2>4, <3>1
  <2>6. Len(fromUp') >= HEAD
    BY <1>2, <2>3, <2>5
  <2> QED BY <1>0, <1>3, <2>1, <2>6 DEF Waits
<1>8. CASE OnGotUpstreamResponse
  <2>1. PICK n \in 1..Len(fromUp) :
              /\ fromUp' = SubSeq(fromUp, n + 1, Len(fromUp))
              /\ torn' = (torn \/ n # Len(fromUp))
              /\ OutOfBounds(n) \/ Answered(n)
    BY <1>8, GotIs
  <2>2. /\ reading /\ reading' = FALSE /\ UNCHANGED <<sent, hasty, scheduled, forwarded>>
    BY <1>8, GotIs
  <2>3. Answered(n)
    BY <2>1 DEF OutOfBounds
  <2>4. Len(answers') = Len(answers) + 1
    BY <2>3 DEF Answered, WireTyped
  <2>5. Len(answers') = Len(forwarded')
    BY <1>2, <1>3, <2>2, <2>4
  <2>6. ~torn' => fromUp' = <<>>
    <3>1. SUFFICES ASSUME n = Len(fromUp) PROVE fromUp' = <<>>
      BY <2>1
    <3>2. Len(fromUp') = 0 /\ fromUp' \in Seq(CellSet)
      BY <1>2, <2>1, <3>1, ReadIs
    <3> QED BY <3>2, EmptySeq
  <2>7. sent <= Len(answers) + 1 => sent <= Len(answers') + 1
    BY <1>2, <2>4
  <2> QED BY <1>0, <1>3, <2>2, <2>5, <2>6, <2>7 DEF Waits
<1>9. CASE UNCHANGED vars
  BY <1>0, <1>9 DEF Waits, vars, clientVars, requestVars, upstreamVars, responseVars, sent
<1> QED BY <1>4, <1>5, <1>6, <1>7, <1>8, <1>9 DEF Next

LEMMA StaysInsideStep ==
  ASSUME WireTyped, HeldFits, Framing, Waits, StaysInside, [Next]_vars
  PROVE  StaysInside'
<1>1. CASE OnGotUpstreamResponse
  <2>1. PICK n \in 1..Len(fromUp) :
              /\ n <= HEAD + RESPONSE_BUF_SIZE
              /\ torn' = (torn \/ n # Len(fromUp))
              /\ past' = Excess(n) /\ Excess(n) \in Nat
              /\ OutOfBounds(n) \/ Answered(n)
    BY <1>1, GotIs
  <2>2. state = "open" /\ reading /\ hasty' = hasty
    BY <1>1, GotIs
  <2>3. /\ n \in Nat /\ len \in Nat /\ Len(fromUp) \in Nat /\ HEAD = 2 /\ RESPONSE_BUF_SIZE \in Nat
        /\ len <= RESPONSE_BUF_SIZE /\ RESPONSE_BUF_SIZE >= HEAD
    BY <2>2, SizesAre, LenProperties DEF WireTyped, HeldFits
  <2>4. past' <= HEAD
    BY <2>1, <2>3 DEF Excess
  <2>5. ~hasty /\ ~Mistakable => past' = 0
    <3>1. ~hasty /\ ~Mistakable => len = 0
      BY <2>2 DEF Waits
    <3> QED BY <2>1, <2>3, <3>1 DEF Excess
  <2>7. past' > 0 => hasty' \/ Mistakable'
    BY <2>2, <2>3, <2>5, MistakableStays
  <2>6. state' = "undefined" => torn' \/ hasty
    <3>1. SUFFICES ASSUME OutOfBounds(n), ~hasty, ~torn' PROVE FALSE
      BY <2>1 DEF Answered
    <3>2. n = Len(fromUp) /\ ~torn
      BY <2>1, <3>1
    <3>3. n < HEAD
      BY <2>1, <2>5, <3>1, <3>2 DEF OutOfBounds, Mistakable
    <3>4. fromUp = <<>> \/ Len(fromUp) >= HEAD
      BY <2>2, <3>2 DEF Waits
    <3>5. Len(<<>>) = 0
      OBVIOUS
    <3> QED BY <2>1, <2>3, <3>2, <3>3, <3>4, <3>5
  <2> QED BY <2>2, <2>4, <2>6, <2>7 DEF StaysInside
<1>2. CASE ClientSends \/ OnRequest \/ DoDistribute \/ UpstreamReplies
  <2>1. past' = past /\ state = "open" /\ state' # "undefined"
    BY <1>2 DEF ClientSends, OnRequest, DoDistribute, UpstreamReplies, responseVars
  <2>2. past = 0 /\ HEAD = 2
    BY <2>1, SizesAre DEF WireTyped
  <2> QED BY <2>1, <2>2 DEF StaysInside
<1>3. CASE UNCHANGED vars
  BY <1>3, MistakableStays DEF StaysInside, vars, clientVars, responseVars
<1> QED BY <1>1, <1>2, <1>3 DEF Next

\* The program leaves its buffers only when a reply was cut or a client did not
\* wait; and a read goes at most the length of a head behind upstream_response,
\* only when a client did not wait or the rest of a request could be taken for
\* another: for buffers of any size that is at least a head's, and bodies of any
\* length.
THEOREM StaysInsideCorrect == Spec => []StaysInside
<1>1. Init => WireTyped /\ HeldFits /\ Framing /\ Waits /\ StaysInside
  <2>1. Init => StaysInside
    <3>1. Init => past = 0 /\ state = "open" /\ HEAD = 2
      BY SizesAre DEF Init
    <3> QED BY <3>1 DEF StaysInside
  <2> QED BY <2>1, InitTyped, HeldFitsInit, FramingInit, WaitsInit
<1>2. (WireTyped /\ HeldFits /\ Framing /\ Waits /\ StaysInside) /\ [Next]_vars
        => (WireTyped /\ HeldFits /\ Framing /\ Waits /\ StaysInside)'
  BY WireTypedStep, FramingStep, WaitsStep, StaysInsideStep
<1> QED BY <1>1, <1>2, PTL DEF Spec

(***************************************************************************)
(* Answers and replies.                                                    *)
(***************************************************************************)
IsBodyOf(cells, n) ==
  \/ cells = Body(n, Len(cells))
  \/ Len(cells) > HEAD /\ \A k \in DOMAIN cells : cells[k] = Junk

IsReplyOf(count, cells, n) ==
  Len(cells) \in Bodies /\ count = Reply(n, Len(cells))[1] /\ IsBodyOf(cells, n)

Held == [k \in 1..len |-> buf[k]]

\* While reads end with their replies: the upstream is at most one reply ahead
\* of what is read, and upstream_response has nothing, or the answer before, when
\* the next reply comes.
WholeReplies ==
  ~torn /\ state = "open" =>
    /\ reading => \/ replied = Len(forwarded) - 1 /\ fromUp = <<>>
                  \/ /\ replied = Len(forwarded)
                     /\ \E size \in Bodies : fromUp = Reply(Len(forwarded), size)
    /\ ~reading => replied = Len(forwarded) /\ fromUp = <<>>
    /\ reading \/ scheduled =>
         \/ counts = <<>> /\ len = 0
         \/ /\ hasty /\ Len(counts) = 1
            /\ IsReplyOf(counts[1], Held, Len(answers))
    /\ reading /\ scheduled => counts = <<>> /\ len = 0

LEMMA WholeRepliesInit == Init => WholeReplies
<1>1. ASSUME Init PROVE ~reading /\ ~scheduled
  BY <1>1, Zenon DEF Init
<1>2. Init => Len(forwarded) = 0 /\ replied = 0 /\ fromUp = <<>>
  BY DEF Init
<1> QED BY <1>1, <1>2 DEF WholeReplies

\* What a read of a whole reply adds to upstream_response.
LEMMA WholeReplyGot ==
  ASSUME WireTyped, HeldFits, OnGotUpstreamResponse,
         NEW n \in 1..Len(fromUp), n <= HEAD + RESPONSE_BUF_SIZE, Answered(n), n = Len(fromUp),
         NEW i \in Nat, NEW size \in Nat, fromUp = Reply(i, size)
  PROVE  /\ data' = Cell("data", i, 1)
         /\ Len(counts') = Len(counts) + 1 /\ counts'[Len(counts) + 1] = Reply(i, size)[1]
         /\ \A k \in 1..Len(counts) : counts'[k] = counts[k]
         /\ len' = len + size /\ \A k \in 1..len : buf'[k] = buf[k]
         /\ \/ \A k \in 1..size : buf'[len + k] = Cell("body", i, k)
            \/ size > HEAD /\ \A k \in 1..size : buf'[len + k] = Junk
<1>1. /\ len \in Nat /\ HEAD = 2 /\ RESPONSE_BUF_SIZE \in Nat /\ n = HEAD + size
      /\ Places = 1..(2 * RESPONSE_BUF_SIZE)
      /\ counts \in Seq(CellSet) /\ Len(counts) \in Nat
  <2>1. n = HEAD + size
    BY ReplyIs
  <2> QED BY <2>1, SizesAre, PlacesAre, LenProperties DEF WireTyped
<1>2. /\ len + n <= 2 * RESPONSE_BUF_SIZE /\ len + 1 \in Places /\ len + 2 \in Places
  BY AnsweredTyped
<1>3. /\ Filled(n) \in [Places -> CellSet]
      /\ \A k \in Places : Filled(n)[k] = IF k \in (len + 1)..(len + n) THEN fromUp[k - len]
                                          ELSE buf[k]
  BY FilledIs
<1>4. /\ fromUp[1] = Cell(IF size > 0 THEN "some" ELSE "none", i, 1)
      /\ fromUp[2] = Cell("data", i, 1)
      /\ \A k \in 1..size : fromUp[k + HEAD] = Cell("body", i, k)
  BY ReplyIs
<1>5. /\ Filled(n)[len + 1] = Cell(IF size > 0 THEN "some" ELSE "none", i, 1)
      /\ Filled(n)[len + 2] = Cell("data", i, 1)
  <2>1. len + 1 \in (len + 1)..(len + n) /\ (len + 1) - len = 1
    BY <1>1
  <2>2. len + 2 \in (len + 1)..(len + n) /\ (len + 2) - len = 2
    BY <1>1
  <2>3. Filled(n)[len + 1] = fromUp[1]
    BY <1>2, <1>3, <2>1
  <2>4. Filled(n)[len + 2] = fromUp[2]
    BY <1>2, <1>3, <2>2
  <2> QED BY <1>4, <2>3, <2>4
<1>6. /\ data' = Cell("data", i, 1)
      /\ Len(counts') = Len(counts) + 1 /\ counts'[Len(counts) + 1] = Reply(i, size)[1]
      /\ \A k \in 1..Len(counts) : counts'[k] = counts[k]
  <2>1. data' = Cell("data", i, 1) /\ counts' = Append(counts, Filled(n)[len + 1])
    BY <1>5 DEF Answered
  <2>2. Filled(n)[len + 1] \in CellSet /\ Filled(n)[len + 1] = Reply(i, size)[1]
    BY <1>2, <1>3, <1>4, <1>5
  <2> QED BY <1>1, <2>1, <2>2, AppendProperties
<1>7. \A k \in 1..len : k \in Places /\ k \notin (len + 1)..(len + n) /\ k \notin (len + 1)..(len + size)
  BY <1>1, <1>2
<1>8. \A k \in 1..size : /\ len + k \in (len + 1)..(len + size) /\ len + k \in Places
                         /\ (len + k) + HEAD \in (len + 1)..(len + n)
                         /\ (len + k) + HEAD \in Places
                         /\ ((len + k) + HEAD) - len = k + HEAD
  BY <1>1, <1>2
<1>9. \A k \in 1..size : Filled(n)[(len + k) + HEAD] = Cell("body", i, k)
  BY <1>3, <1>4, <1>8
<1>10. CASE size > 0
  <2>1. FALSE \notin Returned(Filled(n)[len + 1])
    <3>1. Filled(n)[len + 1].kind = "some"
      BY <1>5, <1>10 DEF Cell
    <3> QED BY <3>1 DEF Returned
  <2>2. buf' \in Moved(Filled(n), n - HEAD) /\ len' = len + (n - HEAD)
    BY <2>1 DEF Answered
  <2>3. buf' \in Moved(Filled(n), size) /\ len' = len + size
    <3>1. n - HEAD = size
      BY <1>1
    <3> QED BY <2>2, <3>1
  <2>4. len + size + HEAD <= 2 * RESPONSE_BUF_SIZE
    BY <1>1, <1>2
  <2>5. /\ \A k \in Places : k \notin (len + 1)..(len + size) => buf'[k] = Filled(n)[k]
        /\ \/ \A k \in (len + 1)..(len + size) : buf'[k] = Filled(n)[k + HEAD]
           \/ size > HEAD /\ \A k \in (len + 1)..(len + size) : buf'[k] = Junk
    BY <1>3, <2>3, <2>4, MovedIs
  <2>6. \A k \in 1..len : buf'[k] = buf[k]
    BY <1>3, <1>7, <2>5
  <2>7. \/ \A k \in 1..size : buf'[len + k] = Cell("body", i, k)
        \/ size > HEAD /\ \A k \in 1..size : buf'[len + k] = Junk
    BY <1>8, <1>9, <2>5
  <2> QED BY <1>6, <2>3, <2>6, <2>7
<1>11. CASE size = 0
  <2>1. TRUE \notin Returned(Filled(n)[len + 1])
    <3>1. Filled(n)[len + 1].kind = "none"
      BY <1>5, <1>11 DEF Cell
    <3> QED BY <3>1 DEF Returned
  <2>2. buf' = Filled(n) /\ len' = len
    BY <2>1 DEF Answered
  <2>3. \A k \in 1..len : buf'[k] = buf[k]
    BY <1>3, <1>7, <2>2
  <2> QED BY <1>1, <1>6, <1>11, <2>2, <2>3
<1> QED BY <1>10, <1>11

LEMMA BodyIs ==
  ASSUME NEW i \in Nat, NEW size \in Nat, NEW cells \in Seq(CellSet), Len(cells) = size,
         \/ \A k \in 1..size : cells[k] = Cell("body", i, k)
         \/ size > HEAD /\ \A k \in 1..size : cells[k] = Junk
  PROVE  IsBodyOf(cells, i)
<1>1. DOMAIN cells = 1..size /\ cells \in [1..size -> CellSet]
  BY LenProperties
<1>2. CASE \A k \in 1..size : cells[k] = Cell("body", i, k)
  <2>1. "body" \in Kinds
    BY DEF Kinds
  <2>2. Body(i, size) \in [1..size -> CellSet] /\ \A k \in 1..size : Body(i, size)[k] = Cell("body", i, k)
    BY <2>1, CellsAre DEF Body
  <2>3. \A f, g \in [1..size -> CellSet] : (\A k \in 1..size : f[k] = g[k]) => f = g
    BY SameFunction
  <2>4. \A k \in 1..size : cells[k] = Body(i, size)[k]
    BY <1>2, <2>2
  <2>5. cells = Body(i, size)
    BY <1>1, <2>2, <2>3, <2>4, Zenon
  <2> QED BY <2>5 DEF IsBodyOf
<1>3. CASE size > HEAD /\ \A k \in 1..size : cells[k] = Junk
  BY <1>1, <1>3 DEF IsBodyOf
<1> QED BY <1>2, <1>3

\* What AnswerEndsInOwnReply says of answer i.
OwnAnswer(a, i) ==
  /\ a.data = Cell("data", i, 1)
  /\ \/ Len(a.counts) = 1 /\ IsReplyOf(a.counts[1], a.body, i)
     \/ /\ hasty /\ Len(a.counts) = 2
        /\ \E cut \in 0..Len(a.body) :
             /\ IsReplyOf(a.counts[1], SubSeq(a.body, 1, cut), i - 1)
             /\ IsReplyOf(a.counts[2], SubSeq(a.body, cut + 1, Len(a.body)), i)

OwnAnswers == ~torn => \A i \in 1..Len(answers) : OwnAnswer(answers[i], i)

LEMMA AnswersAreOwn == WireTyped /\ OwnAnswers => AnswerEndsInOwnReply
<1>1. WireTyped => DOMAIN answers = 1..Len(answers)
  BY LenProperties DEF WireTyped
<1> QED BY <1>1 DEF AnswerEndsInOwnReply, OwnAnswers, OwnAnswer, IsBodyOf, IsReplyOf

\* An answer that a whole reply makes.
LEMMA OwnAnswerGot ==
  ASSUME WireTyped, HeldFits, WholeReplies, OnGotUpstreamResponse, ~torn,
         NEW n \in 1..Len(fromUp), n <= HEAD + RESPONSE_BUF_SIZE, Answered(n), n = Len(fromUp),
         Len(answers) = Len(forwarded) - 1
  PROVE  /\ replied = Len(forwarded)
         /\ OwnAnswer([counts |-> counts', data |-> data', body |-> [k \in 1..len' |-> buf'[k]]],
                      Len(forwarded))
         /\ scheduled => /\ Len(counts') = 1
                         /\ IsReplyOf(counts'[1], [k \in 1..len' |-> buf'[k]], Len(forwarded))
<1> DEFINE i == Len(forwarded)
           body == [k \in 1..len' |-> buf'[k]]
           a == [counts |-> counts', data |-> data', body |-> body]
<1>1. state = "open" /\ reading
  BY GotIs
<1>2. /\ i \in Nat /\ i >= 1 /\ len \in Nat /\ HEAD = 2
      /\ counts \in Seq(CellSet) /\ Len(counts) \in Nat
  BY <1>1, SizesAre, LenProperties DEF WireTyped
<1> HIDE DEF i
<1>3. /\ replied = i
      /\ \E size \in Bodies : fromUp = Reply(i, size)
  <2>1. fromUp # <<>>
    <3>1. Len(<<>>) = 0 /\ ~(n \in 1..0)
      OBVIOUS
    <3> QED BY <3>1
  <2> QED BY <1>1, <2>1 DEF WholeReplies, i
<1>4. PICK size \in Nat : size \in Bodies /\ fromUp = Reply(i, size)
  BY <1>3, SizesAre
<1>5. /\ data' = Cell("data", i, 1)
      /\ Len(counts') = Len(counts) + 1 /\ counts'[Len(counts) + 1] = Reply(i, size)[1]
      /\ \A k \in 1..Len(counts) : counts'[k] = counts[k]
      /\ len' = len + size /\ \A k \in 1..len : buf'[k] = buf[k]
      /\ \/ \A k \in 1..size : buf'[len + k] = Cell("body", i, k)
         \/ size > HEAD /\ \A k \in 1..size : buf'[len + k] = Junk
  BY <1>2, <1>4, WholeReplyGot
<1>6. /\ body \in Seq(CellSet) /\ Len(body) = len + size
      /\ \A k \in 1..(len + size) : body[k] = buf'[k]
  <2>1. len' \in Nat /\ buf' \in [Places -> CellSet] /\ len + n <= 2 * RESPONSE_BUF_SIZE /\ n \in Nat
        /\ len' <= len + n
    BY AnsweredTyped, LenProperties DEF WireTyped
  <2>2. \A k \in 1..len' : k \in Places
    BY <1>2, <2>1, PlacesAre
  <2>3. body \in [1..len' -> CellSet]
    BY <2>1, <2>2
  <2>4. \A k \in 1..len' : body[k] = buf'[k]
    OBVIOUS
  <2> HIDE DEF body
  <2> QED BY <1>5, <2>1, <2>3, <2>4, LenOf
<1>7. \/ counts = <<>> /\ len = 0
      \/ /\ hasty /\ Len(counts) = 1
         /\ IsReplyOf(counts[1], Held, Len(answers)) /\ ~scheduled
  BY <1>1 DEF WholeReplies
<1> HIDE DEF body
<1>8. CASE counts = <<>> /\ len = 0
  <2>1. Len(counts') = 1 /\ counts'[1] = Reply(i, size)[1]
    <3>1. Len(<<>>) = 0 /\ 0 + 1 = 1
      OBVIOUS
    <3> QED BY <1>5, <1>8, <3>1
  <2>2. Len(body) = size
        /\ \A k \in 1..size : body[k] = buf'[k] /\ len + k = k
    BY <1>6, <1>8
  <2>3. \/ \A k \in 1..size : body[k] = Cell("body", i, k)
        \/ size > HEAD /\ \A k \in 1..size : body[k] = Junk
    BY <1>5, <2>2
  <2>4. IsReplyOf(counts'[1], body, i)
    <3>1. IsBodyOf(body, i)
      BY <1>2, <1>6, <2>2, <2>3, BodyIs
    <3> QED BY <1>4, <2>1, <2>2, <3>1 DEF IsReplyOf
  <2>5. OwnAnswer(a, i)
    BY <1>5, <2>1, <2>4 DEF OwnAnswer
  <2> QED BY <1>3, <2>1, <2>4, <2>5 DEF i, body
<1>9. CASE /\ hasty /\ Len(counts) = 1
           /\ IsReplyOf(counts[1], Held, Len(answers)) /\ ~scheduled
  <2>1. Len(counts') = 2 /\ counts'[1] = counts[1] /\ counts'[2] = Reply(i, size)[1]
    <3>1. 1 \in 1..Len(counts) /\ 1 + 1 = 2
      BY <1>9
    <3> QED BY <1>5, <1>9, <3>1
  <2>2. SubSeq(body, 1, len) = Held
    <3>1. /\ SubSeq(body, 1, len) \in Seq(CellSet)
          /\ Len(SubSeq(body, 1, len)) = len
          /\ \A k \in 1..len : SubSeq(body, 1, len)[k] = body[k]
      <4>1. \A k \in 1..len : body[k] \in CellSet
        <5>1. \A k \in 1..len : k \in 1..Len(body)
          BY <1>2, <1>6
        <5> QED BY <1>6, <5>1, ElementOfSeq
      <4>2. 1 \in Int /\ len \in Int
        BY <1>2
      <4>3. /\ SubSeq(body, 1, len) \in Seq(CellSet)
            /\ Len(SubSeq(body, 1, len)) = IF 1 <= len THEN len - 1 + 1 ELSE 0
            /\ \A k \in 1..(len - 1 + 1) : SubSeq(body, 1, len)[k] = body[1 + k - 1]
        BY <4>1, <4>2, SubSeqProperties
      <4>4. /\ len - 1 + 1 = len
            /\ (IF 1 <= len THEN len - 1 + 1 ELSE 0) = len
            /\ \A k \in 1..len : 1 + k - 1 = k
        BY <1>2
      <4> QED BY <4>3, <4>4
    <3>2. SubSeq(body, 1, len) \in [1..len -> CellSet]
      BY <3>1, LenProperties
    <3>3. \A k \in 1..len : k \in 1..(len + size)
      BY <1>2
    <3>4. \A k \in 1..len : SubSeq(body, 1, len)[k] = buf[k]
      BY <1>5, <1>6, <3>1, <3>3
    <3>5. Held \in [1..len -> CellSet] /\ \A k \in 1..len : Held[k] = buf[k]
      <4>1. \A k \in 1..len : buf[k] \in CellSet
        BY <3>2, <3>4
      <4> QED BY <4>1 DEF Held
    <3>6. \A f, g \in [1..len -> CellSet] : (\A k \in 1..len : f[k] = g[k]) => f = g
      BY SameFunction
    <3>7. \A k \in 1..len : SubSeq(body, 1, len)[k] = Held[k]
      BY <3>4, <3>5
    <3> QED BY <3>2, <3>5, <3>6, <3>7, Zenon
  <2>3. IsReplyOf(counts'[2], SubSeq(body, len + 1, Len(body)), i)
    <3> DEFINE rest == SubSeq(body, len + 1, Len(body))
    <3>1. /\ rest \in Seq(CellSet) /\ Len(rest) = size
          /\ \A k \in 1..size : rest[k] = body[len + k]
      <4>1. \A k \in (len + 1)..Len(body) : body[k] \in CellSet
        <5>1. \A k \in (len + 1)..Len(body) : k \in 1..Len(body)
          BY <1>2, <1>6
        <5> QED BY <1>6, <5>1, ElementOfSeq
      <4>2. len + 1 \in Int /\ Len(body) \in Int
        BY <1>2, <1>6
      <4>3. /\ rest \in Seq(CellSet)
            /\ Len(rest) = IF len + 1 <= Len(body) THEN Len(body) - (len + 1) + 1 ELSE 0
            /\ \A k \in 1..(Len(body) - (len + 1) + 1) : rest[k] = body[(len + 1) + k - 1]
        BY <4>1, <4>2, SubSeqProperties
      <4>4. /\ Len(body) - (len + 1) + 1 = size
            /\ (IF len + 1 <= Len(body) THEN Len(body) - (len + 1) + 1 ELSE 0) = size
            /\ \A k \in 1..size : (len + 1) + k - 1 = len + k
        BY <1>2, <1>6
      <4> HIDE DEF rest
      <4> QED BY <4>3, <4>4
    <3> HIDE DEF rest
    <3>2. \A k \in 1..size : len + k \in 1..(len + size)
      BY <1>2
    <3>3. \A k \in 1..size : rest[k] = buf'[len + k]
      BY <1>6, <3>1, <3>2
    <3>4. \/ \A k \in 1..size : rest[k] = Cell("body", i, k)
          \/ size > HEAD /\ \A k \in 1..size : rest[k] = Junk
      BY <1>5, <3>3
    <3>5. IsBodyOf(rest, i)
      BY <1>2, <3>1, <3>4, BodyIs
    <3>6. IsReplyOf(counts'[2], rest, i)
      BY <1>4, <2>1, <3>1, <3>5 DEF IsReplyOf
    <3> QED BY <3>6 DEF rest
  <2>4. len \in 0..Len(body) /\ IsReplyOf(counts'[1], SubSeq(body, 1, len), i - 1)
    <3>1. len \in 0..Len(body)
      BY <1>2, <1>6
    <3>2. Len(answers) = i - 1
      BY DEF i
    <3> QED BY <1>9, <2>1, <2>2, <3>1, <3>2
  <2>5. OwnAnswer(a, i)
    BY <1>5, <1>9, <2>1, <2>3, <2>4 DEF OwnAnswer
  <2> QED BY <1>3, <1>9, <2>5 DEF i, body
<1> QED BY <1>7, <1>8, <1>9

LEMMA WholeRepliesStep ==
  ASSUME WireTyped, HeldFits, Framing, Waits, WholeReplies, [Next]_vars
  PROVE  WholeReplies'
<1> SUFFICES ASSUME state' = "open", ~torn' PROVE WholeReplies'
  BY DEF WholeReplies
<1>1. state = "open"
  BY DEF Next, ClientSends, OnRequest, DoDistribute, UpstreamReplies, OnGotUpstreamResponse, vars
<1>2. ~torn
  <2>1. ClientSends \/ DoDistribute \/ UpstreamReplies \/ UNCHANGED vars => torn' = torn
    BY DEF ClientSends, DoDistribute, UpstreamReplies, vars
  <2>2. OnRequest \/ OnGotUpstreamResponse => (torn => torn')
    BY DEF OnRequest, OnGotUpstreamResponse
  <2> QED BY <2>1, <2>2 DEF Next
<1>3. /\ reading => \/ replied = Len(forwarded) - 1 /\ fromUp = <<>>
                    \/ /\ replied = Len(forwarded)
                       /\ \E size \in Bodies : fromUp = Reply(Len(forwarded), size)
      /\ ~reading => replied = Len(forwarded) /\ fromUp = <<>>
      /\ reading \/ scheduled =>
           \/ counts = <<>> /\ len = 0
           \/ /\ hasty /\ Len(counts) = 1
              /\ IsReplyOf(counts[1], Held, Len(answers))
      /\ reading /\ scheduled => counts = <<>> /\ len = 0
  BY <1>1, <1>2 DEF WholeReplies
<1>4. /\ Len(answers) \in Nat /\ Len(forwarded) \in Nat /\ replied \in Nat
      /\ Len(answers) = IF reading THEN Len(forwarded) - 1 ELSE Len(forwarded)
      /\ ~hasty => ~(reading /\ scheduled)
  <2>0. ~Mistakable
    BY <1>2 DEF Mistakable
  <2>1. Len(answers) \in Nat /\ Len(forwarded) \in Nat
    BY LenProperties DEF WireTyped
  <2> QED BY <1>1, <2>0, <2>1 DEF WireTyped, Waits
<1>5. CASE ClientSends
  <2>1. /\ hasty => hasty'
        /\ UNCHANGED <<answers, forwarded, reading, scheduled, len, counts, buf, fromUp, replied>>
    BY <1>5 DEF ClientSends, requestVars, upstreamVars, responseVars
  <2> QED BY <1>3, <2>1 DEF WholeReplies, Held
<1>6. CASE OnRequest
  <2>1. counts' = <<>> /\ len' = 0
    BY <1>1, <1>6 DEF OnRequest
  <2>2. UNCHANGED <<forwarded, reading, fromUp, replied>>
    BY <1>6 DEF OnRequest, upstreamVars
  <2> QED BY <1>3, <2>1, <2>2 DEF WholeReplies
<1>7. CASE DoDistribute
  <2>1. /\ scheduled /\ ~reading /\ reading' = TRUE /\ scheduled' = FALSE
        /\ forwarded' = Append(forwarded, web)
        /\ UNCHANGED <<hasty, fromUp, replied, len, counts, buf, answers>>
    BY <1>1, <1>7 DEF DoDistribute, clientVars, responseVars
  <2>2. Len(forwarded') = Len(forwarded) + 1
    BY <2>1 DEF WireTyped
  <2>3. replied' = Len(forwarded') - 1 /\ fromUp' = <<>>
    BY <1>3, <1>4, <2>1, <2>2
  <2> QED BY <1>3, <2>1, <2>3 DEF WholeReplies, Held
<1>8. CASE UpstreamReplies
  <2>1. /\ replied < Len(forwarded) /\ replied' = replied + 1
        /\ UNCHANGED <<hasty, answers, forwarded, reading, scheduled, len, counts, buf>>
    BY <1>8 DEF UpstreamReplies, clientVars, requestVars, responseVars
  <2>2. PICK size \in Bodies : fromUp' = fromUp \o Reply(replied + 1, size)
    BY <1>8 DEF UpstreamReplies
  <2>3. reading /\ replied + 1 = Len(forwarded) /\ fromUp = <<>>
    BY <1>3, <1>4, <2>1
  <2>4. fromUp' = Reply(Len(forwarded), size)
    <3>1. Reply(Len(forwarded), size) \in Seq(CellSet)
      BY <1>4, ReplyIs, SizesAre
    <3>2. <<>> \o Reply(Len(forwarded), size) = Reply(Len(forwarded), size)
      BY <3>1
    <3> QED BY <2>2, <2>3, <3>2
  <2>5. replied' = Len(forwarded')
    BY <2>1, <2>3
  <2> QED BY <1>3, <2>1, <2>3, <2>4, <2>5 DEF WholeReplies, Held
<1>9. CASE OnGotUpstreamResponse
  <2>1. PICK n \in 1..Len(fromUp) :
              /\ n <= HEAD + RESPONSE_BUF_SIZE
              /\ fromUp' = SubSeq(fromUp, n + 1, Len(fromUp))
              /\ torn' = (torn \/ n # Len(fromUp))
              /\ OutOfBounds(n) \/ Answered(n)
    BY <1>9, GotIs
  <2>2. reading /\ reading' = FALSE /\ UNCHANGED <<hasty, scheduled, forwarded, replied>>
    BY <1>9, GotIs
  <2>3. Answered(n) /\ n = Len(fromUp)
    BY <2>1 DEF OutOfBounds
  <2>4. Len(answers) = Len(forwarded) - 1
    BY <1>4, <2>2
  <2>5. /\ replied = Len(forwarded)
        /\ scheduled => /\ Len(counts') = 1
                        /\ IsReplyOf(counts'[1], [k \in 1..len' |-> buf'[k]], Len(forwarded))
    BY <1>2, <1>9, <2>1, <2>3, <2>4, OwnAnswerGot
  <2>6. fromUp' = <<>>
    <3>1. fromUp \in Seq(CellSet) /\ Len(fromUp) \in Nat
      BY LenProperties DEF WireTyped
    <3>2. Len(fromUp') = 0 /\ fromUp' \in Seq(CellSet)
      BY <2>1, <2>3, <3>1, ReadIs
    <3> QED BY <3>2, EmptySeq
  <2>7. Len(answers') = Len(forwarded)
    <3>1. Len(answers') = Len(answers) + 1
      BY <2>3 DEF Answered, WireTyped
    <3> QED BY <1>4, <2>4, <3>1
  <2>8. scheduled => hasty
    BY <1>4, <2>2
  <2>9. scheduled' => /\ hasty' /\ Len(counts') = 1
                      /\ IsReplyOf(counts'[1], Held', Len(answers'))
    BY <2>2, <2>5, <2>7, <2>8 DEF Held
  <2> QED BY <2>2, <2>5, <2>6, <2>9 DEF WholeReplies
<1>10. CASE UNCHANGED vars
  BY <1>10 DEF WholeReplies, Held, vars, clientVars, requestVars, upstreamVars, responseVars
<1> QED BY <1>5, <1>6, <1>7, <1>8, <1>9, <1>10 DEF Next

LEMMA OwnAnswersStep ==
  ASSUME WireTyped, HeldFits, Waits, WholeReplies, OwnAnswers, [Next]_vars
  PROVE  OwnAnswers'
<1> SUFFICES ASSUME ~torn', NEW i \in 1..Len(answers')
             PROVE  OwnAnswer(answers[i], i)'
  BY DEF OwnAnswers
<1>1. hasty => hasty'
  BY DEF Next, ClientSends, OnRequest, DoDistribute, UpstreamReplies, OnGotUpstreamResponse, vars,
         clientVars
<1>2. \A a : OwnAnswer(a, i) /\ answers'[i] = a => OwnAnswer(answers[i], i)'
  BY <1>1 DEF OwnAnswer
<1>3. CASE OnGotUpstreamResponse
  <2>1. PICK n \in 1..Len(fromUp) :
              /\ n <= HEAD + RESPONSE_BUF_SIZE
              /\ torn' = (torn \/ n # Len(fromUp))
              /\ OutOfBounds(n) \/ Answered(n)
    BY <1>3, GotIs
  <2>2. ~torn /\ n = Len(fromUp)
    BY <2>1
  <2>3. state = "open" /\ reading
    BY <1>3, GotIs
  <2>4. /\ answers \in Seq(AnswerSet) /\ Len(answers) \in Nat /\ Len(forwarded) \in Nat
        /\ Len(answers) = Len(forwarded) - 1
    <3>1. answers \in Seq(AnswerSet) /\ Len(answers) \in Nat /\ Len(forwarded) \in Nat
      BY LenProperties DEF WireTyped
    <3> QED BY <2>3, <3>1 DEF Waits
  <2>5. CASE OutOfBounds(n)
    BY <1>2, <2>2, <2>5 DEF OutOfBounds, OwnAnswers
  <2>6. CASE Answered(n)
    <3> DEFINE a == [counts |-> counts', data |-> data', body |-> [k \in 1..len' |-> buf'[k]]]
    <3>1. OwnAnswer(a, Len(forwarded))
      BY <1>3, <2>1, <2>2, <2>4, <2>6, OwnAnswerGot
    <3>2. a \in AnswerSet
      BY <1>3, <2>1, <2>6, AnsweredTyped
    <3>3. answers' = Append(answers, a)
      BY <2>6 DEF Answered
    <3> HIDE DEF a
    <3>4. /\ Len(answers') = Len(answers) + 1
          /\ answers'[Len(answers) + 1] = a
          /\ \A k \in 1..Len(answers) : answers'[k] = answers[k]
      BY <2>4, <3>2, <3>3, AppendProperties
    <3>5. CASE i \in 1..Len(answers)
      BY <1>2, <2>2, <3>4, <3>5 DEF OwnAnswers
    <3>6. CASE i = Len(answers) + 1
      <4>1. i = Len(forwarded)
        BY <2>4, <3>6
      <4> QED BY <1>2, <3>1, <3>4, <3>6, <4>1
    <3>7. i \in 1..Len(answers) \/ i = Len(answers) + 1
      BY <2>4, <3>4
    <3> QED BY <3>5, <3>6, <3>7
  <2> QED BY <2>1, <2>5, <2>6
<1>4. CASE answers' = answers /\ ~torn
  BY <1>2, <1>4 DEF OwnAnswers
<1>5. ClientSends \/ OnRequest \/ DoDistribute \/ UpstreamReplies \/ UNCHANGED vars
        => answers' = answers /\ (torn => torn')
  <2>1. ClientSends \/ DoDistribute \/ UpstreamReplies \/ UNCHANGED vars
          => answers' = answers /\ torn' = torn
    BY DEF ClientSends, DoDistribute, UpstreamReplies, vars, responseVars
  <2>2. OnRequest => answers' = answers /\ (torn => torn')
    BY DEF OnRequest
  <2> QED BY <2>1, <2>2
<1> QED BY <1>3, <1>4, <1>5 DEF Next

\* While reads end where replies do, answer number i has the data and ends in the
\* whole body of reply number i, and what stands before it is the reply before's: for
\* bodies and buffers of any size, and a client that waits or does not.
THEOREM AnswerEndsInOwnReplyCorrect == Spec => []AnswerEndsInOwnReply
<1> DEFINE Inv == WireTyped /\ HeldFits /\ Framing /\ Waits /\ WholeReplies /\ OwnAnswers
<1>1. Init => Inv
  <2>1. Init => OwnAnswers
    <3>1. Init => Len(answers) = 0
      BY DEF Init
    <3> QED BY <3>1 DEF OwnAnswers
  <2> QED BY <2>1, InitTyped, HeldFitsInit, FramingInit, WaitsInit, WholeRepliesInit
<1>2. Inv /\ [Next]_vars => Inv'
  BY WireTypedStep, FramingStep, WaitsStep, WholeRepliesStep, OwnAnswersStep
<1>3. Inv => AnswerEndsInOwnReply
  BY AnswersAreOwn
<1> HIDE DEF Inv
<1> QED BY <1>1, <1>2, <1>3, PTL DEF Spec

=============================================================================
