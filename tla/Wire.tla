--------------------------------- MODULE Wire ---------------------------------
(***************************************************************************)
(* The bytes of one connection context: what alloc_request_buf and         *)
(* on_request make of the client's stream, and alloc_upstream_response_buf *)
(* and on_got_upstream_response of the upstream's (server.cpp).            *)
(*                                                                         *)
(* Server has the callbacks and their order; here each of them is reduced  *)
(* to what it does to the buffers, for the one upstream whose callbacks    *)
(* find their context.  A cell says where the bytes in it come from.  What *)
(* they are matters where on_request tests the magic: a cell of a request  *)
(* is one byte, of the magic or of the query behind it.                    *)
(***************************************************************************)
EXTENDS Integers, SequencesExt

CONSTANTS
  MAGIC,              \* the bytes every request begins with: its size, as an int
  QUERY,              \* how many bytes follow
  Queries,            \* what these may be
  Memories,           \* what malloc may deliver in the place of the magic
  RESPONSE_BUF_SIZE,  \* cells of upstream_response.buf, and of its padding
  Bodies,             \* lengths a reply's body may have
  MaxRequests,        \* bound: requests the client sends
  MaxForwarded,       \* bound: requests the upstream gets
  Env                 \* "split": a read may end anywhere;
                      \* "ahead": the client need not wait for an answer

\* upstream_response_head_t: the three numbers, and data.
HEAD == 2

\* sizeof(web_request_t) is 152: of the bytes 152, 0, 0, 0 only the first is so.
ASSUME WireAssumption ==
  /\ MAGIC \in Seq(Nat) /\ MAGIC # <<>>
  /\ \A k \in 2..Len(MAGIC) : MAGIC[k] # MAGIC[1]
  /\ QUERY \in Nat \ {0} /\ Queries \subseteq [1..QUERY -> Nat]
  /\ Memories \subseteq [1..Len(MAGIC) -> Nat]
  /\ RESPONSE_BUF_SIZE \in Nat /\ RESPONSE_BUF_SIZE >= HEAD
  /\ Bodies \subseteq Nat /\ MaxRequests \in Nat /\ MaxForwarded \in Nat
  /\ Env \subseteq {"split", "ahead"}

VARIABLES
  state,      \* "open", "closed", or "undefined" after a write out of bounds
  queries,    \* the queries of the requests the client has sent
  toCore,     \* cells of the client that are not read yet
  memory,     \* what malloc delivered in the place of the magic
  web,        \* request.web
  scheduled,  \* do_distribute is to run
  forwarded,  \* what was written to the upstream, in order
  replied,    \* how many of these the upstream has replied to
  fromUp,     \* cells of the upstream that are not read yet
  reading,    \* the upstream is read
  buf, len,   \* upstream_response.buf with its padding, and its len
  counts,     \* the heads whose numbers are added up in upstream_response.head
  data,       \* its data
  past,       \* cells a read has written behind the padding
  answers,    \* what the worker was given, each time
  torn,       \* history: a read did not end with its request or reply
  hasty       \* history: a request was sent before the last one's answer

clientVars == <<queries, toCore, hasty>>
requestVars == <<memory, web, scheduled>>
upstreamVars == <<forwarded, replied, fromUp, reading>>
responseVars == <<buf, len, counts, data, past, answers>>
vars == <<state, clientVars, requestVars, upstreamVars, responseVars, torn>>

Cell(kind, n, k) == [kind |-> kind, n |-> n, k |-> k]
Junk == Cell("junk", 0, 0)
Cells(kind, n, size) == [k \in 1..size |-> Cell(kind, n, k)]

REQUEST_BUF_SIZE == Len(MAGIC) + QUERY
sent == Len(queries)

\* Request n, and request.web as malloc delivers it.
Request(n) == Cells("request", n, REQUEST_BUF_SIZE)
Unset == Cells("memory", 0, REQUEST_BUF_SIZE)

\* The byte in a cell of request.web, of those compared with the magic.
Byte(cell) ==
  CASE cell.kind = "memory"   -> memory[cell.k]
    [] cell.k <= Len(MAGIC)   -> MAGIC[cell.k]
    [] OTHER                  -> queries[cell.n][cell.k - Len(MAGIC)]

HasMagic(cells) == \A k \in 1..Len(MAGIC) : Byte(cells[k]) = MAGIC[k]

\* The reply to what was forwarded as number n: the first cell of its head holds
\* return_num, which is 0 for an empty body.
Body(n, size) == Cells("body", n, size)
Reply(n, size) ==
  <<Cell(IF size > 0 THEN "some" ELSE "none", n, 1), Cell("data", n, 1)>> \o Body(n, size)

Places == 1..(2 * RESPONSE_BUF_SIZE)

TypeOK ==
  /\ state \in {"open", "closed", "undefined"}
  /\ Len(queries) \in 0..MaxRequests /\ replied \in 0..Len(forwarded)
  /\ Len(web) = REQUEST_BUF_SIZE
  /\ \A i \in DOMAIN forwarded : Len(forwarded[i]) = REQUEST_BUF_SIZE
  /\ DOMAIN buf = Places /\ len \in 0..(2 * RESPONSE_BUF_SIZE)
  /\ Len(answers) <= Len(forwarded)
  /\ {scheduled, reading, torn, hasty} \subseteq BOOLEAN
  /\ past > 0 => state = "undefined"

\* malloc.
Init ==
  /\ state = "open" /\ queries = <<>> /\ toCore = <<>>
  /\ memory \in Memories /\ web = Unset /\ scheduled = FALSE
  /\ forwarded = <<>> /\ replied = 0 /\ fromUp = <<>> /\ reading = FALSE
  /\ buf = [k \in Places |-> Junk] /\ len = 0
  /\ counts = <<>> /\ data = Junk /\ past = 0 /\ answers = <<>>
  /\ torn = FALSE /\ hasty = FALSE

-----------------------------------------------------------------------------
\* How many cells a read that is offered room takes of a stream.
Taken(stream, room) ==
  LET most == IF Len(stream) < room THEN Len(stream) ELSE room
  IN  IF "split" \in Env THEN 1..most ELSE {most} \ {0}

ClientSends ==
  /\ state = "open" /\ sent < MaxRequests
  /\ "ahead" \in Env \/ Len(answers) = sent
  /\ \E query \in Queries : queries' = Append(queries, query)
  /\ toCore' = toCore \o Request(sent + 1)
  /\ hasty' = (hasty \/ Len(answers) < sent)
  /\ UNCHANGED <<state, requestVars, upstreamVars, responseVars, torn>>

\* Mutant: the cell read too much is kept.
OverwrittenLonger(old, stream, n) ==
  SubSeq(stream, 1, n) \o SubSeq(old, n + 1, Len(old))

\* The buffer after n cells of a stream were read to its start.
Overwritten(old, stream, n) ==
  [k \in DOMAIN old |-> IF k <= n THEN stream[k] ELSE old[k]]

\* Mutant: the magic is not looked at.
OnRequestAnyMagic ==
  /\ state = "open"
  /\ \E n \in Taken(toCore, REQUEST_BUF_SIZE + 1) :
       /\ web' = Overwritten(web, toCore, n)
       /\ toCore' = SubSeq(toCore, n + 1, Len(toCore))
       /\ torn' = (torn \/ n # REQUEST_BUF_SIZE)
       /\ scheduled' = TRUE /\ counts' = <<>> /\ data' = Junk /\ len' = 0
  /\ UNCHANGED <<state, queries, memory, hasty, upstreamVars, buf, past, answers>>

\* Mutant: the length of what is held is kept.
OnRequestKeepsLen ==
  /\ state = "open"
  /\ \E n \in Taken(toCore, REQUEST_BUF_SIZE + 1) :
       /\ web' = Overwritten(web, toCore, n)
       /\ toCore' = SubSeq(toCore, n + 1, Len(toCore))
       /\ torn' = (torn \/ n # REQUEST_BUF_SIZE)
       /\ IF HasMagic(web')
            THEN /\ scheduled' = TRUE /\ counts' = <<>> /\ data' = Junk
                 /\ UNCHANGED <<state, len>>
            ELSE state' = "closed" /\ UNCHANGED <<scheduled, counts, data, len>>
  /\ UNCHANGED <<queries, memory, hasty, upstreamVars, buf, past, answers>>

\* alloc_request_buf offers the start of request.web, and one cell more than it
\* has; that cell falls on request.up, which setup_upstream_request then fills.
\* The magic is tested where a request begins, not where the read did.
OnRequest ==
  /\ state = "open"
  /\ \E n \in Taken(toCore, REQUEST_BUF_SIZE + 1) :
       /\ web' = Overwritten(web, toCore, n)
       /\ toCore' = SubSeq(toCore, n + 1, Len(toCore))
       /\ torn' = (torn \/ n # REQUEST_BUF_SIZE)
       /\ IF HasMagic(web')
            THEN /\ scheduled' = TRUE /\ counts' = <<>> /\ data' = Junk /\ len' = 0
                 /\ UNCHANGED state
            ELSE state' = "closed" /\ UNCHANGED <<scheduled, counts, data, len>>
  /\ UNCHANGED <<queries, memory, hasty, upstreamVars, buf, past, answers>>

\* do_distribute, distribute_upstream_cb.  An upstream that is still read is not
\* idle: then there is none, and the context is closed.
DoDistribute ==
  /\ state = "open" /\ scheduled /\ Len(forwarded) < MaxForwarded
  /\ scheduled' = FALSE
  /\ IF reading THEN state' = "closed" /\ UNCHANGED <<forwarded, reading>>
     ELSE forwarded' = Append(forwarded, web) /\ reading' = TRUE /\ UNCHANGED state
  /\ UNCHANGED <<clientVars, memory, web, replied, fromUp, responseVars, torn>>

UpstreamReplies ==
  /\ state = "open" /\ replied < Len(forwarded)
  /\ \E size \in Bodies : fromUp' = fromUp \o Reply(replied + 1, size)
  /\ replied' = replied + 1
  /\ UNCHANGED <<state, clientVars, requestVars, forwarded, reading, responseVars, torn>>

-----------------------------------------------------------------------------
\* The cells of upstream_response after a read of n cells at len; those behind
\* the padding are lost to it.
Filled(n) ==
  [k \in Places |-> IF k \in (len + 1)..(len + n) THEN fromUp[k - len] ELSE buf[k]]

Excess(n) == IF len + n > 2 * RESPONSE_BUF_SIZE THEN len + n - 2 * RESPONSE_BUF_SIZE ELSE 0

\* What return_num may be, given the cell it is read from: other cells than the
\* first of a head are any number.
Returned(cell) ==
  CASE cell.kind = "some" -> {TRUE} [] cell.kind = "none" -> {FALSE} [] OTHER -> BOOLEAN

\* memcpy of size cells from HEAD cells further on.  Where the two overlap the
\* result is not defined: as intended, or any other.
Moved(cells, size) ==
  LET place == (len + 1)..(len + size)
      right == [k \in Places |-> IF k \in place THEN cells[k + HEAD] ELSE cells[k]]
      wrong == [k \in Places |-> IF k \in place THEN Junk ELSE cells[k]]
  IN  IF size > HEAD THEN {right, wrong} ELSE {right}

\* Mutant: the bodies before are forgotten.
NewLenOfLast(size) == size
\* The new length of what is held.
NewLen(size) == len + size

OnGotUpstreamResponse ==
  /\ state = "open" /\ reading
  /\ \E n \in Taken(fromUp, HEAD + RESPONSE_BUF_SIZE) :
     LET filled == Filled(n) IN
       /\ fromUp' = SubSeq(fromUp, n + 1, Len(fromUp))
       /\ torn' = (torn \/ n # Len(fromUp))
       /\ past' = Excess(n)
       /\ IF Excess(n) > 0
            THEN state' = "undefined" /\ UNCHANGED <<buf, len, counts, data, answers>>
          ELSE \E returned \in Returned(filled[len + 1]) :
            IF returned /\ n < HEAD
              THEN state' = "undefined" /\ UNCHANGED <<buf, len, counts, data, answers>>
            ELSE /\ counts' = Append(counts, filled[len + 1])
                 /\ data' = filled[len + 2]
                 /\ IF returned THEN buf' \in Moved(filled, n - HEAD) /\ len' = NewLen(n - HEAD)
                                ELSE buf' = filled /\ UNCHANGED len
                 /\ answers' = Append(answers,
                      [counts |-> counts', data |-> data', body |-> [k \in 1..len' |-> buf'[k]]])
                 /\ UNCHANGED state
  /\ reading' = FALSE
  /\ UNCHANGED <<clientVars, requestVars, forwarded, replied>>

Next == ClientSends \/ OnRequest \/ DoDistribute \/ UpstreamReplies \/ OnGotUpstreamResponse

Spec == Init /\ [][Next]_vars

-----------------------------------------------------------------------------
\* A read was cut, and some query has a byte that may pass for the first of a
\* magic: then the rest of a request can be taken for another one.
Mistakable ==
  /\ torn
  /\ \E m \in DOMAIN queries : \E k \in 1..QUERY : queries[m][k] = MAGIC[1]

\* on_request, alloc_request_buf: unless that is so, nothing but whole requests
\* is forwarded, in the order they were sent, save perhaps the very last of a
\* connection, of which only a first piece came: its rest is that of the request
\* before, or what malloc delivered.
WholeThenShut ==
  LET last == Len(forwarded)
      Whole(i) == \E m \in 1..sent : forwarded[i] = Request(m)
      Piece(i) == \E m \in 1..sent, k \in 1..REQUEST_BUF_SIZE :
                    \E old \in {Unset} \cup {Request(o) : o \in 1..(m - 1)} :
                      forwarded[i] = Overwritten(old, Request(m), k)
  IN  ~Mistakable =>
        /\ \A i \in 1..(last - 1) : Whole(i)
        /\ last > 0 => Whole(last) \/ Piece(last)
        /\ \A i, j \in 1..(last - 1) : i < j =>
             forwarded[i][REQUEST_BUF_SIZE].n < forwarded[j][REQUEST_BUF_SIZE].n

\* on_got_upstream_response: while reads end where replies do, an answer holds
\* the data and the whole body of its own reply and nothing behind it; what may
\* stand before it is the body of the reply before, whose numbers are then added
\* too, for a client that did not wait for that answer.  A body longer than a
\* head may be spoilt by the memcpy, never its length.
AnswerEndsInOwnReply ==
  ~torn => \A i \in DOMAIN answers :
    LET a == answers[i]
        IsBody(cells, n) == \/ cells = Body(n, Len(cells))
                            \/ Len(cells) > HEAD /\ \A k \in DOMAIN cells : cells[k] = Junk
        IsReply(count, cells, n) ==
          Len(cells) \in Bodies /\ count = Reply(n, Len(cells))[1] /\ IsBody(cells, n)
    IN  /\ a.data = Cell("data", i, 1)
        /\ \/ Len(a.counts) = 1 /\ IsReply(a.counts[1], a.body, i)
           \/ /\ hasty /\ Len(a.counts) = 2
              /\ \E cut \in 0..Len(a.body) :
                   /\ IsReply(a.counts[1], SubSeq(a.body, 1, cut), i - 1)
                   /\ IsReply(a.counts[2], SubSeq(a.body, cut + 1, Len(a.body)), i)

\* alloc_upstream_response_buf, on_got_upstream_response: a read goes at most the
\* length of a head behind upstream_response, and that only when a client did not
\* wait or the rest of its request could be taken for another.  The program leaves
\* its buffers, or reads a reply that is not there, only when a reply was cut or a
\* client did not wait.
StaysInside ==
  /\ past <= HEAD
  /\ past > 0 => hasty \/ Mistakable
  /\ state = "undefined" => torn \/ hasty
=============================================================================
