# A verification project for ui_demo

ui_demo is a page front end: it accepts client connections, forwards each
request to one server of every configured server group, and renders a page from
the replies with a template. It is one process: a libuv loop on the main thread
and libuv's thread pool for rendering. This directory holds TLA+ models of it,
TLC configurations that check them on small instances, and proofs that TLAPS
checks for every value of the constants.

## The system

| part | source | state | operations | how it interacts |
|---|---|---|---|---|
| connection core | `server.cpp`, `server.h` | a `conn_ctx_t` per client: client handle, idle handle, a tcp, timer, connect and write request per upstream, group counters, request, reply and page buffers, `need_close` | the libuv callbacks: connect, read, write, idle, after-work, close | reads the configured topology; hands the context to the pool and takes it back |
| worker | `core.cpp` | none of its own | `worker_handler` | reads `upstream_response`, writes `response_buf` of the same context, from another thread |
| template rendering | `template.cpp` 1001-1415 | the page buffer while it is filled | `temp_make_page`, `as_temp_make_res` | called by the worker |
| template loading | `template.cpp` 87-480, 1417-1826 | `g_pTemplate`, `template_table` | `template_init`, `template_load` | once, at start-up |
| text helpers | `template.cpp` 507-947 | none | cutting, highlighting, numbers, dates | dates and grouped numbers are called by the rendering, highlighting by nobody |
| ui.conf | `conf.cpp` | `g_conf` | `load_conf`, `async_load_conf` | once; `async_load_conf` serves every other configuration file too |
| server configuration | `server.cpp` 295-462 | `g_sg_num`, `g_sgroup`, `g_rate`, `g_rg` | `server_conf_load` | once; fixes the topology of every context |
| string utilities | `util.cpp` | none | escaping, splitting, trimming | used by rendering and loading |
| start-up | `main.cpp` | | `init`: the loads in sequence; `main`: listens, runs the loop | each load fixes what the next parts read |

What is hard here:

* **Life of a context.** `need_close` counts the handles a context waits for.
  `upstream_server_err` takes one reference before any callback has run and the
  reconnect takes two; the context is freed by whichever callback comes last.
  The idle handle and the worker are not counted.
* **Finding the context.** Callbacks that get an upstream compute the context by
  pointer arithmetic that is right for one upstream only.
* **Interleaving.** A client may send again, or leave, at any moment of a
  request; upstreams connect, reply, fail and are cancelled meanwhile; the pool
  thread works on the same buffers.
* **What outlives a request.** The counters that decide when all replies are in
  are neither initialised nor reset; a reply that arrives in two pieces leaves
  one for the next request.
* **Bytes.** A read is taken for a whole request, or a whole reply, wherever TCP
  happens to cut it; lengths are differences of what was read and what was due.
* **Configuration in file order.** The same lines in another order give another
  configuration, and limits are enforced after their values have been used.
* **A buffer that is exactly full.** Each write into the page is guarded by the
  room left, and the guards disagree about the NUL; numbers and dates at the end
  of the room are cut without an error.
* **Two-byte characters.** A text may only be cut between characters, and
  whether a place is between characters depends on everything before it.

`PROJECT.json` lists each such hazard at its line, with the properties aimed at it.

## Modules

| module | models | |
|---|---|---|
| `Topology` | shape of a context, its handles, the pointer arithmetic | constants `NGroups`, `SrvNum`, `UpBytes` |
| `Server` | all of the connection core, with the hand-over to the worker | EXTENDS `Topology` |
| `Lifetime` | abstract: an object held by its parts, which dies with the last | implemented by `Server` |
| `Session` | abstract: what a client that asks one thing at a time is promised | implemented by `Server` |
| `MCServer` | topologies and environments for TLC | |
| `ServerProofs` | theorems: the pointer arithmetic, types, a context's life, statuses, the counters of replies and of groups, probing, failed upstreams | EXTENDS `Server` |
| `AnswerProofs` | theorems: how many answers, whose, when nothing undefined happens, and that `Server` implements the safety part of `Session` | EXTENDS `ServerProofs` |
| `Wire`, `MCWire` | the bytes of one connection: `on_request`, `on_got_upstream_response` and the buffers they are given | beneath `Server`, which has the callbacks in full |
| `WireProofs` | theorems: framing, bounds of the buffers, whose bytes an answer ends in | EXTENDS `Wire` |
| `Conf` | `ui.conf`: `init_conf`, `assign_conf_item`, the line loop | |
| `ServerConf` | `server.conf`, `group_<i>.conf`, the rate table | establishes the bounds `Topology` assumes |
| `TemplateLoad` | `template_load` and all it calls, `temp_get_template_index` | makes the templates `TemplatePage` renders |
| `Startup`, `MCStartup` | `main` and `init` | EXTENDS and composes `Conf`, `ServerConf`, `TemplateLoad` |
| `ConfigProofs` | theorems about `Conf` and `ServerConf` | EXTENDS both |
| `StartupProofs` | theorems about `TemplateLoad` and `Startup`, which refines its three parts | EXTENDS `ConfigProofs`, `Startup` |
| `TemplatePage`, `MCTemplatePage` | `worker_handler`, `temp_make_page`, `as_temp_make_res` | what happens inside `HandleRequest` .. `WorkerDone` of `Server` |
| `TemplatePageProofs` | theorems: the room, whole pages, the order of fallbacks, page links, the cell behind the buffer | EXTENDS `TemplatePage`, `Lemmas` |
| `Strings` | the functions of `util.cpp`, as operators | |
| `TemplateText`, `MCTemplateText` | the text functions of `template.cpp`, as operators, and reference definitions for both | EXTENDS `Strings` |
| `TextProofs` | theorems: cutting, encoding, escaping, numbers, highlighting | EXTENDS `TemplateText`, `Lemmas` |
| `Lemmas` | induction, recursive functions and folds, sequences: what several of the proofs need | |

### Server

One slot for a context suffices: contexts share nothing but the heap, and that
is modelled by allocating the slot again (`heap_reuse` lets a new context keep
the old counters, because `alloc_conn_context` does not initialise them).

* *Loop.* `phase` is the part of a libuv iteration that runs: idle handles, I/O
  and after-work callbacks, close callbacks. A callback is one action. Only
  `HandleRequest` and `WorkerDone`, on the pool thread, happen in any phase; the
  reply buffer is read somewhere in between, so the page shows the old contents,
  the new ones, or both.
* *Handles.* `handles` are those whose close callback is still to come, `closing`
  those on which `uv_close` was called, `reconnecting` the upstreams whose close
  leads to `upstream_reconnect_tcp_cb`.
* *Upstreams.* `status`, and beside it what libuv is really doing: `connReq`,
  `writeReq`, `reading`, and `owed`, the pieces of replies still to arrive, each
  marked with the number of the request it answers.
* *Groups.* `sock_num`, `connecting`, `lru` and the two counters of `gs`.
* *Requests.* `asked`, `merged`, `page` and `answers` hold the numbers of requests
  instead of bytes, enough to tell whose reply was shown to whom.
* *Undefined behaviour.* Where the code breaks libuv's contract or uses memory it
  freed or mis-computed, the step sets `fault` to the reason and the model stops.
  Safety properties are claimed up to that point.
* *Breaches that are counted.* Two breaches of libuv's contract are part of every
  run of the program, and a model that stopped there would say nothing. Every
  `free(ctx)` leaves the context's idle handle, initialised by `on_new_connection`
  and never closed, in the queue of the loop's handles (`dangling` counts them), and
  every reconnect calls `uv_timer_init` on a timer that is still open (`relinked`).
  The model goes on as if the broken links of that queue led to no memory it knows
  of; all that is said of `Server` is said under this condition. `BreachesCounted`
  says how many there are: each freed context leaves one idle handle, and a timer is
  initialised again exactly where an upstream has failed a connection.
  `OnlyKnownBreaches` says for which environments there is no other breach.
* *History.* `conns`, `skew`, `upset`, `asked`, `answers`, `dangling` and `relinked`
  exist only to state properties.

`Env` names what clients, upstreams and the allocator may do. Sending while a
request is answered, leaving early, failing connects, reads and writes, split
replies and reused memory are separate events, so that a property can be stated
for exactly the environment it needs.

### Wire

`Wire` takes the one upstream whose callbacks find their context
(`OwnerOfFirstOnly`), and reduces each callback to what it does to the buffers. A
cell says where the bytes in it come from; a cell of a request is one byte, of the
magic or of the query behind it, and `on_request` compares these bytes wherever they
come from (`HasMagic`), what `malloc` delivered included. A read takes any number
of cells that were sent and not read, up to the room it was offered. That makes
visible what `Server` has in its `fault`s and `split` events only as a whole:

* every read of the client goes to the start of the request buffer, so a request
  in pieces is taken for one as soon as the old bytes and the new ones begin with
  the magic; a first piece shorter than the magic may be completed by the magic of
  a context freed before;
* the rest of a request is tested like a request: if it is the single byte 152, or
  begins with the bytes of the magic, it is taken for one more. `Mistakable` says
  that a read was cut and some query has such a byte; without that, the first read
  that does not begin a request closes the connection;
* the read of a reply goes behind what is already held, and its first cells are
  swallowed as the head, whatever they are;
* the body's length is the length read less a head: for a read shorter than a
  head it is negative, and the `memcpy` over overlapping cells is undefined;
* a read behind the padding is out of bounds, by a head's length at most, and
  only if a client did not wait for its answer or the rest of its request could be
  taken for another (`StaysInside`).

### Startup, Conf, ServerConf, TemplateLoad

`Startup` runs the three loads in the order of `init`, each by the steps of its
own module; between and after them stand the allocation of `g_pTemplate` and the
port. What can go wrong outside the loads is chosen at the start (`missing`). The
loads share no state but the order they run in, and so their environments need
not vary together: `varied` names the one part, `ui.conf`, the server files, the
template files or the outages, that is not at its plainest. Every behaviour of
each part is still followed to the end of that part.

`Conf` keeps the order in which names are compared and the checks that stand
between the comparisons; a stretch of names with no check between them is
represented by one. `lines` records the file for the properties, which describe
the final value of every item by the file as a whole rather than step by step.

`ServerConf` reads one line at a time too. `LinesAsHeard` says by the file as a
whole which lines end up in the rates and the addresses. A line that would write
outside an array sets `outside` and stops the model. The table of rates is filled in
`EndServerFile`, where the code fills it, and so is the debug build's fallback.
`NumbersFit` is what `TopologyAssumption` relies on (a negative number runs no loop,
like 0).

`TemplateLoad` takes one line, or one file of one template, per step, in the order
of the code. A text is kept as what stands between its dollar signs: that is all the
search for variables looks at, including the two oddities of `temp_load_res_file`,
which accepts any three characters for `res` and, with fewer of them before the
closing dollar, looks behind it: what stands there is then part of what is compared
(`ResName`). A name is a word and the letters it is written in, because the
directory is found with the letters and a request without. The digest of a template
hangs on `g_conf.enable_digest`, which no code ever sets, so no template has one
whatever its `config.conf` says. The variables above `MAX_RES_VARS_NUM` go over the
text of `none.html`; that text is then marked `overwritten` and nothing is claimed
of it.

`TemplatePage` turns a part of a template into the sequence of writes that
`temp_make_page` performs, each with its own guard. Of a value it keeps the length,
of a variable in a result its field and its method, which the loader does not check
against each other; `FieldType`, `UintWrite`, `CharWrite` and `ResVarWrites` say
what each pair of them writes. Among the oddities there: `as_request_sort_field` is
written as 0, because its value in one enumeration is that of `result_node_0` in the
other, on which the switch decides; and what the text methods do with a text of a
document, of which there is none, is to read through a null pointer, to write
nothing, or to give up. `Rendering` is the reference: the same writes in a buffer
without an end. What the reference does not know of is told apart: `temp_itoa`
prints a smaller number when its digits reach the end of the room (the assertion
that would stop it is off, the Makefile builds with `NDEBUG`), `strftime` then
leaves the date out, and neither is an error; and `temp_itoa` takes an `int`, so a
number of 2^31 or more is printed as the negative number of the same bits
(`IntWrite`, its cells are `"wrong"` in the reference too) and the least `int`,
whose negation is undefined, in any of the ways a build may print it (`PrintLeast`).
A page with such an end or with the least `int` is `Squeezed`. `attr_int`, `rn` and
`page_no` are read and never set: `unset` and the request's fields are whatever
`malloc` left. A field of a document ends the model (`crashed`): the document is a
null pointer.

### Strings, TemplateText

The functions are operators over sequences of byte classes; the states of
`TemplateText` only enumerate texts and numbers, so that TLC evaluates the
properties on every one. `"hi"` is a byte of the upper half, two of which make a
character. The reference definitions (`Unescaped`, `Between`, `Places`, ...) do
not follow the code. What they bring out:

* `quote_escape` ends early and without an error when an escape does not fit; the
  caller goes on at `esclen`, and the pieces join to the whole.
* A cut that falls into a wide character keeps it whole: at the end of the buffer
  the NUL then stands one byte behind it, and `fixstring` does not cut at all.
* `as_temp_make_high_light` refuses a piece longer than half the room left;
  `strcasestrGBK` compares the first byte with its case, the others without.

## What the runs check

| run | bounds | shows |
|---|---|---|
| `hostile` | one server, 3 connections, 3 requests each, every event | the accounting of a context's life, the truth of statuses and counters, and refinement of `Lifetime`, whatever the environment does |
| `one_at_a_time` | same, no pipelining or split reply | a client sees its own replies only; liveness |
| `patient` | same, clients wait, `uv_write` accepts | no breach but the two counted ones, in spite of failing upstreams, accepts, callbacks and reused memory |
| `polite` | same, connected upstreams do not fail | refinement of `Session`, liveness included |
| `groups` | groups of 2 and 1 servers, 2 connections, 2 requests, every event | counts per group, probing |
| `no_live_upstream` | one group of 3 | *finding*: with two of the three not connected, the idle one is passed over |
| `wire` | a request of 3 bytes, a magic of two and a query that is like the magic's first or not; memory with a magic or without; buffers of 4 cells; bodies of 0 and 3; 3 requests, 3 forwarded; every cut | only whole requests are forwarded but for the last; an answer ends in its own reply's whole body; when and how far a buffer is left |
| `start_up` | `ui.conf` of up to 4 lines, 9 names, 3 values; arrays 2 by 2, 3 lines per file, numbers 0 to 3; 2 template slots, tables of up to 3 lines of 7 kinds, texts of up to 4 dollars, some with fewer than three characters between two, and one with more variables than fit | the value of every item by the file as a whole, which lines count, shares equal rates, numbers fit the arrays, variables found in order and apart, first row and first name win, the process listens exactly if all loads could succeed |
| `server_conf_index` | same | *finding*: an index beyond the array passes the test |
| `page` | buffers of 1 to 24, 48, 72 and 96 cells, 16 templates, 1440 requests | what a page that is sent holds, fallback to the error page, page links |
| `page_room` | same | *finding*: the NUL behind the buffer |
| `text` | texts of up to 5 bytes over 5 alphabets, numbers from -1100 to 1100, buffers of up to 12 bytes | escaping, encoding, cutting, grouping and highlighting against the reference definitions |

Why the bounds are enough. Three connections let memory be reused after a context
that itself reused memory; three requests let a late piece of the first reply meet a
request that is neither its own nor the next. One upstream is the only topology in
which callbacks find their context (`OwnerOfFirstOnly`); with more, every behaviour
ends in a fault once a second upstream calls back, so `groups` needs no more than
one such upstream in the first group and one beyond it. Four lines of `ui.conf` let
a value be given, checked, given again and checked again. The pages of the templates
in `page` are longer than the smallest buffers and shorter than the largest, and
most meet one that they exactly fill. The numbers there include the least int,
999999999, which becomes negative and which `float` rounds, and numbers that stay
positive; `INT_MAX` is 2^29 - 1, because TLC itself has no number above 2^31 - 1.
`GoOnLines` ends the start after a `ui.conf` of more than two lines, whose
properties have been checked by then. In `wire`, three requests let a reply meet the
remains of the one before while a third is on its way; bodies are empty, or longer
than a head (`memcpy` overlaps), and two of them just fit into the buffer and its
padding, while pieces of two replies reach beyond; one byte of a query is enough to
be taken for the first of a magic whose others an earlier request left. In `text`,
1100 has two separators with groups of two and one with groups of three, five bytes
hold two wide characters with a narrow one before, between or behind them, and an
escape of six bytes meets each end of a buffer of 12. Reduced constants:
`MAX_GROUP_NUM` and `GROUP_MAX_SERVER_NUM` are 2 in `start_up`, `RESPONSE_BUF_SIZE`
is `Sizes` in `page`, a date has `DateLen` = 4 cells.

`CHECK_DEADLOCK FALSE` stands where the model really stops: after a fault, and
when a file is loaded or a page is done.

Fairness. The loop thread never blocks in a callback, so phases that have work
do it and end (weak fairness). The pool runs what is queued (weak). libuv
delivers the result of every request it accepted, and a reply an upstream owes
arrives or the connection fails: those callbacks are enabled in the I/O phase
only, again and again, hence strong fairness, for each upstream. Nothing is
assumed of clients.

## What is proved

Every safety invariant and action property of the passing runs is a theorem about
every value of the constants, and so are the refinements, as far as they are about
safety. "Any" below means any value that
the assumptions named there allow. A theorem with a restricted environment has
the restriction as its hypothesis, and its property holds in no run without it.

### The connection core

For all topologies within the code's maxima, any number of connections and
requests, and any environment unless one is named. Assumptions:
`TopologyAssumption` (the clamps of `server_conf_load`, which `NumbersFitHolds`
proves of the load, and that a struct has a positive size) and `ServerAssumption`.

| theorem | statement |
|---|---|
| `OwnerOfFirstOnly` | the arithmetic is right for the first server of the first group and for no other |
| `TypeCorrect` | `Spec => []TypeOK` |
| `AccountingCorrect`, `FreedByLastCloseCorrect`, `CloseShapeCorrect` | `[]CloseAccounting`, `[]FreedByLastClose`, `[]CloseShape` |
| `LifetimeRefined` | `Spec => FreedOnce`, the refinement of `Lifetime` |
| `StatusCorrect` | `[]StatusTruthful` |
| `CountersCorrect`, `SkewStarvesCorrect` | `[]CountersBalance`, `[]SkewStarves` |
| `GroupCountsCorrect` | `[]GroupCounts` |
| `WaitReconnectIsFinal` | `WaitReconnectFinal`, an action property |
| `FullGroupIsServed` | `[]FullGroupServes` |
| `AtMostOneAnswerCorrect` | `[]AtMostOneAnswer` |
| `AnswersOwnRequestCorrect` | `[]AnswersOwnRequest`, if no client pipelines and no reply is split |
| `BreachesCorrect` | `[]BreachesCounted` |
| `OnlyKnownBreachesCorrect` | `[]OnlyKnownBreaches`, if the first upstream is the only one, no client pipelines or hangs up during a request, no reply is split, and `uv_write` accepts |
| `SessionRefined` | `Spec => SessionOfClient!SafeSpec`, if no client pipelines and no reply is split |

*A context's life.* `CloseAccounting` is not inductive: a release is only correct if
the handle was open, and the early decrement of `upstream_server_err` only if the
upstream was not already failing. `LifeInv` therefore says in one piece what
shape a context has (`CloseShape`), how many handles it has left, and that an
upstream being reconnected still holds both handles; a close callback then leaves
`need_close < 1` exactly when the last handle goes. The refinement of `Lifetime`
follows step by step from `LifeInv`: a reconnect is a stutter, since both handles
are taken again in the callback that lost one. `StatusTruthful` needs `LifeInv`,
for cancelled connects on a closing context. `CountInv` adds to it that only
`<<0, 0>>` is ever read (from `OwnerOfFirstOnly`) and the balance of the counters;
a read makes the worker start only if the balance without skew is reached, which
a positive skew prevents. Each step lemma has one case for each action.

*Groups.* A step changes the status of one upstream, so the counts of its group
move by one or not at all (`WithOfOne`), and `GroupCounts` is inductive with
`StatusTruthful`. `FullGroupServes` is about the operator `Probe`: with every server
connected `sock_num` is the size of the ring, so the probes go once around it; the
first of them that meets an idle upstream exists by the least number of steps.

*Answers.* `AnswerInv` says that answers and requests under way are together no
more than requests. A request under way is in one of three places, the idle
handle, the first upstream, the worker, and every step moves it on, loses it or
answers it. With a client that asks one thing at a time (`SerialInv`) at most one
place is taken, and `OwnInv` says what each place then holds: `upstream_response`
is empty until the upstream has answered, an upstream that works owes exactly this
reply, an idle one owes nothing. Whose reply is shown follows, and so does each step
of `Session`. For `OnlyKnownBreaches`, `PatientInv` adds what keeps every callback defined:
while an upstream is reconnected the client still waits, so nothing closes a handle
twice, and a context that is closing has no request under way, so neither the idle
handle nor the worker outlives it.

### Wire

For requests, buffers, bodies and numbers of requests of any size, and reads that
end anywhere. `WireAssumption`: the first byte of the magic occurs in it only once, as
in 152, 0, 0, 0, a query has at least one byte, and a reply buffer holds at least a
head (the code's holds 65535 bytes).

| theorem | statement |
|---|---|
| `WireTypeCorrect` | `[]TypeOK` |
| `WholeThenShutCorrect` | `[]WholeThenShut` |
| `StaysInsideCorrect` | `[]StaysInside` |
| `AnswerEndsInOwnReplyCorrect` | `[]AnswerEndsInOwnReply` |

`Framing` says where in the endless stream of requests the client's unread cells
begin, and what stands in the request buffer: whole requests only, or the beginning
of one over the end of the one before or over what `malloc` delivered, after which
the connection is closed. It holds unless the run is `Mistakable`: a rest begins with
a byte behind the magic's first, which is none of the magic's first unless a query
has it. `HeldFits` bounds what is held of a reply; `Waits` says that a client that
waits, and is not `Mistakable`, has one request out and nothing held when its answer
is read. Together they give
the bounds. For the last theorem, `WholeReplies` says that what is held and
what is on its way are whole replies, and `OwnAnswers` is the property
itself.

### The loads and the start

Of any files of any length, and arrays of any size. Assumptions: `ConfAssumption`,
`ServerConfAssumption`, `TemplateLoadAssumption` (the files are lines and texts as
`WellFormed` has them, and the limits are positive) and `StartupAssumption`.

| theorem | statement |
|---|---|
| `ConfTypeCorrect`, `ChecksAsWrittenHolds`, `MergeStatSticksOffHolds` | `ConfSpec` implies `[]ConfTypeOK`, `[]ChecksAsWritten`, `[]MergeStatSticksOff` |
| `ServersTypeCorrect`, `LinesAsHeardHolds`, `SharesAreRatesHolds`, `NumbersFitHolds` | `ServersSpec` implies `[]ServersTypeOK`, `[]LinesAsHeard`, `[]SharesAreRates`, `[]NumbersFit` |
| `TemplatesTypeCorrect`, `VarsFoundHolds`, `FirstWinsHolds` | `TemplatesSpec` implies `[]TemplatesTypeOK`, `[]VarsFound`, `[]FirstWins` |
| `FailsIffBadHolds` | `template_load` fails exactly if a file is missing or broken, or the table is full |
| `StartIsTheLoads` | `Spec => ConfSpec /\ ServersSpec /\ TemplatesSpec`: `Startup` refines all its parts |
| `LoadsKeepTheirs` | hence the properties of the loads hold during the start |
| `StartupTypeCorrect`, `InTurnHolds` | `[]StartupTypeOK`; each load runs in its own stage only |
| `ListensIffLoadableHolds` | `[]ListensIffLoadable` |

`ChecksAsWritten` and `MergeStatSticksOff` are inductive together with the types:
a line changes one item, and every description by the file as a whole is
that of the shorter file with this line added. `LinesAsHeard` is not: `StagesKept`
says what each stage has finished, and `NumberInForce` that the number by which
lines are heard is the one the tables hold. `SharesAreRates` compares a table filled
by a recursion with a count; the recursive function is shown to exist, and to
be what it should, by taking a smallest counterexample. `VarsFound` rests in
the same way on `OpeningIs`, the correctness of the search for dollars. Of `TemplateLoad`,
`ReadSoFar` says what the lines read up to now put in the tables, `Loading` what
each file loaded so far is, and that failing had a reason. `ListensIffLoadable`
then follows from the stage the start is in.

### TemplatePage

For any buffer, templates and requests. The only assumption is
`TemplatePageAssumption`, that these are what their types say and that an int has at
least eight bits.

| theorem | statement |
|---|---|
| `PageTypeCorrect` | `[]TypeOK`: `nleft` is the room behind `pbuf`, and what was written is within the buffer |
| `SentPageCompleteHolds` | `[]SentPageComplete` |
| `FallsBackInOrderHolds` | `[]FallsBackInOrder` |
| `CurrentPageLinkedHolds` | `[]CurrentPageLinked` |
| `BeyondOnlyWhenFullHolds` | the cell behind the buffer is written only when a tail ends exactly with it, or a part was squeezed |

`PageInvariant` says of the part being written that some first n of its writes were
carried out (`Written`), that the others are left, and that none of the n is odd. The
page is then what the reference makes of them, but for a last `"nul"` cell, or one of
them was squeezed at the end of the room. A part is given up only if it is
`Hopeless`. The reference `Rendering` and the library's `FlattenSeq` are recursive
functions; that they exist, and what one more write adds to them, are lemmas, proved by
smallest counterexample. `BeyondOnlyWhenFullHolds` stands beside the finding
`page_room`: one cell too many is all that can go wrong, and it names the pages for
which it does. A tail is copied whole or not at all, so the room left is the room
behind it, and that is none only if the reference for the same writes ends with the
buffer.

### Strings and TemplateText

For texts of any bytes and any length, any number, and buffers of any size.
`TemplateTextAssumption` says that the bounds are numbers, the largest buffer of the
runs one that holds two of the longest escapes, that the values are texts, and that a
tag is no byte.

| theorem | statement |
|---|---|
| `CutsBetweenCharactersHolds` | `[]CutsBetweenCharacters` |
| `XmlRoundTripHolds` | `[]XmlRoundTrip` |
| `EscapedInPiecesHolds` | `[]EscapedInPieces` |
| `NumbersGroupedHolds` | `[]NumbersGrouped` |
| `HighlightsTermsHolds` | `[]HighlightsTerms` |

The only invariant is that the text is a text and the number a number; what is hard
is what the functions compute. A function written by recursion, in the code's model or
in the reference, has to be shown to exist (`RecursionExists`, `FoldExists`: each
call makes a measure smaller, or the fold goes along the sequence), and then what it
gives is proved by induction along the text, the set of the places where it holds
taking the part of the statement (`NatBySteps`, `ByMeasure`).

*Cutting.* Whether a place is between characters depends on the run of wide bytes
before it; `Between` is carried along by the same steps as the loop of `CutAt`, one
byte or two, so the loop stops between characters, at most one byte on.

*Encoding and escaping.* What stands for one byte is decoded by one step, whatever
follows (no name of an entity begins another, and an escape ends where the next byte
begins). So decoding a text is decoding its first byte and then the rest. The
reference's count of cells needed is a sum along the text, and with it the refusals
are compared. A piece of `quote_escape` is the escape of the bytes it took, whole, and
the next begins where it ended.

*Numbers.* At each turn of `temp_itoa` the cells are the digits from the right with a
separator behind every k of them, and the digits left are those of the number
divided. It ends at the sign, or at the size with the first digits left to print.

*Highlighting.* The words of a query are its longest stretches without a separator,
in order, so they join to the query without its separators. A search finds the first
place between two characters at which the term stands (`SearchHits`). At each turn of
`Found` (`TurnOk`) every place of the term before it has a byte covered, and no more
places were counted than there are before it; so with fewer than `PER_TERM`
places, and room, none is missed. Ordered places merged (`MergedIs`) lie apart and cover
the same bytes. Pieces between the ends of such places join, without their tags, to
the value (`PiecesWithoutTags`).

### Only model-checked

* Liveness, for which the prover has no rules: `ClosingEnds`, `RequestSettles`, and
  the fair part of `ServesSession`.
* The three findings, which are counterexamples.

## Findings

* With some of several upstreams not connected, two of three in the run,
  `distribute_request_group` may log "no live upstream" and drop the client although
  an upstream is idle: it makes `sock_num` probes on a ring of `real_num`.
* With more groups or servers configured than the arrays hold, the index test
  compares with the uncut number, which is cut only behind the loop (411).
* A page of exactly `size` characters has its NUL written behind the room `nleft`
  stands for.

Beside these, `hostile` and `groups` reach every kind of fault: only the first
server of the first group can be used, a client that hangs up or pipelines at the
wrong moment ends in undefined behaviour, and a request whose upstream fails is
never answered. Every context that is freed leaves its idle handle in the loop's
queue, and every reconnect puts a timer there twice. A total of 2^31 or more is
shown as a negative number, the request's sort field as 0. The rates of the groups
are tabulated and read by nobody. A negative `Title_length` survives when no later
line is compared with a later name (`ChecksAsWritten` says which); its only readers
have no caller. A `res.html` with more than `MAX_RES_VARS_NUM` variables is loaded
over the text of `none.html`.

## Not modelled

* The magic command of `on_request`, which is off unless configured.
* `get_redis_ctx`, which has no caller, and the `referer_group.conf` table, which
  has no reader.
* libuv inside: several idle handles in one iteration; where the broken links of its
  queue of handles lead, which the counted breaches leave behind.
* Names that `server_assign_conf_item` and `server_group_assign_conf_item` accept
  because they compare over the length of the name read: abbreviations and the empty name.
* More than one upstream in `Wire`: their callbacks do not find the context.
* The interface structures (`define.h`, `search.h`, most of `template.h`) and
  logging: types and wording; the numbers that matter are constants of the modules.
* What the tables of field and method names say beyond "known"; of `config.conf`
  all but `enable_digest`; character sets and `get_gbk_from_utf8`, which is the
  C library's `mbstowcs`; the Makefile, but for `NDEBUG`.
* The texts `as_char_value_to_other_process` would write: there is no document to take
  them from, so only what becomes of the page is modelled.
* Functions without a caller: `get_redis_ctx`, `temp_make_high_light` and
  `temp_sort_high_light` (for a `Search_result_t` of an older interface),
  `str2lower`, `strstrGBK`, `gbk_blank_to_en`, `no_escape`. `trimNR` is part of
  reading a line.

## Plan

Done, in this order: `Topology` and `Server` with their abstract specifications
and proofs; `Conf`; `ServerConf`; `TemplatePage`; `TemplateLoad`; `Startup`, which
composes the loads; `Wire`; `Strings` and `TemplateText`; numbers and dates in
`TemplatePage`; the proofs of `ServerProofs`, `AnswerProofs`, `ConfigProofs`,
`WireProofs`, `StartupProofs`, `TemplatePageProofs` and `TextProofs`, over `Lemmas`.

Left: `Server` and `Wire`, that a read of `Wire` is one of `Server`'s, in a mapping of
cells to pieces.
