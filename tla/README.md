# Ignition video server: models, checks and proofs

The repository is an HTTP server (`src/src/async_web_server_cpp`, on asio) and
on it a server that streams the images of ignition-transport topics
(`src/src/web_video_server`).  This directory holds TLA+ modules of the parts
whose correctness is a matter of order, failure and concurrency, the TLC runs
that check them on small instances, and TLAPS proofs for every instance.

Paths below are relative to `src/`; `hc` is
`src/async_web_server_cpp/http_connection.cpp`.

## 1. Inventory

### Processes

* The **main thread** constructs `WebVideoServer`, calls `spin()`, sleeps until
  a signal, and destroys the server (`web_video_server_main.cc`).
* The **io threads** run `io_service::run()` (`http_server.cpp:29-40`):
  accept, read and write completions, and with them the request handlers.
  `WebVideoServer` asks for one; `HttpServer` allows any number.
* The **reception thread** of ignition-transport runs `OnImageMsg` of every
  subscribed streamer.

### Components

| component | state | operations | talks to |
|---|---|---|---|
| `HttpConnection` | `write_in_progress_`, `pending_write_buffers_`, `pending_write_resources_` (under `write_mutex_`), `last_error_`, the request parser, an optional outstanding read | `start`, `async_read`, `write`, `handle_read`, `handle_read_raw`, `handle_write` | the socket; the request handler; whoever holds a `shared_ptr` to it |
| `HttpRequestParser` | `state_` and the request being filled in | `parse`, `consume` | `HttpConnection` |
| `HttpRequest` | method, uri, path, query parameters, headers | `parse_uri`, the getters | the handlers |
| Replies (`ReplyBuilder`, static, file and file-system handlers) | status, headers | `write`, the handlers' `operator()` | three `write()` calls of a connection |
| `HttpRequestHandlerGroup`, `HttpRequestBodyCollector` | the handlers; the body so far | `operator()` | the connection, follow-up reads |
| `HttpServer` | acceptor, next connection, threads | `run`, `start_accept`, `handle_accept`, `stop` | asio |
| `WebsocketFrame`, `WebsocketFrameParser`, `WebsocketFrameBuffer` | the frame and message being assembled | `fromMessage`, `serialize`, `consume` | the websocket connection |
| `WebsocketConnection` and its request handler | the three above, a message handler, a connection | the upgrade, `handle_read`, `sendMessage` | `HttpConnection`, whose follow-up reads call it by a plain `this` |
| `WebVideoServer` | stream types, subscribers, the server | `handle_stream`, `handle_list_streams`, `handle_stream_viewer`, `spin` | everything above |
| `IgnTransportImageStreamer` | `inactive`, `initialized`, the subscription | `Start`, `OnImageMsg` | the topic, the connection |
| `PngStreamer`, `MultipartStream` | `pending_footers_` | `sendInitialHeader`, `sendPartAndClear`, `isBusy` | the connection, the system clock |
| `LibavStreamer` and its three codecs | codec and format contexts, first stamp | `Initialize`, `SendImage` | libav, the connection |

A request travels `accept -> HttpConnection -> parser -> HandlerGroup ->
WebVideoServer handler`, on an io thread.  A stream then leaves that thread: the
streamer is stored with its `HttpConnectionPtr`, and the reception thread calls
`write()` while the io thread handles completions.

### What is hard

* `write()` from several threads against the completion of the one outstanding
  `async_write`: order, double writes, lost wakeups, buffers that do not own
  their bytes.
* Exceptions: `write()` queues first and throws afterwards; what catches depends
  on who called, and nothing does in a completion handler.
* Lifetime: the socket closes with the last `shared_ptr`.
* A stream's pacing: weak pointers that expire, a system clock that may be set
  back, a time-out compared in clock ticks.
* Character automata (requests, websocket frames) fed in arbitrary pieces.
* Three-valued results (`std::optional<bool>`) tested as two-valued.
* Start-up and shutdown order.

`PROJECT.json` lists each hazard at its line, with the properties that cover it.

## 2. The modules

| module | models |
|---|---|
| `BlockChannel` | the abstraction: an ordered channel that accepts blocks, delivers them in order and may break |
| `HttpConnection` | one connection: read, dispatch, write queue, errors, throws, lifetime |
| `PngStream` (extends `HttpConnection`) | one `/stream?type=png` request: `handle_stream`, `PngStreamer`, `MultipartStream`, the reception thread and the clock |
| `LibavStream` (extends `HttpConnection`) | one `/stream` request of a libav type: `LibavStreamer`'s set-up, head, images and error reply |
| `HttpReply` (extends `HttpConnection`) | replies as the blocks a handler is still to write |
| `BodyCollector` (extends `HttpReply`) | `HttpRequestBodyCollector`: a body over follow-up reads |
| `WebsocketConnection` (extends `HttpReply`) | the upgrade, and the life of a session on its connection |
| `HandlerGroup` (extends both) | `HttpRequestHandlerGroup` with files, body collector and upgrade behind it, a stock reply by default, and the application's handlers: the composition of the four above |
| `HttpRequestParser` | the request automaton and what a request is |
| `HttpRequest` (extends `HttpRequestParser`) | `parse_uri()` on the parser's result, and the look-up of query parameters |
| `WebsocketReader` | frame parser, frame buffer, the loop of `handle_read()`; `serialize()` as the peer |
| `HttpServer` | the chain of accepts, the thread pool, `stop()` |
| `WebVideoServer` (extends `HttpServer`) | the life of the whole server: construction, `spin()`, handlers and callbacks, the members' destruction |
| `HttpConnectionProofs`, `PngStreamProofs`, `LibavStreamProofs`, `HttpServerProofs`, `WebVideoServerProofs`, `HandlerGroupProofs`, `WebsocketReaderProofs`, `HttpRequestProofs` | theorems |
| `MCHandlerGroup`, `MCHttpConnection`, `MCPngStream`, `MCLibavStream`, `MCHttpRequestParser`, `MCWebsocketReader` | instances for TLC |

Definitions headed "Slip" are not part of a specification.  Each is a wrong
version of the definition after it, of the kind a careless change would make;
`PROJECT.json` says which property fails under it.

### HttpConnection

A *block* is one buffer given to `write()`: a number, unique per call, and a
kind.  A step is what no other thread can see the middle of: one critical
section of `write_mutex_`, or handler code up to its next call into the
connection.

| model | code |
|---|---|
| `DoWrite(kind)` | `write()` under the mutex (hc 97-118): push, and `write_pending()` if no write is in progress |
| `WritePending` | `write_pending()` (hc 122-135) without an error |
| `Throw(t)` | an exception in a handler: caught in `handle_read` (hc 39-48), else out of the io thread |
| `HandleWriteOk`, `HandleWriteError` | `handle_write()` (hc 137-153) |
| `Transmit` | the socket taking a block of the outstanding `async_write` |
| `HandleRead(t, v)` | `handle_read()` for each verdict of the parser, with the code's own test of it (hc 36, 49) |
| `RejectWrite` | the three `write()` calls of the stock 400 reply |
| `ReadError`, `HandleReadMore`, `AsyncRead` | the outstanding read (hc 59-82) |
| `ThreadWrite`, `Retain`, `Return` | what a request handler or read callback may do |
| `AppWrite`, `Release` | what an application thread with a `HttpConnectionPtr` may do |

The set `writes` holds the outstanding `async_write` operations.  The code is
supposed to keep it at one element; the model does not assume so.  `calls` and
`wire` are history variables.  The unsynchronised write of `last_error_` (hc 69)
is one step, because a `write()` that races with it reads the old or the new
value and both orders are behaviours.  Handlers run on the strand one at a time
per connection; completions of writes are not on the strand and run beside them.

### PngStream

The request handler of `HttpConnection` becomes `handle_stream`: three writes of
the initial header, `Start()`, and the streamer keeps the connection.  The
application thread becomes the reception thread: each image is `OnImageMsg` (the
check of `inactive`, the PNG and its stamp), `IsBusy` (the pops, then the
decision), and three writes.  `pending_footers` holds block numbers, so whether
a weak pointer expired is read off the connection's state: nothing queued and no
bound completion owns the block.  The clock is the set `fresh` of stamps it has
not passed; `isBusy()` compares a duration's tick count with 0.5, so one tick is
the time-out, and the model needs no more of the clock than that.

### LibavStream

`tpc` is where the reception thread is between two calls that matter: a write,
or a call of libav that may fail.  The first image goes through `SetUp` (any of
the six failures of `Initialize()` before the head), the status and headers,
the container's head (`DispatchOutputPacket`, libav's callback, any number of
times up to `MaxPackets`) and `HeadWritten`; each later one through `Encode`,
the frame's packets, `FrameWritten` and `encoded_frame` (`WriteEncodedFrame`).
`SendError` is the stock 500 reply of a failed `Initialize()`, which may follow
a head that was sent; `Catch` is `OnImageMsg`'s handler of any exception.

### HandlerGroup, HttpReply, BodyCollector, WebsocketConnection

The connection's request handler is here the library's own group.  A step of the
composition is a step of the connection or leaves it alone; `taken` says that a
handler answers and `trying` is the loop's `i`.

| model | code |
|---|---|
| `Pass`, `Take`, `TakeDefault` | the loop of `operator()` (`http_request_handler.cpp:46-58`): a predicate that does not match or a handler that returns false; one that answers, or will; the default |
| `SendBlock` | the next `write()` of the reply (`http_reply.cpp:267-278, 384-392, 422-426`); what it throws ends the reply |
| `StartCollector`, `CollectChunk` | the collector's constructor and `handle_read()` with the bytes that came: reject, keep, call the application's handler |
| `AskForMore`, `MoreOfBody` | its `async_read()`, and the client's next bytes |
| `Upgrade`, `Establish`, `Accept` | the upgrade handler: the 101, or 400; the `WebsocketConnection`; the first `handle_read()` |
| `Keep`, `Drop`, `AppSendFrame` | an application that keeps the pointer it is given, and what it does with it |
| `SendFrame`, `ReadFrames`, `MoreFrames` | frames sent by the handlers on the io thread; the read after the loop of `handle_read()`; the client's next frames |

Bytes of a body are their own positions behind the head, so `bodies`, what the
application was called with, shows which bytes it is made of.  Whether the object
of a session is alive (`Alive`) follows from who holds a pointer: the upgrade
while it runs, or the application; the reads are bound to a plain `this` and do
not count.  A step that runs its code while it is gone sets `misused`, which ends
the behaviour.  What the bytes of a session are is `WebsocketReader`'s.  Which
predicates match, whether a file exists and what the three upgrade headers say
are any choice.

### HttpRequestParser and HttpRequest

The automaton as a table of transitions over character classes, the classes
being what `is_char`, `is_ctl`, `is_tspecial`, `is_digit` and the literal
characters tell apart.  The reference beside it is declarative: unfold, cut at
CRLF, request line, headers.  Only the value of a header may be folded (`InValue`):
white space behind the line break of an unfinished name continues nothing.
`ParseUri` follows the parse, whatever its result, as `handle_read()` calls it
(hc 38).  It takes the query token by token: `TokenEnds` and `TokenStart` are what
`getline()` does, its rule for the last token included, and `QueryParams` is the
loop over the tokens.  Its reference, `ParamsAreTheQuery`, looks at the text of
the URI alone.

### WebsocketReader

One action for each kind of field of a frame: `HeaderByte1`, `HeaderByte2`,
`LengthByte` (ten states of the code), `MaskByte` (four) and `BodyByte`.  All the
parser knows between two reads is in its members, so a step is a byte, and where
a read ends does not show.  `Buffer` is `WebsocketFrameBuffer::consume()` with
the test `handle_read()` makes of its result, that is, of an optional that has a
value: a rejected message is delivered too.  The sender may use every form of
length and mask that has room for the length; `Serialize` is the repository's
own sender.  A length's bytes are taken off with `Shifted`, as `serialize()`
shifts it; the reader puts them back with a multiplication per byte.

### HttpServer

The accept under way is in one of three places: `accepts` (outstanding in asio),
`posted` (completed, its handler queued), or a thread at `"accept"`, between
`handle_accept()`'s start of the connection and its `start_accept()`.  `Cancel`,
`Close`, `StopService` and `Join` are the lines of `stop()`, each a step between
which the io threads run.  Connections serve (`Serve`, `Served`) and end
(`End`); what they do meanwhile is `HttpConnection`.  `stop()` and
`start_accept()` may touch the acceptor at once, which asio does not define; the
model has the two calls in either order.

### WebVideoServer

`members` shrinks from its end, as the members are destroyed; `HttpServer`'s
`stop()` runs inside the destruction of `server`.  A handler is the sequence of
its accesses to the members (`Use`), and `misused` collects what was gone at an
access.  A port in use leaves the server null (`Construct`), which `spin()`
dereferences: the state `"null server used"`.

## 3. The runs

| run | instance | shows |
|---|---|---|
| `conn_pool` | 2 io threads, 2 application threads, follow-up reads, 4 writes, symmetry | type, one write at a time, order, no lost wakeup, owners held, refinement of `BlockChannel` |
| `conn_server` | 1 io thread, 1 application thread, no follow-up reads, 4 writes, fairness | nothing ends the process; everything accepted is delivered or the connection breaks; closed means flushed; released means closed |
| `stream` | queue of 2, a clock that may be set back, 12 writes (header and three images), fairness | well-formed reply, idle is never busy, unsent parts per tick, inactive is silent, a broken stream ends |
| `group` | files, body, websocket and the default; 2 io threads, 1 application thread, 4 writes; lengths none, 0, 3 and 4 with up to 4 bytes behind the head; fairness | one reply; the body is exact, and handled; a session is never deaf |
| `libav` | 8 writes, up to 2 blocks for a head or a frame, libav failing anywhere, fairness | one head, at most one error reply and nothing after it; images only behind a complete head; inactive is silent; a broken stream ends |
| `parser` | four requests (bare; folded; bytes above 127 and odd versions; a query), a text that looks like one (a name, not a value, before a fold) and every text one insertion, deletion or replacement away | accepts exactly requests, loses no character; every look-up of a parameter is what the URI's text says |
| `websocket` | 3 frames, each of 19: all forms of length and mask, serialized ones of 0, 125 and 126 bytes, known and unknown opcodes, fragments | frame boundaries and contents, reassembly, recovery after anything |
| `server` | 2 threads, 2 clients, fairness | one accept under way, into the connection that will be started, for a client of its own; clients are accepted; `stop()` returns |
| `life` | 1 io thread, 2 clients, fairness | no thread is left when the server goes, and the node outlives the handlers; the destructor returns |
| `conn_verdict`, `session_dropped`, `life_shutdown` | smallest | the findings below |

Bounds.  Four writes let a block be sent, one wait behind it and two more meet
its completion; every property of the queue concerns at most the in-flight
write, the queue and one newcomer.  Twelve writes are the three of the header
and three whole images: one in flight, one queued, one decided by `isBusy()`.
Eight writes of a libav stream are a head of four blocks and an image, or a head
and a whole error reply.  In `group` four writes are a whole reply and one
more, or a 101 and two frames from either thread; four bytes let a body of three
come in one, two or three reads and with a byte behind it, and one of four never
have one.  The query of `parser` holds a name given twice, one
without a value, an empty name and an empty pair, so that one edit makes a second
"=" or "?", a "&" at the end, or two names of one.  Three frames let a message be started, continued and
finished, and something stand before, between or after.  Two clients let one
connection be served while the next is accepted.  Deadlock checking is off: a
served and closed connection, a parser without input, and a server that is gone
have nothing to do.

Excluded on purpose, by what is stated or by the constants' assumptions
(`FitsItsLayout`): unmasked frames with
a zero length in a long form, on which the frame parser takes a byte of the next
frame (`websocket_message.cpp:166`; no client sends them); and reassembly when
control frames stand between fragments, which the frame buffer does not support
(`websocket_message.cpp:223`; `Resynchronises` is checked there all the same).

Fairness.  `Transmit` is weakly fair: the client keeps taking bytes, or the
write fails, which is always allowed.  `HandleWriteOk` and `HandleAccept` are
strongly fair over the pool: they need a free io thread, the other handlers may
take it again and again, but asio runs completions first in first out.  Handler
code returns.  For the streams: images keep coming, the reception thread and the
clock run, and the clock is not set back for ever (`BrokenStreamEnds` fails if
it is: footers then never time out, and no write finds the error).  For the
group: a handler that runs goes on, and a client sends the bytes it announced
unless the connection fails.  For the server: `run()` is called, a started `stop()` goes on, and an
accept for a waiting client succeeds if it is tried for ever
(`SF(AcceptSucceeds)`: no endless shortage of descriptors).  For the life:
`main()` goes on while it destroys.  Nothing obliges a client to send a request,
a handler to write, an application to release, an owner to stop or a signal to
come; read, write and accept errors are never obliged to occur.

## 4. Findings

* **The parser's verdict is not obeyed** (`conn_verdict`).  hc 36 tests
  `result.has_value() && result`; `result` is an `optional`, and its conversion
  to `bool` is `has_value()` again.  A request the parser rejected reaches the
  handler with the fields filled in so far.  And hc 49 takes an empty result,
  which means more data is needed, for a bad request: the branch that reads on
  (hc 53-56) is dead, and a request must arrive in one read.
* **A dropped websocket connection runs on** (`session_dropped`).
  `websocket_connection.cpp:89` binds the next read to `this`; line 88 makes a
  weak pointer and does not use it (it would be empty: the class inherits
  `enable_shared_from_this` privately).  When the application does not keep the
  pointer, or drops it, the client's next frame runs `handle_read()` on a
  destroyed object.
* **The destructor pulls members from under the handlers** (`life_shutdown`).
  The members declared after `server` are destroyed before it, that is before
  its io thread is stopped and joined; `handle_stream()` may be using them.  A
  streamer is destroyed while the reception thread may be inside it.

Besides, the model of the connection shows that a read error can end the
process: with a follow-up read outstanding, a read error during a write with
more blocks queued makes `handle_write` throw out of `io_service::run()`
(`CompleteWrite`'s last disjunct, reached in `conn_pool` and `group`).  No
comment or test promises otherwise, so no run states it.  `WebVideoServer` reads
nothing after the request, so the video streams are safe (`conn_server`, and the
theorems `OneThreadNeverTerminates`, `StreamNeverTerminates`,
`LibavNeverTerminates`); users of websockets or the body collector are not.

## 5. The proofs

For all threads, writers, kinds, clients and bounds:

* `HttpConnectionProofs`: `TypeCorrect`, `OneWriteAtATime`, `WritesStayInOrder`,
  `WakeupsAreNotLost`, `ResourcesStayHeld`, `ClosedIsFlushed`,
  `ConnectionIsAChannel`, and `OneThreadNeverTerminates` (one thread, no
  follow-up reads).
* `PngStreamProofs`: `StreamUsesConnection` (every behaviour of the stream is
  one of the connection, so the theorems above carry over), `StreamTypeCorrect`,
  `FooterQueueStaysBounded`, `IdleStreamIsNotBusy`, `UnsentPartsArePaced`,
  `StreamNeverTerminates`, `StreamIsWellFormed`, `InactiveIsSilent`.
* `LibavStreamProofs`: `LibavUsesConnection`, `LibavTypeCorrect`,
  `LibavNeverTerminates`, `OneReplyPerStream`, `HeadComesFirst`,
  `InactiveStaysSilent`.
* `HttpServerProofs`: `ServerTypeCorrect`, `OneAcceptAlways`,
  `AcceptsGoIntoNewConnection`, `PoolStays`.
* `WebVideoServerProofs`: `WebUsesServer` (so the server's theorems hold in the
  whole life), `LifeTypeCorrect`, `HandlersEnd`.
* `HandlerGroupProofs`: `GroupUsesConnection` (the theorems of the connection
  hold below any group of handlers), `GroupTypeCorrect`, `OnlyOneReply`,
  `BodyArrivesExactly`, `AlwaysListens`; for any handlers in any order, and
  bodies of any length.
* `WebsocketReaderProofs`: `ReaderTyped`, `FramesWhole`, `MessagesWhole`,
  `Resynchronisation`; for any frames, with contents of any length in any form,
  and any number of them.
* `HttpRequestProofs`: `RequestTyped`, `RequestWhole`, `RequestAccepted`,
  `RequestAnswered`; for any texts.

**The connection.**  The inductive invariant (`QueueInv`) says the queue as one
sentence: at most one write, the flag agrees, and unless broken,
`wire \o in-flight \o pending = calls`; a queue that is not empty has a write in
front of it or an error.  Order alone is not inductive: without the one-write
clause two writes could each be "in flight".  `NeverTerminates` needs more: an
error and an unfinished write with a queue behind it must never meet, which holds
because with one thread a read error can only come before the first write.

**The streams.**  The steps of both onto the connection are steps of `HttpConnection`.
The form of a reply is strengthened with where each of the two writers stands:
for the PNG stream the number of blocks written so far modulo three is the
reception thread's program counter, until a throw, after which nothing is
written; for the libav stream `PlaceShape` says, place by place, whether there
is nothing yet, part of a head, a head and images, or an error reply starting at
some block.  `HandlerShape` says that a dispatched request is the only way to a
subscribed streamer, so nobody else writes.

Pacing is a matter of counting: a footer whose block is unsent is in the queue
unless its tick has passed, so the unsent parts of a tick are among
`pending_footers`, which is bounded.

**The handlers.**  What is written must be tied to where the handlers are.
`Dispatch` says who runs: nothing has happened before a handler takes the
request, one thread at a time runs for it, a collector excludes a session, and
an application holds the connection only behind the 101.  `Collected` says that
the collector's stream is what arrived.  `Written`, on top of both, says that
nothing is written while a body is collected, that the blocks written and the
blocks left are together one reply, and that a session has a whole 101 before
its first frame; a handler still in the handshake with nothing left to write has
written both blocks, which is what fails if the 101's `write()` threw, and then
the handler is gone.  `NeverDeaf` is inductive beside `Dispatch`.

**The server.**  The accept is a token with three places.  `AcceptInv` says
where it is and what its connection's socket is then; `PeersInv`, that no two
sockets have one client.  From the two follows, by counting, that a connection
object is always free to be the next (`FreshConnection`), which `start_accept()`
needs.

**The frames.**  The bytes on the wire are tied to the frames by `Chain`: what
follows the i-th boundary is the i-th frame and what follows the next.
`BoundaryInv` says that the frames completed are the first ones sent and that
what is unread is what follows so many boundaries, but for the bytes of the frame
under way; `Reading` says which state, which field and which value the parser has
after k bytes of a frame.  One lemma for each kind of field (`HeaderByte1Advances`
and so on) shows that a byte leads from k to k + 1 or completes the frame with
what its sender gave it.  For that a number must be what its bytes make
(`Shifted`, base 256), and a mask must come off twice applied: `Xor` is its own
inverse, bit by bit.  `MessageInv` says that what was delivered is what the frames
completed so far make, and that an unfinished message is the buffer's.

**The request.**  The specification is a statement about the whole text, which is
unfolded first; the parser never sees it whole.  `Spelled(u, s, r)` is therefore
said for every state s: the text u, without folds, that leads to s with the
fields of r filled so far.  `Lines` ties the state to the lines of the raw text,
which decide what is a fold: a line break at which white space goes on, in the
value of a header.  (Looking for the invariant showed that the reference had at
first allowed a fold in a name, which the parser rejects; the fifth text of
`parser` is there for that.)  A character then does one of three
things to the text without folds (`TextStep`): it joins it, it is inside a fold
and leaves it, or it starts a fold and takes the line break before it away; in
that last case the state goes from `header_line_start` back to a header's value.
`ReadInv`, the two together while the parser reads, is inductive, and
at the last newline it is `RequestIsItsText`.  The provers unfold concatenations
element by element; `Then` and `With` are the same operators under a name they do
not unfold, with the four laws that the proofs need.

**The verdict.**  `AcceptsExactlyRequests` speaks of positions: where the lines of
the text without folds begin and end, and what stands in them.  `Shape(u, s, r)`
says of the text u that led to the state s that its lines before some a are whole
(`LinesDone`) and what stands from a on (`Part`); whether a is the first line is
whether r has no header.  `ShapeStep` keeps it for every transition, the fold that
takes a line break away included, which makes the last line the current one
again.  A completed request follows at the last newline (`AcceptedIsRequest`), and
before it there is none (`NotYet`).  A rejection is about every continuation x of
what was read: a refused character neither ends a fold nor begins one
(`NoFoldRefused`, where a carriage return behind an unfinished name counts), so
the text of x without folds still begins with what was read and that character
(`RefusedIsKept`), and in a request what follows a `Part` is what its state takes
(`NextFits`).

**The query.**  `ParamsAreTheQuery` is inductive once a request is known to be
read to its end before `parse_uri()` is called (`QueryInv`); the work is in that
one step.  `Answers(q, n, params)` says of the first n positions of a query that
each name has what the last `Pieces` before n gives it; a position where no token
ends adds no piece, a token that is not empty is the last piece (`TokenIsPiece`),
and an assignment then answers for it (`AnswersNext`).  The pieces of the query
are the stretches of the URI behind its first "?" (`StretchesArePieces`), and what
a stretch gives to which name is unique (`GivesIs`).

**Induction over data.**  `Unfold`, `HeadersText`, `QueryParams`, `Messages`,
`Shifted` and the like are recursive functions, and what is said of them for every length is proved
by induction.  The library's induction theorems take an operator, which the
provers cannot instantiate; its well-foundedness of the naturals (`WFMin`) takes a
set.  The lemmas `LeastNatural` and `Induction` follow from it, and each use names
the set of the naturals for which the claim holds.

**The life.**  `MembersInv` says that the members alive are the first n of the
class, and that n below 2 (the node alone, or nothing) means the server is
joined; `JoinedInv`, that a joined server's threads are through.

Assumed: the named `ASSUME`s of the modules, which the runs evaluate.  Only
model-checked: liveness (`DeliversEverything`, `ClosesWhenReleased`,
`BrokenStreamEnds`, `ClientsAreAccepted`, `StopReturns`, `DestructorReturns`,
`BodyIsHandled`), which needs `ENABLED`.  Every safety property of a passing run
is a theorem.

## 6. Plan

Done: the connection, both kinds of stream, the request parser and the query
parameters, replies, the handler group with the body collector and the upgrade,
websocket frames and sessions, the accept server, the server's life, and the
proofs above.

Left, should the code call for it:

1. `WebVideoServer`'s own handlers behind its group: they are in `PngStream` and
   `LibavStream` as the only handler, and in `WebVideoServer` by their accesses.
2. Sizes and stamps of the images in `LibavStreamer`.

New statements join the runs of the module they are about where the instance
fits.

## 7. Not modelled, and why

* Text: pages, directory listings, header values, status lines, logging, the
  hash of a websocket key.  Look-ups of headers are any value where a handler
  makes them (`StartCollector`, `Upgrade`).  `HttpRequest::has_header()`, which
  returns the opposite of its name (`http_request.cpp:59-68`), is called by
  nothing.
* The header vectors of `static_reply` and `from_file` (`http_reply.cpp:256,
  371`), whose `std::copy` overwrites what is there and may run past the end:
  two sequential lines that no behaviour leads to.
* The PNG encoder and libav itself, and with libav the sizes and time stamps.
* ignition-transport (external: its reception thread is an actor) and asio
  (external: its promises are the actions `Transmit`, completion order, the
  strand and the completion of accepts).
* The test publisher `image_publisher.cc`, a single loop that produces images.
* The width of the HTTP version numbers, and `reserve()` of a frame's length
  (`websocket_message.cpp:161`), an allocation that may throw on the io thread
  as any code of a read callback may.
