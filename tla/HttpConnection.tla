---------------------------- MODULE HttpConnection ----------------------------
(***************************************************************************)
(* One HttpConnection of async_web_server_cpp: the read of the request,    *)
(* the dispatch to the request handler, the mutex-protected write queue    *)
(* with its single outstanding async_write, the sticky error, and the      *)
(* shared ownership that decides when the socket is closed.                *)
(*                                                                         *)
(* A step is what runs without another thread being able to see the        *)
(* middle of it: a critical section of write_mutex_, or a handler up to    *)
(* its next call into the connection.  The request handler and the         *)
(* application threads are any code that uses the public interface.        *)
(***************************************************************************)
EXTENDS Naturals, Sequences, FiniteSets

CONSTANTS Threads,          \* the threads that run io_service::run()
          Writers,          \* application threads a handler may share the connection with
          Kinds,            \* what the bytes of a block are; "status" is a status line
          KeepsReading,     \* do handlers call async_read (websocket, body collector)?
          MaxWrites         \* bound: calls of write() in a behaviour

ASSUME ConnectionAssumption ==
  /\ "status" \in Kinds
  /\ KeepsReading \in BOOLEAN
  /\ MaxWrites \in Nat

VARIABLES
  write_in_progress,        \* write_in_progress_
  pending_write_buffers,    \* pending_write_buffers_, a sequence of blocks
  pending_write_resources,  \* pending_write_resources_, the owners held
  writes,                   \* async_write operations asio has not completed
  last_error,               \* last_error_: "none", "read" or "write"
  reading,                  \* callback of the outstanding async_read_some
  verdict,                  \* what the request parser said of the bytes read
  pc,                       \* what each io thread is executing
  replies,                  \* write() calls the stock 400 reply still makes
  holders,                  \* application threads that own a HttpConnectionPtr
  calls,                    \* history: every block passed to write()
  wire,                     \* history: every block the client received
  terminated                \* an exception left an io thread: std::terminate

queueVars == <<write_in_progress, pending_write_buffers,
               pending_write_resources, writes, calls>>
readVars  == <<reading, verdict>>
vars == <<queueVars, last_error, readVars, pc, replies, holders, wire, terminated>>

Block == [id : Nat, kind : Kinds]
Write == [op : Nat, buffers : Seq(Block), resources : SUBSET Nat]

TypeOK ==
  /\ write_in_progress \in BOOLEAN
  /\ pending_write_buffers \in Seq(Block)
  /\ pending_write_resources \in SUBSET Nat
  /\ writes \in SUBSET Write
  /\ last_error \in {"none", "read", "write"}
  /\ reading \in {"none", "request", "more"}
  /\ verdict \in {"unread", "complete", "invalid", "incomplete"}
  /\ pc \in [Threads -> {"idle", "handler", "reject", "callback"}]
  /\ replies \in 0 .. 3
  /\ holders \in SUBSET Writers
  /\ calls \in Seq(Block)
  /\ wire \in Seq(Block)
  /\ terminated \in BOOLEAN

\* Constructed and start()ed by HttpServer::handle_accept: the read of the
\* request is outstanding.
Init ==
  /\ write_in_progress = FALSE
  /\ pending_write_buffers = <<>>
  /\ pending_write_resources = {}
  /\ writes = {}
  /\ last_error = "none"
  /\ reading = "request"
  /\ verdict = "unread"
  /\ pc = [t \in Threads |-> "idle"]
  /\ replies = 0
  /\ holders = {}
  /\ calls = <<>>
  /\ wire = <<>>
  /\ terminated = FALSE

-------------------------------------------------------------------------------
(* The write queue.                                                        *)

\* Status lines are static strings, written without a ResourcePtr; every
\* other block is owned by the shared_ptr passed along with it.
Resources(b) == IF b.kind = "status" THEN {} ELSE {b.id}

\* Slip: the queue is not cleared when its blocks are handed to asio.
WritePendingNoClear(others, buffers, resources) ==
  /\ write_in_progress' = TRUE
  /\ writes' = others \cup {[op |-> Head(buffers).id,
                             buffers |-> buffers, resources |-> resources]}
  /\ pending_write_buffers' = buffers
  /\ pending_write_resources' = resources

\* Slip: the resources are cleared before they are bound to the completion.
WritePendingNoBind(others, buffers, resources) ==
  /\ write_in_progress' = TRUE
  /\ writes' = others \cup {[op |-> Head(buffers).id,
                             buffers |-> buffers, resources |-> {}]}
  /\ pending_write_buffers' = <<>>
  /\ pending_write_resources' = {}

\* write_pending() without an error: one async_write, beside the operations
\* in others, takes all there is.
WritePending(others, buffers, resources) ==
  /\ write_in_progress' = TRUE
  /\ writes' = others \cup {[op |-> Head(buffers).id,
                             buffers |-> buffers, resources |-> resources]}
  /\ pending_write_buffers' = <<>>
  /\ pending_write_resources' = {}

\* Slip: write() does not ask whether an async_write is outstanding.
DoWriteAtOnce(kind) ==
  LET block == [id |-> Len(calls) + 1, kind |-> kind]
  IN  /\ Len(calls) < MaxWrites
      /\ last_error = "none"
      /\ calls' = Append(calls, block)
      /\ WritePending(writes, Append(pending_write_buffers, block),
                      pending_write_resources \cup Resources(block))

\* write(): the caller's block is queued before anything can throw.
DoWrite(kind) ==
  LET block == [id |-> Len(calls) + 1, kind |-> kind]
      buffers == Append(pending_write_buffers, block)
      resources == pending_write_resources \cup Resources(block)
  IN  /\ Len(calls) < MaxWrites
      /\ calls' = Append(calls, block)
      /\ \/ /\ ~write_in_progress
            /\ last_error = "none"
            /\ WritePending(writes, buffers, resources)
         \/ /\ write_in_progress \/ last_error # "none"
            /\ pending_write_buffers' = buffers
            /\ pending_write_resources' = resources
            /\ UNCHANGED <<write_in_progress, writes>>

\* The write() that starts in this state throws system_error(last_error_).
WriteThrows == ~write_in_progress /\ last_error # "none"

\* The socket takes the next block of an outstanding async_write.
Transmit(w) ==
  /\ w.buffers # <<>>
  /\ wire' = Append(wire, Head(w.buffers))
  /\ writes' = (writes \ {w}) \cup {[w EXCEPT !.buffers = Tail(@)]}
  /\ UNCHANGED <<write_in_progress, pending_write_buffers,
                 pending_write_resources, calls, last_error, readVars, pc,
                 replies, holders, terminated>>

\* Slip: what queued up during the write waits for the next write().
CompleteWriteNoNext(w) ==
  /\ w.buffers = <<>>
  /\ write_in_progress' = FALSE
  /\ writes' = writes \ {w}
  /\ UNCHANGED <<pending_write_buffers, pending_write_resources, terminated>>

\* handle_write() for an async_write that sent everything: the next one
\* starts at once if blocks queued up behind it.
CompleteWrite(w) ==
  /\ w.buffers = <<>>
  /\ \/ /\ pending_write_buffers = <<>>
        /\ write_in_progress' = FALSE
        /\ writes' = writes \ {w}
        /\ UNCHANGED <<pending_write_buffers, pending_write_resources,
                       terminated>>
     \/ /\ pending_write_buffers # <<>>
        /\ last_error = "none"
        /\ WritePending(writes \ {w}, pending_write_buffers,
                        pending_write_resources)
        /\ UNCHANGED terminated
     \/ /\ pending_write_buffers # <<>>
        /\ last_error # "none"          \* write_pending() throws here
        /\ write_in_progress' = FALSE
        /\ writes' = writes \ {w}
        /\ terminated' = TRUE
        /\ UNCHANGED <<pending_write_buffers, pending_write_resources>>

HandleWriteOk(t) ==
  /\ pc[t] = "idle"
  /\ \E w \in writes : CompleteWrite(w)
  /\ UNCHANGED <<calls, last_error, readVars, pc, replies, holders, wire>>

\* Slip: the error is not remembered.
HandleWriteErrorForgotten(t) ==
  /\ pc[t] = "idle"
  /\ \E w \in writes : /\ w.buffers # <<>>
                       /\ writes' = writes \ {w}
  /\ write_in_progress' = FALSE
  /\ UNCHANGED <<pending_write_buffers, pending_write_resources, calls,
                 last_error, readVars, pc, replies, holders, wire, terminated>>

\* handle_write() with an error: what the client did not take is dropped.
HandleWriteError(t) ==
  /\ pc[t] = "idle"
  /\ \E w \in writes : /\ w.buffers # <<>>
                       /\ writes' = writes \ {w}
  /\ write_in_progress' = FALSE
  /\ last_error' = "write"
  /\ UNCHANGED <<pending_write_buffers, pending_write_resources, calls,
                 readVars, pc, replies, holders, wire, terminated>>

-------------------------------------------------------------------------------
(* Reading, on the strand: no other read handler of this connection runs.  *)

StrandFree == \A t \in Threads : pc[t] = "idle"

\* handle_read_raw() with an error (the client closed, or a reset).  It sets
\* last_error_ without write_mutex_; a write() racing with it sees the old or
\* the new value, which is what running before or after it sees.
ReadError ==
  /\ reading # "none"
  /\ StrandFree
  /\ reading' = "none"
  /\ last_error' = "read"
  /\ UNCHANGED <<queueVars, verdict, pc, replies, holders, wire, terminated>>

\* Slip: the connection goes on reading by itself while it is being served.
HandleReadAgain(t, v) ==
  /\ reading = "request"
  /\ StrandFree
  /\ verdict' = v
  /\ pc' = [pc EXCEPT ![t] = "handler"]
  /\ UNCHANGED <<reading, queueVars, last_error, replies, holders, wire,
                 terminated>>

\* handle_read(): a parse result with a value, true or false, goes to the
\* request handler; a result without one gets the stock 400 reply.
HandleRead(t, v) ==
  /\ reading = "request"
  /\ StrandFree
  /\ reading' = "none"
  /\ verdict' = v
  /\ \/ /\ v \in {"complete", "invalid"}
        /\ pc' = [pc EXCEPT ![t] = "handler"]
        /\ UNCHANGED replies
     \/ /\ v = "incomplete"
        /\ pc' = [pc EXCEPT ![t] = "reject"]
        /\ replies' = 3
  /\ UNCHANGED <<queueVars, last_error, holders, wire, terminated>>

\* handle_read_raw() for a follow-up read: the handler's own callback.
HandleReadMore(t) ==
  /\ reading = "more"
  /\ StrandFree
  /\ reading' = "none"
  /\ pc' = [pc EXCEPT ![t] = "callback"]
  /\ UNCHANGED <<queueVars, last_error, verdict, replies, holders, wire,
                 terminated>>

-------------------------------------------------------------------------------
(* What runs on an io thread between two calls into the connection.        *)

\* handle_read() catches whatever the request handler throws; nothing
\* catches what the 400 reply or a read callback throws, and an exception
\* that leaves io_service::run() leaves the thread of the pool.
Throw(t) ==
  /\ pc' = [pc EXCEPT ![t] = "idle"]
  /\ terminated' = (pc[t] # "handler")

UserCode(t) == pc[t] \in {"handler", "callback"}

\* The request handler or a read callback calls write().
ThreadWrite(t, kind) ==
  /\ UserCode(t)
  /\ DoWrite(kind)
  /\ IF WriteThrows THEN Throw(t) ELSE UNCHANGED <<pc, terminated>>
  /\ UNCHANGED <<last_error, readVars, replies, holders, wire>>

\* It gives its HttpConnectionPtr to an application thread.
Retain(t, w) ==
  /\ UserCode(t)
  /\ w \notin holders
  /\ holders' = holders \cup {w}
  /\ UNCHANGED <<queueVars, last_error, readVars, pc, replies, wire, terminated>>

\* It calls async_read() for more bytes of this connection.
AsyncRead(t) ==
  /\ KeepsReading
  /\ UserCode(t)
  /\ reading = "none"
  /\ \/ /\ last_error # "none"
        /\ Throw(t)
        /\ UNCHANGED reading
     \/ /\ last_error = "none"
        /\ reading' = "more"
        /\ UNCHANGED <<pc, terminated>>
  /\ UNCHANGED <<queueVars, last_error, verdict, replies, holders, wire>>

Return(t) ==
  /\ UserCode(t)
  /\ pc' = [pc EXCEPT ![t] = "idle"]
  /\ UNCHANGED <<queueVars, last_error, readVars, replies, holders, wire,
                 terminated>>

\* Slip: the reply does not end after its content.
RejectWriteOn(t) ==
  /\ pc[t] = "reject"
  /\ \E kind \in Kinds : /\ (kind = "status") = (replies = 3)
                         /\ DoWrite(kind)
  /\ replies' = replies - 1
  /\ IF WriteThrows THEN Throw(t) ELSE UNCHANGED <<pc, terminated>>
  /\ UNCHANGED <<last_error, readVars, holders, wire>>

\* The stock 400 reply: status line, headers, content, one write() each.
RejectWrite(t) ==
  /\ pc[t] = "reject"
  /\ \E kind \in Kinds : /\ (kind = "status") = (replies = 3)
                         /\ DoWrite(kind)
  /\ replies' = replies - 1
  /\ \/ /\ WriteThrows
        /\ Throw(t)
     \/ /\ ~WriteThrows
        /\ pc' = [pc EXCEPT ![t] = IF replies = 1 THEN "idle" ELSE @]
        /\ UNCHANGED terminated
  /\ UNCHANGED <<last_error, readVars, holders, wire>>

-------------------------------------------------------------------------------
(* Application threads that own the connection (a streamer's callback).    *)

\* write(); an exception is the application's to catch.
AppWrite(w, kind) ==
  /\ w \in holders
  /\ DoWrite(kind)
  /\ UNCHANGED <<last_error, readVars, pc, replies, holders, wire, terminated>>

\* The application drops its HttpConnectionPtr.
Release(w) ==
  /\ w \in holders
  /\ holders' = holders \ {w}
  /\ UNCHANGED <<queueVars, last_error, readVars, pc, replies, wire, terminated>>

-------------------------------------------------------------------------------

Step(t) ==
  \/ HandleWriteOk(t)
  \/ HandleWriteError(t)
  \/ \E v \in {"complete", "invalid", "incomplete"} : HandleRead(t, v)
  \/ HandleReadMore(t)
  \/ \E kind \in Kinds : ThreadWrite(t, kind)
  \/ \E w \in Writers : Retain(t, w)
  \/ AsyncRead(t)
  \/ Return(t)
  \/ RejectWrite(t)

Next ==
  /\ ~terminated
  /\ \/ \E w \in writes : Transmit(w)
     \/ ReadError
     \/ \E t \in Threads : Step(t)
     \/ \E w \in Writers, kind \in Kinds : AppWrite(w, kind)
     \/ \E w \in Writers : Release(w)

Spec == Init /\ [][Next]_vars

\* Fairness.  The client keeps taking bytes (or the write fails); the pool
\* runs what it has started; and since asio queues completions first in,
\* first out, a finished write is handled however much else the pool does.
Fairness ==
  /\ WF_vars(\E w \in writes : Transmit(w))
  /\ SF_vars(\E t \in Threads : HandleWriteOk(t))
  /\ \A t \in Threads : WF_vars(Return(t)) /\ WF_vars(RejectWrite(t))

FairSpec == Spec /\ Fairness

-------------------------------------------------------------------------------
(* What makes the connection correct.                                      *)

\* The blocks of the outstanding async_write the client has not taken.
InFlight == IF writes = {} THEN <<>> ELSE (CHOOSE w \in writes : TRUE).buffers

\* Nothing more will be sent: an error, and no write that is still going.
Broken == last_error # "none" /\ writes = {}

\* The connection is alive as long as a shared_ptr to it exists: in a bound
\* completion handler, in running user code, or with an application.
Referenced ==
  \/ writes # {}
  \/ reading # "none"
  \/ holders # {}
  \/ \E t \in Threads : pc[t] # "idle"

\* async_write() is a composed operation: a second one started on the same
\* socket would interleave its bytes with the first.  write_in_progress_
\* must say exactly whether one is outstanding, across write(),
\* write_pending(), handle_write() and every throw.
OneWrite ==
  /\ \A v, w \in writes : v = w
  /\ write_in_progress <=> writes # {}

\* What the client got, what is being sent and what is queued are together
\* the blocks of all write() calls, in call order and each once; after a
\* break the client is left with a prefix of them.
InOrder ==
  /\ Len(wire) <= Len(calls)
  /\ \A i \in 1 .. Len(wire) : wire[i] = calls[i]
  /\ ~Broken => wire \o InFlight \o pending_write_buffers = calls

\* A block queued behind an async_write is picked up by its completion: on a
\* healthy connection nothing stays queued with no write to carry it out.
NoLostWakeup ==
  (~write_in_progress /\ last_error = "none") => pending_write_buffers = <<>>

\* const_buffers do not own their bytes: while a block is queued or being
\* sent, the queue or the pending completion holds the block's ResourcePtr.
ResourcesHeld ==
  /\ \A i \in DOMAIN pending_write_buffers :
       Resources(pending_write_buffers[i]) \subseteq pending_write_resources
  /\ \A w \in writes : \A i \in DOMAIN w.buffers :
       Resources(w.buffers[i]) \subseteq w.resources

\* The socket is closed by the last shared_ptr going away; that must never
\* cut off a reply: a connection without error closes fully flushed.
ClosedMeansFlushed == Referenced \/ last_error # "none" \/ wire = calls

\* No exception leaves a thread of the pool, which would end the process.
NeverTerminates == ~terminated

\* The request parser calls a request good, bad or unfinished: a good one is
\* for the request handler, a bad one is answered 400, and an unfinished one
\* needs more data (http_request_parser.hh).
VerdictIsObeyed ==
  \A t \in Threads : /\ pc[t] = "handler" => verdict = "complete"
                     /\ pc[t] = "reject" => verdict = "invalid"

\* The abstract channel this connection implements.
Channel == INSTANCE BlockChannel WITH accepted <- calls,
                                      delivered <- wire,
                                      broken <- Broken

\* The connection's write() is that channel: any mix of threads, throws and
\* errors looks to the client like one ordered stream.
ImplementsChannel == Channel!Spec

\* The queue and its single write lose no wakeup: the connection is the fair
\* channel, on which every block passed to write() reaches the client unless
\* the channel breaks.
DeliversEverything == Channel!FairSpec

\* Where handlers do not read on, a connection that was served is closed
\* once no application holds it: the completion handlers' own references
\* do not keep it alive.
ClosesWhenReleased == (verdict # "unread") ~> (~Referenced \/ holders # {})
===============================================================================
