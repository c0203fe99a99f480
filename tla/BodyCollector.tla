------------------------------ MODULE BodyCollector ------------------------------
(***************************************************************************)
(* HttpRequestBodyCollector: the request handler that reads on until it    *)
(* has the body of a request and then calls an application's handler.      *)
(*                                                                         *)
(* The bytes the client sends behind the head are numbered from one, so    *)
(* that a body shows which bytes it is made of.  They come with the head   *)
(* and in follow-up reads, cut anywhere; a client may send more than it    *)
(* announced.  The application's handler answers or not.                   *)
(***************************************************************************)
EXTENDS HttpReply, Integers

CONSTANTS Lengths,          \* what Content-Length may be read as; below zero is none
          MaxBytes          \* bound: bytes behind the head

ASSUME LengthsAssumption ==
  /\ MaxBytes \in Nat
  /\ Lengths \subseteq {n \in Int : n <= MaxBytes}

VARIABLES
  collector,                \* where the collector's handle_read() is
  length_,                  \* length_
  received_length_,         \* received_length_
  body_stream_,             \* body_stream_
  arrived,                  \* history: bytes read behind the head
  bodies                    \* history: what handler_ was called with

collectorVars == <<collector, length_, received_length_, body_stream_, arrived, bodies>>

CollectorTypeOK ==
  /\ collector \in {"none", "read", "more", "waiting", "over"}
  /\ length_ \in Int
  /\ received_length_ \in Nat
  /\ body_stream_ \in Seq(Nat)
  /\ arrived \in 0 .. MaxBytes
  /\ bodies \in Seq(Seq(Nat))

CollectorInit ==
  /\ collector = "none"
  /\ length_ = 0
  /\ received_length_ = 0
  /\ body_stream_ = <<>>
  /\ arrived = 0
  /\ bodies = <<>>

\* The constructor: stol() of Content-Length, or -1.
StartCollector ==
  /\ collector = "none"
  /\ collector' = "read"
  /\ length_' \in Lengths
  /\ UNCHANGED <<received_length_, body_stream_, arrived, bodies>>

\* No length: the request is bad, whatever was read.
RejectBody ==
  /\ length_ < 0
  /\ collector' = "over"
  /\ reply' = FullReply
  /\ UNCHANGED <<length_, received_length_, body_stream_, bodies>>

\* Slip: the length must be exceeded.
EnoughIsMore(received) == received > length_

Enough(received) == received >= length_

\* Slip: the body is all that was received.
BodyOfAll(stream) == stream

BodyOf(stream) == SubSeq(stream, 1, length_)

\* The chunk is kept; once there is enough, the application's handler_ gets
\* the body, and answers or does not.
KeepChunk(chunk) ==
  /\ length_ >= 0
  /\ body_stream_' = body_stream_ \o chunk
  /\ received_length_' = received_length_ + Len(chunk)
  /\ \/ /\ Enough(received_length_')
        /\ bodies' = Append(bodies, BodyOf(body_stream_'))
        /\ collector' = "over"
        /\ reply' \in {<<>>, FullReply}
     \/ /\ ~Enough(received_length_')
        /\ collector' = "more"
        /\ UNCHANGED <<bodies, reply>>
  /\ UNCHANGED length_

\* handle_read() on the bytes that came with the head, if any, or with a
\* follow-up read.
CollectChunk(t) ==
  /\ UserCode(t)
  /\ collector = "read"
  /\ \E k \in (IF pc[t] = "callback" THEN 1 ELSE 0) .. MaxBytes - arrived :
       /\ arrived' = arrived + k
       /\ RejectBody \/ KeepChunk([i \in 1 .. k |-> arrived + i])
  /\ UNCHANGED vars

\* It asks for more: static_handle_read is bound to a shared_ptr, so the
\* collector lives as long as the read is outstanding.
AskForMore(t) ==
  /\ collector = "more"
  /\ AsyncRead(t)
  /\ collector' = IF last_error = "none" THEN "waiting" ELSE "over"
  /\ UNCHANGED <<length_, received_length_, body_stream_, arrived, bodies, reply>>

\* The follow-up read completes: the client sent more.
MoreOfBody(t) ==
  /\ collector = "waiting"
  /\ arrived < MaxBytes
  /\ HandleReadMore(t)
  /\ collector' = "read"
  /\ UNCHANGED <<length_, received_length_, body_stream_, arrived, bodies, reply>>

\* The collector has nothing left to do before it returns.
CollectorThrough == collector \notin {"read", "more"}
===============================================================================
