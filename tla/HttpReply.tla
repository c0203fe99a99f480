------------------------------- MODULE HttpReply -------------------------------
(***************************************************************************)
(* Replies on an HttpConnection: ReplyBuilder and the handlers that answer *)
(* with a constant, a file or a directory.  A reply is the blocks it       *)
(* passes to write(): the status line, the headers and, except where the   *)
(* builder is used by itself, the content.  What the blocks say is text.   *)
(***************************************************************************)
EXTENDS HttpConnection

ASSUME ReplyAssumption == {"status", "headers", "content"} \subseteq Kinds

VARIABLE reply              \* the blocks a handler is still to write

\* ReplyBuilder::write()
BuiltReply == <<"status", "headers">>

\* static_reply(), of which stock_reply() is one, and serveFromFile(): a
\* missing file, too, is a reply, with an empty content.
FullReply == BuiltReply \o <<"content">>

\* Slip: a write() that throws is tried again, with its block already queued.
SendBlockAgain(t) ==
  /\ reply # <<>>
  /\ UserCode(t)
  /\ DoWrite(Head(reply))
  /\ reply' = IF WriteThrows THEN reply ELSE Tail(reply)
  /\ UNCHANGED <<pc, terminated, last_error, readVars, replies, holders, wire>>

\* The next write() of the reply, by the handler that runs on t.  What it
\* throws leaves the handler, and with it the rest of the reply.
SendBlock(t) ==
  /\ reply # <<>>
  /\ ThreadWrite(t, Head(reply))
  /\ reply' = IF WriteThrows THEN <<>> ELSE Tail(reply)
===============================================================================
