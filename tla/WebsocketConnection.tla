--------------------------- MODULE WebsocketConnection ---------------------------
(***************************************************************************)
(* WebsocketHttpRequestHandler, which upgrades an HttpConnection, and the  *)
(* life of the WebsocketConnection it makes: who owns it, who reads for    *)
(* it, and what it writes.  The frames themselves are WebsocketReader.     *)
(*                                                                         *)
(* The WebsocketConnection holds an HttpConnectionPtr.  An application     *)
(* thread that keeps a WebsocketConnectionPtr is therefore a holder of the *)
(* connection; without any, the object lives until the upgrade returns.    *)
(* Its reads are bound to a plain this.  Code that runs on a destroyed     *)
(* object sets misused, and nothing is said of what happens after that.    *)
(***************************************************************************)
EXTENDS HttpReply

ASSUME WebsocketAssumption == "frame" \in Kinds

VARIABLES
  session,                  \* where the websocket connection is
  misused                   \* its code ran after its end

sessionVars == <<session, misused>>

SessionTypeOK ==
  /\ session \in {"none", "handshake", "accept", "frames", "waiting", "over"}
  /\ misused \in BOOLEAN

SessionInit ==
  /\ session = "none"
  /\ misused = FALSE

\* The upgrade handler's own pointer, or an application's.
Alive == holders # {} \/ \E t \in Threads : pc[t] = "handler"

\* The three headers of the request are as they must be, and a 101 reply is
\* written; or they are not, and the answer is the stock 400 reply.
Upgrade ==
  /\ session = "none"
  /\ \/ reply' = BuiltReply /\ session' = "handshake"
     \/ reply' = FullReply /\ UNCHANGED session
  /\ UNCHANGED misused

\* The 101 is written: the WebsocketConnection is constructed.
Establish(t) ==
  /\ pc[t] = "handler"
  /\ session = "handshake"
  /\ reply = <<>>
  /\ session' = "accept"
  /\ UNCHANGED <<vars, reply, misused>>

\* The application's handler_ keeps the pointer it is given.
Keep(t, w) ==
  /\ session = "accept"
  /\ Retain(t, w)
  /\ UNCHANGED <<reply, sessionVars>>

\* It returns its message handler, which is set, and the bytes behind the
\* head, if any, are frames already.
Accept(t) ==
  /\ pc[t] = "handler"
  /\ session = "accept"
  /\ session' = "frames"
  /\ UNCHANGED <<vars, reply, misused>>

\* handler_ or the message handler sends: sendMessage() and sendFrame() come
\* down to one write_and_clear().
SendFrame(t) ==
  /\ session \in {"accept", "frames"}
  /\ ThreadWrite(t, "frame")
  /\ UNCHANGED <<reply, session>>
  /\ misused' = ~Alive

\* Slip: it reads on only if the bytes completed a message.
ReadFramesOnce(t) ==
  /\ session = "frames"
  /\ \/ AsyncRead(t)
     \/ UserCode(t) /\ UNCHANGED vars
  /\ session' = IF last_error = "none" THEN "waiting" ELSE "over"
  /\ UNCHANGED reply
  /\ misused' = ~Alive

\* handle_read() after its loop.
ReadFrames(t) ==
  /\ session = "frames"
  /\ AsyncRead(t)
  /\ session' = IF last_error = "none" THEN "waiting" ELSE "over"
  /\ UNCHANGED reply
  /\ misused' = ~Alive

\* The next bytes: static_handle_read() on the pointer it was bound to.
MoreFrames(t) ==
  /\ session = "waiting"
  /\ HandleReadMore(t)
  /\ session' = "frames"
  /\ UNCHANGED reply
  /\ misused' = ~Alive

\* An application thread with a pointer sends, or drops the pointer.
AppSendFrame(w) ==
  /\ AppWrite(w, "frame")
  /\ UNCHANGED <<reply, sessionVars>>

Drop(w) ==
  /\ Release(w)
  /\ UNCHANGED <<reply, sessionVars>>

\* The connection has nothing left to do before its caller returns.
SessionThrough == session \notin {"handshake", "accept", "frames"}
===============================================================================
