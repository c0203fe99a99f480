------------------------------ MODULE HandlerGroup ------------------------------
(***************************************************************************)
(* HttpRequestHandlerGroup as the request handler of an HttpConnection,    *)
(* with the library's own handlers behind it: files of a file system, the  *)
(* body collector and the websocket upgrade, and a stock reply by default. *)
(*                                                                         *)
(* Which predicates match, and whether there is such a file, is the        *)
(* request's: any choice.                                                  *)
(***************************************************************************)
EXTENDS BodyCollector, WebsocketConnection

CONSTANT Handlers           \* handlers_, in the order they were added

ASSUME GroupAssumption ==
  /\ Handlers \in Seq({"files", "body", "websocket"})
  /\ KeepsReading

VARIABLES
  trying,                   \* i of the loop; behind the last is the default handler
  taken                     \* the handler at trying does not return false

groupVars == <<trying, taken>>
handlingVars == <<reply, collectorVars, sessionVars, groupVars>>
handlerVars == <<vars, handlingVars>>

GroupTypeOK ==
  /\ reply \in {<<>>, <<"content">>, <<"headers">>, <<"headers", "content">>,
                BuiltReply, FullReply}
  /\ CollectorTypeOK
  /\ SessionTypeOK
  /\ trying \in 1 .. Len(Handlers) + 1
  /\ taken \in BOOLEAN

GroupInit ==
  /\ Init
  /\ reply = <<>>
  /\ CollectorInit
  /\ SessionInit
  /\ trying = 1
  /\ taken = FALSE

-------------------------------------------------------------------------------
(* operator().                                                             *)

Asking(t) == pc[t] = "handler" /\ ~taken

\* Slip: the loop runs one handler too far.
PassBeyond(t) ==
  /\ Asking(t)
  /\ trying <= Len(Handlers) + 1
  /\ trying' = trying + 1
  /\ UNCHANGED <<vars, reply, collectorVars, sessionVars, taken>>

\* The predicate does not match; or it does, and there is no such file.
Pass(t) ==
  /\ Asking(t)
  /\ trying <= Len(Handlers)
  /\ trying' = trying + 1
  /\ UNCHANGED <<vars, reply, collectorVars, sessionVars, taken>>

\* The predicate matches, and the handler answers, or will.
Take(t) ==
  /\ Asking(t)
  /\ trying <= Len(Handlers)
  /\ taken' = TRUE
  /\ \/ /\ Handlers[trying] = "files"     \* a file, a directory, or 403 for one
        /\ reply' = FullReply
        /\ UNCHANGED <<collectorVars, sessionVars>>
     \/ /\ Handlers[trying] = "body"
        /\ StartCollector
        /\ UNCHANGED <<reply, sessionVars>>
     \/ /\ Handlers[trying] = "websocket"
        /\ Upgrade
        /\ UNCHANGED collectorVars
  /\ UNCHANGED <<vars, trying>>

\* default_handler_: a stock reply.
TakeDefault(t) ==
  /\ Asking(t)
  /\ trying = Len(Handlers) + 1
  /\ taken' = TRUE
  /\ reply' = FullReply
  /\ UNCHANGED <<vars, trying, collectorVars, sessionVars>>

\* The handler, or the read callback, is through.
HandlerReturn(t) ==
  /\ taken
  /\ reply = <<>>
  /\ CollectorThrough
  /\ SessionThrough
  /\ Return(t)
  /\ UNCHANGED handlingVars

-------------------------------------------------------------------------------

\* The connection's own steps.
ConnectionStep ==
  /\ \/ \E w \in writes : Transmit(w)
     \/ ReadError
     \/ \E t \in Threads :
          \/ HandleWriteOk(t)
          \/ HandleWriteError(t)
          \/ \E v \in {"complete", "invalid", "incomplete"} : HandleRead(t, v)
          \/ RejectWrite(t)
  /\ UNCHANGED handlingVars

GroupStep(t) == Pass(t) \/ Take(t) \/ TakeDefault(t) \/ HandlerReturn(t)

ReplyStep(t) == SendBlock(t) /\ UNCHANGED <<collectorVars, sessionVars, groupVars>>

CollectorStep(t) ==
  /\ CollectChunk(t) \/ AskForMore(t)
  /\ UNCHANGED <<sessionVars, groupVars>>

MoreBody(t) == MoreOfBody(t) /\ UNCHANGED <<sessionVars, groupVars>>

SessionStep(t) ==
  /\ \/ Establish(t)
     \/ \E w \in Writers : Keep(t, w)
     \/ Accept(t)
     \/ SendFrame(t)
     \/ ReadFrames(t)
     \/ MoreFrames(t)
  /\ UNCHANGED <<collectorVars, groupVars>>

AppStep ==
  /\ \E w \in Writers : AppSendFrame(w) \/ Drop(w)
  /\ UNCHANGED <<collectorVars, groupVars>>

GroupNext ==
  /\ ~terminated
  /\ ~misused
  /\ \/ ConnectionStep
     \/ \E t \in Threads :
          GroupStep(t) \/ ReplyStep(t) \/ CollectorStep(t) \/ MoreBody(t) \/ SessionStep(t)
     \/ AppStep

GroupSpec == GroupInit /\ [][GroupNext]_handlerVars

\* Fairness.  A handler that runs goes on, and a client sends the bytes it
\* announced, unless the connection fails.
GroupFairness ==
  /\ \A t \in Threads :
       WF_handlerVars(GroupStep(t) \/ ReplyStep(t) \/ CollectorStep(t))
  /\ WF_handlerVars(\E t \in Threads : MoreBody(t))

GroupFairSpec == GroupSpec /\ GroupFairness

-------------------------------------------------------------------------------

\* "If false is returned then nothing should be written to the connection"
\* (http_request_handler.hh): whichever handlers refuse, throw half-way or
\* reject the request, the client gets one reply, or a prefix of one, and
\* frames only behind a whole 101.
OneReply ==
  verdict \in {"complete", "invalid"} =>
    \A i \in DOMAIN calls :
      IF i <= 2 THEN calls[i].kind = BuiltReply[i]
      ELSE IF session = "none" THEN i = 3 /\ calls[i].kind = "content"
      ELSE calls[i].kind = "frame"

\* However its bytes were cut into reads, and whatever follows them, the
\* application gets the body once, and it is the first length_ bytes behind
\* the head; before that nothing is answered, and without a length it never is.
BodyIsExact ==
  /\ Len(bodies) <= 1
  /\ \A n \in DOMAIN bodies : length_ >= 0 /\ bodies[n] = [i \in 1 .. length_ |-> i]
  /\ (collector # "none" /\ length_ >= 0 /\ bodies = <<>>) => calls = <<>>

\* A connection that is to be read on is never left without anyone to do it:
\* unless there was an error, the read is outstanding, or a thread is in the
\* handler that will start it.
NeverDeaf ==
  last_error = "none" =>
    /\ (collector = "waiting" \/ session = "waiting") => reading = "more"
    /\ ~CollectorThrough \/ ~SessionThrough => \E t \in Threads : UserCode(t)

\* "To keep the connection alive keep a shared pointer to this object"
\* (websocket_connection.hh): a connection nobody keeps is gone, and runs no
\* more.
RunsOnLiveObject == ~misused

\* A request whose length is known is handled once its body is there, unless
\* the connection fails first.
BodyIsHandled ==
  (collector # "none" /\ length_ >= 0) ~> (bodies # <<>> \/ last_error # "none")
===============================================================================
