------------------------------- MODULE LibavStream -------------------------------
(***************************************************************************)
(* One /stream request of type vp8, vp9 or h264: an HttpConnection whose   *)
(* handler is WebVideoServer::handle_stream and whose application thread   *)
(* is the reception thread running OnImageMsg of a LibavStreamer.          *)
(*                                                                         *)
(* Nothing is sent before the first image, on which Initialize() sets the  *)
(* encoder up and sends the reply's head.  libav is external: any call of  *)
(* it may fail, and the muxer calls dispatch_output_packet, that is        *)
(* write(), any number of times for the container's head and for a frame.  *)
(* An exception of that callback leaves through libav's frames.            *)
(***************************************************************************)
EXTENDS HttpConnection

CONSTANT MaxPackets         \* bound: blocks the muxer writes for one head or frame

ASSUME LibavAssumption ==
  /\ {"status", "headers", "content", "packet", "raw"} \subseteq Kinds
  /\ ~KeepsReading
  /\ Writers = {"transport"}
  /\ MaxPackets \in Nat

VARIABLES
  stage,                    \* where handle_stream is
  subscribed,               \* OnImageMsg is a callback of the topic
  inactive,                 \* ImageStreamer::inactive
  initialized,              \* initialized
  tpc,                      \* where the reception thread is in OnImageMsg
  packets                   \* blocks of the current head or frame

libavVars == <<stage, subscribed, inactive, initialized, tpc, packets>>
libavStreamVars == <<vars, libavVars>>

LibavTypeOK ==
  /\ stage \in {"construct", "start", "done"}
  /\ subscribed \in BOOLEAN
  /\ inactive \in BOOLEAN
  /\ initialized \in BOOLEAN
  /\ tpc \in {"idle", "initialize", "status", "headers", "head", "encode", "frame",
              "raw", "error status", "error headers", "error content", "throw"}
  /\ packets \in 0 .. MaxPackets

LibavInit ==
  /\ Init
  /\ stage = "construct"
  /\ subscribed = FALSE
  /\ inactive = FALSE
  /\ initialized = FALSE
  /\ tpc = "idle"
  /\ packets = 0

-------------------------------------------------------------------------------
(* The request handler.                                                    *)

\* The constructor reads bitrate, qmin, qmax and gop; a value that is no
\* number throws, out of the handler.
Construct(t) ==
  /\ pc[t] = "handler"
  /\ stage = "construct"
  /\ \/ stage' = "start" /\ UNCHANGED vars
     \/ stage' = "done" /\ Return(t)
  /\ UNCHANGED <<subscribed, inactive, initialized, tpc, packets>>

\* Start(), and the streamer is stored.
Start(t, known) ==
  /\ pc[t] = "handler"
  /\ stage = "start"
  /\ Retain(t, "transport")
  /\ subscribed' = known
  /\ inactive' = ~known
  /\ stage' = "done"
  /\ UNCHANGED <<initialized, tpc, packets>>

HandlerReturn(t) ==
  /\ stage = "done"
  /\ Return(t)
  /\ UNCHANGED libavVars

-------------------------------------------------------------------------------
(* The reception thread.                                                   *)

\* Slip: a streamer that gave up is tried again with the next image.
OnImageMsgUnchecked ==
  /\ tpc = "idle"
  /\ subscribed
  /\ tpc' = IF initialized THEN "encode" ELSE "initialize"
  /\ UNCHANGED <<vars, stage, subscribed, inactive, initialized, packets>>

OnImageMsg ==
  /\ tpc = "idle"
  /\ subscribed
  /\ ~inactive
  /\ tpc' = IF initialized THEN "encode" ELSE "initialize"
  /\ UNCHANGED <<vars, stage, subscribed, inactive, initialized, packets>>

\* Work inside libav or the encoder that ends at one of the places.
Work(from, places) ==
  /\ tpc = from
  /\ tpc' \in places
  /\ packets' = 0
  /\ UNCHANGED <<vars, stage, subscribed, inactive>>

\* Slip: the encoder counts as initialized before the head is written.
SetUpInitialized ==
  /\ Work("initialize", {"status", "error status"})
  /\ initialized' = TRUE

\* Initialize(): every failure of the set-up sends the stock 500 reply.
SetUp ==
  /\ Work("initialize", {"status", "error status"})
  /\ UNCHANGED initialized

\* avformat_write_header() returns; Initialize() is over, or sends the stock
\* reply after the head that was sent already.
HeadWritten ==
  /\ Work("head", {"encode", "error status"})
  /\ initialized' = (tpc' = "encode")

\* SendImage() up to the packet: an encoder that fails throws, and one that
\* wants more input gives none, and an empty block is written for it.
Encode ==
  /\ Work("encode", {"frame", "raw", "throw"})
  /\ UNCHANGED initialized

\* av_write_frame() returns.
FrameWritten ==
  /\ Work("frame", {"raw", "throw"})
  /\ UNCHANGED initialized

\* One write() of the reception thread, which may throw.
WriteBlock(place, kind, next) ==
  /\ tpc = place
  /\ AppWrite("transport", kind)
  /\ tpc' = IF WriteThrows THEN "throw" ELSE next
  /\ UNCHANGED <<stage, subscribed, inactive, initialized>>

SendHeaders ==
  /\ \/ WriteBlock("status", "status", "headers")
     \/ WriteBlock("headers", "headers", "head")
  /\ UNCHANGED packets

\* dispatch_output_packet()
DispatchOutputPacket ==
  /\ packets < MaxPackets
  /\ WriteBlock("head", "packet", "head") \/ WriteBlock("frame", "packet", "frame")
  /\ packets' = packets + 1

\* encoded_frame, the vector of six bytes a pixel that nothing filled, or that
\* was cleared.
WriteEncodedFrame ==
  /\ WriteBlock("raw", "raw", "idle")
  /\ UNCHANGED packets

\* The stock 500 reply; Initialize() then throws.
SendError ==
  /\ \/ WriteBlock("error status", "status", "error headers")
     \/ WriteBlock("error headers", "headers", "error content")
     \/ WriteBlock("error content", "content", "throw")
  /\ UNCHANGED packets

\* Slip: nothing is caught.
CatchNothing ==
  /\ tpc = "throw"
  /\ tpc' = "terminated"
  /\ UNCHANGED <<vars, stage, subscribed, inactive, initialized, packets>>

\* Slip: what is caught is logged, and the next image is tried.
CatchLogs ==
  /\ tpc = "throw"
  /\ tpc' = "idle"
  /\ packets' = 0
  /\ UNCHANGED <<vars, stage, subscribed, inactive, initialized>>

\* OnImageMsg() catches everything.
Catch ==
  /\ tpc = "throw"
  /\ inactive' = TRUE
  /\ tpc' = "idle"
  /\ packets' = 0
  /\ UNCHANGED <<vars, stage, subscribed, initialized>>

-------------------------------------------------------------------------------

ConnectionStep ==
  /\ \/ \E w \in writes : Transmit(w)
     \/ ReadError
     \/ \E t \in Threads :
          \/ HandleWriteOk(t)
          \/ HandleWriteError(t)
          \/ \E v \in {"complete", "invalid", "incomplete"} : HandleRead(t, v)
          \/ RejectWrite(t)
  /\ UNCHANGED libavVars

HandlerStep(t) ==
  \/ Construct(t)
  \/ \E known \in BOOLEAN : Start(t, known)
  \/ HandlerReturn(t)

SendImage ==
  \/ SetUp
  \/ SendHeaders
  \/ HeadWritten
  \/ Encode
  \/ DispatchOutputPacket
  \/ FrameWritten
  \/ WriteEncodedFrame
  \/ SendError
  \/ Catch

LibavNext ==
  /\ ~terminated
  /\ \/ ConnectionStep
     \/ \E t \in Threads : HandlerStep(t)
     \/ OnImageMsg
     \/ SendImage

LibavSpec == LibavInit /\ [][LibavNext]_libavStreamVars

\* Fairness: the connection's, and images keep coming and are dealt with.
LibavFairness ==
  /\ WF_libavStreamVars(\E w \in writes : Transmit(w) /\ UNCHANGED libavVars)
  /\ SF_libavStreamVars(\E t \in Threads : HandleWriteOk(t) /\ UNCHANGED libavVars)
  /\ WF_libavStreamVars(OnImageMsg)
  /\ WF_libavStreamVars(SendImage)

LibavFairSpec == LibavSpec /\ LibavFairness

-------------------------------------------------------------------------------

Served == verdict \in {"complete", "invalid"}

\* A status line starts the reply, once.  The only other one, of the stock
\* 500 reply, comes instead of it or right behind the container's head, and
\* that reply is the last the client sees: no image follows an error, and the
\* head is not sent again.
OneReplyAndAtMostOneError ==
  Served => \A i \in DOMAIN calls :
    calls[i].kind = "status" =>
      \/ i = 1
      \/ /\ i > 2
         /\ \A j \in 3 .. i - 1 : calls[j].kind = "packet"
         /\ Len(calls) <= i + 2
         /\ \A j \in i + 1 .. Len(calls) : calls[j].kind = <<"headers", "content">>[j - i]

\* The encoder is used only after Initialize() went all the way, and so did
\* the reply's head: images never come before it, or without it.
ImagesFollowTheHead ==
  /\ tpc \in {"encode", "frame", "raw"} => initialized
  /\ initialized => /\ Len(calls) >= 2
                    /\ calls[1].kind = "status" /\ calls[2].kind = "headers"
  /\ Served => \A i \in DOMAIN calls : calls[i].kind = "raw" => initialized

\* A streamer that gave up, in the middle of whatever, never writes again.
SilentWhenInactive == [][inactive => calls' = calls]_libavStreamVars

\* A stream whose client is gone stops with the next image.
BrokenStreamEnds ==
  (subscribed /\ Broken) ~> (inactive \/ Len(calls) = MaxWrites)
===============================================================================
