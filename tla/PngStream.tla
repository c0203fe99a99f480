------------------------------- MODULE PngStream -------------------------------
(***************************************************************************)
(* One /stream?type=png request, from the request handler to the last      *)
(* image: an HttpConnection (HttpConnection.tla) whose handler is          *)
(* WebVideoServer::handle_stream and whose application thread is the       *)
(* reception thread of ign-transport running OnImageMsg.                   *)
(*                                                                         *)
(* The handler, on an io thread, sends the initial header and subscribes;  *)
(* from then on each image becomes a part header, the data and a footer,   *)
(* three write() calls of the reception thread.  MultipartStream holds     *)
(* back images while an earlier footer is unsent and not timed out.        *)
(*                                                                         *)
(* The system clock is abstract: what isBusy() can tell is whether a       *)
(* footer's timestamp is before the clock.  It compares the difference in  *)
(* ticks of the clock with 0.5, so one tick is enough.                     *)
(***************************************************************************)
EXTENDS HttpConnection

CONSTANT MaxQueueSize       \* max_queue_size_; 0 is no limit

ASSUME StreamAssumption ==
  /\ {"status", "headers", "boundary", "part", "data", "footer"} \subseteq Kinds
  /\ ~KeepsReading
  /\ Writers = {"transport"}
  /\ MaxQueueSize \in Nat

VARIABLES
  stage,                    \* where handle_stream is
  subscribed,               \* OnImageMsg is a callback of the topic
  inactive,                 \* ImageStreamer::inactive
  tpc,                      \* where the reception thread is in OnImageMsg
  stamp_fresh,              \* the clock has not passed the image's timestamp
  pending_footers,          \* pending_footers_: the ids of their blocks
  fresh                     \* the footers whose timestamp the clock has not passed, but
                            \* none that isBusy() let go before the clock was set back

streamerVars == <<stage, subscribed, inactive, tpc, stamp_fresh,
                  pending_footers, fresh>>
streamVars == <<vars, streamerVars>>

StreamTypeOK ==
  /\ stage \in {"status", "headers", "boundary", "start", "done"}
  /\ subscribed \in BOOLEAN
  /\ inactive \in BOOLEAN
  /\ tpc \in {"idle", "stamped", "part", "data", "footer"}
  /\ stamp_fresh \in BOOLEAN
  /\ pending_footers \in Seq(Nat)
  /\ fresh \in SUBSET Nat

StreamInit ==
  /\ Init
  /\ stage = "status"
  /\ subscribed = FALSE
  /\ inactive = FALSE
  /\ tpc = "idle"
  /\ stamp_fresh = FALSE
  /\ pending_footers = <<>>
  /\ fresh = {}

-------------------------------------------------------------------------------
(* The request handler.                                                    *)

NextStage == [status |-> "headers", headers |-> "boundary", boundary |-> "start"]

\* PngStreamer's constructor: sendInitialHeader() writes the status line, the
\* headers and the first boundary.
SendInitialHeader(t) ==
  /\ pc[t] = "handler"
  /\ stage \in DOMAIN NextStage
  /\ ThreadWrite(t, stage)
  /\ stage' = NextStage[stage]
  /\ UNCHANGED <<subscribed, inactive, tpc, stamp_fresh, pending_footers, fresh>>

\* IgnTransportImageStreamer::Start(), then image_subscribers takes the
\* streamer, and with it the connection, for good: a topic nobody publishes
\* leaves the streamer there inactive.
Start(t, known) ==
  /\ pc[t] = "handler"
  /\ stage = "start"
  /\ Retain(t, "transport")
  /\ subscribed' = known
  /\ inactive' = ~known
  /\ stage' = "done"
  /\ UNCHANGED <<tpc, stamp_fresh, pending_footers, fresh>>

HandlerReturn(t) ==
  /\ stage = "done"
  /\ Return(t)
  /\ UNCHANGED streamerVars

-------------------------------------------------------------------------------
(* The reception thread.                                                   *)

\* Slip: an inactive streamer still sends.
OnImageMsgUnchecked ==
  /\ tpc = "idle"
  /\ subscribed
  /\ tpc' = "stamped"
  /\ stamp_fresh' = TRUE
  /\ UNCHANGED <<vars, stage, subscribed, inactive, pending_footers, fresh>>

\* OnImageMsg() on an active streamer, up to the PNG and its timestamp.
OnImageMsg ==
  /\ tpc = "idle"
  /\ subscribed
  /\ ~inactive
  /\ tpc' = "stamped"
  /\ stamp_fresh' = TRUE
  /\ UNCHANGED <<vars, stage, subscribed, inactive, pending_footers, fresh>>

\* Slip: pending_footers_ holds shared pointers, which never expire.
ExpiredNever(id) == FALSE

\* weak_ptr::expired(): nothing of the connection owns the footer any more.
Expired(id) ==
  /\ id \notin pending_write_resources
  /\ \A w \in writes : id \notin w.resources

\* Slip: the loop does not look at the timestamps.
PopsSent(k) ==
  /\ \A i \in 1 .. k : Expired(pending_footers[i])
  /\ k < Len(pending_footers) => ~Expired(pending_footers[k + 1])

\* The loop of isBusy() pops k footers from the front: those that were sent
\* or are older than the clock, up to the first that is neither.
Pops(k) ==
  /\ \A i \in 1 .. k : Expired(pending_footers[i]) \/ pending_footers[i] \notin fresh
  /\ k < Len(pending_footers) =>
       ~Expired(pending_footers[k + 1]) /\ pending_footers[k + 1] \in fresh

\* Slip: a full queue takes one more.
IsBusyOffByOne ==
  /\ tpc = "stamped"
  /\ \E k \in 0 .. Len(pending_footers) :
       /\ Pops(k)
       /\ pending_footers' = SubSeq(pending_footers, k + 1, Len(pending_footers))
  /\ tpc' = IF MaxQueueSize = 0 \/ Len(pending_footers') <= MaxQueueSize
            THEN "part" ELSE "idle"
  /\ UNCHANGED <<vars, stage, subscribed, inactive, stamp_fresh, fresh>>

\* Slip: a busy stream is left in a state of its own.
IsBusyStays ==
  /\ tpc = "stamped"
  /\ \E k \in 0 .. Len(pending_footers) :
       /\ Pops(k)
       /\ pending_footers' = SubSeq(pending_footers, k + 1, Len(pending_footers))
  /\ tpc' = IF MaxQueueSize = 0 \/ Len(pending_footers') < MaxQueueSize
            THEN "part" ELSE "busy"
  /\ UNCHANGED <<vars, stage, subscribed, inactive, stamp_fresh, fresh>>

\* sendPartAndClear(): isBusy() pops, then decides.  A busy stream drops the
\* image.
IsBusy ==
  /\ tpc = "stamped"
  /\ \E k \in 0 .. Len(pending_footers) :
       /\ Pops(k)
       /\ pending_footers' = SubSeq(pending_footers, k + 1, Len(pending_footers))
  /\ tpc' = IF MaxQueueSize = 0 \/ Len(pending_footers') < MaxQueueSize
            THEN "part" ELSE "idle"
  /\ UNCHANGED <<vars, stage, subscribed, inactive, stamp_fresh, fresh>>

\* Slip: the exception is caught and the stream goes on.
WritePartGoesOn(kind, next) ==
  /\ tpc = kind
  /\ AppWrite("transport", kind)
  /\ tpc' = IF WriteThrows THEN "idle" ELSE next
  /\ UNCHANGED <<stage, subscribed, inactive, stamp_fresh>>

\* One write() of a part; OnImageMsg catches what it throws and gives up.
WritePart(kind, next) ==
  /\ tpc = kind
  /\ AppWrite("transport", kind)
  /\ \/ /\ WriteThrows
        /\ inactive' = TRUE
        /\ tpc' = "idle"
     \/ /\ ~WriteThrows
        /\ tpc' = next
        /\ UNCHANGED inactive
  /\ UNCHANGED <<stage, subscribed, stamp_fresh>>

SendPart ==
  /\ WritePart("part", "data") \/ WritePart("data", "footer")
  /\ UNCHANGED <<pending_footers, fresh>>

\* sendPartFooter(): the footer is remembered after its write() returned.
SendPartFooter ==
  /\ WritePart("footer", "idle")
  /\ pending_footers' = IF WriteThrows \/ MaxQueueSize = 0 THEN pending_footers
                        ELSE Append(pending_footers, Len(calls'))
  /\ fresh' = IF WriteThrows \/ ~stamp_fresh THEN fresh
              ELSE fresh \cup {Len(calls')}

-------------------------------------------------------------------------------
(* The clock.                                                              *)

Tick ==
  /\ fresh' = {}
  /\ stamp_fresh' = FALSE
  /\ UNCHANGED <<vars, stage, subscribed, inactive, tpc, pending_footers>>

\* Set back: timestamps that had passed are ahead of the clock again.
SetBack ==
  /\ \E ids \in SUBSET {pending_footers[i] : i \in DOMAIN pending_footers} :
       fresh' = fresh \cup ids
  /\ stamp_fresh' = TRUE
  /\ UNCHANGED <<vars, stage, subscribed, inactive, tpc, pending_footers>>

-------------------------------------------------------------------------------

\* The steps of the connection that do not run code of the streamer.
ConnectionStep ==
  /\ ~terminated
  /\ \/ \E w \in writes : Transmit(w)
     \/ ReadError
     \/ \E t \in Threads :
          \/ HandleWriteOk(t)
          \/ HandleWriteError(t)
          \/ \E v \in {"complete", "invalid", "incomplete"} : HandleRead(t, v)
          \/ RejectWrite(t)
  /\ UNCHANGED streamerVars

StreamerStep ==
  /\ ~terminated
  /\ \/ \E t \in Threads :
          \/ SendInitialHeader(t)
          \/ \E known \in BOOLEAN : Start(t, known)
          \/ HandlerReturn(t)
     \/ OnImageMsg
     \/ IsBusy
     \/ SendPart
     \/ SendPartFooter

StreamNext == ConnectionStep \/ StreamerStep \/ (~terminated /\ (Tick \/ SetBack))

StreamSpec == StreamInit /\ [][StreamNext]_streamVars

\* Fairness: what Fairness says of the connection, and that images keep
\* coming, the reception thread runs, and the clock runs and is not set back
\* for ever.
StreamFairness ==
  /\ WF_streamVars(\E w \in writes : Transmit(w) /\ UNCHANGED streamerVars)
  /\ SF_streamVars(\E t \in Threads : HandleWriteOk(t) /\ UNCHANGED streamerVars)
  /\ WF_streamVars(OnImageMsg)
  /\ WF_streamVars(IsBusy)
  /\ WF_streamVars(SendPart)
  /\ WF_streamVars(SendPartFooter)
  /\ WF_streamVars(Tick)
  /\ <>[][~SetBack]_streamVars

StreamFairSpec == StreamSpec /\ StreamFairness

-------------------------------------------------------------------------------
(* What makes the stream correct.                                          *)

\* The bytes of a multipart/x-mixed-replace reply, block by block.
StreamKind(i) ==
  IF i <= 3 THEN <<"status", "headers", "boundary">>[i]
            ELSE <<"part", "data", "footer">>[((i - 4) % 3) + 1]

\* The io thread's header, the reception thread's parts, and a failure in the
\* middle of either still leave a well-formed reply, or a prefix of one.
WellFormedStream ==
  verdict \in {"complete", "invalid"} =>
    \A i \in DOMAIN calls : calls[i].kind = StreamKind(i)

\* isBusy() keeps pending_footers_ within max_queue_size_.
FooterQueueBounded ==
  MaxQueueSize # 0 => Len(pending_footers) <= MaxQueueSize

\* What isBusy() really limits: of the parts that have not timed out at most
\* max_queue_size_ are unsent, however often the clock is set back.  (A part
\* older than the clock no longer counts, however long the client takes.)
PacedWithinTick ==
  MaxQueueSize # 0 => Cardinality({id \in fresh : ~Expired(id)}) <= MaxQueueSize

\* A stream whose client has taken everything is not held back, whatever
\* the clock says: some count of pops empties pending_footers_.
IdleIsNotBusy ==
  (writes = {} /\ last_error = "none") => Pops(Len(pending_footers))

\* A streamer that gave up, or found no topic, never writes again.
SilentWhenInactive == [][inactive => calls' = calls]_streamVars

\* A stream whose client is gone finds out: the next images stop it.  (Here
\* a write beyond the bound counts as an end.)
BrokenStreamEnds ==
  (subscribed /\ Broken) ~> (inactive \/ Len(calls) = MaxWrites)
===============================================================================
