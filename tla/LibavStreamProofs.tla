---------------------------- MODULE LibavStreamProofs ----------------------------
(***************************************************************************)
(* Proofs about LibavStream, for every pool, any number of images and any  *)
(* number of blocks the muxer writes.                                      *)
(*                                                                         *)
(* As for the PNG stream, the connection's theorems hold of this user of   *)
(* it.  What the reply consists of needs an invariant that says, for each  *)
(* place the reception thread can be at, which blocks there are: nothing,  *)
(* the head so far, the head and images, or an error reply behind the      *)
(* head.                                                                   *)
(***************************************************************************)
EXTENDS LibavStream, HttpConnectionProofs

-------------------------------------------------------------------------------
(* The stream's connection is an HttpConnection.                           *)

LEMMA WriteBlockIsAppWrite ==
  ASSUME SendHeaders \/ DispatchOutputPacket \/ WriteEncodedFrame \/ SendError
  PROVE  \E kind \in Kinds : AppWrite("transport", kind)
BY LibavAssumption
   DEF SendHeaders, DispatchOutputPacket, WriteEncodedFrame, SendError, WriteBlock

LEMMA LibavStepIsConnectionStep == [LibavNext]_libavStreamVars => [Next]_vars
<1> SUFFICES ASSUME [LibavNext]_libavStreamVars
             PROVE  [Next]_vars
  OBVIOUS
<1>1. CASE UNCHANGED libavStreamVars
  BY <1>1 DEF libavStreamVars
<1>2. CASE ~terminated /\ ConnectionStep
  BY <1>2 DEF ConnectionStep, Next, Step
<1>3. ASSUME NEW t \in Threads, HandlerStep(t), ~terminated
      PROVE  [Next]_vars
  <2>1. CASE Construct(t)
    BY <1>3, <2>1 DEF Construct, Next, Step
  <2>2. CASE \E known \in BOOLEAN : Start(t, known)
    BY <1>3, <2>2, LibavAssumption DEF Start, Next, Step
  <2>3. CASE HandlerReturn(t)
    BY <1>3, <2>3 DEF HandlerReturn, Next, Step
  <2> QED  BY <1>3, <2>1, <2>2, <2>3 DEF HandlerStep
<1>4. CASE ~terminated /\ (SendHeaders \/ DispatchOutputPacket \/ WriteEncodedFrame
                             \/ SendError)
  BY <1>4, WriteBlockIsAppWrite, LibavAssumption DEF Next
<1>5. CASE OnImageMsg \/ SetUp \/ HeadWritten \/ Encode \/ FrameWritten \/ Catch
  BY <1>5 DEF OnImageMsg, SetUp, HeadWritten, Encode, FrameWritten, Catch, Work
<1> QED  BY <1>1, <1>2, <1>3, <1>4, <1>5 DEF LibavNext, SendImage

\* Whatever libav and the streamer do, the connection below behaves as
\* HttpConnection says any user's connection does.
THEOREM LibavUsesConnection == LibavSpec => Spec
<1>1. LibavInit => Init
  BY DEF LibavInit
<1> QED  BY <1>1, LibavStepIsConnectionStep, PTL DEF LibavSpec, Spec

\* With one io thread the server survives every video stream.
THEOREM LibavNeverTerminates ==
  ASSUME \A s, t \in Threads : s = t
  PROVE  LibavSpec => []NeverTerminates
BY LibavUsesConnection, OneThreadNeverTerminates, LibavAssumption, PTL

-------------------------------------------------------------------------------
(* Types.                                                                  *)

\* A count up to a bound starts at zero, and may go on below the bound.
LEMMA CountUpTo ==
  ASSUME NEW n \in Nat
  PROVE  /\ 0 \in 0 .. n
         /\ \A k \in 0 .. n : k < n => k + 1 \in 0 .. n
OBVIOUS

LEMMA LastOfCount ==
  ASSUME NEW n \in Nat
  PROVE  n + 1 \in 1 .. n + 1
OBVIOUS

LEMMA LibavTypeStep == LibavTypeOK /\ [LibavNext]_libavStreamVars => LibavTypeOK'
<1> SUFFICES ASSUME LibavTypeOK, [LibavNext]_libavStreamVars
             PROVE  LibavTypeOK'
  OBVIOUS
<1> USE DEF LibavTypeOK
<1>0. MaxPackets \in Nat /\ 0 \in 0 .. MaxPackets
  BY LibavAssumption, CountUpTo, Zenon
<1>1. CASE UNCHANGED libavVars
  BY <1>1 DEF libavVars
<1>2. ASSUME NEW t \in Threads, HandlerStep(t)
      PROVE  LibavTypeOK'
  BY <1>2 DEF HandlerStep, Construct, Start, HandlerReturn, libavVars
<1>3. CASE OnImageMsg
  BY <1>3 DEF OnImageMsg
<1>4. ASSUME NEW from, NEW places, Work(from, places), initialized' \in BOOLEAN,
             places \subseteq {"idle", "encode", "frame", "raw", "status",
                               "error status", "throw"}
      PROVE  LibavTypeOK'
  <2>1. tpc' \in places /\ packets' = 0 /\ UNCHANGED <<stage, subscribed, inactive>>
    BY <1>4 DEF Work
  <2>2. packets' \in 0 .. MaxPackets
    BY <1>0, <2>1
  <2> QED  BY <1>4, <2>1, <2>2
<1>5. CASE SetUp \/ HeadWritten \/ Encode \/ FrameWritten
  <2>1. CASE HeadWritten
    <3>1. initialized' \in BOOLEAN
      BY <2>1, Zenon DEF HeadWritten
    <3> QED  BY <2>1, <3>1, <1>4 DEF HeadWritten
  <2>2. CASE SetUp
    BY <2>2, <1>4 DEF SetUp
  <2>3. CASE Encode
    BY <2>3, <1>4 DEF Encode
  <2>4. CASE FrameWritten
    BY <2>4, <1>4 DEF FrameWritten
  <2> QED  BY <1>5, <2>1, <2>2, <2>3, <2>4
<1>6. CASE Catch
  BY <1>0, <1>6 DEF Catch
<1>7. CASE SendHeaders \/ WriteEncodedFrame \/ SendError
  BY <1>7 DEF SendHeaders, WriteEncodedFrame, SendError, WriteBlock
<1>8. CASE DispatchOutputPacket
  <2>1. packets < MaxPackets /\ packets' = packets + 1
    BY <1>8 DEF DispatchOutputPacket
  <2>2. /\ tpc' \in {"head", "frame", "throw"}
        /\ UNCHANGED <<stage, subscribed, inactive, initialized>>
    BY <1>8 DEF DispatchOutputPacket, WriteBlock
  <2>3. packets' \in 0 .. MaxPackets
    BY <1>0, <2>1, CountUpTo, Zenon
  <2> QED  BY <2>2, <2>3
<1>9. ConnectionStep => UNCHANGED libavVars
  BY DEF ConnectionStep
<1>10. UNCHANGED libavStreamVars => UNCHANGED libavVars
  BY DEF libavStreamVars
<1> QED  BY <1>1, <1>2, <1>3, <1>5, <1>6, <1>7, <1>8, <1>9, <1>10
         DEF LibavNext, SendImage

LEMMA LibavTypes == LibavSpec => [](TypeOK /\ LibavTypeOK)
<1>1. LibavInit => LibavTypeOK
  <2>1. 0 \in 0 .. MaxPackets
    BY LibavAssumption, CountUpTo, Zenon
  <2> QED  BY <2>1 DEF LibavInit, LibavTypeOK
<1>2. LibavSpec => []TypeOK
  BY LibavUsesConnection, TypeCorrect, PTL
<1> QED  BY <1>1, <1>2, LibavTypeStep, PTL DEF LibavSpec

\* The streamer's variables keep their types.
THEOREM LibavTypeCorrect == LibavSpec => []LibavTypeOK
BY LibavTypes, PTL

-------------------------------------------------------------------------------
(* Who may write, and when.                                                *)

\* Only a dispatched request gets to the streamer, only a subscribed streamer
\* writes, and it gives up between two images.
HandlerShape ==
  /\ verdict = "unread" => calls = <<>> /\ \A t \in Threads : pc[t] = "idle"
  /\ reading = "request" => verdict = "unread"
  /\ \A t \in Threads : pc[t] = "handler" => Served
  /\ \A t \in Threads : pc[t] = "reject" => verdict = "incomplete"
  /\ ~Served => stage = "construct"
  /\ stage # "done" => ~subscribed /\ ~inactive
  /\ ~subscribed => tpc = "idle" /\ ~initialized /\ (Served => calls = <<>>)
  /\ inactive => tpc = "idle"

\* What the reply consists of: the head and blocks of images, or part of the
\* head, and perhaps of an error reply from block e on.
HeadBlock(i) == IF i = 1 THEN "status" ELSE IF i = 2 THEN "headers" ELSE "packet"

HeadOnly == \A i \in DOMAIN calls : calls[i].kind = HeadBlock(i)

Streaming ==
  /\ Len(calls) >= 2
  /\ \A i \in DOMAIN calls : /\ i <= 2 => calls[i].kind = HeadBlock(i)
                             /\ i > 2 => calls[i].kind \in {"packet", "raw"}

ErrorFrom(e) ==
  /\ e \in DOMAIN calls
  /\ e # 2
  /\ calls[e].kind = "status"
  /\ \A i \in DOMAIN calls :
       /\ i < e => calls[i].kind = HeadBlock(i)
       /\ i > e => i <= e + 2 /\ calls[i].kind = <<"headers", "content">>[i - e]

ReplyShape ==
  /\ initialized => Streaming
  /\ ~initialized => HeadOnly \/ \E e \in DOMAIN calls : ErrorFrom(e)

\* Where the reception thread is says how far the reply is.
PlaceShape ==
  /\ tpc = "idle" /\ ~inactive /\ ~initialized => Len(calls) = 0
  /\ tpc \in {"initialize", "status"} => ~initialized /\ Len(calls) = 0
  /\ tpc = "headers" => ~initialized /\ HeadOnly /\ Len(calls) = 1
  /\ tpc = "head" => ~initialized /\ HeadOnly /\ Len(calls) >= 2
  /\ tpc = "error status" => ~initialized /\ HeadOnly /\ Len(calls) # 1
  /\ tpc = "error headers" => ~initialized /\ ErrorFrom(Len(calls))
  /\ tpc = "error content" => ~initialized /\ ErrorFrom(Len(calls) - 1)
  /\ tpc \in {"encode", "frame", "raw"} => initialized

Shape == HandlerShape /\ (Served => ReplyShape /\ PlaceShape)

LEMMA HeadGrows ==
  ASSUME TypeOK, NEW kind \in Kinds, DoWrite(kind), HeadOnly
  PROVE  /\ kind = HeadBlock(Len(calls) + 1) => HeadOnly'
         /\ kind = "status" /\ Len(calls) # 1 => ErrorFrom(Len(calls))'
<1>1. /\ Len(calls') = Len(calls) + 1
      /\ \A i \in 1 .. Len(calls) : calls'[i] = calls[i]
      /\ calls'[Len(calls) + 1].kind = kind
      /\ DOMAIN calls' = 1 .. Len(calls') /\ DOMAIN calls = 1 .. Len(calls)
      /\ Len(calls) \in Nat
  BY WriteAppends
<1>2. \A i \in 1 .. Len(calls) : calls'[i].kind = HeadBlock(i)
  BY <1>1 DEF HeadOnly
<1>3. \A i \in DOMAIN calls' : i \in 1 .. Len(calls) \/ i = Len(calls) + 1
  BY <1>1
<1>4. ASSUME kind = HeadBlock(Len(calls) + 1)
      PROVE  HeadOnly'
  BY <1>1, <1>2, <1>3, <1>4 DEF HeadOnly
<1>5. ASSUME kind = "status", Len(calls) # 1
      PROVE  ErrorFrom(Len(calls))'
  BY <1>1, <1>2, <1>3, <1>5 DEF ErrorFrom
<1> QED  BY <1>4, <1>5

LEMMA ErrorGrows ==
  ASSUME TypeOK, NEW kind \in Kinds, DoWrite(kind), NEW e, ErrorFrom(e),
         Len(calls) <= e + 1, kind = <<"headers", "content">>[Len(calls) + 1 - e]
  PROVE  ErrorFrom(e)' /\ e \in DOMAIN calls' /\ Len(calls') = Len(calls) + 1
<1>1. /\ Len(calls') = Len(calls) + 1
      /\ \A i \in 1 .. Len(calls) : calls'[i] = calls[i]
      /\ calls'[Len(calls) + 1].kind = kind
      /\ DOMAIN calls' = 1 .. Len(calls') /\ DOMAIN calls = 1 .. Len(calls)
      /\ Len(calls) \in Nat
  BY WriteAppends
<1>2. e \in 1 .. Len(calls) /\ e # 2 /\ calls'[e].kind = "status" /\ e \in DOMAIN calls'
  BY <1>1 DEF ErrorFrom
<1>3. ASSUME NEW i \in DOMAIN calls'
      PROVE  /\ i < e => calls'[i].kind = HeadBlock(i)
             /\ i > e => i <= e + 2 /\ calls'[i].kind = <<"headers", "content">>[i - e]
  <2>1. CASE i \in 1 .. Len(calls)
    BY <1>1, <2>1 DEF ErrorFrom
  <2>2. CASE i = Len(calls) + 1
    BY <1>1, <1>2, <2>2
  <2> QED  BY <1>1, <2>1, <2>2
<1> QED  BY <1>1, <1>2, <1>3 DEF ErrorFrom

LEMMA StreamGrows ==
  ASSUME TypeOK, NEW kind \in Kinds, DoWrite(kind), Streaming,
         kind \in {"packet", "raw"}
  PROVE  Streaming'
<1>1. /\ Len(calls') = Len(calls) + 1
      /\ \A i \in 1 .. Len(calls) : calls'[i] = calls[i]
      /\ calls'[Len(calls) + 1].kind = kind
      /\ DOMAIN calls' = 1 .. Len(calls') /\ DOMAIN calls = 1 .. Len(calls)
      /\ Len(calls) \in Nat
  BY WriteAppends
<1>2. ASSUME NEW i \in DOMAIN calls'
      PROVE  /\ i <= 2 => calls'[i].kind = HeadBlock(i)
             /\ i > 2 => calls'[i].kind \in {"packet", "raw"}
  <2>1. CASE i \in 1 .. Len(calls)
    BY <1>1, <2>1 DEF Streaming
  <2>2. CASE i = Len(calls) + 1
    BY <1>1, <2>2 DEF Streaming
  <2> QED  BY <1>1, <2>1, <2>2
<1> QED  BY <1>1, <1>2 DEF Streaming

-------------------------------------------------------------------------------
(* Every step keeps the shape.                                             *)

LEMMA SameReply ==
  ASSUME UNCHANGED calls
  PROVE  /\ HeadOnly => HeadOnly'
         /\ Streaming => Streaming'
         /\ \A e : ErrorFrom(e) => ErrorFrom(e)'
         /\ Len(calls') = Len(calls)
         /\ DOMAIN calls' = DOMAIN calls
BY DEF HeadOnly, Streaming, ErrorFrom

LEMMA ConnectionKeepsShape ==
  ASSUME TypeOK, LibavTypeOK, Shape, ConnectionStep
  PROVE  Shape'
<1> USE DEF Shape, HandlerShape, Served, TypeOK
<1>1. UNCHANGED libavVars
  BY DEF ConnectionStep
<1>2. ASSUME UNCHANGED <<calls, verdict>>
      PROVE  (Served => ReplyShape /\ PlaceShape)'
  BY <1>1, <1>2 DEF ReplyShape, PlaceShape, HeadOnly, Streaming, ErrorFrom, libavVars
<1>3. CASE UNCHANGED <<calls, readVars, pc>>
  <2>1. HandlerShape'
    BY <1>1, <1>3 DEF readVars, libavVars
  <2> QED  BY <1>2, <1>3, <2>1 DEF readVars
<1>4. CASE ReadError
  <2>1. HandlerShape'
    BY <1>1, <1>4 DEF ReadError, libavVars, queueVars
  <2> QED  BY <1>2, <1>4, <2>1 DEF ReadError, queueVars
<1>5. ASSUME NEW t \in Threads, NEW v \in {"complete", "invalid", "incomplete"},
             HandleRead(t, v)
      PROVE  Shape'
  <2>1. /\ verdict = "unread" /\ verdict' = v /\ reading' = "none"
        /\ calls = <<>> /\ calls' = <<>>
        /\ \A u \in Threads : u # t => pc'[u] = "idle"
        /\ pc'[t] = IF v = "incomplete" THEN "reject" ELSE "handler"
    BY <1>5 DEF HandleRead, queueVars
  <2>2. /\ stage' = "construct" /\ ~subscribed' /\ ~inactive' /\ ~initialized'
        /\ tpc' = "idle"
    BY <1>1, <2>1 DEF libavVars
  <2>3. HandlerShape'
    BY <2>1, <2>2
  <2>4. Len(calls') = 0 /\ DOMAIN calls' = {}
    BY <2>1
  <2>5. ReplyShape' /\ PlaceShape'
    BY <2>2, <2>4 DEF ReplyShape, PlaceShape, HeadOnly
  <2> QED  BY <2>3, <2>5
<1>6. ASSUME NEW t \in Threads, RejectWrite(t)
      PROVE  Shape'
  <2>1. /\ verdict = "incomplete"
        /\ pc' \in {pc, [pc EXCEPT ![t] = "idle"]}
        /\ UNCHANGED readVars
    BY <1>6 DEF RejectWrite, Throw
  <2> QED  BY <1>1, <2>1 DEF readVars, libavVars
<1> QED  BY <1>3, <1>4, <1>5, <1>6
         DEF ConnectionStep, Transmit, HandleWriteOk, HandleWriteError

LEMMA HandlerKeepsShape ==
  ASSUME TypeOK, LibavTypeOK, Shape, NEW t \in Threads, HandlerStep(t)
  PROVE  Shape'
<1> USE DEF Shape, HandlerShape, Served, TypeOK, LibavTypeOK
<1>1. ASSUME UNCHANGED <<calls, verdict, initialized, inactive, tpc>>
      PROVE  (Served => ReplyShape /\ PlaceShape)'
  BY <1>1 DEF ReplyShape, PlaceShape, HeadOnly, Streaming, ErrorFrom
<1>2. CASE Construct(t)
  <2>1. /\ pc[t] = "handler"
        /\ stage = "construct" /\ stage' \in {"start", "done"}
        /\ pc' \in {pc, [pc EXCEPT ![t] = "idle"]}
        /\ UNCHANGED <<calls, readVars, subscribed, inactive, initialized, tpc>>
    BY <1>2 DEF Construct, Return, vars, queueVars
  <2>2. HandlerShape'
    BY <2>1 DEF readVars
  <2> QED  BY <1>1, <2>1, <2>2 DEF readVars
<1>3. ASSUME NEW known \in BOOLEAN, Start(t, known)
      PROVE  Shape'
  <2>1. /\ pc[t] = "handler"
        /\ stage = "start" /\ stage' = "done"
        /\ subscribed' = known /\ inactive' = ~known
        /\ UNCHANGED <<calls, pc, readVars, initialized, tpc>>
    BY <1>3 DEF Start, Retain, queueVars
  <2>2. Served /\ ~subscribed /\ ~inactive /\ tpc = "idle" /\ ~initialized /\ calls = <<>>
    BY <2>1
  <2>3. HandlerShape'
    BY <2>1, <2>2 DEF readVars
  <2>4. Len(calls') = 0 /\ DOMAIN calls' = {} /\ ~initialized' /\ tpc' = "idle"
    BY <2>1, <2>2
  <2>5. ReplyShape' /\ PlaceShape'
    BY <2>4 DEF ReplyShape, PlaceShape, HeadOnly
  <2> QED  BY <2>3, <2>5
<1>4. CASE HandlerReturn(t)
  <2>1. /\ pc' = [pc EXCEPT ![t] = "idle"]
        /\ UNCHANGED <<calls, readVars, libavVars>>
    BY <1>4 DEF HandlerReturn, Return, queueVars
  <2>2. HandlerShape'
    BY <2>1 DEF readVars, libavVars
  <2> QED  BY <1>1, <2>1, <2>2 DEF readVars, libavVars
<1> QED  BY <1>2, <1>3, <1>4 DEF HandlerStep

\* The steps of the reception thread that write nothing.
LEMMA SilentStepKeepsShape ==
  ASSUME TypeOK, LibavTypeOK, Shape,
         OnImageMsg \/ SetUp \/ HeadWritten \/ Encode \/ FrameWritten \/ Catch
  PROVE  Shape'
<1>1. /\ UNCHANGED <<calls, readVars, pc, stage, subscribed>>
      /\ tpc # "idle" \/ (subscribed /\ ~inactive)
  BY DEF OnImageMsg, SetUp, HeadWritten, Encode, FrameWritten, Catch, Work, vars,
         queueVars
<1>2. /\ subscribed /\ Served /\ stage = "done" /\ ~inactive
      /\ ReplyShape /\ PlaceShape
  BY <1>1 DEF Shape, HandlerShape
<1>3. inactive' => tpc' = "idle"
  BY <1>2 DEF OnImageMsg, SetUp, HeadWritten, Encode, FrameWritten, Catch, Work
<1>4. HandlerShape'
  BY <1>1, <1>2, <1>3 DEF Shape, HandlerShape, Served, readVars
<1>5. CASE OnImageMsg \/ SetUp \/ Encode \/ FrameWritten \/ Catch
  <2>1. initialized' = initialized
    <3>1. OnImageMsg => initialized' = initialized
      BY DEF OnImageMsg
    <3>2. SetUp \/ Encode \/ FrameWritten \/ Catch => initialized' = initialized
      BY DEF SetUp, Encode, FrameWritten, Catch
    <3> QED  BY <1>5, <3>1, <3>2
  <2>2. ReplyShape'
    BY <1>1, <1>2, <2>1, SameReply DEF ReplyShape
  <2>3. CASE OnImageMsg
    <3>1. tpc = "idle" /\ tpc' \in {"encode", "initialize"}
          /\ (tpc' = "encode" <=> initialized)
      BY <2>3 DEF OnImageMsg
    <3>2. ~initialized => Len(calls) = 0
      BY <1>2, <3>1 DEF PlaceShape
    <3> QED  BY <1>1, <1>4, <2>1, <2>2, <3>1, <3>2 DEF Shape, PlaceShape
  <2>4. CASE SetUp
    <3>1. tpc' \in {"status", "error status"} /\ ~initialized /\ Len(calls) = 0
      BY <1>2, <2>4 DEF SetUp, Work, PlaceShape
    <3>2. HeadOnly' /\ Len(calls') = 0
      <4>1. DOMAIN calls = {}
        <5>1. DOMAIN calls = 1 .. 0
          BY <3>1, LenProperties DEF TypeOK
        <5> QED  BY <5>1
      <4> QED  BY <1>1, <3>1, <4>1 DEF HeadOnly
    <3>3. ~initialized'
      BY <2>1, <3>1
    <3>4. PlaceShape'
      <4>1. Len(calls') # 1
        BY <3>2
      <4> QED  BY <3>1, <3>2, <3>3, <4>1 DEF PlaceShape
    <3> QED  BY <1>4, <2>2, <3>4 DEF Shape
  <2>5. CASE Encode \/ FrameWritten
    <3>1. initialized /\ tpc' \in {"frame", "raw", "throw"}
      BY <1>2, <2>5 DEF Encode, FrameWritten, Work, PlaceShape
    <3> QED  BY <1>4, <2>1, <2>2, <3>1 DEF Shape, PlaceShape
  <2>6. CASE Catch
    <3>1. inactive' /\ tpc' = "idle"
      BY <2>6 DEF Catch
    <3> QED  BY <1>4, <2>2, <3>1 DEF Shape, PlaceShape
  <2> QED  BY <1>5, <2>3, <2>4, <2>5, <2>6
<1>6. CASE HeadWritten
  <2>1. ~initialized /\ HeadOnly /\ Len(calls) >= 2
    BY <1>2, <1>6 DEF HeadWritten, Work, PlaceShape
  <2>2. /\ tpc' \in {"encode", "error status"}
        /\ initialized' <=> tpc' = "encode"
    BY <1>6 DEF HeadWritten, Work
  <2>3. HeadOnly' /\ Len(calls') >= 2
    BY <1>1, <2>1, SameReply
  <2>4. Streaming'
    BY <2>3 DEF HeadOnly, Streaming, HeadBlock
  <2>5. Len(calls') # 1
    <3>1. Len(calls) \in Nat /\ Len(calls') = Len(calls)
      BY <1>1, LenProperties DEF TypeOK
    <3> QED  BY <2>1, <3>1
  <2>6. ReplyShape'
    BY <2>3, <2>4 DEF ReplyShape
  <2>7. PlaceShape'
    BY <2>2, <2>3, <2>5 DEF PlaceShape
  <2> QED  BY <1>4, <2>6, <2>7 DEF Shape
<1> QED  BY <1>5, <1>6

\* The steps that write a block.
LEMMA WriteKeepsShape ==
  ASSUME TypeOK, LibavTypeOK, Shape,
         SendHeaders \/ DispatchOutputPacket \/ WriteEncodedFrame \/ SendError
  PROVE  Shape'
<1>1. PICK place, kind, next : WriteBlock(place, kind, next)
  BY DEF SendHeaders, DispatchOutputPacket, WriteEncodedFrame, SendError
<1>2. /\ UNCHANGED <<readVars, pc, stage, subscribed, inactive, initialized>>
      /\ tpc = place
  BY <1>1 DEF WriteBlock, AppWrite
<1>3. tpc # "idle"
  BY DEF SendHeaders, DispatchOutputPacket, WriteEncodedFrame, SendError, WriteBlock
<1>4. /\ subscribed /\ Served /\ stage = "done" /\ ~inactive
      /\ ReplyShape /\ PlaceShape
  BY <1>2, <1>3 DEF Shape, HandlerShape
<1>5. HandlerShape'
  BY <1>2, <1>3, <1>4 DEF Shape, HandlerShape, Served, readVars
<1>6. Len(calls) \in Nat
  BY LenProperties DEF TypeOK
<1>7. ASSUME NEW from, NEW k, NEW to, WriteBlock(from, k, to), k \in Kinds
      PROVE  /\ DoWrite(k)
             /\ tpc = from
             /\ tpc' \in {to, "throw"}
             /\ initialized' = initialized
             /\ Len(calls') = Len(calls) + 1
             /\ DOMAIN calls' = 1 .. Len(calls')
             /\ HeadOnly /\ k = HeadBlock(Len(calls) + 1) => HeadOnly'
             /\ HeadOnly /\ k = "status" /\ Len(calls) # 1 => ErrorFrom(Len(calls))'
  <2>1. DoWrite(k) /\ tpc = from /\ tpc' \in {to, "throw"} /\ initialized' = initialized
    BY <1>7 DEF WriteBlock, AppWrite
  <2> QED  BY <1>7, <2>1, WriteAppends, HeadGrows
<1>8. CASE SendHeaders
  <2>1. CASE WriteBlock("status", "status", "headers")
    <3>1. /\ ~initialized /\ HeadOnly /\ Len(calls) = 0
      BY <1>2, <1>4, <2>1 DEF WriteBlock, PlaceShape, HeadOnly
    <3>2. /\ ~initialized' /\ tpc' \in {"headers", "throw"}
          /\ HeadOnly' /\ Len(calls') = 1
      BY <1>7, <2>1, <3>1, LibavAssumption DEF HeadBlock
    <3>3. ReplyShape' /\ PlaceShape'
      BY <3>2 DEF ReplyShape, PlaceShape
    <3> QED  BY <1>5, <3>3 DEF Shape
  <2>2. CASE WriteBlock("headers", "headers", "head")
    <3>1. ~initialized /\ HeadOnly /\ Len(calls) = 1
      BY <1>2, <1>4, <2>2 DEF WriteBlock, PlaceShape
    <3>2. /\ ~initialized' /\ tpc' \in {"head", "throw"}
          /\ HeadOnly' /\ Len(calls') = 2
      BY <1>7, <2>2, <3>1, LibavAssumption DEF HeadBlock
    <3>3. ReplyShape'
      BY <3>2 DEF ReplyShape
    <3>4. PlaceShape'
      <4>1. Len(calls') >= 2 /\ Len(calls') # 1
        BY <3>2
      <4> QED  BY <3>2, <4>1 DEF PlaceShape
    <3> QED  BY <1>5, <3>3, <3>4 DEF Shape
  <2> QED  BY <1>8, <2>1, <2>2 DEF SendHeaders
<1>9. CASE DispatchOutputPacket
  <2>1. CASE WriteBlock("head", "packet", "head")
    <3>1. ~initialized /\ HeadOnly /\ Len(calls) >= 2
      BY <1>2, <1>4, <2>1 DEF WriteBlock, PlaceShape
    <3>2. "packet" = HeadBlock(Len(calls) + 1)
      BY <1>6, <3>1 DEF HeadBlock
    <3>3. /\ ~initialized' /\ tpc' \in {"head", "throw"}
          /\ HeadOnly' /\ Len(calls') >= 2
      BY <1>6, <1>7, <2>1, <3>1, <3>2, LibavAssumption
    <3> QED  BY <1>5, <3>3 DEF Shape, ReplyShape, PlaceShape
  <2>2. CASE WriteBlock("frame", "packet", "frame")
    <3>1. initialized /\ Streaming
      BY <1>2, <1>4, <2>2 DEF WriteBlock, PlaceShape, ReplyShape
    <3>2. initialized' /\ Streaming' /\ tpc' \in {"frame", "throw"}
      BY <1>7, <2>2, <3>1, StreamGrows, LibavAssumption
    <3> QED  BY <1>5, <3>2 DEF Shape, ReplyShape, PlaceShape
  <2> QED  BY <1>9, <2>1, <2>2 DEF DispatchOutputPacket
<1>10. CASE WriteEncodedFrame
  <2>1. WriteBlock("raw", "raw", "idle")
    BY <1>10 DEF WriteEncodedFrame
  <2>2. initialized /\ Streaming
    BY <1>2, <1>4, <2>1 DEF WriteBlock, PlaceShape, ReplyShape
  <2>3. initialized' /\ Streaming' /\ tpc' \in {"idle", "throw"}
    BY <1>7, <2>1, <2>2, StreamGrows, LibavAssumption
  <2> QED  BY <1>5, <2>3 DEF Shape, ReplyShape, PlaceShape
<1>11. CASE SendError
  <2>1. CASE WriteBlock("error status", "status", "error headers")
    <3>1. ~initialized /\ HeadOnly /\ Len(calls) # 1
      BY <1>2, <1>4, <2>1 DEF WriteBlock, PlaceShape
    <3>2. "status" \in Kinds
      BY LibavAssumption
    <3>3. /\ ~initialized' /\ tpc' \in {"error headers", "throw"}
          /\ ErrorFrom(Len(calls))' /\ Len(calls') \in 1 .. Len(calls')
          /\ DOMAIN calls' = 1 .. Len(calls')
      <4>1. /\ tpc' \in {"error headers", "throw"} /\ initialized' = initialized
            /\ Len(calls') = Len(calls) + 1 /\ DOMAIN calls' = 1 .. Len(calls')
            /\ ErrorFrom(Len(calls))'
        BY <1>7, <2>1, <3>1, <3>2
      <4>2. ~initialized'
        BY <3>1, <4>1
      <4>3. Len(calls') \in 1 .. Len(calls')
        BY <1>6, <4>1, LastOfCount, Zenon
      <4> QED  BY <4>1, <4>2, <4>3
    <3>4. ReplyShape'
      BY <3>3 DEF ReplyShape
    <3>5. PlaceShape'
      BY <3>3 DEF PlaceShape
    <3> QED  BY <1>5, <3>4, <3>5 DEF Shape
  <2>2. CASE WriteBlock("error headers", "headers", "error content")
    <3>1. PICK e : e = Len(calls)
      OBVIOUS
    <3>2. ~initialized /\ ErrorFrom(e)
      BY <1>2, <1>4, <2>2, <3>1 DEF WriteBlock, PlaceShape
    <3>3. Len(calls) <= e + 1 /\ "headers" = <<"headers", "content">>[Len(calls) + 1 - e]
      BY <1>6, <3>1
    <3>4. /\ ~initialized' /\ tpc' \in {"error content", "throw"}
          /\ DoWrite("headers") /\ "headers" \in Kinds
      <4>1. "headers" \in Kinds
        BY LibavAssumption
      <4> QED  BY <1>7, <2>2, <3>2, <4>1
    <3>5. ErrorFrom(e)' /\ e \in DOMAIN calls' /\ Len(calls') = Len(calls) + 1
      BY <3>2, <3>3, <3>4, ErrorGrows
    <3>6. ReplyShape'
      BY <3>4, <3>5 DEF ReplyShape
    <3>7. Len(calls') - 1 = e
      BY <1>6, <3>1, <3>5
    <3>8. PlaceShape'
      BY <3>4, <3>5, <3>7 DEF PlaceShape
    <3> QED  BY <1>5, <3>6, <3>8 DEF Shape
  <2>3. CASE WriteBlock("error content", "content", "throw")
    <3>1. PICK e : e = Len(calls) - 1
      OBVIOUS
    <3>2. ~initialized /\ ErrorFrom(e)
      BY <1>2, <1>4, <2>3, <3>1 DEF WriteBlock, PlaceShape
    <3>3. Len(calls) <= e + 1 /\ "content" = <<"headers", "content">>[Len(calls) + 1 - e]
      BY <1>6, <3>1
    <3>4. /\ ~initialized' /\ tpc' = "throw"
          /\ DoWrite("content") /\ "content" \in Kinds
      <4>1. "content" \in Kinds
        BY LibavAssumption
      <4> QED  BY <1>7, <2>3, <3>2, <4>1
    <3>5. ErrorFrom(e)' /\ e \in DOMAIN calls'
      BY <3>2, <3>3, <3>4, ErrorGrows
    <3>6. ReplyShape'
      BY <3>4, <3>5 DEF ReplyShape
    <3>7. PlaceShape'
      BY <3>4 DEF PlaceShape
    <3> QED  BY <1>5, <3>6, <3>7 DEF Shape
  <2> QED  BY <1>11, <2>1, <2>2, <2>3 DEF SendError
<1> QED  BY <1>8, <1>9, <1>10, <1>11

LEMMA ShapeInvariant == LibavSpec => [](TypeOK /\ LibavTypeOK /\ Shape)
<1>1. LibavInit => Shape
  BY DEF LibavInit, Init, Shape, HandlerShape, Served
<1>2. TypeOK /\ LibavTypeOK /\ Shape /\ [LibavNext]_libavStreamVars => Shape'
  <2>1. ASSUME Shape, UNCHANGED libavStreamVars
        PROVE  Shape'
    <3>1. UNCHANGED <<calls, readVars, pc, stage, subscribed, inactive, initialized, tpc>>
      BY <2>1 DEF libavStreamVars, vars, queueVars, libavVars
    <3>2. HandlerShape'
      BY <2>1, <3>1 DEF Shape, HandlerShape, Served, readVars
    <3>3. Served => (ReplyShape /\ PlaceShape)'
      BY <2>1, <3>1
         DEF Shape, ReplyShape, PlaceShape, HeadOnly, Streaming, ErrorFrom
    <3> QED  BY <3>1, <3>2, <3>3 DEF Shape, Served, readVars
  <2> QED  BY <2>1, ConnectionKeepsShape, HandlerKeepsShape, SilentStepKeepsShape,
              WriteKeepsShape DEF LibavNext, SendImage
<1> QED  BY <1>1, <1>2, LibavTypes, PTL DEF LibavSpec

\* The reply has one head and at most one error reply behind it, which ends it,
\* wherever libav, the encoder or the connection fails.
THEOREM OneReplyPerStream == LibavSpec => []OneReplyAndAtMostOneError
<1>1. TypeOK /\ Shape => OneReplyAndAtMostOneError
  <2> SUFFICES ASSUME TypeOK, Shape, Served, NEW i \in DOMAIN calls,
                      calls[i].kind = "status", i # 1
               PROVE  /\ i > 2
                      /\ \A j \in 3 .. i - 1 : calls[j].kind = "packet"
                      /\ Len(calls) <= i + 2
                      /\ \A j \in i + 1 .. Len(calls) :
                           calls[j].kind = <<"headers", "content">>[j - i]
    BY DEF OneReplyAndAtMostOneError
  <2>1. DOMAIN calls = 1 .. Len(calls) /\ Len(calls) \in Nat
    BY LenProperties DEF TypeOK
  <2>2. ReplyShape
    BY DEF Shape
  <2>3. ~Streaming
    BY <2>1 DEF Streaming, HeadBlock
  <2>4. ~HeadOnly
    BY <2>1 DEF HeadOnly, HeadBlock
  <2>5. PICK e \in DOMAIN calls : ErrorFrom(e)
    BY <2>2, <2>3, <2>4 DEF ReplyShape
  <2>6. i = e
    <3>1. ~(i < e)
      BY <2>5 DEF ErrorFrom, HeadBlock
    <3>2. ~(i > e)
      <4>1. ASSUME i > e
            PROVE  FALSE
        <5>1. i - e \in {1, 2} /\ <<"headers", "content">>[i - e] = "status"
          BY <2>1, <2>5, <4>1 DEF ErrorFrom
        <5> QED  BY <5>1
      <4> QED  BY <4>1
    <3> QED  BY <2>1, <3>1, <3>2
  <2>7. i > 2
    BY <2>1, <2>5, <2>6 DEF ErrorFrom
  <2>8. ASSUME NEW j \in 3 .. i - 1
        PROVE  calls[j].kind = "packet"
    BY <2>1, <2>5, <2>6, <2>8 DEF ErrorFrom, HeadBlock
  <2>9. Len(calls) <= i + 2
    BY <2>1, <2>5, <2>6 DEF ErrorFrom
  <2>10. ASSUME NEW j \in i + 1 .. Len(calls)
         PROVE  calls[j].kind = <<"headers", "content">>[j - i]
    BY <2>1, <2>5, <2>6, <2>10 DEF ErrorFrom
  <2> QED  BY <2>7, <2>8, <2>9, <2>10
<1> QED  BY <1>1, ShapeInvariant, PTL

\* No image is encoded or sent before, or without, the reply's head.
THEOREM HeadComesFirst == LibavSpec => []ImagesFollowTheHead
<1>1. TypeOK /\ Shape => ImagesFollowTheHead
  <2> SUFFICES ASSUME TypeOK, Shape
               PROVE  ImagesFollowTheHead
    OBVIOUS
  <2>1. DOMAIN calls = 1 .. Len(calls) /\ Len(calls) \in Nat
    BY LenProperties DEF TypeOK
  <2>2. initialized => Served
    BY DEF Shape, HandlerShape, Served
  <2>3. tpc \in {"encode", "frame", "raw"} => initialized
    BY DEF Shape, HandlerShape, PlaceShape, Served
  <2>4. initialized => Streaming
    BY <2>2 DEF Shape, ReplyShape
  <2>5. Streaming => /\ Len(calls) >= 2
                     /\ calls[1].kind = "status" /\ calls[2].kind = "headers"
    BY <2>1 DEF Streaming, HeadBlock
  <2>6. ASSUME Served, ~initialized, NEW i \in DOMAIN calls
        PROVE  calls[i].kind # "raw"
    <3>1. CASE HeadOnly
      BY <3>1 DEF HeadOnly, HeadBlock
    <3>2. ASSUME NEW e \in DOMAIN calls, ErrorFrom(e)
          PROVE  calls[i].kind # "raw"
      <4>1. CASE i < e
        BY <3>2, <4>1 DEF ErrorFrom, HeadBlock
      <4>2. CASE i = e
        BY <3>2, <4>2 DEF ErrorFrom
      <4>3. CASE i > e
        <5>1. /\ i - e \in {1, 2}
              /\ calls[i].kind = <<"headers", "content">>[i - e]
          BY <2>1, <3>2, <4>3 DEF ErrorFrom
        <5> QED  BY <5>1
      <4> QED  BY <2>1, <4>1, <4>2, <4>3
    <3> QED  BY <2>6, <3>1, <3>2 DEF Shape, ReplyShape
  <2> QED  BY <2>3, <2>4, <2>5, <2>6 DEF ImagesFollowTheHead
<1> QED  BY <1>1, ShapeInvariant, PTL

\* A streamer that gave up writes nothing more, and nobody else writes to its
\* connection.
THEOREM InactiveStaysSilent == LibavSpec => SilentWhenInactive
<1>1. ASSUME Shape, [LibavNext]_libavStreamVars, inactive
      PROVE  calls' = calls
  <2>1. tpc = "idle" /\ stage = "done" /\ \A t \in Threads : pc[t] # "reject"
    BY <1>1 DEF Shape, HandlerShape, Served
  <2>2. CASE ConnectionStep
    BY <2>1, <2>2 DEF ConnectionStep, Transmit, ReadError, HandleWriteOk,
                      HandleWriteError, HandleRead, RejectWrite, queueVars
  <2>3. ASSUME NEW t \in Threads, HandlerStep(t)
        PROVE  calls' = calls
    BY <2>1, <2>3
       DEF HandlerStep, Construct, Start, HandlerReturn, Return, Retain, vars, queueVars
  <2>4. ~OnImageMsg
    BY <1>1 DEF OnImageMsg
  <2>5. ~SendImage
    BY <2>1 DEF SendImage, SetUp, SendHeaders, HeadWritten, Encode,
                DispatchOutputPacket, FrameWritten, WriteEncodedFrame, SendError, Catch,
                Work, WriteBlock
  <2>6. CASE UNCHANGED libavStreamVars
    BY <2>6 DEF libavStreamVars, vars, queueVars
  <2> QED  BY <1>1, <2>2, <2>3, <2>4, <2>5, <2>6 DEF LibavNext
<1>2. Shape /\ [LibavNext]_libavStreamVars => [inactive => calls' = calls]_libavStreamVars
  BY <1>1
<1> QED  BY <1>2, ShapeInvariant, PTL DEF LibavSpec, SilentWhenInactive
===============================================================================
