-------------------------- MODULE HandlerGroupProofs --------------------------
(***************************************************************************)
(* Proofs about HandlerGroup, for any pool, any application threads, any   *)
(* handlers in any order, and any bodies however they are cut into reads.  *)
(*                                                                         *)
(* The handlers are users of the connection: their steps are steps of      *)
(* HttpConnection or leave it alone, so the theorems about HttpConnection  *)
(* hold below them.  What they write is tied to where they are: nothing    *)
(* before a handler is taken or while a body is collected, a part of one   *)
(* reply, or a whole 101 and frames.                                       *)
(***************************************************************************)
EXTENDS HandlerGroup, HttpConnectionProofs

LEMMA ReplyIs == FullReply = <<"status", "headers", "content">>
<1> DEFINE s == <<"status", "headers">>
           t == <<"content">>
           u == <<"status", "headers", "content">>
           kinds == {"status", "headers", "content"}
<1>1. s \in Seq(kinds) /\ t \in Seq(kinds) /\ u \in Seq(kinds)
  <2>1. s \in Seq(kinds)
    OBVIOUS
  <2>2. t \in Seq(kinds)
    OBVIOUS
  <2>3. u \in Seq(kinds)
    OBVIOUS
  <2> QED  BY <2>1, <2>2, <2>3
<1>2. Len(s) = 2 /\ Len(t) = 1 /\ Len(u) = 3
  OBVIOUS
<1>3. /\ s \o t \in Seq(kinds)
      /\ Len(s \o t) = 3
      /\ \A i \in 1 .. 3 : (s \o t)[i] = IF i <= 2 THEN s[i] ELSE t[i - 2]
  BY <1>1, <1>2, ConcatProperties
<1>4. \A i \in 1 .. 3 : (s \o t)[i] = u[i]
  BY <1>3
<1>5. s \o t = u
  BY <1>1, <1>2, <1>3, <1>4, SeqEqual
<1> QED  BY <1>5 DEF FullReply, BuiltReply

-------------------------------------------------------------------------------
(* The handlers' connection is an HttpConnection.                          *)

ReplyTypeOK ==
  reply \in {<<>>, <<"content">>, <<"headers">>, <<"headers", "content">>,
             BuiltReply, FullReply}

\* What a handler is about to write is a kind of block, and so is what follows.
LEMMA NextOfReply ==
  ASSUME ReplyTypeOK, reply # <<>>
  PROVE  /\ Head(reply) \in Kinds
         /\ Tail(reply) \in {<<>>, <<"content">>, <<"headers">>, <<"headers", "content">>}
<1>1. {"status", "headers", "content"} \subseteq Kinds
  BY ReplyAssumption
<1>2. CASE reply = <<"status", "headers", "content">>
  BY <1>1, <1>2
<1>3. CASE reply = <<"status", "headers">>
  BY <1>1, <1>3
<1>4. CASE reply = <<"headers", "content">>
  BY <1>1, <1>4
<1>5. CASE reply = <<"headers">>
  BY <1>1, <1>5
<1>6. CASE reply = <<"content">>
  BY <1>1, <1>6
<1> QED  BY <1>2, <1>3, <1>4, <1>5, <1>6, ReplyIs DEF ReplyTypeOK, BuiltReply

LEMMA GroupStepIsConnectionStep ==
  ASSUME ReplyTypeOK, [GroupNext]_handlerVars
  PROVE  [Next]_vars
<1>1. CASE UNCHANGED vars
  BY <1>1
<1>2. CASE ConnectionStep /\ ~terminated
  BY <1>2 DEF ConnectionStep, Next, Step
<1>3. ASSUME NEW t \in Threads, GroupStep(t), ~terminated
      PROVE  [Next]_vars
  BY <1>3 DEF GroupStep, Pass, Take, TakeDefault, HandlerReturn, Next, Step
<1>4. ASSUME NEW t \in Threads, ReplyStep(t), ~terminated
      PROVE  [Next]_vars
  <2>1. ThreadWrite(t, Head(reply)) /\ Head(reply) \in Kinds
    BY <1>4, NextOfReply DEF ReplyStep, SendBlock
  <2> QED  BY <1>4, <2>1 DEF Next, Step
<1>5. ASSUME NEW t \in Threads, CollectorStep(t) \/ MoreBody(t), ~terminated
      PROVE  [Next]_vars
  BY <1>5 DEF CollectorStep, MoreBody, CollectChunk, AskForMore, MoreOfBody, Next, Step
<1>6. ASSUME NEW t \in Threads, SessionStep(t), ~terminated
      PROVE  [Next]_vars
  BY <1>6, WebsocketAssumption DEF SessionStep, Establish, Keep, Accept, SendFrame,
     ReadFrames, MoreFrames, Next, Step
<1>7. CASE AppStep /\ ~terminated
  BY <1>7, WebsocketAssumption DEF AppStep, AppSendFrame, Drop, Next
<1> QED  BY <1>1, <1>2, <1>3, <1>4, <1>5, <1>6, <1>7 DEF GroupNext, handlerVars

LEMMA ReplyTypeStep ==
  ReplyTypeOK /\ [GroupNext]_handlerVars => ReplyTypeOK'
<1> SUFFICES ASSUME ReplyTypeOK, [GroupNext]_handlerVars
             PROVE  ReplyTypeOK'
  OBVIOUS
<1>1. CASE reply' \in {reply, <<>>, BuiltReply, FullReply}
  BY <1>1 DEF ReplyTypeOK
<1>2. ASSUME NEW t \in Threads, ReplyStep(t)
      PROVE  ReplyTypeOK'
  BY <1>2, NextOfReply DEF ReplyStep, SendBlock, ReplyTypeOK
<1>3. ASSUME NEW t \in Threads, CollectorStep(t) \/ MoreBody(t)
      PROVE  reply' \in {reply, <<>>, FullReply}
  BY <1>3 DEF CollectorStep, MoreBody, CollectChunk, RejectBody, KeepChunk, AskForMore,
     MoreOfBody
<1>4. ASSUME NEW t \in Threads, SessionStep(t) \/ GroupStep(t)
      PROVE  reply' \in {reply, BuiltReply, FullReply}
  BY <1>4 DEF SessionStep, GroupStep, Establish, Keep, Accept, SendFrame, ReadFrames,
     MoreFrames, Pass, Take, TakeDefault, HandlerReturn, Upgrade, handlingVars
<1>5. CASE ConnectionStep \/ AppStep \/ UNCHANGED handlerVars
  BY <1>1, <1>5 DEF ConnectionStep, AppStep, AppSendFrame, Drop, handlingVars, handlerVars
<1> QED  BY <1>1, <1>2, <1>3, <1>4, <1>5 DEF GroupNext

\* Whatever handlers a group has, and whatever they do, the connection below
\* behaves as HttpConnection says any user's connection does.
THEOREM GroupUsesConnection == GroupSpec => Spec
<1>1. GroupInit => Init /\ ReplyTypeOK
  BY DEF GroupInit, ReplyTypeOK
<1>2. ReplyTypeOK /\ [GroupNext]_handlerVars => [Next]_vars
  BY GroupStepIsConnectionStep
<1> QED  BY <1>1, <1>2, ReplyTypeStep, PTL DEF GroupSpec, Spec
-------------------------------------------------------------------------------
(* Who runs, and for which request.                                        *)

\* The handlers run once, for a request that was not rejected, on one thread
\* at a time, and until one of them takes the request nothing has happened.
Dispatch ==
  /\ reading = "request" => verdict = "unread"
  /\ verdict = "unread" => ~taken /\ \A t \in Threads : pc[t] = "idle"
  /\ \A s, t \in Threads : pc[s] # "idle" /\ pc[t] # "idle" => s = t
  /\ \A t \in Threads : pc[t] = "reject" => verdict = "incomplete"
  /\ \A t \in Threads : UserCode(t) => verdict \in {"complete", "invalid"}
  /\ verdict = "incomplete" => ~taken
  /\ ~taken => /\ reply = <<>>
               /\ collector = "none"
               /\ session = "none"
               /\ holders = {}
               /\ reading # "more"
  /\ collector # "none" => session = "none"
  /\ holders # {} => session \notin {"none", "handshake"}

\* What the collector has is what arrived, and it calls its handler once.
Collected ==
  /\ length_ >= 0 => /\ received_length_ = arrived
                     /\ body_stream_ = [i \in 1 .. arrived |-> i]
  /\ collector = "none" => /\ arrived = 0 /\ received_length_ = 0
                           /\ body_stream_ = <<>> /\ bodies = <<>>
  /\ \/ bodies = <<>>
     \/ /\ collector = "over"
        /\ length_ >= 0
        /\ bodies = <<[i \in 1 .. length_ |-> i]>>

\* The blocks written are the first of a reply, and the rest of it is to be
\* written, or given up.
Part(written, rest, whole) ==
  /\ Len(written) <= Len(whole)
  /\ \A i \in 1 .. Len(written) : written[i].kind = whole[i]
  /\ \/ rest = <<>>
     \/ /\ Len(written) + Len(rest) = Len(whole)
        /\ \A i \in 1 .. Len(rest) : rest[i] = whole[Len(written) + i]

\* A whole 101 and frames.
FramesBehindReply(written) ==
  /\ Len(written) >= 2
  /\ \A i \in 1 .. Len(written) :
       written[i].kind = IF i <= 2 THEN BuiltReply[i] ELSE "frame"

Written ==
  verdict # "incomplete" =>
    /\ ~taken => calls = <<>>
    /\ collector \in {"read", "more", "waiting"} => calls = <<>> /\ reply = <<>>
    /\ (collector = "over" /\ length_ >= 0 /\ bodies = <<>>) => calls = <<>> /\ reply = <<>>
    /\ session = "none" => Part(calls, reply, FullReply)
    /\ session = "handshake" =>
         /\ Part(calls, reply, BuiltReply)
         /\ (reply = <<>> /\ \E t \in Threads : UserCode(t)) => Len(calls) = 2
    /\ session \notin {"none", "handshake"} => reply = <<>> /\ FramesBehindReply(calls)

LEMMA DispatchInit == GroupInit => Dispatch
BY DEF GroupInit, Init, CollectorInit, SessionInit, Dispatch, UserCode

\* Most steps at most end what a thread runs, and concern the handler that
\* took the request, if they concern a handler at all.
LEMMA DispatchKept ==
  ASSUME Dispatch, UNCHANGED <<verdict, taken>>,
         \A s \in Threads : pc'[s] \in {pc[s], "idle"},
         reading' \in {reading, "none"} \/ (reading' = "more" /\ taken),
         UNCHANGED <<reply, collector, session, holders>> \/ taken,
         collector' # "none" => session' = "none",
         holders' # {} => session' \notin {"none", "handshake"}
  PROVE  Dispatch'
<1>1. \A s \in Threads : UserCode(s)' => UserCode(s)
  BY DEF UserCode
<1>2. \A s, t \in Threads : pc'[s] # "idle" /\ pc'[t] # "idle" => s = t
  BY DEF Dispatch
<1>3. /\ reading' = "request" => verdict' = "unread"
      /\ verdict' = "unread" => ~taken' /\ \A t \in Threads : pc'[t] = "idle"
      /\ \A t \in Threads : pc'[t] = "reject" => verdict' = "incomplete"
  BY DEF Dispatch
<1> QED  BY <1>1, <1>2, <1>3 DEF Dispatch

LEMMA DispatchStep == TypeOK /\ Dispatch /\ [GroupNext]_handlerVars => Dispatch'
<1> SUFFICES ASSUME TypeOK, Dispatch, [GroupNext]_handlerVars
             PROVE  Dispatch'
  OBVIOUS
<1>a. pc \in [Threads -> {"idle", "handler", "reject", "callback"}]
  BY DEF TypeOK
<1>b. /\ collector # "none" => session = "none"
      /\ holders # {} => session \notin {"none", "handshake"}
      /\ ~taken => collector = "none" /\ session = "none" /\ holders = {} /\ reply = <<>>
  BY DEF Dispatch
<1>1. CASE UNCHANGED handlerVars
  BY <1>1, <1>b, DispatchKept DEF handlerVars, vars, readVars, handlingVars, collectorVars,
     sessionVars, groupVars
<1>2. CASE ConnectionStep
  <2>1. UNCHANGED <<reply, collector, session, taken>>
    BY <1>2 DEF ConnectionStep, handlingVars, collectorVars, sessionVars, groupVars
  <2>2. CASE \E w \in writes : Transmit(w)
    BY <2>1, <2>2, <1>b, DispatchKept DEF Transmit, readVars
  <2>3. CASE ReadError
    BY <2>1, <2>3, <1>b, DispatchKept DEF ReadError
  <2>4. ASSUME NEW t \in Threads, HandleWriteOk(t) \/ HandleWriteError(t)
        PROVE  Dispatch'
    BY <2>1, <2>4, <1>b, DispatchKept DEF HandleWriteOk, HandleWriteError, readVars
  <2>5. ASSUME NEW t \in Threads, NEW v \in {"complete", "invalid", "incomplete"},
               HandleRead(t, v)
        PROVE  Dispatch'
    <3>1. /\ verdict = "unread" /\ ~taken
          /\ reading' = "none" /\ verdict' = v /\ holders' = holders
          /\ \A s \in Threads : s # t => pc'[s] = "idle"
          /\ pc'[t] = IF v = "incomplete" THEN "reject" ELSE "handler"
      BY <2>5, <1>a DEF HandleRead, StrandFree, Dispatch
    <3>2. \A s \in Threads : UserCode(s)' => s = t /\ v # "incomplete"
      BY <3>1 DEF UserCode
    <3> QED  BY <2>1, <3>1, <3>2, <1>b DEF Dispatch
  <2>6. ASSUME NEW t \in Threads, RejectWrite(t)
        PROVE  Dispatch'
    <3>1. /\ UNCHANGED <<verdict, reading, holders>>
          /\ \A s \in Threads : pc'[s] \in {pc[s], "idle"}
      BY <2>6, <1>a DEF RejectWrite, Throw, readVars
    <3> QED  BY <2>1, <3>1, <1>b, DispatchKept
  <2> QED  BY <1>2, <2>2, <2>3, <2>4, <2>5, <2>6 DEF ConnectionStep
<1>3. ASSUME NEW t \in Threads, Pass(t) \/ HandlerReturn(t)
      PROVE  Dispatch'
  <2>1. /\ UNCHANGED <<verdict, reading, holders, reply, collector, session, taken>>
        /\ \A s \in Threads : pc'[s] \in {pc[s], "idle"}
    BY <1>3, <1>a DEF Pass, HandlerReturn, Return, vars, readVars, handlingVars, collectorVars,
       sessionVars, groupVars
  <2> QED  BY <2>1, <1>b, DispatchKept
<1>4. ASSUME NEW t \in Threads, Take(t) \/ TakeDefault(t)
      PROVE  Dispatch'
  <2>1. /\ taken' /\ ~taken /\ UserCode(t)
        /\ UNCHANGED <<pc, verdict, reading, holders>>
        /\ collector' = "none" \/ session' = "none"
    BY <1>4, <1>b DEF Take, TakeDefault, Asking, UserCode, StartCollector, Upgrade, vars, readVars,
       collectorVars, sessionVars
  <2>2. verdict \in {"complete", "invalid"}
    BY <2>1 DEF Dispatch
  <2>3. holders' = {}
    BY <2>1, <1>b
  <2>4. \A s \in Threads : UserCode(s)' = UserCode(s)
    BY <2>1 DEF UserCode
  <2>5. reading' = "request" => verdict' = "unread"
    BY <2>1 DEF Dispatch
  <2> QED  BY <2>1, <2>2, <2>3, <2>4, <2>5 DEF Dispatch
<1>5. ASSUME NEW t \in Threads,
             ReplyStep(t) \/ CollectorStep(t)
      PROVE  Dispatch'
  <2>1. /\ taken
        /\ UNCHANGED <<verdict, holders, session, taken>>
        /\ \A s \in Threads : pc'[s] \in {pc[s], "idle"}
        /\ reading' \in {reading, "more"}
    BY <1>5, <1>a, <1>b DEF ReplyStep, SendBlock, CollectorStep, CollectChunk, AskForMore,
       ThreadWrite, AsyncRead, Throw, vars, readVars, collectorVars, sessionVars, groupVars
  <2>2. collector' # "none" => session' = "none"
    BY <1>5, <1>b DEF ReplyStep, SendBlock, CollectorStep, CollectChunk, AskForMore,
       collectorVars, sessionVars
  <2> QED  BY <2>1, <2>2, <1>b, DispatchKept
<1>6. ASSUME NEW t \in Threads, MoreBody(t) \/ (SessionStep(t) /\ MoreFrames(t))
      PROVE  Dispatch'
  <2>1. /\ taken /\ reading = "more" /\ reading' = "none"
        /\ UNCHANGED <<verdict, holders, reply, taken>>
        /\ \A s \in Threads : pc[s] = "idle" /\ (s # t => pc'[s] = "idle")
        /\ pc'[t] = "callback"
    BY <1>6, <1>a, <1>b DEF MoreBody, MoreOfBody, SessionStep, MoreFrames, HandleReadMore,
       StrandFree, groupVars
  <2>2. verdict \in {"complete", "invalid"}
    BY <2>1 DEF Dispatch, TypeOK
  <2>3. /\ collector' # "none" => session' = "none"
        /\ holders' # {} => session' \notin {"none", "handshake"}
    BY <1>6, <1>b, <2>1 DEF MoreBody, MoreOfBody, SessionStep, MoreFrames, collectorVars, sessionVars
  <2> QED  BY <2>1, <2>2, <2>3 DEF Dispatch
<1>7. ASSUME NEW t \in Threads, SessionStep(t), ~MoreFrames(t)
      PROVE  Dispatch'
  <2>1. /\ taken
        /\ UNCHANGED <<verdict, collector, taken>>
        /\ \A s \in Threads : pc'[s] \in {pc[s], "idle"}
        /\ reading' \in {reading, "more"}
        /\ session # "none"
    BY <1>7, <1>a, <1>b DEF SessionStep, Establish, Keep, Accept, SendFrame, ReadFrames,
       Retain, ThreadWrite, AsyncRead, Throw, vars, readVars, collectorVars, groupVars
  <2>2. session' \notin {"none", "handshake"}
    BY <1>7 DEF SessionStep, Establish, Keep, Accept, SendFrame, ReadFrames, sessionVars
  <2> QED  BY <2>1, <2>2, <1>b, DispatchKept
<1>8. CASE AppStep
  <2>1. /\ UNCHANGED <<verdict, pc, reading, reply, collector, session, taken>>
        /\ holders # {}
    BY <1>8 DEF AppStep, AppSendFrame, Drop, AppWrite, Release, readVars, collectorVars,
       sessionVars, groupVars
  <2> QED  BY <2>1, <1>b, DispatchKept
<1> QED  BY <1>1, <1>2, <1>3, <1>4, <1>5, <1>6, <1>7, <1>8 DEF GroupNext, GroupStep

-------------------------------------------------------------------------------
(* A connection that is to be read on is read on.                          *)

LEMMA ErrorStays ==
  ASSUME [Next]_vars, last_error' = "none"
  PROVE  last_error = "none"
BY StepIsQueueStep DEF QueueStep, Transmit, HandleWriteOk, HandleWriteError

LEMMA DeafInit == GroupInit => NeverDeaf
BY DEF GroupInit, CollectorInit, SessionInit, NeverDeaf, CollectorThrough, SessionThrough

\* Steps that neither move the handlers nor take their thread from them.
LEMMA DeafKept ==
  ASSUME NeverDeaf, last_error = "none",
         UNCHANGED <<collector, session, reading, pc>>
  PROVE  NeverDeaf'
BY DEF NeverDeaf, CollectorThrough, SessionThrough, UserCode

LEMMA DeafStep ==
  TypeOK /\ ReplyTypeOK /\ Dispatch /\ NeverDeaf /\ [GroupNext]_handlerVars => NeverDeaf'
<1> SUFFICES ASSUME TypeOK, ReplyTypeOK, Dispatch, NeverDeaf, [GroupNext]_handlerVars,
                    last_error' = "none"
             PROVE  NeverDeaf'
  BY DEF NeverDeaf
<1>a. last_error = "none" /\ ~WriteThrows
  BY GroupStepIsConnectionStep, ErrorStays DEF WriteThrows
<1>b. /\ collector # "none" => session = "none"
      /\ ~taken => collector = "none" /\ session = "none"
  BY DEF Dispatch
<1>c. pc \in [Threads -> {"idle", "handler", "reject", "callback"}]
  BY DEF TypeOK
<1> USE DEF CollectorThrough, SessionThrough, UserCode
<1>d. ASSUME collector' = "none", session' = "none"
      PROVE  NeverDeaf'
  BY <1>d DEF NeverDeaf
<1>1. CASE UNCHANGED handlerVars
  BY <1>1, <1>a, DeafKept DEF handlerVars, vars, readVars, handlingVars, collectorVars,
     sessionVars
<1>2. CASE ConnectionStep
  <2>1. UNCHANGED <<collector, session>>
    BY <1>2 DEF ConnectionStep, handlingVars, collectorVars, sessionVars
  <2>2. ASSUME NEW t \in Threads, HandleWriteOk(t) \/ HandleWriteError(t)
        PROVE  NeverDeaf'
    BY <2>1, <2>2, <1>a, DeafKept DEF HandleWriteOk, HandleWriteError, readVars
  <2>3. ASSUME NEW w \in writes, Transmit(w)
        PROVE  NeverDeaf'
    BY <2>1, <2>3, <1>a, DeafKept DEF Transmit, readVars
  <2>4. CASE ReadError
    BY <2>4 DEF ReadError
  <2>5. ASSUME NEW t \in Threads,
               RejectWrite(t) \/ \E v \in {"complete", "invalid", "incomplete"} : HandleRead(t, v)
        PROVE  NeverDeaf'
    <3>1. ~taken
      BY <2>5 DEF Dispatch, HandleRead, RejectWrite
    <3> QED  BY <2>1, <3>1, <1>b, <1>d
  <2> QED  BY <1>2, <2>2, <2>3, <2>4, <2>5 DEF ConnectionStep
<1>3. ASSUME NEW t \in Threads, Pass(t)
      PROVE  NeverDeaf'
  BY <1>3, <1>a, DeafKept DEF Pass, vars, readVars, collectorVars, sessionVars
<1>4. ASSUME NEW t \in Threads, Take(t) \/ TakeDefault(t)
      PROVE  NeverDeaf'
  <2>1. /\ UserCode(t)'
        /\ collector' \in {"none", "read"}
        /\ session' \in {"none", "handshake"}
    BY <1>4, <1>b DEF Take, TakeDefault, Asking, StartCollector, Upgrade, vars, readVars,
       collectorVars, sessionVars
  <2> QED  BY <2>1 DEF NeverDeaf
<1>5. ASSUME NEW t \in Threads, HandlerReturn(t)
      PROVE  NeverDeaf'
  BY <1>5, <1>a DEF NeverDeaf, HandlerReturn, Return, readVars, handlingVars, collectorVars,
     sessionVars
<1>6. ASSUME NEW t \in Threads, ReplyStep(t)
      PROVE  NeverDeaf'
  BY <1>6, <1>a, DeafKept DEF ReplyStep, SendBlock, ThreadWrite, readVars, collectorVars,
     sessionVars
<1>7. ASSUME NEW t \in Threads, CollectorStep(t) \/ MoreBody(t)
      PROVE  NeverDeaf'
  <2>1. session' = "none"
    BY <1>7, <1>b DEF CollectorStep, CollectChunk, AskForMore, MoreBody, MoreOfBody, sessionVars
  <2>2. \/ UserCode(t)' /\ collector' \in {"read", "more", "over"}
        \/ collector' = "waiting" /\ reading' = "more"
    BY <1>7, <1>a, <1>c DEF CollectorStep, CollectChunk, RejectBody, KeepChunk, AskForMore,
       AsyncRead, MoreBody, MoreOfBody, HandleReadMore, vars
  <2> QED  BY <2>1, <2>2 DEF NeverDeaf
<1>8. ASSUME NEW t \in Threads, SessionStep(t)
      PROVE  NeverDeaf'
  <2>1. collector' = "none"
    BY <1>8, <1>b DEF SessionStep, Establish, Keep, Accept, SendFrame, ReadFrames,
       MoreFrames, collectorVars
  <2>2. \/ UserCode(t)' /\ session' \in {"accept", "frames"}
        \/ session' = "waiting" /\ reading' = "more"
    BY <1>8, <1>a, <1>c DEF SessionStep, Establish, Keep, Accept, SendFrame, ReadFrames,
       MoreFrames, Retain, ThreadWrite, AsyncRead, HandleReadMore, vars, sessionVars
  <2> QED  BY <2>1, <2>2 DEF NeverDeaf
<1>9. CASE AppStep
  BY <1>9, <1>a, DeafKept DEF AppStep, AppSendFrame, Drop, AppWrite, Release, readVars,
     collectorVars, sessionVars
<1> QED  BY <1>1, <1>2, <1>3, <1>4, <1>5, <1>6, <1>7, <1>8, <1>9 DEF GroupNext, GroupStep

-------------------------------------------------------------------------------
(* The body.                                                               *)

LEMMA CollectedInit == GroupInit => Collected
BY DEF GroupInit, CollectorInit, Collected

\* A chunk behind what there is makes what there is, and the chunk.
LEMMA ChunkBehind ==
  ASSUME NEW n \in Nat, NEW k \in Nat
  PROVE  /\ Len([i \in 1 .. k |-> n + i]) = k
         /\ [i \in 1 .. n |-> i] \o [i \in 1 .. k |-> n + i] = [i \in 1 .. n + k |-> i]
<1> DEFINE s == [i \in 1 .. n |-> i]
           t == [i \in 1 .. k |-> n + i]
           u == [i \in 1 .. n + k |-> i]
<1>1. s \in Seq(Nat) /\ Len(s) = n /\ \A i \in 1 .. n : s[i] = i
  OBVIOUS
<1>2. t \in Seq(Nat) /\ Len(t) = k /\ \A i \in 1 .. k : t[i] = n + i
  OBVIOUS
<1>3. u \in Seq(Nat) /\ Len(u) = n + k /\ \A i \in 1 .. n + k : u[i] = i
  OBVIOUS
<1> HIDE DEF s, t, u
<1>4. /\ s \o t \in Seq(Nat)
      /\ Len(s \o t) = n + k
      /\ \A i \in 1 .. n + k : (s \o t)[i] = IF i <= n THEN s[i] ELSE t[i - n]
  BY <1>1, <1>2, ConcatProperties
<1>5. ASSUME NEW i \in 1 .. n + k
      PROVE  (s \o t)[i] = i
  <2>1. CASE i <= n
    BY <1>1, <1>4, <2>1
  <2>2. CASE i > n
    <3>1. i - n \in 1 .. k
      BY <2>2
    <3> QED  BY <1>2, <1>4, <2>2, <3>1
  <2>3. i <= n \/ i > n
    OBVIOUS
  <2> QED  BY <2>1, <2>2, <2>3
<1>6. s \o t = u
  BY <1>3, <1>4, <1>5, SeqEqual
<1> QED  BY <1>2, <1>6 DEF s, t, u

LEMMA FirstBytes ==
  ASSUME NEW n \in Nat, NEW m \in 0 .. n
  PROVE  SubSeq([i \in 1 .. n |-> i], 1, m) = [i \in 1 .. m |-> i]
<1> DEFINE s == [i \in 1 .. n |-> i]
           u == [i \in 1 .. m |-> i]
<1>1. s \in Seq(Nat) /\ Len(s) = n /\ \A i \in 1 .. n : s[i] = i
  OBVIOUS
<1>2. u \in Seq(Nat) /\ Len(u) = m /\ \A i \in 1 .. m : u[i] = i
  OBVIOUS
<1> HIDE DEF s, u
<1>3. /\ SubSeq(s, 1, m) \in Seq(Nat)
      /\ Len(SubSeq(s, 1, m)) = m
      /\ \A i \in 1 .. m : SubSeq(s, 1, m)[i] = s[i]
  BY <1>1, SubSeqProperties
<1>4. SubSeq(s, 1, m) = u
  BY <1>1, <1>2, <1>3, SeqEqual
<1> QED  BY <1>4 DEF s, u

LEMMA CollectedStep ==
  CollectorTypeOK /\ Collected /\ [GroupNext]_handlerVars => (CollectorTypeOK /\ Collected)'
<1> SUFFICES ASSUME CollectorTypeOK, Collected, [GroupNext]_handlerVars
             PROVE  (CollectorTypeOK /\ Collected)'
  OBVIOUS
<1> USE LengthsAssumption
<1>1. CASE UNCHANGED collectorVars
  BY <1>1 DEF collectorVars, CollectorTypeOK, Collected
<1>2. CASE StartCollector
  <2>1. length_' \in Int
    BY <1>2 DEF StartCollector
  <2>2. /\ collector = "none" /\ collector' = "read"
        /\ UNCHANGED <<received_length_, body_stream_, arrived, bodies>>
    BY <1>2 DEF StartCollector
  <2>3. <<>> = [i \in 1 .. 0 |-> i]
    OBVIOUS
  <2> QED  BY <2>1, <2>2, <2>3 DEF CollectorTypeOK, Collected
<1>3. ASSUME NEW t \in Threads, AskForMore(t) \/ MoreOfBody(t)
      PROVE  (CollectorTypeOK /\ Collected)'
  <2>1. /\ collector \in {"more", "waiting"} /\ collector' \in {"read", "waiting", "over"}
        /\ UNCHANGED <<length_, received_length_, body_stream_, arrived, bodies>>
    BY <1>3 DEF AskForMore, MoreOfBody
  <2> QED  BY <2>1 DEF CollectorTypeOK, Collected
<1>4. ASSUME NEW t \in Threads, CollectChunk(t)
      PROVE  (CollectorTypeOK /\ Collected)'
  <2>1. PICK k \in Nat : /\ arrived' = arrived + k /\ arrived' \in 0 .. MaxBytes
                         /\ RejectBody \/ KeepChunk([i \in 1 .. k |-> arrived + i])
    <3> DEFINE least == IF pc[t] = "callback" THEN 1 ELSE 0
    <3>1. PICK k \in least .. MaxBytes - arrived :
            /\ arrived' = arrived + k
            /\ RejectBody \/ KeepChunk([i \in 1 .. k |-> arrived + i])
      BY <1>4 DEF CollectChunk
    <3>2. least \in Nat
      OBVIOUS
    <3> HIDE DEF least
    <3>3. k \in Nat /\ arrived + k \in 0 .. MaxBytes
      BY <3>2 DEF CollectorTypeOK
    <3> QED  BY <3>1, <3>3
  <2>2. collector = "read" /\ bodies = <<>>
    BY <1>4 DEF CollectChunk, Collected
  <2>3. CASE RejectBody
    BY <2>1, <2>2, <2>3 DEF RejectBody, CollectorTypeOK, Collected
  <2>4. CASE KeepChunk([i \in 1 .. k |-> arrived + i])
    <3>1. /\ length_ >= 0 /\ length_ \in Nat /\ length_' = length_
          /\ arrived \in Nat /\ arrived' = arrived + k
      BY <2>1, <2>4 DEF KeepChunk, CollectorTypeOK
    <3>2. /\ received_length_' = arrived'
          /\ body_stream_' = [i \in 1 .. arrived' |-> i]
      BY <2>4, <3>1, ChunkBehind DEF KeepChunk, Collected
    <3>3. received_length_' \in Nat /\ body_stream_' \in Seq(Nat)
      BY <3>1, <3>2
    <3>4. CASE Enough(received_length_') /\ bodies' = Append(bodies, BodyOf(body_stream_'))
               /\ collector' = "over"
      <4>1. SubSeq([i \in 1 .. arrived' |-> i], 1, length_) = [i \in 1 .. length_ |-> i]
        BY <3>1, <3>2, <3>4, FirstBytes DEF Enough
      <4>2. bodies' = <<[i \in 1 .. length_ |-> i]>>
        BY <2>2, <3>2, <3>4, <4>1 DEF BodyOf
      <4>3. [i \in 1 .. length_ |-> i] \in Seq(Nat)
        BY <3>1
      <4>4. bodies' \in Seq(Seq(Nat))
        BY <4>2, <4>3
      <4> QED  BY <2>1, <3>1, <3>2, <3>3, <3>4, <4>2, <4>4 DEF CollectorTypeOK, Collected
    <3>5. CASE collector' = "more" /\ bodies' = bodies
      BY <2>1, <2>2, <3>1, <3>2, <3>3, <3>5 DEF CollectorTypeOK, Collected
    <3> QED  BY <2>4, <3>4, <3>5 DEF KeepChunk
  <2> QED  BY <2>1, <2>3, <2>4
<1>5. GroupNext => \/ UNCHANGED collectorVars
                   \/ StartCollector
                   \/ \E t \in Threads : AskForMore(t) \/ MoreOfBody(t) \/ CollectChunk(t)
  BY DEF GroupNext, ConnectionStep, handlingVars, GroupStep, Pass, Take, TakeDefault,
     HandlerReturn, ReplyStep, CollectorStep, MoreBody, SessionStep, AppStep
<1> QED  BY <1>1, <1>2, <1>3, <1>4, <1>5 DEF handlerVars, handlingVars

-------------------------------------------------------------------------------
(* What was written.                                                       *)

ReplyKinds == {"status", "headers", "content"}

LEMMA ReplySeq ==
  /\ BuiltReply \in Seq(ReplyKinds) /\ Len(BuiltReply) = 2
  /\ FullReply \in Seq(ReplyKinds) /\ Len(FullReply) = 3
  /\ BuiltReply[1] = "status" /\ BuiltReply[2] = "headers"
  /\ FullReply[1] = "status" /\ FullReply[2] = "headers" /\ FullReply[3] = "content"
  /\ ReplyTypeOK => reply \in Seq(ReplyKinds)
<1>1. BuiltReply \in Seq(ReplyKinds)
  BY DEF BuiltReply, ReplyKinds
<1>2. FullReply \in Seq(ReplyKinds)
  BY ReplyIs DEF ReplyKinds
<1>3. <<>> \in Seq(ReplyKinds)
  BY EmptySeq
<1>4. <<"content">> \in Seq(ReplyKinds)
  BY DEF ReplyKinds
<1>5. <<"headers">> \in Seq(ReplyKinds)
  BY DEF ReplyKinds
<1>6. <<"headers", "content">> \in Seq(ReplyKinds)
  BY DEF ReplyKinds
<1>7. ReplyTypeOK => reply \in Seq(ReplyKinds)
  BY <1>1, <1>2, <1>3, <1>4, <1>5, <1>6, Zenon DEF ReplyTypeOK
<1>8. Len(BuiltReply) = 2 /\ BuiltReply[1] = "status" /\ BuiltReply[2] = "headers"
  BY DEF BuiltReply
<1>9. /\ Len(FullReply) = 3
      /\ FullReply[1] = "status" /\ FullReply[2] = "headers" /\ FullReply[3] = "content"
  BY ReplyIs
<1> QED  BY <1>1, <1>2, <1>7, <1>8, <1>9

LEMMA PartStart ==
  ASSUME NEW whole \in Seq(ReplyKinds), NEW rest, rest = <<>> \/ rest = whole
  PROVE  Part(<<>>, rest, whole)
<1>1. Len(whole) \in Nat /\ Len(<<>>) = 0
  BY LenProperties
<1>2. \A i \in 1 .. Len(whole) : 0 + i = i
  OBVIOUS
<1>3. CASE rest = <<>>
  BY <1>1, <1>3 DEF Part
<1>4. CASE rest = whole
  BY <1>1, <1>2, <1>4 DEF Part
<1> QED  BY <1>3, <1>4

LEMMA PartNext ==
  ASSUME NEW S, NEW c \in Seq(S), NEW d, NEW r \in Seq(ReplyKinds), r # <<>>,
         NEW whole \in Seq(ReplyKinds), Part(c, r, whole),
         Len(d) = Len(c) + 1, \A i \in 1 .. Len(c) : d[i] = c[i],
         d[Len(c) + 1].kind = Head(r),
         NEW q, q \in {<<>>, Tail(r)}
  PROVE  Part(d, q, whole) /\ Len(d) + Len(Tail(r)) = Len(whole)
<1>1. /\ Len(c) \in Nat /\ Len(whole) \in Nat /\ Len(r) \in Nat /\ Len(r) > 0
      /\ Len(Tail(r)) = Len(r) - 1
      /\ Head(r) = r[1]
      /\ \A i \in 1 .. Len(Tail(r)) : Tail(r)[i] = r[i + 1]
  BY LenProperties, HeadTailProperties, EmptySeq
<1>2. /\ Len(c) + Len(r) = Len(whole)
      /\ \A i \in 1 .. Len(r) : r[i] = whole[Len(c) + i]
      /\ \A i \in 1 .. Len(c) : c[i].kind = whole[i]
  BY DEF Part
<1>3. Len(d) <= Len(whole) /\ Len(d) + Len(Tail(r)) = Len(whole)
  BY <1>1, <1>2
<1>4. \A i \in 1 .. Len(d) : d[i].kind = whole[i]
  <2>1. d[Len(c) + 1].kind = whole[Len(c) + 1]
    BY <1>1, <1>2
  <2>2. \A i \in 1 .. Len(d) : i \in 1 .. Len(c) \/ i = Len(c) + 1
    BY <1>1
  <2> QED  BY <1>2, <2>1, <2>2
<1>5. ASSUME NEW i \in 1 .. Len(Tail(r))
      PROVE  Tail(r)[i] = whole[Len(d) + i]
  <2>1. i + 1 \in 1 .. Len(r) /\ Len(c) + (i + 1) = Len(d) + i
    BY <1>1
  <2> QED  BY <1>1, <1>2, <2>1
<1> QED  BY <1>3, <1>4, <1>5 DEF Part

LEMMA FrameNext ==
  ASSUME NEW S, NEW c \in Seq(S), NEW d, FramesBehindReply(c),
         Len(d) = Len(c) + 1, \A i \in 1 .. Len(c) : d[i] = c[i],
         d[Len(c) + 1].kind = "frame"
  PROVE  FramesBehindReply(d)
<1>1. Len(c) \in Nat /\ Len(c) >= 2
  BY LenProperties DEF FramesBehindReply
<1>2. \A i \in 1 .. Len(d) : i \in 1 .. Len(c) \/ (i = Len(c) + 1 /\ ~(i <= 2))
  BY <1>1
<1>3. ASSUME NEW i \in 1 .. Len(d)
      PROVE  d[i].kind = IF i <= 2 THEN BuiltReply[i] ELSE "frame"
  <2>1. CASE i \in 1 .. Len(c)
    BY <2>1 DEF FramesBehindReply
  <2>2. CASE i = Len(c) + 1 /\ ~(i <= 2)
    BY <2>2
  <2> QED  BY <1>2, <2>1, <2>2
<1> QED  BY <1>1, <1>3 DEF FramesBehindReply

LEMMA WrittenInit == GroupInit => Written
<1>1. Part(<<>>, <<>>, FullReply)
  BY PartStart, ReplySeq
<1> QED  BY <1>1 DEF GroupInit, Init, CollectorInit, SessionInit, Written

\* Steps that write nothing, and move the handlers nowhere that matters.
LEMMA WrittenKept ==
  ASSUME Written, UNCHANGED <<verdict, taken, calls, reply, session, length_, bodies>>,
         \/ UNCHANGED collector
         \/ /\ collector \in {"more", "waiting"}
            /\ collector' \in {"read", "waiting", "over"}
            /\ session = "none",
         \A t \in Threads : UserCode(t)' => UserCode(t) \/ session # "handshake"
  PROVE  Written'
<1> DEFINE idle == calls = <<>> /\ reply = <<>>
<1> SUFFICES ASSUME verdict # "incomplete"
             PROVE  Written'
  BY DEF Written
<1>1. /\ ~taken' => calls' = <<>>
      /\ session' = "none" => Part(calls', reply', FullReply)
      /\ session' \notin {"none", "handshake"} => reply' = <<>> /\ FramesBehindReply(calls')
  BY DEF Written
<1>2. /\ collector' \in {"read", "more", "waiting"} => idle
      /\ (collector' = "over" /\ length_' >= 0 /\ bodies' = <<>>) => idle
  BY DEF Written
<1>3. session' = "handshake" =>
        /\ Part(calls', reply', BuiltReply)
        /\ (reply' = <<>> /\ \E t \in Threads : UserCode(t)') => Len(calls') = 2
  BY DEF Written
<1> QED  BY <1>1, <1>2, <1>3 DEF Written

LEMMA WrittenStep ==
  TypeOK /\ ReplyTypeOK /\ Dispatch /\ CollectorTypeOK /\ Collected /\ Written
    /\ [GroupNext]_handlerVars => Written'
<1> SUFFICES ASSUME TypeOK, ReplyTypeOK, Dispatch, CollectorTypeOK, Collected,
                    Written, [GroupNext]_handlerVars
             PROVE  Written'
  OBVIOUS
<1>a. /\ ~taken => collector = "none" /\ session = "none" /\ reply = <<>> /\ holders = {}
      /\ collector # "none" => session = "none"
      /\ holders # {} => session \notin {"none", "handshake"}
      /\ \A t \in Threads : UserCode(t) => verdict # "incomplete"
      /\ \A s, t \in Threads : pc[s] # "idle" /\ pc[t] # "idle" => s = t
  BY DEF Dispatch
<1>b. pc \in [Threads -> {"idle", "handler", "reject", "callback"}] /\ calls \in Seq(Block)
  BY DEF TypeOK
<1>1. CASE UNCHANGED handlerVars
  BY <1>1, WrittenKept DEF handlerVars, vars, queueVars, readVars, handlingVars, collectorVars,
     sessionVars, groupVars, UserCode
<1>2. CASE ConnectionStep
  <2>1. UNCHANGED <<reply, collector, session, taken, length_, bodies>>
    BY <1>2 DEF ConnectionStep, handlingVars, collectorVars, sessionVars, groupVars
  <2>2. ASSUME NEW t \in Threads, HandleWriteOk(t) \/ HandleWriteError(t)
        PROVE  Written'
    BY <2>1, <2>2, WrittenKept DEF HandleWriteOk, HandleWriteError, readVars, UserCode
  <2>3. CASE ReadError \/ \E w \in writes : Transmit(w)
    BY <2>1, <2>3, WrittenKept DEF ReadError, Transmit, queueVars, readVars, UserCode
  <2>4. ASSUME NEW t \in Threads, NEW v \in {"complete", "invalid", "incomplete"},
               HandleRead(t, v)
        PROVE  Written'
    <3>1. verdict = "unread" /\ ~taken /\ calls' = calls
      BY <2>4 DEF HandleRead, Dispatch, queueVars
    <3>2. calls = <<>> /\ Part(calls, reply, FullReply)
      BY <3>1, <1>a DEF Written
    <3> QED  BY <2>1, <3>1, <3>2, <1>a DEF Written
  <2>5. ASSUME NEW t \in Threads, RejectWrite(t)
        PROVE  Written'
    <3>1. verdict' = "incomplete"
      BY <2>5 DEF RejectWrite, Dispatch, readVars
    <3> QED  BY <3>1 DEF Written
  <2> QED  BY <1>2, <2>2, <2>3, <2>4, <2>5 DEF ConnectionStep
<1>3. ASSUME NEW t \in Threads, Pass(t) \/ HandlerReturn(t)
      PROVE  Written'
  <2>1. /\ UNCHANGED <<verdict, taken, calls, reply, session, length_, bodies, collector>>
        /\ \A s \in Threads : pc'[s] \in {pc[s], "idle"}
    BY <1>3, <1>b DEF Pass, HandlerReturn, Return, vars, queueVars, readVars, handlingVars,
       collectorVars, sessionVars, groupVars
  <2> QED  BY <2>1, WrittenKept DEF UserCode
<1>4. ASSUME NEW t \in Threads, Take(t) \/ TakeDefault(t)
      PROVE  Written'
  <2>1. UserCode(t) /\ ~taken /\ taken' /\ calls' = calls /\ verdict' = verdict
    BY <1>4 DEF Take, TakeDefault, Asking, UserCode, vars, queueVars, readVars
  <2>2. calls' = <<>>
    BY <2>1, <1>a DEF Written
  <2>3. \/ reply' = FullReply /\ session' = "none" /\ collector' = "none"
        \/ reply' = BuiltReply /\ session' = "handshake" /\ collector' = "none"
        \/ reply' = <<>> /\ session' = "none" /\ collector' = "read"
    BY <1>4, <2>1, <1>a DEF Take, TakeDefault, StartCollector, Upgrade, collectorVars, sessionVars
  <2>4. /\ Part(<<>>, FullReply, FullReply) /\ Part(<<>>, <<>>, FullReply)
        /\ Part(<<>>, BuiltReply, BuiltReply) /\ BuiltReply # <<>>
    BY PartStart, ReplySeq
  <2> QED  BY <2>1, <2>2, <2>3, <2>4 DEF Written
<1>5. ASSUME NEW t \in Threads, ReplyStep(t)
      PROVE  Written'
  <2>1. /\ reply # <<>> /\ taken /\ UserCode(t)
        /\ DoWrite(Head(reply)) /\ Head(reply) \in Kinds
        /\ reply' = IF WriteThrows THEN <<>> ELSE Tail(reply)
        /\ UNCHANGED <<verdict, taken, session, collector, length_, bodies>>
    BY <1>5, <1>a, NextOfReply DEF ReplyStep, SendBlock, ThreadWrite, collectorVars, sessionVars,
       groupVars, readVars
  <2>2. /\ verdict # "incomplete"
        /\ collector \notin {"read", "more", "waiting"}
        /\ ~(collector = "over" /\ length_ >= 0 /\ bodies = <<>>)
        /\ session \in {"none", "handshake"}
    BY <2>1, <1>a DEF Written
  <2>3. /\ Len(calls') = Len(calls) + 1
        /\ \A i \in 1 .. Len(calls) : calls'[i] = calls[i]
        /\ calls'[Len(calls) + 1].kind = Head(reply)
    BY <2>1, WriteAppends
  <2>4. reply' \in {<<>>, Tail(reply)} /\ reply \in Seq(ReplyKinds) /\ reply # <<>>
    BY <2>1, ReplySeq
  <2>5. ASSUME NEW whole \in {BuiltReply, FullReply}, Part(calls, reply, whole)
        PROVE  Part(calls', reply', whole) /\ Len(calls') + Len(Tail(reply)) = Len(whole)
    <3>1. whole \in Seq(ReplyKinds)
      BY ReplySeq
    <3>2. calls \in Seq(Block)
      BY <1>b
    <3> QED  BY <2>3, <2>4, <2>5, <3>1, <3>2, PartNext, Zenon
  <2>6. CASE session = "none"
    BY <2>1, <2>2, <2>5, <2>6 DEF Written
  <2>7. CASE session = "handshake"
    <3>1. Part(calls', reply', BuiltReply) /\ Len(calls') + Len(Tail(reply)) = 2
      BY <2>2, <2>5, <2>7, ReplySeq DEF Written
    <3>2. (reply' = <<>> /\ ~WriteThrows) => Len(calls') = 2
      <4>1. Len(calls') \in Nat /\ Len(<<>>) = 0
        BY <2>3, <1>b, LenProperties
      <4>2. (reply' = <<>> /\ ~WriteThrows) => Tail(reply) = <<>>
        BY <2>1
      <4>3. Len(calls') + 0 = Len(calls')
        BY <4>1
      <4> QED  BY <3>1, <4>1, <4>2, <4>3
    <3>3. WriteThrows => \A s \in Threads : ~UserCode(s)'
      <4>1. pc[t] # "idle"
        BY <2>1 DEF UserCode
      <4>2. WriteThrows => pc' = [pc EXCEPT ![t] = "idle"]
        BY <1>5 DEF ReplyStep, SendBlock, ThreadWrite, Throw
      <4> QED  BY <4>1, <4>2, <1>a, <1>b DEF UserCode
    <3> QED  BY <2>1, <2>2, <2>7, <3>1, <3>2, <3>3 DEF Written
  <2> QED  BY <2>2, <2>6, <2>7
<1>6. ASSUME NEW t \in Threads, CollectorStep(t), CollectChunk(t)
      PROVE  Written'
  <2>1. /\ UserCode(t) /\ taken /\ session = "none" /\ collector = "read"
        /\ UNCHANGED <<verdict, taken, calls, session, length_>>
        /\ \/ length_ < 0 /\ collector' = "over" /\ reply' = FullReply
           \/ /\ collector' = "over" /\ reply' \in {<<>>, FullReply}
              /\ \E e : bodies' = Append(bodies, e)
           \/ collector' = "more" /\ reply' = reply
    BY <1>6, <1>a DEF CollectorStep, CollectChunk, RejectBody, KeepChunk, vars, queueVars, readVars,
       sessionVars, groupVars
  <2>2. calls = <<>> /\ reply = <<>> /\ bodies = <<>>
    BY <2>1, <1>a DEF Written, Collected
  <2>3. Part(<<>>, FullReply, FullReply) /\ Part(<<>>, <<>>, FullReply)
    BY PartStart, ReplySeq
  <2>4. \A e : Append(<<>>, e) # <<>>
    OBVIOUS
  <2>5. session' = "none" /\ session' # "handshake" /\ taken' /\ calls' = <<>>
    BY <2>1, <2>2
  <2>6. CASE length_' < 0 /\ collector' = "over" /\ reply' = FullReply
    <3>1. ~(length_' >= 0)
      BY <2>1, <2>6 DEF CollectorTypeOK
    <3> QED  BY <2>3, <2>5, <2>6, <3>1 DEF Written
  <2>7. CASE collector' = "over" /\ bodies' # <<>> /\ reply' \in {<<>>, FullReply}
    BY <2>3, <2>5, <2>7 DEF Written
  <2>8. CASE collector' = "more" /\ reply' = <<>>
    BY <2>3, <2>5, <2>8 DEF Written
  <2> QED  BY <2>1, <2>2, <2>4, <2>6, <2>7, <2>8
<1>7. ASSUME NEW t \in Threads, (CollectorStep(t) /\ AskForMore(t)) \/ MoreBody(t)
      PROVE  Written'
  <2>1. /\ UNCHANGED <<verdict, taken, calls, reply, session, length_, bodies>>
        /\ collector \in {"more", "waiting"}
        /\ collector' \in {"read", "waiting", "over"}
    BY <1>7 DEF CollectorStep, AskForMore, AsyncRead, MoreBody, MoreOfBody, HandleReadMore,
       queueVars, readVars, sessionVars, groupVars
  <2> QED  BY <2>1, <1>a, WrittenKept
<1>8. ASSUME NEW t \in Threads, SessionStep(t)
      PROVE  Written'
  <2>1. /\ taken' = taken /\ verdict' = verdict /\ UNCHANGED <<collector, reply>>
        /\ session # "none" /\ session' \notin {"none", "handshake"}
        /\ collector = "none" /\ taken
    BY <1>8, <1>a DEF SessionStep, Establish, Keep, Accept, SendFrame, ReadFrames, MoreFrames,
       Retain, ThreadWrite, AsyncRead, HandleReadMore, vars, readVars, collectorVars, groupVars,
       sessionVars
  <2>2. SUFFICES ASSUME verdict # "incomplete"
                 PROVE  reply = <<>> /\ FramesBehindReply(calls')
    BY <2>1 DEF Written
  <2>3. CASE Establish(t)
    <3>1. reply = <<>> /\ UserCode(t) /\ session = "handshake" /\ calls' = calls
      BY <2>3 DEF Establish, UserCode, vars, queueVars
    <3>2. Len(calls) = 2 /\ Part(calls, reply, BuiltReply)
      BY <2>2, <3>1 DEF Written
    <3> QED  BY <3>1, <3>2 DEF Part, FramesBehindReply
  <2>4. CASE \/ Accept(t) \/ ReadFrames(t) \/ MoreFrames(t)
             \/ \E w \in Writers : Keep(t, w)
    <3>1. calls' = calls /\ session \notin {"none", "handshake"}
      BY <2>4 DEF Accept, ReadFrames, MoreFrames, Keep, Retain, AsyncRead, HandleReadMore, vars,
         queueVars
    <3> QED  BY <2>2, <3>1 DEF Written
  <2>5. CASE SendFrame(t)
    <3>1. DoWrite("frame") /\ session \notin {"none", "handshake"}
      BY <2>5 DEF SendFrame, ThreadWrite
    <3>2. reply = <<>> /\ FramesBehindReply(calls)
      BY <2>2, <3>1 DEF Written
    <3> QED  BY <3>1, <3>2, <1>b, WriteAppends, FrameNext, WebsocketAssumption
  <2> QED  BY <1>8, <2>3, <2>4, <2>5 DEF SessionStep
<1>9. CASE AppStep
  <2>1. PICK w \in Writers : AppSendFrame(w) \/ Drop(w)
    BY <1>9 DEF AppStep
  <2>2. /\ holders # {} /\ UNCHANGED <<verdict, taken, pc, reply, session, collector, length_, bodies>>
    BY <1>9, <2>1 DEF AppStep, AppSendFrame, Drop, AppWrite, Release, readVars, collectorVars,
       sessionVars, groupVars
  <2>3. CASE Drop(w)
    BY <2>2, <2>3, WrittenKept DEF Drop, Release, queueVars, UserCode
  <2>4. CASE AppSendFrame(w)
    <3>1. DoWrite("frame") /\ session \notin {"none", "handshake"} /\ collector = "none" /\ taken
      BY <2>2, <2>4, <1>a DEF AppSendFrame, AppWrite
    <3>2. verdict # "incomplete" => reply = <<>> /\ FramesBehindReply(calls)
      BY <3>1 DEF Written
    <3>3. verdict # "incomplete" => FramesBehindReply(calls')
      BY <3>1, <3>2, <1>b, WriteAppends, FrameNext, WebsocketAssumption
    <3> QED  BY <2>2, <3>1, <3>2, <3>3 DEF Written
  <2> QED  BY <2>1, <2>3, <2>4
<1> QED  BY <1>1, <1>2, <1>3, <1>4, <1>5, <1>6, <1>7, <1>8, <1>9
         DEF GroupNext, GroupStep, CollectorStep

-------------------------------------------------------------------------------

LEMMA GroupTypeInit == GroupInit => GroupTypeOK
<1>1. 1 \in 1 .. Len(Handlers) + 1
  BY GroupAssumption, LenProperties
<1>2. CollectorInit => CollectorTypeOK
  BY LengthsAssumption DEF CollectorInit, CollectorTypeOK
<1> QED  BY <1>1, <1>2 DEF GroupInit, SessionInit, SessionTypeOK, GroupTypeOK

LEMMA GroupTypeStep ==
  GroupTypeOK /\ Collected /\ [GroupNext]_handlerVars => GroupTypeOK'
<1> SUFFICES ASSUME GroupTypeOK, Collected, [GroupNext]_handlerVars
             PROVE  GroupTypeOK'
  OBVIOUS
<1>1. ReplyTypeOK' /\ CollectorTypeOK'
  BY ReplyTypeStep, CollectedStep DEF GroupTypeOK, ReplyTypeOK
<1>2. trying' \in {trying, trying + 1} /\ (trying' # trying => trying <= Len(Handlers))
  BY DEF GroupNext, ConnectionStep, GroupStep, Pass, Take, TakeDefault, HandlerReturn, ReplyStep,
     CollectorStep, MoreBody, SessionStep, AppStep, handlerVars, handlingVars, groupVars
<1>3. trying' \in 1 .. Len(Handlers) + 1
  BY <1>2, GroupAssumption, LenProperties DEF GroupTypeOK
<1>4. taken' \in {taken, TRUE}
  BY DEF GroupNext, ConnectionStep, GroupStep, Pass, Take, TakeDefault, HandlerReturn, ReplyStep,
     CollectorStep, MoreBody, SessionStep, AppStep, handlerVars, handlingVars, groupVars
<1>5. taken' \in BOOLEAN
  BY <1>4, Zenon DEF GroupTypeOK
<1>6. session' \in {session, "handshake", "accept", "frames", "waiting", "over"}
  BY DEF GroupNext, ConnectionStep, GroupStep, Pass, Take, TakeDefault, HandlerReturn, Upgrade,
     ReplyStep, SendBlock, CollectorStep, MoreBody, SessionStep, Establish, Keep, Accept, SendFrame,
     ReadFrames, MoreFrames, AppStep, AppSendFrame, Drop, handlerVars, handlingVars, sessionVars
<1>7. misused' \in {misused, ~Alive}
  BY DEF GroupNext, ConnectionStep, GroupStep, Pass, Take, TakeDefault, HandlerReturn, Upgrade,
     ReplyStep, SendBlock, CollectorStep, MoreBody, SessionStep, Establish, Keep, Accept, SendFrame,
     ReadFrames, MoreFrames, AppStep, AppSendFrame, Drop, handlerVars, handlingVars, sessionVars
<1>8. SessionTypeOK'
  <2>1. misused' \in BOOLEAN
    BY <1>7, Zenon DEF GroupTypeOK, SessionTypeOK, Alive
  <2> QED  BY <1>6, <2>1 DEF GroupTypeOK, SessionTypeOK
<1> QED  BY <1>1, <1>3, <1>5, <1>8, Zenon DEF GroupTypeOK, ReplyTypeOK

GroupInv == GroupTypeOK /\ Dispatch /\ NeverDeaf /\ Collected /\ Written

LEMMA GroupInvariant == GroupSpec => []GroupInv
<1>1. GroupInit => GroupInv
  BY GroupTypeInit, DispatchInit, DeafInit, CollectedInit, WrittenInit DEF GroupInv
<1>2. TypeOK /\ GroupInv /\ [GroupNext]_handlerVars => GroupInv'
  <2>1. GroupTypeOK => ReplyTypeOK /\ CollectorTypeOK
    BY DEF GroupTypeOK, ReplyTypeOK
  <2> QED  BY <2>1, GroupTypeStep, DispatchStep, DeafStep, CollectedStep, WrittenStep DEF GroupInv
<1>3. GroupSpec => []TypeOK
  BY GroupUsesConnection, TypeCorrect, PTL
<1> QED  BY <1>1, <1>2, <1>3, PTL DEF GroupSpec

\* The handlers' variables keep their types, and the loop stays within them.
THEOREM GroupTypeCorrect == GroupSpec => []GroupTypeOK
BY GroupInvariant, PTL DEF GroupInv

\* Whatever handlers a group has, and whichever of them refuse, throw or
\* reject the request, the client gets one reply or a prefix of one, and
\* frames only behind a whole 101.
THEOREM OnlyOneReply == GroupSpec => []OneReply
<1>1. GroupInv => OneReply
  <2> SUFFICES ASSUME GroupInv, verdict \in {"complete", "invalid"}, NEW i \in DOMAIN calls
               PROVE  IF i <= 2 THEN calls[i].kind = BuiltReply[i]
                      ELSE IF session = "none" THEN i = 3 /\ calls[i].kind = "content"
                      ELSE calls[i].kind = "frame"
    BY DEF OneReply
  <2>1. i \in 1 .. Len(calls)
    OBVIOUS
  <2> QED  BY <2>1, ReplySeq DEF GroupInv, Written, Part, FramesBehindReply
<1> QED  BY <1>1, GroupInvariant, PTL

\* However the bytes of a body arrive, the application's handler gets exactly
\* the announced ones, once, and nothing is answered before it does.
THEOREM BodyArrivesExactly == GroupSpec => []BodyIsExact
<1>1. GroupInv => BodyIsExact
  <2> SUFFICES ASSUME GroupInv
               PROVE  BodyIsExact
    OBVIOUS
  <2>1. \/ bodies = <<>>
        \/ length_ >= 0 /\ bodies = <<[i \in 1 .. length_ |-> i]>>
    BY DEF GroupInv, Collected
  <2>2. Len(bodies) <= 1 /\ \A n \in DOMAIN bodies :
          length_ >= 0 /\ bodies[n] = [i \in 1 .. length_ |-> i]
    <3>1. CASE bodies = <<>>
      BY <3>1
    <3>2. ASSUME length_ >= 0, NEW e, e = [i \in 1 .. length_ |-> i], bodies = <<e>>
          PROVE  Len(bodies) <= 1 /\ \A n \in DOMAIN bodies : length_ >= 0 /\ bodies[n] = e
      <4>1. Len(<<e>>) = 1 /\ DOMAIN <<e>> = 1 .. 1 /\ <<e>>[1] = e
        OBVIOUS
      <4>2. Len(bodies) = 1 /\ DOMAIN bodies = 1 .. 1 /\ bodies[1] = e
        BY <3>2, <4>1, Zenon
      <4>3. \A n \in 1 .. 1 : n = 1
        OBVIOUS
      <4>4. Len(bodies) <= 1
        BY <4>2
      <4> QED  BY <3>2, <4>2, <4>3, <4>4, Zenon
    <3> QED  BY <2>1, <3>1, <3>2
  <2>3. (collector # "none" /\ length_ >= 0 /\ bodies = <<>>) => calls = <<>>
    BY DEF GroupInv, GroupTypeOK, CollectorTypeOK, Dispatch, Written
  <2> QED  BY <2>2, <2>3 DEF BodyIsExact
<1> QED  BY <1>1, GroupInvariant, PTL

\* A connection that is to be read on always has a read outstanding, or a
\* thread that will start one, unless there was an error.
THEOREM AlwaysListens == GroupSpec => []NeverDeaf
BY GroupInvariant, PTL DEF GroupInv
===============================================================================
