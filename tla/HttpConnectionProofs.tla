------------------------- MODULE HttpConnectionProofs -------------------------
(***************************************************************************)
(* Proofs about HttpConnection, for every pool, every set of application   *)
(* threads, every set of block kinds and any number of writes.             *)
(*                                                                         *)
(* The inductive invariant is the conjunction of the properties the runs   *)
(* check.  None is inductive alone: that a new async_write starts with     *)
(* nothing in flight (InOrder) needs write_in_progress_ to be exact        *)
(* (OneWrite), and that the client keeps a prefix after a break needs the  *)
(* queue to have been in order before it.                                  *)
(***************************************************************************)
EXTENDS HttpConnection, TLAPS, SequenceTheorems

-------------------------------------------------------------------------------
(* What a step may do to the write queue, the wire and the error.          *)

QueueStep ==
  \/ /\ \E kind \in Kinds : DoWrite(kind)
     /\ UNCHANGED <<last_error, wire>>
  \/ \E w \in writes : Transmit(w)
  \/ \E t \in Threads : HandleWriteOk(t)
  \/ \E t \in Threads : HandleWriteError(t)
  \/ /\ UNCHANGED <<queueVars, wire>>
     /\ last_error' \in {last_error, "read"}

\* Every step, of whatever thread, is one of these as far as the queue goes.
LEMMA StepIsQueueStep ==
  ASSUME [Next]_vars
  PROVE  QueueStep
<1>1. CASE UNCHANGED vars
  BY <1>1 DEF vars, QueueStep
<1>2. CASE \E w \in writes : Transmit(w)
  BY <1>2 DEF QueueStep
<1>3. CASE ReadError
  BY <1>3 DEF ReadError, QueueStep
<1>4. ASSUME NEW t \in Threads, Step(t)
      PROVE  QueueStep
  <2>1. CASE HandleWriteOk(t) \/ HandleWriteError(t)
    BY <2>1 DEF QueueStep
  <2>2. CASE \E v \in {"complete", "invalid", "incomplete"} : HandleRead(t, v)
    BY <2>2 DEF HandleRead, QueueStep
  <2>3. CASE HandleReadMore(t) \/ Return(t) \/ AsyncRead(t)
    BY <2>3 DEF HandleReadMore, Return, AsyncRead, QueueStep
  <2>4. CASE \E w \in Writers : Retain(t, w)
    BY <2>4 DEF Retain, QueueStep
  <2>5. CASE RejectWrite(t) \/ \E kind \in Kinds : ThreadWrite(t, kind)
    BY <2>5 DEF RejectWrite, ThreadWrite, QueueStep
  <2> QED  BY <1>4, <2>1, <2>2, <2>3, <2>4, <2>5 DEF Step
<1>5. CASE \E w \in Writers, kind \in Kinds : AppWrite(w, kind)
  BY <1>5 DEF AppWrite, QueueStep
<1>6. CASE \E w \in Writers : Release(w)
  BY <1>6 DEF Release, QueueStep
<1> QED  BY <1>1, <1>2, <1>3, <1>4, <1>5, <1>6 DEF Next

-------------------------------------------------------------------------------
(* Types.                                                                  *)

\* Types are inductive together with this: the thread that writes the 400
\* reply has writes left, and the strand keeps every other thread out.
OneRejection ==
  \A t \in Threads : pc[t] = "reject" =>
    replies \in 1 .. 3 /\ \A s \in Threads \ {t} : pc[s] = "idle"

LEMMA OneRejectionStep == TypeOK /\ OneRejection /\ [Next]_vars => OneRejection'
<1> SUFFICES ASSUME TypeOK, OneRejection, [Next]_vars
             PROVE  OneRejection'
  OBVIOUS
<1> USE DEF TypeOK, OneRejection
<1>1. CASE UNCHANGED <<pc, replies>>
  BY <1>1
<1>2. ASSUME NEW t \in Threads,
             \/ \E v \in {"complete", "invalid", "incomplete"} : HandleRead(t, v)
             \/ HandleReadMore(t)
      PROVE  OneRejection'
  <2>1. \A s \in Threads : s # t => pc'[s] = "idle"
    BY <1>2 DEF HandleRead, HandleReadMore, StrandFree
  <2>2. pc'[t] = "reject" => replies' = 3
    BY <1>2 DEF HandleRead, HandleReadMore
  <2> QED  BY <2>1, <2>2
<1>3. ASSUME NEW t \in Threads,
             Return(t) \/ AsyncRead(t) \/ \E kind \in Kinds : ThreadWrite(t, kind)
      PROVE  OneRejection'
  <2>1. /\ replies' = replies
        /\ pc' = pc \/ pc' = [pc EXCEPT ![t] = "idle"]
    BY <1>3 DEF Return, AsyncRead, ThreadWrite, Throw
  <2> QED  BY <2>1
<1>4. ASSUME NEW t \in Threads, RejectWrite(t)
      PROVE  OneRejection'
  <2>1. /\ pc[t] = "reject"
        /\ replies' = replies - 1
        /\ \/ pc' = [pc EXCEPT ![t] = "idle"]
           \/ pc' = pc /\ replies # 1
    BY <1>4 DEF RejectWrite, Throw
  <2> QED  BY <2>1
<1> QED  BY <1>1, <1>2, <1>3, <1>4
         DEF Next, Step, vars, Transmit, ReadError, HandleWriteOk,
             HandleWriteError, Retain, AppWrite, Release

LEMMA TypeInit == Init => TypeOK /\ OneRejection
<1> SUFFICES ASSUME Init
             PROVE  TypeOK /\ OneRejection
  OBVIOUS
<1>1. <<>> \in Seq(Block)
  BY EmptySeq
<1>2. pc \in [Threads -> {"idle", "handler", "reject", "callback"}]
  BY DEF Init
<1>3. write_in_progress \in BOOLEAN /\ terminated \in BOOLEAN
  BY DEF Init
<1>4. /\ pending_write_buffers \in Seq(Block)
      /\ calls \in Seq(Block)
      /\ wire \in Seq(Block)
  BY <1>1, Zenon DEF Init
<1>5. /\ pending_write_resources \in SUBSET Nat
      /\ writes \in SUBSET Write
      /\ holders \in SUBSET Writers
      /\ replies \in 0 .. 3
  BY DEF Init
<1>6. OneRejection
  BY DEF Init, OneRejection
<1> QED  BY <1>2, <1>3, <1>4, <1>5, <1>6, Zenon DEF Init, TypeOK

LEMMA TypeStep == TypeOK /\ OneRejection /\ [Next]_vars => TypeOK'
<1> SUFFICES ASSUME TypeOK, OneRejection, [Next]_vars
             PROVE  TypeOK'
  OBVIOUS
<1>1. ASSUME NEW kind \in Kinds, DoWrite(kind)
      PROVE  /\ write_in_progress' \in BOOLEAN
             /\ pending_write_buffers' \in Seq(Block)
             /\ pending_write_resources' \in SUBSET Nat
             /\ writes' \in SUBSET Write
             /\ calls' \in Seq(Block)
  <2> DEFINE block == [id |-> Len(calls) + 1, kind |-> kind]
             buffers == Append(pending_write_buffers, block)
             resources == pending_write_resources \cup Resources(block)
  <2>1. block \in Block /\ block.id \in Nat
    BY LenProperties DEF TypeOK, Block
  <2>a. /\ buffers \in Seq(Block)
        /\ buffers # <<>>
    <3> HIDE DEF block
    <3> QED  BY <2>1, AppendProperties DEF TypeOK
  <2>b. Append(calls, block) \in Seq(Block)
    <3> HIDE DEF block
    <3> QED  BY <2>1, AppendProperties DEF TypeOK
  <2>2. /\ buffers \in Seq(Block)
        /\ buffers # <<>>
        /\ Append(calls, block) \in Seq(Block)
    BY <2>a, <2>b
  <2>3. Head(buffers).id \in Nat
    <3>1. Head(buffers) \in Block
      <4> HIDE DEF buffers
      <4> QED  BY <2>2, HeadTailProperties
    <3> QED  BY <3>1 DEF Block
  <2>4. resources \in SUBSET Nat
    BY <2>1 DEF TypeOK, Resources
  <2> HIDE DEF block, buffers, resources
  <2>5. calls' = Append(calls, block)
    BY <1>1 DEF DoWrite, block
  <2>6. CASE ~write_in_progress /\ last_error = "none"
    <3>1. WritePending(writes, buffers, resources)
      BY <1>1, <2>6 DEF DoWrite, buffers, resources, block
    <3>2. [op |-> Head(buffers).id, buffers |-> buffers,
           resources |-> resources] \in Write
      BY <2>2, <2>3, <2>4 DEF Write
    <3>3. /\ write_in_progress' \in BOOLEAN
          /\ pending_write_buffers' \in Seq(Block)
          /\ pending_write_resources' \in SUBSET Nat
      BY <3>1, EmptySeq, Zenon DEF WritePending
    <3>4. writes' \in SUBSET Write
      BY <3>1, <3>2 DEF WritePending, TypeOK
    <3> QED  BY <2>2, <2>5, <3>3, <3>4
  <2>7. CASE write_in_progress \/ last_error # "none"
    <3>1. /\ pending_write_buffers' = buffers
          /\ pending_write_resources' = resources
          /\ UNCHANGED <<write_in_progress, writes>>
      BY <1>1, <2>7 DEF DoWrite, buffers, resources, block
    <3> QED  BY <2>2, <2>4, <2>5, <3>1 DEF TypeOK
  <2> QED  BY <2>6, <2>7
<1>2. CASE UNCHANGED vars
  BY <1>2 DEF vars, queueVars, readVars, TypeOK
<1>3. ASSUME NEW w \in writes, Transmit(w)
      PROVE  TypeOK'
  <2>1. /\ w \in Write
        /\ w.buffers \in Seq(Block)
        /\ w.buffers # <<>>
    BY <1>3 DEF TypeOK, Transmit, Write
  <2>2. Head(w.buffers) \in Block /\ Tail(w.buffers) \in Seq(Block)
    BY <2>1, HeadTailProperties
  <2>3. wire' \in Seq(Block)
    BY <1>3, <2>2, AppendProperties DEF TypeOK, Transmit
  <2>4. [w EXCEPT !.buffers = Tail(@)] \in Write
    BY <2>1, <2>2 DEF Write
  <2>5. writes' \in SUBSET Write
    BY <1>3, <2>4 DEF TypeOK, Transmit
  <2> QED  BY <1>3, <2>3, <2>5 DEF TypeOK, Transmit, readVars
<1>4. CASE ReadError
  BY <1>4 DEF ReadError, TypeOK, queueVars
<1>5. ASSUME NEW t \in Threads, Step(t)
      PROVE  TypeOK'
  <2>1. CASE HandleWriteOk(t)
    <3> SUFFICES ASSUME NEW w \in writes, w.buffers = <<>>,
                        pending_write_buffers # <<>>,
                        WritePending(writes \ {w}, pending_write_buffers,
                                     pending_write_resources)
                 PROVE  writes' \in SUBSET Write
      BY <2>1, EmptySeq DEF HandleWriteOk, CompleteWrite, WritePending, TypeOK, readVars
    <3>1. Head(pending_write_buffers) \in Block
      BY HeadTailProperties DEF TypeOK
    <3> QED  BY <3>1 DEF WritePending, TypeOK, Write, Block
  <2>2. CASE HandleWriteError(t)
    BY <2>2 DEF HandleWriteError, TypeOK, readVars
  <2>3. CASE \E v \in {"complete", "invalid", "incomplete"} : HandleRead(t, v)
    BY <2>3 DEF HandleRead, TypeOK, queueVars
  <2>4. CASE HandleReadMore(t)
    BY <2>4 DEF HandleReadMore, TypeOK, queueVars
  <2>5. CASE \E kind \in Kinds : ThreadWrite(t, kind)
    BY <1>1, <2>5 DEF ThreadWrite, Throw, TypeOK, readVars
  <2>6. CASE \E w \in Writers : Retain(t, w)
    BY <2>6 DEF Retain, TypeOK, queueVars, readVars
  <2>7. CASE AsyncRead(t)
    BY <2>7 DEF AsyncRead, Throw, TypeOK, queueVars
  <2>8. CASE Return(t)
    BY <2>8 DEF Return, TypeOK, queueVars, readVars
  <2>9. CASE RejectWrite(t)
    <3>1. PICK kind \in Kinds : DoWrite(kind) /\ (kind = "status") = (replies = 3)
      BY <2>9 DEF RejectWrite
    <3>2. replies' \in 0 .. 3
      BY <2>9 DEF RejectWrite, TypeOK, OneRejection
    <3>3. /\ pc' \in [Threads -> {"idle", "handler", "reject", "callback"}]
          /\ terminated' \in BOOLEAN
      BY <2>9 DEF RejectWrite, Throw, TypeOK
    <3> QED  BY <1>1, <2>9, <3>1, <3>2, <3>3 DEF RejectWrite, TypeOK, readVars
  <2> QED  BY <1>5, <2>1, <2>2, <2>3, <2>4, <2>5, <2>6, <2>7, <2>8, <2>9 DEF Step
<1>6. ASSUME NEW w \in Writers, NEW kind \in Kinds, AppWrite(w, kind)
      PROVE  TypeOK'
  BY <1>1, <1>6 DEF AppWrite, TypeOK, readVars
<1>7. CASE \E w \in Writers : Release(w)
  BY <1>7 DEF Release, TypeOK, queueVars, readVars
<1> QED  BY <1>2, <1>3, <1>4, <1>5, <1>6, <1>7 DEF Next

\* Every variable of the connection keeps its type.
THEOREM TypeCorrect == Spec => []TypeOK
<1>1. Spec => [](TypeOK /\ OneRejection)
  BY TypeInit, TypeStep, OneRejectionStep, PTL DEF Spec
<1> QED  BY <1>1, PTL

-------------------------------------------------------------------------------
(* Sequences: a block may be appended to the last of several sequences, and *)
(* the head of the second may move to the end of the first.                 *)

LEMMA ConcatAppend ==
  ASSUME NEW S, NEW s \in Seq(S), NEW t \in Seq(S), NEW e \in S
  PROVE  s \o Append(t, e) = Append(s \o t, e)
<1>1. <<e>> \in Seq(S)
  OBVIOUS
<1>2. s \o t \in Seq(S)
  BY ConcatProperties
<1>3. Append(t, e) = t \o <<e>> /\ Append(s \o t, e) = (s \o t) \o <<e>>
  BY <1>2, AppendIsConcat
<1>4. (s \o t) \o <<e>> = s \o (t \o <<e>>)
  BY <1>1, ConcatAssociative
<1> QED  BY <1>3, <1>4

LEMMA ConcatHeadTail ==
  ASSUME NEW S, NEW s \in Seq(S), NEW t \in Seq(S), t # <<>>
  PROVE  Append(s, Head(t)) \o Tail(t) = s \o t
<1>1. /\ Head(t) \in S
      /\ Tail(t) \in Seq(S)
      /\ <<Head(t)>> \in Seq(S)
  BY HeadTailProperties
<1>2. <<Head(t)>> \o Tail(t) = t
  <2>1. <<Head(t)>> \o Tail(t) \in Seq(S)
    BY <1>1, ConcatProperties
  <2>2. /\ Len(<<Head(t)>> \o Tail(t)) = Len(t)
        /\ \A i \in 1 .. Len(t) : (<<Head(t)>> \o Tail(t))[i] = t[i]
    <3>1. /\ Len(<<Head(t)>>) = 1
          /\ <<Head(t)>>[1] = t[1]
      OBVIOUS
    <3>2. /\ Len(Tail(t)) = Len(t) - 1
          /\ \A i \in 1 .. Len(Tail(t)) : Tail(t)[i] = t[i + 1]
          /\ Len(t) \in Nat
      BY HeadTailProperties, LenProperties
    <3>3. \A i \in 1 .. 1 + Len(Tail(t)) :
            (<<Head(t)>> \o Tail(t))[i] =
              IF i <= 1 THEN <<Head(t)>>[i] ELSE Tail(t)[i - 1]
      BY <1>1, <3>1, ConcatProperties
    <3>4. Len(<<Head(t)>> \o Tail(t)) = 1 + Len(Tail(t))
      BY <1>1, <3>1, ConcatProperties
    <3> QED  BY <3>1, <3>2, <3>3, <3>4
  <2> QED  BY <2>1, <2>2, SeqEqual
<1>3. (s \o <<Head(t)>>) \o Tail(t) = s \o (<<Head(t)>> \o Tail(t))
  BY <1>1, ConcatAssociative
<1>4. Append(s, Head(t)) = s \o <<Head(t)>>
  BY <1>1, AppendIsConcat
<1> QED  BY <1>2, <1>3, <1>4

LEMMA PrefixOfConcat ==
  ASSUME NEW S, NEW s \in Seq(S), NEW t \in Seq(S)
  PROVE  /\ Len(s) <= Len(s \o t)
         /\ \A i \in 1 .. Len(s) : s[i] = (s \o t)[i]
BY ConcatProperties, LenProperties

-------------------------------------------------------------------------------
(* The queue and its one outstanding write.                                *)

QueueInv == OneWrite /\ InOrder /\ NoLostWakeup /\ ResourcesHeld

LEMMA OnlyWrite ==
  ASSUME OneWrite, NEW w \in writes
  PROVE  writes = {w} /\ InFlight = w.buffers
BY DEF OneWrite, InFlight

LEMMA InFlightType ==
  ASSUME TypeOK
  PROVE  InFlight \in Seq(Block)
<1>1. CASE writes = {}
  BY <1>1, EmptySeq, Zenon DEF InFlight
<1>2. CASE writes # {}
  <2>1. (CHOOSE w \in writes : TRUE) \in writes
    BY <1>2
  <2> QED  BY <1>2, <2>1 DEF InFlight, TypeOK, Write
<1> QED  BY <1>1, <1>2

\* A write() leaves the queue as it should be, whether it starts an
\* async_write, queues behind one, or throws.
LEMMA DoWriteKeepsQueue ==
  ASSUME TypeOK, QueueInv, NEW kind \in Kinds, DoWrite(kind),
         UNCHANGED <<last_error, wire>>
  PROVE  QueueInv'
<1> DEFINE block == [id |-> Len(calls) + 1, kind |-> kind]
           buffers == Append(pending_write_buffers, block)
           resources == pending_write_resources \cup Resources(block)
<1>1. block \in Block
  BY LenProperties DEF TypeOK, Block
<1>2. calls' = Append(calls, block)
  BY DEF DoWrite
<1>3. \A i \in DOMAIN buffers : Resources(buffers[i]) \subseteq resources
  <2> HIDE DEF block
  <2>1. /\ buffers \in Seq(Block)
        /\ Len(buffers) = Len(pending_write_buffers) + 1
        /\ \A i \in 1 .. Len(pending_write_buffers) :
             buffers[i] = pending_write_buffers[i]
        /\ buffers[Len(pending_write_buffers) + 1] = block
    BY <1>1, AppendProperties DEF TypeOK
  <2>2. /\ DOMAIN buffers = 1 .. Len(buffers)
        /\ DOMAIN pending_write_buffers = 1 .. Len(pending_write_buffers)
        /\ Len(pending_write_buffers) \in Nat
    BY <2>1, LenProperties DEF TypeOK
  <2> HIDE DEF buffers
  <2>3. ASSUME NEW i \in 1 .. Len(buffers)
        PROVE  Resources(buffers[i]) \subseteq resources
    BY <2>1, <2>2 DEF QueueInv, ResourcesHeld
  <2> QED  BY <2>2, <2>3
<1>4. /\ Len(calls') = Len(calls) + 1
      /\ \A i \in 1 .. Len(calls) : calls'[i] = calls[i]
      /\ Len(calls) \in Nat /\ Len(wire) \in Nat
  <2> HIDE DEF block
  <2> QED  BY <1>1, <1>2, AppendProperties, LenProperties DEF TypeOK
<1>5. /\ Len(wire') <= Len(calls')
      /\ \A i \in 1 .. Len(wire') : wire'[i] = calls'[i]
  <2>1. Len(wire) <= Len(calls) /\ \A i \in 1 .. Len(wire) : wire[i] = calls[i]
    BY DEF QueueInv, InOrder
  <2>2. wire' = wire
    OBVIOUS
  <2> QED  BY <1>4, <2>1, <2>2
<1>6. ASSUME ~Broken
      PROVE  wire \o InFlight \o buffers = calls'
  <2>1. /\ wire \o InFlight \in Seq(Block)
        /\ pending_write_buffers \in Seq(Block)
    BY InFlightType, ConcatProperties DEF TypeOK
  <2>2. (wire \o InFlight) \o pending_write_buffers = calls
    BY <1>6 DEF QueueInv, InOrder
  <2> HIDE DEF block
  <2> QED  BY <1>1, <1>2, <2>1, <2>2, ConcatAppend
<1>7. CASE ~write_in_progress /\ last_error = "none"
  <2> DEFINE op == [op |-> Head(buffers).id, buffers |-> buffers,
                    resources |-> resources]
  <2>1. writes = {} /\ pending_write_buffers = <<>> /\ InFlight = <<>>
    BY <1>7 DEF QueueInv, OneWrite, NoLostWakeup, InFlight
  <2>2. /\ write_in_progress' = TRUE
        /\ writes' = {op}
        /\ pending_write_buffers' = <<>>
    BY <1>7, <2>1 DEF DoWrite, WritePending
  <2>3. op.buffers = buffers /\ op.resources = resources
    OBVIOUS
  <2> HIDE DEF op
  <2>4. InFlight' = buffers
    BY <2>2, <2>3 DEF InFlight
  <2>5. wire' \o buffers \o pending_write_buffers' = calls'
    <3>1. buffers \in Seq(Block)
      <4> HIDE DEF block
      <4> QED  BY <1>1, AppendProperties DEF TypeOK
    <3> HIDE DEF buffers
    <3>2. /\ wire \o <<>> = wire
          /\ (wire \o buffers) \o <<>> = wire \o buffers
      BY <3>1, ConcatEmptySeq, ConcatProperties DEF TypeOK
    <3>3. wire \o InFlight \o buffers = calls'
      BY <1>6, <1>7 DEF Broken
    <3>4. wire' = wire
      OBVIOUS
    <3> QED  BY <2>1, <2>2, <3>2, <3>3, <3>4
  <2>6. InOrder'
    BY <1>5, <2>4, <2>5 DEF InOrder
  <2>7. OneWrite' /\ NoLostWakeup'
    BY <2>2 DEF OneWrite, NoLostWakeup
  <2>8. ResourcesHeld'
    <3> HIDE DEF buffers, resources
    <3> QED  BY <1>3, <2>2, <2>3 DEF ResourcesHeld
  <2> QED  BY <2>6, <2>7, <2>8 DEF QueueInv
<1>8. CASE write_in_progress \/ last_error # "none"
  <2>1. /\ pending_write_buffers' = buffers
        /\ pending_write_resources' = resources
        /\ UNCHANGED <<write_in_progress, writes, last_error, wire>>
    BY <1>8 DEF DoWrite
  <2> HIDE DEF buffers, resources
  <2>2. InFlight' = InFlight /\ (Broken' <=> Broken)
    BY <2>1 DEF InFlight, Broken
  <2>3. InOrder'
    BY <1>5, <1>6, <2>1, <2>2 DEF InOrder
  <2>4. OneWrite' /\ NoLostWakeup'
    BY <1>8, <2>1 DEF QueueInv, OneWrite, NoLostWakeup
  <2>5. ResourcesHeld'
    BY <1>3, <2>1 DEF QueueInv, ResourcesHeld
  <2> QED  BY <2>3, <2>4, <2>5 DEF QueueInv
<1> QED  BY <1>7, <1>8

\* The client takes the next block of the outstanding async_write.
LEMMA TransmitKeepsQueue ==
  ASSUME TypeOK, QueueInv, NEW w \in writes, Transmit(w)
  PROVE  QueueInv'
<1> DEFINE rest == [w EXCEPT !.buffers = Tail(@)]
<1>1. /\ w \in Write
      /\ w.buffers \in Seq(Block)
      /\ w.buffers # <<>>
      /\ wire \in Seq(Block)
      /\ pending_write_buffers \in Seq(Block)
  BY DEF TypeOK, Write, Transmit
<1>2. Head(w.buffers) \in Block /\ Tail(w.buffers) \in Seq(Block)
  BY <1>1, HeadTailProperties
<1>3. rest.buffers = Tail(w.buffers) /\ rest.resources = w.resources
  BY <1>1 DEF Write
<1>4. writes = {w} /\ InFlight = w.buffers
  BY OnlyWrite DEF QueueInv
<1>5. writes' = {rest}
  BY <1>4 DEF Transmit
<1> HIDE DEF rest
<1>6. InFlight' = Tail(w.buffers)
  BY <1>3, <1>5 DEF InFlight
<1>7. /\ wire' = Append(wire, Head(w.buffers))
      /\ UNCHANGED <<write_in_progress, pending_write_buffers,
                     pending_write_resources, calls, last_error>>
  BY DEF Transmit
<1>8. wire' \o InFlight' \o pending_write_buffers' = calls'
  <2>1. wire \o InFlight \o pending_write_buffers = calls
    BY <1>4 DEF QueueInv, InOrder, Broken
  <2>2. wire' \o InFlight' = wire \o w.buffers
    BY <1>1, <1>6, <1>7, ConcatHeadTail
  <2> QED  BY <1>4, <1>7, <2>1, <2>2
<1>9. InOrder'
  <2>1. wire' \in Seq(Block) /\ Tail(w.buffers) \o pending_write_buffers \in Seq(Block)
    BY <1>1, <1>2, <1>7, AppendProperties, ConcatProperties
  <2>2. calls' = wire' \o (Tail(w.buffers) \o pending_write_buffers)
    <3>1. (wire' \o Tail(w.buffers)) \o pending_write_buffers
            = wire' \o (Tail(w.buffers) \o pending_write_buffers)
      <4>1. /\ wire' \in Seq(Block)
            /\ Tail(w.buffers) \in Seq(Block)
            /\ pending_write_buffers \in Seq(Block)
        BY <1>1, <1>2, <2>1
      <4>2. \A a, b, c \in Seq(Block) : (a \o b) \o c = a \o (b \o c)
        BY ConcatAssociative
      <4> QED  BY <4>1, <4>2
    <3> QED  BY <1>6, <1>7, <1>8, <3>1
  <2>3. Len(wire') <= Len(calls') /\ \A i \in 1 .. Len(wire') : wire'[i] = calls'[i]
    BY <2>1, <2>2, PrefixOfConcat
  <2> QED  BY <1>8, <2>3 DEF InOrder
<1>10. OneWrite' /\ NoLostWakeup'
  BY <1>4, <1>5, <1>7 DEF QueueInv, OneWrite, NoLostWakeup
<1>11. ResourcesHeld'
  <2>1. \A i \in DOMAIN Tail(w.buffers) :
          Resources(Tail(w.buffers)[i]) \subseteq w.resources
    <3>1. \A i \in DOMAIN Tail(w.buffers) :
            i + 1 \in DOMAIN w.buffers /\ Tail(w.buffers)[i] = w.buffers[i + 1]
      BY <1>1, <1>2, HeadTailProperties, LenProperties
    <3> QED  BY <3>1 DEF QueueInv, ResourcesHeld
  <2> QED  BY <1>3, <1>5, <1>7, <2>1 DEF QueueInv, ResourcesHeld
<1> QED  BY <1>9, <1>10, <1>11 DEF QueueInv

\* A completed write takes everything queued behind it along, or leaves the
\* connection broken.
LEMMA HandleWriteOkKeepsQueue ==
  ASSUME TypeOK, QueueInv, NEW t \in Threads, HandleWriteOk(t)
  PROVE  QueueInv'
<1>1. PICK w \in writes : CompleteWrite(w)
  BY DEF HandleWriteOk
<1>2. /\ w.buffers = <<>>
      /\ UNCHANGED <<calls, last_error, wire>>
  BY <1>1 DEF HandleWriteOk, CompleteWrite
<1>3. writes = {w} /\ InFlight = <<>>
  BY <1>2, OnlyWrite DEF QueueInv
<1>4. /\ wire \o pending_write_buffers = calls
      /\ Len(wire) <= Len(calls)
      /\ \A i \in 1 .. Len(wire) : wire[i] = calls[i]
  <2>1. wire \o <<>> = wire
    BY ConcatEmptySeq DEF TypeOK
  <2> QED  BY <1>3, <2>1 DEF QueueInv, InOrder, Broken
<1>5. CASE /\ pending_write_buffers = <<>>
           /\ write_in_progress' = FALSE
           /\ writes' = {}
           /\ UNCHANGED <<pending_write_buffers, pending_write_resources>>
  <2>1. InFlight' = <<>>
    BY <1>5 DEF InFlight
  <2>2. /\ wire' = wire
        /\ (wire \o <<>>) \o <<>> = wire \o <<>>
    BY <1>2, ConcatEmptySeq DEF TypeOK
  <2>3. InOrder'
    BY <1>2, <1>4, <1>5, <2>1, <2>2 DEF InOrder
  <2> QED  BY <1>5, <2>3 DEF QueueInv, OneWrite, NoLostWakeup, ResourcesHeld
<1>6. CASE WritePending({}, pending_write_buffers, pending_write_resources)
  <2> DEFINE op == [op |-> Head(pending_write_buffers).id,
                    buffers |-> pending_write_buffers,
                    resources |-> pending_write_resources]
  <2>1. /\ write_in_progress' = TRUE
        /\ writes' = {op}
        /\ pending_write_buffers' = <<>>
    BY <1>6 DEF WritePending
  <2>2. /\ op.buffers = pending_write_buffers
        /\ op.resources = pending_write_resources
    OBVIOUS
  <2> HIDE DEF op
  <2>3. InFlight' = pending_write_buffers
    BY <2>1, <2>2 DEF InFlight
  <2>4. wire' \o InFlight' \o pending_write_buffers' = calls'
    <3>1. (wire \o pending_write_buffers) \o <<>> = wire \o pending_write_buffers
      BY ConcatEmptySeq, ConcatProperties DEF TypeOK
    <3> QED  BY <1>2, <1>4, <2>1, <2>3, <3>1
  <2>5. InOrder'
    BY <1>2, <1>4, <2>4 DEF InOrder
  <2>6. ResourcesHeld'
    BY <2>1, <2>2 DEF QueueInv, ResourcesHeld
  <2> QED  BY <2>1, <2>5, <2>6 DEF QueueInv, OneWrite, NoLostWakeup
<1>7. CASE /\ last_error # "none"
           /\ write_in_progress' = FALSE
           /\ writes' = {}
           /\ UNCHANGED <<pending_write_buffers, pending_write_resources>>
  <2>1. InOrder'
    BY <1>2, <1>4, <1>7 DEF InOrder, Broken
  <2> QED  BY <1>2, <1>7, <2>1 DEF QueueInv, OneWrite, NoLostWakeup, ResourcesHeld
<1> QED  BY <1>1, <1>3, <1>5, <1>6, <1>7 DEF CompleteWrite

\* A failed write leaves the client with what it had.
LEMMA HandleWriteErrorKeepsQueue ==
  ASSUME TypeOK, QueueInv, NEW t \in Threads, HandleWriteError(t)
  PROVE  QueueInv'
<1>1. /\ writes' = {}
      /\ write_in_progress' = FALSE
      /\ last_error' = "write"
      /\ UNCHANGED <<pending_write_buffers, pending_write_resources, calls, wire>>
  BY OnlyWrite DEF QueueInv, HandleWriteError
<1>2. InOrder'
  BY <1>1 DEF QueueInv, InOrder, Broken
<1> QED  BY <1>1, <1>2 DEF QueueInv, OneWrite, NoLostWakeup, ResourcesHeld

\* Steps that are not about the queue: a read error may break it.
LEMMA OtherStepKeepsQueue ==
  ASSUME TypeOK, QueueInv, UNCHANGED <<queueVars, wire>>,
         last_error' \in {last_error, "read"}
  PROVE  QueueInv'
<1>1. InFlight' = InFlight
  BY DEF InFlight, queueVars
<1>2. Broken => Broken'
  BY DEF Broken, queueVars, TypeOK
<1>3. InOrder'
  BY <1>1, <1>2 DEF QueueInv, InOrder, queueVars
<1>4. NoLostWakeup'
  BY DEF QueueInv, NoLostWakeup, queueVars
<1> QED  BY <1>3, <1>4 DEF QueueInv, OneWrite, ResourcesHeld, queueVars

LEMMA QueueInit == Init => QueueInv
<1> SUFFICES ASSUME Init
             PROVE  QueueInv
  OBVIOUS
<1>1. OneWrite /\ NoLostWakeup /\ ResourcesHeld
  BY DEF Init, OneWrite, NoLostWakeup, ResourcesHeld
<1>2. InOrder
  <2>1. InFlight = <<>>
    BY DEF Init, InFlight
  <2>2. <<>> \o <<>> \o <<>> = <<>> /\ Len(<<>>) = 0
    BY EmptySeq, ConcatEmptySeq
  <2> QED  BY <2>1, <2>2 DEF Init, InOrder
<1> QED  BY <1>1, <1>2 DEF QueueInv

LEMMA QueueStepKeepsQueue == TypeOK /\ QueueInv /\ QueueStep => QueueInv'
BY DoWriteKeepsQueue, TransmitKeepsQueue, HandleWriteOkKeepsQueue,
   HandleWriteErrorKeepsQueue, OtherStepKeepsQueue DEF QueueStep

LEMMA Invariant == Spec => [](TypeOK /\ OneRejection /\ QueueInv)
<1>1. Init => TypeOK /\ OneRejection /\ QueueInv
  BY TypeInit, QueueInit
<1>2. TypeOK /\ OneRejection /\ QueueInv /\ [Next]_vars => (TypeOK /\ OneRejection /\ QueueInv)'
  BY TypeStep, OneRejectionStep, StepIsQueueStep, QueueStepKeepsQueue
<1> QED  BY <1>1, <1>2, PTL DEF Spec

\* write_in_progress_ is exact and async_writes never overlap.
THEOREM OneWriteAtATime == Spec => []OneWrite
BY Invariant, PTL DEF QueueInv

\* The client receives the blocks of all write() calls in order, each once.
THEOREM WritesStayInOrder == Spec => []InOrder
BY Invariant, PTL DEF QueueInv

\* No block is left behind by the completion of the write before it.
THEOREM WakeupsAreNotLost == Spec => []NoLostWakeup
BY Invariant, PTL DEF QueueInv

\* The bytes of queued and outgoing blocks stay owned.
THEOREM ResourcesStayHeld == Spec => []ResourcesHeld
BY Invariant, PTL DEF QueueInv

\* A connection without error that nothing refers to any more, and whose socket
\* is therefore closed, has sent every block it was given.
THEOREM ClosedIsFlushed == Spec => []ClosedMeansFlushed
<1>1. TypeOK /\ QueueInv => ClosedMeansFlushed
  <2> SUFFICES ASSUME TypeOK, QueueInv, ~Referenced, last_error = "none"
               PROVE  wire = calls
    BY DEF ClosedMeansFlushed
  <2>1. writes = {}
    BY DEF Referenced
  <2>2. InFlight = <<>> /\ ~Broken /\ ~write_in_progress
    BY <2>1 DEF InFlight, Broken, QueueInv, OneWrite
  <2>3. pending_write_buffers = <<>>
    BY <2>2 DEF QueueInv, NoLostWakeup
  <2>4. wire \o <<>> \o <<>> = calls
    BY <2>2, <2>3 DEF QueueInv, InOrder
  <2>5. wire \o <<>> = wire
    BY DEF TypeOK
  <2> QED  BY <2>4, <2>5
<1> QED  BY <1>1, Invariant, PTL

-------------------------------------------------------------------------------
(* The connection implements the abstract channel.                         *)

LEMMA TransmitDelivers ==
  ASSUME TypeOK, QueueInv, NEW w \in writes, Transmit(w)
  PROVE  Channel!Deliver
<1>1. /\ w.buffers \in Seq(Block)
      /\ w.buffers # <<>>
      /\ wire \in Seq(Block)
      /\ pending_write_buffers \in Seq(Block)
  BY DEF TypeOK, Write, Transmit
<1>2. /\ ~Broken
      /\ wire \o w.buffers \o pending_write_buffers = calls
  BY OnlyWrite DEF QueueInv, InOrder, Broken
<1> DEFINE rest == w.buffers \o pending_write_buffers
<1>3. /\ rest \in Seq(Block)
      /\ Len(rest) > 0
      /\ rest[1] = Head(w.buffers)
  <2>1. Len(w.buffers) \in Nat \ {0} /\ Len(pending_write_buffers) \in Nat
    BY <1>1, EmptySeq, LenProperties
  <2>2. w.buffers[1] = Head(w.buffers)
    BY <1>1
  <2> QED  BY <1>1, <2>1, <2>2, ConcatProperties
<1>4. calls = wire \o rest
  <2>1. \A a, b, c \in Seq(Block) : (a \o b) \o c = a \o (b \o c)
    BY ConcatAssociative
  <2> QED  BY <1>1, <1>2, <2>1
<1> HIDE DEF rest
<1>5. /\ Len(wire) < Len(calls)
      /\ calls[Len(wire) + 1] = Head(w.buffers)
  <2>1. Len(wire) \in Nat /\ Len(rest) \in Nat
    BY <1>1, <1>3, LenProperties
  <2> QED  BY <1>1, <1>3, <1>4, <2>1, ConcatProperties
<1>6. /\ wire' = Append(wire, Head(w.buffers))
      /\ writes' # {}
      /\ UNCHANGED <<calls, last_error>>
  BY DEF Transmit
<1>7. Broken' = Broken
  BY <1>2, <1>6 DEF Broken
<1> QED  BY <1>2, <1>5, <1>6, <1>7 DEF Channel!Deliver

LEMMA StepRefines ==
  ASSUME TypeOK, QueueInv, QueueStep
  PROVE  [Channel!Next]_(Channel!chanVars)
<1> USE DEF Channel!Next, Channel!chanVars
<1>1. ASSUME UNCHANGED <<calls, wire>>, Broken => Broken'
      PROVE  [Channel!Next]_(Channel!chanVars)
  <2>1. CASE Broken' = Broken
    BY <1>1, <2>1
  <2>2. CASE ~Broken /\ Broken'
    <3>1. Broken' = TRUE
      BY <2>2
    <3> QED  BY <1>1, <2>2, <3>1 DEF Channel!Break
  <2> QED  BY <1>1, <2>1, <2>2 DEF Broken
<1>2. ASSUME NEW kind \in Kinds, DoWrite(kind), UNCHANGED <<last_error, wire>>
      PROVE  [Channel!Next]_(Channel!chanVars)
  <2>1. calls' = Append(calls, [id |-> Len(calls) + 1, kind |-> kind])
    BY <1>2 DEF DoWrite
  <2>2. Broken' = Broken
    BY <1>2 DEF DoWrite, Broken
  <2> QED  BY <1>2, <2>1, <2>2 DEF Channel!Accept
<1>3. ASSUME NEW w \in writes, Transmit(w)
      PROVE  [Channel!Next]_(Channel!chanVars)
  BY <1>3, TransmitDelivers
<1>4. ASSUME NEW t \in Threads, HandleWriteOk(t) \/ HandleWriteError(t)
      PROVE  [Channel!Next]_(Channel!chanVars)
  BY <1>1, <1>4 DEF HandleWriteOk, HandleWriteError, Broken
<1>5. ASSUME UNCHANGED <<queueVars, wire>>, last_error' \in {last_error, "read"}
      PROVE  [Channel!Next]_(Channel!chanVars)
  <2>1. Broken => Broken'
    BY <1>5 DEF Broken, queueVars
  <2> QED  BY <1>1, <1>5, <2>1 DEF queueVars
<1> QED  BY <1>2, <1>3, <1>4, <1>5 DEF QueueStep

\* Any interleaving of writers, completions and errors is, to the client,
\* the one ordered stream of the abstract channel.
THEOREM ConnectionIsAChannel == Spec => ImplementsChannel
<1>1. Init => Channel!Init
  BY DEF Init, Channel!Init, Broken
<1>2. TypeOK /\ QueueInv /\ [Next]_vars => [Channel!Next]_(Channel!chanVars)
  BY StepIsQueueStep, StepRefines
<1> QED  BY <1>1, <1>2, Invariant, PTL DEF Spec, ImplementsChannel, Channel!Spec

-------------------------------------------------------------------------------
(* When no exception can leave a thread of the pool.                       *)

\* While the request is awaited nothing else has happened; afterwards the
\* connection is never read again, so an async_write in flight has not seen
\* an error, and the one thread cannot leave the 400 reply to complete one.
Quiet ==
  /\ reading = "request" => /\ \A t \in Threads : pc[t] = "idle"
                            /\ writes = {}
                            /\ holders = {}
                            /\ last_error = "none"
  /\ reading # "more"
  /\ \A t \in Threads : pc[t] # "callback"
  /\ writes # {} => last_error = "none"
  /\ \A t \in Threads : pc[t] = "reject" => last_error = "none" /\ holders = {}
  /\ ~terminated

LEMMA QuietStep ==
  ASSUME \A s, t \in Threads : s = t, ~KeepsReading,
         TypeOK, OneWrite, Quiet, [Next]_vars
  PROVE  Quiet'
<1> USE DEF TypeOK, Quiet
<1>1. CASE UNCHANGED vars
  BY <1>1 DEF vars, queueVars, readVars
<1>2. ASSUME NEW w \in writes, Transmit(w)
      PROVE  Quiet'
  BY <1>2 DEF Transmit, readVars
<1>3. CASE ReadError
  BY <1>3 DEF ReadError, queueVars
<1>4. ASSUME NEW kind \in Kinds, DoWrite(kind), UNCHANGED last_error
      PROVE  writes' # {} => last_error' = "none"
  BY <1>4 DEF DoWrite, WritePending
<1>5. ASSUME NEW t \in Threads, Step(t)
      PROVE  Quiet'
  <2>1. CASE HandleWriteOk(t)
    <3>1. PICK w \in writes : CompleteWrite(w)
      BY <2>1 DEF HandleWriteOk
    <3>2. terminated' = terminated /\ last_error = "none"
      BY <3>1 DEF CompleteWrite
    <3> QED  BY <2>1, <3>2 DEF HandleWriteOk, readVars
  <2>2. CASE HandleWriteError(t)
    <3>1. writes' = {}
      BY <2>2 DEF HandleWriteError, OneWrite
    <3>2. \A s \in Threads : pc[s] # "reject"
      BY <2>2 DEF HandleWriteError
    <3> QED  BY <2>2, <3>1, <3>2 DEF HandleWriteError, readVars
  <2>3. CASE \E v \in {"complete", "invalid", "incomplete"} : HandleRead(t, v)
    BY <2>3 DEF HandleRead, queueVars
  <2>4. CASE HandleReadMore(t) \/ AsyncRead(t)
    BY <2>4 DEF HandleReadMore, AsyncRead
  <2>5. ASSUME NEW kind \in Kinds, ThreadWrite(t, kind)
        PROVE  Quiet'
    <3>1. writes' # {} => last_error' = "none"
      BY <1>4, <2>5 DEF ThreadWrite
    <3>2. /\ pc[t] = "handler"
          /\ \A s \in Threads : pc'[s] # "reject" /\ pc'[s] # "callback"
          /\ ~terminated'
          /\ reading # "request"
      BY <2>5 DEF ThreadWrite, UserCode, Throw
    <3> QED  BY <2>5, <3>1, <3>2 DEF ThreadWrite, readVars
  <2>6. CASE \E w \in Writers : Retain(t, w)
    BY <2>6 DEF Retain, UserCode, queueVars, readVars
  <2>7. CASE Return(t)
    BY <2>7 DEF Return, UserCode, queueVars, readVars
  <2>8. CASE RejectWrite(t)
    <3>1. writes' # {} => last_error' = "none"
      BY <1>4, <2>8 DEF RejectWrite
    <3>2. ~terminated' /\ pc' \in {pc, [pc EXCEPT ![t] = "idle"]}
      BY <2>8 DEF RejectWrite, WriteThrows
    <3>3. reading # "request" /\ UNCHANGED <<last_error, readVars, holders>>
      BY <2>8 DEF RejectWrite
    <3> QED  BY <3>1, <3>2, <3>3 DEF readVars
  <2> QED  BY <1>5, <2>1, <2>2, <2>3, <2>4, <2>5, <2>6, <2>7, <2>8 DEF Step
<1>6. ASSUME NEW w \in Writers, NEW kind \in Kinds, AppWrite(w, kind)
      PROVE  Quiet'
  BY <1>4, <1>6 DEF AppWrite, readVars
<1>7. CASE \E w \in Writers : Release(w)
  BY <1>7 DEF Release, queueVars, readVars
<1> QED  BY <1>1, <1>2, <1>3, <1>5, <1>6, <1>7 DEF Next

\* A write adds one block, of its kind, behind the others.
LEMMA WriteAppends ==
  ASSUME TypeOK, NEW kind \in Kinds, DoWrite(kind)
  PROVE  /\ Len(calls') = Len(calls) + 1
         /\ \A i \in 1 .. Len(calls) : calls'[i] = calls[i]
         /\ calls'[Len(calls) + 1].kind = kind
         /\ DOMAIN calls' = 1 .. Len(calls')
         /\ DOMAIN calls = 1 .. Len(calls)
         /\ Len(calls) \in Nat
<1> DEFINE block == [id |-> Len(calls) + 1, kind |-> kind]
<1>1. block \in Block /\ block.kind = kind
  BY LenProperties DEF TypeOK, Block
<1>2. calls' = Append(calls, block)
  BY DEF DoWrite
<1> HIDE DEF block
<1>3. /\ calls' \in Seq(Block)
      /\ Len(calls') = Len(calls) + 1
      /\ \A i \in 1 .. Len(calls) : calls'[i] = calls[i]
      /\ calls'[Len(calls) + 1] = block
  BY <1>1, <1>2, AppendProperties, LenProperties DEF TypeOK
<1> QED  BY <1>1, <1>3, LenProperties DEF TypeOK

\* WebVideoServer's configuration is safe: with one io thread, and handlers
\* that do not read on, no schedule of writers and errors makes an exception
\* leave io_service::run().
THEOREM OneThreadNeverTerminates ==
  ASSUME \A s, t \in Threads : s = t, ~KeepsReading
  PROVE  Spec => []NeverTerminates
<1>1. Init => Quiet
  BY DEF Init, Quiet
<1>2. TypeOK /\ OneWrite /\ Quiet /\ [Next]_vars => Quiet'
  BY QuietStep
<1>3. Spec => []OneWrite
  BY OneWriteAtATime
<1>4. Quiet => NeverTerminates
  BY DEF Quiet, NeverTerminates
<1> QED  BY <1>1, <1>2, <1>3, <1>4, TypeCorrect, PTL DEF Spec
===============================================================================
