---------------------------- MODULE PngStreamProofs ----------------------------
(***************************************************************************)
(* Proofs about PngStream, for every pool, every max_queue_size_, any      *)
(* number of images and any behaviour of the clock.                        *)
(*                                                                         *)
(* The stream is a user of the connection: its steps are steps of          *)
(* HttpConnection or leave it alone, so the theorems about HttpConnection  *)
(* hold of it.  That the blocks form a multipart reply needs an invariant  *)
(* that ties the number of blocks written to the place where the handler   *)
(* and the reception thread are.                                           *)
(***************************************************************************)
EXTENDS PngStream, HttpConnectionProofs, FiniteSetTheorems

-------------------------------------------------------------------------------
(* The stream's connection is an HttpConnection.                           *)

LEMMA StreamStepIsConnectionStep == [StreamNext]_streamVars => [Next]_vars
<1> SUFFICES ASSUME [StreamNext]_streamVars
             PROVE  [Next]_vars
  OBVIOUS
<1>1. CASE UNCHANGED streamVars
  BY <1>1 DEF streamVars
<1>2. CASE ConnectionStep
  BY <1>2 DEF ConnectionStep, Next, Step
<1>3. CASE StreamerStep
  <2>1. ASSUME NEW t \in Threads, SendInitialHeader(t), ~terminated
        PROVE  Next
    <3>1. ThreadWrite(t, stage) /\ stage \in Kinds
      BY <2>1, StreamAssumption DEF SendInitialHeader, NextStage
    <3> QED  BY <2>1, <3>1 DEF Next, Step
  <2>2. ASSUME NEW t \in Threads, NEW known \in BOOLEAN, Start(t, known), ~terminated
        PROVE  Next
    BY <2>2, StreamAssumption DEF Start, Next, Step
  <2>3. ASSUME NEW t \in Threads, HandlerReturn(t), ~terminated
        PROVE  Next
    BY <2>3 DEF HandlerReturn, Next, Step
  <2>4. CASE OnImageMsg \/ IsBusy
    BY <2>4 DEF OnImageMsg, IsBusy
  <2>5. CASE (SendPart \/ SendPartFooter) /\ ~terminated
    <3>1. PICK kind \in {"part", "data", "footer"} : AppWrite("transport", kind)
      BY <2>5 DEF SendPart, SendPartFooter, WritePart
    <3> QED  BY <2>5, <3>1, StreamAssumption DEF Next
  <2> QED  BY <1>3, <2>1, <2>2, <2>3, <2>4, <2>5 DEF StreamerStep
<1>4. CASE Tick \/ SetBack
  BY <1>4 DEF Tick, SetBack
<1> QED  BY <1>1, <1>2, <1>3, <1>4 DEF StreamNext

\* Whatever the streamer and the clock do, the connection below behaves as
\* HttpConnection says any user's connection does.
THEOREM StreamUsesConnection == StreamSpec => Spec
<1>1. StreamInit => Init
  BY DEF StreamInit
<1> QED  BY <1>1, StreamStepIsConnectionStep, PTL DEF StreamSpec, Spec

-------------------------------------------------------------------------------
(* Types, and the bound on pending_footers_.                               *)

FooterInv == StreamTypeOK /\ FooterQueueBounded /\ (tpc \in {"part", "data", "footer"}
  => MaxQueueSize = 0 \/ Len(pending_footers) < MaxQueueSize)

LEMMA FooterStep == TypeOK /\ FooterInv /\ [StreamNext]_streamVars => FooterInv'
<1> SUFFICES ASSUME TypeOK, FooterInv, [StreamNext]_streamVars
             PROVE  FooterInv'
  OBVIOUS
<1> USE DEF FooterInv, StreamTypeOK, FooterQueueBounded
<1>1. CASE UNCHANGED streamerVars
  BY <1>1 DEF streamerVars
<1>2. ASSUME NEW t \in Threads, SendInitialHeader(t)
      PROVE  FooterInv'
  BY <1>2 DEF SendInitialHeader, NextStage
<1>3. ASSUME NEW t \in Threads, NEW known \in BOOLEAN, Start(t, known)
      PROVE  FooterInv'
  BY <1>3 DEF Start
<1>4. CASE OnImageMsg
  BY <1>4 DEF OnImageMsg
<1>5. CASE IsBusy
  <2>1. PICK k \in 0 .. Len(pending_footers) :
          pending_footers' = SubSeq(pending_footers, k + 1, Len(pending_footers))
    BY <1>5 DEF IsBusy
  <2>2. /\ pending_footers' \in Seq(Nat)
        /\ Len(pending_footers') = Len(pending_footers) - k
        /\ Len(pending_footers) \in Nat
    <3>1. /\ Len(pending_footers) \in Nat
          /\ \A i \in k + 1 .. Len(pending_footers) : pending_footers[i] \in Nat
      BY LenProperties, ElementOfSeq
    <3> QED  BY <2>1, <3>1, SubSeqProperties
  <2> QED  BY <1>5, <2>2, StreamAssumption DEF IsBusy
<1>6. CASE SendPart
  BY <1>6 DEF SendPart, WritePart
<1>7. CASE SendPartFooter
  <2>1. Len(calls') \in Nat
    <3>1. PICK b : calls' = Append(calls, b)
      BY <1>7 DEF SendPartFooter, WritePart, AppWrite, DoWrite
    <3> QED  BY <3>1, LenProperties DEF TypeOK
  <2>2. /\ tpc = "footer"
        /\ tpc' = "idle"
        /\ inactive' \in BOOLEAN
        /\ UNCHANGED <<stage, subscribed, stamp_fresh>>
    BY <1>7 DEF SendPartFooter, WritePart
  <2>3. fresh' \in SUBSET Nat
    BY <1>7, <2>1 DEF SendPartFooter
  <2>4. /\ pending_footers' \in Seq(Nat)
        /\ MaxQueueSize # 0 => Len(pending_footers') <= MaxQueueSize
    <3>1. CASE pending_footers' = pending_footers
      BY <3>1
    <3>2. CASE /\ MaxQueueSize # 0
               /\ pending_footers' = Append(pending_footers, Len(calls'))
      <4>1. /\ pending_footers' \in Seq(Nat)
            /\ Len(pending_footers') = Len(pending_footers) + 1
        BY <2>1, <3>2, AppendProperties
      <4>2. Len(pending_footers) < MaxQueueSize /\ Len(pending_footers) \in Nat
        BY <2>2, <3>2, LenProperties
      <4> QED  BY <4>1, <4>2, StreamAssumption
    <3> QED  BY <1>7, <3>1, <3>2 DEF SendPartFooter
  <2> QED  BY <2>2, <2>3, <2>4
<1>8. CASE Tick
  BY <1>8 DEF Tick
<1>9. CASE SetBack
  <2>1. {pending_footers[i] : i \in DOMAIN pending_footers} \subseteq Nat
    BY LenProperties, ElementOfSeq
  <2>2. fresh' \in SUBSET Nat
    BY <1>9, <2>1 DEF SetBack
  <2> QED  BY <1>9, <2>2 DEF SetBack
<1> QED  BY <1>1, <1>2, <1>3, <1>4, <1>5, <1>6, <1>7, <1>8, <1>9
         DEF StreamNext, ConnectionStep, StreamerStep, HandlerReturn, streamVars

LEMMA FooterInit == StreamInit => FooterInv
<1> SUFFICES ASSUME StreamInit
             PROVE  FooterInv
  OBVIOUS
<1>1. pending_footers = <<>> /\ <<>> \in Seq(Nat) /\ Len(<<>>) = 0
  BY EmptySeq DEF StreamInit
<1>2. pending_footers \in Seq(Nat)
  BY <1>1, Zenon
<1>3. FooterQueueBounded
  BY <1>1, StreamAssumption DEF FooterQueueBounded
<1>4. subscribed \in BOOLEAN /\ inactive \in BOOLEAN /\ stamp_fresh \in BOOLEAN
  BY DEF StreamInit
<1>5. fresh \in SUBSET Nat /\ tpc = "idle" /\ stage = "status"
  BY DEF StreamInit
<1> QED  BY <1>2, <1>3, <1>4, <1>5 DEF FooterInv, StreamTypeOK

LEMMA FooterInvariant == StreamSpec => [](TypeOK /\ FooterInv)
<1>1. StreamSpec => []TypeOK
  BY StreamUsesConnection, TypeCorrect, PTL
<1> QED  BY <1>1, FooterInit, FooterStep, PTL DEF StreamSpec

\* The streamer's variables keep their types.
THEOREM StreamTypeCorrect == StreamSpec => []StreamTypeOK
BY FooterInvariant, PTL DEF FooterInv

\* isBusy() keeps pending_footers_ within max_queue_size_ whatever the clock,
\* the client and the images do.
THEOREM FooterQueueStaysBounded == StreamSpec => []FooterQueueBounded
BY FooterInvariant, PTL DEF FooterInv

\* With one io thread the server survives every stream.
THEOREM StreamNeverTerminates ==
  ASSUME \A s, t \in Threads : s = t
  PROVE  StreamSpec => []NeverTerminates
BY StreamUsesConnection, OneThreadNeverTerminates, StreamAssumption, PTL

-------------------------------------------------------------------------------
(* What isBusy() knows of the client.                                      *)

\* An empty queue holds no owners.
QueueOwners == pending_write_buffers = <<>> => pending_write_resources = {}

LEMMA QueueOwnersStep == TypeOK /\ QueueOwners /\ QueueStep => QueueOwners'
<1> SUFFICES ASSUME TypeOK, QueueOwners, QueueStep
             PROVE  QueueOwners'
  OBVIOUS
<1> USE DEF QueueOwners
<1>1. ASSUME NEW kind \in Kinds, DoWrite(kind)
      PROVE  QueueOwners'
  <2>1. PICK b : \/ pending_write_buffers' = Append(pending_write_buffers, b)
                 \/ pending_write_buffers' = <<>> /\ pending_write_resources' = {}
    BY <1>1 DEF DoWrite, WritePending
  <2>2. pending_write_buffers \in Seq(Block)
    BY DEF TypeOK
  <2>3. Append(pending_write_buffers, b) # <<>>
    BY <2>2
  <2> QED  BY <2>1, <2>3
<1>2. ASSUME NEW t \in Threads, HandleWriteOk(t)
      PROVE  QueueOwners'
  BY <1>2 DEF HandleWriteOk, CompleteWrite, WritePending
<1>3. CASE UNCHANGED <<pending_write_buffers, pending_write_resources>>
  BY <1>3
<1> QED  BY <1>1, <1>2, <1>3 DEF QueueStep, Transmit, HandleWriteError, queueVars

\* On an idle connection every footer has expired, so no stream is held back
\* once its client has taken everything.
THEOREM IdleStreamIsNotBusy == StreamSpec => []IdleIsNotBusy
<1>1. Init => QueueOwners
  BY DEF Init, QueueOwners
<1>2. TypeOK /\ QueueOwners /\ [Next]_vars => QueueOwners'
  BY StepIsQueueStep, QueueOwnersStep
<1>3. Spec => [](TypeOK /\ QueueInv /\ QueueOwners)
  BY <1>1, <1>2, Invariant, PTL DEF Spec
<1>4. TypeOK /\ QueueInv /\ QueueOwners /\ FooterInv => IdleIsNotBusy
  <2> SUFFICES ASSUME TypeOK, QueueInv, QueueOwners, FooterInv,
                      writes = {}, last_error = "none"
               PROVE  Pops(Len(pending_footers))
    BY DEF IdleIsNotBusy
  <2>1. pending_write_resources = {}
    BY DEF QueueInv, OneWrite, NoLostWakeup, QueueOwners
  <2>2. \A id : Expired(id)
    BY <2>1 DEF Expired
  <2>3. Len(pending_footers) \in Nat
    BY LenProperties DEF FooterInv, StreamTypeOK
  <2> QED  BY <2>2, <2>3 DEF Pops
<1> QED  BY <1>3, <1>4, StreamUsesConnection, FooterInvariant, PTL

\* The blocks the connection owns.
Owned == pending_write_resources \cup UNION {w.resources : w \in writes}

\* A footer isBusy() asks about was written, and those that have neither timed
\* out nor been sent are in the queue it keeps.
PacedInv ==
  MaxQueueSize # 0 =>
    /\ fresh \cup {pending_footers[i] : i \in DOMAIN pending_footers} \subseteq 1 .. Len(calls)
    /\ fresh \cap Owned \subseteq {pending_footers[i] : i \in DOMAIN pending_footers}

\* A step of the connection makes it own at most the block that is written.
LEMMA OwnsOnlyNew ==
  ASSUME TypeOK, [Next]_vars
  PROVE  /\ Len(calls) \in Nat
         /\ Len(calls') \in {Len(calls), Len(calls) + 1}
         /\ Owned' \subseteq Owned \cup {Len(calls) + 1}
         /\ Len(calls') = Len(calls) => Owned' \subseteq Owned
<1> USE DEF TypeOK
<1>1. Len(calls) \in Nat
  BY LenProperties
<1>2. ASSUME NEW kind \in Kinds, DoWrite(kind)
      PROVE  /\ Len(calls') = Len(calls) + 1
             /\ Owned' \subseteq Owned \cup {Len(calls) + 1}
  <2> DEFINE block == [id |-> Len(calls) + 1, kind |-> kind]
  <2>1. Len(calls') = Len(calls) + 1
    BY <1>2, WriteAppends
  <2>2. Resources(block) \subseteq {Len(calls) + 1}
    BY DEF Resources
  <2>3. \/ /\ pending_write_resources' = pending_write_resources \cup Resources(block)
           /\ writes' = writes
        \/ /\ pending_write_resources' = {}
           /\ \E w : /\ writes' = writes \cup {w}
                    /\ w.resources = pending_write_resources \cup Resources(block)
    <3> DEFINE buffers == Append(pending_write_buffers, block)
               resources == pending_write_resources \cup Resources(block)
               next == [op |-> Head(buffers).id, buffers |-> buffers,
                        resources |-> resources]
    <3>1. next.resources = resources
      OBVIOUS
    <3>2. \/ pending_write_resources' = resources /\ writes' = writes
          \/ pending_write_resources' = {} /\ writes' = writes \cup {next}
      BY <1>2 DEF DoWrite, WritePending
    <3> HIDE DEF next
    <3> QED  BY <3>1, <3>2
  <2> QED  BY <2>1, <2>2, <2>3 DEF Owned
<1>3. ASSUME NEW w \in writes, Transmit(w)
      PROVE  Owned' \subseteq Owned
  <2>1. [w EXCEPT !.buffers = Tail(@)].resources = w.resources
    BY DEF Write
  <2> QED  BY <1>3, <2>1 DEF Transmit, Owned
<1>4. ASSUME NEW t \in Threads, HandleWriteOk(t)
      PROVE  Owned' \subseteq Owned
  <2>1. PICK w \in writes : CompleteWrite(w)
    BY <1>4 DEF HandleWriteOk
  <2>2. \/ /\ pending_write_resources' = pending_write_resources
           /\ writes' = writes \ {w}
        \/ /\ pending_write_resources' = {}
           /\ \E next : /\ writes' = (writes \ {w}) \cup {next}
                       /\ next.resources = pending_write_resources
    <3> DEFINE next == [op |-> Head(pending_write_buffers).id,
                        buffers |-> pending_write_buffers,
                        resources |-> pending_write_resources]
    <3>1. next.resources = pending_write_resources
      OBVIOUS
    <3>2. \/ /\ pending_write_resources' = pending_write_resources
             /\ writes' = writes \ {w}
          \/ pending_write_resources' = {} /\ writes' = (writes \ {w}) \cup {next}
      BY <2>1 DEF CompleteWrite, WritePending
    <3> HIDE DEF next
    <3> QED  BY <3>1, <3>2
  <2> QED  BY <2>2 DEF Owned
<1>5. ASSUME NEW t \in Threads, HandleWriteError(t)
      PROVE  Owned' \subseteq Owned
  BY <1>5 DEF HandleWriteError, Owned
<1>6. CASE UNCHANGED queueVars
  BY <1>6 DEF queueVars, Owned
<1>7. CASE calls' = calls /\ Owned' \subseteq Owned
  BY <1>1, <1>7
<1>8. CASE \E kind \in Kinds : DoWrite(kind)
  BY <1>1, <1>2, <1>8
<1>9. \/ \E kind \in Kinds : DoWrite(kind)
      \/ calls' = calls /\ Owned' \subseteq Owned
  <2>1. QueueStep
    BY StepIsQueueStep
  <2>2. CASE \E w \in writes : Transmit(w)
    BY <1>3, <2>2 DEF Transmit
  <2>3. CASE \E t \in Threads : HandleWriteOk(t)
    BY <1>4, <2>3 DEF HandleWriteOk
  <2>4. CASE \E t \in Threads : HandleWriteError(t)
    BY <1>5, <2>4 DEF HandleWriteError
  <2>5. CASE UNCHANGED queueVars
    BY <1>6, <2>5 DEF queueVars
  <2> QED  BY <2>1, <2>2, <2>3, <2>4, <2>5 DEF QueueStep
<1> QED  BY <1>7, <1>8, <1>9

LEMMA PacedStep ==
  ASSUME TypeOK, FooterInv, PacedInv, [StreamNext]_streamVars
  PROVE  PacedInv'
<1> DEFINE kept == {pending_footers[i] : i \in DOMAIN pending_footers}
<1> SUFFICES ASSUME MaxQueueSize # 0
             PROVE  /\ (fresh \cup kept)' \subseteq 1 .. Len(calls')
                    /\ (fresh \cap Owned)' \subseteq kept'
  BY DEF PacedInv
<1>1. /\ fresh \cup kept \subseteq 1 .. Len(calls)
      /\ fresh \cap Owned \subseteq kept
  BY DEF PacedInv
<1>2. /\ Len(calls) \in Nat
      /\ Len(calls') \in {Len(calls), Len(calls) + 1}
      /\ Owned' \subseteq Owned \cup {Len(calls) + 1}
      /\ Len(calls') = Len(calls) => Owned' \subseteq Owned
  BY StreamStepIsConnectionStep, OwnsOnlyNew
<1>3. 1 .. Len(calls) \subseteq 1 .. Len(calls') /\ Len(calls) + 1 \notin 1 .. Len(calls)
  BY <1>2
<1>4. CASE UNCHANGED <<fresh, pending_footers>>
  BY <1>1, <1>2, <1>3, <1>4
<1>5. CASE IsBusy
  <2>1. PICK k \in 0 .. Len(pending_footers) :
          /\ Pops(k)
          /\ pending_footers' = SubSeq(pending_footers, k + 1, Len(pending_footers))
    BY <1>5 DEF IsBusy
  <2>2. UNCHANGED <<calls, fresh>> /\ Owned' = Owned
    BY <1>5 DEF IsBusy, vars, queueVars, Owned
  <2>3. /\ pending_footers \in Seq(Nat)
        /\ Len(pending_footers) \in Nat
        /\ DOMAIN pending_footers = 1 .. Len(pending_footers)
    BY LenProperties DEF FooterInv, StreamTypeOK
  <2>4. /\ DOMAIN pending_footers' = 1 .. Len(pending_footers) - k
        /\ \A i \in 1 .. Len(pending_footers) - k :
             pending_footers'[i] = pending_footers[k + i]
    BY <2>1, <2>3
  <2>5. kept' \subseteq kept
    <3>1. ASSUME NEW i \in 1 .. Len(pending_footers) - k
          PROVE  k + i \in 1 .. Len(pending_footers)
      BY <2>3
    <3> QED  BY <2>3, <2>4, <3>1
  <2>6. ASSUME NEW id \in fresh, id \in Owned
        PROVE  id \in kept'
    <3>1. PICK i \in 1 .. Len(pending_footers) : id = pending_footers[i]
      BY <1>1, <2>3, <2>6
    <3>2. ~Expired(id)
      BY <2>6 DEF Expired, Owned
    <3>3. ~(i \in 1 .. k)
      BY <2>1, <2>6, <3>1, <3>2 DEF Pops
    <3>4. i - k \in 1 .. Len(pending_footers) - k /\ k + (i - k) = i
      BY <2>3, <3>3
    <3> QED  BY <2>4, <3>1, <3>4
  <2> QED  BY <1>1, <2>2, <2>5, <2>6
<1>6. CASE SendPartFooter
  <2>1. tpc = "footer" /\ DoWrite("footer") /\ "footer" \in Kinds
    BY <1>6, StreamAssumption DEF SendPartFooter, WritePart, AppWrite
  <2>2. Len(calls') = Len(calls) + 1
    BY <2>1, WriteAppends
  <2>3. CASE UNCHANGED <<fresh, pending_footers>>
    BY <2>3, <1>4
  <2>4. CASE /\ pending_footers' = Append(pending_footers, Len(calls'))
             /\ fresh' \subseteq fresh \cup {Len(calls')}
    <3>1. /\ pending_footers \in Seq(Nat)
          /\ Len(pending_footers) \in Nat
          /\ DOMAIN pending_footers = 1 .. Len(pending_footers)
      BY LenProperties DEF FooterInv, StreamTypeOK
    <3>2. /\ DOMAIN pending_footers' = 1 .. Len(pending_footers) + 1
          /\ pending_footers'[Len(pending_footers) + 1] = Len(calls')
          /\ \A i \in 1 .. Len(pending_footers) : pending_footers'[i] = pending_footers[i]
      BY <1>2, <2>2, <2>4, <3>1
    <3>3. kept' = kept \cup {Len(calls')}
      BY <3>1, <3>2
    <3>4. Len(calls') \in 1 .. Len(calls')
      BY <1>2, <2>2
    <3>5. (fresh \cup kept)' \subseteq 1 .. Len(calls')
      BY <1>1, <1>3, <2>4, <3>3, <3>4
    <3>6. (fresh \cap Owned)' \subseteq kept'
      BY <1>1, <1>2, <2>2, <2>4, <3>3
    <3> QED  BY <3>5, <3>6
  <2> QED  BY <1>6, <2>3, <2>4 DEF SendPartFooter
<1>7. CASE Tick
  BY <1>1, <1>3, <1>7 DEF Tick
<1>8. CASE SetBack
  <2>1. /\ fresh' \subseteq fresh \cup kept
        /\ pending_footers' = pending_footers
        /\ calls' = calls
        /\ Owned' = Owned
    BY <1>8 DEF SetBack, vars, queueVars, Owned
  <2> QED  BY <1>1, <2>1
<1> QED  BY <1>4, <1>5, <1>6, <1>7, <1>8
         DEF StreamNext, ConnectionStep, StreamerStep, SendInitialHeader, Start,
             HandlerReturn, OnImageMsg, SendPart, streamVars, streamerVars

\* A queue of n footers has at most n of them.
LEMMA RangeOfQueue ==
  ASSUME NEW s \in Seq(Nat)
  PROVE  /\ IsFiniteSet({s[i] : i \in DOMAIN s})
         /\ Cardinality({s[i] : i \in DOMAIN s}) <= Len(s)
<1> DEFINE R == {s[i] : i \in DOMAIN s}
<1>1. Len(s) \in Nat /\ DOMAIN s = 1 .. Len(s)
  BY LenProperties
<1>2. s \in Surjection(1 .. Len(s), R)
  BY <1>1 DEF Surjection
<1>3. IsFiniteSet(1 .. Len(s)) /\ Cardinality(1 .. Len(s)) = Len(s)
  BY <1>1, FS_Interval
<1> HIDE DEF R
<1>4. IsFiniteSet(R) /\ Cardinality(R) <= Cardinality(1 .. Len(s))
  BY <1>2, <1>3, FS_Surjection
<1> QED  BY <1>3, <1>4 DEF R

\* The parts that are neither timed out nor sent never outnumber
\* max_queue_size_, for every size and any behaviour of client and clock.
THEOREM UnsentPartsArePaced == StreamSpec => []PacedWithinTick
<1>1. StreamInit => PacedInv
  BY DEF StreamInit, PacedInv
<1>2. TypeOK /\ FooterInv /\ PacedInv /\ [StreamNext]_streamVars => PacedInv'
  BY PacedStep
<1>3. FooterInv /\ PacedInv => PacedWithinTick
  <2> DEFINE unsent == {id \in fresh : ~Expired(id)}
             kept == {pending_footers[i] : i \in DOMAIN pending_footers}
  <2> SUFFICES ASSUME FooterInv, PacedInv, MaxQueueSize # 0
               PROVE  Cardinality(unsent) <= MaxQueueSize
    BY DEF PacedWithinTick
  <2>1. pending_footers \in Seq(Nat) /\ Len(pending_footers) <= MaxQueueSize
    BY DEF FooterInv, StreamTypeOK, FooterQueueBounded
  <2>2. unsent \in SUBSET kept
    BY DEF PacedInv, Expired, Owned
  <2>3. IsFiniteSet(kept) /\ Cardinality(kept) <= Len(pending_footers)
    BY <2>1, RangeOfQueue
  <2>4. Len(pending_footers) \in Nat
    BY <2>1, LenProperties
  <2> HIDE DEF unsent, kept
  <2>5. IsFiniteSet(unsent) /\ Cardinality(unsent) <= Cardinality(kept)
    BY <2>2, <2>3, FS_Subset
  <2>6. Cardinality(unsent) \in Nat /\ Cardinality(kept) \in Nat
    BY <2>3, <2>5, FS_CardinalityType
  <2> QED  BY <2>1, <2>3, <2>4, <2>5, <2>6, StreamAssumption
<1> QED  BY <1>1, <1>2, <1>3, FooterInvariant, PTL DEF StreamSpec

-------------------------------------------------------------------------------
(* The blocks form a multipart reply.                                      *)

Dispatched == {"complete", "invalid"}

\* How many blocks the handler has written when it is at a stage, and how
\* many blocks past whole parts the reception thread is.
HeaderBlocks == [status |-> 0, headers |-> 1, boundary |-> 2, start |-> 3]
PartBlocks == [idle |-> 0, stamped |-> 0, part |-> 0, data |-> 1, footer |-> 2]

\* One thread at a time runs code of the request, and where it is says how
\* many blocks there are.
HandlerShape ==
  /\ verdict = "unread" => /\ calls = <<>>
                           /\ stage = "status"
                           /\ ~subscribed
                           /\ \A t \in Threads : pc[t] = "idle"
  /\ reading = "request" => verdict = "unread"
  /\ reading # "more"
  /\ \A s, t \in Threads : pc[s] # "idle" /\ pc[t] # "idle" => s = t
  /\ \A t \in Threads : pc[t] # "callback"
  /\ \A t \in Threads : pc[t] = "reject" => verdict = "incomplete"
  /\ verdict = "incomplete" => ~subscribed
  /\ \A t \in Threads : pc[t] = "handler" =>
       /\ verdict \in Dispatched
       /\ stage # "done" => ~subscribed /\ Len(calls) = HeaderBlocks[stage]

\* The reception thread comes after the header, stops for good at a failure,
\* and otherwise knows its place in the part.
TransportShape ==
  /\ ~subscribed => tpc = "idle"
  /\ subscribed => stage = "done"
  /\ inactive => tpc = "idle" /\ stage = "done" /\ verdict \in Dispatched
  /\ subscribed /\ ~inactive =>
       Len(calls) >= 3 /\ Len(calls) % 3 = PartBlocks[tpc]

Shape == HandlerShape /\ TransportShape /\ WellFormedStream

\* A write of the right kind keeps the blocks in the form of the reply.
LEMMA NextBlock ==
  ASSUME TypeOK, NEW kind \in Kinds, DoWrite(kind),
         \A i \in DOMAIN calls : calls[i].kind = StreamKind(i),
         kind = StreamKind(Len(calls) + 1)
  PROVE  /\ \A i \in DOMAIN calls' : calls'[i].kind = StreamKind(i)
         /\ Len(calls') = Len(calls) + 1
         /\ Len(calls) \in Nat
<1>1. /\ Len(calls') = Len(calls) + 1
      /\ \A i \in 1 .. Len(calls) : calls'[i] = calls[i]
      /\ calls'[Len(calls) + 1].kind = kind
      /\ DOMAIN calls' = 1 .. Len(calls') /\ DOMAIN calls = 1 .. Len(calls)
      /\ Len(calls) \in Nat
  BY WriteAppends
<1>2. ASSUME NEW i \in 1 .. Len(calls) + 1
      PROVE  calls'[i].kind = StreamKind(i)
  <2>1. CASE i \in 1 .. Len(calls)
    BY <1>1, <2>1
  <2>2. CASE i = Len(calls) + 1
    BY <1>1, <2>2
  <2> QED  BY <1>1, <2>1, <2>2
<1> QED  BY <1>1, <1>2

\* The kind of the block that is due in the header, and in a part.
LEMMA DueInHeader ==
  ASSUME NEW n \in Nat, NEW s \in DOMAIN NextStage, n = HeaderBlocks[s]
  PROVE  /\ StreamKind(n + 1) = s
         /\ HeaderBlocks[NextStage[s]] = n + 1
BY DEF StreamKind, HeaderBlocks, NextStage

LEMMA DueInPart ==
  ASSUME NEW n \in Nat, n >= 3, NEW p \in {"part", "data", "footer"},
         n % 3 = PartBlocks[p]
  PROVE  /\ StreamKind(n + 1) = p
         /\ (n + 1) % 3 = (PartBlocks[p] + 1) % 3
<1>1. n + 1 > 3 /\ StreamKind(n + 1) = <<"part", "data", "footer">>[((n - 3) % 3) + 1]
  BY DEF StreamKind
<1>2. (n - 3) % 3 = n % 3 /\ (n + 1) % 3 = ((n % 3) + 1) % 3
  OBVIOUS
<1> QED  BY <1>1, <1>2 DEF PartBlocks

LEMMA HandlerKeepsShape ==
  ASSUME TypeOK, StreamTypeOK, Shape, NEW t \in Threads,
         \/ SendInitialHeader(t)
         \/ \E known \in BOOLEAN : Start(t, known)
         \/ HandlerReturn(t)
  PROVE  Shape'
<1> USE DEF Shape, HandlerShape, TransportShape, WellFormedStream, TypeOK,
            StreamTypeOK, Dispatched
<1>1. CASE SendInitialHeader(t)
  <2>1. /\ pc[t] = "handler"
        /\ stage \in DOMAIN NextStage
        /\ stage' = NextStage[stage]
        /\ DoWrite(stage)
        /\ pc' \in {pc, [pc EXCEPT ![t] = "idle"]}
        /\ UNCHANGED <<readVars, subscribed, inactive, tpc>>
    BY <1>1 DEF SendInitialHeader, ThreadWrite, Throw
  <2>2. /\ verdict \in Dispatched
        /\ stage # "done"
        /\ ~subscribed
        /\ Len(calls) = HeaderBlocks[stage]
    BY <2>1 DEF NextStage
  <2>3. stage \in Kinds
    BY <2>1, StreamAssumption DEF NextStage
  <2>4. Len(calls) \in Nat
    BY LenProperties
  <2>5. StreamKind(Len(calls) + 1) = stage /\ HeaderBlocks[stage'] = Len(calls) + 1
    BY <2>1, <2>2, <2>4, DueInHeader
  <2>6. /\ \A i \in DOMAIN calls' : calls'[i].kind = StreamKind(i)
        /\ Len(calls') = Len(calls) + 1
    BY <2>1, <2>2, <2>3, <2>5, NextBlock
  <2>7. WellFormedStream'
    BY <2>6
  <2>8. HandlerShape'
    BY <2>1, <2>2, <2>5, <2>6 DEF readVars
  <2>9. TransportShape'
    BY <2>1, <2>2 DEF readVars
  <2> QED  BY <2>7, <2>8, <2>9
<1>2. ASSUME NEW known \in BOOLEAN, Start(t, known)
      PROVE  Shape'
  <2>1. /\ pc[t] = "handler"
        /\ stage = "start" /\ stage' = "done"
        /\ subscribed' = known /\ inactive' = ~known
        /\ UNCHANGED <<calls, pc, readVars, tpc>>
    BY <1>2 DEF Start, Retain, queueVars
  <2>2. Len(calls) = 3 /\ tpc = "idle" /\ verdict \in Dispatched
    BY <2>1 DEF HeaderBlocks
  <2>3. 3 % 3 = 0
    OBVIOUS
  <2>4. TransportShape'
    BY <2>1, <2>2, <2>3 DEF PartBlocks, readVars
  <2>5. HandlerShape'
    BY <2>1, <2>2 DEF readVars
  <2> QED  BY <2>1, <2>4, <2>5 DEF readVars
<1>3. CASE HandlerReturn(t)
  <2>1. /\ pc' = [pc EXCEPT ![t] = "idle"]
        /\ UNCHANGED <<calls, readVars, streamerVars>>
    BY <1>3 DEF HandlerReturn, Return, queueVars
  <2> QED  BY <2>1 DEF readVars, streamerVars
<1> QED  BY <1>1, <1>2, <1>3

LEMMA TransportKeepsShape ==
  ASSUME TypeOK, StreamTypeOK, Shape,
         OnImageMsg \/ IsBusy \/ SendPart \/ SendPartFooter
  PROVE  Shape'
<1> USE DEF Shape, HandlerShape, TransportShape, WellFormedStream, TypeOK,
            StreamTypeOK, Dispatched
<1>1. CASE OnImageMsg
  BY <1>1 DEF OnImageMsg, vars, queueVars, readVars, PartBlocks
<1>2. CASE IsBusy
  BY <1>2 DEF IsBusy, vars, queueVars, readVars, PartBlocks
<1>3. ASSUME NEW kind \in {"part", "data", "footer"}, NEW next,
             WritePart(kind, next),
             next = [part |-> "data", data |-> "footer", footer |-> "idle"][kind]
      PROVE  Shape'
  <2>1. /\ tpc = kind
        /\ DoWrite(kind)
        /\ \/ inactive' = TRUE /\ tpc' = "idle"
           \/ inactive' = inactive /\ tpc' = next
        /\ UNCHANGED <<readVars, pc, stage, subscribed>>
    BY <1>3 DEF WritePart, AppWrite
  <2>2. subscribed /\ ~inactive /\ stage = "done" /\ verdict \in Dispatched
    BY <2>1
  <2>3. Len(calls) >= 3 /\ Len(calls) % 3 = PartBlocks[kind] /\ Len(calls) \in Nat
    BY <2>1, <2>2, LenProperties
  <2>4. /\ StreamKind(Len(calls) + 1) = kind
        /\ (Len(calls) + 1) % 3 = (PartBlocks[kind] + 1) % 3
    BY <2>3, DueInPart
  <2>5. kind \in Kinds
    BY StreamAssumption
  <2>6. /\ \A i \in DOMAIN calls' : calls'[i].kind = StreamKind(i)
        /\ Len(calls') = Len(calls) + 1
    BY <2>1, <2>2, <2>4, <2>5, NextBlock
  <2>7. WellFormedStream'
    BY <2>6
  <2>8. (PartBlocks[kind] + 1) % 3 = PartBlocks[next]
    BY <1>3 DEF PartBlocks
  <2>9. TransportShape'
    BY <2>1, <2>2, <2>3, <2>4, <2>6, <2>8 DEF readVars
  <2>10. HandlerShape'
    BY <2>1, <2>2 DEF readVars
  <2> QED  BY <2>7, <2>9, <2>10
<1>4. CASE SendPart
  BY <1>3, <1>4 DEF SendPart
<1>5. CASE SendPartFooter
  BY <1>3, <1>5 DEF SendPartFooter
<1> QED  BY <1>1, <1>2, <1>4, <1>5

LEMMA ConnectionKeepsShape ==
  ASSUME TypeOK, StreamTypeOK, Shape, ConnectionStep
  PROVE  Shape'
<1> USE DEF Shape, HandlerShape, TransportShape, WellFormedStream, TypeOK,
            StreamTypeOK, Dispatched
<1>1. UNCHANGED streamerVars
  BY DEF ConnectionStep
<1>2. CASE UNCHANGED <<calls, readVars, pc>>
  BY <1>1, <1>2 DEF readVars, streamerVars
<1>3. CASE ReadError
  BY <1>1, <1>3 DEF ReadError, streamerVars, queueVars
<1>4. ASSUME NEW t \in Threads, NEW v \in {"complete", "invalid", "incomplete"},
             HandleRead(t, v)
      PROVE  Shape'
  <2>1. /\ verdict = "unread" /\ verdict' = v /\ reading' = "none"
        /\ calls = <<>> /\ calls' = <<>>
        /\ \A s \in Threads : s # t => pc'[s] = "idle"
        /\ pc'[t] = IF v = "incomplete" THEN "reject" ELSE "handler"
    BY <1>4 DEF HandleRead, queueVars
  <2>2. Len(calls') = 0 /\ DOMAIN calls' = {}
    BY <2>1
  <2>3. stage' = "status" /\ ~subscribed' /\ ~inactive' /\ tpc' = "idle"
    BY <1>1, <2>1 DEF streamerVars
  <2> QED  BY <2>1, <2>2, <2>3 DEF HeaderBlocks
<1>5. ASSUME NEW t \in Threads, RejectWrite(t)
      PROVE  Shape'
  <2>1. /\ verdict = "incomplete"
        /\ pc' \in {pc, [pc EXCEPT ![t] = "idle"]}
        /\ UNCHANGED readVars
    BY <1>5 DEF RejectWrite, Throw
  <2>2. ~subscribed /\ tpc = "idle" /\ \A s \in Threads : pc[s] # "handler"
    BY <2>1
  <2> QED  BY <1>1, <2>1, <2>2 DEF readVars, streamerVars
<1> QED  BY <1>2, <1>3, <1>4, <1>5
         DEF ConnectionStep, Transmit, HandleWriteOk, HandleWriteError

LEMMA ShapeInvariant == StreamSpec => [](TypeOK /\ StreamTypeOK /\ Shape)
<1>1. StreamInit => Shape
  BY StreamAssumption
     DEF StreamInit, Init, Shape, HandlerShape, TransportShape, WellFormedStream
<1>2. TypeOK /\ StreamTypeOK /\ Shape /\ [StreamNext]_streamVars => Shape'
  <2>1. ASSUME Shape, UNCHANGED <<calls, readVars, pc, stage, subscribed,
                                  inactive, tpc>>
        PROVE  Shape'
    BY <2>1 DEF Shape, HandlerShape, TransportShape, WellFormedStream, readVars
  <2>2. Tick \/ SetBack \/ UNCHANGED streamVars
          => UNCHANGED <<calls, readVars, pc, stage, subscribed, inactive, tpc>>
    BY DEF Tick, SetBack, streamVars, streamerVars, vars, queueVars, readVars
  <2> QED  BY <2>1, <2>2, HandlerKeepsShape, TransportKeepsShape,
              ConnectionKeepsShape DEF StreamNext, StreamerStep
<1> QED  BY <1>1, <1>2, FooterInvariant, PTL DEF StreamSpec, FooterInv

\* The client never receives anything but a multipart reply, or the start of
\* one, however the handler, the reception thread and failures interleave.
THEOREM StreamIsWellFormed == StreamSpec => []WellFormedStream
<1>1. Shape => WellFormedStream
  BY DEF Shape
<1> QED  BY <1>1, ShapeInvariant, PTL

\* A streamer that gave up is past its header and in no image, and nobody else
\* writes to its connection.
THEOREM InactiveIsSilent == StreamSpec => SilentWhenInactive
<1>1. ASSUME Shape, [StreamNext]_streamVars, inactive
      PROVE  calls' = calls
  <2>1. tpc = "idle" /\ stage = "done" /\ \A t \in Threads : pc[t] # "reject"
    BY <1>1 DEF Shape, HandlerShape, TransportShape, Dispatched
  <2>2. CASE ConnectionStep
    BY <2>1, <2>2 DEF ConnectionStep, Transmit, ReadError, HandleWriteOk,
                      HandleWriteError, HandleRead, RejectWrite, queueVars
  <2>3. CASE StreamerStep
    <3>1. ~IsBusy /\ ~SendPart /\ ~SendPartFooter /\ ~OnImageMsg
      BY <1>1, <2>1 DEF IsBusy, SendPart, SendPartFooter, WritePart, OnImageMsg
    <3>2. ASSUME NEW t \in Threads
          PROVE  ~SendInitialHeader(t) /\ \A known \in BOOLEAN : ~Start(t, known)
      BY <2>1 DEF SendInitialHeader, Start, NextStage
    <3>3. PICK t \in Threads : HandlerReturn(t)
      BY <2>3, <3>1, <3>2 DEF StreamerStep
    <3> QED  BY <3>3 DEF HandlerReturn, Return, queueVars
  <2>4. CASE Tick \/ SetBack \/ UNCHANGED streamVars
    BY <2>4 DEF Tick, SetBack, streamVars, vars, queueVars
  <2> QED  BY <1>1, <2>2, <2>3, <2>4 DEF StreamNext
<1>2. Shape /\ [StreamNext]_streamVars => [inactive => calls' = calls]_streamVars
  BY <1>1
<1> QED  BY <1>2, ShapeInvariant, PTL DEF StreamSpec, SilentWhenInactive
================================================================================
