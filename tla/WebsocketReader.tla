---------------------------- MODULE WebsocketReader ----------------------------
(***************************************************************************)
(* The receiving half of a WebsocketConnection: WebsocketFrameParser,      *)
(* which reads frames byte by byte, WebsocketFrameBuffer, which puts them  *)
(* together to messages, and the loop of handle_read() around them; and    *)
(* WebsocketFrame::serialize(), the sending half, as the peer that writes  *)
(* some of the frames.                                                     *)
(*                                                                         *)
(* A byte is a number.  The parser keeps all it knows between two reads,   *)
(* so how the bytes are cut into reads is not visible: one step is one     *)
(* byte, of whichever read.                                                *)
(***************************************************************************)
EXTENDS Integers, Sequences

CONSTANTS Frames,           \* what the peer may send, see Wire
          MaxFrames         \* bound: frames sent in a behaviour

Byte == 0 .. 255

\* The types of messages by the opcodes of their first frames.
TypeOf == [code \in {1, 2, 8, 9, 10} |->
             CASE code = 1 -> "text" [] code = 2 -> "binary" [] code = 8 -> "close"
               [] code = 9 -> "ping" [] code = 10 -> "pong"]

Layouts == {"short", "two", "eight", "serialize"}

\* A number without its n lowest bytes.
Shifted(number, n) ==
  LET shifted[i \in 0 .. n] == IF i = 0 THEN number ELSE shifted[i - 1] \div 256
  IN  shifted[n]

\* The form a peer chooses has room for the length.  A length of zero goes with
\* the short form, or with a mask.
FitsItsLayout(f) ==
  LET length == Len(f.content)
  IN  /\ f.layout = "short" => length < 126
      /\ f.layout = "two" => Shifted(length, 2) = 0
      /\ f.layout \in {"eight", "serialize"} => Shifted(length, 8) = 0
      /\ f.layout \in {"two", "eight"} => f.masked \/ length > 0

ASSUME FramesAssumption ==
  /\ MaxFrames \in Nat
  /\ Frames \subseteq [fin     : BOOLEAN,
                       rsv     : 0 .. 7,
                       opcode  : 0 .. 15,
                       content : Seq(Byte),
                       masked  : BOOLEAN,
                       key     : [1 .. 4 -> Byte],
                       layout  : Layouts]
  /\ \A f \in Frames : FitsItsLayout(f)

VARIABLES
  sent,                     \* history: the frames the peer sent
  inbox,                    \* bytes of them not read yet
  state_,                   \* state_, the numbered states of a field being one
  left,                     \* and this the bytes the field still needs
  frame_,                   \* frame_
  message_,                 \* message_
  parsed,                   \* history: the frames the parser completed
  delivered                 \* history: the messages handler_ was called with

readerVars == <<sent, inbox, state_, left, frame_, message_, parsed, delivered>>

ReaderInit ==
  /\ sent = <<>>
  /\ inbox = <<>>
  /\ state_ = "header_byte1"
  /\ left = 0
  /\ frame_ = [fin |-> FALSE, opcode |-> 0, masked |-> FALSE, length |-> 0,
               key |-> <<0, 0, 0, 0>>, content |-> <<>>]
  /\ message_ = [type |-> "unknown", content |-> <<>>]
  /\ parsed = <<>>
  /\ delivered = <<>>

-------------------------------------------------------------------------------
(* Bytes.                                                                  *)

\* The n lowest bytes of a number, the most significant first.
BigEndian(number, n) == [i \in 1 .. n |-> Shifted(number, n - i) % 256]

Xor(a, b) ==
  LET bit(w) == IF (a \div w) % 2 = (b \div w) % 2 THEN 0 ELSE w
  IN  bit(128) + bit(64) + bit(32) + bit(16) + bit(8) + bit(4) + bit(2) + bit(1)

Masked(content, key) ==
  [i \in DOMAIN content |-> Xor(content[i], key[((i - 1) % 4) + 1])]

FirstByte(f) == (IF f.fin THEN 128 ELSE 0) + 16 * f.rsv + f.opcode

\* Slip: a length of 126 is still written in the short form.
LengthFieldOffByOne(length) ==
  CASE length <= 126 -> <<length>>
    [] length >= 127 /\ length <= 65535 -> <<126>> \o BigEndian(length, 2)
    [] length > 65535 -> <<127>> \o BigEndian(length, 8)

\* The length in the shortest form there is for it.
LengthField(length) ==
  CASE length < 126 -> <<length>>
    [] length >= 126 /\ length <= 65535 -> <<126>> \o BigEndian(length, 2)
    [] length > 65535 -> <<127>> \o BigEndian(length, 8)

\* WebsocketFrame::serialize(), which never masks.
Serialize(f) ==
  <<FirstByte([f EXCEPT !.rsv = 0])>> \o LengthField(Len(f.content)) \o f.content

\* What the peer sends for a frame: in any of the three forms, masked or not,
\* or, where the peer is another such server, what serialize() makes of it.
Wire(f) ==
  LET length == Len(f.content)
      bit == IF f.masked THEN 128 ELSE 0
      tail == IF f.masked THEN f.key \o Masked(f.content, f.key) ELSE f.content
  IN  CASE f.layout = "serialize" -> Serialize(f)
        [] f.layout = "short" -> <<FirstByte(f), bit + length>> \o tail
        [] f.layout = "two"   -> <<FirstByte(f), bit + 126>> \o BigEndian(length, 2) \o tail
        [] f.layout = "eight" -> <<FirstByte(f), bit + 127>> \o BigEndian(length, 8) \o tail

\* The peer sends another frame.
Send(f) ==
  /\ Len(sent) < MaxFrames
  /\ sent' = Append(sent, f)
  /\ inbox' = inbox \o Wire(f)
  /\ UNCHANGED <<state_, left, frame_, message_, parsed, delivered>>

-------------------------------------------------------------------------------
(* WebsocketFrameBuffer::consume(), and what handle_read() does with its   *)
(* result: any value of it, true or false, calls the handler.              *)

\* Slip: a first frame does not replace the content that was there.
StartMessageAppends(f) ==
  [type |-> TypeOf[f.opcode], content |-> message_.content \o f.content]

\* The message a first frame starts.
StartMessage(f) == [type |-> TypeOf[f.opcode], content |-> f.content]

\* Slip: a message is delivered with each of its frames.
WhenFinalAlways(f, message) == Append(delivered, message)

\* Delivered with its final frame.
WhenFinal(f, message) == IF f.fin THEN Append(delivered, message) ELSE delivered

Buffer(f) ==
  \/ /\ f.opcode \in DOMAIN TypeOf
     /\ message_' = StartMessage(f)
     /\ delivered' = WhenFinal(f, message_')
  \/ /\ f.opcode = 0 /\ message_.type # "unknown"
     /\ message_' = [message_ EXCEPT !.content = @ \o f.content]
     /\ delivered' = WhenFinal(f, message_')
  \/ /\ f.opcode = 0 /\ message_.type = "unknown"
     /\ message_' = message_
     /\ delivered' = Append(delivered, message_')
  \/ /\ f.opcode \notin {0} \cup DOMAIN TypeOf
     /\ message_' = [message_ EXCEPT !.type = "unknown"]
     /\ delivered' = Append(delivered, message_')

-------------------------------------------------------------------------------
(* WebsocketFrameParser::consume(): one action for each kind of field.     *)

\* The frame is complete: handle_read() resets the parser and hands it on.
Complete(f) ==
  /\ frame_' = f
  /\ state_' = "header_byte1"
  /\ left' = 0
  /\ parsed' = Append(parsed, [fin |-> f.fin, opcode |-> f.opcode, content |-> f.content])
  /\ Buffer(f)

\* The parser goes on with the frame as far as it is, in another field.
GoOn(f, state, bytes) ==
  /\ frame_' = f
  /\ state_' = state
  /\ left' = bytes
  /\ UNCHANGED <<message_, parsed, delivered>>

\* Reserved bits are ignored.
HeaderByte1(b) ==
  /\ state_ = "header_byte1"
  /\ GoOn([frame_ EXCEPT !.fin = b \div 128 = 1, !.opcode = b % 16], "header_byte2", 0)

\* A length of 126 or 127 announces a length of two or eight bytes.
HeaderByte2(b) ==
  LET masked == b \div 128 = 1
      len == b % 128
      f == [frame_ EXCEPT !.masked = masked, !.length = len, !.content = <<>>]
  IN  /\ state_ = "header_byte2"
      /\ \/ len < 126 /\ masked /\ GoOn(f, "mask", 4)
         \/ len \in 1 .. 125 /\ ~masked /\ GoOn(f, "body", 0)
         \/ len = 0 /\ ~masked /\ Complete(f)
         \/ /\ len >= 126
            /\ GoOn([frame_ EXCEPT !.masked = masked, !.length = 0], "length",
                    IF len = 126 THEN 2 ELSE 8)

\* The length, byte by byte.  (The code puts each byte at its place in the
\* sum; putting it below the bytes read so far gives the same whole.)
LengthByte(b) ==
  LET f == [frame_ EXCEPT !.length = @ * 256 + b]
  IN  /\ state_ = "length"
      /\ \/ left > 1 /\ GoOn(f, "length", left - 1)
         \/ /\ left = 1
            /\ LET g == [f EXCEPT !.content = <<>>]
               IN  IF f.masked THEN GoOn(g, "mask", 4) ELSE GoOn(g, "body", 0)

MaskByte(b) ==
  LET f == [frame_ EXCEPT !.key[5 - left] = b]
  IN  /\ state_ = "mask"
      /\ \/ left > 1 /\ GoOn(f, "mask", left - 1)
         \/ left = 1 /\ frame_.length > 0 /\ GoOn(f, "body", 0)
         \/ left = 1 /\ frame_.length = 0 /\ Complete(f)

\* The first length bytes of the content, unmasked.
Unmasked(f) ==
  [i \in DOMAIN f.content |->
     IF f.masked /\ i <= f.length THEN Xor(f.content[i], f.key[((i - 1) % 4) + 1])
                                  ELSE f.content[i]]

BodyByte(b) ==
  LET f == [frame_ EXCEPT !.content = Append(@, b)]
  IN  /\ state_ = "body"
      /\ \/ Len(f.content) < f.length /\ GoOn(f, "body", 0)
         \/ Len(f.content) >= f.length /\ Complete([f EXCEPT !.content = Unmasked(f)])

ReadByte ==
  /\ inbox # <<>>
  /\ LET b == Head(inbox)
     IN  HeaderByte1(b) \/ HeaderByte2(b) \/ LengthByte(b) \/ MaskByte(b) \/ BodyByte(b)
  /\ inbox' = Tail(inbox)
  /\ UNCHANGED sent

ReaderNext == ReadByte \/ \E f \in Frames : Send(f)

ReaderSpec == ReaderInit /\ [][ReaderNext]_readerVars

-------------------------------------------------------------------------------

\* How many bytes the frames from the n-th on take.
BytesFrom(n) ==
  LET bytes[i \in n .. Len(sent) + 1] ==
        IF i > Len(sent) THEN 0 ELSE Len(Wire(sent[i])) + bytes[i + 1]
  IN  bytes[n]

\* Frame boundaries are never lost, whatever the forms of length and mask:
\* each frame sent is completed by its last byte, neither before nor after
\* it, with the content its sender gave it.  For serialize() it says that
\* what one server sends, another reads.
FramesArriveWhole ==
  LET n == Len(parsed)
  IN  /\ n <= Len(sent)
      /\ \A i \in 1 .. n : /\ parsed[i].fin = sent[i].fin
                           /\ parsed[i].opcode = sent[i].opcode
                           /\ parsed[i].content = sent[i].content
      /\ Len(inbox) <= BytesFrom(n + 1)
      /\ n < Len(sent) => Len(inbox) > BytesFrom(n + 2)

\* A message is a frame with an opcode, continued up to a final frame.
WellFragmented(frames) ==
  \A i \in DOMAIN frames :
    /\ frames[i].opcode \in {0} \cup DOMAIN TypeOf
    /\ frames[i].opcode = 0 <=> (i > 1 /\ ~frames[i - 1].fin)

Joined(frames) ==
  LET content[i \in 0 .. Len(frames)] ==
        IF i = 0 THEN <<>> ELSE content[i - 1] \o frames[i].content
  IN  content[Len(frames)]

\* Where the message starts that the n-th frame belongs to.
First(frames, n) ==
  CHOOSE i \in 1 .. n : /\ i > 1 => frames[i - 1].fin
                        /\ \A j \in i .. n - 1 : ~frames[j].fin

\* The message that the n-th frame belongs to, as far as that frame.
MessageUpTo(frames, n) ==
  [type    |-> TypeOf[frames[First(frames, n)].opcode],
   content |-> Joined(SubSeq(frames, First(frames, n), n))]

\* A final frame ends a message.
Ending(before, frames, n) ==
  IF frames[n].fin THEN Append(before, MessageUpTo(frames, n)) ELSE before

\* The messages of well-fragmented frames: one for each final frame, of the
\* frames after the final frame before it.
Messages(frames) ==
  LET messages[n \in 0 .. Len(frames)] ==
        IF n = 0 THEN <<>> ELSE Ending(messages[n - 1], frames, n)
  IN  messages[Len(frames)]

\* The handler sees the messages the peer sent, whole, once and in order, if
\* the peer does not put frames of others between the frames of one.
MessagesReassembled == WellFragmented(parsed) => delivered = Messages(parsed)

\* Whatever came before it - an unfinished message, a continuation of
\* nothing, an unknown opcode - a message of one frame is delivered as sent.
Resynchronises ==
  \A i \in DOMAIN parsed :
    (i = Len(parsed) /\ parsed[i].fin /\ parsed[i].opcode \in DOMAIN TypeOf) =>
      /\ delivered # <<>>
      /\ delivered[Len(delivered)] =
           [type |-> TypeOf[parsed[i].opcode], content |-> parsed[i].content]
===============================================================================
