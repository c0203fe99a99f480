------------------------ MODULE WebsocketReaderProofs -------------------------
(***************************************************************************)
(* Proofs about WebsocketReader, for every set of frames and any number of *)
(* them: the parser keeps the boundaries and the contents of frames.       *)
(***************************************************************************)
EXTENDS WebsocketReader, SequenceTheorems, WellFoundedInduction, TLAPS

-------------------------------------------------------------------------------
(* Induction, from the library's well-foundedness of the naturals.         *)

\* A set of naturals that is not empty has a least element.
LEMMA LeastNatural ==
  ASSUME NEW T, T \subseteq Nat, T # {}
  PROVE  \E n \in T : \A m \in T : n <= m
<1> DEFINE R == OpToRel(<, Nat)
<1>1. IsWellFoundedOn(R, Nat)
  BY NatLessThanWellFounded
<1>2. \A x, y \in Nat : x < y => <<x, y>> \in R
  BY DEF OpToRel
<1> HIDE DEF R
<1>3. PICK n \in T : \A y \in T : <<y, n>> \notin R
  BY <1>1, WFMin
<1>4. \A m \in T : ~(m < n)
  BY <1>2, <1>3
<1>5. \A m \in T : m \in Nat /\ n \in Nat
  OBVIOUS
<1>6. \A m \in T : n <= m
  BY <1>4, <1>5
<1>7. QED
  BY <1>6

\* A set with zero and the successor of each of its naturals has them all.
LEMMA Induction ==
  ASSUME NEW T, 0 \in T, \A n \in Nat : n \in T => n + 1 \in T
  PROVE  \A n \in Nat : n \in T
<1> SUFFICES ASSUME Nat \ T # {} PROVE FALSE
  OBVIOUS
<1>1. PICK n \in Nat \ T : \A m \in Nat \ T : n <= m
  BY LeastNatural
<1>2. n # 0 /\ n - 1 \in Nat /\ n - 1 \in T
  BY <1>1
<1>3. QED
  BY <1>1, <1>2

-------------------------------------------------------------------------------
(* Numbers in bytes.                                                       *)

\* The functions behind Shifted are what their recursive definition says.
ShiftedBy(g, number, n) ==
  g = [i \in 0 .. n |-> IF i = 0 THEN number ELSE g[i - 1] \div 256]

\* The function that Shifted is defined by exists.
LEMMA ShiftedByExists ==
  ASSUME NEW number
  PROVE  \A n \in Nat : \E g : ShiftedBy(g, number, n)
<1> DEFINE T == {n \in Nat : \E g : ShiftedBy(g, number, n)}
<1>1. 0 \in T
  <2>1. ShiftedBy([i \in 0 .. 0 |-> number], number, 0)
    BY DEF ShiftedBy
  <2>2. QED
    BY <2>1
<1>2. ASSUME NEW n \in Nat, n \in T
      PROVE  n + 1 \in T
  <2>1. PICK g : ShiftedBy(g, number, n)
    BY <1>2
  <2> DEFINE h == [i \in 0 .. n + 1 |-> IF i <= n THEN g[i] ELSE g[n] \div 256]
  <2>2. \A i \in 0 .. n : g[i] = IF i = 0 THEN number ELSE g[i - 1] \div 256
    BY <2>1 DEF ShiftedBy
  <2>3. \A i \in 0 .. n + 1 : h[i] = IF i = 0 THEN number ELSE h[i - 1] \div 256
    BY <2>2
  <2>4. ShiftedBy(h, number, n + 1)
    BY <2>3 DEF ShiftedBy
  <2>5. QED
    BY <2>4
<1> HIDE DEF T
<1>3. \A n \in Nat : n \in T
  BY <1>1, <1>2, Induction
<1>4. QED
  BY <1>3 DEF T

\* Shifted is the value of that function at its last index.
LEMMA ShiftedIs ==
  ASSUME NEW number, NEW n \in Nat
  PROVE  \E g : ShiftedBy(g, number, n) /\ Shifted(number, n) = g[n]
<1> DEFINE g == CHOOSE g : ShiftedBy(g, number, n)
<1>1. ShiftedBy(g, number, n)
  BY ShiftedByExists
<1>2. Shifted(number, n) = g[n]
  BY DEF Shifted, ShiftedBy
<1>3. QED
  BY <1>1, <1>2

\* One byte less at a time.
LEMMA ShiftedStep ==
  ASSUME NEW number \in Nat
  PROVE  /\ Shifted(number, 0) = number
         /\ \A n \in Nat : /\ Shifted(number, n) \in Nat
                           /\ Shifted(number, n + 1) = Shifted(number, n) \div 256
<1>1. ASSUME NEW n \in Nat, NEW g, NEW h,
             ShiftedBy(g, number, n), ShiftedBy(h, number, n + 1)
      PROVE  \A i \in 0 .. n : g[i] = h[i] /\ g[i] \in Nat
  <2> DEFINE T == {i \in Nat : i <= n => g[i] = h[i] /\ g[i] \in Nat}
  <2>1. \A i \in 0 .. n : /\ g[i] = IF i = 0 THEN number ELSE g[i - 1] \div 256
                          /\ h[i] = IF i = 0 THEN number ELSE h[i - 1] \div 256
    BY <1>1 DEF ShiftedBy
  <2>2. 0 \in T
    BY <2>1
  <2>3. ASSUME NEW i \in Nat, i \in T
        PROVE  i + 1 \in T
    BY <2>1, <2>3
  <2> HIDE DEF T
  <2>4. \A i \in Nat : i \in T
    BY <2>2, <2>3, Induction
  <2>5. QED
    BY <2>4 DEF T
<1>2. Shifted(number, 0) = number
  BY ShiftedIs DEF ShiftedBy
<1>3. ASSUME NEW n \in Nat
      PROVE  /\ Shifted(number, n) \in Nat
             /\ Shifted(number, n + 1) = Shifted(number, n) \div 256
  <2>1. PICK g : ShiftedBy(g, number, n) /\ Shifted(number, n) = g[n]
    BY ShiftedIs
  <2>2. PICK h : ShiftedBy(h, number, n + 1) /\ Shifted(number, n + 1) = h[n + 1]
    BY ShiftedIs
  <2>3. g[n] = h[n] /\ g[n] \in Nat
    BY <1>1, <2>1, <2>2
  <2>4. h[n + 1] = h[n] \div 256
    BY <2>2 DEF ShiftedBy
  <2>5. QED
    BY <2>1, <2>2, <2>3, <2>4
<1>4. QED
  BY <1>2, <1>3

\* A number is twice its half and a bit.
LEMMA Halve ==
  ASSUME NEW a \in Nat
  PROVE  \E h \in Nat, b \in {0, 1} : a = 2 * h + b
<1>1. a \div 2 \in Nat /\ a % 2 \in 0 .. 1
  OBVIOUS
<1>2. a = 2 * (a \div 2) + (a % 2)
  OBVIOUS
<1>3. QED
  BY <1>1, <1>2

\* A byte is its bits.
LEMMA Bits ==
  ASSUME NEW a \in Byte
  PROVE  \E a7, a6, a5, a4, a3, a2, a1, a0 \in {0, 1} :
           a = 128 * a7 + 64 * a6 + 32 * a5 + 16 * a4 + 8 * a3 + 4 * a2 + 2 * a1 + a0
<1>0. a \in Nat /\ a < 256
  BY DEF Byte
<1>1. PICK h0 \in Nat, a0 \in {0, 1} : a = 2 * h0 + a0
  BY <1>0, Halve
<1>2. PICK h1 \in Nat, a1 \in {0, 1} : h0 = 2 * h1 + a1
  BY Halve
<1>3. PICK h2 \in Nat, a2 \in {0, 1} : h1 = 2 * h2 + a2
  BY Halve
<1>4. PICK h3 \in Nat, a3 \in {0, 1} : h2 = 2 * h3 + a3
  BY Halve
<1>5. PICK h4 \in Nat, a4 \in {0, 1} : h3 = 2 * h4 + a4
  BY Halve
<1>6. PICK h5 \in Nat, a5 \in {0, 1} : h4 = 2 * h5 + a5
  BY Halve
<1>7. PICK h6 \in Nat, a6 \in {0, 1} : h5 = 2 * h6 + a6
  BY Halve
<1>8. h6 \in {0, 1}
  BY <1>0, <1>1, <1>2, <1>3, <1>4, <1>5, <1>6, <1>7
<1>9. a = 128 * h6 + 64 * a6 + 32 * a5 + 16 * a4 + 8 * a3 + 4 * a2 + 2 * a1 + a0
  BY <1>1, <1>2, <1>3, <1>4, <1>5, <1>6, <1>7
<1>10. QED
  BY <1>8, <1>9

\* The digits of a byte by the divisions of Xor.
LEMMA BitOf ==
  ASSUME NEW a7 \in {0, 1}, NEW a6 \in {0, 1}, NEW a5 \in {0, 1}, NEW a4 \in {0, 1},
         NEW a3 \in {0, 1}, NEW a2 \in {0, 1}, NEW a1 \in {0, 1}, NEW a0 \in {0, 1},
         NEW a,
         a = 128 * a7 + 64 * a6 + 32 * a5 + 16 * a4 + 8 * a3 + 4 * a2 + 2 * a1 + a0
  PROVE  /\ a \in Byte
         /\ (a \div 128) % 2 = a7 /\ (a \div 64) % 2 = a6
         /\ (a \div 32) % 2 = a5 /\ (a \div 16) % 2 = a4
         /\ (a \div 8) % 2 = a3 /\ (a \div 4) % 2 = a2
         /\ (a \div 2) % 2 = a1 /\ (a \div 1) % 2 = a0
<1>1. a \in Byte
  BY DEF Byte
<1>2. (a \div 128) % 2 = a7
  BY SMT
<1>3. (a \div 64) % 2 = a6
  BY SMT
<1>4. (a \div 32) % 2 = a5
  BY SMT
<1>5. (a \div 16) % 2 = a4
  BY SMT
<1>6. (a \div 8) % 2 = a3
  BY SMT
<1>7. (a \div 4) % 2 = a2
  BY SMT
<1>8. (a \div 2) % 2 = a1
  BY SMT
<1>9. (a \div 1) % 2 = a0
  BY SMT
<1>10. QED
  BY <1>1, <1>2, <1>3, <1>4, <1>5, <1>6, <1>7, <1>8, <1>9

\* Masking twice with the same byte is not masking.
LEMMA XorTwice ==
  ASSUME NEW a \in Byte, NEW b \in Byte
  PROVE  Xor(a, b) \in Byte /\ Xor(Xor(a, b), b) = a
<1> DEFINE x(i, j) == IF i = j THEN 0 ELSE 1
<1>1. PICK a7, a6, a5, a4, a3, a2, a1, a0 \in {0, 1} :
        a = 128 * a7 + 64 * a6 + 32 * a5 + 16 * a4 + 8 * a3 + 4 * a2 + 2 * a1 + a0
  BY Bits
<1>2. PICK b7, b6, b5, b4, b3, b2, b1, b0 \in {0, 1} :
        b = 128 * b7 + 64 * b6 + 32 * b5 + 16 * b4 + 8 * b3 + 4 * b2 + 2 * b1 + b0
  BY Bits
<1>3. Xor(a, b) = 128 * x(a7, b7) + 64 * x(a6, b6) + 32 * x(a5, b5) + 16 * x(a4, b4)
                    + 8 * x(a3, b3) + 4 * x(a2, b2) + 2 * x(a1, b1) + x(a0, b0)
  <2>1. /\ (a \div 128) % 2 = a7 /\ (a \div 64) % 2 = a6
        /\ (a \div 32) % 2 = a5 /\ (a \div 16) % 2 = a4
        /\ (a \div 8) % 2 = a3 /\ (a \div 4) % 2 = a2
        /\ (a \div 2) % 2 = a1 /\ (a \div 1) % 2 = a0
    BY <1>1, BitOf
  <2>2. /\ (b \div 128) % 2 = b7 /\ (b \div 64) % 2 = b6
        /\ (b \div 32) % 2 = b5 /\ (b \div 16) % 2 = b4
        /\ (b \div 8) % 2 = b3 /\ (b \div 4) % 2 = b2
        /\ (b \div 2) % 2 = b1 /\ (b \div 1) % 2 = b0
    BY <1>2, BitOf
  <2>3. QED
    BY <2>1, <2>2 DEF Xor
<1> DEFINE c == Xor(a, b)
<1>4. /\ c \in Byte
      /\ (c \div 128) % 2 = x(a7, b7) /\ (c \div 64) % 2 = x(a6, b6)
      /\ (c \div 32) % 2 = x(a5, b5) /\ (c \div 16) % 2 = x(a4, b4)
      /\ (c \div 8) % 2 = x(a3, b3) /\ (c \div 4) % 2 = x(a2, b2)
      /\ (c \div 2) % 2 = x(a1, b1) /\ (c \div 1) % 2 = x(a0, b0)
  <2> HIDE DEF c
  <2>1. \A i, j : x(i, j) \in {0, 1}
    OBVIOUS
  <2> HIDE DEF x
  <2>2. QED
    BY <1>3, <2>1, BitOf DEF c
<1>5. Xor(c, b) = a
  <2>1. /\ (b \div 128) % 2 = b7 /\ (b \div 64) % 2 = b6
        /\ (b \div 32) % 2 = b5 /\ (b \div 16) % 2 = b4
        /\ (b \div 8) % 2 = b3 /\ (b \div 4) % 2 = b2
        /\ (b \div 2) % 2 = b1 /\ (b \div 1) % 2 = b0
    BY <1>2, BitOf
  <2> HIDE DEF c
  <2>2. Xor(c, b) = 128 * x(x(a7, b7), b7) + 64 * x(x(a6, b6), b6)
                      + 32 * x(x(a5, b5), b5) + 16 * x(x(a4, b4), b4)
                      + 8 * x(x(a3, b3), b3) + 4 * x(x(a2, b2), b2)
                      + 2 * x(x(a1, b1), b1) + x(x(a0, b0), b0)
    BY <1>4, <2>1 DEF Xor
  <2>3. \A i, j \in {0, 1} : x(x(i, j), j) = i
    OBVIOUS
  <2> HIDE DEF x
  <2>4. QED
    BY <1>1, <2>2, <2>3
<1>6. QED
  BY <1>4, <1>5

-------------------------------------------------------------------------------
(* The bytes of a frame by their places.                                   *)

IsMasked(f) == f.masked /\ f.layout # "serialize"

\* How many bytes the length takes behind the second byte.
Width(f) ==
  LET length == Len(f.content)
      shortest == IF length < 126 THEN 0 ELSE IF length <= 65535 THEN 2 ELSE 8
  IN  IF f.layout = "short" THEN 0
      ELSE IF f.layout = "two" THEN 2 ELSE IF f.layout = "eight" THEN 8 ELSE shortest

LengthCode(f) ==
  IF Width(f) = 0 THEN Len(f.content) ELSE IF Width(f) = 2 THEN 126 ELSE 127

SecondByte(f) == (IF IsMasked(f) THEN 128 ELSE 0) + LengthCode(f)

Extended(f) == BigEndian(Len(f.content), Width(f))

Key(f) == IF IsMasked(f) THEN f.key ELSE <<>>

Payload(f) == IF IsMasked(f) THEN Masked(f.content, f.key) ELSE f.content

KeyPlace(f) == 2 + Width(f)
BodyPlace(f) == 2 + Width(f) + Len(Key(f))

\* What the assumption on the frames says of one.
LEMMA FrameType ==
  ASSUME NEW f \in Frames
  PROVE  /\ f.fin \in BOOLEAN /\ f.rsv \in 0 .. 7 /\ f.opcode \in 0 .. 15
         /\ f.masked \in BOOLEAN /\ f.key \in [1 .. 4 -> Byte] /\ f.layout \in Layouts
         /\ f.content \in Seq(Byte) /\ Len(f.content) \in Nat
         /\ f.content \in [1 .. Len(f.content) -> Byte]
         /\ DOMAIN f.content = 1 .. Len(f.content)
         /\ FitsItsLayout(f)
         /\ [f EXCEPT !.rsv = 0].fin = f.fin
         /\ [f EXCEPT !.rsv = 0].opcode = f.opcode
         /\ [f EXCEPT !.rsv = 0].rsv = 0
<1>1. f \in [fin : BOOLEAN, rsv : 0 .. 7, opcode : 0 .. 15, content : Seq(Byte),
             masked : BOOLEAN, key : [1 .. 4 -> Byte], layout : Layouts]
  BY FramesAssumption
<1>2. f.content \in Seq(Byte)
  BY <1>1
<1>3. /\ Len(f.content) \in Nat /\ DOMAIN f.content = 1 .. Len(f.content)
      /\ f.content \in [1 .. Len(f.content) -> Byte]
  BY <1>2, LenProperties
<1>4. FitsItsLayout(f)
  BY FramesAssumption
<1>5. QED
  BY <1>1, <1>2, <1>3, <1>4

\* A big endian number is n bytes, the i-th one the number shifted to it.
LEMMA BigEndianBytes ==
  ASSUME NEW number \in Nat, NEW n \in Nat
  PROVE  /\ BigEndian(number, n) \in Seq(Byte)
         /\ Len(BigEndian(number, n)) = n
         /\ \A i \in 1 .. n : BigEndian(number, n)[i] = Shifted(number, n - i) % 256
<1>1. \A i \in 1 .. n : n - i \in Nat
  OBVIOUS
<1>2. \A i \in 1 .. n : Shifted(number, n - i) % 256 \in Byte
  <2>1. \A m \in Nat : m % 256 \in Byte
    BY DEF Byte
  <2>2. \A k \in Nat : Shifted(number, k) \in Nat
    BY ShiftedStep
  <2>3. QED
    BY <1>1, <2>1, <2>2
<1>3. BigEndian(number, n) \in [1 .. n -> Byte]
  BY <1>2 DEF BigEndian
<1>4. QED
  BY <1>3 DEF BigEndian

\* Two ranges that are the same end at the same number.
LEMMA RangeLength == ASSUME NEW n \in Nat, NEW m \in Nat, 1 .. n = 1 .. m PROVE n = m
<1>1. ~(n < m)
  <2>1. n < m => m \in 1 .. m /\ m \notin 1 .. n
    OBVIOUS
  <2>2. QED
    BY <2>1
<1>2. ~(m < n)
  <2>1. m < n => n \in 1 .. n /\ n \notin 1 .. m
    OBVIOUS
  <2>2. QED
    BY <2>1
<1>3. QED
  BY <1>1, <1>2

\* What a frame is made of on the wire has its type.
LEMMA PayloadType ==
  ASSUME NEW f \in Frames
  PROVE  /\ Payload(f) \in Seq(Byte)
         /\ Len(Payload(f)) = Len(f.content)
         /\ Key(f) \in Seq(Byte)
         /\ Len(Key(f)) = IF IsMasked(f) THEN 4 ELSE 0
         /\ Width(f) \in {0, 2, 8}
         /\ LengthCode(f) \in Nat /\ LengthCode(f) <= 127
<1>1. \A i \in DOMAIN f.content : Xor(f.content[i], f.key[((i - 1) % 4) + 1]) \in Byte
  <2> SUFFICES ASSUME NEW i \in DOMAIN f.content
               PROVE  Xor(f.content[i], f.key[((i - 1) % 4) + 1]) \in Byte
    OBVIOUS
  <2>1. ((i - 1) % 4) + 1 \in 1 .. 4
    BY FrameType
  <2>2. f.content[i] \in Byte /\ f.key[((i - 1) % 4) + 1] \in Byte
    BY <2>1, FrameType
  <2>3. QED
    BY <2>2, XorTwice
<1>2. Masked(f.content, f.key) \in [1 .. Len(f.content) -> Byte]
  BY <1>1, FrameType DEF Masked
<1>3. Payload(f) \in Seq(Byte) /\ Len(Payload(f)) = Len(f.content)
  BY <1>2, FrameType DEF Payload
<1>4. Key(f) \in Seq(Byte) /\ Len(Key(f)) = IF IsMasked(f) THEN 4 ELSE 0
  <2>1. f.key \in Seq(Byte) /\ Len(f.key) = 4
    <3>1. f.key \in [1 .. 4 -> Byte]
      BY FrameType
    <3>2. f.key \in Seq(Byte)
      BY <3>1, SeqDef
    <3>3. Len(f.key) \in Nat /\ 1 .. Len(f.key) = 1 .. 4
      BY <3>1, <3>2, LenProperties
    <3>4. QED
      BY <3>2, <3>3, RangeLength
  <2>2. CASE IsMasked(f)
    BY <2>1, <2>2 DEF Key
  <2>3. CASE ~IsMasked(f)
    BY <2>3, EmptySeq DEF Key
  <2>4. QED
    BY <2>2, <2>3
<1>5. Width(f) \in {0, 2, 8}
  BY FrameType DEF Width, Layouts
<1>6. LengthCode(f) \in Nat /\ LengthCode(f) <= 127
  <2>1. Width(f) = 0 => Len(f.content) < 126
    BY FrameType DEF Width, FitsItsLayout, Layouts
  <2>2. f.content \in Seq(Byte)
    BY FrameType
  <2>3. CASE Width(f) = 0
    BY <2>1, <2>2, <2>3 DEF LengthCode
  <2>4. CASE Width(f) # 0
    BY <2>4 DEF LengthCode
  <2>5. QED
    BY <2>3, <2>4
<1>7. QED
  BY <1>3, <1>4, <1>5, <1>6

\* The fin bit and the opcode are found again in the first byte.
LEMMA FirstByteBits ==
  ASSUME NEW high \in {0, 128}, NEW rsv \in 0 .. 7, NEW opcode \in 0 .. 15,
         NEW n, n = high + 16 * rsv + opcode
  PROVE  n \in Byte /\ (high = 128 <=> n \div 128 = 1) /\ n % 16 = opcode
<1>1. n \in Byte
  BY DEF Byte
<1>2. high = 128 <=> n \div 128 = 1
  BY SMT
<1>3. n % 16 = opcode
  BY SMT
<1>4. QED
  BY <1>1, <1>2, <1>3

\* The mask bit and the length code are found again in the second byte.
LEMMA SecondByteBits ==
  ASSUME NEW f \in Frames
  PROVE  /\ SecondByte(f) \in Byte
         /\ IsMasked(f) <=> SecondByte(f) \div 128 = 1
         /\ SecondByte(f) % 128 = LengthCode(f)
<1>1. LengthCode(f) \in Nat /\ LengthCode(f) <= 127
  BY PayloadType
<1>2. PICK n \in 0 .. 127 : n = LengthCode(f)
  BY <1>1
<1>3. CASE IsMasked(f)
  <2>1. SecondByte(f) = 128 + n
    BY <1>2, <1>3 DEF SecondByte
  <2>2. 128 + n \in Byte /\ (128 + n) \div 128 = 1 /\ (128 + n) % 128 = n
    BY DEF Byte
  <2>3. QED
    BY <1>2, <1>3, <2>1, <2>2
<1>4. CASE ~IsMasked(f)
  <2>1. SecondByte(f) = n
    BY <1>2, <1>4 DEF SecondByte
  <2>2. n \in Byte /\ n \div 128 # 1 /\ n % 128 = n
    BY DEF Byte
  <2>3. QED
    BY <1>2, <1>4, <2>1, <2>2
<1>5. QED
  BY <1>3, <1>4

\* Two bytes make a sequence of two bytes.
LEMMA Pair ==
  ASSUME NEW a \in Byte, NEW b \in Byte
  PROVE  /\ <<a>> \in Seq(Byte) /\ <<b>> \in Seq(Byte) /\ <<a, b>> \in Seq(Byte)
         /\ <<a>> \o <<b>> = <<a, b>>
<1>1. <<a>> \in Seq(Byte) /\ <<b>> \in Seq(Byte) /\ <<a, b>> \in Seq(Byte)
  OBVIOUS
<1>2. Append(<<a>>, b) = <<a, b>>
  <2>1. /\ Append(<<a>>, b) \in Seq(Byte)
        /\ Len(Append(<<a>>, b)) = 2
        /\ Append(<<a>>, b)[1] = a /\ Append(<<a>>, b)[2] = b
    BY <1>1
  <2>2. <<a, b>> \in Seq(Byte) /\ Len(<<a, b>>) = 2 /\ <<a, b>>[1] = a /\ <<a, b>>[2] = b
    BY <1>1
  <2>3. \A i \in 1 .. 2 : i = 1 \/ i = 2
    OBVIOUS
  <2>4. \A i \in 1 .. 2 : Append(<<a>>, b)[i] = <<a, b>>[i]
    BY <2>1, <2>2, <2>3
  <2>5. QED
    BY <2>1, <2>2, <2>4, SeqEqual
<1>3. Append(<<a>>, b) = <<a>> \o <<b>>
  BY <1>1, AppendIsConcat
<1>4. QED
  BY <1>1, <1>2, <1>3

\* The three forms of a frame's length.
LEMMA LengthFieldForms ==
  ASSUME NEW n \in Nat
  PROVE  /\ n < 126 => LengthField(n) = <<n>>
         /\ n >= 126 /\ n <= 65535 => LengthField(n) = <<126>> \o BigEndian(n, 2)
         /\ n > 65535 => LengthField(n) = <<127>> \o BigEndian(n, 8)
  BY DEF LengthField

\* The first byte, the second, the rest of the length, the key, the content.
LEMMA WireShape ==
  ASSUME NEW f \in Frames
  PROVE  \E first \in Byte :
           /\ Wire(f) = <<first, SecondByte(f)>> \o (Extended(f) \o (Key(f) \o Payload(f)))
           /\ f.fin <=> first \div 128 = 1
           /\ first % 16 = f.opcode
<1> DEFINE length == Len(f.content)
           first == FirstByte(IF f.layout = "serialize" THEN [f EXCEPT !.rsv = 0] ELSE f)
<1>1. first \in Byte /\ (f.fin <=> first \div 128 = 1) /\ first % 16 = f.opcode
  <2> DEFINE rsv == IF f.layout = "serialize" THEN 0 ELSE f.rsv
             high == IF f.fin THEN 128 ELSE 0
             opcode == f.opcode
  <2>1. first = high + 16 * rsv + opcode
    BY FrameType DEF FirstByte
  <2>2. rsv \in 0 .. 7 /\ high \in {0, 128} /\ (f.fin <=> high = 128)
    BY FrameType
  <2>3. opcode \in 0 .. 15
    BY FrameType
  <2> HIDE DEF first, rsv, high, opcode
  <2>4. first \in Byte /\ (high = 128 <=> first \div 128 = 1) /\ first % 16 = opcode
    BY <2>1, <2>2, <2>3, FirstByteBits
  <2>5. QED
    BY <2>2, <2>4 DEF opcode
<1>2. /\ Payload(f) \in Seq(Byte) /\ Key(f) \in Seq(Byte) /\ f.content \in Seq(Byte)
      /\ Extended(f) \in Seq(Byte) /\ SecondByte(f) \in Byte
      /\ length \in Nat /\ BigEndian(length, 2) \in Seq(Byte) /\ BigEndian(length, 8) \in Seq(Byte)
      /\ Key(f) \o Payload(f) \in Seq(Byte)
  <2>1. Payload(f) \in Seq(Byte) /\ Key(f) \in Seq(Byte) /\ Width(f) \in Nat
    BY PayloadType
  <2>2. f.content \in Seq(Byte) /\ length \in Nat
    BY FrameType
  <2>3. /\ Extended(f) \in Seq(Byte)
        /\ BigEndian(length, 2) \in Seq(Byte) /\ BigEndian(length, 8) \in Seq(Byte)
    BY <2>1, <2>2, BigEndianBytes DEF Extended
  <2>4. QED
    BY <2>1, <2>2, <2>3, SecondByteBits, ConcatProperties
<1>3. BigEndian(length, 0) = <<>>
  <2>1. BigEndian(length, 0) \in Seq(Byte) /\ Len(BigEndian(length, 0)) = 0
    BY BigEndianBytes, <1>2
  <2>2. QED
    BY <2>1
<1> DEFINE tail == IF f.masked THEN f.key \o Masked(f.content, f.key) ELSE f.content
           bit == IF f.masked THEN 128 ELSE 0
<1>4. f.layout # "serialize" => /\ tail = Key(f) \o Payload(f)
                                /\ SecondByte(f) = bit + LengthCode(f)
  BY <1>2, ConcatEmptySeq DEF Key, Payload, IsMasked, SecondByte
<1>5. f.layout = "serialize" => /\ f.content = Key(f) \o Payload(f)
                                /\ SecondByte(f) = LengthCode(f)
  BY <1>2, PayloadType, ConcatEmptySeq DEF Key, Payload, IsMasked, SecondByte
<1> HIDE DEF first
<1>a. /\ <<first, SecondByte(f)>> \in Seq(Byte)
      /\ <<first>> \in Seq(Byte) /\ <<SecondByte(f)>> \in Seq(Byte)
      /\ <<first>> \o <<SecondByte(f)>> = <<first, SecondByte(f)>>
  BY <1>1, <1>2, Pair
<1>b. (<<first, SecondByte(f)>> \o Extended(f)) \o (Key(f) \o Payload(f))
        = <<first, SecondByte(f)>> \o (Extended(f) \o (Key(f) \o Payload(f)))
  <2> DEFINE a == <<first, SecondByte(f)>>
             b == Extended(f)
             c == Key(f) \o Payload(f)
  <2>1. a \in Seq(Byte) /\ b \in Seq(Byte) /\ c \in Seq(Byte)
    BY <1>2, <1>a
  <2> HIDE DEF a, b, c
  <2>2. (a \o b) \o c = a \o (b \o c)
    BY <2>1, ConcatAssociative
  <2>3. QED
    BY <2>2 DEF a, b, c
<1>6. CASE f.layout = "short"
  <2>1. Extended(f) = <<>> /\ LengthCode(f) = length
    BY <1>3, <1>6 DEF Extended, Width, LengthCode
  <2>2. Wire(f) = <<first, SecondByte(f)>> \o (Key(f) \o Payload(f))
    BY <1>4, <1>6, <2>1 DEF Wire, first
  <2>3. Extended(f) \o (Key(f) \o Payload(f)) = Key(f) \o Payload(f)
    BY <1>2, <2>1, ConcatEmptySeq
  <2>4. QED
    BY <1>1, <2>2, <2>3
<1>7. CASE f.layout = "two"
  <2>1. Extended(f) = BigEndian(length, 2) /\ LengthCode(f) = 126
    BY <1>7 DEF Extended, Width, LengthCode
  <2>2. Wire(f) = (<<first, SecondByte(f)>> \o Extended(f)) \o (Key(f) \o Payload(f))
    BY <1>4, <1>7, <2>1 DEF Wire, first
  <2>3. QED
    BY <1>1, <1>b, <2>2
<1>8. CASE f.layout = "eight"
  <2>1. Extended(f) = BigEndian(length, 8) /\ LengthCode(f) = 127
    BY <1>8 DEF Extended, Width, LengthCode
  <2>2. Wire(f) = (<<first, SecondByte(f)>> \o Extended(f)) \o (Key(f) \o Payload(f))
    BY <1>4, <1>8, <2>1 DEF Wire, first
  <2>3. QED
    BY <1>1, <1>b, <2>2
<1>9. CASE f.layout = "serialize"
  <2>1. Wire(f) = (<<first>> \o LengthField(length)) \o (Key(f) \o Payload(f))
    BY <1>5, <1>9 DEF Wire, Serialize, first
  <2>2. LengthField(length) = <<SecondByte(f)>> \o Extended(f)
    <3>1. CASE length < 126
      <4>1. LengthField(length) = <<length>> /\ Extended(f) = <<>> /\ SecondByte(f) = length
        BY <1>2, <1>3, <1>5, <1>9, <3>1, LengthFieldForms DEF Extended, Width, LengthCode
      <4>2. QED
        BY <1>2, <4>1, Pair, ConcatEmptySeq
    <3>2. CASE length >= 126 /\ length <= 65535
      <4>1. /\ LengthField(length) = <<126>> \o BigEndian(length, 2)
            /\ Extended(f) = BigEndian(length, 2) /\ SecondByte(f) = 126
        <5>1. Width(f) = 2
          BY <1>2, <1>9, <3>2 DEF Width
        <5>2. Extended(f) = BigEndian(length, 2) /\ SecondByte(f) = 126
          BY <1>5, <1>9, <5>1 DEF Extended, LengthCode
        <5>3. QED
          <6>1. LengthField(length) = <<126>> \o BigEndian(length, 2)
            <7>1. length \in Nat
              BY <1>2
            <7> HIDE DEF length
            <7>2. QED
              BY <3>2, <7>1, LengthFieldForms
          <6>2. QED
            BY <5>2, <6>1
      <4>2. QED
        BY <4>1
    <3>3. CASE length > 65535
      <4>1. /\ LengthField(length) = <<127>> \o BigEndian(length, 8)
            /\ Extended(f) = BigEndian(length, 8) /\ SecondByte(f) = 127
        <5>1. Width(f) = 8
          BY <1>2, <1>9, <3>3 DEF Width
        <5>2. Extended(f) = BigEndian(length, 8) /\ SecondByte(f) = 127
          BY <1>5, <1>9, <5>1 DEF Extended, LengthCode
        <5>3. QED
          <6>1. LengthField(length) = <<127>> \o BigEndian(length, 8)
            <7>1. length \in Nat
              BY <1>2
            <7> HIDE DEF length
            <7>2. QED
              BY <3>3, <7>1, LengthFieldForms
          <6>2. QED
            BY <5>2, <6>1
      <4>2. QED
        BY <4>1
    <3>4. QED
      BY <1>2, <3>1, <3>2, <3>3
  <2>3. <<first>> \o LengthField(length) = <<first, SecondByte(f)>> \o Extended(f)
    BY <1>1, <1>b, <2>2
  <2>4. QED
    BY <1>1, <1>b, <2>1, <2>3
<1>10. QED
  BY <1>6, <1>7, <1>8, <1>9, FrameType DEF Layouts

\* Where the elements of two sequences are in their concatenation.
LEMMA TwoParts ==
  ASSUME NEW S, NEW a \in Seq(S), NEW b \in Seq(S)
  PROVE  /\ a \o b \in Seq(S)
         /\ Len(a \o b) = Len(a) + Len(b)
         /\ \A i \in 1 .. Len(a) : (a \o b)[i] = a[i]
         /\ \A i \in 1 .. Len(b) : (a \o b)[Len(a) + i] = b[i]
<1>1. Len(a) \in Nat /\ Len(b) \in Nat
  BY LenProperties
<1>2. /\ a \o b \in Seq(S)
      /\ Len(a \o b) = Len(a) + Len(b)
      /\ \A i \in 1 .. Len(a) + Len(b) :
           (a \o b)[i] = IF i <= Len(a) THEN a[i] ELSE b[i - Len(a)]
  BY ConcatProperties
<1>3. ASSUME NEW n \in Nat, NEW m \in Nat
      PROVE  /\ \A i \in 1 .. n : i \in 1 .. n + m /\ i <= n
             /\ \A i \in 1 .. m : n + i \in 1 .. n + m /\ ~(n + i <= n) /\ n + i - n = i
  OBVIOUS
<1>4. /\ \A i \in 1 .. Len(a) : i \in 1 .. Len(a) + Len(b) /\ i <= Len(a)
      /\ \A i \in 1 .. Len(b) : /\ Len(a) + i \in 1 .. Len(a) + Len(b)
                                /\ ~(Len(a) + i <= Len(a)) /\ Len(a) + i - Len(a) = i
  BY <1>1, <1>3
<1>5. \A i \in 1 .. Len(a) : (a \o b)[i] = a[i]
  BY <1>2, <1>4
<1>6. \A i \in 1 .. Len(b) : (a \o b)[Len(a) + i] = b[i]
  BY <1>2, <1>4
<1>7. QED
  BY <1>2, <1>5, <1>6

\* The places of the parts of a frame, and what is there.
LEMMA WireBytes ==
  ASSUME NEW f \in Frames
  PROVE  /\ Wire(f) \in Seq(Byte)
         /\ Len(Wire(f)) = BodyPlace(f) + Len(f.content)
         /\ f.fin <=> Wire(f)[1] \div 128 = 1
         /\ Wire(f)[1] % 16 = f.opcode
         /\ IsMasked(f) <=> Wire(f)[2] \div 128 = 1
         /\ Wire(f)[2] % 128 = LengthCode(f)
         /\ \A i \in 1 .. Width(f) : Wire(f)[2 + i] = Shifted(Len(f.content), Width(f) - i) % 256
         /\ \A i \in 1 .. Len(Key(f)) : Wire(f)[KeyPlace(f) + i] = f.key[i]
         /\ \A i \in 1 .. Len(f.content) : Wire(f)[BodyPlace(f) + i] = Payload(f)[i]
<1> DEFINE e == Extended(f)
           k == Key(f)
           p == Payload(f)
<1>1. PICK first \in Byte :
        /\ Wire(f) = <<first, SecondByte(f)>> \o (e \o (k \o p))
        /\ f.fin <=> first \div 128 = 1
        /\ first % 16 = f.opcode
  BY WireShape
<1> DEFINE h == <<first, SecondByte(f)>>
<1>2. /\ h \in Seq(Byte) /\ Len(h) = 2 /\ h[1] = first /\ h[2] = SecondByte(f)
      /\ k \in Seq(Byte) /\ p \in Seq(Byte) /\ Len(p) = Len(f.content)
  BY SecondByteBits, PayloadType, Pair
<1>3. e \in Seq(Byte) /\ Len(e) = Width(f)
      /\ \A i \in 1 .. Width(f) : e[i] = Shifted(Len(f.content), Width(f) - i) % 256
  <2>1. Len(f.content) \in Nat /\ Width(f) \in Nat
    BY FrameType, PayloadType
  <2>2. QED
    BY <2>1, BigEndianBytes DEF Extended
<1>4. \A i \in 1 .. Len(k) : k[i] = f.key[i]
  BY PayloadType DEF Key
<1> HIDE DEF h, e, k, p
<1>5. /\ k \o p \in Seq(Byte)
      /\ Len(k \o p) = Len(k) + Len(p)
      /\ \A i \in 1 .. Len(k) : (k \o p)[i] = k[i]
      /\ \A i \in 1 .. Len(p) : (k \o p)[Len(k) + i] = p[i]
  <2>1. k \in Seq(Byte) /\ p \in Seq(Byte)
    BY <1>2
  <2>2. QED
    BY <2>1, TwoParts
<1> DEFINE kp == k \o p
<1> HIDE DEF kp
<1>6. /\ e \o kp \in Seq(Byte)
      /\ Len(e \o kp) = Len(e) + Len(kp)
      /\ \A i \in 1 .. Len(e) : (e \o kp)[i] = e[i]
      /\ \A i \in 1 .. Len(kp) : (e \o kp)[Len(e) + i] = kp[i]
  <2>1. e \in Seq(Byte) /\ kp \in Seq(Byte)
    BY <1>3, <1>5 DEF kp
  <2>2. QED
    BY <2>1, TwoParts
<1> DEFINE ekp == e \o kp
<1> HIDE DEF ekp
<1>7. /\ h \o ekp \in Seq(Byte)
      /\ Len(h \o ekp) = Len(h) + Len(ekp)
      /\ \A i \in 1 .. Len(h) : (h \o ekp)[i] = h[i]
      /\ \A i \in 1 .. Len(ekp) : (h \o ekp)[Len(h) + i] = ekp[i]
  <2>1. h \in Seq(Byte) /\ ekp \in Seq(Byte)
    BY <1>2, <1>6 DEF ekp
  <2>2. QED
    BY <2>1, TwoParts
<1>8. Wire(f) = h \o ekp
  BY <1>1 DEF h, ekp, kp, e, k, p
<1>9. Len(k) \in Nat /\ Len(p) \in Nat /\ Len(e) \in Nat
  BY <1>2, <1>3, LenProperties
<1>10. Wire(f)[1] = first /\ Wire(f)[2] = SecondByte(f)
  <2>1. 1 \in 1 .. Len(h) /\ 2 \in 1 .. Len(h)
    BY <1>2
  <2>2. QED
    BY <1>2, <1>7, <1>8, <2>1
<1>11. \A i \in 1 .. Len(ekp) : Wire(f)[2 + i] = ekp[i]
  BY <1>2, <1>7, <1>8
<1>12. \A i \in 1 .. Width(f) : Wire(f)[2 + i] = Shifted(Len(f.content), Width(f) - i) % 256
  <2>1. \A i \in 1 .. Len(e) : i \in 1 .. Len(ekp)
    BY <1>5, <1>6, <1>9 DEF ekp, kp
  <2>2. QED
    BY <1>3, <1>6, <1>11, <2>1 DEF ekp
<1>13. /\ \A i \in 1 .. Len(k) : Wire(f)[2 + Len(e) + i] = k[i]
       /\ \A i \in 1 .. Len(p) : Wire(f)[2 + Len(e) + Len(k) + i] = p[i]
  <2>1. \A i \in 1 .. Len(kp) : Wire(f)[2 + (Len(e) + i)] = kp[i]
    <3>1. \A i \in 1 .. Len(kp) : Len(e) + i \in 1 .. Len(ekp)
      BY <1>5, <1>6, <1>9 DEF ekp, kp
    <3>2. QED
      BY <1>6, <1>11, <3>1 DEF ekp
  <2>2. \A i \in 1 .. Len(k) : i \in 1 .. Len(kp)
    BY <1>5, <1>9 DEF kp
  <2>3. \A i \in 1 .. Len(p) : Len(k) + i \in 1 .. Len(kp)
    BY <1>5, <1>9 DEF kp
  <2>4. \A i \in 1 .. Len(k) : Wire(f)[2 + (Len(e) + i)] = k[i]
    BY <1>5, <2>1, <2>2 DEF kp
  <2>5. \A i \in 1 .. Len(p) : Wire(f)[2 + (Len(e) + (Len(k) + i))] = p[i]
    BY <1>5, <2>1, <2>3 DEF kp
  <2>6. ASSUME NEW n \in Nat, NEW m \in Nat, NEW i \in Nat
        PROVE  2 + (n + i) = 2 + n + i /\ 2 + (n + (m + i)) = 2 + n + m + i
    OBVIOUS
  <2>7. QED
    BY <1>9, <2>4, <2>5, <2>6
<1>14. Len(Wire(f)) = 2 + Len(e) + Len(k) + Len(p)
  <2>1. Len(Wire(f)) = 2 + (Len(e) + (Len(k) + Len(p)))
    BY <1>2, <1>5, <1>6, <1>7, <1>8 DEF ekp, kp
  <2>2. QED
    BY <1>9, <2>1
<1>15. Width(f) = Len(e) /\ Len(f.content) = Len(p) /\ Key(f) = k /\ Payload(f) = p
  BY <1>2, <1>3 DEF k, p
<1>16. Wire(f) \in Seq(Byte)
  BY <1>7, <1>8
<1>17. QED
  BY <1>1, <1>4, <1>10, <1>12, <1>13, <1>14, <1>15, <1>16, SecondByteBits
     DEF KeyPlace, BodyPlace

-------------------------------------------------------------------------------
(* Types.                                                                  *)

ParserStates == {"header_byte1", "header_byte2", "length", "mask", "body"}

Content == [fin : BOOLEAN, opcode : 0 .. 15, content : Seq(Byte)]

MessageTypes == {"unknown", "text", "binary", "close", "ping", "pong"}

Message == [type : MessageTypes, content : Seq(Byte)]

ReaderType ==
  /\ sent \in Seq(Frames)
  /\ inbox \in Seq(Byte)
  /\ state_ \in ParserStates
  /\ left \in Nat
  /\ frame_ \in [fin : BOOLEAN, opcode : 0 .. 15, masked : BOOLEAN, length : Nat,
                 key : [1 .. 4 -> Byte], content : Seq(Byte)]
  /\ message_ \in Message
  /\ parsed \in Seq(Content)
  /\ delivered \in Seq(Message)

\* The reader's variables have their types at first.
LEMMA InitType == ReaderInit => ReaderType
<1> SUFFICES ASSUME ReaderInit PROVE ReaderType
  OBVIOUS
<1>1. <<0, 0, 0, 0>> \in [1 .. 4 -> Byte]
  BY DEF Byte
<1>2. \A S : <<>> \in Seq(S)
  BY EmptySeq
<1>3. QED
  BY <1>1, <1>2 DEF ReaderInit, ReaderType, ParserStates, Message, MessageTypes

\* What a field leaves of the frame, and what a complete frame is.
FrameFields == [fin : BOOLEAN, opcode : 0 .. 15, masked : BOOLEAN, length : Nat,
                key : [1 .. 4 -> Byte], content : Seq(Byte)]

\* A frame given to the buffer leaves a message, and messages.
LEMMA BufferType ==
  ASSUME ReaderType, NEW f \in FrameFields, Buffer(f)
  PROVE  message_' \in Message /\ delivered' \in Seq(Message)
<1>1. f.content \in Seq(Byte) /\ f.fin \in BOOLEAN
  BY DEF FrameFields
<1>2. message_ \in Message /\ delivered \in Seq(Message)
  BY DEF ReaderType
<1>3. \A code \in DOMAIN TypeOf : TypeOf[code] \in MessageTypes
  BY DEF TypeOf, MessageTypes
<1>4. message_' \in Message
  <2>1. CASE f.opcode \in DOMAIN TypeOf /\ message_' = StartMessage(f)
    BY <1>1, <1>3, <2>1 DEF StartMessage, Message
  <2>2. CASE message_' = [message_ EXCEPT !.content = @ \o f.content]
    <3>1. message_.content \o f.content \in Seq(Byte)
      BY <1>1, <1>2, ConcatProperties DEF Message
    <3>2. QED
      BY <1>2, <2>2, <3>1 DEF Message
  <2>3. CASE message_' = message_
    BY <1>2, <2>3
  <2>4. CASE message_' = [message_ EXCEPT !.type = "unknown"]
    BY <1>2, <2>4 DEF Message, MessageTypes
  <2>5. QED
    BY <2>1, <2>2, <2>3, <2>4 DEF Buffer
<1>5. delivered' \in {delivered, Append(delivered, message_')}
  BY DEF Buffer, WhenFinal
<1>6. QED
  BY <1>2, <1>4, <1>5, AppendProperties

\* A frame that is complete leaves the reader's variables their types.
LEMMA CompleteType ==
  ASSUME ReaderType, NEW f \in FrameFields, Complete(f)
  PROVE  /\ state_' \in ParserStates /\ left' \in Nat /\ frame_' \in FrameFields
         /\ parsed' \in Seq(Content)
         /\ message_' \in Message /\ delivered' \in Seq(Message)
<1>1. [fin |-> f.fin, opcode |-> f.opcode, content |-> f.content] \in Content
  BY DEF FrameFields, Content
<1>2. parsed' \in Seq(Content)
  BY <1>1, AppendProperties DEF Complete, ReaderType
<1>3. QED
  BY <1>2, BufferType DEF Complete, ParserStates

\* So does a frame that goes on.
LEMMA GoOnType ==
  ASSUME ReaderType, NEW f \in FrameFields, NEW state \in ParserStates, NEW bytes \in Nat,
         GoOn(f, state, bytes)
  PROVE  /\ state_' \in ParserStates /\ left' \in Nat /\ frame_' \in FrameFields
         /\ parsed' \in Seq(Content)
         /\ message_' \in Message /\ delivered' \in Seq(Message)
  BY DEF GoOn, ReaderType

\* An unmasked frame is a frame.
LEMMA UnmaskedType ==
  ASSUME NEW f \in FrameFields
  PROVE  [f EXCEPT !.content = Unmasked(f)] \in FrameFields
<1>1. f.content \in Seq(Byte) /\ f.key \in [1 .. 4 -> Byte]
  BY DEF FrameFields
<1>2. f.content \in [1 .. Len(f.content) -> Byte] /\ DOMAIN f.content = 1 .. Len(f.content)
      /\ Len(f.content) \in Nat
  BY <1>1, LenProperties
<1>3. ASSUME NEW i \in 1 .. Len(f.content)
      PROVE  Unmasked(f)[i] \in Byte
  <2>1. i \in DOMAIN f.content /\ i \in Int /\ f.content[i] \in Byte
    BY <1>2
  <2>2. ((i - 1) % 4) + 1 \in 1 .. 4
    BY <2>1
  <2>3. f.key[((i - 1) % 4) + 1] \in Byte
    BY <1>1, <2>2
  <2>4. Xor(f.content[i], f.key[((i - 1) % 4) + 1]) \in Byte
    BY <2>1, <2>3, XorTwice
  <2>5. QED
    BY <2>1, <2>4 DEF Unmasked
<1>4. Unmasked(f) \in [1 .. Len(f.content) -> Byte]
  BY <1>2, <1>3 DEF Unmasked
<1>5. Unmasked(f) \in Seq(Byte)
  BY <1>2, <1>4, SeqDef
<1>6. QED
  BY <1>5 DEF FrameFields

\* A byte read completes the frame or leaves the parser in it.
LEMMA FieldOutcome ==
  ASSUME ReaderType, NEW b \in Byte,
         HeaderByte1(b) \/ HeaderByte2(b) \/ LengthByte(b) \/ MaskByte(b) \/ BodyByte(b)
  PROVE  \/ \E f \in FrameFields, state \in ParserStates, bytes \in Nat : GoOn(f, state, bytes)
         \/ \E f \in FrameFields : Complete(f)
<1>0. frame_ \in FrameFields
  BY DEF ReaderType, FrameFields
<1>1. CASE HeaderByte1(b)
  <2> DEFINE high == b \div 128 = 1
             code == b % 16
  <2>1. high \in BOOLEAN /\ code \in 0 .. 15
    BY DEF Byte
  <2> HIDE DEF high, code
  <2>2. [frame_ EXCEPT !.fin = high, !.opcode = code] \in FrameFields
    BY <1>0, <2>1 DEF FrameFields
  <2>3. GoOn([frame_ EXCEPT !.fin = high, !.opcode = code], "header_byte2", 0)
    BY <1>1 DEF HeaderByte1, high, code
  <2>4. QED
    BY <2>2, <2>3 DEF ParserStates
<1>2. CASE HeaderByte2(b)
  <2> DEFINE high == b \div 128 = 1
             len == b % 128
             f == [frame_ EXCEPT !.masked = high, !.length = len, !.content = <<>>]
             g == [frame_ EXCEPT !.masked = high, !.length = 0]
  <2>0. high \in BOOLEAN /\ len \in Nat
    BY DEF Byte
  <2>1. f \in FrameFields /\ g \in FrameFields
    <3> HIDE DEF high, len
    <3>1. QED
      BY <1>0, <2>0, EmptySeq DEF FrameFields
  <2>2. \/ GoOn(f, "mask", 4) \/ GoOn(f, "body", 0) \/ Complete(f)
        \/ GoOn(g, "length", 2) \/ GoOn(g, "length", 8)
    BY <1>2 DEF HeaderByte2
  <2> HIDE DEF f, g
  <2>3. "mask" \in ParserStates /\ "body" \in ParserStates /\ "length" \in ParserStates
    BY DEF ParserStates
  <2>4. QED
    BY <2>1, <2>2, <2>3
<1>3. CASE LengthByte(b)
  <2> DEFINE len == frame_.length * 256 + b
             f == [frame_ EXCEPT !.length = len]
             g == [f EXCEPT !.content = <<>>]
  <2>0. len \in Nat
    <3>1. frame_.length \in Nat /\ b \in Nat
      BY <1>0 DEF FrameFields, Byte
    <3>2. QED
      BY <3>1
  <2>1. f \in FrameFields
    <3> HIDE DEF len
    <3>1. QED
      BY <1>0, <2>0 DEF FrameFields
  <2>2. g \in FrameFields
    BY <2>1, EmptySeq DEF FrameFields
  <2>3. \/ left > 1 /\ GoOn(f, "length", left - 1)
        \/ GoOn(g, "mask", 4) \/ GoOn(g, "body", 0)
    BY <1>3 DEF LengthByte
  <2> HIDE DEF f, g
  <2>4. "mask" \in ParserStates /\ "body" \in ParserStates /\ "length" \in ParserStates
    BY DEF ParserStates
  <2>5. left > 1 => left - 1 \in Nat
    BY DEF ReaderType
  <2>6. QED
    BY <2>1, <2>2, <2>3, <2>4, <2>5
<1>4. CASE MaskByte(b)
  <2> DEFINE f == [frame_ EXCEPT !.key[5 - left] = b]
  <2>1. f \in FrameFields
    BY <1>0 DEF FrameFields
  <2>2. \/ left > 1 /\ GoOn(f, "mask", left - 1)
        \/ GoOn(f, "body", 0) \/ Complete(f)
    BY <1>4 DEF MaskByte
  <2> HIDE DEF f
  <2>3. "mask" \in ParserStates /\ "body" \in ParserStates
    BY DEF ParserStates
  <2>4. left > 1 => left - 1 \in Nat
    BY DEF ReaderType
  <2>5. QED
    BY <2>1, <2>2, <2>3, <2>4
<1>5. CASE BodyByte(b)
  <2> DEFINE f == [frame_ EXCEPT !.content = Append(@, b)]
  <2>1. f \in FrameFields
    BY <1>0, AppendProperties DEF FrameFields
  <2>2. GoOn(f, "body", 0) \/ Complete([f EXCEPT !.content = Unmasked(f)])
    BY <1>5 DEF BodyByte
  <2>3. [f EXCEPT !.content = Unmasked(f)] \in FrameFields
    BY <2>1, UnmaskedType
  <2> HIDE DEF f
  <2>4. "body" \in ParserStates
    BY DEF ParserStates
  <2>5. QED
    BY <2>1, <2>2, <2>3, <2>4
<1>6. QED
  BY <1>1, <1>2, <1>3, <1>4, <1>5

\* Whatever a byte is for, it leaves the reader's variables their types.
LEMMA FieldType ==
  ASSUME ReaderType, NEW b \in Byte,
         HeaderByte1(b) \/ HeaderByte2(b) \/ LengthByte(b) \/ MaskByte(b) \/ BodyByte(b)
  PROVE  /\ state_' \in ParserStates /\ left' \in Nat /\ frame_' \in FrameFields
         /\ parsed' \in Seq(Content)
         /\ message_' \in Message /\ delivered' \in Seq(Message)
  BY FieldOutcome, GoOnType, CompleteType

\* Every step leaves the reader's variables their types.
LEMMA NextType == ReaderType /\ [ReaderNext]_readerVars => ReaderType'
<1> SUFFICES ASSUME ReaderType, [ReaderNext]_readerVars PROVE ReaderType'
  OBVIOUS
<1>1. ASSUME NEW f \in Frames, Send(f) PROVE ReaderType'
  <2>1. sent' \in Seq(Frames)
    BY <1>1, AppendProperties DEF Send, ReaderType
  <2>2. inbox' \in Seq(Byte)
    BY <1>1, WireBytes, ConcatProperties DEF Send, ReaderType
  <2>3. QED
    BY <1>1, <2>1, <2>2 DEF Send, ReaderType
<1>2. CASE ReadByte
  <2>1. Head(inbox) \in Byte /\ inbox' \in Seq(Byte) /\ sent' = sent
    BY <1>2, HeadTailProperties DEF ReadByte, ReaderType
  <2>2. QED
    BY <1>2, <2>1, FieldType DEF ReadByte, ReaderType, FrameFields
<1>3. CASE UNCHANGED readerVars
  BY <1>3 DEF readerVars, ReaderType
<1>4. QED
  BY <1>1, <1>2, <1>3 DEF ReaderNext

-------------------------------------------------------------------------------
(* Frame boundaries.                                                       *)

\* Where the parser is in a frame of which it has read k bytes.
Reading(f, k) ==
  /\ state_ = "header_byte1" => k = 0
  /\ state_ # "header_byte1" => frame_.fin = f.fin /\ frame_.opcode = f.opcode
  /\ state_ = "header_byte2" => k = 1
  /\ state_ \in {"length", "mask", "body"} => (frame_.masked <=> IsMasked(f))
  /\ state_ = "length" => /\ left >= 1 /\ left <= Width(f)
                          /\ k = KeyPlace(f) - left
                          /\ frame_.length = Shifted(Len(f.content), left)
  /\ state_ = "mask" => /\ IsMasked(f)
                        /\ left >= 1 /\ left <= 4
                        /\ k = BodyPlace(f) - left
                        /\ frame_.length = Len(f.content)
                        /\ frame_.content = <<>>
                        /\ \A i \in 1 .. 4 - left : frame_.key[i] = f.key[i]
  /\ state_ = "body" => /\ k = BodyPlace(f) + Len(frame_.content)
                        /\ frame_.length = Len(f.content)
                        /\ Len(frame_.content) < Len(f.content)
                        /\ IsMasked(f) => frame_.key = f.key
                        /\ \A i \in 1 .. Len(frame_.content) :
                             frame_.content[i] = Payload(f)[i]

\* What the parser hands on of a frame that was sent.
Sent(f) == [fin |-> f.fin, opcode |-> f.opcode, content |-> f.content]

\* The byte that was read took the parser further into the frame or, as the last
\* byte of the frame, to its end.
Advances(f, k) ==
  \/ k + 1 < Len(Wire(f)) /\ Reading(f, k + 1)' /\ parsed' = parsed
  \/ k + 1 = Len(Wire(f)) /\ state_' = "header_byte1" /\ parsed' = Append(parsed, Sent(f))

\* The numbers in Reading.
LEMMA Places ==
  ASSUME NEW f \in Frames
  PROVE  /\ Len(f.content) \in Nat
         /\ Width(f) \in {0, 2, 8}
         /\ KeyPlace(f) = 2 + Width(f)
         /\ BodyPlace(f) = KeyPlace(f) + (IF IsMasked(f) THEN 4 ELSE 0)
         /\ KeyPlace(f) \in Nat /\ BodyPlace(f) \in Nat
         /\ Len(Wire(f)) = BodyPlace(f) + Len(f.content)
<1>1. /\ Len(f.content) \in Nat /\ Width(f) \in {0, 2, 8}
      /\ Len(Key(f)) = IF IsMasked(f) THEN 4 ELSE 0
  BY FrameType, PayloadType
<1>2. Len(Wire(f)) = BodyPlace(f) + Len(f.content)
  BY WireBytes
<1>3. QED
  BY <1>1, <1>2 DEF KeyPlace, BodyPlace

\* The length fits the bytes there are for it, and is above zero where no key
\* follows it.
LEMMA LengthFits ==
  ASSUME NEW f \in Frames
  PROVE  /\ Width(f) = 0 => LengthCode(f) = Len(f.content) /\ Len(f.content) < 126
         /\ Width(f) # 0 => /\ LengthCode(f) = IF Width(f) = 2 THEN 126 ELSE 127
                            /\ Shifted(Len(f.content), Width(f)) = 0
                            /\ IsMasked(f) \/ Len(f.content) > 0
<1> DEFINE n == Len(f.content)
<1>1. n \in Nat /\ FitsItsLayout(f) /\ f.layout \in Layouts
  BY FrameType
<1>2. n <= 65535 => Shifted(n, 2) = 0
  <2>0. n \in Nat
    BY <1>1
  <2> HIDE DEF n
  <2>1. Shifted(n, 1) = n \div 256 /\ Shifted(n, 2) = Shifted(n, 1) \div 256
    <3>1. /\ Shifted(n, 0) = n
          /\ Shifted(n, 0 + 1) = Shifted(n, 0) \div 256
          /\ Shifted(n, 1 + 1) = Shifted(n, 1) \div 256
      BY <2>0, ShiftedStep
    <3>2. 0 + 1 = 1 /\ 1 + 1 = 2
      OBVIOUS
    <3>3. QED
      BY <3>1, <3>2
  <2>2. \A m \in Nat : m <= 65535 => (m \div 256) \div 256 = 0
    OBVIOUS
  <2>3. QED
    BY <2>0, <2>1, <2>2
<1>3. f.layout = "serialize" => Width(f) = IF n < 126 THEN 0 ELSE IF n <= 65535 THEN 2 ELSE 8
  BY DEF Width
<1>4. /\ f.layout = "short" => Width(f) = 0
      /\ f.layout = "two" => Width(f) = 2
      /\ f.layout = "eight" => Width(f) = 8
  BY DEF Width
<1>5. Width(f) = 0 => n < 126
  BY <1>1, <1>3, <1>4 DEF FitsItsLayout, Layouts
<1>6. Width(f) # 0 => Shifted(n, Width(f)) = 0
  BY <1>1, <1>2, <1>3, <1>4 DEF FitsItsLayout, Layouts
<1>7. Width(f) # 0 => IsMasked(f) \/ n > 0
  BY <1>1, <1>3, <1>4 DEF FitsItsLayout, Layouts, IsMasked
<1>8. QED
  BY <1>5, <1>6, <1>7 DEF LengthCode

\* The first byte of a frame is read as the frame's first byte.
LEMMA HeaderByte1Advances ==
  ASSUME ReaderType, NEW f \in Frames, NEW k \in Nat, Reading(f, k), k < Len(Wire(f)),
         HeaderByte1(Wire(f)[k + 1])
  PROVE  Advances(f, k)
<1> DEFINE b == Wire(f)[k + 1]
<1>1. k = 0 /\ k + 1 = 1
  BY DEF HeaderByte1, Reading
<1>2. (b \div 128 = 1 <=> f.fin) /\ b % 16 = f.opcode
  BY <1>1, WireBytes
<1>3. /\ state_' = "header_byte2" /\ parsed' = parsed
      /\ frame_' = [frame_ EXCEPT !.fin = b \div 128 = 1, !.opcode = b % 16]
  BY DEF HeaderByte1, GoOn
<1>4. frame_'.fin = f.fin /\ frame_'.opcode = f.opcode
  <2> DEFINE high == b \div 128 = 1
             code == b % 16
  <2>1. high = f.fin /\ code = f.opcode
    <3>1. high \in BOOLEAN /\ f.fin \in BOOLEAN
      BY FrameType
    <3>2. QED
      BY <1>2, <3>1
  <2>2. frame_' = [frame_ EXCEPT !.fin = high, !.opcode = code]
    BY <1>3
  <2> HIDE DEF high, code
  <2>3. QED
    BY <2>1, <2>2 DEF ReaderType
<1>5. 1 < Len(Wire(f))
  BY Places
<1>6. Reading(f, 1)'
  BY <1>3, <1>4 DEF Reading
<1>7. QED
  BY <1>1, <1>3, <1>5, <1>6 DEF Advances

\* The second byte of a frame leads to whatever the frame has next.
LEMMA HeaderByte2Advances ==
  ASSUME ReaderType, NEW f \in Frames, NEW k \in Nat, Reading(f, k), k < Len(Wire(f)),
         HeaderByte2(Wire(f)[k + 1])
  PROVE  Advances(f, k)
<1> DEFINE b == Wire(f)[k + 1]
           masked == b \div 128 = 1
           len == b % 128
           g == [frame_ EXCEPT !.masked = masked, !.length = len, !.content = <<>>]
           h == [frame_ EXCEPT !.masked = masked, !.length = 0]
<1>1. k = 1 /\ k + 1 = 2 /\ frame_.fin = f.fin /\ frame_.opcode = f.opcode
  BY DEF HeaderByte2, Reading
<1>2. (masked <=> IsMasked(f)) /\ len = LengthCode(f)
  BY <1>1, WireBytes
<1>3. len \in Nat
  BY <1>2, PayloadType
<1>4. \/ len < 126 /\ masked /\ GoOn(g, "mask", 4)
      \/ len \in 1 .. 125 /\ ~masked /\ GoOn(g, "body", 0)
      \/ len = 0 /\ ~masked /\ Complete(g)
      \/ len >= 126 /\ GoOn(h, "length", IF len = 126 THEN 2 ELSE 8)
  BY DEF HeaderByte2
<1> HIDE DEF b, masked, len
<1>5. frame_ \in FrameFields
  BY DEF ReaderType, FrameFields
<1>6. /\ g.fin = f.fin /\ g.opcode = f.opcode /\ g.masked = masked /\ g.length = len
      /\ g.content = <<>>
      /\ h.fin = f.fin /\ h.opcode = f.opcode /\ h.masked = masked /\ h.length = 0
  BY <1>1, <1>5 DEF FrameFields
<1> HIDE DEF g, h
<1>a. Width(f) # 0 => len >= 126
  BY <1>2, LengthFits, Places
<1>b. Width(f) = 0 => len = Len(f.content) /\ Len(f.content) < 126
  BY <1>2, LengthFits
<1>c. IsMasked(f) => BodyPlace(f) = 2 + Width(f) + 4
  BY Places
<1>d. ~IsMasked(f) => BodyPlace(f) = 2 + Width(f)
  BY Places
<1>e. Len(Wire(f)) = BodyPlace(f) + Len(f.content) /\ Len(f.content) \in Nat
  BY Places
<1>7. CASE len < 126 /\ masked /\ GoOn(g, "mask", 4)
  <2>1. Width(f) = 0
    BY <1>3, <1>7, <1>a
  <2>2. 2 = BodyPlace(f) - 4 /\ 2 < Len(Wire(f)) /\ len = Len(f.content)
    BY <1>2, <1>7, <2>1, <1>b, <1>c, <1>e
  <2>3. state_' = "mask" /\ left' = 4 /\ frame_' = g /\ parsed' = parsed
    BY <1>7 DEF GoOn
  <2>4. Reading(f, 2)'
    <3>1. \A i \in 1 .. 4 - left' : frame_'.key[i] = f.key[i]
      BY <2>3
    <3>2. IsMasked(f)
      BY <1>2, <1>7
    <3>3. frame_'.masked <=> IsMasked(f)
      BY <1>2, <1>6, <2>3
    <3>4. /\ frame_'.fin = f.fin /\ frame_'.opcode = f.opcode
          /\ frame_'.length = Len(f.content) /\ frame_'.content = <<>>
      BY <1>6, <2>2, <2>3
    <3>5. QED
      BY <2>2, <2>3, <3>1, <3>2, <3>3, <3>4 DEF Reading
  <2>5. QED
    BY <1>1, <2>2, <2>3, <2>4 DEF Advances
<1>8. CASE len \in 1 .. 125 /\ ~masked /\ GoOn(g, "body", 0)
  <2>1. Width(f) = 0
    BY <1>3, <1>8, <1>a
  <2>2. 2 = BodyPlace(f) /\ 2 < Len(Wire(f)) /\ len = Len(f.content) /\ Len(f.content) > 0
    <3>1. len >= 1
      BY <1>8
    <3>2. ~IsMasked(f)
      BY <1>2, <1>8
    <3>3. QED
      BY <1>b, <1>d, <1>e, <2>1, <3>1, <3>2
  <2>3. state_' = "body" /\ frame_' = g /\ parsed' = parsed
    BY <1>8 DEF GoOn
  <2>4. Len(g.content) = 0
    BY <1>6
  <2>5. Reading(f, 2)'
    BY <1>2, <1>6, <1>8, <2>2, <2>3, <2>4 DEF Reading
  <2>6. QED
    BY <1>1, <2>2, <2>3, <2>5 DEF Advances
<1>9. CASE len = 0 /\ ~masked /\ Complete(g)
  <2>1. Width(f) = 0
    BY <1>3, <1>9, <1>a
  <2>2. Len(Wire(f)) = 2 /\ Len(f.content) = 0
    BY <1>2, <1>9, <2>1, <1>b, <1>d, <1>e
  <2>3. f.content = <<>>
    BY <2>2, FrameType
  <2>4. state_' = "header_byte1" /\ parsed' = Append(parsed, Sent(f))
    BY <1>6, <1>9, <2>3 DEF Complete, Sent
  <2>5. QED
    BY <1>1, <2>2, <2>4 DEF Advances
<1>10. CASE len >= 126 /\ GoOn(h, "length", IF len = 126 THEN 2 ELSE 8)
  <2>1. Width(f) # 0
    BY <1>2, <1>10, LengthFits, Places
  <2>2. Width(f) = IF len = 126 THEN 2 ELSE 8
    BY <1>2, <2>1, LengthFits, Places
  <2>3. 2 = KeyPlace(f) - Width(f) /\ 2 < Len(Wire(f)) /\ Width(f) >= 1
    BY <2>1, Places
  <2>4. state_' = "length" /\ left' = Width(f) /\ frame_' = h /\ parsed' = parsed
    BY <1>10, <2>2 DEF GoOn
  <2>5. Shifted(Len(f.content), Width(f)) = 0
    BY <2>1, LengthFits
  <2>6. Reading(f, 2)'
    BY <1>2, <1>6, <2>3, <2>4, <2>5, Places DEF Reading
  <2>7. QED
    BY <1>1, <2>3, <2>4, <2>6 DEF Advances
<1>11. QED
  BY <1>4, <1>7, <1>8, <1>9, <1>10

\* A byte of the length is taken, and the last leads to the key or the content.
LEMMA LengthByteAdvances ==
  ASSUME ReaderType, NEW f \in Frames, NEW k \in Nat, Reading(f, k), k < Len(Wire(f)),
         LengthByte(Wire(f)[k + 1])
  PROVE  Advances(f, k)
<1> DEFINE b == Wire(f)[k + 1]
           n == Len(f.content)
           len == frame_.length * 256 + b
           g == [frame_ EXCEPT !.length = len]
           h == [g EXCEPT !.content = <<>>]
<1>1. /\ frame_.fin = f.fin /\ frame_.opcode = f.opcode
      /\ frame_.masked <=> IsMasked(f)
      /\ left >= 1 /\ left <= Width(f) /\ k = KeyPlace(f) - left
      /\ frame_.length = Shifted(n, left)
  BY DEF LengthByte, Reading
<1>2. left \in Nat /\ Width(f) \in Nat /\ KeyPlace(f) = 2 + Width(f) /\ n \in Nat
  <2>1. left \in Nat
    BY DEF ReaderType
  <2>2. Width(f) \in Nat /\ KeyPlace(f) = 2 + Width(f)
    BY Places
  <2>3. n \in Nat
    BY Places
  <2>4. QED
    BY <2>1, <2>2, <2>3
<1>3. \/ left > 1 /\ GoOn(g, "length", left - 1)
      \/ left = 1 /\ frame_.masked /\ GoOn(h, "mask", 4)
      \/ left = 1 /\ ~frame_.masked /\ GoOn(h, "body", 0)
  BY DEF LengthByte
<1>4. b = Shifted(n, left - 1) % 256
  <2>1. Width(f) - left + 1 \in 1 .. Width(f) /\ k + 1 = 2 + (Width(f) - left + 1)
    BY <1>1, <1>2
  <2>2. Width(f) - (Width(f) - left + 1) = left - 1
    BY <1>2
  <2>3. Wire(f)[2 + (Width(f) - left + 1)] = Shifted(n, Width(f) - (Width(f) - left + 1)) % 256
    BY <2>1, WireBytes
  <2>4. QED
    BY <2>1, <2>2, <2>3
<1>5. len = Shifted(n, left - 1)
  <2>1. left - 1 \in Nat /\ left - 1 + 1 = left
    BY <1>1, <1>2
  <2>2. Shifted(n, left - 1) \in Nat /\ Shifted(n, left) = Shifted(n, left - 1) \div 256
    <3>1. n \in Nat
      BY <1>2
    <3> DEFINE m == left - 1
    <3>2. m \in Nat /\ m + 1 = left
      BY <2>1
    <3> HIDE DEF n, m
    <3>3. Shifted(n, m) \in Nat /\ Shifted(n, m + 1) = Shifted(n, m) \div 256
      BY <3>1, <3>2, ShiftedStep
    <3>4. QED
      BY <3>2, <3>3 DEF m
  <2>3. \A m \in Nat : (m \div 256) * 256 + (m % 256) = m
    OBVIOUS
  <2>4. QED
    BY <1>1, <1>4, <2>2, <2>3
<1>6. frame_ \in FrameFields
  BY DEF ReaderType, FrameFields
<1> HIDE DEF len
<1>7. /\ g.fin = f.fin /\ g.opcode = f.opcode /\ g.masked = frame_.masked /\ g.length = len
      /\ h.fin = f.fin /\ h.opcode = f.opcode /\ h.masked = frame_.masked /\ h.length = len
      /\ h.content = <<>>
  BY <1>1, <1>6 DEF FrameFields
<1> HIDE DEF g, h
<1>8. Shifted(n, 0) = n
  BY <1>2, ShiftedStep
<1>9. Width(f) # 0
  BY <1>1, <1>2
<1>10. Len(Wire(f)) = BodyPlace(f) + n
  BY Places
<1>11. CASE left > 1 /\ GoOn(g, "length", left - 1)
  <2>1. state_' = "length" /\ left' = left - 1 /\ frame_' = g /\ parsed' = parsed
    BY <1>11 DEF GoOn
  <2>2. /\ left' >= 1 /\ left' <= Width(f) /\ k + 1 = KeyPlace(f) - left'
    BY <1>1, <1>2, <1>11, <2>1
  <2>3. frame_'.length = Shifted(n, left') /\ (frame_'.masked <=> IsMasked(f))
    BY <1>1, <1>5, <1>7, <2>1
  <2>4. Reading(f, k + 1)'
    BY <1>7, <2>1, <2>2, <2>3 DEF Reading
  <2>5. k + 1 < Len(Wire(f))
    <3>1. BodyPlace(f) >= KeyPlace(f) /\ BodyPlace(f) \in Nat
      BY Places
    <3>2. k + 1 < KeyPlace(f)
      BY <1>1, <1>2, <1>11
    <3>3. QED
      BY <1>2, <1>10, <3>1, <3>2
  <2>6. QED
    BY <2>1, <2>4, <2>5 DEF Advances
<1>12. CASE left = 1 /\ frame_.masked /\ GoOn(h, "mask", 4)
  <2>1. state_' = "mask" /\ left' = 4 /\ frame_' = h /\ parsed' = parsed
    BY <1>12 DEF GoOn
  <2>2. IsMasked(f) /\ BodyPlace(f) = KeyPlace(f) + 4
    BY <1>1, <1>12, Places
  <2>3. k + 1 = BodyPlace(f) - 4 /\ k + 1 < Len(Wire(f))
    BY <1>1, <1>2, <1>10, <1>12, <2>2
  <2>4. frame_'.length = n /\ frame_'.content = <<>> /\ (frame_'.masked <=> IsMasked(f))
    <3>1. frame_'.length = n /\ frame_'.content = <<>>
      BY <1>5, <1>7, <1>8, <1>12, <2>1
    <3>2. frame_'.masked <=> IsMasked(f)
      BY <1>1, <1>7, <2>1
    <3>3. QED
      BY <3>1, <3>2
  <2>5. \A i \in 1 .. 4 - left' : frame_'.key[i] = f.key[i]
    BY <2>1
  <2>6. Reading(f, k + 1)'
    BY <1>7, <2>1, <2>2, <2>3, <2>4, <2>5 DEF Reading
  <2>7. QED
    BY <2>1, <2>3, <2>6 DEF Advances
<1>13. CASE left = 1 /\ ~frame_.masked /\ GoOn(h, "body", 0)
  <2>1. state_' = "body" /\ frame_' = h /\ parsed' = parsed
    BY <1>13 DEF GoOn
  <2>2. ~IsMasked(f) /\ BodyPlace(f) = KeyPlace(f) /\ n > 0
    BY <1>1, <1>9, <1>13, Places, LengthFits
  <2>3. k + 1 = BodyPlace(f) /\ k + 1 < Len(Wire(f))
    BY <1>1, <1>2, <1>10, <1>13, <2>2
  <2>4. frame_'.length = n /\ Len(frame_'.content) = 0 /\ (frame_'.masked <=> IsMasked(f))
    BY <1>1, <1>5, <1>7, <1>8, <1>13, <2>1
  <2>5. Reading(f, k + 1)'
    BY <1>7, <2>1, <2>2, <2>3, <2>4 DEF Reading
  <2>6. QED
    BY <2>1, <2>3, <2>5 DEF Advances
<1>14. QED
  BY <1>3, <1>11, <1>12, <1>13

\* A byte of the key is taken, and the last leads to the content.
LEMMA MaskByteAdvances ==
  ASSUME ReaderType, NEW f \in Frames, NEW k \in Nat, Reading(f, k), k < Len(Wire(f)),
         MaskByte(Wire(f)[k + 1])
  PROVE  Advances(f, k)
<1> DEFINE b == Wire(f)[k + 1]
           n == Len(f.content)
           g == [frame_ EXCEPT !.key[5 - left] = b]
<1>1. /\ frame_.fin = f.fin /\ frame_.opcode = f.opcode
      /\ frame_.masked <=> IsMasked(f)
      /\ IsMasked(f) /\ left >= 1 /\ left <= 4 /\ k = BodyPlace(f) - left
      /\ frame_.length = n /\ frame_.content = <<>>
      /\ \A i \in 1 .. 4 - left : frame_.key[i] = f.key[i]
  BY DEF MaskByte, Reading
<1>2. left \in Nat
  BY DEF ReaderType
<1>3. KeyPlace(f) \in Nat /\ BodyPlace(f) = KeyPlace(f) + 4 /\ n \in Nat
      /\ Len(Wire(f)) = BodyPlace(f) + n
  BY <1>1, Places
<1>4. b = f.key[5 - left]
  <2>1. Len(Key(f)) = 4
    BY <1>1, PayloadType
  <2>2. 5 - left \in 1 .. 4 /\ k + 1 = KeyPlace(f) + (5 - left)
    BY <1>1, <1>2, <1>3
  <2>3. Wire(f)[KeyPlace(f) + (5 - left)] = f.key[5 - left]
    <3> DEFINE i == 5 - left
    <3>1. i \in 1 .. 4
      BY <2>2
    <3> HIDE DEF i
    <3>2. \A j \in 1 .. Len(Key(f)) : Wire(f)[KeyPlace(f) + j] = f.key[j]
      BY WireBytes
    <3>3. Wire(f)[KeyPlace(f) + i] = f.key[i]
      BY <2>1, <3>1, <3>2
    <3>4. QED
      BY <3>3 DEF i
  <2>4. QED
    BY <2>2, <2>3
<1>5. \/ left > 1 /\ GoOn(g, "mask", left - 1)
      \/ left = 1 /\ frame_.length > 0 /\ GoOn(g, "body", 0)
      \/ left = 1 /\ frame_.length = 0 /\ Complete(g)
  BY DEF MaskByte
<1>6. frame_ \in FrameFields /\ b \in Byte
  <2>1. f.key \in [1 .. 4 -> Byte] /\ 5 - left \in 1 .. 4
    BY <1>1, <1>2, FrameType
  <2>2. QED
    BY <1>4, <2>1 DEF ReaderType, FrameFields
<1> HIDE DEF b
<1>7. /\ g.fin = f.fin /\ g.opcode = f.opcode /\ g.masked = frame_.masked
      /\ g.length = n /\ g.content = <<>> /\ g.key \in [1 .. 4 -> Byte]
      /\ \A i \in 1 .. 4 - (left - 1) : g.key[i] = f.key[i]
  <2>1. /\ g.fin = f.fin /\ g.opcode = f.opcode /\ g.masked = frame_.masked
        /\ g.length = n /\ g.content = <<>>
    BY <1>1, <1>6 DEF FrameFields
  <2>2. g.key = [frame_.key EXCEPT ![5 - left] = b] /\ frame_.key \in [1 .. 4 -> Byte]
    BY <1>6 DEF FrameFields
  <2>3. 4 - (left - 1) = 5 - left /\ 5 - left \in 1 .. 4
    BY <1>1, <1>2
  <2>4. ASSUME NEW i \in 1 .. 5 - left PROVE g.key[i] = f.key[i]
    <3>1. CASE i = 5 - left
      BY <1>4, <2>2, <2>3, <3>1
    <3>2. CASE i # 5 - left
      <4>1. i \in 1 .. 4 - left /\ i \in 1 .. 4
        BY <1>1, <1>2, <3>2
      <4>2. QED
        BY <1>1, <2>2, <3>2, <4>1
    <3>3. QED
      BY <3>1, <3>2
  <2>5. g.key \in [1 .. 4 -> Byte]
    BY <1>6, <2>2
  <2> HIDE DEF g
  <2>6. QED
    BY <2>1, <2>3, <2>4, <2>5
<1> HIDE DEF g
<1>8. CASE left > 1 /\ GoOn(g, "mask", left - 1)
  <2>1. state_' = "mask" /\ left' = left - 1 /\ frame_' = g /\ parsed' = parsed
    BY <1>8 DEF GoOn
  <2>2. /\ left' >= 1 /\ left' <= 4 /\ k + 1 = BodyPlace(f) - left'
        /\ k + 1 < Len(Wire(f))
    BY <1>1, <1>2, <1>3, <1>8, <2>1
  <2>3. /\ frame_'.length = n /\ frame_'.content = <<>>
        /\ frame_'.fin = f.fin /\ frame_'.opcode = f.opcode
        /\ \A i \in 1 .. 4 - left' : frame_'.key[i] = f.key[i]
    BY <1>7, <2>1
  <2>4. frame_'.masked <=> IsMasked(f)
    BY <1>1, <1>7, <2>1
  <2>5. Reading(f, k + 1)'
    BY <1>1, <2>1, <2>2, <2>3, <2>4 DEF Reading
  <2>6. QED
    BY <2>1, <2>2, <2>5 DEF Advances
<1>9. CASE left = 1 /\ frame_.length > 0 /\ GoOn(g, "body", 0)
  <2>1. state_' = "body" /\ frame_' = g /\ parsed' = parsed
    BY <1>9 DEF GoOn
  <2>2. k + 1 = BodyPlace(f) /\ k + 1 < Len(Wire(f)) /\ n > 0
    BY <1>1, <1>3, <1>9
  <2>3. /\ frame_'.length = n /\ Len(frame_'.content) = 0
        /\ frame_'.fin = f.fin /\ frame_'.opcode = f.opcode
    BY <1>7, <2>1
  <2>4. frame_'.masked <=> IsMasked(f)
    BY <1>1, <1>7, <2>1
  <2>5. frame_'.key = f.key
    <3>1. \A i \in 1 .. 4 : g.key[i] = f.key[i]
      BY <1>7, <1>9
    <3>2. f.key \in [1 .. 4 -> Byte]
      BY FrameType
    <3>3. QED
      BY <1>7, <2>1, <3>1, <3>2
  <2>6. Reading(f, k + 1)'
    BY <1>3, <2>1, <2>2, <2>3, <2>4, <2>5 DEF Reading
  <2>7. QED
    BY <2>1, <2>2, <2>6 DEF Advances
<1>10. CASE left = 1 /\ frame_.length = 0 /\ Complete(g)
  <2>1. n = 0
    BY <1>1, <1>10
  <2>2. f.content = <<>>
    BY <2>1, FrameType
  <2>3. state_' = "header_byte1" /\ parsed' = Append(parsed, Sent(f))
    BY <1>7, <1>10, <2>2 DEF Complete, Sent
  <2>4. k + 1 = Len(Wire(f))
    BY <1>1, <1>3, <1>10, <2>1
  <2>5. QED
    BY <2>3, <2>4 DEF Advances
<1>11. QED
  BY <1>5, <1>8, <1>9, <1>10

\* The content of a whole frame, unmasked, is the content that was sent.
LEMMA UnmaskedPayload ==
  ASSUME NEW f \in Frames, NEW g \in FrameFields,
         g.content = Payload(f), g.length = Len(f.content),
         g.masked <=> IsMasked(f), IsMasked(f) => g.key = f.key
  PROVE  Unmasked(g) = f.content
<1> DEFINE n == Len(f.content)
<1>1. /\ f.content \in [1 .. n -> Byte] /\ n \in Nat /\ f.key \in [1 .. 4 -> Byte]
      /\ DOMAIN f.content = 1 .. n
  BY FrameType
<1>2. DOMAIN Payload(f) = 1 .. n
  BY PayloadType, LenProperties
<1>3. Unmasked(g) = [i \in 1 .. n |-> Unmasked(g)[i]]
  BY <1>2 DEF Unmasked
<1>4. ASSUME NEW i \in 1 .. n PROVE Unmasked(g)[i] = f.content[i]
  <2>1. i \in DOMAIN g.content /\ i <= g.length
    BY <1>1, <1>2
  <2>2. CASE IsMasked(f)
    <3> DEFINE key == f.key[((i - 1) % 4) + 1]
    <3>1. Payload(f)[i] = Xor(f.content[i], key)
      BY <1>1, <2>2 DEF Payload, Masked
    <3>2. Unmasked(g)[i] = Xor(Payload(f)[i], key)
      BY <2>1, <2>2 DEF Unmasked
    <3>3. ((i - 1) % 4) + 1 \in 1 .. 4
      BY <1>1
    <3>4. f.content[i] \in Byte /\ key \in Byte
      BY <1>1, <3>3
    <3>5. QED
      BY <3>1, <3>2, <3>4, XorTwice
  <2>3. CASE ~IsMasked(f)
    BY <2>1, <2>3 DEF Unmasked, Payload
  <2>4. QED
    BY <2>2, <2>3
<1>5. QED
  BY <1>1, <1>3, <1>4

\* A byte of the content is taken, and the last completes the frame as sent.
LEMMA BodyByteAdvances ==
  ASSUME ReaderType, NEW f \in Frames, NEW k \in Nat, Reading(f, k), k < Len(Wire(f)),
         BodyByte(Wire(f)[k + 1])
  PROVE  Advances(f, k)
<1> DEFINE b == Wire(f)[k + 1]
           n == Len(f.content)
           c == frame_.content
           d == Append(c, b)
           g == [frame_ EXCEPT !.content = d]
           h == [g EXCEPT !.content = Unmasked(g)]
<1>1. /\ frame_.fin = f.fin /\ frame_.opcode = f.opcode
      /\ frame_.masked <=> IsMasked(f)
      /\ k = BodyPlace(f) + Len(c) /\ frame_.length = n
      /\ Len(c) < n
      /\ IsMasked(f) => frame_.key = f.key
      /\ \A i \in 1 .. Len(c) : c[i] = Payload(f)[i]
  BY DEF BodyByte, Reading
<1>2. \/ Len(d) < g.length /\ GoOn(g, "body", 0)
      \/ Len(d) >= g.length /\ Complete(h)
  BY DEF BodyByte
<1>3. frame_ \in FrameFields /\ c \in Seq(Byte) /\ Len(c) \in Nat
  <2>1. frame_ \in FrameFields
    BY DEF ReaderType, FrameFields
  <2>2. c \in Seq(Byte)
    BY <2>1 DEF FrameFields
  <2>3. QED
    BY <2>1, <2>2, LenProperties
<1>4. BodyPlace(f) \in Nat /\ n \in Nat /\ Len(Wire(f)) = BodyPlace(f) + n
  BY Places
<1>5. b = Payload(f)[Len(c) + 1] /\ b \in Byte
  <2>1. Len(c) + 1 \in 1 .. n /\ k + 1 = BodyPlace(f) + (Len(c) + 1)
    BY <1>1, <1>3, <1>4
  <2>2. b = Payload(f)[Len(c) + 1]
    BY <2>1, WireBytes
  <2>3. Payload(f) \in [1 .. n -> Byte]
    BY PayloadType, LenProperties
  <2>4. QED
    BY <2>1, <2>2, <2>3
<1> HIDE DEF b
<1>6. /\ d \in Seq(Byte) /\ Len(d) = Len(c) + 1
      /\ \A i \in 1 .. Len(d) : d[i] = Payload(f)[i]
  <2>1. /\ d \in Seq(Byte) /\ Len(d) = Len(c) + 1
        /\ \A i \in 1 .. Len(c) : d[i] = c[i]
        /\ d[Len(c) + 1] = b
    BY <1>3, <1>5, AppendProperties
  <2>2. \A m \in Nat : \A i \in 1 .. m + 1 : i \in 1 .. m \/ i = m + 1
    OBVIOUS
  <2>3. \A i \in 1 .. Len(c) + 1 : i \in 1 .. Len(c) \/ i = Len(c) + 1
    BY <1>3, <2>2
  <2>4. QED
    BY <1>1, <1>5, <2>1, <2>3
<1> HIDE DEF d
<1>7. /\ g.fin = f.fin /\ g.opcode = f.opcode /\ g.masked = frame_.masked
      /\ g.length = n /\ g.content = d /\ g.key = frame_.key /\ g \in FrameFields
  BY <1>1, <1>3, <1>6 DEF FrameFields
<1> HIDE DEF g
<1>8. h.fin = f.fin /\ h.opcode = f.opcode /\ h.content = Unmasked(g)
  BY <1>7 DEF FrameFields
<1> HIDE DEF h
<1>9. CASE Len(d) < g.length /\ GoOn(g, "body", 0)
  <2>1. state_' = "body" /\ frame_' = g /\ parsed' = parsed
    BY <1>9 DEF GoOn
  <2>2. /\ Len(d) < n /\ k + 1 = BodyPlace(f) + Len(d)
        /\ k + 1 < Len(Wire(f))
    BY <1>1, <1>3, <1>4, <1>6, <1>7, <1>9
  <2>3. /\ frame_'.fin = f.fin /\ frame_'.opcode = f.opcode
        /\ frame_'.length = n /\ frame_'.content = d
        /\ IsMasked(f) => frame_'.key = f.key
    BY <1>1, <1>7, <2>1
  <2>4. frame_'.masked <=> IsMasked(f)
    BY <1>1, <1>7, <2>1
  <2>5. Reading(f, k + 1)'
    BY <1>6, <2>1, <2>2, <2>3, <2>4 DEF Reading
  <2>6. QED
    BY <2>1, <2>2, <2>5 DEF Advances
<1>10. CASE Len(d) >= g.length /\ Complete(h)
  <2>1. Len(d) = n
    BY <1>1, <1>3, <1>4, <1>6, <1>7, <1>10
  <2>2. d = Payload(f)
    BY <1>6, <2>1, PayloadType, SeqEqual
  <2>3. Unmasked(g) = f.content
    BY <1>1, <1>7, <2>2, UnmaskedPayload
  <2>4. state_' = "header_byte1" /\ parsed' = Append(parsed, Sent(f))
    BY <1>8, <1>10, <2>3 DEF Complete, Sent
  <2>5. k + 1 = Len(Wire(f))
    BY <1>1, <1>3, <1>4, <1>6, <2>1
  <2>6. QED
    BY <2>4, <2>5 DEF Advances
<1>11. QED
  BY <1>2, <1>9, <1>10

\* c[i] is all that the frames from the i-th on make on the wire.
Chain(c) ==
  /\ c \in [1 .. Len(sent) + 1 -> Seq(Byte)]
  /\ c[Len(sent) + 1] = <<>>
  /\ \A i \in 1 .. Len(sent) : c[i] = Wire(sent[i]) \o c[i + 1]

\* What is left of c once n frames and k bytes more are read.
Unread(c, n, k) == SubSeq(c[n + 1], k + 1, Len(c[n + 1]))

\* The parser has read k bytes of the frame after those it completed.
InFrame(c, k) ==
  LET n == Len(parsed)
  IN  /\ Chain(c)
      /\ k \in Nat
      /\ inbox = Unread(c, n, k)
      /\ n = Len(sent) => k = 0 /\ state_ = "header_byte1"
      /\ n < Len(sent) => k < Len(Wire(sent[n + 1])) /\ Reading(sent[n + 1], k)

\* The inductive invariant: the frames completed are the first ones sent, and the
\* bytes not read are the rest of the frame being read and all after it.
BoundaryInv ==
  /\ Len(parsed) <= Len(sent)
  /\ \A i \in 1 .. Len(parsed) : parsed[i] = Sent(sent[i])
  /\ \E c, k : InFrame(c, k)

\* Before anything was sent the reader is at the start of a frame.
LEMMA InitBoundary == ReaderInit => BoundaryInv
<1> SUFFICES ASSUME ReaderInit PROVE BoundaryInv
  OBVIOUS
<1> DEFINE c == [i \in 1 .. 1 |-> <<>>]
<1>1. Len(sent) = 0 /\ Len(parsed) = 0 /\ inbox = <<>> /\ state_ = "header_byte1"
  BY DEF ReaderInit
<1>2. <<>> \in Seq(Byte) /\ c[1] = <<>>
  BY EmptySeq
<1>3. Chain(c)
  BY <1>1, <1>2 DEF Chain
<1>4. Unread(c, 0, 0) = <<>>
  <2>1. SubSeq(<<>>, 1, 0) = <<>>
    BY SubSeqEmpty
  <2>2. QED
    BY <1>2, <2>1 DEF Unread
<1> HIDE DEF c
<1>5. InFrame(c, 0)
  BY <1>1, <1>3, <1>4 DEF InFrame
<1>6. QED
  BY <1>1, <1>5 DEF BoundaryInv

\* What is left of a sequence begins with the next byte.
LEMMA UnreadStep ==
  ASSUME NEW s \in Seq(Byte), NEW k \in Nat, k < Len(s)
  PROVE  /\ Head(SubSeq(s, k + 1, Len(s))) = s[k + 1]
         /\ Tail(SubSeq(s, k + 1, Len(s))) = SubSeq(s, k + 2, Len(s))
<1>1. Len(s) \in Nat
  BY LenProperties
<1>2. k + 1 \in 1 .. Len(s) /\ Len(s) \in k + 1 .. Len(s) /\ k + 1 + 1 = k + 2
  BY <1>1
<1> DEFINE m == k + 1
           n == Len(s)
<1>3. m \in 1 .. Len(s) /\ n \in m .. Len(s)
  BY <1>2
<1> HIDE DEF m, n
<1>4. Head(SubSeq(s, m, n)) = s[m] /\ Tail(SubSeq(s, m, n)) = SubSeq(s, m + 1, n)
  BY <1>3, HeadTailOfSubSeq
<1>5. QED
  BY <1>2, <1>4 DEF m, n

\* Dropping the first of two sequences leaves the second.
LEMMA DropFirst ==
  ASSUME NEW s \in Seq(Byte), NEW t \in Seq(Byte)
  PROVE  SubSeq(s \o t, Len(s) + 1, Len(s \o t)) = SubSeq(t, 1, Len(t))
<1> DEFINE u == s \o t
           m == Len(s) + 1
           n == Len(u)
           v == SubSeq(u, m, n)
<1>1. u \in Seq(Byte) /\ Len(u) = Len(s) + Len(t)
      /\ \A i \in 1 .. Len(s) + Len(t) : u[i] = IF i <= Len(s) THEN s[i] ELSE t[i - Len(s)]
  BY ConcatProperties
<1>2. Len(s) \in Nat /\ Len(t) \in Nat
  BY LenProperties
<1> HIDE DEF u
<1>3. \A i \in m .. n : u[i] \in Byte
  <2>1. u \in [1 .. n -> Byte]
    BY <1>1, LenProperties
  <2>2. QED
    BY <1>1, <1>2, <2>1
<1>4. m \in Int /\ n \in Int
  BY <1>1, <1>2
<1> HIDE DEF m, n
<1>5. v \in Seq(Byte) /\ Len(v) = (IF m <= n THEN n - m + 1 ELSE 0)
      /\ \A i \in 1 .. n - m + 1 : v[i] = u[m + i - 1]
  BY <1>3, <1>4, SubSeqProperties
<1> HIDE DEF v
<1>6. Len(v) = Len(t) /\ n - m + 1 = Len(t)
  BY <1>1, <1>2, <1>5 DEF m, n
<1>7. \A i \in 1 .. Len(t) : v[i] = t[i]
  <2> SUFFICES ASSUME NEW i \in 1 .. Len(t) PROVE v[i] = t[i]
    OBVIOUS
  <2>1. m + i - 1 = Len(s) + i /\ Len(s) + i \in 1 .. Len(s) + Len(t)
        /\ Len(s) + i > Len(s) /\ Len(s) + i - Len(s) = i
    BY <1>2 DEF m
  <2>2. v[i] = u[Len(s) + i]
    BY <1>5, <1>6, <2>1
  <2>3. u[Len(s) + i] = t[i]
    BY <1>1, <1>2, <2>1
  <2>4. QED
    BY <2>2, <2>3
<1>8. v = t
  BY <1>5, <1>6, <1>7, SeqEqual
<1>9. t = SubSeq(t, 1, Len(t))
  BY SubSeqFull
<1>10. QED
  BY <1>8, <1>9 DEF v, m, n, u

\* Bytes added at the end do not change where the rest begins.
LEMMA UnreadConcat ==
  ASSUME NEW s \in Seq(Byte), NEW t \in Seq(Byte), NEW k \in Nat, k <= Len(s)
  PROVE  SubSeq(s, k + 1, Len(s)) \o t = SubSeq(s \o t, k + 1, Len(s \o t))
<1> DEFINE u == s \o t
           a == SubSeq(s, k + 1, Len(s))
           v == SubSeq(u, k + 1, Len(u))
<1>1. u \in Seq(Byte) /\ Len(u) = Len(s) + Len(t)
      /\ \A i \in 1 .. Len(s) + Len(t) : u[i] = IF i <= Len(s) THEN s[i] ELSE t[i - Len(s)]
  BY ConcatProperties
<1>2. Len(s) \in Nat /\ Len(t) \in Nat
      /\ s \in [1 .. Len(s) -> Byte] /\ t \in [1 .. Len(t) -> Byte]
  BY LenProperties
<1>3. u \in [1 .. Len(u) -> Byte]
  BY <1>1, LenProperties
<1> HIDE DEF u
<1> DEFINE m == k + 1
           p == Len(s)
           q == Len(u)
<1>4. m \in Int /\ p \in Int /\ q \in Int
      /\ (\A i \in m .. p : s[i] \in Byte) /\ (\A i \in m .. q : u[i] \in Byte)
  BY <1>1, <1>2, <1>3
<1> HIDE DEF m, p, q
<1>5. /\ SubSeq(s, m, p) \in Seq(Byte)
      /\ Len(SubSeq(s, m, p)) = IF m <= p THEN p - m + 1 ELSE 0
      /\ \A i \in 1 .. p - m + 1 : SubSeq(s, m, p)[i] = s[m + i - 1]
  BY <1>4, SubSeqProperties
<1>6. /\ SubSeq(u, m, q) \in Seq(Byte)
      /\ Len(SubSeq(u, m, q)) = IF m <= q THEN q - m + 1 ELSE 0
      /\ \A i \in 1 .. q - m + 1 : SubSeq(u, m, q)[i] = u[m + i - 1]
  BY <1>4, SubSeqProperties
<1>7. a = SubSeq(s, m, p) /\ v = SubSeq(u, m, q)
  BY DEF m, p, q
<1> HIDE DEF a, v
<1>8. p - m + 1 = Len(s) - k /\ q - m + 1 = Len(s) + Len(t) - k
      /\ \A i \in Int : m + i - 1 = k + i
  BY <1>1, <1>2 DEF m, p, q
<1>9. Len(s) - k >= 0 /\ Len(s) + Len(t) - k >= 0
  BY <1>2
<1>10. /\ a \in Seq(Byte) /\ Len(a) = Len(s) - k
       /\ \A i \in 1 .. Len(s) - k : a[i] = s[k + i]
  <2>1. Len(s) \in Nat
    BY <1>2
  <2>2. Len(a) = Len(s) - k
    BY <1>5, <1>7, <2>1 DEF m, p
  <2>3. ASSUME NEW i \in 1 .. Len(s) - k PROVE a[i] = s[k + i]
    <3>1. i \in 1 .. p - m + 1 /\ m + i - 1 = k + i
      BY <1>8
    <3>2. QED
      BY <1>5, <1>7, <3>1
  <2>4. QED
    BY <1>5, <1>7, <2>2, <2>3
<1>11. /\ v \in Seq(Byte) /\ Len(v) = Len(s) + Len(t) - k
       /\ \A i \in 1 .. Len(s) + Len(t) - k : v[i] = u[k + i]
  <2>1. Len(s) \in Nat /\ Len(t) \in Nat
    BY <1>2
  <2>2. Len(u) = Len(s) + Len(t)
    BY <1>1
  <2>3. Len(v) = Len(s) + Len(t) - k
    BY <1>6, <1>7, <2>1, <2>2 DEF m, q
  <2>4. ASSUME NEW i \in 1 .. Len(s) + Len(t) - k PROVE v[i] = u[k + i]
    <3>1. i \in 1 .. q - m + 1 /\ m + i - 1 = k + i
      BY <1>8
    <3>2. QED
      BY <1>6, <1>7, <3>1
  <2>5. QED
    BY <1>6, <1>7, <2>3, <2>4
<1>12. /\ a \o t \in Seq(Byte) /\ Len(a \o t) = Len(a) + Len(t)
       /\ \A i \in 1 .. Len(a) + Len(t) : (a \o t)[i] = IF i <= Len(a) THEN a[i] ELSE t[i - Len(a)]
  BY <1>10, ConcatProperties
<1>13. Len(a) + Len(t) = Len(s) + Len(t) - k
  BY <1>2, <1>10
<1>14. \A i \in 1 .. Len(s) + Len(t) - k : (a \o t)[i] = v[i]
  <2> SUFFICES ASSUME NEW i \in 1 .. Len(s) + Len(t) - k PROVE (a \o t)[i] = v[i]
    OBVIOUS
  <2>1. v[i] = u[k + i] /\ k + i \in 1 .. Len(s) + Len(t)
    BY <1>2, <1>11
  <2>2. (a \o t)[i] = IF i <= Len(a) THEN a[i] ELSE t[i - Len(a)]
    BY <1>12, <1>13
  <2>3. CASE i <= Len(s) - k
    <3>1. i \in 1 .. Len(s) - k /\ k + i <= Len(s) /\ i <= Len(a)
      BY <1>2, <1>10, <2>3
    <3>2. QED
      BY <1>1, <1>10, <2>1, <2>2, <3>1
  <2>4. CASE i > Len(s) - k
    <3>1. ~(k + i <= Len(s)) /\ ~(i <= Len(a)) /\ i - Len(a) = k + i - Len(s)
      BY <1>2, <1>10, <2>4
    <3>2. QED
      BY <1>1, <2>1, <2>2, <3>1
  <2>5. i <= Len(s) - k \/ i > Len(s) - k
    <3>1. Len(s) \in Nat
      BY <1>2
    <3>2. QED
      BY <3>1
  <2>6. QED
    BY <2>3, <2>4, <2>5
<1>15. a \o t = v
  BY <1>11, <1>12, <1>13, <1>14, SeqEqual
<1>16. QED
  BY <1>15 DEF a, v, u

\* The frames completed stay the first ones sent when another is sent or completed.
LEMMA SendBoundary ==
  ASSUME ReaderType, BoundaryInv, NEW f \in Frames, Send(f)
  PROVE  BoundaryInv'
<1> DEFINE n == Len(parsed)
           N == Len(sent)
           w == Wire(f)
<1>1. PICK c, k : InFrame(c, k)
  BY DEF BoundaryInv
<1>0. PICK d : d = [i \in 1 .. N + 2 |-> IF i <= N + 1 THEN c[i] \o w ELSE <<>>]
  OBVIOUS
<1>2. /\ sent' = Append(sent, f) /\ inbox' = inbox \o w
      /\ state_' = state_ /\ left' = left /\ frame_' = frame_ /\ parsed' = parsed
  BY DEF Send
<1>3. N \in Nat /\ n \in Nat /\ n <= N
  BY LenProperties DEF ReaderType, BoundaryInv
<1>4. Len(sent') = N + 1 /\ sent'[N + 1] = f /\ \A i \in 1 .. N : sent'[i] = sent[i]
  BY <1>2, AppendProperties DEF ReaderType
<1>5. w \in Seq(Byte) /\ Len(w) \in Nat /\ Len(w) >= 2
  <2>1. w \in Seq(Byte)
    BY WireBytes
  <2>2. Len(w) >= 2
    BY Places
  <2>3. QED
    BY <2>1, <2>2, LenProperties
<1>6. Chain(c) /\ k \in Nat /\ inbox = Unread(c, n, k)
      /\ c \in [1 .. N + 1 -> Seq(Byte)] /\ c[N + 1] = <<>>
      /\ \A i \in 1 .. N : c[i] = Wire(sent[i]) \o c[i + 1]
  BY <1>1 DEF InFrame, Chain
<1>7. \A i \in 1 .. N : Wire(sent[i]) \in Seq(Byte)
  <2>1. \A i \in 1 .. N : sent[i] \in Frames
    BY ElementOfSeq DEF ReaderType
  <2>2. QED
    BY <2>1, WireBytes
<1> HIDE DEF N, n, w
<1>8. d \in [1 .. N + 2 -> Seq(Byte)]
  <2>1. \A i \in 1 .. N + 1 : c[i] \o w \in Seq(Byte)
    BY <1>5, <1>6, ConcatProperties
  <2>2. <<>> \in Seq(Byte)
    BY EmptySeq
  <2>3. QED
    BY <1>0, <1>3, <2>1, <2>2
<1>9. d[N + 2] = <<>> /\ d[N + 1] = w /\ w = w \o <<>>
  <2>1. <<>> \o w = w /\ w \o <<>> = w
    BY <1>5, ConcatEmptySeq
  <2>2. d[N + 2] = <<>> /\ d[N + 1] = c[N + 1] \o w
    <3>1. N + 2 \in 1 .. N + 2 /\ N + 1 \in 1 .. N + 2 /\ ~(N + 2 <= N + 1)
      BY <1>3
    <3>2. QED
      BY <1>0, <3>1
  <2>3. QED
    BY <1>6, <2>1, <2>2
<1>10. \A i \in 1 .. N + 1 : d[i] = Wire(sent'[i]) \o d[i + 1]
  <2> SUFFICES ASSUME NEW i \in 1 .. N + 1
               PROVE  d[i] = Wire(sent'[i]) \o d[i + 1]
    OBVIOUS
  <2>1. CASE i = N + 1
    <3>1. Wire(sent'[i]) = w /\ i + 1 = N + 2
      BY <1>3, <1>4, <2>1 DEF w
    <3>2. QED
      BY <1>9, <2>1, <3>1
  <2>2. CASE i # N + 1
    <3>1. i \in 1 .. N /\ i + 1 \in 1 .. N + 1
      BY <1>3, <2>2
    <3>2. d[i] = c[i] \o w /\ d[i + 1] = c[i + 1] \o w
      BY <1>0, <1>3, <3>1
    <3>3. c[i + 1] \in Seq(Byte) /\ Wire(sent[i]) \in Seq(Byte)
      BY <1>6, <1>7, <3>1
    <3>4. (Wire(sent[i]) \o c[i + 1]) \o w = Wire(sent[i]) \o (c[i + 1] \o w)
      <4> DEFINE a == Wire(sent[i])
                 r == c[i + 1]
      <4>1. a \in Seq(Byte)
        BY <3>3
      <4>2. r \in Seq(Byte)
        BY <3>3
      <4> HIDE DEF a, r
      <4>3. w \in Seq(Byte)
        BY <1>5
      <4>4. (a \o r) \o w = a \o (r \o w)
        BY <4>1, <4>2, <4>3, ConcatAssociative
      <4>5. QED
        BY <4>4 DEF a, r
    <3>5. sent'[i] = sent[i] /\ c[i] = Wire(sent[i]) \o c[i + 1]
      BY <1>4, <1>6, <3>1
    <3>6. QED
      BY <3>2, <3>4, <3>5
  <2>3. QED
    BY <2>1, <2>2
<1>11. Chain(d)'
  <2>1. Len(sent') + 1 = N + 2
    BY <1>3, <1>4
  <2>2. d \in [1 .. Len(sent') + 1 -> Seq(Byte)]
    BY <1>8, <2>1
  <2>3. d[Len(sent') + 1] = <<>>
    BY <1>9, <2>1
  <2>4. \A i \in 1 .. Len(sent') : d[i] = Wire(sent'[i]) \o d[i + 1]
    BY <1>4, <1>10
  <2>5. QED
    BY <2>2, <2>3, <2>4 DEF Chain
<1>12. n + 1 \in 1 .. N + 1 /\ c[n + 1] \in Seq(Byte)
  BY <1>3, <1>6
<1>13. k <= Len(c[n + 1])
  <2>1. CASE n = N
    <3>1. k = 0 /\ c[n + 1] = <<>>
      BY <1>1, <1>6, <2>1 DEF InFrame, n, N
    <3>2. QED
      BY <3>1
  <2>2. CASE n < N
    <3>1. n + 1 \in 1 .. N /\ n + 1 + 1 \in 1 .. N + 1
      BY <1>3, <2>2
    <3>2. c[n + 1] = Wire(sent[n + 1]) \o c[n + 1 + 1]
          /\ Wire(sent[n + 1]) \in Seq(Byte) /\ c[n + 1 + 1] \in Seq(Byte)
      BY <1>6, <1>7, <3>1
    <3>3. Len(c[n + 1]) = Len(Wire(sent[n + 1])) + Len(c[n + 1 + 1])
      BY <3>2, ConcatProperties
    <3>4. Len(c[n + 1 + 1]) \in Nat /\ Len(Wire(sent[n + 1])) \in Nat
      BY <3>2, LenProperties
    <3>5. k < Len(Wire(sent[n + 1]))
      BY <1>1, <2>2 DEF InFrame, n, N
    <3>6. \A x, y, z \in Nat : x < y => x <= y + z
      OBVIOUS
    <3>7. QED
      BY <1>6, <3>3, <3>4, <3>5, <3>6
  <2>3. QED
    BY <1>3, <2>1, <2>2
<1>14. inbox' = Unread(d, n, k)
  <2>1. d[n + 1] = c[n + 1] \o w
    BY <1>0, <1>3, <1>12
  <2>2. QED
    BY <1>2, <1>5, <1>6, <1>12, <1>13, <2>1, UnreadConcat DEF Unread
<1>e. PICK e : e = sent'[n + 1]
  OBVIOUS
<1>15. k < Len(Wire(e)) /\ Reading(e, k)'
  <2>1. CASE n = N
    <3>1. k = 0 /\ state_' = "header_byte1" /\ e = f
      BY <1>1, <1>2, <1>4, <1>e, <2>1 DEF InFrame, n, N
    <3>2. Reading(e, k)'
      BY <3>1 DEF Reading
    <3>3. 0 < Len(w)
      BY <1>5
    <3>4. QED
      BY <3>1, <3>2, <3>3 DEF w
  <2>2. CASE n < N
    <3>1. e = sent[n + 1]
      BY <1>3, <1>4, <1>e, <2>2
    <3>2. k < Len(Wire(e)) /\ Reading(e, k)
      BY <1>1, <2>2, <3>1 DEF InFrame, n, N
    <3>3. Reading(e, k)'
      BY <1>2, <3>2 DEF Reading
    <3>4. QED
      BY <3>2, <3>3
  <2>3. QED
    BY <1>3, <2>1, <2>2
<1>16. Len(parsed') = n
  BY <1>2 DEF n
<1>17. InFrame(d, k)'
  <2>1. n < N + 1 /\ n # N + 1
    BY <1>3
  <2>2. inbox' = Unread(d, Len(parsed'), k)
    BY <1>14, <1>16
  <2>3. Len(sent') # Len(parsed') /\ sent'[Len(parsed') + 1] = e
    BY <1>4, <1>16, <1>e, <2>1
  <2>4. QED
    BY <1>6, <1>11, <1>15, <2>2, <2>3 DEF InFrame, Unread, Reading
<1>18. \A i \in 1 .. n : parsed'[i] = Sent(sent'[i])
  <2>1. \A i \in 1 .. n : parsed[i] = Sent(sent[i]) /\ i \in 1 .. N
    BY <1>3 DEF BoundaryInv, n
  <2>2. QED
    BY <1>2, <1>4, <2>1
<1>19. QED
  BY <1>3, <1>4, <1>16, <1>17, <1>18 DEF BoundaryInv

\* Whatever the field, a byte takes the parser on in the frame it is in.
LEMMA ByteAdvances ==
  ASSUME ReaderType, NEW f \in Frames, NEW k \in Nat, Reading(f, k), k < Len(Wire(f)),
         NEW b, b = Wire(f)[k + 1],
         HeaderByte1(b) \/ HeaderByte2(b) \/ LengthByte(b) \/ MaskByte(b) \/ BodyByte(b)
  PROVE  Advances(f, k)
<1>1. \/ HeaderByte1(Wire(f)[k + 1]) \/ HeaderByte2(Wire(f)[k + 1])
      \/ LengthByte(Wire(f)[k + 1]) \/ MaskByte(Wire(f)[k + 1]) \/ BodyByte(Wire(f)[k + 1])
  OBVIOUS
<1>2. QED
  BY <1>1, HeaderByte1Advances, HeaderByte2Advances, LengthByteAdvances, MaskByteAdvances,
     BodyByteAdvances

\* A byte read keeps the boundaries.
LEMMA ReadBoundary ==
  ASSUME ReaderType, BoundaryInv, ReadByte
  PROVE  BoundaryInv'
<1>1. PICK c, k : InFrame(c, k)
  BY DEF BoundaryInv
<1>2. PICK n, N : n = Len(parsed) /\ N = Len(sent)
  OBVIOUS
<1>3. N \in Nat /\ n \in Nat /\ n <= N
  BY <1>2, LenProperties DEF ReaderType, BoundaryInv
<1>4. /\ Chain(c) /\ k \in Nat /\ inbox = Unread(c, n, k)
      /\ c \in [1 .. N + 1 -> Seq(Byte)] /\ c[N + 1] = <<>>
      /\ \A i \in 1 .. N : c[i] = Wire(sent[i]) \o c[i + 1]
  BY <1>1, <1>2 DEF InFrame, Chain
<1>5. n < N
  <2>1. CASE n = N
    <3>1. k = 0 /\ c[n + 1] = <<>>
      BY <1>1, <1>2, <1>4, <2>1 DEF InFrame
    <3>2. SubSeq(<<>>, 1, 0) = <<>>
      BY SubSeqEmpty
    <3>3. inbox = <<>>
      BY <1>4, <3>1, <3>2 DEF Unread
    <3>4. QED
      BY <3>3 DEF ReadByte
  <2>2. QED
    BY <1>3, <2>1
<1>6. PICK f \in Frames : f = sent[n + 1]
  <2>1. n + 1 \in 1 .. Len(sent)
    BY <1>2, <1>3, <1>5
  <2>2. sent[n + 1] \in Frames
    BY <2>1, ElementOfSeq DEF ReaderType
  <2>3. QED
    BY <2>2
<1>7. PICK w, r : w = Wire(f) /\ r = c[n + 2]
  OBVIOUS
<1>8. /\ c[n + 1] = w \o r /\ w \in Seq(Byte) /\ r \in Seq(Byte)
      /\ Reading(f, k) /\ k < Len(w)
  <2>1. n + 1 \in 1 .. N /\ n + 1 + 1 = n + 2 /\ n + 2 \in 1 .. N + 1
    BY <1>3, <1>5
  <2>2. c[n + 1] = w \o r /\ r \in Seq(Byte)
    BY <1>4, <1>6, <1>7, <2>1
  <2>3. w \in Seq(Byte)
    BY <1>7, WireBytes
  <2>4. Reading(f, k) /\ k < Len(w)
    BY <1>1, <1>2, <1>5, <1>6, <1>7 DEF InFrame
  <2>5. QED
    BY <2>2, <2>3, <2>4
<1>9. PICK u : u = w \o r
  OBVIOUS
<1>10. /\ u \in Seq(Byte) /\ Len(u) = Len(w) + Len(r) /\ Len(w) \in Nat /\ Len(r) \in Nat
       /\ \A i \in 1 .. Len(w) + Len(r) : u[i] = IF i <= Len(w) THEN w[i] ELSE r[i - Len(w)]
  BY <1>8, <1>9, ConcatProperties, LenProperties
<1>11. inbox = SubSeq(u, k + 1, Len(u))
  BY <1>4, <1>8, <1>9 DEF Unread
<1>12. k < Len(u) /\ k + 1 \in 1 .. Len(w) + Len(r) /\ k + 1 <= Len(w)
  BY <1>4, <1>8, <1>10
<1>13. Head(inbox) = w[k + 1] /\ Tail(inbox) = SubSeq(u, k + 2, Len(u))
  <2>1. Head(inbox) = u[k + 1] /\ Tail(inbox) = SubSeq(u, k + 2, Len(u))
    BY <1>4, <1>10, <1>11, <1>12, UnreadStep
  <2>2. u[k + 1] = w[k + 1]
    BY <1>10, <1>12
  <2>3. QED
    BY <2>1, <2>2
<1>14. inbox' = SubSeq(u, k + 2, Len(u)) /\ sent' = sent
  BY <1>13 DEF ReadByte
<1>15. Advances(f, k)
  <2>1. PICK b : b = Head(inbox)
    OBVIOUS
  <2>2. HeaderByte1(b) \/ HeaderByte2(b) \/ LengthByte(b) \/ MaskByte(b) \/ BodyByte(b)
    BY <2>1 DEF ReadByte
  <2>3. b = Wire(f)[k + 1] /\ k < Len(Wire(f))
    BY <1>7, <1>8, <1>13, <2>1
  <2>4. QED
    BY <1>4, <1>8, <2>2, <2>3, ByteAdvances
<1>16. Chain(c)'
  BY <1>4, <1>14 DEF Chain
<1>17. CASE k + 1 < Len(w) /\ Reading(f, k + 1)' /\ parsed' = parsed
  <2>1. PICK l \in Nat : l = k + 1
    BY <1>4
  <2>2. Reading(f, l)' /\ l < Len(Wire(f))
    BY <1>7, <1>17, <2>1
  <2>3. l + 1 = k + 2
    BY <1>4, <2>1
  <2>4. inbox' = SubSeq(c[n + 1], l + 1, Len(c[n + 1]))
    BY <1>8, <1>9, <1>14, <2>3
  <2>5. Len(parsed') = n /\ Len(sent') = N /\ sent'[n + 1] = f /\ n # N
    BY <1>2, <1>3, <1>5, <1>6, <1>14, <1>17
  <2>6. InFrame(c, l)'
    BY <1>16, <2>2, <2>4, <2>5 DEF InFrame, Unread, Reading
  <2>7. QED
    BY <1>14, <1>17, <2>6 DEF BoundaryInv
<1>18. CASE k + 1 = Len(w) /\ state_' = "header_byte1" /\ parsed' = Append(parsed, Sent(f))
  <2>1. /\ Len(parsed') = n + 1 /\ parsed'[n + 1] = Sent(f)
        /\ \A i \in 1 .. n : parsed'[i] = parsed[i]
    <3>1. Sent(f) \in Content
      BY FrameType DEF Sent, Content
    <3>2. QED
      BY <1>2, <1>18, <3>1, AppendProperties DEF ReaderType
  <2>2. inbox' = SubSeq(r, 1, Len(r))
    <3>1. SubSeq(u, Len(w) + 1, Len(u)) = SubSeq(r, 1, Len(r))
      BY <1>8, <1>9, DropFirst
    <3>2. Len(w) + 1 = k + 2
      BY <1>4, <1>18
    <3>3. QED
      BY <1>14, <3>1, <3>2
  <2>3. n + 1 + 1 = n + 2 /\ 0 + 1 = 1 /\ n + 1 <= N
    BY <1>3, <1>5
  <2>4. inbox' = Unread(c, n + 1, 0)
    BY <1>7, <2>2, <2>3 DEF Unread
  <2>5. ASSUME n + 1 < N PROVE 0 < Len(Wire(sent[n + 2]))
    <3>1. n + 2 \in 1 .. Len(sent)
      BY <1>2, <1>3, <2>5
    <3>2. sent[n + 2] \in Frames
      BY <3>1, ElementOfSeq DEF ReaderType
    <3>3. QED
      BY <3>2, Places
  <2>6. PICK z : z = 0
    OBVIOUS
  <2>7. InFrame(c, z)'
    <3>1. inbox' = Unread(c, Len(parsed'), z)
      BY <2>1, <2>4, <2>6
    <3>2. Len(parsed') < Len(sent') => z < Len(Wire(sent'[Len(parsed') + 1]))
      BY <1>2, <1>14, <2>1, <2>3, <2>5, <2>6
    <3>3. state_' = "header_byte1" /\ z \in Nat
      BY <1>18, <2>6
    <3>4. QED
      BY <1>16, <2>6, <3>1, <3>2, <3>3 DEF InFrame, Unread, Reading
  <2>8. \A i \in 1 .. n + 1 : parsed'[i] = Sent(sent'[i])
    <3> SUFFICES ASSUME NEW i \in 1 .. n + 1 PROVE parsed'[i] = Sent(sent'[i])
      OBVIOUS
    <3>1. CASE i = n + 1
      BY <1>6, <1>14, <2>1, <3>1
    <3>2. CASE i # n + 1
      <4>1. i \in 1 .. n
        BY <1>3, <3>2
      <4>2. QED
        BY <1>2, <1>14, <2>1, <4>1 DEF BoundaryInv
    <3>3. QED
      BY <3>1, <3>2
  <2>9. QED
    BY <1>2, <1>14, <2>1, <2>3, <2>7, <2>8 DEF BoundaryInv
<1>19. QED
  BY <1>7, <1>15, <1>17, <1>18 DEF Advances

\* The functions behind BytesFrom.
BytesBy(g, n) ==
  g = [i \in n .. Len(sent) + 1 |->
         IF i > Len(sent) THEN 0 ELSE Len(Wire(sent[i])) + g[i + 1]]

\* BytesFrom counts the bytes of the chain.
LEMMA BytesOfChain ==
  ASSUME ReaderType, NEW c, Chain(c), NEW n \in 1 .. Len(sent) + 1
  PROVE  BytesFrom(n) = Len(c[n])
<1> DEFINE N == Len(sent)
           g == CHOOSE g : BytesBy(g, n)
           h == [i \in n .. N + 1 |-> Len(c[i])]
<1>1. N \in Nat /\ n \in Nat /\ n >= 1 /\ n <= N + 1
  BY LenProperties DEF ReaderType
<1>2. \A i \in 1 .. N : Len(c[i]) = Len(Wire(sent[i])) + Len(c[i + 1])
  <2> SUFFICES ASSUME NEW i \in 1 .. N
               PROVE  Len(c[i]) = Len(Wire(sent[i])) + Len(c[i + 1])
    OBVIOUS
  <2>1. sent[i] \in Frames
    BY ElementOfSeq DEF ReaderType
  <2>2. Wire(sent[i]) \in Seq(Byte)
    BY <2>1, WireBytes
  <2>3. i + 1 \in 1 .. N + 1
    BY <1>1
  <2>4. c[i + 1] \in Seq(Byte) /\ c[i] = Wire(sent[i]) \o c[i + 1]
    BY <2>3 DEF Chain
  <2>5. QED
    BY <2>2, <2>4, ConcatProperties
<1>3. Len(c[N + 1]) = 0
  BY DEF Chain
<1> HIDE DEF N
<1>4. ASSUME NEW i \in n .. N + 1
      PROVE  h[i] = IF i > N THEN 0 ELSE Len(Wire(sent[i])) + h[i + 1]
  <2>1. CASE i > N
    <3>1. i = N + 1
      BY <1>1, <2>1
    <3>2. QED
      BY <1>3, <2>1, <3>1
  <2>2. CASE ~(i > N)
    <3>1. i \in 1 .. N /\ i + 1 \in n .. N + 1
      BY <1>1, <2>2
    <3>2. QED
      BY <1>2, <2>2, <3>1
  <2>3. QED
    BY <2>1, <2>2
<1>5. BytesBy(h, n)
  <2>1. h = [i \in n .. N + 1 |-> IF i > N THEN 0 ELSE Len(Wire(sent[i])) + h[i + 1]]
    <3>1. h = [i \in n .. N + 1 |-> h[i]]
      OBVIOUS
    <3> HIDE DEF h
    <3>2. QED
      BY <1>4, <3>1
  <2>2. QED
    BY <2>1 DEF BytesBy, N
<1>6. BytesBy(g, n)
  <2> HIDE DEF h
  <2>1. QED
    BY <1>5
<1>7. BytesFrom(n) = g[n]
  BY DEF BytesFrom, BytesBy
<1> HIDE DEF g, h
<1>8. \A i \in n .. N + 1 : g[i] = IF i > N THEN 0 ELSE Len(Wire(sent[i])) + g[i + 1]
  BY <1>6 DEF BytesBy, N
<1> DEFINE T == {j \in Nat : j <= N + 1 - n => g[N + 1 - j] = Len(c[N + 1 - j])}
<1>9. 0 \in T
  <2>1. N + 1 \in n .. N + 1 /\ N + 1 > N /\ N + 1 - 0 = N + 1
    BY <1>1
  <2>2. QED
    BY <1>3, <1>8, <2>1
<1>10. ASSUME NEW j \in Nat, j \in T
       PROVE  j + 1 \in T
  <2> SUFFICES ASSUME j + 1 <= N + 1 - n
               PROVE  g[N + 1 - (j + 1)] = Len(c[N + 1 - (j + 1)])
    OBVIOUS
  <2>1. PICK i : i = N + 1 - (j + 1)
    OBVIOUS
  <2>2. i \in n .. N + 1 /\ ~(i > N) /\ i \in 1 .. N /\ i + 1 = N + 1 - j /\ j <= N + 1 - n
    BY <1>1, <2>1
  <2>3. g[i + 1] = Len(c[i + 1])
    BY <1>10, <2>2
  <2>4. QED
    BY <1>2, <1>8, <2>1, <2>2, <2>3
<1> HIDE DEF T
<1>11. \A j \in Nat : j \in T
  BY <1>9, <1>10, Induction
<1>12. N + 1 - n \in Nat /\ N + 1 - (N + 1 - n) = n
  BY <1>1
<1>13. g[n] = Len(c[n])
  BY <1>11, <1>12 DEF T
<1>14. QED
  BY <1>7, <1>13

\* A reader that is inside the right frame has parsed the frames before it.
LEMMA BoundaryArrives == ReaderType /\ BoundaryInv => FramesArriveWhole
<1> SUFFICES ASSUME ReaderType, BoundaryInv PROVE FramesArriveWhole
  OBVIOUS
<1>1. PICK c, k : InFrame(c, k)
  BY DEF BoundaryInv
<1>2. PICK n, N : n = Len(parsed) /\ N = Len(sent)
  OBVIOUS
<1>3. N \in Nat /\ n \in Nat /\ n <= N
  BY <1>2, LenProperties DEF ReaderType, BoundaryInv
<1>4. /\ Chain(c) /\ k \in Nat /\ inbox = Unread(c, n, k)
      /\ c \in [1 .. N + 1 -> Seq(Byte)] /\ c[N + 1] = <<>>
      /\ \A i \in 1 .. N : c[i] = Wire(sent[i]) \o c[i + 1]
  BY <1>1, <1>2 DEF InFrame, Chain
<1>5. PICK s : s = c[n + 1]
  OBVIOUS
<1>6. s \in Seq(Byte) /\ BytesFrom(n + 1) = Len(s) /\ Len(s) \in Nat
  <2>1. n + 1 \in 1 .. Len(sent) + 1
    BY <1>2, <1>3
  <2>2. s \in Seq(Byte)
    BY <1>2, <1>4, <1>5, <2>1
  <2>3. BytesFrom(n + 1) = Len(s)
    BY <1>4, <1>5, <2>1, BytesOfChain
  <2>4. QED
    BY <2>2, <2>3, LenProperties
<1>7. Len(inbox) = IF k + 1 <= Len(s) THEN Len(s) - k ELSE 0
  <2>1. PICK p, q : p = k + 1 /\ q = Len(s)
    OBVIOUS
  <2>2. p \in Int /\ q \in Int /\ p >= 1
    BY <1>4, <1>6, <2>1
  <2>3. \A i \in p .. q : s[i] \in Byte
    BY <1>6, <2>1, <2>2, ElementOfSeq
  <2>4. Len(SubSeq(s, p, q)) = IF p <= q THEN q - p + 1 ELSE 0
    BY <2>2, <2>3, SubSeqProperties
  <2>5. inbox = SubSeq(s, p, q)
    BY <1>4, <1>5, <2>1 DEF Unread
  <2>6. QED
    BY <1>4, <1>6, <2>1, <2>4, <2>5
<1>8. Len(inbox) <= BytesFrom(n + 1)
  BY <1>4, <1>6, <1>7
<1>9. n < N => Len(inbox) > BytesFrom(n + 2)
  <2> SUFFICES ASSUME n < N PROVE Len(inbox) > BytesFrom(n + 2)
    OBVIOUS
  <2>1. n + 1 \in 1 .. Len(sent) /\ n + 1 + 1 = n + 2 /\ n + 2 \in 1 .. Len(sent) + 1
        /\ n + 2 \in 1 .. N + 1
    BY <1>2, <1>3
  <2>2. PICK w, r : w = Wire(sent[n + 1]) /\ r = c[n + 2]
    OBVIOUS
  <2>3. sent[n + 1] \in Frames
    BY <2>1, ElementOfSeq DEF ReaderType
  <2>4. w \in Seq(Byte) /\ r \in Seq(Byte)
    <3>1. w \in Seq(Byte)
      BY <2>2, <2>3, WireBytes
    <3>2. r \in Seq(Byte)
      BY <1>4, <2>1, <2>2
    <3>3. QED
      BY <3>1, <3>2
  <2>5. s = w \o r
    BY <1>2, <1>4, <1>5, <2>1, <2>2
  <2>6. Len(s) = Len(w) + Len(r) /\ Len(w) \in Nat /\ Len(r) \in Nat
    BY <2>4, <2>5, ConcatProperties, LenProperties
  <2>7. BytesFrom(n + 2) = Len(r)
    BY <1>4, <2>1, <2>2, BytesOfChain
  <2>8. k < Len(w)
    BY <1>1, <1>2, <2>2 DEF InFrame
  <2>9. k + 1 <= Len(s) /\ Len(s) - k > Len(r)
    BY <1>4, <2>6, <2>8
  <2>10. QED
    BY <1>7, <2>7, <2>9
<1>10. \A i \in 1 .. n : /\ parsed[i].fin = sent[i].fin
                         /\ parsed[i].opcode = sent[i].opcode
                         /\ parsed[i].content = sent[i].content
  <2> SUFFICES ASSUME NEW i \in 1 .. n
               PROVE  /\ parsed[i].fin = sent[i].fin
                      /\ parsed[i].opcode = sent[i].opcode
                      /\ parsed[i].content = sent[i].content
    OBVIOUS
  <2>1. parsed[i] = Sent(sent[i])
    BY <1>2 DEF BoundaryInv
  <2>2. QED
    BY <2>1 DEF Sent
<1>11. QED
  BY <1>2, <1>3, <1>8, <1>9, <1>10 DEF FramesArriveWhole

\* The reader's variables keep their types: in particular the bytes of a key are
\* only written inside the key.
THEOREM ReaderTyped == ReaderSpec => []ReaderType
<1>1. QED
  BY InitType, NextType, PTL DEF ReaderSpec

\* Frames keep their boundaries and their contents, whatever the forms of their
\* lengths and masks, for all frames and any number of them:
\* WebsocketFrameParser::consume() undoes what a peer, or serialize(), wrote.
THEOREM FramesWhole == ReaderSpec => []FramesArriveWhole
<1>1. ReaderType /\ BoundaryInv /\ [ReaderNext]_readerVars => BoundaryInv'
  <2> SUFFICES ASSUME ReaderType, BoundaryInv, [ReaderNext]_readerVars PROVE BoundaryInv'
    OBVIOUS
  <2>1. CASE ReadByte
    BY <2>1, ReadBoundary
  <2>2. ASSUME NEW f \in Frames, Send(f) PROVE BoundaryInv'
    BY <2>2, SendBoundary
  <2>3. CASE UNCHANGED readerVars
    <3>1. PICK c, k : InFrame(c, k)
      BY DEF BoundaryInv
    <3>2. Chain(c)'
      BY <2>3, <3>1 DEF readerVars, InFrame, Chain
    <3>3. \A f : Reading(f, k) => Reading(f, k)'
      BY <2>3 DEF readerVars, Reading
    <3>4. PICK f : f = sent[Len(parsed) + 1]
      OBVIOUS
    <3>5. /\ sent' = sent /\ parsed' = parsed /\ inbox' = inbox /\ state_' = state_
          /\ f = sent'[Len(parsed') + 1]
      BY <2>3, <3>4 DEF readerVars
    <3>6. Len(parsed) < Len(sent) => k < Len(Wire(f)) /\ Reading(f, k)'
      BY <3>1, <3>3, <3>4 DEF InFrame
    <3>7. /\ k \in Nat /\ inbox = Unread(c, Len(parsed), k)
          /\ Len(parsed) = Len(sent) => k = 0 /\ state_ = "header_byte1"
      BY <3>1 DEF InFrame
    <3>8. InFrame(c, k)'
      BY <3>2, <3>5, <3>6, <3>7 DEF InFrame, Unread, Reading
    <3>9. QED
      BY <3>5, <3>8 DEF BoundaryInv
  <2>4. QED
    BY <2>1, <2>2, <2>3 DEF ReaderNext
<1>2. QED
  BY <1>1, ReaderTyped, InitBoundary, BoundaryArrives, PTL DEF ReaderSpec

-------------------------------------------------------------------------------
(* Messages.                                                               *)

\* A step completes a frame, or changes nothing the handler sees.
LEMMA StepOutcome ==
  ASSUME ReaderType, [ReaderNext]_readerVars
  PROVE  \/ UNCHANGED <<message_, parsed, delivered>>
         \/ \E f \in FrameFields : parsed' = Append(parsed, Sent(f)) /\ Buffer(f)
<1>1. CASE ReadByte
  <2>1. PICK b : b = Head(inbox)
    OBVIOUS
  <2>2. HeaderByte1(b) \/ HeaderByte2(b) \/ LengthByte(b) \/ MaskByte(b) \/ BodyByte(b)
    BY <1>1, <2>1 DEF ReadByte
  <2>3. b \in Byte
    BY <1>1, <2>1, HeadTailProperties DEF ReadByte, ReaderType
  <2>4. CASE \E f \in FrameFields, state \in ParserStates, bytes \in Nat : GoOn(f, state, bytes)
    BY <2>4 DEF GoOn
  <2>5. CASE \E f \in FrameFields : Complete(f)
    BY <2>5 DEF Complete, Sent
  <2>6. QED
    BY <2>2, <2>3, <2>4, <2>5, FieldOutcome
<1>2. ASSUME NEW f \in Frames, Send(f) PROVE UNCHANGED <<message_, parsed, delivered>>
  BY <1>2 DEF Send
<1>3. CASE UNCHANGED readerVars
  BY <1>3 DEF readerVars
<1>4. QED
  BY <1>1, <1>2, <1>3 DEF ReaderNext

\* What is kept of a frame is a frame's content.
LEMMA SentType ==
  ASSUME NEW f \in FrameFields
  PROVE  /\ Sent(f) \in Content
         /\ Sent(f).fin = f.fin /\ Sent(f).opcode = f.opcode /\ Sent(f).content = f.content
  BY DEF Sent, Content, FrameFields

\* A message of one frame is delivered as sent, whatever came before it: no state
\* of WebsocketFrameBuffer survives a frame with an opcode.
THEOREM Resynchronisation == ReaderSpec => []Resynchronises
<1>1. ReaderInit => Resynchronises
  BY DEF ReaderInit, Resynchronises
<1>2. ReaderType /\ Resynchronises /\ [ReaderNext]_readerVars => Resynchronises'
  <2> SUFFICES ASSUME ReaderType, Resynchronises, [ReaderNext]_readerVars
               PROVE  Resynchronises'
    OBVIOUS
  <2>1. CASE UNCHANGED <<message_, parsed, delivered>>
    BY <2>1 DEF Resynchronises
  <2>2. ASSUME NEW f \in FrameFields, parsed' = Append(parsed, Sent(f)), Buffer(f)
        PROVE  Resynchronises'
    <3>1. /\ Len(parsed') = Len(parsed) + 1 /\ parsed'[Len(parsed) + 1] = Sent(f)
      BY <2>2, SentType, AppendProperties DEF ReaderType
    <3> SUFFICES ASSUME f.fin, f.opcode \in DOMAIN TypeOf
                 PROVE  /\ delivered' # <<>>
                        /\ delivered'[Len(delivered')] =
                             [type |-> TypeOf[f.opcode], content |-> f.content]
      BY <3>1, SentType DEF Resynchronises
    <3>2. delivered' = Append(delivered, message_') /\ message_' = StartMessage(f)
      <4>1. f.opcode # 0
        BY DEF TypeOf
      <4>2. QED
        BY <2>2, <4>1 DEF Buffer, WhenFinal
    <3>3. message_' \in Message /\ delivered \in Seq(Message)
      BY <2>2, BufferType DEF ReaderType
    <3>4. /\ delivered' # <<>> /\ Len(delivered') = Len(delivered) + 1
          /\ delivered'[Len(delivered) + 1] = message_'
      BY <3>2, <3>3, AppendProperties
    <3>5. QED
      BY <3>2, <3>4 DEF StartMessage
  <2>3. QED
    BY <2>1, <2>2, StepOutcome
<1>3. QED
  BY <1>1, <1>2, ReaderTyped, PTL DEF ReaderSpec

\* The functions behind Joined and Messages, up to any number of frames.
JoinedBy(g, frames, n) ==
  g = [i \in 0 .. n |-> IF i = 0 THEN <<>> ELSE g[i - 1] \o frames[i].content]

MessagesBy(g, frames, n) ==
  g = [i \in 0 .. n |-> IF i = 0 THEN <<>> ELSE Ending(g[i - 1], frames, i)]

\* The function that Joined is defined by exists.
LEMMA JoinedByExists ==
  ASSUME NEW frames
  PROVE  \A n \in Nat : \E g : JoinedBy(g, frames, n)
<1> DEFINE T == {n \in Nat : \E g : JoinedBy(g, frames, n)}
<1>1. 0 \in T
  <2>1. JoinedBy([i \in 0 .. 0 |-> <<>>], frames, 0)
    BY DEF JoinedBy
  <2>2. QED
    BY <2>1
<1>2. ASSUME NEW n \in Nat, n \in T
      PROVE  n + 1 \in T
  <2>1. PICK g : JoinedBy(g, frames, n)
    BY <1>2
  <2> DEFINE h == [i \in 0 .. n + 1 |-> IF i <= n THEN g[i] ELSE g[n] \o frames[n + 1].content]
  <2>2. \A i \in 0 .. n : g[i] = IF i = 0 THEN <<>> ELSE g[i - 1] \o frames[i].content
    BY <2>1 DEF JoinedBy
  <2>3. ASSUME NEW i \in 0 .. n + 1
        PROVE  h[i] = IF i = 0 THEN <<>> ELSE h[i - 1] \o frames[i].content
    <3>1. CASE i <= n
      BY <2>2, <3>1
    <3>2. CASE i = n + 1
      BY <3>2
    <3>3. QED
      BY <3>1, <3>2
  <2>4. h = [i \in 0 .. n + 1 |-> h[i]]
    OBVIOUS
  <2> HIDE DEF h
  <2>5. JoinedBy(h, frames, n + 1)
    BY <2>3, <2>4 DEF JoinedBy
  <2>6. QED
    BY <2>5
<1> HIDE DEF T
<1>3. \A n \in Nat : n \in T
  BY <1>1, <1>2, Induction
<1>4. QED
  BY <1>3 DEF T

\* Joined is the value of that function at its last index.
LEMMA JoinedIs ==
  ASSUME NEW frames, Len(frames) \in Nat
  PROVE  \E g : JoinedBy(g, frames, Len(frames)) /\ Joined(frames) = g[Len(frames)]
<1> DEFINE g == CHOOSE g : JoinedBy(g, frames, Len(frames))
<1>1. JoinedBy(g, frames, Len(frames))
  BY JoinedByExists
<1>2. Joined(frames) = g[Len(frames)]
  BY DEF Joined, JoinedBy
<1>3. QED
  BY <1>1, <1>2

\* Joined takes the frames one by one.
LEMMA JoinedAppend ==
  /\ Joined(<<>>) = <<>>
  /\ \A frames \in Seq(Content), x \in Content :
       Joined(Append(frames, x)) = Joined(frames) \o x.content
<1>1. Joined(<<>>) = <<>>
  <2>1. PICK e, z : e = <<>> /\ z = 0
    OBVIOUS
  <2>2. Len(e) = z /\ z \in Nat
    BY <2>1
  <2>3. PICK g : JoinedBy(g, e, z) /\ Joined(e) = g[z]
    BY <2>2, JoinedIs
  <2>4. \A i \in 0 .. z : g[i] = IF i = 0 THEN <<>> ELSE g[i - 1] \o e[i].content
    BY <2>3 DEF JoinedBy
  <2>5. z \in 0 .. z
    BY <2>1
  <2>6. g[z] = <<>>
    BY <2>1, <2>4, <2>5
  <2>7. QED
    BY <2>1, <2>3, <2>6
<1>2. ASSUME NEW frames \in Seq(Content), NEW x \in Content
      PROVE  Joined(Append(frames, x)) = Joined(frames) \o x.content
  <2>1. PICK more, n : more = Append(frames, x) /\ n = Len(frames)
    OBVIOUS
  <2>2. /\ n \in Nat /\ Len(more) = n + 1 /\ more[n + 1] = x
        /\ \A i \in 1 .. n : more[i] = frames[i]
    BY <2>1, AppendProperties, LenProperties
  <2>3. PICK g : JoinedBy(g, frames, n) /\ Joined(frames) = g[n]
    BY <2>1, <2>2, JoinedIs
  <2>4. PICK h : JoinedBy(h, more, n + 1) /\ Joined(more) = h[n + 1]
    BY <2>2, JoinedIs
  <2>5. \A i \in 0 .. n : g[i] = IF i = 0 THEN <<>> ELSE g[i - 1] \o frames[i].content
    BY <2>3 DEF JoinedBy
  <2>6. \A i \in 0 .. n + 1 : h[i] = IF i = 0 THEN <<>> ELSE h[i - 1] \o more[i].content
    BY <2>4 DEF JoinedBy
  <2> DEFINE T == {i \in Nat : i <= n => g[i] = h[i]}
  <2>7. 0 \in T
    BY <2>2, <2>5, <2>6
  <2>8. ASSUME NEW i \in Nat, i \in T
        PROVE  i + 1 \in T
    <3> SUFFICES ASSUME i + 1 <= n PROVE g[i + 1] = h[i + 1]
      OBVIOUS
    <3>1. i + 1 \in 1 .. n /\ i + 1 \in 0 .. n /\ i + 1 \in 0 .. n + 1 /\ i + 1 # 0
          /\ i + 1 - 1 = i /\ i <= n
      BY <2>2
    <3>2. g[i] = h[i] /\ more[i + 1] = frames[i + 1]
      BY <2>2, <2>8, <3>1
    <3>3. QED
      BY <2>5, <2>6, <3>1, <3>2
  <2> HIDE DEF T
  <2>9. \A i \in Nat : i \in T
    BY <2>7, <2>8, Induction
  <2>10. g[n] = h[n]
    BY <2>2, <2>9 DEF T
  <2>11. h[n + 1] = h[n] \o x.content
    <3>1. PICK m : m = n + 1
      OBVIOUS
    <3>2. m \in 0 .. n + 1 /\ m # 0 /\ m - 1 = n /\ more[m] = x
      BY <2>2, <3>1
    <3>3. h[m] = h[m - 1] \o more[m].content
      BY <2>6, <3>2
    <3>4. QED
      BY <3>1, <3>2, <3>3
  <2>12. QED
    BY <2>1, <2>3, <2>4, <2>10, <2>11
<1>3. QED
  BY <1>1, <1>2

\* What First chooses.
IsFirst(frames, i, n) ==
  /\ i \in 1 .. n
  /\ i > 1 => frames[i - 1].fin
  /\ \A j \in i .. n - 1 : ~frames[j].fin

\* The first frame of a message is the one after the last final frame.
LEMMA FirstIs ==
  ASSUME NEW frames, NEW n \in Nat, NEW i, IsFirst(frames, i, n)
  PROVE  First(frames, n) = i
<1>2. IsFirst(frames, First(frames, n), n)
  <2> DEFINE P(m0) == /\ m0 > 1 => frames[m0 - 1].fin
                      /\ \A j \in m0 .. n - 1 : ~frames[j].fin
  <2>1. i \in 1 .. n /\ P(i)
    BY DEF IsFirst
  <2>2. First(frames, n) = CHOOSE m0 \in 1 .. n : P(m0)
    BY DEF First
  <2> HIDE DEF P
  <2>3. First(frames, n) \in 1 .. n /\ P(First(frames, n))
    BY <2>1, <2>2
  <2>4. QED
    BY <2>3 DEF IsFirst, P
<1>3. ASSUME NEW a \in 1 .. n, NEW b \in 1 .. n, IsFirst(frames, a, n), IsFirst(frames, b, n)
      PROVE  ~(a < b)
  <2> SUFFICES ASSUME a < b PROVE FALSE
    OBVIOUS
  <2>1. b > 1 /\ b - 1 \in a .. n - 1
    OBVIOUS
  <2>2. frames[b - 1].fin
    BY <1>3, <2>1 DEF IsFirst
  <2>3. ~frames[b - 1].fin
    BY <1>3, <2>1 DEF IsFirst
  <2>4. QED
    BY <2>2, <2>3
<1>4. PICK k : k = First(frames, n)
  OBVIOUS
<1>5. i \in 1 .. n /\ k \in 1 .. n /\ IsFirst(frames, k, n)
  BY <1>2, <1>4 DEF IsFirst
<1>6. ~(i < k) /\ ~(k < i)
  BY <1>3, <1>5
<1>7. QED
  BY <1>4, <1>5, <1>6

\* There is a first frame for each.
LEMMA FirstExists ==
  ASSUME NEW frames
  PROVE  \A n \in Nat : n > 0 => \E i : IsFirst(frames, i, n)
<1> DEFINE T == {n \in Nat : n > 0 => \E i : IsFirst(frames, i, n)}
<1>1. 0 \in T
  OBVIOUS
<1>2. ASSUME NEW n \in Nat, n \in T
      PROVE  n + 1 \in T
  <2>1. CASE n = 0
    <3>1. IsFirst(frames, 1, n + 1)
      BY <2>1 DEF IsFirst
    <3>2. QED
      BY <3>1
  <2>2. CASE n > 0 /\ frames[n].fin
    <3>1. IsFirst(frames, n + 1, n + 1)
      BY <2>2 DEF IsFirst
    <3>2. QED
      BY <3>1
  <2>3. CASE n > 0 /\ ~frames[n].fin
    <3>1. PICK i : IsFirst(frames, i, n)
      BY <1>2, <2>3
    <3>2. i \in 1 .. n + 1 /\ (i > 1 => frames[i - 1].fin)
      BY <3>1 DEF IsFirst
    <3>3. ASSUME NEW j \in i .. n + 1 - 1 PROVE ~frames[j].fin
      <4>1. j \in i .. n - 1 \/ j = n
        BY <3>2
      <4>2. QED
        BY <2>3, <3>1, <4>1 DEF IsFirst
    <3>4. IsFirst(frames, i, n + 1)
      BY <3>2, <3>3 DEF IsFirst
    <3>5. QED
      BY <3>4
  <2>4. n = 0 \/ n > 0
    OBVIOUS
  <2>5. QED
    BY <2>1, <2>2, <2>3, <2>4
<1> HIDE DEF T
<1>3. \A n \in Nat : n \in T
  BY <1>1, <1>2, Induction
<1>4. QED
  BY <1>3 DEF T

\* Another frame at the end changes nothing about the messages before it.
LEMMA EarlierMessages ==
  ASSUME NEW frames \in Seq(Content), NEW x \in Content, NEW n \in 1 .. Len(frames)
  PROVE  /\ First(Append(frames, x), n) = First(frames, n)
         /\ First(frames, n) \in 1 .. n
         /\ MessageUpTo(Append(frames, x), n) = MessageUpTo(frames, n)
<1>1. PICK more, N : more = Append(frames, x) /\ N = Len(frames)
  OBVIOUS
<1>2. N \in Nat /\ n \in Nat /\ n >= 1 /\ n <= N
  BY <1>1, LenProperties
<1>3. \A i \in 1 .. N : more[i] = frames[i]
  BY <1>1, AppendProperties
<1>4. PICK i : IsFirst(frames, i, n)
  BY <1>2, FirstExists
<1>5. i \in 1 .. n /\ i \in 1 .. N
  BY <1>2, <1>4 DEF IsFirst
<1>6. IsFirst(more, i, n)
  <2>1. i > 1 => more[i - 1].fin
    <3>1. i > 1 => i - 1 \in 1 .. N
      BY <1>2, <1>5
    <3>2. QED
      BY <1>3, <1>4, <3>1 DEF IsFirst
  <2>2. ASSUME NEW j \in i .. n - 1 PROVE ~more[j].fin
    <3>1. j \in 1 .. N
      BY <1>2, <1>5
    <3>2. QED
      BY <1>3, <1>4, <3>1 DEF IsFirst
  <2>3. QED
    BY <1>5, <2>1, <2>2 DEF IsFirst
<1>7. First(frames, n) = i /\ First(more, n) = i
  BY <1>2, <1>4, <1>6, FirstIs
<1>8. SubSeq(more, i, n) = SubSeq(frames, i, n)
  <2>1. more = frames \o <<x>> /\ <<x>> \in Seq(Content)
    BY <1>1, AppendIsConcat
  <2>2. i \in 1 .. Len(frames) /\ n \in 1 .. Len(frames)
    BY <1>1, <1>2, <1>5
  <2>3. QED
    BY <2>1, <2>2, SubSeqOfConcat1
<1>9. more[i] = frames[i]
  BY <1>3, <1>5
<1>10. MessageUpTo(more, n) = MessageUpTo(frames, n)
  BY <1>7, <1>8, <1>9 DEF MessageUpTo
<1>11. QED
  BY <1>1, <1>5, <1>7, <1>10

\* The function that Messages is defined by exists.
LEMMA MessagesByExists ==
  ASSUME NEW frames
  PROVE  \A n \in Nat : \E g : MessagesBy(g, frames, n)
<1> DEFINE T == {n \in Nat : \E g : MessagesBy(g, frames, n)}
<1>1. 0 \in T
  <2>1. MessagesBy([i \in 0 .. 0 |-> <<>>], frames, 0)
    BY DEF MessagesBy
  <2>2. QED
    BY <2>1
<1>2. ASSUME NEW n \in Nat, n \in T
      PROVE  n + 1 \in T
  <2>1. PICK g : MessagesBy(g, frames, n)
    BY <1>2
  <2> DEFINE h == [i \in 0 .. n + 1 |-> IF i <= n THEN g[i] ELSE Ending(g[n], frames, n + 1)]
  <2>2. \A i \in 0 .. n : g[i] = IF i = 0 THEN <<>> ELSE Ending(g[i - 1], frames, i)
    BY <2>1 DEF MessagesBy
  <2>3. ASSUME NEW i \in 0 .. n + 1
        PROVE  h[i] = IF i = 0 THEN <<>> ELSE Ending(h[i - 1], frames, i)
    <3>1. CASE i <= n
      BY <2>2, <3>1
    <3>2. CASE i = n + 1
      BY <3>2
    <3>3. QED
      BY <3>1, <3>2
  <2>4. h = [i \in 0 .. n + 1 |-> h[i]]
    OBVIOUS
  <2> HIDE DEF h
  <2>5. MessagesBy(h, frames, n + 1)
    BY <2>3, <2>4 DEF MessagesBy
  <2>6. QED
    BY <2>5
<1> HIDE DEF T
<1>3. \A n \in Nat : n \in T
  BY <1>1, <1>2, Induction
<1>4. QED
  BY <1>3 DEF T

\* Messages is the value of that function at its last index.
LEMMA MessagesIs ==
  ASSUME NEW frames, Len(frames) \in Nat
  PROVE  \E g : MessagesBy(g, frames, Len(frames)) /\ Messages(frames) = g[Len(frames)]
<1> DEFINE g == CHOOSE g : MessagesBy(g, frames, Len(frames))
<1>1. MessagesBy(g, frames, Len(frames))
  BY MessagesByExists
<1>2. Messages(frames) = g[Len(frames)]
  BY DEF Messages, MessagesBy
<1>3. QED
  BY <1>1, <1>2

\* Another frame ends a message or does not, and leaves the messages before it.
LEMMA MessagesAppend ==
  ASSUME NEW frames \in Seq(Content), NEW x \in Content
  PROVE  Messages(Append(frames, x)) = Ending(Messages(frames), Append(frames, x), Len(frames) + 1)
<1>1. PICK more, n : more = Append(frames, x) /\ n = Len(frames)
  OBVIOUS
<1>2. /\ n \in Nat /\ Len(more) = n + 1
      /\ \A i \in 1 .. n : more[i] = frames[i]
  BY <1>1, AppendProperties, LenProperties
<1>3. PICK g : MessagesBy(g, frames, n) /\ Messages(frames) = g[n]
  BY <1>1, <1>2, MessagesIs
<1>4. PICK h : MessagesBy(h, more, n + 1) /\ Messages(more) = h[n + 1]
  BY <1>2, MessagesIs
<1>5. \A i \in 0 .. n : g[i] = IF i = 0 THEN <<>> ELSE Ending(g[i - 1], frames, i)
  BY <1>3 DEF MessagesBy
<1>6. \A i \in 0 .. n + 1 : h[i] = IF i = 0 THEN <<>> ELSE Ending(h[i - 1], more, i)
  BY <1>4 DEF MessagesBy
<1>7. ASSUME NEW before, NEW i \in 1 .. n
      PROVE  Ending(before, more, i) = Ending(before, frames, i)
  <2>1. MessageUpTo(more, i) = MessageUpTo(frames, i)
    BY <1>1, EarlierMessages
  <2>2. more[i] = frames[i]
    BY <1>2
  <2>3. QED
    BY <2>1, <2>2 DEF Ending
<1> DEFINE T == {i \in Nat : i <= n => g[i] = h[i]}
<1>8. 0 \in T
  BY <1>2, <1>5, <1>6
<1>9. ASSUME NEW i \in Nat, i \in T
      PROVE  i + 1 \in T
  <2> SUFFICES ASSUME i + 1 <= n PROVE g[i + 1] = h[i + 1]
    OBVIOUS
  <2>1. PICK j : j = i + 1
    OBVIOUS
  <2>2. j \in 1 .. n /\ j \in 0 .. n /\ j \in 0 .. n + 1 /\ j # 0 /\ j - 1 = i /\ i <= n
    BY <1>2, <2>1
  <2>3. g[i] = h[i]
    BY <1>9, <2>2
  <2>4. g[j] = Ending(g[i], frames, j) /\ h[j] = Ending(h[i], more, j)
    BY <1>5, <1>6, <2>2
  <2>5. QED
    BY <1>7, <2>1, <2>2, <2>3, <2>4
<1> HIDE DEF T
<1>10. \A i \in Nat : i \in T
  BY <1>8, <1>9, Induction
<1>11. g[n] = h[n]
  BY <1>2, <1>10 DEF T
<1>12. h[n + 1] = Ending(h[n], more, n + 1)
  <2>1. PICK m : m = n + 1
    OBVIOUS
  <2>2. m \in 0 .. n + 1 /\ m # 0 /\ m - 1 = n
    BY <1>2, <2>1
  <2>3. h[m] = Ending(h[m - 1], more, m)
    BY <1>6, <2>2
  <2>4. QED
    BY <2>1, <2>2, <2>3
<1>13. QED
  BY <1>1, <1>3, <1>4, <1>11, <1>12

\* A frame starts a message after a final one, and otherwise continues one.
LEMMA LastMessage ==
  ASSUME NEW frames \in Seq(Content), NEW x \in Content
  PROVE  \A n, more :
           n = Len(frames) /\ more = Append(frames, x) =>
             /\ n = 0 \/ frames[n].fin =>
                  MessageUpTo(more, n + 1) = [type |-> TypeOf[x.opcode], content |-> x.content]
             /\ n > 0 /\ ~frames[n].fin =>
                  MessageUpTo(more, n + 1) =
                    [type    |-> MessageUpTo(frames, n).type,
                     content |-> MessageUpTo(frames, n).content \o x.content]
<1> SUFFICES ASSUME NEW n, n = Len(frames), NEW more, more = Append(frames, x)
             PROVE  /\ n = 0 \/ frames[n].fin =>
                         MessageUpTo(more, n + 1) = [type |-> TypeOf[x.opcode], content |-> x.content]
                    /\ n > 0 /\ ~frames[n].fin =>
                         MessageUpTo(more, n + 1) =
                           [type    |-> MessageUpTo(frames, n).type,
                            content |-> MessageUpTo(frames, n).content \o x.content]
  OBVIOUS
<1>1. PICK m : m = n + 1
  OBVIOUS
<1>2. /\ n \in Nat /\ m \in Nat /\ m - 1 = n /\ Len(more) = m /\ more \in Seq(Content)
      /\ more[m] = x /\ \A i \in 1 .. n : more[i] = frames[i]
  BY <1>1, AppendProperties, LenProperties
<1>3. ASSUME n = 0 \/ frames[n].fin
      PROVE  MessageUpTo(more, m) = [type |-> TypeOf[x.opcode], content |-> x.content]
  <2>1. m > 1 => more[m - 1].fin
    <3>1. m > 1 => n \in 1 .. n /\ n # 0
      BY <1>2
    <3>2. QED
      BY <1>2, <1>3, <3>1
  <2>2. IsFirst(more, m, m)
    BY <1>1, <1>2, <2>1 DEF IsFirst
  <2>3. First(more, m) = m
    BY <1>2, <2>2, FirstIs
  <2>4. SubSeq(more, m, m) = Append(<<>>, x)
    <3>1. m \in 1 .. Len(more) /\ m \in m .. Len(more)
      BY <1>1, <1>2
    <3>2. SubSeq(more, m, m) = <<more[m]>> \o SubSeq(more, m + 1, m)
      BY <1>2, <3>1, SubSeqRecursiveFirst
    <3>3. SubSeq(more, m + 1, m) = <<>>
      <4>1. PICK k : k = m + 1
        OBVIOUS
      <4>2. k \in Int /\ m \in Int /\ m < k
        BY <1>2, <4>1
      <4>3. SubSeq(more, k, m) = <<>>
        BY <4>2, SubSeqEmpty
      <4>4. QED
        BY <4>1, <4>3
    <3>4. <<x>> \in Seq(Content) /\ <<>> \in Seq(Content)
      BY EmptySeq
    <3>5. <<x>> \o <<>> = <<x>> /\ <<>> \o <<x>> = <<x>>
      BY <3>4, ConcatEmptySeq
    <3>6. Append(<<>>, x) = <<>> \o <<x>>
      BY <3>4, AppendIsConcat
    <3>7. QED
      BY <1>2, <3>2, <3>3, <3>5, <3>6
  <2>5. Joined(Append(<<>>, x)) = x.content
    <3>1. <<>> \in Seq(Content)
      BY EmptySeq
    <3>2. Joined(Append(<<>>, x)) = <<>> \o x.content
      BY <3>1, JoinedAppend
    <3>3. x.content \in Seq(Byte)
      BY DEF Content
    <3>4. QED
      BY <3>2, <3>3, ConcatEmptySeq
  <2>6. QED
    BY <1>2, <2>3, <2>4, <2>5 DEF MessageUpTo
<1>4. ASSUME n > 0, ~frames[n].fin
      PROVE  MessageUpTo(more, m) = [type    |-> MessageUpTo(frames, n).type,
                                     content |-> MessageUpTo(frames, n).content \o x.content]
  <2>1. PICK i : IsFirst(frames, i, n)
    BY <1>2, <1>4, FirstExists
  <2>2. i \in 1 .. n /\ i \in 1 .. m /\ (i > 1 => frames[i - 1].fin)
    BY <1>1, <1>2, <2>1 DEF IsFirst
  <2>3. IsFirst(more, i, m)
    <3>1. i > 1 => more[i - 1].fin
      <4>1. i > 1 => i - 1 \in 1 .. n
        BY <1>2, <2>2
      <4>2. QED
        BY <1>2, <2>2, <4>1
    <3>2. ASSUME NEW j \in i .. m - 1 PROVE ~more[j].fin
      <4>1. j \in 1 .. n /\ (j \in i .. n - 1 \/ j = n)
        BY <1>2, <2>2
      <4>2. QED
        BY <1>2, <1>4, <2>1, <4>1 DEF IsFirst
    <3>3. QED
      BY <2>2, <3>1, <3>2 DEF IsFirst
  <2>4. First(frames, n) = i /\ First(more, m) = i
    BY <1>2, <2>1, <2>3, FirstIs
  <2>5. SubSeq(more, i, m) = Append(SubSeq(frames, i, n), x) /\ SubSeq(frames, i, n) \in Seq(Content)
    <3>1. i \in 1 .. Len(more) /\ m \in i .. Len(more)
      BY <1>2, <2>2
    <3>2. SubSeq(more, i, m) = SubSeq(more, i, m - 1) \o <<more[m]>>
      BY <1>2, <3>1, SubSeqRecursiveSecond
    <3>3. SubSeq(more, i, n) = SubSeq(frames, i, n)
      <4>1. more = frames \o <<x>> /\ <<x>> \in Seq(Content)
        BY AppendIsConcat
      <4>2. i \in 1 .. Len(frames) /\ n \in 1 .. Len(frames)
        BY <1>2, <1>4, <2>2
      <4>3. QED
        BY <4>1, <4>2, SubSeqOfConcat1
    <3>4. SubSeq(frames, i, n) \in Seq(Content)
      <4>1. \A j \in i .. n : frames[j] \in Content
        <5>1. \A j \in i .. n : j \in 1 .. Len(frames)
          BY <1>2, <2>2
        <5>2. QED
          BY <5>1, ElementOfSeq
      <4>2. i \in Int /\ n \in Int
        BY <1>2, <2>2
      <4>3. QED
        BY <4>1, <4>2, SubSeqProperties
    <3>5. QED
      <4>1. PICK s : s = SubSeq(frames, i, n)
        OBVIOUS
      <4>2. s \in Seq(Content)
        BY <3>4, <4>1
      <4>3. Append(s, x) = s \o <<x>>
        BY <4>2, AppendIsConcat
      <4>4. SubSeq(more, i, m) = s \o <<x>>
        BY <1>2, <3>2, <3>3, <4>1
      <4>5. QED
        BY <4>1, <4>2, <4>3, <4>4
  <2>6. Joined(SubSeq(more, i, m)) = Joined(SubSeq(frames, i, n)) \o x.content
    BY <2>5, JoinedAppend
  <2>7. more[i] = frames[i]
    BY <1>2, <2>2
  <2>8. QED
    BY <2>4, <2>6, <2>7 DEF MessageUpTo
<1>5. QED
  BY <1>1, <1>3, <1>4

\* The inductive invariant: while the frames form messages, message_ holds the
\* message that is not finished, with a type.
MessageInv ==
  LET n == Len(parsed)
  IN  WellFragmented(parsed) =>
        /\ delivered = Messages(parsed)
        /\ n > 0 /\ ~parsed[n].fin =>
             message_ = MessageUpTo(parsed, n) /\ message_.type # "unknown"

\* Before any frame there is no message.
LEMMA InitMessage == ReaderInit => MessageInv
<1> SUFFICES ASSUME ReaderInit PROVE MessageInv
  OBVIOUS
<1>1. PICK e, z : e = parsed /\ z = Len(parsed)
  OBVIOUS
<1>2. e = <<>> /\ z = 0 /\ z = Len(e)
  BY <1>1 DEF ReaderInit
<1>3. PICK g : MessagesBy(g, e, z) /\ Messages(e) = g[z]
  BY <1>2, MessagesIs
<1>4. \A i \in 0 .. z : g[i] = IF i = 0 THEN <<>> ELSE Ending(g[i - 1], e, i)
  BY <1>3 DEF MessagesBy
<1>5. z \in 0 .. z
  BY <1>2
<1>6. Messages(e) = <<>>
  BY <1>2, <1>3, <1>4, <1>5
<1>7. QED
  BY <1>1, <1>2, <1>6 DEF ReaderInit, MessageInv

\* A frame given to the buffer leaves the messages of the frames so far.
LEMMA FrameMessage ==
  ASSUME ReaderType, MessageInv, NEW f \in FrameFields,
         parsed' = Append(parsed, Sent(f)), Buffer(f)
  PROVE  MessageInv'
<1>1. PICK more, n, x : more = parsed' /\ n = Len(parsed) /\ x = Sent(f)
  OBVIOUS
<1>2. /\ n \in Nat /\ more = Append(parsed, x) /\ Len(more) = n + 1 /\ DOMAIN more = 1 .. n + 1
      /\ more \in Seq(Content) /\ DOMAIN parsed = 1 .. n
      /\ more[n + 1] = x /\ \A i \in 1 .. n : more[i] = parsed[i]
      /\ x \in Content /\ x.fin = f.fin /\ x.opcode = f.opcode /\ x.content = f.content
  <2>1. x \in Content /\ x.fin = f.fin /\ x.opcode = f.opcode /\ x.content = f.content
    BY <1>1, SentType
  <2>2. /\ more = Append(parsed, x) /\ Len(more) = n + 1
        /\ more \in Seq(Content) /\ more[n + 1] = x /\ \A i \in 1 .. n : more[i] = parsed[i]
    BY <1>1, <2>1, AppendProperties DEF ReaderType
  <2>3. n \in Nat /\ DOMAIN parsed = 1 .. n
    BY <1>1, LenProperties DEF ReaderType
  <2>4. DOMAIN more = 1 .. n + 1
    BY <2>2, LenProperties
  <2>5. QED
    BY <2>1, <2>2, <2>3, <2>4
<1>3. PICK m : m = n + 1
  OBVIOUS
<1>4. m \in 1 .. n + 1 /\ m - 1 = n /\ (m > 1 <=> n > 0)
  BY <1>2, <1>3
<1> SUFFICES ASSUME WellFragmented(more)
             PROVE  /\ delivered' = Messages(more)
                    /\ ~more[m].fin => message_' = MessageUpTo(more, m) /\ message_'.type # "unknown"
  BY <1>1, <1>2, <1>3 DEF MessageInv
<1>5. WellFragmented(parsed)
  <2> SUFFICES ASSUME NEW i \in 1 .. n
               PROVE  /\ parsed[i].opcode \in {0} \cup DOMAIN TypeOf
                      /\ parsed[i].opcode = 0 <=> (i > 1 /\ ~parsed[i - 1].fin)
    BY <1>2 DEF WellFragmented
  <2>1. i \in DOMAIN more /\ more[i] = parsed[i] /\ (i > 1 => i - 1 \in 1 .. n)
    BY <1>2
  <2>2. i > 1 => more[i - 1] = parsed[i - 1]
    BY <1>2, <2>1
  <2>3. /\ more[i].opcode \in {0} \cup DOMAIN TypeOf
        /\ more[i].opcode = 0 <=> (i > 1 /\ ~more[i - 1].fin)
    BY <2>1 DEF WellFragmented
  <2>4. QED
    BY <2>1, <2>2, <2>3
<1>6. /\ delivered = Messages(parsed)
      /\ n > 0 /\ ~parsed[n].fin => message_ = MessageUpTo(parsed, n) /\ message_.type # "unknown"
  BY <1>1, <1>5 DEF MessageInv
<1>7. /\ f.opcode \in {0} \cup DOMAIN TypeOf
      /\ f.opcode = 0 <=> (n > 0 /\ ~parsed[n].fin)
  <2>1. /\ more[m].opcode \in {0} \cup DOMAIN TypeOf
        /\ more[m].opcode = 0 <=> (m > 1 /\ ~more[m - 1].fin)
    BY <1>2, <1>4 DEF WellFragmented
  <2>2. n > 0 => more[n] = parsed[n]
    <3>1. n > 0 => n \in 1 .. n
      BY <1>2
    <3>2. QED
      BY <1>2, <3>1
  <2>3. QED
    BY <1>2, <1>3, <1>4, <2>1, <2>2
<1>8. message_' = MessageUpTo(more, m) /\ message_'.type # "unknown"
      /\ delivered' = WhenFinal(f, message_')
  <2>1. /\ n = 0 \/ parsed[n].fin =>
             MessageUpTo(more, m) = [type |-> TypeOf[x.opcode], content |-> x.content]
        /\ n > 0 /\ ~parsed[n].fin =>
             MessageUpTo(more, m) = [type    |-> MessageUpTo(parsed, n).type,
                                     content |-> MessageUpTo(parsed, n).content \o x.content]
    <3>1. parsed \in Seq(Content)
      BY DEF ReaderType
    <3>2. PICK s : s = parsed
      OBVIOUS
    <3>3. s \in Seq(Content) /\ x \in Content /\ n = Len(s) /\ more = Append(s, x)
      BY <1>1, <1>2, <3>1, <3>2
    <3>4. /\ n = 0 \/ s[n].fin =>
               MessageUpTo(more, n + 1) = [type |-> TypeOf[x.opcode], content |-> x.content]
          /\ n > 0 /\ ~s[n].fin =>
               MessageUpTo(more, n + 1) =
                 [type    |-> MessageUpTo(s, n).type,
                  content |-> MessageUpTo(s, n).content \o x.content]
      <4>1. s \in Seq(Content) /\ x \in Content
        BY <3>3
      <4>2. \A k, new :
              k = Len(s) /\ new = Append(s, x) =>
                /\ k = 0 \/ s[k].fin =>
                     MessageUpTo(new, k + 1) = [type |-> TypeOf[x.opcode], content |-> x.content]
                /\ k > 0 /\ ~s[k].fin =>
                     MessageUpTo(new, k + 1) =
                       [type    |-> MessageUpTo(s, k).type,
                        content |-> MessageUpTo(s, k).content \o x.content]
        BY <4>1, LastMessage
      <4>3. QED
        BY <3>3, <4>2
    <3>5. QED
      BY <1>3, <3>2, <3>4
  <2>2. CASE n = 0 \/ parsed[n].fin
    <3>1. f.opcode # 0 /\ f.opcode \in DOMAIN TypeOf
      BY <1>7, <2>2
    <3>2. message_' = StartMessage(f) /\ delivered' = WhenFinal(f, message_')
      BY <3>1 DEF Buffer
    <3>3. TypeOf[f.opcode] # "unknown"
      BY <3>1 DEF TypeOf
    <3>4. QED
      BY <1>2, <2>1, <2>2, <3>2, <3>3 DEF StartMessage
  <2>3. CASE n > 0 /\ ~parsed[n].fin
    <3>1. f.opcode = 0 /\ f.opcode \notin DOMAIN TypeOf
      BY <1>7, <2>3 DEF TypeOf
    <3>2. message_ = MessageUpTo(parsed, n) /\ message_.type # "unknown"
      BY <1>6, <2>3
    <3>3. message_' = [message_ EXCEPT !.content = @ \o f.content]
          /\ delivered' = WhenFinal(f, message_')
      BY <3>1, <3>2 DEF Buffer
    <3>4. message_ \in Message
      BY DEF ReaderType
    <3>5. message_' = [type |-> message_.type, content |-> message_.content \o f.content]
      BY <3>3, <3>4 DEF Message
    <3>6. message_'.type = message_.type
      BY <3>5
    <3>7. QED
      BY <1>2, <2>1, <2>3, <3>2, <3>3, <3>5, <3>6
  <2>4. n = 0 \/ n > 0
    BY <1>2
  <2>5. QED
    BY <2>2, <2>3, <2>4
<1>9. delivered' = Messages(more)
  <2>1. Messages(more) = Ending(Messages(parsed), more, m)
    BY <1>1, <1>2, <1>3, MessagesAppend DEF ReaderType
  <2>2. QED
    BY <1>2, <1>3, <1>6, <1>8, <2>1 DEF Ending, WhenFinal
<1>10. QED
  BY <1>8, <1>9

\* The handler sees the messages of the frames it was sent, whole, once and in
\* order, however many fragments they have, if the peer does not put frames of
\* others between the frames of one: WebsocketFrameBuffer::consume().
THEOREM MessagesWhole == ReaderSpec => []MessagesReassembled
<1>1. ReaderType /\ MessageInv /\ [ReaderNext]_readerVars => MessageInv'
  <2> SUFFICES ASSUME ReaderType, MessageInv, [ReaderNext]_readerVars PROVE MessageInv'
    OBVIOUS
  <2>1. CASE UNCHANGED <<message_, parsed, delivered>>
    BY <2>1 DEF MessageInv
  <2>2. QED
    BY <2>1, StepOutcome, FrameMessage
<1>2. MessageInv => MessagesReassembled
  BY DEF MessageInv, MessagesReassembled
<1>3. QED
  BY <1>1, <1>2, ReaderTyped, InitMessage, PTL DEF ReaderSpec
===============================================================================
