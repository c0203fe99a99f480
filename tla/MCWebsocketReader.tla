--------------------------- MODULE MCWebsocketReader ---------------------------
(* Instances of WebsocketReader for TLC.                                      *)
EXTENDS WebsocketReader

Long == [i \in 1 .. 126 |-> i]
Frame(fin, opcode, content, masked, layout) ==
  [fin |-> fin, rsv |-> IF masked THEN 0 ELSE 7, opcode |-> opcode, content |-> content,
   masked |-> masked, key |-> <<85, 0, 255, 1>>, layout |-> layout]

\* Every form of length and mask a peer may choose, and what a server sends.
\* Clients mask; a frame of length zero in a long form without a mask is not
\* among what they send.
Forms ==
  {Frame(TRUE, 1, content, TRUE, layout) :
     content \in {<<>>, <<1, 2, 255, 0, 128>>}, layout \in {"short", "two", "eight"}}
  \cup {Frame(TRUE, 2, <<7>>, FALSE, layout) : layout \in {"two", "eight"}}
  \cup {Frame(TRUE, 10, content, FALSE, "serialize") : content \in {<<>>, Long, Tail(Long)}}

\* Every order of opcodes, known and unknown, and of final frames.
Fragments ==
  {Frame(fin, opcode, <<7>>, FALSE, "short") : fin \in BOOLEAN, opcode \in {0, 1, 9, 3}}

MCFrames == Forms \cup Fragments
===============================================================================
