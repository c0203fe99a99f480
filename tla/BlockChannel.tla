----------------------------- MODULE BlockChannel -----------------------------
(***************************************************************************)
(* What an HttpConnection promises its callers about writing: a one-way    *)
(* channel to the client.  Every block handed to write() is accepted; the  *)
(* client receives accepted blocks one at a time, in the order in which    *)
(* they were accepted, each once; and a channel that broke delivers        *)
(* nothing more.  Threads, the write queue and the socket are absent.      *)
(***************************************************************************)
EXTENDS Naturals, Sequences

CONSTANT Kinds              \* what the bytes of a block are

VARIABLES accepted,         \* the blocks accepted, oldest first
          delivered,        \* the blocks the client received, oldest first
          broken            \* the channel delivers nothing more

chanVars == <<accepted, delivered, broken>>

Init == /\ accepted = <<>>
        /\ delivered = <<>>
        /\ broken = FALSE

Accept == /\ \E k \in Kinds :
               accepted' = Append(accepted,
                                  [id |-> Len(accepted) + 1, kind |-> k])
          /\ UNCHANGED <<delivered, broken>>

Deliver == /\ ~broken
           /\ Len(delivered) < Len(accepted)
           /\ delivered' = Append(delivered, accepted[Len(delivered) + 1])
           /\ UNCHANGED <<accepted, broken>>

Break == /\ ~broken
         /\ broken' = TRUE
         /\ UNCHANGED <<accepted, delivered>>

Next == Accept \/ Deliver \/ Break

Spec == Init /\ [][Next]_chanVars

\* A channel that does not break delivers everything it accepts.
FairSpec == Spec /\ WF_chanVars(Deliver)
===============================================================================
