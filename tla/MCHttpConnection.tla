--------------------------- MODULE MCHttpConnection ---------------------------
(* Instances of HttpConnection for TLC.  Threads of the pool, and           *)
(* application threads, are interchangeable.                                *)
EXTENDS HttpConnection, TLC

Symmetry == Permutations(Threads) \cup Permutations(Writers)

\* Two kinds are enough: one block whose bytes are static, one that is owned.
MCKinds == {"status", "data"}
===============================================================================
