---------------------------- MODULE MCLibavStream -----------------------------
(* Instances of LibavStream for TLC.                                        *)
EXTENDS LibavStream

MCKinds == {"status", "headers", "content", "packet", "raw"}
MCWriters == {"transport"}
===============================================================================
