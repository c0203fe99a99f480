----------------------------- MODULE MCPngStream ------------------------------
(* Instances of PngStream for TLC.                                          *)
EXTENDS PngStream

MCKinds == {"status", "headers", "boundary", "part", "data", "footer"}
MCWriters == {"transport"}
===============================================================================
