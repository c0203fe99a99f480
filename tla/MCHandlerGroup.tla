---------------------------- MODULE MCHandlerGroup ----------------------------
(* Instances of HandlerGroup for TLC.                                       *)
EXTENDS HandlerGroup

MCKinds == {"status", "headers", "content", "frame"}
MCHandlers == <<"files", "body", "websocket">>

MCWebsocketOnly == <<"websocket">>

\* None, an empty body, and two that may come in several reads: with and
\* without room for bytes behind them.
MCLengths == {-1, 0, 3, 4}
===============================================================================
