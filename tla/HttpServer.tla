------------------------------- MODULE HttpServer -------------------------------
(***************************************************************************)
(* HttpServer of async_web_server_cpp: the chain of accepts, the pool of   *)
(* threads that run the io_service, and stop(), which the owner's thread   *)
(* calls while they do.  What a started connection does is                 *)
(* HttpConnection; here it keeps a thread busy now and then, and ends.     *)
(*                                                                         *)
(* asio is external.  What is used of it: an async_accept completes once,  *)
(* by posting its handler; cancel() and close() complete the outstanding   *)
(* ones with an error; on a closed acceptor one completes with an error at *)
(* once; run() returns when the service is stopped or out of work.         *)
(***************************************************************************)
EXTENDS Naturals, FiniteSets

CONSTANTS Threads,          \* the pool, thread_pool_size_ of them
          Clients,          \* who may connect
          NoClient          \* the peer of a socket that is not connected

ASSUME ServerAssumption ==
  /\ IsFiniteSet(Threads)
  /\ IsFiniteSet(Clients)
  /\ NoClient \notin Clients

\* HttpConnection objects, an identity being free again when its object is:
\* one for each client, the next one, and the one it has just replaced.
Connections == 0 .. Cardinality(Clients) + 1

VARIABLES
  owner,                    \* where the owner is in run() and stop()
  open,                     \* acceptor_ is open
  stopped,                  \* io_service_ is stopped
  new_connection_,          \* new_connection_
  accepts,                  \* connections async_accept is outstanding for
  posted,                   \* completions of accepts that no thread took yet
  thread,                   \* what each thread is executing
  backlog,                  \* clients that connected and were not accepted
  peer,                     \* the client at the other end of each connection
  started                   \* connections that were started and live

serverVars == <<owner, open, stopped, new_connection_, accepts, posted, thread,
                backlog, peer, started>>

Completion == [connection : Connections, ok : BOOLEAN]

ServerTypeOK ==
  /\ owner \in {"constructed", "running", "cancel", "close", "stop", "join", "joined"}
  /\ open \in BOOLEAN
  /\ stopped \in BOOLEAN
  /\ new_connection_ \in Connections
  /\ accepts \subseteq Connections
  /\ posted \subseteq Completion
  /\ thread \in [Threads -> {"none", "idle", "accept", "serve", "exited"}]
  /\ backlog \subseteq Clients
  /\ peer \in [Connections -> Clients \cup {NoClient}]
  /\ started \subseteq Connections

\* Constructed: the acceptor listens.
ServerInit ==
  /\ owner = "constructed"
  /\ open = TRUE
  /\ stopped = FALSE
  /\ new_connection_ = 0
  /\ accepts = {}
  /\ posted = {}
  /\ thread = [t \in Threads |-> "none"]
  /\ backlog = {}
  /\ peer = [k \in Connections |-> NoClient]
  /\ started = {}

-------------------------------------------------------------------------------
(* The owner.                                                              *)

\* run(): the first accept, then the threads.  (A thread that is not created
\* yet is one that does not take a step yet.)
Run ==
  /\ owner = "constructed"
  /\ owner' = "running"
  /\ accepts' = {new_connection_}
  /\ thread' = [t \in Threads |-> "idle"]
  /\ UNCHANGED <<open, stopped, new_connection_, posted, backlog, peer, started>>

\* stop() is called.
Stop ==
  /\ owner = "running"
  /\ owner' = IF open THEN "cancel" ELSE "stop"
  /\ UNCHANGED <<open, stopped, new_connection_, accepts, posted, thread,
                 backlog, peer, started>>

\* The outstanding accepts complete with an error.
Abort ==
  /\ accepts' = {}
  /\ posted' = posted \cup {[connection |-> k, ok |-> FALSE] : k \in accepts}

Cancel ==
  /\ owner = "cancel"
  /\ owner' = "close"
  /\ Abort
  /\ UNCHANGED <<open, stopped, new_connection_, thread, backlog, peer, started>>

Close ==
  /\ owner = "close"
  /\ owner' = "stop"
  /\ open' = FALSE
  /\ Abort
  /\ UNCHANGED <<stopped, new_connection_, thread, backlog, peer, started>>

\* Slip: the threads are joined without stopping what they run.
StopServiceForgotten ==
  /\ owner = "stop"
  /\ owner' = "join"
  /\ UNCHANGED <<open, stopped, new_connection_, accepts, posted, thread,
                 backlog, peer, started>>

StopService ==
  /\ owner = "stop"
  /\ owner' = "join"
  /\ stopped' = TRUE
  /\ UNCHANGED <<open, new_connection_, accepts, posted, thread, backlog, peer,
                 started>>

Join ==
  /\ owner = "join"
  /\ \A t \in Threads : thread[t] = "exited"
  /\ owner' = "joined"
  /\ UNCHANGED <<open, stopped, new_connection_, accepts, posted, thread,
                 backlog, peer, started>>

-------------------------------------------------------------------------------
(* The threads of the pool.                                                *)

\* Slip: an accept that failed is the last.
HandleAcceptLast(t) ==
  /\ thread[t] = "idle"
  /\ ~stopped
  /\ \E done \in posted :
       /\ posted' = posted \ {done}
       /\ started' = IF done.ok THEN started \cup {new_connection_} ELSE started
       /\ thread' = [thread EXCEPT ![t] = IF done.ok THEN "accept" ELSE "idle"]
  /\ UNCHANGED <<owner, open, stopped, new_connection_, accepts, backlog, peer>>

\* handle_accept(), up to start_accept(): it starts new_connection_, the
\* member, whatever the completed accept was for.
HandleAccept(t) ==
  /\ thread[t] = "idle"
  /\ ~stopped
  /\ \E done \in posted :
       /\ posted' = posted \ {done}
       /\ started' = IF done.ok THEN started \cup {new_connection_} ELSE started
  /\ thread' = [thread EXCEPT ![t] = "accept"]
  /\ UNCHANGED <<owner, open, stopped, new_connection_, accepts, backlog, peer>>

\* Slip: the accept goes into the connection that was just started.
StartAcceptSame(t) ==
  /\ thread[t] = "accept"
  /\ \/ open /\ accepts' = accepts \cup {new_connection_} /\ UNCHANGED posted
     \/ /\ ~open
        /\ posted' = posted \cup {[connection |-> new_connection_, ok |-> FALSE]}
        /\ UNCHANGED accepts
  /\ thread' = [thread EXCEPT ![t] = "idle"]
  /\ UNCHANGED <<owner, open, stopped, new_connection_, backlog, peer, started>>

\* start_accept(): another connection replaces new_connection_, which lives on
\* if it was started.
StartAccept(t) ==
  LET fresh == CHOOSE k \in Connections : k \notin started \cup {new_connection_}
  IN  /\ thread[t] = "accept"
      /\ new_connection_' = fresh
      /\ peer' = [peer EXCEPT ![fresh] = NoClient]
      /\ \/ open /\ accepts' = accepts \cup {fresh} /\ UNCHANGED posted
         \/ /\ ~open
            /\ posted' = posted \cup {[connection |-> fresh, ok |-> FALSE]}
            /\ UNCHANGED accepts
      /\ thread' = [thread EXCEPT ![t] = "idle"]
      /\ UNCHANGED <<owner, open, stopped, backlog, started>>

\* A handler of some started connection runs, and returns.
Serve(t) ==
  /\ thread[t] = "idle"
  /\ ~stopped
  /\ started # {}
  /\ thread' = [thread EXCEPT ![t] = "serve"]
  /\ UNCHANGED <<owner, open, stopped, new_connection_, accepts, posted, backlog,
                 peer, started>>

Served(t) ==
  /\ thread[t] = "serve"
  /\ thread' = [thread EXCEPT ![t] = "idle"]
  /\ UNCHANGED <<owner, open, stopped, new_connection_, accepts, posted, backlog,
                 peer, started>>

\* io_service::run() has nothing left to wait for.
OutOfWork ==
  /\ accepts = {} /\ posted = {} /\ started = {}
  /\ \A t \in Threads : thread[t] \in {"idle", "exited"}

\* Slip: a thread that is through is taken out of the pool by itself.
ExitErased(t) ==
  /\ thread[t] = "idle"
  /\ stopped \/ OutOfWork
  /\ thread' = [u \in Threads \ {t} |-> thread[u]]
  /\ UNCHANGED <<owner, open, stopped, new_connection_, accepts, posted, backlog,
                 peer, started>>

Exit(t) ==
  /\ thread[t] = "idle"
  /\ stopped \/ OutOfWork
  /\ thread' = [thread EXCEPT ![t] = "exited"]
  /\ UNCHANGED <<owner, open, stopped, new_connection_, accepts, posted, backlog,
                 peer, started>>

-------------------------------------------------------------------------------
(* The network.                                                            *)

Connect(c) ==
  /\ c \notin backlog
  /\ \A k \in Connections : peer[k] # c
  /\ backlog' = backlog \cup {c}
  /\ UNCHANGED <<owner, open, stopped, new_connection_, accepts, posted, thread,
                 peer, started>>

AcceptSucceeds(c) ==
  /\ c \in backlog
  /\ \E k \in accepts :
       /\ accepts' = accepts \ {k}
       /\ posted' = posted \cup {[connection |-> k, ok |-> TRUE]}
       /\ peer' = [peer EXCEPT ![k] = c]
  /\ backlog' = backlog \ {c}
  /\ UNCHANGED <<owner, open, stopped, new_connection_, thread, started>>

\* The client is gone again, or there are no descriptors.
AcceptFails ==
  /\ \E k \in accepts :
       /\ accepts' = accepts \ {k}
       /\ posted' = posted \cup {[connection |-> k, ok |-> FALSE]}
  /\ UNCHANGED <<owner, open, stopped, new_connection_, thread, backlog, peer,
                 started>>

\* The last reference to a connection goes; here, of one that is not new.
End(k) ==
  /\ k \in started \ {new_connection_}
  /\ started' = started \ {k}
  /\ peer' = [peer EXCEPT ![k] = NoClient]
  /\ UNCHANGED <<owner, open, stopped, new_connection_, accepts, posted, thread,
                 backlog>>

-------------------------------------------------------------------------------

OwnerStep == Run \/ Stop \/ Cancel \/ Close \/ StopService \/ Join

ThreadStep(t) ==
  HandleAccept(t) \/ StartAccept(t) \/ Serve(t) \/ Served(t) \/ Exit(t)

NetworkStep ==
  \/ \E c \in Clients : Connect(c) \/ AcceptSucceeds(c)
  \/ AcceptFails
  \/ \E k \in Connections : End(k)

ServerNext == OwnerStep \/ (\E t \in Threads : ThreadStep(t)) \/ NetworkStep

ServerSpec == ServerInit /\ [][ServerNext]_serverVars

\* Fairness.  run() is called, a call of stop() goes on, and so do the
\* threads; a posted completion gets its turn in the queue of the pool; and
\* accepts do not fail for ever with a client waiting.
ServerFairness ==
  /\ WF_serverVars(Run)
  /\ WF_serverVars(Cancel \/ Close \/ StopService \/ Join)
  /\ SF_serverVars(\E t \in Threads : HandleAccept(t))
  /\ \A t \in Threads : WF_serverVars(StartAccept(t) \/ Served(t) \/ Exit(t))
  /\ \A c \in Clients : SF_serverVars(AcceptSucceeds(c))

ServerFairSpec == ServerSpec /\ ServerFairness

-------------------------------------------------------------------------------

\* There is one accept under way, always: outstanding, posted, or in the hands
\* of a thread.  None, and the server is deaf; two, and the second replaces
\* the connection whose socket the first is for.
OneAccept ==
  owner # "constructed" =>
    Cardinality(accepts) + Cardinality(posted)
      + Cardinality({t \in Threads : thread[t] = "accept"}) = 1

\* handle_accept() starts new_connection_ and not what was accepted: they must
\* be the same, a connection that is being served takes no second client, and
\* so every connection that was started has a client of its own.
AcceptsIntoNewConnection ==
  /\ accepts \cup {done.connection : done \in posted} \subseteq {new_connection_}
  /\ accepts \cap started = {}
  /\ \A k \in started : peer[k] # NoClient
  /\ \A j, k \in started : peer[j] = peer[k] => j = k

\* The pool keeps its threads until stop(): run() never finds itself out of
\* work, whatever accepts fail and connections end.
ThreadsStayUntilStop == \A t \in Threads : thread[t] = "exited" => stopped

\* A client that connects is accepted, unless the server is stopped.
ClientsAreAccepted ==
  \A c \in Clients : (c \in backlog) ~> (c \notin backlog \/ owner # "running")

\* stop() returns, with every thread joined, whatever they were doing; until
\* the service is stopped, the accepts that fail on the closed acceptor keep
\* them busy.
StopReturns == (owner = "cancel") ~> (owner = "joined")
===============================================================================
