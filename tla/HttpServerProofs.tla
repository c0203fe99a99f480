---------------------------- MODULE HttpServerProofs ----------------------------
(***************************************************************************)
(* Proofs about HttpServer, for every pool and any number of clients.      *)
(*                                                                         *)
(* The accept that is under way is a token with three places: asio's list  *)
(* of outstanding accepts, its queue of posted completions, and the thread *)
(* between handle_accept() and start_accept().  The invariant says where   *)
(* it is, what its connection's socket is then, and that no two sockets    *)
(* have one client: from that follows also that there is always a          *)
(* connection object free to be the next.                                  *)
(***************************************************************************)
EXTENDS HttpServer, FiniteSetTheorems, TLAPS

NoThreadAccepts == \A t \in Threads : thread[t] # "accept"

\* The connections whose socket has a peer have peers of their own, and none
\* that is still in the backlog; every started connection has one.
PeersInv ==
  /\ \A j, k \in Connections : peer[j] = peer[k] /\ peer[j] # NoClient => j = k
  /\ \A k \in Connections : peer[k] \notin backlog
  /\ \A k \in started : peer[k] # NoClient

\* Where the accept is.
Outstanding ==
  /\ accepts = {new_connection_}
  /\ posted = {}
  /\ NoThreadAccepts
  /\ new_connection_ \notin started
  /\ peer[new_connection_] = NoClient

Posted ==
  /\ accepts = {}
  /\ \E ok \in BOOLEAN :
       /\ posted = {[connection |-> new_connection_, ok |-> ok]}
       /\ ok => peer[new_connection_] # NoClient
  /\ NoThreadAccepts
  /\ new_connection_ \notin started

Handled ==
  /\ accepts = {}
  /\ posted = {}
  /\ \E t \in Threads : \A u \in Threads : thread[u] = "accept" <=> u = t

NotRunning ==
  /\ owner = "constructed"
  /\ accepts = {}
  /\ posted = {}
  /\ started = {}
  /\ peer[new_connection_] = NoClient
  /\ \A t \in Threads : thread[t] = "none"

AcceptInv == NotRunning \/ (owner # "constructed" /\ (Outstanding \/ Posted \/ Handled))

ServerInv ==
  /\ ServerTypeOK
  /\ PeersInv
  /\ AcceptInv
  /\ ThreadsStayUntilStop

-------------------------------------------------------------------------------
(* There is a connection object for every accept.                          *)

LEMMA FreshConnection ==
  ASSUME ServerTypeOK, PeersInv
  PROVE  \E k \in Connections : k \notin started \cup {new_connection_}
<1> DEFINE N == Cardinality(Clients)
           f == [k \in started |-> peer[k]]
<1>1. N \in Nat
  BY ServerAssumption, FS_CardinalityType
<1>2. f \in Injection(started, Clients)
  <2>1. \A k \in started : k \in Connections /\ peer[k] \in Clients
    BY DEF ServerTypeOK, PeersInv
  <2>2. \A j, k \in started : f[j] = f[k] => j = k
    BY <2>1 DEF PeersInv
  <2> QED  BY <2>1, <2>2 DEF Injection, IsInjective
<1>3. IsFiniteSet(started) /\ Cardinality(started) <= N
  BY <1>2, ServerAssumption, FS_Injection
<1>4. Cardinality(started \cup {new_connection_}) <= N + 1
      /\ IsFiniteSet(started \cup {new_connection_})
  BY <1>1, <1>3, FS_AddElement, FS_CardinalityType
<1>5. Cardinality(Connections) = N + 2
  BY <1>1, FS_Interval DEF Connections
<1>6. ~(Connections \subseteq started \cup {new_connection_})
  <2> SUFFICES ASSUME Connections \subseteq started \cup {new_connection_}
               PROVE  FALSE
    OBVIOUS
  <2>1. Cardinality(Connections) <= Cardinality(started \cup {new_connection_})
    BY <1>4, FS_Subset
  <2>2. Cardinality(started \cup {new_connection_}) \in Nat
    BY <1>4, FS_CardinalityType
  <2> QED  BY <1>1, <1>4, <1>5, <2>1, <2>2
<1> QED  BY <1>6

\* What the accept that is under way says of accepts and posted.
LEMMA AbortedAccept ==
  ASSUME accepts = {new_connection_}, posted = {}, Abort
  PROVE  accepts' = {} /\ posted' = {[connection |-> new_connection_, ok |-> FALSE]}
BY DEF Abort

LEMMA NothingToAbort ==
  ASSUME accepts = {}, Abort
  PROVE  accepts' = {} /\ posted' = posted
BY DEF Abort

-------------------------------------------------------------------------------
(* The steps of the owner.                                                 *)

LEMMA OwnerStepKeeps == ASSUME ServerInv, OwnerStep PROVE ServerInv'
<1> USE DEF ServerInv, PeersInv, ThreadsStayUntilStop, NoThreadAccepts
<1>1. CASE Run
  <2>1. ServerTypeOK' /\ PeersInv' /\ ThreadsStayUntilStop'
    BY <1>1 DEF Run, ServerTypeOK
  <2>2. NotRunning
    BY <1>1 DEF Run, AcceptInv
  <2>3. Outstanding'
    BY <1>1, <2>2 DEF Run, Outstanding, NotRunning
  <2> QED  BY <1>1, <2>1, <2>3 DEF AcceptInv, Run
<1>2. CASE Stop \/ StopService \/ Join
  <2> USE <1>2 DEF Stop, StopService, Join
  <2>1. ServerTypeOK' /\ PeersInv' /\ ThreadsStayUntilStop'
    BY DEF ServerTypeOK
  <2>2. owner # "constructed" /\ owner' # "constructed"
    OBVIOUS
  <2>3. Outstanding' \/ Posted' \/ Handled'
    BY <2>2 DEF AcceptInv, NotRunning, Outstanding, Posted, Handled
  <2> QED  BY <2>1, <2>2, <2>3 DEF AcceptInv
<1>3. CASE Cancel \/ Close
  <2> USE <1>3 DEF Cancel, Close
  <2>1. Abort /\ owner # "constructed" /\ owner' # "constructed"
    OBVIOUS
  <2>2. Posted' \/ Handled'
    <3>1. CASE Outstanding
      BY <3>1, <2>1, AbortedAccept DEF Outstanding, Posted
    <3>2. CASE Posted
      BY <3>2, <2>1, NothingToAbort DEF Posted
    <3>3. CASE Handled
      BY <3>3, <2>1, NothingToAbort DEF Handled
    <3> QED  BY <2>1, <3>1, <3>2, <3>3 DEF AcceptInv, NotRunning
  <2>3. accepts' \subseteq Connections /\ posted' \subseteq Completion
    <3>1. \A k \in Connections : [connection |-> k, ok |-> FALSE] \in Completion
      BY DEF Completion
    <3>2. \A k \in accepts : [connection |-> k, ok |-> FALSE] \in Completion
      BY <3>1 DEF ServerTypeOK
    <3> HIDE DEF Completion
    <3> QED  BY <2>1, <3>2 DEF Abort, ServerTypeOK
  <2>4. ServerTypeOK' /\ PeersInv' /\ ThreadsStayUntilStop'
    BY <2>3 DEF ServerTypeOK
  <2> QED  BY <2>1, <2>2, <2>4 DEF AcceptInv
<1> QED  BY <1>1, <1>2, <1>3 DEF OwnerStep

-------------------------------------------------------------------------------
(* The steps of the threads.                                               *)

\* What handle_accept() takes is the accept of new_connection_.
LEMMA HandleAcceptKeeps ==
  ASSUME ServerInv, NEW t \in Threads, HandleAccept(t)
  PROVE  ServerInv'
<1> USE DEF ServerInv
<1>1. thread' = [thread EXCEPT ![t] = "accept"] /\ thread[t] = "idle"
      /\ UNCHANGED <<owner, open, stopped, new_connection_, accepts, backlog, peer>>
  BY DEF HandleAccept
<1>2. PICK done \in posted :
        /\ posted' = posted \ {done}
        /\ started' = IF done.ok THEN started \cup {new_connection_} ELSE started
  BY DEF HandleAccept
<1>3. owner # "constructed" /\ Posted
  BY <1>2 DEF AcceptInv, NotRunning, Outstanding, Handled
<1>4. done.ok => peer[new_connection_] # NoClient
  BY <1>2, <1>3 DEF Posted
<1>5. ServerTypeOK'
  BY <1>1, <1>2 DEF ServerTypeOK
<1>6. PeersInv'
  BY <1>1, <1>2, <1>4 DEF PeersInv
<1>7. Handled'
  <2>1. posted' = {} /\ accepts' = {}
    BY <1>1, <1>2, <1>3 DEF Posted
  <2>2. \A u \in Threads : thread'[u] = "accept" <=> u = t
    BY <1>1, <1>3 DEF Posted, NoThreadAccepts, ServerTypeOK
  <2> QED  BY <2>1, <2>2 DEF Handled
<1>8. ThreadsStayUntilStop'
  BY <1>1 DEF ThreadsStayUntilStop, ServerTypeOK
<1> QED  BY <1>1, <1>3, <1>5, <1>6, <1>7, <1>8 DEF AcceptInv

LEMMA StartAcceptKeeps ==
  ASSUME ServerInv, NEW t \in Threads, StartAccept(t)
  PROVE  ServerInv'
<1> USE DEF ServerInv
<1> DEFINE fresh == CHOOSE k \in Connections : k \notin started \cup {new_connection_}
<1>1. fresh \in Connections /\ fresh \notin started
  BY FreshConnection
<1>2. /\ thread[t] = "accept"
      /\ thread' = [thread EXCEPT ![t] = "idle"]
      /\ new_connection_' = fresh
      /\ peer' = [peer EXCEPT ![fresh] = NoClient]
      /\ UNCHANGED <<owner, open, stopped, backlog, started>>
      /\ \/ accepts' = accepts \cup {fresh} /\ posted' = posted
         \/ /\ posted' = posted \cup {[connection |-> fresh, ok |-> FALSE]}
            /\ accepts' = accepts
  BY DEF StartAccept
<1> HIDE DEF fresh
<1>3. owner # "constructed" /\ Handled
  BY <1>2 DEF AcceptInv, NotRunning, Outstanding, Posted, NoThreadAccepts
<1>4. NoThreadAccepts'
  BY <1>2, <1>3 DEF Handled, NoThreadAccepts, ServerTypeOK
<1>5. new_connection_' \notin started' /\ peer'[new_connection_'] = NoClient
  BY <1>1, <1>2 DEF ServerTypeOK
<1>6. Outstanding' \/ Posted'
  BY <1>2, <1>3, <1>4, <1>5 DEF Handled, Outstanding, Posted
<1>7. ServerTypeOK'
  <2>1. [connection |-> fresh, ok |-> FALSE] \in Completion
    BY <1>1 DEF Completion
  <2> QED  BY <1>1, <1>2, <2>1 DEF ServerTypeOK
<1>8. PeersInv'
  BY <1>1, <1>2, ServerAssumption DEF PeersInv, ServerTypeOK
<1>9. ThreadsStayUntilStop'
  BY <1>2 DEF ThreadsStayUntilStop, ServerTypeOK
<1> QED  BY <1>2, <1>3, <1>6, <1>7, <1>8, <1>9 DEF AcceptInv

\* A thread exits only when it is told to: with an accept under way the pool
\* is never out of work.
LEMMA OtherThreadStepKeeps ==
  ASSUME ServerInv, NEW t \in Threads, Serve(t) \/ Served(t) \/ Exit(t)
  PROVE  ServerInv'
<1> USE DEF ServerInv
<1>1. PICK place \in {"idle", "serve", "exited"} :
        /\ thread' = [thread EXCEPT ![t] = place]
        /\ place = "exited" => stopped \/ OutOfWork
  BY DEF Serve, Served, Exit
<1>2. thread[t] \in {"idle", "serve"}
      /\ UNCHANGED <<owner, open, stopped, new_connection_, accepts, posted,
                     backlog, peer, started>>
  BY DEF Serve, Served, Exit
<1>3. owner # "constructed"
  BY <1>2 DEF AcceptInv, NotRunning
<1>4. Outstanding' \/ Posted' \/ Handled'
  <2>1. \A u \in Threads : thread'[u] = "accept" <=> thread[u] = "accept"
    BY <1>1, <1>2 DEF ServerTypeOK
  <2> QED  BY <1>2, <1>3, <2>1
           DEF AcceptInv, NotRunning, Outstanding, Posted, Handled, NoThreadAccepts
<1>5. ~OutOfWork
  BY <1>3 DEF OutOfWork, AcceptInv, NotRunning, Outstanding, Posted, Handled
<1>6. ThreadsStayUntilStop'
  BY <1>1, <1>2, <1>5 DEF ThreadsStayUntilStop, ServerTypeOK
<1>7. ServerTypeOK' /\ PeersInv'
  BY <1>1, <1>2 DEF ServerTypeOK, PeersInv
<1> QED  BY <1>2, <1>3, <1>4, <1>6, <1>7 DEF AcceptInv

-------------------------------------------------------------------------------
(* The steps of the network.                                               *)

LEMMA NetworkStepKeeps == ASSUME ServerInv, NetworkStep PROVE ServerInv'
<1> USE DEF ServerInv
<1>1. CASE \E c \in Clients : Connect(c)
  <2>1. PICK c \in Clients : Connect(c)
    BY <1>1
  <2>2. /\ backlog' = backlog \cup {c}
        /\ \A k \in Connections : peer[k] # c
        /\ UNCHANGED <<owner, open, stopped, new_connection_, accepts, posted,
                       thread, peer, started>>
    BY <2>1 DEF Connect
  <2>3. ServerTypeOK' /\ PeersInv' /\ ThreadsStayUntilStop'
    BY <2>2 DEF ServerTypeOK, PeersInv, ThreadsStayUntilStop
  <2>4. AcceptInv'
    BY <2>2 DEF AcceptInv, NotRunning, Outstanding, Posted, Handled, NoThreadAccepts
  <2> QED  BY <2>3, <2>4
<1>2. CASE \E c \in Clients : AcceptSucceeds(c)
  <2>1. PICK c \in Clients, k \in accepts :
          /\ c \in backlog
          /\ accepts' = accepts \ {k}
          /\ posted' = posted \cup {[connection |-> k, ok |-> TRUE]}
          /\ peer' = [peer EXCEPT ![k] = c]
          /\ backlog' = backlog \ {c}
          /\ UNCHANGED <<owner, open, stopped, new_connection_, thread, started>>
    BY <1>2 DEF AcceptSucceeds
  <2>2. Outstanding /\ owner # "constructed" /\ k = new_connection_
    BY <2>1 DEF AcceptInv, NotRunning, Outstanding, Posted, Handled
  <2>3. [connection |-> k, ok |-> TRUE] \in Completion
    BY <2>1 DEF Completion, ServerTypeOK
  <2>4. ServerTypeOK'
    BY <2>1, <2>3 DEF ServerTypeOK
  <2>5. c # NoClient /\ \A j \in Connections : peer[j] # c
    BY <2>1, ServerAssumption DEF PeersInv
  <2>6. PeersInv'
    BY <2>1, <2>2, <2>5 DEF PeersInv, ServerTypeOK
  <2>7. Posted'
    BY <2>1, <2>2, <2>5 DEF Outstanding, Posted, NoThreadAccepts, ServerTypeOK
  <2> QED  BY <2>1, <2>2, <2>4, <2>6, <2>7 DEF AcceptInv, ThreadsStayUntilStop
<1>3. CASE AcceptFails
  <2>1. PICK k \in accepts :
          /\ accepts' = accepts \ {k}
          /\ posted' = posted \cup {[connection |-> k, ok |-> FALSE]}
    BY <1>3 DEF AcceptFails
  <2>2. UNCHANGED <<owner, open, stopped, new_connection_, thread, backlog, peer,
                    started>>
    BY <1>3 DEF AcceptFails
  <2>3. Outstanding /\ owner # "constructed" /\ k = new_connection_
    BY <2>1 DEF AcceptInv, NotRunning, Outstanding, Posted, Handled
  <2>4. [connection |-> k, ok |-> FALSE] \in Completion
    BY <2>1 DEF Completion, ServerTypeOK
  <2>5. ServerTypeOK' /\ PeersInv' /\ ThreadsStayUntilStop'
    BY <2>1, <2>2, <2>4 DEF ServerTypeOK, PeersInv, ThreadsStayUntilStop
  <2>6. Posted'
    BY <2>1, <2>2, <2>3 DEF Outstanding, Posted, NoThreadAccepts
  <2> QED  BY <2>2, <2>3, <2>5, <2>6 DEF AcceptInv
<1>4. CASE \E k \in Connections : End(k)
  <2>1. PICK k \in Connections : End(k)
    BY <1>4
  <2>2. /\ k \in started \ {new_connection_}
        /\ started' = started \ {k}
        /\ peer' = [peer EXCEPT ![k] = NoClient]
        /\ UNCHANGED <<owner, open, stopped, new_connection_, accepts, posted,
                       thread, backlog>>
    BY <2>1 DEF End
  <2>3. ServerTypeOK' /\ ThreadsStayUntilStop'
    BY <2>2 DEF ServerTypeOK, ThreadsStayUntilStop
  <2>4. PeersInv'
    BY <2>2, ServerAssumption DEF PeersInv, ServerTypeOK
  <2>5. AcceptInv'
    BY <2>2 DEF AcceptInv, NotRunning, Outstanding, Posted, Handled,
                NoThreadAccepts, ServerTypeOK
  <2> QED  BY <2>3, <2>4, <2>5
<1> QED  BY <1>1, <1>2, <1>3, <1>4 DEF NetworkStep

-------------------------------------------------------------------------------

LEMMA ServerInvStarts == ServerInit => ServerInv
<1> SUFFICES ASSUME ServerInit PROVE ServerInv
  OBVIOUS
<1>1. 0 \in Connections
  BY ServerAssumption, FS_CardinalityType DEF Connections
<1> QED  BY <1>1 DEF ServerInit, ServerInv, ServerTypeOK, PeersInv, AcceptInv,
                    NotRunning, ThreadsStayUntilStop

LEMMA ServerInvKept == ServerInv /\ [ServerNext]_serverVars => ServerInv'
<1> SUFFICES ASSUME ServerInv, [ServerNext]_serverVars PROVE ServerInv'
  OBVIOUS
<1>1. CASE UNCHANGED serverVars
  BY <1>1 DEF serverVars, ServerInv, ServerTypeOK, PeersInv, AcceptInv, NotRunning,
              Outstanding, Posted, Handled, NoThreadAccepts, ThreadsStayUntilStop
<1>2. ASSUME NEW t \in Threads, ThreadStep(t)
      PROVE  ServerInv'
  BY <1>2, HandleAcceptKeeps, StartAcceptKeeps, OtherThreadStepKeeps DEF ThreadStep
<1> QED  BY <1>1, <1>2, OwnerStepKeeps, NetworkStepKeeps DEF ServerNext

LEMMA ServerInvariant == ServerSpec => []ServerInv
BY ServerInvStarts, ServerInvKept, PTL DEF ServerSpec

\* The server's variables keep their types; in particular there is always a
\* connection object for the next accept.
THEOREM ServerTypeCorrect == ServerSpec => []ServerTypeOK
<1>1. ServerInv => ServerTypeOK
  BY DEF ServerInv
<1> QED  BY <1>1, ServerInvariant, PTL

\* After run() one accept is under way, for any pool and any clients, however
\* accepts fail and wherever stop() is.
THEOREM OneAcceptAlways == ServerSpec => []OneAccept
<1>1. ServerInv => OneAccept
  <2> SUFFICES ASSUME ServerInv, owner # "constructed"
               PROVE  Cardinality(accepts) + Cardinality(posted)
                        + Cardinality({t \in Threads : thread[t] = "accept"}) = 1
    BY DEF OneAccept
  <2> DEFINE accepting == {t \in Threads : thread[t] = "accept"}
  <2>1. CASE Outstanding
    <3>1. accepting = {}
      BY <2>1 DEF Outstanding, NoThreadAccepts
    <3> HIDE DEF accepting
    <3>2. Cardinality(accepts) = 1 /\ Cardinality(posted) = 0 /\ Cardinality(accepting) = 0
      BY <2>1, <3>1, FS_EmptySet, FS_Singleton DEF Outstanding
    <3> QED  BY <3>2 DEF accepting
  <2>2. CASE Posted
    <3>1. accepting = {} /\ accepts = {} /\ \E done : posted = {done}
      BY <2>2 DEF Posted, NoThreadAccepts
    <3> HIDE DEF accepting
    <3>2. Cardinality(accepts) = 0 /\ Cardinality(posted) = 1 /\ Cardinality(accepting) = 0
      BY <3>1, FS_EmptySet, FS_Singleton
    <3> QED  BY <3>2 DEF accepting
  <2>3. CASE Handled
    <3>1. \E t : accepting = {t}
      BY <2>3 DEF Handled
    <3> HIDE DEF accepting
    <3>2. Cardinality(accepts) = 0 /\ Cardinality(posted) = 0 /\ Cardinality(accepting) = 1
      BY <2>3, <3>1, FS_EmptySet, FS_Singleton DEF Handled
    <3> QED  BY <3>2 DEF accepting
  <2> QED  BY <2>1, <2>2, <2>3 DEF ServerInv, AcceptInv, NotRunning
<1> QED  BY <1>1, ServerInvariant, PTL

\* What handle_accept() starts is what was accepted, and no connection that is
\* being served is accepted into: every one has a client of its own.
THEOREM AcceptsGoIntoNewConnection == ServerSpec => []AcceptsIntoNewConnection
<1>1. ServerInv => AcceptsIntoNewConnection
  <2>1. ASSUME ServerInv
        PROVE  /\ \A k \in started : peer[k] # NoClient
               /\ \A j, k \in started : peer[j] = peer[k] => j = k
    BY <2>1 DEF ServerInv, PeersInv, ServerTypeOK
  <2>2. ASSUME ServerInv
        PROVE  /\ accepts \cup {done.connection : done \in posted} \subseteq {new_connection_}
               /\ accepts \cap started = {}
    BY <2>2 DEF ServerInv, AcceptInv, NotRunning, Outstanding, Posted, Handled
  <2> QED  BY <2>1, <2>2 DEF AcceptsIntoNewConnection
<1> QED  BY <1>1, ServerInvariant, PTL

\* No thread of the pool leaves run() before the service is stopped.
THEOREM PoolStays == ServerSpec => []ThreadsStayUntilStop
<1>1. ServerInv => ThreadsStayUntilStop
  BY DEF ServerInv
<1> QED  BY <1>1, ServerInvariant, PTL
===============================================================================
