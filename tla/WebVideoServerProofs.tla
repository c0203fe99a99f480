-------------------------- MODULE WebVideoServerProofs --------------------------
(***************************************************************************)
(* Proofs about the life of WebVideoServer, for every pool and any number  *)
(* of clients.                                                             *)
(*                                                                         *)
(* Its HttpServer is used as HttpServer.tla allows, so what is proved of   *)
(* that holds below it.  The members go in order; those below the server   *)
(* go after the joins, when no thread is left to run a handler.            *)
(***************************************************************************)
EXTENDS WebVideoServer, HttpServerProofs, SequenceTheorems

-------------------------------------------------------------------------------
(* The server below is an HttpServer.                                      *)

LEMMA HandlerStepIsServed ==
  ASSUME NEW t \in Threads, HandlerStep(t)
  PROVE  Served(t) \/ UNCHANGED serverVars
BY DEF HandlerStep, HandleListStreams, HandleStreamViewer, LookUp, StartStreamer, Store,
       Finish

LEMMA WebStepIsServerStep == [WebNext]_webVars => [ServerNext]_serverVars
<1> SUFFICES ASSUME [WebNext]_webVars
             PROVE  [ServerNext]_serverVars
  OBVIOUS
<1>1. CASE UNCHANGED webVars
  BY <1>1 DEF webVars
<1>2. CASE MainStep
  BY <1>2 DEF MainStep, Construct, Spin, Signal, StopHttpServer, DestroyMember,
              ServerNext, OwnerStep
<1>3. ASSUME NEW t \in Threads, NEW k \in Connections, BeginHandler(t, k)
      PROVE  ServerNext
  BY <1>3 DEF BeginHandler, ServerNext, ThreadStep
<1>4. ASSUME NEW t \in Threads, HandlerStep(t)
      PROVE  [ServerNext]_serverVars
  BY <1>4, HandlerStepIsServed DEF ServerNext, ThreadStep
<1>5. ASSUME NEW t \in Threads, HandleAccept(t) \/ StartAccept(t) \/ Exit(t)
      PROVE  ServerNext
  BY <1>5 DEF ServerNext, ThreadStep
<1>6. CASE \/ \E c \in Clients : Connect(c) \/ AcceptSucceeds(c)
           \/ AcceptFails
           \/ \E k \in Connections : EndConnection(k)
  BY <1>6 DEF EndConnection, ServerNext, NetworkStep
<1>7. CASE (\E k \in Connections : OnImageMsg(k)) \/ ImageSent
  BY <1>7 DEF OnImageMsg, ImageSent
<1> QED  BY <1>1, <1>2, <1>3, <1>4, <1>5, <1>6, <1>7 DEF WebNext

\* WebVideoServer calls run() and stop() as HttpServer allows, whatever its
\* handlers and its destructor do.
THEOREM WebUsesServer == WebSpec => ServerSpec
<1>1. WebInit => ServerInit
  BY DEF WebInit
<1> QED  BY <1>1, WebStepIsServerStep, PTL DEF WebSpec, ServerSpec

-------------------------------------------------------------------------------
(* The members.                                                            *)

LEMMA ShorterSubSeq ==
  ASSUME NEW S, NEW s \in Seq(S), NEW n \in 1 .. Len(s)
  PROVE  /\ Len(SubSeq(s, 1, n)) = n
         /\ SubSeq(SubSeq(s, 1, n), 1, n - 1) = SubSeq(s, 1, n - 1)
<1> DEFINE front == SubSeq(s, 1, n)
           shorter == SubSeq(front, 1, n - 1)
           direct == SubSeq(s, 1, n - 1)
<1>1. \A i \in 1 .. Len(s) : s[i] \in S
  BY ElementOfSeq
<1>2. n \in Nat /\ n >= 1 /\ n <= Len(s) /\ Len(s) \in Nat
  BY LenProperties
<1>3. /\ front \in Seq(S) /\ Len(front) = n
      /\ \A i \in 1 .. n : front[i] = s[i]
  BY <1>1, <1>2, SubSeqProperties
<1>4. /\ direct \in Seq(S) /\ Len(direct) = n - 1
      /\ \A i \in 1 .. n - 1 : direct[i] = s[i]
  BY <1>1, <1>2, SubSeqProperties
<1>5. \A i \in 1 .. n - 1 : front[i] \in S
  BY <1>1, <1>2, <1>3
<1>6. /\ shorter \in Seq(S) /\ Len(shorter) = n - 1
      /\ \A i \in 1 .. n - 1 : shorter[i] = front[i]
  BY <1>2, <1>5, SubSeqProperties
<1>7. \A i \in 1 .. n - 1 : shorter[i] = direct[i]
  BY <1>2, <1>3, <1>4, <1>6
<1> HIDE DEF shorter, direct
<1>8. shorter = direct
  BY <1>4, <1>6, <1>7, SeqEqual
<1> QED  BY <1>3, <1>8 DEF shorter, direct

LEMMA FirstMembers ==
  ASSUME NEW n \in 0 .. 6, members = SubSeq(Members, 1, n)
  PROVE  /\ Len(members) = n
         /\ DOMAIN members = 1 .. n
         /\ \A i \in 1 .. n : members[i] = Members[i]
         /\ n > 0 => SubSeq(members, 1, n - 1) = SubSeq(Members, 1, n - 1)
<1>1. Members \in Seq(AllMembers) /\ Len(Members) = 6
  BY DEF Members, AllMembers
<1>2. \A i \in 1 .. n : Members[i] \in AllMembers
  BY <1>1, ElementOfSeq
<1>3. /\ members \in Seq(AllMembers)
      /\ Len(members) = n
      /\ \A i \in 1 .. n : members[i] = Members[i]
  BY <1>2, SubSeqProperties
<1>4. DOMAIN members = 1 .. n
  BY <1>3, LenProperties
<1>5. n > 0 => SubSeq(members, 1, n - 1) = SubSeq(Members, 1, n - 1)
  BY <1>1, ShorterSubSeq
<1> QED  BY <1>3, <1>4, <1>5

\* The members that live are the first of the class; once the server is not
\* one of them its threads were joined.
MembersInv ==
  \E n \in 0 .. 6 : /\ members = SubSeq(Members, 1, n)
                    /\ n < 2 => owner = "joined"

\* A joined server's threads are through.
JoinedInv == owner = "joined" => \A t \in Threads : thread[t] = "exited"

LEMMA JoinedKept ==
  ASSUME ServerTypeOK, JoinedInv, [ServerNext]_serverVars
  PROVE  JoinedInv' /\ (owner = "joined" => owner' = "joined")
<1> USE DEF JoinedInv, ServerTypeOK
<1>1. CASE UNCHANGED serverVars
  BY <1>1 DEF serverVars
<1>2. CASE OwnerStep
  BY <1>2 DEF OwnerStep, Run, Stop, Cancel, Close, StopService, Join
<1>3. ASSUME NEW t \in Threads, ThreadStep(t)
      PROVE  owner' = owner /\ (owner = "joined" => thread' = thread)
  BY <1>3 DEF ThreadStep, HandleAccept, StartAccept, Serve, Served, Exit
<1>4. CASE NetworkStep
  BY <1>4 DEF NetworkStep, Connect, AcceptSucceeds, AcceptFails, End
<1> QED  BY <1>1, <1>2, <1>3, <1>4 DEF ServerNext

LEMMA MembersKept ==
  ASSUME MembersInv, owner = "joined" => owner' = "joined", DestroyMember
  PROVE  MembersInv'
<1>1. PICK n \in 0 .. 6 : members = SubSeq(Members, 1, n) /\ (n < 2 => owner = "joined")
  BY DEF MembersInv
<1>2. /\ Len(members) = n
      /\ n > 0 => /\ members[n] = Members[n]
                  /\ SubSeq(members, 1, n - 1) = SubSeq(Members, 1, n - 1)
  BY <1>1, FirstMembers
<1>3. n > 0
  <2>1. members # <<>>
    BY DEF DestroyMember
  <2>2. n = 0 => members = <<>>
    BY <1>1, SubSeqEmpty
  <2> QED  BY <2>1, <2>2
<1>4. members' = SubSeq(Members, 1, n - 1) /\ n - 1 \in 0 .. 6
  BY <1>2, <1>3 DEF DestroyMember
<1>5. n - 1 < 2 => owner = "joined"
  <2>1. CASE n < 2
    BY <1>1, <2>1
  <2>2. CASE n = 2
    <3>1. Last = "server"
      BY <1>2, <2>2 DEF Last, Members
    <3> QED  BY <3>1 DEF DestroyMember
  <2> QED  BY <2>1, <2>2
<1> QED  BY <1>4, <1>5 DEF MembersInv

\* While a handler runs no thread was joined, and so the node lives.
LEMMA NodeAlive ==
  ASSUME MembersInv, JoinedInv, NEW t \in Threads, thread[t] # "exited"
  PROVE  "node" \in Alive
<1>1. PICK n \in 0 .. 6 : members = SubSeq(Members, 1, n) /\ (n < 2 => owner = "joined")
  BY DEF MembersInv
<1>2. n >= 2
  BY <1>1 DEF JoinedInv
<1>3. 1 \in DOMAIN members /\ members[1] = Members[1]
  BY <1>1, <1>2, FirstMembers
<1> QED  BY <1>3 DEF Alive, Members

-------------------------------------------------------------------------------
(* Types.                                                                  *)

\* What LifeTypeOK says of the handlers and of the sets.
HandlersOK ==
  /\ handler \in [Threads -> {"none", "list", "viewer", "stream", "start", "store"}]
  /\ \A t \in Threads : handler[t] # "none" <=> thread[t] = "serve"
  /\ serving \in [Threads -> Connections]
  /\ subscribed \subseteq Connections
  /\ image_subscribers \subseteq Connections

MisusedOK == misused \subseteq AllMembers \cup {"streamer"} /\ "node" \notin misused

LEMMA FinishKeepsHandlers ==
  ASSUME ServerTypeOK, HandlersOK, NEW t \in Threads, Finish(t)
  PROVE  /\ handler' \in [Threads -> {"none", "list", "viewer", "stream", "start", "store"}]
         /\ \A u \in Threads : handler'[u] # "none" <=> thread'[u] = "serve"
         /\ serving' \in [Threads -> Connections]
<1>1. 0 \in Connections
  BY FS_CardinalityType, ServerAssumption DEF Connections
<1> QED  BY <1>1 DEF HandlersOK, ServerTypeOK, Finish, Served

LEMMA HandlersKept ==
  ASSUME ServerInv, HandlersOK, [WebNext]_webVars
  PROVE  HandlersOK'
<1>0. ServerTypeOK
  BY DEF ServerInv
<1>1. CASE UNCHANGED <<thread, handler, serving, subscribed, image_subscribers>>
  BY <1>1 DEF HandlersOK
<1>2. CASE MainStep
  <2>1. UNCHANGED <<handler, serving>>
    BY <1>2 DEF MainStep, Construct, Spin, Signal, StopHttpServer, DestroyMember, lifeVars
  <2>2. subscribed' \subseteq Connections /\ image_subscribers' \subseteq Connections
    BY <1>2 DEF HandlersOK, MainStep, Construct, Spin, Signal, StopHttpServer,
                DestroyMember, lifeVars
  <2>3. \A t \in Threads : thread'[t] = "serve" <=> thread[t] = "serve"
    <3>1. CASE Run
      <4>1. \A t \in Threads : thread[t] = "none"
        BY <3>1 DEF Run, ServerInv, AcceptInv, NotRunning
      <4> QED  BY <3>1, <4>1 DEF Run
    <3>2. CASE UNCHANGED thread
      BY <3>2
    <3>3. Run \/ UNCHANGED thread
      BY <1>2 DEF MainStep, Construct, Spin, Signal, StopHttpServer, DestroyMember,
                  serverVars, Stop, Cancel, Close, StopService, Join
    <3> QED  BY <3>1, <3>2, <3>3
  <2> QED  BY <2>1, <2>2, <2>3 DEF HandlersOK
<1>3. ASSUME NEW t \in Threads, NEW k \in Connections, BeginHandler(t, k)
      PROVE  HandlersOK'
  BY <1>0, <1>3 DEF BeginHandler, Serve, HandlersOK, ServerTypeOK
<1>4. ASSUME NEW t \in Threads, HandlerStep(t)
      PROVE  HandlersOK'
  <2>1. CASE HandleListStreams(t) \/ HandleStreamViewer(t)
    BY <1>0, <2>1, FinishKeepsHandlers
       DEF HandleListStreams, HandleStreamViewer, HandlersOK
  <2>2. CASE LookUp(t)
    BY <1>0, <2>2, FinishKeepsHandlers DEF LookUp, HandlersOK, serverVars
  <2>3. CASE StartStreamer(t)
    BY <2>3 DEF StartStreamer, HandlersOK, serverVars
  <2>4. CASE Store(t)
    BY <1>0, <2>4, FinishKeepsHandlers DEF Store, HandlersOK
  <2> QED  BY <1>4, <2>1, <2>2, <2>3, <2>4 DEF HandlerStep
<1>5. ASSUME NEW t \in Threads, HandleAccept(t) \/ StartAccept(t) \/ Exit(t),
             UNCHANGED lifeVars
      PROVE  HandlersOK'
  BY <1>0, <1>5 DEF HandleAccept, StartAccept, Exit, lifeVars, HandlersOK, ServerTypeOK
<1>6. CASE \E c \in Clients : (Connect(c) \/ AcceptSucceeds(c)) /\ UNCHANGED lifeVars
  BY <1>1, <1>6 DEF Connect, AcceptSucceeds, lifeVars
<1>7. CASE AcceptFails /\ UNCHANGED lifeVars
  BY <1>1, <1>7 DEF AcceptFails, lifeVars
<1>8. CASE (\E k \in Connections : EndConnection(k) \/ OnImageMsg(k)) \/ ImageSent
  BY <1>1, <1>8 DEF EndConnection, End, OnImageMsg, ImageSent, serverVars
<1>9. CASE UNCHANGED webVars
  BY <1>1, <1>9 DEF webVars, serverVars, lifeVars
<1> QED  BY <1>2, <1>3, <1>4, <1>5, <1>6, <1>7, <1>8, <1>9 DEF WebNext

LEMMA MisusedKept ==
  ASSUME HandlersOK, MembersInv, JoinedInv, MisusedOK, [WebNext]_webVars
  PROVE  MisusedOK'
<1> USE DEF MisusedOK, AllMembers
<1>1. CASE UNCHANGED misused
  BY <1>1
<1>2. CASE DestroyMember
  BY <1>2 DEF DestroyMember
<1>3. ASSUME NEW t \in Threads, HandlerStep(t), ~UNCHANGED misused
      PROVE  MisusedOK'
  <2>1. "node" \in Alive
    <3>1. handler[t] # "none"
      BY <1>3 DEF HandlerStep, HandleListStreams, HandleStreamViewer, LookUp,
                  StartStreamer, Store
    <3> QED  BY <3>1, NodeAlive DEF HandlersOK
  <2>2. \E used \in SUBSET AllMembers : misused' = misused \cup (used \ Alive)
    BY <1>3 DEF HandlerStep, HandleListStreams, HandleStreamViewer, LookUp,
                StartStreamer, Store, Use
  <2> QED  BY <2>1, <2>2
<1> QED  BY <1>1, <1>2, <1>3
         DEF WebNext, MainStep, Construct, Spin, Signal, StopHttpServer, BeginHandler,
             EndConnection, OnImageMsg, ImageSent, lifeVars, webVars

LEMMA LifeKept ==
  [WebNext]_webVars /\ life \in {"construct", "spin", "spin without server", "wait",
                                 "destroy", "gone", "null server used"}
    => life' \in {"construct", "spin", "spin without server", "wait", "destroy",
                  "gone", "null server used"}
BY DEF WebNext, MainStep, Construct, Spin, Signal, StopHttpServer, DestroyMember,
       BeginHandler, HandlerStep, HandleListStreams, HandleStreamViewer, LookUp,
       StartStreamer, Store, Finish, EndConnection, OnImageMsg, ImageSent, lifeVars,
       webVars

LEMMA MembersUnchanged ==
  [WebNext]_webVars => UNCHANGED members \/ DestroyMember
BY DEF WebNext, MainStep, Construct, Spin, Signal, StopHttpServer,
       BeginHandler, HandlerStep, HandleListStreams, HandleStreamViewer, LookUp,
       StartStreamer, Store, Finish, EndConnection, OnImageMsg, ImageSent, lifeVars,
       webVars

LifeInv ==
  /\ life \in {"construct", "spin", "spin without server", "wait", "destroy", "gone",
               "null server used"}
  /\ HandlersOK
  /\ MisusedOK
  /\ MembersInv
  /\ JoinedInv

LEMMA LifeInvStarts == WebInit => LifeInv
<1> SUFFICES ASSUME WebInit
             PROVE  LifeInv
  OBVIOUS
<1>1. HandlersOK
  <2>1. 0 \in Connections
    BY FS_CardinalityType, ServerAssumption DEF Connections
  <2> QED  BY <2>1 DEF WebInit, ServerInit, HandlersOK
<1>2. MembersInv
  <2>1. Members \in Seq(AllMembers) /\ Len(Members) = 6
    BY DEF Members, AllMembers
  <2>2. /\ SubSeq(Members, 1, 6) \in Seq(AllMembers)
        /\ Len(SubSeq(Members, 1, 6)) = 6
        /\ \A i \in 1 .. 6 : SubSeq(Members, 1, 6)[i] = Members[i]
    BY <2>1, ElementOfSeq, SubSeqProperties
  <2>3. SubSeq(Members, 1, 6) = Members
    BY <2>1, <2>2, SeqEqual
  <2> QED  BY <2>3 DEF WebInit, MembersInv
<1>3. JoinedInv
  BY DEF WebInit, ServerInit, JoinedInv
<1>4. MisusedOK
  BY DEF WebInit, MisusedOK
<1> QED  BY <1>1, <1>2, <1>3, <1>4 DEF WebInit, LifeInv

LEMMA LifeInvariant == WebSpec => [](ServerInv /\ LifeInv)
<1>1. ServerInv /\ LifeInv /\ [WebNext]_webVars => LifeInv'
  <2> SUFFICES ASSUME ServerInv, LifeInv, [WebNext]_webVars
               PROVE  LifeInv'
    OBVIOUS
  <2>1. JoinedInv' /\ (owner = "joined" => owner' = "joined")
    BY WebStepIsServerStep, JoinedKept DEF LifeInv, ServerInv
  <2>2. MembersInv'
    <3>1. CASE UNCHANGED members
      BY <2>1, <3>1 DEF LifeInv, MembersInv
    <3>2. CASE DestroyMember
      BY <2>1, <3>2, MembersKept DEF LifeInv
    <3> QED  BY <3>1, <3>2, MembersUnchanged
  <2>3. HandlersOK' /\ MisusedOK'
    BY HandlersKept, MisusedKept DEF LifeInv
  <2> QED  BY <2>1, <2>2, <2>3, LifeKept DEF LifeInv
<1> QED  BY <1>1, LifeInvStarts, ServerInvariant, WebUsesServer, PTL DEF WebSpec

\* The types of the life cycle; a thread is serving exactly while its handler
\* has something left to do.
THEOREM LifeTypeCorrect == WebSpec => []LifeTypeOK
<1>1. LifeInv => LifeTypeOK
  BY DEF LifeInv, LifeTypeOK, HandlersOK, MisusedOK, MembersInv
<1> QED  BY <1>1, LifeInvariant, PTL

\* The server goes only after its last thread has exited, and a handler that
\* asks the node for topics finds it alive, for every pool.
THEOREM HandlersEnd == WebSpec => []HandlersEndInTime
<1>1. LifeInv => HandlersEndInTime
  <2> SUFFICES ASSUME LifeInv, "server" \notin Alive
               PROVE  owner = "joined"
    BY DEF LifeInv, JoinedInv, MisusedOK, HandlersEndInTime
  <2>1. PICK n \in 0 .. 6 : members = SubSeq(Members, 1, n) /\ (n < 2 => owner = "joined")
    BY DEF LifeInv, MembersInv
  <2>2. CASE n >= 2
    <3>1. 2 \in DOMAIN members /\ members[2] = Members[2]
      BY <2>1, <2>2, FirstMembers
    <3> QED  BY <3>1 DEF Alive, Members
  <2> QED  BY <2>1, <2>2
<1> QED  BY <1>1, LifeInvariant, PTL
===============================================================================
