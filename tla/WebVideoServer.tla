----------------------------- MODULE WebVideoServer -----------------------------
(***************************************************************************)
(* The life of a WebVideoServer, from its constructor to the end of its    *)
(* destructor, beside the io threads that run its handlers and the         *)
(* reception thread of ign-transport that runs its streamers.  The         *)
(* HttpServer it owns is HttpServer.tla.                                   *)
(*                                                                         *)
(* The destructor is the default one: the members go in the reverse of     *)
(* their order, and with the server member go stop() and the joins.  A     *)
(* handler is the sequence of its accesses to the members.                 *)
(***************************************************************************)
EXTENDS HttpServer, Sequences

VARIABLES
  life,                     \* where main() is
  members,                  \* the members that live, in the order of the class
  handler,                  \* what the handler on each io thread does next
  serving,                  \* and the connection it does it for
  served,                   \* connections whose request was taken
  subscribed,               \* connections whose streamer the topic calls
  image_subscribers,        \* connections of the streamers stored there
  callback,                 \* connections whose OnImageMsg() is running
  misused                   \* history: what was used after it was destroyed

lifeVars == <<life, members, handler, serving, served, subscribed,
              image_subscribers, callback, misused>>
webVars == <<serverVars, lifeVars>>

Members == <<"node", "server", "handler_group", "image_subscribers",
             "stream_types", "subscriber_mutex">>

AllMembers == {"node", "server", "handler_group", "image_subscribers",
               "stream_types", "subscriber_mutex"}

WebInit ==
  /\ ServerInit
  /\ life = "construct"
  /\ members = Members
  /\ handler = [t \in Threads |-> "none"]
  /\ serving = [t \in Threads |-> 0]
  /\ served = {}
  /\ subscribed = {}
  /\ image_subscribers = {}
  /\ callback = {}
  /\ misused = {}

Alive == {members[i] : i \in DOMAIN members}

Use(used) == misused' = misused \cup (used \ Alive)

-------------------------------------------------------------------------------
(* main().                                                                 *)

\* The constructor: without the port, there is no server, and it says so in
\* the log.
Construct ==
  /\ life = "construct"
  /\ life' \in {"spin", "spin without server"}
  /\ UNCHANGED <<serverVars, members, handler, serving, served, subscribed,
                 image_subscribers, callback, misused>>

\* spin() returns as soon as the threads are there; main() waits for a signal.
Spin ==
  /\ \/ life = "spin" /\ Run /\ life' = "wait"
     \/ /\ life = "spin without server"
        /\ life' = "null server used"
        /\ UNCHANGED serverVars
  /\ UNCHANGED <<members, handler, serving, served, subscribed,
                 image_subscribers, callback, misused>>

Signal ==
  /\ life = "wait"
  /\ life' = "destroy"
  /\ UNCHANGED <<serverVars, members, handler, serving, served, subscribed,
                 image_subscribers, callback, misused>>

Last == members[Len(members)]

\* ~HttpServer() calls stop().
StopHttpServer ==
  /\ life = "destroy"
  /\ members # <<>>
  /\ Last = "server"
  /\ Stop \/ Cancel \/ Close \/ StopService \/ Join
  /\ UNCHANGED lifeVars

\* Slip: the server is destroyed without waiting for its threads.
DestroyMemberDetached ==
  /\ life = "destroy"
  /\ members # <<>>
  /\ members' = SubSeq(members, 1, Len(members) - 1)
  /\ life' = IF Len(members) = 1 THEN "gone" ELSE life
  /\ UNCHANGED <<serverVars, handler, serving, served, subscribed,
                 image_subscribers, callback, misused>>

\* The next member is destroyed.  With the streamers stored in the vector go
\* their subscriptions, but not a callback that is running.
DestroyMember ==
  /\ life = "destroy"
  /\ members # <<>>
  /\ Last = "server" => owner = "joined"
  /\ members' = SubSeq(members, 1, Len(members) - 1)
  /\ life' = IF Len(members) = 1 THEN "gone" ELSE life
  /\ \/ /\ Last = "image_subscribers"
        /\ subscribed' = subscribed \ image_subscribers
        /\ image_subscribers' = {}
        /\ misused' = misused \cup
             (IF callback \cap image_subscribers = {} THEN {} ELSE {"streamer"})
     \/ /\ Last # "image_subscribers"
        /\ UNCHANGED <<subscribed, image_subscribers, misused>>
  /\ UNCHANGED <<serverVars, handler, serving, served, callback>>

-------------------------------------------------------------------------------
(* The handlers, on the io threads.                                        *)

\* A request is there, for one of the three paths.
BeginHandler(t, k) ==
  /\ Serve(t)
  /\ k \in started \ served
  /\ served' = served \cup {k}
  /\ serving' = [serving EXCEPT ![t] = k]
  /\ \E path \in {"list", "viewer", "stream"} : handler' = [handler EXCEPT ![t] = path]
  /\ UNCHANGED <<life, members, subscribed, image_subscribers, callback, misused>>

\* Slip: the thread goes on with its last handler.
FinishKeeps(t) ==
  /\ Served(t)
  /\ UNCHANGED <<life, members, handler, serving, served, callback>>

\* The handler returns.
Finish(t) ==
  /\ Served(t)
  /\ handler' = [handler EXCEPT ![t] = "none"]
  /\ serving' = [serving EXCEPT ![t] = 0]
  /\ UNCHANGED <<life, members, served, callback>>

\* handle_list_streams() asks the node for the topics.
HandleListStreams(t) ==
  /\ handler[t] = "list"
  /\ Use({"node"})
  /\ Finish(t)
  /\ UNCHANGED <<subscribed, image_subscribers>>

\* handle_stream_viewer() looks the type up.
HandleStreamViewer(t) ==
  /\ handler[t] = "viewer"
  /\ Use({"stream_types"})
  /\ Finish(t)
  /\ UNCHANGED <<subscribed, image_subscribers>>

\* handle_stream(): looks the type up, and answers 404 if it is not there...
LookUp(t) ==
  /\ handler[t] = "stream"
  /\ Use({"stream_types"})
  /\ \/ Finish(t)
     \/ /\ handler' = [handler EXCEPT ![t] = "start"]
        /\ UNCHANGED <<serverVars, life, members, serving, served, callback>>
  /\ UNCHANGED <<subscribed, image_subscribers>>

\* ... starts a streamer, which subscribes if somebody publishes the topic...
StartStreamer(t) ==
  /\ handler[t] = "start"
  /\ handler' = [handler EXCEPT ![t] = "store"]
  /\ subscribed' \in {subscribed, subscribed \cup {serving[t]}}
  /\ UNCHANGED <<serverVars, life, members, serving, served, image_subscribers,
                 callback, misused>>

\* ... and stores it, under the mutex.
Store(t) ==
  /\ handler[t] = "store"
  /\ Use({"subscriber_mutex", "image_subscribers"})
  /\ image_subscribers' = image_subscribers \cup {serving[t]}
  /\ Finish(t)
  /\ UNCHANGED subscribed

\* A connection ends that no handler and no streamer holds.
EndConnection(k) ==
  /\ End(k)
  /\ k \notin image_subscribers \cup callback
  /\ \A t \in Threads : handler[t] # "none" => serving[t] # k
  /\ served' = served \ {k}
  /\ UNCHANGED <<life, members, handler, serving, subscribed, image_subscribers,
                 callback, misused>>

-------------------------------------------------------------------------------
(* The reception thread.                                                   *)

OnImageMsg(k) ==
  /\ callback = {}
  /\ k \in subscribed
  /\ callback' = {k}
  /\ UNCHANGED <<serverVars, life, members, handler, serving, served, subscribed,
                 image_subscribers, misused>>

ImageSent ==
  /\ callback # {}
  /\ callback' = {}
  /\ UNCHANGED <<serverVars, life, members, handler, serving, served, subscribed,
                 image_subscribers, misused>>

-------------------------------------------------------------------------------

MainStep == Construct \/ Spin \/ Signal \/ StopHttpServer \/ DestroyMember

HandlerStep(t) ==
  \/ HandleListStreams(t)
  \/ HandleStreamViewer(t)
  \/ LookUp(t)
  \/ StartStreamer(t)
  \/ Store(t)

WebNext ==
  \/ MainStep
  \/ \E t \in Threads :
       \/ \E k \in Connections : BeginHandler(t, k)
       \/ HandlerStep(t)
       \/ (HandleAccept(t) \/ StartAccept(t) \/ Exit(t)) /\ UNCHANGED lifeVars
  \/ \E c \in Clients : (Connect(c) \/ AcceptSucceeds(c)) /\ UNCHANGED lifeVars
  \/ AcceptFails /\ UNCHANGED lifeVars
  \/ \E k \in Connections : EndConnection(k) \/ OnImageMsg(k)
  \/ ImageSent

WebSpec == WebInit /\ [][WebNext]_webVars

\* Fairness: main() goes on once it destroys, and the io threads run.
WebFairness ==
  /\ WF_webVars(StopHttpServer \/ DestroyMember)
  /\ \A t \in Threads :
       /\ WF_webVars(HandlerStep(t))
       /\ WF_webVars((StartAccept(t) \/ Exit(t)) /\ UNCHANGED lifeVars)

WebFairSpec == WebSpec /\ WebFairness

-------------------------------------------------------------------------------

LifeTypeOK ==
  /\ life \in {"construct", "spin", "spin without server", "wait", "destroy",
               "gone", "null server used"}
  /\ \E n \in 0 .. 6 : members = SubSeq(Members, 1, n)
  /\ handler \in [Threads -> {"none", "list", "viewer", "stream", "start", "store"}]
  /\ \A t \in Threads : handler[t] # "none" <=> thread[t] = "serve"
  /\ serving \in [Threads -> Connections]
  /\ subscribed \subseteq Connections
  /\ image_subscribers \subseteq Connections
  /\ misused \subseteq AllMembers \cup {"streamer"}

\* What the order of the members does give: no thread is left when the server,
\* its io_service and its connections go, and a handler that asks the node for
\* topics finds it alive, however late in the shutdown it runs.
HandlersEndInTime ==
  /\ "server" \notin Alive => \A t \in Threads : thread[t] = "exited"
  /\ "node" \notin misused

\* The destructor ends: no handler can keep it waiting for ever.
DestructorReturns == (life = "destroy") ~> (life = "gone")

\* "Destructor - Cleans up" (web_video_server.hh): whatever handlers and
\* callbacks are running, none uses a member or a streamer after its end.
CleansUp == misused = {}
===============================================================================
