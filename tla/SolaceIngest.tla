---------------------------- MODULE SolaceIngest ----------------------------
(***************************************************************************)
(* SolaceBatchConsumer (ingestion/solace/client.py) under the ingest loop. *)
(* The SDK runs the message handler and the listeners on threads of its    *)
(* own: the handler hands batches to the ingest thread through a queue,    *)
(* the listeners set the state.  close() puts a sentinel into the queue.   *)
(* The link to the broker and its callbacks are external.                  *)
(***************************************************************************)
EXTENDS IngestLoop, Sequences

CONSTANTS
  LongestMessage,\* bound: batches in one message
  QueueBound,    \* bound: no message arrives while the queue is this long
  EventBound     \* bound: link changes whose callback has not run

ASSUME SolaceBounds == /\ LongestMessage \in Nat /\ QueueBound \in Nat
                       /\ EventBound \in Nat

VARIABLES
  connecting, \* how far _connect is; "done" when the consumer is entered
  link,       \* the connection to the broker
  events,     \* callbacks of the listeners that have still to run
  early,      \* history: the last change came before _connect returned
  state,      \* _state
  service,    \* whether _service is set
  receiver,   \* whether _receiver is set
  subscribed, \* a receiver delivers to the handler
  queue,      \* batches, and the sentinel None
  message,    \* what the handler has still to unpack of a message
  gen,        \* where the generator batches() is
  closer,     \* where close() is
  ahead       \* history: batches that were queued when close() began

linkVars == <<connecting, link, events, early>>
fieldVars == <<state, service, receiver>>
queueVars == <<subscribed, queue, message, ahead>>
vars == <<loopVars, linkVars, fieldVars, queueVars, gen, closer>>

NoMessage == [left |-> 0, malformed |-> FALSE]

(* The service is connected, the listeners are still to be added.          *)
Init ==
  /\ LoopInit
  /\ connecting = "add_reconnected"
  /\ link = "connected"
  /\ events = <<>>
  /\ early = FALSE
  /\ state = "down"
  /\ service = FALSE
  /\ receiver = FALSE
  /\ subscribed = FALSE
  /\ queue = <<>>
  /\ message = NoMessage
  /\ gen = "fresh"
  /\ closer = "out"
  /\ ahead = 0
-----------------------------------------------------------------------------
(* _connect: three listeners are added, then the state is set.             *)

AddListener ==
  /\ \/ connecting = "add_reconnected" /\ connecting' = "add_reconnecting"
     \/ connecting = "add_reconnecting" /\ connecting' = "add_interrupted"
     \/ connecting = "add_interrupted" /\ connecting' = "set_state"
  /\ UNCHANGED <<loopVars, link, events, early, fieldVars, queueVars, gen, closer>>

ConnectReturns ==
  /\ connecting = "set_state"
  /\ connecting' = "done"
  /\ state' = "connected"
  /\ service' = TRUE
  /\ UNCHANGED <<loopVars, link, events, early, receiver, queueVars, gen, closer>>

(* A change of the link reaches a listener only if it was added before.    *)
Listens(change) ==
  \/ change = "connected" /\ connecting # "add_reconnected"
  \/ change = "reconnecting" /\ connecting \notin {"add_reconnected", "add_reconnecting"}
  \/ change = "down" /\ connecting \in {"set_state", "done"}

LinkChanges ==
  /\ Len(events) < EventBound
  /\ \/ link = "connected" /\ link' = "reconnecting"
     \/ link = "reconnecting" /\ link' \in {"connected", "down"}
  /\ events' = IF Listens(link') THEN Append(events, link') ELSE events
  /\ early' = (connecting # "done")
  /\ UNCHANGED <<loopVars, connecting, fieldVars, queueVars, gen, closer>>

(* Mutation: on_reconnecting is not overridden.                            *)
CallbackIgnoresReconnecting ==
  /\ events # <<>>
  /\ state' = IF Head(events) = "reconnecting" THEN state ELSE Head(events)
  /\ events' = Tail(events)
  /\ UNCHANGED <<loopVars, connecting, link, early, service, receiver, queueVars, gen, closer>>

Callback ==
  /\ events # <<>>
  /\ state' = Head(events)
  /\ events' = Tail(events)
  /\ UNCHANGED <<loopVars, connecting, link, early, service, receiver, queueVars, gen, closer>>
-----------------------------------------------------------------------------
(* on_message: the batches of a message are put one by one; what follows   *)
(* in a malformed message raises and is logged.                            *)

MessageArrives ==
  /\ subscribed /\ link = "connected"
  /\ message = NoMessage
  /\ Len(queue) < QueueBound
  /\ message' \in [left : 1..LongestMessage, malformed : BOOLEAN]
  /\ UNCHANGED <<loopVars, linkVars, fieldVars, subscribed, queue, ahead, gen, closer>>

(* Mutation: a malformed message is passed on as None.                     *)
HandlerPutsNone ==
  /\ message.left > 0
  /\ queue' = Append(queue, IF message.malformed THEN "None" ELSE "batch")
  /\ message' = IF message.left = 1 THEN NoMessage
                ELSE [message EXCEPT !.left = @ - 1]
  /\ UNCHANGED <<loopVars, linkVars, fieldVars, subscribed, ahead, gen, closer>>

HandlerPuts ==
  /\ message.left > 0
  /\ queue' = Append(queue, IF message.malformed THEN "of_malformed" ELSE "batch")
  /\ message' = IF message.left = 1 THEN NoMessage
                ELSE [message EXCEPT !.left = @ - 1]
  /\ UNCHANGED <<loopVars, linkVars, fieldVars, subscribed, ahead, gen, closer>>
-----------------------------------------------------------------------------
(* The generator batches(): a receiver is built, started and subscribed,   *)
(* then the queue is read.                                                 *)

(* The receiver cannot be made once the service is gone; close() may also  *)
(* have set _receiver back to None.  Either is an AttributeError.          *)
GenMissesField ==
  /\ \/ gen = "fresh" /\ ~service
     \/ gen \in {"built", "started"} /\ ~receiver
  /\ gen' = "fresh"
  /\ UNCHANGED <<linkVars, fieldVars, queueVars, closer>>

(* build, start and receive_async are calls of the SDK and may raise; on a *)
(* service that was disconnected they do.                                  *)
SdkRaises ==
  /\ gen \in {"fresh", "built", "started"}
  /\ gen' = "fresh"
  /\ UNCHANGED <<linkVars, fieldVars, queueVars, closer>>

GenBuilds ==
  /\ gen = "fresh" /\ service /\ link # "disconnected"
  /\ receiver' = TRUE
  /\ gen' = "built"
  /\ UNCHANGED <<linkVars, state, service, queueVars, closer>>

GenStarts ==
  /\ gen = "built" /\ receiver /\ link # "disconnected"
  /\ gen' = "started"
  /\ UNCHANGED <<linkVars, fieldVars, queueVars, closer>>

GenSubscribes ==
  /\ gen = "started" /\ receiver /\ link # "disconnected"
  /\ subscribed' = TRUE
  /\ gen' = "waiting"
  /\ UNCHANGED <<linkVars, fieldVars, queue, message, ahead, closer>>

GenTakesBatch ==
  /\ gen = "waiting" /\ queue # <<>> /\ Head(queue) # "None"
  /\ queue' = Tail(queue)
  /\ ahead' = IF ahead > 0 THEN ahead - 1 ELSE 0
  /\ UNCHANGED <<linkVars, fieldVars, subscribed, message, gen, closer>>

GenTakesSentinel ==
  /\ gen = "waiting" /\ queue # <<>> /\ Head(queue) = "None"
  /\ queue' = Tail(queue)
  /\ gen' = "fresh"
  /\ UNCHANGED <<linkVars, fieldVars, subscribed, message, ahead, closer>>
-----------------------------------------------------------------------------
(* close().                                                                *)

Closing == main \in {"closing", "closing_again"}

CloseSetsState ==
  /\ Closing /\ closer = "out"
  /\ state' = "down"
  /\ closer' = "sentinel"
  /\ UNCHANGED <<linkVars, service, receiver, queueVars, gen>>

(* Mutation: the sentinel overtakes what is queued.                        *)
CloseJumpsQueue ==
  /\ closer = "sentinel"
  /\ queue' = <<"None">> \o queue
  /\ ahead' = IF main = "closing" THEN Len(queue) ELSE ahead
  /\ closer' = "receiver"
  /\ UNCHANGED <<linkVars, fieldVars, subscribed, message, gen>>

(* Mutation: close() relies on disconnecting and puts no sentinel.         *)
ClosePutsNothing ==
  /\ closer = "sentinel"
  /\ closer' = "receiver"
  /\ UNCHANGED <<linkVars, fieldVars, queueVars, gen>>

ClosePutsSentinel ==
  /\ closer = "sentinel"
  /\ queue' = Append(queue, "None")
  /\ ahead' = IF main = "closing" THEN Len(queue) ELSE ahead
  /\ closer' = "receiver"
  /\ UNCHANGED <<linkVars, fieldVars, subscribed, message, gen>>

CloseTerminatesReceiver ==
  /\ closer = "receiver"
  /\ receiver' = FALSE
  /\ subscribed' = IF receiver THEN FALSE ELSE subscribed
  /\ closer' = IF service THEN "disconnect" ELSE "done"
  /\ UNCHANGED <<linkVars, state, service, queue, message, ahead, gen>>

(* terminate() raises: _receiver stays set, and whether messages still     *)
(* arrive is open.  The service is not disconnected.                       *)
TerminateRaises ==
  /\ closer = "receiver" /\ receiver
  /\ subscribed' \in {subscribed, FALSE}
  /\ closer' = "out"
  /\ UNCHANGED <<linkVars, fieldVars, queue, message, ahead, gen>>

DisconnectRaises ==
  /\ closer = "disconnect"
  /\ closer' = "out"
  /\ UNCHANGED <<linkVars, fieldVars, queueVars, gen>>

(* A disconnected service delivers no message and runs no callback.        *)
CloseDisconnects ==
  /\ closer = "disconnect"
  /\ link' = "disconnected"
  /\ events' = <<>>
  /\ subscribed' = FALSE
  /\ closer' = "service"
  /\ UNCHANGED <<connecting, early, fieldVars, queue, message, ahead, gen>>

CloseDropsService ==
  /\ closer = "service"
  /\ service' = FALSE
  /\ closer' = "done"
  /\ UNCHANGED <<linkVars, state, receiver, queueVars, gen>>

CloseEnds ==
  /\ closer = "done"
  /\ closer' = "out"
  /\ UNCHANGED <<linkVars, fieldVars, queueVars, gen>>
-----------------------------------------------------------------------------
Entered == connecting = "done"
consumerVars == <<linkVars, fieldVars, queueVars, gen, closer>>

GenGoesOn == GenBuilds \/ GenStarts \/ GenSubscribes
GenRaises == GenMissesField \/ SdkRaises

ThreadStep ==
  /\ Entered
  /\ \/ thread = "batches" /\ GenGoesOn /\ UNCHANGED loopVars
     \/ GenTakesBatch /\ BatchArrives
     \/ GenTakesSentinel /\ BatchesReturn
     \/ thread = "batches" /\ GenRaises /\ BatchesRaise
     \/ LoopAlone /\ UNCHANGED consumerVars

CloseStep ==
  \/ /\ \/ CloseSetsState \/ ClosePutsSentinel \/ CloseTerminatesReceiver
        \/ CloseDisconnects \/ CloseDropsService
     /\ UNCHANGED loopVars
  \/ CloseEnds /\ CloseReturns
  \/ (TerminateRaises \/ DisconnectRaises) /\ CloseFails

Stop == Entered /\ StopBegins /\ UNCHANGED consumerVars
Join == JoinReturns /\ UNCHANGED consumerVars

Next ==
  \/ AddListener \/ ConnectReturns \/ LinkChanges \/ Callback
  \/ MessageArrives \/ HandlerPuts
  \/ ThreadStep \/ CloseStep \/ Stop \/ Join

(* The ingest thread, close(), join() and the callbacks go on when they    *)
(* can; the broker and whoever stops the service need not do anything.     *)
Fairness ==
  /\ WF_vars(ThreadStep)
  /\ WF_vars(CloseStep)
  /\ WF_vars(Join)
  /\ WF_vars(Callback)

Spec == Init /\ [][Next]_vars /\ Fairness
-----------------------------------------------------------------------------
TypeOK ==
  /\ LoopTypeOK
  /\ connecting \in {"add_reconnected", "add_reconnecting", "add_interrupted",
                     "set_state", "done"}
  /\ link \in {"connected", "reconnecting", "down", "disconnected"}
  /\ early \in BOOLEAN
  /\ events \in Seq({"connected", "reconnecting", "down"})
  /\ state \in {"connected", "reconnecting", "down"}
  /\ service \in BOOLEAN /\ receiver \in BOOLEAN /\ subscribed \in BOOLEAN
  /\ queue \in Seq({"batch", "of_malformed", "None"})
  /\ message \in [left : 0..LongestMessage, malformed : BOOLEAN]
  /\ gen \in {"fresh", "built", "started", "waiting"}
  /\ closer \in {"out", "sentinel", "receiver", "disconnect", "service", "done"}
  /\ ahead \in Nat

(* The listeners keep the state up to date: while the service runs and no  *)
(* callback is outstanding, the state is that of the link, whatever it was *)
(* before and however changes and callbacks interleave - provided the last *)
(* change of the link came after _connect had returned.                    *)
StateFollowsLink ==
  Entered /\ main = "serving" /\ events = <<>> /\ ~early => state = link

(* connection_state() reports "the live transport connection state"        *)
(* (ingestion/base.py:18-19) from the moment the consumer is entered.      *)
StateFollowsLinkAtOnce ==
  Entered /\ main = "serving" /\ events = <<>> => state = link

(* Batches that were queued when close() put the sentinel are handed to    *)
(* the store before the thread ends, unless the loop gave up earlier.      *)
QueueIsDrained ==
  thread = "ended" /\ ~requested => ahead = 0

(* close() puts the sentinel "so batches() always exits cleanly"           *)
(* (redesign document, lines 461-463) and the ingest thread ends           *)
(* (ingestion/base.py:16-17), wherever it was.                             *)
CloseStopsThread == main = "closing" ~> thread = "ended"

(* Under Solace the service keeps the contract of Ingestion: only close()  *)
(* or the limit of failures ends the thread - no message does - and after  *)
(* close() it ends, if need be with a request for shutdown because it      *)
(* missed the sentinel.  Without that limit it may not, see                *)
(* CloseStopsThread.                                                       *)
Contract == INSTANCE Ingestion WITH
  excused <- ~automatic,
  thread <- IF thread = "ended" THEN "ended" ELSE "working",
  failures <- consecutive_failures,
  stopping <- main # "serving"
ImplementsIngestion == Contract!Spec

(* Where automatic shutdown is enabled, a service that reports the link    *)
(* but has no receiver does not stay so: in the end the thread waits for   *)
(* messages, has asked for the shutdown, or the service is being stopped.  *)
SubscribesOrGivesUp ==
  automatic /\ Entered /\ gen # "waiting" ~>
    gen = "waiting" \/ requested \/ main # "serving"

(* "malformed IPC message dropped" (client.py:37 of the consumer): no      *)
(* batch of a malformed message is queued for the store.                   *)
MalformedIsDropped ==
  \A i \in DOMAIN queue : queue[i] # "of_malformed"
=============================================================================
