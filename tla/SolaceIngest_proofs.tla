------------------------ MODULE SolaceIngest_proofs ------------------------
(***************************************************************************)
(* Theorems about SolaceIngest, for every setting of the delays, of the    *)
(* failure limit and of the bounds.  The fairness of the specification is  *)
(* not needed for any of them.                                             *)
(***************************************************************************)
EXTENDS SolaceIngest, TLAPS

Items == {"batch", "of_malformed", "None"}

(* close() runs only while the service is being stopped.                   *)
CloserIsStopping == closer # "out" => Closing

LEMMA InitCloser == Init => CloserIsStopping
BY DEF Init, CloserIsStopping

LEMMA NextCloser == CloserIsStopping /\ [Next]_vars => CloserIsStopping'
<1> SUFFICES ASSUME CloserIsStopping, [Next]_vars PROVE CloserIsStopping'
  OBVIOUS
<1> USE DEF CloserIsStopping, Closing
<1>1. CASE AddListener \/ ConnectReturns \/ LinkChanges \/ Callback
           \/ MessageArrives \/ HandlerPuts
  BY <1>1 DEF AddListener, ConnectReturns, LinkChanges, Callback, MessageArrives,
              HandlerPuts, loopVars
<1>2. CASE ThreadStep
  BY <1>2 DEF ThreadStep, GenGoesOn, GenBuilds, GenStarts, GenSubscribes,
              GenTakesBatch, GenTakesSentinel, GenRaises, GenMissesField, SdkRaises,
              LoopAlone, BatchArrives, BatchesReturn, BatchesRaise, IngestReturns,
              GiveUp, BackoffEnds, consumerVars, loopVars
<1>3. CASE CloseStep
  BY <1>3 DEF CloseStep, CloseSetsState, ClosePutsSentinel, CloseTerminatesReceiver,
              CloseDisconnects, CloseDropsService, CloseEnds, CloseReturns,
              TerminateRaises, DisconnectRaises, CloseFails, loopVars
<1>4. CASE Stop \/ Join
  BY <1>4 DEF Stop, StopBegins, Join, JoinReturns, consumerVars
<1>5. CASE UNCHANGED vars
  BY <1>5 DEF vars, loopVars
<1> QED BY <1>1, <1>2, <1>3, <1>4, <1>5 DEF Next
-----------------------------------------------------------------------------
(* The state and the link.  A callback that has still to run says what the *)
(* link is now, if the last change came after _connect; and before         *)
(* _connect has returned nothing has changed, or "early" remembers it.     *)

NothingHappened ==
  ~Entered /\ ~early => link = "connected" /\ events = <<>>
LastEventIsLink ==
  Entered /\ main = "serving" /\ ~early =>
    IF events = <<>> THEN state = link ELSE events[Len(events)] = link
LinkInv ==
  /\ CloserIsStopping
  /\ events \in Seq({"connected", "reconnecting", "down"})
  /\ link \in {"connected", "reconnecting", "down", "disconnected"}
  /\ main # "serving" => Entered
  /\ NothingHappened
  /\ LastEventIsLink

LEMMA InitLink == Init => LinkInv
BY InitCloser DEF Init, LoopInit, LinkInv, NothingHappened, LastEventIsLink, Entered

LEMMA NextLink == LinkInv /\ [Next]_vars => LinkInv'
<1> SUFFICES ASSUME LinkInv, [Next]_vars PROVE LinkInv'
  OBVIOUS
<1>1. CloserIsStopping'
  BY NextCloser DEF LinkInv
<1> USE DEF NothingHappened, LastEventIsLink, Entered, LinkInv
<1>2. CASE AddListener
  BY <1>1, <1>2 DEF AddListener, loopVars, fieldVars
<1>3. CASE ConnectReturns
  BY <1>1, <1>3 DEF ConnectReturns, loopVars
<1>4. CASE LinkChanges
  <2>1. link' \in {"connected", "reconnecting", "down"}
    BY <1>4 DEF LinkChanges
  <2>2. Append(events, link') \in Seq({"connected", "reconnecting", "down"})
    BY <2>1
  <2>3. CASE connecting = "done"
    <3>1. events' = Append(events, link')
      BY <1>4, <2>1, <2>3 DEF LinkChanges, Listens
    <3>2. events' # <<>> /\ events'[Len(events')] = link'
      <4> DEFINE E == {"connected", "reconnecting", "down"}
      <4>1. events \in Seq(E) /\ link' \in E
        BY <2>1
      <4> HIDE DEF E
      <4> QED BY <3>1, <4>1
    <3> QED BY <1>1, <1>4, <2>1, <2>2, <2>3, <3>1, <3>2 DEF LinkChanges, loopVars
  <2>4. CASE connecting # "done"
    BY <1>1, <1>4, <2>1, <2>2, <2>4 DEF LinkChanges, loopVars
  <2> QED BY <2>3, <2>4
<1>5. CASE Callback
  <2>1. Tail(events) \in Seq({"connected", "reconnecting", "down"})
    BY <1>5 DEF Callback
  <2>2. Tail(events) # <<>> =>
          Tail(events)[Len(Tail(events))] = events[Len(events)]
    BY <1>5 DEF Callback
  <2>3. Tail(events) = <<>> => Head(events) = events[Len(events)]
    <3>1. Len(Tail(events)) = Len(events) - 1 /\ Len(events) \in Nat
      BY <1>5 DEF Callback
    <3>2. Tail(events) = <<>> => Len(Tail(events)) = 0
      <4>1. Len(<<>>) = 0
        OBVIOUS
      <4> QED BY <4>1, Zenon
    <3>3. Tail(events) = <<>> => Len(events) = 1
      BY <3>1, <3>2
    <3> QED BY <1>5, <3>3 DEF Callback
  <2> QED BY <1>1, <1>5, <2>1, <2>2, <2>3 DEF Callback, loopVars
<1>6. CASE MessageArrives \/ HandlerPuts
  BY <1>1, <1>6 DEF MessageArrives, HandlerPuts, loopVars, linkVars, fieldVars
<1>7. CASE ThreadStep
  <2>1. UNCHANGED <<linkVars, state>>
    BY <1>7 DEF ThreadStep, GenGoesOn, GenBuilds, GenStarts, GenSubscribes,
              GenTakesBatch, GenTakesSentinel, GenRaises, GenMissesField, SdkRaises,
              consumerVars, fieldVars
  <2>2. main' = main
    BY <1>7 DEF ThreadStep, LoopAlone, BatchArrives, BatchesReturn, BatchesRaise,
              IngestReturns, GiveUp, BackoffEnds, loopVars
  <2> QED BY <1>1, <2>1, <2>2 DEF linkVars
<1>8. CASE CloseStep
  <2>1. main # "serving" /\ main' # "serving"
    BY <1>8 DEF CloseStep, CloseSetsState, ClosePutsSentinel, CloseTerminatesReceiver,
              CloseDisconnects, CloseDropsService, CloseEnds, CloseReturns,
              TerminateRaises, DisconnectRaises, CloseFails, CloserIsStopping,
              Closing, loopVars
  <2>2. \/ UNCHANGED <<connecting, link, events, early>>
        \/ link' = "disconnected" /\ events' = <<>> /\ UNCHANGED <<connecting, early>>
    BY <1>8 DEF CloseStep, CloseSetsState, ClosePutsSentinel, CloseTerminatesReceiver,
              CloseDisconnects, CloseDropsService, CloseEnds, TerminateRaises,
              DisconnectRaises, linkVars
  <2>3. Entered /\ Entered'
    BY <2>1, <2>2
  <2>4. events' \in Seq({"connected", "reconnecting", "down"})
    <3>1. <<>> \in Seq({"connected", "reconnecting", "down"})
      OBVIOUS
    <3> QED BY <2>2, <3>1
  <2>5. link' \in {"connected", "reconnecting", "down", "disconnected"}
    BY <2>2
  <2> QED BY <1>1, <2>1, <2>3, <2>4, <2>5
<1>9. CASE Stop \/ Join \/ UNCHANGED vars
  BY <1>1, <1>9 DEF Stop, StopBegins, Join, JoinReturns, vars, consumerVars,
                    linkVars, fieldVars, loopVars
<1> QED BY <1>2, <1>3, <1>4, <1>5, <1>6, <1>7, <1>8, <1>9 DEF Next

(* While the service runs and no callback is outstanding, the state is     *)
(* that of the link, however changes and callbacks interleave, unless the  *)
(* last change came before _connect had returned.                          *)
THEOREM StateIsThatOfLink == Spec => []StateFollowsLink
<1>1. LinkInv => StateFollowsLink
  BY DEF LinkInv, LastEventIsLink, StateFollowsLink
<1> QED BY <1>1, InitLink, NextLink, PTL DEF Spec
-----------------------------------------------------------------------------
(* The queue.  Until the first close() has put its sentinel there is none  *)
(* in the queue and only giving up ends the thread; the batches counted    *)
(* then stand in front of every sentinel, so that none is taken before     *)
(* they are.                                                               *)

NoSentinelYet ==
  main = "serving" \/ (main = "closing" /\ closer \in {"out", "sentinel"})
OnlyBatchesYet ==
  NoSentinelYet =>
    /\ \A i \in 1..Len(queue) : queue[i] # "None"
    /\ thread = "ended" => requested
CountedAreInFront ==
  /\ ahead \in Nat /\ ahead <= Len(queue)
  /\ \A i \in 1..ahead : queue[i] # "None"
QueueInv ==
  /\ CloserIsStopping
  /\ queue \in Seq(Items)
  /\ OnlyBatchesYet
  /\ CountedAreInFront
  /\ QueueIsDrained

(* What taking from a queue and putting into one does to its items.        *)
LEMMA TakeFirst ==
  ASSUME NEW S, NEW q \in Seq(S), q # <<>>
  PROVE  /\ Tail(q) \in Seq(S)
         /\ Head(q) = q[1] /\ Len(q) \in Nat \ {0}
         /\ Len(Tail(q)) = Len(q) - 1
         /\ \A i \in 1..Len(q) - 1 : Tail(q)[i] = q[i + 1]
OBVIOUS

LEMMA PutLast ==
  ASSUME NEW S, NEW q \in Seq(S), NEW x \in S
  PROVE  /\ Append(q, x) \in Seq(S)
         /\ Len(q) \in Nat
         /\ Len(Append(q, x)) = Len(q) + 1
         /\ \A i \in 1..Len(q) : Append(q, x)[i] = q[i]
         /\ Append(q, x)[Len(q) + 1] = x
OBVIOUS

LEMMA InitQueue == Init => QueueInv
<1> SUFFICES ASSUME Init PROVE QueueInv
  OBVIOUS
<1>1. queue = <<>> /\ Len(queue) = 0 /\ queue \in Seq(Items)
  BY DEF Init
<1> QED BY <1>1, InitCloser
        DEF Init, LoopInit, QueueInv, OnlyBatchesYet, CountedAreInFront, QueueIsDrained

LEMMA NextQueue == QueueInv /\ [Next]_vars => QueueInv'
<1> SUFFICES ASSUME QueueInv, [Next]_vars PROVE QueueInv'
  OBVIOUS
<1> USE DEF QueueInv, OnlyBatchesYet, NoSentinelYet, CountedAreInFront, QueueIsDrained
<1>1. CloserIsStopping /\ CloserIsStopping'
  BY NextCloser
<1>2. Len(queue) \in Nat
  OBVIOUS
<1>3. CASE AddListener \/ ConnectReturns \/ LinkChanges \/ Callback \/ MessageArrives
  <2>1. UNCHANGED <<thread, requested, main, queue, ahead, closer>>
    BY <1>3 DEF AddListener, ConnectReturns, LinkChanges, Callback, MessageArrives,
                loopVars, queueVars
  <2> QED BY <1>1, <2>1
<1>4. CASE HandlerPuts
  <2>1. PICK x \in Items : x # "None" /\ queue' = Append(queue, x)
    BY <1>4 DEF HandlerPuts, Items
  <2>2. UNCHANGED <<thread, requested, main, ahead, closer>>
    BY <1>4 DEF HandlerPuts, loopVars
  <2> QED BY <1>1, <2>1, <2>2, PutLast
<1>5. CASE ThreadStep
  <2>1. UNCHANGED <<main, closer>>
    BY <1>5 DEF ThreadStep, GenGoesOn, GenBuilds, GenStarts, GenSubscribes,
              GenTakesBatch, GenTakesSentinel, GenRaises, GenMissesField, SdkRaises,
              LoopAlone, BatchArrives, BatchesReturn, BatchesRaise, IngestReturns,
              GiveUp, BackoffEnds, consumerVars, loopVars
  <2>2. CASE GenTakesBatch /\ BatchArrives
    <3>1. queue # <<>> /\ queue' = Tail(queue)
      BY <2>2 DEF GenTakesBatch
    <3>2. ahead' = (IF ahead > 0 THEN ahead - 1 ELSE 0)
      BY <2>2 DEF GenTakesBatch
    <3>3. thread' # "ended"
      BY <2>2 DEF BatchArrives
    <3>4. queue' \in Seq(Items) /\ Len(queue') = Len(queue) - 1
      BY <3>1, TakeFirst
    <3>5. \A i \in 1..Len(queue') : queue'[i] = queue[i + 1] /\ i + 1 \in 1..Len(queue)
      BY <3>1, <3>4, TakeFirst, <1>2
    <3>6. OnlyBatchesYet'
      BY <2>1, <3>3, <3>5
    <3>7. CountedAreInFront'
      BY <3>2, <3>4, <3>5, <1>2
    <3> QED BY <1>1, <3>3, <3>4, <3>6, <3>7
  <2>3. CASE GenTakesSentinel /\ BatchesReturn
    <3>1. queue # <<>> /\ queue' = Tail(queue) /\ Head(queue) = "None"
      BY <2>3 DEF GenTakesSentinel
    <3>2. ahead' = ahead
      BY <2>3 DEF GenTakesSentinel
    <3>3. queue[1] = "None" /\ Len(queue) >= 1
      BY <3>1, TakeFirst
    <3>4. ahead = 0
      BY <3>3
    <3>5. ~NoSentinelYet /\ ~NoSentinelYet'
      BY <2>1, <3>3, <1>2
    <3>6. queue' \in Seq(Items) /\ Len(queue') \in Nat
      BY <3>1, <1>2, TakeFirst
    <3> QED BY <1>1, <3>2, <3>4, <3>5, <3>6
  <2>4. CASE thread = "batches"
                /\ ((GenGoesOn /\ UNCHANGED loopVars) \/ (GenRaises /\ BatchesRaise))
    <3>1. UNCHANGED <<queue, ahead>> /\ thread' # "ended"
      BY <2>4 DEF GenGoesOn, GenBuilds, GenStarts, GenSubscribes, GenRaises,
                  GenMissesField, SdkRaises, BatchesRaise, loopVars, queueVars
    <3> QED BY <1>1, <2>1, <3>1
  <2>5. CASE LoopAlone /\ UNCHANGED consumerVars
    <3>1. UNCHANGED <<queue, ahead>> /\ (thread' = "ended" => requested')
      BY <2>5 DEF LoopAlone, IngestReturns, GiveUp, BackoffEnds, consumerVars, queueVars
    <3> QED BY <1>1, <2>1, <3>1
  <2> QED BY <1>5, <2>2, <2>3, <2>4, <2>5 DEF ThreadStep
<1>6. CASE CloseStep
  <2>1. UNCHANGED <<thread, requested>>
    BY <1>6 DEF CloseStep, CloseReturns, CloseFails, loopVars
  <2>2. CASE ClosePutsSentinel
    <3>1. queue' = Append(queue, "None") /\ "None" \in Items
      BY <2>2 DEF ClosePutsSentinel, Items
    <3>2. /\ queue' \in Seq(Items)
          /\ Len(queue') = Len(queue) + 1
          /\ \A i \in 1..Len(queue) : queue'[i] = queue[i]
      BY <3>1, PutLast
    <3>3. main' = main /\ closer = "sentinel" /\ closer' = "receiver"
      BY <1>6, <2>2 DEF ClosePutsSentinel, CloseStep, CloseEnds, TerminateRaises,
                        DisconnectRaises, loopVars
    <3>4. ~NoSentinelYet'
      BY <1>1, <3>3 DEF CloserIsStopping, Closing
    <3>5. CASE main = "closing"
      <4>1. ahead' = Len(queue) /\ NoSentinelYet
        BY <2>2, <3>3, <3>5 DEF ClosePutsSentinel
      <4> QED BY <1>1, <1>2, <2>1, <3>2, <3>4, <4>1
    <3>6. CASE main # "closing"
      <4>1. ahead' = ahead
        BY <2>2, <3>6 DEF ClosePutsSentinel
      <4> QED BY <1>1, <1>2, <2>1, <3>2, <3>4, <4>1
    <3> QED BY <3>5, <3>6
  <2>3. CASE ~ClosePutsSentinel
    <3>1. UNCHANGED <<queue, ahead>>
      BY <1>6, <2>3 DEF CloseStep, CloseSetsState, CloseTerminatesReceiver,
              CloseDisconnects, CloseDropsService, CloseEnds, TerminateRaises,
              DisconnectRaises, queueVars
    <3>2. NoSentinelYet' => NoSentinelYet
      BY <1>1, <1>6, <2>3 DEF CloseStep, CloseSetsState, CloseTerminatesReceiver,
              CloseDisconnects, CloseDropsService, CloseEnds, CloseReturns,
              TerminateRaises, DisconnectRaises, CloseFails, loopVars
    <3> QED BY <1>1, <2>1, <3>1, <3>2
  <2> QED BY <2>2, <2>3
<1>7. CASE Stop
  <2>1. UNCHANGED <<thread, requested, queue, ahead, closer>> /\ NoSentinelYet
    BY <1>7 DEF Stop, StopBegins, consumerVars, queueVars
  <2> QED BY <1>1, <2>1
<1>8. CASE Join
  <2>1. UNCHANGED <<thread, requested, queue, ahead, closer>> /\ ~NoSentinelYet'
    BY <1>8 DEF Join, JoinReturns, consumerVars, queueVars
  <2> QED BY <1>1, <2>1
<1>9. CASE UNCHANGED vars
  BY <1>1, <1>9 DEF vars, loopVars, queueVars
<1> QED BY <1>3, <1>4, <1>5, <1>6, <1>7, <1>8, <1>9 DEF Next

(* What was queued when close() began is handed to the store before the    *)
(* sentinel ends the thread, whatever arrives meanwhile and however often  *)
(* close() is called or raises.                                            *)
THEOREM QueueIsEmptied == Spec => []QueueIsDrained
<1>1. QueueInv => QueueIsDrained
  BY DEF QueueInv
<1> QED BY <1>1, InitQueue, NextQueue, PTL DEF Spec
-----------------------------------------------------------------------------
(* Every step of the service is one that Ingestion allows, or cannot be    *)
(* seen there: only a sentinel makes the generator return, and a loop that *)
(* may give up does so at the limit.                                       *)

GivesUpAtLimit ==
  thread = "gives_up" => automatic /\ consecutive_failures >= MaxFailures
LimitEndsLoop ==
  automatic /\ consecutive_failures >= MaxFailures =>
    thread \in {"gives_up", "ended"}
ContractInv ==
  /\ QueueInv
  /\ GivesUpAtLimit
  /\ LimitEndsLoop
  /\ consecutive_failures \in 0..FailureBound

LEMMA InitContract == Init => ContractInv /\ Contract!Init
BY InitQueue, FailureLimits
   DEF Init, LoopInit, ContractInv, GivesUpAtLimit, LimitEndsLoop, Contract!Init

LEMMA NextContract ==
  ContractInv /\ [Next]_vars => ContractInv' /\ [Contract!Next]_(Contract!vars)
<1> SUFFICES ASSUME ContractInv, [Next]_vars
             PROVE  ContractInv' /\ [Contract!Next]_(Contract!vars)
  OBVIOUS
<1>1. QueueInv'
  BY NextQueue DEF ContractInv
<1> USE DEF ContractInv, GivesUpAtLimit, LimitEndsLoop
<1>2. CASE UNCHANGED loopVars
  BY <1>1, <1>2 DEF loopVars, Contract!vars
<1>3. CASE GenTakesBatch /\ BatchArrives
  <2>1. Contract!Batch
    BY <1>3 DEF BatchArrives, Contract!Batch
  <2> QED BY <1>1, <1>3, <2>1, FailureLimits DEF BatchArrives, Contract!Next
<1>4. CASE GenTakesSentinel /\ BatchesReturn
  <2>1. queue # <<>> /\ Head(queue) = "None" /\ queue \in Seq(Items)
    BY <1>4 DEF GenTakesSentinel, QueueInv
  <2>2. 1 \in 1..Len(queue) /\ queue[1] = "None"
    BY <2>1, TakeFirst
  <2>3. main # "serving"
    BY <2>2 DEF QueueInv, OnlyBatchesYet, NoSentinelYet
  <2>4. Contract!End
    BY <1>4, <2>3 DEF BatchesReturn, Contract!End
  <2> QED BY <1>1, <1>4, <2>4 DEF BatchesReturn, Contract!Next
<1>5. CASE GenRaises /\ BatchesRaise
  <2>1. ~(automatic /\ consecutive_failures >= MaxFailures)
    BY <1>5 DEF BatchesRaise
  <2>2. Contract!Fail
    BY <1>5, <2>1, FailureLimits DEF BatchesRaise, Smaller, Contract!Fail
  <2>3. GivesUpAtLimit' /\ LimitEndsLoop' /\ consecutive_failures' \in 0..FailureBound
    BY <1>5, FailureLimits DEF BatchesRaise, Smaller
  <2> QED BY <1>1, <2>2, <2>3 DEF Contract!Next
<1>6. CASE LoopAlone
  <2>1. CASE GiveUp
    <3>1. Contract!GiveUp
      BY <2>1 DEF GiveUp, Contract!GiveUp
    <3> QED BY <1>1, <2>1, <3>1 DEF GiveUp, Contract!Next
  <2>2. CASE IngestReturns \/ BackoffEnds
    BY <1>1, <2>2 DEF IngestReturns, BackoffEnds, Contract!vars
  <2> QED BY <1>6, <2>1, <2>2 DEF LoopAlone
<1>7. CASE CloseReturns \/ CloseFails \/ JoinReturns
  BY <1>1, <1>7 DEF CloseReturns, CloseFails, JoinReturns, Contract!vars
<1>8. CASE StopBegins
  <2>1. Contract!Stop
    BY <1>8 DEF StopBegins, Contract!Stop
  <2> QED BY <1>1, <1>8, <2>1 DEF StopBegins, Contract!Next
<1> QED
  BY <1>2, <1>3, <1>4, <1>5, <1>6, <1>7, <1>8
     DEF Next, AddListener, ConnectReturns, LinkChanges, Callback, MessageArrives,
         HandlerPuts, ThreadStep, CloseStep, Stop, Join, vars

(* The service under Solace implements the safety part of Ingestion, for   *)
(* every limit and delay: no message ends its thread, only close() and the *)
(* limit of failures do, the latter with a request for the shutdown.       *)
THEOREM ContractIsKept == Spec => Contract!Safety
BY InitContract, NextContract, PTL DEF Spec, Contract!Safety
-----------------------------------------------------------------------------
(* Types.  What the events, the link and the queue are is known already    *)
(* (LinkInv, QueueInv); the loop and the rest of the consumer follow.      *)

LEMMA InitType == Init => TypeOK
<1>1. BaseDelay \in 1..MaxDelay /\ 0 \in 0..FailureBound
  BY DelaysArePositive, FailureLimits
<1>2. Init => LoopTypeOK
  BY <1>1 DEF Init, LoopInit, LoopTypeOK
<1>3. NoMessage \in [left : 0..LongestMessage, malformed : BOOLEAN]
  BY SolaceBounds DEF NoMessage
<1>4. /\ <<>> \in Seq({"connected", "reconnecting", "down"})
      /\ <<>> \in Seq({"batch", "of_malformed", "None"})
      /\ 0 \in Nat
  OBVIOUS
<1> QED BY <1>2, <1>3, <1>4 DEF Init, TypeOK

LEMMA NextLoopType ==
  ASSUME LoopTypeOK,
         \/ BatchArrives \/ BatchesReturn \/ BatchesRaise \/ LoopAlone
         \/ CloseReturns \/ CloseFails \/ StopBegins \/ JoinReturns
         \/ UNCHANGED loopVars
  PROVE  LoopTypeOK'
<1> USE DelaysArePositive, FailureLimits DEF LoopTypeOK
<1>1. CASE BatchArrives
  BY <1>1 DEF BatchArrives
<1>2. CASE BatchesReturn
  BY <1>2 DEF BatchesReturn
<1>3. CASE BatchesRaise
  <2>1. consecutive_failures' \in 0..FailureBound
    BY <1>3 DEF BatchesRaise, Smaller
  <2>2. thread' \in {"backoff", "gives_up"}
    BY <1>3 DEF BatchesRaise
  <2> QED BY <1>3, <2>1, <2>2 DEF BatchesRaise
<1>4. CASE IngestReturns \/ GiveUp
  BY <1>4 DEF IngestReturns, GiveUp
<1>5. CASE BackoffEnds
  <2>1. delay' \in 1..MaxDelay
    BY <1>5 DEF BackoffEnds, Smaller
  <2> QED BY <1>5, <2>1 DEF BackoffEnds
<1>6. CASE CloseReturns \/ CloseFails \/ StopBegins \/ JoinReturns
  BY <1>6 DEF CloseReturns, CloseFails, StopBegins, JoinReturns
<1>7. CASE UNCHANGED loopVars
  BY <1>7 DEF loopVars
<1> QED BY <1>1, <1>2, <1>3, <1>4, <1>5, <1>6, <1>7 DEF LoopAlone

LEMMA LoopSteps ==
  [Next]_vars =>
    \/ BatchArrives \/ BatchesReturn \/ BatchesRaise \/ LoopAlone
    \/ CloseReturns \/ CloseFails \/ StopBegins \/ JoinReturns
    \/ UNCHANGED loopVars
BY DEF Next, AddListener, ConnectReturns, LinkChanges, Callback, MessageArrives,
       HandlerPuts, ThreadStep, CloseStep, Stop, Join, vars

LEMMA NextType ==
  ASSUME TypeOK, LinkInv', QueueInv', [Next]_vars
  PROVE  TypeOK'
<1>1. LoopTypeOK'
  BY LoopSteps, NextLoopType DEF TypeOK
<1>2. /\ link' \in {"connected", "reconnecting", "down", "disconnected"}
      /\ events' \in Seq({"connected", "reconnecting", "down"})
      /\ queue' \in Seq({"batch", "of_malformed", "None"})
      /\ ahead' \in Nat
  BY DEF LinkInv, QueueInv, CountedAreInFront, Items
<1> USE DEF TypeOK
<1>3. CASE AddListener \/ ConnectReturns
  <2>1. CASE AddListener
    BY <1>1, <1>2, <2>1 DEF AddListener, fieldVars, queueVars
  <2>2. CASE ConnectReturns
    BY <1>1, <1>2, <2>2 DEF ConnectReturns, queueVars
  <2> QED BY <1>3, <2>1, <2>2
<1>4. CASE LinkChanges
  BY <1>1, <1>2, <1>4 DEF LinkChanges, fieldVars, queueVars
<1>5. CASE Callback
  <2>1. Head(events) \in {"connected", "reconnecting", "down"}
    BY <1>5 DEF Callback
  <2> QED BY <1>1, <1>2, <1>5, <2>1 DEF Callback, queueVars
<1>6. CASE MessageArrives
  <2>1. message' \in [left : 0..LongestMessage, malformed : BOOLEAN]
    BY <1>6, SolaceBounds DEF MessageArrives
  <2> QED BY <1>1, <1>2, <1>6, <2>1 DEF MessageArrives, linkVars, fieldVars
<1>7. CASE HandlerPuts
  <2>1. NoMessage \in [left : 0..LongestMessage, malformed : BOOLEAN]
    BY SolaceBounds DEF NoMessage
  <2>2. message.left - 1 \in 0..LongestMessage
    BY <1>7, SolaceBounds DEF HandlerPuts
  <2>3. message' \in [left : 0..LongestMessage, malformed : BOOLEAN]
    BY <1>7, <2>1, <2>2 DEF HandlerPuts
  <2> QED BY <1>1, <1>2, <1>7, <2>3 DEF HandlerPuts, linkVars, fieldVars
<1>8. CASE ThreadStep
  <2>1. UNCHANGED <<connecting, early, state, service, message, closer>>
    BY <1>8 DEF ThreadStep, GenGoesOn, GenBuilds, GenStarts, GenSubscribes,
              GenTakesBatch, GenTakesSentinel, GenRaises, GenMissesField, SdkRaises,
              consumerVars, linkVars, fieldVars, queueVars
  <2>2. receiver' \in {receiver, TRUE} /\ subscribed' \in {subscribed, TRUE}
    BY <1>8 DEF ThreadStep, GenGoesOn, GenBuilds, GenStarts, GenSubscribes,
              GenTakesBatch, GenTakesSentinel, GenRaises, GenMissesField, SdkRaises,
              consumerVars, fieldVars, queueVars
  <2>3. gen' \in {"fresh", "built", "started", "waiting"}
    BY <1>8 DEF ThreadStep, GenGoesOn, GenBuilds, GenStarts, GenSubscribes,
              GenTakesBatch, GenTakesSentinel, GenRaises, GenMissesField, SdkRaises,
              consumerVars
  <2>4. receiver' \in BOOLEAN /\ subscribed' \in BOOLEAN
    BY <2>2
  <2>5. /\ connecting' \in {"add_reconnected", "add_reconnecting", "add_interrupted",
                            "set_state", "done"}
        /\ early' \in BOOLEAN /\ service' \in BOOLEAN
        /\ state' \in {"connected", "reconnecting", "down"}
        /\ message' \in [left : 0..LongestMessage, malformed : BOOLEAN]
        /\ closer' \in {"out", "sentinel", "receiver", "disconnect", "service", "done"}
    BY <2>1
  <2> QED BY <1>1, <1>2, <2>3, <2>4, <2>5
<1>9. CASE CloseStep
  <2>1. UNCHANGED <<connecting, early, message, gen>>
    BY <1>9 DEF CloseStep, CloseSetsState, ClosePutsSentinel, CloseTerminatesReceiver,
              CloseDisconnects, CloseDropsService, CloseEnds, TerminateRaises,
              DisconnectRaises, linkVars, queueVars
  <2>2. /\ state' \in {state, "down"} /\ service' \in {service, FALSE}
        /\ receiver' \in {receiver, FALSE} /\ subscribed' \in {subscribed, FALSE}
    BY <1>9 DEF CloseStep, CloseSetsState, ClosePutsSentinel, CloseTerminatesReceiver,
              CloseDisconnects, CloseDropsService, CloseEnds, TerminateRaises,
              DisconnectRaises, fieldVars, queueVars
  <2>3. closer' \in {"out", "sentinel", "receiver", "disconnect", "service", "done"}
    BY <1>9 DEF CloseStep, CloseSetsState, ClosePutsSentinel, CloseTerminatesReceiver,
              CloseDisconnects, CloseDropsService, CloseEnds, TerminateRaises,
              DisconnectRaises
  <2>4. service' \in BOOLEAN /\ receiver' \in BOOLEAN /\ subscribed' \in BOOLEAN
    BY <2>2
  <2>5. state' \in {"connected", "reconnecting", "down"}
    BY <2>2
  <2> QED BY <1>1, <1>2, <2>1, <2>3, <2>4, <2>5
<1>10. CASE Stop \/ Join \/ UNCHANGED vars
  BY <1>1, <1>2, <1>10 DEF Stop, Join, vars, consumerVars, linkVars, fieldVars, queueVars
<1> QED BY <1>3, <1>4, <1>5, <1>6, <1>7, <1>8, <1>9, <1>10 DEF Next

(* The fields of the consumer, the queue and the loop keep their types: no *)
(* malformed message, no callback and no close() that raises leaves        *)
(* anything but a batch or the sentinel in the queue.                      *)
THEOREM TypeCorrect == Spec => []TypeOK
<1>1. LinkInv /\ QueueInv /\ [Next]_vars => LinkInv' /\ QueueInv'
  BY NextLink, NextQueue
<1>2. TypeOK /\ LinkInv' /\ QueueInv' /\ [Next]_vars => TypeOK'
  BY NextType
<1> QED BY <1>1, <1>2, InitLink, InitQueue, InitType, PTL DEF Spec
=============================================================================
