------------------------ MODULE FlightIngest_proofs ------------------------
(***************************************************************************)
(* Theorems about FlightIngest, for every setting of the delays, of the    *)
(* failure limit and of the switches.  The fairness of the specification   *)
(* is not needed for any of them.                                          *)
(***************************************************************************)
EXTENDS FlightIngest, TLAPS
-----------------------------------------------------------------------------
(* The state follows the generator until close() is called: whatever      *)
(* close() writes, it writes after _closing.                               *)

ClosingComesFirst == closer # "out" => closing
TrackedMeansReader == ~closing /\ gen = "tracked" => reader
ConnectedInv == ClosingComesFirst /\ TrackedMeansReader /\ ConnectedMeansStreaming

LEMMA InitConnected == Init => ConnectedInv
BY DEF Init, ConnectedInv, ClosingComesFirst, TrackedMeansReader, ConnectedMeansStreaming

LEMMA NextConnected == ConnectedInv /\ [Next]_vars => ConnectedInv'
<1> SUFFICES ASSUME ConnectedInv, [Next]_vars PROVE ConnectedInv'
  OBVIOUS
<1> USE DEF ConnectedInv, ClosingComesFirst, TrackedMeansReader, ConnectedMeansStreaming
<1>1. ASSUME GenGoesOn PROVE ConnectedInv'
  BY <1>1 DEF GenGoesOn, GenStarts, GenReconnects, GenCalls, CallSucceeds,
              GenTracksReader, GenConnects, StreamStops, RaisedIsChecked, StreamLost,
              EndForgetsReader, EndIsUnexpected, ForgetsReader, Goes, closeVars
<1>2. ASSUME GenYields PROVE ConnectedInv'
  BY <1>2 DEF GenYields, ChunkArrives, Goes, closeVars
<1>3. ASSUME GenReturns PROVE ConnectedInv'
  BY <1>3 DEF GenReturns, GenFindsClosed, RaisedReturns, StreamClosed, ForgetsReader,
              Goes, closeVars
<1>4. ASSUME GenRaises PROVE ConnectedInv'
  BY <1>4 DEF GenRaises, GenMissesClient, CallRaises, RaisedRaises, EndRaises,
              ForgetsReader, Goes, closeVars
<1>5. ASSUME CloseStep PROVE ConnectedInv'
  BY <1>5 DEF CloseStep, CloseBegins, CloseSetsState, CloseReadsReader, CloseTakesReader,
              CloseCancels, CloseTakesClient, CloseClosesClient, CloseEnds, genVars
<1>6. ASSUME UNCHANGED consumerVars PROVE ConnectedInv'
  BY <1>6 DEF consumerVars, closeVars
<1> QED
  BY <1>1, <1>2, <1>3, <1>4, <1>5, <1>6 DEF Next, ThreadStep, Stop, Join, vars

(* Readiness can trust the state: while the service is not being stopped,  *)
(* a stream is read only as connected and tracked, and connected is        *)
(* reported only from then until the loss is noticed.                      *)
THEOREM StateIsTruthful == Spec => []ConnectedMeansStreaming
<1>1. ConnectedInv => ConnectedMeansStreaming
  BY DEF ConnectedInv
<1> QED BY <1>1, InitConnected, NextConnected, PTL DEF Spec
-----------------------------------------------------------------------------
(* What the generator holds at each point, and where it is when the thread *)
(* is not in it.                                                           *)

HoldsByPoint ==
  /\ gen \in {"fresh", "starting", "ticket", "ended_clean", "unexpected"} =>
       ~reader /\ stream = "none"
  /\ gen = "do_get" => ~reader /\ stream \in {"calling", "dead"}
  /\ gen = "returned" => ~reader /\ stream \in {"open", "dead"}
  /\ gen \in {"tracked", "reading"} => stream \in {"open", "dead"}
  /\ gen \in {"raised", "lost", "raise_cleanup", "return_cleanup", "ended"} =>
       stream = "none"
OutsideByThread ==
  thread \in {"backoff", "gives_up", "ended"} => gen = "fresh"
AbortsLive == "none" \notin aborts
StreamInv == HoldsByPoint /\ OutsideByThread /\ AbortsLive

LEMMA InitStream == Init => StreamInv
BY PlatformsAbort DEF Init, LoopInit, StreamInv, HoldsByPoint, OutsideByThread, AbortsLive

LEMMA NextStream == StreamInv /\ [Next]_vars => StreamInv'
<1> SUFFICES ASSUME StreamInv, [Next]_vars PROVE StreamInv'
  OBVIOUS
<1> USE DEF StreamInv, HoldsByPoint, OutsideByThread
<1>0. AbortsLive'
  <2>1. aborts' = aborts
    BY DEF Next, ThreadStep, GenYields, ChunkArrives, GenReturns, GenFindsClosed,
           RaisedReturns, StreamClosed, GenRaises, GenMissesClient, CallRaises,
           RaisedRaises, EndRaises, Stop, Join, vars, consumerVars,
           CloseStep, CloseBegins, CloseSetsState, CloseReadsReader, CloseTakesReader,
           CloseCancels, CloseTakesClient, CloseClosesClient, CloseEnds, genVars,
           GenGoesOn, GenStarts, GenReconnects, GenCalls, CallSucceeds,
           GenTracksReader, GenConnects, StreamStops, RaisedIsChecked, StreamLost,
           EndForgetsReader, EndIsUnexpected, ForgetsReader, Goes, closeVars
  <2> QED BY <2>1 DEF AbortsLive
<1>1. CASE GenGoesOn /\ UNCHANGED loopVars
  BY <1>0, <1>1 DEF loopVars, GenGoesOn, GenStarts, GenReconnects, GenCalls, CallSucceeds,
              GenTracksReader, GenConnects, StreamStops, RaisedIsChecked, StreamLost,
              EndForgetsReader, EndIsUnexpected, ForgetsReader, Goes, closeVars
<1>2. CASE GenYields /\ BatchArrives
  BY <1>0, <1>2 DEF BatchArrives, GenYields, ChunkArrives, Goes, closeVars
<1>3. CASE GenReturns /\ BatchesReturn
  BY <1>0, <1>3 DEF BatchesReturn, GenReturns, GenFindsClosed, RaisedReturns, StreamClosed, ForgetsReader,
              Goes, closeVars
<1>4. CASE GenRaises /\ BatchesRaise
  BY <1>0, <1>4 DEF BatchesRaise, GenRaises, GenMissesClient, CallRaises, RaisedRaises, EndRaises,
              ForgetsReader, Goes, closeVars
<1>5. CASE LoopAlone /\ UNCHANGED consumerVars
  BY <1>0, <1>5 DEF LoopAlone, IngestReturns, GiveUp, BackoffEnds, consumerVars, closeVars
<1>6. CASE CloseStep
  <2>1. UNCHANGED <<gen, aborts>> /\ thread' = thread
    BY <1>6 DEF CloseReturns, loopVars, CloseStep, CloseBegins, CloseSetsState, CloseReadsReader, CloseTakesReader,
              CloseCancels, CloseTakesClient, CloseClosesClient, CloseEnds, genVars
  <2>2. ~reader => ~reader'
    BY <1>6 DEF CloseStep, CloseBegins, CloseSetsState, CloseReadsReader, CloseTakesReader,
              CloseCancels, CloseTakesClient, CloseClosesClient, CloseEnds, genVars
  <2>3. /\ stream = "none" => stream' = "none"
        /\ stream' = stream \/ stream' = "dead"
    BY <1>6 DEF AbortsLive, CloseStep, CloseBegins, CloseSetsState, CloseReadsReader, CloseTakesReader,
              CloseCancels, CloseTakesClient, CloseClosesClient, CloseEnds, genVars
  <2> QED BY <1>0, <2>1, <2>2, <2>3
<1>7. CASE Stop \/ Join
  BY <1>0, <1>7 DEF Stop, Join, StopBegins, JoinReturns, consumerVars, closeVars
<1>8. CASE UNCHANGED vars
  BY <1>0, <1>8 DEF vars, loopVars, consumerVars, closeVars
<1> QED BY <1>1, <1>2, <1>3, <1>4, <1>5, <1>6, <1>7, <1>8 DEF Next, ThreadStep

(* A thread that has ended, for whichever reason, holds no stream.         *)
THEOREM NoStreamIsLeft == Spec => []EndedHoldsNoStream
<1>1. StreamInv => EndedHoldsNoStream
  BY DEF StreamInv, HoldsByPoint, OutsideByThread, EndedHoldsNoStream
<1> QED BY <1>1, InitStream, NextStream, PTL DEF Spec
-----------------------------------------------------------------------------
(* Only the limit of failures makes the loop ask for a shutdown.  The      *)
(* invariant adds the moment in which it is about to.                      *)

GivesUpAtLimit ==
  /\ thread = "gives_up" =>
       automatic /\ consecutive_failures >= MaxFailures
  /\ consecutive_failures \in Nat
RequestInv == ShutdownOnlyAfterFailures /\ GivesUpAtLimit

LEMMA InitRequest == Init => RequestInv
BY DEF Init, LoopInit, RequestInv, ShutdownOnlyAfterFailures, GivesUpAtLimit

LEMMA NextRequest == RequestInv /\ [Next]_vars => RequestInv'
<1> SUFFICES ASSUME RequestInv, [Next]_vars PROVE RequestInv'
  OBVIOUS
<1> USE DEF RequestInv, ShutdownOnlyAfterFailures, GivesUpAtLimit
<1>1. CASE BatchArrives
  BY <1>1 DEF BatchArrives
<1>2. CASE BatchesReturn
  BY <1>2 DEF BatchesReturn
<1>3. CASE BatchesRaise
  BY <1>3, FailureLimits DEF BatchesRaise, Smaller
<1>4. CASE LoopAlone
  BY <1>4 DEF LoopAlone, IngestReturns, GiveUp, BackoffEnds
<1>5. CASE CloseReturns \/ StopBegins \/ JoinReturns
  BY <1>5 DEF CloseReturns, StopBegins, JoinReturns
<1>6. CASE UNCHANGED loopVars
  BY <1>6 DEF loopVars
<1> QED BY <1>1, <1>2, <1>3, <1>4, <1>5, <1>6
        DEF Next, ThreadStep, CloseStep, Stop, Join, vars

(* A shutdown is requested only with the limit of failures reached since   *)
(* the last batch, and never when automatic shutdown is disabled.          *)
THEOREM OnlyFailuresShutDown == Spec => []ShutdownOnlyAfterFailures
<1>1. RequestInv => ShutdownOnlyAfterFailures
  BY DEF RequestInv
<1> QED BY <1>1, InitRequest, NextRequest, PTL DEF Spec
-----------------------------------------------------------------------------
(* Every step of the service is one that Ingestion allows, or cannot be    *)
(* seen there.  Needed for that: nobody but the one who stops the service  *)
(* closes the consumer, and a loop that may give up does so at the limit.  *)

OnlyStopCloses ==
  closing \/ ~client \/ closer # "out" \/ gen = "return_cleanup" => main # "serving"
LimitEndsLoop ==
  automatic /\ consecutive_failures >= MaxFailures =>
    thread \in {"gives_up", "ended"}
ContractInv ==
  /\ RequestInv
  /\ OnlyStopCloses
  /\ LimitEndsLoop
  /\ consecutive_failures \in 0..FailureBound

LEMMA InitContract == Init => ContractInv /\ Contract!Init
BY InitRequest, FailureLimits
   DEF Init, LoopInit, ContractInv, OnlyStopCloses, LimitEndsLoop, Contract!Init

LEMMA NextContract ==
  ContractInv /\ [Next]_vars => ContractInv' /\ [Contract!Next]_(Contract!vars)
<1> SUFFICES ASSUME ContractInv, [Next]_vars
             PROVE  ContractInv' /\ [Contract!Next]_(Contract!vars)
  OBVIOUS
<1>1. RequestInv'
  BY NextRequest DEF ContractInv
<1>2. CASE GenGoesOn /\ UNCHANGED loopVars
  <2>1. OnlyStopCloses'
    BY <1>2 DEF ContractInv, OnlyStopCloses, loopVars,
              GenGoesOn, GenStarts, GenReconnects, GenCalls, CallSucceeds,
              GenTracksReader, GenConnects, StreamStops, RaisedIsChecked, StreamLost,
              EndForgetsReader, EndIsUnexpected, ForgetsReader, Goes, closeVars
  <2> QED BY <1>1, <1>2, <2>1 DEF ContractInv, LimitEndsLoop, loopVars, Contract!vars
<1>3. CASE GenYields /\ BatchArrives
  <2>1. Contract!Batch
    BY <1>3 DEF BatchArrives, Contract!Batch
  <2>2. OnlyStopCloses' /\ LimitEndsLoop' /\ consecutive_failures' \in 0..FailureBound
    BY <1>3, FailureLimits
       DEF GenYields, ChunkArrives, Goes, closeVars, BatchArrives, ContractInv,
           OnlyStopCloses, LimitEndsLoop
  <2> QED BY <1>1, <2>1, <2>2 DEF ContractInv, Contract!Next
<1>4. CASE GenReturns /\ BatchesReturn
  <2>1. closing \/ ~client \/ gen = "return_cleanup"
    BY <1>4 DEF GenReturns, GenFindsClosed, RaisedReturns, ForgetsReader, Goes, StreamClosed
  <2>2. Contract!End
    BY <1>4, <2>1 DEF BatchesReturn, ContractInv, OnlyStopCloses, Contract!End
  <2>3. OnlyStopCloses' /\ LimitEndsLoop' /\ consecutive_failures' \in 0..FailureBound
    BY <1>4 DEF BatchesReturn, ContractInv, OnlyStopCloses, LimitEndsLoop,
              GenReturns, GenFindsClosed, RaisedReturns, StreamClosed, ForgetsReader,
              Goes, closeVars
  <2> QED BY <1>1, <2>2, <2>3 DEF ContractInv, Contract!Next
<1>5. CASE GenRaises /\ BatchesRaise
  <2>1. ~(automatic /\ consecutive_failures >= MaxFailures)
    BY <1>5 DEF BatchesRaise, ContractInv, LimitEndsLoop
  <2>2. Contract!Fail
    BY <1>5, <2>1, FailureLimits DEF BatchesRaise, Smaller, ContractInv, Contract!Fail
  <2>3. LimitEndsLoop' /\ consecutive_failures' \in 0..FailureBound
    BY <1>5, FailureLimits DEF BatchesRaise, Smaller, ContractInv, LimitEndsLoop
  <2>4. OnlyStopCloses'
    BY <1>5 DEF BatchesRaise, ContractInv, OnlyStopCloses,
              GenRaises, GenMissesClient, CallRaises, RaisedRaises, EndRaises,
              ForgetsReader, Goes, closeVars
  <2> QED BY <1>1, <2>2, <2>3, <2>4 DEF ContractInv, Contract!Next
<1>6. CASE LoopAlone /\ UNCHANGED consumerVars
  <2>1. OnlyStopCloses' /\ LimitEndsLoop' /\ consecutive_failures' \in 0..FailureBound
    BY <1>6 DEF LoopAlone, IngestReturns, GiveUp, BackoffEnds, consumerVars, closeVars,
                ContractInv, OnlyStopCloses, LimitEndsLoop
  <2>2. CASE GiveUp
    <3>1. Contract!GiveUp
      BY <2>2 DEF GiveUp, ContractInv, RequestInv, GivesUpAtLimit, Contract!GiveUp
    <3> QED BY <1>1, <2>1, <3>1 DEF ContractInv, Contract!Next
  <2>3. CASE IngestReturns \/ BackoffEnds
    BY <1>1, <2>1, <2>3 DEF IngestReturns, BackoffEnds, ContractInv, Contract!vars
  <2> QED BY <1>6, <2>2, <2>3 DEF LoopAlone
<1>7. CASE CloseStep
  <2>1. OnlyStopCloses'
    BY <1>7 DEF CloseReturns, loopVars, ContractInv, OnlyStopCloses,
              CloseStep, CloseBegins, CloseSetsState, CloseReadsReader, CloseTakesReader,
              CloseCancels, CloseTakesClient, CloseClosesClient, CloseEnds, genVars
  <2>2. /\ UNCHANGED <<thread, consecutive_failures, requested, automatic>>
        /\ (main # "serving")' = (main # "serving")
    BY <1>7 DEF CloseStep, CloseReturns, loopVars
  <2> QED BY <1>1, <2>1, <2>2 DEF ContractInv, LimitEndsLoop, Contract!vars
<1>8. CASE Stop
  <2>1. Contract!Stop
    BY <1>8 DEF Stop, StopBegins, Contract!Stop
  <2> QED BY <1>1, <1>8, <2>1
          DEF Stop, StopBegins, consumerVars, closeVars, ContractInv, OnlyStopCloses,
              LimitEndsLoop, Contract!Next
<1>9. CASE Join
  BY <1>1, <1>9 DEF Join, JoinReturns, consumerVars, closeVars, ContractInv, OnlyStopCloses,
                    LimitEndsLoop, Contract!vars
<1>10. CASE UNCHANGED vars
  BY <1>1, <1>10 DEF vars, loopVars, consumerVars, closeVars, ContractInv, OnlyStopCloses,
                     LimitEndsLoop, Contract!vars
<1> QED BY <1>2, <1>3, <1>4, <1>5, <1>6, <1>7, <1>8, <1>9, <1>10 DEF Next, ThreadStep

(* The service under Flight implements the safety part of Ingestion, for   *)
(* every limit and delay: its thread ends only because it was stopped or   *)
(* because it gave up, gives up exactly at the limit, and then has asked   *)
(* for the shutdown of the process.                                        *)
THEOREM ContractIsKept == Spec => Contract!Safety
BY InitContract, NextContract, PTL DEF Spec, Contract!Safety
-----------------------------------------------------------------------------
(* Types.                                                                  *)

LEMMA SmallerIsSmaller ==
  ASSUME NEW a \in Int, NEW b \in Int
  PROVE  Smaller(a, b) \in Int /\ Smaller(a, b) <= b /\ Smaller(a, b) \in {a, b}
BY DEF Smaller

LEMMA InitType == Init => TypeOK
<1>1. BaseDelay \in 1..MaxDelay /\ 0 \in 0..FailureBound
  BY DelaysArePositive, FailureLimits
<1>2. Init => LoopTypeOK
  BY <1>1 DEF Init, LoopInit, LoopTypeOK
<1> QED BY <1>2 DEF Init, TypeOK

LEMMA NextLoopType ==
  ASSUME LoopTypeOK,
         \/ BatchArrives \/ BatchesReturn \/ BatchesRaise \/ LoopAlone
         \/ CloseReturns \/ StopBegins \/ JoinReturns \/ UNCHANGED loopVars
  PROVE  LoopTypeOK'
<1> USE DelaysArePositive, FailureLimits DEF LoopTypeOK
<1>1. CASE BatchArrives
  BY <1>1 DEF BatchArrives
<1>2. CASE BatchesReturn
  BY <1>2 DEF BatchesReturn
<1>3. CASE BatchesRaise
  <2>1. consecutive_failures' \in 0..FailureBound
    BY <1>3 DEF BatchesRaise, Smaller
  <2>2. thread' \in {"backoff", "gives_up"}
    BY <1>3 DEF BatchesRaise
  <2> QED BY <1>3, <2>1, <2>2 DEF BatchesRaise
<1>4. CASE IngestReturns \/ GiveUp
  BY <1>4 DEF IngestReturns, GiveUp
<1>5. CASE BackoffEnds
  <2>1. delay' \in 1..MaxDelay
    BY <1>5 DEF BackoffEnds, Smaller
  <2> QED BY <1>5, <2>1 DEF BackoffEnds
<1>6. CASE CloseReturns \/ StopBegins \/ JoinReturns
  BY <1>6 DEF CloseReturns, StopBegins, JoinReturns
<1>7. CASE UNCHANGED loopVars
  BY <1>7 DEF loopVars
<1> QED BY <1>1, <1>2, <1>3, <1>4, <1>5, <1>6, <1>7 DEF LoopAlone

LEMMA LoopSteps ==
  [Next]_vars =>
    \/ BatchArrives \/ BatchesReturn \/ BatchesRaise \/ LoopAlone
    \/ CloseReturns \/ StopBegins \/ JoinReturns \/ UNCHANGED loopVars
BY DEF Next, ThreadStep, CloseStep, Stop, Join, vars

LEMMA NextType == TypeOK /\ [Next]_vars => TypeOK'
<1> SUFFICES ASSUME TypeOK, [Next]_vars PROVE TypeOK'
  OBVIOUS
<1>1. LoopTypeOK'
  BY LoopSteps, NextLoopType DEF TypeOK
<1> USE DEF TypeOK
<1>2. CASE GenGoesOn
  BY <1>1, <1>2 DEF GenGoesOn, GenStarts, GenReconnects, GenCalls, CallSucceeds,
              GenTracksReader, GenConnects, StreamStops, RaisedIsChecked, StreamLost,
              EndForgetsReader, EndIsUnexpected, ForgetsReader, Goes, closeVars
<1>3. CASE GenYields \/ GenReturns
  BY <1>1, <1>3 DEF GenYields, ChunkArrives, GenReturns, GenFindsClosed, RaisedReturns, StreamClosed, ForgetsReader,
              Goes, closeVars
<1>4. CASE GenRaises
  BY <1>1, <1>4 DEF GenRaises, GenMissesClient, CallRaises, RaisedRaises, EndRaises,
              ForgetsReader, Goes, closeVars
<1>5. CASE CloseStep
  BY <1>1, <1>5 DEF CloseStep, CloseBegins, CloseSetsState, CloseReadsReader, CloseTakesReader,
              CloseCancels, CloseTakesClient, CloseClosesClient, CloseEnds, genVars
<1>6. CASE UNCHANGED consumerVars
  BY <1>1, <1>6 DEF consumerVars, closeVars
<1> QED BY <1>2, <1>3, <1>4, <1>5, <1>6 DEF Next, ThreadStep, Stop, Join, vars

(* The fields of the consumer and of the loop keep their types: the        *)
(* counter stays within its bound, the delay between one second and the    *)
(* cap, for any delays and limits.                                         *)
THEOREM TypeCorrect == Spec => []TypeOK
BY InitType, NextType, PTL DEF Spec
-----------------------------------------------------------------------------
(* The backoff.  The prover has no law of powers, so that of two, for the  *)
(* exponents that occur, is a hypothesis; so is that the counter is not    *)
(* bounded before the cap is reached.                                      *)

PowersDouble == \A n \in 0..FailureBound : 2^n \in Nat /\ 2^(n + 1) = 2 * 2^n
CapIsReached == MaxDelay <= BaseDelay * 2^(FailureBound - 1)

(* How many backoffs were slept since the last batch.                      *)
Slept ==
  IF thread \in {"backoff", "gives_up"} \/ requested
  THEN consecutive_failures - 1
  ELSE consecutive_failures
Backoff(n) == Smaller(BaseDelay * 2^n, MaxDelay)

(* Only a failure leads to a backoff or to giving up, and whoever has      *)
(* asked for the shutdown has given up.                                    *)
BackoffInv ==
  /\ LoopTypeOK
  /\ thread \in {"backoff", "gives_up"} \/ requested => consecutive_failures >= 1
  /\ requested => thread = "ended"
  /\ delay = Backoff(Slept)

LEMMA NextPower ==
  ASSUME PowersDouble, NEW n \in 0..FailureBound
  PROVE  Smaller(2 * Backoff(n), MaxDelay) = Backoff(n + 1)
<1> DEFINE p == 2^n
<1>1. p \in Nat /\ 2^(n + 1) = 2 * p
  BY DEF PowersDouble
<1> HIDE DEF p
<1>2. BaseDelay * p \in Nat /\ BaseDelay * (2 * p) = 2 * (BaseDelay * p)
  BY <1>1, DelaysArePositive
<1> DEFINE q == BaseDelay * p
<1>3. q \in Nat /\ MaxDelay \in Nat
  BY <1>2, DelaysArePositive
<1>4. Backoff(n) = Smaller(q, MaxDelay) /\ Backoff(n + 1) = Smaller(2 * q, MaxDelay)
  BY <1>1, <1>2 DEF Backoff, p
<1> HIDE DEF q
<1>5. Smaller(2 * Smaller(q, MaxDelay), MaxDelay) = Smaller(2 * q, MaxDelay)
  BY <1>3 DEF Smaller
<1> QED BY <1>4, <1>5

(* At its bound the counter says nothing more, but the delay is the cap.   *)
LEMMA AtBound ==
  ASSUME PowersDouble, CapIsReached
  PROVE  Backoff(FailureBound - 1) = MaxDelay /\ Backoff(FailureBound) = MaxDelay
<1>1. FailureBound - 1 \in 0..FailureBound /\ MaxDelay \in Nat
      /\ FailureBound - 1 + 1 = FailureBound
  BY FailureLimits, DelaysArePositive
<1>2. BaseDelay * 2^(FailureBound - 1) \in Int
  BY <1>1, DelaysArePositive DEF PowersDouble
<1>3. Backoff(FailureBound - 1) = MaxDelay
  BY <1>1, <1>2 DEF CapIsReached, Backoff, Smaller
<1>4. Smaller(2 * MaxDelay, MaxDelay) = MaxDelay
  BY <1>1 DEF Smaller
<1> QED BY <1>1, <1>3, <1>4, NextPower

LEMMA InitBackoff == Init => BackoffInv
<1>1. 2^0 = 1
  OBVIOUS
<1>2. BaseDelay * 1 = BaseDelay /\ Smaller(BaseDelay, MaxDelay) = BaseDelay
  BY DelaysArePositive DEF Smaller
<1>3. Backoff(0) = BaseDelay
  BY <1>1, <1>2 DEF Backoff
<1> QED BY <1>3, InitType DEF Init, LoopInit, TypeOK, BackoffInv, Slept

LEMMA NextBackoff ==
  ASSUME PowersDouble, CapIsReached
  PROVE  BackoffInv /\ [Next]_vars => BackoffInv'
<1> SUFFICES ASSUME BackoffInv, [Next]_vars PROVE BackoffInv'
  OBVIOUS
<1>1. LoopTypeOK /\ LoopTypeOK'
  BY LoopSteps, NextLoopType DEF BackoffInv
<1>2. consecutive_failures \in 0..FailureBound /\ FailureBound \in Nat
  BY <1>1, FailureLimits DEF LoopTypeOK
<1>3. ASSUME Slept' = Slept, delay' = delay PROVE (delay = Backoff(Slept))'
  BY <1>3 DEF BackoffInv, Backoff, Smaller
<1>4. CASE BatchArrives
  <2>1. Backoff(0) = BaseDelay
    BY InitBackoff, DelaysArePositive DEF Backoff, Smaller
  <2>2. ~requested /\ ~requested' /\ Slept' = 0 /\ delay' = BaseDelay
    BY <1>4 DEF BatchArrives, BackoffInv, Slept
  <2>3. (delay = Backoff(Slept))'
    BY <2>1, <2>2 DEF Backoff, Smaller
  <2> QED BY <1>1, <1>4, <2>2, <2>3 DEF BatchArrives, BackoffInv
<1>5. CASE BatchesReturn \/ IngestReturns
  <2>1. Slept' = Slept
    BY <1>5 DEF BatchesReturn, IngestReturns, Slept
  <2> QED BY <1>1, <1>3, <1>5, <2>1 DEF BatchesReturn, IngestReturns, BackoffInv
<1>6. CASE BatchesRaise
  <2>1. /\ thread' \in {"backoff", "gives_up"} /\ delay' = delay /\ ~requested'
        /\ Slept = consecutive_failures
        /\ Slept' = consecutive_failures' - 1
    BY <1>6 DEF BatchesRaise, BackoffInv, Slept
  <2>2. consecutive_failures' = Smaller(consecutive_failures + 1, FailureBound)
    BY <1>6 DEF BatchesRaise
  <2>3. consecutive_failures' >= 1
    BY <1>2, <2>2, FailureLimits DEF Smaller
  <2>4. (delay = Backoff(Slept))'
    <3>1. CASE consecutive_failures < FailureBound
      <4>1. consecutive_failures' - 1 = consecutive_failures
        BY <1>2, <2>2, <3>1 DEF Smaller
      <4> QED BY <1>3, <2>1, <4>1
    <3>2. CASE consecutive_failures = FailureBound
      <4>1. consecutive_failures' = FailureBound
        BY <1>2, <2>2, <3>2 DEF Smaller
      <4>2. delay = MaxDelay /\ Slept' = FailureBound - 1
        BY <2>1, <3>2, <4>1, AtBound DEF BackoffInv
      <4> QED BY <2>1, <4>2, AtBound DEF Backoff, Smaller
    <3> QED BY <1>2, <3>1, <3>2
  <2> QED BY <1>1, <2>1, <2>3, <2>4 DEF BackoffInv
<1>7. CASE GiveUp
  <2>1. Slept' = Slept
    BY <1>7 DEF GiveUp, Slept
  <2> QED BY <1>1, <1>3, <1>7, <2>1 DEF GiveUp, BackoffInv
<1>8. CASE BackoffEnds
  <2>1. /\ ~requested' /\ thread' = "batches"
        /\ Slept = consecutive_failures - 1 /\ Slept' = consecutive_failures
        /\ consecutive_failures >= 1
    BY <1>8 DEF BackoffEnds, BackoffInv, Slept
  <2>2. consecutive_failures - 1 \in 0..FailureBound
        /\ consecutive_failures - 1 + 1 = consecutive_failures
    BY <1>2, <2>1
  <2>3. delay' = Backoff(consecutive_failures)
    BY <1>8, <2>1, <2>2, NextPower DEF BackoffEnds, BackoffInv
  <2>4. (delay = Backoff(Slept))'
    BY <2>1, <2>3 DEF Backoff, Smaller
  <2> QED BY <1>1, <2>1, <2>4 DEF BackoffInv
<1>9. CASE CloseReturns \/ StopBegins \/ JoinReturns \/ UNCHANGED loopVars
  <2>1. UNCHANGED <<thread, consecutive_failures, delay, requested>>
    BY <1>9 DEF CloseReturns, StopBegins, JoinReturns, loopVars
  <2>2. Slept' = Slept
    BY <2>1 DEF Slept
  <2> QED BY <1>1, <1>3, <2>1, <2>2 DEF BackoffInv
<1> QED BY <1>4, <1>5, <1>6, <1>7, <1>8, <1>9, LoopSteps DEF LoopAlone

(* Counter and delay never drift apart: the delay is the base delay        *)
(* doubled with each backoff slept since the last batch, up to the cap,    *)
(* for any delays and limits.                                              *)
THEOREM BackoffDoubles ==
  ASSUME PowersDouble, CapIsReached
  PROVE  Spec => []BackoffFollowsFailures
<1>1. BackoffInv => BackoffFollowsFailures
  BY DEF BackoffInv, BackoffFollowsFailures, Slept, Backoff
<1> QED BY <1>1, InitBackoff, NextBackoff, PTL DEF Spec

(* With the shipped delays the hypotheses are sums.                        *)
COROLLARY ShippedBackoffDoubles ==
  ASSUME BaseDelay = 1, MaxDelay = 60, FailureBound = 7
  PROVE  Spec => []BackoffFollowsFailures
<1>1. /\ 2^0 = 1 /\ 2^1 = 2 /\ 2^2 = 4 /\ 2^3 = 8 /\ 2^4 = 16
      /\ 2^5 = 32 /\ 2^6 = 64 /\ 2^7 = 128 /\ 2^8 = 256
  OBVIOUS
<1>2. PowersDouble
  <2> SUFFICES ASSUME NEW n \in 0..7 PROVE 2^n \in Nat /\ 2^(n + 1) = 2 * 2^n
    BY DEF PowersDouble
  <2>1. n \in {0, 1, 2, 3, 4, 5, 6, 7}
    OBVIOUS
  <2>2. CASE n = 0
    BY <1>1, <2>2
  <2>3. CASE n = 1
    BY <1>1, <2>3
  <2>4. CASE n = 2
    BY <1>1, <2>4
  <2>5. CASE n = 3
    BY <1>1, <2>5
  <2>6. CASE n = 4
    BY <1>1, <2>6
  <2>7. CASE n = 5
    BY <1>1, <2>7
  <2>8. CASE n = 6
    BY <1>1, <2>8
  <2>9. CASE n = 7
    BY <1>1, <2>9
  <2> QED BY <2>1, <2>2, <2>3, <2>4, <2>5, <2>6, <2>7, <2>8, <2>9
<1>3. CapIsReached
  BY <1>1 DEF CapIsReached
<1> QED BY <1>2, <1>3, BackoffDoubles
=============================================================================
