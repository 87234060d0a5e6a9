------------------------ MODULE IngestTiming_proofs ------------------------
(***************************************************************************)
(* Theorems about IngestTiming, for any threshold, poll, delays and limits *)
(* of failures; that of the join is about the Flight transport.            *)
(***************************************************************************)
EXTENDS IngestTiming, TLAPS

LEMMA PollIsPositive == Poll \in Nat /\ Poll <= LongestPoll
BY ClocksArePositive DEF Poll, Smaller

LEMMA InitType == Init => TypeOK
<1> SUFFICES ASSUME Init PROVE TypeOK
  OBVIOUS
<1>1. requested \in BOOLEAN /\ automatic \in BOOLEAN /\ server \in BOOLEAN
  BY DEF Init, LoopInit
<1>2. watching \in BOOLEAN
  BY DEF Init, LoopInit
<1>3. consecutive_failures \in 0..FailureBound /\ delay \in 1..MaxDelay
  BY DelaysArePositive, FailureLimits DEF Init, LoopInit
<1>4. /\ sleeping \in 0..(2 * MaxDelay)
      /\ polling \in 0..Poll
      /\ since \in NotDisconnected..Threshold
      /\ joining \in 0..JoinTimeout
      /\ disconnected \in 0..LongEnough
  BY DelaysArePositive, ClocksArePositive, PollIsPositive
     DEF Init, NotDisconnected, LongEnough
<1>5. state \in {"connected", "reconnecting", "down"} /\ gen = "fresh"
  BY DEF Init
<1> QED
  BY <1>1, <1>2, <1>3, <1>4, <1>5 DEF Init, LoopInit, TypeOK, LoopTypeOK

LEMMA NextType == TypeOK /\ [Next]_vars => TypeOK'
<1> SUFFICES ASSUME TypeOK, [Next]_vars PROVE TypeOK'
  OBVIOUS
<1> USE DelaysArePositive, FailureLimits, ClocksArePositive, PollIsPositive
        DEF TypeOK, LoopTypeOK, LongEnough
<1>1. CASE Enter \/ Connect
  <2>1. /\ gen' \in {"fresh", "calling", "waiting"}
        /\ state' \in {"connected", "reconnecting", "down"}
        /\ disconnected' \in 0..LongEnough
    BY <1>1 DEF Enter, Connect
  <2> QED BY <1>1, <2>1 DEF Enter, Connect, loopVars, clockVars
<1>2. CASE Receive
  BY <1>2 DEF Receive, BatchArrives, timeVars, clockVars
<1>3. CASE Store
  BY <1>3 DEF Store, IngestReturns, timeVars, clockVars
<1>4. CASE Fail
  <2>1. sleeping' \in 0..(2 * MaxDelay)
    BY <1>4 DEF Fail, Sleeps
  <2>2. state' \in {"connected", "reconnecting", "down"} /\ gen' = "fresh"
    BY <1>4 DEF Fail
  <2>3. consecutive_failures' \in 0..FailureBound /\ thread' \in {"backoff", "gives_up"}
    BY <1>4 DEF Fail, BatchesRaise, Smaller
  <2> QED BY <1>4, <2>1, <2>2, <2>3 DEF Fail, BatchesRaise
<1>5. CASE Request
  BY <1>5 DEF Request, GiveUp, timeVars, clockVars
<1>6. CASE WakeUp
  BY <1>6 DEF WakeUp, BackoffEnds, Smaller, timeVars, clockVars
<1>7. CASE Leave
  BY <1>7 DEF Leave, BatchesReturn, clockVars
<1>8. CASE ServerGoesUpOrDown \/ LinkGoesUpOrDown
  <2>1. server' \in BOOLEAN
    BY <1>8 DEF ServerGoesUpOrDown, LinkGoesUpOrDown
  <2>2. state' \in {"connected", "reconnecting", "down"} /\ disconnected' \in 0..LongEnough
    BY <1>8 DEF ServerGoesUpOrDown, LinkGoesUpOrDown
  <2> QED BY <1>8, <2>1, <2>2 DEF ServerGoesUpOrDown, LinkGoesUpOrDown, loopVars, clockVars
<1>9. CASE WatchdogSeesConnected \/ WatchdogSeesDisconnected \/ WatchdogFires
  <2>1. requested' \in BOOLEAN /\ watching' \in BOOLEAN
    BY <1>9 DEF WatchdogSeesConnected, WatchdogSeesDisconnected, WatchdogFires, loopVars
  <2>2. polling' \in 0..Poll /\ since' \in NotDisconnected..Threshold
    BY <1>9 DEF WatchdogSeesConnected, WatchdogSeesDisconnected, WatchdogFires,
                NotDisconnected
  <2> QED
    BY <1>9, <2>1, <2>2
       DEF WatchdogSeesConnected, WatchdogSeesDisconnected, WatchdogFires, loopVars
<1>10. CASE Stop \/ JoinEnds
  <2>1. CASE Stop
    <3>1. watching' \in BOOLEAN /\ state' \in {"connected", "reconnecting", "down"}
      BY <2>1 DEF Stop
    <3> QED BY <2>1, <3>1 DEF Stop
  <2>2. CASE JoinEnds
    BY <2>2 DEF JoinEnds, timeVars, clockVars
  <2> QED BY <1>10, <2>1, <2>2
<1>11. CASE Tick
  <2>1. sleeping' \in 0..(2 * MaxDelay) /\ polling' \in 0..Poll
    BY <1>11 DEF Tick, Later
  <2>2. since' \in NotDisconnected..Threshold
    BY <1>11 DEF Tick, NotDisconnected, Smaller
  <2>3. joining' \in 0..JoinTimeout
    BY <1>11 DEF Tick, Busy
  <2>4. disconnected' \in 0..LongEnough
    BY <1>11 DEF Tick, Smaller, LongEnough
  <2> QED BY <1>11, <2>1, <2>2, <2>3, <2>4 DEF Tick, loopVars
<1>12. CASE UNCHANGED vars
  BY <1>12 DEF vars, loopVars, timeVars, clockVars
<1> QED
  BY <1>1, <1>2, <1>3, <1>4, <1>5, <1>6, <1>7, <1>8, <1>9, <1>10, <1>11, <1>12 DEF Next

(* The clocks stay in their ranges: no sleep is longer than twice the      *)
(* largest delay, and the join does not wait past its timeout.             *)
THEOREM TypeCorrect == Spec => []TypeOK
BY InitType, NextType, PTL DEF Spec
-----------------------------------------------------------------------------
(* Automatic shutdown is either on or off, for the loop and the watchdog.  *)

OffMeansOff ==
  ~automatic => ~requested /\ ~watching /\ thread # "gives_up"

LEMMA NextOff == OffMeansOff /\ [Next]_vars => OffMeansOff'
<1> SUFFICES ASSUME OffMeansOff, [Next]_vars PROVE OffMeansOff'
  OBVIOUS
<1> USE DEF OffMeansOff
<1>1. CASE Enter \/ Connect \/ Receive \/ Store
  BY <1>1 DEF Enter, Connect, Receive, Store, BatchArrives, IngestReturns, loopVars,
              timeVars, clockVars
<1>2. CASE Fail
  BY <1>2 DEF Fail, BatchesRaise
<1>3. CASE Request \/ WakeUp \/ Leave
  BY <1>3 DEF Request, GiveUp, WakeUp, BackoffEnds, Leave, BatchesReturn, timeVars, clockVars
<1>4. CASE ServerGoesUpOrDown \/ LinkGoesUpOrDown
  BY <1>4 DEF ServerGoesUpOrDown, LinkGoesUpOrDown, loopVars, clockVars
<1>5. CASE WatchdogSeesConnected \/ WatchdogSeesDisconnected \/ WatchdogFires
  BY <1>5 DEF WatchdogSeesConnected, WatchdogSeesDisconnected, WatchdogFires,
              WatchdogDue, loopVars
<1>6. CASE Stop \/ JoinEnds \/ Tick
  BY <1>6 DEF Stop, JoinEnds, Tick, timeVars, clockVars, loopVars
<1>7. CASE UNCHANGED vars
  BY <1>7 DEF vars, loopVars, timeVars, clockVars
<1> QED BY <1>1, <1>2, <1>3, <1>4, <1>5, <1>6, <1>7 DEF Next

(* With ingest_max_disconnect_seconds set to None nothing ever asks for a  *)
(* shutdown: neither failures, however many, nor the watchdog.             *)
THEOREM NoneDisablesBoth == Spec => []DisabledNeverRequests
<1>1. Init => OffMeansOff
  BY DEF Init, LoopInit, OffMeansOff
<1>2. OffMeansOff => DisabledNeverRequests
  BY DEF OffMeansOff, DisabledNeverRequests
<1> QED BY <1>1, <1>2, NextOff, PTL DEF Spec
-----------------------------------------------------------------------------
(* The watchdog.  While it runs, a disconnection is at most a poll old     *)
(* when the watchdog first sees it; from then on its age and the measured  *)
(* time grow together; and when the measured time has reached the          *)
(* threshold, which it does between two polls, the next poll fires.        *)

WatchdogRuns ==
  automatic /\ ~requested /\ main = "serving" => watching
ConnectedSince == state = "connected" => disconnected = 0
MeasuredBy(age, timer, measured) ==
  /\ measured = NotDisconnected => age + timer <= Poll
  /\ measured \in 0..(Threshold - 1) => age <= Poll + measured
  /\ measured = Threshold => age + timer < LongEnough
Measured == MeasuredBy(disconnected, polling, since)
MeasuredInTime == watching => Measured
WatchdogInv == TypeOK /\ WatchdogRuns /\ ConnectedSince /\ MeasuredInTime

(* The three facts about the numbers: the age may start over, and a second *)
(* passes for the age, the timer and the measurement together.             *)
LEMMA YoungerIsMeasured ==
  ASSUME NEW age \in Nat, NEW timer \in Nat, NEW measured \in NotDisconnected..Threshold,
         NEW younger \in {0, age}, timer <= Poll, MeasuredBy(age, timer, measured)
  PROVE  MeasuredBy(younger, timer, measured)
BY ClocksArePositive, PollIsPositive DEF MeasuredBy, NotDisconnected, LongEnough

LEMMA SecondIsMeasured ==
  ASSUME NEW age \in Nat, NEW timer \in Nat, NEW measured \in NotDisconnected..Threshold,
         NEW older \in 0..(age + 1), timer > 0, timer <= Poll, MeasuredBy(age, timer, measured)
  PROVE  MeasuredBy(older, timer - 1,
                    IF measured = NotDisconnected THEN measured
                    ELSE Smaller(measured + 1, Threshold))
<1>1. CASE measured = NotDisconnected
  BY <1>1, ClocksArePositive, PollIsPositive DEF MeasuredBy, NotDisconnected
<1>2. CASE measured \in 0..(Threshold - 1)
  BY <1>2, ClocksArePositive, PollIsPositive
     DEF MeasuredBy, NotDisconnected, Smaller, LongEnough
<1>3. CASE measured = Threshold
  BY <1>3, ClocksArePositive, PollIsPositive
     DEF MeasuredBy, NotDisconnected, Smaller, LongEnough
<1> QED BY <1>1, <1>2, <1>3, ClocksArePositive DEF NotDisconnected

LEMMA InitWatchdog == Init => WatchdogInv
<1> SUFFICES ASSUME Init PROVE WatchdogInv
  OBVIOUS
<1>1. Measured
  BY PollIsPositive, ClocksArePositive DEF Init, Measured, MeasuredBy, NotDisconnected
<1>2. WatchdogRuns /\ ConnectedSince
  BY DEF Init, LoopInit, WatchdogRuns, ConnectedSince
<1> QED BY <1>1, <1>2, InitType DEF WatchdogInv, MeasuredInTime

LEMMA NextWatchdog == WatchdogInv /\ [Next]_vars => WatchdogInv'
<1> SUFFICES ASSUME WatchdogInv, [Next]_vars PROVE WatchdogInv'
  OBVIOUS
<1>1. TypeOK'
  BY NextType DEF WatchdogInv
<1>2. /\ disconnected \in Nat /\ polling \in 0..Poll
      /\ since \in NotDisconnected..Threshold
      /\ Poll' = Poll
  BY DEF WatchdogInv, TypeOK, Poll
<1> USE DEF WatchdogInv, WatchdogRuns, ConnectedSince, MeasuredInTime
<1>3. ASSUME UNCHANGED <<automatic, requested, watching, since, polling>>,
             main' = main \/ main' # "serving",
             state' = "connected" => disconnected' = 0,
             disconnected' \in {0, disconnected}
      PROVE  WatchdogInv'
  <2>1. since' = since /\ polling' = polling /\ disconnected' \in {0, disconnected}
    BY <1>3
  <2>2. Measured => MeasuredBy(disconnected', polling, since)
    BY <1>2, <2>1, YoungerIsMeasured DEF Measured
  <2>3. Measured => Measured'
    BY <2>1, <2>2 DEF Measured, MeasuredBy, LongEnough, Poll
  <2> QED BY <1>1, <1>3, <2>3
<1>4. CASE Enter \/ Connect
  <2>1. UNCHANGED <<automatic, requested, watching, since, polling, main>>
    BY <1>4 DEF Enter, Connect, loopVars, clockVars
  <2>2. /\ state' = "connected" => disconnected' = 0
        /\ disconnected' \in {0, disconnected}
    BY <1>4 DEF Enter, Connect
  <2> QED BY <1>3, <2>1, <2>2
<1>5. CASE Receive \/ Store \/ WakeUp \/ Leave
  BY <1>3, <1>5 DEF Receive, Store, WakeUp, Leave, BatchArrives, IngestReturns,
                    BackoffEnds, BatchesReturn, timeVars, clockVars
<1>6. CASE Request
  <2>1. Measured' <=> Measured
    BY <1>6 DEF Request, timeVars, clockVars, Measured, MeasuredBy, LongEnough, Poll
  <2> QED BY <1>1, <1>6, <2>1 DEF Request, GiveUp, timeVars, clockVars
<1>7. CASE Fail
  BY <1>3, <1>7 DEF Fail, BatchesRaise
<1>8. CASE ServerGoesUpOrDown \/ LinkGoesUpOrDown
  BY <1>3, <1>8 DEF ServerGoesUpOrDown, LinkGoesUpOrDown, loopVars, clockVars
<1>9. CASE WatchdogSeesConnected
  <2>1. Measured'
    BY <1>2, <1>9, ClocksArePositive, PollIsPositive
       DEF WatchdogSeesConnected, Measured, MeasuredBy, NotDisconnected
  <2> QED BY <1>1, <1>9, <2>1 DEF WatchdogSeesConnected, loopVars
<1>10. CASE WatchdogSeesDisconnected
  <2>1. Measured => Measured'
    BY <1>2, <1>10, ClocksArePositive, PollIsPositive
       DEF WatchdogSeesDisconnected, WatchdogDue, Measured, MeasuredBy, NotDisconnected
  <2> QED BY <1>1, <1>10, <2>1 DEF WatchdogSeesDisconnected, loopVars
<1>11. CASE WatchdogFires \/ Stop
  BY <1>1, <1>11 DEF WatchdogFires, Stop
<1>12. CASE JoinEnds
  BY <1>3, <1>12 DEF JoinEnds, timeVars, clockVars
<1>13. CASE Tick
  <2>1. disconnected' = (IF state = "connected" THEN 0
                         ELSE Smaller(disconnected + 1, LongEnough))
    BY <1>13 DEF Tick
  <2>2. /\ disconnected' \in 0..(disconnected + 1)
        /\ state = "connected" => disconnected' = 0
    BY <1>2, <2>1, ClocksArePositive, PollIsPositive DEF Smaller, LongEnough
  <2>3. ASSUME watching
        PROVE  /\ polling # 0
               /\ polling' = Later(polling)
               /\ since' = IF since = NotDisconnected THEN since
                           ELSE Smaller(since + 1, Threshold)
    BY <1>13, <2>3 DEF Tick, Busy, WatchdogDue
  <2>4. ASSUME watching, Measured PROVE Measured'
    <3>1. polling > 0 /\ polling' = polling - 1
      BY <1>2, <2>3, <2>4, PollIsPositive DEF Later
    <3>2. since' = IF since = NotDisconnected THEN since
                   ELSE Smaller(since + 1, Threshold)
      BY <2>3, <2>4
    <3>3. MeasuredBy(disconnected', polling - 1, since')
      BY <1>2, <2>2, <2>4, <3>1, <3>2, SecondIsMeasured, PollIsPositive DEF Measured
    <3> QED BY <3>1, <3>3 DEF Measured, MeasuredBy, LongEnough, Poll
  <2>5. UNCHANGED <<loopVars, state, watching>>
    BY <1>13 DEF Tick
  <2> QED BY <1>1, <2>2, <2>4, <2>5 DEF loopVars
<1>14. CASE UNCHANGED vars
  BY <1>3, <1>14 DEF vars, loopVars, timeVars, clockVars
<1> QED
  BY <1>4, <1>5, <1>6, <1>7, <1>8, <1>9, <1>10, <1>11, <1>12, <1>13, <1>14 DEF Next

(* A transport that stays disconnected for the threshold and two polls has *)
(* led to a request for shutdown, whatever the phase of the polls and      *)
(* however the loop failed and slept in between.                           *)
THEOREM WatchdogIsNotLate == Spec => []WatchdogIsInTime
<1>1. WatchdogInv => WatchdogIsInTime
  <2> SUFFICES ASSUME WatchdogInv, automatic, ~requested, main = "serving"
               PROVE  disconnected < LongEnough
    BY DEF WatchdogIsInTime, Stopping
  <2>1. watching
    BY DEF WatchdogInv, WatchdogRuns
  <2>2. disconnected \in Nat /\ polling \in 0..Poll /\ since \in NotDisconnected..Threshold
    BY DEF WatchdogInv, TypeOK
  <2> QED BY <2>1, <2>2, ClocksArePositive, PollIsPositive
          DEF WatchdogInv, MeasuredInTime, Measured, MeasuredBy, LongEnough, NotDisconnected
<1> QED BY <1>1, InitWatchdog, NextWatchdog, PTL DEF Spec
-----------------------------------------------------------------------------
(* The join.  delays is the table of the backoffs after each failure: it   *)
(* begins with the base delay and doubles up to the cap.                   *)

TableOfDelays(delays) ==
  /\ delays \in [0..(MaxFailures - 1) -> Nat]
  /\ delays[0] = BaseDelay
  /\ \A n \in 0..(MaxFailures - 2) : delays[n + 1] = Smaller(2 * delays[n], MaxDelay)

(* Every backoff before the limit of failures, with its jitter, is shorter *)
(* than the join.                                                          *)
JoinIsLonger(delays) ==
  \A n \in 0..(MaxFailures - 2) : (5 * delays[n] - 1) \div 4 < JoinTimeout

DelayByTable(delays) ==
  automatic =>
    /\ thread \in {"batches", "ingesting"} =>
         /\ consecutive_failures \in 0..(MaxFailures - 1)
         /\ delay = delays[consecutive_failures]
    /\ thread = "backoff" =>
         /\ consecutive_failures \in 1..(MaxFailures - 1)
         /\ delay = delays[consecutive_failures - 1]
    /\ sleeping < JoinTimeout
OnlyBackoffSleeps == thread # "backoff" => sleeping = 0
JoinIsInTime ==
  /\ main \in {"serving", "joining", "stopped"}
  /\ main = "serving" => joining = 0
  /\ automatic /\ transport = "flight" /\ main = "joining" /\ thread # "ended" =>
       joining + sleeping < JoinTimeout
(* A call in progress when the service is stopped is over at that instant. *)
CallsEndAtOnce ==
  gen = "calling" => /\ thread = "batches"
                     /\ main = "joining" => joining = 0
JoinInv(delays) ==
  /\ TypeOK
  /\ DelayByTable(delays)
  /\ OnlyBackoffSleeps
  /\ JoinIsInTime
  /\ CallsEndAtOnce
  /\ JoinOutlastsBackoff

LEMMA NothingAdded ==
  ASSUME NEW a \in Nat, NEW b \in Nat, NEW c, a = 0, b < c
  PROVE  a + b < c
OBVIOUS

LEMMA InitJoin ==
  ASSUME NEW delays, TableOfDelays(delays)
  PROVE  Init => JoinInv(delays)
<1> SUFFICES ASSUME Init PROVE JoinInv(delays)
  OBVIOUS
<1>1. consecutive_failures \in 0..(MaxFailures - 1) /\ delay = delays[consecutive_failures]
  BY FailureLimits DEF Init, LoopInit, TableOfDelays
<1>2. sleeping < JoinTimeout /\ joining + sleeping < JoinTimeout
  BY ClocksArePositive DEF Init
<1> QED BY <1>1, <1>2, InitType
        DEF Init, LoopInit, JoinInv, DelayByTable, OnlyBackoffSleeps, JoinIsInTime,
            CallsEndAtOnce, JoinOutlastsBackoff

LEMMA NextJoin ==
  ASSUME NEW delays, TableOfDelays(delays), JoinIsLonger(delays)
  PROVE  JoinInv(delays) /\ [Next]_vars => JoinInv(delays)'
<1> SUFFICES ASSUME JoinInv(delays), [Next]_vars PROVE JoinInv(delays)'
  OBVIOUS
<1>1. TypeOK /\ TypeOK'
  BY NextType DEF JoinInv
<1> USE FailureLimits, ClocksArePositive
        DEF JoinInv, DelayByTable, OnlyBackoffSleeps, JoinIsInTime, CallsEndAtOnce,
            JoinOutlastsBackoff
<1>2. CASE Enter \/ Connect
  <2>1. /\ main = "serving" /\ main' = "serving"
        /\ UNCHANGED <<loopVars, transport, sleeping, joining>>
    BY <1>2 DEF Enter, Connect, Stopping, loopVars, clockVars
  <2>2. thread = "batches"
    BY <1>2 DEF Enter, Connect
  <2> QED BY <1>1, <2>1, <2>2 DEF loopVars
<1>3. CASE Receive
  BY <1>1, <1>3 DEF Receive, Stopping, BatchArrives, timeVars, clockVars, TableOfDelays
<1>4. CASE Store
  BY <1>1, <1>4 DEF Store, IngestReturns, timeVars, clockVars
<1>5. CASE Fail
  <2>1. UNCHANGED <<automatic, transport, main, joining>>
    BY <1>5 DEF Fail, BatchesRaise
  <2>2. thread = "batches" /\ thread' \in {"gives_up", "backoff"} /\ UNCHANGED delay
    BY <1>5 DEF Fail, BatchesRaise
  <2>3. thread' # "backoff" => sleeping' = 0
    BY <1>5, <2>2 DEF Fail
  <2>4. ASSUME automatic PROVE DelayByTable(delays)'
    <3>1. consecutive_failures \in 0..(MaxFailures - 1)
      BY <2>2, <2>4
    <3>2. consecutive_failures' = consecutive_failures + 1
      BY <1>5, <3>1 DEF Fail, BatchesRaise, Smaller
    <3>3. CASE thread' = "backoff"
      <4>1. consecutive_failures' < MaxFailures
        <5>1. ~(consecutive_failures' >= MaxFailures)
          BY <1>5, <2>4, <3>3 DEF Fail, BatchesRaise
        <5> QED BY <3>1, <3>2, <5>1
      <4>2. consecutive_failures \in 0..(MaxFailures - 2)
        BY <3>1, <3>2, <4>1
      <4>3. delay = delays[consecutive_failures] /\ delays[consecutive_failures] \in Nat
        BY <2>2, <2>4, <3>1 DEF TableOfDelays
      <4>4. sleeping' <= (5 * delay - 1) \div 4
        BY <1>5, <3>3, <4>3 DEF Fail, Sleeps
      <4>5. sleeping' < JoinTimeout
        <5>1. (5 * delay - 1) \div 4 < JoinTimeout
          BY <4>2, <4>3 DEF JoinIsLonger
        <5>2. sleeping' \in Int /\ (5 * delay - 1) \div 4 \in Int
          BY <1>1, <4>3 DEF TypeOK
        <5> QED BY <4>4, <5>1, <5>2
      <4> QED BY <2>2, <3>2, <3>3, <4>2, <4>3, <4>5
    <3>4. CASE thread' = "gives_up"
      BY <2>3, <3>4
    <3> QED BY <2>2, <3>3, <3>4
  <2>5. OnlyBackoffSleeps' /\ CallsEndAtOnce'
    BY <1>5, <2>2, <2>3 DEF Fail
  <2>6. transport = "flight" /\ main # "serving" => gen = "calling" /\ thread = "batches"
    BY <1>5, <2>2 DEF Fail, Raises, Stopping
  <2>7. JoinIsInTime'
    <3> SUFFICES ASSUME automatic, transport = "flight", main = "joining"
                 PROVE  joining + sleeping' < JoinTimeout
      BY <2>1
    <3>1. joining = 0
      BY <2>6
    <3>2. sleeping' < JoinTimeout
      BY <2>1, <2>4
    <3>3. sleeping' \in Nat /\ joining \in Nat
      BY <1>1 DEF TypeOK
    <3> QED BY <3>1, <3>2, <3>3, NothingAdded
  <2>8. JoinOutlastsBackoff'
    BY <2>1, <2>2
  <2> QED BY <1>1, <2>1, <2>4, <2>5, <2>7, <2>8
<1>6. CASE Request
  BY <1>1, <1>6 DEF Request, GiveUp, timeVars, clockVars
<1>7. CASE WakeUp
  <2>1. ASSUME automatic
        PROVE  delay' = delays[consecutive_failures]
    <3>1. consecutive_failures \in 1..(MaxFailures - 1)
          /\ delay = delays[consecutive_failures - 1]
      BY <1>7, <2>1 DEF WakeUp, BackoffEnds
    <3>2. delay' = Smaller(2 * delay, MaxDelay)
      BY <1>7 DEF WakeUp, BackoffEnds
    <3>3. consecutive_failures - 1 \in 0..(MaxFailures - 2)
          /\ consecutive_failures - 1 + 1 = consecutive_failures
      BY <3>1
    <3> QED BY <3>1, <3>2, <3>3 DEF TableOfDelays
  <2> QED BY <1>1, <1>7, <2>1 DEF WakeUp, BackoffEnds, timeVars, clockVars
<1>8. CASE Leave
  BY <1>1, <1>8 DEF Leave, BatchesReturn, timeVars, clockVars
<1>9. CASE ServerGoesUpOrDown \/ LinkGoesUpOrDown
  BY <1>1, <1>9 DEF ServerGoesUpOrDown, LinkGoesUpOrDown, loopVars, clockVars
<1>10. CASE WatchdogSeesConnected \/ WatchdogSeesDisconnected \/ WatchdogFires
  BY <1>1, <1>10 DEF WatchdogSeesConnected, WatchdogSeesDisconnected, WatchdogFires, loopVars
<1>11. CASE Stop
  BY <1>1, <1>11 DEF Stop, TypeOK
<1>12. CASE JoinEnds
  <2>1. ASSUME automatic, transport = "flight", thread # "ended" PROVE FALSE
    BY <1>1, <1>12, <2>1 DEF JoinEnds, TypeOK
  <2> QED BY <1>1, <1>12, <2>1 DEF JoinEnds, timeVars, clockVars
<1>13. CASE Tick
  <2>1. sleeping \in Nat /\ joining \in Nat
    BY <1>1 DEF TypeOK
  <2>2. thread \in {"batches", "ingesting", "backoff", "gives_up", "ended"}
    BY <1>1 DEF TypeOK, LoopTypeOK
  <2>3. main = "joining" => thread = "backoff" /\ sleeping > 0
    BY <1>13, <2>1, <2>2 DEF Tick, Busy, Stopping
  <2>4. sleeping' <= sleeping /\ (sleeping > 0 => sleeping' = sleeping - 1)
    BY <1>13, <2>1 DEF Tick, Later
  <2>5. main = "joining" => joining' = joining + 1
    BY <1>13 DEF Tick
  <2>6. sleeping' \in Nat
    BY <1>1 DEF TypeOK
  <2>7. UNCHANGED loopVars /\ (main # "joining" => joining' = joining)
    BY <1>13 DEF Tick
  <2>8. CallsEndAtOnce' /\ OnlyBackoffSleeps' /\ JoinOutlastsBackoff'
    <3>1. gen' = gen /\ transport' = transport
      BY <1>13 DEF Tick
    <3> QED BY <2>3, <2>1, <2>4, <2>6, <2>7, <3>1 DEF loopVars
  <2>9. DelayByTable(delays)'
    BY <1>1, <2>1, <2>4, <2>6, <2>7 DEF loopVars
  <2>10. JoinIsInTime'
    <3>1. gen' = gen /\ transport' = transport
      BY <1>13 DEF Tick
    <3> QED BY <2>1, <2>3, <2>4, <2>5, <2>6, <2>7, <3>1 DEF loopVars
  <2> QED BY <1>1, <2>8, <2>9, <2>10
<1>14. CASE UNCHANGED vars
  BY <1>1, <1>14 DEF vars, loopVars, timeVars, clockVars
<1> QED
  BY <1>2, <1>3, <1>4, <1>5, <1>6, <1>7, <1>8, <1>9, <1>10, <1>11, <1>12, <1>13, <1>14
     DEF Next

(* Where every backoff before the limit of failures is shorter than the    *)
(* join, a service under Flight that shuts down on failures never abandons *)
(* its thread in a backoff: not in the one in which it is stopped, nor in  *)
(* the one after the call that close() aborts.                             *)
THEOREM JoinIsLongEnough ==
  ASSUME NEW CONSTANT delays, TableOfDelays(delays), JoinIsLonger(delays)
  PROVE  Spec => []JoinOutlastsBackoff
<1>1. JoinInv(delays) => JoinOutlastsBackoff
  BY DEF JoinInv
<1>2. Init => JoinInv(delays)
  BY InitJoin
<1>3. JoinInv(delays) /\ [Next]_vars => JoinInv(delays)'
  BY NextJoin
<1> QED BY <1>1, <1>2, <1>3, PTL DEF Spec

(* The shipped numbers are such: the longest backoff a service can be      *)
(* stopped in is the fourth, of at most nine whole seconds.                *)
COROLLARY ShippedJoinIsLongEnough ==
  ASSUME BaseDelay = 1, MaxDelay = 60, MaxFailures = 5, JoinTimeout = 10
  PROVE  Spec => []JoinOutlastsBackoff
<1> DEFINE delays == [n \in 0..4 |-> IF n = 0 THEN 1 ELSE IF n = 1 THEN 2
                                     ELSE IF n = 2 THEN 4 ELSE IF n = 3 THEN 8 ELSE 16]
<1>1. TableOfDelays(delays)
  BY DEF TableOfDelays, Smaller
<1>2. JoinIsLonger(delays)
  BY DEF JoinIsLonger
<1> HIDE DEF delays
<1> QED BY <1>1, <1>2, JoinIsLongEnough
=============================================================================
