---------------------------- MODULE IngestTiming ----------------------------
(***************************************************************************)
(* The clocks of StreamIngestService (services/stream_ingest.py), in whole *)
(* seconds: the backoff of the ingest loop, the polls of the disconnect    *)
(* watchdog and the timeout of the join.  Only sleeping and waiting for    *)
(* batches take time: a call of either transport fails or succeeds at      *)
(* once, a Solace listener runs when the link changes, and close() ends    *)
(* what the generator waits for (FlightIngest says where it may miss it).  *)
(***************************************************************************)
EXTENDS IngestLoop

CONSTANTS
  Threshold,   \* ingest_max_disconnect_seconds, when it is not None
  LongestPoll, \* the 5.0 seconds a poll of the watchdog takes at most
  JoinTimeout  \* _JOIN_TIMEOUT

ASSUME ClocksArePositive == /\ Threshold \in Nat \ {0}
                            /\ LongestPoll \in Nat \ {0}
                            /\ JoinTimeout \in Nat \ {0}
(* Half the threshold, or the longest poll, is a whole number of seconds.  *)
ASSUME PollIsWhole == Threshold % 2 = 0 \/ Threshold >= 2 * LongestPoll

VARIABLES
  transport,    \* settings.ingest_transport
  server,       \* whether the Flight server or the Solace link is up
  state,        \* connection_state() of the consumer
  gen,          \* where the generator is: fresh, calling or waiting
  sleeping,     \* seconds the backoff still takes
  polling,      \* seconds until the watchdog polls
  since,        \* seconds since disconnected_since, or NotDisconnected
  watching,     \* whether the watchdog task is running
  joining,      \* seconds the join has waited
  disconnected  \* history: seconds since the state was last CONNECTED

clockVars == <<sleeping, polling, since, watching, joining>>
timeVars == <<transport, server, state, gen, clockVars, disconnected>>
vars == <<loopVars, timeVars>>

NotDisconnected == -1
Poll == Smaller(Threshold \div 2, LongestPoll)
LongEnough == Threshold + 2 * Poll   \* the history stops counting here

Init ==
  /\ LoopInit
  /\ transport \in {"flight", "solace"}
  /\ server \in (IF transport = "flight" THEN BOOLEAN ELSE {TRUE})
  /\ state = IF transport = "flight" THEN "reconnecting" ELSE "connected"
  /\ gen = "fresh"
  /\ sleeping = 0
  /\ polling = Poll
  /\ since = NotDisconnected
  /\ watching = automatic
  /\ joining = 0
  /\ disconnected = 0
-----------------------------------------------------------------------------
(* The ingest thread.                                                      *)

Stopping == main # "serving"

Enter ==
  /\ thread = "batches" /\ gen = "fresh" /\ ~Stopping
  /\ gen' = "calling"
  /\ state' = IF transport = "flight" THEN "reconnecting" ELSE state
  /\ UNCHANGED <<loopVars, transport, server, clockVars, disconnected>>

(* do_get returns a stream; or the Solace receiver is subscribed, which    *)
(* says nothing of the link.                                               *)
Connect ==
  /\ thread = "batches" /\ gen = "calling" /\ ~Stopping
  /\ gen' = "waiting"
  /\ \/ /\ transport = "flight" /\ server
        /\ state' = "connected"
        /\ disconnected' = 0
     \/ /\ transport = "solace"
        /\ UNCHANGED <<state, disconnected>>
  /\ UNCHANGED <<loopVars, transport, server, clockVars>>

(* What Solace has queued is read although the link is down, and before    *)
(* the sentinel of close().                                                *)
Receive ==
  /\ gen = "waiting"
  /\ transport = "flight" => server /\ ~Stopping
  /\ BatchArrives
  /\ UNCHANGED timeVars

Store == IngestReturns /\ UNCHANGED timeVars

(* delay plus a jitter of less than a quarter of it, rounded down.         *)
Sleeps == delay..((5 * delay - 1) \div 4)

(* A call may raise at any time, and close() makes it raise.  A stream is  *)
(* lost.  A Solace generator that is entered after close() finds no        *)
(* service (AttributeError).                                               *)
Raises ==
  \/ gen = "calling"
  \/ gen = "waiting" /\ transport = "flight" /\ ~Stopping
  \/ gen = "fresh" /\ transport = "solace" /\ Stopping

Fail ==
  /\ Raises
  /\ BatchesRaise
  /\ state' = IF gen = "waiting" THEN "reconnecting" ELSE state
  /\ gen' = "fresh"
  /\ sleeping' \in (IF thread' = "backoff" THEN Sleeps ELSE {0})
  /\ UNCHANGED <<transport, server, polling, since, watching, joining, disconnected>>

Request == GiveUp /\ UNCHANGED timeVars

WakeUp ==
  /\ sleeping = 0
  /\ BackoffEnds
  /\ UNCHANGED timeVars

(* After close() the generator returns: Flight sees _closing when it is    *)
(* entered or its stream is cancelled, Solace reads the sentinel.          *)
Leave ==
  /\ Stopping
  /\ gen \in {"calling", "waiting"} \/ transport = "flight"
  /\ BatchesReturn
  /\ gen' = "fresh"
  /\ UNCHANGED <<transport, server, state, clockVars, disconnected>>

ServerGoesUpOrDown ==
  /\ transport = "flight"
  /\ server' = ~server
  /\ UNCHANGED <<loopVars, transport, state, gen, clockVars, disconnected>>

LinkGoesUpOrDown ==
  /\ transport = "solace"
  /\ server' = ~server
  /\ state' = IF Stopping THEN state
              ELSE IF server' THEN "connected" ELSE "reconnecting"
  /\ disconnected' = IF state' = "connected" THEN 0 ELSE disconnected
  /\ UNCHANGED <<loopVars, transport, gen, clockVars>>
-----------------------------------------------------------------------------
(* The watchdog looks at the state once in a poll.                         *)

WatchdogDue == watching /\ polling = 0

WatchdogSeesConnected ==
  /\ WatchdogDue /\ state = "connected"
  /\ since' = NotDisconnected
  /\ polling' = Poll
  /\ UNCHANGED <<loopVars, transport, server, state, gen, sleeping, watching,
                 joining, disconnected>>

(* Mutation: each poll starts the measurement over.                        *)
WatchdogRestarts ==
  /\ WatchdogDue /\ state # "connected"
  /\ since < Threshold
  /\ since' = 0
  /\ polling' = Poll
  /\ UNCHANGED <<loopVars, transport, server, state, gen, sleeping, watching,
                 joining, disconnected>>

WatchdogSeesDisconnected ==
  /\ WatchdogDue /\ state # "connected"
  /\ since < Threshold
  /\ since' = IF since = NotDisconnected THEN 0 ELSE since
  /\ polling' = Poll
  /\ UNCHANGED <<loopVars, transport, server, state, gen, sleeping, watching,
                 joining, disconnected>>

WatchdogFires ==
  /\ WatchdogDue /\ state # "connected"
  /\ since >= Threshold
  /\ requested' = TRUE
  /\ watching' = FALSE
  /\ UNCHANGED <<thread, consecutive_failures, delay, main, automatic>>
  /\ UNCHANGED <<transport, server, state, gen, sleeping, polling, since,
                 joining, disconnected>>
-----------------------------------------------------------------------------
(* __aexit__: the watchdog is cancelled, the consumer closed, the thread   *)
(* joined.                                                                 *)
Stop ==
  /\ main = "serving"
  /\ main' = "joining"
  /\ watching' = FALSE
  /\ state' = "down"
  /\ UNCHANGED <<thread, consecutive_failures, delay, requested, automatic>>
  /\ UNCHANGED <<transport, server, gen, sleeping, polling, since, joining,
                 disconnected>>

JoinEnds ==
  /\ thread = "ended" \/ joining = JoinTimeout
  /\ main = "joining"
  /\ main' = "stopped"
  /\ UNCHANGED <<thread, consecutive_failures, delay, requested, automatic,
                 timeVars>>
-----------------------------------------------------------------------------
(* A second passes when nobody has anything to do at this instant.         *)
Busy ==
  \/ thread \in {"ingesting", "gives_up"}
  \/ thread = "batches" /\ (gen \in {"fresh", "calling"} \/ Stopping)
  \/ thread = "backoff" /\ sleeping = 0
  \/ WatchdogDue
  \/ main = "joining" /\ (thread = "ended" \/ joining = JoinTimeout)

Later(timer) == IF timer > 0 THEN timer - 1 ELSE 0

Tick ==
  /\ ~Busy
  /\ sleeping' = Later(sleeping)
  /\ polling' = IF watching THEN Later(polling) ELSE polling
  /\ since' = IF since = NotDisconnected \/ ~watching THEN since
              ELSE Smaller(since + 1, Threshold)
  /\ joining' = IF main = "joining" THEN joining + 1 ELSE joining
  /\ disconnected' = IF state = "connected" THEN 0
                     ELSE Smaller(disconnected + 1, LongEnough)
  /\ UNCHANGED <<loopVars, transport, server, state, gen, watching>>

Next ==
  \/ Enter \/ Connect \/ Receive \/ Store \/ Fail \/ Request \/ WakeUp \/ Leave
  \/ ServerGoesUpOrDown \/ LinkGoesUpOrDown
  \/ WatchdogSeesConnected \/ WatchdogSeesDisconnected \/ WatchdogFires
  \/ Stop \/ JoinEnds \/ Tick

Spec == Init /\ [][Next]_vars
-----------------------------------------------------------------------------
TypeOK ==
  /\ LoopTypeOK
  /\ transport \in {"flight", "solace"}
  /\ server \in BOOLEAN
  /\ state \in {"connected", "reconnecting", "down"}
  /\ gen \in {"fresh", "calling", "waiting"}
  /\ sleeping \in 0..(2 * MaxDelay)
  /\ polling \in 0..Poll
  /\ since \in NotDisconnected..Threshold
  /\ watching \in BOOLEAN
  /\ joining \in 0..JoinTimeout
  /\ disconnected \in 0..LongEnough

(* The watchdog is in time: a transport that stays disconnected for the    *)
(* threshold and two polls has led to a request for shutdown, whatever the *)
(* phase of the polls.                                                     *)
WatchdogIsInTime ==
  automatic /\ ~requested /\ ~Stopping => disconnected < LongEnough

(* Under Flight _JOIN_TIMEOUT outlasts every backoff the loop can be in    *)
(* when it is stopped and the one that the aborted call adds, so a service *)
(* that shuts down on failures does not abandon its thread in a backoff:   *)
(* it is the limit of failures that keeps the backoff short.               *)
JoinOutlastsBackoff ==
  automatic /\ transport = "flight" /\ main = "stopped" => thread = "ended"

(* Under Solace it does not: a thread that is stopped in a backoff fails   *)
(* until the limit is reached, and is abandoned meanwhile.                 *)
JoinOutlastsRetries ==
  automatic /\ main = "stopped" => thread = "ended"

(* "ingest_max_disconnect_seconds=None disables all automatic shutdown"    *)
(* (stream_ingest.py:79-80).                                               *)
DisabledNeverRequests == ~automatic => ~requested

(* "if connection_state() has been non-CONNECTED continuously longer than  *)
(* the threshold" (observability design, line 141): the watchdog does not  *)
(* ask for a shutdown sooner.                                              *)
WatchdogFiresOnlyWhenContinuous ==
  [][WatchdogFires => disconnected >= Threshold]_vars

(* "The 60s default gives auto-reconnect a full minute to recover before   *)
(* the pod shuts down" (same line): under Flight, where the loop itself    *)
(* reconnects, nobody asks a running service for a shutdown sooner.        *)
AutoReconnectHasTheThreshold ==
  [][requested' /\ ~requested /\ ~Stopping /\ transport = "flight" =>
       disconnected >= Threshold]_vars
=============================================================================
