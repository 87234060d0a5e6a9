--------------------------- MODULE HealthService ---------------------------
(***************************************************************************)
(* The aggregation of HealthService (services/health.py) behind GET        *)
(* /health/ready, GET /health/status and GET /metrics: the dependencies    *)
(* are probed concurrently, each under a timeout, then the state of the    *)
(* ingest transport is read, and the request is answered.  Time passes in  *)
(* ticks; the event loop runs whatever is due before the next tick.  What  *)
(* the dependencies and the transport do is external.                      *)
(***************************************************************************)
EXTENDS Integers, FiniteSets

CONSTANTS
  Deps,        \* the dependencies that are probed
  Requests,    \* requests under way to the three routes
  Timeout,     \* health_check_timeout_seconds, in ticks
  StaleFails   \* ingest_stale_fails_readiness

ASSUME TimeoutIsPositive == Timeout \in Nat \ {0}
ASSUME StaleFailsIsASwitch == StaleFails \in BOOLEAN
ASSUME DepsAreFinite == IsFiniteSet(Deps)

VARIABLES
  registered,  \* services in the container: of Deps, and "ingest"
  reachable,   \* what becomes of a ping of each dependency: up, down or hangs
  transport,   \* connection_state() of the consumer
  idle,        \* no batch for longer than ingest_staleness_threshold_seconds
  results,     \* the probes of each request: pending, up or down
  waited,      \* ticks since each request began, or NotOpen
  seen,        \* the ingest health each request has read, or Unread
  ready,       \* the last answer of /health/ready to each request
  gauges,      \* the gauges of the registry
  downFor,     \* history: ticks since each dependency was up
  cutFor       \* history: ticks since the transport was connected

world == <<reachable, transport, idle>>
request == <<results, waited, seen>>
history == <<downFor, cutFor>>
vars == <<registered, world, request, ready, gauges, history>>

States == {"connected", "reconnecting", "down"}
NotOpen == -1
Open(r) == waited[r] # NotOpen
Unread == [state |-> "unread", stale |-> FALSE]
NoResults == [d \in Deps |-> "down"]

(* The registry of an app is its own; a labelled gauge has no sample       *)
(* before the first scrape, which is written 0 here.                       *)
NoGauges == [dependency |-> [d \in Deps |-> 0], state |-> [s \in States |-> 0]]

Init ==
  /\ registered = {}
  /\ reachable = [d \in Deps |-> "up"]
  /\ transport = "down"
  /\ idle = FALSE
  /\ results = [r \in Requests |-> NoResults]
  /\ waited = [r \in Requests |-> NotOpen]
  /\ seen = [r \in Requests |-> Unread]
  /\ ready = [r \in Requests |-> FALSE]
  /\ gauges = NoGauges
  /\ downFor = [d \in Deps |-> 0]
  /\ cutFor = 0
-----------------------------------------------------------------------------
(* The surroundings.                                                       *)

(* Startup registers the services; readiness may be asked for before.      *)
Register(service) ==
  /\ service \notin registered
  /\ registered' = registered \cup {service}
  /\ UNCHANGED <<world, request, ready, gauges, history>>

DependencyChanges(d) ==
  /\ \E condition \in {"up", "down", "hangs"} \ {reachable[d]} :
       reachable' = [reachable EXCEPT ![d] = condition]
  /\ downFor' = [downFor EXCEPT ![d] =
                   IF "up" \in {reachable[d], reachable'[d]} THEN 0 ELSE @]
  /\ UNCHANGED <<registered, transport, idle, request, ready, gauges, cutFor>>

TransportChanges ==
  /\ \E state \in States \ {transport} : transport' = state
  /\ cutFor' = IF "connected" \in {transport, transport'} THEN 0 ELSE cutFor
  /\ UNCHANGED <<registered, reachable, idle, request, ready, gauges, downFor>>

(* A batch arrives, or none has for too long.                              *)
FreshnessChanges ==
  /\ idle' = ~idle
  /\ UNCHANGED <<registered, reachable, transport, request, ready, gauges, history>>
-----------------------------------------------------------------------------
(* A request.  All three routes gather the probes and then read the ingest *)
(* state; they differ in what they make of it.                             *)

(* gather starts all the probes; a service that is not registered is down. *)
Begin(r) ==
  /\ ~Open(r)
  /\ waited' = [waited EXCEPT ![r] = 0]
  /\ results' = [results EXCEPT ![r] =
       [d \in Deps |-> IF d \in registered THEN "pending" ELSE "down"]]
  /\ UNCHANGED <<registered, world, seen, ready, gauges, history>>

(* The locals of a request that is answered are gone.                      *)
End(r) ==
  /\ waited' = [waited EXCEPT ![r] = NotOpen]
  /\ results' = [results EXCEPT ![r] = NoResults]
  /\ seen' = [seen EXCEPT ![r] = Unread]

(* Mutation: the timeout must be exceeded.                                 *)
DeadlinePast(r) == Timeout + 1

(* All probes began with the request.                                      *)
Deadline(r) == Timeout

(* Mutation: a ping that raises is not noticed.                            *)
PingAlwaysUp(d) == "up"

(* The ping returns or raises: health_check turns either into a result.    *)
Pinged(d) == reachable[d]

PingEnds(r, d) ==
  /\ Open(r) /\ results[r][d] = "pending"
  /\ reachable[d] # "hangs"
  /\ results' = [results EXCEPT ![r][d] = Pinged(d)]
  /\ UNCHANGED <<registered, world, waited, seen, ready, gauges, history>>

(* wait_for cancels the ping.                                              *)
TimesOut(r, d) ==
  /\ Open(r) /\ results[r][d] = "pending"
  /\ waited[r] >= Deadline(r)
  /\ results' = [results EXCEPT ![r][d] = "down"]
  /\ UNCHANGED <<registered, world, waited, seen, ready, gauges, history>>

IngestHealth ==
  IF "ingest" \in registered THEN [state |-> transport, stale |-> idle]
                             ELSE [state |-> "down", stale |-> FALSE]

(* Mutation: the state is read while the probes are under way.             *)
ReadIngestEarly(r) ==
  /\ Open(r) /\ seen[r] = Unread
  /\ seen' = [seen EXCEPT ![r] = IngestHealth]
  /\ UNCHANGED <<registered, world, results, waited, ready, gauges, history>>

Gathered(r) == \A d \in Deps : results[r][d] # "pending"

ReadIngest(r) ==
  /\ Open(r) /\ seen[r] = Unread
  /\ Gathered(r)
  /\ seen' = [seen EXCEPT ![r] = IngestHealth]
  /\ UNCHANGED <<registered, world, results, waited, ready, gauges, history>>

IngestUp(health) == health.state = "connected" /\ ~(health.stale /\ StaleFails)

AnswerReadiness(r) ==
  /\ Open(r) /\ seen[r] # Unread /\ Gathered(r)
  /\ ready' = [ready EXCEPT ![r] = /\ IngestUp(seen[r])
                                   /\ \A d \in Deps : results[r][d] = "up"]
  /\ End(r)
  /\ UNCHANGED <<registered, world, gauges, history>>

(* Mutation: the gauge of the state is set, those of the others stay.      *)
StateSetGrows(state) == [gauges.state EXCEPT ![state] = 1]

StateSet(state) == [s \in States |-> IF s = state THEN 1 ELSE 0]

(* The gauges are set and rendered without an await between.               *)
AnswerScrape(r) ==
  /\ Open(r) /\ seen[r] # Unread /\ Gathered(r)
  /\ gauges' = [dependency |-> [d \in Deps |-> IF results[r][d] = "up" THEN 1 ELSE 0],
                state |-> StateSet(seen[r].state)]
  /\ End(r)
  /\ UNCHANGED <<registered, world, ready, history>>

(* /health/status reports what was gathered and sets nothing.              *)
AnswerStatus(r) ==
  /\ Open(r) /\ seen[r] # Unread /\ Gathered(r)
  /\ End(r)
  /\ UNCHANGED <<registered, world, ready, gauges, history>>
-----------------------------------------------------------------------------
(* A tick passes when nothing is due.                                      *)
Due(r) == Open(r) /\ (Gathered(r) \/ waited[r] >= Deadline(r))

(* Bound: the histories stop counting when they exceed the timeout.        *)
Longer(ticks) == IF ticks > Timeout THEN ticks ELSE ticks + 1

Tick ==
  /\ \A r \in Requests : ~Due(r)
  /\ waited' = [r \in Requests |-> IF Open(r) THEN waited[r] + 1 ELSE NotOpen]
  /\ downFor' = [d \in Deps |-> IF reachable[d] = "up" THEN 0 ELSE Longer(downFor[d])]
  /\ cutFor' = IF transport = "connected" THEN 0 ELSE Longer(cutFor)
  /\ UNCHANGED <<registered, world, results, seen, ready, gauges>>

Next ==
  \/ \E service \in Deps \cup {"ingest"} : Register(service)
  \/ \E d \in Deps : DependencyChanges(d)
  \/ TransportChanges \/ FreshnessChanges
  \/ \E r \in Requests :
       \/ Begin(r) \/ ReadIngest(r)
       \/ AnswerReadiness(r) \/ AnswerScrape(r) \/ AnswerStatus(r)
  \/ \E r \in Requests, d \in Deps : PingEnds(r, d) \/ TimesOut(r, d)
  \/ Tick

Spec == Init /\ [][Next]_vars
-----------------------------------------------------------------------------
TypeOK ==
  /\ registered \subseteq Deps \cup {"ingest"}
  /\ reachable \in [Deps -> {"up", "down", "hangs"}]
  /\ transport \in States
  /\ idle \in BOOLEAN
  /\ results \in [Requests -> [Deps -> {"pending", "up", "down"}]]
  /\ waited \in [Requests -> NotOpen..Timeout]
  /\ seen \in [Requests -> [state : States, stale : BOOLEAN] \cup {Unread}]
  /\ ready \in [Requests -> BOOLEAN]
  /\ gauges \in [dependency : [Deps -> {0, 1}], state : [States -> {0, 1}]]
  /\ downFor \in [Deps -> Nat]
  /\ cutFor \in Nat

SaysReady(r) == AnswerReadiness(r) /\ ready'[r]

(* Ready is never said of a dependency that has been away for longer than  *)
(* one timeout, although its probe was answered before others were.        *)
ReadyMeansUpLately ==
  [][\A r \in Requests : SaysReady(r) =>
       \A d \in Deps : downFor[d] <= Timeout]_vars

(* "RECONNECTING or DOWN -> ingest down -> 503 immediately (no grace       *)
(* period)" (observability design, line 69): an answer that says ready is  *)
(* given in the tick in which the transport was last seen connected,       *)
(* however long the probes took.                                           *)
NoGracePeriod ==
  [][\A r \in Requests : SaysReady(r) => cutFor = 0]_vars

(* "exactly one of connected/reconnecting/down = 1" (observability design, *)
(* line 190), after any number of scrapes of changing states.              *)
OneStateIsActive ==
  LET active == {s \in States : gauges.state[s] = 1}
  IN Cardinality(active) = 1 \/ gauges = NoGauges
=============================================================================
