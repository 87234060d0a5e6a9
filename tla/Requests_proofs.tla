-------------------------- MODULE Requests_proofs --------------------------
(***************************************************************************)
(* Theorems about Lifespan and Requests, for any set of requests, any size *)
(* of the pools and any number of attempts.  Fairness is not needed.       *)
(***************************************************************************)
EXTENDS Requests, TLAPS

(* The lifespan by itself.                                                 *)

OnStack(context) == \E i \in DOMAIN stack : stack[i] = context

(* What startup has opened and registered before each of its steps.        *)
Opened ==
  /\ step # "postgres" => "postgres" \in open
  /\ step \notin {"postgres", "schema", "redis"} => "redis" \in open
  /\ step \notin {"postgres", "schema", "redis", "clickhouse"} =>
       "clickhouse" \in open
  /\ step \in {"ingest", "mcp", "yield"} => "consumer" \in open

Registered ==
  /\ "ConfigService" \in registered <=> step \notin {"postgres", "schema"}
  /\ "CacheService" \in registered <=> step \notin {"postgres", "schema", "redis"}
  /\ "DataService" \in registered <=>
       step \in {"consumer", "ingest", "mcp", "yield"}
  /\ "StreamIngestService" \in registered <=> step \in {"mcp", "yield"}
  /\ registered \subseteq Services

StepIsKnown ==
  step \in {"postgres", "schema", "redis", "clickhouse", "ping", "consumer",
            "ingest", "mcp", "yield"}

(* Until the server has stopped, startup is a prefix of its steps; later   *)
(* no request is left.                                                     *)
StartupInv ==
  /\ StepIsKnown
  /\ phase \in {"starting", "serving"} => Opened /\ Registered
  /\ phase = "serving" => step = "yield"
  /\ \A r \in Requests :
       request[r] # "none" => phase = "serving" /\ request[r] \in registered
-----------------------------------------------------------------------------
LEMMA InitStartup == Init => StartupInv
BY DEF Init, StartupInv, StepIsKnown, Opened, Registered, Services

LEMMA NextStartup == StartupInv /\ [Next]_vars => StartupInv'
<1> SUFFICES ASSUME StartupInv, [Next]_vars PROVE StartupInv'
  OBVIOUS
<1> USE DEF StartupInv, StepIsKnown
<1>1. CASE PostgresEnters
  BY <1>1 DEF PostgresEnters, At, Goto, Enter, Opened, Registered
<1>2. CASE SchemaRuns
  BY <1>2 DEF SchemaRuns, At, Goto, resources, Opened, Registered, Services
<1>3. CASE RedisEnters
  BY <1>3 DEF RedisEnters, At, Goto, Enter, Opened, Registered, Services
<1>4. CASE ClickHouseEnters
  BY <1>4 DEF ClickHouseEnters, At, Goto, Enter, Opened, Registered
<1>5. CASE PingSucceeds
  BY <1>5 DEF PingSucceeds, At, Goto, resources, Opened, Registered, Services
<1>6. CASE ConsumerEnters
  BY <1>6 DEF ConsumerEnters, At, Goto, Enter, Opened, Registered
<1>7. CASE IngestEnters
  BY <1>7 DEF IngestEnters, At, Goto, Enter, Opened, Registered, Services
<1>8. CASE McpEnters
  BY <1>8 DEF McpEnters, At, Goto, Enter, Opened, Registered
<1>9. CASE ConnectRetries \/ StartupRaises \/ Yield
  BY <1>9 DEF ConnectRetries, StartupRaises, Yield, At, resources, Opened, Registered
<1>10. CASE Unwinding
  BY <1>10 DEF Unwinding, Closes, CloseRaises, IngestCloses, IngestCloseRaises,
               Joins, Exit, Unwinds, resources
<1>11. CASE Signal \/ ThreadGivesUp \/ ThreadEnds
  BY <1>11 DEF Signal, ThreadGivesUp, ThreadEnds, resources, Opened, Registered
<1>12. CASE ServerStops
  BY <1>12 DEF ServerStops, resources
<1>13. CASE UNCHANGED vars
  BY <1>13 DEF vars, resources, Opened, Registered
<1>14. ASSUME NEW r \in Requests, NEW service \in Services, RequestResolves(r, service)
       PROVE  StartupInv'
  BY <1>14 DEF RequestResolves, resources, Opened, Registered
<1>15. ASSUME NEW r \in Requests, RequestEnds(r)
       PROVE  StartupInv'
  BY <1>15 DEF RequestEnds, resources, Opened, Registered
<1> QED
  BY <1>1, <1>2, <1>3, <1>4, <1>5, <1>6, <1>7, <1>8, <1>9, <1>10, <1>11, <1>12,
     <1>13, <1>14, <1>15 DEF Next, Startup

(* A request finds every service and never works with a connection that is *)
(* not open: the container follows the exit stack, and the server waits    *)
(* for its requests before it lets the stack go.                           *)
THEOREM RequestsAreServed == Spec => []RequestsFindConnections
<1>1. StartupInv => RequestsFindConnections
  BY DEF StartupInv, Opened, Registered, RequestsFindConnections, Services, Connection
<1> QED BY <1>1, InitStartup, NextStartup, PTL DEF Spec
-----------------------------------------------------------------------------
(* The exit stack: what is open and has not failed to close is on it, and  *)
(* so is the ingest service as long as its thread runs unattended.         *)
StackInv ==
  /\ stack \in Seq(Connections)
  /\ \A context \in open : context \in stuck \/ OnStack(context)
  /\ thread = "running" => "ingest" \in stuck \/ OnStack("ingest")
  /\ phase = "joining" => /\ stack # <<>> /\ Head(stack) = "ingest"
                          /\ "ingest" \notin open
  /\ phase = "exited" => stack = <<>>

(* What is pushed is on the stack, and what was on it stays there.         *)
LEMMA Pushed ==
  ASSUME NEW context \in Connections, stack \in Seq(Connections),
         stack' = <<context>> \o stack
  PROVE  /\ stack' \in Seq(Connections)
         /\ OnStack(context)'
         /\ \A other : OnStack(other) => OnStack(other)'
<1>1. stack' \in Seq(Connections) /\ Len(stack') = Len(stack) + 1
  OBVIOUS
<1>2. stack'[1] = context /\ 1 \in DOMAIN stack'
  BY <1>1
<1>3. ASSUME NEW i \in DOMAIN stack
      PROVE  i + 1 \in DOMAIN stack' /\ stack'[i + 1] = stack[i]
  OBVIOUS
<1> QED BY <1>1, <1>2, <1>3 DEF OnStack

(* Popping removes nothing but the head.                                   *)
LEMMA Popped ==
  ASSUME stack \in Seq(Connections), stack # <<>>, stack' = Tail(stack)
  PROVE  /\ stack' \in Seq(Connections)
         /\ \A other : OnStack(other) /\ other # Head(stack) => OnStack(other)'
<1>1. stack' \in Seq(Connections) /\ Len(stack') = Len(stack) - 1
  OBVIOUS
<1>2. ASSUME NEW i \in DOMAIN stack, i # 1
      PROVE  i - 1 \in DOMAIN stack' /\ stack'[i - 1] = stack[i]
  BY <1>1, <1>2
<1>3. Head(stack) = stack[1]
  OBVIOUS
<1> QED BY <1>1, <1>2, <1>3 DEF OnStack

LEMMA InitStack == Init => StackInv
BY DEF Init, StackInv

LEMMA NextStack == StackInv /\ [Next]_vars => StackInv'
<1> SUFFICES ASSUME StackInv, [Next]_vars PROVE StackInv'
  OBVIOUS
<1>1. ASSUME NEW context \in Connections, Enter(context), phase = "starting",
             thread' = thread \/ context = "ingest"
      PROVE  StackInv'
  BY <1>1, Pushed DEF Enter, StackInv
<1>2. CASE Startup
  <2>1. CASE PostgresEnters
    BY <1>1, <2>1 DEF PostgresEnters, At, Connections, Clients
  <2>2. CASE RedisEnters
    BY <1>1, <2>2 DEF RedisEnters, At, Connections, Clients
  <2>3. CASE ClickHouseEnters
    BY <1>1, <2>3 DEF ClickHouseEnters, At, Connections, Clients
  <2>4. CASE ConsumerEnters
    BY <1>1, <2>4 DEF ConsumerEnters, At, Connections, Clients
  <2>5. CASE IngestEnters
    BY <1>1, <2>5 DEF IngestEnters, At, Connections, Clients
  <2>6. CASE McpEnters
    BY <1>1, <2>6 DEF McpEnters, At, Connections, Clients
  <2>7. CASE SchemaRuns \/ PingSucceeds \/ ConnectRetries \/ StartupRaises \/ Yield
    BY <2>7 DEF SchemaRuns, PingSucceeds, ConnectRetries, StartupRaises, Yield, At,
                resources, StackInv, OnStack
  <2> QED
    BY <1>2, <2>1, <2>2, <2>3, <2>4, <2>5, <2>6, <2>7 DEF Startup
<1>3. ASSUME NEW client \in Clients, Closes(client) PROVE StackInv'
  BY <1>3, Popped DEF Closes, Unwinds, StackInv, Clients
<1>4. ASSUME NEW client \in Clients, CloseRaises(client) PROVE StackInv'
  BY <1>4, Popped DEF CloseRaises, Unwinds, StackInv, Clients
<1>5. CASE IngestCloses
  BY <1>5 DEF IngestCloses, Unwinds, StackInv, OnStack
<1>6. CASE IngestCloseRaises
  BY <1>6, Popped DEF IngestCloseRaises, Unwinds, StackInv
<1>7. CASE Joins
  BY <1>7, Popped DEF Joins, StackInv
<1>8. CASE Exit
  BY <1>8 DEF Exit, resources, StackInv, OnStack
<1>9. CASE Signal \/ ThreadGivesUp \/ ThreadEnds \/ ServerStops
  BY <1>9 DEF Signal, ThreadGivesUp, ThreadEnds, ServerStops, resources, StackInv,
              OnStack
<1>10. ASSUME NEW r \in Requests,
              RequestEnds(r) \/ \E service \in Services : RequestResolves(r, service)
       PROVE  StackInv'
  BY <1>10 DEF RequestEnds, RequestResolves, resources, StackInv, OnStack
<1>11. CASE UNCHANGED vars
  BY <1>11 DEF vars, resources, StackInv, OnStack
<1> QED
  BY <1>2, <1>3, <1>4, <1>5, <1>6, <1>7, <1>8, <1>9, <1>10, <1>11
  DEF Next, Unwinding

(* Whatever step of startup raises, and whichever connections raise when   *)
(* they are closed, all the others are closed when the lifespan has ended, *)
(* and the ingest thread has been joined unless closing its consumer       *)
(* raised.                                                                 *)
THEOREM EverythingIsClosed == Spec => []OpenedIsClosed
<1>1. StackInv => OpenedIsClosed
  BY DEF StackInv, OnStack, OpenedIsClosed
<1> QED BY <1>1, InitStack, NextStack, PTL DEF Spec
-----------------------------------------------------------------------------
(* The requests of a running service.                                      *)

(* Requests adds to the steps of Lifespan only what the requests do.       *)
LEMMA InitWork == WorkInit => Init
BY DEF WorkInit

LEMMA RequestStep ==
  ASSUME NEW r \in Requests,
         Acquires(r) \/ StatementReturns(r) \/ StatementRaises(r) \/ TimesOut(r)
  PROVE  RequestEnds(r) \/ UNCHANGED vars
BY DEF Acquires, StatementReturns, ConfigReturns, ProbeReturns, CacheSets, CacheGets,
       DataGets, StreamReturns, StatementRaises, TimesOut, Finishes, GoesToSecond, Answers

LEMMA NextWork == [WorkNext]_allVars => [Next]_vars
<1> SUFFICES ASSUME [WorkNext]_allVars PROVE [Next]_vars
  OBVIOUS
<1>1. CASE StartsUp \/ ShutsDown \/ StopsServing
  BY <1>1 DEF StartsUp, Startup, ShutsDown, StopsServing, Next
<1>2. CASE Signal \/ ThreadGivesUp \/ ThreadEnds
  BY <1>2 DEF Next
<1>3. ASSUME NEW r \in Requests, NEW kind \in Routes, Arrives(r, kind)
      PROVE  Next
  <2>1. Service(kind) \in Services
    BY DEF Routes, Service, Services
  <2> QED BY <1>3, <2>1 DEF Arrives, Next
<1>4. CASE RequestGoesOn
  BY <1>4, RequestStep DEF RequestGoesOn, Next
<1>5. ASSUME NEW r \in Requests, StatementRaises(r) PROVE [Next]_vars
  BY <1>5, RequestStep DEF Next
<1>6. ASSUME NEW peer \in Peers, Hangs(peer) PROVE UNCHANGED vars
  BY <1>6 DEF Hangs
<1>7. CASE UNCHANGED allVars
  BY <1>7 DEF allVars
<1> QED BY <1>1, <1>2, <1>3, <1>4, <1>5, <1>6, <1>7 DEF WorkNext

(* Whatever the requests do is a behaviour of Lifespan, so that what is    *)
(* proved there of connections and services holds while requests work.     *)
THEOREM WorkImplementsLifespan == WorkSpec => Spec
BY InitWork, NextWork, PTL DEF WorkSpec, Spec
-----------------------------------------------------------------------------
(* A request that holds a connection is underway, and one that is underway *)
(* works with a service.                                                   *)
LeaseInv ==
  /\ at \in [Requests -> {"none", "waiting", "first", "second", "answered"}]
  /\ request \in [Requests -> Services \cup {"none"}]
  /\ \A r \in Requests : Underway(r) <=> request[r] # "none"
  /\ leased \in [Pools -> SUBSET Requests]
  /\ \A p \in Pools : \A r \in leased[p] : Underway(r)

LEMMA ServicesAreNamed == "none" \notin Services
BY DEF Services

LEMMA InitLease == WorkInit => LeaseInv
BY DEF WorkInit, Init, LeaseInv, Underway, Pools

LEMMA AnswerKeepsLease ==
  ASSUME LeaseInv, NEW r \in Requests, Underway(r), Finishes(r)
  PROVE  LeaseInv'
<1>1. \A q \in Requests : q # r => at'[q] = at[q] /\ request'[q] = request[q]
  BY DEF Finishes, Answers, RequestEnds, Moves, LeaseInv
<1>2. at'[r] = "answered" /\ request'[r] = "none"
  BY DEF Finishes, Answers, RequestEnds, Moves, LeaseInv
<1>3. \A p \in Pools : leased'[p] = leased[p] \ {r}
  BY DEF Finishes, Releases
<1>4. /\ at' \in [Requests -> {"none", "waiting", "first", "second", "answered"}]
      /\ request' \in [Requests -> Services \cup {"none"}]
      /\ leased' \in [Pools -> SUBSET Requests]
  BY DEF Finishes, Answers, RequestEnds, Moves, Releases, LeaseInv
<1>5. \A q \in Requests : Underway(q)' <=> request'[q] # "none"
  BY <1>1, <1>2 DEF LeaseInv, Underway
<1>6. \A p \in Pools : \A q \in leased'[p] : Underway(q)'
  BY <1>1, <1>3 DEF LeaseInv, Underway
<1> QED BY <1>4, <1>5, <1>6 DEF LeaseInv

LEMMA NextLease == LeaseInv /\ [WorkNext]_allVars => LeaseInv'
<1> SUFFICES ASSUME LeaseInv, [WorkNext]_allVars PROVE LeaseInv'
  OBVIOUS
<1>1. ASSUME UNCHANGED <<at, request, leased>> PROVE LeaseInv'
  BY <1>1 DEF LeaseInv, Underway
<1>2. CASE StartsUp
  BY <1>1, <1>2
     DEF StartsUp, workVars, Startup, PostgresEnters, SchemaRuns, RedisEnters,
         ClickHouseEnters, PingSucceeds, ConsumerEnters, IngestEnters, McpEnters,
         ConnectRetries, StartupRaises, Yield, Enter
<1>3. CASE ShutsDown
  BY <1>1, <1>3
     DEF ShutsDown, workVars, Unwinding, Closes, CloseRaises, IngestCloses,
         IngestCloseRaises, Joins, Exit
<1>4. CASE StopsServing
  BY <1>1, <1>4 DEF StopsServing, workVars, ServerStops
<1>5. CASE (Signal \/ ThreadGivesUp \/ ThreadEnds) /\ UNCHANGED workVars
  BY <1>1, <1>5 DEF workVars, Signal, ThreadGivesUp, ThreadEnds
<1>6. ASSUME NEW r \in Requests, NEW kind \in Routes, Arrives(r, kind)
      PROVE  LeaseInv'
  <2>1. Service(kind) \in Services
    BY DEF Routes, Service, Services
  <2>2. /\ at' = [at EXCEPT ![r] = IF Pool(kind) = "none" THEN "first" ELSE "waiting"]
        /\ request' = [request EXCEPT ![r] = Service(kind)]
        /\ leased' = leased
    BY <1>6 DEF Arrives, RequestResolves, Moves
  <2>3. ~Underway(r)
    BY <1>6 DEF Arrives, Underway
  <2> QED BY <2>1, <2>2, <2>3, ServicesAreNamed DEF LeaseInv, Underway
<1>7. ASSUME NEW r \in Requests, Acquires(r) PROVE LeaseInv'
  BY <1>7 DEF Acquires, Moves, vars, LeaseInv, Underway
<1>8. ASSUME NEW r \in Requests, StatementReturns(r) PROVE LeaseInv'
  <2> USE DEF StatementReturns, ConfigReturns, ProbeReturns, CacheSets, CacheGets,
              DataGets, StreamReturns
  <2>1. Underway(r)
    BY <1>8 DEF Runs, Underway
  <2>2. CASE GoesToSecond(r)
    BY <2>1, <2>2 DEF GoesToSecond, Moves, vars, LeaseInv, Underway
  <2>3. CASE Finishes(r)
    BY <2>1, <2>3, AnswerKeepsLease
  <2> QED BY <1>8, <2>2, <2>3
<1>9. ASSUME NEW r \in Requests, StatementRaises(r) PROVE LeaseInv'
  BY <1>9, AnswerKeepsLease DEF StatementRaises, Underway
<1>10. ASSUME NEW r \in Requests, TimesOut(r) PROVE LeaseInv'
  BY <1>10, AnswerKeepsLease DEF TimesOut
<1>11. ASSUME NEW peer \in Peers, Hangs(peer) PROVE LeaseInv'
  BY <1>1, <1>11 DEF Hangs, vars
<1>12. CASE UNCHANGED allVars
  BY <1>1, <1>12 DEF allVars, vars, workVars
<1> QED
  BY <1>2, <1>3, <1>4, <1>5, <1>6, <1>7, <1>8, <1>9, <1>10, <1>11, <1>12
  DEF WorkNext, RequestGoesOn

(* When the server has stopped, every connection and every thread has been *)
(* given back: no request is left (StartupInv), and only a request that is *)
(* underway holds something.                                               *)
THEOREM PoolsAreGivenBack == WorkSpec => []PoolsAreIdleAtTheEnd
<1>1. StartupInv /\ LeaseInv => PoolsAreIdleAtTheEnd
  BY DEF StartupInv, LeaseInv, PoolsAreIdleAtTheEnd
<1>2. WorkSpec => []StartupInv
  BY WorkImplementsLifespan, InitStartup, NextStartup, PTL DEF Spec
<1> QED BY <1>1, <1>2, InitLease, NextLease, PTL DEF WorkSpec
-----------------------------------------------------------------------------
(* Types.                                                                  *)

LEMMA InitType == Init => TypeOK
<1>1. 1 \in 1..MaxAttempts
  BY AttemptsArePositive
<1>2. <<>> \in Seq(Connections)
  OBVIOUS
<1> QED BY <1>1, <1>2 DEF Init, TypeOK, Connections, Clients

LEMMA NextType == TypeOK /\ StackInv' /\ [Next]_vars => TypeOK'
<1> SUFFICES ASSUME TypeOK, StackInv', [Next]_vars PROVE TypeOK'
  OBVIOUS
<1>1. stack' \in Seq(Connections)
  BY DEF StackInv
<1>2. attempt' \in 1..MaxAttempts
  BY AttemptsArePositive
     DEF TypeOK, Next, Startup, Unwinding, PostgresEnters, SchemaRuns, RedisEnters,
         ClickHouseEnters, PingSucceeds, ConsumerEnters, IngestEnters, McpEnters, Goto,
         ConnectRetries, StartupRaises, Yield, Closes, CloseRaises, IngestCloses,
         IngestCloseRaises, Joins, Exit, Signal, ThreadGivesUp, ThreadEnds, ServerStops,
         RequestResolves, RequestEnds, vars
<1> USE DEF TypeOK
<1>3. CASE Startup
  BY <1>1, <1>2, <1>3
     DEF Startup, PostgresEnters, SchemaRuns, RedisEnters, ClickHouseEnters,
         PingSucceeds, ConsumerEnters, IngestEnters, McpEnters, Enter, Goto, At,
         ConnectRetries, StartupRaises, Yield, resources, Connections, Clients, Services
<1>4. CASE Unwinding
  BY <1>1, <1>2, <1>4
     DEF Unwinding, Closes, CloseRaises, IngestCloses, IngestCloseRaises, Joins, Exit,
         resources, Connections
<1>5. CASE Signal \/ ThreadGivesUp \/ ThreadEnds \/ ServerStops
  BY <1>1, <1>2, <1>5 DEF Signal, ThreadGivesUp, ThreadEnds, ServerStops, resources
<1>6. ASSUME NEW r \in Requests, NEW service \in Services, RequestResolves(r, service)
      PROVE  TypeOK'
  BY <1>1, <1>2, <1>6 DEF RequestResolves, resources
<1>7. ASSUME NEW r \in Requests, RequestEnds(r) PROVE TypeOK'
  BY <1>1, <1>2, <1>7 DEF RequestEnds, resources
<1>8. CASE UNCHANGED vars
  BY <1>1, <1>2, <1>8 DEF vars, resources
<1> QED BY <1>3, <1>4, <1>5, <1>6, <1>7, <1>8 DEF Next

(* What a request asks for and what hangs.                                 *)
AskedInv ==
  /\ route \in [Requests -> Routes \cup {"none"}]
  /\ hung \subseteq Peers

LEMMA InitAsked == WorkInit => AskedInv
BY DEF WorkInit, AskedInv, Peers

LEMMA NextAsked == AskedInv /\ [WorkNext]_allVars => AskedInv'
<1> SUFFICES ASSUME AskedInv, [WorkNext]_allVars PROVE AskedInv'
  OBVIOUS
<1> USE DEF AskedInv
<1>1. ASSUME NEW r \in Requests,
             Acquires(r) \/ StatementReturns(r) \/ StatementRaises(r) \/ TimesOut(r)
      PROVE  AskedInv'
  BY <1>1
     DEF Acquires, StatementReturns, ConfigReturns, ProbeReturns, CacheSets, CacheGets,
         DataGets, StreamReturns, StatementRaises, TimesOut, Finishes, GoesToSecond,
         Answers
<1> QED
  BY <1>1 DEF WorkNext, StartsUp, ShutsDown, StopsServing, workVars, allVars, Arrives,
              RequestGoesOn, Hangs

(* The lifespan, the requests and the pools keep their types, with as many *)
(* attempts as were configured at most.                                    *)
THEOREM WorkTypeCorrect == WorkSpec => []WorkTypeOK
<1>1. WorkSpec => []TypeOK
  BY WorkImplementsLifespan, InitStack, NextStack, InitType, NextType, PTL DEF Spec
<1>2. TypeOK /\ LeaseInv /\ AskedInv => WorkTypeOK
  BY DEF LeaseInv, AskedInv, WorkTypeOK
<1> QED
  BY <1>1, <1>2, InitLease, NextLease, InitAsked, NextAsked, PTL DEF WorkSpec
=============================================================================
