------------------------------ MODULE Lifespan ------------------------------
(***************************************************************************)
(* The lifespan of the application (main.py, create_lifespan): an exit     *)
(* stack of connections that are opened one by one, each service put into  *)
(* the container when its connection is there, and the stack unwound when  *)
(* startup fails or the server stops.  The web server (which starts the    *)
(* lifespan, lets requests in between and handles SIGTERM) is external, as *)
(* are the databases.                                                      *)
(***************************************************************************)
EXTENDS Integers, Sequences

CONSTANTS
  MaxAttempts,  \* max_attempts of connect_with_backoff
  Requests      \* HTTP requests

ASSUME AttemptsArePositive == MaxAttempts \in Nat \ {0}

VARIABLES
  phase,       \* starting, serving, stopping, joining or exited
  step,        \* the next thing startup does
  attempt,     \* of connect_with_backoff
  stack,       \* the exit stack, what was entered last first
  open,        \* connections that are open
  registered,  \* services in the container
  thread,      \* the ingest thread: none, running, ended or abandoned
  signalled,   \* SIGTERM has been received
  stuck,       \* history: connections whose closing raised
  request      \* what each request works with: a service, or nothing

resources == <<stack, open, stuck>>
vars == <<phase, step, attempt, resources, registered, thread, signalled, request>>

Services == {"ConfigService", "CacheService", "DataService", "StreamIngestService"}

(* The connection a service works with.                                    *)
Connection(service) ==
  CASE service = "ConfigService" -> "postgres"
    [] service = "CacheService" -> "redis"
    [] service = "DataService" -> "clickhouse"
    [] service = "StreamIngestService" -> "consumer"

Init ==
  /\ phase = "starting"
  /\ step = "postgres"
  /\ attempt = 1
  /\ stack = <<>>
  /\ open = {}
  /\ registered = {}
  /\ thread = "none"
  /\ signalled = FALSE
  /\ stuck = {}
  /\ request = [r \in Requests |-> "none"]
-----------------------------------------------------------------------------
(* Startup.                                                                *)

At(s) == phase = "starting" /\ step = s
Goto(s) == step' = s /\ attempt' = 1

Enter(context) ==
  /\ stack' = <<context>> \o stack
  /\ open' = open \cup {context}
  /\ UNCHANGED <<phase, stuck, signalled, request>>

PostgresEnters ==
  /\ At("postgres")
  /\ Enter("postgres")
  /\ Goto("schema")
  /\ UNCHANGED <<registered, thread>>

SchemaRuns ==
  /\ At("schema")
  /\ registered' = registered \cup {"ConfigService"}
  /\ Goto("redis")
  /\ UNCHANGED <<phase, resources, thread, signalled, request>>

RedisEnters ==
  /\ At("redis")
  /\ Enter("redis")
  /\ registered' = registered \cup {"CacheService"}
  /\ Goto("clickhouse")
  /\ UNCHANGED thread

(* Mutation: the client is entered in a block of its own, which ends (and  *)
(* closes it) before the service is registered.                            *)
ClickHouseClosedEarly ==
  /\ At("clickhouse")
  /\ Goto("ping")
  /\ UNCHANGED <<phase, resources, registered, thread, signalled, request>>

ClickHouseEnters ==
  /\ At("clickhouse")
  /\ Enter("clickhouse")
  /\ Goto("ping")
  /\ UNCHANGED <<registered, thread>>

PingSucceeds ==
  /\ At("ping")
  /\ registered' = registered \cup {"DataService"}
  /\ Goto("consumer")
  /\ UNCHANGED <<phase, resources, thread, signalled, request>>

ConsumerEnters ==
  /\ At("consumer")
  /\ Enter("consumer")
  /\ Goto("ingest")
  /\ UNCHANGED <<registered, thread>>

IngestEnters ==
  /\ At("ingest")
  /\ Enter("ingest")
  /\ registered' = registered \cup {"StreamIngestService"}
  /\ thread' = "running"
  /\ Goto("mcp")

McpEnters ==
  /\ At("mcp")
  /\ Enter("mcp")
  /\ Goto("yield")
  /\ UNCHANGED <<registered, thread>>

Retried == step \in {"postgres", "redis"}

(* Mutation: the attempts are counted anew instead of giving up.           *)
RetriesForever ==
  /\ phase = "starting" /\ Retried
  /\ attempt' = IF attempt < MaxAttempts - 1 THEN attempt + 1 ELSE 1
  /\ UNCHANGED <<phase, step, resources, registered, thread, signalled, request>>

(* Mutation: one attempt more than max_attempts.                           *)
RetriesOnceMore ==
  /\ phase = "starting" /\ Retried
  /\ attempt <= MaxAttempts
  /\ attempt' = attempt + 1
  /\ UNCHANGED <<phase, step, resources, registered, thread, signalled, request>>

(* A client of Redis that failed its ping is left to the collector: it is  *)
(* not counted as open here.                                               *)
ConnectRetries ==
  /\ phase = "starting" /\ Retried
  /\ attempt < MaxAttempts
  /\ attempt' = attempt + 1
  /\ UNCHANGED <<phase, step, resources, registered, thread, signalled, request>>

(* The exception leaves the body of the exit stack.                        *)
StartupRaises ==
  /\ phase = "starting" /\ step # "yield"
  /\ Retried => attempt = MaxAttempts
  /\ phase' = "stopping"
  /\ UNCHANGED <<step, attempt, resources, registered, thread, signalled, request>>

Yield ==
  /\ At("yield")
  /\ phase' = "serving"
  /\ UNCHANGED <<step, attempt, resources, registered, thread, signalled, request>>
-----------------------------------------------------------------------------
(* The server, its requests and the end of the ingest thread.              *)

RequestResolves(r, service) ==
  /\ phase = "serving" /\ ~signalled
  /\ request[r] = "none"
  /\ service \in registered
  /\ request' = [request EXCEPT ![r] = service]
  /\ UNCHANGED <<phase, step, attempt, resources, registered, thread, signalled>>

RequestEnds(r) ==
  /\ request[r] # "none"
  /\ request' = [request EXCEPT ![r] = "none"]
  /\ UNCHANGED <<phase, step, attempt, resources, registered, thread, signalled>>

(* An operator, the watchdog or the loop asks for the shutdown.            *)
Signal ==
  /\ phase \in {"starting", "serving"}
  /\ ~signalled
  /\ signalled' = TRUE
  /\ UNCHANGED <<phase, step, attempt, resources, registered, thread, request>>

(* The loop gives up: it asks for the shutdown and ends.                   *)
ThreadGivesUp ==
  /\ thread = "running" /\ phase \in {"starting", "serving"}
  /\ thread' = "ended"
  /\ signalled' = TRUE
  /\ UNCHANGED <<phase, step, attempt, resources, registered, request>>

(* The server lets the requests finish before it ends the lifespan.        *)
ServerStops ==
  /\ phase = "serving" /\ signalled
  /\ \A r \in Requests : request[r] = "none"
  /\ phase' = "stopping"
  /\ UNCHANGED <<step, attempt, resources, registered, thread, signalled, request>>
-----------------------------------------------------------------------------
(* The stack is unwound; an __aexit__ that raises does not stop that.      *)

Unwinds(context) == phase = "stopping" /\ stack # <<>> /\ Head(stack) = context
Clients == {"postgres", "redis", "clickhouse", "consumer", "mcp"}

Closes(client) ==
  /\ Unwinds(client)
  /\ stack' = Tail(stack)
  /\ open' = open \ {client}
  /\ UNCHANGED <<phase, step, attempt, stuck, registered, thread, signalled, request>>

(* Mutation: the contexts further down are not exited.                     *)
CloseRaisesThrough(client) ==
  /\ Unwinds(client)
  /\ stack' = <<>>
  /\ stuck' = stuck \cup {client}
  /\ UNCHANGED <<phase, step, attempt, open, registered, thread, signalled, request>>

CloseRaises(client) ==
  /\ Unwinds(client)
  /\ stack' = Tail(stack)
  /\ stuck' = stuck \cup {client}
  /\ UNCHANGED <<phase, step, attempt, open, registered, thread, signalled, request>>

(* StreamIngestService.__aexit__: the consumer is closed, which its own    *)
(* __aexit__ repeats, and then the thread is joined.                       *)
IngestCloses ==
  /\ Unwinds("ingest")
  /\ phase' = "joining"
  /\ open' = open \ {"ingest", "consumer"}
  /\ UNCHANGED <<step, attempt, stack, stuck, registered, thread, signalled, request>>

(* close() raises, and the thread is not joined.                           *)
IngestCloseRaises ==
  /\ Unwinds("ingest")
  /\ stack' = Tail(stack)
  /\ stuck' = stuck \cup {"ingest"}
  /\ UNCHANGED <<phase, step, attempt, open, registered, thread, signalled, request>>

(* Closing the consumer may end the thread before the join times out.      *)
ThreadEnds ==
  /\ thread = "running" /\ "consumer" \notin open
  /\ thread' = "ended"
  /\ UNCHANGED <<phase, step, attempt, resources, registered, signalled, request>>

(* Mutation: the join has no timeout.                                      *)
JoinsForever ==
  /\ phase = "joining" /\ thread # "running"
  /\ phase' = "stopping"
  /\ stack' = Tail(stack)
  /\ UNCHANGED <<step, attempt, open, stuck, registered, thread, signalled, request>>

Joins ==
  /\ phase = "joining"
  /\ phase' = "stopping"
  /\ stack' = Tail(stack)
  /\ thread' = IF thread = "running" THEN "abandoned" ELSE thread
  /\ UNCHANGED <<step, attempt, open, stuck, registered, signalled, request>>

Exit ==
  /\ phase = "stopping" /\ stack = <<>>
  /\ phase' = "exited"
  /\ UNCHANGED <<step, attempt, resources, registered, thread, signalled, request>>
-----------------------------------------------------------------------------
Startup ==
  \/ PostgresEnters \/ SchemaRuns \/ RedisEnters \/ ClickHouseEnters \/ PingSucceeds
  \/ ConsumerEnters \/ IngestEnters \/ McpEnters
  \/ ConnectRetries \/ StartupRaises \/ Yield

Unwinding ==
  \/ \E client \in Clients : Closes(client) \/ CloseRaises(client)
  \/ IngestCloses \/ IngestCloseRaises \/ Joins \/ Exit

Next ==
  \/ Startup \/ Unwinding
  \/ Signal \/ ThreadGivesUp \/ ThreadEnds \/ ServerStops
  \/ \E r \in Requests, service \in Services : RequestResolves(r, service)
  \/ \E r \in Requests : RequestEnds(r)

(* What must happen in the end is said by Requests, which knows how the    *)
(* requests work.                                                          *)
Spec == Init /\ [][Next]_vars
-----------------------------------------------------------------------------
Connections == Clients \cup {"ingest"}

TypeOK ==
  /\ phase \in {"starting", "serving", "stopping", "joining", "exited"}
  /\ step \in Connections \cup {"schema", "ping", "yield"}
  /\ attempt \in 1..MaxAttempts
  /\ stack \in Seq(Connections)
  /\ open \subseteq Connections /\ stuck \subseteq Connections
  /\ registered \subseteq Services
  /\ thread \in {"none", "running", "ended", "abandoned"}
  /\ signalled \in BOOLEAN
  /\ request \in [Requests -> Services \cup {"none"}]

(* Whatever step of startup raises and whichever connections raise when    *)
(* they are closed, everything else that was opened has been closed when   *)
(* the lifespan has ended, and the ingest thread does not run on unless    *)
(* its join timed out or closing its consumer raised.                      *)
OpenedIsClosed ==
  phase = "exited" => /\ open \subseteq stuck
                      /\ thread = "running" => "ingest" \in stuck

(* A request never works with a connection that is not open, and finds     *)
(* every service.                                                          *)
RequestsFindConnections ==
  /\ \A r \in Requests : request[r] # "none" => Connection(request[r]) \in open
  /\ phase = "serving" => registered = Services
=============================================================================
