------------------------------- MODULE Requests -------------------------------
(***************************************************************************)
(* The requests that the services behind the routers answer while the      *)
(* application of Lifespan is up: each is a few awaits on a connection, of *)
(* which Postgres has a pool of a fixed size, or on a thread of the        *)
(* executor of asyncio.to_thread.  None but the readiness probe has a      *)
(* timeout, nor have the calls of startup and of the unwinding; a database *)
(* or the broker of the transport may stop answering for good, at any      *)
(* time.                                                                   *)
(***************************************************************************)
EXTENDS Lifespan, FiniteSets

CONSTANTS
  PoolSize,  \* postgres_pool_max_size
  Workers    \* threads of the executor

ASSUME PoolsAreNotEmpty == PoolSize \in Nat \ {0} /\ Workers \in Nat \ {0}

VARIABLES
  route,   \* what each request asks for
  at,      \* none, waiting for its pool, first or second statement, answered
  leased,  \* the requests that hold a connection or a thread of each pool
  hung     \* databases (or the broker) that do not answer any more

workVars == <<route, at, leased, hung>>
allVars == <<vars, workVars>>

Routes == {"config", "probe", "cache_set", "cache_get", "data", "stream"}

Service(kind) ==
  CASE kind \in {"config", "probe"} -> "ConfigService"
    [] kind \in {"cache_set", "cache_get"} -> "CacheService"
    [] kind = "data" -> "DataService"
    [] kind = "stream" -> "StreamIngestService"

Pools == {"postgres", "executor"}
Size == [postgres |-> PoolSize, executor |-> Workers]
Pool(kind) ==
  CASE kind \in {"config", "probe"} -> "postgres"
    [] kind = "stream" -> "executor"
    [] OTHER -> "none"

WorkInit ==
  /\ Init
  /\ route = [r \in Requests |-> "none"]
  /\ at = [r \in Requests |-> "none"]
  /\ leased = [p \in Pools |-> {}]
  /\ hung = {}

Underway(r) == at[r] \in {"waiting", "first", "second"}
Moves(r, to) == at' = [at EXCEPT ![r] = to]
Releases(r) == leased' = [p \in Pools |-> leased[p] \ {r}]

(* Who must answer for a step of startup to return, and for a context of   *)
(* the exit stack to be closed (the ingest service closes its consumer).   *)
Peers == {"postgres", "redis", "clickhouse", "broker"}
AskedAtStartup ==
  [postgres |-> "postgres", schema |-> "postgres", redis |-> "redis",
   clickhouse |-> "clickhouse", ping |-> "clickhouse", consumer |-> "broker"]
AskedAtClose ==
  [postgres |-> "postgres", redis |-> "redis", clickhouse |-> "clickhouse",
   consumer |-> "broker", ingest |-> "broker"]

WaitsForHung(r) == Underway(r) /\ Connection(Service(route[r])) \in hung
StartupWaits ==
  /\ phase = "starting"
  /\ step \in DOMAIN AskedAtStartup /\ AskedAtStartup[step] \in hung
CloseWaits ==
  /\ phase = "stopping" /\ stack # <<>>
  /\ Head(stack) \in DOMAIN AskedAtClose /\ AskedAtClose[Head(stack)] \in hung
-----------------------------------------------------------------------------
Arrives(r, kind) ==
  /\ at[r] = "none"
  /\ RequestResolves(r, Service(kind))
  /\ route' = [route EXCEPT ![r] = kind]
  /\ Moves(r, IF Pool(kind) = "none" THEN "first" ELSE "waiting")
  /\ UNCHANGED <<leased, hung>>

(* "async with pool.acquire()", or the executor takes the call up.  Whoever*)
(* waits may be next: the pool does not hold a connection for the first.   *)
Acquires(r) ==
  /\ at[r] = "waiting"
  /\ Cardinality(leased[Pool(route[r])]) < Size[Pool(route[r])]
  /\ leased' = [leased EXCEPT ![Pool(route[r])] = @ \cup {r}]
  /\ Moves(r, "first")
  /\ UNCHANGED <<vars, route, hung>>

Answers(r) ==
  /\ RequestEnds(r)
  /\ Moves(r, "answered")
  /\ route' = [route EXCEPT ![r] = "none"]
  /\ UNCHANGED hung

Runs(r) == at[r] \in {"first", "second"} /\ ~WaitsForHung(r)

Finishes(r) ==
  /\ Answers(r)
  /\ Releases(r)
GoesToSecond(r) ==
  /\ at[r] = "first"
  /\ Moves(r, "second")
  /\ UNCHANGED <<vars, route, leased, hung>>

ConfigReturns(r) ==
  /\ Runs(r) /\ route[r] = "config"
  /\ Finishes(r)

ProbeReturns(r) ==
  /\ Runs(r) /\ route[r] = "probe"
  /\ Finishes(r)

CacheSets(r) ==
  /\ Runs(r) /\ route[r] = "cache_set"
  /\ Finishes(r)

(* The value, and if there is one its time to live.                        *)
CacheGets(r) ==
  /\ Runs(r) /\ route[r] = "cache_get"
  /\ GoesToSecond(r) \/ Finishes(r)

(* The count, and then the rows.                                           *)
DataGets(r) ==
  /\ Runs(r) /\ route[r] = "data"
  /\ GoesToSecond(r) \/ (at[r] = "second" /\ Finishes(r))

StreamReturns(r) ==
  /\ Runs(r) /\ route[r] = "stream"
  /\ Finishes(r)

StatementReturns(r) ==
  \/ ConfigReturns(r) \/ ProbeReturns(r) \/ CacheSets(r) \/ CacheGets(r)
  \/ DataGets(r) \/ StreamReturns(r)

(* Mutation: the connection is given back only after a result.             *)
RaisesWithLease(r) ==
  /\ at[r] \in {"first", "second"}
  /\ Answers(r)
  /\ UNCHANGED leased

(* "async with" gives the connection back, and the answer is 500.  A       *)
(* statement may raise although its database hangs (the connection breaks).*)
StatementRaises(r) ==
  /\ at[r] \in {"first", "second"}
  /\ Finishes(r)

(* Mutation: only the statement of the probe has a timeout, getting a      *)
(* connection has none.                                                    *)
TimesOutInStatement(r) ==
  /\ route[r] = "probe" /\ at[r] = "first"
  /\ Finishes(r)

(* wait_for cancels the probe, while it waits for the pool or later.       *)
TimesOut(r) ==
  /\ route[r] = "probe" /\ Underway(r)
  /\ Finishes(r)

Hangs(peer) ==
  /\ phase # "exited"
  /\ hung' = hung \cup {peer}
  /\ UNCHANGED <<vars, route, at, leased>>
-----------------------------------------------------------------------------
(* What goes on without an answer of somebody who hangs.                   *)
RequestGoesOn ==
  \E r \in Requests :
    \/ Acquires(r) \/ StatementReturns(r) \/ TimesOut(r)
    \/ ~WaitsForHung(r) /\ StatementRaises(r)

(* A step that waits for somebody who hangs can only raise.                *)
StartsUp ==
  /\ IF StartupWaits THEN ConnectRetries \/ StartupRaises ELSE Startup
  /\ UNCHANGED workVars

(* Closing the pool waits until every connection has been given back.      *)
ShutsDown ==
  /\ Unwinding
  /\ Unwinds("postgres") => leased["postgres"] = {}
  /\ UNCHANGED workVars

StopsServing == ServerStops /\ UNCHANGED workVars

WorkNext ==
  \/ StartsUp \/ ShutsDown \/ StopsServing
  \/ (Signal \/ ThreadGivesUp \/ ThreadEnds) /\ UNCHANGED workVars
  \/ \E r \in Requests, kind \in Routes : Arrives(r, kind)
  \/ RequestGoesOn
  \/ \E r \in Requests : StatementRaises(r)
  \/ \E peer \in Peers : Hangs(peer)

(* No call has a timeout of its own, so whoever waits for a peer that hangs*)
(* need not go on, be it a request, a step of startup or a close.  All     *)
(* other calls return or raise; the server reacts to the signal, which     *)
(* nobody has to send; a timeout of a probe expires, and what is free is   *)
(* given to someone who waits.                                             *)
WorkFairness ==
  /\ WF_allVars(~StartupWaits /\ StartsUp)
  /\ WF_allVars(~CloseWaits /\ ShutsDown)
  /\ WF_allVars(StopsServing)
  /\ WF_allVars(RequestGoesOn)

WorkSpec == WorkInit /\ [][WorkNext]_allVars /\ WorkFairness
-----------------------------------------------------------------------------
WorkTypeOK ==
  /\ TypeOK
  /\ route \in [Requests -> Routes \cup {"none"}]
  /\ at \in [Requests -> {"none", "waiting", "first", "second", "answered"}]
  /\ leased \in [Pools -> SUBSET Requests]
  /\ hung \subseteq Peers

(* Once the server has stopped, every connection and every thread has been *)
(* given back, so that closing the pool - which waits for that without a   *)
(* timeout - never waits, whatever the requests raised or were cancelled   *)
(* in before.                                                              *)
PoolsAreIdleAtTheEnd ==
  phase \in {"stopping", "joining", "exited"} => \A p \in Pools : leased[p] = {}

(* A database that hangs takes only its own requests with it: every other  *)
(* request is answered, whatever raises, however small the pools are and   *)
(* whoever is cancelled while it waits for one or holds one.               *)
RequestsAreAnswered ==
  \A r \in Requests : Underway(r) ~> at[r] = "answered" \/ WaitsForHung(r)

(* Readiness answers also when every connection of the pool is taken by    *)
(* requests of a database that hangs (observability design, line 44: each  *)
(* probe is "wrapped in asyncio.wait_for").                                *)
ProbesAreAnswered ==
  \A r \in Requests : route[r] = "probe" ~> at[r] = "answered"

(* "After max_attempts consecutive failures the final exception            *)
(* propagates, aborting the lifespan and exiting the process"              *)
(* (core/retry.py:23-24): whatever raises, startup comes to its end, or it *)
(* waits for somebody who hangs (main.py:45 and the ping of Redis have no  *)
(* timeout).                                                               *)
StartupSettles ==
  phase = "starting" ~> phase \in {"serving", "exited"} \/ StartupWaits \/ CloseWaits

(* A process that was asked to stop does so, unless somebody who hangs is  *)
(* waited for: by startup, by a request (the server waits for its          *)
(* requests) or by the close of a connection.  None of them has a timeout. *)
OnlyHangingDelaysTheEnd ==
  signalled ~>
    \/ phase = "exited"
    \/ StartupWaits \/ CloseWaits \/ \E r \in Requests : WaitsForHung(r)
=============================================================================
