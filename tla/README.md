# TLA+ models of python-template

This directory models the Python web service of the repository
(`python-webservice-template/`): the log-structured store that keeps streamed
rows, the ingest thread and the two transports that feed it, POST `/data/ingest`,
the watchdog, the health and metrics aggregation, the startup and shutdown of
the process, and the requests it serves in between.
The modules are checked with TLC on small instances, and the results that
matter most are proved with TLAPS for every value of the constants.

Paths below are relative to `python-webservice-template/`.

## 1. The system

| Component | State | Operations | Interacts with |
|---|---|---|---|
| `LSMStore` (`persistence/stream_store/lsm_store.py`) | `_seqno`, `_memtable`, `_memtable_rows`, `_runs`, `_snapshot` | `ingest` (buffer, `_flush`, `_compact`, `_publish`), `query` | written by the ingest thread and by POST `/data/ingest`, read by pool threads |
| `StreamIngestService` (`services/stream_ingest.py`) | the thread, failure counter, backoff, watchdog task, `rows_total`, `last_batch_at` | `__aenter__`, `__aexit__`, `_ingest_loop`, `_disconnect_watchdog`, `ingest_batch`, `get_data`, `health_check` | consumer, store, SIGTERM to its own process |
| `FlightBatchConsumer` (`ingestion/flight/client.py`) | `_client`, `_reader`, `_state`, `_closing` | generator `batches()`, `close()`, `connection_state()` | Flight server; `close()` runs on another thread than the generator |
| `SolaceBatchConsumer` (`ingestion/solace/client.py`) | `_service`, `_receiver`, `_queue`, `_state` | `_connect`, `batches()`, `on_message`, three listeners, `close()` | broker; four threads share the fields and a queue |
| `HealthService` (`services/health.py`), `MetricsService` (`services/metrics.py`) | gauges of a registry | `readiness`, `detailed_status`, `refresh`, `render` | probes the other services under a timeout |
| Lifespan (`main.py`), container, retries, connections | exit stack, container, `app.state` | startup, unwinding, `connect_with_backoff` | databases, web server, ingest service |
| POST `/data/ingest` (`routers/data.py`) | the request: how far its body has been ingested | decode and ingest batch by batch, answer 202, 400 or 500 | clients that send again, the store, the executor |
| Request services (`services/{cache,config,data}.py`, `routers/`) | leases of the Postgres pool and of executor threads | one or two statements a request | Postgres, Redis, ClickHouse, the store |
| Settings, schemas, MCP routers, deployment files, Rust template | constants, record types, pure reads | - | - |

What makes this system hard to test:

- **Threads without locks.** The store relies on one writer and on the atomic
  assignment of its snapshot; POST `/data/ingest` is a second writer. `close()`
  of a consumer races the generator it is to stop, and a Solace consumer is
  also entered by the threads of the SDK.
- **Failures.** Batches with another schema make `concat` raise in the middle of
  an ingest; a posted body may break or raise halfway, and is sent again; calls
  and streams of a server fail at any time, and so do the calls that close a
  consumer; connections raise while startup opens them and while shutdown closes
  them; statements raise while they hold a connection of the pool, and databases
  stop answering.
- **Time.** Backoff, watchdog, join and probes each have a clock, and they
  constrain one another (the join must outlast a backoff, the watchdog samples).
- **Ordering.** Sentinels and batches in one queue, callbacks and assignments of
  one state, the exit stack and the container.

`PROJECT.json` lists these as hazards, each at its line with the properties that
would catch it.

### What makes each component correct

- *Store*: the newest write of a key wins and deletes are not undone; a query
  answers from one published version; numbering identifies rows; the working
  set stays bounded; an accepted batch is kept.
- *POST `/data/ingest`*: a body that is accepted in the end counts once and in its
  order, whatever attempts came before.
- *Loop and consumers*: one contract whichever the transport: the thread ends
  because it was stopped or because it gave up at the failure limit, and it does
  end when stopped (where it does not, the exception is named). The reported state is true; every lost stream is asked for
  again; only the failure limit (or the watchdog) asks for a shutdown and `None`
  disables both; queued batches are not lost.
- *Clocks*: the watchdog is neither late nor early; the join outlasts a backoff of
  the Flight thread.
- *Health*: ready rests on answers no older than the timeout of a probe, and is
  never said of a transport that is cut; exactly one state gauge is set.
- *Lifespan*: whatever raises, all else is closed; requests find their services
  with open connections; startup and shutdown come to an end unless they wait for
  somebody who hangs.
- *Requests*: leases are given back however a request ends; a database that hangs
  takes only its own requests with it, never readiness.

## 2. The modules

```
NewestWins        abstract: a table, its visible version, running queries
  ^ implements                                           <- NewestWins_proofs
LSMStore          the store, one ingest a step           <- LSMStore_proofs
  ^ implements (one writer)
LSMThreads        an ingest in interpreter steps, several writers
  |- HttpIngest      + POST /data/ingest, retries        <- HttpIngest_proofs
MCLSMStore, MCHttpIngest    keys, batches and bodies for TLC

Ingestion         abstract: a thread that is stopped or gives up
  ^ implement
FlightIngest      IngestLoop + FlightBatchConsumer       <- FlightIngest_proofs
SolaceIngest      IngestLoop + SolaceBatchConsumer, SDK  <- SolaceIngest_proofs
IngestLoop        the loop, the backoff, __aexit__ (no behaviour of its own)
IngestTiming      IngestLoop's numbers + clocks, watchdog  <- IngestTiming_proofs

HealthService     probes, ingest state, answers, gauges  <- HealthService_proofs
Lifespan          startup, requests, signal, unwinding
  ^ implements                                           <- Requests_proofs (both)
Requests          + routes, pools, hung databases
```

### The stream store

`LSMStore` has the five fields of the class as variables, and `held` and `reply`
for queries that are under way. A row is `[id, val, op, seqno]`; a frame is its
schema and the *set* of its rows (the order inside a frame matters to nothing:
ranking uses `seqno`, the result is sorted by key). `Winners` is the ranking of
`_merge_frame`, `Live` and `MergeToRows` are `_merge_to_rows`. An ingest is one
step with five outcomes: buffered, flushed, flushed and compacted, and the two in
which polars raises because the frames to be concatenated differ in schema. In
those two the code has already changed `_seqno`, `_memtable`, `_memtable_rows` (and
`_runs`) but does not reach `_publish`; the actions do the same. A query reads
`_snapshot` in one step and merges in another.

`NewestWins` is what users are promised. `ImplementsNewestWins` is the refinement:
`written` is the table of all rows in the store, `visible` the table of the
snapshot, `pending` the tables of the snapshots that queries hold. It is where
a wrong ranking, a delete marker dropped too early, a row lost by a flush or a
snapshot with half of a batch would show.

`LSMThreads` takes `ingest` apart at the calls and returns at which CPython may
switch threads, with `pc` and the locals of each writer. With one writer it
implements `LSMStore`, the reason why `LSMStore` may take an ingest for a step;
with two (the loop and a request) it does not. A list that a compaction has
replaced, to which another thread still appends, is the field `current`. The module
has the steps of one ingest and of one query, and leaves to its user who takes them.

`HttpIngest` is that user. Each member of `Clients` posts a body of `Bodies`, a
sequence of batches of one schema; the remaining writers are the ingest thread.
`readable` is how many batches can be decoded before the body breaks (damaged or cut
off), `next` the batch the handler is at. A batch that raises ends the request
with 500, a broken body with 400 or 500, and a client that has any answer - or lost
it - may send the same body again. `earlier` (rows of this attempt that are in) and
`before` (the table when the client first sent the body) are history variables.

### The ingest loop and the consumers

`IngestLoop` holds what the two transports share: `thread` says what the thread
is doing, `consecutive_failures` and `delay` are the locals of `_ingest_loop`,
`main` is the progress of `__aexit__`. The setting `ingest_max_disconnect_seconds`
is `automatic`, chosen in the initial state and never changed, so that each run
covers both cases. `__aexit__` closes the consumer, joins the thread, and the
exit stack closes the consumer once more; a close that raises (`CloseFails`)
skips the join.

`Ingestion` is the contract both transports keep: the five facts `__aexit__`, the
watchdog and the operator rely on (`thread`, `failures`, `requested`, `stopping`,
`automatic`) and a step for a batch, a failure, giving up, ending and being stopped.
`ImplementsIngestion` in either transport module maps its detailed thread to
"working" or "ended". `excused` is where a transport has no hold on a thread that was
stopped. Under Solace that is when it may not give up (run `solace_forever`). Under
Flight it is `OutlivesClose`: `close()` found no reader although the generator was
asking for a stream or had just been given one, and closing the client does not
abort what that has become (run `flight_unblocks`).

`FlightIngest` adds the four fields of the consumer and the points of the generator
(`gen`, fourteen of them) and of `close()` (`closer`). Each access to a shared field is a
step: the check on entry, the call, its return, `self._reader = reader`, the state, the
end or loss of the stream, the `finally`, the second check of `_closing`, the last
state; and in `close()` reading `_reader`, setting it to `None`, cancelling, taking
`_client`, closing it. Three pairs are merged because nothing can be seen between
them: the two conditions of the check on entry (a client that is set after the first
is only ever set to `None`), reading `_client` and calling it (a client closed in
between refuses the call, which raises as the missing one does), and reading `_client`
and setting it to `None` in `close()` (nobody else sets it). The server is external: it
answers or not, streams chunks, ends or fails. A comment in `close()` says that closing
a `FlightClient` does not unblock a stream on Windows; `Platforms` is the set of what
closing may abort (calls and streams, calls only, nothing), and `aborts` the choice
a behaviour makes at its start, so that the run covers all three.

`SolaceIngest` adds the SDK: link changes, the callbacks they cause (in the order
of the changes, each on a later step), messages whose batches the handler puts
one by one. `_connect` adds its three listeners one by one, so a change
before that is not heard. `early` remembers that the last change came before
`_connect` had returned; `ahead` counts batches that were queued when `close()`
began. `terminate()` and `disconnect()` in `close()` may raise: the sentinel is in the
queue by then, the fields behind the call that raised keep their values, and the
second `close()` of the exit stack meets them as they are.

`IngestTiming` leaves out the races and has the clocks instead, in seconds: the
delay with every jitter the code can draw, the poll of the watchdog, the join.
A second passes only when no thread has anything to do at the instant
(`Busy`). Calls take no time; `sleep`, `wait` and `join` do. The generator fails, is
entered and left as in the transport's module: after `close()` a Flight generator
returns, while a Solace generator that is entered has no service and raises, again and
again, with a backoff after each. So the join outlasts what it has to under Flight only;
a Solace thread stopped in a backoff sleeps for 12 seconds or more and is abandoned
even with automatic shutdown on (`IngestTimingAbandons`). That a `do_get` may outlive
`close()` is `FlightIngest`'s; here `close()` ends it.

### Health, metrics, lifespan

`HealthService` follows a request through `gather` and the ingest state to
its answer. A ping finds its dependency up, down or hanging; `wait_for` cuts it
off after `Timeout` ticks. `ReadIngest` comes after the probes as in `readiness` and
`detailed_status`; what differs is what is made of it: an answer of `/health/ready`,
the gauges of `/metrics`, or only copies (`/health/status`). Readiness may be asked for before every service is
registered, which counts as down.

`Lifespan` has the exit stack as a sequence. Each step of startup may raise
(the first two connections after `MaxAttempts` attempts), each `__aexit__` may
raise, the join may time out with the thread still running, and SIGTERM comes from
outside, from the watchdog or from the loop. It has safety only; what must happen
depends on the requests.

`Requests` adds those. A request takes one of six routes: configuration and the
readiness probe need a connection of the Postgres pool, POST ingest and GET stream a
thread of the executor, cache and data talk to their client directly. It waits for
its pool, runs one statement or two, and is answered; a statement may return, raise,
or - for the probe alone, under `wait_for` - be cancelled at any point, the wait for
the pool included. `leased` is the *set* of requests that hold something of a pool
(only how many matters to the code); there is no order among those who wait.
A database or the broker may hang at any time before the process has exited, startup
included, and then never answers: nothing in the code gives a statement a timeout,
nor the calls of startup (`conn.execute(schema_sql)`, the ping of Redis) or of the
closes. A step of startup that waits for one that hangs can raise (`StartupWaits`,
`AskedAtStartup`), but nothing makes it. Closing the pool waits for its leases. Every
behaviour of `Requests` is one of `Lifespan` (theorem `WorkImplementsLifespan`).

## 3. The runs

| Run | Question | Instance | Distinct states |
|---|---|---|---|
| `store` | does the store implement the table, with numbering, age order and bounded space, when ingests and queries may raise? | 2 keys, 2 schemas, batches of 0 to 2 rows, flush at 2, compaction at 2 runs, 6 rows, 1 reader | 150 000 |
| `http_one_writer` | can the steps of an ingest be observed, and does a body sent again count once? | 1 client, 1 reader, bodies of up to 2 batches, 2 schemas, 7 rows, 4 frames | 324 000 |
| `http_two_writers` | does a reader ever see half of a batch, and does a body keep its order, however writers race? | ingest thread and client, 5 rows, 4 frames | 2 021 000 |
| `flight` | Flight generator, loop and `close()`: the contract, true state, no leak, reopening, on every platform | shipped delays and limit, three platforms | 32 000 |
| `solace` | the same for the four threads of the Solace consumer, with a close that raises | queue of 2, messages of up to 2 batches, 2 outstanding callbacks, delays up to 16 | 643 000 |
| `timing` | are watchdog, backoff and (under Flight) join in tune? | shipped seconds: 60, 5, 10 | 809 000 |
| `health` | truth of readiness whenever the probes end, gauges | 2 dependencies, 1 request | 991 000 |
| `requests` | does everything end that does not wait for one that hangs, is everything given back and closed, and does a hung database take only its own requests with it? | 5 attempts, 3 requests, a pool of 1, an executor of 1 | 156 000 |

Four runs show a disagreement between the code and what its documents, comments
or tests say; `PROJECT.json` quotes both sides.

| Run | What TLC finds |
|---|---|
| `http_lost_batch` | a batch of POST `/data/ingest`, appended between the `concat` and the reset of the memtable in the other writer's `_flush`, is dropped after its 202 |
| `store_poison` | a batch "skipped" because a flush or compaction raised stays in the working set |
| `flight_unblocks` | where closing the client does not abort a stream, a `close()` between the return of `do_get` and the assignment of `_reader` stops nothing: the thread reads on |
| `solace_forever` | a Solace thread that `close()` finds backing off never sees the sentinel; with automatic shutdown disabled it fails and retries for ever |

Seven more configurations are kept for readers who want the counterexample; they
concern states nobody reads, wordings that leave room, or what a run above shows already:
`HttpSeqno` (two writers stamp one number twice, the same cause as the lost
batch), `FlightIngestDown` (`do_get` answered after `close()` sets `CONNECTED`),
`SolaceIngestStartup` (a link lost before `_connect` returns is reported
connected), `SolaceIngestMalformed` (batches before the malformed part of a
message are stored), `IngestTimingFlaps` (reconnections between two polls are
invisible to the watchdog), `IngestTimingMinute` (five quick failures ask for the
shutdown after 15 seconds, not after the "full minute" the observability design, line
141, gives reconnecting), `IngestTimingAbandons` (a Solace thread that is stopped in a
backoff outlasts the join).

Two notes on what `store` compares. The table of a snapshot whose frames differ in
schema is compared like any other, although a query over it raises. And once schemas
are mixed every flush may raise, so that in this small instance few versions are
published after that; that the store does publish is what `AcceptedIsVisible` and the
theorem `StoreIsNewestWins`, for any schemas and thresholds, are for.

### Bounds, and why they are enough

- `MaxRows`, `MaxFrames` (store) stop the arrival of batches. With thresholds of
  2 the memtable is flushed three times and compacted twice, the second time over a
  compacted run; both kinds of failure happen at a first and at a later flush.
  Two keys suffice for "another key", two values for "another version". One
  reader suffices for the refinement because readers do not affect each other
  or the writer.
- With a client the rows are numbered by what was sent: 7 rows let a body of two
  batches be sent three times, with flushes and a compaction in between; 5 rows
  and 4 frames let a flush of either writer fall into any point of the other's
  ingest. `MCHttpIngest` has bodies whose batches touch the same key, one that
  deletes, and one of a second schema, for `concat` to raise.
- `FailureBound` stops the failure counter: 7 for Flight, above the limit of 5, when
  the delay has reached its cap of 60. For Solace it is 5 and `MaxDelay` 16, the
  largest delay reached before the limit; the cap itself is `flight`'s question.
- `QueueBound`, `LongestMessage`, `EventBound` (Solace) hold back messages and link
  changes while that many are outstanding: two are needed for order to matter.
- The histories `disconnected`, `downFor` and `cutFor` stop counting just above the
  value a property compares them with.
- `MaxAttempts` is the shipped 5. `Timeout` is one tick: a probe ends in the tick of
  its request, at the deadline, or not at all.
- `PoolSize` and `Workers` are 1, so that one request exhausts a pool: with three,
  one holds the connection of a hung database, one waits for it, and one is of
  another database. A request is made once: whether newcomers may overtake one
  that waits for ever is not asked (asyncpg and the executor serve in order, the
  model in any order).

### Fairness, and why the code justifies it

- Flight: weak fairness of the ingest thread *except* while it waits for the
  server, of the steps of `close()`, and of the end of the join, which has a timeout.
  Each of these is a thread or coroutine the interpreter schedules. Nothing makes
  the server answer, and nothing makes anyone stop the service.
- Solace: the same, and of callbacks, which the SDK runs. A wait for the queue is
  not an enabled step, so fairness cannot end it: only the sentinel does.
- The second part of `Ingestion` (`Ends`) is a leads-to rather than weak fairness
  of its actions, because fairness under a refinement mapping needs ENABLED of the
  mapped action, and because the code promises the outcome and not which step
  brings it.
- Requests: a database that does not hang answers or breaks the connection, to a
  step of startup, to a request and to a close; the web server reacts to the signal;
  the timeout of a probe expires; what is free is given to someone who waits. A step
  that waits for somebody who hangs is not fair, wherever it is: the properties say
  `StartupWaits`, `CloseWaits` or `WaitsForHung` where that is the reason for not ending.
  No one has to send the signal.
- Store, HTTP ingest, timing and health have safety properties only and no fairness.

Deadlock is checked except in models that really stop: a stopped service, an
ended lifespan, and stores whose bound on rows is reached with no reader.

### Assumptions about code outside the repository

Polars' `concat` raises when schemas differ and has no effect then. CPython
switches threads at calls and returns, not between two plain assignments
(what `LSMThreads` splits is what may be split). `asyncio.wait_for` returns when the
timeout is over; the cancelled ping ends at once. Uvicorn starts no request
before startup has finished and lets running requests end before the
lifespan is left (no `timeout_graceful_shutdown` is set). asyncpg has no timeout
for statements by default, returns a connection when `async with` is left, and its
`close()` waits for what is leased. Closing a `FlightClient` does not raise. The
Solace SDK delivers callbacks in the order of the changes and none after
`disconnect()`. Definitions that stand for such code are marked external in
`PROJECT.json`.

## 4. The theorems

Every safety invariant and every action property of a passing run is the statement of
a theorem, and so is each refinement except for its fairness. All are proved for
every value of the constants that satisfies the named assumptions of the modules;
further hypotheses are named below. None uses fairness. The assumptions are the
types of the constants, positive clocks and limits, and `BaseDelay <= MaxDelay` (the
loop starts from a base the cap does not cut off).

### The store

- `LSMStore_proofs`: `TypeCorrect` (`[]TypeOK`) and `NumbersIdentifyRows`
  (`[]SeqnoIdentifiesRow`). That a number identifies a row is not inductive: a
  new batch must not reuse a number that is out. The invariant `NumberingInv` adds
  that every number in the runs, the memtable and the snapshot is below `seqno`
  (`NumbersAreSpent`). The lemma `IngestAddsTheBatch` says that whatever an ingest
  does, the rows it leaves are old ones or those of its batch; `StampedRows` says
  those have fresh numbers, each its own. Assumptions: `BatchesAreTyped` and the
  types of the constants. That two writers violate the property shows where the
  theorem needs the single writer. `FramesAge` (`[]FramesAreInAgeOrder`) follows from
  the same invariant: what an ingest appends carries fresh numbers, hence is newer
  than all there is; joining the frames of the memtable, or all runs, moves no row
  past another.
- `NewestWins_proofs`: `StoreIsNewestWins` (`Spec => ImplementsNewestWins`), the
  refinement. Three facts carry it. Whatever path an ingest takes, the rows it leaves
  are all the rows or their `Winners`, and winners of winners are the winners, so the
  table is the same (`WinnersWin`). Numbered in its order and above all older rows, a
  batch lands on the table as if written row by row (`BatchOnTable`). A merge of a
  held snapshot gives the rows and the count of its table (`AnswerFromTable`). The
  invariant `RefinementInv` adds to `NumberingInv` that the rows are finitely many and
  that a snapshot a query holds stays well numbered. That a batch has a last row of a
  key is shown without induction: strict subsets of a finite set are well-founded.

  `WorkingSetIsBounded` (`[]BoundedWorkingSet`), for finitely many
  keys. The premise of the property, one schema, holds of a part of the store at
  a time, so the invariant `SpaceInv` bounds the parts apart: the memtable
  counts its rows and is below the threshold, a run is no larger than the keys
  (compacted) or than the threshold and one batch (flushed), and the runs are few.

### POST `/data/ingest` and the threads

`HttpIngest_proofs` holds first what is true of any number of writers.

- `HttpTypeCorrect` (`[]HttpTypeOK`). The frames that `concat` and the merge work on
  must not be empty, which takes an argument once threads race: a writer that finds
  the memtable empty comes after one that flushed it, and runs are replaced but never
  taken away (`FlushedOnce`, `RunsExist` in `ThreadInv`). `RequestInv` says how far the
  handler may be in its body.
- `BodiesKeepTheirOrder` (`[]BodyOrderIsKept`). A number may be given twice, but the
  counter never steps back: `OrderInv` has every stamped frame, and the rows of a
  request that are in, below the counter.
- `NoHalfBatches` (`[]BatchesAreSeenWhole`), for batches that share no row
  (`BatchesShareNoRow`, the proviso of the property: only then does a row tell
  its batch). Of each frame that was ever handed to the memtable, a set of rows covers
  all or has none. `WholeInv` says so of the memtable, the runs, the snapshot and the
  locals of every writer; joining (`WholeJoins`), ranking and losing a frame keep it.

The others are for one writer, `Writers = {w}`, the client or the ingest thread; the
two-writer run `http_lost_batch` shows that they need it.

- `IngestIsAtomic` (`HttpSpec => ImplementsLSMStore`): the steps of an ingest cannot be
  observed. The history `settled` is the private state before the ingest under way, and
  `Progress` says, point by point, what memtable and runs are in terms of it and of the
  batch; the last step then is the one step of `LSMStore` that fits, and a raise is
  its failing outcome. What is proved of `LSMStore` is taken over by an instance of
  `NewestWins_proofs` at `settled`.
- `OneWriterIsNewestWins` (`HttpSpec => Settled!ImplementsNewestWins`): both refinements
  composed, from interpreter steps to one table in which the newest write wins.
- `AcceptedStaysVisible` (`[]AcceptedIsVisible`): no flush or compaction, nor one that
  raises before the snapshot is assigned, takes back what an answer has promised.
- `RetriesCountOnce` (`[]RetryCountsOnce`). A body may be sent any number of times and
  break or raise at any batch, so between attempts the table is neither that of
  before nor that of after. The invariant `RetryInv` says what is true all along: the
  keys no batch of the body touches are as before (`Keeps`), and of those the
  batches ingested in this attempt touch, the last one decides (`Owes`). The property
  is stated the same way, key by key: it says that the table is the old one with the
  body's batches applied in order, without naming the intermediate tables.

### The ingest loop and the consumers

- `FlightIngest_proofs`: `TypeCorrect`; `StateIsTruthful`,
  `NoStreamIsLeft` (strengthened by what the generator holds at each of its points
  and by where it is when the thread is elsewhere: `StreamInv`), `OnlyFailuresShutDown`
  (strengthened by the moment in which the loop is about to ask). They hold for any
  delays and limits, whatever closing the client aborts. For `StateIsTruthful` the
  invariant `ConnectedInv` adds that `close()` sets `_closing` first and that a reader
  is tracked until `close()` takes it. `ContractIsKept`
  is the safety part of the refinement of `Ingestion`: each of the model's actions
  is mapped to one of the contract's or to a stutter, from the invariant
  `ContractInv`: the consumer is closed only when the service is being
  stopped (`OnlyStopCloses`), and at the limit the loop asks and ends (`LimitEndsLoop`).

  `BackoffDoubles` (`[]BackoffFollowsFailures`) by the invariant that the delay is that
  of the backoffs slept since the last batch (`Slept`): one fewer than the failures while
  a failure is being slept off, as many otherwise. Two hypotheses: `PowersDouble`, that
  2^(n+1) is twice 2^n for the exponents that occur (true of numbers; the provers have
  no law of powers), and `CapIsReached`, that the failure counter, which the model stops
  at `FailureBound`, is not stopped before the delay is at its cap.
  `ShippedBackoffDoubles` discharges both for the shipped 1 and 60 seconds.
- `SolaceIngest_proofs`: `StateIsThatOfLink` (`[]StateFollowsLink`; the last outstanding
  callback says what the link is, and before `_connect` has returned nothing has
  changed or `early` remembers it), `QueueIsEmptied` (`[]QueueIsDrained`; until the
  first `close()` puts its sentinel there is none in the queue, and afterwards the
  batches counted stand in front of every sentinel), and `ContractIsKept`, the
  safety part of the refinement of `Ingestion`: a sentinel in the queue means that
  the service is being stopped, and no message is one. `TypeCorrect` builds on the
  invariants of link and queue.
- `IngestTiming_proofs`: `TypeCorrect`, `NoneDisablesBoth` (`[]DisabledNeverRequests`), and
  `WatchdogIsNotLate` (`[]WatchdogIsInTime`) for every threshold: while the watchdog runs,
  a disconnection is at most a poll old when it is first seen, from then on its age and
  the measured time grow together, and once that has reached the threshold the next
  poll fires (`Measured`).
  `JoinIsLongEnough` (`[]JoinOutlastsBackoff`, a property of Flight) for all settings in
  which the delays that lie before the limit of failures (`TableOfDelays`), each with the
  largest jitter, are shorter than the join (`JoinIsLonger`): the wait and what is left
  of a sleep never add up to the timeout, be it the backoff that the stop found or the one
  after a call that `close()` made raise; a generator entered later returns. `ShippedJoinIsLongEnough`: 1, 2, 4 and 8 seconds and a
  join of 10 are such settings.

### Health, metrics, lifespan, requests

- `HealthService_proofs`: `TypeCorrect`, `OneStateIsShown` (`[]OneStateIsActive`: the gauges of the state are written together,
  `GaugesAreASet`), and two about the step in which readiness answers:
  `ReadyRestsOnTheLately` (`ReadyMeansUpLately`) and `NoGraceForTheTransport`
  (`NoGracePeriod`). Their invariant `FreshInv` says that a dependency whose probe has
  found it up has not been away for longer than the request is old (`UpSinceBegin`), and
  that a request that has read the ingest state did so with all its probes over and in
  the present tick (`ReadWhenGathered`). For any dependencies, requests and timeout.
- `Requests_proofs`, about `Lifespan` and `Requests`: `RequestsAreServed`
  (`[]RequestsFindConnections`), by an
  invariant that ties the container and the open connections to the step
  startup has reached, and `EverythingIsClosed` (`[]OpenedIsClosed`), by the
  invariant that what is open and did not raise is on the exit stack, and that
  the ingest service is on top of it while it is joined. Lemmas `Pushed` and `Popped`
  say what entering and leaving a context do to the stack.
  `WorkImplementsLifespan` (`WorkSpec => Spec`) makes these
  two theorems hold of the application at work. `PoolsAreGivenBack`
  (`[]PoolsAreIdleAtTheEnd`) follows from the invariant that a lease belongs to a request
  at a statement, that such a request is one the lifespan counts as running, and
  that none is running once the server has stopped. `WorkTypeCorrect` (`[]WorkTypeOK`)
  rests on these and on the types of routes and hung databases (`AskedInv`).

### Only model-checked

Liveness, which needs ENABLED of the actions that are fair and is out of the provers'
reach: the leads-to part `Ends` of `ImplementsIngestion` (`ContractIsKept` proves the
rest), `LostStreamIsReopened`, `SubscribesOrGivesUp`, `StartupSettles`,
`RequestsAreAnswered`, `ProbesAreAnswered` and `OnlyHangingDelaysTheEnd`. The four
violations are counterexamples and stay with TLC by nature. `BackoffDoubles` takes the
law of powers as a hypothesis, for the reason above.

## 5. Not modelled, and why

- The content and formatting of rows, logs and responses; the figures of
  `/metrics` that are copied from the system.
- What the databases hold. GET `/data` counts and selects in two statements and the
  cache reads a value and its time to live in two; nothing in the repository says
  that the two answers fit together, so there is nothing to check.
- `health_check` counters: `rows_total` and `last_batch_at` are only reported.
- Clients of Redis whose ping failed are left to the collector and are not
  counted as open.
- Settings, schemas, MCP tools, deployment files, tests and the Rust template have
  no state that changes.

## 6. Plan

1. *Requests*: that the leases of a pool never exceed its size, for any number of
   requests, as an invariant and a theorem.
2. *Liveness by ranking*: what the leads-to properties rest on that is a safety
   property: that a thread that was told to stop has fewer steps left after each step.
3. *Several writers*: that rows can only be lost by a flush that overlaps another
   ingest, so that behaviours without overlap keep what one writer is proved to keep.
