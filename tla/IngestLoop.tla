----------------------------- MODULE IngestLoop -----------------------------
(***************************************************************************)
(* The thread and the shutdown of StreamIngestService                      *)
(* (services/stream_ingest.py): the loop around consumer.batches() with    *)
(* its failure counter and backoff, and __aexit__, which closes the        *)
(* consumer and joins the thread.  The consumer is left to the modules     *)
(* that extend this one; they say when its generator yields, returns or    *)
(* raises and when its close() is done.                                    *)
(***************************************************************************)
EXTENDS Integers

CONSTANTS
  BaseDelay,          \* _INGEST_BASE_DELAY
  MaxDelay,           \* _INGEST_MAX_DELAY
  MaxFailures,        \* _INGEST_MAX_FAILURES
  FailureBound        \* bound: the failure counter stops growing here

ASSUME DelaysArePositive == /\ BaseDelay \in Nat \ {0} /\ MaxDelay \in Nat
                            /\ BaseDelay <= MaxDelay
ASSUME FailureLimits == /\ MaxFailures \in Nat \ {0}
                        /\ FailureBound \in Nat /\ MaxFailures <= FailureBound

VARIABLES
  thread,                \* what the ingest thread is doing
  consecutive_failures,
  delay,                 \* the next backoff
  requested,             \* _request_shutdown has been called
  main,                  \* how far the service has been stopped
  automatic              \* ingest_max_disconnect_seconds is not None

loopVars == <<thread, consecutive_failures, delay, requested, main, automatic>>

Smaller(a, b) == IF a < b THEN a ELSE b

LoopInit ==
  /\ thread = "batches"
  /\ consecutive_failures = 0
  /\ delay = BaseDelay
  /\ requested = FALSE
  /\ main = "serving"
  /\ automatic \in BOOLEAN
-----------------------------------------------------------------------------
(* The thread is in the generator ("batches") and comes out of it in one   *)
(* of three ways.                                                          *)

(* Mutation: a batch resets the counter but not the delay.                 *)
BatchKeepsDelay ==
  /\ thread = "batches"
  /\ thread' = "ingesting"
  /\ consecutive_failures' = 0
  /\ UNCHANGED <<delay, requested, main, automatic>>

BatchArrives ==
  /\ thread = "batches"
  /\ thread' = "ingesting"
  /\ consecutive_failures' = 0
  /\ delay' = BaseDelay
  /\ UNCHANGED <<requested, main, automatic>>

BatchesReturn ==
  /\ thread = "batches"
  /\ thread' = "ended"
  /\ UNCHANGED <<consecutive_failures, delay, requested, main, automatic>>

(* Mutation: None disables the watchdog but not this trigger.              *)
BatchesRaiseAlwaysCounts ==
  /\ thread = "batches"
  /\ consecutive_failures' = Smaller(consecutive_failures + 1, FailureBound)
  /\ thread' = IF consecutive_failures' >= MaxFailures THEN "gives_up" ELSE "backoff"
  /\ UNCHANGED <<delay, requested, main, automatic>>

(* Mutation: the counter is set up inside the retry loop.                  *)
BatchesRaiseUncounted ==
  /\ thread = "batches"
  /\ consecutive_failures' = 1
  /\ thread' = IF automatic /\ consecutive_failures' >= MaxFailures
               THEN "gives_up" ELSE "backoff"
  /\ UNCHANGED <<delay, requested, main, automatic>>

(* Mutation: one failure more than the limit is tolerated.                 *)
BatchesRaiseOnceMore ==
  /\ thread = "batches"
  /\ consecutive_failures' = Smaller(consecutive_failures + 1, FailureBound)
  /\ thread' = IF automatic /\ consecutive_failures' > MaxFailures
               THEN "gives_up" ELSE "backoff"
  /\ UNCHANGED <<delay, requested, main, automatic>>

BatchesRaise ==
  /\ thread = "batches"
  /\ consecutive_failures' = Smaller(consecutive_failures + 1, FailureBound)
  /\ thread' = IF automatic /\ consecutive_failures' >= MaxFailures
               THEN "gives_up" ELSE "backoff"
  /\ UNCHANGED <<delay, requested, main, automatic>>

(* _record_ingest returns, or raises and is logged: the loop goes on.      *)
IngestReturns ==
  /\ thread = "ingesting"
  /\ thread' = "batches"
  /\ UNCHANGED <<consecutive_failures, delay, requested, main, automatic>>

GiveUp ==
  /\ thread = "gives_up"
  /\ requested' = TRUE
  /\ thread' = "ended"
  /\ UNCHANGED <<consecutive_failures, delay, main, automatic>>

(* Mutation: the delay doubles without a cap.                              *)
BackoffUncapped ==
  /\ thread = "backoff"
  /\ thread' = "batches"
  /\ delay' = 2 * delay
  /\ UNCHANGED <<consecutive_failures, requested, main, automatic>>

BackoffEnds ==
  /\ thread = "backoff"
  /\ thread' = "batches"
  /\ delay' = Smaller(2 * delay, MaxDelay)
  /\ UNCHANGED <<consecutive_failures, requested, main, automatic>>

LoopAlone == IngestReturns \/ GiveUp \/ BackoffEnds
-----------------------------------------------------------------------------
(* __aexit__: close the consumer, wait for the thread for a while; then    *)
(* the exit stack closes the consumer once more.                           *)

StopBegins ==
  /\ main = "serving"
  /\ main' = "closing"
  /\ UNCHANGED <<thread, consecutive_failures, delay, requested, automatic>>

CloseReturns ==
  /\ \/ main = "closing" /\ main' = "joining"
     \/ main = "closing_again" /\ main' = "stopped"
  /\ UNCHANGED <<thread, consecutive_failures, delay, requested, automatic>>

(* close() raises: the join is left out, the exit stack goes on.           *)
CloseFails ==
  /\ \/ main = "closing" /\ main' = "closing_again"
     \/ main = "closing_again" /\ main' = "stopped"
  /\ UNCHANGED <<thread, consecutive_failures, delay, requested, automatic>>

(* join() returns when the thread has ended or after _JOIN_TIMEOUT, when   *)
(* the thread is abandoned.  Time is not modelled here: it may be either.  *)
JoinReturns ==
  /\ main = "joining"
  /\ main' = "closing_again"
  /\ UNCHANGED <<thread, consecutive_failures, delay, requested, automatic>>
-----------------------------------------------------------------------------
LoopTypeOK ==
  /\ thread \in {"batches", "ingesting", "backoff", "gives_up", "ended"}
  /\ consecutive_failures \in 0..FailureBound
  /\ delay \in 1..MaxDelay
  /\ requested \in BOOLEAN
  /\ main \in {"serving", "closing", "joining", "closing_again", "stopped"}
  /\ automatic \in BOOLEAN

(* The backoff doubles with each consecutive failure up to its cap and     *)
(* starts over with every batch: counter and delay never drift apart       *)
(* (the delay is doubled when the sleep is over).                          *)
BackoffFollowsFailures ==
  LET slept == IF thread \in {"backoff", "gives_up"} \/ requested
               THEN consecutive_failures - 1
               ELSE consecutive_failures
  IN delay = Smaller(BaseDelay * 2^slept, MaxDelay)

(* "ingest_max_disconnect_seconds=None disables all automatic shutdown"    *)
(* (stream_ingest.py:79-80); otherwise the loop asks for one only with     *)
(* _INGEST_MAX_FAILURES failures since the last batch, and then has ended. *)
ShutdownOnlyAfterFailures ==
  requested => /\ automatic
               /\ consecutive_failures >= MaxFailures
               /\ thread = "ended"
=============================================================================
