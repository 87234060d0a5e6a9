------------------------------ MODULE Ingestion ------------------------------
(***************************************************************************)
(* What StreamIngestService promises of its thread, whichever transport    *)
(* brings the batches (services/stream_ingest.py, and the contract of      *)
(* ingestion/base.py): the thread ends because it is stopped or because it *)
(* gives up, it gives up only after so many failures in a row, and once it *)
(* is stopped it does end.  FlightIngest and SolaceIngest implement this.  *)
(***************************************************************************)
EXTENDS Integers

CONSTANTS
  MaxFailures,   \* failures in a row after which the thread gives up
  FailureBound   \* bound: the failures are counted up to here

VARIABLES
  thread,     \* "working" or "ended"
  failures,   \* failures since the last batch
  requested,  \* a shutdown of the process has been asked for
  stopping,   \* the service has been told to stop
  automatic,  \* the thread may give up
  excused     \* the transport has no hold on a stopped thread

vars == <<thread, failures, requested, stopping, automatic>>

Init ==
  /\ thread = "working"
  /\ failures = 0
  /\ requested = FALSE
  /\ stopping = FALSE
  /\ automatic \in BOOLEAN

Batch ==
  /\ thread = "working"
  /\ failures' = 0
  /\ UNCHANGED <<thread, requested, stopping, automatic>>

Fail ==
  /\ thread = "working"
  /\ ~(automatic /\ failures >= MaxFailures)
  /\ failures' = IF failures < FailureBound THEN failures + 1 ELSE failures
  /\ UNCHANGED <<thread, requested, stopping, automatic>>

GiveUp ==
  /\ thread = "working"
  /\ automatic /\ failures >= MaxFailures
  /\ thread' = "ended"
  /\ requested' = TRUE
  /\ UNCHANGED <<failures, stopping, automatic>>

End ==
  /\ thread = "working"
  /\ stopping
  /\ thread' = "ended"
  /\ UNCHANGED <<failures, requested, stopping, automatic>>

Stop ==
  /\ ~stopping
  /\ stopping' = TRUE
  /\ UNCHANGED <<thread, failures, requested, automatic>>

Next == Batch \/ Fail \/ GiveUp \/ End \/ Stop

(* A thread that is stopped ends, unless the transport is excused.         *)
Ends == stopping ~> thread = "ended" \/ excused

Safety == Init /\ [][Next]_vars

Spec == Safety /\ Ends
=============================================================================
