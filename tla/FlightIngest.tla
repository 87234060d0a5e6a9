---------------------------- MODULE FlightIngest ----------------------------
(***************************************************************************)
(* FlightBatchConsumer (ingestion/flight/client.py) under the ingest loop: *)
(* the generator runs on the ingest thread, close() on another, and they   *)
(* share the fields state, client, reader and closing without a lock.  The *)
(* Flight server decides when a call is answered and what a stream brings. *)
(***************************************************************************)
EXTENDS IngestLoop

CONSTANTS Platforms   \* what client.close() may be found to abort

ASSUME PlatformsAbort == Platforms \subseteq SUBSET {"calling", "open"}

VARIABLES
  state,     \* _state
  reader,    \* whether _reader is set
  gen,       \* where the generator batches() is
  stream,    \* the do_get of the generator: none, calling, open or dead
  client,    \* whether _client is set
  closing,   \* _closing
  closer,    \* where close() is
  missed,    \* history: close() found no reader though there was a do_get
  aborts     \* which of "calling" and "open" client.close() aborts

closeVars == <<client, closing, closer, missed, aborts>>
consumerVars == <<state, reader, gen, stream, closeVars>>
vars == <<loopVars, consumerVars>>

Init ==
  /\ LoopInit
  /\ state = "reconnecting"    \* __aenter__ has connected the client
  /\ reader = FALSE
  /\ gen = "fresh"
  /\ stream = "none"
  /\ client = TRUE
  /\ closing = FALSE
  /\ closer = "out"
  /\ missed = FALSE
  /\ aborts \in Platforms
-----------------------------------------------------------------------------
(* The generator, run by the thread while it is in "batches": gen names    *)
(* what it does next, and each access to a shared field is a step.         *)

Goes(here, there) ==
  thread = "batches" /\ gen = here /\ gen' = there /\ UNCHANGED closeVars

(* A closed client is not dereferenced.                                    *)
GenFindsClosed ==
  /\ Goes("fresh", "fresh")
  /\ closing \/ ~client
  /\ UNCHANGED <<state, reader, stream>>

GenStarts ==
  /\ Goes("fresh", "starting")
  /\ ~closing /\ client
  /\ UNCHANGED <<state, reader, stream>>

GenReconnects ==
  /\ Goes("starting", "ticket")
  /\ state' = "reconnecting"
  /\ UNCHANGED <<reader, stream>>

GenCalls ==
  /\ Goes("ticket", "do_get")
  /\ client
  /\ stream' = "calling"
  /\ UNCHANGED <<state, reader>>

(* close() has set _client to None after the check (AttributeError), or    *)
(* has closed the client since it was read, which then refuses the call.   *)
GenMissesClient ==
  /\ Goes("ticket", "fresh")
  /\ ~client
  /\ UNCHANGED <<state, reader, stream>>

CallSucceeds ==
  /\ Goes("do_get", "returned")
  /\ stream = "calling"
  /\ stream' = "open"
  /\ UNCHANGED <<state, reader>>

CallRaises ==
  /\ Goes("do_get", "fresh")
  /\ stream' = "none"
  /\ UNCHANGED <<state, reader>>

GenTracksReader ==
  /\ Goes("returned", "tracked")
  /\ reader' = TRUE
  /\ UNCHANGED <<state, stream>>

GenConnects ==
  /\ Goes("tracked", "reading")
  /\ state' = "connected"
  /\ UNCHANGED <<reader, stream>>

ChunkArrives ==
  /\ Goes("reading", "reading")
  /\ stream = "open"
  /\ UNCHANGED <<state, reader, stream>>

(* The stream raises or comes to its end.                                  *)
StreamStops ==
  /\ Goes("reading", "raised") \/ Goes("reading", "ended")
  /\ stream' = "none"
  /\ UNCHANGED <<state, reader>>

(* except: on shutdown the generator returns, otherwise it raises; finally *)
(* forgets the reader either way.                                          *)
RaisedIsChecked ==
  /\ Goes("raised", IF closing THEN "return_cleanup" ELSE "lost")
  /\ UNCHANGED <<state, reader, stream>>

(* Mutation: the state is not set when the stream is lost.                 *)
StreamLostSilently ==
  /\ Goes("lost", "raise_cleanup")
  /\ UNCHANGED <<state, reader, stream>>

StreamLost ==
  /\ Goes("lost", "raise_cleanup")
  /\ state' = "reconnecting"
  /\ UNCHANGED <<reader, stream>>

(* Mutation: there is no finally clause.                                   *)
ForgetsNothing(here, there) ==
  /\ Goes(here, there)
  /\ UNCHANGED <<state, reader, stream>>

ForgetsReader(here, there) ==
  /\ Goes(here, there)
  /\ reader' = FALSE
  /\ UNCHANGED <<state, stream>>

RaisedReturns == ForgetsReader("return_cleanup", "fresh")
RaisedRaises == ForgetsReader("raise_cleanup", "fresh")
EndForgetsReader == ForgetsReader("ended", "ended_clean")

(* Mutation: a clean end of the stream counts as a shutdown.               *)
StreamEndsQuietly ==
  /\ Goes("ended_clean", "fresh")
  /\ UNCHANGED <<state, reader, stream>>

StreamClosed ==
  /\ Goes("ended_clean", "fresh")
  /\ closing
  /\ UNCHANGED <<state, reader, stream>>

EndIsUnexpected ==
  /\ Goes("ended_clean", "unexpected")
  /\ ~closing
  /\ UNCHANGED <<state, reader, stream>>

EndRaises ==
  /\ Goes("unexpected", "fresh")
  /\ state' = "reconnecting"
  /\ UNCHANGED <<reader, stream>>
-----------------------------------------------------------------------------
(* close(), run by whoever stops the service.                              *)

genVars == <<gen, aborts>>

CloseBegins ==
  /\ main \in {"closing", "closing_again"} /\ closer = "out"
  /\ closing' = TRUE
  /\ closer' = "state"
  /\ UNCHANGED <<state, reader, stream, client, missed, genVars>>

CloseSetsState ==
  /\ closer = "state"
  /\ state' = "down"
  /\ closer' = "reader"
  /\ UNCHANGED <<reader, stream, client, closing, missed, genVars>>

(* The reader is read, then set to None: a do_get that has not been        *)
(* tracked by then is not cancelled.                                       *)
CloseReadsReader ==
  /\ closer = "reader"
  /\ closer' = IF reader THEN "take" ELSE "no_reader"
  /\ missed' = (~reader /\ gen \in {"ticket", "do_get", "returned", "tracked", "reading"})
  /\ UNCHANGED <<state, reader, stream, client, closing, genVars>>

CloseTakesReader ==
  /\ closer \in {"take", "no_reader"}
  /\ reader' = FALSE
  /\ closer' = IF closer = "take" THEN "cancel" ELSE "client"
  /\ UNCHANGED <<state, stream, client, closing, missed, genVars>>

CloseCancels ==
  /\ closer = "cancel"
  /\ stream' = IF stream = "open" THEN "dead" ELSE stream
  /\ closer' = "client"
  /\ UNCHANGED <<state, reader, client, closing, missed, genVars>>

(* Mutation: the client is dropped but not closed.                         *)
CloseDropsClient ==
  /\ closer = "client"
  /\ client' = FALSE
  /\ closer' = "done"
  /\ UNCHANGED <<state, reader, stream, closing, missed, genVars>>

CloseTakesClient ==
  /\ closer = "client"
  /\ client' = FALSE
  /\ closer' = IF client THEN "close_client" ELSE "done"
  /\ UNCHANGED <<state, reader, stream, closing, missed, genVars>>

CloseClosesClient ==
  /\ closer = "close_client"
  /\ stream' = IF stream \in aborts THEN "dead" ELSE stream
  /\ closer' = "done"
  /\ UNCHANGED <<state, reader, client, closing, missed, genVars>>

CloseEnds ==
  /\ closer = "done"
  /\ closer' = "out"
  /\ UNCHANGED <<state, reader, stream, client, closing, missed, genVars>>
-----------------------------------------------------------------------------
GenYields == ChunkArrives
GenReturns == GenFindsClosed \/ RaisedReturns \/ StreamClosed
GenRaises == GenMissesClient \/ CallRaises \/ RaisedRaises \/ EndRaises
GenGoesOn ==
  \/ GenStarts \/ GenReconnects \/ GenCalls \/ CallSucceeds
  \/ GenTracksReader \/ GenConnects
  \/ StreamStops \/ RaisedIsChecked \/ StreamLost
  \/ EndForgetsReader \/ EndIsUnexpected

ThreadStep ==
  \/ GenGoesOn /\ UNCHANGED loopVars
  \/ GenYields /\ BatchArrives
  \/ GenReturns /\ BatchesReturn
  \/ GenRaises /\ BatchesRaise
  \/ LoopAlone /\ UNCHANGED consumerVars

CloseStep ==
  \/ /\ \/ CloseBegins \/ CloseSetsState \/ CloseReadsReader \/ CloseTakesReader
        \/ CloseCancels \/ CloseTakesClient \/ CloseClosesClient
     /\ UNCHANGED loopVars
  \/ CloseEnds /\ CloseReturns

Stop == StopBegins /\ UNCHANGED consumerVars
Join == JoinReturns /\ UNCHANGED consumerVars

Next == ThreadStep \/ CloseStep \/ Stop \/ Join

(* The thread waits for the server in a call and on a stream that are      *)
(* alive; every other step of it is its own and is taken in the end.  So   *)
(* is every step of close() and join().  Nothing makes the server answer,  *)
(* and nothing makes anyone stop the service.                              *)
WaitsForServer ==
  /\ thread = "batches"
  /\ <<gen, stream>> \in {<<"do_get", "calling">>, <<"reading", "open">>}

Fairness ==
  /\ WF_vars(~WaitsForServer /\ ThreadStep)
  /\ WF_vars(CloseStep)
  /\ WF_vars(Join)

Spec == Init /\ [][Next]_vars /\ Fairness
-----------------------------------------------------------------------------
TypeOK ==
  /\ LoopTypeOK
  /\ state \in {"connected", "reconnecting", "down"}
  /\ reader \in BOOLEAN
  /\ gen \in {"fresh", "starting", "ticket", "do_get", "returned", "tracked", "reading",
              "raised", "lost", "raise_cleanup", "return_cleanup",
              "ended", "ended_clean", "unexpected"}
  /\ stream \in {"none", "calling", "open", "dead"}
  /\ client \in BOOLEAN /\ closing \in BOOLEAN /\ missed \in BOOLEAN
  /\ closer \in {"out", "state", "reader", "take", "no_reader", "cancel",
                 "client", "close_client", "done"}
  /\ aborts \in Platforms

(* Until the service is stopped, readiness can trust the state: the thread *)
(* reads a stream only as connected and where close() could cancel it; it  *)
(* is connected only while it reads or is just about to report the loss,   *)
(* never while it asks for a stream, backs off, has given up or has ended. *)
ConnectedMeansStreaming ==
  ~closing =>
    /\ gen = "reading" => state = "connected" /\ reader
    /\ state = "connected" =>
         gen \in {"reading", "raised", "lost", "ended", "ended_clean", "unexpected"}

(* A thread that has ended leaves nothing behind that close() would have   *)
(* to cancel.                                                              *)
EndedHoldsNoStream ==
  thread = "ended" => ~reader /\ stream = "none"

(* "close() must ... unblock any pending batches() call so the ingest      *)
(* thread can exit cleanly" (ingestion/base.py:16-17): once close() has    *)
(* been called the thread ends, wherever it was.                           *)
CloseStopsThread == closing ~> thread = "ended"

(* A do_get that close() has not found tracked as a reader is still alive, *)
(* and closing the client has not aborted it.                              *)
OutlivesClose ==
  main = "stopped" /\ missed /\ stream \in {"calling", "open"} \ aborts

(* Under Flight the service keeps the contract of Ingestion: its thread    *)
(* ends for one of two reasons only, gives up exactly when it may, and     *)
(* wherever it is when close() is called it ends - unless it asks for a    *)
(* stream at that moment and the platform does not abort what it asks for. *)
Contract == INSTANCE Ingestion WITH
  excused <- OutlivesClose,
  thread <- IF thread = "ended" THEN "ended" ELSE "working",
  failures <- consecutive_failures,
  stopping <- main # "serving"
ImplementsIngestion == Contract!Spec

(* The state is DOWN after close() (observability design, 2.1; asserted    *)
(* in tests/test_ingest_health.py:32-33).                                  *)
DownAfterClose == main \in {"joining", "stopped"} => state = "down"

(* Whenever there is no stream, one is asked for in the end, unless the    *)
(* service is being stopped or the loop has given up: no way of losing a   *)
(* stream ends the thread quietly ("Clean end of stream while not closing  *)
(* == an unexpected disconnect", client.py:55).                            *)
LostStreamIsReopened ==
  stream = "none" ~> stream = "calling" \/ closing \/ requested
=============================================================================
