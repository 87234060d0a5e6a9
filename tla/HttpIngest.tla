------------------------------ MODULE HttpIngest ------------------------------
(***************************************************************************)
(* POST /data/ingest (routers/data.py:36-48) beside the ingest thread: a   *)
(* request carries a stream of batches and ingests them one after the      *)
(* other, each on a thread of the asyncio pool, while the ingest thread    *)
(* ingests batches of its own.  A request that fails halfway leaves behind *)
(* what it had ingested, and a client may send it again, also when only    *)
(* the answer was lost.                                                    *)
(***************************************************************************)
EXTENDS LSMThreads

CONSTANTS
  Clients,  \* the writers that are HTTP clients, one request at a time each
  Bodies    \* streams of batches that may be posted

ASSUME ClientsAreWriters == Clients \subseteq Writers
ASSUME BodiesAreStreams ==
  /\ Bodies \subseteq Seq(Batches) \ {<<>>}
  /\ \A body \in Bodies : \A i \in DOMAIN body : body[i].schema = body[1].schema

VARIABLES
  request,  \* the request of each client
  before    \* history: the table when the client first sent it

httpVars == <<threadVars, request, before>>

(* readable: how many batches of the body the reader can decode; next: the *)
(* batch the handler is at; earlier: history, rows of the batches before.  *)
NoRequest == [body |-> <<>>, readable |-> 0, next |-> 1, status |-> "none",
              earlier |-> {}]

HttpInit ==
  /\ ThreadInit
  /\ request = [c \in Clients |-> NoRequest]
  /\ before = [c \in Clients |-> Table({})]

Open(c) == request[c].status = "open"
Ended(c, status) ==
  request' = [request EXCEPT ![c] = [@ EXCEPT !.status = status]]

(* A request may have been damaged or cut off on its way.                  *)
Sends(c, body) ==
  /\ \E readable \in 0..Len(body) :
       request' = [request EXCEPT ![c] =
         [NoRequest EXCEPT !.body = body, !.readable = readable, !.status = "open"]]
  /\ UNCHANGED threadVars

Post(c, body) ==
  /\ ~Open(c)
  /\ Sends(c, body)
  /\ before' = [before EXCEPT ![c] = Table(Stored)]

(* The client was refused, or never got the answer.                        *)
Retry(c) ==
  /\ request[c].status \in {"202", "400", "500"}
  /\ Sends(c, request[c].body)
  /\ UNCHANGED before

(* Mutation: all batches of the body are handed over, the last one first.  *)
DispatchBackwards(c) ==
  /\ Open(c) /\ request[c].readable = Len(request[c].body)
  /\ request[c].next <= request[c].readable
  /\ StampRows(c, request[c].body[request[c].readable + 1 - request[c].next])
  /\ UNCHANGED <<request, before>>

Dispatch(c) ==
  /\ Open(c)
  /\ request[c].next <= request[c].readable
  /\ StampRows(c, request[c].body[request[c].next])
  /\ UNCHANGED <<request, before>>

BatchGoesOn(c) == IngestGoesOn(c) /\ UNCHANGED <<request, before>>

BatchIsIn(c) ==
  /\ IngestReturns(c)
  /\ LET q == request[c]
     IN request' = [request EXCEPT ![c] =
          [q EXCEPT !.next = q.next + 1,
                    !.earlier = q.earlier \cup local[c].frame.rows]]
  /\ UNCHANGED before

(* Mutation: as in the ingest loop, the batch is logged and skipped.       *)
BatchIsSkipped(c) ==
  /\ IngestRaises(c)
  /\ request' = [request EXCEPT ![c] = [@ EXCEPT !.next = @ + 1]]
  /\ UNCHANGED before

(* Polars raises: the rest of the body is not read.                        *)
BatchRaises(c) ==
  /\ IngestRaises(c)
  /\ Ended(c, "500")
  /\ UNCHANGED before

(* ArrowInvalid is answered 400, any other exception of the reader 500.    *)
BodyBreaks(c) ==
  /\ Open(c) /\ At(c, "idle")
  /\ request[c].next = request[c].readable + 1
  /\ request[c].readable < Len(request[c].body)
  /\ \E status \in {"400", "500"} : Ended(c, status)
  /\ UNCHANGED <<threadVars, before>>

Answers(c) ==
  /\ Open(c) /\ At(c, "idle")
  /\ request[c].next > Len(request[c].body)
  /\ Ended(c, "202")
  /\ UNCHANGED <<threadVars, before>>

ClientStep(c) ==
  \/ \E body \in Bodies : Post(c, body)
  \/ Retry(c) \/ Dispatch(c) \/ BatchGoesOn(c) \/ BatchIsIn(c) \/ BatchRaises(c)
  \/ BodyBreaks(c) \/ Answers(c)

(* The ingest thread: a batch that raises is logged, and the loop goes on. *)
LoopStep(w) ==
  /\ \/ \E batch \in Batches : StampRows(w, batch)
     \/ IngestGoesOn(w) \/ IngestRaises(w) \/ IngestReturns(w)
  /\ UNCHANGED <<request, before>>

HttpNext ==
  \/ \E c \in Clients : ClientStep(c)
  \/ \E w \in Writers \ Clients : LoopStep(w)
  \/ \E r \in Readers : ReaderStep(r) /\ UNCHANGED <<request, before>>

HttpSpec == HttpInit /\ [][HttpNext]_httpVars
-----------------------------------------------------------------------------
HttpTypeOK ==
  /\ ThreadTypeOK
  /\ \A c \in Clients :
       /\ request[c].body \in Bodies \cup {<<>>}
       /\ request[c].readable \in 0..Len(request[c].body)
       /\ request[c].next \in 1..Len(request[c].body) + 1
       /\ request[c].status \in {"none", "open", "202", "400", "500"}
       /\ request[c].earlier \subseteq Row
       /\ before[c] \in [Keys -> Vals \cup {Absent}]

(* A client whose request is accepted in the end - after answers 400 or    *)
(* 500 that left some of its batches behind, after answers that were lost, *)
(* after flushes and compactions that raised - reads the table as if the   *)
(* body had been applied exactly once, in its order, to the table as it    *)
(* was when the client first sent it (with no other writer): a key that no *)
(* batch of the body touches has the cell it had then, any other the cell  *)
(* that the last batch that touches it gives it.                           *)
RetryCountsOnce ==
  \A c \in Clients :
    request[c].status = "202" =>
      LET body == request[c].body
          Touching(k) == {i \in DOMAIN body : Abstract!Touches(body[i].rows, k)}
      IN \A k \in Keys :
           /\ Touching(k) = {} => TableOf(snapshot)[k] = before[c][k]
           /\ \A i \in Touching(k) :
                (\A j \in Touching(k) : j <= i) =>
                  TableOf(snapshot)[k] = Abstract!Apply(before[c], body[i].rows)[k]

(* Whatever the ingest thread does in between, a row of a body is numbered *)
(* above all rows of the batches before it in the body, so that a later    *)
(* row of a key is never hidden by an earlier one of the same request.     *)
BodyOrderIsKept ==
  \A c \in Clients :
    ~At(c, "idle") => \A r \in local[c].frame.rows, e \in request[c].earlier :
                        e.seqno < r.seqno

(* The rows of a request that was answered 202 are still in the store when *)
(* no ingest is running, so that at least the next publication shows them  *)
(* (tests/test_http_ingest.py:95-96 polls for such a row).                 *)
AcceptedIsKept ==
  (\A w \in Writers : At(w, "idle")) =>
    \A c \in Clients :
      request[c].status = "202" =>
        \A r \in request[c].earlier :
          \E s \in Stored : s.id = r.id /\ s.seqno >= r.seqno
=============================================================================
