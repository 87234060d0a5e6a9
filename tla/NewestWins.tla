----------------------------- MODULE NewestWins -----------------------------
(***************************************************************************)
(* What the stream store promises its users, without memtables, runs or    *)
(* snapshots: a table in which the newest write of a key wins, a delete    *)
(* hides the key, and a query answers from one version of the table that   *)
(* was visible when the query started.                                     *)
(***************************************************************************)
EXTENDS Integers, Sequences, FiniteSets

CONSTANTS
  Keys,      \* values of the key column ("id"), integers
  Vals,      \* values of the payload columns (name and value)
  Absent,    \* the cell of a key that is not in the table
  Batches,   \* the record batches a client may send
  Readers,   \* the threads that run queries
  Limits,    \* the limits a query may carry; 0 means no limit
  Idle,      \* a reader without a query
  Failed,    \* the reply of a query that raised
  Faulty     \* whether an ingest may raise and a query may fail

VARIABLES
  written,   \* the table with every write ever handed to the store
  visible,   \* the table the next query will see
  pending,   \* for each reader the table its query runs on, or Idle
  reply      \* for each reader what its last query returned, or Idle

vars == <<written, visible, pending, reply>>

Tables == [Keys -> Vals \cup {Absent}]

(* The rows of a batch take effect in order, so the last row of a key      *)
(* decides its cell.                                                       *)
Touches(batch, k) == \E i \in DOMAIN batch : batch[i].id = k
LastRow(batch, k) ==
  CHOOSE i \in DOMAIN batch :
    /\ batch[i].id = k
    /\ \A j \in DOMAIN batch : batch[j].id = k => j <= i
Cell(row) == IF row.op = "delete" THEN Absent ELSE row.val
Apply(table, batch) ==
  [k \in Keys |->
    IF Touches(batch, k) THEN Cell(batch[LastRow(batch, k)]) ELSE table[k]]

(* The answer to a query: how many keys are in the table, and the rows of  *)
(* the first "limit" of them in key order.                                 *)
Present(table) == {k \in Keys : table[k] # Absent}
Answer(table, limit) ==
  [total |-> Cardinality(Present(table)),
   rows |-> {[id |-> k, val |-> table[k]] :
              k \in {k \in Present(table) :
                \/ limit = 0
                \/ Cardinality({j \in Present(table) : j < k}) < limit}}]

Init ==
  /\ written = [k \in Keys |-> Absent]
  /\ visible = [k \in Keys |-> Absent]
  /\ pending = [r \in Readers |-> Idle]
  /\ reply = [r \in Readers |-> Idle]

(* A batch is written as a whole; it is visible at once unless the ingest  *)
(* raised, in which case readers keep the version they had.                *)
Write(batch) ==
  /\ written' = Apply(written, batch)
  /\ \/ visible' = written'
     \/ Faulty /\ visible' = visible
  /\ UNCHANGED <<pending, reply>>

StartQuery(r) ==
  /\ pending[r] = Idle
  /\ pending' = [pending EXCEPT ![r] = visible]
  /\ reply' = [reply EXCEPT ![r] = Idle]
  /\ UNCHANGED <<written, visible>>

FinishQuery(r, limit) ==
  /\ pending[r] # Idle
  /\ pending' = [pending EXCEPT ![r] = Idle]
  /\ \/ reply' = [reply EXCEPT ![r] = Answer(pending[r], limit)]
     \/ Faulty /\ reply' = [reply EXCEPT ![r] = Failed]
  /\ UNCHANGED <<written, visible>>

Next ==
  \/ \E batch \in Batches : Write(batch)
  \/ \E r \in Readers : StartQuery(r)
  \/ \E r \in Readers, limit \in Limits : FinishQuery(r, limit)

Spec == Init /\ [][Next]_vars
=============================================================================
