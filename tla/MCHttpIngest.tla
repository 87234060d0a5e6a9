---------------------------- MODULE MCHttpIngest ----------------------------
(* Instances of HttpIngest for TLC.  The batches share no row, so a row    *)
(* tells which batch it came from.                                         *)
EXTENDS HttpIngest

MCKeys == {1, 2}

Put(k, v) == [id |-> k, val |-> v, op |-> "upsert"]
Del(k) == [id |-> k, val |-> "b", op |-> "delete"]

MCRows == {<<Put(1, "a"), Put(2, "a")>>, <<Del(1)>>, <<Put(2, "b")>>}
MCBatches == [schema : Schemas, rows : MCRows]

(* The second batch of a body takes back what the first one wrote.         *)
MCBodies ==
  {<<[schema |-> s, rows |-> <<Put(1, "a"), Put(2, "a")>>],
     [schema |-> s, rows |-> <<Del(1)>>]>> : s \in Schemas}
  \cup {<<[schema |-> s, rows |-> <<Put(2, "b")>>]>> : s \in Schemas}

RaceBatches == [schema : Schemas, rows : {<<Put(1, "a"), Put(2, "a")>>, <<Del(1)>>}]
RaceBodies ==
  {<<[schema |-> s, rows |-> <<Put(1, "a"), Put(2, "a")>>],
     [schema |-> s, rows |-> <<Del(1)>>]>> : s \in Schemas}
=============================================================================
