----------------------------- MODULE MCLSMStore -----------------------------
(* Instances of LSMStore for TLC: two keys, two values, batches of one and *)
(* of two rows.                                                            *)
EXTENDS LSMStore

MCKeys == {1, 2}

Put(k, v) == [id |-> k, val |-> v, op |-> "upsert"]
Del(k) == [id |-> k, val |-> "a", op |-> "delete"]

(* Batches of two column layouts, and an empty batch of one of them.       *)
Rows == {<<Put(1, "a")>>, <<Del(1)>>, <<Put(1, "b"), Put(2, "b")>>}
MCBatches ==
  [schema : Schemas, rows : Rows] \cup {[schema |-> "items", rows |-> <<>>]}
=============================================================================
