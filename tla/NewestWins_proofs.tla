------------------------- MODULE NewestWins_proofs -------------------------
(***************************************************************************)
(* The log-structured store implements the newest-wins table, for every    *)
(* value of the constants: the safety of LSMStore's refinement.  Then the  *)
(* space the store needs, for finitely many keys.                          *)
(***************************************************************************)
EXTENDS LSMStore_proofs, FiniteSetTheorems, WellFoundedInduction

Good(rows) ==
  /\ rows \in SUBSET Row
  /\ IsFiniteSet(rows)
  /\ \A r, s \in rows : r.seqno = s.seqno => r = s
-----------------------------------------------------------------------------
(* The table of a set of rows.                                             *)

LEMMA OneWinner ==
  ASSUME NEW rows, Good(rows), NEW r \in Winners(rows), NEW s \in Winners(rows),
         r.id = s.id
  PROVE  r = s
<1>1. r \in Row /\ s \in Row /\ r.seqno <= s.seqno /\ s.seqno <= r.seqno
  BY DEF Good, Winners
<1>2. r.seqno \in Nat /\ s.seqno \in Nat
  BY <1>1 DEF Row
<1> QED BY <1>1, <1>2 DEF Good, Winners

(* The cell of a key is that of its winner, if there is one.               *)
LEMMA CellOfWinner ==
  ASSUME NEW rows, Good(rows), NEW w \in Winners(rows)
  PROVE  /\ w.id \in Keys
         /\ Table(rows)[w.id] = IF w.op = "delete" THEN Absent ELSE w.val
<1>1. w.id \in Keys
  BY DEF Good, Winners, Row
<1>2. CASE w.op = "delete"
  <2>1. ~\E r \in Winners(rows) : r.id = w.id /\ r.op # "delete"
    BY <1>2, OneWinner
  <2> QED BY <1>1, <1>2, <2>1 DEF Table
<1>3. CASE w.op # "delete"
  <2> DEFINE c == CHOOSE r \in Winners(rows) : r.id = w.id /\ r.op # "delete"
  <2>1. c \in Winners(rows) /\ c.id = w.id
    BY <1>3
  <2>2. c = w
    BY <2>1, OneWinner
  <2>3. Table(rows)[w.id] = c.val
    BY <1>1, <1>3 DEF Table
  <2> QED BY <1>1, <1>3, <2>2, <2>3
<1> QED BY <1>1, <1>2, <1>3

LEMMA CellOfNone ==
  ASSUME NEW rows, NEW k \in Keys, \A r \in Winners(rows) : r.id # k
  PROVE  Table(rows)[k] = Absent
BY DEF Table

LEMMA TableIsTable ==
  ASSUME NEW rows, Good(rows)
  PROVE  Table(rows) \in [Keys -> Vals \cup {Absent}]
<1>1. Table(rows) = [k \in Keys |-> Table(rows)[k]]
  BY DEF Table
<1>2. ASSUME NEW k \in Keys PROVE Table(rows)[k] \in Vals \cup {Absent}
  <2>1. CASE \E w \in Winners(rows) : w.id = k
    <3>1. PICK w \in Winners(rows) : w.id = k
      BY <2>1
    <3>2. w.val \in Vals
      BY DEF Good, Winners, Row
    <3> QED BY <3>1, <3>2, CellOfWinner
  <2>2. CASE ~\E w \in Winners(rows) : w.id = k
    BY <2>2, CellOfNone
  <2> QED BY <2>1, <2>2
<1> QED BY <1>1, <1>2

(* Two sets of rows with the same winners of every key are one table.      *)
LEMMA SameWinnersSameTable ==
  ASSUME NEW rows, NEW others, Winners(rows) = Winners(others)
  PROVE  Table(rows) = Table(others)
BY DEF Table

LEMMA WinnersWin == \A rows : Winners(Winners(rows)) = Winners(rows)
BY DEF Winners

LEMMA EmptyTable == Table({}) = [k \in Keys |-> Absent]
BY DEF Table, Winners
-----------------------------------------------------------------------------
(* A batch on top of a table.                                              *)

(* A set of indices has a last one.                                        *)
LEMMA LastIndex ==
  ASSUME NEW n \in Nat, NEW T \in SUBSET (1..n), T # {}
  PROVE  \E i \in T : \A j \in T : j <= i
<1> DEFINE Above(i) == {j \in T : j > i}
           family == {Above(i) : i \in T}
<1>1. IsFiniteSet(1..n)
  BY FS_Interval
<1>2. family \subseteq FiniteSubsetsOf(1..n) /\ family # {}
  <2>1. FiniteSubsetsOf(1..n) = SUBSET (1..n)
    BY <1>1, FS_FiniteSubsetsOfFinite
  <2>2. \A i \in T : Above(i) \in SUBSET (1..n)
    OBVIOUS
  <2> HIDE DEF Above
  <2>3. family \subseteq FiniteSubsetsOf(1..n)
    BY <2>1, <2>2
  <2>4. \E i \in T : Above(i) \in family
    OBVIOUS
  <2> QED BY <2>3, <2>4
<1>3. IsWellFoundedOn(StrictSubsetOrdering(1..n), FiniteSubsetsOf(1..n))
  BY FS_StrictSubsetOrderingWellFounded
<1>4. PICK least \in family :
        \A other \in family : ~(<<other, least>> \in StrictSubsetOrdering(1..n))
  BY <1>2, <1>3, WFMin
<1>5. PICK i \in T : least = Above(i)
  BY <1>4
<1>6. ASSUME NEW j \in T PROVE j <= i
  <2> SUFFICES ASSUME j > i PROVE FALSE
    OBVIOUS
  <2>1. Above(j) \subseteq Above(i) /\ j \in Above(i) /\ j \notin Above(j)
    <3>1. i \in Int /\ j \in Int /\ \A k \in T : k \in Int
      BY <1>5
    <3>2. ASSUME NEW x \in Above(j) PROVE x \in Above(i)
      <4>1. x \in T /\ x \in Int /\ x > j
        BY <3>1
      <4>2. x > i
        BY <3>1, <4>1
      <4> QED BY <4>1, <4>2
    <3>3. j \in Above(i) /\ ~(j > j)
      BY <3>1
    <3>4. j \notin Above(j)
      BY <3>3
    <3> QED BY <3>2, <3>3, <3>4
  <2>2. <<Above(j), Above(i)>> \in StrictSubsetOrdering(1..n)
    BY <2>1 DEF StrictSubsetOrdering
  <2> QED BY <1>4, <1>5, <2>2
<1> QED BY <1>6

LEMMA BatchOnTable ==
  ASSUME NEW rows, NEW batch \in Batches, NEW first \in Nat,
         Good(rows), Good(rows \cup Stamp(batch, first).rows),
         \A r \in rows : r.seqno < first
  PROVE  Table(rows \cup Stamp(batch, first).rows)
           = Abstract!Apply(Table(rows), batch.rows)
<1> DEFINE seq == batch.rows
           new == Stamp(batch, first).rows
           all == rows \cup new
           row(i) == [id |-> seq[i].id, val |-> seq[i].val,
                      op |-> seq[i].op, seqno |-> first + i - 1]
<1>1. seq \in Seq(BatchRow) /\ DOMAIN seq = 1..Len(seq) /\ Len(seq) \in Nat
  BY BatchesAreTyped
<1>2. new = {row(i) : i \in DOMAIN seq}
  BY DEF Stamp
<1>3. \A r \in all : r \in Row /\ r.seqno \in Nat
  BY DEF Good, Row
<1>4. ASSUME NEW k \in Keys, Abstract!Touches(seq, k)
      PROVE  Table(all)[k] = Abstract!Cell(seq[Abstract!LastRow(seq, k)])
  <2> DEFINE T == {i \in DOMAIN seq : seq[i].id = k}
             last == Abstract!LastRow(seq, k)
  <2>1. \E i \in T : \A j \in T : j <= i
    <3>1. T \in SUBSET (1..Len(seq)) /\ T # {}
      BY <1>1, <1>4 DEF Abstract!Touches
    <3> HIDE DEF T
    <3> QED BY <1>1, <3>1, LastIndex
  <2>2. last \in DOMAIN seq /\ seq[last].id = k
        /\ \A j \in DOMAIN seq : seq[j].id = k => j <= last
    BY <2>1 DEF Abstract!LastRow
  <2>3. row(last) \in new
    BY <1>2, <2>2
  <2>4. ASSUME NEW s \in all, s.id = k PROVE s.seqno <= first + last - 1
    <3>1. CASE s \in rows
      <4>1. s.seqno < first /\ s.seqno \in Nat /\ last \in 1..Len(seq)
        BY <1>1, <1>3, <2>2, <3>1
      <4> QED BY <4>1
    <3>2. CASE s \in new
      <4>1. PICK j \in DOMAIN seq : s = row(j)
        BY <1>2, <3>2
      <4>2. seq[j].id = k /\ s.seqno = first + j - 1
        BY <2>4, <4>1
      <4>3. j <= last
        BY <2>2, <4>2
      <4> QED BY <1>1, <2>2, <4>2, <4>3
    <3> QED BY <3>1, <3>2
  <2>5. row(last) \in Winners(all) /\ row(last).id = k
    BY <2>2, <2>3, <2>4 DEF Winners
  <2>6. Table(all)[k] = IF row(last).op = "delete" THEN Absent ELSE row(last).val
    BY <2>5, CellOfWinner
  <2> QED BY <2>6 DEF Abstract!Cell
<1>5. ASSUME NEW k \in Keys, ~Abstract!Touches(seq, k)
      PROVE  Table(all)[k] = Table(rows)[k]
  <2>1. \A s \in new : s.id # k
    BY <1>2, <1>5 DEF Abstract!Touches
  <2>2. \A r : r.id = k => (r \in Winners(all) <=> r \in Winners(rows))
    BY <2>1 DEF Winners
  <2>3. CASE \E w \in Winners(rows) : w.id = k
    <3>1. PICK w \in Winners(rows) : w.id = k
      BY <2>3
    <3> QED BY <2>2, <3>1, CellOfWinner
  <2>4. CASE ~\E w \in Winners(rows) : w.id = k
    BY <2>2, <2>4, CellOfNone
  <2> QED BY <2>3, <2>4
<1>6. Table(all) = [k \in Keys |-> Table(all)[k]]
  BY DEF Table
<1> QED BY <1>4, <1>5, <1>6 DEF Abstract!Apply
-----------------------------------------------------------------------------
(* A query over frames answers from their table.                           *)

LEMMA LiveRowsArePresentKeys ==
  ASSUME NEW frames, Good(RowsOf(frames))
  PROVE  LET table == Table(RowsOf(frames))
         IN  /\ \A r \in Live(frames) :
                  /\ r.id \in Abstract!Present(table)
                  /\ table[r.id] = r.val
             /\ \A k \in Abstract!Present(table) : \E r \in Live(frames) : r.id = k
             /\ \A r, s \in Live(frames) : r.id = s.id => r = s
             /\ IsFiniteSet(Live(frames))
<1> DEFINE rows == RowsOf(frames)
           table == Table(rows)
<1>1. ASSUME NEW r \in Live(frames)
      PROVE  r.id \in Abstract!Present(table) /\ table[r.id] = r.val
  <2>1. r \in Winners(rows) /\ r.op # "delete" /\ r \in Row
    BY DEF Live, Winners, Good
  <2>2. r.val \in Vals /\ r.id \in Keys
    BY <2>1 DEF Row
  <2>3. table[r.id] = r.val
    BY <2>1, CellOfWinner
  <2> QED BY <2>2, <2>3, AbsentIsNoValue DEF Abstract!Present
<1>2. ASSUME NEW k \in Abstract!Present(table)
      PROVE  \E r \in Live(frames) : r.id = k
  <2>1. k \in Keys /\ table[k] # Absent
    BY DEF Abstract!Present
  <2>2. PICK w \in Winners(rows) : w.id = k
    BY <2>1, CellOfNone
  <2>3. w.op # "delete"
    BY <2>1, <2>2, CellOfWinner
  <2> QED BY <2>2, <2>3 DEF Live
<1>3. \A r, s \in Live(frames) : r.id = s.id => r = s
  BY OneWinner DEF Live
<1>4. IsFiniteSet(Live(frames))
  <2>1. Live(frames) \in SUBSET rows
    BY DEF Live, Winners
  <2> QED BY <2>1, FS_Subset DEF Good
<1> QED BY <1>1, <1>2, <1>3, <1>4

(* Rows of different keys are as many as their keys.                       *)
LEMMA CountKeys ==
  ASSUME NEW rows, IsFiniteSet(rows), \A r, s \in rows : r.id = s.id => r = s
  PROVE  Cardinality({r.id : r \in rows}) = Cardinality(rows)
<1> DEFINE ids == {r.id : r \in rows}
           f == [r \in rows |-> r.id]
<1>1. f \in Bijection(rows, ids)
  BY DEF Bijection, Injection, Surjection, IsInjective
<1> QED BY <1>1, FS_Bijection DEF ExistsBijection

(* The abstract specification counts with the same operator.               *)
LEMMA CountsAgree == \A S : Abstract!Cardinality(S) = Cardinality(S)
BY DEF Abstract!Cardinality, Cardinality, Abstract!IsFiniteSet, IsFiniteSet

LEMMA AnswerFromTable ==
  ASSUME NEW frames, Good(RowsOf(frames)), SameSchema(frames), NEW limit
  PROVE  MergeToRows(frames, limit) = Abstract!Answer(Table(RowsOf(frames)), limit)
<1> DEFINE live == Live(frames)
           table == Table(RowsOf(frames))
           present == Abstract!Present(table)
           Below(k) == {s \in live : s.id < k}
           BelowKeys(k) == {j \in present : j < k}
<1>1. /\ \A r \in live : r.id \in present /\ table[r.id] = r.val
      /\ \A k \in present : \E r \in live : r.id = k
      /\ \A r, s \in live : r.id = s.id => r = s
      /\ IsFiniteSet(live)
  BY LiveRowsArePresentKeys
<1> HIDE DEF live, table, present
<1>2. Cardinality(live) = Cardinality(present)
  <2>1. present = {r.id : r \in live}
    BY <1>1
  <2> QED BY <1>1, <2>1, CountKeys
<1>3. ASSUME NEW k PROVE Cardinality(Below(k)) = Cardinality(BelowKeys(k))
  <2>1. BelowKeys(k) = {r.id : r \in Below(k)}
    BY <1>1
  <2>2. Below(k) \in SUBSET live
    OBVIOUS
  <2>3. IsFiniteSet(Below(k))
    BY <1>1, <2>2, FS_Subset
  <2> HIDE DEF Below, BelowKeys
  <2>4. \A r, s \in Below(k) : r.id = s.id => r = s
    BY <1>1, <2>2
  <2> QED BY <2>1, <2>3, <2>4, CountKeys
<1> DEFINE inLimit == {r \in live : limit = 0 \/ Cardinality(Below(r.id)) < limit}
           keysInLimit == {k \in present : limit = 0 \/ Cardinality(BelowKeys(k)) < limit}
<1>4. {[id |-> r.id, val |-> r.val] : r \in inLimit}
        = {[id |-> k, val |-> table[k]] : k \in keysInLimit}
  <2>1. ASSUME NEW r \in inLimit PROVE r.id \in keysInLimit /\ r.val = table[r.id]
    BY <1>1, <1>3
  <2>2. ASSUME NEW k \in keysInLimit
        PROVE  \E r \in inLimit : r.id = k /\ r.val = table[k]
    <3>1. PICK r \in live : r.id = k
      BY <1>1
    <3>2. Cardinality(Below(r.id)) = Cardinality(BelowKeys(k))
      BY <1>3, <3>1
    <3> HIDE DEF Below, BelowKeys
    <3> QED BY <1>1, <3>1, <3>2
  <2> HIDE DEF inLimit, keysInLimit
  <2> QED BY <2>1, <2>2
<1>5. MergeToRows(frames, limit)
        = [total |-> Cardinality(live),
           rows |-> {[id |-> r.id, val |-> r.val] : r \in inLimit}]
  BY DEF MergeToRows, live
<1>6. Abstract!Answer(table, limit)
        = [total |-> Cardinality(present),
           rows |-> {[id |-> k, val |-> table[k]] : k \in keysInLimit}]
  BY CountsAgree DEF Abstract!Answer, present
<1> QED BY <1>2, <1>4, <1>5, <1>6 DEF table
-----------------------------------------------------------------------------
(* The refinement.  Besides the numbering of rows it needs that there are  *)
(* finitely many, to count them, also in the snapshots that queries hold.  *)

Shown(snap) == RowsOf(snap.runs \o snap.memtable)

RefinementInv ==
  /\ NumberingInv
  /\ IsFiniteSet(Everywhere)
  /\ \A r \in Readers : held[r] # Idle => Good(Shown(held[r]))

LEMMA StoreIsGood ==
  RefinementInv => Good(Everywhere) /\ Good(Stored) /\ Good(Shown(snapshot))
<1> SUFFICES ASSUME RefinementInv
             PROVE  Good(Everywhere) /\ Good(Stored) /\ Good(Shown(snapshot))
  OBVIOUS
<1>1. Good(Everywhere)
  BY EverywhereAreRows DEF RefinementInv, NumberingInv, SeqnoIdentifiesRow, Good
<1>2. Stored \in SUBSET Everywhere /\ Shown(snapshot) \in SUBSET Everywhere
  BY DEF Everywhere, Shown
<1>3. ASSUME NEW rows \in SUBSET Everywhere PROVE Good(rows)
  BY <1>1, FS_Subset DEF Good
<1> QED BY <1>1, <1>2, <1>3

LEMMA StampIsFinite ==
  ASSUME NEW batch \in Batches, NEW first
  PROVE  IsFiniteSet(Stamp(batch, first).rows)
<1> DEFINE seq == batch.rows
           new == Stamp(batch, first).rows
           f == [i \in 1..Len(seq) |->
                   [id |-> seq[i].id, val |-> seq[i].val,
                    op |-> seq[i].op, seqno |-> first + i - 1]]
<1>1. DOMAIN seq = 1..Len(seq) /\ Len(seq) \in Nat
  BY BatchesAreTyped
<1>2. new = {f[i] : i \in 1..Len(seq)}
  BY <1>1 DEF Stamp
<1>3. IsFiniteSet(1..Len(seq))
  BY <1>1, FS_Interval
<1>4. f \in Surjection(1..Len(seq), new)
  <2> HIDE DEF new
  <2>1. f \in [1..Len(seq) -> new]
    BY <1>2
  <2>2. \A r \in new : \E i \in 1..Len(seq) : f[i] = r
    BY <1>2
  <2> QED BY <2>1, <2>2 DEF Surjection
<1> QED BY <1>3, <1>4, FS_Surjection

LEMMA InitRefinement == Init => RefinementInv /\ Abstract!Init
<1> SUFFICES ASSUME Init PROVE RefinementInv /\ Abstract!Init
  OBVIOUS
<1>1. Stored = {} /\ Everywhere = {} /\ Shown(snapshot) = {}
  BY RowsOfNone DEF Init, Everywhere, Stored, Shown
<1>2. RefinementInv
  BY <1>1, InitNumbering, FS_EmptySet DEF RefinementInv, Init
<1>3. TableOf(snapshot) = Table({})
  BY <1>1 DEF TableOf, Shown
<1> QED BY <1>1, <1>2, <1>3, EmptyTable DEF Abstract!Init, Init

LEMMA NextRefinementInv == RefinementInv /\ [Next]_vars => RefinementInv'
<1> SUFFICES ASSUME RefinementInv, [Next]_vars PROVE RefinementInv'
  OBVIOUS
<1>1. NumberingInv /\ NumberingInv' /\ TypeOK
  BY NextNumbering DEF RefinementInv, NumberingInv
<1>2. ASSUME NEW batch \in Batches, Ingest(batch) PROVE RefinementInv'
  <2>1. Everywhere' \in SUBSET (Everywhere \cup Stamp(batch, seqno).rows)
    BY <1>1, <1>2, IngestAddsTheBatch
  <2>2. IsFiniteSet(Everywhere')
    BY <2>1, StampIsFinite, FS_Union, FS_Subset DEF RefinementInv
  <2>3. UNCHANGED held
    BY <1>2 DEF Ingest, IngestBuffers, IngestFlushFails, IngestFlushes,
                IngestCompactFails, IngestCompacts, readers
  <2> QED BY <1>1, <2>2, <2>3 DEF RefinementInv
<1>3. ASSUME UNCHANGED store PROVE UNCHANGED Everywhere
  BY <1>3 DEF store, Everywhere, Stored
<1>4. ASSUME NEW r \in Readers, QueryReads(r) PROVE RefinementInv'
  <2>1. \A q \in Readers : held'[q] = held[q] \/ held'[q] = snapshot
    BY <1>1, <1>4 DEF QueryReads, TypeOK
  <2> QED BY <1>1, <1>3, <1>4, <2>1, StoreIsGood DEF QueryReads, RefinementInv
<1>5. ASSUME NEW r \in Readers, NEW limit \in Limits, QueryMerges(r, limit)
      PROVE  RefinementInv'
  <2>1. \A q \in Readers : held'[q] = held[q] \/ held'[q] = Idle
    BY <1>1, <1>5 DEF QueryMerges, TypeOK
  <2> QED BY <1>1, <1>3, <1>5, <2>1 DEF QueryMerges, RefinementInv
<1>6. CASE UNCHANGED vars
  BY <1>1, <1>3, <1>6 DEF vars, readers, RefinementInv
<1> QED BY <1>2, <1>4, <1>5, <1>6 DEF Next

LEMMA MixedSchemasAreFaulty ==
  ASSUME NEW frames \in Seq(FrameType), ~SameSchema(frames)
  PROVE  \E a, b \in Schemas : a # b
<1>1. PICK i \in DOMAIN frames, j \in DOMAIN frames : frames[i].schema # frames[j].schema
  BY DEF SameSchema
<1>2. frames[i] \in FrameType /\ frames[j] \in FrameType
  OBVIOUS
<1>3. frames[i].schema \in Schemas /\ frames[j].schema \in Schemas
  BY <1>2 DEF FrameType
<1> QED BY <1>1, <1>3

(* The rows of a batch are new, and apart from those of the store.         *)
LEMMA BatchKeepsGood ==
  ASSUME RefinementInv, NEW batch \in Batches
  PROVE  /\ Good(Stored \cup Stamp(batch, seqno).rows)
         /\ Stored \cap Stamp(batch, seqno).rows = {}
<1> DEFINE new == Stamp(batch, seqno).rows
           all == Stored \cup new
<1>1. TypeOK /\ seqno \in Nat
  BY DEF RefinementInv, NumberingInv, TypeOK
<1>2. Good(Stored)
  BY StoreIsGood
<1>3. all \in SUBSET Row /\ IsFiniteSet(all)
  BY <1>1, <1>2, StampedRows, StampIsFinite, FS_Union DEF Good, FrameType
<1>4. /\ \A r \in Stored : r.seqno \in Nat /\ r.seqno < seqno
      /\ \A r \in new : r.seqno \in Nat /\ seqno <= r.seqno
      /\ \A r, s \in new : r.seqno = s.seqno => r = s
  BY <1>1, <1>3, StampedRows
     DEF RefinementInv, NumberingInv, NumbersAreSpent, Everywhere, Row
<1>5. ASSUME NEW r \in Stored, NEW s \in new PROVE r.seqno # s.seqno
  BY <1>1, <1>4
<1>6. \A r, s \in all : r.seqno = s.seqno => r = s
  BY <1>2, <1>4, <1>5 DEF Good
<1> QED BY <1>3, <1>5, <1>6 DEF Good

LEMMA BatchesKeepGood ==
  RefinementInv =>
    \A batch \in Batches : Good(Stored \cup Stamp(batch, seqno).rows)
BY BatchKeepsGood

(* An ingest writes its batch, which is visible unless the ingest raised.  *)
LEMMA IngestWrites ==
  ASSUME RefinementInv, NEW batch \in Batches, Ingest(batch)
  PROVE  Abstract!Write(batch.rows)
<1> DEFINE all == Stored \cup Stamp(batch, seqno).rows
<1>1. TypeOK /\ seqno \in Nat
  BY DEF RefinementInv, NumberingInv, TypeOK
<1>2. Good(Stored)
  BY StoreIsGood
<1>3. Good(all)
  BY BatchKeepsGood
<1>4. Stored' = all \/ Stored' = Winners(all)
  BY <1>1, IngestStoresTheBatch
<1>5. Table(Stored') = Table(all)
  <2>1. Winners(Stored') = Winners(all)
    BY <1>4, WinnersWin
  <2> QED BY <2>1, SameWinnersSameTable
<1>6. Table(all) = Abstract!Apply(Table(Stored), batch.rows)
  <2>1. \A r \in Stored : r.seqno < seqno
    BY DEF RefinementInv, NumberingInv, NumbersAreSpent, Everywhere
  <2> QED BY <1>1, <1>2, <1>3, <2>1, BatchOnTable
<1>7. \/ TableOf(snapshot)' = Table(Stored)'
      \/ (\E a, b \in Schemas : a # b) /\ TableOf(snapshot)' = TableOf(snapshot)
  <2>1. CASE IngestBuffers(batch) \/ IngestFlushes(batch) \/ IngestCompacts(batch)
    BY <2>1 DEF IngestBuffers, IngestFlushes, IngestCompacts, Publish, TableOf, Stored
  <2>2. CASE IngestFlushFails(batch) \/ IngestCompactFails(batch)
    <3>1. \E a, b \in Schemas : a # b
      BY <1>1, <2>2, Buffers, MixedSchemasAreFaulty
         DEF IngestFlushFails, IngestCompactFails
    <3> QED BY <2>2, <3>1 DEF IngestFlushFails, IngestCompactFails, TableOf
  <2> QED BY <2>1, <2>2 DEF Ingest
<1>8. UNCHANGED <<held, reply>>
  BY DEF Ingest, IngestBuffers, IngestFlushFails, IngestFlushes,
         IngestCompactFails, IngestCompacts, readers
<1> QED BY <1>5, <1>6, <1>7, <1>8 DEF Abstract!Write

LEMMA HeldIsTable ==
  ASSUME RefinementInv, NEW r \in Readers, held[r] # Idle
  PROVE  TableOf(held[r]) # Idle
<1>1. TableOf(held[r]) \in [Keys -> Vals \cup {Absent}]
  BY TableIsTable DEF RefinementInv, TableOf, Shown
<1> QED BY <1>1, IdleIsNoTable

LEMMA QueryStarts ==
  ASSUME RefinementInv, NEW r \in Readers, QueryReads(r)
  PROVE  Abstract!StartQuery(r)
<1> DEFINE pending == [q \in Readers |-> IF held[q] = Idle THEN Idle ELSE TableOf(held[q])]
<1>1. TypeOK
  BY DEF RefinementInv, NumberingInv
<1>2. pending[r] = Idle /\ snapshot # Idle
  BY <1>1, IdleIsNoSnapshot DEF QueryReads, TypeOK
<1>3. pending' = [pending EXCEPT ![r] = TableOf(snapshot)]
  <2>1. held' = [held EXCEPT ![r] = snapshot] /\ held \in [Readers -> SnapshotType \cup {Idle}]
    BY <1>1 DEF QueryReads, TypeOK
  <2>2. ASSUME NEW q \in Readers
        PROVE  pending'[q] = [pending EXCEPT ![r] = TableOf(snapshot)][q]
    <3>1. CASE q = r
      BY <1>2, <2>1, <3>1
    <3>2. CASE q # r
      BY <2>1, <3>2
    <3> QED BY <3>1, <3>2
  <2> QED BY <2>2
<1>4. UNCHANGED <<Table(Stored), TableOf(snapshot)>>
  BY DEF QueryReads, store, Stored
<1> QED BY <1>2, <1>3, <1>4 DEF Abstract!StartQuery, QueryReads

LEMMA QueryFinishes ==
  ASSUME RefinementInv, NEW r \in Readers, NEW limit \in Limits, QueryMerges(r, limit)
  PROVE  Abstract!FinishQuery(r, limit)
<1> DEFINE pending == [q \in Readers |-> IF held[q] = Idle THEN Idle ELSE TableOf(held[q])]
           frames == held[r].runs \o held[r].memtable
<1>1. TypeOK /\ held[r] # Idle
  BY DEF RefinementInv, NumberingInv, QueryMerges
<1>2. pending[r] = TableOf(held[r]) /\ pending[r] # Idle
  BY <1>1, HeldIsTable
<1>3. pending' = [pending EXCEPT ![r] = Idle]
  <2>1. held' = [held EXCEPT ![r] = Idle] /\ held \in [Readers -> SnapshotType \cup {Idle}]
    BY <1>1 DEF QueryMerges, TypeOK
  <2>2. ASSUME NEW q \in Readers PROVE pending'[q] = [pending EXCEPT ![r] = Idle][q]
    <3>1. CASE q = r
      BY <2>1, <3>1
    <3>2. CASE q # r
      BY <2>1, <3>2
    <3> QED BY <3>1, <3>2
  <2> QED BY <2>2
<1>4. \/ MergeToRows(frames, limit) = Abstract!Answer(TableOf(held[r]), limit)
      \/ (\E a, b \in Schemas : a # b) /\ MergeToRows(frames, limit) = Failed
  <2>1. CASE SameSchema(frames)
    <3>1. Good(RowsOf(frames))
      BY <1>1 DEF RefinementInv, Shown
    <3> QED BY <2>1, <3>1, AnswerFromTable DEF TableOf
  <2>2. CASE ~SameSchema(frames)
    <3>1. held[r] \in SnapshotType
      BY <1>1 DEF TypeOK
    <3>2. frames \in Seq(FrameType)
      BY <3>1 DEF SnapshotType
    <3> QED BY <2>2, <3>2, MixedSchemasAreFaulty DEF MergeToRows
  <2> QED BY <2>1, <2>2
<1>5. UNCHANGED <<Table(Stored), TableOf(snapshot)>>
  BY DEF QueryMerges, store, Stored
<1> QED BY <1>2, <1>3, <1>4, <1>5 DEF Abstract!FinishQuery, QueryMerges

LEMMA NextRefines == RefinementInv /\ [Next]_vars => [Abstract!Next]_(Abstract!vars)
<1> SUFFICES ASSUME RefinementInv, [Next]_vars
             PROVE  [Abstract!Next]_(Abstract!vars)
  OBVIOUS
<1>1. ASSUME NEW batch \in Batches, Ingest(batch) PROVE Abstract!Next
  BY <1>1, IngestWrites DEF Abstract!Next
<1>2. ASSUME NEW r \in Readers, QueryReads(r) PROVE Abstract!Next
  BY <1>2, QueryStarts DEF Abstract!Next
<1>3. ASSUME NEW r \in Readers, NEW limit \in Limits, QueryMerges(r, limit)
      PROVE  Abstract!Next
  BY <1>3, QueryFinishes DEF Abstract!Next
<1>4. CASE UNCHANGED vars
  BY <1>4 DEF vars, store, readers, Abstract!vars, Stored
<1> QED BY <1>1, <1>2, <1>3, <1>4 DEF Next

(* Every behaviour of the store, with its memtable, runs, flushes and      *)
(* compactions that may raise, and queries that merge an old snapshot, is  *)
(* one of a table in which the newest write of a key wins and a query      *)
(* answers from one version of the table.                                  *)
THEOREM StoreIsNewestWins == Spec => ImplementsNewestWins
<1>1. Spec => []RefinementInv
  BY InitRefinement, NextRefinementInv, PTL DEF Spec
<1>2. Spec => Abstract!Init /\ [][Abstract!Next]_(Abstract!vars)
  BY <1>1, InitRefinement, NextRefines, PTL DEF Spec
<1> QED BY <1>2 DEF ImplementsNewestWins, Abstract!Spec
-----------------------------------------------------------------------------
(* The space of the store, with finitely many keys.                        *)

(* What makes BoundedWorkingSet inductive: which of its parts hold without *)
(* the premise that no schemas are mixed, and which need only one of them. *)
MemtableIsCounted == memtable_rows = Cardinality(RowsOf(memtable))
MemtableIsSmall == SameSchema(memtable) => memtable_rows < FlushRows
RunsAreFew == SameSchema(runs) => Len(runs) <= 1 \/ Len(runs) < CompactionRuns

SmallFrame(frame) ==
  \/ Cardinality(frame.rows) <= Cardinality(Keys)
  \/ \E batch \in Batches : Cardinality(frame.rows) < FlushRows + Len(batch.rows)
RunsAreSmall == \A i \in DOMAIN runs : SmallFrame(runs[i])

SpaceInv ==
  /\ RefinementInv
  /\ MemtableIsCounted
  /\ FlushRows > 0 => MemtableIsSmall /\ RunsAreSmall
  /\ RunsAreFew
-----------------------------------------------------------------------------
LEMMA StampCount ==
  ASSUME NEW batch \in Batches, NEW first \in Nat
  PROVE  Cardinality(Stamp(batch, first).rows) = Len(batch.rows)
<1> DEFINE seq == batch.rows
           new == Stamp(batch, first).rows
           f == [i \in 1..Len(seq) |->
                   [id |-> seq[i].id, val |-> seq[i].val,
                    op |-> seq[i].op, seqno |-> first + i - 1]]
<1>1. DOMAIN seq = 1..Len(seq) /\ Len(seq) \in Nat
  BY BatchesAreTyped
<1>2. new = {f[i] : i \in 1..Len(seq)}
  BY <1>1 DEF Stamp
<1>3. IsFiniteSet(1..Len(seq)) /\ Cardinality(1..Len(seq)) = Len(seq)
  <2>1. ASSUME NEW n \in Nat PROVE IsFiniteSet(1..n) /\ Cardinality(1..n) = n
    <3>1. IsFiniteSet(1..n) /\ Cardinality(1..n) = IF 1 > n THEN 0 ELSE n - 1 + 1
      BY FS_Interval
    <3> QED BY <3>1
  <2> QED BY <1>1, <2>1
<1>4. \A i, j \in 1..Len(seq) : f[i] = f[j] => i = j
  <2> TAKE i, j \in 1..Len(seq)
  <2>1. f[i].seqno = first + i - 1 /\ f[j].seqno = first + j - 1
    OBVIOUS
  <2> QED BY <1>1, <2>1
<1>5. ExistsBijection(1..Len(seq), new)
  <2> HIDE DEF new, f
  <2>1. f \in [1..Len(seq) -> new]
    BY <1>2 DEF f
  <2>2. \A r \in new : \E i \in 1..Len(seq) : f[i] = r
    BY <1>2
  <2> QED BY <1>4, <2>1, <2>2
          DEF ExistsBijection, Bijection, Injection, Surjection, IsInjective
<1> QED BY <1>3, <1>5, FS_Bijection

LEMMA PartHasOneSchema ==
  ASSUME NEW s \in Seq(FrameType), NEW f \in FrameType, SameSchema(Append(s, f))
  PROVE  SameSchema(s)
<1>1. \A i \in DOMAIN s : i \in DOMAIN Append(s, f) /\ Append(s, f)[i] = s[i]
  OBVIOUS
<1> QED BY <1>1 DEF SameSchema

(* A compacted frame has one row a key at most.                            *)
LEMMA WinnersAreFew ==
  ASSUME IsFiniteSet(Keys), NEW rows, Good(rows)
  PROVE  Cardinality(Winners(rows)) <= Cardinality(Keys)
<1> DEFINE ids == {r.id : r \in Winners(rows)}
<1>1. Winners(rows) \in SUBSET rows /\ ids \in SUBSET Keys
  BY DEF Winners, Good, Row
<1>2. IsFiniteSet(Winners(rows))
  BY <1>1, FS_Subset DEF Good
<1>3. Cardinality(ids) = Cardinality(Winners(rows))
  BY <1>2, OneWinner, CountKeys
<1>4. Cardinality(ids) <= Cardinality(Keys)
  BY <1>1, FS_Subset
<1> QED BY <1>3, <1>4

LEMMA BatchIsCounted ==
  ASSUME RefinementInv, MemtableIsCounted, NEW batch \in Batches
  PROVE  Cardinality(RowsOf(memtable) \cup Stamp(batch, seqno).rows)
           = memtable_rows + Len(batch.rows)
<1> DEFINE new == Stamp(batch, seqno).rows
<1>1. TypeOK /\ seqno \in Nat
  BY DEF RefinementInv, NumberingInv, TypeOK
<1>2. RowsOf(memtable) \in SUBSET Stored
  BY <1>1, BatchJoinsRows
<1>3. IsFiniteSet(RowsOf(memtable)) /\ IsFiniteSet(new) /\ RowsOf(memtable) \cap new = {}
  BY <1>2, StoreIsGood, StampIsFinite, BatchKeepsGood, FS_Subset DEF Good
<1>4. Cardinality(new) = Len(batch.rows) /\ Len(batch.rows) \in Nat
  BY <1>1, StampCount, BatchesAreTyped
<1>5. memtable_rows \in Nat
  BY <1>1 DEF TypeOK
<1>6. Cardinality(RowsOf(memtable) \cup new)
        = Cardinality(RowsOf(memtable)) + Cardinality(new)
          - Cardinality({})
  BY <1>3, FS_Union
<1>7. Cardinality({}) = 0 /\ Cardinality(RowsOf(memtable)) = memtable_rows
  BY FS_EmptySet DEF MemtableIsCounted
<1> HIDE DEF new
<1>8. Cardinality(RowsOf(memtable) \cup new) = memtable_rows + Len(batch.rows)
  BY <1>4, <1>5, <1>6, <1>7
<1> QED BY <1>8 DEF new
-----------------------------------------------------------------------------
LEMMA InitSpace == Init => SpaceInv
<1> SUFFICES ASSUME Init PROVE SpaceInv
  OBVIOUS
<1>1. RowsOf(memtable) = {} /\ memtable_rows = 0 /\ runs = <<>> /\ memtable = <<>>
  BY RowsOfNone DEF Init
<1>2. MemtableIsCounted /\ RunsAreFew /\ RunsAreSmall
  BY <1>1, FS_EmptySet DEF MemtableIsCounted, RunsAreFew, RunsAreSmall
<1>3. FlushRows > 0 => MemtableIsSmall
  BY <1>1, ThresholdsAreNaturals DEF MemtableIsSmall
<1> QED BY <1>2, <1>3, InitRefinement DEF SpaceInv

LEMMA NextSpace ==
  ASSUME IsFiniteSet(Keys)
  PROVE  SpaceInv /\ [Next]_vars => SpaceInv'
<1> SUFFICES ASSUME SpaceInv, [Next]_vars PROVE SpaceInv'
  OBVIOUS
<1>1. RefinementInv /\ RefinementInv' /\ TypeOK
  BY NextRefinementInv DEF SpaceInv, RefinementInv, NumberingInv
<1>2. /\ runs \in Seq(FrameType) /\ memtable \in Seq(FrameType)
      /\ memtable_rows \in Nat /\ FlushRows \in Nat /\ CompactionRuns \in Nat
  BY <1>1, ThresholdsAreNaturals DEF TypeOK
<1>3. ASSUME NEW batch \in Batches, Ingest(batch) PROVE SpaceInv'
  <2> DEFINE new == Stamp(batch, seqno)
             flushed == Concat(Buffered(batch))
  <2>1. /\ new \in FrameType /\ flushed \in FrameType /\ Len(batch.rows) \in Nat
        /\ Buffered(batch) = Append(memtable, new)
        /\ Flushed(batch) = Append(runs, flushed)
        /\ Flushed(batch) \in Seq(FrameType)
    BY <1>1, Buffers, FramesStayFrames DEF Buffered, Flushed
  <2>2. /\ Cardinality(RowsOf(Buffered(batch))) = memtable_rows + Len(batch.rows)
        /\ Cardinality(flushed.rows) = memtable_rows + Len(batch.rows)
    BY <1>1, BatchIsCounted, BatchJoinsRows DEF SpaceInv
  <2>3. Cardinality(RowsOf(<<>>)) = 0 /\ SameSchema(<<>>)
    BY RowsOfNone, FS_EmptySet DEF SameSchema
  <2>4. CASE IngestBuffers(batch)
    <3>1. MemtableIsCounted'
      BY <2>2, <2>4 DEF IngestBuffers, MemtableIsCounted
    <3>2. FlushRows > 0 => MemtableIsSmall' /\ RunsAreSmall'
      BY <1>2, <2>1, <2>4
         DEF IngestBuffers, ReachesFlush, MemtableIsSmall, SpaceInv, RunsAreSmall
    <3>3. RunsAreFew'
      BY <2>4 DEF IngestBuffers, RunsAreFew, SpaceInv
    <3> QED BY <1>1, <3>1, <3>2, <3>3 DEF SpaceInv
  <2>5. CASE IngestFlushFails(batch)
    <3>1. MemtableIsCounted'
      BY <2>2, <2>5 DEF IngestFlushFails, MemtableIsCounted
    <3>2. FlushRows > 0 => MemtableIsSmall' /\ RunsAreSmall'
      BY <2>5 DEF IngestFlushFails, MemtableIsSmall, SpaceInv, RunsAreSmall
    <3>3. RunsAreFew'
      BY <2>5 DEF IngestFlushFails, RunsAreFew, SpaceInv
    <3> QED BY <1>1, <3>1, <3>2, <3>3 DEF SpaceInv
  <2>6. CASE IngestFlushes(batch) \/ IngestCompactFails(batch)
    <3>1. /\ Flush(batch) /\ runs' = Flushed(batch)
          /\ ~ReachesCompaction(batch) \/ ~SameSchema(Flushed(batch))
      BY <2>6 DEF IngestFlushes, IngestCompactFails
    <3>2. MemtableIsCounted'
      BY <2>3, <3>1 DEF Flush, MemtableIsCounted
    <3>3. FlushRows > 0 => MemtableIsSmall'
      BY <1>2, <3>1 DEF Flush, MemtableIsSmall
    <3>4. FlushRows > 0 => SmallFrame(flushed)
      <4>1. SameSchema(memtable)
        BY <1>2, <2>1, <3>1, PartHasOneSchema DEF Flush
      <4> QED BY <1>2, <2>1, <2>2, <4>1 DEF SpaceInv, MemtableIsSmall, SmallFrame
    <3>5. FlushRows > 0 => RunsAreSmall'
      <4> SUFFICES ASSUME FlushRows > 0, NEW i \in DOMAIN Flushed(batch)
                   PROVE  SmallFrame(Flushed(batch)[i])
        BY <3>1 DEF RunsAreSmall, SmallFrame
      <4>1. CASE i \in DOMAIN runs
        BY <1>2, <2>1, <4>1 DEF SpaceInv, RunsAreSmall
      <4>2. CASE i \notin DOMAIN runs
        <5>1. Flushed(batch)[i] = flushed
          BY <1>2, <2>1, <4>2
        <5> QED BY <3>4, <5>1
      <4> QED BY <4>1, <4>2
    <3>6. CASE ~ReachesCompaction(batch)
      <4>1. RunsAreFew'
        BY <1>2, <2>1, <3>1, <3>6 DEF ReachesCompaction, RunsAreFew
      <4> QED BY <1>1, <3>2, <3>3, <3>5, <4>1 DEF SpaceInv
    <3>7. CASE ~SameSchema(Flushed(batch))
      <4>1. RunsAreFew'
        BY <3>1, <3>7 DEF RunsAreFew
      <4> QED BY <1>1, <3>2, <3>3, <3>5, <4>1 DEF SpaceInv
    <3> QED BY <3>6, <3>7, <3>1
  <2>7. CASE IngestCompacts(batch)
    <3> DEFINE merged == MergeFrame(Flushed(batch))
    <3>1. Flush(batch) /\ runs' = <<merged>>
      BY <2>7 DEF IngestCompacts
    <3>2. MemtableIsCounted'
      BY <2>3, <3>1 DEF Flush, MemtableIsCounted
    <3>3. FlushRows > 0 => MemtableIsSmall'
      BY <1>2, <3>1 DEF Flush, MemtableIsSmall
    <3>4. SmallFrame(merged)
      <4>1. merged.rows = Winners(Stored \cup new.rows)
        BY <1>1, BatchJoinsRows DEF MergeFrame
      <4>2. Cardinality(merged.rows) <= Cardinality(Keys)
        BY <1>1, <4>1, BatchKeepsGood, WinnersAreFew
      <4> QED BY <4>2 DEF SmallFrame
    <3>5. RunsAreSmall' /\ RunsAreFew'
      <4> HIDE DEF merged
      <4>1. Len(runs') = 1 /\ DOMAIN runs' = {1} /\ runs'[1] = merged
        BY <3>1
      <4> QED BY <3>4, <4>1 DEF RunsAreSmall, RunsAreFew, SmallFrame
    <3> QED BY <1>1, <3>2, <3>3, <3>5 DEF SpaceInv
  <2> QED BY <1>3, <2>4, <2>5, <2>6, <2>7
          DEF Ingest
<1>4. ASSUME UNCHANGED store PROVE SpaceInv'
  BY <1>1, <1>4 DEF store, SpaceInv, MemtableIsCounted, MemtableIsSmall,
                    RunsAreSmall, RunsAreFew
<1> QED BY <1>3, <1>4 DEF Next, QueryReads, QueryMerges, vars

(* While no schemas are mixed, the store needs space for its keys and a    *)
(* bounded tail of writes, for every threshold and any sizes of batches.   *)
THEOREM WorkingSetIsBounded ==
  ASSUME IsFiniteSet(Keys)
  PROVE  Spec => []BoundedWorkingSet
<1>1. SpaceInv => BoundedWorkingSet
  BY DEF SpaceInv, MemtableIsCounted, MemtableIsSmall, RunsAreSmall, RunsAreFew,
         SmallFrame, BoundedWorkingSet
<1> QED BY <1>1, InitSpace, NextSpace, PTL DEF Spec
=============================================================================
