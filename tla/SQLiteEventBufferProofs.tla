----------------------- MODULE SQLiteEventBufferProofs -----------------------
(***************************************************************************)
(* Lemmas about the methods of SQLiteEventBuffer, used by the proofs about *)
(* BufferClient and about HttpShipper.                                     *)
(***************************************************************************)
EXTENDS SQLiteEventBuffer, FiniteSetTheorems, TLAPS

(* What ORDER BY id LIMIT n selects are rows of the table.                 *)
LEMMA OldestSubset ==
    ASSUME NEW n, NEW rows
    PROVE  Oldest(n, rows) \subseteq rows
BY DEF Oldest

(* The image of a finite set under a function is finite and no larger.     *)
LEMMA FiniteImage ==
    ASSUME NEW S, IsFiniteSet(S), NEW f, f = [x \in S |-> f[x]]
    PROVE  /\ IsFiniteSet({f[x] : x \in S})
           /\ Cardinality({f[x] : x \in S}) <= Cardinality(S)
<1> DEFINE T == {f[x] : x \in S}
<1>1. f \in Surjection(S, T)
  BY DEF Surjection
<1>2. QED
  BY <1>1, FS_Surjection

(* The selected rows are older than all the others.                        *)
LEMMA OldestAreOlder ==
    ASSUME NEW rows \in SUBSET EventBufferRecord, IsFiniteSet(rows),
           NEW n \in Nat,
           NEW r \in Oldest(n, rows), NEW s \in rows \ Oldest(n, rows)
    PROVE  r.id < s.id
<1>1. r \in rows /\ s \in rows /\ r.id \in Nat /\ s.id \in Nat
  BY DEF Oldest, EventBufferRecord
<1>2. SUFFICES ASSUME s.id <= r.id PROVE FALSE
  BY <1>1
<1>3. Older(s, rows) \subseteq Older(r, rows)
  BY <1>1, <1>2 DEF Older, EventBufferRecord
<1>4. IsFiniteSet(Older(r, rows))
  BY FS_Subset DEF Older
<1>5. Cardinality(Older(s, rows)) <= Cardinality(Older(r, rows))
  BY <1>3, <1>4, FS_Subset
<1>6. Cardinality(Older(r, rows)) \in Nat /\ Cardinality(Older(s, rows)) \in Nat
  BY <1>3, <1>4, FS_Subset, FS_CardinalityType
<1>7. Cardinality(Older(r, rows)) < n /\ ~(Cardinality(Older(s, rows)) < n)
  BY DEF Oldest
<1>8. QED
  BY <1>5, <1>6, <1>7

(* Deleting the n oldest of k rows leaves at most k - n: a row that stays  *)
(* has a rank in n..k-1, and no two rows have the same rank.               *)
LEMMA OldestCount ==
    ASSUME NEW rows \in SUBSET EventBufferRecord, IsFiniteSet(rows),
           \A r, s \in rows : r.id = s.id => r = s,
           NEW n \in Nat, n <= Cardinality(rows)
    PROVE  Cardinality(rows \ Oldest(n, rows)) <= Cardinality(rows) - n
<1> DEFINE Rest == rows \ Oldest(n, rows)
           k == Cardinality(rows)
           rank == [t \in Rest |-> Cardinality(Older(t, rows))]
<1>1. k \in Nat
  BY FS_CardinalityType
<1>2. ASSUME NEW t \in rows
      PROVE  IsFiniteSet(Older(t, rows)) /\ Cardinality(Older(t, rows)) \in Nat
  BY FS_Subset, FS_CardinalityType DEF Older
<1>3. ASSUME NEW t \in rows
      PROVE  Cardinality(Older(t, rows)) < k
  <2>1. t.id \in Nat /\ t \notin Older(t, rows)
    BY DEF EventBufferRecord, Older
  <2>2. Older(t, rows) \in SUBSET (rows \ {t})
    BY <2>1 DEF Older
  <2>3. IsFiniteSet(rows \ {t}) /\ Cardinality(rows \ {t}) = k - 1
    BY FS_RemoveElement
  <2>4. Cardinality(Older(t, rows)) <= k - 1
    BY <2>2, <2>3, FS_Subset
  <2>5. QED
    BY <2>4, <1>1, <1>2
<1>4. ASSUME NEW t \in rows, NEW u \in rows, t.id < u.id
      PROVE  Cardinality(Older(t, rows)) < Cardinality(Older(u, rows))
  <2>1. t.id \in Nat /\ u.id \in Nat
    BY DEF EventBufferRecord
  <2>2. t \in Older(u, rows) /\ t \notin Older(t, rows)
    BY <1>4, <2>1 DEF Older
  <2>3. Older(t, rows) \in SUBSET (Older(u, rows) \ {t})
    BY <1>4, <2>1, <2>2 DEF EventBufferRecord, Older
  <2>4. /\ IsFiniteSet(Older(u, rows) \ {t})
        /\ Cardinality(Older(u, rows) \ {t}) = Cardinality(Older(u, rows)) - 1
    BY <1>2, <2>2, FS_RemoveElement
  <2>5. Cardinality(Older(t, rows)) <= Cardinality(Older(u, rows)) - 1
    BY <2>3, <2>4, FS_Subset
  <2>6. QED
    BY <2>5, <1>2
<1>5. rank \in [Rest -> n..(k - 1)]
  <2> SUFFICES ASSUME NEW t \in Rest PROVE Cardinality(Older(t, rows)) \in n..(k - 1)
    OBVIOUS
  <2>1. ~(Cardinality(Older(t, rows)) < n)
    BY DEF Oldest
  <2>2. QED
    BY <2>1, <1>1, <1>2, <1>3
<1>6. ASSUME NEW t \in Rest, NEW u \in Rest, rank[t] = rank[u]
      PROVE  t = u
  <2>1. t.id \in Nat /\ u.id \in Nat
    BY DEF EventBufferRecord
  <2>2. ~(t.id < u.id) /\ ~(u.id < t.id)
    BY <1>6, <1>4, <1>2
  <2>3. QED
    BY <2>1, <2>2
<1>7. rank \in Injection(Rest, n..(k - 1))
  BY <1>5, <1>6 DEF Injection, IsInjective
<1>8. IsFiniteSet(n..(k - 1)) /\ Cardinality(n..(k - 1)) = k - n
  <2>1. n \in Int /\ k - 1 \in Int /\ n <= k
    BY <1>1
  <2>2. /\ IsFiniteSet(n..(k - 1))
        /\ Cardinality(n..(k - 1)) = IF n > k - 1 THEN 0 ELSE (k - 1) - n + 1
    BY <2>1, FS_Interval
  <2>3. QED
    BY <2>1, <2>2, <1>1
<1>9. QED
  BY <1>7, <1>8, FS_Injection

----------------------------------------------------------------------------
(* Every method preserves the invariant of the table.                      *)

LEMMA InitBufferInv == InitSchema => BufferInv
BY FS_EmptySet DEF InitSchema, BufferInv, BufferTypeOK, KeysUnique, IdsGivenOut,
                   PayloadsUnique, OnlySaved, Payloads

LEMMA InsertBufferInv ==
    ASSUME BufferInv, NEW e \in Events, Insert(e)
    PROVE  BufferInv'
<1> DEFINE row == [id |-> NextRowId, payload |-> e, attempts |-> 0, wait |-> 0]
<1> USE DEF BufferInv, Insert, NextRowId
<1>1. row \in EventBufferRecord /\ row.id = sqlite_sequence + 1 /\ row.payload = e
  BY DEF EventBufferRecord, BufferTypeOK
<1>2. event_buffer' = event_buffer \cup {row}
  OBVIOUS
<1>3. IsFiniteSet(event_buffer') /\ Cardinality(event_buffer') \in Nat
  <2> HIDE DEF row
  <2>1. IsFiniteSet(event_buffer \cup {row})
    BY FS_AddElement
  <2>2. QED
    BY <1>2, <2>1, FS_CardinalityType
<1>4. BufferTypeOK'
  BY <1>1, <1>2, <1>3 DEF BufferTypeOK, DbSizeWith
<1>5. \A r \in event_buffer : r.id \in Nat /\ r.id < row.id /\ r.payload # e
  BY <1>1 DEF BufferTypeOK, IdsGivenOut, OnlySaved, Payloads, EventBufferRecord
<1>6. KeysUnique'
  BY <1>1, <1>2, <1>5 DEF KeysUnique
<1>7. IdsGivenOut'
  BY <1>1, <1>2, <1>5 DEF IdsGivenOut, BufferTypeOK
<1>8. PayloadsUnique'
  BY <1>1, <1>2, <1>5 DEF PayloadsUnique
<1>9. OnlySaved'
  BY <1>1, <1>2 DEF OnlySaved, Payloads
<1>10. QED
  BY <1>3, <1>4, <1>6, <1>7, <1>8, <1>9

(* Removing rows, as retention and delete_many() do.                       *)
LEMMA SubsetBufferInv ==
    ASSUME BufferInv, event_buffer' \in SUBSET event_buffer,
           insert_pc' \in {"idle", "max_rows", "max_size"},
           evicted' \in SUBSET saved,
           UNCHANGED <<sqlite_sequence, db_size, saved>>
    PROVE  BufferInv'
<1>1. IsFiniteSet(event_buffer')
  BY FS_Subset DEF BufferInv
<1>2. QED
  BY <1>1 DEF BufferInv, BufferTypeOK, KeysUnique, IdsGivenOut, PayloadsUnique,
              OnlySaved, Payloads

(* Updating columns other than id and payload, row by row, as mark_failed()*)
(* and the passing of time do.                                             *)
LEMMA UpdateBufferInv ==
    ASSUME BufferInv,
           NEW upd, upd \in [event_buffer -> EventBufferRecord],
           \A r \in event_buffer : upd[r].id = r.id /\ upd[r].payload = r.payload,
           event_buffer' = {upd[r] : r \in event_buffer},
           UNCHANGED <<sqlite_sequence, db_size, insert_pc, saved, evicted>>
    PROVE  /\ BufferInv'
           /\ Payloads(event_buffer') = Payloads(event_buffer)
           /\ Cardinality(event_buffer') <= Cardinality(event_buffer)
<1> USE DEF BufferInv
<1>1. /\ IsFiniteSet(event_buffer')
      /\ Cardinality(event_buffer') <= Cardinality(event_buffer)
  BY FiniteImage
<1>2. BufferTypeOK'
  BY DEF BufferTypeOK
<1>3. KeysUnique'
  BY DEF KeysUnique
<1>4. IdsGivenOut'
  BY DEF IdsGivenOut
<1>5. PayloadsUnique'
  BY DEF PayloadsUnique
<1>6. Payloads(event_buffer') = Payloads(event_buffer)
  BY DEF Payloads
<1>7. OnlySaved'
  BY <1>6 DEF OnlySaved
<1>8. QED
  BY <1>1, <1>2, <1>3, <1>4, <1>5, <1>6, <1>7

(* Retention moves the payloads of the rows it deletes to evicted.         *)
LEMMA DeleteOldestEvicts ==
    ASSUME BufferInv, NEW n, DeleteOldest(n)
    PROVE  /\ event_buffer' \in SUBSET event_buffer
           /\ evicted' \in SUBSET saved
           /\ \E S \in SUBSET Payloads(event_buffer) :
                 /\ Payloads(event_buffer') = Payloads(event_buffer) \ S
                 /\ evicted' = evicted \cup S
<1> DEFINE gone == Oldest(n, event_buffer)
<1>1. gone \subseteq event_buffer
  BY OldestSubset
<1>2. event_buffer' = event_buffer \ gone /\ evicted' = evicted \cup Payloads(gone)
  BY DEF DeleteOldest
<1> HIDE DEF gone
<1>3. Payloads(gone) \subseteq Payloads(event_buffer)
  BY <1>1 DEF Payloads
<1>4. Payloads(event_buffer') = Payloads(event_buffer) \ Payloads(gone)
  BY <1>1, <1>2 DEF Payloads, BufferInv, PayloadsUnique
<1>5. QED
  BY <1>1, <1>2, <1>3, <1>4 DEF BufferInv, OnlySaved

(* mark_failed() and the clock replace each row by an updated one.         *)
LEMMA MarkFailedUpdates ==
    ASSUME BufferInv, NEW ids, NEW d \in Nat, MarkFailed(ids, d)
    PROVE  /\ BufferInv'
           /\ Payloads(event_buffer') = Payloads(event_buffer)
           /\ Cardinality(event_buffer') <= Cardinality(event_buffer)
<1> DEFINE upd == [r \in event_buffer |->
                      IF r.id \in ids
                        THEN [id |-> r.id, payload |-> r.payload,
                              attempts |-> r.attempts + 1, wait |-> d]
                        ELSE r]
<1>1. upd \in [event_buffer -> EventBufferRecord]
  <2> SUFFICES ASSUME NEW r \in event_buffer PROVE upd[r] \in EventBufferRecord
    OBVIOUS
  <2>1. r \in EventBufferRecord /\ r.attempts \in Nat
    BY DEF BufferInv, BufferTypeOK, EventBufferRecord
  <2>2. QED
    BY <2>1 DEF EventBufferRecord
<1>2. \A r \in event_buffer : upd[r].id = r.id /\ upd[r].payload = r.payload
  BY DEF BufferInv, BufferTypeOK, EventBufferRecord
<1>3. event_buffer' = {upd[r] : r \in event_buffer}
  BY DEF MarkFailed
<1>4. QED
  BY <1>1, <1>2, <1>3, UpdateBufferInv DEF MarkFailed

LEMMA ElapseUpdates ==
    ASSUME BufferInv, Elapse
    PROVE  /\ BufferInv'
           /\ Payloads(event_buffer') = Payloads(event_buffer)
           /\ Cardinality(event_buffer') <= Cardinality(event_buffer)
<1> DEFINE upd == [r \in event_buffer |->
                      [r EXCEPT !.wait = IF r.wait > 0 THEN r.wait - 1 ELSE 0]]
<1>1. upd \in [event_buffer -> EventBufferRecord]
  BY DEF BufferInv, BufferTypeOK, EventBufferRecord
<1>2. \A r \in event_buffer : upd[r].id = r.id /\ upd[r].payload = r.payload
  BY DEF BufferInv, BufferTypeOK, EventBufferRecord
<1>3. event_buffer' = {upd[r] : r \in event_buffer}
  BY DEF Elapse
<1>4. QED
  BY <1>1, <1>2, <1>3, UpdateBufferInv DEF Elapse

(* The first half of enforce_retention() brings the table down to max_rows.*)
LEMMA EnforceMaxRowsLimits ==
    ASSUME BufferInv, MaxRows > 0, EnforceMaxRows
    PROVE  Cardinality(event_buffer') <= MaxRows
<1>1. Cardinality(event_buffer) \in Nat /\ MaxRows \in Nat
  BY FS_CardinalityType, BufferAssumption DEF BufferInv
<1>2. CASE ExcessRows > 0
  <2>1. ExcessRows \in Nat /\ ExcessRows = Cardinality(event_buffer) - MaxRows
    BY <1>1, <1>2 DEF ExcessRows
  <2>2. Cardinality(event_buffer \ Oldest(ExcessRows, event_buffer))
          <= Cardinality(event_buffer) - ExcessRows
    <3>1. /\ event_buffer \in SUBSET EventBufferRecord /\ IsFiniteSet(event_buffer)
          /\ \A r, s \in event_buffer : r.id = s.id => r = s
      BY DEF BufferInv, BufferTypeOK, KeysUnique
    <3>2. ExcessRows \in Nat /\ ExcessRows <= Cardinality(event_buffer)
      BY <1>1, <2>1
    <3>3. QED
      BY <3>1, <3>2, OldestCount
  <2>3. event_buffer' = event_buffer \ Oldest(ExcessRows, event_buffer)
    BY <1>2 DEF EnforceMaxRows, DeleteOldest
  <2>4. Cardinality(event_buffer') <= Cardinality(event_buffer) - ExcessRows
    BY <2>2, <2>3
  <2>5. Cardinality(event_buffer) - ExcessRows = MaxRows
    BY <1>1, <2>1
  <2>6. QED
    BY <2>4, <2>5
<1>3. CASE ~(ExcessRows > 0)
  BY <1>1, <1>3 DEF ExcessRows, EnforceMaxRows
<1>4. QED
  BY <1>2, <1>3
=============================================================================
