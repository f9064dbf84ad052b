--------------------------- MODULE BufferClientProofs ---------------------------
(***************************************************************************)
(* The buffer under an arbitrary client, for every value of the constants. *)
(***************************************************************************)
EXTENDS BufferClient, SQLiteEventBufferProofs

LEMMA BufferInvStep == BufferInv /\ [BufferNext]_bufferVars => BufferInv'
<1> SUFFICES ASSUME BufferInv, [BufferNext]_bufferVars
             PROVE  BufferInv'
  OBVIOUS
<1>1. ASSUME NEW e \in Events, Insert(e) PROVE BufferInv'
  BY <1>1, InsertBufferInv
<1>2. CASE EnforceMaxRows
  <2>1. CASE ExcessRows > 0
    <3>1. DeleteOldest(ExcessRows)
      BY <1>2, <2>1 DEF EnforceMaxRows
    <3>2. QED
      BY <1>2, <3>1, DeleteOldestEvicts, SubsetBufferInv DEF EnforceMaxRows
  <2>2. CASE ~(ExcessRows > 0)
    BY <1>2, <2>2, SubsetBufferInv DEF EnforceMaxRows, BufferInv, OnlySaved
  <2>3. QED
    BY <2>1, <2>2
<1>3. CASE EnforceMaxDbSize
  <2>1. CASE OverSize /\ event_buffer # {}
    <3>1. DeleteOldest(SizeDeleteCount)
      BY <1>3, <2>1 DEF EnforceMaxDbSize
    <3>2. QED
      BY <1>3, <3>1, DeleteOldestEvicts, SubsetBufferInv DEF EnforceMaxDbSize
  <2>2. CASE ~(OverSize /\ event_buffer # {})
    BY <1>3, <2>2, SubsetBufferInv DEF EnforceMaxDbSize, BufferInv, OnlySaved
  <2>3. QED
    BY <2>1, <2>2
<1>4. ASSUME NEW ids, DeleteMany(ids) PROVE BufferInv'
  BY <1>4, SubsetBufferInv DEF DeleteMany, BufferInv, BufferTypeOK, OnlySaved
<1>5. ASSUME NEW ids, NEW d \in Delays, MarkFailed(ids, d) PROVE BufferInv'
  BY <1>5, ClientAssumption, MarkFailedUpdates
<1>6. CASE Elapse
  BY <1>6, ElapseUpdates
<1>7. CASE UNCHANGED bufferVars
  BY <1>7 DEF bufferVars, BufferInv, BufferTypeOK, KeysUnique, IdsGivenOut,
              PayloadsUnique, OnlySaved, Payloads
<1>8. QED
  BY <1>1, <1>2, <1>3, <1>4, <1>5, <1>6, <1>7 DEF BufferNext

(* Ids are unique and never reused, and every row holds one saved event,   *)
(* whatever the client inserts, deletes or postpones.                      *)
THEOREM BufferInvariance == BufferSpec => []BufferInv
<1>1. InitSchema => BufferInv
  BY InitBufferInv
<1>2. BufferInv /\ [BufferNext]_bufferVars => BufferInv'
  BY BufferInvStep
<1>3. QED
  BY <1>1, <1>2, PTL DEF BufferSpec

(* The table, its counters and the lock keep their types.                  *)
THEOREM BufferTypeCorrect == BufferSpec => []BufferTypeOK
<1>1. BufferInv => BufferTypeOK
  BY DEF BufferInv
<1>2. QED
  BY <1>1, BufferInvariance, PTL

----------------------------------------------------------------------------
(* RowLimit alone is not inductive: the limit holds from the first half of *)
(* enforce_retention() on, and the second half only removes rows.          *)
RowLimitInv ==
    (MaxRows > 0 /\ insert_pc # "max_rows") => Cardinality(event_buffer) <= MaxRows

LEMMA RowLimitStep ==
    BufferInv /\ RowLimitInv /\ [BufferNext]_bufferVars => RowLimitInv'
<1> SUFFICES ASSUME BufferInv, RowLimitInv, [BufferNext]_bufferVars,
                    MaxRows > 0, insert_pc' # "max_rows"
             PROVE  Cardinality(event_buffer') <= MaxRows
  BY DEF RowLimitInv
<1>1. /\ Cardinality(event_buffer) \in Nat /\ MaxRows \in Nat
      /\ IsFiniteSet(event_buffer)
  BY FS_CardinalityType, BufferAssumption DEF BufferInv
<1>2. ASSUME NEW e \in Events, Insert(e) PROVE FALSE
  BY <1>2 DEF Insert
<1>3. CASE EnforceMaxRows
  BY <1>3, EnforceMaxRowsLimits
<1>4. ASSUME insert_pc # "max_rows", event_buffer' \in SUBSET event_buffer
      PROVE  Cardinality(event_buffer') <= MaxRows
  <2>1. Cardinality(event_buffer) <= MaxRows
    BY <1>4 DEF RowLimitInv
  <2>2. Cardinality(event_buffer') <= Cardinality(event_buffer)
        /\ Cardinality(event_buffer') \in Nat
    BY <1>1, <1>4, FS_Subset, FS_CardinalityType
  <2>3. QED
    BY <1>1, <2>1, <2>2
<1>5. CASE EnforceMaxDbSize
  <2>1. event_buffer' \in SUBSET event_buffer
    BY <1>5, OldestSubset DEF EnforceMaxDbSize, DeleteOldest
  <2>2. QED
    BY <1>4, <1>5, <2>1 DEF EnforceMaxDbSize
<1>6. ASSUME NEW ids, DeleteMany(ids) PROVE Cardinality(event_buffer') <= MaxRows
  BY <1>4, <1>6 DEF DeleteMany, LockFree
<1>7. ASSUME insert_pc # "max_rows", BufferInv',
             Cardinality(event_buffer') <= Cardinality(event_buffer)
      PROVE  Cardinality(event_buffer') <= MaxRows
  <2>1. Cardinality(event_buffer) <= MaxRows
    BY <1>7 DEF RowLimitInv
  <2>2. Cardinality(event_buffer') \in Nat
    BY <1>7, FS_CardinalityType DEF BufferInv
  <2>3. QED
    BY <1>1, <1>7, <2>1, <2>2
<1>8. ASSUME NEW ids, NEW d \in Delays, MarkFailed(ids, d)
      PROVE  Cardinality(event_buffer') <= MaxRows
  BY <1>7, <1>8, ClientAssumption, MarkFailedUpdates DEF MarkFailed, LockFree
<1>9. CASE Elapse
  BY <1>7, <1>9, ElapseUpdates DEF Elapse
<1>10. CASE UNCHANGED bufferVars
  BY <1>4, <1>10 DEF bufferVars
<1>11. QED
  BY <1>2, <1>3, <1>5, <1>6, <1>8, <1>9, <1>10 DEF BufferNext

(* When insert() returns, at most max_rows rows are in the table.          *)
THEOREM RowLimitHolds == BufferSpec => []RowLimit
<1>1. InitSchema => RowLimitInv
  BY BufferAssumption, FS_EmptySet DEF InitSchema, RowLimitInv
<1>2. BufferInv /\ RowLimitInv /\ [BufferNext]_bufferVars => RowLimitInv'
  BY RowLimitStep
<1>3. RowLimitInv => RowLimit
  BY DEF RowLimitInv, RowLimit, LockFree
<1>4. QED
  BY <1>1, <1>2, <1>3, BufferInvariance, PTL DEF BufferSpec

(* Retention never removes a row while it keeps an older one.              *)
THEOREM OldestFirstHolds == BufferSpec => OldestFirst
<1>1. ASSUME BufferInv, NEW n \in Nat, DeleteOldest(n),
             NEW r \in event_buffer \ event_buffer', NEW s \in event_buffer'
      PROVE  r.id < s.id
  <2>1. event_buffer' = event_buffer \ Oldest(n, event_buffer)
    BY <1>1 DEF DeleteOldest
  <2>2. r \in Oldest(n, event_buffer) /\ s \in event_buffer \ Oldest(n, event_buffer)
    BY <2>1
  <2>3. QED
    BY <1>1, <2>2, OldestAreOlder DEF BufferInv, BufferTypeOK
<1>2. ASSUME BufferInv, [BufferNext]_bufferVars, evicted' # evicted
      PROVE  \E n \in Nat : DeleteOldest(n)
  <2>1. Cardinality(event_buffer) \in Nat
    BY <1>2, FS_CardinalityType DEF BufferInv
  <2>2. CASE EnforceMaxRows
    <3>1. ExcessRows \in Int /\ ExcessRows > 0 /\ DeleteOldest(ExcessRows)
      BY <1>2, <2>1, <2>2, BufferAssumption DEF EnforceMaxRows, ExcessRows
    <3>2. QED
      BY <3>1
  <2>3. CASE EnforceMaxDbSize
    <3>1. SizeDeleteCount \in Nat
      BY <2>1 DEF SizeDeleteCount
    <3>2. QED
      BY <1>2, <2>3, <3>1 DEF EnforceMaxDbSize
  <2>4. QED
    BY <1>2, <2>2, <2>3
    DEF BufferNext, bufferVars, Insert, DeleteMany, MarkFailed, Elapse
<1>3. BufferInv /\ [BufferNext]_bufferVars =>
        [evicted' # evicted =>
            \A r \in event_buffer \ event_buffer', s \in event_buffer' :
                r.id < s.id]_bufferVars
  BY <1>1, <1>2
<1>4. QED
  BY <1>3, BufferInvariance, PTL DEF BufferSpec, OldestFirst
=============================================================================
