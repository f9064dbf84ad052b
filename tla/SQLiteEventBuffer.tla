-------------------------- MODULE SQLiteEventBuffer --------------------------
(***************************************************************************)
(* The durable event buffer of user_space/output/sqlite_event_buffer.py:   *)
(* one SQLite table used by two threads of the agent, every method under   *)
(* one RLock.  Each SQL statement commits on its own (isolation_level is   *)
(* None), so insert() is up to three transactions: the INSERT and the two  *)
(* halves of enforce_retention(), with the lock held in between.           *)
(***************************************************************************)
EXTENDS EcsEvents, Integers, FiniteSets

CONSTANTS
    MaxRows,     \* max_rows; 0 disables the limit on rows
    MaxDbSize,   \* max_db_size_mb, counted in rows of the database file
    NoLimit      \* max_db_size_mb = None

ASSUME BufferAssumption ==
    /\ MaxRows \in Nat
    /\ NoLimit \notin Nat
    /\ MaxDbSize \in Nat \cup {NoLimit}

VARIABLES
    event_buffer,    \* the rows of the table
    sqlite_sequence, \* the largest id ever given out (AUTOINCREMENT)
    db_size,         \* the file's size: the most rows it ever held
    insert_pc,       \* where the thread inside insert() is; it holds _lock
    saved,           \* history: payloads whose INSERT committed
    evicted          \* history: payloads removed by enforce_retention()

bufferVars ==
    <<event_buffer, sqlite_sequence, db_size, insert_pc, saved, evicted>>

(* A row; wait is next_attempt_at - now, in ticks, 0 once it has passed.   *)
EventBufferRecord ==
    [id : Nat \ {0}, payload : Events, attempts : Nat, wait : Nat]

BufferTypeOK ==
    /\ event_buffer \subseteq EventBufferRecord
    /\ sqlite_sequence \in Nat
    /\ db_size \in Nat
    /\ insert_pc \in {"idle", "max_rows", "max_size"}
    /\ saved \subseteq Events
    /\ evicted \subseteq Events

InitSchema ==
    /\ event_buffer = {}
    /\ sqlite_sequence = 0
    /\ db_size = 0
    /\ insert_pc = "idle"
    /\ saved = {}
    /\ evicted = {}

Ids(rows) == {r.id : r \in rows}
Payloads(rows) == {r.payload : r \in rows}

Older(r, rows) == {s \in rows : s.id < r.id}

(* Mutation of Oldest: ORDER BY id DESC.                                   *)
OldestDescending(n, rows) ==
    {r \in rows : Cardinality({s \in rows : s.id > r.id}) < n}

(* ... ORDER BY id ASC LIMIT n                                             *)
Oldest(n, rows) == {r \in rows : Cardinality(Older(r, rows)) < n}

LockFree == insert_pc = "idle"

(* Mutation of NextRowId: an INTEGER PRIMARY KEY without AUTOINCREMENT.    *)
NextRowIdReused ==
    CHOOSE n \in 1..(sqlite_sequence + 1) :
        /\ \A m \in Ids(event_buffer) : m < n
        /\ n = 1 \/ n - 1 \in Ids(event_buffer)

NextRowId == sqlite_sequence + 1

(* DELETEd pages stay in the file: without a VACUUM it only ever grows.    *)
DbSizeWith(rows) ==
    IF Cardinality(rows) > db_size THEN Cardinality(rows) ELSE db_size

----------------------------------------------------------------------------
(* insert(): the INSERT, after which the thread is in enforce_retention(). *)
Insert(payload) ==
    /\ LockFree
    /\ payload \notin saved
    /\ event_buffer' = event_buffer \cup
          {[id |-> NextRowId, payload |-> payload, attempts |-> 0, wait |-> 0]}
    /\ sqlite_sequence' = NextRowId
    /\ db_size' = DbSizeWith(event_buffer')
    /\ insert_pc' = "max_rows"
    /\ saved' = saved \cup {payload}
    /\ UNCHANGED evicted

DeleteOldest(count) ==
    /\ event_buffer' = event_buffer \ Oldest(count, event_buffer)
    /\ evicted' = evicted \cup Payloads(Oldest(count, event_buffer))

(* Mutation of ExcessRows: one row too many stays.                         *)
ExcessRowsOffByOne ==
    IF MaxRows > 0 THEN Cardinality(event_buffer) - MaxRows - 1 ELSE 0

ExcessRows == IF MaxRows > 0 THEN Cardinality(event_buffer) - MaxRows ELSE 0

(* enforce_retention(), first half: at most max_rows rows stay.            *)
EnforceMaxRows ==
    /\ insert_pc = "max_rows"
    /\ insert_pc' = "max_size"
    /\ IF ExcessRows > 0 THEN DeleteOldest(ExcessRows)
                         ELSE UNCHANGED <<event_buffer, evicted>>
    /\ UNCHANGED <<sqlite_sequence, db_size, saved>>

OverSize == MaxDbSize # NoLimit /\ db_size > MaxDbSize

SizeDeleteCount ==
    IF Cardinality(event_buffer) < 20 THEN 1 ELSE Cardinality(event_buffer) \div 10

(* enforce_retention(), second half; then insert() returns.                *)
EnforceMaxDbSize ==
    /\ insert_pc = "max_size"
    /\ insert_pc' = "idle"
    /\ IF OverSize /\ event_buffer # {}
         THEN DeleteOldest(SizeDeleteCount)
         ELSE UNCHANGED <<event_buffer, evicted>>
    /\ UNCHANGED <<sqlite_sequence, db_size, saved>>

(* An exception (SQLite's, or KeyboardInterrupt) leaves insert() after the *)
(* INSERT committed: the rest of enforce_retention() does not run.         *)
InsertRaises ==
    /\ insert_pc # "idle"
    /\ insert_pc' = "idle"
    /\ UNCHANGED <<event_buffer, sqlite_sequence, db_size, saved, evicted>>

(* Mutation of FetchReadyBatch: failed rows are never tried again.         *)
FetchReadyBatchOnce(limit) == Oldest(limit, {r \in event_buffer : r.attempts = 0})

FetchReadyBatch(limit) == Oldest(limit, {r \in event_buffer : r.wait = 0})

DeleteMany(ids) ==
    /\ LockFree
    /\ event_buffer' = {r \in event_buffer : r.id \notin ids}
    /\ UNCHANGED <<sqlite_sequence, db_size, insert_pc, saved, evicted>>

MarkFailed(ids, delay) ==
    /\ LockFree
    /\ event_buffer' =
          {IF r.id \in ids
             THEN [id |-> r.id, payload |-> r.payload,
                   attempts |-> r.attempts + 1, wait |-> delay]
             ELSE r : r \in event_buffer}
    /\ UNCHANGED <<sqlite_sequence, db_size, insert_pc, saved, evicted>>

(* Mutation of Elapse: the wait of a row that is ready keeps falling.      *)
ElapseUnclamped ==
    /\ \E r \in event_buffer : r.wait > 0
    /\ event_buffer' = {[r EXCEPT !.wait = r.wait - 1] : r \in event_buffer}
    /\ UNCHANGED <<sqlite_sequence, db_size, insert_pc, saved, evicted>>

(* time.time() advances by one tick.                                       *)
Elapse ==
    /\ \E r \in event_buffer : r.wait > 0
    /\ event_buffer' =
          {[r EXCEPT !.wait = IF r.wait > 0 THEN r.wait - 1 ELSE 0] :
              r \in event_buffer}
    /\ UNCHANGED <<sqlite_sequence, db_size, insert_pc, saved, evicted>>

----------------------------------------------------------------------------
(* The inductive invariant of every method above.                          *)

(* PRIMARY KEY: no two rows have the same id.                              *)
KeysUnique == \A r, s \in event_buffer : r.id = s.id => r = s

(* AUTOINCREMENT: an id is never above the last one given out, so the next *)
(* one is new even when the rows before it are gone.                       *)
IdsGivenOut == \A r \in event_buffer : r.id <= sqlite_sequence

(* Every event is in at most one row.                                      *)
PayloadsUnique == \A r, s \in event_buffer : r.payload = s.payload => r = s

OnlySaved == Payloads(event_buffer) \subseteq saved /\ evicted \subseteq saved

BufferInv ==
    /\ BufferTypeOK
    /\ IsFiniteSet(event_buffer)
    /\ KeysUnique
    /\ IdsGivenOut
    /\ PayloadsUnique
    /\ OnlySaved
=============================================================================
