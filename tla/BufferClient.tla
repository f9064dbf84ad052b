----------------------------- MODULE BufferClient -----------------------------
(***************************************************************************)
(* SQLiteEventBuffer under an arbitrary client, the way the unit tests use *)
(* it: one caller inserts, and rows are deleted or postponed by ids that   *)
(* were fetched at any earlier time, also when retention has removed them. *)
(***************************************************************************)
EXTENDS SQLiteEventBuffer

CONSTANTS
    Delays,      \* the values of retry_delay_seconds, in ticks
    MaxAttempts  \* bound: a row is postponed at most this often

ASSUME ClientAssumption == Delays \subseteq Nat /\ MaxAttempts \in Nat

GivenOutIds == 1..sqlite_sequence

BufferNext ==
    \/ \E e \in Events : Insert(e)
    \/ EnforceMaxRows
    \/ EnforceMaxDbSize
    \/ \E ids \in SUBSET GivenOutIds : DeleteMany(ids)
    \/ \E ids \in SUBSET GivenOutIds, d \in Delays :
          /\ \A r \in event_buffer : r.id \in ids => r.attempts < MaxAttempts
          /\ MarkFailed(ids, d)
    \/ Elapse

BufferSpec == InitSchema /\ [][BufferNext]_bufferVars

----------------------------------------------------------------------------
(* When insert() has returned, the table holds at most max_rows rows,      *)
(* whatever was inserted, postponed and deleted before (enforce_retention).*)
RowLimit == (MaxRows > 0 /\ LockFree) => Cardinality(event_buffer) <= MaxRows

(* Retention never removes a row while it keeps an older one               *)
(* (_delete_oldest_locked).                                                *)
OldestFirst ==
    [][evicted' # evicted =>
          \A r \in event_buffer \ event_buffer', s \in event_buffer' :
              r.id < s.id]_bufferVars

(* insert() never deletes the row it has just inserted: retention makes    *)
(* room among the older rows, as the retention test expects.               *)
InsertKeepsItsRow ==
    [][(insert_pc # "idle" /\ sqlite_sequence \in Ids(event_buffer))
          => sqlite_sequence \in Ids(event_buffer')]_bufferVars
=============================================================================
