------------------------------ MODULE HttpShipper ------------------------------
(***************************************************************************)
(* HttpSQLiteDispatcher of user_space/output/http_shipper.py: the agent's  *)
(* main thread emit()s events into the SQLite buffer and finally stop()s;  *)
(* a daemon thread sends batches of rows to the ingest server and deletes  *)
(* or postpones them.  The process may crash at any point and is restarted *)
(* by systemd on the same database.                                        *)
(***************************************************************************)
EXTENDS SQLiteEventBuffer, EventReceiver

CONSTANTS
    BatchSize,    \* batch_size
    BaseBackoff,  \* base_backoff_seconds, in ticks
    MaxBackoff,   \* max_backoff_seconds, in ticks
    RejectDelay,  \* the 3600 s for answers that are not retryable, in ticks
    FloatMaxExp   \* the largest n whose 2 ** n fits a float: 1023

ASSUME ShipperAssumption ==
    /\ BatchSize \in Nat \ {0}
    /\ BaseBackoff \in Nat /\ MaxBackoff \in Nat
    /\ RejectDelay \in Nat /\ FloatMaxExp \in Nat

VARIABLES
    proc,       \* the agent process, as far as its main thread has come
    worker,     \* where _worker_loop is
    batch,      \* its local batch: snapshots of rows
    result,     \* the DeliveryResult it acts on
    connection  \* the SQLite connection

shipperVars == <<proc, worker, batch, result, connection>>
vars == <<bufferVars, receiverVars, shipperVars>>

TypeOK ==
    /\ BufferTypeOK
    /\ ReceiverTypeOK
    /\ proc \in {"up", "stopping", "timed_out", "exited", "crashed"}
    /\ worker \in {"top", "send", "post", "settle", "wait", "done"}
    /\ batch \subseteq EventBufferRecord
    /\ result \in {"none", "delivered", "retryable", "rejected"}
    /\ connection \in {"open", "closed"}

Init ==
    /\ InitSchema
    /\ InitReceiver
    /\ proc = "up" /\ worker = "top" /\ connection = "open"
    /\ batch = {} /\ result = "none"

Running == proc \in {"up", "stopping", "timed_out"}

StopEvent == proc \in {"stopping", "timed_out"}

----------------------------------------------------------------------------
(* The main thread: emit() for each event of the pipeline, then stop().    *)

Emit(e) == proc = "up" /\ Insert(e) /\ UNCHANGED <<receiverVars, shipperVars>>

Retain ==
    /\ EnforceMaxRows \/ EnforceMaxDbSize
    /\ UNCHANGED <<receiverVars, shipperVars>>

EmitRaises ==
    /\ InsertRaises
    /\ Fault
    /\ UNCHANGED <<request, late, copies, shipperVars>>

Stop ==
    /\ proc = "up" /\ LockFree
    /\ proc' = "stopping"
    /\ UNCHANGED <<bufferVars, receiverVars, worker, batch, result, connection>>

(* Mutation of JoinCloses: close() without a look at is_alive().           *)
JoinClosesAnyway ==
    /\ proc = "stopping"
    /\ proc' = "exited" /\ connection' = "closed"
    /\ UNCHANGED <<bufferVars, receiverVars, worker, batch, result>>

(* join() returns because the thread has ended, and close() is called.     *)
JoinCloses ==
    /\ proc = "stopping" /\ worker = "done"
    /\ proc' = "exited" /\ connection' = "closed"
    /\ UNCHANGED <<bufferVars, receiverVars, worker, batch, result>>

(* join() times out with the thread alive: the connection is left open.    *)
JoinTimesOut ==
    /\ proc = "stopping" /\ worker # "done"
    /\ Fault
    /\ proc' = "timed_out"
    /\ UNCHANGED <<bufferVars, request, late, copies,
                   worker, batch, result, connection>>

AbandonRequest == request' = NoRequest /\ late' = late \cup Abandoned

(* The process is gone: its threads, its locals and its connections.       *)
Die(end) ==
    /\ proc' = end /\ worker' = "done" /\ connection' = "closed"
    /\ batch' = {} /\ result' = "none" /\ insert_pc' = "idle"
    /\ AbandonRequest
    /\ UNCHANGED <<event_buffer, sqlite_sequence, db_size, saved, evicted, copies>>

(* main() returns; the daemon thread dies with the interpreter.            *)
Exit == proc = "timed_out" /\ UNCHANGED faults /\ Die("exited")

(* Killed: by a failure, after which systemd restarts it, or by SIGTERM,   *)
(* which main() does not handle and after which it stays down.             *)
Crash == Running /\ Fault /\ (Die("crashed") \/ Die("exited"))

(* systemd or the operator starts the agent on the database it left.       *)
Start ==
    /\ proc \in {"exited", "crashed"}
    /\ proc' = "up" /\ worker' = "top" /\ connection' = "open"
    /\ UNCHANGED <<bufferVars, receiverVars, batch, result>>

----------------------------------------------------------------------------
(* The worker thread: one iteration of _worker_loop, step by step.         *)

AtTop == worker = "top" /\ ~StopEvent /\ LockFree

Fetch ==
    /\ AtTop
    /\ batch' = FetchReadyBatch(BatchSize)
    /\ batch' # {}
    /\ worker' = "send"
    /\ UNCHANGED <<bufferVars, receiverVars, proc, result, connection>>

Idle ==
    /\ AtTop
    /\ FetchReadyBatch(BatchSize) = {}
    /\ worker' = "wait"
    /\ UNCHANGED <<bufferVars, receiverVars, proc, batch, result, connection>>

(* _deliver_batch: urlopen() sends the POST ...                            *)
Send ==
    /\ worker = "send"
    /\ worker' = "post"
    /\ request' = [events |-> Payloads(batch), stored |-> "no"]
    /\ UNCHANGED <<bufferVars, late, copies, faults,
                   proc, batch, result, connection>>

Return(outcome) ==
    /\ worker = "post"
    /\ worker' = "settle"
    /\ result' = outcome
    /\ UNCHANGED <<bufferVars, copies, proc, batch, connection>>

(* Mutation of ReplyOk: any answer counts as 2xx.                          *)
ReplyOkAny ==
    /\ Return("delivered")
    /\ request' = NoRequest
    /\ UNCHANGED <<late, faults>>

(* ... and returns on a 2xx answer,                                        *)
ReplyOk ==
    /\ request.stored = "all"
    /\ Return("delivered")
    /\ request' = NoRequest
    /\ UNCHANGED <<late, faults>>

(* A connection that do_POST broke is no further fault.                    *)
FaultOrBroken == IF request.stored = "part" THEN UNCHANGED faults ELSE Fault

(* on 408, 429, 5xx, URLError or a timeout, with the events stored or not, *)
FailRetryable ==
    /\ Return("retryable")
    /\ FaultOrBroken
    /\ AbandonRequest

(* or on any other status, which the server sends instead of storing.      *)
Reject ==
    /\ request.stored = "no"
    /\ Return("rejected")
    /\ Fault
    /\ request' = NoRequest
    /\ UNCHANGED late

Proceed(next) ==
    /\ worker' = next
    /\ batch' = {} /\ result' = "none"
    /\ UNCHANGED <<proc, connection>>

(* except Exception: SQLite failed, or the connection was reset after the  *)
(* request was sent, which urlopen() does not turn into a URLError.        *)
WorkerRaises ==
    /\ worker \in {"top", "send", "post", "settle"}
    /\ FaultOrBroken
    /\ AbandonRequest
    /\ Proceed("wait")
    /\ UNCHANGED <<bufferVars, copies>>

(* Mutation of DeleteDelivered: the rows are deleted without a success.    *)
DeleteDeliveredOrFailed ==
    /\ worker = "settle"
    /\ DeleteMany(Ids(batch))
    /\ Proceed("top")
    /\ UNCHANGED receiverVars

(* Mutation of DeleteDelivered: the delete is forgotten.                   *)
DeleteDeliveredForgotten ==
    /\ worker = "settle" /\ result = "delivered"
    /\ Proceed("top")
    /\ UNCHANGED <<bufferVars, receiverVars>>

DeleteDelivered ==
    /\ worker = "settle" /\ result = "delivered"
    /\ DeleteMany(Ids(batch))
    /\ Proceed("top")
    /\ UNCHANGED receiverVars

(* _compute_backoff(n) plus at most a tenth of jitter, rounded to ticks.   *)
Backoff(n) ==
    LET delay == IF BaseBackoff * 2^n < MaxBackoff THEN BaseBackoff * 2^n
                                                   ELSE MaxBackoff
    IN  {d \in 0..MaxBackoff : delay <= d /\ 10 * (d - delay) < delay + 10}

RetryDelays(n) ==
    {d \in 0..(MaxBackoff + RejectDelay) :
        \E b \in Backoff(n) :
            d = IF result = "rejected" /\ b < RejectDelay THEN RejectDelay ELSE b}

(* max(record.attempts for record in batch) is n.                          *)
MaxAttemptsIs(n) ==
    /\ \A r \in batch : r.attempts <= n
    /\ \E r \in batch : r.attempts = n

PostponeFailed ==
    /\ worker = "settle" /\ result \in {"retryable", "rejected"}
    /\ \E n \in 0..FloatMaxExp :
          /\ MaxAttemptsIs(n)
          /\ \E delay \in RetryDelays(n) : MarkFailed(Ids(batch), delay)
    /\ Proceed("wait")
    /\ UNCHANGED receiverVars

(* Mutation of BackoffOverflows: nothing in _worker_loop catches the error. *)
BackoffOverflowsEnds ==
    /\ worker = "settle" /\ result \in {"retryable", "rejected"}
    /\ \E r \in batch : r.attempts > FloatMaxExp
    /\ Proceed("done")
    /\ UNCHANGED <<bufferVars, receiverVars>>

(* 2 ** attempts has become too large for the product with a float:        *)
(* OverflowError, and the rows are not postponed.                          *)
BackoffOverflows ==
    /\ worker = "settle" /\ result \in {"retryable", "rejected"}
    /\ \E r \in batch : r.attempts > FloatMaxExp
    /\ Proceed("wait")
    /\ UNCHANGED <<bufferVars, receiverVars>>

(* _stop_event.wait() returns, by its timeout or because of stop().        *)
WakeUp ==
    /\ worker = "wait"
    /\ worker' = "top"
    /\ UNCHANGED <<bufferVars, receiverVars, proc, batch, result, connection>>

(* Mutation of WorkerExits: the buffer is to be drained before the exit.   *)
WorkerExitsDrained ==
    /\ worker = "top" /\ StopEvent
    /\ event_buffer = {}
    /\ worker' = "done"
    /\ UNCHANGED <<bufferVars, receiverVars, proc, batch, result, connection>>

WorkerExits ==
    /\ worker = "top" /\ StopEvent
    /\ worker' = "done"
    /\ UNCHANGED <<bufferVars, receiverVars, proc, batch, result, connection>>

Serve == (DoPost \/ DoPostBreaks \/ DoPostLate) /\ UNCHANGED <<bufferVars, shipperVars>>

Tick == Elapse /\ UNCHANGED <<receiverVars, shipperVars>>

----------------------------------------------------------------------------
MainNext ==
    \/ \E e \in Events : Emit(e)
    \/ Retain \/ EmitRaises
    \/ Stop \/ JoinCloses \/ JoinTimesOut \/ Exit \/ Crash \/ Start

WorkerStep ==
    \/ Fetch \/ Idle \/ Send \/ ReplyOk \/ DeleteDelivered
    \/ PostponeFailed \/ BackoffOverflows \/ WakeUp \/ WorkerExits

WorkerNext == WorkerStep \/ FailRetryable \/ Reject \/ WorkerRaises

Next == MainNext \/ WorkerNext \/ Serve \/ Tick

Spec == Init /\ [][Next]_vars

(* Threads run, time passes, the server answers what reaches it unless a   *)
(* fault prevents it, a broken connection is noticed (request timeout),    *)
(* and systemd restarts a crashed agent.  Nobody need emit, stop or start. *)
Fairness ==
    /\ WF_vars(WorkerStep)
    /\ WF_vars(request.stored = "part" /\ (FailRetryable \/ WorkerRaises))
    /\ WF_vars(DoPost /\ UNCHANGED <<bufferVars, shipperVars>>)
    /\ WF_vars(Retain)
    /\ WF_vars(Tick)
    /\ WF_vars(JoinCloses \/ Exit)
    /\ WF_vars(proc = "crashed" /\ Start)

FairSpec == Spec /\ Fairness

----------------------------------------------------------------------------
(* The rows an iteration works on and the table agree: a row of the batch  *)
(* that is still in the table is the one that was fetched, although the    *)
(* lock was released for the whole request and retention ran meanwhile.    *)
BatchFresh ==
    \A b \in batch, r \in event_buffer :
        r.id = b.id => r.payload = b.payload /\ r.attempts = b.attempts

(* No event whose insert() committed disappears: it is in the table, or    *)
(* the server has it, or retention removed it; through crashes, restarts,  *)
(* interrupted inserts and stop() (_worker_loop, delete_many).             *)
NoSilentLoss == saved \subseteq Payloads(event_buffer) \cup Received \cup evicted

(* A delivered batch is in the server's file in whole when its rows are    *)
(* deleted, so a partly stored batch is sent again.                        *)
DeliveredMeansStored == result = "delivered" => Payloads(batch) \subseteq Received

(* Without a fault the server stores every event at most once: duplicates  *)
(* come from crashes, timeouts and errors only.                            *)
ExactlyOnceWithoutFaults == faults = 0 => \A e \in Events : copies[e] <= 1

(* Without a fault the server has received a prefix of what the table held *)
(* in id order (ORDER BY id ASC).                                          *)
InOrderWithoutFaults ==
    faults = 0 =>
        \A r, s \in event_buffer :
            (r.id < s.id /\ s.payload \in Received) => r.payload \in Received

(* stop() never closes the SQLite connection under a thread that uses it.  *)
NoUseAfterClose == connection = "closed" => worker = "done" /\ LockFree

(* The table exceeds max_rows only by the inserts that were interrupted    *)
(* before their retention: each costs a fault.                             *)
RowLimit ==
    (MaxRows > 0 /\ LockFree) => Cardinality(event_buffer) <= MaxRows + faults

----------------------------------------------------------------------------
(* The inductive invariant: what relates the worker's position to its      *)
(* request, its batch and the table.                                       *)

(* There is a request exactly while the worker waits for its answer, and   *)
(* it carries the batch; stored = "all" means what it says.                *)
WireInv ==
    /\ IF worker = "post" THEN request.events = Payloads(batch)
                          ELSE request = NoRequest
    /\ request.stored = "all" => request.events \subseteq Received

(* A batch exists from the fetch to the end of the iteration, a result     *)
(* only while it is acted on, and ids in the batch were given out before.  *)
BatchInv ==
    /\ worker \in {"top", "wait", "done"} => batch = {}
    /\ result # "none" => worker = "settle"
    /\ \A b \in batch : b.id <= sqlite_sequence

(* Nothing travels that was not saved first.                               *)
OnlySavedTravels ==
    /\ Payloads(batch) \subseteq saved
    /\ Received \subseteq saved
    /\ \A r \in late : r.events \subseteq saved

(* The threads and the connection exist while the process does.            *)
LifeCycle ==
    /\ (connection = "closed") <=> ~Running
    /\ ~Running => worker = "done"
    /\ ~LockFree => proc = "up"

IInv ==
    /\ TypeOK /\ BufferInv
    /\ WireInv /\ BatchInv /\ OnlySavedTravels /\ LifeCycle
    /\ BatchFresh /\ NoSilentLoss /\ DeliveredMeansStored

----------------------------------------------------------------------------
(* Why RowLimit holds: an insert() under way may exceed the limit by its   *)
(* own row, and retention's first half makes good for all faults before.   *)
LimitInv ==
    MaxRows > 0 =>
        Cardinality(event_buffer) <=
            MaxRows + (IF insert_pc = "max_size" THEN 0 ELSE faults)
                    + (IF insert_pc = "max_rows" THEN 1 ELSE 0)

(* Why ExactlyOnceWithoutFaults and InOrderWithoutFaults hold: without a   *)
(* fault nothing is postponed, abandoned or stored in part; ...            *)
NothingWentWrong ==
    /\ late = {}
    /\ request.stored # "part"
    /\ proc \in {"up", "stopping", "exited"}
    /\ result \in {"none", "delivered"}
    /\ \A r \in event_buffer : r.wait = 0

(* ... the batch is an initial segment of the table; ...                   *)
BatchIsOldest ==
    \A b \in batch, r \in event_buffer :
        /\ r.id < b.id => r.id \in Ids(batch)
        /\ r.payload = b.payload => r.id = b.id

(* ... and what the server has of the table is the batch, which it did not *)
(* have before this request.                                               *)
StoredIsBatch ==
    /\ \A e \in Events : copies[e] <= 1
    /\ \A r \in event_buffer : r.payload \in Received =>
          r.id \in Ids(batch) /\ Payloads(batch) \subseteq Received
    /\ worker = "send" \/ (worker = "post" /\ request.stored = "no") =>
          Payloads(batch) \cap Received = {}

FaultFreeInv ==
    faults = 0 => NothingWentWrong /\ BatchIsOldest /\ StoredIsBatch

(* Every saved event is eventually received or evicted, unless the agent   *)
(* was stopped for good.                                                   *)
EventuallySettled ==
    \A e \in Events :
        e \in saved ~> (e \in Received \/ e \in evicted \/ proc = "exited")

(* stop() comes to an end: the process exits, or crashes first.            *)
StopTerminates == proc = "stopping" ~> proc \in {"exited", "crashed"}

(* The output path implements the at-least-once outbox.                    *)
AbstractOutbox ==
    INSTANCE Outbox WITH accepted <- saved, pending <- Payloads(event_buffer),
                         received <- Received, discarded <- evicted

ImplementsOutbox == AbstractOutbox!OutboxSpec
=============================================================================
