--------------------------- MODULE HttpShipperProofs ---------------------------
(***************************************************************************)
(* The safety of the output path, for every value of the constants: IInv   *)
(* is inductive, and implies that no saved event is lost silently, that    *)
(* the connection is not used after close() and the rest of its conjuncts. *)
(***************************************************************************)
EXTENDS HttpShipper, SQLiteEventBufferProofs

LEMMA InitIInv == Init => IInv
<1> SUFFICES ASSUME Init PROVE IInv
  OBVIOUS
<1>1. BufferInv
  BY InitBufferInv DEF Init
<1>2. TypeOK
  BY <1>1, ReceiverAssumption
  DEF TypeOK, BufferInv, ReceiverTypeOK, Init, InitReceiver, NoRequest, Requests
<1>3. QED
  BY <1>1, <1>2
  DEF Init, InitSchema, InitReceiver, IInv, WireInv, BatchInv, OnlySavedTravels,
      LifeCycle, BatchFresh, NoSilentLoss, DeliveredMeansStored,
      NoRequest, Received, Payloads, Running, LockFree

----------------------------------------------------------------------------
(* The main thread inside emit(): only the table changes.                  *)

LEMMA EmitIInv == ASSUME IInv, NEW e \in Events, Emit(e) PROVE IInv'
<1> USE DEF IInv
<1>1. Insert(e) /\ proc = "up" /\ UNCHANGED <<receiverVars, shipperVars>>
  BY DEF Emit
<1>2. BufferInv'
  BY <1>1, InsertBufferInv
<1>3. TypeOK'
  BY <1>1, <1>2
  DEF TypeOK, BufferInv, ReceiverTypeOK, receiverVars, shipperVars
<1>4. /\ event_buffer' = event_buffer \cup
            {[id |-> NextRowId, payload |-> e, attempts |-> 0, wait |-> 0]}
      /\ saved' = saved \cup {e} /\ NextRowId = sqlite_sequence + 1
      /\ sqlite_sequence' = sqlite_sequence + 1 /\ evicted' = evicted
  BY <1>1 DEF Insert, NextRowId
<1>5. WireInv' /\ LifeCycle' /\ DeliveredMeansStored'
  BY <1>1 DEF WireInv, LifeCycle, DeliveredMeansStored, receiverVars, shipperVars,
              Received, Running, LockFree
<1>6. BatchInv'
  BY <1>1, <1>4 DEF BatchInv, shipperVars, TypeOK, BufferTypeOK, EventBufferRecord
<1>7. OnlySavedTravels'
  BY <1>1, <1>4 DEF OnlySavedTravels, receiverVars, shipperVars, Received
<1>8. BatchFresh'
  BY <1>1, <1>4 DEF BatchFresh, BatchInv, shipperVars, TypeOK, BufferTypeOK,
                    EventBufferRecord
<1>9. NoSilentLoss'
  <2>1. Payloads(event_buffer') = Payloads(event_buffer) \cup {e}
    <3> DEFINE row == [id |-> NextRowId, payload |-> e, attempts |-> 0, wait |-> 0]
    <3>1. event_buffer' = event_buffer \cup {row} /\ row.payload = e
      BY <1>4
    <3> HIDE DEF row
    <3>2. QED
      BY <3>1 DEF Payloads
  <2>2. Received' = Received
    BY <1>1 DEF receiverVars, Received
  <2>3. QED
    BY <1>4, <2>1, <2>2 DEF NoSilentLoss
<1>10. QED
  BY <1>2, <1>3, <1>5, <1>6, <1>7, <1>8, <1>9

(* Removing rows keeps the batch fresh, and nothing is lost if what is     *)
(* removed was evicted or received.                                        *)
LEMMA ShrinkIInv ==
    ASSUME IInv, event_buffer' \in SUBSET event_buffer, BufferInv',
           UNCHANGED <<sqlite_sequence, db_size, saved>>,
           Payloads(event_buffer) \ Payloads(event_buffer')
              \subseteq evicted' \cup Received,
           evicted \subseteq evicted', UNCHANGED <<copies, batch>>
    PROVE  BatchFresh' /\ NoSilentLoss'
<1> USE DEF IInv
<1>1. BatchFresh'
  BY DEF BatchFresh
<1>2. NoSilentLoss'
  BY DEF NoSilentLoss, Received
<1>3. QED
  BY <1>1, <1>2

LEMMA RetainIInv == ASSUME IInv, Retain PROVE IInv'
<1> USE DEF IInv
<1>1. /\ UNCHANGED <<sqlite_sequence, db_size, saved>>
      /\ UNCHANGED <<receiverVars, shipperVars>>
      /\ insert_pc' \in {"idle", "max_size"} /\ insert_pc # "idle"
  BY DEF Retain, EnforceMaxRows, EnforceMaxDbSize
<1>2. (\E n : DeleteOldest(n)) \/ UNCHANGED <<event_buffer, evicted>>
  BY DEF Retain, EnforceMaxRows, EnforceMaxDbSize
<1>3. /\ event_buffer' \in SUBSET event_buffer
      /\ evicted' \in SUBSET saved /\ evicted \subseteq evicted'
      /\ Payloads(event_buffer) \ Payloads(event_buffer') \subseteq evicted'
  <2>1. ASSUME NEW n, DeleteOldest(n) PROVE <1>3!:
    BY <2>1, DeleteOldestEvicts
  <2>2. CASE UNCHANGED <<event_buffer, evicted>>
    BY <2>2 DEF BufferInv, OnlySaved, Payloads
  <2>3. QED
    BY <1>2, <2>1, <2>2
<1>4. BufferInv'
  BY <1>1, <1>3, SubsetBufferInv
<1>5. TypeOK'
  BY <1>1, <1>4 DEF TypeOK, BufferInv, ReceiverTypeOK, receiverVars, shipperVars
<1>6. WireInv' /\ DeliveredMeansStored' /\ BatchInv' /\ OnlySavedTravels'
  BY <1>1 DEF WireInv, DeliveredMeansStored, BatchInv, OnlySavedTravels,
              receiverVars, shipperVars, Received
<1>7. LifeCycle'
  BY <1>1 DEF LifeCycle, shipperVars, Running, LockFree
<1>8. UNCHANGED <<copies, batch>>
  BY <1>1 DEF receiverVars, shipperVars
<1>9. BatchFresh' /\ NoSilentLoss'
  BY <1>1, <1>3, <1>4, <1>8, ShrinkIInv
<1>10. QED
  BY <1>4, <1>5, <1>6, <1>7, <1>9

(* Steps that leave the table and everything on the wire alone.            *)
LEMMA BufferUnchanged ==
    ASSUME BufferInv, UNCHANGED bufferVars
    PROVE  BufferInv' /\ BufferTypeOK'
BY DEF bufferVars, BufferInv, BufferTypeOK, KeysUnique, IdsGivenOut,
       PayloadsUnique, OnlySaved, Payloads

LEMMA EmitRaisesIInv == ASSUME IInv, EmitRaises PROVE IInv'
<1> USE DEF IInv
<1>1. /\ UNCHANGED <<event_buffer, sqlite_sequence, db_size, saved, evicted>>
      /\ insert_pc' = "idle"
      /\ UNCHANGED <<request, late, copies, shipperVars>>
      /\ faults < MaxFaults /\ faults' = faults + 1
  BY DEF EmitRaises, InsertRaises, Fault
<1>2. BufferInv'
  BY <1>1, SubsetBufferInv DEF BufferInv, OnlySaved
<1>3. TypeOK'
  BY <1>1, <1>2, ReceiverAssumption
  DEF TypeOK, BufferInv, ReceiverTypeOK, shipperVars
<1>4. QED
  BY <1>1, <1>2, <1>3
  DEF WireInv, DeliveredMeansStored, BatchInv, OnlySavedTravels, LifeCycle,
      BatchFresh, NoSilentLoss, shipperVars, Received, Running,
      LockFree

----------------------------------------------------------------------------
(* The life of the process.                                                *)

LEMMA StopIInv ==
    ASSUME IInv, Stop \/ JoinCloses \/ JoinTimesOut \/ Start
    PROVE  IInv'
<1> USE DEF IInv
<1>1. UNCHANGED bufferVars /\ UNCHANGED <<request, late, copies, batch, result>>
  BY DEF Stop, JoinCloses, JoinTimesOut, Start, receiverVars
<1>2. BufferInv' /\ BufferTypeOK'
  BY <1>1, BufferUnchanged
<1>3. faults' \in 0..MaxFaults
  BY ReceiverAssumption
  DEF Stop, JoinCloses, JoinTimesOut, Start, receiverVars, Fault, TypeOK,
      ReceiverTypeOK
<1>4. TypeOK'
  BY <1>1, <1>2, <1>3
  DEF TypeOK, ReceiverTypeOK, Stop, JoinCloses, JoinTimesOut, Start
<1>5. LifeCycle'
  BY <1>1 DEF LifeCycle, Stop, JoinCloses, JoinTimesOut, Start, Running,
              LockFree, bufferVars
<1>6. WireInv' /\ BatchInv'
  BY <1>1 DEF WireInv, BatchInv, LifeCycle, Running, Received, bufferVars,
              Stop, JoinCloses, JoinTimesOut, Start
<1>7. OnlySavedTravels' /\ DeliveredMeansStored' /\ BatchFresh' /\ NoSilentLoss'
  BY <1>1 DEF OnlySavedTravels, DeliveredMeansStored, BatchFresh, NoSilentLoss, Received, bufferVars
<1>8. QED
  BY <1>2, <1>4, <1>5, <1>6, <1>7

(* A request given up on carried saved events.                             *)
LEMMA AbandonedSaved ==
    ASSUME IInv, faults' \in Nat
    PROVE  /\ Abandoned \subseteq LateRequests
           /\ \A r \in Abandoned : r.events \subseteq saved
<1>1. request.events \subseteq saved /\ request \in Requests
  BY DEF IInv, WireInv, OnlySavedTravels, NoRequest, TypeOK, ReceiverTypeOK
<1>2. QED
  BY <1>1 DEF Abandoned, LateRequests, Requests

LEMMA DieIInv == ASSUME IInv, Exit \/ Crash PROVE IInv'
<1> USE DEF IInv
<1>1. /\ proc' \in {"exited", "crashed"} /\ worker' = "done"
      /\ connection' = "closed" /\ batch' = {} /\ result' = "none"
      /\ insert_pc' = "idle"
      /\ request' = NoRequest /\ late' = late \cup Abandoned
      /\ UNCHANGED <<event_buffer, sqlite_sequence, db_size, saved, evicted, copies>>
  BY DEF Exit, Crash, Die, AbandonRequest
<1>2. faults' \in 0..MaxFaults
  BY ReceiverAssumption DEF Exit, Crash, Fault, TypeOK, ReceiverTypeOK
<1>3. BufferInv'
  BY <1>1, SubsetBufferInv DEF BufferInv, OnlySaved
<1>4. Abandoned \subseteq LateRequests /\ \A r \in Abandoned : r.events \subseteq saved
  BY <1>2, AbandonedSaved, ReceiverAssumption
<1>5. TypeOK'
  BY <1>1, <1>2, <1>3, <1>4
  DEF TypeOK, BufferInv, ReceiverTypeOK, NoRequest, Requests
<1>6. OnlySavedTravels'
  BY <1>1, <1>4 DEF OnlySavedTravels, Payloads, Received
<1>7. WireInv' /\ BatchInv' /\ LifeCycle' /\ DeliveredMeansStored'
  BY <1>1 DEF WireInv, BatchInv, LifeCycle, DeliveredMeansStored, NoRequest,
              Running, LockFree
<1>8. BatchFresh' /\ NoSilentLoss'
  BY <1>1 DEF BatchFresh, NoSilentLoss, Received
<1>9. QED
  BY <1>3, <1>5, <1>6, <1>7, <1>8

----------------------------------------------------------------------------
(* The server: it only ever adds to what it has received.                  *)

LEMMA StoreGrows ==
    ASSUME copies \in [Events -> 0..2], NEW S, Store(S)
    PROVE  /\ copies' \in [Events -> 0..2]
           /\ Received' = Received \cup (S \cap Events)
<1>1. \A e \in Events : copies[e] \in 0..2
  OBVIOUS
<1>2. copies' \in [Events -> 0..2]
  BY <1>1 DEF Store
<1>3. \A e \in Events : copies'[e] > 0 <=> copies[e] > 0 \/ e \in S
  BY <1>1 DEF Store
<1>4. QED
  BY <1>2, <1>3 DEF Received

LEMMA ServeIInv == ASSUME IInv, Serve PROVE IInv'
<1> USE DEF IInv
<1>1. UNCHANGED bufferVars /\ UNCHANGED shipperVars
  BY DEF Serve
<1>2. BufferInv' /\ BufferTypeOK'
  BY <1>1, BufferUnchanged
<1>3. /\ request \in Requests /\ late \subseteq LateRequests
      /\ copies \in [Events -> 0..2] /\ faults \in 0..MaxFaults /\ saved \subseteq Events
      /\ request.events \subseteq saved
  BY DEF TypeOK, ReceiverTypeOK, BufferTypeOK, WireInv, OnlySavedTravels, NoRequest
<1>4. \E S \in SUBSET saved :
         /\ Store(S)
         /\ \/ /\ request' = request /\ late' \subseteq late
            \/ /\ request.events # {} /\ late' = late
               /\ \/ request' = [request EXCEPT !.stored = "part"]
                  \/ request' = [request EXCEPT !.stored = "all"] /\ S = request.events
  <2>1. CASE DoPost
    BY <1>3, <2>1 DEF DoPost
  <2>2. CASE DoPostBreaks
    BY <1>3, <2>2 DEF DoPostBreaks
  <2>3. CASE DoPostLate
    BY <2>3 DEF DoPostLate, OnlySavedTravels
  <2>4. QED
    BY <2>1, <2>2, <2>3 DEF Serve
<1>5. faults' \in 0..MaxFaults
  BY <1>3, ReceiverAssumption DEF Serve, DoPost, DoPostBreaks, DoPostLate, Fault
<1>6. PICK S \in SUBSET saved : <1>4!(S)
  BY <1>4
<1>7. copies' \in [Events -> 0..2] /\ Received' = Received \cup S
  BY <1>3, <1>6, StoreGrows
<1>8. request' \in Requests /\ request'.events = request.events
      /\ (request'.stored = "all" => request.stored = "all" \/ S = request.events)
      /\ (request' # request => request.events # {})
  BY <1>3, <1>6 DEF Requests
<1>9. TypeOK'
  BY <1>1, <1>2, <1>3, <1>5, <1>6, <1>7, <1>8 DEF TypeOK, ReceiverTypeOK, shipperVars
<1>10. WireInv'
  BY <1>1, <1>7, <1>8 DEF WireInv, NoRequest, shipperVars
<1>11. BatchInv' /\ OnlySavedTravels' /\ LifeCycle'
  BY <1>1, <1>6, <1>7 DEF BatchInv, OnlySavedTravels, LifeCycle, shipperVars,
                          bufferVars, Running, LockFree
<1>12. BatchFresh' /\ NoSilentLoss' /\ DeliveredMeansStored'
  BY <1>1, <1>7 DEF BatchFresh, NoSilentLoss, DeliveredMeansStored, shipperVars, bufferVars
<1>13. QED
  BY <1>2, <1>9, <1>10, <1>11, <1>12

LEMMA TickIInv == ASSUME IInv, Tick PROVE IInv'
<1> USE DEF IInv
<1>1. /\ Elapse /\ UNCHANGED <<receiverVars, shipperVars>>
      /\ UNCHANGED <<sqlite_sequence, db_size, insert_pc, saved, evicted>>
  BY DEF Tick, Elapse
<1>2. BufferInv' /\ Payloads(event_buffer') = Payloads(event_buffer)
  BY <1>1, ElapseUpdates
<1>3. \A q \in event_buffer' : \E r \in event_buffer :
         q.id = r.id /\ q.payload = r.payload /\ q.attempts = r.attempts
  BY <1>1 DEF Elapse, BufferInv, BufferTypeOK, EventBufferRecord
<1>4. TypeOK'
  BY <1>1, <1>2 DEF TypeOK, BufferInv, ReceiverTypeOK, receiverVars, shipperVars
<1>5. WireInv' /\ BatchInv' /\ OnlySavedTravels' /\ LifeCycle' /\ DeliveredMeansStored'
  BY <1>1 DEF WireInv, BatchInv, OnlySavedTravels, LifeCycle, Running, LockFree,
              DeliveredMeansStored, Received, receiverVars, shipperVars
<1>6. NoSilentLoss'
  BY <1>1, <1>2 DEF NoSilentLoss, Received, receiverVars
<1>7. BatchFresh'
  BY <1>1, <1>3 DEF BatchFresh, shipperVars
<1>8. QED
  BY <1>2, <1>4, <1>5, <1>6, <1>7

----------------------------------------------------------------------------
(* The worker: steps that do not write to the table.                       *)

(* A snapshot taken under the lock agrees with the table.                  *)
LEMMA FetchIInv == ASSUME IInv, Fetch PROVE IInv'
<1> USE DEF IInv
<1>1. /\ UNCHANGED bufferVars
      /\ UNCHANGED <<request, late, copies, faults, proc, result, connection>>
      /\ worker = "top" /\ worker' = "send" /\ ~StopEvent
  BY DEF Fetch, AtTop, receiverVars
<1>2. batch' \subseteq event_buffer
  BY OldestSubset DEF Fetch, FetchReadyBatch
<1>3. BufferInv' /\ BufferTypeOK'
  BY <1>1, BufferUnchanged
<1>4. TypeOK'
  BY <1>1, <1>2, <1>3 DEF TypeOK, ReceiverTypeOK, BufferTypeOK
<1>5. BatchInv'
  BY <1>1, <1>2 DEF BatchInv, BufferInv, IdsGivenOut, bufferVars
<1>6. BatchFresh'
  BY <1>1, <1>2 DEF BatchFresh, BufferInv, KeysUnique, bufferVars
<1>7. OnlySavedTravels'
  BY <1>1, <1>2 DEF OnlySavedTravels, BufferInv, OnlySaved, Payloads, bufferVars,
                    Received
<1>8. WireInv' /\ DeliveredMeansStored'
  BY <1>1 DEF WireInv, DeliveredMeansStored, BatchInv, Received
<1>9. LifeCycle' /\ NoSilentLoss'
  BY <1>1 DEF LifeCycle, Running, LockFree, NoSilentLoss,
              Received, bufferVars
<1>10. QED
  BY <1>3, <1>4, <1>5, <1>6, <1>7, <1>8, <1>9

LEMMA WorkerMovesIInv ==
    ASSUME IInv, Idle \/ WakeUp \/ WorkerExits
    PROVE  IInv'
<1> USE DEF IInv
<1>1. /\ UNCHANGED bufferVars
      /\ UNCHANGED <<request, late, copies, faults, proc, batch, result, connection>>
      /\ worker \in {"top", "wait"} /\ worker' \in {"top", "wait", "done"}
      /\ worker' = "top" => worker = "wait"
  BY DEF Idle, AtTop, WakeUp, WorkerExits, receiverVars
<1>2. BufferInv' /\ BufferTypeOK'
  BY <1>1, BufferUnchanged
<1>3. TypeOK'
  BY <1>1, <1>2 DEF TypeOK, ReceiverTypeOK
<1>4. WireInv' /\ BatchInv' /\ LifeCycle'
  BY <1>1 DEF WireInv, BatchInv, LifeCycle, Running, LockFree, Received, bufferVars
<1>5. OnlySavedTravels' /\ BatchFresh' /\ NoSilentLoss' /\ DeliveredMeansStored'
  BY <1>1 DEF OnlySavedTravels, BatchFresh, NoSilentLoss, DeliveredMeansStored, Received, bufferVars
<1>6. QED
  BY <1>2, <1>3, <1>4, <1>5

LEMMA SendIInv == ASSUME IInv, Send PROVE IInv'
<1> USE DEF IInv
<1>1. /\ UNCHANGED bufferVars
      /\ UNCHANGED <<late, copies, faults, proc, batch, result, connection>>
      /\ worker = "send" /\ worker' = "post"
      /\ request' = [events |-> Payloads(batch), stored |-> "no"]
  BY DEF Send
<1>2. BufferInv' /\ BufferTypeOK'
  BY <1>1, BufferUnchanged
<1>3. Payloads(batch) \subseteq Events
  BY DEF Payloads, TypeOK, EventBufferRecord
<1>4. TypeOK'
  BY <1>1, <1>2, <1>3 DEF TypeOK, ReceiverTypeOK, Requests
<1>5. WireInv' /\ BatchInv' /\ LifeCycle'
  BY <1>1 DEF WireInv, BatchInv, LifeCycle, Running, LockFree, bufferVars
<1>6. OnlySavedTravels' /\ BatchFresh' /\ NoSilentLoss' /\ DeliveredMeansStored'
  BY <1>1 DEF OnlySavedTravels, BatchFresh, NoSilentLoss, DeliveredMeansStored, Received, bufferVars
<1>7. QED
  BY <1>2, <1>4, <1>5, <1>6

(* A 2xx answer is sent only after the whole batch was stored.             *)
LEMMA AnswerIInv ==
    ASSUME IInv, ReplyOk \/ FailRetryable \/ Reject
    PROVE  IInv'
<1> USE DEF IInv
<1>1. /\ UNCHANGED bufferVars /\ UNCHANGED <<copies, proc, batch, connection>>
      /\ worker = "post" /\ worker' = "settle" /\ request' = NoRequest
      /\ result' \in {"delivered", "retryable", "rejected"}
      /\ result' = "delivered" => request.stored = "all"
      /\ late' = late \/ late' = late \cup Abandoned
  BY DEF ReplyOk, FailRetryable, Reject, Return, AbandonRequest
<1>2. faults' \in 0..MaxFaults
  BY ReceiverAssumption DEF ReplyOk, FailRetryable, Reject, FaultOrBroken, Fault,
                            TypeOK, ReceiverTypeOK
<1>3. BufferInv' /\ BufferTypeOK'
  BY <1>1, BufferUnchanged
<1>4. Abandoned \subseteq LateRequests /\ \A r \in Abandoned : r.events \subseteq saved
  BY <1>2, AbandonedSaved, ReceiverAssumption
<1>5. TypeOK'
  BY <1>1, <1>2, <1>3, <1>4 DEF TypeOK, ReceiverTypeOK, NoRequest, Requests
<1>6. DeliveredMeansStored'
  BY <1>1 DEF DeliveredMeansStored, WireInv, Received
<1>7. WireInv' /\ BatchInv' /\ LifeCycle'
  BY <1>1 DEF WireInv, BatchInv, LifeCycle, Running, LockFree, NoRequest, bufferVars
<1>8. OnlySavedTravels'
  BY <1>1, <1>4 DEF OnlySavedTravels, Received, bufferVars
<1>9. BatchFresh' /\ NoSilentLoss'
  BY <1>1 DEF BatchFresh, NoSilentLoss, Received, bufferVars
<1>10. QED
  BY <1>3, <1>5, <1>6, <1>7, <1>8, <1>9

LEMMA GiveUpIInv ==
    ASSUME IInv, WorkerRaises \/ BackoffOverflows
    PROVE  IInv'
<1> USE DEF IInv
<1>1. /\ UNCHANGED bufferVars /\ UNCHANGED <<copies, proc, connection>>
      /\ worker \in {"top", "send", "post", "settle"} /\ worker' = "wait"
      /\ batch' = {} /\ result' = "none"
      /\ request' = NoRequest
      /\ late' = late \/ late' = late \cup Abandoned
  BY DEF WorkerRaises, BackoffOverflows, Proceed, AbandonRequest, WireInv, receiverVars
<1>2. faults' \in 0..MaxFaults
  BY ReceiverAssumption DEF WorkerRaises, BackoffOverflows, FaultOrBroken, Fault,
                            TypeOK, ReceiverTypeOK, receiverVars
<1>3. BufferInv' /\ BufferTypeOK'
  BY <1>1, BufferUnchanged
<1>4. Abandoned \subseteq LateRequests /\ \A r \in Abandoned : r.events \subseteq saved
  BY <1>2, AbandonedSaved, ReceiverAssumption
<1>5. TypeOK'
  BY <1>1, <1>2, <1>3, <1>4 DEF TypeOK, ReceiverTypeOK, NoRequest, Requests
<1>6. WireInv' /\ BatchInv' /\ LifeCycle'
  BY <1>1 DEF WireInv, BatchInv, LifeCycle, Running, LockFree, NoRequest, bufferVars
<1>7. OnlySavedTravels'
  BY <1>1, <1>4 DEF OnlySavedTravels, Received, Payloads, bufferVars
<1>8. BatchFresh' /\ NoSilentLoss' /\ DeliveredMeansStored'
  BY <1>1 DEF BatchFresh, NoSilentLoss, DeliveredMeansStored,
              Received, bufferVars
<1>9. QED
  BY <1>3, <1>5, <1>6, <1>7, <1>8

----------------------------------------------------------------------------
(* The worker: the two ways to settle a batch.                             *)

(* After every settling step the iteration is over.                        *)
LEMMA ProceedWire ==
    ASSUME IInv, worker = "settle", NEW next \in {"top", "wait"}, Proceed(next),
           UNCHANGED <<receiverVars, saved, insert_pc, sqlite_sequence>>
    PROVE  WireInv' /\ BatchInv' /\ LifeCycle' /\ OnlySavedTravels'
           /\ DeliveredMeansStored' /\ BatchFresh'
BY DEF IInv, WireInv, BatchInv, LifeCycle, OnlySavedTravels, DeliveredMeansStored,
       BatchFresh, Proceed, Running, LockFree, Received, Payloads, receiverVars

(* What delete_many() removes has been received: the rows with the batch's *)
(* ids are the rows of the batch, and the batch was stored in whole.       *)
LEMMA DeleteDeliveredIInv == ASSUME IInv, DeleteDelivered PROVE IInv'
<1> USE DEF IInv
<1>1. /\ worker = "settle" /\ result = "delivered" /\ Proceed("top")
      /\ event_buffer' = {r \in event_buffer : r.id \notin Ids(batch)}
      /\ UNCHANGED <<sqlite_sequence, db_size, insert_pc, saved, evicted>>
      /\ UNCHANGED receiverVars
  BY DEF DeleteDelivered, DeleteMany
<1>2. BufferInv'
  BY <1>1, SubsetBufferInv DEF BufferInv, BufferTypeOK, OnlySaved
<1>3. TypeOK'
  BY <1>1, <1>2 DEF TypeOK, BufferInv, ReceiverTypeOK, Proceed, receiverVars
<1>4. Payloads(event_buffer) \ Payloads(event_buffer') \subseteq Payloads(batch)
  BY <1>1 DEF BatchFresh, Ids, Payloads
<1>5. Payloads(batch) \subseteq Received /\ Received' = Received
  BY <1>1 DEF DeliveredMeansStored, Received, receiverVars
<1>6. NoSilentLoss'
  BY <1>1, <1>4, <1>5 DEF NoSilentLoss
<1>7. QED
  BY <1>1, <1>2, <1>3, <1>6, ProceedWire

(* mark_failed() leaves the payloads; the batch is given up.               *)
LEMMA PostponeFailedIInv == ASSUME IInv, PostponeFailed PROVE IInv'
<1> USE DEF IInv
<1>1. worker = "settle" /\ Proceed("wait") /\ UNCHANGED receiverVars
  BY DEF PostponeFailed
<1>2. PICK d \in 0..(MaxBackoff + RejectDelay) : MarkFailed(Ids(batch), d)
  BY DEF PostponeFailed, RetryDelays
<1>3. d \in Nat
  BY <1>2
<1>4. BufferInv' /\ Payloads(event_buffer') = Payloads(event_buffer)
  BY <1>2, <1>3, MarkFailedUpdates
<1>5. UNCHANGED <<sqlite_sequence, db_size, insert_pc, saved, evicted>>
  BY <1>2 DEF MarkFailed
<1>6. TypeOK'
  BY <1>1, <1>4 DEF TypeOK, BufferInv, ReceiverTypeOK, Proceed, receiverVars
<1>7. NoSilentLoss'
  BY <1>1, <1>4, <1>5 DEF NoSilentLoss, Received, receiverVars
<1>8. QED
  BY <1>1, <1>4, <1>5, <1>6, <1>7, ProceedWire

----------------------------------------------------------------------------
LEMMA IInvStep == IInv /\ [Next]_vars => IInv'
<1> SUFFICES ASSUME IInv, [Next]_vars PROVE IInv'
  OBVIOUS
<1>1. CASE MainNext
  <2>1. ASSUME NEW e \in Events, Emit(e) PROVE IInv'
    BY <2>1, EmitIInv
  <2>2. QED
    BY <1>1, <2>1, RetainIInv, EmitRaisesIInv, StopIInv, DieIInv DEF MainNext
<1>2. CASE WorkerNext
  BY <1>2, FetchIInv, WorkerMovesIInv, SendIInv, AnswerIInv, GiveUpIInv,
     DeleteDeliveredIInv, PostponeFailedIInv DEF WorkerNext, WorkerStep
<1>3. CASE Serve
  BY <1>3, ServeIInv
<1>4. CASE Tick
  BY <1>4, TickIInv
<1>5. CASE UNCHANGED vars
  <2>1. BufferInv' /\ UNCHANGED <<bufferVars, receiverVars, shipperVars>>
    BY <1>5, BufferUnchanged DEF vars, IInv
  <2>2. QED
    BY <2>1 DEF IInv, TypeOK, BufferInv, ReceiverTypeOK, WireInv, BatchInv,
                OnlySavedTravels, LifeCycle, BatchFresh, NoSilentLoss,
                DeliveredMeansStored, bufferVars, receiverVars,
                shipperVars, Received, Running, LockFree
<1>6. QED
  BY <1>1, <1>2, <1>3, <1>4, <1>5 DEF Next

(* The inductive invariant holds in every reachable state.                 *)
THEOREM Invariance == Spec => []IInv
<1>1. Init => IInv
  BY InitIInv
<1>2. IInv /\ [Next]_vars => IInv'
  BY IInvStep
<1>3. QED
  BY <1>1, <1>2, PTL DEF Spec

(* Type correctness of the whole output path.                              *)
THEOREM TypeCorrect == Spec => []TypeOK
<1>1. IInv => TypeOK
  BY DEF IInv
<1>2. QED
  BY <1>1, Invariance, PTL

(* A saved event is in the table, received or evicted, whatever crashes,   *)
(* interrupted inserts, lost answers and restarts happen.                  *)
THEOREM NothingIsLostSilently == Spec => []NoSilentLoss
<1>1. IInv => NoSilentLoss
  BY DEF IInv
<1>2. QED
  BY <1>1, Invariance, PTL

(* A row of the batch in flight is the row that was fetched.               *)
THEOREM BatchStaysFresh == Spec => []BatchFresh
<1>1. IInv => BatchFresh
  BY DEF IInv
<1>2. QED
  BY <1>1, Invariance, PTL

(* The batch of a 2xx answer is in the server's file in whole.             *)
THEOREM DeliveredIsStored == Spec => []DeliveredMeansStored
<1>1. IInv => DeliveredMeansStored
  BY DEF IInv
<1>2. QED
  BY <1>1, Invariance, PTL

(* close() finds the worker ended and no insert() under way.               *)
THEOREM ConnectionSafe == Spec => []NoUseAfterClose
<1>1. IInv => NoUseAfterClose
  BY DEF IInv, LifeCycle, NoUseAfterClose, Running
<1>2. QED
  BY <1>1, Invariance, PTL

----------------------------------------------------------------------------
(* Refinement: every step of the shipper is a step of Outbox or stutters.  *)

LEMMA SameForOutbox ==
    ASSUME UNCHANGED <<event_buffer, saved, evicted, copies>>
    PROVE  UNCHANGED AbstractOutbox!outboxVars
BY DEF AbstractOutbox!outboxVars, Received, Payloads

(* emit() accepts an event.                                                *)
LEMMA EmitAccepts ==
    ASSUME IInv, NEW e \in Events, Emit(e)
    PROVE  AbstractOutbox!OutboxNext
<1> DEFINE row == [id |-> NextRowId, payload |-> e, attempts |-> 0, wait |-> 0]
<1>1. /\ event_buffer' = event_buffer \cup {row} /\ row.payload = e
      /\ e \notin saved /\ saved' = saved \cup {e}
      /\ UNCHANGED <<evicted, copies>>
  BY DEF Emit, Insert, receiverVars
<1> HIDE DEF row
<1>2. Payloads(event_buffer') = Payloads(event_buffer) \cup {e}
  BY <1>1 DEF Payloads
<1>3. Received' = Received
  BY <1>1 DEF Received
<1>4. AbstractOutbox!Accept(e)
  BY <1>1, <1>2, <1>3 DEF AbstractOutbox!Accept
<1>5. QED
  BY <1>4 DEF AbstractOutbox!OutboxNext

(* Retention discards pending events.                                      *)
LEMMA RetainDiscards ==
    ASSUME IInv, Retain
    PROVE  [AbstractOutbox!OutboxNext]_(AbstractOutbox!outboxVars)
<1>1. UNCHANGED <<saved, copies>> /\ Received' = Received
  BY DEF Retain, EnforceMaxRows, EnforceMaxDbSize, receiverVars, Received
<1>2. ASSUME NEW n, DeleteOldest(n)
      PROVE  AbstractOutbox!OutboxNext
  <2>1. PICK S \in SUBSET Payloads(event_buffer) :
           /\ Payloads(event_buffer') = Payloads(event_buffer) \ S
           /\ evicted' = evicted \cup S
    BY <1>2, DeleteOldestEvicts DEF IInv
  <2>2. AbstractOutbox!Discard(S)
    BY <1>1, <2>1 DEF AbstractOutbox!Discard
  <2>3. QED
    BY <2>2 DEF AbstractOutbox!OutboxNext
<1>3. CASE UNCHANGED <<event_buffer, evicted>>
  BY <1>1, <1>3, SameForOutbox
<1>4. QED
  BY <1>2, <1>3 DEF Retain, EnforceMaxRows, EnforceMaxDbSize

(* The server receives events that were accepted.                          *)
LEMMA ServeReceives ==
    ASSUME IInv, Serve
    PROVE  AbstractOutbox!OutboxNext
<1>1. UNCHANGED <<event_buffer, saved, evicted>>
      /\ Payloads(event_buffer') = Payloads(event_buffer)
  BY DEF Serve, bufferVars, Payloads
<1>2. /\ copies \in [Events -> 0..2] /\ saved \subseteq Events
      /\ request.events \subseteq saved
      /\ \A r \in late : r.events \subseteq saved
  BY DEF IInv, TypeOK, ReceiverTypeOK, BufferTypeOK, WireInv, OnlySavedTravels,
         NoRequest
<1>3. PICK S \in SUBSET saved : Store(S)
  BY <1>2 DEF Serve, DoPost, DoPostBreaks, DoPostLate
<1>4. Received' = Received \cup S
  BY <1>2, <1>3, StoreGrows
<1>5. AbstractOutbox!Receive(S)
  BY <1>1, <1>4 DEF AbstractOutbox!Receive
<1>6. QED
  BY <1>3, <1>5 DEF AbstractOutbox!OutboxNext

(* The worker deletes events that were received.                           *)
LEMMA DeleteAcknowledges ==
    ASSUME IInv, DeleteDelivered
    PROVE  AbstractOutbox!OutboxNext
<1> DEFINE S == Payloads(event_buffer) \ Payloads(event_buffer')
<1>1. /\ result = "delivered"
      /\ event_buffer' = {r \in event_buffer : r.id \notin Ids(batch)}
      /\ UNCHANGED <<saved, evicted, copies>> /\ Received' = Received
  BY DEF DeleteDelivered, DeleteMany, receiverVars, Received
<1>2. S \subseteq Payloads(batch)
  BY <1>1 DEF IInv, BatchFresh, Ids, Payloads
<1>3. S \in SUBSET (Payloads(event_buffer) \cap Received)
  BY <1>1, <1>2 DEF IInv, DeliveredMeansStored
<1>4. Payloads(event_buffer') = Payloads(event_buffer) \ S
  <2>1. Payloads(event_buffer') \subseteq Payloads(event_buffer)
    BY <1>1 DEF Payloads
  <2>2. QED
    BY <2>1
<1>5. AbstractOutbox!Acknowledge(S)
  BY <1>1, <1>4 DEF AbstractOutbox!Acknowledge
<1>6. QED
  BY <1>3, <1>5 DEF AbstractOutbox!OutboxNext

LEMMA OutboxStep ==
    IInv /\ [Next]_vars =>
        [AbstractOutbox!OutboxNext]_(AbstractOutbox!outboxVars)
<1> SUFFICES ASSUME IInv, [Next]_vars
             PROVE  [AbstractOutbox!OutboxNext]_(AbstractOutbox!outboxVars)
  OBVIOUS
<1>1. ASSUME NEW e \in Events, Emit(e) PROVE AbstractOutbox!OutboxNext
  BY <1>1, EmitAccepts
<1>2. CASE PostponeFailed
  <2>1. PICK d \in 0..(MaxBackoff + RejectDelay) : MarkFailed(Ids(batch), d)
    BY <1>2 DEF PostponeFailed, RetryDelays
  <2>2. Payloads(event_buffer') = Payloads(event_buffer)
    BY <2>1, MarkFailedUpdates DEF IInv
  <2>3. UNCHANGED <<saved, evicted, copies>> /\ Received' = Received
    BY <1>2, <2>1 DEF MarkFailed, PostponeFailed, receiverVars, Received
  <2>4. QED
    BY <2>2, <2>3 DEF AbstractOutbox!outboxVars
<1>3. CASE Tick
  <2>1. Payloads(event_buffer') = Payloads(event_buffer)
    BY <1>3, ElapseUpdates DEF IInv, Tick
  <2>2. UNCHANGED <<saved, evicted>> /\ Received' = Received
    BY <1>3 DEF Tick, Elapse, receiverVars, Received
  <2>3. QED
    BY <2>1, <2>2 DEF AbstractOutbox!outboxVars
<1>4. CASE EmitRaises \/ Stop \/ JoinCloses \/ JoinTimesOut \/ Exit \/ Crash \/ Start
  BY <1>4, SameForOutbox
  DEF EmitRaises, InsertRaises, Stop, JoinCloses, JoinTimesOut, Exit, Crash, Die,
      Start, bufferVars, receiverVars
<1>5. CASE \/ Fetch \/ Idle \/ Send \/ ReplyOk \/ BackoffOverflows \/ WakeUp
           \/ WorkerExits \/ FailRetryable \/ Reject \/ WorkerRaises
  BY <1>5, SameForOutbox
  DEF Fetch, Idle, Send, ReplyOk, BackoffOverflows, WakeUp, WorkerExits,
      FailRetryable, Reject, WorkerRaises, Return, bufferVars, receiverVars
<1>6. CASE UNCHANGED vars
  BY <1>6, SameForOutbox DEF vars, bufferVars, receiverVars
<1>7. QED
  BY <1>1, <1>2, <1>3, <1>4, <1>5, <1>6, RetainDiscards, ServeReceives,
     DeleteAcknowledges
  DEF Next, MainNext, WorkerNext, WorkerStep

(* The output path implements the at-least-once outbox.                    *)
THEOREM Refinement == Spec => ImplementsOutbox
<1>1. Init => AbstractOutbox!OutboxInit
  BY DEF Init, InitSchema, InitReceiver, AbstractOutbox!OutboxInit, Received,
         Payloads
<1>2. IInv /\ [Next]_vars =>
         [AbstractOutbox!OutboxNext]_(AbstractOutbox!outboxVars)
  BY OutboxStep
<1>3. QED
  BY <1>1, <1>2, Invariance, PTL
  DEF Spec, ImplementsOutbox, AbstractOutbox!OutboxSpec

----------------------------------------------------------------------------
(* The limit on rows, through interrupted inserts and crashes.             *)

LEMMA FaultsGrow ==
    ASSUME IInv, [Next]_vars
    PROVE  faults \in Nat /\ faults' \in Nat /\ faults <= faults'
<1>1. faults \in Nat
  BY ReceiverAssumption DEF IInv, TypeOK, ReceiverTypeOK
<1>2. faults' = faults \/ faults' = faults + 1
  BY DEF Next, MainNext, WorkerNext, WorkerStep, Emit, Retain, EmitRaises, Stop,
         JoinCloses, JoinTimesOut, Exit, Crash, Start, Fetch, Idle, Send, ReplyOk,
         DeleteDelivered, PostponeFailed, BackoffOverflows, WakeUp, WorkerExits,
         FailRetryable, Reject, WorkerRaises, Serve, DoPost, DoPostBreaks,
         DoPostLate, Tick, Fault, FaultOrBroken, vars, receiverVars
<1>3. QED
  BY <1>1, <1>2

LEMMA LimitStep == IInv /\ LimitInv /\ [Next]_vars => LimitInv'
<1> SUFFICES ASSUME IInv, LimitInv, [Next]_vars, MaxRows > 0 PROVE LimitInv'
  BY DEF LimitInv
<1>1. IInv' /\ faults \in Nat /\ faults' \in Nat /\ faults <= faults'
  BY IInvStep, FaultsGrow
<1>2. /\ Cardinality(event_buffer) \in Nat /\ Cardinality(event_buffer') \in Nat
      /\ MaxRows \in Nat /\ IsFiniteSet(event_buffer)
  BY <1>1, FS_CardinalityType, BufferAssumption DEF IInv, BufferInv
<1>3. ASSUME NEW e \in Events, Emit(e) PROVE LimitInv'
  <2> DEFINE row == [id |-> NextRowId, payload |-> e, attempts |-> 0, wait |-> 0]
  <2>1. /\ event_buffer' = event_buffer \cup {row}
        /\ insert_pc = "idle" /\ insert_pc' = "max_rows"
    BY <1>3 DEF Emit, Insert, LockFree
  <2> HIDE DEF row
  <2>2. Cardinality(event_buffer') <= Cardinality(event_buffer) + 1
    <3>1. Cardinality(event_buffer \cup {row}) =
            IF row \in event_buffer THEN Cardinality(event_buffer)
                                    ELSE Cardinality(event_buffer) + 1
      BY <1>2, FS_AddElement
    <3>2. QED
      BY <1>2, <2>1, <3>1
  <2>3. QED
    BY <1>1, <1>2, <2>1, <2>2 DEF LimitInv
<1>4. CASE Retain
  <2>1. CASE EnforceMaxRows
    <3>1. Cardinality(event_buffer') <= MaxRows /\ insert_pc' = "max_size"
      BY <2>1, EnforceMaxRowsLimits DEF IInv, EnforceMaxRows
    <3>2. QED
      BY <1>1, <1>2, <3>1 DEF LimitInv
  <2>2. CASE EnforceMaxDbSize
    <3>1. event_buffer' \in SUBSET event_buffer
          /\ insert_pc = "max_size" /\ insert_pc' = "idle"
      BY <2>2, OldestSubset DEF EnforceMaxDbSize, DeleteOldest
    <3>2. Cardinality(event_buffer') <= Cardinality(event_buffer)
      BY <1>2, <3>1, FS_Subset
    <3>3. QED
      BY <1>1, <1>2, <3>1, <3>2 DEF LimitInv
  <2>3. QED
    BY <1>4, <2>1, <2>2 DEF Retain
<1>5. CASE EmitRaises \/ Crash
  <2>1. /\ event_buffer' = event_buffer /\ insert_pc' = "idle"
        /\ faults' = faults + 1
    BY <1>5 DEF EmitRaises, InsertRaises, Crash, Die, Fault
  <2>2. QED
    BY <1>1, <1>2, <2>1 DEF LimitInv
<1>6. ASSUME insert_pc' = insert_pc,
             Cardinality(event_buffer') <= Cardinality(event_buffer)
      PROVE  LimitInv'
  BY <1>1, <1>2, <1>6 DEF LimitInv
<1>7. CASE PostponeFailed
  <2>1. PICK d \in 0..(MaxBackoff + RejectDelay) : MarkFailed(Ids(batch), d)
    BY <1>7 DEF PostponeFailed, RetryDelays
  <2>2. d \in Nat
    BY <2>1, ShipperAssumption
  <2>3. Cardinality(event_buffer') <= Cardinality(event_buffer)
    BY <2>1, <2>2, MarkFailedUpdates DEF IInv
  <2>4. QED
    BY <1>6, <2>1, <2>3 DEF MarkFailed
<1>8. CASE Tick
  BY <1>6, <1>8, ElapseUpdates DEF IInv, Tick, Elapse
<1>9. CASE DeleteDelivered
  <2>1. event_buffer' \in SUBSET event_buffer /\ insert_pc' = insert_pc
    BY <1>9 DEF DeleteDelivered, DeleteMany
  <2>2. Cardinality(event_buffer') <= Cardinality(event_buffer)
    BY <1>2, <2>1, FS_Subset
  <2>3. QED
    BY <1>6, <2>1, <2>2
<1>10. CASE Exit
  <2>1. event_buffer' = event_buffer /\ insert_pc' = insert_pc
    BY <1>10 DEF Exit, Die, IInv, LifeCycle, LockFree
  <2>2. QED
    BY <1>2, <1>6, <2>1
<1>11. ASSUME UNCHANGED bufferVars PROVE LimitInv'
  BY <1>2, <1>6, <1>11 DEF bufferVars
<1>12. CASE \/ Stop \/ JoinCloses \/ JoinTimesOut \/ Start
            \/ Fetch \/ Idle \/ Send \/ ReplyOk \/ BackoffOverflows \/ WakeUp
            \/ WorkerExits \/ FailRetryable \/ Reject \/ WorkerRaises
            \/ Serve \/ UNCHANGED vars
  BY <1>11, <1>12
  DEF Stop, JoinCloses, JoinTimesOut, Start, Fetch, Idle, Send, ReplyOk,
      BackoffOverflows, WakeUp, WorkerExits, FailRetryable, Reject, WorkerRaises,
      Return, Serve, vars
<1>13. QED
  BY <1>3, <1>4, <1>5, <1>7, <1>8, <1>9, <1>10, <1>12
  DEF Next, MainNext, WorkerNext, WorkerStep

(* The table exceeds max_rows by at most one row per fault.                *)
THEOREM RowLimitHolds == Spec => []RowLimit
<1>1. Init => LimitInv
  BY BufferAssumption, FS_EmptySet DEF Init, InitSchema, InitReceiver, LimitInv
<1>2. IInv /\ LimitInv /\ [Next]_vars => LimitInv'
  BY LimitStep
<1>3. IInv /\ LimitInv => RowLimit
  <2>1. IInv => /\ Cardinality(event_buffer) \in Nat /\ faults \in Nat
                /\ MaxRows \in Nat
    BY FS_CardinalityType, BufferAssumption, ReceiverAssumption
    DEF IInv, BufferInv, TypeOK, ReceiverTypeOK
  <2>2. QED
    BY <2>1 DEF LimitInv, RowLimit, LockFree
<1>4. QED
  BY <1>1, <1>2, <1>3, Invariance, PTL DEF Spec

----------------------------------------------------------------------------
(* Without faults: each step of a behaviour that has had none.             *)

(* A step that changes neither the batch nor what was received, and at     *)
(* most removes rows, keeps what holds of the batch and the table.         *)
LEMMA FaultFreeKept ==
    ASSUME FaultFreeInv, faults = 0,
           event_buffer' \subseteq event_buffer, batch' = batch, copies' = copies,
           worker' # "send", worker' = "post" => request' = request /\ worker = "post",
           late' = late, request'.stored # "part",
           proc' \in {"up", "stopping", "exited"}, result' \in {"none", "delivered"}
    PROVE  FaultFreeInv'
<1>1. NothingWentWrong'
  BY DEF FaultFreeInv, NothingWentWrong
<1>2. BatchIsOldest'
  BY DEF FaultFreeInv, BatchIsOldest
<1>3. StoredIsBatch'
  BY DEF FaultFreeInv, StoredIsBatch, Received
<1>4. QED
  BY <1>1, <1>2, <1>3 DEF FaultFreeInv

(* The row that is added is the newest, and its event is new to the server *)
(* and to the batch.                                                       *)
LEMMA EmitFaultFree ==
    ASSUME IInv, FaultFreeInv, faults = 0, NEW e \in Events, Emit(e)
    PROVE  FaultFreeInv'
<1> DEFINE row == [id |-> NextRowId, payload |-> e, attempts |-> 0, wait |-> 0]
<1>1. /\ event_buffer' = event_buffer \cup {row} /\ e \notin saved
      /\ UNCHANGED <<request, late, copies, proc, worker, batch, result>>
  BY DEF Emit, Insert, receiverVars, shipperVars
<1>2. row.id = sqlite_sequence + 1 /\ row.payload = e /\ row.wait = 0
  BY DEF NextRowId
<1>3. \A b \in batch : /\ b.id \in Nat /\ b.id <= sqlite_sequence
                       /\ b.payload \in saved
  BY DEF IInv, TypeOK, BatchInv, OnlySavedTravels, Payloads, EventBufferRecord
<1>4. sqlite_sequence \in Nat /\ e \notin Received
  BY <1>1 DEF IInv, TypeOK, BufferTypeOK, OnlySavedTravels
<1> HIDE DEF row
<1>5. NothingWentWrong'
  BY <1>1, <1>2 DEF FaultFreeInv, NothingWentWrong
<1>6. \A b \in batch : ~(row.id < b.id) /\ row.payload # b.payload
  BY <1>1, <1>2, <1>3, <1>4
<1>7. BatchIsOldest'
  BY <1>1, <1>6 DEF FaultFreeInv, BatchIsOldest
<1>8. StoredIsBatch'
  BY <1>1, <1>2, <1>4 DEF FaultFreeInv, StoredIsBatch, Received
<1>9. QED
  BY <1>5, <1>7, <1>8 DEF FaultFreeInv

(* The rows that are fetched are the oldest of the table, as none waits,   *)
(* and the server has none of them, as it has none of the table.           *)
LEMMA FetchFaultFree ==
    ASSUME IInv, FaultFreeInv, faults = 0, Fetch
    PROVE  FaultFreeInv'
<1>1. /\ batch' = FetchReadyBatch(BatchSize) /\ batch = {} /\ worker' = "send"
      /\ UNCHANGED <<event_buffer, request, late, copies, proc, result>>
  BY DEF IInv, BatchInv, Fetch, AtTop, bufferVars, receiverVars
<1>2. {r \in event_buffer : r.wait = 0} = event_buffer
  BY DEF FaultFreeInv, NothingWentWrong
<1>3. batch' = Oldest(BatchSize, event_buffer)
  BY <1>1, <1>2 DEF FetchReadyBatch
<1>4. /\ event_buffer \in SUBSET EventBufferRecord /\ IsFiniteSet(event_buffer)
      /\ BatchSize \in Nat /\ PayloadsUnique
  BY ShipperAssumption DEF IInv, BufferInv, BufferTypeOK
<1>5. batch' \subseteq event_buffer
  BY <1>3, OldestSubset
<1>6. \A b \in batch', r \in event_buffer : r.id < b.id => r \in batch'
  <2> SUFFICES ASSUME NEW b \in batch', NEW r \in event_buffer \ batch', r.id < b.id
               PROVE  FALSE
    OBVIOUS
  <2>1. b.id < r.id
    BY <1>3, <1>4, OldestAreOlder
  <2>2. b.id \in Nat /\ r.id \in Nat
    BY <1>4, <1>5 DEF EventBufferRecord
  <2>3. QED
    BY <2>1, <2>2
<1>7. BatchIsOldest'
  BY <1>1, <1>4, <1>5, <1>6 DEF BatchIsOldest, Ids, PayloadsUnique
<1>8. \A r \in event_buffer : r.payload \notin Received
  BY <1>1 DEF FaultFreeInv, StoredIsBatch, Ids
<1>9. StoredIsBatch'
  BY <1>1, <1>5, <1>8 DEF FaultFreeInv, StoredIsBatch, Received, Payloads
<1>10. NothingWentWrong'
  BY <1>1 DEF FaultFreeInv, NothingWentWrong
<1>11. QED
  BY <1>7, <1>9, <1>10 DEF FaultFreeInv

(* The server stores the batch, of which it had nothing.                   *)
LEMMA DoPostFaultFree ==
    ASSUME IInv, FaultFreeInv, faults = 0, DoPost, UNCHANGED <<bufferVars, shipperVars>>
    PROVE  FaultFreeInv'
<1>1. /\ request.events = Payloads(batch) /\ worker = "post"
      /\ request.stored = "no" /\ request'.stored = "all"
      /\ UNCHANGED <<event_buffer, late, proc, worker, batch, result>>
      /\ Store(Payloads(batch))
  <2>1. worker = "post" /\ request.events = Payloads(batch)
    BY DEF DoPost, IInv, WireInv, NoRequest
  <2>2. request'.stored = "all"
    BY DEF DoPost, IInv, TypeOK, ReceiverTypeOK, Requests
  <2>3. QED
    BY <2>1, <2>2 DEF DoPost, bufferVars, shipperVars
<1>2. /\ copies \in [Events -> 0..2]
      /\ Payloads(batch) \subseteq Events
  BY DEF IInv, TypeOK, ReceiverTypeOK, Payloads, EventBufferRecord
<1>3. Payloads(batch) \cap Received = {} /\ \A e \in Events : copies[e] <= 1
  BY <1>1 DEF FaultFreeInv, StoredIsBatch
<1>4. \A e \in Payloads(batch) : copies[e] = 0 /\ copies'[e] = 1
  BY <1>1, <1>2, <1>3 DEF Received, Store
<1>5. \A e \in Events \ Payloads(batch) : copies'[e] = copies[e]
  BY <1>1 DEF Store
<1>6. \A e \in Events : copies'[e] <= 1
  BY <1>3, <1>4, <1>5
<1>7. Received' = Received \cup Payloads(batch)
  BY <1>2, <1>4, <1>5 DEF Received
<1>8. \A r \in event_buffer : r.payload \in Received' => r.id \in Ids(batch)
  <2> SUFFICES ASSUME NEW r \in event_buffer, r.payload \in Payloads(batch)
               PROVE  r.id \in Ids(batch)
    BY <1>7 DEF FaultFreeInv, StoredIsBatch
  <2>1. PICK b \in batch : b.payload = r.payload
    BY DEF Payloads
  <2>2. QED
    BY <2>1 DEF FaultFreeInv, BatchIsOldest, Ids
<1>9. StoredIsBatch'
  BY <1>1, <1>6, <1>7, <1>8 DEF StoredIsBatch, Ids, Payloads
<1>10. NothingWentWrong' /\ BatchIsOldest'
  BY <1>1 DEF FaultFreeInv, NothingWentWrong, BatchIsOldest, Ids
<1>11. QED
  BY <1>9, <1>10 DEF FaultFreeInv

(* The rows the server has are those that are deleted.                     *)
LEMMA DeleteDeliveredFaultFree ==
    ASSUME IInv, FaultFreeInv, faults = 0, DeleteDelivered
    PROVE  FaultFreeInv'
<1>1. /\ event_buffer' = {r \in event_buffer : r.id \notin Ids(batch)}
      /\ batch' = {} /\ result' = "none" /\ worker' = "top"
      /\ UNCHANGED <<request, late, copies, proc>>
  BY DEF DeleteDelivered, DeleteMany, Proceed, receiverVars
<1>2. NothingWentWrong' /\ BatchIsOldest'
  BY <1>1 DEF FaultFreeInv, NothingWentWrong, BatchIsOldest
<1>3. StoredIsBatch'
  BY <1>1 DEF FaultFreeInv, StoredIsBatch, Received
<1>4. QED
  BY <1>2, <1>3 DEF FaultFreeInv

(* The steps that a behaviour without faults does not take.                *)
LEMMA OnlyAfterAFault ==
    ASSUME IInv, FaultFreeInv, faults = 0, faults' = 0
    PROVE  /\ ~EmitRaises /\ ~JoinTimesOut /\ ~Crash /\ ~Exit
           /\ ~FailRetryable /\ ~Reject /\ ~WorkerRaises
           /\ ~PostponeFailed /\ ~BackoffOverflows
           /\ ~DoPostBreaks /\ ~DoPostLate /\ ~Tick
<1>1. ~Fault
  BY DEF Fault
<1>2. NothingWentWrong
  BY DEF FaultFreeInv
<1>3. ~FaultOrBroken
  BY <1>1, <1>2 DEF FaultOrBroken, NothingWentWrong
<1>4. ~Tick
  <2>1. \A r \in event_buffer : ~(r.wait > 0)
    BY <1>2 DEF NothingWentWrong
  <2>2. QED
    BY <2>1 DEF Tick, Elapse
<1>5. QED
  BY <1>1, <1>2, <1>3, <1>4
  DEF EmitRaises, JoinTimesOut, Crash, Exit, FailRetryable, Reject, WorkerRaises,
      PostponeFailed, BackoffOverflows, DoPostBreaks, DoPostLate, NothingWentWrong

(* FaultFreeInv is inductive, together with IInv.                          *)
LEMMA FaultFreeStep == IInv /\ FaultFreeInv /\ [Next]_vars => FaultFreeInv'
<1> SUFFICES ASSUME IInv, FaultFreeInv, [Next]_vars, faults' = 0
             PROVE  FaultFreeInv'
  BY DEF FaultFreeInv
<1>1. faults = 0
  BY FaultsGrow
<1>2. NothingWentWrong
  BY <1>1 DEF FaultFreeInv
<1>3. ASSUME NEW e \in Events, Emit(e) PROVE FaultFreeInv'
  BY <1>1, <1>3, EmitFaultFree
<1>4. CASE Retain
  <2>1. /\ event_buffer' \subseteq event_buffer
        /\ UNCHANGED <<request, late, copies, proc, worker, batch, result>>
    BY <1>4, OldestSubset DEF Retain, EnforceMaxRows, EnforceMaxDbSize, DeleteOldest,
                              receiverVars, shipperVars
  <2>2. CASE worker # "send"
    BY <1>1, <1>2, <2>1, <2>2, FaultFreeKept DEF NothingWentWrong
  <2>3. CASE worker = "send"
    <3>1. NothingWentWrong' /\ BatchIsOldest'
      BY <1>1, <2>1 DEF FaultFreeInv, NothingWentWrong, BatchIsOldest
    <3>2. StoredIsBatch'
      BY <1>1, <2>1 DEF FaultFreeInv, StoredIsBatch, Received
    <3>3. QED
      BY <3>1, <3>2 DEF FaultFreeInv
  <2>4. QED
    BY <2>2, <2>3
<1>5. CASE Stop \/ JoinCloses \/ Start
  <2>1. /\ UNCHANGED <<event_buffer, request, late, copies, batch, result>>
        /\ proc' \in {"up", "stopping", "exited"}
        /\ worker' = worker \/ worker' = "top"
    BY <1>5 DEF Stop, JoinCloses, Start, bufferVars, receiverVars
  <2>2. NothingWentWrong' /\ BatchIsOldest'
    BY <1>1, <2>1 DEF FaultFreeInv, NothingWentWrong, BatchIsOldest
  <2>3. StoredIsBatch'
    BY <1>1, <2>1 DEF FaultFreeInv, StoredIsBatch, Received
  <2>4. QED
    BY <2>2, <2>3 DEF FaultFreeInv
<1>6. CASE Fetch
  BY <1>1, <1>6, FetchFaultFree
<1>7. CASE Idle \/ WakeUp \/ WorkerExits
  <2>1. /\ UNCHANGED <<event_buffer, request, late, copies, proc, batch, result>>
        /\ worker' \in {"top", "wait", "done"}
    BY <1>7 DEF Idle, WakeUp, WorkerExits, bufferVars, receiverVars
  <2>2. QED
    BY <1>1, <1>2, <2>1, FaultFreeKept DEF NothingWentWrong
<1>8. CASE Send
  <2>1. /\ UNCHANGED <<event_buffer, late, copies, proc, batch, result>>
        /\ worker = "send" /\ worker' = "post" /\ request'.stored = "no"
    BY <1>8 DEF Send, bufferVars
  <2>2. NothingWentWrong' /\ BatchIsOldest'
    BY <1>1, <2>1 DEF FaultFreeInv, NothingWentWrong, BatchIsOldest
  <2>3. StoredIsBatch'
    BY <1>1, <2>1 DEF FaultFreeInv, StoredIsBatch, Received
  <2>4. QED
    BY <2>2, <2>3 DEF FaultFreeInv
<1>9. CASE ReplyOk
  <2>1. /\ UNCHANGED <<event_buffer, late, copies, proc, batch>>
        /\ worker' = "settle" /\ result' = "delivered" /\ request'.stored = "no"
    BY <1>9 DEF ReplyOk, Return, NoRequest, bufferVars
  <2>2. QED
    BY <1>1, <1>2, <2>1, FaultFreeKept DEF NothingWentWrong
<1>10. CASE DeleteDelivered
  BY <1>1, <1>10, DeleteDeliveredFaultFree
<1>11. CASE Serve
  BY <1>1, <1>11, OnlyAfterAFault, DoPostFaultFree DEF Serve
<1>12. CASE UNCHANGED vars
  BY <1>1, <1>2, <1>12
  DEF vars, bufferVars, receiverVars, shipperVars, FaultFreeInv, NothingWentWrong,
      BatchIsOldest, StoredIsBatch, Received
<1>13. QED
  BY <1>1, <1>3, <1>4, <1>5, <1>6, <1>7, <1>8, <1>9, <1>10, <1>11, <1>12,
     OnlyAfterAFault
  DEF Next, MainNext, WorkerNext, WorkerStep

(* FaultFreeInv holds in every reachable state.                            *)
LEMMA FaultFree == Spec => []FaultFreeInv
<1>1. Init => FaultFreeInv
  BY DEF Init, InitSchema, InitReceiver, NoRequest, FaultFreeInv, NothingWentWrong,
         BatchIsOldest, StoredIsBatch, Payloads
<1>2. IInv /\ FaultFreeInv /\ [Next]_vars => FaultFreeInv'
  BY FaultFreeStep
<1>3. QED
  BY <1>1, <1>2, Invariance, PTL DEF Spec

(* Duplicates in the server's file come from faults only.                  *)
THEOREM ExactlyOnceUnlessFaults == Spec => []ExactlyOnceWithoutFaults
<1>1. FaultFreeInv => ExactlyOnceWithoutFaults
  BY DEF FaultFreeInv, StoredIsBatch, ExactlyOnceWithoutFaults
<1>2. QED
  BY <1>1, FaultFree, PTL

(* Gaps in what the server has received come from faults only: without one *)
(* it has received a prefix of the table.                                  *)
THEOREM InOrderUnlessFaults == Spec => []InOrderWithoutFaults
<1>1. IInv /\ FaultFreeInv => InOrderWithoutFaults
  <2> SUFFICES ASSUME BatchFresh, BatchIsOldest, StoredIsBatch,
                      NEW r \in event_buffer, NEW s \in event_buffer,
                      r.id < s.id, s.payload \in Received
               PROVE  r.payload \in Received
    BY DEF IInv, FaultFreeInv, InOrderWithoutFaults
  <2>1. PICK b \in batch : b.id = s.id
    BY DEF StoredIsBatch, Ids
  <2>2. r.id \in Ids(batch) /\ Payloads(batch) \subseteq Received
    BY <2>1 DEF BatchIsOldest, StoredIsBatch
  <2>3. PICK a \in batch : a.id = r.id
    BY <2>2 DEF Ids
  <2>4. r.payload = a.payload
    BY <2>3 DEF BatchFresh
  <2>5. QED
    BY <2>2, <2>3, <2>4 DEF Payloads
<1>2. QED
  BY <1>1, Invariance, FaultFree, PTL
=============================================================================
