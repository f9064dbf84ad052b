--------------------------- MODULE SensorsProofs ---------------------------
(***************************************************************************)
(* For any number of threads, processes and CPUs, whatever the sizes of    *)
(* the ring and of pending_accept: records tell of their own calls, the    *)
(* map holds the accepts in progress, and no due call goes unreported.     *)
(***************************************************************************)
EXTENDS Sensors, TLAPS

USE DEF Key, SizeofSockaddrIn

\* The conjunction of the checked invariants is inductive as it stands: a return is
\* reported truthfully because the entry it takes is the thread's own (PendingExact).
SensorsInv ==
    /\ SensorsTypeOK
    /\ EventsAreTrue
    /\ PendingExact
    /\ DueCallsReported

\* What one program leaves of the ring and the history, whichever it was: the part of
\* the invariant that speaks of records and calls.
Records ==
    /\ event_heap \in [Cpus -> Event]
    /\ events \in Seq(Event) /\ Len(events) <= RingSlots
    /\ calls \in Seq(Call)
    /\ EventsAreTrue
    /\ DueCallsReported

\* ringbuf_output of an event that tells the truth about the call observed.
LEMMA OutputKeepsRecords ==
    ASSUME Records, NEW cpu \in Cpus, NEW event \in Event, NEW truth \in Document, NEW due \in BOOLEAN,
           due, event.call = Len(calls) + 1, DocumentOf(event) = truth,
           Output(cpu, event), Observed(truth, due)
    PROVE  Records'
<1> DEFINE call == [truth |-> truth, due |-> due /\ Len(events) < RingSlots,
                    reported |-> events' # events]
<1>1. /\ call \in Call
      /\ calls' = Append(calls, call)
  BY DEF Call, Observed
<1>2. /\ calls' \in Seq(Call)
      /\ Len(calls') = Len(calls) + 1
      /\ DOMAIN calls' = 1..(Len(calls) + 1)
      /\ \A n \in DOMAIN calls : n \in DOMAIN calls' /\ calls'[n] = calls[n]
      /\ calls'[Len(calls) + 1] = call
  BY <1>1 DEF Records
<1>3. event_heap' \in [Cpus -> Event]
  BY DEF Records, Output
<1>4. CASE Len(events) < RingSlots
  <2>1. events' = Append(events, event)
    BY <1>4 DEF Output
  <2>2. /\ events' \in Seq(Event)
        /\ Len(events') = Len(events) + 1
        /\ DOMAIN events' = 1..(Len(events) + 1)
        /\ \A i \in 1..Len(events) : events'[i] = events[i]
        /\ events'[Len(events) + 1] = event
    BY <2>1 DEF Records
  <2>3. Len(events') <= RingSlots
    BY <2>2, <1>4, SensorsAssumption DEF SensorsAssumption, Records
  <2>4. events' # events
    BY <2>2 DEF Records
  <2>5. DueCallsReported'
    BY <1>2, <2>4, <1>4 DEF DueCallsReported, Records
  <2>6. EventsAreTrue'
    <3> SUFFICES ASSUME NEW i \in DOMAIN events'
                 PROVE  /\ events'[i].call \in DOMAIN calls'
                        /\ DocumentOf(events'[i]) = calls'[events'[i].call].truth
      BY DEF EventsAreTrue, DocumentOf
    <3>1. CASE i \in DOMAIN events
      BY <3>1, <2>2, <1>2 DEF Records, EventsAreTrue
    <3>2. CASE i = Len(events) + 1
      BY <3>2, <2>2, <1>2 DEF Records
    <3> QED
      BY <3>1, <3>2, <2>2 DEF Records
  <2> QED
    BY <1>2, <1>3, <2>2, <2>3, <2>5, <2>6 DEF Records
<1>5. CASE ~(Len(events) < RingSlots)
  <2>1. events' = events
    BY <1>5 DEF Output
  <2>2. EventsAreTrue'
    BY <2>1, <1>2 DEF EventsAreTrue, Records, DocumentOf
  <2>3. DueCallsReported'
    BY <2>1, <1>2, <1>5 DEF DueCallsReported, Records
  <2> QED
    BY <1>2, <1>3, <2>1, <2>2, <2>3 DEF Records
<1> QED
  BY <1>4, <1>5

\* A program that returns early, for a call that is not due.
LEMMA SilenceKeepsRecords ==
    ASSUME Records, NEW truth \in Document, NEW due \in BOOLEAN,
           ~due, SubmitNothing, Observed(truth, due)
    PROVE  Records'
<1> DEFINE call == [truth |-> truth, due |-> due /\ Len(events) < RingSlots,
                    reported |-> events' # events]
<1>1. /\ call \in Call
      /\ calls' = Append(calls, call)
      /\ events' = events /\ event_heap' = event_heap
  BY DEF Call, Observed, SubmitNothing
<1>2. /\ calls' \in Seq(Call)
      /\ DOMAIN calls' = 1..(Len(calls) + 1)
      /\ \A n \in DOMAIN calls : n \in DOMAIN calls' /\ calls'[n] = calls[n]
      /\ calls'[Len(calls) + 1] = call
  BY <1>1 DEF Records
<1>3. EventsAreTrue'
  BY <1>1, <1>2 DEF EventsAreTrue, Records, DocumentOf
<1>4. DueCallsReported'
  BY <1>1, <1>2 DEF DueCallsReported, Records
<1> QED
  BY <1>1, <1>2, <1>3, <1>4 DEF Records

\* The scratch event after clear_event and fill_common: nothing is left of what it held.
LEMMA FilledEvent ==
    ASSUME SensorsTypeOK, NEW t \in Threads, NEW cpu \in Cpus,
           NEW type \in {"EXECVE", "CONNECT", "ACCEPT"},
           NEW event, event = FillCommon(ClearEvent(event_heap[cpu]), t, type)
    PROVE  /\ event \in Event
           /\ event.event_type = type /\ event.pid = Process[t] /\ event.call = Len(calls) + 1
           /\ event.filename = Nothing /\ event.saddr = Nothing /\ event.daddr = Nothing
<1>1. Process[t] \in Nat /\ Len(calls) + 1 \in Nat
  BY SensorsAssumption DEF SensorsAssumption, SensorsTypeOK
<1>2. Cleared \in Event
  BY DEF Cleared, Event
<1> QED
  BY <1>1, <1>2 DEF FillCommon, ClearEvent, Cleared, Event

\* execve and execveat are always due.
LEMMA ExecveKeepsInv ==
    ASSUME SensorsInv, NEW t \in Threads, NEW cpu \in Cpus, NEW filename \in Files,
           NEW readable \in BOOLEAN, Execve(t, cpu, filename, readable)
    PROVE  SensorsInv'
<1> DEFINE name == IF readable THEN filename ELSE Nothing
           heap == FillCommon(ClearEvent(event_heap[cpu]), t, "EXECVE")
           event == [heap EXCEPT !.filename = name]
           truth == Truth(t, "EXECVE", name, Nothing, Nothing)
<1>1. /\ heap \in Event
      /\ heap.event_type = "EXECVE" /\ heap.pid = Process[t] /\ heap.call = Len(calls) + 1
  BY FilledEvent DEF SensorsInv
<1>2. /\ event \in Event
      /\ truth \in Document
      /\ event.call = Len(calls) + 1
      /\ DocumentOf(event) = truth
  BY <1>1, SensorsAssumption
     DEF Event, Document, Truth, DocumentOf, SensorsAssumption, SensorsInv, SensorsTypeOK
<1>3. Output(cpu, event) /\ Observed(truth, TRUE)
  BY DEF Execve
<1>4. Records
  BY DEF SensorsInv, SensorsTypeOK, Records
<1>5. Records'
  BY <1>2, <1>3, <1>4, OutputKeepsRecords
<1> QED
  BY <1>5 DEF Execve, SensorsInv, SensorsTypeOK, PendingExact, Records

\* connect is due when its address could be read and is IPv4.
LEMMA ConnectKeepsInv ==
    ASSUME SensorsInv, NEW t \in Threads, NEW cpu \in Cpus, NEW uaddr \in Sockaddrs,
           NEW readable \in BOOLEAN, Connect(t, cpu, uaddr, readable)
    PROVE  SensorsInv'
<1> DEFINE heap == FillCommon(ClearEvent(event_heap[cpu]), t, "CONNECT")
           event == [heap EXCEPT !.daddr = uaddr.addr]
           truth == Truth(t, "CONNECT", Nothing, Nothing, uaddr.addr)
           due == readable /\ IsIPv4(uaddr)
<1>1. /\ heap \in Event
      /\ heap.event_type = "CONNECT" /\ heap.pid = Process[t] /\ heap.call = Len(calls) + 1
      /\ heap.saddr = Nothing
  BY FilledEvent DEF SensorsInv
<1>2. uaddr.addr \in Addresses \cup {Nothing} /\ Process[t] \in Nat /\ Len(calls) + 1 \in Nat
  BY SensorsAssumption DEF SensorsAssumption, Sockaddr, SensorsInv, SensorsTypeOK
<1>3. /\ event \in Event
      /\ truth \in Document
      /\ event.call = Len(calls) + 1
      /\ DocumentOf(event) = truth
  BY <1>1, <1>2 DEF Event, Document, Truth, DocumentOf
<1>4. due \in BOOLEAN /\ Observed(truth, due)
  BY DEF Connect, IsIPv4
<1>5. Records
  BY DEF SensorsInv, SensorsTypeOK, Records
<1>6. CASE due
  <2>1. Output(cpu, event)
    BY <1>6 DEF Connect
  <2> QED
    BY <2>1, <1>3, <1>4, <1>5, <1>6, OutputKeepsRecords
       DEF Connect, SensorsInv, SensorsTypeOK, PendingExact, Records
<1>7. CASE ~due
  <2>1. SubmitNothing
    BY <1>7 DEF Connect
  <2> QED
    BY <2>1, <1>3, <1>4, <1>5, <1>7, SilenceKeepsRecords
       DEF Connect, SensorsInv, SensorsTypeOK, PendingExact, Records
<1> QED
  BY <1>6, <1>7

\* An entry is added for the caller, or the state of the map stays as it is.
LEMMA EnterAcceptKeepsInv ==
    ASSUME SensorsInv, NEW t \in Threads, NEW args \in {"null", "buffer"}, EnterAccept(t, args)
    PROVE  SensorsInv'
<1>1. /\ accepting \in [Threads -> {"none", "null", "buffer"}] /\ accepting[t] = "none"
      /\ accepting' = [accepting EXCEPT ![t] = args]
      /\ UNCHANGED <<memory, event_heap, events, calls>>
  BY DEF EnterAccept, MayCall, SensorsInv, SensorsTypeOK
<1>2. t \notin tracked
  BY <1>1 DEF SensorsInv, PendingExact
<1>3. PendingExact' /\ tracked' \subseteq Threads
  <2>1. CASE args = "buffer" /\ HasRoom(t)
    <3>1. /\ tracked' = tracked \cup {t}
          /\ pending_accept' = [k \in DOMAIN pending_accept \cup {t} |->
                                  IF k = t THEN t ELSE pending_accept[k]]
      BY <2>1 DEF EnterAccept
    <3> QED
      BY <1>1, <2>1, <3>1 DEF PendingExact, SensorsInv, SensorsTypeOK
  <2>2. CASE ~(args = "buffer" /\ HasRoom(t))
    <3>1. tracked' = tracked /\ pending_accept' = pending_accept
      BY <2>2 DEF EnterAccept
    <3> QED
      BY <1>1, <1>2, <3>1 DEF PendingExact, SensorsInv, SensorsTypeOK
  <2> QED
    BY <2>1, <2>2
<1>4. SensorsTypeOK'
  BY <1>1, <1>3 DEF PendingExact, SensorsInv, SensorsTypeOK
<1> QED
  BY <1>1, <1>3, <1>4 DEF SensorsInv, EventsAreTrue, DueCallsReported, DocumentOf

\* A return takes the caller's entry, if it has one, and only then can it be reported.
LEMMA ExitAcceptKeepsInv ==
    ASSUME SensorsInv, NEW t \in Threads, NEW cpu \in Cpus, NEW ret \in BOOLEAN,
           NEW peer \in Sockaddr, NEW readable \in BOOLEAN, ExitAccept(t, cpu, ret, peer, readable)
    PROVE  SensorsInv'
<1> DEFINE heap == FillCommon(ClearEvent(event_heap[cpu]), t, "ACCEPT")
           event == [heap EXCEPT !.saddr = peer.addr]
           truth == Truth(t, "ACCEPT", Nothing, peer.addr, Nothing)
           due == t \in tracked /\ ret /\ readable /\ IsIPv4(peer)
<1>1. /\ heap \in Event
      /\ heap.event_type = "ACCEPT" /\ heap.pid = Process[t] /\ heap.call = Len(calls) + 1
      /\ heap.daddr = Nothing
  BY FilledEvent DEF SensorsInv
<1>2. peer.addr \in Addresses \cup {Nothing} /\ Process[t] \in Nat /\ Len(calls) + 1 \in Nat
  BY SensorsAssumption DEF SensorsAssumption, Sockaddr, SensorsInv, SensorsTypeOK
<1>3. /\ event \in Event
      /\ truth \in Document
      /\ event.call = Len(calls) + 1
      /\ DocumentOf(event) = truth
  BY <1>1, <1>2 DEF Event, Document, Truth, DocumentOf
<1>4. due \in BOOLEAN /\ Observed(truth, due)
  BY DEF ExitAccept, IsIPv4
<1>5. Records
  BY DEF SensorsInv, SensorsTypeOK, Records
<1>6. /\ accepting' = [accepting EXCEPT ![t] = "none"]
      /\ memory' \in [Threads -> Sockaddr]
      /\ tracked' = tracked \ {t}
  BY DEF ExitAccept, SensorsInv, SensorsTypeOK
<1>7. PendingExact' /\ tracked' \subseteq Threads
  <2>1. /\ DOMAIN pending_accept' = DOMAIN pending_accept \ {t}
        /\ \A k \in DOMAIN pending_accept' : pending_accept'[k] = pending_accept[k]
    <3>1. CASE t \in DOMAIN pending_accept
      <4>1. pending_accept' = TakeArgs(t, ret)
        BY <3>1 DEF ExitAccept, SubmitAccept
      <4> QED
        BY <4>1 DEF TakeArgs, Without
    <3>2. CASE t \notin DOMAIN pending_accept
      BY <3>2 DEF ExitAccept, SubmitAccept
    <3> QED
      BY <3>1, <3>2
  <2> QED
    BY <1>6, <2>1 DEF PendingExact, SensorsInv, SensorsTypeOK
<1>8. Records'
  <2>1. CASE t \in tracked
    <3>1. /\ t \in DOMAIN pending_accept /\ pending_accept[t] = t
          /\ accepting[t] = "buffer"
      BY <2>1 DEF SensorsInv, PendingExact
    <3>2. ret => memory'[t] = peer
      BY <3>1 DEF ExitAccept, SensorsInv, SensorsTypeOK
    <3>3. CASE due
      <4>1. Output(cpu, event)
        BY <3>1, <3>2, <3>3 DEF ExitAccept, SubmitAccept
      <4> QED
        BY <4>1, <1>3, <1>4, <1>5, <3>3, OutputKeepsRecords
    <3>4. CASE ~due
      <4>1. ~(ret /\ readable /\ IsIPv4(memory'[t]))
        BY <2>1, <3>2, <3>4 DEF IsIPv4
      <4>2. SubmitNothing
        BY <3>1, <4>1 DEF ExitAccept, SubmitAccept
      <4> QED
        BY <4>2, <1>3, <1>4, <1>5, <3>4, SilenceKeepsRecords
    <3> QED
      BY <3>3, <3>4
  <2>2. CASE t \notin tracked
    <3>1. SubmitNothing
      BY <2>2 DEF ExitAccept, SubmitAccept, SensorsInv, PendingExact
    <3> QED
      BY <2>2, <3>1, <1>3, <1>4, <1>5, SilenceKeepsRecords
  <2> QED
    BY <2>1, <2>2
<1>9. SensorsTypeOK'
  BY <1>6, <1>7, <1>8 DEF PendingExact, SensorsInv, SensorsTypeOK, Records
<1> QED
  BY <1>7, <1>8, <1>9 DEF SensorsInv, Records

\* Taking a record off the ring leaves the others true.
LEMMA HandleEventKeepsInv ==
    ASSUME SensorsInv, HandleEvent
    PROVE  SensorsInv'
<1>1. /\ events \in Seq(Event) /\ events # <<>> /\ events' = Tail(events)
      /\ UNCHANGED <<accepting, memory, pending_accept, event_heap, tracked, calls>>
  BY DEF HandleEvent, SensorsInv, SensorsTypeOK
<1>2. /\ events' \in Seq(Event) /\ Len(events') <= Len(events)
      /\ \A i \in DOMAIN events' : i + 1 \in DOMAIN events /\ events'[i] = events[i + 1]
  BY <1>1
<1>3. Len(events') <= RingSlots
  BY <1>1, <1>2, SensorsAssumption DEF SensorsInv, SensorsTypeOK, SensorsAssumption
<1> QED
  BY <1>1, <1>2, <1>3
     DEF SensorsInv, SensorsTypeOK, EventsAreTrue, PendingExact, DueCallsReported, DocumentOf

LEMMA InitInv ==
    ASSUME Init
    PROVE  SensorsInv
<1>1. NoSockaddr \in Sockaddr /\ Cleared \in Event
  BY DEF NoSockaddr, Sockaddr, Cleared, Event
<1>2. events \in Seq(Event) /\ Len(events) = 0 /\ calls \in Seq(Call) /\ Len(calls) = 0
  BY DEF Init
<1>3. DOMAIN pending_accept = {}
  BY DEF Init
<1>4. SensorsTypeOK
  BY <1>1, <1>2, <1>3, SensorsAssumption DEF Init, SensorsTypeOK, SensorsAssumption
<1> QED
  BY <1>2, <1>3, <1>4 DEF Init, SensorsInv, EventsAreTrue, PendingExact, DueCallsReported

LEMMA NextInv ==
    ASSUME SensorsInv, [Next]_vars
    PROVE  SensorsInv'
<1>1. ASSUME NEW t \in Threads, NEW cpu \in Cpus, NEW filename \in Files, NEW readable \in BOOLEAN,
             Execve(t, cpu, filename, readable)
      PROVE  SensorsInv'
  BY <1>1, ExecveKeepsInv
<1>2. ASSUME NEW t \in Threads, NEW cpu \in Cpus, NEW uaddr \in Sockaddrs, NEW readable \in BOOLEAN,
             Connect(t, cpu, uaddr, readable)
      PROVE  SensorsInv'
  BY <1>2, ConnectKeepsInv
<1>3. ASSUME NEW t \in Threads, NEW args \in {"null", "buffer"}, EnterAccept(t, args)
      PROVE  SensorsInv'
  BY <1>3, EnterAcceptKeepsInv
<1>4. ASSUME NEW t \in Threads, NEW cpu \in Cpus, NEW peer \in Sockaddrs, NEW readable \in BOOLEAN,
             ExitAccept(t, cpu, TRUE, peer, readable)
      PROVE  SensorsInv'
  BY <1>4, SensorsAssumption, ExitAcceptKeepsInv DEF SensorsAssumption
<1>5. ASSUME NEW t \in Threads, NEW cpu \in Cpus, ExitAccept(t, cpu, FALSE, NoSockaddr, TRUE)
      PROVE  SensorsInv'
  <2>1. NoSockaddr \in Sockaddr
    BY DEF NoSockaddr, Sockaddr
  <2> QED
    BY <1>5, <2>1, ExitAcceptKeepsInv
<1>6. CASE HandleEvent
  BY <1>6, HandleEventKeepsInv
<1>7. CASE UNCHANGED vars
  BY <1>7 DEF vars, SensorsInv, SensorsTypeOK, EventsAreTrue, PendingExact, DueCallsReported, DocumentOf
<1> QED
  BY <1>1, <1>2, <1>3, <1>4, <1>5, <1>6, <1>7 DEF Next

\* The invariant of the sensors.
THEOREM SensorsInvariance == Spec => []SensorsInv
<1>1. Init => SensorsInv
  BY InitInv
<1>2. SensorsInv /\ [Next]_vars => SensorsInv'
  BY NextInv
<1> QED
  BY <1>1, <1>2, PTL DEF Spec

\* The sensors are type correct, whatever the interleaving.
THEOREM SensorsTypeCorrect == Spec => []SensorsTypeOK
<1>1. SensorsInv => SensorsTypeOK
  BY DEF SensorsInv
<1> QED
  BY <1>1, SensorsInvariance, PTL

\* No record is mixed up with another call's, thread's or event's.
THEOREM RecordsAreTrue == Spec => []EventsAreTrue
<1>1. SensorsInv => EventsAreTrue
  BY DEF SensorsInv
<1> QED
  BY <1>1, SensorsInvariance, PTL

\* No path through submit_accept_event leaks or misplaces an entry.
THEOREM PendingAcceptExact == Spec => []PendingExact
<1>1. SensorsInv => PendingExact
  BY DEF SensorsInv
<1> QED
  BY <1>1, SensorsInvariance, PTL

\* A call the programs can see is reported, exactly when the ring has room.
THEOREM NothingDueIsLost == Spec => []DueCallsReported
<1>1. SensorsInv => DueCallsReported
  BY DEF SensorsInv
<1> QED
  BY <1>1, SensorsInvariance, PTL
=============================================================================
