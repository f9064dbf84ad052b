------------------------------ MODULE Sensors ------------------------------
(***************************************************************************)
(* The eBPF programs of ebpf/sensors.c, the kernel threads whose system    *)
(* calls run them, and what user space reads of the ring buffer            *)
(* (RingBufferHandler, EcsNormalizer).  A program is one step: the kernel  *)
(* runs it on one CPU without preemption.  A thread accepts into a buffer  *)
(* of its own, which the thread's name stands for.                         *)
(***************************************************************************)
EXTENDS Integers, Sequences, FiniteSets

CONSTANTS
    Threads,     \* the kernel's threads, each with its pid_tgid
    Process,     \* thread |-> the process it belongs to
    Cpus,
    Addresses,   \* IPv4 addresses
    Sockaddrs,   \* the socket addresses connect names and accept returns
    Files,       \* the names execve is given
    Nothing,     \* a field that is zero or empty
    RingSlots,   \* records the ring buffer holds
    MaxPending,  \* entries pending_accept holds
    MaxCalls     \* bound: the system calls observed

SizeofSockaddrIn == 16

Sockaddr == [family : {"AF_INET", "AF_INET6", "AF_UNIX"}, addrlen : Nat,
             addr : Addresses \cup {Nothing}]

ASSUME SensorsAssumption ==
    /\ Process \in [Threads -> Nat]
    /\ Sockaddrs \subseteq Sockaddr
    /\ Cpus # {}
    /\ RingSlots \in Nat /\ MaxPending \in Nat /\ MaxCalls \in Nat

VARIABLES
    accepting,       \* thread |-> its accept: "none", or called with "null" or "buffer"
    memory,          \* thread |-> what its buffer holds
    pending_accept,  \* key |-> the buffer the pointers saved at entry lead to
    event_heap,      \* CPU |-> the scratch event of that CPU
    events,          \* the ring buffer
    tracked,         \* history: threads whose accept was entered under the probes and saved
    calls            \* history: the system calls, [truth, due, reported]

vars == <<accepting, memory, pending_accept, event_heap, events, tracked, calls>>

NoSockaddr == [family |-> "AF_UNIX", addrlen |-> 0, addr |-> Nothing]

\* struct event_t without the fields every event fills from the current task;
\* call is history: the call being reported.
Event == [event_type : {"none", "EXECVE", "CONNECT", "ACCEPT"}, pid : Nat,
          filename : Files \cup {Nothing}, saddr : Addresses \cup {Nothing},
          daddr : Addresses \cup {Nothing}, call : Nat]

\* The part of a document these fields end up in.
Document == [pid : Nat, action : {"EXECVE", "CONNECT", "ACCEPT"}, executable : Files \cup {Nothing},
             source : Addresses \cup {Nothing}, destination : Addresses \cup {Nothing}]

Call == [truth : Document, due : BOOLEAN, reported : BOOLEAN]

---------------------------------------------------------------------------
(* Helpers of sensors.c.                                                   *)

Cleared == [event_type |-> "none", pid |-> 0, filename |-> Nothing,
            saddr |-> Nothing, daddr |-> Nothing, call |-> 0]

\* The bug a missing line of clear_event would be: a field outlives its event.
ClearEventPartly(event) == [Cleared EXCEPT !.daddr = event.daddr]

ClearEvent(event) == Cleared

FillCommon(event, t, type) ==
    [event EXCEPT !.event_type = type, !.pid = Process[t], !.call = Len(calls) + 1]

\* The bug of using get_current_pid() as the key.
KeyOfProcess(t) == Process[t]

Key(t) == t

\* The address the probes report: read without a fault, long enough and IPv4.
IsIPv4(sockaddr) == sockaddr.addrlen >= SizeofSockaddrIn /\ sockaddr.family = "AF_INET"

\* get_event_heap, the changes to the scratch event, and ringbuf_output, whose failure
\* nobody looks at.
Output(cpu, event) ==
    /\ event_heap' = [event_heap EXCEPT ![cpu] = event]
    /\ events' = IF Len(events) < RingSlots THEN Append(events, event) ELSE events

SubmitNothing == UNCHANGED <<event_heap, events>>

\* What a document should say of a call.
Truth(t, action, executable, source, destination) ==
    [pid |-> Process[t], action |-> action, executable |-> executable,
     source |-> source, destination |-> destination]

Observed(truth, due) ==
    calls' = Append(calls, [truth |-> truth, due |-> due /\ Len(events) < RingSlots,
                            reported |-> events' # events])

---------------------------------------------------------------------------
Init ==
    /\ accepting \in [Threads -> {"none", "null", "buffer"}]   \* probes attach to a running system
    /\ memory = [t \in Threads |-> NoSockaddr]
    /\ pending_accept = <<>>
    /\ event_heap = [cpu \in Cpus |-> Cleared]
    /\ events = <<>>
    /\ tracked = {}
    /\ calls = <<>>

\* A thread outside accept makes a system call.
MayCall(t) == accepting[t] = "none" /\ Len(calls) < MaxCalls

\* sys_enter_execve, sys_enter_execveat: reported on entry, whether or not it succeeds.
Execve(t, cpu, filename, readable) ==
    LET heap == FillCommon(ClearEvent(event_heap[cpu]), t, "EXECVE")
    IN  /\ MayCall(t)
        /\ Output(cpu, [heap EXCEPT !.filename = IF readable THEN filename ELSE Nothing])
        /\ Observed(Truth(t, "EXECVE", IF readable THEN filename ELSE Nothing, Nothing, Nothing), TRUE)
        /\ UNCHANGED <<accepting, memory, pending_accept, tracked>>

\* sys_enter_connect: submit_connect_event.
Connect(t, cpu, uaddr, readable) ==
    LET heap == FillCommon(ClearEvent(event_heap[cpu]), t, "CONNECT")
    IN  /\ MayCall(t)
        /\ IF readable /\ IsIPv4(uaddr)
           THEN Output(cpu, [heap EXCEPT !.daddr = uaddr.addr])
           ELSE SubmitNothing
        /\ Observed(Truth(t, "CONNECT", Nothing, Nothing, uaddr.addr), readable /\ IsIPv4(uaddr))
        /\ UNCHANGED <<accepting, memory, pending_accept, tracked>>

\* The update of a hash map fails only when the key is new and the map full.
HasRoom(t) == Key(t) \in DOMAIN pending_accept \/ Cardinality(DOMAIN pending_accept) < MaxPending

\* sys_enter_accept, sys_enter_accept4: save_accept_args.
EnterAccept(t, args) ==
    LET saves == args = "buffer" /\ HasRoom(t)
    IN  /\ MayCall(t)
        /\ accepting' = [accepting EXCEPT ![t] = args]
        /\ pending_accept' = IF saves
                             THEN [k \in DOMAIN pending_accept \cup {Key(t)} |->
                                      IF k = Key(t) THEN t ELSE pending_accept[k]]
                             ELSE pending_accept
        /\ tracked' = IF saves THEN tracked \cup {t} ELSE tracked
        /\ UNCHANGED <<memory, event_heap, events, calls>>

Without(t) == [k \in DOMAIN pending_accept \ {Key(t)} |-> pending_accept[k]]

\* The bug of deleting the entry only once the call is known to have succeeded.
TakeArgsOfSuccess(t, ret) == IF ret THEN Without(t) ELSE pending_accept

TakeArgs(t, ret) == Without(t)

\* submit_accept_event: the saved pointers are taken, then read.
SubmitAccept(t, cpu, ret, readable) ==
    LET heap == FillCommon(ClearEvent(event_heap[cpu]), t, "ACCEPT")
    IN  IF Key(t) \notin DOMAIN pending_accept
        THEN SubmitNothing /\ UNCHANGED pending_accept
        ELSE LET addr == memory'[pending_accept[Key(t)]]
             IN  /\ pending_accept' = TakeArgs(t, ret)
                 /\ IF ret /\ readable /\ IsIPv4(addr)
                    THEN Output(cpu, [heap EXCEPT !.saddr = addr.addr])
                    ELSE SubmitNothing

\* The kernel completes the call, fills the caller's buffer and runs sys_exit_accept.
ExitAccept(t, cpu, ret, peer, readable) ==
    /\ accepting[t] # "none"
    /\ Len(calls) < MaxCalls
    /\ accepting' = [accepting EXCEPT ![t] = "none"]
    /\ memory' = IF ret /\ accepting[t] = "buffer" THEN [memory EXCEPT ![t] = peer] ELSE memory
    /\ SubmitAccept(t, cpu, ret, readable)
    /\ tracked' = tracked \ {t}
    /\ Observed(Truth(t, "ACCEPT", Nothing, peer.addr, Nothing),
                t \in tracked /\ ret /\ readable /\ IsIPv4(peer))

\* ring_buffer_poll calls handle_event, which decodes the record and hands it on.
HandleEvent ==
    /\ events # <<>>
    /\ events' = Tail(events)
    /\ UNCHANGED <<accepting, memory, pending_accept, event_heap, tracked, calls>>

Next ==
    \/ \E t \in Threads, cpu \in Cpus, filename \in Files, readable \in BOOLEAN :
          Execve(t, cpu, filename, readable)
    \/ \E t \in Threads, cpu \in Cpus, uaddr \in Sockaddrs, readable \in BOOLEAN :
          Connect(t, cpu, uaddr, readable)
    \/ \E t \in Threads, args \in {"null", "buffer"} : EnterAccept(t, args)
    \/ \E t \in Threads, cpu \in Cpus, peer \in Sockaddrs, readable \in BOOLEAN :
          ExitAccept(t, cpu, TRUE, peer, readable)
    \/ \E t \in Threads, cpu \in Cpus : ExitAccept(t, cpu, FALSE, NoSockaddr, TRUE)
    \/ HandleEvent

Spec == Init /\ [][Next]_vars

---------------------------------------------------------------------------
(* Properties.                                                             *)

\* from_kernel_event and prune_empty: what user space makes of a record.
DocumentOf(event) ==
    LET network == event.event_type # "EXECVE"
    IN  [pid |-> event.pid, action |-> event.event_type,
         executable |-> IF network THEN Nothing ELSE event.filename,
         source |-> IF network THEN event.saddr ELSE Nothing,
         destination |-> IF network THEN event.daddr ELSE Nothing]

\* Type correctness of the maps, the ring and the history.
SensorsTypeOK ==
    /\ accepting \in [Threads -> {"none", "null", "buffer"}]
    /\ memory \in [Threads -> Sockaddr]
    /\ DOMAIN pending_accept \subseteq Threads
    /\ \A k \in DOMAIN pending_accept : pending_accept[k] \in Threads
    /\ event_heap \in [Cpus -> Event]
    /\ events \in Seq(Event) /\ Len(events) <= RingSlots
    /\ tracked \subseteq Threads
    /\ calls \in Seq(Call)

\* A record tells of its own call and of nothing else: whatever other threads of the
\* process accept meanwhile, whatever the scratch event of the CPU held before, and
\* whatever a failed, a null or a half-observed accept left behind
\* (submit_accept_event, clear_event).
EventsAreTrue ==
    \A i \in DOMAIN events :
        /\ events[i].call \in DOMAIN calls
        /\ DocumentOf(events[i]) = calls[events[i].call].truth

\* pending_accept holds exactly the accepts in progress whose entry was saved, each with
\* its own buffer: no return path leaves an entry that would fill the map or be taken
\* for a later call's (save_accept_args, submit_accept_event).
PendingExact ==
    /\ DOMAIN pending_accept = tracked
    /\ \A t \in tracked : accepting[t] = "buffer" /\ pending_accept[t] = t

\* Nothing but what the programs cannot help is left out: a call that could be read,
\* of a kind they report, whose entry was saved, is in the ring if the ring had room.
DueCallsReported == \A n \in DOMAIN calls : calls[n].due <=> calls[n].reported
=============================================================================
