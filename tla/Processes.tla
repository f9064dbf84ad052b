------------------------------ MODULE Processes ------------------------------
(***************************************************************************)
(* The process tree of the host, as the agent meets it: through the exec   *)
(* and connect records the programs of ebpf/sensors.c write to the ring    *)
(* buffer, and through /proc/<pid>.  A record is written when a system     *)
(* call is entered, so an execve is on its way before the program changes. *)
(* A pid is free, running or a zombie, and is given out again once its     *)
(* parent has reaped it.                                                   *)
(***************************************************************************)
EXTENDS Integers, Sequences, KernelEvents

CONSTANTS
    RingSlots,  \* records the ring buffer holds
    MaxForks,   \* bound: processes created
    MaxCalls    \* bound: system calls recorded

ASSUME ProcessesAssumption ==
    /\ RingSlots \in Nat /\ MaxForks \in Nat /\ MaxCalls \in Nat

VARIABLES
    process,      \* pid |-> [status, ppid, program, execing]
    events,       \* the ring buffer
    descendants,  \* history: pids that descendants of the agent hold now
    suspect,      \* history: pids some descendant has held, and those forked under them
    seen,         \* history: descendants whose line of descent is known from records
    forks, calls  \* counted against the bounds

processVars == <<process, events, descendants, suspect, seen, forks, calls>>

Process == [status : {"free", "running", "zombie"}, ppid : Pids,
            program : Programs \cup {Nothing}, execing : Programs \cup {Nothing}]

Running(ppid, program) ==
    [status |-> "running", ppid |-> ppid, program |-> program, execing |-> Nothing]

\* Of a pid that is free or a zombie, nothing but that can be seen.
Ended(status) == [status |-> status, ppid |-> Reaper, program |-> Nothing, execing |-> Nothing]

ProcessesTypeOK ==
    /\ process \in [Pids -> Process]
    /\ events \in Seq(Event) /\ Len(events) <= RingSlots
    /\ descendants \subseteq Pids /\ suspect \subseteq Pids /\ seen \subseteq Pids
    /\ forks \in 0..MaxForks /\ calls \in 0..MaxCalls

InitProcesses ==
    /\ \E f \in Programs :
          process = [p \in Pids |-> IF p \in {Agent, Reaper} THEN Running(Reaper, f) ELSE Ended("free")]
    /\ events = <<>>
    /\ descendants = {Agent} /\ suspect = {Agent} /\ seen = {Agent}
    /\ forks = 0 /\ calls = 0

Runs(p) == process[p].status = "running"
Idle(p) == Runs(p) /\ process[p].execing = Nothing
Mortal(p) == p \notin {Agent, Reaper}

---------------------------------------------------------------------------
(* The process tree.                                                       *)

Fork(p, c) ==
    /\ Idle(p) /\ process[c].status = "free" /\ forks < MaxForks
    /\ process' = [process EXCEPT ![c] = Running(p, process[p].program)]
    /\ descendants' = IF p \in descendants THEN descendants \cup {c} ELSE descendants
    /\ suspect' = IF p \in suspect THEN suspect \cup {c} ELSE suspect
    /\ forks' = forks + 1
    /\ UNCHANGED <<events, seen, calls>>

\* The program of p changes, or execve fails; nothing tells the agent which.
ExecReturn(p, ok) ==
    /\ Runs(p) /\ process[p].execing # Nothing
    /\ process' = [process EXCEPT ![p].program = IF ok THEN process[p].execing ELSE @,
                                  ![p].execing = Nothing]
    /\ UNCHANGED <<events, descendants, suspect, seen, forks, calls>>

Exit(p) ==
    /\ Runs(p) /\ Mortal(p)
    /\ process' = [q \in Pids |->
           IF q = p THEN Ended("zombie")
           ELSE IF process[q].ppid = p THEN [process[q] EXCEPT !.ppid = Reaper]
           ELSE process[q]]
    /\ events' = [i \in DOMAIN events |-> IF events[i].pid = p
                                          THEN [events[i] EXCEPT !.alive = FALSE]
                                          ELSE events[i]]
    /\ descendants' = descendants \ {p} /\ seen' = seen \ {p}
    /\ UNCHANGED <<suspect, forks, calls>>

Reap(p) ==
    /\ process[p].status = "zombie"
    /\ process' = [process EXCEPT ![p] = Ended("free")]
    /\ UNCHANGED <<events, descendants, suspect, seen, forks, calls>>

---------------------------------------------------------------------------
(* The records.                                                            *)

\* Records written so far show that p descends from the agent.
Known(p) == p \in seen \/ process[p].ppid \in seen

\* fill_common, then ringbuf_output, which drops the record when the ring is full.
Submit(p, type, filename, about) ==
    LET recorded == Len(events) < RingSlots
        event == [type |-> type, pid |-> p, ppid |-> process[p].ppid,
                  comm |-> process[p].program, filename |-> filename, argv |-> filename,
                  about |-> about, descends |-> p \in descendants, known |-> Known(p),
                  suspect |-> p \in suspect, alive |-> TRUE]
    IN  /\ calls < MaxCalls
        /\ calls' = calls + 1
        /\ events' = IF recorded THEN Append(events, event) ELSE events
        /\ seen' = IF recorded /\ Known(p) THEN seen \cup {p} ELSE seen

\* sys_enter_execve: the name and the arguments are read, or cannot be paged in.  Executing
\* the program that runs already is left out: nothing would tell before from after.
ExecEnter(p, program, readable) ==
    /\ Idle(p) /\ Mortal(p) /\ program # process[p].program
    /\ Submit(p, "EXECVE", IF readable THEN program ELSE Nothing, program)
    /\ process' = [process EXCEPT ![p].execing = program]
    /\ UNCHANGED <<descendants, suspect, forks>>

Connect(p) ==
    /\ Idle(p)
    /\ Submit(p, "CONNECT", Nothing, process[p].program)
    /\ UNCHANGED <<process, descendants, suspect, forks>>

TakeEvent ==
    /\ events # <<>>
    /\ events' = Tail(events)
    /\ UNCHANGED <<process, descendants, suspect, seen, forks, calls>>
=============================================================================
