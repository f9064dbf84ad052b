------------------------- MODULE PipelineFrontProofs -------------------------
(***************************************************************************)
(* For any number of pids, programs and records, whatever forks, executes, *)
(* exits and is given an old pid again: the self filter drops the records  *)
(* it can know, and no others but for reused pids; documents and the hash  *)
(* cache say what /proc showed.                                            *)
(***************************************************************************)
EXTENDS PipelineFront, TLAPS

\* Parents run, the reaper is under no descendant of the agent, and who is forked under a
\* suspect pid is suspect.
Tree ==
    /\ Runs(Agent) /\ Runs(Reaper)
    /\ Agent \in seen /\ Agent \in suspect /\ Reaper \notin suspect
    /\ \A p \in Pids : Runs(p) =>
          /\ Runs(process[p].ppid) /\ process[p].program \in Programs
          /\ process[p].ppid \in suspect => p \in suspect

\* p is known to the filter when it comes to the i-th record of ev: it is now, or one of the
\* records before, which shows descent from the agent, will teach it.
Foreseen(ev, related, i, p) ==
    p \in related \/ \E j \in 1..(i - 1) : ev[j].known /\ ev[j].pid = p

\* The i-th record is dropped only if its process was suspect, now or once the records
\* before it are handled; and it is dropped if it shows descent from the agent.
RecordInOrder(ev, related, sus, i) ==
    /\ ev[i].pid \in related \/ ev[i].ppid \in related => ev[i].suspect
    /\ \A j \in 1..(i - 1) :
          ev[j].suspect /\ ev[j].pid \in {ev[i].pid, ev[i].ppid} => ev[i].suspect
    /\ ev[i].suspect => ev[i].pid \in sus
    /\ ev[i].known => Foreseen(ev, related, i, ev[i].pid) \/ Foreseen(ev, related, i, ev[i].ppid)

\* Records wait in the order in which they were written, so what the filter will have learnt
\* when it comes to one was learnt from what had happened before it.
InOrder(ev, related, sus, known) ==
    /\ Agent \in related /\ related \subseteq sus
    /\ \A i \in 1..Len(ev) : RecordInOrder(ev, related, sus, i)
    /\ \A p \in known : Foreseen(ev, related, Len(ev) + 1, p)

Records ==
    /\ InOrder(events, agent_related_pids, suspect, seen)
    /\ \A i \in 1..Len(events) : /\ events[i].filename \in {Nothing, events[i].about}
                                 /\ events[i].argv = events[i].filename

Handling ==
    LET of == handling.of
        doc == handling.doc
        pc == handling.pc
    IN  pc # "idle" =>
          /\ pc = "dropped" => of.suspect
          /\ pc # "dropped" => ~of.known
          /\ of.filename \in {Nothing, of.about}
          /\ pc \in {"cmdline", "exe", "stat", "open"} =>
                /\ doc.hash = Nothing
                /\ handling.fresh => Runs(handling.pid) /\ process[handling.pid].program = of.about
          /\ pc = "open" => /\ handling.key \in Programs
                            /\ handling.steady => /\ Runs(handling.pid)
                                                  /\ process[handling.pid].program = handling.key
          /\ pc = "cmdline" => doc.command_line = of.filename
          /\ pc \in {"cmdline", "exe"} => doc.executable = of.filename
          /\ pc \in {"exe", "stat", "open", "done"} =>
                /\ doc.proc.command_line # "ok" /\ of.filename # Nothing => doc.command_line = of.about
                /\ handling.fresh => doc.command_line \in {of.about, Unknown}
          /\ pc \in {"stat", "open", "done"} =>
                /\ doc.executable \in Programs => doc.name = doc.executable
                /\ doc.proc.executable # "ok" /\ of.filename # Nothing => doc.executable = of.about
                /\ handling.fresh => doc.executable \in {of.about, Unknown}
          /\ pc = "done" /\ handling.fresh => doc.hash \in {of.about, Nothing} \/ of.about \in tainted

HandlingTypeOK == handling = NoHandling \/ handling \in HandlingRecord

KernelInv == ProcessesTypeOK /\ Tree /\ Records

CacheInv ==
    /\ DOMAIN hash_cache \subseteq Programs
    /\ \A k \in DOMAIN hash_cache : hash_cache[k] \in Programs
    /\ tainted \subseteq Programs
    /\ HashCacheSound

FrontInv == KernelInv /\ CacheInv /\ HandlingTypeOK /\ Handling

---------------------------------------------------------------------------
(* The processes beside process().                                         *)

RunsOn(q) == process'[q].status = "running" /\ process'[q].program = process[q].program

\* A step of a process leaves the document at hand true: all that runs runs on, or only p
\* is not what it was, and that is noted if p is the process handled.
LEMMA ProcessesKeepHandling ==
    ASSUME HandlingTypeOK, Handling, NEW p \in Pids, UNCHANGED tainted,
           \/ handling' = handling /\ \A q \in Pids : Runs(q) => RunsOn(q)
           \/ Changed(p) /\ \A q \in Pids \ {p} : Runs(q) => RunsOn(q)
    PROVE  HandlingTypeOK' /\ Handling'
<1>1. CASE handling = NoHandling
  <2>1. handling' = handling
    BY <1>1 DEF Changed, Handles, NoHandling
  <2> QED BY <2>1, <1>1 DEF HandlingTypeOK, Handling, NoHandling
<1>2. CASE handling \in HandlingRecord
  <2>1. handling.pid \in Pids
    BY <1>2 DEF HandlingRecord
  <2>2. CASE handling' = handling /\ \A q \in Pids : Runs(q) => RunsOn(q)
    BY <2>2, <2>1, <1>2 DEF HandlingTypeOK, Handling, Runs, RunsOn
  <2>3. CASE ~Handles(p) /\ Changed(p) /\ \A q \in Pids \ {p} : Runs(q) => RunsOn(q)
    <3>1. handling' = handling
      BY <2>3 DEF Changed
    <3>2. handling.pc \in {"cmdline", "exe", "stat", "open"} /\ Runs(handling.pid) => RunsOn(handling.pid)
      BY <2>1, <2>3 DEF Handles
    <3> QED BY <3>1, <3>2, <1>2 DEF HandlingTypeOK, Handling, Runs, RunsOn
  <2>4. CASE Handles(p) /\ Changed(p)
    <3>1. handling' = [handling EXCEPT !.fresh = FALSE, !.steady = FALSE]
      BY <2>4 DEF Changed
    <3>2. /\ handling' \in HandlingRecord
          /\ handling'.pc = handling.pc /\ handling'.of = handling.of
          /\ handling'.doc = handling.doc /\ handling'.key = handling.key
          /\ handling'.fresh = FALSE /\ handling'.steady = FALSE
      BY <3>1, <1>2 DEF HandlingRecord
    <3>3. handling.pc \in {"cmdline", "exe", "stat", "open"}
      BY <2>4 DEF Handles
    <3> QED BY <3>2, <3>3 DEF HandlingTypeOK, Handling
  <2> QED BY <2>2, <2>3, <2>4
<1> QED BY <1>1, <1>2 DEF HandlingTypeOK

---------------------------------------------------------------------------
(* The ring buffer and what the filter learns from it.                     *)

\* No record is written: what is known may shrink, who is suspect may grow.
LEMMA InOrderKept ==
    ASSUME NEW ev \in Seq(Event), NEW ev2 \in Seq(Event), NEW related,
           NEW sus, NEW sus2, NEW known, NEW known2,
           InOrder(ev, related, sus, known), sus \subseteq sus2, known2 \subseteq known,
           Len(ev2) = Len(ev),
           \A i \in 1..Len(ev) : /\ ev2[i].pid = ev[i].pid /\ ev2[i].ppid = ev[i].ppid
                                 /\ ev2[i].suspect = ev[i].suspect /\ ev2[i].known = ev[i].known
    PROVE  InOrder(ev2, related, sus2, known2)
<1>1. Len(ev) \in Nat
  OBVIOUS
<1>2. \A p : \A i \in 1..(Len(ev) + 1) : Foreseen(ev, related, i, p) => Foreseen(ev2, related, i, p)
  BY <1>1 DEF Foreseen
<1>3. ASSUME NEW i \in 1..Len(ev)
      PROVE  RecordInOrder(ev2, related, sus2, i)
  <2>1. RecordInOrder(ev, related, sus, i) /\ i \in 1..(Len(ev) + 1) /\ 1..(i - 1) \subseteq 1..Len(ev)
    BY <1>1 DEF InOrder
  <2> QED BY <2>1, <1>2 DEF RecordInOrder
<1>4. Len(ev) + 1 \in 1..(Len(ev) + 1)
  BY <1>1
<1> QED BY <1>2, <1>3, <1>4 DEF InOrder

\* A record is written: suspect if its process is, and showing descent from the agent if
\* the process or its parent is known to descend from it.
LEMMA InOrderAppend ==
    ASSUME NEW ev \in Seq(Event), NEW e \in Event, NEW related, NEW sus, NEW known,
           InOrder(ev, related, sus, known),
           e.suspect <=> e.pid \in sus, e.ppid \in sus => e.pid \in sus,
           e.known <=> e.pid \in known \/ e.ppid \in known
    PROVE  InOrder(Append(ev, e), related, sus, IF e.known THEN known \cup {e.pid} ELSE known)
<1> DEFINE new == Append(ev, e)
<1> DEFINE n == Len(ev)
<1>1. /\ n \in Nat /\ Len(new) = n + 1 /\ new[n + 1] = e
      /\ \A i \in 1..n : new[i] = ev[i]
  OBVIOUS
<1> HIDE DEF new
<1>2. \A p : \A i \in 1..(n + 1) : Foreseen(ev, related, i, p) => Foreseen(new, related, i, p)
  BY <1>1 DEF Foreseen
<1>3. ASSUME NEW i \in 1..n
      PROVE  RecordInOrder(new, related, sus, i)
  <2>1. RecordInOrder(ev, related, sus, i) /\ i \in 1..(n + 1) /\ 1..(i - 1) \subseteq 1..n
    BY <1>1 DEF InOrder
  <2> QED BY <2>1, <1>1, <1>2 DEF RecordInOrder
<1>4. RecordInOrder(new, related, sus, n + 1)
  <2>1. \A j \in 1..n : ev[j].suspect => ev[j].pid \in sus
    BY DEF InOrder, RecordInOrder
  <2>2. \A p \in known : Foreseen(new, related, n + 1, p)
    BY <1>1, <1>2 DEF InOrder
  <2>3. related \subseteq sus
    BY DEF InOrder
  <2> QED BY <1>1, <2>1, <2>2, <2>3 DEF RecordInOrder
<1>5. ASSUME NEW p \in (IF e.known THEN known \cup {e.pid} ELSE known)
      PROVE  Foreseen(new, related, n + 2, p)
  <2>1. CASE p \in known
    <3>1. Foreseen(new, related, n + 1, p)
      BY <2>1, <1>1, <1>2 DEF InOrder
    <3> QED BY <3>1, <1>1 DEF Foreseen
  <2>2. CASE e.known /\ p = e.pid
    BY <2>2, <1>1 DEF Foreseen
  <2> QED BY <2>1, <2>2
<1>6. Agent \in related /\ related \subseteq sus
  BY DEF InOrder
<1>7. \A i \in 1..Len(new) : RecordInOrder(new, related, sus, i)
  BY <1>1, <1>3, <1>4
<1>8. Len(new) + 1 = n + 2
  BY <1>1
<1> QED BY <1>5, <1>6, <1>7, <1>8 DEF InOrder, new

\* The first record is taken: its pid is learnt if the filter knows the pid or the parent.
LEMMA InOrderTail ==
    ASSUME NEW ev \in Seq(Event), ev # <<>>, NEW related, NEW related2, NEW sus, NEW known,
           InOrder(ev, related, sus, known),
           related2 = IF Head(ev).pid \in related \/ Head(ev).ppid \in related
                      THEN related \cup {Head(ev).pid} ELSE related
    PROVE  InOrder(Tail(ev), related2, sus, known)
<1> DEFINE new == Tail(ev)
<1> DEFINE n == Len(ev)
<1>1. /\ n \in Nat /\ n > 0 /\ Len(new) = n - 1 /\ Head(ev) = ev[1]
      /\ \A i \in 1..(n - 1) : new[i] = ev[i + 1]
  OBVIOUS
<1> HIDE DEF new
<1>2. RecordInOrder(ev, related, sus, 1)
  BY <1>1 DEF InOrder
<1>3. related \subseteq related2 /\ related2 \subseteq sus /\ Agent \in related2
  BY <1>1, <1>2 DEF InOrder, RecordInOrder
<1>4. ev[1].known => ev[1].pid \in related2
  BY <1>1, <1>2 DEF RecordInOrder, Foreseen
<1>5. ASSUME NEW i \in 1..n, NEW p, Foreseen(ev, related, i + 1, p)
      PROVE  Foreseen(new, related2, i, p)
  <2>1. CASE p \in related
    BY <2>1, <1>3 DEF Foreseen
  <2>2. CASE \E j \in 1..i : ev[j].known /\ ev[j].pid = p
    <3>1. PICK j \in 1..i : ev[j].known /\ ev[j].pid = p
      BY <2>2
    <3>2. CASE j = 1
      BY <3>1, <3>2, <1>4 DEF Foreseen
    <3>3. CASE j # 1
      <4>1. /\ j - 1 \in 1..(i - 1) /\ j - 1 \in 1..(n - 1) /\ (j - 1) + 1 = j
        BY <3>3, <1>1
      <4>2. new[j - 1] = ev[j]
        BY <4>1, <1>1
      <4> QED BY <4>1, <4>2, <3>1 DEF Foreseen
    <3> QED BY <3>2, <3>3
  <2>3. (i + 1) - 1 = i
    BY <1>1
  <2> QED BY <1>5, <2>1, <2>2, <2>3 DEF Foreseen
<1>6. ASSUME NEW i \in 1..(n - 1)
      PROVE  RecordInOrder(new, related2, sus, i)
  <2>1. /\ i \in 1..n /\ i + 1 \in 1..n /\ new[i] = ev[i + 1] /\ 1 \in 1..((i + 1) - 1)
        /\ \A j \in 1..(i - 1) : j + 1 \in 1..((i + 1) - 1) /\ new[j] = ev[j + 1]
    BY <1>1
  <2>2. RecordInOrder(ev, related, sus, i + 1)
    BY <2>1 DEF InOrder
  <2>3. new[i].pid \in related2 \/ new[i].ppid \in related2 => new[i].suspect
    BY <2>1, <2>2, <1>1, <1>2 DEF RecordInOrder
  <2>4. \A j \in 1..(i - 1) :
           new[j].suspect /\ new[j].pid \in {new[i].pid, new[i].ppid} => new[i].suspect
    BY <2>1, <2>2 DEF RecordInOrder
  <2>5. new[i].suspect => new[i].pid \in sus
    BY <2>1, <2>2 DEF RecordInOrder
  <2>6. new[i].known => Foreseen(new, related2, i, new[i].pid) \/ Foreseen(new, related2, i, new[i].ppid)
    BY <2>1, <2>2, <1>5 DEF RecordInOrder
  <2> QED BY <2>3, <2>4, <2>5, <2>6 DEF RecordInOrder
<1>7. \A p \in known : Foreseen(new, related2, Len(new) + 1, p)
  <2>1. n \in 1..n /\ Len(new) + 1 = n
    BY <1>1
  <2> QED BY <2>1, <1>5 DEF InOrder
<1> QED BY <1>1, <1>3, <1>6, <1>7 DEF InOrder, new

---------------------------------------------------------------------------
(* The kernel's side: the tree of processes and the records it writes.     *)

LEMMA ForkKeepsInv ==
    ASSUME KernelInv, NEW p \in Pids, NEW c \in Pids, Fork(p, c), UNCHANGED agent_related_pids
    PROVE  KernelInv' /\ \A q \in Pids : Runs(q) => RunsOn(q)
<1>1. /\ Runs(p) /\ process[p].program \in Programs
      /\ p # c /\ ~Runs(c) /\ process[c].status = "free"
  BY DEF KernelInv, Tree, Fork, Idle, Runs
<1>2. process' = [process EXCEPT ![c] = Running(p, process[p].program)]
  BY DEF Fork
<1>3. Running(p, process[p].program) \in Process
  BY <1>1 DEF Running, Process
<1>4. process \in [Pids -> Process] /\ process' \in [Pids -> Process]
  BY <1>2, <1>3 DEF KernelInv, ProcessesTypeOK
<1>5. /\ process'[c].status = "running" /\ process'[c].ppid = p
      /\ process'[c].program = process[p].program
      /\ \A q \in Pids \ {c} : process'[q] = process[q]
  BY <1>2, <1>4 DEF Running
<1>6. ProcessesTypeOK'
  <2>1. forks' \in 0..MaxForks
    BY ProcessesAssumption DEF Fork, KernelInv, ProcessesTypeOK, ProcessesAssumption
  <2> QED BY <1>4, <2>1 DEF Fork, KernelInv, ProcessesTypeOK
<1>7. Tree'
  <2>1. /\ \A q \in Pids : Runs(q) => q # c
        /\ suspect' = IF p \in suspect THEN suspect \cup {c} ELSE suspect
        /\ seen' = seen
    BY <1>1 DEF Fork
  <2>2. Agent \in Pids /\ Reaper \in Pids /\ Agent # c /\ Reaper # c
    BY <2>1, KernelEventsAssumption DEF KernelInv, Tree, KernelEventsAssumption
  <2>3. Runs(Agent)' /\ Runs(Reaper)' /\ Agent \in seen' /\ Agent \in suspect' /\ Reaper \notin suspect'
    BY <2>1, <2>2, <1>5 DEF KernelInv, Tree, Runs
  <2>4. ASSUME NEW q \in Pids, Runs(q)'
        PROVE  /\ Runs(process[q].ppid)' /\ process'[q].program \in Programs
               /\ process'[q].ppid \in suspect' => q \in suspect'
    <3>1. CASE q = c
      BY <3>1, <2>1, <1>1, <1>5 DEF Runs
    <3>2. CASE q # c
      <4>1. process'[q] = process[q] /\ Runs(q)
        BY <2>4, <3>2, <1>5 DEF Runs
      <4>2. /\ Runs(process[q].ppid) /\ process[q].program \in Programs
            /\ process[q].ppid \in suspect => q \in suspect
            /\ process[q].ppid \in Pids
        BY <4>1, <1>4 DEF KernelInv, Tree, Process
      <4> QED BY <4>1, <4>2, <2>1, <1>5 DEF Runs
    <3> QED BY <3>1, <3>2
  <2>5. \A q \in Pids : Runs(q)' => /\ Runs(process[q].ppid)' /\ process'[q].program \in Programs
                                    /\ process'[q].ppid \in suspect' => q \in suspect'
    BY <2>4
  <2> QED BY <2>3, <2>5 DEF Tree, Runs
<1>8. Records'
  <2>1. events \in Seq(Event) /\ events' = events /\ seen' = seen /\ suspect \subseteq suspect'
    BY DEF Fork, KernelInv, ProcessesTypeOK
  <2>2. InOrder(events, agent_related_pids, suspect', seen)
    BY <2>1, InOrderKept DEF KernelInv, Records
  <2> QED BY <2>1, <2>2 DEF KernelInv, Records
<1> QED BY <1>1, <1>5, <1>6, <1>7, <1>8 DEF KernelInv, Runs, RunsOn

LEMMA ExecReturnKeepsInv ==
    ASSUME KernelInv, NEW p \in Pids, NEW ok \in BOOLEAN, ExecReturn(p, ok), UNCHANGED agent_related_pids
    PROVE  /\ KernelInv'
           /\ \A q \in Pids : Runs(q) /\ (q # p \/ ok = FALSE) => RunsOn(q)
<1>1. Runs(p) /\ process[p].execing \in Programs /\ process \in [Pids -> Process]
  BY DEF KernelInv, ProcessesTypeOK, Process, ExecReturn
<1>2. /\ process' \in [Pids -> Process]
      /\ \A q \in Pids : process'[q].status = process[q].status /\ process'[q].ppid = process[q].ppid
      /\ process'[p].program \in {process[p].program, process[p].execing}
      /\ ok = FALSE => process'[p].program = process[p].program
      /\ \A q \in Pids \ {p} : process'[q] = process[q]
  BY <1>1 DEF ExecReturn, Process
<1>3. UNCHANGED <<events, descendants, suspect, seen, forks, calls>>
  BY DEF ExecReturn
<1>4. ProcessesTypeOK'
  BY <1>2, <1>3 DEF KernelInv, ProcessesTypeOK
<1>5. \A q \in Pids : process[q].ppid \in Pids /\ (Runs(q) => process'[q].program \in Programs)
  BY <1>1, <1>2 DEF KernelInv, Tree, Process
<1>6. Tree'
  BY <1>2, <1>3, <1>5, KernelEventsAssumption DEF KernelInv, Tree, Runs, KernelEventsAssumption
<1>7. Records'
  BY <1>3 DEF KernelInv, Records
<1> QED BY <1>2, <1>4, <1>6, <1>7 DEF KernelInv, Runs, RunsOn

LEMMA ExitKeepsInv ==
    ASSUME KernelInv, NEW p \in Pids, Exit(p), UNCHANGED agent_related_pids
    PROVE  KernelInv' /\ \A q \in Pids \ {p} : Runs(q) => RunsOn(q)
<1>1. process \in [Pids -> Process] /\ events \in Seq(Event) /\ p \notin {Agent, Reaper}
  BY DEF KernelInv, ProcessesTypeOK, Exit, Mortal
<1>2. /\ process' \in [Pids -> Process]
      /\ process'[p].status = "zombie"
      /\ \A q \in Pids \ {p} :
            /\ process'[q].status = process[q].status /\ process'[q].program = process[q].program
            /\ process'[q].ppid = IF process[q].ppid = p THEN Reaper ELSE process[q].ppid
  <2> DEFINE next(q) == IF q = p THEN Ended("zombie")
                        ELSE IF process[q].ppid = p THEN [process[q] EXCEPT !.ppid = Reaper]
                        ELSE process[q]
  <2>1. process' = [q \in Pids |-> next(q)]
    BY DEF Exit
  <2>2. Reaper \in Pids /\ Ended("zombie") \in Process /\ Ended("zombie").status = "zombie"
    BY KernelEventsAssumption DEF Ended, Process, KernelEventsAssumption
  <2>3. ASSUME NEW r \in Process
        PROVE  /\ [r EXCEPT !.ppid = Reaper] \in Process
               /\ [r EXCEPT !.ppid = Reaper].status = r.status
               /\ [r EXCEPT !.ppid = Reaper].program = r.program
               /\ [r EXCEPT !.ppid = Reaper].ppid = Reaper
    BY <2>2 DEF Process
  <2>4. ASSUME NEW q \in Pids, q # p
        PROVE  /\ next(q) \in Process
               /\ next(q).status = process[q].status /\ next(q).program = process[q].program
               /\ next(q).ppid = IF process[q].ppid = p THEN Reaper ELSE process[q].ppid
    <3>1. process[q] \in Process
      BY <1>1
    <3>2. CASE process[q].ppid = p
      BY <2>3, <2>4, <3>1, <3>2
    <3>3. CASE process[q].ppid # p
      BY <2>4, <3>1, <3>3
    <3> QED BY <3>2, <3>3
  <2>5. next(p) = Ended("zombie")
    OBVIOUS
  <2> HIDE DEF next
  <2>6. \A q \in Pids : next(q) \in Process
    BY <2>2, <2>4, <2>5
  <2> QED BY <2>1, <2>2, <2>4, <2>5, <2>6
<1>3. /\ events' \in Seq(Event) /\ Len(events') = Len(events)
      /\ \A i \in 1..Len(events) :
            /\ events'[i].pid = events[i].pid /\ events'[i].ppid = events[i].ppid
            /\ events'[i].suspect = events[i].suspect /\ events'[i].known = events[i].known
            /\ events'[i].filename = events[i].filename /\ events'[i].argv = events[i].argv
            /\ events'[i].about = events[i].about
  <2> DEFINE e(i) == IF events[i].pid = p THEN [events[i] EXCEPT !.alive = FALSE] ELSE events[i]
  <2>1. events' = [i \in 1..Len(events) |-> e(i)] /\ Len(events) \in Nat
    BY <1>1 DEF Exit
  <2>2. ASSUME NEW i \in 1..Len(events)
        PROVE  /\ e(i) \in Event
               /\ e(i).pid = events[i].pid /\ e(i).ppid = events[i].ppid
               /\ e(i).suspect = events[i].suspect /\ e(i).known = events[i].known
               /\ e(i).filename = events[i].filename /\ e(i).argv = events[i].argv
               /\ e(i).about = events[i].about
    <3>1. events[i] \in Event
      BY <1>1
    <3> DEFINE r == events[i]
    <3>2. e(i) = r \/ e(i) = [r EXCEPT !.alive = FALSE]
      OBVIOUS
    <3>3. /\ [r EXCEPT !.alive = FALSE] \in Event
          /\ [r EXCEPT !.alive = FALSE].pid = r.pid /\ [r EXCEPT !.alive = FALSE].ppid = r.ppid
          /\ [r EXCEPT !.alive = FALSE].suspect = r.suspect
          /\ [r EXCEPT !.alive = FALSE].known = r.known
          /\ [r EXCEPT !.alive = FALSE].filename = r.filename
          /\ [r EXCEPT !.alive = FALSE].argv = r.argv
          /\ [r EXCEPT !.alive = FALSE].about = r.about
      <4> HIDE DEF e
      <4> QED BY <3>1 DEF Event
    <3> HIDE DEF e
    <3> QED BY <3>1, <3>2, <3>3
  <2> HIDE DEF e
  <2>3. events' \in [1..Len(events) -> Event] /\ \A i \in 1..Len(events) : events'[i] = e(i)
    BY <2>1, <2>2
  <2>4. events' \in Seq(Event) /\ Len(events') = Len(events)
    BY <2>1, <2>3
  <2> QED BY <2>2, <2>3, <2>4
<1>4. ProcessesTypeOK'
  BY <1>2, <1>3 DEF KernelInv, ProcessesTypeOK, Exit
<1>5. Tree'
  <2>1. UNCHANGED suspect /\ seen' = seen \ {p} /\ {Agent, Reaper} \subseteq Pids \ {p}
    BY <1>1, KernelEventsAssumption DEF Exit, KernelEventsAssumption
  <2>2. \A q \in Pids : Runs(q)' => q \in Pids \ {p} /\ Runs(q)
    BY <1>2 DEF Runs
  <2>3. \A q \in Pids : process[q].ppid \in Pids
    BY <1>1 DEF Process
  <2> QED BY <2>1, <2>2, <2>3, <1>2 DEF KernelInv, Tree, Runs
<1>6. Records'
  <2>1. UNCHANGED suspect /\ seen' \subseteq seen
    BY DEF Exit
  <2>2. InOrder(events', agent_related_pids, suspect, seen')
    BY <2>1, <1>1, <1>3, InOrderKept DEF KernelInv, Records
  <2> QED BY <2>1, <2>2, <1>3 DEF KernelInv, Records
<1> QED BY <1>2, <1>4, <1>5, <1>6 DEF KernelInv, Runs, RunsOn

LEMMA ReapKeepsInv ==
    ASSUME KernelInv, NEW p \in Pids, Reap(p), UNCHANGED agent_related_pids
    PROVE  KernelInv' /\ \A q \in Pids : Runs(q) => RunsOn(q)
<1>1. process \in [Pids -> Process] /\ ~Runs(p)
  BY DEF KernelInv, ProcessesTypeOK, Reap, Runs
<1>2. /\ process' \in [Pids -> Process] /\ process'[p].status = "free"
      /\ \A q \in Pids \ {p} : process'[q] = process[q]
  BY <1>1, KernelEventsAssumption DEF Reap, Ended, Process, KernelEventsAssumption
<1>3. UNCHANGED <<events, descendants, suspect, seen, forks, calls>>
  BY DEF Reap
<1>4. \A q \in Pids : process[q].ppid \in Pids
  BY <1>1 DEF Process
<1>5. Tree'
  BY <1>1, <1>2, <1>3, <1>4, KernelEventsAssumption DEF KernelInv, Tree, Runs, KernelEventsAssumption
<1> QED BY <1>1, <1>2, <1>3, <1>5 DEF KernelInv, ProcessesTypeOK, Records, Runs, RunsOn

LEMMA SubmitKeepsInv ==
    ASSUME KernelInv, NEW p \in Pids, Runs(p), NEW type \in {"EXECVE", "CONNECT"},
           NEW about \in Programs, NEW filename \in {Nothing, about},
           Submit(p, type, filename, about), UNCHANGED <<suspect, agent_related_pids>>
    PROVE  /\ Records' /\ events' \in Seq(Event) /\ Len(events') <= RingSlots
           /\ seen \subseteq seen' /\ seen' \subseteq Pids /\ calls' \in 0..MaxCalls
<1> DEFINE e == [type |-> type, pid |-> p, ppid |-> process[p].ppid,
                 comm |-> process[p].program, filename |-> filename, argv |-> filename,
                 about |-> about, descends |-> p \in descendants, known |-> Known(p),
                 suspect |-> p \in suspect, alive |-> TRUE]
<1>1. /\ process[p].ppid \in Pids /\ process[p].program \in Programs
      /\ process[p].ppid \in suspect => p \in suspect
      /\ events \in Seq(Event) /\ Len(events) \in Nat /\ RingSlots \in Nat
      /\ calls' \in 0..MaxCalls /\ seen \subseteq Pids
  BY ProcessesAssumption DEF KernelInv, Tree, ProcessesTypeOK, Process, Submit, ProcessesAssumption
<1>2. e \in Event
  BY <1>1 DEF Event, Known
<1>3. /\ e.pid = p /\ e.ppid = process[p].ppid /\ e.filename = filename /\ e.argv = filename
      /\ e.about = about /\ e.suspect = (p \in suspect) /\ e.known = Known(p)
  OBVIOUS
<1>4. \/ UNCHANGED <<events, seen>>
      \/ /\ Len(events) < RingSlots /\ events' = Append(events, e)
         /\ seen' = IF Known(p) THEN seen \cup {p} ELSE seen
  BY DEF Submit
<1> HIDE DEF e
<1>5. CASE UNCHANGED <<events, seen>>
  BY <1>1, <1>5 DEF KernelInv, Records, ProcessesTypeOK
<1>6. CASE /\ Len(events) < RingSlots /\ events' = Append(events, e)
           /\ seen' = IF Known(p) THEN seen \cup {p} ELSE seen
  <2>1. /\ e.suspect <=> e.pid \in suspect
        /\ e.ppid \in suspect => e.pid \in suspect
        /\ e.known <=> e.pid \in seen \/ e.ppid \in seen
    BY <1>1, <1>3 DEF Known
  <2>2. InOrder(Append(events, e), agent_related_pids, suspect,
                IF e.known THEN seen \cup {e.pid} ELSE seen)
    BY <1>1, <1>2, <2>1, InOrderAppend DEF KernelInv, Records
  <2>3. InOrder(events', agent_related_pids', suspect', seen')
    BY <2>2, <1>3, <1>6
  <2>4. /\ events' \in Seq(Event) /\ Len(events') = Len(events) + 1
        /\ events'[Len(events) + 1] = e /\ \A i \in 1..Len(events) : events'[i] = events[i]
    BY <1>1, <1>2, <1>6
  <2>5. \A i \in 1..Len(events') : /\ events'[i].filename \in {Nothing, events'[i].about}
                                   /\ events'[i].argv = events'[i].filename
    BY <1>1, <1>3, <2>4 DEF KernelInv, Records
  <2> QED BY <1>1, <1>6, <2>3, <2>4, <2>5 DEF Records
<1> QED BY <1>4, <1>5, <1>6

LEMMA ExecEnterKeepsInv ==
    ASSUME KernelInv, NEW p \in Pids, NEW program \in Programs, NEW readable \in BOOLEAN,
           ExecEnter(p, program, readable), UNCHANGED agent_related_pids
    PROVE  KernelInv' /\ \A q \in Pids : Runs(q) => RunsOn(q)
<1>1. /\ Runs(p) /\ Submit(p, "EXECVE", IF readable THEN program ELSE Nothing, program)
      /\ UNCHANGED <<descendants, suspect, forks>> /\ process \in [Pids -> Process]
  BY DEF KernelInv, ProcessesTypeOK, ExecEnter, Idle
<1>2. (IF readable THEN program ELSE Nothing) \in {Nothing, program}
  OBVIOUS
<1>3. /\ Records' /\ events' \in Seq(Event) /\ Len(events') <= RingSlots
      /\ seen \subseteq seen' /\ seen' \subseteq Pids /\ calls' \in 0..MaxCalls
  BY <1>1, <1>2, SubmitKeepsInv
<1>4. /\ process' \in [Pids -> Process]
      /\ \A q \in Pids : /\ process'[q].status = process[q].status
                         /\ process'[q].ppid = process[q].ppid
                         /\ process'[q].program = process[q].program
                         /\ process[q].ppid \in Pids
  BY <1>1 DEF ExecEnter, Process
<1>5. Tree'
  BY <1>1, <1>3, <1>4, KernelEventsAssumption DEF KernelInv, Tree, Runs, KernelEventsAssumption
<1>6. ProcessesTypeOK'
  BY <1>1, <1>3, <1>4 DEF KernelInv, ProcessesTypeOK
<1> QED BY <1>3, <1>4, <1>5, <1>6 DEF KernelInv, Runs, RunsOn

LEMMA ConnectKeepsInv ==
    ASSUME KernelInv, NEW p \in Pids, Connect(p), UNCHANGED agent_related_pids
    PROVE  KernelInv' /\ \A q \in Pids : Runs(q) => RunsOn(q)
<1>1. /\ Runs(p) /\ Submit(p, "CONNECT", Nothing, process[p].program)
      /\ UNCHANGED <<process, descendants, suspect, forks>> /\ process[p].program \in Programs
  BY DEF KernelInv, Tree, Connect, Idle
<1>2. /\ Records' /\ events' \in Seq(Event) /\ Len(events') <= RingSlots
      /\ seen \subseteq seen' /\ seen' \subseteq Pids /\ calls' \in 0..MaxCalls
  BY <1>1, SubmitKeepsInv
<1>3. Tree'
  BY <1>1, <1>2 DEF KernelInv, Tree, Runs
<1> QED BY <1>1, <1>2, <1>3 DEF KernelInv, ProcessesTypeOK, Runs, RunsOn

---------------------------------------------------------------------------
(* What each look at /proc does to the document.                           *)

Given(value) == IF value = Nothing THEN Unknown ELSE value

LEMMA PlaceholderKeeps ==
    ASSUME NEW doc \in Document, NEW field \in {"command_line", "executable"}
    PROVE  LET d == Placeholder(doc, field)
           IN  /\ d \in Document
               /\ d.name = doc.name /\ d.hash = doc.hash /\ d.proc = doc.proc
               /\ d[field] = Given(doc[field])
               /\ field = "command_line" => d.executable = doc.executable
               /\ field = "executable" => d.command_line = doc.command_line
<1>1. CASE field = "command_line"
  BY <1>1 DEF Placeholder, Given, Document, Values
<1>2. CASE field = "executable"
  BY <1>2 DEF Placeholder, Given, Document, Values
<1> QED BY <1>1, <1>2

LEMMA CommandLineEnriched ==
    ASSUME NEW doc \in Document, NEW entry, NEW status \in Status,
           status = "ok" => entry.program \in Programs
    PROVE  LET d == EnrichCommandLine(doc, entry, status)
           IN  /\ d \in Document
               /\ d.name = doc.name /\ d.hash = doc.hash /\ d.executable = doc.executable
               /\ d.proc.command_line = status
               /\ d.command_line = IF status = "ok" THEN entry.program ELSE Given(doc.command_line)
<1> DEFINE read == IF status = "ok" THEN [doc EXCEPT !.command_line = entry.program]
                                    ELSE Placeholder(doc, "command_line")
<1>1. /\ read \in Document
      /\ read.name = doc.name /\ read.hash = doc.hash /\ read.executable = doc.executable
      /\ read.command_line = IF status = "ok" THEN entry.program ELSE Given(doc.command_line)
  <2>1. CASE status = "ok"
    BY <2>1 DEF Document, Values
  <2>2. CASE status # "ok"
    BY <2>2, PlaceholderKeeps
  <2> QED BY <2>1, <2>2
<1>2. EnrichCommandLine(doc, entry, status) = [read EXCEPT !.proc.command_line = status]
  BY DEF EnrichCommandLine
<1> HIDE DEF read
<1> QED BY <1>1, <1>2 DEF Document, ProcNode

LEMMA NameCorrected ==
    ASSUME NEW doc \in Document
    PROVE  LET d == CorrectProcessName(doc)
           IN  /\ d \in Document
               /\ d.hash = doc.hash /\ d.command_line = doc.command_line
               /\ d.executable = doc.executable
               /\ d.proc.command_line = doc.proc.command_line
               /\ d.proc.executable = doc.proc.executable
               /\ d.executable \in Programs => d.name = d.executable
<1>1. CASE doc.executable \in Programs /\ doc.name # doc.executable
  BY <1>1 DEF CorrectProcessName, Document, ProcNode
<1>2. CASE ~(doc.executable \in Programs /\ doc.name # doc.executable)
  BY <1>2 DEF CorrectProcessName
<1> QED BY <1>1, <1>2

LEMMA ExecutableEnriched ==
    ASSUME NEW doc \in Document, NEW entry, NEW status \in Status,
           status = "ok" => entry.program \in Programs
    PROVE  LET d == EnrichExecutable(doc, entry, status)
           IN  /\ d \in Document
               /\ d.hash = doc.hash /\ d.command_line = doc.command_line
               /\ d.proc.command_line = doc.proc.command_line
               /\ d.proc.executable = status
               /\ d.executable = IF status = "ok" THEN entry.program ELSE Given(doc.executable)
               /\ d.executable \in Programs => d.name = d.executable
<1> DEFINE read == IF status = "ok" THEN [doc EXCEPT !.executable = entry.program]
                                    ELSE Placeholder(doc, "executable")
<1> DEFINE noted == [read EXCEPT !.proc.executable = status]
<1>1. /\ read \in Document
      /\ read.hash = doc.hash /\ read.command_line = doc.command_line /\ read.proc = doc.proc
      /\ read.executable = IF status = "ok" THEN entry.program ELSE Given(doc.executable)
  <2>1. CASE status = "ok"
    BY <2>1 DEF Document, Values
  <2>2. CASE status # "ok"
    BY <2>2, PlaceholderKeeps
  <2> QED BY <2>1, <2>2
<1> HIDE DEF read
<1>2. /\ noted \in Document
      /\ noted.hash = doc.hash /\ noted.command_line = doc.command_line
      /\ noted.proc.command_line = doc.proc.command_line /\ noted.proc.executable = status
      /\ noted.executable = read.executable
  BY <1>1 DEF Document, ProcNode
<1>3. EnrichExecutable(doc, entry, status) = CorrectProcessName(noted)
  BY DEF EnrichExecutable, read
<1> HIDE DEF noted
<1> QED BY <1>1, <1>2, <1>3, NameCorrected

LEMMA HashEnriched ==
    ASSUME NEW doc \in Document, NEW content, NEW status \in Status,
           status = "ok" => content \in Programs
    PROVE  LET d == SetStatus(EnrichSha256(doc, status, content))
           IN  /\ d \in Document
               /\ d.name = doc.name /\ d.command_line = doc.command_line
               /\ d.executable = doc.executable
               /\ d.proc.command_line = doc.proc.command_line
               /\ d.proc.executable = doc.proc.executable
               /\ d.hash = IF status = "ok" THEN content ELSE doc.hash
<1> DEFINE d == EnrichSha256(doc, status, content)
<1>1. /\ d \in Document
      /\ d.name = doc.name /\ d.command_line = doc.command_line /\ d.executable = doc.executable
      /\ d.proc.command_line = doc.proc.command_line
      /\ d.proc.executable = doc.proc.executable
      /\ d.hash = IF status = "ok" THEN content ELSE doc.hash
  BY DEF EnrichSha256, Document, ProcNode
<1> HIDE DEF d
<1>2. SetStatus(d) = [d EXCEPT !.proc.original = Nothing]
  BY DEF SetStatus
<1> QED BY <1>1, <1>2 DEF Document, ProcNode, d

LEMMA StatusRead ==
    ASSUME NEW entry, NEW refused \in BOOLEAN, NEW ofZombie \in Status
    PROVE  /\ ReadStatus(entry, refused, ofZombie) \in Status
           /\ ofZombie # "ok" /\ ReadStatus(entry, refused, ofZombie) = "ok"
                 => entry.status \notin {"free", "zombie"}
BY DEF ReadStatus, Status

---------------------------------------------------------------------------
(* Every step keeps the invariant.                                         *)

LEMMA ProcessStepKeepsInv ==
    ASSUME FrontInv, ProcessStep
    PROVE  FrontInv'
<1>1. PICK p \in Pids :
          \/ \E c \in Pids : Fork(p, c) /\ UNCHANGED handling
          \/ \E f \in Programs, readable \in BOOLEAN :
                ExecEnter(p, f, readable) /\ UNCHANGED handling
          \/ ExecReturn(p, TRUE) /\ Changed(p)
          \/ ExecReturn(p, FALSE) /\ UNCHANGED handling
          \/ Connect(p) /\ UNCHANGED handling
          \/ Exit(p) /\ Changed(p)
          \/ Reap(p) /\ UNCHANGED handling
  BY DEF ProcessStep
<1>2. UNCHANGED <<agent_related_pids, hash_cache, tainted>>
  BY DEF ProcessStep, FrontUnchanged
<1>3. CacheInv'
  BY <1>2 DEF FrontInv, CacheInv, HashCacheSound
<1>4. /\ KernelInv'
      /\ \/ handling' = handling /\ \A q \in Pids : Runs(q) => RunsOn(q)
         \/ Changed(p) /\ \A q \in Pids \ {p} : Runs(q) => RunsOn(q)
  <2>1. CASE \E c \in Pids : Fork(p, c) /\ UNCHANGED handling
    BY <2>1, <1>2, ForkKeepsInv DEF FrontInv
  <2>2. CASE \E f \in Programs, readable \in BOOLEAN :
                ExecEnter(p, f, readable) /\ UNCHANGED handling
    BY <2>2, <1>2, ExecEnterKeepsInv DEF FrontInv
  <2>3. CASE ExecReturn(p, TRUE) /\ Changed(p)
    BY <2>3, <1>2, ExecReturnKeepsInv DEF FrontInv
  <2>4. CASE ExecReturn(p, FALSE) /\ UNCHANGED handling
    BY <2>4, <1>2, ExecReturnKeepsInv DEF FrontInv
  <2>5. CASE Connect(p) /\ UNCHANGED handling
    BY <2>5, <1>2, ConnectKeepsInv DEF FrontInv
  <2>6. CASE Exit(p) /\ Changed(p)
    BY <2>6, <1>2, ExitKeepsInv DEF FrontInv
  <2>7. CASE Reap(p) /\ UNCHANGED handling
    BY <2>7, <1>2, ReapKeepsInv DEF FrontInv
  <2> QED BY <1>1, <2>1, <2>2, <2>3, <2>4, <2>5, <2>6, <2>7
<1>5. HandlingTypeOK' /\ Handling'
  BY <1>2, <1>4, ProcessesKeepHandling DEF FrontInv
<1> QED BY <1>3, <1>4, <1>5 DEF FrontInv

\* Since the agent is known to the filter, a connection to an endpoint of the telemetry is
\* dropped or kept like any other event.
LEMMA DropsByPidOnly ==
    ASSUME Agent \in agent_related_pids, NEW event, NEW to_endpoint \in BOOLEAN
    PROVE  SelfFilterDrops(event, to_endpoint) <=>
              event.pid \in agent_related_pids \/ event.ppid \in agent_related_pids
BY DEF SelfFilterDrops, EvaluateConnectEvent, IsAgentRelated

LEMMA TakenIsFirst ==
    ASSUME KernelInv, TakeEvent
    PROVE  /\ Taken \in Event /\ Agent \in agent_related_pids
           /\ Taken.filename \in {Nothing, Taken.about} /\ Taken.argv = Taken.filename
           /\ RecordInOrder(events, agent_related_pids, suspect, 1) /\ Taken = events[1]
           /\ events' \in Seq(Event) /\ Len(events') <= RingSlots
           /\ \A i \in 1..Len(events') : /\ events'[i].filename \in {Nothing, events'[i].about}
                                         /\ events'[i].argv = events'[i].filename
<1>1. /\ events \in Seq(Event) /\ events # <<>> /\ events' = Tail(events)
      /\ Len(events) \in Nat /\ Len(events) <= RingSlots /\ RingSlots \in Nat
  BY ProcessesAssumption DEF KernelInv, ProcessesTypeOK, TakeEvent, ProcessesAssumption
<1>2. /\ Taken = events[1] /\ 1 \in 1..Len(events) /\ Taken \in Event
      /\ events' \in Seq(Event) /\ Len(events') = Len(events) - 1
      /\ \A i \in 1..Len(events') : i + 1 \in 1..Len(events) /\ events'[i] = events[i + 1]
  BY <1>1 DEF Taken
<1>3. Len(events') <= RingSlots
  BY <1>1, <1>2
<1> QED BY <1>2, <1>3 DEF KernelInv, Records, InOrder

LEMMA TakeKeepsKernelInv ==
    ASSUME KernelInv, TakeEvent,
           agent_related_pids' = IF Taken.pid \in agent_related_pids \/ Taken.ppid \in agent_related_pids
                                 THEN agent_related_pids \cup {Taken.pid} ELSE agent_related_pids
    PROVE  KernelInv'
<1>1. UNCHANGED <<process, descendants, suspect, seen, forks, calls>> /\ events' = Tail(events)
  BY DEF TakeEvent
<1>2. InOrder(Tail(events), agent_related_pids', suspect, seen)
  BY InOrderTail DEF KernelInv, ProcessesTypeOK, Records, TakeEvent, Taken
<1>3. Records'
  BY <1>1, <1>2, TakenIsFirst DEF Records
<1>4. Tree' /\ ProcessesTypeOK'
  BY <1>1, TakenIsFirst DEF KernelInv, Tree, Runs, ProcessesTypeOK
<1> QED BY <1>3, <1>4 DEF KernelInv

LEMMA NoDocType == NoDoc \in Document /\ NoProcNode \in ProcNode
BY DEF NoDoc, NoProcNode, Document, ProcNode, Status, Values

LEMMA OriginType ==
    ASSUME NEW event \in Event
    PROVE  /\ OriginOf(event) \in Origin
           /\ OriginOf(event).about = event.about /\ OriginOf(event).filename = event.filename
           /\ OriginOf(event).known = event.known /\ OriginOf(event).suspect = event.suspect
BY DEF OriginOf, Origin, Event

LEMMA DropOwnKeepsInv ==
    ASSUME FrontInv, NEW to_endpoint \in BOOLEAN, DropOwn(to_endpoint)
    PROVE  FrontInv'
<1>1. /\ TakeEvent /\ SelfFilterDrops(Taken, to_endpoint) /\ KernelInv
      /\ agent_related_pids' = agent_related_pids \cup {Taken.pid}
  BY DEF FrontInv, DropOwn, Learn
<1>2. Taken.pid \in agent_related_pids \/ Taken.ppid \in agent_related_pids
  BY <1>1, TakenIsFirst, DropsByPidOnly
<1>3. KernelInv'
  BY <1>1, <1>2, TakeKeepsKernelInv
<1>4. /\ handling' \in HandlingRecord /\ handling'.pc = "dropped" /\ handling'.of = OriginOf(Taken)
  BY <1>1, TakenIsFirst, NoDocType, OriginType DEF DropOwn, HandlingRecord, Event
<1>5. Taken.suspect /\ Taken.filename \in {Nothing, Taken.about}
  BY <1>1, <1>2, TakenIsFirst DEF RecordInOrder
<1>6. HandlingTypeOK' /\ Handling'
  BY <1>1, <1>4, <1>5, TakenIsFirst, OriginType DEF HandlingTypeOK, Handling
<1>7. CacheInv'
  BY DEF DropOwn, FrontInv, CacheInv, HashCacheSound
<1> QED BY <1>3, <1>6, <1>7 DEF FrontInv

LEMMA NormalizeKeepsInv ==
    ASSUME FrontInv, NEW to_endpoint \in BOOLEAN, Normalize(to_endpoint)
    PROVE  FrontInv'
<1>1. /\ TakeEvent /\ ~SelfFilterDrops(Taken, to_endpoint) /\ KernelInv
      /\ UNCHANGED <<agent_related_pids, hash_cache, tainted>>
  BY DEF FrontInv, Normalize
<1>2. ~(Taken.pid \in agent_related_pids \/ Taken.ppid \in agent_related_pids)
  BY <1>1, TakenIsFirst, DropsByPidOnly
<1>3. KernelInv'
  BY <1>1, <1>2, TakeKeepsKernelInv
<1>4. /\ Normalized(Taken) \in Document /\ Normalized(Taken).hash = Nothing
      /\ Normalized(Taken).command_line = Taken.argv /\ Normalized(Taken).executable = Taken.filename
  <2>1. Taken \in Event
    BY <1>1, TakenIsFirst
  <2> QED BY <2>1, NoDocType DEF Normalized, NoDoc, Document, Event, Values
<1>5. /\ handling' \in HandlingRecord /\ handling'.pc = "cmdline"
      /\ handling'.of = OriginOf(Taken) /\ handling'.doc = Normalized(Taken)
      /\ handling'.pid = Taken.pid
      /\ handling'.fresh => Runs(Taken.pid) /\ process[Taken.pid].program = Taken.about
  BY <1>1, <1>4, TakenIsFirst, OriginType DEF Normalize, HandlingRecord, Event
<1>6. ~Taken.known
  BY <1>1, <1>2, TakenIsFirst DEF RecordInOrder, Foreseen
<1>7. UNCHANGED process
  BY <1>1 DEF TakeEvent
<1>8. HandlingTypeOK' /\ Handling'
  BY <1>1, <1>4, <1>5, <1>6, <1>7, TakenIsFirst, OriginType DEF HandlingTypeOK, Handling, Runs
<1>9. CacheInv'
  BY <1>1 DEF FrontInv, CacheInv, HashCacheSound
<1> QED BY <1>3, <1>8, <1>9 DEF FrontInv

\* What a look that succeeds shows: a process that runs, and its program.
LEMMA LookSucceeds ==
    ASSUME FrontInv, handling.pc # "idle", NEW refused \in BOOLEAN
    PROVE  /\ handling \in HandlingRecord /\ handling.pid \in Pids
           /\ CmdlineStatus(Entry, refused) \in Status /\ ExeStatus(Entry, refused) \in Status
           /\ \/ CmdlineStatus(Entry, refused) = "ok" \/ ExeStatus(Entry, refused) = "ok"
                 => Runs(handling.pid) /\ Entry.program \in Programs
           /\ Entry.program = process[handling.pid].program
<1>1. handling \in HandlingRecord /\ handling.pid \in Pids
  BY DEF FrontInv, HandlingTypeOK, NoHandling, HandlingRecord
<1>2. /\ Entry.program = process[handling.pid].program
      /\ Entry.status = process[handling.pid].status
      /\ process[handling.pid].status \in {"free", "running", "zombie"}
  BY <1>1 DEF Entry, FrontInv, KernelInv, ProcessesTypeOK, Process
<1>3. /\ CmdlineStatus(Entry, refused) \in Status /\ ExeStatus(Entry, refused) \in Status
      /\ CmdlineStatus(Entry, refused) = "ok" \/ ExeStatus(Entry, refused) = "ok"
            => Entry.status \notin {"free", "zombie"}
  <2>1. "empty" \in Status /\ "short_lived" \in Status
    BY DEF Status
  <2> QED BY <2>1, StatusRead DEF CmdlineStatus, ExeStatus
<1>4. Runs(handling.pid) => process[handling.pid].program \in Programs
  BY <1>1 DEF FrontInv, KernelInv, Tree
<1> QED BY <1>1, <1>2, <1>3, <1>4 DEF Runs

LEMMA KernelInvUnchanged ==
    ASSUME KernelInv, UNCHANGED <<processVars, agent_related_pids>>
    PROVE  KernelInv'
BY DEF KernelInv, ProcessesTypeOK, Tree, Records, Runs, processVars

LEMMA ReadCmdlineKeepsInv ==
    ASSUME FrontInv, NEW refused \in BOOLEAN, ReadCmdline(refused)
    PROVE  FrontInv'
<1> DEFINE status == CmdlineStatus(Entry, refused)
<1> DEFINE d == EnrichCommandLine(handling.doc, Entry, status)
<1>1. /\ handling.pc = "cmdline" /\ UNCHANGED <<processVars, agent_related_pids, hash_cache, tainted>>
      /\ handling' = [handling EXCEPT !.pc = "exe", !.doc = d]
  BY DEF ReadCmdline
<1>2. /\ handling \in HandlingRecord /\ handling.pid \in Pids /\ status \in Status
      /\ status = "ok" => Runs(handling.pid) /\ Entry.program \in Programs
      /\ Entry.program = process[handling.pid].program
  BY <1>1, LookSucceeds
<1>3. /\ d \in Document
      /\ d.name = handling.doc.name /\ d.hash = handling.doc.hash
      /\ d.executable = handling.doc.executable
      /\ d.proc.command_line = status
      /\ d.command_line = IF status = "ok" THEN Entry.program ELSE Given(handling.doc.command_line)
  <2>1. handling.doc \in Document
    BY <1>2 DEF HandlingRecord
  <2> HIDE DEF status
  <2> QED BY <1>2, <2>1, CommandLineEnriched
<1> HIDE DEF status, d
<1>4. /\ handling' \in HandlingRecord /\ handling'.pc = "exe" /\ handling'.doc = d
      /\ handling'.pid = handling.pid /\ handling'.of = handling.of
      /\ handling'.fresh = handling.fresh
  BY <1>1, <1>2, <1>3 DEF HandlingRecord
<1>5. UNCHANGED process
  BY <1>1 DEF processVars
<1>6. HandlingTypeOK' /\ Handling'
  BY <1>1, <1>2, <1>3, <1>4, <1>5, KernelEventsAssumption
     DEF FrontInv, HandlingTypeOK, Handling, Runs, Given, KernelEventsAssumption
<1>7. CacheInv' /\ KernelInv'
  BY <1>1, KernelInvUnchanged DEF FrontInv, CacheInv, HashCacheSound
<1> QED BY <1>6, <1>7 DEF FrontInv

LEMMA ReadExeKeepsInv ==
    ASSUME FrontInv, NEW refused \in BOOLEAN, ReadExe(refused)
    PROVE  FrontInv'
<1> DEFINE status == ExeStatus(Entry, refused)
<1> DEFINE d == EnrichExecutable(handling.doc, Entry, status)
<1>1. /\ handling.pc = "exe" /\ UNCHANGED <<processVars, agent_related_pids, hash_cache, tainted>>
      /\ handling' = [handling EXCEPT !.pc = "stat", !.doc = d]
  BY DEF ReadExe
<1>2. /\ handling \in HandlingRecord /\ handling.pid \in Pids /\ status \in Status
      /\ status = "ok" => Runs(handling.pid) /\ Entry.program \in Programs
      /\ Entry.program = process[handling.pid].program
  BY <1>1, LookSucceeds
<1>3. /\ d \in Document
      /\ d.hash = handling.doc.hash /\ d.command_line = handling.doc.command_line
      /\ d.proc.command_line = handling.doc.proc.command_line
      /\ d.proc.executable = status
      /\ d.executable = IF status = "ok" THEN Entry.program ELSE Given(handling.doc.executable)
      /\ d.executable \in Programs => d.name = d.executable
  <2>1. handling.doc \in Document
    BY <1>2 DEF HandlingRecord
  <2> HIDE DEF status
  <2> QED BY <1>2, <2>1, ExecutableEnriched
<1> HIDE DEF status, d
<1>4. /\ handling' \in HandlingRecord /\ handling'.pc = "stat" /\ handling'.doc = d
      /\ handling'.pid = handling.pid /\ handling'.of = handling.of
      /\ handling'.fresh = handling.fresh
  BY <1>1, <1>2, <1>3 DEF HandlingRecord
<1>5. UNCHANGED process
  BY <1>1 DEF processVars
<1>6. HandlingTypeOK' /\ Handling'
  BY <1>1, <1>2, <1>3, <1>4, <1>5, KernelEventsAssumption
     DEF FrontInv, HandlingTypeOK, Handling, Runs, Given, KernelEventsAssumption
<1>7. CacheInv' /\ KernelInv'
  BY <1>1, KernelInvUnchanged DEF FrontInv, CacheInv, HashCacheSound
<1> QED BY <1>6, <1>7 DEF FrontInv

\* Of the hash of a document that is finished, only its being true is left to show.
LEMMA FinishKeepsHandling ==
    ASSUME FrontInv, handling.pc \in {"stat", "open"}, NEW status \in Status, NEW content,
           status = "ok" => content \in Programs,
           Finish(status, content), UNCHANGED processVars,
           handling.fresh /\ status = "ok" => content = handling.of.about \/ handling.of.about \in tainted'
    PROVE  HandlingTypeOK' /\ Handling'
<1> DEFINE d == SetStatus(EnrichSha256(handling.doc, status, content))
<1>1. handling \in HandlingRecord /\ handling.doc \in Document
  BY DEF FrontInv, HandlingTypeOK, NoHandling, HandlingRecord
<1>2. handling' = [handling EXCEPT !.pc = "done", !.key = Nothing, !.steady = FALSE, !.doc = d]
  BY DEF Finish
<1>3. /\ d \in Document
      /\ d.name = handling.doc.name /\ d.command_line = handling.doc.command_line
      /\ d.executable = handling.doc.executable
      /\ d.proc.command_line = handling.doc.proc.command_line
      /\ d.proc.executable = handling.doc.proc.executable
      /\ d.hash = IF status = "ok" THEN content ELSE handling.doc.hash
  BY <1>1, HashEnriched
<1> HIDE DEF d
<1>4. /\ handling' \in HandlingRecord /\ handling'.pc = "done" /\ handling'.doc = d
      /\ handling'.pid = handling.pid /\ handling'.of = handling.of
      /\ handling'.fresh = handling.fresh
  BY <1>1, <1>2, <1>3 DEF HandlingRecord
<1>5. handling.doc.hash = Nothing
  BY DEF FrontInv, Handling
<1> QED BY <1>1, <1>3, <1>4, <1>5 DEF FrontInv, HandlingTypeOK, Handling

LEMMA StatExeKeepsInv ==
    ASSUME FrontInv, NEW refused \in BOOLEAN, StatExe(refused)
    PROVE  FrontInv'
<1> DEFINE status == ExeStatus(Entry, refused)
<1> DEFINE key == Entry.program
<1>1. /\ handling.pc = "stat" /\ UNCHANGED <<processVars, agent_related_pids, hash_cache, tainted>>
      /\ \/ status # "ok" /\ Finish(status, Nothing)
         \/ status = "ok" /\ Cached(key) /\ Finish("ok", hash_cache[key])
         \/ status = "ok" /\ handling' = [handling EXCEPT !.pc = "open", !.key = key, !.steady = TRUE]
  BY DEF StatExe, CacheKey
<1>2. /\ handling \in HandlingRecord /\ handling.pid \in Pids /\ status \in Status
      /\ status = "ok" => Runs(handling.pid) /\ key \in Programs
      /\ key = process[handling.pid].program
  BY <1>1, LookSucceeds
<1> HIDE DEF status, key
<1>3. handling.fresh => process[handling.pid].program = handling.of.about
  BY <1>1 DEF FrontInv, Handling
<1>4. UNCHANGED <<processVars, tainted, process>>
  BY <1>1 DEF processVars
<1>5. HandlingTypeOK' /\ Handling'
  <2>1. CASE status # "ok" /\ Finish(status, Nothing)
    BY <2>1, <1>1, <1>2, <1>4, FinishKeepsHandling
  <2>2. CASE status = "ok" /\ Cached(key) /\ Finish("ok", hash_cache[key])
    <3>1. hash_cache[key] \in Programs /\ (hash_cache[key] = key \/ key \in tainted)
      BY <2>2 DEF FrontInv, CacheInv, HashCacheSound, Cached
    <3> QED BY <3>1, <2>2, <1>1, <1>2, <1>3, <1>4, FinishKeepsHandling
  <2>3. CASE status = "ok" /\ handling' = [handling EXCEPT !.pc = "open", !.key = key, !.steady = TRUE]
    <3>1. /\ handling' \in HandlingRecord /\ handling'.pc = "open" /\ handling'.key = key
          /\ handling'.doc = handling.doc /\ handling'.pid = handling.pid
          /\ handling'.of = handling.of /\ handling'.fresh = handling.fresh
      BY <2>3, <1>2 DEF HandlingRecord
    <3> QED BY <3>1, <2>3, <1>1, <1>2, <1>4 DEF FrontInv, HandlingTypeOK, Handling, Runs
  <2> QED BY <1>1, <2>1, <2>2, <2>3
<1>6. CacheInv' /\ KernelInv'
  BY <1>1, KernelInvUnchanged DEF FrontInv, CacheInv, HashCacheSound
<1> QED BY <1>5, <1>6 DEF FrontInv

LEMMA HashExeKeepsInv ==
    ASSUME FrontInv, NEW refused \in BOOLEAN, HashExe(refused)
    PROVE  FrontInv'
<1> DEFINE status == ExeStatus(Entry, refused)
<1> DEFINE content == Entry.program
<1> DEFINE key == handling.key
<1>1. /\ handling.pc = "open" /\ Finish(status, content)
      /\ UNCHANGED <<processVars, agent_related_pids>>
      /\ status # "ok" => UNCHANGED <<hash_cache, tainted>>
      /\ status = "ok" => /\ FillCache(key, content)
                          /\ tainted' = IF handling.steady THEN tainted ELSE tainted \cup {key}
  BY DEF HashExe
<1>2. /\ handling \in HandlingRecord /\ handling.pid \in Pids /\ status \in Status
      /\ status = "ok" => Runs(handling.pid) /\ content \in Programs
      /\ content = process[handling.pid].program
  BY <1>1, LookSucceeds
<1> HIDE DEF status, content, key
<1>3. /\ handling.fresh => process[handling.pid].program = handling.of.about
      /\ key \in Programs
      /\ handling.steady => process[handling.pid].program = key
  BY <1>1 DEF FrontInv, Handling, key
<1>4. HandlingTypeOK' /\ Handling'
  BY <1>1, <1>2, <1>3, FinishKeepsHandling
<1>5. CacheInv'
  <2>1. CASE UNCHANGED <<hash_cache, tainted>>
    BY <2>1 DEF FrontInv, CacheInv, HashCacheSound
  <2>2. CASE status = "ok"
    <3>1. /\ tainted \subseteq tainted' /\ tainted' \subseteq Programs
          /\ content = key \/ key \in tainted'
      BY <2>2, <1>1, <1>2, <1>3 DEF FrontInv, CacheInv
    <3>2. CASE UNCHANGED hash_cache
      BY <3>1, <3>2 DEF FrontInv, CacheInv, HashCacheSound
    <3>3. CASE hash_cache' = [k \in DOMAIN hash_cache \cup {key} |->
                                 IF k = key THEN content ELSE hash_cache[k]]
      <4>1. /\ DOMAIN hash_cache' = DOMAIN hash_cache \cup {key}
            /\ \A k \in DOMAIN hash_cache' :
                  hash_cache'[k] = IF k = key THEN content ELSE hash_cache[k]
        BY <3>3
      <4> QED BY <4>1, <3>1, <2>2, <1>2, <1>3 DEF FrontInv, CacheInv, HashCacheSound
    <3> QED BY <3>2, <3>3, <2>2, <1>1 DEF FillCache
  <2> QED BY <1>1, <2>1, <2>2
<1>6. KernelInv'
  BY <1>1, KernelInvUnchanged DEF FrontInv
<1> QED BY <1>4, <1>5, <1>6 DEF FrontInv

LEMMA InitInv ==
    ASSUME Init
    PROVE  FrontInv
<1>1. /\ events = <<>> /\ descendants = {Agent} /\ suspect = {Agent} /\ seen = {Agent}
      /\ forks = 0 /\ calls = 0 /\ agent_related_pids = {Agent} /\ hash_cache = <<>>
      /\ handling = NoHandling /\ tainted = {}
  BY DEF Init, InitProcesses, InitSelfFilter, InitEnricher
<1>2. PICK f \in Programs :
         process = [p \in Pids |-> IF p \in {Agent, Reaper} THEN Running(Reaper, f) ELSE Ended("free")]
  BY DEF Init, InitProcesses
<1>3. /\ Running(Reaper, f) \in Process /\ Ended("free") \in Process
      /\ Running(Reaper, f).status = "running" /\ Running(Reaper, f).ppid = Reaper
      /\ Running(Reaper, f).program = f /\ Ended("free").status # "running"
  BY KernelEventsAssumption DEF Running, Ended, Process, KernelEventsAssumption
<1>4. /\ process \in [Pids -> Process]
      /\ \A p \in Pids : process[p] = IF p \in {Agent, Reaper} THEN Running(Reaper, f) ELSE Ended("free")
  BY <1>2, <1>3
<1>5. Tree
  BY <1>1, <1>3, <1>4, KernelEventsAssumption DEF Tree, Runs, KernelEventsAssumption
<1>6. ProcessesTypeOK
  BY <1>1, <1>4, KernelEventsAssumption, ProcessesAssumption
     DEF ProcessesTypeOK, KernelEventsAssumption, ProcessesAssumption
<1>7. Len(events) = 0 /\ DOMAIN hash_cache = {}
  BY <1>1
<1>8. Records
  BY <1>1, <1>7 DEF Records, InOrder, Foreseen
<1>9. CacheInv /\ HandlingTypeOK /\ Handling
  BY <1>1, <1>7 DEF CacheInv, HashCacheSound, HandlingTypeOK, Handling, NoHandling
<1> QED BY <1>5, <1>6, <1>8, <1>9 DEF FrontInv, KernelInv

LEMMA NextInv ==
    ASSUME FrontInv, [Next]_vars
    PROVE  FrontInv'
<1>1. CASE Return \/ UNCHANGED vars
  <2>1. UNCHANGED <<processVars, agent_related_pids, hash_cache, tainted>>
    BY <1>1 DEF Return, vars, frontVars
  <2>2. handling' = handling \/ handling' = NoHandling
    BY <1>1 DEF Return, vars, frontVars
  <2>3. KernelInv' /\ CacheInv'
    BY <2>1, KernelInvUnchanged DEF FrontInv, CacheInv, HashCacheSound
  <2>4. HandlingTypeOK' /\ Handling'
    BY <2>1, <2>2 DEF FrontInv, HandlingTypeOK, Handling, NoHandling, Runs, processVars
  <2> QED BY <2>3, <2>4 DEF FrontInv
<1>2. CASE ProcessStep
  BY <1>2, ProcessStepKeepsInv
<1>3. ASSUME NEW to_endpoint \in BOOLEAN, DropOwn(to_endpoint) \/ Normalize(to_endpoint)
      PROVE  FrontInv'
  BY <1>3, DropOwnKeepsInv, NormalizeKeepsInv
<1>4. ASSUME NEW refused \in BOOLEAN,
             ReadCmdline(refused) \/ ReadExe(refused) \/ StatExe(refused) \/ HashExe(refused)
      PROVE  FrontInv'
  BY <1>4, ReadCmdlineKeepsInv, ReadExeKeepsInv, StatExeKeepsInv, HashExeKeepsInv
<1> QED BY <1>1, <1>2, <1>3, <1>4 DEF Next

---------------------------------------------------------------------------
(* The results.                                                            *)

\* The invariant of the front of the pipeline.
THEOREM FrontInvariance == Spec => []FrontInv
<1>1. Init => FrontInv
  BY InitInv
<1>2. FrontInv /\ [Next]_vars => FrontInv'
  BY NextInv
<1> QED BY <1>1, <1>2, PTL DEF Spec

\* The front of the pipeline is type correct, for any number of pids, programs and records.
THEOREM FrontTypeCorrect == Spec => []FrontTypeOK
<1>1. FrontInv => FrontTypeOK
  BY DEF FrontInv, KernelInv, CacheInv, HandlingTypeOK, FrontTypeOK, Records, InOrder, ProcessesTypeOK
<1> QED BY <1>1, FrontInvariance, PTL

\* The filter drops no event but those of descendants of the agent and of pids they, or
\* processes forked under such pids, have held (AgentSelfFilter.evaluate).
THEOREM DropsOnlyItsOwn == Spec => []SelfFilterSound
<1>1. FrontInv => SelfFilterSound
  BY DEF FrontInv, Handling, SelfFilterSound
<1> QED BY <1>1, FrontInvariance, PTL

\* The filter drops every event that records before it show to be a descendant's.
THEOREM DropsAllItCanKnow == Spec => []SelfFilterComplete
<1>1. FrontInv => SelfFilterComplete
  BY DEF FrontInv, Handling, SelfFilterComplete
<1> QED BY <1>1, FrontInvariance, PTL

\* The branch of AgentSelfFilter.evaluate for connections to the telemetry's endpoints
\* decides nothing: whatever is configured, the same events are dropped.
THEOREM EndpointsDecideNothing ==
    Spec => [](\A event \in Event : SelfFilterDrops(event, TRUE) <=> SelfFilterDrops(event, FALSE))
<1>1. FrontInv => \A event \in Event : SelfFilterDrops(event, TRUE) <=> SelfFilterDrops(event, FALSE)
  <2> SUFFICES ASSUME FrontInv, NEW event \in Event
               PROVE  SelfFilterDrops(event, TRUE) <=> SelfFilterDrops(event, FALSE)
    OBVIOUS
  <2>1. Agent \in agent_related_pids
    BY DEF FrontInv, KernelInv, Records, InOrder
  <2> QED BY <2>1, DropsByPidOnly
<1> QED BY <1>1, FrontInvariance, PTL

\* What is read from /proc of a process that stayed what the event says is true.
THEOREM EnrichmentIsTrue == Spec => []EnrichmentTrue
<1>1. FrontInv => EnrichmentTrue
  <2> SUFFICES ASSUME FrontInv, Done, handling.fresh
               PROVE  /\ handling.doc.executable \in {handling.of.about, Unknown}
                      /\ handling.doc.executable = handling.of.about
                            => handling.doc.name = handling.of.about
                      /\ handling.doc.command_line \in {handling.of.about, Unknown}
                      /\ \/ handling.doc.hash \in {handling.of.about, Nothing}
                         \/ handling.of.about \in tainted
    BY DEF EnrichmentTrue
  <2>1. handling.of.about \in Programs
    BY DEF FrontInv, Done, HandlingTypeOK, NoHandling, HandlingRecord, Origin
  <2> QED BY <2>1 DEF FrontInv, Handling, Done
<1> QED BY <1>1, FrontInvariance, PTL

\* A look at /proc that fails takes nothing from what the kernel reported.
THEOREM KernelValuesAreKept == Spec => []KernelValuesKept
<1>1. FrontInv => KernelValuesKept
  <2> SUFFICES ASSUME FrontInv, Done
               PROVE  KernelValuesKept
    BY DEF KernelValuesKept
  <2>1. handling.of.about \in Programs
    BY DEF FrontInv, Done, HandlingTypeOK, NoHandling, HandlingRecord, Origin
  <2> QED BY <2>1 DEF FrontInv, Handling, Done, KernelValuesKept
<1> QED BY <1>1, FrontInvariance, PTL

\* The cache is wrong only about files hashed while their process changed its program.
THEOREM HashCacheIsSound == Spec => []HashCacheSound
<1>1. FrontInv => HashCacheSound
  BY DEF FrontInv, CacheInv
<1> QED BY <1>1, FrontInvariance, PTL
=============================================================================
