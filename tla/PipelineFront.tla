---------------------------- MODULE PipelineFront ----------------------------
(***************************************************************************)
(* The first half of EventPipeline.process: the main thread takes a record *)
(* from the ring, filters out the agent's own, normalizes it and enriches  *)
(* the document from /proc, while the processes it describes go on.  The   *)
(* filter and the normalizer look at the record alone, so taking it is one *)
(* step with them; each look at /proc is a step.  An exception inside      *)
(* enrich() is caught in it, and none leaves it.                           *)
(***************************************************************************)
EXTENDS Processes, AgentSelfFilter, ProcEnricher

VARIABLES
    handling,  \* what process() is at: [pc, pid, doc, key] and the history
               \* [of, fresh, steady], see HandlingRecord
    tainted    \* history: keys hashed although the file of the pid changed after the stat

frontVars == <<agent_related_pids, hash_cache, handling, tainted>>
vars == <<processVars, frontVars>>

NoDoc == [name |-> Nothing, executable |-> Nothing, command_line |-> Nothing,
          hash |-> Nothing, proc |-> NoProcNode]

\* What the properties compare a document with, of the event it was made of.
OriginOf(event) == [about |-> event.about, filename |-> event.filename,
                    descends |-> event.descends, known |-> event.known,
                    suspect |-> event.suspect]

Origin == [about : Programs, filename : Programs \cup {Nothing},
           descends : BOOLEAN, known : BOOLEAN, suspect : BOOLEAN]

\* fresh: since the record was taken, /proc/<pid> has shown the process and the program
\* it is about.  steady: /proc/<pid>/exe has not changed since its stat.
HandlingRecord ==
    [pc : {"dropped", "cmdline", "exe", "stat", "open", "done"}, pid : Pids, of : Origin,
     doc : Document, key : Programs \cup {Nothing}, fresh : BOOLEAN, steady : BOOLEAN]

NoHandling == [pc |-> "idle", doc |-> NoDoc, key |-> Nothing, fresh |-> FALSE, steady |-> FALSE]

Init ==
    /\ InitProcesses
    /\ InitSelfFilter
    /\ InitEnricher
    /\ handling = NoHandling
    /\ tainted = {}

---------------------------------------------------------------------------
(* The processes, beside process().                                        *)

Handles(p) == handling.pc \in {"cmdline", "exe", "stat", "open"} /\ handling.pid = p

\* What /proc shows of p is not what it was.
Changed(p) ==
    handling' = IF Handles(p) THEN [handling EXCEPT !.fresh = FALSE, !.steady = FALSE] ELSE handling

FrontUnchanged == UNCHANGED <<agent_related_pids, hash_cache, tainted>>

\* What follows enrich() looks at the document alone, so nothing is lost if the processes
\* wait for it.
ProcessStep ==
    /\ handling.pc \notin {"dropped", "done"}
    /\ FrontUnchanged
    /\ \E p \in Pids :
          \/ \E c \in Pids : Fork(p, c) /\ UNCHANGED handling
          \/ \E f \in Programs, readable \in BOOLEAN :
                ExecEnter(p, f, readable) /\ UNCHANGED handling
          \/ ExecReturn(p, TRUE) /\ Changed(p)
          \/ ExecReturn(p, FALSE) /\ UNCHANGED handling
          \/ Connect(p) /\ UNCHANGED handling
          \/ Exit(p) /\ Changed(p)
          \/ Reap(p) /\ UNCHANGED handling

---------------------------------------------------------------------------
(* process().                                                              *)

\* _base_document, _process_event and prune_empty: what the record gives the document.
Normalized(event) ==
    [NoDoc EXCEPT !.name = event.comm, !.executable = event.filename, !.command_line = event.argv]

Taken == Head(events)

DropOwn(to_endpoint) ==
    /\ handling.pc = "idle" /\ TakeEvent
    /\ SelfFilterDrops(Taken, to_endpoint)
    /\ Learn(Taken, to_endpoint)
    /\ handling' = [pc |-> "dropped", pid |-> Taken.pid, of |-> OriginOf(Taken), doc |-> NoDoc,
                    key |-> Nothing, fresh |-> FALSE, steady |-> FALSE]
    /\ UNCHANGED <<hash_cache, tainted>>

Normalize(to_endpoint) ==
    /\ handling.pc = "idle" /\ TakeEvent
    /\ ~SelfFilterDrops(Taken, to_endpoint)
    /\ handling' = [pc |-> "cmdline", pid |-> Taken.pid, of |-> OriginOf(Taken),
                    doc |-> Normalized(Taken), key |-> Nothing,
                    fresh |-> /\ Taken.alive /\ Runs(Taken.pid)
                              /\ process[Taken.pid].program = Taken.about,
                    steady |-> FALSE]
    /\ UNCHANGED <<agent_related_pids, hash_cache, tainted>>

Entry == [status |-> process[handling.pid].status,
          program |-> process[handling.pid].program]

ReadCmdline(refused) ==
    /\ handling.pc = "cmdline"
    /\ handling' = [handling EXCEPT !.pc = "exe",
                       !.doc = EnrichCommandLine(@, Entry, CmdlineStatus(Entry, refused))]
    /\ UNCHANGED <<processVars, agent_related_pids, hash_cache, tainted>>

ReadExe(refused) ==
    /\ handling.pc = "exe"
    /\ handling' = [handling EXCEPT !.pc = "stat",
                       !.doc = EnrichExecutable(@, Entry, ExeStatus(Entry, refused))]
    /\ UNCHANGED <<processVars, agent_related_pids, hash_cache, tainted>>

Finish(status, content) ==
    handling' = [handling EXCEPT !.pc = "done", !.key = Nothing, !.steady = FALSE,
                    !.doc = SetStatus(EnrichSha256(@, status, content))]

\* os.stat and the look in the cache; os.stat may fail.
StatExe(refused) ==
    LET status == ExeStatus(Entry, refused)
        key == CacheKey(Entry.program)
    IN  /\ handling.pc = "stat"
        /\ \/ status # "ok" /\ Finish(status, Nothing)
           \/ status = "ok" /\ Cached(key) /\ Finish("ok", hash_cache[key])
           \/ /\ status = "ok" /\ ~Cached(key)
              /\ handling' = [handling EXCEPT !.pc = "open", !.key = key, !.steady = TRUE]
        /\ UNCHANGED <<processVars, agent_related_pids, hash_cache, tainted>>

\* The link is followed once more to read the file, and its hash kept under the stat's key.
HashExe(refused) ==
    LET status == ExeStatus(Entry, refused)
    IN  /\ handling.pc = "open"
        /\ Finish(status, Entry.program)
        /\ IF status = "ok"
           THEN /\ FillCache(handling.key, Entry.program)
                /\ tainted' = IF handling.steady THEN tainted ELSE tainted \cup {handling.key}
           ELSE UNCHANGED <<hash_cache, tainted>>
        /\ UNCHANGED <<processVars, agent_related_pids>>

\* process() goes on with the document, or returns: the main thread polls again.
Return ==
    /\ handling.pc \in {"dropped", "done"}
    /\ handling' = NoHandling
    /\ UNCHANGED <<processVars, agent_related_pids, hash_cache, tainted>>

Next ==
    \/ ProcessStep
    \/ Return
    \/ \E to_endpoint \in BOOLEAN : DropOwn(to_endpoint) \/ Normalize(to_endpoint)
    \/ \E refused \in BOOLEAN :
          ReadCmdline(refused) \/ ReadExe(refused) \/ StatExe(refused) \/ HashExe(refused)

Spec == Init /\ [][Next]_vars

---------------------------------------------------------------------------
(* Properties.                                                             *)

Done == handling.pc = "done"

\* Type correctness of the tree, the filter, the cache and the document at hand.
FrontTypeOK ==
    /\ ProcessesTypeOK
    /\ agent_related_pids \subseteq Pids
    /\ DOMAIN hash_cache \subseteq Programs
    /\ \A k \in DOMAIN hash_cache : hash_cache[k] \in Programs
    /\ handling = NoHandling \/ handling \in HandlingRecord
    /\ tainted \subseteq Programs

\* An event that is dropped as the agent's own is one of a descendant of the agent; only
\* when, at the time of the event, the pid had been a descendant's that has exited, or was
\* forked under such a pid, is another process's event dropped too: however long records
\* wait in the ring, and whatever pids change hands meanwhile (AgentSelfFilter.evaluate).
SelfFilterSound ==
    (handling.pc = "dropped" /\ ~handling.of.descends) => handling.of.suspect

\* Every event of the agent, and of a descendant each of whose ancestors up to the agent
\* has had a record in the ring before, is dropped, whatever exits and is adopted
\* meanwhile (AgentSelfFilter.evaluate).
SelfFilterComplete ==
    handling.pc \notin {"idle", "dropped"} => ~handling.of.known

\* A document whose process neither changed program nor exited while it was handled, and
\* whose exec had taken effect when it was taken, tells of the program of the event: what
\* is read never contradicts it, the name follows the executable, and the hash is wrong
\* only if it was wrong in the cache (ProcEnricher.enrich).
EnrichmentTrue ==
    Done /\ handling.fresh =>
        LET about == handling.of.about
            doc == handling.doc
        IN  /\ doc.executable \in {about, Unknown}
            /\ doc.executable = about => doc.name = about
            /\ doc.command_line \in {about, Unknown}
            /\ doc.hash \in {about, Nothing} \/ about \in tainted

\* A look at /proc that fails takes nothing from what the kernel reported, however late it
\* is: the document of a process that is gone keeps its executable and command line, and
\* bears the name of the program executed (_enrich_command_line, _enrich_executable).
KernelValuesKept ==
    Done =>
        LET doc == handling.doc
            of == handling.of
        IN  /\ doc.proc.command_line # "ok" /\ of.filename # Nothing
                 => doc.command_line = of.about
            /\ doc.proc.executable # "ok" /\ of.filename # Nothing
                 => doc.executable = of.about /\ doc.name = of.about

\* A hash is kept under the key of another file only when the process of an event changed
\* its program between the stat and the reading of /proc/<pid>/exe
\* (_sha256_file_with_cache).
HashCacheSound == \A k \in DOMAIN hash_cache : hash_cache[k] = k \/ k \in tainted
=============================================================================
