----------------------------- MODULE KernelEvents -----------------------------
(***************************************************************************)
(* What the front of the pipeline knows of the host: pids, programs, and   *)
(* the exec and connect records of struct event_t.                         *)
(***************************************************************************)
CONSTANTS
    Pids,
    Agent,     \* the agent's pid
    Reaper,    \* the pid of the process that started the agent and adopts orphans
    Programs,  \* executables: path, base name, arguments and content in one
    Nothing    \* a field that is empty

ASSUME KernelEventsAssumption ==
    /\ {Agent, Reaper} \subseteq Pids /\ Agent # Reaper
    /\ Nothing \notin Programs

\* struct event_t, and history: the program the record is about; whether its process, when
\* it was written, descended from the agent (descends), was known to by records (known), or
\* had a pid that ever was a descendant's (suspect); whether the process still runs.
Event == [type : {"EXECVE", "CONNECT"}, pid : Pids, ppid : Pids, comm : Programs,
          filename : Programs \cup {Nothing}, argv : Programs \cup {Nothing},
          about : Programs,
          descends : BOOLEAN, known : BOOLEAN, suspect : BOOLEAN, alive : BOOLEAN]
=============================================================================
