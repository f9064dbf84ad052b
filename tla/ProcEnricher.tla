----------------------------- MODULE ProcEnricher -----------------------------
(***************************************************************************)
(* ProcEnricher of user_space/enricher: what enrich() does to a document   *)
(* with each of its four looks at /proc/<pid>, and its hash cache.  The    *)
(* process may change between two looks, so each is an operator of its     *)
(* own: read the command line, follow the exe link, stat it, open it.      *)
(* What /proc shows of the pid is the argument                             *)
(*   entry: [status, program]                                              *)
(* and refused stands for a PermissionError or another OSError.            *)
(***************************************************************************)
EXTENDS KernelEvents

CONSTANTS
    Unknown,  \* one of the texts "unknown (...)"
    EnableHashCache

ASSUME EnricherAssumption ==
    /\ Unknown \notin Programs /\ Unknown # Nothing
    /\ EnableHashCache \in BOOLEAN

VARIABLE hash_cache  \* key of a file |-> the program whose content was hashed

\* The keys of edr.enrichment.proc; original is original_process_name.
Status == {"", "ok", "empty", "short_lived", "refused"}

ProcNode == [command_line : Status, executable : Status, hash : Status,
             original : Programs \cup {Nothing}]

NoProcNode == [command_line |-> "", executable |-> "", hash |-> "", original |-> Nothing]

Values == Programs \cup {Nothing, Unknown}

Document == [name : Programs \cup {Nothing}, executable : Values, command_line : Values,
             hash : Programs \cup {Nothing}, proc : ProcNode]

InitEnricher == hash_cache = <<>>

\* The bug of an assignment where the code has setdefault.
PlaceholderAlways(doc, field) == [doc EXCEPT ![field] = Unknown]

\* setdefault with one of the texts for a value that is not there.
Placeholder(doc, field) == IF doc[field] = Nothing THEN [doc EXCEPT ![field] = Unknown] ELSE doc

ReadStatus(entry, refused, ofZombie) ==
    CASE entry.status = "free" -> "short_lived"
      [] entry.status = "zombie" -> ofZombie
      [] OTHER -> IF refused THEN "refused" ELSE "ok"

\* Opening /proc/<pid>/cmdline: a zombie's is empty.
CmdlineStatus(entry, refused) == ReadStatus(entry, refused, "empty")

\* Following /proc/<pid>/exe, to name, stat or open the file: a zombie has none.
ExeStatus(entry, refused) == ReadStatus(entry, refused, "short_lived")

EnrichCommandLine(doc, entry, status) ==
    LET read == IF status = "ok" THEN [doc EXCEPT !.command_line = entry.program]
                                 ELSE Placeholder(doc, "command_line")
    IN  [read EXCEPT !.proc.command_line = status]

\* The bug of comparing with the wrong name: nothing is ever corrected.
CorrectNothing(doc) == doc

\* _correct_process_name_from_executable, also when the executable is the kernel's.
CorrectProcessName(doc) ==
    IF doc.executable \in Programs /\ doc.name # doc.executable
    THEN [doc EXCEPT !.name = doc.executable, !.proc.original = doc.name]
    ELSE doc

EnrichExecutable(doc, entry, status) ==
    LET read == IF status = "ok" THEN [doc EXCEPT !.executable = entry.program]
                                 ELSE Placeholder(doc, "executable")
    IN  CorrectProcessName([read EXCEPT !.proc.executable = status])

\* The bug of leaving out what identifies the file: equal sizes and times are enough.
CacheKeyOfSize(program) == CHOOSE q \in Programs : TRUE

\* (st_dev, st_ino, st_size, st_mtime_ns) of the file the link led to.
CacheKey(program) == program

\* The bug of giving the hash a placeholder too, which a hash must never be.
EnrichSha256Unknown(doc, status, content) ==
    [doc EXCEPT !.hash = IF status = "ok" THEN content ELSE Unknown, !.proc.hash = status]

EnrichSha256(doc, status, content) ==
    [doc EXCEPT !.hash = IF status = "ok" THEN content ELSE @, !.proc.hash = status]

Cached(key) == EnableHashCache /\ key \in DOMAIN hash_cache

FillCache(key, content) ==
    hash_cache' = IF EnableHashCache
                  THEN [k \in DOMAIN hash_cache \cup {key} |->
                           IF k = key THEN content ELSE hash_cache[k]]
                  ELSE hash_cache

\* _set_status replaces the node, and with it the name the correction had kept there.
SetStatus(doc) == [doc EXCEPT !.proc.original = Nothing]
=============================================================================
