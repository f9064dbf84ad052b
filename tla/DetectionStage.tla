---------------------------- MODULE DetectionStage ----------------------------
(***************************************************************************)
(* The middle of EventPipeline.process: what SystemNoiseFilter lets pass   *)
(* goes to SigmaEngine.  Documents are given as they are, or made of a     *)
(* command,                                                                *)
(*   [filename, image, argv, beyond, unread, comm]                         *)
(* whose record was written as its execve was entered, and of what /proc   *)
(* showed of that pid some time later: nothing any more, the command, or   *)
(* another program, since the execve had not taken effect, had failed, or  *)
(* was followed by another.                                                *)
(***************************************************************************)
EXTENDS SigmaEngine, SystemNoiseFilter

CONSTANTS
    CommandsOf(_),   \* the commands executed before an engine with a sequence of rules
    OtherCmdlines,   \* the arguments of other programs that /proc/<pid>/cmdline may show
    OtherImages,     \* the files of other programs that /proc/<pid>/exe may lead to
    Words,           \* an argument with spaces |-> its words
    Quoted,          \* an argument with a character of the shell's |-> shlex.quote of it
    DocumentsOf(_)   \* the flattened documents given to a sequence of rules as they are

ArgvFields == 6

\* The null that argv ends with, an empty argument, and what could not be read.
Null == ""

\* A command's file name, the file it leads to, its arguments, what the memory after them
\* points to, the arguments whose memory the kernel cannot read, and who executes it.
ASSUME CommandsAssumption ==
    \A rs \in RuleSets :
        CommandsOf(rs) \subseteq [filename : STRING, image : STRING, argv : Seq(STRING),
                                 beyond : Seq(STRING), unread : SUBSET (1..ArgvFields), comm : STRING]

\* What the first two looks of enrich() may come to; nothing for a process that is gone, is
\* a zombie, or may not be looked at.
Looks(command) ==
    [cmdline : {<<>>, command.argv} \cup OtherCmdlines, exe : {Null, command.image} \cup OtherImages]

VARIABLE
    handled   \* history: the command handled last, the looks, and whether it was dropped as noise

vars == <<sigmaVars, handled>>

NoCommand ==
    [filename |-> Null, image |-> Null, argv |-> <<>>, beyond |-> <<>>, unread |-> {}, comm |-> Null]

NoLook == [cmdline |-> <<>>, exe |-> Null]

NotHandled == [command |-> NoCommand, look |-> NoLook, noise |-> FALSE]

\* The filter and the engine keep nothing from one document to the next.
Ready == detection = NoDetection /\ handled = NotHandled

---------------------------------------------------------------------------
(* From the command to the document.                                       *)

\* submit_exec_event reads six pointers whatever argv's length; argv ends with a null, and
\* what cannot be read leaves its field empty.
RawArgs(command) ==
    LET memory == command.argv \o <<Null>> \o command.beyond
    IN  [i \in 1..ArgvFields |->
            IF i \in DOMAIN memory \ command.unread THEN memory[i] ELSE Null]

\* The bug of skipping an empty field instead of stopping at it.
GetArgvSkipping(command) == SelectSeq(RawArgs(command), LAMBDA arg : arg # Null)

GetArgv(command) ==
    LET raw == RawArgs(command)
        n == CHOOSE k \in 0..ArgvFields : /\ \A j \in 1..k : raw[j] # Null
                                          /\ k < ArgvFields => raw[k + 1] = Null
    IN  SubSeq(raw, 1, n)

\* shlex.join puts an argument with a character of the shell's, such as a space, in quotes.
ShlexJoin(argv) ==
    [i \in DOMAIN argv |-> IF argv[i] \in DOMAIN Quoted THEN Quoted[argv[i]] ELSE argv[i]]

\* _read_cmdline joins the arguments that are not empty with spaces.
WordsOf(arg) ==
    IF arg = Null THEN <<>> ELSE IF arg \in DOMAIN Words THEN Words[arg] ELSE <<arg>>

JoinCmdline(argv) == FlattenSeq([i \in DOMAIN argv |-> WordsOf(argv[i])])

SetDefault(value, nothing, default) == IF value = nothing THEN default ELSE value

\* The texts for what neither the kernel nor /proc told.
Unknown == "unknown (short-lived process)"

\* from_kernel_event: the document of the record alone, before prune_empty.
ProcessEvent(command) ==
    [name |-> command.comm, executable |-> command.filename,
     command_line |-> ShlexJoin(GetArgv(command)), args |-> GetArgv(command)]

\* comm is the name only when there is no executable to correct it by.
CorrectedName(name, executable) == IF executable = Unknown THEN name ELSE BasenameOf(executable)

\* enrich(): what the looks show replaces what the record says, whichever program they are of;
\* the arguments stay the record's.
ProcessDocument(command, look) ==
    LET doc == ProcessEvent(command)
        executable == SetDefault(look.exe, Null, SetDefault(doc.executable, Null, Unknown))
    IN  [name |-> CorrectedName(doc.name, executable),
         executable |-> executable,
         command_line |-> SetDefault(JoinCmdline(look.cmdline), <<>>,
                                     SetDefault(doc.command_line, <<>>, <<Unknown>>)),
         args |-> doc.args]

\* _flatten: the fields the rules name; prune_empty has taken out the empty ones.
Flatten(doc) ==
    LET flat == [f \in {"event.category", "event.type", "process.name", "process.executable",
                        "process.command_line", "process.args"} |->
                    CASE f = "event.category" -> <<<<"process">>>>
                      [] f = "event.type" -> <<<<"start">>>>
                      [] f = "process.name" -> <<<<doc.name>>>>
                      [] f = "process.executable" -> <<<<doc.executable>>>>
                      [] f = "process.command_line" -> <<doc.command_line>>
                      [] f = "process.args" -> [i \in DOMAIN doc.args |-> <<doc.args[i]>>]]
    IN  [f \in {g \in DOMAIN flat : flat[g] \notin {<<>>, <<<<>>>>}} |-> flat[f]]

---------------------------------------------------------------------------
Init ==
    /\ InitSigma
    /\ handled = NotHandled

\* process(): a document dropped as noise never reaches the rules.
ProcessCommand(command, look) ==
    LET doc == ProcessDocument(command, look)
    IN  /\ Ready
        /\ handled' = [command |-> command, look |-> look, noise |-> IsNoise(doc)]
        /\ IF IsNoise(doc) THEN UNCHANGED sigmaVars ELSE Evaluate(Flatten(doc))

ProcessOther(doc) ==
    /\ Ready
    /\ Evaluate(doc)
    /\ UNCHANGED handled

\* process() goes on with the document, or returns.
Return ==
    /\ ~Ready
    /\ detection' = NoDetection
    /\ handled' = NotHandled
    /\ UNCHANGED rules

Next ==
    \/ \E command \in CommandsOf(rules) : \E look \in Looks(command) : ProcessCommand(command, look)
    \/ \E doc \in DocumentsOf(rules) : ProcessOther(doc)
    \/ Return

Spec == Init /\ [][Next]_vars

---------------------------------------------------------------------------
(* Properties.                                                             *)

Handled == handled.command # NoCommand

\* The document of the record alone.
RecordDocument == ProcessDocument(handled.command, NoLook)

Recorded(command, i) == command.argv[i] # Null /\ i \notin command.unread

\* The record has all of the command: its name, which no link hides, and every argument.
RecordComplete(command) ==
    /\ command.filename # Null /\ command.image = command.filename
    /\ Len(command.argv) <= ArgvFields
    /\ \A i \in 1..Len(command.argv) : Recorded(command, i)

\* Each look showed the command itself, or nothing.
OwnLook ==
    /\ handled.look.cmdline \in {<<>>, handled.command.argv}
    /\ handled.look.exe \in {Null, handled.command.image}

\* When a record has all of its command and /proc showed, in neither look or one or both,
\* no program but this one, it was judged as by the record alone: although one command line
\* is quoted and the other is not, and whatever lies in memory after the arguments
\* (ProcEnricher.enrich, get_argv, SystemNoiseFilter.evaluate, SigmaEngine.evaluate).
OwnLooksKeepVerdict ==
    (Handled /\ RecordComplete(handled.command) /\ OwnLook) =>
        /\ handled.noise <=> IsNoise(RecordDocument)
        /\ ~handled.noise =>
              detection.matches = {i \in DOMAIN rules : RuleMatches(rules[i], Flatten(RecordDocument))}

\* The commands that are noise by their very arguments.
Listed == GitQueries \cup RevParseQueries \cup InventoryArgs
            \cup {<<"dircolors", "-b">>, <<"sed", "-n", "s/^cpu\\s//p", "/proc/stat">>}

\* Joining and quoting leave the words that listed commands begin with as they are, and no
\* argument is nothing but spaces.
ASSUME TextsAssumption ==
    /\ \A words \in Listed, i \in {1, 2} : words[i] \notin DOMAIN Words \cup DOMAIN Quoted \cup {Null}
    /\ \A arg \in DOMAIN Words : Words[arg] \in Seq(STRING) \ {<<>>}

\* A document one of whose texts has a token that may make it noise whatever else is in it.
HasToken(doc) ==
    \E token \in {"event_receiver_server.py", ".vscode-server", "vscode", "lesspipe", "cpuUsage.sh"} :
        Mentions(doc, token)

\* The record shows a listed command and, right after it, that the command goes on.
GoesOn(command, words) ==
    /\ IsStrictPrefix(words, command.argv)
    /\ \A i \in 1..(Len(words) + 1) : Recorded(command, i)

\* A command that only begins like a listed one is not dropped for it, although a record
\* holds six arguments and /proc may not answer.  It is dropped when its document has one of
\* the filter's tokens, or /proc showed another program's command line; and when an empty
\* or unreadable argument follows the listed ones, the record cannot show that the
\* command goes on (SystemNoiseFilter.evaluate, get_argv, ProcEnricher.enrich).
NoiseIsWhole ==
    (Handled /\ handled.noise /\ \E words \in Listed : GoesOn(handled.command, words)) =>
        \/ HasToken(ProcessDocument(handled.command, handled.look))
        \/ handled.look.cmdline \notin {<<>>, handled.command.argv}
=============================================================================
