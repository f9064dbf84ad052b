-------------------------- MODULE SystemNoiseFilter --------------------------
(***************************************************************************)
(* SystemNoiseFilter of user_space/filters: the documents of editors,      *)
(* shells and pollers that are dropped before the rules see them.  A       *)
(* document's process is                                                   *)
(*   [name, executable, command_line, args]                                *)
(* where command_line is a text and args a sequence of words.              *)
(***************************************************************************)
EXTENDS TextValues

CONSTANT NoiseSwitches  \* the kinds of noise the configuration drops

ASSUME NoiseAssumption ==
    NoiseSwitches \subseteq {"event_receiver", "vscode", "shell_startup", "development_git",
                             "proc_polling", "process_inventory", "sleep_polling"}

Base(doc) == BasenameOf(doc.executable)

IsProgram(doc, names) == doc.name \in names \/ Base(doc) \in names

\* A token in _join_searchable: it has no space, so it is in one of the words.
Mentions(doc, token) ==
    \E word \in {doc.name, doc.executable} \cup ToSet(doc.command_line) \cup ToSet(doc.args) :
        Holds("contains", token, word)

Executes(doc, words) == doc.args = words \/ doc.command_line = words

IsEventReceiverServerNoise(doc) == Mentions(doc, "event_receiver_server.py")

IsVscodeServerNoise(doc) ==
    Mentions(doc, ".vscode-server") \/ (Base(doc) = "node" /\ Mentions(doc, "vscode"))

IsShellStartupNoise(doc) ==
    IF IsProgram(doc, {"dircolors"})
    THEN Executes(doc, <<"dircolors", "-b">>)
    ELSE Mentions(doc, "lesspipe") /\ IsProgram(doc, {"dash", "sh", "basename", "dirname"})

GitQueries == {<<"git", "config", "--get", "commit.template">>,
               <<"git", "status", "-z", "-uall">>,
               <<"git", "worktree", "list", "--porcelain">>}

RevParseQueries ==
    {<<"git", "rev-parse", query>> : query \in
        {"--show-toplevel", "--git-dir", "--git-common-dir",
         "--show-superproject-working-tree", "--is-inside-work-tree"}}

\* The arguments decide about rev-parse when the record has them.
IsDevelopmentGitNoise(doc) ==
    /\ IsProgram(doc, {"git"})
    /\ IF IsPrefix(<<"git", "rev-parse">>, doc.args)
       THEN doc.args \in RevParseQueries
       ELSE \/ doc.args \in GitQueries
            \/ IsPrefix(<<"git", "for-each-ref">>, doc.args)
            \/ doc.command_line \in GitQueries \cup RevParseQueries
            \/ IsStrictPrefix(<<"git", "for-each-ref">>, doc.command_line)

IsProcPollingNoise(doc) ==
    \/ doc.name = "cpuUsage.sh"
    \/ \E word \in {doc.executable} \cup ToSet(doc.command_line) : Holds("contains", "cpuUsage.sh", word)
    \/ Base(doc) = "sed" /\ doc.args = <<"sed", "-n", "s/^cpu\\s//p", "/proc/stat">>
    \/ Base(doc) = "cat" /\ Len(doc.args) = 2 /\ Holds("re", "^/proc/\\d+/stat$", doc.args[2])

PsArgs == <<"-ax", "-o", "pid=,ppid=,pcpu=,pmem=,command=">>
PsCommand == "/usr/bin/ps -ax -o pid=,ppid=,pcpu=,pmem=,command="
QuotedPsCommand == "'/usr/bin/ps -ax -o pid=,ppid=,pcpu=,pmem=,command='"

InventoryArgs == {<<"which", "ps">>, <<"/bin/sh", "-c", "which ps">>,
                  <<"/usr/bin/ps">> \o PsArgs, <<"/bin/sh", "-c", PsCommand>>}

InventoryCommands == {<<"which", "ps">>, <<"/bin/sh", "-c", "'which ps'">>,
                      <<"/usr/bin/ps">> \o PsArgs, <<"/bin/sh", "-c", QuotedPsCommand>>}

\* The bug of comparing the beginning of the arguments.
IsProcessInventoryPrefix(doc) == \E words \in InventoryArgs : IsPrefix(words, doc.args)

IsProcessInventoryNoise(doc) == doc.args \in InventoryArgs \/ doc.command_line \in InventoryCommands

IsKnownSleepPollingNoise(doc) == IsProgram(doc, {"sleep"}) /\ Executes(doc, <<"sleep", "1">>)

IsNoise(doc) ==
    \/ "event_receiver" \in NoiseSwitches /\ IsEventReceiverServerNoise(doc)
    \/ "vscode" \in NoiseSwitches /\ IsVscodeServerNoise(doc)
    \/ "shell_startup" \in NoiseSwitches /\ IsShellStartupNoise(doc)
    \/ "development_git" \in NoiseSwitches /\ IsDevelopmentGitNoise(doc)
    \/ "proc_polling" \in NoiseSwitches /\ IsProcPollingNoise(doc)
    \/ "process_inventory" \in NoiseSwitches /\ IsProcessInventoryNoise(doc)
    \/ "sleep_polling" \in NoiseSwitches /\ IsKnownSleepPollingNoise(doc)
=============================================================================
