--------------------------- MODULE MCDetectionStage ---------------------------
(***************************************************************************)
(* Every condition of at most two nested connectives over two selections   *)
(* and a pattern that names both, and pairs of the simpler ones; then the  *)
(* rules of rules/process with the commands of pollers, editors and shells *)
(* and their likes.                                                        *)
(***************************************************************************)
EXTENDS DetectionStage, TLC

Names == {"a", "b"}
AllPatterns == [p \in {"s*"} |-> Names]

Primaries == {<<"sel", n>> : n \in Names \cup {"unknown"}} \cup {<<"1", "s*">>, <<"all", "s*">>}

Over(exprs) ==
    exprs \cup {<<"not", e>> : e \in exprs} \cup {<<op, e, f>> : op \in {"and", "or"}, e \in exprs, f \in exprs}

Nested == Over(Over({<<"sel", "a">>, <<"sel", "b">>, <<"1", "s*">>}))

Test(operator, expected) == [operator |-> operator, all |-> FALSE, expected |-> expected]

\* Selection a asks for two values at once, b is a list of two mappings.
Rule(id, e) ==
    [rule_id |-> id, expr |-> e,
     detection |-> "a" :> {"field" :> [operator |-> "contains", all |-> TRUE, expected |-> {"x", "y"}]}
                @@ "b" :> {"other" :> Test("equals", {"z"}), "field" :> Test("endswith", {"z"})}]

OneRule == {<<Rule("r1", e)>> : e \in Nested \cup Over(Primaries)}
TwoRules == {<<Rule("r1", e), Rule("r2", f)>> : e \in Over(Primaries), f \in Over({<<"sel", "a">>})}

Started == "event.category" :> Test("equals", {"process"}) @@ "event.type" :> Test("equals", {"start"})

ShippedRules ==
    <<[rule_id |-> "execution_from_writable_tmp", expr |-> <<"sel", "tmp">>,
       detection |-> "tmp" :> {Started @@ "process.executable" :> Test("startswith", {"/tmp/", "/var/tmp/"})}],
      [rule_id |-> "shell_inline_command", expr |-> <<"and", <<"sel", "shell">>, <<"sel", "inline">>>>,
       detection |-> "shell" :> {Started @@ "process.name" :> Test("equals", {"sh", "bash", "dash"})}
                  @@ "inline" :> {"process.args" :> Test("equals", {"-c"})}],
      [rule_id |-> "curl_or_wget_external_url", expr |-> <<"and", <<"sel", "process">>, <<"sel", "url">>>>,
       detection |-> "process" :> {Started @@ "process.name" :> Test("equals", {"curl", "wget"})}
                  @@ "url" :> {"process.command_line" :> Test("contains", {"http://", "https://"})}],
      [rule_id |-> "sensitive_file_read", expr |-> <<"and", <<"sel", "reader">>, <<"sel", "target">>>>,
       detection |-> "reader" :> {Started @@ "process.name" :> Test("equals", {"cat", "sed", "awk"})}
                  @@ "target" :> {"process.command_line" :> Test("contains", {"/etc/passwd", "/etc/shadow"})}]>>

AllRuleSets == OneRule \cup TwoRules \cup {ShippedRules}

AllConditions == Nested \cup Over(Primaries) \cup {ShippedRules[i].expr : i \in DOMAIN ShippedRules}
                    \cup {<<"sel", n>> : n \in {"shell", "inline", "process", "url", "reader", "target"}}

RECURSIVE Nesting(_)
Nesting(e) ==
    CASE e[1] \in {"sel", "1", "all"} -> 0
      [] e[1] = "not" -> Nesting(e[2]) + 1
      [] OTHER -> Nesting(e[2]) + Nesting(e[3]) + 1

AllDepth == [e \in AllConditions |-> Nesting(e)]

\* Which of the selections a and b hold: neither, either or both.
AbstractDocuments ==
    {<<>>, "field" :> <<<<"x">>, <<"y", "w">>>>, "other" :> <<<<"w">>, <<"z">>>>,
     "field" :> <<<<"x", "y", "z">>>>, "field" :> <<<<"x">>>>}

MCDocumentsOf(ruleSet) == IF ruleSet = ShippedRules THEN {} ELSE AbstractDocuments

---------------------------------------------------------------------------
AllBasename ==
    "/usr/bin/git" :> "git" @@ "/usr/bin/which" :> "which" @@ "/usr/bin/ps" :> "ps"
        @@ "/usr/bin/sed" :> "sed" @@ "/usr/bin/cat" :> "cat" @@ "/usr/bin/awk" :> "awk"
        @@ "/usr/bin/mawk" :> "mawk" @@ "/usr/bin/dash" :> "dash" @@ "/bin/sh" :> "sh"
        @@ "/usr/bin/dircolors" :> "dircolors" @@ "/usr/bin/curl" :> "curl"
        @@ "/usr/bin/node" :> "node" @@ "/usr/bin/python3" :> "python3" @@ "/tmp/tool" :> "tool"
        @@ "/opt/cpuUsage.sh" :> "cpuUsage.sh" @@ "/usr/bin/sleep" :> "sleep"
        @@ "/usr/bin/bash" :> "bash"

\* The file a name leads to; curl is also executed by a name the kernel cannot read.
ImageOf(f) ==
    CASE f = "/usr/bin/awk" -> "/usr/bin/mawk" [] f = "/bin/sh" -> "/usr/bin/dash"
      [] f = Null -> "/usr/bin/curl" [] OTHER -> f

AllRelated ==
    [contains |-> {<<"http://", "http://host/x">>, <<"http://", "http://host/?y">>,
                   <<"http://", "'http://host/?y'">>, <<"/etc/passwd", "/etc/passwd-">>,
                   <<"event_receiver_server.py", "tools/event_receiver_server.py">>,
                   <<".vscode-server", "/root/.vscode-server/x">>, <<"vscode", "/root/.vscode-server/x">>,
                   <<"vscode", "/opt/vscode/main.js">>, <<"cpuUsage.sh", "/opt/cpuUsage.sh">>,
                   <<"lesspipe", "lesspipe /x">>, <<"lesspipe", "'lesspipe /x'">>},
     startswith |-> {<<"/tmp/", "/tmp/tool">>}, endswith |-> {},
     re |-> {<<"^/proc/\\d+/stat$", "/proc/17/stat">>}]

AllWords == "which ps" :> <<"which", "ps">> @@ "lesspipe /x" :> <<"lesspipe", "/x">>
    @@ PsCommand :> <<"/usr/bin/ps">> \o PsArgs
AllQuoted == "which ps" :> "'which ps'" @@ "lesspipe /x" :> "'lesspipe /x'"
    @@ PsCommand :> QuotedPsCommand @@ "s/^cpu\\s//p" :> "'s/^cpu\\s//p'"
    @@ "http://host/?y" :> "'http://host/?y'"

Executed ==
    {<<"/usr/bin/git", argv>> : argv \in GitQueries \cup RevParseQueries
        \cup {<<"git", "for-each-ref">>, <<"git", "push">>, <<"/usr/bin/git", "status", "-z", "-uall">>}}
    \cup {<<"/usr/bin/which", <<"which", "ps">>>>, <<"/usr/bin/ps", <<"/usr/bin/ps">> \o PsArgs>>,
          <<"/bin/sh", <<"/bin/sh", "-c", "which ps">>>>, <<"/usr/bin/dash", <<"/bin/sh", "-c", "which ps">>>>,
          <<"/usr/bin/dash", <<"/bin/sh", "-c", PsCommand>>>>, <<"/usr/bin/dash", <<"sh", "-c", "lesspipe /x">>>>,
          <<"/usr/bin/sed", <<"sed", "-n", "s/^cpu\\s//p", "/proc/stat">>>>,
          <<"/usr/bin/cat", <<"cat", "/proc/17/stat">>>>, <<"/usr/bin/cat", <<"cat", "/etc/passwd">>>>,
          <<"/usr/bin/awk", <<"awk", "1", "/etc/passwd">>>>, <<"/usr/bin/dircolors", <<"dircolors", "-b">>>>,
          <<"/usr/bin/curl", <<"curl", "-s", "-o", "x", "-L", "http://host/x">>>>,
          <<"/usr/bin/curl", <<"curl", "http://host/?y">>>>, <<Null, <<"curl", "http://host/x">>>>,
          <<"/usr/bin/node", <<"node", "/opt/vscode/main.js">>>>, <<"/tmp/tool", <<"/root/.vscode-server/x">>>>,
          <<"/usr/bin/python3", <<"python3", "tools/event_receiver_server.py">>>>,
          <<"/tmp/tool", <<"tool">>>>, <<"/opt/cpuUsage.sh", <<"cpuUsage.sh", "1">>>>,
          <<"/usr/bin/sleep", <<"sleep", "1">>>>}

\* Each as it is, and with up to two more arguments, an empty one and a token of the filter's
\* among them; and with one that cannot be read, or with something in memory after them.
AllCommands ==
    {[filename |-> e[1], image |-> ImageOf(e[1]), argv |-> e[2] \o more,
      beyond |-> rest[1], unread |-> rest[2], comm |-> "bash"] :
        e \in Executed,
        rest \in {<<<<>>, {}>>, <<<<>>, {3}>>, <<<<"-c", "http://host/x">>, {}>>, <<<<Null, "ps">>, {}>>},
        more \in {<<>>, <<"-v">>, <<"-c", "which ps">>, <<"-v", "http://host/x">>,
                  <<Null, "http://host/x">>, <<".vscode-server">>}}

\* The shell that executed the command, one of its pollers, and what it may execute next.
AllCmdlines == {<<"bash">>, <<"git", "status", "-z", "-uall">>, <<"curl", "http://host/x">>}
AllImages == {"/usr/bin/bash", "/usr/bin/git", "/usr/bin/curl"}

MCCommandsOf(ruleSet) == IF ruleSet = ShippedRules THEN AllCommands ELSE {}

=============================================================================
