# Linux process context agent: verification project

The agent watches the processes of one Linux host. eBPF programs write kernel
events to a ring buffer; a Python process turns each into an ECS document,
matches it against Sigma rules, groups and correlates the alerts, saves every
document in a SQLite table and ships the table's rows over HTTP to an ingest
server. This directory models that program in TLA+, checks it with TLC and
proves its central invariants with TLAPS.

`PROJECT.json` lists the components, the runs, the mutants that show that each
property can fail, the source lines each definition stands for, the findings,
the hazards and the theorems.

## 1. Inventory

Events flow one way; each arrow names what crosses it.

    threads of the kernel --(tracepoints)--> sensors.c --(ring buffer)--> RingBufferHandler
      --(KernelEvent)--> AgentSelfFilter -> EcsNormalizer -> ProcEnricher -> SystemNoiseFilter
      -> SigmaEngine -> AlertDeduplicator -> AlertCorrelator --(document)--> HttpSQLiteDispatcher.emit
      --(row)--> SQLiteEventBuffer <--(rows)--> worker thread --(HTTP)--> event_receiver_server --> file

Everything from RingBufferHandler to `emit` runs in the main thread, one event
at a time. The worker thread shares only the SQLite buffer, and its lock, with
it. Kernel threads share maps with each other; the server has a thread per request.

| Component | State | Operations | What is hard | What makes it correct |
|---|---|---|---|---|
| eBPF sensors (`ebpf/sensors.c`) | `pending_accept`, one scratch event per CPU, ring buffer | enter execve, connect, accept; exit accept | threads of one process in accept together; accepts under way when the probes attach; return paths; scratch memory used again; map and ring full | a record tells of its own call; the map holds the accepts in progress; a due call is lost only for want of room |
| RingBufferHandler, EcsNormalizer | none | `handle_event`, `from_kernel_event` | none of their own | a document shows the fields its kind of record fills |
| AgentSelfFilter | `agent_related_pids` | `evaluate` | the set only grows while pids are used again; a child that is never seen hides its own children; parents exit, and children are adopted, while records wait | what is dropped belongs to a descendant of the agent, or has a pid one has held; what earlier records show to descend from the agent is dropped |
| ProcEnricher | hash cache keyed by a file's stat | `enrich` | `/proc` is read after the fact: the process may be gone, changed or another one, and may change between two looks | a process that stayed what its event says is described truly; a failed look takes nothing away; the cache has one race |
| SystemNoiseFilter | none | `evaluate` | patterns over arguments cut off at six, and over two differently quoted command lines | a command that `/proc` showed, or did not, is judged as by its record; only whole commands are noise |
| SigmaEngine | list of rules | `load_rules`, `evaluate` | Python's short circuits inside a parser | a rule matches only when its condition holds, and then if it is a conjunction |
| AlertDeduplicator | `_groups`, in dict order | `evaluate` | a sliding window, expiry seen late, a limit on groups | groups are the keys alerted last; a burst is counted once |
| AlertCorrelator | bucket of observations for each scope | `process` | two scopes for one observation, caps, an exception between cleanup and memory | correlations are sound, and complete but for the caps |
| SQLiteEventBuffer | table `event_buffer`, AUTOINCREMENT sequence, file size | `insert`, `fetch_ready_batch`, `delete_many`, `mark_failed`, `enforce_retention` | three transactions in `insert`; stale ids | the newest `max_rows` rows are kept; an id always means the same row |
| HttpSQLiteDispatcher | worker thread, stop event, connection | `start`, `emit`, `stop`, `_worker_loop` | the lock is free while a request travels; lost answers, timeouts, crashes, restarts, stop racing a request | at-least-once delivery; nothing lost silently; `stop` ends |
| event_receiver_server | output file | `do_POST` | a failure between two appended lines; late requests | it answers 200 only for a batch it stored in whole |
| main, config_loader | none after start-up | `main` | order of start, poll, stop | covered with the dispatcher |

Sigma rules, scenarios and tests are data and drivers, and are not modelled.

## 2. Modules

| Module | Models | Composes |
|---|---|---|
| `EcsEvents` | the set of events that may be emitted | |
| `SQLiteEventBuffer` | the table, retention and the statements of `insert`, one action each | |
| `BufferClient` | any client of the buffer, with ids as stale as it likes | `SQLiteEventBuffer` |
| `EventReceiver` | requests, the server's handler, broken and late requests | |
| `HttpShipper` | both threads, stop, crash, restart | buffer and receiver |
| `Outbox` | **abstract**: an at-least-once outbox | |
| `EcsAlerts` | the alerts that may be raised | |
| `Subsequences` | what a loop over a list, or a dict in insertion order, keeps of it, without recursion | |
| `AlertDeduplicator` | groups and the `dedup` node | |
| `AlertCorrelator` | buckets, rules and the `correlation` node | |
| `Sensors` | the eBPF programs, the threads that run them, the reader of the ring | |
| `KernelEvents` | pids, programs and the exec and connect records | |
| `Processes` | the host: the process tree, and the ring buffer its records wait in | |
| `AgentSelfFilter` | `evaluate` and the pids it learns | |
| `ProcEnricher` | what each look at `/proc` does to the document; the hash cache | |
| `PipelineFront` | `process` up to the enriched document, beside the processes | the last three |
| `TextValues` | texts as sequences of words | |
| `SystemNoiseFilter` | the seven kinds of noise | |
| `SigmaEngine` | selections, condition parser, `evaluate`, and the meaning of a condition as the reference | |
| `DetectionStage` | `process` from the enriched document to the Sigma verdict; `get_argv` and the command lines | the last two |
| `EventPipeline` | `process` from the Sigma verdict to `emit` | deduplicator and correlator |
| `MCBufferClient`, `MCHttpShipper`, `MCEventPipeline`, `MCSensors`, `MCPipelineFront`, `MCDetectionStage` | instances for TLC | |
| `SQLiteEventBufferProofs`, `BufferClientProofs`, `HttpShipperProofs`, `SensorsProofs`, `PipelineFrontProofs`, `DetectionStageProofs`, `AlertDeduplicatorProofs`, `EventPipelineProofs` | lemmas and theorems | |

Names follow the code: `event_buffer`, `sqlite_sequence`, `insert_pc` (where
`insert` stands between its transactions), `pending_accept`, `groups`. The
worker's `worker` variable is the point of `_worker_loop` it has reached: `top`,
`send`, `post` (inside the request), `settle` (answer known), `wait`, `done`.
Operators whose comment says *Mutation of* or *The bug* are plausible bugs,
used only by `PROJECT.json`'s mutants.

### How the models abstract

*Buffer and shipper.* Time is relative: `wait` is `next_attempt_at - now` in
ticks. The database file's size is counted in rows and is its high-water mark,
because SQLite keeps freed pages in the file; the write-ahead log and the page
granularity are left out. An `INSERT` that fails changes nothing, so it is a
stutter. The JSON decoding error of the worker cannot occur: `json.dumps` wrote
the payload. Faults (a network failure, a crash or SIGTERM, a database error,
a KeyboardInterrupt inside `insert`, a join that times out) may happen at every
step and are counted in `faults`, bounded by `MaxFaults`. A request may be
handled after the client gave up (`late`), which covers refused connections
too. The server rejects with a 4xx only what it did not store. `FloatMaxExp`
is 1023 in CPython, where `2 ** 1024 * 1.0` raises `OverflowError`.

*Alerting.* Ages and expiries are in ticks, clamped just past the window, which
is sound because nothing distinguishes older ones. A tick is the resolution of
the documents' `@timestamp`; the monotonic and wall clocks advance together. One
host. Alerts always have a rule id, as the Sigma engine's do. `Unencodable`
alerts have a name with surrogates (from `os.readlink`), whose hash raises in
the correlator between cleanup and `_remember`. A disabled deduplicator or
correlator is left out.

*Processes and the front of the pipeline.* A program is one value that stands
for its path, base name, arguments and content, so two programs differ in all
of them; a script counts as its interpreter. Records are written when a system
call is entered: `ExecEnter` first, `ExecReturn` later or not at all
successfully. Executing the program that runs already is left out, because
nothing tells before from after. A record's file name and arguments are
readable together or not at all. A process that exits is a zombie until it is
reaped; its children go to `Reaper`, which started the agent and stands for
init; the agent and `Reaper` do not exit. The filter and the normalizer look at
the record alone, so taking it is one step with them (`DropOwn`, `Normalize`);
`enrich` is four steps (`ReadCmdline`, `ReadExe`, `StatExe`, `HashExe`), because
the process may change between any two looks. `refused` stands for a
PermissionError or another OSError. Whether a connection is to an endpoint of
the telemetry is left open. Once `enrich` is done the document alone matters,
so the processes wait there. `descends`, `known`, `suspect` and `alive` of a
record, `fresh` and `steady` of the document at hand, `descendants`, `suspect`,
`seen` and `tainted` are history: what was so when the record was written, or
has been since, to which the filter's and the enricher's work is compared.

*Sensors.* A program is atomic: the kernel runs it on a CPU without preemption.
The kernel writes the peer's address to the caller's buffer and runs the exit
program in one step; each thread accepts into a buffer of its own. A read of
user memory may fail at any time (`readable`). `accepting` may be anything at
the start, because probes attach to a running system; a return always runs its
probe. The fields every event copies from the current task, and ports, are left
out; `pid` is kept. `tracked`, `calls` and an event's `call` are history: what
really happened, to which the records are compared.

*Detection.* A text is the sequence of its words, and a word is never taken
apart: what `in`, `startswith`, `endswith`, `re.search` and `Path.name` say of it is
given as a relation (`Related`, `Basename`), after case folding. A command is its
file name, the file that name leads to (`image`), its `argv`, what the memory after
`argv` points to (`READ_ARG` reads six pointers whatever the length of `argv`), the
arguments the kernel cannot read, and `comm`. Arguments may be empty. `GetArgv` is
what the record keeps of them; `ProcessEvent` is the document of the record, and
`ProcessDocument` what `enrich` makes of it. The record is written when `execve` is
entered and `/proc` is read later, so each of the two looks (`Looks`) may find
nothing, the command itself, or another program of the pid: the one before, when the
execve has not taken effect or failed, or a later one (`OtherCmdlines`,
`OtherImages`). The two looks are independent, because the process may change between
them. `Words` gives the words an argument with spaces has in a command line read from
`/proc`, `Quoted` what `shlex.quote` makes of an argument with a character of the
shell's. A rule carries its condition as a
tree; `Tokens` prints it as its author would, with parentheses where needed, and
the parser is translated statement by statement over those tokens. Its methods
call each other, and their loops go round: a `Call` is a method, the `result` a loop
has so far and the next token, and the recursive function `Outcomes` gives what
every call comes to. `Meaning` evaluates the tree and is the reference. `Conditions`
are the expressions of an instance with their operands, and `Depth` how deep each
nests, so that recursions on expressions are functions too. Conditions are well
formed; malformed ones are not enumerated. The reading of YAML is left out: `RuleSets` are the
sequences of rules it may give.

## 3. Runs

| Run | Instance | Question and answer |
|---|---|---|
| `BufferRows` | 4 events, 2 rows, stale ids | Does retention keep the newest rows, the one inserted among them, whatever a client deletes and postpones? Yes. |
| `BufferSizeDrained` | 5 events, size limit 2 | *Violation*: past `max_db_size`, with the table drained, `insert` deletes its own row. |
| `ShipperSafety` | 3 events, 2 rows, batches of 2, 3 faults | Is the output path an at-least-once outbox (`ImplementsOutbox`), with `NoSilentLoss` and duplicates only after faults? Yes. |
| `ShipperTight` | 1 row, size limit 1, batches of 2, 2 faults | Does the inductive invariant of the proofs hold when retention removes rows in flight at nearly every step? Yes. |
| `ShipperLiveness` | 3 events, 2 rows, 2 faults, a backoff that overflows at the second failed attempt, fairness | Is every saved event received or evicted in the end, unless the agent was stopped, although the worker's error path is all that postpones such a row? Does `stop` end? Yes. |
| `DedupWindow` | 4 alerts, 2 groups, window 3, mode drop | Are the groups a least-recently-seen cache over a sliding window, and bursts counted once? Yes. |
| `Correlation` | 4 alerts, 3 rules, window 2, 2 per scope, mode mark | Are correlations sound, complete but for the caps, and not lost to deduplication while the group is young? Yes. |
| `CorrelationOrder` | the same | *Violation*: "A followed by B" is attached when B came first. |
| `SensorEvents` | 3 threads in 2 processes, 3 calls, ring and map one slot too small | Do records tell of their own calls, and is none lost that could be reported? Yes. |
| `FrontOfPipeline` | 2 free pids, 2 programs, 2 forks, 3 records, ring of 2 | Does the self filter drop what it can know to be the agent's, and nothing but that and reused pids? Do documents tell the truth about a process that stayed the same, and keep the kernel's values otherwise? Is the hash cache wrong only after its one race? Yes. |
| `SigmaConditions` | every condition of two nested connectives, 5 documents, pairs of rules; four rules in the manner of `rules/process` with the commands of pollers, editors and shells, each with up to two more arguments (an empty one and a token of the filter's among them), an unreadable one or memory after them; each look at `/proc` finding nothing, the command, or one of three other programs | Do the parser's short circuits raise false alerts, or harm conjunctions? Is a command that `/proc` showed judged otherwise than by its record, or a command noise that only begins like one? No. |
| `SigmaShortCircuit` | the same | *Violation*: well-formed conditions are refused. |

**Bounds.** Two rows and batches of two are the least with which retention can
remove part of a batch in flight; three events let a row be inserted, evicted
and overtaken; three faults allow a crash, a lost answer and a late request in
one behaviour. `ShipperLiveness` uses two faults, and `FloatMaxExp = 0` there, so that one failed
request is an ordinary retry and the next is past the backoff's overflow
(`BackoffOverflows`); more faults only delay: with none left, what remains is
the fair system from every state faults can lead to. `FloatMaxExp = 1` puts the
overflow within reach of the other runs. Two groups for more
keys than that make eviction a choice; windows of two or three ticks let
groups be fresh, ageing and expired at once. Four system-call kinds interact
only through a thread's entry, the scratch event and the ring, so that three
threads (two of a process), one shared CPU (the worst case for stale scratch
memory) and three observed calls after arbitrary accepts in progress show each
interaction; the proofs remove these bounds. Two free pids and two forks let a
parent exit before its child and let one pid belong to two processes while the
records of the first still wait, with three records in a ring of two that
overflows; `PipelineFrontProofs` removes these bounds too. Two nested connectives reach every
pair of parser functions calling one another, and every skipped operand.

**Deadlock** is checked in the shipper's and pipeline's runs; the buffer's,
sensors' and front's instances stop when their events or calls are used up, and say so
with `CHECK_DEADLOCK FALSE`.

**Symmetry** is used for events, threads of a process, addresses, free pids and programs, in runs
without liveness properties; nothing orders or names them.

**Fairness** (`HttpShipper!Fairness`). The threads run (weak fairness of the
worker's steps, of retention and of the end of `stop`); time passes; the server
handles what reaches it; a connection broken in the middle is noticed, by the
request's timeout (`request_timeout_seconds`); systemd starts a crashed agent
again (`Restart=on-failure`). Nothing is assumed about emitting, stopping or
starting by the operator, and no fault is ever obliged to happen or not to,
beyond their bounded number.

## 4. Findings

* **An insert may delete itself** (`sqlite_event_buffer.py:203`). The file never
  shrinks, since nothing runs VACUUM; once it is over `max_db_size` every
  `insert` deletes at least one row, with a drained table the one it wrote.
* **"Followed by" is not checked** (`correlator.py:201`). Rules test for a subset
  of rule ids seen in the window, in any order.
* **Conditions with `or`, or with a conjunction under `not`, are refused when they
  hold** (`sigma_engine.py:347`, `:356`). `result or self._parse_and()` does not parse
  the right operand once the left one is true; its tokens stay, `parse` raises
  "unexpected tokens at end", `_rule_matches` answers False. The rules in
  `rules/` only use `and`, for which `ConjunctionsExact` shows that the error
  and the false verdict coincide. `MatchesAreTrue` shows that no alert is ever
  raised wrongly: the parser then stands before an operand it did not read, where
  nothing it could go on with may come.

Behaviours worth knowing that contradict nothing written. One rejected
event postpones its whole batch by an hour. Rules are asked about whatever program
`/proc` shows (`proc_enricher.py:90`, `:121`, `:288`): the record of an execution is
written when its `execve` is entered, and while the execve has not taken effect, or
once the process has executed something else, another program's file name, command
line and name replace the record's; so an execution of a file under `/tmp` may raise
no alert, or be dropped as an editor's git query. The model has these looks;
`OwnLooksKeepVerdict` says what holds as long as neither look shows another program. A burst longer than the correlation
window stops correlating, because its duplicates are ignored and the alert that
opened its group has been forgotten (`BurstRepresented` states how far it holds). The pid of an exited
child of the agent stays in `agent_related_pids`, so the events of whatever
process gets that pid next are dropped, and so are its children's
(`SelfFilterSound` states that nothing else is). The configured telemetry
endpoints decide nothing: the agent's pid is always in `agent_related_pids`, so
the branch that looks at them is only reached by events it does not drop
(`EndpointsDecideNothing`). `_set_status` replaces the node in which
`_correct_process_name_from_executable` has just kept `original_process_name`, so
no document shows it (`SetStatus`). A command executed through a link gets
another `process.name` when `/proc` answers in time than when it does not (`awk`
for `mawk`); a command of more than six arguments gets another command line, and so
does one with an empty or unreadable argument, because `get_argv` stops at the first
empty field. `RecordComplete` leaves out just these from `OwnLooksKeepVerdict`. For
the same reason `which ps "" x` is noise like `which ps`. A command that goes on
after a listed one is noise too when any of its texts has a token such as
`.vscode-server`, and when `/proc` showed a listed command of another program in its
place: `NoiseIsWhole` names these cases. Once `2 ** attempts` is
too large for a float, `mark_failed` is never reached: the exception takes the worker to its
own error path, which waits and tries again (`BackoffOverflows`), so `attempts` stays
as it is and the rows are still delivered once the server answers.

## 5. Proofs

Each theorem holds for all values of the constants under the named assumptions
of the modules (`SQLiteEventBuffer`, `BufferClient`, `EventReceiver`, `HttpShipper`, `Sensors`,
`KernelEvents`, `Processes`, `ProcEnricher`, `EcsAlerts`, `AlertDeduplicator`, `AlertCorrelator`,
`EventPipeline`, `SigmaEngine`, `DetectionStage`), which say no more than that limits are naturals,
batches are not empty, the functions and sets have their types, a constant for "nothing" is not
something, and conditions are expressions: an operand is a condition that nests less deeply, and a
selection is not named like a keyword. Of its texts `DetectionStage` assumes that the first two
words of every command the filter lists are changed neither by joining nor by quoting, and that
no argument consists of spaces alone (`TextsAssumption`).
No set is assumed finite: events, alerts, threads and processes may be infinitely many.

*Buffer* (`SQLiteEventBufferProofs`, `BufferClientProofs`). `BufferInv`: ids are
unique, are at most `sqlite_sequence`, and one payload has one row. From it,
that an insertion is new, that `max_rows` is exceeded only while an `insert` is
under way, and that retention never removes a row and keeps an older one.

*Shipper* (`HttpShipperProofs`). `NoSilentLoss` alone is not inductive: the
worker deletes rows by ids it fetched before the request. `IInv` adds why that
is safe: `WireInv` (the request in flight carries the batch; "stored in whole"
means received), `BatchInv` (batches exist from fetch to settlement, with ids given
out before), `BatchFresh` (an id of the batch, if still in the table, names the row
fetched: AUTOINCREMENT), `OnlySavedTravels` and `LifeCycle`. TLC checks `IInv` in
`ShipperTight`; the proof has one lemma or step for each action. From it follow
`NoSilentLoss`, `DeliveredMeansStored`, `NoUseAfterClose`, and
`Refinement`: `Outbox` with `accepted <- saved`, `pending <- Payloads(event_buffer)`,
`received <- Received`, `discarded <- evicted`, each step an `Accept`, `Receive`,
`Acknowledge`, `Discard` or a stutter. `RowLimit` needs one more strengthening,
`LimitInv`, which says how many rows each point of `insert` may leave.

*Sensors* (`SensorsProofs`). `SensorsTypeOK`, `EventsAreTrue`, `PendingExact` and
`DueCallsReported` are inductive together: a returning thread is reported
truthfully because the entry it takes is its own (`PendingExact`), and the
record it fills was cleared. `OutputKeepsRecords` and `SilenceKeepsRecords` say what
any program does to the ring and the history; each program has a lemma on top.

*Front* (`PipelineFrontProofs`). Neither `SelfFilterSound` nor `SelfFilterComplete` is
inductive: records are judged long after they were written, by a filter that
has learnt meanwhile. `InOrder` is the argument: the ring is a queue, so what the
filter will know when it comes to a record (`Foreseen`: what it knows now, and
what the records before will teach it) was true of the host before that
record was written. `InOrderAppend` shows it when a record is written,
`InOrderTail` when one is taken and its pid learnt or not, `InOrderKept` when the
processes do anything else. `Tree` supplies what a new record needs: the parent
of a running process runs, and who has a suspect parent is suspect, which is
why adoption by `Reaper` does no harm. `Handling` says what each stage of `enrich`
leaves in the document and what `fresh` and `steady` still promise about the
process; `HashCacheSound` carries the cache through it. TLC checks the six
properties; each is a theorem here, and `EndpointsDecideNothing` besides.

`ExactlyOnceWithoutFaults` and `InOrderWithoutFaults` rest on `FaultFreeInv`, which
speaks of behaviours that have had no fault: nothing was postponed, abandoned or
half stored (`NothingWentWrong`), the batch is an initial segment of the table
(`BatchIsOldest`), and what the server has of the table is just the batch, which
it did not have before this request (`StoredIsBatch`). So a row the server has
can only be followed by a deletion, and its predecessors are in the same batch.

*Subsequences* (`AlertDeduplicatorProofs`, first section). `_cleanup_expired`, `_enforce_max_groups` and
the correlator's `_cleanup` keep some items of a list. `Subsequence` says so by
ranks and a cardinality, and `SubsequenceProperties` proves what one expects: the
items kept are those at the indices kept, each once and in the old order.
`InjectionIsOnto` and `FirstExists` (a finite set with a strict total order has a
first element) do the work of induction for these proofs.

*Deduplicator* (`AlertDeduplicatorProofs`). `GroupsAreTheLatest` is not inductive:
`_enforce_max_groups` evicts by `expires_at`, the property speaks of which keys
alerted last. `DedupInv` ties them together: a live group's `expires` is the rest
of its key's window; the live groups are an initial segment of the keys by
recency, so that the group with the least `expires_at` is that of the key seen
longest ago, ties included; only finitely many keys are recent; and a recent key
without a group has been overtaken by `max_groups` others, and stays so until it
alerts again. `EnforceProperties` shows that one group at most is over the limit,
and that the one removed is the first in the order of (`expires_at`, place in the
dict); `OpenPreserves`, `JoinPreserves` and `ElapsePreserves` are the three ways the
history moves on. From the invariant follow `GroupsAreTheLatest`, `GroupLimit`,
`CountsOneBurst` and the action property `EveryAlertHasItsGroup`.

*Correlator and pipeline* (`EventPipelineProofs`). What `CorrelationComplete` needs
is why an observation of the window may be missing from a bucket. `BucketInv`
says it: either the bucket holds it, or `max_events_per_scope` other observations
of the scope are no older (`Overtaking`), which stays true as the history grows
(`OvertakingGrows`) and ages (`ElapseBucket`: observations age together, and one that
has left the window need not be in the bucket). `RememberBucket` shows the
cap drops an observation only when the bucket is full of such others
(`FullBucketOvertakes`); `CleanupBucket` that `_cleanup` drops only what has left
the window. `HighestSeverityProperties` gives `max()` over the complete rules its
maximum. `PipelineInvariant` joins both with the document given to `emit`, and one
lemma for each action of `EventPipeline` preserves it; it holds in both modes, with
duplicates ignored or not, and with alerts on which the correlator raises.

*Detection* (`DetectionStageProofs`). The parser and the meaning of a condition are
recursive, over tokens and over expressions, and are proved about for every
condition, however deep. The prover has no induction with an operator as a
parameter, so the first section makes do with sets and functions: `LeastNumber`
(from `WFMin`), `RecursionExists` and `RecursionUnique` say that a recursion that asks
only about what is less, by a measure into the naturals, has one solution; then the
CHOOSE of a recursive function picks it, and the function unfolds. The measure is
`Depth` for expressions (`TokensUnfold`, `MeaningUnfolds`, `ConjunctionUnfolds`) and the
number of tokens left for calls: `OutcomesConsistent` is the parser's termination, for
any tokens. `ParserMeans` is not inductive over expressions: Python's short circuits
leave operands unread, and the parser is then in the middle of the condition. `Reads` is
what is: wherever the tokens of an expression stand, followed by something an operand may be
followed by, the method that meets them comes to the meaning at their end, or is `Stuck`
before the first token of an operand, where no loop goes on (`ContinueStuck`), no ")" is
found (`GroupReads`) and no end (`parse()` raises). `AndReads` and `OrReads` are the two places
where operands are skipped. `ConjunctionsParse` adds that a conjunction that holds is never
stuck (`HoldsToEnd`). From these follow `MatchesAreTrue` and `ConjunctionsExact` for any rules,
selections and documents.

`ArgvIsOwn` says that a record's arguments are the command's first ones, that they end early only
at one that is empty or unreadable, and that no memory beyond `argv` shows, whatever lies there.
`PlainOwnLooksKeepVerdict` proves `OwnLooksKeepVerdict` for commands none of whose arguments is
empty, has a space or is changed by `shlex.quote` (`IsPlain`): the document is the same whichever
looks succeed (`FlattenOnes`). `NoiseAlwaysWhole` proves `NoiseIsWhole` for every command.
When the record shows a listed command and one readable argument more, its arguments outgrow the
listed ones (`Outgrows`: longer, with the same first two words; `ArgsOutgrow`, from `ArgvIsOwn`), and so
do both command lines, because an argument that is not empty gives at least one word
(`LinesOutgrow`; `FlattenJoins` and `JoinOutgrows` for the line read from `/proc`). No listed command
outgrows another (`ExtendedWords`), so only a token is left to make the document noise.
`HandledInv`, which says what document the command at hand was judged by, carries both theorems.

*Only model-checked*: liveness and fairness (beyond the prover). `OwnLooksKeepVerdict` for commands
with quoted or split arguments is false of some tables of texts (an argument that quoting turns into
something a rule looks for has two verdicts); it is a statement about the texts that rules and
filter name, which the instance enumerates. `SigmaShortCircuit` and the other violations are runs,
not theorems.

## 6. Not modelled

The conversions of `EcsNormalizer` for addresses, times and user names are
stateless. Arguments of blanks alone, which `strip` would take for nothing, and executables whose
name begins with "unknown", which the enricher takes for its own placeholder, are left out.
`StdoutDispatcher` prints. Start-up and configuration build the
objects once. The clean-up of text (`clean_c_string`, truncated names) is left
out: the models' texts are printable and short. An exception inside a filter
would leave `process` and the ring's callback; none of the modelled inputs
raises one. A power failure (which with `synchronous=NORMAL` may undo the last
transactions), clocks set back, and accepts of two threads into one buffer are
outside the models. `process` is modelled in three stages that are not composed
into one module: what passes between them is one document, and no stage reads
another's state.

## 7. Plan

The order is by how much depends on a component; all are done.

1. Output path: buffer, receiver, shipper, `Outbox`; refinement and `IInv` proved.
2. Alerting: deduplicator, correlator, their composition in the pipeline.
3. Sensors: threads, map, scratch event, ring; invariants proved.
4. Sigma conditions against their meaning.
5. Proofs for the buffer, shipper and sensors.
6. `AgentSelfFilter` behind a process tree with fork, exec, exit and reused pids.
7. `ProcEnricher` and its hash cache, beside the same processes; both proved.
8. The rest of `EventPipeline.process`: noise filter, fields of the rules, command lines.
9. The deduplicator against what it abstractly is, a cache of the keys alerted
   last (`GroupsAreTheLatest`), and the correlator's soundness, completeness and
   order, proved together with the pipeline.
10. `ExactlyOnceWithoutFaults` and `InOrderWithoutFaults` proved.
11. The parser against the meaning of conditions of any depth (`DetectionMatchesAreTrue`,
   `DetectionConjunctionsExact`); what a record keeps of a command, what the verdict owes to
   `/proc`, and that only whole commands are noise, proved.
