# A TLA+ verification of WhyRun

WhyRun records what a command, or an interactive Bash session, does: it traces
the whole process tree with `ptrace`, turns the stops into events (process,
file, network), attributes the events to the commands the user typed and writes
them to an SQLite *capsule*, which `show` and `diff` read later.

This directory models both sides: the attribution state machine, the `ptrace`
loop among concurrently running tracees, the inference of descriptors, the Bash
session with its marker protocol, the tables of a capsule with the reports over
them, and the naming and publication of capsules. TLC checks the models on small
instances; TLAPS proves the main invariants for every size. `PROJECT.json`
lists, for every definition, the source lines it stands for.

Below, `ES` is `src/src/execution_state.cpp`, `PC` `src/src/ptrace_collector.cpp`,
`BS` `src/src/bash_session.cpp`, `SS` `src/src/sqlite_store.cpp`, `SHOW`
`src/src/show.cpp`, `DIFF` `src/src/diff.cpp` and `MAIN` `src/src/main.cpp`.

## 1. Inventory

| part | state it keeps | operations | what makes it correct |
|---|---|---|---|
| **ExecutionState** (`ES`) | `processes_`, `thread_to_process_`, `active_command_`; per process: parent, executable, cwd, command, `fd_table` | one handler per kind of report: initial process, command marker, exec, creation, exit, exit of a system call | the two copies of the active command agree; every started command ends once; an event names the command that launched its process; times of a command are bracketed by its start; names are those of the files |
| **PtraceCollector loop** (`PC` 243-470) | `live_tids`, `configured_tids`, `threads[tid].in_syscall`, `root_status` | one iteration of `while (!live_tids.empty())`: wait, dispatch, resume | ends when, and only when, all tracees are gone; tells entries from exits; correct in every order `waitpid` can return |
| **TraceeGuard** (`PC` 173-210) | `tids_` (a reference to `live_tids`) | destructor: kill all, wait for all | terminates; leaves no tracee behind |
| **CommandChannelTracker** (`PC` 121-171) | aliases of the descriptor the shell writes markers to | close, dup, fcntl of the shell | a marker write is recognised, no other write is |
| **LinuxTraceeMemory** (`PC`) | none | copy bytes from a tracee | - |
| **Bash hooks, CommandProtocol** (`BS`) | in the shell: prompt flag, counter, active command; in the recorder: the unfinished bytes of a marker | PROMPT_COMMAND writes End and the next Arm, the DEBUG trap writes Start; `consume`, `decode_record`, `finish` | Arm, Start, End alternate, ids grow, every history line is decoded |
| **CapsuleWriter** (`SS` 200-440) | an SQLite transaction and aggregated tables | `emit`, `finish`, rollback in the destructor | one transaction; aggregates equal a recount of the events |
| **naming, publication** (`SS` 455-520, `MAIN` 19-39) | the capsules in the directory, a temporary file | choose a name, open, copy, remove | nothing overwritten, nothing lost |
| **record_command** (`MAIN` 122-184) | the phase it is in | the phases in order, and the unwinding of each | as above |
| **show** (`SHOW`), **diff** (`DIFF`) | none | queries over the tables, for a run or one command; differences of two summaries | the aggregated and the grouped reports agree; the lines of diff lead from one capsule to the other; unfinished capsules are refused |
| command line, event names | none | text | - |

How they interact: `record_command` opens the writer and calls `collect`; the
loop calls the handlers of ExecutionState synchronously, and these call `emit`
of the writer synchronously; there is one thread. All concurrency is outside:
the tracees run by themselves between a resume and the next stop, may be killed
at any moment, and `waitpid(-1)` returns their reports in any order. The Bash
hooks talk to the recorder through writes that the loop intercepts at their
system call. Several recorders share only the directory of the capsules.

What is hard, and hardly reached by a test:
- a child's calls, exec or death, or what it creates, taken before the report of its creation;
- SIGKILL between any two requests of the loop, which answers `ESRCH`, or which
  destroys the report a parent was waiting with;
- `exec` by a thread that is not the leader;
- the shell killed, or interrupted with Ctrl-C, inside one of the hooks;
- processes of a command forked before its Start marker is written;
- background processes that outlive their command;
- threads that share a descriptor table and are reported out of order; descriptors the root
  had before anything was traced;
- a capsule name chosen long before the file is made; crashes in between;
- lines that start no trap, several, or none at all; `exec` and redirections in the
  recorded shell, which move the channel of the markers;
- events that arrive in another order than their time stamps, and reports that are
  computed once from the events and once from tables kept beside them.

`PROJECT.json` lists these as hazards with their lines and properties.

## 2. Plan

Done, in this order:
1. `ExecutionState`, with the proofs of its invariants in `ExecutionStateProofs`;
2. `PtraceCollector`, which extends it by the loop, the kernel and the shell;
   `PtraceCollectorProofs` (no tracee is left) and `PtraceCollectorCommands` (phases,
   commands, and that the loop implements ExecutionState);
3. `DescriptorTracking`, which extends ExecutionState by the kernel's tables, and
   `DescriptorTrackingProofs`;
4. `Recorder` and `RecorderProofs`;
5. `EventStream`, what a sink may rely on, implemented by ExecutionState
   (proved in `ExecutionStateRefinement`);
6. `Capsule`, the writer's tables and the reports of show and diff, over any stream
   that EventStream allows, and `CapsuleProofs`;
7. `CommandMarkers`, what the hooks promise the recorder, and `BashSession`, which
   implements it (proved in `BashSessionProofs`).

Every safety property of the passing runs is proved; liveness stays with TLC (the end of section 6).

How the modules fit together:

| lower level | is shown to implement | so that |
|---|---|---|
| `PtraceCollector` | `ExecutionState` (`CallsAreSpecified`, proved) | what holds of the handlers under any client holds under the loop |
| `ExecutionState` | `EventStream` (`ImplementsEventStream`, proved) | `Capsule`, built on EventStream, need not know the handlers |
| `BashSession` | `CommandMarkers` (`ImplementsMarkers`, proved) | the ids that Arm markers bring are fresh, as `ExecutionState` requires |

## 3. The modules

### ExecutionState
Variables are the members of the class: `known` is the set of keys of
`processes_`, `processes` its values, then `thread_to_process` and
`active_command`. `session` tells a recorded Bash session from a single
command, `thrown` that a handler threw, `emitted` holds the events of the last
call, `now` the last clock reading. `startedAt`, `earliest` and `ended` are
history variables: what the sink learnt about each command.

Each handler is an action with the thread and the time stamp it is called with.
`on_command_marker` is split by marker type (`on_arm_marker`, `on_start_marker`,
`on_end_marker`, `on_bad_marker` which throws, `on_foreign_marker` which returns);
`on_syscall_exit` by its branches (`on_open`, `on_transfer`, `on_close`, `on_dup`,
`on_socket`, `on_connect`, `on_chdir`, `on_fchdir`, `on_other_syscall`, and
`on_dropped_syscall` for an unknown thread). `Next` lets a client call any handler for any
thread at any time - more than the loop does - with one restriction, that the
Arm marker has a fresh id (the hooks count upwards; `CallsAreSpecified` checks
that the loop respects it).

The state of `EventStream` is computed from this one: `introduced` is `known`, `running` the
active command if it has started, `begun` and `closed` the commands of `startedAt` and `ended`.

Data: paths are members of the set `Path`, a name in a call is a member of `Rel` and
`Join` is the lexical join; `Unresolved` is the name given to what is relative to an
unknown directory. Read and write counts, flags and metadata are left out.

### PtraceCollector
Extends ExecutionState; the calls are the actions above. External state: per thread
`life`, the `report` it is stopped with, the system `call` it is in, its process
`group`, and the ghost variables `launch` (the command that launched it), `orphans`,
`dethreaded` (processes whose exec was made by another thread than the leader) and `overtaken`: a
process is overtaken when the loop takes an exec or a creation that the process itself made before
the report of its own creation. The exec makes an entry without a command; the creation is dropped, since its
parent is unknown, and the child is overtaken too. What an overtaken process creates later is
overtaken with it. `shell` is the position of the hooks. State of `collect()`: `pc`,
`live_tids`, `configured_tids`, `threads`, `root_status_seen`, `partial`.

| action | code |
|---|---|
| `HandleExited` | `WIFEXITED`/`WIFSIGNALED`: erase, `on_process_exit` (PC 339-352) |
| `HandleEntry`, `HandleExit`, `HandleMarker` | a system-call stop, entry or exit by the flag (PC 370-424) |
| `HandleBadMarker`, `HandleUndecodable` | the same, when the handler or the decoder throws |
| `HandleCreated`, `HandleExec`, `HandleSignal` | the other stops (PC 426-456), resume included |
| `HandleKilled` | a request of the loop finds the tracee killed: `ESRCH`, exception; at a marker the memory cannot be read, which throws too (PC 402-405) |
| `Finish` | the loop ends (`live_tids` empty or `ECHILD`) and `collect` returns or throws |
| `GuardKill`, `GuardWait`, `GuardEnd` | `~TraceeGuard` |

The configuration of a new tracee (PC 354-368) is part of every action that handles a
stop. `HandleCreated` decides by `TakenForThread` what the child is: the code tests CLONE_THREAD on `args[0]` of
the last stop that it counted as an entry. Those are the flags if that stop was the entry of this clone; they are a pointer for
clone3, and the argument of another call when an exec by a non-leader inverted the phase, and then either answer is possible.
A process is assumed to be made by fork, vfork or a clone that sends SIGCHLD, whose event is never taken for a thread. `MayKill`, `MayThread`, `Clone3`, `MayInterrupt` and
`HistoryMayBeEmpty` switch behaviours of the environment on and off, so that a run
asks one question.

### DescriptorTracking
Each system call first takes effect in the kernel's `table` (`Open`, `Dup`, ...,
`Unseen` for calls no branch interprets) and is reported later, by `Report`, which
calls the handler of ExecutionState. The root starts with any descriptors that whyrun had open (`Inherited`), of which
`add_initial_process` enters none; a child runs from its creation on, so that its calls can be reported, and are then
dropped, before it is known, and its exec may be what makes it known, with an empty `fd_table`.
`suspect` marks the cells that ExecutionState cannot know: those as inherited from whyrun, those last changed by an unseen call, by two
calls of neighbouring threads that raced, by a call made while its thread was unknown or the creation of its process was
still to be reported (`Settled`), the whole table of a process that an exec made known, and what was computed from a suspect cell. A cell is trusted again as soon
as a reported call sets it. The properties say that ExecutionState is right about all cells that are not suspect; so reads and writes of
a redirected standard input or output are missed, as in the code, until the number is opened anew.

### EventStream
The events of one call are `emitted`; the rest is what a sink can learn from them. `Occur` is an event
about a process that an earlier event introduced or that this one introduces (an exec, or a fork for
the child), `Begin` and `End` are CommandStart and CommandEnd, `End` with the exit of the shell
before it when the shell died, `Quiet` a call without an event. Which command an event
names is left open, because a background process names one that has ended and a process forked before the
Start marker names one that has not started.

### Capsule
Extends EventStream. `db` are the tables the writer's connection sees, `disk` what another connection sees; a
table is a function on its primary key, `events` a sequence whose position is the
AUTOINCREMENT id. `emit` has one operator per branch of `CapsuleWriter::Impl::emit`
(`start_command`, `end_command`, `add_file_activity`, ...), written after its SQL: an
upsert takes the old row (`Row`), `INSERT OR IGNORE` keeps it, an `UPDATE` touches no
other. `show_*` are the queries of SHOW for a run (`All`) or one command (the rows of a timeline have the
`Place` that its ORDER BY gives them, and times since the start of the run or of the command), `load_summary`,
`print_activity_diff`, `print_set_diff` and `diff_capsules` those of DIFF. The actions are a call
of the sink (`RecordActivity`, `RecordProcess`, `RecordBegin`, `RecordEnd`), `Finish`
(COMMIT), `Fail` (ROLLBACK, also after a crash) and `Again`, a second recording to compare
with; `saved` is then the summary of the first.

### CommandMarkers and BashSession
`CommandMarkers` has one action per marker and says that ids grow by one and that the recorder never
throws, until the session is `disturbed`: Ctrl-C in a hook, no history, a line longer than 64 KiB, the channel redirected by the user.

`BashSession` has the two hook functions statement by statement (`pc`), since Ctrl-C or a kill can come
between any two; each statement that writes is one step with everything the recorder does about it
(`Write`: the tracker's `receives`, `consume`, `decode_record`, the handler, `observe`), because the shell is stopped meanwhile.
`table` is the kernel's view of the shell's descriptors and `aliases` the tracker's;
a builtin with `>&"$WHYRUN_CONTEXT_FD"` saves descriptor 1, duplicates the channel over it, writes,
and restores it (`Redirected`). A line entered by the user does one of the things in `Does`: nothing, simple
commands, a group (no DEBUG trap at its start), `history -c`, `exec bash`, `exec` with a redirection, a
descriptor change nobody observes, a write of its own to the channel, exit.
A field of a marker is a record of its kind, value and size, with `MaxField` units for 64 KiB.

### Recorder
Per recorder the phase `pc`, the chosen name `base`, the temporary file `temp` and
the result `ok`; shared: the `files` and the clock `second`. A name is a second and a suffix.
`ReadClock`, `Probe` (one `exists` call each), `OpenTemp`, `Collect`, `Commit`,
`CreateFinal` (exclusive creation, which fails when a file is there or none can be made), `CopyContents`, `RemoveTemp`, `Unwind` (the guard's
destructor) are the steps between which other recorders, and a `Crash`, may come.

## 4. The runs

| run | instance | shows |
|---|---|---|
| `es` | 2 processes or threads, 2 commands, 1 descriptor, 1 endpoint, clock 1..2 | commands are bracketed, attributed and in time order, for every order of markers, creations, execs, exits and system calls; the events refine EventStream |
| `capsule` | 2 processes, 2 commands, clock 1..2, 1 file, 1 endpoint, 3 events over one or two recordings | emit accepts every stream; the reports agree with each other; diff is exact; only finished capsules are read |
| `descriptors` | 3 threads or processes, 2 descriptors, inherited or not, 2 directories, 4 calls | the inferred tables are right outside `suspect` |
| `session` | 3 commands, lines at and above the length limit, descriptors 1, 10, 11 | the hooks refine CommandMarkers; the tracker hears exactly the writes to the channel; liveness: a command that ran is closed |
| `pc_races` | shell and 2 threads, 1 command, any order, threads | the loop's own bookkeeping in every interleaving; an event lacks its command only where a creation was overtaken |
| `pc_ends` | shell and 1 child, 2 commands, kills, Ctrl-C, empty history | liveness: `collect()` returns, the guard too; no tracee is left; every call is one ExecutionState is specified for |
| `rec_publish` | 2 recorders, 2 seconds, 2 suffixes, crashes, failing writes | publication is safe and every recorder ends |
| `pc_overtaken`, `pc_staleargs`, `pc_session`, `pc_clone3`, `rec_samesecond` | as small as shows it | the five disagreements below |

Each property has a mutant, a plausible slip in the modelled code (a missing
guard, a reset left out, a swapped copy), under which TLC finds it violated. The mutants are
the operators with a suffix (`on_end_marker_keeps`); no specification uses them.

*Why the bounds are enough.* Two commands show any interference between a command and
the next one; in `pc_races` a third thread shows what two children, or a child and a thread, do to each other; kills are left to `pc_ends`, with two threads, and to the
theorems, which allow them for any number; with two
ticks the fork before the Start and the Start can have different times. The descriptor run has four calls of three
threads: enough for a creation, an open, a close that races with it or a call of a child that is not known yet, and a read after it. Two recorders collide in one second and in a
suffix; `RecorderProofs` has any number of them. In `capsule` three events are enough for two of one row and one before or between them, a command with its start, an event and
its end, or an exec before its fork; a second recording takes one of the three.
In `session` three commands show a line, the one after it and the shell that replaces the first; the
user leaves the highest descriptor alone, so that saving descriptor 1 succeeds.
The theorems cover instances of every size of all but the reports and the liveness properties. `Unresolved = "/"` in
configurations that do not look at names only merges two names nobody can tell apart there.

*Views.* `MCView` of ExecutionState and PtraceCollector drops `emitted`, the events of the last call, which no
invariant of those runs reads and which action properties see in every step. That of Capsule also drops what no
later step and no report reads: the process of an event other than an exec, and after the end of a recording everything but its summary.
Symmetry permutes the threads other than the root in runs without liveness. `CHECK_DEADLOCK FALSE`: recordings end.

*Fairness.* `WF(Collector)`: the loop is a sequential program whose only blocking step
is `waitpid`, which returns when a report is there; `WF(FirstStop(t))`: a newly created
tracee stops by itself. Nothing is assumed of the traced programs - they may run for ever, hence
`CollectReturns` starts when they are gone. `WF(Shell)`: Bash goes on with a hook it has
begun, being stopped only while the loop handles its call; neither the user nor the commands
must do anything, so `LinesAreClosed` starts when a command has finished. `WF(record_command(r))`: a recorder that is not
killed goes on; that the collection inside it returns is a premise (`CollectReturns` given that the program ends).

## 5. What the runs found

- **`pc_overtaken`** - when the exec stop of a child is taken before its creation, the child's entry
  has no command and its exec is emitted without one, against README:139.
- **`pc_staleargs`** - after an exec by a thread that is not the leader, made while the leader was outside a call, the loop takes entries of
  that process for exits and reads no arguments there; the next clone is judged by the first argument of an earlier call, and the thread
  it makes is counted as a process, against README:119.
- **`pc_session`** - Enter on an empty line at the first prompt (empty history) writes a Start without
  history text; `decode_record` throws and the session and its recording are lost, against README:130-131.
- **`pc_clone3`** - `args[0]` of clone3 is a pointer, so `CLONE_THREAD` is read from address bits and
  threads are counted as processes, against README:119.
- **`rec_samesecond`** - two recorders that start in one second choose one name; the one that publishes second throws
  and its guard removes the committed recording, against README:102.

## 6. The proofs

All constants are arbitrary; the assumptions are the named `ASSUME`s of the modules (the
root is a thread, `NoPid` is not, bounds are positive numbers, switches are Boolean; a name below an
absolute directory is absolute, as `directory / spelling` is, and a name below any other is not; the shell's
last descriptor is above the one of the channel, which Bash puts at 10 or next to it and which RLIMIT_NOFILE leaves room for;
NULL is no number, and what a program does to files and endpoints has the five types of event that `on_syscall_exit` emits).

ExecutionState (`ExecutionStateProofs`, `ExecutionStateRefinement`):
- `TypeCorrect`: `TypeOK`, handler by handler.
- `CommandsCorrect`, `CopiesAgree`: `RootCommandSync`, `ThreadIndexSound` and
  `CommandsBracketed`. Bracketing is not inductive alone: `CommandsInv` adds that no active command means
  an empty record (else a later Arm could inherit a start) and that an armed command is
  not yet started for the sink (else its Start would be its second one).
- `StartIsEarliest`: `CommandStartIsEarliest` when the clock is not set back.
  `TimelineInv` adds that whoever holds a command was forked in an event of it, so that its further
  events are not the first, and that `first_process_ns` is the earliest event of
  the armed command, the value the Start will be stamped with.
- `BackgroundAttribution`: the action property, from the definitions of the handlers; `PromptAttribution`:
  `PromptIsUnattributed`, for which the two copies of the active command have to agree.
- `Implements`: `ImplementsEventStream`, whether or not the clock is set back. Each handler
  maps to a quiet call, one plain event, the begin or the end of a command; the death of the shell maps to an end
  after an exit. A Start is the begin of a command that has not begun by `CommandsInv`, and not younger than the
  events before it by `TimelineInv`; that the shell's exit ends the command that runs needs `RootCommandSync`.

The loop (`PtraceCollectorProofs`, `PtraceCollectorCommands`), for any number of threads, any order of reports and any kill:
- `TraceesAreGone`: `NoTraceeLeft`, from `TrackedInv`. A tracee outside `live_tids` has
  never been resumed, and a live tracee is about to report its creation, or nobody can; and
  a thread implies that its leader is counted. The last part is needed for an exec that moves a thread to the leader's id.
- `CollectorTypeCorrect`, `CallsSpecified`, `PhaseCorrect`, `CommandsAreRight`: `CTypeOK`, `CallsAreSpecified`, `PhaseAgrees` and
  `RightCommandOrNone`, from `CollectorInv`. Its half about the kernel (`KernelInv`) says that a thread exists
  only with its process and only the leader reports an exec (`FamilyInv`), that an announced child was launched by the command
  of its creator, the shell not having moved on (`ChildInv`, `LaunchInv`), that the flag is set exactly between the reports of an entry
  and an exit (`PhaseInv`), and that only the shell writes markers (`MarkerInv`). Its half about ExecutionState (`StateInv`) is
  `CommandsInv` with: the shell's id is never ahead of its hooks, so that an Arm is fresh (`ShellInv`, `FreshInv`),
  and the index leads from a thread to one of the same process (`IndexInv`). `CallsSpecified` is a
  refinement: with it every theorem about `Spec` holds of the loop.
- `MarkersNeverThrow`: `NoThrow` when Ctrl-C does not hit the hooks (`MayInterrupt` is false). `SyncInv` says that the shell's position
  in its hooks, the marker under way included, is the recorder's active command. With Ctrl-C the statement is false: the hook may be left
  before its End.
- `ThreadsAreShared`: `ThreadsShareAnEntry` without clone3. `CloneInv` says that a thread which reports the creation of a thread has the
  arguments of that very clone, unless an exec of another thread replaced it; the property makes the same exception, and `pc_clone3` and
  `pc_staleargs` show that neither condition can be dropped.
- `AttributionIsExact`: `ExactUnlessOvertaken` without Ctrl-C; clone3 does not matter to it, because a thread that is taken for a process
  gets the command of its creator. `ExactInv` says that the entry of a process that was not overtaken has the command that launched it,
  which is preserved because the report of a creation that comes first copies it.

Descriptors (`DescriptorTrackingProofs`), for any number of threads, children, descriptors, names and calls:
- `MistakesStayWhereMade` and `EventsAreRight`: `TablesAgree` and the action property `EventsNameTheFile`; `DescriptorTypes`: `DTypeOK`.
  Agreement alone is not inductive: it says nothing of a cell while its change is unreported. `DInv` adds what a report will do. `SureInv`:
  a call that is still sure was made by a thread that is known and whose entry no report is going to replace, shares no cell with a neighbour's
  unreported change, its report - if it came now - would have the outcome the call had (`Foreseen`), and it was the last to change its cells;
  the cells of any other call are suspect already. So a report either makes a cell right or concerns a suspect one, and cannot spoil what a
  neighbour's sure call is going to read. `CopyInv` is about the kernel alone: until its creation is reported, the table of a child is that of its
  parent but for the suspect cells, among which is all that either of them has changed and the parent's threads have not reported;
  `NewsInv` says that every child is announced once, and that the entry of one which an exec made known before is suspect as a whole.
  `GroupInv` says that the thread index, where it has an entry, leads a report to the kernel's process. The proof has one lemma about any call that takes effect
  (`EffectKeeps`), one about any that is reported (`CallReportKeeps`; `ReportFollows` and `DroppedFollows` show that the handlers are as it assumes),
  and one each for the report of a creation (`CreateReportKeeps`) and for a process that its exec makes known (`DiscoveryKeeps`).

The session (`BashSessionProofs`), for any number of commands and descriptors:
- `TheChannelIsHeard`: `HeardIffWritten`, from `ChannelInv`. The tracker's aliases are the descriptors of the channel as far as the shell
  changed them where the tracker sees it; saving descriptor 1 succeeds because the last descriptor is free, and undoing a
  redirection restores both sides (a lemma of its own).
- `SessionTypes`: `BTypeOK`, from an invariant over the hooks' variables at each statement (`HooksInv`) and the fields the decoder holds
  (`FieldsInv`). What Ctrl-C leaves of half a Start marker is completed by the next End marker, and what remains of that makes the next marker
  fail: this is why the number of held fields is bounded.
- `CommandsAreNamed`: `StartNamesTheLine`, and `SessionImplementsMarkers`: `ImplementsMarkers`, from `CalmInv`, which says what the recorder has
  at each statement of the hooks while nothing has disturbed the session; with it each marker that the hooks write is the one that is due
  (`ArmDue`, `StartDue`, `EndDue`), and every other step maps to none. The mapping takes the recorder's `Stage` from its active command.

Capsule (`CapsuleProofs`), for any number of processes, commands, files, endpoints and events. `EmitEffect` says once, branch by branch of `emit`,
what an event does to each table; the invariants use only that, and what `EventStream` promises of the events.
- `CapsuleTypes`, `EmitSucceeds`, `IncompleteIsRunning`, `OnlyFinishedAccepted`, `ProcessCounts` and the action property `EndedIsFinal`: `WTypeOK`,
  `EmitNeverThrows`, `IncompleteMeansRunning`, `OnlyFinishedRunsAreShown`, `ProcessesAreCounted` and `EndedCommandsAreFinal`, from `WInv`. That an INSERT
  of a command never meets its own key needs the rows of `commands` to be the begun ones (`CommandsOK`), and the stream to begin no command twice;
  the two ways to count processes agree because every exec that was logged left a row (`ProcessesOK`). The second event of an
  ending is treated from the tables in between.
- `LastErrnoCorrect`: `LastErrnoAgrees` when the clock is not set back. `NetworkOK` adds that connects arrive in the order
  of their time stamps, so that the last to arrive is also the one the query's ORDER BY picks (`LatestIsLast`). With a clock that is set back it is false:
  the table keeps the last to arrive, the query takes the latest stamp.
- `DiffCorrect`: the action property `DiffLeadsThere`. A line shows two of the counts; they determine the others because attempts are successes and failures,
  in the aggregated table by an invariant of its rows (`NetworkRow`), in the query by counting a partition (`LocalConnects`).
- `ReportsAddUpCorrect`: `ReportsAddUp`. The invariant (`FilesOK`, `ConnectsOK`) says that each number of an aggregated row is the sum, over
  the events of its resource, of what one event counts (`One`, `Size`, `Success`, `Failure`); emit adds one event and that event's weight
  (`OverallStep`). A grouped report is the same sum over the rows of one command, and the rows of the commands and of no command are a partition of
  all rows; the errors are another one, by their key. The lemmas on sums (`SumOfUnion`, `SumOfParts`, `SumOfOnes`, ...) are proved
  without an induction rule: a smallest finite set that is a counterexample, which `WFMin` gives, loses one element.
- `TimelineCorrect`: `TimelineOpensWithStart` when the clock is not set back. `TimelineInv` says that a command with a row has its start among the
  events, with the time of the row, and no event before it; and that the events of a command without a row are not before the `earliest` time the
  stream has counted, which is what `EventStream` compares a start with. The order of the query is strict and total (`BeforeOrders`), so that
  the places of n rows are 1 to n, one each (`PlacesAreTaken`), and nothing is before the first (`FirstPlace`).

Recorder (`RecorderProofs`), for any number of recorders:
- `CapsulesAreOwn` and `CrashIsSafe`, from `PublishInv`: which file is at the chosen name in each phase,
  and that only a recorder whose publication threw unwinds with a committed recording; where no write fails, its name is taken by
  another one. The guard then removes that recording: a crash is safe, a failed creation or copy is not.
- `RecorderTypes`, `TemporariesAreGone`, `NothingIsOverwritten`: `RTypeOK`, `NoTemporaryLeft` and the action property `NeverOverwrites`.

Each inductive invariant was model-checked too (the sums of `FilesOK` and `ConnectsOK`, whose weights are functions on all
rows, only as `ReportsAddUp`). One attempt found a property that was too strong: `PhaseAgrees` is
about the loop, and is not true of the flags that are left behind when an exception ends it; it now says so.
Another found `decode_record` written as a CASE with overlapping arms, of which TLC takes the first and the logic any; it
is an IF now, in the order of the code. A third concerns the timeline, which was a sorted sequence: sorting by choosing among
permutations says nothing to the prover. It now places every row by the number of those before it, which is what ORDER BY means.

*Only model-checked*: the liveness properties `CollectReturns`, `RecorderEnds` and `LinesAreClosed` (temporal
reasoning with fairness is beyond the prover). `LastErrnoAgrees` and `TimelineOpensWithStart` are proved, as they are checked, for a
clock that is not set back; for one that is they are false.

## 7. Not modelled

- Contents of tracee memory: a name is a value fixed at the call; another thread overwriting
  it before the exit stop is a listed hazard without a property.
- The descriptors a tracee shares with another process other than by threads (`clone` with CLONE_FILES and no CLONE_THREAD), and processes
  made by a clone that sends no SIGCHLD.
- An error of the last `remove` of the temporary file (SS 516), which the code ignores: the file then stays beside the capsule.
- Errors of `ptrace` other than `ESRCH`, and the failures of `fork`, `waitpid` and `PTRACE_SETOPTIONS` before the loop starts.
- SQLite itself: a transaction is atomic and a key unique. Columns that no report reads (`tid`, `ppid`,
  `metadata_json`, `term_signal`, directories), and capsules of the schema versions 1 and 2, which no writer here produces.
- The timeline of a whole run is modelled with that of a command, but has no property: events of several commands are interleaved
  in it as their stamps say.
- The text of `show`, `diff`, help and errors, and the names of errno values: no state.
- Bash beyond what the hooks use. A user who unsets PROMPT_COMMAND, sets HISTCONTROL or replaces the hooks ends
  the attribution by his own choice. The second limit, 65 KiB for one write, is not reached by a field within the first one.
- The clock in `es` and `capsule` is not set back. With a clock that is, CommandStart need not be the earliest event and the
  timeline need not open with it (a listed hazard without a property); `CommandsCorrect` is proved for any clock.
- Reuse of pids: the entry of a dead process would be found for a new one; a pid is used once in the models.
- The swallowed SIGSTOP: a signal is a stop that changes nothing.
- `forget_thread` has no caller.
