------------------------------ MODULE Capsule ------------------------------
(***************************************************************************)
(* A capsule: the tables that CapsuleWriter (src/sqlite_store.cpp) fills   *)
(* from the events it is given, and what whyrun show (src/show.cpp) and    *)
(* whyrun diff (src/diff.cpp) read from them.  The events are any that     *)
(* EventStream allows, so what is checked here holds of what               *)
(* ExecutionState emits.                                                   *)
(*                                                                         *)
(* SQLite is external: a transaction is atomic, AUTOINCREMENT counts up.   *)
(* The rows of a table are a function on its primary key.                  *)
(***************************************************************************)
EXTENDS EventStream, FiniteSets, SequencesExt

CONSTANTS
    Activity,   \* what a program may do: [type, resource, result]
    Text,       \* what a user types
    Exe, NoExe, \* names of programs; the empty one
    Null,       \* NULL
    MaxRows     \* bound: events in a capsule and the one recorded before it

VARIABLES
    db,         \* the tables, as the writer's connection sees them
    disk,       \* the tables, as other connections see them
    phase,      \* open, finished, failed, or rejected: emit threw
    session,    \* mode of the run
    saved,      \* load_summary of the capsule recorded before
    left        \* events that may still come

capsule == <<db, disk, phase, session, saved, left>>
wvars == <<svars, capsule>>

ASSUME CapsuleAssumption ==
    /\ Activity \subseteq [type : {"file_open", "file_read", "file_write",
                                   "net_connect", "ipc_connect"},
                           resource : Thing, result : Int]
    /\ NoExe \notin Exe /\ Exe \cup {NoExe} \subseteq Thing
    /\ Pid \subseteq Thing /\ Text \subseteq Thing /\ Root \in Pid
    /\ MaxRows \in Nat /\ MaxCommand \in Nat \ {0} /\ MaxClock \in Nat \ {0}
    /\ ClockMayStepBack \in BOOLEAN
    /\ Null \notin Int

-----------------------------------------------------------------------------
(* CapsuleWriter *)

\* CREATE TABLE ..., each in a transaction of its own
Schema == [schema_version |-> Null, runs |-> Null, events |-> << >>,
           commands |-> << >>, processes |-> << >>,
           file_activity |-> << >>, network_activity |-> << >>]

\* BEGIN IMMEDIATE and the rows that the constructor inserts
Begun == [Schema EXCEPT !.schema_version = 3, !.runs = [exit_code |-> Null]]

\* Mutant: the constructor's rows are not part of the transaction.
Committed_early == Begun

\* What the constructor leaves to other connections
Committed == Schema

\* Mutant: INSERT OR REPLACE.
Row_replaced(table, key, new) == new

\* The row with this key, or the one that an upsert starts from
Row(table, key, new) == IF key \in DOMAIN table THEN table[key] ELSE new
\* INSERT of a row, or UPDATE of the row with this key
Put(table, key, row) == [k \in DOMAIN table \cup {key} |->
                           IF k = key THEN row ELSE table[k]]

\* syscall_errno
kMaxErrno == 4095
errno_value(result) == IF result < 0 /\ result >= -kMaxErrno THEN -result ELSE 0

\* Mutant: the result of a failed call counts.
bytes_signed(result) == result

\* std::max(0, event.result)
bytes(result) == IF result > 0 THEN result ELSE 0

\* The row of the events table; AUTOINCREMENT makes id its position.
add_event(d, e, result) ==
    [d EXCEPT !.events = Append(@,
        [timestamp_ns |-> e.timestamp_ns, pid |-> e.pid, type |-> e.type,
         resource |-> e.resource, result |-> result,
         errno_value |-> errno_value(result), command_id |-> e.command_id])]

start_command(d, e) ==
    [d EXCEPT !.commands = Put(@, e.command_id,
        [sequence |-> e.command_id, command |-> e.resource,
         start_ns |-> e.timestamp_ns, end_ns |-> Null, exit_code |-> Null])]

\* Mutants: an exit code of zero is taken for none; the WHERE is missing.
end_command_zero(d, e, result) ==
    [d EXCEPT !.commands[e.command_id].end_ns = e.timestamp_ns,
              !.commands[e.command_id].exit_code = IF result = 0 THEN Null ELSE result]
end_command_all(d, e, result) ==
    [d EXCEPT !.commands = [c \in DOMAIN @ |->
        [@[c] EXCEPT !.end_ns = e.timestamp_ns, !.exit_code = result]]]

end_command(d, e, result) ==
    [d EXCEPT !.commands = [c \in DOMAIN @ |->
        IF c = e.command_id
        THEN [@[c] EXCEPT !.end_ns = e.timestamp_ns, !.exit_code = result] ELSE @[c]]]

add_file_activity(d, e, result) ==
    LET read == e.type = "file_read"
        old == Row(d.file_activity, e.resource,
                   [read_calls |-> 0, write_calls |-> 0, bytes_read |-> 0, bytes_written |-> 0])
        new == IF read
               THEN [old EXCEPT !.read_calls = @ + 1, !.bytes_read = @ + bytes(result)]
               ELSE [old EXCEPT !.write_calls = @ + 1, !.bytes_written = @ + bytes(result)]
    IN  [d EXCEPT !.file_activity = Put(@, e.resource, new)]

\* Mutant: a connect that succeeds leaves last_errno alone.
LastErrno_sticky(old, error) == IF error = 0 THEN old ELSE error

LastErrno(old, error) == error

add_network_activity(d, e, result) ==
    LET error == errno_value(result)
        old == Row(d.network_activity, e.resource,
                   [connect_count |-> 0, success_count |-> 0, failure_count |-> 0,
                    last_errno |-> 0])
    IN  [d EXCEPT !.network_activity = Put(@, e.resource,
          [connect_count |-> old.connect_count + 1,
           success_count |-> old.success_count + (IF error = 0 THEN 1 ELSE 0),
           failure_count |-> old.failure_count + (IF error = 0 THEN 0 ELSE 1),
           last_errno |-> LastErrno(old.last_errno, error)])]

\* ON CONFLICT(pid) DO UPDATE SET executable
exec_process(d, e) ==
    LET row == [Row(d.processes, e.pid, [start_ns |-> e.timestamp_ns, end_ns |-> Null,
                                         executable |-> NoExe])
                EXCEPT !.executable = e.resource]
    IN  [d EXCEPT !.processes = Put(@, e.pid, row)]

\* Mutant: the row is that of the parent, which the event is about.
fork_process_parent(d, e, executable) ==
    [d EXCEPT !.processes = Put(@, e.pid, Row(@, e.pid,
        [executable |-> executable, start_ns |-> e.timestamp_ns, end_ns |-> Null]))]

\* INSERT OR IGNORE; e.resource is the child_pid of the metadata
fork_process(d, e, executable) ==
    [d EXCEPT !.processes = Put(@, e.resource, Row(@, e.resource,
        [executable |-> executable, start_ns |-> e.timestamp_ns, end_ns |-> Null]))]

exit_process(d, e) ==
    [d EXCEPT !.processes = [p \in DOMAIN @ |->
        IF p = e.pid THEN [@[p] EXCEPT !.end_ns = e.timestamp_ns] ELSE @[p]]]

\* Mutant: the fork of a process is inserted like its exec.
Rejects_fork(d, e) ==
    \/ e.type = "command_start" /\ e.command_id \in DOMAIN d.commands
    \/ e.type = "process_fork" /\ e.resource \in DOMAIN d.processes

\* A primary key is there already: emit throws.
Rejects(d, e) == e.type = "command_start" /\ e.command_id \in DOMAIN d.commands

\* emit: the event and what is derived from it.  extra is what an event says beyond
\* EventStream: its result, and in a fork the name of the parent's program.
emit(d, e, extra) ==
    LET logged == add_event(d, e, extra.result)
    IN  CASE e.type = "command_start" -> start_command(logged, e)
          [] e.type = "command_end" -> end_command(logged, e, extra.result)
          [] e.type \in {"file_read", "file_write"} ->
               add_file_activity(logged, e, extra.result)
          [] e.type = "net_connect" -> add_network_activity(logged, e, extra.result)
          [] e.type = "process_exec" -> exec_process(logged, e)
          [] e.type = "process_fork" -> fork_process(logged, e, extra.executable)
          [] e.type = "process_exit" -> exit_process(logged, e)
          [] OTHER -> logged

-----------------------------------------------------------------------------
(* whyrun show.  A report is a function from what is listed to its numbers. *)

\* The CommandFilter: All without --command.
All == CommandId \cup {NoCommand}
Rows(d, filter, types) ==
    {i \in DOMAIN d.events : /\ d.events[i].type \in types
                             /\ d.events[i].command_id \in filter}
Resources(d, ids) == {d.events[i].resource : i \in ids}

\* SELECT resource, ... GROUP BY resource
GroupFiles(d, filter, type) ==
    LET ids == Rows(d, filter, {type})
        of(p) == {i \in ids : d.events[i].resource = p}
    IN  [p \in Resources(d, ids) |->
           [calls |-> Cardinality(of(p)),
            bytes |-> SumFunction([i \in of(p) |-> bytes(d.events[i].result)])]]

show_files(d, filter, type) ==
    LET a == d.file_activity
        calls(p) == IF type = "file_read" THEN a[p].read_calls ELSE a[p].write_calls
        size(p) == IF type = "file_read" THEN a[p].bytes_read ELSE a[p].bytes_written
    IN  IF filter # All THEN GroupFiles(d, filter, type)
        ELSE [p \in {q \in DOMAIN a : calls(q) > 0} |-> [calls |-> calls(p), bytes |-> size(p)]]

\* ORDER BY timestamp_ns DESC, id DESC LIMIT 1
Latest(d, ids) ==
    CHOOSE i \in ids : \A j \in ids :
      \/ d.events[j].timestamp_ns < d.events[i].timestamp_ns
      \/ d.events[j].timestamp_ns = d.events[i].timestamp_ns /\ j <= i

GroupConnects(d, filter, type) ==
    LET ids == Rows(d, filter, {type})
        of(p) == {i \in ids : d.events[i].resource = p}
    IN  [p \in Resources(d, ids) |->
           [attempts |-> Cardinality(of(p)),
            succeeded |-> Cardinality({i \in of(p) : d.events[i].errno_value = 0}),
            failed |-> Cardinality({i \in of(p) : d.events[i].errno_value > 0}),
            last |-> d.events[Latest(d, of(p))].errno_value]]

show_network(d, filter) ==
    IF filter # All THEN GroupConnects(d, filter, "net_connect")
    ELSE [p \in DOMAIN d.network_activity |->
            LET row == d.network_activity[p]
            IN  [attempts |-> row.connect_count, succeeded |-> row.success_count,
                 failed |-> row.failure_count, last |-> row.last_errno]]

show_local_ipc(d, filter) ==
    [p \in DOMAIN GroupConnects(d, filter, "ipc_connect") |->
       [GroupConnects(d, filter, "ipc_connect")[p] EXCEPT !.last = 0]]

show_errors(d, filter) ==
    LET ids == {i \in Rows(d, filter, EventType) : d.events[i].errno_value > 0}
        key(i) == [resource |-> d.events[i].resource, type |-> d.events[i].type,
                   errno_value |-> d.events[i].errno_value]
    IN  [k \in {key(i) : i \in ids} |-> Cardinality({i \in ids : key(i) = k})]

\* "(incomplete)" or the exit code of every command
show_commands(d) == [c \in DOMAIN d.commands |-> d.commands[c].exit_code]

show_processes(d, filter) ==
    IF filter = All THEN Cardinality(DOMAIN d.processes)
    ELSE Cardinality({d.events[i].pid : i \in Rows(d, filter, {"process_exec"})})

\* Mutant: the CASE of the ORDER BY is missing.
Before_id(d, i, j) ==
    \/ d.events[i].timestamp_ns < d.events[j].timestamp_ns
    \/ d.events[i].timestamp_ns = d.events[j].timestamp_ns /\ i < j

\* ORDER BY timestamp_ns, CASE type WHEN 'command_start' THEN 0 ELSE 1 END, id
Before(d, i, j) ==
    LET late(k) == IF d.events[k].type = "command_start" THEN 0 ELSE 1
    IN  \/ d.events[i].timestamp_ns < d.events[j].timestamp_ns
        \/ /\ d.events[i].timestamp_ns = d.events[j].timestamp_ns
           /\ late(i) < late(j) \/ (late(i) = late(j) /\ i < j)

\* The number of the row among those selected
Place(d, ids, i) == Cardinality({j \in ids : Before(d, j, i)}) + 1

\* The events with their time since the start of the command, or of the run
show_timeline(d, start_ns, filter) ==
    LET ids == Rows(d, filter, EventType)
        row(n) == d.events[CHOOSE i \in ids : Place(d, ids, i) = n]
    IN  [n \in 1 .. Cardinality(ids) |->
           [type |-> row(n).type, offset |-> row(n).timestamp_ns - start_ns]]

\* The capsule has a version; a row in runs; a row for the command.
validate_schema(d) == d.schema_version # Null
show_run_header(d) == d.runs # Null
show_command_header(d, c) == c \in DOMAIN d.commands

\* show_capsule and load_summary go on without an exception.
Accepts(d, filter) ==
    /\ validate_schema(d)
    /\ IF filter = All THEN show_run_header(d)
       ELSE \A c \in filter : show_command_header(d, c)

-----------------------------------------------------------------------------
(* whyrun diff *)

load_summary(d, isSession) ==
    [exit_code |-> d.runs.exit_code,
     session |-> isSession,
     commands |-> IF isSession THEN {d.commands[c].command : c \in DOMAIN d.commands} ELSE {},
     reads |-> show_files(d, All, "file_read"),
     writes |-> show_files(d, All, "file_write"),
     network |-> [p \in DOMAIN d.network_activity |->
                    [show_network(d, All)[p] EXCEPT !.last = 0]],
     local_ipc |-> show_local_ipc(d, All),
     executables |-> {d.processes[p].executable : p \in DOMAIN d.processes} \ {NoExe}]

\* Mutant: only the number of calls is compared.
Differs_calls(a, b) ==
    IF "calls" \in DOMAIN a THEN a.calls # b.calls ELSE a.attempts # b.attempts

\* Counts::operator==
Differs(a, b) == a # b

\* What a "~" line says: two numbers before and after
Line(counts) == IF "calls" \in DOMAIN counts THEN <<counts.calls, counts.bytes>>
                ELSE <<counts.attempts, counts.failed>>

print_activity_diff(before, after) ==
    [removed |-> DOMAIN before \ DOMAIN after,
     added |-> DOMAIN after \ DOMAIN before,
     changed |-> [p \in {q \in DOMAIN before \cap DOMAIN after : Differs(before[q], after[q])}
                    |-> Line(after[p])]]

print_set_diff(before, after) == [removed |-> before \ after, added |-> after \ before]

diff_capsules(a, b) ==
    [exit |-> IF a.exit_code = b.exit_code THEN << >> ELSE <<a.exit_code, b.exit_code>>,
     commands |-> IF a.session \/ b.session THEN print_set_diff(a.commands, b.commands)
                  ELSE print_set_diff({}, {}),
     reads |-> print_activity_diff(a.reads, b.reads),
     writes |-> print_activity_diff(a.writes, b.writes),
     network |-> print_activity_diff(a.network, b.network),
     local_ipc |-> print_activity_diff(a.local_ipc, b.local_ipc),
     executables |-> print_set_diff(a.executables, b.executables)]

-----------------------------------------------------------------------------
(* The recordings: one capsule, and then another to compare it with. *)

NoExtra == [result |-> 0, executable |-> NoExe]
Starts(ts) == {<<[type |-> "command_start", timestamp_ns |-> ts, pid |-> Root,
                  command_id |-> 1, resource |-> t]>> : t \in Text}

\* The tables when the collector makes its first call
Opened(events) == IF events = << >> THEN Begun ELSE emit(Begun, events[1], NoExtra)

WInit ==
    /\ now = 1
    /\ emitted \in {<< >>} \cup Starts(now)
    /\ SInit
    /\ session = (emitted = << >>)
    /\ db = Opened(emitted)
    /\ disk = Committed
    /\ phase = "open"
    /\ saved = Null
    /\ left = MaxRows

\* The sink takes the events of one call.  The second of two is a CommandEnd.
Record(extra) ==
    LET n == Len(emitted')
        first == emit(db, emitted'[1], extra)
    IN  /\ phase = "open"
        /\ n <= left
        /\ left' = left - n
        /\ IF Rejects(db, emitted'[1])
           THEN phase' = "rejected" /\ db' = disk
           ELSE /\ db' = IF n = 1 THEN first ELSE emit(first, emitted'[2], NoExtra)
                /\ UNCHANGED phase
        /\ UNCHANGED <<disk, session, saved>>

About(type, ts, pid, c, resource) ==
    [type |-> type, timestamp_ns |-> ts, pid |-> pid, command_id |-> c,
     resource |-> resource]

RecordActivity(ts) ==
    \E a \in Activity, pid \in introduced, c \in All :
      /\ emitted' = <<About(a.type, ts, pid, c, a.resource)>>
      /\ Occur(ts)
      /\ Record([result |-> a.result, executable |-> NoExe])

RecordProcess(ts) ==
    \E c \in All, pid \in Pid, executable \in Exe \cup {NoExe} :
      /\ \/ executable # NoExe
            /\ emitted' = <<About("process_exec", ts, pid, c, executable)>>
         \/ \E child \in Pid \ {Root, pid} :
              emitted' = <<About("process_fork", ts, pid, c, child)>>
         \/ c = running
            /\ emitted' = <<About("process_exit", ts, pid, c, executable)>>
      /\ Occur(ts)
      /\ Record([result |-> 0, executable |-> executable])

RecordBegin(ts) ==
    \E c \in CommandId, t \in Text, at \in Time :
      /\ emitted' = <<About("command_start", at, Root, c, t)>>
      /\ Begin(ts)
      /\ Record(NoExtra)

RecordEnd(ts) ==
    \E exit \in BOOLEAN :
      LET end == About("command_end", ts, Root, running, NoExe)
      IN  /\ emitted' = IF exit
                        THEN <<About("process_exit", ts, Root, running, NoExe), end>>
                        ELSE <<end>>
          /\ End(ts)
          /\ Record(NoExtra)

\* finish: the exit of the run, then COMMIT
Finish(exit_code) ==
    /\ phase = "open"
    /\ db' = [db EXCEPT !.runs.exit_code = exit_code]
    /\ disk' = db'
    /\ phase' = "finished"
    /\ UNCHANGED <<svars, session, saved, left>>

\* The recorder fails or dies: ROLLBACK, by the destructor or at the next open.
Fail ==
    /\ phase = "open"
    /\ db' = disk
    /\ phase' = "failed"
    /\ UNCHANGED <<svars, disk, session, saved, left>>

\* Another recording, of a session; it counts as an event in the bound.
Again ==
    /\ phase = "finished" /\ saved = Null /\ left > 0
    /\ left' = left - 1
    /\ saved' = load_summary(disk, session)
    /\ phase' = "open"
    /\ emitted' = << >>
    /\ session' = TRUE
    /\ db' = Opened(emitted')
    /\ disk' = Committed
    /\ introduced' = {Root} /\ running' = NoCommand /\ begun' = {} /\ closed' = {}
    /\ earliest' = [c \in CommandId |-> NoTime]
    /\ UNCHANGED now

WNext ==
    \/ \E ts \in Time : \/ RecordActivity(ts)
                        \/ RecordProcess(ts)
                        \/ RecordBegin(ts)
                        \/ RecordEnd(ts)
    \/ \E exit_code \in {0, 1} : Finish(exit_code)
    \/ Fail
    \/ Again

WSpec == WInit /\ [][WNext]_wvars

-----------------------------------------------------------------------------
(* Properties *)

\* The tables and the phase of the writer are well formed.
WTypeOK ==
    /\ phase \in {"open", "finished", "failed", "rejected"}
    /\ session \in BOOLEAN
    /\ left \in 0 .. MaxRows
    /\ Len(db.events) <= MaxRows + 1
    /\ DOMAIN db.commands \subseteq CommandId
    /\ DOMAIN db.processes \subseteq Pid
    /\ \A p \in DOMAIN db.file_activity :
         /\ db.file_activity[p].bytes_read \in Nat
         /\ db.file_activity[p].bytes_written \in Nat

\* emit never throws on what EventStream allows, although a process may have been
\* named by its exec when its fork arrives.
EmitNeverThrows == phase # "rejected"

\* The sum of a number of p over the reports of the commands, and of no command
Total(reports, p, field) ==
    SumFunction([c \in All |-> IF p \in DOMAIN reports[c] THEN reports[c][p][field] ELSE 0])
SumsUp(whole, reports) ==
    /\ DOMAIN whole = UNION {DOMAIN reports[c] : c \in All}
    /\ \A p \in DOMAIN whole : \A field \in DOMAIN whole[p] \ {"last"} :
         whole[p][field] = Total(reports, p, field)

\* The report of the whole run, which reads the aggregated tables, is the sum of
\* the reports of its commands, which read the events, and of what belongs to no
\* command; and its failed connects are the errors listed for the endpoint.
ReportsAddUp ==
    /\ \A type \in {"file_read", "file_write"} :
         SumsUp(show_files(db, All, type), [c \in All |-> show_files(db, {c}, type)])
    /\ SumsUp(show_network(db, All), [c \in All |-> show_network(db, {c})])
    /\ \A p \in DOMAIN show_network(db, All) :
         LET errors == show_errors(db, All)
             of == {k \in DOMAIN errors : k.type = "net_connect" /\ k.resource = p}
         IN  show_network(db, All)[p].failed = SumFunctionOnSet(errors, of)

\* "last" of an endpoint means the same in the report of the run, which takes the
\* last event to arrive, and in that of the command that connected last, which
\* takes the one with the greatest time stamp.
LastErrnoAgrees ==
    \A p \in DOMAIN db.network_activity :
      LET last == CHOOSE i \in Rows(db, All, {"net_connect"}) :
                    /\ db.events[i].resource = p
                    /\ \A j \in Rows(db, All, {"net_connect"}) :
                         db.events[j].resource = p => j <= i
      IN  show_network(db, All)[p].last =
            show_network(db, {db.events[last].command_id})[p].last

\* The timeline of a command opens with its start and runs forward from it, also
\* when processes of the command were reported before its start.
TimelineOpensWithStart ==
    \A c \in DOMAIN db.commands :
      LET timeline == show_timeline(db, db.commands[c].start_ns, {c})
      IN  /\ timeline[1].type = "command_start"
          /\ \A n \in DOMAIN timeline : timeline[n].offset >= 0

\* Every process that was introduced is counted, once, and no command has more
\* processes than the run.
ProcessesAreCounted ==
    phase = "open" =>
      /\ introduced \ {Root} \subseteq DOMAIN db.processes
      /\ \A c \in CommandId : show_processes(db, {c}) <= show_processes(db, All)

\* "(incomplete)" is said of the command that is running, and of no other.
IncompleteMeansRunning ==
    phase = "open" =>
      {c \in DOMAIN db.commands : show_commands(db)[c] = Null} = {running} \ {NoCommand}

\* What is known of a command that has ended does not change any more.
EndedCommandsAreFinal ==
    [][phase = "open" /\ phase' = "open" =>
         \A c \in closed : db'.commands[c] = db.commands[c]]_wvars

\* show and diff accept a capsule only when its recording was finished: a file that
\* a crash left behind, or one that is being written, is refused.
OnlyFinishedRunsAreShown ==
    Accepts(disk, All) => phase = "finished" /\ disk.runs.exit_code # Null

Leads(x, y, lines) ==
    /\ DOMAIN y = (DOMAIN x \ lines.removed) \cup lines.added
    /\ \A p \in DOMAIN x \cap DOMAIN y :
         IF p \in DOMAIN lines.changed
         THEN lines.changed[p] = Line(y[p]) /\ Line(x[p]) # Line(y[p])
         ELSE x[p] = y[p]
Replaces(x, y, lines) == y = (x \ lines.removed) \cup lines.added

\* The lines of diff lead from one capsule to the other: they name exactly what
\* comes, goes or changes, and a line that says "changed" shows it in one of its
\* two numbers (the others that show would print follow from these).
DiffLeadsThere ==
    [][saved # Null /\ phase' = "finished" =>
         LET b == load_summary(disk', session)
             d == diff_capsules(saved, b)
         IN  /\ \A part \in {"reads", "writes", "network", "local_ipc"} :
                  Leads(saved[part], b[part], d[part])
             /\ Replaces(saved.executables, b.executables, d.executables)
             /\ Replaces(saved.commands, b.commands, d.commands)
             /\ d.exit = << >> <=> saved.exit_code = b.exit_code]_wvars
=============================================================================
