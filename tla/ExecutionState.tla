--------------------------- MODULE ExecutionState ---------------------------
(***************************************************************************)
(* whyrun::ExecutionState (src/execution_state.cpp): the table of traced   *)
(* processes, the thread index, the command of an interactive session that *)
(* is armed or running, and the events handed to the sink.  Every public   *)
(* handler of the class is one action.                                     *)
(*                                                                         *)
(* The client of the class is the collector.  Spec lets it call the        *)
(* handlers for any thread in any order: reports of different tracees      *)
(* reach the collector in any order, so this is what the class must stand. *)
(* PtraceCollector restricts the calls to those of the real event loop.    *)
(***************************************************************************)
EXTENDS Integers, Sequences

CONSTANTS
    Pid,               \* thread ids; the id of a process is that of its leader
    Root,              \* root_pid_, the traced program
    NoPid,             \* pid_t{} and "not in the map"
    MaxCommand,        \* bound: command ids that the shell may use
    MaxClock,          \* bound: readings of the wall clock
    ClockMayStepBack,  \* now_ns() reads system_clock, which may be set back
    Exe, NoExe,        \* targets of /proc/<pid>/exe; the empty or unknown one
    Fd, AT_FDCWD,      \* descriptors; "relative to the working directory"
    Path,              \* absolute names in normal form
    Slash, StartDir,   \* "/" and the directory whyrun was started in
    Rel,               \* spellings a program passes after its base directory
    Unresolved,        \* every name that is not absolute, "<dirfd:N>/..." too
    Join(_, _),        \* normalize_path(directory / spelling)
    Endpoint, NoEndpoint   \* rendered socket addresses; "<socket>"

CommandId == 1 .. MaxCommand
NoCommand == 0         \* std::nullopt of std::optional<std::uint64_t>
Time == 1 .. MaxClock
NoTime == 0
Name == Path \cup {Unresolved}
NamedThing == Name \cup Endpoint \cup {NoEndpoint}

ASSUME PidAssumption == Root \in Pid /\ NoPid \notin Pid
ASSUME BoundAssumption == /\ MaxCommand \in Nat \ {0}
                          /\ MaxClock \in Nat \ {0}
                          /\ ClockMayStepBack \in BOOLEAN
ASSUME NameAssumption == /\ Slash \in Path
                         /\ StartDir \in Path
                         /\ AT_FDCWD \notin Fd
                         /\ NoExe \notin Exe
                         /\ \A d \in Name, r \in Rel : Join(d, r) \in Name

VARIABLES
    known,              \* the keys of processes_
    processes,          \* processes_[p] for every p in known
    thread_to_process,  \* thread_to_process_, NoPid when there is no entry
    active_command,     \* active_command_, id = NoCommand when it is empty
    session,            \* the client decodes command markers
    thrown,             \* a handler threw: the collection is over
    now,                \* the last reading of the clock
    emitted,            \* the events the last handler gave to the sink
    \* History, for the properties only:
    startedAt,          \* time stamp of the CommandStart of a command
    earliest,           \* earliest time stamp of its events
    ended               \* commands with a CommandEnd

state == <<known, processes, thread_to_process, active_command>>
history == <<startedAt, earliest, ended>>
vars == <<state, session, thrown, now, emitted, history>>

-----------------------------------------------------------------------------
(* The types of execution_state.hpp and event.hpp. *)

NoResource == [type |-> "none", name |-> Unresolved, is_directory |-> FALSE]
Resource == [type : {"none", "file"}, name : Name, is_directory : BOOLEAN]
       \cup [type : {"socket"}, name : Endpoint \cup {NoEndpoint}, is_directory : {FALSE}]

ProcessState == [parent_pid : Pid \cup {NoPid}, executable : Exe \cup {NoExe},
                 cwd : Name, command_id : CommandId \cup {NoCommand},
                 fd_table : [Fd -> Resource]]

\* ProcessState{} with its working directory
FreshProcess(cwd) ==
    [parent_pid |-> NoPid, executable |-> NoExe, cwd |-> cwd,
     command_id |-> NoCommand, fd_table |-> [f \in Fd |-> NoResource]]

ActiveCommand == [id : CommandId \cup {NoCommand},
                  first_process_ns : Time \cup {NoTime}, started : BOOLEAN]
NoActiveCommand ==
    [id |-> NoCommand, first_process_ns |-> NoTime, started |-> FALSE]

EventType == {"process_fork", "process_exec", "process_exit", "file_open",
              "file_read", "file_write", "net_connect", "ipc_connect",
              "command_start", "command_end"}
Event == [type : EventType, timestamp_ns : Time, pid : Pid,
          command_id : CommandId \cup {NoCommand},
          resource : Pid \cup Exe \cup {NoExe} \cup NamedThing]

-----------------------------------------------------------------------------
process_for_thread(tid) ==
    IF thread_to_process[tid] = NoPid THEN tid ELSE thread_to_process[tid]

\* Mutant: the null check is dropped.
HasProcess_unchecked(tid) == TRUE

\* find_process_for_thread(tid) != nullptr
HasProcess(tid) == process_for_thread(tid) \in known
ProcessOf(tid) == processes[process_for_thread(tid)]

\* active_command_.has_value() && !active_command_->started
Armed == active_command.id # NoCommand /\ ~active_command.started

\* Mutants: the armed command counts as running; the command of the process is
\* replaced by the active one.
CommandFor_armed(pid, command_id) == command_id
CommandFor_active(pid, command_id) == active_command.id

\* The command emit() gives to an event that names none: the one of the
\* process, unless it is the shell between an Arm and its Start.
CommandFor(pid, command_id) ==
    IF pid = Root /\ Armed THEN NoCommand ELSE command_id

MakeEvent(type, tid, command_id, resource, ts) ==
    [type |-> type, timestamp_ns |-> ts, pid |-> process_for_thread(tid),
     command_id |-> command_id, resource |-> resource]

Carries(events, c) == \E i \in DOMAIN events : events[i].command_id = c
Announces(events, type, c) ==
    \E i \in DOMAIN events : events[i].type = type /\ events[i].command_id = c

\* sink_.emit for the events of one handler, which share a time stamp.
Emit(events, ts) ==
    /\ emitted' = events
    /\ startedAt' = [c \in CommandId |->
                       IF Announces(events, "command_start", c) THEN ts
                       ELSE startedAt[c]]
    /\ earliest' = [c \in CommandId |->
                      IF /\ Carries(events, c)
                         /\ earliest[c] = NoTime \/ ts < earliest[c]
                      THEN ts ELSE earliest[c]]
    /\ ended' = ended \cup {c \in CommandId : Announces(events, "command_end", c)}

EmitNothing == emitted' = << >> /\ UNCHANGED history

\* The handler is called with a fresh reading of the clock.
Called(ts) ==
    /\ ~thrown
    /\ ts >= now \/ ClockMayStepBack
    /\ now' = ts

-----------------------------------------------------------------------------
(* add_initial_process.  A command given on the command line is command 1  *)
(* and runs from the start; a session starts without one.                  *)
add_initial_process(withCommand, ts) ==
    LET id == IF withCommand THEN 1 ELSE NoCommand
        event == [type |-> "command_start", timestamp_ns |-> ts, pid |-> Root,
                  command_id |-> 1, resource |-> NoExe]
    IN  /\ known = {Root}
        /\ processes = [p \in Pid |->
              IF p = Root THEN [FreshProcess(StartDir) EXCEPT !.command_id = id]
              ELSE FreshProcess(StartDir)]
        /\ thread_to_process = [p \in Pid |-> IF p = Root THEN Root ELSE NoPid]
        /\ active_command = IF withCommand
                            THEN [id |-> 1, first_process_ns |-> ts, started |-> TRUE]
                            ELSE NoActiveCommand
        /\ emitted = IF withCommand THEN <<event>> ELSE << >>
        /\ startedAt = [c \in CommandId |->
                          IF withCommand /\ c = 1 THEN ts ELSE NoTime]
        /\ earliest = startedAt

Init == /\ session \in BOOLEAN
        /\ thrown = FALSE
        /\ now \in Time
        /\ ended = {}
        /\ add_initial_process(~session, now)

-----------------------------------------------------------------------------
(* on_command_marker.  Markers of other processes than the root are        *)
(* ignored; one that does not fit the protocol throws.                     *)
FromRoot(tid) == HasProcess(tid) /\ process_for_thread(tid) = Root

ArmFits == /\ active_command.id = NoCommand
           /\ processes[Root].command_id = NoCommand
Names(id) == /\ active_command.id = id
             /\ processes[Root].command_id = id
StartFits(id) == Names(id) /\ ~active_command.started
EndFits(id) == Names(id) /\ active_command.started

\* Mutant: the id is off by one.
on_arm_marker_next(tid, id, ts) ==
    /\ Called(ts)
    /\ FromRoot(tid) /\ ArmFits
    /\ processes' = [processes EXCEPT ![Root].command_id = id + 1]
    /\ active_command' = [id |-> id + 1, first_process_ns |-> NoTime, started |-> FALSE]
    /\ EmitNothing
    /\ UNCHANGED <<known, thread_to_process, session, thrown>>

on_arm_marker(tid, id, ts) ==
    /\ Called(ts)
    /\ FromRoot(tid) /\ ArmFits
    /\ processes' = [processes EXCEPT ![Root].command_id = id]
    /\ active_command' = [id |-> id, first_process_ns |-> NoTime, started |-> FALSE]
    /\ EmitNothing
    /\ UNCHANGED <<known, thread_to_process, session, thrown>>

\* Mutants: started is not set; the time of the first process is ignored.
on_start_marker_unset(tid, id, ts) ==
    /\ Called(ts)
    /\ FromRoot(tid) /\ StartFits(id)
    /\ Emit(<<MakeEvent("command_start", tid, id, NoExe, ts)>>, ts)
    /\ UNCHANGED <<state, session, thrown>>

on_start_marker_now(tid, id, ts) ==
    /\ Called(ts)
    /\ FromRoot(tid) /\ StartFits(id)
    /\ active_command' = [active_command EXCEPT !.started = TRUE]
    /\ Emit(<<MakeEvent("command_start", tid, id, NoExe, ts)>>, ts)
    /\ UNCHANGED <<known, processes, thread_to_process, session, thrown>>

\* The time stamp of CommandStart is the one of the first process the shell
\* forked for the command, when it forked before it reported the start.
on_start_marker(tid, id, ts) ==
    LET at == IF active_command.first_process_ns = NoTime THEN ts
              ELSE active_command.first_process_ns
    IN  /\ Called(ts)
        /\ FromRoot(tid) /\ StartFits(id)
        /\ active_command' = [active_command EXCEPT !.started = TRUE]
        /\ Emit(<<MakeEvent("command_start", tid, id, NoExe, at)>>, at)
        /\ UNCHANGED <<known, processes, thread_to_process, session, thrown>>

\* Mutants: the command of the shell is not reset; that of every process is.
on_end_marker_keeps(tid, id, ts) ==
    /\ Called(ts)
    /\ FromRoot(tid) /\ EndFits(id)
    /\ Emit(<<MakeEvent("command_end", tid, id, NoExe, ts)>>, ts)
    /\ active_command' = NoActiveCommand
    /\ UNCHANGED <<known, processes, thread_to_process, session, thrown>>

on_end_marker_all(tid, id, ts) ==
    /\ Called(ts)
    /\ FromRoot(tid) /\ EndFits(id)
    /\ Emit(<<MakeEvent("command_end", tid, id, NoExe, ts)>>, ts)
    /\ processes' = [p \in Pid |-> [processes[p] EXCEPT !.command_id = NoCommand]]
    /\ active_command' = NoActiveCommand
    /\ UNCHANGED <<known, thread_to_process, session, thrown>>

on_end_marker(tid, id, ts) ==
    /\ Called(ts)
    /\ FromRoot(tid) /\ EndFits(id)
    /\ Emit(<<MakeEvent("command_end", tid, id, NoExe, ts)>>, ts)
    /\ processes' = [processes EXCEPT ![Root].command_id = NoCommand]
    /\ active_command' = NoActiveCommand
    /\ UNCHANGED <<known, thread_to_process, session, thrown>>

\* A marker out of protocol: the exception leaves collect().
on_bad_marker(tid, type, id, ts) ==
    /\ Called(ts)
    /\ FromRoot(tid)
    /\ \/ type = "arm" /\ ~ArmFits
       \/ type = "start" /\ ~StartFits(id)
       \/ type = "end" /\ ~EndFits(id)
    /\ thrown' = TRUE
    /\ EmitNothing
    /\ UNCHANGED <<state, session>>

on_foreign_marker(tid, ts) ==
    /\ Called(ts)
    /\ ~FromRoot(tid)
    /\ EmitNothing
    /\ UNCHANGED <<state, session, thrown>>

-----------------------------------------------------------------------------
(* on_process_exec.  A process whose creation was not reported yet is      *)
(* "discovered": it gets an entry with no parent and no command.           *)
on_process_exec(tid, exe, cwd, ts) ==
    LET pid == process_for_thread(tid)
        before == IF HasProcess(tid) THEN ProcessOf(tid) ELSE FreshProcess(cwd)
    IN  /\ Called(ts)
        /\ known' = known \cup {pid}
        /\ processes' = [processes EXCEPT ![pid] = [before EXCEPT !.executable = exe]]
        /\ thread_to_process' = IF HasProcess(tid) THEN thread_to_process
                                ELSE [thread_to_process EXCEPT ![tid] = tid]
        /\ Emit(<<MakeEvent("process_exec", tid, CommandFor(pid, before.command_id),
                            exe, ts)>>, ts)
        /\ UNCHANGED <<active_command, session, thrown>>

(* on_process_created.  Only a clone with CLONE_THREAD adds a thread; any  *)
(* other child is a copy of its parent and inherits the command.           *)
on_process_created(parent_tid, child_tid, is_thread, ts) ==
    LET parent_pid == process_for_thread(parent_tid)
        parent == processes[parent_pid]
        child == [parent EXCEPT !.parent_pid = parent_pid]
    IN  /\ Called(ts)
        /\ UNCHANGED <<session, thrown>>
        /\ \/ /\ ~HasProcess(parent_tid)
              /\ EmitNothing
              /\ UNCHANGED state
           \/ /\ HasProcess(parent_tid) /\ is_thread
              /\ thread_to_process' = [thread_to_process EXCEPT ![child_tid] = parent_pid]
              /\ EmitNothing
              /\ UNCHANGED <<known, processes, active_command>>
           \/ /\ HasProcess(parent_tid) /\ ~is_thread
              /\ known' = known \cup {child_tid}
              /\ processes' = [processes EXCEPT ![child_tid] = child]
              /\ thread_to_process' = [thread_to_process EXCEPT ![child_tid] = child_tid]
              /\ active_command' =
                   IF /\ parent_pid = Root /\ Armed
                      /\ active_command.first_process_ns = NoTime
                   THEN [active_command EXCEPT !.first_process_ns = ts]
                   ELSE active_command
              /\ Emit(<<MakeEvent("process_fork", parent_tid, parent.command_id,
                                  child_tid, ts)>>, ts)

(* on_process_exit.  The entry of the process stays in processes_.  The    *)
(* death of the shell ends its running command and drops an armed one.     *)
on_process_exit(tid, ts) ==
    LET pid == process_for_thread(tid)
        process == processes[pid]
        ownCommand == IF pid = Root /\ Armed THEN NoCommand ELSE process.command_id
        exit == MakeEvent("process_exit", tid, CommandFor(pid, ownCommand),
                          process.executable, ts)
        endsCommand == /\ pid = Root /\ active_command.id # NoCommand
                       /\ active_command.started /\ ownCommand # NoCommand
        end == MakeEvent("command_end", tid, ownCommand, NoExe, ts)
    IN  /\ Called(ts)
        /\ UNCHANGED <<known, session, thrown>>
        /\ \/ /\ tid # pid
              /\ thread_to_process' = [thread_to_process EXCEPT ![tid] = NoPid]
              /\ EmitNothing
              /\ UNCHANGED <<processes, active_command>>
           \/ /\ tid = pid /\ pid \notin known
              /\ EmitNothing
              /\ UNCHANGED <<processes, thread_to_process, active_command>>
           \/ /\ tid = pid /\ pid \in known
              /\ Emit(IF endsCommand THEN <<exit, end>> ELSE <<exit>>, ts)
              /\ processes' = [processes EXCEPT ![pid].command_id =
                                 IF endsCommand THEN NoCommand ELSE ownCommand]
              /\ active_command' = IF pid = Root THEN NoActiveCommand
                                   ELSE active_command
              /\ thread_to_process' = [thread_to_process EXCEPT ![tid] = NoPid]

-----------------------------------------------------------------------------
(* on_syscall_exit, one action per branch.  A call of a thread without a   *)
(* process entry is dropped.  A spelling is absolute or relative to dirfd; *)
(* the placeholder of an unreadable address is a relative spelling.        *)
\* Mutant: every relative name is taken from the working directory.
resolve_path_cwd(process, absolute, dirfd, spelling) ==
    IF absolute THEN Join(Slash, spelling) ELSE Join(process.cwd, spelling)

resolve_path(process, absolute, dirfd, spelling) ==
    IF absolute THEN Join(Slash, spelling)
    ELSE IF dirfd = AT_FDCWD THEN Join(process.cwd, spelling)
    ELSE LET directory == process.fd_table[dirfd]
         IN  IF directory.type = "file" /\ directory.is_directory
             THEN Join(directory.name, spelling) ELSE Unresolved

SetFd(pid, fd, resource) ==
    processes' = [processes EXCEPT ![pid].fd_table[fd] = resource]

SyscallEvent(type, tid, resource, ts) ==
    Emit(<<MakeEvent(type, tid, CommandFor(process_for_thread(tid),
                                           ProcessOf(tid).command_id),
                     resource, ts)>>, ts)

OnlyProcesses == UNCHANGED <<known, thread_to_process, active_command, session, thrown>>

on_dropped_syscall(tid, ts) ==
    /\ Called(ts)
    /\ ~HasProcess(tid)
    /\ EmitNothing
    /\ UNCHANGED <<state, session, thrown>>

\* open, openat, openat2; fd = AT_FDCWD stands for a negative result
on_open(tid, absolute, dirfd, spelling, directory, fd, ts) ==
    LET pid == process_for_thread(tid)
        path == resolve_path(ProcessOf(tid), absolute, dirfd, spelling)
    IN  /\ Called(ts)
        /\ HasProcess(tid)
        /\ SyscallEvent("file_open", tid, path, ts)
        /\ IF fd \in Fd
           THEN SetFd(pid, fd, [type |-> "file", name |-> path,
                                is_directory |-> directory])
           ELSE UNCHANGED processes
        /\ OnlyProcesses

\* read and write: only descriptors of files are reported
on_transfer(tid, type, fd, ts) ==
    LET resource == ProcessOf(tid).fd_table[fd]
    IN  /\ Called(ts)
        /\ HasProcess(tid)
        /\ IF resource.type = "file" THEN SyscallEvent(type, tid, resource.name, ts)
           ELSE EmitNothing
        /\ UNCHANGED processes
        /\ OnlyProcesses

\* a close that succeeded
on_close(tid, fd, ts) ==
    /\ Called(ts)
    /\ HasProcess(tid)
    /\ SetFd(process_for_thread(tid), fd, NoResource)
    /\ EmitNothing
    /\ OnlyProcesses

\* Mutant: source and target are swapped.
on_dup_swapped(tid, old_fd, new_fd, ts) ==
    /\ Called(ts)
    /\ HasProcess(tid)
    /\ SetFd(process_for_thread(tid), old_fd, ProcessOf(tid).fd_table[new_fd])
    /\ EmitNothing
    /\ OnlyProcesses

\* dup, dup2, dup3 that succeeded; an untracked source clears the target
on_dup(tid, old_fd, new_fd, ts) ==
    /\ Called(ts)
    /\ HasProcess(tid)
    /\ SetFd(process_for_thread(tid), new_fd, ProcessOf(tid).fd_table[old_fd])
    /\ EmitNothing
    /\ OnlyProcesses

on_socket(tid, fd, ts) ==
    /\ Called(ts)
    /\ HasProcess(tid)
    /\ SetFd(process_for_thread(tid), fd,
             [type |-> "socket", name |-> NoEndpoint, is_directory |-> FALSE])
    /\ EmitNothing
    /\ OnlyProcesses

\* Mutant: whatever is tracked for the descriptor is renamed.
on_connect_any(tid, type, fd, endpoint, ts) ==
    /\ Called(ts)
    /\ HasProcess(tid)
    /\ SyscallEvent(type, tid, endpoint, ts)
    /\ SetFd(process_for_thread(tid), fd,
             [ProcessOf(tid).fd_table[fd] EXCEPT !.name = endpoint])
    /\ OnlyProcesses

\* The name of the socket changes even when the connect failed.
on_connect(tid, type, fd, endpoint, ts) ==
    LET pid == process_for_thread(tid)
        resource == ProcessOf(tid).fd_table[fd]
    IN  /\ Called(ts)
        /\ HasProcess(tid)
        /\ SyscallEvent(type, tid, endpoint, ts)
        /\ IF resource.type = "socket"
           THEN SetFd(pid, fd, [resource EXCEPT !.name = endpoint])
           ELSE UNCHANGED processes
        /\ OnlyProcesses

\* a chdir that succeeded and whose path could be read
on_chdir(tid, absolute, spelling, ts) ==
    LET pid == process_for_thread(tid)
    IN  /\ Called(ts)
        /\ HasProcess(tid)
        /\ processes' = [processes EXCEPT ![pid].cwd =
              resolve_path(ProcessOf(tid), absolute, AT_FDCWD, spelling)]
        /\ EmitNothing
        /\ OnlyProcesses

\* an fchdir that succeeded
on_fchdir(tid, fd, ts) ==
    LET pid == process_for_thread(tid)
        resource == ProcessOf(tid).fd_table[fd]
    IN  /\ Called(ts)
        /\ HasProcess(tid)
        /\ IF resource.type = "file"
           THEN processes' = [processes EXCEPT ![pid].cwd = resource.name]
           ELSE UNCHANGED processes
        /\ EmitNothing
        /\ OnlyProcesses

\* The sorts of calls that reach no branch above: failed, unreadable or of
\* another number.
on_other_syscall(tid, ts) ==
    /\ Called(ts)
    /\ HasProcess(tid)
    /\ EmitNothing
    /\ UNCHANGED <<state, session, thrown>>

-----------------------------------------------------------------------------
(* What the client may call. *)

\* The hooks of the shell count commands up and never reuse an id.
Unused(c) == startedAt[c] = NoTime /\ earliest[c] = NoTime

on_command_marker(tid, ts) ==
    /\ session
    /\ \E id \in CommandId :
         \/ Unused(id) /\ on_arm_marker(tid, id, ts)
         \/ on_start_marker(tid, id, ts)
         \/ on_end_marker(tid, id, ts)
         \/ \E type \in {"arm", "start", "end"} : on_bad_marker(tid, type, id, ts)
         \/ on_foreign_marker(tid, ts)

on_syscall_exit(tid, ts) ==
    \/ on_dropped_syscall(tid, ts)
    \/ on_other_syscall(tid, ts)
    \/ \E absolute, directory \in BOOLEAN, dirfd, fd \in Fd \cup {AT_FDCWD}, r \in Rel :
          on_open(tid, absolute, dirfd, r, directory, fd, ts)
    \/ \E type \in {"file_read", "file_write"}, fd \in Fd :
          on_transfer(tid, type, fd, ts)
    \/ \E fd \in Fd : on_close(tid, fd, ts)
    \/ \E old_fd, new_fd \in Fd : on_dup(tid, old_fd, new_fd, ts)
    \/ \E fd \in Fd : on_socket(tid, fd, ts)
    \/ \E type \in {"net_connect", "ipc_connect"}, fd \in Fd, e \in Endpoint :
          on_connect(tid, type, fd, e, ts)
    \/ \E absolute \in BOOLEAN, r \in Rel : on_chdir(tid, absolute, r, ts)
    \/ \E fd \in Fd : on_fchdir(tid, fd, ts)

Next ==
    \E tid \in Pid, ts \in Time :
      \/ on_command_marker(tid, ts)
      \/ \E exe \in Exe \cup {NoExe}, cwd \in Name : on_process_exec(tid, exe, cwd, ts)
      \/ \E child \in Pid \ {Root}, is_thread \in BOOLEAN :
            on_process_created(tid, child, is_thread, ts)
      \/ on_process_exit(tid, ts)
      \/ on_syscall_exit(tid, ts)

Spec == Init /\ [][Next]_vars

-----------------------------------------------------------------------------
(* Properties *)

\* Every variable has the type its C++ declaration gives it.
TypeOK ==
    /\ known \in SUBSET Pid
    /\ processes \in [Pid -> ProcessState]
    /\ thread_to_process \in [Pid -> Pid \cup {NoPid}]
    /\ active_command \in ActiveCommand
    /\ session \in BOOLEAN
    /\ thrown \in BOOLEAN
    /\ now \in Time
    /\ emitted \in Seq(Event)
    /\ startedAt \in [CommandId -> Time \cup {NoTime}]
    /\ earliest \in [CommandId -> Time \cup {NoTime}]
    /\ ended \in SUBSET CommandId

\* active_command_ and the command_id of the root's entry are two copies of one
\* fact that six handlers keep; on_command_marker throws when they disagree.
RootCommandSync ==
    Root \in known /\ processes[Root].command_id = active_command.id

\* The thread index never leads to a process that has no entry, whatever order
\* creations, execs and exits are reported in.
ThreadIndexSound ==
    \A t \in Pid : thread_to_process[t] # NoPid => thread_to_process[t] \in known

\* The sink sees commands properly bracketed: the commands that were started
\* and not ended are exactly the running one, and only started ones end (also
\* when the shell dies instead of reporting the end).
CommandsBracketed ==
    /\ {c \in CommandId : startedAt[c] # NoTime} \ ended =
         IF active_command.started THEN {active_command.id} ELSE {}
    /\ \A c \in ended : startedAt[c] # NoTime

\* No event of a command is older than its CommandStart, although the shell
\* forks the processes of some commands before it reports the start: the time
\* stamp of CommandStart is moved back to the first of these forks.
CommandStartIsEarliest ==
    \A c \in CommandId : startedAt[c] # NoTime => startedAt[c] <= earliest[c]

\* "Background processes remain attributed to the command that launched them"
\* (README): the command of a process other than the shell never changes, but
\* by the report that the process was created.
BackgroundStaysAttributed ==
    [][\A p \in known \ {Root} :
         processes'[p].command_id # processes[p].command_id =>
           \E i \in DOMAIN emitted' : /\ emitted'[i].type = "process_fork"
                                      /\ emitted'[i].resource = p]_vars

\* What the shell itself does between commands belongs to no command: only the
\* fork of a command's process may be attributed before the command started.
PromptIsUnattributed ==
    [][\A i \in DOMAIN emitted' :
         /\ emitted'[i].pid = Root
         /\ emitted'[i].command_id # NoCommand
         /\ emitted'[i].type # "process_fork"
         => active_command.started \/ active_command'.started]_vars

-----------------------------------------------------------------------------
(* What the sink sees of all this: every step of ExecutionState is a step, *)
(* or no step, of EventStream.                                             *)
Stream == INSTANCE EventStream WITH
    Thing <- Pid \cup Exe \cup {NoExe} \cup NamedThing,
    introduced <- known,
    running <- IF active_command.started THEN active_command.id ELSE NoCommand,
    begun <- {c \in CommandId : startedAt[c] # NoTime},
    closed <- ended

\* The sink may rely on EventStream whatever order the handlers are called in:
\* commands start once and one at a time, end once, and are not older than any of
\* their events; no event is about a process that was never introduced.
ImplementsEventStream == Stream!SSpec

-----------------------------------------------------------------------------
(* The inductive invariants behind the proofs. *)

\* CommandsInv relates the copies of the active command to the commands the
\* sink knows; an armed command is not known to the sink as started.
CommandsInv ==
    /\ RootCommandSync
    /\ ThreadIndexSound
    /\ CommandsBracketed
    /\ active_command.id = NoCommand => active_command = NoActiveCommand
    /\ Armed => startedAt[active_command.id] = NoTime

\* TimelineInv adds the time stamps: whoever holds a command, except the shell,
\* was forked in an event of this command, and first_process_ns is the earliest
\* event of the armed command.
TimelineInv ==
    /\ CommandStartIsEarliest
    /\ \A c \in CommandId : startedAt[c] <= now /\ earliest[c] <= now
    /\ \A p \in known \ {Root} :
         processes[p].command_id # NoCommand =>
           earliest[processes[p].command_id] # NoTime
    /\ Armed => earliest[active_command.id] = active_command.first_process_ns
=============================================================================
