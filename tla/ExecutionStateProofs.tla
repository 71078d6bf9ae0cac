------------------------ MODULE ExecutionStateProofs ------------------------
(***************************************************************************)
(* Proofs about ExecutionState, for every set of threads, bound, name and  *)
(* descriptor.                                                             *)
(***************************************************************************)
EXTENDS ExecutionState, TLAPS

(* The bookkeeping of the events of one handler is well typed. *)
LEMMA EmitTypes ==
    ASSUME TypeOK, NEW ts \in Time, NEW events \in Seq(Event), Emit(events, ts)
    PROVE  /\ emitted' \in Seq(Event)
           /\ startedAt' \in [CommandId -> Time \cup {NoTime}]
           /\ earliest' \in [CommandId -> Time \cup {NoTime}]
           /\ ended' \in SUBSET CommandId
BY DEF TypeOK, Emit

(* A handler that emits nothing keeps the history well typed. *)
LEMMA EmitNothingTypes ==
    ASSUME TypeOK, EmitNothing
    PROVE  /\ emitted' \in Seq(Event)
           /\ startedAt' \in [CommandId -> Time \cup {NoTime}]
           /\ earliest' \in [CommandId -> Time \cup {NoTime}]
           /\ ended' \in SUBSET CommandId
BY DEF TypeOK, EmitNothing, history

(* An event is well typed when its parts are. *)
LEMMA MakeEventType ==
    ASSUME TypeOK, NEW type \in EventType, NEW tid \in Pid, NEW ts \in Time,
           NEW c \in CommandId \cup {NoCommand},
           NEW r \in Pid \cup Exe \cup {NoExe} \cup NamedThing
    PROVE  MakeEvent(type, tid, c, r, ts) \in Event
BY PidAssumption DEF TypeOK, MakeEvent, Event, process_for_thread

(* The process of a thread is a process id, with a well typed entry. *)
LEMMA ProcessOfType ==
    ASSUME TypeOK, NEW tid \in Pid
    PROVE  /\ process_for_thread(tid) \in Pid
           /\ ProcessOf(tid) \in ProcessState
BY PidAssumption DEF TypeOK, process_for_thread, ProcessOf

(* A name is well typed however a path is resolved. *)
LEMMA ResolveType ==
    ASSUME NEW process \in ProcessState, NEW absolute \in BOOLEAN,
           NEW dirfd \in Fd \cup {AT_FDCWD}, NEW r \in Rel
    PROVE  resolve_path(process, absolute, dirfd, r) \in Name
<1>1. /\ process.cwd \in Name
      /\ process.fd_table \in [Fd -> Resource]
  BY DEF ProcessState
<1>2. Slash \in Name /\ Unresolved \in Name
  BY NameAssumption DEF Name
<1>3. ASSUME dirfd \in Fd, process.fd_table[dirfd].type = "file"
      PROVE  process.fd_table[dirfd].name \in Name
  BY <1>1, <1>3 DEF Resource
<1> QED
  BY <1>1, <1>2, <1>3, NameAssumption DEF resolve_path

-----------------------------------------------------------------------------
(* Type correctness. *)

(* Replacing one entry by a well typed one keeps processes well typed. *)
LEMMA SetProcessType ==
    ASSUME TypeOK, NEW pid \in Pid, NEW entry \in ProcessState,
           processes' = [processes EXCEPT ![pid] = entry]
    PROVE  processes' \in [Pid -> ProcessState]
BY DEF TypeOK

(* A descriptor may be set to any resource. *)
LEMMA SetFdType ==
    ASSUME TypeOK, NEW pid \in Pid, NEW fd \in Fd, NEW resource \in Resource,
           SetFd(pid, fd, resource)
    PROVE  processes' \in [Pid -> ProcessState]
<1>1. processes[pid] \in ProcessState
  BY DEF TypeOK
<1>2. [processes[pid] EXCEPT !.fd_table[fd] = resource] \in ProcessState
  BY <1>1 DEF ProcessState
<1>3. processes' = [processes EXCEPT ![pid] =
                      [processes[pid] EXCEPT !.fd_table[fd] = resource]]
  BY DEF SetFd, TypeOK
<1> QED
  BY <1>2, <1>3, SetProcessType

(* So may the command of a process. *)
LEMMA SetCommandType ==
    ASSUME TypeOK, NEW pid \in Pid, NEW c \in CommandId \cup {NoCommand},
           processes' = [processes EXCEPT ![pid].command_id = c]
    PROVE  processes' \in [Pid -> ProcessState]
<1>1. processes[pid] \in ProcessState
  BY DEF TypeOK
<1>2. [processes[pid] EXCEPT !.command_id = c] \in ProcessState
  BY <1>1 DEF ProcessState
<1> QED
  BY <1>2, SetProcessType DEF TypeOK

(* And its working directory. *)
LEMMA SetCwdType ==
    ASSUME TypeOK, NEW pid \in Pid, NEW name \in Name,
           processes' = [processes EXCEPT ![pid].cwd = name]
    PROVE  processes' \in [Pid -> ProcessState]
<1>1. processes[pid] \in ProcessState
  BY DEF TypeOK
<1>2. [processes[pid] EXCEPT !.cwd = name] \in ProcessState
  BY <1>1 DEF ProcessState
<1> QED
  BY <1>2, SetProcessType DEF TypeOK

(* The event of a system call is well typed. *)
LEMMA SyscallEventTypes ==
    ASSUME TypeOK, NEW type \in EventType, NEW tid \in Pid, NEW ts \in Time,
           NEW r \in NamedThing, SyscallEvent(type, tid, r, ts)
    PROVE  /\ emitted' \in Seq(Event)
           /\ startedAt' \in [CommandId -> Time \cup {NoTime}]
           /\ earliest' \in [CommandId -> Time \cup {NoTime}]
           /\ ended' \in SUBSET CommandId
<1> DEFINE c == CommandFor(process_for_thread(tid), ProcessOf(tid).command_id)
           event == MakeEvent(type, tid, c, r, ts)
<1>1. c \in CommandId \cup {NoCommand}
  BY ProcessOfType DEF CommandFor, ProcessState
<1>2. event \in Event
  <2> HIDE DEF c
  <2> QED BY <1>1, MakeEventType
<1>3. <<event>> \in Seq(Event)
  BY <1>2
<1> QED
  BY <1>3, EmitTypes DEF SyscallEvent

(* Each handler keeps the state well typed: markers, *)
LEMMA MarkerTypes ==
    ASSUME TypeOK, NEW tid \in Pid, NEW ts \in Time, on_command_marker(tid, ts)
    PROVE  TypeOK'
<1>1. PICK id \in CommandId :
         \/ on_arm_marker(tid, id, ts)
         \/ on_start_marker(tid, id, ts)
         \/ on_end_marker(tid, id, ts)
         \/ \E type \in {"arm", "start", "end"} : on_bad_marker(tid, type, id, ts)
         \/ on_foreign_marker(tid, ts)
  BY DEF on_command_marker
<1> USE PidAssumption
<1>2. CASE on_arm_marker(tid, id, ts)
  <2>1. processes' \in [Pid -> ProcessState]
    BY <1>2, SetCommandType DEF on_arm_marker
  <2>2. active_command' \in ActiveCommand
    BY <1>2 DEF on_arm_marker, ActiveCommand
  <2> QED BY <1>2, <2>1, <2>2, EmitNothingTypes DEF on_arm_marker, TypeOK, Called
<1>3. CASE on_start_marker(tid, id, ts)
  <2> DEFINE at == IF active_command.first_process_ns = NoTime THEN ts
                   ELSE active_command.first_process_ns
             event == MakeEvent("command_start", tid, id, NoExe, at)
  <2>1. at \in Time
    BY DEF TypeOK, ActiveCommand
  <2>2. event \in Event
    <3> HIDE DEF at
    <3> QED BY <2>1, MakeEventType DEF EventType
  <2>3. <<event>> \in Seq(Event)
    BY <2>2
  <2>4. Emit(<<event>>, at)
    BY <1>3 DEF on_start_marker
  <2>5. active_command' \in ActiveCommand
    BY <1>3 DEF on_start_marker, ActiveCommand, TypeOK
  <2> HIDE DEF at, event
  <2> QED BY <1>3, <2>1, <2>3, <2>4, <2>5, EmitTypes DEF on_start_marker, TypeOK, Called
<1>4. CASE on_end_marker(tid, id, ts)
  <2> DEFINE event == MakeEvent("command_end", tid, id, NoExe, ts)
  <2>1. <<event>> \in Seq(Event)
    <3>1. event \in Event BY MakeEventType DEF EventType
    <3> QED BY <3>1
  <2>2. Emit(<<event>>, ts)
    BY <1>4 DEF on_end_marker
  <2>3. processes' \in [Pid -> ProcessState]
    BY <1>4, SetCommandType DEF on_end_marker
  <2>4. active_command' \in ActiveCommand
    BY <1>4 DEF on_end_marker, ActiveCommand, NoActiveCommand
  <2> HIDE DEF event
  <2> QED BY <1>4, <2>1, <2>2, <2>3, <2>4, EmitTypes DEF on_end_marker, TypeOK, Called
<1>5. CASE \E type \in {"arm", "start", "end"} : on_bad_marker(tid, type, id, ts)
  BY <1>5, EmitNothingTypes DEF on_bad_marker, TypeOK, Called, state
<1>6. CASE on_foreign_marker(tid, ts)
  BY <1>6, EmitNothingTypes DEF on_foreign_marker, TypeOK, Called, state
<1> QED
  BY <1>1, <1>2, <1>3, <1>4, <1>5, <1>6

(* execs, *)
LEMMA ExecTypes ==
    ASSUME TypeOK, NEW tid \in Pid, NEW ts \in Time, NEW exe \in Exe \cup {NoExe},
           NEW cwd \in Name, on_process_exec(tid, exe, cwd, ts)
    PROVE  TypeOK'
<1> DEFINE pid == process_for_thread(tid)
           before == IF HasProcess(tid) THEN ProcessOf(tid) ELSE FreshProcess(cwd)
           event == MakeEvent("process_exec", tid, CommandFor(pid, before.command_id),
                              exe, ts)
<1>1. pid \in Pid
  BY ProcessOfType
<1>2. before \in ProcessState
  <2>1. FreshProcess(cwd) \in ProcessState
    BY DEF FreshProcess, ProcessState, NoResource, Resource, Name
  <2> QED BY <2>1, ProcessOfType
<1>3. [before EXCEPT !.executable = exe] \in ProcessState
  BY <1>2 DEF ProcessState
<1>4. <<event>> \in Seq(Event)
  <2>1. CommandFor(pid, before.command_id) \in CommandId \cup {NoCommand}
    BY <1>2 DEF CommandFor, ProcessState
  <2>2. event \in Event
    <3> HIDE DEF before
    <3> QED BY <2>1, MakeEventType DEF EventType
  <2> QED BY <2>2
<1>5. /\ Emit(<<event>>, ts)
      /\ processes' = [processes EXCEPT ![pid] = [before EXCEPT !.executable = exe]]
  BY DEF on_process_exec
<1>6. processes' \in [Pid -> ProcessState]
  <2> HIDE DEF before
  <2> QED BY <1>1, <1>3, <1>5, SetProcessType
<1>7. known' \in SUBSET Pid /\ thread_to_process' \in [Pid -> Pid \cup {NoPid}]
  BY <1>1 DEF on_process_exec, TypeOK
<1> HIDE DEF event
<1> QED
  BY <1>4, <1>5, <1>6, <1>7, EmitTypes DEF on_process_exec, TypeOK, Called

(* creations, *)
LEMMA CreatedTypes ==
    ASSUME TypeOK, NEW tid \in Pid, NEW ts \in Time, NEW child_tid \in Pid \ {Root},
           NEW is_thread \in BOOLEAN, on_process_created(tid, child_tid, is_thread, ts)
    PROVE  TypeOK'
<1> DEFINE parent_pid == process_for_thread(tid)
           parent == processes[parent_pid]
           child == [parent EXCEPT !.parent_pid = parent_pid]
           event == MakeEvent("process_fork", tid, parent.command_id, child_tid, ts)
<1>1. parent_pid \in Pid /\ parent \in ProcessState
  BY ProcessOfType DEF ProcessOf
<1>2. CASE ~HasProcess(tid)
  BY <1>2, EmitNothingTypes DEF on_process_created, TypeOK, Called, state
<1>3. CASE HasProcess(tid) /\ is_thread
  BY <1>1, <1>3, EmitNothingTypes DEF on_process_created, TypeOK, Called
<1>4. CASE HasProcess(tid) /\ ~is_thread
  <2>1. child \in ProcessState
    BY <1>1 DEF ProcessState
  <2>2. <<event>> \in Seq(Event)
    <3>1. parent.command_id \in CommandId \cup {NoCommand}
      BY <1>1 DEF ProcessState
    <3>2. event \in Event
      BY <3>1, MakeEventType DEF EventType
    <3> QED BY <3>2
  <2>3. /\ Emit(<<event>>, ts)
        /\ processes' = [processes EXCEPT ![child_tid] = child]
        /\ active_command' \in {active_command, [active_command EXCEPT !.first_process_ns = ts]}
        /\ known' = known \cup {child_tid}
        /\ thread_to_process' = [thread_to_process EXCEPT ![child_tid] = child_tid]
    BY <1>4 DEF on_process_created
  <2>4. active_command' \in ActiveCommand
    BY <2>3 DEF TypeOK, ActiveCommand
  <2>5. processes' \in [Pid -> ProcessState]
    <3> HIDE DEF child
    <3> QED BY <2>1, <2>3, SetProcessType
  <2>6. now' = ts /\ UNCHANGED <<session, thrown>>
    BY DEF on_process_created, Called
  <2> HIDE DEF event, child
  <2> QED BY <2>2, <2>3, <2>4, <2>5, <2>6, EmitTypes DEF TypeOK
<1> QED
  BY <1>2, <1>3, <1>4

(* exits, *)
LEMMA ExitTypes ==
    ASSUME TypeOK, NEW tid \in Pid, NEW ts \in Time, on_process_exit(tid, ts)
    PROVE  TypeOK'
<1> DEFINE pid == process_for_thread(tid)
           process == processes[pid]
           ownCommand == IF pid = Root /\ Armed THEN NoCommand ELSE process.command_id
           exit == MakeEvent("process_exit", tid, CommandFor(pid, ownCommand),
                             process.executable, ts)
           endsCommand == /\ pid = Root /\ active_command.id # NoCommand
                          /\ active_command.started /\ ownCommand # NoCommand
           end == MakeEvent("command_end", tid, ownCommand, NoExe, ts)
           events == IF endsCommand THEN <<exit, end>> ELSE <<exit>>
<1>1. pid \in Pid /\ process \in ProcessState
  BY ProcessOfType DEF ProcessOf
<1>2. now' = ts /\ UNCHANGED <<known, session, thrown>>
  BY DEF on_process_exit, Called
<1>3. CASE tid # pid
  BY <1>2, <1>3, EmitNothingTypes DEF on_process_exit, TypeOK
<1>4. CASE tid = pid /\ pid \notin known
  BY <1>2, <1>4, EmitNothingTypes DEF on_process_exit, TypeOK
<1>5. CASE tid = pid /\ pid \in known
  <2>1. ownCommand \in CommandId \cup {NoCommand}
    BY <1>1 DEF ProcessState
  <2>2. exit \in Event /\ end \in Event
    <3>1. CommandFor(pid, ownCommand) \in CommandId \cup {NoCommand}
      BY <2>1 DEF CommandFor
    <3>2. process.executable \in Exe \cup {NoExe}
      BY <1>1 DEF ProcessState
    <3> HIDE DEF ownCommand
    <3> QED BY <2>1, <3>1, <3>2, MakeEventType DEF EventType
  <2>3. events \in Seq(Event)
    <3> HIDE DEF exit, end, endsCommand
    <3> QED BY <2>2
  <2>4. /\ Emit(events, ts)
        /\ processes' = [processes EXCEPT ![pid].command_id =
                           IF endsCommand THEN NoCommand ELSE ownCommand]
        /\ active_command' \in {NoActiveCommand, active_command}
        /\ thread_to_process' = [thread_to_process EXCEPT ![tid] = NoPid]
    BY <1>5, Zenon DEF on_process_exit
  <2>5. processes' \in [Pid -> ProcessState]
    <3>1. (IF endsCommand THEN NoCommand ELSE ownCommand) \in CommandId \cup {NoCommand}
      BY <2>1
    <3> HIDE DEF endsCommand, ownCommand
    <3> QED BY <1>1, <2>4, <3>1, SetCommandType
  <2>6. active_command' \in ActiveCommand
    <3>1. NoActiveCommand \in ActiveCommand
      BY DEF ActiveCommand, NoActiveCommand
    <3>2. active_command \in ActiveCommand
      BY DEF TypeOK
    <3> QED BY <2>4, <3>1, <3>2
  <2> HIDE DEF events, exit, end
  <2> QED BY <1>2, <2>3, <2>4, <2>5, <2>6, EmitTypes DEF TypeOK
<1> QED
  BY <1>3, <1>4, <1>5 DEF on_process_exit

(* and system calls. *)
LEMMA SyscallTypes ==
    ASSUME TypeOK, NEW tid \in Pid, NEW ts \in Time, on_syscall_exit(tid, ts)
    PROVE  TypeOK'
<1> DEFINE pid == process_for_thread(tid)
<1>1. /\ pid \in Pid
      /\ ProcessOf(tid) \in ProcessState
      /\ ProcessOf(tid).fd_table \in [Fd -> Resource]
  BY ProcessOfType DEF ProcessState
<1>2. \A fd \in Fd : /\ ProcessOf(tid).fd_table[fd] \in Resource
                     /\ ProcessOf(tid).fd_table[fd].type = "file"
                          => ProcessOf(tid).fd_table[fd].name \in Name
  BY <1>1 DEF Resource
<1>3. ASSUME on_dropped_syscall(tid, ts) \/ on_other_syscall(tid, ts) PROVE TypeOK'
  BY <1>3, EmitNothingTypes DEF on_dropped_syscall, on_other_syscall, TypeOK, Called, state
<1>4. ASSUME NEW absolute \in BOOLEAN, NEW directory \in BOOLEAN,
             NEW dirfd \in Fd \cup {AT_FDCWD}, NEW fd \in Fd \cup {AT_FDCWD}, NEW r \in Rel,
             on_open(tid, absolute, dirfd, r, directory, fd, ts)
      PROVE  TypeOK'
  <2> DEFINE path == resolve_path(ProcessOf(tid), absolute, dirfd, r)
             opened == [type |-> "file", name |-> path, is_directory |-> directory]
  <2>1. path \in Name
    BY <1>1, ResolveType
  <2>2. opened \in Resource
    BY <2>1 DEF Resource
  <2>3. /\ SyscallEvent("file_open", tid, path, ts)
        /\ IF fd \in Fd THEN SetFd(pid, fd, opened) ELSE UNCHANGED processes
    BY <1>4 DEF on_open
  <2>4. processes' \in [Pid -> ProcessState]
    <3> HIDE DEF opened
    <3> QED BY <1>1, <2>2, <2>3, SetFdType DEF TypeOK
  <2>5. path \in NamedThing /\ "file_open" \in EventType
    BY <2>1 DEF NamedThing, EventType
  <2> HIDE DEF path
  <2> QED BY <1>4, <2>3, <2>4, <2>5, SyscallEventTypes
          DEF on_open, OnlyProcesses, Called, TypeOK
<1>5. ASSUME NEW type \in {"file_read", "file_write"}, NEW fd \in Fd,
             on_transfer(tid, type, fd, ts)
      PROVE  TypeOK'
  <2> DEFINE resource == ProcessOf(tid).fd_table[fd]
  <2>1. CASE resource.type = "file"
    <3>1. SyscallEvent(type, tid, resource.name, ts)
      BY <1>5, <2>1 DEF on_transfer
    <3>2. resource.name \in NamedThing /\ type \in EventType
      BY <1>2, <2>1 DEF NamedThing, EventType
    <3> QED BY <1>5, <3>1, <3>2, SyscallEventTypes
            DEF on_transfer, OnlyProcesses, Called, TypeOK
  <2>2. CASE resource.type # "file"
    BY <1>5, <2>2, EmitNothingTypes DEF on_transfer, OnlyProcesses, Called, TypeOK
  <2> QED BY <2>1, <2>2
<1>6. ASSUME NEW fd \in Fd, on_close(tid, fd, ts) PROVE TypeOK'
  <2>1. NoResource \in Resource
    BY DEF NoResource, Resource, Name
  <2>2. processes' \in [Pid -> ProcessState]
    BY <1>1, <1>6, <2>1, SetFdType DEF on_close
  <2> QED BY <1>6, <2>2, EmitNothingTypes DEF on_close, OnlyProcesses, Called, TypeOK
<1>7. ASSUME NEW old_fd \in Fd, NEW new_fd \in Fd, on_dup(tid, old_fd, new_fd, ts)
      PROVE  TypeOK'
  <2>1. processes' \in [Pid -> ProcessState]
    BY <1>1, <1>2, <1>7, SetFdType DEF on_dup
  <2> QED BY <1>7, <2>1, EmitNothingTypes DEF on_dup, OnlyProcesses, Called, TypeOK
<1>8. ASSUME NEW fd \in Fd, on_socket(tid, fd, ts) PROVE TypeOK'
  <2> DEFINE socket == [type |-> "socket", name |-> NoEndpoint, is_directory |-> FALSE]
  <2>1. socket \in Resource
    BY DEF Resource
  <2>2. SetFd(pid, fd, socket)
    BY <1>8 DEF on_socket
  <2>3. processes' \in [Pid -> ProcessState]
    <3> HIDE DEF socket
    <3> QED BY <1>1, <2>1, <2>2, SetFdType
  <2> QED BY <1>8, <2>3, EmitNothingTypes DEF on_socket, OnlyProcesses, Called, TypeOK
<1>9. ASSUME NEW type \in {"net_connect", "ipc_connect"}, NEW fd \in Fd,
             NEW e \in Endpoint, on_connect(tid, type, fd, e, ts)
      PROVE  TypeOK'
  <2> DEFINE resource == ProcessOf(tid).fd_table[fd]
             named == [resource EXCEPT !.name = e]
  <2>1. /\ SyscallEvent(type, tid, e, ts)
        /\ IF resource.type = "socket" THEN SetFd(pid, fd, named) ELSE UNCHANGED processes
    BY <1>9 DEF on_connect
  <2>2. resource.type = "socket" => named \in Resource
    BY <1>2 DEF Resource
  <2>3. processes' \in [Pid -> ProcessState]
    <3> HIDE DEF named, resource
    <3> QED BY <1>1, <2>1, <2>2, SetFdType DEF TypeOK
  <2>4. e \in NamedThing /\ type \in EventType
    BY DEF NamedThing, EventType
  <2> QED BY <1>9, <2>1, <2>3, <2>4, SyscallEventTypes
          DEF on_connect, OnlyProcesses, Called, TypeOK
<1>10. ASSUME NEW absolute \in BOOLEAN, NEW r \in Rel, on_chdir(tid, absolute, r, ts)
       PROVE  TypeOK'
  <2> DEFINE path == resolve_path(ProcessOf(tid), absolute, AT_FDCWD, r)
  <2>1. path \in Name
    BY <1>1, ResolveType
  <2>2. processes' = [processes EXCEPT ![pid].cwd = path]
    BY <1>10 DEF on_chdir
  <2>3. processes' \in [Pid -> ProcessState]
    <3> HIDE DEF path
    <3> QED BY <1>1, <2>1, <2>2, SetCwdType
  <2> QED BY <1>10, <2>3, EmitNothingTypes DEF on_chdir, OnlyProcesses, Called, TypeOK
<1>11. ASSUME NEW fd \in Fd, on_fchdir(tid, fd, ts) PROVE TypeOK'
  <2>1. processes' \in [Pid -> ProcessState]
    BY <1>1, <1>2, <1>11, SetCwdType DEF on_fchdir, TypeOK
  <2> QED BY <1>11, <2>1, EmitNothingTypes DEF on_fchdir, OnlyProcesses, Called, TypeOK
<1> QED
  BY <1>3, <1>4, <1>5, <1>6, <1>7, <1>8, <1>9, <1>10, <1>11 DEF on_syscall_exit

(* The states add_initial_process leaves are well typed. *)
LEMMA InitTypes == Init => TypeOK
<1> SUFFICES ASSUME Init PROVE TypeOK
  OBVIOUS
<1>1. FreshProcess(StartDir) \in ProcessState
  BY NameAssumption DEF FreshProcess, ProcessState, NoResource, Resource, Name
<1>2. 1 \in CommandId
  BY BoundAssumption DEF CommandId
<1>3. \A c \in CommandId \cup {NoCommand} :
        [FreshProcess(StartDir) EXCEPT !.command_id = c] \in ProcessState
  BY <1>1 DEF ProcessState
<1>4. processes \in [Pid -> ProcessState]
  BY <1>1, <1>2, <1>3 DEF Init, add_initial_process
<1>5. active_command \in ActiveCommand
  BY <1>2 DEF Init, add_initial_process, ActiveCommand, NoActiveCommand
<1>6. emitted \in Seq(Event)
  <2> DEFINE event == [type |-> "command_start", timestamp_ns |-> now, pid |-> Root,
                       command_id |-> 1, resource |-> NoExe]
  <2>1. event \in Event
    BY <1>2, PidAssumption DEF Init, Event, EventType
  <2>2. emitted = <<event>> \/ emitted = << >>
    BY DEF Init, add_initial_process
  <2>3. <<event>> \in Seq(Event)
    <3> HIDE DEF event
    <3> QED BY <2>1
  <2>4. << >> \in Seq(Event)
    OBVIOUS
  <2> HIDE DEF event
  <2> QED BY <2>2, <2>3, <2>4, Zenon
<1> QED
  BY <1>4, <1>5, <1>6, PidAssumption DEF Init, add_initial_process, TypeOK

(* Every step of the client keeps the state well typed. *)
LEMMA NextTypes == TypeOK /\ [Next]_vars => TypeOK'
<1> SUFFICES ASSUME TypeOK, [Next]_vars PROVE TypeOK'
  OBVIOUS
<1>1. CASE Next
  BY <1>1, MarkerTypes, ExecTypes, CreatedTypes, ExitTypes, SyscallTypes DEF Next
<1>2. CASE UNCHANGED vars
  BY <1>2 DEF vars, state, history, TypeOK
<1> QED BY <1>1, <1>2

(* The type invariant of the class, under every order of calls. *)
THEOREM TypeCorrect == Spec => []TypeOK
BY InitTypes, NextTypes, PTL DEF Spec

-----------------------------------------------------------------------------
(* What the handlers do to commands. *)

(* The bookkeeping of a single event. *)
LEMMA EmitOne ==
    ASSUME NEW e, NEW ts, Emit(<<e>>, ts)
    PROVE  /\ emitted' = <<e>>
           /\ startedAt' = [c \in CommandId |->
                IF e.type = "command_start" /\ e.command_id = c THEN ts ELSE startedAt[c]]
           /\ earliest' = [c \in CommandId |->
                IF /\ e.command_id = c
                   /\ earliest[c] = NoTime \/ ts < earliest[c]
                THEN ts ELSE earliest[c]]
           /\ ended' = ended \cup {c \in CommandId : e.type = "command_end" /\ e.command_id = c}
<1>1. \A c : Carries(<<e>>, c) <=> e.command_id = c
  BY DEF Carries
<1>2. \A type, c : Announces(<<e>>, type, c) <=> e.type = type /\ e.command_id = c
  BY DEF Announces
<1> QED
  BY <1>1, <1>2, Zenon DEF Emit

(* An event that neither starts nor ends a command moves no bracket. *)
LEMMA EmitPlain ==
    ASSUME TypeOK, NEW e, NEW ts, Emit(<<e>>, ts),
           e.type \notin {"command_start", "command_end"}
    PROVE  startedAt' = startedAt /\ ended' = ended
<1>1. startedAt' = [c \in CommandId |-> startedAt[c]]
  BY EmitOne
<1>2. ended' = ended
  BY EmitOne
<1> QED
  BY <1>1, <1>2 DEF TypeOK

(* The handlers that touch no command: same entries, same command in each. *)
KeepsCommands ==
    /\ UNCHANGED <<known, thread_to_process, active_command, startedAt, ended>>
    /\ \A p \in Pid : processes'[p].command_id = processes[p].command_id

(* The events of a handler are attributed to commands that a process holds,
   and never to the command the shell has only armed. *)
EarliestFromHolder(ts) ==
    \A c \in CommandId :
      \/ earliest'[c] = earliest[c]
      \/ /\ earliest'[c] = ts
         /\ earliest[c] = NoTime \/ ts < earliest[c]
         /\ \E p \in known : processes[p].command_id = c /\ (p = Root => ~Armed)

(* The event of a system call is attributed to a command its process holds. *)
LEMMA SyscallEventEffect ==
    ASSUME TypeOK, NEW type \in EventType \ {"command_start", "command_end"},
           NEW tid \in Pid, HasProcess(tid), NEW ts \in Time, NEW r \in NamedThing,
           SyscallEvent(type, tid, r, ts)
    PROVE  /\ startedAt' = startedAt /\ ended' = ended
           /\ EarliestFromHolder(ts)
<1> DEFINE pid == process_for_thread(tid)
           c == CommandFor(pid, ProcessOf(tid).command_id)
           e == MakeEvent(type, tid, c, r, ts)
<1>1. Emit(<<e>>, ts)
  BY DEF SyscallEvent
<1>2. e.type = type /\ e.command_id = c
  BY DEF MakeEvent
<1>3. pid \in known /\ (c # NoCommand => processes[pid].command_id = c
                                          /\ (pid = Root => ~Armed))
  BY DEF HasProcess, CommandFor, ProcessOf
<1>4. NoCommand \notin CommandId
  BY BoundAssumption DEF NoCommand, CommandId
<1>5. earliest \in [CommandId -> Time \cup {NoTime}]
  BY DEF TypeOK
<1> HIDE DEF e, c, pid
<1>6. startedAt' = startedAt /\ ended' = ended
  BY <1>1, <1>2, EmitPlain
<1>7. earliest' = [d \in CommandId |->
                IF /\ c = d
                   /\ earliest[d] = NoTime \/ ts < earliest[d]
                THEN ts ELSE earliest[d]]
  BY <1>1, <1>2, EmitOne
<1>8. EarliestFromHolder(ts)
  BY <1>3, <1>4, <1>5, <1>7 DEF EarliestFromHolder
<1> QED
  BY <1>6, <1>8

(* A handler that emits nothing moves no history. *)
LEMMA EmitNothingEffect ==
    ASSUME EmitNothing, NEW ts
    PROVE  UNCHANGED <<startedAt, earliest, ended>> /\ EarliestFromHolder(ts)
BY DEF EmitNothing, history, EarliestFromHolder

(* Changing a descriptor changes the command of no process. *)
LEMMA SetFdKeeps ==
    ASSUME TypeOK, NEW pid \in Pid, NEW fd, NEW resource, SetFd(pid, fd, resource)
    PROVE  \A p \in Pid : processes'[p].command_id = processes[p].command_id
<1>1. processes' = [processes EXCEPT ![pid] =
                      [processes[pid] EXCEPT !.fd_table =
                        [processes[pid].fd_table EXCEPT ![fd] = resource]]]
  BY DEF SetFd, TypeOK
<1>2. processes[pid] \in ProcessState
  BY DEF TypeOK
<1>3. [processes[pid] EXCEPT !.fd_table =
         [processes[pid].fd_table EXCEPT ![fd] = resource]].command_id
        = processes[pid].command_id
  BY <1>2 DEF ProcessState
<1> QED
  BY <1>1, <1>3 DEF TypeOK

(* System calls never touch a command. *)
LEMMA SyscallEffect ==
    ASSUME TypeOK, NEW tid \in Pid, NEW ts \in Time, on_syscall_exit(tid, ts)
    PROVE  KeepsCommands /\ EarliestFromHolder(ts) /\ Called(ts) /\ UNCHANGED session
<1> DEFINE pid == process_for_thread(tid)
<1>1. /\ pid \in Pid
      /\ ProcessOf(tid) \in ProcessState
      /\ ProcessOf(tid).fd_table \in [Fd -> Resource]
  BY ProcessOfType DEF ProcessState
<1>2. \A fd \in Fd : /\ ProcessOf(tid).fd_table[fd] \in Resource
                     /\ ProcessOf(tid).fd_table[fd].type = "file"
                          => ProcessOf(tid).fd_table[fd].name \in NamedThing
  BY <1>1 DEF Resource, NamedThing
<1> DEFINE Goal == KeepsCommands /\ EarliestFromHolder(ts) /\ Called(ts) /\ UNCHANGED session
<1>3. ASSUME on_dropped_syscall(tid, ts) \/ on_other_syscall(tid, ts) PROVE Goal
  BY <1>3, EmitNothingEffect DEF on_dropped_syscall, on_other_syscall, KeepsCommands, state
<1>4. ASSUME NEW absolute \in BOOLEAN, NEW directory \in BOOLEAN,
             NEW dirfd \in Fd \cup {AT_FDCWD}, NEW fd \in Fd \cup {AT_FDCWD}, NEW r \in Rel,
             on_open(tid, absolute, dirfd, r, directory, fd, ts)
      PROVE  Goal
  <2> DEFINE path == resolve_path(ProcessOf(tid), absolute, dirfd, r)
             opened == [type |-> "file", name |-> path, is_directory |-> directory]
  <2>1. path \in NamedThing
    BY <1>1, ResolveType DEF NamedThing
  <2>2. /\ SyscallEvent("file_open", tid, path, ts)
        /\ IF fd \in Fd THEN SetFd(pid, fd, opened) ELSE UNCHANGED processes
        /\ HasProcess(tid) /\ Called(ts)
        /\ OnlyProcesses
    BY <1>4 DEF on_open
  <2> HIDE DEF path, opened
  <2>3. \A p \in Pid : processes'[p].command_id = processes[p].command_id
    BY <1>1, <2>2, SetFdKeeps
  <2>4. /\ startedAt' = startedAt /\ ended' = ended
        /\ EarliestFromHolder(ts)
    BY <2>1, <2>2, SyscallEventEffect DEF EventType
  <2> QED BY <2>2, <2>3, <2>4 DEF OnlyProcesses, KeepsCommands
<1>5. ASSUME NEW type \in {"file_read", "file_write"}, NEW fd \in Fd,
             on_transfer(tid, type, fd, ts)
      PROVE  Goal
  <2> DEFINE resource == ProcessOf(tid).fd_table[fd]
  <2>1. CASE resource.type = "file"
    <3>1. SyscallEvent(type, tid, resource.name, ts) /\ HasProcess(tid)
      BY <1>5, <2>1 DEF on_transfer
    <3>2. resource.name \in NamedThing
      BY <1>2, <2>1
    <3>3. /\ startedAt' = startedAt /\ ended' = ended
          /\ EarliestFromHolder(ts)
      <4> HIDE DEF resource
      <4> QED BY <3>1, <3>2, SyscallEventEffect DEF EventType
    <3> QED BY <1>5, <3>3 DEF on_transfer, OnlyProcesses, KeepsCommands
  <2>2. CASE resource.type # "file"
    BY <1>5, <2>2, EmitNothingEffect DEF on_transfer, OnlyProcesses, KeepsCommands
  <2> QED BY <2>1, <2>2
<1>6. ASSUME NEW fd \in Fd, on_close(tid, fd, ts) PROVE Goal
  BY <1>1, <1>6, SetFdKeeps, EmitNothingEffect DEF on_close, OnlyProcesses, KeepsCommands
<1>7. ASSUME NEW old_fd \in Fd, NEW new_fd \in Fd, on_dup(tid, old_fd, new_fd, ts)
      PROVE  Goal
  BY <1>1, <1>7, SetFdKeeps, EmitNothingEffect DEF on_dup, OnlyProcesses, KeepsCommands
<1>8. ASSUME NEW fd \in Fd, on_socket(tid, fd, ts) PROVE Goal
  BY <1>1, <1>8, SetFdKeeps, EmitNothingEffect DEF on_socket, OnlyProcesses, KeepsCommands
<1>9. ASSUME NEW type \in {"net_connect", "ipc_connect"}, NEW fd \in Fd,
             NEW e \in Endpoint, on_connect(tid, type, fd, e, ts)
      PROVE  Goal
  <2>1. \A p \in Pid : processes'[p].command_id = processes[p].command_id
    BY <1>1, <1>9, SetFdKeeps DEF on_connect
  <2>2. /\ startedAt' = startedAt /\ ended' = ended
        /\ EarliestFromHolder(ts)
    BY <1>9, SyscallEventEffect DEF on_connect, EventType, NamedThing
  <2> QED BY <1>9, <2>1, <2>2 DEF on_connect, OnlyProcesses, KeepsCommands
<1>10. ASSUME NEW name, processes' = [processes EXCEPT ![pid].cwd = name]
       PROVE  \A p \in Pid : processes'[p].command_id = processes[p].command_id
  <2>1. [processes[pid] EXCEPT !.cwd = name].command_id = processes[pid].command_id
    BY <1>1 DEF ProcessState, ProcessOf
  <2> QED BY <1>10, <2>1 DEF TypeOK
<1>11. ASSUME NEW absolute \in BOOLEAN, NEW r \in Rel, on_chdir(tid, absolute, r, ts)
       PROVE  Goal
  <2>1. \A p \in Pid : processes'[p].command_id = processes[p].command_id
    BY <1>10, <1>11 DEF on_chdir
  <2> QED BY <1>11, <2>1, EmitNothingEffect DEF on_chdir, OnlyProcesses, KeepsCommands
<1>12. ASSUME NEW fd \in Fd, on_fchdir(tid, fd, ts) PROVE Goal
  <2>1. \A p \in Pid : processes'[p].command_id = processes[p].command_id
    BY <1>10, <1>12 DEF on_fchdir
  <2> QED BY <1>12, <2>1, EmitNothingEffect DEF on_fchdir, OnlyProcesses, KeepsCommands
<1> QED
  BY <1>3, <1>4, <1>5, <1>6, <1>7, <1>8, <1>9, <1>11, <1>12 DEF on_syscall_exit

(* Steps that touch no command keep both invariants. *)
LEMMA KeepsCommandsInv ==
    ASSUME TypeOK, TypeOK', CommandsInv, KeepsCommands
    PROVE  CommandsInv'
<1> USE PidAssumption DEF KeepsCommands
<1>1. RootCommandSync' /\ ThreadIndexSound'
  BY DEF CommandsInv, RootCommandSync, ThreadIndexSound
<1>2. CommandsBracketed'
  BY DEF CommandsInv, CommandsBracketed
<1> QED
  BY <1>1, <1>2 DEF CommandsInv, Armed, NoActiveCommand

LEMMA KeepsTimelineInv ==
    ASSUME TypeOK, TypeOK', CommandsInv, TimelineInv, KeepsCommands,
           NEW ts \in Time, ts >= now, now' = ts, EarliestFromHolder(ts)
    PROVE  TimelineInv'
<1> USE PidAssumption DEF KeepsCommands
<1>1. /\ \A c \in CommandId : startedAt[c] \in Nat /\ earliest[c] \in Nat
      /\ \A c \in CommandId : earliest'[c] \in Nat
      /\ now \in Nat /\ ts \in Nat \ {0}
  BY BoundAssumption DEF TypeOK, Time, NoTime
<1>2. CommandStartIsEarliest'
  BY <1>1 DEF TimelineInv, CommandStartIsEarliest, EarliestFromHolder, NoTime
<1>3. \A c \in CommandId : startedAt'[c] <= now' /\ earliest'[c] <= now'
  BY <1>1 DEF TimelineInv, EarliestFromHolder
<1>4. \A c \in CommandId : earliest[c] # NoTime => earliest'[c] # NoTime
  BY <1>1 DEF EarliestFromHolder, NoTime
<1>5. \A p \in known' \ {Root} :
         processes'[p].command_id # NoCommand =>
           earliest'[processes'[p].command_id] # NoTime
  <2>1. \A p \in known : p \in Pid /\ processes[p].command_id \in CommandId \cup {NoCommand}
    BY DEF TypeOK, ProcessState
  <2> QED BY <1>4, <2>1 DEF TimelineInv
<1>6. ASSUME Armed' PROVE earliest'[active_command'.id] = active_command'.first_process_ns
  <2> DEFINE id == active_command.id
  <2>1. Armed /\ id \in CommandId /\ earliest[id] = active_command.first_process_ns
    BY <1>6 DEF Armed, TimelineInv, TypeOK, ActiveCommand
  <2>2. ASSUME earliest'[id] # earliest[id] PROVE FALSE
    <3>1. PICK p \in known : processes[p].command_id = id /\ p # Root
                             /\ (earliest[id] = NoTime \/ ts < earliest[id])
      BY <2>1, <2>2 DEF EarliestFromHolder
    <3>2. earliest[id] # NoTime
      BY <2>1, <3>1, BoundAssumption DEF TimelineInv, CommandId, NoCommand
    <3>3. earliest[id] <= now
      BY <2>1 DEF TimelineInv
    <3> QED BY <1>1, <2>1, <3>1, <3>2, <3>3
  <2> QED BY <2>1, <2>2
<1> QED
  BY <1>2, <1>3, <1>5, <1>6 DEF TimelineInv

-----------------------------------------------------------------------------
(* The command invariant, handler by handler. *)

(* The effect of an accepted marker on the copies and the brackets. *)
LEMMA MarkerCommands ==
    ASSUME TypeOK, TypeOK', CommandsInv, NEW tid \in Pid, NEW ts \in Time,
           on_command_marker(tid, ts)
    PROVE  CommandsInv'
<1>1. PICK id \in CommandId :
         \/ Unused(id) /\ on_arm_marker(tid, id, ts)
         \/ on_start_marker(tid, id, ts)
         \/ on_end_marker(tid, id, ts)
         \/ \E type \in {"arm", "start", "end"} : on_bad_marker(tid, type, id, ts)
         \/ on_foreign_marker(tid, ts)
  BY DEF on_command_marker
<1> USE PidAssumption
<1>2. NoCommand \notin CommandId /\ NoTime \notin Time
  BY BoundAssumption DEF NoCommand, CommandId, NoTime, Time
<1>3. CASE Unused(id) /\ on_arm_marker(tid, id, ts)
  <2>1. /\ processes' = [processes EXCEPT ![Root].command_id = id]
        /\ active_command' = [id |-> id, first_process_ns |-> NoTime, started |-> FALSE]
        /\ UNCHANGED <<known, thread_to_process, startedAt, ended>>
        /\ active_command.id = NoCommand
    BY <1>3 DEF on_arm_marker, EmitNothing, history, ArmFits
  <2>2. processes'[Root].command_id = id
    BY <2>1 DEF TypeOK, ProcessState
  <2>3. RootCommandSync' /\ ThreadIndexSound'
    BY <2>1, <2>2 DEF CommandsInv, RootCommandSync, ThreadIndexSound
  <2>4. CommandsBracketed'
    BY <2>1 DEF CommandsInv, CommandsBracketed, NoActiveCommand
  <2>5. startedAt[id] = NoTime
    BY <1>3 DEF Unused
  <2> QED BY <1>2, <2>1, <2>3, <2>4, <2>5 DEF CommandsInv, Armed, NoActiveCommand
<1>4. CASE on_start_marker(tid, id, ts)
  <2> DEFINE at == IF active_command.first_process_ns = NoTime THEN ts
                   ELSE active_command.first_process_ns
             event == MakeEvent("command_start", tid, id, NoExe, at)
  <2>1. /\ active_command' = [active_command EXCEPT !.started = TRUE]
        /\ Emit(<<event>>, at)
        /\ UNCHANGED <<known, processes, thread_to_process>>
        /\ StartFits(id)
    BY <1>4 DEF on_start_marker
  <2>2. at \in Time
    BY DEF TypeOK, ActiveCommand
  <2>3. active_command'.id = id /\ active_command'.started
    BY <2>1 DEF TypeOK, ActiveCommand, StartFits, Names
  <2>4. event.type = "command_start" /\ event.command_id = id
    BY DEF MakeEvent
  <2> HIDE DEF at, event
  <2>5. /\ startedAt' = [c \in CommandId |-> IF c = id THEN at ELSE startedAt[c]]
        /\ ended' = ended
    BY <2>1, <2>4, EmitOne
  <2>6. RootCommandSync' /\ ThreadIndexSound'
    BY <2>1, <2>3 DEF CommandsInv, RootCommandSync, ThreadIndexSound, StartFits, Names
  <2>7. startedAt[id] = NoTime /\ id \notin ended
    BY <1>2, <2>1 DEF CommandsInv, Armed, StartFits, Names, CommandsBracketed
  <2>8. {c \in CommandId : startedAt[c] # NoTime} \ ended = {}
    BY <2>1 DEF CommandsInv, CommandsBracketed, StartFits, Names
  <2>9. CommandsBracketed'
    BY <1>2, <2>2, <2>3, <2>5, <2>7, <2>8 DEF CommandsInv, CommandsBracketed, TypeOK
  <2> QED BY <1>2, <2>3, <2>6, <2>9 DEF CommandsInv, Armed, NoActiveCommand
<1>5. CASE on_end_marker(tid, id, ts)
  <2> DEFINE event == MakeEvent("command_end", tid, id, NoExe, ts)
  <2>1. /\ active_command' = NoActiveCommand
        /\ Emit(<<event>>, ts)
        /\ processes' = [processes EXCEPT ![Root].command_id = NoCommand]
        /\ UNCHANGED <<known, thread_to_process>>
        /\ active_command.id = id /\ active_command.started
    BY <1>5 DEF on_end_marker, EndFits, Names
  <2>2. event.type = "command_end" /\ event.command_id = id
    BY DEF MakeEvent
  <2> HIDE DEF event
  <2>3. /\ startedAt' = [c \in CommandId |-> startedAt[c]]
        /\ ended' = ended \cup {id}
    BY <2>1, <2>2, EmitOne
  <2>4. processes'[Root].command_id = NoCommand
    BY <2>1 DEF TypeOK, ProcessState
  <2>5. RootCommandSync' /\ ThreadIndexSound'
    BY <2>1, <2>4 DEF CommandsInv, RootCommandSync, ThreadIndexSound, NoActiveCommand
  <2>6. CommandsBracketed'
    BY <2>1, <2>3 DEF CommandsInv, CommandsBracketed, NoActiveCommand, TypeOK
  <2> QED BY <1>2, <2>1, <2>5, <2>6 DEF CommandsInv, Armed, NoActiveCommand
<1>6. CASE \E type \in {"arm", "start", "end"} : on_bad_marker(tid, type, id, ts)
  BY <1>6, KeepsCommandsInv DEF on_bad_marker, state, EmitNothing, history, KeepsCommands
<1>7. CASE on_foreign_marker(tid, ts)
  BY <1>7, KeepsCommandsInv DEF on_foreign_marker, state, EmitNothing, history, KeepsCommands
<1> QED
  BY <1>1, <1>3, <1>4, <1>5, <1>6, <1>7

(* The effect of an exec: the entry of a known process keeps its command, a
   discovered process has none. *)
LEMMA ExecEffect ==
    ASSUME TypeOK, CommandsInv, NEW tid \in Pid, NEW ts \in Time, NEW exe,
           NEW cwd, on_process_exec(tid, exe, cwd, ts)
    PROVE  /\ UNCHANGED <<active_command, startedAt, ended>>
           /\ EarliestFromHolder(ts)
           /\ now' = ts /\ (ts >= now \/ ClockMayStepBack)
           /\ \/ KeepsCommands
              \/ /\ tid \notin known
                 /\ known' = known \cup {tid}
                 /\ thread_to_process' = [thread_to_process EXCEPT ![tid] = tid]
                 /\ processes'[tid].command_id = NoCommand
                 /\ \A p \in Pid \ {tid} : processes'[p] = processes[p]
<1> DEFINE pid == process_for_thread(tid)
           before == IF HasProcess(tid) THEN ProcessOf(tid) ELSE FreshProcess(cwd)
           after == [before EXCEPT !.executable = exe]
           c == CommandFor(pid, before.command_id)
           e == MakeEvent("process_exec", tid, c, exe, ts)
<1>1. /\ Emit(<<e>>, ts)
      /\ known' = known \cup {pid}
      /\ processes' = [processes EXCEPT ![pid] = after]
      /\ thread_to_process' = IF HasProcess(tid) THEN thread_to_process
                              ELSE [thread_to_process EXCEPT ![tid] = tid]
      /\ UNCHANGED active_command
      /\ now' = ts /\ (ts >= now \/ ClockMayStepBack)
  BY DEF on_process_exec, Called
<1>2. e.type = "process_exec" /\ e.command_id = c
  BY DEF MakeEvent
<1>3. after.command_id = before.command_id
  <2>1. CASE HasProcess(tid)
    BY <2>1, ProcessOfType DEF ProcessState
  <2>2. CASE ~HasProcess(tid)
    BY <2>2 DEF FreshProcess
  <2> QED BY <2>1, <2>2
<1>4. /\ HasProcess(tid) => pid \in known /\ before = processes[pid]
      /\ ~HasProcess(tid) => before.command_id = NoCommand /\ pid = tid /\ tid \notin known
  BY DEF HasProcess, ProcessOf, FreshProcess, CommandsInv, ThreadIndexSound,
         process_for_thread
<1>5. c # NoCommand => /\ pid \in known
                       /\ processes[pid].command_id = c
                       /\ pid = Root => ~Armed
  BY <1>4 DEF CommandFor
<1>6. NoCommand \notin CommandId
  BY BoundAssumption DEF NoCommand, CommandId
<1>7. pid \in Pid
  BY ProcessOfType
<1> HIDE DEF e, c, before, after, pid
<1>8. startedAt' = startedAt /\ ended' = ended
  BY <1>1, <1>2, EmitPlain
<1>9. EarliestFromHolder(ts)
  <2>1. earliest' = [d \in CommandId |->
                IF /\ c = d
                   /\ earliest[d] = NoTime \/ ts < earliest[d]
                THEN ts ELSE earliest[d]]
    BY <1>1, <1>2, EmitOne
  <2> QED BY <1>5, <1>6, <2>1 DEF EarliestFromHolder
<1>10. CASE HasProcess(tid)
  <2>1. \A p \in Pid : processes'[p].command_id = processes[p].command_id
    BY <1>1, <1>3, <1>4, <1>7, <1>10 DEF TypeOK
  <2> QED BY <1>1, <1>4, <1>8, <1>9, <1>10, <2>1 DEF KeepsCommands
<1>11. CASE ~HasProcess(tid)
  BY <1>1, <1>3, <1>4, <1>8, <1>9, <1>11 DEF TypeOK
<1> QED
  BY <1>10, <1>11

(* An exec keeps the command invariant. *)
LEMMA ExecCommands ==
    ASSUME TypeOK, TypeOK', CommandsInv, NEW tid \in Pid, NEW ts \in Time, NEW exe,
           NEW cwd, on_process_exec(tid, exe, cwd, ts)
    PROVE  CommandsInv'
<1>1. CASE KeepsCommands
  BY <1>1, KeepsCommandsInv
<1>2. CASE ~KeepsCommands
  <2>1. /\ UNCHANGED <<active_command, startedAt, ended>>
        /\ tid \notin known
        /\ known' = known \cup {tid}
        /\ thread_to_process' = [thread_to_process EXCEPT ![tid] = tid]
        /\ \A p \in Pid \ {tid} : processes'[p] = processes[p]
    BY <1>2, ExecEffect
  <2>2. RootCommandSync' /\ ThreadIndexSound'
    BY <2>1, PidAssumption DEF CommandsInv, RootCommandSync, ThreadIndexSound, TypeOK
  <2>3. CommandsBracketed'
    BY <2>1 DEF CommandsInv, CommandsBracketed
  <2> QED BY <2>1, <2>2, <2>3 DEF CommandsInv, Armed, NoActiveCommand
<1> QED BY <1>1, <1>2

(* The effect of a creation: a thread changes the index only, a process gets
   an entry with the command of its parent, reported in the fork event. *)
LEMMA CreatedEffect ==
    ASSUME TypeOK, NEW tid \in Pid, NEW ts \in Time, NEW child_tid \in Pid \ {Root},
           NEW is_thread \in BOOLEAN, on_process_created(tid, child_tid, is_thread, ts),
           NEW parent_pid, parent_pid = process_for_thread(tid)
    PROVE  /\ now' = ts /\ (ts >= now \/ ClockMayStepBack)
           /\ UNCHANGED <<startedAt, ended>>
           /\ \/ KeepsCommands /\ UNCHANGED earliest /\ emitted' = << >>
              \/ /\ UNCHANGED <<known, processes, active_command, earliest>>
                 /\ emitted' = << >>
                 /\ parent_pid \in known
                 /\ thread_to_process' = [thread_to_process EXCEPT ![child_tid] = parent_pid]
              \/ /\ parent_pid \in known
                 /\ known' = known \cup {child_tid}
                 /\ thread_to_process' = [thread_to_process EXCEPT ![child_tid] = child_tid]
                 /\ \A p \in Pid \ {child_tid} : processes'[p] = processes[p]
                 /\ processes'[child_tid].command_id = processes[parent_pid].command_id
                 /\ active_command' =
                      IF /\ parent_pid = Root /\ Armed
                         /\ active_command.first_process_ns = NoTime
                      THEN [active_command EXCEPT !.first_process_ns = ts]
                      ELSE active_command
                 /\ earliest' = [c \in CommandId |->
                      IF /\ processes[parent_pid].command_id = c
                         /\ earliest[c] = NoTime \/ ts < earliest[c]
                      THEN ts ELSE earliest[c]]
                 /\ emitted' = <<MakeEvent("process_fork", tid,
                                   processes[parent_pid].command_id, child_tid, ts)>>
<1> DEFINE parent == processes[parent_pid]
           child == [parent EXCEPT !.parent_pid = parent_pid]
           event == MakeEvent("process_fork", tid, parent.command_id, child_tid, ts)
<1>1. now' = ts /\ (ts >= now \/ ClockMayStepBack)
  BY DEF on_process_created, Called
<1>2. CASE ~HasProcess(tid)
  BY <1>1, <1>2 DEF on_process_created, EmitNothing, history, state, KeepsCommands
<1>3. CASE HasProcess(tid) /\ is_thread
  BY <1>1, <1>3 DEF on_process_created, EmitNothing, history, HasProcess
<1>4. CASE HasProcess(tid) /\ ~is_thread
  <2>1. /\ Emit(<<event>>, ts)
        /\ processes' = [processes EXCEPT ![child_tid] = child]
        /\ known' = known \cup {child_tid}
        /\ thread_to_process' = [thread_to_process EXCEPT ![child_tid] = child_tid]
        /\ active_command' =
                      IF /\ parent_pid = Root /\ Armed
                         /\ active_command.first_process_ns = NoTime
                      THEN [active_command EXCEPT !.first_process_ns = ts]
                      ELSE active_command
    BY <1>4 DEF on_process_created
  <2>2. parent_pid \in known /\ parent \in ProcessState
    BY <1>4, ProcessOfType DEF HasProcess, ProcessOf
  <2>3. child.command_id = parent.command_id
    BY <2>2 DEF ProcessState
  <2>4. event.type = "process_fork" /\ event.command_id = parent.command_id
    BY DEF MakeEvent
  <2>5. /\ \A p \in Pid \ {child_tid} : processes'[p] = processes[p]
        /\ processes'[child_tid].command_id = parent.command_id
    <3> HIDE DEF child
    <3> QED BY <2>1, <2>3 DEF TypeOK
  <2> HIDE DEF event
  <2>6. startedAt' = startedAt /\ ended' = ended
    BY <2>1, <2>4, EmitPlain
  <2>7. /\ emitted' = <<event>>
        /\ earliest' = [c \in CommandId |->
                      IF /\ parent.command_id = c
                         /\ earliest[c] = NoTime \/ ts < earliest[c]
                      THEN ts ELSE earliest[c]]
    BY <2>1, <2>4, EmitOne
  <2> QED BY <1>1, <2>1, <2>2, <2>5, <2>6, <2>7 DEF event
<1> QED
  BY <1>2, <1>3, <1>4

(* A creation keeps the command invariant. *)
LEMMA CreatedCommands ==
    ASSUME TypeOK, TypeOK', CommandsInv, NEW tid \in Pid, NEW ts \in Time,
           NEW child_tid \in Pid \ {Root}, NEW is_thread \in BOOLEAN,
           on_process_created(tid, child_tid, is_thread, ts)
    PROVE  CommandsInv'
<1> DEFINE parent_pid == process_for_thread(tid)
<1>1. CASE KeepsCommands
  BY <1>1, KeepsCommandsInv
<1>2. CASE ~KeepsCommands
  <2>1. /\ UNCHANGED <<startedAt, ended>>
        /\ parent_pid \in known
        /\ known' \in {known, known \cup {child_tid}}
        /\ \/ thread_to_process' = [thread_to_process EXCEPT ![child_tid] = parent_pid]
           \/ /\ thread_to_process' = [thread_to_process EXCEPT ![child_tid] = child_tid]
              /\ child_tid \in known'
        /\ \A p \in Pid \ {child_tid} : processes'[p] = processes[p]
        /\ active_command' \in {active_command, [active_command EXCEPT !.first_process_ns = ts]}
        /\ active_command.id = NoCommand => active_command' = active_command
    BY <1>2, CreatedEffect DEF Armed
  <2>2. active_command'.id = active_command.id /\ active_command'.started = active_command.started
    BY <2>1 DEF TypeOK, ActiveCommand
  <2>3. RootCommandSync'
    BY <2>1, <2>2, PidAssumption DEF CommandsInv, RootCommandSync
  <2>4. ThreadIndexSound'
    BY <2>1 DEF CommandsInv, ThreadIndexSound, TypeOK
  <2>5. CommandsBracketed'
    BY <2>1, <2>2 DEF CommandsInv, CommandsBracketed
  <2> QED BY <2>1, <2>2, <2>3, <2>4, <2>5 DEF CommandsInv, Armed, NoActiveCommand
<1> QED BY <1>1, <1>2

(* The effect of an exit: only the death of the root touches a command. *)
LEMMA ExitEffect ==
    ASSUME TypeOK, CommandsInv, NEW tid \in Pid, NEW ts \in Time, on_process_exit(tid, ts)
    PROVE  /\ now' = ts /\ (ts >= now \/ ClockMayStepBack)
           /\ UNCHANGED known
           /\ thread_to_process' \in {thread_to_process, [thread_to_process EXCEPT ![tid] = NoPid]}
           /\ EarliestFromHolder(ts)
           /\ \/ /\ \A p \in Pid : processes'[p].command_id = processes[p].command_id
                 /\ UNCHANGED <<active_command, startedAt, ended>>
              \/ /\ tid = Root
                 /\ processes'[Root].command_id = NoCommand
                 /\ \A p \in Pid \ {Root} : processes'[p] = processes[p]
                 /\ active_command' = NoActiveCommand
                 /\ startedAt' = startedAt
                 /\ ended' = ended \cup
                      (IF active_command.started THEN {active_command.id} ELSE {})
<1> DEFINE pid == process_for_thread(tid)
           process == processes[pid]
           ownCommand == IF pid = Root /\ Armed THEN NoCommand ELSE process.command_id
           c == CommandFor(pid, ownCommand)
           exit == MakeEvent("process_exit", tid, c, process.executable, ts)
           endsCommand == /\ pid = Root /\ active_command.id # NoCommand
                          /\ active_command.started /\ ownCommand # NoCommand
           end == MakeEvent("command_end", tid, ownCommand, NoExe, ts)
           newCommand == IF endsCommand THEN NoCommand ELSE ownCommand
<1>1. /\ now' = ts /\ (ts >= now \/ ClockMayStepBack)
      /\ UNCHANGED known
      /\ pid \in Pid /\ process \in ProcessState
  BY ProcessOfType DEF on_process_exit, Called, ProcessOf
<1>2. CASE tid # pid
  BY <1>1, <1>2, EmitNothingEffect DEF on_process_exit
<1>3. CASE tid = pid /\ pid \notin known
  BY <1>1, <1>3, EmitNothingEffect DEF on_process_exit
<1>4. CASE tid = pid /\ pid \in known
  <2>1. /\ Emit(IF endsCommand THEN <<exit, end>> ELSE <<exit>>, ts)
        /\ processes' = [processes EXCEPT ![pid].command_id = newCommand]
        /\ active_command' = IF pid = Root THEN NoActiveCommand ELSE active_command
        /\ thread_to_process' = [thread_to_process EXCEPT ![tid] = NoPid]
    BY <1>4, Zenon DEF on_process_exit
  <2>2. /\ exit.type = "process_exit" /\ exit.command_id = c
        /\ end.type = "command_end" /\ end.command_id = ownCommand
    BY DEF MakeEvent
  <2>3. /\ processes'[pid].command_id = newCommand
        /\ \A p \in Pid \ {pid} : processes'[p] = processes[p]
    <3> HIDE DEF newCommand
    <3> QED BY <1>1, <2>1 DEF TypeOK, ProcessState
  <2>4. NoCommand \notin CommandId
    BY BoundAssumption DEF NoCommand, CommandId
  <2>5. ownCommand # NoCommand => /\ ownCommand = process.command_id
                                  /\ pid = Root => ~Armed
    OBVIOUS
  <2>6. c \in {ownCommand, NoCommand}
    BY DEF CommandFor
  <2>7. CASE ~endsCommand
    <3> HIDE DEF exit, end, c, ownCommand, endsCommand
    <3>1. Emit(<<exit>>, ts)
      BY <2>1, <2>7
    <3>2. startedAt' = startedAt /\ ended' = ended
      BY <2>2, <3>1, EmitPlain
    <3>3. earliest' = [d \in CommandId |->
                IF /\ c = d
                   /\ earliest[d] = NoTime \/ ts < earliest[d]
                THEN ts ELSE earliest[d]]
      BY <2>2, <3>1, EmitOne
    <3>4. EarliestFromHolder(ts)
      BY <1>4, <2>4, <2>5, <2>6, <3>3 DEF EarliestFromHolder
    <3>5. CASE pid # Root
      <4>1. newCommand = processes[pid].command_id
        BY <2>7, <3>5 DEF ownCommand
      <4> QED BY <1>1, <2>1, <2>3, <3>2, <3>4, <3>5, <4>1
    <3>6. CASE pid = Root
      <4>1. newCommand = NoCommand /\ ~active_command.started
        BY <2>7, <3>6 DEF ownCommand, endsCommand, CommandsInv, RootCommandSync, Armed,
                          NoActiveCommand
      <4> QED BY <1>1, <1>4, <2>1, <2>3, <3>2, <3>4, <3>6, <4>1
    <3> QED BY <3>5, <3>6
  <2>8. CASE endsCommand
    <3>1. /\ pid = Root /\ active_command.started /\ ~Armed
          /\ ownCommand = active_command.id /\ c = ownCommand /\ newCommand = NoCommand
      BY <2>8 DEF CommandsInv, RootCommandSync, Armed, CommandFor
    <3> HIDE DEF exit, end, c, ownCommand, endsCommand
    <3>2. Emit(<<exit, end>>, ts)
      BY <2>1, <2>8
    <3>3. \A d : Carries(<<exit, end>>, d) <=> c = d \/ ownCommand = d
      BY <2>2 DEF Carries
    <3>4. \A d : Announces(<<exit, end>>, "command_end", d) <=> d = ownCommand
      BY <2>2 DEF Announces
    <3>5. \A d : ~Announces(<<exit, end>>, "command_start", d)
      BY <2>2 DEF Announces
    <3>6. startedAt' = startedAt
      BY <3>2, <3>5 DEF Emit, TypeOK
    <3>7. ended' = ended \cup {active_command.id}
      BY <2>4, <3>1, <3>2, <3>4, <2>8 DEF Emit, endsCommand, TypeOK, ActiveCommand
    <3>8. EarliestFromHolder(ts)
      BY <1>4, <3>1, <3>2, <3>3, <2>5, <2>8 DEF Emit, EarliestFromHolder, endsCommand
    <3> QED BY <1>1, <1>4, <2>1, <2>3, <3>1, <3>6, <3>7, <3>8
  <2> QED BY <2>7, <2>8
<1> QED
  BY <1>2, <1>3, <1>4

(* An exit keeps the command invariant. *)
LEMMA ExitCommands ==
    ASSUME TypeOK, TypeOK', CommandsInv, NEW tid \in Pid, NEW ts \in Time,
           on_process_exit(tid, ts)
    PROVE  CommandsInv'
<1>1. /\ UNCHANGED known
      /\ thread_to_process' \in {thread_to_process, [thread_to_process EXCEPT ![tid] = NoPid]}
  BY ExitEffect
<1>2. ThreadIndexSound'
  BY <1>1 DEF CommandsInv, ThreadIndexSound, TypeOK
<1>3. CASE /\ \A p \in Pid : processes'[p].command_id = processes[p].command_id
           /\ UNCHANGED <<active_command, startedAt, ended>>
  <2>1. RootCommandSync'
    BY <1>1, <1>3, PidAssumption DEF CommandsInv, RootCommandSync
  <2>2. CommandsBracketed'
    BY <1>3 DEF CommandsInv, CommandsBracketed
  <2> QED BY <1>2, <1>3, <2>1, <2>2 DEF CommandsInv, Armed, NoActiveCommand
<1>4. CASE /\ processes'[Root].command_id = NoCommand
           /\ active_command' = NoActiveCommand
           /\ startedAt' = startedAt
           /\ ended' = ended \cup
                      (IF active_command.started THEN {active_command.id} ELSE {})
  <2>1. RootCommandSync'
    BY <1>1, <1>4 DEF CommandsInv, RootCommandSync, NoActiveCommand
  <2>2. active_command.started => startedAt[active_command.id] # NoTime
    BY DEF CommandsInv, CommandsBracketed
  <2>3. CommandsBracketed'
    BY <1>4, <2>2 DEF CommandsInv, CommandsBracketed, NoActiveCommand
  <2> QED BY <1>2, <1>4, <2>1, <2>3 DEF CommandsInv, Armed, NoActiveCommand
<1> QED
  BY <1>3, <1>4, ExitEffect

(* add_initial_process establishes the command invariant. *)
LEMMA InitCommands == Init => CommandsInv
<1> SUFFICES ASSUME Init PROVE CommandsInv
  OBVIOUS
<1>1. 1 \in CommandId /\ NoTime \notin Time /\ now \in Time /\ Root \in Pid /\ NoPid # Root
  BY BoundAssumption, PidAssumption DEF CommandId, NoTime, Time, Init
<1>2. RootCommandSync
  <2>1. FreshProcess(StartDir).command_id = NoCommand
        /\ \A c : [FreshProcess(StartDir) EXCEPT !.command_id = c].command_id = c
    BY DEF FreshProcess
  <2> QED BY <1>1, <2>1 DEF Init, add_initial_process, RootCommandSync, NoActiveCommand
<1>3. ThreadIndexSound
  BY <1>1 DEF Init, add_initial_process, ThreadIndexSound
<1>4. CommandsBracketed
  BY <1>1 DEF Init, add_initial_process, CommandsBracketed, NoActiveCommand
<1>5. /\ active_command.id = NoCommand => active_command = NoActiveCommand
      /\ ~Armed
  BY DEF Init, add_initial_process, Armed, NoActiveCommand, NoCommand
<1> QED
  BY <1>2, <1>3, <1>4, <1>5 DEF CommandsInv

(* Every step of the client keeps the command invariant. *)
LEMMA NextCommands == TypeOK /\ CommandsInv /\ [Next]_vars => CommandsInv'
<1> SUFFICES ASSUME TypeOK, CommandsInv, [Next]_vars PROVE CommandsInv'
  OBVIOUS
<1>1. TypeOK'
  BY NextTypes
<1>2. CASE Next
  BY <1>1, <1>2, MarkerCommands, ExecCommands, CreatedCommands, ExitCommands,
     SyscallEffect, KeepsCommandsInv DEF Next
<1>3. CASE UNCHANGED vars
  BY <1>1, <1>3, KeepsCommandsInv DEF vars, state, history, KeepsCommands
<1> QED BY <1>2, <1>3

LEMMA CommandsAlways == Spec => []CommandsInv
BY InitCommands, NextCommands, TypeCorrect, PTL DEF Spec

(* The two copies of the active command agree after every sequence of calls. *)
THEOREM CopiesAgree == Spec => []RootCommandSync
<1>1. CommandsInv => RootCommandSync
  BY DEF CommandsInv
<1> QED BY <1>1, CommandsAlways, PTL

(* The copies of the active command agree, the thread index is sound and the
   sink sees commands bracketed, whatever the order of the calls. *)
THEOREM CommandsCorrect == Spec => [](RootCommandSync /\ ThreadIndexSound /\ CommandsBracketed)
<1>1. CommandsInv => RootCommandSync /\ ThreadIndexSound /\ CommandsBracketed
  BY DEF CommandsInv
<1> QED BY <1>1, CommandsAlways, PTL

-----------------------------------------------------------------------------
(* Time stamps, for a clock that is not set back. *)

(* Time stamps are natural numbers and "none" is below all of them. *)
LEMMA TimesAreNat ==
    ASSUME TypeOK
    PROVE  /\ \A c \in CommandId : startedAt[c] \in Nat /\ earliest[c] \in Nat
           /\ now \in Nat \ {0}
           /\ Time \subseteq Nat \ {0}
           /\ active_command.first_process_ns \in Nat
           /\ NoCommand \notin CommandId
           /\ \A p \in Pid : processes[p].command_id \in CommandId \cup {NoCommand}
           /\ active_command.id \in CommandId \cup {NoCommand}
           /\ known \subseteq Pid
<1>1. Time \subseteq Nat \ {0} /\ NoTime \in Nat /\ NoCommand \notin CommandId
  BY BoundAssumption DEF Time, NoTime, CommandId, NoCommand
<1>2. /\ now \in Time /\ known \subseteq Pid
      /\ \A c \in CommandId : /\ startedAt[c] \in Time \cup {NoTime}
                              /\ earliest[c] \in Time \cup {NoTime}
  BY DEF TypeOK
<1>3. /\ active_command.first_process_ns \in Time \cup {NoTime}
      /\ active_command.id \in CommandId \cup {NoCommand}
  BY DEF TypeOK, ActiveCommand
<1>4. \A p \in Pid : processes[p].command_id \in CommandId \cup {NoCommand}
  BY DEF TypeOK, ProcessState
<1> QED
  BY <1>1, <1>2, <1>3, <1>4

(* Markers keep the timeline. *)
LEMMA MarkerTimeline ==
    ASSUME TypeOK, TypeOK', CommandsInv, TimelineInv, NEW tid \in Pid, NEW ts \in Time,
           on_command_marker(tid, ts), ~ClockMayStepBack
    PROVE  TimelineInv'
<1>1. PICK id \in CommandId :
         \/ Unused(id) /\ on_arm_marker(tid, id, ts)
         \/ on_start_marker(tid, id, ts)
         \/ on_end_marker(tid, id, ts)
         \/ \E type \in {"arm", "start", "end"} : on_bad_marker(tid, type, id, ts)
         \/ on_foreign_marker(tid, ts)
  BY DEF on_command_marker
<1>2. now' = ts /\ ts >= now
  BY <1>1 DEF on_arm_marker, on_start_marker, on_end_marker, on_bad_marker,
              on_foreign_marker, Called
<1> USE PidAssumption, TimesAreNat
<1>3. CASE Unused(id) /\ on_arm_marker(tid, id, ts)
  <2>1. /\ processes' = [processes EXCEPT ![Root].command_id = id]
        /\ active_command' = [id |-> id, first_process_ns |-> NoTime, started |-> FALSE]
        /\ UNCHANGED <<known, startedAt, earliest>>
        /\ earliest[id] = NoTime
    BY <1>3 DEF on_arm_marker, EmitNothing, history, Unused
  <2>2. \A p \in Pid \ {Root} : processes'[p] = processes[p]
    BY <2>1 DEF TypeOK
  <2>3. CommandStartIsEarliest'
    BY <2>1 DEF TimelineInv, CommandStartIsEarliest
  <2>4. \A c \in CommandId : startedAt'[c] <= now' /\ earliest'[c] <= now'
    BY <1>2, <2>1 DEF TimelineInv
  <2>5. \A p \in known' \ {Root} : processes'[p].command_id # NoCommand =>
           earliest'[processes'[p].command_id] # NoTime
    BY <2>1, <2>2 DEF TimelineInv
  <2> QED BY <2>1, <2>3, <2>4, <2>5 DEF TimelineInv, Armed
<1>4. CASE on_start_marker(tid, id, ts)
  <2> DEFINE at == IF active_command.first_process_ns = NoTime THEN ts
                   ELSE active_command.first_process_ns
             event == MakeEvent("command_start", tid, id, NoExe, at)
  <2>1. /\ active_command' = [active_command EXCEPT !.started = TRUE]
        /\ Emit(<<event>>, at)
        /\ UNCHANGED <<known, processes>>
        /\ active_command.id = id /\ ~active_command.started
    BY <1>4 DEF on_start_marker, StartFits, Names
  <2>2. earliest[id] = active_command.first_process_ns
    BY <2>1 DEF TimelineInv, Armed
  <2>3. at \in Nat \ {0} /\ at <= ts /\ (earliest[id] # NoTime => at = earliest[id])
    <3>1. earliest[id] <= now
      BY DEF TimelineInv
    <3> QED BY <1>2, <2>2, <3>1 DEF NoTime
  <2>4. event.type = "command_start" /\ event.command_id = id
    BY DEF MakeEvent
  <2> HIDE DEF at, event
  <2>5. startedAt' = [c \in CommandId |-> IF c = id THEN at ELSE startedAt[c]]
    BY <2>1, <2>4, EmitOne
  <2>6. earliest' = [c \in CommandId |-> IF c = id THEN at ELSE earliest[c]]
    <3>1. earliest' = [c \in CommandId |->
                IF /\ id = c
                   /\ earliest[c] = NoTime \/ at < earliest[c]
                THEN at ELSE earliest[c]]
      BY <2>1, <2>4, EmitOne
    <3> QED BY <2>3, <3>1
  <2>7. CommandStartIsEarliest'
    BY <2>3, <2>5, <2>6 DEF TimelineInv, CommandStartIsEarliest
  <2>8. \A c \in CommandId : startedAt'[c] <= now' /\ earliest'[c] <= now'
    BY <1>2, <2>3, <2>5, <2>6 DEF TimelineInv
  <2>9. \A p \in known' \ {Root} : processes'[p].command_id # NoCommand =>
           earliest'[processes'[p].command_id] # NoTime
    BY <2>1, <2>3, <2>6 DEF TimelineInv, NoTime
  <2>10. ~Armed'
    BY <2>1 DEF Armed, TypeOK, ActiveCommand
  <2> QED BY <2>7, <2>8, <2>9, <2>10 DEF TimelineInv
<1>5. CASE on_end_marker(tid, id, ts)
  <2> DEFINE event == MakeEvent("command_end", tid, id, NoExe, ts)
  <2>1. /\ active_command' = NoActiveCommand
        /\ Emit(<<event>>, ts)
        /\ processes' = [processes EXCEPT ![Root].command_id = NoCommand]
        /\ UNCHANGED known
        /\ active_command.id = id /\ active_command.started
    BY <1>5 DEF on_end_marker, EndFits, Names
  <2>2. event.type = "command_end" /\ event.command_id = id
    BY DEF MakeEvent
  <2> HIDE DEF event
  <2>3. startedAt' = [c \in CommandId |-> startedAt[c]]
    BY <2>1, <2>2, EmitOne
  <2>4. startedAt[id] # NoTime
    BY <2>1 DEF CommandsInv, CommandsBracketed
  <2>5. earliest' = [c \in CommandId |-> earliest[c]]
    <3>1. earliest' = [c \in CommandId |->
                IF /\ id = c
                   /\ earliest[c] = NoTime \/ ts < earliest[c]
                THEN ts ELSE earliest[c]]
      BY <2>1, <2>2, EmitOne
    <3>2. earliest[id] # NoTime /\ earliest[id] <= now
      BY <2>4 DEF TimelineInv, CommandStartIsEarliest, NoTime
    <3> QED BY <1>2, <3>1, <3>2
  <2>6. \A p \in Pid \ {Root} : processes'[p] = processes[p]
    BY <2>1 DEF TypeOK
  <2>7. CommandStartIsEarliest'
    BY <2>3, <2>5 DEF TimelineInv, CommandStartIsEarliest
  <2>8. \A c \in CommandId : startedAt'[c] <= now' /\ earliest'[c] <= now'
    BY <1>2, <2>3, <2>5 DEF TimelineInv
  <2>9. \A p \in known' \ {Root} : processes'[p].command_id # NoCommand =>
           earliest'[processes'[p].command_id] # NoTime
    BY <2>1, <2>5, <2>6 DEF TimelineInv
  <2> QED BY <2>1, <2>7, <2>8, <2>9 DEF TimelineInv, Armed, NoActiveCommand
<1>6. CASE \/ \E type \in {"arm", "start", "end"} : on_bad_marker(tid, type, id, ts)
           \/ on_foreign_marker(tid, ts)
  <2>1. KeepsCommands /\ EmitNothing
    BY <1>6 DEF on_bad_marker, on_foreign_marker, state, EmitNothing, history, KeepsCommands
  <2> QED BY <1>2, <2>1, EmitNothingEffect, KeepsTimelineInv
<1> QED
  BY <1>1, <1>3, <1>4, <1>5, <1>6

(* Execs keep the timeline. *)
LEMMA ExecTimeline ==
    ASSUME TypeOK, TypeOK', CommandsInv, TimelineInv, NEW tid \in Pid, NEW ts \in Time,
           NEW exe, NEW cwd, on_process_exec(tid, exe, cwd, ts), ~ClockMayStepBack
    PROVE  TimelineInv'
<1>1. now' = ts /\ ts >= now /\ EarliestFromHolder(ts)
  BY ExecEffect
<1>2. CASE KeepsCommands
  BY <1>1, <1>2, KeepsTimelineInv
<1>3. CASE ~KeepsCommands
  <2>1. /\ UNCHANGED <<active_command, startedAt, ended>>
        /\ known' = known \cup {tid}
        /\ processes'[tid].command_id = NoCommand
        /\ \A p \in Pid \ {tid} : processes'[p] = processes[p]
    BY <1>3, ExecEffect
  <2> USE TimesAreNat
  <2>2. \A c \in CommandId : earliest'[c] = earliest[c] \/ earliest[c] = NoTime
    BY <1>1 DEF EarliestFromHolder, TimelineInv
  <2>3. CommandStartIsEarliest'
    BY <2>1, <2>2 DEF TimelineInv, CommandStartIsEarliest, NoTime
  <2>4. \A c \in CommandId : startedAt'[c] <= now' /\ earliest'[c] <= now'
    BY <1>1, <2>1 DEF TimelineInv, EarliestFromHolder
  <2>5. \A c \in CommandId : earliest[c] # NoTime => earliest'[c] # NoTime
    BY <2>2
  <2>6. \A p \in known' \ {Root} : processes'[p].command_id # NoCommand =>
           earliest'[processes'[p].command_id] # NoTime
    BY <2>1, <2>5 DEF TimelineInv
  <2>7. ASSUME Armed' PROVE earliest'[active_command'.id] = active_command'.first_process_ns
    <3>1. Armed /\ active_command.id \in CommandId
      BY <2>1, <2>7 DEF Armed
    <3>2. earliest[active_command.id] = active_command.first_process_ns
      BY <3>1 DEF TimelineInv
    <3>3. earliest'[active_command.id] = earliest[active_command.id]
      BY <1>1, <2>2, <3>1 DEF EarliestFromHolder, TimelineInv
    <3> QED BY <2>1, <3>2, <3>3
  <2> QED BY <2>3, <2>4, <2>6, <2>7 DEF TimelineInv
<1> QED BY <1>2, <1>3

(* Creations keep the timeline: the first fork of an armed command is its
   earliest event and the time stamp its start will get. *)
LEMMA CreatedTimeline ==
    ASSUME TypeOK, TypeOK', CommandsInv, TimelineInv, NEW tid \in Pid, NEW ts \in Time,
           NEW child_tid \in Pid \ {Root}, NEW is_thread \in BOOLEAN,
           on_process_created(tid, child_tid, is_thread, ts), ~ClockMayStepBack
    PROVE  TimelineInv'
<1> DEFINE parent_pid == process_for_thread(tid)
           c0 == processes[parent_pid].command_id
<1>1. now' = ts /\ ts >= now /\ startedAt' = startedAt /\ parent_pid \in Pid
  BY CreatedEffect, ProcessOfType
<1> USE TimesAreNat
<1>2. CASE UNCHANGED <<known, active_command, earliest>>
           /\ \A p \in Pid : processes'[p].command_id = processes[p].command_id
  <2>1. CommandStartIsEarliest'
    BY <1>1, <1>2 DEF TimelineInv, CommandStartIsEarliest
  <2>2. \A c \in CommandId : startedAt'[c] <= now' /\ earliest'[c] <= now'
    BY <1>1, <1>2 DEF TimelineInv
  <2> QED BY <1>2, <2>1, <2>2 DEF TimelineInv, Armed
<1>3. CASE /\ parent_pid \in known
           /\ known' = known \cup {child_tid}
           /\ \A p \in Pid \ {child_tid} : processes'[p] = processes[p]
           /\ processes'[child_tid].command_id = c0
           /\ active_command' =
                IF /\ parent_pid = Root /\ Armed
                   /\ active_command.first_process_ns = NoTime
                THEN [active_command EXCEPT !.first_process_ns = ts]
                ELSE active_command
           /\ earliest' = [c \in CommandId |->
                IF /\ c0 = c
                   /\ earliest[c] = NoTime \/ ts < earliest[c]
                THEN ts ELSE earliest[c]]
  <2>1. c0 \in CommandId \cup {NoCommand}
    BY <1>1
  <2>2. earliest' = [c \in CommandId |->
                       IF c0 = c /\ earliest[c] = NoTime THEN ts ELSE earliest[c]]
    <3>1. \A c \in CommandId : ~(ts < earliest[c])
      BY <1>1 DEF TimelineInv
    <3> QED BY <1>3, <3>1
  <2>3. CommandStartIsEarliest'
    BY <1>1, <2>2 DEF TimelineInv, CommandStartIsEarliest, NoTime
  <2>4. \A c \in CommandId : startedAt'[c] <= now' /\ earliest'[c] <= now'
    BY <1>1, <2>2 DEF TimelineInv
  <2>5. \A p \in known' \ {Root} : processes'[p].command_id # NoCommand =>
           earliest'[processes'[p].command_id] # NoTime
    <3>1. c0 # NoCommand => earliest'[c0] # NoTime
      BY <2>1, <2>2 DEF NoTime
    <3> QED BY <1>3, <2>1, <2>2, <3>1 DEF TimelineInv, NoTime
  <2>6. ASSUME Armed' PROVE earliest'[active_command'.id] = active_command'.first_process_ns
    <3> DEFINE id == active_command.id
    <3>1. active_command'.id = id /\ Armed /\ id \in CommandId
      BY <1>3, <2>6 DEF Armed, TypeOK, ActiveCommand
    <3>2. earliest[id] = active_command.first_process_ns
      BY <3>1 DEF TimelineInv
    <3>3. CASE parent_pid = Root /\ active_command.first_process_ns = NoTime
      <4>1. active_command'.first_process_ns = ts
        BY <1>3, <3>1, <3>3 DEF TypeOK, ActiveCommand
      <4>2. c0 = id
        BY <3>3 DEF CommandsInv, RootCommandSync
      <4> QED BY <2>2, <3>1, <3>2, <3>3, <4>1, <4>2
    <3>4. CASE parent_pid = Root /\ active_command.first_process_ns # NoTime
      BY <1>3, <2>2, <3>1, <3>2, <3>4
    <3>5. CASE parent_pid # Root
      <4>1. c0 = id => earliest[id] # NoTime
        BY <1>3, <3>1, <3>5 DEF TimelineInv
      <4> QED BY <1>3, <2>2, <3>1, <3>2, <3>5, <4>1
    <3> QED BY <3>3, <3>4, <3>5
  <2> QED BY <2>3, <2>4, <2>5, <2>6 DEF TimelineInv
<1> QED
  <2>1. \/ KeepsCommands /\ UNCHANGED earliest
        \/ UNCHANGED <<known, processes, active_command, earliest>>
        \/ /\ parent_pid \in known
           /\ known' = known \cup {child_tid}
           /\ \A p \in Pid \ {child_tid} : processes'[p] = processes[p]
           /\ processes'[child_tid].command_id = c0
           /\ active_command' =
                IF /\ parent_pid = Root /\ Armed
                   /\ active_command.first_process_ns = NoTime
                THEN [active_command EXCEPT !.first_process_ns = ts]
                ELSE active_command
           /\ earliest' = [c \in CommandId |->
                IF /\ c0 = c
                   /\ earliest[c] = NoTime \/ ts < earliest[c]
                THEN ts ELSE earliest[c]]
    BY CreatedEffect
  <2> QED BY <1>2, <1>3, <2>1 DEF KeepsCommands

(* Exits keep the timeline. *)
LEMMA ExitTimeline ==
    ASSUME TypeOK, TypeOK', CommandsInv, TimelineInv, NEW tid \in Pid, NEW ts \in Time,
           on_process_exit(tid, ts), ~ClockMayStepBack
    PROVE  TimelineInv'
<1>1. /\ now' = ts /\ ts >= now /\ known' = known /\ EarliestFromHolder(ts)
      /\ startedAt' = startedAt
      /\ active_command' \in {active_command, NoActiveCommand}
      /\ \A p \in Pid \ {Root} : processes'[p].command_id = processes[p].command_id
  BY ExitEffect
<1> USE TimesAreNat
<1>2. \A c \in CommandId : earliest'[c] = earliest[c] \/ (earliest[c] = NoTime /\ earliest'[c] = ts)
  BY <1>1 DEF EarliestFromHolder, TimelineInv
<1>3. CommandStartIsEarliest'
  BY <1>1, <1>2 DEF TimelineInv, CommandStartIsEarliest, NoTime
<1>4. \A c \in CommandId : startedAt'[c] <= now' /\ earliest'[c] <= now'
  BY <1>1, <1>2 DEF TimelineInv
<1>5. \A p \in known' \ {Root} : processes'[p].command_id # NoCommand =>
           earliest'[processes'[p].command_id] # NoTime
  BY <1>1, <1>2 DEF TimelineInv
<1>6. ASSUME Armed' PROVE earliest'[active_command'.id] = active_command'.first_process_ns
  <2>1. active_command' = active_command /\ Armed /\ active_command.id \in CommandId
    BY <1>1, <1>6 DEF Armed, NoActiveCommand
  <2>2. earliest[active_command.id] = active_command.first_process_ns
    BY <2>1 DEF TimelineInv
  <2>3. earliest'[active_command.id] = earliest[active_command.id]
    BY <1>1, <1>2, <2>1 DEF EarliestFromHolder, TimelineInv
  <2> QED BY <2>1, <2>2, <2>3
<1> QED BY <1>3, <1>4, <1>5, <1>6 DEF TimelineInv

(* The time stamps of the first state, *)
LEMMA InitTimeline == Init => TimelineInv
<1> SUFFICES ASSUME Init PROVE TimelineInv
  OBVIOUS
<1>1. TypeOK
  BY InitTypes
<1>2. /\ known = {Root} /\ earliest = startedAt /\ ~Armed
      /\ \A c \in CommandId : startedAt[c] \in {now, NoTime}
  BY DEF Init, add_initial_process, Armed, NoActiveCommand
<1> QED BY <1>1, <1>2, TimesAreNat DEF TimelineInv, CommandStartIsEarliest, NoTime

(* and of every step. *)
LEMMA NextTimeline ==
    ASSUME ~ClockMayStepBack
    PROVE  TypeOK /\ TypeOK' /\ CommandsInv /\ TimelineInv /\ [Next]_vars => TimelineInv'
<1> SUFFICES ASSUME TypeOK, TypeOK', CommandsInv, TimelineInv, [Next]_vars
             PROVE  TimelineInv'
  OBVIOUS
<1>1. ASSUME NEW tid \in Pid, NEW ts \in Time, on_syscall_exit(tid, ts)
      PROVE  TimelineInv'
  BY <1>1, SyscallEffect, KeepsTimelineInv DEF Called
<1>2. CASE Next
  BY <1>1, <1>2, MarkerTimeline, ExecTimeline, CreatedTimeline, ExitTimeline DEF Next
<1>3. CASE UNCHANGED vars
  BY <1>3 DEF vars, state, history, TimelineInv, CommandStartIsEarliest, Armed
<1> QED BY <1>2, <1>3

(* No event of a command is older than its start, if the clock is not set
   back: the forks the shell makes before it reports the start included. *)
THEOREM StartIsEarliest ==
    ASSUME ~ClockMayStepBack PROVE Spec => []CommandStartIsEarliest
<1>1. TypeOK /\ TypeOK' /\ CommandsInv /\ TimelineInv /\ [Next]_vars => TimelineInv'
  BY NextTimeline
<1>2. Spec => []CommandsInv
  BY CommandsAlways
<1>3. TimelineInv => CommandStartIsEarliest
  BY DEF TimelineInv
<1> QED
  BY <1>1, <1>2, <1>3, InitTimeline, TypeCorrect, PTL DEF Spec

-----------------------------------------------------------------------------
(* Attribution. *)

(* A process that is not the shell keeps the command it was forked for, until
   its id is reported as a new process. *)
THEOREM BackgroundAttribution == Spec => BackgroundStaysAttributed
<1> DEFINE Kept == \A p \in known \ {Root} :
                     processes'[p].command_id # processes[p].command_id =>
                       \E i \in DOMAIN emitted' : /\ emitted'[i].type = "process_fork"
                                                  /\ emitted'[i].resource = p
<1>1. ASSUME TypeOK, CommandsInv, [Next]_vars PROVE [Kept]_vars
  <2> USE <1>1
  <2>1. known \subseteq Pid
    BY DEF TypeOK
  <2>2. ASSUME NEW tid \in Pid, NEW ts \in Time, on_command_marker(tid, ts) PROVE Kept
    <3>1. \/ \E id \in CommandId \cup {NoCommand} :
               processes' = [processes EXCEPT ![Root].command_id = id]
          \/ UNCHANGED processes
      BY <2>2 DEF on_command_marker, on_arm_marker, on_start_marker, on_end_marker,
                  on_bad_marker, on_foreign_marker, state
    <3>2. \A p \in Pid \ {Root} : processes'[p] = processes[p]
      BY <3>1 DEF TypeOK
    <3> QED BY <2>1, <3>2
  <2>3. ASSUME NEW tid \in Pid, NEW ts \in Time, NEW exe \in Exe \cup {NoExe},
               NEW cwd \in Name, on_process_exec(tid, exe, cwd, ts)
        PROVE  Kept
    BY <2>1, <2>3, ExecEffect DEF KeepsCommands
  <2>4. ASSUME NEW tid \in Pid, NEW ts \in Time, NEW child \in Pid \ {Root},
               NEW is_thread \in BOOLEAN, on_process_created(tid, child, is_thread, ts)
        PROVE  Kept
    <3> DEFINE event == MakeEvent("process_fork", tid,
                          processes[process_for_thread(tid)].command_id, child, ts)
    <3>1. \/ \A p \in Pid : processes'[p].command_id = processes[p].command_id
          \/ /\ \A p \in Pid \ {child} : processes'[p] = processes[p]
             /\ emitted' = <<event>>
      BY <2>4, CreatedEffect DEF KeepsCommands
    <3>2. event.type = "process_fork" /\ event.resource = child
      BY DEF MakeEvent
    <3> HIDE DEF event
    <3>3. emitted' = <<event>> => /\ 1 \in DOMAIN emitted'
                                  /\ emitted'[1].type = "process_fork"
                                  /\ emitted'[1].resource = child
      BY <3>2
    <3> QED BY <2>1, <3>1, <3>3
  <2>5. ASSUME NEW tid \in Pid, NEW ts \in Time, on_process_exit(tid, ts) PROVE Kept
    BY <2>1, <2>5, ExitEffect
  <2>6. ASSUME NEW tid \in Pid, NEW ts \in Time, on_syscall_exit(tid, ts) PROVE Kept
    BY <2>1, <2>6, SyscallEffect DEF KeepsCommands
  <2>7. Next => Kept
    <3> HIDE DEF Kept
    <3> QED BY <2>2, <2>3, <2>4, <2>5, <2>6 DEF Next
  <2> QED BY <2>7
<1>2. Spec => []CommandsInv
  BY CommandsAlways
<1>3. [][Kept]_vars <=> BackgroundStaysAttributed
  BY DEF BackgroundStaysAttributed
<1> QED
  BY <1>1, <1>2, <1>3, TypeCorrect, PTL DEF Spec

-----------------------------------------------------------------------------
(* The shell between commands. *)

(* An event of the shell that emit() gives a command is about a running one. *)
LEMMA AttributedWhileRunning ==
    ASSUME CommandsInv, NEW pid, pid = Root,
           NEW c, c = CommandFor(pid, processes[pid].command_id), c # NoCommand
    PROVE  active_command.started
BY DEF CommandsInv, RootCommandSync, CommandFor, Armed

(* The branches of on_syscall_exit emit one event, with the command emit() finds,
   or none. *)
LEMMA SyscallEmits ==
    ASSUME NEW tid, NEW ts, on_syscall_exit(tid, ts)
    PROVE  \/ emitted' = << >>
           \/ \E type, r :
                emitted' = <<MakeEvent(type, tid, CommandFor(process_for_thread(tid),
                                         ProcessOf(tid).command_id), r, ts)>>
<1> DEFINE Goal ==
      \/ emitted' = << >>
      \/ \E type, r :
           emitted' = <<MakeEvent(type, tid, CommandFor(process_for_thread(tid),
                                    ProcessOf(tid).command_id), r, ts)>>
<1>1. ASSUME EmitNothing PROVE Goal
  BY <1>1 DEF EmitNothing
<1>2. ASSUME NEW type, NEW r, SyscallEvent(type, tid, r, ts) PROVE Goal
  BY <1>2 DEF SyscallEvent, Emit
<1> HIDE DEF Goal
<1>3. ASSUME on_dropped_syscall(tid, ts) \/ on_other_syscall(tid, ts) PROVE Goal
  BY <1>1, <1>3 DEF on_dropped_syscall, on_other_syscall
<1>4. ASSUME NEW a, NEW d, NEW dirfd, NEW fd, NEW r, on_open(tid, a, dirfd, r, d, fd, ts)
      PROVE  Goal
  BY <1>2, <1>4 DEF on_open
<1>5. ASSUME NEW type, NEW fd, on_transfer(tid, type, fd, ts) PROVE Goal
  BY <1>1, <1>2, <1>5 DEF on_transfer
<1>6. ASSUME NEW fd, NEW new_fd,
             \/ on_close(tid, fd, ts) \/ on_dup(tid, fd, new_fd, ts) \/ on_socket(tid, fd, ts)
             \/ on_fchdir(tid, fd, ts)
      PROVE  Goal
  BY <1>1, <1>6 DEF on_close, on_dup, on_socket, on_fchdir
<1>7. ASSUME NEW type, NEW fd, NEW e, on_connect(tid, type, fd, e, ts) PROVE Goal
  BY <1>2, <1>7 DEF on_connect
<1>8. ASSUME NEW a, NEW r, on_chdir(tid, a, r, ts) PROVE Goal
  BY <1>1, <1>8 DEF on_chdir
<1>9. Goal
  BY <1>3, <1>4, <1>5, <1>6, <1>7, <1>8 DEF on_syscall_exit
<1> QED BY <1>9 DEF Goal

(* What the shell does at its prompt, and while it prepares a command, is
   attributed to no command, whatever order the reports come in. *)
THEOREM PromptAttribution == Spec => PromptIsUnattributed
<1> DEFINE Told(e) == /\ e.pid = Root /\ e.command_id # NoCommand
                      /\ e.type # "process_fork"
                      => active_command.started \/ active_command'.started
           Fine == \A i \in DOMAIN emitted' : Told(emitted'[i])
<1>1. ASSUME TypeOK, CommandsInv, [Next]_vars PROVE [Fine]_vars
  <2> USE <1>1, PidAssumption
  <2>1. ASSUME emitted' = << >> PROVE Fine
    BY <2>1
  <2>2. ASSUME NEW e, emitted' = <<e>>, Told(e) PROVE Fine
    <3> HIDE DEF Told
    <3> QED BY <2>2
  <2>3. ASSUME NEW type, NEW tid \in Pid, NEW c, NEW r, NEW ts,
               c = CommandFor(process_for_thread(tid), ProcessOf(tid).command_id)
        PROVE  Told(MakeEvent(type, tid, c, r, ts))
    <3>1. /\ MakeEvent(type, tid, c, r, ts).pid = process_for_thread(tid)
          /\ MakeEvent(type, tid, c, r, ts).command_id = c
      BY DEF MakeEvent
    <3> QED BY <2>3, <3>1, AttributedWhileRunning DEF ProcessOf
  <2>4. ASSUME NEW tid \in Pid, NEW ts \in Time, on_command_marker(tid, ts) PROVE Fine
    <3>1. PICK id \in CommandId :
            \/ on_arm_marker(tid, id, ts) \/ on_start_marker(tid, id, ts)
            \/ on_end_marker(tid, id, ts) \/ on_foreign_marker(tid, ts)
            \/ \E type \in {"arm", "start", "end"} : on_bad_marker(tid, type, id, ts)
      BY <2>4 DEF on_command_marker
    <3>2. CASE on_start_marker(tid, id, ts)
      <4>1. active_command'.started
        BY <3>2 DEF on_start_marker, TypeOK, ActiveCommand
      <4> QED BY <4>1
    <3>3. CASE on_end_marker(tid, id, ts)
      BY <3>3 DEF on_end_marker, EndFits
    <3>4. CASE ~on_start_marker(tid, id, ts) /\ ~on_end_marker(tid, id, ts)
      BY <2>1, <3>1, <3>4 DEF on_arm_marker, on_foreign_marker, on_bad_marker, EmitNothing
    <3> QED BY <3>2, <3>3, <3>4
  <2>5. ASSUME NEW tid \in Pid, NEW ts \in Time, NEW exe, NEW cwd,
               on_process_exec(tid, exe, cwd, ts)
        PROVE  Fine
    <3> DEFINE pid == process_for_thread(tid)
    <3>1. CASE HasProcess(tid)
      <4> DEFINE e == MakeEvent("process_exec", tid, CommandFor(pid, ProcessOf(tid).command_id),
                                exe, ts)
      <4>1. emitted' = <<e>>
        BY <2>5, <3>1 DEF on_process_exec, Emit
      <4>2. Told(e)
        BY <2>3
      <4> HIDE DEF e, Fine, Told
      <4> QED BY <2>2, <4>1, <4>2
    <3>2. CASE ~HasProcess(tid)
      <4> DEFINE e == MakeEvent("process_exec", tid,
                                CommandFor(pid, FreshProcess(cwd).command_id), exe, ts)
      <4>1. emitted' = <<e>>
        BY <2>5, <3>2 DEF on_process_exec, Emit
      <4>2. Told(e)
        BY DEF MakeEvent, CommandFor, FreshProcess
      <4> HIDE DEF e, Fine, Told
      <4> QED BY <2>2, <4>1, <4>2
    <3> QED BY <3>1, <3>2
  <2>6. ASSUME NEW tid \in Pid, NEW ts \in Time, NEW child \in Pid \ {Root},
               NEW is_thread \in BOOLEAN, on_process_created(tid, child, is_thread, ts)
        PROVE  Fine
    <3> DEFINE e == MakeEvent("process_fork", tid,
                      processes[process_for_thread(tid)].command_id, child, ts)
    <3>1. emitted' = << >> \/ emitted' = <<e>>
      BY <2>6, CreatedEffect
    <3>2. Told(e)
      BY DEF MakeEvent
    <3> HIDE DEF e, Fine, Told
    <3> QED BY <2>1, <2>2, <3>1, <3>2
  <2>7. ASSUME NEW tid \in Pid, NEW ts \in Time, on_process_exit(tid, ts) PROVE Fine
    <3> DEFINE pid == process_for_thread(tid)
               own == IF pid = Root /\ Armed THEN NoCommand ELSE processes[pid].command_id
               exit == MakeEvent("process_exit", tid, CommandFor(pid, own),
                                 processes[pid].executable, ts)
               end == MakeEvent("command_end", tid, own, NoExe, ts)
    <3>1. \/ emitted' = << >> \/ emitted' = <<exit>>
          \/ emitted' = <<exit, end>> /\ active_command.started
      BY <2>7 DEF on_process_exit, Emit, EmitNothing
    <3>2. Told(exit)
      <4>1. exit.pid = pid /\ exit.command_id = CommandFor(pid, own)
        BY DEF MakeEvent
      <4>2. CommandFor(pid, own) # NoCommand /\ pid = Root => active_command.started
        BY DEF CommandFor, CommandsInv, RootCommandSync, Armed
      <4> QED BY <4>1, <4>2
    <3> HIDE DEF exit, end
    <3>3. CASE active_command.started
      BY <3>3
    <3>4. CASE ~active_command.started
      <4> HIDE DEF Fine, Told
      <4> QED BY <2>1, <2>2, <3>1, <3>2, <3>4
    <3> QED BY <3>3, <3>4
  <2>8. ASSUME NEW tid \in Pid, NEW ts \in Time, on_syscall_exit(tid, ts) PROVE Fine
    <3>1. ASSUME NEW type, NEW r,
                 emitted' = <<MakeEvent(type, tid, CommandFor(process_for_thread(tid),
                                          ProcessOf(tid).command_id), r, ts)>>
          PROVE  Fine
      <4>1. Told(MakeEvent(type, tid, CommandFor(process_for_thread(tid),
                                          ProcessOf(tid).command_id), r, ts))
        BY <2>3
      <4> HIDE DEF Fine, Told
      <4> QED BY <2>2, <3>1, <4>1
    <3> HIDE DEF Fine
    <3> QED BY <2>1, <2>8, <3>1, SyscallEmits
  <2>9. Next => Fine
    <3> HIDE DEF Fine
    <3> QED BY <2>4, <2>5, <2>6, <2>7, <2>8 DEF Next
  <2> QED BY <2>9
<1>2. [Fine]_vars => [\A i \in DOMAIN emitted' :
                       /\ emitted'[i].pid = Root
                       /\ emitted'[i].command_id # NoCommand
                       /\ emitted'[i].type # "process_fork"
                       => active_command.started \/ active_command'.started]_vars
  OBVIOUS
<1> HIDE DEF Fine
<1> QED
  BY <1>1, <1>2, CommandsAlways, TypeCorrect, PTL DEF Spec, PromptIsUnattributed

=============================================================================
