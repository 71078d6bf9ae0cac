---------------------- MODULE ExecutionStateRefinement ----------------------
(***************************************************************************)
(* ExecutionState implements EventStream: whatever order the handlers are  *)
(* called in, the sink sees a stream that EventStream allows.              *)
(***************************************************************************)
EXTENDS ExecutionStateProofs

(* What the refinement mapping computes from active_command_. *)
Running == IF active_command.started THEN active_command.id ELSE NoCommand

(* The events of a handler share a time stamp, so that its bookkeeping is that
   of a call: the earliest time stamp of a command becomes the smaller one. *)
LEMMA EmitIsCall ==
    ASSUME TypeOK, NEW events, NEW at \in Time, NEW ts \in Time, Emit(events, at),
           \A i \in DOMAIN events : events[i].timestamp_ns = at, Called(ts)
    PROVE  Stream!Call(ts)
<1> DEFINE times(c) == {emitted'[i].timestamp_ns : i \in
                          {j \in DOMAIN emitted' : emitted'[j].command_id = c}}
                       \cup ({earliest[c]} \ {NoTime})
           least(c) == IF times(c) = {} THEN NoTime
                       ELSE CHOOSE t \in times(c) : \A u \in times(c) : t <= u
<1>1. /\ emitted' = events
      /\ earliest' = [c \in CommandId |->
                        IF /\ Carries(events, c)
                           /\ earliest[c] = NoTime \/ at < earliest[c]
                        THEN at ELSE earliest[c]]
  BY DEF Emit
<1>2. ASSUME NEW c \in CommandId
      PROVE  (IF /\ Carries(events, c)
                 /\ earliest[c] = NoTime \/ at < earliest[c]
              THEN at ELSE earliest[c]) = least(c)
  <2>1. at \in Nat \ {0} /\ earliest[c] \in Nat /\ NoTime = 0
    BY TimesAreNat DEF NoTime
  <2>2. CASE Carries(events, c)
    <3>1. times(c) = {at} \cup ({earliest[c]} \ {NoTime})
      BY <1>1, <2>2 DEF Carries
    <3> HIDE DEF times
    <3>2. CASE earliest[c] = NoTime
      BY <2>1, <2>2, <3>1, <3>2
    <3>3. CASE earliest[c] # NoTime
      BY <2>1, <2>2, <3>1, <3>3
    <3> QED BY <3>2, <3>3
  <2>3. CASE ~Carries(events, c)
    <3>1. times(c) = {earliest[c]} \ {NoTime}
      BY <1>1, <2>3 DEF Carries
    <3> HIDE DEF times
    <3> QED BY <2>1, <2>3, <3>1
  <2> QED BY <2>2, <2>3
<1>3. earliest' = [c \in CommandId |-> least(c)]
  <2> HIDE DEF least
  <2> QED BY <1>1, <1>2
<1>4. now' = ts /\ (ts >= now \/ ClockMayStepBack)
  BY DEF Called
<1> QED BY <1>3, <1>4, Zenon DEF Stream!Call, Stream!CommandId, Stream!NoTime, CommandId, NoTime

(* A handler that emits nothing is a quiet call. *)
LEMMA NothingIsQuiet ==
    ASSUME TypeOK, NEW ts \in Time, EmitNothing, Called(ts), UNCHANGED <<known, Running>>
    PROVE  Stream!Quiet(ts)
<1>1. emitted' = << >> /\ UNCHANGED <<startedAt, earliest, ended>>
  BY DEF EmitNothing, history
<1>2. \A c : ~Carries(<< >>, c) /\ \A type : ~Announces(<< >>, type, c)
  BY DEF Carries, Announces
<1>3. /\ startedAt' = [c \in CommandId |-> startedAt[c]]
      /\ earliest' = [c \in CommandId |-> earliest[c]]
      /\ ended' = ended \cup {}
  BY <1>1 DEF TypeOK
<1>4. Emit(<< >>, ts)
  BY <1>1, <1>2, <1>3 DEF Emit
<1>5. Stream!Call(ts)
  BY <1>4, EmitIsCall
<1> QED BY <1>1, <1>5 DEF Stream!Quiet, Running, Stream!NoCommand, NoCommand,
             Stream!NoTime, NoTime, Stream!CommandId, CommandId

(* A handler that emits one event, which is no start and no end. *)
LEMMA PlainIsOccur ==
    ASSUME TypeOK, NEW e, NEW ts \in Time, Emit(<<e>>, ts), Called(ts),
           Stream!Plain(e, ts), known' = known \cup Stream!Introduces(e),
           UNCHANGED Running
    PROVE  Stream!Occur(ts)
<1>1. e.timestamp_ns = ts /\ e.type \notin {"command_start", "command_end"}
  BY DEF Stream!Plain, Stream!PlainType
<1>2. startedAt' = startedAt /\ ended' = ended /\ emitted' = <<e>>
  BY <1>1, EmitPlain, EmitOne
<1>3. Stream!Call(ts)
  BY <1>1, EmitIsCall
<1>4. Len(emitted') = 1 /\ emitted'[1] = e
  BY <1>2
<1> QED BY <1>2, <1>3, <1>4 DEF Stream!Occur, Running, NoCommand, Stream!NoCommand,
             Stream!NoTime, NoTime, Stream!CommandId, CommandId

(* A step of the class is a call of the stream. *)
Streams(ts) ==
    Stream!Quiet(ts) \/ Stream!Occur(ts) \/ Stream!Begin(ts) \/ Stream!End(ts)

(* An accepted Start is the beginning of its command. *)
LEMMA StartIsBegin ==
    ASSUME TypeOK, CommandsInv, ClockMayStepBack \/ TimelineInv, NEW tid \in Pid,
           NEW id \in CommandId, NEW ts \in Time, on_start_marker(tid, id, ts)
    PROVE  Stream!Begin(ts)
<1> DEFINE at == IF active_command.first_process_ns = NoTime THEN ts
                 ELSE active_command.first_process_ns
           e == MakeEvent("command_start", tid, id, NoExe, at)
<1>1. /\ Called(ts)
      /\ process_for_thread(tid) = Root
      /\ active_command.id = id /\ ~active_command.started
      /\ active_command' = [active_command EXCEPT !.started = TRUE]
      /\ Emit(<<e>>, at)
      /\ UNCHANGED known
  BY DEF on_start_marker, FromRoot, StartFits, Names
<1>2. at \in Time /\ at \in Nat \ {0} /\ id # NoCommand
  BY TimesAreNat DEF TypeOK, ActiveCommand
<1>3. /\ e.type = "command_start" /\ e.pid = Root
      /\ e.command_id = id /\ e.timestamp_ns = at
  BY <1>1 DEF MakeEvent
<1>4. Armed /\ startedAt[id] = NoTime
  BY <1>1, <1>2 DEF CommandsInv, Armed
<1>5. ClockMayStepBack \/ (at <= ts /\ earliest[id] \in at .. ts \cup {NoTime})
  <2>1. CASE ~ClockMayStepBack
    <3>1. earliest[id] = active_command.first_process_ns /\ earliest[id] <= now /\ now <= ts
      BY <1>1, <1>4, <2>1 DEF TimelineInv, Called
    <3>2. now \in Nat /\ ts \in Nat /\ earliest[id] \in Nat
      BY TimesAreNat
    <3> QED BY <3>1, <3>2
  <2> QED BY <2>1
<1> HIDE DEF e, at
<1>6. /\ emitted' = <<e>>
      /\ startedAt' = [c \in CommandId |-> IF id = c THEN at ELSE startedAt[c]]
      /\ ended' = ended
  BY <1>1, <1>3, EmitOne
<1>7. Stream!Call(ts)
  BY <1>1, <1>2, <1>3, EmitIsCall
<1>8. {c \in CommandId : startedAt'[c] # NoTime} = {c \in CommandId : startedAt[c] # NoTime} \cup {id}
  BY <1>2, <1>6 DEF NoTime
<1>9. Running = NoCommand /\ Running' = id
  BY <1>1 DEF Running, TypeOK, ActiveCommand
<1>10. Len(emitted') = 1 /\ emitted'[1] = e
  BY <1>6
<1> QED BY <1>1, <1>3, <1>4, <1>5, <1>6, <1>7, <1>8, <1>9, <1>10 DEF Stream!Begin, Running,
          NoCommand, Stream!NoCommand, Stream!NoTime, NoTime, Stream!CommandId, CommandId

(* The events that end a command, alone or after the exit of its process. *)
LEMMA LastIsEnd ==
    ASSUME TypeOK, NEW events, NEW e, NEW ts \in Time, Emit(events, ts), Called(ts),
           UNCHANGED <<known, startedAt>>,
           events = <<e>> \/ \E x : /\ events = <<x, e>>
                                    /\ Stream!Plain(x, ts) /\ x.type = "process_exit",
           e.type = "command_end", e.pid = Root, e.timestamp_ns = ts,
           Running # NoCommand, e.command_id = Running, Running' = NoCommand,
           ended' = ended \cup {Running}
    PROVE  Stream!End(ts)
<1>1. emitted' = events
  BY DEF Emit
<1>2. /\ Len(events) \in {1, 2} /\ events[Len(events)] = e
      /\ Len(events) = 2 => Stream!Plain(events[1], ts) /\ events[1].type = "process_exit"
  OBVIOUS
<1>3. \A i \in DOMAIN events : events[i].timestamp_ns = ts
  BY DEF Stream!Plain
<1>4. Stream!Call(ts)
  BY <1>3, EmitIsCall
<1> QED BY <1>1, <1>2, <1>4 DEF Stream!End, Running, NoCommand, Stream!NoCommand,
             Stream!NoTime, NoTime, Stream!CommandId, CommandId

(* Markers. *)
LEMMA MarkerStreams ==
    ASSUME TypeOK, CommandsInv, ClockMayStepBack \/ TimelineInv, NEW tid \in Pid,
           NEW ts \in Time, on_command_marker(tid, ts)
    PROVE  Streams(ts)
<1>1. PICK id \in CommandId :
         \/ on_arm_marker(tid, id, ts)
         \/ on_start_marker(tid, id, ts)
         \/ on_end_marker(tid, id, ts)
         \/ \E type \in {"arm", "start", "end"} : on_bad_marker(tid, type, id, ts)
         \/ on_foreign_marker(tid, ts)
  BY DEF on_command_marker
<1>2. CASE on_arm_marker(tid, id, ts)
  <2>1. active_command = NoActiveCommand
    BY <1>2 DEF on_arm_marker, ArmFits, CommandsInv
  <2>2. Running = NoCommand /\ Running' = NoCommand
    BY <1>2, <2>1 DEF on_arm_marker, NoActiveCommand, Running
  <2> QED BY <1>2, <2>2, NothingIsQuiet DEF on_arm_marker, Streams
<1>3. CASE on_start_marker(tid, id, ts)
  BY <1>3, StartIsBegin DEF Streams
<1>4. CASE on_end_marker(tid, id, ts)
  <2> DEFINE e == MakeEvent("command_end", tid, id, NoExe, ts)
  <2>1. /\ Called(ts) /\ Emit(<<e>>, ts) /\ UNCHANGED known
        /\ active_command' = NoActiveCommand
        /\ active_command.id = id /\ active_command.started
        /\ process_for_thread(tid) = Root
    BY <1>4 DEF on_end_marker, FromRoot, EndFits, Names
  <2>2. Running = id /\ id # NoCommand /\ Running' = NoCommand
    BY <2>1, TimesAreNat DEF Running, NoActiveCommand
  <2>3. /\ e.type = "command_end" /\ e.pid = Root
        /\ e.timestamp_ns = ts /\ e.command_id = id
    BY <2>1 DEF MakeEvent
  <2> HIDE DEF e
  <2>4. startedAt' = [c \in CommandId |-> startedAt[c]] /\ ended' = ended \cup {id}
    BY <2>1, <2>3, EmitOne
  <2>5. startedAt' = startedAt
    BY <2>4 DEF TypeOK
  <2>6. Stream!End(ts)
    BY <2>1, <2>2, <2>3, <2>4, <2>5, LastIsEnd
  <2> QED BY <2>6 DEF Streams
<1>5. CASE \E type \in {"arm", "start", "end"} : on_bad_marker(tid, type, id, ts)
  BY <1>5, NothingIsQuiet DEF on_bad_marker, Streams, state, Running
<1>6. CASE on_foreign_marker(tid, ts)
  BY <1>6, NothingIsQuiet DEF on_foreign_marker, Streams, state, Running
<1> QED BY <1>1, <1>2, <1>3, <1>4, <1>5, <1>6

(* An exec, which may introduce its process. *)
LEMMA ExecStreams ==
    ASSUME TypeOK, NEW tid \in Pid, NEW ts \in Time, NEW exe, NEW cwd,
           on_process_exec(tid, exe, cwd, ts)
    PROVE  Streams(ts)
<1> DEFINE pid == process_for_thread(tid)
           before == IF HasProcess(tid) THEN ProcessOf(tid) ELSE FreshProcess(cwd)
           e == MakeEvent("process_exec", tid, CommandFor(pid, before.command_id), exe, ts)
<1>1. /\ Called(ts) /\ Emit(<<e>>, ts)
      /\ known' = known \cup {pid} /\ UNCHANGED active_command
  BY DEF on_process_exec
<1>2. e.type = "process_exec" /\ e.timestamp_ns = ts /\ e.pid = pid
  BY DEF MakeEvent
<1> HIDE DEF e
<1>3. Stream!Plain(e, ts) /\ Stream!Introduces(e) = {pid}
  BY <1>2 DEF Stream!Plain, Stream!PlainType, Stream!Introduces
<1> QED BY <1>1, <1>3, PlainIsOccur DEF Streams, Running

(* A creation: a thread is quiet, a process is introduced by its fork. *)
LEMMA CreatedStreams ==
    ASSUME TypeOK, NEW tid \in Pid, NEW ts \in Time, NEW child, NEW is_thread \in BOOLEAN,
           on_process_created(tid, child, is_thread, ts)
    PROVE  Streams(ts)
<1> DEFINE e == MakeEvent("process_fork", tid,
                          processes[process_for_thread(tid)].command_id, child, ts)
<1>1. CASE ~HasProcess(tid) \/ is_thread
  <2>1. Called(ts) /\ EmitNothing /\ UNCHANGED <<known, active_command>>
    BY <1>1 DEF on_process_created, state
  <2> QED BY <2>1, NothingIsQuiet DEF Streams, Running
<1>2. CASE HasProcess(tid) /\ ~is_thread
  <2>1. /\ Called(ts) /\ Emit(<<e>>, ts)
        /\ known' = known \cup {child}
        /\ active_command' \in {active_command,
                               [active_command EXCEPT !.first_process_ns = ts]}
    BY <1>2 DEF on_process_created
  <2>2. UNCHANGED Running
    BY <2>1 DEF Running, TypeOK, ActiveCommand
  <2>3. /\ e.type = "process_fork" /\ e.timestamp_ns = ts /\ e.resource = child
        /\ e.pid \in known
    BY <1>2 DEF MakeEvent, HasProcess
  <2> HIDE DEF e
  <2>4. Stream!Plain(e, ts) /\ Stream!Introduces(e) = {child}
    BY <2>3 DEF Stream!Plain, Stream!PlainType, Stream!Introduces
  <2> QED BY <2>1, <2>2, <2>4, PlainIsOccur DEF Streams
<1> QED BY <1>1, <1>2

(* An exit; that of the shell ends the command that runs. *)
LEMMA ExitStreams ==
    ASSUME TypeOK, CommandsInv, NEW tid \in Pid, NEW ts \in Time, on_process_exit(tid, ts)
    PROVE  Streams(ts)
<1> DEFINE pid == process_for_thread(tid)
           ownCommand == IF pid = Root /\ Armed THEN NoCommand
                         ELSE processes[pid].command_id
           exit == MakeEvent("process_exit", tid, CommandFor(pid, ownCommand),
                             processes[pid].executable, ts)
           endsCommand == /\ pid = Root /\ active_command.id # NoCommand
                          /\ active_command.started /\ ownCommand # NoCommand
           end == MakeEvent("command_end", tid, ownCommand, NoExe, ts)
<1>1. Called(ts) /\ UNCHANGED known
  BY DEF on_process_exit
<1>2. CASE tid # pid \/ pid \notin known
  <2>1. EmitNothing /\ UNCHANGED active_command
    BY <1>2 DEF on_process_exit
  <2> QED BY <1>1, <2>1, NothingIsQuiet DEF Streams, Running
<1>3. CASE tid = pid /\ pid \in known
  <2>1. /\ Emit(IF endsCommand THEN <<exit, end>> ELSE <<exit>>, ts)
        /\ active_command' = IF pid = Root THEN NoActiveCommand ELSE active_command
    BY <1>3, Zenon DEF on_process_exit
  <2>2. /\ exit.type = "process_exit" /\ exit.timestamp_ns = ts /\ exit.pid = pid
        /\ end.type = "command_end" /\ end.timestamp_ns = ts /\ end.pid = pid
        /\ end.command_id = ownCommand
    BY DEF MakeEvent
  <2>3. pid = Root /\ active_command.started =>
          /\ ownCommand = active_command.id
          /\ active_command.id \in CommandId /\ active_command.id # NoCommand
    <3>1. active_command.started => active_command.id # NoCommand
      BY DEF CommandsInv, NoActiveCommand
    <3> QED BY <3>1, TimesAreNat DEF CommandsInv, RootCommandSync, Armed
  <2>4. Stream!Plain(exit, ts) /\ Stream!Introduces(exit) = {}
    <3> HIDE DEF exit
    <3> QED BY <1>3, <2>2 DEF Stream!Plain, Stream!PlainType, Stream!Introduces
  <2>5. CASE ~endsCommand
    <3>1. ~(pid = Root /\ active_command.started)
      BY <2>3, <2>5
    <3>2. UNCHANGED Running
      BY <2>1, <3>1 DEF Running, NoActiveCommand
    <3> HIDE DEF exit, end, endsCommand
    <3>3. Emit(<<exit>>, ts)
      BY <2>1, <2>5
    <3> QED BY <1>1, <2>4, <3>2, <3>3, PlainIsOccur DEF Streams
  <2>6. CASE endsCommand
    <3>1. /\ pid = Root
          /\ Running = ownCommand /\ Running # NoCommand /\ Running' = NoCommand
          /\ Running \in CommandId
      BY <2>1, <2>3, <2>6 DEF Running, NoActiveCommand
    <3> HIDE DEF exit, end, ownCommand, endsCommand
    <3>2. Emit(<<exit, end>>, ts)
      BY <2>1, <2>6
    <3>3. \A c \in CommandId :
            /\ ~Announces(<<exit, end>>, "command_start", c)
            /\ Announces(<<exit, end>>, "command_end", c) <=> c = Running
      BY <2>2, <3>1 DEF Announces
    <3>4. startedAt' = [c \in CommandId |-> startedAt[c]] /\ ended' = ended \cup {Running}
      BY <3>1, <3>2, <3>3 DEF Emit
    <3>5. startedAt' = startedAt
      BY <3>4 DEF TypeOK
    <3>6. Stream!End(ts)
      BY <1>1, <2>2, <2>4, <3>1, <3>2, <3>4, <3>5, LastIsEnd
    <3> QED BY <3>6 DEF Streams
  <2> QED BY <2>5, <2>6
<1> QED BY <1>2, <1>3

(* A system call is quiet, or one event of a process that has an entry. *)
LEMMA SyscallStreams ==
    ASSUME TypeOK, NEW tid \in Pid, NEW ts \in Time, on_syscall_exit(tid, ts)
    PROVE  Streams(ts)
<1> DEFINE Reported == {"file_open", "file_read", "file_write", "net_connect", "ipc_connect"}
<1>1. Called(ts) /\ UNCHANGED <<known, active_command>>
  BY SyscallEffect DEF KeepsCommands
<1>2. \/ EmitNothing
      \/ \E type \in Reported : \E r : HasProcess(tid) /\ SyscallEvent(type, tid, r, ts)
  BY Zenon DEF on_syscall_exit, on_dropped_syscall, on_other_syscall, on_open, on_transfer,
       on_close, on_dup, on_socket, on_connect, on_chdir, on_fchdir
<1>3. CASE EmitNothing
  BY <1>1, <1>3, NothingIsQuiet DEF Streams, Running
<1>4. ASSUME NEW type \in Reported, NEW r, HasProcess(tid), SyscallEvent(type, tid, r, ts)
      PROVE  Streams(ts)
  <2> DEFINE e == MakeEvent(type, tid, CommandFor(process_for_thread(tid),
                                                  ProcessOf(tid).command_id), r, ts)
  <2>1. Emit(<<e>>, ts)
    BY <1>4 DEF SyscallEvent
  <2>2. e.type = type /\ e.timestamp_ns = ts /\ e.pid \in known
    BY <1>4 DEF MakeEvent, HasProcess
  <2> HIDE DEF e
  <2>3. Stream!Plain(e, ts) /\ Stream!Introduces(e) = {}
    BY <2>2 DEF Stream!Plain, Stream!PlainType, Stream!Introduces
  <2> QED BY <1>1, <2>1, <2>3, PlainIsOccur DEF Streams, Running
<1> QED BY <1>2, <1>3, <1>4

-----------------------------------------------------------------------------
(* The first event of a recording is the start of command 1, or there is none. *)
LEMMA InitStreams == Init => Stream!SInit
<1> SUFFICES ASSUME Init PROVE Stream!SInit
  OBVIOUS
<1>1. now \in Time /\ known = {Root} /\ ended = {}
  BY DEF Init, add_initial_process
<1>2. CASE session
  <2>1. /\ emitted = << >> /\ active_command = NoActiveCommand
        /\ startedAt = [c \in CommandId |-> NoTime] /\ earliest = startedAt
    BY <1>2 DEF Init, add_initial_process
  <2> QED BY <1>1, <2>1 DEF Stream!SInit, NoActiveCommand, Stream!Time, Time, NoCommand,
               Stream!NoCommand, Stream!NoTime, NoTime, Stream!CommandId, CommandId
<1>3. CASE ~session
  <2> DEFINE e == [type |-> "command_start", timestamp_ns |-> now, pid |-> Root,
                   command_id |-> 1, resource |-> NoExe]
  <2>1. /\ emitted = <<e>> /\ active_command.started /\ active_command.id = 1
        /\ startedAt = [c \in CommandId |-> IF c = 1 THEN now ELSE NoTime]
        /\ earliest = startedAt
    BY <1>3 DEF Init, add_initial_process
  <2>2. e.type = "command_start" /\ e.command_id = 1
    OBVIOUS
  <2>3. 1 \in CommandId /\ now # NoTime
    BY <1>1, BoundAssumption DEF CommandId, Time, NoTime
  <2>4. {c \in CommandId : startedAt[c] # NoTime} = {1}
    BY <2>1, <2>3
  <2> HIDE DEF e
  <2>5. Len(emitted) = 1 /\ emitted[1] = e
    BY <2>1
  <2> QED BY <1>1, <2>1, <2>2, <2>4, <2>5 DEF Stream!SInit, Stream!Time, Time, NoCommand,
               Stream!NoCommand, Stream!NoTime, NoTime, Stream!CommandId, CommandId
<1> QED BY <1>2, <1>3 DEF Init

(* Every step of the class is a step of the stream, or none. *)
LEMMA NextStreams ==
    ASSUME TypeOK, TypeOK', CommandsInv, ClockMayStepBack \/ TimelineInv, [Next]_vars
    PROVE  [emitted' \in Seq(Stream!Event) /\ Stream!SNext]_(Stream!svars)
<1>1. CASE Next
  <2>1. PICK ts \in Time : Streams(ts)
    BY <1>1, MarkerStreams, ExecStreams, CreatedStreams, ExitStreams, SyscallStreams DEF Next
  <2>2. Stream!SNext
    BY <2>1 DEF Streams, Stream!SNext, Stream!Time, Time
  <2>3. Event = Stream!Event
    BY DEF Event, Stream!Event, EventType, Stream!EventType, Stream!PlainType, Time,
           Stream!Time, CommandId, Stream!CommandId, NoCommand, Stream!NoCommand
  <2> QED BY <2>2, <2>3 DEF TypeOK
<1>2. CASE UNCHANGED vars
  BY <1>2 DEF vars, state, history, Stream!svars
<1> QED BY <1>1, <1>2

(* ExecutionState implements EventStream.  Whatever order the reports of the
   tracees reach the handlers in, and whether or not the clock is set back, the
   sink sees commands that start once, one at a time, and end once, and only
   processes that were introduced. *)
THEOREM Implements == Spec => ImplementsEventStream
<1> DEFINE Inv == /\ TypeOK /\ CommandsInv
                  /\ ClockMayStepBack \/ TimelineInv
<1>1. Init => Inv
  BY InitTypes, InitCommands, InitTimeline
<1>2. Inv /\ [Next]_vars => Inv'
  BY NextTypes, NextCommands, NextTimeline, BoundAssumption
<1>3. Inv /\ Inv' /\ [Next]_vars =>
        [emitted' \in Seq(Stream!Event) /\ Stream!SNext]_(Stream!svars)
  BY NextStreams
<1> HIDE DEF Inv
<1> QED
  BY <1>1, <1>2, <1>3, InitStreams, PTL DEF Spec, ImplementsEventStream, Stream!SSpec
=============================================================================
