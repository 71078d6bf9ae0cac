---------------------------- MODULE EventStream ----------------------------
(***************************************************************************)
(* What an EventSink may rely on: the order, the commands, the processes   *)
(* and the time stamps of the events that ExecutionState gives it.  No     *)
(* thread index, no armed command, no descriptors; whoever writes or       *)
(* reads a capsule need not know them.  ExecutionState implements this     *)
(* specification, and Capsule is built on it.                              *)
(***************************************************************************)
EXTENDS Integers, Sequences

CONSTANTS
    Pid, Root,         \* processes; the traced program
    MaxCommand,        \* bound: command ids
    MaxClock,          \* bound: readings of the wall clock
    ClockMayStepBack,
    Thing              \* what an event may be about

CommandId == 1 .. MaxCommand
NoCommand == 0
Time == 1 .. MaxClock
NoTime == 0

VARIABLES
    now,          \* the time of the last call
    emitted,      \* the events of the last call
    introduced,   \* processes that a fork or an exec has named, and the root
    running,      \* the command between its start and its end
    begun,        \* commands with a CommandStart
    closed,       \* commands with a CommandEnd
    earliest      \* of each command: the earliest time stamp of its events

svars == <<now, emitted, introduced, running, begun, closed, earliest>>

PlainType == {"process_fork", "process_exec", "process_exit", "file_open",
              "file_read", "file_write", "net_connect", "ipc_connect"}
EventType == PlainType \cup {"command_start", "command_end"}
Event == [type : EventType, timestamp_ns : Time, pid : Pid,
          command_id : CommandId \cup {NoCommand}, resource : Thing]

-----------------------------------------------------------------------------
SInit ==
    /\ now \in Time
    /\ introduced = {Root}
    /\ closed = {}
    /\ \/ /\ emitted = << >>
          /\ running = NoCommand
          /\ begun = {}
          /\ earliest = [c \in CommandId |-> NoTime]
       \/ /\ Len(emitted) = 1
          /\ emitted[1].type = "command_start"
          /\ emitted[1].command_id = 1
          /\ running = 1
          /\ begun = {1}
          /\ earliest = [c \in CommandId |-> IF c = 1 THEN now ELSE NoTime]

\* One call of the collector at time ts, which may give events to the sink.
Call(ts) ==
    /\ ts >= now \/ ClockMayStepBack
    /\ now' = ts
    /\ earliest' = [c \in CommandId |->
         LET times == {emitted'[i].timestamp_ns : i \in
                         {j \in DOMAIN emitted' : emitted'[j].command_id = c}}
                      \cup ({earliest[c]} \ {NoTime})
         IN  IF times = {} THEN NoTime ELSE CHOOSE t \in times : \A u \in times : t <= u]

Quiet(ts) ==
    /\ emitted' = << >>
    /\ Call(ts)
    /\ UNCHANGED <<introduced, running, begun, closed>>

\* An event is about a process that an earlier event introduced, or introduces
\* one.  Which command it names is open: the one that launched the process may
\* have ended, or not have started yet.
Introduces(e) == CASE e.type = "process_exec" -> {e.pid}
                   [] e.type = "process_fork" -> {e.resource}
                   [] OTHER -> {}
Plain(e, ts) ==
    /\ e.type \in PlainType
    /\ e.timestamp_ns = ts
    /\ e.pid \in introduced \/ e.type = "process_exec"

Occur(ts) ==
    /\ Len(emitted') = 1
    /\ Plain(emitted'[1], ts)
    /\ Call(ts)
    /\ introduced' = introduced \cup Introduces(emitted'[1])
    /\ UNCHANGED <<running, begun, closed>>

\* A command starts once, when no other runs.  Its start is not younger than
\* any of its events that came before.
Begin(ts) ==
    LET e == emitted'[1]
    IN  /\ Len(emitted') = 1
        /\ e.type = "command_start" /\ e.pid = Root
        /\ running = NoCommand /\ e.command_id \in CommandId \ begun
        /\ ClockMayStepBack \/ /\ e.timestamp_ns <= ts
                               /\ earliest[e.command_id] \in e.timestamp_ns .. ts \cup {NoTime}
        /\ Call(ts)
        /\ running' = e.command_id
        /\ begun' = begun \cup {e.command_id}
        /\ UNCHANGED <<introduced, closed>>

\* It ends by itself or with the process that ran it.
End(ts) ==
    LET n == Len(emitted')
        e == emitted'[n]
    IN  /\ n \in {1, 2}
        /\ n = 2 => Plain(emitted'[1], ts) /\ emitted'[1].type = "process_exit"
        /\ e.type = "command_end" /\ e.pid = Root /\ e.timestamp_ns = ts
        /\ running # NoCommand /\ e.command_id = running
        /\ Call(ts)
        /\ running' = NoCommand
        /\ closed' = closed \cup {running}
        /\ UNCHANGED <<introduced, begun>>

SNext == \E ts \in Time : Quiet(ts) \/ Occur(ts) \/ Begin(ts) \/ End(ts)

SSpec == SInit /\ [][emitted' \in Seq(Event) /\ SNext]_svars
=============================================================================
