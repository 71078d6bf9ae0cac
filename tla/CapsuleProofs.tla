---------------------------- MODULE CapsuleProofs ----------------------------
(***************************************************************************)
(* Proofs about Capsule, for any number of processes, commands, files,     *)
(* endpoints and events.                                                   *)
(***************************************************************************)
EXTENDS Capsule, FiniteSetTheorems, WellFoundedInduction, TLAPS

-----------------------------------------------------------------------------
(* The tables *)

EventRow == [timestamp_ns : Time, pid : Pid, type : EventType, resource : Thing,
             result : Int, errno_value : Nat, command_id : All]
CommandRow == [sequence : CommandId, command : Thing, start_ns : Time,
               end_ns : Time \cup {Null}, exit_code : Int \cup {Null}]
ProcessRow == [executable : Thing, start_ns : Time, end_ns : Time \cup {Null}]
FileRow == [read_calls : Nat, write_calls : Nat, bytes_read : Nat, bytes_written : Nat]
NetworkRow == {n \in [connect_count : Nat, success_count : Nat, failure_count : Nat,
                      last_errno : Nat] :
                 n.connect_count = n.success_count + n.failure_count}

\* The rows of a table have the types of its columns.
IsTable(table, Key, R) ==
    DOMAIN table \subseteq Key /\ \A k \in DOMAIN table : table[k] \in R
IsTables(d) ==
    /\ d = [schema_version |-> d.schema_version, runs |-> d.runs, events |-> d.events,
            commands |-> d.commands, processes |-> d.processes,
            file_activity |-> d.file_activity, network_activity |-> d.network_activity]
    /\ d.runs = Null \/ d.runs = [exit_code |-> d.runs.exit_code]
    /\ d.events \in Seq(EventRow)
    /\ IsTable(d.commands, CommandId, CommandRow)
    /\ IsTable(d.processes, Pid, ProcessRow)
    /\ IsTable(d.file_activity, Thing, FileRow)
    /\ IsTable(d.network_activity, Thing, NetworkRow)

\* An event that emit may be given, with what it says beyond EventStream
IsEvent(e, extra) ==
    /\ e \in Event
    /\ e.type \in {"command_start", "command_end"} => e.command_id \in CommandId
    /\ e.type = "process_fork" => e.resource \in Pid
    /\ extra.result \in Int /\ extra.executable \in Thing

\* INSERT and UPDATE keep the types of a table.
LEMMA PutTypes ==
    ASSUME NEW table, NEW Key, NEW R, IsTable(table, Key, R), NEW k \in Key, NEW row \in R
    PROVE  IsTable(Put(table, k, row), Key, R)
BY DEF IsTable, Put

LEMMA RowTypes ==
    ASSUME NEW table, NEW Key, NEW R, IsTable(table, Key, R), NEW k, NEW row \in R
    PROVE  Row(table, k, row) \in R
BY DEF IsTable, Row

LEMMA NumberTypes ==
    ASSUME NEW n \in Int
    PROVE  errno_value(n) \in Nat /\ bytes(n) \in Nat
BY DEF errno_value, kMaxErrno, bytes

\* Every event is logged, whatever else emit does with it.
LEMMA AddEvent ==
    ASSUME NEW d, IsTables(d), NEW e \in Event, NEW result \in Int
    PROVE  LET r == add_event(d, e, result)
           IN  /\ IsTables(r)
               /\ r = [d EXCEPT !.events = r.events]
               /\ Len(r.events) = Len(d.events) + 1
               /\ \A i \in 1 .. Len(d.events) : r.events[i] = d.events[i]
               /\ r.events[Len(d.events) + 1] =
                    [timestamp_ns |-> e.timestamp_ns, pid |-> e.pid, type |-> e.type,
                     resource |-> e.resource, result |-> result,
                     errno_value |-> errno_value(result), command_id |-> e.command_id]
  <1> DEFINE row == [timestamp_ns |-> e.timestamp_ns, pid |-> e.pid, type |-> e.type,
                     resource |-> e.resource, result |-> result,
                     errno_value |-> errno_value(result), command_id |-> e.command_id]
             r == add_event(d, e, result)
  <1>1. row \in EventRow
    BY NumberTypes DEF Event, EventRow, All
  <1>2. d.events \in Seq(EventRow)
    BY DEF IsTables
  <1>3. r = [d EXCEPT !.events = Append(d.events, row)]
    BY DEF add_event, IsTables
  <1> HIDE DEF row, r
  <1>4. /\ r.events = Append(d.events, row) /\ r.schema_version = d.schema_version
        /\ r.runs = d.runs /\ r.commands = d.commands /\ r.processes = d.processes
        /\ r.file_activity = d.file_activity /\ r.network_activity = d.network_activity
        /\ r = [schema_version |-> r.schema_version, runs |-> r.runs, events |-> r.events,
                commands |-> r.commands, processes |-> r.processes,
                file_activity |-> r.file_activity, network_activity |-> r.network_activity]
    BY <1>3 DEF IsTables
  <1>5. /\ Append(d.events, row) \in Seq(EventRow)
        /\ Len(Append(d.events, row)) = Len(d.events) + 1
        /\ \A i \in 1 .. Len(d.events) : Append(d.events, row)[i] = d.events[i]
        /\ Append(d.events, row)[Len(d.events) + 1] = row
    BY <1>1, <1>2
  <1>6. IsTables(r)
    BY <1>4, <1>5 DEF IsTables
  <1>7. r = [d EXCEPT !.events = r.events]
    BY <1>3, <1>4
  <1> QED
    BY <1>4, <1>5, <1>6, <1>7 DEF r, row

\* A table is replaced by one of the right types.
LEMMA SetCommands ==
    ASSUME NEW d, IsTables(d), NEW t, IsTable(t, CommandId, CommandRow)
    PROVE  LET r == [d EXCEPT !.commands = t]
           IN  /\ IsTables(r) /\ r.commands = t /\ r.events = d.events
               /\ r.schema_version = d.schema_version /\ r.runs = d.runs
               /\ r.processes = d.processes /\ r.network_activity = d.network_activity
               /\ r.file_activity = d.file_activity
BY DEF IsTables

LEMMA SetProcesses ==
    ASSUME NEW d, IsTables(d), NEW t, IsTable(t, Pid, ProcessRow)
    PROVE  LET r == [d EXCEPT !.processes = t]
           IN  /\ IsTables(r) /\ r.processes = t /\ r.events = d.events
               /\ r.schema_version = d.schema_version /\ r.runs = d.runs
               /\ r.commands = d.commands /\ r.network_activity = d.network_activity
               /\ r.file_activity = d.file_activity
BY DEF IsTables

LEMMA SetFiles ==
    ASSUME NEW d, IsTables(d), NEW t, IsTable(t, Thing, FileRow)
    PROVE  LET r == [d EXCEPT !.file_activity = t]
           IN  /\ IsTables(r) /\ r.file_activity = t /\ r.events = d.events
               /\ r.schema_version = d.schema_version /\ r.runs = d.runs
               /\ r.commands = d.commands /\ r.processes = d.processes
               /\ r.network_activity = d.network_activity
BY DEF IsTables

LEMMA SetNetwork ==
    ASSUME NEW d, IsTables(d), NEW t, IsTable(t, Thing, NetworkRow)
    PROVE  LET r == [d EXCEPT !.network_activity = t]
           IN  /\ IsTables(r) /\ r.network_activity = t /\ r.events = d.events
               /\ r.schema_version = d.schema_version /\ r.runs = d.runs
               /\ r.commands = d.commands /\ r.processes = d.processes
               /\ r.file_activity = d.file_activity
BY DEF IsTables

\* What emit does, as far as the proofs need it.
Logged(d, e, result, r) ==
    /\ IsTables(r) /\ r.schema_version = d.schema_version /\ r.runs = d.runs
    /\ Len(r.events) = Len(d.events) + 1
    /\ \A i \in 1 .. Len(d.events) : r.events[i] = d.events[i]
    /\ r.events[Len(d.events) + 1] =
         [timestamp_ns |-> e.timestamp_ns, pid |-> e.pid, type |-> e.type,
          resource |-> e.resource, result |-> result,
          errno_value |-> errno_value(result), command_id |-> e.command_id]
CommandsAfter(d, e, result, r) ==
    /\ DOMAIN r.commands = DOMAIN d.commands
                            \cup (IF e.type = "command_start" THEN {e.command_id} ELSE {})
    /\ \A c \in DOMAIN d.commands :
         ~(e.type \in {"command_start", "command_end"} /\ c = e.command_id) =>
           r.commands[c] = d.commands[c]
    /\ e.type = "command_start" => /\ r.commands[e.command_id].exit_code = Null
                                   /\ r.commands[e.command_id].start_ns = e.timestamp_ns
    /\ e.type = "command_end" /\ e.command_id \in DOMAIN d.commands =>
         /\ r.commands[e.command_id].exit_code = result
         /\ r.commands[e.command_id].start_ns = d.commands[e.command_id].start_ns
NoConnects == [connect_count |-> 0, success_count |-> 0, failure_count |-> 0,
               last_errno |-> 0]
NoCalls == [read_calls |-> 0, write_calls |-> 0, bytes_read |-> 0, bytes_written |-> 0]
NetworkAfter(d, e, result, r) ==
    IF e.type = "net_connect"
    THEN /\ DOMAIN r.network_activity = DOMAIN d.network_activity \cup {e.resource}
         /\ \A p \in DOMAIN d.network_activity \ {e.resource} :
              r.network_activity[p] = d.network_activity[p]
         /\ r.network_activity[e.resource].last_errno = errno_value(result)
         /\ LET old == Row(d.network_activity, e.resource, NoConnects)
                new == r.network_activity[e.resource]
            IN  /\ new.connect_count = old.connect_count + 1
                /\ new.success_count = old.success_count
                                         + (IF errno_value(result) = 0 THEN 1 ELSE 0)
                /\ new.failure_count = old.failure_count
                                         + (IF errno_value(result) = 0 THEN 0 ELSE 1)
    ELSE r.network_activity = d.network_activity
FilesAfter(d, e, result, r) ==
    IF e.type \in {"file_read", "file_write"}
    THEN /\ DOMAIN r.file_activity = DOMAIN d.file_activity \cup {e.resource}
         /\ \A p \in DOMAIN d.file_activity \ {e.resource} :
              r.file_activity[p] = d.file_activity[p]
         /\ LET old == Row(d.file_activity, e.resource, NoCalls)
                new == r.file_activity[e.resource]
            IN  IF e.type = "file_read"
                THEN /\ new.read_calls = old.read_calls + 1
                     /\ new.bytes_read = old.bytes_read + bytes(result)
                     /\ new.write_calls = old.write_calls
                     /\ new.bytes_written = old.bytes_written
                ELSE /\ new.write_calls = old.write_calls + 1
                     /\ new.bytes_written = old.bytes_written + bytes(result)
                     /\ new.read_calls = old.read_calls
                     /\ new.bytes_read = old.bytes_read
    ELSE r.file_activity = d.file_activity
Emits(d, e, result, r) ==
    /\ Logged(d, e, result, r)
    /\ CommandsAfter(d, e, result, r)
    /\ DOMAIN r.processes = DOMAIN d.processes \cup Introduces(e)
    /\ NetworkAfter(d, e, result, r)
    /\ FilesAfter(d, e, result, r)

LEMMA EmitEffect ==
    ASSUME NEW d, IsTables(d), NEW e, NEW extra, IsEvent(e, extra)
    PROVE  Emits(d, e, extra.result, emit(d, e, extra))
  <1> DEFINE logged == add_event(d, e, extra.result)
             r == emit(d, e, extra)
  <1>1. /\ e \in Event /\ extra.result \in Int /\ extra.executable \in Thing
        /\ e.timestamp_ns \in Time /\ e.resource \in Thing /\ e.pid \in Pid
        /\ errno_value(extra.result) \in Nat /\ bytes(extra.result) \in Nat
    BY NumberTypes DEF IsEvent, Event
  <1>2. /\ IsTables(logged)
        /\ Len(logged.events) = Len(d.events) + 1
        /\ \A i \in 1 .. Len(d.events) : logged.events[i] = d.events[i]
        /\ logged.events[Len(d.events) + 1] =
             [timestamp_ns |-> e.timestamp_ns, pid |-> e.pid, type |-> e.type,
              resource |-> e.resource, result |-> extra.result,
              errno_value |-> errno_value(extra.result), command_id |-> e.command_id]
    BY <1>1, AddEvent
  <1>3. /\ logged.schema_version = d.schema_version /\ logged.runs = d.runs
        /\ logged.commands = d.commands /\ logged.processes = d.processes
        /\ logged.file_activity = d.file_activity
        /\ logged.network_activity = d.network_activity
    BY DEF add_event, IsTables
  <1>4. /\ IsTable(d.commands, CommandId, CommandRow) /\ IsTable(d.processes, Pid, ProcessRow)
        /\ IsTable(d.file_activity, Thing, FileRow)
        /\ IsTable(d.network_activity, Thing, NetworkRow)
    BY DEF IsTables
  <1> HIDE DEF logged
  <1>5. CASE e.type = "command_start"
    <2> DEFINE new == [sequence |-> e.command_id, command |-> e.resource,
                       start_ns |-> e.timestamp_ns, end_ns |-> Null, exit_code |-> Null]
               t == Put(d.commands, e.command_id, new)
    <2>1. r = [logged EXCEPT !.commands = t]
      BY <1>3, <1>5 DEF emit, start_command, logged
    <2>2. new \in CommandRow /\ e.command_id \in CommandId
      BY <1>1, <1>5 DEF IsEvent, CommandRow
    <2>3. /\ IsTable(t, CommandId, CommandRow) /\ DOMAIN t = DOMAIN d.commands \cup {e.command_id}
          /\ t[e.command_id] = new
          /\ \A j \in DOMAIN d.commands \ {e.command_id} : t[j] = d.commands[j]
      <3> HIDE DEF new
      <3>1. IsTable(t, CommandId, CommandRow)
        BY <2>2, <1>4, PutTypes
      <3> QED
        BY <3>1 DEF Put
    <2> HIDE DEF t, r
    <2>4. /\ IsTables(r) /\ r.commands = t /\ r.events = logged.events
          /\ r.schema_version = logged.schema_version /\ r.runs = logged.runs
          /\ r.processes = logged.processes /\ r.network_activity = logged.network_activity
          /\ r.file_activity = logged.file_activity
      BY <2>1, <2>3, <1>2, SetCommands
    <2>5. Logged(d, e, extra.result, r)
      BY <2>4, <1>2, <1>3 DEF Logged
    <2>6. CommandsAfter(d, e, extra.result, r)
      BY <2>3, <2>4, <1>5 DEF CommandsAfter
    <2>7. /\ DOMAIN r.processes = DOMAIN d.processes \cup Introduces(e)
          /\ NetworkAfter(d, e, extra.result, r)
      BY <2>4, <1>3, <1>5 DEF Introduces, NetworkAfter
    <2>8. FilesAfter(d, e, extra.result, r)
      BY <2>4, <1>3, <1>5 DEF FilesAfter
    <2> QED
      BY <2>5, <2>6, <2>7, <2>8 DEF Emits, r
  <1>6. CASE e.type = "command_end"
    <2> DEFINE t == [c \in DOMAIN d.commands |->
                       IF c = e.command_id
                       THEN [d.commands[c] EXCEPT !.end_ns = e.timestamp_ns,
                                                  !.exit_code = extra.result]
                       ELSE d.commands[c]]
    <2>1. r = [logged EXCEPT !.commands = t]
      BY <1>3, <1>6 DEF emit, end_command, logged
    <2>2. \A c \in DOMAIN d.commands : t[c] \in CommandRow
      BY <1>1, <1>4 DEF IsTable, CommandRow
    <2>3. /\ IsTable(t, CommandId, CommandRow) /\ DOMAIN t = DOMAIN d.commands
          /\ \A j \in DOMAIN d.commands \ {e.command_id} : t[j] = d.commands[j]
      BY <2>2, <1>4 DEF IsTable
    <2>4. e.command_id \in DOMAIN d.commands =>
            /\ t[e.command_id].exit_code = extra.result
            /\ t[e.command_id].start_ns = d.commands[e.command_id].start_ns
      BY <1>4 DEF IsTable, CommandRow
    <2> HIDE DEF t, r
    <2>5. /\ IsTables(r) /\ r.commands = t /\ r.events = logged.events
          /\ r.schema_version = logged.schema_version /\ r.runs = logged.runs
          /\ r.processes = logged.processes /\ r.network_activity = logged.network_activity
          /\ r.file_activity = logged.file_activity
      BY <2>1, <2>3, <1>2, SetCommands
    <2>6. Logged(d, e, extra.result, r)
      BY <2>5, <1>2, <1>3 DEF Logged
    <2>7. CommandsAfter(d, e, extra.result, r)
      BY <2>3, <2>4, <2>5, <1>6 DEF CommandsAfter
    <2>8. /\ DOMAIN r.processes = DOMAIN d.processes \cup Introduces(e)
          /\ NetworkAfter(d, e, extra.result, r)
      BY <2>5, <1>3, <1>6 DEF Introduces, NetworkAfter
    <2>9. FilesAfter(d, e, extra.result, r)
      BY <2>5, <1>3, <1>6 DEF FilesAfter
    <2> QED
      BY <2>6, <2>7, <2>8, <2>9 DEF Emits, r
  <1>7. CASE e.type \in {"file_read", "file_write"}
    <2> DEFINE empty == [read_calls |-> 0, write_calls |-> 0, bytes_read |-> 0, bytes_written |-> 0]
               old == Row(d.file_activity, e.resource, empty)
               new == IF e.type = "file_read"
                      THEN [old EXCEPT !.read_calls = old.read_calls + 1,
                                       !.bytes_read = old.bytes_read + bytes(extra.result)]
                      ELSE [old EXCEPT !.write_calls = old.write_calls + 1,
                                       !.bytes_written = old.bytes_written + bytes(extra.result)]
               t == Put(d.file_activity, e.resource, new)
    <2>1. old \in FileRow
      <3>1. empty \in FileRow
        BY DEF FileRow
      <3> QED
        BY <3>1, <1>4, RowTypes
    <2>2. r = [logged EXCEPT !.file_activity = t]
      <3> HIDE DEF old
      <3>1. emit(d, e, extra) = add_file_activity(logged, e, extra.result)
        BY <1>7 DEF emit, logged
      <3>2. old = Row(logged.file_activity, e.resource, empty)
        BY <1>3 DEF old
      <3> QED
        BY <1>3, <2>1, <3>1, <3>2 DEF add_file_activity, FileRow
    <2> HIDE DEF old
    <2>3. new \in FileRow
      <3>1. /\ old.read_calls + 1 \in Nat /\ old.bytes_read + bytes(extra.result) \in Nat
            /\ old.write_calls + 1 \in Nat /\ old.bytes_written + bytes(extra.result) \in Nat
        BY <2>1, <1>1 DEF FileRow
      <3> HIDE DEF empty
      <3>2. CASE e.type = "file_read"
        BY <2>1, <3>1, <3>2 DEF FileRow
      <3>3. CASE e.type # "file_read"
        BY <2>1, <3>1, <3>3 DEF FileRow
      <3> QED
        BY <3>2, <3>3
    <2> HIDE DEF new
    <2>4. /\ IsTable(t, Thing, FileRow) /\ DOMAIN t = DOMAIN d.file_activity \cup {e.resource}
          /\ t[e.resource] = new
          /\ \A j \in DOMAIN d.file_activity \ {e.resource} : t[j] = d.file_activity[j]
      <3>1. IsTable(t, Thing, FileRow)
        BY <2>3, <1>1, <1>4, PutTypes
      <3> QED
        BY <3>1 DEF Put
    <2> HIDE DEF t, r
    <2>5. /\ IsTables(r) /\ r.file_activity = t /\ r.events = logged.events
          /\ r.schema_version = logged.schema_version /\ r.runs = logged.runs
          /\ r.commands = logged.commands /\ r.processes = logged.processes
          /\ r.network_activity = logged.network_activity
      BY <2>2, <2>4, <1>2, SetFiles
    <2>6. Logged(d, e, extra.result, r)
      BY <2>5, <1>2, <1>3 DEF Logged
    <2>7. CommandsAfter(d, e, extra.result, r)
      BY <2>5, <1>3, <1>7 DEF CommandsAfter
    <2>8. /\ DOMAIN r.processes = DOMAIN d.processes \cup Introduces(e)
          /\ NetworkAfter(d, e, extra.result, r)
      BY <2>5, <1>3, <1>7 DEF Introduces, NetworkAfter
    <2>9. old = Row(d.file_activity, e.resource, NoCalls)
      BY DEF old, NoCalls
    <2>10. CASE e.type = "file_read"
      <3>1. /\ new.read_calls = old.read_calls + 1
            /\ new.bytes_read = old.bytes_read + bytes(extra.result)
            /\ new.write_calls = old.write_calls /\ new.bytes_written = old.bytes_written
        BY <2>1, <2>10 DEF new, FileRow
      <3>2. FilesAfter(d, e, extra.result, r)
        BY <2>4, <2>5, <2>9, <2>10, <3>1 DEF FilesAfter
      <3> QED
        BY <2>6, <2>7, <2>8, <3>2 DEF Emits, r
    <2>11. CASE e.type = "file_write"
      <3>1. /\ new.write_calls = old.write_calls + 1
            /\ new.bytes_written = old.bytes_written + bytes(extra.result)
            /\ new.read_calls = old.read_calls /\ new.bytes_read = old.bytes_read
        BY <2>1, <2>11 DEF new, FileRow
      <3>2. FilesAfter(d, e, extra.result, r)
        BY <2>4, <2>5, <2>9, <2>11, <3>1 DEF FilesAfter
      <3> QED
        BY <2>6, <2>7, <2>8, <3>2 DEF Emits, r
    <2> QED
      BY <1>7, <2>10, <2>11
  <1>8. CASE e.type = "net_connect"
    <2> DEFINE empty == [connect_count |-> 0, success_count |-> 0, failure_count |-> 0,
                         last_errno |-> 0]
               error == errno_value(extra.result)
               old == Row(d.network_activity, e.resource, empty)
               new == [connect_count |-> old.connect_count + 1,
                       success_count |-> old.success_count + (IF error = 0 THEN 1 ELSE 0),
                       failure_count |-> old.failure_count + (IF error = 0 THEN 0 ELSE 1),
                       last_errno |-> LastErrno(old.last_errno, error)]
               t == Put(d.network_activity, e.resource, new)
    <2>1. old \in NetworkRow
      <3>1. empty \in NetworkRow
        BY DEF NetworkRow
      <3> QED
        BY <3>1, <1>4, RowTypes
    <2>2. r = [logged EXCEPT !.network_activity = t]
      <3>1. emit(d, e, extra) = add_network_activity(logged, e, extra.result)
        BY <1>8 DEF emit, logged
      <3> QED
        BY <1>3, <3>1 DEF add_network_activity
    <2> HIDE DEF old
    <2>3. /\ new \in NetworkRow /\ new.last_errno = error
          /\ new.connect_count = old.connect_count + 1
          /\ new.success_count = old.success_count + (IF error = 0 THEN 1 ELSE 0)
          /\ new.failure_count = old.failure_count + (IF error = 0 THEN 0 ELSE 1)
      BY <2>1, <1>1 DEF NetworkRow, LastErrno
    <2> HIDE DEF new
    <2>4. /\ IsTable(t, Thing, NetworkRow) /\ DOMAIN t = DOMAIN d.network_activity \cup {e.resource}
          /\ t[e.resource] = new
          /\ \A j \in DOMAIN d.network_activity \ {e.resource} : t[j] = d.network_activity[j]
      <3>1. IsTable(t, Thing, NetworkRow)
        BY <2>3, <1>1, <1>4, PutTypes
      <3> QED
        BY <3>1 DEF Put
    <2> HIDE DEF t, r
    <2>5. /\ IsTables(r) /\ r.network_activity = t /\ r.events = logged.events
          /\ r.schema_version = logged.schema_version /\ r.runs = logged.runs
          /\ r.commands = logged.commands /\ r.processes = logged.processes
          /\ r.file_activity = logged.file_activity
      BY <2>2, <2>4, <1>2, SetNetwork
    <2>6. Logged(d, e, extra.result, r)
      BY <2>5, <1>2, <1>3 DEF Logged
    <2>7. CommandsAfter(d, e, extra.result, r)
      BY <2>5, <1>3, <1>8 DEF CommandsAfter
    <2>8. DOMAIN r.processes = DOMAIN d.processes \cup Introduces(e)
      BY <2>5, <1>3, <1>8 DEF Introduces
    <2>9. NetworkAfter(d, e, extra.result, r)
      <3>1. old = Row(d.network_activity, e.resource, NoConnects)
        BY DEF old, NoConnects
      <3> QED
        BY <3>1, <2>3, <2>4, <2>5, <1>8 DEF NetworkAfter
    <2>10. FilesAfter(d, e, extra.result, r)
      BY <2>5, <1>3, <1>8 DEF FilesAfter
    <2> QED
      BY <2>6, <2>7, <2>8, <2>9, <2>10 DEF Emits, r
  <1>9. CASE e.type = "process_exec"
    <2> DEFINE empty == [start_ns |-> e.timestamp_ns, end_ns |-> Null, executable |-> NoExe]
               old == Row(d.processes, e.pid, empty)
               new == [old EXCEPT !.executable = e.resource]
               t == Put(d.processes, e.pid, new)
    <2>1. old \in ProcessRow
      <3>1. empty \in ProcessRow
        BY <1>1, CapsuleAssumption DEF ProcessRow
      <3> QED
        BY <3>1, <1>4, RowTypes
    <2>2. r = [logged EXCEPT !.processes = t]
      <3>1. emit(d, e, extra) = exec_process(logged, e)
        BY <1>9 DEF emit, logged
      <3> QED
        BY <1>3, <3>1 DEF exec_process
    <2> HIDE DEF old
    <2>3. new \in ProcessRow
      BY <2>1, <1>1 DEF ProcessRow
    <2> HIDE DEF new
    <2>4. IsTable(t, Pid, ProcessRow) /\ DOMAIN t = DOMAIN d.processes \cup {e.pid}
      <3>1. IsTable(t, Pid, ProcessRow)
        BY <2>3, <1>1, <1>4, PutTypes
      <3> QED
        BY <3>1 DEF Put
    <2> HIDE DEF t, r
    <2>5. /\ IsTables(r) /\ r.processes = t /\ r.events = logged.events
          /\ r.schema_version = logged.schema_version /\ r.runs = logged.runs
          /\ r.commands = logged.commands /\ r.network_activity = logged.network_activity
          /\ r.file_activity = logged.file_activity
      BY <2>2, <2>4, <1>2, SetProcesses
    <2>6. Logged(d, e, extra.result, r)
      BY <2>5, <1>2, <1>3 DEF Logged
    <2>7. CommandsAfter(d, e, extra.result, r)
      BY <2>5, <1>3, <1>9 DEF CommandsAfter
    <2>8. /\ DOMAIN r.processes = DOMAIN d.processes \cup Introduces(e)
          /\ NetworkAfter(d, e, extra.result, r)
      BY <2>4, <2>5, <1>3, <1>9 DEF Introduces, NetworkAfter
    <2>9. FilesAfter(d, e, extra.result, r)
      BY <2>5, <1>3, <1>9 DEF FilesAfter
    <2> QED
      BY <2>6, <2>7, <2>8, <2>9 DEF Emits, r
  <1>10. CASE e.type = "process_fork"
    <2> DEFINE empty == [executable |-> extra.executable, start_ns |-> e.timestamp_ns,
                         end_ns |-> Null]
               new == Row(d.processes, e.resource, empty)
               t == Put(d.processes, e.resource, new)
    <2>2. r = [logged EXCEPT !.processes = t]
      <3>1. emit(d, e, extra) = fork_process(logged, e, extra.executable)
        BY <1>10 DEF emit, logged
      <3> QED
        BY <1>3, <3>1 DEF fork_process
    <2>3. new \in ProcessRow /\ e.resource \in Pid
      <3>1. empty \in ProcessRow
        BY <1>1 DEF ProcessRow
      <3> QED
        BY <3>1, <1>4, <1>10, RowTypes DEF IsEvent
    <2> HIDE DEF new
    <2>4. IsTable(t, Pid, ProcessRow) /\ DOMAIN t = DOMAIN d.processes \cup {e.resource}
      <3>1. IsTable(t, Pid, ProcessRow)
        BY <2>3, <1>4, PutTypes
      <3> QED
        BY <3>1 DEF Put
    <2> HIDE DEF t, r
    <2>5. /\ IsTables(r) /\ r.processes = t /\ r.events = logged.events
          /\ r.schema_version = logged.schema_version /\ r.runs = logged.runs
          /\ r.commands = logged.commands /\ r.network_activity = logged.network_activity
          /\ r.file_activity = logged.file_activity
      BY <2>2, <2>4, <1>2, SetProcesses
    <2>6. Logged(d, e, extra.result, r)
      BY <2>5, <1>2, <1>3 DEF Logged
    <2>7. CommandsAfter(d, e, extra.result, r)
      BY <2>5, <1>3, <1>10 DEF CommandsAfter
    <2>8. /\ DOMAIN r.processes = DOMAIN d.processes \cup Introduces(e)
          /\ NetworkAfter(d, e, extra.result, r)
      BY <2>4, <2>5, <1>3, <1>10 DEF Introduces, NetworkAfter
    <2>9. FilesAfter(d, e, extra.result, r)
      BY <2>5, <1>3, <1>10 DEF FilesAfter
    <2> QED
      BY <2>6, <2>7, <2>8, <2>9 DEF Emits, r
  <1>11. CASE e.type = "process_exit"
    <2> DEFINE t == [p \in DOMAIN d.processes |->
                       IF p = e.pid THEN [d.processes[p] EXCEPT !.end_ns = e.timestamp_ns]
                       ELSE d.processes[p]]
    <2>2. r = [logged EXCEPT !.processes = t]
      <3>1. emit(d, e, extra) = exit_process(logged, e)
        BY <1>11 DEF emit, logged
      <3> QED
        BY <1>3, <3>1 DEF exit_process
    <2>3. \A p \in DOMAIN d.processes : t[p] \in ProcessRow
      BY <1>1, <1>4 DEF IsTable, ProcessRow
    <2>4. IsTable(t, Pid, ProcessRow) /\ DOMAIN t = DOMAIN d.processes
      BY <2>3, <1>4 DEF IsTable
    <2> HIDE DEF t, r
    <2>5. /\ IsTables(r) /\ r.processes = t /\ r.events = logged.events
          /\ r.schema_version = logged.schema_version /\ r.runs = logged.runs
          /\ r.commands = logged.commands /\ r.network_activity = logged.network_activity
          /\ r.file_activity = logged.file_activity
      BY <2>2, <2>4, <1>2, SetProcesses
    <2>6. Logged(d, e, extra.result, r)
      BY <2>5, <1>2, <1>3 DEF Logged
    <2>7. CommandsAfter(d, e, extra.result, r)
      BY <2>5, <1>3, <1>11 DEF CommandsAfter
    <2>8. /\ DOMAIN r.processes = DOMAIN d.processes \cup Introduces(e)
          /\ NetworkAfter(d, e, extra.result, r)
      BY <2>4, <2>5, <1>3, <1>11 DEF Introduces, NetworkAfter
    <2>9. FilesAfter(d, e, extra.result, r)
      BY <2>5, <1>3, <1>11 DEF FilesAfter
    <2> QED
      BY <2>6, <2>7, <2>8, <2>9 DEF Emits, r
  <1>12. CASE e.type \in {"file_open", "ipc_connect"}
    <2>1. r = logged
      BY <1>12 DEF emit, logged
    <2> HIDE DEF r
    <2>2. Logged(d, e, extra.result, r)
      BY <2>1, <1>2, <1>3 DEF Logged
    <2>3. CommandsAfter(d, e, extra.result, r)
      BY <2>1, <1>3, <1>12 DEF CommandsAfter
    <2>4. /\ DOMAIN r.processes = DOMAIN d.processes \cup Introduces(e)
          /\ NetworkAfter(d, e, extra.result, r)
      BY <2>1, <1>3, <1>12 DEF Introduces, NetworkAfter
    <2>5. FilesAfter(d, e, extra.result, r)
      BY <2>1, <1>3, <1>12 DEF FilesAfter
    <2> QED
      BY <2>2, <2>3, <2>4, <2>5 DEF Emits, r
  <1> QED
    BY <1>1, <1>5, <1>6, <1>7, <1>8, <1>9, <1>10, <1>11, <1>12 DEF Event, EventType, PlainType
-----------------------------------------------------------------------------
(* An open capsule *)

\* What holds of the tables while the capsule is open: the commands that were begun
\* have a row, all but the running one with an exit code; the processes that were
\* named have one, and so do those that an event says have executed something.
CommandsOK(d, run, beg) ==
    /\ DOMAIN d.commands = beg
    /\ \A c \in beg : d.commands[c].exit_code = Null <=> c = run
ProcessesOK(d, intro) ==
    /\ intro \ {Root} \subseteq DOMAIN d.processes
    /\ IsFiniteSet(DOMAIN d.processes)
    /\ \A i \in 1 .. Len(d.events) :
         d.events[i].type = "process_exec" => d.events[i].pid \in DOMAIN d.processes
OpenOK(d, intro, run, beg) ==
    /\ IsTables(d)
    /\ d.runs = [exit_code |-> Null]
    /\ CommandsOK(d, run, beg)
    /\ ProcessesOK(d, intro)

\* Each event adds the process it introduces, if any, and no other.
LEMMA ProcessesStep ==
    ASSUME NEW d, IsTables(d), NEW e \in Event, NEW result, NEW r, Emits(d, e, result, r),
           NEW intro, ProcessesOK(d, intro)
    PROVE  ProcessesOK(r, intro \cup Introduces(e))
  <1>1. DOMAIN r.processes = DOMAIN d.processes \cup Introduces(e)
    BY DEF Emits
  <1>2. (intro \cup Introduces(e)) \ {Root} \subseteq DOMAIN r.processes
    BY <1>1 DEF ProcessesOK
  <1>3. IsFiniteSet(DOMAIN d.processes \cup Introduces(e))
    <2>1. IsFiniteSet(DOMAIN d.processes)
      BY DEF ProcessesOK
    <2>2. \A x : IsFiniteSet(DOMAIN d.processes \cup {x})
      BY <2>1, FS_AddElement
    <2>3. \/ Introduces(e) = {} \/ Introduces(e) = {e.pid} \/ Introduces(e) = {e.resource}
      BY DEF Introduces
    <2>4. DOMAIN d.processes \cup {} = DOMAIN d.processes
      OBVIOUS
    <2> QED
      BY <2>1, <2>2, <2>3, <2>4
  <1>4. \A i \in 1 .. Len(r.events) :
          r.events[i].type = "process_exec" => r.events[i].pid \in DOMAIN r.processes
    <2> SUFFICES ASSUME NEW i \in 1 .. Len(r.events), r.events[i].type = "process_exec"
                 PROVE  r.events[i].pid \in DOMAIN r.processes
      OBVIOUS
    <2>1. Len(d.events) \in Nat /\ Len(r.events) = Len(d.events) + 1
      BY DEF Emits, Logged, IsTables
    <2>2. CASE i \in 1 .. Len(d.events)
      BY <2>2, <1>1 DEF Emits, Logged, ProcessesOK
    <2>3. CASE i = Len(d.events) + 1
      <3>1. r.events[i].pid = e.pid /\ r.events[i].type = e.type
        BY <2>3 DEF Emits, Logged
      <3>2. Introduces(e) = {e.pid}
        BY <3>1 DEF Introduces
      <3> QED
        BY <3>1, <3>2, <1>1
    <2> QED
      BY <2>1, <2>2, <2>3
  <1> QED
    BY <1>1, <1>2, <1>3, <1>4 DEF ProcessesOK

\* The events of processes leave the commands alone.
LEMMA PlainStep ==
    ASSUME NEW d, NEW e \in Event, NEW result, NEW r, Emits(d, e, result, r),
           NEW intro, NEW run, NEW beg, OpenOK(d, intro, run, beg), e.type \in PlainType
    PROVE  OpenOK(r, intro \cup Introduces(e), run, beg)
  <1>1. IsTables(d) /\ ProcessesOK(d, intro) /\ CommandsOK(d, run, beg)
    BY DEF OpenOK
  <1>2. ProcessesOK(r, intro \cup Introduces(e))
    BY <1>1, ProcessesStep
  <1>3. IsTables(r) /\ r.runs = [exit_code |-> Null]
    BY DEF OpenOK, Emits, Logged
  <1>4. e.type # "command_start" /\ e.type # "command_end"
    BY DEF PlainType
  <1>5. DOMAIN r.commands = beg /\ \A c \in beg : r.commands[c] = d.commands[c]
    BY <1>1, <1>4 DEF Emits, CommandsAfter, CommandsOK
  <1>6. CommandsOK(r, run, beg)
    BY <1>1, <1>5 DEF CommandsOK
  <1> QED
    BY <1>2, <1>3, <1>6 DEF OpenOK

\* A command starts without an exit code.
LEMMA BeginStep ==
    ASSUME NEW d, NEW e \in Event, NEW result, NEW r, Emits(d, e, result, r),
           NEW intro, NEW beg, OpenOK(d, intro, NoCommand, beg), e.type = "command_start",
           NoCommand \notin beg, e.command_id \notin beg
    PROVE  OpenOK(r, intro, e.command_id, beg \cup {e.command_id})
  <1>1. IsTables(d) /\ ProcessesOK(d, intro) /\ CommandsOK(d, NoCommand, beg)
    BY DEF OpenOK
  <1>2. Introduces(e) = {} /\ intro \cup {} = intro
    BY DEF Introduces
  <1>3. ProcessesOK(r, intro)
    BY <1>1, <1>2, ProcessesStep
  <1>4. IsTables(r) /\ r.runs = [exit_code |-> Null]
    BY DEF OpenOK, Emits, Logged
  <1>5. /\ DOMAIN r.commands = beg \cup {e.command_id}
        /\ \A c \in beg : r.commands[c] = d.commands[c]
        /\ r.commands[e.command_id].exit_code = Null
    BY <1>1 DEF Emits, CommandsAfter, CommandsOK
  <1>6. \A c \in beg : d.commands[c].exit_code # Null
    BY <1>1 DEF CommandsOK
  <1>7. CommandsOK(r, e.command_id, beg \cup {e.command_id})
    BY <1>5, <1>6 DEF CommandsOK
  <1> QED
    BY <1>3, <1>4, <1>7 DEF OpenOK

\* It has one when it has ended, zero too.
LEMMA EndStep ==
    ASSUME NEW d, NEW e \in Event, NEW result \in Int, NEW r, Emits(d, e, result, r),
           NEW intro, NEW run, NEW beg, OpenOK(d, intro, run, beg), e.type = "command_end",
           NoCommand \notin beg, run \in beg, e.command_id = run
    PROVE  OpenOK(r, intro, NoCommand, beg)
  <1>1. IsTables(d) /\ ProcessesOK(d, intro) /\ CommandsOK(d, run, beg)
    BY DEF OpenOK
  <1>2. Introduces(e) = {} /\ intro \cup {} = intro
    BY DEF Introduces
  <1>3. ProcessesOK(r, intro)
    BY <1>1, <1>2, ProcessesStep
  <1>4. IsTables(r) /\ r.runs = [exit_code |-> Null]
    BY DEF OpenOK, Emits, Logged
  <1>5. /\ DOMAIN r.commands = beg
        /\ \A c \in beg \ {run} : r.commands[c] = d.commands[c]
        /\ r.commands[run].exit_code = result
    BY <1>1 DEF Emits, CommandsAfter, CommandsOK
  <1>6. result # Null
    BY CapsuleAssumption
  <1>7. \A c \in beg \ {run} : d.commands[c].exit_code # Null
    BY <1>1 DEF CommandsOK
  <1>8. CommandsOK(r, NoCommand, beg)
    BY <1>5, <1>6, <1>7 DEF CommandsOK
  <1> QED
    BY <1>3, <1>4, <1>8 DEF OpenOK

LEMMA EmptyTables ==
    /\ IsTables(Schema) /\ IsTables(Begun)
    /\ Schema.schema_version = Null /\ Begun.runs = [exit_code |-> Null]
    /\ Len(Schema.events) = 0 /\ Len(Begun.events) = 0
    /\ OpenOK(Begun, {Root}, NoCommand, {})
  <1>1. DOMAIN << >> = {} /\ << >> \in Seq(EventRow) /\ Len(<< >>) = 0
    OBVIOUS
  <1>2. \A Key, R : IsTable(<< >>, Key, R)
    BY <1>1 DEF IsTable
  <1>3. /\ Schema.schema_version = Null /\ Schema.runs = Null /\ Schema.events = << >>
        /\ Schema.commands = << >> /\ Schema.processes = << >>
        /\ Schema.file_activity = << >> /\ Schema.network_activity = << >>
        /\ Schema = [schema_version |-> Schema.schema_version, runs |-> Schema.runs,
                     events |-> Schema.events, commands |-> Schema.commands,
                     processes |-> Schema.processes, file_activity |-> Schema.file_activity,
                     network_activity |-> Schema.network_activity]
    BY DEF Schema
  <1>4. /\ Begun.schema_version = 3 /\ Begun.runs = [exit_code |-> Null]
        /\ Begun.events = << >> /\ Begun.commands = << >> /\ Begun.processes = << >>
        /\ Begun.file_activity = << >> /\ Begun.network_activity = << >>
        /\ Begun = [schema_version |-> Begun.schema_version, runs |-> Begun.runs,
                    events |-> Begun.events, commands |-> Begun.commands,
                    processes |-> Begun.processes, file_activity |-> Begun.file_activity,
                    network_activity |-> Begun.network_activity]
    <2> DEFINE versioned == [Schema EXCEPT !.schema_version = 3]
    <2>1. versioned = [schema_version |-> 3, runs |-> Null, events |-> << >>,
                       commands |-> << >>, processes |-> << >>, file_activity |-> << >>,
                       network_activity |-> << >>]
      BY DEF Schema
    <2>2. Begun = [versioned EXCEPT !.runs = [exit_code |-> Null]]
      BY Zenon DEF Begun
    <2> HIDE DEF versioned
    <2> QED
      BY <2>1, <2>2
  <1>5. IsTables(Schema)
    BY <1>1, <1>2, <1>3 DEF IsTables
  <1>6. IsTables(Begun)
    BY <1>1, <1>2, <1>4 DEF IsTables
  <1>7. CommandsOK(Begun, NoCommand, {})
    BY <1>1, <1>4 DEF CommandsOK
  <1>8. ProcessesOK(Begun, {Root})
    BY <1>1, <1>4, FS_EmptySet DEF ProcessesOK
  <1> QED
    BY <1>1, <1>3, <1>4, <1>5, <1>6, <1>7, <1>8 DEF OpenOK
-----------------------------------------------------------------------------
(* The inductive invariant *)

StreamOK ==
    /\ now \in Time /\ introduced \subseteq Pid
    /\ closed \subseteq CommandId /\ running \in All /\ running \notin closed
    /\ begun = closed \cup ({running} \ {NoCommand})
WInv ==
    /\ StreamOK
    /\ IsTables(db) /\ IsTables(disk)
    /\ phase \in {"open", "finished", "failed"}
    /\ session \in BOOLEAN
    /\ left \in 0 .. MaxRows /\ Len(db.events) + left <= MaxRows + 1
    /\ phase = "open" => OpenOK(db, introduced, running, begun)
    /\ phase # "finished" => disk = Committed
    /\ phase = "finished" => disk = db /\ disk.runs.exit_code # Null

\* n events were written, and the transaction is still open.
Written(n) ==
    /\ phase = "open" /\ phase' = "open"
    /\ n <= left /\ left' = left - n
    /\ disk' = disk /\ session' = session /\ saved' = saved

\* Record, when the event breaks no key
LEMMA RecordOne ==
    ASSUME WInv, NEW e, NEW extra, IsEvent(e, extra), emitted' = <<e>>, Record(extra),
           ~(e.type = "command_start" /\ e.command_id \in begun)
    PROVE  Written(1) /\ Emits(db, e, extra.result, db')
  <1>1. Len(emitted') = 1 /\ emitted'[1] = e
    OBVIOUS
  <1>2. phase = "open" /\ DOMAIN db.commands = begun /\ IsTables(db)
    BY DEF WInv, Record, OpenOK, CommandsOK
  <1>3. ~Rejects(db, emitted'[1])
    BY <1>1, <1>2 DEF Rejects
  <1>4. db' = emit(db, e, extra) /\ Written(1)
    BY <1>1, <1>2, <1>3 DEF Record, Written
  <1> QED
    BY <1>2, <1>4, EmitEffect

\* A process does something, or comes or goes: one event, about now.
PlainEvent(e, ts) ==
    /\ e \in Event /\ e.type \in PlainType /\ e.timestamp_ns = ts
    /\ Introduces(e) \subseteq Pid

LEMMA Activities ==
    ASSUME WInv, NEW ts \in Time, RecordActivity(ts) \/ RecordProcess(ts)
    PROVE  \E e, result : /\ PlainEvent(e, ts) /\ Written(1) /\ Emits(db, e, result, db')
                          /\ emitted' = <<e>> /\ Call(ts)
                          /\ introduced' = introduced \cup Introduces(e)
                          /\ UNCHANGED <<running, begun, closed>>
  <1>1. CASE RecordActivity(ts)
    <2>1. PICK a \in Activity, pid \in introduced, c \in All :
            /\ emitted' = <<About(a.type, ts, pid, c, a.resource)>>
            /\ Occur(ts)
            /\ Record([result |-> a.result, executable |-> NoExe])
      BY <1>1 DEF RecordActivity
    <2> DEFINE e == About(a.type, ts, pid, c, a.resource)
               extra == [result |-> a.result, executable |-> NoExe]
    <2>2. /\ a.type \in {"file_open", "file_read", "file_write", "net_connect", "ipc_connect"}
          /\ a.resource \in Thing /\ a.result \in Int /\ NoExe \in Thing
      BY CapsuleAssumption
    <2>3. pid \in Pid /\ c \in CommandId \cup {NoCommand}
      BY DEF WInv, StreamOK, All
    <2>4. e \in Event /\ e.type = a.type /\ e.timestamp_ns = ts
      BY <2>2, <2>3 DEF About, Event, EventType, PlainType
    <2>5. extra.result = a.result /\ extra.executable = NoExe
      OBVIOUS
    <2> HIDE DEF e, extra
    <2>6. Introduces(e) = {} /\ e.type \in PlainType
      BY <2>2, <2>4 DEF Introduces, PlainType
    <2>7. IsEvent(e, extra)
      BY <2>2, <2>4, <2>5 DEF IsEvent
    <2>8. e.type # "command_start"
      BY <2>2, <2>4
    <2>9. emitted' = <<e>> /\ Occur(ts) /\ Record(extra)
      BY <2>1 DEF e, extra
    <2>10. Written(1) /\ Emits(db, e, extra.result, db')
      BY <2>7, <2>8, <2>9, RecordOne
    <2>11. emitted'[1] = e
      BY <2>9
    <2>12. PlainEvent(e, ts)
      BY <2>4, <2>6 DEF PlainEvent
    <2>13. /\ Call(ts) /\ introduced' = introduced \cup Introduces(e)
           /\ UNCHANGED <<running, begun, closed>>
      BY <2>9, <2>11 DEF Occur
    <2> QED
      BY <2>9, <2>10, <2>12, <2>13
  <1>2. CASE RecordProcess(ts)
    <2>1. PICK c \in All, pid \in Pid, executable \in Exe \cup {NoExe} :
            /\ \/ executable # NoExe
                  /\ emitted' = <<About("process_exec", ts, pid, c, executable)>>
               \/ \E child \in Pid \ {Root, pid} :
                    emitted' = <<About("process_fork", ts, pid, c, child)>>
               \/ c = running
                  /\ emitted' = <<About("process_exit", ts, pid, c, executable)>>
            /\ Occur(ts)
            /\ Record([result |-> 0, executable |-> executable])
      BY <1>2 DEF RecordProcess
    <2> DEFINE extra == [result |-> 0, executable |-> executable]
    <2>2. /\ executable \in Thing /\ Pid \subseteq Thing
          /\ c \in CommandId \cup {NoCommand}
      BY CapsuleAssumption DEF All
    <2>3. PICK type \in {"process_exec", "process_fork", "process_exit"}, what \in Thing :
            /\ emitted' = <<About(type, ts, pid, c, what)>>
            /\ type = "process_fork" => what \in Pid
      <3>1. CASE emitted' = <<About("process_exec", ts, pid, c, executable)>>
        BY <3>1, <2>2
      <3>2. CASE \E child \in Pid \ {Root, pid} :
                   emitted' = <<About("process_fork", ts, pid, c, child)>>
        BY <3>2, <2>2
      <3>3. CASE emitted' = <<About("process_exit", ts, pid, c, executable)>>
        BY <3>3, <2>2
      <3> QED
        BY <2>1, <3>1, <3>2, <3>3
    <2> DEFINE e == About(type, ts, pid, c, what)
    <2>4. /\ e \in Event /\ e.type = type /\ e.timestamp_ns = ts /\ e.resource = what
          /\ e.pid = pid
      BY <2>2, <2>3 DEF About, Event, EventType, PlainType
    <2>5. extra.result = 0 /\ extra.executable = executable
      OBVIOUS
    <2>6. emitted' = <<e>> /\ Occur(ts) /\ Record(extra)
      BY <2>1, <2>3
    <2> HIDE DEF e, extra
    <2>7. Introduces(e) \subseteq Pid
      <3>1. CASE type = "process_exec"
        BY <3>1, <2>4 DEF Introduces
      <3>2. CASE type = "process_fork"
        BY <3>2, <2>3, <2>4 DEF Introduces
      <3>3. CASE type = "process_exit"
        BY <3>3, <2>4 DEF Introduces
      <3> QED
        BY <3>1, <3>2, <3>3
    <2>8. e.type \in PlainType /\ e.type # "command_start"
      BY <2>4 DEF PlainType
    <2>9. IsEvent(e, extra)
      BY <2>2, <2>3, <2>4, <2>5 DEF IsEvent
    <2>10. Written(1) /\ Emits(db, e, extra.result, db')
      BY <2>6, <2>8, <2>9, RecordOne
    <2>11. emitted'[1] = e
      BY <2>6
    <2>12. PlainEvent(e, ts)
      BY <2>4, <2>7, <2>8 DEF PlainEvent
    <2>13. /\ Call(ts) /\ introduced' = introduced \cup Introduces(e)
           /\ UNCHANGED <<running, begun, closed>>
      BY <2>6, <2>11 DEF Occur
    <2> QED
      BY <2>6, <2>10, <2>12, <2>13
  <1> QED
    BY <1>1, <1>2

\* A command that has no row yet starts, before any of its events that came earlier.
StartsBefore(e, ts) ==
    /\ e.timestamp_ns <= ts
    /\ earliest[e.command_id] # NoTime => e.timestamp_ns <= earliest[e.command_id]

LEMMA Beginnings ==
    ASSUME WInv, NEW ts \in Time, RecordBegin(ts)
    PROVE  \E e \in Event :
             /\ e.type = "command_start" /\ Written(1) /\ Emits(db, e, 0, db')
             /\ emitted' = <<e>> /\ Call(ts)
             /\ ClockMayStepBack \/ StartsBefore(e, ts)
             /\ running = NoCommand /\ e.command_id \in CommandId \ begun
             /\ running' = e.command_id /\ begun' = begun \cup {e.command_id}
             /\ UNCHANGED <<introduced, closed>>
  <1>1. PICK c \in CommandId, t \in Text, at \in Time :
          /\ emitted' = <<About("command_start", at, Root, c, t)>>
          /\ Begin(ts)
          /\ Record(NoExtra)
    BY DEF RecordBegin
  <1> DEFINE e == About("command_start", at, Root, c, t)
  <1>2. t \in Thing /\ Root \in Pid /\ NoExe \in Thing
    BY CapsuleAssumption
  <1>3. e \in Event /\ e.type = "command_start" /\ e.command_id = c
    BY <1>2 DEF About, Event, EventType
  <1>4. NoExtra.result = 0 /\ NoExtra.executable = NoExe
    BY DEF NoExtra
  <1> HIDE DEF e
  <1>5. IsEvent(e, NoExtra)
    BY <1>2, <1>3, <1>4 DEF IsEvent
  <1>6. emitted' = <<e>> /\ emitted'[1] = e
    BY <1>1 DEF e
  <1>7. /\ Call(ts) /\ running = NoCommand /\ e.command_id \in CommandId \ begun
        /\ running' = e.command_id /\ begun' = begun \cup {e.command_id}
        /\ UNCHANGED <<introduced, closed>>
    BY <1>1, <1>6 DEF Begin
  <1>8. Written(1) /\ Emits(db, e, NoExtra.result, db')
    BY <1>1, <1>5, <1>6, <1>7, RecordOne
  <1>9. ClockMayStepBack \/ StartsBefore(e, ts)
    <2>1. e.timestamp_ns \in Int /\ ts \in Int
      BY <1>3 DEF Event, Time
    <2> QED
      BY <1>1, <1>6, <2>1 DEF Begin, StartsBefore
  <1> QED
    BY <1>3, <1>4, <1>6, <1>7, <1>8, <1>9

\* The running command ends, perhaps with the exit of its process before.
LEMMA Endings ==
    ASSUME WInv, NEW ts \in Time, RecordEnd(ts)
    PROVE  \E mid : \E e \in Event, n \in {1, 2} :
             /\ \/ n = 1 /\ mid = db /\ emitted' = <<e>>
                \/ n = 2 /\ \E x \in Event :
                              /\ x.type = "process_exit" /\ Emits(db, x, 0, mid)
                              /\ x.timestamp_ns = ts /\ emitted' = <<x, e>>
             /\ e.type = "command_end" /\ e.command_id = running /\ e.timestamp_ns = ts
             /\ Written(n) /\ Emits(mid, e, 0, db') /\ Call(ts)
             /\ running # NoCommand /\ running' = NoCommand
             /\ closed' = closed \cup {running} /\ UNCHANGED <<introduced, begun>>
  <1> DEFINE e == About("command_end", ts, Root, running, NoExe)
             x == About("process_exit", ts, Root, running, NoExe)
  <1>1. PICK exit \in BOOLEAN : /\ emitted' = IF exit THEN <<x, e>> ELSE <<e>>
                                /\ End(ts)
                                /\ Record(NoExtra)
    BY DEF RecordEnd
  <1>2. Root \in Pid /\ NoExe \in Thing /\ running \in CommandId \cup {NoCommand}
    BY CapsuleAssumption DEF WInv, StreamOK, All
  <1>3. /\ e \in Event /\ e.type = "command_end" /\ e.command_id = running
        /\ x \in Event /\ x.type = "process_exit"
        /\ e.timestamp_ns = ts /\ x.timestamp_ns = ts
    BY <1>2 DEF About, Event, EventType, PlainType
  <1>4. NoExtra.result = 0 /\ NoExtra.executable = NoExe
    BY DEF NoExtra
  <1> HIDE DEF e, x
  <1>5. /\ running # NoCommand /\ Call(ts) /\ running' = NoCommand
        /\ closed' = closed \cup {running} /\ UNCHANGED <<introduced, begun>>
    BY <1>1 DEF End
  <1>6. IsEvent(e, NoExtra) /\ IsEvent(x, NoExtra)
    BY <1>2, <1>3, <1>4, <1>5 DEF IsEvent
  <1>7. phase = "open" /\ IsTables(db)
    BY <1>1 DEF Record, WInv
  <1>8. CASE ~exit
    <2>1. emitted' = <<e>>
      BY <1>1, <1>8
    <2>2. Written(1) /\ Emits(db, e, NoExtra.result, db')
      BY <2>1, <1>1, <1>3, <1>6, RecordOne
    <2> QED
      BY <2>1, <2>2, <1>3, <1>4, <1>5
  <1>9. CASE exit
    <2> DEFINE mid == emit(db, x, NoExtra)
    <2>1. emitted' = <<x, e>>
      BY <1>1, <1>9
    <2>2. Len(emitted') = 2 /\ emitted'[1] = x /\ emitted'[2] = e
      BY <2>1
    <2>3. ~Rejects(db, emitted'[1])
      BY <2>2, <1>3 DEF Rejects
    <2>4. db' = emit(mid, e, NoExtra) /\ Written(2)
      BY <2>2, <2>3, <1>1, <1>7 DEF Record, Written
    <2> HIDE DEF mid
    <2>5. Emits(db, x, NoExtra.result, mid)
      BY <1>6, <1>7, EmitEffect DEF mid
    <2>6. IsTables(mid)
      BY <2>5 DEF Emits, Logged
    <2>7. Emits(mid, e, NoExtra.result, db')
      BY <2>4, <2>6, <1>6, EmitEffect
    <2> QED
      BY <2>1, <2>4, <2>5, <2>7, <1>3, <1>4, <1>5
  <1> QED
    BY <1>8, <1>9
\* The number of events that emit adds
LEMMA EventsCount ==
    ASSUME NEW d, IsTables(d), NEW e, NEW result, NEW r, Emits(d, e, result, r)
    PROVE  /\ IsTables(r) /\ Len(d.events) \in Nat /\ Len(r.events) = Len(d.events) + 1
BY DEF Emits, Logged, IsTables

LEMMA WInit_WInv ==
    ASSUME WInit
    PROVE  WInv
  <1>1. /\ MaxRows \in Nat /\ Root \in Pid /\ MaxClock \in Nat \ {0}
        /\ MaxCommand \in Nat \ {0} /\ NoExe \in Thing
    BY CapsuleAssumption
  <1>2. /\ session \in BOOLEAN /\ left \in 0 .. MaxRows /\ left = MaxRows /\ phase = "open"
        /\ disk = Committed /\ IsTables(disk)
    BY <1>1, EmptyTables DEF WInit, Committed
  <1>3. CASE emitted = << >>
    <2>1. running = NoCommand /\ begun = {} /\ closed = {} /\ introduced = {Root} /\ now \in Time
      BY <1>3 DEF WInit, SInit
    <2>2. db = Begun
      BY <1>3 DEF WInit, Opened
    <2>3. StreamOK
      BY <2>1, <1>1 DEF StreamOK, All
    <2>4. OpenOK(db, introduced, running, begun) /\ IsTables(db) /\ Len(db.events) = 0
      BY <2>1, <2>2, EmptyTables
    <2> QED
      BY <1>1, <1>2, <2>3, <2>4 DEF WInv
  <1>4. CASE emitted \in Starts(now)
    <2>1. PICK t \in Text : emitted = <<[type |-> "command_start", timestamp_ns |-> now,
                                        pid |-> Root, command_id |-> 1, resource |-> t]>>
      BY <1>4 DEF Starts
    <2> DEFINE e == [type |-> "command_start", timestamp_ns |-> now, pid |-> Root,
                     command_id |-> 1, resource |-> t]
    <2>2. now = 1 /\ now \in Time /\ t \in Thing /\ 1 \in CommandId
      BY <1>1, CapsuleAssumption DEF WInit, Time, CommandId
    <2>3. e \in Event /\ e.type = "command_start" /\ e.command_id = 1
      BY <1>1, <2>2 DEF Event, EventType
    <2>4. NoExtra.result = 0 /\ NoExtra.executable = NoExe
      BY DEF NoExtra
    <2> HIDE DEF e
    <2>5. IsEvent(e, NoExtra)
      BY <1>1, <2>2, <2>3, <2>4 DEF IsEvent
    <2>6. emitted = <<e>> /\ emitted # << >> /\ emitted[1] = e
      BY <2>1 DEF e
    <2>7. running = 1 /\ begun = {1} /\ closed = {} /\ introduced = {Root}
      BY <2>6 DEF WInit, SInit
    <2>8. db = emit(Begun, e, NoExtra)
      BY <2>6 DEF WInit, Opened
    <2>9. Emits(Begun, e, NoExtra.result, db)
      BY <2>5, <2>8, EmptyTables, EmitEffect
    <2>10. OpenOK(db, {Root}, e.command_id, {} \cup {e.command_id})
      BY <2>3, <2>9, EmptyTables, BeginStep
    <2>11. OpenOK(db, introduced, running, begun)
      BY <2>3, <2>7, <2>10
    <2>12. IsTables(db) /\ Len(db.events) = 1
      <3>1. IsTables(db) /\ Len(db.events) = Len(Begun.events) + 1
        BY <2>9, EmptyTables, EventsCount
      <3> QED
        BY <3>1, EmptyTables
    <2>13. StreamOK
      BY <2>2, <2>7, <1>1 DEF StreamOK, All, NoCommand
    <2> QED
      BY <1>1, <1>2, <2>11, <2>12, <2>13 DEF WInv
  <1> QED
    BY <1>3, <1>4 DEF WInit

\* What a step that writes events leaves to be shown
LEMMA StillOpen ==
    ASSUME WInv, NEW n \in {1, 2}, Written(n), StreamOK',
           OpenOK(db', introduced', running', begun'), Len(db'.events) = Len(db.events) + n
    PROVE  WInv'
  <1>1. /\ phase' = "open" /\ disk' = Committed /\ session' \in BOOLEAN
        /\ IsTables(disk)'
    BY DEF WInv, Written
  <1>2. left' \in 0 .. MaxRows /\ Len(db'.events) + left' <= MaxRows + 1
    <2>1. Len(db.events) \in Nat /\ MaxRows \in Nat
      BY CapsuleAssumption DEF WInv, IsTables
    <2> QED
      BY <2>1 DEF WInv, Written
  <1>3. IsTables(db') /\ Committed' = Committed
    BY DEF OpenOK, Committed, Schema
  <1> QED
    BY <1>1, <1>2, <1>3 DEF WInv

LEMMA WNext_WInv ==
    ASSUME WInv, [WNext]_wvars
    PROVE  WInv'
  <1>1. ASSUME NEW ts \in Time, RecordActivity(ts) \/ RecordProcess(ts)
        PROVE  WInv'
    <2>1. PICK e, result : /\ PlainEvent(e, ts) /\ Written(1) /\ Emits(db, e, result, db')
                           /\ Call(ts) /\ introduced' = introduced \cup Introduces(e)
                           /\ UNCHANGED <<running, begun, closed>>
      BY <1>1, Activities
    <2>2. e \in Event /\ e.type \in PlainType /\ Introduces(e) \subseteq Pid /\ now' = ts
      BY <2>1 DEF PlainEvent, Call
    <2>3. StreamOK'
      BY <2>1, <2>2 DEF WInv, StreamOK, All, CommandId, Time
    <2>4. OpenOK(db, introduced, running, begun) /\ IsTables(db)
      BY <2>1 DEF WInv, Written
    <2>5. OpenOK(db', introduced', running', begun')
      BY <2>1, <2>2, <2>4, PlainStep
    <2> QED
      BY <2>1, <2>3, <2>4, <2>5, EventsCount, StillOpen
  <1>2. ASSUME NEW ts \in Time, RecordBegin(ts)
        PROVE  WInv'
    <2>1. PICK e \in Event :
             /\ e.type = "command_start" /\ Written(1) /\ Emits(db, e, 0, db') /\ Call(ts)
             /\ running = NoCommand /\ e.command_id \in CommandId \ begun
             /\ running' = e.command_id /\ begun' = begun \cup {e.command_id}
             /\ UNCHANGED <<introduced, closed>>
      BY <1>2, Beginnings
    <2>2. now' = ts
      BY <2>1 DEF Call
    <2>3. NoCommand \notin begun /\ NoCommand \notin CommandId
      BY DEF WInv, StreamOK, CommandId, NoCommand
    <2>4. StreamOK'
      BY <2>1, <2>2, <2>3 DEF WInv, StreamOK, All, CommandId, Time
    <2>5. OpenOK(db, introduced, running, begun) /\ IsTables(db)
      BY <2>1 DEF WInv, Written
    <2>6. OpenOK(db', introduced, e.command_id, begun \cup {e.command_id})
      BY <2>1, <2>3, <2>5, BeginStep
    <2>7. OpenOK(db', introduced', running', begun')
      BY <2>1, <2>6
    <2> QED
      BY <2>1, <2>4, <2>5, <2>7, EventsCount, StillOpen
  <1>3. ASSUME NEW ts \in Time, RecordEnd(ts)
        PROVE  WInv'
    <2>1. PICK mid : \E e \in Event, n \in {1, 2} :
             /\ \/ n = 1 /\ mid = db
                \/ n = 2 /\ \E x \in Event : x.type = "process_exit" /\ Emits(db, x, 0, mid)
             /\ e.type = "command_end" /\ e.command_id = running
             /\ Written(n) /\ Emits(mid, e, 0, db') /\ Call(ts)
             /\ running # NoCommand /\ running' = NoCommand
             /\ closed' = closed \cup {running} /\ UNCHANGED <<introduced, begun>>
      BY <1>3, Endings
    <2>2. PICK e \in Event, n \in {1, 2} :
             /\ \/ n = 1 /\ mid = db
                \/ n = 2 /\ \E x \in Event : x.type = "process_exit" /\ Emits(db, x, 0, mid)
             /\ e.type = "command_end" /\ e.command_id = running
             /\ Written(n) /\ Emits(mid, e, 0, db') /\ Call(ts)
             /\ running # NoCommand /\ running' = NoCommand
             /\ closed' = closed \cup {running} /\ UNCHANGED <<introduced, begun>>
      BY <2>1
    <2>3. now' = ts
      BY <2>2 DEF Call
    <2>4. NoCommand \notin begun /\ running \in begun
      BY <2>2 DEF WInv, StreamOK, CommandId, NoCommand
    <2>5. StreamOK'
      BY <2>2, <2>3 DEF WInv, StreamOK, All, CommandId, Time, NoCommand
    <2>6. OpenOK(db, introduced, running, begun) /\ IsTables(db) /\ Len(db.events) \in Nat
      BY <2>2 DEF WInv, Written, IsTables
    <2>7. /\ OpenOK(mid, introduced, running, begun) /\ IsTables(mid)
          /\ Len(mid.events) = Len(db.events) + (n - 1)
      <3>1. CASE n = 1 /\ mid = db
        BY <3>1, <2>6
      <3>2. CASE n = 2 /\ \E x \in Event : x.type = "process_exit" /\ Emits(db, x, 0, mid)
        <4>1. PICK x \in Event : x.type = "process_exit" /\ Emits(db, x, 0, mid)
          BY <3>2
        <4>2. x.type \in PlainType /\ Introduces(x) = {} /\ introduced \cup {} = introduced
          BY <4>1 DEF PlainType, Introduces
        <4>3. OpenOK(mid, introduced, running, begun)
          BY <4>1, <4>2, <2>6, PlainStep
        <4> QED
          BY <3>2, <4>1, <4>3, <2>6, EventsCount
      <3> QED
        BY <2>2, <3>1, <3>2
    <2>8. OpenOK(db', introduced', running', begun')
      <3>1. OpenOK(db', introduced, NoCommand, begun)
        BY <2>2, <2>4, <2>7, EndStep
      <3> QED
        BY <2>2, <3>1
    <2>9. Len(db'.events) = Len(mid.events) + 1 /\ Len(mid.events) \in Nat
      BY <2>2, <2>7, EventsCount
    <2>10. Len(db'.events) = Len(db.events) + n
      BY <2>6, <2>7, <2>9
    <2> QED
      BY <2>2, <2>5, <2>8, <2>10, StillOpen
  <1>4. ASSUME NEW exit_code \in {0, 1}, Finish(exit_code)
        PROVE  WInv'
    <2>1. IsTables(db) /\ db.runs = [exit_code |-> Null]
      BY <1>4 DEF WInv, Finish, OpenOK
    <2>2. db' = [db EXCEPT !.runs = [exit_code |-> exit_code]]
      BY <1>4, <2>1 DEF Finish, IsTables
    <2>3. IsTables(db') /\ db'.events = db.events /\ db'.runs = [exit_code |-> exit_code]
      BY <2>1, <2>2 DEF IsTables
    <2>4. exit_code # Null
      BY CapsuleAssumption
    <2>5. StreamOK'
      BY <1>4 DEF WInv, StreamOK, Finish, svars, All, CommandId, Time
    <2> QED
      BY <1>4, <2>3, <2>4, <2>5 DEF WInv, Finish
  <1>5. CASE Fail
    <2>1. db' = Committed /\ disk' = Committed /\ phase' = "failed"
      BY <1>5 DEF WInv, Fail
    <2>2. IsTables(Committed) /\ Len(Committed.events) = 0 /\ Committed' = Committed
      BY EmptyTables DEF Committed, Schema
    <2>3. StreamOK'
      BY <1>5 DEF WInv, StreamOK, Fail, svars, All, CommandId, Time
    <2>4. /\ session' \in BOOLEAN /\ left' \in 0 .. MaxRows /\ left' <= MaxRows + 1
      BY <1>5, CapsuleAssumption DEF WInv, Fail
    <2> QED
      BY <2>1, <2>2, <2>3, <2>4 DEF WInv
  <1>6. CASE Again
    <2>1. /\ db' = Begun /\ disk' = Committed /\ phase' = "open" /\ session' = TRUE
          /\ introduced' = {Root} /\ running' = NoCommand /\ begun' = {} /\ closed' = {}
          /\ now' = now /\ left > 0 /\ left' = left - 1
      BY <1>6 DEF Again, Opened
    <2>2. /\ IsTables(Committed) /\ Committed' = Committed
          /\ IsTables(Begun) /\ Len(Begun.events) = 0
          /\ OpenOK(Begun, {Root}, NoCommand, {})
      BY EmptyTables DEF Committed, Schema
    <2>3. StreamOK'
      BY <2>1, CapsuleAssumption DEF WInv, StreamOK, All, CommandId, Time, NoCommand
    <2>4. left' \in 0 .. MaxRows /\ 0 + left' <= MaxRows + 1
      BY <2>1, CapsuleAssumption DEF WInv
    <2>5. OpenOK(db', introduced', running', begun')
      BY <2>1, <2>2
    <2> QED
      BY <2>1, <2>2, <2>3, <2>4, <2>5 DEF WInv
  <1>7. CASE UNCHANGED wvars
    <2>1. /\ db' = db /\ disk' = disk /\ phase' = phase /\ session' = session /\ left' = left
          /\ now' = now /\ introduced' = introduced /\ running' = running
          /\ begun' = begun /\ closed' = closed
      BY <1>7 DEF wvars, svars, capsule
    <2>2. StreamOK' /\ Committed' = Committed
      BY <2>1 DEF WInv, StreamOK, All, CommandId, Time, Committed, Schema
    <2> QED
      BY <2>1, <2>2 DEF WInv
  <1> QED
    BY <1>1, <1>2, <1>3, <1>4, <1>5, <1>6, <1>7 DEF WNext
-----------------------------------------------------------------------------
(* Theorems *)

LEMMA WInvCorrect == WSpec => []WInv
BY WInit_WInv, WNext_WInv, PTL DEF WSpec

\* The tables have the types of their columns, and the counters of bytes never go
\* below zero, although the results of failed calls do (sqlite_store.cpp emit).
THEOREM CapsuleTypes == WSpec => []WTypeOK
  <1>1. WInv => WTypeOK
    <2> SUFFICES ASSUME WInv
                 PROVE  WTypeOK
      OBVIOUS
    <2>1. /\ phase \in {"open", "finished", "failed", "rejected"} /\ session \in BOOLEAN
          /\ left \in 0 .. MaxRows
      BY DEF WInv
    <2>2. Len(db.events) <= MaxRows + 1
      <3>1. Len(db.events) \in Nat
        BY DEF WInv, IsTables
      <3> QED
        BY <3>1, CapsuleAssumption DEF WInv
    <2>3. /\ IsTable(db.commands, CommandId, CommandRow) /\ IsTable(db.processes, Pid, ProcessRow)
          /\ IsTable(db.file_activity, Thing, FileRow)
      BY DEF WInv, IsTables
    <2>4. DOMAIN db.commands \subseteq CommandId /\ DOMAIN db.processes \subseteq Pid
      BY <2>3 DEF IsTable
    <2>5. \A p \in DOMAIN db.file_activity : /\ db.file_activity[p].bytes_read \in Nat
                                             /\ db.file_activity[p].bytes_written \in Nat
      BY <2>3 DEF IsTable, FileRow
    <2> QED
      BY <2>1, <2>2, <2>4, <2>5 DEF WTypeOK
  <1> QED
    BY <1>1, WInvCorrect, PTL

\* No event that ExecutionState may emit breaks a primary key: the INSERT of emit
\* never throws, and no recording is lost to it.
THEOREM EmitSucceeds == WSpec => []EmitNeverThrows
  <1>1. WInv => EmitNeverThrows
    BY DEF WInv, EmitNeverThrows
  <1> QED
    BY <1>1, WInvCorrect, PTL

\* show says "(incomplete)" of the running command and of no other.
THEOREM IncompleteIsRunning == WSpec => []IncompleteMeansRunning
  <1>1. WInv => IncompleteMeansRunning
    <2> SUFFICES ASSUME WInv, phase = "open"
                 PROVE  {c \in DOMAIN db.commands : show_commands(db)[c] = Null}
                          = {running} \ {NoCommand}
      BY DEF IncompleteMeansRunning
    <2>1. /\ DOMAIN db.commands = begun
          /\ \A c \in begun : db.commands[c].exit_code = Null <=> c = running
      BY DEF WInv, OpenOK, CommandsOK
    <2>2. \A c \in begun : show_commands(db)[c] = db.commands[c].exit_code
      BY <2>1 DEF show_commands
    <2>3. /\ begun = closed \cup ({running} \ {NoCommand}) /\ closed \subseteq CommandId
          /\ NoCommand \notin CommandId
      BY DEF WInv, StreamOK, CommandId, NoCommand
    <2> QED
      BY <2>1, <2>2, <2>3
  <1> QED
    BY <1>1, WInvCorrect, PTL

\* show and diff refuse a file that is being written or that a crash left behind.
THEOREM OnlyFinishedAccepted == WSpec => []OnlyFinishedRunsAreShown
  <1>1. WInv => OnlyFinishedRunsAreShown
    <2> SUFFICES ASSUME WInv, Accepts(disk, All)
                 PROVE  phase = "finished" /\ disk.runs.exit_code # Null
      BY DEF OnlyFinishedRunsAreShown
    <2>1. disk.schema_version # Null
      BY DEF Accepts, validate_schema
    <2>2. disk # Committed
      BY <2>1, EmptyTables DEF Committed
    <2> QED
      BY <2>2 DEF WInv
  <1> QED
    BY <1>1, WInvCorrect, PTL

\* All is not the filter of one command.
LEMMA FilterOne ==
    ASSUME NEW c
    PROVE  {c} # All
  <1>1. 0 \in All /\ 1 \in All
    BY CapsuleAssumption DEF All, NoCommand, CommandId
  <1> QED
    BY <1>1

\* show counts every process that a fork or an exec has named, once, and no command
\* has more of them than the run.
THEOREM ProcessCounts == WSpec => []ProcessesAreCounted
  <1>1. WInv => ProcessesAreCounted
    <2> SUFFICES ASSUME WInv, phase = "open"
                 PROVE  /\ introduced \ {Root} \subseteq DOMAIN db.processes
                        /\ \A c \in CommandId : show_processes(db, {c}) <= show_processes(db, All)
      BY DEF ProcessesAreCounted
    <2>1. IsTables(db) /\ ProcessesOK(db, introduced)
      BY DEF WInv, OpenOK
    <2>2. ASSUME NEW c \in CommandId
          PROVE  show_processes(db, {c}) <= show_processes(db, All)
      <3> DEFINE pids == {db.events[i].pid : i \in Rows(db, {c}, {"process_exec"})}
      <3>1. show_processes(db, {c}) = Cardinality(pids)
        BY FilterOne DEF show_processes
      <3>2. show_processes(db, All) = Cardinality(DOMAIN db.processes)
        BY DEF show_processes
      <3>3. pids \subseteq DOMAIN db.processes
        <4>1. DOMAIN db.events = 1 .. Len(db.events)
          BY <2>1 DEF IsTables
        <4> QED
          BY <4>1, <2>1 DEF Rows, ProcessesOK
      <3>4. IsFiniteSet(DOMAIN db.processes)
        BY <2>1 DEF ProcessesOK
      <3> HIDE DEF pids
      <3>5. Cardinality(pids) <= Cardinality(DOMAIN db.processes)
        BY <3>3, <3>4, FS_Subset
      <3> QED
        BY <3>1, <3>2, <3>5
    <2> QED
      BY <2>1, <2>2 DEF ProcessesOK
  <1> QED
    BY <1>1, WInvCorrect, PTL

\* The row of a command that has ended is never written again while the capsule is
\* open (the WHERE of the UPDATE in end_command).
THEOREM EndedIsFinal == WSpec => EndedCommandsAreFinal
  <1>1. ASSUME WInv, [WNext]_wvars
        PROVE  [phase = "open" /\ phase' = "open" =>
                  \A c \in closed : db'.commands[c] = db.commands[c]]_wvars
    <2> SUFFICES ASSUME WNext, phase = "open", phase' = "open", NEW c \in closed
                 PROVE  db'.commands[c] = db.commands[c]
      BY <1>1
    <2>1. DOMAIN db.commands = begun /\ c \in begun /\ c # running /\ IsTables(db)
      BY <1>1 DEF WInv, OpenOK, CommandsOK, StreamOK
    <2>2. ASSUME NEW ts \in Time, RecordActivity(ts) \/ RecordProcess(ts)
          PROVE  db'.commands[c] = db.commands[c]
      <3>1. PICK e, result : PlainEvent(e, ts) /\ Emits(db, e, result, db')
        BY <1>1, <2>2, Activities
      <3>2. e.type # "command_start" /\ e.type # "command_end"
        BY <3>1 DEF PlainEvent, PlainType
      <3> QED
        BY <3>1, <3>2, <2>1 DEF Emits, CommandsAfter
    <2>3. ASSUME NEW ts \in Time, RecordBegin(ts)
          PROVE  db'.commands[c] = db.commands[c]
      <3>1. PICK e \in Event : Emits(db, e, 0, db') /\ e.command_id \notin begun
        BY <1>1, <2>3, Beginnings
      <3> QED
        BY <3>1, <2>1 DEF Emits, CommandsAfter
    <2>4. ASSUME NEW ts \in Time, RecordEnd(ts)
          PROVE  db'.commands[c] = db.commands[c]
      <3>1. PICK mid : \E e \in Event :
              /\ \/ mid = db
                 \/ \E x \in Event : x.type = "process_exit" /\ Emits(db, x, 0, mid)
              /\ e.command_id = running /\ Emits(mid, e, 0, db')
        BY <1>1, <2>4, Endings
      <3>2. PICK e \in Event : e.command_id = running /\ Emits(mid, e, 0, db')
        BY <3>1
      <3>3. c \in DOMAIN mid.commands /\ mid.commands[c] = db.commands[c]
        BY <3>1, <2>1 DEF Emits, CommandsAfter
      <3> QED
        BY <3>2, <3>3, <2>1 DEF Emits, CommandsAfter
    <2>5. ~(\E exit_code \in {0, 1} : Finish(exit_code)) /\ ~Fail /\ ~Again
      BY DEF Finish, Fail, Again
    <2> QED
      BY <2>2, <2>3, <2>4, <2>5 DEF WNext
  <1> QED
    BY <1>1, WInvCorrect, PTL DEF WSpec, EndedCommandsAreFinal
-----------------------------------------------------------------------------
(* The last result of an endpoint *)

IsConnect(d, p, i) ==
    i \in 1 .. Len(d.events) /\ d.events[i].type = "net_connect" /\ d.events[i].resource = p
IsLast(d, p, i) == IsConnect(d, p, i) /\ \A j : IsConnect(d, p, j) => j <= i

\* The connects arrive in the order of their time stamps, none is of the future, and
\* the table has the result of the last one.
InOrder(d) ==
    \A i, j \in 1 .. Len(d.events) :
      d.events[i].type = "net_connect" /\ d.events[j].type = "net_connect" /\ i < j =>
        d.events[i].timestamp_ns <= d.events[j].timestamp_ns
Past(d, t) ==
    \A i \in 1 .. Len(d.events) :
      d.events[i].type = "net_connect" => d.events[i].timestamp_ns <= t
LastOK(d) ==
    \A p \in DOMAIN d.network_activity :
      \E i : IsLast(d, p, i) /\ d.events[i].errno_value = d.network_activity[p].last_errno
NetworkOK(d, t) == InOrder(d) /\ Past(d, t) /\ LastOK(d)

LEMMA NetworkStep ==
    ASSUME NEW d, IsTables(d), NEW e \in Event, NEW result, NEW r, Emits(d, e, result, r),
           NEW t \in Time, NEW u \in Time, t <= u, NetworkOK(d, t),
           e.type = "net_connect" => e.timestamp_ns = u
    PROVE  NetworkOK(r, u)
  <1> DEFINE n == Len(d.events)
  <1>1. n \in Nat /\ Len(r.events) = n + 1 /\ 1 .. (n + 1) = (1 .. n) \cup {n + 1}
    BY DEF Emits, Logged, IsTables
  <1>2. \A i \in 1 .. n : r.events[i] = d.events[i]
    BY DEF Emits, Logged
  <1>3. /\ r.events[n + 1].type = e.type /\ r.events[n + 1].resource = e.resource
        /\ r.events[n + 1].timestamp_ns = e.timestamp_ns
        /\ r.events[n + 1].errno_value = errno_value(result)
    BY DEF Emits, Logged
  <1>4. \A i \in 1 .. n : d.events[i].timestamp_ns \in Int
    <2>1. \A i \in 1 .. n : d.events[i] \in EventRow
      BY DEF IsTables
    <2>2. Time \subseteq Int
      BY DEF Time
    <2> QED
      BY <2>1, <2>2 DEF EventRow
  <1>5. t \in Int /\ u \in Int
    BY DEF Time
  <1> HIDE DEF n
  <1>6. \A i \in 1 .. n : d.events[i].type = "net_connect" => d.events[i].timestamp_ns <= u
    BY <1>4, <1>5 DEF NetworkOK, Past, n
  <1>7. InOrder(r)
    <2> SUFFICES ASSUME NEW i \in 1 .. (n + 1), NEW j \in 1 .. (n + 1),
                        r.events[i].type = "net_connect", r.events[j].type = "net_connect",
                        i < j
                 PROVE  r.events[i].timestamp_ns <= r.events[j].timestamp_ns
      BY <1>1 DEF InOrder
    <2>1. i \in 1 .. n
      BY <1>1
    <2>2. CASE j \in 1 .. n
      BY <2>1, <2>2, <1>2 DEF NetworkOK, InOrder, n
    <2>3. CASE j = n + 1
      <3>1. r.events[j].timestamp_ns = u
        BY <2>3, <1>3
      <3> QED
        BY <3>1, <2>1, <1>2, <1>6
    <2> QED
      BY <2>2, <2>3, <1>1
  <1>8. Past(r, u)
    <2> SUFFICES ASSUME NEW i \in 1 .. (n + 1), r.events[i].type = "net_connect"
                 PROVE  r.events[i].timestamp_ns <= u
      BY <1>1 DEF Past
    <2>1. CASE i \in 1 .. n
      BY <2>1, <1>2, <1>6
    <2>2. CASE i = n + 1
      BY <2>2, <1>3, <1>5
    <2> QED
      BY <2>1, <2>2, <1>1
  <1>9. LastOK(r)
    <2> SUFFICES ASSUME NEW p \in DOMAIN r.network_activity
                 PROVE  \E i : /\ IsLast(r, p, i)
                               /\ r.events[i].errno_value = r.network_activity[p].last_errno
      BY DEF LastOK
    <2>1. NetworkAfter(d, e, result, r)
      BY DEF Emits
    <2>2. CASE e.type = "net_connect" /\ p = e.resource
      <3>1. IsConnect(r, p, n + 1)
        BY <2>2, <1>1, <1>3 DEF IsConnect
      <3>2. \A j : IsConnect(r, p, j) => j <= n + 1
        BY <1>1 DEF IsConnect
      <3>3. r.events[n + 1].errno_value = r.network_activity[p].last_errno
        BY <2>1, <2>2, <1>3 DEF NetworkAfter
      <3> QED
        BY <3>1, <3>2, <3>3 DEF IsLast
    <2>3. CASE ~(e.type = "net_connect" /\ p = e.resource)
      <3>1. p \in DOMAIN d.network_activity /\ r.network_activity[p] = d.network_activity[p]
        BY <2>1, <2>3 DEF NetworkAfter
      <3>2. PICK i : /\ IsLast(d, p, i)
                     /\ d.events[i].errno_value = d.network_activity[p].last_errno
        BY <3>1 DEF NetworkOK, LastOK
      <3>3. \A j : IsConnect(r, p, j) <=> IsConnect(d, p, j)
        <4> SUFFICES ASSUME NEW j
                     PROVE  IsConnect(r, p, j) <=> IsConnect(d, p, j)
          OBVIOUS
        <4>1. CASE j \in 1 .. n
          BY <4>1, <1>1, <1>2 DEF IsConnect, n
        <4>2. CASE j = n + 1
          BY <4>2, <2>3, <1>1, <1>3 DEF IsConnect, n
        <4>3. CASE j \notin 1 .. (n + 1)
          BY <4>3, <1>1 DEF IsConnect, n
        <4> QED
          BY <4>1, <4>2, <4>3, <1>1
      <3>4. i \in 1 .. n
        BY <3>2 DEF IsLast, IsConnect, n
      <3> QED
        BY <3>1, <3>2, <3>3, <3>4, <1>2 DEF IsLast
    <2> QED
      BY <2>2, <2>3
  <1> QED
    BY <1>7, <1>8, <1>9 DEF NetworkOK

LEMMA NetworkEmpty ==
    ASSUME NEW t
    PROVE  NetworkOK(Begun, t) /\ NetworkOK(Schema, t)
  <1>1. /\ Schema.events = << >> /\ Schema.network_activity = << >>
        /\ Begun.events = << >> /\ Begun.network_activity = << >>
    BY Zenon DEF Begun, Schema
  <1>2. Len(<< >>) = 0 /\ DOMAIN << >> = {}
    OBVIOUS
  <1> QED
    BY <1>1, <1>2 DEF NetworkOK, InOrder, Past, LastOK

\* A recording of a command opens with its start.
LEMMA OpenedWithStart ==
    ASSUME WInit, emitted \in Starts(now)
    PROVE  \E e \in Event : /\ e.type = "command_start" /\ e.timestamp_ns = now
                            /\ e.command_id = 1 /\ Emits(Begun, e, 0, db)
  <1>1. now = 1 /\ 1 \in Time /\ 1 \in CommandId /\ Root \in Pid /\ NoExe \in Thing
    BY CapsuleAssumption DEF WInit, Time, CommandId
  <1>2. PICK t \in Text : emitted = <<[type |-> "command_start", timestamp_ns |-> now,
                                      pid |-> Root, command_id |-> 1, resource |-> t]>>
    BY DEF Starts
  <1> DEFINE e == [type |-> "command_start", timestamp_ns |-> now, pid |-> Root,
                   command_id |-> 1, resource |-> t]
  <1>3. t \in Thing
    BY CapsuleAssumption
  <1>4. /\ e \in Event /\ e.type = "command_start" /\ e.command_id = 1
        /\ e.timestamp_ns = now
    BY <1>1, <1>3 DEF Event, EventType
  <1>5. NoExtra.result = 0 /\ NoExtra.executable = NoExe
    BY DEF NoExtra
  <1> HIDE DEF e
  <1>6. IsEvent(e, NoExtra)
    BY <1>1, <1>4, <1>5 DEF IsEvent
  <1>7. emitted # << >> /\ emitted[1] = e
    BY <1>2 DEF e
  <1>8. db = emit(Begun, e, NoExtra)
    BY <1>7 DEF WInit, Opened
  <1>9. Emits(Begun, e, NoExtra.result, db)
    BY <1>6, <1>8, EmptyTables, EmitEffect
  <1> QED
    BY <1>4, <1>5, <1>9

LEMMA NetworkInit ==
    ASSUME WInit
    PROVE  NetworkOK(db, now)
  <1>1. now = 1 /\ 1 \in Time
    BY CapsuleAssumption DEF WInit, Time
  <1>2. CASE emitted = << >>
    BY <1>2, NetworkEmpty DEF WInit, Opened
  <1>3. CASE emitted \in Starts(now)
    <2>1. PICK e \in Event : e.type = "command_start" /\ Emits(Begun, e, 0, db)
      BY <1>3, OpenedWithStart
    <2>2. IsTables(Begun) /\ NetworkOK(Begun, 1) /\ 1 <= 1 /\ e.type # "net_connect"
      BY <2>1, EmptyTables, NetworkEmpty
    <2>3. NetworkOK(db, 1)
      BY <2>1, <2>2, <1>1, NetworkStep
    <2> QED
      BY <2>3, <1>1
  <1> QED
    BY <1>2, <1>3 DEF WInit

LEMMA NetworkNext ==
    ASSUME ~ClockMayStepBack, WInv, NetworkOK(db, now), [WNext]_wvars
    PROVE  NetworkOK(db', now')
  <1>1. now \in Time /\ IsTables(db)
    BY DEF WInv, StreamOK
  <1>2. ASSUME NEW ts \in Time, Call(ts)
        PROVE  now' = ts /\ now <= ts
    BY <1>1, <1>2 DEF Call, Time
  <1>3. ASSUME NEW ts \in Time, RecordActivity(ts) \/ RecordProcess(ts)
        PROVE  NetworkOK(db', now')
    <2>1. PICK e, result : PlainEvent(e, ts) /\ Emits(db, e, result, db') /\ Call(ts)
      BY <1>3, Activities
    <2>2. now' = ts /\ now <= ts
      BY <2>1, <1>2
    <2>3. e \in Event /\ e.timestamp_ns = ts
      BY <2>1 DEF PlainEvent
    <2>4. NetworkOK(db', ts)
      BY <2>1, <2>2, <2>3, <1>1, NetworkStep
    <2> QED
      BY <2>2, <2>4
  <1>4. ASSUME NEW ts \in Time, RecordBegin(ts)
        PROVE  NetworkOK(db', now')
    <2>1. PICK e \in Event : e.type = "command_start" /\ Emits(db, e, 0, db') /\ Call(ts)
      BY <1>4, Beginnings
    <2>2. now' = ts /\ now <= ts
      BY <2>1, <1>2
    <2>3. e.type # "net_connect"
      BY <2>1
    <2>4. NetworkOK(db', ts)
      BY <2>1, <2>2, <2>3, <1>1, NetworkStep
    <2> QED
      BY <2>2, <2>4
  <1>5. ASSUME NEW ts \in Time, RecordEnd(ts)
        PROVE  NetworkOK(db', now')
    <2>1. PICK mid : \E e \in Event :
            /\ \/ mid = db
               \/ \E x \in Event : x.type = "process_exit" /\ Emits(db, x, 0, mid)
            /\ e.type = "command_end" /\ Emits(mid, e, 0, db') /\ Call(ts)
      BY <1>5, Endings
    <2>2. PICK e \in Event : e.type = "command_end" /\ Emits(mid, e, 0, db') /\ Call(ts)
      BY <2>1
    <2>3. now' = ts /\ now <= ts
      BY <2>2, <1>2
    <2>4. IsTables(mid) /\ NetworkOK(mid, now)
      <3>1. CASE mid = db
        BY <3>1, <1>1
      <3>2. CASE \E x \in Event : x.type = "process_exit" /\ Emits(db, x, 0, mid)
        <4>1. PICK x \in Event : x.type = "process_exit" /\ Emits(db, x, 0, mid)
          BY <3>2
        <4>2. x.type # "net_connect" /\ now <= now
          BY <4>1, <1>1 DEF Time
        <4>3. NetworkOK(mid, now)
          BY <4>1, <4>2, <1>1, NetworkStep
        <4> QED
          BY <4>1, <4>3, <1>1, EventsCount
      <3> QED
        BY <2>1, <3>1, <3>2
    <2>5. e.type # "net_connect"
      BY <2>2
    <2>6. NetworkOK(db', ts)
      BY <2>2, <2>3, <2>4, <2>5, <1>1, NetworkStep
    <2> QED
      BY <2>3, <2>6
  <1>6. ASSUME NEW exit_code \in {0, 1}, Finish(exit_code)
        PROVE  NetworkOK(db', now')
    <2>1. db' = [db EXCEPT !.runs = [db.runs EXCEPT !.exit_code = exit_code]] /\ now' = now
      BY <1>6 DEF Finish, svars
    <2>2. db'.events = db.events /\ db'.network_activity = db.network_activity
      BY <2>1, <1>1 DEF IsTables
    <2> QED
      BY <2>1, <2>2 DEF NetworkOK, InOrder, Past, LastOK, IsLast, IsConnect
  <1>7. CASE Fail
    BY <1>7, NetworkEmpty DEF Fail, WInv, Committed
  <1>8. CASE Again
    BY <1>8, NetworkEmpty DEF Again, Opened
  <1>9. CASE UNCHANGED wvars
    BY <1>9 DEF wvars, svars, capsule
  <1> QED
    BY <1>3, <1>4, <1>5, <1>6, <1>7, <1>8, <1>9 DEF WNext

\* The row with the greatest time, and the greatest id among equals
LEMMA LatestIsLast ==
    ASSUME NEW d, IsTables(d), InOrder(d), NEW p, NEW i, IsLast(d, p, i),
           NEW ids, i \in ids, \A j \in ids : IsConnect(d, p, j)
    PROVE  Latest(d, ids) = i
  <1> DEFINE Best(k) ==
               \A j \in ids : \/ d.events[j].timestamp_ns < d.events[k].timestamp_ns
                              \/ d.events[j].timestamp_ns = d.events[k].timestamp_ns /\ j <= k
  <1>1. \A j \in ids : d.events[j].timestamp_ns \in Int /\ j \in Int
    <2>1. \A j \in 1 .. Len(d.events) : d.events[j] \in EventRow
      BY DEF IsTables
    <2>2. Time \subseteq Int
      BY DEF Time
    <2>3. \A j \in ids : j \in 1 .. Len(d.events) /\ j \in Int
      BY DEF IsConnect
    <2>4. \A j \in ids : d.events[j] \in EventRow
      BY <2>1, <2>3
    <2> QED
      BY <2>2, <2>3, <2>4 DEF EventRow
  <1>2. Best(i)
    <2> SUFFICES ASSUME NEW j \in ids
                 PROVE  \/ d.events[j].timestamp_ns < d.events[i].timestamp_ns
                        \/ d.events[j].timestamp_ns = d.events[i].timestamp_ns /\ j <= i
      OBVIOUS
    <2>1. j <= i
      BY DEF IsLast
    <2>2. CASE j < i
      <3>1. d.events[j].timestamp_ns <= d.events[i].timestamp_ns
        BY <2>2 DEF InOrder, IsConnect, IsLast
      <3> QED
        BY <3>1, <2>1, <1>1
    <2>3. CASE j = i
      BY <2>3, <2>1
    <2> QED
      BY <2>1, <2>2, <2>3, <1>1
  <1>3. \A k \in ids : Best(k) => k = i
    <2> SUFFICES ASSUME NEW k \in ids, Best(k)
                 PROVE  k = i
      OBVIOUS
    <2>1. /\ \/ d.events[i].timestamp_ns < d.events[k].timestamp_ns
             \/ d.events[i].timestamp_ns = d.events[k].timestamp_ns /\ i <= k
          /\ \/ d.events[k].timestamp_ns < d.events[i].timestamp_ns
             \/ d.events[k].timestamp_ns = d.events[i].timestamp_ns /\ k <= i
      BY <1>2
    <2> QED
      BY <2>1, <1>1
  <1>4. Latest(d, ids) = CHOOSE k \in ids : Best(k)
    BY DEF Latest
  <1> HIDE DEF Best
  <1> QED
    BY <1>2, <1>3, <1>4
\* While the clock does not step back, "last" of an endpoint is the same in the report
\* of the run and in that of the command that connected last.
THEOREM LastErrnoCorrect ==
    ASSUME ~ClockMayStepBack
    PROVE  WSpec => []LastErrnoAgrees
  <1> DEFINE Inv == NetworkOK(db, now)
  <1>1. WInit => Inv
    BY NetworkInit
  <1>2. WInv /\ Inv /\ [WNext]_wvars => Inv'
    BY NetworkNext
  <1>3. WInv /\ Inv => LastErrnoAgrees
    <2> SUFFICES ASSUME WInv, NetworkOK(db, now), NEW p \in DOMAIN db.network_activity
                 PROVE  LET last == CHOOSE i \in Rows(db, All, {"net_connect"}) :
                                      /\ db.events[i].resource = p
                                      /\ \A j \in Rows(db, All, {"net_connect"}) :
                                           db.events[j].resource = p => j <= i
                        IN  show_network(db, All)[p].last =
                              show_network(db, {db.events[last].command_id})[p].last
      BY DEF LastErrnoAgrees
    <2> DEFINE last == CHOOSE i \in Rows(db, All, {"net_connect"}) :
                         /\ db.events[i].resource = p
                         /\ \A j \in Rows(db, All, {"net_connect"}) :
                              db.events[j].resource = p => j <= i
    <2>1. PICK i : /\ IsLast(db, p, i)
                   /\ db.events[i].errno_value = db.network_activity[p].last_errno
      BY DEF NetworkOK, LastOK
    <2>2. /\ IsTables(db) /\ DOMAIN db.events = 1 .. Len(db.events)
          /\ \A j \in 1 .. Len(db.events) : db.events[j] \in EventRow
      BY DEF WInv, IsTables
    <2>3. \A j : IsConnect(db, p, j) <=> /\ j \in Rows(db, All, {"net_connect"})
                                         /\ db.events[j].resource = p
      BY <2>2 DEF IsConnect, Rows, EventRow
    <2>4. last = i
      <3> DEFINE Is(k) == /\ db.events[k].resource = p
                          /\ \A j \in Rows(db, All, {"net_connect"}) :
                               db.events[j].resource = p => j <= k
      <3>1. i \in Rows(db, All, {"net_connect"}) /\ Is(i)
        BY <2>1, <2>3 DEF IsLast
      <3>2. \A k \in Rows(db, All, {"net_connect"}) : Is(k) => k = i
        <4> SUFFICES ASSUME NEW k \in Rows(db, All, {"net_connect"}), Is(k)
                     PROVE  k = i
          OBVIOUS
        <4>1. i <= k /\ k <= i
          BY <2>1, <2>3, <3>1 DEF IsLast
        <4>2. i \in Int /\ k \in Int
          BY <2>2, <3>1 DEF Rows
        <4> QED
          BY <4>1, <4>2
      <3>3. last = CHOOSE k \in Rows(db, All, {"net_connect"}) : Is(k)
        OBVIOUS
      <3> HIDE DEF last, Is
      <3> QED
        BY <3>1, <3>2, <3>3
    <2> HIDE DEF last
    <2> DEFINE c == db.events[i].command_id
               ids == Rows(db, {c}, {"net_connect"})
               of == {k \in ids : db.events[k].resource = p}
    <2>5. i \in of /\ i \in ids /\ \A j \in of : IsConnect(db, p, j)
      BY <2>1, <2>2 DEF IsLast, IsConnect, Rows
    <2>6. InOrder(db)
      BY DEF NetworkOK
    <2>7. Latest(db, of) = i
      <3> HIDE DEF of
      <3> QED
        BY <2>1, <2>2, <2>5, <2>6, LatestIsLast
    <2>8. show_network(db, {c}) = GroupConnects(db, {c}, "net_connect")
      BY FilterOne DEF show_network
    <2>9. p \in Resources(db, ids)
      BY <2>5 DEF Resources
    <2>10. GroupConnects(db, {c}, "net_connect")[p].last = db.events[Latest(db, of)].errno_value
      <3> HIDE DEF c
      <3> QED
        BY <2>9 DEF GroupConnects
    <2>11. show_network(db, All)[p].last = db.network_activity[p].last_errno
      BY DEF show_network
    <2> QED
      BY <2>1, <2>4, <2>7, <2>8, <2>10, <2>11 DEF last
  <1> QED
    BY <1>1, <1>2, <1>3, WInvCorrect, PTL DEF WSpec
-----------------------------------------------------------------------------
(* diff *)

\* What load_summary counts of a file and of an endpoint
FileCounts(x) == x = [calls |-> x.calls, bytes |-> x.bytes]
ConnectCounts(x) ==
    /\ x = [attempts |-> x.attempts, succeeded |-> x.succeeded, failed |-> x.failed, last |-> 0]
    /\ x.attempts \in Nat /\ x.succeeded \in Nat /\ x.failed \in Nat
    /\ x.attempts = x.succeeded + x.failed
IsSummary(s) ==
    /\ \A p \in DOMAIN s.reads : FileCounts(s.reads[p])
    /\ \A p \in DOMAIN s.writes : FileCounts(s.writes[p])
    /\ \A p \in DOMAIN s.network : ConnectCounts(s.network[p])
    /\ \A p \in DOMAIN s.local_ipc : ConnectCounts(s.local_ipc[p])

\* The connects of an endpoint succeed or fail.
LEMMA LocalConnects ==
    ASSUME NEW d, IsTables(d), NEW p \in DOMAIN show_local_ipc(d, All)
    PROVE  ConnectCounts(show_local_ipc(d, All)[p])
  <1> DEFINE ids == Rows(d, All, {"ipc_connect"})
             of == {i \in ids : d.events[i].resource = p}
             good == {i \in of : d.events[i].errno_value = 0}
             bad == {i \in of : d.events[i].errno_value > 0}
             G == GroupConnects(d, All, "ipc_connect")
  <1>1. p \in DOMAIN G /\ show_local_ipc(d, All)[p] = [G[p] EXCEPT !.last = 0]
    BY DEF show_local_ipc
  <1>2. p \in Resources(d, ids)
    BY <1>1 DEF GroupConnects
  <1>3. G[p] = [attempts |-> Cardinality(of), succeeded |-> Cardinality(good),
                failed |-> Cardinality(bad), last |-> d.events[Latest(d, of)].errno_value]
    BY <1>2 DEF GroupConnects
  <1>4. /\ Len(d.events) \in Nat /\ DOMAIN d.events = 1 .. Len(d.events)
        /\ \A i \in 1 .. Len(d.events) : d.events[i] \in EventRow
    BY DEF IsTables
  <1>5. IsFiniteSet(1 .. Len(d.events))
    BY <1>4, FS_Interval
  <1>6. of \subseteq 1 .. Len(d.events)
    BY <1>4 DEF Rows
  <1>7. \A i \in of : d.events[i].errno_value \in Nat
    BY <1>4, <1>6 DEF EventRow
  <1>8. good \cup bad = of /\ good \cap bad = {}
    <2> HIDE DEF of
    <2> QED
      BY <1>7
  <1>9. good \subseteq 1 .. Len(d.events) /\ bad \subseteq 1 .. Len(d.events)
    BY <1>6
  <1> HIDE DEF of, good, bad, G
  <1>10. IsFiniteSet(of) /\ IsFiniteSet(good) /\ IsFiniteSet(bad)
    BY <1>5, <1>6, <1>9, FS_Subset
  <1>11. Cardinality(of) = Cardinality(good) + Cardinality(bad) - Cardinality({})
    BY <1>8, <1>10, FS_Union
  <1>12. Cardinality({}) = 0
    BY FS_EmptySet
  <1>13. Cardinality(of) \in Nat /\ Cardinality(good) \in Nat /\ Cardinality(bad) \in Nat
    BY <1>10, FS_CardinalityType
  <1>14. Cardinality(of) = Cardinality(good) + Cardinality(bad)
    BY <1>11, <1>12, <1>13
  <1>15. show_local_ipc(d, All)[p] = [attempts |-> Cardinality(of), succeeded |-> Cardinality(good),
                                     failed |-> Cardinality(bad), last |-> 0]
    BY <1>1, <1>3
  <1> QED
    BY <1>13, <1>14, <1>15 DEF ConnectCounts

LEMMA NetworkConnects ==
    ASSUME NEW d, IsTables(d), NEW p \in DOMAIN d.network_activity
    PROVE  ConnectCounts([show_network(d, All)[p] EXCEPT !.last = 0])
  <1> DEFINE row == d.network_activity[p]
  <1>1. row \in NetworkRow
    BY DEF IsTables, IsTable
  <1>2. show_network(d, All)[p] = [attempts |-> row.connect_count, succeeded |-> row.success_count,
                                  failed |-> row.failure_count, last |-> row.last_errno]
    BY DEF show_network
  <1> HIDE DEF row
  <1>3. [show_network(d, All)[p] EXCEPT !.last = 0] =
          [attempts |-> row.connect_count, succeeded |-> row.success_count,
           failed |-> row.failure_count, last |-> 0]
    BY <1>2
  <1> QED
    BY <1>1, <1>3 DEF ConnectCounts, NetworkRow

LEMMA ShownFiles ==
    ASSUME NEW d, NEW type, NEW p \in DOMAIN show_files(d, All, type)
    PROVE  FileCounts(show_files(d, All, type)[p])
  <1> DEFINE a == d.file_activity
             calls(q) == IF type = "file_read" THEN a[q].read_calls ELSE a[q].write_calls
             size(q) == IF type = "file_read" THEN a[q].bytes_read ELSE a[q].bytes_written
  <1>1. show_files(d, All, type) =
          [q \in {x \in DOMAIN a : calls(x) > 0} |-> [calls |-> calls(q), bytes |-> size(q)]]
    BY DEF show_files
  <1> HIDE DEF calls, size, a
  <1>2. show_files(d, All, type)[p] = [calls |-> calls(p), bytes |-> size(p)]
    BY <1>1
  <1> QED
    BY <1>2 DEF FileCounts

LEMMA Summaries ==
    ASSUME NEW d, IsTables(d), NEW isSession
    PROVE  IsSummary(load_summary(d, isSession))
  <1> DEFINE s == load_summary(d, isSession)
  <1>1. /\ s.reads = show_files(d, All, "file_read")
        /\ s.writes = show_files(d, All, "file_write")
        /\ s.network = [p \in DOMAIN d.network_activity |->
                          [show_network(d, All)[p] EXCEPT !.last = 0]]
        /\ s.local_ipc = show_local_ipc(d, All)
    BY DEF load_summary
  <1> HIDE DEF s
  <1>2. \A p \in DOMAIN s.network : ConnectCounts(s.network[p])
    BY <1>1, NetworkConnects
  <1>3. \A p \in DOMAIN s.local_ipc : ConnectCounts(s.local_ipc[p])
    BY <1>1, LocalConnects
  <1>4. /\ \A p \in DOMAIN s.reads : FileCounts(s.reads[p])
        /\ \A p \in DOMAIN s.writes : FileCounts(s.writes[p])
    BY <1>1, ShownFiles
  <1> QED
    BY <1>2, <1>3, <1>4 DEF IsSummary, s

\* The two numbers of a line tell two counts apart.
LEMMA LineOfFile ==
    ASSUME NEW x, NEW y, FileCounts(x), FileCounts(y), Line(x) = Line(y)
    PROVE  x = y
  <1>1. "calls" \in DOMAIN x /\ "calls" \in DOMAIN y
    BY DEF FileCounts
  <1>2. <<x.calls, x.bytes>> = <<y.calls, y.bytes>>
    BY <1>1 DEF Line
  <1>3. x.calls = y.calls /\ x.bytes = y.bytes
    BY <1>2
  <1> QED
    BY <1>3 DEF FileCounts

LEMMA LineOfConnects ==
    ASSUME NEW x, NEW y, ConnectCounts(x), ConnectCounts(y), Line(x) = Line(y)
    PROVE  x = y
  <1>1. "calls" \notin DOMAIN x /\ "calls" \notin DOMAIN y
    BY DEF ConnectCounts
  <1>2. <<x.attempts, x.failed>> = <<y.attempts, y.failed>>
    BY <1>1 DEF Line
  <1>3. x.attempts = y.attempts /\ x.failed = y.failed
    BY <1>2
  <1>4. x.succeeded = y.succeeded
    BY <1>3 DEF ConnectCounts
  <1> QED
    BY <1>3, <1>4 DEF ConnectCounts

LEMMA ActivityLeads ==
    ASSUME NEW x, NEW y,
           \A p \in DOMAIN x \cap DOMAIN y : Line(x[p]) = Line(y[p]) => x[p] = y[p]
    PROVE  Leads(x, y, print_activity_diff(x, y))
  <1> DEFINE lines == print_activity_diff(x, y)
  <1>1. /\ lines.removed = DOMAIN x \ DOMAIN y /\ lines.added = DOMAIN y \ DOMAIN x
        /\ lines.changed = [p \in {q \in DOMAIN x \cap DOMAIN y : x[q] # y[q]} |-> Line(y[p])]
    BY DEF print_activity_diff, Differs
  <1> HIDE DEF lines
  <1>2. DOMAIN y = (DOMAIN x \ lines.removed) \cup lines.added
    BY <1>1
  <1>3. DOMAIN lines.changed = {q \in DOMAIN x \cap DOMAIN y : x[q] # y[q]}
    BY <1>1
  <1>4. \A p \in DOMAIN lines.changed : lines.changed[p] = Line(y[p])
    BY <1>1
  <1> QED
    BY <1>2, <1>3, <1>4 DEF Leads, lines

LEMMA SetLeads ==
    ASSUME NEW x, NEW y
    PROVE  Replaces(x, y, print_set_diff(x, y))
BY DEF Replaces, print_set_diff

\* What was loaded of the capsule recorded before has the shape of a summary.
SavedOK == saved # Null => IsSummary(saved) /\ session = TRUE

LEMMA SavedNext ==
    ASSUME WInv, SavedOK, [WNext]_wvars
    PROVE  SavedOK'
  <1>1. CASE Again
    <2>1. saved' = load_summary(disk, session) /\ session' = TRUE
      BY <1>1 DEF Again
    <2>2. IsSummary(load_summary(disk, session))
      BY Summaries DEF WInv
    <2>3. IsSummary(saved')
      BY <2>1, <2>2
    <2> QED
      BY <2>1, <2>3 DEF SavedOK
  <1>2. CASE saved' = saved /\ session' = session
    BY <1>2 DEF SavedOK
  <1>3. ASSUME NEW extra, Record(extra)
        PROVE  saved' = saved /\ session' = session
    BY <1>3 DEF Record
  <1>4. ASSUME NEW ts \in Time,
               RecordActivity(ts) \/ RecordProcess(ts) \/ RecordBegin(ts) \/ RecordEnd(ts)
        PROVE  saved' = saved /\ session' = session
    BY <1>3, <1>4 DEF RecordActivity, RecordProcess, RecordBegin, RecordEnd
  <1>5. ASSUME Fail \/ \E exit_code \in {0, 1} : Finish(exit_code)
        PROVE  saved' = saved /\ session' = session
    BY <1>5 DEF Fail, Finish
  <1>6. ASSUME UNCHANGED wvars
        PROVE  saved' = saved /\ session' = session
    BY <1>6 DEF wvars, capsule
  <1> QED
    BY <1>1, <1>2, <1>4, <1>5, <1>6 DEF WNext

LEMMA DiffLeads ==
    ASSUME NEW a, IsSummary(a), NEW d, IsTables(d)
    PROVE  LET b == load_summary(d, TRUE)
               lines == diff_capsules(a, b)
           IN  /\ \A part \in {"reads", "writes", "network", "local_ipc"} :
                    Leads(a[part], b[part], lines[part])
               /\ Replaces(a.executables, b.executables, lines.executables)
               /\ Replaces(a.commands, b.commands, lines.commands)
               /\ lines.exit = << >> <=> a.exit_code = b.exit_code
  <1> DEFINE b == load_summary(d, TRUE)
             lines == diff_capsules(a, b)
  <1>1. IsSummary(b)
    BY Summaries
  <1>2. b.session = TRUE
    BY DEF load_summary
  <1> HIDE DEF b
  <1>3. /\ lines.exit = IF a.exit_code = b.exit_code THEN << >> ELSE <<a.exit_code, b.exit_code>>
        /\ lines.commands = print_set_diff(a.commands, b.commands)
        /\ lines.reads = print_activity_diff(a.reads, b.reads)
        /\ lines.writes = print_activity_diff(a.writes, b.writes)
        /\ lines.network = print_activity_diff(a.network, b.network)
        /\ lines.local_ipc = print_activity_diff(a.local_ipc, b.local_ipc)
        /\ lines.executables = print_set_diff(a.executables, b.executables)
    BY <1>2 DEF diff_capsules
  <1> HIDE DEF lines
  <1>4. /\ Leads(a.reads, b.reads, lines.reads) /\ Leads(a.writes, b.writes, lines.writes)
    BY <1>1, <1>3, LineOfFile, ActivityLeads DEF IsSummary
  <1>5. /\ Leads(a.network, b.network, lines.network)
        /\ Leads(a.local_ipc, b.local_ipc, lines.local_ipc)
    BY <1>1, <1>3, LineOfConnects, ActivityLeads DEF IsSummary
  <1>6. /\ Replaces(a.executables, b.executables, lines.executables)
        /\ Replaces(a.commands, b.commands, lines.commands)
    BY <1>3, SetLeads
  <1>7. lines.exit = << >> <=> a.exit_code = b.exit_code
    BY <1>3
  <1> QED
    BY <1>4, <1>5, <1>6, <1>7 DEF b, lines

\* The lines that diff prints lead from one capsule to the other.
THEOREM DiffCorrect == WSpec => DiffLeadsThere
  <1>1. WInit => SavedOK
    BY DEF WInit, SavedOK
  <1>2. WInv /\ SavedOK /\ [WNext]_wvars => SavedOK'
    BY SavedNext
  <1>3. ASSUME WInv, WInv', SavedOK, [WNext]_wvars
        PROVE  [saved # Null /\ phase' = "finished" =>
                  LET b == load_summary(disk', session)
                      d == diff_capsules(saved, b)
                  IN  /\ \A part \in {"reads", "writes", "network", "local_ipc"} :
                           Leads(saved[part], b[part], d[part])
                      /\ Replaces(saved.executables, b.executables, d.executables)
                      /\ Replaces(saved.commands, b.commands, d.commands)
                      /\ d.exit = << >> <=> saved.exit_code = b.exit_code]_wvars
    <2>1. IsTables(disk')
      BY <1>3 DEF WInv
    <2>2. saved # Null => IsSummary(saved) /\ session = TRUE
      BY <1>3 DEF SavedOK
    <2>3. ASSUME saved # Null
          PROVE  LET b == load_summary(disk', session)
                     d == diff_capsules(saved, b)
                 IN  /\ \A part \in {"reads", "writes", "network", "local_ipc"} :
                          Leads(saved[part], b[part], d[part])
                     /\ Replaces(saved.executables, b.executables, d.executables)
                     /\ Replaces(saved.commands, b.commands, d.commands)
                     /\ d.exit = << >> <=> saved.exit_code = b.exit_code
      <3>1. IsSummary(saved) /\ session = TRUE
        BY <2>2, <2>3
      <3>2. LET b == load_summary(disk', TRUE)
                d == diff_capsules(saved, b)
            IN  /\ \A part \in {"reads", "writes", "network", "local_ipc"} :
                     Leads(saved[part], b[part], d[part])
                /\ Replaces(saved.executables, b.executables, d.executables)
                /\ Replaces(saved.commands, b.commands, d.commands)
                /\ d.exit = << >> <=> saved.exit_code = b.exit_code
        BY <2>1, <3>1, DiffLeads
      <3> QED
        BY <3>1, <3>2
    <2> QED
      BY <2>3
  <1> QED
    BY <1>1, <1>2, <1>3, WInvCorrect, PTL DEF WSpec, DiffLeadsThere
-----------------------------------------------------------------------------
(* Sums over finite sets.  Induction is by a minimal counterexample: among finite *)
(* sets, being a proper subset is well-founded.                                   *)

LEMMA MinimalSubset ==
    ASSUME NEW S, IsFiniteSet(S), NEW C, C \subseteq SUBSET S, C # {}
    PROVE  \E T \in C : \A U \in C : U \subseteq T => U = T
  <1>1. C \subseteq FiniteSubsetsOf(S)
    BY FS_FiniteSubsetsOfFinite
  <1>2. IsWellFoundedOn(StrictSubsetOrdering(S), FiniteSubsetsOf(S))
    BY FS_StrictSubsetOrderingWellFounded
  <1>3. PICK T \in C : \A U \in C : ~ (<<U, T>> \in StrictSubsetOrdering(S))
    BY <1>1, <1>2, WFMin
  <1> QED
    BY <1>3 DEF StrictSubsetOrdering

\* The equation of the recursive function by which a fold is defined
Pick(s) == CHOOSE x \in s : TRUE
IsFold(f, T, g) ==
    g = [s \in SUBSET T |-> IF s = {} THEN 0 ELSE f[Pick(s)] + g[s \ {Pick(s)}]]
TheFold(f, T) == CHOOSE g : IsFold(f, T, g)

LEMMA SumIsFold ==
    ASSUME NEW f, NEW S
    PROVE  SumFunctionOnSet(f, S) = TheFold(f, S)[S]
BY DEF SumFunctionOnSet, FoldFunctionOnSet, MapThenFoldSet, TheFold, IsFold, Pick

LEMMA FoldOfEmpty ==
    ASSUME NEW f, NEW T, NEW g, IsFold(f, T, g)
    PROVE  g[{}] = 0
  <1>1. {} \in SUBSET T
    OBVIOUS
  <1> QED
    BY <1>1 DEF IsFold

LEMMA FoldOfSome ==
    ASSUME NEW f, NEW T, NEW g, IsFold(f, T, g), NEW s, s \subseteq T, s # {}
    PROVE  g[s] = f[Pick(s)] + g[s \ {Pick(s)}]
  <1>1. s \in SUBSET T
    OBVIOUS
  <1> QED
    BY <1>1 DEF IsFold

LEMMA PickIsIn ==
    ASSUME NEW s, s # {}
    PROVE  Pick(s) \in s
BY DEF Pick

\* What a fold is of a set depends on nothing outside that set.
LEMMA FoldAgrees ==
    ASSUME NEW f, NEW g, NEW S, NEW T, NEW x, NEW y, IsFold(f, S, x), IsFold(g, T, y),
           NEW V, IsFiniteSet(V), V \subseteq S, V \subseteq T, \A v \in V : f[v] = g[v]
    PROVE  x[V] = y[V]
  <1> DEFINE C == {U \in SUBSET V : x[U] # y[U]}
  <1>1. SUFFICES ASSUME C # {}
                 PROVE  FALSE
    OBVIOUS
  <1>2. PICK U \in C : \A W \in C : W \subseteq U => W = U
    <2> HIDE DEF C
    <2>1. C \subseteq SUBSET V
      BY DEF C
    <2> QED
      BY <1>1, <2>1, MinimalSubset
  <1>3. U \in SUBSET S /\ U \in SUBSET T /\ U \in SUBSET V /\ x[U] # y[U]
    OBVIOUS
  <1>4. U # {}
    BY <1>3, FoldOfEmpty
  <1> DEFINE W == U \ {Pick(U)}
  <1>5. Pick(U) \in U /\ x[U] = f[Pick(U)] + x[W] /\ y[U] = g[Pick(U)] + y[W]
    <2>1. x[U] = f[Pick(U)] + x[W]
      BY <1>3, <1>4, FoldOfSome
    <2>2. y[U] = g[Pick(U)] + y[W]
      BY <1>3, <1>4, FoldOfSome
    <2> QED
      BY <2>1, <2>2, <1>4, PickIsIn
  <1>6. W \in SUBSET V /\ W \subseteq U /\ W # U
    BY <1>3, <1>5
  <1>7. x[W] = y[W]
    BY <1>2, <1>6
  <1> QED
    BY <1>3, <1>5, <1>7

LEMMA FoldExists ==
    ASSUME NEW f, NEW S, IsFiniteSet(S)
    PROVE  IsFold(f, S, TheFold(f, S))
  <1> DEFINE Has(T) == \E g : IsFold(f, T, g)
             C == {T \in SUBSET S : ~Has(T)}
  <1>1. SUFFICES ASSUME C # {}
                 PROVE  FALSE
    <2>1. S \in SUBSET S
      OBVIOUS
    <2>2. Has(S)
      BY <1>1, <2>1
    <2> QED
      BY <2>2 DEF TheFold
  <1>2. PICK T \in C : \A U \in C : U \subseteq T => U = T
    <2> HIDE DEF C
    <2>1. C \subseteq SUBSET S
      BY DEF C
    <2> QED
      BY <1>1, <2>1, MinimalSubset
  <1>3. T \in SUBSET S /\ ~Has(T)
    OBVIOUS
  <1>4. \A U \in SUBSET T : U # T => IsFold(f, U, TheFold(f, U)) /\ IsFiniteSet(U)
    <2> SUFFICES ASSUME NEW U \in SUBSET T, U # T
                 PROVE  IsFold(f, U, TheFold(f, U)) /\ IsFiniteSet(U)
      OBVIOUS
    <2>1. Has(U)
      BY <1>2, <1>3
    <2>2. IsFiniteSet(U)
      <3>1. U \in SUBSET S
        BY <1>3
      <3> QED
        BY <3>1, FS_Subset
    <2> QED
      BY <2>1, <2>2 DEF TheFold
  <1> DEFINE h == [s \in SUBSET T |->
                     IF s = {} THEN 0
                     ELSE f[Pick(s)] + TheFold(f, s \ {Pick(s)})[s \ {Pick(s)}]]
  <1>5. ASSUME NEW s \in SUBSET T, s # {}
        PROVE  h[s \ {Pick(s)}] = TheFold(f, s \ {Pick(s)})[s \ {Pick(s)}]
    <2> DEFINE u == s \ {Pick(s)}
               w == u \ {Pick(u)}
    <2>1. Pick(s) \in s
      BY <1>5 DEF Pick
    <2>2. u \in SUBSET T /\ u # T
      BY <2>1
    <2>3. IsFold(f, u, TheFold(f, u)) /\ IsFiniteSet(u) /\ u \in SUBSET u
      BY <2>2, <1>4
    <2> HIDE DEF u
    <2>4. CASE u = {}
      <3>1. TheFold(f, u)[u] = 0
        BY <2>3, <2>4, FoldOfEmpty
      <3>2. h[u] = 0
        BY <2>2, <2>4
      <3> QED
        BY <3>1, <3>2 DEF u
    <2>5. CASE u # {}
      <3>1. h[u] = f[Pick(u)] + TheFold(f, w)[w]
        BY <2>2, <2>5
      <3>2. Pick(u) \in u /\ TheFold(f, u)[u] = f[Pick(u)] + TheFold(f, u)[w]
        <4>1. TheFold(f, u)[u] = f[Pick(u)] + TheFold(f, u)[w]
          BY <2>3, <2>5, FoldOfSome
        <4> QED
          BY <4>1, <2>5, PickIsIn
      <3>3. w \in SUBSET T /\ w # T /\ w \subseteq u /\ w \subseteq w
        BY <2>2, <3>2
      <3>4. IsFold(f, w, TheFold(f, w)) /\ IsFiniteSet(w)
        BY <3>3, <1>4
      <3> HIDE DEF w
      <3>5. TheFold(f, u)[w] = TheFold(f, w)[w]
        BY <2>3, <3>3, <3>4, FoldAgrees
      <3> QED
        BY <3>1, <3>2, <3>5 DEF u
    <2> QED
      BY <2>4, <2>5
  <1>6. \A s \in SUBSET T : h[s] = IF s = {} THEN 0 ELSE f[Pick(s)] + h[s \ {Pick(s)}]
    <2> SUFFICES ASSUME NEW s \in SUBSET T
                 PROVE  h[s] = IF s = {} THEN 0 ELSE f[Pick(s)] + h[s \ {Pick(s)}]
      OBVIOUS
    <2>1. h[s] = IF s = {} THEN 0
                 ELSE f[Pick(s)] + TheFold(f, s \ {Pick(s)})[s \ {Pick(s)}]
      OBVIOUS
    <2> HIDE DEF h
    <2> QED
      BY <2>1, <1>5
  <1>7. h = [s \in SUBSET T |-> h[s]]
    OBVIOUS
  <1> HIDE DEF h
  <1>8. h = [s \in SUBSET T |-> IF s = {} THEN 0 ELSE f[Pick(s)] + h[s \ {Pick(s)}]]
    BY <1>6, <1>7
  <1>9. IsFold(f, T, h)
    BY <1>8 DEF IsFold
  <1> QED
    BY <1>3, <1>9

LEMMA SumOfEmpty ==
    ASSUME NEW f
    PROVE  SumFunctionOnSet(f, {}) = 0
  <1>1. IsFold(f, {}, TheFold(f, {}))
    BY FS_EmptySet, FoldExists
  <1> QED
    BY <1>1, SumIsFold, FoldOfEmpty

\* Only the values on the set count.
LEMMA SumOfEqual ==
    ASSUME NEW f, NEW g, NEW S, IsFiniteSet(S), \A x \in S : f[x] = g[x]
    PROVE  SumFunctionOnSet(f, S) = SumFunctionOnSet(g, S)
  <1>1. IsFold(f, S, TheFold(f, S)) /\ IsFold(g, S, TheFold(g, S))
    BY FoldExists
  <1>2. TheFold(f, S)[S] = TheFold(g, S)[S]
    BY <1>1, FoldAgrees
  <1> QED
    BY <1>2, SumIsFold

LEMMA SumOfPick ==
    ASSUME NEW f, NEW S, IsFiniteSet(S), S # {}
    PROVE  SumFunctionOnSet(f, S) = f[Pick(S)] + SumFunctionOnSet(f, S \ {Pick(S)})
  <1> DEFINE T == S \ {Pick(S)}
  <1>1. IsFiniteSet(T) /\ T \subseteq S /\ T \subseteq T
    BY FS_RemoveElement
  <1> HIDE DEF T
  <1>2. IsFold(f, S, TheFold(f, S)) /\ IsFold(f, T, TheFold(f, T))
    BY <1>1, FoldExists
  <1>3. TheFold(f, S)[S] = f[Pick(S)] + TheFold(f, S)[T]
    BY <1>2, FoldOfSome DEF T
  <1>4. TheFold(f, S)[T] = TheFold(f, T)[T]
    BY <1>1, <1>2, FoldAgrees
  <1> QED
    BY <1>3, <1>4, SumIsFold DEF T

LEMMA SumType ==
    ASSUME NEW f, NEW S, IsFiniteSet(S), \A x \in S : f[x] \in Int
    PROVE  SumFunctionOnSet(f, S) \in Int
  <1> DEFINE C == {T \in SUBSET S : SumFunctionOnSet(f, T) \notin Int}
  <1>1. SUFFICES ASSUME C # {}
                 PROVE  FALSE
    OBVIOUS
  <1>2. PICK T \in C : \A U \in C : U \subseteq T => U = T
    <2> HIDE DEF C
    <2>1. C \subseteq SUBSET S
      BY DEF C
    <2> QED
      BY <1>1, <2>1, MinimalSubset
  <1>3. T \in SUBSET S /\ SumFunctionOnSet(f, T) \notin Int
    OBVIOUS
  <1>4. T # {}
    BY <1>3, SumOfEmpty
  <1>5. IsFiniteSet(T) /\ Pick(T) \in T
    BY <1>3, <1>4, PickIsIn, FS_Subset
  <1>6. SumFunctionOnSet(f, T) = f[Pick(T)] + SumFunctionOnSet(f, T \ {Pick(T)})
    BY <1>4, <1>5, SumOfPick
  <1>7. T \ {Pick(T)} \in SUBSET S /\ T \ {Pick(T)} \subseteq T /\ T \ {Pick(T)} # T
    BY <1>3, <1>5
  <1>8. SumFunctionOnSet(f, T \ {Pick(T)}) \in Int
    BY <1>2, <1>7
  <1>9. f[Pick(T)] \in Int
    BY <1>3, <1>5
  <1> QED
    BY <1>3, <1>6, <1>8, <1>9

\* The order in which a fold takes the elements does not matter to a sum.
LEMMA SumRemove ==
    ASSUME NEW f, NEW S, IsFiniteSet(S), \A x \in S : f[x] \in Int, NEW z \in S
    PROVE  SumFunctionOnSet(f, S) = f[z] + SumFunctionOnSet(f, S \ {z})
  <1> DEFINE Good(T) == \A x \in T : SumFunctionOnSet(f, T) = f[x] + SumFunctionOnSet(f, T \ {x})
             C == {T \in SUBSET S : ~Good(T)}
  <1>1. SUFFICES ASSUME C # {}
                 PROVE  FALSE
    <2>1. S \in SUBSET S
      OBVIOUS
    <2>2. Good(S)
      BY <1>1, <2>1
    <2> QED
      BY <2>2
  <1>2. PICK T \in C : \A U \in C : U \subseteq T => U = T
    <2> HIDE DEF C
    <2>1. C \subseteq SUBSET S
      BY DEF C
    <2> QED
      BY <1>1, <2>1, MinimalSubset
  <1>3. T \in SUBSET S /\ ~Good(T)
    OBVIOUS
  <1>4. PICK x \in T : SumFunctionOnSet(f, T) # f[x] + SumFunctionOnSet(f, T \ {x})
    BY <1>3
  <1> DEFINE y == Pick(T)
  <1>5. IsFiniteSet(T) /\ y \in T /\ T # {}
    BY <1>3, <1>4, PickIsIn, FS_Subset
  <1>6. SumFunctionOnSet(f, T) = f[y] + SumFunctionOnSet(f, T \ {y})
    BY <1>5, SumOfPick
  <1> HIDE DEF y
  <1>7. x # y
    BY <1>4, <1>6
  <1>8. \A U \in SUBSET S : U \subseteq T /\ U # T => Good(U)
    BY <1>2
  <1> HIDE DEF Good
  <1>9. Good(T \ {x}) /\ Good(T \ {y})
    <2>1. /\ T \ {x} \in SUBSET S /\ T \ {x} \subseteq T /\ T \ {x} # T
          /\ T \ {y} \in SUBSET S /\ T \ {y} \subseteq T /\ T \ {y} # T
      BY <1>3, <1>5
    <2> QED
      BY <2>1, <1>8
  <1>10. /\ SumFunctionOnSet(f, T \ {x}) = f[y] + SumFunctionOnSet(f, (T \ {x}) \ {y})
         /\ SumFunctionOnSet(f, T \ {y}) = f[x] + SumFunctionOnSet(f, (T \ {y}) \ {x})
    BY <1>5, <1>7, <1>9 DEF Good
  <1> DEFINE R == (T \ {x}) \ {y}
  <1>11. (T \ {y}) \ {x} = R /\ IsFiniteSet(R) /\ R \subseteq S
    <2>1. IsFiniteSet(T \ {x})
      BY <1>5, FS_RemoveElement
    <2>2. IsFiniteSet(R)
      BY <2>1, FS_RemoveElement
    <2> QED
      BY <2>2, <1>3
  <1> HIDE DEF R
  <1>12. SumFunctionOnSet(f, R) \in Int
    <2>1. \A v \in R : f[v] \in Int
      BY <1>11
    <2> QED
      BY <2>1, <1>11, SumType
  <1>13. f[x] \in Int /\ f[y] \in Int
    BY <1>3, <1>5
  <1>14. /\ SumFunctionOnSet(f, T \ {x}) = f[y] + SumFunctionOnSet(f, R)
         /\ SumFunctionOnSet(f, T \ {y}) = f[x] + SumFunctionOnSet(f, R)
    BY <1>10, <1>11 DEF R
  <1> QED
    BY <1>4, <1>6, <1>12, <1>13, <1>14

LEMMA SumAdd ==
    ASSUME NEW f, NEW S, IsFiniteSet(S), NEW z, z \notin S, \A x \in S \cup {z} : f[x] \in Int
    PROVE  SumFunctionOnSet(f, S \cup {z}) = f[z] + SumFunctionOnSet(f, S)
  <1> DEFINE T == S \cup {z}
  <1>1. IsFiniteSet(T) /\ z \in T /\ T \ {z} = S
    BY FS_AddElement
  <1> HIDE DEF T
  <1>2. \A x \in T : f[x] \in Int
    BY DEF T
  <1> QED
    BY <1>1, <1>2, SumRemove DEF T

LEMMA SumOfUnion ==
    ASSUME NEW f, NEW A, NEW B, IsFiniteSet(A), IsFiniteSet(B), A \cap B = {},
           \A x \in A \cup B : f[x] \in Int
    PROVE  SumFunctionOnSet(f, A \cup B) = SumFunctionOnSet(f, A) + SumFunctionOnSet(f, B)
  <1> DEFINE Good(T) == SumFunctionOnSet(f, T \cup B)
                          = SumFunctionOnSet(f, T) + SumFunctionOnSet(f, B)
             C == {T \in SUBSET A : ~Good(T)}
  <1>1. SUFFICES ASSUME C # {}
                 PROVE  FALSE
    <2>1. A \in SUBSET A
      OBVIOUS
    <2>2. Good(A)
      BY <1>1, <2>1
    <2> QED
      BY <2>2
  <1>2. PICK T \in C : \A U \in C : U \subseteq T => U = T
    <2> HIDE DEF C
    <2>1. C \subseteq SUBSET A
      BY DEF C
    <2> QED
      BY <1>1, <2>1, MinimalSubset
  <1>3. T \in SUBSET A /\ ~Good(T)
    OBVIOUS
  <1>4. SumFunctionOnSet(f, B) \in Int
    BY SumType
  <1>5. T # {}
    <2> SUFFICES ASSUME T = {}
                 PROVE  FALSE
      OBVIOUS
    <2>1. T \cup B = B /\ SumFunctionOnSet(f, T) = 0
      BY SumOfEmpty
    <2> QED
      BY <2>1, <1>3, <1>4
  <1>6. PICK z \in T : TRUE
    BY <1>5
  <1> DEFINE U == T \ {z}
  <1>7. Good(U)
    <2>1. U \in SUBSET A /\ U \subseteq T /\ U # T
      BY <1>3, <1>6
    <2> QED
      BY <1>2, <2>1
  <1>8. /\ IsFiniteSet(U) /\ z \notin U /\ T = U \cup {z} /\ z \notin B /\ U \subseteq A
        /\ f[z] \in Int /\ \A x \in U \cup B : f[x] \in Int
    <2>1. IsFiniteSet(T)
      BY <1>3, FS_Subset
    <2>2. IsFiniteSet(U)
      BY <2>1, FS_RemoveElement
    <2> QED
      BY <2>2, <1>3, <1>6
  <1> HIDE DEF U
  <1>9. SumFunctionOnSet(f, U \cup {z}) = f[z] + SumFunctionOnSet(f, U)
    BY <1>8, SumAdd
  <1>10. SumFunctionOnSet(f, (U \cup B) \cup {z}) = f[z] + SumFunctionOnSet(f, U \cup B)
    <2>1. IsFiniteSet(U \cup B)
      BY <1>8, FS_Union
    <2>2. z \notin U \cup B /\ \A x \in (U \cup B) \cup {z} : f[x] \in Int
      BY <1>8
    <2> QED
      BY <2>1, <2>2, SumAdd
  <1>11. (U \cup B) \cup {z} = T \cup B
    BY <1>8
  <1>12. SumFunctionOnSet(f, U) \in Int
    BY <1>8, SumType
  <1>13. /\ SumFunctionOnSet(f, T \cup B) = f[z] + SumFunctionOnSet(f, U \cup B)
         /\ SumFunctionOnSet(f, T) = f[z] + SumFunctionOnSet(f, U)
         /\ f[z] \in Int
    BY <1>8, <1>9, <1>10, <1>11
  <1>14. SumFunctionOnSet(f, U \cup B) = SumFunctionOnSet(f, U) + SumFunctionOnSet(f, B)
    BY <1>7
  <1>15. SumFunctionOnSet(f, T \cup B) = SumFunctionOnSet(f, T) + SumFunctionOnSet(f, B)
    BY <1>4, <1>12, <1>13, <1>14
  <1> QED
    BY <1>3, <1>15

\* A set is the disjoint union of parts; the sum over it is that of their sums.
LEMMA SumOfParts ==
    ASSUME NEW f, NEW K, IsFiniteSet(K), NEW part,
           \A k \in K : IsFiniteSet(part[k]) /\ \A x \in part[k] : f[x] \in Int,
           \A j, k \in K : j # k => part[j] \cap part[k] = {}
    PROVE  SumFunctionOnSet(f, UNION {part[k] : k \in K}) =
             SumFunctionOnSet([k \in K |-> SumFunctionOnSet(f, part[k])], K)
  <1> DEFINE h == [k \in K |-> SumFunctionOnSet(f, part[k])]
             Over(T) == UNION {part[k] : k \in T}
             Good(T) == /\ IsFiniteSet(Over(T))
                        /\ SumFunctionOnSet(f, Over(T)) = SumFunctionOnSet(h, T)
             C == {T \in SUBSET K : ~Good(T)}
  <1>1. SUFFICES ASSUME C # {}
                 PROVE  FALSE
    <2>1. K \in SUBSET K
      OBVIOUS
    <2>2. Good(K)
      BY <1>1, <2>1
    <2> QED
      BY <2>2
  <1>2. PICK T \in C : \A U \in C : U \subseteq T => U = T
    <2> HIDE DEF C
    <2>1. C \subseteq SUBSET K
      BY DEF C
    <2> QED
      BY <1>1, <2>1, MinimalSubset
  <1>3. T \in SUBSET K /\ ~Good(T)
    OBVIOUS
  <1>4. \A k \in K : h[k] = SumFunctionOnSet(f, part[k]) /\ h[k] \in Int
    BY SumType
  <1>5. \A U \in SUBSET K : U \subseteq T /\ U # T => Good(U)
    BY <1>2
  <1> HIDE DEF h, C
  <1>6. T # {}
    <2> SUFFICES ASSUME T = {}
                 PROVE  FALSE
      OBVIOUS
    <2>1. Over(T) = {}
      OBVIOUS
    <2>2. SumFunctionOnSet(f, {}) = 0 /\ SumFunctionOnSet(h, {}) = 0
      BY SumOfEmpty
    <2> QED
      BY <2>1, <2>2, <1>3, FS_EmptySet
  <1>7. PICK z \in T : TRUE
    BY <1>6
  <1> DEFINE U == T \ {z}
  <1>8. Good(U)
    <2>1. U \in SUBSET K /\ U \subseteq T /\ U # T
      BY <1>3, <1>7
    <2> QED
      BY <1>5, <2>1
  <1>9. /\ IsFiniteSet(U) /\ z \notin U /\ T = U \cup {z} /\ z \in K /\ U \subseteq K
    <2>1. IsFiniteSet(T)
      BY <1>3, FS_Subset
    <2>2. IsFiniteSet(U)
      BY <2>1, FS_RemoveElement
    <2> QED
      BY <2>2, <1>3, <1>7
  <1> HIDE DEF U
  <1>10. /\ Over(T) = Over(U) \cup part[z] /\ Over(U) \cap part[z] = {}
         /\ \A x \in Over(U) \cup part[z] : f[x] \in Int
    BY <1>9
  <1>11. SumFunctionOnSet(h, T) = h[z] + SumFunctionOnSet(h, U)
    <2>1. \A k \in U \cup {z} : h[k] \in Int
      BY <1>4, <1>9
    <2> QED
      BY <1>9, <2>1, SumAdd
  <1>12. IsFiniteSet(Over(U)) /\ SumFunctionOnSet(f, Over(U)) = SumFunctionOnSet(h, U)
    BY <1>8
  <1> HIDE DEF Over
  <1>13. IsFiniteSet(part[z]) /\ IsFiniteSet(Over(T))
    <2>1. IsFiniteSet(part[z])
      BY <1>9
    <2>2. IsFiniteSet(Over(U) \cup part[z])
      BY <2>1, <1>12, FS_Union
    <2> QED
      BY <2>1, <2>2, <1>10
  <1>14. SumFunctionOnSet(f, Over(T)) = SumFunctionOnSet(f, Over(U)) + SumFunctionOnSet(f, part[z])
    BY <1>10, <1>12, <1>13, SumOfUnion
  <1>15. SumFunctionOnSet(h, U) \in Int /\ h[z] \in Int /\ h[z] = SumFunctionOnSet(f, part[z])
    <2>1. \A k \in U : h[k] \in Int
      BY <1>4, <1>9
    <2> QED
      BY <2>1, <1>4, <1>9, SumType
  <1>16. SumFunctionOnSet(f, Over(T)) = SumFunctionOnSet(h, T)
    BY <1>11, <1>12, <1>14, <1>15
  <1> QED
    BY <1>3, <1>13, <1>16

\* Counting is summing up ones.
LEMMA SumOfOnes ==
    ASSUME NEW f, NEW S, IsFiniteSet(S), NEW Q, Q \subseteq S,
           \A x \in S : f[x] = IF x \in Q THEN 1 ELSE 0
    PROVE  SumFunctionOnSet(f, S) = Cardinality(Q)
  <1> DEFINE Good(T) == SumFunctionOnSet(f, T) = Cardinality(T \cap Q)
             C == {T \in SUBSET S : ~Good(T)}
  <1>1. SUFFICES ASSUME C # {}
                 PROVE  FALSE
    <2>1. S \in SUBSET S /\ S \cap Q = Q
      OBVIOUS
    <2>2. Good(S)
      BY <1>1, <2>1
    <2> QED
      BY <2>1, <2>2
  <1>2. PICK T \in C : \A U \in C : U \subseteq T => U = T
    <2> HIDE DEF C
    <2>1. C \subseteq SUBSET S
      BY DEF C
    <2> QED
      BY <1>1, <2>1, MinimalSubset
  <1>3. T \in SUBSET S /\ ~Good(T)
    OBVIOUS
  <1>4. T # {}
    <2> SUFFICES ASSUME T = {}
                 PROVE  FALSE
      OBVIOUS
    <2>1. T \cap Q = {}
      OBVIOUS
    <2> QED
      BY <2>1, <1>3, SumOfEmpty, FS_EmptySet
  <1>5. PICK z \in T : TRUE
    BY <1>4
  <1> DEFINE U == T \ {z}
  <1>6. Good(U)
    <2>1. U \in SUBSET S /\ U \subseteq T /\ U # T
      BY <1>3, <1>5
    <2> QED
      BY <1>2, <2>1
  <1>7. /\ IsFiniteSet(U) /\ z \notin U /\ T = U \cup {z} /\ z \in S /\ U \subseteq S
    <2>1. IsFiniteSet(T)
      BY <1>3, FS_Subset
    <2>2. IsFiniteSet(U)
      BY <2>1, FS_RemoveElement
    <2> QED
      BY <2>2, <1>3, <1>5
  <1> HIDE DEF U
  <1>8. IsFiniteSet(U \cap Q) /\ Cardinality(U \cap Q) \in Nat
    <2>1. U \cap Q \in SUBSET U
      OBVIOUS
    <2> QED
      BY <2>1, <1>7, FS_Subset, FS_CardinalityType
  <1>9. SumFunctionOnSet(f, T) = f[z] + SumFunctionOnSet(f, U)
    <2>1. \A x \in U \cup {z} : f[x] \in Int
      BY <1>7
    <2> QED
      BY <2>1, <1>7, SumAdd
  <1>10. CASE z \in Q
    <2>1. T \cap Q = (U \cap Q) \cup {z} /\ z \notin U \cap Q /\ f[z] = 1
      BY <1>7, <1>10
    <2>2. Cardinality(T \cap Q) = Cardinality(U \cap Q) + 1
      BY <2>1, <1>8, FS_AddElement
    <2> QED
      BY <2>1, <2>2, <1>3, <1>6, <1>8, <1>9
  <1>11. CASE z \notin Q
    <2>1. T \cap Q = U \cap Q /\ f[z] = 0
      BY <1>7, <1>11
    <2> QED
      BY <2>1, <1>3, <1>6, <1>8, <1>9
  <1> QED
    BY <1>10, <1>11
-----------------------------------------------------------------------------
(* The reports add up *)

\* The rows about p, and what a row counts in a column of a report
Of(d, filter, type, p) == {i \in Rows(d, filter, {type}) : d.events[i].resource = p}
One == [row \in EventRow |-> 1]
Size == [row \in EventRow |-> bytes(row.result)]
Success == [row \in EventRow |-> IF row.errno_value = 0 THEN 1 ELSE 0]
Failure == [row \in EventRow |-> IF row.errno_value = 0 THEN 0 ELSE 1]
Weigh(d, w) == [i \in 1 .. Len(d.events) |-> w[d.events[i]]]
Overall(d, type, p, w) == SumFunctionOnSet(Weigh(d, w), Of(d, All, type, p))

\* The aggregated tables have the sums over the events; no row is that of nothing.
FilesOK(d) ==
    \A p : LET row == Row(d.file_activity, p, NoCalls)
           IN  /\ row.read_calls = Overall(d, "file_read", p, One)
               /\ row.bytes_read = Overall(d, "file_read", p, Size)
               /\ row.write_calls = Overall(d, "file_write", p, One)
               /\ row.bytes_written = Overall(d, "file_write", p, Size)
ConnectsOK(d) ==
    \A p : LET row == Row(d.network_activity, p, NoConnects)
           IN  /\ row.connect_count = Overall(d, "net_connect", p, One)
               /\ row.success_count = Overall(d, "net_connect", p, Success)
               /\ row.failure_count = Overall(d, "net_connect", p, Failure)
               /\ p \in DOMAIN d.network_activity => row.connect_count > 0

LEMMA Weights ==
    /\ One \in [EventRow -> Int] /\ Size \in [EventRow -> Int]
    /\ Success \in [EventRow -> Int] /\ Failure \in [EventRow -> Int]
  <1>1. \A row \in EventRow : row.result \in Int
    BY DEF EventRow
  <1>2. \A row \in EventRow : bytes(row.result) \in Int
    BY <1>1 DEF bytes
  <1> QED
    BY <1>2 DEF One, Size, Success, Failure

\* Every row is about one thing, and of one command or none.
LEMMA RowsOf ==
    ASSUME NEW d, IsTables(d), NEW filter, NEW type, NEW p
    PROVE  /\ Of(d, filter, type, p) =
                {i \in 1 .. Len(d.events) :
                   /\ d.events[i].type = type /\ d.events[i].command_id \in filter
                   /\ d.events[i].resource = p}
           /\ IsFiniteSet(Of(d, filter, type, p))
           /\ \A i \in Of(d, filter, type, p) : i \in 1 .. Len(d.events) /\ d.events[i] \in EventRow
  <1>1. /\ Len(d.events) \in Nat /\ DOMAIN d.events = 1 .. Len(d.events)
        /\ \A i \in 1 .. Len(d.events) : d.events[i] \in EventRow
    BY DEF IsTables
  <1>2. Of(d, filter, type, p) =
          {i \in 1 .. Len(d.events) :
             /\ d.events[i].type = type /\ d.events[i].command_id \in filter
             /\ d.events[i].resource = p}
    BY <1>1 DEF Of, Rows
  <1>3. IsFiniteSet(1 .. Len(d.events))
    BY <1>1, FS_Interval
  <1>4. Of(d, filter, type, p) \subseteq 1 .. Len(d.events)
    BY <1>2
  <1>5. IsFiniteSet(Of(d, filter, type, p))
    BY <1>3, <1>4, FS_Subset
  <1> QED
    BY <1>1, <1>2, <1>4, <1>5

LEMMA WeighRows ==
    ASSUME NEW d, IsTables(d), NEW w \in [EventRow -> Int], NEW i \in 1 .. Len(d.events)
    PROVE  Weigh(d, w)[i] = w[d.events[i]] /\ Weigh(d, w)[i] \in Int
  <1>1. d.events[i] \in EventRow
    BY DEF IsTables
  <1> QED
    BY <1>1 DEF Weigh

\* What an event adds to the sums
LEMMA OverallStep ==
    ASSUME NEW d, IsTables(d), NEW e \in Event, NEW result, NEW r, Emits(d, e, result, r),
           NEW type, NEW p, NEW w \in [EventRow -> Int]
    PROVE  /\ Overall(d, type, p, w) \in Int
           /\ Overall(r, type, p, w) =
                IF e.type = type /\ e.resource = p
                THEN Overall(d, type, p, w) + w[r.events[Len(d.events) + 1]]
                ELSE Overall(d, type, p, w)
  <1> DEFINE n == Len(d.events)
             S == Of(d, All, type, p)
             T == Of(r, All, type, p)
             f == Weigh(d, w)
             g == Weigh(r, w)
  <1>1. /\ n \in Nat /\ Len(r.events) = n + 1 /\ 1 .. (n + 1) = (1 .. n) \cup {n + 1}
        /\ n + 1 \notin 1 .. n /\ IsTables(r)
    BY DEF Emits, Logged, IsTables
  <1>2. \A i \in 1 .. n : r.events[i] = d.events[i]
    BY DEF Emits, Logged
  <1>3. /\ r.events[n + 1].type = e.type /\ r.events[n + 1].resource = e.resource
        /\ r.events[n + 1].command_id = e.command_id /\ e.command_id \in All
    BY DEF Emits, Logged, Event, All
  <1>4. /\ S = {i \in 1 .. n : /\ d.events[i].type = type /\ d.events[i].command_id \in All
                               /\ d.events[i].resource = p}
        /\ IsFiniteSet(S)
    BY RowsOf
  <1>5. T = {i \in 1 .. (n + 1) : /\ r.events[i].type = type /\ r.events[i].command_id \in All
                                  /\ r.events[i].resource = p}
    BY <1>1, RowsOf
  <1>6. /\ \A i \in 1 .. n : f[i] = w[d.events[i]] /\ f[i] \in Int
        /\ \A i \in 1 .. (n + 1) : g[i] = w[r.events[i]] /\ g[i] \in Int
    BY <1>1, WeighRows
  <1>7. /\ Overall(d, type, p, w) = SumFunctionOnSet(f, S)
        /\ Overall(r, type, p, w) = SumFunctionOnSet(g, T)
    BY DEF Overall
  <1> HIDE DEF n, S, T, f, g
  <1>8. /\ \A i \in S : i \in 1 .. n /\ f[i] \in Int /\ g[i] \in Int /\ f[i] = g[i]
        /\ n + 1 \notin S
    <2>1. \A i \in S : i \in 1 .. n
      BY <1>4
    <2>2. \A i \in 1 .. n : i \in 1 .. (n + 1)
      BY <1>1
    <2>3. \A i \in 1 .. n : f[i] \in Int /\ g[i] \in Int /\ f[i] = g[i]
      BY <2>2, <1>2, <1>6
    <2> QED
      BY <2>1, <2>3, <1>1
  <1>9. SumFunctionOnSet(f, S) = SumFunctionOnSet(g, S) /\ SumFunctionOnSet(g, S) \in Int
    BY <1>4, <1>8, SumOfEqual, SumType
  <1>10. CASE e.type = type /\ e.resource = p
    <2>1. T = S \cup {n + 1}
      BY <1>1, <1>2, <1>3, <1>4, <1>5, <1>10
    <2>2. g[n + 1] = w[r.events[n + 1]] /\ g[n + 1] \in Int
      BY <1>1, <1>6
    <2>3. \A i \in S \cup {n + 1} : g[i] \in Int
      BY <2>2, <1>8
    <2>4. SumFunctionOnSet(g, S \cup {n + 1}) = g[n + 1] + SumFunctionOnSet(g, S)
      BY <2>3, <1>4, <1>8, SumAdd
    <2>5. Overall(r, type, p, w) = Overall(d, type, p, w) + w[r.events[n + 1]]
      BY <2>1, <2>2, <2>4, <1>7, <1>9
    <2> QED
      BY <2>5, <1>7, <1>9, <1>10 DEF n
  <1>11. CASE ~(e.type = type /\ e.resource = p)
    <2>1. T = S
      BY <1>1, <1>2, <1>3, <1>4, <1>5, <1>11
    <2> QED
      BY <2>1, <1>7, <1>9, <1>11
  <1> QED
    BY <1>10, <1>11

\* What the row that emit has added counts
LEMMA WeightsOfNew ==
    ASSUME NEW d, IsTables(d), NEW e \in Event, NEW result, NEW r, Emits(d, e, result, r)
    PROVE  LET new == r.events[Len(d.events) + 1]
           IN  /\ One[new] = 1 /\ Size[new] = bytes(result)
               /\ Success[new] = (IF errno_value(result) = 0 THEN 1 ELSE 0)
               /\ Failure[new] = (IF errno_value(result) = 0 THEN 0 ELSE 1)
  <1> DEFINE new == r.events[Len(d.events) + 1]
  <1>1. new \in EventRow
    <2>1. Len(d.events) \in Nat /\ Len(r.events) = Len(d.events) + 1 /\ r.events \in Seq(EventRow)
      BY DEF Emits, Logged, IsTables
    <2> QED
      BY <2>1
  <1>2. new.result = result /\ new.errno_value = errno_value(result)
    BY DEF Emits, Logged
  <1> HIDE DEF new
  <1>3. /\ One[new] = 1 /\ Size[new] = bytes(new.result)
        /\ Success[new] = (IF new.errno_value = 0 THEN 1 ELSE 0)
        /\ Failure[new] = (IF new.errno_value = 0 THEN 0 ELSE 1)
    BY <1>1 DEF One, Size, Success, Failure
  <1> QED
    BY <1>2, <1>3 DEF new

LEMMA FilesStep ==
    ASSUME NEW d, IsTables(d), NEW e \in Event, NEW result, NEW r, Emits(d, e, result, r),
           FilesOK(d)
    PROVE  FilesOK(r)
  <1> SUFFICES ASSUME NEW p
               PROVE  LET row == Row(r.file_activity, p, NoCalls)
                      IN  /\ row.read_calls = Overall(r, "file_read", p, One)
                          /\ row.bytes_read = Overall(r, "file_read", p, Size)
                          /\ row.write_calls = Overall(r, "file_write", p, One)
                          /\ row.bytes_written = Overall(r, "file_write", p, Size)
    BY DEF FilesOK
  <1> DEFINE old == Row(d.file_activity, p, NoCalls)
             row == Row(r.file_activity, p, NoCalls)
  <1>1. /\ old.read_calls = Overall(d, "file_read", p, One)
        /\ old.bytes_read = Overall(d, "file_read", p, Size)
        /\ old.write_calls = Overall(d, "file_write", p, One)
        /\ old.bytes_written = Overall(d, "file_write", p, Size)
    BY DEF FilesOK
  <1>2. FilesAfter(d, e, result, r)
    BY DEF Emits
  <1> DEFINE new == r.events[Len(d.events) + 1]
  <1>3. One[new] = 1 /\ Size[new] = bytes(result)
    BY WeightsOfNew
  <1>4. ASSUME NEW type, NEW w \in [EventRow -> Int]
        PROVE  Overall(r, type, p, w) = IF e.type = type /\ e.resource = p
                                        THEN Overall(d, type, p, w) + w[new]
                                        ELSE Overall(d, type, p, w)
    BY OverallStep
  <1>5. /\ e.type = "file_read" /\ e.resource = p =>
             /\ Overall(r, "file_read", p, One) = Overall(d, "file_read", p, One) + 1
             /\ Overall(r, "file_read", p, Size) = Overall(d, "file_read", p, Size) + bytes(result)
        /\ ~(e.type = "file_read" /\ e.resource = p) =>
             /\ Overall(r, "file_read", p, One) = Overall(d, "file_read", p, One)
             /\ Overall(r, "file_read", p, Size) = Overall(d, "file_read", p, Size)
        /\ e.type = "file_write" /\ e.resource = p =>
             /\ Overall(r, "file_write", p, One) = Overall(d, "file_write", p, One) + 1
             /\ Overall(r, "file_write", p, Size) = Overall(d, "file_write", p, Size) + bytes(result)
        /\ ~(e.type = "file_write" /\ e.resource = p) =>
             /\ Overall(r, "file_write", p, One) = Overall(d, "file_write", p, One)
             /\ Overall(r, "file_write", p, Size) = Overall(d, "file_write", p, Size)
    BY <1>3, <1>4, Weights
  <1> HIDE DEF new
  <1>6. CASE e.type \in {"file_read", "file_write"} /\ p = e.resource
    <2>1. row = r.file_activity[p]
      BY <1>2, <1>6 DEF FilesAfter, Row
    <2> HIDE DEF old, row
    <2>2. IF e.type = "file_read"
          THEN /\ row.read_calls = old.read_calls + 1
               /\ row.bytes_read = old.bytes_read + bytes(result)
               /\ row.write_calls = old.write_calls /\ row.bytes_written = old.bytes_written
          ELSE /\ row.write_calls = old.write_calls + 1
               /\ row.bytes_written = old.bytes_written + bytes(result)
               /\ row.read_calls = old.read_calls /\ row.bytes_read = old.bytes_read
      BY <2>1, <1>2, <1>6 DEF FilesAfter, old
    <2>3. CASE e.type = "file_read"
      BY <2>2, <2>3, <1>1, <1>5, <1>6 DEF row
    <2>4. CASE e.type = "file_write"
      BY <2>2, <2>4, <1>1, <1>5, <1>6 DEF row
    <2> QED
      BY <2>3, <2>4, <1>6
  <1>7. CASE ~(e.type \in {"file_read", "file_write"} /\ p = e.resource)
    <2>1. row = old
      BY <1>2, <1>7 DEF FilesAfter, Row
    <2> HIDE DEF old, row
    <2> QED
      BY <2>1, <1>1, <1>5, <1>7 DEF row
  <1> QED
    BY <1>6, <1>7

LEMMA ConnectsStep ==
    ASSUME NEW d, IsTables(d), NEW e \in Event, NEW result, NEW r, Emits(d, e, result, r),
           ConnectsOK(d)
    PROVE  ConnectsOK(r)
  <1> SUFFICES ASSUME NEW p
               PROVE  LET row == Row(r.network_activity, p, NoConnects)
                      IN  /\ row.connect_count = Overall(r, "net_connect", p, One)
                          /\ row.success_count = Overall(r, "net_connect", p, Success)
                          /\ row.failure_count = Overall(r, "net_connect", p, Failure)
                          /\ p \in DOMAIN r.network_activity => row.connect_count > 0
    BY DEF ConnectsOK
  <1> DEFINE old == Row(d.network_activity, p, NoConnects)
             row == Row(r.network_activity, p, NoConnects)
             new == r.events[Len(d.events) + 1]
  <1>1. /\ old.connect_count = Overall(d, "net_connect", p, One)
        /\ old.success_count = Overall(d, "net_connect", p, Success)
        /\ old.failure_count = Overall(d, "net_connect", p, Failure)
        /\ p \in DOMAIN d.network_activity => old.connect_count > 0
    BY DEF ConnectsOK
  <1>2. NetworkAfter(d, e, result, r)
    BY DEF Emits
  <1>3. /\ One[new] = 1
        /\ Success[new] = (IF errno_value(result) = 0 THEN 1 ELSE 0)
        /\ Failure[new] = (IF errno_value(result) = 0 THEN 0 ELSE 1)
    BY WeightsOfNew
  <1>4. ASSUME NEW w \in [EventRow -> Int]
        PROVE  Overall(r, "net_connect", p, w) = IF e.type = "net_connect" /\ e.resource = p
                                                 THEN Overall(d, "net_connect", p, w) + w[new]
                                                 ELSE Overall(d, "net_connect", p, w)
    BY OverallStep
  <1> HIDE DEF new
  <1>5. CASE e.type = "net_connect" /\ p = e.resource
    <2>1. row = r.network_activity[p]
      BY <1>2, <1>5 DEF NetworkAfter, Row
    <2>2. old \in NetworkRow
      <3>1. NoConnects \in NetworkRow
        BY DEF NetworkRow, NoConnects
      <3>2. IsTable(d.network_activity, Thing, NetworkRow)
        BY DEF IsTables
      <3> QED
        BY <3>1, <3>2, RowTypes
    <2> HIDE DEF old, row
    <2>3. /\ row.connect_count = old.connect_count + 1
          /\ row.success_count = old.success_count + (IF errno_value(result) = 0 THEN 1 ELSE 0)
          /\ row.failure_count = old.failure_count + (IF errno_value(result) = 0 THEN 0 ELSE 1)
      BY <2>1, <1>2, <1>5 DEF NetworkAfter, old
    <2>4. /\ Overall(r, "net_connect", p, One) = Overall(d, "net_connect", p, One) + One[new]
          /\ Overall(r, "net_connect", p, Success) = Overall(d, "net_connect", p, Success) + Success[new]
          /\ Overall(r, "net_connect", p, Failure) = Overall(d, "net_connect", p, Failure) + Failure[new]
      BY <1>4, <1>5, Weights
    <2>5. /\ row.connect_count = Overall(r, "net_connect", p, One)
          /\ row.success_count = Overall(r, "net_connect", p, Success)
          /\ row.failure_count = Overall(r, "net_connect", p, Failure)
      BY <2>3, <2>4, <1>1, <1>3
    <2>6. row.connect_count > 0
      BY <2>2, <2>3 DEF NetworkRow
    <2> QED
      BY <2>5, <2>6 DEF row
  <1>6. CASE ~(e.type = "net_connect" /\ p = e.resource)
    <2>1. row = old /\ (p \in DOMAIN r.network_activity => p \in DOMAIN d.network_activity)
      BY <1>2, <1>6 DEF NetworkAfter, Row
    <2> HIDE DEF old, row
    <2>2. /\ Overall(r, "net_connect", p, One) = Overall(d, "net_connect", p, One)
          /\ Overall(r, "net_connect", p, Success) = Overall(d, "net_connect", p, Success)
          /\ Overall(r, "net_connect", p, Failure) = Overall(d, "net_connect", p, Failure)
      BY <1>4, <1>6, Weights
    <2> QED
      BY <2>1, <2>2, <1>1 DEF row
  <1> QED
    BY <1>5, <1>6

\* An empty capsule, and one that only differs in the exit of the run
LEMMA CountsEmpty ==
    ASSUME NEW d, IsTables(d), d.events = << >>, d.file_activity = << >>,
           d.network_activity = << >>
    PROVE  FilesOK(d) /\ ConnectsOK(d)
  <1>1. Len(<< >>) = 0 /\ DOMAIN << >> = {}
    OBVIOUS
  <1>2. \A type, p : Of(d, All, type, p) = {}
    BY <1>1, RowsOf
  <1>3. \A type, p, w : Overall(d, type, p, w) = 0
    BY <1>2, SumOfEmpty DEF Overall
  <1>4. /\ \A p : Row(d.file_activity, p, NoCalls) = NoCalls
        /\ \A p : Row(d.network_activity, p, NoConnects) = NoConnects
    BY <1>1 DEF Row
  <1> QED
    BY <1>1, <1>3, <1>4 DEF FilesOK, ConnectsOK, NoCalls, NoConnects

LEMMA CountsSame ==
    ASSUME NEW d, NEW r, r.events = d.events, r.file_activity = d.file_activity,
           r.network_activity = d.network_activity, FilesOK(d), ConnectsOK(d)
    PROVE  FilesOK(r) /\ ConnectsOK(r)
  <1>1. \A type, p, w : Overall(r, type, p, w) = Overall(d, type, p, w)
    BY DEF Overall, Weigh, Of, Rows
  <1> QED
    BY <1>1 DEF FilesOK, ConnectsOK

LEMMA CountsInit ==
    ASSUME WInit
    PROVE  FilesOK(db) /\ ConnectsOK(db)
  <1>1. FilesOK(Begun) /\ ConnectsOK(Begun) /\ IsTables(Begun)
    <2>1. Begun.events = << >> /\ Begun.file_activity = << >> /\ Begun.network_activity = << >>
      BY Zenon DEF Begun, Schema
    <2> QED
      BY <2>1, EmptyTables, CountsEmpty
  <1>2. CASE emitted = << >>
    BY <1>1, <1>2 DEF WInit, Opened
  <1>3. CASE emitted \in Starts(now)
    <2>1. PICK e \in Event : Emits(Begun, e, 0, db)
      BY <1>3, OpenedWithStart
    <2> QED
      BY <2>1, <1>1, FilesStep, ConnectsStep
  <1> QED
    BY <1>2, <1>3 DEF WInit

LEMMA CountsNext ==
    ASSUME WInv, FilesOK(db), ConnectsOK(db), [WNext]_wvars
    PROVE  FilesOK(db') /\ ConnectsOK(db')
  <1>1. IsTables(db)
    BY DEF WInv
  <1>2. ASSUME NEW ts \in Time, RecordActivity(ts) \/ RecordProcess(ts)
        PROVE  FilesOK(db') /\ ConnectsOK(db')
    <2>1. PICK e, result : PlainEvent(e, ts) /\ Emits(db, e, result, db')
      BY <1>2, Activities
    <2>2. e \in Event
      BY <2>1 DEF PlainEvent
    <2> QED
      BY <2>1, <2>2, <1>1, FilesStep, ConnectsStep
  <1>3. ASSUME NEW ts \in Time, RecordBegin(ts)
        PROVE  FilesOK(db') /\ ConnectsOK(db')
    <2>1. PICK e \in Event : Emits(db, e, 0, db')
      BY <1>3, Beginnings
    <2> QED
      BY <2>1, <1>1, FilesStep, ConnectsStep
  <1>4. ASSUME NEW ts \in Time, RecordEnd(ts)
        PROVE  FilesOK(db') /\ ConnectsOK(db')
    <2>1. PICK mid : \E e \in Event :
            /\ \/ mid = db
               \/ \E x \in Event : Emits(db, x, 0, mid)
            /\ Emits(mid, e, 0, db')
      BY <1>4, Endings
    <2>2. FilesOK(mid) /\ ConnectsOK(mid) /\ IsTables(mid)
      <3>1. CASE mid = db
        BY <3>1, <1>1
      <3>2. ASSUME NEW x \in Event, Emits(db, x, 0, mid)
            PROVE  FilesOK(mid) /\ ConnectsOK(mid) /\ IsTables(mid)
        BY <3>2, <1>1, FilesStep, ConnectsStep, EventsCount
      <3> QED
        BY <2>1, <3>1, <3>2
    <2> QED
      BY <2>1, <2>2, FilesStep, ConnectsStep
  <1>5. ASSUME NEW exit_code \in {0, 1}, Finish(exit_code)
        PROVE  FilesOK(db') /\ ConnectsOK(db')
    <2>1. db' = [db EXCEPT !.runs = [db.runs EXCEPT !.exit_code = exit_code]]
      BY <1>5 DEF Finish
    <2>2. /\ db'.events = db.events /\ db'.network_activity = db.network_activity
          /\ db'.file_activity = db.file_activity
      BY <2>1, <1>1 DEF IsTables
    <2> QED
      BY <2>2, CountsSame
  <1>6. FilesOK(Begun) /\ ConnectsOK(Begun) /\ FilesOK(Schema) /\ ConnectsOK(Schema)
    <2>1. /\ Begun.events = << >> /\ Begun.file_activity = << >> /\ Begun.network_activity = << >>
          /\ Schema.events = << >> /\ Schema.file_activity = << >> /\ Schema.network_activity = << >>
      BY Zenon DEF Begun, Schema
    <2> QED
      BY <2>1, EmptyTables, CountsEmpty
  <1>7. CASE Fail
    BY <1>6, <1>7 DEF Fail, WInv, Committed
  <1>8. CASE Again
    BY <1>6, <1>8 DEF Again, Opened
  <1>9. CASE UNCHANGED wvars
    BY <1>9 DEF wvars, capsule
  <1> QED
    BY <1>2, <1>3, <1>4, <1>5, <1>7, <1>8, <1>9 DEF WNext

\* The rows about a thing are those of the commands, and of none.
LEMMA RowsOfCommands ==
    ASSUME NEW d, IsTables(d), NEW type, NEW p, NEW i
    PROVE  i \in Of(d, All, type, p) <=> \E c \in All : i \in Of(d, {c}, type, p)
  <1>1. \A filter : i \in Of(d, filter, type, p) <=>
                      /\ i \in 1 .. Len(d.events) /\ d.events[i].type = type
                      /\ d.events[i].command_id \in filter /\ d.events[i].resource = p
    BY RowsOf
  <1> QED
    BY <1>1

OfEach(d, type, p, w) ==
    [c \in All |-> SumFunctionOnSet(Weigh(d, w), Of(d, {c}, type, p))]

LEMMA OverallIsTotal ==
    ASSUME NEW d, IsTables(d), NEW type, NEW p, NEW w \in [EventRow -> Int]
    PROVE  Overall(d, type, p, w) = SumFunctionOnSet(OfEach(d, type, p, w), All)
  <1> DEFINE part == [c \in All |-> Of(d, {c}, type, p)]
             f == Weigh(d, w)
  <1>1. IsFiniteSet(All)
    <2>1. IsFiniteSet(CommandId)
      BY CapsuleAssumption, FS_Interval DEF CommandId
    <2> QED
      BY <2>1, FS_AddElement DEF All
  <1>2. \A c \in All : IsFiniteSet(part[c]) /\ \A i \in part[c] : f[i] \in Int
    <2> SUFFICES ASSUME NEW c \in All
                 PROVE  IsFiniteSet(part[c]) /\ \A i \in part[c] : f[i] \in Int
      OBVIOUS
    <2>1. part[c] = Of(d, {c}, type, p)
      OBVIOUS
    <2>2. IsFiniteSet(part[c]) /\ \A i \in part[c] : i \in 1 .. Len(d.events)
      BY <2>1, RowsOf
    <2> HIDE DEF part
    <2> QED
      BY <2>2, WeighRows
  <1>3. \A j, k \in All : j # k => part[j] \cap part[k] = {}
    BY RowsOf
  <1>4. UNION {part[c] : c \in All} = Of(d, All, type, p)
    <2>1. \A i : i \in UNION {part[c] : c \in All} <=> \E c \in All : i \in Of(d, {c}, type, p)
      OBVIOUS
    <2>2. \A i : i \in Of(d, All, type, p) <=> \E c \in All : i \in Of(d, {c}, type, p)
      BY RowsOfCommands
    <2> HIDE DEF part
    <2> QED
      BY <2>1, <2>2
  <1>5. SumFunctionOnSet(f, UNION {part[c] : c \in All}) =
          SumFunctionOnSet([c \in All |-> SumFunctionOnSet(f, part[c])], All)
    <2> HIDE DEF part, f
    <2> QED
      BY <1>1, <1>2, <1>3, SumOfParts
  <1>6. [c \in All |-> SumFunctionOnSet(f, part[c])] =
          [c \in All |-> SumFunctionOnSet(f, Of(d, {c}, type, p))]
    OBVIOUS
  <1> QED
    BY <1>4, <1>5, <1>6 DEF Overall, OfEach

\* A column of the reports has the sums over the rows of the commands.
Column(d, reports, type, p, field, w) ==
    /\ \A c \in All : p \in DOMAIN reports[c] <=> Of(d, {c}, type, p) # {}
    /\ \A c \in All : p \in DOMAIN reports[c] =>
         reports[c][p][field] = SumFunctionOnSet(Weigh(d, w), Of(d, {c}, type, p))

LEMMA TotalIs ==
    ASSUME NEW d, IsTables(d), NEW type, NEW p, NEW w \in [EventRow -> Int],
           NEW reports, NEW field, Column(d, reports, type, p, field, w)
    PROVE  Total(reports, p, field) = Overall(d, type, p, w)
  <1> DEFINE x == [c \in All |-> IF p \in DOMAIN reports[c] THEN reports[c][p][field] ELSE 0]
             y == OfEach(d, type, p, w)
  <1>1. \A c \in All : x[c] = y[c]
    <2> SUFFICES ASSUME NEW c \in All
                 PROVE  x[c] = y[c]
      OBVIOUS
    <2>1. CASE p \in DOMAIN reports[c]
      BY <2>1 DEF OfEach, Column
    <2>2. CASE p \notin DOMAIN reports[c]
      <3>1. Of(d, {c}, type, p) = {}
        BY <2>2 DEF Column
      <3>2. y[c] = 0
        BY <3>1, SumOfEmpty DEF OfEach
      <3> QED
        BY <2>2, <3>2
    <2> QED
      BY <2>1, <2>2
  <1>2. x = y
    BY <1>1 DEF OfEach
  <1>3. Total(reports, p, field) = SumFunctionOnSet(x, All)
    BY DEF Total, SumFunction
  <1>4. Overall(d, type, p, w) = SumFunctionOnSet(y, All)
    BY OverallIsTotal
  <1> HIDE DEF x, y
  <1> QED
    BY <1>2, <1>3, <1>4

\* A row is listed when there are events about it.
LEMMA OverallOne ==
    ASSUME NEW d, IsTables(d), NEW type, NEW p
    PROVE  /\ Overall(d, type, p, One) > 0 <=> Of(d, All, type, p) # {}
           /\ Of(d, All, type, p) # {} <=> \E c \in All : Of(d, {c}, type, p) # {}
  <1> DEFINE S == Of(d, All, type, p)
  <1>1. IsFiniteSet(S) /\ \A i \in S : i \in 1 .. Len(d.events) /\ d.events[i] \in EventRow
    BY RowsOf
  <1> HIDE DEF S
  <1>2. \A i \in S : Weigh(d, One)[i] = IF i \in S THEN 1 ELSE 0
    BY <1>1 DEF Weigh, One
  <1>3. SumFunctionOnSet(Weigh(d, One), S) = Cardinality(S)
    BY <1>1, <1>2, SumOfOnes
  <1>4. Cardinality(S) > 0 <=> S # {}
    BY <1>1, FS_EmptySet, FS_CardinalityType
  <1>5. \A i : i \in Of(d, All, type, p) <=> \E c \in All : i \in Of(d, {c}, type, p)
    BY RowsOfCommands
  <1> QED
    BY <1>3, <1>4, <1>5 DEF Overall, S

\* The numbers of a report by command are sums over its rows.
LEMMA GroupedFiles ==
    ASSUME NEW d, IsTables(d), NEW filter, NEW type,
           NEW report, report = GroupFiles(d, filter, type)
    PROVE  \A p : p \in DOMAIN report <=> Of(d, filter, type, p) # {}
  <1>1. DOMAIN report = Resources(d, Rows(d, filter, {type}))
    BY DEF GroupFiles
  <1>2. \A p : p \in Resources(d, Rows(d, filter, {type})) <=> Of(d, filter, type, p) # {}
    BY DEF Resources, Of
  <1> QED
    BY <1>1, <1>2

LEMMA FileNumbers ==
    ASSUME NEW d, IsTables(d), NEW filter, NEW type,
           NEW report, report = GroupFiles(d, filter, type), NEW p \in DOMAIN report
    PROVE  /\ report[p].calls = SumFunctionOnSet(Weigh(d, One), Of(d, filter, type, p))
           /\ report[p].bytes = SumFunctionOnSet(Weigh(d, Size), Of(d, filter, type, p))
  <1>1. DOMAIN report = Resources(d, Rows(d, filter, {type}))
    BY DEF GroupFiles
  <1> DEFINE S == Of(d, filter, type, p)
             f == [i \in S |-> bytes(d.events[i].result)]
  <1>2. report[p].calls = Cardinality(S) /\ report[p].bytes = SumFunction(f)
    BY <1>1 DEF GroupFiles, Of
  <1>3. IsFiniteSet(S) /\ \A i \in S : i \in 1 .. Len(d.events) /\ d.events[i] \in EventRow
    BY RowsOf
  <1>4. \A i \in S : f[i] = bytes(d.events[i].result)
    OBVIOUS
  <1>5. SumFunction(f) = SumFunctionOnSet(f, S)
    BY DEF SumFunction
  <1> HIDE DEF S, f
  <1>6. \A i \in S : Weigh(d, One)[i] = IF i \in S THEN 1 ELSE 0
    BY <1>3 DEF Weigh, One
  <1>7. \A i \in S : f[i] = Weigh(d, Size)[i]
    BY <1>3, <1>4 DEF Weigh, Size
  <1>8. SumFunctionOnSet(Weigh(d, One), S) = Cardinality(S)
    BY <1>3, <1>6, SumOfOnes
  <1>9. SumFunctionOnSet(f, S) = SumFunctionOnSet(Weigh(d, Size), S)
    BY <1>3, <1>7, SumOfEqual
  <1> QED
    BY <1>2, <1>5, <1>8, <1>9 DEF S

LEMMA GroupedConnects ==
    ASSUME NEW d, IsTables(d), NEW filter,
           NEW report, report = GroupConnects(d, filter, "net_connect")
    PROVE  \A p : p \in DOMAIN report <=> Of(d, filter, "net_connect", p) # {}
  <1>1. DOMAIN report = Resources(d, Rows(d, filter, {"net_connect"}))
    BY DEF GroupConnects
  <1>2. \A p : p \in Resources(d, Rows(d, filter, {"net_connect"})) <=>
                 Of(d, filter, "net_connect", p) # {}
    BY DEF Resources, Of
  <1> QED
    BY <1>1, <1>2

LEMMA ConnectNumbers ==
    ASSUME NEW d, IsTables(d), NEW filter,
           NEW report, report = GroupConnects(d, filter, "net_connect"), NEW p \in DOMAIN report
    PROVE  /\ report[p].attempts = SumFunctionOnSet(Weigh(d, One), Of(d, filter, "net_connect", p))
           /\ report[p].succeeded = SumFunctionOnSet(Weigh(d, Success), Of(d, filter, "net_connect", p))
           /\ report[p].failed = SumFunctionOnSet(Weigh(d, Failure), Of(d, filter, "net_connect", p))
  <1>1. DOMAIN report = Resources(d, Rows(d, filter, {"net_connect"}))
    BY DEF GroupConnects
  <1> DEFINE S == Of(d, filter, "net_connect", p)
             good == {i \in S : d.events[i].errno_value = 0}
             bad == {i \in S : d.events[i].errno_value > 0}
  <1>2. /\ report[p].attempts = Cardinality(S)
        /\ report[p].succeeded = Cardinality(good)
        /\ report[p].failed = Cardinality(bad)
    BY <1>1 DEF GroupConnects, Of
  <1>3. /\ IsFiniteSet(S) /\ good \subseteq S /\ bad \subseteq S
        /\ \A i \in S : i \in 1 .. Len(d.events) /\ d.events[i] \in EventRow
    BY RowsOf
  <1> HIDE DEF S
  <1>4. \A i \in S : /\ i \in good <=> d.events[i].errno_value = 0
                     /\ i \in bad <=> d.events[i].errno_value # 0
    <2>1. \A i \in S : d.events[i].errno_value \in Nat
      BY <1>3 DEF EventRow
    <2> QED
      BY <2>1
  <1> HIDE DEF good, bad
  <1>5. \A i \in S : /\ Weigh(d, One)[i] = IF i \in S THEN 1 ELSE 0
                     /\ Weigh(d, Success)[i] = IF i \in good THEN 1 ELSE 0
                     /\ Weigh(d, Failure)[i] = IF i \in bad THEN 1 ELSE 0
    BY <1>3, <1>4 DEF Weigh, One, Success, Failure
  <1>6. /\ SumFunctionOnSet(Weigh(d, One), S) = Cardinality(S)
        /\ SumFunctionOnSet(Weigh(d, Success), S) = Cardinality(good)
        /\ SumFunctionOnSet(Weigh(d, Failure), S) = Cardinality(bad)
    BY <1>3, <1>5, SumOfOnes
  <1> QED
    BY <1>2, <1>6 DEF S

\* The report of a file, read from the table, is the sum of those of the commands.
LEMMA FilesSumUp ==
    ASSUME NEW d, IsTables(d), FilesOK(d), NEW type \in {"file_read", "file_write"}
    PROVE  SumsUp(show_files(d, All, type), [c \in All |-> show_files(d, {c}, type)])
  <1> DEFINE a == d.file_activity
             whole == show_files(d, All, type)
             reports == [c \in All |-> show_files(d, {c}, type)]
             calls(p) == IF type = "file_read" THEN a[p].read_calls ELSE a[p].write_calls
             size(p) == IF type = "file_read" THEN a[p].bytes_read ELSE a[p].bytes_written
  <1>1. \A c \in All : reports[c] = GroupFiles(d, {c}, type)
    BY FilterOne DEF show_files
  <1>2. \A p \in DOMAIN a : /\ calls(p) = Overall(d, type, p, One)
                            /\ size(p) = Overall(d, type, p, Size)
    <2> SUFFICES ASSUME NEW p \in DOMAIN a
                 PROVE  /\ calls(p) = Overall(d, type, p, One)
                        /\ size(p) = Overall(d, type, p, Size)
      OBVIOUS
    <2>1. Row(d.file_activity, p, NoCalls) = a[p]
      BY DEF Row
    <2>2. /\ a[p].read_calls = Overall(d, "file_read", p, One)
          /\ a[p].bytes_read = Overall(d, "file_read", p, Size)
          /\ a[p].write_calls = Overall(d, "file_write", p, One)
          /\ a[p].bytes_written = Overall(d, "file_write", p, Size)
      BY <2>1 DEF FilesOK
    <2> QED
      BY <2>2
  <1>3. \A p : Overall(d, type, p, One) > 0 => p \in DOMAIN a
    <2> SUFFICES ASSUME NEW p, p \notin DOMAIN a
                 PROVE  ~(Overall(d, type, p, One) > 0)
      OBVIOUS
    <2>1. Row(d.file_activity, p, NoCalls) = NoCalls
      BY DEF Row
    <2>2. NoCalls.read_calls = 0 /\ NoCalls.write_calls = 0
      BY DEF NoCalls
    <2>3. Overall(d, "file_read", p, One) = 0 /\ Overall(d, "file_write", p, One) = 0
      BY <2>1, <2>2 DEF FilesOK
    <2> QED
      BY <2>3
  <1>4. /\ DOMAIN whole = {p \in DOMAIN a : calls(p) > 0}
        /\ \A p \in DOMAIN whole : whole[p] = [calls |-> calls(p), bytes |-> size(p)]
    BY DEF show_files
  <1> HIDE DEF reports
  <1>5. \A c \in All : \A p : p \in DOMAIN reports[c] <=> Of(d, {c}, type, p) # {}
    BY <1>1, GroupedFiles
  <1>6. \A c \in All : \A p \in DOMAIN reports[c] :
          /\ reports[c][p].calls = SumFunctionOnSet(Weigh(d, One), Of(d, {c}, type, p))
          /\ reports[c][p].bytes = SumFunctionOnSet(Weigh(d, Size), Of(d, {c}, type, p))
    <2> SUFFICES ASSUME NEW c \in All, NEW p \in DOMAIN reports[c]
                 PROVE  /\ reports[c][p].calls = SumFunctionOnSet(Weigh(d, One), Of(d, {c}, type, p))
                        /\ reports[c][p].bytes = SumFunctionOnSet(Weigh(d, Size), Of(d, {c}, type, p))
      OBVIOUS
    <2> DEFINE filter == {c}
    <2>1. reports[c] = GroupFiles(d, filter, type)
      BY <1>1
    <2> HIDE DEF filter
    <2>2. /\ reports[c][p].calls = SumFunctionOnSet(Weigh(d, One), Of(d, filter, type, p))
          /\ reports[c][p].bytes = SumFunctionOnSet(Weigh(d, Size), Of(d, filter, type, p))
      BY <2>1, FileNumbers
    <2> QED
      BY <2>2 DEF filter
  <1> HIDE DEF whole, calls, size, a
  <1>7. DOMAIN whole = UNION {DOMAIN reports[c] : c \in All}
    <2>1. \A p : p \in DOMAIN whole <=> Overall(d, type, p, One) > 0
      BY <1>2, <1>3, <1>4
    <2>2. \A p : Overall(d, type, p, One) > 0 <=> \E c \in All : Of(d, {c}, type, p) # {}
      BY OverallOne
    <2>3. \A p : p \in DOMAIN whole <=> \E c \in All : p \in DOMAIN reports[c]
      BY <2>1, <2>2, <1>5
    <2> QED
      BY <2>3
  <1>8. ASSUME NEW p \in DOMAIN whole
        PROVE  whole[p] = [calls |-> Overall(d, type, p, One), bytes |-> Overall(d, type, p, Size)]
    BY <1>2, <1>4
  <1>9. ASSUME NEW p \in DOMAIN whole, NEW field \in DOMAIN whole[p] \ {"last"}
        PROVE  whole[p][field] = Total(reports, p, field)
    <2>1. \A c \in All : p \in DOMAIN reports[c] <=> Of(d, {c}, type, p) # {}
      BY <1>5
    <2>2. CASE field = "calls"
      <3>1. \A c \in All : p \in DOMAIN reports[c] =>
              reports[c][p][field] = SumFunctionOnSet(Weigh(d, One), Of(d, {c}, type, p))
        BY <2>2, <1>6
      <3>2. Column(d, reports, type, p, field, One)
        BY <2>1, <3>1 DEF Column
      <3>3. Total(reports, p, field) = Overall(d, type, p, One)
        <4>1. One \in [EventRow -> Int]
          BY Weights
        <4> QED
          BY <3>2, <4>1, TotalIs
      <3> QED
        BY <2>2, <3>3, <1>8
    <2>3. CASE field = "bytes"
      <3>1. \A c \in All : p \in DOMAIN reports[c] =>
              reports[c][p][field] = SumFunctionOnSet(Weigh(d, Size), Of(d, {c}, type, p))
        BY <2>3, <1>6
      <3>2. Column(d, reports, type, p, field, Size)
        BY <2>1, <3>1 DEF Column
      <3>3. Total(reports, p, field) = Overall(d, type, p, Size)
        <4>1. Size \in [EventRow -> Int]
          BY Weights
        <4> QED
          BY <3>2, <4>1, TotalIs
      <3> QED
        BY <2>3, <3>3, <1>8
    <2>4. field \in {"calls", "bytes"}
      BY <1>8, <1>9
    <2> QED
      BY <2>2, <2>3, <2>4
  <1>10. SumsUp(whole, reports)
    BY <1>7, <1>9 DEF SumsUp
  <1> QED
    BY <1>10 DEF whole, reports

LEMMA ConnectsSumUp ==
    ASSUME NEW d, IsTables(d), ConnectsOK(d)
    PROVE  SumsUp(show_network(d, All), [c \in All |-> show_network(d, {c})])
  <1> DEFINE a == d.network_activity
             whole == show_network(d, All)
             reports == [c \in All |-> show_network(d, {c})]
             T == "net_connect"
  <1>1. \A c \in All : reports[c] = GroupConnects(d, {c}, T)
    BY FilterOne DEF show_network
  <1>2. \A p \in DOMAIN a : /\ a[p].connect_count = Overall(d, T, p, One)
                            /\ a[p].success_count = Overall(d, T, p, Success)
                            /\ a[p].failure_count = Overall(d, T, p, Failure)
                            /\ a[p].connect_count > 0
    <2> SUFFICES ASSUME NEW p \in DOMAIN a
                 PROVE  /\ a[p].connect_count = Overall(d, T, p, One)
                        /\ a[p].success_count = Overall(d, T, p, Success)
                        /\ a[p].failure_count = Overall(d, T, p, Failure)
                        /\ a[p].connect_count > 0
      OBVIOUS
    <2>1. Row(d.network_activity, p, NoConnects) = a[p]
      BY DEF Row
    <2> QED
      BY <2>1 DEF ConnectsOK
  <1>3. \A p : Overall(d, T, p, One) > 0 => p \in DOMAIN a
    <2> SUFFICES ASSUME NEW p, p \notin DOMAIN a
                 PROVE  ~(Overall(d, T, p, One) > 0)
      OBVIOUS
    <2>1. Row(d.network_activity, p, NoConnects) = NoConnects
      BY DEF Row
    <2>2. NoConnects.connect_count = 0
      BY DEF NoConnects
    <2>3. Overall(d, T, p, One) = 0
      BY <2>1, <2>2 DEF ConnectsOK
    <2> QED
      BY <2>3
  <1>4. /\ DOMAIN whole = DOMAIN a
        /\ \A p \in DOMAIN whole :
             whole[p] = [attempts |-> a[p].connect_count, succeeded |-> a[p].success_count,
                         failed |-> a[p].failure_count, last |-> a[p].last_errno]
    BY DEF show_network
  <1> HIDE DEF reports
  <1>5. \A c \in All : \A p : p \in DOMAIN reports[c] <=> Of(d, {c}, T, p) # {}
    BY <1>1, GroupedConnects
  <1>6. \A c \in All : \A p \in DOMAIN reports[c] :
          /\ reports[c][p].attempts = SumFunctionOnSet(Weigh(d, One), Of(d, {c}, T, p))
          /\ reports[c][p].succeeded = SumFunctionOnSet(Weigh(d, Success), Of(d, {c}, T, p))
          /\ reports[c][p].failed = SumFunctionOnSet(Weigh(d, Failure), Of(d, {c}, T, p))
    <2> SUFFICES ASSUME NEW c \in All, NEW p \in DOMAIN reports[c]
                 PROVE  /\ reports[c][p].attempts = SumFunctionOnSet(Weigh(d, One), Of(d, {c}, T, p))
                        /\ reports[c][p].succeeded = SumFunctionOnSet(Weigh(d, Success), Of(d, {c}, T, p))
                        /\ reports[c][p].failed = SumFunctionOnSet(Weigh(d, Failure), Of(d, {c}, T, p))
      OBVIOUS
    <2> DEFINE filter == {c}
    <2>1. reports[c] = GroupConnects(d, filter, T)
      BY <1>1
    <2> HIDE DEF filter
    <2>2. /\ reports[c][p].attempts = SumFunctionOnSet(Weigh(d, One), Of(d, filter, T, p))
          /\ reports[c][p].succeeded = SumFunctionOnSet(Weigh(d, Success), Of(d, filter, T, p))
          /\ reports[c][p].failed = SumFunctionOnSet(Weigh(d, Failure), Of(d, filter, T, p))
      BY <2>1, ConnectNumbers
    <2> QED
      BY <2>2 DEF filter
  <1> HIDE DEF whole, T, a
  <1>7. DOMAIN whole = UNION {DOMAIN reports[c] : c \in All}
    <2>1. \A p : p \in DOMAIN whole <=> Overall(d, T, p, One) > 0
      BY <1>2, <1>3, <1>4
    <2>2. \A p : Overall(d, T, p, One) > 0 <=> \E c \in All : Of(d, {c}, T, p) # {}
      BY OverallOne
    <2>3. \A p : p \in DOMAIN whole <=> \E c \in All : p \in DOMAIN reports[c]
      BY <2>1, <2>2, <1>5
    <2> QED
      BY <2>3
  <1>8. ASSUME NEW p \in DOMAIN whole
        PROVE  whole[p] = [attempts |-> Overall(d, T, p, One),
                           succeeded |-> Overall(d, T, p, Success),
                           failed |-> Overall(d, T, p, Failure), last |-> a[p].last_errno]
    BY <1>2, <1>4
  <1>9. ASSUME NEW p \in DOMAIN whole, NEW field \in DOMAIN whole[p] \ {"last"}
        PROVE  whole[p][field] = Total(reports, p, field)
    <2>1. \A c \in All : p \in DOMAIN reports[c] <=> Of(d, {c}, T, p) # {}
      BY <1>5
    <2>2. CASE field = "attempts"
      <3>1. \A c \in All : p \in DOMAIN reports[c] =>
              reports[c][p][field] = SumFunctionOnSet(Weigh(d, One), Of(d, {c}, T, p))
        BY <2>2, <1>6
      <3>2. Column(d, reports, T, p, field, One)
        BY <2>1, <3>1 DEF Column
      <3>3. Total(reports, p, field) = Overall(d, T, p, One)
        <4>1. One \in [EventRow -> Int]
          BY Weights
        <4> QED
          BY <3>2, <4>1, TotalIs
      <3> QED
        BY <2>2, <3>3, <1>8
    <2>3. CASE field = "succeeded"
      <3>1. \A c \in All : p \in DOMAIN reports[c] =>
              reports[c][p][field] = SumFunctionOnSet(Weigh(d, Success), Of(d, {c}, T, p))
        BY <2>3, <1>6
      <3>2. Column(d, reports, T, p, field, Success)
        BY <2>1, <3>1 DEF Column
      <3>3. Total(reports, p, field) = Overall(d, T, p, Success)
        <4>1. Success \in [EventRow -> Int]
          BY Weights
        <4> QED
          BY <3>2, <4>1, TotalIs
      <3> QED
        BY <2>3, <3>3, <1>8
    <2>4. CASE field = "failed"
      <3>1. \A c \in All : p \in DOMAIN reports[c] =>
              reports[c][p][field] = SumFunctionOnSet(Weigh(d, Failure), Of(d, {c}, T, p))
        BY <2>4, <1>6
      <3>2. Column(d, reports, T, p, field, Failure)
        BY <2>1, <3>1 DEF Column
      <3>3. Total(reports, p, field) = Overall(d, T, p, Failure)
        <4>1. Failure \in [EventRow -> Int]
          BY Weights
        <4> QED
          BY <3>2, <4>1, TotalIs
      <3> QED
        BY <2>4, <3>3, <1>8
    <2>5. field \in {"attempts", "succeeded", "failed"}
      BY <1>8, <1>9
    <2> QED
      BY <2>2, <2>3, <2>4, <2>5
  <1>10. SumsUp(whole, reports)
    BY <1>7, <1>9 DEF SumsUp
  <1> QED
    BY <1>10 DEF whole, reports

\* The failed connects of an endpoint are grouped by their errors.
LEMMA ErrorsListed ==
    ASSUME NEW d, IsTables(d), ConnectsOK(d), NEW p \in DOMAIN show_network(d, All)
    PROVE  LET errors == show_errors(d, All)
               of == {k \in DOMAIN errors : k.type = "net_connect" /\ k.resource = p}
           IN  show_network(d, All)[p].failed = SumFunctionOnSet(errors, of)
  <1> DEFINE errors == show_errors(d, All)
             of == {k \in DOMAIN errors : k.type = "net_connect" /\ k.resource = p}
             ids == {i \in Rows(d, All, EventType) : d.events[i].errno_value > 0}
             key(i) == [resource |-> d.events[i].resource, type |-> d.events[i].type,
                        errno_value |-> d.events[i].errno_value]
             S == Of(d, All, "net_connect", p)
             bad == {i \in S : d.events[i].errno_value > 0}
             part == [k \in of |-> {i \in ids : key(i) = k}]
             f == Weigh(d, One)
  <1>1. /\ DOMAIN d.events = 1 .. Len(d.events) /\ Len(d.events) \in Nat
        /\ \A i \in 1 .. Len(d.events) : /\ d.events[i] \in EventRow
                                         /\ d.events[i].command_id \in All
                                         /\ d.events[i].type \in EventType
                                         /\ d.events[i].errno_value \in Nat
    <2>1. d.events \in Seq(EventRow)
      BY DEF IsTables
    <2>2. \A row \in EventRow : /\ row.command_id \in All /\ row.type \in EventType
                                /\ row.errno_value \in Nat
      BY DEF EventRow
    <2>3. \A i \in 1 .. Len(d.events) : d.events[i] \in EventRow
      BY <2>1
    <2> QED
      BY <2>1, <2>2, <2>3
  <1>2. ids = {i \in 1 .. Len(d.events) : d.events[i].errno_value > 0}
    BY <1>1 DEF Rows
  <1>3. /\ S = {i \in 1 .. Len(d.events) :
                  /\ d.events[i].type = "net_connect" /\ d.events[i].command_id \in All
                  /\ d.events[i].resource = p}
        /\ IsFiniteSet(S)
    BY RowsOf
  <1>4. bad = {i \in ids : d.events[i].type = "net_connect" /\ d.events[i].resource = p}
    BY <1>1, <1>2, <1>3
  <1>5. /\ DOMAIN errors = {key(i) : i \in ids}
        /\ \A k \in DOMAIN errors : errors[k] = Cardinality({i \in ids : key(i) = k})
    BY DEF show_errors
  <1>6. /\ \A i : key(i).type = d.events[i].type /\ key(i).resource = d.events[i].resource
        /\ \A k \in of : part[k] = {i \in ids : key(i) = k}
    OBVIOUS
  <1>7. of = {key(i) : i \in bad}
    BY <1>4, <1>5, <1>6
  <1> HIDE DEF errors, of, ids, key, S, bad, part, f
  <1>8. IsFiniteSet(bad) /\ bad \subseteq S
    <2>1. bad \subseteq S
      BY DEF bad
    <2> QED
      BY <2>1, <1>3, FS_Subset
  <1>9. IsFiniteSet(of)
    <2> DEFINE g == [i \in bad |-> key(i)]
    <2>1. g \in Surjection(bad, of)
      BY <1>7 DEF Surjection
    <2> HIDE DEF g
    <2> QED
      BY <2>1, <1>8, FS_Surjection
  <1>10. \A k \in of : part[k] \subseteq bad
    BY <1>4, <1>6 DEF of
  <1>11. UNION {part[k] : k \in of} = bad
    <2>1. \A i \in bad : key(i) \in of /\ i \in part[key(i)]
      BY <1>4, <1>6, <1>7
    <2> QED
      BY <2>1, <1>10
  <1>12. \A j, k \in of : j # k => part[j] \cap part[k] = {}
    BY <1>6
  <1>13. \A i \in bad : f[i] = 1
    <2>1. \A i \in bad : i \in 1 .. Len(d.events) /\ d.events[i] \in EventRow
      BY <1>1, <1>2, <1>4
    <2> QED
      BY <2>1 DEF f, Weigh, One
  <1>14. \A k \in of : IsFiniteSet(part[k]) /\ \A i \in part[k] : f[i] \in Int
    <2>1. \A k \in of : IsFiniteSet(part[k])
      BY <1>8, <1>10, FS_Subset
    <2> QED
      BY <2>1, <1>10, <1>13
  <1> DEFINE h == [k \in of |-> SumFunctionOnSet(f, part[k])]
  <1>15. SumFunctionOnSet(f, bad) = SumFunctionOnSet(h, of)
    <2>1. SumFunctionOnSet(f, UNION {part[k] : k \in of}) = SumFunctionOnSet(h, of)
      BY <1>9, <1>12, <1>14, SumOfParts
    <2> QED
      BY <2>1, <1>11
  <1>16. \A k \in of : h[k] = errors[k]
    <2> SUFFICES ASSUME NEW k \in of
                 PROVE  h[k] = errors[k]
      OBVIOUS
    <2>1. h[k] = SumFunctionOnSet(f, part[k]) /\ IsFiniteSet(part[k])
      BY <1>14
    <2>2. \A i \in part[k] : f[i] = IF i \in part[k] THEN 1 ELSE 0
      BY <1>10, <1>13
    <2>3. SumFunctionOnSet(f, part[k]) = Cardinality(part[k])
      BY <2>1, <2>2, SumOfOnes
    <2>4. errors[k] = Cardinality(part[k])
      BY <1>5, <1>6 DEF of
    <2> QED
      BY <2>1, <2>3, <2>4
  <1> HIDE DEF h
  <1>17. SumFunctionOnSet(h, of) = SumFunctionOnSet(errors, of)
    BY <1>9, <1>16, SumOfEqual
  <1>18. SumFunctionOnSet(f, bad) = Cardinality(bad)
    <2>1. \A i \in bad : f[i] = IF i \in bad THEN 1 ELSE 0
      BY <1>13
    <2> QED
      BY <2>1, <1>8, SumOfOnes
  <1>19. Overall(d, "net_connect", p, Failure) = Cardinality(bad)
    <2>1. \A i \in S : i \in bad <=> d.events[i].errno_value # 0
      BY <1>1, <1>3 DEF bad
    <2>2. \A i \in S : i \in 1 .. Len(d.events) /\ d.events[i] \in EventRow
      BY <1>1, <1>3
    <2>3. \A i \in S : Weigh(d, Failure)[i] = IF i \in bad THEN 1 ELSE 0
      BY <2>1, <2>2 DEF Weigh, Failure
    <2> DEFINE g == Weigh(d, Failure)
    <2> HIDE DEF g
    <2>4. /\ IsFiniteSet(S) /\ bad \subseteq S
          /\ \A i \in S : g[i] = IF i \in bad THEN 1 ELSE 0
      BY <2>3, <1>3, <1>8 DEF g
    <2>5. SumFunctionOnSet(g, S) = Cardinality(bad)
      BY <2>4, SumOfOnes
    <2> QED
      BY <2>5 DEF Overall, S, g
  <1>20. show_network(d, All)[p].failed = Overall(d, "net_connect", p, Failure)
    <2>1. /\ p \in DOMAIN d.network_activity
          /\ show_network(d, All)[p].failed = d.network_activity[p].failure_count
      BY DEF show_network
    <2>2. Row(d.network_activity, p, NoConnects) = d.network_activity[p]
      BY <2>1 DEF Row
    <2> QED
      BY <2>1, <2>2 DEF ConnectsOK
  <1>21. show_network(d, All)[p].failed = SumFunctionOnSet(errors, of)
    BY <1>15, <1>17, <1>18, <1>19, <1>20
  <1> QED
    BY <1>21 DEF errors, of

\* The reports of the commands add up to that of the run, and the errors listed for an
\* endpoint to its failed connects, however many events, commands and files there are.
THEOREM ReportsAddUpCorrect == WSpec => []ReportsAddUp
  <1> DEFINE Inv == FilesOK(db) /\ ConnectsOK(db)
  <1>1. WInit => Inv
    BY CountsInit
  <1>2. WInv /\ Inv /\ [WNext]_wvars => Inv'
    BY CountsNext DEF FilesOK, ConnectsOK
  <1>3. WInv /\ Inv => ReportsAddUp
    <2> SUFFICES ASSUME WInv, Inv
                 PROVE  ReportsAddUp
      OBVIOUS
    <2>1. IsTables(db)
      BY DEF WInv
    <2>2. \A type \in {"file_read", "file_write"} :
            SumsUp(show_files(db, All, type), [c \in All |-> show_files(db, {c}, type)])
      BY <2>1, FilesSumUp
    <2>3. SumsUp(show_network(db, All), [c \in All |-> show_network(db, {c})])
      BY <2>1, ConnectsSumUp
    <2>4. \A p \in DOMAIN show_network(db, All) :
            LET errors == show_errors(db, All)
                of == {k \in DOMAIN errors : k.type = "net_connect" /\ k.resource = p}
            IN  show_network(db, All)[p].failed = SumFunctionOnSet(errors, of)
      BY <2>1, ErrorsListed
    <2> QED
      BY <2>2, <2>3, <2>4 DEF ReportsAddUp
  <1> QED
    BY <1>1, <1>2, <1>3, WInvCorrect, PTL DEF WSpec
-----------------------------------------------------------------------------
(* The timeline *)

\* The rows come in a strict order that leaves no two of them equal.
LEMMA BeforeOrders ==
    ASSUME NEW d, IsTables(d), NEW i \in 1 .. Len(d.events), NEW j \in 1 .. Len(d.events),
           NEW k \in 1 .. Len(d.events)
    PROVE  /\ ~Before(d, i, i)
           /\ i = j \/ Before(d, i, j) \/ Before(d, j, i)
           /\ Before(d, i, j) /\ Before(d, j, k) => Before(d, i, k)
  <1> DEFINE late(n) == IF d.events[n].type = "command_start" THEN 0 ELSE 1
             at(n) == d.events[n].timestamp_ns
  <1>1. \A n \in 1 .. Len(d.events) : at(n) \in Int /\ late(n) \in Int /\ n \in Int
    <2>1. \A n \in 1 .. Len(d.events) : d.events[n] \in EventRow
      BY DEF IsTables
    <2>2. Time \subseteq Int
      BY DEF Time
    <2>3. \A n : late(n) \in Int
      OBVIOUS
    <2>4. \A n \in 1 .. Len(d.events) : at(n) \in Int
      BY <2>1, <2>2 DEF EventRow
    <2>5. \A n \in 1 .. Len(d.events) : n \in Int
      OBVIOUS
    <2> HIDE DEF late, at
    <2> QED
      BY <2>3, <2>4, <2>5
  <1>2. \A m, n : Before(d, m, n) <=>
          \/ at(m) < at(n)
          \/ at(m) = at(n) /\ (late(m) < late(n) \/ (late(m) = late(n) /\ m < n))
    BY DEF Before
  <1> HIDE DEF late, at
  <1>3. /\ at(i) \in Int /\ at(j) \in Int /\ at(k) \in Int
        /\ late(i) \in Int /\ late(j) \in Int /\ late(k) \in Int
        /\ i \in Int /\ j \in Int /\ k \in Int
    BY <1>1
  <1> QED
    BY <1>2, <1>3

\* Every row has a place of its own, and no place is left free.
LEMMA PlacesAreTaken ==
    ASSUME NEW d, IsTables(d), NEW ids, ids \subseteq 1 .. Len(d.events),
           NEW n \in 1 .. Cardinality(ids)
    PROVE  \E i \in ids : Place(d, ids, i) = n
  <1> DEFINE under(i) == {j \in ids : Before(d, j, i)}
             N == Cardinality(ids)
             f == [i \in ids |-> Place(d, ids, i)]
  <1>1. IsFiniteSet(ids) /\ N \in Nat
    <2>1. Len(d.events) \in Nat
      BY DEF IsTables
    <2>2. IsFiniteSet(1 .. Len(d.events))
      BY <2>1, FS_Interval
    <2>3. IsFiniteSet(ids)
      BY <2>2, FS_Subset
    <2> QED
      BY <2>3, FS_CardinalityType
  <1>2. \A i \in ids : Place(d, ids, i) = Cardinality(under(i)) + 1
    BY DEF Place
  <1>3. \A i \in ids : under(i) \subseteq ids \ {i}
    BY BeforeOrders
  <1>4. \A i, j \in ids : Before(d, i, j) => under(i) \subseteq under(j) /\ i \in under(j)
                                             /\ i \notin under(i)
    BY BeforeOrders
  <1> HIDE DEF under, N
  <1>5. \A i \in ids : /\ IsFiniteSet(under(i)) /\ Cardinality(under(i)) \in Nat
                       /\ Cardinality(under(i)) <= N - 1
    <2> SUFFICES ASSUME NEW i \in ids
                 PROVE  /\ IsFiniteSet(under(i)) /\ Cardinality(under(i)) \in Nat
                        /\ Cardinality(under(i)) <= N - 1
      OBVIOUS
    <2>1. IsFiniteSet(ids \ {i}) /\ Cardinality(ids \ {i}) = N - 1
      BY <1>1, FS_RemoveElement DEF N
    <2>2. IsFiniteSet(under(i)) /\ Cardinality(under(i)) <= Cardinality(ids \ {i})
      BY <2>1, <1>3, FS_Subset
    <2> QED
      BY <2>1, <2>2, FS_CardinalityType
  <1>6. \A i, j \in ids : Before(d, i, j) => f[i] # f[j]
    <2> SUFFICES ASSUME NEW i \in ids, NEW j \in ids, Before(d, i, j)
                 PROVE  f[i] # f[j]
      OBVIOUS
    <2>1. Cardinality(under(j)) # Cardinality(under(i))
      BY <1>4, <1>5, FS_Subset
    <2> QED
      BY <2>1, <1>2, <1>5
  <1>7. \A i \in ids : f[i] \in 1 .. N
    BY <1>1, <1>2, <1>5
  <1> HIDE DEF f
  <1>8. f \in Injection(ids, 1 .. N)
    <2>1. \A i, j \in ids : i # j => Before(d, i, j) \/ Before(d, j, i)
      BY BeforeOrders
    <2>2. \A i, j \in ids : f[i] = f[j] => i = j
      BY <2>1, <1>6
    <2>3. f \in [ids -> 1 .. N]
      BY <1>7 DEF f
    <2> QED
      BY <2>2, <2>3 DEF Injection, IsInjective
  <1>9. IsFiniteSet(1 .. N) /\ Cardinality(1 .. N) = N
    BY <1>1, FS_Interval
  <1>10. f \in Surjection(ids, 1 .. N)
    BY <1>8, <1>9, FS_Injection DEF N
  <1>11. PICK i \in ids : f[i] = n
    BY <1>10 DEF Surjection, N
  <1> QED
    BY <1>11 DEF f

\* Nothing comes before the row in the first place.
LEMMA FirstPlace ==
    ASSUME NEW d, IsTables(d), NEW ids, ids \subseteq 1 .. Len(d.events), NEW i \in ids,
           Place(d, ids, i) = 1
    PROVE  \A j \in ids : ~Before(d, j, i)
  <1> DEFINE under == {j \in ids : Before(d, j, i)}
  <1>1. IsFiniteSet(under)
    <2>1. Len(d.events) \in Nat
      BY DEF IsTables
    <2>2. IsFiniteSet(1 .. Len(d.events))
      BY <2>1, FS_Interval
    <2>3. under \subseteq 1 .. Len(d.events)
      OBVIOUS
    <2> HIDE DEF under
    <2> QED
      BY <2>2, <2>3, FS_Subset
  <1>2. Cardinality(under) + 1 = 1
    BY DEF Place
  <1> HIDE DEF under
  <1>3. Cardinality(under) \in Nat
    BY <1>1, FS_CardinalityType
  <1>4. under = {}
    BY <1>1, <1>2, <1>3, FS_EmptySet
  <1> QED
    BY <1>4 DEF under

\* A set of numbers has a least one.
LEMMA LeastOf ==
    ASSUME NEW S, S \subseteq Nat, S # {}
    PROVE  LET least == CHOOSE t \in S : \A u \in S : t <= u
           IN  least \in S /\ \A u \in S : least <= u
  <1> DEFINE Less == OpToRel(<, Nat)
  <1>1. \A x, y \in Nat : x < y => <<x, y>> \in Less
    BY DEF OpToRel
  <1>2. IsWellFoundedOn(Less, Nat)
    BY NatLessThanWellFounded
  <1> HIDE DEF Less
  <1>3. PICK m \in S : \A y \in S : ~(<<y, m>> \in Less)
    BY <1>2, WFMin
  <1>4. \A u \in S : ~(u < m)
    BY <1>1, <1>3
  <1>5. \A u \in S : m <= u
    <2> SUFFICES ASSUME NEW u \in S
                 PROVE  m <= u
      OBVIOUS
    <2>1. u \in Int /\ m \in Int
      OBVIOUS
    <2> QED
      BY <2>1, <1>4
  <1> QED
    BY <1>5

\* What a call does to the earliest time of the commands: it never moves forward, and
\* it counts the events of the call.
NotLater(old, new) ==
    \A c \in CommandId : old[c] # NoTime => new[c] # NoTime /\ new[c] <= old[c]
Counted(e, new) ==
    e.command_id \in CommandId =>
      new[e.command_id] # NoTime /\ new[e.command_id] <= e.timestamp_ns

LEMMA CallCounts ==
    ASSUME NEW ts \in Time, Call(ts), earliest \in [CommandId -> Nat],
           \A i \in DOMAIN emitted' : emitted'[i].timestamp_ns \in Time
    PROVE  /\ earliest' \in [CommandId -> Nat]
           /\ NotLater(earliest, earliest')
           /\ \A i \in DOMAIN emitted' : Counted(emitted'[i], earliest')
  <1> DEFINE times(c) == {emitted'[i].timestamp_ns : i \in
                            {j \in DOMAIN emitted' : emitted'[j].command_id = c}}
                         \cup ({earliest[c]} \ {NoTime})
  <1>1. earliest' = [c \in CommandId |-> IF times(c) = {} THEN NoTime
                                         ELSE CHOOSE t \in times(c) : \A u \in times(c) : t <= u]
    BY DEF Call
  <1>2. \A c \in CommandId : times(c) \subseteq Nat /\ NoTime \notin times(c)
    BY DEF Time, NoTime
  <1>3. \A c \in CommandId : earliest[c] # NoTime => earliest[c] \in times(c)
    OBVIOUS
  <1>4. \A i \in DOMAIN emitted' :
          emitted'[i].timestamp_ns \in times(emitted'[i].command_id)
    OBVIOUS
  <1> HIDE DEF times
  <1>5. ASSUME NEW c \in CommandId
        PROVE  /\ earliest'[c] \in Nat
               /\ \A u \in times(c) : earliest'[c] # NoTime /\ earliest'[c] <= u
    <2>1. CASE times(c) = {}
      BY <2>1, <1>1 DEF NoTime
    <2>2. CASE times(c) # {}
      <3>1. earliest'[c] = CHOOSE t \in times(c) : \A u \in times(c) : t <= u
        BY <2>2, <1>1
      <3>2. times(c) \subseteq Nat
        BY <1>2
      <3>3. earliest'[c] \in times(c) /\ \A u \in times(c) : earliest'[c] <= u
        BY <2>2, <3>1, <3>2, LeastOf
      <3> QED
        BY <3>3, <1>2
    <2> QED
      BY <2>1, <2>2
  <1>6. earliest' \in [CommandId -> Nat]
    <2>1. DOMAIN earliest' = CommandId /\ earliest' = [c \in CommandId |-> earliest'[c]]
      BY <1>1
    <2> QED
      BY <2>1, <1>5
  <1>7. NotLater(earliest, earliest')
    BY <1>3, <1>5 DEF NotLater
  <1>8. \A i \in DOMAIN emitted' : Counted(emitted'[i], earliest')
    BY <1>4, <1>5 DEF Counted
  <1> QED
    BY <1>6, <1>7, <1>8

\* A command with a row has its start among the events and none before it; what an
\* event says of a command without one is counted in the earliest time.
Starting(d, c) ==
    \E i \in 1 .. Len(d.events) :
      /\ d.events[i].type = "command_start" /\ d.events[i].command_id = c
      /\ d.events[i].timestamp_ns = d.commands[c].start_ns
StartsOK(d, t) ==
    \A c \in DOMAIN d.commands : d.commands[c].start_ns <= t /\ Starting(d, c)
NotBefore(d, early, row) ==
    LET c == row.command_id
    IN  /\ c \in DOMAIN d.commands => d.commands[c].start_ns <= row.timestamp_ns
        /\ c \in CommandId \ DOMAIN d.commands =>
             early[c] # NoTime /\ early[c] <= row.timestamp_ns
TimelineOK(d, t, early) ==
    /\ StartsOK(d, t)
    /\ \A i \in 1 .. Len(d.events) : NotBefore(d, early, d.events[i])

\* What the proof needs to know of an event that arrives at time u
ArrivesAt(d, early, e, u) ==
    IF e.type = "command_start"
    THEN /\ e.command_id \in CommandId \ DOMAIN d.commands
         /\ e.timestamp_ns <= u
         /\ early[e.command_id] # NoTime => e.timestamp_ns <= early[e.command_id]
    ELSE e.timestamp_ns = u

LEMMA TimelineStep ==
    ASSUME NEW d, IsTables(d), NEW e \in Event, NEW result, NEW r, Emits(d, e, result, r),
           NEW t \in Time, NEW u \in Time, t <= u,
           NEW old \in [CommandId -> Nat], NEW new \in [CommandId -> Nat],
           NotLater(old, new), Counted(e, new),
           TimelineOK(d, t, old), ArrivesAt(d, old, e, u)
    PROVE  TimelineOK(r, u, new)
  <1> DEFINE n == Len(d.events)
             id == e.command_id
             start == e.type = "command_start"
  <1>1. n \in Nat /\ Len(r.events) = n + 1 /\ 1 .. (n + 1) = (1 .. n) \cup {n + 1}
    BY DEF Emits, Logged, IsTables
  <1>2. \A i \in 1 .. n : r.events[i] = d.events[i]
    BY DEF Emits, Logged
  <1>3. /\ r.events[n + 1].type = e.type /\ r.events[n + 1].command_id = id
        /\ r.events[n + 1].timestamp_ns = e.timestamp_ns
    BY DEF Emits, Logged
  <1>4. /\ \A i \in 1 .. n : d.events[i].timestamp_ns \in Int
        /\ e.timestamp_ns \in Int /\ t \in Int /\ u \in Int
    <2>1. \A i \in 1 .. n : d.events[i] \in EventRow
      BY DEF IsTables
    <2>2. Time \subseteq Int
      BY DEF Time
    <2>3. \A i \in 1 .. n : d.events[i].timestamp_ns \in Int
      BY <2>1, <2>2 DEF EventRow
    <2>4. e.timestamp_ns \in Int
      BY <2>2 DEF Event
    <2> QED
      BY <2>2, <2>3, <2>4
  <1>5. \A c \in DOMAIN d.commands : d.commands[c].start_ns \in Int /\ c \in CommandId
    <2>1. IsTable(d.commands, CommandId, CommandRow)
      BY DEF IsTables
    <2>2. \A row \in CommandRow : row.start_ns \in Int
      BY DEF CommandRow, Time
    <2> QED
      BY <2>1, <2>2 DEF IsTable
  <1>6. /\ DOMAIN r.commands = DOMAIN d.commands \cup (IF start THEN {id} ELSE {})
        /\ \A c \in DOMAIN d.commands : r.commands[c].start_ns = d.commands[c].start_ns
        /\ start => r.commands[id].start_ns = e.timestamp_ns
    <2>1. CommandsAfter(d, e, result, r)
      BY DEF Emits
    <2>2. start => id \notin DOMAIN d.commands
      BY DEF ArrivesAt
    <2>3. \A c \in DOMAIN d.commands : r.commands[c].start_ns = d.commands[c].start_ns
      BY <2>1, <2>2 DEF CommandsAfter
    <2> QED
      BY <2>1, <2>3 DEF CommandsAfter
  <1> HIDE DEF n, id
  <1>7. \A i \in 1 .. n : NotBefore(d, old, d.events[i])
    BY DEF TimelineOK, n
  <1>8. StartsOK(r, u)
    <2> SUFFICES ASSUME NEW c \in DOMAIN r.commands
                 PROVE  r.commands[c].start_ns <= u /\ Starting(r, c)
      BY DEF StartsOK
    <2>1. CASE c \in DOMAIN d.commands
      <3>1. d.commands[c].start_ns <= t /\ Starting(d, c)
        BY <2>1 DEF TimelineOK, StartsOK
      <3>2. PICK i \in 1 .. n : /\ d.events[i].type = "command_start"
                                /\ d.events[i].command_id = c
                                /\ d.events[i].timestamp_ns = d.commands[c].start_ns
        BY <3>1 DEF Starting, n
      <3>3. Starting(r, c)
        BY <3>2, <2>1, <1>1, <1>2, <1>6 DEF Starting
      <3>4. r.commands[c].start_ns <= u
        BY <3>1, <2>1, <1>4, <1>5, <1>6
      <3> QED
        BY <3>3, <3>4
    <2>2. CASE c \notin DOMAIN d.commands
      <3>1. start /\ c = id
        BY <2>2, <1>6
      <3>2. r.commands[c].start_ns = e.timestamp_ns /\ e.timestamp_ns <= u
        BY <3>1, <1>6 DEF ArrivesAt
      <3>3. n + 1 \in 1 .. Len(r.events)
        BY <1>1
      <3>4. Starting(r, c)
        BY <3>1, <3>2, <3>3, <1>3 DEF Starting
      <3> QED
        BY <3>2, <3>4
    <2> QED
      BY <2>1, <2>2
  <1>9. ASSUME NEW i \in 1 .. n
        PROVE  NotBefore(r, new, d.events[i])
    <2> DEFINE c == d.events[i].command_id
               at == d.events[i].timestamp_ns
    <2>1. at \in Int /\ new \in [CommandId -> Nat] /\ old \in [CommandId -> Nat]
      BY <1>4
    <2>2. /\ c \in DOMAIN d.commands => d.commands[c].start_ns <= at
          /\ c \in CommandId \ DOMAIN d.commands => old[c] # NoTime /\ old[c] <= at
      BY <1>7 DEF NotBefore
    <2> HIDE DEF c, at
    <2>3. c \in DOMAIN r.commands => r.commands[c].start_ns <= at
      <3>1. CASE c \in DOMAIN d.commands
        BY <3>1, <2>2, <1>6
      <3>2. CASE c \notin DOMAIN d.commands /\ c \in DOMAIN r.commands
        <4>1. start /\ c = id /\ c \in CommandId
          BY <3>2, <1>6 DEF ArrivesAt, id
        <4>2. e.timestamp_ns <= old[c] /\ old[c] <= at
          BY <4>1, <3>2, <2>2 DEF ArrivesAt, id
        <4>3. r.commands[c].start_ns = e.timestamp_ns
          BY <4>1, <1>6
        <4>4. old[c] \in Int
          BY <4>1, <2>1
        <4> QED
          BY <4>2, <4>3, <4>4, <1>4, <2>1
      <3> QED
        BY <3>1, <3>2
    <2>4. c \in CommandId \ DOMAIN r.commands => new[c] # NoTime /\ new[c] <= at
      <3> SUFFICES ASSUME c \in CommandId, c \notin DOMAIN r.commands
                   PROVE  new[c] # NoTime /\ new[c] <= at
        OBVIOUS
      <3>1. old[c] # NoTime /\ old[c] <= at
        BY <2>2, <1>6
      <3>2. new[c] # NoTime /\ new[c] <= old[c]
        BY <3>1 DEF NotLater
      <3>3. new[c] \in Int /\ old[c] \in Int
        BY <2>1
      <3> QED
        BY <3>1, <3>2, <3>3, <2>1
    <2> QED
      BY <2>3, <2>4 DEF NotBefore, c, at
  <1>10. NotBefore(r, new, r.events[n + 1])
    <2>1. id \in DOMAIN r.commands => r.commands[id].start_ns <= e.timestamp_ns
      <3>1. CASE start
        BY <3>1, <1>4, <1>6
      <3>2. CASE ~start /\ id \in DOMAIN d.commands
        <4>1. d.commands[id].start_ns <= t
          BY <3>2 DEF TimelineOK, StartsOK
        <4>2. e.timestamp_ns = u
          BY <3>2 DEF ArrivesAt
        <4> QED
          BY <4>1, <4>2, <3>2, <1>4, <1>5, <1>6
      <3>3. CASE ~start /\ id \notin DOMAIN d.commands
        BY <3>3, <1>6
      <3> QED
        BY <3>1, <3>2, <3>3
    <2>2. id \in CommandId => new[id] # NoTime /\ new[id] <= e.timestamp_ns
      BY DEF Counted, id
    <2> QED
      BY <2>1, <2>2, <1>3 DEF NotBefore
  <1>11. \A i \in 1 .. Len(r.events) : NotBefore(r, new, r.events[i])
    BY <1>1, <1>2, <1>9, <1>10
  <1> QED
    BY <1>8, <1>11 DEF TimelineOK

LEMMA TimelineEmpty ==
    ASSUME NEW t, NEW early
    PROVE  TimelineOK(Begun, t, early) /\ TimelineOK(Schema, t, early)
  <1>1. /\ Schema.events = << >> /\ Schema.commands = << >>
        /\ Begun.events = << >> /\ Begun.commands = << >>
    BY Zenon DEF Begun, Schema
  <1>2. Len(<< >>) = 0 /\ DOMAIN << >> = {}
    OBVIOUS
  <1> QED
    BY <1>1, <1>2 DEF TimelineOK, StartsOK

\* What holds of the recordings, whatever their phase
TimelineInv == earliest \in [CommandId -> Nat] /\ TimelineOK(db, now, earliest)

LEMMA TimelineInit ==
    ASSUME WInit
    PROVE  TimelineInv
  <1>1. now = 1 /\ 1 \in Time /\ 0 \in Nat /\ 1 \in Nat
    BY CapsuleAssumption DEF WInit, Time
  <1>2. CASE emitted = << >>
    <2>1. earliest = [c \in CommandId |-> NoTime] /\ db = Begun
      BY <1>2 DEF WInit, SInit, Opened
    <2>2. earliest \in [CommandId -> Nat]
      BY <2>1 DEF NoTime
    <2> QED
      BY <2>1, <2>2, TimelineEmpty DEF TimelineInv
  <1>3. CASE emitted \in Starts(now)
    <2> DEFINE none == [c \in CommandId |-> NoTime]
    <2>1. PICK e \in Event : /\ e.type = "command_start" /\ e.timestamp_ns = now
                             /\ e.command_id = 1 /\ Emits(Begun, e, 0, db)
      BY <1>3, OpenedWithStart
    <2>2. emitted # << >>
      BY <1>3 DEF Starts
    <2>3. earliest = [c \in CommandId |-> IF c = 1 THEN now ELSE NoTime]
      BY <2>2 DEF WInit, SInit
    <2>4. /\ earliest \in [CommandId -> Nat] /\ none \in [CommandId -> Nat]
          /\ \A c \in CommandId : none[c] = NoTime
          /\ 1 \in CommandId => earliest[1] = 1
      BY <2>3, <1>1 DEF NoTime
    <2>5. 1 \in CommandId
      BY CapsuleAssumption DEF CommandId
    <2> HIDE DEF none
    <2>6. NotLater(none, earliest) /\ Counted(e, earliest)
      BY <2>1, <2>4, <1>1 DEF NotLater, Counted, NoTime
    <2>7. DOMAIN Begun.commands = {}
      BY EmptyTables DEF OpenOK, CommandsOK
    <2>8. ArrivesAt(Begun, none, e, 1)
      BY <2>1, <2>4, <2>5, <2>7, <1>1 DEF ArrivesAt
    <2>9. IsTables(Begun) /\ TimelineOK(Begun, 1, none) /\ 1 <= 1
      BY EmptyTables, TimelineEmpty
    <2>10. TimelineOK(db, 1, earliest)
      BY <2>1, <2>4, <2>6, <2>8, <2>9, <1>1, TimelineStep
    <2> QED
      BY <2>4, <2>10, <1>1 DEF TimelineInv
  <1> QED
    BY <1>2, <1>3 DEF WInit

LEMMA TimelineNext ==
    ASSUME ~ClockMayStepBack, WInv, TimelineInv, [WNext]_wvars
    PROVE  TimelineInv'
  <1>1. /\ now \in Time /\ IsTables(db) /\ earliest \in [CommandId -> Nat]
        /\ TimelineOK(db, now, earliest)
    BY DEF WInv, StreamOK, TimelineInv
  <1>2. ASSUME NEW ts \in Time, Call(ts)
        PROVE  now' = ts /\ now <= ts
    BY <1>1, <1>2 DEF Call, Time
  <1>3. ASSUME earliest' \in [CommandId -> Nat], TimelineOK(db', now', earliest')
        PROVE  TimelineInv'
    BY <1>3 DEF TimelineInv, TimelineOK, StartsOK, Starting, NotBefore, CommandId, NoTime
  <1>4. \A e \in Event : e.timestamp_ns \in Time
    BY DEF Event
  <1>5. ASSUME NEW ts \in Time, RecordActivity(ts) \/ RecordProcess(ts)
        PROVE  TimelineInv'
    <2>1. PICK e, result : /\ PlainEvent(e, ts) /\ Emits(db, e, result, db') /\ Call(ts)
                           /\ emitted' = <<e>>
      BY <1>5, Activities
    <2>2. now' = ts /\ now <= ts
      BY <2>1, <1>2
    <2>3. e \in Event /\ e.timestamp_ns = ts /\ e.type # "command_start"
      BY <2>1 DEF PlainEvent, PlainType
    <2>4. DOMAIN emitted' = {1} /\ emitted'[1] = e
      BY <2>1
    <2>5. /\ earliest' \in [CommandId -> Nat] /\ NotLater(earliest, earliest')
          /\ Counted(e, earliest')
      BY <2>1, <2>3, <2>4, <1>1, CallCounts
    <2>6. ArrivesAt(db, earliest, e, ts)
      BY <2>3 DEF ArrivesAt
    <2>7. TimelineOK(db', ts, earliest')
      BY <2>1, <2>2, <2>3, <2>5, <2>6, <1>1, TimelineStep
    <2> QED
      BY <2>2, <2>5, <2>7, <1>3
  <1>6. ASSUME NEW ts \in Time, RecordBegin(ts)
        PROVE  TimelineInv'
    <2>1. PICK e \in Event : /\ e.type = "command_start" /\ Written(1) /\ Emits(db, e, 0, db')
                             /\ Call(ts) /\ emitted' = <<e>>
                             /\ ClockMayStepBack \/ StartsBefore(e, ts)
                             /\ e.command_id \in CommandId \ begun
      BY <1>6, Beginnings
    <2>2. now' = ts /\ now <= ts
      BY <2>1, <1>2
    <2>3. DOMAIN emitted' = {1} /\ emitted'[1] = e
      BY <2>1
    <2>4. /\ earliest' \in [CommandId -> Nat] /\ NotLater(earliest, earliest')
          /\ Counted(e, earliest')
      BY <2>1, <2>3, <1>1, <1>4, CallCounts
    <2>5. DOMAIN db.commands = begun
      BY <2>1 DEF WInv, Written, OpenOK, CommandsOK
    <2>6. ArrivesAt(db, earliest, e, ts)
      BY <2>1, <2>5 DEF ArrivesAt, StartsBefore
    <2>7. TimelineOK(db', ts, earliest')
      BY <2>1, <2>2, <2>4, <2>6, <1>1, TimelineStep
    <2> QED
      BY <2>2, <2>4, <2>7, <1>3
  <1>7. ASSUME NEW ts \in Time, RecordEnd(ts)
        PROVE  TimelineInv'
    <2>1. PICK mid : \E e \in Event :
            /\ \/ mid = db /\ emitted' = <<e>>
               \/ \E x \in Event : /\ x.type = "process_exit" /\ Emits(db, x, 0, mid)
                                   /\ x.timestamp_ns = ts /\ emitted' = <<x, e>>
            /\ e.type = "command_end" /\ e.timestamp_ns = ts
            /\ Emits(mid, e, 0, db') /\ Call(ts)
      BY <1>7, Endings
    <2>2. PICK e \in Event :
            /\ \/ mid = db /\ emitted' = <<e>>
               \/ \E x \in Event : /\ x.type = "process_exit" /\ Emits(db, x, 0, mid)
                                   /\ x.timestamp_ns = ts /\ emitted' = <<x, e>>
            /\ e.type = "command_end" /\ e.timestamp_ns = ts
            /\ Emits(mid, e, 0, db') /\ Call(ts)
      BY <2>1
    <2>3. now' = ts /\ now <= ts /\ ts <= ts
      BY <2>2, <1>2 DEF Time
    <2>4. \A d, early : ArrivesAt(d, early, e, ts)
      BY <2>2 DEF ArrivesAt
    <2>5. CASE mid = db /\ emitted' = <<e>>
      <3>1. DOMAIN emitted' = {1} /\ emitted'[1] = e
        BY <2>5
      <3>2. /\ earliest' \in [CommandId -> Nat] /\ NotLater(earliest, earliest')
            /\ Counted(e, earliest')
        BY <2>2, <3>1, <1>1, <1>4, CallCounts
      <3>3. TimelineOK(db', ts, earliest')
        BY <2>2, <2>3, <2>4, <2>5, <3>2, <1>1, TimelineStep
      <3> QED
        BY <2>3, <3>2, <3>3, <1>3
    <2>6. CASE \E x \in Event : /\ x.type = "process_exit" /\ Emits(db, x, 0, mid)
                                /\ x.timestamp_ns = ts /\ emitted' = <<x, e>>
      <3>1. PICK x \in Event : /\ x.type = "process_exit" /\ Emits(db, x, 0, mid)
                               /\ x.timestamp_ns = ts /\ emitted' = <<x, e>>
        BY <2>6
      <3>2. DOMAIN emitted' = {1, 2} /\ emitted'[1] = x /\ emitted'[2] = e
        BY <3>1
      <3>3. /\ earliest' \in [CommandId -> Nat] /\ NotLater(earliest, earliest')
            /\ Counted(x, earliest') /\ Counted(e, earliest')
        BY <2>2, <3>2, <1>1, <1>4, CallCounts
      <3>4. ArrivesAt(db, earliest, x, ts)
        BY <3>1 DEF ArrivesAt
      <3>5. TimelineOK(mid, ts, earliest') /\ IsTables(mid)
        BY <2>3, <3>1, <3>3, <3>4, <1>1, TimelineStep, EventsCount
      <3>6. NotLater(earliest', earliest')
        BY <3>3 DEF NotLater
      <3>7. TimelineOK(db', ts, earliest')
        BY <2>2, <2>3, <2>4, <3>3, <3>5, <3>6, TimelineStep
      <3> QED
        BY <2>3, <3>3, <3>7, <1>3
    <2> QED
      BY <2>2, <2>5, <2>6
  <1>8. ASSUME NEW exit_code \in {0, 1}, Finish(exit_code)
        PROVE  TimelineInv'
    <2>1. /\ db' = [db EXCEPT !.runs = [db.runs EXCEPT !.exit_code = exit_code]]
          /\ now' = now /\ earliest' = earliest
      BY <1>8 DEF Finish, svars
    <2>2. db'.events = db.events /\ db'.commands = db.commands
      BY <2>1, <1>1 DEF IsTables
    <2>3. TimelineOK(db', now, earliest)
      BY <2>2, <1>1 DEF TimelineOK, StartsOK, Starting, NotBefore
    <2> QED
      BY <2>1, <2>3, <1>1, <1>3
  <1>9. CASE Fail
    <2>1. db' = Schema /\ now' = now /\ earliest' = earliest
      BY <1>9 DEF Fail, WInv, Committed, svars
    <2> QED
      BY <2>1, <1>1, <1>3, TimelineEmpty
  <1>10. CASE Again
    <2>1. db' = Begun /\ earliest' = [c \in CommandId |-> NoTime]
      BY <1>10 DEF Again, Opened
    <2>2. earliest' \in [CommandId -> Nat]
      BY <2>1 DEF NoTime
    <2> QED
      BY <2>1, <2>2, <1>3, TimelineEmpty
  <1>11. CASE UNCHANGED wvars
    <2>1. db' = db /\ now' = now /\ earliest' = earliest
      BY <1>11 DEF wvars, svars, capsule
    <2> QED
      BY <2>1, <1>1, <1>3
  <1> QED
    BY <1>5, <1>6, <1>7, <1>8, <1>9, <1>10, <1>11 DEF WNext

\* The rows of a command and what show_timeline makes of them
LEMMA TimelineOf ==
    ASSUME NEW d, IsTables(d), NEW t, NEW early, TimelineOK(d, t, early),
           NEW c \in DOMAIN d.commands
    PROVE  LET timeline == show_timeline(d, d.commands[c].start_ns, {c})
           IN  /\ timeline[1].type = "command_start"
               /\ \A n \in DOMAIN timeline : timeline[n].offset >= 0
  <1> DEFINE filter == {c}
             ids == Rows(d, filter, EventType)
             N == Cardinality(ids)
             pick(n) == CHOOSE i \in ids : Place(d, ids, i) = n
             timeline == show_timeline(d, d.commands[c].start_ns, {c})
  <1>1. /\ DOMAIN d.events = 1 .. Len(d.events) /\ Len(d.events) \in Nat
        /\ \A i \in 1 .. Len(d.events) : /\ d.events[i].type \in EventType
                                         /\ d.events[i].timestamp_ns \in Int
    <2>1. d.events \in Seq(EventRow)
      BY DEF IsTables
    <2>2. \A row \in EventRow : row.type \in EventType /\ row.timestamp_ns \in Int
      BY DEF EventRow, Time
    <2> QED
      BY <2>1, <2>2
  <1>2. d.commands[c].start_ns \in Int
    <2>1. d.commands[c] \in CommandRow
      BY DEF IsTables, IsTable
    <2> QED
      BY <2>1 DEF CommandRow, Time
  <1>3. \A i : i \in ids <=> i \in 1 .. Len(d.events) /\ d.events[i].command_id = c
    BY <1>1 DEF Rows
  <1>4. timeline = [n \in 1 .. N |->
                      [type |-> d.events[pick(n)].type,
                       offset |-> d.events[pick(n)].timestamp_ns - d.commands[c].start_ns]]
    BY DEF show_timeline
  <1> HIDE DEF filter, ids, N, timeline
  <1>5. ids \subseteq 1 .. Len(d.events)
    BY <1>3
  <1>6. \A n \in 1 .. N : pick(n) \in ids /\ Place(d, ids, pick(n)) = n
    <2> SUFFICES ASSUME NEW n \in 1 .. N
                 PROVE  pick(n) \in ids /\ Place(d, ids, pick(n)) = n
      OBVIOUS
    <2>1. \E i \in ids : Place(d, ids, i) = n
      BY <1>5, PlacesAreTaken DEF N
    <2> QED
      BY <2>1
  <1> HIDE DEF pick
  <1>7. /\ DOMAIN timeline = 1 .. N
        /\ \A n \in 1 .. N : /\ timeline[n].type = d.events[pick(n)].type
                             /\ timeline[n].offset = d.events[pick(n)].timestamp_ns
                                                       - d.commands[c].start_ns
    BY <1>4
  <1>8. \A i \in ids : d.events[i].timestamp_ns >= d.commands[c].start_ns
    <2> SUFFICES ASSUME NEW i \in ids
                 PROVE  d.events[i].timestamp_ns >= d.commands[c].start_ns
      OBVIOUS
    <2>1. i \in 1 .. Len(d.events) /\ d.events[i].command_id = c
      BY <1>3
    <2>2. d.commands[c].start_ns <= d.events[i].timestamp_ns
      BY <2>1 DEF TimelineOK, NotBefore
    <2> QED
      BY <2>1, <2>2, <1>1, <1>2
  <1>9. \A n \in 1 .. N : timeline[n].offset >= 0
    <2> SUFFICES ASSUME NEW n \in 1 .. N
                 PROVE  timeline[n].offset >= 0
      OBVIOUS
    <2> DEFINE at == d.events[pick(n)].timestamp_ns
    <2>1. at >= d.commands[c].start_ns /\ at \in Int
      BY <1>1, <1>5, <1>6, <1>8
    <2>2. timeline[n].offset = at - d.commands[c].start_ns
      BY <1>7
    <2> HIDE DEF at
    <2> QED
      BY <2>1, <2>2, <1>2
  <1>10. PICK s \in ids : /\ d.events[s].type = "command_start"
                          /\ d.events[s].timestamp_ns = d.commands[c].start_ns
    BY <1>3 DEF TimelineOK, StartsOK, Starting
  <1>11. 1 \in 1 .. N
    <2>1. IsFiniteSet(ids)
      <3>1. IsFiniteSet(1 .. Len(d.events))
        BY <1>1, FS_Interval
      <3> QED
        BY <3>1, <1>5, FS_Subset
    <2>2. N \in Nat /\ N # 0
      BY <2>1, <1>10, FS_CardinalityType, FS_EmptySet DEF N
    <2> QED
      BY <2>2
  <1>12. timeline[1].type = "command_start"
    <2> DEFINE first == pick(1)
    <2>1. first \in ids /\ Place(d, ids, first) = 1
      BY <1>6, <1>11
    <2> HIDE DEF first
    <2>2. ~Before(d, s, first)
      BY <2>1, <1>5, FirstPlace
    <2>3. /\ d.events[first].timestamp_ns >= d.events[s].timestamp_ns
          /\ d.events[first].timestamp_ns \in Int /\ d.events[s].timestamp_ns \in Int
      BY <2>1, <1>1, <1>5, <1>8, <1>10
    <2>4. ~(d.events[s].timestamp_ns < d.events[first].timestamp_ns)
      BY <2>2 DEF Before
    <2>5. d.events[s].timestamp_ns = d.events[first].timestamp_ns
      BY <2>3, <2>4
    <2>6. d.events[first].type = "command_start"
      <3> SUFFICES ASSUME d.events[first].type # "command_start"
                   PROVE  FALSE
        OBVIOUS
      <3>1. Before(d, s, first)
        BY <2>5, <1>10 DEF Before
      <3> QED
        BY <3>1, <2>2
    <2> QED
      BY <2>6, <1>7, <1>11 DEF first
  <1> QED
    BY <1>7, <1>9, <1>12 DEF timeline

\* While the clock does not step back, the timeline of a command opens with its start
\* and runs forward from it, whatever was reported of the command before.
THEOREM TimelineCorrect ==
    ASSUME ~ClockMayStepBack
    PROVE  WSpec => []TimelineOpensWithStart
  <1>1. WInit => TimelineInv
    BY TimelineInit
  <1>2. WInv /\ TimelineInv /\ [WNext]_wvars => TimelineInv'
    BY TimelineNext
  <1>3. WInv /\ TimelineInv => TimelineOpensWithStart
    <2> SUFFICES ASSUME WInv, TimelineInv
                 PROVE  TimelineOpensWithStart
      OBVIOUS
    <2>1. IsTables(db) /\ TimelineOK(db, now, earliest)
      BY DEF WInv, TimelineInv
    <2> QED
      BY <2>1, TimelineOf DEF TimelineOpensWithStart
  <1> QED
    BY <1>1, <1>2, <1>3, WInvCorrect, PTL DEF WSpec
==============================================================================
