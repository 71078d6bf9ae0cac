------------------------- MODULE DescriptorTracking -------------------------
(***************************************************************************)
(* The descriptors and working directories that ExecutionState infers from *)
(* the system calls it is shown, next to the ones the kernel really keeps. *)
(*                                                                         *)
(* A call takes effect in the kernel first and is reported to              *)
(* ExecutionState later, when the thread stopped at the exit of the call.  *)
(* Threads of one process share a table, so their calls may be reported in *)
(* another order than they took effect; some calls change descriptors      *)
(* without any branch of on_syscall_exit; a child may run before its       *)
(* creation is reported; and nobody reports what whyrun itself had open.   *)
(* All four make entries of fd_table wrong.  The module says which ones    *)
(* may be: `suspect' holds the cells that are as they were inherited from  *)
(* whyrun, or whose last change was unseen, raced, came before the process *)
(* or thread was known, or was computed from a suspect cell.               *)
(***************************************************************************)
EXTENDS ExecutionState

CONSTANTS MayThread,  \* programs may have threads that share the table
          Inherited,  \* what descriptors inherited from whyrun may stand for
          MaxSteps    \* bound: calls that the programs make
ASSUME ThreadAssumption == MayThread \in BOOLEAN /\ MaxSteps \in Nat

\* Below an absolute directory a name is absolute, below any other one it is not.
ASSUME JoinAssumption == /\ \A d \in Path, r \in Rel : Join(d, r) \in Path
                         /\ \A r \in Rel : Join(Unresolved, r) = Unresolved

VARIABLES
    table,     \* the kernel's descriptors and, at AT_FDCWD, working directory
    group,     \* the process of a thread, NoPid for one not yet created
    done,      \* the call of a thread that took effect and is not reported
    suspect,   \* cells of the table that fd_table may have wrong
    steps      \* calls made so far

dvars == <<vars, table, group, done, suspect, steps>>

Cell == Fd \cup {AT_FDCWD}
Object == [type : {"none", "file", "socket", "other"}, name : Path]
ASSUME InheritedAssumption == Inherited \subseteq Object
NoObject == [type |-> "none", name |-> Slash]
FileAt(path) == [type |-> "file", name |-> path]

\* What the kernel did: the cells the outcome depends on, those it changed,
\* what it put there (or what it transferred), and whether it is sure that
\* ExecutionState can know.
Step(op, args, reads, writes, object, sure) ==
    [op |-> op, args |-> args, reads |-> reads, writes |-> writes,
     object |-> object, sure |-> sure]
NoStep == Step("none", << >>, {}, {}, NoObject, TRUE)

\* add_initial_process enters no descriptor; the root has those of whyrun.
DInit ==
    /\ Init /\ ~session
    /\ \E fds \in [Fd -> Inherited \cup {NoObject}] :
         /\ table = [p \in Pid |-> [x \in Cell |->
                       IF p # Root THEN NoObject
                       ELSE IF x = AT_FDCWD THEN FileAt(StartDir) ELSE fds[x]]]
         /\ suspect = [p \in Pid |-> IF p # Root THEN {}
                                     ELSE {f \in Fd : fds[f].type # "none"}]
    /\ group = [t \in Pid |-> IF t = Root THEN Root ELSE NoPid]
    /\ done = [t \in Pid |-> NoStep]
    /\ steps = 0

-----------------------------------------------------------------------------
(* The kernel. *)

\* Reported in another order than they took effect, b makes a's report wrong.
Blurs(b, a) == (a.reads \cup a.writes) \cap b.writes # {}

Neighbours(t) == {u \in Pid \ {t} : group[u] = group[t]}
Copies(u, child) == done[u].op = "create" /\ done[u].args = <<child, FALSE>>

\* ExecutionState knows the thread, and no creation report is still to replace
\* the entry of its process.
Settled(t) == HasProcess(t) /\ \A u \in Pid : ~Copies(u, group[t])

\* The thread t takes step s; its unreported neighbours race with it.
Effect(t, s, seen) ==
    LET p == group[t]
        blurred == {u \in Neighbours(t) : Blurs(s, done[u])}
        sure == /\ seen /\ Settled(t) /\ s.reads \cap suspect[p] = {}
                /\ \A u \in Neighbours(t) : ~Blurs(done[u], s)
    IN  /\ p # NoPid /\ done[t] = NoStep
        /\ table' = [table EXCEPT ![p] =
                       [x \in Cell |-> IF x \in s.writes THEN s.object ELSE @[x]]]
        /\ done' = [u \in Pid |-> IF u = t THEN [s EXCEPT !.sure = sure]
                                  ELSE IF u \in blurred THEN [done[u] EXCEPT !.sure = FALSE]
                                  ELSE done[u]]
        /\ suspect' = [q \in Pid |->
              IF q = p THEN (suspect[p] \ s.writes)
                            \cup (IF sure THEN {} ELSE s.writes)
                            \cup UNION {done[u].writes : u \in blurred}
              ELSE IF \E u \in blurred : Copies(u, q) THEN suspect[q] \cup s.writes
              ELSE suspect[q]]
        /\ UNCHANGED <<vars, group>>

At(t, x) == table[group[t]][x]
Free(t) == {f \in Fd : At(t, f).type = "none"}

\* open, openat or openat2 below directory x, or of an absolute name; fd is
\* AT_FDCWD when the call fails.
Open(t, absolute, x, r, directory, fd) ==
    LET path == IF absolute THEN Join(Slash, r) ELSE Join(At(t, x).name, r)
    IN  /\ group[t] # NoPid /\ fd \in Free(t) \cup {AT_FDCWD}
        /\ IF absolute THEN x = AT_FDCWD ELSE At(t, x).type = "file"
        /\ Effect(t, Step("open", <<absolute, x, r, directory, fd>>,
                          IF absolute THEN {} ELSE {x}, {fd} \ {AT_FDCWD},
                          FileAt(path), TRUE), TRUE)

Transfer(t, type, fd) ==
    /\ group[t] # NoPid /\ At(t, fd).type # "none"
    /\ Effect(t, Step("transfer", <<type, fd>>, {fd}, {}, At(t, fd), TRUE), TRUE)

Close(t, fd) ==
    /\ group[t] # NoPid /\ At(t, fd).type # "none"
    /\ Effect(t, Step("close", <<fd>>, {}, {fd}, NoObject, TRUE), TRUE)

Dup(t, old_fd, new_fd) ==
    /\ group[t] # NoPid /\ At(t, old_fd).type # "none"
    /\ Effect(t, Step("dup", <<old_fd, new_fd>>, {old_fd}, {new_fd},
                      At(t, old_fd), TRUE), TRUE)

Socket(t, fd) ==
    /\ group[t] # NoPid /\ fd \in Free(t)
    /\ Effect(t, Step("socket", <<fd>>, {}, {fd},
                      [type |-> "socket", name |-> Slash], TRUE), TRUE)

\* A connect renames the entry but not the kernel's socket.
Connect(t, type, fd, e) ==
    /\ group[t] # NoPid /\ At(t, fd).type = "socket"
    /\ Effect(t, Step("connect", <<type, fd, e>>, {fd}, {fd}, At(t, fd), TRUE), TRUE)

Chdir(t, absolute, r) ==
    LET path == IF absolute THEN Join(Slash, r) ELSE Join(At(t, AT_FDCWD).name, r)
    IN  /\ group[t] # NoPid
        /\ Effect(t, Step("chdir", <<absolute, r>>, IF absolute THEN {} ELSE {AT_FDCWD},
                          {AT_FDCWD}, FileAt(path), TRUE), TRUE)

Fchdir(t, fd) ==
    /\ group[t] # NoPid /\ At(t, fd).type = "file"
    /\ Effect(t, Step("fchdir", <<fd>>, {fd}, {AT_FDCWD}, At(t, fd), TRUE), TRUE)

\* pipe, accept, eventfd... make a descriptor, and close_range or the
\* close-on-exec flag close one, without a branch of on_syscall_exit.
Unseen(t, fd, object) ==
    /\ group[t] # NoPid
    /\ At(t, fd).type = "none" <=> object.type # "none"
    /\ Effect(t, Step("unseen", << >>, {}, {fd}, object, TRUE), FALSE)

\* A child has a copy of the table, a thread shares it, and both run at once.  The
\* copy that ExecutionState makes lacks what the neighbours have not reported yet.
Create(t, child, is_thread) ==
    LET p == group[t]
    IN  /\ p # NoPid /\ done[t] = NoStep /\ group[child] = NoPid
        /\ is_thread => MayThread
        /\ group' = [group EXCEPT ![child] = IF is_thread THEN p ELSE child]
        /\ done' = [done EXCEPT ![t] = Step("create", <<child, is_thread>>,
                                            IF is_thread THEN {} ELSE Cell, {},
                                            NoObject, TRUE)]
        /\ IF is_thread THEN UNCHANGED <<table, suspect>>
           ELSE /\ table' = [table EXCEPT ![child] = table[p]]
                /\ suspect' = [suspect EXCEPT ![child] =
                                 UNION {done[u].writes : u \in Neighbours(t)}]
        /\ UNCHANGED vars

\* A process of one thread calls exec; what it closes is left to Unseen.
Exec(t) ==
    /\ group[t] = t /\ Neighbours(t) = {}
    /\ Effect(t, Step("exec", << >>, {}, {}, NoObject, TRUE), TRUE)

Kernel ==
  /\ steps < MaxSteps /\ steps' = steps + 1
  /\ \E t \in Pid :
      \/ \E absolute, directory \in BOOLEAN, x, fd \in Cell, r \in Rel :
           Open(t, absolute, x, r, directory, fd)
      \/ \E type \in {"file_read", "file_write"}, fd \in Fd : Transfer(t, type, fd)
      \/ \E fd \in Fd : Close(t, fd) \/ Socket(t, fd) \/ Fchdir(t, fd)
      \/ \E old_fd, new_fd \in Fd : Dup(t, old_fd, new_fd)
      \/ \E type \in {"net_connect", "ipc_connect"}, fd \in Fd, e \in Endpoint :
           Connect(t, type, fd, e)
      \/ \E absolute \in BOOLEAN, r \in Rel : Chdir(t, absolute, r)
      \/ \E fd \in Fd, type \in {"none", "other"} :
           Unseen(t, fd, [type |-> type, name |-> Slash])
      \/ \E child \in Pid, is_thread \in BOOLEAN : Create(t, child, is_thread)
      \/ Exec(t)

-----------------------------------------------------------------------------
(* The report of a call at its exit stop, of a creation or of an exec. *)

Report(t, ts) ==
    LET s == done[t]
        a == s.args
    IN  /\ s.op # "none"
        /\ \/ s.op \notin {"create", "exec"} /\ on_dropped_syscall(t, ts)
           \/ s.op = "open" /\ on_open(t, a[1], a[2], a[3], a[4], a[5], ts)
           \/ s.op = "transfer" /\ on_transfer(t, a[1], a[2], ts)
           \/ s.op = "close" /\ on_close(t, a[1], ts)
           \/ s.op = "dup" /\ on_dup(t, a[1], a[2], ts)
           \/ s.op = "socket" /\ on_socket(t, a[1], ts)
           \/ s.op = "connect" /\ on_connect(t, a[1], a[2], a[3], ts)
           \/ s.op = "chdir" /\ on_chdir(t, a[1], a[2], ts)
           \/ s.op = "fchdir" /\ on_fchdir(t, a[1], ts)
           \/ s.op = "unseen" /\ on_other_syscall(t, ts)
           \/ s.op = "create" /\ on_process_created(t, a[1], a[2], ts)
           \/ s.op = "exec" /\ on_process_exec(t, NoExe, At(t, AT_FDCWD).name, ts)
        /\ done' = [done EXCEPT ![t] = NoStep]
        \* The copy has the mistakes of the original; a process that is discovered
        \* has no descriptors.
        /\ suspect' = [q \in Pid |->
              IF Copies(t, q) THEN suspect[q] \cup suspect[group[t]]
              ELSE IF s.op = "exec" /\ q = t /\ ~HasProcess(t) THEN Cell
              ELSE suspect[q]]
        /\ UNCHANGED <<table, group, steps>>

DNext == Kernel \/ \E t \in Pid, ts \in Time : Report(t, ts)
DSpec == DInit /\ [][DNext]_dvars

-----------------------------------------------------------------------------
(* Properties *)

\* ExecutionState and the kernel's side are well formed, also when an entry is
\* of another kind than the kernel's object.
DTypeOK ==
    /\ TypeOK
    /\ table \in [Pid -> [Cell -> Object]]
    /\ group \in [Pid -> Pid \cup {NoPid}]
    /\ \A t \in Pid : /\ done[t].object \in Object
                      /\ done[t].reads \cup done[t].writes \subseteq Cell
                      /\ done[t].sure \in BOOLEAN
    /\ suspect \in [Pid -> SUBSET Cell]
    /\ steps \in 0 .. MaxSteps

\* An entry stands for what the kernel has: the same kind and the right name,
\* or a name that admits to be unresolved.
Matches(resource, object) ==
    /\ resource.type = object.type
    /\ object.type = "file" => resource.name \in {object.name, Unresolved}

Unreported(p) == UNION {done[t].writes : t \in {u \in Pid : group[u] = p}}

\* Mistakes stay where they were made: of every process that ExecutionState knows,
\* each entry of fd_table and the working directory agree with the kernel, unless
\* the cell is as inherited from whyrun, or its last change was unseen, raced with
\* a neighbour's call, came before the creation of the process or the thread was
\* reported, or was made from such a cell.
TablesAgree ==
    \A p \in known :
      /\ \A x \in Fd \ (suspect[p] \cup Unreported(p)) :
           Matches(processes[p].fd_table[x], table[p][x])
      /\ AT_FDCWD \notin suspect[p] \cup Unreported(p) =>
           processes[p].cwd \in {table[p][AT_FDCWD].name, Unresolved}

\* The reports of open, read and write name the file the call was about, or no
\* file, and no read or write of a file is missed, unless the call was made before
\* its thread was known, raced, or used a suspect descriptor: one inherited from
\* whyrun, say.
EventsNameTheFile ==
    [][\A t \in Pid :
         done[t].op \in {"open", "transfer"} /\ done[t].sure /\ done'[t] = NoStep =>
           IF done[t].object.type = "file"
           THEN /\ Len(emitted') = 1
                /\ emitted'[1].resource \in {done[t].object.name, Unresolved}
           ELSE emitted' = << >>]_dvars
=============================================================================
