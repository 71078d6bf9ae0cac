---------------------- MODULE DescriptorTrackingProofs ----------------------
(***************************************************************************)
(* Proofs about DescriptorTracking, for any number of processes, threads,  *)
(* descriptors, names and calls.  DInv says what the kernel's side, the    *)
(* calls that are not reported yet and ExecutionState have in common: a    *)
(* call that is still `sure' races with no neighbour, and its report, if   *)
(* it came now, would have the outcome the call had; the cells of any      *)
(* other call are suspect already.                                         *)
(***************************************************************************)
EXTENDS DescriptorTracking, ExecutionStateProofs

-----------------------------------------------------------------------------
(* The inductive invariant *)

\* What ExecutionState has for a cell, and whether it stands for an object.
Held(process, x) == IF x = AT_FDCWD THEN process.cwd ELSE process.fd_table[x]
Agree(process, x, object) ==
    IF x = AT_FDCWD THEN process.cwd \in {object.name, Unresolved}
    ELSE Matches(process.fd_table[x], object)

\* The calls of the kernel are calls that ExecutionState can be told of.
IsStep(s) == /\ s = Step(s.op, s.args, s.reads, s.writes, s.object, s.sure)
             /\ s.reads \subseteq Cell /\ s.writes \subseteq Cell
             /\ s.object \in Object /\ s.sure \in BOOLEAN
IsOpen(s) ==
    /\ s.op = "open" /\ s.object.type = "file"
    /\ \E absolute, directory \in BOOLEAN, x, fd \in Cell, r \in Rel :
         /\ s.args = <<absolute, x, r, directory, fd>>
         /\ s.reads = (IF absolute THEN {} ELSE {x})
         /\ s.writes = {fd} \ {AT_FDCWD}
IsTransfer(s) ==
    /\ s.op = "transfer" /\ s.writes = {}
    /\ \E type \in {"file_read", "file_write"}, fd \in Fd :
         s.args = <<type, fd>> /\ s.reads = {fd}
IsClose(s) ==
    /\ s.op = "close" /\ s.object = NoObject /\ s.reads = {}
    /\ \E fd \in Fd : s.args = <<fd>> /\ s.writes = {fd}
IsDup(s) ==
    /\ s.op = "dup"
    /\ \E old_fd, new_fd \in Fd :
         s.args = <<old_fd, new_fd>> /\ s.reads = {old_fd} /\ s.writes = {new_fd}
IsSocket(s) ==
    /\ s.op = "socket" /\ s.object.type = "socket" /\ s.reads = {}
    /\ \E fd \in Fd : s.args = <<fd>> /\ s.writes = {fd}
IsConnect(s) ==
    /\ s.op = "connect" /\ s.object.type = "socket"
    /\ \E type \in {"net_connect", "ipc_connect"}, fd \in Fd, e \in Endpoint :
         s.args = <<type, fd, e>> /\ s.reads = {fd} /\ s.writes = {fd}
IsChdir(s) ==
    /\ s.op = "chdir" /\ s.object.type = "file" /\ s.writes = {AT_FDCWD}
    /\ \E absolute \in BOOLEAN, r \in Rel :
         s.args = <<absolute, r>> /\ s.reads = (IF absolute THEN {} ELSE {AT_FDCWD})
IsFchdir(s) ==
    /\ s.op = "fchdir" /\ s.object.type = "file" /\ s.writes = {AT_FDCWD}
    /\ \E fd \in Fd : s.args = <<fd>> /\ s.reads = {fd}
IsUnseen(s) ==
    /\ s.op = "unseen" /\ s.reads = {}
    /\ \E fd \in Fd : s.writes = {fd}
IsExec(s) == s.op = "exec" /\ s.reads = {} /\ s.writes = {}
IsCreate(s) ==
    /\ s.op = "create" /\ s.writes = {}
    /\ \E child \in Pid, is_thread \in BOOLEAN :
         s.args = <<child, is_thread>> /\ s.reads = (IF is_thread THEN {} ELSE Cell)
IsCall(s) == \/ IsOpen(s) \/ IsTransfer(s) \/ IsClose(s) \/ IsDup(s) \/ IsSocket(s)
             \/ IsConnect(s) \/ IsChdir(s) \/ IsFchdir(s) \/ IsUnseen(s) \/ IsExec(s)

KernelTypes ==
    /\ table \in [Pid -> [Cell -> Object]]
    /\ suspect \in [Pid -> SUBSET Cell]
    /\ steps \in 0 .. MaxSteps
    /\ done = [t \in Pid |-> done[t]]
    /\ \A t \in Pid : /\ IsStep(done[t])
                      /\ done[t] = NoStep \/ IsCall(done[t]) \/ IsCreate(done[t])

\* The thread index of ExecutionState is right about every thread it knows, and
\* the entries are those of processes.
GroupInv ==
    /\ group \in [Pid -> Pid \cup {NoPid}] /\ group[Root] = Root
    /\ \A t \in Pid :
         /\ group[t] = NoPid => done[t] = NoStep
         /\ group[t] # NoPid => group[group[t]] = group[t]
         /\ thread_to_process[t] # NoPid =>
              thread_to_process[t] = group[t] /\ group[t] \in known
         /\ t \in known => thread_to_process[t] = t
         /\ done[t].op = "exec" => group[t] = t

\* A child is announced by one thread, of another process than the child is; what
\* is held for a child that was discovered before may be wrong in every cell.
ChildOf(t, child, is_thread) ==
    /\ child # Root /\ child # group[t]
    /\ group[child] = IF is_thread THEN group[t] ELSE child
    /\ ~is_thread /\ child \in known => suspect[child] = Cell
NewsInv == \A t \in Pid : done[t].op = "create" =>
    /\ ChildOf(t, done[t].args[1], done[t].args[2])
    /\ \A u \in Pid \ {t} : done[u].op = "create" => done[u].args[1] # done[t].args[1]

\* The report of call s to this process, if it came now, would have the outcome
\* of the call.
Foreseen(s, process) ==
    /\ s.op = "open" =>
         resolve_path(process, s.args[1], s.args[2], s.args[3])
           \in {s.object.name, Unresolved}
    /\ s.op = "chdir" =>
         resolve_path(process, s.args[1], AT_FDCWD, s.args[2])
           \in {s.object.name, Unresolved}
    /\ s.op \in {"transfer", "dup", "connect", "fchdir"} =>
         \A x \in s.reads : Matches(process.fd_table[x], s.object)
    /\ s.op # "unseen"

\* A sure call is one of a thread that is known, whose entry no report replaces; it
\* races with no neighbour, is foreseen, and was the last one to change its cells.
\* The cells of any other are suspect.
SureCall(t) ==
    IF done[t].sure
    THEN /\ thread_to_process[t] = group[t]
         /\ \A u \in Pid : ~Copies(u, group[t])
         /\ Foreseen(done[t], processes[group[t]])
         /\ \A u \in Neighbours(t) : ~Blurs(done[u], done[t])
         /\ \A x \in done[t].writes : table[group[t]][x] = done[t].object
    ELSE done[t].writes \subseteq suspect[group[t]]
SureInv == \A t \in Pid : IsCall(done[t]) => SureCall(t)

\* A child that is not reported yet: its table is that of its parent, except for
\* what the two have changed since and what was not reported when they parted.
CopyCall(t, child) ==
    /\ \A x \in Cell \ suspect[child] : table[child][x] = table[group[t]][x]
    /\ \A u \in Pid : group[u] = group[t] => done[u].writes \subseteq suspect[child]
CopyInv == \A t \in Pid : done[t].op = "create" /\ ~done[t].args[2] =>
             CopyCall(t, done[t].args[1])

\* Every other cell agrees: TablesAgree, with one treatment of all the cells.
AgreeInv == \A p \in known : \A x \in Cell \ (suspect[p] \cup Unreported(p)) :
              Agree(processes[p], x, table[p][x])

DInv == KernelTypes /\ GroupInv /\ NewsInv /\ SureInv /\ CopyInv /\ AgreeInv

-----------------------------------------------------------------------------
(* Facts about single calls *)

\* Whether a call is sure says nothing about what it is.
LEMMA SureIsApart ==
    ASSUME NEW s, IsStep(s), NEW b \in BOOLEAN
    PROVE  LET r == [s EXCEPT !.sure = b]
           IN  /\ IsStep(r)
               /\ r.op = s.op /\ r.args = s.args /\ r.reads = s.reads
               /\ r.writes = s.writes /\ r.object = s.object /\ r.sure = b
BY DEF IsStep, Step

\* What a call is depends on everything but its sureness.
LEMMA SameCall ==
    ASSUME NEW s, NEW r, r.op = s.op, r.args = s.args, r.reads = s.reads,
           r.writes = s.writes, r.object = s.object
    PROVE  /\ IsCall(s) <=> IsCall(r)
           /\ IsCreate(s) <=> IsCreate(r)
BY DEF IsCall, IsCreate, IsOpen, IsTransfer, IsClose, IsDup, IsSocket, IsConnect,
       IsChdir, IsFchdir, IsUnseen, IsExec

\* No call at all is no call of either sort, and no call creates.
LEMMA SortsOfCalls ==
    /\ IsStep(NoStep) /\ ~IsCall(NoStep) /\ NoStep.writes = {} /\ NoStep.op = "none"
    /\ \A s : IsCall(s) => s.op \notin {"create", "none"}
    /\ \A s : IsCreate(s) => s.op = "create" /\ s.writes = {}
  <1>1. NoStep.writes = {} /\ NoStep.op = "none"
    BY DEF NoStep, Step
  <1>2. IsStep(NoStep)
    BY NameAssumption DEF NoStep, Step, IsStep, NoObject, Object
  <1>3. \A s : IsCall(s) => s.op \notin {"create", "none"}
    BY DEF IsCall, IsOpen, IsTransfer, IsClose, IsDup, IsSocket, IsConnect,
           IsChdir, IsFchdir, IsUnseen, IsExec
  <1>4. \A s : IsCreate(s) => s.op = "create" /\ s.writes = {}
    BY DEF IsCreate
  <1> QED
    BY <1>1, <1>2, <1>3, <1>4

\* The arguments of a creation; one of a process depends on every cell.
LEMMA CreateArgs ==
    ASSUME NEW s, IsCreate(s)
    PROVE  /\ s.args[1] \in Pid /\ s.args[2] \in BOOLEAN
           /\ s.args = <<s.args[1], s.args[2]>>
           /\ ~s.args[2] => s.args = <<s.args[1], FALSE>> /\ s.reads = Cell
  <1>1. PICK child \in Pid, is_thread \in BOOLEAN :
           s.args = <<child, is_thread>> /\ s.reads = (IF is_thread THEN {} ELSE Cell)
    BY DEF IsCreate
  <1>2. s.args[1] = child /\ s.args[2] = is_thread
    BY <1>1
  <1>3. ~is_thread => is_thread = FALSE
    OBVIOUS
  <1> QED
    BY <1>1, <1>2, <1>3

\* The outcome of a report depends on the cells the call has read only.
LEMMA ForeseenFromReads ==
    ASSUME NEW s, IsCall(s), NEW P, NEW Q,
           \A x \in s.reads : Held(P, x) = Held(Q, x),
           Foreseen(s, P)
    PROVE  Foreseen(s, Q)
  <1>1. CASE IsOpen(s)
    BY <1>1 DEF IsOpen, Foreseen, resolve_path, Held, Cell
  <1>2. CASE IsChdir(s)
    BY <1>2 DEF IsChdir, Foreseen, resolve_path, Held
  <1>3. CASE IsTransfer(s) \/ IsDup(s) \/ IsConnect(s) \/ IsFchdir(s)
    BY <1>3, NameAssumption DEF IsTransfer, IsDup, IsConnect, IsFchdir, Foreseen, Held
  <1>4. CASE IsClose(s) \/ IsSocket(s) \/ IsUnseen(s) \/ IsExec(s)
    BY <1>4 DEF IsClose, IsSocket, IsUnseen, IsExec, Foreseen
  <1> QED
    BY <1>1, <1>2, <1>3, <1>4 DEF IsCall

\* Whether a cell agrees depends on what is held for it only.
LEMMA AgreeFromHeld ==
    ASSUME NEW P, NEW Q, NEW x, Held(P, x) = Held(Q, x), NEW object
    PROVE  Agree(P, x, object) <=> Agree(Q, x, object)
BY DEF Held, Agree

\* The thread index leads to the process that the kernel has for the thread.
LEMMA KnownThreads ==
    ASSUME TypeOK, DInv, NEW t \in Pid, HasProcess(t)
    PROVE  /\ group[t] \in Pid /\ group[t] \in known /\ thread_to_process[t] = group[t]
           /\ process_for_thread(t) = group[t] /\ ProcessOf(t) = processes[group[t]]
  <1>1. thread_to_process[t] # NoPid
    BY PidAssumption DEF HasProcess, process_for_thread, DInv, GroupInv
  <1>2. thread_to_process[t] = group[t] /\ group[t] \in known
    BY <1>1 DEF DInv, GroupInv
  <1> QED
    BY <1>1, <1>2 DEF process_for_thread, ProcessOf, TypeOK

\* A thread that is not known is in the index neither as a thread nor as a process.
LEMMA UnknownThreads ==
    ASSUME TypeOK, DInv, NEW t \in Pid, ~HasProcess(t)
    PROVE  thread_to_process[t] = NoPid /\ t \notin known /\ process_for_thread(t) = t
  <1>1. thread_to_process[t] = NoPid
    <2>1. thread_to_process[t] # NoPid =>
             thread_to_process[t] = group[t] /\ group[t] \in known
      BY DEF DInv, GroupInv
    <2> QED
      BY <2>1 DEF HasProcess, process_for_thread
  <1> QED
    BY <1>1 DEF HasProcess, process_for_thread

-----------------------------------------------------------------------------
(* A call takes effect *)

\* DInv stays when a thread makes a call that ExecutionState, as far as the cells
\* the call read agree, will be able to follow.
LEMMA EffectKeeps ==
    ASSUME TypeOK, DInv, NEW t \in Pid, NEW s, NEW seen \in BOOLEAN,
           IsStep(s), IsCall(s),
           (/\ seen
            /\ \A x \in s.reads : Agree(processes[group[t]], x, table[group[t]][x]))
             => Foreseen(s, processes[group[t]]),
           s.op = "exec" => group[t] = t,
           Effect(t, s, seen),
           steps < MaxSteps, steps' = steps + 1
    PROVE  DInv'
  <1> DEFINE p == group[t]
             blurred == {u \in Neighbours(t) : Blurs(s, done[u])}
             sure == /\ seen /\ Settled(t) /\ s.reads \cap suspect[p] = {}
                     /\ \A u \in Neighbours(t) : ~Blurs(done[u], s)
             mine == [s EXCEPT !.sure = sure]
  <1>1. /\ p \in Pid /\ p # NoPid /\ done[t] = NoStep
        /\ group' = group /\ processes' = processes /\ known' = known
        /\ thread_to_process' = thread_to_process
        /\ group \in [Pid -> Pid \cup {NoPid}]
    BY DEF Effect, DInv, GroupInv, vars, state
  <1>2. table' = [table EXCEPT ![p] =
                    [x \in Cell |-> IF x \in s.writes THEN s.object ELSE table[p][x]]]
    BY <1>1 DEF Effect, DInv, KernelTypes
  <1>3. done' = [u \in Pid |-> IF u = t THEN mine
                                ELSE IF u \in blurred THEN [done[u] EXCEPT !.sure = FALSE]
                                ELSE done[u]]
    BY DEF Effect
  <1>4. suspect' = [q \in Pid |->
              IF q = p THEN (suspect[p] \ s.writes)
                            \cup (IF sure THEN {} ELSE s.writes)
                            \cup UNION {done[u].writes : u \in blurred}
              ELSE IF \E u \in blurred : Copies(u, q) THEN suspect[q] \cup s.writes
              ELSE suspect[q]]
    BY DEF Effect
  <1>5. sure \in BOOLEAN /\ blurred \subseteq Pid \ {t}
    BY DEF Neighbours, Settled
  <1>6. /\ IsStep(mine) /\ mine.op = s.op /\ mine.args = s.args /\ mine.reads = s.reads
        /\ mine.writes = s.writes /\ mine.object = s.object /\ mine.sure = sure
        /\ IsCall(mine)
    <2>1. /\ IsStep(mine) /\ mine.op = s.op /\ mine.args = s.args /\ mine.reads = s.reads
          /\ mine.writes = s.writes /\ mine.object = s.object /\ mine.sure = sure
      BY <1>5, SureIsApart
    <2> QED
      BY <2>1, SameCall
  <1>7. \A u \in Pid : IsStep(done[u]) /\ (done[u] = NoStep \/ IsCall(done[u]) \/ IsCreate(done[u]))
    BY DEF DInv, KernelTypes
  \* The neighbours' calls change in nothing but their sureness.
  <1>8. ASSUME NEW u \in Pid, u # t
        PROVE  /\ IsStep(done'[u]) /\ done'[u].op = done[u].op /\ done'[u].args = done[u].args
               /\ done'[u].reads = done[u].reads /\ done'[u].writes = done[u].writes
               /\ done'[u].object = done[u].object
               /\ done'[u].sure => done[u].sure /\ u \notin blurred
               /\ IsCall(done'[u]) <=> IsCall(done[u])
               /\ IsCreate(done'[u]) <=> IsCreate(done[u])
               /\ u \notin blurred => done'[u] = done[u]
    <2>0. IsStep(done[u]) /\ done[u].sure \in BOOLEAN
      BY <1>7 DEF IsStep
    <2>1. CASE u \in blurred
      <3>1. done'[u] = [done[u] EXCEPT !.sure = FALSE]
        BY <1>3, <1>8, <2>1
      <3>2. /\ IsStep(done'[u]) /\ done'[u].op = done[u].op /\ done'[u].args = done[u].args
            /\ done'[u].reads = done[u].reads /\ done'[u].writes = done[u].writes
            /\ done'[u].object = done[u].object
        <4> DEFINE r == [done[u] EXCEPT !.sure = FALSE]
        <4>1. /\ IsStep(r) /\ r.op = done[u].op /\ r.args = done[u].args
              /\ r.reads = done[u].reads /\ r.writes = done[u].writes
              /\ r.object = done[u].object
          BY <2>0, SureIsApart
        <4> HIDE DEF r
        <4> QED
          BY <4>1, <3>1 DEF r
      <3>5. ~done'[u].sure
        BY <2>0, <3>1 DEF IsStep, Step
      <3>3. IsCall(done'[u]) <=> IsCall(done[u])
        BY <3>2, SameCall
      <3>4. IsCreate(done'[u]) <=> IsCreate(done[u])
        BY <3>2, SameCall
      <3> HIDE DEF blurred
      <3> QED
        BY <3>2, <3>3, <3>4, <3>5, <2>1
    <2>2. CASE u \notin blurred
      <3>1. done'[u] = done[u]
        BY <1>3, <1>8, <2>2
      <3> HIDE DEF blurred
      <3> QED
        BY <2>0, <2>2, <3>1
    <2> QED
      BY <2>1, <2>2
  <1>9. done'[t] = mine
    BY <1>3
  <1>10. \A u \in Pid : done'[u].writes = IF u = t THEN s.writes ELSE done[u].writes
    <2> HIDE DEF blurred, mine, sure
    <2> QED
      BY <1>6, <1>8, <1>9
  <1>11. s.op \notin {"create", "none"}
    BY SortsOfCalls
  <1>12. \A u \in Pid : Neighbours(u)' = Neighbours(u)
    BY <1>1 DEF Neighbours
  <1>13. /\ table \in [Pid -> [Cell -> Object]] /\ suspect \in [Pid -> SUBSET Cell]
         /\ s.writes \subseteq Cell /\ s.reads \subseteq Cell /\ s.object \in Object
    BY DEF DInv, KernelTypes, IsStep
  <1>14. \A q \in Pid \ {p} : table'[q] = table[q] /\ suspect[q] \subseteq suspect'[q]
    BY <1>1, <1>2, <1>4, <1>13
  <1>15. \A x \in Cell : table'[p][x] = IF x \in s.writes THEN s.object ELSE table[p][x]
    BY <1>1, <1>2, <1>13
  <1>16. suspect'[p] = (suspect[p] \ s.writes) \cup (IF sure THEN {} ELSE s.writes)
                        \cup UNION {done[u].writes : u \in blurred}
    BY <1>1, <1>4
  <1>17. \A u \in blurred : u \in Pid /\ u # t /\ group[u] = p
    BY DEF Neighbours
  <1>18. \A u \in Pid : done[u].writes \subseteq Cell
    BY <1>7 DEF IsStep
  <1>19. KernelTypes'
    <2>1. table' \in [Pid -> [Cell -> Object]]
      BY <1>1, <1>2, <1>13
    <2>2. suspect' \in [Pid -> SUBSET Cell]
      <3>1. \A q \in Pid : suspect'[q] \subseteq Cell
        <4> HIDE DEF blurred, sure
        <4> SUFFICES ASSUME NEW q \in Pid PROVE suspect'[q] \subseteq Cell
          OBVIOUS
        <4>1. CASE q = p
          BY <4>1, <1>13, <1>16, <1>17, <1>18
        <4>2. CASE q # p
          BY <4>2, <1>4, <1>13
        <4> QED
          BY <4>1, <4>2
      <3> QED
        BY <1>4, <3>1
    <2>3. steps' \in 0 .. MaxSteps
      BY ThreadAssumption DEF DInv, KernelTypes
    <2>4. done' = [u \in Pid |-> done'[u]]
      BY <1>3
    <2>5. ASSUME NEW u \in Pid
          PROVE  /\ IsStep(done'[u])
                 /\ done'[u] = NoStep \/ IsCall(done'[u]) \/ IsCreate(done'[u])
      <3>1. CASE u = t
        BY <3>1, <1>6, <1>9
      <3>2. CASE u # t
        <4>1. CASE u \in blurred
          <5>1. Blurs(s, done[u])
            BY <4>1
          <5>2. done[u] # NoStep
            BY <5>1 DEF Blurs, NoStep, Step
          <5> QED
            BY <5>2, <1>7, <1>8, <3>2
        <4>2. CASE u \notin blurred
          <5>1. done'[u] = done[u]
            BY <1>8, <3>2, <4>2
          <5> QED
            BY <5>1, <1>7
        <4> QED
          BY <4>1, <4>2
      <3> QED
        BY <3>1, <3>2
    <2> QED
      BY <2>1, <2>2, <2>3, <2>4, <2>5 DEF KernelTypes, IsStep, IsCall, IsCreate, IsOpen,
         IsTransfer, IsClose, IsDup, IsSocket, IsConnect, IsChdir, IsFchdir, IsUnseen, IsExec
  \* Creations are announced as before; a child whose creation is not reported is
  \* not settled.
  <1>20. ASSUME NEW u \in Pid, done'[u].op = "create"
         PROVE  /\ u # t /\ done[u].op = "create" /\ done'[u].args = done[u].args
                /\ IsCreate(done[u])
    <2>1. u # t
      BY <1>6, <1>9, <1>11, <1>20
    <2>2. done[u].op = "create" /\ done'[u].args = done[u].args
      BY <2>1, <1>8, <1>20
    <2> QED
      BY <2>1, <2>2, <1>7, SortsOfCalls
  <1>24. \A u, q \in Pid :
           done'[u].op = "create" /\ done'[u].args = <<q, FALSE>> => Copies(u, q)
    BY <1>20 DEF Copies
  <1>25. \A u \in Pid : Copies(u, p) => ~sure
    BY DEF Settled
  <1>26. ~sure => suspect[p] \subseteq suspect'[p] /\ s.writes \subseteq suspect'[p]
    <2> HIDE DEF sure, blurred, p
    <2> QED
      BY <1>16
  <1>27. GroupInv'
    <2>1. \A u \in Pid : group[u] = NoPid => done'[u] = NoStep
      <3> SUFFICES ASSUME NEW u \in Pid, group[u] = NoPid PROVE done'[u] = NoStep
        OBVIOUS
      <3>1. u \notin blurred /\ u # t
        BY <1>1, <1>17
      <3> HIDE DEF blurred
      <3> QED
        BY <1>8, <3>1 DEF DInv, GroupInv
    <2>2. \A u \in Pid : done'[u].op = "exec" => group[u] = u
      <3> HIDE DEF mine, sure, blurred
      <3> QED
        BY <1>6, <1>8, <1>9 DEF DInv, GroupInv
    <2> QED
      BY <2>1, <2>2, <1>1 DEF DInv, GroupInv
  <1>28. NewsInv'
    <2> SUFFICES ASSUME NEW u \in Pid, done'[u].op = "create"
                 PROVE  /\ ChildOf(u, done[u].args[1], done[u].args[2])'
                        /\ \A v \in Pid \ {u} :
                             done'[v].op = "create" => done'[v].args[1] # done'[u].args[1]
      BY DEF NewsInv
    <2>1. /\ done[u].op = "create" /\ done'[u].args = done[u].args /\ IsCreate(done[u])
      BY <1>20
    <2>2. /\ ChildOf(u, done[u].args[1], done[u].args[2])
          /\ \A v \in Pid \ {u} :
               done[v].op = "create" => done[v].args[1] # done[u].args[1]
      BY <2>1 DEF DInv, NewsInv
    <2>3. \A v \in Pid \ {u} :
             done'[v].op = "create" => done'[v].args[1] # done'[u].args[1]
      BY <2>1, <2>2, <1>20
    <2> DEFINE child == done[u].args[1]
               is_thread == done[u].args[2]
    <2>4. /\ child \in Pid /\ is_thread \in BOOLEAN
          /\ ~is_thread => done[u].args = <<child, FALSE>>
      BY <2>1, CreateArgs
    <2>5. ASSUME ~is_thread, child \in known PROVE suspect'[child] = Cell
      <3>1. suspect[child] = Cell
        BY <2>2, <2>5 DEF ChildOf
      <3>2. suspect[child] \subseteq suspect'[child]
        <4>1. CASE child # p
          BY <4>1, <2>4, <1>14
        <4>2. CASE child = p
          <5>1. Copies(u, p)
            BY <2>1, <2>4, <2>5, <4>2 DEF Copies
          <5> QED
            BY <4>2, <5>1, <1>25, <1>26
        <4> QED
          BY <4>1, <4>2
      <3>3. suspect'[child] \subseteq Cell
        BY <1>19, <2>4 DEF KernelTypes
      <3> QED
        BY <3>1, <3>2, <3>3
    <2>6. ChildOf(u, child, is_thread)
      BY <2>2
    <2>7. /\ child # Root /\ child # group[u]
          /\ group[child] = IF is_thread THEN group[u] ELSE child
      BY <2>6 DEF ChildOf
    <2>8. child = done'[u].args[1] /\ is_thread = done'[u].args[2]
      BY <2>1
    <2> HIDE DEF child, is_thread
    <2> QED
      BY <2>3, <2>5, <2>7, <2>8, <1>1 DEF ChildOf
  <1>21. SureInv'
    <2> SUFFICES ASSUME NEW u \in Pid, IsCall(done[u])'
                 PROVE  SureCall(u)'
      BY DEF SureInv
    <2>0. IsCall(done'[u])
      BY DEF IsCall, IsOpen, IsTransfer, IsClose, IsDup, IsSocket, IsConnect, IsChdir,
             IsFchdir, IsUnseen, IsExec
    <2>1. CASE u = t
      <3>1. CASE sure
        <4>1. \A v \in Neighbours(t) : ~Blurs(done[v], s)
          BY <3>1
        <4>10. /\ HasProcess(t) /\ \A v \in Pid : ~Copies(v, p)
          BY <3>1 DEF Settled
        <4>11. p \in known /\ thread_to_process[t] = p
          BY <4>10, KnownThreads
        <4>2. Foreseen(s, processes[p])
          <5>1. ASSUME NEW x \in s.reads PROVE Agree(processes[p], x, table[p][x])
            <6>1. x \in Cell /\ x \notin suspect[p]
              BY <3>1, <1>13
            <6>2. \A v \in Pid : group[v] = p => x \notin done[v].writes
              BY <4>1, <1>1, SortsOfCalls DEF Neighbours, Blurs
            <6>3. x \notin Unreported(p)
              BY <6>2 DEF Unreported
            <6> QED
              BY <6>1, <6>3, <4>11 DEF DInv, AgreeInv
          <5> QED
            BY <3>1, <5>1
        <4>3. Foreseen(mine, processes[p])
          <5> HIDE DEF mine
          <5> QED
            BY <4>2, <1>6 DEF Foreseen
        <4>4. \A v \in Neighbours(t) : ~Blurs(done'[v], mine)
          BY <4>1, <1>6, <1>8 DEF Neighbours, Blurs
        <4>5. \A x \in mine.writes : table'[p][x] = mine.object
          BY <1>6, <1>13, <1>15
        <4> HIDE DEF mine, sure, p
        <4>6. Foreseen(done[t], processes[group[t]])'
          BY <4>3, <1>1, <1>9 DEF Foreseen, p, resolve_path, Matches
        <4>7. (\A v \in Neighbours(t) : ~Blurs(done[v], done[t]))'
          BY <4>4, <1>9, <1>12 DEF Blurs
        <4>8. (\A x \in done[t].writes : table[group[t]][x] = done[t].object)'
          BY <4>5, <1>1, <1>9 DEF p
        <4>9. done'[t].sure
          BY <3>1, <1>6, <1>9
        <4>12. thread_to_process'[t] = group'[t] /\ \A v \in Pid : ~Copies(v, group[t])'
          BY <4>10, <4>11, <1>1, <1>24 DEF Copies, p
        <4> QED
          BY <4>6, <4>7, <4>8, <4>9, <4>12, <2>1 DEF SureCall
      <3>2. CASE ~sure
        <4>1. ~done'[t].sure
          BY <3>2, <1>6, <1>9
        <4>2. done'[t].writes \subseteq suspect'[p]
          BY <3>2, <1>10, <1>16
        <4> QED
          BY <4>1, <4>2, <2>1, <1>1 DEF SureCall
      <3> QED
        BY <3>1, <3>2
    <2>2. CASE u # t /\ u \in blurred
      <3>1. ~done'[u].sure
        BY <2>2, <1>8
      <3>2. done'[u].writes \subseteq suspect'[p]
        BY <2>2, <1>8, <1>16
      <3> QED
        BY <2>2, <3>1, <3>2, <1>1, <1>17 DEF SureCall
    <2>3. CASE u # t /\ u \notin blurred
      <3>1. done'[u] = done[u] /\ IsCall(done[u])
        BY <2>0, <2>3, <1>8
      <3>2. SureCall(u)
        BY <3>1 DEF DInv, SureInv
      <3>3. group[u] \in Pid
        BY <3>1, <1>1, SortsOfCalls DEF DInv, GroupInv
      <3>8. done[u].sure => /\ thread_to_process'[u] = group'[u]
                            /\ \A v \in Pid : ~Copies(v, group[u])'
        BY <3>2, <3>3, <1>1, <1>24 DEF SureCall, Copies
      <3>4. group[u] = p => ~Blurs(s, done[u])
        BY <2>3 DEF Neighbours
      <3>5. group[u] = p => done[u].writes \cap s.writes = {}
        BY <3>4 DEF Blurs
      <3>6. CASE done[u].sure
        <4>1. Foreseen(done[u], processes[group[u]])'
          BY <3>1, <3>2, <3>6, <1>1 DEF SureCall, Foreseen, resolve_path, Matches
        <4>2. ASSUME NEW v \in Neighbours(u) PROVE ~Blurs(done'[v], done'[u])
          <5>1. CASE v = t
            BY <5>1, <3>1, <3>4, <1>6, <1>9 DEF Neighbours, Blurs
          <5>2. CASE v # t
            BY <5>2, <3>1, <3>2, <3>6, <1>8 DEF Neighbours, Blurs, SureCall
          <5> QED
            BY <5>1, <5>2
        <4>3. \A x \in done[u].writes : table'[group[u]][x] = done[u].object
          <5> HIDE DEF p
          <5> QED
            BY <3>2, <3>3, <3>5, <3>6, <1>14, <1>15, <1>18 DEF SureCall
        <4>4. (\A v \in Neighbours(u) : ~Blurs(done[v], done[u]))'
          BY <4>2, <1>12 DEF Blurs
        <4>5. (\A x \in done[u].writes : table[group[u]][x] = done[u].object)'
          BY <4>3, <3>1, <1>1
        <4> QED
          BY <4>1, <4>4, <4>5, <3>1, <3>6, <3>8 DEF SureCall
      <3>7. CASE ~done[u].sure
        <4>1. done[u].writes \subseteq suspect[group[u]]
          BY <3>2, <3>7 DEF SureCall
        <4>2. done[u].writes \subseteq suspect'[group[u]]
          <5> HIDE DEF p, sure, blurred
          <5> QED
            BY <4>1, <3>3, <3>5, <1>14, <1>16
        <4> QED
          BY <4>2, <3>1, <3>7, <1>1 DEF SureCall
      <3> QED
        BY <3>6, <3>7
    <2> HIDE DEF blurred
    <2> QED
      BY <2>1, <2>2, <2>3
  <1>22. CopyInv'
    <2> SUFFICES ASSUME NEW u \in Pid, done'[u].op = "create", ~done'[u].args[2]
                 PROVE  CopyCall(u, done[u].args[1])'
      BY DEF CopyInv
    <2>1. /\ u # t /\ done[u].op = "create" /\ done'[u].args = done[u].args
          /\ IsCreate(done[u]) /\ ~done[u].args[2]
      BY <1>20
    <2> DEFINE child == done[u].args[1]
               g == group[u]
    <2>2. child \in Pid /\ done[u].args = <<child, FALSE>> /\ done[u].reads = Cell
      BY <2>1, CreateArgs
    <2>3. Copies(u, child) /\ done'[u].args[1] = child
      BY <2>1, <2>2 DEF Copies
    <2>4. child # g /\ g \in Pid
      BY <2>1, <1>1, SortsOfCalls DEF DInv, NewsInv, ChildOf, GroupInv
    <2>5. /\ \A x \in Cell \ suspect[child] : table[child][x] = table[g][x]
          /\ \A v \in Pid : group[v] = g => done[v].writes \subseteq suspect[child]
      BY <2>1 DEF DInv, CopyInv, CopyCall
    <2> HIDE DEF child, g, p, sure, blurred
    <2>6. suspect[child] \subseteq suspect'[child]
      <3>1. CASE child = p
        BY <3>1, <2>3, <1>25, <1>26
      <3>2. CASE child # p
        BY <3>2, <2>2, <1>14
      <3> QED
        BY <3>1, <3>2
    \* What the call changes in either of the two tables is suspect from now on.
    <2>7. child = p \/ g = p => s.writes \subseteq suspect'[child]
      <3>1. CASE child = p
        BY <3>1, <2>3, <1>25, <1>26
      <3>2. CASE g = p /\ s.writes # {}
        <4>1. u \in blurred
          BY <3>2, <2>1, <2>2, <1>13 DEF Neighbours, Blurs, g, p, blurred
        <4>2. suspect'[child] = suspect[child] \cup s.writes
          BY <3>2, <4>1, <2>2, <2>3, <2>4, <1>4
        <4> QED
          BY <4>2
      <3> QED
        BY <3>1, <3>2
    <2>8. ASSUME NEW x \in Cell, x \notin suspect'[child]
          PROVE  table'[child][x] = table'[g][x]
      <3>1. table[child][x] = table[g][x]
        BY <2>5, <2>6, <2>8
      <3>2. child = p \/ g = p => x \notin s.writes
        BY <2>7, <2>8
      <3>3. table'[child][x] = table[child][x]
        BY <3>2, <2>2, <1>14, <1>15
      <3>4. table'[g][x] = table[g][x]
        BY <3>2, <2>4, <1>14, <1>15
      <3> QED
        BY <3>1, <3>3, <3>4
    <2>9. ASSUME NEW v \in Pid, group[v] = g PROVE done'[v].writes \subseteq suspect'[child]
      <3>1. CASE v = t
        BY <3>1, <2>7, <2>9, <1>10 DEF p
      <3>2. CASE v # t
        BY <3>2, <2>5, <2>6, <2>9, <1>10
      <3> QED
        BY <3>1, <3>2
    <2> QED
      BY <2>3, <2>8, <2>9, <1>1 DEF CopyCall, g
  <1>23. AgreeInv'
    <2> SUFFICES ASSUME NEW q \in known, NEW x \in Cell,
                        x \notin suspect'[q], x \notin Unreported(q)'
                 PROVE  Agree(processes[q], x, table'[q][x])
      BY <1>1 DEF AgreeInv, Agree, Matches
    <2>1. q \in Pid
      BY DEF TypeOK
    <2>2. \A v \in Pid : group[v] = q => x \notin done'[v].writes
      BY <1>1 DEF Unreported
    <2>3. \A v \in Pid : group[v] = q => x \notin done[v].writes
      BY <2>2, <1>1, <1>10, SortsOfCalls
    <2>4. x \notin Unreported(q)
      BY <2>3 DEF Unreported
    <2>5. CASE q = p
      <3>1. x \notin s.writes
        BY <2>2, <2>5, <1>10
      <3>2. x \notin suspect[p]
        BY <3>1, <2>5, <1>16
      <3> QED
        BY <3>1, <3>2, <2>4, <2>5, <1>15 DEF DInv, AgreeInv
    <2>6. CASE q # p
      BY <2>1, <2>4, <2>6, <1>14 DEF DInv, AgreeInv
    <2> QED
      BY <2>5, <2>6
  <1> QED
    BY <1>19, <1>21, <1>22, <1>23, <1>27, <1>28 DEF DInv

\* DInv stays when a thread creates a child or another thread.
LEMMA CreateKeeps ==
    ASSUME TypeOK, DInv, NEW t \in Pid, NEW child \in Pid, NEW is_thread \in BOOLEAN,
           Create(t, child, is_thread),
           steps < MaxSteps, steps' = steps + 1
    PROVE  DInv'
  <1> DEFINE p == group[t]
             mine == Step("create", <<child, is_thread>>,
                          IF is_thread THEN {} ELSE Cell, {}, NoObject, TRUE)
  <1>1. /\ p \in Pid /\ p # NoPid /\ done[t] = NoStep /\ group[child] = NoPid
        /\ processes' = processes /\ known' = known
        /\ thread_to_process' = thread_to_process
        /\ group \in [Pid -> Pid \cup {NoPid}] /\ group[Root] = Root
    BY DEF Create, DInv, GroupInv, vars, state
  <1>2. /\ done' = [done EXCEPT ![t] = mine]
        /\ group' = [group EXCEPT ![child] = IF is_thread THEN p ELSE child]
    BY DEF Create
  <1>3. /\ IsStep(mine) /\ IsCreate(mine)
        /\ mine.op = "create" /\ mine.args = <<child, is_thread>> /\ mine.writes = {}
    BY NameAssumption DEF IsStep, Step, IsCreate, NoObject, Object
  <1> HIDE DEF mine
  <1>4. done'[t] = mine /\ \A u \in Pid \ {t} : done'[u] = done[u]
    BY <1>2 DEF DInv, KernelTypes
  <1>5. \A u \in Pid : done'[u].writes = done[u].writes
    BY <1>1, <1>3, <1>4, SortsOfCalls
  <1>6. \A u \in Pid : /\ IsStep(done[u]) /\ done[u].writes \subseteq Cell
                       /\ done[u] = NoStep \/ IsCall(done[u]) \/ IsCreate(done[u])
    BY DEF DInv, KernelTypes, IsStep
  \* Nobody knows the child yet, and nobody else announces it.
  <1>7. /\ child # p /\ child # t /\ child # Root /\ \A u \in Pid : group[u] # child
        /\ done[child] = NoStep /\ done'[child] = NoStep
    <2>1. \A u \in Pid : group[u] # NoPid => group[group[u]] = group[u]
      BY DEF DInv, GroupInv
    <2>2. done[child] = NoStep
      BY <1>1 DEF DInv, GroupInv
    <2> QED
      BY <2>1, <2>2, <1>1, <1>4, PidAssumption
  <1>8. child \notin known
    BY <1>1, PidAssumption DEF DInv, GroupInv
  <1>9. \A u \in Pid : done[u].op = "create" => group[u] \in Pid /\ done[u].args[1] # child
    <2> SUFFICES ASSUME NEW u \in Pid, done[u].op = "create"
                 PROVE  group[u] \in Pid /\ done[u].args[1] # child
      OBVIOUS
    <2>1. group[u] \in Pid /\ group[u] # NoPid
      BY <1>1, SortsOfCalls, PidAssumption DEF DInv, GroupInv
    <2>2. ChildOf(u, done[u].args[1], done[u].args[2])
      BY DEF DInv, NewsInv
    <2> QED
      BY <2>1, <2>2, <1>1, PidAssumption DEF ChildOf
  <1>10. /\ table \in [Pid -> [Cell -> Object]] /\ suspect \in [Pid -> SUBSET Cell]
    BY DEF DInv, KernelTypes
  <1>11. /\ table' \in [Pid -> [Cell -> Object]] /\ suspect' \in [Pid -> SUBSET Cell]
         /\ \A q \in Pid \ {child} : table'[q] = table[q] /\ suspect'[q] = suspect[q]
    <2>1. CASE is_thread
      BY <2>1, <1>10 DEF Create
    <2>2. CASE ~is_thread
      <3> DEFINE new == UNION {done[u].writes : u \in Neighbours(t)}
      <3>1. new \subseteq Cell
        BY <1>6 DEF Neighbours
      <3>2. /\ table' = [table EXCEPT ![child] = table[p]]
            /\ suspect' = [suspect EXCEPT ![child] = new]
        BY <2>2 DEF Create
      <3> HIDE DEF new
      <3> QED
        BY <3>1, <3>2, <1>1, <1>10
    <2> QED
      BY <2>1, <2>2
  <1>12. /\ \A u \in Pid \ {child} : group'[u] = group[u]
         /\ group'[child] = IF is_thread THEN p ELSE child
         /\ group' \in [Pid -> Pid \cup {NoPid}]
    BY <1>1, <1>2
  <1>13. KernelTypes'
    <2>1. steps' \in 0 .. MaxSteps
      BY ThreadAssumption DEF DInv, KernelTypes
    <2>2. done' = [u \in Pid |-> done'[u]]
      BY <1>2 DEF DInv, KernelTypes
    <2>3. ASSUME NEW u \in Pid
          PROVE  /\ IsStep(done'[u])
                 /\ done'[u] = NoStep \/ IsCall(done'[u]) \/ IsCreate(done'[u])
      BY <1>3, <1>4, <1>6
    <2> QED
      BY <1>11, <2>1, <2>2, <2>3 DEF KernelTypes, IsStep, IsCall, IsCreate, IsOpen,
         IsTransfer, IsClose, IsDup, IsSocket, IsConnect, IsChdir, IsFchdir, IsUnseen, IsExec
  <1>14. GroupInv'
    <2>1. \A u \in Pid : group'[u] = NoPid => done'[u] = NoStep
      BY <1>1, <1>4, <1>12, PidAssumption DEF DInv, GroupInv
    <2>2. ASSUME NEW u \in Pid, group'[u] # NoPid PROVE group'[group'[u]] = group'[u]
      <3>1. CASE u = child
        <4>1. group[p] = p
          BY <1>1 DEF DInv, GroupInv
        <4> QED
          BY <3>1, <4>1, <1>1, <1>7, <1>12
      <3>2. CASE u # child
        <4>1. group'[u] = group[u] /\ group[u] \in Pid /\ group[u] # child
          BY <2>2, <3>2, <1>1, <1>7, <1>12
        <4>2. group[group[u]] = group[u]
          BY <2>2, <4>1 DEF DInv, GroupInv
        <4> QED
          BY <4>1, <4>2, <1>12
      <3> QED
        BY <3>1, <3>2
    <2>3. thread_to_process[child] = NoPid
      BY <1>1, PidAssumption DEF DInv, GroupInv, TypeOK
    <2>4. ASSUME NEW u \in Pid, thread_to_process[u] # NoPid
          PROVE  thread_to_process[u] = group'[u] /\ group'[u] \in known
      BY <2>3, <2>4, <1>12 DEF DInv, GroupInv
    <2>5. \A u \in Pid : u \in known => thread_to_process[u] = u
      BY DEF DInv, GroupInv
    <2>6. group'[Root] = Root
      BY <1>1, <1>7, <1>12, PidAssumption
    <2>7. \A u \in Pid : done'[u].op = "exec" => group'[u] = u
      BY <1>3, <1>4, <1>7, <1>12, SortsOfCalls DEF DInv, GroupInv
    <2> QED
      BY <2>1, <2>2, <2>4, <2>5, <2>6, <2>7, <1>1, <1>12 DEF GroupInv
  <1>15. NewsInv'
    <2> SUFFICES ASSUME NEW u \in Pid, done'[u].op = "create"
                 PROVE  /\ ChildOf(u, done[u].args[1], done[u].args[2])'
                        /\ \A v \in Pid \ {u} :
                             done'[v].op = "create" => done'[v].args[1] # done'[u].args[1]
      BY DEF NewsInv
    <2>1. CASE u = t
      <3>1. done'[u].args[1] = child /\ done'[u].args[2] = is_thread
        BY <2>1, <1>3, <1>4
      <3>2. ChildOf(u, done[u].args[1], done[u].args[2])'
        BY <2>1, <3>1, <1>1, <1>7, <1>8, <1>12 DEF ChildOf
      <3> QED
        BY <2>1, <3>1, <3>2, <1>4, <1>9
    <2>2. CASE u # t
      <3>1. done'[u] = done[u] /\ done[u].op = "create"
        BY <2>2, <1>4
      <3>2. IsCreate(done[u])
        BY <3>1, <1>6, SortsOfCalls
      <3> DEFINE other == done[u].args[1]
                 kind == done[u].args[2]
      <3>3. other \in Pid /\ other # child /\ kind \in BOOLEAN
        BY <3>1, <3>2, <1>9, CreateArgs
      <3>4. ChildOf(u, other, kind)
        BY <3>1 DEF DInv, NewsInv
      <3>5. u # child
        BY <3>1, <1>7, SortsOfCalls
      <3>6. other = done'[u].args[1] /\ kind = done'[u].args[2]
        BY <3>1
      <3>7. \A v \in Pid \ {u} : done'[v].op = "create" => done'[v].args[1] # other
        <4>1. \A v \in Pid \ {u} : done[v].op = "create" => done[v].args[1] # other
          BY <3>1 DEF DInv, NewsInv
        <4>2. done'[t].args[1] # other
          BY <3>3, <1>3, <1>4
        <4> QED
          BY <4>1, <4>2, <1>4
      <3> HIDE DEF other, kind
      <3>8. ChildOf(u, done[u].args[1], done[u].args[2])'
        BY <3>3, <3>4, <3>5, <3>6, <1>1, <1>11, <1>12 DEF ChildOf
      <3> QED
        BY <3>6, <3>7, <3>8
    <2> QED
      BY <2>1, <2>2
  <1>16. SureInv'
    <2> SUFFICES ASSUME NEW u \in Pid, IsCall(done[u])'
                 PROVE  SureCall(u)'
      BY DEF SureInv
    <2>0. IsCall(done'[u])
      BY DEF IsCall, IsOpen, IsTransfer, IsClose, IsDup, IsSocket, IsConnect, IsChdir,
             IsFchdir, IsUnseen, IsExec
    <2>1. u # t
      BY <2>0, <1>3, <1>4, SortsOfCalls
    <2>2. done'[u] = done[u] /\ IsCall(done[u]) /\ u # child
      BY <2>0, <2>1, <1>4, <1>7, SortsOfCalls
    <2>3. SureCall(u)
      BY <2>2 DEF DInv, SureInv
    <2>4. group[u] \in Pid /\ group[u] # child /\ group'[u] = group[u]
      BY <2>2, <1>1, <1>7, <1>12, SortsOfCalls DEF DInv, GroupInv
    <2>5. table'[group[u]] = table[group[u]] /\ suspect'[group[u]] = suspect[group[u]]
      BY <2>4, <1>11
    <2>6. CASE done[u].sure
      <3>1. Foreseen(done[u], processes[group[u]])'
        BY <2>2, <2>3, <2>4, <2>6, <1>1 DEF SureCall, Foreseen, resolve_path, Matches
      <3>2. \A v \in Neighbours(u)' : ~Blurs(done'[v], done'[u])
        <4>1. \A v \in Neighbours(u)' : v = child \/ v \in Neighbours(u)
          BY <2>2, <2>4, <1>12 DEF Neighbours
        <4>2. \A v \in Neighbours(u) : v \in Pid /\ ~Blurs(done[v], done[u])
          BY <2>3, <2>6 DEF SureCall, Neighbours
        <4>3. done'[child].writes = {}
          BY <1>7, SortsOfCalls
        <4> QED
          BY <4>1, <4>2, <4>3, <2>2, <1>5 DEF Blurs
      <3>3. (\A v \in Neighbours(u) : ~Blurs(done[v], done[u]))'
        BY <3>2 DEF Blurs
      <3>4. (\A x \in done[u].writes : table[group[u]][x] = done[u].object)'
        BY <2>2, <2>3, <2>4, <2>5, <2>6 DEF SureCall
      <3>5. thread_to_process'[u] = group'[u]
        BY <2>3, <2>4, <2>6, <1>1 DEF SureCall
      <3>6. \A v \in Pid : ~Copies(v, group[u])'
        <4>1. \A v \in Pid : ~Copies(v, group[u])
          BY <2>3, <2>6 DEF SureCall
        <4>2. <<child, is_thread>> # <<group[u], FALSE>>
          BY <2>4
        <4>3. done'[t].args # <<group[u], FALSE>>
          BY <4>2, <1>3, <1>4
        <4>4. ASSUME NEW v \in Pid
              PROVE  ~(done'[v].op = "create" /\ done'[v].args = <<group[u], FALSE>>)
          <5>1. CASE v = t
            BY <5>1, <4>3
          <5>2. CASE v # t
            BY <5>2, <4>1, <1>4 DEF Copies
          <5> QED
            BY <5>1, <5>2
        <4> QED
          BY <4>4, <2>4 DEF Copies
      <3> QED
        BY <2>2, <2>6, <3>1, <3>3, <3>4, <3>5, <3>6 DEF SureCall
    <2>7. CASE ~done[u].sure
      BY <2>2, <2>3, <2>4, <2>5, <2>7 DEF SureCall
    <2> QED
      BY <2>6, <2>7
  <1>17. CopyInv'
    <2> SUFFICES ASSUME NEW u \in Pid, done'[u].op = "create", ~done'[u].args[2]
                 PROVE  CopyCall(u, done[u].args[1])'
      BY DEF CopyInv
    <2>1. CASE u = t
      <3>1. ~is_thread /\ done'[u].args[1] = child
        BY <2>1, <1>3, <1>4
      <3> DEFINE new == UNION {done[v].writes : v \in Neighbours(t)}
      <3>2. /\ table' = [table EXCEPT ![child] = table[p]]
            /\ suspect' = [suspect EXCEPT ![child] = new]
        BY <3>1 DEF Create
      <3>3. table'[child] = table[p] /\ suspect'[child] = new /\ table'[p] = table[p]
        <4> HIDE DEF new, p
        <4> QED
          BY <3>2, <1>1, <1>7, <1>10
      <3>4. ASSUME NEW v \in Pid, group'[v] = p PROVE done'[v].writes \subseteq suspect'[child]
        <4>1. v # child
          BY <3>1, <3>4, <1>7, <1>12
        <4>2. CASE v = t
          BY <4>2, <1>3, <1>4
        <4>3. CASE v # t
          <5>1. v \in Neighbours(t)
            BY <3>4, <4>1, <4>3, <1>12 DEF Neighbours
          <5> QED
            BY <3>3, <5>1, <1>5
        <4> QED
          BY <4>2, <4>3
      <3>5. group'[t] = p
        BY <1>7, <1>12
      <3> HIDE DEF p, new
      <3> QED
        BY <2>1, <3>1, <3>3, <3>4, <3>5 DEF CopyCall
    <2>2. CASE u # t
      <3>1. done'[u] = done[u] /\ done[u].op = "create" /\ ~done[u].args[2]
        BY <2>2, <1>4
      <3>2. IsCreate(done[u]) /\ u # child
        BY <3>1, <1>6, <1>7, SortsOfCalls
      <3> DEFINE other == done[u].args[1]
                 g == group[u]
      <3>3. other \in Pid /\ other # child /\ g \in Pid /\ g # child /\ group'[u] = g
        BY <3>1, <3>2, <1>7, <1>9, <1>12, CreateArgs
      <3>4. /\ \A x \in Cell \ suspect[other] : table[other][x] = table[g][x]
            /\ \A v \in Pid : group[v] = g => done[v].writes \subseteq suspect[other]
        BY <3>1 DEF DInv, CopyInv, CopyCall
      <3>5. /\ table'[other] = table[other] /\ suspect'[other] = suspect[other]
            /\ table'[g] = table[g]
        BY <3>3, <1>11
      <3>6. done'[u].args[1] = other
        BY <3>1
      <3> HIDE DEF other, g
      <3>7. \A v \in Pid : group'[v] = g => done'[v].writes \subseteq suspect'[other]
        <4>1. done'[child].writes = {}
          BY <1>7, SortsOfCalls
        <4> QED
          BY <4>1, <3>4, <3>5, <1>5, <1>12
      <3> QED
        BY <3>3, <3>4, <3>5, <3>6, <3>7 DEF CopyCall
    <2> QED
      BY <2>1, <2>2
  <1>18. AgreeInv'
    <2> SUFFICES ASSUME NEW q \in known, NEW x \in Cell,
                        x \notin suspect'[q], x \notin Unreported(q)'
                 PROVE  Agree(processes[q], x, table'[q][x])
      BY <1>1 DEF AgreeInv, Agree, Matches
    <2>1. q \in Pid /\ q # child
      BY <1>8 DEF TypeOK
    <2>2. \A v \in Pid : group'[v] = q => x \notin done'[v].writes
      BY DEF Unreported
    <2>3. \A v \in Pid : group[v] = q => x \notin done[v].writes
      BY <2>1, <2>2, <1>1, <1>5, <1>12, PidAssumption
    <2>4. x \notin Unreported(q)
      BY <2>3 DEF Unreported
    <2> QED
      BY <2>1, <2>4, <1>11 DEF DInv, AgreeInv
  <1> QED
    BY <1>13, <1>14, <1>15, <1>16, <1>17, <1>18 DEF DInv

\* A name below a directory that agrees with the kernel's is resolved rightly, or
\* left unresolved.
LEMMA ResolvedBelow ==
    ASSUME NEW process, NEW x \in Cell, NEW r \in Rel, NEW object,
           Agree(process, x, object), x = AT_FDCWD \/ object.type = "file"
    PROVE  resolve_path(process, FALSE, x, r) \in {Join(object.name, r), Unresolved}
BY JoinAssumption DEF Agree, Matches, resolve_path

\* Every call of the kernel is one that EffectKeeps or CreateKeeps is about.
LEMMA KernelKeeps ==
    ASSUME TypeOK, DInv, Kernel
    PROVE  DInv'
  <1>0. steps < MaxSteps /\ steps' = steps + 1
    BY DEF Kernel
  <1>1. PICK t \in Pid :
      \/ \E absolute, directory \in BOOLEAN, x, fd \in Cell, r \in Rel :
           Open(t, absolute, x, r, directory, fd)
      \/ \E type \in {"file_read", "file_write"}, fd \in Fd : Transfer(t, type, fd)
      \/ \E fd \in Fd : Close(t, fd) \/ Socket(t, fd) \/ Fchdir(t, fd)
      \/ \E old_fd, new_fd \in Fd : Dup(t, old_fd, new_fd)
      \/ \E type \in {"net_connect", "ipc_connect"}, fd \in Fd, e \in Endpoint :
           Connect(t, type, fd, e)
      \/ \E absolute \in BOOLEAN, r \in Rel : Chdir(t, absolute, r)
      \/ \E fd \in Fd, type \in {"none", "other"} :
           Unseen(t, fd, [type |-> type, name |-> Slash])
      \/ \E child \in Pid, is_thread \in BOOLEAN : Create(t, child, is_thread)
      \/ Exec(t)
    BY DEF Kernel
  <1> DEFINE p == group[t]
             Foresees(s) == (\A x \in s.reads : Agree(processes[p], x, table[p][x]))
                              => Foreseen(s, processes[p])
  <1>2. /\ table \in [Pid -> [Cell -> Object]]
        /\ p # NoPid => p \in Pid /\ \A x \in Cell : At(t, x) = table[p][x] /\ At(t, x) \in Object
    BY DEF DInv, KernelTypes, GroupInv, At
  <1>3. \A x \in Fd : x \in Cell /\ x # AT_FDCWD
    BY NameAssumption DEF Cell
  <1>4. ASSUME NEW absolute \in BOOLEAN, NEW directory \in BOOLEAN, NEW x \in Cell,
               NEW fd \in Cell, NEW r \in Rel, Open(t, absolute, x, r, directory, fd)
        PROVE  DInv'
    <2> DEFINE path == IF absolute THEN Join(Slash, r) ELSE Join(At(t, x).name, r)
               s == Step("open", <<absolute, x, r, directory, fd>>,
                         IF absolute THEN {} ELSE {x}, {fd} \ {AT_FDCWD}, FileAt(path), TRUE)
    <2>1. /\ p # NoPid /\ Effect(t, s, TRUE)
          /\ absolute \/ At(t, x).type = "file"
      BY <1>4 DEF Open
    <2>2. path \in Path
      BY <2>1, <1>2, JoinAssumption, NameAssumption DEF Object
    <2>3. FileAt(path) \in Object
      BY <2>2 DEF FileAt, Object
    <2>4. s.op = "open" /\ s.args = <<absolute, x, r, directory, fd>> /\ s.object = FileAt(path)
          /\ s.reads = (IF absolute THEN {} ELSE {x})
      BY DEF Step
    <2>5. Foresees(s)
      <3>0. s.object.name = path
        <4> HIDE DEF path, s
        <4> QED
          BY <2>4 DEF FileAt
      <3>1. CASE absolute
        <4> HIDE DEF s
        <4>1. s.args[1] = TRUE /\ path = Join(Slash, r)
          BY <3>1, <2>4
        <4>2. s.args[3] = r
          BY <2>4
        <4> HIDE DEF path, p
        <4> QED
          BY <2>4, <3>0, <4>1, <4>2 DEF Foreseen, resolve_path
      <3>2. CASE ~absolute
        <4>1. absolute = FALSE /\ path = Join(table[p][x].name, r)
          BY <3>2, <2>1, <1>2
        <4>2. s.reads = {x} /\ table[p][x].type = "file"
          BY <3>2, <2>1, <2>4, <1>2
        <4>3. Agree(processes[p], x, table[p][x]) =>
                resolve_path(processes[p], FALSE, x, r) \in {path, Unresolved}
          BY <4>1, <4>2, ResolvedBelow
        <4> HIDE DEF s
        <4>4. s.args[1] = FALSE /\ s.args[2] = x /\ s.args[3] = r
          BY <2>4, <4>1
        <4> HIDE DEF path, p
        <4> QED
          BY <2>4, <3>0, <4>2, <4>3, <4>4 DEF Foreseen
      <3> QED
        BY <3>1, <3>2
    <2>6. IsStep(s)
      BY <2>3 DEF IsStep, Step
    <2>7. IsCall(s) /\ s.op # "exec"
      BY DEF IsCall, IsOpen, Step, FileAt
    <2> HIDE DEF s
    <2> QED
      BY <2>1, <2>5, <2>6, <2>7, <1>0, EffectKeeps
  <1>5. ASSUME NEW type \in {"file_read", "file_write"}, NEW fd \in Fd, Transfer(t, type, fd)
        PROVE  DInv'
    <2> DEFINE s == Step("transfer", <<type, fd>>, {fd}, {}, At(t, fd), TRUE)
    <2>1. p # NoPid /\ Effect(t, s, TRUE)
      BY <1>5 DEF Transfer
    <2>2. At(t, fd) = table[p][fd] /\ At(t, fd) \in Object
      BY <2>1, <1>2, <1>3
    <2>3. Foresees(s)
      BY <2>2, <1>3 DEF Step, Foreseen, Agree
    <2>4. IsStep(s) /\ IsCall(s) /\ s.op # "exec"
      BY <2>2, <1>3 DEF IsStep, Step, IsCall, IsTransfer
    <2> HIDE DEF s
    <2> QED
      BY <2>1, <2>3, <2>4, <1>0, EffectKeeps
  <1>6. ASSUME NEW fd \in Fd, Close(t, fd)
        PROVE  DInv'
    <2> DEFINE s == Step("close", <<fd>>, {}, {fd}, NoObject, TRUE)
    <2>1. Effect(t, s, TRUE)
      BY <1>6 DEF Close
    <2>2. Foresees(s)
      BY DEF Step, Foreseen
    <2>3. IsStep(s) /\ IsCall(s) /\ s.op # "exec"
      BY <1>3, NameAssumption DEF IsStep, Step, IsCall, IsClose, NoObject, Object
    <2> HIDE DEF s
    <2> QED
      BY <2>1, <2>2, <2>3, <1>0, EffectKeeps
  <1>7. ASSUME NEW fd \in Fd, Socket(t, fd)
        PROVE  DInv'
    <2> DEFINE s == Step("socket", <<fd>>, {}, {fd}, [type |-> "socket", name |-> Slash], TRUE)
    <2>1. Effect(t, s, TRUE)
      BY <1>7 DEF Socket
    <2>2. Foresees(s)
      BY DEF Step, Foreseen
    <2>3. IsStep(s) /\ IsCall(s) /\ s.op # "exec"
      BY <1>3, NameAssumption DEF IsStep, Step, IsCall, IsSocket, Object
    <2> HIDE DEF s
    <2> QED
      BY <2>1, <2>2, <2>3, <1>0, EffectKeeps
  <1>8. ASSUME NEW fd \in Fd, Fchdir(t, fd)
        PROVE  DInv'
    <2> DEFINE s == Step("fchdir", <<fd>>, {fd}, {AT_FDCWD}, At(t, fd), TRUE)
    <2>1. p # NoPid /\ Effect(t, s, TRUE) /\ At(t, fd).type = "file"
      BY <1>8 DEF Fchdir
    <2>2. At(t, fd) = table[p][fd] /\ At(t, fd) \in Object
      BY <2>1, <1>2, <1>3
    <2>3. Foresees(s)
      BY <2>2, <1>3 DEF Step, Foreseen, Agree
    <2>4. IsStep(s) /\ IsCall(s) /\ s.op # "exec"
      BY <2>1, <2>2, <1>3 DEF IsStep, Step, IsCall, IsFchdir, Cell
    <2> HIDE DEF s
    <2> QED
      BY <2>1, <2>3, <2>4, <1>0, EffectKeeps
  <1>9. ASSUME NEW old_fd \in Fd, NEW new_fd \in Fd, Dup(t, old_fd, new_fd)
        PROVE  DInv'
    <2> DEFINE s == Step("dup", <<old_fd, new_fd>>, {old_fd}, {new_fd}, At(t, old_fd), TRUE)
    <2>1. p # NoPid /\ Effect(t, s, TRUE)
      BY <1>9 DEF Dup
    <2>2. At(t, old_fd) = table[p][old_fd] /\ At(t, old_fd) \in Object
      BY <2>1, <1>2, <1>3
    <2>3. Foresees(s)
      BY <2>2, <1>3 DEF Step, Foreseen, Agree
    <2>4. IsStep(s) /\ IsCall(s) /\ s.op # "exec"
      BY <2>2, <1>3 DEF IsStep, Step, IsCall, IsDup
    <2> HIDE DEF s
    <2> QED
      BY <2>1, <2>3, <2>4, <1>0, EffectKeeps
  <1>10. ASSUME NEW type \in {"net_connect", "ipc_connect"}, NEW fd \in Fd,
                NEW e \in Endpoint, Connect(t, type, fd, e)
         PROVE  DInv'
    <2> DEFINE s == Step("connect", <<type, fd, e>>, {fd}, {fd}, At(t, fd), TRUE)
    <2>1. p # NoPid /\ Effect(t, s, TRUE) /\ At(t, fd).type = "socket"
      BY <1>10 DEF Connect
    <2>2. At(t, fd) = table[p][fd] /\ At(t, fd) \in Object
      BY <2>1, <1>2, <1>3
    <2>3. Foresees(s)
      BY <2>2, <1>3 DEF Step, Foreseen, Agree
    <2>4. IsStep(s) /\ IsCall(s) /\ s.op # "exec"
      BY <2>1, <2>2, <1>3 DEF IsStep, Step, IsCall, IsConnect
    <2> HIDE DEF s
    <2> QED
      BY <2>1, <2>3, <2>4, <1>0, EffectKeeps
  <1>11. ASSUME NEW absolute \in BOOLEAN, NEW r \in Rel, Chdir(t, absolute, r)
         PROVE  DInv'
    <2> DEFINE path == IF absolute THEN Join(Slash, r) ELSE Join(At(t, AT_FDCWD).name, r)
               s == Step("chdir", <<absolute, r>>, IF absolute THEN {} ELSE {AT_FDCWD},
                         {AT_FDCWD}, FileAt(path), TRUE)
    <2>0. AT_FDCWD \in Cell
      BY DEF Cell
    <2>1. p # NoPid /\ Effect(t, s, TRUE)
      BY <1>11 DEF Chdir
    <2>2. path \in Path
      BY <2>0, <2>1, <1>2, JoinAssumption, NameAssumption DEF Object
    <2>3. FileAt(path) \in Object
      BY <2>2 DEF FileAt, Object
    <2>4. s.op = "chdir" /\ s.args = <<absolute, r>> /\ s.object = FileAt(path)
          /\ s.reads = (IF absolute THEN {} ELSE {AT_FDCWD})
      BY DEF Step
    <2>5. Foresees(s)
      <3>0. s.object.name = path
        <4> HIDE DEF path, s
        <4> QED
          BY <2>4 DEF FileAt
      <3>1. CASE absolute
        <4> HIDE DEF s
        <4>1. s.args[1] = TRUE /\ path = Join(Slash, r)
          BY <3>1, <2>4
        <4>2. s.args[2] = r
          BY <2>4
        <4> HIDE DEF path, p
        <4> QED
          BY <2>4, <3>0, <4>1, <4>2 DEF Foreseen, resolve_path
      <3>2. CASE ~absolute
        <4>1. absolute = FALSE /\ path = Join(table[p][AT_FDCWD].name, r)
          BY <3>2, <2>0, <2>1, <1>2
        <4>2. s.reads = {AT_FDCWD}
          BY <3>2, <2>4
        <4>3. Agree(processes[p], AT_FDCWD, table[p][AT_FDCWD]) =>
                resolve_path(processes[p], FALSE, AT_FDCWD, r) \in {path, Unresolved}
          BY <4>1, <2>0, ResolvedBelow
        <4> HIDE DEF s
        <4>4. s.args[1] = FALSE /\ s.args[2] = r
          BY <2>4, <4>1
        <4> HIDE DEF path, p
        <4> QED
          BY <2>4, <3>0, <4>2, <4>3, <4>4 DEF Foreseen
      <3> QED
        BY <3>1, <3>2
    <2>6. IsStep(s)
      BY <2>3 DEF IsStep, Step, Cell
    <2>7. IsCall(s) /\ s.op # "exec"
      BY DEF IsCall, IsChdir, Step, FileAt
    <2> HIDE DEF s
    <2> QED
      BY <2>1, <2>5, <2>6, <2>7, <1>0, EffectKeeps
  <1>12. ASSUME NEW fd \in Fd, NEW type \in {"none", "other"},
                Unseen(t, fd, [type |-> type, name |-> Slash])
         PROVE  DInv'
    <2> DEFINE s == Step("unseen", << >>, {}, {fd}, [type |-> type, name |-> Slash], TRUE)
    <2>1. Effect(t, s, FALSE)
      BY <1>12 DEF Unseen
    <2>2. IsStep(s) /\ IsCall(s) /\ s.op # "exec"
      BY <1>3, NameAssumption DEF IsStep, Step, IsCall, IsUnseen, IsExec, Object
    <2> HIDE DEF s
    <2> QED
      BY <2>1, <2>2, <1>0, EffectKeeps
  <1>13. ASSUME NEW child \in Pid, NEW is_thread \in BOOLEAN, Create(t, child, is_thread)
         PROVE  DInv'
    BY <1>13, <1>0, CreateKeeps
  <1>14. ASSUME Exec(t) PROVE DInv'
    <2> DEFINE s == Step("exec", << >>, {}, {}, NoObject, TRUE)
    <2>1. Effect(t, s, TRUE)
      BY <1>14 DEF Exec
    <2>2. Foresees(s)
      BY DEF Step, Foreseen
    <2>3. IsStep(s) /\ IsCall(s) /\ group[t] = t
      BY <1>14, NameAssumption DEF IsStep, Step, IsCall, IsExec, NoObject, Object, Exec
    <2> HIDE DEF s
    <2> QED
      BY <2>1, <2>2, <2>3, <1>0, EffectKeeps
  <1> QED
    BY <1>1, <1>4, <1>5, <1>6, <1>7, <1>8, <1>9, <1>10, <1>11, <1>12, <1>13, <1>14

-----------------------------------------------------------------------------
(* A call is reported *)

\* A handler writes one cell of one process.
LEMMA SetFdWrites ==
    ASSUME TypeOK, NEW pid \in Pid, NEW fd \in Fd, NEW resource, SetFd(pid, fd, resource)
    PROVE  /\ \A q \in Pid \ {pid} : processes'[q] = processes[q]
           /\ processes'[pid].fd_table[fd] = resource
           /\ \A x \in Cell \ {fd} : Held(processes'[pid], x) = Held(processes[pid], x)
  <1>1. processes \in [Pid -> ProcessState]
    BY DEF TypeOK
  <1>2. /\ processes[pid].fd_table \in [Fd -> Resource]
        /\ processes'[pid] = [processes[pid] EXCEPT
                                !.fd_table = [processes[pid].fd_table EXCEPT ![fd] = resource]]
        /\ \A q \in Pid \ {pid} : processes'[q] = processes[q]
    BY <1>1 DEF SetFd, ProcessState
  <1>3. /\ processes'[pid].fd_table = [processes[pid].fd_table EXCEPT ![fd] = resource]
        /\ processes'[pid].cwd = processes[pid].cwd
    BY <1>1, <1>2 DEF ProcessState
  <1> QED
    BY <1>2, <1>3 DEF Held, Cell

\* The same for the working directory.
LEMMA SetCwdWrites ==
    ASSUME TypeOK, NEW pid \in Pid, NEW name,
           processes' = [processes EXCEPT ![pid].cwd = name]
    PROVE  /\ \A q \in Pid \ {pid} : processes'[q] = processes[q]
           /\ processes'[pid].cwd = name
           /\ \A x \in Cell \ {AT_FDCWD} : Held(processes'[pid], x) = Held(processes[pid], x)
  <1>1. processes \in [Pid -> ProcessState]
    BY DEF TypeOK
  <1>2. /\ processes'[pid] = [processes[pid] EXCEPT !.cwd = name]
        /\ \A q \in Pid \ {pid} : processes'[q] = processes[q]
    BY <1>1
  <1>3. processes'[pid].cwd = name /\ processes'[pid].fd_table = processes[pid].fd_table
    BY <1>1, <1>2 DEF ProcessState
  <1> QED
    BY <1>2, <1>3 DEF Held

\* A thread that made a call belongs to a process; that of a sure call is known.
LEMMA CallersAreThreads ==
    ASSUME TypeOK, DInv, NEW t \in Pid, done[t] # NoStep
    PROVE  /\ group[t] \in Pid /\ group[t] # NoPid
           /\ thread_to_process[t] = group[t] => HasProcess(t)
  <1>1. group[t] \in Pid /\ group[t] # NoPid
    BY PidAssumption DEF DInv, GroupInv
  <1> QED
    BY <1>1 DEF DInv, GroupInv, HasProcess, process_for_thread

\* What a report of a call changes: the cells the call has changed, and when the
\* call is sure these agree afterwards with what the call put there.
Follows(t) ==
    /\ known' = known /\ thread_to_process' = thread_to_process
    /\ \A q \in Pid \ {group[t]} : processes'[q] = processes[q]
    /\ \A x \in Cell \ done[t].writes :
         Held(processes'[group[t]], x) = Held(processes[group[t]], x)
    /\ done[t].sure => \A x \in done[t].writes :
                         Agree(processes'[group[t]], x, done[t].object)

\* A call of a thread that is not known is dropped; it was not sure.
LEMMA DroppedFollows ==
    ASSUME TypeOK, DInv, NEW t \in Pid, NEW ts \in Time, Report(t, ts), IsCall(done[t]),
           ~HasProcess(t), done[t].op # "exec"
    PROVE  Follows(t)
  <1>1. done[t] # NoStep /\ SureCall(t) /\ done[t].op # "create"
    BY SortsOfCalls DEF DInv, SureInv
  <1>2. ~done[t].sure
    BY <1>1, CallersAreThreads DEF SureCall
  <1>3. on_dropped_syscall(t, ts)
    <2>1. \A b, x, r, d, fd : on_open(t, b, x, r, d, fd, ts) => HasProcess(t)
      BY DEF on_open
    <2>2. \A type, fd : on_transfer(t, type, fd, ts) => HasProcess(t)
      BY DEF on_transfer
    <2>3. \A fd : on_close(t, fd, ts) \/ on_socket(t, fd, ts) \/ on_fchdir(t, fd, ts)
                   => HasProcess(t)
      BY DEF on_close, on_socket, on_fchdir
    <2>4. \A old_fd, new_fd : on_dup(t, old_fd, new_fd, ts) => HasProcess(t)
      BY DEF on_dup
    <2>5. \A type, fd, e : on_connect(t, type, fd, e, ts) => HasProcess(t)
      BY DEF on_connect
    <2>6. \A b, r : on_chdir(t, b, r, ts) => HasProcess(t)
      BY DEF on_chdir
    <2>7. on_other_syscall(t, ts) => HasProcess(t)
      BY DEF on_other_syscall
    <2> QED
      BY <1>1, <2>1, <2>2, <2>3, <2>4, <2>5, <2>6, <2>7 DEF Report
  <1> QED
    BY <1>2, <1>3 DEF on_dropped_syscall, state, Follows

\* Every handler of on_syscall_exit follows the call it is told of.
LEMMA ReportFollows ==
    ASSUME TypeOK, DInv, NEW t \in Pid, NEW ts \in Time, Report(t, ts), IsCall(done[t]),
           HasProcess(t)
    PROVE  Follows(t)
  <1> DEFINE s == done[t]
             a == s.args
             p == group[t]
  <1>0. done[t] # NoStep /\ SureCall(t)
    BY SortsOfCalls DEF DInv, SureInv, Report
  <1>1. /\ p \in Pid /\ p \in known
        /\ process_for_thread(t) = p /\ ProcessOf(t) = processes[p]
    BY KnownThreads
  <1>14. ~on_dropped_syscall(t, ts)
    BY DEF on_dropped_syscall
  <1>2. s.sure => Foreseen(s, processes[p])
    BY <1>0 DEF SureCall
  <1>3. OnlyProcesses => known' = known /\ thread_to_process' = thread_to_process
    BY DEF OnlyProcesses
  <1>4. ASSUME IsOpen(s) PROVE Follows(t)
    <2>1. PICK absolute \in BOOLEAN, directory \in BOOLEAN, x \in Cell, fd \in Cell, r \in Rel :
             s.args = <<absolute, x, r, directory, fd>> /\ s.writes = {fd} \ {AT_FDCWD}
      BY <1>4 DEF IsOpen
    <2>2. on_open(t, a[1], a[2], a[3], a[4], a[5], ts) /\ s.object.type = "file"
      BY <1>4, <1>14 DEF Report, IsOpen
    <2> DEFINE path == resolve_path(processes[p], a[1], a[2], a[3])
               new == [type |-> "file", name |-> path, is_directory |-> directory]
    <2>3. /\ OnlyProcesses
          /\ IF fd \in Fd THEN SetFd(p, fd, new) ELSE processes' = processes
      BY <2>1, <2>2, <1>1 DEF on_open
    <2>4. s.sure => path \in {s.object.name, Unresolved}
      BY <1>2, <1>4 DEF Foreseen, IsOpen
    <2>5. s.sure => Matches(new, s.object)
      <3> HIDE DEF path, s
      <3> QED
        BY <2>2, <2>4 DEF Matches
    <2> HIDE DEF path, new
    <2>6. CASE fd \in Fd
      <3>1. fd # AT_FDCWD /\ s.writes = {fd}
        BY <2>1, <2>6, NameAssumption
      <3>2. /\ \A q \in Pid \ {p} : processes'[q] = processes[q]
            /\ processes'[p].fd_table[fd] = new
            /\ \A y \in Cell \ {fd} : Held(processes'[p], y) = Held(processes[p], y)
        BY <2>3, <2>6, <1>1, SetFdWrites
      <3> QED
        BY <2>3, <2>5, <3>1, <3>2, <1>3 DEF Follows, Agree
    <2>7. CASE fd \notin Fd
      <3>1. s.writes = {} /\ processes' = processes
        BY <2>1, <2>3, <2>7 DEF Cell
      <3> QED
        BY <2>3, <3>1, <1>3 DEF Follows
    <2> QED
      BY <2>6, <2>7
  <1>5. ASSUME IsTransfer(s) PROVE Follows(t)
    <2>1. on_transfer(t, a[1], a[2], ts) /\ s.writes = {}
      BY <1>5, <1>14 DEF Report, IsTransfer
    <2>2. OnlyProcesses /\ processes' = processes
      BY <2>1 DEF on_transfer
    <2> QED
      BY <2>1, <2>2, <1>3 DEF Follows
  <1>6. ASSUME IsClose(s) PROVE Follows(t)
    <2>1. PICK fd \in Fd : s.args = <<fd>> /\ s.writes = {fd}
      BY <1>6 DEF IsClose
    <2>2. on_close(t, a[1], ts) /\ s.object = NoObject
      BY <1>6, <1>14 DEF Report, IsClose
    <2>3. OnlyProcesses /\ SetFd(p, fd, NoResource)
      BY <2>1, <2>2, <1>1 DEF on_close
    <2>4. /\ \A q \in Pid \ {p} : processes'[q] = processes[q]
          /\ processes'[p].fd_table[fd] = NoResource
          /\ \A y \in Cell \ {fd} : Held(processes'[p], y) = Held(processes[p], y)
      BY <2>3, <1>1, SetFdWrites
    <2>5. Matches(NoResource, s.object)
      BY <2>2 DEF Matches, NoResource, NoObject
    <2> QED
      BY <2>1, <2>3, <2>4, <2>5, <1>3, NameAssumption DEF Follows, Agree
  <1>7. ASSUME IsDup(s) PROVE Follows(t)
    <2>1. PICK old_fd \in Fd, new_fd \in Fd :
             s.args = <<old_fd, new_fd>> /\ s.reads = {old_fd} /\ s.writes = {new_fd}
      BY <1>7 DEF IsDup
    <2>2. on_dup(t, a[1], a[2], ts)
      BY <1>7, <1>14 DEF Report, IsDup
    <2> DEFINE new == processes[p].fd_table[old_fd]
    <2>3. OnlyProcesses /\ SetFd(p, new_fd, new)
      BY <2>1, <2>2, <1>1 DEF on_dup
    <2>4. s.sure => Matches(new, s.object)
      BY <2>1, <1>2, <1>7 DEF Foreseen, IsDup
    <2> HIDE DEF new
    <2>5. /\ \A q \in Pid \ {p} : processes'[q] = processes[q]
          /\ processes'[p].fd_table[new_fd] = new
          /\ \A y \in Cell \ {new_fd} : Held(processes'[p], y) = Held(processes[p], y)
      BY <2>3, <1>1, SetFdWrites
    <2> QED
      BY <2>1, <2>3, <2>4, <2>5, <1>3, NameAssumption DEF Follows, Agree
  <1>8. ASSUME IsSocket(s) PROVE Follows(t)
    <2>1. PICK fd \in Fd : s.args = <<fd>> /\ s.writes = {fd}
      BY <1>8 DEF IsSocket
    <2>2. on_socket(t, a[1], ts) /\ s.object.type = "socket"
      BY <1>8, <1>14 DEF Report, IsSocket
    <2> DEFINE new == [type |-> "socket", name |-> NoEndpoint, is_directory |-> FALSE]
    <2>3. OnlyProcesses /\ SetFd(p, fd, new)
      BY <2>1, <2>2, <1>1 DEF on_socket
    <2>4. Matches(new, s.object)
      BY <2>2 DEF Matches
    <2> HIDE DEF new
    <2>5. /\ \A q \in Pid \ {p} : processes'[q] = processes[q]
          /\ processes'[p].fd_table[fd] = new
          /\ \A y \in Cell \ {fd} : Held(processes'[p], y) = Held(processes[p], y)
      BY <2>3, <1>1, SetFdWrites
    <2> QED
      BY <2>1, <2>3, <2>4, <2>5, <1>3, NameAssumption DEF Follows, Agree
  <1>9. ASSUME IsConnect(s) PROVE Follows(t)
    <2>1. PICK type \in {"net_connect", "ipc_connect"}, fd \in Fd, e \in Endpoint :
             s.args = <<type, fd, e>> /\ s.reads = {fd} /\ s.writes = {fd}
      BY <1>9 DEF IsConnect
    <2>2. on_connect(t, a[1], a[2], a[3], ts) /\ s.object.type = "socket"
      BY <1>9, <1>14 DEF Report, IsConnect
    <2> DEFINE old == processes[p].fd_table[fd]
               new == [old EXCEPT !.name = e]
    <2>3. /\ OnlyProcesses
          /\ IF old.type = "socket" THEN SetFd(p, fd, new) ELSE processes' = processes
      BY <2>1, <2>2, <1>1 DEF on_connect
    <2>4. s.sure => old.type = "socket"
      BY <2>1, <2>2, <1>2, <1>9 DEF Foreseen, IsConnect, Matches
    <2>5. CASE old.type = "socket"
      <3>1. old \in Resource
        BY <1>1 DEF TypeOK, ProcessState
      <3>2. new.type = "socket"
        BY <3>1, <2>5 DEF Resource
      <3>3. Matches(new, s.object)
        BY <2>2, <3>2 DEF Matches
      <3>4. SetFd(p, fd, new)
        BY <2>3, <2>5
      <3> HIDE DEF new, old
      <3>5. /\ \A q \in Pid \ {p} : processes'[q] = processes[q]
            /\ processes'[p].fd_table[fd] = new
            /\ \A y \in Cell \ {fd} : Held(processes'[p], y) = Held(processes[p], y)
        BY <3>4, <1>1, SetFdWrites
      <3> QED
        BY <2>1, <2>3, <3>3, <3>5, <1>3, NameAssumption DEF Follows, Agree
    <2>6. CASE old.type # "socket"
      BY <2>3, <2>4, <2>6, <1>3 DEF Follows
    <2> QED
      BY <2>5, <2>6
  <1>10. ASSUME IsChdir(s) PROVE Follows(t)
    <2>1. PICK absolute \in BOOLEAN, r \in Rel :
             s.args = <<absolute, r>> /\ s.writes = {AT_FDCWD}
      BY <1>10 DEF IsChdir
    <2>2. on_chdir(t, a[1], a[2], ts)
      BY <1>10, <1>14 DEF Report, IsChdir
    <2> DEFINE path == resolve_path(processes[p], a[1], AT_FDCWD, a[2])
    <2>3. OnlyProcesses /\ processes' = [processes EXCEPT ![p].cwd = path]
      BY <2>1, <2>2, <1>1 DEF on_chdir
    <2>4. s.sure => path \in {s.object.name, Unresolved}
      BY <1>2, <1>10 DEF Foreseen, IsChdir
    <2> HIDE DEF path
    <2>5. /\ \A q \in Pid \ {p} : processes'[q] = processes[q]
          /\ processes'[p].cwd = path
          /\ \A y \in Cell \ {AT_FDCWD} : Held(processes'[p], y) = Held(processes[p], y)
      BY <2>3, <1>1, SetCwdWrites
    <2> QED
      BY <2>1, <2>3, <2>4, <2>5, <1>3 DEF Follows, Agree
  <1>11. ASSUME IsFchdir(s) PROVE Follows(t)
    <2>1. PICK fd \in Fd : s.args = <<fd>> /\ s.reads = {fd}
      BY <1>11 DEF IsFchdir
    <2>2. on_fchdir(t, a[1], ts) /\ s.object.type = "file" /\ s.writes = {AT_FDCWD}
      BY <1>11, <1>14 DEF Report, IsFchdir
    <2> DEFINE old == processes[p].fd_table[fd]
    <2>3. /\ OnlyProcesses
          /\ IF old.type = "file" THEN processes' = [processes EXCEPT ![p].cwd = old.name]
             ELSE processes' = processes
      BY <2>1, <2>2, <1>1 DEF on_fchdir
    <2>4. s.sure => old.type = "file" /\ old.name \in {s.object.name, Unresolved}
      BY <2>1, <2>2, <1>2, <1>11 DEF Foreseen, IsFchdir, Matches
    <2> HIDE DEF old
    <2>5. CASE old.type = "file"
      <3>1. /\ \A q \in Pid \ {p} : processes'[q] = processes[q]
            /\ processes'[p].cwd = old.name
            /\ \A y \in Cell \ {AT_FDCWD} : Held(processes'[p], y) = Held(processes[p], y)
        BY <2>3, <2>5, <1>1, SetCwdWrites
      <3> QED
        BY <2>2, <2>3, <2>4, <3>1, <1>3 DEF Follows, Agree
    <2>6. CASE old.type # "file"
      BY <2>3, <2>4, <2>6, <1>3 DEF Follows
    <2> QED
      BY <2>5, <2>6
  <1>12. ASSUME IsUnseen(s) PROVE Follows(t)
    <2>1. on_other_syscall(t, ts) /\ ~s.sure
      BY <1>2, <1>12, <1>14 DEF Report, IsUnseen, Foreseen
    <2> QED
      BY <2>1 DEF on_other_syscall, state, Follows
  <1>13. ASSUME IsExec(s) PROVE Follows(t)
    <2>1. on_process_exec(t, NoExe, At(t, AT_FDCWD).name, ts) /\ s.writes = {}
      BY <1>13 DEF Report, IsExec
    <2> DEFINE new == [processes[p] EXCEPT !.executable = NoExe]
    <2>2. /\ known' = known \cup {p} /\ thread_to_process' = thread_to_process
          /\ processes' = [processes EXCEPT ![p] = new]
      BY <2>1, <1>1 DEF on_process_exec
    <2>3. new.cwd = processes[p].cwd /\ new.fd_table = processes[p].fd_table
      BY <1>1 DEF TypeOK, ProcessState
    <2> HIDE DEF new
    <2>4. processes'[p] = new /\ \A q \in Pid \ {p} : processes'[q] = processes[q]
      BY <2>2, <1>1 DEF TypeOK
    <2> QED
      BY <2>1, <2>2, <2>3, <2>4, <1>1 DEF Follows, Held
  <1> QED
    BY <1>4, <1>5, <1>6, <1>7, <1>8, <1>9, <1>10, <1>11, <1>12, <1>13 DEF IsCall

\* DInv stays when a call is reported: it changes no cell that a sure call of a
\* neighbour has read.
LEMMA CallReportKeeps ==
    ASSUME TypeOK, DInv, NEW t \in Pid, NEW ts \in Time, Report(t, ts), IsCall(done[t]),
           done[t].op = "exec" => HasProcess(t)
    PROVE  DInv'
  <1> DEFINE p == group[t]
  <1>1. /\ Follows(t) /\ SureCall(t) /\ done[t].op # "create" /\ done[t] # NoStep
    BY ReportFollows, DroppedFollows, SortsOfCalls DEF DInv, SureInv
  <1>2. /\ group' = group /\ table' = table /\ suspect' = suspect /\ steps' = steps
        /\ done' = [done EXCEPT ![t] = NoStep]
    <2>1. \A q \in Pid : ~Copies(t, q)
      BY <1>1 DEF Copies
    <2>2. suspect' = [q \in Pid |-> suspect[q]]
      BY <2>1 DEF Report
    <2>3. suspect' = suspect
      BY <2>2 DEF DInv, KernelTypes
    <2> QED
      BY <2>3 DEF Report
  <1>3. /\ p \in Pid /\ group \in [Pid -> Pid \cup {NoPid}]
    BY <1>1, CallersAreThreads DEF DInv, GroupInv
  <1>4. done'[t] = NoStep /\ \A u \in Pid \ {t} : done'[u] = done[u]
    BY <1>2 DEF DInv, KernelTypes
  <1>5. \A u \in Pid : done'[u].writes \subseteq done[u].writes
    BY <1>4, SortsOfCalls
  <1>6. \A u \in Pid : /\ IsStep(done[u]) /\ done[u].writes \subseteq Cell
                       /\ done[u].reads \subseteq Cell
                       /\ done[u] = NoStep \/ IsCall(done[u]) \/ IsCreate(done[u])
    BY DEF DInv, KernelTypes, IsStep
  <1>7. \A u \in Pid : Neighbours(u)' = Neighbours(u)
    BY <1>2 DEF Neighbours
  <1>8. \A u \in Pid : done'[u].op # "none" => done'[u] = done[u] /\ u # t
    BY <1>4, SortsOfCalls
  <1>9. KernelTypes'
    <2>1. done' = [u \in Pid |-> done'[u]]
      BY <1>2 DEF DInv, KernelTypes
    <2>2. ASSUME NEW u \in Pid
          PROVE  /\ IsStep(done'[u])
                 /\ done'[u] = NoStep \/ IsCall(done'[u]) \/ IsCreate(done'[u])
      BY <1>4, <1>6, SortsOfCalls
    <2>3. /\ table' \in [Pid -> [Cell -> Object]] /\ suspect' \in [Pid -> SUBSET Cell]
          /\ steps' \in 0 .. MaxSteps
      BY <1>2 DEF DInv, KernelTypes
    <2> QED
      BY <2>1, <2>2, <2>3 DEF KernelTypes, IsStep, IsCall, IsCreate, IsOpen,
         IsTransfer, IsClose, IsDup, IsSocket, IsConnect, IsChdir, IsFchdir, IsUnseen, IsExec
  <1>10. GroupInv'
    <2>1. \A u \in Pid : group[u] = NoPid => done'[u] = NoStep
      BY <1>4 DEF DInv, GroupInv
    <2>2. \A u \in Pid : done'[u].op = "exec" => group[u] = u
      BY <1>8 DEF DInv, GroupInv
    <2> QED
      BY <2>1, <2>2, <1>1, <1>2 DEF DInv, GroupInv, Follows
  <1>11. NewsInv'
    <2> SUFFICES ASSUME NEW u \in Pid, done'[u].op = "create"
                 PROVE  /\ ChildOf(u, done[u].args[1], done[u].args[2])'
                        /\ \A v \in Pid \ {u} :
                             done'[v].op = "create" => done'[v].args[1] # done'[u].args[1]
      BY DEF NewsInv
    <2>1. done'[u] = done[u] /\ done[u].op = "create"
      BY <1>8
    <2>2. /\ ChildOf(u, done[u].args[1], done[u].args[2])
          /\ \A v \in Pid \ {u} :
               done[v].op = "create" => done[v].args[1] # done[u].args[1]
      BY <2>1 DEF DInv, NewsInv
    <2>3. known' = known
      BY <1>1 DEF Follows
    <2>4. ChildOf(u, done[u].args[1], done[u].args[2])'
      BY <2>1, <2>2, <2>3, <1>2 DEF ChildOf
    <2> QED
      BY <2>1, <2>2, <2>4, <1>8
  <1>12. SureInv'
    <2> SUFFICES ASSUME NEW u \in Pid, IsCall(done[u])'
                 PROVE  SureCall(u)'
      BY DEF SureInv
    <2>0. IsCall(done'[u])
      BY DEF IsCall, IsOpen, IsTransfer, IsClose, IsDup, IsSocket, IsConnect, IsChdir,
             IsFchdir, IsUnseen, IsExec
    <2>1. u # t /\ done'[u] = done[u] /\ IsCall(done[u])
      BY <2>0, <1>4, SortsOfCalls
    <2>2. SureCall(u)
      BY <2>1 DEF DInv, SureInv
    <2>3. group[u] \in Pid
      BY <2>1, CallersAreThreads, SortsOfCalls
    <2>4. CASE done[u].sure
      <3>1. \A x \in done[u].reads : Held(processes[group[u]], x) = Held(processes'[group[u]], x)
        <4>1. CASE group[u] = p
          <5>1. ~Blurs(done[t], done[u])
            BY <2>1, <2>2, <2>4, <4>1 DEF SureCall, Neighbours
          <5>2. \A x \in done[u].reads : x \in Cell \ done[t].writes
            BY <5>1, <1>6 DEF Blurs
          <5> QED
            BY <4>1, <5>2, <1>1 DEF Follows
        <4>2. CASE group[u] # p
          BY <4>2, <2>3, <1>1 DEF Follows
        <4> QED
          BY <4>1, <4>2
      <3>2. Foreseen(done[u], processes[group[u]])
        BY <2>2, <2>4 DEF SureCall
      <3>3. Foreseen(done[u], processes'[group[u]])
        BY <2>1, <3>1, <3>2, ForeseenFromReads
      <3>4. Foreseen(done[u], processes[group[u]])'
        BY <2>1, <3>3, <1>2 DEF Foreseen, resolve_path, Matches
      <3>5. \A v \in Neighbours(u) : ~Blurs(done'[v], done'[u])
        BY <2>1, <2>2, <2>4, <1>5 DEF Neighbours, Blurs, SureCall
      <3>6. (\A v \in Neighbours(u) : ~Blurs(done[v], done[u]))'
        BY <3>5, <1>7 DEF Blurs
      <3>7. (\A x \in done[u].writes : table[group[u]][x] = done[u].object)'
        BY <2>1, <2>2, <2>4, <1>2 DEF SureCall
      <3>8. thread_to_process'[u] = group'[u]
        BY <2>2, <2>4, <1>1, <1>2 DEF SureCall, Follows
      <3>9. \A v \in Pid : ~Copies(v, group[u])'
        BY <2>2, <2>4, <1>2, <1>8 DEF SureCall, Copies
      <3> QED
        BY <2>1, <2>4, <3>4, <3>6, <3>7, <3>8, <3>9 DEF SureCall
    <2>5. CASE ~done[u].sure
      BY <2>1, <2>2, <2>5, <1>2 DEF SureCall
    <2> QED
      BY <2>4, <2>5
  <1>13. CopyInv'
    <2> SUFFICES ASSUME NEW u \in Pid, done'[u].op = "create", ~done'[u].args[2]
                 PROVE  CopyCall(u, done[u].args[1])'
      BY DEF CopyInv
    <2>1. done'[u] = done[u] /\ done[u].op = "create" /\ ~done[u].args[2]
      BY <1>8
    <2>2. CopyCall(u, done[u].args[1])
      BY <2>1 DEF DInv, CopyInv
    <2> QED
      BY <2>1, <2>2, <1>2, <1>5 DEF CopyCall
  <1>14. AgreeInv'
    <2>0. known' = known
      BY <1>1 DEF Follows
    <2> SUFFICES ASSUME NEW q \in known, NEW x \in Cell,
                        x \notin suspect[q], x \notin Unreported(q)'
                 PROVE  Agree(processes'[q], x, table[q][x])
      BY <2>0, <1>2 DEF AgreeInv, Agree, Matches
    <2>1. q \in Pid
      BY DEF TypeOK
    <2>2. \A v \in Pid : group[v] = q => x \notin done'[v].writes
      BY <1>2 DEF Unreported
    <2>3. CASE q = p /\ x \in done[t].writes
      <3>1. done[t].sure
        BY <2>3, <1>1 DEF SureCall
      <3>2. table[p][x] = done[t].object
        BY <2>3, <3>1, <1>1 DEF SureCall
      <3> QED
        BY <2>3, <3>1, <3>2, <1>1 DEF Follows
    <2>4. CASE ~(q = p /\ x \in done[t].writes)
      <3>1. \A v \in Pid : group[v] = q => x \notin done[v].writes
        BY <2>2, <2>4, <1>4
      <3>2. x \notin Unreported(q)
        BY <3>1 DEF Unreported
      <3>3. Agree(processes[q], x, table[q][x])
        BY <3>2 DEF DInv, AgreeInv
      <3>4. Held(processes[q], x) = Held(processes'[q], x)
        BY <2>1, <2>4, <1>1 DEF Follows
      <3> QED
        BY <3>3, <3>4, AgreeFromHeld
    <2> QED
      BY <2>3, <2>4
  <1> QED
    BY <1>9, <1>10, <1>11, <1>12, <1>13, <1>14 DEF DInv

\* DInv stays when a process is discovered by its exec: none of its calls was sure,
\* and every cell of its new entry is suspect.
LEMMA DiscoveryKeeps ==
    ASSUME TypeOK, DInv, NEW t \in Pid, NEW ts \in Time, Report(t, ts), IsCall(done[t]),
           done[t].op = "exec", ~HasProcess(t)
    PROVE  DInv'
  <1>1. /\ group[t] = t /\ done[t] # NoStep /\ done[t].writes = {}
        /\ thread_to_process[t] = NoPid /\ t \notin known /\ process_for_thread(t) = t
    <2>1. IsExec(done[t])
      BY DEF IsCall, IsOpen, IsTransfer, IsClose, IsDup, IsSocket, IsConnect, IsChdir,
             IsFchdir, IsUnseen, IsExec
    <2> QED
      BY <2>1, UnknownThreads, SortsOfCalls DEF IsExec, DInv, GroupInv
  <1>2. /\ group' = group /\ table' = table /\ steps' = steps
        /\ done' = [done EXCEPT ![t] = NoStep]
        /\ suspect' = [q \in Pid |-> IF q = t THEN Cell ELSE suspect[q]]
    <2>1. \A q \in Pid : ~Copies(t, q)
      BY DEF Copies
    <2> QED
      BY <2>1 DEF Report
  <1>3. /\ known' = known \cup {t}
        /\ thread_to_process' = [thread_to_process EXCEPT ![t] = t]
        /\ \A q \in Pid \ {t} : processes'[q] = processes[q]
    <2> DEFINE cwd == At(t, AT_FDCWD).name
               fresh == [FreshProcess(cwd) EXCEPT !.executable = NoExe]
    <2>1. on_process_exec(t, NoExe, cwd, ts)
      BY DEF Report
    <2>2. /\ known' = known \cup {t}
          /\ thread_to_process' = [thread_to_process EXCEPT ![t] = t]
          /\ processes' = [processes EXCEPT ![t] = fresh]
      <3> HIDE DEF cwd
      <3> QED
        BY <2>1, <1>1 DEF on_process_exec
    <2> HIDE DEF fresh
    <2> QED
      BY <2>2 DEF TypeOK
  <1>4. done'[t] = NoStep /\ \A u \in Pid \ {t} : done'[u] = done[u]
    BY <1>2 DEF DInv, KernelTypes
  <1>5. \A u \in Pid : done'[u].writes = done[u].writes
    BY <1>1, <1>4, SortsOfCalls
  <1>6. \A u \in Pid : /\ IsStep(done[u]) /\ done[u].writes \subseteq Cell
                       /\ done[u] = NoStep \/ IsCall(done[u]) \/ IsCreate(done[u])
    BY DEF DInv, KernelTypes, IsStep
  <1>7. \A u \in Pid : Neighbours(u)' = Neighbours(u)
    BY <1>2 DEF Neighbours
  <1>8. \A u \in Pid : done'[u].op # "none" => done'[u] = done[u] /\ u # t
    BY <1>4, SortsOfCalls
  <1>9. /\ suspect'[t] = Cell /\ suspect' \in [Pid -> SUBSET Cell]
        /\ \A q \in Pid : suspect[q] \subseteq suspect'[q]
        /\ \A q \in Pid \ {t} : suspect'[q] = suspect[q]
    BY <1>2 DEF DInv, KernelTypes
  <1>10. KernelTypes'
    <2>1. done' = [u \in Pid |-> done'[u]]
      BY <1>2 DEF DInv, KernelTypes
    <2>2. ASSUME NEW u \in Pid
          PROVE  /\ IsStep(done'[u])
                 /\ done'[u] = NoStep \/ IsCall(done'[u]) \/ IsCreate(done'[u])
      BY <1>4, <1>6, SortsOfCalls
    <2>3. table' \in [Pid -> [Cell -> Object]] /\ steps' \in 0 .. MaxSteps
      BY <1>2 DEF DInv, KernelTypes
    <2> QED
      BY <1>9, <2>1, <2>2, <2>3 DEF KernelTypes, IsStep, IsCall, IsCreate, IsOpen,
         IsTransfer, IsClose, IsDup, IsSocket, IsConnect, IsChdir, IsFchdir, IsUnseen, IsExec
  <1>11. GroupInv'
    <2>1. \A u \in Pid : group[u] = NoPid => done'[u] = NoStep
      BY <1>4 DEF DInv, GroupInv
    <2>2. \A u \in Pid : done'[u].op = "exec" => group[u] = u
      BY <1>8 DEF DInv, GroupInv
    <2>3. \A u \in Pid : thread_to_process'[u] # NoPid =>
             thread_to_process'[u] = group[u] /\ group[u] \in known'
      BY <1>1, <1>3 DEF DInv, GroupInv, TypeOK
    <2>4. \A u \in Pid : u \in known' => thread_to_process'[u] = u
      BY <1>3 DEF DInv, GroupInv, TypeOK
    <2> QED
      BY <2>1, <2>2, <2>3, <2>4, <1>2 DEF DInv, GroupInv
  <1>12. NewsInv'
    <2> SUFFICES ASSUME NEW u \in Pid, done'[u].op = "create"
                 PROVE  /\ ChildOf(u, done[u].args[1], done[u].args[2])'
                        /\ \A v \in Pid \ {u} :
                             done'[v].op = "create" => done'[v].args[1] # done'[u].args[1]
      BY DEF NewsInv
    <2>1. done'[u] = done[u] /\ done[u].op = "create"
      BY <1>8
    <2> DEFINE child == done[u].args[1]
               is_thread == done[u].args[2]
    <2>2. /\ ChildOf(u, child, is_thread)
          /\ \A v \in Pid \ {u} : done[v].op = "create" => done[v].args[1] # child
      BY <2>1 DEF DInv, NewsInv
    <2>3. child \in Pid /\ is_thread \in BOOLEAN
      BY <2>1, <1>6, SortsOfCalls, CreateArgs
    <2>4. child = done'[u].args[1] /\ is_thread = done'[u].args[2]
      BY <2>1
    <2>5. \A v \in Pid \ {u} : done'[v].op = "create" => done'[v].args[1] # child
      BY <2>2, <1>8
    <2> HIDE DEF child, is_thread
    <2>6. ChildOf(u, done[u].args[1], done[u].args[2])'
      BY <2>2, <2>3, <2>4, <1>2, <1>3, <1>9 DEF ChildOf
    <2> QED
      BY <2>4, <2>5, <2>6
  <1>13. SureInv'
    <2> SUFFICES ASSUME NEW u \in Pid, IsCall(done[u])'
                 PROVE  SureCall(u)'
      BY DEF SureInv
    <2>0. IsCall(done'[u])
      BY DEF IsCall, IsOpen, IsTransfer, IsClose, IsDup, IsSocket, IsConnect, IsChdir,
             IsFchdir, IsUnseen, IsExec
    <2>1. u # t /\ done'[u] = done[u] /\ IsCall(done[u])
      BY <2>0, <1>4, SortsOfCalls
    <2>2. SureCall(u)
      BY <2>1 DEF DInv, SureInv
    <2>3. group[u] \in Pid /\ group[u] # NoPid
      BY <2>1, CallersAreThreads, SortsOfCalls
    <2>4. CASE done[u].sure
      <3>0. thread_to_process[u] = group[u] /\ group[u] # t
        BY <2>2, <2>3, <2>4, <1>1 DEF SureCall, DInv, GroupInv
      <3>1. processes'[group[u]] = processes[group[u]]
        BY <2>3, <3>0, <1>3
      <3>2. Foreseen(done[u], processes[group[u]])
        BY <2>2, <2>4 DEF SureCall
      <3>3. Foreseen(done[u], processes[group[u]])'
        BY <2>1, <3>1, <3>2, <1>2 DEF Foreseen, resolve_path, Matches
      <3>4. \A v \in Neighbours(u) : ~Blurs(done'[v], done'[u])
        BY <2>1, <2>2, <2>4, <1>5 DEF Neighbours, Blurs, SureCall
      <3>5. (\A v \in Neighbours(u) : ~Blurs(done[v], done[u]))'
        BY <3>4, <1>7 DEF Blurs
      <3>6. (\A x \in done[u].writes : table[group[u]][x] = done[u].object)'
        BY <2>1, <2>2, <2>4, <1>2 DEF SureCall
      <3>7. thread_to_process'[u] = group'[u]
        BY <2>1, <3>0, <1>2, <1>3
      <3>8. \A v \in Pid : ~Copies(v, group[u])'
        BY <2>2, <2>4, <1>2, <1>8 DEF SureCall, Copies
      <3> QED
        BY <2>1, <2>4, <3>3, <3>5, <3>6, <3>7, <3>8 DEF SureCall
    <2>5. CASE ~done[u].sure
      BY <2>1, <2>2, <2>3, <2>5, <1>2, <1>9 DEF SureCall
    <2> QED
      BY <2>4, <2>5
  <1>14. CopyInv'
    <2> SUFFICES ASSUME NEW u \in Pid, done'[u].op = "create", ~done'[u].args[2]
                 PROVE  CopyCall(u, done[u].args[1])'
      BY DEF CopyInv
    <2>1. done'[u] = done[u] /\ done[u].op = "create" /\ ~done[u].args[2]
      BY <1>8
    <2> DEFINE child == done[u].args[1]
    <2>2. CopyCall(u, child)
      BY <2>1 DEF DInv, CopyInv
    <2>3. child \in Pid
      BY <2>1, <1>6, SortsOfCalls, CreateArgs
    <2>4. child = done'[u].args[1] /\ suspect[child] \subseteq suspect'[child]
      BY <2>1, <2>3, <1>9
    <2> HIDE DEF child
    <2> QED
      BY <2>2, <2>4, <1>2, <1>5 DEF CopyCall
  <1>15. AgreeInv'
    <2> SUFFICES ASSUME NEW q \in known', NEW x \in Cell,
                        x \notin suspect'[q], x \notin Unreported(q)'
                 PROVE  Agree(processes'[q], x, table[q][x])
      BY <1>2 DEF AgreeInv, Agree, Matches
    <2>1. q \in known /\ q \in Pid /\ q # t
      BY <1>1, <1>3, <1>9 DEF TypeOK
    <2>2. \A v \in Pid : group[v] = q => x \notin done'[v].writes
      BY <1>2 DEF Unreported
    <2>3. x \notin Unreported(q)
      BY <2>2, <1>5 DEF Unreported
    <2>4. processes'[q] = processes[q] /\ x \notin suspect[q]
      BY <2>1, <1>3, <1>9
    <2> QED
      BY <2>1, <2>3, <2>4 DEF DInv, AgreeInv
  <1> QED
    BY <1>10, <1>11, <1>12, <1>13, <1>14, <1>15 DEF DInv

\* DInv stays when a creation is reported: a child gets the entry of its parent,
\* and CopyInv has said all along in which cells the two tables are the same.
LEMMA CreateReportKeeps ==
    ASSUME TypeOK, DInv, NEW t \in Pid, NEW ts \in Time, Report(t, ts), IsCreate(done[t])
    PROVE  DInv'
  <1> DEFINE p == group[t]
             child == done[t].args[1]
             is_thread == done[t].args[2]
  <1>1. /\ child \in Pid /\ is_thread \in BOOLEAN /\ done[t].args = <<child, is_thread>>
    BY CreateArgs
  <1>2. done[t].op = "create" /\ done[t].writes = {} /\ done[t] # NoStep
    BY SortsOfCalls
  <1>3. /\ table' = table /\ steps' = steps /\ group' = group
        /\ done' = [done EXCEPT ![t] = NoStep]
        /\ on_process_created(t, child, is_thread, ts)
    BY <1>2 DEF Report
  <1>4. /\ p \in Pid /\ p # NoPid /\ group \in [Pid -> Pid \cup {NoPid}]
    BY <1>2, CallersAreThreads DEF DInv, GroupInv
  <1>5. ChildOf(t, child, is_thread)
    BY <1>2 DEF DInv, NewsInv
  <1>6. /\ suspect' \in [Pid -> SUBSET Cell]
        /\ \A q \in Pid \ {child} : suspect'[q] = suspect[q]
        /\ suspect'[child] = IF is_thread THEN suspect[child]
                             ELSE suspect[child] \cup suspect[p]
    <2>1. \A q \in Pid : Copies(t, q) <=> q = child /\ ~is_thread
      <3> HIDE DEF child, is_thread
      <3>1. \A q \in Pid : <<child, is_thread>> = <<q, FALSE>> <=> q = child /\ is_thread = FALSE
        OBVIOUS
      <3>2. is_thread = FALSE <=> ~is_thread
        BY <1>1
      <3> QED
        BY <3>1, <3>2, <1>1, <1>2 DEF Copies
    <2>2. suspect' = [q \in Pid |-> IF Copies(t, q) THEN suspect[q] \cup suspect[p]
                                     ELSE suspect[q]]
      BY <1>2 DEF Report
    <2>3. suspect \in [Pid -> SUBSET Cell]
      BY DEF DInv, KernelTypes
    <2> HIDE DEF child, is_thread, p
    <2> QED
      BY <2>1, <2>2, <2>3, <1>1, <1>4
  <1>7. done'[t] = NoStep /\ \A u \in Pid \ {t} : done'[u] = done[u]
    BY <1>3 DEF DInv, KernelTypes
  <1>8. \A u \in Pid : done'[u].writes = done[u].writes
    BY <1>2, <1>7, SortsOfCalls
  <1>9. \A u \in Pid : /\ IsStep(done[u])
                       /\ done[u] = NoStep \/ IsCall(done[u]) \/ IsCreate(done[u])
    BY DEF DInv, KernelTypes
  <1>10. \A u \in Pid : done'[u].op # "none" => done'[u] = done[u] /\ u # t
    BY <1>7, SortsOfCalls
  <1>11. \A u \in Pid : Neighbours(u)' = Neighbours(u)
    BY <1>3 DEF Neighbours
  <1>12. /\ processes \in [Pid -> ProcessState] /\ known \subseteq Pid
         /\ thread_to_process \in [Pid -> Pid \cup {NoPid}]
    BY DEF TypeOK
  <1> HIDE DEF child, is_thread
  \* What the handler does in its three cases: nothing, or a thread, or a copy.
  <1>13. \/ UNCHANGED <<known, processes, thread_to_process>>
         \/ /\ is_thread /\ p \in known /\ UNCHANGED <<known, processes>>
            /\ thread_to_process' = [thread_to_process EXCEPT ![child] = p]
         \/ /\ ~is_thread /\ p \in known /\ known' = known \cup {child}
            /\ \A q \in Pid \ {child} : processes'[q] = processes[q]
            /\ \A x \in Cell : Held(processes[p], x) = Held(processes'[child], x)
            /\ thread_to_process' = [thread_to_process EXCEPT ![child] = child]
    <2>1. CASE ~HasProcess(t)
      BY <2>1, <1>3 DEF on_process_created, state
    <2>2. CASE HasProcess(t)
      <3>1. p \in known /\ process_for_thread(t) = p
        BY <2>2, KnownThreads
      <3>2. CASE is_thread
        BY <2>2, <3>1, <3>2, <1>3 DEF on_process_created
      <3>3. CASE ~is_thread
        <4> DEFINE copy == [processes[p] EXCEPT !.parent_pid = p]
        <4>1. /\ known' = known \cup {child}
              /\ processes' = [processes EXCEPT ![child] = copy]
              /\ thread_to_process' = [thread_to_process EXCEPT ![child] = child]
          BY <2>2, <3>1, <3>3, <1>3 DEF on_process_created
        <4>2. copy.cwd = processes[p].cwd /\ copy.fd_table = processes[p].fd_table
          BY <1>4, <1>12 DEF ProcessState
        <4> HIDE DEF copy
        <4>3. \A x \in Cell : Held(processes[p], x) = Held(processes'[child], x)
          BY <4>1, <4>2, <1>1, <1>12 DEF Held
        <4> QED
          BY <3>1, <3>3, <4>1, <4>3, <1>12
      <3> QED
        BY <3>2, <3>3
    <2> QED
      BY <2>1, <2>2
  <1>14. /\ \A q \in Pid \ {child} : processes'[q] = processes[q] /\ (q \in known' <=> q \in known)
         /\ \A u \in Pid : thread_to_process[u] # NoPid => thread_to_process'[u] # NoPid
         /\ known' \subseteq Pid
    BY <1>1, <1>4, <1>12, <1>13, PidAssumption
  <1>15. KernelTypes'
    <2>1. done' = [u \in Pid |-> done'[u]]
      BY <1>3 DEF DInv, KernelTypes
    <2>2. ASSUME NEW u \in Pid
          PROVE  /\ IsStep(done'[u])
                 /\ done'[u] = NoStep \/ IsCall(done'[u]) \/ IsCreate(done'[u])
      BY <1>7, <1>9, SortsOfCalls
    <2>3. table' \in [Pid -> [Cell -> Object]] /\ steps' \in 0 .. MaxSteps
      BY <1>3 DEF DInv, KernelTypes
    <2> QED
      BY <1>6, <2>1, <2>2, <2>3 DEF KernelTypes, IsStep, IsCall, IsCreate, IsOpen,
         IsTransfer, IsClose, IsDup, IsSocket, IsConnect, IsChdir, IsFchdir, IsUnseen, IsExec
  <1>16. GroupInv'
    <2>1. \A u \in Pid : group[u] = NoPid => done'[u] = NoStep
      BY <1>7 DEF DInv, GroupInv
    <2>2. \A u \in Pid : done'[u].op = "exec" => group[u] = u
      BY <1>10 DEF DInv, GroupInv
    <2>3. \A u \in Pid : /\ thread_to_process[u] # NoPid =>
                              thread_to_process[u] = group[u] /\ group[u] \in known
                         /\ u \in known => thread_to_process[u] = u
      BY DEF DInv, GroupInv
    <2>4. /\ group[child] = (IF is_thread THEN p ELSE child) /\ child # p
      BY <1>5 DEF ChildOf
    <2>5. is_thread => child \notin known
      BY <2>3, <2>4, <1>1, PidAssumption
    <2>6. \A u \in Pid : /\ thread_to_process'[u] # NoPid =>
                              thread_to_process'[u] = group[u] /\ group[u] \in known'
                         /\ u \in known' => thread_to_process'[u] = u
      BY <2>3, <2>4, <2>5, <1>1, <1>12, <1>13
    <2> QED
      BY <2>1, <2>2, <2>6, <1>3 DEF DInv, GroupInv
  <1>17. NewsInv'
    <2> SUFFICES ASSUME NEW u \in Pid, done'[u].op = "create"
                 PROVE  /\ ChildOf(u, done[u].args[1], done[u].args[2])'
                        /\ \A v \in Pid \ {u} :
                             done'[v].op = "create" => done'[v].args[1] # done'[u].args[1]
      BY DEF NewsInv
    <2>1. done'[u] = done[u] /\ done[u].op = "create" /\ u # t
      BY <1>10
    <2> DEFINE other == done[u].args[1]
               kind == done[u].args[2]
    <2>2. /\ ChildOf(u, other, kind)
          /\ \A v \in Pid \ {u} : done[v].op = "create" => done[v].args[1] # other
      BY <2>1 DEF DInv, NewsInv
    <2>3. other \in Pid /\ kind \in BOOLEAN /\ other # child
      BY <2>1, <2>2, <1>2, <1>9, SortsOfCalls, CreateArgs DEF child
    <2>4. other = done'[u].args[1] /\ kind = done'[u].args[2]
      BY <2>1
    <2>5. \A v \in Pid \ {u} : done'[v].op = "create" => done'[v].args[1] # other
      BY <2>2, <1>10
    <2> HIDE DEF other, kind
    <2>6. ChildOf(u, done[u].args[1], done[u].args[2])'
      BY <2>2, <2>3, <2>4, <1>3, <1>6, <1>14 DEF ChildOf
    <2> QED
      BY <2>4, <2>5, <2>6
  <1>18. SureInv'
    <2> SUFFICES ASSUME NEW u \in Pid, IsCall(done[u])'
                 PROVE  SureCall(u)'
      BY DEF SureInv
    <2>0. IsCall(done'[u])
      BY DEF IsCall, IsOpen, IsTransfer, IsClose, IsDup, IsSocket, IsConnect, IsChdir,
             IsFchdir, IsUnseen, IsExec
    <2>1. u # t /\ done'[u] = done[u] /\ IsCall(done[u])
      BY <2>0, <1>7, SortsOfCalls
    <2>2. SureCall(u)
      BY <2>1 DEF DInv, SureInv
    <2>3. group[u] \in Pid /\ group[u] # NoPid /\ group[group[u]] = group[u]
      BY <2>1, CallersAreThreads, SortsOfCalls DEF DInv, GroupInv
    <2>4. CASE done[u].sure
      <3>1. group[u] # child
        <4>1. CASE is_thread
          BY <4>1, <2>3, <1>5 DEF ChildOf
        <4>2. CASE ~is_thread
          <5>1. is_thread = FALSE
            BY <4>2, <1>1
          <5>2. Copies(t, child)
            BY <5>1, <1>1, <1>2 DEF Copies
          <5> QED
            BY <5>2, <2>2, <2>4 DEF SureCall
        <4> QED
          BY <4>1, <4>2
      <3>2. processes'[group[u]] = processes[group[u]]
        BY <2>3, <3>1, <1>14
      <3>3. Foreseen(done[u], processes[group[u]])
        BY <2>2, <2>4 DEF SureCall
      <3>4. Foreseen(done[u], processes[group[u]])'
        BY <2>1, <3>2, <3>3, <1>3 DEF Foreseen, resolve_path, Matches
      <3>5. \A v \in Neighbours(u) : ~Blurs(done'[v], done'[u])
        BY <2>1, <2>2, <2>4, <1>8 DEF Neighbours, Blurs, SureCall
      <3>6. (\A v \in Neighbours(u) : ~Blurs(done[v], done[u]))'
        BY <3>5, <1>11 DEF Blurs
      <3>7. (\A x \in done[u].writes : table[group[u]][x] = done[u].object)'
        BY <2>1, <2>2, <2>4, <1>3 DEF SureCall
      <3>8. thread_to_process'[u] = group'[u]
        <4>1. thread_to_process'[u] # NoPid
          BY <2>2, <2>3, <2>4, <1>14 DEF SureCall
        <4> QED
          BY <4>1, <1>16 DEF GroupInv
      <3>9. \A v \in Pid : ~Copies(v, group[u])'
        BY <2>2, <2>4, <1>3, <1>10 DEF SureCall, Copies
      <3> QED
        BY <2>1, <2>4, <3>4, <3>6, <3>7, <3>8, <3>9 DEF SureCall
    <2>5. CASE ~done[u].sure
      <3>1. suspect[group[u]] \subseteq suspect'[group[u]]
        BY <2>3, <1>6
      <3> QED
        BY <2>1, <2>2, <2>5, <3>1, <1>3 DEF SureCall
    <2> QED
      BY <2>4, <2>5
  <1>19. CopyInv'
    <2> SUFFICES ASSUME NEW u \in Pid, done'[u].op = "create", ~done'[u].args[2]
                 PROVE  CopyCall(u, done[u].args[1])'
      BY DEF CopyInv
    <2>1. done'[u] = done[u] /\ done[u].op = "create" /\ ~done[u].args[2]
      BY <1>10
    <2> DEFINE other == done[u].args[1]
    <2>2. CopyCall(u, other)
      BY <2>1 DEF DInv, CopyInv
    <2>3. other \in Pid
      BY <2>1, <1>9, SortsOfCalls, CreateArgs
    <2>4. other = done'[u].args[1] /\ suspect[other] \subseteq suspect'[other]
      BY <2>1, <2>3, <1>6
    <2> HIDE DEF other
    <2> QED
      BY <2>2, <2>4, <1>3, <1>8 DEF CopyCall
  <1>20. AgreeInv'
    <2> SUFFICES ASSUME NEW q \in known', NEW x \in Cell,
                        x \notin suspect'[q], x \notin Unreported(q)'
                 PROVE  Agree(processes'[q], x, table[q][x])
      BY <1>3 DEF AgreeInv, Agree, Matches
    <2>1. q \in Pid /\ x \notin suspect[q]
      BY <1>6, <1>14
    <2>2. \A v \in Pid : group[v] = q => x \notin done'[v].writes
      BY <1>3 DEF Unreported
    <2>3. x \notin Unreported(q)
      BY <2>2, <1>8 DEF Unreported
    <2>4. CASE q \in known /\ processes'[q] = processes[q]
      BY <2>1, <2>3, <2>4 DEF DInv, AgreeInv
    <2>5. CASE ~(q \in known /\ processes'[q] = processes[q])
      <3>1. /\ q = child /\ ~is_thread /\ p \in known
            /\ Held(processes[p], x) = Held(processes'[child], x)
        BY <2>1, <2>5, <1>13, <1>14
      <3>2. CopyCall(t, child)
        BY <3>1, <1>2 DEF DInv, CopyInv, child, is_thread
      <3>3. /\ x \notin suspect[child] /\ x \notin suspect[p]
        BY <3>1, <1>6
      <3>4. table[child][x] = table[p][x] /\ x \notin Unreported(p)
        BY <3>2, <3>3 DEF CopyCall, Unreported
      <3>5. Agree(processes[p], x, table[p][x])
        BY <3>1, <3>3, <3>4 DEF DInv, AgreeInv
      <3> QED
        BY <3>1, <3>4, <3>5, AgreeFromHeld
    <2> QED
      BY <2>4, <2>5
  <1> QED
    BY <1>15, <1>16, <1>17, <1>18, <1>19, <1>20 DEF DInv

-----------------------------------------------------------------------------
(* The theorems *)

\* Before the first call the two sides agree.
LEMMA InitAgrees == DInit => TypeOK /\ DInv
  <1> SUFFICES ASSUME DInit PROVE TypeOK /\ DInv
    OBVIOUS
  <1>1. TypeOK
    BY InitTypes DEF DInit
  <1>2. /\ known = {Root}
        /\ processes[Root].cwd = StartDir
        /\ \A f \in Fd : processes[Root].fd_table[f] = NoResource
        /\ thread_to_process[Root] = Root
    BY PidAssumption DEF DInit, Init, add_initial_process, FreshProcess
  <1>3. /\ \A t \in Pid : done[t] = NoStep
        /\ \A t \in Pid : group[t] # NoPid => t = Root
        /\ group[Root] = Root
        /\ group \in [Pid -> Pid \cup {NoPid}]
    BY PidAssumption DEF DInit
  <1>4. PICK fds \in [Fd -> Inherited \cup {NoObject}] :
          /\ table = [p \in Pid |-> [x \in Cell |->
                        IF p # Root THEN NoObject
                        ELSE IF x = AT_FDCWD THEN FileAt(StartDir) ELSE fds[x]]]
          /\ suspect = [p \in Pid |-> IF p # Root THEN {}
                                      ELSE {f \in Fd : fds[f].type # "none"}]
    BY DEF DInit
  <1>5. KernelTypes
    <2>1. /\ NoObject \in Object /\ FileAt(StartDir) \in Object
          /\ \A f \in Fd : fds[f] \in Object
      BY NameAssumption, InheritedAssumption DEF NoObject, FileAt, Object
    <2>2. table \in [Pid -> [Cell -> Object]]
      BY <2>1, <1>4 DEF Cell
    <2>3. suspect \in [Pid -> SUBSET Cell]
      BY <1>4 DEF Cell
    <2>4. done = [t \in Pid |-> done[t]] /\ steps \in 0 .. MaxSteps
      BY ThreadAssumption DEF DInit
    <2> QED
      BY <2>2, <2>3, <2>4, <1>3, SortsOfCalls DEF KernelTypes
  <1>6. GroupInv
    <2>1. thread_to_process = [p \in Pid |-> IF p = Root THEN Root ELSE NoPid]
      BY DEF DInit, Init, add_initial_process
    <2> QED
      BY <2>1, <1>2, <1>3, SortsOfCalls, PidAssumption DEF GroupInv
  <1>7. SureInv /\ CopyInv /\ NewsInv
    BY <1>3, SortsOfCalls DEF SureInv, CopyInv, NewsInv
  <1>8. AgreeInv
    <2>1. ASSUME NEW x \in Cell, x \notin suspect[Root]
          PROVE  Agree(processes[Root], x, table[Root][x])
      <3>1. CASE x = AT_FDCWD
        BY <3>1, <1>2, <1>4, PidAssumption DEF Agree, FileAt
      <3>2. CASE x # AT_FDCWD
        <4>1. table[Root][x].type = "none" /\ x \in Fd
          BY <2>1, <3>2, <1>4, PidAssumption DEF Cell
        <4> QED
          BY <3>2, <4>1, <1>2 DEF Agree, Matches, NoResource
      <3> QED
        BY <3>1, <3>2
    <2> QED
      BY <2>1, <1>2 DEF AgreeInv
  <1> QED
    BY <1>1, <1>5, <1>6, <1>7, <1>8 DEF DInv

\* The kernel does nothing to ExecutionState, and takes no call back.
LEMMA KernelIsApart ==
    ASSUME DInv, Kernel
    PROVE  /\ UNCHANGED vars
           /\ \A u \in Pid : done[u] # NoStep => done'[u].op = done[u].op
  <1>1. PICK t \in Pid : \/ \E s, seen : Effect(t, s, seen)
                        \/ \E child, is_thread : Create(t, child, is_thread)
    <2> DEFINE Acts(t) == \E s, seen : Effect(t, s, seen)
    <2>1. ASSUME NEW t, NEW b, NEW x, NEW r, NEW d, NEW fd, Open(t, b, x, r, d, fd)
          PROVE  Acts(t)
      <3> DEFINE path == IF b THEN Join(Slash, r) ELSE Join(At(t, x).name, r)
                 s == Step("open", <<b, x, r, d, fd>>, IF b THEN {} ELSE {x},
                           {fd} \ {AT_FDCWD}, FileAt(path), TRUE)
      <3>1. Effect(t, s, TRUE)
        BY <2>1 DEF Open
      <3> HIDE DEF s
      <3> QED
        BY <3>1
    <2>2. \A t, type, fd : Transfer(t, type, fd) => Acts(t)
      BY DEF Transfer
    <2>3. \A t, fd : Close(t, fd) \/ Socket(t, fd) \/ Fchdir(t, fd) => Acts(t)
      BY DEF Close, Socket, Fchdir
    <2>4. \A t, old_fd, new_fd : Dup(t, old_fd, new_fd) => Acts(t)
      BY DEF Dup
    <2>5. \A t, type, fd, e : Connect(t, type, fd, e) => Acts(t)
      BY DEF Connect
    <2>6. \A t, b, r : Chdir(t, b, r) => Acts(t)
      BY DEF Chdir
    <2>7. \A t, fd, object : Unseen(t, fd, object) => Acts(t)
      BY DEF Unseen
    <2>9. \A t : Exec(t) => Acts(t)
      BY DEF Exec
    <2> HIDE DEF Acts
    <2>8. PICK t \in Pid : Acts(t) \/ \E child, is_thread : Create(t, child, is_thread)
      BY <2>1, <2>2, <2>3, <2>4, <2>5, <2>6, <2>7, <2>9 DEF Kernel
    <2> QED
      BY <2>8 DEF Acts
  <1>2. UNCHANGED vars
    BY <1>1 DEF Effect, Create
  <1>3. ASSUME NEW u \in Pid, done[u] # NoStep
        PROVE  done'[u].op = done[u].op
    <2>1. IsStep(done[u]) /\ done = [v \in Pid |-> done[v]]
      BY DEF DInv, KernelTypes
    <2>2. [done[u] EXCEPT !.sure = FALSE].op = done[u].op
      BY <2>1, SureIsApart
    <2>3. CASE \E s, seen : Effect(t, s, seen)
      <3>1. PICK s, seen : Effect(t, s, seen)
        BY <2>3
      <3>2. t # u /\ done'[u] \in {done[u], [done[u] EXCEPT !.sure = FALSE]}
        BY <1>3, <3>1 DEF Effect
      <3> QED
        BY <2>2, <3>2
    <2>4. CASE \E child, is_thread : Create(t, child, is_thread)
      <3>1. t # u /\ done'[u] = done[u]
        BY <1>3, <2>1, <2>4 DEF Create
      <3> QED
        BY <3>1
    <2> QED
      BY <1>1, <2>3, <2>4
  <1> QED
    BY <1>2, <1>3

\* Every report is a call of a handler that ExecutionState allows.
LEMMA ReportIsNext ==
    ASSUME TypeOK, DInv, NEW t \in Pid, NEW ts \in Time, Report(t, ts)
    PROVE  Next
  <1> DEFINE s == done[t]
             a == s.args
  <1>0. s = NoStep \/ IsCall(s) \/ IsCreate(s)
    BY DEF DInv, KernelTypes
  <1>1. s # NoStep
    BY SortsOfCalls DEF Report
  <1>2. IsCall(s) => \/ on_syscall_exit(t, ts)
                     \/ on_process_exec(t, NoExe, At(t, AT_FDCWD).name, ts)
    <2>1. IsOpen(s) => on_syscall_exit(t, ts)
      BY DEF Report, IsOpen, on_syscall_exit, Cell
    <2>2. IsTransfer(s) => on_syscall_exit(t, ts)
      BY DEF Report, IsTransfer, on_syscall_exit
    <2>3. IsClose(s) => on_syscall_exit(t, ts)
      BY DEF Report, IsClose, on_syscall_exit
    <2>4. IsDup(s) => on_syscall_exit(t, ts)
      BY DEF Report, IsDup, on_syscall_exit
    <2>5. IsSocket(s) => on_syscall_exit(t, ts)
      BY DEF Report, IsSocket, on_syscall_exit
    <2>6. IsConnect(s) => on_syscall_exit(t, ts)
      BY DEF Report, IsConnect, on_syscall_exit
    <2>7. IsChdir(s) => on_syscall_exit(t, ts)
      BY DEF Report, IsChdir, on_syscall_exit
    <2>8. IsFchdir(s) => on_syscall_exit(t, ts)
      BY DEF Report, IsFchdir, on_syscall_exit
    <2>9. IsUnseen(s) => on_syscall_exit(t, ts)
      BY DEF Report, IsUnseen, on_syscall_exit
    <2>10. IsExec(s) => on_process_exec(t, NoExe, At(t, AT_FDCWD).name, ts)
      BY DEF Report, IsExec
    <2> QED
      BY <2>1, <2>2, <2>3, <2>4, <2>5, <2>6, <2>7, <2>8, <2>9, <2>10 DEF IsCall
  <1>4. At(t, AT_FDCWD).name \in Name
    <2>1. group[t] \in Pid
      BY <1>1, CallersAreThreads
    <2> QED
      BY <2>1 DEF DInv, KernelTypes, At, Cell, Object, Name
  <1>3. IsCreate(s) => \E child \in Pid \ {Root}, is_thread \in BOOLEAN :
                         on_process_created(t, child, is_thread, ts)
    <2> SUFFICES ASSUME IsCreate(s)
                 PROVE  \E child \in Pid \ {Root}, is_thread \in BOOLEAN :
                          on_process_created(t, child, is_thread, ts)
      OBVIOUS
    <2>1. PICK child \in Pid, is_thread \in BOOLEAN : a = <<child, is_thread>>
      BY DEF IsCreate
    <2>2. s.op = "create" /\ on_process_created(t, a[1], a[2], ts)
      BY DEF IsCreate, Report
    <2>3. ChildOf(t, a[1], a[2])
      BY <2>2 DEF DInv, NewsInv
    <2>4. child # Root
      BY <2>1, <2>3 DEF ChildOf
    <2> QED
      BY <2>1, <2>2, <2>4
  <1> QED
    BY <1>0, <1>1, <1>2, <1>3, <1>4 DEF Next

\* No step of the kernel and no report breaks DInv.
LEMMA NextAgrees == TypeOK /\ DInv /\ [DNext]_dvars => TypeOK' /\ DInv'
  <1> SUFFICES ASSUME TypeOK, DInv, [DNext]_dvars PROVE TypeOK' /\ DInv'
    OBVIOUS
  <1>1. CASE Kernel
    BY <1>1, KernelKeeps, KernelIsApart, NextTypes
  <1>2. ASSUME NEW t \in Pid, NEW ts \in Time, Report(t, ts)
        PROVE  TypeOK' /\ DInv'
    <2>1. TypeOK'
      BY <1>2, ReportIsNext, NextTypes
    <2>2. IsCall(done[t]) \/ IsCreate(done[t])
      BY <1>2, SortsOfCalls DEF DInv, KernelTypes, Report
    <2> QED
      BY <1>2, <2>1, <2>2, CallReportKeeps, DiscoveryKeeps, CreateReportKeeps
  <1>3. CASE UNCHANGED dvars
    <2>1. TypeOK'
      BY <1>3, NextTypes DEF dvars
    <2>2. /\ processes' = processes /\ known' = known /\ thread_to_process' = thread_to_process
          /\ table' = table /\ group' = group /\ done' = done /\ suspect' = suspect
          /\ steps' = steps
      BY <1>3 DEF dvars, vars, state
    <2>3. KernelTypes'
      <3>1. ASSUME NEW u \in Pid
            PROVE  /\ IsStep(done'[u])
                   /\ done'[u] = NoStep \/ IsCall(done'[u]) \/ IsCreate(done'[u])
        BY <2>2 DEF DInv, KernelTypes
      <3> QED
        BY <2>2, <3>1 DEF DInv, KernelTypes, IsStep, IsCall, IsCreate, IsOpen, IsTransfer,
           IsClose, IsDup, IsSocket, IsConnect, IsChdir, IsFchdir, IsUnseen, IsExec
    <2>4. GroupInv' /\ NewsInv'
      BY <2>2 DEF DInv, GroupInv, NewsInv, ChildOf
    <2>5. SureInv'
      <3> SUFFICES ASSUME NEW u \in Pid, IsCall(done[u])'
                   PROVE  SureCall(u)'
        BY DEF SureInv
      <3>1. IsCall(done'[u])
        BY DEF IsCall, IsOpen, IsTransfer, IsClose, IsDup, IsSocket, IsConnect, IsChdir,
               IsFchdir, IsUnseen, IsExec
      <3>2. SureCall(u)
        BY <2>2, <3>1 DEF DInv, SureInv
      <3> QED
        BY <2>2, <3>2 DEF SureCall, Copies, Neighbours, Blurs, Foreseen, resolve_path,
           Matches
    <2>6. CopyInv'
      BY <2>2 DEF DInv, CopyInv, CopyCall
    <2>7. AgreeInv'
      BY <2>2 DEF DInv, AgreeInv, Agree, Matches, Unreported
    <2> QED
      BY <2>1, <2>3, <2>4, <2>5, <2>6, <2>7 DEF DInv
  <1> QED
    BY <1>1, <1>2, <1>3 DEF DNext

\* So DInv holds throughout.
LEMMA AlwaysAgrees == DSpec => [](TypeOK /\ DInv)
BY InitAgrees, NextAgrees, PTL DEF DSpec

\* Both sides are well formed, whatever the calls and the order of their reports:
\* no handler is misled by an entry of another kind than the kernel's object.
THEOREM DescriptorTypes == DSpec => []DTypeOK
  <1>1. TypeOK /\ DInv => DTypeOK
    BY DEF DInv, KernelTypes, GroupInv, IsStep, DTypeOK
  <1> QED
    BY <1>1, AlwaysAgrees, PTL

\* fd_table and cwd of every known process agree with the kernel's in every cell
\* but those inherited from whyrun, and those whose last change was unseen, raced
\* with a neighbour's call, came before the creation of the process or the thread
\* was reported, or was made from such a cell: for any number of threads, children,
\* descriptors and calls.
THEOREM MistakesStayWhereMade == DSpec => []TablesAgree
  <1>1. DInv => TablesAgree
    <2> SUFFICES ASSUME DInv, NEW p \in known
                 PROVE  /\ \A x \in Fd \ (suspect[p] \cup Unreported(p)) :
                             Matches(processes[p].fd_table[x], table[p][x])
                        /\ AT_FDCWD \notin suspect[p] \cup Unreported(p) =>
                             processes[p].cwd \in {table[p][AT_FDCWD].name, Unresolved}
      BY DEF TablesAgree
    <2>1. \A x \in Cell \ (suspect[p] \cup Unreported(p)) :
             Agree(processes[p], x, table[p][x])
      BY DEF DInv, AgreeInv
    <2> QED
      BY <2>1, NameAssumption DEF Agree, Cell
  <1> QED
    BY <1>1, AlwaysAgrees, PTL

\* The event of a sure open, read or write names the file the call was about, or
\* no file, and no sure read or write of a file goes without its event.  Not sure
\* are the calls of threads that were not known when they called, those that raced
\* and those on a suspect cell, such as a descriptor inherited from whyrun.
THEOREM EventsAreRight == DSpec => EventsNameTheFile
  <1> DEFINE Right(t) ==
         done[t].op \in {"open", "transfer"} /\ done[t].sure /\ done'[t] = NoStep =>
           IF done[t].object.type = "file"
           THEN /\ Len(emitted') = 1
                /\ emitted'[1].resource \in {done[t].object.name, Unresolved}
           ELSE emitted' = << >>
  <1>1. ASSUME TypeOK, DInv, [DNext]_dvars, NEW t \in Pid,
               done[t].op \in {"open", "transfer"}, done[t].sure, done'[t] = NoStep
        PROVE  IF done[t].object.type = "file"
               THEN /\ Len(emitted') = 1
                    /\ emitted'[1].resource \in {done[t].object.name, Unresolved}
               ELSE emitted' = << >>
    <2>1. IsCall(done[t]) /\ done[t] # NoStep
      BY <1>1, SortsOfCalls DEF DInv, KernelTypes
    <2>2. ~Kernel /\ ~UNCHANGED dvars
      BY <1>1, <2>1, KernelIsApart, SortsOfCalls DEF dvars
    <2>3. PICK ts \in Time : Report(t, ts)
      <3>1. PICK u \in Pid, ts \in Time : Report(u, ts)
        BY <1>1, <2>2 DEF DNext
      <3>2. u = t
        BY <1>1, <2>1, <3>1 DEF Report, DInv, KernelTypes
      <3> QED
        BY <3>1, <3>2
    <2>4. /\ HasProcess(t) /\ ProcessOf(t) = processes[group[t]]
          /\ Foreseen(done[t], processes[group[t]]) /\ ~on_dropped_syscall(t, ts)
      <3>1. SureCall(t)
        BY <1>1, <2>1 DEF DInv, SureInv
      <3>2. HasProcess(t)
        BY <1>1, <2>1, <3>1, CallersAreThreads DEF SureCall
      <3> QED
        BY <1>1, <3>1, <3>2, KnownThreads DEF SureCall, on_dropped_syscall
    <2> DEFINE a == done[t].args
    <2>5. CASE done[t].op = "open"
      <3>1. done[t].object.type = "file"
        BY <2>1, <2>5 DEF IsCall, IsOpen, IsTransfer, IsClose, IsDup, IsSocket, IsConnect,
              IsChdir, IsFchdir, IsUnseen, IsExec
      <3>2. on_open(t, a[1], a[2], a[3], a[4], a[5], ts)
        BY <2>3, <2>4, <2>5 DEF Report
      <3> DEFINE path == resolve_path(processes[group[t]], a[1], a[2], a[3])
      <3>3. SyscallEvent("file_open", t, path, ts)
        BY <2>4, <3>2 DEF on_open
      <3>4. path \in {done[t].object.name, Unresolved}
        BY <2>4, <2>5 DEF Foreseen
      <3> HIDE DEF path
      <3>5. Len(emitted') = 1 /\ emitted'[1].resource = path
        BY <3>3 DEF SyscallEvent, Emit, MakeEvent
      <3> QED
        BY <3>1, <3>4, <3>5
    <2>6. CASE done[t].op = "transfer"
      <3>0. IsTransfer(done[t])
        BY <2>1, <2>6 DEF IsCall, IsOpen, IsTransfer, IsClose, IsDup, IsSocket, IsConnect,
              IsChdir, IsFchdir, IsUnseen, IsExec
      <3>1. PICK type \in {"file_read", "file_write"}, fd \in Fd :
               a = <<type, fd>> /\ done[t].reads = {fd}
        BY <3>0 DEF IsTransfer
      <3> DEFINE resource == processes[group[t]].fd_table[fd]
      <3>2. on_transfer(t, type, fd, ts)
        BY <2>3, <2>4, <2>6, <3>1 DEF Report
      <3>3. IF resource.type = "file" THEN SyscallEvent(type, t, resource.name, ts)
            ELSE EmitNothing
        BY <2>4, <3>2 DEF on_transfer
      <3>4. Matches(resource, done[t].object)
        BY <2>4, <2>6, <3>1 DEF Foreseen
      <3> HIDE DEF resource
      <3>5. CASE resource.type = "file"
        <4>1. Len(emitted') = 1 /\ emitted'[1].resource = resource.name
          BY <3>3, <3>5 DEF SyscallEvent, Emit, MakeEvent
        <4> QED
          BY <3>4, <3>5, <4>1 DEF Matches
      <3>6. CASE resource.type # "file"
        BY <3>3, <3>4, <3>6 DEF Matches, EmitNothing
      <3> QED
        BY <3>5, <3>6
    <2> QED
      BY <1>1, <2>5, <2>6
  <1>2. TypeOK /\ DInv /\ [DNext]_dvars => [\A t \in Pid : Right(t)]_dvars
    BY <1>1
  <1> QED
    BY <1>2, AlwaysAgrees, PTL DEF DSpec, EventsNameTheFile
=============================================================================
