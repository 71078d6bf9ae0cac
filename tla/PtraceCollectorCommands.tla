---------------------- MODULE PtraceCollectorCommands ----------------------
(***************************************************************************)
(* Proofs about the commands in the loop of collect(), for any number of   *)
(* threads, any order of reports and any kill: every call the loop makes   *)
(* is one ExecutionState is specified for, so that what is proved of Spec  *)
(* holds of the loop; the loop's own view of a system call agrees with the *)
(* kernel; and processes get the command that launched them or none.       *)
(***************************************************************************)
EXTENDS PtraceCollectorProofs, ExecutionStateProofs

-----------------------------------------------------------------------------
(* The inductive invariant.  Its first half is about the kernel and the    *)
(* flag of the loop.                                                       *)

Born(t) == life[t] # "unborn"

(* Processes and threads.  A thread exists only together with its process,
   only the leader reports an exec, and the shell of a session has no threads. *)
FamilyInv ==
    /\ group[Root] = Root /\ Born(Root)
    /\ session => Root \notin dethreaded
    /\ \A t \in Pid :
         /\ group[group[t]] = group[t]
         /\ Born(t) => Born(group[t])
         /\ ~Born(t) => group[t] = t /\ report[t].kind = "none" /\ threads[t] = "none"
         /\ Exists(t) => Exists(group[t])
         /\ report[t].kind \notin {"none", "exited"} => life[t] = "live"
         /\ report[t].kind = "exec" => group[t] = t
         /\ call[t] = "new" => report[t].kind \in {"none", "exited"}
         /\ session /\ group[t] = Root => t = Root /\ call[t] # "thread"

(* A child that is announced was launched by the command its creator works for;
   the shell does not get to another command before the report is taken. *)
ChildInv ==
    \A t \in Pid : report[t].kind = "created" =>
      LET child == report[t].child
      IN  /\ child \in Pid \ {Root, t, group[t]}
          /\ Born(child)
          /\ group[child] \in {child, group[t]}
          /\ launch[child] = IF group[t] = Root THEN ShellCommand ELSE launch[group[t]]

(* The threads of a process were launched by the same command. *)
LaunchInv ==
    \A t \in Pid \ {Root} :
      Born(t) => launch[t] = IF group[t] = Root THEN 1 ELSE launch[group[t]]

(* The flag of the loop is set while a thread is between the reports of the
   entry and the exit of a call. *)
PhaseInv ==
    pc = "loop" =>
      \A t \in Pid \ dethreaded : life[t] = "live" =>
        /\ threads[t] = "none" <=>
             report[t].kind \in {"entry", "stop"} \/ call[t] \in {"none", "new"}
        /\ report[t].kind \in {"entry", "exit"} => call[t] \notin {"none", "new"}
        /\ report[t].kind = "stop" => call[t] = "none"

(* Only the shell of a session writes markers, and no more than there are ids. *)
MarkerInv ==
    \A t \in Pid : call[t] = "marker" \/ threads[t] = "marker" =>
      /\ t = Root /\ session
      /\ shell.next = "arm" => shell.id < MaxCommand

KernelInv == FamilyInv /\ ChildInv /\ LaunchInv /\ PhaseInv /\ MarkerInv

(* The second half is about ExecutionState. *)

(* The active command is the one the shell is at, or none. *)
ShellInv ==
    /\ shell \in [next : {"arm", "text", "start", "end"}, id : 0 .. MaxCommand]
    /\ shell.next # "arm" => shell.id > 0
    /\ active_command.id \in {NoCommand, ShellCommand}

(* The ids the shell has not come to are unused. *)
FreshInv ==
    session =>
      /\ \A p \in Pid : processes[p].command_id <= shell.id
      /\ \A c \in CommandId : c > shell.id => Unused(c)

(* The thread index leads from a thread to a thread of the same process. *)
IndexInv ==
    /\ thread_to_process[Root] \in {Root, NoPid}
    /\ \A t \in Pid :
         /\ thread_to_process[t] # NoPid => group[thread_to_process[t]] = group[t]
         /\ ~Born(t) => t \notin known /\ thread_to_process[t] = NoPid

StateInv == TypeOK /\ CommandsInv /\ ShellInv /\ FreshInv /\ IndexInv /\ RightCommandOrNone

(* Without Ctrl-C in the hooks of the shell, the recorder knows exactly which
   marker comes next. *)
SyncInv ==
    life[Root] # "gone" =>
      /\ active_command.id = ShellCommand
      /\ session /\ shell.next \in {"text", "start"} => ~active_command.started
      /\ session /\ shell.next = "end" => active_command.started

(* The command of a process is moreover the one that launched it, unless the
   process was overtaken. *)
TableExact ==
    \A p \in known \ ({Root} \cup overtaken) : processes[p].command_id = launch[p]

EventsExact ==
    \A i \in DOMAIN emitted :
      /\ emitted[i].pid \in known
      /\ emitted[i].pid \notin {Root} \cup overtaken =>
           emitted[i].command_id = launch[emitted[i].pid]

ExactInv == TableExact /\ EventsExact

(* While a thread makes another one, the loop holds the arguments of that very
   clone: unless the process was dethreaded. *)
MakesThread(t) ==
    \/ call[t] = "thread" /\ report[t].kind # "entry"
    \/ report[t].kind = "created" /\ group[report[t].child] # report[t].child

CloneInv ==
    /\ \A p \in dethreaded : Born(p) /\ group[p] = p
    /\ pc = "loop" => \A t \in Pid \ dethreaded :
         life[t] = "live" /\ MakesThread(t) => threads[t] = "thread"

-----------------------------------------------------------------------------
(* Steps of the kernel's half. *)

(* One live thread reports, or is resumed.  The shell moves on only in a step of
   its own. *)
LEMMA OneThread ==
    ASSUME CTypeOK, KernelInv, NEW t \in Pid, life[t] = "live",
           UNCHANGED <<life, group, launch, dethreaded, session>>,
           \A u \in Pid \ {t} : /\ report'[u] = report[u] /\ call'[u] = call[u]
                                /\ threads'[u] = threads[u],
           report'[t].kind \notin {"exec", "created"},
           call'[t] = "new" => report'[t].kind \in {"none", "exited"},
           session /\ group[t] = Root => call'[t] # "thread",
           shell' = shell \/ (t = Root /\ session),
           pc' = "loop" => pc = "loop",
           pc' = "loop" /\ t \notin dethreaded =>
             /\ threads'[t] = "none" <=>
                  report'[t].kind \in {"entry", "stop"} \/ call'[t] \in {"none", "new"}
             /\ report'[t].kind \in {"entry", "exit"} => call'[t] \notin {"none", "new"}
             /\ report'[t].kind = "stop" => call'[t] = "none",
           call'[t] = "marker" \/ threads'[t] = "marker" =>
             /\ t = Root /\ session
             /\ shell'.next = "arm" => shell'.id < MaxCommand
    PROVE  KernelInv'
<1> USE DEF Born
<1>1. FamilyInv'
  BY DEF KernelInv, FamilyInv, Exists
<1>2. ChildInv'
  <2> SUFFICES ASSUME NEW u \in Pid, report'[u].kind = "created",
                      NEW child, child = report'[u].child
               PROVE  /\ child \in Pid \ {Root, u, group'[u]}
                      /\ life'[child] # "unborn"
                      /\ group'[child] \in {child, group'[u]}
                      /\ launch'[child] = IF group'[u] = Root THEN ShellCommand'
                                          ELSE launch'[group'[u]]
    BY DEF ChildInv
  <2>1. u # t /\ report'[u] = report[u]
    OBVIOUS
  <2>2. group[u] = Root => ShellCommand' = ShellCommand
    <3>1. CASE shell' = shell
      BY <3>1 DEF ShellCommand
    <3>2. CASE t = Root /\ session
      BY <2>1, <3>2 DEF KernelInv, FamilyInv
    <3> QED BY <3>1, <3>2
  <2> QED BY <2>1, <2>2 DEF KernelInv, ChildInv
<1>3. LaunchInv'
  BY DEF KernelInv, LaunchInv
<1>4. PhaseInv'
  BY DEF KernelInv, PhaseInv
<1>5. MarkerInv'
  BY DEF KernelInv, MarkerInv
<1> QED BY <1>1, <1>2, <1>3, <1>4, <1>5 DEF KernelInv

(* Threads die. *)
LEMMA DieKernel ==
    ASSUME CTypeOK, KernelInv, NEW dying, Die(dying),
           UNCHANGED <<call, group, launch, dethreaded, session, threads, shell>>,
           pc' = "loop" => pc = "loop"
    PROVE  KernelInv'
<1> USE DEF Born
<1>1. \A t \in Pid : /\ life'[t] = IF t \in dying /\ life[t] = "live" THEN "zombie" ELSE life[t]
                     /\ report'[t] = IF t \in dying /\ life[t] = "live" THEN Says("exited")
                                     ELSE report[t]
                     /\ group[t] \in Pid
  BY DEF Die, CTypeOK
<1>2. \A kind : Says(kind).kind = kind
  BY ReportTypes
<1>3. \A t \in Pid : Exists(t)' <=> Exists(t)
  BY <1>1 DEF Exists, CTypeOK
<1>4. FamilyInv'
  BY <1>1, <1>2, <1>3, PidAssumption DEF KernelInv, FamilyInv
<1>5. ChildInv'
  BY <1>1, <1>2 DEF KernelInv, ChildInv, ShellCommand
<1>6. LaunchInv'
  BY <1>1 DEF KernelInv, LaunchInv
<1>7. PhaseInv'
  BY <1>1 DEF KernelInv, PhaseInv
<1>8. MarkerInv'
  BY DEF KernelInv, MarkerInv
<1> QED BY <1>4, <1>5, <1>6, <1>7, <1>8 DEF KernelInv

(* A dead thread is waited for, a leader last. *)
LEMMA ReapKernel ==
    ASSUME CTypeOK, KernelInv, NEW t \in Pid, Reapable(t), Reap(t),
           UNCHANGED <<session, shell>>, pc' = "loop" => pc = "loop",
           \A u \in Pid \ {t} : threads'[u] = threads[u],
           threads'[t] \in {threads[t], "none"}
    PROVE  KernelInv'
<1> USE DEF Born
<1>1. /\ \A u \in Pid : life'[u] = IF u = t THEN "gone" ELSE life[u]
      /\ \A u \in Pid : report'[u] = IF u = t THEN NoReport ELSE report[u]
      /\ UNCHANGED <<call, group, launch, dethreaded>>
      /\ \A u \in Pid : group[u] \in Pid
  BY DEF Reap, CTypeOK
<1>2. NoReport.kind = "none" /\ report[t].kind = "exited" /\ life[t] # "unborn"
  BY ReportTypes DEF Reapable, KernelInv, FamilyInv
<1>3. \A u \in Pid : Exists(u)' => Exists(u)
  BY <1>1 DEF Exists
<1>4. \A u \in Pid : Exists(u)' => Exists(group[u])'
  <2> SUFFICES ASSUME NEW u \in Pid, Exists(u)' PROVE Exists(group[u])'
    OBVIOUS
  <2>1. u # t /\ Exists(u) /\ Exists(group[u])
    BY <1>1, <1>3 DEF Exists, KernelInv, FamilyInv
  <2>2. group[u] # t
    <3> SUFFICES ASSUME group[u] = t PROVE FALSE
      OBVIOUS
    <3>1. group[t] = t
      BY DEF KernelInv, FamilyInv
    <3>2. u \in Members(t)
      BY <2>1 DEF Members
    <3> QED BY <2>1, <3>1, <3>2 DEF Reapable
  <2> QED BY <1>1, <2>1, <2>2 DEF Exists
<1>5. FamilyInv'
  BY <1>1, <1>2, <1>4, PidAssumption DEF KernelInv, FamilyInv
<1>6. ChildInv'
  BY <1>1, <1>2 DEF KernelInv, ChildInv, ShellCommand
<1>7. LaunchInv'
  BY <1>1, <1>2 DEF KernelInv, LaunchInv
<1>8. PhaseInv'
  BY <1>1 DEF KernelInv, PhaseInv
<1>9. MarkerInv'
  BY <1>1 DEF KernelInv, MarkerInv
<1> QED BY <1>5, <1>6, <1>7, <1>8, <1>9 DEF KernelInv

(* A child is created: it is launched by the command its creator works for. *)
LEMMA CreateKernel ==
    ASSUME CTypeOK, KernelInv, NEW t \in Pid, NEW child \in Pid, Create(t, child),
           UNCHANGED <<session, threads, shell>>, pc' = "loop" => pc = "loop"
    PROVE  KernelInv'
<1> USE DEF Born
<1>1. /\ life[t] = "live" /\ report[t].kind = "none" /\ t # child
      /\ life[child] = "unborn" /\ call[t] \in {"fork", "thread"}
      /\ UNCHANGED dethreaded
      /\ \A u \in Pid : life'[u] = IF u = child THEN "live" ELSE life[u]
      /\ \A u \in Pid : call'[u] = IF u = child THEN "new" ELSE IF u = t THEN "plain" ELSE call[u]
      /\ \A u \in Pid : group'[u] = IF u # child THEN group[u]
                                    ELSE IF call[t] = "thread" THEN group[t] ELSE child
      /\ \A u \in Pid : launch'[u] = IF u # child THEN launch[u]
                                     ELSE IF group[t] = Root THEN ShellCommand
                                     ELSE launch[group[t]]
      /\ report'[t].kind = "created" /\ report'[t].child = child
      /\ \A u \in Pid \ {t} : report'[u] = report[u]
      /\ \A u \in Pid : group[u] \in Pid
  BY ReportTypes DEF Create, Running, CTypeOK
<1>2. /\ child # Root /\ child # group[t] /\ life[group[t]] # "unborn"
      /\ report[child].kind = "none" /\ threads[child] = "none"
      /\ \A u \in Pid : life[u] # "unborn" => group[u] # child
      /\ \A u \in Pid \ {child} : group[u] # child
  BY <1>1, PidAssumption DEF KernelInv, FamilyInv
<1>3. session /\ group[t] = Root => call[t] # "thread"
  BY DEF KernelInv, FamilyInv
<1>4. Exists(t) /\ Exists(group[t])
  BY <1>1 DEF Exists, KernelInv, FamilyInv
<1>5. \A u \in Pid \ {child} : Exists(u)' <=> Exists(u)
  BY <1>1 DEF Exists
<1>6. FamilyInv'
  <2>1. group'[Root] = Root /\ life'[Root] # "unborn" /\ (session' => Root \notin dethreaded')
    BY <1>1, <1>2, PidAssumption DEF KernelInv, FamilyInv
  <2>2. \A u \in Pid : /\ group'[group'[u]] = group'[u]
                       /\ life'[u] # "unborn" => life'[group'[u]] # "unborn"
    BY <1>1, <1>2 DEF KernelInv, FamilyInv
  <2>3. \A u \in Pid : life'[u] = "unborn" =>
          group'[u] = u /\ report'[u].kind = "none" /\ threads'[u] = "none"
    BY <1>1, <1>2 DEF KernelInv, FamilyInv
  <2>4. \A u \in Pid : Exists(u)' => life'[group'[u]] \in {"live", "zombie"}
    <3> SUFFICES ASSUME NEW u \in Pid, Exists(u)' PROVE life'[group'[u]] \in {"live", "zombie"}
      OBVIOUS
    <3>1. CASE u = child
      BY <1>1, <1>2, <1>4, <3>1 DEF Exists
    <3>2. CASE u # child
      <4>1. Exists(u) /\ Exists(group[u]) /\ group'[u] = group[u] /\ group[u] # child
        BY <1>1, <1>2, <1>5, <3>2 DEF KernelInv, FamilyInv
      <4> QED BY <1>1, <4>1 DEF Exists
    <3> QED BY <3>1, <3>2
  <2>5. \A u \in Pid : /\ report'[u].kind \notin {"none", "exited"} => life'[u] = "live"
                       /\ report'[u].kind = "exec" => group'[u] = u
                       /\ call'[u] = "new" => report'[u].kind \in {"none", "exited"}
    BY <1>1, <1>2 DEF KernelInv, FamilyInv
  <2>6. \A u \in Pid : session' /\ group'[u] = Root => u = Root /\ call'[u] # "thread"
    BY <1>1, <1>2, <1>3, PidAssumption DEF KernelInv, FamilyInv
  <2> QED BY <2>1, <2>2, <2>3, <2>4, <2>5, <2>6 DEF FamilyInv, Exists
<1>7. ChildInv'
  <2> SUFFICES ASSUME NEW u \in Pid, report'[u].kind = "created",
                      NEW c, c = report'[u].child
               PROVE  /\ c \in Pid \ {Root, u, group'[u]}
                      /\ life'[c] # "unborn"
                      /\ group'[c] \in {c, group'[u]}
                      /\ launch'[c] = IF group'[u] = Root THEN ShellCommand
                                      ELSE launch'[group'[u]]
    BY DEF ChildInv, ShellCommand
  <2>1. CASE u = t
    BY <1>1, <1>2, <2>1
  <2>2. CASE u # t
    <3>1. /\ report'[u] = report[u] /\ u # child
          /\ c \in Pid \ {Root, u, group[u]} /\ life[c] # "unborn"
          /\ group[c] \in {c, group[u]}
          /\ launch[c] = IF group[u] = Root THEN ShellCommand ELSE launch[group[u]]
      BY <1>1, <1>2, <2>2 DEF KernelInv, ChildInv
    <3> QED BY <1>1, <1>2, <3>1
  <2> QED BY <2>1, <2>2
<1>8. LaunchInv'
  <2> SUFFICES ASSUME NEW u \in Pid \ {Root}, life'[u] # "unborn"
               PROVE  launch'[u] = IF group'[u] = Root THEN 1 ELSE launch'[group'[u]]
    BY DEF LaunchInv
  <2>1. CASE u # child
    BY <1>1, <1>2, <2>1 DEF KernelInv, LaunchInv
  <2>2. CASE u = child /\ call[t] = "thread" /\ group[t] = Root
    BY <1>1, <1>3, <2>2 DEF ShellCommand
  <2>3. CASE u = child /\ call[t] = "thread" /\ group[t] # Root
    BY <1>1, <1>2, <2>3
  <2>4. CASE u = child /\ call[t] # "thread"
    BY <1>1, <1>2, <2>4
  <2> QED BY <2>1, <2>2, <2>3, <2>4
<1>9. PhaseInv'
  BY <1>1, <1>2 DEF KernelInv, PhaseInv
<1>10. MarkerInv'
  BY <1>1 DEF KernelInv, MarkerInv
<1> QED BY <1>6, <1>7, <1>8, <1>9, <1>10 DEF KernelInv

(* An exec: its report is that of the leader, whoever made the call. *)
LEMMA ExecKernel ==
    ASSUME CTypeOK, KernelInv, NEW t \in Pid, Exec(t),
           UNCHANGED <<session, threads, shell>>, pc' = "loop" => pc = "loop"
    PROVE  KernelInv'
<1> USE DEF Born
<1> DEFINE leader == group[t]
<1>1. /\ leader \in Pid /\ life[t] = "live" /\ report[t].kind = "none"
      /\ call[t] = "exec" /\ life[leader] = "live"
      /\ UNCHANGED <<group, launch>>
      /\ \A u \in Pid : life'[u] = IF u # t \/ t = leader THEN life[u] ELSE "gone"
      /\ \A u \in Pid : call'[u] = IF u = leader THEN "plain" ELSE call[u]
      /\ report'[leader].kind = "exec"
      /\ \A u \in Pid \ {leader} : report'[u] = report[u]
      /\ dethreaded' = IF t = leader THEN dethreaded ELSE dethreaded \cup {leader}
      /\ \A u \in Pid : group[u] \in Pid
  BY ReportTypes DEF Exec, Running, CTypeOK
<1>2. group[leader] = leader /\ (t # leader => \A u \in Pid : group[u] # t)
  BY <1>1 DEF KernelInv, FamilyInv
<1>3. session /\ leader = Root => t = Root
  BY <1>1 DEF KernelInv, FamilyInv
<1>4. \A u \in Pid : Exists(u)' => Exists(group[u])'
  BY <1>1, <1>2 DEF Exists, KernelInv, FamilyInv
<1>5. FamilyInv'
  <2>1. \A u \in Pid : /\ life'[u] # "unborn" <=> life[u] # "unborn"
                       /\ call'[u] = "new" => call[u] = "new" /\ u # leader
                       /\ call'[u] = "thread" => call[u] = "thread"
    BY <1>1
  <2>2. session' => Root \notin dethreaded'
    BY <1>1, <1>3 DEF KernelInv, FamilyInv
  <2>3. \A u \in Pid :
          /\ report'[u].kind \notin {"none", "exited"} => life'[u] = "live"
          /\ report'[u].kind = "exec" => group'[u] = u
          /\ call'[u] = "new" => report'[u].kind \in {"none", "exited"}
    BY <1>1, <1>2, <2>1 DEF KernelInv, FamilyInv
  <2>4. \A u \in Pid : life'[u] = "unborn" =>
          group'[u] = u /\ report'[u].kind = "none" /\ threads'[u] = "none"
    BY <1>1, <2>1 DEF KernelInv, FamilyInv
  <2> QED BY <1>1, <1>4, <2>1, <2>2, <2>3, <2>4, PidAssumption DEF KernelInv, FamilyInv
<1>6. ChildInv'
  <2> SUFFICES ASSUME NEW u \in Pid, report'[u].kind = "created",
                      NEW c, c = report'[u].child
               PROVE  /\ c \in Pid \ {Root, u, group[u]}
                      /\ life'[c] # "unborn"
                      /\ group[c] \in {c, group[u]}
                      /\ launch[c] = IF group[u] = Root THEN ShellCommand
                                     ELSE launch[group[u]]
    BY <1>1 DEF ChildInv, ShellCommand
  <2>1. report'[u] = report[u]
    BY <1>1
  <2> QED BY <1>1, <2>1 DEF KernelInv, ChildInv
<1>7. LaunchInv'
  BY <1>1 DEF KernelInv, LaunchInv
<1>8. PhaseInv'
  BY <1>1 DEF KernelInv, PhaseInv
<1>9. MarkerInv'
  BY <1>1 DEF KernelInv, MarkerInv
<1> QED BY <1>5, <1>6, <1>7, <1>8, <1>9 DEF KernelInv

(* The kernel's half of the invariant is kept by the kernel and the programs. *)
LEMMA KernelSteps ==
    ASSUME CTypeOK, KernelInv, Kernel
    PROVE  KernelInv'
<1> USE DEF loop, vars
<1>1. /\ UNCHANGED <<session, shell, threads, pc>>
      /\ pc' = "loop" => pc = "loop"
  BY DEF Kernel
<1>2. ASSUME NEW t \in Pid, NEW c \in {"plain", "marker", "fork", "thread", "exec"},
             Enter(t, c)
      PROVE  KernelInv'
  <2>1. /\ life[t] = "live" /\ report[t].kind = "none" /\ call[t] = "none"
        /\ report'[t].kind = "entry" /\ call'[t] = c
        /\ \A u \in Pid \ {t} : report'[u] = report[u] /\ call'[u] = call[u]
        /\ UNCHANGED <<life, group, launch, dethreaded>>
        /\ c = "marker" => t = Root /\ session /\ (shell.next = "arm" => shell.id < MaxCommand)
        /\ c = "thread" => (group[t] = Root => ~session)
    BY <1>2, ReportTypes DEF Enter, Running, CTypeOK
  <2>2. pc = "loop" /\ t \notin dethreaded => threads[t] = "none"
    BY <2>1 DEF KernelInv, PhaseInv
  <2>3. threads[t] # "marker" \/ (t = Root /\ session /\ (shell.next = "arm" => shell.id < MaxCommand))
    BY DEF KernelInv, MarkerInv
  <2> QED BY <1>1, <2>1, <2>2, <2>3, OneThread
<1>3. ASSUME NEW t \in Pid, Complete(t) \/ FirstStop(t) \/ SignalStop(t)
      PROVE  KernelInv'
  <2>1. /\ life[t] = "live" /\ report[t].kind = "none"
        /\ \A u \in Pid \ {t} : report'[u] = report[u] /\ call'[u] = call[u]
        /\ UNCHANGED <<life, group, launch, dethreaded>>
        /\ \/ /\ report'[t].kind = "exit" /\ call'[t] = call[t]
              /\ call[t] \in {"plain", "marker"}
           \/ /\ report'[t].kind = "stop" /\ call'[t] = "none"
              /\ call[t] \in {"new", "none"}
    BY <1>3, ReportTypes DEF Complete, FirstStop, SignalStop, Running, CTypeOK
  <2>2. pc = "loop" /\ t \notin dethreaded => (threads[t] = "none" <=> call[t] \in {"none", "new"})
    BY <2>1 DEF KernelInv, PhaseInv
  <2>3. call[t] = "marker" \/ threads[t] = "marker" =>
          t = Root /\ session /\ (shell.next = "arm" => shell.id < MaxCommand)
    BY DEF KernelInv, MarkerInv
  <2> QED BY <1>1, <2>1, <2>2, <2>3, OneThread
<1>4. ASSUME NEW t \in Pid, KillSiblings(t) \/ ExitThread(t) \/ ExitGroup(t) \/ Kill(t)
      PROVE  KernelInv'
  BY <1>1, <1>4, DieKernel DEF KillSiblings, ExitThread, ExitGroup, Kill
<1> QED
  BY <1>1, <1>2, <1>3, <1>4, CreateKernel, ExecKernel DEF Kernel

(* A step that changes none of this, or only leaves the loop. *)
LEMMA SameKernel ==
    ASSUME KernelInv, UNCHANGED <<kernel, session, threads, shell>>, pc' = "loop" => pc = "loop"
    PROVE  KernelInv'
BY DEF kernel, KernelInv, FamilyInv, ChildInv, LaunchInv, PhaseInv, MarkerInv, Born,
       Exists, ShellCommand

(* The handlers leave the mode of the recording alone. *)
LEMMA SameSession ==
    ASSUME [CNext]_cvars PROVE session' = session
<1>1. ASSUME NEW t, NEW ts, on_process_exit(t, ts) PROVE session' = session
  BY <1>1 DEF on_process_exit
<1>2. ASSUME NEW t, NEW c, NEW is_thread, NEW ts, on_process_created(t, c, is_thread, ts)
      PROVE  session' = session
  BY <1>2 DEF on_process_created
<1>3. ASSUME NEW t, NEW exe, NEW cwd, NEW ts, on_process_exec(t, exe, cwd, ts)
      PROVE  session' = session
  BY <1>3 DEF on_process_exec
<1>4. ASSUME NEW t, NEW id, NEW type, NEW ts,
             \/ on_arm_marker(t, id, ts) \/ on_start_marker(t, id, ts)
             \/ on_end_marker(t, id, ts) \/ on_bad_marker(t, type, id, ts)
      PROVE  session' = session
  BY <1>4 DEF on_arm_marker, on_start_marker, on_end_marker, on_bad_marker
<1>5. ASSUME NEW t, NEW r, NEW ts,
             \/ on_dropped_syscall(t, ts) \/ on_other_syscall(t, ts)
             \/ on_open(t, TRUE, AT_FDCWD, r, FALSE, AT_FDCWD, ts)
      PROVE  session' = session
  BY <1>5 DEF on_dropped_syscall, on_other_syscall, on_open, OnlyProcesses
<1>6. ASSUME UNCHANGED vars PROVE session' = session
  BY <1>6 DEF vars
<1>7. CASE Kernel \/ Interrupt \/ UNCHANGED cvars
  BY <1>6, <1>7 DEF Kernel, Interrupt, cvars
<1>8. ASSUME NEW t, NEW ts, HandleExited(t, ts) \/ HandleCreated(t, ts) \/ HandleExec(t, ts)
      PROVE  session' = session
  BY <1>1, <1>2, <1>3, <1>8 DEF HandleExited, HandleCreated, HandleExec
<1>9. ASSUME NEW t, NEW ts, HandleExit(t, ts) \/ HandleMarker(ts) \/ HandleBadMarker(ts)
      PROVE  session' = session
  BY <1>4, <1>5, <1>9 DEF HandleExit, HandleMarker, HandleBadMarker
<1>10. ASSUME NEW t, \/ HandleEntry(t) \/ HandleSignal(t) \/ HandleKilled(t) \/ GuardWait(t)
                     \/ HandleUndecodable \/ Finish \/ GuardKill \/ GuardEnd
       PROVE  session' = session
  BY <1>6, <1>10 DEF HandleEntry, HandleSignal, HandleKilled, GuardWait, HandleUndecodable,
                     Finish, GuardKill, GuardEnd
<1> QED
  BY <1>7, <1>8, <1>9, <1>10 DEF CNext, Collector

(* What the loop does to a thread it resumes. *)
LEMMA ResumeEffect ==
    ASSUME CTypeOK, NEW t \in Pid, resume_syscall(t)
    PROVE  /\ UNCHANGED <<life, group, launch, orphans, dethreaded>>
           /\ report'[t].kind = "none"
           /\ call'[t] = IF report[t].kind = "exit" THEN "none" ELSE call[t]
           /\ \A u \in Pid \ {t} : report'[u] = report[u] /\ call'[u] = call[u]
BY ReportTypes DEF resume_syscall, CTypeOK

(* The kernel's half of the invariant is kept by the loop. *)
LEMMA KernelCollector ==
    ASSUME CTypeOK, KernelInv, Collector
    PROVE  KernelInv'
<1>1. session' = session
  BY SameSession DEF CNext
<1>2. ASSUME NEW t \in Pid, NEW kinds, Stopped(t, kinds),
             kinds \subseteq {"stop", "entry", "exit", "exec", "created"}
      PROVE  /\ pc = "loop" /\ report[t].kind \in kinds /\ life[t] = "live"
             /\ call[t] = "new" => FALSE
             /\ session /\ group[t] = Root => t = Root /\ call[t] # "thread"
             /\ t \notin dethreaded =>
                  /\ threads[t] = "none" <=>
                       report[t].kind \in {"entry", "stop"} \/ call[t] \in {"none", "new"}
                  /\ report[t].kind \in {"entry", "exit"} => call[t] \notin {"none", "new"}
                  /\ report[t].kind = "stop" => call[t] = "none"
             /\ call[t] = "marker" \/ threads[t] = "marker" =>
                  t = Root /\ session /\ (shell.next = "arm" => shell.id < MaxCommand)
  <2>1. pc = "loop" /\ report[t].kind \in kinds
    BY <1>2 DEF Stopped, Waited
  <2>2. life[t] = "live" /\ call[t] # "new"
    BY <1>2, <2>1 DEF KernelInv, FamilyInv
  <2> QED BY <2>1, <2>2 DEF KernelInv, FamilyInv, PhaseInv, MarkerInv
<1>3. ASSUME NEW t \in Pid, NEW ts, HandleExited(t, ts) PROVE KernelInv'
  <2>1. /\ Reapable(t) /\ Reap(t) /\ UNCHANGED <<shell, pc>>
        /\ threads' = [threads EXCEPT ![t] = "none"]
    BY <1>3 DEF HandleExited, Waited
  <2>2. /\ \A u \in Pid \ {t} : threads'[u] = threads[u]
        /\ threads'[t] \in {threads[t], "none"}
    BY <2>1 DEF CTypeOK
  <2> QED BY <1>1, <2>1, <2>2, ReapKernel
<1>4. ASSUME NEW t \in Pid, HandleEntry(t) PROVE KernelInv'
  <2>1. /\ Stopped(t, {"entry", "exit"}) /\ threads[t] = "none" /\ resume_syscall(t)
        /\ threads'[t] = call[t] /\ \A u \in Pid \ {t} : threads'[u] = threads[u]
        /\ UNCHANGED <<pc, shell>>
    BY <1>4 DEF HandleEntry, CTypeOK
  <2> QED BY <1>1, <1>2, <2>1, ResumeEffect, OneThread
<1>5. ASSUME NEW t \in Pid, NEW ts, HandleExit(t, ts) PROVE KernelInv'
  <2>1. /\ Stopped(t, {"entry", "exit"}) /\ threads[t] # "none" /\ resume_syscall(t)
        /\ threads'[t] = "none" /\ \A u \in Pid \ {t} : threads'[u] = threads[u]
        /\ UNCHANGED <<pc, shell>>
    BY <1>5 DEF HandleExit, ToExit, CTypeOK
  <2> QED BY <1>1, <1>2, <2>1, ResumeEffect, OneThread
<1>6. ASSUME NEW ts, HandleMarker(ts) PROVE KernelInv'
  <2>1. /\ Stopped(Root, {"entry", "exit"}) /\ threads[Root] = "marker"
        /\ resume_syscall(Root)
        /\ threads'[Root] = "none" /\ \A u \in Pid \ {Root} : threads'[u] = threads[u]
        /\ UNCHANGED pc
    BY <1>6, PidAssumption DEF HandleMarker, ToExit, IsMarker, CTypeOK
  <2>2. session /\ Root \notin dethreaded
    BY <1>2, <2>1, PidAssumption DEF KernelInv, FamilyInv
  <2>3. call'[Root] = "none"
    BY <1>2, <2>1, <2>2, ResumeEffect, PidAssumption
  <2> QED BY <1>1, <1>2, <2>1, <2>2, <2>3, ResumeEffect, OneThread, PidAssumption
<1>7. ASSUME NEW ts, HandleBadMarker(ts) \/ HandleUndecodable PROVE KernelInv'
  <2>1. /\ Stopped(Root, {"entry", "exit"}) /\ UNCHANGED <<kernel, shell>>
        /\ threads'[Root] = "none" /\ \A u \in Pid \ {Root} : threads'[u] = threads[u]
        /\ pc' = "killing"
    BY <1>7, PidAssumption DEF HandleBadMarker, HandleUndecodable, ToExit, CTypeOK
  <2>2. /\ UNCHANGED <<life, group, launch, dethreaded>>
        /\ \A u \in Pid : report'[u] = report[u] /\ call'[u] = call[u]
    BY <2>1 DEF kernel
  <2> QED BY <1>1, <1>2, <2>1, <2>2, OneThread, PidAssumption
<1>8. ASSUME NEW t \in Pid, NEW ts,
             HandleCreated(t, ts) \/ HandleExec(t, ts) \/ HandleSignal(t)
      PROVE  KernelInv'
  <2>1. /\ Stopped(t, {"created", "exec", "stop"})
        /\ resume_syscall(t) /\ UNCHANGED <<pc, shell, threads>>
    BY <1>8 DEF HandleCreated, HandleExec, HandleSignal, Stopped
  <2> QED BY <1>1, <1>2, <2>1, ResumeEffect, OneThread
<1>9. ASSUME NEW t \in Pid, HandleKilled(t) PROVE KernelInv'
  BY <1>1, <1>9, DieKernel DEF HandleKilled, Stopped, Waited
<1>10. ASSUME NEW t \in Pid, GuardWait(t) PROVE KernelInv'
  <2>1. UNCHANGED <<shell, threads, pc>>
    BY <1>10 DEF GuardWait
  <2>2. CASE Reapable(t) /\ Reap(t)
    BY <1>1, <2>1, <2>2, ReapKernel
  <2>3. CASE Die(Members(group[t])) /\ UNCHANGED <<call, group, launch, dethreaded>>
    BY <1>1, <2>1, <2>3, DieKernel
  <2> QED BY <1>10, <2>2, <2>3 DEF GuardWait
<1>11. CASE GuardKill
  BY <1>1, <1>11, DieKernel DEF GuardKill
<1>12. CASE Finish \/ GuardEnd
  BY <1>1, <1>12, SameKernel DEF Finish, GuardEnd
<1> QED
  BY <1>3, <1>4, <1>5, <1>6, <1>7, <1>8, <1>9, <1>10, <1>11, <1>12 DEF Collector

(* Ctrl-C moves the shell, which announces no child at that time. *)
LEMMA KernelInterrupt ==
    ASSUME CTypeOK, KernelInv, Interrupt
    PROVE  KernelInv'
<1>1. /\ life[Root] = "live" /\ report[Root].kind = "none" /\ session
      /\ shell'.next = "end"
      /\ UNCHANGED <<session, life, report, call, group, launch, dethreaded, threads, pc>>
  BY DEF Interrupt, Running, vars, kernel, loop, CTypeOK
<1>2. FamilyInv'
  BY <1>1 DEF KernelInv, FamilyInv, Born, Exists
<1>3. ChildInv'
  <2> SUFFICES ASSUME NEW t \in Pid, report[t].kind = "created" PROVE group[t] # Root
    BY <1>1 DEF KernelInv, ChildInv, Born
  <2> QED BY <1>1 DEF KernelInv, FamilyInv
<1>4. LaunchInv' /\ PhaseInv' /\ MarkerInv'
  BY <1>1 DEF KernelInv, LaunchInv, PhaseInv, MarkerInv, Born
<1> QED BY <1>2, <1>3, <1>4 DEF KernelInv

-----------------------------------------------------------------------------
(* Every call of the loop is one that ExecutionState is specified for. *)

(* What the loop knows when it decodes a marker: the shell of a session wrote it,
   and its id is in range. *)
LEMMA AtMarker ==
    ASSUME CTypeOK, KernelInv, StateInv, ToExit(Root), IsMarker(Root)
    PROVE  /\ session /\ life[Root] = "live" /\ Root \notin dethreaded
           /\ shell.id \in Nat /\ MaxCommand \in Nat
           /\ shell.next = "arm" => shell.id + 1 \in CommandId /\ Unused(shell.id + 1)
           /\ shell.next # "arm" => shell.id \in CommandId
<1>1. threads[Root] = "marker" /\ Root \in Pid /\ report[Root].kind \in {"entry", "exit"}
  BY PidAssumption DEF IsMarker, ToExit, Stopped, Waited
<1>2. session /\ (shell.next = "arm" => shell.id < MaxCommand)
  BY <1>1 DEF KernelInv, MarkerInv
<1>3. life[Root] = "live" /\ Root \notin dethreaded
  BY <1>1, <1>2 DEF KernelInv, FamilyInv
<1>4. shell.id \in 0 .. MaxCommand /\ (shell.next # "arm" => shell.id > 0)
  BY DEF StateInv, ShellInv
<1>5. shell.next = "arm" => Unused(shell.id + 1)
  BY <1>2, <1>4, BoundAssumption DEF StateInv, FreshInv, CommandId
<1> QED
  BY <1>2, <1>3, <1>4, <1>5, BoundAssumption DEF CommandId

(* One step of the loop is one step of Spec, or none. *)
LEMMA StepIsSpecified ==
    ASSUME CTypeOK, KernelInv, StateInv, [CNext]_cvars
    PROVE  [Next]_vars
<1>1. ASSUME NEW t \in Pid, NEW ts \in Time, HandleExited(t, ts) PROVE Next
  BY <1>1 DEF HandleExited, Next
<1>2. ASSUME NEW t \in Pid, NEW ts \in Time, HandleExit(t, ts) PROVE Next
  <2>1. on_syscall_exit(t, ts)
    BY <1>2 DEF HandleExit, on_syscall_exit
  <2> QED BY <2>1 DEF Next
<1>3. ASSUME NEW ts \in Time, HandleMarker(ts) PROVE Next
  <2>1. CASE shell.next = "arm" /\ on_arm_marker(Root, shell.id + 1, ts)
    BY <1>3, <2>1, AtMarker, PidAssumption DEF HandleMarker, Next, on_command_marker
  <2>2. CASE on_other_syscall(Root, ts)
    BY <2>2, PidAssumption DEF Next, on_syscall_exit
  <2>3. CASE shell.next # "arm" /\ (on_start_marker(Root, shell.id, ts) \/ on_end_marker(Root, shell.id, ts))
    BY <1>3, <2>3, AtMarker, PidAssumption DEF HandleMarker, Next, on_command_marker
  <2> QED BY <1>3, <2>1, <2>2, <2>3 DEF HandleMarker
<1>4. ASSUME NEW ts \in Time, HandleBadMarker(ts) PROVE Next
  <2> DEFINE id == IF shell.next = "arm" THEN shell.id + 1 ELSE shell.id
  <2>1. id \in CommandId /\ session
    BY <1>4, AtMarker DEF HandleBadMarker
  <2>2. on_bad_marker(Root, shell.next, id, ts) /\ shell.next \in {"arm", "start", "end"}
    BY <1>4 DEF HandleBadMarker, on_bad_marker
  <2> HIDE DEF id
  <2>3. on_command_marker(Root, ts)
    BY <2>1, <2>2 DEF on_command_marker
  <2> QED BY <2>3, PidAssumption DEF Next
<1>5. ASSUME NEW t \in Pid, NEW ts \in Time, HandleCreated(t, ts) PROVE Next
  <2>1. report[t].kind = "created"
    BY <1>5 DEF HandleCreated, Stopped
  <2>2. report[t].child \in Pid \ {Root}
    BY <2>1 DEF KernelInv, ChildInv
  <2>3. \E is_thread \in BOOLEAN : on_process_created(t, report[t].child, is_thread, ts)
    BY <1>5 DEF HandleCreated, TakenForThread
  <2> QED BY <2>2, <2>3 DEF Next
<1>6. ASSUME NEW t \in Pid, NEW ts \in Time, HandleExec(t, ts) PROVE Next
  <2>1. StartDir \in Name
    BY NameAssumption DEF Name
  <2> QED BY <1>6, <2>1 DEF HandleExec, Next
<1>7. CASE \/ Kernel \/ Interrupt \/ UNCHANGED cvars \/ Finish \/ GuardKill \/ GuardEnd
  BY <1>7 DEF Kernel, Interrupt, cvars, Finish, GuardKill, GuardEnd
<1>8. ASSUME NEW t \in Pid,
             HandleEntry(t) \/ HandleSignal(t) \/ HandleKilled(t) \/ GuardWait(t) \/ HandleUndecodable
      PROVE  UNCHANGED vars
  BY <1>8 DEF HandleEntry, HandleSignal, HandleKilled, GuardWait, HandleUndecodable
<1> QED
  BY <1>1, <1>2, <1>3, <1>4, <1>5, <1>6, <1>7, <1>8 DEF CNext, Collector

-----------------------------------------------------------------------------
(* Steps of the half that is about ExecutionState. *)

(* The commands and ids of TypeOK are numbers. *)
LEMMA CommandNumbers ==
    ASSUME TypeOK
    PROVE  /\ \A p \in Pid : processes[p].command_id \in Nat
           /\ active_command.id \in Nat
           /\ CommandId \subseteq Nat \ {0} /\ NoCommand = 0
<1>1. CommandId \cup {NoCommand} \subseteq Nat /\ CommandId \subseteq Nat \ {0} /\ NoCommand = 0
  BY BoundAssumption DEF CommandId, NoCommand
<1>2. \A p \in Pid : processes[p].command_id \in CommandId \cup {NoCommand}
  BY DEF TypeOK, ProcessState
<1>3. active_command.id \in CommandId \cup {NoCommand}
  BY DEF TypeOK, ActiveCommand
<1> QED BY <1>1, <1>2, <1>3

(* The loop neither makes nor moves threads. *)
LEMMA CollectorKernel ==
    ASSUME CTypeOK, KernelInv, Collector
    PROVE  /\ UNCHANGED <<group, launch>>
           /\ \A t \in Pid : Born(t)' <=> Born(t)
<1> USE DEF Born
<1>1. ASSUME NEW t \in Pid, Reap(t), report[t].kind = "exited"
      PROVE  UNCHANGED <<group, launch>> /\ \A u \in Pid : Born(u)' <=> Born(u)
  <2>1. life[t] # "unborn"
    BY <1>1 DEF KernelInv, FamilyInv
  <2> QED BY <1>1, <2>1 DEF Reap, CTypeOK
<1>2. ASSUME NEW t \in Pid, resume_syscall(t)
      PROVE  UNCHANGED <<group, launch>> /\ \A u \in Pid : Born(u)' <=> Born(u)
  BY <1>2 DEF resume_syscall
<1>3. ASSUME NEW dying, Die(dying), UNCHANGED <<group, launch>>
      PROVE  UNCHANGED <<group, launch>> /\ \A u \in Pid : Born(u)' <=> Born(u)
  BY <1>3 DEF Die
<1>4. ASSUME UNCHANGED kernel
      PROVE  UNCHANGED <<group, launch>> /\ \A u \in Pid : Born(u)' <=> Born(u)
  BY <1>4 DEF kernel
<1>5. ASSUME NEW t \in Pid, NEW ts,
             \/ HandleEntry(t) \/ HandleExit(t, ts) \/ HandleMarker(ts)
             \/ HandleCreated(t, ts) \/ HandleExec(t, ts) \/ HandleSignal(t)
      PROVE  UNCHANGED <<group, launch>> /\ \A u \in Pid : Born(u)' <=> Born(u)
  BY <1>2, <1>5, PidAssumption
     DEF HandleEntry, HandleExit, HandleMarker, HandleCreated, HandleExec, HandleSignal
<1>6. ASSUME NEW t \in Pid, NEW ts, HandleExited(t, ts) \/ HandleKilled(t) \/ GuardWait(t)
      PROVE  UNCHANGED <<group, launch>> /\ \A u \in Pid : Born(u)' <=> Born(u)
  BY <1>1, <1>3, <1>6 DEF HandleExited, HandleKilled, GuardWait, Reapable
<1>7. ASSUME NEW ts, \/ HandleBadMarker(ts) \/ HandleUndecodable \/ Finish
                     \/ GuardKill \/ GuardEnd
      PROVE  UNCHANGED <<group, launch>> /\ \A u \in Pid : Born(u)' <=> Born(u)
  BY <1>3, <1>4, <1>7 DEF HandleBadMarker, HandleUndecodable, Finish, GuardKill, GuardEnd
<1> QED BY <1>5, <1>6, <1>7 DEF Collector

(* Without a marker no process gets a command that no process had. *)
LEMMA NoMarker ==
    ASSUME StateInv, TypeOK', UNCHANGED <<session, shell, startedAt>>,
           active_command'.id \in {active_command.id, NoCommand},
           \A p \in Pid : \/ processes'[p].command_id = NoCommand
                          \/ \E q \in Pid : processes'[p].command_id = processes[q].command_id,
           \A c \in CommandId : \/ earliest'[c] = earliest[c]
                                \/ \E q \in Pid : processes[q].command_id = c
    PROVE  ShellInv' /\ FreshInv'
<1>1. ShellInv'
  BY DEF StateInv, ShellInv, ShellCommand
<1>2. FreshInv'
  <2> SUFFICES ASSUME session
               PROVE  /\ \A p \in Pid : processes'[p].command_id <= shell.id
                      /\ \A c \in CommandId : c > shell.id => Unused(c)'
    BY DEF FreshInv
  <2>1. \A p \in Pid : processes[p].command_id <= shell.id /\ processes[p].command_id \in Nat
    BY CommandNumbers DEF StateInv, FreshInv
  <2>2. shell.id \in Nat
    BY DEF StateInv, ShellInv
  <2>3. \A p \in Pid : processes'[p].command_id <= shell.id
    BY <2>1, <2>2, CommandNumbers DEF StateInv
  <2>4. ASSUME NEW c \in CommandId, c > shell.id PROVE Unused(c)'
    <3>1. Unused(c)
      BY <2>4 DEF StateInv, FreshInv
    <3>2. c \in Nat
      BY CommandNumbers DEF StateInv
    <3>3. earliest'[c] = earliest[c]
      BY <2>1, <2>2, <2>4, <3>2
    <3> QED BY <3>1, <3>3 DEF Unused
  <2> QED BY <2>3, <2>4
<1> QED BY <1>1, <1>2

(* The thread a process is looked up by belongs to it. *)
LEMMA SameGroup ==
    ASSUME CTypeOK, StateInv, NEW t \in Pid
    PROVE  /\ process_for_thread(t) \in Pid
           /\ group[process_for_thread(t)] = group[t]
           /\ process_for_thread(Root) = Root
BY PidAssumption DEF StateInv, IndexInv, process_for_thread, TypeOK

(* The parts of StateInv that are not ExecutionState's own *)
LoopInv == ShellInv /\ FreshInv /\ IndexInv /\ RightCommandOrNone

(* System calls, and calls that have no effect. *)
LEMMA KeepsLoopInv ==
    ASSUME CTypeOK, StateInv, TypeOK', KeepsCommands, NEW ts, EarliestFromHolder(ts),
           UNCHANGED <<session, shell, group, launch>>, \A t \in Pid : Born(t)' <=> Born(t)
    PROVE  LoopInv'
<1>1. ShellInv' /\ FreshInv'
  <2>1. known \subseteq Pid
    BY DEF StateInv, TypeOK
  <2>2. \A c \in CommandId : \/ earliest'[c] = earliest[c]
                             \/ \E q \in Pid : processes[q].command_id = c
    BY <2>1 DEF EarliestFromHolder
  <2> QED BY <2>2, NoMarker DEF KeepsCommands
<1>2. IndexInv'
  BY DEF StateInv, IndexInv, KeepsCommands
<1>3. RightCommandOrNone'
  BY DEF StateInv, RightCommandOrNone, KeepsCommands, TypeOK
<1> QED BY <1>1, <1>2, <1>3 DEF LoopInv

LEMMA ExitLoopInv ==
    ASSUME CTypeOK, StateInv, TypeOK', NEW t \in Pid, NEW ts \in Time, on_process_exit(t, ts),
           UNCHANGED <<session, shell, group, launch>>, \A u \in Pid : Born(u)' <=> Born(u)
    PROVE  LoopInv'
<1>1. /\ UNCHANGED known /\ EarliestFromHolder(ts) /\ startedAt' = startedAt
      /\ thread_to_process' \in {thread_to_process, [thread_to_process EXCEPT ![t] = NoPid]}
      /\ \A p \in Pid \ {Root} : processes'[p].command_id = processes[p].command_id
      /\ processes'[Root].command_id \in {processes[Root].command_id, NoCommand}
      /\ active_command' \in {active_command, NoActiveCommand}
  BY ExitEffect, PidAssumption DEF StateInv
<1>2. active_command'.id \in {active_command.id, NoCommand}
  BY <1>1 DEF NoActiveCommand
<1>3. \A c \in CommandId : \/ earliest'[c] = earliest[c]
                           \/ \E q \in Pid : processes[q].command_id = c
  BY <1>1 DEF EarliestFromHolder, StateInv, TypeOK
<1>4. ShellInv' /\ FreshInv'
  BY <1>1, <1>2, <1>3, NoMarker
<1>5. IndexInv'
  <2>1. \A u \in Pid : thread_to_process'[u] \in {thread_to_process[u], NoPid}
    BY <1>1 DEF StateInv, TypeOK
  <2> QED BY <1>1, <2>1, PidAssumption DEF StateInv, IndexInv
<1>6. RightCommandOrNone'
  BY <1>1 DEF StateInv, RightCommandOrNone, TypeOK
<1> QED BY <1>4, <1>5, <1>6 DEF LoopInv

LEMMA ExecLoopInv ==
    ASSUME CTypeOK, StateInv, TypeOK', NEW t \in Pid, Born(t), NEW ts \in Time,
           NEW exe, NEW cwd, on_process_exec(t, exe, cwd, ts),
           UNCHANGED <<session, shell, group, launch>>, \A u \in Pid : Born(u)' <=> Born(u)
    PROVE  LoopInv'
<1>1. /\ UNCHANGED <<active_command, startedAt>> /\ EarliestFromHolder(ts)
      /\ \/ KeepsCommands
         \/ /\ known' = known \cup {t}
            /\ thread_to_process' = [thread_to_process EXCEPT ![t] = t]
            /\ processes'[t].command_id = NoCommand
            /\ \A p \in Pid \ {t} : processes'[p] = processes[p]
  BY ExecEffect DEF StateInv
<1>2. CASE KeepsCommands
  BY <1>1, <1>2, KeepsLoopInv
<1>3. CASE ~KeepsCommands
  <2>1. \A c \in CommandId : \/ earliest'[c] = earliest[c]
                             \/ \E q \in Pid : processes[q].command_id = c
    BY <1>1 DEF EarliestFromHolder, StateInv, TypeOK
  <2>2. ShellInv' /\ FreshInv'
    BY <1>1, <1>3, <2>1, NoMarker
  <2>3. \A u \in Pid : thread_to_process'[u] = IF u = t THEN t ELSE thread_to_process[u]
    BY <1>1, <1>3 DEF StateInv, TypeOK
  <2>4. IndexInv'
    BY <1>1, <1>3, <2>3, PidAssumption DEF StateInv, IndexInv
  <2>5. RightCommandOrNone'
    BY <1>1, <1>3 DEF StateInv, RightCommandOrNone, TypeOK
  <2> QED BY <2>2, <2>4, <2>5 DEF LoopInv
<1> QED BY <1>2, <1>3

(* The child of a process gets the command its creator works for: also when the
   creator is the shell, which has not moved on since. *)
LEMMA ChildCommand ==
    ASSUME CTypeOK, KernelInv, StateInv, NEW t \in Pid, report[t].kind = "created",
           NEW child, child = report[t].child, HasProcess(t)
    PROVE  ProcessOf(t).command_id \in {NoCommand, launch[child]}
<1> DEFINE q == process_for_thread(t)
<1>1. /\ q \in Pid /\ group[q] = group[t] /\ q \in known
      /\ q \in Pid /\ Born(q)
  BY SameGroup DEF HasProcess, StateInv, IndexInv
<1>2. launch[child] = IF group[t] = Root THEN ShellCommand ELSE launch[group[t]]
  BY DEF KernelInv, ChildInv
<1>3. CASE q = Root
  <2>1. group[t] = Root
    BY <1>1, <1>3 DEF KernelInv, FamilyInv
  <2>2. processes[Root].command_id = active_command.id
    BY DEF StateInv, CommandsInv, RootCommandSync
  <2> QED BY <1>2, <1>3, <2>1, <2>2 DEF StateInv, ShellInv, ProcessOf
<1>4. CASE q # Root /\ group[t] # Root
  BY <1>1, <1>2, <1>4 DEF KernelInv, LaunchInv, StateInv, RightCommandOrNone, ProcessOf
<1>5. CASE q # Root /\ group[t] = Root
  <2>1. launch[q] = 1 /\ ~session
    BY <1>1, <1>5 DEF KernelInv, LaunchInv, FamilyInv
  <2>2. launch[child] = 1
    BY <1>2, <1>5, <2>1 DEF ShellCommand
  <2> QED BY <1>1, <1>5, <2>1, <2>2 DEF StateInv, RightCommandOrNone, ProcessOf
<1> QED BY <1>3, <1>4, <1>5

LEMMA CreatedLoopInv ==
    ASSUME CTypeOK, KernelInv, StateInv, TypeOK', NEW t \in Pid, NEW ts \in Time,
           report[t].kind = "created", NEW child, child = report[t].child,
           NEW is_thread \in BOOLEAN, is_thread => group[child] # child,
           on_process_created(t, child, is_thread, ts),
           UNCHANGED <<session, shell, group, launch>>, \A u \in Pid : Born(u)' <=> Born(u)
    PROVE  LoopInv'
<1> DEFINE q == process_for_thread(t)
<1>1. /\ child \in Pid \ {Root} /\ Born(child) /\ group[child] \in {child, group[t]}
      /\ q \in Pid /\ group[q] = group[t]
  BY SameGroup DEF KernelInv, ChildInv
<1>2. UNCHANGED startedAt
  BY <1>1, CreatedEffect DEF StateInv
<1>3. CASE ~HasProcess(t)
  <2>1. UNCHANGED <<state, history>>
    BY <1>3 DEF on_process_created, EmitNothing
  <2>2. KeepsCommands /\ EarliestFromHolder(ts)
    BY <2>1 DEF KeepsCommands, EarliestFromHolder, state, history
  <2> QED BY <2>2, KeepsLoopInv
<1>4. CASE HasProcess(t) /\ is_thread
  <2>1. /\ thread_to_process' = [thread_to_process EXCEPT ![child] = q]
        /\ UNCHANGED <<known, processes, active_command, earliest>>
    BY <1>4 DEF on_process_created, EmitNothing, history
  <2>2. ShellInv' /\ FreshInv'
    BY <1>2, <2>1, NoMarker
  <2>3. \A u \in Pid : thread_to_process'[u] = IF u = child THEN q ELSE thread_to_process[u]
    BY <2>1 DEF StateInv, TypeOK
  <2>4. IndexInv'
    BY <1>1, <1>4, <2>1, <2>3 DEF StateInv, IndexInv
  <2>5. RightCommandOrNone'
    BY <2>1 DEF StateInv, RightCommandOrNone
  <2> QED BY <2>2, <2>4, <2>5 DEF LoopInv
<1>5. CASE HasProcess(t) /\ ~is_thread
  <2>1. /\ thread_to_process' = [thread_to_process EXCEPT ![child] = child]
        /\ known' = known \cup {child}
        /\ processes' = [processes EXCEPT ![child] =
                           [processes[q] EXCEPT !.parent_pid = q]]
        /\ active_command'.id = active_command.id
    BY <1>5 DEF on_process_created, StateInv, TypeOK, ActiveCommand
  <2>2. /\ \A p \in Pid \ {child} : processes'[p] = processes[p]
        /\ processes'[child].command_id = processes[q].command_id
    BY <1>1, <2>1 DEF StateInv, TypeOK, ProcessState
  <2>3. \A c \in CommandId : \/ earliest'[c] = earliest[c]
                             \/ \E p \in Pid : processes[p].command_id = c
    BY <1>1, CreatedEffect DEF StateInv
  <2>4. ShellInv' /\ FreshInv'
    BY <1>1, <1>2, <2>1, <2>2, <2>3, NoMarker
  <2>5. \A u \in Pid : thread_to_process'[u] = IF u = child THEN child ELSE thread_to_process[u]
    BY <2>1 DEF StateInv, TypeOK
  <2>6. IndexInv'
    BY <1>1, <2>1, <2>5 DEF StateInv, IndexInv
  <2>7. processes[q].command_id \in {NoCommand, launch[child]}
    BY <1>5, ChildCommand DEF ProcessOf
  <2>8. RightCommandOrNone'
    BY <1>1, <2>1, <2>2, <2>7 DEF StateInv, RightCommandOrNone, TypeOK
  <2> QED BY <2>4, <2>6, <2>8 DEF LoopInv
<1> QED BY <1>3, <1>4, <1>5

(* What the three markers do: the command of the shell and the active one change
   together, no other process is touched, and only the command of that id gets
   time stamps. *)
LEMMA MarkerEffect ==
    ASSUME TypeOK, NEW id \in CommandId, NEW ts,
           \/ on_arm_marker(Root, id, ts) \/ on_start_marker(Root, id, ts)
           \/ on_end_marker(Root, id, ts)
    PROVE  /\ UNCHANGED <<known, thread_to_process>>
           /\ \A p \in Pid \ {Root} : processes'[p] = processes[p]
           /\ \A c \in CommandId \ {id} : /\ startedAt'[c] = startedAt[c]
                                          /\ earliest'[c] = earliest[c]
           /\ on_arm_marker(Root, id, ts) =>
                /\ processes'[Root].command_id = id
                /\ active_command'.id = id /\ ~active_command'.started
           /\ on_start_marker(Root, id, ts) =>
                /\ processes'[Root].command_id = id /\ active_command.id = id
                /\ active_command'.id = id /\ active_command'.started
           /\ on_end_marker(Root, id, ts) =>
                /\ active_command.id = id
                /\ processes'[Root].command_id = NoCommand
                /\ active_command'.id = NoCommand
<1> USE PidAssumption
<1>1. processes \in [Pid -> ProcessState] /\ processes[Root] \in ProcessState
  BY DEF TypeOK
<1>2. active_command \in ActiveCommand
  BY DEF TypeOK
<1>3. ASSUME NEW type, NEW at, Emit(<<MakeEvent(type, Root, id, NoExe, at)>>, at)
      PROVE  \A c \in CommandId \ {id} : startedAt'[c] = startedAt[c] /\ earliest'[c] = earliest[c]
  <2>1. MakeEvent(type, Root, id, NoExe, at).command_id = id
    BY DEF MakeEvent
  <2> QED BY <1>3, <2>1, EmitOne
<1>4. CASE on_arm_marker(Root, id, ts)
  <2>1. /\ processes' = [processes EXCEPT ![Root].command_id = id]
        /\ active_command'.id = id /\ ~active_command'.started
        /\ UNCHANGED <<known, thread_to_process, startedAt, earliest>>
        /\ active_command.id = NoCommand
    BY <1>4 DEF on_arm_marker, EmitNothing, history, ArmFits
  <2>2. id # NoCommand
    BY DEF CommandId, NoCommand
  <2>3. ~on_start_marker(Root, id, ts) /\ ~on_end_marker(Root, id, ts)
    BY <2>1, <2>2 DEF on_start_marker, on_end_marker, StartFits, EndFits, Names
  <2>4. processes'[Root].command_id = id /\ \A u \in Pid \ {Root} : processes'[u] = processes[u]
    BY <1>1, <2>1 DEF ProcessState
  <2>5. UNCHANGED <<known, thread_to_process>>
    BY <2>1
  <2>6. \A c \in CommandId \ {id} : startedAt'[c] = startedAt[c] /\ earliest'[c] = earliest[c]
    BY <2>1
  <2>7. active_command'.id = id /\ ~active_command'.started
    BY <2>1
  <2> QED BY <2>3, <2>4, <2>5, <2>6, <2>7
<1>5. CASE on_start_marker(Root, id, ts)
  <2>1. /\ UNCHANGED <<known, thread_to_process, processes>>
        /\ processes[Root].command_id = id /\ active_command.id = id
        /\ active_command' = [active_command EXCEPT !.started = TRUE]
        /\ ~active_command.started
    BY <1>5 DEF on_start_marker, StartFits, Names
  <2>2. active_command'.id = id /\ active_command'.started
    BY <1>2, <2>1 DEF ActiveCommand
  <2>3. \A c \in CommandId \ {id} : startedAt'[c] = startedAt[c] /\ earliest'[c] = earliest[c]
    BY <1>3, <1>5 DEF on_start_marker
  <2>4. ~on_arm_marker(Root, id, ts) /\ ~on_end_marker(Root, id, ts)
    BY <2>1, <2>2 DEF on_arm_marker, on_end_marker, EndFits
  <2> QED BY <2>1, <2>2, <2>3, <2>4
<1>6. CASE on_end_marker(Root, id, ts)
  <2>1. /\ UNCHANGED <<known, thread_to_process>>
        /\ active_command.id = id /\ active_command.started
        /\ active_command' = NoActiveCommand
        /\ processes' = [processes EXCEPT ![Root].command_id = NoCommand]
    BY <1>6 DEF on_end_marker, EndFits, Names
  <2>2. \A c \in CommandId \ {id} : startedAt'[c] = startedAt[c] /\ earliest'[c] = earliest[c]
    BY <1>3, <1>6 DEF on_end_marker
  <2>3. active_command'.id = NoCommand /\ ~active_command'.started
    BY <2>1 DEF NoActiveCommand
  <2>4. id # NoCommand
    BY DEF CommandId, NoCommand
  <2>5. ~on_arm_marker(Root, id, ts) /\ ~on_start_marker(Root, id, ts)
    BY <2>1, <2>3, <2>4 DEF on_arm_marker, on_start_marker, StartFits, ArmFits
  <2>6. processes'[Root].command_id = NoCommand /\ \A p \in Pid \ {Root} : processes'[p] = processes[p]
    BY <1>1, <2>1 DEF ProcessState
  <2> QED BY <2>1, <2>2, <2>3, <2>5, <2>6
<1> QED BY <1>4, <1>5, <1>6

LEMMA MarkerLoopInv ==
    ASSUME CTypeOK, KernelInv, StateInv, TypeOK', NEW ts, HandleMarker(ts),
           UNCHANGED <<session, group, launch>>, \A u \in Pid : Born(u)' <=> Born(u)
    PROVE  LoopInv'
<1> DEFINE id == IF shell.next = "arm" THEN shell.id + 1 ELSE shell.id
<1>1. /\ session /\ shell.id \in Nat /\ id \in CommandId
      /\ shell.next = "arm" => shell.id + 1 \in CommandId
  BY AtMarker DEF HandleMarker
<1>2. /\ shell \in [next : {"arm", "text", "start", "end"}, id : 0 .. MaxCommand]
      /\ shell.next # "arm" => shell.id > 0
      /\ active_command.id \in {NoCommand, ShellCommand}
  BY DEF StateInv, ShellInv
<1>3. /\ shell' = NextMarker
      /\ \/ shell.next = "arm" /\ on_arm_marker(Root, id, ts)
         \/ shell.next = "text" /\ on_other_syscall(Root, ts)
         \/ shell.next = "start" /\ on_start_marker(Root, id, ts)
         \/ shell.next = "end" /\ on_end_marker(Root, id, ts)
  BY DEF HandleMarker
<1>4. /\ shell' \in [next : {"arm", "text", "start", "end"}, id : 0 .. MaxCommand]
      /\ shell'.id = id
      /\ shell'.next = CASE shell.next = "arm" -> "text" [] shell.next = "text" -> "start"
                         [] shell.next = "start" -> "end" [] shell.next = "end" -> "arm"
  BY <1>1, <1>2, <1>3, BoundAssumption DEF NextMarker, CommandId
<1> HIDE DEF id
<1>5. CASE shell.next = "text"
  <2>1. UNCHANGED <<state, history>>
    BY <1>3, <1>5 DEF on_other_syscall, EmitNothing
  <2>2. /\ UNCHANGED <<known, processes, thread_to_process, active_command, startedAt, earliest>>
        /\ id = shell.id
    BY <1>5, <2>1 DEF state, history, id
  <2>3. ShellInv'
    BY <1>1, <1>2, <1>4, <1>5, <2>2 DEF ShellInv, ShellCommand, CommandId
  <2>4. FreshInv' /\ IndexInv' /\ RightCommandOrNone'
    BY <1>4, <2>2 DEF StateInv, FreshInv, IndexInv, RightCommandOrNone, Unused
  <2> QED BY <2>3, <2>4 DEF LoopInv
<1>6. CASE shell.next # "text"
  <2>1. /\ UNCHANGED <<known, thread_to_process>>
        /\ \A p \in Pid \ {Root} : processes'[p] = processes[p]
        /\ \A c \in CommandId \ {id} : startedAt'[c] = startedAt[c] /\ earliest'[c] = earliest[c]
        /\ processes'[Root].command_id \in {id, NoCommand}
        /\ active_command'.id = IF shell.next = "end" THEN NoCommand ELSE id
    BY <1>1, <1>3, <1>6, MarkerEffect DEF StateInv
  <2>2. ShellInv'
    BY <1>1, <1>2, <1>4, <1>6, <2>1 DEF ShellInv, ShellCommand, CommandId
  <2>3. FreshInv'
    <3>1. shell.id <= id /\ id \in Nat
      BY <1>1 DEF id
    <3>2. \A p \in Pid : processes'[p].command_id <= id
      <4>1. \A p \in Pid : processes[p].command_id <= shell.id /\ processes[p].command_id \in Nat
        BY <1>1, CommandNumbers DEF StateInv, FreshInv
      <4>2. NoCommand <= id
        BY <3>1 DEF NoCommand
      <4> QED BY <1>1, <2>1, <3>1, <4>1, <4>2
    <3>3. ASSUME NEW c \in CommandId, c > id PROVE Unused(c)'
      <4>1. c \in Nat
        BY CommandNumbers DEF StateInv
      <4>2. c > shell.id /\ c # id
        BY <1>1, <3>1, <3>3, <4>1
      <4> QED BY <1>1, <2>1, <4>2 DEF StateInv, FreshInv, Unused
    <3> QED BY <1>4, <3>2, <3>3 DEF FreshInv
  <2>4. IndexInv' /\ RightCommandOrNone'
    BY <2>1 DEF StateInv, IndexInv, RightCommandOrNone, TypeOK
  <2> QED BY <2>2, <2>3, <2>4 DEF LoopInv
<1> QED BY <1>5, <1>6

(* A thread that was created keeps its process and the command it was launched by. *)
LEMMA BornKept ==
    ASSUME CTypeOK, Kernel
    PROVE  \A t \in Pid : Born(t) => group'[t] = group[t] /\ launch'[t] = launch[t] /\ Born(t)'
<1>1. ASSUME NEW dying, Die(dying), UNCHANGED <<group, launch>>
      PROVE  \A t \in Pid : Born(t) => group'[t] = group[t] /\ launch'[t] = launch[t] /\ Born(t)'
  BY <1>1 DEF Die, Born, CTypeOK
<1>2. ASSUME NEW t \in Pid, KillSiblings(t) \/ ExitThread(t) \/ ExitGroup(t) \/ Kill(t)
      PROVE  \A u \in Pid : Born(u) => group'[u] = group[u] /\ launch'[u] = launch[u] /\ Born(u)'
  BY <1>1, <1>2 DEF KillSiblings, ExitThread, ExitGroup, Kill
<1>3. ASSUME NEW t \in Pid, NEW c, Enter(t, c) \/ Complete(t) \/ FirstStop(t) \/ SignalStop(t)
      PROVE  \A u \in Pid : Born(u) => group'[u] = group[u] /\ launch'[u] = launch[u] /\ Born(u)'
  BY <1>3 DEF Enter, Complete, FirstStop, SignalStop, Born
<1>4. ASSUME NEW t \in Pid, Exec(t)
      PROVE  \A u \in Pid : Born(u) => group'[u] = group[u] /\ launch'[u] = launch[u] /\ Born(u)'
  BY <1>4 DEF Exec, Born, CTypeOK
<1>5. ASSUME NEW t \in Pid, NEW child \in Pid, Create(t, child)
      PROVE  \A u \in Pid : Born(u) => group'[u] = group[u] /\ launch'[u] = launch[u] /\ Born(u)'
  BY <1>5 DEF Create, Born, CTypeOK
<1> QED BY <1>2, <1>3, <1>4, <1>5 DEF Kernel, CTypeOK

(* The kernel and the programs: a child that is created is in no table yet. *)
LEMMA KernelLoopInv ==
    ASSUME CTypeOK, KernelInv, StateInv, Kernel
    PROVE  LoopInv'
<1>1. UNCHANGED <<known, processes, thread_to_process, active_command, session, startedAt,
                  earliest, shell>>
  BY DEF Kernel, vars, state, history
<1>2. /\ \A t \in Pid : Born(t) => group'[t] = group[t] /\ launch'[t] = launch[t] /\ Born(t)'
      /\ \A t \in Pid : group[t] \in Pid
  BY BornKept DEF CTypeOK
<1>3. ShellInv' /\ FreshInv'
  BY <1>1 DEF StateInv, ShellInv, FreshInv, ShellCommand, Unused
<1>4. \A t \in known : t \in Pid /\ Born(t)
  BY DEF StateInv, IndexInv, TypeOK
<1>5. \A t \in Pid : thread_to_process[t] # NoPid =>
        Born(t) /\ thread_to_process[t] \in Pid /\ Born(thread_to_process[t])
  BY <1>4 DEF StateInv, IndexInv, CommandsInv, ThreadIndexSound
<1>6. IndexInv'
  BY <1>1, <1>2, <1>4, <1>5 DEF StateInv, IndexInv
<1>7. RightCommandOrNone'
  BY <1>1, <1>2, <1>4 DEF StateInv, RightCommandOrNone
<1> QED BY <1>3, <1>6, <1>7 DEF LoopInv

(* Ctrl-C: the shell will write End of the command it was at. *)
LEMMA InterruptLoopInv ==
    ASSUME CTypeOK, StateInv, Interrupt
    PROVE  LoopInv'
<1>1. /\ UNCHANGED <<known, processes, thread_to_process, active_command, session, startedAt,
                     earliest, life, group, launch>>
      /\ session /\ shell'.id = shell.id /\ shell'.next = "end" /\ shell.id > 0
      /\ shell' \in [next : {"arm", "text", "start", "end"}, id : 0 .. MaxCommand]
  BY DEF Interrupt, vars, state, history, kernel, StateInv, ShellInv
<1>2. ShellInv'
  BY <1>1 DEF StateInv, ShellInv, ShellCommand
<1>3. FreshInv' /\ IndexInv' /\ RightCommandOrNone'
  BY <1>1 DEF StateInv, FreshInv, IndexInv, RightCommandOrNone, Unused, Born
<1> QED BY <1>2, <1>3 DEF LoopInv

LEMMA CollectorLoopInv ==
    ASSUME CTypeOK, KernelInv, StateInv, TypeOK', Collector
    PROVE  LoopInv'
<1>1. /\ session' = session /\ UNCHANGED <<group, launch>>
      /\ \A u \in Pid : Born(u)' <=> Born(u)
  BY SameSession, CollectorKernel DEF CNext
<1>2. ASSUME NEW t \in Pid, NEW ts \in Time, HandleExited(t, ts) PROVE LoopInv'
  BY <1>1, <1>2, ExitLoopInv DEF HandleExited
<1>3. ASSUME NEW t \in Pid, NEW ts \in Time, HandleExit(t, ts) PROVE LoopInv'
  <2>1. on_syscall_exit(t, ts) /\ shell' = shell
    BY <1>3 DEF HandleExit, on_syscall_exit
  <2>2. KeepsCommands /\ EarliestFromHolder(ts)
    BY <2>1, SyscallEffect DEF StateInv
  <2> QED BY <1>1, <2>1, <2>2, KeepsLoopInv
<1>4. ASSUME NEW ts \in Time, HandleMarker(ts) PROVE LoopInv'
  BY <1>1, <1>4, MarkerLoopInv
<1>5. ASSUME NEW t \in Pid, NEW ts \in Time, HandleCreated(t, ts) PROVE LoopInv'
  <2>1. report[t].kind = "created" /\ shell' = shell
    BY <1>5 DEF HandleCreated, Stopped
  <2>2. PICK is_thread \in BOOLEAN : /\ is_thread => group[report[t].child] # report[t].child
                                     /\ on_process_created(t, report[t].child, is_thread, ts)
    BY <1>5 DEF HandleCreated, TakenForThread
  <2> QED BY <1>1, <2>1, <2>2, CreatedLoopInv
<1>6. ASSUME NEW t \in Pid, NEW ts \in Time, HandleExec(t, ts) PROVE LoopInv'
  <2>1. report[t].kind = "exec" /\ shell' = shell
    BY <1>6 DEF HandleExec, Stopped
  <2>2. Born(t)
    BY <2>1 DEF KernelInv, FamilyInv, Born
  <2>3. PICK exe : on_process_exec(t, exe, StartDir, ts)
    BY <1>6 DEF HandleExec
  <2> QED BY <1>1, <2>1, <2>2, <2>3, ExecLoopInv
<1>7. ASSUME UNCHANGED <<state, history, shell>> PROVE LoopInv'
  <2>1. KeepsCommands /\ \A ts : EarliestFromHolder(ts)
    BY <1>7 DEF KeepsCommands, EarliestFromHolder, state, history
  <2> QED BY <1>1, <1>7, <2>1, KeepsLoopInv
<1>8. ASSUME NEW ts \in Time, HandleBadMarker(ts) PROVE LoopInv'
  BY <1>7, <1>8 DEF HandleBadMarker, on_bad_marker, EmitNothing
<1>9. ASSUME NEW t \in Pid,
             \/ HandleEntry(t) \/ HandleSignal(t) \/ HandleKilled(t) \/ GuardWait(t)
             \/ HandleUndecodable \/ Finish \/ GuardKill \/ GuardEnd
      PROVE  LoopInv'
  <2>1. UNCHANGED vars /\ UNCHANGED shell
    BY <1>9 DEF HandleEntry, HandleSignal, HandleKilled, GuardWait, HandleUndecodable,
                Finish, GuardKill, GuardEnd
  <2> QED BY <1>7, <2>1 DEF vars
<1> QED
  BY <1>2, <1>3, <1>4, <1>5, <1>6, <1>8, <1>9, PidAssumption DEF Collector

-----------------------------------------------------------------------------
(* The types of the loop, and of what the kernel keeps for the properties. *)

LoopTypeOK ==
    /\ pc \in {"loop", "done", "killing", "reaping", "failed"}
    /\ live_tids \in SUBSET Pid
    /\ configured_tids \in SUBSET Pid
    /\ threads \in [Pid -> Call \ {"new"}]
    /\ root_status_seen \in BOOLEAN
    /\ partial \in BOOLEAN
    /\ overtaken \in SUBSET Pid

HistoryTypeOK ==
    /\ launch \in [Pid -> CommandId \cup {NoCommand}]
    /\ orphans \in SUBSET Pid
    /\ dethreaded \in SUBSET Pid

LEMMA TypesSplit ==
    CTypeOK <=> /\ KernelTypeOK /\ LoopTypeOK /\ HistoryTypeOK
                /\ shell \in [next : {"arm", "text", "start", "end"}, id : 0 .. MaxCommand]
BY DEF CTypeOK, KernelTypeOK, LoopTypeOK, HistoryTypeOK

LEMMA LoopTypes ==
    ASSUME CTypeOK, KernelInv, StateInv, [CNext]_cvars
    PROVE  LoopTypeOK'
<1> USE PidAssumption
<1>0. LoopTypeOK
  BY TypesSplit
<1>1. ASSUME UNCHANGED loop PROVE LoopTypeOK'
  BY <1>0, <1>1 DEF loop, LoopTypeOK
<1>2. CASE Kernel \/ Interrupt \/ UNCHANGED cvars
  BY <1>1, <1>2 DEF Kernel, Interrupt, cvars
<1>3. ASSUME NEW t \in Pid, NEW ts, HandleExited(t, ts) PROVE LoopTypeOK'
  <2>1. "none" \in Call \ {"new"} /\ (t = Root) \in BOOLEAN
    BY DEF Call
  <2>2. /\ live_tids' = live_tids \ {t} /\ configured_tids' = configured_tids \ {t}
        /\ threads' = [threads EXCEPT ![t] = "none"]
        /\ root_status_seen' = (root_status_seen \/ t = Root)
        /\ UNCHANGED <<pc, partial, overtaken>>
    BY <1>3 DEF HandleExited
  <2>3. root_status_seen' \in BOOLEAN
    BY <2>2
  <2> QED BY <1>0, <2>1, <2>2, <2>3 DEF LoopTypeOK
<1>4. ASSUME NEW t \in Pid, HandleEntry(t) PROVE LoopTypeOK'
  <2>1. /\ report[t].kind \in {"entry", "exit"}
        /\ configured_tids' = configured_tids \cup {t} /\ live_tids' = live_tids \cup {t}
        /\ threads' = [threads EXCEPT ![t] = call[t]]
        /\ UNCHANGED <<pc, partial, overtaken, root_status_seen>>
    BY <1>4 DEF HandleEntry, Stopped
  <2>2. call[t] \in Call \ {"new"}
    BY <2>1 DEF CTypeOK, KernelInv, FamilyInv
  <2> QED BY <1>0, <2>1, <2>2 DEF LoopTypeOK
<1>5. ASSUME NEW t \in Pid, NEW ts,
             \/ HandleExit(t, ts) \/ HandleMarker(ts) \/ HandleBadMarker(ts) \/ HandleUndecodable
      PROVE  LoopTypeOK'
  <2>1. PICK u \in Pid : ToExit(u)
    BY <1>5 DEF HandleExit, HandleMarker, HandleBadMarker, HandleUndecodable
  <2>2. /\ configured_tids' = configured_tids \cup {u} /\ live_tids' = live_tids \cup {u}
        /\ threads' = [threads EXCEPT ![u] = "none"] /\ UNCHANGED root_status_seen
    BY <2>1 DEF ToExit, Stopped
  <2>3. overtaken' = overtaken /\ pc' \in {pc, "killing"} /\ partial' \in BOOLEAN
    BY <1>0, <1>5 DEF HandleExit, HandleMarker, HandleBadMarker, HandleUndecodable, LoopTypeOK
  <2>4. "none" \in Call \ {"new"}
    BY DEF Call
  <2> QED BY <1>0, <2>2, <2>3, <2>4 DEF LoopTypeOK
<1>6. ASSUME NEW t \in Pid, NEW ts, HandleCreated(t, ts) PROVE LoopTypeOK'
  <2>1. /\ report[t].kind = "created"
        /\ configured_tids' = configured_tids \cup {t}
        /\ live_tids' = live_tids \cup {t, report[t].child}
        /\ UNCHANGED <<pc, partial, root_status_seen, threads>>
        /\ overtaken' \subseteq overtaken \cup {report[t].child}
    BY <1>6 DEF HandleCreated, Stopped
  <2>2. report[t].child \in Pid
    BY <2>1 DEF KernelInv, ChildInv
  <2> QED BY <1>0, <2>1, <2>2 DEF LoopTypeOK
<1>7. ASSUME NEW t \in Pid, NEW ts, HandleExec(t, ts) \/ HandleSignal(t) \/ HandleKilled(t)
      PROVE  LoopTypeOK'
  <2>1. /\ configured_tids' = configured_tids \cup {t} /\ live_tids' = live_tids \cup {t}
        /\ UNCHANGED <<partial, root_status_seen, threads>>
        /\ overtaken' \subseteq overtaken \cup {t}
        /\ pc' \in {pc, "killing", "loop"}
    BY <1>7 DEF HandleExec, HandleSignal, HandleKilled, Stopped
  <2> QED BY <1>0, <2>1 DEF LoopTypeOK
<1>8. ASSUME NEW t \in Pid, GuardWait(t) \/ Finish \/ GuardKill \/ GuardEnd
      PROVE  LoopTypeOK'
  <2>1. /\ live_tids' \subseteq live_tids
        /\ UNCHANGED <<configured_tids, partial, root_status_seen, threads, overtaken>>
        /\ pc' \in {pc, "killing", "done", "reaping", "failed"}
    BY <1>8 DEF GuardWait, Finish, GuardKill, GuardEnd
  <2> QED BY <1>0, <2>1 DEF LoopTypeOK
<1> QED
  BY <1>2, <1>3, <1>4, <1>5, <1>6, <1>7, <1>8 DEF CNext, Collector

LEMMA HistoryTypes ==
    ASSUME CTypeOK, KernelInv, StateInv, [CNext]_cvars
    PROVE  HistoryTypeOK'
<1> USE PidAssumption
<1>0. HistoryTypeOK
  BY TypesSplit
<1>1. /\ \A t \in Pid : report[t].kind = "created" => report[t].child \in Pid
      /\ \A t \in Pid : group[t] \in Pid
  BY DEF KernelInv, ChildInv, CTypeOK
<1>2. ASSUME NEW dying \in SUBSET Pid, Die(dying), UNCHANGED <<launch, dethreaded>>
      PROVE  HistoryTypeOK'
  <2>1. orphans' = orphans \cup {report[t].child : t \in
                     {u \in dying : life[u] = "live" /\ report[u].kind = "created"}}
    BY <1>2 DEF Die
  <2> QED BY <1>0, <1>1, <1>2, <2>1 DEF HistoryTypeOK
<1>3. ASSUME UNCHANGED <<launch, orphans, dethreaded>> PROVE HistoryTypeOK'
  BY <1>0, <1>3 DEF HistoryTypeOK
<1>4. \A p : Members(p) \in SUBSET Pid
  BY DEF Members
<1>5. CASE Kernel
  <2>1. ASSUME NEW t \in Pid, NEW c, Enter(t, c) \/ Complete(t) \/ FirstStop(t) \/ SignalStop(t)
        PROVE  HistoryTypeOK'
    BY <1>3, <2>1 DEF Enter, Complete, FirstStop, SignalStop
  <2>2. ASSUME NEW t \in Pid, KillSiblings(t) \/ ExitThread(t) \/ ExitGroup(t) \/ Kill(t)
        PROVE  HistoryTypeOK'
    <3>1. PICK dying \in SUBSET Pid : Die(dying)
      BY <1>4, <2>2 DEF KillSiblings, ExitThread, ExitGroup, Kill
    <3> QED BY <1>2, <2>2, <3>1 DEF KillSiblings, ExitThread, ExitGroup, Kill
  <2>3. ASSUME NEW t \in Pid, NEW child \in Pid, Create(t, child) PROVE HistoryTypeOK'
    <3>1. ShellCommand \in CommandId \cup {NoCommand}
      BY BoundAssumption DEF ShellCommand, CommandId, NoCommand, CTypeOK
    <3>2. launch' \in [Pid -> CommandId \cup {NoCommand}]
      BY <1>0, <1>1, <2>3, <3>1 DEF Create, HistoryTypeOK
    <3> QED BY <1>0, <2>3, <3>2 DEF Create, HistoryTypeOK
  <2>4. ASSUME NEW t \in Pid, Exec(t) PROVE HistoryTypeOK'
    BY <1>0, <1>1, <2>4 DEF Exec, HistoryTypeOK
  <2> QED BY <1>5, <2>1, <2>2, <2>3, <2>4 DEF Kernel
<1>6. CASE Interrupt \/ UNCHANGED cvars
  BY <1>3, <1>6 DEF Interrupt, cvars, kernel
<1>7. ASSUME NEW t \in Pid, NEW ts,
             \/ HandleExited(t, ts) \/ HandleEntry(t) \/ HandleExit(t, ts) \/ HandleMarker(ts)
             \/ HandleCreated(t, ts) \/ HandleExec(t, ts) \/ HandleSignal(t)
      PROVE  HistoryTypeOK'
  <2>1. \/ \E u \in Pid : resume_syscall(u)
        \/ \E u \in Pid : Reap(u)
    BY <1>7 DEF HandleExited, HandleEntry, HandleExit, HandleMarker, HandleCreated,
                HandleExec, HandleSignal
  <2> QED BY <1>3, <2>1 DEF resume_syscall, Reap
<1>8. ASSUME NEW ts, HandleBadMarker(ts) \/ HandleUndecodable \/ Finish \/ GuardEnd
      PROVE  HistoryTypeOK'
  BY <1>3, <1>8 DEF HandleBadMarker, HandleUndecodable, Finish, GuardEnd, kernel
<1>9. ASSUME NEW t \in Pid, HandleKilled(t) \/ GuardKill \/ GuardWait(t) PROVE HistoryTypeOK'
  <2>1. \/ Reap(t)
        \/ UNCHANGED <<launch, dethreaded>> /\ \E dying \in SUBSET Pid : Die(dying)
    <3>1. UNION {Members(group[u]) : u \in live_tids} \in SUBSET Pid
      BY <1>4
    <3> QED BY <1>4, <1>9, <3>1 DEF HandleKilled, GuardKill, GuardWait
  <2> QED BY <1>2, <1>3, <2>1 DEF Reap
<1> QED
  BY <1>5, <1>6, <1>7, <1>8, <1>9 DEF CNext, Collector

-----------------------------------------------------------------------------
(* The invariant. *)

CollectorInv == CTypeOK /\ KernelInv /\ StateInv

LEMMA CollectorInit == CInit => CollectorInv
<1> SUFFICES ASSUME CInit PROVE CollectorInv
  OBVIOUS
<1> USE PidAssumption, BoundAssumption
<1>1. Init
  BY DEF CInit
<1>2. TypeOK /\ CommandsInv
  BY <1>1, InitTypes, InitCommands
<1>3. /\ known = {Root} /\ session \in BOOLEAN
      /\ thread_to_process = [p \in Pid |-> IF p = Root THEN Root ELSE NoPid]
      /\ active_command.id = IF session THEN NoCommand ELSE 1
      /\ session => /\ \A p \in Pid : processes[p].command_id = NoCommand
                    /\ \A c \in CommandId : startedAt[c] = NoTime /\ earliest[c] = NoTime
  BY <1>1 DEF Init, add_initial_process, FreshProcess, NoActiveCommand
<1>4. CTypeOK
  <2>1. KernelTypeOK
    BY ReportTypes DEF CInit, KernelTypeOK, Call
  <2>2. LoopTypeOK
    BY DEF CInit, LoopTypeOK, Call
  <2>3. HistoryTypeOK
    BY DEF CInit, HistoryTypeOK
  <2>4. shell \in [next : {"arm", "text", "start", "end"}, id : 0 .. MaxCommand]
    BY DEF CInit
  <2> QED BY <2>1, <2>2, <2>3, <2>4, TypesSplit
<1>5. KernelInv
  <2>1. \A t \in Pid : report[t].kind = "none"
    BY ReportTypes DEF CInit
  <2>2. FamilyInv
    BY <2>1 DEF CInit, FamilyInv, Born, Exists
  <2>3. ChildInv /\ LaunchInv
    BY <2>1 DEF CInit, ChildInv, LaunchInv, Born
  <2>4. PhaseInv /\ MarkerInv
    BY <2>1 DEF CInit, PhaseInv, MarkerInv
  <2> QED BY <2>2, <2>3, <2>4 DEF KernelInv
<1>6. ShellInv
  BY <1>3 DEF CInit, ShellInv, ShellCommand
<1>7. FreshInv
  BY <1>3 DEF CInit, FreshInv, Unused, NoCommand
<1>8. IndexInv /\ RightCommandOrNone
  BY <1>3 DEF CInit, IndexInv, RightCommandOrNone, Born
<1> QED BY <1>2, <1>4, <1>5, <1>6, <1>7, <1>8 DEF CollectorInv, StateInv

LEMMA CollectorNext == CollectorInv /\ [CNext]_cvars => CollectorInv'
<1> SUFFICES ASSUME CollectorInv, [CNext]_cvars PROVE CollectorInv'
  OBVIOUS
<1> USE DEF CollectorInv
<1>1. [Next]_vars
  BY StepIsSpecified
<1>2. TypeOK' /\ CommandsInv'
  BY <1>1, NextTypes, NextCommands DEF StateInv
<1>3. KernelInv' /\ LoopInv'
  <2>1. CASE Kernel
    BY <2>1, KernelSteps, KernelLoopInv
  <2>2. CASE Collector
    BY <1>2, <2>2, KernelCollector, CollectorLoopInv
  <2>3. CASE Interrupt
    BY <2>3, KernelInterrupt, InterruptLoopInv
  <2>4. CASE UNCHANGED cvars
    <3>1. /\ UNCHANGED <<kernel, session, threads, shell, pc>>
          /\ UNCHANGED <<known, processes, thread_to_process, active_command, startedAt, earliest>>
      BY <2>4 DEF cvars, loop, vars, state, history
    <3>2. LoopInv'
      BY <3>1 DEF kernel, StateInv, LoopInv, ShellInv, FreshInv, IndexInv, RightCommandOrNone,
                  Born, ShellCommand, Unused
    <3> QED BY <3>1, <3>2, SameKernel
  <2> QED BY <2>1, <2>2, <2>3, <2>4 DEF CNext
<1>4. CTypeOK'
  <2>1. KernelTypeOK' /\ LoopTypeOK' /\ HistoryTypeOK'
    BY TypesSplit, KernelTypes, LoopTypes, HistoryTypes
  <2>2. shell' \in [next : {"arm", "text", "start", "end"}, id : 0 .. MaxCommand]
    BY <1>3 DEF LoopInv, ShellInv
  <2> QED BY <2>1, <2>2 DEF CTypeOK, KernelTypeOK, LoopTypeOK, HistoryTypeOK
<1> QED BY <1>2, <1>3, <1>4 DEF StateInv, LoopInv

LEMMA CollectorAlways == CSpec => []CollectorInv
BY CollectorInit, CollectorNext, PTL DEF CSpec

(* The variables of the loop and of the kernel keep their types. *)
THEOREM CollectorTypeCorrect == CSpec => []CTypeOK
<1>1. CollectorInv => CTypeOK
  BY DEF CollectorInv
<1> QED BY <1>1, CollectorAlways, PTL

(* collect() calls the handlers of ExecutionState only as Spec allows: the ids of
   the shell's markers are fresh, a child is never the root.  So TypeOK,
   CommandsBracketed and the other theorems about Spec hold of the loop. *)
THEOREM CallsSpecified == CSpec => CallsAreSpecified
<1>1. CInit => Init
  BY DEF CInit
<1>2. CollectorInv /\ [CNext]_cvars => [Next]_vars
  BY StepIsSpecified DEF CollectorInv
<1> QED BY <1>1, <1>2, CollectorAlways, PTL DEF CSpec, CallsAreSpecified, Spec

(* While the loop runs, its own flag tells the entry of a call from its exit for
   every thread, whatever the order of the reports and whoever is killed, unless a
   thread other than the leader made an exec. *)
THEOREM PhaseCorrect == CSpec => []PhaseAgrees
<1>1. CollectorInv => PhaseAgrees
  BY DEF CollectorInv, KernelInv, FamilyInv, PhaseInv, PhaseAgrees
<1> QED BY <1>1, CollectorAlways, PTL

(* A process is never counted under another command than the one that launched it. *)
THEOREM CommandsAreRight == CSpec => []RightCommandOrNone
<1>1. CollectorInv => RightCommandOrNone
  BY DEF CollectorInv, StateInv
<1> QED BY <1>1, CollectorAlways, PTL

-----------------------------------------------------------------------------
(* Without Ctrl-C in the hooks: the recorder and the shell agree on the marker
   that comes next, so no marker is out of place. *)

(* A thread that is gone stays gone. *)
LEMMA GoneStays ==
    ASSUME CTypeOK, KernelInv, [CNext]_cvars, NEW t \in Pid, life[t] = "gone"
    PROVE  life'[t] = "gone"
<1>1. ASSUME NEW dying, Die(dying) PROVE life'[t] = "gone"
  BY <1>1 DEF Die
<1>2. ASSUME NEW u \in Pid, Reap(u) PROVE life'[t] = "gone"
  BY <1>2 DEF Reap, CTypeOK
<1>3. ASSUME UNCHANGED life PROVE life'[t] = "gone"
  BY <1>3
<1>4. CASE Kernel
  <2>1. ASSUME NEW u \in Pid, NEW c, Enter(u, c) \/ Complete(u) \/ FirstStop(u) \/ SignalStop(u)
        PROVE  life'[t] = "gone"
    BY <2>1 DEF Enter, Complete, FirstStop, SignalStop
  <2>2. ASSUME NEW u \in Pid, KillSiblings(u) \/ ExitThread(u) \/ ExitGroup(u) \/ Kill(u)
        PROVE  life'[t] = "gone"
    BY <1>1, <2>2 DEF KillSiblings, ExitThread, ExitGroup, Kill
  <2>3. ASSUME NEW u \in Pid, Exec(u) PROVE life'[t] = "gone"
    BY <2>3 DEF Exec, Running, CTypeOK
  <2>4. ASSUME NEW u \in Pid, NEW child \in Pid, Create(u, child) PROVE life'[t] = "gone"
    BY <2>4 DEF Create, CTypeOK
  <2> QED BY <1>4, <2>1, <2>2, <2>3, <2>4 DEF Kernel
<1>5. CASE Interrupt \/ UNCHANGED cvars
  BY <1>5 DEF Interrupt, cvars, kernel
<1>6. ASSUME NEW u \in Pid, NEW ts,
             \/ HandleExited(u, ts) \/ HandleEntry(u) \/ HandleExit(u, ts) \/ HandleMarker(ts)
             \/ HandleCreated(u, ts) \/ HandleExec(u, ts) \/ HandleSignal(u)
      PROVE  life'[t] = "gone"
  <2>1. UNCHANGED life \/ Reap(u)
    BY <1>6 DEF HandleExited, HandleEntry, HandleExit, HandleMarker, HandleCreated,
                HandleExec, HandleSignal, resume_syscall
  <2> QED BY <1>2, <2>1
<1>7. ASSUME NEW ts, HandleBadMarker(ts) \/ HandleUndecodable \/ Finish \/ GuardEnd
      PROVE  life'[t] = "gone"
  BY <1>7 DEF HandleBadMarker, HandleUndecodable, Finish, GuardEnd, kernel
<1>8. ASSUME NEW u \in Pid, HandleKilled(u) \/ GuardKill \/ GuardWait(u)
      PROVE  life'[t] = "gone"
  BY <1>1, <1>2, <1>8 DEF HandleKilled, GuardKill, GuardWait
<1> QED BY <1>4, <1>5, <1>6, <1>7, <1>8 DEF CNext, Collector

(* Only the markers and the death of the shell touch the active command. *)
LEMMA ActiveCommandKept ==
    ASSUME CollectorInv, ~MayInterrupt, [CNext]_cvars,
           \A ts \in Time : ~HandleMarker(ts), life'[Root] # "gone"
    PROVE  /\ active_command'.id = active_command.id
           /\ active_command'.started = active_command.started
           /\ UNCHANGED <<session, shell>>
<1> USE PidAssumption DEF CollectorInv
<1>0. UNCHANGED session
  BY SameSession
<1>1. CASE Kernel \/ UNCHANGED cvars
  BY <1>1 DEF Kernel, cvars, vars, state
<1>2. CASE Interrupt
  BY <1>2 DEF Interrupt
<1>3. ASSUME NEW t \in Pid, NEW ts \in Time, HandleExited(t, ts)
      PROVE  UNCHANGED <<active_command, shell>>
  <2>1. t # Root
    BY <1>3 DEF HandleExited, Reap, CTypeOK
  <2> QED BY <1>3, <2>1 DEF HandleExited, on_process_exit
<1>4. ASSUME NEW t \in Pid, NEW ts \in Time, HandleExit(t, ts)
      PROVE  UNCHANGED <<active_command, shell>>
  <2>1. on_syscall_exit(t, ts) /\ shell' = shell
    BY <1>4 DEF HandleExit, on_syscall_exit
  <2> QED BY <2>1, SyscallEffect DEF StateInv, KeepsCommands
<1>5. ASSUME NEW t \in Pid, NEW ts \in Time, HandleCreated(t, ts)
      PROVE  /\ active_command'.id = active_command.id
             /\ active_command'.started = active_command.started
             /\ UNCHANGED shell
  <2>1. PICK is_thread : on_process_created(t, report[t].child, is_thread, ts)
    BY <1>5 DEF HandleCreated
  <2>2. active_command \in ActiveCommand
    BY DEF StateInv, TypeOK
  <2>3. \/ active_command' = active_command
        \/ active_command' = [active_command EXCEPT !.first_process_ns = ts]
    BY <2>1 DEF on_process_created, state
  <2> QED BY <1>5, <2>2, <2>3 DEF HandleCreated, ActiveCommand
<1>6. ASSUME NEW t \in Pid, NEW ts \in Time, HandleExec(t, ts)
      PROVE  UNCHANGED <<active_command, shell>>
  BY <1>6 DEF HandleExec, on_process_exec
<1>7. ASSUME NEW ts, HandleBadMarker(ts) PROVE UNCHANGED <<active_command, shell>>
  BY <1>7 DEF HandleBadMarker, on_bad_marker, state
<1>8. ASSUME NEW t \in Pid,
             \/ HandleEntry(t) \/ HandleSignal(t) \/ HandleKilled(t) \/ GuardWait(t)
             \/ HandleUndecodable \/ Finish \/ GuardKill \/ GuardEnd
      PROVE  UNCHANGED <<active_command, shell>>
  BY <1>8 DEF HandleEntry, HandleSignal, HandleKilled, GuardWait, HandleUndecodable,
              Finish, GuardKill, GuardEnd, vars, state
<1> QED
  BY <1>0, <1>1, <1>2, <1>3, <1>4, <1>5, <1>6, <1>7, <1>8 DEF CNext, Collector

LEMMA SyncNext ==
    ASSUME CollectorInv, SyncInv, ~MayInterrupt, [CNext]_cvars
    PROVE  SyncInv'
<1> USE PidAssumption DEF CollectorInv
<1> SUFFICES ASSUME life'[Root] # "gone"
             PROVE  /\ active_command'.id = ShellCommand'
                    /\ session' /\ shell'.next \in {"text", "start"} => ~active_command'.started
                    /\ session' /\ shell'.next = "end" => active_command'.started
  BY DEF SyncInv
<1>1. /\ life[Root] # "gone" /\ active_command.id = ShellCommand
      /\ session /\ shell.next \in {"text", "start"} => ~active_command.started
      /\ session /\ shell.next = "end" => active_command.started
  BY GoneStays DEF SyncInv
<1>2. CASE \A ts \in Time : ~HandleMarker(ts)
  BY <1>1, <1>2, ActiveCommandKept DEF ShellCommand
<1>3. ASSUME NEW ts \in Time, HandleMarker(ts)
      PROVE  /\ active_command'.id = ShellCommand'
             /\ session' /\ shell'.next \in {"text", "start"} => ~active_command'.started
             /\ session' /\ shell'.next = "end" => active_command'.started
  <2> DEFINE id == IF shell.next = "arm" THEN shell.id + 1 ELSE shell.id
  <2>1. session /\ session' /\ id \in CommandId /\ shell.id \in Nat
    BY <1>3, AtMarker, SameSession DEF HandleMarker
  <2>2. shell \in [next : {"arm", "text", "start", "end"}, id : 0 .. MaxCommand]
    BY DEF CTypeOK
  <2>3. /\ shell'.id = id
        /\ shell'.next = CASE shell.next = "arm" -> "text" [] shell.next = "text" -> "start"
                           [] shell.next = "start" -> "end" [] shell.next = "end" -> "arm"
    BY <1>3, <2>2 DEF HandleMarker, NextMarker
  <2>4. /\ \/ shell.next = "arm" /\ on_arm_marker(Root, id, ts)
           \/ shell.next = "text" /\ on_other_syscall(Root, ts)
           \/ shell.next = "start" /\ on_start_marker(Root, id, ts)
           \/ shell.next = "end" /\ on_end_marker(Root, id, ts)
    BY <1>3 DEF HandleMarker
  <2>5. CASE shell.next = "text"
    <3>1. UNCHANGED active_command
      BY <2>4, <2>5 DEF on_other_syscall, state
    <3> QED BY <1>1, <2>1, <2>3, <2>5, <3>1 DEF ShellCommand
  <2>6. CASE shell.next = "arm"
    <3>1. active_command'.id = id /\ ~active_command'.started
      BY <2>1, <2>4, <2>6, MarkerEffect DEF StateInv
    <3> QED BY <2>1, <2>3, <2>6, <3>1 DEF ShellCommand
  <2>7. CASE shell.next = "start"
    <3>1. active_command'.id = id /\ active_command'.started
      BY <2>1, <2>4, <2>7, MarkerEffect DEF StateInv
    <3> QED BY <2>1, <2>3, <2>7, <3>1 DEF ShellCommand
  <2>8. CASE shell.next = "end"
    <3>1. active_command'.id = NoCommand
      BY <2>1, <2>4, <2>8, MarkerEffect DEF StateInv
    <3> QED BY <2>1, <2>3, <2>8, <3>1 DEF ShellCommand
  <2> QED BY <2>2, <2>5, <2>6, <2>7, <2>8
<1> QED BY <1>2, <1>3

LEMMA SyncInit == CInit => SyncInv
BY BoundAssumption DEF CInit, Init, add_initial_process, SyncInv, ShellCommand, NoActiveCommand

(* The marker the shell writes fits the command the recorder is at. *)
LEMMA MarkerFits ==
    ASSUME CollectorInv, SyncInv, NEW ts PROVE ~HandleBadMarker(ts)
<1> USE PidAssumption DEF CollectorInv
<1> SUFFICES ASSUME HandleBadMarker(ts) PROVE FALSE
  OBVIOUS
<1> DEFINE id == IF shell.next = "arm" THEN shell.id + 1 ELSE shell.id
<1>1. session /\ life[Root] = "live"
  BY AtMarker DEF HandleBadMarker
<1>2. /\ active_command.id = ShellCommand
      /\ processes[Root].command_id = ShellCommand
      /\ shell.next \in {"text", "start"} => ~active_command.started
      /\ shell.next = "end" => active_command.started
  BY <1>1 DEF SyncInv, StateInv, CommandsInv, RootCommandSync
<1>3. \/ shell.next = "arm" /\ ~ArmFits
      \/ shell.next = "start" /\ ~StartFits(id)
      \/ shell.next = "end" /\ ~EndFits(id)
  BY DEF HandleBadMarker, on_bad_marker
<1> QED BY <1>1, <1>2, <1>3 DEF ArmFits, StartFits, EndFits, Names, ShellCommand

LEMMA ThrowsOnlyAtMarker ==
    ASSUME CollectorInv, [CNext]_cvars, \A ts \in Time : ~HandleBadMarker(ts)
    PROVE  thrown' = thrown
<1> USE PidAssumption DEF CollectorInv
<1>1. CASE Kernel \/ Interrupt \/ UNCHANGED cvars
  BY <1>1 DEF Kernel, Interrupt, cvars, vars
<1>2. ASSUME NEW t \in Pid, NEW ts \in Time, HandleExited(t, ts) PROVE thrown' = thrown
  BY <1>2 DEF HandleExited, on_process_exit
<1>3. ASSUME NEW t \in Pid, NEW ts \in Time, HandleExit(t, ts) PROVE thrown' = thrown
  BY <1>3 DEF HandleExit, on_dropped_syscall, on_other_syscall, on_open, OnlyProcesses
<1>4. ASSUME NEW ts \in Time, HandleMarker(ts) PROVE thrown' = thrown
  BY <1>4 DEF HandleMarker, on_arm_marker, on_start_marker, on_end_marker, on_other_syscall
<1>5. ASSUME NEW t \in Pid, NEW ts \in Time, HandleCreated(t, ts) PROVE thrown' = thrown
  BY <1>5 DEF HandleCreated, on_process_created
<1>6. ASSUME NEW t \in Pid, NEW ts \in Time, HandleExec(t, ts) PROVE thrown' = thrown
  BY <1>6 DEF HandleExec, on_process_exec
<1>7. ASSUME NEW t \in Pid,
             \/ HandleEntry(t) \/ HandleSignal(t) \/ HandleKilled(t) \/ GuardWait(t)
             \/ HandleUndecodable \/ Finish \/ GuardKill \/ GuardEnd
      PROVE  thrown' = thrown
  BY <1>7 DEF HandleEntry, HandleSignal, HandleKilled, GuardWait, HandleUndecodable,
              Finish, GuardKill, GuardEnd, vars
<1> QED BY <1>1, <1>2, <1>3, <1>4, <1>5, <1>6, <1>7 DEF CNext, Collector

LEMMA InStep == ASSUME ~MayInterrupt PROVE CSpec => [](CollectorInv /\ SyncInv)
<1>1. CInit => CollectorInv /\ SyncInv
  BY CollectorInit, SyncInit
<1>2. CollectorInv /\ SyncInv /\ [CNext]_cvars => (CollectorInv /\ SyncInv)'
  BY CollectorNext, SyncNext
<1> QED BY <1>1, <1>2, PTL DEF CSpec

(* If Ctrl-C never hits the hooks of the shell, on_command_marker throws for no
   order of reports and no kill.  (After one, a hook may leave out the End marker
   and the next Arm marker finds a command active.) *)
THEOREM MarkersNeverThrow == ASSUME ~MayInterrupt PROVE CSpec => []NoThrow
<1>1. CInit => NoThrow
  BY DEF CInit, Init, NoThrow
<1>2. (CollectorInv /\ SyncInv) /\ NoThrow /\ [CNext]_cvars => NoThrow'
  BY MarkerFits, ThrowsOnlyAtMarker DEF NoThrow
<1> QED BY <1>1, <1>2, InStep, PTL DEF CSpec

-----------------------------------------------------------------------------
(* Without clone3 moreover: the collector knows which children are threads. *)

(* Thread u is as before the step. *)
SameThread(u) ==
    /\ life[u] = "live" /\ report'[u] = report[u] /\ call'[u] = call[u]
    /\ threads'[u] = threads[u]

(* MakesThread after the step. *)
Making(u) ==
    \/ call'[u] = "thread" /\ report'[u].kind # "entry"
    \/ report'[u].kind = "created" /\ group'[report'[u].child] # report'[u].child

LEMMA CloneFrame ==
    ASSUME CollectorInv, CloneInv, pc' = "loop" => pc = "loop",
           \A u \in Pid : Born(u) => group'[u] = group[u],
           \A u \in Pid : Born(u) => Born(u)',
           \A p \in dethreaded' : p \in Pid /\ Born(p) /\ group[p] = p,
           dethreaded \subseteq dethreaded',
           pc' = "loop" => \A u \in Pid \ dethreaded' : life'[u] = "live" =>
             SameThread(u) \/ ~Making(u) \/ threads'[u] = "thread"
    PROVE  CloneInv'
<1> USE DEF CollectorInv
<1>1. ASSUME NEW u \in Pid, life[u] = "live", SameThread(u), Making(u)
      PROVE  MakesThread(u)
  <2>1. report[u].kind = "created" => Born(report[u].child) /\ report[u].child \in Pid
    BY DEF KernelInv, ChildInv
  <2> QED BY <1>1, <2>1 DEF SameThread, MakesThread, Making
<1>2. ASSUME pc' = "loop", NEW u \in Pid \ dethreaded', life'[u] = "live", Making(u)
      PROVE  threads'[u] = "thread"
  <2>1. CASE SameThread(u)
    BY <1>1, <1>2, <2>1 DEF CloneInv, SameThread
  <2> QED BY <1>2, <2>1
<1> QED BY <1>2 DEF CloneInv, Making, MakesThread, Born, CTypeOK

(* The programs: an exec under the leader's id is the only step that gives a
   thread a call whose entry the loop has not seen. *)
LEMMA CloneKernel ==
    ASSUME CollectorInv, CloneInv, Kernel
    PROVE  CloneInv'
<1> USE PidAssumption DEF CollectorInv
<1>1. /\ UNCHANGED <<pc, threads>>
      /\ \A u \in Pid : Born(u) => group'[u] = group[u] /\ Born(u)'
  BY BornKept DEF Kernel, loop
<1>2. \A p \in dethreaded : p \in Pid /\ Born(p) /\ group[p] = p
  BY DEF CloneInv, CTypeOK
<1>3. ASSUME NEW t \in Pid, dethreaded' \in {dethreaded, dethreaded \cup {group[t]}},
             Born(group[t]),
             \A u \in Pid \ dethreaded' : life'[u] = "live" =>
               SameThread(u) \/ ~Making(u) \/ (pc = "loop" => threads'[u] = "thread")
      PROVE  CloneInv'
  <2>1. group[t] \in Pid /\ group[group[t]] = group[t]
    BY DEF CTypeOK, KernelInv, FamilyInv
  <2>2. \A p \in dethreaded' : p \in Pid /\ Born(p) /\ group[p] = p
    BY <1>2, <1>3, <2>1
  <2>3. pc' = "loop" => \A u \in Pid \ dethreaded' : life'[u] = "live" =>
          SameThread(u) \/ ~Making(u) \/ threads'[u] = "thread"
    BY <1>1, <1>3
  <2> QED BY <1>1, <1>3, <2>2, <2>3, CloneFrame
<1>4. ASSUME NEW t \in Pid, NEW c \in Call,
             Enter(t, c) \/ Complete(t) \/ FirstStop(t) \/ SignalStop(t)
      PROVE  CloneInv'
  <2>1. /\ UNCHANGED <<life, dethreaded>>
        /\ \A u \in Pid \ {t} : report'[u] = report[u] /\ call'[u] = call[u]
        /\ report'[t] \in {Says("entry"), Says("exit"), Says("stop")}
        /\ call'[t] = "thread" => report'[t] = Says("entry")
    BY <1>4 DEF Enter, Complete, FirstStop, SignalStop, CTypeOK
  <2>2. ~Making(t)
    BY <2>1 DEF Making, Says
  <2>3. \A u \in Pid \ {t} : life'[u] = "live" => SameThread(u)
    BY <1>1, <2>1 DEF SameThread
  <2>4. Born(group[t])
    BY <1>4 DEF Enter, Complete, FirstStop, SignalStop, Running, KernelInv, FamilyInv, Born
  <2> QED BY <1>3, <2>1, <2>2, <2>3, <2>4
<1>5. ASSUME NEW t \in Pid, NEW child \in Pid, Create(t, child) PROVE CloneInv'
  <2>1. /\ life[t] = "live" /\ life[child] = "unborn" /\ t # child
        /\ report[t].kind = "none" /\ report[child].kind = "none"
        /\ UNCHANGED dethreaded
    BY <1>5 DEF Create, Running, KernelInv, FamilyInv, Born
  <2>2. /\ \A u \in Pid \ {child} : life'[u] = life[u]
        /\ \A u \in Pid \ {t} : report'[u] = report[u]
        /\ report'[t].kind = "created" /\ report'[t].child = child
        /\ \A u \in Pid \ {t, child} : call'[u] = call[u]
        /\ call'[t] = "plain" /\ call'[child] = "new"
    BY <1>5, <2>1 DEF Create, CTypeOK
  <2>3. ~Making(child)
    BY <2>1, <2>2 DEF Making
  <2>4. Making(t) => call[t] = "thread"
    BY <1>5, <2>2 DEF Making, Create, CTypeOK
  <2>5. Making(t) => MakesThread(t)
    BY <2>1, <2>4 DEF MakesThread
  <2>6. pc = "loop" /\ t \notin dethreaded /\ Making(t) => threads'[t] = "thread"
    BY <1>1, <2>1, <2>5 DEF CloneInv
  <2>7. \A u \in Pid \ {t, child} : life'[u] = "live" => SameThread(u)
    BY <1>1, <2>2 DEF SameThread
  <2>8. Born(group[t])
    BY <2>1 DEF KernelInv, FamilyInv, Born
  <2>9. \A u \in Pid \ dethreaded' : life'[u] = "live" =>
          SameThread(u) \/ ~Making(u) \/ (pc = "loop" => threads'[u] = "thread")
    BY <2>1, <2>3, <2>6, <2>7
  <2> QED BY <1>3, <2>1, <2>8, <2>9
<1>6. ASSUME NEW t \in Pid, Exec(t) PROVE CloneInv'
  <2> DEFINE leader == group[t]
  <2>1. /\ leader \in Pid /\ life[leader] = "live"
        /\ dethreaded' = IF t = leader THEN dethreaded ELSE dethreaded \cup {leader}
        /\ \A u \in Pid \ {t} : life'[u] = life[u]
        /\ \A u \in Pid \ {leader} : report'[u] = report[u] /\ call'[u] = call[u]
        /\ report'[leader] = Says("exec") /\ call'[leader] = "plain"
        /\ t # leader => life'[t] = "gone"
    BY <1>6 DEF Exec, CTypeOK
  <2>2. ~Making(leader)
    BY <2>1 DEF Making, Says
  <2> HIDE DEF leader
  <2>3. \A u \in Pid \ {t, leader} : life'[u] = "live" => SameThread(u)
    BY <1>1, <2>1 DEF SameThread
  <2>4. life'[t] = "live" => t = leader
    BY <2>1
  <2>5. Born(leader) /\ leader = group[t]
    BY <2>1 DEF leader, Born
  <2>6. \A u \in Pid \ dethreaded' : life'[u] = "live" =>
          SameThread(u) \/ ~Making(u) \/ (pc = "loop" => threads'[u] = "thread")
    BY <2>2, <2>3, <2>4
  <2> QED BY <1>3, <2>1, <2>5, <2>6
<1>7. ASSUME NEW t \in Pid, KillSiblings(t) \/ ExitThread(t) \/ ExitGroup(t) \/ Kill(t)
      PROVE  CloneInv'
  <2>1. UNCHANGED <<call, dethreaded>> /\ \E dying : Die(dying)
    BY <1>7 DEF KillSiblings, ExitThread, ExitGroup, Kill
  <2>2. \A u \in Pid : life'[u] = "live" => life[u] = "live" /\ report'[u] = report[u]
    BY <2>1 DEF Die
  <2>3. \A u \in Pid : life'[u] = "live" => SameThread(u)
    BY <1>1, <2>1, <2>2 DEF SameThread
  <2>4. Born(group[t])
    BY <1>7 DEF KillSiblings, ExitThread, ExitGroup, Kill, Running, Members, Exists,
                KernelInv, FamilyInv, Born, CTypeOK
  <2> QED BY <1>3, <2>1, <2>3, <2>4
<1> QED BY <1>4, <1>5, <1>6, <1>7 DEF Kernel, Call

(* The loop: the flag is cleared only at the exit of the call. *)
LEMMA CloneCollector ==
    ASSUME CollectorInv, CloneInv, Collector
    PROVE  CloneInv'
<1> USE PidAssumption DEF CollectorInv
<1>1. UNCHANGED group /\ \A u \in Pid : Born(u)' <=> Born(u)
  BY CollectorKernel
<1>2. \A p \in dethreaded : p \in Pid /\ Born(p) /\ group[p] = p
  BY DEF CloneInv, CTypeOK
<1>3. ASSUME dethreaded' = dethreaded, pc' = "loop" => pc = "loop",
             pc' = "loop" => \A u \in Pid \ dethreaded : life'[u] = "live" =>
               SameThread(u) \/ ~Making(u) \/ threads'[u] = "thread"
      PROVE  CloneInv'
  BY <1>1, <1>2, <1>3, CloneFrame
<1>4. ASSUME NEW t \in Pid, NEW kinds, Stopped(t, kinds), resume_syscall(t), UNCHANGED pc,
             \A u \in Pid \ {t} : threads'[u] = threads[u],
             t \notin dethreaded /\ call'[t] = "thread" => threads'[t] = "thread"
      PROVE  CloneInv'
  <2>1. /\ UNCHANGED <<life, dethreaded>> /\ report'[t].kind = "none"
        /\ \A u \in Pid \ {t} : report'[u] = report[u] /\ call'[u] = call[u]
    BY <1>4, ResumeEffect
  <2>2. t \notin dethreaded => ~Making(t) \/ threads'[t] = "thread"
    BY <1>4, <2>1 DEF Making
  <2>3. \A u \in Pid \ {t} : life'[u] = "live" => SameThread(u)
    BY <1>4, <2>1 DEF SameThread
  <2> QED BY <1>3, <1>4, <2>1, <2>2, <2>3
<1>5. ASSUME NEW t \in Pid, NEW ts, HandleExited(t, ts) PROVE CloneInv'
  <2>1. /\ UNCHANGED <<call, dethreaded, pc>> /\ life'[t] = "gone"
        /\ \A u \in Pid \ {t} : /\ life'[u] = life[u] /\ report'[u] = report[u]
                                /\ threads'[u] = threads[u]
    BY <1>5 DEF HandleExited, Reap, CTypeOK
  <2> QED BY <1>3, <2>1 DEF SameThread
<1>6. ASSUME NEW t \in Pid, HandleEntry(t) PROVE CloneInv'
  <2>1. /\ Stopped(t, {"entry", "exit"}) /\ resume_syscall(t) /\ UNCHANGED pc
        /\ threads'[t] = call[t] /\ \A u \in Pid \ {t} : threads'[u] = threads[u]
    BY <1>6 DEF HandleEntry, CTypeOK
  <2> QED BY <1>4, <2>1, ResumeEffect
<1>7. ASSUME NEW t \in Pid, ToExit(t), resume_syscall(t), UNCHANGED pc PROVE CloneInv'
  <2>1. /\ Stopped(t, {"entry", "exit"}) /\ threads[t] # "none" /\ pc = "loop"
        /\ report[t].kind \in {"entry", "exit"}
        /\ \A u \in Pid \ {t} : threads'[u] = threads[u]
    BY <1>7 DEF ToExit, Stopped, Waited, CTypeOK
  <2>2. life[t] = "live"
    BY <2>1 DEF KernelInv, FamilyInv
  <2>3. t \notin dethreaded => report[t].kind = "exit"
    BY <2>1, <2>2 DEF KernelInv, PhaseInv
  <2>4. t \notin dethreaded => call'[t] = "none"
    BY <1>7, <2>3, ResumeEffect
  <2> QED BY <1>4, <1>7, <2>1, <2>4
<1>8. ASSUME NEW t \in Pid, NEW ts, HandleExit(t, ts) \/ HandleMarker(ts) PROVE CloneInv'
  BY <1>7, <1>8 DEF HandleExit, HandleMarker
<1>9. ASSUME NEW t \in Pid, NEW ts,
             HandleCreated(t, ts) \/ HandleExec(t, ts) \/ HandleSignal(t)
      PROVE  CloneInv'
  <2>1. /\ Stopped(t, {"created", "exec", "stop"}) /\ pc = "loop"
        /\ report[t].kind \in {"created", "exec", "stop"}
        /\ resume_syscall(t) /\ UNCHANGED <<pc, threads>>
    BY <1>9 DEF HandleCreated, HandleExec, HandleSignal, Stopped, Waited
  <2>2. life[t] = "live"
    BY <2>1 DEF KernelInv, FamilyInv
  <2>3. call'[t] = call[t]
    BY <2>1, ResumeEffect
  <2>4. t \notin dethreaded /\ call[t] = "thread" => threads[t] = "thread"
    BY <2>1, <2>2 DEF CloneInv, MakesThread
  <2> QED BY <1>4, <2>1, <2>3, <2>4
<1>10. ASSUME NEW t \in Pid, HandleKilled(t) PROVE CloneInv'
  <2>1. /\ UNCHANGED <<call, dethreaded, threads>> /\ pc = "loop"
        /\ \A u \in Pid : life'[u] = "live" => life[u] = "live" /\ report'[u] = report[u]
    BY <1>10 DEF HandleKilled, Stopped, Waited, Die
  <2> QED BY <1>3, <2>1 DEF SameThread
<1>11. ASSUME NEW t \in Pid, NEW ts, \/ HandleBadMarker(ts) \/ HandleUndecodable \/ GuardWait(t)
                                     \/ Finish \/ GuardKill \/ GuardEnd
       PROVE  CloneInv'
  <2>1. pc' # "loop" /\ UNCHANGED dethreaded
    BY <1>11 DEF HandleBadMarker, HandleUndecodable, GuardWait, Finish, GuardKill, GuardEnd,
                 kernel, Reap
  <2> QED BY <1>3, <2>1
<1> QED BY <1>5, <1>6, <1>8, <1>9, <1>10, <1>11 DEF Collector

LEMMA CloneAlways == CSpec => [](CollectorInv /\ CloneInv)
<1>1. CInit => CloneInv
  <2> SUFFICES ASSUME CInit PROVE CloneInv
    OBVIOUS
  <2>1. /\ dethreaded = {} /\ \A t \in Pid : call[t] = "none" /\ report[t] = NoReport
    BY DEF CInit
  <2> QED BY <2>1 DEF CloneInv, MakesThread, NoReport
<1>2. CollectorInv /\ CloneInv /\ [CNext]_cvars => CloneInv'
  <2>1. CollectorInv /\ CloneInv /\ (Interrupt \/ UNCHANGED cvars) => CloneInv'
    BY DEF Interrupt, cvars, kernel, loop, CloneInv, MakesThread, Born
  <2> QED BY <2>1, CloneKernel, CloneCollector DEF CNext
<1> QED BY <1>1, <1>2, CollectorAlways, PTL DEF CSpec

LEMMA EntriesNext ==
    ASSUME CollectorInv, CloneInv, ThreadsShareAnEntry, ~Clone3, [CNext]_cvars
    PROVE  ThreadsShareAnEntry'
<1> USE PidAssumption DEF CollectorInv
<1>0. \A t \in known : t \in Pid /\ Born(t) /\ (group[t] = t \/ group[t] \in dethreaded)
  BY DEF StateInv, IndexInv, TypeOK, ThreadsShareAnEntry
<1>1. CASE Kernel
  <2>1. dethreaded \subseteq dethreaded'
    BY <1>1 DEF Kernel, Enter, Complete, Create, FirstStop, SignalStop, KillSiblings, Exec,
                ExitThread, ExitGroup, Kill
  <2>2. known' = known
    BY <1>1 DEF Kernel, vars, state
  <2> QED BY <1>0, <1>1, <2>1, <2>2, BornKept DEF ThreadsShareAnEntry
<1>2. CASE Interrupt \/ UNCHANGED cvars
  BY <1>0, <1>2 DEF Interrupt, cvars, vars, state, kernel, ThreadsShareAnEntry
<1>3. CASE Collector
  <2>0. UNCHANGED group
    BY <1>3, CollectorKernel
  <2>9. UNCHANGED dethreaded
    BY <1>3 DEF Collector, HandleExited, HandleEntry, HandleExit, HandleMarker,
                HandleBadMarker, HandleUndecodable, HandleCreated, HandleExec, HandleSignal,
                HandleKilled, GuardWait, Finish, GuardKill, GuardEnd, Reap, resume_syscall,
                kernel
  <2>1. ASSUME UNCHANGED known PROVE ThreadsShareAnEntry'
    BY <2>0, <2>9, <2>1 DEF ThreadsShareAnEntry
  <2>2. ASSUME NEW t \in Pid, NEW ts \in Time,
               HandleExited(t, ts) \/ HandleExit(t, ts) \/ HandleMarker(ts) \/ HandleBadMarker(ts)
        PROVE  UNCHANGED known
    BY <2>2 DEF HandleExited, HandleExit, HandleMarker, HandleBadMarker, on_process_exit,
                on_dropped_syscall, on_other_syscall, on_open, OnlyProcesses,
                on_arm_marker, on_start_marker, on_end_marker, on_bad_marker, state
  <2>3. ASSUME NEW t \in Pid,
               \/ HandleEntry(t) \/ HandleSignal(t) \/ HandleKilled(t) \/ GuardWait(t)
               \/ HandleUndecodable \/ Finish \/ GuardKill \/ GuardEnd
        PROVE  UNCHANGED known
    BY <2>3 DEF HandleEntry, HandleSignal, HandleKilled, GuardWait, HandleUndecodable,
                Finish, GuardKill, GuardEnd, vars, state
  <2>4. ASSUME NEW t \in Pid, NEW ts \in Time, HandleExec(t, ts) PROVE ThreadsShareAnEntry'
    <3>1. group[t] = t
      BY <2>4 DEF HandleExec, Stopped, KernelInv, FamilyInv
    <3>2. PICK exe : on_process_exec(t, exe, StartDir, ts)
      BY <2>4 DEF HandleExec
    <3>3. known' \in {known, known \cup {t}}
      BY <3>2, ExecEffect DEF StateInv, KeepsCommands
    <3> QED BY <2>0, <2>9, <3>1, <3>3 DEF ThreadsShareAnEntry
  <2>5. ASSUME NEW t \in Pid, NEW ts \in Time, HandleCreated(t, ts) PROVE ThreadsShareAnEntry'
    <3> DEFINE child == report[t].child
    <3>1. PICK is_thread \in TakenForThread(t) : on_process_created(t, child, is_thread, ts)
      BY <2>5 DEF HandleCreated
    <3>2. CASE group[child] = child \/ is_thread
      <4>1. known' = known \/ (known' = known \cup {child} /\ group[child] = child)
        BY <3>1, <3>2 DEF on_process_created, state
      <4> QED BY <2>0, <2>9, <4>1 DEF ThreadsShareAnEntry
    <3>3. CASE group[child] # child /\ ~is_thread
      <4>1. pc = "loop" /\ report[t].kind = "created"
        BY <2>5 DEF HandleCreated, Stopped, Waited
      <4>2. life[t] = "live" /\ MakesThread(t) /\ group[child] = group[t]
        BY <3>3, <4>1 DEF KernelInv, FamilyInv, ChildInv, MakesThread
      <4>3. threads[t] # "thread"
        BY <3>1, <3>3 DEF TakenForThread
      <4>4. t \in dethreaded /\ group[t] = t
        BY <4>1, <4>2, <4>3 DEF CloneInv
      <4>5. known' \subseteq known \cup {child}
        BY <3>1 DEF on_process_created, state
      <4> QED BY <2>0, <2>9, <4>2, <4>4, <4>5 DEF ThreadsShareAnEntry
    <3> QED BY <3>2, <3>3
  <2> QED BY <1>3, <2>1, <2>2, <2>3, <2>4, <2>5 DEF Collector
<1> QED BY <1>1, <1>2, <1>3 DEF CNext

LEMMA EntriesInit == CInit => ThreadsShareAnEntry
<1> SUFFICES ASSUME CInit PROVE ThreadsShareAnEntry
  OBVIOUS
<1>1. group = [t \in Pid |-> t] /\ Init
  BY DEF CInit
<1>2. known = {Root}
  BY <1>1 DEF Init, add_initial_process
<1> QED BY <1>1, <1>2, PidAssumption DEF ThreadsShareAnEntry

(* Without clone3, a thread becomes a process of the recording only after another
   thread than the leader of its process has made an exec. *)
THEOREM ThreadsAreShared == ASSUME ~Clone3 PROVE CSpec => []ThreadsShareAnEntry
<1>1. (CollectorInv /\ CloneInv) /\ ThreadsShareAnEntry /\ [CNext]_cvars => ThreadsShareAnEntry'
  BY EntriesNext
<1> QED BY <1>1, EntriesInit, CloneAlways, PTL DEF CSpec

-----------------------------------------------------------------------------
(* The commands of the events. *)

(* An event of the process q with the command of q. *)
LEMMA ExactEvent ==
    ASSUME NEW e, emitted' = <<e>>, UNCHANGED launch, e.pid \in known',
           e.pid \notin {Root} \cup overtaken' => e.command_id = launch[e.pid]
    PROVE  EventsExact'
BY DEF EventsExact

LEMMA NoEvents == ASSUME emitted' = << >> PROVE EventsExact'
BY DEF EventsExact

LEMMA ExitExact ==
    ASSUME CollectorInv, ExactInv, NEW t \in Pid, NEW ts \in Time, on_process_exit(t, ts),
           UNCHANGED <<launch, overtaken>>
    PROVE  TableExact' /\ EventsExact'
<1> USE DEF CollectorInv
<1> DEFINE pid == process_for_thread(t)
           own == IF pid = Root /\ Armed THEN NoCommand ELSE processes[pid].command_id
           exit == MakeEvent("process_exit", t, CommandFor(pid, own),
                             processes[pid].executable, ts)
           end == MakeEvent("command_end", t, own, NoExe, ts)
<1>1. TableExact'
  <2>1. UNCHANGED known
    BY DEF on_process_exit
  <2>2. \A p \in Pid \ {Root} : processes'[p].command_id = processes[p].command_id
    BY ExitEffect DEF StateInv
  <2> QED BY <2>1, <2>2 DEF ExactInv, TableExact, StateInv, TypeOK
<1>2. CASE t = pid /\ pid \in known
  <2>1. UNCHANGED known
    BY DEF on_process_exit
  <2>2. /\ exit.pid = pid /\ end.pid = pid
        /\ pid # Root => exit.command_id = processes[pid].command_id
    BY DEF MakeEvent, CommandFor
  <2>3. \/ emitted' = <<exit>>
        \/ emitted' = <<exit, end>> /\ pid = Root
    BY <1>2 DEF on_process_exit, Emit
  <2>4. pid \notin {Root} \cup overtaken => exit.command_id = launch[pid]
    BY <1>2, <2>2 DEF ExactInv, TableExact
  <2> HIDE DEF exit, end, pid
  <2>5. CASE emitted' = <<exit>>
    BY <1>1, <1>2, <2>1, <2>2, <2>4, <2>5, ExactEvent
  <2>6. CASE emitted' = <<exit, end>> /\ pid = Root
    BY <1>1, <1>2, <2>1, <2>2, <2>6 DEF EventsExact
  <2> QED BY <2>3, <2>5, <2>6, <1>1
<1>3. CASE ~(t = pid /\ pid \in known)
  BY <1>1, <1>3, NoEvents DEF on_process_exit, EmitNothing
<1> QED BY <1>2, <1>3

LEMMA ExecExact ==
    ASSUME CollectorInv, ExactInv, NEW t \in Pid, NEW ts \in Time, NEW exe, NEW cwd,
           on_process_exec(t, exe, cwd, ts), UNCHANGED launch,
           overtaken' = IF HasProcess(t) THEN overtaken ELSE overtaken \cup {t}
    PROVE  TableExact' /\ EventsExact'
<1> USE DEF CollectorInv
<1> DEFINE pid == process_for_thread(t)
           before == IF HasProcess(t) THEN ProcessOf(t) ELSE FreshProcess(cwd)
           e == MakeEvent("process_exec", t, CommandFor(pid, before.command_id), exe, ts)
<1>1. /\ emitted' = <<e>> /\ known' = known \cup {pid}
      /\ e.pid = pid
      /\ pid # Root => e.command_id = before.command_id
  BY DEF on_process_exec, Emit, MakeEvent, CommandFor
<1>2. pid \in Pid /\ (~HasProcess(t) => pid = t)
  BY SameGroup DEF HasProcess, process_for_thread, StateInv, CommandsInv, ThreadIndexSound
<1>3. HasProcess(t) => before.command_id = processes[pid].command_id /\ pid \in known
  BY DEF ProcessOf, HasProcess
<1>4. /\ \A p \in Pid \ {pid} : processes'[p] = processes[p]
      /\ HasProcess(t) => processes'[pid].command_id = processes[pid].command_id
  <2>1. processes \in [Pid -> ProcessState] /\ processes[pid] \in ProcessState
    BY <1>2 DEF StateInv, TypeOK
  <2>2. processes' = [processes EXCEPT ![pid] = [before EXCEPT !.executable = exe]]
    BY DEF on_process_exec
  <2> QED BY <1>2, <2>1, <2>2 DEF ProcessOf, ProcessState
<1>5. TableExact'
  BY <1>1, <1>2, <1>3, <1>4 DEF ExactInv, TableExact, StateInv, TypeOK
<1>6. pid \notin {Root} \cup overtaken' => e.command_id = launch[pid]
  BY <1>1, <1>2, <1>3 DEF ExactInv, TableExact
<1> HIDE DEF e, pid, before
<1> QED BY <1>1, <1>5, <1>6, ExactEvent

LEMMA SyscallExact ==
    ASSUME CollectorInv, ExactInv, NEW t \in Pid, NEW ts \in Time,
           \/ on_dropped_syscall(t, ts) \/ on_other_syscall(t, ts)
           \/ \E r \in Rel : on_open(t, TRUE, AT_FDCWD, r, FALSE, AT_FDCWD, ts),
           UNCHANGED <<launch, overtaken>>
    PROVE  TableExact' /\ EventsExact'
<1> USE DEF CollectorInv
<1>1. UNCHANGED <<known, processes>>
  BY NameAssumption DEF on_dropped_syscall, on_other_syscall, on_open, OnlyProcesses, state
<1>2. TableExact'
  BY <1>1 DEF ExactInv, TableExact
<1>3. CASE on_dropped_syscall(t, ts) \/ on_other_syscall(t, ts)
  BY <1>2, <1>3, NoEvents DEF on_dropped_syscall, on_other_syscall, EmitNothing
<1>4. ASSUME NEW r \in Rel, on_open(t, TRUE, AT_FDCWD, r, FALSE, AT_FDCWD, ts)
      PROVE  EventsExact'
  <2> DEFINE pid == process_for_thread(t)
             path == resolve_path(ProcessOf(t), TRUE, AT_FDCWD, r)
             e == MakeEvent("file_open", t, CommandFor(pid, ProcessOf(t).command_id), path, ts)
  <2>1. emitted' = <<e>> /\ pid \in known
    BY <1>4 DEF on_open, SyscallEvent, Emit, HasProcess
  <2>2. e.pid = pid /\ (pid # Root => e.command_id = processes[pid].command_id)
    BY DEF MakeEvent, CommandFor, ProcessOf
  <2>3. pid \notin {Root} \cup overtaken => e.command_id = launch[pid]
    BY <2>1, <2>2 DEF ExactInv, TableExact
  <2> HIDE DEF e, pid
  <2> QED BY <1>1, <2>1, <2>2, <2>3, ExactEvent
<1> QED BY <1>2, <1>3, <1>4

(* Whoever creates a child that is not overtaken has the command that launches it. *)
LEMMA CreatorHasTheCommand ==
    ASSUME CollectorInv, SyncInv, ExactInv, NEW t \in Pid, report[t].kind = "created",
           NEW q, q = process_for_thread(t), q \in known, q \notin overtaken
    PROVE  processes[q].command_id = launch[report[t].child]
<1> USE PidAssumption DEF CollectorInv
<1>1. q \in Pid /\ group[q] = group[t] /\ Born(q)
  BY SameGroup DEF StateInv, IndexInv
<1>2. launch[report[t].child] = IF group[t] = Root THEN ShellCommand ELSE launch[group[t]]
  BY DEF KernelInv, ChildInv
<1>3. CASE q = Root
  <2>1. group[t] = Root
    BY <1>1, <1>3 DEF KernelInv, FamilyInv
  <2>2. life[Root] # "gone"
    BY <2>1 DEF KernelInv, FamilyInv, Exists
  <2>3. processes[Root].command_id = ShellCommand
    BY <2>2 DEF SyncInv, StateInv, CommandsInv, RootCommandSync
  <2> QED BY <1>2, <1>3, <2>1, <2>3
<1>4. CASE q # Root
  <2>1. processes[q].command_id = launch[q]
    BY <1>4 DEF ExactInv, TableExact
  <2>2. CASE group[t] # Root
    BY <1>1, <1>2, <1>4, <2>1, <2>2 DEF KernelInv, LaunchInv
  <2>3. CASE group[t] = Root
    <3>1. launch[q] = 1 /\ ~session
      BY <1>1, <1>4, <2>3 DEF KernelInv, LaunchInv, FamilyInv
    <3> QED BY <1>2, <2>1, <2>3, <3>1 DEF ShellCommand
  <2> QED BY <2>2, <2>3
<1> QED BY <1>3, <1>4

LEMMA CreatedExact ==
    ASSUME CollectorInv, SyncInv, ExactInv, NEW t \in Pid, NEW ts \in Time,
           HandleCreated(t, ts)
    PROVE  TableExact' /\ EventsExact'
<1> USE DEF CollectorInv
<1> DEFINE child == report[t].child
           q == process_for_thread(t)
<1>1. PICK is_thread \in TakenForThread(t) :
        /\ on_process_created(t, child, is_thread, ts)
        /\ overtaken' = IF ~HasProcess(t) THEN overtaken \cup {child}
                        ELSE IF is_thread THEN overtaken
                        ELSE IF q \in overtaken THEN overtaken \cup {child}
                        ELSE overtaken \ {child}
  BY DEF HandleCreated
<1>0. report[t].kind = "created" /\ UNCHANGED launch
  BY DEF HandleCreated, Stopped, resume_syscall
<1>2. /\ child \in Pid \ {Root, t, group[t]} /\ q \in Pid
      /\ HasProcess(t) => q \in known
  BY <1>0, SameGroup DEF KernelInv, ChildInv, HasProcess
<1>3. CASE ~HasProcess(t) \/ is_thread
  <2>1. UNCHANGED <<known, processes>> /\ emitted' = << >> /\ overtaken \subseteq overtaken'
    BY <1>1, <1>3 DEF on_process_created, EmitNothing, state
  <2> QED BY <1>0, <2>1, NoEvents DEF ExactInv, TableExact
<1>4. CASE HasProcess(t) /\ ~is_thread
  <2> DEFINE e == MakeEvent("process_fork", t, processes[q].command_id, child, ts)
  <2>1. /\ known' = known \cup {child} /\ emitted' = <<e>>
        /\ processes' = [processes EXCEPT ![child] = [processes[q] EXCEPT !.parent_pid = q]]
    BY <1>1, <1>4 DEF on_process_created, Emit
  <2>2. /\ \A p \in Pid \ {child} : processes'[p] = processes[p]
        /\ processes'[child].command_id = processes[q].command_id
    BY <1>2, <2>1 DEF StateInv, TypeOK, ProcessState
  <2>3. q \notin overtaken => processes[q].command_id = launch[child]
    BY <1>0, <1>2, <1>4, CreatorHasTheCommand
  <2>4. /\ \A p \in Pid \ {child} : p \in overtaken => p \in overtaken'
        /\ child \notin overtaken' => q \notin overtaken
    BY <1>1, <1>4
  <2>5. TableExact'
    BY <1>0, <1>2, <2>1, <2>2, <2>3, <2>4 DEF ExactInv, TableExact, StateInv, TypeOK
  <2>6. e.pid = q /\ e.command_id = processes[q].command_id
    BY DEF MakeEvent
  <2>7. q \notin {Root} \cup overtaken' => e.command_id = launch[q]
    BY <1>2, <1>4, <2>4, <2>6 DEF ExactInv, TableExact
  <2> HIDE DEF e, q
  <2> QED BY <1>0, <1>2, <1>4, <2>1, <2>5, <2>6, <2>7, ExactEvent
<1> QED BY <1>3, <1>4

(* Markers are events of the shell itself. *)
LEMMA MarkerExact ==
    ASSUME CollectorInv, ExactInv, NEW ts \in Time, HandleMarker(ts), UNCHANGED launch
    PROVE  TableExact' /\ EventsExact'
<1> USE PidAssumption DEF CollectorInv
<1> DEFINE id == IF shell.next = "arm" THEN shell.id + 1 ELSE shell.id
<1>1. id \in CommandId
  BY AtMarker DEF HandleMarker
<1>2. /\ UNCHANGED overtaken
      /\ \/ on_other_syscall(Root, ts) \/ on_arm_marker(Root, id, ts)
         \/ on_start_marker(Root, id, ts) \/ on_end_marker(Root, id, ts)
  BY DEF HandleMarker
<1> HIDE DEF id
<1>3. UNCHANGED known /\ \A p \in Pid \ {Root} : processes'[p] = processes[p]
  <2>1. CASE on_other_syscall(Root, ts)
    BY <2>1 DEF on_other_syscall, state
  <2> QED BY <1>1, <1>2, <2>1, MarkerEffect DEF StateInv
<1>4. TableExact'
  BY <1>2, <1>3 DEF ExactInv, TableExact, StateInv, TypeOK
<1>5. Root \in known /\ process_for_thread(Root) = Root
  BY SameGroup DEF StateInv, CommandsInv, RootCommandSync
<1>6. emitted' = << >> \/ \E type, at : emitted' = <<MakeEvent(type, Root, id, NoExe, at)>>
  BY <1>2 DEF on_other_syscall, on_arm_marker, on_start_marker, on_end_marker, Emit, EmitNothing
<1>7. ASSUME NEW type, NEW at, emitted' = <<MakeEvent(type, Root, id, NoExe, at)>>
      PROVE  EventsExact'
  <2>1. MakeEvent(type, Root, id, NoExe, at).pid = Root
    BY <1>5 DEF MakeEvent
  <2> QED BY <1>3, <1>5, <1>7, <2>1, ExactEvent
<1> QED BY <1>4, <1>6, <1>7, NoEvents

LEMMA ExactNext ==
    ASSUME CollectorInv, SyncInv, ExactInv, [CNext]_cvars
    PROVE  ExactInv'
<1> USE PidAssumption DEF CollectorInv
<1>1. ASSUME UNCHANGED <<known, processes, emitted, overtaken>>,
             \A p \in known : launch'[p] = launch[p]
      PROVE  TableExact' /\ EventsExact'
  BY <1>1 DEF ExactInv, TableExact, EventsExact
<1>2. CASE Kernel
  <2>1. UNCHANGED <<known, processes, emitted, overtaken>>
    BY <1>2 DEF Kernel, vars, state, loop
  <2>2. \A p \in known : launch'[p] = launch[p]
    BY <1>2, BornKept DEF StateInv, IndexInv, TypeOK
  <2> QED BY <1>1, <2>1, <2>2 DEF ExactInv
<1>3. CASE Interrupt \/ UNCHANGED cvars
  BY <1>1, <1>3 DEF Interrupt, cvars, vars, state, kernel, loop, ExactInv
<1>4. CASE Collector
  <2>0. UNCHANGED launch
    BY <1>4, CollectorKernel
  <2>1. ASSUME NEW t \in Pid, NEW ts \in Time, HandleExited(t, ts)
        PROVE  TableExact' /\ EventsExact'
    BY <2>0, <2>1, ExitExact DEF HandleExited
  <2>2. ASSUME NEW t \in Pid, NEW ts \in Time, HandleExit(t, ts)
        PROVE  TableExact' /\ EventsExact'
    BY <2>0, <2>2, SyscallExact DEF HandleExit
  <2>3. ASSUME NEW ts \in Time, HandleMarker(ts) PROVE TableExact' /\ EventsExact'
    BY <2>0, <2>3, MarkerExact
  <2>4. ASSUME NEW t \in Pid, NEW ts \in Time, HandleCreated(t, ts)
        PROVE  TableExact' /\ EventsExact'
    BY <2>4, CreatedExact
  <2>5. ASSUME NEW t \in Pid, NEW ts \in Time, HandleExec(t, ts)
        PROVE  TableExact' /\ EventsExact'
    <3>1. PICK exe : on_process_exec(t, exe, StartDir, ts)
      BY <2>5 DEF HandleExec
    <3>2. overtaken' = IF HasProcess(t) THEN overtaken ELSE overtaken \cup {t}
      BY <2>5 DEF HandleExec
    <3> QED BY <2>0, <3>1, <3>2, ExecExact
  <2>6. ASSUME NEW ts, HandleBadMarker(ts) PROVE TableExact' /\ EventsExact'
    <3>1. UNCHANGED <<known, processes, overtaken>> /\ emitted' = << >>
      BY <2>6 DEF HandleBadMarker, on_bad_marker, EmitNothing, state
    <3> QED BY <2>0, <3>1, NoEvents DEF ExactInv, TableExact
  <2>7. ASSUME NEW t \in Pid,
               \/ HandleEntry(t) \/ HandleSignal(t) \/ HandleKilled(t) \/ GuardWait(t)
               \/ HandleUndecodable \/ Finish \/ GuardKill \/ GuardEnd
        PROVE  TableExact' /\ EventsExact'
    <3>1. UNCHANGED vars /\ UNCHANGED overtaken
      BY <2>7 DEF HandleEntry, HandleSignal, HandleKilled, GuardWait, HandleUndecodable,
                  Finish, GuardKill, GuardEnd
    <3> QED BY <1>1, <2>0, <3>1 DEF vars, state
  <2> QED
    BY <1>4, <2>1, <2>2, <2>3, <2>4, <2>5, <2>6, <2>7 DEF Collector, ExactInv
<1> QED BY <1>2, <1>3, <1>4 DEF CNext

LEMMA ExactInit == CInit => ExactInv
<1> SUFFICES ASSUME CInit PROVE ExactInv
  OBVIOUS
<1>1. known = {Root}
  BY DEF CInit, Init, add_initial_process
<1>2. \A i \in DOMAIN emitted : emitted[i].pid = Root
  BY DEF CInit, Init, add_initial_process
<1> QED BY <1>1, <1>2 DEF ExactInv, TableExact, EventsExact

(* Attribution is exact except where a creation was overtaken: for any number of
   threads, whether or not they are recognised as such, any order of the reports
   and any kill. *)
THEOREM AttributionIsExact ==
    ASSUME ~MayInterrupt
    PROVE  CSpec => ExactUnlessOvertaken
<1>1. CInit => ExactInv
  BY ExactInit
<1>2. (CollectorInv /\ SyncInv) /\ ExactInv /\ [CNext]_cvars => ExactInv'
  BY ExactNext
<1>3. ExactInv' => \A i \in DOMAIN emitted' :
        emitted'[i].pid \notin {Root} \cup overtaken' =>
          emitted'[i].command_id = launch'[emitted'[i].pid]
  BY DEF ExactInv, EventsExact
<1> QED BY <1>1, <1>2, <1>3, InStep, PTL DEF CSpec, ExactUnlessOvertaken

=============================================================================
