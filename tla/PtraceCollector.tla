-------------------------- MODULE PtraceCollector --------------------------
(***************************************************************************)
(* PtraceCollector::collect (src/ptrace_collector.cpp): the loop that      *)
(* waits for any tracee, hands its report to ExecutionState and resumes    *)
(* it.  One iteration of the loop is one action.                           *)
(*                                                                         *)
(* The kernel and the traced programs are external.  They are modelled     *)
(* from the requests the loop makes of them: tracees run concurrently, a   *)
(* tracee stops to make a report, the reports wait, and waitpid(-1) takes  *)
(* any of them.  A tracee may be killed at any moment, which also destroys *)
(* the report it was waiting with.                                         *)
(***************************************************************************)
EXTENDS ExecutionState

CONSTANTS
    MayKill,      \* SIGKILL may hit any process at any moment
    MayThread,    \* programs other than the shell may have threads
    Clone3,       \* threads are made with clone3: args[0] is a pointer
    MayInterrupt, \* Ctrl-C may hit the hooks of the shell
    HistoryMayBeEmpty  \* no line in it yet, or history -c

ASSUME CollectorAssumption ==
    {MayKill, MayThread, Clone3, MayInterrupt, HistoryMayBeEmpty}
      \subseteq BOOLEAN

VARIABLES
    \* the kernel and the programs
    life,         \* of each thread: unborn, live, zombie or gone
    report,       \* the report a stopped or dead thread waits with
    call,         \* the system call a thread is in
    group,        \* the thread's process
    shell,        \* the hooks of the interactive shell: next marker, its id
    launch,       \* the command that launched the thread
    orphans,      \* children whose creation report was destroyed
    dethreaded,   \* processes whose exec was made by another thread
    \* collect()
    pc,           \* loop, done; killing, reaping, failed: ~TraceeGuard
    live_tids, configured_tids, root_status_seen,
    threads,      \* threads[t].syscall_number while in_syscall, else "none"
    partial,      \* CommandProtocol holds the beginning of a marker
    overtaken     \* history: processes of which an exec, or a child they had
                  \* created, was reported before their own creation; that
                  \* child; and all that an overtaken process created

kernel == <<life, report, call, group, launch, orphans, dethreaded>>
loop == <<pc, live_tids, configured_tids, root_status_seen, threads, partial,
          overtaken>>
cvars == <<vars, kernel, shell, loop>>

Call == {"none", "new", "plain", "marker", "fork", "thread", "exec"}
Report == [kind : {"none", "stop", "entry", "exit", "created", "exec", "exited"},
           child : Pid \cup {NoPid}]
NoReport == [kind |-> "none", child |-> NoPid]
Says(kind) == [kind |-> kind, child |-> NoPid]
Exists(t) == life[t] \in {"live", "zombie"}
Members(p) == {t \in Pid : Exists(t) /\ group[t] = p}

CInit ==
    /\ Init
    /\ life = [t \in Pid |-> IF t = Root THEN "live" ELSE "unborn"]
    /\ report = [t \in Pid |-> NoReport]
    /\ call = [t \in Pid |-> "none"]
    /\ group = [t \in Pid |-> t]
    /\ shell = [next |-> "arm", id |-> 0]
    /\ launch = [t \in Pid |-> NoCommand]
    /\ orphans = {}
    /\ dethreaded = {}
    /\ pc = "loop"
    /\ live_tids = {Root}
    /\ configured_tids = {Root}
    /\ threads = [t \in Pid |-> "none"]
    /\ root_status_seen = FALSE
    /\ partial = FALSE
    /\ overtaken = {}

-----------------------------------------------------------------------------
(* The kernel and the traced programs. *)

Running(t) == life[t] = "live" /\ report[t].kind = "none"

\* The command whose process the shell would fork now.
ShellCommand == IF ~session THEN 1
                ELSE IF shell.next = "arm" THEN NoCommand ELSE shell.id

\* Threads die: their reports are replaced by the report of their death.
Die(dying) ==
    /\ life' = [t \in Pid |-> IF t \in dying /\ life[t] = "live" THEN "zombie" ELSE life[t]]
    /\ report' = [t \in Pid |-> IF t \in dying /\ life[t] = "live" THEN Says("exited")
                                ELSE report[t]]
    /\ orphans' = orphans \cup {report[t].child : t \in
                     {u \in dying : life[u] = "live" /\ report[u].kind = "created"}}

Enter(t, c) ==
    /\ Running(t) /\ call[t] = "none"
    /\ c = "marker" => /\ t = Root /\ session
                       /\ shell.next = "arm" => shell.id < MaxCommand
    /\ c = "thread" => MayThread /\ (group[t] = Root => ~session)
    /\ call' = [call EXCEPT ![t] = c]
    /\ report' = [report EXCEPT ![t] = Says("entry")]
    /\ UNCHANGED <<life, group, launch, orphans, dethreaded>>

Complete(t) ==
    /\ Running(t) /\ call[t] \in {"plain", "marker"}
    /\ report' = [report EXCEPT ![t] = Says("exit")]
    /\ UNCHANGED <<life, call, group, launch, orphans, dethreaded>>

\* fork or clone: the child is traced too, and stops before its first step.
Create(t, child) ==
    /\ Running(t) /\ call[t] \in {"fork", "thread"}
    /\ life[child] = "unborn"
    /\ life' = [life EXCEPT ![child] = "live"]
    /\ call' = [call EXCEPT ![t] = "plain", ![child] = "new"]
    /\ group' = [group EXCEPT ![child] = IF call[t] = "thread" THEN group[t] ELSE child]
    /\ launch' = [launch EXCEPT ![child] = IF group[t] = Root THEN ShellCommand
                                           ELSE launch[group[t]]]
    /\ report' = [report EXCEPT ![t] = [kind |-> "created", child |-> child]]
    /\ UNCHANGED <<orphans, dethreaded>>

FirstStop(t) ==
    /\ Running(t) /\ call[t] = "new"
    /\ call' = [call EXCEPT ![t] = "none"]
    /\ report' = [report EXCEPT ![t] = Says("stop")]
    /\ UNCHANGED <<life, group, launch, orphans, dethreaded>>

\* A signal, or the stop of PTRACE_EVENT_EXIT.
SignalStop(t) ==
    /\ Running(t) /\ call[t] = "none"
    /\ report' = [report EXCEPT ![t] = Says("stop")]
    /\ UNCHANGED <<life, call, group, launch, orphans, dethreaded>>

\* exec waits until the other threads of the process are gone; an exec by a
\* thread that is not the leader goes on under the id of the leader.
KillSiblings(t) ==
    /\ Running(t) /\ call[t] = "exec"
    /\ \E u \in Members(group[t]) \ {t, group[t]} : life[u] = "live"
    /\ Die(Members(group[t]) \ {t, group[t]})
    /\ UNCHANGED <<call, group, launch, dethreaded>>

Exec(t) ==
    LET leader == group[t]
    IN  /\ Running(t) /\ call[t] = "exec"
        /\ Members(leader) \subseteq {t, leader}
        /\ life[leader] = "live"
        /\ life' = [life EXCEPT ![t] = IF t = leader THEN "live" ELSE "gone"]
        /\ call' = [call EXCEPT ![leader] = "plain"]
        /\ report' = [report EXCEPT ![leader] = Says("exec")]
        /\ orphans' = IF report[leader].kind = "created"
                      THEN orphans \cup {report[leader].child} ELSE orphans
        /\ dethreaded' = IF t = leader THEN dethreaded ELSE dethreaded \cup {leader}
        /\ UNCHANGED <<group, launch>>

ExitThread(t) ==
    /\ Running(t) /\ call[t] = "none" /\ t # group[t]
    /\ Die({t})
    /\ UNCHANGED <<call, group, launch, dethreaded>>

\* A program exits; the shell does not inside a hook that is writing a marker.
ExitGroup(t) ==
    /\ Running(t) /\ call[t] = "none"
    /\ group[t] = Root /\ session => shell.next # "start"
    /\ Die(Members(group[t]))
    /\ UNCHANGED <<call, group, launch, dethreaded>>

Kill(p) ==
    /\ MayKill
    /\ \E t \in Members(p) : life[t] = "live"
    /\ Die(Members(p))
    /\ UNCHANGED <<call, group, launch, dethreaded>>

\* Ctrl-C aborts a hook of the shell.  __whyrun_prompt, hit between its End
\* marker and the reset of __whyrun_active_command, writes End again; and
\* __whyrun_start, hit after it cleared __whyrun_at_prompt, never writes Start.
Interrupt ==
    /\ MayInterrupt /\ session /\ pc = "loop"
    /\ Running(Root) /\ call[Root] = "none"
    /\ \/ shell.next = "arm" /\ shell.id > 0
       \/ shell.next = "text"
    /\ shell' = [shell EXCEPT !.next = "end"]
    /\ UNCHANGED <<vars, kernel, loop>>

\* The model ends when collect() returns.
Kernel ==
    /\ pc \notin {"done", "failed"}
    /\ \E t \in Pid :
         \/ \E c \in {"plain", "marker", "fork", "thread", "exec"} : Enter(t, c)
         \/ Complete(t)
         \/ \E child \in Pid : Create(t, child)
         \/ FirstStop(t)
         \/ SignalStop(t)
         \/ KillSiblings(t)
         \/ Exec(t)
         \/ ExitThread(t)
         \/ ExitGroup(t)
         \/ Kill(t)
    /\ UNCHANGED <<vars, shell, loop>>

-----------------------------------------------------------------------------
(* The loop of collect(). *)

\* The death of a leader is reported after those of its other threads.
Reapable(t) == report[t].kind = "exited" /\ (t = group[t] => Members(t) = {t})

\* waitpid(-1, &status, __WALL) returns t, which is stopped or dead.
Waited(t) ==
    /\ pc = "loop"
    /\ report[t].kind # "none"
    /\ report[t].kind = "exited" => Reapable(t)

Reap(t) ==
    /\ life' = [life EXCEPT ![t] = "gone"]
    /\ report' = [report EXCEPT ![t] = NoReport]
    /\ UNCHANGED <<call, group, launch, orphans, dethreaded>>

HandleExited(t, ts) ==
    /\ Waited(t) /\ report[t].kind = "exited"
    /\ on_process_exit(t, ts)
    /\ Reap(t)
    /\ live_tids' = live_tids \ {t}
    /\ configured_tids' = configured_tids \ {t}
    /\ threads' = [threads EXCEPT ![t] = "none"]
    /\ root_status_seen' = (root_status_seen \/ t = Root)
    /\ UNCHANGED <<pc, partial, overtaken, shell>>

\* A stopped tracee becomes live and configured, and is resumed at the end.
Stopped(t, kinds) ==
    /\ Waited(t) /\ report[t].kind \in kinds
    /\ configured_tids' = configured_tids \cup {t}
    /\ UNCHANGED root_status_seen

resume_syscall(t) ==
    /\ report' = [report EXCEPT ![t] = NoReport]
    /\ call' = IF report[t].kind = "exit" THEN [call EXCEPT ![t] = "none"] ELSE call
    /\ UNCHANGED <<life, group, launch, orphans, dethreaded>>

\* Entry and exit look alike: the loop tells them apart by its own flag.
HandleEntry(t) ==
    /\ Stopped(t, {"entry", "exit"}) /\ threads[t] = "none"
    /\ threads' = [threads EXCEPT ![t] = call[t]]
    /\ live_tids' = live_tids \cup {t}
    /\ resume_syscall(t)
    /\ UNCHANGED <<vars, pc, partial, overtaken, shell>>

\* Mutant: in_syscall stays set.
ToExit_keeps(t) ==
    /\ Stopped(t, {"entry", "exit"}) /\ threads[t] # "none"
    /\ live_tids' = live_tids \cup {t}
    /\ UNCHANGED threads

ToExit(t) ==
    /\ Stopped(t, {"entry", "exit"}) /\ threads[t] # "none"
    /\ threads' = [threads EXCEPT ![t] = "none"]
    /\ live_tids' = live_tids \cup {t}

IsMarker(t) == threads[t] = "marker" /\ t = Root

HandleExit(t, ts) ==
    /\ ToExit(t) /\ ~IsMarker(t)
    /\ \/ on_dropped_syscall(t, ts)
       \/ threads[t] # "plain" /\ on_other_syscall(t, ts)
       \/ threads[t] = "plain" /\ \E r \in Rel :
            on_open(t, TRUE, AT_FDCWD, r, FALSE, AT_FDCWD, ts)
    /\ resume_syscall(t)
    /\ UNCHANGED <<pc, partial, overtaken, shell>>

\* Mutants: the end of a command counts too; it resets the counter.
NextMarker_twice == CASE shell.next = "arm" -> [next |-> "text", id |-> shell.id + 1]
                      [] shell.next = "text" -> [shell EXCEPT !.next = "start"]
                      [] shell.next = "start" -> [shell EXCEPT !.next = "end"]
                      [] shell.next = "end" -> [next |-> "arm", id |-> shell.id + 1]
NextMarker_reset == CASE shell.next = "arm" -> [next |-> "text", id |-> shell.id + 1]
                      [] shell.next = "text" -> [shell EXCEPT !.next = "start"]
                      [] shell.next = "start" -> [shell EXCEPT !.next = "end"]
                      [] shell.next = "end" -> [next |-> "arm", id |-> 0]

\* What the shell writes next.  A Start marker takes more than one write.
NextMarker == CASE shell.next = "arm" -> [next |-> "text", id |-> shell.id + 1]
                [] shell.next = "text" -> [shell EXCEPT !.next = "start"]
                [] shell.next = "start" -> [shell EXCEPT !.next = "end"]
                [] shell.next = "end" -> [shell EXCEPT !.next = "arm"]

HandleMarker(ts) ==
    /\ ToExit(Root) /\ IsMarker(Root)
    /\ \/ shell.next = "arm" /\ on_arm_marker(Root, shell.id + 1, ts)
       \/ shell.next = "text" /\ on_other_syscall(Root, ts)
       \/ shell.next = "start" /\ on_start_marker(Root, shell.id, ts)
       \/ shell.next = "end" /\ on_end_marker(Root, shell.id, ts)
    /\ shell' = NextMarker
    /\ partial' = (shell.next = "text")
    /\ resume_syscall(Root)
    /\ UNCHANGED <<pc, overtaken>>

\* The marker does not fit: the exception leaves the loop.
HandleBadMarker(ts) ==
    /\ ToExit(Root) /\ IsMarker(Root)
    /\ on_bad_marker(Root, shell.next, IF shell.next = "arm" THEN shell.id + 1
                                       ELSE shell.id, ts)
    /\ pc' = "killing"
    /\ UNCHANGED <<kernel, shell, partial, overtaken>>

\* decode_record throws: `history 1' printed nothing.  An empty line at the first
\* prompt is enough, the DEBUG trap runs before the next __whyrun_prompt.
HandleUndecodable ==
    /\ HistoryMayBeEmpty
    /\ ToExit(Root) /\ IsMarker(Root) /\ shell.next = "start"
    /\ pc' = "killing"
    /\ UNCHANGED <<vars, kernel, shell, partial, overtaken>>

\* Mutants: the child is not counted; CLONE_THREAD is ignored.
HandleCreated_uncounted(t, ts) ==
    LET child == report[t].child
    IN  /\ Stopped(t, {"created"})
        /\ on_process_created(t, child, group[child] # child, ts)
        /\ live_tids' = live_tids \cup {t}
        /\ resume_syscall(t)
        /\ UNCHANGED <<pc, threads, partial, overtaken, shell>>

HandleCreated_flags(t, ts) ==
    /\ Stopped(t, {"created"})
    /\ on_process_created(t, report[t].child, FALSE, ts)
    /\ live_tids' = live_tids \cup {t, report[t].child}
    /\ resume_syscall(t)
    /\ UNCHANGED <<pc, threads, partial, overtaken, shell>>

\* clone_flags is args[0] of the last stop that was counted as an entry: the
\* flags of clone, a pointer for clone3, and the argument of another call if that
\* stop was not the entry of this clone.  A fork or vfork event, which clone makes
\* for a child that sends SIGCHLD, is never taken for a thread.
TakenForThread(t) ==
    LET isThread == group[report[t].child] # report[t].child
    IN  IF isThread /\ (Clone3 \/ threads[t] # "thread") THEN BOOLEAN ELSE {isThread}

HandleCreated(t, ts) ==
    LET child == report[t].child
    IN  /\ Stopped(t, {"created"})
        /\ \E is_thread \in TakenForThread(t) :
             /\ on_process_created(t, child, is_thread, ts)
             /\ overtaken' = IF ~HasProcess(t) THEN overtaken \cup {child}
                             ELSE IF is_thread THEN overtaken
                             ELSE IF process_for_thread(t) \in overtaken
                                  THEN overtaken \cup {child} ELSE overtaken \ {child}
        /\ live_tids' = live_tids \cup {t, child}
        /\ resume_syscall(t)
        /\ UNCHANGED <<pc, threads, partial, shell>>

HandleExec(t, ts) ==
    /\ Stopped(t, {"exec"})
    /\ \E exe \in Exe \cup {NoExe} : on_process_exec(t, exe, StartDir, ts)
    /\ live_tids' = live_tids \cup {t}
    /\ resume_syscall(t)
    /\ overtaken' = IF HasProcess(t) THEN overtaken ELSE overtaken \cup {t}
    /\ UNCHANGED <<pc, threads, partial, shell>>

HandleSignal(t) ==
    /\ Stopped(t, {"stop"})
    /\ live_tids' = live_tids \cup {t}
    /\ resume_syscall(t)
    /\ UNCHANGED <<vars, pc, threads, partial, overtaken, shell>>

\* SIGKILL hits the tracee after waitpid reported its stop: the next ptrace
\* request fails with ESRCH, which set_options and PTRACE_GETEVENTMSG do not
\* tolerate, nor does the loop that the memory of a marker cannot be read.  An
\* exec is still reported: HandleExec, then the kill.
HandleKilled(t) ==
    /\ MayKill
    /\ report[t].kind = "exec" => t \notin configured_tids
    /\ Stopped(t, {"stop", "entry", "exit", "exec", "created"})
    /\ live_tids' = live_tids \cup {t}
    /\ Die(Members(group[t]))
    /\ pc' \in IF t \notin configured_tids \/ report[t].kind = "created" THEN {"killing"}
               ELSE IF report[t].kind \in {"entry", "exit"} /\ IsMarker(t)
                    THEN {"loop", "killing"} ELSE {"loop"}
    /\ UNCHANGED <<vars, call, group, launch, dethreaded, threads, partial,
                   overtaken, shell>>

\* Mutant: ECHILD does not leave the loop.
Finish_empty ==
    /\ pc = "loop"
    /\ live_tids = {}
    /\ pc' = IF partial THEN "killing" ELSE "done"
    /\ UNCHANGED <<vars, kernel, shell, live_tids, configured_tids, root_status_seen,
                   threads, partial, overtaken>>

\* live_tids is empty, or waitpid fails with ECHILD.  finish() throws when the
\* shell died in the middle of a marker.
Finish ==
    /\ pc = "loop"
    /\ live_tids = {} \/ \A t \in Pid : ~Exists(t)
    /\ pc' = IF partial THEN "killing" ELSE "done"
    /\ UNCHANGED <<vars, kernel, shell, live_tids, configured_tids, root_status_seen,
                   threads, partial, overtaken>>

-----------------------------------------------------------------------------
(* ~TraceeGuard on the error paths: kill every tracee, then wait for them. *)

GuardKill ==
    /\ pc = "killing"
    /\ Die(UNION {Members(group[t]) : t \in live_tids})
    /\ pc' = "reaping"
    /\ UNCHANGED <<vars, call, group, launch, dethreaded, shell, live_tids,
                   configured_tids, root_status_seen, threads, partial, overtaken>>

GuardWait(t) ==
    /\ pc = "reaping" /\ live_tids # {}
    /\ \/ /\ Reapable(t)
          /\ Reap(t)
          /\ live_tids' = live_tids \ {t}
       \/ /\ report[t].kind \notin {"none", "exited"}
          /\ Die(Members(group[t]))
          /\ UNCHANGED <<call, group, launch, dethreaded, live_tids>>
    /\ UNCHANGED <<vars, shell, pc, configured_tids, root_status_seen, threads,
                   partial, overtaken>>

GuardEnd ==
    /\ pc = "reaping"
    /\ live_tids = {} \/ \A t \in Pid : ~Exists(t)
    /\ pc' = "failed"
    /\ UNCHANGED <<vars, kernel, shell, live_tids, configured_tids, root_status_seen,
                   threads, partial, overtaken>>

Collector ==
    \/ \E t \in Pid, ts \in Time :
         \/ HandleExited(t, ts)
         \/ HandleEntry(t)
         \/ HandleExit(t, ts)
         \/ HandleMarker(ts)
         \/ HandleBadMarker(ts)
         \/ HandleUndecodable
         \/ HandleCreated(t, ts)
         \/ HandleExec(t, ts)
         \/ HandleSignal(t)
         \/ HandleKilled(t)
         \/ GuardWait(t)
    \/ Finish
    \/ GuardKill
    \/ GuardEnd

CNext == Kernel \/ Interrupt \/ Collector

\* The loop runs whenever waitpid can return, and a new thread that nobody
\* stops reaches its first stop.
CSpec == /\ CInit /\ [][CNext]_cvars
         /\ WF_cvars(Collector)
         /\ \A t \in Pid : WF_cvars(FirstStop(t) /\ UNCHANGED <<vars, shell, loop>>)

-----------------------------------------------------------------------------
(* Properties *)

\* The state of the loop and of the modelled kernel is well formed.
CTypeOK ==
    /\ life \in [Pid -> {"unborn", "live", "zombie", "gone"}]
    /\ report \in [Pid -> Report]
    /\ call \in [Pid -> Call]
    /\ group \in [Pid -> Pid]
    /\ shell \in [next : {"arm", "text", "start", "end"}, id : 0 .. MaxCommand]
    /\ launch \in [Pid -> CommandId \cup {NoCommand}]
    /\ orphans \in SUBSET Pid
    /\ dethreaded \in SUBSET Pid
    /\ pc \in {"loop", "done", "killing", "reaping", "failed"}
    /\ live_tids \in SUBSET Pid
    /\ configured_tids \in SUBSET Pid
    /\ threads \in [Pid -> Call \ {"new"}]
    /\ root_status_seen \in BOOLEAN
    /\ partial \in BOOLEAN
    /\ overtaken \in SUBSET Pid

\* The loop only makes calls that ExecutionState is specified for; the ids of
\* the shell's markers are fresh.  What is proved of Spec holds of the loop.
CallsAreSpecified == Spec

\* The loop tells the entry of a system call from its exit with a flag of its
\* own: while it runs, the flag agrees with the kernel in every order of reports,
\* unless a thread other than the leader made an exec.
PhaseAgrees ==
    pc = "loop" => \A t \in Pid \ dethreaded :
      /\ report[t].kind = "entry" => threads[t] = "none"
      /\ report[t].kind = "exit" => threads[t] # "none"

\* Whatever overtakes what and whoever is killed, a process is never counted
\* under another command than the one that launched it.
RightCommandOrNone ==
    \A p \in known \ {Root} : processes[p].command_id \in {NoCommand, launch[p]}

\* The hooks of the shell never make on_command_marker throw, in any order of the
\* reports, as long as Ctrl-C does not abort a hook halfway (MayInterrupt).
NoThrow == ~thrown

\* The loop ends only when every tracee is gone, except one whose creation
\* report died with its creator.
NoTraceeLeft ==
    pc = "done" => \A t \in Pid : Exists(t) => t \in orphans

\* "Background processes remain attributed to the command that launched them."
\* (README): every event of a process the shell launched, directly or not, names
\* the command that launched it.
ExactAttribution ==
    \A i \in DOMAIN emitted :
      emitted[i].pid # Root => emitted[i].command_id = launch[emitted[i].pid]

\* Attribution fails only where a creation was overtaken: if the loop took the
\* creation of a process before the execs and the creations that the process made,
\* and did so for every process it descends from, all its events name the command
\* that launched it, whatever the shell does meanwhile.
ExactUnlessOvertaken ==
    [][\A i \in DOMAIN emitted' :
         emitted'[i].pid \notin {Root} \cup overtaken' =>
           emitted'[i].command_id = launch'[emitted'[i].pid]]_cvars

\* "Run commands normally, then use exit or Ctrl-D to finish and publish the
\* capsule" (README): nothing a user does at the prompt ends the recording with an
\* exception, which would kill the session and drop what was recorded.
SessionIsRecorded ==
    pc \notin {"killing", "reaping", "failed"}

\* "A summary includes the command and exit status, process count, ..." (README):
\* only processes have an entry in the process table, threads share one.
OnlyProcessesHaveEntries ==
    \A t \in known : group[t] = t

\* Threads share the entry of their process, in every order of reports, until a
\* thread other than the leader makes an exec: the flags of a later clone may then
\* be those of another call, and only the threads of that process have entries.
ThreadsShareAnEntry ==
    \A t \in known : group[t] = t \/ group[t] \in dethreaded

\* The loop returns once there is no tracee left, although live_tids may name
\* threads whose death was reported before their creation; and the guard ends.
CollectReturns ==
    /\ (\A t \in Pid : ~Exists(t)) ~> pc \in {"done", "failed"}
    /\ pc = "killing" ~> pc = "failed"

-----------------------------------------------------------------------------
(* The inductive invariant behind NoTraceeLeft: while the loop runs, a     *)
(* tracee it does not count is one it has never resumed, and its creation  *)
(* is about to be reported by a live tracee or can no longer be.           *)
TrackedInv ==
    /\ \A t \in Pid : /\ group[t] # t => life[group[t]] # "unborn"
                      /\ life[t] = "unborn" => report[t].kind = "none"
    /\ pc = "loop" =>
         \A t \in Pid :
           /\ Exists(t) /\ t \notin live_tids =>
                \/ t \in orphans
                \/ \E p \in Pid : /\ life[p] = "live"
                                  /\ report[p].kind = "created" /\ report[p].child = t
           /\ life[t] = "live" /\ t \notin live_tids =>
                \/ report[t].kind = "none" /\ call[t] = "new"
                \/ report[t].kind = "stop"
           /\ Exists(t) /\ group[t] # t /\ Exists(group[t]) => group[t] \in live_tids
    /\ NoTraceeLeft
=============================================================================
