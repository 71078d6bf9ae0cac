----------------------- MODULE PtraceCollectorProofs -----------------------
(***************************************************************************)
(* Proof that the loop of collect() ends only when every tracee is gone,   *)
(* except one whose creation report was destroyed, for any number of       *)
(* threads, any order of reports and any kill.                             *)
(***************************************************************************)
EXTENDS PtraceCollector, TLAPS

(* The types of the kernel's state, which is all the argument needs. *)
KernelTypeOK ==
    /\ life \in [Pid -> {"unborn", "live", "zombie", "gone"}]
    /\ report \in [Pid -> Report]
    /\ call \in [Pid -> Call]
    /\ group \in [Pid -> Pid]

(* Reports are well formed. *)
LEMMA ReportTypes ==
    /\ NoReport \in Report
    /\ \A kind \in {"stop", "entry", "exit", "exec", "exited"} : Says(kind) \in Report
    /\ \A child \in Pid : [kind |-> "created", child |-> child] \in Report
    /\ NoReport.kind = "none"
    /\ \A kind : Says(kind).kind = kind
    /\ \A kind, child : /\ [kind |-> kind, child |-> child].kind = kind
                        /\ [kind |-> kind, child |-> child].child = child
BY DEF Report, NoReport, Says

(* The death of threads keeps the types. *)
LEMMA DieTypes ==
    ASSUME KernelTypeOK, NEW dying, Die(dying)
    PROVE  /\ life' \in [Pid -> {"unborn", "live", "zombie", "gone"}]
           /\ report' \in [Pid -> Report]
BY ReportTypes DEF Die, KernelTypeOK

(* Every step keeps the types. *)
LEMMA KernelTypes == KernelTypeOK /\ [CNext]_cvars => KernelTypeOK'
<1> SUFFICES ASSUME KernelTypeOK, [CNext]_cvars PROVE KernelTypeOK'
  OBVIOUS
<1>1. ASSUME NEW t \in Pid, NEW c \in {"plain", "marker", "fork", "thread", "exec"},
             Enter(t, c)
      PROVE  KernelTypeOK'
  BY <1>1, ReportTypes DEF Enter, KernelTypeOK, Call
<1>2. ASSUME NEW t \in Pid, Complete(t) \/ FirstStop(t) \/ SignalStop(t)
      PROVE  KernelTypeOK'
  BY <1>2, ReportTypes DEF Complete, FirstStop, SignalStop, KernelTypeOK, Call
<1>3. ASSUME NEW t \in Pid, NEW child \in Pid, Create(t, child) PROVE KernelTypeOK'
  BY <1>3, ReportTypes DEF Create, KernelTypeOK, Call
<1>4. ASSUME NEW dying, Die(dying), UNCHANGED <<call, group>> PROVE KernelTypeOK'
  BY <1>4, DieTypes DEF KernelTypeOK
<1>5. ASSUME NEW t \in Pid, Exec(t) PROVE KernelTypeOK'
  <2>1. group[t] \in Pid
    BY DEF KernelTypeOK
  <2>2. /\ life' = [life EXCEPT ![t] = IF t = group[t] THEN "live" ELSE "gone"]
        /\ call' = [call EXCEPT ![group[t]] = "plain"]
        /\ report' = [report EXCEPT ![group[t]] = Says("exec")]
        /\ group' = group
    BY <1>5 DEF Exec
  <2> QED BY <2>1, <2>2, ReportTypes DEF KernelTypeOK, Call
<1>6. ASSUME NEW t \in Pid, Reap(t) PROVE KernelTypeOK'
  BY <1>6, ReportTypes DEF Reap, KernelTypeOK
<1>7. ASSUME NEW t \in Pid, resume_syscall(t) PROVE KernelTypeOK'
  BY <1>7, ReportTypes DEF resume_syscall, KernelTypeOK, Call
<1>8. ASSUME UNCHANGED kernel PROVE KernelTypeOK'
  BY <1>8 DEF kernel, KernelTypeOK
<1>9. CASE Kernel
  <2>1. PICK t \in Pid :
         \/ \E c \in {"plain", "marker", "fork", "thread", "exec"} : Enter(t, c)
         \/ Complete(t) \/ FirstStop(t) \/ SignalStop(t)
         \/ \E child \in Pid : Create(t, child)
         \/ KillSiblings(t) \/ ExitThread(t) \/ ExitGroup(t) \/ Kill(t)
         \/ Exec(t)
    BY <1>9 DEF Kernel
  <2>2. CASE KillSiblings(t) \/ ExitThread(t) \/ ExitGroup(t) \/ Kill(t)
    BY <1>4, <2>2 DEF KillSiblings, ExitThread, ExitGroup, Kill
  <2> QED BY <1>1, <1>2, <1>3, <1>5, <2>1, <2>2
<1>10. CASE Collector
  <2>1. ASSUME NEW t \in Pid, NEW ts \in Time,
               \/ HandleExited(t, ts) \/ HandleEntry(t) \/ HandleExit(t, ts)
               \/ HandleMarker(ts) \/ HandleBadMarker(ts) \/ HandleUndecodable
               \/ HandleCreated(t, ts) \/ HandleExec(t, ts) \/ HandleSignal(t)
        PROVE  KernelTypeOK'
    BY <1>6, <1>7, <1>8, <2>1, PidAssumption
       DEF HandleExited, HandleEntry, HandleExit, HandleMarker, HandleBadMarker,
           HandleUndecodable, HandleCreated, HandleExec, HandleSignal
  <2>2. ASSUME NEW t \in Pid, HandleKilled(t) \/ GuardWait(t) PROVE KernelTypeOK'
    BY <1>4, <1>6, <2>2 DEF HandleKilled, GuardWait
  <2>3. CASE Finish \/ GuardKill \/ GuardEnd
    BY <1>4, <1>8, <2>3 DEF Finish, GuardKill, GuardEnd
  <2> QED BY <1>10, <2>1, <2>2, <2>3 DEF Collector
<1>11. CASE Interrupt
  BY <1>8, <1>11 DEF Interrupt
<1>12. CASE UNCHANGED cvars
  BY <1>8, <1>12 DEF cvars
<1> QED
  BY <1>9, <1>10, <1>11, <1>12 DEF CNext

-----------------------------------------------------------------------------
(* Tracking. *)

(* A step that leaves loop and kernel alone keeps the invariant. *)
LEMMA TrackedUnchanged ==
    ASSUME TrackedInv, UNCHANGED kernel, UNCHANGED <<pc, live_tids>>
    PROVE  TrackedInv'
BY DEF TrackedInv, kernel, NoTraceeLeft, Exists

(* So does a step after which collect() neither loops nor has succeeded. *)
LEMMA TrackedOutside ==
    ASSUME pc' \notin {"loop", "done"},
           \A t \in Pid : /\ group'[t] # t => life'[group'[t]] # "unborn"
                          /\ life'[t] = "unborn" => report'[t].kind = "none"
    PROVE  TrackedInv'
BY DEF TrackedInv, NoTraceeLeft

(* The first conjunct, which says that no thread exists before its process,
   holds after a death. *)
LEMMA BornDie ==
    ASSUME KernelTypeOK, TrackedInv, NEW dying, Die(dying), UNCHANGED group
    PROVE  \A t \in Pid : /\ group'[t] # t => life'[group'[t]] # "unborn"
                          /\ life'[t] = "unborn" => report'[t].kind = "none"
<1>1. \A t \in Pid : /\ life'[t] = "unborn" <=> life[t] = "unborn"
                     /\ life[t] # "live" => report'[t] = report[t]
  BY DEF Die, KernelTypeOK
<1>2. \A t \in Pid : group[t] \in Pid
  BY DEF KernelTypeOK
<1> QED
  BY <1>1, <1>2 DEF TrackedInv

(* The report of a tracee that the loop counts, or that is in no call, may
   change to anything but a creation. *)
LEMMA TrackedReport ==
    ASSUME KernelTypeOK, TrackedInv, pc = "loop", pc' = "loop",
           NEW t \in Pid, life[t] = "live",
           NEW r, r.kind \notin {"created"},
           report' = [report EXCEPT ![t] = r], report[t].kind # "created",
           UNCHANGED <<life, group, orphans, live_tids>>,
           \A u \in Pid \ {t} : call'[u] = call[u],
           t \in live_tids \/ r.kind = "stop"
    PROVE  TrackedInv'
<1>1. \A u \in Pid : report'[u] = IF u = t THEN r ELSE report[u]
  BY DEF KernelTypeOK
<1> QED
  BY <1>1 DEF TrackedInv, NoTraceeLeft, Exists, KernelTypeOK

(* A running tracee that is in user mode or in a call is counted. *)
LEMMA RunningIsCounted ==
    ASSUME TrackedInv, pc = "loop", NEW t \in Pid, Running(t), call[t] # "new"
    PROVE  t \in live_tids
BY DEF TrackedInv, Running

(* Whoever dies while announcing a child leaves an orphan. *)
LEMMA TrackedDie ==
    ASSUME KernelTypeOK, TrackedInv, pc = "loop", pc' = "loop", NEW dying \in SUBSET Pid,
           Die(dying), UNCHANGED <<call, group>>,
           live_tids \subseteq live_tids'
    PROVE  TrackedInv'
<1>1. /\ \A t \in Pid : life'[t] = IF t \in dying /\ life[t] = "live" THEN "zombie" ELSE life[t]
      /\ \A t \in Pid : report'[t] = IF t \in dying /\ life[t] = "live" THEN Says("exited")
                                     ELSE report[t]
      /\ orphans \subseteq orphans'
      /\ \A t \in dying : life[t] = "live" /\ report[t].kind = "created"
                            => report[t].child \in orphans'
  BY DEF Die, KernelTypeOK
<1>2. \A t \in Pid : Exists(t)' <=> Exists(t)
  BY <1>1 DEF Exists, KernelTypeOK
<1>3. \A t \in Pid : group[t] # t => life'[group[t]] # "unborn"
  BY <1>1 DEF TrackedInv, KernelTypeOK
<1>4. ASSUME NEW t \in Pid, Exists(t)', t \notin live_tids'
      PROVE  \/ t \in orphans'
             \/ \E p \in Pid : /\ life'[p] = "live"
                               /\ report'[p].kind = "created" /\ report'[p].child = t
  <2>1. CASE t \in orphans
    BY <1>1, <2>1
  <2>2. CASE t \notin orphans
    <3>1. PICK p \in Pid : /\ life[p] = "live"
                           /\ report[p].kind = "created" /\ report[p].child = t
      BY <1>2, <1>4, <2>2 DEF TrackedInv
    <3>2. CASE p \in dying
      BY <1>1, <3>1, <3>2
    <3>3. CASE p \notin dying
      BY <1>1, <3>1, <3>3
    <3> QED BY <3>2, <3>3
  <2> QED BY <2>1, <2>2
<1>5. ASSUME NEW t \in Pid, life'[t] = "live", t \notin live_tids'
      PROVE  \/ report'[t].kind = "none" /\ call'[t] = "new"
             \/ report'[t].kind = "stop"
  BY <1>1, <1>5 DEF TrackedInv
<1>6. ASSUME NEW t \in Pid, Exists(t)', group'[t] # t, Exists(group[t])'
      PROVE  group'[t] \in live_tids'
  <2>1. group[t] \in Pid
    BY DEF KernelTypeOK
  <2> QED BY <1>2, <1>6, <2>1 DEF TrackedInv
<1>7. \A t \in Pid : life'[t] = "unborn" => report'[t].kind = "none"
  BY <1>1 DEF TrackedInv
<1> QED
  BY <1>3, <1>4, <1>5, <1>6, <1>7 DEF TrackedInv, NoTraceeLeft

(* The loop resumes a tracee after it counted it, and the child it announced. *)
LEMMA TrackedResume ==
    ASSUME KernelTypeOK, TrackedInv, pc = "loop", pc' = "loop", NEW t \in Pid,
           resume_syscall(t),
           live_tids \cup {t} \subseteq live_tids',
           report[t].kind = "created" => report[t].child \in live_tids'
    PROVE  TrackedInv'
<1>1. /\ UNCHANGED <<life, group, orphans>>
      /\ \A u \in Pid \ {t} : report'[u] = report[u] /\ call'[u] = call[u]
  BY DEF resume_syscall, KernelTypeOK
<1>2. \A u \in Pid : Exists(u)' <=> Exists(u)
  BY <1>1 DEF Exists
<1>3. ASSUME NEW u \in Pid, Exists(u)', u \notin live_tids'
      PROVE  \/ u \in orphans'
             \/ \E p \in Pid : /\ life'[p] = "live"
                               /\ report'[p].kind = "created" /\ report'[p].child = u
  <2>1. CASE u \in orphans
    BY <1>1, <2>1
  <2>2. CASE u \notin orphans
    <3>1. PICK p \in Pid : /\ life[p] = "live"
                           /\ report[p].kind = "created" /\ report[p].child = u
      BY <1>2, <1>3, <2>2 DEF TrackedInv
    <3>2. p # t
      BY <1>3, <3>1
    <3> QED BY <1>1, <3>1, <3>2
  <2> QED BY <2>1, <2>2
<1>4. ASSUME NEW u \in Pid, life'[u] = "live", u \notin live_tids'
      PROVE  \/ report'[u].kind = "none" /\ call'[u] = "new"
             \/ report'[u].kind = "stop"
  <2>1. u # t
    BY <1>4
  <2> QED BY <1>1, <1>4, <2>1 DEF TrackedInv
<1>5. ASSUME NEW u \in Pid, Exists(u)', group'[u] # u, Exists(group[u])'
      PROVE  group'[u] \in live_tids'
  <2>1. group[u] \in Pid
    BY DEF KernelTypeOK
  <2> QED BY <1>1, <1>2, <1>5, <2>1 DEF TrackedInv
<1>6. \A u \in Pid : life'[u] = "unborn" => report'[u].kind = "none"
  <2>1. report'[t] = NoReport
    BY DEF resume_syscall, KernelTypeOK
  <2> QED BY <1>1, <2>1, ReportTypes DEF TrackedInv
<1>7. \A u \in Pid : group'[u] # u => life'[group'[u]] # "unborn"
  BY <1>1 DEF TrackedInv
<1> QED
  BY <1>3, <1>4, <1>5, <1>6, <1>7 DEF TrackedInv, NoTraceeLeft

(* A new child is announced by its creator, which the loop counts. *)
LEMMA TrackedCreate ==
    ASSUME KernelTypeOK, TrackedInv, pc = "loop", pc' = "loop", UNCHANGED live_tids,
           NEW t \in Pid, NEW child \in Pid, Create(t, child)
    PROVE  TrackedInv'
<1>1. /\ life[t] = "live" /\ report[t].kind = "none" /\ t # child
      /\ life[child] = "unborn"
      /\ call[t] \in {"fork", "thread"}
      /\ orphans' = orphans
      /\ \A u \in Pid : life'[u] = IF u = child THEN "live" ELSE life[u]
      /\ \A u \in Pid \ {t, child} : call'[u] = call[u]
      /\ call'[child] = "new"
      /\ \A u \in Pid \ {child} : group'[u] = group[u]
      /\ group'[child] \in {child, group[t]}
      /\ report'[t].kind = "created" /\ report'[t].child = child
      /\ \A u \in Pid \ {t} : report'[u] = report[u]
  BY ReportTypes DEF Create, Running, KernelTypeOK
<1>2. t \in live_tids
  BY <1>1, RunningIsCounted DEF Running
<1>3. group[t] \in Pid /\ life[group[t]] # "unborn"
  BY <1>1 DEF TrackedInv, KernelTypeOK
<1>4. \A u \in Pid : group'[u] # u => group'[u] \in Pid /\ life[group'[u]] # "unborn"
  BY <1>1, <1>3 DEF TrackedInv, KernelTypeOK
<1>5. \A u \in Pid : u # child => (Exists(u)' <=> Exists(u))
  BY <1>1 DEF Exists
<1>6. ASSUME NEW u \in Pid, Exists(u)', u \notin live_tids'
      PROVE  \/ u \in orphans'
             \/ \E p \in Pid : /\ life'[p] = "live"
                               /\ report'[p].kind = "created" /\ report'[p].child = u
  <2>1. CASE u = child
    BY <1>1, <2>1
  <2>2. CASE u # child /\ u \in orphans
    BY <1>1, <2>2
  <2>3. CASE u # child /\ u \notin orphans
    <3>1. PICK p \in Pid : /\ life[p] = "live"
                           /\ report[p].kind = "created" /\ report[p].child = u
      BY <1>5, <1>6, <2>3 DEF TrackedInv
    <3>2. p # t /\ p # child
      BY <1>1, <3>1
    <3> QED BY <1>1, <3>1, <3>2
  <2> QED BY <2>1, <2>2, <2>3
<1>7. report'[child].kind = "none"
  BY <1>1 DEF TrackedInv
<1>8. ASSUME NEW u \in Pid, life'[u] = "live", u \notin live_tids'
      PROVE  \/ report'[u].kind = "none" /\ call'[u] = "new"
             \/ report'[u].kind = "stop"
  <2>1. CASE u = child
    BY <1>1, <1>7, <2>1
  <2>2. CASE u # child
    BY <1>1, <1>2, <1>8, <2>2 DEF TrackedInv
  <2> QED BY <2>1, <2>2
<1>9. ASSUME NEW u \in Pid, Exists(u)', group'[u] # u, Exists(group[u])'
      PROVE  group'[u] \in live_tids'
  <2>1. CASE u = child
    <3>1. group'[u] = group[t] /\ group[t] # child
      BY <1>1, <1>3, <1>9, <2>1
    <3>2. CASE group[t] = t
      BY <1>2, <3>1, <3>2
    <3>3. CASE group[t] # t
      <4>1. Exists(t) /\ Exists(group[t])
        BY <1>1, <1>3, <1>5, <1>9, <3>1 DEF Exists
      <4> QED BY <3>1, <3>3, <4>1 DEF TrackedInv
    <3> QED BY <3>2, <3>3
  <2>2. CASE u # child
    <3>1. group'[u] = group[u] /\ group[u] \in Pid /\ group[u] # child
      BY <1>1, <1>4, <1>9, <2>2
    <3>2. Exists(u) /\ Exists(group[u])
      BY <1>5, <1>9, <2>2, <3>1
    <3> QED BY <1>9, <3>1, <3>2 DEF TrackedInv
  <2> QED BY <2>1, <2>2
<1>10. \A u \in Pid : life'[u] = "unborn" => report'[u].kind = "none"
  BY <1>1 DEF TrackedInv
<1>11. \A u \in Pid : group'[u] # u => life'[group'[u]] # "unborn"
  BY <1>1, <1>4
<1> QED
  BY <1>6, <1>8, <1>9, <1>10, <1>11 DEF TrackedInv, NoTraceeLeft

(* An exec by a thread that is not the leader ends the thread and takes the
   place of the leader, which the loop counts. *)
LEMMA TrackedExec ==
    ASSUME KernelTypeOK, TrackedInv, pc = "loop", pc' = "loop", UNCHANGED live_tids,
           NEW t \in Pid, Exec(t)
    PROVE  TrackedInv'
<1> DEFINE leader == group[t]
<1>1. /\ leader \in Pid /\ life[t] = "live" /\ report[t].kind = "none"
      /\ call[t] = "exec" /\ life[leader] = "live" /\ group' = group
      /\ life' = [life EXCEPT ![t] = IF t = leader THEN "live" ELSE "gone"]
      /\ report' = [report EXCEPT ![leader] = Says("exec")]
      /\ call' = [call EXCEPT ![leader] = "plain"]
      /\ orphans' = IF report[leader].kind = "created"
                    THEN orphans \cup {report[leader].child} ELSE orphans
  BY DEF Exec, Running, KernelTypeOK
<1>2. CASE t = leader
  <2>1. t \in live_tids
    BY <1>1, RunningIsCounted DEF Running
  <2>2. life' = life /\ orphans' = orphans
    BY <1>1, <1>2 DEF KernelTypeOK
  <2>3. \A u \in Pid \ {t} : call'[u] = call[u]
    BY <1>1, <1>2 DEF KernelTypeOK
  <2>4. Says("exec").kind \notin {"created"}
    BY ReportTypes
  <2>5. report' = [report EXCEPT ![t] = Says("exec")] /\ report[t].kind # "created"
    BY <1>1, <1>2
  <2> HIDE DEF leader
  <2> QED BY <1>1, <2>1, <2>2, <2>3, <2>4, <2>5, TrackedReport
<1>3. CASE t # leader
  <2>1. /\ \A u \in Pid : life'[u] = IF u = t THEN "gone" ELSE life[u]
        /\ \A u \in Pid \ {leader} : report'[u] = report[u] /\ call'[u] = call[u]
        /\ orphans \subseteq orphans'
        /\ report[leader].kind = "created" => report[leader].child \in orphans'
    BY <1>1, <1>3 DEF KernelTypeOK
  <2>2. leader \in live_tids
    BY <1>1, <1>3 DEF TrackedInv, Exists
  <2>3. \A u \in Pid : Exists(u)' => u # t /\ Exists(u)
    BY <2>1 DEF Exists
  <2>4. \A u \in Pid : /\ group'[u] # u => life'[group'[u]] # "unborn"
                       /\ life'[u] = "unborn" => report'[u].kind = "none"
    BY <1>1, <2>1 DEF TrackedInv, KernelTypeOK
  <2>5. ASSUME NEW u \in Pid, Exists(u)', u \notin live_tids'
        PROVE  \/ u \in orphans'
               \/ \E p \in Pid : /\ life'[p] = "live"
                                 /\ report'[p].kind = "created" /\ report'[p].child = u
    <3>1. CASE u \in orphans
      BY <2>1, <3>1
    <3>2. CASE u \notin orphans
      <4>1. PICK p \in Pid : /\ life[p] = "live"
                             /\ report[p].kind = "created" /\ report[p].child = u
        BY <2>3, <2>5, <3>2 DEF TrackedInv
      <4>2. p # t
        BY <1>1, <4>1
      <4>3. CASE p = leader
        BY <2>1, <4>1, <4>3
      <4>4. CASE p # leader
        BY <2>1, <4>1, <4>2, <4>4
      <4> QED BY <4>3, <4>4
    <3> QED BY <3>1, <3>2
  <2>6. ASSUME NEW u \in Pid, life'[u] = "live", u \notin live_tids'
        PROVE  \/ report'[u].kind = "none" /\ call'[u] = "new"
               \/ report'[u].kind = "stop"
    <3>1. u # leader /\ life[u] = "live"
      BY <2>1, <2>2, <2>6
    <3> QED BY <2>1, <2>6, <3>1 DEF TrackedInv
  <2>7. ASSUME NEW u \in Pid, Exists(u)', group'[u] # u, Exists(group[u])'
        PROVE  group'[u] \in live_tids'
    <3>1. group[u] \in Pid
      BY DEF KernelTypeOK
    <3> QED BY <1>1, <2>3, <2>7, <3>1 DEF TrackedInv
  <2> HIDE DEF leader
  <2> QED
    BY <2>4, <2>5, <2>6, <2>7 DEF TrackedInv, NoTraceeLeft
<1> QED BY <1>2, <1>3

(* The loop stops counting a tracee when it reaps it. *)
LEMMA TrackedReap ==
    ASSUME KernelTypeOK, TrackedInv, pc = "loop", pc' = "loop", NEW t \in Pid,
           Reap(t), report[t].kind = "exited", live_tids' = live_tids \ {t}
    PROVE  TrackedInv'
<1>1. /\ \A u \in Pid : life'[u] = IF u = t THEN "gone" ELSE life[u]
      /\ \A u \in Pid \ {t} : report'[u] = report[u]
      /\ UNCHANGED <<call, group, orphans>>
  BY DEF Reap, KernelTypeOK
<1>2. \A u \in Pid : Exists(u)' => u # t /\ Exists(u)
  BY <1>1 DEF Exists
<1>3. \A u \in Pid : /\ group'[u] # u => life'[group'[u]] # "unborn"
                     /\ life'[u] = "unborn" => report'[u].kind = "none"
  BY <1>1 DEF TrackedInv, KernelTypeOK
<1>4. ASSUME NEW u \in Pid, Exists(u)', u \notin live_tids'
      PROVE  \/ u \in orphans'
             \/ \E p \in Pid : /\ life'[p] = "live"
                               /\ report'[p].kind = "created" /\ report'[p].child = u
  <2>1. Exists(u) /\ u \notin live_tids
    BY <1>2, <1>4
  <2>2. CASE u \in orphans
    BY <1>1, <2>2
  <2>3. CASE u \notin orphans
    <3>1. PICK p \in Pid : /\ life[p] = "live"
                           /\ report[p].kind = "created" /\ report[p].child = u
      BY <2>1, <2>3 DEF TrackedInv
    <3>2. p # t
      BY <3>1
    <3> QED BY <1>1, <3>1, <3>2
  <2> QED BY <2>2, <2>3
<1>5. ASSUME NEW u \in Pid, life'[u] = "live", u \notin live_tids'
      PROVE  \/ report'[u].kind = "none" /\ call'[u] = "new"
             \/ report'[u].kind = "stop"
  <2>1. u # t /\ life[u] = "live" /\ u \notin live_tids
    BY <1>1, <1>5
  <2> QED BY <1>1, <2>1 DEF TrackedInv
<1>6. ASSUME NEW u \in Pid, Exists(u)', group'[u] # u, Exists(group[u])'
      PROVE  group'[u] \in live_tids'
  <2>1. group[u] \in Pid
    BY DEF KernelTypeOK
  <2>2. Exists(u) /\ Exists(group[u]) /\ group[u] # t /\ group' = group
    BY <1>1, <1>2, <1>6, <2>1
  <2> QED BY <1>6, <2>1, <2>2 DEF TrackedInv
<1> QED
  BY <1>3, <1>4, <1>5, <1>6 DEF TrackedInv, NoTraceeLeft

(* Without counted tracees nobody is left to announce another one. *)
LEMMA TrackedFinish ==
    ASSUME KernelTypeOK, TrackedInv, Finish
    PROVE  TrackedInv'
<1>1. UNCHANGED kernel /\ pc = "loop" /\ pc' \in {"killing", "done"}
  BY DEF Finish
<1>2. ASSUME NEW t \in Pid, Exists(t) PROVE t \in orphans
  <2>1. live_tids = {}
    BY <1>2 DEF Finish
  <2>2. ~ \E p \in Pid : life[p] = "live" /\ report[p].kind = "created"
    BY <1>1, <2>1 DEF TrackedInv
  <2> QED BY <1>1, <1>2, <2>1, <2>2 DEF TrackedInv
<1>3. NoTraceeLeft'
  BY <1>1, <1>2 DEF NoTraceeLeft, Exists, kernel
<1> QED
  BY <1>1, <1>3 DEF TrackedInv, kernel

(* The steps of the kernel and of the traced programs. *)
LEMMA TrackedKernel ==
    ASSUME KernelTypeOK, TrackedInv, Kernel PROVE TrackedInv'
<1>1. PICK t \in Pid :
         \/ \E c \in {"plain", "marker", "fork", "thread", "exec"} : Enter(t, c)
         \/ Complete(t) \/ FirstStop(t) \/ SignalStop(t)
         \/ \E child \in Pid : Create(t, child)
         \/ KillSiblings(t) \/ ExitThread(t) \/ ExitGroup(t) \/ Kill(t)
         \/ Exec(t)
  BY DEF Kernel
<1>2. pc' = pc /\ pc # "done" /\ live_tids' = live_tids
  BY DEF Kernel, loop
<1>3. ASSUME NEW c \in {"plain", "marker", "fork", "thread", "exec"}, Enter(t, c)
      PROVE  TrackedInv'
  <2>1. /\ life[t] = "live" /\ report[t].kind = "none" /\ call[t] = "none"
        /\ report' = [report EXCEPT ![t] = Says("entry")]
        /\ UNCHANGED <<life, group, orphans>>
        /\ \A u \in Pid \ {t} : call'[u] = call[u]
    BY <1>3 DEF Enter, Running, KernelTypeOK
  <2>2. CASE pc = "loop"
    BY <1>2, <2>1, <2>2, ReportTypes, RunningIsCounted, TrackedReport DEF Running
  <2>3. CASE pc # "loop"
    <3>1. \A u \in Pid : /\ group'[u] # u => life'[group'[u]] # "unborn"
                         /\ life'[u] = "unborn" => report'[u].kind = "none"
      BY <2>1 DEF TrackedInv, KernelTypeOK
    <3> QED BY <1>2, <2>3, <3>1, TrackedOutside
  <2> QED BY <2>2, <2>3
<1>4. CASE Complete(t) \/ FirstStop(t) \/ SignalStop(t)
  <2>1. PICK kind \in {"exit", "stop"} :
        /\ life[t] = "live" /\ report[t].kind = "none"
        /\ report' = [report EXCEPT ![t] = Says(kind)]
        /\ kind = "stop" \/ call[t] # "new"
        /\ UNCHANGED <<life, group, orphans>>
        /\ \A u \in Pid \ {t} : call'[u] = call[u]
    BY <1>4 DEF Complete, FirstStop, SignalStop, Running, KernelTypeOK
  <2>2. CASE pc = "loop"
    BY <1>2, <2>1, <2>2, ReportTypes, RunningIsCounted, TrackedReport DEF Running
  <2>3. CASE pc # "loop"
    <3>1. \A u \in Pid : /\ group'[u] # u => life'[group'[u]] # "unborn"
                         /\ life'[u] = "unborn" => report'[u].kind = "none"
      BY <2>1 DEF TrackedInv, KernelTypeOK
    <3> QED BY <1>2, <2>3, <3>1, TrackedOutside
  <2> QED BY <2>2, <2>3
<1>5. ASSUME NEW child \in Pid, Create(t, child) PROVE TrackedInv'
  <2>1. CASE pc = "loop"
    BY <1>2, <1>5, <2>1, TrackedCreate
  <2>2. CASE pc # "loop"
    <3>1. /\ life[t] = "live" /\ life[child] = "unborn"
          /\ \A u \in Pid : life'[u] = IF u = child THEN "live" ELSE life[u]
          /\ \A u \in Pid \ {child} : group'[u] = group[u]
          /\ group'[child] \in {child, group[t]}
          /\ \A u \in Pid \ {t} : report'[u] = report[u]
      BY <1>5 DEF Create, Running, KernelTypeOK
    <3>2. life[group[t]] # "unborn"
      BY <3>1 DEF TrackedInv
    <3>3. \A u \in Pid : group[u] \in Pid /\ (group[u] # u => life[group[u]] # "unborn")
      BY DEF TrackedInv, KernelTypeOK
    <3>4. \A u \in Pid : group'[u] # u => life'[group'[u]] # "unborn"
      BY <3>1, <3>2, <3>3
    <3>5. \A u \in Pid : life'[u] = "unborn" => report'[u].kind = "none"
      BY <3>1 DEF TrackedInv
    <3> QED BY <1>2, <2>2, <3>4, <3>5, TrackedOutside
  <2> QED BY <2>1, <2>2
<1>6. CASE KillSiblings(t) \/ ExitThread(t) \/ ExitGroup(t) \/ Kill(t)
  <2>1. PICK dying \in SUBSET Pid : Die(dying) /\ UNCHANGED <<call, group>>
    BY <1>6 DEF KillSiblings, ExitThread, ExitGroup, Kill, Members
  <2>2. CASE pc = "loop"
    BY <1>2, <2>1, <2>2, TrackedDie
  <2>3. CASE pc # "loop"
    BY <1>2, <2>1, <2>3, BornDie, TrackedOutside
  <2> QED BY <2>2, <2>3
<1>7. CASE Exec(t)
  <2>1. CASE pc = "loop"
    BY <1>2, <1>7, <2>1, TrackedExec
  <2>2. CASE pc # "loop"
    <3>1. /\ group' = group /\ life[group[t]] = "live"
          /\ \A u \in Pid : life'[u] # life[u] => life'[u] = "gone"
          /\ \A u \in Pid \ {group[t]} : report'[u] = report[u]
      BY <1>7 DEF Exec, Running, KernelTypeOK
    <3>2. life'[group[t]] # "unborn"
      BY <3>1 DEF KernelTypeOK
    <3>3. \A u \in Pid : /\ group'[u] # u => life'[group'[u]] # "unborn"
                         /\ life'[u] = "unborn" => report'[u].kind = "none"
      BY <3>1, <3>2 DEF TrackedInv, KernelTypeOK
    <3> QED BY <1>2, <2>2, <3>3, TrackedOutside
  <2> QED BY <2>1, <2>2
<1> QED
  BY <1>1, <1>3, <1>4, <1>5, <1>6, <1>7

(* The steps of the loop and of the guard. *)
LEMMA TrackedCollector ==
    ASSUME KernelTypeOK, TrackedInv, Collector PROVE TrackedInv'
<1>1. ASSUME pc' \notin {"loop", "done"}, UNCHANGED kernel PROVE TrackedInv'
  <2>1. \A t \in Pid : /\ group'[t] # t => life'[group'[t]] # "unborn"
                       /\ life'[t] = "unborn" => report'[t].kind = "none"
    BY <1>1 DEF TrackedInv, kernel
  <2> QED BY <1>1, <2>1, TrackedOutside
<1>2. ASSUME NEW t \in Pid, NEW ts \in Time, HandleExited(t, ts) PROVE TrackedInv'
  BY <1>2, TrackedReap DEF HandleExited, Waited
<1>3. ASSUME NEW t \in Pid, NEW ts \in Time,
             \/ HandleEntry(t) \/ HandleExit(t, ts) \/ HandleExec(t, ts) \/ HandleSignal(t)
      PROVE  TrackedInv'
  <2>1. /\ pc = "loop" /\ pc' = "loop" /\ resume_syscall(t)
        /\ live_tids \cup {t} \subseteq live_tids' /\ report[t].kind # "created"
    BY <1>3 DEF HandleEntry, HandleExit, ToExit, HandleExec, HandleSignal, Stopped, Waited
  <2> QED BY <2>1, TrackedResume
<1>4. ASSUME NEW ts \in Time, HandleMarker(ts) PROVE TrackedInv'
  <2>1. /\ pc = "loop" /\ pc' = "loop" /\ resume_syscall(Root)
        /\ live_tids \cup {Root} \subseteq live_tids' /\ report[Root].kind # "created"
    BY <1>4 DEF HandleMarker, ToExit, Stopped, Waited
  <2> QED BY <2>1, TrackedResume, PidAssumption
<1>5. ASSUME NEW ts \in Time, HandleBadMarker(ts) \/ HandleUndecodable PROVE TrackedInv'
  BY <1>1, <1>5 DEF HandleBadMarker, HandleUndecodable
<1>6. ASSUME NEW t \in Pid, NEW ts \in Time, HandleCreated(t, ts) PROVE TrackedInv'
  <2>1. /\ pc = "loop" /\ pc' = "loop" /\ resume_syscall(t)
        /\ live_tids' = live_tids \cup {t, report[t].child}
    BY <1>6 DEF HandleCreated, Stopped, Waited
  <2> QED BY <2>1, TrackedResume
<1>7. ASSUME NEW t \in Pid, HandleKilled(t) PROVE TrackedInv'
  <2>1. /\ pc = "loop" /\ pc' \in {"loop", "killing"}
        /\ Die(Members(group[t])) /\ UNCHANGED <<call, group>>
        /\ Members(group[t]) \in SUBSET Pid /\ live_tids \subseteq live_tids'
    BY <1>7 DEF HandleKilled, Stopped, Waited, Members
  <2>2. CASE pc' = "loop"
    BY <2>1, <2>2, TrackedDie
  <2>3. CASE pc' = "killing"
    BY <2>1, <2>3, BornDie, TrackedOutside
  <2> QED BY <2>1, <2>2, <2>3
<1>8. ASSUME NEW t \in Pid, GuardWait(t) PROVE TrackedInv'
  <2>1. pc' = "reaping" /\ UNCHANGED group
    BY <1>8 DEF GuardWait, Reap
  <2>2. CASE Reap(t)
    <3>1. \A u \in Pid : /\ life'[u] = IF u = t THEN "gone" ELSE life[u]
                         /\ u # t => report'[u] = report[u]
      BY <2>2 DEF Reap, KernelTypeOK
    <3>2. \A u \in Pid : /\ group'[u] # u => life'[group'[u]] # "unborn"
                         /\ life'[u] = "unborn" => report'[u].kind = "none"
      BY <2>1, <3>1 DEF TrackedInv, KernelTypeOK
    <3> QED BY <2>1, <3>2, TrackedOutside
  <2>3. CASE Die(Members(group[t]))
    BY <2>1, <2>3, BornDie, TrackedOutside
  <2> QED BY <1>8, <2>2, <2>3 DEF GuardWait
<1>9. CASE GuardKill
  BY <1>9, BornDie, TrackedOutside DEF GuardKill
<1>10. CASE GuardEnd
  BY <1>1, <1>10 DEF GuardEnd
<1>11. CASE Finish
  BY <1>11, TrackedFinish
<1> QED
  BY <1>2, <1>3, <1>4, <1>5, <1>6, <1>7, <1>8, <1>9, <1>10, <1>11 DEF Collector

-----------------------------------------------------------------------------
(* collect() returns success only when every tracee is gone, except one whose
   creation report was destroyed together with its creator: for any number of
   threads, any order in which waitpid takes their reports, any kill.  This is
   why publish_capsule runs after the traced programs. *)
THEOREM TraceesAreGone == CSpec => []NoTraceeLeft
<1>1. CInit => KernelTypeOK /\ TrackedInv
  <2> SUFFICES ASSUME CInit PROVE KernelTypeOK /\ TrackedInv
    OBVIOUS
  <2>1. KernelTypeOK
    BY ReportTypes, PidAssumption DEF CInit, KernelTypeOK, Call
  <2>2. TrackedInv
    BY ReportTypes, PidAssumption DEF CInit, TrackedInv, NoTraceeLeft, Exists
  <2> QED BY <2>1, <2>2
<1>2. KernelTypeOK /\ TrackedInv /\ [CNext]_cvars => (KernelTypeOK /\ TrackedInv)'
  <2> SUFFICES ASSUME KernelTypeOK, TrackedInv, [CNext]_cvars
               PROVE  (KernelTypeOK /\ TrackedInv)'
    OBVIOUS
  <2>1. KernelTypeOK'
    BY KernelTypes
  <2>2. TrackedInv'
    <3>1. CASE Kernel
      BY <3>1, TrackedKernel
    <3>2. CASE Collector
      BY <3>2, TrackedCollector
    <3>3. CASE Interrupt \/ UNCHANGED cvars
      BY <3>3, TrackedUnchanged DEF Interrupt, cvars, loop
    <3> QED BY <3>1, <3>2, <3>3 DEF CNext
  <2> QED BY <2>1, <2>2
<1>3. TrackedInv => NoTraceeLeft
  BY DEF TrackedInv
<1> QED
  BY <1>1, <1>2, <1>3, PTL DEF CSpec
=============================================================================
