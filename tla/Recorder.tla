------------------------------ MODULE Recorder ------------------------------
(***************************************************************************)
(* record_command (src/main.cpp) with the functions of src/sqlite_store.cpp*)
(* that name, write and publish a capsule.  Several whyrun processes may   *)
(* record into one directory; each may be killed between any two steps.    *)
(*                                                                         *)
(* The collection itself is one step with the outcomes of collect():       *)
(* success, an error result, an exception (see PtraceCollector).  The name *)
(* of the temporary file contains getpid(), so each recorder has its own.  *)
(***************************************************************************)
EXTENDS Integers

CONSTANTS
    Recorder,    \* whyrun processes with one working directory
    NoRecorder,
    MaxSecond,   \* bound: readings of the clock in default_capsule_path
    MaxSuffix,   \* bound: "-1", "-2", ... after the time in a name
    MayCrash,    \* SIGKILL, or Ctrl-C at the terminal, ends a recorder
    MayFail      \* a file cannot be made or written: a full or read-only disk

ASSUME RecorderAssumption ==
    /\ NoRecorder \notin Recorder
    /\ MaxSecond \in Nat /\ MaxSuffix \in Nat
    /\ {MayCrash, MayFail} \subseteq BOOLEAN

VARIABLES
    second,   \* the wall clock
    files,    \* the directory: who wrote a capsule, and whether all of it
    pc,       \* where record_command is
    base,     \* the time in the name it looks for, and the suffix
    temp,     \* its temporary capsule: none, open or committed
    ok        \* result.collector_ok

rvars == <<second, files, pc, base, temp, ok>>

Name == [second : 0 .. MaxSecond, suffix : 0 .. MaxSuffix]
NoFile == [by |-> NoRecorder, whole |-> FALSE]
File == [by : Recorder \cup {NoRecorder}, whole : BOOLEAN]

Present(name) == files[name] # NoFile
Goto(r, from, to) == pc[r] = from /\ pc' = [pc EXCEPT ![r] = to]

RInit ==
    /\ second = 0
    /\ files = [n \in Name |-> NoFile]
    /\ pc = [r \in Recorder |-> "start"]
    /\ base = [r \in Recorder |-> [second |-> 0, suffix |-> 0]]
    /\ temp = [r \in Recorder |-> "none"]
    /\ ok = [r \in Recorder |-> FALSE]

Tick == /\ second < MaxSecond /\ second' = second + 1
        /\ UNCHANGED <<files, pc, base, temp, ok>>

-----------------------------------------------------------------------------
(* Mutant: the time in the name is that of the end of the second. *)
ReadClock_end(r) ==
    /\ Goto(r, "start", "probing")
    /\ base' = [base EXCEPT ![r] = [second |-> second + 1, suffix |-> 0]]
    /\ UNCHANGED <<second, files, temp, ok>>

(* default_capsule_path: read the clock, then probe names until one is free. *)
ReadClock(r) ==
    /\ Goto(r, "start", "probing")
    /\ base' = [base EXCEPT ![r] = [second |-> second, suffix |-> 0]]
    /\ UNCHANGED <<second, files, temp, ok>>

\* Mutant: the suffix is not incremented.
Probe_same(r) ==
    /\ ~Present(base[r])
    /\ Goto(r, "probing", "opening")
    /\ UNCHANGED <<second, files, base, temp, ok>>

Probe(r) ==
    /\ UNCHANGED <<second, files, temp, ok>>
    /\ \/ /\ Present(base[r]) /\ base[r].suffix < MaxSuffix
          /\ pc[r] = "probing"
          /\ base' = [base EXCEPT ![r].suffix = @ + 1]
          /\ UNCHANGED pc
       \/ /\ ~Present(base[r])
          /\ Goto(r, "probing", "opening")
          /\ UNCHANGED base

\* The constructor creates the file and its tables, and begins the transaction
\* that everything recorded goes into; it may fail with the file half made.
CapsuleWriter(r) ==
    /\ \/ Goto(r, "opening", "collecting")
       \/ MayFail /\ Goto(r, "opening", "unwinding")
    /\ temp' = [temp EXCEPT ![r] = "open"]

\* temporary_capsule_path finds a name no other recorder has, for the guard and
\* for the writer.
OpenTemp(r) ==
    /\ CapsuleWriter(r)
    /\ UNCHANGED <<second, files, base, ok>>

\* An exception rolls back; an error result is recorded like a success.
Collect(r) ==
    /\ \/ Goto(r, "collecting", "finishing") /\ \E b \in BOOLEAN : ok' = [ok EXCEPT ![r] = b]
       \/ Goto(r, "collecting", "unwinding") /\ UNCHANGED ok
    /\ UNCHANGED <<second, files, base, temp>>

\* writer.finish: COMMIT
Commit(r) ==
    /\ \/ Goto(r, "finishing", "publishing") /\ temp' = [temp EXCEPT ![r] = "committed"]
       \/ MayFail /\ Goto(r, "finishing", "unwinding") /\ UNCHANGED temp
    /\ UNCHANGED <<second, files, base, ok>>

-----------------------------------------------------------------------------
(* Mutants: an existing file is overwritten; the temporary file is moved   *)
(* away before it is copied.                                               *)
CreateFinal_over(r) ==
    /\ Goto(r, "publishing", "copying")
    /\ files' = [files EXCEPT ![base[r]] = [by |-> r, whole |-> FALSE]]
    /\ UNCHANGED <<second, base, temp, ok>>

CreateFinal_early(r) ==
    /\ ~Present(base[r])
    /\ Goto(r, "publishing", "copying")
    /\ files' = [files EXCEPT ![base[r]] = [by |-> r, whole |-> FALSE]]
    /\ temp' = [temp EXCEPT ![r] = "none"]
    /\ UNCHANGED <<second, base, ok>>

(* publish_capsule: copy_file without overwriting creates the file         *)
(* exclusively and then fills it; the temporary file is removed last.  It  *)
(* throws when a file has the name, and when none can be made there.       *)
CreateFinal(r) ==
    /\ UNCHANGED <<second, base, temp, ok>>
    /\ \/ /\ ~Present(base[r])
          /\ Goto(r, "publishing", "copying")
          /\ files' = [files EXCEPT ![base[r]] = [by |-> r, whole |-> FALSE]]
       \/ /\ Present(base[r]) \/ MayFail
          /\ Goto(r, "publishing", "unwinding")
          /\ UNCHANGED files

CopyContents(r) ==
    /\ \/ /\ Goto(r, "copying", "cleaning")
          /\ files' = [files EXCEPT ![base[r]] = [by |-> r, whole |-> TRUE]]
       \/ /\ MayFail /\ Goto(r, "copying", "unwinding")
          /\ UNCHANGED files
    /\ UNCHANGED <<second, base, temp, ok>>

\* remove(temporary_path), temporary_guard.release() and the exit status.  The
\* error of remove is ignored; that a recorder's own file can be removed from the
\* temporary directory is assumed, here and in Unwind.
RemoveTemp(r) ==
    /\ Goto(r, "cleaning", IF ok[r] THEN "done" ELSE "partial")
    /\ temp' = [temp EXCEPT ![r] = "none"]
    /\ UNCHANGED <<second, files, base, ok>>

\* Mutant: there is no guard.
Unwind_keeps(r) ==
    /\ Goto(r, "unwinding", "failed")
    /\ UNCHANGED <<second, files, base, temp, ok>>

\* ~TemporaryCapsuleGuard removes the temporary file, whatever is in it.
Unwind(r) ==
    /\ Goto(r, "unwinding", "failed")
    /\ temp' = [temp EXCEPT ![r] = "none"]
    /\ UNCHANGED <<second, files, base, ok>>

Ended == {"done", "partial", "failed", "crashed"}

Crash(r) ==
    /\ MayCrash /\ pc[r] \notin Ended \cup {"start"}
    /\ pc' = [pc EXCEPT ![r] = "crashed"]
    /\ UNCHANGED <<second, files, base, temp, ok>>

record_command(r) ==
    \/ ReadClock(r) \/ Probe(r) \/ OpenTemp(r) \/ Collect(r) \/ Commit(r)
    \/ CreateFinal(r) \/ CopyContents(r) \/ RemoveTemp(r) \/ Unwind(r)

RNext == Tick \/ \E r \in Recorder : record_command(r) \/ Crash(r)

\* A recorder that is not killed goes on; that collect() returns is
\* CollectReturns of PtraceCollector.
RSpec == RInit /\ [][RNext]_rvars /\ \A r \in Recorder : WF_rvars(record_command(r))

-----------------------------------------------------------------------------
(* Properties *)

\* The state is well formed.
RTypeOK ==
    /\ second \in 0 .. MaxSecond
    /\ files \in [Name -> File]
    /\ pc \in [Recorder -> Ended \cup {"start", "probing", "opening", "collecting",
                 "finishing", "publishing", "copying", "cleaning", "unwinding"}]
    /\ base \in [Recorder -> Name]
    /\ temp \in [Recorder -> {"none", "open", "committed"}]
    /\ ok \in [Recorder -> BOOLEAN]

\* A recorder that prints the name of its capsule has left there all of its own
\* recording and nothing of another's, although the name was chosen long before
\* the file was made and others may have chosen the same.
CapsuleIsOwn ==
    \A r \in Recorder :
      pc[r] \in {"done", "partial"} => files[base[r]] = [by |-> r, whole |-> TRUE]

\* No recorder touches a capsule that another one wrote, or changes one that is
\* complete (copy_options::none).
NeverOverwrites ==
    [][\A n \in Name : files[n] # NoFile /\ files'[n] # files[n] =>
         files'[n].by = files[n].by /\ ~files[n].whole]_rvars

\* A recorder that ends, well or with an exception, leaves no temporary file;
\* one that is killed may leave it.
NoTemporaryLeft ==
    \A r \in Recorder :
      pc[r] \in {"done", "partial", "failed"} => temp[r] = "none"

\* A crash never destroys a recording that was committed: until a copy is
\* complete the temporary file is there, also after the crash.  Only the guard of
\* a recorder whose publish_capsule threw destroys it; where no write fails, that
\* is one that found a file at the name it had probed.
CrashKeepsTheRecording ==
    [][\A r \in Recorder :
         temp[r] = "committed" /\ temp'[r] # "committed" =>
           \/ files[base[r]] = [by |-> r, whole |-> TRUE]
           \/ pc[r] = "unwinding" /\ (Present(base[r]) \/ MayFail)]_rvars

\* "WhyRun writes a timestamped capsule" (README): a recording that was committed
\* by a recorder nobody killed, on a disk that is not full, ends up in a capsule.
RecordingIsPublished ==
    \A r \in Recorder :
      pc[r] = "unwinding" => temp[r] # "committed"

\* Every recording comes to an end: also the search for a free name, while other
\* recorders publish theirs.
RecorderEnds ==
    \A r \in Recorder : pc[r] = "probing" ~> pc[r] \in Ended

-----------------------------------------------------------------------------
(* The inductive invariant behind the proofs: whose file is at the chosen  *)
(* name, and what the temporary file holds, in every phase.                *)
PublishInv ==
    \A r \in Recorder :
      /\ pc[r] = "copying" => files[base[r]] = [by |-> r, whole |-> FALSE]
      /\ pc[r] \in {"cleaning", "done", "partial"} =>
           files[base[r]] = [by |-> r, whole |-> TRUE]
      /\ pc[r] \in {"start", "probing", "opening", "collecting", "finishing"} =>
           temp[r] # "committed"
      /\ pc[r] \in {"done", "partial", "failed"} => temp[r] = "none"
      /\ pc[r] = "unwinding" /\ temp[r] = "committed" =>
           Present(base[r]) \/ MayFail
=============================================================================
