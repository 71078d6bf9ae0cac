--------------------------- MODULE RecorderProofs ---------------------------
(***************************************************************************)
(* Proofs about Recorder for any number of recorders, names and seconds.   *)
(***************************************************************************)
EXTENDS Recorder, TLAPS

(* A file that a recorder made is a file, not the absence of one, and not a
   file that another recorder made. *)
LEMMA FileTypes ==
    ASSUME NEW r \in Recorder
    PROVE  /\ [by |-> r, whole |-> TRUE] \in File /\ [by |-> r, whole |-> FALSE] \in File
           /\ [by |-> r, whole |-> TRUE] # NoFile /\ [by |-> r, whole |-> FALSE] # NoFile
           /\ \A f : /\ f = [by |-> r, whole |-> TRUE] => f.by = r
                     /\ f = [by |-> r, whole |-> FALSE] => f.by = r
<1>1. [by |-> r, whole |-> TRUE] \in File /\ [by |-> r, whole |-> FALSE] \in File
  BY Zenon DEF File
<1>2. [by |-> r, whole |-> TRUE].by = r /\ [by |-> r, whole |-> FALSE].by = r
  OBVIOUS
<1>3. NoFile.by \notin Recorder
  BY RecorderAssumption DEF NoFile
<1> QED BY <1>1, <1>2, <1>3

(* So is the absence of one. *)
LEMMA NoFileType == NoFile \in File
BY DEF NoFile, File

(* record_command keeps every variable within its type. *)
LEMMA TypesKept == RTypeOK /\ [RNext]_rvars => RTypeOK'
<1> SUFFICES ASSUME RTypeOK, [RNext]_rvars PROVE RTypeOK'
  OBVIOUS
<1> USE RecorderAssumption
<1>1. CASE Tick
  BY <1>1 DEF Tick, RTypeOK
<1>2. ASSUME NEW r \in Recorder, ReadClock(r) PROVE RTypeOK'
  BY <1>2 DEF ReadClock, Goto, RTypeOK, Name
<1>3. ASSUME NEW r \in Recorder, Probe(r) PROVE RTypeOK'
  <2>1. CASE base' = base
    BY <1>3, <2>1 DEF Probe, Goto, RTypeOK
  <2>2. CASE base[r].suffix < MaxSuffix /\ base' = [base EXCEPT ![r].suffix = @ + 1]
    <3>1. base[r] \in Name
      BY DEF RTypeOK
    <3>2. [base[r] EXCEPT !.suffix = @ + 1] \in Name
      BY <2>2, <3>1 DEF Name
    <3>3. base' \in [Recorder -> Name]
      BY <2>2, <3>2 DEF RTypeOK
    <3> QED BY <1>3, <3>3 DEF Probe, Goto, RTypeOK
  <2> QED BY <1>3, <2>1, <2>2 DEF Probe
<1>4. ASSUME NEW r \in Recorder, OpenTemp(r) \/ Collect(r) \/ Commit(r) PROVE RTypeOK'
  BY <1>4 DEF OpenTemp, CapsuleWriter, Collect, Commit, Goto, RTypeOK
<1>5. ASSUME NEW r \in Recorder, CreateFinal(r) PROVE RTypeOK'
  <2>1. [by |-> r, whole |-> FALSE] \in File
    BY FileTypes
  <2> HIDE RecorderAssumption
  <2>2. files' \in [Name -> File]
    BY <1>5, <2>1 DEF CreateFinal, RTypeOK
  <2>3. pc' \in [Recorder -> Ended \cup {"start", "probing", "opening", "collecting",
                 "finishing", "publishing", "copying", "cleaning", "unwinding"}]
    BY <1>5 DEF CreateFinal, Goto, RTypeOK
  <2> QED BY <1>5, <2>2, <2>3 DEF CreateFinal, RTypeOK
<1>6. ASSUME NEW r \in Recorder, CopyContents(r) PROVE RTypeOK'
  <2>1. [by |-> r, whole |-> TRUE] \in File
    BY FileTypes
  <2> HIDE RecorderAssumption
  <2>2. files' \in [Name -> File]
    BY <1>6, <2>1 DEF CopyContents, RTypeOK
  <2>3. pc' \in [Recorder -> Ended \cup {"start", "probing", "opening", "collecting",
                 "finishing", "publishing", "copying", "cleaning", "unwinding"}]
    BY <1>6 DEF CopyContents, Goto, RTypeOK
  <2> QED BY <1>6, <2>2, <2>3 DEF CopyContents, RTypeOK
<1>7. ASSUME NEW r \in Recorder, RemoveTemp(r) \/ Unwind(r) PROVE RTypeOK'
  BY <1>7 DEF RemoveTemp, Unwind, Goto, RTypeOK, Ended
<1>8. ASSUME NEW r \in Recorder, Crash(r) PROVE RTypeOK'
  BY <1>8 DEF Crash, RTypeOK, Ended
<1>9. CASE UNCHANGED rvars
  BY <1>9 DEF rvars, RTypeOK
<1> QED
  BY <1>1, <1>2, <1>3, <1>4, <1>5, <1>6, <1>7, <1>8, <1>9 DEF RNext, record_command

(* Every step keeps whose file is where.  A step of r may make or fill the file
   at its own name only, and nobody else has made that one. *)
LEMMA PublishKept == RTypeOK /\ PublishInv /\ [RNext]_rvars => PublishInv'
<1> SUFFICES ASSUME RTypeOK, PublishInv, [RNext]_rvars, NEW q \in Recorder
             PROVE  /\ pc'[q] = "copying" => files'[base'[q]] = [by |-> q, whole |-> FALSE]
                    /\ pc'[q] \in {"cleaning", "done", "partial"} =>
                         files'[base'[q]] = [by |-> q, whole |-> TRUE]
                    /\ pc'[q] \in {"start", "probing", "opening", "collecting", "finishing"}
                         => temp'[q] # "committed"
                    /\ pc'[q] \in {"done", "partial", "failed"} => temp'[q] = "none"
                    /\ pc'[q] = "unwinding" /\ temp'[q] = "committed" =>
                         files'[base'[q]] # NoFile \/ MayFail
  BY DEF PublishInv, Present
<1> USE DEF PublishInv, RTypeOK, Present
<1>1. CASE Tick \/ UNCHANGED rvars
  BY <1>1 DEF Tick, rvars
<1>2. ASSUME NEW r \in Recorder, ReadClock(r) \/ Probe(r) PROVE base'[q] = base[q] \/ q = r
  BY <1>2 DEF ReadClock, Probe
<1>3. ASSUME NEW r \in Recorder, ReadClock(r) \/ Probe(r)
      PROVE  /\ files' = files /\ temp' = temp
             /\ q = r => pc'[q] \in {"probing", "opening"} /\ pc[q] \in {"start", "probing"}
             /\ q # r => pc'[q] = pc[q]
  BY <1>3 DEF ReadClock, Probe, Goto
<1>4. CASE \E r \in Recorder : ReadClock(r) \/ Probe(r)
  BY <1>2, <1>3, <1>4
<1>5. CASE \E r \in Recorder : OpenTemp(r) \/ Collect(r) \/ Commit(r)
  BY <1>5 DEF OpenTemp, CapsuleWriter, Collect, Commit, Goto
<1>6. ASSUME NEW r \in Recorder, CreateFinal(r) PROVE \/ files' = files
                                                     \/ files[base[r]] = NoFile
  BY <1>6 DEF CreateFinal
<1>7. CASE \E r \in Recorder : CreateFinal(r)
  <2>1. PICK r \in Recorder : CreateFinal(r)
    BY <1>7
  <2>2. CASE files[base[r]] = NoFile /\ pc'[r] = "copying"
    <3>1. /\ \A n \in Name : files'[n] = IF n = base[r] THEN [by |-> r, whole |-> FALSE]
                                         ELSE files[n]
          /\ base' = base /\ temp' = temp
          /\ pc[r] = "publishing" /\ pc'[r] = "copying"
          /\ q # r => pc'[q] = pc[q]
      BY <2>1, <2>2 DEF CreateFinal, Goto
    <3>2. CASE q = r
      BY <3>1, <3>2
    <3>3. CASE q # r /\ base[q] = base[r]
      BY <2>2, <3>1, <3>3, FileTypes
    <3>4. CASE q # r /\ base[q] # base[r]
      BY <3>1, <3>4
    <3> QED BY <3>2, <3>3, <3>4
  <2>3. CASE pc'[r] = "unwinding"
    BY <2>1, <2>3 DEF CreateFinal, Goto
  <2>4. \/ files[base[r]] = NoFile /\ pc'[r] = "copying"
        \/ pc'[r] = "unwinding"
    BY <2>1 DEF CreateFinal, Goto
  <2> QED BY <2>2, <2>3, <2>4
<1>8. CASE \E r \in Recorder : CopyContents(r)
  <2>1. PICK r \in Recorder : CopyContents(r)
    BY <1>8
  <2>2. /\ base' = base /\ temp' = temp /\ pc[r] = "copying"
        /\ q # r => pc'[q] = pc[q]
        /\ files[base[r]] = [by |-> r, whole |-> FALSE]
    BY <2>1 DEF CopyContents, Goto
  <2>3. CASE files' = files /\ pc'[r] = "unwinding"
    BY <2>2, <2>3, FileTypes
  <2>4. CASE files' = [files EXCEPT ![base[r]] = [by |-> r, whole |-> TRUE]] /\ pc'[r] = "cleaning"
    <3>1. \A n \in Name : files'[n] = IF n = base[r] THEN [by |-> r, whole |-> TRUE]
                                       ELSE files[n]
      BY <2>2, <2>4, FileTypes
    <3>2. CASE q = r
      BY <2>2, <2>4, <3>1, <3>2
    <3>3. CASE q # r /\ base[q] = base[r]
      <4>1. files[base[r]].by = r
        BY <2>2, FileTypes
      <4>2. /\ files[base[q]] = [by |-> q, whole |-> TRUE] => files[base[q]].by = q
            /\ files[base[q]] = [by |-> q, whole |-> FALSE] => files[base[q]].by = q
        BY FileTypes
      <4>3. /\ files[base[q]] # [by |-> q, whole |-> TRUE]
            /\ files[base[q]] # [by |-> q, whole |-> FALSE]
        BY <3>3, <4>1, <4>2
      <4>4. pc[q] \notin {"copying", "cleaning", "done", "partial"}
        BY <4>3
      <4> QED BY <2>2, <3>1, <3>3, <4>4, FileTypes
    <3>4. CASE q # r /\ base[q] # base[r]
      BY <2>2, <3>1, <3>4
    <3> QED BY <3>2, <3>3, <3>4
  <2>5. \/ files' = files /\ pc'[r] = "unwinding"
        \/ files' = [files EXCEPT ![base[r]] = [by |-> r, whole |-> TRUE]] /\ pc'[r] = "cleaning"
    BY <2>1 DEF CopyContents, Goto
  <2> QED BY <2>3, <2>4, <2>5
<1>9. CASE \E r \in Recorder : RemoveTemp(r) \/ Unwind(r) \/ Crash(r)
  BY <1>9 DEF RemoveTemp, Unwind, Crash, Goto, Ended
<1> QED
  BY <1>1, <1>4, <1>5, <1>7, <1>8, <1>9 DEF RNext, record_command

(* Both invariants hold from the start. *)
LEMMA Recording == RSpec => [](RTypeOK /\ PublishInv)
<1>1. RInit => RTypeOK /\ PublishInv
  BY RecorderAssumption, NoFileType DEF RInit, RTypeOK, PublishInv, Ended, Name
<1> QED
  BY <1>1, TypesKept, PublishKept, PTL DEF RSpec

-----------------------------------------------------------------------------
(* A recorder that names its capsule has left its own complete recording there,
   however many recorders chose the same name. *)
THEOREM CapsulesAreOwn == RSpec => []CapsuleIsOwn
<1>1. PublishInv => CapsuleIsOwn
  BY DEF PublishInv, CapsuleIsOwn
<1> QED
  BY <1>1, Recording, PTL

(* A committed recording is deleted only after it was copied completely, or by
   the guard of a recorder whose publishing failed - on a file in its way, unless
   writes fail: a crash at any point keeps it. *)
THEOREM CrashIsSafe == RSpec => CrashKeepsTheRecording
<1>1. RTypeOK /\ PublishInv /\ [RNext]_rvars =>
        [\A r \in Recorder :
           temp[r] = "committed" /\ temp'[r] # "committed" =>
             \/ files[base[r]] = [by |-> r, whole |-> TRUE]
             \/ pc[r] = "unwinding" /\ (Present(base[r]) \/ MayFail)]_rvars
  <2> SUFFICES ASSUME RTypeOK, PublishInv, RNext, NEW r \in Recorder,
                      temp[r] = "committed", temp'[r] # "committed"
               PROVE  \/ files[base[r]] = [by |-> r, whole |-> TRUE]
                      \/ pc[r] = "unwinding" /\ (Present(base[r]) \/ MayFail)
    OBVIOUS
  <2>1. PICK q \in Recorder : OpenTemp(q) \/ Commit(q) \/ RemoveTemp(q) \/ Unwind(q)
    BY DEF RNext, record_command, Tick, ReadClock, Probe, Collect, CreateFinal,
           CopyContents, Crash
  <2>2. q = r
    BY <2>1 DEF OpenTemp, CapsuleWriter, Commit, RemoveTemp, Unwind, RTypeOK
  <2>3. pc[r] \in {"opening", "finishing", "cleaning", "unwinding"}
    BY <2>1, <2>2 DEF OpenTemp, CapsuleWriter, Commit, RemoveTemp, Unwind, Goto
  <2> QED BY <2>3 DEF PublishInv
<1> QED
  BY <1>1, Recording, PTL DEF RSpec, CrashKeepsTheRecording

(* Clock, names, files and phases keep their types. *)
THEOREM RecorderTypes == RSpec => []RTypeOK
BY Recording, PTL

(* A recorder that was not killed leaves no temporary file behind. *)
THEOREM TemporariesAreGone == RSpec => []NoTemporaryLeft
<1>1. PublishInv => NoTemporaryLeft
  BY DEF PublishInv, NoTemporaryLeft
<1> QED BY <1>1, Recording, PTL

(* A file that is complete, or of another recorder, is never touched: not even by
   a recorder that chose the same name before the file was there. *)
THEOREM NothingIsOverwritten == RSpec => NeverOverwrites
<1>1. RTypeOK /\ PublishInv /\ [RNext]_rvars =>
        [\A n \in Name : files[n] # NoFile /\ files'[n] # files[n] =>
           files'[n].by = files[n].by /\ ~files[n].whole]_rvars
  <2> SUFFICES ASSUME RTypeOK, PublishInv, RNext, NEW n \in Name,
                      files[n] # NoFile, files'[n] # files[n]
               PROVE  files'[n].by = files[n].by /\ ~files[n].whole
    OBVIOUS
  <2>1. PICK r \in Recorder : CreateFinal(r) \/ CopyContents(r)
    BY DEF RNext, record_command, Tick, ReadClock, Probe, OpenTemp, Collect, Commit,
           RemoveTemp, Unwind, Crash
  <2>2. ~CreateFinal(r)
    BY DEF CreateFinal, RTypeOK, Present
  <2>3. /\ n = base[r] /\ pc[r] = "copying"
        /\ files'[n] = [by |-> r, whole |-> TRUE]
    BY <2>1, <2>2 DEF CopyContents, Goto, RTypeOK
  <2>4. files[n] = [by |-> r, whole |-> FALSE]
    BY <2>3 DEF PublishInv
  <2> QED BY <2>3, <2>4
<1> QED
  BY <1>1, Recording, PTL DEF RSpec, NeverOverwrites

=============================================================================
