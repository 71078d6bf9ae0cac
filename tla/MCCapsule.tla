----------------------------- MODULE MCCapsule -----------------------------
(***************************************************************************)
(* Small instance of Capsule: one file, and one peer.                      *)
(***************************************************************************)
EXTENDS Capsule

MCThing == Pid \cup Text \cup Exe \cup {NoExe, "file", "peer"}
MCActivity ==
    {[type |-> "file_read", resource |-> "file", result |-> -1],
     [type |-> "file_read", resource |-> "file", result |-> 1],
     [type |-> "file_write", resource |-> "file", result |-> 2],
     [type |-> "net_connect", resource |-> "peer", result |-> -1],
     [type |-> "net_connect", resource |-> "peer", result |-> 0]}

\* emitted is output and only the pid of an exec is read from the events.  Nothing
\* follows a rollback, and nothing but the summary outlives a finished recording:
\* its tables, but for the exit code, are those of the state before.
MCView ==
    CASE phase = "failed" -> <<phase, disk>>
      [] phase = "finished" /\ saved # Null -> <<phase>>
      [] phase = "finished" /\ saved = Null ->
           <<phase, now, left, load_summary(disk, session)>>
      [] OTHER ->
           <<phase, now, left, introduced, running, begun, closed, session, saved,
             disk, [db EXCEPT !.events = [i \in DOMAIN @ |->
                      IF @[i].type = "process_exec" THEN @[i]
                      ELSE [@[i] EXCEPT !.pid = Root]]]>>
=============================================================================
