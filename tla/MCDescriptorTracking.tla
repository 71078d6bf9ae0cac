------------------------ MODULE MCDescriptorTracking ------------------------
(***************************************************************************)
(* Small instance of DescriptorTracking.  The names are "/" and "/sub":    *)
(* the spelling "sub" leads to the latter and "." stays.                   *)
(***************************************************************************)
EXTENDS DescriptorTracking, TLC

MCJoin(d, r) == IF d = Unresolved THEN Unresolved
                ELSE IF r = "sub" THEN "/sub" ELSE d
MCInherited == {FileAt("/sub")}
MCSymmetry == Permutations(Fd) \cup Permutations(Pid \ {Root})

\* emitted is output: no guard reads it.
MCView == <<state, session, thrown, now, history, table, group, done, suspect,
            steps>>
=============================================================================
