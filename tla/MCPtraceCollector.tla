-------------------------- MODULE MCPtraceCollector -------------------------
(***************************************************************************)
(* Small instance of PtraceCollector: names are of no interest here, so    *)
(* there is one path.                                                      *)
(***************************************************************************)
EXTENDS PtraceCollector, TLC

MCJoin(d, r) == d
MCSymmetry == Permutations(Pid \ {Root})

\* emitted is output: no guard reads it.
MCView == <<state, session, thrown, now, history, kernel, shell, loop>>
=============================================================================
