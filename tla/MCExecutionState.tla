-------------------------- MODULE MCExecutionState --------------------------
(***************************************************************************)
(* Small instance of ExecutionState: names are of no interest here, so     *)
(* there is one path.                                                      *)
(***************************************************************************)
EXTENDS ExecutionState, TLC

MCJoin(d, r) == d
MCSymmetry == Permutations(Pid \ {Root})

\* emitted is output: no guard reads it, so states that differ in it alone have
\* the same futures.
MCView == <<state, session, thrown, now, history>>
=============================================================================
