----------------------------- MODULE MCRecorder -----------------------------
(* Small instance of Recorder. *)
EXTENDS Recorder, TLC

MCSymmetry == Permutations(Recorder)
=============================================================================
