------------------------------ MODULE MCStream ------------------------------
(* ProgressStream for TLC: the callers of stop and delete are              *)
(* interchangeable, and the run checks no liveness.  It follows either a   *)
(* restart or a failure of the database.                                   *)
EXTENDS ProgressStream, TLC

Symmetry == Permutations(Stoppers)
OneTrouble == restarts + faults <= 1
=============================================================================
