--------------------------- MODULE MCTaskPlatform ---------------------------
(* Small instances of TaskPlatform for TLC.                                 *)
EXTENDS TaskPlatform, TLC

(* Sound for the safety run: no property names a thread or a job.           *)
Symmetry == Permutations(Jobs)
=============================================================================
