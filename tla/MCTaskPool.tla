----------------------------- MODULE MCTaskPool -----------------------------
(* Small instances of TaskPool for TLC.                                     *)
EXTENDS TaskPoolInv, TLC

(* Threads differ only in what they do; jobs too.  Sound for the safety     *)
(* runs only (no liveness property is checked with it).                     *)
Symmetry == Permutations(Threads) \cup Permutations(Jobs)
=============================================================================
