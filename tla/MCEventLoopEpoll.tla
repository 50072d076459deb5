-------------------------- MODULE MCEventLoopEpoll --------------------------
(* Instances of EventLoopEpoll for TLC.                                    *)
EXTENDS EventLoopEpoll, TLC

(* Descriptors are interchangeable (a run with liveness does not use it).  *)
Symmetry == Permutations(Fds)
=============================================================================
