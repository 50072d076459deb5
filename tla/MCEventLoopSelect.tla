-------------------------- MODULE MCEventLoopSelect --------------------------
(* Instances of EventLoopSelect for TLC.                                   *)
EXTENDS EventLoopSelect

=============================================================================
