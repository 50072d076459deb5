------------------------- MODULE MCCompletionSource -------------------------
(* The instance of CompletionSource for TLC.                               *)
EXTENDS CompletionSource
=============================================================================
