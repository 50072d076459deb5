---------------------------- MODULE MCSocketPair ----------------------------
(* A small instance of SocketPair for TLC.                                  *)
EXTENDS SocketPairInv
=============================================================================
