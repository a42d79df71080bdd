---------------------------- MODULE MCNetBridge ----------------------------
(* Instances of NetBridge for TLC.                                         *)
EXTENDS NetBridge, TLC
=============================================================================
