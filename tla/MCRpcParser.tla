---------------------------- MODULE MCRpcParser ----------------------------
(* Instances of RpcParser for TLC: the cfg gives the bounds.               *)
EXTENDS RpcParser
=============================================================================
