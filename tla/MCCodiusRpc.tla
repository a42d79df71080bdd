---------------------------- MODULE MCCodiusRpc ----------------------------
(* Small instances of CodiusRpc. *)
EXTENDS CodiusRpc, TLC

CallSymmetry == Permutations(Calls)
=============================================================================
