----------------------------- MODULE MCNodeLoop -----------------------------
(* Small instances of NodeLoop. *)
EXTENDS NodeLoop
=============================================================================
