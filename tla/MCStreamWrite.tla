--------------------------- MODULE MCStreamWrite ---------------------------
(* Small instances of StreamWrite. *)
EXTENDS StreamWrite
=============================================================================
