----------------------------- MODULE MCGypLoad -----------------------------
(* Small instances of GypLoad: every project of three files. *)
EXTENDS GypLoad

CONSTANTS f1, f2, f3, common

(* A file may name another one twice, and itself. *)
MCDeps == {<<>>, <<f1>>, <<f2>>, <<f3>>, <<f2, f3>>, <<f3, f2, f3>>, <<f1, f2>>}

MCProjects ==
  [roots : {{f1}, {f1, f2}},
   deps : [Files -> MCDeps],
   includes : {[f \in Files |-> IF f = f3 THEN {} ELSE {common}]},
   broken : {{}} \cup {{f} : f \in Files}]
=============================================================================
