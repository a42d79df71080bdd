-------------------------- MODULE BuildFileLoader --------------------------
(***************************************************************************)
(* What gyp's Load asks of the loading of build files, serial or parallel: *)
(* the files given and all that they depend on are loaded, each once and   *)
(* in any order, or the load ends with an error that one of them has.      *)
(* LoadTargetBuildFile does this by recursion; GypLoad is the parallel     *)
(* loader, which is to do the same.                                        *)
(***************************************************************************)
EXTENDS Sequences, SequencesExt

CONSTANTS Files

VARIABLES
  project,  \* the build files: roots, deps, includes, broken
  loaded,   \* data['target_build_files']
  status

vars == <<project, loaded, status>>

Asked == project.roots \cup UNION {ToSet(project.deps[f]) : f \in loaded}

Init == loaded = {} /\ status = "loading"

LoadTargetBuildFile(f) ==
  /\ status = "loading"
  /\ f \in Asked \ (loaded \cup project.broken)
  /\ loaded' = loaded \cup {f}
  /\ UNCHANGED <<project, status>>

Return ==
  /\ status = "loading" /\ Asked \subseteq loaded
  /\ status' = "returned"
  /\ UNCHANGED <<project, loaded>>

Fail ==
  /\ status = "loading" /\ Asked \cap project.broken # {}
  /\ status' = "exit"
  /\ UNCHANGED <<project, loaded>>

Interrupt ==
  /\ status = "loading"
  /\ status' = "interrupted"
  /\ UNCHANGED <<project, loaded>>

Next == Return \/ Fail \/ Interrupt \/ \E f \in Files : LoadTargetBuildFile(f)

Spec == Init /\ [][Next]_vars
=============================================================================
