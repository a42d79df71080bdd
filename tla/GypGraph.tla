------------------------------ MODULE GypGraph ------------------------------
(***************************************************************************)
(* What gyp does with the targets of the build files once they are loaded  *)
(* (Load in tools/gyp/pylib/gyp/input.py): it cleans up their dependency   *)
(* lists, sorts files and targets so that all come after what they depend  *)
(* on, drops what is not wanted, hands settings on to dependents, and      *)
(* rewrites the dependencies of libraries for linking.                     *)
(*                                                                         *)
(* One thread does this.  FlattenToList takes nodes out of a set, in an    *)
(* order that changes from run to run.  Names of targets are qualified.    *)
(***************************************************************************)
EXTENDS Naturals, Sequences, SequencesExt, FiniteSets

CONSTANTS
  Targets,    \* qualified names of targets
  Missing,    \* names, in dependency lists or on the command line, of no target
  BuildFiles, \* paths of build files
  Projects    \* what may be loaded; see ProjectAssumption

Names == Targets \cup Missing

Types == {"executable", "shared_library", "loadable_module", "static_library", "none"}

ASSUME ProjectAssumption ==
  /\ IsFiniteSet(Targets)
  /\ Targets \cap Missing = {} /\ Names \cap BuildFiles = {}
  /\ \A p \in Projects :
       /\ p.file \in [Names -> BuildFiles]        \* where each target is, or should be
       /\ p.type \in [Targets -> Types]
       /\ p.deps \in [Targets -> Seq(Names \cup BuildFiles)]  \* a file is file:*
       /\ p.exports \in [Targets -> Seq(Names \cup BuildFiles)]
       /\ p.noDeps \in [Targets -> SUBSET (Names \cup BuildFiles)]     \* dependencies!
       /\ p.noExports \in [Targets -> SUBSET (Names \cup BuildFiles)]  \* export_dependent_settings!
       /\ p.pruneSelf \subseteq Targets     \* prune_self_dependency
       /\ p.suppress \subseteq Targets      \* suppress_wildcard
       /\ p.hard \subseteq Targets          \* hard_dependency
       /\ p.noTraverse \subseteq Targets    \* dependencies_traverse is 0
       /\ p.noPropagate \subseteq Targets   \* allow_sharedlib_linksettings_propagation is 0
       /\ p.roots \subseteq Names           \* root_targets
       /\ p.bare \subseteq BuildFiles \ {p.file[t] : t \in Targets}  \* have no 'targets'
       /\ p.circularCheck \in BOOLEAN /\ p.sort \in BOOLEAN

VARIABLES
  project,
  pc,         \* the step that Load is at, or how it ended
  deps,       \* per target, its 'dependencies'
  exports,    \* per target, its 'export_dependent_settings'
  nodes,      \* the dependencies of the graph's nodes
  zeros,      \* in_degree_zeros
  flat_list,
  cycles,     \* cycles between files, as reported
  wanted,     \* keys of targets
  merged      \* per kind of settings and target, where settings came from

vars == <<project, pc, deps, exports, nodes, zeros, flat_list, cycles, wanted, merged>>

Settings == {"all_dependent_settings", "direct_dependent_settings", "link_settings"}

linkable_types == {"executable", "shared_library", "loadable_module"}

Init ==
  /\ project \in Projects
  /\ pc = "qualify"
  /\ deps = project.deps /\ exports = project.exports
  /\ nodes = <<>> /\ zeros = {} /\ flat_list = <<>>
  /\ cycles = {}
  /\ wanted = Targets
  /\ merged = [k \in Settings |-> [t \in Targets |-> <<>>]]

----------------------------------------------------------------------------
(* Dependency lists. *)

(* What is exported, or excluded, has to be a dependency.  The names in a  *)
(* list of regular expressions ("dependencies/") are taken for names of    *)
(* targets, which fails: there are only exclusions ("dependencies!").      *)
QualifyDependencies ==
  /\ pc = "qualify"
  /\ pc' = IF \A t \in Targets : ToSet(exports[t]) \cup project.noDeps[t] \cup project.noExports[t]
                                   \subseteq ToSet(deps[t])
           THEN "self" ELSE "GypError"
  /\ UNCHANGED <<project, deps, exports, nodes, zeros, flat_list, cycles, wanted, merged>>

Filter(l, item) == SelectSeq(l, LAMBDA e : e # item)

RemoveSelfDependencies ==
  LET Pruned(lists) == [t \in Targets |-> IF t \in project.pruneSelf
                                          THEN Filter(lists[t], t) ELSE lists[t]]
  IN  /\ pc = "self" /\ pc' = "wildcards"
      /\ deps' = Pruned(deps) /\ exports' = Pruned(exports)
      /\ UNCHANGED <<project, nodes, zeros, flat_list, cycles, wanted, merged>>

(* The targets of a file, as its file:* stands for them. *)
OfFile(f) ==
  SetToSeq({t \in Targets : project.file[t] = f /\ t \notin project.suppress})

Expand(l) ==
  FlattenSeq([i \in DOMAIN l |-> IF l[i] \in BuildFiles THEN OfFile(l[i]) ELSE <<l[i]>>])

(* The wildcards of t that cannot be expanded: its own file's, and those   *)
(* of files without 'targets'.                                             *)
BadWildcards(t) ==
  SelectSeq(deps[t] \o exports[t], LAMBDA e : e = project.file[t] \/ e \in project.bare)

(* Targets come in any order; the first bad wildcard that is met is an     *)
(* error, the one that gyp reports or an exception nobody catches.         *)
ExpandWildcardDependencies ==
  /\ pc = "wildcards"
  /\ IF \E t \in Targets : BadWildcards(t) # <<>>
     THEN /\ \E t \in Targets :
               /\ BadWildcards(t) # <<>>
               /\ pc' = IF BadWildcards(t)[1] \in project.bare THEN "KeyError" ELSE "GypError"
          /\ UNCHANGED <<deps, exports>>
     ELSE /\ pc' = "filters"
          /\ deps' = [t \in Targets |-> Expand(deps[t])]
          /\ exports' = [t \in Targets |-> Expand(exports[t])]
  /\ UNCHANGED <<project, nodes, zeros, flat_list, cycles, wanted, merged>>

(* Wildcards are not expanded in exclusions, and then match nothing. *)
Without(l, excluded) == SelectSeq(l, LAMBDA e : e \notin excluded)

ProcessListFilters ==
  /\ pc = "filters" /\ pc' = "duplicates"
  /\ deps' = [t \in Targets |-> Without(deps[t], project.noDeps[t])]
  /\ exports' = [t \in Targets |-> Without(exports[t], project.noExports[t])]
  /\ UNCHANGED <<project, nodes, zeros, flat_list, cycles, wanted, merged>>

AddNew(l, e) == IF e \in ToSet(l) THEN l ELSE Append(l, e)

(* Faulty variant of Unify: it keeps what it has seen. *)
UnifyNot(l) == l

Unify(l) == FoldLeft(AddNew, <<>>, l)

RemoveDuplicateDependencies ==
  /\ pc = "duplicates"
  /\ pc' = IF project.circularCheck THEN "files" ELSE "build"
  /\ deps' = [t \in Targets |-> Unify(deps[t])]
  /\ exports' = [t \in Targets |-> Unify(exports[t])]
  /\ UNCHANGED <<project, nodes, zeros, flat_list, cycles, wanted, merged>>

----------------------------------------------------------------------------
(* Sorting a graph. *)

(* A dependency that is no node is an error.  Nodes without dependencies   *)
(* depend on the root, and are where to begin.                             *)
MakeNodes(graph, label) ==
  IF \A n \in DOMAIN graph : ToSet(graph[n]) \subseteq DOMAIN graph
  THEN /\ nodes' = graph
       /\ zeros' = {n \in DOMAIN graph : ToSet(graph[n]) = {}}
       /\ flat_list' = <<>>
       /\ pc' = label
  ELSE pc' = "GypError" /\ UNCHANGED <<nodes, zeros, flat_list>>

Dependents(n) == {m \in DOMAIN nodes : n \in ToSet(nodes[m])}

(* The graph of the build files, for VerifyNoGYPFileCircularDependencies.  *)
(* A file may refer to itself.                                             *)
FileGraph ==
  LET used == {project.file[t] : t \in Targets}
      refs(f) == UNION {{project.file[d] : d \in ToSet(deps[t])} :
                           t \in {u \in Targets : project.file[u] = f}} \ {f}
  IN  [f \in used |-> SetToSeq(refs(f))]

MakeFileNodes ==
  /\ pc = "files"
  /\ MakeNodes(FileGraph, "flatten_files")
  /\ UNCHANGED <<project, deps, exports, cycles, wanted, merged>>

MakeTargetNodes ==
  /\ pc = "build"
  /\ MakeNodes(deps, "flatten_targets")
  /\ UNCHANGED <<project, deps, exports, cycles, wanted, merged>>

(* Faulty variant of Flatten: one dependency in the list is enough. *)
FlattenAny(n) ==
  /\ pc \in {"flatten_files", "flatten_targets"} /\ n \in zeros
  /\ flat_list' = Append(flat_list, n)
  /\ zeros' = (zeros \ {n}) \cup
       {m \in Dependents(n) : ToSet(nodes[m]) \cap ToSet(flat_list') # {}}
  /\ UNCHANGED <<project, pc, deps, exports, nodes, cycles, wanted, merged>>

(* The loop of FlattenToList: a node is popped, and those of its           *)
(* dependents that wait for nothing else are added.                        *)
Flatten(n) ==
  /\ pc \in {"flatten_files", "flatten_targets"} /\ n \in zeros
  /\ flat_list' = Append(flat_list, n)
  /\ zeros' = (zeros \ {n}) \cup
       {m \in Dependents(n) : ToSet(nodes[m]) \subseteq ToSet(flat_list')}
  /\ UNCHANGED <<project, pc, deps, exports, nodes, cycles, wanted, merged>>

(* The cycles met on the paths from n, each from a node back to itself. *)
FindCycles[n \in Targets \cup BuildFiles, path \in Seq(Targets \cup BuildFiles)] ==
  UNION {IF m \in ToSet(path)
         THEN {<<m>> \o SubSeq(path, 1, CHOOSE i \in DOMAIN path : path[i] = m)}
         ELSE FindCycles[m, <<m>> \o path] : m \in Dependents(n)}

(* Faulty variant of AllFlat: it asks whether anything was sorted. *)
AllFlatSome == flat_list # <<>>

AllFlat == Len(flat_list) = Cardinality(DOMAIN nodes)

FilesFlat ==
  /\ pc = "flatten_files" /\ zeros = {}
  /\ IF AllFlat THEN pc' = "build" /\ UNCHANGED cycles
     ELSE /\ pc' = "file_cycle"
          /\ cycles' = UNION {FindCycles[f, <<f>>] : f \in {g \in DOMAIN nodes : nodes[g] = <<>>}}
  /\ UNCHANGED <<project, deps, exports, nodes, zeros, flat_list, wanted, merged>>

TargetsFlat ==
  /\ pc = "flatten_targets" /\ zeros = {}
  /\ pc' = IF ~AllFlat THEN "target_cycle" ELSE IF project.roots # {} THEN "prune" ELSE "all_dependent_settings"
  /\ UNCHANGED <<project, deps, exports, nodes, zeros, flat_list, cycles, wanted, merged>>

----------------------------------------------------------------------------
(* Dependencies of a target. *)

DirectDependencies(t) == Unify(nodes[t])

DeepDependencies[t \in Targets, found \in Seq(Targets)] ==
  FoldLeft(LAMBDA l, d : IF d \in ToSet(l) THEN l ELSE DeepDependencies[d, Append(l, d)],
           found, nodes[t])

(* What dependency l[i] exports goes after it, and is looked at in turn. *)
AddImported[i \in Nat, l \in Seq(Targets)] ==
  IF i > Len(l) THEN l
  ELSE LET new == SelectSeq(Unify(exports[l[i]]), LAMBDA d : d \notin ToSet(l))
       IN  AddImported[i + 1, SubSeq(l, 1, i) \o new \o SubSeq(l, i + 1, Len(l))]

DirectAndImportedDependencies(t) == AddImported[1, DirectDependencies(t)]

(* The links of t that are found from its dependency u. *)
LinkFrom[u \in Targets, found \in Seq(Targets), shared \in BOOLEAN] ==
  LET type == project.type[u]
  IN  IF type = "none" /\ u \in project.noTraverse THEN AddNew(found, u)
      ELSE IF \/ type \in {"executable", "loadable_module"}
              \/ type = "shared_library" /\ ~shared
              \/ u \in ToSet(found)
           THEN found
           ELSE IF type \in linkable_types THEN Append(found, u)
           ELSE FoldLeft(LAMBDA l, d : LinkFrom[d, l, shared], Append(found, u), nodes[u])

LinkDependencies(t, shared) ==
  IF project.type[t] \notin linkable_types THEN <<>>
  ELSE FoldLeft(LAMBDA l, d : LinkFrom[d, l, shared], <<t>>, nodes[t])

DependenciesForLinkSettings(t) == LinkDependencies(t, t \notin project.noPropagate)

DependenciesToLinkAgainst(t) == LinkDependencies(t, TRUE)

----------------------------------------------------------------------------
PruneUnwantedTargets ==
  /\ pc = "prune"
  /\ IF project.roots \subseteq ToSet(flat_list)
     THEN /\ pc' = "all_dependent_settings"
          /\ wanted' = project.roots \cup
               UNION {ToSet(DeepDependencies[t, <<>>]) : t \in project.roots}
          /\ flat_list' = SelectSeq(flat_list, LAMBDA t : t \in wanted')
     ELSE pc' = "GypError" /\ UNCHANGED <<wanted, flat_list>>
  /\ UNCHANGED <<project, deps, exports, nodes, zeros, cycles, merged>>

Sources(k, t) ==
  CASE k = "all_dependent_settings" -> DeepDependencies[t, <<>>]
    [] k = "direct_dependent_settings" -> DirectAndImportedDependencies(t)
    [] k = "link_settings" -> DependenciesForLinkSettings(t)

AfterSettings(k) ==
  CASE k = "all_dependent_settings" -> "direct_dependent_settings"
    [] k = "direct_dependent_settings" -> "link_settings"
    [] k = "link_settings" -> "adjust"

DoDependentSettings(k) ==
  /\ pc = k /\ pc' = AfterSettings(k)
  /\ merged' = [merged EXCEPT ![k] =
                  [t \in Targets |-> IF t \in wanted THEN Sources(k, t) ELSE <<>>]]
  /\ UNCHANGED <<project, deps, exports, nodes, zeros, flat_list, cycles, wanted>>

(* Faulty variant of StaticDependencies: what is imported is lost. *)
StaticDependenciesDirect(t) ==
  SelectSeq(DirectDependencies(t),
            LAMBDA d : project.type[d] = "static_library" => d \in project.hard)

(* A static library waits for others only if they are hard, and for what   *)
(* is no static library only if it says so itself.                         *)
StaticDependencies(t) ==
  SelectSeq(DirectAndImportedDependencies(t),
            LAMBDA d : IF project.type[d] = "static_library" THEN d \in project.hard
                       ELSE d \in ToSet(deps[t]))

Sorted(l) == SelectSeq(Reverse(flat_list), LAMBDA d : d \in ToSet(l))

(* Faulty variant of LinkedDependencies: the target itself is among them. *)
LinkedDependenciesSelf(t) == FoldLeft(AddNew, deps[t], DependenciesToLinkAgainst(t))

LinkedDependencies(t) ==
  LET all == FoldLeft(AddNew, deps[t], Filter(DependenciesToLinkAgainst(t), t))
  IN  IF project.sort THEN Sorted(all) ELSE all

AdjustStaticLibraryDependencies ==
  /\ pc = "adjust" /\ pc' = "done"
  /\ deps' = [t \in Targets |->
                CASE t \notin wanted -> deps[t]
                  [] t \in wanted /\ project.type[t] = "static_library" -> StaticDependencies(t)
                  [] t \in wanted /\ project.type[t] \in linkable_types -> LinkedDependencies(t)
                  [] OTHER -> deps[t]]
  /\ UNCHANGED <<project, exports, nodes, zeros, flat_list, cycles, wanted, merged>>

----------------------------------------------------------------------------
Next ==
  \/ QualifyDependencies \/ RemoveSelfDependencies \/ ExpandWildcardDependencies
  \/ ProcessListFilters \/ RemoveDuplicateDependencies
  \/ MakeFileNodes \/ FilesFlat \/ MakeTargetNodes \/ TargetsFlat
  \/ \E n \in Targets \cup BuildFiles : Flatten(n)
  \/ PruneUnwantedTargets
  \/ \E k \in Settings : DoDependentSettings(k)
  \/ AdjustStaticLibraryDependencies

Spec == Init /\ [][Next]_vars

----------------------------------------------------------------------------
(* Properties. *)

(* The least set that has what first has and what step gives for it. *)
Least(first, step(_)) ==
  LET closed(S) == first \subseteq S /\ \A u \in S : step(u) \subseteq S
  IN  {u \in DOMAIN nodes : \A S \in SUBSET DOMAIN nodes : closed(S) => u \in S}

Reachable(t) == Least(ToSet(nodes[t]), LAMBDA u : ToSet(nodes[u]))

(* A cycle: some nodes each of which depends on one of them. *)
HasCycle(among) ==
  \E S \in (SUBSET among) \ {{}} : \A n \in S : S \cap ToSet(nodes[n]) # {}

AfterFlat == Settings \cup {"prune", "adjust", "done"}

(* Filters have left every export among the dependencies. *)
ExportsAreDependencies ==
  pc \in AfterFlat /\ \A t \in Targets : ToSet(exports[t]) \subseteq ToSet(nodes[t])

(* Every variable has its type; no wildcard is left once they are          *)
(* expanded, and no name of a target that is not there once the targets    *)
(* are sorted.                                                             *)
TypeOK ==
  /\ pc \in {"qualify", "self", "wildcards", "filters", "duplicates", "files", "build",
             "flatten_files", "flatten_targets", "file_cycle", "target_cycle", "GypError",
             "KeyError"} \cup AfterFlat
  /\ deps \in [Targets -> Seq(Names \cup BuildFiles)]
  /\ exports \in [Targets -> Seq(Names \cup BuildFiles)]
  /\ pc \notin {"qualify", "self", "wildcards", "GypError", "KeyError"} =>
       \A t \in Targets : ToSet(deps[t]) \cup ToSet(exports[t]) \subseteq Names
  /\ pc \in AfterFlat => \A t \in Targets : ToSet(deps[t]) \subseteq Targets
  /\ zeros \subseteq DOMAIN nodes /\ flat_list \in Seq(DOMAIN nodes)
  /\ wanted \subseteq Targets

(* In the flat list nothing comes twice, and everything after all that it  *)
(* depends on, whichever node was popped.                                  *)
FlatOrder ==
  \A i \in DOMAIN flat_list :
    LET before == {flat_list[j] : j \in 1..(i - 1)}
    IN  flat_list[i] \notin before /\ ToSet(nodes[flat_list[i]]) \subseteq before

(* Every cycle that is reported is one: each file depends on the next; and *)
(* one is reported whenever a cycle depends on a file without              *)
(* dependencies, where the search begins.                                  *)
CyclesReported ==
  /\ \A c \in cycles : /\ Len(c) > 1 /\ c[1] = c[Len(c)]
                       /\ \A i \in 1..(Len(c) - 1) : c[i + 1] \in ToSet(nodes[c[i]])
  /\ pc = "file_cycle" /\ cycles = {} =>
       \A f \in DOMAIN nodes : nodes[f] = <<>> => ~HasCycle(Least({f}, Dependents))

(* Types are right, the flat list is in order, and so are the cycles that  *)
(* are reported.                                                           *)
GraphInv == TypeOK /\ FlatOrder /\ CyclesReported

(* Load stops for a cycle if and only if there is one, although it only    *)
(* compares the length of the flat list with the number of nodes.          *)
CycleFound ==
  /\ pc \in {"file_cycle", "target_cycle"} => HasCycle(DOMAIN nodes)
  /\ pc \in AfterFlat \/ (pc = "build" /\ project.circularCheck) => ~HasCycle(DOMAIN nodes)

(* What t links with: all that it reaches through libraries that are not   *)
(* linked themselves.                                                      *)
Linked(t, shared) ==
  LET open(u) == \/ project.type[u] = "static_library"
                 \/ project.type[u] = "none" /\ u \notin project.noTraverse
      met == Least(ToSet(nodes[t]), LAMBDA u : IF open(u) THEN ToSet(nodes[u]) ELSE {})
  IN  {u \in met : /\ project.type[u] \notin {"executable", "loadable_module"}
                   /\ (project.type[u] = "shared_library" => shared)}

(* Settings come to a target once from each target they are to come from,  *)
(* by however many ways the graph leads there.                             *)
SettingsOnce ==
  \A t \in wanted, k \in Settings :
    /\ IsInjective(merged[k][t])
    /\ pc \in {"adjust", "done"} =>
         ToSet(merged[k][t]) =
           CASE k = "all_dependent_settings" -> Reachable(t)
             [] k = "direct_dependent_settings" ->
                  Least(ToSet(nodes[t]), LAMBDA u : ToSet(exports[u]))
             [] k = "link_settings" ->
                  IF project.type[t] \in linkable_types
                  THEN {t} \cup Linked(t, t \notin project.noPropagate) ELSE {}

(* The rewritten dependencies still build in the order of the flat list,   *)
(* and nothing that is looked up was pruned, as long as exports are        *)
(* dependencies.                                                           *)
BuildOrder ==
  ExportsAreDependencies =>
    /\ pc \in AfterFlat \ {"prune"} =>
         \A t \in wanted : /\ ToSet(deps[t]) \subseteq wanted
                           /\ \A k \in Settings : ToSet(merged[k][t]) \subseteq wanted
    /\ pc = "done" =>
         \A i \in DOMAIN flat_list :
           ToSet(deps[flat_list[i]]) \subseteq {flat_list[j] : j \in 1..(i - 1)}

(* In the end a linkable target depends on every library that is linked    *)
(* into it, and has lost no dependency; a static library waits for no      *)
(* other that is not hard, and still for every hard one that it had or     *)
(* that its dependencies export.                                           *)
LinkComplete ==
  pc = "done" =>
    \A t \in wanted :
      /\ project.type[t] \in linkable_types =>
           (ToSet(nodes[t]) \cup Linked(t, TRUE)) \ {t} \subseteq ToSet(deps[t])
      /\ project.type[t] = "static_library" =>
           LET all == Least(ToSet(nodes[t]), LAMBDA u : ToSet(exports[u]))
               static == {u \in Targets : project.type[u] = "static_library"}
           IN  ToSet(deps[t]) \cap static = all \cap static \cap project.hard

=============================================================================
