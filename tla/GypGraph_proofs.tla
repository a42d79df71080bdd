-------------------------- MODULE GypGraph_proofs ---------------------------
(***************************************************************************)
(* Theorems about the sorting of files and targets in GypGraph, for every  *)
(* set of projects, whatever their graphs and in whatever order nodes are  *)
(* popped.                                                                 *)
(***************************************************************************)
EXTENDS GypGraph, FiniteSetTheorems, WellFoundedInduction, TLAPS

----------------------------------------------------------------------------
(* The inductive invariant, in statements about a graph g, a list l and a  *)
(* set z of nodes that can be popped.                                      *)

Closed(g) ==
  IsFiniteSet(DOMAIN g) /\ \A n \in DOMAIN g : ToSet(g[n]) \subseteq DOMAIN g

Before(l, i) == {l[j] : j \in 1..(i - 1)}

InOrder(g, l) ==
  \A i \in DOMAIN l : l[i] \notin Before(l, i) /\ ToSet(g[l[i]]) \subseteq Before(l, i)

(* What can be popped is what is not in the list, but all of whose         *)
(* dependencies are.                                                       *)
Ready(g, l) == {n \in DOMAIN g : n \notin ToSet(l) /\ ToSet(g[n]) \subseteq ToSet(l)}

Cyclic(g) == \E S \in (SUBSET DOMAIN g) \ {{}} : \A n \in S : S \cap ToSet(g[n]) # {}

Flattening == {"flatten_files", "flatten_targets"}

(* Nothing has been taken out of the flat list. *)
Unpruned == project.roots = {} \/ pc \notin Settings \cup {"adjust", "done"}

IInv ==
  /\ project \in Projects /\ DOMAIN deps = Targets /\ Closed(nodes)
  /\ Unpruned => flat_list \in Seq(DOMAIN nodes) /\ InOrder(nodes, flat_list)
  /\ pc \in Flattening => zeros = Ready(nodes, flat_list)
  /\ pc = "prune" => project.roots # {}
  /\ CycleFound

----------------------------------------------------------------------------
(* Graphs and lists. *)

LEMMA LeastIndex ==
  ASSUME NEW S \in SUBSET Nat, S # {}
  PROVE  \E m \in S : \A n \in S : ~(n < m)
<1> DEFINE R == OpToRel(<, Nat)
<1>1. IsWellFoundedOn(R, Nat)
  BY NatLessThanWellFounded
<1>2. \A x, y \in Nat : x < y => <<x, y>> \in R
  BY DEF OpToRel
<1> HIDE DEF R
<1>3. PICK m \in S : \A y \in S : ~(<<y, m>> \in R)
  BY <1>1, WFMin
<1> QED
  BY <1>2, <1>3

LEMMA HasCycleIs == HasCycle(DOMAIN nodes) <=> Cyclic(nodes)
  BY DEF HasCycle, Cyclic

LEMMA FlatOrderIs == FlatOrder <=> InOrder(nodes, flat_list)
  BY DEF FlatOrder, InOrder, Before

LEMMA SetOf ==
  ASSUME NEW S, NEW l \in Seq(S)
  PROVE  /\ ToSet(l) = {l[i] : i \in 1..Len(l)} /\ ToSet(l) \subseteq S
         /\ DOMAIN l = 1..Len(l) /\ Len(l) \in Nat
  BY DEF ToSet

(* List r is l with x after it. *)
Longer(l, x, r) ==
  /\ ToSet(r) = ToSet(l) \cup {x} /\ DOMAIN l = 1..Len(l) /\ Len(l) \in Nat
  /\ DOMAIN r = 1..(Len(l) + 1) /\ r[Len(l) + 1] = x /\ \A i \in 1..Len(l) : r[i] = l[i]
  /\ \A i \in 1..Len(l) : Before(r, i) = Before(l, i)
  /\ Before(r, Len(l) + 1) = ToSet(l)

LEMMA Appended ==
  ASSUME NEW S, NEW l \in Seq(S), NEW x \in S, NEW r, r = Append(l, x)
  PROVE  r \in Seq(S) /\ Longer(l, x, r)
<1>1. /\ r \in Seq(S) /\ DOMAIN l = 1..Len(l) /\ Len(l) \in Nat /\ Len(r) = Len(l) + 1
      /\ DOMAIN r = 1..(Len(l) + 1) /\ r[Len(l) + 1] = x /\ \A i \in 1..Len(l) : r[i] = l[i]
  OBVIOUS
<1> DEFINE n == Len(l)
<1>2. n \in Nat
  BY <1>1
<1> HIDE DEF n
<1>3. \A i \in 1..n : \A j \in 1..(i - 1) : j \in 1..n
  BY <1>2
<1>4. (n + 1) - 1 = n /\ 1..(n + 1) = 1..n \cup {n + 1}
  BY <1>2
<1>5. DOMAIN l = 1..n /\ DOMAIN r = 1..(n + 1) /\ r[n + 1] = x /\ \A i \in 1..n : r[i] = l[i]
  BY <1>1 DEF n
<1>6. ToSet(r) = ToSet(l) \cup {x}
  BY <1>4, <1>5 DEF ToSet
<1>7. \A i \in 1..n : Before(r, i) = Before(l, i)
  BY <1>3, <1>5 DEF Before
<1>8. Before(r, n + 1) = ToSet(l)
  BY <1>4, <1>5 DEF Before, ToSet
<1> QED
  BY <1>1, <1>5, <1>6, <1>7, <1>8 DEF n, Longer

(* What is left to pop of a graph after one turn of the loop of            *)
(* FlattenToList, which pops node x and makes the list r.                  *)
Popped(g, l, x, r) ==
  (Ready(g, l) \ {x}) \cup {m \in DOMAIN g : x \in ToSet(g[m]) /\ ToSet(g[m]) \subseteq ToSet(r)}

LEMMA PopReady ==
  ASSUME NEW g, Closed(g), NEW l \in Seq(DOMAIN g), InOrder(g, l), NEW x \in Ready(g, l),
         NEW r, r = Append(l, x)
  PROVE  r \in Seq(DOMAIN g) /\ InOrder(g, r) /\ Popped(g, l, x, r) = Ready(g, r)
<1> DEFINE z == Popped(g, l, x, r)
<1>1. x \in DOMAIN g /\ x \notin ToSet(l) /\ ToSet(g[x]) \subseteq ToSet(l)
  BY DEF Ready
<1>2. r \in Seq(DOMAIN g) /\ Longer(l, x, r)
  BY <1>1, Appended
<1>3. /\ r \in Seq(DOMAIN g) /\ ToSet(r) = ToSet(l) \cup {x} /\ DOMAIN l = 1..Len(l) /\ Len(l) \in Nat
      /\ DOMAIN r = 1..(Len(l) + 1) /\ r[Len(l) + 1] = x /\ \A i \in 1..Len(l) : r[i] = l[i]
      /\ \A i \in 1..Len(l) : Before(r, i) = Before(l, i)
      /\ Before(r, Len(l) + 1) = ToSet(l)
  BY <1>2 DEF Longer
<1> DEFINE n == Len(l)
<1>4. n \in Nat /\ DOMAIN l = 1..n
  BY <1>3
<1>5. InOrder(g, r)
  <2> SUFFICES ASSUME NEW i \in DOMAIN r
               PROVE  r[i] \notin Before(r, i) /\ ToSet(g[r[i]]) \subseteq Before(r, i)
    BY DEF InOrder
  <2>1. CASE i \in 1..Len(l)
    <3>1. r[i] = l[i] /\ Before(r, i) = Before(l, i) /\ i \in DOMAIN l
      BY <1>3, <2>1
    <3> QED
      BY <3>1 DEF InOrder
  <2>2. CASE i = Len(l) + 1
    BY <1>1, <1>3, <2>2
  <2>3. i \in 1..Len(l) \/ i = Len(l) + 1
    BY <1>3
  <2> QED
    BY <2>1, <2>2, <2>3
<1>6. \A i \in 1..n : Before(l, i) \subseteq ToSet(l)
  <2>1. \A i \in 1..n : \A j \in 1..(i - 1) : j \in 1..n
    BY <1>4
  <2> QED
    BY <1>4, <2>1 DEF Before, ToSet
<1>7. ASSUME NEW m \in DOMAIN g, m \in ToSet(l) PROVE x \notin ToSet(g[m])
  <2>1. PICK i \in 1..n : m = l[i]
    BY <1>4, <1>7 DEF ToSet
  <2>2. ToSet(g[m]) \subseteq Before(l, i)
    BY <1>4, <2>1 DEF InOrder
  <2> QED
    BY <1>1, <1>6, <2>1, <2>2
<1>8. x \notin ToSet(g[x])
  BY <1>1
<1>9. z = Ready(g, r)
  <2>1. ASSUME NEW m \in z PROVE m \in Ready(g, r)
    <3>1. CASE m \in Ready(g, l) \ {x}
      BY <1>3, <3>1 DEF Ready
    <3>2. CASE m \in DOMAIN g /\ x \in ToSet(g[m]) /\ ToSet(g[m]) \subseteq ToSet(r)
      BY <1>3, <1>7, <1>8, <3>2 DEF Ready
    <3> QED
      BY <2>1, <3>1, <3>2 DEF Popped
  <2>2. ASSUME NEW m \in Ready(g, r) PROVE m \in z
    <3>1. m \in DOMAIN g /\ m \notin ToSet(l) /\ m # x /\ ToSet(g[m]) \subseteq ToSet(r)
      BY <1>3, <2>2 DEF Ready
    <3>2. CASE x \in ToSet(g[m])
      BY <3>1, <3>2 DEF Popped
    <3>3. CASE x \notin ToSet(g[m])
      BY <1>3, <3>1, <3>3 DEF Ready, Popped
    <3> QED
      BY <3>2, <3>3
  <2> QED
    BY <2>1, <2>2
<1> QED
  BY <1>3, <1>5, <1>9

(* The list has as many members as the graph has nodes just if it has all  *)
(* of them.                                                                *)
LEMMA LengthTells ==
  ASSUME NEW g, Closed(g), NEW l \in Seq(DOMAIN g), InOrder(g, l)
  PROVE  Len(l) = Cardinality(DOMAIN g) <=> ToSet(l) = DOMAIN g
<1> DEFINE n == Len(l)
           T == ToSet(l)
<1>1. n \in Nat /\ DOMAIN l = 1..n /\ l \in [1..n -> DOMAIN g] /\ T \subseteq DOMAIN g /\ T = {l[i] : i \in 1..n}
  BY SetOf
<1>2. ASSUME NEW i \in 1..n, NEW j \in 1..n, i # j PROVE l[i] # l[j]
  <2>1. \A a, b \in 1..n : a < b => l[a] # l[b]
    <3> SUFFICES ASSUME NEW a \in 1..n, NEW b \in 1..n, a < b PROVE l[a] # l[b]
      OBVIOUS
    <3>1. a \in 1..(b - 1)
      BY <1>1
    <3>2. l[a] \in Before(l, b)
      BY <3>1 DEF Before
    <3>3. l[b] \notin Before(l, b)
      BY <1>1 DEF InOrder
    <3> QED
      BY <3>2, <3>3
  <2>2. i < j \/ j < i
    BY <1>1, <1>2
  <2> QED
    BY <2>1, <2>2
<1>3. l \in Bijection(1..n, T)
  BY <1>1, <1>2 DEF Bijection, Injection, Surjection, IsInjective
<1>4. Cardinality(T) = n
  <2>1. ExistsBijection(1..n, T)
    BY <1>3 DEF ExistsBijection
  <2> QED
    BY <1>1, <2>1, FS_CountingElements
<1>5. IsFiniteSet(DOMAIN g) /\ T \in SUBSET DOMAIN g
  BY <1>1 DEF Closed
<1>6. Cardinality(DOMAIN g) = Cardinality(T) => DOMAIN g = T
  BY <1>5, FS_Subset
<1> QED
  BY <1>4, <1>6

(* What is left when nothing can be popped depends on what is left. *)
LEMMA LeftIsCyclic ==
  ASSUME NEW g, Closed(g), NEW l \in Seq(DOMAIN g), Ready(g, l) = {}, ToSet(l) # DOMAIN g
  PROVE  Cyclic(g)
<1> DEFINE S == DOMAIN g \ ToSet(l)
<1>1. ToSet(l) \subseteq DOMAIN g
  BY SetOf
<1>2. S \in (SUBSET DOMAIN g) \ {{}}
  BY <1>1
<1>3. ASSUME NEW n \in S PROVE S \cap ToSet(g[n]) # {}
  <2>1. ~(ToSet(g[n]) \subseteq ToSet(l))
    BY <1>3 DEF Ready
  <2>2. ToSet(g[n]) \subseteq DOMAIN g
    BY <1>3 DEF Closed
  <2> QED
    BY <2>1, <2>2
<1> QED
  BY <1>2, <1>3 DEF Cyclic

(* In a graph whose nodes are in order, nothing can depend on itself. *)
LEMMA OrderedIsAcyclic ==
  ASSUME NEW g, NEW l \in Seq(DOMAIN g), InOrder(g, l), ToSet(l) = DOMAIN g
  PROVE  ~Cyclic(g)
<1> SUFFICES ASSUME NEW S \in (SUBSET DOMAIN g) \ {{}}, \A n \in S : S \cap ToSet(g[n]) # {}
             PROVE  FALSE
  BY DEF Cyclic
<1> DEFINE N == Len(l)
           I == {i \in 1..N : l[i] \in S}
<1>1. N \in Nat /\ DOMAIN l = 1..N /\ ToSet(l) = {l[i] : i \in 1..N}
  BY SetOf
<1>2. I \in SUBSET Nat /\ I # {}
  <2>1. PICK x : x \in S
    OBVIOUS
  <2>2. PICK i \in 1..N : l[i] = x
    BY <1>1, <2>1
  <2>3. i \in I
    BY <2>1, <2>2
  <2>4. I \subseteq Nat
    BY <1>1
  <2> QED
    BY <2>3, <2>4
<1>3. PICK i \in I : \A j \in I : ~(j < i)
  BY <1>2, LeastIndex
<1>4. i \in 1..N /\ l[i] \in S
  BY <1>3
<1>5. PICK x : x \in S /\ x \in ToSet(g[l[i]])
  BY <1>4
<1>6. x \in Before(l, i)
  BY <1>1, <1>4, <1>5 DEF InOrder
<1>7. PICK j \in 1..(i - 1) : x = l[j]
  BY <1>6 DEF Before
<1>8. j \in 1..N /\ j < i
  BY <1>1, <1>4, <1>7
<1> QED
  BY <1>3, <1>5, <1>7, <1>8

----------------------------------------------------------------------------
(* The steps of Load. *)

LEMMA InitInv == Init => IInv
<1> SUFFICES ASSUME Init PROVE IInv
  OBVIOUS
<1>1. /\ project \in Projects /\ pc = "qualify" /\ deps = project.deps /\ nodes = <<>>
      /\ flat_list = <<>>
  BY DEF Init
<1>2. project.deps \in [Targets -> Seq(Names \cup BuildFiles)]
  BY <1>1, ProjectAssumption
<1>3. DOMAIN nodes = {} /\ DOMAIN flat_list = {}
  BY <1>1
<1>4. Closed(nodes)
  BY <1>3, FS_EmptySet DEF Closed
<1>5. flat_list \in Seq(DOMAIN nodes) /\ InOrder(nodes, flat_list)
  BY <1>1, <1>3 DEF InOrder
<1>6. CycleFound
  BY <1>1 DEF CycleFound, AfterFlat, Settings
<1> QED
  BY <1>1, <1>2, <1>4, <1>5, <1>6 DEF IInv, Flattening

(* Steps that do not touch the graph. *)
LEMMA GraphKept ==
  ASSUME IInv, UNCHANGED <<project, nodes, flat_list>>, DOMAIN deps' = Targets,
         pc \notin Flattening, pc' \notin Flattening \cup {"file_cycle", "target_cycle", "prune"},
         pc' \in AfterFlat => pc \in AfterFlat \ {"prune"},
         pc' = "build" => ~project.circularCheck,
         Unpruned' => Unpruned
  PROVE  IInv'
<1>1. CycleFound'
  <2>1. pc \in AfterFlat => ~Cyclic(nodes)
    BY HasCycleIs DEF IInv, CycleFound
  <2>2. HasCycle(DOMAIN nodes)' <=> Cyclic(nodes)
    BY DEF HasCycle, Cyclic
  <2> QED
    BY <2>1, <2>2 DEF CycleFound
<1> QED
  BY <1>1 DEF IInv

LEMMA ListsInv ==
  ASSUME IInv,
         QualifyDependencies \/ RemoveSelfDependencies \/ ExpandWildcardDependencies
           \/ ProcessListFilters \/ RemoveDuplicateDependencies
  PROVE  IInv'
<1>1. /\ UNCHANGED <<project, nodes, flat_list>>
      /\ pc \in {"qualify", "self", "wildcards", "filters", "duplicates"}
      /\ pc' \in {"self", "wildcards", "filters", "duplicates", "files", "build", "GypError",
                 "KeyError"}
      /\ pc' = "build" => ~project.circularCheck
  BY DEF QualifyDependencies, RemoveSelfDependencies, ExpandWildcardDependencies,
     ProcessListFilters, RemoveDuplicateDependencies
<1>2. DOMAIN deps' = Targets
  <2>1. DOMAIN deps = Targets
    BY DEF IInv
  <2>2. CASE deps' = deps
    BY <2>1, <2>2
  <2>3. CASE RemoveSelfDependencies
    BY <2>3 DEF RemoveSelfDependencies
  <2>4. CASE ExpandWildcardDependencies /\ deps' # deps
    BY <2>4 DEF ExpandWildcardDependencies
  <2>5. CASE ProcessListFilters
    BY <2>5 DEF ProcessListFilters
  <2>6. CASE RemoveDuplicateDependencies
    BY <2>6 DEF RemoveDuplicateDependencies
  <2> QED
    BY <2>2, <2>3, <2>4, <2>5, <2>6 DEF QualifyDependencies
<1>3. Unpruned
  BY <1>1 DEF Unpruned, Settings
<1>4. /\ pc \notin Flattening /\ pc' \notin Flattening \cup {"file_cycle", "target_cycle", "prune"}
      /\ pc' \notin AfterFlat
  BY <1>1 DEF Flattening, AfterFlat, Settings
<1> QED
  BY <1>1, <1>2, <1>3, <1>4, GraphKept

LEMMA SettingsInv ==
  ASSUME IInv, (\E k \in Settings : DoDependentSettings(k)) \/ AdjustStaticLibraryDependencies
  PROVE  IInv'
<1>1. CASE \E k \in Settings : DoDependentSettings(k)
  <2>1. PICK k \in Settings : DoDependentSettings(k)
    BY <1>1
  <2>2. pc = k /\ pc' = AfterSettings(k) /\ UNCHANGED <<project, nodes, flat_list, deps>>
    BY <2>1 DEF DoDependentSettings
  <2>3. pc' \in {"direct_dependent_settings", "link_settings", "adjust"}
    BY <2>2 DEF AfterSettings, Settings
  <2>4. DOMAIN deps' = Targets
    BY <2>2 DEF IInv
  <2>5. /\ pc \notin Flattening /\ pc' \notin Flattening \cup {"file_cycle", "target_cycle", "prune", "build"}
        /\ pc \in AfterFlat \ {"prune"} /\ (Unpruned' => Unpruned)
    BY <2>1, <2>2, <2>3 DEF Flattening, AfterFlat, Settings, Unpruned
  <2> QED
    BY <2>2, <2>4, <2>5, GraphKept
<1>2. CASE AdjustStaticLibraryDependencies
  <2>1. pc = "adjust" /\ pc' = "done" /\ UNCHANGED <<project, nodes, flat_list>>
    BY <1>2 DEF AdjustStaticLibraryDependencies
  <2>2. DOMAIN deps' = Targets
    BY <1>2 DEF AdjustStaticLibraryDependencies
  <2>3. /\ pc \notin Flattening /\ pc' \notin Flattening \cup {"file_cycle", "target_cycle", "prune", "build"}
        /\ pc \in AfterFlat \ {"prune"} /\ (Unpruned' => Unpruned)
    BY <2>1 DEF Flattening, AfterFlat, Settings, Unpruned
  <2> QED
    BY <2>1, <2>2, <2>3, GraphKept
<1> QED
  BY <1>1, <1>2

(* A graph is made, and nothing is in the list yet. *)
LEMMA MakeInv ==
  ASSUME IInv, NEW g, NEW label \in Flattening, IsFiniteSet(DOMAIN g), MakeNodes(g, label),
         pc \in {"files", "build"}, UNCHANGED <<project, deps>>
  PROVE  IInv'
<1>1. project' \in Projects /\ DOMAIN deps' = Targets
  BY DEF IInv
<1>2. CASE \A n \in DOMAIN g : ToSet(g[n]) \subseteq DOMAIN g
  <2>1. nodes' = g /\ zeros' = {n \in DOMAIN g : ToSet(g[n]) = {}} /\ flat_list' = <<>> /\ pc' = label
    BY <1>2 DEF MakeNodes
  <2>2. Closed(g)
    BY <1>2 DEF Closed
  <2>3. <<>> \in Seq(DOMAIN g) /\ DOMAIN <<>> = {} /\ ToSet(<<>>) = {}
    BY DEF ToSet
  <2>4. InOrder(g, <<>>) /\ zeros' = Ready(g, <<>>)
    BY <2>1, <2>3 DEF InOrder, Ready
  <2>5. CycleFound' /\ pc' # "prune"
    BY <2>1 DEF CycleFound, Flattening, AfterFlat, Settings
  <2> QED
    BY <1>1, <2>1, <2>2, <2>3, <2>4, <2>5 DEF IInv
<1>3. CASE ~(\A n \in DOMAIN g : ToSet(g[n]) \subseteq DOMAIN g)
  <2>1. pc' = "GypError" /\ nodes' = nodes /\ flat_list' = flat_list
    BY <1>3 DEF MakeNodes
  <2>2. CycleFound' /\ pc' # "prune" /\ pc' \notin Flattening
    BY <2>1 DEF CycleFound, Flattening, AfterFlat, Settings
  <2>3. Unpruned
    BY DEF Unpruned, Settings
  <2>4. Closed(nodes) /\ flat_list \in Seq(DOMAIN nodes) /\ InOrder(nodes, flat_list)
    BY <2>3 DEF IInv
  <2> QED
    BY <1>1, <2>1, <2>2, <2>4 DEF IInv
<1> QED
  BY <1>2, <1>3

LEMMA MakeNodesInv ==
  ASSUME IInv, MakeFileNodes \/ MakeTargetNodes
  PROVE  IInv'
<1>1. CASE MakeFileNodes
  <2> DEFINE used == {project.file[t] : t \in Targets}
             f == [t \in Targets |-> project.file[t]]
             g == FileGraph
  <2>1. f \in Surjection(Targets, used)
    BY DEF Surjection
  <2>2. IsFiniteSet(used)
    BY <2>1, FS_Surjection, ProjectAssumption
  <2>3. DOMAIN g = used
    BY DEF FileGraph
  <2> HIDE DEF used, g
  <2>4. IsFiniteSet(DOMAIN g)
    BY <2>2, <2>3
  <2>5. MakeNodes(g, "flatten_files") /\ pc \in {"files", "build"} /\ UNCHANGED <<project, deps>>
    BY <1>1 DEF MakeFileNodes, g
  <2>6. "flatten_files" \in Flattening
    BY DEF Flattening
  <2> QED
    BY <2>4, <2>5, <2>6, MakeInv
<1>2. CASE MakeTargetNodes
  <2>1. IsFiniteSet(DOMAIN deps)
    BY ProjectAssumption DEF IInv
  <2>2. MakeNodes(deps, "flatten_targets") /\ pc \in {"files", "build"} /\ UNCHANGED <<project, deps>>
    BY <1>2 DEF MakeTargetNodes
  <2>3. "flatten_targets" \in Flattening
    BY DEF Flattening
  <2> QED
    BY <2>1, <2>2, <2>3, MakeInv
<1> QED
  BY <1>1, <1>2

(* What is known while a graph is sorted. *)
LEMMA Sorting ==
  ASSUME IInv, pc \in Flattening
  PROVE  /\ Closed(nodes) /\ flat_list \in Seq(DOMAIN nodes) /\ InOrder(nodes, flat_list)
         /\ zeros = Ready(nodes, flat_list) /\ Unpruned
<1>1. Unpruned
  BY DEF Unpruned, Flattening, Settings
<1> QED
  BY <1>1 DEF IInv

LEMMA FlattenInv ==
  ASSUME IInv, NEW n, Flatten(n)
  PROVE  IInv'
<1> DEFINE r == Append(flat_list, n)
<1>1. /\ pc \in Flattening /\ n \in zeros /\ flat_list' = r
      /\ zeros' = (zeros \ {n}) \cup {m \in Dependents(n) : ToSet(nodes[m]) \subseteq ToSet(r)}
      /\ project' = project /\ pc' = pc /\ deps' = deps /\ nodes' = nodes
  BY DEF Flatten, Flattening
<1>2. /\ Closed(nodes) /\ flat_list \in Seq(DOMAIN nodes) /\ InOrder(nodes, flat_list)
      /\ zeros = Ready(nodes, flat_list)
  BY <1>1, Sorting
<1>3. r = Append(flat_list, n)
  OBVIOUS
<1> HIDE DEF r
<1>4. n \in Ready(nodes, flat_list)
  BY <1>1, <1>2
<1>5. zeros' = Popped(nodes, flat_list, n, r)
  BY <1>1, <1>2 DEF Dependents, Popped
<1>6. r \in Seq(DOMAIN nodes) /\ InOrder(nodes, r) /\ Popped(nodes, flat_list, n, r) = Ready(nodes, r)
  BY <1>2, <1>3, <1>4, PopReady
<1>7. CycleFound' /\ pc' # "prune"
  BY <1>1 DEF CycleFound, Flattening, AfterFlat, Settings
<1> QED
  BY <1>1, <1>2, <1>5, <1>6, <1>7 DEF IInv

(* When nothing can be popped, the length tells whether there is a cycle. *)
LEMMA FlatTells ==
  ASSUME IInv, pc \in Flattening, zeros = {}
  PROVE  AllFlat <=> ~Cyclic(nodes)
<1>1. /\ Closed(nodes) /\ flat_list \in Seq(DOMAIN nodes) /\ InOrder(nodes, flat_list)
      /\ Ready(nodes, flat_list) = {}
  BY Sorting
<1>2. AllFlat <=> ToSet(flat_list) = DOMAIN nodes
  BY <1>1, LengthTells DEF AllFlat
<1>3. ToSet(flat_list) = DOMAIN nodes => ~Cyclic(nodes)
  BY <1>1, OrderedIsAcyclic
<1>4. ToSet(flat_list) # DOMAIN nodes => Cyclic(nodes)
  BY <1>1, LeftIsCyclic
<1> QED
  BY <1>2, <1>3, <1>4

LEMMA FlatInv ==
  ASSUME IInv, FilesFlat \/ TargetsFlat
  PROVE  IInv'
<1>1. /\ pc \in Flattening /\ zeros = {}
      /\ UNCHANGED <<project, deps, nodes, flat_list>>
      /\ pc' \in {"build", "file_cycle", "target_cycle", "prune", "all_dependent_settings"}
      /\ pc' \in {"file_cycle", "target_cycle"} <=> ~AllFlat
      /\ pc' = "prune" => project.roots # {}
      /\ pc' = "all_dependent_settings" => project.roots = {}
  BY DEF FilesFlat, TargetsFlat, Flattening
<1>2. Closed(nodes) /\ flat_list \in Seq(DOMAIN nodes) /\ InOrder(nodes, flat_list)
  BY <1>1, Sorting
<1>3. pc' \in {"file_cycle", "target_cycle"} <=> Cyclic(nodes)
  BY <1>1, FlatTells
<1>4. CycleFound'
  <2>1. HasCycle(DOMAIN nodes)' <=> Cyclic(nodes)
    BY <1>1 DEF HasCycle, Cyclic
  <2>2. pc' \in AfterFlat \cup {"build"} => pc' \notin {"file_cycle", "target_cycle"}
    BY <1>1 DEF AfterFlat, Settings
  <2> QED
    BY <1>3, <2>1, <2>2 DEF CycleFound
<1>5. pc' \notin Flattening
  BY <1>1 DEF Flattening
<1> QED
  BY <1>1, <1>2, <1>4, <1>5 DEF IInv

LEMMA PruneInv ==
  ASSUME IInv, PruneUnwantedTargets
  PROVE  IInv'
<1>1. /\ pc = "prune" /\ UNCHANGED <<project, deps, nodes>>
      /\ \/ pc' = "all_dependent_settings"
         \/ pc' = "GypError" /\ flat_list' = flat_list
  BY DEF PruneUnwantedTargets
<1>2. Unpruned' => flat_list' \in Seq(DOMAIN nodes') /\ InOrder(nodes', flat_list')
  BY <1>1 DEF IInv, Unpruned, Settings
<1>3. CycleFound'
  <2>1. ~Cyclic(nodes)
    BY <1>1, HasCycleIs DEF IInv, CycleFound, AfterFlat
  <2>2. HasCycle(DOMAIN nodes)' <=> Cyclic(nodes)
    BY <1>1 DEF HasCycle, Cyclic
  <2> QED
    BY <1>1, <2>1, <2>2 DEF CycleFound
<1> QED
  BY <1>1, <1>2, <1>3 DEF IInv, Flattening

LEMMA NextInv == IInv /\ [Next]_vars => IInv'
<1> SUFFICES ASSUME IInv, [Next]_vars PROVE IInv'
  OBVIOUS
<1>1. CASE UNCHANGED vars
  BY <1>1 DEF vars, IInv, Unpruned, CycleFound, HasCycle
<1> QED
  BY <1>1, ListsInv, SettingsInv, MakeNodesInv, FlattenInv, FlatInv, PruneInv DEF Next

(* The inductive invariant holds in every state that Load passes through. *)
THEOREM Inductive == Spec => []IInv
  BY InitInv, NextInv, PTL DEF Spec

(* Load stops for a cycle between files or targets if and only if there is *)
(* one: the loop of FlattenToList leaves out exactly the nodes that depend *)
(* on a cycle, so the length of its list tells.                            *)
THEOREM CyclesAreFound == Spec => []CycleFound
<1>1. IInv => CycleFound
  BY DEF IInv
<1> QED
  BY <1>1, Inductive, PTL

(* Until targets are pruned, and to the end if none are, the flat list has *)
(* nothing twice and everything after all that it depends on, whichever    *)
(* node FlattenToList pops.                                                *)
THEOREM FlatListInOrder ==
  Spec => []((project.roots = {} \/ pc \notin Settings \cup {"adjust", "done"}) => FlatOrder)
<1>1. IInv => ((project.roots = {} \/ pc \notin Settings \cup {"adjust", "done"}) => FlatOrder)
  BY FlatOrderIs DEF IInv, Unpruned
<1> QED
  BY <1>1, Inductive, PTL
=============================================================================
