----------------------------- MODULE MCGypGraph -----------------------------
(* Small instances of GypGraph. *)
EXTENDS GypGraph

CONSTANTS a, b, c, d, f, g, h, k, m, n

(* A function of the targets. *)
Fn(x, y, z, w) == [t \in Targets |-> CASE t = a -> x [] t = b -> y [] t = c -> z [] t = d -> w]

(* Targets that depend on nothing, are of no type and have no options. *)
Plain ==
  [file |-> [t \in Names |-> CASE t \in {a, b} -> f [] t \in {c, m} -> g [] t = d -> h [] t = n -> k],
   type |-> [t \in Targets |-> "none"],
   deps |-> [t \in Targets |-> <<>>], exports |-> [t \in Targets |-> <<>>],
   noDeps |-> [t \in Targets |-> {}], noExports |-> [t \in Targets |-> {}],
   pruneSelf |-> {}, suppress |-> {}, hard |-> {}, noTraverse |-> {}, noPropagate |-> {},
   roots |-> {}, bare |-> {}, circularCheck |-> TRUE, sort |-> TRUE]

Lists(S) == {SetToSeq(s) : s \in SUBSET S}

(* Every graph of three targets, cycles included, above a fourth. *)
Graphs ==
  {[Plain EXCEPT !.deps = Fn(x, y, z, <<>>), !.circularCheck = check,
                 !.pruneSelf = IF check THEN {a, c} ELSE {}] :
     x \in Lists({a, b, c}), y \in Lists({a, b, c, d}), z \in Lists({a, b, c}),
     check \in BOOLEAN}

(* Duplicates, wildcards and exclusions. *)
Cleanups ==
  {[Plain EXCEPT !.deps = Fn(x, <<>>, y, z),
                 !.exports = Fn(<<>>, <<>>, e, <<>>),
                 !.suppress = s, !.noDeps[c] = nd, !.noExports[c] = ne, !.type[c] = "static_library",
                 !.type[d] = "static_library", !.type[a] = "static_library", !.hard = {a},
                 !.circularCheck = (y # <<a, b, a>>)] :
     x \in {<<>>, <<b, b>>, <<f>>, <<g>>}, y \in {<<f>>, <<a, b, a>>, <<a>>, <<>>},
     z \in {<<c>>, <<f, g>>}, e \in {<<>>, <<a>>, <<f>>}, s \in {{}, {b}},
     nd \in {{}, {a}, {a, b}, {f}}, ne \in {{}, {a}}}

(* Acyclic graphs of four targets of all types. *)
Builds ==
  {[Plain EXCEPT !.deps = Fn(<<>>, x, y, z),
                 !.exports = IF all THEN Fn(<<>>, x, y, <<>>)
                             ELSE [t \in Targets |-> <<>>],
                 !.type = Fn("static_library", tb, tc, td),
                 !.hard = IF opt THEN {a} ELSE {}, !.noTraverse = IF opt THEN {b} ELSE {},
                 !.noPropagate = IF opt THEN {d} ELSE {}, !.roots = r,
                 !.circularCheck = FALSE, !.sort = opt] :
     x \in Lists({a}), y \in Lists({a, b}), z \in Lists({a, b, c}),
     all \in BOOLEAN, tb \in {"static_library", "none", "shared_library"},
     tc \in {"static_library", "none", "executable"},
     td \in {"executable", "static_library"}, r \in {{}, {c}}, opt \in BOOLEAN}

(* Names that file g does not have, roots that are not found, and a file   *)
(* without targets.                                                        *)
Typos ==
  {[Plain EXCEPT !.deps = Fn(x, <<>>, y, <<>>), !.noDeps[a] = nd, !.circularCheck = check,
                 !.roots = r, !.bare = e] :
     x \in {<<m>>, <<b, m>>, <<c, m>>, <<n, m>>, <<k, m>>, <<m, f, k>>},
     y \in {<<>>, <<a>>, <<n>>, <<k, g>>}, nd \in {{}, {m}}, check \in BOOLEAN,
     r \in {{}, {a, m}}, e \in {{}, {k}}}

MCProjects == Graphs \cup Cleanups \cup Builds \cup Typos
=============================================================================
