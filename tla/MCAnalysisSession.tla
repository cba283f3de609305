---------------------------- MODULE MCAnalysisSession ----------------------------
(***************************************************************************)
(* What a caller does with a graph once it is built: it asks one family of *)
(* analyses at a time, each a function of the graph, so that the families  *)
(* interleave with nothing. A session is one of                            *)
(*   "overlays"   ProgramOverlays: control and data flow, then a run       *)
(*   "strands"    ConcurrentRun: the concurrency analyses, then a run      *)
(*   "calls"      SystemDependence: components, summaries and slices       *)
(*   "matching"   Vf2Matcher: the embeddings of a pattern                  *)
(*   "edits"      GraphEdits: the distance to another graph and the diff   *)
(* and the properties are those of the five modules.                       *)
(*                                                                         *)
(* Below is what a session is run on. Syntax and strands are in MCPrograms; *)
(* here are every call structure of three functions over a few bodies,     *)
(* recursions of four and slices of a handful of programs; small patterns  *)
(* and targets; and pairs of graphs to compare.                            *)
(***************************************************************************)
EXTENDS ProgramOverlays, ConcurrentRun, SystemDependence, Vf2Matcher, GraphEdits

VARIABLE study

NoSyntax == [kind |-> <<>>, children |-> <<>>, name |-> <<>>, callee |-> <<>>]
NoBuild == config = "none" /\ NoOverlays
NoRequest == request = "none" /\ NoStrands
NoCalls == program = <<>> /\ NothingVisited /\ NothingSolved /\ NothingSliced

NoPair == NoMatching /\ NothingCompared

SessionInit ==
    \/ study = "overlays" /\ InitOverlays /\ NoRequest /\ NoCalls /\ NoPair
    \/ study = "strands" /\ InitStrands /\ NoBuild /\ NoCalls /\ NoPair
    \/ /\ ast = NoSyntax /\ NoBuild /\ NoRequest
       /\ \/ study = "calls" /\ InitSlices /\ NoPair
          \/ study = "matching" /\ InitMatching /\ NoCalls /\ NothingCompared
          \/ study = "edits" /\ InitEdits /\ NoCalls /\ NoMatching

SessionNext ==
    /\ \/ study = "overlays" /\ NextOverlays /\ UNCHANGED <<strandVars, allVars, matchVars, editVars>>
       \/ /\ study = "strands" /\ NextStrands
          /\ UNCHANGED <<cfgVars, dfgVars, runVars, allVars, matchVars, editVars>>
       \/ study = "calls" /\ SliceNext /\ UNCHANGED <<overlayVars, strandVars, matchVars, editVars>>
       \/ study = "matching" /\ NextMatching /\ UNCHANGED <<overlayVars, strandVars, allVars, editVars>>
       \/ study = "edits" /\ NextEdits /\ UNCHANGED <<overlayVars, strandVars, allVars, matchVars>>
    /\ UNCHANGED study

SessionSpec ==
    SessionInit
        /\ [][SessionNext]_<<study, overlayVars, strandVars, allVars, matchVars, editVars>>

-------------------------------------------------------------------------------
(* Programs *)

Syntax == INSTANCE MCPrograms

SessionBuilds == Syntax!SomeBuilds
SessionStrands == Syntax!Everything
EarlyReturn == Syntax!EarlyReturn
Upgrading == Syntax!Upgrading

-------------------------------------------------------------------------------
(* Call structures *)

Code(sites, parts, data, guarded, returned) ==
    [sites |-> sites, parts |-> parts, data |-> data, control |-> guarded,
     returned |-> returned, deep |-> FALSE]

\* return a;  return 1;
Identity == Code(<<>>, {}, {<<1, 3>>}, {}, {3})
Constant == Code(<<>>, {}, {}, {}, {3})
\* return a long expression of b;
Deep == [Code(<<>>, {<<3, 10>>}, {<<2, 10>>}, {}, {3}) EXCEPT !.deep = TRUE]
\* loop { x = x + a }  return x;
Loop == Code(<<>>, {<<8, 9>>, <<8, 10>>}, {<<8, 9>>, <<1, 10>>, <<8, 3>>}, {}, {3})
\* return g(a, b);
Pass(site) == Code(<<site>>, {}, {<<1, 5>>, <<2, 6>>}, {}, {4})
\* if a { return g(b, a) } return b;
Swap(site) == Code(<<site>>, {}, {<<2, 5>>, <<1, 6>>, <<2, 3>>, <<1, 10>>}, {<<10, 4>>}, {3, 4})
\* if g(b, a) { return a }
Guard(site) == Code(<<site>>, {}, {<<2, 5>>, <<1, 6>>, <<1, 3>>}, {<<4, 3>>}, {3})
\* g(b, 1); return a;
Drop(site) == Code(<<site>>, {}, {<<2, 5>>, <<1, 3>>}, {}, {3})
\* let x = g(a, 1); return h(x, b);
Both(site, next) ==
    Code(<<site, next>>, {<<10, 4>>}, {<<1, 5>>, <<10, 8>>, <<2, 9>>}, {}, {7})
\* loop { x = g(b, x); if a { return a } }  return x;
Chase(site) ==
    Code(<<site>>, {<<10, 4>>}, {<<2, 5>>, <<10, 6>>, <<1, 3>>, <<10, 8>>}, {<<1, 3>>}, {3, 8})

Bodies ==
    {Pass({g}) : g \in 1..3} \cup {Pass({}), Pass({1, 2}), Swap({1}), Swap({2}), Drop({3}),
      Both({2}, {3}), Both({3}, {1}), Identity, Deep, Loop}
Rewritten == {Constant, Pass({1}), Both({1}, {2})}

\* Cycles against the order of the names, with it, two that share a function,
\* recursions that are called from outside, and one that hands on first one formal,
\* then the other, then a cap.
Rings == {
    << Swap({4}), Pass({1}), Pass({2}), Pass({3}) >>,
    << Pass({2}), Swap({3}), Pass({4}), Pass({1}) >>,
    << Both({2}, {3}), Pass({1}), Pass({4}), Both({1}, {}) >>,
    << Pass({2}), Pass({3}), Pass({4}), Both({2}, {3}) >>,
    << Pass({3}), Swap({4}), Both({2}, {3}), Both({2}, {4}) >>,
    << Pass({2}), Pass({3}), Pass({4}), Chase({1}) >> }

\* Two calls of one function, of one that loses an argument, of an ambiguous
\* one, of one with a capped summary, through a wrapper, in a recursion, and one
\* whose argument is found sooner through the formal it feeds than as a dependence.
Sharing == {
    << Pass({2}), Guard({2}), Constant >>,
    << Both({2}, {2}), Identity, Constant >>,
    << Both({2}, {3}), Swap({3}), Drop({1}) >>,
    << Both({2, 3}, {3}), Identity, Deep >>,
    << Both({3}, {2}), Pass({3}), Loop >>,
    << Both({2}, {3}), Swap({2}), Pass({1}) >>,
    << Both({2}, {1}), Pass({}), Constant >> }

SomePrograms == [1..3 -> Bodies] \cup Rings \cup Sharing

Caps(f, w, r, x) == [functions |-> f, worklist |-> w, rounds |-> r, facts |-> x]
Ask(caps, lattice, seeds, slices) ==
    [caps |-> caps, lattice |-> lattice, seeds |-> seeds, slices |-> slices]

NoSeeds == {}
OwnSeeds == {<<1, 1, 1>>, <<1, 1, 2>>}

Slices(prog) ==
    [criterion: UNION {{Name(f, n) : n \in LocalNames \ {2, 10}} : f \in DOMAIN prog},
     direction: {"Incoming", "Outgoing"}, max_nodes: {4, 9, 99}, max_call_depth: {0, 1, 99}]

Requests(prog) ==
    {Ask(Caps(9, 99, 99, 9), l, NoSeeds, {}) : l \in {"eager", "silent", "lossy"}}
        \cup {Ask(Caps(9, w, 9, 9), "lawful", NoSeeds, {}) : w \in {0, 2, 4, 6, 9}}
        \cup {Ask(Caps(9, 99, r, 9), "lawful", NoSeeds, {}) : r \in 0..4}
        \cup {Ask(Caps(9, 99, 11, x), "lawful", OwnSeeds, {}) : x \in 1..2}
        \cup {Ask(Caps(3, 99, 9, 9), "lawful", {<<2, p, 1>>}, {}) : p \in {Nowhere, 1}}
        \cup {Ask(Caps(9, 99, 9, 9), "lawful", NoSeeds,
                  IF prog \in Sharing THEN Slices(prog) ELSE {})}

-------------------------------------------------------------------------------
(* Patterns and targets *)

Joining(source, target, kind) == [source |-> source, target |-> target, kind |-> kind]
Graph(kinds, edges) == [kinds |-> kinds, edges |-> edges]
Plain(n, ends) == Graph([i \in 1..n |-> "If"], {Joining(p[1], p[2], "AstChild") : p \in ends})

\* Every pattern of three nodes over five edges.
Shapes == {Plain(3, S) : S \in SUBSET {<<1, 2>>, <<2, 1>>, <<2, 3>>, <<1, 3>>, <<3, 3>>}}

Diamond == Plain(4, {<<1, 2>>, <<1, 3>>, <<2, 4>>, <<3, 4>>})
Chain == Plain(5, {<<5, 4>>, <<4, 3>>, <<3, 2>>, <<2, 1>>, <<3, 3>>})
Clique == Plain(4, (1..3) \X (1..3))
Islands == Plain(5, {<<1, 4>>, <<4, 1>>, <<2, 5>>, <<5, 5>>})

\* Kinds of one group, parallel edges, and kinds that no group has.
Loopy == Graph(<<"If", "While", "Call">>,
               {Joining(1, 2, "Sequential"), Joining(2, 1, "LoopBack"), Joining(2, 3, "AstChild"),
                Joining(2, 3, "ControlDependence")})
Caller == Graph(<<"Function", "Identifier", "Call", "Variable">>,
                {Joining(1, 4, "AstChild"), Joining(4, 3, "AstNextSibling"), Joining(3, 1, "StaticCall"),
                 Joining(2, 1, "CallSite"), Joining(4, 2, "AstChild")})
Leaving == Graph(<<"Break", "Throw", "Continue", "While">>,
                 {Joining(4, 1, "AstChild"), Joining(4, 2, "AstChild"), Joining(1, 3, "AstNextSibling")})
Mixed == {
    Graph(<<"While", "If">>, {Joining(1, 2, "LoopBack"), Joining(2, 1, "Sequential")}),
    Graph(<<"If", "Call">>, {Joining(1, 2, "AstChild"), Joining(1, 2, "AstNextSibling")}),
    Graph(<<"While", "Identifier">>, {Joining(1, 2, "ControlDependence")}),
    Graph(<<"Function", "Call">>, {Joining(2, 1, "CallSite")}),
    Graph(<<"Call", "Variable">>, {}),
    Graph(<<"While", "Break">>, {Joining(1, 2, "AstChild")}),
    Graph(<<"Continue">>, {}), NoGraph }

Search(pattern, target, strict, max_matches, limit) ==
    [pattern |-> pattern, target |-> target, strict_kinds |-> strict[1], strict_edges |-> strict[2],
     max_matches |-> max_matches, limit |-> limit]
Unlimited == 1000

SomeSearches ==
    {Search(p, t, <<FALSE, FALSE>>, m, Unlimited) :
         p \in Shapes, t \in {Diamond, Chain, Clique, Islands}, m \in {0, 2}}
        \cup {Search(p, t, <<k, e>>, 0, l) :
                  p \in Mixed, t \in {Loopy, Caller, Leaving}, k \in BOOLEAN, e \in BOOLEAN,
                  l \in {0, 1, Unlimited}}
        \cup {Search(t, t, <<TRUE, TRUE>>, m, 2) : t \in {Diamond, Islands, Loopy, Caller}, m \in {0, 1, 3}}

-------------------------------------------------------------------------------
(* Graphs to compare *)

Bare(tag) == [tag |-> tag, payload |-> 0, links |-> <<>>]
Arc(source, target, kind, label) == [source |-> source, target |-> target, kind |-> kind, label |-> label]
Edited(nodes, edges) == [nodes |-> nodes, edges |-> edges]

Down == Arc(1, 2, "AstChild", 0)
Up == Arc(2, 1, "Reference", 0)
Own == Arc(1, 1, "Reference", 0)

\* Every graph of two nodes over two tags and a few multisets of edges.
Tiny ==
    {NoNodes} \cup {Edited(<<Bare(t)>>, e) : t \in {"If", "Call"}, e \in {<<>>, <<Own>>, <<Own, Own>>}}
        \cup {Edited(<<Bare(t), Bare(u)>>, e) :
                  t \in {"If", "Call"}, u \in {"If", "Call"},
                  e \in {<<>>, <<Down>>, <<Down, Down>>, <<Up>>, <<Up, Down, Own>>}}

Three(edges) == Edited([i \in 1..3 |-> Bare("If")], edges)
Ring == Three(<<Down, Arc(2, 3, "AstChild", 0), Arc(3, 1, "AstChild", 0)>>)
Backwards == Three(<<Arc(2, 1, "AstChild", 0), Arc(1, 3, "AstChild", 0), Arc(3, 2, "AstChild", 0)>>)
Branching == Three(<<Down, Arc(1, 3, "AstChild", 0)>>)
Star == Three(<<Down, Down, Arc(3, 2, "AstChild", 0), Arc(3, 3, "AstChild", 0)>>)

Default == [node_sub |-> 4, node_ins_del |-> 4, edge_ins_del |-> 2]
FreeNodes == [node_sub |-> 2, node_ins_del |-> 0, edge_ins_del |-> 4]
DearLabels == [node_sub |-> 40, node_ins_del |-> 4, edge_ins_del |-> 0]
Free == [node_sub |-> 0, node_ins_del |-> 0, edge_ins_del |-> 0]

Compare(first, second, prices, max_nodes) ==
    [call |-> "ged_upper_bound", first |-> first, second |-> second, costs |-> prices,
     max_nodes |-> max_nodes, max_edges |-> 0, max_edits |-> 0]

\* Functions with dependences: a node may refer to another one, edges carry labels.
Refer(tag, payload, to) == [tag |-> tag, payload |-> payload, links |-> <<to>>]
Guarded == Edited(<<Bare("If"), Refer("Call", 1, 1)>>,
                <<Arc(1, 2, "AstChild", 0), Arc(1, 2, "ControlDependence", 0)>>)
Renamed == Edited(<<Refer("Call", 2, 2), Bare("If")>>,
                  <<Arc(2, 1, "AstChild", 0), Arc(2, 1, "ControlDependence", 0)>>)
Unguarded == Edited(<<Bare("If"), Refer("Call", 1, 1)>>, <<Arc(1, 2, "AstChild", 0)>>)
Moved == Edited(<<Bare("If"), Refer("Call", 1, 1)>>,
                <<Arc(1, 2, "AstChild", 0), Arc(2, 1, "ControlDependence", 0)>>)
Flowing == Edited(<<Bare("If"), Refer("Call", 1, 1)>>,
               <<Arc(1, 2, "AstChild", 0), Arc(1, 2, "DataDependence", 0)>>)
Labelled == Edited(<<Bare("If"), Refer("Call", 1, 1)>>,
                   <<Arc(1, 2, "ControlDependence", 2), Arc(1, 2, "Reference", 0), Arc(1, 2, "Reference", 1)>>)
Relabelled == Edited(<<Bare("If"), Refer("Call", 1, 1)>>,
                     <<Arc(1, 2, "ControlDependence", 1), Arc(1, 2, "Reference", 1), Arc(1, 2, "AstChild", 0),
                       Arc(1, 2, "Reference", 2)>>)
Inserted == Edited(<<Bare("If"), Bare("If"), Refer("Call", 1, 2)>>,
                   <<Arc(1, 2, "AstChild", 0), Arc(2, 3, "AstChild", 0), Arc(2, 3, "ControlDependence", 0),
                     Arc(1, 3, "ControlDependence", 0)>>)
Versions == {Guarded, Renamed, Unguarded, Moved, Flowing, Labelled, Relabelled, Inserted, NoNodes, Ring, Star}

DiffOf(old, new, max_edges, max_edits) ==
    [call |-> "cpg_diff", first |-> old, second |-> new, costs |-> Default, max_nodes |-> 3,
     max_edges |-> max_edges, max_edits |-> max_edits]

SomeComparisons ==
    {Compare(g, h, Default, 512) : g \in Tiny, h \in Tiny}
        \cup {Compare(g, h, c, 512) : g \in {Ring, Backwards, Branching, Star}, h \in {Ring, Backwards, Branching, Star},
                                      c \in {Default, FreeNodes, DearLabels, Free}}
        \cup {Compare(Ring, g, Default, 2) : g \in Tiny}
        \cup {DiffOf(g, h, 4, n) : g \in Versions, h \in Versions, n \in {3, 99}}
        \cup {DiffOf(g, h, 2, 99) : g \in {Guarded, Labelled}, h \in Versions}
===============================================================================
