------------------------------- MODULE FunctionCfg -----------------------------
(***************************************************************************)
(* The control-flow view of one function (src/src/analysis/cfg_scope.rs),  *)
(* the two graphs whose dominators the library computes on it              *)
(* (src/src/analysis/dominators.rs), and what dominance, frontiers and     *)
(* control dependence mean on them, stated by paths and not by the         *)
(* algorithm.                                                              *)
(*                                                                         *)
(* A function is a record with the fields                                  *)
(*   edges  its intraprocedural CFG edges (Call edges left out),           *)
(*   stops  its Return and Throw nodes,                                    *)
(*   exits  the nodes recorded by add_cfg_exit,                            *)
(*   flows  its def-use and reaching-definition edges,                     *)
(* over the nodes 1..MaxNode, of which 1 is the function node.             *)
(***************************************************************************)
EXTENDS Naturals, FiniteSets, Graphs

CONSTANT MaxNode   \* bound on the nodes of a function

ASSUME MaxNodeAssumption == MaxNode \in Nat \ {0}

FunctionNode == 1
LocalNodes == 1..MaxNode

\* post_dominator_tree numbers the synthetic exit after every real node.
VirtualExit == MaxNode + 1

ReachedFrom(roots, nodes, edges) ==
    LET linked == ConnectionsIn([node |-> nodes, edge |-> edges])
    IN {n \in nodes : \E r \in roots \cap nodes : linked[r, n]}

-------------------------------------------------------------------------------
(* function_cfg_view *)

ViewNodes(f) == ReachedFrom({FunctionNode}, LocalNodes, f.edges)
ViewEdges(f) == {e \in f.edges : e[1] \in ViewNodes(f) /\ e[2] \in ViewNodes(f)}

ExitLike(f) ==
    {n \in ViewNodes(f) :
        \/ \A e \in ViewEdges(f) : e[1] # n
        \/ n \in f.stops
        \/ n \in f.exits}

-------------------------------------------------------------------------------
(* The graphs: node set, edges and the root dominance starts from. *)

\* DenseAdjacency::projection over every node, reachable or not.
ForwardGraph(f) == [root |-> FunctionNode, node |-> LocalNodes, edge |-> f.edges]

\* Nodes of a region that cannot leave are tied to the synthetic exit too.
SyntheticSuccessors(f) ==
    LET backward == {<<e[2], e[1]>> : e \in ViewEdges(f)}
    IN ExitLike(f) \cup (ViewNodes(f) \ ReachedFrom(ExitLike(f), ViewNodes(f), backward))

\* DenseAdjacency::post_dominators: the CFG reversed, under a synthetic root.
BackwardGraph(f) ==
    [root |-> VirtualExit,
     node |-> ViewNodes(f) \cup {VirtualExit},
     edge |-> {<<e[2], e[1]>> : e \in ViewEdges(f)}
                  \cup {<<VirtualExit, n>> : n \in SyntheticSuccessors(f)}]

\* post_dominator_tree answers with the empty tree instead.
NoPostDominators(f) == Cardinality(ViewNodes(f)) < 2 \/ ExitLike(f) = {}

-------------------------------------------------------------------------------
(* Meaning, by paths *)

Live(g) == ReachedFrom({g.root}, g.node, g.edge)

\* Every path from the root to b passes through a.
Dominated(g, a) ==
    LET rest == g.node \ {a}
        kept == {e \in g.edge : e[1] # a /\ e[2] # a}
    IN Live(g) \ ReachedFrom({g.root}, rest, kept)

\* Where the dominance of a ends: the nodes entered from under a, yet not
\* strictly under it.
FrontierOf(g, a) ==
    {join \in Live(g) :
        /\ \E e \in g.edge : e[2] = join /\ e[1] \in Dominated(g, a)
        /\ join = a \/ join \notin Dominated(g, a)}

\* The pairs <<a, b>> where b post-dominates a successor of a but not (strictly)
\* a itself.
ControlDependence(f) ==
    IF NoPostDominators(f) THEN {}
    ELSE LET g == BackwardGraph(f)
             under == [b \in ViewNodes(f) |-> Dominated(g, b)]
         IN {d \in ViewNodes(f) \X ViewNodes(f) :
               /\ \E e \in ViewEdges(f) : e[1] = d[1] /\ e[2] \in under[d[2]]
               /\ d[1] = d[2] \/ d[1] \notin under[d[2]]}

\* compute_data_dependence: the flows with both ends in the function.
DataDependence(f) == f.flows \cap (LocalNodes \X LocalNodes)

===============================================================================
