------------------------------ MODULE DominatorTree ----------------------------
(***************************************************************************)
(* compute_dominators (src/src/analysis/dominators.rs), one step at a      *)
(* time, on the forward graph of a function (dominator_tree) or on its     *)
(* reversed one (post_dominator_tree): a depth-first search for a reverse  *)
(* postorder, passes that intersect the dominators of the processed        *)
(* predecessors until one changes nothing, and the walk that fills the     *)
(* dominance frontiers.  The passes are capped; a caller that meets the    *)
(* cap drops every control dependence of the function without a word       *)
(* (compute_control_dependence).                                           *)
(*                                                                         *)
(* Left out: the Euler intervals and the sorted children, which are        *)
(* renderings of idom.                                                     *)
(***************************************************************************)
EXTENDS FunctionCfg, SequencesExt

CONSTANTS
    CfgEdges,    \* edges a function may have
    Stops,       \* its Return and Throw nodes
    ExitSets,    \* the sets of exits that may be recorded
    None

ASSUME DominatorAssumption ==
    /\ CfgEdges \subseteq LocalNodes \X LocalNodes
    /\ Stops \subseteq LocalNodes /\ ExitSets \subseteq SUBSET LocalNodes
    /\ None \notin Nat

VARIABLES
    cfg,        \* the function
    graph,      \* the graph whose dominators are wanted
    pass_limit,
    phase,      \* "search", "passes", "frontier", "done", "limit"
    stack,      \* frames <<node, successors already taken>>
    visited, postorder,
    idom,       \* [graph.node -> graph.node or None]
    at,         \* position in reverse postorder of the next node
    changed, pass,
    frontier    \* [graph.node -> set of joins]

vars == <<cfg, graph, pass_limit, phase, stack, visited, postorder, idom, at, changed,
          pass, frontier>>

Functions == [edges: SUBSET CfgEdges, stops: {Stops}, exits: ExitSets, flows: {{}}]

-------------------------------------------------------------------------------
(* Helpers *)

Ascending(S) == SetToSortSeq(S, <)

SuccessorRow(n) == Ascending({m \in graph.node : <<n, m>> \in graph.edge})
\* In code order: the row of real predecessors, then the synthetic one.
PredecessorRow(n) == Ascending({m \in graph.node : <<m, n>> \in graph.edge})

ReversePostorder == Reverse(postorder)
Position(n) == CHOOSE i \in DOMAIN ReversePostorder : ReversePostorder[i] = n

\* Walks the deeper finger up until the two meet.
Intersect(left, right) ==
    LET position == [n \in graph.node |-> IF n \in visited THEN Position(n) ELSE 0]
        walk[fingers \in visited \X visited] ==
            LET l == fingers[1] r == fingers[2]
            IN IF l = r THEN l
               ELSE IF position[l] > position[r] THEN walk[<<idom[l], r>>]
               ELSE walk[<<l, idom[r]>>]
    IN walk[<<left, right>>]

Processed(n) == SelectSeq(PredecessorRow(n), LAMBDA p : idom[p] # None)


\* Mutant: the first processed predecessor is taken for the dominator.
FirstProcessed(n) == Head(Processed(n))

Candidate(n) ==
    LET known == Processed(n)
    IN FoldLeft(LAMBDA best, p : Intersect(p, best), Head(known), Tail(known))

-------------------------------------------------------------------------------
(* Initial states: any function, either direction. *)

Setup(g, limit) ==
    /\ graph = g /\ pass_limit = limit
    /\ phase = "search"
    /\ stack = << <<g.root, 0>> >>
    /\ visited = {g.root} /\ postorder = <<>>
    /\ idom = [n \in g.node |-> IF n = g.root THEN g.root ELSE None]
    /\ at = 2 /\ changed = FALSE /\ pass = 1
    /\ frontier = [n \in g.node |-> {}]

Init ==
    /\ cfg \in Functions
    /\ \/ Setup(ForwardGraph(cfg), MaxNode + 2)
       \/ /\ ~NoPostDominators(cfg)
          /\ Setup(BackwardGraph(cfg), Cardinality(ViewNodes(cfg)) + 3)

-------------------------------------------------------------------------------
(* reverse_postorder *)

Frame == stack[Len(stack)]
Row == SuccessorRow(Frame[1])


SearchDeeper ==
    /\ phase = "search" /\ stack # <<>>
    /\ Frame[2] < Len(Row)
    /\ LET next == Row[Frame[2] + 1]
           taken == [stack EXCEPT ![Len(stack)][2] = @ + 1]
       IN /\ stack' = IF next \in visited THEN taken ELSE Append(taken, <<next, 0>>)
          /\ visited' = visited \cup {next}
    /\ UNCHANGED <<cfg, graph, pass_limit, phase, postorder, idom, at, changed, pass, frontier>>

SearchReturn ==
    /\ phase = "search" /\ stack # <<>>
    /\ Frame[2] = Len(Row)
    /\ postorder' = Append(postorder, Frame[1])
    /\ stack' = Front(stack)
    /\ phase' = IF Len(stack) = 1 THEN "passes" ELSE phase
    /\ UNCHANGED <<cfg, graph, pass_limit, visited, idom, at, changed, pass, frontier>>

-------------------------------------------------------------------------------
(* The passes *)

InPass == phase = "passes" /\ at <= Len(postorder)

VisitNode ==
    /\ InPass
    /\ LET node == ReversePostorder[at] IN
       IF Processed(node) = <<>> THEN UNCHANGED <<idom, changed>>
       ELSE /\ idom' = [idom EXCEPT ![node] = Candidate(node)]
            /\ changed' = (changed \/ idom[node] # Candidate(node))
    /\ at' = at + 1
    /\ UNCHANGED <<cfg, graph, pass_limit, phase, stack, visited, postorder, pass, frontier>>

EndOfPass == phase = "passes" /\ at > Len(postorder)


\* Mutant: the flag of the previous pass is not reset.
NextPassStale ==
    /\ EndOfPass /\ changed
    /\ IF pass < pass_limit
       THEN pass' = pass + 1 /\ at' = 2 /\ UNCHANGED phase
       ELSE phase' = "limit" /\ UNCHANGED <<pass, at>>
    /\ UNCHANGED <<cfg, graph, pass_limit, stack, visited, postorder, idom, changed, frontier>>

\* The last pass allowed ends in Err(IterationLimitExceeded) if it changed anything.
NextPass ==
    /\ EndOfPass /\ changed
    /\ IF pass < pass_limit
       THEN pass' = pass + 1 /\ at' = 2 /\ changed' = FALSE /\ UNCHANGED phase
       ELSE phase' = "limit" /\ UNCHANGED <<pass, at, changed>>
    /\ UNCHANGED <<cfg, graph, pass_limit, stack, visited, postorder, idom, frontier>>

Converge ==
    /\ EndOfPass /\ ~changed
    /\ phase' = "frontier" /\ at' = 1
    /\ UNCHANGED <<cfg, graph, pass_limit, stack, visited, postorder, idom, changed, pass, frontier>>

-------------------------------------------------------------------------------
(* dominance_frontier, one join a step *)


\* Mutant: the walk stops after the predecessor itself.
FirstRunner(from, stop) == {from} \ {stop}

\* The runners of a predecessor: up the tree, to the join's dominator.
Runners(from, stop) ==
    LET climb[n \in visited] ==
            IF n = stop THEN {}
            ELSE IF idom[n] = n THEN {n}
            ELSE {n} \cup climb[idom[n]]
    IN climb[from]


\* The distinguished root has an implicit predecessor outside the graph.
Joins(n) == Len(Processed(n)) >= (IF n = graph.root THEN 1 ELSE 2)

VisitJoin ==
    /\ phase = "frontier" /\ at <= Len(postorder)
    /\ LET join == ReversePostorder[at]
           runners == IF ~Joins(join) THEN {}
                      ELSE UNION {Runners(p, idom[join]) : p \in ToSet(Processed(join))}
                               \cup (IF join = graph.root THEN {join} ELSE {})
       IN frontier' = [n \in graph.node |->
                          frontier[n] \cup (IF n \in runners THEN {join} ELSE {})]
    /\ at' = at + 1
    /\ UNCHANGED <<cfg, graph, pass_limit, phase, stack, visited, postorder, idom, changed, pass>>

Finish ==
    /\ phase = "frontier" /\ at > Len(postorder)
    /\ phase' = "done"
    /\ UNCHANGED <<cfg, graph, pass_limit, stack, visited, postorder, idom, at, changed, pass, frontier>>

Search == SearchDeeper \/ SearchReturn
Passes == VisitNode \/ NextPass \/ Converge

Next == Search \/ Passes \/ VisitJoin \/ Finish

Spec == Init /\ [][Next]_vars

-------------------------------------------------------------------------------
(* Properties *)

Backward == graph.root = VirtualExit

(* Once a pass changes nothing, idom[n] is the closest strict dominator of *)
(* n: the strict dominators of n are the dominators of idom[n].            *)
ImmediateDominatorsAreExact ==
    phase \in {"frontier", "done"} =>
        \A n \in graph.node :
            IF n \notin Live(graph) THEN idom[n] = None
            ELSE n # graph.root =>
                \A a \in graph.node :
                    a # n /\ n \in Dominated(graph, a) <=> idom[n] \in Dominated(graph, a)

(* control_dependence_edges: <<a, b>> is reported exactly if b             *)
(* post-dominates a successor of a and not a itself                        *)
(* (src/src/builder/pdg.rs:34-36).                                         *)
ControlDependenceIsExact ==
    phase = "done" /\ Backward =>
        {<<a, b>> \in ViewNodes(cfg) \X ViewNodes(cfg) : a \in frontier[b]}
            = ControlDependence(cfg)

===============================================================================
