----------------------------- MODULE CallGraphSccs -----------------------------
(***************************************************************************)
(* call_graph_sccs (src/src/analysis/scc.rs): the resolved calls of a      *)
(* program, collapsed to caller-to-callee edges, and their decomposition   *)
(* into strongly connected components by Tarjan's algorithm with explicit  *)
(* frames, one iteration of its loop per step.                             *)
(*                                                                         *)
(* A program is a sequence of bodies; the call graph takes an edge to each *)
(* function that the evidence of a site names, and nothing else of a body. *)
(*                                                                         *)
(* A body is a record over the nodes of one function, named by small       *)
(* numbers: formals 1 and 2, two call sites with two arguments each, and   *)
(* the rest.                                                               *)
(*   sites     per call site, the functions its evidence names: the target *)
(*             stored in the call and the targets of its call edges        *)
(*   parts     <<node, AST child>>                                         *)
(*   data      <<definition, use>>, the def-use edges, which the PDG       *)
(*             repeats as data dependences                                 *)
(*   control   <<controller, dependent>>, the control dependences          *)
(*   returned  the first child of every return                             *)
(*   deep      the return expression is deeper than max_call_depth         *)
(* An empty site is an unresolved call; one with several functions is      *)
(* ambiguous.                                                              *)
(***************************************************************************)
EXTENDS Naturals, Sequences, FiniteSets, FiniteSetsExt, SequencesExt

CONSTANTS
    Programs,   \* the programs analysed first; none is empty
    MaxIndex    \* usize::MAX: the two largest numbers are not indexes

ASSUME ProgramAssumption ==
    /\ MaxIndex \in Nat
    /\ \A prog \in Programs : prog \in Seq(Range(prog)) /\ Len(prog) \in 1..(MaxIndex - 1)

VARIABLES
    program,
    discovery,        \* [function -> index, Unvisited or Assigned]
    low_link,
    next_index,
    active_nodes,     \* stack of the visited functions without a component
    dfs_stack,        \* frames <<function, successors already taken>>
    component_nodes,  \* the components popped so far
    call_graph        \* the decomposition, or Undecided until there is one

sccVars == <<discovery, low_link, next_index, active_nodes, dfs_stack, component_nodes,
             call_graph>>

Unvisited == MaxIndex
Assigned == MaxIndex - 1
Undecided == [components |-> <<>>, cyclic |-> {}, edges |-> {}]

-------------------------------------------------------------------------------
(* Helpers *)

\* The pairs <<x, y>> with y reached from x over one edge or more.
ClosureOf(edges) ==
    FoldSet(LAMBDA n, known : known \cup {<<e[1], d[2]>> :
                e \in {e \in known : e[2] = n}, d \in {d \in known : d[1] = n}},
            edges, {e[1] : e \in edges})

Callables == DOMAIN program

CallGraphEdges(prog) ==
    {e \in (DOMAIN prog) \X (DOMAIN prog) : e[2] \in UNION Range(prog[e[1]].sites)}

Ascending(S) ==
    [i \in 1..Cardinality(S) |-> CHOOSE n \in S : Cardinality({m \in S : m < n}) = i - 1]

Adjacency(f) == Ascending({g \in Callables : <<f, g>> \in CallGraphEdges(program)})

\* What is popped from the active stack down to the root of a component.
PoppedTo(root) ==
    {active_nodes[i] : i \in SelectInSeq(active_nodes, LAMBDA f : f = root)..Len(active_nodes)}

\* The public result: components by their smallest member, the cyclic ones, and
\* the condensation edges.
Decomposition(found, edges) ==
    LET smallest == Ascending({Min(c) : c \in found})
        components == [i \in DOMAIN smallest |-> CHOOSE c \in found : smallest[i] \in c]
        Owner(f) == SelectInSeq(components, LAMBDA c : f \in c)
    IN [components |-> components,
        cyclic |-> {i \in DOMAIN components :
                       \/ Cardinality(components[i]) > 1
                       \/ \E f \in components[i] : <<f, f>> \in edges},
        edges |-> {<<Owner(e[1]), Owner(e[2])>> : e \in edges}
                      \ {<<i, i>> : i \in DOMAIN components}]

-------------------------------------------------------------------------------
(* Initial states *)

NothingVisited ==
    /\ discovery = [f \in Callables |-> Unvisited]
    /\ low_link = [f \in Callables |-> 0]
    /\ next_index = 0
    /\ active_nodes = <<>> /\ dfs_stack = <<>>
    /\ component_nodes = {}
    /\ call_graph = Undecided

SccInit == program \in Programs /\ NothingVisited

-------------------------------------------------------------------------------
(* Actions *)

Discover(f, frames) ==
    /\ discovery' = [discovery EXCEPT ![f] = next_index]
    /\ low_link' = [low_link EXCEPT ![f] = next_index]
    /\ next_index' = next_index + 1
    /\ active_nodes' = Append(active_nodes, f)
    /\ dfs_stack' = Append(frames, <<f, 0>>)
    /\ UNCHANGED <<component_nodes, call_graph>>

\* The scan over the starts, in dense order.
Start ==
    /\ call_graph = Undecided /\ dfs_stack = <<>>
    /\ \E f \in Callables :
          /\ discovery[f] = Unvisited
          /\ \A earlier \in 1..(f - 1) : discovery[earlier] # Unvisited
          /\ Discover(f, <<>>)

Unfinished == dfs_stack # <<>> /\ Last(dfs_stack)[2] < Len(Adjacency(Last(dfs_stack)[1]))

Advanced == [dfs_stack EXCEPT ![Len(dfs_stack)][2] = @ + 1]

NextSuccessor == Adjacency(Last(dfs_stack)[1])[Last(dfs_stack)[2] + 1]

Descend ==
    /\ Unfinished /\ discovery[NextSuccessor] = Unvisited
    /\ Discover(NextSuccessor, Advanced)

\* An edge to a function that is still active bounds the low link by its index;
\* one into a component already popped says nothing.
Close ==
    /\ Unfinished /\ discovery[NextSuccessor] # Unvisited
    /\ LET f == Last(dfs_stack)[1] index == discovery[NextSuccessor]
       IN low_link' = [low_link EXCEPT ![f] = IF index = Assigned THEN @ ELSE Min({@, index})]
    /\ dfs_stack' = Advanced
    /\ UNCHANGED <<discovery, next_index, active_nodes, component_nodes, call_graph>>

\* Mutant: the low link of a finished function stays its own.
KeptApart(frames, f) == low_link

\* The low link reaches the parent when the child is finished.
Propagated(frames, f) ==
    IF frames = <<>> THEN low_link
    ELSE [low_link EXCEPT ![Last(frames)[1]] = Min({@, low_link[f]})]

Finish ==
    /\ dfs_stack # <<>> /\ ~Unfinished
    /\ LET f == Last(dfs_stack)[1]
           frames == Front(dfs_stack)
           popped == IF low_link[f] = discovery[f] THEN PoppedTo(f) ELSE {}
       IN /\ dfs_stack' = frames
          /\ discovery' = [g \in Callables |-> IF g \in popped THEN Assigned ELSE discovery[g]]
          /\ active_nodes' = SubSeq(active_nodes, 1, Len(active_nodes) - Cardinality(popped))
          /\ component_nodes' = IF popped = {} THEN component_nodes
                                ELSE component_nodes \cup {popped}
          /\ low_link' = Propagated(frames, f)
    /\ UNCHANGED <<next_index, call_graph>>

Number ==
    /\ call_graph = Undecided /\ dfs_stack = <<>>
    /\ \A f \in Callables : discovery[f] # Unvisited
    /\ call_graph' = Decomposition(component_nodes, CallGraphEdges(program))
    /\ UNCHANGED <<discovery, low_link, next_index, active_nodes, dfs_stack, component_nodes>>

SccNext == (Start \/ Descend \/ Close \/ Finish \/ Number) /\ UNCHANGED program

-------------------------------------------------------------------------------
(* Properties *)

\* The functions that call each other in turn, found without a search.
MutuallyRecursive(prog) ==
    LET reach == ClosureOf(CallGraphEdges(prog))
    IN {{g \in DOMAIN prog : g = f \/ {<<f, g>>, <<g, f>>} \subseteq reach} : f \in DOMAIN prog}

ExactDecomposition(prog) == Decomposition(MutuallyRecursive(prog), CallGraphEdges(prog))
===============================================================================
