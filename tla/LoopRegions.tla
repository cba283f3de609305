------------------------------ MODULE LoopRegions ------------------------------
(***************************************************************************)
(* The cyclic regions of a function's control flow and the depth-first     *)
(* order its blocks are visited in: natural loops, irreducible regions     *)
(* (src/src/analysis/loops.rs) and traversal_orders                        *)
(* (src/src/analysis/basic_blocks.rs).  A function is a record of          *)
(* FunctionCfg.  Every node is a block of its own: a loop header has two   *)
(* predecessors or is the entry, so it is always the leader of its block.  *)
(***************************************************************************)
EXTENDS FunctionCfg, SequencesExt

Least(S) == CHOOSE m \in S : \A n \in S : m <= n

-------------------------------------------------------------------------------
(* The depth-first search both files run, successors in ascending order. *)

\* What is left of the search: each node as it is finished, with its ancestors.
SearchFrom(f) ==
    LET finish[s \in Seq(LocalNodes) \X SUBSET LocalNodes] ==
            LET path == s[1]
                fresh == {e[2] : e \in {x \in ViewEdges(f) : x[1] = Last(path)}} \ s[2]
            IN IF path = <<>> THEN <<>>
               ELSE IF fresh = {} THEN << <<Last(path), ToSet(path)>> >>
                                           \o finish[<<Front(path), s[2]>>]
               ELSE finish[<<Append(path, Least(fresh)), s[2] \cup {Least(fresh)}>>]
    IN finish[<< <<FunctionNode>>, {FunctionNode} >>]

\* Every node of the view is reached from the entry: there are no further roots.
PostOrder(f) ==
    LET search == SearchFrom(f) IN [i \in DOMAIN search |-> search[i][1]]

\* is_dfs_ancestor, as pairs <<ancestor, node>>
DfsAncestry(f) ==
    UNION {{<<a, done[1]>> : a \in done[2]} : done \in ToSet(SearchFrom(f))}

-------------------------------------------------------------------------------
(* loop_forest: natural loops *)

BackEdges(f) ==
    LET g == ForwardGraph(f)
        under == [h \in ViewNodes(f) |-> Dominated(g, h)]
    IN {e \in ViewEdges(f) : e[1] \in under[e[2]]}

NaturalHeaders(f) == {e[2] : e \in BackEdges(f)}
LatchesOf(f, header) == {e[1] : e \in {x \in BackEdges(f) : x[2] = header}}

\* Mutant: the predecessors of the latches are not followed.
HeaderAndLatches(f, header) == {header} \cup LatchesOf(f, header)

\* Backwards from the latches, never past the header.
NaturalBody(f, header) ==
    LET inner == ViewNodes(f) \ {header}
        backward == {<<e[2], e[1]>> : e \in ViewEdges(f) \cap (inner \X inner)}
    IN {header} \cup ReachedFrom(LatchesOf(f, header), inner, backward)

RegionEntries(f, body) ==
    {e[2] : e \in {x \in ViewEdges(f) : x[1] \notin body /\ x[2] \in body}}

NaturalLoop(f, header) ==
    LET body == NaturalBody(f, header)
        outer == RegionEntries(f, body)
    IN [header |-> header, latches |-> LatchesOf(f, header), body |-> body,
        entries |-> IF outer = {} THEN {header} ELSE outer, irreducible |-> FALSE]

-------------------------------------------------------------------------------
(* append_irreducible_regions *)

\* The strongly connected components that hold a cycle.
CyclicComponents(f) ==
    LET linked == ConnectionsIn([node |-> ViewNodes(f), edge |-> ViewEdges(f)])
        component == [n \in ViewNodes(f) |-> {m \in ViewNodes(f) : linked[n, m] /\ linked[m, n]}]
    IN {component[e[1]] : e \in {x \in ViewEdges(f) : x[2] \in component[x[1]]}}


\* Mutant: back edges of natural loops are taken for retreating edges too.
RetreatingOrBack(f, body) ==
    {e \in ViewEdges(f) \cap (body \X body) : <<e[2], e[1]>> \in DfsAncestry(f)}

\* Edges to a node the search was still under, whose head does not dominate the tail.
Retreating(f, body) ==
    {e \in ViewEdges(f) \cap (body \X body) :
        <<e[2], e[1]>> \in DfsAncestry(f) /\ e \notin BackEdges(f)}

IrreducibleComponents(f) == {body \in CyclicComponents(f) : Retreating(f, body) # {}}

IrreducibleRegion(f, body) ==
    LET outer == RegionEntries(f, body)
        header == Least(IF outer = {} THEN body ELSE outer)
    IN [header |-> header, latches |-> {e[1] : e \in Retreating(f, body)}, body |-> body,
        entries |-> IF outer = {} THEN {header} ELSE outer, irreducible |-> TRUE]

\* The blocks solve_with_policy may widen at.
LoopHeaders(f) ==
    NaturalHeaders(f)
        \cup {IrreducibleRegion(f, body).header : body \in IrreducibleComponents(f)}

-------------------------------------------------------------------------------
(* block_cfg: what a data-flow problem reads of a function's blocks. *)

BlockCfg(f, direction) ==
    [blocks |-> ViewNodes(f), entry |-> FunctionNode, exits |-> ExitLike(f),
     edges |-> ViewEdges(f), direction |-> direction, headers |-> LoopHeaders(f),
     order |-> IF direction = "Forward" THEN Reverse(PostOrder(f)) ELSE PostOrder(f)]

===============================================================================
