------------------------------ MODULE GraphStore ------------------------------
(***************************************************************************)
(* The graph container of libcpg as a data type: the logical fields of     *)
(* CodePropertyGraph (src/src/graph/cpg.rs) as one record, and its         *)
(* operations as functions from graphs to graphs.  The derived read index  *)
(* (projection_cache) is not part of the logical graph; it is modelled in  *)
(* ProjectionCache.                                                        *)
(*                                                                         *)
(* petgraph's DiGraph is a sequence of node weights and a sequence of edge *)
(* weights; a NodeIndex is a position of the first, an EdgeIndex of the    *)
(* second.  NodeId and EdgeId are u32, with MaxId for u32::MAX.            *)
(***************************************************************************)
EXTENDS Integers, Sequences, SequencesExt

CONSTANTS
    MaxId,     \* u32::MAX
    Kinds,     \* the edge kinds an instance uses
    None     \* Option<NodeId>::None

ASSUME MaxIdAssumption == MaxId \in Nat \ {0}
ASSUME NoneAssumption == None \notin Nat

NodeId == 0..MaxId
EdgeId == 0..MaxId

\* edge_layer: the overlay of an edge kind, as its rank in EdgeLayer.
LayerOf ==
    [AstChild |-> 0, AstNextSibling |-> 0, ControlFlow |-> 1, DataFlow |-> 2,
     ControlDependence |-> 3, DataDependence |-> 3, Heap |-> 4, NameFlow |-> 5,
     RewriteDep |-> 6, StaticCall |-> 7, DynamicCall |-> 7, CallSite |-> 7,
     Exports |-> 8, Imports |-> 8, Reference |-> 8, EnclosingScope |-> 8,
     ContainedIn |-> 8, PlaceCapability |-> 9]

AstChild == "AstChild"

ASSUME KindsAssumption == Kinds \subseteq DOMAIN LayerOf /\ AstChild \in Kinds

-------------------------------------------------------------------------------
(* Values *)

\* CpgNode: its identity, its AST metadata, and refs, the node identifiers
\* embedded in its kind (a call's target, an identifier's definition, a
\* lambda's captures).
Node == [id: NodeId, parent: NodeId \cup {None}, children: Seq(NodeId),
         refs: SUBSET NodeId]

\* CpgEdge, with the petgraph endpoints (from, to) it is stored under.
Edge == [id: EdgeId, source: NodeId, target: NodeId, kind: Kinds,
         from: Nat \ {0}, to: Nat \ {0}]

EmptyStore ==
    [nodes |-> <<>>, node_index_map |-> <<>>, edges |-> <<>>,
     next_node_id |-> 0, next_edge_id |-> 0, root |-> None,
     cfg_entries |-> <<>>, cfg_exits |-> <<>>]

NodeIds(g) == DOMAIN g.node_index_map
NodeAt(g, id) == g.nodes[g.node_index_map[id]]


\* Mutant: the successor does not saturate.
WrappingSucc(n) == n + 1

\* id.saturating_add(1), and the counter update of the take_next functions.
SaturatingSucc(n) == IF n = MaxId THEN MaxId ELSE n + 1
Higher(m, n) == IF m < n THEN n ELSE m

-------------------------------------------------------------------------------
(* Nodes *)


\* Mutant: no assertion guards the last identifier.
AlwaysTakeNodeId(g) == TRUE

\* The assertion of take_next_node_id: the last identifier is handed out once.
CanTakeNodeId(g) == g.next_node_id = MaxId => MaxId \notin NodeIds(g)

PushNode(g, node, next) ==
    [g EXCEPT
        !.nodes = Append(@, node),
        !.node_index_map = [id \in DOMAIN @ \cup {node.id} |->
            IF id = node.id THEN Len(g.nodes) + 1 ELSE g.node_index_map[id]],
        !.next_node_id = next,
        !.root = IF @ = None THEN node.id ELSE @]

AddNode(g, node) ==
    PushNode(g, [node EXCEPT !.id = g.next_node_id], SaturatingSucc(g.next_node_id))


\* The identifier is the caller's: nothing checks that it is free.
AddNodeWithId(g, node) ==
    PushNode(g, node, Higher(g.next_node_id, SaturatingSucc(node.id)))

\* Writing through the reference node_mut returns: f is the updated node.
SetNode(g, id, f) == [g EXCEPT !.nodes[g.node_index_map[id]] = f]

-------------------------------------------------------------------------------
(* Edges *)

CanTakeEdgeId(g) ==
    g.next_edge_id = MaxId => \A k \in DOMAIN g.edges : g.edges[k].id # MaxId

HasEndpoints(g, e) == {e.source, e.target} \subseteq NodeIds(g)


\* Mutant: edges are kept in the order of their identifiers.
LinkEdgeSorted(g, e, next) ==
    LET stored == [id |-> e.id, source |-> e.source, target |-> e.target, kind |-> e.kind,
                   from |-> g.node_index_map[e.source], to |-> g.node_index_map[e.target]]
    IN [g EXCEPT !.edges = SortSeq(Append(@, stored), LAMBDA a, b : a.id < b.id),
                 !.next_edge_id = next]

LinkEdge(g, e, next) ==
    [g EXCEPT
        !.edges = Append(@,
            [id |-> e.id, source |-> e.source, target |-> e.target, kind |-> e.kind,
             from |-> g.node_index_map[e.source], to |-> g.node_index_map[e.target]]),
        !.next_edge_id = next]

\* The AstChild edges that enter, respectively leave, the stored node `index`.
AstInto(g, index) ==
    {k \in DOMAIN g.edges : g.edges[k].kind = AstChild /\ g.edges[k].to = index}
AstOutOf(g, index) ==
    {k \in DOMAIN g.edges : g.edges[k].kind = AstChild /\ g.edges[k].from = index}


\* Whether an appended AST edge supplies the canonical parent.
AppendedAstParentNeedsUpdate(g, index, source) ==
    LET parent == g.nodes[index].parent IN
    \/ parent = None
    \/ parent # source /\ AstInto(g, index) = {}


\* index_appended_ast_child: the child is appended to its parent's list.
IndexAppendedAstChild(g, e, replaceParent) ==
    LET pushed == SetNode(g, e.source,
                      [NodeAt(g, e.source) EXCEPT !.children = Append(@, e.target)])
    IN IF replaceParent
       THEN SetNode(pushed, e.target, [NodeAt(pushed, e.target) EXCEPT !.parent = e.source])
       ELSE pushed

AddEdge(g, e) ==
    LET taken  == [e EXCEPT !.id = g.next_edge_id]
        linked == LinkEdge(g, taken, SaturatingSucc(g.next_edge_id))
    IN IF e.kind = AstChild
       THEN IndexAppendedAstChild(linked, taken,
                AppendedAstParentNeedsUpdate(g, g.node_index_map[e.target], e.source))
       ELSE linked

\* What sort_unstable_by_key makes of S when no two members share their key:
\* `before` holds the pairs of which the first has the smaller key.
Sorted(S, before) ==
    [i \in 1..Cardinality(S) |->
        CHOOSE k \in S : Cardinality({j \in S : <<j, k>> \in before}) = i - 1]

ByEdgeId(g) ==
    {p \in (DOMAIN g.edges) \X (DOMAIN g.edges) : g.edges[p[1]].id < g.edges[p[2]].id}

\* The edges of `ks` (positions) in ascending EdgeId order.
InIdOrder(g, ks) == Sorted(ks, ByEdgeId(g))

AstRow(g, index) ==
    LET row == InIdOrder(g, AstOutOf(g, index))
    IN [i \in 1..Len(row) |-> g.edges[row[i]].target]

\* The source of the lowest-numbered AstChild edge into the node, if any.
LowestAstSource(g, index) ==
    IF AstInto(g, index) = {} THEN None
    ELSE LET first == CHOOSE k \in AstInto(g, index) :
                        \A j \in AstInto(g, index) : g.edges[k].id <= g.edges[j].id
         IN g.edges[first].source

RebuildAstChildren(g, id) ==
    SetNode(g, id, [NodeAt(g, id) EXCEPT !.children = AstRow(g, g.node_index_map[id])])

RebuildAstParent(g, id) ==
    SetNode(g, id, [NodeAt(g, id) EXCEPT !.parent = LowestAstSource(g, g.node_index_map[id])])


\* Mutant: an explicitly numbered child is appended as if it were the newest.
AddEdgeWithIdAppending(g, e) ==
    LET linked == LinkEdge(g, e, Higher(g.next_edge_id, SaturatingSucc(e.id)))
    IN IF e.kind = AstChild
       THEN RebuildAstParent(IndexAppendedAstChild(linked, e, FALSE), e.target)
       ELSE linked

AddEdgeWithId(g, e) ==
    LET linked == LinkEdge(g, e, Higher(g.next_edge_id, SaturatingSucc(e.id)))
    IN IF e.kind = AstChild
       THEN RebuildAstParent(RebuildAstChildren(linked, e.source), e.target)
       ELSE linked

\* The edges connect_unique looks for before it adds one.
Identical(g, e) ==
    {k \in DOMAIN g.edges : /\ g.edges[k].from = g.node_index_map[e.source]
                            /\ g.edges[k].to = g.node_index_map[e.target]
                            /\ g.edges[k].kind = e.kind}

ConnectUnique(g, e) == IF Identical(g, e) = {} THEN AddEdge(g, e) ELSE g

-------------------------------------------------------------------------------
(* CFG metadata *)

PushNew(list, id) == IF id \in ToSet(list) THEN list ELSE Append(list, id)

AddCfgEntry(g, id) == [g EXCEPT !.cfg_entries = PushNew(@, id)]
AddCfgExit(g, id)  == [g EXCEPT !.cfg_exits = PushNew(@, id)]

-------------------------------------------------------------------------------
(* What a graph built through these operations satisfies *)

UniqueIdentifiers(g) ==
    /\ \A i \in DOMAIN g.nodes : /\ g.nodes[i].id \in NodeIds(g)
                                 /\ g.node_index_map[g.nodes[i].id] = i
    /\ \A id \in NodeIds(g) : /\ g.node_index_map[id] \in DOMAIN g.nodes
                              /\ NodeAt(g, id).id = id
    /\ \A j, k \in DOMAIN g.edges : g.edges[j].id = g.edges[k].id => j = k

EndpointsStored(g) ==
    \A k \in DOMAIN g.edges :
        LET e == g.edges[k] IN
        /\ HasEndpoints(g, e)
        /\ g.node_index_map[e.source] = e.from
        /\ g.node_index_map[e.target] = e.to

ChildListsExact(g) == \A i \in DOMAIN g.nodes : g.nodes[i].children = AstRow(g, i)

ParentsCanonical(g) ==
    \A i \in DOMAIN g.nodes :
        AstInto(g, i) # {} => g.nodes[i].parent = LowestAstSource(g, i)

WellFormed(g) ==
    /\ UniqueIdentifiers(g) /\ EndpointsStored(g)
    /\ ChildListsExact(g) /\ ParentsCanonical(g)

===============================================================================
