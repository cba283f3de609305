--------------------------- MODULE GraphComposition ---------------------------
(***************************************************************************)
(* The operations of CodePropertyGraph that make one graph from another:   *)
(* merge_from, which appends a whole graph under fresh identifiers, and    *)
(* subgraph, which copies a selection under the identifiers it has         *)
(* (src/src/graph/cpg.rs).  Both are compositions of the insertions of     *)
(* GraphStore.  Two graphs grow by arbitrary insertions; then one of them  *)
(* is merged into the other, or a selection of it is extracted.            *)
(***************************************************************************)
EXTENDS GraphStore

CONSTANTS
    SourceKinds,  \* the kinds of the source graph's edges
    SourceIds,    \* identifiers the source graph's nodes may carry
    SourceRefs,   \* the embedded references a source node may hold
    SourceParents,\* the parent pointers a source node may be inserted with
    BoundaryIds,  \* identifiers recorded as CFG entries or exits of the source
    Requests,     \* the selections (sequences of NodeId) passed to subgraph
    MaxSource,    \* bounds on the nodes and edges of the two graphs
    MaxSourceEdges,
    MaxDestination

ASSUME CompositionAssumption ==
    /\ SourceKinds \subseteq Kinds
    /\ SourceIds \cup BoundaryIds \subseteq NodeId /\ SourceRefs \subseteq SUBSET NodeId
    /\ SourceParents \subseteq NodeId \cup {None}
    /\ Requests \subseteq Seq(NodeId)
    /\ {MaxSource, MaxSourceEdges, MaxDestination} \subseteq Nat
    /\ 2 * (MaxSource + MaxDestination) <= MaxId
    /\ MaxSourceEdges + MaxDestination <= MaxId

VARIABLES
    dst,     \* &mut self of merge_from
    src,     \* &other of merge_from, &self of subgraph
    before,  \* dst as merge_from found it
    remap,   \* the map merge_from returns
    request, \* the selection passed to subgraph
    sub,     \* the graph subgraph returns
    phase    \* "building", "merged" or "extracted"

vars == <<dst, src, before, remap, request, sub, phase>>

Blank == [id |-> 0, parent |-> None, children |-> <<>>, refs |-> {}]

Init ==
    /\ dst = EmptyStore /\ src = EmptyStore /\ sub = EmptyStore
    /\ before = EmptyStore /\ remap = <<>> /\ request = <<>>
    /\ phase = "building"

-------------------------------------------------------------------------------
(* merge_from *)


\* Mutant: a reference outside the source is kept as it is.
TranslateOrKeep(map, id) == IF id \in DOMAIN map THEN map[id] ELSE id

Translate(map, id) == IF id \in DOMAIN map THEN map[id] ELSE None


ByNodeId(nodes) ==
    {p \in (DOMAIN nodes) \X (DOMAIN nodes) : nodes[p[1]].id < nodes[p[2]].id}

InNodeIdOrder(nodes) ==
    LET row == Sorted(DOMAIN nodes, ByNodeId(nodes)) IN [i \in DOMAIN row |-> nodes[row[i]]]

\* A source node is appended under a fresh identifier.
AppendNode(acc, node) ==
    [graph |-> AddNode(acc.graph, node),
     remap |-> [id \in DOMAIN acc.remap \cup {node.id} |->
                   IF id = node.id THEN acc.graph.next_node_id ELSE acc.remap[id]]]

Appended(d, s) ==
    FoldLeft(AppendNode, [graph |-> d, remap |-> <<>>], InNodeIdOrder(s.nodes))


\* Mutant: the copied child list is not emptied.
TranslatedNodeKeepsChildren(node, original, map) ==
    [node EXCEPT !.parent = Translate(map, original.parent),
                 !.refs = {map[id] : id \in original.refs \cap DOMAIN map}]

\* Embedded references are translated, those to nodes outside the source are
\* dropped; the child list is emptied for the edges to fill again.
TranslatedNode(node, original, map) ==
    [node EXCEPT !.parent = Translate(map, original.parent),
                 !.children = <<>>,
                 !.refs = {map[id] : id \in original.refs \cap DOMAIN map}]

Translated(d, s, map) ==
    FoldLeft(LAMBDA g, old :
                 SetNode(g, map[old.id],
                         TranslatedNode(NodeAt(g, map[old.id]), NodeAt(s, old.id), map)),
             d,
             InNodeIdOrder(s.nodes))

\* Edges follow in source order, under fresh identifiers.
CopyEdge(g, e, map) ==
    IF {e.source, e.target} \subseteq DOMAIN map
    THEN AddEdge(g, [id |-> 0, kind |-> e.kind,
                     source |-> map[e.source], target |-> map[e.target]])
    ELSE g

WithEdges(d, s, map) ==
    FoldLeft(LAMBDA g, k : CopyEdge(g, s.edges[k], map), d, InIdOrder(s, DOMAIN s.edges))


\* Boundary lists: translated, sorted, appended without repetition.
Ascending(S) == Sorted(S, {p \in S \X S : p[1] < p[2]})

SortedImage(list, map) == Ascending({map[id] : id \in ToSet(list) \cap DOMAIN map})


WithBoundary(d, s, map) ==
    [d EXCEPT !.cfg_entries = FoldLeft(PushNew, @, SortedImage(s.cfg_entries, map)),
              !.cfg_exits = FoldLeft(PushNew, @, SortedImage(s.cfg_exits, map))]

MergeFrom(d, s) ==
    LET appended == Appended(d, s)
        map      == appended.remap
        whole    == WithBoundary(WithEdges(Translated(appended.graph, s, map), s, map), s, map)
    IN [graph |-> IF d.nodes = <<>> /\ s.root \in DOMAIN map
                  THEN [whole EXCEPT !.root = map[s.root]] ELSE whole,
        remap |-> map]

-------------------------------------------------------------------------------
(* subgraph *)


\* Mutant: a copied node keeps its child list.
SelectedWithChildren(g, ids) ==
    FoldLeft(LAMBDA acc, id :
                 IF id \in NodeIds(g)
                 THEN AddNodeWithId(acc,
                          [NodeAt(g, id) EXCEPT !.parent = IF @ \in ToSet(ids) THEN @ ELSE None])
                 ELSE acc,
             EmptyStore, ids)

SelectNode(acc, g, id, chosen) ==
    IF id \in NodeIds(g)
    THEN AddNodeWithId(acc, [NodeAt(g, id) EXCEPT !.children = <<>>,
                                                  !.parent = IF @ \in chosen THEN @ ELSE None])
    ELSE acc

Selected(g, ids) ==
    FoldLeft(LAMBDA acc, id : SelectNode(acc, g, id, ToSet(ids)), EmptyStore, ids)

SelectEdge(acc, e, chosen) ==
    IF {e.source, e.target} \subseteq chosen THEN AddEdgeWithId(acc, e) ELSE acc

Subgraph(g, ids) ==
    FoldLeft(LAMBDA acc, e : SelectEdge(acc, e, ToSet(ids)), Selected(g, ids), g.edges)

-------------------------------------------------------------------------------
(* Actions *)

Building == phase = "building"

GrowSource ==
    /\ Building /\ dst = EmptyStore
    /\ \/ /\ Len(src.nodes) < MaxSource
          /\ \E id \in SourceIds \ NodeIds(src), refs \in SourceRefs, p \in SourceParents :
               src' = AddNodeWithId(src, [Blank EXCEPT !.id = id, !.refs = refs, !.parent = p])
       \/ /\ Len(src.edges) < MaxSourceEdges
          /\ \E s, t \in NodeIds(src), kind \in SourceKinds, id \in 0..MaxSourceEdges :
               /\ \A k \in DOMAIN src.edges : src.edges[k].id # id
               /\ src' = AddEdgeWithId(src,
                            [id |-> id, source |-> s, target |-> t, kind |-> kind])
       \/ \E id \in BoundaryIds : src' \in {AddCfgEntry(src, id), AddCfgExit(src, id)}
    /\ UNCHANGED <<dst, before, remap, request, sub, phase>>

GrowDestination ==
    /\ Building
    /\ \/ /\ Len(dst.nodes) < MaxDestination
          /\ dst' = AddNode(dst, Blank)
       \/ /\ Len(dst.edges) < MaxDestination
          /\ \E s, t \in NodeIds(dst) :
               dst' = AddEdge(dst, [id |-> 0, source |-> s, target |-> t, kind |-> AstChild])
       \/ \E id \in NodeIds(dst) : dst' = AddCfgEntry(dst, id)
    /\ UNCHANGED <<src, before, remap, request, sub, phase>>

Merge ==
    /\ Building
    /\ LET merged == MergeFrom(dst, src) IN
         /\ dst' = merged.graph
         /\ remap' = merged.remap
    /\ before' = dst
    /\ phase' = "merged"
    /\ UNCHANGED <<src, request, sub>>

Extract ==
    /\ Building
    /\ \E ids \in Requests :
         /\ request' = ids
         /\ sub' = Subgraph(src, ids)
    /\ phase' = "extracted"
    /\ UNCHANGED <<dst, src, before, remap>>

Next == GrowSource \/ GrowDestination \/ Merge \/ Extract

Spec == Init /\ [][Next]_vars

-------------------------------------------------------------------------------
(* Properties *)

Merged == phase = "merged"
Extracted == phase = "extracted"

Image(ids) == {remap[id] : id \in ids}

\* The appended part is the source graph under the mapping: edges in the
\* source's EdgeId order, child lists and boundary lists included.
AppendedPartIsIsomorphic ==
    Merged =>
        LET old == Len(before.edges)
            row == InIdOrder(src, DOMAIN src.edges)
        IN /\ Len(dst.edges) = old + Len(src.edges)
           /\ \A i \in DOMAIN row :
                LET e == dst.edges[old + i]
                    o == src.edges[row[i]]
                IN e.source = remap[o.source] /\ e.target = remap[o.target] /\ e.kind = o.kind
           /\ \A id \in NodeIds(src) :
                NodeAt(dst, remap[id]).children =
                    [i \in DOMAIN NodeAt(src, id).children |-> remap[NodeAt(src, id).children[i]]]
           /\ ToSet(dst.cfg_exits) = Image(ToSet(src.cfg_exits) \cap NodeIds(src))
           /\ dst.root = IF NodeIds(before) # {} THEN before.root
                         ELSE IF src.root = None THEN None ELSE remap[src.root]

\* g holds what d holds, where d holds it.
Keeps(g, d) ==
    /\ \A i \in DOMAIN d.nodes : i \in DOMAIN g.nodes /\ g.nodes[i] = d.nodes[i]
    /\ \A k \in DOMAIN d.edges : k \in DOMAIN g.edges /\ g.edges[k] = d.edges[k]

\* Both compositions hand out graphs with unique identifiers, agreeing
\* endpoints, exact child lists and canonical parents. A merge leaves nodes and
\* edges of the destination as they were, tree metadata included, and a reference
\* that names no source node is "discarded instead of becoming a dangling
\* reference or accidentally binding to a colliding destination identifier".
CompositionsAreClosed ==
    /\ Extracted => WellFormed(sub)
    /\ Merged =>
        /\ WellFormed(dst)
        /\ Keeps(dst, before)
        /\ \A id \in NodeIds(src) :
            LET node == NodeAt(dst, remap[id])
                old  == NodeAt(src, id)
            IN /\ node.refs = Image(old.refs \cap NodeIds(src))
               /\ node.parent = IF old.parent \in NodeIds(src) THEN remap[old.parent] ELSE None

\* subgraph, "containing the specified nodes and edges between them": induced
\* edges under their own identifiers, the child order of the original, and no
\* parent outside the selection.
SubgraphIsInduced ==
    Extracted =>
        LET chosen == ToSet(request) \cap NodeIds(src)
            Public(e) == <<e.id, e.source, e.target, e.kind>>
            Kept(list) == LET row == Ascending({i \in DOMAIN list : list[i] \in chosen})
                          IN [i \in DOMAIN row |-> list[row[i]]]
        IN /\ NodeIds(sub) = chosen
           /\ {Public(sub.edges[k]) : k \in DOMAIN sub.edges} =
              {Public(e) : e \in {o \in ToSet(src.edges) : {o.source, o.target} \subseteq chosen}}
           /\ \A id \in chosen :
                /\ NodeAt(sub, id).children = Kept(NodeAt(src, id).children)
                /\ NodeAt(src, id).parent \in chosen =>
                     NodeAt(sub, id).parent = NodeAt(src, id).parent
                /\ NodeAt(sub, id).parent \in ToSet(request) \cup {None}

===============================================================================
