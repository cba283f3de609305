--------------------------- MODULE ProjectionCache ----------------------------
(***************************************************************************)
(* CpgProjectionCache (src/src/graph/projection_cache.rs): the read index  *)
(* that CodePropertyGraph builds lazily from its petgraph storage, and the *)
(* lookups that answer traversal queries from it.                          *)
(***************************************************************************)
EXTENDS GraphStore

-------------------------------------------------------------------------------
(* Orders *)

\* Rust's comparison of tuples, component by component.
LexLess(a, b) ==
    \E i \in DOMAIN a : a[i] < b[i] /\ \A j \in 1..(i - 1) : a[j] = b[j]

\* partition_point: the length of the prefix whose positions, and no others,
\* pass the test.
PartitionPoint(passing) == CHOOSE k \in 0..Cardinality(passing) : passing = 1..k

\* The sort keys of CsrOrder for the edge stored at position k.
ForwardKey(g, k) ==
    LET e == g.edges[k] IN <<LayerOf[e.kind], e.target, e.id, k>>

\* Mutant: a reverse row is sorted by edge identifier, not by source.
ReverseKeyById(g, k) ==
    LET e == g.edges[k] IN <<LayerOf[e.kind], e.id, k>>

ReverseKey(g, k) ==
    LET e == g.edges[k] IN <<LayerOf[e.kind], e.source, e.id, k>>
ByTargetKey(g, k) ==
    LET e == g.edges[k] IN <<e.target, LayerOf[e.kind], e.id, k>>

-------------------------------------------------------------------------------
(* Construction *)

\* adjacency_csr: one sorted row of edge positions for each stored node.
AdjacencyCsr(g, Owner(_), Key(_, _)) ==
    [index \in 1..Len(g.nodes) |->
        Sorted({k \in DOMAIN g.edges : Owner(g.edges[k]) = index},
               {p \in (DOMAIN g.edges) \X (DOMAIN g.edges) :
                   LexLess(Key(g, p[1]), Key(g, p[2]))})]

From(e) == e.from
To(e) == e.to

\* What build and build_dense_node_metadata are given of a graph.
Petgraph(g) == [nodes |-> g.nodes, edges |-> g.edges]

\* build: the NodeIndex values by ascending NodeId, and the three row tables.
BuildIndex(g) ==
    LET byTarget == AdjacencyCsr(g, From, ByTargetKey) IN
    [node_indices |-> Sorted(DOMAIN g.nodes,
         {p \in (DOMAIN g.nodes) \X (DOMAIN g.nodes) : g.nodes[p[1]].id < g.nodes[p[2]].id}),
     forward |-> AdjacencyCsr(g, From, ForwardKey),
     reverse |-> AdjacencyCsr(g, To, ReverseKey),
     by_target |-> byTarget,
     by_target_nodes |-> [index \in DOMAIN byTarget |->
         [i \in DOMAIN byTarget[index] |-> g.edges[byTarget[index][i]].target]]]

\* build_dense_node_metadata: identifiers in ascending order with their unique
\* degrees.  A row of by_target keeps parallel edges next to each other, so an
\* edge counts when its target differs from its predecessor's in the row.
CountedIn(c, index) ==
    {i \in DOMAIN c.by_target[index] :
        i = 1 \/ c.by_target_nodes[index][i] # c.by_target_nodes[index][i - 1]}

BuildDenseNodes(g, c) ==
    LET ordered == c.node_indices
        entering(index) == {p \in (DOMAIN c.by_target) \X (1..Len(g.edges)) :
                               /\ p[2] \in CountedIn(c, p[1])
                               /\ g.edges[c.by_target[p[1]][p[2]]].to = index}
    IN [ids |-> [d \in DOMAIN ordered |-> g.nodes[ordered[d]].id],
        outgoing |-> [d \in DOMAIN ordered |-> Cardinality(CountedIn(c, ordered[d]))],
        incoming |-> [d \in DOMAIN ordered |-> Cardinality(entering(ordered[d]))]]

-------------------------------------------------------------------------------
(* Lookups: sequences of edge positions *)

Row(g, csr, id) == IF id \in NodeIds(g) THEN csr[g.node_index_map[id]] ELSE <<>>

LayerSlice(g, row, layer) ==
    LET rank(i) == LayerOf[g.edges[row[i]].kind]
        start   == PartitionPoint({i \in DOMAIN row : rank(i) < layer})
        end     == PartitionPoint({i \in DOMAIN row : rank(i) <= layer})
    IN SubSeq(row, start + 1, end)

Outgoing(g, c, id) == Row(g, c.forward, id)
Incoming(g, c, id) == Row(g, c.reverse, id)
OutgoingLayer(g, c, id, layer) == LayerSlice(g, Row(g, c.forward, id), layer)
IncomingLayer(g, c, id, layer) == LayerSlice(g, Row(g, c.reverse, id), layer)

\* layer: the whole overlay, row after row in node_indices order.
Layer(g, c, layer) ==
    FlattenSeq([d \in DOMAIN c.node_indices |->
        LayerSlice(g, c.forward[c.node_indices[d]], layer)])

Between(g, c, source, target) ==
    IF source \notin NodeIds(g) THEN <<>>
    ELSE LET index   == g.node_index_map[source]
             targets == c.by_target_nodes[index]
             start   == PartitionPoint({i \in DOMAIN targets : targets[i] < target})
             end     == PartitionPoint({i \in DOMAIN targets : targets[i] <= target})
         IN SubSeq(c.by_target[index], start + 1, end)

===============================================================================
