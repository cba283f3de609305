--------------------------- MODULE CodePropertyGraph --------------------------
(***************************************************************************)
(* One CodePropertyGraph value and the threads that share it               *)
(* (src/src/graph/cpg.rs): mutations through &mut self, and reads through  *)
(* &self that build the projection cache on first use under a OnceLock.    *)
(* Rust's borrow rules order the two: a mutation needs the graph alone, a  *)
(* read keeps its borrow for as long as the caller holds the returned view.*)
(***************************************************************************)
EXTENDS ProjectionCache

CONSTANTS
    Readers,    \* threads that hold a shared reference
    Queries,    \* the reads they may issue, see Query
    NewNodes,   \* the node values callers insert
    NewKinds,   \* the kinds of the edges callers insert
    Boundary,   \* the nodes extraction records as CFG entries or exits
    MaxNodes,   \* bound on stored nodes
    MaxEdges    \* bound on stored edges

ASSUME BoundsAssumption ==
    /\ MaxNodes \in Nat /\ MaxEdges \in Nat
    /\ NewNodes \subseteq Node /\ NewKinds \subseteq Kinds

\* A node is inserted without children: outside of tests with_child has no
\* caller, merge_from and subgraph clear the list, and AST edges extend it.
ASSUME LoneAssumption == \A node \in NewNodes : node.children = <<>>

VARIABLES
    graph,             \* the logical fields
    projection_cache,  \* OnceLock<Box<CpgProjectionCache>>
    readers            \* what each reading thread is doing

vars == <<graph, projection_cache, readers>>

Query == [op: {"outgoing", "incoming", "layer", "between", "dense"},
          node: NodeId, other: NodeId, layer: 0..9]

ASSUME QueriesAssumption == Queries \subseteq Query

\* A OnceLock is empty, inside its initialiser, or set for good.
OnceLock == [state: {"empty", "running", "ready"}]
Unset == [state |-> "empty", value |-> None]
UnsetCache == [state |-> "empty", value |-> None, dense |-> Unset]

Idle == [pc |-> "idle", query |-> None, view |-> None]

Init ==
    /\ graph = EmptyStore
    /\ projection_cache = UnsetCache
    /\ readers = [r \in Readers |-> Idle]

-------------------------------------------------------------------------------
(* Mutations *)

\* &mut self: no shared reference is alive.
Exclusive == \A r \in Readers : readers[r].pc = "idle"


\* Mutant: a mutation leaves the built index in place.
KeepIndex == UNCHANGED projection_cache

\* invalidate_projection_cache takes the value out of the OnceLock.
Invalidate == projection_cache' = UnsetCache

RoomForNode == Len(graph.nodes) < MaxNodes
RoomForEdge == Len(graph.edges) < MaxEdges

\* At u32::MAX the assertion of take_next_node_id panics before anything has
\* changed, which is no step here.
AddNodeStep(node) ==
    /\ Exclusive /\ RoomForNode
    /\ CanTakeNodeId(graph)
    /\ graph' = AddNode(graph, node)
    /\ Invalidate
    /\ UNCHANGED readers

\* The identifier is free: node.rs calls it unique, and nothing here checks it.
AddNodeWithIdStep(node) ==
    /\ Exclusive /\ RoomForNode
    /\ node.id \notin NodeIds(graph)
    /\ graph' = AddNodeWithId(graph, node)
    /\ Invalidate
    /\ UNCHANGED readers

\* node_mut empties the cache whether or not it finds the node; its callers
\* (call resolution, for one) write embedded references through it.
NodeMut(id, refs) ==
    /\ Exclusive
    /\ Invalidate
    /\ graph' = IF id \in NodeIds(graph)
                THEN SetNode(graph, id, [NodeAt(graph, id) EXCEPT !.refs = refs])
                ELSE graph
    /\ UNCHANGED readers

\* An insertion that names a missing endpoint returns None and changes nothing.
AddEdgeStep(e) ==
    /\ Exclusive /\ RoomForEdge
    /\ HasEndpoints(graph, e)
    /\ CanTakeEdgeId(graph)
    /\ graph' = AddEdge(graph, e)
    /\ Invalidate
    /\ UNCHANGED readers

AddEdgeWithIdStep(e) ==
    /\ Exclusive /\ RoomForEdge
    /\ HasEndpoints(graph, e)
    /\ \A k \in DOMAIN graph.edges : graph.edges[k].id # e.id
    /\ graph' = AddEdgeWithId(graph, e)
    /\ Invalidate
    /\ UNCHANGED readers

\* An identical edge makes connect_unique a read of the native adjacency.
ConnectUniqueStep(e) ==
    /\ Exclusive /\ RoomForEdge
    /\ HasEndpoints(graph, e)
    /\ Identical(graph, e) # {} \/ CanTakeEdgeId(graph)
    /\ graph' = ConnectUnique(graph, e)
    /\ IF Identical(graph, e) = {} THEN Invalidate ELSE UNCHANGED projection_cache
    /\ UNCHANGED readers

\* The boundary lists are not topology: the cache stays.
AddCfgBoundary(id) ==
    /\ Exclusive
    /\ graph' \in {AddCfgEntry(graph, id), AddCfgExit(graph, id)}
    /\ UNCHANGED <<projection_cache, readers>>

\* The program continues with a clone (or a deserialized copy): same logical
\* fields, cache not carried over.
CloneStep ==
    /\ Exclusive
    /\ Invalidate
    /\ UNCHANGED <<graph, readers>>

NewEdge == [id: EdgeId, source: NodeId, target: NodeId, kind: NewKinds]

Mutate ==
    \/ \E node \in NewNodes : AddNodeStep(node) \/ AddNodeWithIdStep(node)
    \/ \E id \in NodeId, refs \in {n.refs : n \in NewNodes} : NodeMut(id, refs)
    \/ \E e \in NewEdge : \/ AddEdgeWithIdStep(e)
                          \/ e.id = 0 /\ (AddEdgeStep(e) \/ ConnectUniqueStep(e))
    \/ \E id \in Boundary \cap NodeIds(graph) : AddCfgBoundary(id)
    \/ CloneStep

-------------------------------------------------------------------------------
(* Reads *)

Goto(r, pc) == readers' = [readers EXCEPT ![r].pc = pc]

BeginRead(r, q) ==
    /\ readers[r].pc = "idle"
    /\ readers' = [readers EXCEPT ![r] = [pc |-> "get", query |-> q, view |-> None]]
    /\ UNCHANGED <<graph, projection_cache>>

\* get_or_init: one thread enters the initialiser, the others block until the
\* value is set.
InitCache(r) ==
    /\ readers[r].pc = "get"
    /\ projection_cache.state = "empty"
    /\ projection_cache' = [projection_cache EXCEPT !.state = "running"]
    /\ Goto(r, "building")
    /\ UNCHANGED graph

FinishCache(r) ==
    /\ readers[r].pc = "building"
    /\ projection_cache' =
           [state |-> "ready", value |-> BuildIndex(Petgraph(graph)), dense |-> Unset]
    /\ Goto(r, "get")
    /\ UNCHANGED graph

\* dense_nodes: a second OnceLock inside the first one's value.
InitDense(r) ==
    /\ readers[r].pc = "get" /\ readers[r].query.op = "dense"
    /\ projection_cache.state = "ready"
    /\ projection_cache.dense.state = "empty"
    /\ projection_cache' = [projection_cache EXCEPT !.dense.state = "running"]
    /\ Goto(r, "building dense")
    /\ UNCHANGED graph


\* Mutant: the nested value is computed but never set.
FinishDenseUnset(r) ==
    /\ readers[r].pc = "building dense"
    /\ Goto(r, "get")
    /\ UNCHANGED <<graph, projection_cache>>

FinishDense(r) ==
    /\ readers[r].pc = "building dense"
    /\ projection_cache' = [projection_cache EXCEPT !.dense =
           [state |-> "ready", value |-> BuildDenseNodes(Petgraph(graph), projection_cache.value)]]
    /\ Goto(r, "get")
    /\ UNCHANGED graph

Answer(g, c, q) ==
    CASE q.op = "outgoing" -> OutgoingLayer(g, c.value, q.node, q.layer)
      [] q.op = "incoming" -> IncomingLayer(g, c.value, q.node, q.layer)
      [] q.op = "layer"    -> Layer(g, c.value, q.layer)
      [] q.op = "between"  -> Between(g, c.value, q.node, q.other)
      [] q.op = "dense"    -> c.dense.value

\* The view borrows from the graph and its cache until the reader drops it.
TakeView(r) ==
    /\ readers[r].pc = "get"
    /\ projection_cache.state = "ready"
    /\ readers[r].query.op = "dense" => projection_cache.dense.state = "ready"
    /\ readers' = [readers EXCEPT ![r] =
           [pc |-> "view", query |-> readers[r].query,
            view |-> Answer(graph, projection_cache, readers[r].query)]]
    /\ UNCHANGED <<graph, projection_cache>>

EndRead(r) ==
    /\ readers[r].pc = "view"
    /\ readers' = [readers EXCEPT ![r] = Idle]
    /\ UNCHANGED <<graph, projection_cache>>

ReaderStep(r) ==
    \/ InitCache(r) \/ FinishCache(r)
    \/ InitDense(r) \/ FinishDense(r)
    \/ TakeView(r)

Read(r) == ReaderStep(r) \/ EndRead(r) \/ \E q \in Queries : BeginRead(r, q)

Next == Mutate \/ \E r \in Readers : Read(r)

Spec == Init /\ [][Next]_vars

\* The operating system keeps running every thread that is inside a read.
FairSpec == Spec /\ \A r \in Readers : WF_vars(ReaderStep(r))

-------------------------------------------------------------------------------
(* Properties *)

\* Every field has its type: identifiers are u32 values, the node map points
\* into the node vector, each OnceLock is in one of its three states.
TypeOK ==
    /\ graph.nodes \in Seq(Node)
    /\ graph.edges \in Seq(Edge)
    /\ NodeIds(graph) \subseteq NodeId
    /\ \A id \in NodeIds(graph) : graph.node_index_map[id] \in 1..Len(graph.nodes)
    /\ graph.next_node_id \in NodeId /\ graph.next_edge_id \in EdgeId
    /\ graph.root \in NodeId \cup {None}
    /\ graph.cfg_entries \in Seq(NodeId) /\ graph.cfg_exits \in Seq(NodeId)
    /\ [state |-> projection_cache.state] \in OnceLock
    /\ [state |-> projection_cache.dense.state] \in OnceLock
    /\ \A r \in Readers : readers[r].pc \in
           {"idle", "get", "building", "building dense", "view"}

\* cpg.rs:61, "every topology mutation invalidates it": a cache that is set is
\* the index of the graph as it is now, and so is its nested dense metadata,
\* whatever mutations, rejected insertions and reads came before.
CacheIsCurrent ==
    projection_cache.state = "ready" =>
        /\ projection_cache.value = BuildIndex(Petgraph(graph))
        /\ projection_cache.dense.state = "ready" =>
               projection_cache.dense.value = BuildDenseNodes(Petgraph(graph), projection_cache.value)

\* The initialiser of each OnceLock runs in at most one thread, and only while
\* the lock says so: two readers never build two caches.
OneInitializer ==
    LET inside(pc) == {r \in Readers : readers[r].pc = pc} IN
    /\ Cardinality(inside("building")) = IF projection_cache.state = "running" THEN 1 ELSE 0
    /\ Cardinality(inside("building dense")) =
           IF projection_cache.dense.state = "running" THEN 1 ELSE 0

\* The edges a scan of the whole graph finds for a query.
Scan(g, q) ==
    {k \in DOMAIN g.edges :
        LET e == g.edges[k] IN
        CASE q.op = "outgoing" -> e.source = q.node /\ LayerOf[e.kind] = q.layer
          [] q.op = "incoming" -> e.target = q.node /\ LayerOf[e.kind] = q.layer
          [] q.op = "layer"    -> LayerOf[e.kind] = q.layer
          [] q.op = "between"  -> e.source = q.node /\ e.target = q.other}

\* The canonical order of an answer: by source, target, layer and identifier.
Canonical(g, view) ==
    \A i, j \in DOMAIN view :
        LET a == g.edges[view[i]]
            b == g.edges[view[j]]
        IN i < j => LexLess(<<a.source, LayerOf[a.kind], a.target, a.id>>,
                            <<b.source, LayerOf[b.kind], b.target, b.id>>)

\* Distinct successors and predecessors of every node, by ascending identifier.
ScanDense(g, view) ==
    LET pairs == {<<g.edges[k].source, g.edges[k].target>> : k \in DOMAIN g.edges} IN
    /\ ToSet(view.ids) = NodeIds(g)
    /\ \A i, j \in DOMAIN view.ids : i < j => view.ids[i] < view.ids[j]
    /\ \A i \in DOMAIN view.ids :
         /\ view.outgoing[i] = Cardinality({p \in pairs : p[1] = view.ids[i]})
         /\ view.incoming[i] = Cardinality({p \in pairs : p[2] = view.ids[i]})

\* A view still borrowed by a reader is what a scan of the graph returns at
\* this moment, each edge once and in the canonical order: the counting sort,
\* the row sort, the binary searches and the cache lifetime together.
ViewsAreScans ==
    \A r \in Readers : readers[r].pc = "view" =>
        LET q == readers[r].query
            v == readers[r].view
        IN IF q.op = "dense" THEN ScanDense(graph, v)
           ELSE /\ ToSet(v) = Scan(graph, q)
                /\ Len(v) = Cardinality(Scan(graph, q))
                /\ Canonical(graph, v)

\* cpg.rs, add_edge and add_edge_with_id: the child index of a node lists the
\* targets of its AstChild edges in ascending EdgeId order, however automatic
\* and explicit insertions interleave. Its parent is the source of the
\* lowest-numbered one, also when it was inserted with another parent.
TreeFollowsEdges == ChildListsExact(graph) /\ ParentsCanonical(graph)

\* node.rs and edge.rs, "Unique identifier": no two stored nodes and no two
\* stored edges share one, and the node map is the inverse of the numbering.
IdentifiersAreUnique == UniqueIdentifiers(graph)

\* An edge's public endpoints and its petgraph endpoints name the same nodes.
EndpointsAgree == EndpointsStored(graph)

\* graph-data-model.md, "adding nodes/edges never renumbers existing ones": no
\* step moves an identifier to another node or rewrites a stored edge, and the
\* counters never fall back.
IdsNeverShift ==
    [][/\ \A id \in NodeIds(graph) :
             id \in NodeIds(graph') /\ graph'.node_index_map[id] = graph.node_index_map[id]
       /\ \A k \in DOMAIN graph.edges : k \in DOMAIN graph'.edges /\ graph'.edges[k] = graph.edges[k]
       /\ graph'.next_node_id >= graph.next_node_id
       /\ graph'.next_edge_id >= graph.next_edge_id]_vars

\* A thread that starts a read gets its answer: blocking on another thread's
\* initialiser, nested or not, is never forever.
ReadsComplete == \A r \in Readers : readers[r].pc = "get" ~> readers[r].pc = "view"

===============================================================================
