------------------------ MODULE CodePropertyGraph_proofs -----------------------
(***************************************************************************)
(* Safety of the graph and of its lazily built caches, for any number of   *)
(* readers, queries, nodes and edges, and any width of the identifiers.    *)
(***************************************************************************)
EXTENDS CodePropertyGraph, GraphStore_proofs, FiniteSetTheorems

-------------------------------------------------------------------------------
(* The graph *)

(* Every mutation keeps the graph coherent and takes nothing away.         *)
LEMMA MutationsCohere ==
    ASSUME Coherent(graph), Mutate
    PROVE  Coherent(graph') /\ Extends(graph', graph)
  <1> USE BoundsAssumption
  <1>1. ASSUME NEW node \in NewNodes, AddNodeStep(node)
        PROVE  Coherent(graph') /\ Extends(graph', graph)
    BY <1>1, AddNodeCoherent DEF AddNodeStep
  <1>2. ASSUME NEW node \in NewNodes, AddNodeWithIdStep(node)
        PROVE  Coherent(graph') /\ Extends(graph', graph)
    BY <1>2, AddNodeWithIdCoherent DEF AddNodeWithIdStep
  <1>3. ASSUME NEW id \in NodeId, NEW refs, NodeMut(id, refs)
        PROVE  Coherent(graph') /\ Extends(graph', graph)
    <2> DEFINE f == [NodeAt(graph, id) EXCEPT !.refs = refs]
    <2>1. CASE id \in NodeIds(graph)
      <3>1. graph' = SetNode(graph, id, f) /\ f = [NodeAt(graph, id) EXCEPT !.refs = refs]
        BY <1>3, <2>1 DEF NodeMut
      <3> HIDE DEF f
      <3>2. "id" \in DOMAIN f /\ f.id = id
        BY <2>1, <3>1, StoredNodeFacts
      <3> QED
        BY <2>1, <3>1, <3>2, SetNodeCoherent
    <2>2. CASE id \notin NodeIds(graph)
      BY <1>3, <2>2, ExtendsIsReflexive DEF NodeMut
    <2> QED
      BY <2>1, <2>2
  <1>4. ASSUME NEW e \in NewEdge
        PROVE  EdgeValue(e)
    BY DEF NewEdge, EdgeValue
  <1>5. ASSUME NEW e \in NewEdge, AddEdgeStep(e)
        PROVE  Coherent(graph') /\ Extends(graph', graph)
    BY <1>4, <1>5, AddEdgeCoherent DEF AddEdgeStep
  <1>6. ASSUME NEW e \in NewEdge, AddEdgeWithIdStep(e)
        PROVE  Coherent(graph') /\ Extends(graph', graph)
    BY <1>4, <1>6, AddEdgeWithIdCoherent DEF AddEdgeWithIdStep
  <1>7. ASSUME NEW e \in NewEdge, ConnectUniqueStep(e)
        PROVE  Coherent(graph') /\ Extends(graph', graph)
    <2>1. CASE Identical(graph, e) = {}
      BY <1>4, <1>7, <2>1, AddEdgeCoherent DEF ConnectUniqueStep, ConnectUnique
    <2>2. CASE Identical(graph, e) # {}
      BY <1>7, <2>2, ExtendsIsReflexive DEF ConnectUniqueStep, ConnectUnique
    <2> QED
      BY <2>1, <2>2
  <1>8. ASSUME NEW id, AddCfgBoundary(id)
        PROVE  Coherent(graph') /\ Extends(graph', graph)
    BY <1>8, AddCfgBoundaryCoherent DEF AddCfgBoundary
  <1>9. CASE CloneStep
    BY <1>9, ExtendsIsReflexive DEF CloneStep
  <1> QED
    BY <1>1, <1>2, <1>3, <1>5, <1>6, <1>7, <1>8, <1>9 DEF Mutate

(* A reader never writes the graph.                                        *)
LEMMA ReadsKeepGraph ==
    ASSUME NEW r \in Readers, Read(r)
    PROVE  graph' = graph
  BY DEF Read, ReaderStep, BeginRead, InitCache, FinishCache, InitDense, FinishDense,
         TakeView, EndRead

(* So does every step.                                                    *)
LEMMA StepsCohere ==
    ASSUME Coherent(graph), [Next]_vars
    PROVE  Coherent(graph') /\ Extends(graph', graph)
  <1>1. CASE Mutate
    BY <1>1, MutationsCohere
  <1>2. ASSUME NEW r \in Readers, Read(r)
        PROVE  Coherent(graph') /\ Extends(graph', graph)
    BY <1>2, ReadsKeepGraph, ExtendsIsReflexive
  <1>3. CASE UNCHANGED vars
    BY <1>3, ExtendsIsReflexive DEF vars
  <1> QED
    BY <1>1, <1>2, <1>3 DEF Next

(* The graph is coherent in every reachable state: its node map inverts    *)
(* its node vector, its counters are ahead of its identifiers, and its     *)
(* edges hold both of their endpoints.                                     *)
THEOREM GraphStaysCoherent == Spec => []Coherent(graph)
  <1>1. Init => Coherent(graph)
    BY EmptyStoreCoherent DEF Init
  <1>2. Coherent(graph) /\ [Next]_vars => Coherent(graph)'
    BY StepsCohere
  <1> QED
    BY <1>1, <1>2, PTL DEF Spec

(* node.rs and edge.rs, "Unique identifier": identifiers handed out and    *)
(* identifiers given by callers never collide, saturation of the counters  *)
(* included.                                                               *)
THEOREM IdentifiersStayUnique == Spec => []IdentifiersAreUnique
  <1>1. Coherent(graph) => IdentifiersAreUnique
    BY DEF Coherent, NodesIndexed, EdgesNumbered, IdentifiersAreUnique, UniqueIdentifiers
  <1> QED
    BY <1>1, GraphStaysCoherent, PTL

(* An edge's NodeId endpoints and its petgraph endpoints always agree.     *)
THEOREM EndpointsStayStored == Spec => []EndpointsAgree
  <1>1. Coherent(graph) => EndpointsAgree
    BY DEF Coherent, EndpointsAgree
  <1> QED
    BY <1>1, GraphStaysCoherent, PTL

(* graph-data-model.md, "adding nodes/edges never renumbers existing       *)
(* ones": no step moves an identifier or rewrites a stored edge.           *)
THEOREM NothingIsRenumbered == Spec => IdsNeverShift
  <1> DEFINE Kept ==
        /\ \A id \in NodeIds(graph) :
             id \in NodeIds(graph') /\ graph'.node_index_map[id] = graph.node_index_map[id]
        /\ \A k \in DOMAIN graph.edges : k \in DOMAIN graph'.edges /\ graph'.edges[k] = graph.edges[k]
        /\ graph'.next_node_id >= graph.next_node_id
        /\ graph'.next_edge_id >= graph.next_edge_id
  <1>1. Coherent(graph) /\ [Next]_vars => [Kept]_vars
    BY StepsCohere DEF Extends
  <1>2. [][Kept]_vars <=> IdsNeverShift
    BY DEF IdsNeverShift
  <1> QED
    BY <1>1, <1>2, GraphStaysCoherent, PTL DEF Spec

(* Every mutation keeps types and the tree.                                *)
LEMMA MutationsKeepWhole ==
    ASSUME Whole(graph), Mutate
    PROVE  Whole(graph')
  <1> USE BoundsAssumption, LoneAssumption
  <1>1. ASSUME NEW node \in NewNodes, AddNodeStep(node)
        PROVE  Whole(graph')
    BY <1>1, AddNodeWhole DEF AddNodeStep
  <1>2. ASSUME NEW node \in NewNodes, AddNodeWithIdStep(node)
        PROVE  Whole(graph')
    BY <1>2, AddNodeWithIdWhole DEF AddNodeWithIdStep
  <1>3. ASSUME NEW id \in NodeId, NEW refs \in {n.refs : n \in NewNodes}, NodeMut(id, refs)
        PROVE  Whole(graph')
    <2>1. refs \in SUBSET NodeId
      BY DEF Node
    <2>2. CASE id \in NodeIds(graph)
      BY <1>3, <2>1, <2>2, SetRefsWhole DEF NodeMut
    <2>3. CASE id \notin NodeIds(graph)
      BY <1>3, <2>3 DEF NodeMut
    <2> QED
      BY <2>2, <2>3
  <1>4. NewEdge \subseteq EdgeRequest
    BY DEF NewEdge, EdgeRequest
  <1>5. ASSUME NEW e \in NewEdge, AddEdgeStep(e)
        PROVE  Whole(graph')
    BY <1>4, <1>5, AddEdgeWhole DEF AddEdgeStep
  <1>6. ASSUME NEW e \in NewEdge, AddEdgeWithIdStep(e)
        PROVE  Whole(graph')
    BY <1>4, <1>6, AddEdgeWithIdWhole DEF AddEdgeWithIdStep
  <1>7. ASSUME NEW e \in NewEdge, ConnectUniqueStep(e)
        PROVE  Whole(graph')
    <2>1. CASE Identical(graph, e) = {}
      BY <1>4, <1>7, <2>1, AddEdgeWhole DEF ConnectUniqueStep, ConnectUnique
    <2>2. CASE Identical(graph, e) # {}
      BY <1>7, <2>2 DEF ConnectUniqueStep, ConnectUnique
    <2> QED
      BY <2>1, <2>2
  <1>8. ASSUME NEW id \in NodeIds(graph), AddCfgBoundary(id)
        PROVE  Whole(graph')
    BY <1>8, AddCfgBoundaryWhole DEF AddCfgBoundary
  <1>9. CASE CloneStep
    BY <1>9 DEF CloneStep
  <1> QED
    BY <1>1, <1>2, <1>3, <1>5, <1>6, <1>7, <1>8, <1>9 DEF Mutate

(* In every reachable state the graph is typed and its tree is what its    *)
(* AST edges say.                                                          *)
THEOREM GraphStaysWhole == Spec => []Whole(graph)
  <1>1. Init => Whole(graph)
    BY EmptyStoreWhole DEF Init
  <1>2. Whole(graph) /\ [Next]_vars => Whole(graph)'
    <2> SUFFICES ASSUME Whole(graph), [Next]_vars PROVE Whole(graph)'
      OBVIOUS
    <2>1. CASE Mutate
      BY <2>1, MutationsKeepWhole
    <2>2. ASSUME NEW r \in Readers, Read(r)
          PROVE  Whole(graph)'
      BY <2>2, ReadsKeepGraph
    <2>3. CASE UNCHANGED vars
      BY <2>3 DEF vars
    <2> QED
      BY <2>1, <2>2, <2>3 DEF Next
  <1> QED
    BY <1>1, <1>2, PTL DEF Spec

(* add_edge and add_edge_with_id: in whatever order automatic and explicit *)
(* identifiers come, child lists are ascending by edge identifier and      *)
(* parents are the sources of the lowest-numbered edges.                   *)
THEOREM TreeStaysExact == Spec => []TreeFollowsEdges
  <1>1. Whole(graph) => TreeFollowsEdges
    BY DEF Whole, TreeAt, TreeFollowsEdges, ChildListsExact, ParentsCanonical
  <1> QED
    BY <1>1, GraphStaysWhole, PTL

-------------------------------------------------------------------------------
(* The caches *)


(* Shapes of the two locks and of the readers' records.                    *)
ProtocolShape ==
    /\ projection_cache = [state |-> projection_cache.state,
                           value |-> projection_cache.value,
                           dense |-> projection_cache.dense]
    /\ projection_cache.dense = [state |-> projection_cache.dense.state,
                                 value |-> projection_cache.dense.value]
    /\ DOMAIN readers = Readers
    /\ \A r \in Readers : readers[r] = [pc |-> readers[r].pc, query |-> readers[r].query,
                                        view |-> readers[r].view]

(* Each lock is running exactly while one reader is inside its             *)
(* initialiser; the inner lock lives in the value of the outer one.        *)
Inside(pc) == \E r \in Readers : readers[r].pc = pc
Alone(pc) == \A r, s \in Readers : readers[r].pc = pc /\ readers[s].pc = pc => r = s

OuterLockHeld ==
    /\ projection_cache.state = "running" <=> Inside("building")
    /\ Alone("building")

InnerLockHeld ==
    /\ projection_cache.dense.state = "running" <=> Inside("building dense")
    /\ Alone("building dense")

InnerNeedsOuter ==
    /\ \A r \in Readers : readers[r].pc \in {"building dense", "view"} =>
                              projection_cache.state = "ready"
    /\ projection_cache.state # "ready" => projection_cache.dense.state = "empty"

LocksHeld == OuterLockHeld /\ InnerLockHeld /\ InnerNeedsOuter

CacheInv == ProtocolShape /\ LocksHeld /\ CacheIsCurrent

(* A mutation happens with no reader inside, and leaves either an empty    *)
(* cache or the same cache over the same nodes and edges.                  *)
LEMMA MutationsDropCache ==
    ASSUME Coherent(graph), Mutate
    PROVE  /\ Exclusive
           /\ readers' = readers
           /\ \/ projection_cache' = UnsetCache
              \/ /\ projection_cache' = projection_cache
                 /\ Petgraph(graph') = Petgraph(graph)
  <1>1. ASSUME NEW id, AddCfgBoundary(id)
        PROVE  Petgraph(graph') = Petgraph(graph)
    BY <1>1, AddCfgBoundaryCoherent DEF AddCfgBoundary, Petgraph
  <1>2. ASSUME NEW e, ConnectUniqueStep(e), Identical(graph, e) # {}
        PROVE  graph' = graph
    BY <1>2 DEF ConnectUniqueStep, ConnectUnique
  <1> QED
    BY <1>1, <1>2
    DEF Mutate, AddNodeStep, AddNodeWithIdStep, NodeMut, AddEdgeStep, AddEdgeWithIdStep,
        ConnectUniqueStep, AddCfgBoundary, CloneStep, Invalidate

(* Mutations keep the cache invariant.                                     *)
LEMMA MutationsKeepCacheInv ==
    ASSUME CacheInv, Coherent(graph), Mutate
    PROVE  CacheInv'
  <1>1. /\ \A r \in Readers : readers[r].pc = "idle"
        /\ readers' = readers
    BY MutationsDropCache DEF Exclusive
  <1>2. CASE projection_cache' = UnsetCache
    <2>1. ProtocolShape'
      BY <1>1, <1>2 DEF CacheInv, ProtocolShape, UnsetCache, Unset
    <2>2. LocksHeld'
      BY <1>1, <1>2
      DEF LocksHeld, OuterLockHeld, InnerLockHeld, InnerNeedsOuter, Inside, Alone,
          UnsetCache, Unset
    <2>3. CacheIsCurrent'
      BY <1>2 DEF CacheIsCurrent, UnsetCache
    <2> QED
      BY <2>1, <2>2, <2>3 DEF CacheInv
  <1>3. CASE projection_cache' = projection_cache /\ Petgraph(graph') = Petgraph(graph)
    <2>1. ProtocolShape'
      BY <1>1, <1>3 DEF CacheInv, ProtocolShape
    <2>2. LocksHeld'
      BY <1>1, <1>3
      DEF CacheInv, LocksHeld, OuterLockHeld, InnerLockHeld, InnerNeedsOuter, Inside, Alone
    <2>3. CacheIsCurrent'
      BY <1>3 DEF CacheInv, CacheIsCurrent
    <2> QED
      BY <2>1, <2>2, <2>3 DEF CacheInv
  <1> QED
    BY <1>2, <1>3, MutationsDropCache

(* What is left to show of a reader's step is where it goes and what it    *)
(* does to the two locks.                                                  *)
ReaderGoes(r, pc) ==
    /\ DOMAIN readers' = Readers
    /\ \A s \in Readers : readers'[s] = [pc |-> readers'[s].pc, query |-> readers'[s].query,
                                         view |-> readers'[s].view]
    /\ readers'[r].pc = pc
    /\ \A s \in Readers \ {r} : readers'[s].pc = readers[s].pc

(* A program counter or a whole record is all that a reader writes.        *)
LEMMA GotoFacts ==
    ASSUME ProtocolShape, NEW r \in Readers, NEW pc, NEW q, NEW v,
           \/ Goto(r, pc)
           \/ readers' = [readers EXCEPT ![r] = [pc |-> pc, query |-> q, view |-> v]]
    PROVE  ReaderGoes(r, pc)
  <1>1. CASE Goto(r, pc)
    <2>1. readers' = [readers EXCEPT ![r] = [readers[r] EXCEPT !.pc = pc]]
      BY <1>1 DEF Goto, ProtocolShape
    <2> QED
      BY <2>1 DEF ProtocolShape, ReaderGoes
  <1>2. CASE readers' = [readers EXCEPT ![r] = [pc |-> pc, query |-> q, view |-> v]]
    BY <1>2 DEF ProtocolShape, ReaderGoes
  <1> QED
    BY <1>1, <1>2

(* A reader enters where nobody is, leaves nobody behind where it was      *)
(* alone, and changes nothing where it neither comes from nor goes to.     *)
LEMMA ReaderEnters ==
    ASSUME NEW r \in Readers, NEW pc, ReaderGoes(r, pc), ~Inside(pc)
    PROVE  Inside(pc)' /\ Alone(pc)'
  <1>1. \A s \in Readers : readers[s].pc # pc
    BY DEF Inside
  <1>2. readers'[r].pc = pc /\ \A s \in Readers : readers'[s].pc = pc => s = r
    BY <1>1 DEF ReaderGoes
  <1> QED
    BY <1>2 DEF Inside, Alone

LEMMA ReaderLeaves ==
    ASSUME NEW r \in Readers, NEW pc, NEW to, ReaderGoes(r, to), to # pc,
           readers[r].pc = pc, Alone(pc)
    PROVE  ~Inside(pc)' /\ Alone(pc)'
  <1>1. \A s \in Readers : readers[s].pc = pc => s = r
    BY DEF Alone
  <1>2. \A s \in Readers : readers'[s].pc # pc
    BY <1>1 DEF ReaderGoes
  <1> QED
    BY <1>2 DEF Inside, Alone

LEMMA ReaderPasses ==
    ASSUME NEW r \in Readers, NEW pc, NEW to, ReaderGoes(r, to), to # pc,
           readers[r].pc # pc
    PROVE  /\ Inside(pc)' <=> Inside(pc)
           /\ Alone(pc) => Alone(pc)'
  <1>1. \A s \in Readers : readers'[s].pc = pc <=> readers[s].pc = pc
    BY DEF ReaderGoes
  <1> QED
    BY <1>1 DEF Inside, Alone

(* Every step of a reader keeps the cache invariant.                       *)
LEMMA ReadsKeepCacheInv ==
    ASSUME CacheInv, NEW r \in Readers, Read(r)
    PROVE  CacheInv'
  <1> DEFINE c == projection_cache
  <1>0. ProtocolShape /\ LocksHeld /\ CacheIsCurrent
    BY DEF CacheInv
  <1>1. ASSUME NEW q, BeginRead(r, q)
        PROVE  CacheInv'
    <2>1. ReaderGoes(r, "get") /\ readers[r].pc = "idle"
      BY <1>0, <1>1, GotoFacts DEF BeginRead
    <2>2. c' = c /\ graph' = graph
      BY <1>1 DEF BeginRead
    <2>3. ProtocolShape'
      BY <1>0, <2>1, <2>2 DEF ReaderGoes, ProtocolShape
    <2>4. (Inside("building")' <=> Inside("building")) /\ Alone("building")'
      BY <1>0, <2>1, <2>2, ReaderPasses DEF LocksHeld, OuterLockHeld
    <2>5. (Inside("building dense")' <=> Inside("building dense")) /\ Alone("building dense")'
      BY <1>0, <2>1, <2>2, ReaderPasses DEF LocksHeld, InnerLockHeld
    <2>6. LocksHeld'
      <3>1. OuterLockHeld'
        BY <1>0, <2>1, <2>2, <2>4 DEF LocksHeld, OuterLockHeld
      <3>2. InnerLockHeld'
        BY <1>0, <2>1, <2>2, <2>5 DEF LocksHeld, InnerLockHeld
      <3>3. InnerNeedsOuter'
        BY <1>0, <2>1, <2>2 DEF ReaderGoes, LocksHeld, InnerNeedsOuter
      <3> QED
        BY <3>1, <3>2, <3>3 DEF LocksHeld
    <2>7. CacheIsCurrent'
      BY <1>0, <2>1, <2>2 DEF CacheIsCurrent
    <2> QED
      BY <2>3, <2>6, <2>7 DEF CacheInv
  <1>2. CASE InitCache(r)
    <2>1. ReaderGoes(r, "building") /\ readers[r].pc = "get"
      BY <1>0, <1>2, GotoFacts DEF InitCache
    <2>2. /\ c.state = "empty" /\ c'.state = "running" /\ c'.dense = c.dense
          /\ c' = [state |-> c'.state, value |-> c'.value, dense |-> c'.dense]
          /\ graph' = graph
      BY <1>0, <1>2 DEF InitCache, ProtocolShape
    <2>3. ProtocolShape'
      BY <1>0, <2>1, <2>2 DEF ReaderGoes, ProtocolShape
    <2>4. Inside("building")' /\ Alone("building")'
      BY <1>0, <2>1, <2>2, ReaderEnters DEF LocksHeld, OuterLockHeld
    <2>5. (Inside("building dense")' <=> Inside("building dense")) /\ Alone("building dense")'
      BY <1>0, <2>1, <2>2, ReaderPasses DEF LocksHeld, InnerLockHeld
    <2>6. LocksHeld'
      <3>1. OuterLockHeld'
        BY <1>0, <2>1, <2>2, <2>4 DEF LocksHeld, OuterLockHeld
      <3>2. InnerLockHeld'
        BY <1>0, <2>1, <2>2, <2>5 DEF LocksHeld, InnerLockHeld
      <3>3. InnerNeedsOuter'
        BY <1>0, <2>1, <2>2 DEF ReaderGoes, LocksHeld, InnerNeedsOuter
      <3> QED
        BY <3>1, <3>2, <3>3 DEF LocksHeld
    <2>7. CacheIsCurrent'
      BY <1>0, <2>1, <2>2 DEF CacheIsCurrent
    <2> QED
      BY <2>3, <2>6, <2>7 DEF CacheInv
  <1>3. CASE FinishCache(r)
    <2>1. ReaderGoes(r, "get") /\ readers[r].pc = "building"
      BY <1>0, <1>3, GotoFacts DEF FinishCache
    <2>2. /\ c' = [state |-> "ready", value |-> BuildIndex(Petgraph(graph)),
                   dense |-> [state |-> "empty", value |-> None]]
          /\ graph' = graph
      BY <1>3 DEF FinishCache, Unset
    <2>3. c.state = "running" /\ c.dense.state = "empty"
      BY <1>0, <2>1 DEF LocksHeld, OuterLockHeld, InnerLockHeld, InnerNeedsOuter, Inside, Alone
    <2>4. ProtocolShape'
      BY <1>0, <2>1, <2>2, <2>3 DEF ReaderGoes, ProtocolShape
    <2>5. ~Inside("building")' /\ Alone("building")'
      BY <1>0, <2>1, <2>2, <2>3, ReaderLeaves DEF LocksHeld, OuterLockHeld
    <2>6. (Inside("building dense")' <=> Inside("building dense")) /\ Alone("building dense")'
      BY <1>0, <2>1, <2>2, <2>3, ReaderPasses DEF LocksHeld, InnerLockHeld
    <2>7. LocksHeld'
      <3>1. OuterLockHeld'
        BY <1>0, <2>1, <2>2, <2>3, <2>5 DEF LocksHeld, OuterLockHeld
      <3>2. InnerLockHeld'
        BY <1>0, <2>1, <2>2, <2>3, <2>6 DEF LocksHeld, InnerLockHeld
      <3>3. InnerNeedsOuter'
        BY <1>0, <2>1, <2>2, <2>3 DEF ReaderGoes, LocksHeld, InnerNeedsOuter
      <3> QED
        BY <3>1, <3>2, <3>3 DEF LocksHeld
    <2>8. CacheIsCurrent'
      BY <1>0, <2>1, <2>2, <2>3 DEF CacheIsCurrent
    <2> QED
      BY <2>4, <2>7, <2>8 DEF CacheInv
  <1>4. CASE InitDense(r)
    <2>1. ReaderGoes(r, "building dense") /\ readers[r].pc = "get"
      BY <1>0, <1>4, GotoFacts DEF InitDense
    <2>2. /\ c' = [state |-> "ready", value |-> c.value,
                   dense |-> [state |-> "running", value |-> c.dense.value]]
          /\ c.state = "ready" /\ c.dense.state = "empty"
          /\ graph' = graph
      BY <1>0, <1>4 DEF InitDense, ProtocolShape
    <2>3. ProtocolShape'
      BY <1>0, <2>1, <2>2 DEF ReaderGoes, ProtocolShape
    <2>4. (Inside("building")' <=> Inside("building")) /\ Alone("building")'
      BY <1>0, <2>1, <2>2, ReaderPasses DEF LocksHeld, OuterLockHeld
    <2>5. Inside("building dense")' /\ Alone("building dense")'
      BY <1>0, <2>1, <2>2, ReaderEnters DEF LocksHeld, InnerLockHeld
    <2>6. LocksHeld'
      <3>1. OuterLockHeld'
        BY <1>0, <2>1, <2>2, <2>4 DEF LocksHeld, OuterLockHeld
      <3>2. InnerLockHeld'
        BY <1>0, <2>1, <2>2, <2>5 DEF LocksHeld, InnerLockHeld
      <3>3. InnerNeedsOuter'
        BY <1>0, <2>1, <2>2 DEF ReaderGoes, LocksHeld, InnerNeedsOuter
      <3> QED
        BY <3>1, <3>2, <3>3 DEF LocksHeld
    <2>7. CacheIsCurrent'
      BY <1>0, <2>1, <2>2 DEF CacheIsCurrent
    <2> QED
      BY <2>3, <2>6, <2>7 DEF CacheInv
  <1>5. CASE FinishDense(r)
    <2>1. ReaderGoes(r, "get") /\ readers[r].pc = "building dense"
      BY <1>0, <1>5, GotoFacts DEF FinishDense
    <2>2. c.state = "ready" /\ c.dense.state = "running"
      BY <1>0, <2>1 DEF LocksHeld, OuterLockHeld, InnerLockHeld, InnerNeedsOuter, Inside, Alone
    <2>3. /\ c' = [state |-> "ready", value |-> c.value,
                   dense |-> [state |-> "ready",
                              value |-> BuildDenseNodes(Petgraph(graph), c.value)]]
          /\ graph' = graph
      BY <1>0, <1>5, <2>2 DEF FinishDense, ProtocolShape
    <2>4. ProtocolShape'
      BY <1>0, <2>1, <2>2, <2>3 DEF ReaderGoes, ProtocolShape
    <2>5. (Inside("building")' <=> Inside("building")) /\ Alone("building")'
      BY <1>0, <2>1, <2>2, <2>3, ReaderPasses DEF LocksHeld, OuterLockHeld
    <2>6. ~Inside("building dense")' /\ Alone("building dense")'
      BY <1>0, <2>1, <2>2, <2>3, ReaderLeaves DEF LocksHeld, InnerLockHeld
    <2>7. LocksHeld'
      <3>1. OuterLockHeld'
        BY <1>0, <2>1, <2>2, <2>3, <2>5 DEF LocksHeld, OuterLockHeld
      <3>2. InnerLockHeld'
        BY <1>0, <2>1, <2>2, <2>3, <2>6 DEF LocksHeld, InnerLockHeld
      <3>3. InnerNeedsOuter'
        BY <1>0, <2>1, <2>2, <2>3 DEF ReaderGoes, LocksHeld, InnerNeedsOuter
      <3> QED
        BY <3>1, <3>2, <3>3 DEF LocksHeld
    <2>8. CacheIsCurrent'
      BY <1>0, <2>1, <2>2, <2>3 DEF CacheIsCurrent
    <2> QED
      BY <2>4, <2>7, <2>8 DEF CacheInv
  <1>6. CASE TakeView(r)
    <2>1. ReaderGoes(r, "view") /\ readers[r].pc = "get"
      BY <1>0, <1>6, GotoFacts DEF TakeView
    <2>2. c' = c /\ graph' = graph /\ c.state = "ready"
      BY <1>6 DEF TakeView
    <2>3. ProtocolShape'
      BY <1>0, <2>1, <2>2 DEF ReaderGoes, ProtocolShape
    <2>4. (Inside("building")' <=> Inside("building")) /\ Alone("building")'
      BY <1>0, <2>1, <2>2, ReaderPasses DEF LocksHeld, OuterLockHeld
    <2>5. (Inside("building dense")' <=> Inside("building dense")) /\ Alone("building dense")'
      BY <1>0, <2>1, <2>2, ReaderPasses DEF LocksHeld, InnerLockHeld
    <2>6. LocksHeld'
      <3>1. OuterLockHeld'
        BY <1>0, <2>1, <2>2, <2>4 DEF LocksHeld, OuterLockHeld
      <3>2. InnerLockHeld'
        BY <1>0, <2>1, <2>2, <2>5 DEF LocksHeld, InnerLockHeld
      <3>3. InnerNeedsOuter'
        BY <1>0, <2>1, <2>2 DEF ReaderGoes, LocksHeld, InnerNeedsOuter
      <3> QED
        BY <3>1, <3>2, <3>3 DEF LocksHeld
    <2>7. CacheIsCurrent'
      BY <1>0, <2>1, <2>2 DEF CacheIsCurrent
    <2> QED
      BY <2>3, <2>6, <2>7 DEF CacheInv
  <1>7. CASE EndRead(r)
    <2>1. ReaderGoes(r, "idle") /\ readers[r].pc = "view"
      BY <1>0, <1>7, GotoFacts DEF EndRead, Idle
    <2>2. c' = c /\ graph' = graph
      BY <1>7 DEF EndRead
    <2>3. ProtocolShape'
      BY <1>0, <2>1, <2>2 DEF ReaderGoes, ProtocolShape
    <2>4. (Inside("building")' <=> Inside("building")) /\ Alone("building")'
      BY <1>0, <2>1, <2>2, ReaderPasses DEF LocksHeld, OuterLockHeld
    <2>5. (Inside("building dense")' <=> Inside("building dense")) /\ Alone("building dense")'
      BY <1>0, <2>1, <2>2, ReaderPasses DEF LocksHeld, InnerLockHeld
    <2>6. LocksHeld'
      <3>1. OuterLockHeld'
        BY <1>0, <2>1, <2>2, <2>4 DEF LocksHeld, OuterLockHeld
      <3>2. InnerLockHeld'
        BY <1>0, <2>1, <2>2, <2>5 DEF LocksHeld, InnerLockHeld
      <3>3. InnerNeedsOuter'
        BY <1>0, <2>1, <2>2 DEF ReaderGoes, LocksHeld, InnerNeedsOuter
      <3> QED
        BY <3>1, <3>2, <3>3 DEF LocksHeld
    <2>7. CacheIsCurrent'
      BY <1>0, <2>1, <2>2 DEF CacheIsCurrent
    <2> QED
      BY <2>3, <2>6, <2>7 DEF CacheInv
  <1> QED
    BY <1>1, <1>2, <1>3, <1>4, <1>5, <1>6, <1>7 DEF Read, ReaderStep

(* In every reachable state the locks tell who builds, and a cache that is *)
(* set is the index of the graph.                                          *)
THEOREM CacheInvHolds == Spec => []CacheInv
  <1>1. Init => CacheInv
    <2> SUFFICES ASSUME Init PROVE CacheInv
      OBVIOUS
    <2>1. ProtocolShape
      BY DEF Init, ProtocolShape, UnsetCache, Unset, Idle
    <2>2. LocksHeld
      BY DEF Init, LocksHeld, OuterLockHeld, InnerLockHeld, InnerNeedsOuter, Inside, Alone,
             UnsetCache, Unset, Idle
    <2>3. CacheIsCurrent
      BY DEF Init, CacheIsCurrent, UnsetCache
    <2> QED
      BY <2>1, <2>2, <2>3 DEF CacheInv
  <1>2. CacheInv /\ Coherent(graph) /\ [Next]_vars => CacheInv'
    <2> SUFFICES ASSUME CacheInv, Coherent(graph), [Next]_vars
                 PROVE  CacheInv'
      OBVIOUS
    <2>1. CASE Mutate
      BY <2>1, MutationsKeepCacheInv
    <2>2. ASSUME NEW r \in Readers, Read(r)
          PROVE  CacheInv'
      BY <2>2, ReadsKeepCacheInv
    <2>3. CASE UNCHANGED vars
      BY <2>3
      DEF vars, CacheInv, ProtocolShape, LocksHeld, OuterLockHeld, InnerLockHeld,
          InnerNeedsOuter, Inside, Alone, CacheIsCurrent
    <2> QED
      BY <2>1, <2>2, <2>3 DEF Next
  <1> QED
    BY <1>1, <1>2, GraphStaysCoherent, PTL DEF Spec

(* cpg.rs:61, "every topology mutation invalidates it": no reader is ever  *)
(* answered from the index of an earlier graph.                            *)
THEOREM CacheStaysCurrent == Spec => []CacheIsCurrent
  <1>1. CacheInv => CacheIsCurrent
    BY DEF CacheInv
  <1> QED
    BY <1>1, CacheInvHolds, PTL

(* No two threads are inside the initialiser of a cache, and one is inside *)
(* whenever its lock is taken.                                             *)
THEOREM InitializersAreExclusive == Spec => []OneInitializer
  <1>1. ASSUME NEW pc, NEW held \in BOOLEAN,
               held <=> \E r \in Readers : readers[r].pc = pc,
               \A r, s \in Readers : readers[r].pc = pc /\ readers[s].pc = pc => r = s
        PROVE  Cardinality({r \in Readers : readers[r].pc = pc}) = IF held THEN 1 ELSE 0
    <2>1. CASE held
      <3>1. PICK r \in Readers : readers[r].pc = pc
        BY <1>1, <2>1
      <3>2. {s \in Readers : readers[s].pc = pc} = {r}
        BY <1>1, <3>1
      <3> QED
        BY <2>1, <3>2, FS_Singleton
    <2>2. CASE ~held
      <3>1. {s \in Readers : readers[s].pc = pc} = {}
        BY <1>1, <2>2
      <3> QED
        BY <2>2, <3>1, FS_EmptySet
    <2> QED
      BY <2>1, <2>2
  <1>2. LocksHeld => OneInitializer
    <2> SUFFICES ASSUME LocksHeld PROVE OneInitializer
      OBVIOUS
    <2>1. Cardinality({r \in Readers : readers[r].pc = "building"})
              = IF projection_cache.state = "running" THEN 1 ELSE 0
      BY <1>1 DEF LocksHeld, OuterLockHeld, InnerLockHeld, Inside, Alone
    <2>2. Cardinality({r \in Readers : readers[r].pc = "building dense"})
              = IF projection_cache.dense.state = "running" THEN 1 ELSE 0
      BY <1>1 DEF LocksHeld, OuterLockHeld, InnerLockHeld, Inside, Alone
    <2> QED
      BY <2>1, <2>2 DEF OneInitializer
  <1> QED
    BY <1>2, CacheInvHolds, PTL DEF CacheInv

-------------------------------------------------------------------------------
(* Orders of edges *)

(* Every edge kind has a layer.                                            *)
LEMMA LayersAreRanks == \A kind \in Kinds : LayerOf[kind] \in 0..9
  <1>1. \A kind \in DOMAIN LayerOf : LayerOf[kind] \in 0..9
    BY DEF LayerOf
  <1> QED
    BY <1>1, KindsAssumption

\* The order of two tuples of four, spelled out.
Before(a1, a2, a3, a4, b1, b2, b3, b4) ==
    \/ a1 < b1
    \/ a1 = b1 /\ a2 < b2
    \/ a1 = b1 /\ a2 = b2 /\ a3 < b3
    \/ a1 = b1 /\ a2 = b2 /\ a3 = b3 /\ a4 < b4

(* Tuples of four are compared component by component.                     *)
LEMMA LexFour ==
    ASSUME NEW a1 \in Nat, NEW a2 \in Nat, NEW a3 \in Nat, NEW a4 \in Nat,
           NEW b1 \in Nat, NEW b2 \in Nat, NEW b3 \in Nat, NEW b4 \in Nat
    PROVE  LexLess(<<a1, a2, a3, a4>>, <<b1, b2, b3, b4>>)
             <=> Before(a1, a2, a3, a4, b1, b2, b3, b4)
  <1> DEFINE a == <<a1, a2, a3, a4>>
             b == <<b1, b2, b3, b4>>
             at(i) == a[i] < b[i] /\ \A j \in 1..(i - 1) : a[j] = b[j]
  <1>1. /\ DOMAIN a = {1, 2, 3, 4}
        /\ a[1] = a1 /\ a[2] = a2 /\ a[3] = a3 /\ a[4] = a4
        /\ b[1] = b1 /\ b[2] = b2 /\ b[3] = b3 /\ b[4] = b4
    OBVIOUS
  <1>2. LexLess(a, b) <=> \E i \in DOMAIN a : at(i)
    BY DEF LexLess
  <1> HIDE DEF a, b
  <1>3. /\ 1..(1 - 1) = {} /\ 1..(2 - 1) = {1} /\ 1..(3 - 1) = {1, 2} /\ 1..(4 - 1) = {1, 2, 3}
    OBVIOUS
  <1>4. /\ at(1) <=> a1 < b1
        /\ at(2) <=> a1 = b1 /\ a2 < b2
        /\ at(3) <=> a1 = b1 /\ a2 = b2 /\ a3 < b3
        /\ at(4) <=> a1 = b1 /\ a2 = b2 /\ a3 = b3 /\ a4 < b4
    BY <1>1, <1>3
  <1> HIDE DEF at
  <1>5. LexLess(a, b) <=> at(1) \/ at(2) \/ at(3) \/ at(4)
    BY <1>1, <1>2
  <1> QED
    BY <1>4, <1>5 DEF a, b, Before

\* The parts of an edge that rows are sorted by.
Rank(g, k) == LayerOf[g.edges[k].kind]

(* They are numbers.                                                       *)
LEMMA KeysAreNumbers ==
    ASSUME NEW g, Coherent(g), TypedStore(g), NEW k \in DOMAIN g.edges
    PROVE  /\ Rank(g, k) \in Nat /\ k \in Nat
           /\ g.edges[k].source \in Nat /\ g.edges[k].target \in Nat /\ g.edges[k].id \in Nat
  <1>1. g.edges[k] \in Edge /\ k \in Nat
    BY StoreFacts
  <1> QED
    BY <1>1, LayersAreRanks, MaxIdAssumption DEF Rank, Edge, NodeId, EdgeId


ForwardOrder(g) ==
    {p \in (DOMAIN g.edges) \X (DOMAIN g.edges) : LexLess(ForwardKey(g, p[1]), ForwardKey(g, p[2]))}
ReverseOrder(g) ==
    {p \in (DOMAIN g.edges) \X (DOMAIN g.edges) : LexLess(ReverseKey(g, p[1]), ReverseKey(g, p[2]))}
TargetOrder(g) ==
    {p \in (DOMAIN g.edges) \X (DOMAIN g.edges) : LexLess(ByTargetKey(g, p[1]), ByTargetKey(g, p[2]))}

\* The order in which views return edges.
CanonicalKey(g, k) ==
    LET e == g.edges[k] IN <<e.source, LayerOf[e.kind], e.target, e.id>>
CanonicalOrder(g) ==
    {p \in (DOMAIN g.edges) \X (DOMAIN g.edges) : LexLess(CanonicalKey(g, p[1]), CanonicalKey(g, p[2]))}

(* What the four orders say of two edges.                                  *)
LEMMA OrdersUnfold ==
    ASSUME NEW g, Coherent(g), TypedStore(g), NEW j \in DOMAIN g.edges, NEW k \in DOMAIN g.edges
    PROVE  LET e == g.edges[j]
               f == g.edges[k]
               r == Rank(g, j)
               s == Rank(g, k)
           IN /\ <<j, k>> \in ForwardOrder(g) <=>
                     Before(r, e.target, e.id, j, s, f.target, f.id, k)
              /\ <<j, k>> \in ReverseOrder(g) <=>
                     Before(r, e.source, e.id, j, s, f.source, f.id, k)
              /\ <<j, k>> \in TargetOrder(g) <=>
                     Before(e.target, r, e.id, j, f.target, s, f.id, k)
              /\ <<j, k>> \in CanonicalOrder(g) <=>
                     Before(e.source, r, e.target, e.id, f.source, s, f.target, f.id)
  <1> DEFINE e == g.edges[j]
             f == g.edges[k]
             r == Rank(g, j)
             s == Rank(g, k)
  <1>1. /\ r \in Nat /\ s \in Nat /\ j \in Nat /\ k \in Nat
        /\ e.source \in Nat /\ e.target \in Nat /\ e.id \in Nat
        /\ f.source \in Nat /\ f.target \in Nat /\ f.id \in Nat
    BY KeysAreNumbers
  <1>2. /\ LexLess(<<r, e.target, e.id, j>>, <<s, f.target, f.id, k>>)
               <=> Before(r, e.target, e.id, j, s, f.target, f.id, k)
        /\ LexLess(<<r, e.source, e.id, j>>, <<s, f.source, f.id, k>>)
               <=> Before(r, e.source, e.id, j, s, f.source, f.id, k)
        /\ LexLess(<<e.target, r, e.id, j>>, <<f.target, s, f.id, k>>)
               <=> Before(e.target, r, e.id, j, f.target, s, f.id, k)
        /\ LexLess(<<e.source, r, e.target, e.id>>, <<f.source, s, f.target, f.id>>)
               <=> Before(e.source, r, e.target, e.id, f.source, s, f.target, f.id)
    BY <1>1, LexFour
  <1>3. /\ ForwardKey(g, j) = <<r, e.target, e.id, j>> /\ ForwardKey(g, k) = <<s, f.target, f.id, k>>
        /\ ReverseKey(g, j) = <<r, e.source, e.id, j>> /\ ReverseKey(g, k) = <<s, f.source, f.id, k>>
        /\ ByTargetKey(g, j) = <<e.target, r, e.id, j>> /\ ByTargetKey(g, k) = <<f.target, s, f.id, k>>
        /\ CanonicalKey(g, j) = <<e.source, r, e.target, e.id>>
        /\ CanonicalKey(g, k) = <<f.source, s, f.target, f.id>>
    BY DEF ForwardKey, ReverseKey, ByTargetKey, CanonicalKey, Rank
  <1>4. /\ <<j, k>> \in ForwardOrder(g) <=> LexLess(ForwardKey(g, j), ForwardKey(g, k))
        /\ <<j, k>> \in ReverseOrder(g) <=> LexLess(ReverseKey(g, j), ReverseKey(g, k))
        /\ <<j, k>> \in TargetOrder(g) <=> LexLess(ByTargetKey(g, j), ByTargetKey(g, k))
        /\ <<j, k>> \in CanonicalOrder(g) <=> LexLess(CanonicalKey(g, j), CanonicalKey(g, k))
    BY DEF ForwardOrder, ReverseOrder, TargetOrder, CanonicalOrder
  <1> HIDE DEF e, f, r, s
  <1>5. /\ <<j, k>> \in ForwardOrder(g) <=> Before(r, e.target, e.id, j, s, f.target, f.id, k)
        /\ <<j, k>> \in ReverseOrder(g) <=> Before(r, e.source, e.id, j, s, f.source, f.id, k)
        /\ <<j, k>> \in TargetOrder(g) <=> Before(e.target, r, e.id, j, f.target, s, f.id, k)
        /\ <<j, k>> \in CanonicalOrder(g) <=>
               Before(e.source, r, e.target, e.id, f.source, s, f.target, f.id)
    BY <1>2, <1>3, <1>4
  <1> QED
    BY <1>5 DEF e, f, r, s

(* They are strict: no two edges have one identifier.                      *)
LEMMA OrdersAreStrict ==
    ASSUME NEW g, Coherent(g), TypedStore(g), NEW S \in SUBSET DOMAIN g.edges
    PROVE  /\ StrictOrder(S, ForwardOrder(g)) /\ StrictOrder(S, ReverseOrder(g))
           /\ StrictOrder(S, TargetOrder(g)) /\ StrictOrder(S, CanonicalOrder(g))
  <1> DEFINE r(k) == Rank(g, k)
             s(k) == g.edges[k].source
             t(k) == g.edges[k].target
             n(k) == g.edges[k].id
  <1>1. \A k \in S : k \in Nat /\ r(k) \in Nat /\ s(k) \in Nat /\ t(k) \in Nat /\ n(k) \in Nat
    BY KeysAreNumbers
  <1>2. \A j, k \in S : n(j) = n(k) => j = k
    BY DEF Coherent, EdgesNumbered
  <1>3. \A j, k \in S :
          /\ <<j, k>> \in ForwardOrder(g) <=> Before(r(j), t(j), n(j), j, r(k), t(k), n(k), k)
          /\ <<j, k>> \in ReverseOrder(g) <=> Before(r(j), s(j), n(j), j, r(k), s(k), n(k), k)
          /\ <<j, k>> \in TargetOrder(g) <=> Before(t(j), r(j), n(j), j, t(k), r(k), n(k), k)
          /\ <<j, k>> \in CanonicalOrder(g) <=> Before(s(j), r(j), t(j), n(j), s(k), r(k), t(k), n(k))
    <2> SUFFICES ASSUME NEW j \in S, NEW k \in S
                 PROVE
          /\ <<j, k>> \in ForwardOrder(g) <=> Before(r(j), t(j), n(j), j, r(k), t(k), n(k), k)
          /\ <<j, k>> \in ReverseOrder(g) <=> Before(r(j), s(j), n(j), j, r(k), s(k), n(k), k)
          /\ <<j, k>> \in TargetOrder(g) <=> Before(t(j), r(j), n(j), j, t(k), r(k), n(k), k)
          /\ <<j, k>> \in CanonicalOrder(g) <=> Before(s(j), r(j), t(j), n(j), s(k), r(k), t(k), n(k))
      OBVIOUS
    <2>1. j \in DOMAIN g.edges /\ k \in DOMAIN g.edges
      OBVIOUS
    <2> QED
      BY <2>1, OrdersUnfold
  <1> HIDE DEF r, s, t, n
  <1>4. StrictOrder(S, ForwardOrder(g))
    BY <1>1, <1>2, <1>3 DEF StrictOrder, Before
  <1>5. StrictOrder(S, ReverseOrder(g))
    BY <1>1, <1>2, <1>3 DEF StrictOrder, Before
  <1>6. StrictOrder(S, TargetOrder(g))
    BY <1>1, <1>2, <1>3 DEF StrictOrder, Before
  <1>7. StrictOrder(S, CanonicalOrder(g))
    BY <1>1, <1>2, <1>3 DEF StrictOrder, Before
  <1> QED
    BY <1>4, <1>5, <1>6, <1>7

-------------------------------------------------------------------------------
(* Rows and slices *)

(* A set of positions without gaps is an interval, and partition_point     *)
(* finds its end.                                                          *)
LEMMA PartitionFacts ==
    ASSUME NEW n \in Nat, NEW P \in SUBSET (1..n),
           \A i, j \in 1..n : i < j /\ j \in P => i \in P
    PROVE  PartitionPoint(P) \in 0..n /\ P = 1..PartitionPoint(P)
  <1> DEFINE bounds == {m \in 0..n : \A i \in P : i <= m}
  <1>1. bounds \in SUBSET Nat /\ n \in bounds
    OBVIOUS
  <1>2. PICK m \in bounds : \A l \in bounds : m <= l
    <2> HIDE DEF bounds
    <2>1. bounds # {}
      BY <1>1
    <2> QED
      BY <1>1, <2>1, LeastOfNaturals
  <1>3. m \in 0..n /\ \A i \in P : i \in 1..n /\ i <= m
    BY <1>2
  <1>4. m = 0 \/ m \in P
    <2> SUFFICES ASSUME m # 0, m \notin P PROVE FALSE
      OBVIOUS
    <2>1. m - 1 \in bounds
      BY <1>3
    <2> QED
      BY <1>2, <1>3, <2>1
  <1> HIDE DEF bounds
  <1>5. P = 1..m
    <2>1. \A i \in P : i \in 1..m
      BY <1>3
    <2>2. ASSUME NEW i \in 1..m
          PROVE  i \in P
      <3>1. m \in P /\ i \in 1..n /\ m \in 1..n /\ (i < m \/ i = m)
        BY <1>3, <1>4
      <3> QED
        BY <3>1
    <2> QED
      BY <2>1, <2>2
  <1>6. m \in 0..Cardinality(P)
    <2>1. Cardinality(1..m) = IF 1 > m THEN 0 ELSE m - 1 + 1
      BY <1>3, FS_Interval
    <2> QED
      BY <1>3, <1>5, <2>1
  <1>7. \A l \in 0..Cardinality(P) : P = 1..l => l = m
    <2> SUFFICES ASSUME NEW l \in 0..Cardinality(P), 1..m = 1..l PROVE l = m
      BY <1>5
    <2>1. Cardinality(1..m) = m /\ Cardinality(1..l) = l
      <3>1. /\ Cardinality(1..m) = IF 1 > m THEN 0 ELSE m - 1 + 1
            /\ Cardinality(1..l) = IF 1 > l THEN 0 ELSE l - 1 + 1
        BY <1>3, FS_Interval
      <3> QED
        BY <1>3, <3>1
    <2> QED
      BY <2>1
  <1>8. PartitionPoint(P) = m
    BY <1>5, <1>6, <1>7 DEF PartitionPoint
  <1> QED
    BY <1>3, <1>5, <1>8

(* Between two partition points lie the members of one weight.             *)
LEMMA SliceLists ==
    ASSUME NEW S, NEW R, NEW row, Lists(row, S, R), NEW w \in [S -> Nat], NEW x \in Nat,
           \A j, k \in S : <<j, k>> \in R => w[j] <= w[k]
    PROVE  Lists(SubSeq(row, PartitionPoint({i \in DOMAIN row : w[row[i]] < x}) + 1,
                             PartitionPoint({i \in DOMAIN row : w[row[i]] <= x})),
                 {k \in S : w[k] = x}, R)
  <1> DEFINE n == Len(row)
             low == {i \in DOMAIN row : w[row[i]] < x}
             high == {i \in DOMAIN row : w[row[i]] <= x}
             a == PartitionPoint(low)
             b == PartitionPoint(high)
             v == SubSeq(row, a + 1, b)
             K == {k \in S : w[k] = x}
  <1>1. n \in Nat /\ DOMAIN row = 1..n /\ \A i \in 1..n : row[i] \in S /\ w[row[i]] \in Nat
    BY DEF Lists
  <1>2. \A i, j \in 1..n : i < j => w[row[i]] <= w[row[j]]
    BY <1>1 DEF Lists
  <1>3. a \in 0..n /\ low = 1..a
    <2>1. low \in SUBSET (1..n) /\ \A i, j \in 1..n : i < j /\ j \in low => i \in low
      BY <1>1, <1>2
    <2> HIDE DEF low, n
    <2> QED
      BY <1>1, <2>1, PartitionFacts
  <1>4. b \in 0..n /\ high = 1..b
    <2>1. high \in SUBSET (1..n) /\ \A i, j \in 1..n : i < j /\ j \in high => i \in high
      BY <1>1, <1>2
    <2> HIDE DEF high, n
    <2> QED
      BY <1>1, <2>1, PartitionFacts
  <1>5. \A i \in 1..n : /\ i <= a <=> w[row[i]] < x
                        /\ i <= b <=> w[row[i]] <= x
    <2> SUFFICES ASSUME NEW i \in 1..n
                 PROVE  /\ i <= a <=> w[row[i]] < x
                        /\ i <= b <=> w[row[i]] <= x
      OBVIOUS
    <2>1. /\ i \in low <=> w[row[i]] < x
          /\ i \in high <=> w[row[i]] <= x
      BY <1>1
    <2>2. (i \in 1..a <=> i <= a) /\ (i \in 1..b <=> i <= b)
      BY <1>3, <1>4
    <2> HIDE DEF low, high, a, b
    <2> QED
      BY <1>3, <1>4, <2>1, <2>2
  <1> HIDE DEF low, high, a, b
  <1>6. a <= b
    <2> SUFFICES ASSUME ~(a <= b) PROVE FALSE
      OBVIOUS
    <2>1. a \in 1..n /\ ~(a <= b) /\ a <= a
      BY <1>3, <1>4
    <2> QED
      BY <1>1, <1>5, <2>1
  <1>7. \A i \in 1..n : i \in (a + 1)..b <=> w[row[i]] = x
    BY <1>1, <1>3, <1>4, <1>5
  <1>8. /\ Len(v) = b - a /\ DOMAIN v = 1..(b - a) /\ b - a \in Nat
        /\ \A i \in 1..(b - a) : v[i] = row[a + i] /\ a + i \in 1..n /\ a + i \in (a + 1)..b
    <2>1. row \in Seq(S)
      BY DEF Lists
    <2> HIDE DEF n
    <2>2. \A i \in 1..(b - a) : a + i \in 1..n /\ a + i \in (a + 1)..b /\ a + 1 + i - 1 = a + i
      BY <1>1, <1>3, <1>4, <1>6
    <2>3. v = [i \in 1..(b - a) |-> row[a + 1 + i - 1]]
      BY <1>1, <1>3, <1>4, <1>6, <2>1
    <2>4. b - a \in Nat
      BY <1>3, <1>4, <1>6
    <2> HIDE DEF v
    <2> QED
      BY <2>2, <2>3, <2>4
  <1> HIDE DEF v, n, K
  <1>9. \A i \in 1..(b - a) : v[i] \in K
    BY <1>1, <1>7, <1>8 DEF K
  <1>10. v \in Seq(K)
    <2>1. v = [i \in 1..(b - a) |-> v[i]]
      <3>1. v = [i \in 1..(b - a) |-> row[a + 1 + i - 1]]
        <4>1. row \in Seq(S)
          BY DEF Lists
        <4> QED
          BY <1>1, <1>3, <1>4, <1>6, <4>1 DEF v, n
      <3> QED
        BY <3>1
    <2> QED
      BY <1>8, <1>9, <2>1
  <1>11. ASSUME NEW k \in K
         PROVE  \E i \in DOMAIN v : v[i] = k
    <2>1. PICK i \in 1..n : row[i] = k
      BY <1>1 DEF Lists, K
    <2>2. i \in (a + 1)..b
      BY <1>7, <2>1 DEF K
    <2>3. i - a \in 1..(b - a) /\ a + (i - a) = i
      BY <1>1, <1>3, <1>4, <2>2
    <2>4. v[i - a] = k
      BY <1>8, <2>1, <2>3
    <2> QED
      BY <1>8, <2>3, <2>4
  <1>12. ASSUME NEW i \in DOMAIN v, NEW j \in DOMAIN v, i < j
         PROVE  <<v[i], v[j]>> \in R
    <2>1. a + i \in DOMAIN row /\ a + j \in DOMAIN row /\ a + i < a + j
      BY <1>1, <1>3, <1>8, <1>12
    <2>2. <<row[a + i], row[a + j]>> \in R
      BY <2>1 DEF Lists
    <2> QED
      BY <1>8, <1>12, <2>2
  <1>13. Lists(v, K, R)
    BY <1>10, <1>11, <1>12 DEF Lists
  <1> QED
    BY <1>13 DEF v, K, a, b, low, high

EdgesFrom(g, index) == {k \in DOMAIN g.edges : g.edges[k].from = index}
EdgesInto(g, index) == {k \in DOMAIN g.edges : g.edges[k].to = index}

NodeOrder(g) ==
    {p \in (DOMAIN g.nodes) \X (DOMAIN g.nodes) : g.nodes[p[1]].id < g.nodes[p[2]].id}

(* Identifiers order the nodes strictly.                                   *)
LEMMA IdsOrderNodes ==
    ASSUME NEW g, Coherent(g), TypedStore(g)
    PROVE  StrictOrder(DOMAIN g.nodes, NodeOrder(g))
  <1>1. \A i \in DOMAIN g.nodes : g.nodes[i].id \in Nat
    <2>1. \A i \in DOMAIN g.nodes : g.nodes[i] \in Node
      BY DEF TypedStore
    <2>2. \A node \in Node : node.id \in Nat
      BY MaxIdAssumption DEF Node, NodeId
    <2> QED
      BY <2>1, <2>2
  <1>2. \A i, j \in DOMAIN g.nodes : g.nodes[i].id = g.nodes[j].id => i = j
    BY DEF Coherent, NodesIndexed
  <1>3. \A i, j \in DOMAIN g.nodes : <<i, j>> \in NodeOrder(g) <=> g.nodes[i].id < g.nodes[j].id
    BY DEF NodeOrder
  <1> QED
    BY <1>1, <1>2, <1>3 DEF StrictOrder

\* What an index says of its graph.
IndexOf(g, v) ==
    /\ Lists(v.node_indices, DOMAIN g.nodes, NodeOrder(g))
    /\ DOMAIN v.forward = DOMAIN g.nodes /\ DOMAIN v.reverse = DOMAIN g.nodes
    /\ DOMAIN v.by_target = DOMAIN g.nodes
    /\ \A index \in DOMAIN g.nodes :
          /\ Lists(v.forward[index], EdgesFrom(g, index), ForwardOrder(g))
          /\ Lists(v.reverse[index], EdgesInto(g, index), ReverseOrder(g))
          /\ Lists(v.by_target[index], EdgesFrom(g, index), TargetOrder(g))
          /\ v.by_target_nodes[index] =
                 [i \in DOMAIN v.by_target[index] |-> g.edges[v.by_target[index][i]].target]

(* build makes it say so.                                                  *)
LEMMA BuildsIndex ==
    ASSUME NEW g, Coherent(g), TypedStore(g)
    PROVE  IndexOf(g, BuildIndex(Petgraph(g)))
  <1> DEFINE p == Petgraph(g)
             v == BuildIndex(p)
  <1>1. p.nodes = g.nodes /\ p.edges = g.edges
    BY DEF Petgraph
  <1>2. DOMAIN g.nodes = 1..Len(g.nodes)
    BY StoreFacts
  <1> HIDE DEF p
  <1>3. /\ v.node_indices = Sorted(DOMAIN g.nodes, NodeOrder(g))
        /\ v.forward = AdjacencyCsr(p, From, ForwardKey)
        /\ v.reverse = AdjacencyCsr(p, To, ReverseKey)
        /\ v.by_target = AdjacencyCsr(p, From, ByTargetKey)
        /\ v.by_target_nodes = [index \in DOMAIN v.by_target |->
               [i \in DOMAIN v.by_target[index] |-> g.edges[v.by_target[index][i]].target]]
    BY <1>1 DEF BuildIndex, NodeOrder
  <1>4. /\ AdjacencyCsr(p, From, ForwardKey) =
               [index \in DOMAIN g.nodes |-> Sorted(EdgesFrom(g, index), ForwardOrder(g))]
        /\ AdjacencyCsr(p, To, ReverseKey) =
               [index \in DOMAIN g.nodes |-> Sorted(EdgesInto(g, index), ReverseOrder(g))]
        /\ AdjacencyCsr(p, From, ByTargetKey) =
               [index \in DOMAIN g.nodes |-> Sorted(EdgesFrom(g, index), TargetOrder(g))]
    BY <1>1, <1>2 DEF AdjacencyCsr, From, To, EdgesFrom, EdgesInto, ForwardOrder, ReverseOrder,
        TargetOrder, ForwardKey, ReverseKey, ByTargetKey
  <1> HIDE DEF v
  <1>5. \A index : /\ EdgesFrom(g, index) \in SUBSET DOMAIN g.edges
                   /\ EdgesInto(g, index) \in SUBSET DOMAIN g.edges
                   /\ IsFiniteSet(EdgesFrom(g, index)) /\ IsFiniteSet(EdgesInto(g, index))
    BY StoreFacts, FS_Subset DEF EdgesFrom, EdgesInto
  <1>6. Lists(v.node_indices, DOMAIN g.nodes, NodeOrder(g))
    BY <1>3, StoreFacts, IdsOrderNodes, SortedLists
  <1>7. ASSUME NEW index \in DOMAIN g.nodes
        PROVE  /\ Lists(v.forward[index], EdgesFrom(g, index), ForwardOrder(g))
               /\ Lists(v.reverse[index], EdgesInto(g, index), ReverseOrder(g))
               /\ Lists(v.by_target[index], EdgesFrom(g, index), TargetOrder(g))
    <2>1. /\ StrictOrder(EdgesFrom(g, index), ForwardOrder(g))
          /\ StrictOrder(EdgesInto(g, index), ReverseOrder(g))
          /\ StrictOrder(EdgesFrom(g, index), TargetOrder(g))
      BY <1>5, OrdersAreStrict
    <2> QED
      BY <1>3, <1>4, <1>5, <2>1, SortedLists
  <1>8. /\ DOMAIN v.forward = DOMAIN g.nodes /\ DOMAIN v.reverse = DOMAIN g.nodes
        /\ DOMAIN v.by_target = DOMAIN g.nodes
    BY <1>3, <1>4
  <1>9. \A index \in DOMAIN g.nodes : v.by_target_nodes[index] =
            [i \in DOMAIN v.by_target[index] |-> g.edges[v.by_target[index][i]].target]
    BY <1>3, <1>8
  <1> QED
    BY <1>6, <1>7, <1>8, <1>9 DEF IndexOf, v, p

(* A listing stays one under any order that agrees on its members.         *)
LEMMA ListingReordered ==
    ASSUME NEW S, NEW R, NEW Q, NEW t, Lists(t, S, R),
           \A j, k \in S : <<j, k>> \in R => <<j, k>> \in Q
    PROVE  Lists(t, S, Q)
  <1>1. \A i \in DOMAIN t : t[i] \in S
    BY DEF Lists
  <1> QED
    BY <1>1 DEF Lists

(* The empty row lists nothing.                                            *)
LEMMA EmptyLists ==
    ASSUME NEW R
    PROVE  Lists(<<>>, {}, R)
  BY DEF Lists

(* layer_slice cuts the edges of one layer out of a row.                   *)
LEMMA LayerSliceLists ==
    ASSUME NEW g, Coherent(g), TypedStore(g), NEW S \in SUBSET DOMAIN g.edges, NEW R,
           NEW row, Lists(row, S, R), NEW layer \in 0..9,
           \A j, k \in S : <<j, k>> \in R => Rank(g, j) <= Rank(g, k)
    PROVE  Lists(LayerSlice(g, row, layer), {k \in S : Rank(g, k) = layer}, R)
  <1> DEFINE w == [k \in S |-> Rank(g, k)]
             low == {i \in DOMAIN row : w[row[i]] < layer}
             high == {i \in DOMAIN row : w[row[i]] <= layer}
  <1>1. \A k \in S : w[k] = Rank(g, k) /\ Rank(g, k) \in Nat
    BY KeysAreNumbers
  <1>2. \A i \in DOMAIN row : row[i] \in S
    BY DEF Lists
  <1>3. w \in [S -> Nat] /\ \A j, k \in S : <<j, k>> \in R => w[j] <= w[k]
    BY <1>1
  <1>4. low = {i \in DOMAIN row : LayerOf[g.edges[row[i]].kind] < layer}
    BY <1>1, <1>2 DEF Rank
  <1>5. high = {i \in DOMAIN row : LayerOf[g.edges[row[i]].kind] <= layer}
    BY <1>1, <1>2 DEF Rank
  <1>6. LayerSlice(g, row, layer) = SubSeq(row, PartitionPoint(low) + 1, PartitionPoint(high))
    BY <1>4, <1>5, Zenon DEF LayerSlice
  <1>7. {k \in S : w[k] = layer} = {k \in S : Rank(g, k) = layer}
    BY <1>1
  <1> HIDE DEF w
  <1>8. Lists(SubSeq(row, PartitionPoint(low) + 1, PartitionPoint(high)),
              {k \in S : w[k] = layer}, R)
    BY <1>3, SliceLists
  <1> QED
    BY <1>6, <1>7, <1>8

OutOf(g, id) == {k \in DOMAIN g.edges : g.edges[k].source = id}
Into(g, id) == {k \in DOMAIN g.edges : g.edges[k].target = id}

(* An edge is stored at the positions of its public endpoints.             *)
LEMMA RowsOfNodes ==
    ASSUME NEW g, Coherent(g), TypedStore(g), NEW id
    PROVE  /\ id \in NodeIds(g) => /\ EdgesFrom(g, g.node_index_map[id]) = OutOf(g, id)
                                   /\ EdgesInto(g, g.node_index_map[id]) = Into(g, id)
           /\ id \notin NodeIds(g) => OutOf(g, id) = {} /\ Into(g, id) = {}
  <1>1. \A k \in DOMAIN g.edges :
           /\ g.edges[k].source \in NodeIds(g) /\ g.edges[k].target \in NodeIds(g)
           /\ g.node_index_map[g.edges[k].source] = g.edges[k].from
           /\ g.node_index_map[g.edges[k].target] = g.edges[k].to
    BY DEF Coherent, EndpointsStored, HasEndpoints
  <1>2. \A a, b \in NodeIds(g) : g.node_index_map[a] = g.node_index_map[b] => a = b
    BY DEF Coherent, NodesIndexed, NodeAt
  <1> QED
    BY <1>1, <1>2 DEF EdgesFrom, EdgesInto, OutOf, Into

(* Row finds the edges of a node, also of one that does not exist.         *)
LEMMA RowsList ==
    ASSUME NEW g, Coherent(g), TypedStore(g), NEW v, IndexOf(g, v), NEW id
    PROVE  /\ Lists(Row(g, v.forward, id), OutOf(g, id), ForwardOrder(g))
           /\ Lists(Row(g, v.reverse, id), Into(g, id), ReverseOrder(g))
  <1>1. CASE id \in NodeIds(g)
    <2>1. g.node_index_map[id] \in DOMAIN g.nodes
      BY <1>1, StoreFacts
    <2> QED
      BY <1>1, <2>1, RowsOfNodes DEF IndexOf, Row
  <1>2. CASE id \notin NodeIds(g)
    BY <1>2, RowsOfNodes, EmptyLists DEF Row
  <1> QED
    BY <1>1, <1>2

(* The orders of rows within one node are the canonical order.             *)
LEMMA RowOrders ==
    ASSUME NEW g, Coherent(g), TypedStore(g), NEW j \in DOMAIN g.edges, NEW k \in DOMAIN g.edges
    PROVE  /\ <<j, k>> \in ForwardOrder(g) => Rank(g, j) <= Rank(g, k)
           /\ <<j, k>> \in ReverseOrder(g) => Rank(g, j) <= Rank(g, k)
           /\ <<j, k>> \in TargetOrder(g) => g.edges[j].target <= g.edges[k].target
           /\ g.edges[j].source = g.edges[k].source /\ <<j, k>> \in ForwardOrder(g)
                  => <<j, k>> \in CanonicalOrder(g)
           /\ g.edges[j].target = g.edges[k].target /\ Rank(g, j) = Rank(g, k)
              /\ <<j, k>> \in ReverseOrder(g)
                  => <<j, k>> \in CanonicalOrder(g)
           /\ g.edges[j].source = g.edges[k].source /\ g.edges[j].target = g.edges[k].target
              /\ <<j, k>> \in TargetOrder(g)
                  => <<j, k>> \in CanonicalOrder(g)
  <1> DEFINE e == g.edges[j]
             f == g.edges[k]
             r == Rank(g, j)
             s == Rank(g, k)
  <1>1. /\ r \in Nat /\ s \in Nat /\ j \in Nat /\ k \in Nat
        /\ e.source \in Nat /\ e.target \in Nat /\ e.id \in Nat
        /\ f.source \in Nat /\ f.target \in Nat /\ f.id \in Nat
    BY KeysAreNumbers
  <1>2. /\ <<j, k>> \in ForwardOrder(g) <=> Before(r, e.target, e.id, j, s, f.target, f.id, k)
        /\ <<j, k>> \in ReverseOrder(g) <=> Before(r, e.source, e.id, j, s, f.source, f.id, k)
        /\ <<j, k>> \in TargetOrder(g) <=> Before(e.target, r, e.id, j, f.target, s, f.id, k)
        /\ <<j, k>> \in CanonicalOrder(g) <=>
               Before(e.source, r, e.target, e.id, f.source, s, f.target, f.id)
    BY OrdersUnfold
  <1>3. e.id = f.id => j = k
    BY DEF Coherent, EdgesNumbered
  <1> HIDE DEF e, f, r, s
  <1>4. /\ <<j, k>> \in ForwardOrder(g) => r <= s
        /\ <<j, k>> \in ReverseOrder(g) => r <= s
        /\ <<j, k>> \in TargetOrder(g) => e.target <= f.target
        /\ e.source = f.source /\ <<j, k>> \in ForwardOrder(g) => <<j, k>> \in CanonicalOrder(g)
        /\ e.target = f.target /\ r = s /\ <<j, k>> \in ReverseOrder(g)
              => <<j, k>> \in CanonicalOrder(g)
        /\ e.source = f.source /\ e.target = f.target /\ <<j, k>> \in TargetOrder(g)
              => <<j, k>> \in CanonicalOrder(g)
    BY <1>1, <1>2, <1>3 DEF Before
  <1> QED
    BY <1>4 DEF e, f, r, s

(* outgoing_layer: the edges of one layer that leave a node.               *)
LEMMA OutgoingIsScan ==
    ASSUME NEW g, Coherent(g), TypedStore(g), NEW v, IndexOf(g, v), NEW id, NEW layer \in 0..9
    PROVE  Lists(OutgoingLayer(g, v, id, layer), {k \in OutOf(g, id) : Rank(g, k) = layer},
                 CanonicalOrder(g))
  <1> DEFINE K == {k \in OutOf(g, id) : Rank(g, k) = layer}
  <1>1. OutOf(g, id) \in SUBSET DOMAIN g.edges
    BY DEF OutOf
  <1>2. \A j, k \in OutOf(g, id) : <<j, k>> \in ForwardOrder(g) => Rank(g, j) <= Rank(g, k)
    BY <1>1, RowOrders
  <1>3. Lists(OutgoingLayer(g, v, id, layer), K, ForwardOrder(g))
    BY <1>1, <1>2, RowsList, LayerSliceLists DEF OutgoingLayer
  <1>4. \A j, k \in K : <<j, k>> \in ForwardOrder(g) => <<j, k>> \in CanonicalOrder(g)
    <2>1. \A k \in K : k \in DOMAIN g.edges /\ g.edges[k].source = id
      BY DEF OutOf
    <2> QED
      BY <2>1, RowOrders
  <1> HIDE DEF K
  <1>5. Lists(OutgoingLayer(g, v, id, layer), K, CanonicalOrder(g))
    BY <1>3, <1>4, ListingReordered
  <1> QED
    BY <1>5 DEF K

(* incoming_layer: the edges of one layer that enter a node.               *)
LEMMA IncomingIsScan ==
    ASSUME NEW g, Coherent(g), TypedStore(g), NEW v, IndexOf(g, v), NEW id, NEW layer \in 0..9
    PROVE  Lists(IncomingLayer(g, v, id, layer), {k \in Into(g, id) : Rank(g, k) = layer},
                 CanonicalOrder(g))
  <1> DEFINE K == {k \in Into(g, id) : Rank(g, k) = layer}
  <1>1. Into(g, id) \in SUBSET DOMAIN g.edges
    BY DEF Into
  <1>2. \A j, k \in Into(g, id) : <<j, k>> \in ReverseOrder(g) => Rank(g, j) <= Rank(g, k)
    BY <1>1, RowOrders
  <1>3. Lists(IncomingLayer(g, v, id, layer), K, ReverseOrder(g))
    BY <1>1, <1>2, RowsList, LayerSliceLists DEF IncomingLayer
  <1>4. \A j, k \in K : <<j, k>> \in ReverseOrder(g) => <<j, k>> \in CanonicalOrder(g)
    <2>1. \A k \in K : k \in DOMAIN g.edges /\ g.edges[k].target = id /\ Rank(g, k) = layer
      BY DEF Into
    <2> QED
      BY <2>1, RowOrders
  <1> HIDE DEF K
  <1>5. Lists(IncomingLayer(g, v, id, layer), K, CanonicalOrder(g))
    BY <1>3, <1>4, ListingReordered
  <1> QED
    BY <1>5 DEF K

(* edges_between: the edges from one node to another.                      *)
LEMMA BetweenIsScan ==
    ASSUME NEW g, Coherent(g), TypedStore(g), NEW v, IndexOf(g, v),
           NEW id, NEW other \in NodeId
    PROVE  Lists(Between(g, v, id, other), {k \in OutOf(g, id) : g.edges[k].target = other},
                 CanonicalOrder(g))
  <1> DEFINE K == {k \in OutOf(g, id) : g.edges[k].target = other}
             index == g.node_index_map[id]
             row == v.by_target[index]
             targets == v.by_target_nodes[index]
             w == [k \in OutOf(g, id) |-> g.edges[k].target]
             low == {i \in DOMAIN row : w[row[i]] < other}
             high == {i \in DOMAIN row : w[row[i]] <= other}
  <1>1. OutOf(g, id) \in SUBSET DOMAIN g.edges /\ other \in Nat
    BY MaxIdAssumption DEF OutOf, NodeId
  <1>2. CASE id \notin NodeIds(g)
    <2>1. K = {} /\ Between(g, v, id, other) = <<>>
      BY <1>2, RowsOfNodes DEF Between
    <2> QED
      BY <2>1, EmptyLists
  <1>3. CASE id \in NodeIds(g)
    <2>1. index \in DOMAIN g.nodes
      BY <1>3, StoreFacts
    <2>2. Lists(row, OutOf(g, id), TargetOrder(g))
      BY <1>3, <2>1, RowsOfNodes DEF IndexOf
    <2>3. targets = [i \in DOMAIN row |-> g.edges[row[i]].target]
      BY <2>1, Zenon DEF IndexOf
    <2>4. \A i \in DOMAIN row : row[i] \in OutOf(g, id)
      BY <2>2 DEF Lists
    <2>5. w \in [OutOf(g, id) -> Nat]
      BY <1>1, KeysAreNumbers
    <2>6. \A j, k \in OutOf(g, id) : <<j, k>> \in TargetOrder(g) => w[j] <= w[k]
      BY <1>1, RowOrders
    <2>7. \A k \in OutOf(g, id) : w[k] = g.edges[k].target
      OBVIOUS
    <2>8. /\ low = {i \in DOMAIN targets : targets[i] < other}
          /\ high = {i \in DOMAIN targets : targets[i] <= other}
      <3> HIDE DEF row, targets, w
      <3>1. DOMAIN targets = DOMAIN row /\ \A i \in DOMAIN row : targets[i] = w[row[i]]
        BY <2>3, <2>4, <2>7
      <3> QED
        BY <3>1
    <2>9. Between(g, v, id, other)
              = SubSeq(row, PartitionPoint(low) + 1, PartitionPoint(high))
      BY <1>3, <2>8, Zenon DEF Between
    <2>10. {k \in OutOf(g, id) : w[k] = other} = K
      OBVIOUS
    <2>11. Lists(SubSeq(row, PartitionPoint(low) + 1, PartitionPoint(high)),
                 {k \in OutOf(g, id) : w[k] = other}, TargetOrder(g))
      <3> HIDE DEF w, row
      <3> QED
        BY <1>1, <2>2, <2>5, <2>6, SliceLists
    <2>12. Lists(Between(g, v, id, other), K, TargetOrder(g))
      <3> HIDE DEF w, row, low, high
      <3> QED
        BY <2>9, <2>10, <2>11
    <2>13. \A j, k \in K : <<j, k>> \in TargetOrder(g) => <<j, k>> \in CanonicalOrder(g)
      <3>1. \A k \in K : k \in DOMAIN g.edges /\ g.edges[k].source = id /\ g.edges[k].target = other
        BY DEF OutOf
      <3> QED
        BY <3>1, RowOrders
    <2> HIDE DEF K
    <2>14. Lists(Between(g, v, id, other), K, CanonicalOrder(g))
      BY <2>12, <2>13, ListingReordered
    <2> QED
      BY <2>14 DEF K
  <1> QED
    BY <1>2, <1>3

(* One listing after another lists both sets, when the first lies below.   *)
LEMMA ConcatenationLists ==
    ASSUME NEW S, NEW T, NEW R, NEW s, NEW t, Lists(s, S, R), Lists(t, T, R),
           \A j \in S, k \in T : <<j, k>> \in R
    PROVE  Lists(s \o t, S \cup T, R)
  <1> DEFINE u == s \o t
             m == Len(s)
             n == Len(t)
  <1>1. /\ s \in Seq(S) /\ t \in Seq(T) /\ m \in Nat /\ n \in Nat
        /\ DOMAIN s = 1..m /\ DOMAIN t = 1..n
        /\ \A i \in 1..m : s[i] \in S
        /\ \A i \in 1..n : t[i] \in T
    BY DEF Lists
  <1>2. /\ s \in Seq(S \cup T) /\ t \in Seq(S \cup T)
    BY <1>1
  <1>3. /\ u \in Seq(S \cup T) /\ DOMAIN u = 1..(m + n)
        /\ \A i \in 1..m : u[i] = s[i]
        /\ \A i \in 1..n : u[m + i] = t[i]
    BY <1>1, <1>2
  <1> HIDE DEF u, m, n
  <1>4. ASSUME NEW k \in S \cup T
        PROVE  \E i \in DOMAIN u : u[i] = k
    <2>1. CASE k \in S
      <3>1. PICK i \in 1..m : s[i] = k
        BY <1>1, <2>1 DEF Lists
      <3> QED
        BY <1>1, <1>3, <3>1
    <2>2. CASE k \in T
      <3>1. PICK i \in 1..n : t[i] = k
        BY <1>1, <2>2 DEF Lists
      <3>2. m + i \in DOMAIN u /\ u[m + i] = k
        BY <1>1, <1>3, <3>1
      <3> QED
        BY <3>2
    <2> QED
      BY <2>1, <2>2
  <1>5. ASSUME NEW i \in DOMAIN u, NEW j \in DOMAIN u, i < j
        PROVE  <<u[i], u[j]>> \in R
    <2>1. CASE j \in 1..m
      <3>1. i \in 1..m
        BY <1>1, <1>3, <1>5, <2>1
      <3>2. <<s[i], s[j]>> \in R
        BY <1>1, <1>5, <2>1, <3>1 DEF Lists
      <3> QED
        BY <1>3, <2>1, <3>1, <3>2
    <2>2. CASE i \in 1..m /\ j \notin 1..m
      <3>1. j - m \in 1..n /\ m + (j - m) = j
        BY <1>1, <1>3, <2>2
      <3>2. u[j] = t[j - m]
        BY <1>3, <3>1
      <3> QED
        BY <1>1, <1>3, <2>2, <3>1, <3>2
    <2>3. CASE i \notin 1..m
      <3>0. i \in Nat /\ j \in Nat /\ i > m /\ j > i /\ j <= m + n
        BY <1>1, <1>3, <1>5, <2>3
      <3>1. /\ i - m \in 1..n /\ j - m \in 1..n /\ i - m < j - m
            /\ m + (i - m) = i /\ m + (j - m) = j
        BY <1>1, <3>0
      <3>2. u[i] = t[i - m] /\ u[j] = t[j - m]
        BY <1>3, <3>1
      <3>3. <<t[i - m], t[j - m]>> \in R
        BY <1>1, <3>1 DEF Lists
      <3> QED
        BY <3>2, <3>3
    <2> QED
      BY <2>1, <2>2, <2>3
  <1> QED
    BY <1>3, <1>4, <1>5 DEF Lists, u

\* f holds the first m concatenations of FlattenSeq.
Flattens(f, seqs, m) ==
    f = [i \in 1..m |-> IF i = 1 THEN seqs[i] ELSE f[i - 1] \o seqs[i]]

(* FlattenSeq returns the last concatenation.                              *)
LEMMA FlattenUnfolds ==
    ASSUME NEW X, NEW seqs \in Seq(X), Len(seqs) # 0
    PROVE  \E f : Flattens(f, seqs, Len(seqs)) /\ FlattenSeq(seqs) = f[Len(seqs)]
  <1> DEFINE n == Len(seqs)
             bad == {m \in Nat : \A f : ~Flattens(f, seqs, m)}
  <1>1. bad = {}
    <2> SUFFICES ASSUME bad # {} PROVE FALSE
      OBVIOUS
    <2>1. bad \in SUBSET Nat
      OBVIOUS
    <2> HIDE DEF bad
    <2>2. PICK m \in bad : \A l \in bad : m <= l
      BY <2>1, LeastOfNaturals
    <2> USE DEF bad
    <2>3. m \in Nat /\ \A f : ~Flattens(f, seqs, m)
      BY <2>2
    <2>4. CASE m = 0
      <3> DEFINE f == [i \in 1..m |-> seqs[i]]
      <3>1. 1..m = {}
        BY <2>4
      <3>2. f = [i \in 1..m |-> IF i = 1 THEN seqs[i] ELSE f[i - 1] \o seqs[i]]
        BY <3>1
      <3>3. Flattens(f, seqs, m)
        BY <3>2 DEF Flattens
      <3> QED
        BY <2>3, <3>3
    <2>5. CASE m # 0
      <3>1. m - 1 \in Nat /\ ~(m <= m - 1)
        BY <2>3, <2>5
      <3>2. m - 1 \notin bad
        BY <2>2, <3>1
      <3>3. PICK f : Flattens(f, seqs, m - 1)
        BY <3>1, <3>2
      <3> DEFINE e(i) == IF i = 1 THEN seqs[i] ELSE f[i - 1] \o seqs[i]
                 h == [i \in 1..m |-> e(i)]
      <3>4. /\ \A i \in 1..m : i # 1 => i - 1 \in 1..(m - 1) /\ i - 1 \in 1..m
            /\ \A i \in 1..(m - 1) : i \in 1..m
        BY <2>3
      <3>5. \A i \in 1..(m - 1) : f[i] = e(i)
        BY <3>3 DEF Flattens
      <3>6. \A i \in 1..(m - 1) : h[i] = f[i]
        BY <3>4, <3>5
      <3>7. \A i \in 1..m : e(i) = IF i = 1 THEN seqs[i] ELSE h[i - 1] \o seqs[i]
        BY <3>4, <3>6
      <3>8. h = [i \in 1..m |-> IF i = 1 THEN seqs[i] ELSE h[i - 1] \o seqs[i]]
        <4>1. h = [i \in 1..m |-> e(i)]
          OBVIOUS
        <4> HIDE DEF h, e
        <4> QED
          BY <3>7, <4>1
      <3>9. Flattens(h, seqs, m)
        BY <3>8, Zenon DEF Flattens
      <3> QED
        BY <2>3, <3>9
    <2> QED
      BY <2>4, <2>5
  <1>2. n \in Nat
    OBVIOUS
  <1> DEFINE g == CHOOSE f : Flattens(f, seqs, n)
  <1>3. Flattens(g, seqs, n)
    <2>1. \E f : Flattens(f, seqs, n)
      BY <1>1, <1>2
    <2> QED
      BY <2>1
  <1>4. FlattenSeq(seqs) = g[n]
    BY Zenon DEF FlattenSeq, Flattens
  <1> QED
    BY <1>3, <1>4

(* Flattened listings of ascending sets list their union.                  *)
LEMMA FlattenLists ==
    ASSUME NEW X, NEW seqs \in Seq(X), NEW R, NEW K,
           \A d \in DOMAIN seqs : Lists(seqs[d], K[d], R),
           \A d, e \in DOMAIN seqs : d < e => \A j \in K[d], k \in K[e] : <<j, k>> \in R
    PROVE  Lists(FlattenSeq(seqs), UNION {K[d] : d \in DOMAIN seqs}, R)
  <1> DEFINE n == Len(seqs)
             Upto(m) == UNION {K[d] : d \in 1..m}
  <1>1. n \in Nat /\ DOMAIN seqs = 1..n
    OBVIOUS
  <1>2. CASE n = 0
    <2>1. FlattenSeq(seqs) = seqs /\ seqs = <<>> /\ DOMAIN seqs = {}
      BY <1>1, <1>2 DEF FlattenSeq
    <2>2. UNION {K[d] : d \in DOMAIN seqs} = {}
      BY <2>1
    <2> QED
      BY <2>1, <2>2, EmptyLists
  <1>3. CASE n # 0
    <2>1. PICK f : Flattens(f, seqs, n) /\ FlattenSeq(seqs) = f[n]
      BY <1>3, FlattenUnfolds
    <2>2. \A i \in 1..n : f[i] = IF i = 1 THEN seqs[i] ELSE f[i - 1] \o seqs[i]
      BY <2>1 DEF Flattens
    <2> DEFINE bad == {m \in 1..n : ~Lists(f[m], Upto(m), R)}
    <2>3. bad = {}
      <3> SUFFICES ASSUME bad # {} PROVE FALSE
        OBVIOUS
      <3>1. bad \in SUBSET Nat
        OBVIOUS
      <3> HIDE DEF bad, Upto
      <3>2. PICK m \in bad : \A l \in bad : m <= l
        BY <3>1, LeastOfNaturals
      <3>3. m \in 1..n /\ ~Lists(f[m], Upto(m), R)
        BY <3>2 DEF bad
      <3>4. CASE m = 1
        <4>1. 1..m = {1}
          BY <3>4
        <4>2. Upto(m) = K[1]
          BY <4>1 DEF Upto
        <4> QED
          BY <1>1, <2>2, <3>3, <3>4, <4>2
      <3>5. CASE m # 1
        <4>1. /\ m - 1 \in 1..n /\ ~(m <= m - 1)
              /\ 1..m = 1..(m - 1) \cup {m} /\ \A d \in 1..(m - 1) : d \in 1..n /\ d < m
          BY <1>1, <3>3, <3>5
        <4>2. Lists(f[m - 1], Upto(m - 1), R)
          BY <3>2, <4>1 DEF bad
        <4>3. Upto(m) = Upto(m - 1) \cup K[m]
          BY <4>1 DEF Upto
        <4>4. \A j \in Upto(m - 1), k \in K[m] : <<j, k>> \in R
          BY <1>1, <3>3, <4>1 DEF Upto
        <4>5. f[m] = f[m - 1] \o seqs[m] /\ Lists(seqs[m], K[m], R)
          BY <1>1, <2>2, <3>3, <3>5
        <4>6. Lists(f[m - 1] \o seqs[m], Upto(m - 1) \cup K[m], R)
          BY <4>2, <4>4, <4>5, ConcatenationLists
        <4> QED
          BY <3>3, <4>3, <4>5, <4>6
      <3> QED
        BY <3>4, <3>5
    <2>4. Lists(f[n], Upto(n), R)
      <3>1. n \in 1..n
        BY <1>1, <1>3
      <3> HIDE DEF n, Upto
      <3> QED
        BY <2>3, <3>1
    <2> QED
      BY <1>1, <2>1, <2>4
  <1> QED
    BY <1>2, <1>3

(* layer: the edges of one layer, by node identifier and row after row.    *)
LEMMA LayerIsScan ==
    ASSUME NEW g, Coherent(g), TypedStore(g), NEW v, IndexOf(g, v), NEW layer \in 0..9
    PROVE  Lists(Layer(g, v, layer), {k \in DOMAIN g.edges : Rank(g, k) = layer},
                 CanonicalOrder(g))
  <1> DEFINE ordered == v.node_indices
             slice(d) == LayerSlice(g, v.forward[ordered[d]], layer)
             seqs == [d \in DOMAIN ordered |-> slice(d)]
             K == [d \in DOMAIN ordered |-> {k \in EdgesFrom(g, ordered[d]) : Rank(g, k) = layer}]
             R == CanonicalOrder(g)
  <1>1. /\ Lists(ordered, DOMAIN g.nodes, NodeOrder(g))
        /\ \A index \in DOMAIN g.nodes : Lists(v.forward[index], EdgesFrom(g, index), ForwardOrder(g))
    BY DEF IndexOf
  <1>2. \A d \in DOMAIN ordered : ordered[d] \in DOMAIN g.nodes
    BY <1>1 DEF Lists
  <1>3. \A index \in DOMAIN g.nodes : \A k \in EdgesFrom(g, index) :
            k \in DOMAIN g.edges /\ g.edges[k].source = g.nodes[index].id
    BY DEF EdgesFrom, Coherent, EndpointsStored, HasEndpoints, NodesIndexed, NodeAt
  <1> HIDE DEF ordered
  <1>4. ASSUME NEW d \in DOMAIN ordered
        PROVE  Lists(slice(d), K[d], R)
    <2> DEFINE S == EdgesFrom(g, ordered[d])
               T == {k \in S : Rank(g, k) = layer}
    <2>1. S \in SUBSET DOMAIN g.edges
      BY DEF EdgesFrom
    <2>2. Lists(v.forward[ordered[d]], S, ForwardOrder(g))
      BY <1>1, <1>2
    <2>3. \A j, k \in S : /\ <<j, k>> \in ForwardOrder(g) => Rank(g, j) <= Rank(g, k)
                          /\ <<j, k>> \in ForwardOrder(g) => <<j, k>> \in R
      BY <1>2, <1>3, RowOrders
    <2>4. Lists(slice(d), T, ForwardOrder(g))
      <3> HIDE DEF S
      <3> QED
        BY <2>1, <2>2, <2>3, LayerSliceLists
    <2>5. \A j, k \in T : <<j, k>> \in ForwardOrder(g) => <<j, k>> \in R
      BY <2>3
    <2>6. K[d] = T
      OBVIOUS
    <2> HIDE DEF T, K, slice, R
    <2> QED
      BY <2>4, <2>5, <2>6, ListingReordered
  <1>5. ASSUME NEW d \in DOMAIN ordered, NEW e \in DOMAIN ordered, d < e,
               NEW j \in K[d], NEW k \in K[e]
        PROVE  <<j, k>> \in R
    <2>1. <<ordered[d], ordered[e]>> \in NodeOrder(g)
      BY <1>1, <1>5 DEF Lists
    <2>2. g.nodes[ordered[d]].id < g.nodes[ordered[e]].id
      BY <2>1 DEF NodeOrder
    <2>3. /\ j \in DOMAIN g.edges /\ k \in DOMAIN g.edges
          /\ g.edges[j].source < g.edges[k].source
      BY <1>2, <1>3, <2>2
    <2>4. Before(g.edges[j].source, Rank(g, j), g.edges[j].target, g.edges[j].id,
                 g.edges[k].source, Rank(g, k), g.edges[k].target, g.edges[k].id)
      BY <2>3 DEF Before
    <2> QED
      BY <2>3, <2>4, OrdersUnfold
  <1>6. UNION {K[d] : d \in DOMAIN ordered} = {k \in DOMAIN g.edges : Rank(g, k) = layer}
    <2>1. ASSUME NEW k \in DOMAIN g.edges, Rank(g, k) = layer
          PROVE  \E d \in DOMAIN ordered : k \in K[d]
      <3>1. g.edges[k].from \in DOMAIN g.nodes
        BY StoreFacts
      <3>2. PICK d \in DOMAIN ordered : ordered[d] = g.edges[k].from
        BY <1>1, <3>1 DEF Lists
      <3> QED
        BY <2>1, <3>2 DEF EdgesFrom
    <2>2. \A d \in DOMAIN ordered : \A k \in K[d] : k \in DOMAIN g.edges /\ Rank(g, k) = layer
      BY DEF EdgesFrom
    <2> HIDE DEF K
    <2> QED
      BY <2>1, <2>2
  <1>7. seqs \in Seq(Seq(DOMAIN g.edges)) /\ DOMAIN seqs = DOMAIN ordered
    <2>1. \A d \in DOMAIN ordered : slice(d) \in Seq(DOMAIN g.edges)
      <3> SUFFICES ASSUME NEW d \in DOMAIN ordered PROVE slice(d) \in Seq(DOMAIN g.edges)
        OBVIOUS
      <3>1. slice(d) \in Seq(K[d])
        BY <1>4 DEF Lists
      <3>2. K[d] \subseteq DOMAIN g.edges
        BY DEF EdgesFrom
      <3> HIDE DEF slice, K
      <3> QED
        BY <3>1, <3>2
    <2>2. DOMAIN ordered = 1..Len(ordered) /\ Len(ordered) \in Nat
      BY <1>1 DEF Lists
    <2> HIDE DEF slice
    <2> QED
      BY <2>1, <2>2
  <1>8. Layer(g, v, layer) = FlattenSeq(seqs)
    BY Zenon DEF Layer, ordered
  <1>9. \A d \in DOMAIN ordered : seqs[d] = slice(d)
    OBVIOUS
  <1> HIDE DEF seqs, slice, K, R
  <1>10. Lists(FlattenSeq(seqs), UNION {K[d] : d \in DOMAIN seqs}, R)
    BY <1>4, <1>5, <1>7, <1>9, FlattenLists
  <1> QED
    BY <1>6, <1>7, <1>8, <1>10 DEF R

-------------------------------------------------------------------------------
(* Distinct neighbours *)

(* A one-to-one correspondence preserves the number of members.            *)
LEMMA CountsAlike ==
    ASSUME NEW S, IsFiniteSet(S), NEW T, NEW f \in [S -> T],
           \A a, b \in S : f[a] = f[b] => a = b,
           \A t \in T : \E a \in S : f[a] = t
    PROVE  Cardinality(S) = Cardinality(T)
  <1>1. f \in Injection(S, T)
    BY Fun_IsInj
  <1>2. f \in Surjection(S, T)
    BY Fun_IsSurj
  <1>3. ExistsBijection(S, T)
    BY <1>1, <1>2 DEF Bijection, ExistsBijection
  <1> QED
    BY <1>3, FS_Bijection

(* The node stored at a position, and the edges stored there, share their  *)
(* identifier.                                                             *)
LEMMA PositionsAndIdentifiers ==
    ASSUME NEW g, Coherent(g), TypedStore(g), NEW k \in DOMAIN g.edges
    PROVE  /\ g.edges[k].from \in DOMAIN g.nodes /\ g.edges[k].to \in DOMAIN g.nodes
           /\ \A i \in DOMAIN g.nodes :
                 /\ g.edges[k].from = i <=> g.edges[k].source = g.nodes[i].id
                 /\ g.edges[k].to = i <=> g.edges[k].target = g.nodes[i].id
  <1>1. /\ g.edges[k].source \in NodeIds(g) /\ g.edges[k].target \in NodeIds(g)
        /\ g.node_index_map[g.edges[k].source] = g.edges[k].from
        /\ g.node_index_map[g.edges[k].target] = g.edges[k].to
    BY DEF Coherent, EndpointsStored, HasEndpoints
  <1>2. \A i \in DOMAIN g.nodes : g.node_index_map[g.nodes[i].id] = i
    BY DEF Coherent, NodesIndexed
  <1>3. \A id \in NodeIds(g) : g.node_index_map[id] \in DOMAIN g.nodes
                               /\ g.nodes[g.node_index_map[id]].id = id
    BY DEF Coherent, NodesIndexed, NodeAt
  <1> QED
    BY <1>1, <1>2, <1>3

(* Each distinct target of a row is counted exactly once.                  *)
LEMMA CountedFacts ==
    ASSUME NEW g, Coherent(g), TypedStore(g), NEW v, IndexOf(g, v),
           NEW index \in DOMAIN g.nodes
    PROVE  LET row == v.by_target[index]
               targets == v.by_target_nodes[index]
           IN /\ CountedIn(v, index) \in SUBSET (1..Len(g.edges))
              /\ \A i \in CountedIn(v, index) : /\ row[i] \in EdgesFrom(g, index)
                                                /\ targets[i] = g.edges[row[i]].target
              /\ \A i, j \in CountedIn(v, index) : targets[i] = targets[j] => i = j
              /\ \A k \in EdgesFrom(g, index) :
                    \E i \in CountedIn(v, index) : targets[i] = g.edges[k].target
  <1> DEFINE row == v.by_target[index]
             targets == v.by_target_nodes[index]
             n == Len(row)
             C == CountedIn(v, index)
  <1>1. /\ Lists(row, EdgesFrom(g, index), TargetOrder(g))
        /\ targets = [i \in DOMAIN row |-> g.edges[row[i]].target]
    BY DEF IndexOf
  <1>2. C = {i \in DOMAIN row : i = 1 \/ targets[i] # targets[i - 1]}
    BY DEF CountedIn
  <1> HIDE DEF row, targets, C
  <1>3. EdgesFrom(g, index) \in SUBSET DOMAIN g.edges
    BY DEF EdgesFrom
  <1>4. n \in Nat /\ DOMAIN row = 1..n /\ Cardinality(EdgesFrom(g, index)) = n
    <2>1. StrictOrder(EdgesFrom(g, index), TargetOrder(g))
      BY <1>3, OrdersAreStrict
    <2> QED
      BY <1>1, <2>1, ListingIsBijective
  <1>5. n <= Len(g.edges)
    <2>1. Cardinality(EdgesFrom(g, index)) <= Cardinality(DOMAIN g.edges)
      BY <1>3, StoreFacts, FS_Subset
    <2>2. /\ 1 \in Int /\ Len(g.edges) \in Int /\ Len(g.edges) \in Nat
          /\ DOMAIN g.edges = 1..Len(g.edges)
      BY StoreFacts
    <2>3. Cardinality(1..Len(g.edges))
              = IF 1 > Len(g.edges) THEN 0 ELSE Len(g.edges) - 1 + 1
      BY <2>2, FS_Interval
    <2> QED
      BY <1>4, <2>1, <2>2, <2>3
  <1>6. \A i \in 1..n : /\ row[i] \in EdgesFrom(g, index)
                        /\ targets[i] = g.edges[row[i]].target
                        /\ targets[i] \in Nat
    <2> SUFFICES ASSUME NEW i \in 1..n
                 PROVE  /\ row[i] \in EdgesFrom(g, index)
                        /\ targets[i] = g.edges[row[i]].target
                        /\ targets[i] \in Nat
      OBVIOUS
    <2>1. row[i] \in EdgesFrom(g, index)
      BY <1>1, <1>4 DEF Lists
    <2>2. targets[i] = g.edges[row[i]].target
      BY <1>1, <1>4
    <2>3. row[i] \in DOMAIN g.edges
      BY <1>3, <2>1
    <2> QED
      BY <2>1, <2>2, <2>3, KeysAreNumbers
  <1>7. \A i, j \in 1..n : i <= j => targets[i] <= targets[j]
    <2> SUFFICES ASSUME NEW i \in 1..n, NEW j \in 1..n, i < j
                 PROVE  targets[i] <= targets[j]
      BY <1>6
    <2>1. <<row[i], row[j]>> \in TargetOrder(g)
      BY <1>1, <1>4 DEF Lists
    <2>2. row[i] \in DOMAIN g.edges /\ row[j] \in DOMAIN g.edges
      BY <1>3, <1>6
    <2>3. g.edges[row[i]].target <= g.edges[row[j]].target
      BY <2>1, <2>2, RowOrders
    <2> QED
      BY <1>6, <2>3
  <1>8. C \in SUBSET (1..Len(g.edges)) /\ C \in SUBSET (1..n)
    <2>1. \A i \in 1..n : i \in 1..Len(g.edges)
      BY <1>4, <1>5, StoreFacts
    <2> QED
      BY <1>2, <1>4, <2>1
  <1>9. ASSUME NEW i \in C, NEW j \in C, targets[i] = targets[j], i < j
        PROVE  FALSE
    <2>1. i \in 1..n /\ j \in 1..n
      BY <1>8
    <2>2. j # 1 /\ j - 1 \in 1..n /\ i <= j - 1 /\ j - 1 <= j
      BY <1>4, <1>9, <2>1
    <2>3. targets[i] <= targets[j - 1] /\ targets[j - 1] <= targets[j]
      BY <1>7, <2>1, <2>2
    <2>4. targets[j - 1] = targets[j]
      BY <1>6, <1>9, <2>1, <2>2, <2>3
    <2> QED
      BY <1>2, <2>2, <2>4
  <1>10. \A i, j \in C : targets[i] = targets[j] => i = j
    <2> SUFFICES ASSUME NEW i \in C, NEW j \in C, targets[i] = targets[j], i # j
                 PROVE  FALSE
      OBVIOUS
    <2>1. i \in 1..n /\ j \in 1..n
      BY <1>8
    <2>2. i < j \/ j < i
      BY <1>4, <2>1
    <2> QED
      BY <1>9, <2>2
  <1>11. ASSUME NEW k \in EdgesFrom(g, index)
         PROVE  \E i \in C : targets[i] = g.edges[k].target
    <2> DEFINE at == {i \in 1..n : targets[i] = g.edges[k].target}
    <2>1. PICK l \in 1..n : row[l] = k
      BY <1>1, <1>4 DEF Lists
    <2>2. l \in at
      BY <1>6, <2>1
    <2>3. at \in SUBSET Nat
      OBVIOUS
    <2> HIDE DEF at
    <2>4. PICK i \in at : \A m \in at : i <= m
      BY <2>2, <2>3, LeastOfNaturals
    <2>5. i \in 1..n /\ targets[i] = g.edges[k].target
      BY <2>4 DEF at
    <2>6. i = 1 \/ targets[i] # targets[i - 1]
      <3> SUFFICES ASSUME i # 1, targets[i] = targets[i - 1] PROVE FALSE
        OBVIOUS
      <3>1. i - 1 \in 1..n /\ ~(i <= i - 1)
        BY <1>4, <2>5
      <3>2. i - 1 \in at
        BY <2>5, <3>1 DEF at
      <3> QED
        BY <2>4, <3>1, <3>2
    <2> QED
      BY <1>2, <1>4, <2>5, <2>6
  <1>12. \A i \in C : row[i] \in EdgesFrom(g, index) /\ targets[i] = g.edges[row[i]].target
    BY <1>6, <1>8
  <1>13. /\ C \in SUBSET (1..Len(g.edges))
         /\ \A i \in C : row[i] \in EdgesFrom(g, index) /\ targets[i] = g.edges[row[i]].target
         /\ \A i, j \in C : targets[i] = targets[j] => i = j
         /\ \A k \in EdgesFrom(g, index) : \E i \in C : targets[i] = g.edges[k].target
    BY <1>8, <1>10, <1>11, <1>12
  <1> QED
    BY <1>13 DEF row, targets, C

Pairs(g) == {<<g.edges[k].source, g.edges[k].target>> : k \in DOMAIN g.edges}

(* The counted positions of a row are as many as the node's distinct       *)
(* successors.                                                             *)
LEMMA OutgoingIsCounted ==
    ASSUME NEW g, Coherent(g), TypedStore(g), NEW v, IndexOf(g, v),
           NEW index \in DOMAIN g.nodes
    PROVE  Cardinality(CountedIn(v, index))
             = Cardinality({p \in Pairs(g) : p[1] = g.nodes[index].id})
  <1> DEFINE id == g.nodes[index].id
             C == CountedIn(v, index)
             T == {p \in Pairs(g) : p[1] = id}
             targets == v.by_target_nodes[index]
             row == v.by_target[index]
             f == [i \in C |-> <<id, targets[i]>>]
  <1>1. /\ C \in SUBSET (1..Len(g.edges))
        /\ \A i \in C : row[i] \in EdgesFrom(g, index) /\ targets[i] = g.edges[row[i]].target
        /\ \A i, j \in C : targets[i] = targets[j] => i = j
        /\ \A k \in EdgesFrom(g, index) : \E i \in C : targets[i] = g.edges[k].target
    BY CountedFacts
  <1>2. \A k \in DOMAIN g.edges : k \in EdgesFrom(g, index) <=> g.edges[k].source = id
    BY PositionsAndIdentifiers DEF EdgesFrom
  <1>3. EdgesFrom(g, index) \subseteq DOMAIN g.edges
    BY DEF EdgesFrom
  <1> HIDE DEF C, targets, row, id
  <1>4. IsFiniteSet(C)
    BY <1>1, StoreFacts, FS_Subset
  <1>5. f \in [C -> T]
    <2> SUFFICES ASSUME NEW i \in C PROVE <<id, targets[i]>> \in T
      OBVIOUS
    <2>1. /\ row[i] \in DOMAIN g.edges /\ g.edges[row[i]].source = id
          /\ g.edges[row[i]].target = targets[i]
      BY <1>1, <1>2, <1>3
    <2>2. <<id, targets[i]>> \in Pairs(g)
      BY <2>1 DEF Pairs
    <2> QED
      BY <2>2
  <1>6. \A a, b \in C : f[a] = f[b] => a = b
    BY <1>1
  <1>7. ASSUME NEW t \in T
        PROVE  \E i \in C : f[i] = t
    <2>1. PICK k \in DOMAIN g.edges : t = <<g.edges[k].source, g.edges[k].target>>
      BY DEF Pairs
    <2>2. g.edges[k].source = id
      BY <2>1
    <2>3. PICK i \in C : targets[i] = g.edges[k].target
      BY <1>1, <1>2, <2>2
    <2> QED
      BY <2>1, <2>2, <2>3
  <1> HIDE DEF f, T
  <1>8. Cardinality(C) = Cardinality(T)
    BY <1>4, <1>5, <1>6, <1>7, CountsAlike
  <1> QED
    BY <1>8 DEF C, T, id

Entering(g, v, index) ==
    {p \in (DOMAIN v.by_target) \X (1..Len(g.edges)) :
        /\ p[2] \in CountedIn(v, p[1])
        /\ g.edges[v.by_target[p[1]][p[2]]].to = index}

(* The counted positions that lead to a node are as many as its distinct   *)
(* predecessors.                                                           *)
LEMMA IncomingIsCounted ==
    ASSUME NEW g, Coherent(g), TypedStore(g), NEW v, IndexOf(g, v),
           NEW index \in DOMAIN g.nodes
    PROVE  Cardinality(Entering(g, v, index))
             = Cardinality({p \in Pairs(g) : p[2] = g.nodes[index].id})
  <1> DEFINE id == g.nodes[index].id
             E == Entering(g, v, index)
             T == {p \in Pairs(g) : p[2] = id}
             C(x) == CountedIn(v, x)
             targets(x) == v.by_target_nodes[x]
             row(x) == v.by_target[x]
             f == [p \in E |-> <<g.nodes[p[1]].id, id>>]
  <1>1. \A x \in DOMAIN g.nodes :
           /\ C(x) \in SUBSET (1..Len(g.edges))
           /\ \A i \in C(x) : row(x)[i] \in EdgesFrom(g, x) /\ targets(x)[i] = g.edges[row(x)[i]].target
           /\ \A i, j \in C(x) : targets(x)[i] = targets(x)[j] => i = j
           /\ \A k \in EdgesFrom(g, x) : \E i \in C(x) : targets(x)[i] = g.edges[k].target
    BY CountedFacts
  <1>2. \A k \in DOMAIN g.edges :
           /\ g.edges[k].from \in DOMAIN g.nodes
           /\ \A x \in DOMAIN g.nodes : g.edges[k].from = x <=> g.edges[k].source = g.nodes[x].id
           /\ \A x \in DOMAIN g.nodes : g.edges[k].to = x <=> g.edges[k].target = g.nodes[x].id
    BY PositionsAndIdentifiers
  <1>3. \A x : EdgesFrom(g, x) = {k \in DOMAIN g.edges : g.edges[k].from = x}
    BY DEF EdgesFrom
  <1>4. DOMAIN v.by_target = DOMAIN g.nodes
    BY DEF IndexOf
  <1>5. E = {p \in (DOMAIN g.nodes) \X (1..Len(g.edges)) :
                p[2] \in C(p[1]) /\ g.edges[row(p[1])[p[2]]].to = index}
    BY <1>4 DEF Entering
  <1> HIDE DEF C, targets, row, E
  <1>6. IsFiniteSet(E)
    <2>1. IsFiniteSet((DOMAIN g.nodes) \X (1..Len(g.edges)))
      BY StoreFacts, FS_Product
    <2> QED
      BY <1>5, <2>1, FS_Subset
  <1>7. ASSUME NEW p \in E
        PROVE  /\ p[1] \in DOMAIN g.nodes /\ p[2] \in C(p[1]) /\ p = <<p[1], p[2]>>
               /\ row(p[1])[p[2]] \in DOMAIN g.edges
               /\ g.edges[row(p[1])[p[2]]].source = g.nodes[p[1]].id
               /\ g.edges[row(p[1])[p[2]]].target = id
               /\ targets(p[1])[p[2]] = id
    <2>1. /\ p[1] \in DOMAIN g.nodes /\ p[2] \in C(p[1]) /\ p = <<p[1], p[2]>>
          /\ g.edges[row(p[1])[p[2]]].to = index
      BY <1>5
    <2> DEFINE k == row(p[1])[p[2]]
    <2>2. k \in EdgesFrom(g, p[1]) /\ targets(p[1])[p[2]] = g.edges[k].target
      BY <1>1, <2>1
    <2>3. k \in DOMAIN g.edges /\ g.edges[k].from = p[1]
      BY <1>3, <2>2
    <2>4. g.edges[k].source = g.nodes[p[1]].id /\ g.edges[k].target = id
      BY <1>2, <2>1, <2>3
    <2> QED
      BY <2>1, <2>2, <2>3, <2>4
  <1>8. f \in [E -> T]
    <2> SUFFICES ASSUME NEW p \in E PROVE <<g.nodes[p[1]].id, id>> \in T
      OBVIOUS
    <2>1. <<g.nodes[p[1]].id, id>> \in Pairs(g)
      BY <1>7 DEF Pairs
    <2> QED
      BY <2>1
  <1>9. ASSUME NEW a \in E, NEW b \in E, f[a] = f[b]
        PROVE  a = b
    <2>1. g.nodes[a[1]].id = g.nodes[b[1]].id
      BY <1>9
    <2>2. a[1] = b[1]
      BY <1>7, <2>1 DEF Coherent, NodesIndexed
    <2>3. a[2] = b[2]
      <3>1. /\ a[1] \in DOMAIN g.nodes /\ a[2] \in C(a[1]) /\ b[2] \in C(a[1])
            /\ targets(a[1])[a[2]] = id /\ targets(a[1])[b[2]] = id
        BY <1>7, <2>2
      <3> QED
        BY <1>1, <3>1
    <2> QED
      BY <1>7, <2>2, <2>3
  <1>10. ASSUME NEW t \in T
         PROVE  \E p \in E : f[p] = t
    <2>1. PICK k \in DOMAIN g.edges : t = <<g.edges[k].source, g.edges[k].target>>
      BY DEF Pairs
    <2>2. g.edges[k].target = id
      BY <2>1
    <2> DEFINE x == g.edges[k].from
    <2>3. x \in DOMAIN g.nodes /\ g.edges[k].source = g.nodes[x].id /\ k \in EdgesFrom(g, x)
      BY <1>2, <1>3
    <2>4. PICK i \in C(x) : targets(x)[i] = id
      BY <1>1, <2>2, <2>3
    <2>5. /\ i \in 1..Len(g.edges)
          /\ row(x)[i] \in DOMAIN g.edges /\ g.edges[row(x)[i]].target = id
      BY <1>1, <1>3, <2>3, <2>4
    <2>6. g.edges[row(x)[i]].to = index
      BY <1>2, <2>5 DEF id
    <2> HIDE DEF x
    <2>7. <<x, i>> \in E
      BY <1>5, <2>3, <2>4, <2>5, <2>6
    <2>8. f[<<x, i>>] = t
      BY <2>1, <2>2, <2>3, <2>7
    <2> QED
      BY <2>7, <2>8
  <1> HIDE DEF f, T, id
  <1>11. Cardinality(E) = Cardinality(T)
    BY <1>6, <1>8, <1>9, <1>10, CountsAlike
  <1> QED
    BY <1>11 DEF E, T, id

(* build_dense_node_metadata: every identifier, ascending, with its        *)
(* distinct successors and predecessors.                                   *)
LEMMA DenseIsScan ==
    ASSUME NEW g, Coherent(g), TypedStore(g), NEW v, IndexOf(g, v)
    PROVE  ScanDense(g, BuildDenseNodes(Petgraph(g), v))
  <1> DEFINE ordered == v.node_indices
             view == BuildDenseNodes(Petgraph(g), v)
             pairs == Pairs(g)
  <1>1. Lists(ordered, DOMAIN g.nodes, NodeOrder(g))
    BY DEF IndexOf
  <1>2. \A d \in DOMAIN ordered : ordered[d] \in DOMAIN g.nodes
    BY <1>1 DEF Lists
  <1>3. Petgraph(g).nodes = g.nodes /\ Petgraph(g).edges = g.edges
    BY DEF Petgraph
  <1>4. /\ view.ids = [d \in DOMAIN ordered |-> g.nodes[ordered[d]].id]
        /\ view.outgoing = [d \in DOMAIN ordered |-> Cardinality(CountedIn(v, ordered[d]))]
        /\ view.incoming = [d \in DOMAIN ordered |-> Cardinality(Entering(g, v, ordered[d]))]
    BY <1>3 DEF BuildDenseNodes, Entering
  <1> HIDE DEF ordered, view
  <1>5. ToSet(view.ids) = NodeIds(g)
    <2>1. \A i \in DOMAIN g.nodes : g.nodes[i].id \in NodeIds(g)
      BY DEF Coherent, NodesIndexed
    <2>2. \A id \in NodeIds(g) : \E i \in DOMAIN g.nodes : g.nodes[i].id = id
      BY DEF Coherent, NodesIndexed, NodeAt
    <2>3. \A i \in DOMAIN g.nodes : \E d \in DOMAIN ordered : ordered[d] = i
      BY <1>1 DEF Lists
    <2>4. ToSet(view.ids) = {g.nodes[ordered[d]].id : d \in DOMAIN ordered}
      BY <1>4 DEF ToSet
    <2> QED
      BY <1>2, <2>1, <2>2, <2>3, <2>4
  <1>6. \A i, j \in DOMAIN view.ids : i < j => view.ids[i] < view.ids[j]
    <2> SUFFICES ASSUME NEW i \in DOMAIN ordered, NEW j \in DOMAIN ordered, i < j
                 PROVE  g.nodes[ordered[i]].id < g.nodes[ordered[j]].id
      BY <1>4
    <2>1. <<ordered[i], ordered[j]>> \in NodeOrder(g)
      BY <1>1 DEF Lists
    <2> QED
      BY <2>1 DEF NodeOrder
  <1>7. ASSUME NEW i \in DOMAIN view.ids
        PROVE  /\ view.outgoing[i] = Cardinality({p \in pairs : p[1] = view.ids[i]})
               /\ view.incoming[i] = Cardinality({p \in pairs : p[2] = view.ids[i]})
    <2>1. i \in DOMAIN ordered /\ ordered[i] \in DOMAIN g.nodes
      BY <1>2, <1>4
    <2> HIDE DEF pairs
    <2>2. /\ view.outgoing[i] = Cardinality(CountedIn(v, ordered[i]))
          /\ view.incoming[i] = Cardinality(Entering(g, v, ordered[i]))
          /\ view.ids[i] = g.nodes[ordered[i]].id
      BY <1>4, <2>1
    <2>3. /\ Cardinality(CountedIn(v, ordered[i]))
                = Cardinality({p \in pairs : p[1] = g.nodes[ordered[i]].id})
          /\ Cardinality(Entering(g, v, ordered[i]))
                = Cardinality({p \in pairs : p[2] = g.nodes[ordered[i]].id})
      BY <2>1, OutgoingIsCounted, IncomingIsCounted DEF pairs
    <2> QED
      BY <2>2, <2>3
  <1>8. ScanDense(g, view)
    BY <1>5, <1>6, <1>7 DEF ScanDense, Pairs
  <1> QED
    BY <1>8 DEF view

-------------------------------------------------------------------------------
(* Views *)

(* A canonical listing of the edges a scan finds is what a view promises.  *)
LEMMA ListingIsView ==
    ASSUME NEW g, Coherent(g), TypedStore(g), NEW S \in SUBSET DOMAIN g.edges,
           NEW t, Lists(t, S, CanonicalOrder(g))
    PROVE  ToSet(t) = S /\ Len(t) = Cardinality(S) /\ Canonical(g, t)
  <1>1. Len(t) = Cardinality(S)
    BY OrdersAreStrict, ListingIsBijective
  <1>2. ToSet(t) = S
    <2>1. \A i \in DOMAIN t : t[i] \in S
      BY DEF Lists
    <2>2. \A k \in S : \E i \in DOMAIN t : t[i] = k
      BY DEF Lists
    <2>3. ToSet(t) = {t[i] : i \in DOMAIN t}
      BY DEF ToSet
    <2> QED
      BY <2>1, <2>2, <2>3
  <1>3. ASSUME NEW i \in DOMAIN t, NEW j \in DOMAIN t, i < j
        PROVE  LexLess(CanonicalKey(g, t[i]), CanonicalKey(g, t[j]))
    <2>1. <<t[i], t[j]>> \in CanonicalOrder(g)
      BY <1>3 DEF Lists
    <2> QED
      BY <2>1 DEF CanonicalOrder
  <1>4. Canonical(g, t)
    BY <1>3 DEF Canonical, CanonicalKey
  <1> QED
    BY <1>1, <1>2, <1>4

(* What is read from a current cache is what a scan of the graph finds.    *)
LEMMA AnswersAreScans ==
    ASSUME NEW g, Coherent(g), TypedStore(g), NEW c, c.value = BuildIndex(Petgraph(g)),
           NEW q \in Query, q.op # "dense"
    PROVE  LET t == Answer(g, c, q)
           IN ToSet(t) = Scan(g, q) /\ Len(t) = Cardinality(Scan(g, q)) /\ Canonical(g, t)
  <1> DEFINE t == Answer(g, c, q)
  <1>1. IndexOf(g, c.value)
    BY BuildsIndex
  <1>2. /\ q.layer \in 0..9 /\ q.other \in NodeId
        /\ q.op \in {"outgoing", "incoming", "layer", "between"}
    BY DEF Query
  <1>3. Scan(g, q) \in SUBSET DOMAIN g.edges
    BY DEF Scan
  <1>4. CASE q.op = "outgoing"
    <2>1. t = OutgoingLayer(g, c.value, q.node, q.layer)
      BY <1>4 DEF Answer
    <2>2. Scan(g, q) = {k \in OutOf(g, q.node) : Rank(g, k) = q.layer}
      BY <1>4 DEF Scan, OutOf, Rank
    <2>3. Lists(OutgoingLayer(g, c.value, q.node, q.layer),
                {k \in OutOf(g, q.node) : Rank(g, k) = q.layer}, CanonicalOrder(g))
      BY <1>1, <1>2, OutgoingIsScan
    <2> HIDE DEF t
    <2>4. Lists(t, Scan(g, q), CanonicalOrder(g))
      BY <2>1, <2>2, <2>3
    <2> QED
      BY <1>3, <2>4, ListingIsView DEF t
  <1>5. CASE q.op = "incoming"
    <2>1. t = IncomingLayer(g, c.value, q.node, q.layer)
      BY <1>5 DEF Answer
    <2>2. Scan(g, q) = {k \in Into(g, q.node) : Rank(g, k) = q.layer}
      BY <1>5 DEF Scan, Into, Rank
    <2>3. Lists(IncomingLayer(g, c.value, q.node, q.layer),
                {k \in Into(g, q.node) : Rank(g, k) = q.layer}, CanonicalOrder(g))
      BY <1>1, <1>2, IncomingIsScan
    <2> HIDE DEF t
    <2>4. Lists(t, Scan(g, q), CanonicalOrder(g))
      BY <2>1, <2>2, <2>3
    <2> QED
      BY <1>3, <2>4, ListingIsView DEF t
  <1>6. CASE q.op = "layer"
    <2>1. t = Layer(g, c.value, q.layer)
      BY <1>6 DEF Answer
    <2>2. Scan(g, q) = {k \in DOMAIN g.edges : Rank(g, k) = q.layer}
      BY <1>6 DEF Scan, Rank
    <2>3. Lists(Layer(g, c.value, q.layer),
                {k \in DOMAIN g.edges : Rank(g, k) = q.layer}, CanonicalOrder(g))
      BY <1>1, <1>2, LayerIsScan
    <2> HIDE DEF t
    <2>4. Lists(t, Scan(g, q), CanonicalOrder(g))
      BY <2>1, <2>2, <2>3
    <2> QED
      BY <1>3, <2>4, ListingIsView DEF t
  <1>7. CASE q.op = "between"
    <2>1. t = Between(g, c.value, q.node, q.other)
      BY <1>7 DEF Answer
    <2>2. Scan(g, q) = {k \in OutOf(g, q.node) : g.edges[k].target = q.other}
      BY <1>7 DEF Scan, OutOf
    <2>3. Lists(Between(g, c.value, q.node, q.other),
                {k \in OutOf(g, q.node) : g.edges[k].target = q.other}, CanonicalOrder(g))
      BY <1>1, <1>2, BetweenIsScan
    <2> HIDE DEF t
    <2>4. Lists(t, Scan(g, q), CanonicalOrder(g))
      BY <2>1, <2>2, <2>3
    <2> QED
      BY <1>3, <2>4, ListingIsView DEF t
  <1> QED
    BY <1>2, <1>4, <1>5, <1>6, <1>7

\* Every lock and every reader is in one of its states.
LocksTyped ==
    /\ projection_cache.state \in {"empty", "running", "ready"}
    /\ projection_cache.dense.state \in {"empty", "running", "ready"}
    /\ \A r \in Readers : readers[r].pc \in
           {"idle", "get", "building", "building dense", "view"}

\* A reader that holds a view holds what the cache still answers.
HeldViews ==
    \A r \in Readers :
        /\ readers[r].pc # "idle" => readers[r].query \in Queries
        /\ readers[r].pc = "view" =>
              /\ readers[r].view = Answer(graph, projection_cache, readers[r].query)
              /\ readers[r].query.op = "dense" => projection_cache.dense.state = "ready"

ReadersInv == LocksTyped /\ HeldViews

(* A read step moves one reader.  A view that another one holds keeps its  *)
(* part of the cache: its initialisers are done.                           *)
LEMMA OtherReadersKept ==
    ASSUME CacheInv, ReadersInv, NEW r \in Readers, Read(r), NEW s \in Readers, s # r
    PROVE  /\ readers'[s] = readers[s]
           /\ readers[s].pc = "view" =>
                 /\ projection_cache'.value = projection_cache.value
                 /\ projection_cache.dense.state = "ready"
                       => projection_cache'.dense = projection_cache.dense
  <1> USE DEF Goto
  <1>1. /\ ProtocolShape /\ LocksHeld
    BY DEF CacheInv
  <1>2. readers'[s] = readers[s]
    BY <1>1 DEF Read, ReaderStep, BeginRead, InitCache, FinishCache, InitDense, FinishDense,
         TakeView, EndRead, ProtocolShape
  <1>3. ASSUME readers[s].pc = "view"
        PROVE  /\ projection_cache'.value = projection_cache.value
               /\ projection_cache.dense.state = "ready"
                     => projection_cache'.dense = projection_cache.dense
    <2>1. projection_cache.state = "ready"
      BY <1>1, <1>3 DEF LocksHeld, InnerNeedsOuter
    <2>2. CASE InitCache(r)
      BY <2>1, <2>2 DEF InitCache
    <2>3. CASE FinishCache(r)
      BY <1>1, <2>1, <2>3 DEF FinishCache, LocksHeld, OuterLockHeld, Inside
    <2>4. CASE InitDense(r)
      BY <1>1, <2>4 DEF InitDense, ProtocolShape
    <2>5. CASE FinishDense(r)
      <3>1. projection_cache.dense.state = "running"
        BY <1>1, <2>5 DEF FinishDense, LocksHeld, InnerLockHeld, Inside
      <3> QED
        BY <1>1, <2>5, <3>1 DEF FinishDense, ProtocolShape
    <2>6. CASE TakeView(r) \/ EndRead(r) \/ \E q \in Queries : BeginRead(r, q)
      BY <2>6 DEF TakeView, EndRead, BeginRead
    <2> QED
      BY <2>2, <2>3, <2>4, <2>5, <2>6 DEF Read, ReaderStep
  <1> QED
    BY <1>2, <1>3

(* The answer to a query depends on the part of the cache it reads.        *)
LEMMA AnswersAlike ==
    ASSUME NEW g, NEW c, NEW d, NEW q \in Query, c.value = d.value,
           q.op = "dense" => c.dense = d.dense
    PROVE  Answer(g, c, q) = Answer(g, d, q)
  <1>1. q.op \in {"outgoing", "incoming", "layer", "between", "dense"}
    BY DEF Query
  <1> QED
    BY <1>1 DEF Answer

(* Every step of a reader keeps the readers' invariant.                    *)
LEMMA ReadsKeepReadersInv ==
    ASSUME CacheInv, ReadersInv, NEW r \in Readers, Read(r)
    PROVE  ReadersInv'
  <1> USE DEF Goto
  <1>1. ProtocolShape /\ LocksHeld
    BY DEF CacheInv
  <1>2. graph' = graph
    BY ReadsKeepGraph
  <1>3. LocksTyped'
    <2>1. LocksTyped
      BY DEF ReadersInv
    <2>2. CASE InitCache(r)
      BY <1>1, <2>1, <2>2 DEF InitCache, ProtocolShape, LocksTyped
    <2>3. CASE FinishCache(r)
      BY <1>1, <2>1, <2>3 DEF FinishCache, ProtocolShape, LocksTyped, Unset
    <2>4. CASE InitDense(r)
      BY <1>1, <2>1, <2>4 DEF InitDense, ProtocolShape, LocksTyped
    <2>5. CASE FinishDense(r)
      BY <1>1, <2>1, <2>5 DEF FinishDense, ProtocolShape, LocksTyped
    <2>6. CASE TakeView(r)
      BY <1>1, <2>1, <2>6 DEF TakeView, ProtocolShape, LocksTyped
    <2>7. CASE EndRead(r)
      BY <1>1, <2>1, <2>7 DEF EndRead, Idle, ProtocolShape, LocksTyped
    <2>8. ASSUME NEW q \in Queries, BeginRead(r, q)
          PROVE  LocksTyped'
      BY <1>1, <2>1, <2>8 DEF BeginRead, ProtocolShape, LocksTyped
    <2> QED
      BY <2>2, <2>3, <2>4, <2>5, <2>6, <2>7, <2>8 DEF Read, ReaderStep
  <1>4. ASSUME NEW s \in Readers, s # r
        PROVE  /\ readers'[s].pc # "idle" => readers'[s].query \in Queries
               /\ readers'[s].pc = "view" =>
                     /\ readers'[s].view = Answer(graph', projection_cache', readers'[s].query)
                     /\ readers'[s].query.op = "dense" => projection_cache'.dense.state = "ready"
    <2>1. readers'[s] = readers[s]
      BY <1>4, OtherReadersKept
    <2>2. CASE readers[s].pc # "view"
      BY <2>1, <2>2 DEF ReadersInv, HeldViews
    <2>3. CASE readers[s].pc = "view"
      <3>1. /\ readers[s].query \in Query /\ readers[s].query \in Queries
            /\ readers[s].view = Answer(graph, projection_cache, readers[s].query)
            /\ readers[s].query.op = "dense" => projection_cache.dense.state = "ready"
        BY <2>3, QueriesAssumption DEF ReadersInv, HeldViews
      <3>2. /\ projection_cache'.value = projection_cache.value
            /\ readers[s].query.op = "dense" => projection_cache'.dense = projection_cache.dense
        BY <1>4, <2>3, <3>1, OtherReadersKept
      <3>3. Answer(graph, projection_cache', readers[s].query)
                = Answer(graph, projection_cache, readers[s].query)
        BY <3>1, <3>2, AnswersAlike
      <3> QED
        BY <1>2, <2>1, <3>1, <3>2, <3>3
    <2> QED
      BY <2>2, <2>3
  <1>5. /\ readers'[r].pc # "idle" => readers'[r].query \in Queries
        /\ readers'[r].pc = "view" =>
              /\ readers'[r].view = Answer(graph', projection_cache', readers'[r].query)
              /\ readers'[r].query.op = "dense" => projection_cache'.dense.state = "ready"
    <2>1. readers[r].pc # "idle" => readers[r].query \in Queries
      BY DEF ReadersInv, HeldViews
    <2>2. CASE InitCache(r) \/ FinishCache(r) \/ InitDense(r) \/ FinishDense(r)
      <3>1. PICK pc \in {"building", "get", "building dense"} :
                readers' = [readers EXCEPT ![r].pc = pc] /\ readers[r].pc # "idle"
        BY <2>2 DEF InitCache, FinishCache, InitDense, FinishDense
      <3>2. readers'[r].pc = pc /\ readers'[r].query = readers[r].query
        <4>1. /\ r \in DOMAIN readers
              /\ readers[r] = [pc |-> readers[r].pc, query |-> readers[r].query,
                               view |-> readers[r].view]
          BY <1>1 DEF ProtocolShape
        <4>2. readers'[r] = [readers[r] EXCEPT !.pc = pc]
          BY <3>1, <4>1
        <4> QED
          BY <4>1, <4>2
      <3> QED
        BY <2>1, <3>1, <3>2
    <2>3. CASE TakeView(r)
      <3>1. readers'[r] = [pc |-> "view", query |-> readers[r].query,
                           view |-> Answer(graph, projection_cache, readers[r].query)]
        BY <1>1, <2>3 DEF TakeView, ProtocolShape
      <3>2. /\ projection_cache' = projection_cache /\ readers[r].pc = "get"
            /\ readers[r].query.op = "dense" => projection_cache.dense.state = "ready"
        BY <2>3 DEF TakeView
      <3> QED
        BY <1>2, <2>1, <3>1, <3>2
    <2>4. CASE EndRead(r)
      BY <1>1, <2>4 DEF EndRead, Idle, ProtocolShape
    <2>5. ASSUME NEW q \in Queries, BeginRead(r, q)
          PROVE  readers'[r].pc = "get" /\ readers'[r].query \in Queries
      BY <1>1, <2>5 DEF BeginRead, ProtocolShape
    <2> QED
      BY <2>2, <2>3, <2>4, <2>5 DEF Read, ReaderStep
  <1>6. HeldViews'
    BY <1>4, <1>5 DEF HeldViews
  <1> QED
    BY <1>3, <1>6 DEF ReadersInv

(* In every reachable state each reader holds what the cache would answer. *)
THEOREM ReadersInvHolds == Spec => []ReadersInv
  <1>1. Init => ReadersInv
    <2> SUFFICES ASSUME Init PROVE ReadersInv
      OBVIOUS
    <2>1. \A r \in Readers : readers[r].pc = "idle"
      BY DEF Init, Idle
    <2>2. projection_cache.state = "empty" /\ projection_cache.dense.state = "empty"
      BY DEF Init, UnsetCache, Unset
    <2>3. LocksTyped
      BY <2>1, <2>2 DEF LocksTyped
    <2>4. HeldViews
      BY <2>1 DEF HeldViews
    <2> QED
      BY <2>3, <2>4 DEF ReadersInv
  <1>2. CacheInv /\ Coherent(graph) /\ ReadersInv /\ [Next]_vars => ReadersInv'
    <2> SUFFICES ASSUME CacheInv, Coherent(graph), ReadersInv, [Next]_vars
                 PROVE  ReadersInv'
      OBVIOUS
    <2>1. CASE Mutate
      <3>1. /\ \A r \in Readers : readers[r].pc = "idle"
            /\ readers' = readers
            /\ projection_cache' = UnsetCache \/ projection_cache' = projection_cache
        BY <2>1, MutationsDropCache DEF Exclusive
      <3>2. LocksTyped'
        <4>1. UnsetCache.state = "empty" /\ UnsetCache.dense.state = "empty"
          BY DEF UnsetCache, Unset
        <4>2. CASE projection_cache' = UnsetCache
          BY <3>1, <4>1, <4>2 DEF LocksTyped
        <4>3. CASE projection_cache' = projection_cache
          BY <3>1, <4>3 DEF ReadersInv, LocksTyped
        <4> QED
          BY <3>1, <4>2, <4>3
      <3>3. HeldViews'
        BY <3>1 DEF HeldViews
      <3> QED
        BY <3>2, <3>3 DEF ReadersInv
    <2>2. ASSUME NEW r \in Readers, Read(r)
          PROVE  ReadersInv'
      BY <2>2, ReadsKeepReadersInv
    <2>3. CASE UNCHANGED vars
      BY <2>3 DEF vars, ReadersInv, LocksTyped, HeldViews
    <2> QED
      BY <2>1, <2>2, <2>3 DEF Next
  <1> QED
    BY <1>1, <1>2, GraphStaysCoherent, CacheInvHolds, PTL DEF Spec

(* Every field keeps its type.                                             *)
THEOREM TypesHold == Spec => []TypeOK
  <1>1. Whole(graph) /\ ReadersInv => TypeOK
    <2> SUFFICES ASSUME Whole(graph), ReadersInv PROVE TypeOK
      OBVIOUS
    <2>1. Coherent(graph) /\ TypedStore(graph)
      BY DEF Whole
    <2>2. /\ DOMAIN graph.nodes = 1..Len(graph.nodes) /\ NodeIds(graph) \subseteq NodeId
          /\ \A id \in NodeIds(graph) : graph.node_index_map[id] \in DOMAIN graph.nodes
      BY <2>1, StoreFacts
    <2>3. graph.next_node_id \in NodeId /\ graph.next_edge_id \in EdgeId
      BY <2>1 DEF Coherent, HasCounters
    <2> QED
      BY <2>1, <2>2, <2>3 DEF TypedStore, ReadersInv, LocksTyped, TypeOK, OnceLock
  <1> QED
    BY <1>1, GraphStaysWhole, ReadersInvHolds, PTL

(* A view that is still borrowed is what a scan of the graph returns at    *)
(* this moment, each edge once and in the canonical order.                 *)
THEOREM ViewsStayScans == Spec => []ViewsAreScans
  <1>1. Whole(graph) /\ CacheInv /\ ReadersInv => ViewsAreScans
    <2> SUFFICES ASSUME Whole(graph), CacheInv, ReadersInv,
                        NEW r \in Readers, readers[r].pc = "view"
                 PROVE  LET q == readers[r].query
                            v == readers[r].view
                        IN IF q.op = "dense" THEN ScanDense(graph, v)
                           ELSE /\ ToSet(v) = Scan(graph, q)
                                /\ Len(v) = Cardinality(Scan(graph, q))
                                /\ Canonical(graph, v)
      BY DEF ViewsAreScans
    <2> DEFINE q == readers[r].query
               c == projection_cache
    <2>1. Coherent(graph) /\ TypedStore(graph)
      BY DEF Whole
    <2>2. q \in Query /\ readers[r].view = Answer(graph, c, q)
      BY QueriesAssumption DEF ReadersInv, HeldViews
    <2>3. c.value = BuildIndex(Petgraph(graph))
      BY DEF CacheInv, LocksHeld, InnerNeedsOuter, CacheIsCurrent
    <2>4. CASE q.op = "dense"
      <3>1. c.dense.value = BuildDenseNodes(Petgraph(graph), c.value)
        BY <2>4 DEF CacheInv, LocksHeld, InnerNeedsOuter, CacheIsCurrent, ReadersInv, HeldViews
      <3>2. Answer(graph, c, q) = c.dense.value
        BY <2>4 DEF Answer
      <3>3. IndexOf(graph, c.value)
        BY <2>1, <2>3, BuildsIndex
      <3>4. ScanDense(graph, BuildDenseNodes(Petgraph(graph), c.value))
        BY <2>1, <3>3, DenseIsScan
      <3> QED
        BY <2>2, <2>4, <3>1, <3>2, <3>4
    <2>5. CASE q.op # "dense"
      BY <2>1, <2>2, <2>3, <2>5, AnswersAreScans
    <2> QED
      BY <2>4, <2>5
  <1> QED
    BY <1>1, GraphStaysWhole, CacheInvHolds, ReadersInvHolds, PTL

===============================================================================
