------------------------ MODULE GraphComposition_proofs ------------------------
(***************************************************************************)
(* merge_from and subgraph for every pair of graphs within the bounds:     *)
(* the appended part is the source under the mapping, a selection is the   *)
(* induced subgraph, and both results are whole.                           *)
(***************************************************************************)
EXTENDS GraphComposition, GraphStore_proofs

-------------------------------------------------------------------------------
(* Folds *)

\* The steps of the six folds that merge_from and subgraph are made of.
Step(k, acc, x) ==
    CASE k.op = "append" -> AppendNode(acc, x)
      [] k.op = "translate" ->
            SetNode(acc, k.map[x.id],
                    TranslatedNode(NodeAt(acc, k.map[x.id]), NodeAt(k.source, x.id), k.map))
      [] k.op = "copy" -> CopyEdge(acc, k.source.edges[x], k.map)
      [] k.op = "push" -> PushNew(acc, x)
      [] k.op = "select" -> SelectNode(acc, k.source, x, k.chosen)
      [] k.op = "induce" -> SelectEdge(acc, x, k.chosen)

Top(s) == CHOOSE x \in s : \A y \in s : x >= y

\* The recursion of the community modules' fold, over the positions of seq.
Folding(k, base, seq, it) ==
    it = [s \in SUBSET DOMAIN seq |->
             IF s = {} THEN base ELSE Step(k, it[s \ {Top(s)}], seq[Top(s)])]

Folded(k, base, seq) == (CHOOSE it : Folding(k, base, seq, it))[DOMAIN seq]

\* `it` folds every set of positions up to n.
FoldsTo(k, base, seq, it, n) ==
    \A s \in SUBSET (1..n) :
        it[s] = IF s = {} THEN base ELSE Step(k, it[s \ {Top(s)}], seq[Top(s)])

(* What remains without the highest position lies below it.                *)
LEMMA TopFacts ==
    ASSUME NEW n \in Nat, NEW s \in SUBSET (1..n), s # {}
    PROVE  /\ Top(s) \in s /\ \A y \in s : Top(s) >= y
           /\ Top(s) \in 1..n /\ s \ {Top(s)} \in SUBSET (1..(Top(s) - 1))
  <1> DEFINE below == {i \in Nat : \E x \in s : i = n - x}
  <1>0. \A x \in s : x \in 1..n /\ x \in Nat /\ x >= 1 /\ n - x \in Nat
    OBVIOUS
  <1>1. below \in SUBSET Nat /\ below # {}
    BY <1>0
  <1>2. PICK m \in below : \A l \in below : m <= l
    <2> HIDE DEF below
    <2> QED
      BY <1>1, LeastOfNaturals
  <1>3. PICK x \in s : m = n - x
    BY <1>2
  <1>4. \A y \in s : x >= y
    <2> SUFFICES ASSUME NEW y \in s PROVE x >= y
      OBVIOUS
    <2>1. n - y \in below
      BY <1>0
    <2>2. m <= n - y
      BY <1>2, <2>1
    <2> QED
      BY <1>0, <1>3, <2>2
  <1>5. Top(s) \in s /\ \A y \in s : Top(s) >= y
    BY <1>4 DEF Top
  <1>6. s \ {Top(s)} \in SUBSET (1..(Top(s) - 1))
    <2> SUFFICES ASSUME NEW y \in s, y # Top(s) PROVE y \in 1..(Top(s) - 1)
      OBVIOUS
    <2>1. Top(s) \in Nat /\ y \in Nat /\ y >= 1 /\ Top(s) >= y
      BY <1>0, <1>5
    <2> QED
      BY <2>1
  <1> QED
    BY <1>0, <1>5, <1>6

(* A fold can be extended by one position after the other.                 *)
LEMMA FoldsExist ==
    ASSUME NEW k, NEW base, NEW seq, NEW n \in Nat
    PROVE  \E it : FoldsTo(k, base, seq, it, n)
  <1> DEFINE Without == {m \in Nat : ~ \E it : FoldsTo(k, base, seq, it, m)}
  <1>1. SUFFICES ASSUME Without # {} PROVE FALSE
    OBVIOUS
  <1>2. PICK m \in Without : \A l \in Without : m <= l
    <2>1. Without \in SUBSET Nat
      OBVIOUS
    <2> HIDE DEF Without
    <2> QED
      BY <1>1, <2>1, LeastOfNaturals
  <1>3. m \in Nat /\ ~ \E it : FoldsTo(k, base, seq, it, m)
    BY <1>2
  <1>4. CASE m = 0
    <2> DEFINE only == [s \in {{}} |-> base]
    <2>1. 1..m = {}
      BY <1>4
    <2>2. \A s \in SUBSET (1..m) : s = {}
      BY <2>1
    <2>3. only[{}] = base
      OBVIOUS
    <2> HIDE DEF only
    <2>4. FoldsTo(k, base, seq, only, m)
      BY <2>2, <2>3 DEF FoldsTo
    <2> QED
      BY <1>3, <2>4
  <1>5. CASE m # 0
    <2>1. m - 1 \in Nat /\ m - 1 \notin Without
      BY <1>2, <1>3, <1>5
    <2>2. PICK it : FoldsTo(k, base, seq, it, m - 1)
      BY <2>1
    <2> DEFINE value(s) == IF s \in SUBSET (1..(m - 1)) THEN it[s]
                           ELSE Step(k, it[s \ {Top(s)}], seq[Top(s)])
               more == [s \in SUBSET (1..m) |-> value(s)]
    <2>3. ASSUME NEW s \in SUBSET (1..m)
          PROVE  more[s] = IF s = {} THEN base ELSE Step(k, more[s \ {Top(s)}], seq[Top(s)])
      <3>1. more[s] = value(s)
        OBVIOUS
      <3>2. CASE s = {}
        <4>1. it[s] = base
          BY <2>2, <3>2 DEF FoldsTo
        <4> QED
          BY <3>1, <3>2, <4>1
      <3>3. CASE s # {}
        <4>1. Top(s) \in 1..m /\ s \ {Top(s)} \in SUBSET (1..(Top(s) - 1))
          BY <1>3, <3>3, TopFacts
        <4>2. s \ {Top(s)} \in SUBSET (1..(m - 1)) /\ s \ {Top(s)} \in SUBSET (1..m)
          BY <1>3, <4>1
        <4>3. more[s \ {Top(s)}] = it[s \ {Top(s)}]
          BY <4>2
        <4>4. s \in SUBSET (1..(m - 1)) => it[s] = Step(k, it[s \ {Top(s)}], seq[Top(s)])
          BY <2>2, <3>3 DEF FoldsTo
        <4> HIDE DEF more
        <4> QED
          BY <3>1, <3>3, <4>3, <4>4
      <3> QED
        BY <3>2, <3>3
    <2> HIDE DEF more
    <2>4. FoldsTo(k, base, seq, more, m)
      BY <2>3 DEF FoldsTo
    <2> QED
      BY <1>3, <2>4
  <1> QED
    BY <1>4, <1>5

(* What holds at first and from one position to the next holds at the end. *)
LEMMA UpTo ==
    ASSUME NEW n \in Nat, NEW G, 0 \in G, \A i \in Nat : i < n /\ i \in G => i + 1 \in G
    PROVE  n \in G
  <1> DEFINE Bad == {i \in Nat : i <= n /\ i \notin G}
  <1>1. SUFFICES ASSUME Bad # {} PROVE FALSE
    OBVIOUS
  <1>2. PICK m \in Bad : \A l \in Bad : m <= l
    <2>1. Bad \in SUBSET Nat
      OBVIOUS
    <2> HIDE DEF Bad
    <2> QED
      BY <1>1, <2>1, LeastOfNaturals
  <1>3. m \in Nat /\ m <= n /\ m \notin G /\ m # 0
    BY <1>2
  <1>4. m - 1 \in Nat /\ m - 1 < n /\ m - 1 \notin Bad /\ (m - 1) + 1 = m
    BY <1>2, <1>3
  <1>5. m - 1 \in G
    BY <1>4
  <1> QED
    BY <1>3, <1>4, <1>5

\* The values a fold over seq[1..n] goes through.
Visits(k, base, seq, n, h) ==
    /\ h[0] = base
    /\ \A i \in 1..n : h[i] = Step(k, h[i - 1], seq[i])

(* A fold goes through the sequence from the left.                         *)
LEMMA FoldedVisits ==
    ASSUME NEW k, NEW base, NEW seq, NEW n \in Nat, DOMAIN seq = 1..n
    PROVE  \E h : Visits(k, base, seq, n, h) /\ Folded(k, base, seq) = h[n]
  <1> DEFINE it == CHOOSE f : Folding(k, base, seq, f)
             h == [i \in 0..n |-> it[1..i]]
  <1>1. Folding(k, base, seq, it)
    <2>1. PICK f : FoldsTo(k, base, seq, f, n)
      BY FoldsExist
    <2> DEFINE g == [s \in SUBSET (1..n) |-> f[s]]
    <2>2. ASSUME NEW s \in SUBSET (1..n)
          PROVE  g[s] = IF s = {} THEN base ELSE Step(k, g[s \ {Top(s)}], seq[Top(s)])
      <3>1. f[s] = IF s = {} THEN base ELSE Step(k, f[s \ {Top(s)}], seq[Top(s)])
        BY <2>1 DEF FoldsTo
      <3>2. g[s] = f[s] /\ g[s \ {Top(s)}] = f[s \ {Top(s)}]
        OBVIOUS
      <3> HIDE DEF g
      <3> QED
        BY <3>1, <3>2
    <2>3. Folding(k, base, seq, g)
      <3> DEFINE v(s) == IF s = {} THEN base ELSE Step(k, g[s \ {Top(s)}], seq[Top(s)])
      <3>1. g = [s \in SUBSET (1..n) |-> g[s]]
        OBVIOUS
      <3>2. \A s \in SUBSET (1..n) : g[s] = v(s)
        BY <2>2
      <3> HIDE DEF g, v
      <3>3. g = [s \in SUBSET DOMAIN seq |-> v(s)]
        BY <3>1, <3>2
      <3> QED
        BY <3>3 DEF Folding, v
    <2> HIDE DEF g
    <2> QED
      BY <2>3
  <1> HIDE DEF it
  <1>2. ASSUME NEW s \in SUBSET (1..n)
        PROVE  it[s] = IF s = {} THEN base ELSE Step(k, it[s \ {Top(s)}], seq[Top(s)])
    BY <1>1, Zenon DEF Folding
  <1>3. h[0] = base
    <2>1. 1..0 = {} /\ h[0] = it[1..0]
      OBVIOUS
    <2>2. it[{}] = base
      BY <1>2
    <2> QED
      BY <2>1, <2>2
  <1>4. ASSUME NEW i \in 1..n
        PROVE  h[i] = Step(k, h[i - 1], seq[i])
    <2> DEFINE s == 1..i
    <2>1. s \in SUBSET (1..n) /\ s # {} /\ i \in s /\ \A y \in s : y <= i
      OBVIOUS
    <2>2. Top(s) \in s /\ \A y \in s : Top(s) >= y
      BY <2>1, TopFacts
    <2>3. Top(s) = i
      BY <2>1, <2>2
    <2>4. s \ {i} = 1..(i - 1)
      OBVIOUS
    <2> HIDE DEF s
    <2>5. it[s] = Step(k, it[s \ {Top(s)}], seq[Top(s)])
      BY <1>2, <2>1
    <2>6. it[s] = Step(k, it[1..(i - 1)], seq[i])
      BY <2>3, <2>4, <2>5
    <2>7. h[i] = it[s] /\ h[i - 1] = it[1..(i - 1)]
      BY DEF s
    <2> HIDE DEF h
    <2> QED
      BY <2>6, <2>7
  <1>5. Folded(k, base, seq) = h[n]
    BY DEF Folded, it
  <1> HIDE DEF h
  <1> QED
    BY <1>3, <1>4, <1>5 DEF Visits

(* merge_from, first loop: a node is appended for each source node.        *)
LEMMA AppendedIsFolded ==
    ASSUME NEW d, NEW s
    PROVE  Appended(d, s) =
           Folded([op |-> "append"], [graph |-> d, remap |-> <<>>], InNodeIdOrder(s.nodes))
  <1> DEFINE k == [op |-> "append"]
             base == [graph |-> d, remap |-> <<>>]
             seq == InNodeIdOrder(s.nodes)
             op(acc, x) == AppendNode(acc, x)
             P(it) == it = [ps \in SUBSET DOMAIN seq |->
                 IF ps = {} THEN base ELSE op(it[ps \ {Top(ps)}], seq[Top(ps)])]
  <1>1. Appended(d, s) = (CHOOSE it : P(it))[DOMAIN seq]
    BY Zenon DEF Appended, FoldLeft, MapThenFoldSet, Top, Max
  <1>2. \A acc, x : Step(k, acc, x) = op(acc, x)
    BY DEF Step
  <1> HIDE DEF k, base, seq, op
  <1>3. \A it : P(it) <=> Folding(k, base, seq, it)
    BY <1>2 DEF Folding
  <1> HIDE DEF P
  <1>4. (CHOOSE it : P(it)) = (CHOOSE it : Folding(k, base, seq, it))
    BY <1>3
  <1>5. Appended(d, s) = Folded(k, base, seq)
    BY <1>1, <1>4 DEF Folded
  <1> QED
    BY <1>5 DEF k, base, seq

(* merge_from, second loop: the appended nodes are rewritten.              *)
LEMMA TranslatedIsFolded ==
    ASSUME NEW d, NEW s, NEW map
    PROVE  Translated(d, s, map) =
           Folded([op |-> "translate", source |-> s, map |-> map], d, InNodeIdOrder(s.nodes))
  <1> DEFINE k == [op |-> "translate", source |-> s, map |-> map]
             base == d
             seq == InNodeIdOrder(s.nodes)
             op(acc, x) == SetNode(acc, map[x.id],
                               TranslatedNode(NodeAt(acc, map[x.id]), NodeAt(s, x.id), map))
             P(it) == it = [ps \in SUBSET DOMAIN seq |->
                 IF ps = {} THEN base ELSE op(it[ps \ {Top(ps)}], seq[Top(ps)])]
  <1>1. Translated(d, s, map) = (CHOOSE it : P(it))[DOMAIN seq]
    BY Zenon DEF Translated, FoldLeft, MapThenFoldSet, Top, Max
  <1>2. \A acc, x : Step(k, acc, x) = op(acc, x)
    BY DEF Step
  <1> HIDE DEF k, base, seq, op
  <1>3. \A it : P(it) <=> Folding(k, base, seq, it)
    BY <1>2 DEF Folding
  <1> HIDE DEF P
  <1>4. (CHOOSE it : P(it)) = (CHOOSE it : Folding(k, base, seq, it))
    BY <1>3
  <1>5. Translated(d, s, map) = Folded(k, base, seq)
    BY <1>1, <1>4 DEF Folded
  <1> QED
    BY <1>5 DEF k, base, seq

(* merge_from, third loop: the edges are copied.                           *)
LEMMA CopiedIsFolded ==
    ASSUME NEW d, NEW s, NEW map
    PROVE  WithEdges(d, s, map) =
           Folded([op |-> "copy", source |-> s, map |-> map], d, InIdOrder(s, DOMAIN s.edges))
  <1> DEFINE k == [op |-> "copy", source |-> s, map |-> map]
             base == d
             seq == InIdOrder(s, DOMAIN s.edges)
             op(acc, x) == CopyEdge(acc, s.edges[x], map)
             P(it) == it = [ps \in SUBSET DOMAIN seq |->
                 IF ps = {} THEN base ELSE op(it[ps \ {Top(ps)}], seq[Top(ps)])]
  <1>1. WithEdges(d, s, map) = (CHOOSE it : P(it))[DOMAIN seq]
    BY Zenon DEF WithEdges, FoldLeft, MapThenFoldSet, Top, Max
  <1>2. \A acc, x : Step(k, acc, x) = op(acc, x)
    BY DEF Step
  <1> HIDE DEF k, base, seq, op
  <1>3. \A it : P(it) <=> Folding(k, base, seq, it)
    BY <1>2 DEF Folding
  <1> HIDE DEF P
  <1>4. (CHOOSE it : P(it)) = (CHOOSE it : Folding(k, base, seq, it))
    BY <1>3
  <1>5. WithEdges(d, s, map) = Folded(k, base, seq)
    BY <1>1, <1>4 DEF Folded
  <1> QED
    BY <1>5 DEF k, base, seq

(* merge_from, boundary lists: identifiers are pushed unless present.      *)
LEMMA PushedIsFolded ==
    ASSUME NEW list, NEW seq
    PROVE  FoldLeft(PushNew, list, seq) =
           Folded([op |-> "push"], list, seq)
  <1> DEFINE k == [op |-> "push"]
             base == list
             op(acc, x) == PushNew(acc, x)
             P(it) == it = [ps \in SUBSET DOMAIN seq |->
                 IF ps = {} THEN base ELSE op(it[ps \ {Top(ps)}], seq[Top(ps)])]
  <1>1. FoldLeft(PushNew, list, seq) = (CHOOSE it : P(it))[DOMAIN seq]
    BY Zenon DEF FoldLeft, MapThenFoldSet, Top, Max
  <1>2. \A acc, x : Step(k, acc, x) = op(acc, x)
    BY DEF Step
  <1> HIDE DEF k, base, op
  <1>3. \A it : P(it) <=> Folding(k, base, seq, it)
    BY <1>2 DEF Folding
  <1> HIDE DEF P
  <1>4. (CHOOSE it : P(it)) = (CHOOSE it : Folding(k, base, seq, it))
    BY <1>3
  <1>5. FoldLeft(PushNew, list, seq) = Folded(k, base, seq)
    BY <1>1, <1>4 DEF Folded
  <1> QED
    BY <1>5 DEF k, base

(* subgraph, first loop: the selected nodes are inserted.                  *)
LEMMA SelectedIsFolded ==
    ASSUME NEW g, NEW ids
    PROVE  Selected(g, ids) =
           Folded([op |-> "select", source |-> g, chosen |-> ToSet(ids)], EmptyStore, ids)
  <1> DEFINE k == [op |-> "select", source |-> g, chosen |-> ToSet(ids)]
             base == EmptyStore
             seq == ids
             op(acc, x) == SelectNode(acc, g, x, ToSet(ids))
             P(it) == it = [ps \in SUBSET DOMAIN seq |->
                 IF ps = {} THEN base ELSE op(it[ps \ {Top(ps)}], seq[Top(ps)])]
  <1>1. Selected(g, ids) = (CHOOSE it : P(it))[DOMAIN seq]
    BY Zenon DEF Selected, FoldLeft, MapThenFoldSet, Top, Max
  <1>2. \A acc, x : Step(k, acc, x) = op(acc, x)
    BY DEF Step
  <1> HIDE DEF k, base, seq, op
  <1>3. \A it : P(it) <=> Folding(k, base, seq, it)
    BY <1>2 DEF Folding
  <1> HIDE DEF P
  <1>4. (CHOOSE it : P(it)) = (CHOOSE it : Folding(k, base, seq, it))
    BY <1>3
  <1>5. Selected(g, ids) = Folded(k, base, seq)
    BY <1>1, <1>4 DEF Folded
  <1> QED
    BY <1>5 DEF k, base, seq

(* subgraph, second loop: the edges inside the selection are.              *)
LEMMA InducedIsFolded ==
    ASSUME NEW g, NEW ids
    PROVE  Subgraph(g, ids) =
           Folded([op |-> "induce", chosen |-> ToSet(ids)], Selected(g, ids), g.edges)
  <1> DEFINE k == [op |-> "induce", chosen |-> ToSet(ids)]
             base == Selected(g, ids)
             seq == g.edges
             op(acc, x) == SelectEdge(acc, x, ToSet(ids))
             P(it) == it = [ps \in SUBSET DOMAIN seq |->
                 IF ps = {} THEN base ELSE op(it[ps \ {Top(ps)}], seq[Top(ps)])]
  <1>1. Subgraph(g, ids) = (CHOOSE it : P(it))[DOMAIN seq]
    BY Zenon DEF Subgraph, FoldLeft, MapThenFoldSet, Top, Max
  <1>2. \A acc, x : Step(k, acc, x) = op(acc, x)
    BY DEF Step
  <1> HIDE DEF k, base, seq, op
  <1>3. \A it : P(it) <=> Folding(k, base, seq, it)
    BY <1>2 DEF Folding
  <1> HIDE DEF P
  <1>4. (CHOOSE it : P(it)) = (CHOOSE it : Folding(k, base, seq, it))
    BY <1>3
  <1>5. Subgraph(g, ids) = Folded(k, base, seq)
    BY <1>1, <1>4 DEF Folded
  <1> QED
    BY <1>5 DEF k, base, seq

-------------------------------------------------------------------------------
(* What one insertion changes *)

(* push: the node comes last, and everything else stays.                   *)
LEMMA PushNodeFacts ==
    ASSUME NEW g, Coherent(g), TypedStore(g), NEW node \in Node, NEW next
    PROVE  LET h == PushNode(g, node, next)
               n == Len(g.nodes) + 1
           IN /\ TypedStore(h)
              /\ n \notin DOMAIN g.nodes /\ DOMAIN h.nodes = DOMAIN g.nodes \cup {n}
              /\ Len(h.nodes) = n /\ h.nodes[n] = node
              /\ \A i \in DOMAIN g.nodes : h.nodes[i] = g.nodes[i]
              /\ NodeIds(h) = NodeIds(g) \cup {node.id}
              /\ h.node_index_map[node.id] = n
              /\ \A id \in NodeIds(g) :
                    id # node.id => h.node_index_map[id] = g.node_index_map[id]
              /\ h.edges = g.edges /\ h.next_edge_id = g.next_edge_id /\ h.next_node_id = next
              /\ h.root = IF g.root = None THEN node.id ELSE g.root
              /\ h.cfg_entries = g.cfg_entries /\ h.cfg_exits = g.cfg_exits
  <1> DEFINE h == PushNode(g, node, next)
             n == Len(g.nodes) + 1
             vector == Append(g.nodes, node)
             map == [id \in DOMAIN g.node_index_map \cup {node.id} |->
                        IF id = node.id THEN Len(g.nodes) + 1 ELSE g.node_index_map[id]]
             top == IF g.root = None THEN node.id ELSE g.root
  <1>1. /\ h.nodes = vector /\ h.node_index_map = map /\ h.edges = g.edges /\ h.root = top
        /\ h.next_node_id = next /\ h.next_edge_id = g.next_edge_id
        /\ h.cfg_entries = g.cfg_entries /\ h.cfg_exits = g.cfg_exits
    <2>1. h = [g EXCEPT !.nodes = vector, !.node_index_map = map,
                        !.next_node_id = next, !.root = top]
      BY DEF PushNode
    <2> HIDE DEF vector, map, top, h
    <2> QED
      BY <2>1 DEF Coherent, HasShape
  <1>2. node.id \in NodeId
    BY DEF Node
  <1> HIDE DEF h
  <1>3. /\ vector \in Seq(Node) /\ n \notin DOMAIN g.nodes /\ Len(vector) = n
        /\ DOMAIN vector = DOMAIN g.nodes \cup {n}
        /\ \A i \in DOMAIN g.nodes : vector[i] = g.nodes[i]
        /\ vector[n] = node
    <2>1. g.nodes \in Seq(Node)
      BY DEF TypedStore
    <2> QED
      BY <2>1, AppendFacts
  <1> HIDE DEF vector
  <1>4. TypedStore(h)
    BY <1>1, <1>2, <1>3 DEF TypedStore
  <1>5. /\ NodeIds(h) = NodeIds(g) \cup {node.id}
        /\ h.node_index_map[node.id] = n
        /\ \A id \in NodeIds(g) : id # node.id => h.node_index_map[id] = g.node_index_map[id]
    BY <1>1 DEF NodeIds
  <1> HIDE DEF map, n
  <1> QED
    BY <1>1, <1>3, <1>4, <1>5 DEF h, n, top

(* A copy takes the next identifier and the next position.                 *)
LEMMA AddNodeFacts ==
    ASSUME NEW g, Coherent(g), TypedStore(g), g.next_node_id < MaxId, NEW node \in Node
    PROVE  LET h == AddNode(g, node)
               n == Len(g.nodes) + 1
               id == g.next_node_id
           IN /\ Coherent(h) /\ TypedStore(h)
              /\ n \notin DOMAIN g.nodes /\ DOMAIN h.nodes = DOMAIN g.nodes \cup {n}
              /\ Len(h.nodes) = n
              /\ \A i \in DOMAIN g.nodes : h.nodes[i] = g.nodes[i]
              /\ id \notin NodeIds(g) /\ NodeIds(h) = NodeIds(g) \cup {id}
              /\ h.node_index_map[id] = n
              /\ \A old \in NodeIds(g) : h.node_index_map[old] = g.node_index_map[old]
              /\ h.edges = g.edges /\ h.next_edge_id = g.next_edge_id /\ h.next_node_id = id + 1
              /\ h.root = IF g.root = None THEN id ELSE g.root
              /\ h.cfg_entries = g.cfg_entries /\ h.cfg_exits = g.cfg_exits
  <1> DEFINE taken == [node EXCEPT !.id = g.next_node_id]
             next == SaturatingSucc(g.next_node_id)
  <1>1. g.next_node_id \in NodeId /\ g.next_node_id \in Nat
    BY MaxIdAssumption DEF Coherent, HasCounters, NodeId
  <1>2. taken \in Node /\ taken.id = g.next_node_id
    BY <1>1, RewrittenNodes
  <1>3. next = g.next_node_id + 1
    BY <1>1, MaxIdAssumption DEF SaturatingSucc
  <1>4. CanTakeNodeId(g)
    BY <1>1, MaxIdAssumption DEF CanTakeNodeId
  <1>5. Coherent(AddNode(g, node)) /\ AddNode(g, node) = PushNode(g, taken, next)
    BY <1>4, AddNodeCoherent DEF AddNode
  <1>6. g.next_node_id \notin NodeIds(g)
    BY <1>1, MaxIdAssumption DEF Coherent, NodeCounterAhead
  <1> HIDE DEF taken, next
  <1>7. LET h == PushNode(g, taken, next)
            n == Len(g.nodes) + 1
        IN /\ TypedStore(h)
           /\ n \notin DOMAIN g.nodes /\ DOMAIN h.nodes = DOMAIN g.nodes \cup {n}
           /\ Len(h.nodes) = n /\ h.nodes[n] = taken
           /\ \A i \in DOMAIN g.nodes : h.nodes[i] = g.nodes[i]
           /\ NodeIds(h) = NodeIds(g) \cup {taken.id}
           /\ h.node_index_map[taken.id] = n
           /\ \A id \in NodeIds(g) :
                 id # taken.id => h.node_index_map[id] = g.node_index_map[id]
           /\ h.edges = g.edges /\ h.next_edge_id = g.next_edge_id /\ h.next_node_id = next
           /\ h.root = IF g.root = None THEN taken.id ELSE g.root
           /\ h.cfg_entries = g.cfg_entries /\ h.cfg_exits = g.cfg_exits
    BY <1>2, PushNodeFacts
  <1> QED
    BY <1>2, <1>3, <1>5, <1>6, <1>7

(* Writing a node leaves the rest of the graph alone.                      *)
LEMMA SetNodeFrame ==
    ASSUME NEW g, Coherent(g), NEW id, NEW f
    PROVE  LET h == SetNode(g, id, f)
           IN /\ h.node_index_map = g.node_index_map /\ h.edges = g.edges
              /\ h.next_node_id = g.next_node_id /\ h.next_edge_id = g.next_edge_id
              /\ h.root = g.root
              /\ h.cfg_entries = g.cfg_entries /\ h.cfg_exits = g.cfg_exits
  BY DEF Coherent, HasShape, SetNode

(* index_appended_ast_child writes children and a parent, nothing else.    *)
LEMMA IndexAppendedFrame ==
    ASSUME NEW g, Coherent(g), TypedStore(g), NEW e, HasEndpoints(g, e), NEW replace \in BOOLEAN
    PROVE  LET h == IndexAppendedAstChild(g, e, replace)
           IN /\ h.node_index_map = g.node_index_map
              /\ h.next_node_id = g.next_node_id /\ h.next_edge_id = g.next_edge_id
              /\ h.root = g.root
              /\ h.cfg_entries = g.cfg_entries /\ h.cfg_exits = g.cfg_exits
              /\ \A p \in DOMAIN g.nodes : h.nodes[p].refs = g.nodes[p].refs
  <1> DEFINE list == Append(NodeAt(g, e.source).children, e.target)
             f == [NodeAt(g, e.source) EXCEPT !.children = list]
             pushed == SetNode(g, e.source, f)
             q == [NodeAt(pushed, e.target) EXCEPT !.parent = e.source]
             done == SetNode(pushed, e.target, q)
             h == IndexAppendedAstChild(g, e, replace)
             Same(a, b) == /\ a.node_index_map = b.node_index_map
                           /\ a.next_node_id = b.next_node_id /\ a.next_edge_id = b.next_edge_id
                           /\ a.root = b.root
                           /\ a.cfg_entries = b.cfg_entries /\ a.cfg_exits = b.cfg_exits
  <1>1. /\ e.source \in NodeIds(g) /\ e.target \in NodeIds(g)
        /\ e.source \in NodeId /\ e.target \in NodeId
        /\ NodeAt(g, e.source) \in Node
    BY StoreFacts DEF HasEndpoints
  <1>2. list \in Seq(NodeId)
    BY <1>1 DEF Node
  <1>3. f \in Node /\ f.id = NodeAt(g, e.source).id /\ f.refs = NodeAt(g, e.source).refs
    <2> HIDE DEF list
    <2>1. f.refs = NodeAt(g, e.source).refs
      BY <1>1 DEF Node
    <2> QED
      BY <1>1, <1>2, <2>1, RewrittenNodes
  <1> HIDE DEF f
  <1>4. /\ Coherent(pushed) /\ TypedStore(pushed) /\ NodeIds(pushed) = NodeIds(g)
        /\ Same(pushed, g) /\ DOMAIN pushed.nodes = DOMAIN g.nodes
        /\ \A p \in DOMAIN g.nodes : pushed.nodes[p].refs = g.nodes[p].refs
    <2>1. "id" \in DOMAIN f /\ f.id = e.source
      BY <1>1, <1>3 DEF Node, Coherent, NodesIndexed
    <2>2. Coherent(pushed) /\ NodeIds(pushed) = NodeIds(g)
      BY <1>1, <2>1, SetNodeCoherent
    <2>3. Same(pushed, g)
      BY SetNodeFrame
    <2>4. /\ TypedStore(pushed) /\ DOMAIN pushed.nodes = DOMAIN g.nodes
          /\ pushed.nodes[g.node_index_map[e.source]] = f
          /\ \A i \in DOMAIN g.nodes :
                i # g.node_index_map[e.source] => pushed.nodes[i] = g.nodes[i]
      BY <1>1, <1>3, SetNodeFacts
    <2>5. f.refs = g.nodes[g.node_index_map[e.source]].refs
      BY <1>3 DEF NodeAt
    <2> HIDE DEF pushed, Same
    <2> QED
      BY <2>2, <2>3, <2>4, <2>5
  <1>5. CASE replace
    <2> HIDE DEF pushed
    <2>1. NodeAt(pushed, e.target) \in Node
      BY <1>1, <1>4, StoreFacts
    <2>2. q \in Node /\ q.refs = NodeAt(pushed, e.target).refs
      <3>1. q.refs = NodeAt(pushed, e.target).refs
        BY <2>1 DEF Node
      <3> QED
        BY <1>1, <2>1, <3>1, RewrittenNodes
    <2> HIDE DEF q
    <2>3. Same(done, pushed)
      BY <1>4, SetNodeFrame
    <2>4. /\ done.nodes[pushed.node_index_map[e.target]] = q
          /\ \A i \in DOMAIN pushed.nodes :
                i # pushed.node_index_map[e.target] => done.nodes[i] = pushed.nodes[i]
      BY <1>1, <1>4, <2>2, SetNodeFacts
    <2>5. q.refs = pushed.nodes[pushed.node_index_map[e.target]].refs
      BY <2>2 DEF NodeAt
    <2>6. h = done
      BY <1>5 DEF IndexAppendedAstChild, pushed, f, q
    <2> HIDE DEF done, h
    <2>7. Same(h, g) /\ \A p \in DOMAIN g.nodes : h.nodes[p].refs = g.nodes[p].refs
      BY <1>4, <2>3, <2>4, <2>5, <2>6
    <2> QED
      BY <2>7 DEF h
  <1>6. CASE ~replace
    <2>1. h = pushed
      BY <1>6 DEF IndexAppendedAstChild, f
    <2> HIDE DEF pushed, h
    <2>2. Same(h, g) /\ \A p \in DOMAIN g.nodes : h.nodes[p].refs = g.nodes[p].refs
      BY <1>4, <2>1
    <2> QED
      BY <2>2 DEF h
  <1> QED
    BY <1>5, <1>6

(* add_edge: the edge comes last under the next identifier; of the nodes   *)
(* only child lists change, and the parents of nodes an AST edge enters.   *)
LEMMA AddEdgeFacts ==
    ASSUME NEW g, Whole(g), g.next_edge_id < MaxId, NEW e \in EdgeRequest, HasEndpoints(g, e)
    PROVE  LET h == AddEdge(g, e)
               n == Len(g.edges) + 1
           IN /\ Whole(h) /\ h.node_index_map = g.node_index_map
              /\ DOMAIN h.nodes = DOMAIN g.nodes
              /\ n \notin DOMAIN g.edges /\ DOMAIN h.edges = DOMAIN g.edges \cup {n}
              /\ Len(h.edges) = n
              /\ \A k \in DOMAIN g.edges : h.edges[k] = g.edges[k]
              /\ h.edges[n].id = g.next_edge_id /\ h.edges[n].kind = e.kind
              /\ h.edges[n].source = e.source /\ h.edges[n].target = e.target
              /\ h.next_edge_id = g.next_edge_id + 1 /\ h.next_node_id = g.next_node_id
              /\ h.root = g.root
              /\ h.cfg_entries = g.cfg_entries /\ h.cfg_exits = g.cfg_exits
              /\ \A p \in DOMAIN g.nodes :
                    /\ h.nodes[p].refs = g.nodes[p].refs
                    /\ AstInto(h, p) = {} => h.nodes[p].parent = g.nodes[p].parent
  <1> DEFINE taken == [e EXCEPT !.id = g.next_edge_id]
             next == SaturatingSucc(g.next_edge_id)
             linked == LinkEdge(g, taken, next)
             replace == AppendedAstParentNeedsUpdate(g, g.node_index_map[e.target], e.source)
             indexed == IndexAppendedAstChild(linked, taken, replace)
             h == AddEdge(g, e)
             n == Len(g.edges) + 1
             Frame(a) ==
                /\ a.node_index_map = g.node_index_map
                /\ DOMAIN a.nodes = DOMAIN g.nodes
                /\ a.edges = linked.edges
                /\ a.next_edge_id = g.next_edge_id + 1 /\ a.next_node_id = g.next_node_id
                /\ a.root = g.root
                /\ a.cfg_entries = g.cfg_entries /\ a.cfg_exits = g.cfg_exits
                /\ \A p \in DOMAIN g.nodes :
                      /\ a.nodes[p].refs = g.nodes[p].refs
                      /\ AstInto(linked, p) = {} => a.nodes[p].parent = g.nodes[p].parent
  <1>0. Coherent(g) /\ TypedStore(g)
    BY DEF Whole
  <1>1. g.next_edge_id \in EdgeId /\ g.next_edge_id \in Nat
    BY <1>0, MaxIdAssumption DEF Coherent, HasCounters, EdgeId
  <1>2. next = g.next_edge_id + 1
    BY <1>1, MaxIdAssumption DEF SaturatingSucc
  <1>3. CanTakeEdgeId(g)
    BY <1>1, MaxIdAssumption DEF CanTakeEdgeId
  <1>4. /\ taken \in EdgeRequest /\ taken.id = g.next_edge_id
        /\ taken.source = e.source /\ taken.target = e.target /\ taken.kind = e.kind
    BY <1>1 DEF EdgeRequest
  <1>5. Whole(h)
    BY <1>3, AddEdgeWhole
  <1>6. h = IF e.kind = AstChild THEN indexed ELSE linked
    BY DEF AddEdge
  <1> HIDE DEF taken, next
  <1>7. HasEndpoints(g, taken)
    BY <1>4 DEF HasEndpoints
  <1>8. EdgeValue(e)
    BY DEF EdgeRequest, EdgeValue
  <1>9. Coherent(linked) /\ NodeIds(linked) = NodeIds(g)
    BY <1>0, <1>3, <1>8, LinkTakenCoherent DEF taken, next
  <1>10. /\ TypedStore(linked) /\ linked.nodes = g.nodes
         /\ linked.node_index_map = g.node_index_map
         /\ DOMAIN linked.edges = DOMAIN g.edges \cup {n} /\ n \notin DOMAIN g.edges
         /\ \A k \in DOMAIN g.edges : linked.edges[k] = g.edges[k]
         /\ linked.edges[n] = [id |-> taken.id, source |-> taken.source,
                               target |-> taken.target, kind |-> taken.kind,
                               from |-> g.node_index_map[taken.source],
                               to |-> g.node_index_map[taken.target]]
    BY <1>0, <1>4, <1>7, LinkEdgeFacts
  <1>11. /\ Len(linked.edges) = n
         /\ linked.next_edge_id = next /\ linked.next_node_id = g.next_node_id
         /\ linked.root = g.root
         /\ linked.cfg_entries = g.cfg_entries /\ linked.cfg_exits = g.cfg_exits
    <2> DEFINE stored == [id |-> taken.id, source |-> taken.source, target |-> taken.target,
                          kind |-> taken.kind, from |-> g.node_index_map[taken.source],
                          to |-> g.node_index_map[taken.target]]
    <2>1. linked = [g EXCEPT !.edges = Append(@, stored), !.next_edge_id = next]
      BY DEF LinkEdge
    <2> HIDE DEF linked, stored
    <2>2. /\ linked.edges = Append(g.edges, stored)
          /\ linked.next_edge_id = next /\ linked.next_node_id = g.next_node_id
          /\ linked.root = g.root
          /\ linked.cfg_entries = g.cfg_entries /\ linked.cfg_exits = g.cfg_exits
      BY <1>0, <2>1 DEF Coherent, HasShape
    <2>3. g.edges \in Seq(Edge)
      BY <1>0 DEF TypedStore
    <2>4. Len(Append(g.edges, stored)) = n
      BY <2>3, AppendFacts
    <2> QED
      BY <2>2, <2>4
  <1> HIDE DEF linked, replace
  <1>12. Frame(linked)
    BY <1>2, <1>10, <1>11
  <1>13. ASSUME e.kind = AstChild
         PROVE  Frame(indexed)
    <2>1. HasEndpoints(linked, taken) /\ replace \in BOOLEAN
      BY <1>7, <1>9 DEF HasEndpoints, replace, AppendedAstParentNeedsUpdate
    <2> DEFINE to == linked.node_index_map[taken.target]
    <2>2. /\ indexed.edges = linked.edges /\ DOMAIN indexed.nodes = DOMAIN linked.nodes
          /\ \A p \in DOMAIN linked.nodes :
                p # to => indexed.nodes[p].parent = linked.nodes[p].parent
      <3>1. LET a == IndexAppendedAstChild(linked, taken, replace)
                from == linked.node_index_map[taken.source]
                into == linked.node_index_map[taken.target]
            IN /\ TypedStore(a) /\ a.edges = linked.edges /\ DOMAIN a.nodes = DOMAIN linked.nodes
               /\ \A i \in DOMAIN linked.nodes :
                     /\ a.nodes[i].children =
                            IF i = from THEN Append(linked.nodes[i].children, taken.target)
                            ELSE linked.nodes[i].children
                     /\ a.nodes[i].parent = IF i = into /\ replace THEN taken.source
                                            ELSE linked.nodes[i].parent
        BY <1>9, <1>10, <2>1, IndexAppendedFacts
      <3> QED
        BY <3>1
    <2>3. /\ indexed.node_index_map = linked.node_index_map
          /\ indexed.next_edge_id = linked.next_edge_id
          /\ indexed.next_node_id = linked.next_node_id
          /\ indexed.root = linked.root
          /\ indexed.cfg_entries = linked.cfg_entries /\ indexed.cfg_exits = linked.cfg_exits
          /\ \A p \in DOMAIN linked.nodes : indexed.nodes[p].refs = linked.nodes[p].refs
      BY <1>9, <1>10, <2>1, IndexAppendedFrame
    <2>4. n \in AstInto(linked, to)
      BY <1>4, <1>10, <1>13 DEF AstInto
    <2> HIDE DEF indexed, to
    <2> QED
      BY <1>10, <1>12, <2>2, <2>3, <2>4
  <1> HIDE DEF h, indexed
  <1>14. Frame(h)
    <2> HIDE DEF Frame
    <2> QED
      BY <1>6, <1>12, <1>13
  <1>15. \A p : AstInto(h, p) = AstInto(linked, p)
    BY <1>14 DEF AstInto
  <1>16. /\ h.edges[n].id = g.next_edge_id /\ h.edges[n].kind = e.kind
         /\ h.edges[n].source = e.source /\ h.edges[n].target = e.target
    BY <1>4, <1>10, <1>14
  <1> HIDE DEF n
  <1>17. /\ Whole(h) /\ h.node_index_map = g.node_index_map
         /\ DOMAIN h.nodes = DOMAIN g.nodes
         /\ n \notin DOMAIN g.edges /\ DOMAIN h.edges = DOMAIN g.edges \cup {n}
         /\ Len(h.edges) = n
         /\ \A k \in DOMAIN g.edges : h.edges[k] = g.edges[k]
         /\ h.edges[n].id = g.next_edge_id /\ h.edges[n].kind = e.kind
         /\ h.edges[n].source = e.source /\ h.edges[n].target = e.target
         /\ h.next_edge_id = g.next_edge_id + 1 /\ h.next_node_id = g.next_node_id
         /\ h.root = g.root
         /\ h.cfg_entries = g.cfg_entries /\ h.cfg_exits = g.cfg_exits
         /\ \A p \in DOMAIN g.nodes :
               /\ h.nodes[p].refs = g.nodes[p].refs
               /\ AstInto(h, p) = {} => h.nodes[p].parent = g.nodes[p].parent
    BY <1>5, <1>10, <1>11, <1>14, <1>15, <1>16
  <1> QED
    BY <1>17 DEF h, n

-------------------------------------------------------------------------------
(* merge_from: the nodes *)

\* The identifiers a merge takes are there to be taken.
Fits(d, s) ==
    /\ d.next_node_id + Len(s.nodes) <= MaxId
    /\ d.next_edge_id + Len(s.edges) <= MaxId

(* The source nodes in NodeId order, each once.                            *)
LEMMA NodesAreListed ==
    ASSUME NEW s, Coherent(s), TypedStore(s)
    PROVE  LET r == InNodeIdOrder(s.nodes)
           IN /\ DOMAIN r = 1..Len(s.nodes) /\ Len(s.nodes) \in Nat
              /\ \A i \in DOMAIN r : /\ r[i] \in Node /\ r[i].id \in NodeIds(s)
                                     /\ r[i].id \in NodeId /\ NodeAt(s, r[i].id) = r[i]
              /\ \A i, j \in DOMAIN r : r[i].id = r[j].id => i = j
              /\ \A id \in NodeIds(s) : \E i \in DOMAIN r : r[i].id = id
  <1> DEFINE S == DOMAIN s.nodes
             R == ByNodeId(s.nodes)
             row == Sorted(S, R)
             r == InNodeIdOrder(s.nodes)
  <1>1. /\ IsFiniteSet(S) /\ S = 1..Len(s.nodes) /\ Len(s.nodes) \in Nat
        /\ s.nodes \in Seq(Node)
    BY StoreFacts DEF TypedStore
  <1>2. Cardinality(S) = Len(s.nodes)
    <2>1. 1 \in Int /\ Len(s.nodes) \in Int
      BY <1>1
    <2>2. Cardinality(1..Len(s.nodes)) = IF 1 > Len(s.nodes) THEN 0 ELSE Len(s.nodes) - 1 + 1
      BY <2>1, FS_Interval
    <2> QED
      BY <1>1, <2>2
  <1>3. \A p \in S : s.nodes[p] \in Node /\ s.nodes[p].id \in NodeId /\ s.nodes[p].id \in Int
    <2>1. \A p \in S : s.nodes[p] \in Node
      BY <1>1
    <2>2. \A node \in Node : node.id \in NodeId
      BY DEF Node
    <2>3. \A id \in NodeId : id \in Int
      BY MaxIdAssumption DEF NodeId
    <2> HIDE DEF S
    <2> QED
      BY <2>1, <2>2, <2>3
  <1>4. \A p, q \in S : s.nodes[p].id = s.nodes[q].id => p = q
    BY DEF Coherent, NodesIndexed
  <1>5. \A p, q \in S : <<p, q>> \in R <=> s.nodes[p].id < s.nodes[q].id
    BY DEF ByNodeId
  <1>6. StrictOrder(S, R)
    <2> HIDE DEF R
    <2> QED
      BY <1>3, <1>4, <1>5 DEF StrictOrder
  <1>7. Lists(row, S, R) /\ Len(row) = Cardinality(S)
    <2> HIDE DEF S, R
    <2> QED
      BY <1>1, <1>6, SortedLists DEF S
  <1>8. r = [i \in DOMAIN row |-> s.nodes[row[i]]]
    BY DEF InNodeIdOrder
  <1> HIDE DEF row, R, r
  <1>9. /\ DOMAIN row = 1..Len(s.nodes) /\ \A i \in DOMAIN row : row[i] \in S
        /\ \A i, j \in DOMAIN row : row[i] = row[j] => i = j
        /\ \A p \in S : \E i \in DOMAIN row : row[i] = p
    <2> HIDE DEF S
    <2>1. /\ DOMAIN row = 1..Len(row)
          /\ \A i, j \in DOMAIN row : row[i] = row[j] => i = j
      BY <1>6, <1>7, ListingIsBijective
    <2>2. \A i \in DOMAIN row : row[i] \in S
      BY <1>7, <2>1 DEF Lists
    <2> QED
      BY <1>2, <1>7, <2>1, <2>2 DEF Lists
  <1>10. \A i \in DOMAIN r : /\ r[i] \in Node /\ r[i].id \in NodeIds(s)
                             /\ r[i].id \in NodeId /\ NodeAt(s, r[i].id) = r[i]
    <2> SUFFICES ASSUME NEW i \in DOMAIN r
                 PROVE  /\ r[i] \in Node /\ r[i].id \in NodeIds(s)
                        /\ r[i].id \in NodeId /\ NodeAt(s, r[i].id) = r[i]
      OBVIOUS
    <2>1. i \in DOMAIN row /\ r[i] = s.nodes[row[i]] /\ row[i] \in S
      BY <1>8, <1>9
    <2>2. s.nodes[row[i]].id \in NodeIds(s) /\ s.node_index_map[s.nodes[row[i]].id] = row[i]
      BY <2>1 DEF Coherent, NodesIndexed
    <2> QED
      BY <1>3, <2>1, <2>2 DEF NodeAt
  <1>11. \A i, j \in DOMAIN r : r[i].id = r[j].id => i = j
    BY <1>4, <1>8, <1>9
  <1>12. \A id \in NodeIds(s) : \E i \in DOMAIN r : r[i].id = id
    <2> SUFFICES ASSUME NEW id \in NodeIds(s) PROVE \E i \in DOMAIN r : r[i].id = id
      OBVIOUS
    <2>1. s.node_index_map[id] \in S /\ NodeAt(s, id).id = id
      BY DEF Coherent, NodesIndexed
    <2>2. PICK i \in DOMAIN row : row[i] = s.node_index_map[id]
      BY <1>9, <2>1
    <2> QED
      BY <1>8, <2>1, <2>2 DEF NodeAt
  <1> QED
    BY <1>1, <1>8, <1>9, <1>10, <1>11, <1>12 DEF r

NodeCount(g) == Len(g.nodes)
EdgeCount(g) == Len(g.edges)

\* g is d with i more nodes, under the next i identifiers.
Longer(d, i, g) ==
    /\ Coherent(g) /\ TypedStore(g)
    /\ NodeCount(g) = NodeCount(d) + i
    /\ \A p \in DOMAIN d.nodes : p \in DOMAIN g.nodes /\ g.nodes[p] = d.nodes[p]
    /\ g.next_node_id = d.next_node_id + i
    /\ \A id \in NodeIds(d) : id \in NodeIds(g) /\ g.node_index_map[id] = d.node_index_map[id]
    /\ \A j \in 1..i : /\ d.next_node_id + j - 1 \in NodeIds(g)
                       /\ d.next_node_id + j - 1 \notin NodeIds(d)
                       /\ g.node_index_map[d.next_node_id + j - 1] = NodeCount(d) + j
    /\ \A id \in NodeIds(g) : id \in NodeIds(d) \/ \E j \in 1..i : id = d.next_node_id + j - 1
    /\ g.edges = d.edges /\ g.next_edge_id = d.next_edge_id
    /\ g.cfg_entries = d.cfg_entries /\ g.cfg_exits = d.cfg_exits
    /\ g.root = IF d.root # None \/ i = 0 THEN d.root ELSE d.next_node_id

\* The first i listed nodes are mapped to the identifiers they were given.
MapsFirst(d, r, i, map) ==
    /\ \A id : id \in DOMAIN map <=> \E j \in 1..i : id = r[j].id
    /\ \A j \in 1..i : map[r[j].id] = d.next_node_id + j - 1

(* One more node under one more identifier.                                *)
LEMMA LongerByOne ==
    ASSUME NEW d, Coherent(d), TypedStore(d), NEW i \in Nat, NEW g, Longer(d, i, g),
           d.next_node_id + i < MaxId, NEW node \in Node
    PROVE  Longer(d, i + 1, AddNode(g, node))
  <1> DEFINE h == AddNode(g, node)
             n == NodeCount(g) + 1
             new == g.next_node_id
  <1>1. /\ Coherent(g) /\ TypedStore(g) /\ new = d.next_node_id + i /\ NodeCount(g) = NodeCount(d) + i
        /\ d.next_node_id \in Nat /\ NodeCount(d) \in Nat
    BY StoreFacts, MaxIdAssumption DEF Longer, Coherent, HasCounters, NodeId, NodeCount
  <1>2. /\ Coherent(h) /\ TypedStore(h)
        /\ n \notin DOMAIN g.nodes /\ DOMAIN h.nodes = DOMAIN g.nodes \cup {n}
        /\ NodeCount(h) = n
        /\ \A p \in DOMAIN g.nodes : h.nodes[p] = g.nodes[p]
        /\ new \notin NodeIds(g) /\ NodeIds(h) = NodeIds(g) \cup {new}
        /\ h.node_index_map[new] = n
        /\ \A old \in NodeIds(g) : h.node_index_map[old] = g.node_index_map[old]
        /\ h.edges = g.edges /\ h.next_edge_id = g.next_edge_id /\ h.next_node_id = new + 1
        /\ h.root = IF g.root = None THEN new ELSE g.root
        /\ h.cfg_entries = g.cfg_entries /\ h.cfg_exits = g.cfg_exits
    BY <1>1, AddNodeFacts DEF NodeCount
  <1> HIDE DEF h
  <1>3. /\ NodeCount(h) = NodeCount(d) + (i + 1)
        /\ h.next_node_id = d.next_node_id + (i + 1)
        /\ \A p \in DOMAIN d.nodes : p \in DOMAIN h.nodes /\ h.nodes[p] = d.nodes[p]
        /\ \A id \in NodeIds(d) : id \in NodeIds(h) /\ h.node_index_map[id] = d.node_index_map[id]
        /\ h.edges = d.edges /\ h.next_edge_id = d.next_edge_id
        /\ h.cfg_entries = d.cfg_entries /\ h.cfg_exits = d.cfg_exits
    <2>1. NodeCount(h) = NodeCount(d) + (i + 1) /\ h.next_node_id = d.next_node_id + (i + 1)
      <3>1. NodeCount(h) = NodeCount(g) + 1 /\ h.next_node_id = g.next_node_id + 1
        BY <1>2
      <3>2. /\ NodeCount(g) = NodeCount(d) + i /\ g.next_node_id = d.next_node_id + i
            /\ d.next_node_id \in Nat /\ NodeCount(d) \in Nat
        BY <1>1
      <3> QED
        BY <3>1, <3>2
    <2>2. /\ \A p \in DOMAIN d.nodes : p \in DOMAIN h.nodes /\ h.nodes[p] = d.nodes[p]
          /\ \A id \in NodeIds(d) :
                id \in NodeIds(h) /\ h.node_index_map[id] = d.node_index_map[id]
      BY <1>2 DEF Longer
    <2>3. /\ h.edges = d.edges /\ h.next_edge_id = d.next_edge_id
          /\ h.cfg_entries = d.cfg_entries /\ h.cfg_exits = d.cfg_exits
      BY <1>2 DEF Longer
    <2> QED
      BY <2>1, <2>2, <2>3
  <1>4. ASSUME NEW j \in 1..(i + 1)
        PROVE  /\ d.next_node_id + j - 1 \in NodeIds(h)
               /\ d.next_node_id + j - 1 \notin NodeIds(d)
               /\ h.node_index_map[d.next_node_id + j - 1] = NodeCount(d) + j
    <2>1. CASE j \in 1..i
      BY <1>2, <2>1 DEF Longer
    <2>2. CASE j = i + 1
      <3>1. d.next_node_id + j - 1 = new /\ NodeCount(d) + j = n
        <4>1. /\ new = d.next_node_id + i /\ NodeCount(g) = NodeCount(d) + i
              /\ d.next_node_id \in Nat /\ NodeCount(d) \in Nat
          BY <1>1
        <4> QED
          BY <2>2, <4>1
      <3>2. new \notin NodeIds(d)
        BY <1>2 DEF Longer
      <3> QED
        BY <1>2, <3>1, <3>2
    <2> QED
      BY <2>1, <2>2
  <1>5. ASSUME NEW id \in NodeIds(h)
        PROVE  id \in NodeIds(d) \/ \E j \in 1..(i + 1) : id = d.next_node_id + j - 1
    <2>1. CASE id = new
      <3>1. i + 1 \in 1..(i + 1) /\ id = d.next_node_id + (i + 1) - 1
        BY <1>1, <2>1
      <3> QED
        BY <3>1
    <2>2. CASE id \in NodeIds(g)
      <3>1. \A j \in 1..i : j \in 1..(i + 1)
        OBVIOUS
      <3> QED
        BY <2>2, <3>1 DEF Longer
    <2> QED
      BY <1>2, <2>1, <2>2
  <1>6. h.root = IF d.root # None \/ i + 1 = 0 THEN d.root ELSE d.next_node_id
    <2>1. g.root = IF d.root # None \/ i = 0 THEN d.root ELSE d.next_node_id
      BY DEF Longer
    <2>2. d.next_node_id # None /\ i + 1 # 0
      BY <1>1, NoneAssumption
    <2> QED
      BY <1>1, <1>2, <2>1, <2>2
  <1>7. Longer(d, i + 1, h)
    BY <1>2, <1>3, <1>4, <1>5, <1>6 DEF Longer
  <1> QED
    BY <1>7 DEF h

Put(map, key, new) == [id \in DOMAIN map \cup {key} |-> IF id = key THEN new ELSE map[id]]

(* A node that has not come yet is mapped beside the others.               *)
LEMMA MapsOneMore ==
    ASSUME NEW d, NEW r, NEW n \in Nat, NEW i \in Nat, i < n,
           \A j, k \in 1..n : r[j].id = r[k].id => j = k,
           NEW map, MapsFirst(d, r, i, map),
           NEW new, new = d.next_node_id + (i + 1) - 1
    PROVE  MapsFirst(d, r, i + 1, Put(map, r[i + 1].id, new))
  <1> DEFINE more == Put(map, r[i + 1].id, new)
  <1>1. /\ i + 1 \in 1..n /\ i + 1 \in 1..(i + 1)
        /\ \A j \in 1..i : j \in 1..n /\ j # i + 1 /\ j \in 1..(i + 1)
        /\ \A j \in 1..(i + 1) : j \in 1..i \/ j = i + 1
    OBVIOUS
  <1>2. \A j \in 1..i : r[j].id # r[i + 1].id
    BY <1>1
  <1>3. /\ DOMAIN more = DOMAIN map \cup {r[i + 1].id}
        /\ more[r[i + 1].id] = new
        /\ \A id \in DOMAIN map : id # r[i + 1].id => more[id] = map[id]
    BY DEF Put
  <1> HIDE DEF more
  <1>4. \A id : id \in DOMAIN more <=> \E j \in 1..(i + 1) : id = r[j].id
    BY <1>1, <1>3 DEF MapsFirst
  <1>5. ASSUME NEW j \in 1..(i + 1)
        PROVE  more[r[j].id] = d.next_node_id + j - 1
    <2>1. CASE j \in 1..i
      <3>1. r[j].id \in DOMAIN map /\ r[j].id # r[i + 1].id
        BY <1>2, <2>1 DEF MapsFirst
      <3>2. map[r[j].id] = d.next_node_id + j - 1
        BY <2>1 DEF MapsFirst
      <3> QED
        BY <1>3, <3>1, <3>2
    <2>2. CASE j = i + 1
      BY <1>3, <2>2
    <2> QED
      BY <1>1, <2>1, <2>2
  <1>6. MapsFirst(d, r, i + 1, more)
    BY <1>4, <1>5 DEF MapsFirst
  <1> QED
    BY <1>6 DEF more

(* Every source node is appended, and the map says as what.                *)
LEMMA NodesAppended ==
    ASSUME NEW d, Coherent(d), TypedStore(d), NEW s, Coherent(s), TypedStore(s), Fits(d, s)
    PROVE  LET a == Appended(d, s)
           IN /\ Longer(d, NodeCount(s), a.graph)
              /\ MapsFirst(d, InNodeIdOrder(s.nodes), NodeCount(s), a.remap)
  <1> DEFINE r == InNodeIdOrder(s.nodes)
             n == NodeCount(s)
             k == [op |-> "append"]
             base == [graph |-> d, remap |-> <<>>]
             Good(i, acc) == Longer(d, i, acc.graph) /\ MapsFirst(d, r, i, acc.remap)
  <1>1. /\ DOMAIN r = 1..n /\ n \in Nat
        /\ \A i \in 1..n : r[i] \in Node
        /\ \A i, j \in 1..n : r[i].id = r[j].id => i = j
    <2>1. /\ DOMAIN r = 1..Len(s.nodes) /\ Len(s.nodes) \in Nat
          /\ \A i \in DOMAIN r : /\ r[i] \in Node /\ r[i].id \in NodeIds(s)
                                 /\ r[i].id \in NodeId /\ NodeAt(s, r[i].id) = r[i]
          /\ \A i, j \in DOMAIN r : r[i].id = r[j].id => i = j
      BY NodesAreListed
    <2> HIDE DEF r
    <2> QED
      BY <2>1 DEF NodeCount
  <1>2. d.next_node_id \in Nat /\ d.next_node_id + n <= MaxId /\ NodeCount(d) \in Nat
    BY StoreFacts, MaxIdAssumption DEF Fits, Coherent, HasCounters, NodeId, NodeCount
  <1>3. Appended(d, s) = Folded(k, base, r)
    BY AppendedIsFolded
  <1> HIDE DEF r, n
  <1>4. PICK h : Visits(k, base, r, n, h) /\ Folded(k, base, r) = h[n]
    <2> HIDE DEF k, base
    <2> QED
      BY <1>1, FoldedVisits
  <1>5. Good(0, h[0])
    <2>1. h[0].graph = d /\ h[0].remap = <<>>
      BY <1>4 DEF Visits
    <2>2. MapsFirst(d, r, 0, <<>>)
      <3>1. 1..0 = {} /\ \A id : id \notin DOMAIN <<>>
        OBVIOUS
      <3> QED
        BY <3>1 DEF MapsFirst
    <2>3. Longer(d, 0, d)
      <3>1. 1..0 = {} /\ NodeCount(d) = NodeCount(d) + 0 /\ d.next_node_id = d.next_node_id + 0
        BY <1>2
      <3> QED
        BY <3>1, Zenon DEF Longer
    <2> QED
      BY <2>1, <2>2, <2>3
  <1>6. ASSUME NEW i \in Nat, i < n, Good(i, h[i])
        PROVE  Good(i + 1, h[i + 1])
    <2>1. i + 1 \in 1..n /\ (i + 1) - 1 = i
      BY <1>1, <1>6
    <2>2. h[i + 1] = AppendNode(h[i], r[i + 1])
      <3>1. h[i + 1] = Step(k, h[i], r[i + 1])
        BY <1>4, <2>1 DEF Visits
      <3> QED
        BY <3>1 DEF Step
    <2> DEFINE map == Put(h[i].remap, r[i + 1].id, h[i].graph.next_node_id)
    <2>3. h[i + 1].graph = AddNode(h[i].graph, r[i + 1]) /\ h[i + 1].remap = map
      BY <2>2 DEF AppendNode, Put
    <2>4. h[i].graph.next_node_id = d.next_node_id + i /\ d.next_node_id + i < MaxId
      BY <1>1, <1>2, <1>6, MaxIdAssumption DEF Longer
    <2>5. Longer(d, i + 1, AddNode(h[i].graph, r[i + 1]))
      BY <1>1, <1>6, <2>1, <2>4, LongerByOne
    <2>6. MapsFirst(d, r, i + 1, map)
      <3>1. h[i].graph.next_node_id = d.next_node_id + (i + 1) - 1
        BY <1>2, <2>4
      <3>2. MapsFirst(d, r, i, h[i].remap)
        BY <1>6
      <3> DEFINE old == h[i].remap
                 new == h[i].graph.next_node_id
      <3>3. new = d.next_node_id + (i + 1) - 1 /\ MapsFirst(d, r, i, old)
        BY <3>1, <3>2
      <3> HIDE DEF old, new
      <3>4. \A j, l \in 1..n : r[j].id = r[l].id => j = l
        BY <1>1
      <3>5. MapsFirst(d, r, i + 1, Put(old, r[i + 1].id, new))
        BY <1>1, <1>6, <3>3, <3>4, MapsOneMore
      <3> QED
        BY <3>5 DEF old, new
    <2> QED
      BY <2>3, <2>5, <2>6
  <1> HIDE DEF Good
  <1>7. Good(n, h[n])
    <2> DEFINE G == {i \in Nat : Good(i, h[i])}
    <2>1. 0 \in G /\ \A i \in Nat : i < n /\ i \in G => i + 1 \in G
      BY <1>5, <1>6
    <2> HIDE DEF G
    <2>2. n \in G
      BY <1>1, <2>1, UpTo
    <2> QED
      BY <2>2 DEF G
  <1> QED
    BY <1>3, <1>4, <1>7 DEF Good, r, n

\* map takes the nodes of s, one to one, to the nodes of g that are not in d.
Remaps(d, s, map, g) ==
    /\ DOMAIN map = NodeIds(s)
    /\ \A id \in NodeIds(s) :
          /\ map[id] \in NodeIds(g) /\ map[id] \in NodeId /\ map[id] \notin NodeIds(d)
          /\ g.node_index_map[map[id]] \notin DOMAIN d.nodes
    /\ \A x, y \in NodeIds(s) : map[x] = map[y] => x = y
    /\ \A id \in NodeIds(g) : id \in NodeIds(d) \/ \E x \in NodeIds(s) : id = map[x]
    /\ \A p \in DOMAIN g.nodes :
          p \in DOMAIN d.nodes \/ \E x \in NodeIds(s) : p = g.node_index_map[map[x]]

(* The copies are the nodes that were not there.                           *)
LEMMA AppendedRemaps ==
    ASSUME NEW d, Coherent(d), TypedStore(d), NEW s, Coherent(s), TypedStore(s),
           NEW g, Longer(d, NodeCount(s), g),
           NEW map, MapsFirst(d, InNodeIdOrder(s.nodes), NodeCount(s), map)
    PROVE  Remaps(d, s, map, g)
  <1> DEFINE r == InNodeIdOrder(s.nodes)
             n == NodeCount(s)
             b == d.next_node_id
             m == NodeCount(d)
             new(j) == b + j - 1
  <1>1. /\ n \in Nat
        /\ \A i \in 1..n : r[i].id \in NodeIds(s)
        /\ \A i, j \in 1..n : r[i].id = r[j].id => i = j
        /\ \A id \in NodeIds(s) : \E i \in 1..n : r[i].id = id
    <2>1. /\ DOMAIN r = 1..Len(s.nodes) /\ Len(s.nodes) \in Nat
          /\ \A i \in DOMAIN r : /\ r[i] \in Node /\ r[i].id \in NodeIds(s)
                                 /\ r[i].id \in NodeId /\ NodeAt(s, r[i].id) = r[i]
          /\ \A i, j \in DOMAIN r : r[i].id = r[j].id => i = j
          /\ \A id \in NodeIds(s) : \E i \in DOMAIN r : r[i].id = id
      BY NodesAreListed
    <2> HIDE DEF r
    <2> QED
      BY <2>1 DEF NodeCount
  <1>2. b \in Nat /\ m \in Nat /\ DOMAIN d.nodes = 1..m
    BY StoreFacts, MaxIdAssumption DEF Coherent, HasCounters, NodeId, NodeCount
  <1>3. Coherent(g) /\ TypedStore(g) /\ NodeCount(g) = m + n
    BY DEF Longer
  <1>4. NodeIds(g) \subseteq NodeId /\ DOMAIN g.nodes = 1..(m + n)
    BY <1>3, StoreFacts DEF NodeCount
  <1>5. /\ \A j \in 1..n : /\ new(j) \in NodeIds(g) /\ new(j) \notin NodeIds(d)
                           /\ g.node_index_map[new(j)] = m + j
        /\ \A id \in NodeIds(g) : id \in NodeIds(d) \/ \E j \in 1..n : id = new(j)
    BY DEF Longer
  <1>6. /\ \A id : id \in DOMAIN map <=> \E j \in 1..n : id = r[j].id
        /\ \A j \in 1..n : map[r[j].id] = new(j)
    BY DEF MapsFirst
  <1>7. \A i, j \in 1..n : new(i) = new(j) => i = j
    BY <1>1, <1>2
  <1>8. \A j \in 1..n : m + j \notin 1..m
    BY <1>1, <1>2
  <1> HIDE DEF r, n, m, new
  <1>9. DOMAIN map = NodeIds(s)
    BY <1>1, <1>6
  <1>10. ASSUME NEW id \in NodeIds(s)
         PROVE  /\ map[id] \in NodeIds(g) /\ map[id] \in NodeId /\ map[id] \notin NodeIds(d)
                /\ g.node_index_map[map[id]] \notin DOMAIN d.nodes
    <2>1. PICK j \in 1..n : r[j].id = id
      BY <1>1
    <2>2. map[id] = new(j)
      BY <1>6, <2>1
    <2>3. g.node_index_map[map[id]] = m + j /\ m + j \notin DOMAIN d.nodes
      BY <1>2, <1>5, <1>8, <2>2
    <2> QED
      BY <1>4, <1>5, <2>2, <2>3
  <1>11. ASSUME NEW x \in NodeIds(s), NEW y \in NodeIds(s), map[x] = map[y]
         PROVE  x = y
    BY <1>1, <1>6, <1>7, <1>11
  <1>12. ASSUME NEW id \in NodeIds(g)
         PROVE  id \in NodeIds(d) \/ \E x \in NodeIds(s) : id = map[x]
    BY <1>1, <1>5, <1>6
  <1>13. ASSUME NEW p \in DOMAIN g.nodes
         PROVE  p \in DOMAIN d.nodes \/ \E x \in NodeIds(s) : p = g.node_index_map[map[x]]
    <2>1. CASE p \in 1..m
      BY <1>2, <2>1
    <2>2. CASE p \notin 1..m
      <3>1. p - m \in 1..n /\ p = m + (p - m)
        BY <1>1, <1>2, <1>4, <2>2
      <3> DEFINE j == p - m
      <3>2. j \in 1..n /\ p = m + j
        BY <3>1
      <3> HIDE DEF j
      <3>3. g.node_index_map[map[r[j].id]] = p /\ r[j].id \in NodeIds(s)
        BY <1>1, <1>5, <1>6, <3>2
      <3> QED
        BY <3>3
    <2> QED
      BY <2>1, <2>2
  <1> QED
    BY <1>9, <1>10, <1>11, <1>12, <1>13 DEF Remaps

\* A copy before any edge has reached it.
CopyOf(node, old, map) ==
    /\ node.children = <<>>
    /\ node.parent = Translate(map, old.parent)
    /\ node.refs = {map[id] : id \in old.refs \cap DOMAIN map}

\* g differs from a in its nodes only, and keeps those of d.
Rewrites(d, a, g) ==
    /\ Coherent(g) /\ TypedStore(g)
    /\ g.node_index_map = a.node_index_map /\ DOMAIN g.nodes = DOMAIN a.nodes
    /\ \A p \in DOMAIN d.nodes : p \in DOMAIN g.nodes /\ g.nodes[p] = a.nodes[p]
    /\ g.edges = a.edges /\ g.next_edge_id = a.next_edge_id /\ g.root = a.root
    /\ g.cfg_entries = a.cfg_entries /\ g.cfg_exits = a.cfg_exits

(* Translating one copy.                                                   *)
LEMMA TranslateOne ==
    ASSUME NEW d, Coherent(d), TypedStore(d), NEW s, Coherent(s), TypedStore(s),
           NEW map, NEW a, Remaps(d, s, map, a), NEW g, Rewrites(d, a, g),
           NEW id \in NodeIds(s),
           NEW h, h = SetNode(g, map[id], TranslatedNode(NodeAt(g, map[id]), NodeAt(s, id), map))
    PROVE  /\ Rewrites(d, a, h)
           /\ CopyOf(NodeAt(h, map[id]), NodeAt(s, id), map)
           /\ \A x \in NodeIds(s) : x # id => NodeAt(h, map[x]) = NodeAt(g, map[x])
  <1> DEFINE new == map[id]
             old == NodeAt(s, id)
             node == NodeAt(g, new)
             parent == Translate(map, old.parent)
             refs == {map[x] : x \in old.refs \cap DOMAIN map}
             f == TranslatedNode(node, old, map)
  <1>1. Coherent(g) /\ TypedStore(g) /\ NodeIds(g) = NodeIds(a)
    BY DEF Rewrites, NodeIds
  <1>2. /\ DOMAIN map = NodeIds(s) /\ \A x \in NodeIds(s) : map[x] \in NodeId
        /\ \A x \in NodeIds(s) : /\ map[x] \in NodeIds(g)
                                 /\ g.node_index_map[map[x]] \notin DOMAIN d.nodes
        /\ \A x, y \in NodeIds(s) : map[x] = map[y] => x = y
    BY <1>1 DEF Remaps, Rewrites
  <1>3. old \in Node /\ node \in Node /\ new \in NodeIds(g)
    BY <1>1, <1>2, StoreFacts
  <1>4. node.id = new /\ \A x \in NodeIds(g) : NodeAt(g, x).id = x
    BY <1>1, <1>3 DEF Coherent, NodesIndexed
  <1>5. parent \in NodeId \cup {None} /\ refs \in SUBSET NodeId /\ <<>> \in Seq(NodeId)
    <2> HIDE DEF old
    <2> QED
      BY <1>2 DEF Translate
  <1>6. f = [node EXCEPT !.parent = parent, !.children = <<>>, !.refs = refs]
    BY DEF TranslatedNode
  <1> HIDE DEF node, parent, refs, f, old
  <1>7. f \in Node /\ f.id = new /\ f.children = <<>> /\ f.parent = parent /\ f.refs = refs
    BY <1>3, <1>4, <1>5, <1>6 DEF Node
  <1>8. h = SetNode(g, new, f)
    BY DEF f, node, old
  <1> HIDE DEF new
  <1>9. /\ TypedStore(h) /\ h.node_index_map = g.node_index_map
        /\ DOMAIN h.nodes = DOMAIN g.nodes
        /\ h.nodes[g.node_index_map[new]] = f /\ NodeAt(h, new) = f
        /\ \A i \in DOMAIN g.nodes : i # g.node_index_map[new] => h.nodes[i] = g.nodes[i]
    BY <1>1, <1>3, <1>7, <1>8, SetNodeFacts
  <1>10. Coherent(h)
    <2>1. "id" \in DOMAIN f
      BY <1>7 DEF Node
    <2> QED
      BY <1>1, <1>3, <1>7, <1>8, <2>1, SetNodeCoherent
  <1>11. /\ h.edges = g.edges /\ h.next_edge_id = g.next_edge_id /\ h.root = g.root
         /\ h.cfg_entries = g.cfg_entries /\ h.cfg_exits = g.cfg_exits
    BY <1>1, <1>8, SetNodeFrame
  <1>12. ASSUME NEW p \in DOMAIN d.nodes
         PROVE  p \in DOMAIN h.nodes /\ h.nodes[p] = a.nodes[p]
    <2>1. p # g.node_index_map[new]
      BY <1>2 DEF new
    <2>2. p \in DOMAIN g.nodes /\ g.nodes[p] = a.nodes[p]
      BY DEF Rewrites
    <2> QED
      BY <1>9, <2>1, <2>2
  <1>13. Rewrites(d, a, h)
    BY <1>9, <1>10, <1>11, <1>12 DEF Rewrites
  <1>14. CopyOf(NodeAt(h, map[id]), NodeAt(s, id), map)
    <2>1. CopyOf(f, old, map)
      BY <1>7 DEF CopyOf, parent, refs
    <2> QED
      BY <1>9, <2>1 DEF new, old
  <1>15. ASSUME NEW x \in NodeIds(s), x # id
         PROVE  NodeAt(h, map[x]) = NodeAt(g, map[x])
    <2>1. map[x] \in NodeIds(g) /\ map[x] # new
      BY <1>2, <1>15 DEF new
    <2>2. g.node_index_map[map[x]] # g.node_index_map[new]
      BY <1>3, <1>4, <2>1 DEF NodeAt
    <2>3. g.node_index_map[map[x]] \in DOMAIN g.nodes
      BY <1>1, <2>1, StoreFacts
    <2> QED
      BY <1>9, <2>2, <2>3, Zenon DEF NodeAt
  <1> QED
    BY <1>13, <1>14, <1>15

(* Every copy is translated.                                               *)
LEMMA NodesTranslated ==
    ASSUME NEW d, Coherent(d), TypedStore(d), NEW s, Coherent(s), TypedStore(s),
           NEW map, NEW a, Remaps(d, s, map, a), Rewrites(d, a, a)
    PROVE  LET g == Translated(a, s, map)
           IN /\ Rewrites(d, a, g)
              /\ \A id \in NodeIds(s) : CopyOf(NodeAt(g, map[id]), NodeAt(s, id), map)
  <1> DEFINE r == InNodeIdOrder(s.nodes)
             n == Len(s.nodes)
             k == [op |-> "translate", source |-> s, map |-> map]
             Done(g, i) == CopyOf(NodeAt(g, map[r[i].id]), NodeAt(s, r[i].id), map)
             Good(i, g) == Rewrites(d, a, g) /\ \A j \in 1..i : Done(g, j)
  <1>1. /\ DOMAIN r = 1..n /\ n \in Nat
        /\ \A i \in DOMAIN r : /\ r[i] \in Node /\ r[i].id \in NodeIds(s)
                               /\ r[i].id \in NodeId /\ NodeAt(s, r[i].id) = r[i]
        /\ \A i, j \in DOMAIN r : r[i].id = r[j].id => i = j
        /\ \A id \in NodeIds(s) : \E i \in DOMAIN r : r[i].id = id
    BY NodesAreListed
  <1>2. Translated(a, s, map) = Folded(k, a, r)
    BY TranslatedIsFolded
  <1> HIDE DEF r, n
  <1>3. PICK h : Visits(k, a, r, n, h) /\ Folded(k, a, r) = h[n]
    <2> HIDE DEF k
    <2> QED
      BY <1>1, FoldedVisits
  <1>4. Good(0, h[0])
    <2>1. h[0] = a /\ 1..0 = {}
      BY <1>3 DEF Visits
    <2> QED
      BY <2>1
  <1>5. ASSUME NEW i \in Nat, i < n, Good(i, h[i])
        PROVE  Good(i + 1, h[i + 1])
    <2> DEFINE id == r[i + 1].id
               g == h[i + 1]
    <2>1. /\ i + 1 \in 1..n /\ (i + 1) - 1 = i
          /\ \A j \in 1..i : j \in 1..n /\ j # i + 1
          /\ \A j \in 1..(i + 1) : j \in 1..i \/ j = i + 1
      BY <1>1, <1>5
    <2>2. g = SetNode(h[i], map[id], TranslatedNode(NodeAt(h[i], map[id]), NodeAt(s, id), map))
      <3>1. h[i + 1] = Step(k, h[i], r[i + 1])
        BY <1>3, <2>1 DEF Visits
      <3> QED
        BY <3>1 DEF Step
    <2>3. id \in NodeIds(s)
      BY <1>1, <2>1
    <2> HIDE DEF id, g
    <2>4. /\ Rewrites(d, a, g)
          /\ CopyOf(NodeAt(g, map[id]), NodeAt(s, id), map)
          /\ \A x \in NodeIds(s) : x # id => NodeAt(g, map[x]) = NodeAt(h[i], map[x])
      BY <1>5, <2>2, <2>3, TranslateOne
    <2>5. ASSUME NEW j \in 1..(i + 1)
          PROVE  Done(g, j)
      <3>1. CASE j = i + 1
        BY <2>4, <3>1 DEF id
      <3>2. CASE j \in 1..i
        <4>1. r[j].id \in NodeIds(s) /\ r[j].id # id
          BY <1>1, <2>1, <3>2 DEF id
        <4>2. Done(h[i], j)
          BY <1>5, <3>2
        <4> QED
          BY <2>4, <4>1, <4>2
      <3> QED
        BY <2>1, <3>1, <3>2
    <2> QED
      BY <2>4, <2>5 DEF g
  <1> HIDE DEF Good
  <1>6. Good(n, h[n])
    <2> DEFINE G == {i \in Nat : Good(i, h[i])}
    <2>1. 0 \in G /\ \A i \in Nat : i < n /\ i \in G => i + 1 \in G
      BY <1>4, <1>5
    <2> HIDE DEF G
    <2>2. n \in G
      BY <1>1, <2>1, UpTo
    <2> QED
      BY <2>2 DEF G
  <1> DEFINE all == Translated(a, s, map)
  <1>7. all = h[n]
    BY <1>2, <1>3
  <1> HIDE DEF all
  <1>8. Rewrites(d, a, all) /\ \A i \in 1..n : Done(all, i)
    BY <1>6, <1>7 DEF Good
  <1>9. \A id \in NodeIds(s) : CopyOf(NodeAt(all, map[id]), NodeAt(s, id), map)
    BY <1>1, <1>8
  <1> QED
    BY <1>8, <1>9 DEF all

(* Copies without edges leave the graph whole.                             *)
LEMMA TranslatedWhole ==
    ASSUME NEW d, Whole(d), NEW s, NEW map, NEW a, Remaps(d, s, map, a),
           a.edges = d.edges, \A p \in DOMAIN d.nodes : a.nodes[p] = d.nodes[p],
           NEW g, Rewrites(d, a, g),
           \A id \in NodeIds(s) : CopyOf(NodeAt(g, map[id]), NodeAt(s, id), map)
    PROVE  /\ Whole(g)
           /\ \A id \in NodeIds(s) : AstInto(g, g.node_index_map[map[id]]) = {}
  <1>0. Coherent(d) /\ TypedStore(d) /\ \A i \in DOMAIN d.nodes : TreeAt(d, i, d.nodes[i])
    BY DEF Whole
  <1>1. Coherent(g) /\ TypedStore(g) /\ g.edges = d.edges
    BY DEF Rewrites
  <1>2. \A i : /\ AstInto(g, i) = AstInto(d, i) /\ AstRow(g, i) = AstRow(d, i)
               /\ AstOutOf(g, i) = AstOutOf(d, i)
               /\ LowestAstSource(g, i) = LowestAstSource(d, i)
    BY <1>1, RowsFollowEdges
  <1>3. \A i : i \notin DOMAIN d.nodes => AstInto(d, i) = {} /\ AstOutOf(d, i) = {}
    <2>1. \A k \in DOMAIN d.edges : /\ d.edges[k].from \in DOMAIN d.nodes
                                    /\ d.edges[k].to \in DOMAIN d.nodes
      BY <1>0, StoreFacts
    <2> QED
      BY <2>1 DEF AstInto, AstOutOf
  <1>4. \A i : i \notin DOMAIN d.nodes => AstRow(d, i) = <<>>
    BY <1>0, <1>3, RowsAreTyped
  <1>5. \A id \in NodeIds(s) : g.node_index_map[map[id]] \notin DOMAIN d.nodes
    BY DEF Remaps, Rewrites
  <1>6. ASSUME NEW i \in DOMAIN g.nodes
        PROVE  TreeAt(g, i, g.nodes[i])
    <2>1. CASE i \in DOMAIN d.nodes
      <3>1. g.nodes[i] = d.nodes[i] /\ TreeAt(d, i, d.nodes[i])
        BY <1>0, <2>1 DEF Rewrites
      <3> QED
        BY <1>2, <3>1 DEF TreeAt
    <2>2. CASE i \notin DOMAIN d.nodes
      <3>1. PICK x \in NodeIds(s) : i = g.node_index_map[map[x]]
        BY <2>2 DEF Remaps, Rewrites
      <3>2. g.nodes[i].children = <<>>
        BY <3>1 DEF CopyOf, NodeAt
      <3> QED
        BY <1>2, <1>3, <1>4, <2>2, <3>2 DEF TreeAt
    <2> QED
      BY <2>1, <2>2
  <1> QED
    BY <1>1, <1>2, <1>3, <1>5, <1>6 DEF Whole

-------------------------------------------------------------------------------
(* merge_from: the edges *)

EdgesInOrder(s) == InIdOrder(s, DOMAIN s.edges)

(* The source edges in EdgeId order, each once.                            *)
LEMMA EdgesAreListed ==
    ASSUME NEW s, Coherent(s), TypedStore(s)
    PROVE  LET row == EdgesInOrder(s)
           IN /\ Lists(row, DOMAIN s.edges, ByEdgeId(s))
              /\ StrictOrder(DOMAIN s.edges, ByEdgeId(s))
              /\ DOMAIN row = 1..EdgeCount(s) /\ EdgeCount(s) \in Nat
              /\ \A j \in DOMAIN row : row[j] \in DOMAIN s.edges
              /\ \A k \in DOMAIN s.edges : \E j \in DOMAIN row : row[j] = k
              /\ \A i, j \in DOMAIN row : row[i] = row[j] => i = j
  <1> DEFINE S == DOMAIN s.edges
             R == ByEdgeId(s)
             row == EdgesInOrder(s)
  <1>1. IsFiniteSet(S) /\ S = 1..EdgeCount(s) /\ EdgeCount(s) \in Nat
    BY StoreFacts DEF EdgeCount
  <1>2. Cardinality(S) = EdgeCount(s)
    <2>1. 1 \in Int /\ EdgeCount(s) \in Int
      BY <1>1
    <2>2. Cardinality(1..EdgeCount(s)) = IF 1 > EdgeCount(s) THEN 0 ELSE EdgeCount(s) - 1 + 1
      BY <2>1, FS_Interval
    <2> QED
      BY <1>1, <2>2
  <1>3. StrictOrder(S, R)
    BY IdsOrderEdges
  <1>4. row = Sorted(S, R)
    BY DEF EdgesInOrder, InIdOrder
  <1> HIDE DEF S, R, row
  <1>5. Lists(row, S, R) /\ Len(row) = Cardinality(S)
    BY <1>1, <1>3, <1>4, SortedLists
  <1>6. DOMAIN row = 1..Len(row) /\ \A i, j \in DOMAIN row : row[i] = row[j] => i = j
    BY <1>3, <1>5, ListingIsBijective
  <1>7. \A j \in DOMAIN row : row[j] \in S
    BY <1>5, <1>6 DEF Lists
  <1>8. \A k \in S : \E j \in DOMAIN row : row[j] = k
    BY <1>5 DEF Lists
  <1> QED
    BY <1>1, <1>2, <1>3, <1>5, <1>6, <1>7, <1>8 DEF S, R, row

\* e is the copy of o under the identifier id.
CopiedEdge(e, o, map, id) ==
    e.id = id /\ e.source = map[o.source] /\ e.target = map[o.target] /\ e.kind = o.kind

\* g has the copies of the first i listed edges of s, in the listed order.
Linked(t, s, map, i, g) ==
    /\ Whole(g) /\ g.node_index_map = t.node_index_map /\ DOMAIN g.nodes = DOMAIN t.nodes
    /\ EdgeCount(g) = EdgeCount(t) + i
    /\ \A k \in DOMAIN t.edges : k \in DOMAIN g.edges /\ g.edges[k] = t.edges[k]
    /\ \A j \in 1..i : CopiedEdge(g.edges[EdgeCount(t) + j], s.edges[EdgesInOrder(s)[j]], map,
                                  t.next_edge_id + j - 1)
    /\ g.next_edge_id = t.next_edge_id + i
    /\ g.root = t.root /\ g.cfg_entries = t.cfg_entries /\ g.cfg_exits = t.cfg_exits
    /\ \A p \in DOMAIN t.nodes :
          /\ g.nodes[p].refs = t.nodes[p].refs
          /\ AstInto(g, p) = {} => g.nodes[p].parent = t.nodes[p].parent

(* Copying one edge.                                                       *)
LEMMA LinkOne ==
    ASSUME NEW s, Coherent(s), TypedStore(s), NEW t, Whole(t), NEW map,
           DOMAIN map = NodeIds(s),
           \A id \in NodeIds(s) : map[id] \in NodeIds(t) /\ map[id] \in NodeId,
           NEW i \in Nat, i < EdgeCount(s), t.next_edge_id + i < MaxId,
           NEW g, Linked(t, s, map, i, g)
    PROVE  Linked(t, s, map, i + 1, CopyEdge(g, s.edges[EdgesInOrder(s)[i + 1]], map))
  <1> DEFINE k == EdgesInOrder(s)[i + 1]
             o == s.edges[k]
             e == [id |-> 0, kind |-> o.kind, source |-> map[o.source], target |-> map[o.target]]
             h == CopyEdge(g, o, map)
             n == EdgeCount(g) + 1
  <1>1. /\ k \in DOMAIN s.edges /\ o \in Edge /\ o.source \in NodeIds(s) /\ o.target \in NodeIds(s)
    <2>1. k \in DOMAIN s.edges
      <3>1. /\ DOMAIN EdgesInOrder(s) = 1..EdgeCount(s) /\ EdgeCount(s) \in Nat
            /\ \A j \in DOMAIN EdgesInOrder(s) : EdgesInOrder(s)[j] \in DOMAIN s.edges
        BY EdgesAreListed
      <3>2. i + 1 \in 1..EdgeCount(s)
        BY <3>1
      <3> QED
        BY <3>1, <3>2
    <2> HIDE DEF k
    <2> QED
      BY <2>1, StoreFacts DEF Coherent, EndpointsStored, HasEndpoints
  <1> HIDE DEF k
  <1>2. /\ Whole(g) /\ Coherent(g) /\ TypedStore(g) /\ NodeIds(g) = NodeIds(t)
        /\ EdgeCount(g) = EdgeCount(t) + i /\ g.next_edge_id = t.next_edge_id + i
        /\ EdgeCount(t) \in Nat /\ t.next_edge_id \in Nat
        /\ DOMAIN g.nodes = DOMAIN t.nodes
    <2>1. EdgeCount(t) \in Nat /\ t.next_edge_id \in Nat
      BY StoreFacts, MaxIdAssumption DEF Whole, Coherent, HasCounters, EdgeId, EdgeCount
    <2> QED
      BY <2>1 DEF Linked, Whole, NodeIds
  <1> HIDE DEF o
  <1>3. e \in EdgeRequest /\ HasEndpoints(g, e)
    <2>1. o.kind \in Kinds /\ 0 \in EdgeId
      BY <1>1, MaxIdAssumption DEF Edge, EdgeId
    <2> QED
      BY <1>1, <1>2, <2>1 DEF EdgeRequest, HasEndpoints
  <1>4. h = AddEdge(g, e)
    BY <1>1 DEF CopyEdge
  <1>5. /\ e.kind = o.kind /\ e.source = map[o.source] /\ e.target = map[o.target]
    OBVIOUS
  <1> HIDE DEF e, h
  <1>6. /\ Whole(h) /\ h.node_index_map = g.node_index_map
        /\ DOMAIN h.nodes = DOMAIN g.nodes
        /\ n \notin DOMAIN g.edges /\ DOMAIN h.edges = DOMAIN g.edges \cup {n}
        /\ EdgeCount(h) = n
        /\ \A j \in DOMAIN g.edges : h.edges[j] = g.edges[j]
        /\ h.edges[n].id = g.next_edge_id /\ h.edges[n].kind = e.kind
        /\ h.edges[n].source = e.source /\ h.edges[n].target = e.target
        /\ h.next_edge_id = g.next_edge_id + 1
        /\ h.root = g.root
        /\ h.cfg_entries = g.cfg_entries /\ h.cfg_exits = g.cfg_exits
        /\ \A p \in DOMAIN g.nodes :
              /\ h.nodes[p].refs = g.nodes[p].refs
              /\ AstInto(h, p) = {} => h.nodes[p].parent = g.nodes[p].parent
    <2>1. g.next_edge_id < MaxId
      BY <1>2
    <2>2. LET more == AddEdge(g, e)
              last == Len(g.edges) + 1
          IN /\ Whole(more) /\ more.node_index_map = g.node_index_map
             /\ DOMAIN more.nodes = DOMAIN g.nodes
             /\ last \notin DOMAIN g.edges /\ DOMAIN more.edges = DOMAIN g.edges \cup {last}
             /\ Len(more.edges) = last
             /\ \A old \in DOMAIN g.edges : more.edges[old] = g.edges[old]
             /\ more.edges[last].id = g.next_edge_id /\ more.edges[last].kind = e.kind
             /\ more.edges[last].source = e.source /\ more.edges[last].target = e.target
             /\ more.next_edge_id = g.next_edge_id + 1
             /\ more.root = g.root
             /\ more.cfg_entries = g.cfg_entries /\ more.cfg_exits = g.cfg_exits
             /\ \A p \in DOMAIN g.nodes :
                   /\ more.nodes[p].refs = g.nodes[p].refs
                   /\ AstInto(more, p) = {} => more.nodes[p].parent = g.nodes[p].parent
      BY <1>2, <1>3, <2>1, AddEdgeFacts
    <2> QED
      BY <1>4, <2>2, Zenon DEF EdgeCount
  <1>7. EdgeCount(h) = EdgeCount(t) + (i + 1) /\ h.next_edge_id = t.next_edge_id + (i + 1)
    BY <1>2, <1>6
  <1>8. \A j \in DOMAIN t.edges : j \in DOMAIN h.edges /\ h.edges[j] = t.edges[j]
    BY <1>6 DEF Linked
  <1>9. ASSUME NEW j \in 1..(i + 1)
        PROVE  CopiedEdge(h.edges[EdgeCount(t) + j], s.edges[EdgesInOrder(s)[j]], map,
                          t.next_edge_id + j - 1)
    <2>1. CASE j = i + 1
      <3>1. EdgeCount(t) + j = n /\ t.next_edge_id + j - 1 = g.next_edge_id
        BY <1>2, <2>1
      <3>2. CopiedEdge(h.edges[n], o, map, g.next_edge_id)
        BY <1>5, <1>6 DEF CopiedEdge
      <3> QED
        BY <2>1, <3>1, <3>2 DEF o, k
    <2>2. CASE j \in 1..i
      <3>1. EdgeCount(t) + j \in DOMAIN g.edges
        <4>1. DOMAIN g.edges = 1..EdgeCount(g)
          BY <1>2, StoreFacts DEF EdgeCount
        <4> QED
          BY <1>2, <2>2, <4>1
      <3>2. h.edges[EdgeCount(t) + j] = g.edges[EdgeCount(t) + j]
        BY <1>6, <3>1
      <3>3. CopiedEdge(g.edges[EdgeCount(t) + j], s.edges[EdgesInOrder(s)[j]], map,
                       t.next_edge_id + j - 1)
        BY <2>2 DEF Linked
      <3> QED
        BY <3>2, <3>3
    <2> QED
      BY <2>1, <2>2
  <1>10. \A p : AstInto(h, p) = {} => AstInto(g, p) = {}
    BY <1>6 DEF AstInto
  <1>11. ASSUME NEW p \in DOMAIN t.nodes
         PROVE  /\ h.nodes[p].refs = t.nodes[p].refs
                /\ AstInto(h, p) = {} => h.nodes[p].parent = t.nodes[p].parent
    BY <1>2, <1>6, <1>10 DEF Linked
  <1>12. /\ h.node_index_map = t.node_index_map /\ DOMAIN h.nodes = DOMAIN t.nodes
         /\ h.root = t.root /\ h.cfg_entries = t.cfg_entries /\ h.cfg_exits = t.cfg_exits
    BY <1>6 DEF Linked
  <1>13. Linked(t, s, map, i + 1, h)
    BY <1>6, <1>7, <1>8, <1>9, <1>11, <1>12 DEF Linked
  <1> QED
    BY <1>13 DEF h, o, k

(* Every source edge is copied.                                            *)
LEMMA EdgesCopied ==
    ASSUME NEW s, Coherent(s), TypedStore(s), NEW t, Whole(t), NEW map,
           DOMAIN map = NodeIds(s),
           \A id \in NodeIds(s) : map[id] \in NodeIds(t) /\ map[id] \in NodeId,
           t.next_edge_id + EdgeCount(s) <= MaxId
    PROVE  Linked(t, s, map, EdgeCount(s), WithEdges(t, s, map))
  <1> DEFINE row == EdgesInOrder(s)
             n == EdgeCount(s)
             k == [op |-> "copy", source |-> s, map |-> map]
  <1>1. DOMAIN row = 1..n /\ n \in Nat
    BY EdgesAreListed
  <1>2. WithEdges(t, s, map) = Folded(k, t, row)
    BY CopiedIsFolded DEF EdgesInOrder
  <1>3. EdgeCount(t) \in Nat /\ t.next_edge_id \in Nat
    BY StoreFacts, MaxIdAssumption DEF Whole, Coherent, HasCounters, EdgeId, EdgeCount
  <1> HIDE DEF row, n
  <1>4. PICK h : Visits(k, t, row, n, h) /\ Folded(k, t, row) = h[n]
    <2> HIDE DEF k
    <2> QED
      BY <1>1, FoldedVisits
  <1>5. Linked(t, s, map, 0, h[0])
    <2>1. h[0] = t /\ 1..0 = {} /\ EdgeCount(t) = EdgeCount(t) + 0 /\ t.next_edge_id = t.next_edge_id + 0
      BY <1>3, <1>4 DEF Visits
    <2> QED
      BY <2>1, Zenon DEF Linked
  <1>6. ASSUME NEW i \in Nat, i < n, Linked(t, s, map, i, h[i])
        PROVE  Linked(t, s, map, i + 1, h[i + 1])
    <2>1. i + 1 \in 1..n /\ (i + 1) - 1 = i /\ i < EdgeCount(s) /\ t.next_edge_id + i < MaxId
      BY <1>1, <1>3, <1>6, MaxIdAssumption DEF n
    <2>2. h[i + 1] = CopyEdge(h[i], s.edges[EdgesInOrder(s)[i + 1]], map)
      <3>1. h[i + 1] = Step(k, h[i], row[i + 1])
        BY <1>4, <2>1 DEF Visits
      <3> QED
        BY <3>1 DEF Step, row
    <2>3. Linked(t, s, map, i + 1, CopyEdge(h[i], s.edges[EdgesInOrder(s)[i + 1]], map))
      BY <1>6, <2>1, LinkOne
    <2> QED
      BY <2>2, <2>3
  <1>7. Linked(t, s, map, n, h[n])
    <2> DEFINE G == {i \in Nat : Linked(t, s, map, i, h[i])}
    <2>1. 0 \in G /\ \A i \in Nat : i < n /\ i \in G => i + 1 \in G
      BY <1>5, <1>6
    <2> HIDE DEF G
    <2>2. n \in G
      BY <1>1, <2>1, UpTo
    <2> QED
      BY <2>2 DEF G
  <1> QED
    BY <1>2, <1>4, <1>7 DEF n

-------------------------------------------------------------------------------
(* merge_from: boundary lists and root *)

(* Entering identifiers one after the other enters them all.               *)
LEMMA PushedFacts ==
    ASSUME NEW list \in Seq(NodeId), NEW n \in Nat, NEW seq, DOMAIN seq = 1..n,
           \A i \in 1..n : seq[i] \in NodeId
    PROVE  LET l == FoldLeft(PushNew, list, seq)
           IN /\ l \in Seq(NodeId)
              /\ ToSet(l) = ToSet(list) \cup {seq[i] : i \in 1..n}
  <1> DEFINE k == [op |-> "push"]
             Good(i, l) == /\ l \in Seq(NodeId)
                           /\ ToSet(l) = ToSet(list) \cup {seq[j] : j \in 1..i}
  <1>1. FoldLeft(PushNew, list, seq) = Folded(k, list, seq)
    BY PushedIsFolded
  <1>2. PICK h : Visits(k, list, seq, n, h) /\ Folded(k, list, seq) = h[n]
    <2> HIDE DEF k
    <2> QED
      BY FoldedVisits
  <1>3. Good(0, h[0])
    <2>1. h[0] = list /\ 1..0 = {}
      BY <1>2 DEF Visits
    <2> QED
      BY <2>1
  <1>4. ASSUME NEW i \in Nat, i < n, Good(i, h[i])
        PROVE  Good(i + 1, h[i + 1])
    <2>1. /\ i + 1 \in 1..n /\ (i + 1) - 1 = i
          /\ \A j \in 1..(i + 1) : j \in 1..i \/ j = i + 1
          /\ \A j \in 1..i : j \in 1..(i + 1)
      BY <1>4
    <2>2. h[i + 1] = PushNew(h[i], seq[i + 1])
      <3>1. h[i + 1] = Step(k, h[i], seq[i + 1])
        BY <1>2, <2>1 DEF Visits
      <3> QED
        BY <3>1 DEF Step
    <2>3. {seq[j] : j \in 1..(i + 1)} = {seq[j] : j \in 1..i} \cup {seq[i + 1]}
      BY <2>1
    <2> DEFINE l == h[i]
               x == seq[i + 1]
    <2>4. l \in Seq(NodeId) /\ x \in NodeId
      BY <1>4, <2>1
    <2> HIDE DEF l, x
    <2>5. Append(l, x) \in Seq(NodeId) /\ ToSet(Append(l, x)) = ToSet(l) \cup {x}
      <3>1. /\ DOMAIN Append(l, x) = DOMAIN l \cup {Len(l) + 1}
            /\ \A j \in DOMAIN l : Append(l, x)[j] = l[j]
            /\ Append(l, x)[Len(l) + 1] = x
            /\ Len(l) + 1 \notin DOMAIN l
        BY <2>4, AppendFacts
      <3>2. Append(l, x) \in Seq(NodeId)
        BY <2>4
      <3> DEFINE m == Append(l, x)
      <3> HIDE DEF m
      <3>3. ToSet(m) = ToSet(l) \cup {x}
        BY <3>1, Zenon DEF ToSet, m
      <3> QED
        BY <3>2, <3>3 DEF m
    <2>6. PushNew(l, x) \in Seq(NodeId) /\ ToSet(PushNew(l, x)) = ToSet(l) \cup {x}
      BY <2>4, <2>5 DEF PushNew
    <2>7. Good(i + 1, PushNew(l, x))
      BY <1>4, <2>3, <2>6 DEF l, x
    <2> QED
      BY <2>2, <2>7 DEF l, x
  <1> HIDE DEF Good
  <1>5. Good(n, h[n])
    <2> DEFINE G == {i \in Nat : Good(i, h[i])}
    <2>1. 0 \in G /\ \A i \in Nat : i < n /\ i \in G => i + 1 \in G
      BY <1>3, <1>4
    <2> HIDE DEF G
    <2>2. n \in G
      BY <2>1, UpTo
    <2> QED
      BY <2>2 DEF G
  <1> QED
    BY <1>1, <1>2, <1>5 DEF Good

(* The values of a function on a finite set are finitely many.             *)
LEMMA ValuesAreFinite ==
    ASSUME NEW f, NEW S, IsFiniteSet(S)
    PROVE  IsFiniteSet({f[x] : x \in S})
  <1> DEFINE T == {f[x] : x \in S}
             h == [x \in S |-> f[x]]
  <1>1. h \in [S -> T] /\ \A y \in T : \E x \in S : h[x] = y
    OBVIOUS
  <1> HIDE DEF h, T
  <1>2. h \in Surjection(S, T)
    BY <1>1, Fun_IsSurj
  <1>3. IsFiniteSet(T)
    BY <1>2, FS_Surjection
  <1> QED
    BY <1>3 DEF T

(* The translated boundary nodes in order, each once.                      *)
LEMMA SortedImageFacts ==
    ASSUME NEW list \in Seq(NodeId), NEW map, \A id \in DOMAIN map : map[id] \in NodeId
    PROVE  LET q == SortedImage(list, map)
           IN /\ DOMAIN q = 1..Len(q) /\ Len(q) \in Nat
              /\ \A i \in DOMAIN q : q[i] \in NodeId
              /\ {q[i] : i \in DOMAIN q} = {map[id] : id \in ToSet(list) \cap DOMAIN map}
  <1> DEFINE S == {map[id] : id \in ToSet(list) \cap DOMAIN map}
             R == {p \in S \X S : p[1] < p[2]}
             q == Sorted(S, R)
  <1>1. SortedImage(list, map) = q
    BY DEF SortedImage, Ascending
  <1>2. S \subseteq NodeId /\ \A x \in S : x \in Int
    BY MaxIdAssumption DEF NodeId
  <1>3. IsFiniteSet(S)
    <2>1. IsFiniteSet(ToSet(list))
      <3>1. IsFiniteSet(DOMAIN list)
        <4>1. DOMAIN list = 1..Len(list) /\ Len(list) \in Nat
          OBVIOUS
        <4> QED
          BY <4>1, FS_Interval
      <3>2. IsFiniteSet({list[i] : i \in DOMAIN list})
        BY <3>1, ValuesAreFinite
      <3> QED
        BY <3>2 DEF ToSet
    <2>2. IsFiniteSet(ToSet(list) \cap DOMAIN map)
      BY <2>1, FS_Intersection
    <2> QED
      BY <2>2, ValuesAreFinite
  <1>4. \A a, b \in S : <<a, b>> \in R <=> a < b
    OBVIOUS
  <1> HIDE DEF S, R
  <1>5. StrictOrder(S, R)
    BY <1>2, <1>4 DEF StrictOrder
  <1>6. Lists(q, S, R)
    BY <1>3, <1>5, SortedLists
  <1> HIDE DEF q
  <1>7. DOMAIN q = 1..Len(q) /\ Len(q) \in Nat
    BY <1>6 DEF Lists
  <1>8. \A i \in DOMAIN q : q[i] \in S
    BY <1>6, <1>7 DEF Lists
  <1>9. \A x \in S : \E i \in DOMAIN q : q[i] = x
    BY <1>6 DEF Lists
  <1>10. {q[i] : i \in DOMAIN q} = S
    BY <1>8, <1>9
  <1> QED
    BY <1>1, <1>2, <1>7, <1>8, <1>10 DEF S

(* Boundary lists and root concern no node and no edge.                    *)
LEMMA MetadataWhole ==
    ASSUME NEW g, Whole(g), NEW h, HasShape(h),
           h.nodes = g.nodes, h.node_index_map = g.node_index_map, h.edges = g.edges,
           h.next_node_id = g.next_node_id, h.next_edge_id = g.next_edge_id,
           h.root \in NodeId \cup {None},
           h.cfg_entries \in Seq(NodeId), h.cfg_exits \in Seq(NodeId)
    PROVE  Whole(h)
  <1>0. Coherent(g) /\ TypedStore(g) /\ \A i \in DOMAIN g.nodes : TreeAt(g, i, g.nodes[i])
    BY DEF Whole
  <1>1. TypedStore(h)
    BY <1>0 DEF TypedStore
  <1>2. NodeIds(h) = NodeIds(g) /\ \A id : NodeAt(h, id) = NodeAt(g, id)
    BY DEF NodeIds, NodeAt
  <1>3. HasVectors(h) /\ HasCounters(h)
    BY <1>0 DEF Coherent, HasVectors, HasCounters
  <1>4. NodesIndexed(h) /\ NodeCounterAhead(h)
    BY <1>0, <1>2, Zenon DEF Coherent, NodesIndexed, NodeCounterAhead
  <1>5. EdgeCounterAhead(h) /\ EdgesNumbered(h)
    BY <1>0, Zenon DEF Coherent, EdgeCounterAhead, EdgesNumbered
  <1>6. EndpointsStored(h)
    <2>1. \A e : HasEndpoints(h, e) <=> HasEndpoints(g, e)
      BY <1>2 DEF HasEndpoints
    <2> QED
      BY <1>0, <2>1, Zenon DEF Coherent, EndpointsStored
  <1>7. Coherent(h)
    BY <1>3, <1>4, <1>5, <1>6 DEF Coherent
  <1>8. \A i : /\ AstInto(h, i) = AstInto(g, i) /\ AstRow(h, i) = AstRow(g, i)
               /\ LowestAstSource(h, i) = LowestAstSource(g, i)
    BY RowsFollowEdges
  <1>9. \A i \in DOMAIN h.nodes : TreeAt(h, i, h.nodes[i])
    BY <1>0, <1>8 DEF TreeAt
  <1> QED
    BY <1>1, <1>7, <1>9 DEF Whole

-------------------------------------------------------------------------------
(* merge_from as a whole *)

\* g is d with a copy of s under map appended.
Merges(d, s, g, map) ==
    /\ Whole(g) /\ Remaps(d, s, map, g)
    /\ \A id \in NodeIds(d) : id \in NodeIds(g) /\ g.node_index_map[id] = d.node_index_map[id]
    /\ \A p \in DOMAIN d.nodes :
          /\ p \in DOMAIN g.nodes /\ g.nodes[p].refs = d.nodes[p].refs
          /\ AstInto(g, p) = {} => g.nodes[p].parent = d.nodes[p].parent
    /\ EdgeCount(g) = EdgeCount(d) + EdgeCount(s)
    /\ \A k \in DOMAIN d.edges : k \in DOMAIN g.edges /\ g.edges[k] = d.edges[k]
    /\ \A j \in 1..EdgeCount(s) :
          CopiedEdge(g.edges[EdgeCount(d) + j], s.edges[EdgesInOrder(s)[j]], map,
                     d.next_edge_id + j - 1)
    /\ \A id \in NodeIds(s) :
          /\ NodeAt(g, map[id]).refs = {map[x] : x \in NodeAt(s, id).refs \cap DOMAIN map}
          /\ AstInto(g, g.node_index_map[map[id]]) = {} =>
                NodeAt(g, map[id]).parent = Translate(map, NodeAt(s, id).parent)
    /\ ToSet(g.cfg_exits) =
          ToSet(d.cfg_exits) \cup {map[id] : id \in ToSet(s.cfg_exits) \cap DOMAIN map}
    /\ g.root = IF d.nodes = <<>> /\ s.root \in DOMAIN map THEN map[s.root]
                ELSE IF d.root # None \/ NodeCount(s) = 0 THEN d.root ELSE d.next_node_id

(* The five stages of merge_from add up.                                   *)
LEMMA MergeMerges ==
    ASSUME NEW d, Whole(d), NEW s, Whole(s), Fits(d, s)
    PROVE  LET m == MergeFrom(d, s) IN Merges(d, s, m.graph, m.remap)
  <1> DEFINE a == Appended(d, s).graph
             map == Appended(d, s).remap
             t == Translated(a, s, map)
             w == WithEdges(t, s, map)
             b == WithBoundary(w, s, map)
             g == MergeFrom(d, s).graph
             base == IF d.root # None \/ NodeCount(s) = 0 THEN d.root ELSE d.next_node_id
  <1>0. Coherent(d) /\ TypedStore(d) /\ Coherent(s) /\ TypedStore(s)
    BY DEF Whole
  <1>1. /\ Longer(d, NodeCount(s), a)
        /\ MapsFirst(d, InNodeIdOrder(s.nodes), NodeCount(s), map)
    BY <1>0, NodesAppended
  <1>2. /\ g = IF d.nodes = <<>> /\ s.root \in DOMAIN map THEN [b EXCEPT !.root = map[s.root]]
               ELSE b
        /\ MergeFrom(d, s).remap = map
    BY DEF MergeFrom
  <1> HIDE DEF a, map
  <1>3. Remaps(d, s, map, a)
    BY <1>0, <1>1, AppendedRemaps
  <1>4. /\ Rewrites(d, a, a) /\ a.edges = d.edges /\ a.next_edge_id = d.next_edge_id
        /\ \A p \in DOMAIN d.nodes : a.nodes[p] = d.nodes[p]
        /\ \A id \in NodeIds(d) : id \in NodeIds(a) /\ a.node_index_map[id] = d.node_index_map[id]
        /\ a.cfg_entries = d.cfg_entries /\ a.cfg_exits = d.cfg_exits
        /\ a.root = base
    BY <1>1 DEF Longer, Rewrites
  <1>5. Rewrites(d, a, t) /\ \A id \in NodeIds(s) : CopyOf(NodeAt(t, map[id]), NodeAt(s, id), map)
    BY <1>0, <1>3, <1>4, NodesTranslated
  <1> HIDE DEF t
  <1>6. /\ Whole(t) /\ \A id \in NodeIds(s) : AstInto(t, t.node_index_map[map[id]]) = {}
    BY <1>3, <1>4, <1>5, TranslatedWhole
  <1>7. /\ t.node_index_map = a.node_index_map /\ NodeIds(t) = NodeIds(a)
        /\ DOMAIN t.nodes = DOMAIN a.nodes
        /\ t.edges = d.edges /\ t.next_edge_id = d.next_edge_id /\ EdgeCount(t) = EdgeCount(d)
        /\ t.cfg_entries = d.cfg_entries /\ t.cfg_exits = d.cfg_exits /\ t.root = base
        /\ \A p \in DOMAIN d.nodes : p \in DOMAIN t.nodes /\ t.nodes[p] = d.nodes[p]
    BY <1>4, <1>5 DEF Rewrites, NodeIds, EdgeCount
  <1>8. /\ DOMAIN map = NodeIds(s)
        /\ \A id \in NodeIds(s) : map[id] \in NodeIds(t) /\ map[id] \in NodeId
    BY <1>3, <1>7 DEF Remaps
  <1>9. Linked(t, s, map, EdgeCount(s), w)
    <2>1. t.next_edge_id + EdgeCount(s) <= MaxId
      BY <1>7 DEF Fits, EdgeCount
    <2> QED
      BY <1>0, <1>6, <1>8, <2>1, EdgesCopied
  <1> HIDE DEF w, base
  <1>10. /\ Whole(w) /\ w.node_index_map = a.node_index_map /\ DOMAIN w.nodes = DOMAIN a.nodes
         /\ EdgeCount(w) = EdgeCount(d) + EdgeCount(s)
         /\ \A k \in DOMAIN d.edges : k \in DOMAIN w.edges /\ w.edges[k] = d.edges[k]
         /\ \A j \in 1..EdgeCount(s) :
               CopiedEdge(w.edges[EdgeCount(d) + j], s.edges[EdgesInOrder(s)[j]], map,
                          d.next_edge_id + j - 1)
         /\ w.root = base /\ w.cfg_entries = d.cfg_entries /\ w.cfg_exits = d.cfg_exits
         /\ \A p \in DOMAIN t.nodes :
               /\ w.nodes[p].refs = t.nodes[p].refs
               /\ AstInto(w, p) = {} => w.nodes[p].parent = t.nodes[p].parent
    BY <1>7, <1>9 DEF Linked
  <1>11. ASSUME NEW id \in NodeIds(s)
         PROVE  /\ NodeAt(w, map[id]).refs = {map[x] : x \in NodeAt(s, id).refs \cap DOMAIN map}
                /\ AstInto(w, w.node_index_map[map[id]]) = {} =>
                      NodeAt(w, map[id]).parent = Translate(map, NodeAt(s, id).parent)
    <2> DEFINE p == w.node_index_map[map[id]]
    <2>1. p = t.node_index_map[map[id]] /\ p \in DOMAIN t.nodes
      <3>1. t.node_index_map[map[id]] \in DOMAIN t.nodes
        BY <1>6, <1>8, StoreFacts DEF Whole
      <3> QED
        BY <1>7, <1>10, <3>1
    <2>2. CopyOf(t.nodes[p], NodeAt(s, id), map)
      BY <1>5, <2>1 DEF NodeAt
    <2> HIDE DEF p
    <2>3. /\ w.nodes[p].refs = {map[x] : x \in NodeAt(s, id).refs \cap DOMAIN map}
          /\ AstInto(w, p) = {} => w.nodes[p].parent = Translate(map, NodeAt(s, id).parent)
      BY <1>10, <2>1, <2>2 DEF CopyOf
    <2> QED
      BY <2>3 DEF p, NodeAt
  <1> DEFINE entries == FoldLeft(PushNew, w.cfg_entries, SortedImage(s.cfg_entries, map))
             exits == FoldLeft(PushNew, w.cfg_exits, SortedImage(s.cfg_exits, map))
  <1>12. /\ entries \in Seq(NodeId) /\ exits \in Seq(NodeId)
         /\ ToSet(exits) =
               ToSet(d.cfg_exits) \cup {map[id] : id \in ToSet(s.cfg_exits) \cap DOMAIN map}
    <2>1. ASSUME NEW list \in Seq(NodeId), NEW from \in Seq(NodeId)
          PROVE  LET l == FoldLeft(PushNew, list, SortedImage(from, map))
                 IN /\ l \in Seq(NodeId)
                    /\ ToSet(l) = ToSet(list) \cup {map[id] : id \in ToSet(from) \cap DOMAIN map}
      <3> DEFINE q == SortedImage(from, map)
                 l == FoldLeft(PushNew, list, q)
      <3>1. /\ DOMAIN q = 1..Len(q) /\ Len(q) \in Nat
            /\ \A i \in DOMAIN q : q[i] \in NodeId
            /\ {q[i] : i \in DOMAIN q} = {map[id] : id \in ToSet(from) \cap DOMAIN map}
        BY <1>8, SortedImageFacts
      <3> HIDE DEF q
      <3>2. l \in Seq(NodeId) /\ ToSet(l) = ToSet(list) \cup {q[i] : i \in 1..Len(q)}
        BY <3>1, PushedFacts
      <3> HIDE DEF l
      <3>3. l \in Seq(NodeId)
            /\ ToSet(l) = ToSet(list) \cup {map[id] : id \in ToSet(from) \cap DOMAIN map}
        BY <3>1, <3>2
      <3> QED
        BY <3>3 DEF l, q
    <2>2. /\ w.cfg_entries \in Seq(NodeId) /\ w.cfg_exits \in Seq(NodeId)
          /\ s.cfg_entries \in Seq(NodeId) /\ s.cfg_exits \in Seq(NodeId)
          /\ w.cfg_exits = d.cfg_exits
      BY <1>0, <1>10 DEF Whole, TypedStore
    <2> QED
      BY <2>1, <2>2, Zenon
  <1>13. b = [w EXCEPT !.cfg_entries = entries, !.cfg_exits = exits]
    BY DEF WithBoundary
  <1> HIDE DEF entries, exits, b, g
  <1>14. HasShape(w)
    BY <1>10 DEF Whole, Coherent
  <1>15. /\ HasShape(b) /\ b.nodes = w.nodes /\ b.node_index_map = w.node_index_map
         /\ b.edges = w.edges /\ b.root = w.root
         /\ b.next_node_id = w.next_node_id /\ b.next_edge_id = w.next_edge_id
         /\ b.cfg_entries = entries /\ b.cfg_exits = exits
    BY <1>13, <1>14 DEF HasShape
  <1>16. /\ HasShape(g) /\ g.nodes = w.nodes /\ g.node_index_map = w.node_index_map
         /\ g.edges = w.edges
         /\ g.next_node_id = w.next_node_id /\ g.next_edge_id = w.next_edge_id
         /\ g.cfg_entries = entries /\ g.cfg_exits = exits
         /\ g.root = IF d.nodes = <<>> /\ s.root \in DOMAIN map THEN map[s.root] ELSE base
    BY <1>2, <1>10, <1>15 DEF HasShape
  <1>17. Whole(g)
    <2>1. w.root \in NodeId \cup {None}
      BY <1>10 DEF Whole, TypedStore
    <2>2. g.root \in NodeId \cup {None}
      BY <1>8, <1>10, <1>16, <2>1
    <2> QED
      BY <1>10, <1>12, <1>16, <2>2, MetadataWhole
  <1>18. \A id : NodeAt(g, id) = NodeAt(w, id)
    BY <1>16 DEF NodeAt
  <1>19. \A p : AstInto(g, p) = AstInto(w, p)
    BY <1>16 DEF AstInto
  <1>20. Remaps(d, s, map, g)
    <2>1. NodeIds(g) = NodeIds(a) /\ g.node_index_map = a.node_index_map /\ DOMAIN g.nodes = DOMAIN a.nodes
      BY <1>10, <1>16 DEF NodeIds
    <2> QED
      BY <1>3, <2>1 DEF Remaps
  <1>21. Merges(d, s, g, map)
    <2>1. EdgeCount(g) = EdgeCount(w)
      BY <1>16 DEF EdgeCount
    <2>2. /\ EdgeCount(g) = EdgeCount(d) + EdgeCount(s)
          /\ \A k \in DOMAIN d.edges : k \in DOMAIN g.edges /\ g.edges[k] = d.edges[k]
          /\ \A j \in 1..EdgeCount(s) :
                CopiedEdge(g.edges[EdgeCount(d) + j], s.edges[EdgesInOrder(s)[j]], map,
                           d.next_edge_id + j - 1)
      BY <1>10, <1>16, <2>1
    <2>3. \A id \in NodeIds(s) :
             /\ NodeAt(g, map[id]).refs = {map[x] : x \in NodeAt(s, id).refs \cap DOMAIN map}
             /\ AstInto(g, g.node_index_map[map[id]]) = {} =>
                   NodeAt(g, map[id]).parent = Translate(map, NodeAt(s, id).parent)
      BY <1>11, <1>16, <1>18, <1>19
    <2>4. /\ ToSet(g.cfg_exits) =
                ToSet(d.cfg_exits) \cup {map[id] : id \in ToSet(s.cfg_exits) \cap DOMAIN map}
          /\ g.root = IF d.nodes = <<>> /\ s.root \in DOMAIN map THEN map[s.root]
                      ELSE IF d.root # None \/ NodeCount(s) = 0 THEN d.root
                      ELSE d.next_node_id
      BY <1>12, <1>16 DEF base
    <2>5. \A id \in NodeIds(d) : id \in NodeIds(g) /\ g.node_index_map[id] = d.node_index_map[id]
      BY <1>4, <1>10, <1>16 DEF NodeIds
    <2>6. \A p \in DOMAIN d.nodes :
             /\ p \in DOMAIN g.nodes /\ g.nodes[p].refs = d.nodes[p].refs
             /\ AstInto(g, p) = {} => g.nodes[p].parent = d.nodes[p].parent
      BY <1>7, <1>10, <1>16, <1>19
    <2> QED
      BY <1>17, <1>20, <2>2, <2>3, <2>4, <2>5, <2>6, Zenon DEF Merges
  <1> QED
    BY <1>2, <1>21 DEF g

-------------------------------------------------------------------------------
(* merge_from: the tree of the copy *)

(* The AST edges at a node, by its identifier.                             *)
LEMMA AstEdgesById ==
    ASSUME NEW g, Coherent(g), NEW id \in NodeIds(g), NEW k
    PROVE  /\ k \in AstInto(g, g.node_index_map[id]) <=>
                 k \in DOMAIN g.edges /\ g.edges[k].kind = AstChild /\ g.edges[k].target = id
           /\ k \in AstOutOf(g, g.node_index_map[id]) <=>
                 k \in DOMAIN g.edges /\ g.edges[k].kind = AstChild /\ g.edges[k].source = id
  <1>1. \A x, y \in NodeIds(g) : g.node_index_map[x] = g.node_index_map[y] => x = y
    BY DEF Coherent, NodesIndexed, NodeAt
  <1>2. \A j \in DOMAIN g.edges :
            /\ g.edges[j].source \in NodeIds(g) /\ g.edges[j].target \in NodeIds(g)
            /\ g.node_index_map[g.edges[j].source] = g.edges[j].from
            /\ g.node_index_map[g.edges[j].target] = g.edges[j].to
    BY DEF Coherent, EndpointsStored, HasEndpoints
  <1> QED
    BY <1>1, <1>2 DEF AstInto, AstOutOf

(* A node of the destination keeps its AST edges.                          *)
LEMMA KeptAstEdges ==
    ASSUME NEW d, Whole(d), NEW s, Whole(s), NEW g, NEW map, Merges(d, s, g, map),
           NEW p \in DOMAIN d.nodes
    PROVE  AstInto(g, p) = AstInto(d, p) /\ AstOutOf(g, p) = AstOutOf(d, p)
  <1> DEFINE row == EdgesInOrder(s)
             n == EdgeCount(s)
             m == EdgeCount(d)
  <1>0. /\ Coherent(d) /\ TypedStore(d) /\ Coherent(s) /\ TypedStore(s)
        /\ Coherent(g) /\ TypedStore(g)
    BY DEF Whole, Merges
  <1>1. /\ n \in Nat /\ m \in Nat /\ DOMAIN d.edges = 1..m /\ DOMAIN g.edges = 1..(m + n)
    <2>1. EdgeCount(g) = m + n
      BY DEF Merges
    <2> QED
      BY <1>0, <2>1, StoreFacts DEF EdgeCount
  <1>2. \A j \in 1..n : row[j] \in DOMAIN s.edges
    BY <1>0, EdgesAreListed
  <1>3. \A k \in DOMAIN d.edges : k \in DOMAIN g.edges /\ g.edges[k] = d.edges[k]
    BY DEF Merges
  <1>4. \A id \in NodeIds(s) : g.node_index_map[map[id]] \notin DOMAIN d.nodes
    BY DEF Merges, Remaps
  <1>5. \A j \in 1..n : /\ g.edges[m + j].source = map[s.edges[row[j]].source]
                        /\ g.edges[m + j].target = map[s.edges[row[j]].target]
    BY DEF Merges, CopiedEdge
  <1>6. \A j \in DOMAIN s.edges : s.edges[j].source \in NodeIds(s) /\ s.edges[j].target \in NodeIds(s)
    BY <1>0 DEF Coherent, EndpointsStored, HasEndpoints
  <1>7. \A j \in DOMAIN g.edges : /\ g.node_index_map[g.edges[j].source] = g.edges[j].from
                                  /\ g.node_index_map[g.edges[j].target] = g.edges[j].to
    BY <1>0 DEF Coherent, EndpointsStored, HasEndpoints
  <1> HIDE DEF row, n, m
  <1>8. ASSUME NEW k \in DOMAIN g.edges, k \notin DOMAIN d.edges
        PROVE  g.edges[k].from # p /\ g.edges[k].to # p
    <2>1. k - m \in 1..n /\ m + (k - m) = k
      BY <1>1, <1>8
    <2> DEFINE o == s.edges[row[k - m]]
    <2>2. o.source \in NodeIds(s) /\ o.target \in NodeIds(s)
      BY <1>2, <1>6, <2>1
    <2>3. g.edges[k].source = map[o.source] /\ g.edges[k].target = map[o.target]
      BY <1>5, <2>1
    <2> HIDE DEF o
    <2> QED
      BY <1>4, <1>7, <1>8, <2>2, <2>3
  <1> QED
    BY <1>3, <1>8 DEF AstInto, AstOutOf

(* A merge rewrites no node of the destination: what its tree metadata is  *)
(* read off is what it was.                                                *)
LEMMA DestinationKept ==
    ASSUME NEW d, Whole(d), NEW s, Whole(s), NEW g, NEW map, Merges(d, s, g, map),
           NEW p \in DOMAIN d.nodes
    PROVE  g.nodes[p] = d.nodes[p]
  <1>0. /\ Coherent(d) /\ TypedStore(d) /\ Coherent(g) /\ TypedStore(g)
        /\ TreeAt(d, p, d.nodes[p])
        /\ p \in DOMAIN g.nodes /\ TreeAt(g, p, g.nodes[p])
    BY DEF Whole, Merges
  <1>1. AstInto(g, p) = AstInto(d, p) /\ AstOutOf(g, p) = AstOutOf(d, p)
    BY KeptAstEdges
  <1>2. \A k \in DOMAIN d.edges : k \in DOMAIN g.edges /\ g.edges[k] = d.edges[k]
    BY DEF Merges
  <1>3. g.nodes[p].children = d.nodes[p].children
    <2> DEFINE S == AstOutOf(d, p)
               r == InIdOrder(d, S)
    <2>1. S \in SUBSET DOMAIN d.edges
      BY DEF AstOutOf
    <2>2. \A a, b \in S : <<a, b>> \in ByEdgeId(g) <=> <<a, b>> \in ByEdgeId(d)
      BY <1>2, <2>1 DEF ByEdgeId
    <2> HIDE DEF S
    <2>3. InIdOrder(g, S) = r
      BY <2>2, SortedAlike DEF InIdOrder
    <2>4. Lists(r, S, ByEdgeId(d))
      BY <1>0, <2>1, StoreFacts, FS_Subset, IdsOrderEdges, SortedLists DEF InIdOrder
    <2>5. AstRow(g, p) = [i \in 1..Len(r) |-> g.edges[r[i]].target]
      BY <1>1, <2>3 DEF AstRow, S
    <2>6. AstRow(d, p) = [i \in 1..Len(r) |-> d.edges[r[i]].target]
      BY DEF AstRow, S
    <2> HIDE DEF r
    <2>7. \A i \in 1..Len(r) : r[i] \in DOMAIN d.edges
      BY <2>1, <2>4 DEF Lists
    <2>8. AstRow(g, p) = AstRow(d, p)
      BY <1>2, <2>5, <2>6, <2>7
    <2> QED
      BY <1>0, <2>8 DEF TreeAt
  <1>4. g.nodes[p].parent = d.nodes[p].parent
    <2>1. CASE AstInto(d, p) = {}
      BY <1>1, <2>1 DEF Merges
    <2>2. CASE AstInto(d, p) # {}
      <3>1. PICK low \in AstInto(d, p) : \A j \in AstInto(d, p) : d.edges[low].id <= d.edges[j].id
        BY <1>0, <2>2, LowestExists
      <3>2. \A j \in AstInto(d, p) : j \in DOMAIN d.edges
        BY DEF AstInto
      <3>3. LowestAstSource(d, p) = d.edges[low].source
        BY <1>0, <3>1, LowestFacts
      <3>4. \A j \in AstInto(g, p) : g.edges[low].id <= g.edges[j].id
        BY <1>1, <1>2, <3>1, <3>2
      <3>5. LowestAstSource(g, p) = g.edges[low].source
        BY <1>0, <1>1, <3>4, LowestFacts
      <3> QED
        BY <1>0, <1>1, <1>2, <2>2, <3>2, <3>3, <3>5 DEF TreeAt
    <2> QED
      BY <2>1, <2>2
  <1>5. g.nodes[p].refs = d.nodes[p].refs
    BY DEF Merges
  <1>6. g.nodes[p].id = d.nodes[p].id
    <2> DEFINE id == d.nodes[p].id
    <2>1. id \in NodeIds(d) /\ d.node_index_map[id] = p
      BY <1>0 DEF Coherent, NodesIndexed
    <2>2. id \in NodeIds(g) /\ g.node_index_map[id] = p
      BY <2>1 DEF Merges
    <2> HIDE DEF id
    <2>3. g.nodes[p].id = id
      BY <1>0, <2>2 DEF Coherent, NodesIndexed, NodeAt
    <2> QED
      BY <2>3 DEF id
  <1>7. d.nodes[p] \in Node /\ g.nodes[p] \in Node
    BY <1>0, StoreFacts DEF TypedStore
  <1> QED
    BY <1>3, <1>4, <1>5, <1>6, <1>7 DEF Node

(* The AST edges at a copy are the copies of the AST edges at the original.*)
LEMMA CopiedAstEdges ==
    ASSUME NEW d, Whole(d), NEW s, Whole(s), NEW g, NEW map, Merges(d, s, g, map),
           NEW id \in NodeIds(s), NEW k
    PROVE  /\ k \in AstInto(g, g.node_index_map[map[id]]) <=>
                 \E j \in 1..EdgeCount(s) :
                    k = EdgeCount(d) + j /\ EdgesInOrder(s)[j] \in AstInto(s, s.node_index_map[id])
           /\ k \in AstOutOf(g, g.node_index_map[map[id]]) <=>
                 \E j \in 1..EdgeCount(s) :
                    k = EdgeCount(d) + j /\ EdgesInOrder(s)[j] \in AstOutOf(s, s.node_index_map[id])
  <1> DEFINE row == EdgesInOrder(s)
             n == EdgeCount(s)
             m == EdgeCount(d)
             In(h, x, i) == /\ i \in DOMAIN h.edges
                            /\ h.edges[i].kind = AstChild /\ h.edges[i].target = x
             Out(h, x, i) == /\ i \in DOMAIN h.edges
                             /\ h.edges[i].kind = AstChild /\ h.edges[i].source = x
  <1>0. /\ Coherent(d) /\ TypedStore(d) /\ Coherent(s) /\ TypedStore(s)
        /\ Coherent(g) /\ TypedStore(g)
    BY DEF Whole, Merges
  <1>1. /\ n \in Nat /\ m \in Nat /\ DOMAIN d.edges = 1..m /\ DOMAIN g.edges = 1..(m + n)
    <2>1. EdgeCount(g) = m + n
      BY DEF Merges
    <2> QED
      BY <1>0, <2>1, StoreFacts DEF EdgeCount
  <1>2. /\ DOMAIN row = 1..n
        /\ \A j \in 1..n : row[j] \in DOMAIN s.edges
    BY <1>0, EdgesAreListed
  <1>3. /\ map[id] \in NodeIds(g) /\ map[id] \notin NodeIds(d)
        /\ \A x, y \in NodeIds(s) : map[x] = map[y] => x = y
    BY DEF Merges, Remaps
  <1>4. /\ \A j \in DOMAIN d.edges : /\ g.edges[j] = d.edges[j]
                                     /\ d.edges[j].source \in NodeIds(d)
                                     /\ d.edges[j].target \in NodeIds(d)
        /\ \A j \in DOMAIN s.edges : /\ s.edges[j].source \in NodeIds(s)
                                     /\ s.edges[j].target \in NodeIds(s)
    BY <1>0 DEF Merges, Coherent, EndpointsStored, HasEndpoints
  <1>5. \A j \in 1..n : /\ g.edges[m + j].kind = s.edges[row[j]].kind
                        /\ g.edges[m + j].source = map[s.edges[row[j]].source]
                        /\ g.edges[m + j].target = map[s.edges[row[j]].target]
    BY DEF Merges, CopiedEdge
  <1> HIDE DEF row, n, m
  <1>6. ASSUME NEW j \in 1..n
        PROVE  /\ m + j \in DOMAIN g.edges
               /\ In(g, map[id], m + j) <=> In(s, id, row[j])
               /\ Out(g, map[id], m + j) <=> Out(s, id, row[j])
    <2>1. m + j \in DOMAIN g.edges
      BY <1>1
    <2>2. row[j] \in DOMAIN s.edges
      BY <1>2
    <2> DEFINE e == g.edges[m + j]
               o == s.edges[row[j]]
    <2>3. e.kind = o.kind /\ e.source = map[o.source] /\ e.target = map[o.target]
      BY <1>5
    <2>4. o.source \in NodeIds(s) /\ o.target \in NodeIds(s)
      BY <1>4, <2>2
    <2>5. (e.target = map[id] <=> o.target = id) /\ (e.source = map[id] <=> o.source = id)
      <3> HIDE DEF e, o
      <3> QED
        BY <1>3, <2>3, <2>4
    <2> QED
      BY <2>1, <2>2, <2>3, <2>5
  <1>7. \A i \in DOMAIN d.edges : ~In(g, map[id], i) /\ ~Out(g, map[id], i)
    BY <1>3, <1>4
  <1>8. \A i \in DOMAIN g.edges : i \in DOMAIN d.edges \/ \E j \in 1..n : i = m + j
    <2> SUFFICES ASSUME NEW i \in DOMAIN g.edges, i \notin DOMAIN d.edges
                 PROVE  \E j \in 1..n : i = m + j
      OBVIOUS
    <2>1. i - m \in 1..n /\ i = m + (i - m)
      BY <1>1
    <2> QED
      BY <2>1
  <1>9. /\ k \in AstInto(g, g.node_index_map[map[id]]) <=> In(g, map[id], k)
        /\ k \in AstOutOf(g, g.node_index_map[map[id]]) <=> Out(g, map[id], k)
    BY <1>0, <1>3, AstEdgesById
  <1>10. \A i : /\ i \in AstInto(s, s.node_index_map[id]) <=> In(s, id, i)
                /\ i \in AstOutOf(s, s.node_index_map[id]) <=> Out(s, id, i)
    BY <1>0, AstEdgesById
  <1>11. /\ In(g, map[id], k) => k \in DOMAIN g.edges
         /\ Out(g, map[id], k) => k \in DOMAIN g.edges
    OBVIOUS
  <1> HIDE DEF In, Out
  <1>12. In(g, map[id], k) <=> \E j \in 1..n : k = m + j /\ In(s, id, row[j])
    BY <1>6, <1>7, <1>8, <1>11
  <1>13. Out(g, map[id], k) <=> \E j \in 1..n : k = m + j /\ Out(s, id, row[j])
    BY <1>6, <1>7, <1>8, <1>11
  <1> QED
    BY <1>9, <1>10, <1>12, <1>13 DEF row, n, m

(* A copy with an AST parent has the copy of its parent.                   *)
LEMMA CopiedParent ==
    ASSUME NEW d, Whole(d), NEW s, Whole(s), NEW g, NEW map, Merges(d, s, g, map),
           NEW id \in NodeIds(s)
    PROVE  NodeAt(g, map[id]).parent = Translate(map, NodeAt(s, id).parent)
  <1> DEFINE row == EdgesInOrder(s)
             n == EdgeCount(s)
             m == EdgeCount(d)
             p == g.node_index_map[map[id]]
             q == s.node_index_map[id]
  <1>0. /\ Coherent(d) /\ TypedStore(d) /\ Coherent(s) /\ TypedStore(s)
        /\ Coherent(g) /\ TypedStore(g)
        /\ \A i \in DOMAIN g.nodes : TreeAt(g, i, g.nodes[i])
        /\ \A i \in DOMAIN s.nodes : TreeAt(s, i, s.nodes[i])
    BY DEF Whole, Merges
  <1>1. CASE AstInto(g, p) = {}
    BY <1>1 DEF Merges
  <1>2. CASE AstInto(g, p) # {}
    <2>1. \A k : k \in AstInto(g, p) <=>
                    \E j \in 1..n : k = m + j /\ row[j] \in AstInto(s, q)
      BY CopiedAstEdges
    <2>2. /\ n \in Nat /\ DOMAIN row = 1..n
          /\ Lists(row, DOMAIN s.edges, ByEdgeId(s))
          /\ \A k \in DOMAIN s.edges : \E j \in 1..n : row[j] = k
      BY <1>0, EdgesAreListed
    <2>3. m \in Nat /\ d.next_edge_id \in Nat
      BY <1>0, StoreFacts, MaxIdAssumption DEF Coherent, HasCounters, EdgeId, EdgeCount
    <2>4. \A j \in 1..n : /\ g.edges[m + j].source = map[s.edges[row[j]].source]
                          /\ g.edges[m + j].id = d.next_edge_id + j - 1
      BY DEF Merges, CopiedEdge
    <2>5. DOMAIN map = NodeIds(s) /\ map[id] \in NodeIds(g)
      BY DEF Merges, Remaps
    <2>6. p \in DOMAIN g.nodes /\ q \in DOMAIN s.nodes
      BY <1>0, <2>5, StoreFacts
    <2>7. /\ g.nodes[p].parent = LowestAstSource(g, p)
          /\ AstInto(s, q) # {} => s.nodes[q].parent = LowestAstSource(s, q)
      BY <1>0, <1>2, <2>6 DEF TreeAt
    <2>8. NodeAt(g, map[id]) = g.nodes[p] /\ NodeAt(s, id) = s.nodes[q]
      BY DEF NodeAt
    <2> HIDE DEF row, n, m, p, q
    <2>9. AstInto(s, q) # {}
      BY <1>2, <2>1
    <2>10. PICK low \in AstInto(s, q) : \A j \in AstInto(s, q) : s.edges[low].id <= s.edges[j].id
      BY <1>0, <2>9, LowestExists
    <2>11. low \in DOMAIN s.edges /\ \A i \in AstInto(s, q) : i \in DOMAIN s.edges
      BY DEF AstInto
    <2>12. PICK j0 \in 1..n : row[j0] = low
      BY <2>2, <2>11
    <2>13. m + j0 \in AstInto(g, p)
      BY <2>1, <2>12
    <2>14. \A i \in DOMAIN s.edges : s.edges[i].id \in Int
      BY <1>0, MaxIdAssumption DEF Coherent, EdgeCounterAhead, EdgeId
    <2>15. ASSUME NEW k \in AstInto(g, p)
           PROVE  g.edges[m + j0].id <= g.edges[k].id
      <3>1. PICK j \in 1..n : k = m + j /\ row[j] \in AstInto(s, q)
        BY <2>1
      <3>2. ~(j < j0)
        <4>1. SUFFICES ASSUME j < j0 PROVE FALSE
          OBVIOUS
        <4>2. <<row[j], row[j0]>> \in ByEdgeId(s)
          BY <2>2, <4>1 DEF Lists
        <4>3. s.edges[row[j]].id < s.edges[low].id
          BY <2>12, <4>2 DEF ByEdgeId
        <4>4. s.edges[low].id <= s.edges[row[j]].id
          BY <2>10, <3>1
        <4> QED
          BY <2>11, <2>14, <3>1, <4>3, <4>4
      <3>3. g.edges[k].id = d.next_edge_id + j - 1 /\ g.edges[m + j0].id = d.next_edge_id + j0 - 1
        BY <2>4, <3>1
      <3> QED
        BY <2>3, <3>2, <3>3
    <2>16. LowestAstSource(g, p) = g.edges[m + j0].source
      BY <1>0, <2>13, <2>15, LowestFacts
    <2>17. LowestAstSource(s, q) = s.edges[low].source
      BY <1>0, <2>10, LowestFacts
    <2>18. s.edges[low].source \in NodeIds(s)
      BY <1>0, <2>11 DEF Coherent, EndpointsStored, HasEndpoints
    <2>19. NodeAt(g, map[id]).parent = map[s.edges[low].source]
      BY <2>4, <2>7, <2>8, <2>12, <2>16
    <2>20. NodeAt(s, id).parent = s.edges[low].source
      BY <2>7, <2>8, <2>9, <2>17
    <2> QED
      BY <2>5, <2>18, <2>19, <2>20 DEF Translate
  <1> QED
    BY <1>1, <1>2

Along(f, r) == [i \in 1..Len(r) |-> f[r[i]]]

\* f takes S, ordered by R, onto T, ordered by Q.
Orderly(f, S, R, T, Q) ==
    /\ \A x \in S : f[x] \in T
    /\ \A y \in T : \E x \in S : y = f[x]
    /\ \A x, y \in S : <<x, y>> \in R => <<f[x], f[y]>> \in Q

(* An ascending map onto T takes a listing to a listing.                   *)
LEMMA ListingMapped ==
    ASSUME NEW S, NEW R, NEW r, Lists(r, S, R), NEW T, NEW Q, NEW f,
           Orderly(f, S, R, T, Q)
    PROVE  /\ Lists(Along(f, r), T, Q) /\ Len(Along(f, r)) = Len(r)
           /\ Len(r) \in Nat /\ \A i \in 1..Len(r) : r[i] \in S
  <1> DEFINE t == Along(f, r)
  <1>0. /\ \A x \in S : f[x] \in T
        /\ \A y \in T : \E x \in S : y = f[x]
        /\ \A x, y \in S : <<x, y>> \in R => <<f[x], f[y]>> \in Q
    BY DEF Orderly
  <1>1. /\ Len(r) \in Nat /\ DOMAIN r = 1..Len(r)
        /\ \A i \in 1..Len(r) : r[i] \in S
    BY DEF Lists
  <1>2. t \in Seq(T) /\ DOMAIN t = 1..Len(r) /\ Len(t) = Len(r)
    BY <1>0, <1>1 DEF Along
  <1>3. \A i \in 1..Len(r) : t[i] = f[r[i]]
    BY DEF Along
  <1> HIDE DEF t
  <1>4. \A y \in T : \E i \in DOMAIN t : t[i] = y
    <2> SUFFICES ASSUME NEW y \in T PROVE \E i \in DOMAIN t : t[i] = y
      OBVIOUS
    <2>1. PICK x \in S : y = f[x]
      BY <1>0
    <2>2. PICK i \in 1..Len(r) : r[i] = x
      BY <1>1 DEF Lists
    <2> QED
      BY <1>2, <1>3, <2>1, <2>2
  <1>5. ASSUME NEW i \in DOMAIN t, NEW j \in DOMAIN t, i < j
        PROVE  <<t[i], t[j]>> \in Q
    <2>1. <<r[i], r[j]>> \in R
      BY <1>1, <1>2, <1>5 DEF Lists
    <2>2. <<f[r[i]], f[r[j]]>> \in Q
      BY <1>0, <1>1, <1>2, <2>1
    <2> QED
      BY <1>2, <1>3, <2>2
  <1>6. Lists(t, T, Q)
    BY <1>2, <1>4, <1>5 DEF Lists
  <1> QED
    BY <1>1, <1>2, <1>6 DEF t

(* The children of a copy are the copies of the children, in their order.  *)
LEMMA CopiedChildren ==
    ASSUME NEW d, Whole(d), NEW s, Whole(s), NEW g, NEW map, Merges(d, s, g, map),
           NEW id \in NodeIds(s)
    PROVE  LET list == NodeAt(s, id).children
           IN NodeAt(g, map[id]).children = [i \in DOMAIN list |-> map[list[i]]]
  <1> DEFINE row == EdgesInOrder(s)
             n == EdgeCount(s)
             m == EdgeCount(d)
             p == g.node_index_map[map[id]]
             q == s.node_index_map[id]
             S == AstOutOf(s, q)
             T == AstOutOf(g, p)
  <1>0. /\ Coherent(d) /\ TypedStore(d) /\ Coherent(s) /\ TypedStore(s)
        /\ Coherent(g) /\ TypedStore(g)
        /\ \A i \in DOMAIN g.nodes : TreeAt(g, i, g.nodes[i])
        /\ \A i \in DOMAIN s.nodes : TreeAt(s, i, s.nodes[i])
    BY DEF Whole, Merges
  <1>1. ASSUME NEW k
        PROVE  k \in T <=> \E j \in 1..n : k = m + j /\ row[j] \in S
    <2>1. k \in AstOutOf(g, g.node_index_map[map[id]]) <=>
             \E j \in 1..EdgeCount(s) :
                k = EdgeCount(d) + j /\ EdgesInOrder(s)[j] \in AstOutOf(s, s.node_index_map[id])
      BY CopiedAstEdges
    <2> QED
      BY <2>1
  <1> DEFINE r == InIdOrder(s, S)
             place == [e \in DOMAIN s.edges |-> CHOOSE j \in 1..n : row[j] = e]
             f == [e \in DOMAIN s.edges |-> m + place[e]]
             t == Along(f, r)
  <1>2. /\ n \in Nat /\ DOMAIN row = 1..n
        /\ Lists(row, DOMAIN s.edges, ByEdgeId(s)) /\ StrictOrder(DOMAIN s.edges, ByEdgeId(s))
        /\ \A k \in DOMAIN s.edges : \E j \in 1..n : row[j] = k
        /\ \A i, j \in 1..n : row[i] = row[j] => i = j
        /\ \A j \in 1..n : row[j] \in DOMAIN s.edges
    BY <1>0, EdgesAreListed
  <1>3. m \in Nat /\ d.next_edge_id \in Nat
    BY <1>0, StoreFacts, MaxIdAssumption DEF Coherent, HasCounters, EdgeId, EdgeCount
  <1>4. \A j \in 1..n : /\ g.edges[m + j].target = map[s.edges[row[j]].target]
                        /\ g.edges[m + j].id = d.next_edge_id + j - 1
    BY DEF Merges, CopiedEdge
  <1>5. NodeAt(g, map[id]).children = AstRow(g, p) /\ NodeAt(s, id).children = AstRow(s, q)
    <2>1. map[id] \in NodeIds(g)
      BY DEF Merges, Remaps
    <2>2. p \in DOMAIN g.nodes /\ q \in DOMAIN s.nodes
      BY <1>0, <2>1, StoreFacts
    <2> QED
      BY <1>0, <2>2 DEF TreeAt, NodeAt
  <1>6. S \in SUBSET DOMAIN s.edges /\ T \in SUBSET DOMAIN g.edges
    BY DEF AstOutOf
  <1>7. Lists(r, S, ByEdgeId(s)) /\ StrictOrder(T, ByEdgeId(g))
    <2>1. IsFiniteSet(S) /\ StrictOrder(S, ByEdgeId(s))
      <3> HIDE DEF S
      <3> QED
        BY <1>0, <1>6, StoreFacts, FS_Subset, IdsOrderEdges
    <2>2. StrictOrder(T, ByEdgeId(g))
      <3> HIDE DEF T
      <3> QED
        BY <1>0, <1>6, IdsOrderEdges
    <2> HIDE DEF S
    <2> QED
      BY <2>1, <2>2, SortedLists DEF InIdOrder
  <1>8. AstRow(s, q) = [i \in 1..Len(r) |-> s.edges[r[i]].target]
    BY DEF AstRow
  <1> HIDE DEF row, n, m, S, T, r
  <1>9. \A e \in DOMAIN s.edges : place[e] \in 1..n /\ row[place[e]] = e /\ f[e] = m + place[e]
    BY <1>2
  <1> HIDE DEF place, f
  <1>10. \A e \in S : f[e] \in T
    BY <1>1, <1>6, <1>9
  <1>11. \A k \in T : \E e \in S : k = f[e]
    <2> SUFFICES ASSUME NEW k \in T PROVE \E e \in S : k = f[e]
      OBVIOUS
    <2>1. PICK j \in 1..n : k = m + j /\ row[j] \in S
      BY <1>1
    <2>2. place[row[j]] = j
      BY <1>2, <1>9
    <2> QED
      BY <1>2, <1>9, <2>1, <2>2
  <1>12. ASSUME NEW x \in S, NEW y \in S, <<x, y>> \in ByEdgeId(s)
         PROVE  <<f[x], f[y]>> \in ByEdgeId(g)
    <2>1. place[x] \in 1..n /\ place[y] \in 1..n /\ row[place[x]] = x /\ row[place[y]] = y
      BY <1>6, <1>9
    <2>2. place[x] < place[y]
      BY <1>2, <1>12, <2>1, ListingIsBijective
    <2>3. g.edges[f[x]].id < g.edges[f[y]].id
      <3>1. f[x] = m + place[x] /\ f[y] = m + place[y]
        BY <1>6, <1>9
      <3>2. /\ g.edges[f[x]].id = d.next_edge_id + place[x] - 1
            /\ g.edges[f[y]].id = d.next_edge_id + place[y] - 1
        BY <1>4, <2>1, <3>1
      <3> QED
        BY <1>3, <2>1, <2>2, <3>2
    <2>4. f[x] \in DOMAIN g.edges /\ f[y] \in DOMAIN g.edges
      BY <1>6, <1>10
    <2> QED
      BY <2>3, <2>4 DEF ByEdgeId
  <1>13. /\ Lists(t, T, ByEdgeId(g)) /\ Len(t) = Len(r) /\ Len(r) \in Nat
         /\ \A i \in 1..Len(r) : r[i] \in S
    <2>1. Orderly(f, S, ByEdgeId(s), T, ByEdgeId(g))
      BY <1>10, <1>11, <1>12 DEF Orderly
    <2> QED
      BY <1>7, <2>1, ListingMapped
  <1>14. \A i \in 1..Len(r) : t[i] = f[r[i]]
    BY DEF Along
  <1> HIDE DEF t
  <1>15. t = InIdOrder(g, T)
    BY <1>7, <1>13, ListingIsSorted DEF InIdOrder
  <1>16. AstRow(g, p) = [i \in 1..Len(r) |-> g.edges[t[i]].target]
    BY <1>13, <1>15 DEF AstRow, T
  <1>17. ASSUME NEW i \in 1..Len(r)
         PROVE  g.edges[t[i]].target = map[s.edges[r[i]].target]
    <2>1. r[i] \in DOMAIN s.edges
      BY <1>6, <1>13
    <2>2. t[i] = m + place[r[i]] /\ place[r[i]] \in 1..n /\ row[place[r[i]]] = r[i]
      BY <1>9, <1>14, <2>1
    <2> QED
      BY <1>4, <2>2
  <1>18. AstRow(g, p) = [i \in 1..Len(r) |-> map[s.edges[r[i]].target]]
    BY <1>16, <1>17
  <1>19. /\ DOMAIN AstRow(s, q) = 1..Len(r)
         /\ \A i \in 1..Len(r) : AstRow(s, q)[i] = s.edges[r[i]].target
    BY <1>8
  <1>20. AstRow(g, p) = [i \in DOMAIN AstRow(s, q) |-> map[AstRow(s, q)[i]]]
    BY <1>18, <1>19
  <1> QED
    BY <1>5, <1>20

-------------------------------------------------------------------------------
(* Insertions under given identifiers *)

\* h is g with the edge e appended.
Gains(g, h, e) ==
    /\ h.node_index_map = g.node_index_map /\ DOMAIN h.nodes = DOMAIN g.nodes
    /\ EdgeCount(g) + 1 \notin DOMAIN g.edges
    /\ DOMAIN h.edges = DOMAIN g.edges \cup {EdgeCount(g) + 1}
    /\ EdgeCount(h) = EdgeCount(g) + 1
    /\ \A k \in DOMAIN g.edges : h.edges[k] = g.edges[k]
    /\ h.edges[EdgeCount(g) + 1].id = e.id /\ h.edges[EdgeCount(g) + 1].kind = e.kind
    /\ h.edges[EdgeCount(g) + 1].source = e.source
    /\ h.edges[EdgeCount(g) + 1].target = e.target
    /\ h.next_node_id = g.next_node_id /\ h.root = g.root
    /\ h.cfg_entries = g.cfg_entries /\ h.cfg_exits = g.cfg_exits
    /\ \A p \in DOMAIN g.nodes : AstInto(h, p) = {} => h.nodes[p].parent = g.nodes[p].parent

\* h is g up to the children, and up to the parent of the node `but`.
SameBut(g, h, but) ==
    /\ Coherent(h) /\ TypedStore(h)
    /\ h.node_index_map = g.node_index_map /\ DOMAIN h.nodes = DOMAIN g.nodes
    /\ h.edges = g.edges /\ h.next_node_id = g.next_node_id /\ h.root = g.root
    /\ h.cfg_entries = g.cfg_entries /\ h.cfg_exits = g.cfg_exits
    /\ \A p \in DOMAIN g.nodes : p # but => h.nodes[p].parent = g.nodes[p].parent

(* Rebuilding a child list or a parent disturbs nothing else.              *)
LEMMA RebuiltFrame ==
    ASSUME NEW g, Coherent(g), TypedStore(g), NEW id \in NodeIds(g)
    PROVE  /\ SameBut(g, RebuildAstChildren(g, id), 0)
           /\ AstInto(g, g.node_index_map[id]) # {} =>
                 SameBut(g, RebuildAstParent(g, id), g.node_index_map[id])
  <1> DEFINE at == g.node_index_map[id]
             row == AstRow(g, at)
             f == [NodeAt(g, id) EXCEPT !.children = row]
             low == LowestAstSource(g, at)
             p == [NodeAt(g, id) EXCEPT !.parent = low]
  <1>1. NodeAt(g, id) \in Node /\ NodeAt(g, id) = g.nodes[at] /\ row \in Seq(NodeId)
    BY StoreFacts, RowsAreTyped DEF NodeAt
  <1>2. ASSUME NEW node \in Node, "id" \in DOMAIN node, node.id = id,
               NEW but, node.parent = g.nodes[at].parent \/ but = at
        PROVE  SameBut(g, SetNode(g, id, node), but)
    <2> DEFINE h == SetNode(g, id, node)
    <2>1. Coherent(h)
      BY <1>2, SetNodeCoherent
    <2>2. /\ TypedStore(h) /\ h.edges = g.edges /\ h.node_index_map = g.node_index_map
          /\ DOMAIN h.nodes = DOMAIN g.nodes
          /\ h.nodes[at] = node
          /\ \A i \in DOMAIN g.nodes : i # at => h.nodes[i] = g.nodes[i]
      BY <1>2, SetNodeFacts
    <2>3. /\ h.next_node_id = g.next_node_id /\ h.root = g.root
          /\ h.cfg_entries = g.cfg_entries /\ h.cfg_exits = g.cfg_exits
      BY SetNodeFrame
    <2> HIDE DEF h, at
    <2>4. \A i \in DOMAIN g.nodes : i # but => h.nodes[i].parent = g.nodes[i].parent
      BY <1>2, <2>2
    <2> QED
      BY <2>1, <2>2, <2>3, <2>4 DEF SameBut, h
  <1>3. SameBut(g, RebuildAstChildren(g, id), 0)
    <2> HIDE DEF row
    <2>1. "id" \in DOMAIN f /\ f.id = id
      <3>1. f = [NodeAt(g, id) EXCEPT !.children = row]
        OBVIOUS
      <3> HIDE DEF f
      <3> QED
        BY <3>1, StoredNodeFacts
    <2>2. f \in Node /\ f.parent = g.nodes[at].parent
      BY <1>1, RewrittenNodes
    <2> HIDE DEF f
    <2>3. SameBut(g, SetNode(g, id, f), 0)
      BY <1>2, <2>1, <2>2
    <2> QED
      BY <2>3 DEF RebuildAstChildren, f, row
  <1>4. ASSUME AstInto(g, at) # {} PROVE SameBut(g, RebuildAstParent(g, id), at)
    <2>1. low \in NodeId
      BY <1>4, LowestExists
    <2> HIDE DEF low
    <2>2. "id" \in DOMAIN p /\ p.id = id
      <3>1. p = [NodeAt(g, id) EXCEPT !.parent = low]
        OBVIOUS
      <3> HIDE DEF p
      <3> QED
        BY <3>1, StoredNodeFacts
    <2>3. p \in Node
      BY <1>1, <2>1, RewrittenNodes
    <2> HIDE DEF p
    <2>4. SameBut(g, SetNode(g, id, p), at)
      BY <1>2, <2>2, <2>3
    <2> QED
      BY <2>4 DEF RebuildAstParent, p, low
  <1> QED
    BY <1>3, <1>4

(* What add_edge_with_id changes, for an identifier that is free.          *)
LEMMA AddEdgeWithIdFacts ==
    ASSUME NEW g, Whole(g), NEW e \in EdgeRequest, HasEndpoints(g, e),
           \A k \in DOMAIN g.edges : g.edges[k].id # e.id
    PROVE  Whole(AddEdgeWithId(g, e)) /\ Gains(g, AddEdgeWithId(g, e), e)
  <1> DEFINE next == Higher(g.next_edge_id, SaturatingSucc(e.id))
             linked == LinkEdge(g, e, next)
             ordered == RebuildAstChildren(linked, e.source)
             rebuilt == RebuildAstParent(ordered, e.target)
             h == AddEdgeWithId(g, e)
             n == EdgeCount(g) + 1
  <1>0. Coherent(g) /\ TypedStore(g)
    BY DEF Whole
  <1>1. Whole(h)
    BY AddEdgeWithIdWhole
  <1>2. /\ TypedStore(linked) /\ linked.nodes = g.nodes
        /\ linked.node_index_map = g.node_index_map
        /\ DOMAIN linked.edges = DOMAIN g.edges \cup {n} /\ n \notin DOMAIN g.edges
        /\ \A k \in DOMAIN g.edges : linked.edges[k] = g.edges[k]
        /\ linked.edges[n] = [id |-> e.id, source |-> e.source,
                              target |-> e.target, kind |-> e.kind,
                              from |-> g.node_index_map[e.source],
                              to |-> g.node_index_map[e.target]]
    BY <1>0, LinkEdgeFacts DEF EdgeCount
  <1>3. /\ EdgeCount(linked) = n
        /\ linked.next_node_id = g.next_node_id /\ linked.root = g.root
        /\ linked.cfg_entries = g.cfg_entries /\ linked.cfg_exits = g.cfg_exits
    <2> DEFINE stored == [id |-> e.id, source |-> e.source, target |-> e.target,
                          kind |-> e.kind, from |-> g.node_index_map[e.source],
                          to |-> g.node_index_map[e.target]]
    <2>1. linked = [g EXCEPT !.edges = Append(@, stored), !.next_edge_id = next]
      BY DEF LinkEdge
    <2> HIDE DEF linked, stored, next
    <2>2. /\ linked.edges = Append(g.edges, stored)
          /\ linked.next_node_id = g.next_node_id /\ linked.root = g.root
          /\ linked.cfg_entries = g.cfg_entries /\ linked.cfg_exits = g.cfg_exits
      BY <1>0, <2>1 DEF Coherent, HasShape
    <2>3. g.edges \in Seq(Edge)
      BY <1>0 DEF TypedStore
    <2>4. Len(Append(g.edges, stored)) = Len(g.edges) + 1
      BY <2>3, AppendFacts
    <2> QED
      BY <2>2, <2>4 DEF EdgeCount
  <1>4. Coherent(linked) /\ NodeIds(linked) = NodeIds(g)
    <2>1. g.next_edge_id \in NodeId /\ e.id \in NodeId /\ EdgeId = NodeId
      BY <1>0 DEF Coherent, HasCounters, EdgeId, NodeId, EdgeRequest
    <2>2. /\ SaturatingSucc(e.id) \in NodeId
          /\ e.id < SaturatingSucc(e.id) \/ SaturatingSucc(e.id) = MaxId
      BY <2>1, SaturatingSuccFacts
    <2>3. next \in NodeId /\ next >= g.next_edge_id /\ next >= SaturatingSucc(e.id)
      BY <2>1, <2>2, HigherFacts
    <2> HIDE DEF next
    <2>4. e.id < next \/ next = MaxId
      BY <2>1, <2>2, <2>3, MaxIdAssumption DEF NodeId
    <2> QED
      BY <1>0, <2>1, <2>3, <2>4, LinkEdgeCoherent
  <1>5. h = IF e.kind = AstChild THEN rebuilt ELSE linked
    BY DEF AddEdgeWithId
  <1> HIDE DEF linked, h, next
  <1>6. linked.edges[n].id = e.id /\ linked.edges[n].kind = e.kind
        /\ linked.edges[n].source = e.source /\ linked.edges[n].target = e.target
    BY <1>2
  <1>7. CASE e.kind # AstChild
    <2>1. h = linked
      BY <1>5, <1>7
    <2> HIDE DEF n
    <2>2. Gains(g, linked, e)
      BY <1>2, <1>3, <1>6 DEF Gains, n
    <2> QED
      BY <1>1, <2>1, <2>2 DEF h
  <1>8. CASE e.kind = AstChild
    <2> DEFINE to == linked.node_index_map[e.target]
    <2>1. h = rebuilt
      BY <1>5, <1>8
    <2>2. e.source \in NodeIds(linked) /\ e.target \in NodeIds(linked)
      BY <1>4 DEF HasEndpoints
    <2>3. n \in AstInto(linked, to)
      BY <1>2, <1>8 DEF AstInto
    <2>4. SameBut(linked, ordered, 0)
      BY <1>2, <1>4, <2>2, RebuiltFrame
    <2> HIDE DEF ordered
    <2>5. /\ Coherent(ordered) /\ TypedStore(ordered)
          /\ ordered.node_index_map = linked.node_index_map
          /\ NodeIds(ordered) = NodeIds(linked) /\ ordered.edges = linked.edges
          /\ AstInto(ordered, to) # {}
      BY <2>3, <2>4 DEF SameBut, NodeIds, AstInto
    <2>6. SameBut(ordered, rebuilt, to)
      <3>1. SameBut(ordered, rebuilt, ordered.node_index_map[e.target])
        BY <2>2, <2>5, RebuiltFrame
      <3> QED
        BY <2>5, <3>1
    <2> HIDE DEF rebuilt
    <2>7. 0 \notin DOMAIN linked.nodes
      BY <1>2, <1>4, StoreFacts
    <2>8. /\ rebuilt.node_index_map = linked.node_index_map
          /\ DOMAIN rebuilt.nodes = DOMAIN linked.nodes /\ rebuilt.edges = linked.edges
          /\ rebuilt.next_node_id = linked.next_node_id /\ rebuilt.root = linked.root
          /\ rebuilt.cfg_entries = linked.cfg_entries /\ rebuilt.cfg_exits = linked.cfg_exits
      BY <2>4, <2>6 DEF SameBut
    <2>9. ASSUME NEW p \in DOMAIN linked.nodes, AstInto(rebuilt, p) = {}
          PROVE  rebuilt.nodes[p].parent = linked.nodes[p].parent
      <3>1. AstInto(linked, p) = {}
        BY <2>8, <2>9 DEF AstInto
      <3>2. p # to /\ p # 0
        BY <2>3, <2>7, <3>1
      <3> QED
        BY <2>4, <2>6, <3>2 DEF SameBut
    <2> HIDE DEF n, to
    <2>10. EdgeCount(rebuilt) = EdgeCount(linked)
      BY <2>8 DEF EdgeCount
    <2>11. Gains(g, rebuilt, e)
      <3>1. \A p \in DOMAIN g.nodes : AstInto(rebuilt, p) = {} =>
                                         rebuilt.nodes[p].parent = g.nodes[p].parent
        BY <1>2, <2>9
      <3> QED
        BY <1>2, <1>3, <1>6, <2>8, <2>10, <3>1 DEF Gains, n
    <2> QED
      BY <1>1, <2>1, <2>11 DEF h
  <1> QED
    BY <1>7, <1>8

-------------------------------------------------------------------------------
(* subgraph: the nodes *)

\* The parent a selected node is inserted with.
KeptParent(g, id, chosen) ==
    IF NodeAt(g, id).parent \in chosen THEN NodeAt(g, id).parent ELSE None

\* a holds the nodes of g among the first i of ids, and no edge.
Picked(g, ids, i, a) ==
    /\ Whole(a) /\ DOMAIN a.edges = {}
    /\ \A id : id \in NodeIds(a) <=> id \in NodeIds(g) /\ \E j \in 1..i : id = ids[j]
    /\ \A id \in NodeIds(a) : NodeAt(a, id).parent = KeptParent(g, id, ToSet(ids))

(* One more node under its own identifier.                                 *)
LEMMA SelectOne ==
    ASSUME NEW g, Whole(g), NEW a, Whole(a), NEW id \in NodeIds(g), id \notin NodeIds(a),
           NEW chosen
    PROVE  LET h == SelectNode(a, g, id, chosen)
           IN /\ Whole(h) /\ h.edges = a.edges /\ NodeIds(h) = NodeIds(a) \cup {id}
              /\ NodeAt(h, id).parent = KeptParent(g, id, chosen)
              /\ \A x \in NodeIds(a) : NodeAt(h, x) = NodeAt(a, x)
  <1> DEFINE old == NodeAt(g, id)
             kept == IF old.parent \in chosen THEN old.parent ELSE None
             node == [old EXCEPT !.children = <<>>, !.parent = kept]
             next == Higher(a.next_node_id, SaturatingSucc(node.id))
             h == PushNode(a, node, next)
             n == Len(a.nodes) + 1
  <1>0. Coherent(g) /\ TypedStore(g) /\ Coherent(a) /\ TypedStore(a)
    BY DEF Whole
  <1>1. old \in Node /\ old.id = id
    BY <1>0, StoreFacts DEF Coherent, NodesIndexed
  <1>2. node \in Node /\ node.id = id /\ node.children = <<>> /\ node.parent = kept
    <2>1. old.parent \in NodeId \cup {None}
      BY <1>1 DEF Node
    <2>2. kept \in NodeId \cup {None}
      BY <2>1
    <2> DEFINE bare == [old EXCEPT !.children = <<>>]
    <2> HIDE DEF old, kept
    <2>3. <<>> \in Seq(NodeId)
      OBVIOUS
    <2>4. bare \in Node /\ bare.id = id /\ bare.children = <<>>
      BY <1>1, <2>3, RewrittenNodes
    <2>5. node = [bare EXCEPT !.parent = kept]
      BY <1>1 DEF Node
    <2> HIDE DEF bare, node
    <2> QED
      BY <2>2, <2>4, <2>5, RewrittenNodes
  <1>3. SelectNode(a, g, id, chosen) = AddNodeWithId(a, node)
    <2>1. SelectNode(a, g, id, chosen)
              = AddNodeWithId(a, [NodeAt(g, id) EXCEPT !.children = <<>>,
                                     !.parent = IF @ \in chosen THEN @ ELSE None])
      BY DEF SelectNode
    <2>2. [NodeAt(g, id) EXCEPT !.children = <<>>, !.parent = IF @ \in chosen THEN @ ELSE None]
              = node
      BY <1>1 DEF Node
    <2> HIDE DEF node
    <2> QED
      BY <2>1, <2>2
  <1>4. KeptParent(g, id, chosen) = kept
    BY DEF KeptParent
  <1>5. SelectNode(a, g, id, chosen) = h
    BY <1>3 DEF AddNodeWithId
  <1> HIDE DEF node, old, kept
  <1>6. Whole(AddNodeWithId(a, node))
    BY <1>2, AddNodeWithIdWhole
  <1> HIDE DEF next
  <1>7. /\ DOMAIN h.nodes = DOMAIN a.nodes \cup {n}
        /\ h.nodes[n] = node
        /\ \A i \in DOMAIN a.nodes : h.nodes[i] = a.nodes[i]
        /\ NodeIds(h) = NodeIds(a) \cup {node.id}
        /\ h.node_index_map[node.id] = n
        /\ \A x \in NodeIds(a) :
              x # node.id => h.node_index_map[x] = a.node_index_map[x]
        /\ h.edges = a.edges
    BY <1>0, <1>2, PushNodeFacts
  <1> HIDE DEF h, n
  <1>8. NodeAt(h, id).parent = kept
    BY <1>2, <1>7 DEF NodeAt
  <1>9. \A x \in NodeIds(a) : NodeAt(h, x) = NodeAt(a, x)
    <2> SUFFICES ASSUME NEW x \in NodeIds(a) PROVE NodeAt(h, x) = NodeAt(a, x)
      OBVIOUS
    <2>1. a.node_index_map[x] \in DOMAIN a.nodes
      BY <1>0, StoreFacts
    <2>2. h.node_index_map[x] = a.node_index_map[x]
      BY <1>2, <1>7
    <2> QED
      BY <1>7, <2>1, <2>2 DEF NodeAt
  <1>10. Whole(h)
    BY <1>3, <1>5, <1>6
  <1> QED
    BY <1>2, <1>4, <1>5, <1>7, <1>8, <1>9, <1>10

(* The selected nodes are those of g among ids.                            *)
LEMMA NodesSelected ==
    ASSUME NEW g, Whole(g), NEW ids \in Seq(NodeId),
           \A i, j \in DOMAIN ids : ids[i] = ids[j] => i = j
    PROVE  Picked(g, ids, Len(ids), Selected(g, ids))
  <1> DEFINE n == Len(ids)
             chosen == ToSet(ids)
             k == [op |-> "select", source |-> g, chosen |-> ToSet(ids)]
             base == EmptyStore
  <1>1. n \in Nat /\ DOMAIN ids = 1..n
    OBVIOUS
  <1>2. Selected(g, ids) = Folded(k, base, ids)
    BY SelectedIsFolded
  <1>3. \A a, x : Step(k, a, x) = SelectNode(a, g, x, chosen)
    BY DEF Step
  <1> HIDE DEF k, chosen, n
  <1>4. PICK h : Visits(k, base, ids, n, h) /\ Folded(k, base, ids) = h[n]
    <2> HIDE DEF base
    <2> QED
      BY <1>1, FoldedVisits
  <1>5. Picked(g, ids, 0, h[0])
    <2>1. h[0] = EmptyStore
      BY <1>4 DEF Visits
    <2>2. DOMAIN EmptyStore.edges = {} /\ NodeIds(EmptyStore) = {}
      BY DEF EmptyStore, NodeIds
    <2>3. ~ \E j \in 1..0 : TRUE
      OBVIOUS
    <2> QED
      BY <2>1, <2>2, <2>3, EmptyStoreWhole DEF Picked
  <1>6. ASSUME NEW i \in Nat, i < n, Picked(g, ids, i, h[i])
        PROVE  Picked(g, ids, i + 1, h[i + 1])
    <2> DEFINE a == h[i]
               id == ids[i + 1]
    <2>1. i + 1 \in 1..n /\ (i + 1) - 1 = i /\ i + 1 \in DOMAIN ids
      BY <1>1, <1>6
    <2>2. h[i + 1] = Step(k, h[(i + 1) - 1], ids[i + 1])
      BY <1>4, <2>1 DEF Visits
    <2>3. h[i + 1] = SelectNode(a, g, id, chosen)
      BY <1>3, <2>1, <2>2
    <2>4. \A x : (\E j \in 1..(i + 1) : x = ids[j]) <=> (\E j \in 1..i : x = ids[j]) \/ x = id
      <3>1. \A j : j \in 1..(i + 1) <=> j \in 1..i \/ j = i + 1
        BY <2>1
      <3> QED
        BY <3>1
    <2>5. ~ \E j \in 1..i : id = ids[j]
      <3>1. \A j \in 1..i : j \in DOMAIN ids /\ j # i + 1
        BY <1>1, <2>1
      <3> QED
        BY <2>1, <3>1
    <2>6. /\ Whole(a) /\ DOMAIN a.edges = {}
          /\ \A x : x \in NodeIds(a) <=> x \in NodeIds(g) /\ \E j \in 1..i : x = ids[j]
          /\ \A x \in NodeIds(a) : NodeAt(a, x).parent = KeptParent(g, x, chosen)
      BY <1>6 DEF Picked, chosen
    <2> DEFINE b == SelectNode(a, g, id, chosen)
    <2>7. CASE id \in NodeIds(g)
      <3>1. id \notin NodeIds(a)
        BY <2>5, <2>6
      <3> HIDE DEF id, a
      <3>2. /\ Whole(b) /\ b.edges = a.edges /\ NodeIds(b) = NodeIds(a) \cup {id}
            /\ NodeAt(b, id).parent = KeptParent(g, id, chosen)
            /\ \A x \in NodeIds(a) : NodeAt(b, x) = NodeAt(a, x)
        BY <2>6, <2>7, <3>1, SelectOne
      <3> HIDE DEF b
      <3>3. \A x : x \in NodeIds(b) <=>
                      x \in NodeIds(g) /\ ((\E j \in 1..i : x = ids[j]) \/ x = id)
        BY <2>6, <2>7, <3>2
      <3>4. \A x \in NodeIds(b) : NodeAt(b, x).parent = KeptParent(g, x, chosen)
        BY <2>6, <3>2
      <3>5. DOMAIN b.edges = {}
        BY <2>6, <3>2
      <3>6. Picked(g, ids, i + 1, b)
        <4>1. \A x : x \in NodeIds(b) <=> x \in NodeIds(g) /\ \E j \in 1..(i + 1) : x = ids[j]
          BY <2>4, <3>3
        <4> QED
          BY <3>2, <3>4, <3>5, <4>1 DEF Picked, chosen
      <3> QED
        BY <2>3, <3>6 DEF b
    <2>8. CASE id \notin NodeIds(g)
      <3>1. b = a
        BY <2>8 DEF SelectNode
      <3> HIDE DEF id, a, b
      <3>2. \A x : x \in NodeIds(a) <=> x \in NodeIds(g) /\ \E j \in 1..(i + 1) : x = ids[j]
        BY <2>4, <2>6, <2>8
      <3>3. Picked(g, ids, i + 1, a)
        BY <2>6, <3>2 DEF Picked, chosen
      <3> QED
        BY <2>3, <3>1, <3>3 DEF b
    <2> QED
      BY <2>7, <2>8
  <1> DEFINE G == {i \in Nat : Picked(g, ids, i, h[i])}
  <1>7. 0 \in G /\ \A i \in Nat : i < n /\ i \in G => i + 1 \in G
    BY <1>5, <1>6
  <1>8. n \in G
    <2> HIDE DEF G
    <2> QED
      BY <1>1, <1>7, UpTo
  <1>9. Picked(g, ids, n, Selected(g, ids))
    BY <1>2, <1>4, <1>8
  <1> QED
    BY <1>9 DEF n

-------------------------------------------------------------------------------
(* subgraph: the edges *)

Alike(e, o) == e.id = o.id /\ e.source = o.source /\ e.target = o.target /\ e.kind = o.kind

Inside(e, chosen) == {e.source, e.target} \subseteq chosen

\* a is base with those of the first i edges of g that lie inside the selection.
Induced(g, chosen, base, i, a) ==
    /\ Whole(a) /\ a.node_index_map = base.node_index_map /\ DOMAIN a.nodes = DOMAIN base.nodes
    /\ \A k \in 1..i : Inside(g.edges[k], chosen) =>
                          \E m \in DOMAIN a.edges : Alike(a.edges[m], g.edges[k])
    /\ \A m \in DOMAIN a.edges :
          \E k \in 1..i : Inside(g.edges[k], chosen) /\ Alike(a.edges[m], g.edges[k])
    /\ \A p \in DOMAIN base.nodes :
          AstInto(a, p) = {} => a.nodes[p].parent = base.nodes[p].parent

(* Of a stored edge, an insertion reads what a new edge has.               *)
LEMMA StoredEdgeInserted ==
    ASSUME NEW a, NEW e \in Edge
    PROVE  \E pub \in EdgeRequest : Alike(pub, e) /\ AddEdgeWithId(a, e) = AddEdgeWithId(a, pub)
  <1> DEFINE pub == [id |-> e.id, source |-> e.source, target |-> e.target, kind |-> e.kind]
  <1>1. pub \in EdgeRequest
    BY DEF Edge, EdgeRequest
  <1>2. pub.id = e.id /\ pub.source = e.source /\ pub.target = e.target /\ pub.kind = e.kind
    OBVIOUS
  <1> HIDE DEF pub
  <1>3. LinkEdge(a, e, Higher(a.next_edge_id, SaturatingSucc(e.id)))
            = LinkEdge(a, pub, Higher(a.next_edge_id, SaturatingSucc(pub.id)))
    BY <1>2, Zenon DEF LinkEdge
  <1>4. AddEdgeWithId(a, e) = AddEdgeWithId(a, pub)
    BY <1>2, <1>3, Zenon DEF AddEdgeWithId
  <1> QED
    BY <1>1, <1>2, <1>4 DEF Alike

(* One more edge inside the selection.                                     *)
LEMMA InduceOne ==
    ASSUME NEW g, Whole(g), NEW chosen, NEW base, NodeIds(base) = chosen \cap NodeIds(g),
           NEW i \in Nat, i + 1 \in DOMAIN g.edges, NEW a, Induced(g, chosen, base, i, a),
           NEW e, e = g.edges[i + 1], Inside(e, chosen)
    PROVE  Induced(g, chosen, base, i + 1, AddEdgeWithId(a, e))
  <1>0. Coherent(g) /\ TypedStore(g)
    BY DEF Whole
  <1>1. e \in Edge /\ HasEndpoints(g, e) /\ e.source \in chosen /\ e.target \in chosen
    BY <1>0, StoreFacts DEF Coherent, EndpointsStored, Inside
  <1>2. PICK pub \in EdgeRequest :
            Alike(pub, e) /\ AddEdgeWithId(a, e) = AddEdgeWithId(a, pub)
    BY <1>1, StoredEdgeInserted
  <1> DEFINE h == AddEdgeWithId(a, pub)
             n == EdgeCount(a) + 1
  <1>3. /\ Whole(a) /\ a.node_index_map = base.node_index_map
        /\ DOMAIN a.nodes = DOMAIN base.nodes
        /\ \A k \in 1..i : Inside(g.edges[k], chosen) =>
                              \E m \in DOMAIN a.edges : Alike(a.edges[m], g.edges[k])
        /\ \A m \in DOMAIN a.edges :
              \E k \in 1..i : Inside(g.edges[k], chosen) /\ Alike(a.edges[m], g.edges[k])
        /\ \A p \in DOMAIN base.nodes :
              AstInto(a, p) = {} => a.nodes[p].parent = base.nodes[p].parent
    BY DEF Induced
  <1>4. HasEndpoints(a, pub)
    <2>1. NodeIds(a) = NodeIds(base)
      BY <1>3 DEF NodeIds
    <2> QED
      BY <1>1, <1>2, <2>1 DEF HasEndpoints, Alike
  <1>5. i + 1 \in 1..(i + 1) /\ \A k : k \in 1..(i + 1) <=> k \in 1..i \/ k = i + 1
    OBVIOUS
  <1>6. \A k \in 1..i : k \in DOMAIN g.edges /\ k # i + 1
    BY <1>0, StoreFacts
  <1>7. \A m \in DOMAIN a.edges : a.edges[m].id # pub.id
    <2> SUFFICES ASSUME NEW m \in DOMAIN a.edges, a.edges[m].id = pub.id PROVE FALSE
      OBVIOUS
    <2>1. PICK k \in 1..i : Alike(a.edges[m], g.edges[k])
      BY <1>3
    <2>2. g.edges[k].id = g.edges[i + 1].id
      BY <1>2, <2>1 DEF Alike
    <2> QED
      BY <1>0, <1>6, <2>2 DEF Coherent, EdgesNumbered
  <1>8. Whole(h) /\ Gains(a, h, pub)
    BY <1>3, <1>4, <1>7, AddEdgeWithIdFacts
  <1> HIDE DEF h
  <1>9. /\ h.node_index_map = a.node_index_map /\ DOMAIN h.nodes = DOMAIN a.nodes
        /\ n \notin DOMAIN a.edges /\ DOMAIN h.edges = DOMAIN a.edges \cup {n}
        /\ \A k \in DOMAIN a.edges : h.edges[k] = a.edges[k]
        /\ Alike(h.edges[n], g.edges[i + 1])
        /\ \A p \in DOMAIN a.nodes : AstInto(h, p) = {} => h.nodes[p].parent = a.nodes[p].parent
    BY <1>2, <1>8 DEF Gains, Alike
  <1> HIDE DEF n
  <1>10. ASSUME NEW k \in 1..(i + 1), Inside(g.edges[k], chosen)
         PROVE  \E m \in DOMAIN h.edges : Alike(h.edges[m], g.edges[k])
    BY <1>3, <1>5, <1>9, <1>10
  <1>11. ASSUME NEW m \in DOMAIN h.edges
         PROVE  \E k \in 1..(i + 1) : Inside(g.edges[k], chosen) /\ Alike(h.edges[m], g.edges[k])
    BY <1>3, <1>5, <1>9
  <1>12. ASSUME NEW p \in DOMAIN base.nodes, AstInto(h, p) = {}
         PROVE  h.nodes[p].parent = base.nodes[p].parent
    <2>1. \A k \in DOMAIN a.edges : k \in AstInto(a, p) => k \in AstInto(h, p)
      BY <1>9 DEF AstInto
    <2>2. \A k \in AstInto(a, p) : k \in DOMAIN a.edges
      BY DEF AstInto
    <2>3. AstInto(a, p) = {}
      BY <1>12, <2>1, <2>2
    <2> QED
      BY <1>3, <1>9, <1>12, <2>3
  <1>13. Induced(g, chosen, base, i + 1, h)
    BY <1>3, <1>8, <1>9, <1>10, <1>11, <1>12 DEF Induced
  <1> QED
    BY <1>2, <1>13 DEF h

(* The induced edges are those of g inside the selection.                  *)
LEMMA EdgesInduced ==
    ASSUME NEW g, Whole(g), NEW ids \in Seq(NodeId),
           \A i, j \in DOMAIN ids : ids[i] = ids[j] => i = j
    PROVE  Induced(g, ToSet(ids), Selected(g, ids), EdgeCount(g), Subgraph(g, ids))
  <1> DEFINE n == EdgeCount(g)
             chosen == ToSet(ids)
             base == Selected(g, ids)
             k == [op |-> "induce", chosen |-> ToSet(ids)]
  <1>0. n \in Nat /\ DOMAIN g.edges = 1..n
    BY StoreFacts DEF Whole, EdgeCount
  <1>1. Subgraph(g, ids) = Folded(k, base, g.edges)
    BY InducedIsFolded
  <1>2. \A a, x : Step(k, a, x) = SelectEdge(a, x, chosen)
    BY DEF Step
  <1>3. /\ Picked(g, ids, Len(ids), base)
    BY NodesSelected
  <1>4. Whole(base) /\ DOMAIN base.edges = {}
    BY <1>3 DEF Picked
  <1>5. NodeIds(base) = chosen \cap NodeIds(g)
    <2>1. \A id : id \in chosen <=> \E j \in 1..Len(ids) : id = ids[j]
      BY DEF ToSet
    <2> HIDE DEF chosen, base
    <2>2. \A id : id \in NodeIds(base) <=> id \in NodeIds(g) /\ id \in chosen
      BY <1>3, <2>1, Zenon DEF Picked
    <2> QED
      BY <2>2
  <1> HIDE DEF k, chosen, base, n
  <1>6. PICK h : Visits(k, base, g.edges, n, h) /\ Folded(k, base, g.edges) = h[n]
    BY <1>0, FoldedVisits
  <1>7. Induced(g, chosen, base, 0, h[0])
    <2>1. h[0] = base
      BY <1>6 DEF Visits
    <2>2. \A x : x \notin 1..0
      OBVIOUS
    <2> QED
      BY <1>4, <2>1, <2>2 DEF Induced
  <1>8. ASSUME NEW i \in Nat, i < n, Induced(g, chosen, base, i, h[i])
        PROVE  Induced(g, chosen, base, i + 1, h[i + 1])
    <2> DEFINE a == h[i]
               e == g.edges[i + 1]
    <2>1. i + 1 \in 1..n /\ (i + 1) - 1 = i /\ i + 1 \in DOMAIN g.edges
      BY <1>0, <1>8
    <2>2. h[i + 1] = Step(k, h[(i + 1) - 1], g.edges[i + 1])
      BY <1>6, <2>1 DEF Visits
    <2>3. h[i + 1] = SelectEdge(a, e, chosen)
      BY <1>2, <2>1, <2>2
    <2>4. CASE Inside(e, chosen)
      <3>1. h[i + 1] = AddEdgeWithId(a, e)
        BY <2>3, <2>4 DEF SelectEdge, Inside
      <3> HIDE DEF a
      <3>2. Induced(g, chosen, base, i, a)
        BY <1>8 DEF a
      <3>3. Induced(g, chosen, base, i + 1, AddEdgeWithId(a, e))
        BY <1>5, <2>1, <2>4, <3>2, InduceOne
      <3> QED
        BY <3>1, <3>3
    <2>5. CASE ~Inside(e, chosen)
      <3>1. h[i + 1] = a
        BY <2>3, <2>5 DEF SelectEdge, Inside
      <3>2. i + 1 \in 1..(i + 1) /\ \A x : x \in 1..(i + 1) <=> x \in 1..i \/ x = i + 1
        OBVIOUS
      <3>3. Induced(g, chosen, base, i, a)
        BY <1>8
      <3> HIDE DEF a
      <3>4. Induced(g, chosen, base, i + 1, a)
        BY <2>5, <3>2, <3>3 DEF Induced
      <3> QED
        BY <3>1, <3>4
    <2> QED
      BY <2>4, <2>5
  <1> DEFINE G == {i \in Nat : Induced(g, chosen, base, i, h[i])}
  <1>9. 0 \in G /\ \A i \in Nat : i < n /\ i \in G => i + 1 \in G
    BY <1>7, <1>8
  <1>10. n \in G
    <2> HIDE DEF G
    <2> QED
      BY <1>0, <1>9, UpTo
  <1>11. Induced(g, chosen, base, n, Subgraph(g, ids))
    BY <1>1, <1>6, <1>10
  <1> QED
    BY <1>11 DEF chosen, base, n

-------------------------------------------------------------------------------
(* subgraph as a whole *)

\* part is the subgraph of g that the identifiers in chosen induce.
Selects(g, chosen, all, part) ==
    /\ Whole(part) /\ NodeIds(part) = chosen
    /\ \A k \in DOMAIN g.edges : Inside(g.edges[k], chosen) =>
                                    \E m \in DOMAIN part.edges : Alike(part.edges[m], g.edges[k])
    /\ \A m \in DOMAIN part.edges :
          \E k \in DOMAIN g.edges : Inside(g.edges[k], chosen) /\ Alike(part.edges[m], g.edges[k])
    /\ \A id \in chosen : AstInto(part, part.node_index_map[id]) = {} =>
                             NodeAt(part, id).parent = KeptParent(g, id, all)

(* The two stages of subgraph add up.                                      *)
LEMMA SubgraphSelects ==
    ASSUME NEW g, Whole(g), NEW ids \in Seq(NodeId),
           \A i, j \in DOMAIN ids : ids[i] = ids[j] => i = j
    PROVE  Selects(g, ToSet(ids) \cap NodeIds(g), ToSet(ids), Subgraph(g, ids))
  <1> DEFINE all == ToSet(ids)
             chosen == all \cap NodeIds(g)
             base == Selected(g, ids)
             h == Subgraph(g, ids)
             n == EdgeCount(g)
  <1>0. Coherent(g) /\ TypedStore(g) /\ n \in Nat /\ DOMAIN g.edges = 1..n
    BY StoreFacts DEF Whole, EdgeCount
  <1>1. Picked(g, ids, Len(ids), base)
    BY NodesSelected
  <1>2. Induced(g, all, base, n, h)
    BY EdgesInduced
  <1>3. \A id : id \in all <=> \E j \in 1..Len(ids) : id = ids[j]
    BY DEF ToSet
  <1> HIDE DEF all, base, h, n
  <1>4. NodeIds(base) = chosen
    <2>1. \A id : id \in NodeIds(base) <=> id \in NodeIds(g) /\ id \in all
      BY <1>1, <1>3, Zenon DEF Picked
    <2> QED
      BY <2>1
  <1>5. /\ Whole(h) /\ h.node_index_map = base.node_index_map /\ DOMAIN h.nodes = DOMAIN base.nodes
        /\ \A k \in DOMAIN g.edges : Inside(g.edges[k], all) =>
                                        \E m \in DOMAIN h.edges : Alike(h.edges[m], g.edges[k])
        /\ \A m \in DOMAIN h.edges :
              \E k \in DOMAIN g.edges : Inside(g.edges[k], all) /\ Alike(h.edges[m], g.edges[k])
        /\ \A p \in DOMAIN base.nodes :
              AstInto(h, p) = {} => h.nodes[p].parent = base.nodes[p].parent
    BY <1>0, <1>2 DEF Induced
  <1>6. \A k \in DOMAIN g.edges : Inside(g.edges[k], all) <=> Inside(g.edges[k], chosen)
    <2>1. \A k \in DOMAIN g.edges : /\ g.edges[k].source \in NodeIds(g)
                                    /\ g.edges[k].target \in NodeIds(g)
      BY <1>0 DEF Coherent, EndpointsStored, HasEndpoints
    <2> QED
      BY <2>1 DEF Inside
  <1>7. NodeIds(h) = chosen
    BY <1>4, <1>5 DEF NodeIds
  <1>8. ASSUME NEW id \in chosen, AstInto(h, h.node_index_map[id]) = {}
        PROVE  NodeAt(h, id).parent = KeptParent(g, id, all)
    <2>1. Coherent(base) /\ TypedStore(base) /\ NodeAt(base, id).parent = KeptParent(g, id, all)
      BY <1>1, <1>4, <1>8 DEF Picked, Whole, all
    <2>2. base.node_index_map[id] \in DOMAIN base.nodes
      BY <1>4, <1>8, <2>1, StoreFacts
    <2> HIDE DEF chosen
    <2>3. h.nodes[h.node_index_map[id]].parent = base.nodes[base.node_index_map[id]].parent
      BY <1>5, <1>8, <2>2
    <2> QED
      BY <2>1, <2>3 DEF NodeAt
  <1> HIDE DEF chosen
  <1>9. Selects(g, chosen, all, h)
    BY <1>5, <1>6, <1>7, <1>8 DEF Selects
  <1> QED
    BY <1>9 DEF chosen, all, h

(* The AST edges of the selection are those of the graph inside it.        *)
LEMMA SelectedAstEdges ==
    ASSUME NEW g, Whole(g), NEW chosen, NEW all, NEW h, Selects(g, chosen, all, h),
           chosen \subseteq NodeIds(g), NEW id \in chosen
    PROVE  LET p == h.node_index_map[id]
               q == g.node_index_map[id]
           IN /\ \A m \in AstInto(h, p) : \E k \in AstInto(g, q) :
                    Alike(h.edges[m], g.edges[k]) /\ g.edges[k].source \in chosen
              /\ \A k \in AstInto(g, q) : g.edges[k].source \in chosen =>
                    \E m \in AstInto(h, p) : Alike(h.edges[m], g.edges[k])
              /\ \A m \in AstOutOf(h, p) : \E k \in AstOutOf(g, q) :
                    Alike(h.edges[m], g.edges[k]) /\ g.edges[k].target \in chosen
              /\ \A k \in AstOutOf(g, q) : g.edges[k].target \in chosen =>
                    \E m \in AstOutOf(h, p) : Alike(h.edges[m], g.edges[k])
  <1> DEFINE p == h.node_index_map[id]
             q == g.node_index_map[id]
  <1>0. Coherent(g) /\ Coherent(h) /\ id \in NodeIds(g) /\ id \in NodeIds(h)
    BY DEF Whole, Selects
  <1>1. \A k : /\ k \in AstInto(g, q) <=>
                     k \in DOMAIN g.edges /\ g.edges[k].kind = AstChild /\ g.edges[k].target = id
               /\ k \in AstOutOf(g, q) <=>
                     k \in DOMAIN g.edges /\ g.edges[k].kind = AstChild /\ g.edges[k].source = id
    BY <1>0, AstEdgesById
  <1>2. \A k : /\ k \in AstInto(h, p) <=>
                     k \in DOMAIN h.edges /\ h.edges[k].kind = AstChild /\ h.edges[k].target = id
               /\ k \in AstOutOf(h, p) <=>
                     k \in DOMAIN h.edges /\ h.edges[k].kind = AstChild /\ h.edges[k].source = id
    BY <1>0, AstEdgesById
  <1>3. /\ \A k \in DOMAIN g.edges :
              g.edges[k].source \in chosen /\ g.edges[k].target \in chosen =>
                 \E m \in DOMAIN h.edges : Alike(h.edges[m], g.edges[k])
        /\ \A m \in DOMAIN h.edges :
              \E k \in DOMAIN g.edges : /\ Alike(h.edges[m], g.edges[k])
                                        /\ g.edges[k].source \in chosen
                                        /\ g.edges[k].target \in chosen
    BY DEF Selects, Inside
  <1> HIDE DEF p, q
  <1>4. \A m \in AstInto(h, p) : \E k \in AstInto(g, q) :
           Alike(h.edges[m], g.edges[k]) /\ g.edges[k].source \in chosen
    <2> SUFFICES ASSUME NEW m \in AstInto(h, p)
                 PROVE  \E k \in AstInto(g, q) :
                           Alike(h.edges[m], g.edges[k]) /\ g.edges[k].source \in chosen
      OBVIOUS
    <2>1. PICK k \in DOMAIN g.edges : Alike(h.edges[m], g.edges[k]) /\ g.edges[k].source \in chosen
      BY <1>2, <1>3
    <2>2. k \in AstInto(g, q)
      BY <1>1, <1>2, <2>1 DEF Alike
    <2> QED
      BY <2>1, <2>2
  <1>5. \A k \in AstInto(g, q) : g.edges[k].source \in chosen =>
           \E m \in AstInto(h, p) : Alike(h.edges[m], g.edges[k])
    <2> SUFFICES ASSUME NEW k \in AstInto(g, q), g.edges[k].source \in chosen
                 PROVE  \E m \in AstInto(h, p) : Alike(h.edges[m], g.edges[k])
      OBVIOUS
    <2>1. PICK m \in DOMAIN h.edges : Alike(h.edges[m], g.edges[k])
      BY <1>1, <1>3
    <2>2. m \in AstInto(h, p)
      BY <1>1, <1>2, <2>1 DEF Alike
    <2> QED
      BY <2>1, <2>2
  <1>6. \A m \in AstOutOf(h, p) : \E k \in AstOutOf(g, q) :
           Alike(h.edges[m], g.edges[k]) /\ g.edges[k].target \in chosen
    <2> SUFFICES ASSUME NEW m \in AstOutOf(h, p)
                 PROVE  \E k \in AstOutOf(g, q) :
                           Alike(h.edges[m], g.edges[k]) /\ g.edges[k].target \in chosen
      OBVIOUS
    <2>1. PICK k \in DOMAIN g.edges : Alike(h.edges[m], g.edges[k]) /\ g.edges[k].target \in chosen
      BY <1>2, <1>3
    <2>2. k \in AstOutOf(g, q)
      BY <1>1, <1>2, <2>1 DEF Alike
    <2> QED
      BY <2>1, <2>2
  <1>7. \A k \in AstOutOf(g, q) : g.edges[k].target \in chosen =>
           \E m \in AstOutOf(h, p) : Alike(h.edges[m], g.edges[k])
    <2> SUFFICES ASSUME NEW k \in AstOutOf(g, q), g.edges[k].target \in chosen
                 PROVE  \E m \in AstOutOf(h, p) : Alike(h.edges[m], g.edges[k])
      OBVIOUS
    <2>1. PICK m \in DOMAIN h.edges : Alike(h.edges[m], g.edges[k])
      BY <1>1, <1>3
    <2>2. m \in AstOutOf(h, p)
      BY <1>1, <1>2, <2>1 DEF Alike
    <2> QED
      BY <2>1, <2>2
  <1> QED
    BY <1>4, <1>5, <1>6, <1>7 DEF p, q

(* A selected node keeps its parent where the parent is selected too.      *)
LEMMA SelectedParent ==
    ASSUME NEW g, Whole(g), NEW chosen, NEW all, NEW h, Selects(g, chosen, all, h),
           chosen \subseteq NodeIds(g), chosen \subseteq all, NEW id \in chosen
    PROVE  /\ NodeAt(g, id).parent \in chosen => NodeAt(h, id).parent = NodeAt(g, id).parent
           /\ NodeAt(h, id).parent \in all \cup {None}
  <1> DEFINE p == h.node_index_map[id]
             q == g.node_index_map[id]
  <1>0. /\ Coherent(g) /\ TypedStore(g) /\ Coherent(h) /\ TypedStore(h)
        /\ id \in NodeIds(g) /\ id \in NodeIds(h)
        /\ \A i \in DOMAIN g.nodes : TreeAt(g, i, g.nodes[i])
        /\ \A i \in DOMAIN h.nodes : TreeAt(h, i, h.nodes[i])
    BY DEF Whole, Selects
  <1>1. CASE AstInto(h, p) = {}
    <2>1. NodeAt(h, id).parent = KeptParent(g, id, all)
      BY <1>1 DEF Selects
    <2> QED
      BY <2>1 DEF KeptParent
  <1>2. CASE AstInto(h, p) # {}
    <2>1. /\ \A m \in AstInto(h, p) : \E k \in AstInto(g, q) :
                Alike(h.edges[m], g.edges[k]) /\ g.edges[k].source \in chosen
          /\ \A k \in AstInto(g, q) : g.edges[k].source \in chosen =>
                \E m \in AstInto(h, p) : Alike(h.edges[m], g.edges[k])
      BY SelectedAstEdges
    <2>2. p \in DOMAIN h.nodes /\ q \in DOMAIN g.nodes
      BY <1>0, StoreFacts
    <2>3. /\ NodeAt(h, id).parent = LowestAstSource(h, p)
          /\ AstInto(g, q) # {} => NodeAt(g, id).parent = LowestAstSource(g, q)
      BY <1>0, <1>2, <2>2 DEF TreeAt, NodeAt
    <2> HIDE DEF p, q
    <2>4. PICK m \in AstInto(h, p) : \A j \in AstInto(h, p) : h.edges[m].id <= h.edges[j].id
      BY <1>0, <1>2, LowestExists
    <2>5. LowestAstSource(h, p) = h.edges[m].source
      BY <1>0, <2>4, LowestFacts
    <2>6. h.edges[m].source \in chosen
      BY <2>1 DEF Alike
    <2>7. AstInto(g, q) # {}
      BY <2>1, <2>4
    <2>8. PICK low \in AstInto(g, q) : \A j \in AstInto(g, q) : g.edges[low].id <= g.edges[j].id
      BY <1>0, <2>7, LowestExists
    <2>9. NodeAt(g, id).parent = g.edges[low].source
      BY <1>0, <2>3, <2>7, <2>8, LowestFacts
    <2>10. ASSUME g.edges[low].source \in chosen
           PROVE  h.edges[m].source = g.edges[low].source
      <3>1. PICK n \in AstInto(h, p) : Alike(h.edges[n], g.edges[low])
        BY <2>1, <2>10
      <3>2. PICK k \in AstInto(g, q) : Alike(h.edges[m], g.edges[k])
        BY <2>1
      <3>3. /\ g.edges[low].id <= g.edges[k].id /\ h.edges[m].id <= h.edges[n].id
            /\ h.edges[n].id = g.edges[low].id /\ h.edges[m].id = g.edges[k].id
        BY <2>4, <2>8, <3>1, <3>2 DEF Alike
      <3>4. low \in DOMAIN g.edges /\ k \in DOMAIN g.edges
        BY DEF AstInto
      <3>5. g.edges[low].id \in Int /\ g.edges[k].id \in Int
        BY <1>0, <3>4, MaxIdAssumption DEF Coherent, EdgeCounterAhead, EdgeId
      <3>6. g.edges[low].id = g.edges[k].id
        BY <3>3, <3>5
      <3>7. low = k
        BY <1>0, <3>4, <3>6 DEF Coherent, EdgesNumbered
      <3> QED
        BY <3>2, <3>7 DEF Alike
    <2> QED
      BY <2>3, <2>5, <2>6, <2>9, <2>10
  <1> QED
    BY <1>1, <1>2

KeptPositions(list, chosen) == {i \in DOMAIN list : list[i] \in chosen}

\* The members of list that are in chosen, in their order.
KeptList(list, chosen) ==
    LET row == Ascending(KeptPositions(list, chosen)) IN [i \in DOMAIN row |-> list[row[i]]]

Rising(S) == {p \in S \X S : p[1] < p[2]}

(* Positions are listed in ascending order.                                *)
LEMMA AscendingLists ==
    ASSUME NEW n \in Nat, NEW S \in SUBSET (1..n)
    PROVE  Lists(Ascending(S), S, Rising(S))
  <1> DEFINE R == Rising(S)
  <1>1. \A a, b \in S : <<a, b>> \in R <=> a < b
    BY DEF Rising
  <1>2. \A a \in S : a \in Nat
    OBVIOUS
  <1>3. IsFiniteSet(S)
    <2>1. IsFiniteSet(1..n)
      <3>1. /\ IsFiniteSet(1..n)
            /\ Cardinality(1..n) = IF 1 > n THEN 0 ELSE n - 1 + 1
        BY FS_Interval
      <3> QED
        BY <3>1
    <2> QED
      BY <2>1, FS_Subset
  <1> HIDE DEF R
  <1>4. StrictOrder(S, R)
    BY <1>1, <1>2 DEF StrictOrder
  <1>5. Lists(Sorted(S, R), S, R)
    BY <1>3, <1>4, SortedLists
  <1> QED
    BY <1>5 DEF Ascending, Rising, R

(* A selected node keeps the selected ones of its children, in their order.*)
LEMMA SelectedChildren ==
    ASSUME NEW g, Whole(g), NEW chosen, NEW all, NEW h, Selects(g, chosen, all, h),
           chosen \subseteq NodeIds(g), NEW id \in chosen
    PROVE  NodeAt(h, id).children = KeptList(NodeAt(g, id).children, chosen)
  <1> DEFINE p == h.node_index_map[id]
             q == g.node_index_map[id]
             S == AstOutOf(g, q)
             T == AstOutOf(h, p)
             list == AstRow(g, q)
             P == KeptPositions(list, chosen)
             row == Ascending(P)
  <1>0. /\ Coherent(g) /\ TypedStore(g) /\ Coherent(h) /\ TypedStore(h)
        /\ id \in NodeIds(g) /\ id \in NodeIds(h)
        /\ \A i \in DOMAIN g.nodes : TreeAt(g, i, g.nodes[i])
        /\ \A i \in DOMAIN h.nodes : TreeAt(h, i, h.nodes[i])
    BY DEF Whole, Selects
  <1>1. /\ \A m \in T : \E k \in S : Alike(h.edges[m], g.edges[k]) /\ g.edges[k].target \in chosen
        /\ \A k \in S : g.edges[k].target \in chosen =>
              \E m \in T : Alike(h.edges[m], g.edges[k])
    BY SelectedAstEdges
  <1>2. NodeAt(h, id).children = AstRow(h, p) /\ NodeAt(g, id).children = list
    <2>1. p \in DOMAIN h.nodes /\ q \in DOMAIN g.nodes
      BY <1>0, StoreFacts
    <2> QED
      BY <1>0, <2>1 DEF TreeAt, NodeAt
  <1>3. S \in SUBSET DOMAIN g.edges /\ T \in SUBSET DOMAIN h.edges
    BY DEF AstOutOf
  <1> DEFINE r == InIdOrder(g, S)
  <1>4. Lists(r, S, ByEdgeId(g)) /\ StrictOrder(S, ByEdgeId(g)) /\ StrictOrder(T, ByEdgeId(h))
    <2>1. IsFiniteSet(S) /\ StrictOrder(S, ByEdgeId(g))
      <3> HIDE DEF S
      <3> QED
        BY <1>0, <1>3, StoreFacts, FS_Subset, IdsOrderEdges
    <2>2. StrictOrder(T, ByEdgeId(h))
      <3> HIDE DEF T
      <3> QED
        BY <1>0, <1>3, IdsOrderEdges
    <2> HIDE DEF S
    <2> QED
      BY <2>1, <2>2, SortedLists DEF InIdOrder
  <1>5. list = [i \in 1..Len(r) |-> g.edges[r[i]].target]
    BY DEF AstRow
  <1>6. AstRow(h, p) = LET o == InIdOrder(h, T) IN [i \in 1..Len(o) |-> h.edges[o[i]].target]
    BY DEF AstRow
  <1> HIDE DEF r, S, T, list
  <1>7. /\ Len(r) \in Nat /\ DOMAIN r = 1..Len(r)
        /\ \A i \in 1..Len(r) : r[i] \in S
        /\ \A k \in S : \E i \in 1..Len(r) : r[i] = k
        /\ \A i, j \in 1..Len(r) : i < j => <<r[i], r[j]>> \in ByEdgeId(g)
    <2>1. /\ r \in Seq(S)
          /\ \A k \in S : \E i \in DOMAIN r : r[i] = k
          /\ \A i, j \in DOMAIN r : i < j => <<r[i], r[j]>> \in ByEdgeId(g)
      BY <1>4, Zenon DEF Lists
    <2>2. Len(r) \in Nat /\ DOMAIN r = 1..Len(r) /\ \A i \in 1..Len(r) : r[i] \in S
      BY <2>1
    <2> QED
      BY <2>1, <2>2, Zenon
  <1>8. /\ DOMAIN list = 1..Len(r)
        /\ \A i \in 1..Len(r) : list[i] = g.edges[r[i]].target
    BY <1>5
  <1>9. P \in SUBSET (1..Len(r)) /\ \A i : i \in P <=> i \in 1..Len(r) /\ list[i] \in chosen
    BY <1>8 DEF KeptPositions
  <1> HIDE DEF P
  <1>10. Lists(row, P, Rising(P))
    BY <1>7, <1>9, AscendingLists
  <1> HIDE DEF row
  <1> DEFINE f == [i \in P |-> CHOOSE m \in T : Alike(h.edges[m], g.edges[r[i]])]
  <1>11. ASSUME NEW i \in P
         PROVE  f[i] \in T /\ Alike(h.edges[f[i]], g.edges[r[i]])
    <2>1. r[i] \in S /\ g.edges[r[i]].target \in chosen
      BY <1>7, <1>8, <1>9
    <2>2. \E m \in T : Alike(h.edges[m], g.edges[r[i]])
      BY <1>1, <2>1
    <2> QED
      BY <2>2
  <1> HIDE DEF f
  <1>12. ASSUME NEW m \in T PROVE \E i \in P : m = f[i]
    <2>1. PICK k \in S : Alike(h.edges[m], g.edges[k]) /\ g.edges[k].target \in chosen
      BY <1>1
    <2>2. PICK i \in 1..Len(r) : r[i] = k
      BY <1>7
    <2>3. i \in P
      BY <1>8, <1>9, <2>1, <2>2
    <2>4. h.edges[f[i]].id = h.edges[m].id
      BY <1>11, <2>1, <2>2, <2>3 DEF Alike
    <2>5. m \in DOMAIN h.edges /\ f[i] \in DOMAIN h.edges
      BY <1>3, <1>11, <2>3
    <2>6. f[i] = m
      BY <1>0, <2>4, <2>5 DEF Coherent, EdgesNumbered
    <2> QED
      BY <2>3, <2>6
  <1>13. ASSUME NEW i \in P, NEW j \in P, <<i, j>> \in Rising(P)
         PROVE  <<f[i], f[j]>> \in ByEdgeId(h)
    <2>1. i < j
      BY <1>13 DEF Rising
    <2>2. <<r[i], r[j]>> \in ByEdgeId(g)
      BY <1>7, <1>9, <2>1
    <2>3. g.edges[r[i]].id < g.edges[r[j]].id
      BY <2>2 DEF ByEdgeId
    <2>4. h.edges[f[i]].id < h.edges[f[j]].id
      BY <1>11, <2>3 DEF Alike
    <2>5. f[i] \in DOMAIN h.edges /\ f[j] \in DOMAIN h.edges
      BY <1>3, <1>11
    <2> QED
      BY <2>4, <2>5 DEF ByEdgeId
  <1>14. Orderly(f, P, Rising(P), T, ByEdgeId(h))
    BY <1>11, <1>12, <1>13 DEF Orderly
  <1> DEFINE t == Along(f, row)
  <1>15. /\ Lists(t, T, ByEdgeId(h)) /\ Len(t) = Len(row) /\ Len(row) \in Nat
         /\ \A i \in 1..Len(row) : row[i] \in P
    BY <1>10, <1>14, ListingMapped
  <1>16. \A i \in 1..Len(row) : t[i] = f[row[i]]
    BY DEF Along
  <1> HIDE DEF t
  <1>17. t = InIdOrder(h, T)
    BY <1>4, <1>15, ListingIsSorted DEF InIdOrder
  <1>18. AstRow(h, p) = [i \in 1..Len(row) |-> h.edges[t[i]].target]
    BY <1>6, <1>15, <1>17
  <1>19. ASSUME NEW i \in 1..Len(row) PROVE h.edges[t[i]].target = list[row[i]]
    <2>1. row[i] \in P /\ t[i] = f[row[i]]
      BY <1>15, <1>16
    <2>2. list[row[i]] = g.edges[r[row[i]]].target
      BY <1>8, <1>9, <2>1
    <2> QED
      BY <1>11, <2>1, <2>2 DEF Alike
  <1>20. DOMAIN row = 1..Len(row)
    BY <1>10 DEF Lists
  <1>21. AstRow(h, p) = [i \in DOMAIN row |-> list[row[i]]]
    BY <1>18, <1>19, <1>20
  <1> QED
    BY <1>2, <1>21 DEF KeptList, row, P

-------------------------------------------------------------------------------
(* The specification *)

\* The root is known as soon as there is a node.
RootKnown(g) == g.root \in NodeIds(g) \/ (g.root = None /\ NodeIds(g) = {})

\* The two graphs as their growth leaves them.
SourceGrown(s) ==
    /\ Whole(s) /\ RootKnown(s)
    /\ NodeCount(s) <= MaxSource /\ EdgeCount(s) <= MaxSourceEdges

DestinationGrown(d) ==
    /\ Whole(d) /\ RootKnown(d)
    /\ NodeCount(d) <= MaxDestination /\ d.next_node_id = NodeCount(d)
    /\ EdgeCount(d) <= MaxDestination /\ d.next_edge_id = EdgeCount(d)
    /\ d.cfg_exits = <<>>

CompositionInv ==
    /\ SourceGrown(src)
    /\ Building => DestinationGrown(dst)
    /\ Merged => DestinationGrown(before) /\ Merges(before, src, dst, remap)
    /\ Extracted => request \in Requests /\ sub = Subgraph(src, request)

(* What holds of a whole graph, in the words of the model.                 *)
LEMMA WholeIsWellFormed ==
    ASSUME NEW g, Whole(g)
    PROVE  WellFormed(g)
  <1>0. Coherent(g) /\ \A i \in DOMAIN g.nodes : TreeAt(g, i, g.nodes[i])
    BY DEF Whole
  <1>1. UniqueIdentifiers(g)
    BY <1>0, Zenon DEF Coherent, NodesIndexed, EdgesNumbered, UniqueIdentifiers
  <1>2. EndpointsStored(g)
    BY <1>0 DEF Coherent
  <1>3. ChildListsExact(g)
    BY <1>0 DEF ChildListsExact, TreeAt
  <1>4. ParentsCanonical(g)
    BY <1>0 DEF ParentsCanonical, TreeAt
  <1> QED
    BY <1>1, <1>2, <1>3, <1>4 DEF WellFormed

(* A graph has a node if and only if it knows one.                         *)
LEMMA NoNodeNoId ==
    ASSUME NEW g, Coherent(g), TypedStore(g)
    PROVE  /\ g.nodes = <<>> <=> NodeIds(g) = {}
           /\ NodeCount(g) = 0 <=> NodeIds(g) = {}
  <1>1. /\ DOMAIN g.nodes = 1..NodeCount(g) /\ NodeCount(g) \in Nat
        /\ \A id \in NodeIds(g) : g.node_index_map[id] \in DOMAIN g.nodes
        /\ \A i \in DOMAIN g.nodes : g.nodes[i].id \in NodeIds(g)
    BY StoreFacts DEF Coherent, NodesIndexed, NodeCount
  <1>2. g.nodes \in Seq(Node)
    BY DEF TypedStore
  <1>3. g.nodes = <<>> <=> NodeCount(g) = 0
    BY <1>2 DEF NodeCount
  <1>4. NodeCount(g) = 0 <=> DOMAIN g.nodes = {}
    BY <1>1
  <1>5. DOMAIN g.nodes = {} <=> NodeIds(g) = {}
    BY <1>1
  <1> QED
    BY <1>3, <1>4, <1>5

(* What is taken in turn: an empty graph, and one insertion after another. *)
LEMMA EmptyStoreGrown == SourceGrown(EmptyStore) /\ DestinationGrown(EmptyStore)
  <1>1. /\ NodeIds(EmptyStore) = {} /\ EmptyStore.root = None
        /\ NodeCount(EmptyStore) = 0 /\ EdgeCount(EmptyStore) = 0
        /\ EmptyStore.next_node_id = 0 /\ EmptyStore.next_edge_id = 0
        /\ EmptyStore.cfg_exits = <<>>
    BY DEF EmptyStore, NodeIds, NodeCount, EdgeCount
  <1>2. MaxSource >= 0 /\ MaxSourceEdges >= 0 /\ MaxDestination >= 0
    BY CompositionAssumption
  <1>3. RootKnown(EmptyStore)
    BY <1>1 DEF RootKnown
  <1> QED
    BY <1>1, <1>2, <1>3, EmptyStoreWhole DEF SourceGrown, DestinationGrown

(* Blank nodes are nodes, whatever they are filled with.                   *)
LEMMA BlankIsNode == Blank \in Node /\ Blank.children = <<>>
  BY MaxIdAssumption DEF Blank, Node, NodeId

Filled(id, refs, p) == [Blank EXCEPT !.id = id, !.refs = refs, !.parent = p]

(* The nodes the source grows by.                                          *)
LEMMA FilledNodes ==
    ASSUME NEW id \in NodeId, NEW refs \in SUBSET NodeId, NEW p \in NodeId \cup {None}
    PROVE  /\ Filled(id, refs, p) \in Node
           /\ Filled(id, refs, p).id = id /\ Filled(id, refs, p).children = <<>>
  <1> DEFINE a == [Blank EXCEPT !.id = id]
             b == [a EXCEPT !.refs = refs]
             node == Filled(id, refs, p)
  <1>1. a \in Node /\ a.id = id /\ a.children = <<>>
    BY BlankIsNode, RewrittenNodes
  <1>2. node = [b EXCEPT !.parent = p]
    BY BlankIsNode DEF Node, Filled
  <1> HIDE DEF a, node
  <1>3. b \in Node /\ b.id = id /\ b.children = <<>>
    BY <1>1, RewrittenNodes
  <1> HIDE DEF b
  <1>4. node \in Node /\ node.id = id /\ node.children = <<>>
    BY <1>2, <1>3, RewrittenNodes
  <1> QED
    BY <1>4 DEF node

(* The bounds leave every identifier that is taken below the last one.     *)
LEMMA BoundsFacts ==
    /\ MaxSource \in Nat /\ MaxSourceEdges \in Nat /\ MaxDestination \in Nat /\ MaxId \in Nat
    /\ MaxSource + MaxDestination <= MaxId /\ MaxSourceEdges + MaxDestination <= MaxId
    /\ SourceKinds \subseteq Kinds /\ SourceIds \subseteq NodeId /\ BoundaryIds \subseteq NodeId
    /\ SourceRefs \subseteq SUBSET NodeId /\ SourceParents \subseteq NodeId \cup {None}
    /\ Requests \subseteq Seq(NodeId)
  <1>1. /\ MaxSource \in Nat /\ MaxSourceEdges \in Nat /\ MaxDestination \in Nat /\ MaxId \in Nat
        /\ 2 * (MaxSource + MaxDestination) <= MaxId
        /\ MaxSourceEdges + MaxDestination <= MaxId
    BY CompositionAssumption, MaxIdAssumption
  <1>2. MaxSource + MaxDestination <= MaxId
    BY <1>1
  <1>3. /\ SourceKinds \subseteq Kinds /\ SourceIds \subseteq NodeId /\ BoundaryIds \subseteq NodeId
        /\ SourceRefs \subseteq SUBSET NodeId /\ SourceParents \subseteq NodeId \cup {None}
        /\ Requests \subseteq Seq(NodeId)
    BY CompositionAssumption
  <1> QED
    BY <1>1, <1>2, <1>3

(* Recording a boundary identifier, stored or not, keeps a graph whole.    *)
LEMMA BoundaryRecorded ==
    ASSUME NEW g, Whole(g), RootKnown(g), NEW id \in NodeId,
           NEW h, h = AddCfgEntry(g, id) \/ h = AddCfgExit(g, id)
    PROVE  /\ Whole(h) /\ RootKnown(h)
           /\ NodeCount(h) = NodeCount(g) /\ EdgeCount(h) = EdgeCount(g)
           /\ h.next_node_id = g.next_node_id /\ h.next_edge_id = g.next_edge_id
           /\ h = AddCfgEntry(g, id) => h.cfg_exits = g.cfg_exits
  <1>0. Coherent(g) /\ TypedStore(g) /\ HasShape(g)
    BY DEF Whole, Coherent
  <1>1. \A list \in Seq(NodeId) : PushNew(list, id) \in Seq(NodeId)
    BY DEF PushNew
  <1> DEFINE entries == PushNew(g.cfg_entries, id)
             exits == PushNew(g.cfg_exits, id)
  <1>2. entries \in Seq(NodeId) /\ exits \in Seq(NodeId)
    BY <1>0, <1>1 DEF TypedStore
  <1>3. \/ h = [g EXCEPT !.cfg_entries = entries]
        \/ h = [g EXCEPT !.cfg_exits = exits]
    BY DEF AddCfgEntry, AddCfgExit
  <1>4. h = AddCfgEntry(g, id) => h = [g EXCEPT !.cfg_entries = entries]
    BY DEF AddCfgEntry
  <1> HIDE DEF entries, exits
  <1>5. /\ HasShape(h) /\ h.nodes = g.nodes /\ h.node_index_map = g.node_index_map
        /\ h.edges = g.edges /\ h.root = g.root
        /\ h.next_node_id = g.next_node_id /\ h.next_edge_id = g.next_edge_id
    BY <1>0, <1>3 DEF HasShape
  <1>6. /\ h.cfg_entries \in {g.cfg_entries, entries} /\ h.cfg_exits \in {g.cfg_exits, exits}
        /\ h = AddCfgEntry(g, id) => h.cfg_exits = g.cfg_exits
    BY <1>0, <1>3, <1>4 DEF HasShape
  <1>7. h.cfg_entries \in Seq(NodeId) /\ h.cfg_exits \in Seq(NodeId) /\ h.root \in NodeId \cup {None}
    BY <1>0, <1>2, <1>5, <1>6 DEF TypedStore
  <1>8. Whole(h)
    BY <1>5, <1>7, MetadataWhole
  <1>9. RootKnown(h)
    BY <1>5 DEF RootKnown, NodeIds
  <1> QED
    BY <1>5, <1>6, <1>8, <1>9 DEF NodeCount, EdgeCount

(* The source grows by nodes and edges under given identifiers.            *)
LEMMA SourceGrows ==
    ASSUME NEW s, SourceGrown(s)
    PROVE  /\ \A node \in Node :
                 NodeCount(s) < MaxSource /\ node.id \notin NodeIds(s) /\ node.children = <<>>
                 => SourceGrown(AddNodeWithId(s, node))
           /\ \A e \in EdgeRequest :
                 EdgeCount(s) < MaxSourceEdges /\ HasEndpoints(s, e)
                 /\ (\A k \in DOMAIN s.edges : s.edges[k].id # e.id)
                 => SourceGrown(AddEdgeWithId(s, e))
           /\ \A id \in NodeId :
                 SourceGrown(AddCfgEntry(s, id)) /\ SourceGrown(AddCfgExit(s, id))
  <1>0. /\ Whole(s) /\ RootKnown(s) /\ Coherent(s) /\ TypedStore(s)
        /\ NodeCount(s) <= MaxSource /\ EdgeCount(s) <= MaxSourceEdges
        /\ NodeCount(s) \in Nat /\ EdgeCount(s) \in Nat
    BY StoreFacts DEF SourceGrown, Whole, NodeCount, EdgeCount
  <1>1. ASSUME NEW node \in Node, NodeCount(s) < MaxSource,
               node.id \notin NodeIds(s), node.children = <<>>
        PROVE  SourceGrown(AddNodeWithId(s, node))
    <2> DEFINE next == Higher(s.next_node_id, SaturatingSucc(node.id))
               h == PushNode(s, node, next)
    <2>1. Whole(h)
      BY <1>0, <1>1, AddNodeWithIdWhole DEF AddNodeWithId
    <2> HIDE DEF next
    <2>2. /\ Len(h.nodes) = Len(s.nodes) + 1
          /\ NodeIds(h) = NodeIds(s) \cup {node.id} /\ h.edges = s.edges
          /\ h.root = IF s.root = None THEN node.id ELSE s.root
      BY <1>0, PushNodeFacts
    <2> HIDE DEF h
    <2>3. NodeCount(h) = NodeCount(s) + 1 /\ EdgeCount(h) = EdgeCount(s)
      BY <2>2 DEF NodeCount, EdgeCount
    <2>4. RootKnown(h)
      BY <1>0, <2>2 DEF RootKnown
    <2>5. NodeCount(h) <= MaxSource
      BY <1>0, <1>1, <2>3, BoundsFacts
    <2>6. SourceGrown(h)
      BY <1>0, <2>1, <2>3, <2>4, <2>5 DEF SourceGrown
    <2> QED
      BY <2>6 DEF h, next, AddNodeWithId
  <1>2. ASSUME NEW e \in EdgeRequest, EdgeCount(s) < MaxSourceEdges, HasEndpoints(s, e),
               \A k \in DOMAIN s.edges : s.edges[k].id # e.id
        PROVE  SourceGrown(AddEdgeWithId(s, e))
    <2> DEFINE h == AddEdgeWithId(s, e)
    <2>1. Whole(h) /\ Gains(s, h, e)
      BY <1>0, <1>2, AddEdgeWithIdFacts
    <2> HIDE DEF h
    <2>2. /\ h.node_index_map = s.node_index_map /\ DOMAIN h.nodes = DOMAIN s.nodes
          /\ EdgeCount(h) = EdgeCount(s) + 1 /\ h.root = s.root
      BY <2>1 DEF Gains
    <2>3. RootKnown(h)
      BY <1>0, <2>2 DEF RootKnown, NodeIds
    <2>4. NodeCount(h) = NodeCount(s)
      <3>1. h.nodes \in Seq(Node) /\ s.nodes \in Seq(Node)
        BY <1>0, <2>1 DEF Whole, TypedStore
      <3> QED
        BY <2>2, <3>1 DEF NodeCount
    <2>5. EdgeCount(h) <= MaxSourceEdges
      BY <1>0, <1>2, <2>2, BoundsFacts
    <2>6. SourceGrown(h)
      BY <1>0, <2>1, <2>3, <2>4, <2>5 DEF SourceGrown
    <2> QED
      BY <2>6 DEF h
  <1>3. ASSUME NEW id \in NodeId, NEW h, h = AddCfgEntry(s, id) \/ h = AddCfgExit(s, id)
        PROVE  SourceGrown(h)
    <2>1. Whole(h) /\ RootKnown(h) /\ NodeCount(h) = NodeCount(s) /\ EdgeCount(h) = EdgeCount(s)
      BY <1>0, <1>3, BoundaryRecorded
    <2> QED
      BY <1>0, <2>1 DEF SourceGrown
  <1> QED
    BY <1>1, <1>2, <1>3

(* The destination grows by nodes and edges under fresh identifiers.       *)
LEMMA DestinationGrows ==
    ASSUME NEW d, DestinationGrown(d)
    PROVE  /\ NodeCount(d) < MaxDestination => DestinationGrown(AddNode(d, Blank))
           /\ \A e \in EdgeRequest : EdgeCount(d) < MaxDestination /\ HasEndpoints(d, e)
                 => DestinationGrown(AddEdge(d, e))
           /\ \A id \in NodeId : DestinationGrown(AddCfgEntry(d, id))
  <1>0. /\ Whole(d) /\ RootKnown(d) /\ Coherent(d) /\ TypedStore(d)
        /\ NodeCount(d) <= MaxDestination /\ EdgeCount(d) <= MaxDestination
        /\ d.next_node_id = NodeCount(d) /\ d.next_edge_id = EdgeCount(d)
        /\ NodeCount(d) \in Nat /\ EdgeCount(d) \in Nat /\ d.cfg_exits = <<>>
    BY StoreFacts DEF DestinationGrown, Whole, NodeCount, EdgeCount
  <1>1. ASSUME NodeCount(d) < MaxDestination
        PROVE  DestinationGrown(AddNode(d, Blank))
    <2> DEFINE h == AddNode(d, Blank)
    <2>1. d.next_node_id < MaxId
      BY <1>0, <1>1, BoundsFacts
    <2>2. CanTakeNodeId(d)
      BY <1>0, <2>1, BoundsFacts DEF CanTakeNodeId
    <2>3. Whole(h)
      BY <1>0, <2>2, BlankIsNode, AddNodeWhole
    <2>4. /\ Len(h.nodes) = Len(d.nodes) + 1
          /\ NodeIds(h) = NodeIds(d) \cup {d.next_node_id}
          /\ h.edges = d.edges /\ h.next_edge_id = d.next_edge_id
          /\ h.next_node_id = d.next_node_id + 1
          /\ h.root = IF d.root = None THEN d.next_node_id ELSE d.root
          /\ h.cfg_exits = d.cfg_exits
      BY <1>0, <2>1, BlankIsNode, AddNodeFacts
    <2> HIDE DEF h
    <2>5. NodeCount(h) = NodeCount(d) + 1 /\ EdgeCount(h) = EdgeCount(d)
      BY <2>4 DEF NodeCount, EdgeCount
    <2>6. RootKnown(h)
      BY <1>0, <2>4 DEF RootKnown
    <2>7. NodeCount(h) <= MaxDestination
      BY <1>0, <1>1, <2>5, BoundsFacts
    <2>8. DestinationGrown(h)
      BY <1>0, <2>3, <2>4, <2>5, <2>6, <2>7 DEF DestinationGrown
    <2> QED
      BY <2>8 DEF h
  <1>2. ASSUME NEW e \in EdgeRequest, EdgeCount(d) < MaxDestination, HasEndpoints(d, e)
        PROVE  DestinationGrown(AddEdge(d, e))
    <2> DEFINE h == AddEdge(d, e)
    <2>1. d.next_edge_id < MaxId
      BY <1>0, <1>2, BoundsFacts
    <2>2. /\ Whole(h) /\ h.node_index_map = d.node_index_map
          /\ DOMAIN h.nodes = DOMAIN d.nodes
          /\ Len(h.edges) = Len(d.edges) + 1
          /\ h.next_edge_id = d.next_edge_id + 1 /\ h.next_node_id = d.next_node_id
          /\ h.root = d.root /\ h.cfg_exits = d.cfg_exits
      BY <1>0, <1>2, <2>1, AddEdgeFacts
    <2> HIDE DEF h
    <2>3. RootKnown(h)
      BY <1>0, <2>2 DEF RootKnown, NodeIds
    <2>4. NodeCount(h) = NodeCount(d)
      <3>1. h.nodes \in Seq(Node) /\ d.nodes \in Seq(Node)
        BY <1>0, <2>2 DEF Whole, TypedStore
      <3> QED
        BY <2>2, <3>1 DEF NodeCount
    <2>5. EdgeCount(h) = EdgeCount(d) + 1
      BY <2>2 DEF EdgeCount
    <2>6. EdgeCount(h) <= MaxDestination
      BY <1>0, <1>2, <2>5, BoundsFacts
    <2>7. DestinationGrown(h)
      BY <1>0, <2>2, <2>3, <2>4, <2>5, <2>6 DEF DestinationGrown
    <2> QED
      BY <2>7 DEF h
  <1>3. ASSUME NEW id \in NodeId
        PROVE  DestinationGrown(AddCfgEntry(d, id))
    <2> DEFINE h == AddCfgEntry(d, id)
    <2> HIDE DEF h
    <2>1. h = AddCfgEntry(d, id)
      BY DEF h
    <2>2. /\ Whole(h) /\ RootKnown(h) /\ NodeCount(h) = NodeCount(d) /\ EdgeCount(h) = EdgeCount(d)
          /\ h.next_node_id = d.next_node_id /\ h.next_edge_id = d.next_edge_id
          /\ h.cfg_exits = d.cfg_exits
      BY <1>0, <1>3, <2>1, BoundaryRecorded
    <2>3. DestinationGrown(h)
      BY <1>0, <2>2 DEF DestinationGrown
    <2> QED
      BY <2>3 DEF h
  <1> QED
    BY <1>1, <1>2, <1>3

\* No selection names a node twice: subgraph would insert it twice.
RequestsAreDistinct ==
    \A ids \in Requests : \A i, j \in DOMAIN ids : ids[i] = ids[j] => i = j

(* Two empty graphs satisfy the invariant.                                 *)
LEMMA InitComposes == Init => CompositionInv
  <1>1. SUFFICES ASSUME Init PROVE CompositionInv
    OBVIOUS
  <1>2. src = EmptyStore /\ dst = EmptyStore /\ ~Merged /\ ~Extracted
    BY <1>1 DEF Init, Merged, Extracted
  <1> QED
    BY <1>2, EmptyStoreGrown DEF CompositionInv

(* A merge copies the source whole, as it was and as it is.                *)
LEMMA MergeComposes ==
    ASSUME NEW d, DestinationGrown(d), NEW s, SourceGrown(s)
    PROVE  LET m == MergeFrom(d, s) IN Merges(d, s, m.graph, m.remap)
  <1>1. /\ Whole(d) /\ NodeCount(d) <= MaxDestination /\ EdgeCount(d) <= MaxDestination
        /\ d.next_node_id = NodeCount(d) /\ d.next_edge_id = EdgeCount(d)
        /\ Whole(s) /\ NodeCount(s) <= MaxSource /\ EdgeCount(s) <= MaxSourceEdges
    BY DEF DestinationGrown, SourceGrown
  <1>2. /\ NodeCount(d) \in Nat /\ EdgeCount(d) \in Nat
        /\ NodeCount(s) \in Nat /\ EdgeCount(s) \in Nat
    BY <1>1, StoreFacts DEF Whole, NodeCount, EdgeCount
  <1>3. /\ d.next_node_id + NodeCount(s) <= MaxId
        /\ d.next_edge_id + EdgeCount(s) <= MaxId
    BY <1>1, <1>2, BoundsFacts
  <1>4. Fits(d, s)
    BY <1>3 DEF Fits, NodeCount, EdgeCount
  <1> QED
    BY <1>1, <1>4, MergeMerges

(* Every insertion of GrowSource is one of SourceGrows.                    *)
LEMMA GrowSourceComposes ==
    ASSUME CompositionInv, GrowSource
    PROVE  CompositionInv'
  <1>0. /\ SourceGrown(src) /\ DestinationGrown(dst) /\ Building
        /\ dst' = dst /\ phase' = phase
    BY DEF CompositionInv, GrowSource
  <1>1. SourceGrown(src')
    <2>1. CASE /\ Len(src.nodes) < MaxSource
               /\ \E id \in SourceIds \ NodeIds(src), refs \in SourceRefs, p \in SourceParents :
                    src' = AddNodeWithId(src, [Blank EXCEPT !.id = id, !.refs = refs, !.parent = p])
      <3>1. PICK id \in SourceIds \ NodeIds(src), refs \in SourceRefs, p \in SourceParents :
                src' = AddNodeWithId(src, [Blank EXCEPT !.id = id, !.refs = refs, !.parent = p])
        BY <2>1
      <3> DEFINE node == Filled(id, refs, p)
      <3>2. node \in Node /\ node.id = id /\ node.children = <<>>
        <4>1. id \in NodeId /\ refs \in SUBSET NodeId /\ p \in NodeId \cup {None}
          BY BoundsFacts
        <4> QED
          BY <4>1, FilledNodes
      <3>3. src' = AddNodeWithId(src, node)
        BY <3>1 DEF Filled
      <3> HIDE DEF node
      <3>4. NodeCount(src) < MaxSource
        BY <2>1 DEF NodeCount
      <3>5. SourceGrown(AddNodeWithId(src, node))
        BY <1>0, <3>2, <3>4, SourceGrows
      <3> QED
        BY <3>3, <3>5
    <2>2. CASE /\ Len(src.edges) < MaxSourceEdges
               /\ \E s, t \in NodeIds(src), kind \in SourceKinds, id \in 0..MaxSourceEdges :
                    /\ \A k \in DOMAIN src.edges : src.edges[k].id # id
                    /\ src' = AddEdgeWithId(src,
                                 [id |-> id, source |-> s, target |-> t, kind |-> kind])
      <3>1. PICK s \in NodeIds(src), t \in NodeIds(src), kind \in SourceKinds,
                 id \in 0..MaxSourceEdges :
                /\ \A k \in DOMAIN src.edges : src.edges[k].id # id
                /\ src' = AddEdgeWithId(src,
                             [id |-> id, source |-> s, target |-> t, kind |-> kind])
        BY <2>2
      <3> DEFINE e == [id |-> id, source |-> s, target |-> t, kind |-> kind]
      <3>2. e \in EdgeRequest
        <4>1. s \in NodeId /\ t \in NodeId
          BY <1>0, StoreFacts DEF SourceGrown, Whole
        <4>2. id \in EdgeId
          BY BoundsFacts DEF EdgeId
        <4>3. kind \in Kinds
          BY BoundsFacts
        <4> QED
          BY <4>1, <4>2, <4>3 DEF EdgeRequest
      <3>3. e.source = s /\ e.target = t /\ e.id = id
        OBVIOUS
      <3>4. src' = AddEdgeWithId(src, e)
        BY <3>1
      <3> HIDE DEF e
      <3>5. HasEndpoints(src, e) /\ \A k \in DOMAIN src.edges : src.edges[k].id # e.id
        BY <3>1, <3>3 DEF HasEndpoints
      <3>6. EdgeCount(src) < MaxSourceEdges
        BY <2>2 DEF EdgeCount
      <3>7. SourceGrown(AddEdgeWithId(src, e))
        BY <1>0, <3>2, <3>5, <3>6, SourceGrows
      <3> QED
        BY <3>4, <3>7
    <2>3. CASE \E id \in BoundaryIds : src' \in {AddCfgEntry(src, id), AddCfgExit(src, id)}
      <3>1. PICK id \in BoundaryIds : src' = AddCfgEntry(src, id) \/ src' = AddCfgExit(src, id)
        BY <2>3
      <3>2. id \in NodeId
        BY BoundsFacts
      <3>3. SourceGrown(AddCfgEntry(src, id)) /\ SourceGrown(AddCfgExit(src, id))
        BY <1>0, <3>2, SourceGrows
      <3> QED
        BY <3>1, <3>3
    <2> QED
      BY <2>1, <2>2, <2>3, Zenon DEF GrowSource
  <1>2. ~Merged' /\ ~Extracted'
    BY <1>0 DEF Building, Merged, Extracted
  <1> QED
    BY <1>0, <1>1, <1>2 DEF CompositionInv

(* Every insertion of GrowDestination is one of DestinationGrows.          *)
LEMMA GrowDestinationComposes ==
    ASSUME CompositionInv, GrowDestination
    PROVE  CompositionInv'
  <1>0. /\ SourceGrown(src) /\ DestinationGrown(dst) /\ Building
        /\ src' = src /\ phase' = phase
    BY DEF CompositionInv, GrowDestination
  <1>1. DestinationGrown(dst')
    <2>0. \A id \in NodeIds(dst) : id \in NodeId
      BY <1>0, StoreFacts DEF DestinationGrown, Whole
    <2>1. CASE Len(dst.nodes) < MaxDestination /\ dst' = AddNode(dst, Blank)
      <3>1. NodeCount(dst) < MaxDestination
        BY <2>1 DEF NodeCount
      <3>2. DestinationGrown(AddNode(dst, Blank))
        BY <1>0, <3>1, DestinationGrows
      <3> QED
        BY <2>1, <3>2
    <2>2. CASE /\ Len(dst.edges) < MaxDestination
               /\ \E s, t \in NodeIds(dst) :
                    dst' = AddEdge(dst, [id |-> 0, source |-> s, target |-> t, kind |-> AstChild])
      <3>1. PICK s \in NodeIds(dst), t \in NodeIds(dst) :
                dst' = AddEdge(dst, [id |-> 0, source |-> s, target |-> t, kind |-> AstChild])
        BY <2>2
      <3> DEFINE e == [id |-> 0, source |-> s, target |-> t, kind |-> AstChild]
      <3>2. e \in EdgeRequest
        <4>1. 0 \in EdgeId /\ AstChild \in Kinds
          BY MaxIdAssumption, KindsAssumption DEF EdgeId
        <4> QED
          BY <2>0, <4>1 DEF EdgeRequest
      <3>3. e.source = s /\ e.target = t
        OBVIOUS
      <3>4. dst' = AddEdge(dst, e)
        BY <3>1
      <3> HIDE DEF e
      <3>5. HasEndpoints(dst, e)
        BY <3>3 DEF HasEndpoints
      <3>6. EdgeCount(dst) < MaxDestination
        BY <2>2 DEF EdgeCount
      <3>7. DestinationGrown(AddEdge(dst, e))
        BY <1>0, <3>2, <3>5, <3>6, DestinationGrows
      <3> QED
        BY <3>4, <3>7
    <2>3. CASE \E id \in NodeIds(dst) : dst' = AddCfgEntry(dst, id)
      <3>1. PICK id \in NodeIds(dst) : dst' = AddCfgEntry(dst, id)
        BY <2>3
      <3>2. DestinationGrown(AddCfgEntry(dst, id))
        BY <1>0, <2>0, DestinationGrows
      <3> QED
        BY <3>1, <3>2
    <2> QED
      BY <2>1, <2>2, <2>3, Zenon DEF GrowDestination
  <1>2. ~Merged' /\ ~Extracted'
    BY <1>0 DEF Building, Merged, Extracted
  <1> QED
    BY <1>0, <1>1, <1>2 DEF CompositionInv

(* The invariant is inductive.                                             *)
LEMMA NextComposes == CompositionInv /\ [Next]_vars => CompositionInv'
  <1> SUFFICES ASSUME CompositionInv, [Next]_vars
               PROVE  CompositionInv'
    OBVIOUS
  <1>1. CASE GrowSource
    BY <1>1, GrowSourceComposes
  <1>2. CASE GrowDestination
    BY <1>2, GrowDestinationComposes
  <1>3. CASE Merge
    <2>1. /\ SourceGrown(src) /\ DestinationGrown(dst) /\ src' = src /\ before' = dst
          /\ phase' = "merged"
          /\ dst' = MergeFrom(dst, src).graph /\ remap' = MergeFrom(dst, src).remap
      BY <1>3 DEF CompositionInv, Merge
    <2>2. LET m == MergeFrom(dst, src) IN Merges(dst, src, m.graph, m.remap)
      BY <2>1, MergeComposes
    <2>3. Merges(dst, src, MergeFrom(dst, src).graph, MergeFrom(dst, src).remap)
      BY <2>2
    <2>4. Merges(before', src', dst', remap')
      BY <2>1, <2>3
    <2> QED
      BY <2>1, <2>4 DEF CompositionInv, Building, Merged, Extracted
  <1>4. CASE Extract
    <2>1. /\ SourceGrown(src) /\ src' = src
          /\ phase' = "extracted"
          /\ request' \in Requests /\ sub' = Subgraph(src, request')
      BY <1>4 DEF CompositionInv, Extract
    <2> QED
      BY <2>1 DEF CompositionInv, Building, Merged, Extracted
  <1>5. CASE UNCHANGED vars
    BY <1>5 DEF vars, CompositionInv, Building, Merged, Extracted
  <1> QED
    BY <1>1, <1>2, <1>3, <1>4, <1>5 DEF Next

(* Every step keeps the invariant, so every state has it.                  *)
LEMMA SpecComposes == Spec => []CompositionInv
  <1> QED
    BY InitComposes, NextComposes, PTL DEF Spec

(* merge_from appends the source whole: edges in the source's EdgeId order *)
(* between the copies of their endpoints, child lists and exits under the  *)
(* mapping, and the root the destination had, if it had one.               *)
THEOREM MergeIsIsomorphic == Spec => []AppendedPartIsIsomorphic
  <1>1. CompositionInv => AppendedPartIsIsomorphic
    <2> SUFFICES ASSUME CompositionInv, Merged PROVE AppendedPartIsIsomorphic
      BY DEF AppendedPartIsIsomorphic
    <2> DEFINE n == EdgeCount(src)
               m == EdgeCount(before)
               row == EdgesInOrder(src)
    <2>0. /\ Whole(src) /\ RootKnown(src) /\ Coherent(src) /\ TypedStore(src)
          /\ Whole(before) /\ RootKnown(before) /\ Coherent(before) /\ TypedStore(before)
          /\ before.cfg_exits = <<>> /\ Merges(before, src, dst, remap)
      BY DEF CompositionInv, SourceGrown, DestinationGrown, Whole
    <2>1. /\ EdgeCount(dst) = m + n
          /\ \A j \in 1..n : CopiedEdge(dst.edges[m + j], src.edges[row[j]], remap,
                                        before.next_edge_id + j - 1)
      BY <2>0 DEF Merges
    <2>2. DOMAIN row = 1..n
      BY <2>0, EdgesAreListed
    <2>3. \A id \in NodeIds(src) :
             NodeAt(dst, remap[id]).children =
                 [i \in DOMAIN NodeAt(src, id).children |-> remap[NodeAt(src, id).children[i]]]
      BY <2>0, CopiedChildren
    <2>4. DOMAIN remap = NodeIds(src)
      BY <2>0 DEF Merges, Remaps
    <2>5. ToSet(dst.cfg_exits) = Image(ToSet(src.cfg_exits) \cap NodeIds(src))
      <3>1. ToSet(dst.cfg_exits) =
               ToSet(before.cfg_exits) \cup {remap[id] : id \in ToSet(src.cfg_exits) \cap NodeIds(src)}
        BY <2>0, <2>4 DEF Merges
      <3>2. ToSet(before.cfg_exits) = {}
        BY <2>0 DEF ToSet
      <3> QED
        BY <3>1, <3>2 DEF Image
    <2>6. dst.root = IF NodeIds(before) # {} THEN before.root
                     ELSE IF src.root = None THEN None ELSE remap[src.root]
      <3>1. dst.root =
               IF before.nodes = <<>> /\ src.root \in NodeIds(src) THEN remap[src.root]
               ELSE IF before.root # None \/ NodeCount(src) = 0 THEN before.root
               ELSE before.next_node_id
        BY <2>0, <2>4 DEF Merges
      <3>2. /\ before.nodes = <<>> <=> NodeIds(before) = {}
            /\ NodeCount(src) = 0 <=> NodeIds(src) = {}
        BY <2>0, NoNodeNoId
      <3>3. None \notin NodeIds(before) /\ None \notin NodeIds(src)
        BY <2>0, StoreFacts, NoneAssumption DEF NodeId
      <3> QED
        BY <2>0, <3>1, <3>2, <3>3 DEF RootKnown
    <2>7. \A i \in DOMAIN row :
             /\ dst.edges[m + i].source = remap[src.edges[row[i]].source]
             /\ dst.edges[m + i].target = remap[src.edges[row[i]].target]
             /\ dst.edges[m + i].kind = src.edges[row[i]].kind
      BY <2>1, <2>2 DEF CopiedEdge
    <2> QED
      BY <2>1, <2>3, <2>5, <2>6, <2>7, Zenon
      DEF AppendedPartIsIsomorphic, EdgeCount, EdgesInOrder
  <1> QED
    BY <1>1, SpecComposes, PTL

(* Where no selection names a node twice, both compositions hand out whole *)
(* graphs; a merge rewrites nothing the destination holds, and a copied    *)
(* node refers only to copies of what its original referred to.            *)
THEOREM CompositionsClose == ASSUME RequestsAreDistinct PROVE Spec => []CompositionsAreClosed
  <1>1. CompositionInv => CompositionsAreClosed
    <2> SUFFICES ASSUME CompositionInv PROVE CompositionsAreClosed
      OBVIOUS
    <2>1. ASSUME Extracted PROVE WellFormed(sub)
      <3>1. /\ Whole(src) /\ request \in Seq(NodeId) /\ sub = Subgraph(src, request)
            /\ \A i, j \in DOMAIN request : request[i] = request[j] => i = j
        BY <2>1, BoundsFacts DEF CompositionInv, SourceGrown, RequestsAreDistinct
      <3>2. Selects(src, ToSet(request) \cap NodeIds(src), ToSet(request), sub)
        BY <3>1, SubgraphSelects
      <3> QED
        BY <3>2, WholeIsWellFormed DEF Selects
    <2>2. ASSUME Merged
          PROVE  /\ WellFormed(dst)
                 /\ Keeps(dst, before)
                 /\ \A id \in NodeIds(src) :
                      /\ NodeAt(dst, remap[id]).refs = Image(NodeAt(src, id).refs \cap NodeIds(src))
                      /\ NodeAt(dst, remap[id]).parent =
                            IF NodeAt(src, id).parent \in NodeIds(src)
                            THEN remap[NodeAt(src, id).parent] ELSE None
      <3>1. Whole(src) /\ Whole(before) /\ Merges(before, src, dst, remap)
        BY <2>2 DEF CompositionInv, SourceGrown, DestinationGrown
      <3>2. WellFormed(dst)
        BY <3>1, WholeIsWellFormed DEF Merges
      <3>3. DOMAIN remap = NodeIds(src)
        BY <3>1 DEF Merges, Remaps
      <3>4. \A id \in NodeIds(src) :
               NodeAt(dst, remap[id]).refs = Image(NodeAt(src, id).refs \cap NodeIds(src))
        BY <3>1, <3>3 DEF Merges, Image
      <3>5. \A id \in NodeIds(src) :
               NodeAt(dst, remap[id]).parent = IF NodeAt(src, id).parent \in NodeIds(src)
                                               THEN remap[NodeAt(src, id).parent] ELSE None
        BY <3>1, <3>3, CopiedParent DEF Translate
      <3>6. ASSUME NEW i \in DOMAIN before.nodes
            PROVE  i \in DOMAIN dst.nodes /\ dst.nodes[i] = before.nodes[i]
        <4>1. dst.nodes[i] = before.nodes[i]
          BY <3>1, DestinationKept
        <4> QED
          BY <3>1, <4>1 DEF Merges
      <3>7. \A k \in DOMAIN before.edges : k \in DOMAIN dst.edges /\ dst.edges[k] = before.edges[k]
        BY <3>1 DEF Merges
      <3>8. Keeps(dst, before)
        BY <3>6, <3>7 DEF Keeps
      <3> QED
        BY <3>2, <3>4, <3>5, <3>8
    <2> QED
      BY <2>1, <2>2, Zenon DEF CompositionsAreClosed
  <1> QED
    BY <1>1, SpecComposes, PTL

(* Where no selection names a node twice, subgraph is the induced one:     *)
(* its edges under their own identifiers, children in their order, and no  *)
(* parent outside the selection.                                           *)
THEOREM SubgraphInduces == ASSUME RequestsAreDistinct PROVE Spec => []SubgraphIsInduced
  <1>1. CompositionInv => SubgraphIsInduced
    <2> SUFFICES ASSUME CompositionInv, Extracted PROVE SubgraphIsInduced
      BY DEF SubgraphIsInduced
    <2> DEFINE all == ToSet(request)
               chosen == all \cap NodeIds(src)
               Public(e) == <<e.id, e.source, e.target, e.kind>>
    <2>0. /\ Whole(src) /\ request \in Seq(NodeId) /\ sub = Subgraph(src, request)
          /\ \A i, j \in DOMAIN request : request[i] = request[j] => i = j
      BY BoundsFacts DEF CompositionInv, SourceGrown, RequestsAreDistinct
    <2>1. Selects(src, chosen, all, sub)
      BY <2>0, SubgraphSelects
    <2> HIDE DEF all
    <2>2. NodeIds(sub) = chosen /\ chosen \subseteq NodeIds(src) /\ chosen \subseteq all
      BY <2>1 DEF Selects
    <2>3. \A id \in chosen :
             /\ NodeAt(sub, id).children = KeptList(NodeAt(src, id).children, chosen)
             /\ NodeAt(src, id).parent \in chosen => NodeAt(sub, id).parent = NodeAt(src, id).parent
             /\ NodeAt(sub, id).parent \in all \cup {None}
      <3> HIDE DEF chosen
      <3> QED
        BY <2>0, <2>1, <2>2, SelectedChildren, SelectedParent
    <2>4. {Public(sub.edges[k]) : k \in DOMAIN sub.edges} =
          {Public(e) : e \in {o \in ToSet(src.edges) : {o.source, o.target} \subseteq chosen}}
      <3> HIDE DEF chosen
      <3>1. \A e, o : Alike(e, o) <=> Public(e) = Public(o)
        BY DEF Alike
      <3>2. \A e : e \in ToSet(src.edges) <=> \E k \in DOMAIN src.edges : e = src.edges[k]
        BY DEF ToSet
      <3>3. ASSUME NEW k \in DOMAIN sub.edges
            PROVE  \E e \in {o \in ToSet(src.edges) : {o.source, o.target} \subseteq chosen} :
                      Public(sub.edges[k]) = Public(e)
        <4>1. PICK j \in DOMAIN src.edges :
                  Inside(src.edges[j], chosen) /\ Alike(sub.edges[k], src.edges[j])
          BY <2>1 DEF Selects
        <4> QED
          BY <3>1, <3>2, <4>1 DEF Inside
      <3>4. ASSUME NEW e \in {o \in ToSet(src.edges) : {o.source, o.target} \subseteq chosen}
            PROVE  \E k \in DOMAIN sub.edges : Public(sub.edges[k]) = Public(e)
        <4>1. PICK j \in DOMAIN src.edges : e = src.edges[j]
          BY <3>2
        <4>2. PICK k \in DOMAIN sub.edges : Alike(sub.edges[k], src.edges[j])
          BY <2>1, <4>1 DEF Selects, Inside
        <4> QED
          BY <3>1, <4>1, <4>2
      <3> HIDE DEF Public
      <3> QED
        BY <3>3, <3>4
    <2> QED
      BY <2>2, <2>3, <2>4, Zenon
      DEF SubgraphIsInduced, KeptList, KeptPositions, all
  <1> QED
    BY <1>1, SpecComposes, PTL

===============================================================================
