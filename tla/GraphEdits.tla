------------------------------- MODULE GraphEdits -------------------------------
(***************************************************************************)
(* The edits between two graphs: ged_upper_bound and ged_alignment, which  *)
(* assign nodes by the Hungarian algorithm in both directions and keep the *)
(* cheaper edit script, and cpg_diff, which spells the script out. A graph *)
(* is a sequence of nodes in the order of their identifiers and a sequence *)
(* of edges in the order of theirs, with parallel edges. A node's payload  *)
(* is what the diff compares as it stands, its links what it compares      *)
(* through the alignment. Costs count quarters of a unit, so that half an  *)
(* edge is whole; sums of quarters are exact in the f64 of the code.       *)
(***************************************************************************)
EXTENDS Integers, Sequences, FiniteSets, SequencesExt, FiniteSetsExt

CONSTANT Comparisons

\* validate_options: costs are finite and not negative.
ASSUME ComparisonAssumption ==
    \A x \in Comparisons :
        /\ \A g \in {x.first, x.second} :
              g.nodes \in Seq(ToSet(g.nodes)) /\ g.edges \in Seq(ToSet(g.edges))
        /\ x.costs \in [node_sub: Nat, node_ins_del: Nat, edge_ins_del: Nat]

\* compared is the call: two graphs, costs and limits, and which function it
\* is; scripts holds one script for each orientation that is done.
VARIABLES compared, scripts, costs, hungarian, edits, editing

editVars == <<compared, scripts, costs, hungarian, edits, editing>>

NoNodes == [nodes |-> <<>>, edges |-> <<>>]
NoEdits == <<>>

NodesIn(g) == DOMAIN g.nodes
EdgesIn(g) == DOMAIN g.edges
TotalDegree(g, n) ==
    Cardinality({i \in EdgesIn(g) : g.edges[i].source = n})
        + Cardinality({i \in EdgesIn(g) : g.edges[i].target = n})

Difference(i, j) == IF i < j THEN j - i ELSE i - j

-------------------------------------------------------------------------------
(* The cost of a correspondence *)

DeleteAllCost(first, second, c) ==
    (Len(first.nodes) + Len(second.nodes)) * c.node_ins_del
        + (Len(first.edges) + Len(second.edges)) * c.edge_ins_del

\* A mapping takes a source node to a target node or to 0.
Typed(e) == <<e.source, e.target, e.kind>>
TypedImage(e, mapping) == <<mapping[e.source], mapping[e.target], e.kind>>

\* Mutant: a target edge is not used up by the edge it stands for.
SharedEdges(source, target, mapping) ==
    Cardinality({i \in EdgesIn(source) :
        \E j \in EdgesIn(target) : Typed(target.edges[j]) = TypedImage(source.edges[i], mapping)})

CommonEdges(source, target, mapping) ==
    LET spend(acc, e) ==
            IF TypedImage(e, mapping) \in ToSet(acc.left)
            THEN [left |-> RemoveFirst(acc.left, TypedImage(e, mapping)), common |-> acc.common + 1]
            ELSE acc
        typed == [i \in EdgesIn(target) |-> Typed(target.edges[i])]
    IN FoldLeft(spend, [left |-> typed, common |-> 0], source.edges).common

ConcreteScriptCost(source, target, mapping, c) ==
    LET matched == {n \in NodesIn(source) : mapping[n] # 0}
        relabelled == {n \in matched : source.nodes[n].tag # target.nodes[mapping[n]].tag}
        common == CommonEdges(source, target, mapping)
    IN Cardinality(relabelled) * c.node_sub
           + (Len(source.nodes) + Len(target.nodes) - 2 * Cardinality(matched)) * c.node_ins_del
           + (Len(source.edges) + Len(target.edges) - 2 * common) * c.edge_ins_del

-------------------------------------------------------------------------------
(* The matrix of star costs *)

StarCost(g, n, c) == c.node_ins_del + (TotalDegree(g, n) * c.edge_ins_del) \div 2

\* Rows are source nodes and then insertions, columns target nodes and then
\* deletions. An insertion and a deletion belong to one node each.
CostMatrix(source, target, c, deletion_upper) ==
    LET s == Len(source.nodes)
        t == Len(target.nodes)
        degrees == {TotalDegree(source, n) : n \in NodesIn(source)}
                       \cup {TotalDegree(target, n) : n \in NodesIn(target)}
        forbidden == deletion_upper + Max({c.node_sub, c.node_ins_del})
                         + (c.edge_ins_del * Max(degrees)) \div 2 + 4
        substitution(i, j) ==
            (IF source.nodes[i].tag = target.nodes[j].tag THEN 0 ELSE c.node_sub)
                + (Difference(TotalDegree(source, i), TotalDegree(target, j)) * c.edge_ins_del) \div 2
        entry(i, j) ==
            CASE i <= s /\ j <= t -> substitution(i, j)
              [] j = t + i /\ i <= s -> StarCost(source, i, c)
              [] i = s + j /\ j <= t -> StarCost(target, j, c)
              [] i > s /\ j > t -> 0
              [] OTHER -> forbidden
    IN [i \in 1..(s + t) |-> [j \in 1..(s + t) |-> entry(i, j)]]

-------------------------------------------------------------------------------
(* The call *)

Forward == scripts = <<>>
Source == IF Forward THEN compared.first ELSE compared.second
Target == IF Forward THEN compared.second ELSE compared.first
DeleteAll == DeleteAllCost(compared.first, compared.second, compared.costs)

\* A bound over the node limit is a surrogate and a diff over a limit an error.
OverLimit ==
    \/ Max({Len(compared.first.nodes), Len(compared.second.nodes)}) > compared.max_nodes
    \/ /\ compared.call = "cpg_diff"
       /\ Max({Len(compared.first.edges), Len(compared.second.edges)}) > compared.max_edges

\* Nothing is assigned where every script is free, or where there is no node.
NothingToAssign ==
    \/ compared.call = "ged_upper_bound" /\ DeleteAll = 0
    \/ Len(compared.first.nodes) + Len(compared.second.nodes) = 0

\* f64::INFINITY, above every cost: here the one value no reduced cost has.
Unreached == -1

\* Rows and columns count from 1; column 0 stands for the row that is placed.
Unsolved(size) ==
    LET zero == [i \in 0..size |-> 0]
    IN [row |-> 0, column |-> 0, row_potential |-> zero, column_potential |-> zero,
        column_row |-> zero, predecessor |-> zero, available |-> zero, used |-> {}]

NothingCompared ==
    /\ compared = [first |-> NoNodes, second |-> NoNodes, max_nodes |-> 0, max_edges |-> 0,
                   max_edits |-> 0, call |-> "none",
                   costs |-> [node_sub |-> 0, node_ins_del |-> 0, edge_ins_del |-> 0]]
    /\ scripts = <<>> /\ costs = <<>> /\ hungarian = Unsolved(0) /\ edits = NoEdits
    /\ editing = "done"

InitEdits ==
    /\ compared \in Comparisons
    /\ scripts = <<>> /\ edits = NoEdits
    /\ costs = IF OverLimit \/ NothingToAssign THEN <<>>
               ELSE CostMatrix(compared.first, compared.second, compared.costs, DeleteAll)
    /\ hungarian = Unsolved(Len(costs))
    /\ editing = IF OverLimit THEN "done" ELSE IF costs = <<>> THEN "spell" ELSE "row"

-------------------------------------------------------------------------------
(* hungarian *)

Size == Len(costs)

StartRow ==
    /\ editing = "row" /\ hungarian.row < Size
    /\ hungarian' = [hungarian EXCEPT !.row = @ + 1, !.column = 0, !.used = {},
                                      !.column_row[0] = hungarian.row + 1,
                                      !.available = [j \in 0..Size |-> Unreached]]
    /\ editing' = "scan"
    /\ UNCHANGED <<compared, scripts, costs, edits>>

Raised(h, visited, delta) ==
    [row |-> [i \in DOMAIN h.row_potential |->
                 h.row_potential[i] + IF i \in {h.column_row[j] : j \in visited} THEN delta ELSE 0],
     column |-> [j \in DOMAIN h.column_potential |->
                    h.column_potential[j] - IF j \in visited THEN delta ELSE 0]]

\* One turn of the inner loop: the row of the current column offers a way to
\* every column that is not on the path, and the cheapest one is next.
Scan ==
    /\ editing = "scan"
    /\ LET h == hungarian
           visited == h.used \cup {h.column}
           active_row == h.column_row[h.column]
           free == (1..Size) \ visited
           reduced(j) == costs[active_row][j] - h.row_potential[active_row] - h.column_potential[j]
           better == {j \in free : h.available[j] = Unreached \/ reduced(j) < h.available[j]}
           available == [j \in 0..Size |-> IF j \in better THEN reduced(j) ELSE h.available[j]]
           delta == Min({available[j] : j \in free})
           next == Min({j \in free : available[j] = delta})
           potentials == Raised(h, visited, delta)
       IN /\ hungarian' = [h EXCEPT !.used = visited, !.column = next,
                                    !.row_potential = potentials.row,
                                    !.column_potential = potentials.column,
                                    !.predecessor = [j \in 0..Size |->
                                        IF j \in better THEN h.column ELSE h.predecessor[j]],
                                    !.available = [j \in 0..Size |->
                                        available[j] - IF j \in free THEN delta ELSE 0]]
          /\ editing' = IF h.column_row[next] = 0 THEN "augment" ELSE "scan"
    /\ UNCHANGED <<compared, scripts, costs, edits>>

\* Back along the path, each column takes the row of the one before it.
Augment ==
    /\ editing = "augment"
    /\ LET previous == hungarian.predecessor[hungarian.column]
       IN /\ hungarian' = [hungarian EXCEPT !.column = previous,
                                            !.column_row[hungarian.column] =
                                                hungarian.column_row[previous]]
          /\ editing' = IF previous = 0 THEN "row" ELSE "augment"
    /\ UNCHANGED <<compared, scripts, costs, edits>>

\* The assignment of one orientation, and the concrete script it induces.
AssignedColumn(i) == CHOOSE j \in 1..Size : hungarian.column_row[j] = i
Script ==
    LET mapping == [n \in NodesIn(Source) |-> IF AssignedColumn(n) \in NodesIn(Target) THEN AssignedColumn(n) ELSE 0]
    IN [mapping |-> mapping, cost |-> ConcreteScriptCost(Source, Target, mapping, compared.costs)]

FinishOrientation ==
    /\ editing = "row" /\ hungarian.row = Size
    /\ scripts' = Append(scripts, Script)
    /\ costs' = IF Forward THEN CostMatrix(compared.second, compared.first, compared.costs, DeleteAll)
                ELSE costs
    /\ hungarian' = IF Forward THEN Unsolved(Size) ELSE hungarian
    /\ editing' = IF Forward THEN "row" ELSE "spell"
    /\ UNCHANGED <<compared, edits>>

-------------------------------------------------------------------------------
(* ged_upper_bound and ged_alignment *)

Upper == IF NothingToAssign THEN 0 ELSE Min({DeleteAll, scripts[1].cost, scripts[2].cost})

\* The pairs of a script in the order of the first graph, and their
\* lexicographic order.
PairsInOrder(pairs) == SetToSortSeq(pairs, LAMBDA p, q : p[1] < q[1])
Below(p, q) == p[1] < q[1] \/ (p[1] = q[1] /\ p[2] < q[2])
AtMost(left, right) ==
    \/ IsPrefix(left, right)
    \/ \E i \in DOMAIN left \cap DOMAIN right :
           Below(left[i], right[i]) /\ \A k \in 1..(i - 1) : left[k] = right[k]

ForwardPairs == {<<n, scripts[1].mapping[n]>> :
                     n \in {n \in NodesIn(compared.first) : scripts[1].mapping[n] # 0}}
ReversePairs == {<<scripts[2].mapping[n], n>> :
                     n \in {n \in NodesIn(compared.second) : scripts[2].mapping[n] # 0}}

Alignment ==
    IF NothingToAssign THEN [pairs |-> {}, cost |-> 0]
    ELSE LET keep_forward ==
                 \/ scripts[1].cost < scripts[2].cost
                 \/ scripts[1].cost = scripts[2].cost
                        /\ AtMost(PairsInOrder(ForwardPairs), PairsInOrder(ReversePairs))
             retained == IF keep_forward THEN [pairs |-> ForwardPairs, cost |-> scripts[1].cost]
                         ELSE [pairs |-> ReversePairs, cost |-> scripts[2].cost]
         IN IF DeleteAll < retained.cost THEN [pairs |-> {}, cost |-> DeleteAll] ELSE retained

-------------------------------------------------------------------------------
(* cpg_diff *)

OldEdges == EdgesIn(compared.first)
NewEdges == EdgesIn(compared.second)
OldEdge(i) == compared.first.edges[i]
NewEdge(j) == compared.second.edges[j]

\* edge_kind_class of the kinds the instances use.
KindClass(kind) ==
    CASE kind = "AstChild" -> 0 [] kind = "ControlDependence" -> 31
      [] kind = "DataDependence" -> 32 [] kind = "Reference" -> 40
IsPdg(kind) == kind \in {"ControlDependence", "DataDependence"}

\* The order of edges between the same ends: by kind, label and identifier.
\* Label 0 is no label.
EdgeBefore(g, i, k) ==
    LET e == g.edges[i]
        f == g.edges[k]
    IN \/ KindClass(e.kind) < KindClass(f.kind)
       \/ e.kind = f.kind /\ (e.label < f.label \/ (e.label = f.label /\ i < k))

\* Two lists are paired off from their fronts: S holds edges of the first
\* graph, T of the second one.
Zipped(S, T) ==
    {p \in S \X T : Cardinality({i \in S : EdgeBefore(compared.first, i, p[1])})
                        = Cardinality({j \in T : EdgeBefore(compared.second, j, p[2])})}

\* The edges that the alignment takes to an edge of the same key.
OldAt(pairs, key) ==
    {i \in OldEdges : /\ {<<OldEdge(i).source, key[1]>>, <<OldEdge(i).target, key[2]>>} \subseteq pairs
                      /\ <<OldEdge(i).kind, OldEdge(i).label>> = <<key[3], key[4]>>}
KeyOf(e) == <<e.source, e.target, e.kind, e.label>>
NewAt(key) == {j \in NewEdges : KeyOf(NewEdge(j)) = key}

ExactPairs(pairs) ==
    UNION {Zipped(OldAt(pairs, key), NewAt(key)) : key \in {KeyOf(NewEdge(j)) : j \in NewEdges}}

\* What is left between the same aligned ends is substituted.
Substituted(pairs, old, new) ==
    UNION {Zipped({i \in old : <<OldEdge(i).source, a[1]>> \in pairs /\ <<OldEdge(i).target, a[2]>> \in pairs},
                  {j \in new : <<NewEdge(j).source, NewEdge(j).target>> = a}) :
           a \in {<<NewEdge(j).source, NewEdge(j).target>> : j \in new}}

\* Mutant: edges that changed their kind are no evidence.
ByMembership(substituted, removed, added) ==
    \/ \E i \in removed : IsPdg(OldEdge(i).kind)
    \/ \E j \in added : IsPdg(NewEdge(j).kind)

BehaviorChanging(substituted, removed, added) ==
    \/ \E p \in substituted : IsPdg(OldEdge(p[1]).kind) \/ IsPdg(NewEdge(p[2]).kind)
    \/ \E i \in removed : IsPdg(OldEdge(i).kind)
    \/ \E j \in added : IsPdg(NewEdge(j).kind)

\* mapped_slice: links are equal through the alignment.
MappedLinks(pairs, old, new) ==
    Len(old) = Len(new) /\ \A k \in DOMAIN old : <<old[k], new[k]>> \in pairs

ChangedNodes(pairs) ==
    {p \in pairs : LET o == compared.first.nodes[p[1]]
                       n == compared.second.nodes[p[2]]
                   IN <<o.tag, o.payload>> # <<n.tag, n.payload>> \/ ~MappedLinks(pairs, o.links, n.links)}

Diff ==
    LET pairs == Alignment.pairs
        exact == ExactPairs(pairs)
        old == OldEdges \ {p[1] : p \in exact}
        new == NewEdges \ {p[2] : p \in exact}
        substituted == Substituted(pairs, old, new)
        removed == old \ {p[1] : p \in substituted}
        added == new \ {p[2] : p \in substituted}
    IN [alignment |-> pairs, cost |-> Alignment.cost, nodes_changed |-> ChangedNodes(pairs),
        nodes_removed |-> NodesIn(compared.first) \ {p[1] : p \in pairs},
        nodes_added |-> NodesIn(compared.second) \ {p[2] : p \in pairs},
        edges_changed |-> substituted, edges_removed |-> removed, edges_added |-> added,
        behavior_changing |-> BehaviorChanging(substituted, removed, added)]

Records(d) ==
    Cardinality(d.nodes_changed) + Cardinality(d.nodes_removed) + Cardinality(d.nodes_added)
        + Cardinality(d.edges_changed) + Cardinality(d.edges_removed) + Cardinality(d.edges_added)

\* A script of more records than max_edits is an error, never a part of one.
Spell ==
    /\ editing = "spell"
    /\ edits' = IF compared.call = "cpg_diff" /\ Records(Diff) <= compared.max_edits
                THEN <<Diff>> ELSE NoEdits
    /\ editing' = "done"
    /\ UNCHANGED <<compared, scripts, costs, hungarian>>

NextEdits == StartRow \/ Scan \/ Augment \/ FinishOrientation \/ Spell

EditsSpec == InitEdits /\ [][NextEdits]_editVars

-------------------------------------------------------------------------------
(* Properties *)

\* The potentials never promise more than an entry of the matrix costs, and a
\* placed row and its column promise all of it: no assignment of the rows placed
\* so far is cheaper than the one at hand, whatever path led to it.
PotentialsProveTheAssignment ==
    LET h == hungarian
        placed == {j \in 1..Size : h.column_row[j] # 0}
        promised(i, j) == h.row_potential[i] + h.column_potential[j]
    IN /\ \A i, j \in 1..Size : promised(i, j) <= costs[i][j]
       /\ \A j \in 1..Size : h.column_potential[j] <= 0
       /\ editing = "row" =>
              /\ {h.column_row[j] : j \in placed} = 1..h.row /\ Cardinality(placed) = h.row
              /\ \A j \in placed : promised(h.column_row[j], j) = costs[h.column_row[j]][j]
              /\ \A j \in (1..Size) \ placed : h.column_potential[j] = 0

\* The edit distance: the cheapest of all partial correspondences, with the
\* common edges counted kind by kind.
Correspondences ==
    {f \in [NodesIn(compared.first) -> {0} \cup NodesIn(compared.second)] :
        \A m, n \in DOMAIN f : f[m] = f[n] /\ f[m] # 0 => m = n}
EditCost(f) ==
    LET c == compared.costs
        kept == {n \in DOMAIN f : f[n] # 0}
        here(k) == Cardinality({i \in OldEdges : TypedImage(OldEdge(i), f) = k})
        there(k) == Cardinality({j \in NewEdges : Typed(NewEdge(j)) = k})
        common == MapThenSumSet(LAMBDA k : Min({here(k), there(k)}),
                                {Typed(NewEdge(j)) : j \in NewEdges})
    IN DeleteAll - 2 * Cardinality(kept) * c.node_ins_del - 2 * common * c.edge_ins_del
           + c.node_sub * Cardinality({n \in kept : compared.first.nodes[n].tag
                                                        # compared.second.nodes[f[n]].tag})

\* The answer is the cost of some script: never below the distance, and nothing
\* between a graph and its copy, where assignments tie.
BoundIsAnEdit ==
    editing = "done" /\ compared.call = "ged_upper_bound" /\ ~OverLimit =>
        /\ \E f \in Correspondences : Upper = EditCost(f)
        /\ compared.first = compared.second => Upper = 0

DistanceIsSound == PotentialsProveTheAssignment /\ BoundIsAnEdit

\* The keys a diff leaves behind: the edges that stay, in the terms of the new
\* graph, with the changed and the added ones.
Rebuilt(d, key) ==
    LET stay == OldEdges \ (d.edges_removed \cup {p[1] : p \in d.edges_changed})
        arrive == d.edges_added \cup {p[2] : p \in d.edges_changed}
    IN Cardinality(stay \cap OldAt(d.alignment, key)) + Cardinality(arrive \cap NewAt(key))

AllKeys(d) ==
    {KeyOf(NewEdge(j)) : j \in NewEdges}
        \cup {<<p[2], q[2], OldEdge(i).kind, OldEdge(i).label>> :
                  p \in d.alignment, q \in d.alignment, i \in OldEdges}

\* What the records of a diff cost, with a change of kind as two edge edits.
Price(d) ==
    LET c == compared.costs
        retyped == {p \in d.edges_changed : OldEdge(p[1]).kind # NewEdge(p[2]).kind}
        retagged == {p \in d.nodes_changed : compared.first.nodes[p[1]].tag
                                                 # compared.second.nodes[p[2]].tag}
    IN c.node_sub * Cardinality(retagged)
           + c.node_ins_del * (Cardinality(d.nodes_removed) + Cardinality(d.nodes_added))
           + c.edge_ins_del * (Cardinality(d.edges_removed) + Cardinality(d.edges_added)
                                   + 2 * Cardinality(retyped))

\* A diff turns the old edges into the new ones, parallel edges included; it
\* is a change of behaviour exactly where some dependence came, went or changed;
\* and its records cost what the alignment says it does, unless labels, of which
\* the alignment knows nothing, paired the edges otherwise.
ScriptIsExact ==
    editing = "done" =>
        \A d \in ToSet(edits) :
            /\ \A key \in AllKeys(d) : Rebuilt(d, key) = Cardinality(NewAt(key))
            /\ OldEdges \ d.edges_removed \subseteq
                   {i \in OldEdges : {OldEdge(i).source, OldEdge(i).target} \subseteq {p[1] : p \in d.alignment}}
            /\ d.behavior_changing <=>
                   \/ \E key \in AllKeys(d) : IsPdg(key[3])
                          /\ Cardinality(OldAt(d.alignment, key)) # Cardinality(NewAt(key))
                   \/ \E i \in OldEdges : IsPdg(OldEdge(i).kind)
                          /\ \A key \in AllKeys(d) : i \notin OldAt(d.alignment, key)
            /\ d.cost <= Price(d)
            /\ (\A e \in ToSet(compared.first.edges \o compared.second.edges) : e.label = 0) =>
                   d.cost = Price(d)
===============================================================================
