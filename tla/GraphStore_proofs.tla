--------------------------- MODULE GraphStore_proofs ---------------------------
(***************************************************************************)
(* What every operation of GraphStore preserves, for every u32 width and   *)
(* every set of edge kinds: sorted rows, identifiers and endpoints, types, *)
(* and the tree of child lists and parents that AST edges determine.       *)
(***************************************************************************)
EXTENDS GraphStore, TLAPS, FiniteSetTheorems, FunctionTheorems, NaturalsInduction,
        WellFoundedInduction

-------------------------------------------------------------------------------
(* Sorting *)

(* A set of natural numbers has a least member.                            *)
LEMMA LeastOfNaturals ==
    ASSUME NEW S \in SUBSET Nat, S # {}
    PROVE  \E n \in S : \A m \in S : n <= m
  <1>1. PICK n \in S : \A m \in S : ~(<<m, n>> \in OpToRel(<, Nat))
    BY NatLessThanWellFounded, WFMin, Zenon
  <1>2. \A m \in S : ~(m < n)
    BY <1>1 DEF OpToRel
  <1>3. \A m \in S : n <= m
    BY <1>2
  <1> QED
    BY <1>3

StrictOrder(S, R) ==
    /\ \A a \in S : <<a, a>> \notin R
    /\ \A a, b, c \in S : <<a, b>> \in R /\ <<b, c>> \in R => <<a, c>> \in R
    /\ \A a, b \in S : a # b => <<a, b>> \in R \/ <<b, a>> \in R

\* t holds the members of S, each at one position, ascending in R.
Lists(t, S, R) ==
    /\ t \in Seq(S)
    /\ \A k \in S : \E i \in DOMAIN t : t[i] = k
    /\ \A i, j \in DOMAIN t : i < j => <<t[i], t[j]>> \in R

Below(S, R, k) == {j \in S : <<j, k>> \in R}

(* What is lower has fewer members below it.                               *)
LEMMA RanksAscend ==
    ASSUME NEW S, IsFiniteSet(S), NEW R, StrictOrder(S, R)
    PROVE  /\ \A k \in S : Cardinality(Below(S, R, k)) \in 0..(Cardinality(S) - 1)
           /\ \A a, b \in S : <<a, b>> \in R =>
                  Cardinality(Below(S, R, a)) < Cardinality(Below(S, R, b))
           /\ \A a, b \in S : Cardinality(Below(S, R, a)) = Cardinality(Below(S, R, b)) => a = b
  <1>1. \A k \in S : /\ IsFiniteSet(Below(S, R, k))
                     /\ Cardinality(Below(S, R, k)) \in Nat
    BY FS_Subset, FS_CardinalityType DEF Below
  <1>2. Cardinality(S) \in Nat
    BY FS_CardinalityType
  <1>3. ASSUME NEW k \in S
        PROVE  Cardinality(Below(S, R, k)) < Cardinality(S)
    <2>1. Below(S, R, k) \in SUBSET S /\ Below(S, R, k) # S
      BY DEF Below, StrictOrder
    <2>2. Cardinality(Below(S, R, k)) <= Cardinality(S) /\ Cardinality(S) # Cardinality(Below(S, R, k))
      BY <2>1, FS_Subset
    <2> QED
      BY <1>1, <1>2, <2>2
  <1>4. ASSUME NEW a \in S, NEW b \in S, <<a, b>> \in R
        PROVE  Cardinality(Below(S, R, a)) < Cardinality(Below(S, R, b))
    <2>1. Below(S, R, a) \in SUBSET Below(S, R, b)
      BY <1>4 DEF Below, StrictOrder
    <2>2. Below(S, R, a) # Below(S, R, b)
      BY <1>4 DEF Below, StrictOrder
    <2>3. /\ Cardinality(Below(S, R, a)) <= Cardinality(Below(S, R, b))
          /\ Cardinality(Below(S, R, b)) # Cardinality(Below(S, R, a))
      BY <1>1, <2>1, <2>2, FS_Subset
    <2> QED
      BY <1>1, <2>3
  <1>5. ASSUME NEW a \in S, NEW b \in S, a # b
        PROVE  Cardinality(Below(S, R, a)) # Cardinality(Below(S, R, b))
    <2>1. <<a, b>> \in R \/ <<b, a>> \in R
      BY <1>5 DEF StrictOrder
    <2> QED
      BY <1>1, <1>4, <2>1
  <1> QED
    BY <1>1, <1>2, <1>3, <1>4, <1>5

(* Every rank is taken, so that Sorted lists the set.                      *)
LEMMA SortedLists ==
    ASSUME NEW S, IsFiniteSet(S), NEW R, StrictOrder(S, R)
    PROVE  Lists(Sorted(S, R), S, R) /\ Len(Sorted(S, R)) = Cardinality(S)
  <1> DEFINE n == Cardinality(S)
             rank(k) == Cardinality(Below(S, R, k))
             place == [k \in S |-> rank(k) + 1]
             s == Sorted(S, R)
  <1>1. n \in Nat /\ IsFiniteSet(1..n) /\ Cardinality(1..n) = n
    BY FS_CardinalityType, FS_Interval
  <1>2. /\ \A k \in S : rank(k) \in 0..(n - 1)
        /\ \A a, b \in S : <<a, b>> \in R => rank(a) < rank(b)
        /\ \A a, b \in S : rank(a) = rank(b) => a = b
    BY RanksAscend
  <1> HIDE DEF rank
  <1>3. place \in Injection(S, 1..n)
    <2>1. place \in [S -> 1..n]
      BY <1>1, <1>2
    <2>2. \A a, b \in S : place[a] = place[b] => a = b
      BY <1>1, <1>2
    <2> HIDE DEF place
    <2> QED
      BY <2>1, <2>2, Fun_IsInj
  <1>4. place \in Surjection(S, 1..n)
    <2> HIDE DEF place, n
    <2>1. Cardinality(S) = Cardinality(1..n)
      BY <1>1 DEF n
    <2> QED
      BY <1>1, <1>3, <2>1, FS_Injection
  <1>5. \A i \in 1..n : \E k \in S : rank(k) = i - 1
    <2> SUFFICES ASSUME NEW i \in 1..n PROVE \E k \in S : rank(k) = i - 1
      OBVIOUS
    <2>1. PICK k \in S : place[k] = i
      BY <1>4 DEF Surjection
    <2> QED
      BY <1>1, <1>2, <2>1
  <1>6. DOMAIN s = 1..n /\ \A i \in 1..n : s[i] = CHOOSE k \in S : rank(k) = i - 1
    BY DEF Sorted, rank, Below
  <1>7. \A i \in 1..n : s[i] \in S /\ rank(s[i]) = i - 1
    BY <1>5, <1>6
  <1>8. s \in Seq(S) /\ Len(s) = n
    <2>1. s = [i \in 1..n |-> s[i]]
      <3> DEFINE e(i) == CHOOSE k \in S : Cardinality({j \in S : <<j, k>> \in R}) = i - 1
      <3>1. s = [i \in 1..n |-> e(i)]
        BY DEF Sorted
      <3> HIDE DEF s, n, e
      <3> QED
        BY <3>1
    <2> HIDE DEF s, n
    <2> QED
      BY <1>1, <1>6, <1>7, <2>1
  <1> HIDE DEF s, n
  <1>9. ASSUME NEW k \in S
        PROVE  \E i \in DOMAIN s : s[i] = k
    <2>1. rank(k) + 1 \in 1..n /\ rank(k) + 1 - 1 = rank(k)
      BY <1>1, <1>2
    <2>2. s[rank(k) + 1] = k
      BY <1>2, <1>7, <2>1
    <2> QED
      BY <1>6, <2>1, <2>2
  <1>10. ASSUME NEW i \in DOMAIN s, NEW j \in DOMAIN s, i < j
         PROVE  <<s[i], s[j]>> \in R
    <2>1. rank(s[i]) < rank(s[j]) /\ s[i] \in S /\ s[j] \in S
      BY <1>6, <1>7, <1>10
    <2>2. ~(<<s[j], s[i]>> \in R) /\ s[i] # s[j]
      BY <1>2, <2>1
    <2> QED
      BY <2>1, <2>2 DEF StrictOrder
  <1> QED
    BY <1>8, <1>9, <1>10 DEF Lists, s, n

(* No two positions of a listing hold the same member.                     *)
LEMMA ListingIsBijective ==
    ASSUME NEW S, NEW R, StrictOrder(S, R), NEW t, Lists(t, S, R)
    PROVE  /\ t \in Bijection(1..Len(t), S) /\ Len(t) \in Nat /\ DOMAIN t = 1..Len(t)
           /\ IsFiniteSet(S) /\ Cardinality(S) = Len(t)
           /\ \A i, j \in DOMAIN t : t[i] = t[j] => i = j
           /\ \A i, j \in DOMAIN t : <<t[i], t[j]>> \in R => i < j
  <1>1. Len(t) \in Nat /\ DOMAIN t = 1..Len(t) /\ t \in [1..Len(t) -> S]
    BY DEF Lists
  <1>2. \A i, j \in DOMAIN t : t[i] = t[j] => i = j
    <2> SUFFICES ASSUME NEW i \in DOMAIN t, NEW j \in DOMAIN t, t[i] = t[j], i # j
                 PROVE  FALSE
      OBVIOUS
    <2>1. t[i] \in S /\ t[j] \in S
      BY <1>1
    <2>2. i < j \/ j < i
      BY <1>1
    <2> QED
      BY <2>1, <2>2 DEF Lists, StrictOrder
  <1>3. t \in Bijection(1..Len(t), S)
    <2>1. \A k \in S : \E i \in 1..Len(t) : t[i] = k
      BY <1>1 DEF Lists
    <2>2. t \in Injection(1..Len(t), S)
      BY <1>1, <1>2, Fun_IsInj
    <2>3. t \in Surjection(1..Len(t), S)
      BY <1>1, <2>1, Fun_IsSurj
    <2> QED
      BY <2>2, <2>3 DEF Bijection
  <1>4. IsFiniteSet(S) /\ Cardinality(S) = Len(t)
    <2>1. ExistsBijection(1..Len(t), S)
      BY <1>3 DEF ExistsBijection
    <2>2. IsFiniteSet(1..Len(t)) /\ Cardinality(1..Len(t)) = Len(t)
      BY <1>1, FS_Interval
    <2> QED
      BY <2>1, <2>2, FS_Bijection
  <1>5. \A i, j \in DOMAIN t : <<t[i], t[j]>> \in R => i < j
    <2> SUFFICES ASSUME NEW i \in DOMAIN t, NEW j \in DOMAIN t, <<t[i], t[j]>> \in R, ~(i < j)
                 PROVE  FALSE
      OBVIOUS
    <2>1. t[i] \in S /\ t[j] \in S /\ i \in Nat /\ j \in Nat
      BY <1>1
    <2>2. CASE i = j
      BY <2>1, <2>2 DEF StrictOrder
    <2>3. CASE j < i
      <3>1. <<t[j], t[i]>> \in R
        BY <2>3 DEF Lists
      <3>2. <<t[i], t[i]>> \in R
        BY <2>1, <3>1 DEF StrictOrder
      <3> QED
        BY <2>1, <3>2 DEF StrictOrder
    <2> QED
      BY <2>1, <2>2, <2>3
  <1> QED
    BY <1>1, <1>2, <1>3, <1>4, <1>5

(* There is one way to list a set.                                         *)
LEMMA ListingIsSorted ==
    ASSUME NEW S, NEW R, StrictOrder(S, R), NEW t, Lists(t, S, R)
    PROVE  t = Sorted(S, R)
  <1> DEFINE n == Len(t)
             rank(k) == Cardinality(Below(S, R, k))
  <1>1. /\ n \in Nat /\ DOMAIN t = 1..n
        /\ IsFiniteSet(S) /\ Cardinality(S) = n
        /\ \A i, j \in DOMAIN t : t[i] = t[j] => i = j
        /\ \A i, j \in DOMAIN t : <<t[i], t[j]>> \in R => i < j
    BY ListingIsBijective
  <1>2. \A a, b \in S : rank(a) = rank(b) => a = b
    BY <1>1, RanksAscend
  <1>3. ASSUME NEW i \in 1..n
        PROVE  t[i] \in S /\ rank(t[i]) = i - 1
    <2> DEFINE lower == [j \in 1..(i - 1) |-> t[j]]
    <2>1. t[i] \in S
      BY <1>1 DEF Lists
    <2>2. \A j \in 1..(i - 1) : j \in 1..n /\ j < i
      BY <1>1
    <2>3. \A j \in 1..n : j < i => j \in 1..(i - 1)
      BY <1>1
    <2>4. lower \in [1..(i - 1) -> Below(S, R, t[i])]
      <3> SUFFICES ASSUME NEW j \in 1..(i - 1) PROVE t[j] \in Below(S, R, t[i])
        OBVIOUS
      <3>1. j \in DOMAIN t /\ i \in DOMAIN t /\ j < i
        BY <1>1, <2>2
      <3>2. t[j] \in S /\ <<t[j], t[i]>> \in R
        BY <3>1 DEF Lists
      <3> QED
        BY <3>2 DEF Below
    <2>5. \A k \in Below(S, R, t[i]) : \E j \in 1..(i - 1) : lower[j] = k
      <3> SUFFICES ASSUME NEW k \in Below(S, R, t[i]) PROVE \E j \in 1..(i - 1) : lower[j] = k
        OBVIOUS
      <3>1. PICK j \in 1..n : t[j] = k
        BY <1>1 DEF Lists, Below
      <3>2. j < i
        BY <1>1, <3>1 DEF Below
      <3> QED
        BY <2>3, <3>1, <3>2
    <2>6. \A a, b \in 1..(i - 1) : lower[a] = lower[b] => a = b
      BY <1>1, <2>2
    <2>7. lower \in Bijection(1..(i - 1), Below(S, R, t[i]))
      <3> HIDE DEF lower
      <3>1. lower \in Injection(1..(i - 1), Below(S, R, t[i]))
        BY <2>4, <2>6, Fun_IsInj
      <3>2. lower \in Surjection(1..(i - 1), Below(S, R, t[i]))
        BY <2>4, <2>5, Fun_IsSurj
      <3> QED
        BY <3>1, <3>2 DEF Bijection
    <2>8. ExistsBijection(1..(i - 1), Below(S, R, t[i]))
      <3> HIDE DEF lower
      <3> QED
        BY <2>7 DEF ExistsBijection
    <2>9. IsFiniteSet(1..(i - 1)) /\ Cardinality(1..(i - 1)) = i - 1
      <3>1. i - 1 \in Int /\ 1 \in Int /\ i - 1 >= 0
        BY <1>1
      <3>2. /\ IsFiniteSet(1..(i - 1))
            /\ Cardinality(1..(i - 1)) = IF 1 > i - 1 THEN 0 ELSE i - 1 - 1 + 1
        BY <3>1, FS_Interval
      <3> QED
        BY <3>1, <3>2
    <2>10. rank(t[i]) = i - 1
      BY <2>8, <2>9, FS_Bijection
    <2> QED
      BY <2>1, <2>10
  <1> HIDE DEF rank
  <1>4. ASSUME NEW i \in 1..n
        PROVE  t[i] = CHOOSE k \in S : rank(k) = i - 1
    BY <1>2, <1>3
  <1>5. Sorted(S, R) = [i \in 1..n |-> CHOOSE k \in S : rank(k) = i - 1]
    BY <1>1 DEF Sorted, rank, Below
  <1>6. t = [i \in 1..n |-> t[i]]
    BY <1>1 DEF Lists
  <1> HIDE DEF n
  <1> QED
    BY <1>4, <1>5, <1>6

(* Sorting looks at the order of the members only.                         *)
LEMMA SortedAlike ==
    ASSUME NEW S, NEW R, NEW Q, \A a, b \in S : <<a, b>> \in R <=> <<a, b>> \in Q
    PROVE  Sorted(S, R) = Sorted(S, Q)
  <1>1. \A k \in S : {j \in S : <<j, k>> \in R} = {j \in S : <<j, k>> \in Q}
    OBVIOUS
  <1> DEFINE r(i) == CHOOSE k \in S : Cardinality({j \in S : <<j, k>> \in R}) = i - 1
             q(i) == CHOOSE k \in S : Cardinality({j \in S : <<j, k>> \in Q}) = i - 1
  <1>2. \A i \in 1..Cardinality(S) : r(i) = q(i)
    BY <1>1
  <1>3. /\ Sorted(S, R) = [i \in 1..Cardinality(S) |-> r(i)]
        /\ Sorted(S, Q) = [i \in 1..Cardinality(S) |-> q(i)]
    BY DEF Sorted
  <1> HIDE DEF r, q
  <1> QED
    BY <1>2, <1>3

(* A member above all others comes last.                                   *)
LEMMA SortedAppended ==
    ASSUME NEW S, IsFiniteSet(S), NEW R, StrictOrder(S, R), NEW m, m \notin S,
           NEW Q, StrictOrder(S \cup {m}, Q),
           \A a, b \in S : <<a, b>> \in R <=> <<a, b>> \in Q,
           \A k \in S : <<k, m>> \in Q
    PROVE  Sorted(S \cup {m}, Q) = Append(Sorted(S, R), m)
  <1> DEFINE s == Sorted(S, R)
             t == Append(s, m)
  <1>1. Lists(s, S, R)
    BY SortedLists
  <1> HIDE DEF s
  <1>2. /\ s \in Seq(S \cup {m}) /\ m \in S \cup {m} /\ Len(s) \in Nat
        /\ DOMAIN s = 1..Len(s) /\ s \in [DOMAIN s -> S]
    BY <1>1 DEF Lists
  <1>3. /\ t \in Seq(S \cup {m}) /\ DOMAIN t = 1..(Len(s) + 1)
        /\ t[Len(s) + 1] = m /\ \A i \in 1..Len(s) : t[i] = s[i] /\ t[i] \in S
    BY <1>2
  <1> HIDE DEF t
  <1>4. ASSUME NEW k \in S \cup {m}
        PROVE  \E i \in DOMAIN t : t[i] = k
    <2>1. CASE k = m
      BY <1>2, <1>3, <2>1
    <2>2. CASE k \in S
      <3>1. PICK i \in DOMAIN s : s[i] = k
        BY <1>1, <2>2 DEF Lists
      <3> QED
        BY <1>2, <1>3, <3>1
    <2> QED
      BY <2>1, <2>2
  <1>5. ASSUME NEW i \in DOMAIN t, NEW j \in DOMAIN t, i < j
        PROVE  <<t[i], t[j]>> \in Q
    <2>1. i \in 1..Len(s)
      BY <1>2, <1>3, <1>5
    <2>2. CASE j = Len(s) + 1
      BY <1>3, <2>1, <2>2
    <2>3. CASE j \in 1..Len(s)
      <3>1. <<s[i], s[j]>> \in R
        BY <1>1, <1>2, <1>5, <2>1, <2>3 DEF Lists
      <3> QED
        BY <1>3, <2>1, <2>3, <3>1
    <2> QED
      BY <1>2, <1>3, <2>2, <2>3
  <1>6. Lists(t, S \cup {m}, Q)
    BY <1>3, <1>4, <1>5 DEF Lists
  <1>7. t = Sorted(S \cup {m}, Q)
    BY <1>6, ListingIsSorted
  <1> QED
    BY <1>7 DEF t, s

-------------------------------------------------------------------------------
(* Identifiers and endpoints *)

\* A graph value has exactly its eight fields.
HasShape(g) ==
    g = [nodes |-> g.nodes, node_index_map |-> g.node_index_map, edges |-> g.edges,
         next_node_id |-> g.next_node_id, next_edge_id |-> g.next_edge_id,
         root |-> g.root, cfg_entries |-> g.cfg_entries, cfg_exits |-> g.cfg_exits]

\* Weights are stored in sequences, whatever the weights are.
HasVectors(g) ==
    /\ \E T : g.nodes \in Seq(T)
    /\ \E T : g.edges \in Seq(T)

HasCounters(g) == g.next_node_id \in NodeId /\ g.next_edge_id \in EdgeId

\* The node map and the node vector are inverse to each other.
NodesIndexed(g) ==
    /\ \A i \in DOMAIN g.nodes : /\ "id" \in DOMAIN g.nodes[i]
                                 /\ g.nodes[i].id \in NodeIds(g)
                                 /\ g.node_index_map[g.nodes[i].id] = i
    /\ \A id \in NodeIds(g) : /\ g.node_index_map[id] \in DOMAIN g.nodes
                              /\ NodeAt(g, id).id = id

\* The counter is ahead of every identifier, or it has saturated.
NodeCounterAhead(g) ==
    \A id \in NodeIds(g) : id \in NodeId /\ (id < g.next_node_id \/ g.next_node_id = MaxId)

EdgeCounterAhead(g) ==
    \A k \in DOMAIN g.edges :
        /\ g.edges[k].id \in EdgeId
        /\ g.edges[k].id < g.next_edge_id \/ g.next_edge_id = MaxId

EdgesNumbered(g) == \A j, k \in DOMAIN g.edges : g.edges[j].id = g.edges[k].id => j = k

\* The inductive strengthening of UniqueIdentifiers and EndpointsStored.
Coherent(g) ==
    /\ HasShape(g) /\ HasVectors(g) /\ HasCounters(g)
    /\ NodesIndexed(g) /\ NodeCounterAhead(g)
    /\ EdgeCounterAhead(g) /\ EdgesNumbered(g)
    /\ EndpointsStored(g)

\* h holds what g holds where g holds it, and no counter fell back.
Extends(h, g) ==
    /\ \A id \in NodeIds(g) : id \in NodeIds(h) /\ h.node_index_map[id] = g.node_index_map[id]
    /\ \A k \in DOMAIN g.edges : k \in DOMAIN h.edges /\ h.edges[k] = g.edges[k]
    /\ h.next_node_id >= g.next_node_id
    /\ h.next_edge_id >= g.next_edge_id

-------------------------------------------------------------------------------

(* saturating_add stays in u32, never falls, and passes n unless n is the  *)
(* last identifier there is.                                               *)
LEMMA SaturatingSuccFacts ==
    ASSUME NEW n \in NodeId
    PROVE  /\ SaturatingSucc(n) \in NodeId
           /\ SaturatingSucc(n) >= n
           /\ n < SaturatingSucc(n) \/ SaturatingSucc(n) = MaxId
  BY MaxIdAssumption DEF SaturatingSucc, NodeId

(* The explicit-identifier counter update covers the new identifier and    *)
(* the old counter.                                                        *)
LEMMA HigherFacts ==
    ASSUME NEW m \in NodeId, NEW n \in NodeId
    PROVE  /\ Higher(m, n) \in NodeId
           /\ Higher(m, n) >= m /\ Higher(m, n) >= n
  BY MaxIdAssumption DEF Higher, NodeId

(* A new graph is coherent. *)
LEMMA EmptyStoreCoherent == Coherent(EmptyStore)
  <1>1. HasShape(EmptyStore)
    BY DEF HasShape, EmptyStore
  <1>2. /\ EmptyStore.nodes = <<>> /\ EmptyStore.edges = <<>>
        /\ EmptyStore.node_index_map = <<>>
        /\ EmptyStore.next_node_id = 0 /\ EmptyStore.next_edge_id = 0
    BY DEF EmptyStore
  <1>3. HasVectors(EmptyStore)
    <2>1. <<>> \in Seq({})
      OBVIOUS
    <2> QED BY <1>2, <2>1 DEF HasVectors
  <1>4. HasCounters(EmptyStore)
    BY <1>2, MaxIdAssumption DEF HasCounters, NodeId, EdgeId
  <1>5. NodeIds(EmptyStore) = {}
    BY <1>2 DEF NodeIds
  <1> QED
    BY <1>1, <1>2, <1>3, <1>4, <1>5
    DEF Coherent, NodesIndexed, NodeCounterAhead, EdgeCounterAhead, EdgesNumbered, EndpointsStored

(* Appending to a vector keeps every stored weight at its position.        *)
LEMMA AppendFacts ==
    ASSUME NEW S, NEW s \in Seq(S), NEW e
    PROVE  /\ Append(s, e) \in Seq(S \cup {e})
           /\ Len(s) \in Nat /\ DOMAIN s = 1..Len(s)
           /\ Len(Append(s, e)) = Len(s) + 1
           /\ DOMAIN Append(s, e) = DOMAIN s \cup {Len(s) + 1}
           /\ Len(s) + 1 \notin DOMAIN s
           /\ \A i \in DOMAIN s : Append(s, e)[i] = s[i]
           /\ Append(s, e)[Len(s) + 1] = e
  <1>1. s \in Seq(S \cup {e}) /\ e \in S \cup {e}
    OBVIOUS
  <1> QED
    BY <1>1

(* Storing a node under a free identifier, with a counter that covers it,  *)
(* keeps the graph coherent and moves nothing.                             *)
LEMMA PushNodeCoherent ==
    ASSUME NEW g, Coherent(g), NEW node, "id" \in DOMAIN node,
           node.id \in NodeId \ NodeIds(g),
           NEW next \in NodeId, next >= g.next_node_id,
           node.id < next \/ next = MaxId
    PROVE  Coherent(PushNode(g, node, next)) /\ Extends(PushNode(g, node, next), g)
  <1> DEFINE h == PushNode(g, node, next)
             n == Len(g.nodes) + 1
  <1>1. PICK T : g.nodes \in Seq(T)
    BY DEF Coherent, HasVectors
  <1>2. HasShape(h) /\ /\ h.nodes = Append(g.nodes, node)
                       /\ h.node_index_map = [id \in NodeIds(g) \cup {node.id} |->
                              IF id = node.id THEN n ELSE g.node_index_map[id]]
                       /\ h.edges = g.edges /\ h.next_node_id = next
                       /\ h.next_edge_id = g.next_edge_id
    <2> DEFINE vector == Append(g.nodes, node)
               map == [id \in DOMAIN g.node_index_map \cup {node.id} |->
                          IF id = node.id THEN Len(g.nodes) + 1 ELSE g.node_index_map[id]]
               top == IF g.root = None THEN node.id ELSE g.root
    <2>1. h = [g EXCEPT !.nodes = vector, !.node_index_map = map,
                        !.next_node_id = next, !.root = top]
      BY DEF PushNode
    <2> HIDE DEF vector, map, top, h
    <2>2. HasShape(h) /\ /\ h.nodes = vector /\ h.node_index_map = map
                         /\ h.edges = g.edges /\ h.next_node_id = next
                         /\ h.next_edge_id = g.next_edge_id
      BY <2>1 DEF Coherent, HasShape
    <2> QED
      BY <2>2 DEF vector, map, NodeIds
  <1>3. /\ h.nodes \in Seq(T \cup {node})
        /\ n \notin DOMAIN g.nodes /\ n \in Nat
        /\ DOMAIN h.nodes = DOMAIN g.nodes \cup {n}
        /\ \A i \in DOMAIN g.nodes : h.nodes[i] = g.nodes[i]
        /\ h.nodes[n] = node
    BY <1>1, <1>2, AppendFacts
  <1>4. /\ NodeIds(h) = NodeIds(g) \cup {node.id}
        /\ h.node_index_map[node.id] = n
        /\ \A id \in NodeIds(g) : id # node.id /\ h.node_index_map[id] = g.node_index_map[id]
    BY <1>2 DEF NodeIds
  <1>5. HasVectors(h) /\ HasCounters(h)
    BY <1>2, <1>3 DEF Coherent, HasVectors, HasCounters
  <1>6. NodesIndexed(h)
    <2> HIDE DEF h
    <2>1. ASSUME NEW i \in DOMAIN h.nodes
          PROVE  /\ "id" \in DOMAIN h.nodes[i]
                 /\ h.nodes[i].id \in NodeIds(h)
                 /\ h.node_index_map[h.nodes[i].id] = i
      <3>1. CASE i = n
        BY <1>3, <1>4, <3>1
      <3>2. CASE i \in DOMAIN g.nodes
        <4>1. /\ "id" \in DOMAIN g.nodes[i] /\ g.nodes[i].id \in NodeIds(g)
              /\ g.node_index_map[g.nodes[i].id] = i
          BY <3>2 DEF Coherent, NodesIndexed
        <4>2. h.nodes[i] = g.nodes[i]
          BY <1>3, <3>2
        <4> QED
          BY <1>4, <4>1, <4>2
      <3> QED
        BY <1>3, <3>1, <3>2
    <2>2. ASSUME NEW id \in NodeIds(h)
          PROVE  h.node_index_map[id] \in DOMAIN h.nodes /\ h.nodes[h.node_index_map[id]].id = id
      <3>1. CASE id = node.id
        BY <1>3, <1>4, <3>1
      <3>2. CASE id \in NodeIds(g)
        <4>1. /\ g.node_index_map[id] \in DOMAIN g.nodes
              /\ g.nodes[g.node_index_map[id]].id = id
          BY <3>2 DEF Coherent, NodesIndexed, NodeAt
        <4>2. h.node_index_map[id] = g.node_index_map[id]
          BY <1>4, <3>2
        <4>3. h.nodes[g.node_index_map[id]] = g.nodes[g.node_index_map[id]]
          BY <1>3, <4>1
        <4> QED
          BY <1>3, <4>1, <4>2, <4>3
      <3> QED
        BY <1>4, <3>1, <3>2
    <2> QED
      BY <2>1, <2>2 DEF NodesIndexed, NodeAt
  <1>7. NodeCounterAhead(h)
    <2>1. g.next_node_id \in NodeId
      BY DEF Coherent, HasCounters
    <2> SUFFICES ASSUME NEW id \in NodeIds(h)
                 PROVE  id \in NodeId /\ (id < next \/ next = MaxId)
      BY <1>2 DEF NodeCounterAhead
    <2>2. CASE id = node.id
      BY <2>2
    <2>3. CASE id \in NodeIds(g)
      BY <2>1, <2>3, MaxIdAssumption DEF Coherent, NodeCounterAhead, NodeId
    <2> QED
      BY <1>4, <2>2, <2>3
  <1>8. EdgeCounterAhead(h) /\ EdgesNumbered(h)
    BY <1>2 DEF Coherent, EdgeCounterAhead, EdgesNumbered
  <1>9. EndpointsStored(h)
    BY <1>2, <1>4 DEF Coherent, EndpointsStored, HasEndpoints
  <1>10. Extends(h, g)
    BY <1>2, <1>4, MaxIdAssumption DEF Coherent, HasCounters, Extends, NodeId, EdgeId
  <1> QED
    BY <1>2, <1>5, <1>6, <1>7, <1>8, <1>9, <1>10 DEF Coherent

(* Rewriting a stored node without its identity disturbs nothing else.     *)
LEMMA SetNodeCoherent ==
    ASSUME NEW g, Coherent(g), NEW id \in NodeIds(g),
           NEW f, "id" \in DOMAIN f, f.id = id
    PROVE  /\ Coherent(SetNode(g, id, f))
           /\ Extends(SetNode(g, id, f), g)
           /\ NodeIds(SetNode(g, id, f)) = NodeIds(g)
           /\ SetNode(g, id, f).edges = g.edges
  <1> DEFINE h == SetNode(g, id, f)
             n == g.node_index_map[id]
  <1>1. PICK T : g.nodes \in Seq(T)
    BY DEF Coherent, HasVectors
  <1>2. HasShape(h) /\ /\ h.nodes = [g.nodes EXCEPT ![n] = f]
                       /\ h.node_index_map = g.node_index_map /\ h.edges = g.edges
                       /\ h.next_node_id = g.next_node_id
                       /\ h.next_edge_id = g.next_edge_id
    BY DEF Coherent, HasShape, SetNode
  <1>3. n \in DOMAIN g.nodes
    BY DEF Coherent, NodesIndexed
  <1>4. h.nodes \in Seq(T \cup {f})
    <2> DEFINE S == T \cup {f}
    <2>1. g.nodes \in Seq(S) /\ f \in S
      BY <1>1
    <2> HIDE DEF S, h, n
    <2> QED
      BY <1>2, <1>3, <2>1 DEF S
  <1>5. NodeIds(h) = NodeIds(g)
    BY <1>2 DEF NodeIds
  <1>6. NodesIndexed(h)
    BY <1>2, <1>3, <1>5 DEF Coherent, NodesIndexed, NodeAt
  <1>7. /\ HasVectors(h) /\ HasCounters(h) /\ NodeCounterAhead(h)
        /\ EdgeCounterAhead(h) /\ EdgesNumbered(h) /\ EndpointsStored(h)
    BY <1>2, <1>4, <1>5
    DEF Coherent, HasVectors, HasCounters, NodeCounterAhead, EdgeCounterAhead,
        EdgesNumbered, EndpointsStored, HasEndpoints
  <1>8. Extends(h, g)
    BY <1>2, <1>5, MaxIdAssumption DEF Coherent, HasCounters, Extends, NodeId, EdgeId
  <1> QED
    BY <1>2, <1>5, <1>6, <1>7, <1>8 DEF Coherent

(* Storing an edge between stored nodes under a free identifier.           *)
LEMMA LinkEdgeCoherent ==
    ASSUME NEW g, Coherent(g), NEW e, HasEndpoints(g, e),
           e.id \in EdgeId, \A k \in DOMAIN g.edges : g.edges[k].id # e.id,
           NEW next \in EdgeId, next >= g.next_edge_id,
           e.id < next \/ next = MaxId
    PROVE  /\ Coherent(LinkEdge(g, e, next))
           /\ Extends(LinkEdge(g, e, next), g)
           /\ NodeIds(LinkEdge(g, e, next)) = NodeIds(g)
  <1> DEFINE h == LinkEdge(g, e, next)
             n == Len(g.edges) + 1
             stored == [id |-> e.id, source |-> e.source, target |-> e.target, kind |-> e.kind,
                        from |-> g.node_index_map[e.source], to |-> g.node_index_map[e.target]]
  <1>1. PICK T : g.edges \in Seq(T)
    BY DEF Coherent, HasVectors
  <1>2. HasShape(h) /\ /\ h.edges = Append(g.edges, stored)
                       /\ h.nodes = g.nodes /\ h.node_index_map = g.node_index_map
                       /\ h.next_node_id = g.next_node_id /\ h.next_edge_id = next
    <2> DEFINE vector == Append(g.edges, stored)
    <2>1. h = [g EXCEPT !.edges = vector, !.next_edge_id = next]
      BY DEF LinkEdge
    <2> HIDE DEF vector, h
    <2>2. HasShape(h) /\ /\ h.edges = vector
                         /\ h.nodes = g.nodes /\ h.node_index_map = g.node_index_map
                         /\ h.next_node_id = g.next_node_id /\ h.next_edge_id = next
      BY <2>1 DEF Coherent, HasShape
    <2> QED
      BY <2>2 DEF vector
  <1>3. /\ h.edges \in Seq(T \cup {stored})
        /\ n \notin DOMAIN g.edges
        /\ DOMAIN h.edges = DOMAIN g.edges \cup {n}
        /\ \A k \in DOMAIN g.edges : h.edges[k] = g.edges[k]
        /\ h.edges[n] = stored
    BY <1>1, <1>2, AppendFacts
  <1>4. NodeIds(h) = NodeIds(g)
    BY <1>2 DEF NodeIds
  <1>5. /\ HasVectors(h) /\ HasCounters(h) /\ NodesIndexed(h) /\ NodeCounterAhead(h)
    BY <1>2, <1>3, <1>4
    DEF Coherent, HasVectors, HasCounters, NodesIndexed, NodeCounterAhead, NodeAt
  <1>6. EdgeCounterAhead(h)
    <2>1. g.next_edge_id \in EdgeId
      BY DEF Coherent, HasCounters
    <2> SUFFICES ASSUME NEW k \in DOMAIN h.edges
                 PROVE  /\ h.edges[k].id \in EdgeId
                        /\ h.edges[k].id < next \/ next = MaxId
      BY <1>2 DEF EdgeCounterAhead
    <2>2. CASE k = n
      BY <1>3, <2>2
    <2>3. CASE k \in DOMAIN g.edges
      BY <1>3, <2>1, <2>3, MaxIdAssumption DEF Coherent, EdgeCounterAhead, EdgeId
    <2> QED
      BY <1>3, <2>2, <2>3
  <1>7. EdgesNumbered(h)
    BY <1>3 DEF Coherent, EdgesNumbered
  <1>8. EndpointsStored(h)
    <2>1. HasEndpoints(h, stored)
      BY <1>4 DEF HasEndpoints
    <2> QED
      BY <1>2, <1>3, <1>4, <2>1 DEF Coherent, EndpointsStored, HasEndpoints
  <1>9. Extends(h, g)
    BY <1>2, <1>3, <1>4, MaxIdAssumption DEF Coherent, HasCounters, Extends, NodeId, EdgeId
  <1> QED
    BY <1>2, <1>4, <1>5, <1>6, <1>7, <1>8, <1>9 DEF Coherent

(* A stored node keeps its identity when its child list, its parent or its *)
(* embedded references are rewritten.                                      *)
LEMMA StoredNodeFacts ==
    ASSUME NEW g, Coherent(g), NEW id \in NodeIds(g), NEW v,
           NEW f, \/ f = [NodeAt(g, id) EXCEPT !.children = v]
                  \/ f = [NodeAt(g, id) EXCEPT !.parent = v]
                  \/ f = [NodeAt(g, id) EXCEPT !.refs = v]
    PROVE  "id" \in DOMAIN f /\ f.id = id
  <1>1. "id" \in DOMAIN NodeAt(g, id) /\ NodeAt(g, id).id = id
    BY DEF Coherent, NodesIndexed, NodeAt
  <1> QED
    BY <1>1

(* Operations can be chained, ...                                         *)
LEMMA ExtendsIsTransitive ==
    ASSUME NEW g, NEW h, NEW i, Coherent(g), Coherent(h), Coherent(i),
           Extends(h, g), Extends(i, h)
    PROVE  Extends(i, g)
  <1>1. /\ {g.next_node_id, h.next_node_id, i.next_node_id} \subseteq Nat
        /\ {g.next_edge_id, h.next_edge_id, i.next_edge_id} \subseteq Nat
    BY MaxIdAssumption DEF Coherent, HasCounters, NodeId, EdgeId
  <1> QED
    BY <1>1 DEF Extends

(* ... and doing nothing takes nothing away.                               *)
LEMMA ExtendsIsReflexive ==
    ASSUME NEW g, Coherent(g)
    PROVE  Extends(g, g)
  BY MaxIdAssumption DEF Coherent, HasCounters, NodeId, EdgeId, Extends

(* add_node: the identifier handed out is new, up to the last one.         *)
LEMMA AddNodeCoherent ==
    ASSUME NEW g, Coherent(g), CanTakeNodeId(g), NEW node \in Node
    PROVE  Coherent(AddNode(g, node)) /\ Extends(AddNode(g, node), g)
  <1> DEFINE taken == [node EXCEPT !.id = g.next_node_id]
             next == SaturatingSucc(g.next_node_id)
  <1>1. g.next_node_id \in NodeId
    BY DEF Coherent, HasCounters
  <1>2. "id" \in DOMAIN taken /\ taken.id = g.next_node_id
    BY DEF Node
  <1>3. g.next_node_id \notin NodeIds(g)
    BY <1>1, MaxIdAssumption DEF Coherent, NodeCounterAhead, CanTakeNodeId, NodeId
  <1>4. /\ next \in NodeId /\ next >= g.next_node_id
        /\ g.next_node_id < next \/ next = MaxId
    BY <1>1, SaturatingSuccFacts
  <1>5. Coherent(PushNode(g, taken, next)) /\ Extends(PushNode(g, taken, next), g)
    <2> HIDE DEF taken, next
    <2> QED
      BY <1>1, <1>2, <1>3, <1>4, PushNodeCoherent
  <1> QED
    BY <1>5 DEF AddNode

(* add_node_with_id, for an identifier that is free.                       *)
LEMMA AddNodeWithIdCoherent ==
    ASSUME NEW g, Coherent(g), NEW node \in Node, node.id \notin NodeIds(g)
    PROVE  Coherent(AddNodeWithId(g, node)) /\ Extends(AddNodeWithId(g, node), g)
  <1> DEFINE succ == SaturatingSucc(node.id)
             next == Higher(g.next_node_id, succ)
  <1>1. g.next_node_id \in NodeId /\ node.id \in NodeId /\ "id" \in DOMAIN node
    BY DEF Coherent, HasCounters, Node
  <1>2. /\ succ \in NodeId
        /\ node.id < succ \/ succ = MaxId
    BY <1>1, SaturatingSuccFacts
  <1>3. next \in NodeId /\ next >= g.next_node_id /\ next >= succ
    BY <1>1, <1>2, HigherFacts
  <1>4. node.id < next \/ next = MaxId
    <2> HIDE DEF succ, next
    <2> QED
      BY <1>1, <1>2, <1>3, MaxIdAssumption DEF NodeId
  <1>5. Coherent(PushNode(g, node, next)) /\ Extends(PushNode(g, node, next), g)
    <2> HIDE DEF succ, next
    <2> QED
      BY <1>1, <1>3, <1>4, PushNodeCoherent
  <1> QED
    BY <1>5 DEF AddNodeWithId

EdgeValue(e) == {"id", "source", "target", "kind"} \subseteq DOMAIN e /\ e.id \in EdgeId

(* The automatic edge identifier is new too.                               *)
LEMMA LinkTakenCoherent ==
    ASSUME NEW g, Coherent(g), CanTakeEdgeId(g), NEW e, EdgeValue(e), HasEndpoints(g, e)
    PROVE  LET taken == [e EXCEPT !.id = g.next_edge_id]
               h == LinkEdge(g, taken, SaturatingSucc(g.next_edge_id))
           IN /\ Coherent(h) /\ Extends(h, g) /\ NodeIds(h) = NodeIds(g)
              /\ taken.source = e.source /\ taken.target = e.target
  <1> DEFINE taken == [e EXCEPT !.id = g.next_edge_id]
             next == SaturatingSucc(g.next_edge_id)
  <1>1. g.next_edge_id \in EdgeId /\ EdgeId = NodeId
    BY DEF Coherent, HasCounters, EdgeId, NodeId
  <1>2. taken.id = g.next_edge_id /\ taken.source = e.source /\ taken.target = e.target
    BY DEF EdgeValue
  <1>3. \A k \in DOMAIN g.edges : g.edges[k].id # g.next_edge_id
    BY <1>1, MaxIdAssumption DEF Coherent, EdgeCounterAhead, CanTakeEdgeId, EdgeId
  <1>4. /\ next \in EdgeId /\ next >= g.next_edge_id
        /\ g.next_edge_id < next \/ next = MaxId
    BY <1>1, SaturatingSuccFacts
  <1>5. HasEndpoints(g, taken)
    BY <1>2 DEF HasEndpoints
  <1>6. /\ Coherent(LinkEdge(g, taken, next)) /\ Extends(LinkEdge(g, taken, next), g)
        /\ NodeIds(LinkEdge(g, taken, next)) = NodeIds(g)
    <2> HIDE DEF taken, next
    <2> QED
      BY <1>1, <1>2, <1>3, <1>4, <1>5, LinkEdgeCoherent
  <1> QED
    BY <1>2, <1>6

(* Appending to a child list and replacing a parent rewrite two nodes.     *)
LEMMA IndexAppendedAstChildCoherent ==
    ASSUME NEW g, Coherent(g), NEW e, HasEndpoints(g, e), NEW replace
    PROVE  /\ Coherent(IndexAppendedAstChild(g, e, replace))
           /\ Extends(IndexAppendedAstChild(g, e, replace), g)
  <1> DEFINE list == Append(NodeAt(g, e.source).children, e.target)
             f == [NodeAt(g, e.source) EXCEPT !.children = list]
             pushed == SetNode(g, e.source, f)
             p == [NodeAt(pushed, e.target) EXCEPT !.parent = e.source]
  <1>1. e.source \in NodeIds(g) /\ e.target \in NodeIds(g)
    BY DEF HasEndpoints
  <1>2. "id" \in DOMAIN f /\ f.id = e.source
    <2>1. f = [NodeAt(g, e.source) EXCEPT !.children = list]
      OBVIOUS
    <2> HIDE DEF list, f
    <2> QED
      BY <1>1, <2>1, StoredNodeFacts
  <1>3. Coherent(pushed) /\ Extends(pushed, g) /\ NodeIds(pushed) = NodeIds(g)
    <2> HIDE DEF f
    <2> QED
      BY <1>1, <1>2, SetNodeCoherent
  <1>4. "id" \in DOMAIN p /\ p.id = e.target
    <2>1. p = [NodeAt(pushed, e.target) EXCEPT !.parent = e.source]
      OBVIOUS
    <2> HIDE DEF pushed, p
    <2> QED
      BY <1>1, <1>3, <2>1, StoredNodeFacts
  <1>5. Coherent(SetNode(pushed, e.target, p)) /\ Extends(SetNode(pushed, e.target, p), g)
    <2> HIDE DEF pushed, p
    <2> QED
      BY <1>1, <1>3, <1>4, SetNodeCoherent, ExtendsIsTransitive
  <1> QED
    BY <1>3, <1>5 DEF IndexAppendedAstChild

(* add_edge, for endpoints that exist.                                     *)
LEMMA AddEdgeCoherent ==
    ASSUME NEW g, Coherent(g), CanTakeEdgeId(g), NEW e, EdgeValue(e), HasEndpoints(g, e)
    PROVE  Coherent(AddEdge(g, e)) /\ Extends(AddEdge(g, e), g)
  <1> DEFINE taken == [e EXCEPT !.id = g.next_edge_id]
             linked == LinkEdge(g, taken, SaturatingSucc(g.next_edge_id))
             replace == AppendedAstParentNeedsUpdate(g, g.node_index_map[e.target], e.source)
  <1>1. /\ Coherent(linked) /\ Extends(linked, g) /\ NodeIds(linked) = NodeIds(g)
        /\ taken.source = e.source /\ taken.target = e.target
    BY LinkTakenCoherent
  <1>2. HasEndpoints(linked, taken)
    BY <1>1 DEF HasEndpoints
  <1>3. /\ Coherent(IndexAppendedAstChild(linked, taken, replace))
        /\ Extends(IndexAppendedAstChild(linked, taken, replace), g)
    <2> HIDE DEF taken, linked, replace
    <2> QED
      BY <1>1, <1>2, IndexAppendedAstChildCoherent, ExtendsIsTransitive
  <1> QED
    BY <1>1, <1>3 DEF AddEdge

(* add_edge_with_id, for endpoints that exist and a free identifier.       *)
LEMMA AddEdgeWithIdCoherent ==
    ASSUME NEW g, Coherent(g), NEW e, EdgeValue(e), HasEndpoints(g, e),
           \A k \in DOMAIN g.edges : g.edges[k].id # e.id
    PROVE  Coherent(AddEdgeWithId(g, e)) /\ Extends(AddEdgeWithId(g, e), g)
  <1> DEFINE succ == SaturatingSucc(e.id)
             next == Higher(g.next_edge_id, succ)
             linked == LinkEdge(g, e, next)
             ordered == RebuildAstChildren(linked, e.source)
             rebuilt == RebuildAstParent(ordered, e.target)
  <1>1. g.next_edge_id \in NodeId /\ e.id \in NodeId /\ EdgeId = NodeId
    BY DEF Coherent, HasCounters, EdgeId, NodeId, EdgeValue
  <1>2. /\ succ \in NodeId
        /\ e.id < succ \/ succ = MaxId
    BY <1>1, SaturatingSuccFacts
  <1>3. next \in NodeId /\ next >= g.next_edge_id /\ next >= succ
    BY <1>1, <1>2, HigherFacts
  <1>4. e.id < next \/ next = MaxId
    <2> HIDE DEF succ, next
    <2> QED
      BY <1>1, <1>2, <1>3, MaxIdAssumption DEF NodeId
  <1>5. /\ Coherent(linked) /\ Extends(linked, g) /\ NodeIds(linked) = NodeIds(g)
    <2> HIDE DEF succ, next
    <2> QED
      BY <1>1, <1>3, <1>4, LinkEdgeCoherent
  <1>6. e.source \in NodeIds(linked) /\ e.target \in NodeIds(linked)
    BY <1>5 DEF HasEndpoints
  <1>7. /\ Coherent(ordered) /\ Extends(ordered, linked)
        /\ NodeIds(ordered) = NodeIds(linked)
    <2> DEFINE row == AstRow(linked, linked.node_index_map[e.source])
               f == [NodeAt(linked, e.source) EXCEPT !.children = row]
    <2>1. f = [NodeAt(linked, e.source) EXCEPT !.children = row] /\ ordered = SetNode(linked, e.source, f)
      BY DEF RebuildAstChildren
    <2> HIDE DEF linked, ordered, row, f
    <2>2. "id" \in DOMAIN f /\ f.id = e.source
      BY <1>5, <1>6, <2>1, StoredNodeFacts
    <2> QED
      BY <1>5, <1>6, <2>1, <2>2, SetNodeCoherent
  <1>8. Coherent(rebuilt) /\ Extends(rebuilt, ordered)
    <2> DEFINE source == LowestAstSource(ordered, ordered.node_index_map[e.target])
               f == [NodeAt(ordered, e.target) EXCEPT !.parent = source]
    <2>1. f = [NodeAt(ordered, e.target) EXCEPT !.parent = source] /\ rebuilt = SetNode(ordered, e.target, f)
      BY DEF RebuildAstParent
    <2> HIDE DEF linked, ordered, rebuilt, source, f
    <2>2. "id" \in DOMAIN f /\ f.id = e.target
      BY <1>6, <1>7, <2>1, StoredNodeFacts
    <2> QED
      BY <1>6, <1>7, <2>1, <2>2, SetNodeCoherent
  <1>9. Extends(rebuilt, g)
    <2> HIDE DEF linked, ordered, rebuilt
    <2>1. Extends(ordered, g)
      BY <1>5, <1>7, ExtendsIsTransitive
    <2> QED
      BY <1>7, <1>8, <2>1, ExtendsIsTransitive
  <1> QED
    BY <1>5, <1>8, <1>9 DEF AddEdgeWithId

(* Recording a boundary node rewrites neither nodes nor edges.             *)
LEMMA AddCfgBoundaryCoherent ==
    ASSUME NEW g, Coherent(g), NEW id, NEW h,
           h = AddCfgEntry(g, id) \/ h = AddCfgExit(g, id)
    PROVE  /\ Coherent(h) /\ Extends(h, g)
           /\ h.nodes = g.nodes /\ h.edges = g.edges
  <1>1. HasShape(h) /\ /\ h.nodes = g.nodes /\ h.node_index_map = g.node_index_map
                       /\ h.edges = g.edges /\ h.next_node_id = g.next_node_id
                       /\ h.next_edge_id = g.next_edge_id
    BY DEF Coherent, HasShape, AddCfgEntry, AddCfgExit
  <1>2. NodeIds(h) = NodeIds(g)
    BY <1>1 DEF NodeIds
  <1>3. Coherent(h)
    BY <1>1, <1>2
    DEF Coherent, HasVectors, HasCounters, NodesIndexed, NodeAt, NodeCounterAhead,
        EdgeCounterAhead, EdgesNumbered, EndpointsStored, HasEndpoints
  <1>4. Extends(h, g)
    BY <1>1, <1>2, MaxIdAssumption DEF Coherent, HasCounters, Extends, NodeId, EdgeId
  <1> QED
    BY <1>1, <1>3, <1>4

-------------------------------------------------------------------------------
(* Types *)

TypedStore(g) ==
    /\ g.nodes \in Seq(Node) /\ g.edges \in Seq(Edge)
    /\ g.root \in NodeId \cup {None}
    /\ g.cfg_entries \in Seq(NodeId) /\ g.cfg_exits \in Seq(NodeId)

\* What edges are inserted with.
EdgeRequest == [id: EdgeId, source: NodeId, target: NodeId, kind: Kinds]

(* Identifiers, positions and edges of a typed coherent graph.             *)
LEMMA StoreFacts ==
    ASSUME NEW g, Coherent(g), TypedStore(g)
    PROVE  /\ DOMAIN g.nodes = 1..Len(g.nodes) /\ Len(g.nodes) \in Nat
           /\ DOMAIN g.edges = 1..Len(g.edges) /\ Len(g.edges) \in Nat
           /\ IsFiniteSet(DOMAIN g.edges) /\ IsFiniteSet(DOMAIN g.nodes)
           /\ NodeIds(g) \subseteq NodeId
           /\ \A id \in NodeIds(g) : /\ g.node_index_map[id] \in DOMAIN g.nodes
                                     /\ NodeAt(g, id) \in Node
           /\ \A k \in DOMAIN g.edges : /\ g.edges[k] \in Edge
                                        /\ g.edges[k].from \in DOMAIN g.nodes
                                        /\ g.edges[k].to \in DOMAIN g.nodes
  <1>1. /\ DOMAIN g.nodes = 1..Len(g.nodes) /\ Len(g.nodes) \in Nat
        /\ DOMAIN g.edges = 1..Len(g.edges) /\ Len(g.edges) \in Nat
    BY DEF TypedStore
  <1>2. IsFiniteSet(DOMAIN g.edges) /\ IsFiniteSet(DOMAIN g.nodes)
    <2>1. \A n \in Nat : IsFiniteSet(1..n)
      BY FS_Interval
    <2> QED
      BY <1>1, <2>1
  <1>3. NodeIds(g) \subseteq NodeId
    BY DEF Coherent, NodeCounterAhead
  <1>4. \A id \in NodeIds(g) : g.node_index_map[id] \in DOMAIN g.nodes
    BY DEF Coherent, NodesIndexed
  <1>5. \A id \in NodeIds(g) : NodeAt(g, id) \in Node
    BY <1>1, <1>4 DEF TypedStore, NodeAt
  <1>6. \A k \in DOMAIN g.edges : g.edges[k] \in Edge
    BY <1>1 DEF TypedStore
  <1>7. \A k \in DOMAIN g.edges : g.edges[k].from \in DOMAIN g.nodes /\ g.edges[k].to \in DOMAIN g.nodes
    BY <1>4 DEF Coherent, EndpointsStored, HasEndpoints
  <1> QED
    BY <1>1, <1>2, <1>3, <1>4, <1>5, <1>6, <1>7

(* A rewritten node is a node again.                                       *)
LEMMA RewrittenNodes ==
    ASSUME NEW node \in Node
    PROVE  /\ \A v \in Seq(NodeId) : LET f == [node EXCEPT !.children = v]
                                     IN  f \in Node /\ f.children = v /\ f.parent = node.parent /\ f.id = node.id
           /\ \A v \in NodeId \cup {None} : LET f == [node EXCEPT !.parent = v]
                                     IN  f \in Node /\ f.parent = v /\ f.children = node.children /\ f.id = node.id
           /\ \A v \in SUBSET NodeId : LET f == [node EXCEPT !.refs = v]
                                     IN  f \in Node /\ f.parent = node.parent /\ f.children = node.children /\ f.id = node.id
           /\ \A v \in NodeId : LET f == [node EXCEPT !.id = v]
                                     IN  f \in Node /\ f.parent = node.parent /\ f.children = node.children /\ f.id = v
  BY DEF Node

(* What SetNode writes, field by field.                                    *)
LEMMA SetNodeFacts ==
    ASSUME NEW g, Coherent(g), TypedStore(g), NEW id \in NodeIds(g), NEW f \in Node
    PROVE  LET h == SetNode(g, id, f)
               n == g.node_index_map[id]
           IN /\ TypedStore(h)
              /\ h.node_index_map = g.node_index_map /\ NodeIds(h) = NodeIds(g)
              /\ h.edges = g.edges
              /\ DOMAIN h.nodes = DOMAIN g.nodes
              /\ h.nodes[n] = f /\ NodeAt(h, id) = f
              /\ \A i \in DOMAIN g.nodes : i # n => h.nodes[i] = g.nodes[i]
  <1> DEFINE h == SetNode(g, id, f)
             n == g.node_index_map[id]
  <1>1. /\ h.nodes = [g.nodes EXCEPT ![n] = f]
        /\ h.node_index_map = g.node_index_map /\ h.edges = g.edges
        /\ h.root = g.root /\ h.cfg_entries = g.cfg_entries /\ h.cfg_exits = g.cfg_exits
    BY DEF Coherent, HasShape, SetNode
  <1>2. n \in DOMAIN g.nodes /\ g.nodes \in Seq(Node)
    BY StoreFacts DEF TypedStore
  <1> HIDE DEF h, n
  <1>3. h.nodes \in Seq(Node) /\ DOMAIN h.nodes = DOMAIN g.nodes
    BY <1>1, <1>2
  <1>4. h.nodes[n] = f /\ \A i \in DOMAIN g.nodes : i # n => h.nodes[i] = g.nodes[i]
    BY <1>1, <1>2
  <1>5. TypedStore(h)
    BY <1>1, <1>3 DEF TypedStore
  <1>6. NodeIds(h) = NodeIds(g)
    BY <1>1 DEF NodeIds
  <1>7. NodeAt(h, id) = f
    BY <1>1, <1>4 DEF NodeAt, n
  <1> QED
    BY <1>1, <1>3, <1>4, <1>5, <1>6, <1>7 DEF h, n

(* What LinkEdge appends.                                                  *)
LEMMA LinkEdgeFacts ==
    ASSUME NEW g, Coherent(g), TypedStore(g), NEW e \in EdgeRequest, HasEndpoints(g, e),
           NEW next
    PROVE  LET h == LinkEdge(g, e, next)
               n == Len(g.edges) + 1
           IN /\ TypedStore(h)
              /\ h.nodes = g.nodes /\ h.node_index_map = g.node_index_map
              /\ DOMAIN h.edges = DOMAIN g.edges \cup {n} /\ n \notin DOMAIN g.edges
              /\ \A k \in DOMAIN g.edges : h.edges[k] = g.edges[k]
              /\ h.edges[n] = [id |-> e.id, source |-> e.source, target |-> e.target,
                               kind |-> e.kind, from |-> g.node_index_map[e.source],
                               to |-> g.node_index_map[e.target]]
  <1> DEFINE h == LinkEdge(g, e, next)
             n == Len(g.edges) + 1
             stored == [id |-> e.id, source |-> e.source, target |-> e.target, kind |-> e.kind,
                        from |-> g.node_index_map[e.source], to |-> g.node_index_map[e.target]]
  <1>1. /\ h.edges = Append(g.edges, stored)
        /\ h.nodes = g.nodes /\ h.node_index_map = g.node_index_map
        /\ h.root = g.root /\ h.cfg_entries = g.cfg_entries /\ h.cfg_exits = g.cfg_exits
    <2> DEFINE vector == Append(g.edges, stored)
    <2>1. h = [g EXCEPT !.edges = vector, !.next_edge_id = next]
      BY DEF LinkEdge
    <2> HIDE DEF vector, h
    <2>2. /\ h.edges = vector
          /\ h.nodes = g.nodes /\ h.node_index_map = g.node_index_map
          /\ h.root = g.root /\ h.cfg_entries = g.cfg_entries /\ h.cfg_exits = g.cfg_exits
      BY <2>1 DEF Coherent, HasShape
    <2> QED
      BY <2>2 DEF vector
  <1>2. stored \in Edge
    <2>1. /\ g.node_index_map[e.source] \in Nat \ {0}
          /\ g.node_index_map[e.target] \in Nat \ {0}
      BY StoreFacts DEF HasEndpoints
    <2> QED
      BY <2>1 DEF EdgeRequest, Edge
  <1>3. g.edges \in Seq(Edge)
    BY DEF TypedStore
  <1> HIDE DEF h, n, stored
  <1>4. /\ h.edges \in Seq(Edge)
        /\ DOMAIN h.edges = DOMAIN g.edges \cup {n} /\ n \notin DOMAIN g.edges
        /\ \A k \in DOMAIN g.edges : h.edges[k] = g.edges[k]
        /\ h.edges[n] = stored
    BY <1>1, <1>2, <1>3, AppendFacts DEF n
  <1>5. TypedStore(h)
    BY <1>1, <1>4 DEF TypedStore
  <1> QED
    BY <1>1, <1>4, <1>5 DEF h, n, stored

-------------------------------------------------------------------------------
(* Rows of AST edges *)

(* Identifiers order the edges strictly.                                   *)
LEMMA IdsOrderEdges ==
    ASSUME NEW g, Coherent(g), NEW S \in SUBSET DOMAIN g.edges
    PROVE  StrictOrder(S, ByEdgeId(g))
  <1>1. \A k \in S : g.edges[k].id \in Nat /\ k \in DOMAIN g.edges
    BY MaxIdAssumption DEF Coherent, EdgeCounterAhead, EdgeId
  <1>2. \A j, k \in S : g.edges[j].id = g.edges[k].id => j = k
    BY DEF Coherent, EdgesNumbered
  <1>3. \A j, k \in S : <<j, k>> \in ByEdgeId(g) <=> g.edges[j].id < g.edges[k].id
    BY <1>1 DEF ByEdgeId
  <1> QED
    BY <1>1, <1>2, <1>3 DEF StrictOrder

(* Rows and parents are read off the edges alone.                          *)
LEMMA RowsFollowEdges ==
    ASSUME NEW g, NEW h, h.edges = g.edges, NEW i
    PROVE  /\ AstInto(h, i) = AstInto(g, i) /\ AstOutOf(h, i) = AstOutOf(g, i)
           /\ AstRow(h, i) = AstRow(g, i)
           /\ LowestAstSource(h, i) = LowestAstSource(g, i)
  BY DEF AstInto, AstOutOf, AstRow, InIdOrder, ByEdgeId, LowestAstSource

(* A row holds targets of edges.                                           *)
LEMMA RowsAreTyped ==
    ASSUME NEW g, Coherent(g), TypedStore(g), NEW i
    PROVE  /\ AstRow(g, i) \in Seq(NodeId)
           /\ AstOutOf(g, i) = {} => AstRow(g, i) = <<>>
  <1> DEFINE K == AstOutOf(g, i)
             row == InIdOrder(g, K)
  <1>1. K \in SUBSET DOMAIN g.edges /\ IsFiniteSet(K)
    BY StoreFacts, FS_Subset DEF AstOutOf
  <1>2. Lists(row, K, ByEdgeId(g)) /\ Len(row) = Cardinality(K)
    <2> HIDE DEF K
    <2> QED
      BY <1>1, IdsOrderEdges, SortedLists DEF InIdOrder
  <1> HIDE DEF K, row
  <1>3. \A j \in 1..Len(row) : row[j] \in DOMAIN g.edges
    BY <1>1, <1>2 DEF Lists
  <1>4. \A j \in 1..Len(row) : g.edges[row[j]].target \in NodeId
    BY <1>3, StoreFacts DEF Edge
  <1>5. AstRow(g, i) = [j \in 1..Len(row) |-> g.edges[row[j]].target]
    BY DEF AstRow, row, K
  <1>6. Len(row) \in Nat
    BY <1>2 DEF Lists
  <1>7. AstRow(g, i) \in Seq(NodeId)
    BY <1>4, <1>5, <1>6
  <1>8. ASSUME K = {} PROVE AstRow(g, i) = <<>>
    <2>1. Len(row) = 0
      BY <1>2, <1>8, FS_EmptySet
    <2> QED
      BY <1>5, <2>1
  <1> QED
    BY <1>7, <1>8 DEF K

(* The edge into a node with the lowest identifier.                        *)
LEMMA LowestFacts ==
    ASSUME NEW g, Coherent(g), TypedStore(g), NEW i, NEW k \in AstInto(g, i),
           \A j \in AstInto(g, i) : g.edges[k].id <= g.edges[j].id
    PROVE  LowestAstSource(g, i) = g.edges[k].source
  <1> DEFINE low(m) == \A j \in AstInto(g, i) : g.edges[m].id <= g.edges[j].id
             first == CHOOSE m \in AstInto(g, i) : low(m)
  <1>1. first \in AstInto(g, i) /\ low(first)
    <2> HIDE DEF low
    <2>1. low(k)
      BY DEF low
    <2> QED
      BY <2>1
  <1>2. \A j \in AstInto(g, i) : j \in DOMAIN g.edges /\ g.edges[j].id \in Nat
    BY MaxIdAssumption DEF AstInto, Coherent, EdgeCounterAhead, EdgeId
  <1>3. LowestAstSource(g, i) = g.edges[first].source
    BY <1>1 DEF LowestAstSource
  <1>4. \A j \in AstInto(g, i) : g.edges[first].id <= g.edges[j].id
    BY <1>1
  <1> HIDE DEF first, low
  <1>5. g.edges[first].id = g.edges[k].id
    BY <1>1, <1>2, <1>4
  <1>6. first = k
    BY <1>1, <1>2, <1>5 DEF Coherent, EdgesNumbered
  <1> QED
    BY <1>3, <1>6

(* A node that AST edges enter has a lowest one.                           *)
LEMMA LowestExists ==
    ASSUME NEW g, Coherent(g), TypedStore(g), NEW i, AstInto(g, i) # {}
    PROVE  /\ \E k \in AstInto(g, i) : \A j \in AstInto(g, i) : g.edges[k].id <= g.edges[j].id
           /\ LowestAstSource(g, i) \in NodeId
  <1> DEFINE ids == {g.edges[k].id : k \in AstInto(g, i)}
  <1>1. ids \in SUBSET Nat /\ ids # {}
    BY MaxIdAssumption DEF AstInto, Coherent, EdgeCounterAhead, EdgeId
  <1>2. PICK n \in ids : \A m \in ids : n <= m
    <2> HIDE DEF ids
    <2> QED
      BY <1>1, LeastOfNaturals
  <1>3. PICK k \in AstInto(g, i) : \A j \in AstInto(g, i) : g.edges[k].id <= g.edges[j].id
    BY <1>2
  <1>4. LowestAstSource(g, i) = g.edges[k].source
    BY <1>3, LowestFacts
  <1>5. g.edges[k].source \in NodeId
    BY <1>3, StoreFacts DEF AstInto, Edge
  <1> QED
    BY <1>3, <1>4, <1>5

(* An edge that is no AST edge, or touches other nodes, leaves the row and *)
(* the parent of a node alone.                                             *)
LEMMA LinkElsewhere ==
    ASSUME NEW g, Coherent(g), TypedStore(g), NEW e \in EdgeRequest, HasEndpoints(g, e),
           NEW next, NEW i
    PROVE  LET h == LinkEdge(g, e, next)
           IN /\ e.kind # AstChild \/ i # g.node_index_map[e.source] =>
                     AstOutOf(h, i) = AstOutOf(g, i) /\ AstRow(h, i) = AstRow(g, i)
              /\ e.kind # AstChild \/ i # g.node_index_map[e.target] =>
                     /\ AstInto(h, i) = AstInto(g, i)
                     /\ LowestAstSource(h, i) = LowestAstSource(g, i)
  <1> DEFINE h == LinkEdge(g, e, next)
             n == Len(g.edges) + 1
  <1>1. /\ DOMAIN h.edges = DOMAIN g.edges \cup {n} /\ n \notin DOMAIN g.edges
        /\ \A k \in DOMAIN g.edges : h.edges[k] = g.edges[k]
        /\ h.edges[n].kind = e.kind
        /\ h.edges[n].from = g.node_index_map[e.source]
        /\ h.edges[n].to = g.node_index_map[e.target]
    <2> DEFINE stored == [id |-> e.id, source |-> e.source, target |-> e.target,
                          kind |-> e.kind, from |-> g.node_index_map[e.source],
                          to |-> g.node_index_map[e.target]]
    <2>1. /\ DOMAIN h.edges = DOMAIN g.edges \cup {n} /\ n \notin DOMAIN g.edges
          /\ \A k \in DOMAIN g.edges : h.edges[k] = g.edges[k]
          /\ h.edges[n] = stored
      BY LinkEdgeFacts
    <2>2. /\ stored.kind = e.kind /\ stored.from = g.node_index_map[e.source]
          /\ stored.to = g.node_index_map[e.target]
      OBVIOUS
    <2> HIDE DEF stored, h, n
    <2> QED
      BY <2>1, <2>2
  <1> HIDE DEF h, n
  <1>2. ASSUME e.kind # AstChild \/ i # g.node_index_map[e.source]
        PROVE  AstOutOf(h, i) = AstOutOf(g, i) /\ AstRow(h, i) = AstRow(g, i)
    <2> DEFINE K == AstOutOf(g, i)
    <2>1. AstOutOf(h, i) = K /\ K \subseteq DOMAIN g.edges
      BY <1>1, <1>2 DEF AstOutOf
    <2> HIDE DEF K
    <2>2. \A a, b \in K : <<a, b>> \in ByEdgeId(g) <=> <<a, b>> \in ByEdgeId(h)
      BY <1>1, <2>1 DEF ByEdgeId
    <2>3. InIdOrder(g, K) = InIdOrder(h, K)
      BY <2>2, SortedAlike DEF InIdOrder
    <2>4. /\ IsFiniteSet(K) /\ StrictOrder(K, ByEdgeId(g))
      BY <2>1, IdsOrderEdges, StoreFacts, FS_Subset
    <2>5. Lists(InIdOrder(g, K), K, ByEdgeId(g))
      BY <2>4, SortedLists DEF InIdOrder
    <2> DEFINE row == InIdOrder(g, K)
    <2>6. AstRow(g, i) = [j \in 1..Len(row) |-> g.edges[row[j]].target]
      BY DEF AstRow, K
    <2>7. AstRow(h, i) = [j \in 1..Len(row) |-> h.edges[row[j]].target]
      BY <2>1, <2>3 DEF AstRow
    <2> HIDE DEF row
    <2>8. \A j \in 1..Len(row) : row[j] \in DOMAIN g.edges
      BY <2>1, <2>5 DEF Lists, row
    <2> QED
      BY <1>1, <2>1, <2>6, <2>7, <2>8 DEF K
  <1>3. ASSUME e.kind # AstChild \/ i # g.node_index_map[e.target]
        PROVE  /\ AstInto(h, i) = AstInto(g, i)
               /\ LowestAstSource(h, i) = LowestAstSource(g, i)
    <2>1. AstInto(h, i) = AstInto(g, i)
      BY <1>1, <1>3 DEF AstInto
    <2>2. \A k \in AstInto(g, i) : h.edges[k] = g.edges[k]
      BY <1>1 DEF AstInto
    <2> DEFINE A == AstInto(g, i)
               lowG(k) == \A j \in A : g.edges[k].id <= g.edges[j].id
               lowH(k) == \A j \in A : h.edges[k].id <= h.edges[j].id
               inG == CHOOSE k \in A : lowG(k)
               inH == CHOOSE k \in A : lowH(k)
    <2>3. \A k \in A : lowG(k) <=> lowH(k)
      BY <2>2
    <2>4. inG = inH
      <3> HIDE DEF lowG, lowH, A
      <3> QED
        BY <2>3
    <2>5. CASE A = {}
      BY <2>1, <2>5 DEF LowestAstSource
    <2>6. CASE A # {}
      <3>1. inG \in A
        <4>1. PICK k \in A : lowG(k)
          BY <2>6, LowestExists
        <4> HIDE DEF lowG, A
        <4> QED
          BY <4>1
      <3>2. LowestAstSource(g, i) = g.edges[inG].source
        BY <2>6 DEF LowestAstSource
      <3>3. LowestAstSource(h, i) = h.edges[inH].source
        BY <2>1, <2>6 DEF LowestAstSource
      <3> HIDE DEF inG, inH
      <3> QED
        BY <2>1, <2>2, <2>4, <3>1, <3>2, <3>3
    <2> QED
      BY <2>5, <2>6
  <1> QED
    BY <1>2, <1>3 DEF h

(* An AST edge with the highest identifier comes last in the row of its    *)
(* source, and is the lowest into its target only when it is the first.    *)
LEMMA LinkHighest ==
    ASSUME NEW g, Coherent(g), TypedStore(g), NEW e \in EdgeRequest, HasEndpoints(g, e),
           e.kind = AstChild, \A k \in DOMAIN g.edges : g.edges[k].id < e.id,
           NEW next, Coherent(LinkEdge(g, e, next))
    PROVE  LET h == LinkEdge(g, e, next)
               from == g.node_index_map[e.source]
               to == g.node_index_map[e.target]
           IN /\ AstRow(h, from) = Append(AstRow(g, from), e.target)
              /\ LowestAstSource(h, to) = IF AstInto(g, to) = {} THEN e.source
                                          ELSE LowestAstSource(g, to)
  <1> DEFINE h == LinkEdge(g, e, next)
             n == Len(g.edges) + 1
             from == g.node_index_map[e.source]
             to == g.node_index_map[e.target]
  <1>1. /\ TypedStore(h)
        /\ DOMAIN h.edges = DOMAIN g.edges \cup {n} /\ n \notin DOMAIN g.edges
        /\ \A k \in DOMAIN g.edges : h.edges[k] = g.edges[k]
        /\ h.edges[n].kind = AstChild /\ h.edges[n].id = e.id
        /\ h.edges[n].source = e.source /\ h.edges[n].target = e.target
        /\ h.edges[n].from = from /\ h.edges[n].to = to
    <2> DEFINE stored == [id |-> e.id, source |-> e.source, target |-> e.target,
                          kind |-> e.kind, from |-> g.node_index_map[e.source],
                          to |-> g.node_index_map[e.target]]
    <2>1. /\ TypedStore(h)
          /\ DOMAIN h.edges = DOMAIN g.edges \cup {n} /\ n \notin DOMAIN g.edges
          /\ \A k \in DOMAIN g.edges : h.edges[k] = g.edges[k]
          /\ h.edges[n] = stored
      BY LinkEdgeFacts
    <2>2. /\ stored.kind = e.kind /\ stored.id = e.id
          /\ stored.source = e.source /\ stored.target = e.target
          /\ stored.from = from /\ stored.to = to
      OBVIOUS
    <2> HIDE DEF stored, h, n, from, to
    <2> QED
      BY <2>1, <2>2
  <1>2. Coherent(h)
    OBVIOUS
  <1> HIDE DEF h, n, from, to
  <1>3. AstRow(h, from) = Append(AstRow(g, from), e.target)
    <2> DEFINE K == AstOutOf(g, from)
               row == InIdOrder(g, K)
               longer == InIdOrder(h, K \cup {n})
    <2>1. AstOutOf(h, from) = K \cup {n} /\ K \subseteq DOMAIN g.edges /\ n \notin K
      BY <1>1 DEF AstOutOf
    <2> HIDE DEF K
    <2>2. \A a, b \in K : <<a, b>> \in ByEdgeId(g) <=> <<a, b>> \in ByEdgeId(h)
      BY <1>1, <2>1 DEF ByEdgeId
    <2>3. \A k \in K : <<k, n>> \in ByEdgeId(h)
      BY <1>1, <2>1 DEF ByEdgeId
    <2>4. IsFiniteSet(K) /\ StrictOrder(K, ByEdgeId(g))
      BY <2>1, IdsOrderEdges, StoreFacts, FS_Subset
    <2>5. StrictOrder(K \cup {n}, ByEdgeId(h))
      <3>1. K \cup {n} \in SUBSET DOMAIN h.edges
        BY <1>1, <2>1
      <3> QED
        BY <1>2, <3>1, IdsOrderEdges
    <2>6. longer = Append(row, n)
      BY <2>1, <2>2, <2>3, <2>4, <2>5, SortedAppended DEF InIdOrder
    <2>7. row \in Seq(K)
      BY <2>4, SortedLists DEF InIdOrder, Lists
    <2>8. AstRow(g, from) = [j \in 1..Len(row) |-> g.edges[row[j]].target]
      BY DEF AstRow, K
    <2>9. AstRow(h, from) = [j \in 1..Len(longer) |-> h.edges[longer[j]].target]
      BY <2>1 DEF AstRow
    <2> HIDE DEF row, longer
    <2>10. /\ Len(row) \in Nat /\ Len(longer) = Len(row) + 1
           /\ longer[Len(row) + 1] = n
           /\ \A j \in 1..Len(row) : longer[j] = row[j] /\ row[j] \in DOMAIN g.edges
      BY <2>1, <2>6, <2>7
    <2> DEFINE short == [j \in 1..Len(row) |-> g.edges[row[j]].target]
               long == [j \in 1..Len(longer) |-> h.edges[longer[j]].target]
    <2>11. short \in Seq({g.edges[k].target : k \in DOMAIN g.edges}) /\ Len(short) = Len(row)
      BY <2>10
    <2>12. /\ \A j \in 1..Len(row) : long[j] = short[j]
           /\ long[Len(row) + 1] = e.target
      BY <1>1, <2>10
    <2>13. long = Append(short, e.target)
      <3> DEFINE m == Len(row) + 1
                 t == Append(short, e.target)
      <3>1. long = [j \in 1..m |-> long[j]]
        BY <2>10
      <3> HIDE DEF long, short
      <3>2. /\ Len(t) = m /\ DOMAIN t = 1..m /\ t = [j \in 1..m |-> t[j]]
            /\ \A j \in 1..Len(row) : t[j] = short[j]
            /\ t[m] = e.target
        BY <2>10, <2>11
      <3>3. \A j \in 1..m : j = m \/ j \in 1..Len(row)
        BY <2>10
      <3>4. \A j \in 1..m : long[j] = t[j]
        BY <2>12, <3>2, <3>3
      <3> HIDE DEF m, t
      <3>5. long = t
        BY <3>1, <3>2, <3>4
      <3> QED
        BY <3>5 DEF t
    <2> QED
      BY <2>8, <2>9, <2>13
  <1>4. LowestAstSource(h, to) = IF AstInto(g, to) = {} THEN e.source
                                 ELSE LowestAstSource(g, to)
    <2>1. AstInto(h, to) = AstInto(g, to) \cup {n}
      BY <1>1 DEF AstInto
    <2>2. \A k \in AstInto(g, to) : /\ k \in DOMAIN g.edges /\ h.edges[k] = g.edges[k]
                                    /\ g.edges[k].id \in Nat
      BY <1>1, MaxIdAssumption DEF AstInto, Coherent, EdgeCounterAhead, EdgeId
    <2>3. e.id \in Nat
      BY MaxIdAssumption DEF EdgeRequest, EdgeId
    <2>4. CASE AstInto(g, to) = {}
      <3>1. n \in AstInto(h, to) /\ \A j \in AstInto(h, to) : h.edges[n].id <= h.edges[j].id
        BY <1>1, <2>1, <2>3, <2>4
      <3>2. LowestAstSource(h, to) = h.edges[n].source
        BY <1>1, <1>2, <3>1, LowestFacts
      <3> QED
        BY <1>1, <2>4, <3>2
    <2>5. CASE AstInto(g, to) # {}
      <3>1. PICK k \in AstInto(g, to) : \A j \in AstInto(g, to) : g.edges[k].id <= g.edges[j].id
        BY <2>5, LowestExists
      <3>2. k \in AstInto(h, to) /\ \A j \in AstInto(h, to) : h.edges[k].id <= h.edges[j].id
        BY <1>1, <2>1, <2>2, <2>3, <3>1
      <3>3. LowestAstSource(h, to) = h.edges[k].source
        BY <1>1, <1>2, <3>2, LowestFacts
      <3>4. LowestAstSource(g, to) = g.edges[k].source
        BY <3>1, LowestFacts
      <3> QED
        BY <2>2, <2>5, <3>3, <3>4
    <2> QED
      BY <2>4, <2>5
  <1> QED
    BY <1>3, <1>4 DEF h, from, to

-------------------------------------------------------------------------------
(* The tree *)

\* The fields of a node that AST edges determine.
TreeAt(g, i, node) ==
    /\ node.children = AstRow(g, i)
    /\ AstInto(g, i) # {} => node.parent = LowestAstSource(g, i)

\* The inductive strengthening of ChildListsExact and ParentsCanonical.
Whole(g) ==
    Coherent(g) /\ TypedStore(g) /\ \A i \in DOMAIN g.nodes : TreeAt(g, i, g.nodes[i])

(* A new graph has no tree to get wrong.                                   *)
LEMMA EmptyStoreWhole == Whole(EmptyStore)
  <1>1. /\ EmptyStore.nodes = <<>> /\ EmptyStore.edges = <<>> /\ EmptyStore.root = None
        /\ EmptyStore.cfg_entries = <<>> /\ EmptyStore.cfg_exits = <<>>
    BY DEF EmptyStore
  <1>2. TypedStore(EmptyStore)
    BY <1>1 DEF TypedStore
  <1> QED
    BY <1>1, <1>2, EmptyStoreCoherent DEF Whole

(* A node that comes alone has an empty row.                               *)
LEMMA PushNodeWhole ==
    ASSUME NEW g, Whole(g), NEW node \in Node, node.children = <<>>,
           NEW next, Coherent(PushNode(g, node, next))
    PROVE  Whole(PushNode(g, node, next))
  <1> DEFINE h == PushNode(g, node, next)
             n == Len(g.nodes) + 1
  <1>0. Coherent(g) /\ TypedStore(g) /\ \A i \in DOMAIN g.nodes : TreeAt(g, i, g.nodes[i])
    BY DEF Whole
  <1>1. /\ h.nodes = Append(g.nodes, node) /\ h.edges = g.edges
        /\ h.root = IF g.root = None THEN node.id ELSE g.root
        /\ h.cfg_entries = g.cfg_entries /\ h.cfg_exits = g.cfg_exits
    <2> DEFINE vector == Append(g.nodes, node)
               map == [id \in DOMAIN g.node_index_map \cup {node.id} |->
                          IF id = node.id THEN Len(g.nodes) + 1 ELSE g.node_index_map[id]]
               top == IF g.root = None THEN node.id ELSE g.root
    <2>1. h = [g EXCEPT !.nodes = vector, !.node_index_map = map,
                        !.next_node_id = next, !.root = top]
      BY DEF PushNode
    <2> HIDE DEF vector, map, top, h
    <2>2. /\ h.nodes = vector /\ h.edges = g.edges /\ h.root = top
          /\ h.cfg_entries = g.cfg_entries /\ h.cfg_exits = g.cfg_exits
      BY <1>0, <2>1 DEF Coherent, HasShape
    <2> QED
      BY <2>2 DEF vector, top
  <1>2. node.id \in NodeId
    BY DEF Node
  <1>3. Coherent(h)
    OBVIOUS
  <1> HIDE DEF h, n
  <1>4. /\ h.nodes \in Seq(Node)
        /\ n \notin DOMAIN g.nodes
        /\ DOMAIN h.nodes = DOMAIN g.nodes \cup {n}
        /\ \A i \in DOMAIN g.nodes : h.nodes[i] = g.nodes[i]
        /\ h.nodes[n] = node
    <2>1. g.nodes \in Seq(Node)
      BY <1>0 DEF TypedStore
    <2> QED
      BY <1>1, <2>1, AppendFacts DEF n
  <1>5. TypedStore(h)
    BY <1>0, <1>1, <1>2, <1>4 DEF TypedStore
  <1>6. AstOutOf(g, n) = {} /\ AstInto(g, n) = {}
    BY <1>0, <1>4, StoreFacts DEF AstOutOf, AstInto
  <1>7. \A i : /\ AstInto(h, i) = AstInto(g, i) /\ AstRow(h, i) = AstRow(g, i)
               /\ LowestAstSource(h, i) = LowestAstSource(g, i)
    BY <1>1, RowsFollowEdges
  <1>8. AstRow(g, n) = <<>>
    BY <1>0, <1>6, RowsAreTyped
  <1>9. ASSUME NEW i \in DOMAIN h.nodes
        PROVE  TreeAt(h, i, h.nodes[i])
    <2>1. CASE i = n
      BY <1>4, <1>6, <1>7, <1>8, <2>1 DEF TreeAt
    <2>2. CASE i \in DOMAIN g.nodes
      BY <1>0, <1>4, <1>7, <2>2 DEF TreeAt
    <2> QED
      BY <1>4, <2>1, <2>2
  <1> QED
    BY <1>3, <1>5, <1>9 DEF Whole, h

(* add_node and add_node_with_id of a node that comes alone.               *)
LEMMA AddNodeWhole ==
    ASSUME NEW g, Whole(g), CanTakeNodeId(g), NEW node \in Node, node.children = <<>>
    PROVE  Whole(AddNode(g, node))
  <1> DEFINE taken == [node EXCEPT !.id = g.next_node_id]
             next == SaturatingSucc(g.next_node_id)
  <1>1. g.next_node_id \in NodeId
    BY DEF Whole, Coherent, HasCounters
  <1>2. taken \in Node /\ taken.children = <<>>
    BY <1>1, RewrittenNodes
  <1>3. Coherent(AddNode(g, node)) /\ AddNode(g, node) = PushNode(g, taken, next)
    BY AddNodeCoherent DEF Whole, AddNode
  <1> HIDE DEF taken, next
  <1> QED
    BY <1>2, <1>3, PushNodeWhole

(* The same with the identifier the caller gives.                          *)
LEMMA AddNodeWithIdWhole ==
    ASSUME NEW g, Whole(g), NEW node \in Node, node.id \notin NodeIds(g), node.children = <<>>
    PROVE  Whole(AddNodeWithId(g, node))
  <1> DEFINE next == Higher(g.next_node_id, SaturatingSucc(node.id))
  <1>1. Coherent(AddNodeWithId(g, node)) /\ AddNodeWithId(g, node) = PushNode(g, node, next)
    BY AddNodeWithIdCoherent DEF Whole, AddNodeWithId
  <1> HIDE DEF next
  <1> QED
    BY <1>1, PushNodeWhole

(* Writing embedded references through node_mut.                           *)
LEMMA SetRefsWhole ==
    ASSUME NEW g, Whole(g), NEW id \in NodeIds(g), NEW refs \in SUBSET NodeId
    PROVE  Whole(SetNode(g, id, [NodeAt(g, id) EXCEPT !.refs = refs]))
  <1> DEFINE f == [NodeAt(g, id) EXCEPT !.refs = refs]
             h == SetNode(g, id, f)
             n == g.node_index_map[id]
  <1>0. Coherent(g) /\ TypedStore(g) /\ \A i \in DOMAIN g.nodes : TreeAt(g, i, g.nodes[i])
    BY DEF Whole
  <1>1. NodeAt(g, id) \in Node /\ NodeAt(g, id).id = id /\ n \in DOMAIN g.nodes
    BY <1>0, StoreFacts DEF Coherent, NodesIndexed
  <1>2. /\ f \in Node /\ f.children = NodeAt(g, id).children
        /\ f.parent = NodeAt(g, id).parent /\ f.id = id
    BY <1>1, RewrittenNodes
  <1> HIDE DEF f
  <1>3. /\ TypedStore(h) /\ h.edges = g.edges
        /\ DOMAIN h.nodes = DOMAIN g.nodes /\ h.nodes[n] = f
        /\ \A i \in DOMAIN g.nodes : i # n => h.nodes[i] = g.nodes[i]
    BY <1>0, <1>2, SetNodeFacts
  <1>4. Coherent(h)
    <2>1. "id" \in DOMAIN f
      BY <1>2 DEF Node
    <2> QED
      BY <1>0, <1>2, <2>1, SetNodeCoherent
  <1> HIDE DEF h
  <1>5. \A i : /\ AstInto(h, i) = AstInto(g, i) /\ AstRow(h, i) = AstRow(g, i)
               /\ LowestAstSource(h, i) = LowestAstSource(g, i)
    BY <1>3, RowsFollowEdges
  <1>6. \A i \in DOMAIN g.nodes : /\ h.nodes[i].children = g.nodes[i].children
                                  /\ h.nodes[i].parent = g.nodes[i].parent
    BY <1>1, <1>2, <1>3 DEF NodeAt
  <1>7. \A i \in DOMAIN h.nodes : TreeAt(h, i, h.nodes[i])
    BY <1>0, <1>3, <1>5, <1>6 DEF TreeAt
  <1> QED
    BY <1>3, <1>4, <1>7 DEF Whole, h, f

(* The two nodes that index_appended_ast_child writes.                     *)
LEMMA IndexAppendedFacts ==
    ASSUME NEW g, Coherent(g), TypedStore(g), NEW e, HasEndpoints(g, e), NEW replace \in BOOLEAN
    PROVE  LET h == IndexAppendedAstChild(g, e, replace)
               from == g.node_index_map[e.source]
               to == g.node_index_map[e.target]
           IN /\ TypedStore(h) /\ h.edges = g.edges /\ DOMAIN h.nodes = DOMAIN g.nodes
              /\ \A i \in DOMAIN g.nodes :
                     /\ h.nodes[i].children = IF i = from THEN Append(g.nodes[i].children, e.target)
                                              ELSE g.nodes[i].children
                     /\ h.nodes[i].parent = IF i = to /\ replace THEN e.source
                                            ELSE g.nodes[i].parent
  <1> DEFINE list == Append(NodeAt(g, e.source).children, e.target)
             f == [NodeAt(g, e.source) EXCEPT !.children = list]
             pushed == SetNode(g, e.source, f)
             p == [NodeAt(pushed, e.target) EXCEPT !.parent = e.source]
             from == g.node_index_map[e.source]
             to == g.node_index_map[e.target]
  <1>1. /\ e.source \in NodeIds(g) /\ e.target \in NodeIds(g)
        /\ e.source \in NodeId /\ e.target \in NodeId
        /\ from \in DOMAIN g.nodes /\ to \in DOMAIN g.nodes
        /\ NodeAt(g, e.source) \in Node /\ NodeAt(g, e.source) = g.nodes[from]
        /\ NodeAt(g, e.source).id = e.source
    BY StoreFacts DEF HasEndpoints, NodeAt, Coherent, NodesIndexed
  <1>2. list \in Seq(NodeId)
    BY <1>1 DEF Node
  <1>3. /\ f \in Node /\ f.children = list /\ f.parent = g.nodes[from].parent /\ f.id = e.source
    <2> HIDE DEF list
    <2> QED
      BY <1>1, <1>2, RewrittenNodes
  <1>4. /\ TypedStore(pushed) /\ pushed.edges = g.edges
        /\ pushed.node_index_map = g.node_index_map /\ NodeIds(pushed) = NodeIds(g)
        /\ DOMAIN pushed.nodes = DOMAIN g.nodes /\ pushed.nodes[from] = f
        /\ \A i \in DOMAIN g.nodes : i # from => pushed.nodes[i] = g.nodes[i]
    <2> HIDE DEF f, from
    <2>1. e.source \in NodeIds(g) /\ f \in Node
      BY <1>1, <1>3
    <2> QED
      BY <2>1, SetNodeFacts DEF from
  <1>5. Coherent(pushed)
    <2> HIDE DEF f, from
    <2>1. "id" \in DOMAIN f /\ f.id = e.source
      BY <1>3 DEF Node
    <2>2. e.source \in NodeIds(g)
      BY <1>1
    <2> QED
      BY <2>1, <2>2, SetNodeCoherent
  <1>6. \A i \in DOMAIN g.nodes :
            /\ pushed.nodes[i].children = IF i = from THEN Append(g.nodes[i].children, e.target)
                                          ELSE g.nodes[i].children
            /\ pushed.nodes[i].parent = g.nodes[i].parent
    <2> HIDE DEF pushed, f, from
    <2>1. /\ f.children = Append(g.nodes[from].children, e.target)
          /\ f.parent = g.nodes[from].parent
      BY <1>1, <1>3 DEF list
    <2> QED
      BY <1>4, <2>1
  <1> HIDE DEF pushed
  <1>7. CASE replace
    <2> DEFINE h == SetNode(pushed, e.target, p)
    <2> HIDE DEF from
    <2>1. /\ NodeAt(pushed, e.target) \in Node /\ e.target \in NodeIds(pushed)
          /\ NodeAt(pushed, e.target) = pushed.nodes[to]
      BY <1>1, <1>4, <1>5, StoreFacts DEF NodeAt
    <2>2. p \in Node /\ p.parent = e.source /\ p.children = pushed.nodes[to].children
      BY <1>1, <2>1, RewrittenNodes
    <2> HIDE DEF p
    <2>3. /\ TypedStore(h) /\ h.edges = pushed.edges
          /\ DOMAIN h.nodes = DOMAIN pushed.nodes
          /\ h.nodes[to] = p
          /\ \A i \in DOMAIN pushed.nodes : i # to => h.nodes[i] = pushed.nodes[i]
      <3>1. pushed.node_index_map[e.target] = to
        BY <1>4
      <3> QED
        BY <1>4, <1>5, <2>1, <2>2, <3>1, SetNodeFacts
    <2>4. IndexAppendedAstChild(g, e, replace) = h
      BY <1>7 DEF IndexAppendedAstChild, pushed, p
    <2> HIDE DEF h, to
    <2>5. \A i \in DOMAIN g.nodes : /\ h.nodes[i].children = pushed.nodes[i].children
                                    /\ h.nodes[i].parent = IF i = to THEN e.source
                                                           ELSE pushed.nodes[i].parent
      BY <1>1, <1>4, <2>2, <2>3
    <2>6. \A i \in DOMAIN g.nodes :
              /\ h.nodes[i].children = IF i = from THEN Append(g.nodes[i].children, e.target)
                                       ELSE g.nodes[i].children
              /\ h.nodes[i].parent = IF i = to THEN e.source ELSE g.nodes[i].parent
      BY <1>6, <2>5
    <2> QED
      BY <1>4, <1>7, <2>3, <2>4, <2>6 DEF from, to
  <1>8. CASE ~replace
    <2>1. IndexAppendedAstChild(g, e, replace) = pushed
      BY <1>8 DEF IndexAppendedAstChild, pushed
    <2> QED
      BY <1>4, <1>6, <1>8, <2>1
  <1> QED
    BY <1>7, <1>8

(* An edge that is no AST edge leaves the tree alone.                      *)
LEMMA LinkOtherWhole ==
    ASSUME NEW g, Whole(g), NEW e \in EdgeRequest, HasEndpoints(g, e), e.kind # AstChild,
           NEW next, Coherent(LinkEdge(g, e, next))
    PROVE  Whole(LinkEdge(g, e, next))
  <1> DEFINE h == LinkEdge(g, e, next)
  <1>0. Coherent(g) /\ TypedStore(g) /\ \A i \in DOMAIN g.nodes : TreeAt(g, i, g.nodes[i])
    BY DEF Whole
  <1>1. TypedStore(h) /\ h.nodes = g.nodes
    BY <1>0, LinkEdgeFacts
  <1>2. \A i : /\ AstInto(h, i) = AstInto(g, i) /\ AstRow(h, i) = AstRow(g, i)
               /\ LowestAstSource(h, i) = LowestAstSource(g, i)
    BY <1>0, LinkElsewhere
  <1>3. \A i \in DOMAIN h.nodes : TreeAt(h, i, h.nodes[i])
    BY <1>0, <1>1, <1>2 DEF TreeAt
  <1> QED
    BY <1>1, <1>3 DEF Whole

(* add_edge: the child goes to the end of its parent's list, and the       *)
(* parent is replaced where no earlier edge has decided it.                *)
LEMMA AddEdgeWhole ==
    ASSUME NEW g, Whole(g), CanTakeEdgeId(g), NEW e \in EdgeRequest, HasEndpoints(g, e)
    PROVE  Whole(AddEdge(g, e))
  <1> DEFINE taken == [e EXCEPT !.id = g.next_edge_id]
             next == SaturatingSucc(g.next_edge_id)
             h == LinkEdge(g, taken, next)
             from == g.node_index_map[e.source]
             to == g.node_index_map[e.target]
             replace == AppendedAstParentNeedsUpdate(g, to, e.source)
             k == IndexAppendedAstChild(h, taken, replace)
  <1>0. Coherent(g) /\ TypedStore(g) /\ \A i \in DOMAIN g.nodes : TreeAt(g, i, g.nodes[i])
    BY DEF Whole
  <1>1. EdgeValue(e)
    BY DEF EdgeRequest, EdgeValue
  <1>2. /\ taken \in EdgeRequest /\ taken.id = g.next_edge_id
        /\ taken.source = e.source /\ taken.target = e.target /\ taken.kind = e.kind
    BY <1>0 DEF EdgeRequest, Coherent, HasCounters
  <1>3. Coherent(h) /\ NodeIds(h) = NodeIds(g) /\ Coherent(AddEdge(g, e))
    BY <1>0, <1>1, LinkTakenCoherent, AddEdgeCoherent
  <1>4. AddEdge(g, e) = IF e.kind = AstChild THEN k ELSE h
    BY DEF AddEdge
  <1>5. HasEndpoints(g, taken) /\ HasEndpoints(h, taken)
    <2> HIDE DEF taken, h
    <2> QED
      BY <1>2, <1>3 DEF HasEndpoints
  <1>6. CASE e.kind # AstChild
    <2> HIDE DEF taken, next, h, k
    <2>1. Whole(LinkEdge(g, taken, next))
      BY <1>2, <1>3, <1>5, <1>6, LinkOtherWhole DEF h
    <2> QED
      BY <1>4, <1>6, <2>1 DEF h
  <1>7. CASE e.kind = AstChild
    <2> HIDE DEF taken, next
    <2>1. \A j \in DOMAIN g.edges : g.edges[j].id < taken.id
      BY <1>0, <1>2, MaxIdAssumption
      DEF Coherent, HasCounters, EdgeCounterAhead, CanTakeEdgeId, EdgeId
    <2>2. /\ TypedStore(h) /\ h.nodes = g.nodes /\ h.node_index_map = g.node_index_map
      BY <1>0, <1>2, <1>5, LinkEdgeFacts
    <2>3. /\ \A i : i # from => AstRow(h, i) = AstRow(g, i)
          /\ \A i : i # to => /\ AstInto(h, i) = AstInto(g, i)
                              /\ LowestAstSource(h, i) = LowestAstSource(g, i)
      BY <1>0, <1>2, <1>5, LinkElsewhere
    <2>4. /\ AstRow(h, from) = Append(AstRow(g, from), e.target)
          /\ LowestAstSource(h, to) = IF AstInto(g, to) = {} THEN e.source
                                      ELSE LowestAstSource(g, to)
      BY <1>0, <1>2, <1>3, <1>5, <1>7, <2>1, LinkHighest
    <2>5. AstInto(g, to) # {} => LowestAstSource(g, to) # None
      BY <1>0, LowestExists, NoneAssumption, MaxIdAssumption DEF NodeId
    <2>6. replace \in BOOLEAN /\ (replace <=> \/ g.nodes[to].parent = None
                                              \/ /\ g.nodes[to].parent # e.source
                                                 /\ AstInto(g, to) = {})
      BY DEF AppendedAstParentNeedsUpdate
    <2> HIDE DEF h, replace, from, to
    <2>7. /\ TypedStore(k) /\ k.edges = h.edges /\ DOMAIN k.nodes = DOMAIN h.nodes
          /\ \A i \in DOMAIN h.nodes :
                 /\ k.nodes[i].children = IF i = from THEN Append(h.nodes[i].children, e.target)
                                          ELSE h.nodes[i].children
                 /\ k.nodes[i].parent = IF i = to /\ replace THEN e.source
                                        ELSE h.nodes[i].parent
      <3>1. h.node_index_map[taken.source] = from /\ h.node_index_map[taken.target] = to
        BY <1>2, <2>2 DEF from, to
      <3> QED
        BY <1>2, <1>3, <1>5, <2>2, <2>6, <3>1, IndexAppendedFacts
    <2>8. \A i : /\ AstInto(k, i) = AstInto(h, i) /\ AstRow(k, i) = AstRow(h, i)
                 /\ LowestAstSource(k, i) = LowestAstSource(h, i)
      BY <2>7, RowsFollowEdges
    <2>9. ASSUME NEW i \in DOMAIN k.nodes
          PROVE  TreeAt(k, i, k.nodes[i])
      <3> HIDE DEF k
      <3>1. /\ i \in DOMAIN g.nodes /\ h.nodes[i] = g.nodes[i]
            /\ g.nodes[i].children = AstRow(g, i)
            /\ AstInto(g, i) # {} => g.nodes[i].parent = LowestAstSource(g, i)
        BY <1>0, <2>2, <2>7 DEF TreeAt
      <3>2. k.nodes[i].children = AstRow(k, i)
        BY <2>2, <2>3, <2>4, <2>7, <2>8, <3>1
      <3>3. CASE i = to
        <4>1. k.nodes[i].parent = IF replace THEN e.source ELSE g.nodes[i].parent
          BY <2>2, <2>7, <3>1, <3>3
        <4>2. k.nodes[i].parent = LowestAstSource(h, i)
          BY <2>4, <2>5, <2>6, <3>1, <3>3, <4>1
        <4> QED
          BY <2>8, <3>2, <4>2 DEF TreeAt
      <3>4. CASE i # to
        BY <2>2, <2>3, <2>7, <2>8, <3>1, <3>2, <3>4 DEF TreeAt
      <3> QED
        BY <3>3, <3>4
    <2> QED
      BY <1>3, <1>4, <1>7, <2>7, <2>9 DEF Whole
  <1> QED
    BY <1>6, <1>7

(* add_edge_with_id: the row of the source and the parent of the target    *)
(* are rebuilt, wherever the identifier falls among the others.            *)
LEMMA AddEdgeWithIdWhole ==
    ASSUME NEW g, Whole(g), NEW e \in EdgeRequest, HasEndpoints(g, e),
           \A k \in DOMAIN g.edges : g.edges[k].id # e.id
    PROVE  Whole(AddEdgeWithId(g, e))
  <1> DEFINE succ == SaturatingSucc(e.id)
             next == Higher(g.next_edge_id, succ)
             h == LinkEdge(g, e, next)
             from == g.node_index_map[e.source]
             to == g.node_index_map[e.target]
             row == AstRow(h, from)
             f == [NodeAt(h, e.source) EXCEPT !.children = row]
             ordered == SetNode(h, e.source, f)
             low == LowestAstSource(ordered, to)
             p == [NodeAt(ordered, e.target) EXCEPT !.parent = low]
             rebuilt == SetNode(ordered, e.target, p)
  <1>0. Coherent(g) /\ TypedStore(g) /\ \A i \in DOMAIN g.nodes : TreeAt(g, i, g.nodes[i])
    BY DEF Whole
  <1>1. Coherent(AddEdgeWithId(g, e))
    <2>1. EdgeValue(e)
      BY DEF EdgeRequest, EdgeValue
    <2> QED
      BY <1>0, <2>1, AddEdgeWithIdCoherent
  <1>2. Coherent(h)
    <2>1. g.next_edge_id \in NodeId /\ e.id \in NodeId /\ EdgeId = NodeId
      BY <1>0 DEF Coherent, HasCounters, EdgeId, NodeId, EdgeRequest
    <2>2. succ \in NodeId /\ (e.id < succ \/ succ = MaxId)
      BY <2>1, SaturatingSuccFacts
    <2>3. next \in NodeId /\ next >= g.next_edge_id /\ next >= succ
      BY <2>1, <2>2, HigherFacts
    <2>4. e.id < next \/ next = MaxId
      <3> HIDE DEF succ, next
      <3> QED
        BY <2>1, <2>2, <2>3, MaxIdAssumption DEF NodeId
    <2> HIDE DEF succ, next
    <2> QED
      BY <1>0, <2>1, <2>3, <2>4, LinkEdgeCoherent
  <1> HIDE DEF succ, next
  <1>3. /\ TypedStore(h) /\ h.nodes = g.nodes /\ h.node_index_map = g.node_index_map
        /\ DOMAIN h.edges = DOMAIN g.edges \cup {Len(g.edges) + 1}
        /\ h.edges[Len(g.edges) + 1] =
               [id |-> e.id, source |-> e.source, target |-> e.target, kind |-> e.kind,
                from |-> g.node_index_map[e.source], to |-> g.node_index_map[e.target]]
    BY <1>0, LinkEdgeFacts
  <1>4. CASE e.kind # AstChild
    <2>1. AddEdgeWithId(g, e) = h
      BY <1>4 DEF AddEdgeWithId, next, succ
    <2> QED
      BY <1>2, <1>4, <2>1, LinkOtherWhole
  <1>5. CASE e.kind = AstChild
    <2>1. /\ \A i : i # from => AstRow(h, i) = AstRow(g, i)
          /\ \A i : i # to => /\ AstInto(h, i) = AstInto(g, i)
                              /\ LowestAstSource(h, i) = LowestAstSource(g, i)
      BY <1>0, LinkElsewhere
    <2>2. AstInto(h, to) # {}
      BY <1>3, <1>5 DEF AstInto
    <2> HIDE DEF h
    <2>3. /\ e.source \in NodeIds(h) /\ e.target \in NodeIds(h)
          /\ h.node_index_map[e.source] = from /\ h.node_index_map[e.target] = to
          /\ from \in DOMAIN h.nodes /\ to \in DOMAIN h.nodes
          /\ NodeAt(h, e.source) \in Node /\ NodeAt(h, e.source) = h.nodes[from]
          /\ NodeAt(h, e.source).id = e.source
      <3>1. NodeIds(h) = NodeIds(g)
        BY <1>3 DEF NodeIds
      <3>2. e.source \in NodeIds(h) /\ e.target \in NodeIds(h)
        BY <3>1 DEF HasEndpoints
      <3> QED
        BY <1>2, <1>3, <3>2, StoreFacts DEF NodeAt, Coherent, NodesIndexed
    <2>4. row \in Seq(NodeId)
      BY <1>2, <1>3, RowsAreTyped
    <2>5. /\ f \in Node /\ f.children = row /\ f.parent = h.nodes[from].parent
          /\ f.id = e.source /\ "id" \in DOMAIN f
      <3> HIDE DEF row
      <3>1. /\ f \in Node /\ f.children = row /\ f.parent = h.nodes[from].parent
            /\ f.id = e.source
        BY <2>3, <2>4, RewrittenNodes
      <3> HIDE DEF f
      <3>2. "id" \in DOMAIN f
        BY <3>1 DEF Node
      <3> QED
        BY <3>1, <3>2
    <2>6. /\ TypedStore(ordered) /\ ordered.edges = h.edges
          /\ ordered.node_index_map = h.node_index_map /\ NodeIds(ordered) = NodeIds(h)
          /\ DOMAIN ordered.nodes = DOMAIN h.nodes /\ ordered.nodes[from] = f
          /\ \A i \in DOMAIN h.nodes : i # from => ordered.nodes[i] = h.nodes[i]
          /\ Coherent(ordered)
      <3> HIDE DEF f
      <3>1. Coherent(ordered)
        BY <1>2, <2>3, <2>5, SetNodeCoherent
      <3>2. /\ TypedStore(ordered) /\ ordered.edges = h.edges
            /\ ordered.node_index_map = h.node_index_map /\ NodeIds(ordered) = NodeIds(h)
            /\ DOMAIN ordered.nodes = DOMAIN h.nodes /\ ordered.nodes[h.node_index_map[e.source]] = f
            /\ \A i \in DOMAIN h.nodes : i # h.node_index_map[e.source] => ordered.nodes[i] = h.nodes[i]
        BY <1>2, <1>3, <2>3, <2>5, SetNodeFacts
      <3> HIDE DEF ordered, from
      <3> QED
        BY <2>3, <3>1, <3>2
    <2>7. \A i \in DOMAIN h.nodes :
              /\ ordered.nodes[i].children = IF i = from THEN row ELSE h.nodes[i].children
              /\ ordered.nodes[i].parent = h.nodes[i].parent
      <3> HIDE DEF ordered, f, row
      <3> QED
        BY <2>3, <2>5, <2>6
    <2>8. /\ AddEdgeWithId(g, e) = rebuilt
      <3>1. AddEdgeWithId(g, e) = RebuildAstParent(RebuildAstChildren(h, e.source), e.target)
        BY <1>5 DEF AddEdgeWithId, h, next, succ
      <3>2. RebuildAstChildren(h, e.source) = ordered
        BY <2>3 DEF RebuildAstChildren
      <3>3. RebuildAstParent(ordered, e.target) = rebuilt
        <4> HIDE DEF ordered
        <4> QED
          BY <2>3, <2>6 DEF RebuildAstParent
      <3> QED
        BY <3>1, <3>2, <3>3
    <2> HIDE DEF ordered, f
    <2>9. \A i : /\ AstInto(ordered, i) = AstInto(h, i) /\ AstRow(ordered, i) = AstRow(h, i)
                 /\ LowestAstSource(ordered, i) = LowestAstSource(h, i)
      BY <2>6, RowsFollowEdges
    <2>10. low \in NodeId /\ low = LowestAstSource(h, to)
      BY <2>2, <2>6, <2>9, LowestExists
    <2>11. /\ NodeAt(ordered, e.target) \in Node
           /\ NodeAt(ordered, e.target) = ordered.nodes[to]
           /\ e.target \in NodeIds(ordered)
      BY <2>3, <2>6, StoreFacts DEF NodeAt
    <2>12. p \in Node /\ p.parent = low /\ p.children = ordered.nodes[to].children
      <3> HIDE DEF low
      <3> QED
        BY <2>10, <2>11, RewrittenNodes
    <2> HIDE DEF p
    <2>13. /\ TypedStore(rebuilt) /\ rebuilt.edges = ordered.edges
           /\ DOMAIN rebuilt.nodes = DOMAIN ordered.nodes /\ rebuilt.nodes[to] = p
           /\ \A i \in DOMAIN ordered.nodes : i # to => rebuilt.nodes[i] = ordered.nodes[i]
      <3>1. ordered.node_index_map[e.target] = to
        BY <2>3, <2>6
      <3> QED
        BY <2>6, <2>11, <2>12, <3>1, SetNodeFacts
    <2>14. \A i : /\ AstInto(rebuilt, i) = AstInto(ordered, i)
                  /\ AstRow(rebuilt, i) = AstRow(ordered, i)
                  /\ LowestAstSource(rebuilt, i) = LowestAstSource(ordered, i)
      BY <2>13, RowsFollowEdges
    <2> HIDE DEF rebuilt, low
    <2>15. ASSUME NEW i \in DOMAIN rebuilt.nodes
           PROVE  TreeAt(rebuilt, i, rebuilt.nodes[i])
      <3>1. /\ i \in DOMAIN g.nodes /\ i \in DOMAIN h.nodes /\ h.nodes[i] = g.nodes[i]
            /\ i \in DOMAIN ordered.nodes
            /\ g.nodes[i].children = AstRow(g, i)
            /\ AstInto(g, i) # {} => g.nodes[i].parent = LowestAstSource(g, i)
        BY <1>0, <1>3, <2>6, <2>13 DEF TreeAt
      <3>2. /\ rebuilt.nodes[i].children = ordered.nodes[i].children
            /\ rebuilt.nodes[i].parent = IF i = to THEN low ELSE ordered.nodes[i].parent
        BY <2>12, <2>13, <3>1
      <3> HIDE DEF from, to
      <3>3. rebuilt.nodes[i].children = AstRow(rebuilt, i)
        BY <2>1, <2>7, <2>9, <2>14, <3>1, <3>2 DEF row
      <3>4. AstInto(rebuilt, i) # {} => rebuilt.nodes[i].parent = LowestAstSource(rebuilt, i)
        BY <2>1, <2>7, <2>9, <2>10, <2>14, <3>1, <3>2
      <3> QED
        BY <3>3, <3>4 DEF TreeAt
    <2> QED
      BY <1>1, <2>8, <2>13, <2>15 DEF Whole
  <1> QED
    BY <1>4, <1>5

(* Recording a boundary node rewrites neither nodes nor edges.             *)
LEMMA AddCfgBoundaryWhole ==
    ASSUME NEW g, Whole(g), NEW id \in NodeIds(g), NEW h,
           h = AddCfgEntry(g, id) \/ h = AddCfgExit(g, id)
    PROVE  Whole(h)
  <1>0. Coherent(g) /\ TypedStore(g) /\ \A i \in DOMAIN g.nodes : TreeAt(g, i, g.nodes[i])
    BY DEF Whole
  <1>1. Coherent(h) /\ h.nodes = g.nodes /\ h.edges = g.edges
    BY <1>0, AddCfgBoundaryCoherent
  <1>2. id \in NodeId
    BY <1>0, StoreFacts
  <1>3. \A list \in Seq(NodeId) : PushNew(list, id) \in Seq(NodeId)
    BY <1>2 DEF PushNew
  <1>4. /\ h.root = g.root
        /\ h.cfg_entries \in {g.cfg_entries, PushNew(g.cfg_entries, id)}
        /\ h.cfg_exits \in {g.cfg_exits, PushNew(g.cfg_exits, id)}
    BY <1>0 DEF Coherent, HasShape, AddCfgEntry, AddCfgExit
  <1>5. TypedStore(h)
    BY <1>0, <1>1, <1>3, <1>4 DEF TypedStore
  <1>6. \A i : /\ AstInto(h, i) = AstInto(g, i) /\ AstRow(h, i) = AstRow(g, i)
               /\ LowestAstSource(h, i) = LowestAstSource(g, i)
    BY <1>1, RowsFollowEdges
  <1>7. \A i \in DOMAIN h.nodes : TreeAt(h, i, h.nodes[i])
    BY <1>0, <1>1, <1>6 DEF TreeAt
  <1> QED
    BY <1>1, <1>5, <1>7 DEF Whole

===============================================================================
