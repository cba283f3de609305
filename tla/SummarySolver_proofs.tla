--------------------------- MODULE SummarySolver_proofs ---------------------------
(***************************************************************************)
(* The decomposition a solver starts from, for programs of any size: what  *)
(* Tarjan's algorithm with explicit frames pops are the classes of the     *)
(* functions that call each other in turn, all of them.  And what it then  *)
(* keeps: summaries that claim no more than the solution of the program,   *)
(* and all of it for the functions that a summary was evaluated from.  And *)
(* how it ends: with the solution, or at a cap below what may be needed.   *)
(* At the end, the slices through its summaries: two searches over a queue *)
(* find all that two passes of the calls reach, within depth and size.     *)
(***************************************************************************)
EXTENDS SystemDependence, FiniteSetTheorems, SequenceTheorems, WellFoundedInduction, TLAPS

-------------------------------------------------------------------------------
(* Least elements, and listings of sets *)

(* A set of naturals that is not empty has a least member.                 *)
LEMMA LeastOfNaturals ==
    ASSUME NEW S \in SUBSET Nat, S # {}
    PROVE  \E n \in S : \A m \in S : n <= m
  <1>1. PICK n \in S : \A m \in S : ~(<<m, n>> \in OpToRel(<, Nat))
    BY NatLessThanWellFounded, WFMin, Zenon
  <1>2. \A m \in S : ~(m < n)
    BY <1>1 DEF OpToRel
  <1>3. \A m \in S : n <= m
    BY <1>2
  <1> QED
    BY <1>3

Smaller(S, n) == {m \in S : m < n}

(* Ascending lists a set of naturals, all of it and each once.             *)
LEMMA AscendingLists ==
    ASSUME NEW S \in SUBSET Nat, IsFiniteSet(S)
    PROVE  /\ Ascending(S) \in Seq(S) /\ DOMAIN Ascending(S) = 1..Cardinality(S)
           /\ \A x \in S : \E j \in DOMAIN Ascending(S) : Ascending(S)[j] = x
           /\ \A i, j \in DOMAIN Ascending(S) : Ascending(S)[i] = Ascending(S)[j] => i = j
  <1> DEFINE n == Cardinality(S)
             rank(x) == Cardinality(Smaller(S, x))
             rankPlace == [x \in S |-> rank(x) + 1]
             e(i) == CHOOSE x \in S : rank(x) = i - 1
  <1>1. n \in Nat /\ IsFiniteSet(1..n) /\ Cardinality(1..n) = n
    BY FS_CardinalityType, FS_Interval
  <1>2. \A x \in S : IsFiniteSet(Smaller(S, x)) /\ rank(x) \in Nat
    BY FS_Subset, FS_CardinalityType DEF Smaller
  <1>3. ASSUME NEW x \in S
        PROVE  rank(x) + 1 \in 1..n
    <2>1. Smaller(S, x) \in SUBSET S /\ Smaller(S, x) # S
      BY DEF Smaller
    <2>2. rank(x) <= n /\ n # rank(x)
      BY <2>1, FS_Subset
    <2> HIDE DEF rank, n
    <2> QED
      BY <1>1, <1>2, <2>2
  <1>4. ASSUME NEW x \in S, NEW y \in S, x < y
        PROVE  rank(x) < rank(y)
    <2>1. Smaller(S, x) \in SUBSET Smaller(S, y) /\ Smaller(S, x) # Smaller(S, y)
      <3>1. \A m \in S : m < x => m < y
        BY <1>4
      <3>2. x \in Smaller(S, y) /\ x \notin Smaller(S, x)
        BY <1>4 DEF Smaller
      <3> QED
        BY <3>1, <3>2 DEF Smaller
    <2>2. rank(x) <= rank(y) /\ rank(y) # rank(x)
      BY <1>2, <2>1, FS_Subset
    <2> HIDE DEF rank
    <2> QED
      BY <1>2, <2>2
  <1>5. \A x, y \in S : rank(x) = rank(y) => x = y
    <2> SUFFICES ASSUME NEW x \in S, NEW y \in S, rank(x) = rank(y), x # y
                 PROVE  FALSE
      OBVIOUS
    <2>1. x < y \/ y < x
      OBVIOUS
    <2> HIDE DEF rank
    <2> QED
      BY <1>2, <1>4, <2>1
  <1>6. rankPlace \in Surjection(S, 1..n)
    <2>1. rankPlace \in [S -> 1..n]
      BY <1>3
    <2>2. \A x, y \in S : rankPlace[x] = rankPlace[y] => x = y
      <3> HIDE DEF rank
      <3> QED
        BY <1>2, <1>5
    <2>3. rankPlace \in Injection(S, 1..n)
      <3> HIDE DEF rankPlace
      <3> QED
        BY <2>1, <2>2 DEF Injection, IsInjective
    <2> HIDE DEF rankPlace
    <2> QED
      BY <1>1, <2>3, FS_Injection
  <1>7. \A i \in 1..n : \E x \in S : rank(x) = i - 1
    <2> SUFFICES ASSUME NEW i \in 1..n PROVE \E x \in S : rank(x) = i - 1
      OBVIOUS
    <2>1. PICK x \in S : rankPlace[x] = i
      BY <1>6 DEF Surjection
    <2>2. rank(x) + 1 = i
      BY <2>1
    <2> HIDE DEF rank, rankPlace
    <2> QED
      BY <1>1, <1>2, <2>2
  <1>8. Ascending(S) = [i \in 1..n |-> e(i)]
    BY DEF Ascending, Smaller
  <1>9. \A i \in 1..n : e(i) \in S /\ rank(e(i)) = i - 1
    <2> HIDE DEF rank
    <2> QED
      BY <1>7
  <1>10. Ascending(S) \in Seq(S) /\ DOMAIN Ascending(S) = 1..n
    <2> HIDE DEF e, n
    <2> QED
      BY <1>1, <1>8, <1>9
  <1>11. ASSUME NEW x \in S
         PROVE  \E j \in 1..n : Ascending(S)[j] = x
    <2> HIDE DEF e, rank, n
    <2>1. PICK i \in 1..n : i = rank(x) + 1
      BY <1>3
    <2>2. e(i) \in S /\ rank(e(i)) = i - 1
      BY <1>9
    <2>3. rank(e(i)) = rank(x)
      BY <1>2, <2>1, <2>2
    <2>4. e(i) = x
      BY <1>5, <2>2, <2>3
    <2> QED
      BY <1>8, <2>4
  <1>12. ASSUME NEW i \in 1..n, NEW j \in 1..n, Ascending(S)[i] = Ascending(S)[j]
         PROVE  i = j
    <2> HIDE DEF e, rank, n
    <2>1. e(i) = e(j)
      BY <1>8, <1>12
    <2>2. i - 1 = j - 1
      BY <1>9, <2>1
    <2> QED
      BY <1>1, <2>2
  <1> QED
    BY <1>10, <1>11, <1>12

-------------------------------------------------------------------------------
(* Transitive closures *)

\* One round: what is joined through n.
Through(n, known) ==
    known \cup {<<e[1], d[2]>> : e \in {e \in known : e[2] = n}, d \in {d \in known : d[1] = n}}

Picked(s) == CHOOSE x \in s : TRUE

\* What a function from sets of joints to relations has to satisfy, up to sets
\* of m joints.
Rounds(edges, D, total, m) ==
    \A s \in SUBSET D : Cardinality(s) <= m =>
        total[s] = IF s = {} THEN edges ELSE Through(Picked(s), total[s \ {Picked(s)}])

(* Picking an element and taking it away leaves a smaller set.             *)
LEMMA PickedIsTaken ==
    ASSUME NEW D, IsFiniteSet(D), NEW s \in SUBSET D
    PROVE  /\ IsFiniteSet(s) /\ Cardinality(s) \in Nat
           /\ Cardinality(s) = 0 <=> s = {}
           /\ s # {} => /\ Picked(s) \in s
                        /\ Cardinality(s \ {Picked(s)}) = Cardinality(s) - 1
                        /\ s \ {Picked(s)} \in SUBSET D
  <1>1. IsFiniteSet(s) /\ Cardinality(s) \in Nat
    BY FS_Subset, FS_CardinalityType
  <1>2. Cardinality(s) = 0 <=> s = {}
    BY <1>1, FS_EmptySet
  <1>3. \A x \in s : Cardinality(s \ {x}) = Cardinality(s) - 1
    BY <1>1, FS_RemoveElement
  <1>4. s # {} => Picked(s) \in s
    BY DEF Picked
  <1> QED
    BY <1>1, <1>2, <1>3, <1>4

(* The rounds can be extended to larger and larger sets.                   *)
LEMMA RoundsExist ==
    ASSUME NEW D, IsFiniteSet(D), NEW edges, NEW n \in Nat
    PROVE  \E total : Rounds(edges, D, total, n)
  <1> DEFINE Without == {m \in Nat : ~ \E total : Rounds(edges, D, total, m)}
  <1>1. SUFFICES ASSUME Without # {} PROVE FALSE
    OBVIOUS
  <1>2. PICK m \in Without : \A k \in Without : m <= k
    <2>1. Without \in SUBSET Nat
      OBVIOUS
    <2> HIDE DEF Without
    <2> QED
      BY <1>1, <2>1, LeastOfNaturals
  <1>3. m \in Nat /\ ~ \E total : Rounds(edges, D, total, m)
    BY <1>2
  <1>4. CASE m = 0
    <2> DEFINE none == [s \in SUBSET D |-> edges]
    <2>1. ASSUME NEW s \in SUBSET D, Cardinality(s) <= 0
          PROVE  s = {}
      <3>1. Cardinality(s) \in Nat /\ (Cardinality(s) = 0 <=> s = {})
        BY PickedIsTaken
      <3> QED
        BY <2>1, <3>1
    <2>2. Rounds(edges, D, none, 0)
      BY <2>1 DEF Rounds
    <2> QED
      BY <1>3, <1>4, <2>2
  <1>5. CASE m # 0
    <2>1. m - 1 \in Nat /\ m - 1 \notin Without
      BY <1>2, <1>3, <1>5
    <2>2. PICK total : Rounds(edges, D, total, m - 1)
      BY <2>1
    <2> DEFINE more == [s \in SUBSET D |-> IF Cardinality(s) <= m - 1 THEN total[s]
                                           ELSE Through(Picked(s), total[s \ {Picked(s)}])]
    <2>3. ASSUME NEW s \in SUBSET D, Cardinality(s) <= m
          PROVE  more[s] = IF s = {} THEN edges ELSE Through(Picked(s), more[s \ {Picked(s)}])
      <3>1. CASE s = {}
        <4>1. Cardinality(s) = 0
          BY <3>1, PickedIsTaken
        <4>2. Cardinality(s) <= m - 1
          BY <2>1, <4>1
        <4>3. total[s] = edges
          BY <2>2, <3>1, <4>2 DEF Rounds
        <4> QED
          BY <3>1, <4>2, <4>3
      <3>2. CASE s # {}
        <4>1. /\ Cardinality(s) \in Nat /\ s \ {Picked(s)} \in SUBSET D
              /\ Cardinality(s \ {Picked(s)}) = Cardinality(s) - 1
          BY <3>2, PickedIsTaken
        <4>2. more[s \ {Picked(s)}] = total[s \ {Picked(s)}]
          BY <1>3, <2>3, <4>1
        <4>3. Cardinality(s) <= m - 1 => total[s] = Through(Picked(s), total[s \ {Picked(s)}])
          BY <2>2, <3>2 DEF Rounds
        <4>4. more[s] = Through(Picked(s), total[s \ {Picked(s)}])
          BY <4>3
        <4> HIDE DEF more
        <4> QED
          BY <3>2, <4>2, <4>4
      <3> QED
        BY <3>1, <3>2
    <2>4. Rounds(edges, D, more, m)
      <3> HIDE DEF more
      <3> QED
        BY <2>3 DEF Rounds
    <2> QED
      BY <1>3, <2>4
  <1> QED
    BY <1>4, <1>5

\* The relations after the rounds of each set of joints.
RoundsOver(edges, D) ==
    CHOOSE total : total = [s \in SUBSET D |->
        IF s = {} THEN edges ELSE Through(Picked(s), total[s \ {Picked(s)}])]

(* The closure is the relation after the rounds of all sources.            *)
LEMMA ClosureIsRounds ==
    ASSUME NEW edges
    PROVE  ClosureOf(edges) = RoundsOver(edges, {e[1] : e \in edges})[{e[1] : e \in edges}]
  BY DEF ClosureOf, FoldSet, MapThenFoldSet, RoundsOver, Through, Picked

(* The recursion of the fold has a solution: that of all cardinalities.    *)
LEMMA RoundsOverRounds ==
    ASSUME NEW D, IsFiniteSet(D), NEW edges, NEW s \in SUBSET D
    PROVE  RoundsOver(edges, D)[s] =
               IF s = {} THEN edges
               ELSE Through(Picked(s), RoundsOver(edges, D)[s \ {Picked(s)}])
  <1> DEFINE Body(total) == [t \in SUBSET D |->
                                IF t = {} THEN edges ELSE Through(Picked(t), total[t \ {Picked(t)}])]
  <1>1. Cardinality(D) \in Nat
    BY FS_CardinalityType
  <1>2. PICK total : Rounds(edges, D, total, Cardinality(D))
    BY <1>1, RoundsExist
  <1> DEFINE all == [t \in SUBSET D |-> total[t]]
  <1>3. ASSUME NEW t \in SUBSET D
        PROVE  all[t] = IF t = {} THEN edges ELSE Through(Picked(t), all[t \ {Picked(t)}])
    <2>1. Cardinality(t) <= Cardinality(D)
      BY FS_Subset
    <2>2. total[t] = IF t = {} THEN edges ELSE Through(Picked(t), total[t \ {Picked(t)}])
      BY <1>2, <2>1 DEF Rounds
    <2>3. t \ {Picked(t)} \in SUBSET D
      OBVIOUS
    <2> QED
      BY <2>2, <2>3
  <1>4. all = Body(all)
    BY <1>3
  <1>5. RoundsOver(edges, D) = Body(RoundsOver(edges, D))
    <2>1. RoundsOver(edges, D) = CHOOSE f : f = Body(f)
      BY DEF RoundsOver
    <2>2. \E f : f = Body(f)
      BY <1>4
    <2> HIDE DEF Body
    <2> QED
      BY <2>1, <2>2
  <1> QED
    BY <1>5

IsTransitive(R) == \A x, y, z : <<x, y>> \in R /\ <<y, z>> \in R => <<x, z>> \in R

\* A relation that holds the edges, nothing their closed sets and the transitive
\* relations around them rule out, and the compositions at each joint in s.
Composes(edges, V, K, s) ==
    /\ edges \subseteq K /\ K \subseteq {e[1] : e \in edges} \X V
    /\ \A n \in s : \A x, y : <<x, n>> \in K /\ <<n, y>> \in K => <<x, y>> \in K
    /\ \A C \in SUBSET V : (\A x, y : <<x, y>> \in edges /\ x \in C => y \in C)
           => \A x, y : <<x, y>> \in K /\ x \in C => y \in C
    /\ \A R : IsTransitive(R) /\ edges \subseteq R => K \subseteq R

(* One round more composes at one joint more, and still at the others.     *)
LEMMA RoundComposes ==
    ASSUME NEW V, NEW edges \in SUBSET (V \X V), NEW K, NEW s, NEW n, Composes(edges, V, K, s)
    PROVE  Composes(edges, V, Through(n, K), s \cup {n})
  <1> DEFINE T == Through(n, K)
             Src == {e[1] : e \in edges}
  <1>1. \A x, y : <<x, y>> \in T <=>
            <<x, y>> \in K \/ (<<x, n>> \in K /\ <<n, y>> \in K)
    <2>1. ASSUME NEW x, NEW y, <<x, y>> \in T, <<x, y>> \notin K
          PROVE  <<x, n>> \in K /\ <<n, y>> \in K
      <3>1. PICK e \in {e \in K : e[2] = n}, d \in {d \in K : d[1] = n} : <<x, y>> = <<e[1], d[2]>>
        BY <2>1 DEF Through
      <3>2. e = <<e[1], e[2]>> /\ d = <<d[1], d[2]>>
        BY <3>1 DEF Composes
      <3> QED
        BY <3>1, <3>2
    <2>2. ASSUME NEW x, NEW y, <<x, n>> \in K, <<n, y>> \in K
          PROVE  <<x, y>> \in T
      <3> DEFINE a == <<x, n>>
                 b == <<n, y>>
      <3>1. a \in {e \in K : e[2] = n} /\ b \in {d \in K : d[1] = n} /\ <<x, y>> = <<a[1], b[2]>>
        BY <2>2
      <3> HIDE DEF a, b
      <3> QED
        BY <3>1 DEF Through
    <2>3. K \subseteq T
      BY DEF Through
    <2> QED
      BY <2>1, <2>2, <2>3
  <1>2. K \subseteq Src \X V
    BY DEF Composes
  <1>3. edges \subseteq T /\ T \subseteq Src \X V
    <2>1. edges \subseteq T
      BY DEF Composes, Through
    <2>2. ASSUME NEW p \in T PROVE p \in Src \X V
      <3>1. CASE p \in K
        BY <1>2, <3>1
      <3>2. CASE p \notin K
        <4>1. PICK e \in {e \in K : e[2] = n}, d \in {d \in K : d[1] = n} : p = <<e[1], d[2]>>
          BY <3>2 DEF Through
        <4> HIDE DEF Src, T
        <4> QED
          BY <1>2, <4>1
      <3> QED
        BY <3>1, <3>2
    <2> QED
      BY <2>1, <2>2
  <1> HIDE DEF T, Src
  <1>4. ASSUME NEW m \in s \cup {n}, NEW x, NEW y, <<x, m>> \in T, <<m, y>> \in T
        PROVE  <<x, y>> \in T
    <2>1. m = n \/ \A a, b : <<a, m>> \in K /\ <<m, b>> \in K => <<a, b>> \in K
      BY DEF Composes
    <2> QED
      BY <1>1, <1>4, <2>1, Zenon
  <1>5. ASSUME NEW C \in SUBSET V, \A x, y : <<x, y>> \in edges /\ x \in C => y \in C,
               NEW x, NEW y, <<x, y>> \in T, x \in C
        PROVE  y \in C
    <2>1. \A a, b : <<a, b>> \in K /\ a \in C => b \in C
      BY <1>5 DEF Composes
    <2> QED
      BY <1>1, <1>5, <2>1, Zenon
  <1>6. ASSUME NEW R, IsTransitive(R), edges \subseteq R
        PROVE  T \subseteq R
    <2>1. K \subseteq R
      BY <1>6 DEF Composes
    <2>2. ASSUME NEW p \in T PROVE p \in R
      <3>1. PICK x, y : p = <<x, y>>
        BY <1>3
      <3> QED
        BY <1>1, <1>6, <2>1, <3>1 DEF IsTransitive
    <2> QED
      BY <2>2
  <1> QED
    BY <1>3, <1>4, <1>5, <1>6 DEF Composes, T, Src

(* The closure holds the edges, composes everywhere, and leaves no set that *)
(* the edges do not leave.                                                 *)
LEMMA ClosureCloses ==
    ASSUME NEW V, IsFiniteSet(V), NEW edges \in SUBSET (V \X V)
    PROVE  /\ edges \subseteq ClosureOf(edges) /\ ClosureOf(edges) \subseteq V \X V
           /\ \A x, y, z : <<x, y>> \in ClosureOf(edges) /\ <<y, z>> \in ClosureOf(edges)
                  => <<x, z>> \in ClosureOf(edges)
           /\ \A C \in SUBSET V : (\A x, y : <<x, y>> \in edges /\ x \in C => y \in C)
                  => \A x, y : <<x, y>> \in ClosureOf(edges) /\ x \in C => y \in C
           /\ \A R : IsTransitive(R) /\ edges \subseteq R => ClosureOf(edges) \subseteq R
  <1> DEFINE D == {e[1] : e \in edges}
             total == RoundsOver(edges, D)
             Bad == {m \in Nat : \E s \in SUBSET D :
                        Cardinality(s) = m /\ ~Composes(edges, V, total[s], s)}
  <1>1. D \in SUBSET V
    OBVIOUS
  <1>2. IsFiniteSet(D)
    <2> HIDE DEF D
    <2> QED
      BY <1>1, FS_Subset
  <1>3. Bad = {}
    <2> SUFFICES ASSUME Bad # {} PROVE FALSE
      OBVIOUS
    <2>1. PICK m \in Bad : \A k \in Bad : m <= k
      <3>1. Bad \in SUBSET Nat
        OBVIOUS
      <3> HIDE DEF Bad
      <3> QED
        BY <3>1, LeastOfNaturals
    <2>2. PICK s \in SUBSET D : Cardinality(s) = m /\ ~Composes(edges, V, total[s], s)
      BY <2>1
    <2>3. m \in Nat
      BY <2>1
    <2>4. total[s] = IF s = {} THEN edges ELSE Through(Picked(s), total[s \ {Picked(s)}])
      <3> HIDE DEF D
      <3> QED
        BY <1>2, RoundsOverRounds
    <2>5. CASE s = {}
      <3>1. edges \subseteq D \X V
        OBVIOUS
      <3>2. total[s] = edges
        BY <2>4, <2>5
      <3>3. Composes(edges, V, edges, {})
        BY <3>1 DEF Composes
      <3> QED
        BY <2>2, <2>5, <3>2, <3>3
    <2>6. CASE s # {}
      <3> DEFINE r == s \ {Picked(s)}
      <3>1. Picked(s) \in s /\ Cardinality(r) = m - 1 /\ r \in SUBSET D /\ Cardinality(r) \in Nat
        <4> HIDE DEF D
        <4>1. Picked(s) \in s /\ Cardinality(r) = m - 1 /\ r \in SUBSET D
          BY <1>2, <2>2, <2>6, PickedIsTaken
        <4> HIDE DEF r
        <4> QED
          BY <1>2, <4>1, PickedIsTaken
      <3>2. Composes(edges, V, total[r], r)
        <4>1. Cardinality(r) \notin Bad
          <5> HIDE DEF Bad, r
          <5> QED
            BY <2>1, <2>3, <3>1
        <4> HIDE DEF r, D, total
        <4> QED
          BY <3>1, <4>1 DEF Bad
      <3>3. Composes(edges, V, Through(Picked(s), total[r]), r \cup {Picked(s)})
        <4> HIDE DEF r, total
        <4> QED
          BY <3>2, RoundComposes
      <3>4. r \cup {Picked(s)} = s
        BY <3>1
      <3> HIDE DEF total, D
      <3> QED
        BY <2>2, <2>4, <2>6, <3>3, <3>4
    <2> QED
      BY <2>5, <2>6
  <1>4. Composes(edges, V, total[D], D)
    <2>1. Cardinality(D) \in Nat
      <3> HIDE DEF D
      <3> QED
        BY <1>2, FS_CardinalityType
    <2> HIDE DEF D, total
    <2> QED
      BY <1>3, <2>1
  <1>5. ClosureOf(edges) = total[D]
    BY ClosureIsRounds
  <1> HIDE DEF total
  <1> DEFINE R == ClosureOf(edges)
  <1>6. Composes(edges, V, R, D)
    BY <1>4, <1>5
  <1> HIDE DEF R
  <1>7. edges \subseteq R /\ R \subseteq V \X V
    BY <1>6 DEF Composes
  <1>8. ASSUME NEW x, NEW y, NEW z, <<x, y>> \in R, <<y, z>> \in R
        PROVE  <<x, z>> \in R
    <2>1. y \in D
      BY <1>6, <1>8 DEF Composes
    <2> HIDE DEF D
    <2> QED
      BY <1>6, <1>8, <2>1 DEF Composes
  <1>9. \A C \in SUBSET V : (\A x, y : <<x, y>> \in edges /\ x \in C => y \in C)
                  => \A x, y : <<x, y>> \in R /\ x \in C => y \in C
    BY <1>6 DEF Composes
  <1>10. \A T : IsTransitive(T) /\ edges \subseteq T => R \subseteq T
    BY <1>6 DEF Composes
  <1> QED
    BY <1>7, <1>8, <1>9, <1>10 DEF R

-------------------------------------------------------------------------------
(* The invariant of the search *)

Edges == CallGraphEdges(program)
Reach == ClosureOf(Edges)
Reaches(f, g) == f = g \/ <<f, g>> \in Reach

\* The functions that f calls in turn and that call it.
Class(f) == {g \in Callables : g = f \/ {<<f, g>>, <<g, f>>} \subseteq Reach}

Active == {f \in Callables : discovery[f] < Assigned}
Done == {f \in Callables : discovery[f] = Assigned}

Frame(k) == dfs_stack[k][1]
Taken(k) == dfs_stack[k][2]

\* The search went along the edge: a frame goes along its successors in turn.
Followed(f, g) ==
    /\ <<f, g>> \in Edges
    /\ \A k \in DOMAIN dfs_stack :
          Frame(k) = f => \E j \in 1..Taken(k) : Adjacency(f)[j] = g

\* The active functions a frame has found without its successor on the path.
Territory(k) ==
    {f \in Active : /\ discovery[Frame(k)] <= discovery[f]
                    /\ k < Len(dfs_stack) => discovery[f] < discovery[Frame(k + 1)]}

\* Indexes are handed out in turn, and fit.
Values ==
    /\ program \in Seq(Range(program)) /\ Len(program) <= Assigned /\ MaxIndex \in Nat
    /\ next_index = Cardinality({f \in Callables : discovery[f] # Unvisited})
    /\ discovery \in [Callables -> 0..(next_index - 1) \cup {Assigned, Unvisited}]
    /\ low_link \in [Callables -> Nat]

\* The active functions, in the order of discovery.
StackIsActive ==
    /\ active_nodes \in Seq(Callables)
    /\ \A f \in Callables : f \in Active <=> \E i \in DOMAIN active_nodes : active_nodes[i] = f
    /\ \A i, j \in DOMAIN active_nodes :
          i < j => discovery[active_nodes[i]] < discovery[active_nodes[j]]

\* The frames are active functions in the order of discovery.
PathIsActive ==
    /\ dfs_stack \in Seq(Callables \X Nat)
    /\ \A k \in DOMAIN dfs_stack : Frame(k) \in Active /\ Taken(k) <= Len(Adjacency(Frame(k)))
    /\ \A k, l \in DOMAIN dfs_stack : k < l => discovery[Frame(k)] < discovery[Frame(l)]

\* A frame reaches what was found after it, and nothing was found before the first.
PathReaches ==
    /\ \A k \in DOMAIN dfs_stack, f \in Active :
          discovery[Frame(k)] <= discovery[f] => Reaches(Frame(k), f)
    /\ \A f \in Active : dfs_stack # <<>> /\ discovery[Frame(1)] <= discovery[f]

EdgesAreSeen ==
    /\ \A f \in Active, g \in Callables : Followed(f, g) => discovery[g] # Unvisited
    /\ \A f \in Done, g \in Callables : <<f, g>> \in Edges => g \in Done

\* A low link is the index of an active function that is reached; that of a
\* finished function is an earlier one, and that of a frame bounds the indexes
\* of what its territory calls.
LowLinksReach ==
    \A f \in Active : /\ low_link[f] <= discovery[f]
                      /\ \E g \in Active : low_link[f] = discovery[g] /\ Reaches(f, g)

FinishedIsLower ==
    \A f \in Active : (\A k \in DOMAIN dfs_stack : Frame(k) # f) => low_link[f] < discovery[f]

LowLinksBound ==
    \A k \in DOMAIN dfs_stack : \A f \in Territory(k), g \in Active :
        Followed(f, g) => low_link[Frame(k)] <= discovery[g]

ComponentsAreClasses ==
    /\ \A c \in component_nodes : \E f \in Callables : c = Class(f)
    /\ \A f \in Callables : f \in Done <=> \E c \in component_nodes : f \in c

ResultIsExact == call_graph # Undecided => call_graph = ExactDecomposition(program)

SearchInv ==
    /\ Values /\ StackIsActive /\ PathIsActive /\ PathReaches /\ EdgesAreSeen
    /\ LowLinksReach /\ FinishedIsLower /\ LowLinksBound
    /\ ComponentsAreClasses /\ ResultIsExact

\* An edit changes the program after it was decomposed.
DecompositionInv == ~edited => SearchInv

-------------------------------------------------------------------------------
(* What a state of the search says of graph, indexes and stack *)

(* The functions are finitely many numbers, and edges are between them.    *)
LEMMA GraphIsFinite ==
    ASSUME Values
    PROVE  /\ Callables = 1..Len(program) /\ Len(program) \in Nat
           /\ IsFiniteSet(Callables) /\ Cardinality(Callables) = Len(program)
           /\ Edges \in SUBSET (Callables \X Callables)
  <1>1. Callables = 1..Len(program) /\ Len(program) \in Nat
    <2>1. program \in Seq(Range(program))
      BY DEF Values
    <2>2. DOMAIN program = 1..Len(program) /\ Len(program) \in Nat
      BY <2>1
    <2> QED
      BY <2>2 DEF Callables
  <1>2. IsFiniteSet(1..Len(program)) /\ Cardinality(1..Len(program)) = Len(program)
    <2>1. PICK m \in Nat : m = Len(program)
      BY <1>1
    <2>2. IsFiniteSet(1..m)
      BY FS_Interval
    <2>3. Cardinality(1..m) = IF 1 > m THEN 0 ELSE m - 1 + 1
      BY FS_Interval
    <2>4. Cardinality(1..m) = m
      BY <2>3
    <2> QED
      BY <2>1, <2>2, <2>4
  <1>3. Edges \in SUBSET (Callables \X Callables)
    BY DEF Edges, CallGraphEdges, Callables
  <1> QED
    BY <1>1, <1>2, <1>3

(* The successors of a frame are what its function calls.                  *)
LEMMA AdjacencyLists ==
    ASSUME Values, NEW f \in Callables
    PROVE  /\ Adjacency(f) \in Seq(Callables)
           /\ \A j \in DOMAIN Adjacency(f) : <<f, Adjacency(f)[j]>> \in Edges
           /\ \A g : <<f, g>> \in Edges => \E j \in DOMAIN Adjacency(f) : Adjacency(f)[j] = g
  <1> DEFINE S == {g \in Callables : <<f, g>> \in Edges}
  <1>1. S \in SUBSET Nat /\ S \in SUBSET Callables /\ IsFiniteSet(S)
    <2>1. S \in SUBSET Callables
      OBVIOUS
    <2> HIDE DEF S
    <2>2. Callables \in SUBSET Nat /\ IsFiniteSet(Callables)
      <3>1. Callables = 1..Len(program) /\ IsFiniteSet(Callables)
        BY GraphIsFinite
      <3> QED
        BY <3>1
    <2>3. IsFiniteSet(S)
      BY <2>1, <2>2, FS_Subset
    <2> QED
      BY <2>1, <2>2, <2>3
  <1>2. Adjacency(f) = Ascending(S)
    BY DEF Adjacency, Edges
  <1>3. \A g : <<f, g>> \in Edges => g \in S
    BY GraphIsFinite
  <1>4. \A g \in S : g \in Callables /\ <<f, g>> \in Edges
    OBVIOUS
  <1> HIDE DEF S
  <1>5. /\ Adjacency(f) \in Seq(S)
        /\ \A x \in S : \E j \in DOMAIN Adjacency(f) : Adjacency(f)[j] = x
    BY <1>1, <1>2, AscendingLists
  <1>6. \A j \in DOMAIN Adjacency(f) : Adjacency(f)[j] \in S
    BY <1>5
  <1>7. Adjacency(f) \in Seq(Callables)
    <2> DEFINE a == Adjacency(f)
    <2>1. Len(a) \in Nat /\ DOMAIN a = 1..Len(a) /\ a = [j \in 1..Len(a) |-> a[j]]
      BY <1>5
    <2>2. \A j \in 1..Len(a) : a[j] \in Callables
      BY <1>1, <1>6, <2>1
    <2> HIDE DEF a
    <2>3. a \in Seq(Callables)
      BY <2>1, <2>2
    <2> QED
      BY <2>3 DEF a
  <1> QED
    BY <1>3, <1>4, <1>5, <1>6, <1>7

(* Reachability is transitive, and does not leave what edges do not leave. *)
LEMMA ReachIsTransitive ==
    ASSUME Values
    PROVE  /\ \A f, g : <<f, g>> \in Edges => <<f, g>> \in Reach
           /\ \A f, g : <<f, g>> \in Reach => f \in Callables /\ g \in Callables
           /\ \A f, g, h : <<f, g>> \in Reach /\ <<g, h>> \in Reach => <<f, h>> \in Reach
           /\ \A C \in SUBSET Callables :
                 (\A f, g : <<f, g>> \in Edges /\ f \in C => g \in C)
                     => \A f, g : <<f, g>> \in Reach /\ f \in C => g \in C
  <1>1. IsFiniteSet(Callables) /\ Edges \in SUBSET (Callables \X Callables)
    BY GraphIsFinite
  <1>2. /\ Edges \subseteq Reach /\ Reach \subseteq Callables \X Callables
        /\ \A x, y, z : <<x, y>> \in Reach /\ <<y, z>> \in Reach => <<x, z>> \in Reach
        /\ \A C \in SUBSET Callables : (\A x, y : <<x, y>> \in Edges /\ x \in C => y \in C)
               => \A x, y : <<x, y>> \in Reach /\ x \in C => y \in C
    BY <1>1, ClosureCloses DEF Reach
  <1>3. \A f, g : <<f, g>> \in Reach => f \in Callables /\ g \in Callables
    BY <1>2
  <1>4. \A f, g : <<f, g>> \in Edges => <<f, g>> \in Reach
    BY <1>2
  <1> QED
    BY <1>2, <1>3, <1>4

(* An index is below the next one; while a function is left, there is      *)
(* another index.                                                          *)
LEMMA IndexesFit ==
    ASSUME Values
    PROVE  /\ next_index \in Nat /\ Assigned \in Nat /\ Unvisited = Assigned + 1
           /\ next_index <= Assigned
           /\ \A f \in Callables :
                 /\ f \in Active => discovery[f] \in Nat /\ discovery[f] < next_index
                 /\ f \in Active \/ f \in Done \/ discovery[f] = Unvisited
                 /\ f \in Active => f \notin Done
                 /\ f \in Active \/ f \in Done => discovery[f] # Unvisited
                 /\ discovery[f] = Unvisited => next_index < Assigned
           /\ Active \subseteq Callables /\ Done \subseteq Callables
  <1> DEFINE V == {f \in Callables : discovery[f] # Unvisited}
  <1>1. /\ IsFiniteSet(Callables) /\ Cardinality(Callables) = Len(program) /\ Len(program) \in Nat
        /\ Len(program) <= Assigned /\ MaxIndex \in Nat
    BY GraphIsFinite DEF Values
  <1>2. Assigned \in Nat /\ Unvisited = Assigned + 1
    BY <1>1 DEF Assigned, Unvisited
  <1>3. V \in SUBSET Callables
    OBVIOUS
  <1>4. next_index = Cardinality(V)
    BY DEF Values
  <1>5. ASSUME NEW f \in Callables, discovery[f] = Unvisited PROVE V # Callables
    BY <1>5
  <1> HIDE DEF V
  <1>6. Cardinality(V) \in Nat /\ Cardinality(V) <= Cardinality(Callables)
    BY <1>1, <1>3, FS_Subset, FS_CardinalityType
  <1>7. V # Callables => Cardinality(V) # Cardinality(Callables)
    BY <1>1, <1>3, FS_Subset
  <1>8. next_index \in Nat /\ next_index <= Assigned
    BY <1>1, <1>2, <1>4, <1>6
  <1>9. \A f \in Callables : discovery[f] = Unvisited => next_index < Assigned
    <2>1. V # Callables => next_index < Assigned
      BY <1>1, <1>2, <1>4, <1>6, <1>7
    <2> QED
      BY <1>5, <2>1
  <1>10. ASSUME NEW f \in Callables
         PROVE  /\ f \in Active => discovery[f] \in Nat /\ discovery[f] < next_index
                /\ f \in Active \/ f \in Done \/ discovery[f] = Unvisited
                /\ f \in Active => f \notin Done
                /\ f \in Active \/ f \in Done => discovery[f] # Unvisited
    <2>1. discovery[f] \in 0..(next_index - 1) \cup {Assigned, Unvisited}
      BY DEF Values
    <2>2. /\ f \in Active <=> discovery[f] < Assigned
          /\ f \in Done <=> discovery[f] = Assigned
      BY DEF Active, Done
    <2> QED
      BY <1>2, <1>8, <2>1, <2>2
  <1> QED
    BY <1>2, <1>8, <1>9, <1>10 DEF Active, Done

(* No two active functions have the same index.                            *)
LEMMA IndexesDiffer ==
    ASSUME Values, StackIsActive, NEW f \in Active, NEW g \in Active, discovery[f] = discovery[g]
    PROVE  f = g
  <1>1. f \in Callables /\ g \in Callables /\ discovery[f] \in Nat
    BY IndexesFit
  <1>2. PICK i \in DOMAIN active_nodes : active_nodes[i] = f
    BY <1>1 DEF StackIsActive
  <1>3. PICK j \in DOMAIN active_nodes : active_nodes[j] = g
    BY <1>1 DEF StackIsActive
  <1>4. ~(i < j) /\ ~(j < i)
    BY <1>1, <1>2, <1>3 DEF StackIsActive
  <1>5. DOMAIN active_nodes \in SUBSET Nat
    BY DEF StackIsActive
  <1> QED
    BY <1>2, <1>3, <1>4, <1>5

(* What lies above a function on the stack has a later index, and popping  *)
(* it leaves what has an earlier one.                                      *)
LEMMA PoppedIsLater ==
    ASSUME Values, StackIsActive, NEW f \in Active
    PROVE  /\ PoppedTo(f) = {g \in Active : discovery[f] <= discovery[g]}
           /\ \E q \in Seq(Callables) :
                 /\ q = SubSeq(active_nodes, 1, Len(active_nodes) - Cardinality(PoppedTo(f)))
                 /\ \A i \in DOMAIN q : i \in DOMAIN active_nodes /\ q[i] = active_nodes[i]
                 /\ \A i \in DOMAIN active_nodes :
                       i \in DOMAIN q <=> discovery[active_nodes[i]] < discovery[f]
  <1> DEFINE n == Len(active_nodes)
             I == {i \in 1..n : active_nodes[i] = f}
  <1>1. /\ n \in Nat /\ DOMAIN active_nodes = 1..n /\ active_nodes \in Seq(Callables)
        /\ \A i \in 1..n : active_nodes[i] \in Callables
    BY DEF StackIsActive
  <1>2. /\ \A i \in 1..n : active_nodes[i] \in Active
        /\ \A g \in Active : g \in Callables /\ \E i \in 1..n : active_nodes[i] = g
        /\ \A i, j \in 1..n : i < j => discovery[active_nodes[i]] < discovery[active_nodes[j]]
        /\ \A g \in Active : discovery[g] \in Nat
    BY <1>1, IndexesFit DEF StackIsActive
  <1>3. PICK p \in 1..n : active_nodes[p] = f
    BY <1>2
  <1>4. \A i, j \in 1..n : i < j <=> discovery[active_nodes[i]] < discovery[active_nodes[j]]
    <2> SUFFICES ASSUME NEW i \in 1..n, NEW j \in 1..n,
                        discovery[active_nodes[i]] < discovery[active_nodes[j]]
                 PROVE  i < j
      BY <1>2
    <2>1. ~(j < i) /\ i # j
      BY <1>2
    <2> QED
      BY <1>1, <2>1
  <1>5. SelectInSeq(active_nodes, LAMBDA g : g = f) = p
    <2>1. I = {p}
      <3> SUFFICES ASSUME NEW i \in 1..n, active_nodes[i] = f PROVE i = p
        BY <1>3
      <3>1. ~(i < p) /\ ~(p < i)
        BY <1>2, <1>3
      <3> QED
        BY <1>1, <3>1
    <2>2. Min({p}) = p
      BY <1>1 DEF Min
    <2>3. SelectInSeq(active_nodes, LAMBDA g : g = f) = IF I # {} THEN Min(I) ELSE 0
      BY DEF SelectInSeq
    <2> HIDE DEF I
    <2> QED
      BY <2>1, <2>2, <2>3
  <1> DEFINE P == {active_nodes[i] : i \in p..n}
  <1>6. PoppedTo(f) = P
    BY <1>5 DEF PoppedTo
  <1>7. P = {g \in Active : discovery[f] <= discovery[g]}
    <2>1. ASSUME NEW i \in p..n
          PROVE  active_nodes[i] \in Active /\ discovery[f] <= discovery[active_nodes[i]]
      <3>1. i \in 1..n /\ (i = p \/ p < i)
        BY <1>1
      <3> QED
        BY <1>2, <1>3, <3>1
    <2>2. ASSUME NEW g \in Active, discovery[f] <= discovery[g]
          PROVE  g \in P
      <3>1. PICK i \in 1..n : active_nodes[i] = g
        BY <1>2
      <3>2. ~(i < p)
        BY <1>2, <1>3, <2>2, <3>1
      <3>3. i \in p..n
        BY <1>1, <3>2
      <3> QED
        BY <3>1, <3>3
    <2> HIDE DEF n
    <2> QED
      BY <2>1, <2>2
  <1>8. Cardinality(P) = n - p + 1
    <2> DEFINE h == [i \in p..n |-> active_nodes[i]]
    <2>1. IsFiniteSet(p..n) /\ Cardinality(p..n) = n - p + 1
      BY <1>1, FS_Interval
    <2>2. h \in Surjection(p..n, P)
      BY DEF Surjection
    <2>3. h \in Injection(p..n, P)
      <3>1. \A i, j \in p..n : h[i] = h[j] => i = j
        <4> SUFFICES ASSUME NEW i \in p..n, NEW j \in p..n, active_nodes[i] = active_nodes[j]
                     PROVE  i = j
          OBVIOUS
        <4>1. i \in 1..n /\ j \in 1..n
          BY <1>1
        <4>2. ~(i < j) /\ ~(j < i)
          BY <1>2, <4>1
        <4> QED
          BY <4>1, <4>2
      <3>2. h \in [p..n -> P]
        OBVIOUS
      <3> HIDE DEF h, P, n
      <3> QED
        BY <3>1, <3>2 DEF Injection, IsInjective
    <2> HIDE DEF h, P, n
    <2>4. Cardinality(P) = Cardinality(p..n)
      BY <2>1, <2>2, <2>3, FS_Surjection
    <2> QED
      BY <2>1, <2>4
  <1> DEFINE q == SubSeq(active_nodes, 1, p - 1)
  <1>9. /\ q \in Seq(Callables) /\ DOMAIN q = 1..(p - 1)
        /\ \A i \in 1..(p - 1) : i \in 1..n /\ q[i] = active_nodes[i]
    BY <1>1
  <1>10. q = SubSeq(active_nodes, 1, n - Cardinality(PoppedTo(f)))
    <2>1. n - Cardinality(P) = p - 1
      BY <1>1, <1>8
    <2> HIDE DEF n, P
    <2> QED
      BY <1>6, <2>1
  <1>11. ASSUME NEW i \in 1..n
         PROVE  i \in 1..(p - 1) <=> discovery[active_nodes[i]] < discovery[f]
    <2>1. i < p <=> discovery[active_nodes[i]] < discovery[f]
      BY <1>3, <1>4
    <2> QED
      BY <1>1, <2>1
  <1> HIDE DEF q, P, n
  <1>12. \A i \in DOMAIN active_nodes : i \in DOMAIN q <=> discovery[active_nodes[i]] < discovery[f]
    BY <1>1, <1>9, <1>11
  <1> QED
    BY <1>1, <1>6, <1>7, <1>9, <1>10, <1>12 DEF n

-------------------------------------------------------------------------------
(* The first state *)

(* Before the search nothing is active, done or found.                     *)
LEMMA SearchStarts ==
    ASSUME SccInit
    PROVE  SearchInv
  <1>1. /\ program \in Seq(Range(program)) /\ Len(program) \in Nat /\ MaxIndex \in Nat
        /\ Len(program) <= MaxIndex - 1 /\ Len(program) >= 1
    BY ProgramAssumption DEF SccInit
  <1>2. /\ Assigned \in Nat /\ Unvisited = Assigned + 1 /\ Len(program) <= Assigned
    BY <1>1 DEF Assigned, Unvisited
  <1>3. \A f \in Callables : discovery[f] = Unvisited /\ low_link[f] = 0
    BY DEF SccInit, NothingVisited
  <1>4. Active = {} /\ Done = {} /\ {f \in Callables : discovery[f] # Unvisited} = {}
    BY <1>2, <1>3 DEF Active, Done
  <1>5. Values
    <2>1. next_index = Cardinality({f \in Callables : discovery[f] # Unvisited})
      BY <1>4, FS_EmptySet DEF SccInit, NothingVisited
    <2>2. /\ discovery \in [Callables -> 0..(next_index - 1) \cup {Assigned, Unvisited}]
          /\ low_link \in [Callables -> Nat]
      BY DEF SccInit, NothingVisited
    <2> QED
      BY <1>1, <1>2, <2>1, <2>2 DEF Values
  <1>6. active_nodes = <<>> /\ dfs_stack = <<>> /\ component_nodes = {} /\ call_graph = Undecided
    BY DEF SccInit, NothingVisited
  <1>7. StackIsActive /\ PathIsActive /\ PathReaches /\ EdgesAreSeen
    BY <1>4, <1>6 DEF StackIsActive, PathIsActive, PathReaches, EdgesAreSeen
  <1>8. LowLinksReach /\ FinishedIsLower /\ LowLinksBound
    BY <1>4, <1>6 DEF LowLinksReach, FinishedIsLower, LowLinksBound
  <1>9. ComponentsAreClasses /\ ResultIsExact
    BY <1>4, <1>6 DEF ComponentsAreClasses, ResultIsExact
  <1> QED
    BY <1>5, <1>7, <1>8, <1>9 DEF SearchInv

-------------------------------------------------------------------------------
(* A new function, and an edge to a known one *)

(* The graph does not change with the search.                              *)
LEMMA GraphStays ==
    ASSUME program' = program
    PROVE  /\ Callables' = Callables /\ Edges' = Edges /\ Reach' = Reach
           /\ \A f : Adjacency(f)' = Adjacency(f) /\ Class(f)' = Class(f)
           /\ ExactDecomposition(program)' = ExactDecomposition(program)
  <1>1. Callables' = Callables /\ Edges' = Edges
    BY DEF Callables, Edges
  <1>2. Reach' = Reach
    BY <1>1 DEF Reach
  <1>3. \A f : Adjacency(f)' = Adjacency(f)
    BY <1>1 DEF Adjacency
  <1>4. \A f : Class(f)' = Class(f)
    BY <1>1, <1>2 DEF Class
  <1> QED
    BY <1>1, <1>2, <1>3, <1>4

\* The last frame, if there is one, takes g as its next successor.
Takes(g, frames) ==
    /\ frames \in Seq(Callables \X Nat) /\ Len(frames) = Len(dfs_stack)
    /\ \A k \in DOMAIN dfs_stack :
          /\ frames[k][1] = Frame(k)
          /\ k < Len(dfs_stack) => frames[k][2] = Taken(k)
          /\ k = Len(dfs_stack) => /\ frames[k][2] = Taken(k) + 1
                                   /\ Taken(k) < Len(Adjacency(Frame(k)))
                                   /\ Adjacency(Frame(k))[Taken(k) + 1] = g

(* That is what the loop does while the last frame has successors left.    *)
LEMMA AdvancedTakes ==
    ASSUME Values, PathIsActive, Unfinished
    PROVE  /\ Takes(NextSuccessor, Advanced) /\ NextSuccessor \in Callables
           /\ Len(dfs_stack) \in DOMAIN dfs_stack
           /\ <<Frame(Len(dfs_stack)), NextSuccessor>> \in Edges
  <1> DEFINE n == Len(dfs_stack)
             f == Frame(n)
             t == Taken(n)
  <1>1. /\ n \in Nat \ {0} /\ DOMAIN dfs_stack = 1..n /\ n \in DOMAIN dfs_stack
        /\ dfs_stack \in Seq(Callables \X Nat)
    BY DEF PathIsActive, Unfinished
  <1>2. \A k \in 1..n : dfs_stack[k] = <<Frame(k), Taken(k)>> /\ Frame(k) \in Callables /\ Taken(k) \in Nat
    BY <1>1 DEF Frame, Taken
  <1>3. t < Len(Adjacency(f)) /\ NextSuccessor = Adjacency(f)[t + 1]
    BY DEF Unfinished, NextSuccessor, Last, Frame, Taken
  <1>4. /\ NextSuccessor \in Callables /\ <<f, NextSuccessor>> \in Edges
    <2>1. Adjacency(f) \in Seq(Callables) /\ f \in Callables /\ t \in Nat
      BY <1>1, <1>2, AdjacencyLists
    <2>2. t + 1 \in DOMAIN Adjacency(f)
      <3> HIDE DEF f, t
      <3> QED
        BY <1>3, <2>1
    <2> HIDE DEF f, t
    <2> QED
      BY <1>3, <2>1, <2>2, AdjacencyLists
  <1>5. /\ Advanced \in Seq(Callables \X Nat) /\ Len(Advanced) = n
        /\ \A k \in 1..n : k # n => Advanced[k] = dfs_stack[k]
        /\ Advanced[n] = [dfs_stack[n] EXCEPT ![2] = @ + 1]
    <2>1. Advanced = [dfs_stack EXCEPT ![n] = [dfs_stack[n] EXCEPT ![2] = @ + 1]]
      BY DEF Advanced
    <2>2. [dfs_stack[n] EXCEPT ![2] = @ + 1] = <<f, t + 1>>
      BY <1>1, <1>2
    <2>3. <<f, t + 1>> \in Callables \X Nat
      BY <1>1, <1>2
    <2> HIDE DEF f, t, n
    <2> QED
      BY <1>1, <2>1, <2>2, <2>3
  <1>6. Advanced[n] = <<f, t + 1>>
    <2>1. [dfs_stack[n] EXCEPT ![2] = @ + 1] = <<f, t + 1>>
      BY <1>1, <1>2
    <2> QED
      BY <1>5, <2>1
  <1>7. \A k \in 1..n : /\ Advanced[k][1] = Frame(k)
                        /\ k < n => Advanced[k][2] = Taken(k)
                        /\ k = n => Advanced[k][2] = Taken(k) + 1
    <2> SUFFICES ASSUME NEW k \in 1..n
                 PROVE  /\ Advanced[k][1] = Frame(k)
                        /\ k < n => Advanced[k][2] = Taken(k)
                        /\ k = n => Advanced[k][2] = Taken(k) + 1
      OBVIOUS
    <2>1. CASE k = n
      <3>1. Advanced[k][1] = f /\ Advanced[k][2] = t + 1
        BY <1>6, <2>1
      <3> HIDE DEF n
      <3> QED
        BY <1>1, <2>1, <3>1
    <2>2. CASE k # n
      <3> HIDE DEF n
      <3>1. \A i \in 1..n : i # n => Advanced[i] = dfs_stack[i]
        BY <1>5
      <3>2. Advanced[k] = dfs_stack[k]
        BY <2>2, <3>1
      <3> QED
        BY <2>2, <3>2 DEF Frame, Taken
    <2> QED
      BY <2>1, <2>2
  <1> HIDE DEF n, f, t
  <1>8. n = Len(dfs_stack) /\ f = Frame(n) /\ t = Taken(n)
    BY DEF n, f, t
  <1>9. Takes(NextSuccessor, Advanced)
    <2>1. Advanced \in Seq(Callables \X Nat) /\ Len(Advanced) = Len(dfs_stack)
      BY <1>5, <1>8
    <2>2. ASSUME NEW k \in DOMAIN dfs_stack
          PROVE  /\ Advanced[k][1] = Frame(k)
                 /\ k < Len(dfs_stack) => Advanced[k][2] = Taken(k)
                 /\ k = Len(dfs_stack) => Advanced[k][2] = Taken(k) + 1
      BY <1>1, <1>7, <1>8, Zenon
    <2>3. ASSUME NEW k \in DOMAIN dfs_stack, k = Len(dfs_stack)
          PROVE  Taken(k) < Len(Adjacency(Frame(k))) /\ Adjacency(Frame(k))[Taken(k) + 1] = NextSuccessor
      BY <1>3, <1>8, <2>3
    <2> QED
      BY <2>1, <2>2, <2>3 DEF Takes
  <1> QED
    BY <1>1, <1>4, <1>8, <1>9

(* Only that edge is one more that the search followed.                    *)
LEMMA FollowsOneMore ==
    ASSUME Values, PathIsActive, program' = program, NEW g, NEW frames, Takes(g, frames),
           \A k \in DOMAIN dfs_stack : k \in DOMAIN dfs_stack' /\ dfs_stack'[k] = frames[k],
           NEW x, NEW y, Followed(x, y)'
    PROVE  Followed(x, y) \/ (dfs_stack # <<>> /\ x = Frame(Len(dfs_stack)) /\ y = g)
  <1> SUFFICES ASSUME ~(dfs_stack # <<>> /\ x = Frame(Len(dfs_stack)) /\ y = g)
               PROVE  Followed(x, y)
    OBVIOUS
  <1>1. <<x, y>> \in Edges
    BY GraphStays DEF Followed
  <1>2. ASSUME NEW k \in DOMAIN dfs_stack, Frame(k) = x
        PROVE  \E j \in 1..Taken(k) : Adjacency(x)[j] = y
    <2>1. k \in DOMAIN dfs_stack' /\ dfs_stack'[k] = frames[k] /\ frames[k][1] = Frame(k)
      BY DEF Takes
    <2>2. PICK j \in 1..frames[k][2] : Adjacency(x)[j] = y
      <3>1. \E j \in 1..dfs_stack'[k][2] : Adjacency(x)'[j] = y
        BY <1>2, <2>1 DEF Followed, Frame, Taken
      <3> QED
        BY <2>1, <3>1, GraphStays
    <2>3. /\ Len(dfs_stack) \in Nat /\ DOMAIN dfs_stack = 1..Len(dfs_stack) /\ dfs_stack # <<>>
          /\ Taken(k) \in Nat
      BY DEF PathIsActive, Taken
    <2>4. CASE k < Len(dfs_stack)
      BY <2>2, <2>4 DEF Takes
    <2>5. CASE k = Len(dfs_stack)
      <3>1. frames[k][2] = Taken(k) + 1 /\ Adjacency(x)[Taken(k) + 1] = g
        BY <1>2, <2>5 DEF Takes
      <3>2. j # Taken(k) + 1
        BY <1>2, <2>2, <2>3, <2>5, <3>1
      <3>3. j \in 1..Taken(k)
        BY <2>2, <2>3, <3>1, <3>2
      <3> QED
        BY <2>2, <3>3
    <2> QED
      BY <2>3, <2>4, <2>5
  <1> QED
    BY <1>1, <1>2 DEF Followed

(* A function that is discovered is a new frame above the path, which      *)
(* reaches it, and a new root of a component of its own.                   *)
LEMMA DiscoverStep ==
    ASSUME SearchInv, program' = program, NEW f \in Callables, discovery[f] = Unvisited,
           NEW frames, Takes(f, frames), Discover(f, frames),
           dfs_stack # <<>> => <<Frame(Len(dfs_stack)), f>> \in Edges
    PROVE  SearchInv'
  <1>1. /\ Values /\ StackIsActive /\ PathIsActive /\ PathReaches /\ EdgesAreSeen
        /\ LowLinksReach /\ FinishedIsLower /\ LowLinksBound
        /\ ComponentsAreClasses /\ ResultIsExact
    BY DEF SearchInv
  <1>2. PICK n \in Nat : n = Len(dfs_stack)
    BY <1>1 DEF PathIsActive
  <1>3. /\ Callables' = Callables /\ Edges' = Edges /\ Reach' = Reach
        /\ \A g : Adjacency(g)' = Adjacency(g) /\ Class(g)' = Class(g)
        /\ Assigned' = Assigned /\ Unvisited' = Unvisited
    BY GraphStays DEF Assigned, Unvisited
  <1>4. /\ next_index \in Nat /\ Assigned \in Nat /\ Unvisited = Assigned + 1
        /\ next_index < Assigned /\ next_index' = next_index + 1
    BY <1>1, IndexesFit DEF Discover
  <1>5. /\ \A g \in Callables : discovery'[g] = IF g = f THEN next_index ELSE discovery[g]
        /\ \A g \in Callables : low_link'[g] = IF g = f THEN next_index ELSE low_link[g]
        /\ discovery' = [discovery EXCEPT ![f] = next_index]
        /\ low_link' = [low_link EXCEPT ![f] = next_index]
    BY <1>1 DEF Discover, Values
  <1>6. /\ f \notin Active /\ f \notin Done /\ Active' = Active \cup {f} /\ Done' = Done
        /\ Active \subseteq Callables /\ Done \subseteq Callables
        /\ \A g \in Active : discovery[g] \in Nat /\ discovery[g] < next_index
    BY <1>1, <1>3, <1>4, <1>5, IndexesFit DEF Active, Done
  <1>7. /\ n \in Nat /\ DOMAIN dfs_stack = 1..n /\ (n = 0 <=> dfs_stack = <<>>)
        /\ frames \in Seq(Callables \X Nat) /\ Len(frames) = n
        /\ dfs_stack' = Append(frames, <<f, 0>>)
    BY <1>1, <1>2 DEF PathIsActive, Takes, Discover
  <1>8. /\ dfs_stack' \in Seq(Callables \X Nat) /\ Len(dfs_stack') = n + 1
        /\ DOMAIN dfs_stack' = 1..(n + 1) /\ dfs_stack' # <<>>
        /\ \A k \in 1..n : k \in DOMAIN dfs_stack' /\ dfs_stack'[k] = frames[k]
        /\ dfs_stack'[n + 1] = <<f, 0>>
    <2>1. <<f, 0>> \in Callables \X Nat
      OBVIOUS
    <2> QED
      BY <1>7, <2>1
  <1>9. /\ \A k \in 1..n : Frame(k)' = Frame(k) /\ Frame(k) \in Active /\ Frame(k) # f
        /\ Frame(n + 1)' = f /\ Taken(n + 1)' = 0
        /\ \A k \in 1..n : Taken(k)' <= Len(Adjacency(Frame(k)))
    <2>1. ASSUME NEW k \in 1..n
          PROVE  /\ Frame(k)' = Frame(k) /\ Frame(k) \in Active
                 /\ Taken(k)' <= Len(Adjacency(Frame(k)))
      <3>1. dfs_stack'[k] = frames[k] /\ frames[k][1] = Frame(k)
        BY <1>2, <1>7, <1>8 DEF Takes
      <3>2. Frame(k) \in Active /\ Taken(k) <= Len(Adjacency(Frame(k))) /\ Taken(k) \in Nat
        <4>1. dfs_stack \in Seq(Callables \X Nat) /\ k \in DOMAIN dfs_stack
          BY <1>1, <1>7 DEF PathIsActive
        <4>2. Taken(k) \in Nat
          BY <4>1 DEF Taken
        <4> QED
          BY <1>1, <4>1, <4>2 DEF PathIsActive
      <3>3. k < n \/ k = n
        BY <1>7
      <3>4. Len(Adjacency(Frame(k))) \in Nat
        BY <1>1, <1>6, <3>2, AdjacencyLists
      <3>5. frames[k][2] <= Len(Adjacency(Frame(k)))
        BY <1>2, <1>7, <3>2, <3>3, <3>4 DEF Takes
      <3> QED
        BY <3>1, <3>2, <3>5 DEF Frame, Taken
    <2> QED
      BY <1>6, <1>8, <2>1 DEF Frame, Taken
  <1>10. /\ discovery'[f] = next_index /\ low_link'[f] = next_index
         /\ \A g \in Active : /\ g # f /\ g \in Callables
                              /\ discovery'[g] = discovery[g] /\ low_link'[g] = low_link[g]
    BY <1>5, <1>6
  <1>11. \A k \in 1..n : \A l \in 1..n : k < l => discovery[Frame(k)] < discovery[Frame(l)]
    BY <1>1, <1>7 DEF PathIsActive
  <1>12. \A x, y : Followed(x, y)' =>
            /\ <<x, y>> \in Edges /\ x # f
            /\ Followed(x, y) \/ (n # 0 /\ x = Frame(n) /\ y = f)
    <2> SUFFICES ASSUME NEW x, NEW y, Followed(x, y)'
                 PROVE  /\ <<x, y>> \in Edges /\ x # f
                        /\ Followed(x, y) \/ (n # 0 /\ x = Frame(n) /\ y = f)
      OBVIOUS
    <2>1. <<x, y>> \in Edges
      BY <1>3 DEF Followed
    <2>2. x # f
      <3> SUFFICES ASSUME x = f PROVE FALSE
        OBVIOUS
      <3>1. n + 1 \in DOMAIN dfs_stack'
        BY <1>7, <1>8
      <3>2. \E j \in 1..Taken(n + 1)' : Adjacency(f)'[j] = y
        BY <1>9, <3>1 DEF Followed
      <3> QED
        BY <1>9, <3>2
    <2>3. Followed(x, y) \/ (dfs_stack # <<>> /\ x = Frame(Len(dfs_stack)) /\ y = f)
      BY <1>1, <1>7, <1>8, FollowsOneMore
    <2> QED
      BY <1>2, <1>7, <2>1, <2>2, <2>3
  <1>13. Values'
    <2>1. next_index' = Cardinality({g \in Callables' : discovery'[g] # Unvisited'})
      <3> DEFINE V == {g \in Callables : discovery[g] # Unvisited}
                 W == {g \in Callables' : discovery'[g] # Unvisited'}
      <3>1. IsFiniteSet(V) /\ f \notin V /\ next_index = Cardinality(V)
        <4>1. V \in SUBSET Callables
          OBVIOUS
        <4>2. IsFiniteSet(Callables)
          BY <1>1, GraphIsFinite
        <4> QED
          BY <1>1, <4>1, <4>2, FS_Subset DEF Values
      <3>2. W = V \cup {f}
        BY <1>3, <1>4, <1>5
      <3> HIDE DEF V, W
      <3>3. Cardinality(V \cup {f}) = Cardinality(V) + 1
        BY <3>1, FS_AddElement
      <3>4. next_index' = Cardinality(W)
        BY <1>4, <3>1, <3>2, <3>3
      <3> QED
        BY <3>4 DEF W
    <2>2. discovery' \in [Callables -> 0..(next_index' - 1) \cup {Assigned, Unvisited}]
      <3>1. discovery \in [Callables -> 0..(next_index - 1) \cup {Assigned, Unvisited}]
        BY <1>1 DEF Values
      <3>2. \A v \in 0..(next_index - 1) \cup {Assigned, Unvisited} :
                v \in 0..(next_index' - 1) \cup {Assigned, Unvisited}
        BY <1>4
      <3>3. next_index \in 0..(next_index' - 1) \cup {Assigned, Unvisited}
        BY <1>4
      <3> QED
        BY <1>5, <3>1, <3>2, <3>3
    <2>3. low_link' \in [Callables -> Nat]
      BY <1>1, <1>4, <1>5 DEF Values
    <2>4. program' \in Seq(Range(program')) /\ Len(program') <= Assigned' /\ MaxIndex \in Nat
      BY <1>1, <1>3 DEF Values
    <2> QED
      BY <1>3, <2>1, <2>2, <2>3, <2>4 DEF Values
  <1>14. StackIsActive'
    <2> DEFINE a == active_nodes
               m == Len(a)
    <2>1. /\ a \in Seq(Callables) /\ m \in Nat /\ DOMAIN a = 1..m
          /\ \A i \in 1..m : a[i] \in Callables /\ a[i] \in Active
      BY <1>1 DEF StackIsActive
    <2>2. /\ a' \in Seq(Callables) /\ DOMAIN a' = 1..(m + 1) /\ a'[m + 1] = f
          /\ \A i \in 1..m : a'[i] = a[i]
      <3>1. a' = Append(a, f)
        BY DEF Discover
      <3> HIDE DEF a
      <3> QED
        BY <2>1, <3>1
    <2>3. \A i \in 1..(m + 1) : i = m + 1 \/ i \in 1..m
      BY <2>1
    <2>4. ASSUME NEW g \in Callables
          PROVE  g \in Active' <=> \E i \in 1..(m + 1) : a'[i] = g
      <3>1. g \in Active <=> \E i \in 1..m : a[i] = g
        BY <1>1, <2>1 DEF StackIsActive
      <3>2. m + 1 \in 1..(m + 1) /\ \A i \in 1..m : i \in 1..(m + 1)
        BY <2>1
      <3> HIDE DEF a, m
      <3> QED
        BY <1>6, <2>2, <2>3, <3>1, <3>2
    <2>5. ASSUME NEW i \in 1..(m + 1), NEW j \in 1..(m + 1), i < j
          PROVE  discovery'[a'[i]] < discovery'[a'[j]]
      <3>1. i \in 1..m /\ a'[i] = a[i] /\ a[i] \in Active /\ discovery'[a[i]] = discovery[a[i]]
        <4>1. i \in 1..m
          BY <2>1, <2>5
        <4> QED
          BY <1>5, <1>6, <2>1, <2>2, <4>1
      <3>2. CASE j = m + 1
        BY <1>5, <1>6, <2>2, <3>1, <3>2
      <3>3. CASE j \in 1..m
        <4>1. a'[j] = a[j] /\ discovery'[a[j]] = discovery[a[j]]
          BY <1>5, <1>6, <2>1, <2>2, <3>3
        <4>2. discovery[a[i]] < discovery[a[j]]
          BY <1>1, <2>1, <2>5, <3>1, <3>3 DEF StackIsActive
        <4> QED
          BY <3>1, <4>1, <4>2
      <3> QED
        BY <2>3, <3>2, <3>3
    <2> HIDE DEF m
    <2> QED
      BY <1>3, <2>2, <2>4, <2>5 DEF StackIsActive
  <1>15. \A k \in 1..(n + 1) : k \in 1..n \/ k = n + 1
    BY <1>7
  <1>16. PathIsActive'
    <2>1. ASSUME NEW k \in 1..(n + 1)
          PROVE  Frame(k)' \in Active' /\ Taken(k)' <= Len(Adjacency(Frame(k))')
      <3>1. CASE k \in 1..n
        BY <1>3, <1>6, <1>9, <3>1
      <3>2. CASE k = n + 1
        <4>1. Len(Adjacency(f)) \in Nat
          BY <1>1, AdjacencyLists
        <4>2. Adjacency(Frame(k))' = Adjacency(f)
          BY <1>3, <1>9, <3>2 DEF Adjacency
        <4> QED
          BY <1>6, <1>9, <3>2, <4>1, <4>2
      <3> QED
        BY <1>15, <3>1, <3>2
    <2>2. ASSUME NEW k \in 1..(n + 1), NEW l \in 1..(n + 1), k < l
          PROVE  discovery'[Frame(k)'] < discovery'[Frame(l)']
      <3>1. k \in 1..n /\ discovery'[Frame(k)'] = discovery[Frame(k)]
        <4>1. k \in 1..n
          BY <1>7, <2>2
        <4> QED
          BY <1>5, <1>6, <1>9, <4>1
      <3>2. CASE l \in 1..n
        <4>1. Frame(l)' = Frame(l) /\ Frame(l) \in Active
          BY <1>9, <3>2
        <4>2. discovery[Frame(k)] < discovery[Frame(l)]
          BY <1>11, <2>2, <3>1, <3>2
        <4> QED
          BY <1>10, <3>1, <4>1, <4>2
      <3>3. CASE l = n + 1
        BY <1>5, <1>6, <1>9, <3>1, <3>3
      <3> QED
        BY <1>15, <3>2, <3>3
    <2> QED
      BY <1>3, <1>8, <2>1, <2>2 DEF PathIsActive
  <1>17. PathReaches'
    <2>1. ASSUME NEW k \in 1..(n + 1), NEW g \in Active', discovery'[Frame(k)'] <= discovery'[g]
          PROVE  Reaches(Frame(k)', g)
      <3>1. CASE k \in 1..n /\ g # f
        <4>1. Frame(k)' = Frame(k) /\ Frame(k) \in Active /\ g \in Active /\ k \in DOMAIN dfs_stack
          BY <1>6, <1>7, <1>9, <3>1
        <4>2. discovery[Frame(k)] <= discovery[g]
          BY <1>10, <2>1, <4>1
        <4>3. Reaches(Frame(k), g)
          BY <1>1, <4>1, <4>2 DEF PathReaches
        <4> QED
          BY <4>1, <4>3
      <3>2. CASE k \in 1..n /\ g = f
        <4>1. n \in 1..n /\ <<Frame(n), f>> \in Reach
          <5>1. n \in 1..n /\ dfs_stack # <<>>
            BY <1>7, <3>2
          <5>2. <<Frame(n), f>> \in Edges
            BY <1>2, <5>1
          <5> QED
            BY <1>1, <5>1, <5>2, ReachIsTransitive
        <4>2. discovery[Frame(k)] <= discovery[Frame(n)]
          <5>1. k = n \/ k < n
            BY <1>7, <3>2
          <5> QED
            BY <1>6, <1>9, <1>11, <3>2, <4>1, <5>1
        <4>3. Reaches(Frame(k), Frame(n))
          BY <1>1, <1>7, <1>9, <3>2, <4>1, <4>2 DEF PathReaches
        <4>4. Reaches(Frame(k), f)
          BY <1>1, <4>1, <4>3, ReachIsTransitive DEF Reaches
        <4> QED
          BY <1>9, <3>2, <4>4
      <3>3. CASE k = n + 1
        <4>1. g = f
          <5>1. Frame(k)' = f /\ (g \in Active => discovery'[g] < next_index)
            BY <1>6, <1>9, <1>10, <3>3
          <5>2. g \notin Active
            BY <1>4, <1>6, <1>10, <2>1, <5>1
          <5> QED
            BY <1>6, <5>2
        <4> QED
          BY <1>9, <3>3, <4>1 DEF Reaches
      <3> QED
        BY <1>15, <3>1, <3>2, <3>3
    <2>2. ASSUME NEW g \in Active'
          PROVE  discovery'[Frame(1)'] <= discovery'[g]
      <3>1. CASE n = 0
        <4>1. Active = {}
          BY <1>1, <1>7, <3>1 DEF PathReaches
        <4> QED
          BY <1>4, <1>5, <1>6, <1>9, <3>1, <4>1
      <3>2. CASE n # 0
        <4>1. 1 \in 1..n
          BY <1>7, <3>2
        <4>2. Frame(1)' = Frame(1) /\ Frame(1) \in Active /\ discovery'[Frame(1)] = discovery[Frame(1)]
          BY <1>5, <1>6, <1>9, <4>1
        <4>3. g \in Active => discovery[Frame(1)] <= discovery[g]
          BY <1>1 DEF PathReaches
        <4>4. g = f \/ g \in Active
          BY <1>6
        <4> QED
          BY <1>4, <1>6, <1>10, <4>2, <4>3, <4>4
      <3> QED
        BY <3>1, <3>2
    <2> QED
      BY <1>3, <1>8, <2>1, <2>2 DEF PathReaches, Reaches
  <1>18. EdgesAreSeen'
    <2>1. ASSUME NEW x \in Active', NEW y \in Callables, Followed(x, y)'
          PROVE  discovery'[y] # Unvisited
      <3>1. y # f => discovery[y] # Unvisited
        BY <1>1, <1>6, <1>12, <2>1 DEF EdgesAreSeen
      <3> QED
        BY <1>4, <1>5, <3>1
    <2>2. \A x \in Done, y \in Callables : <<x, y>> \in Edges => y \in Done
      BY <1>1 DEF EdgesAreSeen
    <2> QED
      BY <1>3, <1>6, <2>1, <2>2 DEF EdgesAreSeen
  <1>19. LowLinksReach'
    <2>1. ASSUME NEW g \in Active'
          PROVE  /\ low_link'[g] <= discovery'[g]
                 /\ \E h \in Active' : low_link'[g] = discovery'[h] /\ Reaches(g, h)
      <3>1. CASE g = f
        BY <1>4, <1>5, <1>6, <3>1 DEF Reaches
      <3>2. CASE g # f
        <4>1. g \in Active /\ low_link[g] <= discovery[g]
          BY <1>1, <1>6, <3>2 DEF LowLinksReach
        <4>2. PICK h \in Active : low_link[g] = discovery[h] /\ Reaches(g, h)
          BY <1>1, <4>1 DEF LowLinksReach
        <4>3. low_link'[g] = low_link[g] /\ discovery'[g] = discovery[g] /\ discovery'[h] = discovery[h]
          BY <1>5, <1>6, <3>2, <4>1, <4>2
        <4> QED
          BY <1>6, <4>1, <4>2, <4>3
      <3> QED
        BY <3>1, <3>2
    <2> QED
      BY <1>3, <2>1 DEF LowLinksReach, Reaches
  <1>20. FinishedIsLower'
    <2>1. ASSUME NEW g \in Active', \A k \in 1..(n + 1) : Frame(k)' # g
          PROVE  low_link'[g] < discovery'[g]
      <3>1. n + 1 \in 1..(n + 1) /\ \A k \in 1..n : k \in 1..(n + 1)
        BY <1>7
      <3>2. g # f /\ g \in Active
        BY <1>6, <1>9, <2>1, <3>1
      <3>3. \A k \in DOMAIN dfs_stack : Frame(k) # g
        BY <1>7, <1>9, <2>1, <3>1
      <3> QED
        BY <1>1, <1>5, <1>6, <3>2, <3>3 DEF FinishedIsLower
    <2> QED
      BY <1>8, <2>1 DEF FinishedIsLower
  <1>21. LowLinksBound'
    <2>1. ASSUME NEW k \in 1..(n + 1), NEW x \in Territory(k)', NEW y \in Active', Followed(x, y)'
          PROVE  low_link'[Frame(k)'] <= discovery'[y]
      <3>1. /\ x \in Active' /\ discovery'[Frame(k)'] <= discovery'[x]
            /\ k < n + 1 => discovery'[x] < discovery'[Frame(k + 1)']
        BY <1>8, <2>1 DEF Territory, Frame
      <3>2. x \in Active /\ x # f
        BY <1>6, <1>12, <2>1, <3>1
      <3>3. k \in 1..n
        <4>1. k = n + 1 => Frame(k)' = f
          BY <1>9
        <4>2. discovery'[x] < next_index
          BY <1>6, <1>10, <3>2
        <4>3. k # n + 1
          BY <1>4, <1>6, <1>10, <3>1, <3>2, <4>1, <4>2
        <4> QED
          BY <1>15, <4>3
      <3>4. /\ low_link'[Frame(k)'] = low_link[Frame(k)] /\ low_link[Frame(k)] \in Nat
            /\ low_link[Frame(k)] <= discovery[Frame(k)]
            /\ discovery'[Frame(k)'] = discovery[Frame(k)] /\ discovery'[x] = discovery[x]
        BY <1>1, <1>5, <1>6, <1>9, <3>2, <3>3 DEF LowLinksReach, Values
      <3>5. x \in Territory(k)
        <4>1. CASE k < n
          <5>1. k + 1 \in 1..n
            BY <1>7, <3>3, <4>1
          <5>2. Frame(k + 1)' = Frame(k + 1) /\ discovery'[Frame(k + 1)] = discovery[Frame(k + 1)]
            BY <1>5, <1>6, <1>9, <5>1
          <5>3. discovery[x] < discovery[Frame(k + 1)]
            BY <1>7, <3>1, <3>3, <3>4, <5>1, <5>2
          <5> QED
            BY <1>2, <3>1, <3>2, <3>4, <5>3 DEF Territory
        <4>2. CASE ~(k < n)
          BY <1>2, <3>1, <3>2, <3>4, <4>2 DEF Territory
        <4> QED
          BY <4>1, <4>2
      <3>6. CASE y = f
        BY <1>4, <1>5, <1>6, <1>9, <3>3, <3>4, <3>6
      <3>7. CASE y # f
        <4>1. y \in Active /\ discovery'[y] = discovery[y] /\ Followed(x, y)
          BY <1>5, <1>6, <1>12, <2>1, <3>7
        <4> QED
          BY <1>1, <1>7, <3>3, <3>4, <3>5, <4>1 DEF LowLinksBound
      <3> QED
        BY <3>6, <3>7
    <2> QED
      BY <1>8, <2>1 DEF LowLinksBound
  <1>22. ComponentsAreClasses' /\ ResultIsExact'
    <2>1. component_nodes' = component_nodes /\ call_graph' = call_graph
      BY DEF Discover
    <2>2. ComponentsAreClasses'
      BY <1>1, <1>3, <1>6, <2>1 DEF ComponentsAreClasses
    <2>3. ResultIsExact'
      BY <1>1, <2>1 DEF ResultIsExact
    <2> QED
      BY <2>2, <2>3
  <1> QED
    BY <1>13, <1>14, <1>16, <1>17, <1>18, <1>19, <1>20, <1>21, <1>22 DEF SearchInv

LEMMA MinOfTwo ==
    ASSUME NEW a \in Nat, NEW b \in Nat
    PROVE  Min({a, b}) = (IF a <= b THEN a ELSE b)
  <1>1. \E x \in {a, b} : \A y \in {a, b} : x <= y
    OBVIOUS
  <1>2. Min({a, b}) \in {a, b} /\ \A y \in {a, b} : Min({a, b}) <= y
    BY <1>1 DEF Min
  <1> QED
    BY <1>2

(* An edge to a function that was visited before: it bounds the low link   *)
(* of the last frame by the index of a function that is still active.      *)
LEMMA CloseStep ==
    ASSUME SearchInv, program' = program, Close
    PROVE  SearchInv'
  <1>1. /\ Values /\ StackIsActive /\ PathIsActive /\ PathReaches /\ EdgesAreSeen
        /\ LowLinksReach /\ FinishedIsLower /\ LowLinksBound
        /\ ComponentsAreClasses /\ ResultIsExact
    BY DEF SearchInv
  <1>2. /\ Callables' = Callables /\ Edges' = Edges /\ Reach' = Reach
        /\ \A h : Adjacency(h)' = Adjacency(h) /\ Class(h)' = Class(h)
        /\ Assigned' = Assigned /\ Unvisited' = Unvisited
    BY GraphStays DEF Assigned, Unvisited
  <1>3. /\ Unfinished /\ discovery[NextSuccessor] # Unvisited
        /\ dfs_stack' = Advanced /\ discovery' = discovery /\ next_index' = next_index
        /\ active_nodes' = active_nodes /\ component_nodes' = component_nodes
        /\ call_graph' = call_graph
    BY DEF Close
  <1>4. PICK n \in Nat : n = Len(dfs_stack)
    BY <1>1 DEF PathIsActive
  <1>5. PICK g \in Callables : g = NextSuccessor
    BY <1>1, <1>3, AdvancedTakes
  <1>6. PICK f : f = Frame(n)
    OBVIOUS
  <1>7. /\ Takes(g, Advanced) /\ n \in 1..n /\ DOMAIN dfs_stack = 1..n /\ <<f, g>> \in Edges
        /\ discovery[g] # Unvisited /\ dfs_stack # <<>>
    <2>1. DOMAIN dfs_stack = 1..n
      BY <1>1, <1>4 DEF PathIsActive
    <2> QED
      BY <1>1, <1>3, <1>4, <1>5, <1>6, <2>1, AdvancedTakes
  <1>8. /\ Active' = Active /\ Done' = Done /\ Active \subseteq Callables
        /\ \A x \in Active : discovery[x] \in Nat /\ low_link[x] \in Nat
        /\ f \in Active /\ f \in Callables /\ \A k \in 1..n : Frame(k) \in Active
    <2>1. \A k \in 1..n : Frame(k) \in Active
      BY <1>1, <1>7 DEF PathIsActive
    <2>2. Active' = Active /\ Done' = Done
      BY <1>2, <1>3 DEF Active, Done
    <2> QED
      BY <1>1, <1>6, <1>7, <2>1, <2>2, IndexesFit DEF Values
  <1>9. /\ g \in Active <=> discovery[g] # Assigned
        /\ <<f, g>> \in Reach
    BY <1>1, <1>7, IndexesFit, ReachIsTransitive DEF Done
  <1>10. /\ low_link' \in [Callables -> Nat]
         /\ \A x \in Active : low_link'[x] <= low_link[x] /\ low_link'[x] \in Nat
         /\ \A x \in Active : x # f => low_link'[x] = low_link[x]
         /\ g \in Active => low_link'[f] <= discovery[g]
         /\ low_link'[f] # low_link[f] => g \in Active /\ low_link'[f] = discovery[g]
    <2> DEFINE low == IF discovery[g] = Assigned THEN low_link[f]
                      ELSE Min({low_link[f], discovery[g]})
    <2>1. low_link' = [low_link EXCEPT ![f] = low]
      BY <1>3, <1>4, <1>5, <1>6 DEF Close, Last, Frame
    <2>2. CASE g \notin Active
      <3>1. low = low_link[f]
        BY <1>9, <2>2
      <3> HIDE DEF low
      <3> QED
        BY <1>1, <1>8, <2>1, <2>2, <3>1 DEF Values
    <2>3. CASE g \in Active
      <3>1. low = IF low_link[f] <= discovery[g] THEN low_link[f] ELSE discovery[g]
        BY <1>8, <1>9, <2>3, MinOfTwo
      <3> HIDE DEF low
      <3>2. low_link \in [Callables -> Nat] /\ low \in Nat
        BY <1>1, <1>8, <2>3, <3>1 DEF Values
      <3> QED
        BY <1>8, <2>1, <2>3, <3>1, <3>2
    <2> QED
      BY <2>2, <2>3
  <1>11. /\ dfs_stack' \in Seq(Callables \X Nat) /\ Len(dfs_stack') = n /\ DOMAIN dfs_stack' = 1..n
         /\ dfs_stack' # <<>>
         /\ \A k \in 1..n : Frame(k)' = Frame(k) /\ Taken(k)' <= Len(Adjacency(Frame(k)))
    <2>1. dfs_stack' \in Seq(Callables \X Nat) /\ Len(dfs_stack') = n
      BY <1>3, <1>4, <1>7 DEF Takes
    <2>2. DOMAIN dfs_stack' = 1..n /\ dfs_stack' # <<>>
      BY <1>7, <2>1
    <2>3. ASSUME NEW k \in 1..n
          PROVE  Frame(k)' = Frame(k) /\ Taken(k)' <= Len(Adjacency(Frame(k)))
      <3>1. Taken(k) <= Len(Adjacency(Frame(k))) /\ Taken(k) \in Nat
        <4>1. dfs_stack \in Seq(Callables \X Nat) /\ k \in DOMAIN dfs_stack
          BY <1>1, <1>7 DEF PathIsActive
        <4>2. Taken(k) \in Nat
          BY <4>1 DEF Taken
        <4> QED
          BY <1>1, <4>1, <4>2 DEF PathIsActive
      <3>2. k < n \/ k = n
        OBVIOUS
      <3>3. Len(Adjacency(Frame(k))) \in Nat
        BY <1>1, <1>8, AdjacencyLists
      <3>4. Advanced[k][1] = Frame(k) /\ Advanced[k][2] <= Len(Adjacency(Frame(k)))
        <4>1. /\ Advanced[k][1] = Frame(k)
              /\ k < n => Advanced[k][2] = Taken(k)
              /\ k = n => Advanced[k][2] = Taken(k) + 1 /\ Taken(k) < Len(Adjacency(Frame(k)))
          BY <1>4, <1>7 DEF Takes
        <4> QED
          BY <3>1, <3>2, <3>3, <4>1
      <3> QED
        BY <1>3, <3>4 DEF Frame, Taken
    <2> QED
      BY <2>1, <2>2, <2>3
  <1>12. \A x, y : Followed(x, y)' => <<x, y>> \in Edges /\ (Followed(x, y) \/ (x = f /\ y = g))
    <2> SUFFICES ASSUME NEW x, NEW y, Followed(x, y)'
                 PROVE  <<x, y>> \in Edges /\ (Followed(x, y) \/ (x = f /\ y = g))
      OBVIOUS
    <2>1. <<x, y>> \in Edges
      BY <1>2 DEF Followed
    <2>2. \A k \in DOMAIN dfs_stack : k \in DOMAIN dfs_stack' /\ dfs_stack'[k] = Advanced[k]
      BY <1>3, <1>7, <1>11
    <2>3. Followed(x, y) \/ (dfs_stack # <<>> /\ x = Frame(Len(dfs_stack)) /\ y = g)
      BY <1>1, <1>7, <2>2, FollowsOneMore
    <2> QED
      BY <1>4, <1>6, <2>1, <2>3
  <1>13. Values'
    BY <1>1, <1>2, <1>3, <1>10 DEF Values
  <1>14. StackIsActive'
    BY <1>1, <1>2, <1>3, <1>8 DEF StackIsActive
  <1>15. PathIsActive'
    <2>1. \A k \in 1..n : Frame(k)' \in Active' /\ Taken(k)' <= Len(Adjacency(Frame(k))')
      BY <1>2, <1>8, <1>11
    <2>2. ASSUME NEW k \in 1..n, NEW l \in 1..n, k < l
          PROVE  discovery'[Frame(k)'] < discovery'[Frame(l)']
      <3>1. discovery[Frame(k)] < discovery[Frame(l)]
        BY <1>1, <1>7, <2>2 DEF PathIsActive
      <3> QED
        BY <1>3, <1>11, <3>1
    <2> QED
      BY <1>2, <1>11, <2>1, <2>2 DEF PathIsActive
  <1>16. PathReaches'
    <2>1. ASSUME NEW k \in 1..n, NEW h \in Active, discovery'[Frame(k)'] <= discovery'[h]
          PROVE  Reaches(Frame(k)', h)
      <3>1. Frame(k)' = Frame(k) /\ discovery[Frame(k)] <= discovery[h]
        BY <1>3, <1>11, <2>1
      <3>2. Reaches(Frame(k), h)
        BY <1>1, <1>7, <3>1 DEF PathReaches
      <3> QED
        BY <3>1, <3>2
    <2>2. \A h \in Active : discovery'[Frame(1)'] <= discovery'[h]
      <3>1. 1 \in 1..n
        BY <1>7
      <3>2. Frame(1)' = Frame(1)
        BY <1>11, <3>1
      <3> QED
        BY <1>1, <1>3, <3>2 DEF PathReaches
    <2> QED
      BY <1>2, <1>8, <1>11, <2>1, <2>2 DEF PathReaches, Reaches
  <1>17. EdgesAreSeen'
    <2>1. ASSUME NEW x \in Active, NEW y \in Callables, Followed(x, y)'
          PROVE  discovery[y] # Unvisited
      <3>1. Followed(x, y) => discovery[y] # Unvisited
        BY <1>1 DEF EdgesAreSeen
      <3> QED
        BY <1>7, <1>12, <2>1, <3>1
    <2>2. \A x \in Done, y \in Callables : <<x, y>> \in Edges => y \in Done
      BY <1>1 DEF EdgesAreSeen
    <2> QED
      BY <1>2, <1>3, <1>8, <2>1, <2>2 DEF EdgesAreSeen
  <1>18. LowLinksReach'
    <2>1. ASSUME NEW x \in Active
          PROVE  /\ low_link'[x] <= discovery[x]
                 /\ \E h \in Active : low_link'[x] = discovery[h] /\ Reaches(x, h)
      <3>1. low_link[x] <= discovery[x] /\ \E h \in Active : low_link[x] = discovery[h] /\ Reaches(x, h)
        BY <1>1 DEF LowLinksReach
      <3>2. low_link'[x] <= discovery[x]
        BY <1>8, <1>10, <3>1
      <3>3. CASE low_link'[x] = low_link[x]
        BY <3>1, <3>2, <3>3
      <3>4. CASE low_link'[x] # low_link[x]
        <4>1. x = f /\ g \in Active /\ low_link'[x] = discovery[g]
          BY <1>10, <3>4
        <4>2. Reaches(x, g)
          BY <1>9, <4>1 DEF Reaches
        <4> QED
          BY <3>2, <4>1, <4>2
      <3> QED
        BY <3>3, <3>4
    <2> QED
      BY <1>2, <1>3, <1>8, <2>1 DEF LowLinksReach, Reaches
  <1>19. FinishedIsLower'
    <2>1. ASSUME NEW x \in Active, \A k \in 1..n : Frame(k)' # x
          PROVE  low_link'[x] < discovery[x]
      <3>1. \A k \in DOMAIN dfs_stack : Frame(k) # x
        BY <1>7, <1>11, <2>1
      <3>2. x # f
        BY <1>6, <1>7, <3>1
      <3> QED
        BY <1>1, <1>10, <3>1, <3>2 DEF FinishedIsLower
    <2> QED
      BY <1>3, <1>8, <1>11, <2>1 DEF FinishedIsLower
  <1>20. LowLinksBound'
    <2>1. ASSUME NEW k \in 1..n, NEW x \in Territory(k)', NEW y \in Active, Followed(x, y)'
          PROVE  low_link'[Frame(k)'] <= discovery'[y]
      <3>1. /\ x \in Active /\ discovery[Frame(k)] <= discovery[x]
            /\ k < n => discovery[x] < discovery[Frame(k + 1)]
        <4>1. /\ x \in Active' /\ discovery'[Frame(k)'] <= discovery'[x]
              /\ k < n => discovery'[x] < discovery'[Frame(k + 1)']
          BY <1>11, <2>1 DEF Territory, Frame
        <4>2. k < n => k + 1 \in 1..n
          OBVIOUS
        <4>3. k < n => Frame(k + 1)' = Frame(k + 1)
          BY <1>11, <4>2
        <4> QED
          BY <1>3, <1>8, <1>11, <4>1, <4>3
      <3>2. Frame(k)' = Frame(k) /\ Frame(k) \in Active /\ low_link'[Frame(k)] <= low_link[Frame(k)]
        BY <1>8, <1>10, <1>11
      <3>3. CASE Followed(x, y)
        <4>1. x \in Territory(k)
          BY <1>4, <3>1 DEF Territory
        <4>2. low_link[Frame(k)] <= discovery[y]
          BY <1>1, <1>7, <3>3, <4>1 DEF LowLinksBound
        <4> QED
          BY <1>3, <1>8, <1>10, <3>2, <4>2
      <3>4. CASE x = f /\ y = g
        <4>1. k = n
          <5> SUFFICES ASSUME k # n PROVE FALSE
            OBVIOUS
          <5>1. k < n /\ k + 1 \in 1..n /\ (k + 1 = n \/ k + 1 < n)
            OBVIOUS
          <5>2. k + 1 < n => discovery[Frame(k + 1)] < discovery[Frame(n)]
            BY <1>1, <1>7, <5>1 DEF PathIsActive
          <5>3. discovery[f] < discovery[Frame(k + 1)] /\ Frame(k + 1) \in Active
            BY <1>8, <3>1, <3>4, <5>1
          <5> QED
            BY <1>6, <1>8, <5>1, <5>2, <5>3
        <4> QED
          BY <1>3, <1>6, <1>10, <2>1, <3>2, <3>4, <4>1
      <3> QED
        BY <1>12, <2>1, <3>3, <3>4
    <2> QED
      BY <1>8, <1>11, <2>1 DEF LowLinksBound
  <1>21. ComponentsAreClasses' /\ ResultIsExact'
    <2>1. ComponentsAreClasses'
      BY <1>1, <1>2, <1>3, <1>8 DEF ComponentsAreClasses
    <2>2. ResultIsExact'
      BY <1>1, <1>3 DEF ResultIsExact
    <2> QED
      BY <2>1, <2>2
  <1> QED
    BY <1>13, <1>14, <1>15, <1>16, <1>17, <1>18, <1>19, <1>20, <1>21 DEF SearchInv

-------------------------------------------------------------------------------
(* A function that is finished *)

\* f is the function of the last of n frames, and has no successor left.
IsFinishing(n, f) ==
    /\ n \in Nat /\ n = Len(dfs_stack) /\ n # 0 /\ f = Frame(n) /\ ~Unfinished

(* Such a function is active, later than the other frames, and the search  *)
(* has followed all its edges.                                             *)
LEMMA FinishingFacts ==
    ASSUME SearchInv, NEW n, NEW f, IsFinishing(n, f)
    PROVE  /\ DOMAIN dfs_stack = 1..n /\ n \in 1..n
           /\ f \in Active /\ f \in Callables
           /\ \A k \in 1..n : Frame(k) \in Active
           /\ \A k \in 1..(n - 1) : discovery[Frame(k)] < discovery[f] /\ k \in 1..n
           /\ \A y : <<f, y>> \in Edges => Followed(f, y)
  <1>1. Values /\ PathIsActive
    BY DEF SearchInv
  <1>2. n \in Nat /\ n = Len(dfs_stack) /\ n # 0 /\ f = Frame(n) /\ n \in 1..n
    BY DEF IsFinishing
  <1>3. DOMAIN dfs_stack = 1..n /\ dfs_stack \in Seq(Callables \X Nat) /\ dfs_stack # <<>>
    BY <1>1, <1>2 DEF PathIsActive
  <1>4. \A k \in 1..n : Frame(k) \in Active
    BY <1>1, <1>3 DEF PathIsActive
  <1>5. f \in Active /\ f \in Callables
    BY <1>1, <1>2, <1>4, IndexesFit
  <1>6. \A k \in 1..(n - 1) : discovery[Frame(k)] < discovery[f] /\ k \in 1..n
    <2> SUFFICES ASSUME NEW k \in 1..(n - 1)
                 PROVE  discovery[Frame(k)] < discovery[f] /\ k \in 1..n
      OBVIOUS
    <2>1. k \in 1..n /\ k < n
      BY <1>2
    <2>2. discovery[Frame(k)] < discovery[Frame(n)]
      BY <1>1, <1>2, <1>3, <2>1 DEF PathIsActive
    <2> QED
      BY <1>2, <2>1, <2>2
  <1>7. ASSUME NEW k \in 1..n, Frame(k) = f
        PROVE  k = n
    <2>1. k # n => k \in 1..(n - 1)
      BY <1>2
    <2>2. discovery[f] \in Nat
      BY <1>1, <1>5, IndexesFit
    <2> QED
      BY <1>6, <1>7, <2>1, <2>2
  <1>8. Taken(n) \in Nat /\ Len(Adjacency(f)) <= Taken(n)
    <2>1. Taken(n) \in Nat
      BY <1>2, <1>3 DEF Taken
    <2>2. Len(Adjacency(f)) \in Nat
      BY <1>1, <1>5, AdjacencyLists
    <2>3. ~(Taken(n) < Len(Adjacency(f)))
      BY <1>2, <1>3 DEF IsFinishing, Unfinished, Last, Frame, Taken
    <2> QED
      BY <2>1, <2>2, <2>3
  <1>9. ASSUME NEW y, <<f, y>> \in Edges
        PROVE  Followed(f, y)
    <2>1. PICK j \in DOMAIN Adjacency(f) : Adjacency(f)[j] = y
      BY <1>1, <1>5, <1>9, AdjacencyLists
    <2>2. j \in 1..Len(Adjacency(f)) /\ Len(Adjacency(f)) \in Nat
      BY <1>1, <1>5, <2>1, AdjacencyLists
    <2>3. j \in 1..Taken(n)
      BY <1>8, <2>2
    <2>4. \A k \in DOMAIN dfs_stack : Frame(k) = f => \E i \in 1..Taken(k) : Adjacency(f)[i] = y
      BY <1>3, <1>7, <2>1, <2>3
    <2> QED
      BY <1>9, <2>4 DEF Followed
  <1> QED
    BY <1>2, <1>3, <1>4, <1>5, <1>6, <1>9

\* What was discovered with f or later, and is still active.
Later(f) == {g \in Active : discovery[f] <= discovery[g]}

(* At the root of a component, what would be popped calls nothing but that *)
(* and what was popped before.                                             *)
LEMMA LaterCloses ==
    ASSUME SearchInv, NEW n, NEW f, IsFinishing(n, f), low_link[f] = discovery[f]
    PROVE  /\ \A x, y : <<x, y>> \in Edges /\ x \in Later(f) \cup Done => y \in Later(f) \cup Done
           /\ \A x, y : <<x, y>> \in Reach /\ x \in Later(f) \cup Done => y \in Later(f) \cup Done
           /\ \A x, y : <<x, y>> \in Reach /\ x \in Done => y \in Done
  <1>1. Values /\ EdgesAreSeen /\ FinishedIsLower /\ LowLinksBound
    BY DEF SearchInv
  <1>2. /\ DOMAIN dfs_stack = 1..n /\ n \in 1..n /\ f \in Active /\ f \in Callables
        /\ \A k \in 1..(n - 1) : discovery[Frame(k)] < discovery[f]
        /\ \A y : <<f, y>> \in Edges => Followed(f, y)
    BY FinishingFacts
  <1>3. n = Len(dfs_stack) /\ f = Frame(n) /\ n \in Nat
    BY DEF IsFinishing
  <1>4. \A x \in Active : x \in Callables /\ discovery[x] \in Nat
    BY <1>1, IndexesFit
  <1>5. Edges \in SUBSET (Callables \X Callables)
    BY <1>1, GraphIsFinite
  <1>6. ASSUME NEW x, NEW y, <<x, y>> \in Edges, x \in Later(f)
        PROVE  y \in Later(f) \cup Done
    <2>1. x \in Active /\ discovery[f] <= discovery[x] /\ y \in Callables
      BY <1>5, <1>6 DEF Later
    <2>2. Followed(x, y)
      <3>1. CASE x = f
        BY <1>2, <1>6, <3>1
      <3>2. CASE x # f
        <4>1. ASSUME NEW k \in 1..n PROVE Frame(k) # x
          <5>1. k = n \/ k \in 1..(n - 1)
            BY <1>3
          <5>2. k \in 1..(n - 1) => discovery[Frame(k)] < discovery[f]
            BY <1>2
          <5>3. ~(discovery[x] < discovery[f])
            BY <1>2, <1>4, <2>1
          <5> QED
            BY <1>3, <3>2, <5>1, <5>2, <5>3
        <4> QED
          BY <1>2, <1>6, <4>1 DEF Followed
      <3> QED
        BY <3>1, <3>2
    <2>3. discovery[y] # Unvisited
      BY <1>1, <2>1, <2>2 DEF EdgesAreSeen
    <2>4. CASE y \in Active
      <3>1. x \in Territory(n)
        BY <1>3, <2>1 DEF Territory
      <3>2. low_link[f] <= discovery[y]
        BY <1>1, <1>2, <1>3, <2>2, <2>4, <3>1 DEF LowLinksBound
      <3> QED
        BY <2>4, <3>2 DEF Later
    <2> QED
      BY <1>1, <2>1, <2>3, <2>4, IndexesFit
  <1>7. \A x, y : <<x, y>> \in Edges /\ x \in Done => y \in Done
    BY <1>1, <1>5 DEF EdgesAreSeen
  <1>8. \A x, y : <<x, y>> \in Edges /\ x \in Later(f) \cup Done => y \in Later(f) \cup Done
    BY <1>6, <1>7
  <1>9. Later(f) \cup Done \in SUBSET Callables /\ Done \in SUBSET Callables
    BY <1>4 DEF Later, Done
  <1> QED
    BY <1>1, <1>7, <1>8, <1>9, ReachIsTransitive

(* What is popped at a root is the class of the root: a function of it     *)
(* that did not reach the root would have a low link below the class.      *)
LEMMA PoppedIsClass ==
    ASSUME SearchInv, NEW n, NEW f, IsFinishing(n, f), low_link[f] = discovery[f]
    PROVE  Later(f) = Class(f)
  <1>1. Values /\ PathReaches /\ LowLinksReach /\ FinishedIsLower
    BY DEF SearchInv
  <1>2. /\ DOMAIN dfs_stack = 1..n /\ n \in 1..n /\ f \in Active /\ f \in Callables
        /\ \A k \in 1..(n - 1) : discovery[Frame(k)] < discovery[f]
    BY FinishingFacts
  <1>3. n = Len(dfs_stack) /\ f = Frame(n) /\ n \in Nat
    BY DEF IsFinishing
  <1>4. \A x \in Active : x \in Callables /\ discovery[x] \in Nat /\ x \notin Done
    BY <1>1, IndexesFit
  <1>5. \A x \in Later(f) : x = f \/ <<f, x>> \in Reach
    BY <1>1, <1>2, <1>3 DEF PathReaches, Reaches, Later
  <1> DEFINE Lost == {i \in Nat : \E x \in Later(f) : discovery[x] = i /\ ~Reaches(x, f)}
  <1>6. Lost = {}
    <2> SUFFICES ASSUME Lost # {} PROVE FALSE
      OBVIOUS
    <2>1. PICK i \in Lost : \A j \in Lost : i <= j
      <3>1. Lost \in SUBSET Nat
        OBVIOUS
      <3> HIDE DEF Lost
      <3> QED
        BY <3>1, LeastOfNaturals
    <2>2. PICK x \in Later(f) : discovery[x] = i /\ ~Reaches(x, f)
      BY <2>1
    <2>3. x \in Active /\ discovery[f] <= discovery[x] /\ x # f
      BY <2>2 DEF Later, Reaches
    <2>4. ASSUME NEW k \in 1..n PROVE Frame(k) # x
      <3>1. k = n \/ k \in 1..(n - 1)
        BY <1>3
      <3>2. k \in 1..(n - 1) => discovery[Frame(k)] < discovery[f]
        BY <1>2
      <3>3. ~(discovery[x] < discovery[f])
        BY <1>2, <1>4, <2>3
      <3> QED
        BY <1>3, <2>3, <3>1, <3>2, <3>3
    <2>5. low_link[x] < discovery[x]
      BY <1>1, <1>2, <2>3, <2>4 DEF FinishedIsLower
    <2>6. PICK g \in Active : low_link[x] = discovery[g] /\ Reaches(x, g)
      BY <1>1, <2>3 DEF LowLinksReach
    <2>7. g # x /\ <<x, g>> \in Reach
      BY <1>4, <2>3, <2>5, <2>6 DEF Reaches
    <2>8. g \in Later(f)
      BY <1>4, <2>2, <2>6, <2>7, LaterCloses
    <2>9. discovery[g] \in Nat /\ discovery[g] < i
      BY <1>4, <2>2, <2>5, <2>6
    <2>10. discovery[g] \notin Lost
      <3>1. i \in Nat
        BY <2>1
      <3> HIDE DEF Lost
      <3> QED
        BY <2>1, <2>9, <3>1
    <2>11. Reaches(g, f)
      BY <2>8, <2>9, <2>10
    <2> QED
      BY <1>1, <2>2, <2>7, <2>11, ReachIsTransitive DEF Reaches
  <1>7. \A x \in Later(f) : x = f \/ <<x, f>> \in Reach
    <2>1. \A x \in Later(f) : discovery[x] \in Nat
      BY <1>4 DEF Later
    <2> QED
      BY <1>6, <2>1 DEF Reaches
  <1>8. Later(f) \subseteq Class(f)
    <2>1. \A x \in Later(f) : x \in Callables
      BY <1>4 DEF Later
    <2> QED
      BY <1>5, <1>7, <2>1 DEF Class
  <1>9. ASSUME NEW x \in Class(f)
        PROVE  x \in Later(f)
    <2>1. f \in Later(f)
      BY <1>2, <1>4 DEF Later
    <2>2. CASE x = f
      BY <2>1, <2>2
    <2>3. CASE x # f
      <3>1. <<f, x>> \in Reach /\ <<x, f>> \in Reach
        BY <2>3 DEF Class
      <3>2. x \in Later(f) \cup Done
        BY <2>1, <3>1, LaterCloses
      <3>3. x \notin Done
        BY <1>2, <1>4, <3>1, LaterCloses
      <3> QED
        BY <3>2, <3>3
    <2> QED
      BY <2>2, <2>3
  <1> QED
    BY <1>8, <1>9

(* Taking the last frame off leaves the others, and follows nothing more.  *)
LEMMA FrontFollows ==
    ASSUME SearchInv, NEW n, NEW f, IsFinishing(n, f), program' = program,
           dfs_stack' = Front(dfs_stack)
    PROVE  /\ dfs_stack' \in Seq(Callables \X Nat) /\ DOMAIN dfs_stack' = 1..(n - 1)
           /\ Len(dfs_stack') = n - 1 /\ (n # 1 => dfs_stack' # <<>>)
           /\ \A k \in 1..(n - 1) : Frame(k)' = Frame(k) /\ Taken(k)' = Taken(k)
           /\ \A x, y : Followed(x, y)' => Followed(x, y)
  <1>1. /\ n \in Nat /\ n # 0 /\ DOMAIN dfs_stack = 1..n /\ Len(dfs_stack) = n
        /\ dfs_stack \in Seq(Callables \X Nat)
        /\ f = Frame(n) /\ \A y : <<f, y>> \in Edges => Followed(f, y)
    BY FinishingFacts DEF IsFinishing, SearchInv, PathIsActive
  <1>2. /\ dfs_stack' \in Seq(Callables \X Nat) /\ Len(dfs_stack') = n - 1
        /\ \A k \in 1..(n - 1) : dfs_stack'[k] = dfs_stack[k]
    BY <1>1 DEF Front
  <1>3. DOMAIN dfs_stack' = 1..(n - 1) /\ (n # 1 => dfs_stack' # <<>>)
    BY <1>1, <1>2
  <1>4. \A k \in 1..(n - 1) : Frame(k)' = Frame(k) /\ Taken(k)' = Taken(k)
    BY <1>2 DEF Frame, Taken
  <1>5. ASSUME NEW x, NEW y, Followed(x, y)'
        PROVE  Followed(x, y)
    <2>1. <<x, y>> \in Edges
      BY <1>5, GraphStays DEF Followed
    <2>2. CASE x = f
      BY <1>1, <2>1, <2>2
    <2>3. CASE x # f
      <3>1. ASSUME NEW k \in 1..n, Frame(k) = x
            PROVE  \E j \in 1..Taken(k) : Adjacency(x)[j] = y
        <4>1. k \in 1..(n - 1)
          BY <1>1, <2>3, <3>1
        <4>2. Frame(k)' = x /\ Taken(k)' = Taken(k) /\ k \in DOMAIN dfs_stack'
          BY <1>3, <1>4, <3>1, <4>1
        <4>3. \E j \in 1..Taken(k)' : Adjacency(x)'[j] = y
          BY <1>5, <4>2 DEF Followed
        <4> QED
          BY <4>2, <4>3, GraphStays
      <3> QED
        BY <1>1, <2>1, <3>1 DEF Followed
    <2> QED
      BY <2>2, <2>3
  <1> QED
    BY <1>2, <1>3, <1>4, <1>5

(* A root is popped with what was found after it: a whole component.       *)
LEMMA FinishRoot ==
    ASSUME SearchInv, program' = program, Finish, NEW n, NEW f, IsFinishing(n, f),
           low_link[f] = discovery[f]
    PROVE  SearchInv'
  <1>1. /\ Values /\ StackIsActive /\ PathIsActive /\ PathReaches /\ EdgesAreSeen
        /\ LowLinksReach /\ FinishedIsLower /\ LowLinksBound
        /\ ComponentsAreClasses /\ ResultIsExact
    BY DEF SearchInv
  <1>2. /\ Callables' = Callables /\ Edges' = Edges /\ Reach' = Reach
        /\ \A h : Adjacency(h)' = Adjacency(h) /\ Class(h)' = Class(h)
        /\ Assigned' = Assigned /\ Unvisited' = Unvisited
    BY GraphStays DEF Assigned, Unvisited
  <1>3. /\ n \in Nat /\ n # 0 /\ n = Len(dfs_stack) /\ f = Frame(n)
        /\ DOMAIN dfs_stack = 1..n /\ n \in 1..n
        /\ f \in Active /\ f \in Callables /\ \A k \in 1..n : Frame(k) \in Active
        /\ \A k \in 1..(n - 1) : discovery[Frame(k)] < discovery[f] /\ k \in 1..n
    BY FinishingFacts DEF IsFinishing
  <1>4. PICK P : P = Later(f)
    OBVIOUS
  <1>5. /\ P = PoppedTo(f) /\ P = Class(f) /\ f \in P /\ P \subseteq Active
        /\ \A g \in Active : g \in P <=> discovery[f] <= discovery[g]
    <2>1. PoppedTo(f) = {g \in Active : discovery[f] <= discovery[g]}
      BY <1>1, <1>3, PoppedIsLater
    <2>2. discovery[f] \in Nat
      BY <1>1, <1>3, IndexesFit
    <2> QED
      BY <1>3, <1>4, <2>1, <2>2, PoppedIsClass DEF Later
  <1>6. /\ dfs_stack' = Front(dfs_stack)
        /\ discovery' = [g \in Callables |-> IF g \in P THEN Assigned ELSE discovery[g]]
        /\ active_nodes' = SubSeq(active_nodes, 1, Len(active_nodes) - Cardinality(P))
        /\ component_nodes' = component_nodes \cup {P}
        /\ low_link' = Propagated(Front(dfs_stack), f)
        /\ next_index' = next_index /\ call_graph' = call_graph
    BY <1>3, <1>5 DEF Finish, Last, Frame
  <1>7. /\ \A g \in Active : g \in Callables /\ discovery[g] \in Nat /\ low_link[g] \in Nat
        /\ next_index \in Nat /\ Assigned \in Nat /\ Unvisited = Assigned + 1
        /\ \A g \in Active : discovery[g] < Assigned
    BY <1>1, IndexesFit DEF Values, Active
  <1>8. /\ Active' = {g \in Active : discovery[g] < discovery[f]} /\ Done' = Done \cup P
        /\ \A g \in Active' : discovery'[g] = discovery[g]
    <2>1. \A g \in Callables : discovery'[g] = IF g \in P THEN Assigned ELSE discovery[g]
      BY <1>6
    <2>2. \A g \in Active : g \notin P <=> discovery[g] < discovery[f]
      BY <1>3, <1>5, <1>7
    <2>3. \A g : g \in Active' <=> g \in Callables /\ discovery'[g] < Assigned
      BY <1>2 DEF Active
    <2>4. \A g : g \in Active <=> g \in Callables /\ discovery[g] < Assigned
      BY DEF Active
    <2>5. \A g : g \in Active' <=> g \in Active /\ g \notin P
      BY <1>5, <1>7, <2>1, <2>3, <2>4
    <2>6. Active' = {g \in Active : discovery[g] < discovery[f]}
      BY <2>2, <2>5
    <2>7. \A g : g \in Done' <=> g \in Callables /\ discovery'[g] = Assigned
      BY <1>2 DEF Done
    <2>8. \A g : g \in Done <=> g \in Callables /\ discovery[g] = Assigned
      BY DEF Done
    <2>9. Done' = Done \cup P
      BY <1>5, <1>7, <2>1, <2>7, <2>8
    <2> QED
      BY <1>7, <2>1, <2>5, <2>6, <2>9
  <1>9. /\ dfs_stack' \in Seq(Callables \X Nat) /\ DOMAIN dfs_stack' = 1..(n - 1)
        /\ Len(dfs_stack') = n - 1 /\ (n # 1 => dfs_stack' # <<>>)
        /\ \A k \in 1..(n - 1) : Frame(k)' = Frame(k) /\ Taken(k)' = Taken(k)
        /\ \A x, y : Followed(x, y)' => Followed(x, y)
    BY <1>6, FrontFollows
  <1>10. \A k \in 1..(n - 1) : Frame(k) \in Active' /\ discovery'[Frame(k)] = discovery[Frame(k)]
    BY <1>3, <1>8
  <1>11. low_link' = low_link
    <2>1. CASE Front(dfs_stack) = <<>>
      BY <1>6, <2>1 DEF Propagated
    <2>2. CASE Front(dfs_stack) # <<>>
      <3>1. PICK g : g = Last(Front(dfs_stack))[1]
        OBVIOUS
      <3>2. n - 1 \in 1..(n - 1)
        <4>1. dfs_stack' # <<>> /\ dfs_stack' \in Seq(Callables \X Nat) /\ Len(dfs_stack') = n - 1
          BY <1>6, <1>9, <2>2
        <4>2. n - 1 # 0
          BY <4>1
        <4> QED
          BY <1>3, <4>2
      <3>3. g = Frame(n - 1)
        BY <1>6, <1>9, <3>1, <3>2 DEF Last, Frame
      <3>4. g \in Active /\ discovery[g] < discovery[f] /\ low_link[g] <= discovery[g]
        BY <1>1, <1>3, <3>2, <3>3 DEF LowLinksReach
      <3>5. Min({low_link[g], low_link[f]}) = low_link[g]
        <4>1. low_link[g] \in Nat /\ low_link[f] \in Nat /\ discovery[g] \in Nat /\ discovery[f] \in Nat
          BY <1>3, <1>7, <3>4
        <4>2. low_link[g] <= low_link[f]
          BY <3>4, <4>1
        <4> QED
          BY <4>1, <4>2, MinOfTwo
      <3>6. low_link' = [low_link EXCEPT ![g] = Min({low_link[g], low_link[f]})]
        BY <1>6, <2>2, <3>1 DEF Propagated
      <3>7. low_link \in [Callables -> Nat]
        BY <1>1 DEF Values
      <3> QED
        BY <3>5, <3>6, <3>7
    <2> QED
      BY <2>1, <2>2
  <1>12. Values'
    <2>1. {g \in Callables' : discovery'[g] # Unvisited'} = {g \in Callables : discovery[g] # Unvisited}
      <3>1. \A g \in Callables : discovery'[g] = IF g \in P THEN Assigned ELSE discovery[g]
        BY <1>6
      <3>2. \A g \in P : discovery[g] # Unvisited
        BY <1>5, <1>7
      <3> QED
        BY <1>2, <1>7, <3>1, <3>2
    <2>2. discovery' \in [Callables -> 0..(next_index - 1) \cup {Assigned, Unvisited}]
      BY <1>1, <1>6 DEF Values
    <2> QED
      BY <1>1, <1>2, <1>6, <1>11, <2>1, <2>2 DEF Values
  <1>13. StackIsActive'
    <2>1. PICK q \in Seq(Callables) :
              /\ q = SubSeq(active_nodes, 1, Len(active_nodes) - Cardinality(PoppedTo(f)))
              /\ \A i \in DOMAIN q : i \in DOMAIN active_nodes /\ q[i] = active_nodes[i]
              /\ \A i \in DOMAIN active_nodes :
                    i \in DOMAIN q <=> discovery[active_nodes[i]] < discovery[f]
      BY <1>1, <1>3, PoppedIsLater
    <2>2. active_nodes' = q
      BY <1>5, <1>6, <2>1
    <2>3. \A i \in DOMAIN active_nodes : active_nodes[i] \in Callables /\ active_nodes[i] \in Active
      BY <1>1 DEF StackIsActive
    <2>4. \A g \in Callables : g \in Active' <=> \E i \in DOMAIN q : q[i] = g
      <3> SUFFICES ASSUME NEW g \in Callables
                   PROVE  g \in Active' <=> \E i \in DOMAIN q : q[i] = g
        OBVIOUS
      <3>1. g \in Active <=> \E i \in DOMAIN active_nodes : active_nodes[i] = g
        BY <1>1 DEF StackIsActive
      <3>2. g \in Active' <=> g \in Active /\ discovery[g] < discovery[f]
        BY <1>8
      <3> QED
        BY <2>1, <3>1, <3>2
    <2>5. ASSUME NEW i \in DOMAIN q, NEW j \in DOMAIN q, i < j
          PROVE  discovery'[q[i]] < discovery'[q[j]]
      <3>1. q[i] \in Active' /\ q[j] \in Active'
        BY <2>1, <2>3, <2>4
      <3>2. discovery[active_nodes[i]] < discovery[active_nodes[j]]
        BY <1>1, <2>1, <2>5 DEF StackIsActive
      <3> QED
        BY <1>8, <2>1, <3>1, <3>2
    <2> QED
      BY <1>2, <2>2, <2>4, <2>5 DEF StackIsActive
  <1>14. PathIsActive'
    <2>1. \A k \in 1..(n - 1) : Frame(k)' \in Active' /\ Taken(k)' <= Len(Adjacency(Frame(k))')
      <3> SUFFICES ASSUME NEW k \in 1..(n - 1)
                   PROVE  Frame(k)' \in Active' /\ Taken(k)' <= Len(Adjacency(Frame(k))')
        OBVIOUS
      <3>1. Taken(k) <= Len(Adjacency(Frame(k)))
        BY <1>1, <1>3 DEF PathIsActive
      <3> QED
        BY <1>2, <1>9, <1>10, <3>1
    <2>2. ASSUME NEW k \in 1..(n - 1), NEW l \in 1..(n - 1), k < l
          PROVE  discovery'[Frame(k)'] < discovery'[Frame(l)']
      <3>1. discovery[Frame(k)] < discovery[Frame(l)]
        BY <1>1, <1>3, <2>2 DEF PathIsActive
      <3> QED
        BY <1>9, <1>10, <3>1
    <2> QED
      BY <1>2, <1>9, <2>1, <2>2 DEF PathIsActive
  <1>15. PathReaches'
    <2>1. ASSUME NEW k \in 1..(n - 1), NEW h \in Active', discovery'[Frame(k)'] <= discovery'[h]
          PROVE  Reaches(Frame(k)', h)
      <3>1. Frame(k)' = Frame(k) /\ discovery[Frame(k)] <= discovery[h] /\ h \in Active
        BY <1>8, <1>9, <1>10, <2>1
      <3>2. Reaches(Frame(k), h)
        BY <1>1, <1>3, <3>1 DEF PathReaches
      <3> QED
        BY <3>1, <3>2
    <2>2. ASSUME NEW h \in Active'
          PROVE  dfs_stack' # <<>> /\ discovery'[Frame(1)'] <= discovery'[h]
      <3>1. h \in Active /\ discovery[h] < discovery[f] /\ discovery[Frame(1)] <= discovery[h]
        BY <1>1, <1>8 DEF PathReaches
      <3>2. n # 1
        <4>1. discovery[f] \in Nat /\ discovery[h] \in Nat
          BY <1>3, <1>7, <3>1
        <4> QED
          BY <1>3, <3>1, <4>1
      <3>3. 1 \in 1..(n - 1)
        BY <1>3, <3>2
      <3> QED
        BY <1>8, <1>9, <1>10, <3>1, <3>2, <3>3
    <2> QED
      BY <1>2, <1>9, <2>1, <2>2 DEF PathReaches, Reaches
  <1>16. EdgesAreSeen'
    <2>1. ASSUME NEW x \in Active', NEW y \in Callables, Followed(x, y)'
          PROVE  discovery'[y] # Unvisited
      <3>1. discovery[y] # Unvisited
        BY <1>1, <1>8, <1>9, <2>1 DEF EdgesAreSeen
      <3> QED
        BY <1>6, <1>7, <3>1
    <2>2. \A x \in Done', y \in Callables : <<x, y>> \in Edges => y \in Done'
      BY <1>4, <1>8, LaterCloses
    <2> QED
      BY <1>2, <2>1, <2>2 DEF EdgesAreSeen
  <1>17. LowLinksReach'
    <2>1. ASSUME NEW x \in Active'
          PROVE  /\ low_link'[x] <= discovery'[x]
                 /\ \E h \in Active' : low_link'[x] = discovery'[h] /\ Reaches(x, h)
      <3>1. x \in Active /\ discovery[x] < discovery[f] /\ low_link[x] <= discovery[x]
        BY <1>1, <1>8 DEF LowLinksReach
      <3>2. PICK h \in Active : low_link[x] = discovery[h] /\ Reaches(x, h)
        BY <1>1, <3>1 DEF LowLinksReach
      <3>3. h \in Active'
        BY <1>3, <1>7, <1>8, <3>1, <3>2
      <3> QED
        BY <1>8, <1>11, <3>1, <3>2, <3>3
    <2> QED
      BY <1>2, <2>1 DEF LowLinksReach, Reaches
  <1>18. FinishedIsLower'
    <2>1. ASSUME NEW x \in Active', \A k \in 1..(n - 1) : Frame(k)' # x
          PROVE  low_link'[x] < discovery'[x]
      <3>1. x \in Active /\ x # f
        BY <1>3, <1>7, <1>8
      <3>2. \A k \in DOMAIN dfs_stack : Frame(k) # x
        <4> SUFFICES ASSUME NEW k \in 1..n PROVE Frame(k) # x
          BY <1>3
        <4>1. k = n \/ k \in 1..(n - 1)
          BY <1>3
        <4> QED
          BY <1>3, <1>9, <2>1, <3>1, <4>1
      <3> QED
        BY <1>1, <1>8, <1>11, <3>1, <3>2 DEF FinishedIsLower
    <2> QED
      BY <1>9, <2>1 DEF FinishedIsLower
  <1>19. LowLinksBound'
    <2>1. ASSUME NEW k \in 1..(n - 1), NEW x \in Territory(k)', NEW y \in Active', Followed(x, y)'
          PROVE  low_link'[Frame(k)'] <= discovery'[y]
      <3>1. /\ x \in Active' /\ discovery'[Frame(k)'] <= discovery'[x]
            /\ k < n - 1 => discovery'[x] < discovery'[Frame(k + 1)']
        BY <1>9, <2>1 DEF Territory, Frame
      <3>2. /\ x \in Active /\ y \in Active /\ discovery[Frame(k)] <= discovery[x]
            /\ discovery[x] < discovery[f] /\ Followed(x, y)
        BY <1>8, <1>9, <1>10, <2>1, <3>1
      <3>3. discovery[x] < discovery[Frame(k + 1)]
        <4>1. k + 1 = n \/ (k < n - 1 /\ k + 1 \in 1..(n - 1))
          BY <1>3
        <4>2. k + 1 \in 1..(n - 1) =>
                  Frame(k + 1)' = Frame(k + 1) /\ discovery'[Frame(k + 1)] = discovery[Frame(k + 1)]
          BY <1>9, <1>10
        <4> QED
          BY <1>3, <1>8, <3>1, <3>2, <4>1, <4>2
      <3>4. x \in Territory(k)
        BY <3>2, <3>3 DEF Territory
      <3>5. low_link[Frame(k)] <= discovery[y]
        BY <1>1, <1>3, <3>2, <3>4 DEF LowLinksBound
      <3> QED
        BY <1>8, <1>9, <1>11, <3>5
    <2> QED
      BY <1>9, <2>1 DEF LowLinksBound
  <1>20. ComponentsAreClasses' /\ ResultIsExact'
    <2>1. \A c \in component_nodes' : \E g \in Callables : c = Class(g)
      BY <1>1, <1>3, <1>5, <1>6 DEF ComponentsAreClasses
    <2>2. \A g \in Callables : g \in Done' <=> \E c \in component_nodes' : g \in c
      BY <1>1, <1>6, <1>8 DEF ComponentsAreClasses
    <2>3. ComponentsAreClasses'
      BY <1>2, <2>1, <2>2 DEF ComponentsAreClasses
    <2>4. ResultIsExact'
      BY <1>1, <1>6 DEF ResultIsExact
    <2> QED
      BY <2>3, <2>4
  <1> QED
    BY <1>12, <1>13, <1>14, <1>15, <1>16, <1>17, <1>18, <1>19, <1>20 DEF SearchInv

(* A function that is no root stays active, and hands its low link on to   *)
(* the frame below, which reaches it.                                      *)
LEMMA FinishMember ==
    ASSUME SearchInv, program' = program, Finish, NEW n, NEW f, IsFinishing(n, f),
           low_link[f] # discovery[f]
    PROVE  SearchInv'
  <1>1. /\ Values /\ StackIsActive /\ PathIsActive /\ PathReaches /\ EdgesAreSeen
        /\ LowLinksReach /\ FinishedIsLower /\ LowLinksBound
        /\ ComponentsAreClasses /\ ResultIsExact
    BY DEF SearchInv
  <1>2. /\ Callables' = Callables /\ Edges' = Edges /\ Reach' = Reach
        /\ \A h : Adjacency(h)' = Adjacency(h) /\ Class(h)' = Class(h)
        /\ Assigned' = Assigned /\ Unvisited' = Unvisited
    BY GraphStays DEF Assigned, Unvisited
  <1>3. /\ n \in Nat /\ n # 0 /\ n = Len(dfs_stack) /\ f = Frame(n)
        /\ DOMAIN dfs_stack = 1..n /\ n \in 1..n
        /\ f \in Active /\ f \in Callables /\ \A k \in 1..n : Frame(k) \in Active
        /\ \A k \in 1..(n - 1) : discovery[Frame(k)] < discovery[f] /\ k \in 1..n
    BY FinishingFacts DEF IsFinishing
  <1>4. \A g \in Active : g \in Callables /\ discovery[g] \in Nat /\ low_link[g] \in Nat
    BY <1>1, IndexesFit DEF Values
  <1>5. /\ dfs_stack' = Front(dfs_stack) /\ discovery' = discovery
        /\ active_nodes' = active_nodes /\ component_nodes' = component_nodes
        /\ low_link' = Propagated(Front(dfs_stack), f)
        /\ next_index' = next_index /\ call_graph' = call_graph
    <2>1. f = Last(dfs_stack)[1]
      BY <1>3 DEF Last, Frame
    <2>2. /\ dfs_stack' = Front(dfs_stack)
          /\ discovery' = [g \in Callables |-> IF g \in {} THEN Assigned ELSE discovery[g]]
          /\ active_nodes' = SubSeq(active_nodes, 1, Len(active_nodes) - Cardinality({}))
          /\ component_nodes' = component_nodes
          /\ low_link' = Propagated(Front(dfs_stack), f)
          /\ next_index' = next_index /\ call_graph' = call_graph
      BY <2>1 DEF Finish
    <2>3. discovery' = discovery
      BY <1>1, <2>2 DEF Values
    <2>4. active_nodes' = active_nodes
      <3>1. Cardinality({}) = 0
        BY FS_EmptySet
      <3>2. active_nodes \in Seq(Callables)
        BY <1>1 DEF StackIsActive
      <3>3. Len(active_nodes) \in Nat /\ SubSeq(active_nodes, 1, Len(active_nodes)) = active_nodes
        BY <3>2
      <3>4. Len(active_nodes) - Cardinality({}) = Len(active_nodes)
        BY <3>1, <3>3
      <3> QED
        BY <2>2, <3>3, <3>4
    <2> QED
      BY <2>2, <2>3, <2>4
  <1>6. PICK g \in Active : low_link[f] = discovery[g] /\ Reaches(f, g)
    BY <1>1, <1>3 DEF LowLinksReach
  <1>7. discovery[g] < discovery[f] /\ low_link[f] < discovery[f] /\ n # 1 /\ n - 1 \in 1..(n - 1)
    <2>1. low_link[f] <= discovery[f] /\ discovery[Frame(1)] <= discovery[g]
      BY <1>1, <1>3, <1>6 DEF LowLinksReach, PathReaches
    <2>2. low_link[f] < discovery[f]
      BY <1>3, <1>4, <2>1
    <2>3. n # 1
      <3>1. discovery[f] \in Nat /\ discovery[g] \in Nat /\ discovery[g] < discovery[f]
        BY <1>3, <1>4, <1>6, <2>2
      <3>2. ~(discovery[f] <= discovery[g])
        BY <3>1
      <3> QED
        BY <1>3, <2>1, <3>2
    <2> QED
      BY <1>3, <1>6, <2>2, <2>3
  <1>8. PICK p : p = Frame(n - 1)
    OBVIOUS
  <1>9. p \in Active /\ p # f /\ discovery[p] < discovery[f]
    <2>1. p \in Active /\ discovery[p] < discovery[f]
      BY <1>3, <1>7, <1>8
    <2> QED
      BY <1>3, <1>4, <2>1
  <1>10. Active' = Active /\ Done' = Done
    BY <1>2, <1>5 DEF Active, Done
  <1>11. /\ dfs_stack' \in Seq(Callables \X Nat) /\ DOMAIN dfs_stack' = 1..(n - 1)
         /\ Len(dfs_stack') = n - 1 /\ dfs_stack' # <<>>
         /\ \A k \in 1..(n - 1) : Frame(k)' = Frame(k) /\ Taken(k)' = Taken(k)
         /\ \A x, y : Followed(x, y)' => Followed(x, y)
    BY <1>5, <1>7, FrontFollows
  <1>12. /\ low_link' \in [Callables -> Nat]
         /\ \A x \in Active : low_link'[x] <= low_link[x] /\ low_link'[x] \in Nat
         /\ \A x \in Active : x # p => low_link'[x] = low_link[x]
         /\ low_link'[p] <= low_link[f]
         /\ low_link'[p] # low_link[p] => low_link'[p] = low_link[f]
    <2>1. p = Last(Front(dfs_stack))[1] /\ Front(dfs_stack) # <<>>
      BY <1>5, <1>7, <1>8, <1>11 DEF Last, Frame
    <2> DEFINE low == Min({low_link[p], low_link[f]})
    <2>2. low = IF low_link[p] <= low_link[f] THEN low_link[p] ELSE low_link[f]
      BY <1>3, <1>4, <1>9, MinOfTwo
    <2>3. low_link' = [low_link EXCEPT ![p] = low]
      BY <1>5, <2>1 DEF Propagated
    <2> HIDE DEF low
    <2>4. low \in Nat /\ low <= low_link[p] /\ low <= low_link[f]
      BY <1>3, <1>4, <1>9, <2>2
    <2>5. low_link \in [Callables -> Nat] /\ p \in Callables
      BY <1>1, <1>4, <1>9 DEF Values
    <2> QED
      BY <1>4, <2>2, <2>3, <2>4, <2>5
  <1>13. Values'
    BY <1>1, <1>2, <1>5, <1>12 DEF Values
  <1>14. StackIsActive'
    BY <1>1, <1>2, <1>5, <1>10 DEF StackIsActive
  <1>15. PathIsActive'
    <2>1. \A k \in 1..(n - 1) : Frame(k)' \in Active' /\ Taken(k)' <= Len(Adjacency(Frame(k))')
      <3> SUFFICES ASSUME NEW k \in 1..(n - 1)
                   PROVE  Frame(k)' \in Active' /\ Taken(k)' <= Len(Adjacency(Frame(k))')
        OBVIOUS
      <3>1. Taken(k) <= Len(Adjacency(Frame(k)))
        BY <1>1, <1>3 DEF PathIsActive
      <3> QED
        BY <1>2, <1>3, <1>10, <1>11, <3>1
    <2>2. ASSUME NEW k \in 1..(n - 1), NEW l \in 1..(n - 1), k < l
          PROVE  discovery'[Frame(k)'] < discovery'[Frame(l)']
      <3>1. discovery[Frame(k)] < discovery[Frame(l)]
        BY <1>1, <1>3, <2>2 DEF PathIsActive
      <3> QED
        BY <1>5, <1>11, <3>1
    <2> QED
      BY <1>2, <1>11, <2>1, <2>2 DEF PathIsActive
  <1>16. PathReaches'
    <2>1. ASSUME NEW k \in 1..(n - 1), NEW h \in Active, discovery'[Frame(k)'] <= discovery'[h]
          PROVE  Reaches(Frame(k)', h)
      <3>1. Frame(k)' = Frame(k) /\ discovery[Frame(k)] <= discovery[h]
        BY <1>5, <1>11, <2>1
      <3>2. Reaches(Frame(k), h)
        BY <1>1, <1>3, <3>1 DEF PathReaches
      <3> QED
        BY <3>1, <3>2
    <2>2. \A h \in Active : discovery'[Frame(1)'] <= discovery'[h]
      <3>1. 1 \in 1..(n - 1)
        BY <1>3, <1>7
      <3>2. Frame(1)' = Frame(1)
        BY <1>11, <3>1
      <3> QED
        BY <1>1, <1>5, <3>2 DEF PathReaches
    <2> QED
      BY <1>2, <1>10, <1>11, <2>1, <2>2 DEF PathReaches, Reaches
  <1>17. EdgesAreSeen'
    <2>1. \A x \in Active, y \in Callables : Followed(x, y)' => discovery[y] # Unvisited
      BY <1>1, <1>11 DEF EdgesAreSeen
    <2>2. \A x \in Done, y \in Callables : <<x, y>> \in Edges => y \in Done
      BY <1>1 DEF EdgesAreSeen
    <2> QED
      BY <1>2, <1>5, <1>10, <2>1, <2>2 DEF EdgesAreSeen
  <1>18. LowLinksReach'
    <2>1. ASSUME NEW x \in Active
          PROVE  /\ low_link'[x] <= discovery[x]
                 /\ \E h \in Active : low_link'[x] = discovery[h] /\ Reaches(x, h)
      <3>1. low_link[x] <= discovery[x] /\ \E h \in Active : low_link[x] = discovery[h] /\ Reaches(x, h)
        BY <1>1 DEF LowLinksReach
      <3>2. low_link'[x] <= discovery[x]
        BY <1>4, <1>12, <3>1
      <3>3. CASE low_link'[x] = low_link[x]
        BY <3>1, <3>2, <3>3
      <3>4. CASE low_link'[x] # low_link[x]
        <4>1. x = p /\ low_link'[x] = discovery[g]
          BY <1>6, <1>12, <3>4
        <4>2. Reaches(p, f)
          <5>1. discovery[p] <= discovery[f] /\ n - 1 \in 1..n
            BY <1>3, <1>4, <1>7, <1>9
          <5> QED
            BY <1>1, <1>3, <1>8, <5>1 DEF PathReaches
        <4>3. Reaches(x, g)
          BY <1>1, <1>6, <4>1, <4>2, ReachIsTransitive DEF Reaches
        <4> QED
          BY <1>6, <3>2, <4>1, <4>3
      <3> QED
        BY <3>3, <3>4
    <2> QED
      BY <1>2, <1>5, <1>10, <2>1 DEF LowLinksReach, Reaches
  <1>19. FinishedIsLower'
    <2>1. ASSUME NEW x \in Active, \A k \in 1..(n - 1) : Frame(k)' # x
          PROVE  low_link'[x] < discovery[x]
      <3>1. x # p
        BY <1>7, <1>8, <1>11, <2>1
      <3>2. CASE x = f
        BY <1>7, <1>12, <3>1, <3>2
      <3>3. CASE x # f
        <4>1. \A k \in DOMAIN dfs_stack : Frame(k) # x
          <5> SUFFICES ASSUME NEW k \in 1..n PROVE Frame(k) # x
            BY <1>3
          <5>1. k = n \/ k \in 1..(n - 1)
            BY <1>3
          <5> QED
            BY <1>3, <1>11, <2>1, <3>3, <5>1
        <4> QED
          BY <1>1, <1>12, <3>1, <4>1 DEF FinishedIsLower
      <3> QED
        BY <3>2, <3>3
    <2> QED
      BY <1>5, <1>10, <1>11, <2>1 DEF FinishedIsLower
  <1>20. LowLinksBound'
    <2>1. ASSUME NEW k \in 1..(n - 1), NEW x \in Territory(k)', NEW y \in Active, Followed(x, y)'
          PROVE  low_link'[Frame(k)'] <= discovery'[y]
      <3>1. /\ x \in Active /\ discovery[Frame(k)] <= discovery[x]
            /\ k < n - 1 => discovery[x] < discovery[Frame(k + 1)]
        <4>1. /\ x \in Active' /\ discovery'[Frame(k)'] <= discovery'[x]
              /\ k < n - 1 => discovery'[x] < discovery'[Frame(k + 1)']
          BY <1>11, <2>1 DEF Territory, Frame
        <4>2. k < n - 1 => k + 1 \in 1..(n - 1)
          BY <1>3
        <4>3. k < n - 1 => Frame(k + 1)' = Frame(k + 1)
          BY <1>11, <4>2
        <4> QED
          BY <1>5, <1>10, <1>11, <4>1, <4>3
      <3>2. /\ Frame(k)' = Frame(k) /\ Frame(k) \in Active /\ Followed(x, y)
            /\ discovery[y] \in Nat /\ k \in 1..n
        BY <1>3, <1>4, <1>11, <2>1
      <3>3. low_link'[Frame(k)] <= low_link[Frame(k)] /\ low_link'[Frame(k)] \in Nat /\ low_link[Frame(k)] \in Nat
        BY <1>4, <1>12, <3>2
      <3>4. CASE discovery[x] < discovery[Frame(k + 1)]
        <4>1. x \in Territory(k)
          BY <3>1, <3>4 DEF Territory
        <4>2. low_link[Frame(k)] <= discovery[y]
          BY <1>1, <1>3, <3>2, <4>1 DEF LowLinksBound
        <4> QED
          BY <1>5, <3>2, <3>3, <4>2
      <3>5. CASE ~(discovery[x] < discovery[Frame(k + 1)])
        <4>1. k = n - 1 /\ k + 1 = n
          BY <1>3, <3>1, <3>5
        <4>2. Frame(k) = p /\ discovery[f] <= discovery[x]
          BY <1>3, <1>4, <1>8, <3>1, <3>5, <4>1
        <4>3. x \in Territory(n)
          BY <1>3, <3>1, <4>2 DEF Territory
        <4>4. low_link[f] <= discovery[y]
          BY <1>1, <1>3, <3>2, <4>3 DEF LowLinksBound
        <4>5. low_link'[p] <= low_link[f] /\ low_link[f] \in Nat
          BY <1>3, <1>4, <1>12
        <4> QED
          BY <1>5, <3>2, <3>3, <4>2, <4>4, <4>5
      <3> QED
        BY <3>4, <3>5
    <2> QED
      BY <1>10, <1>11, <2>1 DEF LowLinksBound
  <1>21. ComponentsAreClasses' /\ ResultIsExact'
    <2>1. ComponentsAreClasses'
      BY <1>1, <1>2, <1>5, <1>10 DEF ComponentsAreClasses
    <2>2. ResultIsExact'
      BY <1>1, <1>5 DEF ResultIsExact
    <2> QED
      BY <2>1, <2>2
  <1> QED
    BY <1>13, <1>14, <1>15, <1>16, <1>17, <1>18, <1>19, <1>20, <1>21 DEF SearchInv

-------------------------------------------------------------------------------
(* The decomposition *)

(* When nothing is left to visit, the components are the classes.          *)
LEMMA NumberStep ==
    ASSUME SearchInv, program' = program, Number
    PROVE  SearchInv'
  <1>1. /\ Values /\ StackIsActive /\ PathIsActive /\ PathReaches /\ EdgesAreSeen
        /\ LowLinksReach /\ FinishedIsLower /\ LowLinksBound
        /\ ComponentsAreClasses /\ ResultIsExact
    BY DEF SearchInv
  <1>2. /\ discovery' = discovery /\ low_link' = low_link /\ next_index' = next_index
        /\ active_nodes' = active_nodes /\ dfs_stack' = dfs_stack
        /\ component_nodes' = component_nodes
        /\ call_graph' = Decomposition(component_nodes, CallGraphEdges(program))
    BY DEF Number
  <1>3. \A f \in Callables : f \in Done
    <2>1. Active = {}
      BY <1>1 DEF PathReaches, Number
    <2> QED
      BY <1>1, <2>1, IndexesFit DEF Number
  <1>4. \A f, g \in Callables : g \in Class(f) => Class(f) = Class(g)
    <2> SUFFICES ASSUME NEW f \in Callables, NEW g \in Callables, g \in Class(f), f # g
                 PROVE  Class(f) = Class(g)
      OBVIOUS
    <2>1. <<f, g>> \in Reach /\ <<g, f>> \in Reach
      BY DEF Class
    <2>2. \A h : h \in Class(f) <=> h \in Callables /\ (h = f \/ (<<f, h>> \in Reach /\ <<h, f>> \in Reach))
      BY DEF Class
    <2>3. \A h : h \in Class(g) <=> h \in Callables /\ (h = g \/ (<<g, h>> \in Reach /\ <<h, g>> \in Reach))
      BY DEF Class
    <2>4. \A x, y, z : <<x, y>> \in Reach /\ <<y, z>> \in Reach => <<x, z>> \in Reach
      BY <1>1, ReachIsTransitive
    <2>5. \A h : h \in Class(f) <=> h \in Class(g)
      BY <2>1, <2>2, <2>3, <2>4
    <2>6. Class(f) \subseteq Class(g) /\ Class(g) \subseteq Class(f)
      BY <2>5
    <2> QED
      BY <2>6
  <1>5. component_nodes = {Class(f) : f \in Callables}
    <2>1. \A c \in component_nodes : c \in {Class(f) : f \in Callables}
      BY <1>1 DEF ComponentsAreClasses
    <2>2. ASSUME NEW f \in Callables
          PROVE  Class(f) \in component_nodes
      <3>1. PICK c \in component_nodes : f \in c
        BY <1>1, <1>3 DEF ComponentsAreClasses
      <3>2. PICK g \in Callables : c = Class(g)
        BY <1>1 DEF ComponentsAreClasses
      <3> QED
        BY <1>4, <3>1, <3>2
    <2> QED
      BY <2>1, <2>2
  <1>6. {Class(f) : f \in Callables} = MutuallyRecursive(program)
    BY DEF Class, MutuallyRecursive, Callables, Reach, Edges
  <1>7. call_graph' = ExactDecomposition(program)
    BY <1>2, <1>5, <1>6 DEF ExactDecomposition
  <1>8. ResultIsExact'
    BY <1>7 DEF ResultIsExact
  <1>9. /\ Callables' = Callables /\ Edges' = Edges /\ Reach' = Reach
        /\ \A h : Adjacency(h)' = Adjacency(h) /\ Class(h)' = Class(h)
        /\ Assigned' = Assigned /\ Unvisited' = Unvisited
    BY GraphStays DEF Assigned, Unvisited
  <1>10. Active' = Active /\ Done' = Done
    BY <1>2, <1>9 DEF Active, Done
  <1>11. Values' /\ StackIsActive'
    BY <1>1, <1>2, <1>9, <1>10 DEF Values, StackIsActive
  <1>12. DOMAIN dfs_stack' = {} /\ dfs_stack' = <<>> /\ Active = {}
    BY <1>1, <1>2 DEF Number, PathReaches
  <1>13. PathIsActive' /\ PathReaches' /\ LowLinksBound'
    BY <1>10, <1>12 DEF PathIsActive, PathReaches, LowLinksBound
  <1>14. EdgesAreSeen' /\ LowLinksReach' /\ FinishedIsLower'
    <2>1. EdgesAreSeen'
      BY <1>1, <1>9, <1>10, <1>12 DEF EdgesAreSeen
    <2>2. LowLinksReach' /\ FinishedIsLower'
      BY <1>10, <1>12 DEF LowLinksReach, FinishedIsLower
    <2> QED
      BY <2>1, <2>2
  <1>15. ComponentsAreClasses'
    BY <1>1, <1>2, <1>9, <1>10 DEF ComponentsAreClasses
  <1> QED
    BY <1>8, <1>11, <1>13, <1>14, <1>15 DEF SearchInv

(* Each iteration of the search preserves what is known of it.             *)
LEMMA SearchStep ==
    ASSUME SearchInv, SccNext
    PROVE  SearchInv'
  <1>1. program' = program /\ Values /\ PathIsActive
    BY DEF SccNext, SearchInv
  <1>2. CASE Start
    <2>1. PICK f \in Callables : discovery[f] = Unvisited /\ Discover(f, <<>>)
      BY <1>2 DEF Start
    <2>2. dfs_stack = <<>>
      BY <1>2 DEF Start
    <2>3. Takes(f, <<>>)
      BY <2>2 DEF Takes
    <2> QED
      BY <1>1, <2>1, <2>2, <2>3, DiscoverStep
  <1>3. CASE Descend
    <2>1. Unfinished /\ discovery[NextSuccessor] = Unvisited /\ Discover(NextSuccessor, Advanced)
      BY <1>3 DEF Descend
    <2>2. /\ Takes(NextSuccessor, Advanced) /\ NextSuccessor \in Callables
          /\ <<Frame(Len(dfs_stack)), NextSuccessor>> \in Edges
      BY <1>1, <2>1, AdvancedTakes
    <2>3. PICK f \in Callables : f = NextSuccessor
      BY <2>2
    <2>4. PICK frames : frames = Advanced
      OBVIOUS
    <2>5. /\ discovery[f] = Unvisited /\ Takes(f, frames) /\ <<Frame(Len(dfs_stack)), f>> \in Edges
          /\ Discover(f, frames)
      BY <2>1, <2>2, <2>3, <2>4 DEF Discover
    <2> QED
      BY <1>1, <2>5, DiscoverStep
  <1>4. CASE Close
    BY <1>1, <1>4, CloseStep
  <1>5. CASE Finish
    <2>1. PICK n : n = Len(dfs_stack)
      OBVIOUS
    <2>2. PICK f : f = Frame(n)
      OBVIOUS
    <2>3. IsFinishing(n, f)
      BY <1>1, <1>5, <2>1, <2>2 DEF IsFinishing, Finish, PathIsActive
    <2> QED
      BY <1>1, <1>5, <2>3, FinishRoot, FinishMember
  <1>6. CASE Number
    BY <1>1, <1>6, NumberStep
  <1> QED
    BY <1>2, <1>3, <1>4, <1>5, <1>6 DEF SccNext

(* Steps of the solver leave program and decomposition alone.              *)
LEMMA SearchRests ==
    ASSUME SearchInv, UNCHANGED <<program, sccVars>>
    PROVE  SearchInv'
  <1>1. /\ Callables' = Callables /\ Edges' = Edges /\ Reach' = Reach
        /\ \A h : Adjacency(h)' = Adjacency(h) /\ Class(h)' = Class(h)
        /\ Assigned' = Assigned /\ Unvisited' = Unvisited
    BY GraphStays DEF Assigned, Unvisited
  <1>2. /\ discovery' = discovery /\ low_link' = low_link /\ next_index' = next_index
        /\ active_nodes' = active_nodes /\ dfs_stack' = dfs_stack /\ program' = program
        /\ component_nodes' = component_nodes /\ call_graph' = call_graph
    BY DEF sccVars
  <1>3. Active' = Active /\ Done' = Done
    BY <1>1, <1>2 DEF Active, Done
  <1>4. \A k : Frame(k)' = Frame(k) /\ Taken(k)' = Taken(k)
    BY <1>2 DEF Frame, Taken
  <1>5. \A x, y : Followed(x, y)' <=> Followed(x, y)
    BY <1>1, <1>2, <1>4 DEF Followed
  <1>6. \A k : Territory(k)' = Territory(k)
    BY <1>2, <1>3, <1>4 DEF Territory, Frame
  <1>7. Values' /\ StackIsActive' /\ ComponentsAreClasses' /\ ResultIsExact'
    BY <1>1, <1>2, <1>3 DEF SearchInv, Values, StackIsActive, ComponentsAreClasses, ResultIsExact
  <1>8. PathIsActive' /\ PathReaches'
    BY <1>1, <1>2, <1>3, <1>4 DEF SearchInv, PathIsActive, PathReaches, Reaches, Frame
  <1>9. EdgesAreSeen' /\ LowLinksReach' /\ FinishedIsLower' /\ LowLinksBound'
    BY <1>1, <1>2, <1>3, <1>4, <1>5, <1>6
       DEF SearchInv, EdgesAreSeen, LowLinksReach, FinishedIsLower, LowLinksBound, Reaches
  <1> QED
    BY <1>7, <1>8, <1>9 DEF SearchInv

LEMMA DecompositionStep ==
    ASSUME DecompositionInv, [Next]_vars
    PROVE  DecompositionInv'
  <1> SUFFICES ASSUME ~edited' PROVE SearchInv'
    BY DEF DecompositionInv
  <1>1. CASE Decompose
    BY <1>1, SearchStep DEF Decompose, DecompositionInv
  <1>2. CASE Edit
    BY <1>2 DEF Edit
  <1>3. CASE Solve
    BY <1>3, SearchRests DEF Solve, DecompositionInv
  <1>4. CASE SolverNext
    <2>1. UNCHANGED input
      BY <1>4 DEF SolverNext, OutOfWork, OrderNext, CollectSeeds, Evaluate, NoRounds, EndRound, Return
    <2> QED
      BY <2>1, SearchRests DEF input, DecompositionInv
  <1>5. CASE UNCHANGED vars
    BY <1>5, SearchRests DEF vars, input, DecompositionInv
  <1> QED
    BY <1>1, <1>2, <1>3, <1>4, <1>5 DEF Next

(* The state of the search is always that of Tarjan's algorithm.           *)
THEOREM DecompositionInvHolds == Spec => []DecompositionInv
  <1>1. Init => DecompositionInv
    BY SearchStarts DEF Init, DecompositionInv
  <1>2. DecompositionInv /\ [Next]_vars => DecompositionInv'
    BY DecompositionStep
  <1> QED
    BY <1>1, <1>2, PTL DEF Spec

(* ComponentsAreExact: for every program, the components are the functions *)
(* that call each other in turn, a function alone is one exactly when it   *)
(* has no such partner, and numbering, recursion marks and condensation    *)
(* edges follow.                                                           *)
THEOREM ComponentsStayExact == Spec => []ComponentsAreExact
  <1>1. DecompositionInv => ComponentsAreExact
    BY DEF DecompositionInv, SearchInv, ResultIsExact, ComponentsAreExact
  <1> QED
    BY <1>1, DecompositionInvHolds, PTL

-------------------------------------------------------------------------------
(* Closures, larger and backwards *)

Inverted(R) == {<<e[2], e[1]>> : e \in R}

(* More edges reach no less.                                               *)
LEMMA ClosureGrows ==
    ASSUME NEW V, IsFiniteSet(V), NEW E \in SUBSET (V \X V), NEW F \in SUBSET (V \X V), E \subseteq F
    PROVE  ClosureOf(E) \subseteq ClosureOf(F)
  <1>1. IsTransitive(ClosureOf(F)) /\ F \subseteq ClosureOf(F)
    BY ClosureCloses DEF IsTransitive
  <1> QED
    BY <1>1, ClosureCloses

(* Edges turned round.                                                     *)
LEMMA InvertedFacts ==
    ASSUME NEW V, NEW R \in SUBSET (V \X V)
    PROVE  /\ Inverted(R) \in SUBSET (V \X V)
           /\ \A x, y : <<x, y>> \in Inverted(R) <=> <<y, x>> \in R
  <1>1. ASSUME NEW x, NEW y, <<x, y>> \in Inverted(R)
        PROVE  <<y, x>> \in R
    <2>1. PICK e \in R : <<x, y>> = <<e[2], e[1]>>
      BY <1>1 DEF Inverted
    <2>2. e = <<e[1], e[2]>>
      OBVIOUS
    <2> QED
      BY <2>1, <2>2
  <1>2. ASSUME NEW x, NEW y, <<y, x>> \in R
        PROVE  <<x, y>> \in Inverted(R)
    <2> DEFINE e == <<y, x>>
    <2>1. e \in R /\ <<x, y>> = <<e[2], e[1]>>
      BY <1>2
    <2> HIDE DEF e
    <2> QED
      BY <2>1 DEF Inverted
  <1>3. Inverted(R) \in SUBSET (V \X V)
    BY DEF Inverted
  <1> QED
    BY <1>1, <1>2, <1>3

(* The closure of the edges turned round.                                  *)
LEMMA ClosureTurns ==
    ASSUME NEW V, IsFiniteSet(V), NEW E \in SUBSET (V \X V)
    PROVE  \A x, y : <<x, y>> \in ClosureOf(Inverted(E)) <=> <<y, x>> \in ClosureOf(E)
  <1> DEFINE D == ClosureOf(E)
             U == ClosureOf(Inverted(E))
  <1>1. /\ Inverted(E) \in SUBSET (V \X V)
        /\ \A x, y : <<x, y>> \in Inverted(E) <=> <<y, x>> \in E
    BY InvertedFacts
  <1>2. /\ E \subseteq D /\ D \in SUBSET (V \X V) /\ IsTransitive(D)
        /\ \A R : IsTransitive(R) /\ E \subseteq R => D \subseteq R
    BY ClosureCloses DEF IsTransitive
  <1>3. /\ Inverted(E) \subseteq U /\ U \in SUBSET (V \X V) /\ IsTransitive(U)
        /\ \A R : IsTransitive(R) /\ Inverted(E) \subseteq R => U \subseteq R
    BY <1>1, ClosureCloses DEF IsTransitive
  <1> HIDE DEF D, U
  <1>4. /\ \A x, y : <<x, y>> \in Inverted(D) <=> <<y, x>> \in D
        /\ \A x, y : <<x, y>> \in Inverted(U) <=> <<y, x>> \in U
    BY <1>2, <1>3, InvertedFacts
  <1>5. IsTransitive(Inverted(D)) /\ IsTransitive(Inverted(U))
    BY <1>2, <1>3, <1>4 DEF IsTransitive
  <1>6. Inverted(E) \subseteq Inverted(D)
    BY <1>2 DEF Inverted
  <1>7. E \subseteq Inverted(U)
    <2>1. ASSUME NEW e \in E PROVE e \in Inverted(U)
      <3>1. PICK x, y : e = <<x, y>>
        OBVIOUS
      <3> QED
        BY <1>1, <1>3, <1>4, <3>1
    <2> QED
      BY <2>1
  <1>8. U \subseteq Inverted(D) /\ D \subseteq Inverted(U)
    BY <1>2, <1>3, <1>5, <1>6, <1>7
  <1> QED
    BY <1>4, <1>8 DEF D, U

-------------------------------------------------------------------------------
(* The formals that a body returns *)

\* The functions whose summaries an evaluation of the body reads.
CalleesOf(body) ==
    {Callee(body.sites[s]) : s \in {t \in DOMAIN body.sites : Resolved(body.sites[t])}}

Passed(body, known, s) ==
    IF Resolved(body.sites[s]) THEN Masked(known[Callee(body.sites[s])]) ELSE Formals

Plain(body) == body.parts \cup Inverted(body.data)

(* What the parts of a body consist of.                                    *)
LEMMA BodyFacts ==
    ASSUME NEW n \in Nat, NEW body \in FunctionBody(n)
    PROVE  /\ body.sites \in Seq(SUBSET (1..n)) /\ DOMAIN body.sites \subseteq {1, 2}
           /\ body.parts \in SUBSET (LocalNames \X LocalNames)
           /\ body.data \in SUBSET (LocalNames \X LocalNames)
           /\ body.returned \in SUBSET LocalNames /\ body.deep \in BOOLEAN
           /\ IsFiniteSet(LocalNames)
           /\ Plain(body) \in SUBSET (LocalNames \X LocalNames)
           /\ \A s \in DOMAIN body.sites :
                 /\ body.sites[s] \in SUBSET (1..n) /\ Calls[s] \in LocalNames
                 /\ \A i \in Formals : Arguments[s][i] \in LocalNames
  <1>1. /\ body.sites \in Seq(SUBSET (1..n)) /\ Len(body.sites) <= 2
        /\ body.parts \in SUBSET (LocalNames \X LocalNames)
        /\ body.data \in SUBSET (LocalNames \X LocalNames)
        /\ body.returned \in SUBSET LocalNames /\ body.deep \in BOOLEAN
    BY DEF FunctionBody, Calls
  <1>2. DOMAIN body.sites \subseteq {1, 2}
    BY <1>1
  <1>3. IsFiniteSet(LocalNames)
    <2>1. \A m \in Nat : IsFiniteSet(1..m)
      BY FS_Interval
    <2>2. IsFiniteSet(1..10)
      BY <2>1
    <2> QED
      BY <2>2 DEF LocalNames
  <1>4. Plain(body) \in SUBSET (LocalNames \X LocalNames)
    <2>1. Inverted(body.data) \in SUBSET (LocalNames \X LocalNames)
      BY <1>1, InvertedFacts
    <2> QED
      BY <1>1, <2>1 DEF Plain
  <1>5. ASSUME NEW s \in DOMAIN body.sites
        PROVE  /\ body.sites[s] \in SUBSET (1..n) /\ Calls[s] \in LocalNames
               /\ \A i \in Formals : Arguments[s][i] \in LocalNames
    <2>1. s = 1 \/ s = 2
      BY <1>2
    <2>2. Calls[s] \in LocalNames
      BY <2>1 DEF Calls, LocalNames
    <2>3. \A i \in Formals : Arguments[s][i] \in LocalNames
      BY <2>1 DEF Arguments, Formals, LocalNames
    <2> QED
      BY <1>1, <2>2, <2>3
  <1> QED
    BY <1>1, <1>2, <1>3, <1>4, <1>5

(* The edges a descent follows, one by one.                                *)
LEMMA DependencyPairs ==
    ASSUME NEW n \in Nat, NEW body \in FunctionBody(n), NEW known
    PROVE  /\ DependencyEdges(body, known) \in SUBSET (LocalNames \X LocalNames)
           /\ \A x, y : <<x, y>> \in DependencyEdges(body, known) <=>
                 \/ \E s \in DOMAIN body.sites : \E i \in Passed(body, known, s) :
                       x = Calls[s] /\ y = Arguments[s][i]
                 \/ <<x, y>> \in Plain(body) /\ \A s \in DOMAIN body.sites : Calls[s] # x
  <1> DEFINE kept(s) == IF Resolved(body.sites[s]) THEN Masked(known[Callee(body.sites[s])])
                        ELSE Formals
             other == body.parts \cup {<<e[2], e[1]>> : e \in body.data}
             through == UNION {{<<Calls[s], Arguments[s][i]>> : i \in kept(s)} : s \in DOMAIN body.sites}
             rest == {e \in other : \A s \in DOMAIN body.sites : Calls[s] # e[1]}
  <1>1. DependencyEdges(body, known) = rest \cup through
    BY DEF DependencyEdges
  <1>2. \A s : kept(s) = Passed(body, known, s)
    BY DEF Passed
  <1>3. other = Plain(body)
    BY DEF Plain, Inverted
  <1> HIDE DEF kept, other
  <1>4. \A x, y : <<x, y>> \in through <=>
           \E s \in DOMAIN body.sites : \E i \in Passed(body, known, s) :
              x = Calls[s] /\ y = Arguments[s][i]
    BY <1>2
  <1>5. \A x, y : <<x, y>> \in rest <=>
           <<x, y>> \in Plain(body) /\ \A s \in DOMAIN body.sites : Calls[s] # x
    BY <1>3
  <1>6. through \in SUBSET (LocalNames \X LocalNames)
    <2>1. \A s : Passed(body, known, s) \subseteq Formals
      BY DEF Passed, Masked
    <2>2. \A s \in DOMAIN body.sites :
             Calls[s] \in LocalNames /\ \A i \in Formals : Arguments[s][i] \in LocalNames
      BY BodyFacts
    <2> QED
      BY <1>2, <2>1, <2>2
  <1>7. rest \in SUBSET (LocalNames \X LocalNames)
    BY <1>3, BodyFacts
  <1> HIDE DEF through, rest
  <1> QED
    BY <1>1, <1>4, <1>5, <1>6, <1>7

(* What is visited: the returned nodes and what a descent reaches of them. *)
LEMMA VisitedNodes ==
    ASSUME NEW body, NEW V, NEW descent \in SUBSET (V \X V)
    PROVE  \A x : x \in Visited(body, descent) <=>
              x \in body.returned \/ \E r \in body.returned : <<r, x>> \in descent
  <1>1. ASSUME NEW x, x \in Visited(body, descent), x \notin body.returned
        PROVE  \E r \in body.returned : <<r, x>> \in descent
    <2>1. PICK e \in descent : e[1] \in body.returned /\ x = e[2]
      BY <1>1 DEF Visited
    <2>2. e = <<e[1], e[2]>>
      OBVIOUS
    <2> QED
      BY <2>1, <2>2
  <1>2. ASSUME NEW x, NEW r \in body.returned, <<r, x>> \in descent
        PROVE  x \in Visited(body, descent)
    <2>1. PICK e : e = <<r, x>>
      OBVIOUS
    <2>2. e \in descent /\ e[1] \in body.returned /\ x = e[2]
      BY <1>2, <2>1
    <2> QED
      BY <2>2 DEF Visited
  <1>3. \A x \in body.returned : x \in Visited(body, descent)
    BY DEF Visited
  <1> QED
    BY <1>1, <1>2, <1>3

(* A table that returns more makes a body return more.                     *)
LEMMA ReturnedGrows ==
    ASSUME NEW n \in Nat, NEW body \in FunctionBody(n), NEW known, NEW larger,
           \A g \in CalleesOf(body) : Masked(known[g]) \subseteq Masked(larger[g])
    PROVE  ReturnedFormals(body, known) \subseteq ReturnedFormals(body, larger)
  <1> DEFINE E == DependencyEdges(body, known)
             F == DependencyEdges(body, larger)
             D == ClosureOf(E)
             G == ClosureOf(F)
  <1>1. \A s \in DOMAIN body.sites : Passed(body, known, s) \subseteq Passed(body, larger, s)
    BY DEF Passed, CalleesOf
  <1>2. /\ E \in SUBSET (LocalNames \X LocalNames) /\ F \in SUBSET (LocalNames \X LocalNames)
        /\ \A x, y : <<x, y>> \in E => <<x, y>> \in F
    BY <1>1, DependencyPairs
  <1>3. E \subseteq F
    <2> HIDE DEF E, F
    <2> QED
      BY <1>2
  <1>4. D \subseteq G /\ G \in SUBSET (LocalNames \X LocalNames)
    <2>1. IsFiniteSet(LocalNames)
      BY BodyFacts
    <2> HIDE DEF E, F
    <2> QED
      BY <1>2, <1>3, <2>1, ClosureGrows, ClosureCloses
  <1> HIDE DEF D, G
  <1>5. Visited(body, D) \subseteq Visited(body, G)
    BY <1>4 DEF Visited
  <1>6. GivesUp(body, D) => GivesUp(body, G)
    BY <1>4, <1>5 DEF GivesUp
  <1>7. /\ ReturnedFormals(body, known) =
              IF GivesUp(body, D) THEN {Capped} \cup {Returns(i) : i \in Formals}
              ELSE {Returns(i) : i \in Formals \cap Visited(body, D)}
        /\ ReturnedFormals(body, larger) =
              IF GivesUp(body, G) THEN {Capped} \cup {Returns(i) : i \in Formals}
              ELSE {Returns(i) : i \in Formals \cap Visited(body, G)}
    BY DEF ReturnedFormals, D, G
  <1> QED
    BY <1>5, <1>6, <1>7

-------------------------------------------------------------------------------
(* Forwards and backwards agree *)

Typed == program \in Seq(FunctionBody(Len(program)))

\* The pairs that are known, as a table.
Table(pairs) == [g \in Callables |-> {e[2] : e \in {e \in pairs : e[1] = g}}]

(* The functions of a program, and those they call, have bodies.           *)
LEMMA TypedFacts ==
    ASSUME Typed
    PROVE  /\ Callables = 1..Len(program) /\ Len(program) \in Nat /\ IsFiniteSet(Callables)
           /\ \A f \in Callables : /\ program[f] \in FunctionBody(Len(program))
                                   /\ CalleesOf(program[f]) \subseteq Callables
  <1>1. Callables = 1..Len(program) /\ Len(program) \in Nat
    BY DEF Typed, Callables
  <1>2. \A n \in Nat : IsFiniteSet(1..n)
    BY FS_Interval
  <1>3. IsFiniteSet(Callables)
    BY <1>1, <1>2
  <1>4. ASSUME NEW f \in Callables
        PROVE  program[f] \in FunctionBody(Len(program)) /\ CalleesOf(program[f]) \subseteq Callables
    <2>1. program[f] \in FunctionBody(Len(program))
      BY <1>1 DEF Typed
    <2>2. PICK body : body = program[f]
      OBVIOUS
    <2>3. ASSUME NEW s \in DOMAIN body.sites, Resolved(body.sites[s])
          PROVE  Callee(body.sites[s]) \in Callables
      <3>1. body.sites[s] \in SUBSET (1..Len(program))
        BY <1>1, <2>1, <2>2, BodyFacts
      <3>2. Callee(body.sites[s]) \in body.sites[s]
        <4>1. body.sites[s] # {}
          BY <2>3, FS_EmptySet DEF Resolved
        <4> QED
          BY <4>1 DEF Callee
      <3> QED
        BY <1>1, <3>1, <3>2
    <2> QED
      BY <2>1, <2>2, <2>3 DEF CalleesOf
  <1> QED
    BY <1>1, <1>3, <1>4

(* The edges of influence are those of the descent, turned round.          *)
LEMMA InfluencePairs ==
    ASSUME NEW n \in Nat, NEW body \in FunctionBody(n), NEW known, NEW pairs,
           \A g \in CalleesOf(body) :
              Masked(known[g]) = {i \in Formals : <<g, Returns(i)>> \in pairs}
    PROVE  InfluenceEdges(body, pairs) = Inverted(DependencyEdges(body, known))
  <1> DEFINE passes(s) == IF Resolved(body.sites[s])
                          THEN {i \in Formals : <<Callee(body.sites[s]), Returns(i)>> \in pairs}
                          ELSE Formals
             calls == {Calls[s] : s \in DOMAIN body.sites}
             plain == body.data \cup {<<e[2], e[1]>> : e \in body.parts}
             rest == {e \in plain : e[2] \notin calls}
             through == UNION {{<<Arguments[s][i], Calls[s]>> : i \in passes(s)} : s \in DOMAIN body.sites}
             E == DependencyEdges(body, known)
             I == Inverted(E)
  <1>1. InfluenceEdges(body, pairs) = rest \cup through
    BY DEF InfluenceEdges
  <1>2. \A s \in DOMAIN body.sites : passes(s) = Passed(body, known, s)
    BY DEF Passed, CalleesOf
  <1>3. /\ plain \in SUBSET (LocalNames \X LocalNames)
        /\ \A x, y : <<x, y>> \in plain <=> <<y, x>> \in Plain(body)
    <2>1. /\ body.data \in SUBSET (LocalNames \X LocalNames)
          /\ body.parts \in SUBSET (LocalNames \X LocalNames)
      BY BodyFacts
    <2>2. /\ Inverted(body.parts) \in SUBSET (LocalNames \X LocalNames)
          /\ \A x, y : <<x, y>> \in Inverted(body.parts) <=> <<y, x>> \in body.parts
          /\ \A x, y : <<x, y>> \in Inverted(body.data) <=> <<y, x>> \in body.data
      BY <2>1, InvertedFacts
    <2>3. plain = body.data \cup Inverted(body.parts)
      BY DEF Inverted
    <2> HIDE DEF plain
    <2> QED
      BY <2>1, <2>2, <2>3 DEF Plain
  <1>4. /\ E \in SUBSET (LocalNames \X LocalNames)
        /\ \A x, y : <<x, y>> \in E <=>
                 \/ \E s \in DOMAIN body.sites : \E i \in Passed(body, known, s) :
                       x = Calls[s] /\ y = Arguments[s][i]
                 \/ <<x, y>> \in Plain(body) /\ \A s \in DOMAIN body.sites : Calls[s] # x
    BY DependencyPairs
  <1> HIDE DEF E
  <1>5. I \in SUBSET (LocalNames \X LocalNames) /\ \A x, y : <<x, y>> \in I <=> <<y, x>> \in E
    BY <1>4, InvertedFacts
  <1> HIDE DEF I, passes, plain
  <1>6. /\ rest \in SUBSET (LocalNames \X LocalNames)
        /\ \A x, y : <<x, y>> \in rest <=>
              <<y, x>> \in Plain(body) /\ \A s \in DOMAIN body.sites : Calls[s] # y
    BY <1>3
  <1>7. \A x, y : <<x, y>> \in through <=>
           \E s \in DOMAIN body.sites : \E i \in Passed(body, known, s) :
              y = Calls[s] /\ x = Arguments[s][i]
    BY <1>2
  <1>8. through \in SUBSET (LocalNames \X LocalNames)
    <2>1. \A s : Passed(body, known, s) \subseteq Formals
      BY DEF Passed, Masked
    <2>2. \A s \in DOMAIN body.sites :
             Calls[s] \in LocalNames /\ \A i \in Formals : Arguments[s][i] \in LocalNames
      BY BodyFacts
    <2> QED
      BY <1>2, <2>1, <2>2
  <1> HIDE DEF rest, through
  <1>9. ASSUME NEW x, NEW y
        PROVE  <<x, y>> \in rest \cup through <=> <<x, y>> \in I
    <2>1. <<x, y>> \in I <=> <<y, x>> \in E
      BY <1>5
    <2>2. <<y, x>> \in E <=>
                 \/ \E s \in DOMAIN body.sites : \E i \in Passed(body, known, s) :
                       y = Calls[s] /\ x = Arguments[s][i]
                 \/ <<y, x>> \in Plain(body) /\ \A s \in DOMAIN body.sites : Calls[s] # y
      BY <1>4
    <2>3. <<x, y>> \in rest <=>
              <<y, x>> \in Plain(body) /\ \A s \in DOMAIN body.sites : Calls[s] # y
      BY <1>6
    <2>4. <<x, y>> \in through <=>
           \E s \in DOMAIN body.sites : \E i \in Passed(body, known, s) :
              y = Calls[s] /\ x = Arguments[s][i]
      BY <1>7
    <2> QED
      BY <2>1, <2>2, <2>3, <2>4
  <1>10. rest \cup through = I
    BY <1>5, <1>6, <1>8, <1>9
  <1> QED
    BY <1>1, <1>10 DEF I, E

(* Both ways of asking what a function returns say the same.               *)
LEMMA ReturnsAgree ==
    ASSUME NEW n \in Nat, NEW f, program[f] \in FunctionBody(n), NEW known, NEW pairs,
           \A g \in CalleesOf(program[f]) :
              Masked(known[g]) = {i \in Formals : <<g, Returns(i)>> \in pairs}
    PROVE  ReturnFacts(f, pairs) = ReturnedFormals(program[f], known)
  <1>1. PICK body \in FunctionBody(n) : body = program[f]
    OBVIOUS
  <1> DEFINE E == DependencyEdges(body, known)
             D == ClosureOf(E)
             influence == ClosureOf(InfluenceEdges(body, pairs))
             leads(x) == x \in body.returned \/ \E r \in body.returned : <<x, r>> \in influence
             loops == \E e \in influence : e[1] = e[2] /\ leads(e[1])
             all == {Capped} \cup {Returns(i) : i \in Formals}
  <1>2. /\ E \in SUBSET (LocalNames \X LocalNames) /\ IsFiniteSet(LocalNames)
        /\ InfluenceEdges(body, pairs) = Inverted(E)
    BY <1>1, DependencyPairs, BodyFacts, InfluencePairs
  <1>3. ReturnFacts(f, pairs) = IF body.deep \/ loops THEN all
                                ELSE {Returns(i) : i \in {i \in Formals : leads(i)}}
    BY <1>1 DEF ReturnFacts
  <1>4. ReturnedFormals(body, known) = IF GivesUp(body, D) THEN all
                                       ELSE {Returns(i) : i \in Formals \cap Visited(body, D)}
    BY DEF ReturnedFormals
  <1> HIDE DEF E
  <1>5. /\ D \in SUBSET (LocalNames \X LocalNames)
        /\ influence \in SUBSET (LocalNames \X LocalNames)
        /\ \A x, y : <<x, y>> \in influence <=> <<y, x>> \in D
    <2>1. Inverted(E) \in SUBSET (LocalNames \X LocalNames)
      BY <1>2, InvertedFacts
    <2> QED
      BY <1>2, <2>1, ClosureTurns, ClosureCloses
  <1> HIDE DEF D, influence
  <1>6. \A x : leads(x) <=> x \in Visited(body, D)
    BY <1>5, VisitedNodes
  <1> HIDE DEF leads
  <1>7. loops <=> \E x \in Visited(body, D) : <<x, x>> \in D
    <2>1. ASSUME NEW e \in influence, e[1] = e[2], leads(e[1])
          PROVE  \E x \in Visited(body, D) : <<x, x>> \in D
      <3>1. PICK x, y : e = <<x, y>>
        BY <1>5
      <3> QED
        BY <1>5, <1>6, <2>1, <3>1
    <2>2. ASSUME NEW x \in Visited(body, D), <<x, x>> \in D
          PROVE  loops
      <3>1. PICK e : e = <<x, x>>
        OBVIOUS
      <3>2. e \in influence /\ e[1] = e[2] /\ leads(e[1])
        BY <1>5, <1>6, <2>2, <3>1
      <3> QED
        BY <3>2
    <2> QED
      BY <2>1, <2>2
  <1>8. body.deep \/ loops <=> GivesUp(body, D)
    BY <1>7 DEF GivesUp
  <1> HIDE DEF loops, all
  <1>9. {i \in Formals : leads(i)} = Formals \cap Visited(body, D)
    BY <1>6
  <1> QED
    BY <1>1, <1>3, <1>4, <1>8, <1>9

-------------------------------------------------------------------------------
(* The rounds over the whole program *)

Settles(D, step, total) ==
    total = [known \in D |-> IF step[known] = known THEN known ELSE total[step[known]]]

\* Where the steps from known lead, and where they end.
Orbit(D, step, known) ==
    {m \in D : \A C \in SUBSET D :
        known \in C /\ (\A c \in C : step[c] \in C) => m \in C}

Ends(D, step, known) == {m \in Orbit(D, step, known) : step[m] = m}

(* Steps on a set settle, or lead nowhere.                                 *)
LEMMA SettlingExists ==
    ASSUME NEW D, NEW step \in [D -> D]
    PROVE  \E total : Settles(D, step, total)
  <1> DEFINE total == [k \in D |-> Picked(Ends(D, step, k))]
  <1>1. ASSUME NEW k \in D, step[k] = k
        PROVE  total[k] = k
    <2>1. {k} \in SUBSET D /\ \A c \in {k} : step[c] \in {k}
      BY <1>1
    <2>2. \A m \in Orbit(D, step, k) : m \in {k}
      BY <2>1 DEF Orbit
    <2>3. k \in Orbit(D, step, k)
      BY DEF Orbit
    <2>4. Ends(D, step, k) = {k}
      BY <1>1, <2>2, <2>3 DEF Ends
    <2>5. Picked({k}) = k
      BY DEF Picked
    <2> QED
      BY <2>4, <2>5
  <1>2. ASSUME NEW k \in D, step[k] # k
        PROVE  total[k] = total[step[k]]
    <2>1. ASSUME NEW m \in Orbit(D, step, step[k])
          PROVE  m \in Orbit(D, step, k)
      <3>1. \A C \in SUBSET D : k \in C /\ (\A c \in C : step[c] \in C) => m \in C
        BY <2>1 DEF Orbit
      <3> QED
        BY <2>1, <3>1 DEF Orbit
    <2>2. ASSUME NEW m \in Orbit(D, step, k), step[m] = m
          PROVE  m \in Orbit(D, step, step[k])
      <3>1. ASSUME NEW C \in SUBSET D, step[k] \in C, \A c \in C : step[c] \in C
            PROVE  m \in C
        <4>1. C \cup {k} \in SUBSET D /\ \A c \in C \cup {k} : step[c] \in C \cup {k}
          BY <3>1
        <4>2. m \in C \cup {k}
          BY <2>2, <4>1 DEF Orbit
        <4> QED
          BY <1>2, <2>2, <4>2
      <3> QED
        BY <2>2, <3>1 DEF Orbit
    <2>3. Ends(D, step, k) = Ends(D, step, step[k])
      BY <2>1, <2>2 DEF Ends
    <2> QED
      BY <2>3
  <1>3. \A k \in D : total[k] = IF step[k] = k THEN k ELSE total[step[k]]
    <2> HIDE DEF total
    <2> QED
      BY <1>1, <1>2
  <1>4. total = [k \in D |-> total[k]]
    OBVIOUS
  <1> HIDE DEF total
  <1>5. [k \in D |-> total[k]] =
           [k \in D |-> IF step[k] = k THEN k ELSE total[step[k]]]
    BY <1>3
  <1>6. Settles(D, step, total)
    BY <1>4, <1>5 DEF Settles
  <1> QED
    BY <1>6

\* Steps that keep the order of sets.
Monotone(S, step) ==
    step \in [SUBSET S -> SUBSET S] /\ \A k, l \in SUBSET S : k \subseteq l => step[k] \subseteq step[l]

\* The least set around the start that the steps do not leave.
LeastAround(S, step, start, end) ==
    /\ start \subseteq end /\ end \in SUBSET S /\ step[end] = end
    /\ \A P \in SUBSET S : start \subseteq P /\ step[P] \subseteq P => end \subseteq P

(* Where they start upwards, steps that keep the order of sets settle in   *)
(* the least set around the start that they do not leave.                  *)
LEMMA SettledIsLeast ==
    ASSUME NEW S, IsFiniteSet(S), NEW step, Monotone(S, step), NEW total,
           Settles(SUBSET S, step, total), NEW start \in SUBSET S, start \subseteq step[start]
    PROVE  LeastAround(S, step, start, total[start])
  <1> DEFINE Below(k) == /\ total[k] = total[start] /\ start \subseteq k /\ k \subseteq step[k]
                         /\ \A P \in SUBSET S : start \subseteq P /\ step[P] \subseteq P => k \subseteq P
             C == {k \in SUBSET S : Below(k)}
             left(k) == Cardinality(S) - Cardinality(k)
             Gaps == {left(k) : k \in C}
  <1>0. step \in [SUBSET S -> SUBSET S] /\ \A k, l \in SUBSET S : k \subseteq l => step[k] \subseteq step[l]
    BY DEF Monotone
  <1>1. \A k \in SUBSET S : total[k] = IF step[k] = k THEN k ELSE total[step[k]]
    BY DEF Settles
  <1>2. \A k, l \in SUBSET S : k \subseteq l => /\ Cardinality(k) \in Nat /\ Cardinality(l) \in Nat
                                                /\ Cardinality(k) <= Cardinality(l)
                                                /\ Cardinality(k) = Cardinality(l) => k = l
    BY FS_Subset, FS_CardinalityType
  <1>3. start \in C
    BY <1>1
  <1>4. \A k \in C : left(k) \in Nat
    <2>1. \A k \in SUBSET S : Cardinality(k) \in Nat /\ Cardinality(S) \in Nat /\ Cardinality(k) <= Cardinality(S)
      BY <1>2
    <2> HIDE DEF Below
    <2> QED
      BY <2>1
  <1>5. PICK k \in C : \A l \in C : left(k) <= left(l)
    <2>1. Gaps \in SUBSET Nat /\ Gaps # {}
      <3> HIDE DEF C, left
      <3> QED
        BY <1>3, <1>4
    <2> HIDE DEF C, left, Gaps
    <2>2. PICK g \in Gaps : \A h \in Gaps : g <= h
      BY <2>1, LeastOfNaturals
    <2> USE DEF Gaps
    <2>3. PICK k \in C : g = left(k)
      BY <2>2
    <2>4. \A l \in C : left(l) \in Gaps
      OBVIOUS
    <2> QED
      BY <2>2, <2>3, <2>4
  <1>6. k \in SUBSET S /\ Below(k)
    BY <1>5
  <1> DEFINE next == step[k]
  <1>7. step[k] = k
    <2> SUFFICES ASSUME step[k] # k PROVE FALSE
      OBVIOUS
    <2>1. next \in SUBSET S
      BY <1>0, <1>6
    <2>2. Below(next)
      <3>1. total[next] = total[k]
        BY <1>1, <1>6
      <3>2. next \subseteq step[next]
        BY <1>0, <1>6, <2>1
      <3>3. \A P \in SUBSET S : start \subseteq P /\ step[P] \subseteq P => next \subseteq P
        BY <1>0, <1>6
      <3>4. start \subseteq next
        BY <1>0, <1>6
      <3> HIDE DEF next
      <3> QED
        BY <1>6, <3>1, <3>2, <3>3, <3>4
    <2>3. left(k) <= left(next)
      <3> HIDE DEF Below, left, next
      <3> QED
        BY <1>5, <2>1, <2>2
    <2>4. /\ Cardinality(k) \in Nat /\ Cardinality(next) \in Nat /\ Cardinality(S) \in Nat
          /\ Cardinality(k) < Cardinality(next)
      <3>1. k \subseteq next /\ k # next
        BY <1>0, <1>6
      <3>2. S \in SUBSET S
        OBVIOUS
      <3> HIDE DEF next, Below, C
      <3> QED
        BY <1>2, <1>6, <2>1, <3>1, <3>2
    <2> HIDE DEF next, Below, C
    <2> QED
      BY <2>3, <2>4
  <1>8. total[start] = k
    BY <1>1, <1>6, <1>7
  <1> QED
    BY <1>6, <1>7, <1>8 DEF LeastAround

Answers == {Capped} \cup {Returns(i) : i \in Formals}

Facts == Callables \X Answers

Round(known) == UNION {{f} \X ReturnFacts(f, known) : f \in Callables}

(* A round derives pairs of a function and an answer.                      *)
LEMMA RoundPairs ==
    ASSUME NEW pairs
    PROVE  /\ Round(pairs) \in SUBSET Facts
           /\ \A f, r : <<f, r>> \in Round(pairs) <=> f \in Callables /\ r \in ReturnFacts(f, pairs)
  <1>1. \A f : ReturnFacts(f, pairs) \subseteq Answers
    BY DEF ReturnFacts, Answers
  <1>2. \A f, r : <<f, r>> \in Round(pairs) <=> f \in Callables /\ r \in ReturnFacts(f, pairs)
    BY DEF Round
  <1>3. Round(pairs) \in SUBSET Facts
    BY <1>1 DEF Round, Facts
  <1> QED
    BY <1>2, <1>3

(* A table and the pairs it lists say the same of every callee.            *)
LEMMA TableAgrees ==
    ASSUME Typed, NEW pairs \in SUBSET Facts, NEW f \in Callables
    PROVE  /\ ReturnFacts(f, pairs) = ReturnedFormals(program[f], Table(pairs))
           /\ \A g \in Callables : \A r : r \in Table(pairs)[g] <=> <<g, r>> \in pairs
  <1>1. ASSUME NEW g \in Callables, NEW r
        PROVE  r \in Table(pairs)[g] <=> <<g, r>> \in pairs
    <2>1. ASSUME <<g, r>> \in pairs PROVE r \in Table(pairs)[g]
      <3>1. PICK e : e = <<g, r>>
        OBVIOUS
      <3>2. e \in pairs /\ e[1] = g /\ e[2] = r
        BY <2>1, <3>1
      <3> QED
        BY <3>2 DEF Table
    <2>2. ASSUME r \in Table(pairs)[g] PROVE <<g, r>> \in pairs
      <3>1. PICK e \in pairs : e[1] = g /\ e[2] = r
        BY <2>2 DEF Table
      <3>2. e = <<e[1], e[2]>>
        BY DEF Facts
      <3> QED
        BY <3>1, <3>2
    <2> QED
      BY <2>1, <2>2
  <1>2. \A g \in CalleesOf(program[f]) :
           Masked(Table(pairs)[g]) = {i \in Formals : <<g, Returns(i)>> \in pairs}
    <2>1. CalleesOf(program[f]) \subseteq Callables
      BY TypedFacts
    <2> QED
      BY <1>1, <2>1 DEF Masked
  <1>3. ReturnFacts(f, pairs) = ReturnedFormals(program[f], Table(pairs))
    BY <1>2, TypedFacts, ReturnsAgree
  <1> QED
    BY <1>1, <1>3

(* Rounds keep the order of sets.                                          *)
LEMMA RoundGrows ==
    ASSUME Typed, NEW pairs \in SUBSET Facts, NEW larger \in SUBSET Facts, pairs \subseteq larger
    PROVE  Round(pairs) \subseteq Round(larger)
  <1>1. ASSUME NEW f \in Callables
        PROVE  ReturnFacts(f, pairs) \subseteq ReturnFacts(f, larger)
    <2>1. CalleesOf(program[f]) \subseteq Callables /\ program[f] \in FunctionBody(Len(program)) /\ Len(program) \in Nat
      BY TypedFacts
    <2>2. \A g \in Callables : Table(pairs)[g] \subseteq Table(larger)[g]
      BY TableAgrees
    <2>3. \A g \in CalleesOf(program[f]) : Masked(Table(pairs)[g]) \subseteq Masked(Table(larger)[g])
      BY <2>1, <2>2 DEF Masked
    <2>4. ReturnedFormals(program[f], Table(pairs)) \subseteq ReturnedFormals(program[f], Table(larger))
      BY <2>1, <2>3, ReturnedGrows
    <2> QED
      BY <2>4, TableAgrees
  <1>2. Round(pairs) \in SUBSET Facts
    BY RoundPairs
  <1>3. ASSUME NEW p \in Round(pairs) PROVE p \in Round(larger)
    <2>1. PICK f, r : p = <<f, r>>
      BY <1>2 DEF Facts
    <2> QED
      BY <1>1, <1>3, <2>1, RoundPairs
  <1> QED
    BY <1>3

(* The rounds over the program end in its least solution.                  *)
LEMMA ReturnsSolved ==
    ASSUME Typed
    PROVE  /\ ReturnSolution \in SUBSET Facts /\ Round(ReturnSolution) = ReturnSolution
           /\ \A P \in SUBSET Facts : Round(P) \subseteq P => ReturnSolution \subseteq P
  <1> DEFINE step == [k \in SUBSET Facts |-> Round(k)]
             Solves(t) == t = [known \in SUBSET Facts |->
                                  IF Round(known) = known THEN known ELSE t[Round(known)]]
             total == CHOOSE t : Solves(t)
  <1>1. /\ step \in [SUBSET Facts -> SUBSET Facts]
        /\ \A k \in SUBSET Facts : step[k] = Round(k)
    BY RoundPairs
  <1>2. IsFiniteSet(Facts)
    <2>1. IsFiniteSet(Callables)
      BY TypedFacts
    <2>2. Answers = {Capped, Returns(1), Returns(2)}
      BY DEF Answers, Formals
    <2>3. \A a, b, c : IsFiniteSet({a, b, c})
      <3>1. ASSUME NEW a, NEW b, NEW c PROVE IsFiniteSet({a, b, c})
        <4>1. IsFiniteSet({})
          BY FS_EmptySet
        <4>2. IsFiniteSet({} \cup {a})
          BY <4>1, FS_AddElement
        <4>3. IsFiniteSet(({} \cup {a}) \cup {b})
          BY <4>2, FS_AddElement
        <4>4. IsFiniteSet((({} \cup {a}) \cup {b}) \cup {c})
          BY <4>3, FS_AddElement
        <4>5. (({} \cup {a}) \cup {b}) \cup {c} = {a, b, c}
          OBVIOUS
        <4> QED
          BY <4>4, <4>5
      <3> QED
        BY <3>1
    <2>4. IsFiniteSet(Answers)
      BY <2>2, <2>3
    <2> QED
      BY <2>1, <2>4, FS_Product DEF Facts
  <1>3. \A k, l \in SUBSET Facts : k \subseteq l => step[k] \subseteq step[l]
    BY <1>1, RoundGrows
  <1>4. ReturnSolution = total[{}]
    BY DEF ReturnSolution, Facts, Answers, Round
  <1>5. \A t : Settles(SUBSET Facts, step, t) <=> Solves(t)
    <2>1. ASSUME NEW t
          PROVE  [k \in SUBSET Facts |-> IF step[k] = k THEN k ELSE t[step[k]]] =
                 [k \in SUBSET Facts |-> IF Round(k) = k THEN k ELSE t[Round(k)]]
      <3> HIDE DEF step
      <3> QED
        BY <1>1
    <2> HIDE DEF step
    <2> QED
      BY <2>1 DEF Settles
  <1> HIDE DEF step
  <1>6. \E t : Solves(t)
    BY <1>1, <1>5, SettlingExists
  <1>7. Settles(SUBSET Facts, step, total)
    <2> HIDE DEF Solves
    <2> QED
      BY <1>5, <1>6
  <1> HIDE DEF total
  <1>8. /\ total[{}] \in SUBSET Facts /\ step[total[{}]] = total[{}]
        /\ \A P \in SUBSET Facts : step[P] \subseteq P => total[{}] \subseteq P
    <2>1. {} \subseteq step[{}] /\ {} \in SUBSET Facts /\ Monotone(Facts, step)
      BY <1>1, <1>3 DEF Monotone
    <2>2. LeastAround(Facts, step, {}, total[{}])
      BY <1>2, <1>7, <2>1, SettledIsLeast
    <2> QED
      BY <2>2 DEF LeastAround
  <1> QED
    BY <1>1, <1>4, <1>8

-------------------------------------------------------------------------------
(* The solution of a program *)

CallPairs ==
    UNION {{<<f, Callee(program[f].sites[s])>> :
               s \in {s \in DOMAIN program[f].sites : Resolved(program[f].sites[s])}} :
           f \in Callables}

Calling == ClosureOf(CallPairs)

Reached(f) == {f} \cup {e[2] : e \in {e \in Calling : e[1] = f}}

\* A call of the body has no one function to go to.
Open(body) == \E s \in DOMAIN body.sites : ~Resolved(body.sites[s])

(* What is reached by calls: oneself, and what is reached by a callee.     *)
LEMMA CallingFacts ==
    ASSUME Typed
    PROVE  /\ CallPairs \in SUBSET (Callables \X Callables)
           /\ \A f, g : <<f, g>> \in CallPairs <=> f \in Callables /\ g \in CalleesOf(program[f])
           /\ CallPairs \subseteq Calling /\ IsTransitive(Calling)
           /\ \A R : IsTransitive(R) /\ CallPairs \subseteq R => Calling \subseteq R
           /\ \A f \in Callables : /\ Reached(f) \subseteq Callables
                                   /\ \A x : x \in Reached(f) <=> x = f \/ <<f, x>> \in Calling
  <1>1. \A f, g : <<f, g>> \in CallPairs <=> f \in Callables /\ g \in CalleesOf(program[f])
    BY DEF CallPairs, CalleesOf
  <1>2. CallPairs \in SUBSET (Callables \X Callables)
    <2>1. ASSUME NEW p \in CallPairs PROVE p \in Callables \X Callables
      <3>1. PICK f \in Callables : \E g : p = <<f, g>>
        BY DEF CallPairs
      <3>2. PICK g : p = <<f, g>>
        BY <3>1
      <3> QED
        BY <1>1, <3>2, TypedFacts
    <2> QED
      BY <2>1
  <1>3. /\ CallPairs \subseteq Calling /\ IsTransitive(Calling)
        /\ Calling \in SUBSET (Callables \X Callables)
        /\ \A R : IsTransitive(R) /\ CallPairs \subseteq R => Calling \subseteq R
    <2>1. IsFiniteSet(Callables)
      BY TypedFacts
    <2> QED
      BY <1>2, <2>1, ClosureCloses DEF Calling, IsTransitive
  <1>4. ASSUME NEW f \in Callables, NEW x
        PROVE  /\ x \in Reached(f) <=> x = f \/ <<f, x>> \in Calling
               /\ x \in Reached(f) => x \in Callables
    <2>1. ASSUME <<f, x>> \in Calling PROVE x \in Reached(f)
      <3>1. PICK e : e = <<f, x>>
        OBVIOUS
      <3>2. e \in Calling /\ e[1] = f /\ e[2] = x
        BY <2>1, <3>1
      <3> QED
        BY <3>2 DEF Reached
    <2>2. ASSUME x \in Reached(f), x # f PROVE <<f, x>> \in Calling
      <3>1. PICK e \in Calling : e[1] = f /\ e[2] = x
        BY <2>2 DEF Reached
      <3>2. e = <<e[1], e[2]>>
        BY <1>3
      <3> QED
        BY <3>1, <3>2
    <2>3. f \in Reached(f)
      BY DEF Reached
    <2> QED
      BY <1>3, <2>1, <2>2, <2>3
  <1> QED
    BY <1>1, <1>2, <1>3, <1>4

(* The facts of the solution, each by its own rule.                        *)
LEMMA SolutionMembers ==
    ASSUME Typed
    PROVE  /\ DOMAIN Solution = Callables
           /\ \A f \in Callables : \A x : x \in Solution[f] <=>
                 \/ x \in Reached(f)
                 \/ <<f, x>> \in ReturnSolution
                 \/ x = Capped /\ \E g \in Reached(f) : <<g, Capped>> \in ReturnSolution
                 \/ x = Impure /\ \E g \in Reached(f) : Open(program[g])
  <1> DEFINE RS == ReturnSolution
             resolved(f) == {s \in DOMAIN program[f].sites : Resolved(program[f].sites[s])}
             returned(f) == {e[2] : e \in {e \in RS : e[1] = f}}
             capped(f) == {Capped : e \in {e \in RS : e[1] \in Reached(f) /\ e[2] = Capped}}
             impure(f) == {Impure : g \in {g \in Reached(f) : resolved(g) # DOMAIN program[g].sites}}
  <1>1. Solution = [f \in Callables |-> Reached(f) \cup returned(f) \cup capped(f) \cup impure(f)]
    BY DEF Solution, Reached, Calling, CallPairs
  <1>2. RS \in SUBSET Facts
    BY ReturnsSolved
  <1>3. \A f, x : x \in returned(f) <=> <<f, x>> \in RS
    <2>1. ASSUME NEW f, NEW x, <<f, x>> \in RS PROVE x \in returned(f)
      <3>1. PICK e : e = <<f, x>>
        OBVIOUS
      <3>2. e \in RS /\ e[1] = f /\ e[2] = x
        BY <2>1, <3>1
      <3> HIDE DEF RS
      <3> QED
        BY <3>2
    <2>2. ASSUME NEW f, NEW x, x \in returned(f) PROVE <<f, x>> \in RS
      <3> HIDE DEF RS
      <3>1. PICK e \in RS : e[1] = f /\ e[2] = x
        BY <2>2
      <3>2. e = <<e[1], e[2]>>
        BY <1>2 DEF Facts
      <3> QED
        BY <3>1, <3>2
    <2> QED
      BY <2>1, <2>2
  <1>4. \A f, x : x \in capped(f) <=> x = Capped /\ \E g \in Reached(f) : <<g, Capped>> \in RS
    <2>1. ASSUME NEW f, NEW g \in Reached(f), <<g, Capped>> \in RS PROVE Capped \in capped(f)
      <3>1. PICK e : e = <<g, Capped>>
        OBVIOUS
      <3>2. e \in RS /\ e[1] \in Reached(f) /\ e[2] = Capped
        BY <2>1, <3>1
      <3> HIDE DEF RS
      <3> QED
        BY <3>2
    <2>2. ASSUME NEW f, NEW x, x \in capped(f)
          PROVE  x = Capped /\ \E g \in Reached(f) : <<g, Capped>> \in RS
      <3> HIDE DEF RS
      <3>1. PICK e \in RS : e[1] \in Reached(f) /\ e[2] = Capped /\ x = Capped
        BY <2>2
      <3>2. e = <<e[1], e[2]>>
        BY <1>2 DEF Facts
      <3> QED
        BY <3>1, <3>2
    <2> HIDE DEF capped
    <2> QED
      BY <2>1, <2>2
  <1>5. \A f, x : x \in impure(f) <=> x = Impure /\ \E g \in Reached(f) : Open(program[g])
    <2>1. \A g : resolved(g) # DOMAIN program[g].sites <=> Open(program[g])
      BY DEF Open
    <2> HIDE DEF resolved
    <2> QED
      BY <2>1
  <1> HIDE DEF returned, capped, impure
  <1> QED
    BY <1>1, <1>3, <1>4, <1>5

(* The facts of a body's summary, each by its own rule.                    *)
LEMMA SummarizeMembers ==
    ASSUME NEW f, NEW body, NEW known
    PROVE  \A x : x \in Summarize(f, body, known) <=>
              \/ x = f
              \/ x \in ReturnedFormals(body, known)
              \/ x = Impure /\ Open(body)
              \/ \E g \in CalleesOf(body) :
                    x \in known[g] /\ (x \in DOMAIN known \/ x = Impure \/ x = Capped)
  BY DEF Summarize, Composed, CalleesOf, Open

(* The facts of a summary have names that differ.                          *)
LEMMA NamesDiffer ==
    ASSUME Typed
    PROVE  /\ \A i \in Formals : Returns(i) \notin Callables /\ Returns(i) # Impure /\ Returns(i) # Capped
           /\ Impure \notin Callables /\ Capped \notin Callables /\ Impure # Capped
  <1>1. Callables = 1..Len(program) /\ Len(program) \in Nat
    BY TypedFacts
  <1> QED
    BY <1>1 DEF Formals, Returns, Impure, Capped

(* What is below the solution stays below it.                              *)
LEMMA SolutionAbsorbs ==
    ASSUME Typed, NEW known, DOMAIN known = Callables,
           \A g \in Callables : known[g] \subseteq Solution[g], NEW f \in Callables
    PROVE  Summarize(f, program[f], known) \subseteq Solution[f]
  <1> DEFINE RS == ReturnSolution
  <1>1. CalleesOf(program[f]) \subseteq Callables /\ program[f] \in FunctionBody(Len(program)) /\ Len(program) \in Nat
    BY TypedFacts
  <1>2. \A g \in Callables : \A x : x \in Solution[g] <=>
                 \/ x \in Reached(g)
                 \/ <<g, x>> \in RS
                 \/ x = Capped /\ \E h \in Reached(g) : <<h, Capped>> \in RS
                 \/ x = Impure /\ \E h \in Reached(g) : Open(program[h])
    BY SolutionMembers
  <1>3. RS \in SUBSET Facts /\ \A r : <<f, r>> \in RS <=> r \in ReturnFacts(f, RS)
    BY ReturnsSolved, RoundPairs
  <1> HIDE DEF RS
  <1>4. \A g \in Callables : Reached(g) \subseteq Callables
    BY CallingFacts
  <1>5. \A g \in Callables : Masked(Solution[g]) = {i \in Formals : <<g, Returns(i)>> \in RS}
    <2>1. \A g \in Callables, i \in Formals : Returns(i) \in Solution[g] <=> <<g, Returns(i)>> \in RS
      BY <1>2, <1>4, NamesDiffer
    <2> QED
      BY <2>1 DEF Masked
  <1>6. ReturnedFormals(program[f], known) \subseteq ReturnFacts(f, RS)
    <2>1. ReturnFacts(f, RS) = ReturnedFormals(program[f], Solution)
      BY <1>1, <1>5, ReturnsAgree
    <2>2. \A g \in CalleesOf(program[f]) : Masked(known[g]) \subseteq Masked(Solution[g])
      BY <1>1 DEF Masked
    <2>3. ReturnedFormals(program[f], known) \subseteq ReturnedFormals(program[f], Solution)
      BY <1>1, <2>2, ReturnedGrows
    <2> QED
      BY <2>1, <2>3
  <1>7. ASSUME NEW g \in CalleesOf(program[f])
        PROVE  Reached(g) \subseteq Reached(f)
    <2>1. g \in Callables /\ <<f, g>> \in Calling
      BY <1>1, CallingFacts
    <2>2. \A x : <<g, x>> \in Calling => <<f, x>> \in Calling
      BY <2>1, CallingFacts DEF IsTransitive
    <2> QED
      BY <2>1, <2>2, CallingFacts
  <1>8. f \in Reached(f)
    BY DEF Reached
  <1>9. ASSUME NEW x \in Summarize(f, program[f], known) PROVE x \in Solution[f]
    <2>1. CASE x = f
      BY <1>2, <1>8, <2>1
    <2>2. CASE x \in ReturnedFormals(program[f], known)
      BY <1>2, <1>3, <1>6, <2>2
    <2>3. CASE x = Impure /\ Open(program[f])
      BY <1>2, <1>8, <2>3
    <2>4. CASE \E g \in CalleesOf(program[f]) :
                  x \in known[g] /\ (x \in DOMAIN known \/ x = Impure \/ x = Capped)
      <3>1. PICK g \in CalleesOf(program[f]) :
               x \in known[g] /\ (x \in Callables \/ x = Impure \/ x = Capped)
        BY <2>4
      <3>2. g \in Callables /\ x \in Solution[g] /\ g \in Reached(g)
        BY <1>1, <3>1 DEF Reached
      <3>3. Reached(g) \subseteq Reached(f)
        BY <1>7
      <3>4. CASE x \in Reached(g)
        BY <1>2, <3>3, <3>4
      <3>5. CASE <<g, x>> \in RS
        <4>1. x \in Answers
          BY <1>3, <3>5 DEF Facts
        <4>2. x = Capped
          BY <3>1, <4>1, NamesDiffer DEF Answers
        <4> QED
          BY <1>2, <3>2, <3>3, <3>5, <4>2
      <3>6. CASE x = Capped /\ \E h \in Reached(g) : <<h, Capped>> \in RS
        BY <1>2, <3>3, <3>6
      <3>7. CASE x = Impure /\ \E h \in Reached(g) : Open(program[h])
        BY <1>2, <3>3, <3>7
      <3> QED
        BY <1>2, <3>2, <3>4, <3>5, <3>6, <3>7
    <2> QED
      BY <2>1, <2>2, <2>3, <2>4, SummarizeMembers
  <1> QED
    BY <1>9

(* Functions that call one another only, with summaries that hold what     *)
(* their bodies say, hold the solution.                                    *)
LEMMA SolutionIsLeast ==
    ASSUME Typed, NEW known, DOMAIN known = Callables, NEW D \in SUBSET Callables,
           \A f \in D : CalleesOf(program[f]) \subseteq D,
           \A f \in D : Summarize(f, program[f], known) \subseteq known[f]
    PROVE  \A f \in D : Solution[f] \subseteq known[f]
  <1> DEFINE RS == ReturnSolution
             Shared == Callables \cup {Impure, Capped}
             R == {p \in Callables \X Callables :
                      p[1] \in D => p[2] \in D /\ known[p[2]] \cap Shared \subseteq known[p[1]]}
             P == {p \in Facts : p[1] \in D => p[2] \in known[p[1]]}
  <1>1. \A f \in D : \A x :
           (\/ x = f \/ x \in ReturnedFormals(program[f], known)
            \/ x = Impure /\ Open(program[f])
            \/ \E g \in CalleesOf(program[f]) : x \in known[g] /\ x \in Shared) => x \in known[f]
    BY SummarizeMembers
  <1>2. \A x, y : <<x, y>> \in R <=>
           /\ x \in Callables /\ y \in Callables
           /\ x \in D => y \in D /\ known[y] \cap Shared \subseteq known[x]
    OBVIOUS
  <1>3. Calling \subseteq R
    <2> HIDE DEF Shared, R
    <2>1. IsTransitive(R)
      BY <1>2 DEF IsTransitive
    <2>2. CallPairs \subseteq R
      <3>1. ASSUME NEW p \in CallPairs PROVE p \in R
        <4>1. PICK f, g : p = <<f, g>> /\ f \in Callables /\ g \in Callables
          BY CallingFacts
        <4>2. g \in CalleesOf(program[f])
          BY <4>1, CallingFacts
        <4>3. f \in D => g \in D /\ known[g] \cap Shared \subseteq known[f]
          BY <1>1, <4>2
        <4> QED
          BY <1>2, <4>1, <4>3
      <3> QED
        BY <3>1
    <2> QED
      BY <2>1, <2>2, CallingFacts
  <1>4. \A f \in D : \A g \in Reached(f) : g \in D /\ known[g] \cap Shared \subseteq known[f]
    <2> HIDE DEF Shared, R
    <2>1. ASSUME NEW f \in D, NEW g \in Reached(f)
          PROVE  g \in D /\ known[g] \cap Shared \subseteq known[f]
      <3>1. g = f \/ <<f, g>> \in Calling
        BY CallingFacts
      <3> QED
        BY <1>2, <1>3, <3>1
    <2> QED
      BY <2>1
  <1>5. P \in SUBSET Facts /\ \A x, r : <<x, r>> \in P <=> <<x, r>> \in Facts /\ (x \in D => r \in known[x])
    OBVIOUS
  <1>6. RS \subseteq P
    <2> HIDE DEF P, RS, Shared, R
    <2>1. ASSUME NEW f \in D, NEW r \in ReturnFacts(f, P) PROVE r \in known[f]
      <3>1. \A g \in CalleesOf(program[f]) : Masked(known[g]) = {i \in Formals : <<g, Returns(i)>> \in P}
        <4>1. \A g \in CalleesOf(program[f]) : g \in D
          OBVIOUS
        <4>2. \A g \in D, i \in Formals : <<g, Returns(i)>> \in Facts
          BY DEF Facts, Answers
        <4>3. \A g \in D, i \in Formals : Returns(i) \in known[g] <=> <<g, Returns(i)>> \in P
          BY <1>5, <4>2
        <4> QED
          BY <4>1, <4>3 DEF Masked
      <3>2. ReturnFacts(f, P) = ReturnedFormals(program[f], known)
        BY <3>1, TypedFacts, ReturnsAgree
      <3> QED
        BY <1>1, <2>1, <3>2
    <2>2. Round(P) \subseteq P
      <3>1. ASSUME NEW p \in Round(P) PROVE p \in P
        <4>1. p \in Facts
          BY RoundPairs
        <4>2. PICK f, r : p = <<f, r>>
          BY <4>1 DEF Facts
        <4>3. r \in ReturnFacts(f, P)
          BY <4>2, <3>1, RoundPairs
        <4> QED
          BY <1>5, <2>1, <4>1, <4>2, <4>3
      <3> QED
        BY <3>1
    <2> QED
      BY <1>5, <2>2, ReturnsSolved DEF RS
  <1> HIDE DEF P, RS, R
  <1>7. ASSUME NEW f \in D, NEW x \in Solution[f] PROVE x \in known[f]
    <2>1. \/ x \in Reached(f)
          \/ <<f, x>> \in RS
          \/ x = Capped /\ \E g \in Reached(f) : <<g, Capped>> \in RS
          \/ x = Impure /\ \E g \in Reached(f) : Open(program[g])
      BY SolutionMembers DEF RS
    <2>2. CASE x \in Reached(f)
      <3>1. x \in D /\ x \in known[x] /\ x \in Shared
        BY <1>1, <1>4, <2>2
      <3> HIDE DEF Shared
      <3> QED
        BY <1>4, <2>2, <3>1
    <2>3. CASE <<f, x>> \in RS
      BY <1>5, <1>6, <2>3
    <2>4. CASE x = Capped /\ \E g \in Reached(f) : <<g, Capped>> \in RS
      <3>1. PICK g \in Reached(f) : <<g, Capped>> \in RS
        BY <2>4
      <3>2. g \in D /\ Capped \in known[g] /\ Capped \in Shared
        BY <1>4, <1>5, <1>6, <3>1
      <3> HIDE DEF Shared
      <3> QED
        BY <1>4, <2>4, <3>2
    <2>5. CASE x = Impure /\ \E g \in Reached(f) : Open(program[g])
      <3>1. PICK g \in Reached(f) : Open(program[g])
        BY <2>5
      <3>2. g \in D /\ Impure \in known[g] /\ Impure \in Shared
        BY <1>1, <1>4, <3>1
      <3> HIDE DEF Shared
      <3> QED
        BY <1>4, <2>5, <3>2
    <2> QED
      BY <2>1, <2>2, <2>3, <2>4, <2>5
  <1> QED
    BY <1>7

-------------------------------------------------------------------------------
(* What an exact decomposition says of its program *)

(* Min is the least member of a set of naturals.                           *)
LEMMA LeastMember ==
    ASSUME NEW S \in SUBSET Nat, S # {}
    PROVE  Min(S) \in S /\ \A n \in S : Min(S) <= n
  BY LeastOfNaturals DEF Min

\* What tells the classes of functions apart.
Divides(found) ==
    /\ IsFiniteSet(found)
    /\ \A c \in found : c \in SUBSET Nat /\ c # {}
    /\ \A c, d \in found : \A f : f \in c /\ f \in d => c = d

Smallest(found) == Ascending({Min(c) : c \in found})
Listed(found) == [i \in DOMAIN Smallest(found) |-> CHOOSE c \in found : Smallest(found)[i] \in c]
OwnerIn(components, f) == SelectInSeq(components, LAMBDA c : f \in c)

(* The classes are listed, each once, and a function is found in its own.  *)
LEMMA ClassesAreListed ==
    ASSUME NEW found, Divides(found)
    PROVE  /\ \E m \in Nat : DOMAIN Listed(found) = 1..m
           /\ \A i \in DOMAIN Listed(found) : Listed(found)[i] \in found
           /\ \A i \in DOMAIN Listed(found) : \A f \in Listed(found)[i] : OwnerIn(Listed(found), f) = i
           /\ \A c \in found : \E i \in DOMAIN Listed(found) : Listed(found)[i] = c
  <1> DEFINE mins == {Min(c) : c \in found}
             small == Smallest(found)
             list == Listed(found)
             m == Cardinality(mins)
  <1>1. \A c \in found : Min(c) \in c /\ Min(c) \in Nat
    BY LeastMember DEF Divides
  <1>2. mins \in SUBSET Nat /\ IsFiniteSet(mins)
    <2>1. mins \in SUBSET Nat
      BY <1>1
    <2>2. IsFiniteSet(mins)
      <3> DEFINE h == [c \in found |-> Min(c)]
      <3>1. h \in Surjection(found, mins)
        BY DEF Surjection
      <3> HIDE DEF h, mins
      <3> QED
        BY <3>1, FS_Surjection DEF Divides
    <2> QED
      BY <2>1, <2>2
  <1>3. /\ small \in Seq(mins) /\ DOMAIN small = 1..m /\ m \in Nat
        /\ \A x \in mins : \E j \in DOMAIN small : small[j] = x
        /\ \A i, j \in DOMAIN small : small[i] = small[j] => i = j
    <2> HIDE DEF mins
    <2>1. small = Ascending(mins)
      BY DEF Smallest, mins
    <2> HIDE DEF small
    <2> QED
      BY <1>2, <2>1, AscendingLists, FS_CardinalityType
  <1>4. list = [i \in DOMAIN small |-> CHOOSE c \in found : small[i] \in c]
    BY DEF Listed
  <1>5. DOMAIN list = 1..m
    BY <1>3, <1>4
  <1> HIDE DEF small, list, m
  <1>6. ASSUME NEW i \in 1..m
        PROVE  list[i] \in found /\ Min(list[i]) = small[i]
    <2>1. small[i] \in mins
      BY <1>3
    <2>2. PICK c \in found : small[i] = Min(c)
      BY <2>1
    <2>3. small[i] \in c
      BY <1>1, <2>2
    <2>4. list[i] \in found /\ small[i] \in list[i]
      BY <1>3, <1>4, <2>3
    <2>5. list[i] = c
      BY <2>3, <2>4 DEF Divides
    <2> QED
      BY <2>2, <2>5
  <1>7. ASSUME NEW i \in 1..m, NEW j \in 1..m, NEW f, f \in list[i], f \in list[j]
        PROVE  i = j
    <2>1. list[i] = list[j]
      BY <1>6, <1>7 DEF Divides
    <2>2. small[i] = small[j]
      BY <1>6, <2>1
    <2> QED
      BY <1>3, <2>2
  <1>8. ASSUME NEW c \in found
        PROVE  \E i \in 1..m : list[i] = c
    <2>1. PICK i \in 1..m : small[i] = Min(c)
      BY <1>3
    <2>2. Min(c) \in c /\ Min(c) \in list[i] /\ list[i] \in found
      BY <1>1, <1>6, <2>1
    <2>3. list[i] = c
      BY <2>2 DEF Divides
    <2> QED
      BY <2>3
  <1>9. ASSUME NEW i \in 1..m, NEW f \in list[i]
        PROVE  OwnerIn(list, f) = i
    <2> DEFINE I == {j \in 1..Len(list) : f \in list[j]}
    <2>1. Len(list) = m
      BY <1>3, <1>4, <1>5
    <2>2. I = {i}
      BY <1>7, <2>1
    <2>3. OwnerIn(list, f) = IF I # {} THEN Min(I) ELSE 0
      BY DEF OwnerIn, SelectInSeq
    <2> HIDE DEF I
    <2>4. {i} \in SUBSET Nat
      BY <1>3
    <2>5. Min({i}) = i
      BY <2>4, LeastMember
    <2> QED
      BY <2>2, <2>3, <2>5
  <1> QED
    BY <1>3, <1>5, <1>6, <1>8, <1>9 DEF list

\* The component of a function.
Own(f) == OwnerIn(Components, f)

(* The reach of calls is transitive.                                       *)
LEMMA ReachComposes ==
    ASSUME Typed
    PROVE  /\ Edges \in SUBSET (Callables \X Callables)
           /\ \A f, g, h : <<f, g>> \in Reach /\ <<g, h>> \in Reach => <<f, h>> \in Reach
           /\ \A f \in Callables : \A g \in CalleesOf(program[f]) : <<f, g>> \in Edges
  <1>1. Edges \in SUBSET (Callables \X Callables) /\ IsFiniteSet(Callables)
    BY TypedFacts DEF Edges, CallGraphEdges, Callables
  <1>2. \A f, g, h : <<f, g>> \in Reach /\ <<g, h>> \in Reach => <<f, h>> \in Reach
    BY <1>1, ClosureCloses DEF Reach
  <1>3. ASSUME NEW f \in Callables, NEW g \in CalleesOf(program[f])
        PROVE  <<f, g>> \in Edges
    <2>1. g \in Callables /\ program[f] \in FunctionBody(Len(program)) /\ Len(program) \in Nat
      BY TypedFacts
    <2>2. PICK s \in DOMAIN program[f].sites :
             Resolved(program[f].sites[s]) /\ g = Callee(program[f].sites[s])
      BY DEF CalleesOf
    <2>3. g \in program[f].sites[s]
      <3>1. program[f].sites[s] # {}
        BY <2>2, FS_EmptySet DEF Resolved
      <3> QED
        BY <2>2, <3>1 DEF Callee
    <2>4. g \in UNION Range(program[f].sites)
      BY <2>3 DEF Range
    <2>5. PICK e : e = <<f, g>>
      OBVIOUS
    <2>6. e \in (DOMAIN program) \X (DOMAIN program) /\ e[1] = f /\ e[2] = g
      BY <2>1, <2>5 DEF Callables
    <2> QED
      BY <2>4, <2>5, <2>6 DEF Edges, CallGraphEdges
  <1> QED
    BY <1>1, <1>2, <1>3

(* The classes divide the functions.                                       *)
LEMMA ClassesDivide ==
    ASSUME Typed
    PROVE  /\ Divides(MutuallyRecursive(program))
           /\ \A c \in MutuallyRecursive(program) : c \in SUBSET Callables
           /\ \A f \in Callables : \E c \in MutuallyRecursive(program) : f \in c
  <1> DEFINE classes == MutuallyRecursive(program)
  <1>1. classes = {Class(f) : f \in Callables}
    BY DEF Class, MutuallyRecursive, Callables, Reach, Edges
  <1>2. \A f \in Callables : f \in Class(f) /\ Class(f) \in SUBSET Callables
    BY DEF Class
  <1>3. Callables \in SUBSET Nat /\ IsFiniteSet(Callables)
    BY TypedFacts
  <1> HIDE DEF classes
  <1>4. IsFiniteSet(classes)
    <2> DEFINE h == [f \in Callables |-> Class(f)]
    <2>1. h \in Surjection(Callables, classes)
      BY <1>1 DEF Surjection
    <2> HIDE DEF h
    <2> QED
      BY <1>3, <2>1, FS_Surjection
  <1>5. ASSUME NEW f \in Callables, NEW g \in Callables, NEW x, x \in Class(f), x \in Class(g)
        PROVE  Class(f) \subseteq Class(g)
    <2>1. x = f \/ (<<f, x>> \in Reach /\ <<x, f>> \in Reach)
      BY <1>5 DEF Class
    <2>2. x = g \/ (<<g, x>> \in Reach /\ <<x, g>> \in Reach)
      BY <1>5 DEF Class
    <2>3. ASSUME NEW y \in Class(f) PROVE y \in Class(g)
      <3>1. y \in Callables /\ (y = f \/ (<<f, y>> \in Reach /\ <<y, f>> \in Reach))
        BY DEF Class
      <3>2. y = g \/ (<<g, y>> \in Reach /\ <<y, g>> \in Reach)
        BY <2>1, <2>2, <3>1, ReachComposes
      <3> QED
        BY <3>1, <3>2 DEF Class
    <2> QED
      BY <2>3
  <1>6. \A c, d \in classes : \A x : x \in c /\ x \in d => c = d
    BY <1>1, <1>5
  <1>7. Divides(classes)
    <2>1. \A c \in classes : c \in SUBSET Nat /\ c # {}
      <3>1. ASSUME NEW c \in classes PROVE c \in SUBSET Nat /\ c # {}
        <4>1. PICK f \in Callables : c = Class(f)
          BY <1>1
        <4> QED
          BY <1>2, <1>3, <4>1
      <3> QED
        BY <3>1
    <2> QED
      BY <1>4, <1>6, <2>1 DEF Divides
  <1> QED
    BY <1>1, <1>2, <1>7 DEF classes

Exact == Typed /\ call_graph = ExactDecomposition(program)

(* Components are the classes; edges join those of a call between them.    *)
LEMMA DecompositionFacts ==
    ASSUME Exact
    PROVE  /\ \E m \in Nat : DOMAIN Components = 1..m
           /\ \A i \in DOMAIN Components : Components[i] \in SUBSET Callables /\ Components[i] # {}
           /\ \A i \in DOMAIN Components : \A f \in Components[i] : Own(f) = i
           /\ \A f \in Callables : Own(f) \in DOMAIN Components /\ f \in Components[Own(f)]
           /\ call_graph.edges \in SUBSET ((DOMAIN Components) \X (DOMAIN Components))
           /\ \A f, g : <<f, g>> \in Edges /\ Own(f) # Own(g) => <<Own(f), Own(g)>> \in call_graph.edges
           /\ \A i \in DOMAIN Components : i \notin call_graph.cyclic =>
                 \A f, g \in Components[i] : f = g /\ <<f, f>> \notin Edges
  <1> DEFINE found == MutuallyRecursive(program)
             list == Listed(found)
  <1>1. Divides(found) /\ (\A c \in found : c \in SUBSET Callables)
        /\ \A f \in Callables : \E c \in found : f \in c
    BY ClassesDivide DEF Exact
  <1>2. call_graph = Decomposition(found, Edges)
    BY DEF Exact, ExactDecomposition, Edges
  <1> HIDE DEF found
  <1>3. call_graph =
           [components |-> list,
            cyclic |-> {i \in DOMAIN list :
                           \/ Cardinality(list[i]) > 1
                           \/ \E f \in list[i] : <<f, f>> \in Edges},
            edges |-> {<<OwnerIn(list, e[1]), OwnerIn(list, e[2])>> : e \in Edges}
                          \ {<<i, i>> : i \in DOMAIN list}]
    BY <1>2 DEF Decomposition, Listed, Smallest, OwnerIn
  <1>4. /\ \E m \in Nat : DOMAIN list = 1..m
        /\ \A i \in DOMAIN list : list[i] \in found
        /\ \A i \in DOMAIN list : \A f \in list[i] : OwnerIn(list, f) = i
        /\ \A c \in found : \E i \in DOMAIN list : list[i] = c
    BY <1>1, ClassesAreListed
  <1> HIDE DEF list
  <1>5. Components = list /\ \A f : Own(f) = OwnerIn(list, f)
    BY <1>3 DEF Components, Own
  <1>6. \A i \in DOMAIN list : list[i] \in SUBSET Callables /\ list[i] # {}
    BY <1>1, <1>4 DEF Divides
  <1>7. \A f \in Callables : Own(f) \in DOMAIN list /\ f \in list[Own(f)]
    BY <1>1, <1>4, <1>5
  <1>8. Edges \in SUBSET (Callables \X Callables)
    BY ReachComposes DEF Exact
  <1>9. call_graph.edges = {<<Own(e[1]), Own(e[2])>> : e \in Edges} \ {<<i, i>> : i \in DOMAIN list}
    BY <1>3, <1>5
  <1>10. call_graph.edges \in SUBSET ((DOMAIN list) \X (DOMAIN list))
    <2>1. ASSUME NEW p \in call_graph.edges PROVE p \in (DOMAIN list) \X (DOMAIN list)
      <3>1. PICK e \in Edges : p = <<Own(e[1]), Own(e[2])>>
        BY <1>9
      <3>2. e[1] \in Callables /\ e[2] \in Callables
        BY <1>8
      <3>3. Own(e[1]) \in DOMAIN list /\ Own(e[2]) \in DOMAIN list
        BY <1>7, <3>2
      <3>4. PICK i, j : i = Own(e[1]) /\ j = Own(e[2])
        OBVIOUS
      <3>5. p = <<i, j>> /\ i \in DOMAIN list /\ j \in DOMAIN list
        BY <3>1, <3>3, <3>4, Zenon
      <3> QED
        BY <3>5
    <2> QED
      BY <2>1
  <1>11. ASSUME NEW f, NEW g, <<f, g>> \in Edges, Own(f) # Own(g)
         PROVE  <<Own(f), Own(g)>> \in call_graph.edges
    <2>1. PICK e : e = <<f, g>>
      OBVIOUS
    <2>2. e \in Edges /\ e[1] = f /\ e[2] = g
      BY <1>11, <2>1
    <2>3. <<Own(f), Own(g)>> \in {<<Own(d[1]), Own(d[2])>> : d \in Edges}
      BY <2>2
    <2>4. <<Own(f), Own(g)>> \notin {<<i, i>> : i \in DOMAIN list}
      BY <1>11
    <2> QED
      BY <1>9, <2>3, <2>4
  <1>12. ASSUME NEW i \in DOMAIN list, i \notin call_graph.cyclic, NEW f \in list[i], NEW g \in list[i]
         PROVE  f = g /\ <<f, f>> \notin Edges
    <2>1. ~(Cardinality(list[i]) > 1) /\ <<f, f>> \notin Edges
      BY <1>3, <1>12
    <2>2. IsFiniteSet(list[i]) /\ {f, g} \in SUBSET list[i]
      <3>1. IsFiniteSet(Callables)
        BY TypedFacts DEF Exact
      <3> QED
        BY <1>6, <3>1, FS_Subset
    <2>3. f # g => Cardinality({f, g}) = 2
      <3>1. SUFFICES ASSUME f # g PROVE Cardinality({f, g}) = 2
        OBVIOUS
      <3>2. IsFiniteSet({f}) /\ Cardinality({f}) = 1
        BY FS_Singleton
      <3>3. Cardinality({f} \cup {g}) = 1 + 1
        BY <3>1, <3>2, FS_AddElement
      <3>4. {f} \cup {g} = {f, g}
        OBVIOUS
      <3> QED
        BY <3>3, <3>4
    <2>4. Cardinality(list[i]) \in Nat /\ Cardinality({f, g}) \in Nat /\ Cardinality({f, g}) <= Cardinality(list[i])
      BY <2>2, FS_Subset, FS_CardinalityType
    <2> QED
      BY <2>1, <2>3, <2>4
  <1> QED
    BY <1>4, <1>5, <1>6, <1>7, <1>10, <1>11, <1>12

-------------------------------------------------------------------------------
(* The invariant of the solver *)

\* The calls of component i that the order still has to pass.
Awaited(i) == {e \in call_graph.edges : e[1] = i /\ e[2] \notin Range(order)}

\* No component is placed before those it calls.
OrderIsSound ==
    /\ order \in Seq(DOMAIN Components)
    /\ ready \subseteq (DOMAIN Components) \ Range(order)
    /\ remaining_callees = [i \in DOMAIN Components |-> Cardinality(Awaited(i))]
    /\ \A i \in ready \cup Range(order) : Awaited(i) = {}
    /\ \A p \in DOMAIN order : \A e \in call_graph.edges :
          e[1] = order[p] => \E q \in 1..(p - 1) : order[q] = e[2]

\* Evaluating f again changes nothing.
Holds(f, known) == Summarize(f, program[f], known) \subseteq known[f]

\* Summaries are below the solution, they are the solution in the components left
\* behind, and those of the round so far hold as long as nothing has changed.
Kept(known, c, m, dirty, evaluated) ==
    /\ known = [f \in Callables |-> known[f]]
    /\ c \in Nat \ {0} /\ m \in Nat \ {0} /\ dirty \in BOOLEAN
    /\ evaluated \in Seq(Callables)
    /\ \A f \in Callables : known[f] \subseteq Solution[f]
    /\ \A p \in DOMAIN order : p < c =>
          \A f \in Components[order[p]] : known[f] = Solution[f]
    /\ c <= Len(order) /\ ~dirty =>
          \A k \in 1..Cardinality(Components[order[c]]) :
             k < m => Holds(Ascending(Components[order[c]])[k], known)
    /\ \A f \in Range(evaluated) :
          \E p \in DOMAIN order : p <= c /\ f \in Components[order[p]]

SummariesAreSound == Kept(summaries, component, member, changed, processed)

Keeping == phase = "summaries" \/ (phase = "done" /\ summaries # <<>>)
Working == phase = "order" \/ Keeping

SolverInv ==
    /\ phase \in {"call_graph", "order", "summaries", "done"}
    /\ Typed /\ (~edited => program \in Programs)
    /\ phase \in {"call_graph", "order"} =>
          summaries = <<>> /\ processed = <<>> /\ component = 1 /\ member = 1 /\ changed = FALSE
    /\ phase = "call_graph" => order = <<>>
    /\ Working => Exact /\ solution = Solution /\ OrderIsSound
    /\ Keeping => SummariesAreSound

-------------------------------------------------------------------------------
(* What an evaluation reads and keeps *)

(* A summary depends on those of the functions called, and on no other.    *)
LEMMA SummarizeReads ==
    ASSUME Typed, NEW f \in Callables, NEW known, NEW other, DOMAIN known = DOMAIN other,
           \A g \in CalleesOf(program[f]) : known[g] = other[g]
    PROVE  Summarize(f, program[f], known) = Summarize(f, program[f], other)
  <1>1. program[f] \in FunctionBody(Len(program)) /\ Len(program) \in Nat
    BY TypedFacts
  <1>2. /\ ReturnedFormals(program[f], known) \subseteq ReturnedFormals(program[f], other)
        /\ ReturnedFormals(program[f], other) \subseteq ReturnedFormals(program[f], known)
    BY <1>1, ReturnedGrows
  <1>3. \A x : x \in Summarize(f, program[f], known) <=> x \in Summarize(f, program[f], other)
    BY <1>2, SummarizeMembers
  <1> QED
    BY <1>3

(* A lawful merge keeps both sides, and the value when it reports no change. *)
LEMMA MergeKeeps ==
    ASSUME NEW f, NEW candidate
    PROVE  LET merge == MergeCandidate(f, candidate)
           IN /\ merge.value \subseteq summaries[f] \cup candidate
              /\ merge.lawful => summaries[f] \subseteq merge.value /\ candidate \subseteq merge.value
              /\ ~merge.changed => merge.value = summaries[f]
  <1> DEFINE current == summaries[f]
             joined == Joined(current, candidate)
             reported == Reports(current, candidate)
  <1>1. /\ MergeCandidate(f, candidate).value = IF reported THEN joined ELSE current
        /\ MergeCandidate(f, candidate).changed = reported
        /\ MergeCandidate(f, candidate).lawful =>
              /\ reported # (candidate \subseteq current)
              /\ current \subseteq joined /\ candidate \subseteq joined
    BY DEF MergeCandidate
  <1>2. joined \subseteq current \cup candidate
    BY DEF Joined
  <1>4. reported \in BOOLEAN
    BY DEF Reports
  <1> HIDE DEF reported, joined
  <1>3. MergeCandidate(f, candidate).lawful /\ ~reported => candidate \subseteq current
    BY <1>1, <1>4
  <1> QED
    BY <1>1, <1>2, <1>3

(* A component whose summaries hold, after those that it calls, is final.  *)
LEMMA ComponentIsFinal ==
    ASSUME Exact, OrderIsSound, NEW known, DOMAIN known = Callables,
           \A f \in Callables : known[f] \subseteq Solution[f],
           NEW p \in DOMAIN order,
           \A q \in DOMAIN order : q < p => \A f \in Components[order[q]] : known[f] = Solution[f],
           \A f \in Components[order[p]] : Holds(f, known)
    PROVE  \A f \in Components[order[p]] : known[f] = Solution[f]
  <1> DEFINE D == {f \in Callables : \E q \in DOMAIN order : q <= p /\ f \in Components[order[q]]}
  <1>1. Typed /\ order \in Seq(DOMAIN Components)
    BY DEF Exact, OrderIsSound
  <1>2. DOMAIN order = 1..Len(order) /\ Len(order) \in Nat /\ \A q \in DOMAIN order : order[q] \in DOMAIN Components
    BY <1>1
  <1>3. \A f \in D : \E q \in DOMAIN order : q <= p /\ Own(f) = order[q]
    BY <1>2, DecompositionFacts
  <1>4. ASSUME NEW f \in D, NEW g \in CalleesOf(program[f])
        PROVE  g \in D
    <2>1. PICK q \in DOMAIN order : q <= p /\ Own(f) = order[q]
      BY <1>3
    <2>2. g \in Callables /\ <<f, g>> \in Edges
      BY <1>1, TypedFacts, ReachComposes
    <2>3. Own(g) \in DOMAIN Components /\ g \in Components[Own(g)]
      BY <2>2, DecompositionFacts
    <2>4. CASE Own(g) = Own(f)
      BY <2>1, <2>2, <2>3, <2>4
    <2>5. CASE Own(g) # Own(f)
      <3>1. <<Own(f), Own(g)>> \in call_graph.edges
        BY <2>2, <2>5, DecompositionFacts
      <3>2. PICK e : e = <<Own(f), Own(g)>>
        OBVIOUS
      <3>3. PICK r \in 1..(q - 1) : order[r] = e[2]
        BY <2>1, <3>1, <3>2 DEF OrderIsSound
      <3>4. r \in DOMAIN order /\ r <= p /\ order[r] = Own(g)
        BY <1>2, <2>1, <3>2, <3>3
      <3> QED
        BY <2>2, <2>3, <3>4
    <2> QED
      BY <2>4, <2>5
  <1>5. ASSUME NEW f \in D
        PROVE  Summarize(f, program[f], known) \subseteq known[f]
    <2>1. PICK q \in DOMAIN order : q <= p /\ f \in Components[order[q]]
      OBVIOUS
    <2>2. CASE q = p
      BY <2>1, <2>2 DEF Holds
    <2>3. CASE q # p
      <3>1. known[f] = Solution[f]
        BY <1>2, <2>1, <2>3
      <3>2. Summarize(f, program[f], known) \subseteq Solution[f]
        BY <1>1, SolutionAbsorbs
      <3> QED
        BY <3>1, <3>2
    <2> QED
      BY <2>2, <2>3
  <1>6. D \in SUBSET Callables
    OBVIOUS
  <1>7. \A f \in Components[order[p]] : f \in D
    BY <1>2, DecompositionFacts
  <1> HIDE DEF D
  <1>8. \A f \in D : Solution[f] \subseteq known[f]
    BY <1>1, <1>4, <1>5, <1>6, SolutionIsLeast
  <1>9. ASSUME NEW f \in Components[order[p]]
        PROVE  known[f] = Solution[f]
    BY <1>6, <1>7, <1>8
  <1> QED
    BY <1>9

-------------------------------------------------------------------------------
(* Steps that leave the program alone *)

LeastReturns(pairs) ==
    /\ pairs \in SUBSET Facts /\ Round(pairs) = pairs
    /\ \A P \in SUBSET Facts : Round(P) \subseteq P => pairs \subseteq P

(* The returned pairs are the least that a round does not leave.           *)
LEMMA ReturnsAreLeast ==
    /\ Typed => LeastReturns(ReturnSolution)
    /\ (Typed => LeastReturns(ReturnSolution))'
  <1>1. Typed => LeastReturns(ReturnSolution)
    BY ReturnsSolved DEF LeastReturns
  <1> QED
    BY <1>1, PTL

(* A program that stays has the solution it had.                           *)
LEMMA SolutionStays ==
    ASSUME Typed, program' = program
    PROVE  /\ Callables' = Callables /\ Solution' = Solution /\ (Typed' <=> Typed)
           /\ \A f, body, known : Summarize(f, body, known)' = Summarize(f, body, known)
  <1>1. Callables' = Callables /\ (Typed' <=> Typed)
    BY DEF Callables, Typed
  <1>2. \A f, known : ReturnFacts(f, known)' = ReturnFacts(f, known)
    BY DEF ReturnFacts
  <1>3. ReturnSolution' = ReturnSolution
    <2>1. Facts' = Facts /\ \A k : Round(k)' = Round(k)
      BY <1>1, <1>2 DEF Facts, Round, Answers
    <2>2. PICK a, b : a = ReturnSolution /\ b = ReturnSolution'
      OBVIOUS
    <2>3. LeastReturns(a) /\ LeastReturns(b)'
      BY <1>1, <2>2, ReturnsAreLeast DEF LeastReturns
    <2>4. LeastReturns(b)
      BY <2>1, <2>3 DEF LeastReturns
    <2> QED
      BY <2>2, <2>3, <2>4 DEF LeastReturns
  <1>4. CallPairs' = CallPairs
    BY <1>1 DEF CallPairs
  <1>5. Calling' = Calling
    BY <1>4 DEF Calling
  <1>6. Solution' = Solution
    BY <1>1, <1>3, <1>4, <1>5 DEF Solution, Calling, CallPairs
  <1> QED
    BY <1>1, <1>6

(* And the decomposition it had.                                           *)
LEMMA DecompositionStays ==
    ASSUME Typed, program' = program, call_graph' = call_graph
    PROVE  /\ Callables' = Callables /\ Solution' = Solution /\ (Typed' <=> Typed) /\ (Exact' <=> Exact)
           /\ Components' = Components
           /\ \A f, known : Holds(f, known)' <=> Holds(f, known)
  <1>1. Callables' = Callables /\ Solution' = Solution /\ (Typed' <=> Typed)
    BY SolutionStays
  <1>2. Exact' <=> Exact
    BY <1>1, GraphStays DEF Exact
  <1>3. Components' = Components
    BY DEF Components
  <1>4. \A f, known : Holds(f, known)' <=> Holds(f, known)
    BY DEF Holds
  <1> QED
    BY <1>1, <1>2, <1>3, <1>4

(* An order that stays is sound when it was.                               *)
LEMMA OrderStays ==
    ASSUME UNCHANGED <<program, call_graph, orderVars>>, OrderIsSound
    PROVE  OrderIsSound'
  <1>1. /\ call_graph' = call_graph /\ order' = order /\ ready' = ready
        /\ remaining_callees' = remaining_callees
    BY DEF orderVars
  <1>2. Components' = Components /\ \A i : Awaited(i)' = Awaited(i)
    BY <1>1 DEF Components, Awaited
  <1> QED
    BY <1>1, <1>2 DEF OrderIsSound

(* Summaries that stay are sound when they were.                           *)
LEMMA KeptStays ==
    ASSUME Typed, UNCHANGED <<program, call_graph, order>>
    PROVE  \A known, c, m, dirty, evaluated :
              Kept(known, c, m, dirty, evaluated) => Kept(known, c, m, dirty, evaluated)'
  <1>1. /\ Callables' = Callables /\ Solution' = Solution /\ Components' = Components
        /\ \A f, known : Holds(f, known)' <=> Holds(f, known)
    BY DecompositionStays
  <1> QED
    BY <1>1 DEF Kept

(* The members of a component, in the order of their evaluation.           *)
LEMMA MembersAreListed ==
    ASSUME Exact, NEW i \in DOMAIN Components
    PROVE  /\ Cardinality(Components[i]) \in Nat
           /\ \A k \in 1..Cardinality(Components[i]) : Ascending(Components[i])[k] \in Components[i]
           /\ \A f \in Components[i] :
                 \E k \in 1..Cardinality(Components[i]) : Ascending(Components[i])[k] = f
  <1>1. PICK S : S = Components[i]
    OBVIOUS
  <1>2. Callables \in SUBSET Nat /\ IsFiniteSet(Callables)
    BY TypedFacts DEF Exact
  <1>3. S \in SUBSET Callables
    BY <1>1, DecompositionFacts
  <1>4. S \in SUBSET Nat /\ IsFiniteSet(S)
    BY <1>2, <1>3, FS_Subset
  <1>5. /\ Ascending(S) \in Seq(S) /\ DOMAIN Ascending(S) = 1..Cardinality(S)
        /\ \A x \in S : \E j \in DOMAIN Ascending(S) : Ascending(S)[j] = x
    BY <1>4, AscendingLists
  <1>6. Cardinality(S) \in Nat
    BY <1>4, FS_CardinalityType
  <1>7. \A k \in 1..Cardinality(S) : Ascending(S)[k] \in S
    <2>1. PICK list : list = Ascending(S)
      OBVIOUS
    <2>2. list \in Seq(S)
      BY <1>5, <2>1
    <2>3. \A k \in DOMAIN list : list[k] \in S
      BY <2>2
    <2> QED
      BY <1>5, <2>1, <2>3
  <1> QED
    BY <1>1, <1>5, <1>6, <1>7

(* What a merge may put in the place of the summary of f.                  *)
Accepts(known, f, value) ==
    /\ known[f] \subseteq value /\ value \subseteq Solution[f]
    /\ Summarize(f, program[f], known) \subseteq value

Updates(next, known, f, value) == next = [known EXCEPT ![f] = value]

(* A merged summary stays below the solution and above what it was.        *)
LEMMA UpdateKeeps ==
    ASSUME Exact, OrderIsSound, NEW known, NEW c, NEW m, NEW dirty, NEW evaluated,
           Kept(known, c, m, dirty, evaluated), NEW f \in Callables, NEW value,
           Accepts(known, f, value), NEW next, Updates(next, known, f, value)
    PROVE  /\ next = [g \in Callables |-> IF g = f THEN value ELSE known[g]]
           /\ next = [g \in Callables |-> next[g]] /\ DOMAIN next = Callables
           /\ \A g \in Callables : next[g] \subseteq Solution[g]
           /\ \A p \in DOMAIN order : p < c =>
                 \A g \in Components[order[p]] : next[g] = Solution[g]
  <1>1. known = [g \in Callables |-> known[g]]
    BY DEF Kept
  <1>2. next = [g \in Callables |-> IF g = f THEN value ELSE known[g]]
    BY <1>1 DEF Updates
  <1>3. next = [g \in Callables |-> next[g]] /\ DOMAIN next = Callables
    BY <1>2
  <1>4. \A g \in Callables : next[g] \subseteq Solution[g]
    BY <1>2 DEF Kept, Accepts
  <1>5. ASSUME NEW p \in DOMAIN order, p < c, NEW g \in Components[order[p]]
        PROVE  next[g] = Solution[g]
    <2>1. known[g] = Solution[g]
      BY <1>5 DEF Kept
    <2>2. g \in Callables
      <3>1. order[p] \in DOMAIN Components
        BY DEF OrderIsSound
      <3> QED
        BY <3>1, DecompositionFacts
    <2>3. CASE g = f
      BY <1>2, <2>1, <2>2, <2>3 DEF Accepts
    <2>4. CASE g # f
      BY <1>2, <2>1, <2>2, <2>4
    <2> QED
      BY <2>3, <2>4
  <1> QED
    BY <1>2, <1>3, <1>4, <1>5

(* A function that is not recursive is final after its one evaluation.     *)
LEMMA OneEvaluation ==
    ASSUME Exact, OrderIsSound, NEW known, NEW c \in DOMAIN order, NEW m, NEW dirty, NEW evaluated,
           Kept(known, c, m, dirty, evaluated), order[c] \notin call_graph.cyclic,
           NEW f \in Components[order[c]], NEW value, Accepts(known, f, value),
           NEW after \in Seq(Callables), Range(after) \subseteq Range(evaluated) \cup {f}
    PROVE  Kept([known EXCEPT ![f] = value], c + 1, 1, FALSE, after)
  <1>1. PICK next : next = [known EXCEPT ![f] = value]
    OBVIOUS
  <1>2. Typed /\ order \in Seq(DOMAIN Components) /\ order[c] \in DOMAIN Components
    BY DEF Exact, OrderIsSound
  <1>3. f \in Callables
    BY <1>2, DecompositionFacts
  <1>4. /\ next = [g \in Callables |-> IF g = f THEN value ELSE known[g]]
        /\ next = [g \in Callables |-> next[g]] /\ DOMAIN next = Callables
        /\ \A g \in Callables : next[g] \subseteq Solution[g]
        /\ \A p \in DOMAIN order : p < c => \A g \in Components[order[p]] : next[g] = Solution[g]
    <2>1. Updates(next, known, f, value)
      BY <1>1 DEF Updates
    <2> QED
      BY <1>3, <2>1, UpdateKeeps
  <1>5. Holds(f, next)
    <2>1. \A g \in CalleesOf(program[f]) : g \in Callables /\ g # f
      BY <1>2, <1>3, TypedFacts, ReachComposes, DecompositionFacts
    <2>2. \A g \in CalleesOf(program[f]) : known[g] = next[g]
      BY <1>4, <2>1
    <2>3. DOMAIN known = DOMAIN next
      <3>1. known = [g \in Callables |-> known[g]]
        BY DEF Kept
      <3> QED
        BY <1>4, <3>1
    <2>4. Summarize(f, program[f], known) = Summarize(f, program[f], next)
      BY <1>2, <1>3, <2>2, <2>3, SummarizeReads
    <2>5. next[f] = value
      BY <1>3, <1>4
    <2> QED
      BY <2>4, <2>5 DEF Holds, Accepts
  <1>6. \A g \in Components[order[c]] : g = f
    BY <1>2, DecompositionFacts
  <1>7. \A g \in Components[order[c]] : next[g] = Solution[g]
    <2>1. \A g \in Components[order[c]] : Holds(g, next)
      BY <1>5, <1>6
    <2> QED
      BY <1>4, <2>1, ComponentIsFinal
  <1>8. c \in Nat \ {0} /\ DOMAIN order \subseteq Nat
    BY <1>2
  <1>9. \A p \in DOMAIN order : p < c + 1 => \A g \in Components[order[p]] : next[g] = Solution[g]
    <2>1. \A p \in DOMAIN order : p < c + 1 => p < c \/ p = c
      BY <1>8
    <2> QED
      BY <1>4, <1>7, <2>1
  <1>10. \A g \in Range(after) : \E p \in DOMAIN order : p <= c + 1 /\ g \in Components[order[p]]
    <2>1. \A g \in Range(evaluated) : \E p \in DOMAIN order : p <= c /\ g \in Components[order[p]]
      BY DEF Kept
    <2>2. \A p \in DOMAIN order : p <= c => p <= c + 1
      BY <1>8
    <2>3. c <= c
      BY <1>8
    <2> QED
      BY <2>1, <2>2, <2>3
  <1>11. c + 1 \in Nat \ {0} /\ 1 \in Nat \ {0} /\ \A k \in Nat \ {0} : ~(k < 1)
    BY <1>8
  <1>12. \A k \in 1..Cardinality(Components[order[c + 1]]) : ~(k < 1)
    OBVIOUS
  <1> QED
    BY <1>1, <1>4, <1>9, <1>10, <1>11, <1>12 DEF Kept

\* A change is on record when there was one before, or now.
Reported(now, dirty, known, f, value) ==
    now \in BOOLEAN /\ (now = FALSE => dirty = FALSE /\ value = known[f])

(* An evaluation in a recursion adds its function to those that hold, when *)
(* it and the round before it changed nothing.                             *)
LEMMA RoundGoesOn ==
    ASSUME Exact, OrderIsSound, NEW known, NEW c \in DOMAIN order, NEW m, NEW dirty, NEW evaluated,
           Kept(known, c, m, dirty, evaluated), NEW f \in Components[order[c]],
           f = Ascending(Components[order[c]])[m], NEW value, Accepts(known, f, value),
           NEW now, Reported(now, dirty, known, f, value),
           NEW after \in Seq(Callables), Range(after) \subseteq Range(evaluated) \cup {f}
    PROVE  Kept([known EXCEPT ![f] = value], c, m + 1, now, after)
  <1>1. PICK next : next = [known EXCEPT ![f] = value]
    OBVIOUS
  <1>2. Typed /\ order \in Seq(DOMAIN Components) /\ order[c] \in DOMAIN Components
    BY DEF Exact, OrderIsSound
  <1>3. f \in Callables
    BY <1>2, DecompositionFacts
  <1>4. /\ next = [g \in Callables |-> IF g = f THEN value ELSE known[g]]
        /\ next = [g \in Callables |-> next[g]] /\ DOMAIN next = Callables
        /\ \A g \in Callables : next[g] \subseteq Solution[g]
        /\ \A p \in DOMAIN order : p < c => \A g \in Components[order[p]] : next[g] = Solution[g]
    <2>1. Updates(next, known, f, value)
      BY <1>1 DEF Updates
    <2> QED
      BY <1>3, <2>1, UpdateKeeps
  <1>5. c \in Nat \ {0} /\ m \in Nat \ {0} /\ m + 1 \in Nat \ {0} /\ c <= Len(order) /\ c <= c
    <2>1. m \in Nat \ {0} /\ c \in Nat \ {0}
      BY DEF Kept
    <2> QED
      BY <1>2, <2>1
  <1>6. ASSUME now = FALSE, NEW k \in 1..Cardinality(Components[order[c]]), k < m + 1
        PROVE  Holds(Ascending(Components[order[c]])[k], next)
    <2>1. value = known[f] /\ dirty = FALSE
      BY <1>6 DEF Reported
    <2>2. next = known
      <3>1. known = [g \in Callables |-> known[g]]
        BY DEF Kept
      <3> QED
        BY <1>4, <2>1, <3>1
    <2>3. CASE k < m
      BY <1>5, <2>1, <2>2, <2>3 DEF Kept
    <2>4. CASE ~(k < m)
      <3>1. k = m
        <4>1. k \in Int /\ m \in Int
          BY <1>5
        <4> QED
          BY <1>6, <2>4, <4>1
      <3> QED
        BY <2>1, <2>2, <3>1 DEF Holds, Accepts
    <2> QED
      BY <2>3, <2>4
  <1>7. \A g \in Range(after) : \E p \in DOMAIN order : p <= c /\ g \in Components[order[p]]
    <2>1. \A g \in Range(evaluated) : \E p \in DOMAIN order : p <= c /\ g \in Components[order[p]]
      BY DEF Kept
    <2> QED
      BY <1>5, <2>1
  <1>8. now \in BOOLEAN /\ (~now => now = FALSE)
    BY DEF Reported
  <1>9. c <= Len(order) /\ ~now =>
           \A k \in 1..Cardinality(Components[order[c]]) :
              k < m + 1 => Holds(Ascending(Components[order[c]])[k], next)
    BY <1>6, <1>8
  <1> QED
    BY <1>1, <1>4, <1>5, <1>7, <1>8, <1>9 DEF Kept

(* After a round without a change the component is final.                  *)
LEMMA RoundIsLast ==
    ASSUME Exact, OrderIsSound, NEW known, NEW c \in DOMAIN order, NEW m, NEW dirty, NEW evaluated,
           Kept(known, c, m, dirty, evaluated), dirty = FALSE, m > Cardinality(Components[order[c]])
    PROVE  Kept(known, c + 1, 1, FALSE, evaluated)
  <1>1. Typed /\ order \in Seq(DOMAIN Components) /\ order[c] \in DOMAIN Components
    BY DEF Exact, OrderIsSound
  <1>2. /\ c \in Nat \ {0} /\ m \in Nat \ {0} /\ c <= Len(order)
        /\ known = [g \in Callables |-> known[g]]
        /\ \A g \in Callables : known[g] \subseteq Solution[g]
        /\ \A p \in DOMAIN order : p < c => \A g \in Components[order[p]] : known[g] = Solution[g]
    <2>1. c <= Len(order)
      BY <1>1
    <2> QED
      BY <2>1 DEF Kept
  <1>3. ASSUME NEW g \in Components[order[c]]
        PROVE  Holds(g, known)
    <2>1. PICK k \in 1..Cardinality(Components[order[c]]) : Ascending(Components[order[c]])[k] = g
      BY <1>1, MembersAreListed
    <2>2. k < m
      BY <1>1, <1>2, MembersAreListed
    <2> QED
      BY <1>2, <2>1, <2>2 DEF Kept
  <1>4. DOMAIN known = Callables
    BY <1>2
  <1>5. \A g \in Components[order[c]] : known[g] = Solution[g]
    BY <1>2, <1>3, <1>4, ComponentIsFinal
  <1>6. \A p \in DOMAIN order : p < c + 1 => \A g \in Components[order[p]] : known[g] = Solution[g]
    <2>1. \A p \in DOMAIN order : p < c + 1 => p < c \/ p = c
      BY <1>1, <1>2
    <2> QED
      BY <1>2, <1>5, <2>1
  <1>7. \A g \in Range(evaluated) : \E p \in DOMAIN order : p <= c + 1 /\ g \in Components[order[p]]
    <2>1. \A g \in Range(evaluated) : \E p \in DOMAIN order : p <= c /\ g \in Components[order[p]]
      BY DEF Kept
    <2>2. \A p \in DOMAIN order : p <= c => p <= c + 1
      BY <1>1, <1>2
    <2> QED
      BY <2>1, <2>2
  <1>8. c + 1 \in Nat \ {0} /\ 1 \in Nat \ {0} /\ evaluated \in Seq(Callables)
    BY <1>2 DEF Kept
  <1>9. \A k \in 1..Cardinality(Components[order[c + 1]]) : ~(k < 1)
    OBVIOUS
  <1> QED
    BY <1>2, <1>6, <1>7, <1>8, <1>9 DEF Kept

-------------------------------------------------------------------------------
(* The steps *)

(* Programs stay well formed when they are edited.                         *)
LEMMA EditIsTyped ==
    ASSUME SolverInv, Edit
    PROVE  Typed'
  <1> DEFINE n == Len(program)
  <1>1. ~edited /\ Typed /\ program \in Programs
    BY DEF Edit, SolverInv
  <1>2. Callables = 1..n /\ n \in Nat /\ \A f \in Callables : program[f] \in FunctionBody(n)
    BY <1>1, TypedFacts
  <1>3. Edits \subseteq FunctionBody(n)
    BY <1>1, BodyAssumption
  <1> HIDE DEF n
  <1>4. CASE \E f \in DOMAIN program, body \in Edits : program' = [program EXCEPT ![f] = body]
    <2>1. PICK f \in Callables, body \in FunctionBody(n) : program' = [program EXCEPT ![f] = body]
      BY <1>3, <1>4 DEF Callables
    <2>2. program \in Seq(FunctionBody(n))
      BY <1>1 DEF Typed, n
    <2>3. program' \in Seq(FunctionBody(n)) /\ Len(program') = n
      BY <2>1, <2>2 DEF Callables, n
    <2> QED
      BY <2>3 DEF Typed
  <1>5. CASE \E body \in Edits : program' = Append(program, body)
    <2>1. PICK body \in FunctionBody(n) : program' = Append(program, body)
      BY <1>3, <1>5
    <2>2. FunctionBody(n) \subseteq FunctionBody(n + 1)
      <3>1. Seq(SUBSET (1..n)) \subseteq Seq(SUBSET (1..(n + 1)))
        <4>1. SUBSET (1..n) \subseteq SUBSET (1..(n + 1))
          BY <1>2
        <4> QED
          BY <4>1
      <3> QED
        BY <3>1 DEF FunctionBody
    <2>3. program \in Seq(FunctionBody(n + 1))
      <3>1. program \in Seq(FunctionBody(n))
        BY <1>1 DEF Typed, n
      <3> QED
        BY <2>2, <3>1
    <2>4. program' \in Seq(FunctionBody(n + 1)) /\ Len(program') = n + 1
      BY <2>1, <2>2, <2>3 DEF n
    <2> QED
      BY <2>4 DEF Typed
  <1>6. CASE \E k \in {Len(program)} \ {1} :
                program' = [f \in 1..(k - 1) |->
                               [program[f] EXCEPT !.sites = [s \in DOMAIN @ |-> @[s] \ {k}]]]
    <2> DEFINE less(f) == [program[f] EXCEPT !.sites = [s \in DOMAIN @ |-> @[s] \ {n}]]
    <2>1. n - 1 \in Nat /\ program' = [f \in 1..(n - 1) |-> less(f)]
      <3>1. n \in 1..(MaxIndex - 1)
        BY <1>1, ProgramAssumption DEF n
      <3>2. n - 1 \in Nat
        BY <1>2, <3>1
      <3>3. n = Len(program)
        BY DEF n
      <3>4. \E k \in {n} : program' = [f \in 1..(k - 1) |->
                      [program[f] EXCEPT !.sites = [s \in DOMAIN @ |-> @[s] \ {k}]]]
        BY <1>6, <3>3, Zenon
      <3>5. program' = [f \in 1..(n - 1) |-> less(f)]
        BY <3>4, Zenon
      <3> QED
        BY <3>2, <3>5
    <2>2. ASSUME NEW f \in 1..(n - 1)
          PROVE  less(f) \in FunctionBody(n - 1)
      <3>1. PICK body \in FunctionBody(n) : body = program[f]
        BY <1>2
      <3>2. PICK sites : sites = body.sites
        OBVIOUS
      <3>3. PICK fewer : fewer = [s \in DOMAIN sites |-> sites[s] \ {n}]
        OBVIOUS
      <3>4. sites \in Seq(SUBSET (1..n)) /\ Len(sites) <= Len(Calls)
        BY <3>2 DEF FunctionBody
      <3>5. fewer \in Seq(SUBSET (1..(n - 1))) /\ Len(fewer) = Len(sites)
        BY <1>2, <3>3, <3>4
      <3>6. less(f) = [body EXCEPT !.sites = fewer]
        BY <3>1, <3>2, <3>3
      <3>7. [body EXCEPT !.sites = fewer] \in FunctionBody(n - 1)
        BY <3>4, <3>5 DEF FunctionBody
      <3> QED
        BY <3>6, <3>7
    <2> HIDE DEF less
    <2>3. program' \in Seq(FunctionBody(n - 1)) /\ Len(program') = n - 1
      BY <2>1, <2>2
    <2> QED
      BY <2>3 DEF Typed
  <1>7. program' \in Rewrites(program)
    BY DEF Edit
  <1> QED
    BY <1>4, <1>5, <1>6, <1>7 DEF Rewrites

(* A decomposition that passes is that of the program.                     *)
LEMMA SolveStep ==
    ASSUME SolverInv, Solve
    PROVE  SolverInv'
  <1>1. /\ phase = "call_graph" /\ program' = program /\ call_graph' = call_graph /\ order' = order
        /\ edited' = edited /\ summaries' = summaries /\ processed' = processed
        /\ component' = component /\ member' = member /\ changed' = changed
        /\ solution' = Solution
        /\ phase' = IF cap_events' \cup issues' # {} THEN "done" ELSE "order"
        /\ issues' = IF cap_events' # {} THEN {} ELSE ValidateCallGraph
        /\ remaining_callees' = [i \in DOMAIN Components |->
                                    Cardinality({e \in call_graph.edges : e[1] = i})]
        /\ ready' = {i \in DOMAIN Components : \A e \in call_graph.edges : e[1] # i}
    BY DEF Solve, sccVars, place, results
  <1>2. /\ Typed /\ order = <<>> /\ summaries = <<>> /\ processed = <<>>
        /\ component = 1 /\ member = 1 /\ changed = FALSE /\ (~edited => program \in Programs)
    BY <1>1 DEF SolverInv
  <1>3. Typed' /\ Solution' = Solution /\ Components' = Components /\ (Exact' <=> Exact)
    BY <1>1, <1>2, DecompositionStays
  <1>4. ~Keeping'
    BY <1>1, <1>2 DEF Keeping
  <1>5. ASSUME Working' PROVE Exact' /\ (solution = Solution)' /\ OrderIsSound'
    <2>1. phase' = "order"
      BY <1>4, <1>5 DEF Working
    <2>2. ValidateCallGraph = {}
      BY <1>1, <2>1
    <2>3. call_graph = ExactDecomposition(program)
      BY <2>2 DEF ValidateCallGraph
    <2>4. Range(order) = {} /\ order \in Seq(DOMAIN Components) /\ DOMAIN order = {}
      BY <1>2 DEF Range
    <2>5. \A i : Awaited(i)' = {e \in call_graph.edges : e[1] = i}
      BY <1>1, <2>4 DEF Awaited
    <2>6. OrderIsSound'
      BY <1>1, <1>3, <2>4, <2>5 DEF OrderIsSound
    <2> QED
      BY <1>1, <1>2, <1>3, <2>3, <2>6 DEF Exact
  <1>6. phase' \in {"order", "done"}
    BY <1>1
  <1> QED
    BY <1>1, <1>2, <1>3, <1>4, <1>5, <1>6 DEF SolverInv

(* The component placed next is one of those that are ready.               *)
LEMMA FirstIsReady ==
    ASSUME Exact, OrderIsSound, ready # {}
    PROVE  FirstReady \in ready
  <1> DEFINE least == {Min(Components[i]) : i \in ready}
  <1>1. \A i \in ready : Components[i] \in SUBSET Nat /\ Components[i] # {}
    <2>1. Callables \in SUBSET Nat
      BY TypedFacts DEF Exact
    <2> QED
      BY <2>1, DecompositionFacts DEF OrderIsSound
  <1>2. least \in SUBSET Nat /\ least # {}
    BY <1>1, LeastMember
  <1>3. PICK x \in least : \A y \in least : x <= y
    <2> HIDE DEF least
    <2> QED
      BY <1>2, LeastOfNaturals
  <1>4. PICK i \in ready : x = Min(Components[i])
    BY <1>3
  <1>5. \A j \in ready : Min(Components[i]) <= Min(Components[j])
    BY <1>3, <1>4
  <1> QED
    BY <1>5 DEF FirstReady

(* The next component is placed after all that it calls.                   *)
LEMMA OrderGrows ==
    ASSUME Exact, OrderIsSound, OrderNext
    PROVE  OrderIsSound'
  <1>1. PICK i : i = FirstReady
    OBVIOUS
  <1>2. /\ call_graph' = call_graph /\ program' = program
        /\ order' = Append(order, i)
        /\ remaining_callees' = [j \in DOMAIN Components |->
               remaining_callees[j] - IF j \in Callers(i) THEN 1 ELSE 0]
        /\ ready' = (ready \ {i}) \cup {j \in Callers(i) : remaining_callees'[j] = 0}
    BY <1>1 DEF OrderNext, input, sccVars
  <1>3. i \in ready /\ i \in DOMAIN Components /\ i \notin Range(order) /\ Awaited(i) = {}
    <2>1. i \in ready
      BY <1>1, FirstIsReady DEF OrderNext
    <2> QED
      BY <2>1 DEF OrderIsSound
  <1>4. Components' = Components
    BY <1>2 DEF Components
  <1>5. /\ order \in Seq(DOMAIN Components) /\ order' \in Seq(DOMAIN Components)
        /\ DOMAIN order' = 1..(Len(order) + 1) /\ Len(order) \in Nat /\ DOMAIN order = 1..Len(order)
        /\ order'[Len(order) + 1] = i /\ \A p \in DOMAIN order : order'[p] = order[p]
    <2>1. order \in Seq(DOMAIN Components)
      BY DEF OrderIsSound
    <2> QED
      BY <1>2, <1>3, <2>1
  <1>6. Range(order') = Range(order) \cup {i}
    BY <1>5 DEF Range
  <1>7. /\ call_graph.edges \in SUBSET ((DOMAIN Components) \X (DOMAIN Components))
        /\ IsFiniteSet(call_graph.edges)
    <2>1. PICK m \in Nat : DOMAIN Components = 1..m
      BY DecompositionFacts
    <2>2. IsFiniteSet(DOMAIN Components)
      BY <2>1, FS_Interval
    <2>3. IsFiniteSet((DOMAIN Components) \X (DOMAIN Components))
      BY <2>2, FS_Product
    <2>4. call_graph.edges \in SUBSET ((DOMAIN Components) \X (DOMAIN Components))
      BY DecompositionFacts
    <2> QED
      BY <2>3, <2>4, FS_Subset
  <1>8. \A j : Awaited(j)' = {e \in Awaited(j) : e[2] # i}
    BY <1>2, <1>6 DEF Awaited
  <1>9. \A j : j \in Callers(i) <=> <<j, i>> \in call_graph.edges
    <2>1. ASSUME NEW j, <<j, i>> \in call_graph.edges PROVE j \in Callers(i)
      <3>1. PICK e : e = <<j, i>>
        OBVIOUS
      <3>2. e \in call_graph.edges /\ e[1] = j /\ e[2] = i
        BY <2>1, <3>1
      <3> QED
        BY <3>2 DEF Callers
    <2>2. ASSUME NEW j, j \in Callers(i) PROVE <<j, i>> \in call_graph.edges
      <3>1. PICK e \in call_graph.edges : e[1] = j /\ e[2] = i
        BY <2>2 DEF Callers
      <3>2. e = <<e[1], e[2]>>
        BY <1>7
      <3> QED
        BY <3>1, <3>2
    <2> QED
      BY <2>1, <2>2
  <1>10. \A j : Awaited(j) \in SUBSET call_graph.edges /\ IsFiniteSet(Awaited(j))
                /\ Cardinality(Awaited(j)) \in Nat
    <2>1. \A j : Awaited(j) \in SUBSET call_graph.edges
      BY DEF Awaited
    <2> QED
      BY <1>7, <2>1, FS_Subset, FS_CardinalityType
  <1>11. ASSUME NEW j, j \in Callers(i)
         PROVE  /\ Awaited(j)' = Awaited(j) \ {<<j, i>>} /\ <<j, i>> \in Awaited(j)
                /\ Cardinality(Awaited(j)') = Cardinality(Awaited(j)) - 1
    <2>1. PICK e : e = <<j, i>>
      OBVIOUS
    <2>2. e \in call_graph.edges /\ e[1] = j /\ e[2] = i
      BY <1>9, <1>11, <2>1
    <2>3. e \in Awaited(j)
      BY <1>3, <2>2 DEF Awaited
    <2>4. \A d \in Awaited(j) : d[2] = i => d = e
      <3>1. \A d \in Awaited(j) : d = <<d[1], d[2]>> /\ d[1] = j
        BY <1>7 DEF Awaited
      <3> QED
        BY <2>1, <3>1
    <2>5. Awaited(j)' = Awaited(j) \ {e}
      BY <1>8, <2>2, <2>4
    <2>6. Cardinality(Awaited(j) \ {e}) = Cardinality(Awaited(j)) - 1
      BY <1>10, <2>3, FS_RemoveElement
    <2> QED
      BY <2>1, <2>3, <2>5, <2>6
  <1>12. ASSUME NEW j, j \notin Callers(i)
         PROVE  Awaited(j)' = Awaited(j)
    <2>1. \A d \in Awaited(j) : d[2] # i
      <3>1. \A d \in Awaited(j) : d = <<d[1], d[2]>> /\ d[1] = j /\ d \in call_graph.edges
        BY <1>7 DEF Awaited
      <3> QED
        BY <1>9, <1>12, <3>1
    <2> QED
      BY <1>8, <2>1
  <1>13. remaining_callees = [j \in DOMAIN Components |-> Cardinality(Awaited(j))]
    BY DEF OrderIsSound
  <1>14. \A j \in DOMAIN Components : remaining_callees'[j] = Cardinality(Awaited(j)')
    <2>1. ASSUME NEW j \in DOMAIN Components
          PROVE  remaining_callees'[j] = Cardinality(Awaited(j)')
      <3>1. remaining_callees[j] = Cardinality(Awaited(j)) /\ Cardinality(Awaited(j)) \in Nat
        BY <1>10, <1>13
      <3>2. CASE j \in Callers(i)
        BY <1>2, <1>11, <3>1, <3>2
      <3>3. CASE j \notin Callers(i)
        BY <1>2, <1>12, <3>1, <3>3
      <3> QED
        BY <3>2, <3>3
    <2> QED
      BY <2>1
  <1>15. remaining_callees' = [j \in DOMAIN Components |-> Cardinality(Awaited(j)')]
    BY <1>2, <1>14
  <1>16. ASSUME NEW j \in Callers(i)
         PROVE  j \in DOMAIN Components /\ j \notin ready /\ j \notin Range(order) /\ j # i
    <2>1. j \in DOMAIN Components
      <3>1. <<j, i>> \in call_graph.edges
        BY <1>9
      <3>2. <<j, i>> \in (DOMAIN Components) \X (DOMAIN Components)
        BY <1>7, <3>1
      <3> QED
        BY <3>2
    <2>2. Awaited(j) # {}
      BY <1>11
    <2> QED
      BY <1>3, <2>1, <2>2 DEF OrderIsSound
  <1>17. ready' \subseteq (DOMAIN Components) \ Range(order')
    BY <1>2, <1>6, <1>16 DEF OrderIsSound
  <1>18. ASSUME NEW j \in ready' \cup Range(order')
         PROVE  Awaited(j)' = {}
    <2>1. CASE j \in ready \cup Range(order)
      <3>1. Awaited(j) = {}
        BY <2>1 DEF OrderIsSound
      <3> QED
        BY <1>8, <3>1
    <2>2. CASE j = i
      BY <1>3, <1>8, <2>2
    <2>3. CASE j \in Callers(i) /\ remaining_callees'[j] = 0
      <3>1. Cardinality(Awaited(j)') = 0 /\ IsFiniteSet(Awaited(j)')
        <4>1. Awaited(j)' \in SUBSET Awaited(j)
          BY <1>8
        <4> QED
          BY <1>10, <1>14, <1>16, <2>3, <4>1, FS_Subset
      <3> QED
        BY <3>1, FS_EmptySet
    <2> QED
      BY <1>2, <1>6, <2>1, <2>2, <2>3
  <1>19. ASSUME NEW p \in DOMAIN order', NEW e \in call_graph.edges, e[1] = order'[p]
         PROVE  \E q \in 1..(p - 1) : order'[q] = e[2]
    <2>1. CASE p \in DOMAIN order
      <3>1. PICK q \in 1..(p - 1) : order[q] = e[2]
        BY <1>5, <1>19, <2>1 DEF OrderIsSound
      <3>2. q \in DOMAIN order
        BY <1>5, <2>1
      <3> QED
        BY <1>5, <3>1, <3>2
    <2>2. CASE p = Len(order) + 1
      <3>1. e[1] = i
        BY <1>5, <1>19, <2>2
      <3>2. e[2] \in Range(order)
        BY <1>3, <3>1 DEF Awaited
      <3>3. PICK q \in DOMAIN order : order[q] = e[2]
        BY <3>2 DEF Range
      <3>4. q \in 1..(p - 1)
        BY <1>5, <2>2
      <3> QED
        BY <1>5, <3>3, <3>4
    <2> QED
      BY <1>5, <2>1, <2>2
  <1> QED
    BY <1>2, <1>4, <1>5, <1>15, <1>17, <1>18, <1>19 DEF OrderIsSound

(* A step that keeps program, decomposition and order keeps the invariant, *)
(* when what it leaves of the summaries is sound.                          *)
LEMMA StepKeeps ==
    ASSUME SolverInv, Keeping, UNCHANGED <<input, orderVars>>, phase' \in {"summaries", "done"},
           Kept(summaries', component', member', changed', processed')
    PROVE  SolverInv'
  <1>1. /\ program' = program /\ call_graph' = call_graph /\ order' = order /\ edited' = edited
        /\ solution' = solution
    BY DEF input, sccVars, orderVars
  <1>2. /\ Typed /\ (~edited => program \in Programs) /\ Exact /\ solution = Solution /\ OrderIsSound
    BY DEF SolverInv, Working
  <1>3. /\ (Typed' <=> Typed) /\ (Exact' <=> Exact) /\ Solution' = Solution
    BY <1>1, <1>2, DecompositionStays
  <1>4. OrderIsSound'
    BY <1>1, <1>2, OrderStays
  <1>5. PICK known, c, m, dirty, evaluated :
           /\ known = summaries' /\ c = component' /\ m = member' /\ dirty = changed'
           /\ evaluated = processed'
    OBVIOUS
  <1>6. Kept(known, c, m, dirty, evaluated)
    BY <1>5 DEF Kept
  <1>7. Kept(known, c, m, dirty, evaluated)'
    BY <1>1, <1>2, <1>6, KeptStays
  <1>8. SummariesAreSound'
    BY <1>5, <1>7 DEF SummariesAreSound, Kept
  <1> QED
    BY <1>1, <1>2, <1>3, <1>4, <1>8 DEF SolverInv

(* With no callee known, nothing is claimed.                               *)
LEMMA CollectSeedsStep ==
    ASSUME SolverInv, CollectSeeds
    PROVE  SolverInv'
  <1>1. /\ phase = "order" /\ phase' \in {"summaries", "done"}
        /\ program' = program /\ call_graph' = call_graph /\ order' = order /\ edited' = edited
        /\ solution' = solution /\ UNCHANGED orderVars
        /\ component' = component /\ member' = member /\ changed' = changed /\ processed' = processed
        /\ phase' = "done" => summaries' = summaries
        /\ phase' = "summaries" => summaries' = [f \in Callables |-> {}]
    BY DEF CollectSeeds, input, sccVars, orderVars, place
  <1>2. /\ Typed /\ (~edited => program \in Programs) /\ Exact /\ solution = Solution /\ OrderIsSound
        /\ summaries = <<>> /\ processed = <<>> /\ component = 1 /\ member = 1 /\ changed = FALSE
    BY <1>1 DEF SolverInv, Working
  <1>3. /\ (Typed' <=> Typed) /\ (Exact' <=> Exact) /\ Solution' = Solution
    BY <1>1, <1>2, DecompositionStays
  <1>4. OrderIsSound'
    BY <1>1, <1>2, OrderStays
  <1>5. ASSUME Keeping' PROVE SummariesAreSound'
    <2>1. phase' = "summaries" /\ summaries' = [f \in Callables |-> {}]
      BY <1>1, <1>2, <1>5 DEF Keeping
    <2>2. PICK known, dirty : known = summaries' /\ dirty = changed' /\ dirty = FALSE
      BY <1>1, <1>2
    <2>3. order \in Seq(DOMAIN Components)
      BY <1>2 DEF OrderIsSound
    <2>4. Kept(known, 1, 1, dirty, <<>>)
      <3>1. known = [f \in Callables |-> known[f]] /\ \A f \in Callables : known[f] \subseteq Solution[f]
        BY <2>1, <2>2
      <3>2. \A p \in DOMAIN order : p < 1 =>
               \A f \in Components[order[p]] : known[f] = Solution[f]
        BY <2>3
      <3>3. \A k \in 1..Cardinality(Components[order[1]]) :
               k < 1 => Holds(Ascending(Components[order[1]])[k], known)
        <4>1. \A n : \A k \in 1..n : ~(k < 1)
          OBVIOUS
        <4> QED
          BY <4>1, Zenon
      <3>4. <<>> \in Seq(Callables) /\ Range(<<>>) = {}
        BY DEF Range
      <3>5. 1 \in Nat \ {0} /\ dirty \in BOOLEAN
        <4>1. 1 \in Nat \ {0}
          OBVIOUS
        <4>2. dirty \in BOOLEAN
          BY <2>2, Zenon
        <4> QED
          BY <4>1, <4>2
      <3>6. \A f \in Range(<<>>) :
               \E p \in DOMAIN order : p <= 1 /\ f \in Components[order[p]]
        BY <3>4, Zenon
      <3> QED
        BY <3>1, <3>2, <3>3, <3>4, <3>5, <3>6, Zenon DEF Kept
    <2>5. Kept(known, 1, 1, dirty, <<>>)'
      BY <1>1, <1>2, <2>4, KeptStays
    <2> QED
      BY <1>1, <1>2, <2>2, <2>5 DEF SummariesAreSound, Kept
  <1> QED
    BY <1>1, <1>2, <1>3, <1>4, <1>5 DEF SolverInv

(* Placing a component keeps the invariant.                                *)
LEMMA OrderNextStep ==
    ASSUME SolverInv, OrderNext
    PROVE  SolverInv'
  <1>1. /\ phase = "order" /\ phase' = phase
        /\ program' = program /\ call_graph' = call_graph /\ edited' = edited
        /\ solution' = solution /\ component' = component /\ member' = member /\ changed' = changed
        /\ processed' = processed /\ summaries' = summaries
    BY DEF OrderNext, input, sccVars, place, results
  <1>2. /\ Typed /\ (~edited => program \in Programs) /\ Exact /\ solution = Solution /\ OrderIsSound
        /\ summaries = <<>> /\ processed = <<>> /\ component = 1 /\ member = 1 /\ changed = FALSE
    BY <1>1 DEF SolverInv, Working
  <1>3. /\ (Typed' <=> Typed) /\ (Exact' <=> Exact) /\ Solution' = Solution
    BY <1>1, <1>2, DecompositionStays
  <1>4. OrderIsSound'
    BY <1>2, OrderGrows
  <1>5. ~Keeping'
    BY <1>1 DEF Keeping
  <1> QED
    BY <1>1, <1>2, <1>3, <1>4, <1>5 DEF SolverInv

(* Evaluating a member keeps the invariant.                                *)
LEMMA EvaluateStep ==
    ASSUME SolverInv, Evaluate
    PROVE  SolverInv'
  <1>1. PICK f : f = Evaluated
    OBVIOUS
  <1>2. PICK candidate : candidate = Summarize(f, program[f], summaries)
    OBVIOUS
  <1>3. PICK merge : merge = MergeCandidate(f, candidate)
    OBVIOUS
  <1>4. /\ phase = "summaries" /\ component <= Len(order) /\ member <= Cardinality(Current)
        /\ processed' = IF f \in Range(processed) THEN processed ELSE Append(processed, f)
        /\ UNCHANGED <<input, orderVars>>
        /\ ~merge.lawful => /\ phase' = "done"
                            /\ UNCHANGED <<summaries, component, member, changed>>
        /\ merge.lawful => summaries' = [summaries EXCEPT ![f] = merge.value] /\ phase' = phase
        /\ merge.lawful /\ Cyclic => /\ member' = member + 1 /\ component' = component
                                     /\ changed' = (changed \/ merge.changed)
        /\ merge.lawful /\ ~Cyclic => component' = component + 1 /\ member' = 1 /\ changed' = FALSE
    BY <1>1, <1>2, <1>3 DEF Evaluate, NextComponent, AnyMemberChanged
  <1>5. Keeping
    BY <1>4 DEF Keeping
  <1>6. /\ Exact /\ Typed /\ OrderIsSound /\ order \in Seq(DOMAIN Components)
        /\ Kept(summaries, component, member, changed, processed)
    BY <1>5 DEF SolverInv, Working, SummariesAreSound, OrderIsSound
  <1>7. PICK known, c, m, dirty, evaluated :
           /\ known = summaries /\ c = component /\ m = member /\ dirty = changed
           /\ evaluated = processed
    OBVIOUS
  <1>8. Kept(known, c, m, dirty, evaluated)
    BY <1>6, <1>7
  <1>9. /\ c \in Nat \ {0} /\ m \in Nat \ {0} /\ evaluated \in Seq(Callables)
        /\ dirty \in BOOLEAN /\ known = [g \in Callables |-> known[g]]
        /\ \A g \in Callables : known[g] \subseteq Solution[g]
        /\ \A g \in Range(evaluated) : \E p \in DOMAIN order : p <= c /\ g \in Components[order[p]]
    BY <1>8 DEF Kept
  <1>10. c \in DOMAIN order /\ order[c] \in DOMAIN Components /\ c <= c
    BY <1>4, <1>6, <1>7, <1>9
  <1>11. f = Ascending(Components[order[c]])[m] /\ f \in Components[order[c]] /\ f \in Callables
    <2>1. f = Ascending(Components[order[c]])[m] /\ m <= Cardinality(Components[order[c]])
      BY <1>1, <1>4, <1>7 DEF Evaluated, Current
    <2>2. f \in Components[order[c]]
      BY <1>6, <1>9, <1>10, <2>1, MembersAreListed
    <2> QED
      BY <1>6, <1>10, <2>1, <2>2, DecompositionFacts
  <1>12. /\ merge.value \subseteq known[f] \cup candidate
         /\ merge.lawful => known[f] \subseteq merge.value /\ candidate \subseteq merge.value
         /\ ~merge.changed => merge.value = known[f]
    BY <1>3, <1>7, MergeKeeps
  <1>13. candidate \subseteq Solution[f]
    <2>1. DOMAIN known = Callables
      BY <1>9
    <2> QED
      BY <1>2, <1>6, <1>7, <1>9, <1>11, <2>1, SolutionAbsorbs
  <1>14. PICK value : value = merge.value
    OBVIOUS
  <1>15. merge.lawful => Accepts(known, f, value)
    BY <1>2, <1>7, <1>9, <1>11, <1>12, <1>13, <1>14 DEF Accepts
  <1>16. PICK after : after = processed'
    OBVIOUS
  <1>17. after \in Seq(Callables) /\ Range(after) \subseteq Range(evaluated) \cup {f}
    <2>1. after = IF f \in Range(evaluated) THEN evaluated ELSE Append(evaluated, f)
      BY <1>4, <1>7, <1>16
    <2>2. /\ Append(evaluated, f) \in Seq(Callables)
          /\ Range(Append(evaluated, f)) \subseteq Range(evaluated) \cup {f}
      BY <1>9, <1>11 DEF Range
    <2> QED
      BY <1>9, <2>1, <2>2
  <1>18. Cyclic <=> order[c] \in call_graph.cyclic
    BY <1>7 DEF Cyclic
  <1>19. CASE ~merge.lawful
    <2>1. Kept(known, c, m, dirty, after)
      <3>1. \A g \in Range(after) : \E p \in DOMAIN order : p <= c /\ g \in Components[order[p]]
        BY <1>9, <1>10, <1>11, <1>17
      <3> QED
        BY <1>8, <1>17, <3>1 DEF Kept
    <2>2. Kept(summaries', component', member', changed', processed')
      BY <1>4, <1>7, <1>16, <1>19, <2>1
    <2> QED
      BY <1>4, <1>5, <1>19, <2>2, StepKeeps
  <1>20. CASE merge.lawful /\ ~Cyclic
    <2>1. Kept([known EXCEPT ![f] = value], c + 1, 1, FALSE, after)
      BY <1>6, <1>8, <1>10, <1>11, <1>15, <1>17, <1>18, <1>20, OneEvaluation
    <2>2. Kept(summaries', component', member', changed', processed')
      BY <1>4, <1>7, <1>14, <1>16, <1>20, <2>1
    <2> QED
      BY <1>4, <1>5, <1>20, <2>2, StepKeeps
  <1>21. CASE merge.lawful /\ Cyclic
    <2>1. PICK now : now = changed'
      OBVIOUS
    <2>2. Reported(now, dirty, known, f, value)
      BY <1>4, <1>7, <1>9, <1>12, <1>14, <1>21, <2>1 DEF Reported
    <2>3. Kept([known EXCEPT ![f] = value], c, m + 1, now, after)
      BY <1>6, <1>8, <1>10, <1>11, <1>15, <1>17, <1>21, <2>2, RoundGoesOn
    <2>4. Kept(summaries', component', member', changed', processed')
      BY <1>4, <1>7, <1>14, <1>16, <1>21, <2>1, <2>3
    <2> QED
      BY <1>4, <1>5, <1>21, <2>4, StepKeeps
  <1> QED
    BY <1>19, <1>20, <1>21

(* Ending a round keeps the invariant, whether or not another follows.     *)
LEMMA EndRoundStep ==
    ASSUME SolverInv, EndRound
    PROVE  SolverInv'
  <1>1. /\ phase = "summaries" /\ component <= Len(order) /\ member > Cardinality(Current)
        /\ UNCHANGED <<input, orderVars>> /\ summaries' = summaries /\ processed' = processed
        /\ phase' \in {"summaries", "done"}
        /\ ~changed => component' = component + 1 /\ member' = 1 /\ changed' = FALSE
        /\ changed => /\ component' = component
                      /\ \/ UNCHANGED <<member, changed>>
                         \/ member' = 1 /\ changed' = FALSE
    BY DEF EndRound, NextComponent, results
  <1>2. Keeping
    BY <1>1 DEF Keeping
  <1>3. /\ Exact /\ OrderIsSound /\ order \in Seq(DOMAIN Components)
        /\ Kept(summaries, component, member, changed, processed)
    BY <1>2 DEF SolverInv, Working, SummariesAreSound, OrderIsSound
  <1>4. PICK known, c, m, dirty, evaluated :
           /\ known = summaries /\ c = component /\ m = member /\ dirty = changed
           /\ evaluated = processed
    OBVIOUS
  <1>5. Kept(known, c, m, dirty, evaluated)
    BY <1>3, <1>4
  <1>6. c \in DOMAIN order
    BY <1>1, <1>3, <1>4, <1>5 DEF Kept
  <1>7. CASE ~changed
    <2>1. dirty = FALSE /\ m > Cardinality(Components[order[c]])
      BY <1>1, <1>4, <1>5, <1>7 DEF Current, Kept
    <2>2. Kept(known, c + 1, 1, FALSE, evaluated)
      BY <1>3, <1>5, <1>6, <2>1, RoundIsLast
    <2>3. Kept(summaries', component', member', changed', processed')
      BY <1>1, <1>4, <1>7, <2>2
    <2> QED
      BY <1>1, <1>2, <2>3, StepKeeps
  <1>8. CASE changed /\ UNCHANGED <<member, changed>>
    <2>1. Kept(summaries', component', member', changed', processed')
      BY <1>1, <1>3, <1>8
    <2> QED
      BY <1>1, <1>2, <2>1, StepKeeps
  <1>9. CASE changed /\ member' = 1 /\ changed' = FALSE
    <2>1. Kept(known, c, 1, FALSE, evaluated)
      <3>1. \A k \in 1..Cardinality(Components[order[c]]) : ~(k < 1)
        OBVIOUS
      <3>2. 1 \in Nat \ {0}
        OBVIOUS
      <3>3. Kept(known, c, m, dirty, evaluated)
        BY <1>5
      <3> QED
        BY <3>1, <3>2, <3>3, Zenon DEF Kept
    <2>2. Kept(summaries', component', member', changed', processed')
      BY <1>1, <1>4, <1>9, <2>1
    <2> QED
      BY <1>1, <1>2, <2>2, StepKeeps
  <1> QED
    BY <1>1, <1>7, <1>8, <1>9

(* A step that leaves all of this alone, but for stopping.                 *)
LEMMA RestStep ==
    ASSUME SolverInv, UNCHANGED <<input, orderVars, summaries, processed, component, member, changed>>,
           \/ phase' = phase
           \/ phase \in {"order", "summaries"} /\ phase' = "done"
    PROVE  SolverInv'
  <1>1. /\ program' = program /\ call_graph' = call_graph /\ order' = order /\ edited' = edited
        /\ solution' = solution
    BY DEF input, sccVars, orderVars
  <1>2. Typed /\ (~edited => program \in Programs)
    BY DEF SolverInv
  <1>3. /\ (Typed' <=> Typed) /\ (Exact' <=> Exact) /\ Solution' = Solution
    BY <1>1, <1>2, DecompositionStays
  <1>4. CASE Keeping
    <2>1. Kept(summaries', component', member', changed', processed')
      <3>1. Kept(summaries, component, member, changed, processed)
        BY <1>4 DEF SolverInv, SummariesAreSound
      <3> QED
        BY <3>1
    <2>2. phase' \in {"summaries", "done"}
      BY <1>4 DEF Keeping
    <2> QED
      BY <1>4, <2>1, <2>2, StepKeeps
  <1>5. CASE ~Keeping
    <2>1. ~Keeping'
      BY <1>5 DEF Keeping, SolverInv
    <2>2. Working' => phase = "order"
      BY <2>1 DEF Working, Keeping
    <2>3. phase = "order" => Exact /\ solution = Solution /\ OrderIsSound
      BY DEF SolverInv, Working
    <2>4. Working' => Exact' /\ (solution = Solution)' /\ OrderIsSound'
      BY <1>1, <1>3, <2>2, <2>3, OrderStays
    <2> QED
      BY <1>1, <1>2, <1>3, <2>1, <2>4 DEF SolverInv
  <1> QED
    BY <1>4, <1>5

(* Every step keeps the invariant.                                         *)
LEMMA SolverStep ==
    ASSUME SolverInv, [Next]_vars
    PROVE  SolverInv'
  <1>1. CASE Decompose
    <2>1. /\ phase = "call_graph" /\ phase' = phase /\ program' = program /\ edited' = edited
          /\ order' = order /\ component' = component /\ member' = member /\ changed' = changed
          /\ processed' = processed /\ summaries' = summaries
      BY <1>1 DEF Decompose, SccNext, orderVars, place, results
    <2>2. Typed'
      BY <2>1 DEF SolverInv, Typed
    <2>3. ~Working' /\ ~Keeping'
      BY <2>1 DEF Working, Keeping
    <2> QED
      BY <2>1, <2>2, <2>3 DEF SolverInv
  <1>2. CASE Edit
    <2>1. /\ phase = "call_graph" /\ phase' = phase /\ edited' = TRUE
          /\ order' = order /\ component' = component /\ member' = member /\ changed' = changed
          /\ processed' = processed /\ summaries' = summaries
      BY <1>2 DEF Edit, orderVars, place, results
    <2>2. Typed'
      BY <1>2, EditIsTyped
    <2>3. ~Working' /\ ~Keeping'
      BY <2>1 DEF Working, Keeping
    <2> QED
      BY <2>1, <2>2, <2>3 DEF SolverInv
  <1>3. CASE Solve
    BY <1>3, SolveStep
  <1>4. CASE OutOfWork
    BY <1>4, RestStep DEF OutOfWork, place, results
  <1>5. CASE OrderNext
    BY <1>5, OrderNextStep
  <1>6. CASE CollectSeeds
    BY <1>6, CollectSeedsStep
  <1>7. CASE Evaluate
    BY <1>7, EvaluateStep
  <1>8. CASE NoRounds
    BY <1>8, RestStep DEF NoRounds, place, results
  <1>9. CASE EndRound
    BY <1>9, EndRoundStep
  <1>10. CASE Return
    BY <1>10, RestStep DEF Return, place, results
  <1>11. CASE UNCHANGED vars
    BY <1>11, RestStep DEF vars, place, results
  <1> QED
    BY <1>1, <1>2, <1>3, <1>4, <1>5, <1>6, <1>7, <1>8, <1>9, <1>10, <1>11 DEF Next, SolverNext

(* The invariant holds in the first state.                                 *)
LEMMA SolverStarts ==
    ASSUME Init
    PROVE  SolverInv
  <1>1. program \in Programs
    BY DEF Init, SccInit
  <1>2. program \in Seq(Range(program)) /\ Range(program) \subseteq FunctionBody(Len(program))
    BY <1>1, ProgramAssumption, BodyAssumption
  <1>3. Typed
    BY <1>2 DEF Typed
  <1>4. /\ phase = "call_graph" /\ order = <<>> /\ summaries = <<>> /\ processed = <<>>
        /\ component = 1 /\ member = 1 /\ changed = FALSE
    BY DEF Init, NothingSolved
  <1> QED
    BY <1>1, <1>3, <1>4 DEF SolverInv, Working, Keeping

(* The solver is always in order, sound and, behind it, final.             *)
THEOREM SolverInvHolds == Spec => []SolverInv
  <1>1. Init => SolverInv
    BY SolverStarts
  <1>2. SolverInv /\ [Next]_vars => SolverInv'
    BY SolverStep
  <1> QED
    BY <1>1, <1>2, PTL DEF Spec

(* In a state of the invariant nothing unsound is kept.                    *)
LEMMA InvIsSound ==
    ASSUME SolverInv
    PROVE  KeptIsSound
  <1> SUFFICES ASSUME Summarized PROVE KeptIsSound
    BY DEF KeptIsSound, PartialIsBelow, CalleesAreFinal
  <1>1. Keeping
    BY DEF Summarized, Keeping
  <1>2. /\ Exact /\ Typed /\ OrderIsSound /\ order \in Seq(DOMAIN Components) /\ solution = Solution
        /\ Kept(summaries, component, member, changed, processed)
    BY <1>1 DEF SolverInv, Working, SummariesAreSound, OrderIsSound
  <1>3. PartialIsBelow
    BY <1>2 DEF PartialIsBelow, Kept
  <1>4. CalleesAreFinal
    <2> DEFINE own == [f \in Callables |-> SelectInSeq(Components, LAMBDA c : f \in c)]
    <2>1. \A f \in Callables : own[f] = Own(f)
      BY DEF Own, OwnerIn
    <2> HIDE DEF own
    <2>2. ASSUME NEW f \in Range(processed), NEW e \in CallGraphEdges(program),
                 e[1] = f, own[e[2]] # own[f]
          PROVE  summaries[e[2]] = solution[e[2]]
      <3>1. PICK g : g = e[2]
        OBVIOUS
      <3>2. e = <<f, g>> /\ <<f, g>> \in Edges /\ f \in Callables /\ g \in Callables
        BY <2>2, <3>1 DEF Edges, CallGraphEdges, Callables
      <3>3. PICK p \in DOMAIN order : p <= component /\ f \in Components[order[p]]
        BY <1>2 DEF Kept
      <3>4. Own(f) = order[p] /\ Own(g) # Own(f)
        BY <1>2, <2>1, <2>2, <3>1, <3>2, <3>3, DecompositionFacts
      <3>5. PICK d : d = <<Own(f), Own(g)>>
        OBVIOUS
      <3>6. d \in call_graph.edges /\ d[1] = order[p] /\ d[2] = Own(g)
        BY <1>2, <3>2, <3>4, <3>5, DecompositionFacts
      <3>7. PICK q \in 1..(p - 1) : order[q] = Own(g)
        BY <1>2, <3>6 DEF OrderIsSound
      <3>8. q \in DOMAIN order /\ q < component
        <4>1. component \in Nat
          BY <1>2 DEF Kept
        <4> QED
          BY <1>2, <3>3, <3>7, <4>1
      <3>9. g \in Components[order[q]]
        BY <1>2, <3>2, <3>7, DecompositionFacts
      <3> QED
        BY <1>2, <3>1, <3>8, <3>9 DEF Kept
    <2> QED
      BY <2>2 DEF CalleesAreFinal, own
  <1> QED
    BY <1>3, <1>4 DEF KeptIsSound

(* KeptIsSound: for programs of any size, lattices that keep their laws or *)
(* break them, and any caps, the summaries of a run claim no more than the *)
(* solution, and where a function was evaluated those of the functions it  *)
(* calls outside its own recursion are the solution.                       *)
THEOREM KeptStaysSound == Spec => []KeptIsSound
  <1>1. SolverInv => KeptIsSound
    BY InvIsSound
  <1> QED
    BY <1>1, SolverInvHolds, PTL

-------------------------------------------------------------------------------
(* What a run needs *)

\* The evaluations that may be due, each in its round.
Work == UNION {(1..RoundsNeeded(i)) \X Components[i] : i \in DOMAIN Components}

\* Those behind round r of component c, where member m is next.
Spent(c, m, r) ==
    {w \in Work : \E p \in DOMAIN order :
        /\ w[2] \in Components[order[p]]
        /\ \/ p < c
           \/ p = c /\ w[1] <= r
           \/ /\ p = c /\ w[1] = r + 1
              /\ \E k \in 1..(m - 1) : Ascending(Components[order[p]])[k] = w[2]}

\* Facts that say nothing of one another: formals with caps, each global, impurity.
Groups == {Answers} \cup {{x} : x \in Callables \cup {Impure}}

HoldsIn(G, f, known) == Summarize(f, program[f], known) \cap G \subseteq known[f]

Held(G, i, known) == {p \in Components[i] \X G : p[2] \in known[p[1]]}

\* In every round a group grows until it is settled.
Moves(G, i, m, r, known) ==
    \/ \A f \in Components[i] : HoldsIn(G, f, known)
    \/ r + 1 <= Cardinality(Held(G, i, known))
    \/ /\ r <= Cardinality(Held(G, i, known))
       /\ \A k \in 1..Cardinality(Components[i]) :
             k < m => HoldsIn(G, Ascending(Components[i])[k], known)

Advances(i, m, r, dirty, known, evaluated) ==
    /\ r < RoundsNeeded(i) /\ m <= Cardinality(Components[i]) + 1
    /\ i \notin call_graph.cyclic => m = 1 /\ r = 0 /\ dirty = FALSE
    /\ \A G \in Groups : Moves(G, i, m, r, known)
    /\ dirty => \E G \in Groups : r + 1 <= Cardinality(Held(G, i, known))
    /\ \A k \in 1..Cardinality(Components[i]) :
          k < m => Ascending(Components[i])[k] \in Range(evaluated)

Runs(known, c, m, r, dirty, evaluated, steps) ==
    /\ r \in Nat /\ steps \in Nat
    /\ steps <= Len(order) + Cardinality(Spent(c, m, r))
    /\ c <= Len(order) => Advances(order[c], m, r, dirty, known, evaluated)
    /\ \A p \in DOMAIN order : p < c => Components[order[p]] \subseteq Range(evaluated)

\* What waits for nothing is ready or placed.
ReadyAreKnown ==
    \A i \in DOMAIN Components : Awaited(i) = {} => i \in ready \cup Range(order)

SeedsAreKept ==
    /\ seed_facts = [f \in Callables |-> SeedFacts(f).kept]
    /\ \A f \in Callables : SeedFacts(f).over = {} /\ SeedFacts(f).issues = {}

Placed == \A p, q \in DOMAIN order : order[p] = order[q] => p = q

Asked ==
    /\ job.caps \in [functions: Nat, worklist: Nat, rounds: Nat, facts: Nat]
    /\ IsFiniteSet(job.seeds)

RunInv ==
    /\ \E prog \in Programs : program \in {prog} \cup Rewrites(prog)
    /\ phase # "call_graph" => Asked
    /\ phase # "done" => cap_events = {} /\ issues = {}
    /\ phase \in {"call_graph", "order"} => rounds = 0 /\ worklist_steps = Len(order)
    /\ phase \in {"order", "summaries"} => Placed
    /\ phase = "order" => ReadyAreKnown
    /\ phase = "summaries" =>
          /\ Range(order) = DOMAIN Components /\ SeedsAreKept
          /\ Runs(summaries, component, member, rounds, changed, processed, worklist_steps)
    /\ phase = "done" => CompletionIsExact

-------------------------------------------------------------------------------
(* Groups of facts *)

(* What a merge reports as a change is one.                                *)
LEMMA MergeReports ==
    ASSUME NEW f, NEW candidate
    PROVE  LET merge == MergeCandidate(f, candidate)
           IN merge.lawful /\ merge.changed => ~(candidate \subseteq summaries[f])
  <1> DEFINE current == summaries[f]
             reported == Reports(current, candidate)
  <1>1. /\ MergeCandidate(f, candidate).changed = reported
        /\ MergeCandidate(f, candidate).lawful => reported # (candidate \subseteq current)
    BY DEF MergeCandidate
  <1>2. reported \in BOOLEAN
    BY DEF Reports
  <1> HIDE DEF reported
  <1> QED
    BY <1>1, <1>2

(* What a body says of formals is an answer.                               *)
LEMMA AnswersOnly ==
    ASSUME NEW body, NEW known
    PROVE  ReturnedFormals(body, known) \subseteq Answers
  BY DEF ReturnedFormals, Answers

(* Every fact of a summary is in a group.                                  *)
LEMMA GroupsCover ==
    ASSUME Typed, NEW f \in Callables, NEW known, DOMAIN known = Callables,
           NEW x \in Summarize(f, program[f], known)
    PROVE  \E G \in Groups : x \in G
  <1>1. \/ x = f
        \/ x \in ReturnedFormals(program[f], known)
        \/ x = Impure
        \/ x \in Callables \/ x = Capped
    BY SummarizeMembers
  <1>2. x \in Callables \cup {Impure} \cup Answers
    BY <1>1, AnswersOnly DEF Answers
  <1> QED
    BY <1>2 DEF Groups

\* The two tables say the same of the group.
Alike(G, known, other) == \A g \in Callables : known[g] \cap G = other[g] \cap G

LEMMA GroupApart ==
    ASSUME Typed, NEW f \in Callables, NEW G \in Groups, NEW known, NEW other,
           DOMAIN known = Callables, DOMAIN other = Callables, Alike(G, known, other)
    PROVE  Summarize(f, program[f], known) \cap G \subseteq Summarize(f, program[f], other)
  <1>1. /\ program[f] \in FunctionBody(Len(program)) /\ Len(program) \in Nat
        /\ CalleesOf(program[f]) \subseteq Callables
    BY TypedFacts
  <1>2. SUFFICES ASSUME NEW x \in G, x \in Summarize(f, program[f], known)
                 PROVE  x \in Summarize(f, program[f], other)
    OBVIOUS
  <1>3. CASE x \in ReturnedFormals(program[f], known)
    <2>1. G = Answers
      <3>1. x \in Answers
        BY <1>3, AnswersOnly
      <3>2. x \notin Callables \cup {Impure}
        BY <3>1, NamesDiffer DEF Answers
      <3> QED
        BY <1>2, <3>2 DEF Groups
    <2>2. \A g \in CalleesOf(program[f]) : Masked(known[g]) \subseteq Masked(other[g])
      <3> SUFFICES ASSUME NEW g \in CalleesOf(program[f]), NEW i \in Formals,
                          Returns(i) \in known[g]
                   PROVE  Returns(i) \in other[g]
        BY DEF Masked
      <3>1. Returns(i) \in G
        BY <2>1 DEF Answers
      <3> QED
        BY <1>1, <3>1 DEF Alike
    <2>3. x \in ReturnedFormals(program[f], other)
      BY <1>1, <1>3, <2>2, ReturnedGrows
    <2> QED
      BY <2>3, SummarizeMembers
  <1>4. CASE x = f \/ (x = Impure /\ Open(program[f]))
    BY <1>4, SummarizeMembers
  <1>5. CASE \E g \in CalleesOf(program[f]) :
                x \in known[g] /\ (x \in DOMAIN known \/ x = Impure \/ x = Capped)
    BY <1>1, <1>2, <1>5, SummarizeMembers DEF Alike
  <1> QED
    BY <1>2, <1>3, <1>4, <1>5, SummarizeMembers

(* What a group holds in the next summary depends on that group alone.     *)
LEMMA GroupsApart ==
    ASSUME Typed, NEW f \in Callables, NEW G \in Groups, NEW known, NEW other,
           DOMAIN known = Callables, DOMAIN other = Callables, Alike(G, known, other)
    PROVE  HoldsIn(G, f, known) <=> HoldsIn(G, f, other)
  <1>1. Alike(G, other, known)
    BY DEF Alike
  <1>2. /\ Summarize(f, program[f], known) \cap G \subseteq Summarize(f, program[f], other)
        /\ Summarize(f, program[f], other) \cap G \subseteq Summarize(f, program[f], known)
    BY <1>1, GroupApart
  <1>3. known[f] \cap G = other[f] \cap G
    BY DEF Alike
  <1> QED
    BY <1>2, <1>3 DEF HoldsIn

(* Groups are small.                                                       *)
LEMMA GroupsAreSmall ==
    ASSUME NEW G \in Groups
    PROVE  /\ IsFiniteSet(G) /\ Cardinality(G) \in Nat
           /\ Cardinality(G) <= Cardinality(Formals) + 1
           /\ Cardinality(Formals) + 1 = 3
  <1>1. Cardinality(Formals) = 2
    <2>1. Formals = 1..2
      BY DEF Formals
    <2>2. \A n \in Nat : Cardinality(1..n) = n
      BY FS_Interval
    <2> QED
      BY <2>1, <2>2
  <1>2. CASE G = Answers
    <2>1. Answers = {-1, -2} \cup {-3}
      BY DEF Answers, Formals, Returns, Capped
    <2>2. IsFiniteSet({-1}) /\ Cardinality({-1}) = 1
      BY FS_Singleton
    <2>3. IsFiniteSet({-1} \cup {-2}) /\ Cardinality({-1} \cup {-2}) = 2
      BY <2>2, FS_AddElement
    <2>4. {-1} \cup {-2} = {-1, -2}
      OBVIOUS
    <2>5. IsFiniteSet({-1, -2} \cup {-3}) /\ Cardinality({-1, -2} \cup {-3}) = 3
      BY <2>3, <2>4, FS_AddElement
    <2> QED
      BY <1>1, <1>2, <2>1, <2>5
  <1>3. CASE \E x : G = {x}
    <2>1. PICK x : G = {x}
      BY <1>3
    <2>2. IsFiniteSet({x}) /\ Cardinality({x}) = 1
      BY FS_Singleton
    <2> QED
      BY <1>1, <2>1, <2>2
  <1> QED
    BY <1>2, <1>3 DEF Groups

(* A component holds no more of a group than its size allows.              *)
LEMMA HeldFits ==
    ASSUME Exact, NEW i \in DOMAIN Components, NEW G \in Groups, NEW known
    PROVE  /\ IsFiniteSet(Held(G, i, known)) /\ Cardinality(Held(G, i, known)) \in Nat
           /\ Cardinality(Held(G, i, known)) <= 3 * Cardinality(Components[i])
           /\ Cardinality(Components[i]) \in Nat \ {0}
  <1>1. PICK S, n : S = Components[i] /\ n = Cardinality(S)
    OBVIOUS
  <1>2. S \in SUBSET Callables /\ S # {} /\ IsFiniteSet(Callables)
    BY <1>1, DecompositionFacts, TypedFacts DEF Exact
  <1>3. IsFiniteSet(S) /\ n \in Nat /\ n # 0
    BY <1>1, <1>2, FS_Subset, FS_CardinalityType, FS_EmptySet
  <1>4. PICK g : g = Cardinality(G) /\ g \in Nat /\ g <= 3 /\ IsFiniteSet(G)
    BY GroupsAreSmall
  <1>5. IsFiniteSet(S \X G) /\ Cardinality(S \X G) = n * g
    BY <1>1, <1>3, <1>4, FS_Product
  <1>6. Held(G, i, known) \subseteq S \X G
    BY <1>1 DEF Held
  <1>7. PICK h : h = Cardinality(Held(G, i, known)) /\ h \in Nat /\ h <= n * g
    BY <1>5, <1>6, FS_Subset, FS_CardinalityType
  <1>8. n * g <= 3 * n
    <2>1. g = 0 \/ g = 1 \/ g = 2 \/ g = 3
      BY <1>4
    <2> QED
      BY <1>3, <2>1
  <1>9. h <= 3 * n
    BY <1>3, <1>4, <1>7, <1>8
  <1> QED
    BY <1>1, <1>3, <1>5, <1>6, <1>7, <1>9, FS_Subset

(* What a component needs is at least one round.                           *)
LEMMA RoundsAreSome ==
    ASSUME Exact, NEW i \in DOMAIN Components
    PROVE  /\ RoundsNeeded(i) \in Nat \ {0}
           /\ i \in call_graph.cyclic => RoundsNeeded(i) = 3 * Cardinality(Components[i]) + 1
  <1>1. PICK G : G \in Groups /\ Cardinality(Formals) + 1 = 3
    BY GroupsAreSmall DEF Groups
  <1>2. Cardinality(Components[i]) \in Nat
    BY <1>1, HeldFits
  <1> QED
    BY <1>1, <1>2 DEF RoundsNeeded

(* A merge adds to what is held, and by one at least when it adds a fact.  *)
LEMMA HeldGrows ==
    ASSUME Exact, NEW i \in DOMAIN Components, NEW G \in Groups, NEW known, NEW next,
           NEW f \in Components[i], NEW value, DOMAIN known = Callables,
           Updates(next, known, f, value), known[f] \subseteq value
    PROVE  /\ Cardinality(Held(G, i, known)) <= Cardinality(Held(G, i, next))
           /\ \A x \in G : x \in value /\ x \notin known[f] =>
                 Cardinality(Held(G, i, known)) + 1 <= Cardinality(Held(G, i, next))
  <1>1. f \in Callables
    BY DecompositionFacts
  <1>2. /\ next[f] = value
        /\ \A g : g # f => next[g] = known[g] \/ g \notin Callables
    BY <1>1 DEF Updates
  <1>3. Components[i] \subseteq Callables
    BY DecompositionFacts
  <1>4. PICK few, many : few = Held(G, i, known) /\ many = Held(G, i, next)
    OBVIOUS
  <1>5. /\ IsFiniteSet(few) /\ Cardinality(few) \in Nat
        /\ IsFiniteSet(many) /\ Cardinality(many) \in Nat
    BY <1>4, HeldFits
  <1>6. few \subseteq many
    <2> SUFFICES ASSUME NEW p \in Components[i] \X G, p[2] \in known[p[1]]
                 PROVE  p[2] \in next[p[1]]
      BY <1>4 DEF Held
    <2> QED
      BY <1>2, <1>3
  <1>7. Cardinality(few) <= Cardinality(many)
    BY <1>5, <1>6, FS_Subset
  <1>8. ASSUME NEW x \in G, x \in value, x \notin known[f]
        PROVE  Cardinality(few) + 1 <= Cardinality(many)
    <2>1. <<f, x>> \in many /\ <<f, x>> \notin few
      BY <1>2, <1>4, <1>8 DEF Held
    <2>2. IsFiniteSet(few \cup {<<f, x>>}) /\ Cardinality(few \cup {<<f, x>>}) = Cardinality(few) + 1
      BY <1>5, <2>1, FS_AddElement
    <2>3. few \cup {<<f, x>>} \subseteq many
      BY <1>6, <2>1
    <2>4. Cardinality(few \cup {<<f, x>>}) <= Cardinality(many)
      BY <1>5, <2>3, FS_Subset
    <2> QED
      BY <2>2, <2>4
  <1> QED
    BY <1>4, <1>7, <1>8

\* What evaluating f replaces its summary by, and what it reports of that.
Merges(now, dirty, known, f, value) ==
    /\ known[f] \subseteq value
    /\ Summarize(f, program[f], known) \subseteq value
    /\ value \subseteq known[f] \cup Summarize(f, program[f], known)
    /\ now => dirty \/ value # known[f]

\* Member m of component i is evaluated.
Evaluates(i, m, known, next, f, value, now, dirty) ==
    /\ m \in Nat \ {0} /\ m <= Cardinality(Components[i]) /\ f = Ascending(Components[i])[m]
    /\ DOMAIN known = Callables
    /\ Updates(next, known, f, value) /\ Merges(now, dirty, known, f, value)

(* An evaluation settles its function for every group, or a group grows.   *)
LEMMA MemberMoves ==
    ASSUME Exact, NEW i \in DOMAIN Components, NEW m, NEW r \in Nat,
           NEW known, NEW next, NEW f, NEW value, NEW now, NEW dirty,
           Evaluates(i, m, known, next, f, value, now, dirty),
           NEW G \in Groups, Moves(G, i, m, r, known)
    PROVE  /\ Moves(G, i, m + 1, r, next)
           /\ \A x \in G : x \in value /\ x \notin known[f] =>
                 r + 1 <= Cardinality(Held(G, i, next))
           /\ r + 1 <= Cardinality(Held(G, i, known)) =>
                 r + 1 <= Cardinality(Held(G, i, next))
  <1>0. /\ m \in Nat \ {0} /\ m <= Cardinality(Components[i])
        /\ f = Ascending(Components[i])[m] /\ DOMAIN known = Callables
        /\ Updates(next, known, f, value) /\ Merges(now, dirty, known, f, value)
    BY DEF Evaluates
  <1>1. PICK n : n = Cardinality(Components[i]) /\ n \in Nat
    BY MembersAreListed
  <1>2. m \in 1..n
    BY <1>0, <1>1
  <1>3. f \in Components[i] /\ f \in Callables
    BY <1>0, <1>1, <1>2, MembersAreListed, DecompositionFacts
  <1>4. known[f] \subseteq value /\ Summarize(f, program[f], known) \subseteq value
        /\ value \subseteq known[f] \cup Summarize(f, program[f], known)
    BY <1>0 DEF Merges
  <1>5. /\ next[f] = value /\ DOMAIN next = Callables
        /\ \A g \in Callables : g # f => next[g] = known[g]
    BY <1>0, <1>3 DEF Updates
  <1>6. PICK few, many : /\ few = Cardinality(Held(G, i, known)) /\ few \in Nat
                         /\ many = Cardinality(Held(G, i, next)) /\ many \in Nat
    BY HeldFits
  <1>7. few <= many /\ \A x \in G : x \in value /\ x \notin known[f] => few + 1 <= many
    BY <1>0, <1>3, <1>4, <1>6, HeldGrows
  <1>8. CASE \E x \in G : x \in value /\ x \notin known[f]
    <2>1. ~HoldsIn(G, f, known)
      BY <1>4, <1>8 DEF HoldsIn
    <2>2. r <= few
      BY <1>3, <1>6, <2>1 DEF Moves
    <2>3. r + 1 <= many
      BY <1>6, <1>7, <1>8, <2>2
    <2> QED
      BY <1>6, <2>3 DEF Moves
  <1>9. CASE \A x \in G : x \in value => x \in known[f]
    <2>1. Alike(G, known, next)
      <3> SUFFICES ASSUME NEW g \in Callables PROVE known[g] \cap G = next[g] \cap G
        BY DEF Alike
      <3> QED
        BY <1>4, <1>5, <1>9
    <2>2. Typed
      BY DEF Exact
    <2>3. \A g \in Callables : HoldsIn(G, g, known) <=> HoldsIn(G, g, next)
      BY <1>0, <1>5, <2>1, <2>2, GroupsApart
    <2>4. HoldsIn(G, f, known)
      BY <1>4, <1>9 DEF HoldsIn
    <2>5. Components[i] \subseteq Callables
      BY DecompositionFacts
    <2>6. CASE \A g \in Components[i] : HoldsIn(G, g, known)
      BY <1>6, <1>7, <1>9, <2>3, <2>5, <2>6 DEF Moves
    <2>7. CASE r + 1 <= few
      BY <1>6, <1>7, <1>9, <2>7 DEF Moves
    <2>8. CASE /\ r <= few
               /\ \A k \in 1..n : k < m => HoldsIn(G, Ascending(Components[i])[k], known)
      <3>1. ASSUME NEW k \in 1..n, k < m + 1
            PROVE  HoldsIn(G, Ascending(Components[i])[k], next)
        <4>1. k < m \/ k = m
          BY <1>0, <3>1
        <4>2. PICK g : g = Ascending(Components[i])[k]
          OBVIOUS
        <4>3. HoldsIn(G, g, known)
          BY <1>0, <2>4, <2>8, <4>1, <4>2
        <4>4. g \in Callables
          BY <1>1, <2>5, <4>2, MembersAreListed
        <4> QED
          BY <2>3, <4>2, <4>3, <4>4
      <3>2. r <= many
        BY <1>6, <1>7, <2>8
      <3> QED
        BY <1>1, <1>6, <1>7, <1>9, <3>1, <3>2 DEF Moves
    <2> QED
      BY <1>1, <1>6, <2>6, <2>7, <2>8 DEF Moves
  <1> QED
    BY <1>8, <1>9

(* So a round goes on.                                                     *)
LEMMA RoundAdvances ==
    ASSUME Exact, NEW i \in DOMAIN Components, NEW m, NEW r \in Nat,
           NEW known, NEW next, NEW f, NEW value, NEW now, NEW dirty,
           NEW evaluated, NEW after,
           Evaluates(i, m, known, next, f, value, now, dirty),
           Advances(i, m, r, dirty, known, evaluated), i \in call_graph.cyclic,
           Range(evaluated) \cup {f} \subseteq Range(after)
    PROVE  Advances(i, m + 1, r, now, next, after)
  <1>0. /\ m \in Nat \ {0} /\ m <= Cardinality(Components[i])
        /\ f = Ascending(Components[i])[m] /\ DOMAIN known = Callables
        /\ Merges(now, dirty, known, f, value)
    BY DEF Evaluates
  <1>1. PICK n : n = Cardinality(Components[i]) /\ n \in Nat
    BY MembersAreListed
  <1>2. f \in Callables
    BY <1>0, <1>1, MembersAreListed, DecompositionFacts
  <1>3. \A G \in Groups : /\ Moves(G, i, m + 1, r, next)
                          /\ \A x \in G : x \in value /\ x \notin known[f] =>
                                r + 1 <= Cardinality(Held(G, i, next))
                          /\ r + 1 <= Cardinality(Held(G, i, known)) =>
                                r + 1 <= Cardinality(Held(G, i, next))
    <2> SUFFICES ASSUME NEW G \in Groups
                 PROVE  /\ Moves(G, i, m + 1, r, next)
                        /\ \A x \in G : x \in value /\ x \notin known[f] =>
                              r + 1 <= Cardinality(Held(G, i, next))
                        /\ r + 1 <= Cardinality(Held(G, i, known)) =>
                              r + 1 <= Cardinality(Held(G, i, next))
      OBVIOUS
    <2>1. Moves(G, i, m, r, known)
      BY DEF Advances
    <2> QED
      BY <2>1, MemberMoves, Zenon
  <1>4. ASSUME now
        PROVE  \E G \in Groups : r + 1 <= Cardinality(Held(G, i, next))
    <2>1. CASE dirty
      <3>1. PICK G \in Groups : r + 1 <= Cardinality(Held(G, i, known))
        BY <2>1 DEF Advances
      <3> QED
        BY <1>3, <3>1
    <2>2. CASE value # known[f]
      <3>1. /\ known[f] \subseteq value
            /\ value \subseteq known[f] \cup Summarize(f, program[f], known)
        BY <1>0 DEF Merges
      <3>2. PICK x \in value : x \notin known[f] /\ x \in Summarize(f, program[f], known)
        BY <2>2, <3>1
      <3>3. PICK G \in Groups : x \in G
        BY <1>0, <1>2, <3>2, GroupsCover DEF Exact
      <3> QED
        BY <1>3, <3>2, <3>3
    <2> QED
      BY <1>0, <1>4, <2>1, <2>2 DEF Merges
  <1>5. ASSUME NEW k \in 1..n, k < m + 1
        PROVE  Ascending(Components[i])[k] \in Range(after)
    <2>1. k < m \/ k = m
      BY <1>0, <1>5
    <2> QED
      BY <1>0, <1>1, <2>1 DEF Advances
  <1>6. m + 1 <= n + 1 /\ r < RoundsNeeded(i)
    BY <1>0, <1>1 DEF Advances
  <1> QED
    BY <1>1, <1>3, <1>4, <1>5, <1>6 DEF Advances

(* A component begins with nothing held and no member passed.              *)
LEMMA ComponentBegins ==
    ASSUME Exact, NEW i \in DOMAIN Components, NEW known, NEW evaluated
    PROVE  Advances(i, 1, 0, FALSE, known, evaluated)
  <1>1. PICK n : n = Cardinality(Components[i]) /\ n \in Nat
    BY MembersAreListed
  <1>2. \A k \in 1..n : ~(k < 1)
    BY <1>1
  <1>3. 0 < RoundsNeeded(i) /\ 1 <= n + 1
    BY <1>1, RoundsAreSome
  <1>4. \A G \in Groups : Moves(G, i, 1, 0, known)
    <2> SUFFICES ASSUME NEW G \in Groups PROVE Moves(G, i, 1, 0, known)
      OBVIOUS
    <2>1. 0 <= Cardinality(Held(G, i, known))
      BY HeldFits
    <2> QED
      BY <1>1, <1>2, <2>1 DEF Moves
  <1> QED
    BY <1>1, <1>2, <1>3, <1>4 DEF Advances

(* A round with a change was not the last one needed.                      *)
LEMMA RoundWasNeeded ==
    ASSUME Exact, NEW i \in DOMAIN Components, NEW m, NEW r \in Nat, NEW known, NEW evaluated,
           Advances(i, m, r, TRUE, known, evaluated)
    PROVE  r + 1 < RoundsNeeded(i)
  <1>1. PICK G \in Groups : r + 1 <= Cardinality(Held(G, i, known))
    BY DEF Advances
  <1>2. PICK n, h : /\ n = Cardinality(Components[i]) /\ n \in Nat
                    /\ h = Cardinality(Held(G, i, known)) /\ h \in Nat /\ h <= 3 * n
    BY HeldFits
  <1>3. i \in call_graph.cyclic
    BY DEF Advances
  <1>4. RoundsNeeded(i) = 3 * n + 1
    BY <1>2, <1>3, RoundsAreSome
  <1> QED
    BY <1>1, <1>2, <1>4

(* And another can follow it.                                              *)
LEMMA RoundFollows ==
    ASSUME Exact, NEW i \in DOMAIN Components, NEW m \in Nat, NEW r \in Nat, NEW known,
           NEW evaluated,
           Advances(i, m, r, TRUE, known, evaluated), m > Cardinality(Components[i])
    PROVE  Advances(i, 1, r + 1, FALSE, known, evaluated)
  <1>1. PICK n : n = Cardinality(Components[i]) /\ n \in Nat
    BY MembersAreListed
  <1>2. \A k \in 1..n : ~(k < 1) /\ k < m
    BY <1>1
  <1>3. r + 1 < RoundsNeeded(i) /\ 1 <= n + 1
    <2>1. r + 1 < RoundsNeeded(i)
      BY RoundWasNeeded, Zenon
    <2> QED
      BY <1>1, <2>1
  <1>4. \A G \in Groups : Moves(G, i, 1, r + 1, known)
    <2> SUFFICES ASSUME NEW G \in Groups PROVE Moves(G, i, 1, r + 1, known)
      OBVIOUS
    <2>1. CASE r + 1 <= Cardinality(Held(G, i, known))
      BY <1>1, <1>2, <2>1 DEF Moves
    <2>2. CASE \A k \in 1..n : HoldsIn(G, Ascending(Components[i])[k], known)
      <3>1. \A f \in Components[i] : HoldsIn(G, f, known)
        BY <1>1, <2>2, MembersAreListed
      <3> QED
        BY <3>1 DEF Moves
    <2>3. CASE \A f \in Components[i] : HoldsIn(G, f, known)
      BY <2>3 DEF Moves
    <2>4. Moves(G, i, m, r, known)
      BY DEF Advances
    <2> QED
      BY <1>1, <1>2, <2>1, <2>2, <2>3, <2>4 DEF Moves
  <1>5. i \in call_graph.cyclic
    BY DEF Advances
  <1> QED
    BY <1>1, <1>2, <1>3, <1>4, <1>5 DEF Advances

-------------------------------------------------------------------------------
(* Work is finite, and spent step by step *)

(* A component is a class, and an edge is a call from one to another.      *)
LEMMA EdgesAreCalls ==
    ASSUME Exact
    PROVE  /\ \A i \in DOMAIN Components : \A f \in Components[i] : Components[i] = Class(f)
           /\ \A e \in call_graph.edges :
                 e[1] # e[2] /\ \E f, g : <<f, g>> \in Edges /\ Own(f) = e[1] /\ Own(g) = e[2]
  <1> DEFINE found == MutuallyRecursive(program)
             list == Listed(found)
  <1>1. /\ Divides(found) /\ \A c \in found : c \in SUBSET Callables
        /\ \A f \in Callables : Class(f) \in found /\ f \in Class(f)
    <2>1. found = {Class(f) : f \in Callables}
      BY DEF Class, MutuallyRecursive, Callables, Reach, Edges
    <2> HIDE DEF found
    <2>2. \A f \in Callables : Class(f) \in found /\ f \in Class(f)
      BY <2>1 DEF Class
    <2> QED
      BY <2>2, ClassesDivide DEF Exact, found
  <1>2. call_graph = Decomposition(found, Edges)
    BY DEF Exact, ExactDecomposition, Edges
  <1> HIDE DEF found
  <1>3. /\ Components = list
        /\ call_graph.edges = {<<Own(e[1]), Own(e[2])>> : e \in Edges} \ {<<i, i>> : i \in DOMAIN list}
    <2>1. /\ call_graph.components = list
          /\ call_graph.edges = {<<OwnerIn(list, e[1]), OwnerIn(list, e[2])>> : e \in Edges}
                                    \ {<<i, i>> : i \in DOMAIN list}
      BY <1>2 DEF Decomposition, Listed, Smallest, OwnerIn
    <2> HIDE DEF list
    <2>2. \A f : Own(f) = OwnerIn(list, f)
      BY <2>1 DEF Components, Own
    <2> QED
      BY <2>1, <2>2 DEF Components
  <1>4. \A i \in DOMAIN list : list[i] \in found
    BY <1>1, ClassesAreListed
  <1> HIDE DEF list
  <1>5. ASSUME NEW i \in DOMAIN list, NEW f \in list[i] PROVE list[i] = Class(f)
    <2>1. f \in Callables /\ list[i] \in found
      BY <1>1, <1>4
    <2> QED
      BY <1>1, <2>1 DEF Divides
  <1>6. ASSUME NEW p \in call_graph.edges
        PROVE  p[1] # p[2] /\ \E f, g : <<f, g>> \in Edges /\ Own(f) = p[1] /\ Own(g) = p[2]
    <2>1. PICK e \in Edges : p = <<Own(e[1]), Own(e[2])>>
      BY <1>3
    <2>2. e \in Callables \X Callables
      BY ReachComposes DEF Exact
    <2>3. PICK f, g : e = <<f, g>> /\ f \in Callables /\ g \in Callables
      BY <2>2
    <2>4. p[1] = Own(f) /\ p[2] = Own(g) /\ <<f, g>> \in Edges
      BY <2>1, <2>3
    <2>5. Own(f) \in DOMAIN list
      BY <1>3, <2>3, DecompositionFacts
    <2>6. p \notin {<<i, i>> : i \in DOMAIN list}
      BY <1>3
    <2>7. Own(f) # Own(g)
      <3>1. ASSUME Own(f) = Own(g) PROVE FALSE
        <4>1. PICK i : i = Own(f)
          OBVIOUS
        <4>2. p = <<i, i>> /\ i \in DOMAIN list
          BY <2>1, <2>3, <2>5, <3>1, <4>1
        <4> QED
          BY <2>6, <4>2
      <3> QED
        BY <3>1
    <2> QED
      BY <2>4, <2>7
  <1> QED
    BY <1>3, <1>5, <1>6

\* The functions that those of component i reach.
Below(i) == {g \in Callables : \E f \in Components[i] : Reaches(f, g)}

(* What is called reaches less than its caller.                            *)
LEMMA CallsDescend ==
    ASSUME Exact, NEW e \in call_graph.edges
    PROVE  /\ IsFiniteSet(Below(e[1])) /\ IsFiniteSet(Below(e[2]))
           /\ Cardinality(Below(e[1])) \in Nat /\ Cardinality(Below(e[2])) \in Nat
           /\ Cardinality(Below(e[2])) < Cardinality(Below(e[1]))
  <1>1. PICK i, j : i = e[1] /\ j = e[2]
    OBVIOUS
  <1>2. i \in DOMAIN Components /\ j \in DOMAIN Components /\ i # j
    <2>1. e \in (DOMAIN Components) \X (DOMAIN Components)
      BY DecompositionFacts
    <2> QED
      BY <1>1, <2>1, EdgesAreCalls
  <1>3. PICK f, g : <<f, g>> \in Edges /\ Own(f) = i /\ Own(g) = j
    BY <1>1, EdgesAreCalls
  <1>4. /\ f \in Callables /\ g \in Callables /\ f \in Components[i] /\ g \in Components[j]
        /\ IsFiniteSet(Callables)
    <2>1. <<f, g>> \in Callables \X Callables
      BY <1>3, ReachComposes DEF Exact
    <2>2. f \in Callables /\ g \in Callables
      BY <2>1
    <2> QED
      BY <1>3, <2>2, DecompositionFacts, TypedFacts DEF Exact
  <1>5. /\ \A a, b, d : <<a, b>> \in Reach /\ <<b, d>> \in Reach => <<a, d>> \in Reach
        /\ <<f, g>> \in Reach
    <2>1. Edges \in SUBSET (Callables \X Callables) /\ IsFiniteSet(Callables)
      BY <1>4, ReachComposes DEF Exact
    <2>2. Edges \subseteq Reach
      BY <2>1, ClosureCloses DEF Reach
    <2> QED
      BY <1>3, <2>2, ReachComposes DEF Exact
  <1>6. \A x \in Components[j] : Reaches(g, x) /\ Reaches(x, g)
    <2>1. Components[j] = Class(g)
      BY <1>2, <1>4, EdgesAreCalls
    <2> QED
      BY <2>1 DEF Class, Reaches
  <1>7. Below(j) \subseteq Below(i)
    <2> SUFFICES ASSUME NEW y \in Callables, NEW x \in Components[j], Reaches(x, y)
                 PROVE  y \in Below(i)
      BY DEF Below
    <2>1. Reaches(f, y)
      BY <1>5, <1>6 DEF Reaches
    <2> QED
      BY <1>4, <2>1 DEF Below
  <1>8. f \in Below(i) /\ f \notin Below(j)
    <2>1. f \in Below(i)
      BY <1>4 DEF Below, Reaches
    <2>2. ASSUME NEW x \in Components[j], Reaches(x, f) PROVE FALSE
      <3>1. Reaches(g, f)
        BY <1>5, <1>6, <2>2 DEF Reaches
      <3>2. f \in Class(g)
        BY <1>4, <1>5, <3>1 DEF Class, Reaches
      <3>3. f \in Components[j]
        BY <1>2, <1>4, <3>2, EdgesAreCalls
      <3> QED
        BY <1>2, <1>3, <3>3, DecompositionFacts
    <2> QED
      BY <2>1, <2>2 DEF Below
  <1>9. PICK few, many : few = Below(j) /\ many = Below(i)
    OBVIOUS
  <1>10. IsFiniteSet(few) /\ IsFiniteSet(many) /\ Cardinality(few) \in Nat /\ Cardinality(many) \in Nat
    <2>1. few \in SUBSET Callables /\ many \in SUBSET Callables
      BY <1>9 DEF Below
    <2> QED
      BY <1>4, <2>1, FS_Subset, FS_CardinalityType
  <1>11. Cardinality(few) < Cardinality(many)
    <2>1. few \in SUBSET many /\ few # many
      BY <1>7, <1>8, <1>9
    <2>2. Cardinality(few) <= Cardinality(many) /\ Cardinality(few) # Cardinality(many)
      BY <1>10, <2>1, FS_Subset
    <2> QED
      BY <1>10, <2>2
  <1> QED
    BY <1>1, <1>9, <1>10, <1>11

(* When nothing is ready, every component has been placed.                 *)
LEMMA OrderIsComplete ==
    ASSUME Exact, OrderIsSound, ReadyAreKnown, ready = {}
    PROVE  Range(order) = DOMAIN Components
  <1> DEFINE left == (DOMAIN Components) \ Range(order)
             sizes == {Cardinality(Below(i)) : i \in left}
  <1>1. ASSUME NEW i \in left
        PROVE  \E j \in left : /\ Cardinality(Below(i)) \in Nat /\ Cardinality(Below(j)) \in Nat
                               /\ Cardinality(Below(j)) < Cardinality(Below(i))
    <2>1. Awaited(i) # {}
      BY DEF ReadyAreKnown
    <2>2. PICK e \in call_graph.edges : e[1] = i /\ e[2] \notin Range(order)
      BY <2>1 DEF Awaited
    <2>3. e \in (DOMAIN Components) \X (DOMAIN Components)
      BY DecompositionFacts
    <2>4. e[2] \in left
      BY <2>2, <2>3
    <2> QED
      BY <2>2, <2>4, CallsDescend
  <1>2. left = {}
    <2> SUFFICES ASSUME left # {} PROVE FALSE
      OBVIOUS
    <2>1. sizes \in SUBSET Nat /\ sizes # {}
      BY <1>1
    <2> HIDE DEF sizes
    <2>2. PICK n \in sizes : \A k \in sizes : n <= k
      BY <2>1, LeastOfNaturals
    <2>3. PICK i \in left : n = Cardinality(Below(i))
      BY DEF sizes
    <2>4. PICK j \in left : Cardinality(Below(j)) \in Nat /\ Cardinality(Below(j)) < n
      BY <1>1, <2>3
    <2>5. Cardinality(Below(j)) \in sizes
      BY DEF sizes
    <2> QED
      BY <2>1, <2>2, <2>4, <2>5
  <1>3. order \in Seq(DOMAIN Components)
    BY DEF OrderIsSound
  <1>4. Range(order) \subseteq DOMAIN Components
    BY <1>3 DEF Range
  <1> QED
    BY <1>2, <1>4

(* No component is placed twice, so there are not more places than components. *)
LEMMA OrderFits ==
    ASSUME Exact, OrderIsSound, Placed
    PROVE  /\ Cardinality(DOMAIN Components) \in Nat /\ Len(order) \in Nat
           /\ Len(order) <= Cardinality(DOMAIN Components)
           /\ ready # {} => Len(order) < Cardinality(DOMAIN Components)
  <1>1. order \in Seq(DOMAIN Components) /\ ready \subseteq (DOMAIN Components) \ Range(order)
    BY DEF OrderIsSound
  <1>2. PICK D, n : D = DOMAIN Components /\ n = Len(order)
    OBVIOUS
  <1>3. IsFiniteSet(D) /\ Cardinality(D) \in Nat
    <2>1. PICK m \in Nat : D = 1..m
      BY <1>2, DecompositionFacts
    <2> QED
      BY <2>1, FS_Interval, FS_CardinalityType
  <1>4. order \in [1..n -> D] /\ n \in Nat
    BY <1>1, <1>2
  <1>5. order \in Injection(1..n, D)
    BY <1>4 DEF Placed, Injection, IsInjective
  <1>6. Cardinality(1..n) <= Cardinality(D) /\ (Cardinality(1..n) = Cardinality(D) => order \in Surjection(1..n, D))
    BY <1>3, <1>5, FS_Injection
  <1>7. Cardinality(1..n) = n
    BY <1>4, FS_Interval
  <1>8. order \in Surjection(1..n, D) => ready = {}
    BY <1>1, <1>2, <1>4 DEF Surjection, Range
  <1> QED
    BY <1>2, <1>3, <1>4, <1>6, <1>7, <1>8

(* There are finitely many evaluations.                                    *)
LEMMA WorkIsFinite ==
    ASSUME Exact
    PROVE  IsFiniteSet(Work)
  <1> DEFINE due(i) == (1..RoundsNeeded(i)) \X Components[i]
             parts == {due(i) : i \in DOMAIN Components}
  <1>1. \A i \in DOMAIN Components : IsFiniteSet(due(i))
    <2> SUFFICES ASSUME NEW i \in DOMAIN Components PROVE IsFiniteSet(due(i))
      OBVIOUS
    <2>1. IsFiniteSet(Callables) /\ Components[i] \in SUBSET Callables
      BY TypedFacts, DecompositionFacts DEF Exact
    <2>2. IsFiniteSet(Components[i])
      BY <2>1, FS_Subset
    <2>3. IsFiniteSet(1..RoundsNeeded(i))
      BY RoundsAreSome, FS_Interval
    <2> QED
      BY <2>2, <2>3, FS_Product
  <1>2. IsFiniteSet(parts)
    <2> DEFINE h == [i \in DOMAIN Components |-> due(i)]
    <2>1. h \in Surjection(DOMAIN Components, parts)
      BY DEF Surjection
    <2>2. PICK m \in Nat : DOMAIN Components = 1..m
      BY DecompositionFacts
    <2>3. IsFiniteSet(DOMAIN Components)
      BY <2>2, FS_Interval
    <2> HIDE DEF h, parts
    <2> QED
      BY <2>1, <2>3, FS_Surjection
  <1>3. Work = UNION parts
    BY DEF Work
  <1>4. \A T \in parts : IsFiniteSet(T)
    BY <1>1
  <1> HIDE DEF parts
  <1> QED
    BY <1>2, <1>3, <1>4, FS_UNION

(* What is behind stays behind, and there is less of it than of what is due. *)
LEMMA SpentCounts ==
    ASSUME Exact, NEW c, NEW m, NEW r, NEW d, NEW k, NEW s, Spent(c, m, r) \subseteq Spent(d, k, s)
    PROVE  /\ Cardinality(Spent(c, m, r)) \in Nat /\ Cardinality(Spent(d, k, s)) \in Nat
           /\ Cardinality(Work) \in Nat
           /\ Cardinality(Spent(c, m, r)) <= Cardinality(Spent(d, k, s))
           /\ \A w \in Work \ Spent(c, m, r) :
                 /\ Cardinality(Spent(c, m, r)) < Cardinality(Work)
                 /\ w \in Spent(d, k, s) => Cardinality(Spent(c, m, r)) + 1 <= Cardinality(Spent(d, k, s))
  <1>1. PICK few, many : few = Spent(c, m, r) /\ many = Spent(d, k, s)
    OBVIOUS
  <1>2. few \in SUBSET Work /\ many \in SUBSET Work /\ few \in SUBSET many /\ IsFiniteSet(Work)
    BY <1>1, WorkIsFinite DEF Spent
  <1>3. /\ IsFiniteSet(few) /\ IsFiniteSet(many)
        /\ Cardinality(few) \in Nat /\ Cardinality(many) \in Nat /\ Cardinality(Work) \in Nat
    BY <1>2, FS_Subset, FS_CardinalityType
  <1>4. Cardinality(few) <= Cardinality(many)
    BY <1>2, <1>3, FS_Subset
  <1>5. ASSUME NEW w \in Work \ few
        PROVE  /\ Cardinality(few) < Cardinality(Work)
               /\ w \in many => Cardinality(few) + 1 <= Cardinality(many)
    <2>1. IsFiniteSet(few \cup {w}) /\ Cardinality(few \cup {w}) = Cardinality(few) + 1
      BY <1>3, <1>5, FS_AddElement
    <2>2. few \cup {w} \in SUBSET Work
      BY <1>2, <1>5
    <2>3. Cardinality(few \cup {w}) <= Cardinality(Work)
      BY <1>2, <2>2, FS_Subset
    <2>4. w \in many => Cardinality(few \cup {w}) <= Cardinality(many)
      <3>1. w \in many => few \cup {w} \in SUBSET many
        BY <1>2
      <3> QED
        BY <1>3, <3>1, FS_Subset
    <2> QED
      BY <1>3, <2>1, <2>3, <2>4
  <1> QED
    BY <1>1, <1>3, <1>4, <1>5

(* An evaluation is a new one, and behind when its member is passed.       *)
LEMMA EvaluationIsNew ==
    ASSUME Exact, OrderIsSound, Placed, NEW c \in DOMAIN order, NEW m \in Nat \ {0}, NEW r \in Nat,
           NEW f, m <= Cardinality(Components[order[c]]), f = Ascending(Components[order[c]])[m],
           r < RoundsNeeded(order[c])
    PROVE  /\ <<r + 1, f>> \in Work \ Spent(c, m, r)
           /\ <<r + 1, f>> \in Spent(c, m + 1, r)
           /\ <<r + 1, f>> \in Spent(c + 1, 1, 0)
  <1>1. PICK w : w = <<r + 1, f>>
    OBVIOUS
  <1>2. w[1] = r + 1 /\ w[2] = f
    BY <1>1
  <1>3. PICK i, n, R : i = order[c] /\ n = Cardinality(Components[i]) /\ R = RoundsNeeded(i)
    OBVIOUS
  <1>4. i \in DOMAIN Components /\ order \in Seq(DOMAIN Components) /\ c \in Nat
    <2>1. order \in Seq(DOMAIN Components)
      BY DEF OrderIsSound
    <2> QED
      BY <1>3, <2>1
  <1>5. n \in Nat /\ R \in Nat
    BY <1>3, <1>4, MembersAreListed, RoundsAreSome
  <1>6. m \in 1..n /\ r + 1 \in 1..R
    BY <1>3, <1>5
  <1>7. f \in Components[i]
    BY <1>3, <1>4, <1>6, MembersAreListed
  <1>8. w \in Work
    <2>1. w \in (1..RoundsNeeded(i)) \X Components[i]
      BY <1>1, <1>3, <1>6, <1>7
    <2> QED
      BY <1>4, <2>1 DEF Work
  <1>9. w \notin Spent(c, m, r)
    <2>1. ASSUME NEW p \in DOMAIN order, f \in Components[order[p]] PROVE p = c
      <3>1. order[p] \in DOMAIN Components
        BY <1>4
      <3>2. Own(f) = order[p] /\ Own(f) = i
        BY <1>4, <1>7, <2>1, <3>1, DecompositionFacts
      <3> QED
        BY <1>3, <3>2 DEF Placed
    <2>2. \A k \in 1..(m - 1) : Ascending(Components[i])[k] # f
      <3>1. PICK S : S = Components[i]
        OBVIOUS
      <3>2. S \in SUBSET Nat /\ IsFiniteSet(S)
        <4>1. S \in SUBSET Callables /\ Callables \in SUBSET Nat /\ IsFiniteSet(Callables)
          BY <1>4, <3>1, DecompositionFacts, TypedFacts DEF Exact
        <4> QED
          BY <4>1, FS_Subset
      <3>3. /\ DOMAIN Ascending(S) = 1..n
            /\ \A j, k \in DOMAIN Ascending(S) : Ascending(S)[j] = Ascending(S)[k] => j = k
        BY <1>3, <3>1, <3>2, AscendingLists
      <3>4. \A k \in 1..(m - 1) : k \in 1..n /\ k # m
        BY <1>5, <1>6
      <3> QED
        BY <1>3, <1>6, <3>1, <3>3, <3>4
    <2>3. ~(c < c) /\ ~(r + 1 <= r)
      BY <1>4
    <2> QED
      BY <1>2, <1>3, <2>1, <2>2, <2>3 DEF Spent
  <1>10. w \in Spent(c, m + 1, r)
    <2>1. m \in 1..((m + 1) - 1)
      OBVIOUS
    <2>2. Ascending(Components[order[c]])[m] = w[2]
      BY <1>2
    <2>3. w[2] \in Components[order[c]]
      BY <1>2, <1>3, <1>7
    <2>4. \E k \in 1..((m + 1) - 1) : Ascending(Components[order[c]])[k] = w[2]
      BY <2>1, <2>2
    <2> QED
      BY <1>2, <1>8, <2>3, <2>4 DEF Spent
  <1>11. w \in Spent(c + 1, 1, 0)
    <2>1. c < c + 1
      BY <1>4
    <2> QED
      BY <1>2, <1>3, <1>7, <1>8, <2>1 DEF Spent
  <1> QED
    BY <1>1, <1>8, <1>9, <1>10, <1>11

(* What is behind stays behind, at the next member, round or component.    *)
LEMMA SpentGrows ==
    ASSUME OrderIsSound, NEW c \in Nat, NEW m \in Nat \ {0}, NEW r \in Nat
    PROVE  /\ Spent(c, m, r) \subseteq Spent(c, m + 1, r)
           /\ Spent(c, m, r) \subseteq Spent(c + 1, 1, 0)
           /\ Spent(c, m, r) \subseteq Spent(c, 1, r + 1)
  <1>1. order \in Seq(DOMAIN Components)
    BY DEF OrderIsSound
  <1>2. \A p \in DOMAIN order : (p < c => p < c + 1) /\ (p = c => p < c + 1)
    BY <1>1
  <1>3. \A k \in 1..(m - 1) : k \in 1..((m + 1) - 1)
    OBVIOUS
  <1>4. Spent(c, m, r) \subseteq Spent(c, m + 1, r)
    BY <1>3 DEF Spent
  <1>5. Spent(c, m, r) \subseteq Spent(c + 1, 1, 0)
    BY <1>2 DEF Spent
  <1>6. Spent(c, m, r) \subseteq Spent(c, 1, r + 1)
    <2>1. \A w \in Work : w[1] \in Nat
      <3> SUFFICES ASSUME NEW w \in Work PROVE w[1] \in Nat
        OBVIOUS
      <3>1. PICK i \in DOMAIN Components : w \in (1..RoundsNeeded(i)) \X Components[i]
        BY DEF Work
      <3>2. w[1] \in 1..RoundsNeeded(i)
        BY <3>1
      <3> QED
        BY <3>2
    <2>2. \A w \in Work : w[1] <= r => w[1] <= r + 1
      BY <2>1
    <2>3. r + 1 <= r + 1
      OBVIOUS
    <2> QED
      BY <2>2, <2>3 DEF Spent
  <1> QED
    BY <1>4, <1>5, <1>6

-------------------------------------------------------------------------------
(* The steps of a run *)

(* A run stays what it is as long as program, decomposition and order stay. *)
LEMMA RunStays ==
    ASSUME Typed, UNCHANGED <<program, call_graph, order>>
    PROVE  /\ Components' = Components /\ WorkNeeded' = WorkNeeded
           /\ \A i : RoundsNeeded(i)' = RoundsNeeded(i)
           /\ \A known, c, m, r, dirty, evaluated, steps :
                 Runs(known, c, m, r, dirty, evaluated, steps)
                     => Runs(known, c, m, r, dirty, evaluated, steps)'
  <1>1. /\ Callables' = Callables /\ Components' = Components
        /\ \A f, body, known : Summarize(f, body, known)' = Summarize(f, body, known)
    BY SolutionStays, DecompositionStays
  <1>2. \A i : RoundsNeeded(i)' = RoundsNeeded(i)
    BY <1>1 DEF RoundsNeeded
  <1>3. WorkNeeded' = WorkNeeded
    BY <1>1, <1>2 DEF WorkNeeded
  <1>4. \A c, m, r : Spent(c, m, r)' = Spent(c, m, r)
    <2>1. Work' = Work
      BY <1>1, <1>2 DEF Work
    <2> QED
      BY <1>1, <2>1 DEF Spent
  <1>5. Groups' = Groups
    BY <1>1 DEF Groups, Answers
  <1>6. \A G, f, known : HoldsIn(G, f, known)' <=> HoldsIn(G, f, known)
    BY <1>1 DEF HoldsIn
  <1>7. \A G, i, known : Held(G, i, known)' = Held(G, i, known)
    BY <1>1 DEF Held
  <1>8. \A G, i, m, r, known : Moves(G, i, m, r, known)' <=> Moves(G, i, m, r, known)
    BY <1>1, <1>6, <1>7 DEF Moves
  <1>9. \A i, m, r, dirty, known, evaluated :
           Advances(i, m, r, dirty, known, evaluated)' <=> Advances(i, m, r, dirty, known, evaluated)
    BY <1>1, <1>2, <1>5, <1>7, <1>8 DEF Advances
  <1>10. \A known, c, m, r, dirty, evaluated, steps :
            Runs(known, c, m, r, dirty, evaluated, steps)
                => Runs(known, c, m, r, dirty, evaluated, steps)'
    BY <1>1, <1>4, <1>9 DEF Runs
  <1> QED
    BY <1>1, <1>2, <1>3, <1>10

(* What holds of a run at work.                                            *)
LEMMA RunFacts ==
    ASSUME SolverInv, RunInv, phase \in {"order", "summaries"}
    PROVE  /\ Typed /\ Exact /\ OrderIsSound /\ Placed /\ cap_events = {} /\ issues = {}
           /\ job.caps \in [functions: Nat, worklist: Nat, rounds: Nat, facts: Nat]
           /\ IsFiniteSet(job.seeds) /\ solution = Solution
  BY DEF SolverInv, RunInv, Working, Keeping, Asked

(* A run that goes on with its summaries keeps the invariant.              *)
LEMMA RunKeeps ==
    ASSUME SolverInv, RunInv, phase = "summaries", phase' = "summaries",
           UNCHANGED <<input, orderVars, seed_facts>>, cap_events' = {}, issues' = {},
           Runs(summaries', component', member', rounds', changed', processed', worklist_steps')
    PROVE  RunInv'
  <1>1. program' = program /\ call_graph' = call_graph /\ order' = order /\ job' = job
    BY DEF input, sccVars, orderVars
  <1>2. Typed /\ Placed
    BY RunFacts
  <1>3. Components' = Components /\ Callables' = Callables
    BY <1>1, <1>2, DecompositionStays
  <1>4. PICK known, c, m, r, dirty, evaluated, steps :
           /\ known = summaries' /\ c = component' /\ m = member' /\ r = rounds' /\ dirty = changed'
           /\ evaluated = processed' /\ steps = worklist_steps'
    OBVIOUS
  <1>5. Runs(known, c, m, r, dirty, evaluated, steps)
    BY <1>4 DEF Runs
  <1>6. Runs(known, c, m, r, dirty, evaluated, steps)'
    BY <1>1, <1>2, <1>5, RunStays
  <1>7. Runs(summaries, component, member, rounds, changed, processed, worklist_steps)'
    BY <1>4, <1>6 DEF Runs
  <1>8. SeedsAreKept'
    <2>1. SeedsAreKept
      BY DEF RunInv
    <2>2. \A f : SeedFacts(f)' = SeedFacts(f)
      BY <1>1, <1>3 DEF SeedFacts
    <2> QED
      BY <1>3, <2>1, <2>2 DEF SeedsAreKept
  <1>9. Range(order') = DOMAIN Components'
    BY <1>1, <1>3 DEF RunInv
  <1>10. Asked' /\ Placed'
    BY <1>1, <1>2 DEF RunInv, Asked, Placed
  <1>11. (\E prog \in Programs : program \in {prog} \cup Rewrites(prog))'
    BY <1>1 DEF RunInv
  <1> QED
    BY <1>7, <1>8, <1>9, <1>10, <1>11 DEF RunInv

(* A run that stops keeps it when what it returns is exact.                *)
LEMMA RunStops ==
    ASSUME RunInv, phase # "call_graph", phase' = "done", UNCHANGED input, CompletionIsExact'
    PROVE  RunInv'
  <1>1. program' = program /\ job' = job
    BY DEF input
  <1>2. (\E prog \in Programs : program \in {prog} \cup Rewrites(prog))' /\ Asked'
    BY <1>1 DEF RunInv, Asked
  <1> QED
    BY <1>2 DEF RunInv

(* A run that stops with an issue, or at a cap that is too small.          *)
LEMMA StopsExactly ==
    ASSUME SolverInv, RunInv, phase \in {"order", "summaries"}, phase' = "done",
           UNCHANGED <<input, orderVars>>,
           \/ cap_events' = {} /\ issues' # {}
           \/ cap_events' = {<<"WorklistSteps">>} /\ job.caps.worklist < WorkNeeded
           \/ \E i : cap_events' = {<<"SccIterations", i>>} /\ job.caps.rounds < RoundsNeeded(i)
    PROVE  RunInv'
  <1>1. program' = program /\ call_graph' = call_graph /\ order' = order /\ job' = job
    BY DEF input, sccVars, orderVars
  <1>2. WorkNeeded' = WorkNeeded /\ \A i : RoundsNeeded(i)' = RoundsNeeded(i)
    BY <1>1, RunFacts, RunStays
  <1>3. CompleteIsLeast'
    BY DEF CompleteIsLeast
  <1>4. SufficientCapsNeverFire'
    <2>1. CASE cap_events' = {}
      BY <2>1 DEF SufficientCapsNeverFire
    <2>2. CASE cap_events' = {<<"WorklistSteps">>} /\ job.caps.worklist < WorkNeeded
      BY <1>1, <1>2, <2>2 DEF SufficientCapsNeverFire
    <2>3. CASE \E i : cap_events' = {<<"SccIterations", i>>} /\ job.caps.rounds < RoundsNeeded(i)
      <3>1. PICK i : cap_events' = {<<"SccIterations", i>>} /\ job.caps.rounds < RoundsNeeded(i)
        BY <2>3
      <3>2. PICK event : event = <<"SccIterations", i>>
        OBVIOUS
      <3>3. event[1] = "SccIterations" /\ event[2] = i /\ cap_events' = {event}
        BY <3>1, <3>2
      <3>4. job'.caps.rounds < RoundsNeeded(i)'
        BY <1>1, <1>2, <3>1
      <3> QED
        BY <3>3, <3>4 DEF SufficientCapsNeverFire
    <2> QED
      BY <2>1, <2>2, <2>3
  <1>5. CompletionIsExact'
    BY <1>3, <1>4 DEF CompletionIsExact
  <1> QED
    BY <1>5, RunStops

(* What is asked of a program is what may be asked.                        *)
LEMMA SolveRuns ==
    ASSUME SolverInv, RunInv, Solve
    PROVE  RunInv'
  <1>1. /\ phase = "call_graph" /\ program' = program /\ call_graph' = call_graph /\ order' = order
        /\ job' \in JobsFor(program) /\ rounds' = rounds /\ worklist_steps' = worklist_steps
        /\ cap_events' = IF Len(program) > job'.caps.functions THEN {<<"Callables">>} ELSE {}
        /\ phase' = IF cap_events' \cup issues' # {} THEN "done" ELSE "order"
        /\ ready' = {i \in DOMAIN Components : \A e \in call_graph.edges : e[1] # i}
    BY DEF Solve, sccVars, place, results
  <1>2. order = <<>> /\ rounds = 0 /\ worklist_steps = Len(order)
    BY <1>1 DEF SolverInv, RunInv
  <1>3. PICK prog \in Programs : program \in {prog} \cup Rewrites(prog)
    BY DEF RunInv
  <1>4. Asked'
    BY <1>1, <1>3, SolverAssumption DEF Asked
  <1>5. CASE phase' = "done"
    <2>1. CompleteIsLeast'
      BY <1>1, <1>5 DEF CompleteIsLeast
    <2>2. SufficientCapsNeverFire'
      BY <1>1 DEF SufficientCapsNeverFire
    <2> QED
      BY <1>1, <1>3, <1>4, <1>5, <2>1, <2>2 DEF RunInv, CompletionIsExact
  <1>6. CASE phase' = "order"
    <2>1. cap_events' = {} /\ issues' = {}
      BY <1>1, <1>6
    <2>2. Placed'
      BY <1>1, <1>2 DEF Placed
    <2>3. ReadyAreKnown'
      BY <1>1, <1>2 DEF ReadyAreKnown, Awaited, Components, Range
    <2> QED
      BY <1>1, <1>2, <1>3, <1>4, <1>6, <2>1, <2>2, <2>3 DEF RunInv
  <1> QED
    BY <1>1, <1>5, <1>6

(* A component placed is a new one, and those it frees are ready.          *)
LEMMA OrderNextRuns ==
    ASSUME SolverInv, RunInv, OrderNext
    PROVE  RunInv'
  <1>1. PICK i : i = FirstReady
    OBVIOUS
  <1>2. /\ phase = "order" /\ phase' = "order" /\ UNCHANGED <<input, place, evidence>>
        /\ program' = program /\ call_graph' = call_graph /\ job' = job
        /\ order' = Append(order, i) /\ worklist_steps' = worklist_steps + 1
        /\ ready' = (ready \ {i}) \cup {j \in Callers(i) : remaining_callees'[j] = 0}
    BY <1>1 DEF OrderNext, ConsumeWorkStep, input, sccVars
  <1>3. Exact /\ OrderIsSound /\ Placed /\ cap_events = {} /\ issues = {}
    BY <1>2, RunFacts
  <1>4. i \in ready /\ i \in DOMAIN Components /\ i \notin Range(order)
    <2>1. i \in ready
      BY <1>1, <1>3, FirstIsReady DEF OrderNext
    <2> QED
      BY <1>3, <2>1 DEF OrderIsSound
  <1>5. OrderIsSound' /\ Components' = Components
    BY <1>2, <1>3, OrderGrows DEF Components
  <1>6. /\ order \in Seq(DOMAIN Components) /\ Len(order) \in Nat
        /\ DOMAIN order' = 1..(Len(order) + 1) /\ DOMAIN order = 1..Len(order) /\ Len(order') = Len(order) + 1
        /\ order'[Len(order) + 1] = i /\ \A p \in DOMAIN order : order'[p] = order[p]
    <2>1. order \in Seq(DOMAIN Components)
      BY <1>3 DEF OrderIsSound
    <2> QED
      BY <1>2, <1>4, <2>1
  <1>7. Range(order') = Range(order) \cup {i}
    BY <1>6 DEF Range
  <1>8. Placed'
    <2>1. \A p \in DOMAIN order' : p \in DOMAIN order \/ p = Len(order) + 1
      BY <1>6
    <2>2. \A p \in DOMAIN order : order[p] # i
      BY <1>4 DEF Range
    <2> QED
      BY <1>3, <1>6, <2>1, <2>2 DEF Placed
  <1>9. ReadyAreKnown'
    <2> SUFFICES ASSUME NEW j \in DOMAIN Components, Awaited(j)' = {}
                 PROVE  j \in ready' \cup Range(order')
      BY <1>5 DEF ReadyAreKnown
    <2>1. CASE Awaited(j) = {}
      <3>1. j \in ready \cup Range(order)
        BY <1>2, <2>1 DEF RunInv, ReadyAreKnown
      <3> QED
        BY <1>2, <1>7, <3>1
    <2>2. CASE Awaited(j) # {}
      <3>1. PICK e \in call_graph.edges : e[1] = j /\ e[2] \notin Range(order)
        BY <2>2 DEF Awaited
      <3>2. e[2] \in Range(order')
        BY <1>2, <3>1 DEF Awaited
      <3>3. j \in Callers(i)
        BY <1>7, <3>1, <3>2 DEF Callers
      <3>4. remaining_callees'[j] = 0
        <4>1. remaining_callees' = [k \in DOMAIN Components |-> Cardinality(Awaited(k)')]
          BY <1>5 DEF OrderIsSound
        <4> QED
          BY <4>1, FS_EmptySet
      <3> QED
        BY <1>2, <3>3, <3>4
    <2> QED
      BY <2>1, <2>2
  <1>10. rounds' = 0 /\ worklist_steps' = Len(order')
    BY <1>2, <1>6 DEF RunInv, place
  <1>11. cap_events' = {} /\ issues' = {} /\ Asked'
    BY <1>2, <1>3 DEF evidence, RunInv, Asked
  <1>12. (\E prog \in Programs : program \in {prog} \cup Rewrites(prog))'
    BY <1>2 DEF RunInv
  <1> QED
    BY <1>2, <1>8, <1>9, <1>10, <1>11, <1>12 DEF RunInv

(* Every component has its place when the summaries begin.                 *)
LEMMA CollectSeedsRuns ==
    ASSUME SolverInv, RunInv, CollectSeeds
    PROVE  RunInv'
  <1>1. /\ phase = "order" /\ ready = {} /\ UNCHANGED <<input, orderVars, place, processed, worklist_steps>>
        /\ program' = program /\ call_graph' = call_graph /\ order' = order /\ job' = job
        /\ seed_facts' = [f \in Callables |-> SeedFacts(f).kept]
        /\ cap_events' = UNION {SeedFacts(f).over : f \in Callables}
        /\ issues' = UNION {SeedFacts(f).issues : f \in Callables}
        /\ cap_events' \cup issues' # {} => phase' = "done"
        /\ cap_events' \cup issues' = {} =>
              phase' = "summaries" /\ summaries' = [f \in Callables |-> {}]
    BY DEF CollectSeeds, input, sccVars, orderVars
  <1>2. Typed /\ Exact /\ OrderIsSound /\ Placed
    BY <1>1, RunFacts
  <1>3. CASE cap_events' \cup issues' # {}
    <2>1. CompleteIsLeast'
      BY <1>3 DEF CompleteIsLeast
    <2>2. \A event \in cap_events' : event[1] = "FactsPerNode"
      <3>1. \A f \in Callables : \A event \in SeedFacts(f).over : event[1] = "FactsPerNode"
        <4> SUFFICES ASSUME NEW f \in Callables, NEW event \in SeedFacts(f).over
                     PROVE  event[1] = "FactsPerNode"
          OBVIOUS
        <4>1. \E p : event = <<"FactsPerNode", f, p>>
          BY DEF SeedFacts
        <4> QED
          BY <4>1
      <3> QED
        BY <1>1, <3>1
    <2>3. SufficientCapsNeverFire'
      BY <2>2 DEF SufficientCapsNeverFire
    <2> QED
      BY <1>1, <1>3, <2>1, <2>3, RunStops DEF CompletionIsExact
  <1>4. CASE cap_events' \cup issues' = {}
    <2>1. Components' = Components /\ Callables' = Callables
      BY <1>1, <1>2, DecompositionStays
    <2>2. component' = 1 /\ member' = 1 /\ changed' = FALSE /\ rounds' = 0 /\ processed' = <<>>
          /\ worklist_steps' = Len(order)
      BY <1>1 DEF SolverInv, RunInv, place
    <2>3. Range(order) = DOMAIN Components
      BY <1>1, <1>2, OrderIsComplete DEF RunInv
    <2>4. SeedsAreKept'
      <3>1. \A f \in Callables : SeedFacts(f).over = {} /\ SeedFacts(f).issues = {}
        BY <1>1, <1>4
      <3>2. \A f : SeedFacts(f)' = SeedFacts(f)
        BY <1>1, <2>1 DEF SeedFacts
      <3> QED
        BY <1>1, <2>1, <3>1, <3>2 DEF SeedsAreKept
    <2>5. PICK known, dirty, evaluated, steps :
             /\ known = summaries' /\ dirty = changed' /\ evaluated = processed'
             /\ steps = worklist_steps'
      OBVIOUS
    <2>6. Runs(known, 1, 1, 0, dirty, evaluated, steps)
      <3>1. order \in Seq(DOMAIN Components)
        BY <1>2 DEF OrderIsSound
      <3>2. Len(order) \in Nat /\ \A p \in DOMAIN order : ~(p < 1)
        BY <3>1
      <3>3. 1 <= Len(order) => Advances(order[1], 1, 0, FALSE, known, evaluated)
        <4>1. 1 <= Len(order) => order[1] \in DOMAIN Components
          BY <3>1
        <4> QED
          BY <1>2, <4>1, ComponentBegins
      <3>4. Cardinality(Spent(1, 1, 0)) \in Nat
        BY <1>2, SpentCounts
      <3>5. steps = Len(order) /\ dirty = FALSE
        BY <2>2, <2>5
      <3>6. 1 <= Len(order) => Advances(order[1], 1, 0, dirty, known, evaluated)
        BY <3>3, <3>5
      <3>7. 0 \in Nat /\ steps \in Nat /\ steps <= Len(order) + Cardinality(Spent(1, 1, 0))
        BY <3>2, <3>4, <3>5
      <3> QED
        BY <3>2, <3>6, <3>7 DEF Runs
    <2>7. Runs(known, 1, 1, 0, dirty, evaluated, steps)'
      BY <1>1, <1>2, <2>6, RunStays
    <2>8. Runs(summaries, component, member, rounds, changed, processed, worklist_steps)'
      BY <2>2, <2>5, <2>7 DEF Runs
    <2>9. Placed' /\ Asked' /\ cap_events' = {} /\ issues' = {}
      BY <1>1, <1>2, <1>4 DEF Placed, RunInv, Asked
    <2>10. (\E prog \in Programs : program \in {prog} \cup Rewrites(prog))'
      BY <1>1 DEF RunInv
    <2> QED
      BY <1>1, <1>4, <2>1, <2>3, <2>4, <2>8, <2>9, <2>10 DEF RunInv
  <1> QED
    BY <1>3, <1>4

(* What holds of a run at its component.                                   *)
LEMMA AtComponent ==
    ASSUME SolverInv, RunInv, phase = "summaries", component <= Len(order)
    PROVE  /\ component \in DOMAIN order /\ component \in Nat \ {0} /\ member \in Nat \ {0}
           /\ rounds \in Nat /\ worklist_steps \in Nat /\ Len(order) \in Nat
           /\ order[component] \in DOMAIN Components
           /\ Current = Components[order[component]] /\ Cardinality(Current) \in Nat
           /\ Kept(summaries, component, member, changed, processed)
           /\ DOMAIN summaries = Callables
           /\ processed \in Seq(Callables) /\ changed \in BOOLEAN
           /\ worklist_steps <= Len(order) + Cardinality(Spent(component, member, rounds))
           /\ Advances(order[component], member, rounds, changed, summaries, processed)
           /\ \A p \in DOMAIN order :
                 p < component => Components[order[p]] \subseteq Range(processed)
           /\ rounds < RoundsNeeded(order[component])
           /\ RoundsNeeded(order[component]) \in Nat \ {0}
  <1>1. Keeping /\ Exact /\ OrderIsSound
    BY RunFacts DEF Keeping
  <1>2. Kept(summaries, component, member, changed, processed)
    BY <1>1 DEF SolverInv, SummariesAreSound
  <1>3. /\ component \in Nat \ {0} /\ member \in Nat \ {0} /\ changed \in BOOLEAN
        /\ processed \in Seq(Callables) /\ summaries = [f \in Callables |-> summaries[f]]
    BY <1>2 DEF Kept
  <1>4. DOMAIN summaries = Callables
    BY <1>3
  <1>5. order \in Seq(DOMAIN Components)
    BY <1>1 DEF OrderIsSound
  <1>6. component \in DOMAIN order /\ order[component] \in DOMAIN Components /\ Len(order) \in Nat
    BY <1>3, <1>5
  <1>7. Runs(summaries, component, member, rounds, changed, processed, worklist_steps)
    BY DEF RunInv
  <1>8. /\ rounds \in Nat /\ worklist_steps \in Nat
        /\ worklist_steps <= Len(order) + Cardinality(Spent(component, member, rounds))
        /\ Advances(order[component], member, rounds, changed, summaries, processed)
        /\ \A p \in DOMAIN order :
              p < component => Components[order[p]] \subseteq Range(processed)
    BY <1>7 DEF Runs
  <1>9. rounds < RoundsNeeded(order[component])
    BY <1>8 DEF Advances
  <1>10. RoundsNeeded(order[component]) \in Nat \ {0} /\ Cardinality(Components[order[component]]) \in Nat
    BY <1>1, <1>6, RoundsAreSome, MembersAreListed
  <1> QED
    BY <1>2, <1>3, <1>4, <1>6, <1>8, <1>9, <1>10 DEF Current

(* An evaluation is one of those that may be due.                          *)
LEMMA EvaluateRuns ==
    ASSUME SolverInv, RunInv, Evaluate
    PROVE  RunInv'
  <1>1. PICK f : f = Evaluated
    OBVIOUS
  <1>2. PICK candidate : candidate = Summarize(f, program[f], summaries)
    OBVIOUS
  <1>3. PICK merge : merge = MergeCandidate(f, candidate)
    OBVIOUS
  <1>4. /\ phase = "summaries" /\ component <= Len(order) /\ member <= Cardinality(Current)
        /\ worklist_steps' = worklist_steps + 1
        /\ processed' = IF f \in Range(processed) THEN processed ELSE Append(processed, f)
        /\ UNCHANGED <<input, orderVars, seed_facts, cap_events>>
        /\ ~merge.lawful => phase' = "done" /\ issues' = issues \cup {<<"LatticeLaw", f>>}
        /\ merge.lawful => /\ summaries' = [summaries EXCEPT ![f] = merge.value]
                           /\ phase' = phase /\ issues' = issues
        /\ merge.lawful /\ Cyclic => /\ member' = member + 1 /\ component' = component
                                     /\ changed' = (changed \/ merge.changed) /\ rounds' = rounds
        /\ merge.lawful /\ ~Cyclic => /\ component' = component + 1 /\ member' = 1
                                      /\ changed' = FALSE /\ rounds' = 0
    BY <1>1, <1>2, <1>3 DEF Evaluate, ConsumeWorkStep, NextComponent, AnyMemberChanged
  <1>5. Exact /\ OrderIsSound /\ Placed /\ cap_events = {} /\ issues = {}
    BY <1>4, RunFacts
  <1>6. CASE ~merge.lawful
    <2>1. cap_events' = {} /\ issues' # {} /\ UNCHANGED <<input, orderVars>>
      BY <1>4, <1>5, <1>6
    <2> QED
      BY <1>4, <1>6, <2>1, StopsExactly
  <1>7. CASE merge.lawful
    <2>1. PICK known, c, m, r, dirty, evaluated, steps, i, n :
             /\ known = summaries /\ c = component /\ m = member /\ r = rounds /\ dirty = changed
             /\ evaluated = processed /\ steps = worklist_steps /\ i = order[c]
             /\ n = Cardinality(Components[i])
      OBVIOUS
    <2>2. /\ c \in DOMAIN order /\ c \in Nat \ {0} /\ m \in Nat \ {0} /\ r \in Nat /\ steps \in Nat
          /\ Len(order) \in Nat /\ i \in DOMAIN Components /\ n \in Nat /\ m <= n
          /\ DOMAIN known = Callables /\ evaluated \in Seq(Callables) /\ dirty \in BOOLEAN
          /\ steps <= Len(order) + Cardinality(Spent(c, m, r))
          /\ Advances(i, m, r, dirty, known, evaluated)
          /\ \A p \in DOMAIN order : p < c => Components[order[p]] \subseteq Range(evaluated)
          /\ r < RoundsNeeded(i)
      BY <1>4, <2>1, AtComponent
    <2>3. f = Ascending(Components[i])[m] /\ f \in Components[i] /\ f \in Callables
      <3>1. f = Ascending(Components[i])[m]
        BY <1>1, <2>1 DEF Evaluated, Current
      <3>2. f \in Components[i]
        BY <1>5, <2>1, <2>2, <3>1, MembersAreListed
      <3> QED
        BY <1>5, <2>2, <3>1, <3>2, DecompositionFacts
    <2>4. PICK next, value, after : next = summaries' /\ value = merge.value /\ after = processed'
      OBVIOUS
    <2>5. /\ value \subseteq known[f] \cup candidate /\ known[f] \subseteq value /\ candidate \subseteq value
          /\ merge.changed => ~(candidate \subseteq known[f])
      BY <1>3, <1>7, <2>1, <2>4, MergeKeeps, MergeReports
    <2>6. Updates(next, known, f, value)
      BY <1>4, <1>7, <2>1, <2>4 DEF Updates
    <2>7. Range(evaluated) \cup {f} \subseteq Range(after)
      <3>1. after = IF f \in Range(evaluated) THEN evaluated ELSE Append(evaluated, f)
        BY <1>4, <2>1, <2>4
      <3>2. Range(evaluated) \cup {f} \subseteq Range(Append(evaluated, f))
        <4>1. PICK longer : longer = Append(evaluated, f)
          OBVIOUS
        <4>2. /\ \A k \in DOMAIN evaluated : k \in DOMAIN longer /\ longer[k] = evaluated[k]
              /\ Len(evaluated) + 1 \in DOMAIN longer /\ longer[Len(evaluated) + 1] = f
          BY <2>2, <4>1
        <4>3. \A x \in Range(evaluated) \cup {f} : x \in Range(longer)
          BY <4>2 DEF Range
        <4> QED
          BY <4>1, <4>3
      <3> QED
        BY <3>1, <3>2
    <2>8. PICK w : w = <<r + 1, f>>
      OBVIOUS
    <2>9. w \in Work \ Spent(c, m, r) /\ w \in Spent(c, m + 1, r) /\ w \in Spent(c + 1, 1, 0)
      BY <1>5, <2>1, <2>2, <2>3, <2>8, EvaluationIsNew
    <2>10. /\ Spent(c, m, r) \subseteq Spent(c, m + 1, r)
           /\ Spent(c, m, r) \subseteq Spent(c + 1, 1, 0)
      BY <1>5, <2>2, SpentGrows
    <2>11. PICK a, b, d : /\ a = Cardinality(Spent(c, m, r)) /\ b = Cardinality(Spent(c, m + 1, r))
                          /\ d = Cardinality(Spent(c + 1, 1, 0))
      OBVIOUS
    <2>12. a \in Nat /\ b \in Nat /\ d \in Nat /\ a + 1 <= b /\ a + 1 <= d
      BY <1>5, <2>9, <2>10, <2>11, SpentCounts
    <2>13. steps + 1 \in Nat /\ steps + 1 <= Len(order) + b /\ steps + 1 <= Len(order) + d
      BY <2>2, <2>11, <2>12
    <2>14. \A p \in DOMAIN order : p < c => Components[order[p]] \subseteq Range(after)
      BY <2>2, <2>7
    <2>15. Cyclic <=> i \in call_graph.cyclic
      BY <2>1 DEF Cyclic
    <2>16. cap_events' = {} /\ issues' = {} /\ UNCHANGED <<input, orderVars, seed_facts>>
           /\ phase' = "summaries"
      BY <1>4, <1>5, <1>7
    <2>17. CASE ~Cyclic
      <3>1. c + 1 <= Len(order) => Advances(order[c + 1], 1, 0, FALSE, next, after)
        <4>1. c + 1 <= Len(order) => order[c + 1] \in DOMAIN Components
          <5>1. order \in Seq(DOMAIN Components)
            BY <1>5 DEF OrderIsSound
          <5> QED
            BY <2>2, <5>1
        <4> QED
          BY <1>5, <4>1, ComponentBegins
      <3>2. Components[i] \subseteq Range(after)
        <4>1. \A g \in Components[i] : g = f
          BY <1>5, <2>2, <2>3, <2>15, <2>17, DecompositionFacts
        <4> QED
          BY <2>7, <4>1
      <3>3. \A p \in DOMAIN order : p < c + 1 => Components[order[p]] \subseteq Range(after)
        <4>1. DOMAIN order = 1..Len(order)
          BY <1>5 DEF OrderIsSound
        <4>2. \A p \in DOMAIN order : p < c + 1 => p < c \/ p = c
          BY <2>2, <4>1
        <4> QED
          BY <2>1, <2>14, <3>2, <4>2
      <3>4. Runs(next, c + 1, 1, 0, FALSE, after, steps + 1)
        BY <2>11, <2>13, <3>1, <3>3 DEF Runs
      <3>5. Runs(summaries', component', member', rounds', changed', processed', worklist_steps')
        BY <1>4, <1>7, <2>1, <2>4, <2>17, <3>4
      <3> QED
        BY <1>4, <2>16, <3>5, RunKeeps
    <2>18. CASE Cyclic
      <3>1. PICK now : now = changed'
        OBVIOUS
      <3>2. now => dirty \/ value # known[f]
        BY <1>4, <1>7, <2>1, <2>5, <2>18, <3>1
      <3>3. Evaluates(i, m, known, next, f, value, now, dirty)
        <4>1. Merges(now, dirty, known, f, value)
          BY <1>2, <2>1, <2>5, <3>2 DEF Merges
        <4> QED
          BY <2>1, <2>2, <2>3, <2>6, <4>1 DEF Evaluates
      <3>4. Advances(i, m + 1, r, now, next, after)
        BY <1>5, <2>2, <2>7, <2>15, <2>18, <3>3, RoundAdvances
      <3>5. Runs(next, c, m + 1, r, now, after, steps + 1)
        BY <2>1, <2>2, <2>11, <2>13, <2>14, <3>4 DEF Runs
      <3>6. Runs(summaries', component', member', rounds', changed', processed', worklist_steps')
        BY <1>4, <1>7, <2>1, <2>4, <2>18, <3>1, <3>5
      <3> QED
        BY <1>4, <2>16, <3>6, RunKeeps
    <2> QED
      BY <2>17, <2>18
  <1> QED
    BY <1>6, <1>7

(* A round is the last one, or a change in it needed another.              *)
LEMMA EndRoundRuns ==
    ASSUME SolverInv, RunInv, EndRound
    PROVE  RunInv'
  <1>1. /\ phase = "summaries" /\ component <= Len(order) /\ member > Cardinality(Current)
        /\ UNCHANGED <<input, orderVars, results, worklist_steps, issues>>
        /\ ~changed => /\ NextComponent /\ phase' = phase /\ cap_events' = cap_events
        /\ changed => /\ rounds' = rounds + 1
                      /\ rounds' >= job.caps.rounds => phase' = "done" /\ cap_events' = cap_events \cup RoundCap
                      /\ ~(rounds' >= job.caps.rounds) =>
                            /\ member' = 1 /\ changed' = FALSE
                            /\ phase' = phase /\ cap_events' = cap_events /\ component' = component
    BY DEF EndRound
  <1>2. /\ Exact /\ OrderIsSound /\ Placed /\ cap_events = {} /\ issues = {}
        /\ job.caps \in [functions: Nat, worklist: Nat, rounds: Nat, facts: Nat]
    BY <1>1, RunFacts
  <1>3. PICK known, c, m, r, dirty, evaluated, steps, i, n :
           /\ known = summaries /\ c = component /\ m = member /\ r = rounds /\ dirty = changed
           /\ evaluated = processed /\ steps = worklist_steps /\ i = order[c]
           /\ n = Cardinality(Components[i])
    OBVIOUS
  <1>4. /\ c \in DOMAIN order /\ c \in Nat \ {0} /\ m \in Nat \ {0} /\ r \in Nat /\ steps \in Nat
        /\ Len(order) \in Nat /\ i \in DOMAIN Components /\ n \in Nat /\ m > n
        /\ dirty \in BOOLEAN
        /\ steps <= Len(order) + Cardinality(Spent(c, m, r))
        /\ Advances(i, m, r, dirty, known, evaluated)
        /\ \A p \in DOMAIN order : p < c => Components[order[p]] \subseteq Range(evaluated)
    BY <1>1, <1>3, AtComponent
  <1>5. /\ Spent(c, m, r) \subseteq Spent(c + 1, 1, 0)
        /\ Spent(c, m, r) \subseteq Spent(c, 1, r + 1)
    BY <1>2, <1>4, SpentGrows
  <1>6. PICK a, b, d : /\ a = Cardinality(Spent(c, m, r)) /\ b = Cardinality(Spent(c, 1, r + 1))
                       /\ d = Cardinality(Spent(c + 1, 1, 0))
    OBVIOUS
  <1>7. a \in Nat /\ b \in Nat /\ d \in Nat /\ a <= b /\ a <= d
    BY <1>2, <1>5, <1>6, SpentCounts
  <1>8. steps <= Len(order) + b /\ steps <= Len(order) + d
    BY <1>4, <1>6, <1>7
  <1>9. /\ issues' = {} /\ UNCHANGED <<input, orderVars, seed_facts>>
        /\ known = summaries' /\ evaluated = processed' /\ steps = worklist_steps'
    BY <1>1, <1>2, <1>3 DEF results
  <1>10. CASE ~changed
    <2>1. c + 1 <= Len(order) => Advances(order[c + 1], 1, 0, FALSE, known, evaluated)
      <3>1. c + 1 <= Len(order) => order[c + 1] \in DOMAIN Components
        <4>1. order \in Seq(DOMAIN Components)
          BY <1>2 DEF OrderIsSound
        <4> QED
          BY <1>4, <4>1
      <3> QED
        BY <1>2, <3>1, ComponentBegins
    <2>2. Components[i] \subseteq Range(evaluated)
      <3>1. \A k \in 1..n : Ascending(Components[i])[k] \in Range(evaluated)
        <4>1. \A k \in 1..n : k < m
          BY <1>4
        <4> QED
          BY <1>3, <1>4, <4>1 DEF Advances
      <3> QED
        BY <1>2, <1>3, <1>4, <3>1, MembersAreListed
    <2>3. \A p \in DOMAIN order : p < c + 1 => Components[order[p]] \subseteq Range(evaluated)
      <3>1. DOMAIN order = 1..Len(order)
        BY <1>2 DEF OrderIsSound
      <3>2. \A p \in DOMAIN order : p < c + 1 => p < c \/ p = c
        BY <1>4, <3>1
      <3> QED
        BY <1>3, <1>4, <2>2, <3>2
    <2>4. Runs(known, c + 1, 1, 0, FALSE, evaluated, steps)
      BY <1>4, <1>6, <1>8, <2>1, <2>3 DEF Runs
    <2>5. component' = c + 1 /\ member' = 1 /\ rounds' = 0 /\ changed' = FALSE
      BY <1>1, <1>3, <1>10 DEF NextComponent
    <2>6. Runs(summaries', component', member', rounds', changed', processed', worklist_steps')
      BY <1>9, <2>4, <2>5
    <2>7. phase' = "summaries" /\ cap_events' = {}
      BY <1>1, <1>2, <1>10
    <2> QED
      BY <1>1, <1>9, <2>6, <2>7, RunKeeps
  <1>11. CASE changed
    <2>1. dirty = TRUE
      BY <1>3, <1>4, <1>11
    <2>2. r + 1 < RoundsNeeded(i) /\ RoundsNeeded(i) \in Nat
      <3>1. Advances(i, m, r, TRUE, known, evaluated)
        BY <1>4, <2>1
      <3> QED
        BY <1>2, <1>4, <3>1, RoundWasNeeded, RoundsAreSome
    <2>3. CASE rounds' >= job.caps.rounds
      <3>1. job.caps.rounds \in Nat
        BY <1>2
      <3>2. job.caps.rounds < RoundsNeeded(i)
        BY <1>1, <1>3, <1>4, <1>11, <2>2, <2>3, <3>1
      <3>3. cap_events' = {<<"SccIterations", i>>}
        BY <1>1, <1>2, <1>3, <1>11, <2>3 DEF RoundCap
      <3> QED
        BY <1>1, <1>9, <1>11, <2>3, <3>2, <3>3, StopsExactly
    <2>4. CASE ~(rounds' >= job.caps.rounds)
      <3>1. Advances(i, 1, r + 1, FALSE, known, evaluated)
        <4>1. Advances(i, m, r, TRUE, known, evaluated)
          BY <1>4, <2>1
        <4>2. m \in Nat /\ m > Cardinality(Components[i])
          BY <1>3, <1>4
        <4> QED
          BY <1>2, <1>4, <4>1, <4>2, RoundFollows
      <3>2. Runs(known, c, 1, r + 1, FALSE, evaluated, steps)
        <4>1. r + 1 \in Nat /\ steps <= Len(order) + Cardinality(Spent(c, 1, r + 1))
          BY <1>4, <1>6, <1>8
        <4>2. Advances(order[c], 1, r + 1, FALSE, known, evaluated)
          BY <1>3, <3>1
        <4> QED
          BY <1>4, <4>1, <4>2, Zenon DEF Runs
      <3>3. component' = c /\ member' = 1 /\ rounds' = r + 1 /\ changed' = FALSE
            /\ phase' = "summaries" /\ cap_events' = {}
        BY <1>1, <1>2, <1>3, <1>11, <2>4
      <3>4. Runs(summaries', component', member', rounds', changed', processed', worklist_steps')
        BY <1>9, <3>2, <3>3
      <3> QED
        BY <1>1, <1>9, <3>3, <3>4, RunKeeps
    <2> QED
      BY <2>3, <2>4
  <1> QED
    BY <1>10, <1>11

(* A budget that is spent while work is due was too small.                 *)
LEMMA OutOfWorkRuns ==
    ASSUME SolverInv, RunInv, OutOfWork
    PROVE  RunInv'
  <1>1. /\ phase' = "done" /\ cap_events' = cap_events \cup {<<"WorklistSteps">>}
        /\ UNCHANGED <<input, orderVars>> /\ ~(worklist_steps < job.caps.worklist)
        /\ \/ phase = "order" /\ ready # {}
           \/ phase = "summaries" /\ component <= Len(order) /\ member <= Cardinality(Current)
    BY DEF OutOfWork, Budget
  <1>2. /\ Exact /\ OrderIsSound /\ Placed /\ cap_events = {}
        /\ job.caps \in [functions: Nat, worklist: Nat, rounds: Nat, facts: Nat]
    BY <1>1, RunFacts
  <1>3. PICK all, places, work, needed :
           /\ all = Cardinality(DOMAIN Components) /\ places = Len(order) /\ work = Cardinality(Work)
           /\ needed = WorkNeeded
    OBVIOUS
  <1>4. /\ all \in Nat /\ places \in Nat /\ places <= all /\ (ready # {} => places < all)
        /\ work \in Nat /\ needed = all + work
    <2>1. work \in Nat
      BY <1>2, <1>3, WorkIsFinite, FS_CardinalityType
    <2> QED
      BY <1>2, <1>3, <2>1, OrderFits DEF WorkNeeded, Work
  <1>5. worklist_steps \in Nat /\ worklist_steps < needed
    <2>1. CASE phase = "order"
      <3>1. worklist_steps = places /\ ready # {}
        BY <1>1, <1>3, <2>1 DEF RunInv
      <3> QED
        BY <1>4, <3>1
    <2>2. CASE phase = "summaries" /\ component <= Len(order) /\ member <= Cardinality(Current)
      <3>1. PICK f, spent : /\ f = Ascending(Components[order[component]])[member]
                            /\ spent = Cardinality(Spent(component, member, rounds))
        OBVIOUS
      <3>2. <<rounds + 1, f>> \in Work \ Spent(component, member, rounds)
        BY <1>2, <2>2, <3>1, AtComponent, EvaluationIsNew
      <3>3. spent \in Nat /\ spent < work
        BY <1>2, <1>3, <3>1, <3>2, SpentCounts
      <3>4. worklist_steps \in Nat /\ worklist_steps <= places + spent
        BY <1>3, <2>2, <3>1, AtComponent
      <3> QED
        BY <1>4, <3>3, <3>4
    <2> QED
      BY <1>1, <2>1, <2>2
  <1>6. job.caps.worklist < WorkNeeded
    <2>1. job.caps.worklist \in Nat
      BY <1>2
    <2> QED
      BY <1>1, <1>3, <1>4, <1>5, <2>1
  <1> QED
    BY <1>1, <1>2, <1>6, StopsExactly

(* Every recursion needs a round.                                          *)
LEMMA NoRoundsRuns ==
    ASSUME SolverInv, RunInv, NoRounds
    PROVE  RunInv'
  <1>1. /\ phase = "summaries" /\ component <= Len(order) /\ job.caps.rounds = 0
        /\ phase' = "done" /\ cap_events' = cap_events \cup RoundCap /\ UNCHANGED <<input, orderVars>>
    BY DEF NoRounds
  <1>2. cap_events = {}
    BY <1>1, RunFacts
  <1>3. job.caps.rounds < RoundsNeeded(order[component])
    BY <1>1, AtComponent
  <1>4. cap_events' = {<<"SccIterations", order[component]>>}
    BY <1>1, <1>2 DEF RoundCap
  <1> QED
    BY <1>1, <1>3, <1>4, StopsExactly

(* A fact of few is among the least of them.                               *)
LEMMA FewAreKept ==
    ASSUME SeedsAreKept, IsFiniteSet(job.seeds), job.caps.facts \in Nat,
           NEW s \in job.seeds, s[1] \in Callables
    PROVE  s[3] \in seed_facts[s[1]][s[2]]
  <1>1. PICK f : f = s[1] /\ f \in Callables
    OBVIOUS
  <1>2. s[2] = f
    <2> DEFINE issue(t) == <<IF t[2] \in Callables THEN "SeedOutsideFunction" ELSE "UnknownSeedNode",
                             f, t[2]>>
               astray == {t \in job.seeds : t[1] = f /\ t[2] # f}
    <2>1. SeedFacts(f).issues = {issue(t) : t \in astray}
      BY DEF SeedFacts
    <2>2. SeedFacts(f).issues = {}
      BY <1>1 DEF SeedsAreKept
    <2> HIDE DEF issue, astray
    <2>3. s \notin astray
      BY <2>1, <2>2
    <2> QED
      BY <1>1, <2>3 DEF astray
  <1> DEFINE facts == {t[3] : t \in {t \in job.seeds : t[1] = f /\ t[2] = f}}
  <1>3. s[3] \in facts
    BY <1>1, <1>2
  <1>4. IsFiniteSet(facts)
    <2> DEFINE here == {t \in job.seeds : t[1] = f /\ t[2] = f}
               h == [t \in here |-> t[3]]
    <2>1. IsFiniteSet(here)
      BY FS_Subset
    <2>2. h \in Surjection(here, facts)
      BY DEF Surjection
    <2> HIDE DEF h, here
    <2> QED
      BY <2>1, <2>2, FS_Surjection
  <1>5. ~(Cardinality(facts) > job.caps.facts)
    <2>1. SeedFacts(f).over = {}
      BY <1>1 DEF SeedsAreKept
    <2>2. SeedFacts(f).over = {<<"FactsPerNode", f, p>> : p \in {p \in {f} : Cardinality(facts) > job.caps.facts}}
      BY DEF SeedFacts
    <2> HIDE DEF facts
    <2> QED
      BY <2>1, <2>2
  <1>6. seed_facts[f][f] = {x \in facts : Cardinality({y \in facts : y <= x}) <= job.caps.facts}
    <2>1. seed_facts[f] = SeedFacts(f).kept
      BY <1>1 DEF SeedsAreKept
    <2> QED
      BY <2>1 DEF SeedFacts
  <1> HIDE DEF facts
  <1>7. PICK small : small = {y \in facts : y <= s[3]}
    OBVIOUS
  <1>8. /\ Cardinality(small) \in Nat /\ Cardinality(facts) \in Nat
        /\ Cardinality(small) <= Cardinality(facts)
    BY <1>4, <1>7, FS_Subset, FS_CardinalityType
  <1>9. Cardinality(small) <= job.caps.facts
    BY <1>5, <1>8
  <1> QED
    BY <1>1, <1>2, <1>3, <1>6, <1>7, <1>9

(* A run that returns has left every component behind.                     *)
LEMMA ReturnRuns ==
    ASSUME SolverInv, RunInv, Return
    PROVE  RunInv'
  <1>1. /\ phase = "summaries" /\ component > Len(order) /\ phase' = "done"
        /\ UNCHANGED <<input, orderVars, place, results, evidence>>
    BY DEF Return
  <1>2. /\ program' = program /\ job' = job /\ solution' = solution /\ summaries' = summaries
        /\ processed' = processed /\ seed_facts' = seed_facts /\ cap_events' = cap_events
    BY <1>1 DEF input, results, evidence
  <1>3. /\ Typed /\ Exact /\ OrderIsSound /\ solution = Solution /\ cap_events = {}
        /\ IsFiniteSet(job.seeds) /\ job.caps.facts \in Nat
    BY <1>1, RunFacts
  <1>4. Callables' = Callables
    BY <1>2, <1>3, SolutionStays
  <1>5. /\ Kept(summaries, component, member, changed, processed)
        /\ Runs(summaries, component, member, rounds, changed, processed, worklist_steps)
        /\ Range(order) = DOMAIN Components /\ SeedsAreKept
    BY <1>1 DEF SolverInv, Keeping, SummariesAreSound, RunInv
  <1>6. ASSUME NEW f \in Callables
        PROVE  \E p \in DOMAIN order : p < component /\ f \in Components[order[p]]
    <2>1. Own(f) \in DOMAIN Components /\ f \in Components[Own(f)]
      BY <1>3, DecompositionFacts
    <2>2. PICK p \in DOMAIN order : order[p] = Own(f)
      BY <1>5, <2>1 DEF Range
    <2>3. p < component
      <3>1. p \in Nat /\ p <= Len(order) /\ Len(order) \in Nat
        BY <1>3 DEF OrderIsSound
      <3>2. component \in Nat
        BY <1>5 DEF Kept
      <3> QED
        BY <1>1, <3>1, <3>2
    <2> QED
      BY <2>1, <2>2, <2>3
  <1>7. summaries = solution
    <2>1. \A f \in Callables : summaries[f] = Solution[f]
      BY <1>5, <1>6 DEF Kept
    <2>2. summaries = [f \in Callables |-> summaries[f]]
      BY <1>5 DEF Kept
    <2>3. Solution = [f \in Callables |-> Solution[f]]
      BY DEF Solution
    <2> QED
      BY <1>3, <2>1, <2>2, <2>3
  <1>8. Range(processed) = Callables
    <2>1. \A f \in Callables : f \in Range(processed)
      BY <1>5, <1>6 DEF Runs
    <2>2. processed \in Seq(Callables)
      BY <1>5 DEF Kept
    <2>3. Range(processed) \subseteq Callables
      BY <2>2 DEF Range
    <2> QED
      BY <2>1, <2>3
  <1>9. \A s \in job.seeds : s[1] \in Callables => s[3] \in seed_facts[s[1]][s[2]]
    BY <1>3, <1>5, FewAreKept
  <1>10. CompletionIsExact'
    <2>1. CompleteIsLeast'
      BY <1>2, <1>4, <1>7, <1>8, <1>9 DEF CompleteIsLeast
    <2>2. SufficientCapsNeverFire'
      BY <1>2, <1>3 DEF SufficientCapsNeverFire
    <2> QED
      BY <2>1, <2>2 DEF CompletionIsExact
  <1> QED
    BY <1>1, <1>10, RunStops

(* A state that is left alone.                                             *)
LEMMA RestRuns ==
    ASSUME SolverInv, RunInv, UNCHANGED vars
    PROVE  RunInv'
  <1>1. /\ UNCHANGED <<input, orderVars, place, results, evidence>> /\ phase' = phase
        /\ worklist_steps' = worklist_steps
    BY DEF vars
  <1>2. /\ program' = program /\ call_graph' = call_graph /\ order' = order /\ job' = job
        /\ ready' = ready /\ rounds' = rounds /\ cap_events' = cap_events /\ issues' = issues
        /\ summaries' = summaries /\ component' = component /\ member' = member
        /\ changed' = changed /\ processed' = processed /\ seed_facts' = seed_facts
        /\ solution' = solution
    BY <1>1 DEF input, sccVars, orderVars, place, evidence, results
  <1>3. phase \in {"call_graph", "order", "summaries", "done"} /\ Typed
    BY DEF SolverInv
  <1>4. CASE phase = "summaries"
    <2>1. Runs(summaries', component', member', rounds', changed', processed', worklist_steps')
      BY <1>1, <1>2, <1>4 DEF RunInv
    <2> QED
      BY <1>1, <1>2, <1>4, <2>1, RunKeeps DEF RunInv
  <1>5. CASE phase = "done"
    <2>1. WorkNeeded' = WorkNeeded /\ (\A i : RoundsNeeded(i)' = RoundsNeeded(i)) /\ Callables' = Callables
      BY <1>2, <1>3, RunStays, SolutionStays
    <2>2. CompletionIsExact'
      BY <1>1, <1>2, <1>5, <2>1
      DEF RunInv, CompletionIsExact, CompleteIsLeast, SufficientCapsNeverFire
    <2> QED
      BY <1>1, <1>5, <2>2, RunStops
  <1>6. CASE phase \in {"call_graph", "order"}
    <2>1. Components' = Components /\ \A i : Awaited(i)' = Awaited(i)
      BY <1>2 DEF Components, Awaited
    <2> QED
      BY <1>1, <1>2, <1>6, <2>1 DEF RunInv, Asked, Placed, ReadyAreKnown
  <1> QED
    BY <1>3, <1>4, <1>5, <1>6

(* Every step keeps the invariant of a run.                                *)
LEMMA RunStep ==
    ASSUME SolverInv, RunInv, [Next]_vars
    PROVE  RunInv'
  <1>1. CASE Decompose
    <2>1. /\ phase = "call_graph" /\ phase' = phase /\ program' = program
          /\ order' = order /\ rounds' = rounds /\ worklist_steps' = worklist_steps
          /\ cap_events' = cap_events /\ issues' = issues
      BY <1>1 DEF Decompose, SccNext, orderVars, place, evidence
    <2> QED
      BY <2>1 DEF RunInv
  <1>2. CASE Edit
    <2>1. /\ phase = "call_graph" /\ phase' = phase /\ program \in Programs
          /\ program' \in Rewrites(program)
          /\ order' = order /\ rounds' = rounds /\ worklist_steps' = worklist_steps
          /\ cap_events' = cap_events /\ issues' = issues
      BY <1>2 DEF Edit, orderVars, place, evidence, SolverInv
    <2>2. (\E prog \in Programs : program \in {prog} \cup Rewrites(prog))'
      BY <2>1
    <2> QED
      BY <2>1, <2>2 DEF RunInv
  <1>3. CASE Solve
    BY <1>3, SolveRuns
  <1>4. CASE OutOfWork
    BY <1>4, OutOfWorkRuns
  <1>5. CASE OrderNext
    BY <1>5, OrderNextRuns
  <1>6. CASE CollectSeeds
    BY <1>6, CollectSeedsRuns
  <1>7. CASE Evaluate
    BY <1>7, EvaluateRuns
  <1>8. CASE NoRounds
    BY <1>8, NoRoundsRuns
  <1>9. CASE EndRound
    BY <1>9, EndRoundRuns
  <1>10. CASE Return
    BY <1>10, ReturnRuns
  <1>11. CASE UNCHANGED vars
    BY <1>11, RestRuns
  <1> QED
    BY <1>1, <1>2, <1>3, <1>4, <1>5, <1>6, <1>7, <1>8, <1>9, <1>10, <1>11 DEF Next, SolverNext

(* A run never does more than its program needs, and stops short of the    *)
(* end only at a cap below that, or with an issue.                         *)
THEOREM RunInvHolds == Spec => []RunInv
  <1>1. Init => RunInv
    BY DEF Init, SccInit, NothingSolved, RunInv
  <1>2. SolverInv /\ RunInv /\ [Next]_vars => RunInv'
    BY RunStep
  <1> QED
    BY <1>1, <1>2, SolverInvHolds, PTL DEF Spec

(* CompletionIsExact: for programs, seeds and caps of any size, a run that *)
(* reports no cap and no issue returns the solution of the program as it   *)
(* is, with every function evaluated and every seed kept; and a cap that   *)
(* fires is below what the program may need: a number of rounds linear in  *)
(* the size of a recursion, and of steps quadratic in it.                  *)
THEOREM CompletionStaysExact == Spec => []CompletionIsExact
  <1>1. RunInv => CompletionIsExact
    <2> SUFFICES ASSUME RunInv, phase # "done" PROVE CompletionIsExact
      BY DEF RunInv
    <2>1. cap_events = {}
      BY DEF RunInv
    <2> QED
      BY <2>1 DEF CompletionIsExact, CompleteIsLeast, SufficientCapsNeverFire
  <1> QED
    BY <1>1, RunInvHolds, PTL

-------------------------------------------------------------------------------
(* What the slices are made of *)

(* The nodes of a program are finitely many numbers.                       *)
LEMMA NodesAreFinite ==
    ASSUME Typed
    PROVE  /\ SdgNodes \in SUBSET Nat /\ IsFiniteSet(SdgNodes)
           /\ \E b \in Nat : SdgNodes \subseteq 0..b
  <1>1. Callables = 1..Len(program) /\ Len(program) \in Nat /\ IsFiniteSet(Callables)
    BY TypedFacts
  <1>2. SdgNodes \in SUBSET Nat
    BY <1>1 DEF SdgNodes, Name, LocalNames
  <1>3. SdgNodes \subseteq 0..(100 * Len(program) + 10)
    BY <1>1 DEF SdgNodes, Name, LocalNames
  <1>4. \A n \in Nat : IsFiniteSet(0..n)
    BY FS_Interval
  <1>5. IsFiniteSet(SdgNodes)
    <2>1. 100 * Len(program) + 10 \in Nat
      BY <1>1
    <2>2. IsFiniteSet(0..(100 * Len(program) + 10))
      BY <1>4, <2>1
    <2> QED
      BY <1>3, <2>2, FS_Subset
  <1>6. \E b \in Nat : SdgNodes \subseteq 0..b
    <2>1. 100 * Len(program) + 10 \in Nat
      BY <1>1
    <2> QED
      BY <1>3, <2>1
  <1> QED
    BY <1>2, <1>5, <1>6

(* What the edges lead to is the least set they do not leave.              *)
LEMMA ClosureIsLeast ==
    ASSUME Typed, NEW from \in SUBSET SdgNodes, NEW edges \in SUBSET (SdgNodes \X SdgNodes)
    PROVE  /\ from \subseteq Closure(from, edges) /\ Closure(from, edges) \in SUBSET SdgNodes
           /\ Image(Closure(from, edges), edges) \subseteq Closure(from, edges)
           /\ \A P \in SUBSET SdgNodes :
                 from \subseteq P /\ Image(P, edges) \subseteq P => Closure(from, edges) \subseteq P
  <1> DEFINE step == [S \in SUBSET SdgNodes |-> S \cup Image(S, edges)]
             Solves(t) == t = [S \in SUBSET SdgNodes |->
                                  IF S \cup Image(S, edges) = S THEN S
                                  ELSE t[S \cup Image(S, edges)]]
             total == CHOOSE t : Solves(t)
  <1>1. /\ step \in [SUBSET SdgNodes -> SUBSET SdgNodes]
        /\ \A S \in SUBSET SdgNodes : step[S] = S \cup Image(S, edges)
    BY DEF Image
  <1>2. IsFiniteSet(SdgNodes)
    BY NodesAreFinite
  <1>3. \A k, l \in SUBSET SdgNodes : k \subseteq l => step[k] \subseteq step[l]
    <2> HIDE DEF step
    <2> QED
      BY <1>1 DEF Image
  <1>4. Closure(from, edges) = total[from]
    BY Zenon DEF Closure
  <1>5. \A t : Settles(SUBSET SdgNodes, step, t) <=> Solves(t)
    <2>1. ASSUME NEW t
          PROVE  [k \in SUBSET SdgNodes |-> IF step[k] = k THEN k ELSE t[step[k]]] =
                 [k \in SUBSET SdgNodes |-> IF k \cup Image(k, edges) = k THEN k
                                            ELSE t[k \cup Image(k, edges)]]
      <3> HIDE DEF step
      <3> QED
        BY <1>1
    <2> HIDE DEF step
    <2> QED
      BY <2>1 DEF Settles
  <1> HIDE DEF step
  <1>6. \E t : Solves(t)
    BY <1>1, <1>5, SettlingExists
  <1>7. Settles(SUBSET SdgNodes, step, total)
    <2> HIDE DEF Solves
    <2> QED
      BY <1>5, <1>6
  <1> HIDE DEF total
  <1>8. from \subseteq step[from] /\ Monotone(SdgNodes, step)
    BY <1>1, <1>3 DEF Monotone
  <1>9. LeastAround(SdgNodes, step, from, total[from])
    BY <1>2, <1>7, <1>8, SettledIsLeast
  <1>10. step[total[from]] = total[from] \cup Image(total[from], edges)
    BY <1>1, <1>9 DEF LeastAround
  <1> QED
    <2>1. ASSUME NEW P \in SUBSET SdgNodes, from \subseteq P, Image(P, edges) \subseteq P
          PROVE  total[from] \subseteq P
      <3>1. step[P] \subseteq P
        BY <1>1, <2>1
      <3> QED
        BY <1>9, <2>1, <3>1 DEF LeastAround
    <2>2. /\ from \subseteq total[from] /\ total[from] \in SUBSET SdgNodes
          /\ Image(total[from], edges) \subseteq total[from]
      BY <1>9, <1>10 DEF LeastAround
    <2> QED
      BY <1>4, <2>1, <2>2

-------------------------------------------------------------------------------
(* Slices *)

\* The edges of a slice, turned the way it goes; onward those of its pass between functions.
Flat == Turned(Dependences)
Up == Turned(Crossing(slice.direction, 1))
Down == Turned(Crossing(slice.direction, 2))
Onward == Turned(Crossing(slice.direction, pass))
Depths == 0..slice.max_call_depth

\* The slice asked for names a node of the program, and its edges join such nodes.
WellPosed ==
    /\ slice.criterion \in SdgNodes /\ slice.direction \in {"Incoming", "Outgoing"}
    /\ slice.max_call_depth \in Nat /\ slice.max_nodes \in Nat \ {0}
    /\ summary_edges \subseteq SdgNodes \X SdgNodes

\* For every number of calls crossed a set of nodes, its places.
Families == [Depths -> SUBSET SdgNodes]

\* Places closed under the dependences, and under those edges one call further.
Admits(A, edges) ==
    \A k \in Depths :
        /\ Image(A[k], Flat) \subseteq A[k]
        /\ k + 1 \in Depths => A[k] \cup Image(A[k], edges) \subseteq A[k + 1]

\* The least places of the two passes.
Ascents ==
    [k \in Depths |-> {n \in SdgNodes : \A A \in Families :
                           slice.criterion \in A[0] /\ Admits(A, Up) => n \in A[k]}]
Descents ==
    [k \in Depths |-> {n \in SdgNodes : \A A \in Families :
                           (\A j \in Depths : Ascents[j] \subseteq A[j]) /\ Admits(A, Down)
                               => n \in A[k]}]

(* The edges join nodes of the program.                                    *)
LEMMA CallsFit ==
    ASSUME Typed, NEW c \in CallEdges
    PROVE  /\ c[1] \in Callables /\ c[3] \in Callables /\ c[2] \in DOMAIN Calls
           /\ Calls[c[2]] \in LocalNames
           /\ \A i \in Formals : i \in LocalNames /\ Arguments[c[2]][i] \in LocalNames
           /\ program[c[3]].returned \subseteq LocalNames
  <1>1. PICK f \in Callables : \E s \in DOMAIN program[f].sites :
                                  \E g \in program[f].sites[s] : c = <<f, s, g>>
    BY DEF CallEdges
  <1>2. PICK s \in DOMAIN program[f].sites : \E g \in program[f].sites[s] : c = <<f, s, g>>
    BY <1>1
  <1>3. PICK g \in program[f].sites[s] : c = <<f, s, g>>
    BY <1>2
  <1>4. PICK body : body = program[f]
    OBVIOUS
  <1>5. body \in FunctionBody(Len(program)) /\ Callables = 1..Len(program) /\ Len(program) \in Nat
    BY <1>4, TypedFacts
  <1>6. body.sites \in Seq(SUBSET Callables) /\ Len(body.sites) <= 2
    BY <1>5 DEF FunctionBody, Calls
  <1>7. s \in {1, 2} /\ g \in Callables
    BY <1>2, <1>3, <1>4, <1>6
  <1>8. program[g] \in FunctionBody(Len(program))
    BY <1>7, TypedFacts
  <1>9. program[g].returned \subseteq LocalNames
    BY <1>8 DEF FunctionBody
  <1>10. c[1] = f /\ c[2] = s /\ c[3] = g
    BY <1>3
  <1>11. s \in DOMAIN Calls /\ Calls[s] \in LocalNames
    BY <1>7 DEF Calls, LocalNames
  <1>12. \A i \in Formals : i \in LocalNames /\ Arguments[s][i] \in LocalNames
    BY <1>7 DEF Arguments, Formals, LocalNames
  <1> QED
    BY <1>7, <1>9, <1>10, <1>11, <1>12

(* So do all the edges of a slice.                                         *)
LEMMA EdgesFit ==
    ASSUME Typed
    PROVE  /\ \A known : SummaryEdges(known) \subseteq SdgNodes \X SdgNodes
           /\ ParameterInEdges \subseteq SdgNodes \X SdgNodes
           /\ ReturnValueEdges \subseteq SdgNodes \X SdgNodes
           /\ summary_edges \subseteq SdgNodes \X SdgNodes => Dependences \subseteq SdgNodes \X SdgNodes
  <1>1. \A f \in Callables, n \in LocalNames : Name(f, n) \in SdgNodes
    BY DEF SdgNodes
  <1>2. \A known : SummaryEdges(known) \subseteq SdgNodes \X SdgNodes
    <2> SUFFICES ASSUME NEW known, NEW e \in SummaryEdges(known) PROVE e \in SdgNodes \X SdgNodes
      OBVIOUS
    <2>1. PICK c \in CallEdges, i \in Formals :
             e = <<Name(c[1], Arguments[c[2]][i]), Name(c[1], Calls[c[2]])>>
      BY DEF SummaryEdges, Masked
    <2>2. Name(c[1], Arguments[c[2]][i]) \in SdgNodes /\ Name(c[1], Calls[c[2]]) \in SdgNodes
      BY <1>1, <2>1, CallsFit
    <2> QED
      BY <2>1, <2>2
  <1>3. ASSUME NEW e \in ParameterInEdges PROVE e \in SdgNodes \X SdgNodes
    <2>1. PICK c \in CallEdges, i \in Formals :
             e = <<Name(c[1], Arguments[c[2]][i]), Name(c[3], i)>>
      BY <1>3 DEF ParameterInEdges
    <2>2. Name(c[1], Arguments[c[2]][i]) \in SdgNodes /\ Name(c[3], i) \in SdgNodes
      BY <1>1, <2>1, CallsFit
    <2> QED
      BY <2>1, <2>2
  <1>4. ASSUME NEW e \in ReturnValueEdges PROVE e \in SdgNodes \X SdgNodes
    <2>1. PICK c \in CallEdges : \E r \in program[c[3]].returned :
             e = <<Name(c[3], r), Name(c[1], Calls[c[2]])>>
      BY <1>4 DEF ReturnValueEdges
    <2>2. PICK r \in program[c[3]].returned : e = <<Name(c[3], r), Name(c[1], Calls[c[2]])>>
      BY <2>1
    <2>3. Name(c[3], r) \in SdgNodes /\ Name(c[1], Calls[c[2]]) \in SdgNodes
      BY <1>1, <2>2, CallsFit
    <2> QED
      BY <2>2, <2>3
  <1>5. ASSUME NEW f \in Callables, NEW e \in Within(f, program[f].data \cup program[f].control)
        PROVE  e \in SdgNodes \X SdgNodes
    <2>1. program[f] \in FunctionBody(Len(program))
      BY TypedFacts
    <2>2. program[f].data \cup program[f].control \subseteq LocalNames \X LocalNames
      BY <2>1 DEF FunctionBody
    <2>3. PICK d \in program[f].data \cup program[f].control : e = <<Name(f, d[1]), Name(f, d[2])>>
      BY <1>5 DEF Within
    <2>4. d[1] \in LocalNames /\ d[2] \in LocalNames
      BY <2>2, <2>3
    <2> QED
      BY <1>1, <2>3, <2>4
  <1>6. summary_edges \subseteq SdgNodes \X SdgNodes => Dependences \subseteq SdgNodes \X SdgNodes
    <2> SUFFICES ASSUME summary_edges \subseteq SdgNodes \X SdgNodes, NEW e \in Dependences
                 PROVE  e \in SdgNodes \X SdgNodes
      OBVIOUS
    <2>1. \/ e \in summary_edges
          \/ \E f \in Callables : e \in Within(f, program[f].data \cup program[f].control)
      BY DEF Dependences
    <2> QED
      BY <1>5, <2>1
  <1> QED
    BY <1>2, <1>3, <1>4, <1>6

(* Turned the way the slice goes, they do too.                             *)
LEMMA TurnedFit ==
    ASSUME Typed, WellPosed
    PROVE  /\ Flat \subseteq SdgNodes \X SdgNodes /\ Up \subseteq SdgNodes \X SdgNodes
           /\ Down \subseteq SdgNodes \X SdgNodes /\ Onward \subseteq SdgNodes \X SdgNodes
  <1>1. \A edges : edges \subseteq SdgNodes \X SdgNodes => Turned(edges) \subseteq SdgNodes \X SdgNodes
    BY DEF Turned
  <1>2. \A direction, number : Crossing(direction, number) \subseteq SdgNodes \X SdgNodes
    BY EdgesFit DEF Crossing
  <1>3. Dependences \subseteq SdgNodes \X SdgNodes
    BY EdgesFit DEF WellPosed
  <1> QED
    BY <1>1, <1>2, <1>3 DEF Flat, Up, Down, Onward

(* What holds at first and from one number to the next holds at the end.   *)
LEMMA UpTo ==
    ASSUME NEW n \in Nat, NEW G, 0 \in G, \A i \in Nat : i < n /\ i \in G => i + 1 \in G
    PROVE  \A i \in 0..n : i \in G
  <1> DEFINE Bad == {i \in Nat : i <= n /\ i \notin G}
  <1>1. SUFFICES ASSUME Bad # {} PROVE FALSE
    BY DEF Bad
  <1>2. PICK m \in Bad : \A l \in Bad : m <= l
    <2>1. Bad \in SUBSET Nat
      OBVIOUS
    <2> HIDE DEF Bad
    <2> QED
      BY <1>1, <2>1, LeastOfNaturals
  <1>3. m \in Nat /\ m <= n /\ m \notin G /\ m # 0
    BY <1>2
  <1>4. m - 1 \in Nat /\ m - 1 < n /\ m - 1 \notin Bad /\ (m - 1) + 1 = m
    BY <1>2, <1>3
  <1>5. m - 1 \in G
    BY <1>4
  <1> QED
    BY <1>3, <1>4, <1>5

-------------------------------------------------------------------------------
(* The places of two passes *)

Pairs == (SUBSET SdgNodes) \X (SUBSET SdgNodes)

\* A pair of sets is what ascends and what a pass reaches; Level closes it, Crossed goes on.
Level(S) == <<Closure(S[1], Flat), Closure(Closure(S[1], Flat) \cup S[2], Flat)>>
Crossed(S) == Level(<<S[1] \cup Image(S[1], Up), S[2] \cup Image(S[2], Down)>>)

(* A level is the least that the dependences do not leave.                 *)
LEMMA LevelFacts ==
    ASSUME Typed, WellPosed, NEW S \in Pairs
    PROVE  /\ Level(S) \in Pairs
           /\ S[1] \subseteq Level(S)[1] /\ S[2] \subseteq Level(S)[2]
           /\ Level(S)[1] \subseteq Level(S)[2]
           /\ Image(Level(S)[1], Flat) \subseteq Level(S)[1]
           /\ Image(Level(S)[2], Flat) \subseteq Level(S)[2]
           /\ \A P \in SUBSET SdgNodes :
                 Image(P, Flat) \subseteq P =>
                     /\ S[1] \subseteq P => Level(S)[1] \subseteq P
                     /\ Level(S)[1] \cup S[2] \subseteq P => Level(S)[2] \subseteq P
  <1>1. Flat \in SUBSET (SdgNodes \X SdgNodes)
    BY TurnedFit
  <1>2. S[1] \in SUBSET SdgNodes /\ S[2] \in SUBSET SdgNodes
    BY DEF Pairs
  <1>3. PICK one : one = Closure(S[1], Flat)
    OBVIOUS
  <1>4. PICK all : all = Closure(one \cup S[2], Flat)
    OBVIOUS
  <1>5. /\ S[1] \subseteq one /\ one \in SUBSET SdgNodes /\ Image(one, Flat) \subseteq one
        /\ \A P \in SUBSET SdgNodes : S[1] \subseteq P /\ Image(P, Flat) \subseteq P => one \subseteq P
    BY <1>1, <1>2, <1>3, ClosureIsLeast
  <1>6. PICK both \in SUBSET SdgNodes : both = one \cup S[2]
    BY <1>2, <1>5
  <1>7. /\ both \subseteq all /\ all \in SUBSET SdgNodes /\ Image(all, Flat) \subseteq all
        /\ \A P \in SUBSET SdgNodes : both \subseteq P /\ Image(P, Flat) \subseteq P => all \subseteq P
    BY <1>1, <1>4, <1>6, ClosureIsLeast
  <1>8. Level(S) = <<one, all>>
    BY <1>3, <1>4 DEF Level
  <1> QED
    BY <1>5, <1>6, <1>7, <1>8 DEF Pairs

(* Crossing a call leads from a pair of sets of nodes to one.              *)
LEMMA CrossedFacts ==
    ASSUME Typed, WellPosed, NEW S \in Pairs
    PROVE  /\ <<S[1] \cup Image(S[1], Up), S[2] \cup Image(S[2], Down)>> \in Pairs
           /\ Crossed(S) \in Pairs
  <1>1. <<S[1] \cup Image(S[1], Up), S[2] \cup Image(S[2], Down)>> \in Pairs
    BY TurnedFit DEF Pairs, Image
  <1> QED
    BY <1>1, LevelFacts DEF Crossed

\* Nothing is crossed any more.
Rests(at) == at[1] = 0 \/ Crossed(at[2]) = at[2]

Onto(at) == IF Rests(at) THEN at ELSE <<at[1] - 1, Crossed(at[2])>>

\* The recursion of TwoPasses, over the calls still to cross.
Counts(w) ==
    w = [at \in Depths \X Pairs |-> IF Rests(at) THEN at[2] ELSE w[<<at[1] - 1, Crossed(at[2])>>]]

(* The recursion of TwoPasses has a solution.                              *)
LEMMA WithinExists ==
    ASSUME Typed, WellPosed
    PROVE  \E w : Counts(w)
  <1> DEFINE D == Depths \X Pairs
             step == [at \in D |-> Onto(at)]
  <1>1. ASSUME NEW at \in D
        PROVE  /\ Onto(at) \in D /\ (Onto(at) = at <=> Rests(at))
               /\ ~Rests(at) => Onto(at) = <<at[1] - 1, Crossed(at[2])>>
    <2>1. at[1] \in Depths /\ at[2] \in Pairs
      OBVIOUS
    <2>2. Crossed(at[2]) \in Pairs
      BY <2>1, CrossedFacts
    <2>3. at[1] # 0 => at[1] - 1 \in Depths /\ at[1] - 1 # at[1]
      BY <2>1 DEF Depths, WellPosed
    <2>4. CASE Rests(at)
      BY <2>4 DEF Onto
    <2>5. CASE ~Rests(at)
      <3>1. Onto(at) = <<at[1] - 1, Crossed(at[2])>> /\ at[1] # 0
        BY <2>5 DEF Onto, Rests
      <3>2. Onto(at)[1] # at[1]
        BY <2>3, <3>1
      <3> QED
        BY <2>2, <2>3, <2>5, <3>1, <3>2
    <2> QED
      BY <2>4, <2>5
  <1> HIDE DEF D
  <1>2. step \in [D -> D] /\ \A at \in D : step[at] = Onto(at)
    BY <1>1
  <1> HIDE DEF step
  <1>3. PICK t : Settles(D, step, t)
    BY <1>2, SettlingExists
  <1> DEFINE w == [at \in D |-> t[at][2]]
  <1>4. ASSUME NEW at \in D
        PROVE  w[at] = IF Rests(at) THEN at[2] ELSE w[<<at[1] - 1, Crossed(at[2])>>]
    <2>1. t[at] = IF step[at] = at THEN at ELSE t[step[at]]
      BY <1>3 DEF Settles
    <2>2. Onto(at) \in D
      BY <1>1
    <2>3. w[at] = t[at][2] /\ w[Onto(at)] = t[Onto(at)][2]
      BY <2>2
    <2> HIDE DEF w
    <2> QED
      BY <1>1, <1>2, <2>1, <2>3
  <1>5. w = [at \in D |-> w[at]]
    OBVIOUS
  <1> HIDE DEF w
  <1>6. [at \in D |-> w[at]] =
        [at \in D |-> IF Rests(at) THEN at[2] ELSE w[<<at[1] - 1, Crossed(at[2])>>]]
    BY <1>4
  <1>7. Counts(w)
    BY <1>5, <1>6 DEF Counts, D
  <1> QED
    BY <1>7

\* Where a slice starts.
Begin == <<{slice.criterion}, {}>>

(* TwoPasses is what it gives for all the calls that may be crossed.       *)
LEMMA TwoPassesIsWithin ==
    TwoPasses = (CHOOSE w : Counts(w))[<<slice.max_call_depth, Level(Begin)>>][2]
  <1> DEFINE flat == Turned(Dependences)
        up == Turned(Crossing(slice.direction, 1))
        down == Turned(Crossing(slice.direction, 2))
        level(S) == <<Closure(S[1], flat), Closure(Closure(S[1], flat) \cup S[2], flat)>>
        crossed(S) == level(<<S[1] \cup Image(S[1], up), S[2] \cup Image(S[2], down)>>)
        P(w) == w = [at \in (0..slice.max_call_depth) \X ((SUBSET SdgNodes) \X (SUBSET SdgNodes)) |->
                        IF at[1] = 0 \/ crossed(at[2]) = at[2] THEN at[2]
                        ELSE w[<<at[1] - 1, crossed(at[2])>>]]
  <1>1. TwoPasses = (CHOOSE w : P(w))[<<slice.max_call_depth, level(<<{slice.criterion}, {}>>)>>][2]
    BY Zenon DEF TwoPasses
  <1>2. \A S : level(S) = Level(S)
    BY DEF Level, Flat
  <1>3. \A S : crossed(S) = Crossed(S)
    BY DEF Crossed, Level, Flat, Up, Down
  <1> HIDE DEF level, crossed
  <1>4. \A w : P(w) <=> Counts(w)
    BY <1>3 DEF Counts, Rests, Depths, Pairs
  <1> HIDE DEF P
  <1> QED
    BY <1>1, <1>2, <1>4 DEF Begin

\* One place after the other, a call further each.
Climbs(p) ==
    /\ p \in [Depths -> Pairs] /\ p[0] = Level(Begin)
    /\ \A k \in Nat : k < slice.max_call_depth => p[k + 1] = Crossed(p[k])

(* That is the last of a sequence that crosses one call after the other.   *)
LEMMA WithinClimbs ==
    ASSUME Typed, WellPosed
    PROVE  \E p : Climbs(p) /\ TwoPasses = p[slice.max_call_depth][2]
  <1> DEFINE w == CHOOSE w : Counts(w)
             max == slice.max_call_depth
             start == Level(Begin)
             p == [k \in Depths |-> w[<<k, start>>]]
  <1>1. Counts(w)
    BY WithinExists
  <1>2. TwoPasses = w[<<max, start>>][2]
    BY TwoPassesIsWithin
  <1> HIDE DEF w
  <1>3. ASSUME NEW k \in Depths, NEW S \in Pairs
        PROVE  w[<<k, S>>] = IF k = 0 \/ Crossed(S) = S THEN S ELSE w[<<k - 1, Crossed(S)>>]
    <2>1. PICK at \in Depths \X Pairs : at = <<k, S>>
      OBVIOUS
    <2>2. w[at] = IF Rests(at) THEN at[2] ELSE w[<<at[1] - 1, Crossed(at[2])>>]
      BY <1>1, Zenon DEF Counts
    <2>3. at[1] = k /\ at[2] = S
      BY <2>1
    <2> QED
      BY <2>1, <2>2, <2>3 DEF Rests
  <1>4. max \in Nat /\ Depths = 0..max
    BY DEF WellPosed, Depths
  <1> HIDE DEF max
  <1>14. \A S \in Pairs : w[<<0, S>>] = S
    <2> SUFFICES ASSUME NEW S \in Pairs PROVE w[<<0, S>>] = S
      OBVIOUS
    <2>1. PICK k \in Depths : k = 0
      BY <1>4
    <2>2. w[<<k, S>>] = S
      BY <1>3, <2>1
    <2> QED
      BY <2>1, <2>2
  <1> DEFINE Good(k) == \A S \in Pairs : /\ w[<<k, S>>] \in Pairs
                                         /\ k < max => w[<<k + 1, S>>] = Crossed(w[<<k, S>>])
             G == {k \in Depths : Good(k)}
  <1>5. Good(0)
    <2> SUFFICES ASSUME NEW S \in Pairs
                 PROVE  w[<<0, S>>] \in Pairs /\ (0 < max => w[<<0 + 1, S>>] = Crossed(w[<<0, S>>]))
      OBVIOUS
    <2>1. w[<<0, S>>] = S /\ Crossed(S) \in Pairs
      BY <1>14, CrossedFacts
    <2>2. w[<<0, Crossed(S)>>] = Crossed(S)
      BY <1>14, <2>1
    <2>3. ASSUME 0 < max PROVE w[<<1, S>>] = Crossed(S)
      <3>1. 1 \in Depths /\ 1 - 1 = 0
        BY <1>4, <2>3
      <3>2. w[<<1, S>>] = IF Crossed(S) = S THEN S ELSE w[<<0, Crossed(S)>>]
        BY <1>3, <3>1
      <3> QED
        BY <2>2, <3>2
    <2> QED
      BY <2>1, <2>3
  <1>6. ASSUME NEW i \in Nat, i < max, Good(i) PROVE Good(i + 1)
    <2> SUFFICES ASSUME NEW S \in Pairs
                 PROVE  /\ w[<<i + 1, S>>] \in Pairs
                        /\ i + 1 < max => w[<<i + 1 + 1, S>>] = Crossed(w[<<i + 1, S>>])
      OBVIOUS
    <2>1. PICK T \in Pairs : T = Crossed(S)
      BY CrossedFacts
    <2>2. w[<<i, S>>] \in Pairs /\ w[<<i + 1, S>>] = Crossed(w[<<i, S>>]) /\ w[<<i + 1, T>>] = Crossed(w[<<i, T>>])
      BY <1>6, <2>1
    <2>3. w[<<i + 1, S>>] \in Pairs
      BY <2>2, CrossedFacts
    <2>4. ASSUME i + 1 < max PROVE w[<<i + 1 + 1, S>>] = Crossed(w[<<i + 1, S>>])
      <3>1. i \in Depths /\ i + 1 \in Depths /\ i + 1 + 1 \in Depths /\ i + 1 + 1 - 1 = i + 1 /\ i + 1 - 1 = i
            /\ i + 1 # 0 /\ i + 1 + 1 # 0
        BY <1>4, <2>4
      <3>2. /\ w[<<i + 1, S>>] = IF T = S THEN S ELSE w[<<i, T>>]
            /\ w[<<i + 1 + 1, S>>] = IF T = S THEN S ELSE w[<<i + 1, T>>]
        BY <1>3, <2>1, <3>1
      <3> HIDE DEF Good
      <3> QED
        BY <2>1, <2>2, <3>2
    <2> QED
      BY <2>3, <2>4
  <1>7. \A i \in 0..max : i \in G
    <2>1. 0 \in G
      BY <1>4, <1>5
    <2>2. \A i \in Nat : i < max /\ i \in G => i + 1 \in G
      <3> HIDE DEF Good
      <3> QED
        BY <1>4, <1>6
    <2> HIDE DEF G
    <2> QED
      BY <1>4, <2>1, <2>2, UpTo
  <1>8. start \in Pairs
    <2>1. Begin \in Pairs
      BY DEF Begin, Pairs, WellPosed
    <2> QED
      BY <2>1, LevelFacts
  <1> HIDE DEF start
  <1>9. ASSUME NEW k \in Depths
        PROVE  p[k] = w[<<k, start>>] /\ p[k] \in Pairs
               /\ (k < max => p[k + 1] = Crossed(p[k]))
    <2>1. Good(k)
      BY <1>4, <1>7
    <2>2. w[<<k, start>>] \in Pairs /\ (k < max => w[<<k + 1, start>>] = Crossed(w[<<k, start>>]))
      BY <1>8, <2>1
    <2>3. k < max => k + 1 \in Depths
      BY <1>4
    <2>4. k < max => p[k + 1] = w[<<k + 1, start>>]
      BY <2>3
    <2> QED
      BY <2>2, <2>4
  <1>10. p \in [Depths -> Pairs]
    <2>1. \A k \in Depths : w[<<k, start>>] \in Pairs
      <3> HIDE DEF p, Good, G
      <3> QED
        BY <1>9
    <2> QED
      BY <2>1
  <1>11. p[0] = start
    <2>1. 0 \in Depths
      BY <1>4
    <2> QED
      BY <1>8, <1>14, <2>1
  <1>12. TwoPasses = p[max][2]
    <2>1. max \in Depths
      BY <1>4
    <2> QED
      BY <1>2, <1>9, <2>1 DEF start
  <1>13. Climbs(p)
    <2>1. \A k \in Nat : k < max => k \in Depths
      BY <1>4
    <2> HIDE DEF p, Good, G
    <2> QED
      BY <1>9, <1>10, <1>11, <2>1 DEF Climbs, max, start
  <1> QED
    BY <1>12, <1>13 DEF max

(* The places of the two passes are closed as their steps are.             *)
LEMMA PlacesAdmit ==
    ASSUME Typed, WellPosed
    PROVE  /\ Ascents \in Families /\ slice.criterion \in Ascents[0] /\ Admits(Ascents, Up)
           /\ Descents \in Families /\ Admits(Descents, Down)
           /\ \A k \in Depths : Ascents[k] \subseteq Descents[k]
  <1>1. /\ Flat \subseteq SdgNodes \X SdgNodes /\ Up \subseteq SdgNodes \X SdgNodes
        /\ Down \subseteq SdgNodes \X SdgNodes
    BY TurnedFit
  <1>2. 0 \in Depths
    BY DEF Depths, WellPosed
  <1>3. /\ Ascents \in Families /\ slice.criterion \in Ascents[0]
    BY <1>2 DEF Ascents, Families, WellPosed
  <1>4. ASSUME NEW k \in Depths, NEW n
        PROVE  n \in Ascents[k] <=> /\ n \in SdgNodes
                                    /\ \A A \in Families :
                                         slice.criterion \in A[0] /\ Admits(A, Up) => n \in A[k]
    BY DEF Ascents
  <1>5. ASSUME NEW k \in Depths, NEW n
        PROVE  n \in Descents[k] <=> /\ n \in SdgNodes
                                     /\ \A A \in Families :
                                         (\A j \in Depths : Ascents[j] \subseteq A[j]) /\ Admits(A, Down)
                                            => n \in A[k]
    BY DEF Descents
  <1>6. ASSUME NEW A, Admits(A, Up), NEW k \in Depths, NEW n \in A[k], NEW m
        PROVE  /\ <<n, m>> \in Flat => m \in A[k]
               /\ k + 1 \in Depths => n \in A[k + 1] /\ (<<n, m>> \in Up => m \in A[k + 1])
    BY <1>6 DEF Admits, Image
  <1>7. ASSUME NEW A, Admits(A, Down), NEW k \in Depths, NEW n \in A[k], NEW m
        PROVE  /\ <<n, m>> \in Flat => m \in A[k]
               /\ k + 1 \in Depths => n \in A[k + 1] /\ (<<n, m>> \in Down => m \in A[k + 1])
    BY <1>7 DEF Admits, Image
  <1>8. Admits(Ascents, Up)
    <2> SUFFICES ASSUME NEW k \in Depths
                 PROVE  /\ Image(Ascents[k], Flat) \subseteq Ascents[k]
                        /\ k + 1 \in Depths =>
                              Ascents[k] \cup Image(Ascents[k], Up) \subseteq Ascents[k + 1]
      BY DEF Admits
    <2>1. ASSUME NEW n \in Ascents[k], NEW m, <<n, m>> \in Flat PROVE m \in Ascents[k]
      BY <1>1, <1>4, <1>6, <2>1
    <2>2. ASSUME NEW n \in Ascents[k], k + 1 \in Depths
          PROVE  n \in Ascents[k + 1] /\ \A m : <<n, m>> \in Up => m \in Ascents[k + 1]
      BY <1>1, <1>4, <1>6, <2>2
    <2>3. \A e \in Flat : e = <<e[1], e[2]>>
      BY <1>1
    <2>4. \A e \in Up : e = <<e[1], e[2]>>
      BY <1>1
    <2> QED
      BY <2>1, <2>2, <2>3, <2>4 DEF Image
  <1>9. Admits(Descents, Down)
    <2> SUFFICES ASSUME NEW k \in Depths
                 PROVE  /\ Image(Descents[k], Flat) \subseteq Descents[k]
                        /\ k + 1 \in Depths =>
                              Descents[k] \cup Image(Descents[k], Down) \subseteq Descents[k + 1]
      BY DEF Admits
    <2>1. ASSUME NEW n \in Descents[k], NEW m, <<n, m>> \in Flat PROVE m \in Descents[k]
      BY <1>1, <1>5, <1>7, <2>1
    <2>2. ASSUME NEW n \in Descents[k], k + 1 \in Depths
          PROVE  n \in Descents[k + 1] /\ \A m : <<n, m>> \in Down => m \in Descents[k + 1]
      BY <1>1, <1>5, <1>7, <2>2
    <2>3. \A e \in Flat : e = <<e[1], e[2]>>
      BY <1>1
    <2>4. \A e \in Down : e = <<e[1], e[2]>>
      BY <1>1
    <2> QED
      BY <2>1, <2>2, <2>3, <2>4 DEF Image
  <1>10. \A k \in Depths : Ascents[k] \subseteq Descents[k]
    BY <1>3, <1>5 DEF Families
  <1>11. Descents \in Families
    BY DEF Descents, Families
  <1> QED
    BY <1>3, <1>8, <1>9, <1>10, <1>11

(* They are the least that are.                                            *)
LEMMA AscentsAreLeast ==
    ASSUME NEW A \in Families, slice.criterion \in A[0], Admits(A, Up), NEW k \in Depths
    PROVE  Ascents[k] \subseteq A[k]
  BY DEF Ascents

(* And so are those of the second pass.                                    *)
LEMMA DescentsAreLeast ==
    ASSUME NEW A \in Families, \A j \in Depths : Ascents[j] \subseteq A[j], Admits(A, Down),
           NEW k \in Depths
    PROVE  Descents[k] \subseteq A[k]
  BY DEF Descents

(* What two passes reach is the places of the second at the last depth.    *)
LEMMA TwoPassesAreDescents ==
    ASSUME Typed, WellPosed
    PROVE  TwoPasses = Descents[slice.max_call_depth]
  <1> DEFINE max == slice.max_call_depth
  <1>1. PICK p : Climbs(p) /\ TwoPasses = p[max][2]
    BY WithinClimbs
  <1>2. max \in Nat /\ Depths = 0..max /\ max \in Depths /\ 0 \in Depths
    BY DEF WellPosed, Depths
  <1>3. p \in [Depths -> Pairs] /\ p[0] = Level(Begin)
        /\ \A k \in Nat : k < max => p[k + 1] = Crossed(p[k])
    BY <1>1 DEF Climbs
  <1> HIDE DEF max
  <1>4. PICK asc \in Families : asc = [k \in Depths |-> p[k][1]]
    BY <1>3 DEF Families, Pairs
  <1>5. PICK all \in Families : all = [k \in Depths |-> p[k][2]]
    BY <1>3 DEF Families, Pairs
  <1>6. Begin \in Pairs /\ Begin[1] = {slice.criterion} /\ Begin[2] = {}
    BY DEF Begin, Pairs, WellPosed
  <1>7. ASSUME NEW k \in Depths
        PROVE  /\ \E S \in Pairs : p[k] = Level(S)
               /\ k + 1 \in Depths => \E S \in Pairs :
                    /\ p[k + 1] = Level(S)
                    /\ S = <<asc[k] \cup Image(asc[k], Up), all[k] \cup Image(all[k], Down)>>
    <2>1. ASSUME NEW j \in Depths, j + 1 \in Depths
          PROVE  \E S \in Pairs :
                    /\ p[j + 1] = Level(S)
                    /\ S = <<asc[j] \cup Image(asc[j], Up), all[j] \cup Image(all[j], Down)>>
      <3>1. p[j] \in Pairs /\ p[j + 1] = Crossed(p[j]) /\ asc[j] = p[j][1] /\ all[j] = p[j][2]
        BY <1>2, <1>3, <1>4, <1>5, <2>1
      <3> QED
        BY <3>1, CrossedFacts DEF Crossed
    <2>2. k = 0 \/ (k - 1 \in Depths /\ k - 1 + 1 = k)
      BY <1>2
    <2>3. \E S \in Pairs : p[k] = Level(S)
      <3>1. CASE k = 0
        BY <1>3, <1>6, <3>1
      <3>2. CASE k - 1 \in Depths /\ k - 1 + 1 = k
        BY <2>1, <3>2
      <3> QED
        BY <2>2, <3>1, <3>2
    <2> QED
      BY <2>1, <2>3
  <1>8. ASSUME NEW k \in Depths
        PROVE  /\ Image(asc[k], Flat) \subseteq asc[k] /\ Image(all[k], Flat) \subseteq all[k]
               /\ asc[k] \subseteq all[k]
               /\ k + 1 \in Depths => /\ asc[k] \cup Image(asc[k], Up) \subseteq asc[k + 1]
                                      /\ all[k] \cup Image(all[k], Down) \subseteq all[k + 1]
    <2>1. PICK S \in Pairs : p[k] = Level(S)
      BY <1>7
    <2>2. asc[k] = Level(S)[1] /\ all[k] = Level(S)[2]
      BY <1>4, <1>5, <2>1
    <2>3. /\ Image(asc[k], Flat) \subseteq asc[k] /\ Image(all[k], Flat) \subseteq all[k]
          /\ asc[k] \subseteq all[k]
      BY <2>2, LevelFacts
    <2>4. ASSUME k + 1 \in Depths
          PROVE  /\ asc[k] \cup Image(asc[k], Up) \subseteq asc[k + 1]
                 /\ all[k] \cup Image(all[k], Down) \subseteq all[k + 1]
      <3>1. PICK T \in Pairs : /\ p[k + 1] = Level(T)
                 /\ T = <<asc[k] \cup Image(asc[k], Up), all[k] \cup Image(all[k], Down)>>
        BY <1>7, <2>4
      <3>2. asc[k + 1] = Level(T)[1] /\ all[k + 1] = Level(T)[2]
        BY <1>4, <1>5, <2>4, <3>1
      <3>3. T[1] = asc[k] \cup Image(asc[k], Up) /\ T[2] = all[k] \cup Image(all[k], Down)
        BY <3>1
      <3>4. T[1] \subseteq Level(T)[1] /\ T[2] \subseteq Level(T)[2]
        BY LevelFacts
      <3> QED
        BY <3>2, <3>3, <3>4
    <2> QED
      BY <2>3, <2>4
  <1>9. asc[0] = Level(Begin)[1] /\ all[0] = Level(Begin)[2]
    BY <1>2, <1>3, <1>4, <1>5
  <1>10. \A k \in Depths : Ascents[k] \subseteq asc[k]
    <2>1. slice.criterion \in asc[0]
      BY <1>6, <1>9, LevelFacts
    <2>2. Admits(asc, Up)
      BY <1>8 DEF Admits
    <2> QED
      BY <2>1, <2>2, AscentsAreLeast
  <1>11. \A k \in Depths : Descents[k] \subseteq all[k]
    <2>1. Admits(all, Down)
      BY <1>8 DEF Admits
    <2>2. \A k \in Depths : Ascents[k] \subseteq all[k]
      BY <1>8, <1>10
    <2> QED
      BY <2>1, <2>2, DescentsAreLeast
  <1>12. /\ Ascents \in Families /\ slice.criterion \in Ascents[0] /\ Admits(Ascents, Up)
         /\ Descents \in Families /\ Admits(Descents, Down)
         /\ \A k \in Depths : Ascents[k] \subseteq Descents[k]
    BY PlacesAdmit
  <1>13. ASSUME NEW S \in Pairs, NEW k \in Depths, p[k] = Level(S),
                S[1] \subseteq Ascents[k], S[2] \subseteq Descents[k]
         PROVE  asc[k] \subseteq Ascents[k] /\ all[k] \subseteq Descents[k]
    <2>1. asc[k] = Level(S)[1] /\ all[k] = Level(S)[2]
      BY <1>4, <1>5, <1>13
    <2>2. /\ Ascents[k] \in SUBSET SdgNodes /\ Image(Ascents[k], Flat) \subseteq Ascents[k]
          /\ Descents[k] \in SUBSET SdgNodes /\ Image(Descents[k], Flat) \subseteq Descents[k]
      BY <1>12 DEF Families, Admits
    <2>3. Level(S)[1] \subseteq Ascents[k]
      BY <1>13, <2>2, LevelFacts
    <2>4. Level(S)[1] \cup S[2] \subseteq Descents[k]
      BY <1>12, <1>13, <2>3
    <2>5. Level(S)[2] \subseteq Descents[k]
      BY <2>2, <2>4, LevelFacts
    <2> QED
      BY <2>1, <2>3, <2>5
  <1> DEFINE G == {k \in Depths : asc[k] \subseteq Ascents[k] /\ all[k] \subseteq Descents[k]}
  <1>14. \A k \in 0..max : k \in G
    <2>1. 0 \in G
      BY <1>2, <1>3, <1>6, <1>12, <1>13
    <2>2. ASSUME NEW k \in Nat, k < max, k \in G PROVE k + 1 \in G
      <3>1. k \in Depths /\ k + 1 \in Depths
        BY <1>2, <2>2
      <3>2. PICK S \in Pairs : /\ p[k + 1] = Level(S)
                 /\ S = <<asc[k] \cup Image(asc[k], Up), all[k] \cup Image(all[k], Down)>>
        BY <1>7, <3>1
      <3>3. S[1] = asc[k] \cup Image(asc[k], Up) /\ S[2] = all[k] \cup Image(all[k], Down)
        BY <3>2
      <3>4. \A V, W, edges : V \subseteq W => Image(V, edges) \subseteq Image(W, edges)
        BY DEF Image
      <3>5. /\ Ascents[k] \cup Image(Ascents[k], Up) \subseteq Ascents[k + 1]
            /\ Descents[k] \cup Image(Descents[k], Down) \subseteq Descents[k + 1]
        BY <1>12, <3>1 DEF Admits
      <3>6. S[1] \subseteq Ascents[k + 1] /\ S[2] \subseteq Descents[k + 1]
        BY <2>2, <3>3, <3>4, <3>5
      <3> QED
        BY <1>13, <3>1, <3>2, <3>6
    <2> HIDE DEF G
    <2> QED
      BY <1>2, <2>1, <2>2, UpTo
  <1>15. all[max] = p[max][2]
    BY <1>2, <1>5
  <1>16. all[max] \subseteq Descents[max] /\ Descents[max] \subseteq all[max]
    BY <1>2, <1>11, <1>14
  <1> QED
    BY <1>1, <1>15, <1>16 DEF max

-------------------------------------------------------------------------------
(* The neighbours of a node, one after the other *)

\* The body and the whole of the fold in Expand.
Offered(acc, x, depth) == Relax(acc, x \div 2, depth + (x % 2))

Relaxed(base, seq, depth) ==
    FoldLeft(LAMBDA acc, x : Relax(acc, x \div 2, depth + (x % 2)), base, seq)

\* A fold over positions, a prefix at a time.
Topmost(s) == CHOOSE x \in s : \A y \in s : x >= y

Folds(base, seq, depth, it, n) ==
    \A s \in SUBSET (1..n) :
        it[s] = IF s = {} THEN base
                ELSE Offered(it[s \ {Topmost(s)}], seq[Topmost(s)], depth)

(* What remains without the highest position lies below it.                *)
LEMMA TopmostFacts ==
    ASSUME NEW n \in Nat, NEW s \in SUBSET (1..n), s # {}
    PROVE  /\ Topmost(s) \in s /\ \A y \in s : Topmost(s) >= y
           /\ Topmost(s) \in 1..n /\ s \ {Topmost(s)} \in SUBSET (1..(Topmost(s) - 1))
  <1> DEFINE below == {i \in Nat : \E x \in s : i = n - x}
  <1>0. \A x \in s : x \in 1..n /\ x \in Nat /\ x >= 1 /\ n - x \in Nat
    OBVIOUS
  <1>1. below \in SUBSET Nat /\ below # {}
    BY <1>0
  <1>2. PICK m \in below : \A l \in below : m <= l
    <2> HIDE DEF below
    <2> QED
      BY <1>1, LeastOfNaturals
  <1>3. PICK x \in s : m = n - x
    BY <1>2
  <1>4. \A y \in s : x >= y
    <2> SUFFICES ASSUME NEW y \in s PROVE x >= y
      OBVIOUS
    <2>1. n - y \in below
      BY <1>0
    <2>2. m <= n - y
      BY <1>2, <2>1
    <2> QED
      BY <1>0, <1>3, <2>2
  <1>5. Topmost(s) \in s /\ \A y \in s : Topmost(s) >= y
    BY <1>4 DEF Topmost
  <1>6. s \ {Topmost(s)} \in SUBSET (1..(Topmost(s) - 1))
    <2> SUFFICES ASSUME NEW y \in s, y # Topmost(s) PROVE y \in 1..(Topmost(s) - 1)
      OBVIOUS
    <2>1. Topmost(s) \in Nat /\ y \in Nat /\ y >= 1 /\ Topmost(s) >= y
      BY <1>0, <1>5
    <2> QED
      BY <2>1
  <1> QED
    BY <1>0, <1>5, <1>6

(* A fold can be extended by one position after the other.                 *)
LEMMA FoldsExist ==
    ASSUME NEW base, NEW seq, NEW depth, NEW n \in Nat
    PROVE  \E it : Folds(base, seq, depth, it, n)
  <1> DEFINE G == {m \in Nat : \E it : Folds(base, seq, depth, it, m)}
  <1>1. 0 \in G
    <2> DEFINE only == [s \in {{}} |-> base]
    <2>1. 1..0 = {}
      OBVIOUS
    <2>2. \A s \in SUBSET (1..0) : s = {}
      BY <2>1
    <2>3. only[{}] = base
      OBVIOUS
    <2> HIDE DEF only
    <2>4. Folds(base, seq, depth, only, 0)
      BY <2>2, <2>3 DEF Folds
    <2> QED
      BY <2>4
  <1>2. ASSUME NEW k \in Nat, k \in G
        PROVE  k + 1 \in G
    <2>1. PICK it : Folds(base, seq, depth, it, k)
      BY <1>2
    <2>2. PICK m \in Nat : m = k + 1
      OBVIOUS
    <2> DEFINE value(s) == IF s \in SUBSET (1..k) THEN it[s]
                           ELSE Offered(it[s \ {Topmost(s)}], seq[Topmost(s)], depth)
               more == [s \in SUBSET (1..m) |-> value(s)]
    <2>3. ASSUME NEW s \in SUBSET (1..m)
          PROVE  more[s] = IF s = {} THEN base
                           ELSE Offered(more[s \ {Topmost(s)}], seq[Topmost(s)], depth)
      <3>1. more[s] = value(s)
        OBVIOUS
      <3>2. CASE s = {}
        <4>1. it[s] = base
          BY <2>1, <3>2 DEF Folds
        <4> QED
          BY <3>1, <3>2, <4>1
      <3>3. CASE s # {}
        <4>1. Topmost(s) \in 1..m /\ s \ {Topmost(s)} \in SUBSET (1..(Topmost(s) - 1))
          BY <3>3, TopmostFacts
        <4>2. s \ {Topmost(s)} \in SUBSET (1..k) /\ s \ {Topmost(s)} \in SUBSET (1..m)
          BY <2>2, <4>1
        <4>3. more[s \ {Topmost(s)}] = it[s \ {Topmost(s)}]
          BY <4>2
        <4>4. s \in SUBSET (1..k) => it[s] = Offered(it[s \ {Topmost(s)}], seq[Topmost(s)], depth)
          BY <2>1, <3>3 DEF Folds
        <4> HIDE DEF more
        <4> QED
          BY <3>1, <3>3, <4>3, <4>4
      <3> QED
        BY <3>2, <3>3
    <2> HIDE DEF more
    <2>4. Folds(base, seq, depth, more, m)
      BY <2>3 DEF Folds
    <2> QED
      BY <2>2, <2>4
  <1>3. \A i \in 0..n : i \in G
    <2> HIDE DEF G
    <2> QED
      BY <1>1, <1>2, UpTo
  <1> QED
    BY <1>3

\* What a fold goes through.
Goes(base, seq, depth, n, h) ==
    /\ h[0] = base /\ h[n] = Relaxed(base, seq, depth)
    /\ \A i \in 1..n : h[i] = Offered(h[i - 1], seq[i], depth)

(* The neighbours are relaxed from the left.                               *)
LEMMA RelaxedVisits ==
    ASSUME NEW base, NEW seq, NEW depth, NEW n \in Nat, DOMAIN seq = 1..n
    PROVE  \E h : Goes(base, seq, depth, n, h)
  <1> DEFINE P(f) == f = [s \in SUBSET DOMAIN seq |->
                 IF s = {} THEN base ELSE Offered(f[s \ {Topmost(s)}], seq[Topmost(s)], depth)]
             it == CHOOSE f : P(f)
             h == [i \in 0..n |-> it[1..i]]
  <1>1. Relaxed(base, seq, depth) = it[DOMAIN seq]
    BY Zenon DEF Relaxed, FoldLeft, MapThenFoldSet, Topmost, Max, Offered
  <1>2. \E f : P(f)
    <2>1. PICK f : Folds(base, seq, depth, f, n)
      BY FoldsExist
    <2> DEFINE g == [s \in SUBSET (1..n) |-> f[s]]
    <2>2. ASSUME NEW s \in SUBSET (1..n)
          PROVE  g[s] = IF s = {} THEN base ELSE Offered(g[s \ {Topmost(s)}], seq[Topmost(s)], depth)
      <3>1. f[s] = IF s = {} THEN base ELSE Offered(f[s \ {Topmost(s)}], seq[Topmost(s)], depth)
        BY <2>1 DEF Folds
      <3>2. g[s] = f[s] /\ g[s \ {Topmost(s)}] = f[s \ {Topmost(s)}]
        OBVIOUS
      <3> HIDE DEF g
      <3> QED
        BY <3>1, <3>2
    <2>3. P(g)
      <3> DEFINE v(s) == IF s = {} THEN base ELSE Offered(g[s \ {Topmost(s)}], seq[Topmost(s)], depth)
      <3>1. g = [s \in SUBSET (1..n) |-> g[s]]
        OBVIOUS
      <3>2. \A s \in SUBSET (1..n) : g[s] = v(s)
        BY <2>2
      <3> HIDE DEF g, v
      <3>3. g = [s \in SUBSET DOMAIN seq |-> v(s)]
        BY <3>1, <3>2
      <3> QED
        BY <3>3 DEF v
    <2> HIDE DEF g, P
    <2> QED
      BY <2>3
  <1>3. P(it)
    <2> HIDE DEF P
    <2> QED
      BY <1>2
  <1> HIDE DEF it
  <1>4. ASSUME NEW s \in SUBSET (1..n)
        PROVE  it[s] = IF s = {} THEN base ELSE Offered(it[s \ {Topmost(s)}], seq[Topmost(s)], depth)
    BY <1>3, Zenon
  <1>5. h[0] = base
    <2>1. 1..0 = {} /\ h[0] = it[1..0]
      OBVIOUS
    <2>2. it[{}] = base
      BY <1>4
    <2> QED
      BY <2>1, <2>2
  <1>6. ASSUME NEW i \in 1..n
        PROVE  h[i] = Offered(h[i - 1], seq[i], depth)
    <2> DEFINE s == 1..i
    <2>1. s \in SUBSET (1..n) /\ s # {} /\ i \in s /\ \A y \in s : y <= i
      OBVIOUS
    <2>2. Topmost(s) \in s /\ \A y \in s : Topmost(s) >= y
      BY <2>1, TopmostFacts
    <2>3. Topmost(s) = i
      BY <2>1, <2>2
    <2>4. s \ {i} = 1..(i - 1)
      OBVIOUS
    <2> HIDE DEF s
    <2>5. it[s] = Offered(it[s \ {Topmost(s)}], seq[Topmost(s)], depth)
      BY <1>4, <2>1
    <2>6. it[s] = Offered(it[1..(i - 1)], seq[i], depth)
      BY <2>3, <2>4, <2>5
    <2>7. h[i] = it[s] /\ h[i - 1] = it[1..(i - 1)]
      BY DEF s
    <2> HIDE DEF h
    <2> QED
      BY <2>6, <2>7
  <1>7. h[n] = Relaxed(base, seq, depth)
    BY <1>1
  <1> HIDE DEF h
  <1> QED
    BY <1>5, <1>6, <1>7 DEF Goes

(* The numbers stand for the neighbours and the cost of reaching them.     *)
LEMMA NeighbourFacts ==
    ASSUME Typed, WellPosed, NEW n
    PROVE  /\ Neighbours(n) \in SUBSET Nat /\ IsFiniteSet(Neighbours(n))
           /\ \A x \in Neighbours(n) :
                 /\ x \div 2 \in SdgNodes /\ x % 2 \in {0, 1}
                 /\ x % 2 = 0 => <<n, x \div 2>> \in Flat
                 /\ x % 2 = 1 => <<n, x \div 2>> \in Onward
           /\ \A m : <<n, m>> \in Flat => \E x \in Neighbours(n) : x \div 2 = m /\ x % 2 = 0
           /\ \A m : <<n, m>> \in Onward => \E x \in Neighbours(n) : x \div 2 = m /\ x % 2 = 1
  <1> DEFINE ends(edges) == IF slice.direction = "Incoming"
                            THEN {e[1] : e \in {e \in edges : e[2] = n}}
                            ELSE {e[2] : e \in {e \in edges : e[1] = n}}
  <1>1. Flat \subseteq SdgNodes \X SdgNodes /\ Onward \subseteq SdgNodes \X SdgNodes
    BY TurnedFit
  <1>2. ASSUME NEW edges, edges \subseteq SdgNodes \X SdgNodes, NEW m
        PROVE  m \in ends(edges) <=> <<n, m>> \in Turned(edges)
    <2>1. CASE slice.direction = "Incoming"
      <3>1. m \in ends(edges) <=> \E e \in edges : e[2] = n /\ e[1] = m
        BY <2>1
      <3>2. <<n, m>> \in Turned(edges) <=> \E e \in edges : <<e[2], e[1]>> = <<n, m>>
        BY <2>1 DEF Turned
      <3> QED
        BY <3>1, <3>2
    <2>2. CASE slice.direction = "Outgoing"
      <3>1. m \in ends(edges) <=> \E e \in edges : e[1] = n /\ e[2] = m
        BY <2>2
      <3>2. \A e \in edges : e = <<e[1], e[2]>>
        BY <1>2
      <3> QED
        BY <2>2, <3>1, <3>2 DEF Turned
    <2> QED
      BY <2>1, <2>2 DEF WellPosed
  <1>3. \A m : m \in ends(Dependences) <=> <<n, m>> \in Flat
    <2>1. Dependences \subseteq SdgNodes \X SdgNodes
      BY EdgesFit DEF WellPosed
    <2> HIDE DEF ends
    <2> QED
      BY <1>2, <2>1 DEF Flat
  <1>4. \A m : m \in ends(Crossing(slice.direction, pass)) <=> <<n, m>> \in Onward
    <2>1. Crossing(slice.direction, pass) \subseteq SdgNodes \X SdgNodes
      BY EdgesFit DEF Crossing
    <2> HIDE DEF ends
    <2> QED
      BY <1>2, <2>1 DEF Onward
  <1>5. Neighbours(n) = {2 * m : m \in ends(Dependences)}
                            \cup {2 * m + 1 : m \in ends(Crossing(slice.direction, pass))}
    BY DEF Neighbours
  <1> HIDE DEF ends
  <1>6. \A m : <<n, m>> \in Flat \cup Onward => m \in SdgNodes
    BY <1>1
  <1>7. \A m \in Nat : /\ (2 * m) \div 2 = m /\ (2 * m) % 2 = 0
                       /\ (2 * m + 1) \div 2 = m /\ (2 * m + 1) % 2 = 1
    OBVIOUS
  <1>8. ASSUME NEW x \in Neighbours(n)
        PROVE  \E m \in SdgNodes : \/ x = 2 * m /\ <<n, m>> \in Flat
                                   \/ x = 2 * m + 1 /\ <<n, m>> \in Onward
    BY <1>3, <1>4, <1>5, <1>6
  <1>9. SdgNodes \in SUBSET Nat
    BY NodesAreFinite
  <1>10. ASSUME NEW x \in Neighbours(n)
         PROVE  /\ x \in Nat /\ x \div 2 \in SdgNodes /\ x % 2 \in {0, 1}
                /\ x % 2 = 0 => <<n, x \div 2>> \in Flat
                /\ x % 2 = 1 => <<n, x \div 2>> \in Onward
    <2>1. PICK m \in SdgNodes : \/ x = 2 * m /\ <<n, m>> \in Flat
                                \/ x = 2 * m + 1 /\ <<n, m>> \in Onward
      BY <1>8
    <2>2. m \in Nat
      BY <1>9
    <2> QED
      BY <1>7, <2>1, <2>2
  <1>11. ASSUME NEW m, <<n, m>> \in Flat
         PROVE  \E x \in Neighbours(n) : x \div 2 = m /\ x % 2 = 0
    <2>1. m \in Nat /\ 2 * m \in Neighbours(n)
      BY <1>3, <1>5, <1>6, <1>9, <1>11
    <2> QED
      BY <1>7, <2>1
  <1>12. ASSUME NEW m, <<n, m>> \in Onward
         PROVE  \E x \in Neighbours(n) : x \div 2 = m /\ x % 2 = 1
    <2>1. m \in Nat /\ 2 * m + 1 \in Neighbours(n)
      BY <1>4, <1>5, <1>6, <1>9, <1>12
    <2> QED
      BY <1>7, <2>1
  <1>13. IsFiniteSet(Neighbours(n))
    <2>1. PICK b \in Nat : SdgNodes \subseteq 0..b
      BY NodesAreFinite
    <2>2. Neighbours(n) \subseteq 0..(2 * b + 1)
      <3>1. ASSUME NEW x \in Neighbours(n) PROVE x \in 0..(2 * b + 1)
        <4>1. PICK m \in SdgNodes : x = 2 * m \/ x = 2 * m + 1
          BY <1>8
        <4>2. m \in 0..b
          BY <2>1
        <4> QED
          BY <4>1, <4>2
      <3> QED
        BY <3>1
    <2>3. \A k \in Nat : IsFiniteSet(0..k)
      BY FS_Interval
    <2>4. 2 * b + 1 \in Nat
      OBVIOUS
    <2> QED
      BY <2>2, <2>3, <2>4, FS_Subset
  <1> QED
    BY <1>10, <1>11, <1>12, <1>13

(* Places stay as the calls that may be crossed grow.                      *)
LEMMA PlacesGrow ==
    ASSUME WellPosed, NEW A, NEW edges, Admits(A, edges), NEW j \in Depths, NEW k \in Depths, j <= k
    PROVE  A[j] \subseteq A[k]
  <1> DEFINE G == {i \in Nat : j <= i => A[j] \subseteq A[i]}
  <1>1. Depths = 0..slice.max_call_depth /\ slice.max_call_depth \in Nat
    BY DEF Depths, WellPosed
  <1>2. 0 \in G
    BY <1>1
  <1>3. ASSUME NEW i \in Nat, i < slice.max_call_depth, i \in G PROVE i + 1 \in G
    <2>1. i \in Depths /\ i + 1 \in Depths
      BY <1>1, <1>3
    <2>2. A[i] \subseteq A[i + 1]
      BY <2>1 DEF Admits
    <2>3. j <= i + 1 => j <= i \/ j = i + 1
      BY <1>1
    <2> QED
      BY <1>3, <2>2, <2>3
  <1>4. \A i \in 0..slice.max_call_depth : i \in G
    <2> HIDE DEF G
    <2> QED
      BY <1>1, <1>2, <1>3, UpTo
  <1> QED
    BY <1>1, <1>4

-------------------------------------------------------------------------------
(* The search *)

\* Where this pass finds a node with so many calls crossed.
Family == IF pass = 1 THEN Ascents ELSE Descents

\* What is found is there to find, and no entry of the queue promises more.
Honest(best, q, found) ==
    /\ found \in SUBSET SdgNodes /\ Cardinality(found) <= slice.max_nodes
    /\ best \in [found -> Depths]
    /\ slice.criterion \in found /\ best[slice.criterion] = 0
    /\ \A n \in found : n \in Family[best[n]]
    /\ q \in Seq(found \X Depths)
    /\ \A i \in DOMAIN q : best[q[i][1]] <= q[i][2]

\* The neighbours xs of a node at depth d have their depth or a lesser one.
Settled(best, d, xs) ==
    \A x \in xs : d + (x % 2) \in Depths =>
        x \div 2 \in DOMAIN best /\ best[x \div 2] <= d + (x % 2)

\* An entry of the queue will expand n at its depth.
Waits(best, q, n) == \E i \in DOMAIN q : q[i] = <<n, best[n]>>

\* Below the cap every node waits for its turn or has had it.
Thorough(best, q, found, others) ==
    Cardinality(found) < slice.max_nodes =>
        \A n \in found \ others :
            Waits(best, q, n) \/ Settled(best, best[n], Neighbours(n))

\* Below the cap the first pass has left nothing that ascends behind.
Ascended(best, found) ==
    Cardinality(found) < slice.max_nodes =>
        \A k \in Depths : \A n \in Ascents[k] : n \in found /\ best[n] <= k

\* The neighbours xs of n are dealt with.
Expanding(acc, n, d, xs) ==
    /\ Honest(acc.best, acc.queue, acc.reached)
    /\ Thorough(acc.best, acc.queue, acc.reached, {n})
    /\ n \in acc.reached /\ acc.best[n] = d
    /\ Cardinality(acc.reached) < slice.max_nodes => Settled(acc.best, d, xs)
    /\ pass = 2 => Ascended(acc.best, acc.reached)

\* No depth rises.
Lowers(best, next) ==
    \A y \in DOMAIN best : y \in DOMAIN next /\ next[y] \in Nat /\ best[y] \in Nat /\ next[y] <= best[y]

(* A depth that falls unsettles no other node.                             *)
LEMMA SettledStays ==
    ASSUME NEW best, NEW next, Lowers(best, next), NEW d \in Nat, NEW xs,
           Settled(best, d, xs), \A x \in xs : x % 2 \in {0, 1}
    PROVE  Settled(next, d, xs)
  <1> SUFFICES ASSUME NEW x \in xs, d + (x % 2) \in Depths
               PROVE  x \div 2 \in DOMAIN next /\ next[x \div 2] <= d + (x % 2)
    BY DEF Settled
  <1>1. PICK y, c : y = x \div 2 /\ c = x % 2
    OBVIOUS
  <1>2. y \in DOMAIN best /\ best[y] <= d + c /\ c \in {0, 1}
    BY <1>1 DEF Settled
  <1>3. y \in DOMAIN next /\ next[y] \in Nat /\ best[y] \in Nat /\ next[y] <= best[y]
    BY <1>2 DEF Lowers
  <1>4. next[y] <= d + c
    BY <1>2, <1>3
  <1> QED
    BY <1>1, <1>3, <1>4

(* One neighbour relaxed.                                                  *)
LEMMA OfferedNext ==
    ASSUME Typed, WellPosed, pass \in {1, 2}, NEW acc, NEW n, NEW d, NEW xs,
           Expanding(acc, n, d, xs), xs \subseteq Neighbours(n), NEW x \in Neighbours(n)
    PROVE  Expanding(Offered(acc, x, d), n, d, xs \cup {x})
  <1>1. PICK best, q, found : best = acc.best /\ q = acc.queue /\ found = acc.reached
    OBVIOUS
  <1>2. PICK m, c : m = x \div 2 /\ c = x % 2
    OBVIOUS
  <1>3. /\ m \in SdgNodes /\ c \in {0, 1}
        /\ c = 0 => <<n, m>> \in Flat
        /\ c = 1 => <<n, m>> \in Onward
        /\ \A y \in Neighbours(n) : y % 2 \in {0, 1}
    BY <1>2, NeighbourFacts
  <1>4. Depths = 0..slice.max_call_depth /\ slice.max_call_depth \in Nat /\ slice.max_nodes \in Nat
    BY DEF Depths, WellPosed
  <1>5. /\ Honest(best, q, found) /\ Thorough(best, q, found, {n}) /\ n \in found /\ best[n] = d
        /\ Cardinality(found) < slice.max_nodes => Settled(best, d, xs)
        /\ pass = 2 => Ascended(best, found)
    BY <1>1 DEF Expanding
  <1>6. /\ found \in SUBSET SdgNodes /\ Cardinality(found) <= slice.max_nodes
        /\ best \in [found -> Depths] /\ slice.criterion \in found /\ best[slice.criterion] = 0
        /\ \A y \in found : y \in Family[best[y]]
        /\ q \in Seq(found \X Depths) /\ \A i \in DOMAIN q : best[q[i][1]] <= q[i][2]
    BY <1>5 DEF Honest
  <1>7. d \in Depths /\ d \in Nat /\ d + c \in Nat
    BY <1>3, <1>4, <1>5, <1>6
  <1>8. IsFiniteSet(found) /\ Cardinality(found) \in Nat
    BY <1>6, NodesAreFinite, FS_Subset, FS_CardinalityType
  <1>9. PICK k \in Nat : k = d + c
    BY <1>7
  <1>10. PICK next : next = Offered(acc, x, d)
    OBVIOUS
  <1>11. next = Relax(acc, m, k)
    BY <1>2, <1>9, <1>10 DEF Offered
  <1>12. CASE k > slice.max_call_depth \/ AlreadyBetter(best, m, k)
                 \/ (m \notin found /\ Cardinality(found) >= slice.max_nodes)
    <2>1. next = acc
      BY <1>1, <1>11, <1>12 DEF Relax
    <2>2. ASSUME Cardinality(found) < slice.max_nodes PROVE Settled(best, d, xs \cup {x})
      <3>1. k \in Depths => m \in DOMAIN best /\ best[m] <= k
        BY <1>4, <1>8, <1>12, <2>2 DEF AlreadyBetter
      <3>2. Settled(best, d, xs)
        BY <1>5, <2>2
      <3> QED
        BY <1>2, <1>9, <3>1, <3>2 DEF Settled
    <2> QED
      BY <1>1, <1>5, <1>10, <2>1, <2>2 DEF Expanding
  <1>13. CASE ~(k > slice.max_call_depth \/ AlreadyBetter(best, m, k)
                 \/ (m \notin found /\ Cardinality(found) >= slice.max_nodes))
    <2>1. PICK more : more = found \cup {m}
      OBVIOUS
    <2>2. PICK lower : lower = [y \in found \cup {m} |-> IF y = m THEN k ELSE best[y]]
      OBVIOUS
    <2>3. PICK longer : longer = Append(q, <<m, k>>)
      OBVIOUS
    <2>4. next.best = lower /\ next.queue = longer /\ next.reached = more
      <3>1. DOMAIN best = found
        BY <1>6
      <3>2. next = [best |-> [y \in DOMAIN acc.best \cup {m} |-> IF y = m THEN k ELSE acc.best[y]],
                    queue |-> Append(acc.queue, <<m, k>>),
                    reached |-> acc.reached \cup {m}]
        BY <1>1, <1>11, <1>13 DEF Relax
      <3> QED
        BY <1>1, <2>1, <2>2, <2>3, <3>1, <3>2
    <2>5. k \in Depths /\ (m \in found => best[m] \in Nat /\ k < best[m])
      BY <1>4, <1>6, <1>13 DEF AlreadyBetter
    <2>6. m # n /\ m # slice.criterion
      <3>1. m = n => k < d
        BY <1>5, <2>5
      <3>2. m = slice.criterion => k < 0
        BY <1>6, <2>5
      <3> QED
        BY <1>3, <1>7, <1>9, <3>1, <3>2
    <2>7. more \in SUBSET SdgNodes /\ Cardinality(more) <= slice.max_nodes
            /\ Cardinality(found) <= Cardinality(more) /\ Cardinality(more) \in Nat
      <3>1. m \in found => more = found
        BY <2>1
      <3>2. m \notin found => Cardinality(more) = Cardinality(found) + 1
        BY <1>8, <2>1, FS_AddElement
      <3>3. m \notin found => Cardinality(found) < slice.max_nodes
        BY <1>4, <1>8, <1>13
      <3>4. more \in SUBSET SdgNodes
        BY <1>3, <1>6, <2>1
      <3> QED
        BY <1>4, <1>6, <1>8, <3>1, <3>2, <3>3, <3>4
    <2>8. lower \in [more -> Depths] /\ lower[m] = k
            /\ \A y \in found : lower[y] \in Nat /\ lower[y] <= best[y] /\ (y # m => lower[y] = best[y])
      BY <1>4, <1>6, <2>1, <2>2, <2>5
    <2>9. m \in Family[k]
      <3>1. n \in Family[d]
        BY <1>5, <1>6
      <3>2. Admits(Family, Onward)
        BY PlacesAdmit DEF Family, Onward, Up, Down
      <3>3. CASE c = 0
        <4>1. k = d
          BY <1>7, <1>9, <3>3
        <4>2. m \in Image(Family[d], Flat)
          <5>1. <<n, m>> \in Flat
            BY <1>3, <3>3
          <5> QED
            BY <3>1, <5>1 DEF Image
        <4> QED
          BY <1>7, <3>2, <4>1, <4>2 DEF Admits
      <3>4. CASE c = 1
        <4>1. k = d + 1 /\ d + 1 \in Depths
          BY <1>7, <1>9, <2>5, <3>4
        <4>2. m \in Image(Family[d], Onward)
          <5>1. <<n, m>> \in Onward
            BY <1>3, <3>4
          <5> QED
            BY <3>1, <5>1 DEF Image
        <4> QED
          BY <1>7, <3>2, <4>1, <4>2 DEF Admits
      <3> QED
        BY <1>3, <3>3, <3>4
    <2>10. /\ longer \in Seq(more \X Depths) /\ Len(longer) = Len(q) + 1
           /\ longer[Len(q) + 1] = <<m, k>> /\ \A i \in DOMAIN q : longer[i] = q[i]
           /\ Len(q) \in Nat /\ DOMAIN q = 1..Len(q) /\ DOMAIN longer = 1..(Len(q) + 1)
           /\ \A i \in DOMAIN q : q[i][1] \in found /\ q[i][2] \in Nat
      <3>1. q \in Seq(more \X Depths)
        BY <1>6, <2>1
      <3>2. <<m, k>> \in more \X Depths
        BY <2>1, <2>5
      <3>3. \A i \in DOMAIN q : q[i] \in found \X Depths
        BY <1>6
      <3>4. \A i \in DOMAIN q : q[i][1] \in found /\ q[i][2] \in Nat
        BY <1>4, <3>3
      <3> QED
        BY <2>3, <3>1, <3>2, <3>4
    <2>11. Honest(lower, longer, more)
      <3>1. \A y \in more : y \in Family[lower[y]]
        BY <1>6, <2>1, <2>8, <2>9
      <3>2. ASSUME NEW i \in DOMAIN longer PROVE lower[longer[i][1]] <= longer[i][2]
        <4>1. CASE i \in DOMAIN q
          <5>1. PICK y \in found, e \in Nat : y = q[i][1] /\ e = q[i][2]
            BY <2>10, <4>1
          <5>2. best[y] <= e /\ best[y] \in Nat /\ lower[y] <= best[y] /\ lower[y] \in Nat
            BY <1>4, <1>6, <2>8, <4>1, <5>1
          <5>3. lower[y] <= e
            BY <5>2
          <5> QED
            BY <2>10, <4>1, <5>1, <5>3
        <4>2. CASE i = Len(q) + 1
          BY <2>8, <2>10, <4>2
        <4> QED
          BY <2>10, <4>1, <4>2
      <3>3. slice.criterion \in more /\ lower[slice.criterion] = 0
        BY <1>6, <2>1, <2>6, <2>8
      <3> QED
        BY <2>7, <2>8, <2>10, <3>1, <3>2, <3>3 DEF Honest
    <2>12. ASSUME NEW e \in Depths, NEW ys, Settled(best, e, ys), \A y \in ys : y % 2 \in {0, 1}
           PROVE  Settled(lower, e, ys)
      <3>1. \A y \in found : best[y] \in Nat
        BY <1>4, <1>6
      <3>2. Lowers(best, lower)
        BY <1>6, <2>1, <2>8, <3>1 DEF Lowers
      <3>3. e \in Nat
        BY <1>4
      <3> QED
        BY <2>12, <3>2, <3>3, SettledStays
    <2>13. ASSUME Cardinality(more) < slice.max_nodes
           PROVE  Settled(lower, d, xs \cup {x})
      <3>1. Settled(best, d, xs)
        BY <1>4, <1>5, <1>8, <2>7, <2>13
      <3>2. Settled(lower, d, xs)
        BY <1>3, <1>7, <2>12, <3>1
      <3>3. m \in DOMAIN lower /\ lower[m] <= k
        BY <2>1, <2>8
      <3> QED
        BY <1>2, <1>9, <3>2, <3>3 DEF Settled
    <2>14. Thorough(lower, longer, more, {n})
      <3> SUFFICES ASSUME Cardinality(more) < slice.max_nodes, NEW y \in more \ {n}
                   PROVE  Waits(lower, longer, y) \/ Settled(lower, lower[y], Neighbours(y))
        BY DEF Thorough
      <3>1. CASE y = m
        <4>1. Len(q) + 1 \in DOMAIN longer
          BY <2>10
        <4> QED
          BY <2>8, <2>10, <3>1, <4>1 DEF Waits
      <3>2. CASE y # m
        <4>1. y \in found \ {n} /\ lower[y] = best[y] /\ best[y] \in Depths
          BY <1>6, <2>1, <2>8, <3>2
        <4>2. Cardinality(found) < slice.max_nodes
          BY <1>4, <1>8, <2>7
        <4>3. Waits(best, q, y) \/ Settled(best, best[y], Neighbours(y))
          BY <1>5, <4>1, <4>2 DEF Thorough
        <4>4. CASE Waits(best, q, y)
          <5>1. PICK i \in DOMAIN q : q[i] = <<y, best[y]>>
            BY <4>4 DEF Waits
          <5>2. i \in DOMAIN longer /\ longer[i] = <<y, lower[y]>>
            BY <2>10, <4>1, <5>1
          <5> QED
            BY <5>2 DEF Waits
        <4>5. CASE Settled(best, best[y], Neighbours(y))
          <5>1. \A z \in Neighbours(y) : z % 2 \in {0, 1}
            BY NeighbourFacts
          <5> QED
            BY <2>12, <4>1, <4>5, <5>1
        <4> QED
          BY <4>3, <4>4, <4>5
      <3> QED
        BY <3>1, <3>2
    <2>15. n \in more /\ lower[n] = d
      BY <1>5, <2>1, <2>6, <2>8
    <2>16. ASSUME pass = 2 PROVE Ascended(lower, more)
      <3> SUFFICES ASSUME Cardinality(more) < slice.max_nodes, NEW e \in Depths, NEW y \in Ascents[e]
                   PROVE  y \in more /\ lower[y] <= e
        BY DEF Ascended
      <3>1. Cardinality(found) < slice.max_nodes
        BY <1>4, <1>8, <2>7
      <3>2. y \in found /\ best[y] <= e
        BY <1>5, <2>16, <3>1 DEF Ascended
      <3>3. y \in more
        BY <2>1, <3>2
      <3>4. best[y] \in Nat /\ e \in Nat /\ lower[y] \in Nat /\ lower[y] <= best[y]
        BY <1>4, <1>6, <2>8, <3>2
      <3>5. lower[y] <= e
        BY <3>2, <3>4
      <3> QED
        BY <3>3, <3>5
    <2> QED
      BY <1>10, <2>4, <2>11, <2>13, <2>14, <2>15, <2>16 DEF Expanding
  <1> QED
    BY <1>12, <1>13

(* All the neighbours of a node relaxed.                                   *)
LEMMA RelaxedNext ==
    ASSUME Typed, WellPosed, pass \in {1, 2}, NEW acc, NEW n, NEW d, Expanding(acc, n, d, {})
    PROVE  Expanding(Relaxed(acc, Ascending(Neighbours(n)), d), n, d, Neighbours(n))
  <1> DEFINE seq == Ascending(Neighbours(n))
             count == Cardinality(Neighbours(n))
             before(i) == {seq[j] : j \in 1..i}
  <1>1. /\ seq \in Seq(Neighbours(n)) /\ DOMAIN seq = 1..count
        /\ \A x \in Neighbours(n) : \E j \in DOMAIN seq : seq[j] = x
    BY NeighbourFacts, AscendingLists
  <1>2. count \in Nat
    BY NeighbourFacts, FS_CardinalityType
  <1> HIDE DEF seq, count
  <1>3. PICK h : /\ h[0] = acc /\ h[count] = Relaxed(acc, seq, d)
                 /\ \A i \in 1..count : h[i] = Offered(h[i - 1], seq[i], d)
    <2>1. \E h : Goes(acc, seq, d, count, h)
      BY <1>1, <1>2, RelaxedVisits
    <2> QED
      BY <2>1 DEF Goes
  <1> DEFINE G == {i \in Nat : Expanding(h[i], n, d, before(i))}
  <1>4. 0 \in G
    <2>1. before(0) = {}
      OBVIOUS
    <2> HIDE DEF before
    <2> QED
      BY <1>3, <2>1
  <1>5. ASSUME NEW i \in Nat, i < count, i \in G PROVE i + 1 \in G
    <2>1. i + 1 \in 1..count /\ i + 1 - 1 = i
      BY <1>2, <1>5
    <2>2. seq[i + 1] \in Neighbours(n) /\ \A j \in 1..i : seq[j] \in Neighbours(n)
      BY <1>1, <1>2, <1>5, <2>1
    <2>3. before(i) \subseteq Neighbours(n) /\ before(i + 1) = before(i) \cup {seq[i + 1]}
      BY <2>2
    <2>4. h[i + 1] = Offered(h[i], seq[i + 1], d)
      BY <1>3, <2>1
    <2>5. Expanding(h[i], n, d, before(i))
      BY <1>5
    <2> HIDE DEF before
    <2>6. Expanding(h[i + 1], n, d, before(i + 1))
      BY <2>2, <2>3, <2>4, <2>5, OfferedNext
    <2> QED
      BY <2>6
  <1>6. count \in G
    <2>1. count \in 0..count
      BY <1>2
    <2> HIDE DEF G
    <2> QED
      BY <1>2, <1>4, <1>5, <2>1, UpTo
  <1>7. before(count) = Neighbours(n)
    <2>1. \A j \in 1..count : seq[j] \in Neighbours(n)
      <3> SUFFICES ASSUME NEW j \in 1..count PROVE seq[j] \in Neighbours(n)
        OBVIOUS
      <3> QED
        BY <1>1, <1>2
    <2>2. \A x \in Neighbours(n) : \E j \in 1..count : seq[j] = x
      BY <1>1
    <2> QED
      BY <2>1, <2>2
  <1> HIDE DEF before
  <1> QED
    BY <1>3, <1>6, <1>7 DEF seq

(* One entry of the queue.                                                 *)
LEMMA ExpandStep ==
    ASSUME Typed, WellPosed, Honest(best_depth, queue, reached),
           Thorough(best_depth, queue, reached, {}), Expand,
           pass = 2 => Ascended(best_depth, reached)
    PROVE  /\ Honest(best_depth', queue', reached')
           /\ Thorough(best_depth', queue', reached', {})
           /\ pass = 2 => Ascended(best_depth', reached')
  <1>1. pass \in {1, 2} /\ queue # <<>>
    BY DEF Expand
  <1>2. PICK best, q, found : best = best_depth /\ q = queue /\ found = reached
    OBVIOUS
  <1>3. PICK n, d : n = Head(q)[1] /\ d = Head(q)[2]
    OBVIOUS
  <1>4. PICK start : start = [best |-> best, queue |-> Tail(q), reached |-> found]
    OBVIOUS
  <1>5. PICK end : end = IF d > best[n] THEN start ELSE Relaxed(start, Ascending(Neighbours(n)), d)
    OBVIOUS
  <1>6. best_depth' = end.best /\ queue' = end.queue /\ reached' = end.reached
    <2> DEFINE N == Head(queue)[1]
               D == Head(queue)[2]
               S == [best |-> best_depth, queue |-> Tail(queue), reached |-> reached]
               E == IF D > best_depth[N] THEN S
                    ELSE FoldLeft(LAMBDA acc, x : Relax(acc, x \div 2, D + (x % 2)), S, Ascending(Neighbours(N)))
    <2>1. best_depth' = E.best /\ queue' = E.queue /\ reached' = E.reached
      BY DEF Expand
    <2>2. E = IF D > best_depth[N] THEN S ELSE Relaxed(S, Ascending(Neighbours(N)), D)
      BY DEF Relaxed
    <2>3. N = n /\ D = d /\ S = start
      BY <1>2, <1>3, <1>4
    <2> HIDE DEF N, D, S, E
    <2>4. E = end
      BY <1>2, <1>5, <2>2, <2>3
    <2> QED
      BY <2>1, <2>4
  <1>7. /\ Honest(best, q, found) /\ Thorough(best, q, found, {})
        /\ pass = 2 => Ascended(best, found)
    BY <1>2
  <1>8. /\ found \in SUBSET SdgNodes /\ Cardinality(found) <= slice.max_nodes
        /\ best \in [found -> Depths] /\ slice.criterion \in found /\ best[slice.criterion] = 0
        /\ \A y \in found : y \in Family[best[y]]
        /\ q \in Seq(found \X Depths) /\ \A i \in DOMAIN q : best[q[i][1]] <= q[i][2]
    BY <1>7 DEF Honest
  <1>9. PICK rest : rest = Tail(q)
    OBVIOUS
  <1>10. /\ Len(q) \in Nat \ {0} /\ rest \in Seq(found \X Depths) /\ Len(rest) = Len(q) - 1
         /\ DOMAIN q = 1..Len(q) /\ DOMAIN rest = 1..Len(rest)
         /\ \A i \in 1..Len(rest) : rest[i] = q[i + 1]
         /\ q[1] = Head(q) /\ q[1] \in found \X Depths
    BY <1>1, <1>2, <1>8, <1>9
  <1>11. n \in found /\ d \in Depths /\ q[1] = <<n, d>> /\ best[n] \in Depths /\ best[n] <= d
    <2>1. n \in found /\ d \in Depths /\ q[1] = <<n, d>>
      BY <1>3, <1>10
    <2>2. 1 \in DOMAIN q
      BY <1>10
    <2> QED
      BY <1>8, <2>1, <2>2
  <1>12. Honest(best, rest, found)
    <2>1. \A i \in DOMAIN rest : best[rest[i][1]] <= rest[i][2]
      BY <1>8, <1>10
    <2> QED
      BY <1>8, <1>10, <2>1 DEF Honest
  <1>13. ASSUME NEW y \in found, Waits(best, q, y), y # n \/ d > best[n]
         PROVE  Waits(best, rest, y)
    <2>1. PICK i \in DOMAIN q : q[i] = <<y, best[y]>>
      BY <1>13 DEF Waits
    <2>2. i # 1
      <3> SUFFICES ASSUME i = 1 PROVE FALSE
        OBVIOUS
      <3>1. y = n /\ best[y] = d
        BY <1>11, <2>1
      <3>2. d \in Nat
        BY <1>11 DEF Depths, WellPosed
      <3> QED
        BY <1>13, <3>1, <3>2
    <2>3. i - 1 \in DOMAIN rest /\ rest[i - 1] = q[i]
      BY <1>10, <2>2
    <2> QED
      BY <2>1, <2>3 DEF Waits
  <1>14. CASE d > best[n]
    <2>1. end = start
      BY <1>5, <1>14
    <2>2. Thorough(best, rest, found, {})
      BY <1>7, <1>13, <1>14 DEF Thorough
    <2> QED
      BY <1>4, <1>6, <1>7, <1>9, <1>12, <2>1, <2>2
  <1>15. CASE ~(d > best[n])
    <2>1. best[n] = d /\ end = Relaxed(start, Ascending(Neighbours(n)), d)
      <3>1. best[n] \in Nat /\ d \in Nat
        BY <1>11 DEF Depths, WellPosed
      <3> QED
        BY <1>5, <1>11, <1>15, <3>1
    <2>2. Thorough(best, rest, found, {n})
      BY <1>7, <1>13 DEF Thorough
    <2>3. Settled(best, d, {})
      BY DEF Settled
    <2>4. Expanding(start, n, d, {})
      BY <1>4, <1>7, <1>9, <1>11, <1>12, <2>1, <2>2, <2>3 DEF Expanding
    <2>5. Expanding(end, n, d, Neighbours(n))
      BY <1>1, <2>1, <2>4, RelaxedNext
    <2>6. Honest(end.best, end.queue, end.reached)
      BY <2>5 DEF Expanding
    <2>7. Thorough(end.best, end.queue, end.reached, {})
      <3> SUFFICES ASSUME Cardinality(end.reached) < slice.max_nodes, NEW y \in end.reached
                   PROVE  \/ Waits(end.best, end.queue, y)
                          \/ Settled(end.best, end.best[y], Neighbours(y))
        BY DEF Thorough
      <3> QED
        BY <2>5 DEF Expanding, Thorough
    <2>8. pass = 2 => Ascended(end.best, end.reached)
      BY <2>5 DEF Expanding
    <2> QED
      BY <1>6, <2>6, <2>7, <2>8
  <1> QED
    BY <1>14, <1>15

\* The nodes found with at most k calls crossed.
FoundWithin(best, found) == [k \in Depths |-> {n \in found : best[n] <= k}]

(* With the queue empty, what was found is closed as the pass is.          *)
LEMMA FoundAdmits ==
    ASSUME Typed, WellPosed, NEW best, NEW found,
           Honest(best, <<>>, found), Thorough(best, <<>>, found, {}),
           Cardinality(found) < slice.max_nodes
    PROVE  FoundWithin(best, found) \in Families /\ Admits(FoundWithin(best, found), Onward)
  <1>1. found \in SUBSET SdgNodes /\ best \in [found -> Depths]
    BY DEF Honest
  <1>2. Depths = 0..slice.max_call_depth /\ slice.max_call_depth \in Nat
    BY DEF Depths, WellPosed
  <1>3. PICK A \in Families : A = FoundWithin(best, found)
    BY <1>1 DEF FoundWithin, Families
  <1>4. ASSUME NEW k \in Depths, NEW n
        PROVE  n \in A[k] <=> n \in found /\ best[n] <= k
    BY <1>3 DEF FoundWithin
  <1>5. ASSUME NEW n \in found, NEW x \in Neighbours(n), best[n] + (x % 2) \in Depths
        PROVE  x \div 2 \in found /\ best[x \div 2] <= best[n] + (x % 2)
    <2>1. ~Waits(best, <<>>, n)
      BY DEF Waits
    <2>2. Settled(best, best[n], Neighbours(n))
      BY <2>1 DEF Thorough
    <2> QED
      BY <1>1, <1>5, <2>2 DEF Settled
  <1>6. ASSUME NEW k \in Depths, NEW e \in Flat, e[1] \in A[k]
        PROVE  e[2] \in A[k]
    <2>1. PICK n, m : n = e[1] /\ m = e[2]
      OBVIOUS
    <2>2. <<n, m>> \in Flat
      BY <2>1, TurnedFit
    <2>3. n \in found /\ best[n] <= k /\ best[n] \in Depths
      BY <1>1, <1>4, <1>6, <2>1
    <2>4. PICK x \in Neighbours(n) : x \div 2 = m /\ x % 2 = 0
      BY <2>2, NeighbourFacts
    <2>5. best[n] + 0 = best[n]
      BY <1>2, <2>3
    <2>6. m \in found /\ best[m] <= best[n]
      BY <1>5, <2>3, <2>4, <2>5
    <2>7. best[m] \in Depths
      BY <1>1, <2>6
    <2>8. best[m] <= k
      BY <1>2, <2>3, <2>6, <2>7
    <2> QED
      BY <1>4, <2>1, <2>6, <2>8
  <1>7. ASSUME NEW k \in Depths, k + 1 \in Depths, NEW e \in Onward, e[1] \in A[k]
        PROVE  e[2] \in A[k + 1]
    <2>1. PICK n, m : n = e[1] /\ m = e[2]
      OBVIOUS
    <2>2. <<n, m>> \in Onward
      BY <2>1, TurnedFit
    <2>3. n \in found /\ best[n] <= k /\ best[n] \in Depths
      BY <1>1, <1>4, <1>7, <2>1
    <2>4. PICK x \in Neighbours(n) : x \div 2 = m /\ x % 2 = 1
      BY <2>2, NeighbourFacts
    <2>5. best[n] + 1 \in Depths
      BY <1>2, <1>7, <2>3
    <2>6. m \in found /\ best[m] <= best[n] + 1
      BY <1>5, <2>3, <2>4, <2>5
    <2>7. best[m] \in Depths
      BY <1>1, <2>6
    <2>8. best[m] <= k + 1
      BY <1>2, <2>3, <2>6, <2>7
    <2> QED
      BY <1>4, <1>7, <2>1, <2>6, <2>8
  <1>8. ASSUME NEW k \in Depths, k + 1 \in Depths, NEW n \in A[k]
        PROVE  n \in A[k + 1]
    <2>1. n \in found /\ best[n] <= k /\ best[n] \in Depths
      BY <1>1, <1>4
    <2>2. best[n] <= k + 1
      BY <1>2, <2>1
    <2> QED
      BY <1>4, <1>8, <2>1, <2>2
  <1>9. Admits(A, Onward)
    BY <1>6, <1>7, <1>8 DEF Admits, Image
  <1> QED
    BY <1>3, <1>9

(* The first pass has found what ascends.                                  *)
LEMMA FirstPassEnds ==
    ASSUME Typed, WellPosed, pass = 1, NEW best, NEW found,
           Honest(best, <<>>, found), Thorough(best, <<>>, found, {})
    PROVE  Ascended(best, found)
  <1> SUFFICES ASSUME Cardinality(found) < slice.max_nodes, NEW k \in Depths, NEW n \in Ascents[k]
               PROVE  n \in found /\ best[n] <= k
    BY DEF Ascended
  <1>1. PICK A \in Families : A = FoundWithin(best, found) /\ Admits(A, Onward)
    BY FoundAdmits
  <1>2. Onward = Up
    BY DEF Onward, Up
  <1>3. slice.criterion \in A[0]
    <2>1. slice.criterion \in found /\ best[slice.criterion] = 0
      BY DEF Honest
    <2>2. 0 \in Depths
      BY DEF Depths, WellPosed
    <2> QED
      BY <1>1, <2>1, <2>2 DEF FoundWithin
  <1>4. n \in A[k]
    BY <1>1, <1>2, <1>3, AscentsAreLeast
  <1> QED
    BY <1>1, <1>4 DEF FoundWithin

\* The result, whole or cut at the cap.
Exactly(found) ==
    /\ found \subseteq Descents[slice.max_call_depth]
    /\ Cardinality(found) <= slice.max_nodes
    /\ Cardinality(found) < slice.max_nodes => found = Descents[slice.max_call_depth]

(* The second pass has found the slice, unless the cap has cut it.         *)
LEMMA SecondPassEnds ==
    ASSUME Typed, WellPosed, pass = 2, NEW best, NEW found,
           Honest(best, <<>>, found), Thorough(best, <<>>, found, {}), Ascended(best, found)
    PROVE  Exactly(found)
  <1> DEFINE max == slice.max_call_depth
  <1>1. found \in SUBSET SdgNodes /\ best \in [found -> Depths] /\ Cardinality(found) <= slice.max_nodes
        /\ \A n \in found : n \in Descents[best[n]]
    BY DEF Honest, Family
  <1>2. Depths = 0..max /\ max \in Nat /\ max \in Depths
    BY DEF Depths, WellPosed
  <1> HIDE DEF max
  <1>3. found \subseteq Descents[max]
    <2> SUFFICES ASSUME NEW n \in found PROVE n \in Descents[max]
      OBVIOUS
    <2>1. best[n] \in Depths /\ best[n] <= max
      BY <1>1, <1>2
    <2>2. Descents[best[n]] \subseteq Descents[max]
      BY <1>2, <2>1, PlacesAdmit, PlacesGrow
    <2> QED
      BY <1>1, <2>2
  <1>4. ASSUME Cardinality(found) < slice.max_nodes
        PROVE  Descents[max] \subseteq found
    <2>1. PICK A \in Families : A = FoundWithin(best, found) /\ Admits(A, Onward)
      BY <1>4, FoundAdmits
    <2>2. Onward = Down
      BY DEF Onward, Down
    <2>3. \A k \in Depths : Ascents[k] \subseteq A[k]
      BY <1>4, <2>1 DEF FoundWithin, Ascended
    <2>4. Descents[max] \subseteq A[max]
      BY <1>2, <2>1, <2>2, <2>3, DescentsAreLeast
    <2>5. A[max] \subseteq found
      BY <1>2, <2>1 DEF FoundWithin
    <2> QED
      BY <2>4, <2>5
  <1> QED
    BY <1>1, <1>3, <1>4 DEF Exactly, max

-------------------------------------------------------------------------------
(* The invariant of the slices *)

\* A search is honest and thorough; the second starts from all that ascends.
SliceInv ==
    /\ phase # "call_graph" => job \in JobsFor(program)
    /\ pass \in {0, 1, 2, 3}
    /\ pass # 0 => phase = "done" /\ WellPosed
    /\ pass \in {1, 2} => /\ Honest(best_depth, queue, reached)
                          /\ Thorough(best_depth, queue, reached, {})
    /\ pass = 2 => Ascended(best_depth, reached)
    /\ pass = 3 => Exactly(reached)

(* The places depend on the program and on what was asked alone.           *)
LEMMA PlacesStay ==
    ASSUME program' = program, slice' = slice, summary_edges' = summary_edges
    PROVE  /\ SdgNodes' = SdgNodes /\ Depths' = Depths /\ Ascents' = Ascents /\ Descents' = Descents
           /\ (WellPosed' <=> WellPosed) /\ (Typed' <=> Typed)
           /\ Dependences' = Dependences
           /\ \A direction, number : Crossing(direction, number)' = Crossing(direction, number)
  <1>1. SdgNodes' = SdgNodes /\ Depths' = Depths /\ (Typed' <=> Typed)
    BY DEF SdgNodes, Depths, Callables, Typed
  <1>2. CallEdges' = CallEdges
    BY DEF CallEdges, Callables
  <1>3. ParameterInEdges' = ParameterInEdges /\ ReturnValueEdges' = ReturnValueEdges
    BY <1>2 DEF ParameterInEdges, ReturnValueEdges
  <1>4. Dependences' = Dependences
    BY DEF Dependences, Callables
  <1>5. \A direction, number : Crossing(direction, number)' = Crossing(direction, number)
    BY <1>3 DEF Crossing
  <1>6. Flat' = Flat /\ Up' = Up /\ Down' = Down
    BY <1>4, <1>5 DEF Flat, Up, Down, Turned
  <1>7. WellPosed' <=> WellPosed
    BY <1>1 DEF WellPosed
  <1>8. Families' = Families
    BY <1>1 DEF Families
  <1>9. \A A : (Admits(A, Up)' <=> Admits(A, Up)) /\ (Admits(A, Down)' <=> Admits(A, Down))
    BY <1>1, <1>6 DEF Admits
  <1>10. Ascents' = Ascents
    BY <1>1, <1>8, <1>9 DEF Ascents
  <1>11. Descents' = Descents
    BY <1>1, <1>8, <1>9, <1>10 DEF Descents
  <1> QED
    BY <1>1, <1>4, <1>5, <1>7, <1>10, <1>11

(* So does what is said of a search, which the pass decides as well.       *)
LEMMA SearchStays ==
    ASSUME program' = program, slice' = slice, summary_edges' = summary_edges, pass' = pass
    PROVE  /\ Honest(best_depth, queue, reached)' <=> Honest(best_depth', queue', reached')
           /\ Thorough(best_depth, queue, reached, {})' <=> Thorough(best_depth', queue', reached', {})
           /\ Ascended(best_depth, reached)' <=> Ascended(best_depth', reached')
           /\ Exactly(reached)' <=> Exactly(reached')
  <1>1. /\ SdgNodes' = SdgNodes /\ Depths' = Depths /\ Ascents' = Ascents /\ Descents' = Descents
        /\ Dependences' = Dependences
        /\ \A direction, number : Crossing(direction, number)' = Crossing(direction, number)
    BY PlacesStay
  <1>2. Family' = Family
    BY <1>1 DEF Family
  <1>3. \A n : Neighbours(n)' = Neighbours(n)
    BY <1>1 DEF Neighbours
  <1>4. \A best, d, xs : Settled(best, d, xs)' <=> Settled(best, d, xs)
    BY <1>1 DEF Settled
  <1>5. Honest(best_depth, queue, reached)' <=> Honest(best_depth', queue', reached')
    BY <1>1, <1>2 DEF Honest
  <1>6. Thorough(best_depth, queue, reached, {})' <=> Thorough(best_depth', queue', reached', {})
    BY <1>1, <1>3 DEF Thorough, Waits, Settled
  <1>7. Ascended(best_depth, reached)' <=> Ascended(best_depth', reached')
    BY <1>1 DEF Ascended
  <1>8. Exactly(reached)' <=> Exactly(reached')
    BY <1>1 DEF Exactly
  <1> QED
    BY <1>5, <1>6, <1>7, <1>8

(* The solver is done for good.                                            *)
LEMMA NothingAfter ==
    ASSUME Next
    PROVE  phase # "done" /\ (phase' # "call_graph" => \/ Solve
                                                       \/ /\ phase # "call_graph"
                                                          /\ job' = job /\ program' = program)
  <1>1. CASE Decompose
    BY <1>1 DEF Decompose
  <1>2. CASE Edit
    BY <1>2 DEF Edit
  <1>3. CASE Solve
    BY <1>3 DEF Solve
  <1>4. CASE SolverNext
    BY <1>4 DEF SolverNext, OutOfWork, OrderNext, CollectSeeds, Evaluate, NoRounds, EndRound, Return,
                input
  <1> QED
    BY <1>1, <1>2, <1>3, <1>4 DEF Next

(* A slice starts at its criterion.                                        *)
LEMMA SliceStarts ==
    Typed /\ WellPosed /\ pass = 1 /\ reached = {slice.criterion}
        /\ best_depth = [n \in {slice.criterion} |-> 0] /\ queue = << <<slice.criterion, 0>> >>
    => Honest(best_depth, queue, reached) /\ Thorough(best_depth, queue, reached, {})
  <1> SUFFICES ASSUME Typed, WellPosed, pass = 1, reached = {slice.criterion},
                      best_depth = [n \in {slice.criterion} |-> 0],
                      queue = << <<slice.criterion, 0>> >>
               PROVE  Honest(best_depth, queue, reached) /\ Thorough(best_depth, queue, reached, {})
    OBVIOUS
  <1>1. PICK c : c = slice.criterion
    OBVIOUS
  <1>2. c \in SdgNodes /\ 0 \in Depths /\ slice.max_nodes \in Nat \ {0}
    BY <1>1 DEF WellPosed, Depths
  <1>3. Cardinality({c}) = 1 /\ Cardinality({c}) <= slice.max_nodes
    BY <1>2, FS_Singleton
  <1>4. c \in Family[0]
    BY <1>1, PlacesAdmit DEF Family
  <1>5. DOMAIN queue = {1} /\ queue[1] = <<c, 0>> /\ queue \in Seq({c} \X Depths)
    BY <1>1, <1>2
  <1>6. Honest(best_depth, queue, reached)
    BY <1>1, <1>2, <1>3, <1>4, <1>5 DEF Honest
  <1>7. Thorough(best_depth, queue, reached, {})
    BY <1>1, <1>5 DEF Thorough, Waits
  <1> QED
    BY <1>6, <1>7

(* A slice begins.                                                         *)
LEMMA BeginSliceStep ==
    ASSUME Typed, \E prog \in Programs : program \in {prog} \cup Rewrites(prog), SliceInv, BeginSlice
    PROVE  SliceInv'
  <1>1. /\ phase = "done" /\ slice' \in job.slices /\ summary_edges' = SummaryEdges(summaries)
        /\ pass' = 1 /\ best_depth' = [n \in {slice'.criterion} |-> 0]
        /\ queue' = << <<slice'.criterion, 0>> >> /\ reached' = {slice'.criterion}
        /\ UNCHANGED vars
    BY DEF BeginSlice
  <1>2. program' = program /\ phase' = phase /\ job' = job
    BY <1>1 DEF vars, input
  <1>3. job \in JobsFor(program)
    BY <1>1 DEF SliceInv
  <1>4. job.slices \subseteq [criterion: {Name(f, n) : f \in DOMAIN program, n \in LocalNames},
                              direction: {"Incoming", "Outgoing"},
                              max_call_depth: Nat, max_nodes: Nat \ {0}]
    BY <1>3, SliceAssumption
  <1>5. {Name(f, n) : f \in DOMAIN program, n \in LocalNames} \subseteq SdgNodes
    BY DEF SdgNodes, Callables
  <1>6. SummaryEdges(summaries) \subseteq SdgNodes \X SdgNodes
    BY EdgesFit
  <1>7. SdgNodes' = SdgNodes /\ Typed'
    BY <1>2 DEF SdgNodes, Callables, Typed
  <1>8. WellPosed'
    BY <1>1, <1>4, <1>5, <1>6, <1>7 DEF WellPosed
  <1>9. Honest(best_depth, queue, reached)' /\ Thorough(best_depth, queue, reached, {})'
    <2>1. (Typed /\ WellPosed /\ pass = 1 /\ reached = {slice.criterion}
              /\ best_depth = [n \in {slice.criterion} |-> 0] /\ queue = << <<slice.criterion, 0>> >>
           => Honest(best_depth, queue, reached) /\ Thorough(best_depth, queue, reached, {}))'
      BY SliceStarts, PTL
    <2> QED
      BY <1>1, <1>7, <1>8, <2>1
  <1> QED
    BY <1>1, <1>2, <1>3, <1>8, <1>9 DEF SliceInv

(* The second pass begins, from all that the first has found.              *)
LEMMA SecondPassStep ==
    ASSUME Typed, SliceInv, SecondPass
    PROVE  SliceInv'
  <1>1. /\ pass = 1 /\ queue = <<>> /\ pass' = 2 /\ UNCHANGED vars
        /\ summary_edges' = summary_edges /\ slice' = slice
        /\ best_depth' = best_depth /\ reached' = reached
    BY DEF SecondPass
  <1>2. program' = program /\ phase' = phase /\ job' = job
    BY <1>1 DEF vars, input
  <1>3. /\ WellPosed /\ phase = "done" /\ job \in JobsFor(program)
        /\ Honest(best_depth, <<>>, reached) /\ Thorough(best_depth, <<>>, reached, {})
    BY <1>1 DEF SliceInv
  <1>4. /\ SdgNodes' = SdgNodes /\ Depths' = Depths /\ Ascents' = Ascents /\ Descents' = Descents
        /\ (WellPosed' <=> WellPosed)
    BY <1>1, <1>2, PlacesStay
  <1>5. PICK best, found, q : best = best_depth /\ found = reached /\ q = queue'
    OBVIOUS
  <1>6. /\ found \in SUBSET SdgNodes /\ Cardinality(found) <= slice.max_nodes
        /\ best \in [found -> Depths] /\ slice.criterion \in found /\ best[slice.criterion] = 0
        /\ \A n \in found : n \in Ascents[best[n]]
    BY <1>1, <1>3, <1>5 DEF Honest, Family
  <1>7. IsFiniteSet(found) /\ found \in SUBSET Nat
    BY <1>6, NodesAreFinite, FS_Subset
  <1> DEFINE list == Ascending(found)
  <1>8. /\ list \in Seq(found) /\ \A x \in found : \E j \in DOMAIN list : list[j] = x
    BY <1>7, AscendingLists
  <1>9. q = [i \in DOMAIN list |-> <<list[i], best[list[i]]>>]
    <2>1. DOMAIN best_depth = found
      BY <1>5, <1>6
    <2> QED
      BY <1>5, <2>1 DEF SecondPass
  <1> HIDE DEF list
  <1>10. \A i \in DOMAIN list : list[i] \in found
    BY <1>8
  <1>11. Ascended(best, found)
    BY <1>1, <1>3, <1>5, FirstPassEnds
  <1>12. Family' = Descents /\ \A n \in found : n \in Descents[best[n]]
    <2>1. \A k \in Depths : Ascents[k] \subseteq Descents[k]
      BY <1>3, PlacesAdmit
    <2>2. Family' = Descents
      BY <1>1, <1>4 DEF Family
    <2> QED
      BY <1>6, <2>1, <2>2
  <1>13. /\ q \in Seq(found \X Depths) /\ DOMAIN q = DOMAIN list
         /\ \A i \in DOMAIN q : q[i] = <<list[i], best[list[i]]>>
    <2>1. list \in Seq(found) /\ Len(list) \in Nat /\ DOMAIN list = 1..Len(list)
      BY <1>8
    <2>2. DOMAIN q = 1..Len(list) /\ \A i \in DOMAIN q : q[i] = <<list[i], best[list[i]]>>
      BY <1>9, <2>1
    <2>3. \A i \in 1..Len(list) : list[i] \in found /\ best[list[i]] \in Depths
      BY <1>6, <1>10, <2>1
    <2>4. \A i \in 1..Len(list) : q[i] \in found \X Depths
      <3> SUFFICES ASSUME NEW i \in 1..Len(list) PROVE q[i] \in found \X Depths
        OBVIOUS
      <3>1. q[i] = <<list[i], best[list[i]]>>
        BY <2>2
      <3>2. list[i] \in found /\ best[list[i]] \in Depths
        BY <2>3
      <3> QED
        BY <3>1, <3>2
    <2>5. q = [i \in 1..Len(list) |-> q[i]]
      BY <1>9, <2>1
    <2>6. q \in Seq(found \X Depths)
      BY <2>1, <2>4, <2>5
    <2> QED
      BY <2>1, <2>2, <2>6
  <1>14. Honest(best_depth, queue, reached)'
    <2>1. ASSUME NEW i \in DOMAIN q PROVE best[q[i][1]] <= q[i][2]
      <3>1. PICK n \in found : n = list[i]
        BY <1>10, <1>13
      <3>2. q[i] = <<n, best[n]>> /\ best[n] \in Nat
        BY <1>3, <1>6, <1>13, <3>1 DEF Depths, WellPosed
      <3> QED
        BY <3>2
    <2> QED
      BY <1>1, <1>4, <1>5, <1>6, <1>12, <1>13, <2>1 DEF Honest
  <1>15. Thorough(best_depth, queue, reached, {})'
    <2>1. \A n \in found : Waits(best, q, n)
      BY <1>8, <1>13 DEF Waits
    <2> QED
      BY <1>1, <1>5, <2>1 DEF Thorough, Waits
  <1>16. Ascended(best_depth, reached)'
    BY <1>1, <1>4, <1>5, <1>11 DEF Ascended
  <1> QED
    BY <1>1, <1>2, <1>3, <1>4, <1>14, <1>15, <1>16 DEF SliceInv

(* Nothing about a slice changes.                                          *)
LEMMA SliceRests ==
    ASSUME SliceInv, UNCHANGED allVars
    PROVE  SliceInv'
  <1>1. /\ program' = program /\ slice' = slice /\ summary_edges' = summary_edges /\ pass' = pass
        /\ phase' = phase /\ job' = job /\ best_depth' = best_depth /\ queue' = queue /\ reached' = reached
    BY DEF allVars, vars, input, sliceVars
  <1>2. WellPosed' <=> WellPosed
    BY <1>1, PlacesStay
  <1>3. /\ Honest(best_depth, queue, reached)' <=> Honest(best_depth, queue, reached)
        /\ Thorough(best_depth, queue, reached, {})' <=> Thorough(best_depth, queue, reached, {})
        /\ Ascended(best_depth, reached)' <=> Ascended(best_depth, reached)
        /\ Exactly(reached)' <=> Exactly(reached)
    BY <1>1, SearchStays
  <1> QED
    BY <1>1, <1>2, <1>3 DEF SliceInv

(* No step breaks the invariant of the slices.                             *)
LEMMA SliceStep ==
    ASSUME SolverInv, RunInv, SliceInv, [SliceNext]_allVars
    PROVE  SliceInv'
  <1>1. Typed /\ \E prog \in Programs : program \in {prog} \cup Rewrites(prog)
    BY DEF SolverInv, RunInv
  <1>2. CASE Summarise
    <2>1. Next /\ pass' = pass
      BY <1>2 DEF Summarise, sliceVars
    <2>2. phase # "done"
      BY <2>1, NothingAfter
    <2>3. pass = 0
      BY <2>2 DEF SliceInv
    <2>4. phase' # "call_graph" => job' \in JobsFor(program')
      BY <2>1, NothingAfter DEF SliceInv, Solve
    <2> QED
      BY <2>1, <2>3, <2>4 DEF SliceInv
  <1>3. CASE BeginSlice
    BY <1>1, <1>3, BeginSliceStep
  <1>4. CASE Expand
    <2>1. /\ pass \in {1, 2} /\ UNCHANGED <<vars, summary_edges, slice, pass>>
      BY <1>4 DEF Expand
    <2>2. program' = program /\ phase' = phase /\ job' = job
      BY <2>1 DEF vars, input
    <2>3. /\ phase = "done" /\ WellPosed /\ job \in JobsFor(program)
          /\ Honest(best_depth, queue, reached) /\ Thorough(best_depth, queue, reached, {})
          /\ pass = 2 => Ascended(best_depth, reached)
      BY <2>1 DEF SliceInv
    <2>4. /\ Honest(best_depth', queue', reached') /\ Thorough(best_depth', queue', reached', {})
          /\ pass = 2 => Ascended(best_depth', reached')
      BY <1>1, <1>4, <2>3, ExpandStep
    <2>6. WellPosed'
      BY <2>1, <2>2, <2>3, PlacesStay
    <2>7. /\ Honest(best_depth, queue, reached)' /\ Thorough(best_depth, queue, reached, {})'
          /\ pass = 2 => Ascended(best_depth, reached)'
      BY <2>1, <2>2, <2>4, SearchStays
    <2> QED
      BY <2>1, <2>2, <2>3, <2>6, <2>7 DEF SliceInv
  <1>5. CASE SecondPass
    BY <1>1, <1>5, SecondPassStep
  <1>6. CASE EndSlice
    <2>1. /\ pass = 2 /\ queue = <<>> /\ pass' = 3 /\ UNCHANGED vars
          /\ summary_edges' = summary_edges /\ slice' = slice /\ reached' = reached
      BY <1>6 DEF EndSlice
    <2>2. program' = program /\ phase' = phase /\ job' = job
      BY <2>1 DEF vars, input
    <2>3. /\ phase = "done" /\ WellPosed /\ job \in JobsFor(program)
          /\ Honest(best_depth, <<>>, reached) /\ Thorough(best_depth, <<>>, reached, {})
          /\ Ascended(best_depth, reached)
      BY <2>1 DEF SliceInv
    <2>4. Exactly(reached)
      BY <1>1, <2>1, <2>3, SecondPassEnds
    <2>5. Descents' = Descents /\ WellPosed'
      BY <2>1, <2>2, <2>3, PlacesStay
    <2>6. Exactly(reached)'
      BY <2>1, <2>4, <2>5 DEF Exactly
    <2> QED
      BY <2>1, <2>2, <2>3, <2>5, <2>6 DEF SliceInv
  <1>7. CASE UNCHANGED allVars
    BY <1>7, SliceRests
  <1> QED
    BY <1>2, <1>3, <1>4, <1>5, <1>6, <1>7 DEF SliceNext

(* A session that slices is one of the solver.                             *)
LEMMA SlicesRefine == SliceSpec => Spec
  <1>1. InitSlices => Init
    BY DEF InitSlices
  <1>2. [SliceNext]_allVars => [Next]_vars
    BY DEF SliceNext, Summarise, BeginSlice, Expand, SecondPass, EndSlice, allVars
  <1> QED
    BY <1>1, <1>2, PTL DEF SliceSpec, Spec

(* Every search stays honest and thorough, and its second pass starts from *)
(* all that the first had to find, for slices of any depth and size.       *)
THEOREM SliceInvHolds == SliceSpec => []SliceInv
  <1>1. InitSlices => SliceInv
    BY DEF InitSlices, Init, NothingSolved, NothingSliced, SliceInv
  <1>2. SolverInv /\ RunInv /\ SliceInv /\ [SliceNext]_allVars => SliceInv'
    BY SliceStep
  <1>3. SliceSpec => []SolverInv /\ []RunInv
    BY SlicesRefine, SolverInvHolds, RunInvHolds, PTL
  <1> QED
    BY <1>1, <1>2, <1>3, PTL DEF SliceSpec

(* SliceIsExact: for programs of any size, and slices in either direction  *)
(* to any depth and size, the slice is what two passes can reach, or as    *)
(* large a part of it as was asked for.                                    *)
THEOREM SlicesStayExact == SliceSpec => []SliceIsExact
  <1>1. ASSUME SolverInv, SliceInv PROVE SliceIsExact
    <2> SUFFICES ASSUME pass = 3 PROVE SliceIsExact
      BY DEF SliceIsExact
    <2>1. Typed /\ WellPosed /\ Exactly(reached)
      BY <1>1 DEF SolverInv, SliceInv
    <2>2. TwoPasses = Descents[slice.max_call_depth]
      BY <2>1, TwoPassesAreDescents
    <2> QED
      BY <2>1, <2>2 DEF SliceIsExact, Exactly
  <1>2. SliceSpec => []SolverInv
    BY SlicesRefine, SolverInvHolds, PTL
  <1>3. SolverInv /\ SliceInv => SliceIsExact
    BY <1>1
  <1> QED
    BY <1>2, <1>3, SliceInvHolds, PTL

===============================================================================
