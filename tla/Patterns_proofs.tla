--------------------------- MODULE Patterns_proofs ---------------------------
(***************************************************************************)
(* The two searches of the pattern matcher.                                *)
(*                                                                         *)
(* Vf2Matcher::find_matches_limited, for all graphs, kinds and limits: the *)
(* fringe is exact after every mixture of pushes and pops, and the search  *)
(* emits every embedding once, as many as the cap lets it.                 *)
(*                                                                         *)
(* The Hungarian algorithm of ged_upper_bound and ged_alignment, for graphs *)
(* of any size and all costs: the potentials stay below the matrix and     *)
(* meet it at every placed row, so the assignment is an optimal one.       *)
(***************************************************************************)
EXTENDS Vf2Matcher, GraphEdits, Integers, FiniteSetTheorems, SequenceTheorems,
        WellFoundedInduction, TLAPS

-------------------------------------------------------------------------------
(* Sets and sequences *)

(* A set of naturals that is not empty has a least member.                 *)
LEMMA LeastOfNaturals ==
    ASSUME NEW S \in SUBSET Nat, S # {}
    PROVE  Min(S) \in S /\ \A x \in S : Min(S) <= x
  <1>1. PICK x \in S : \A y \in S : ~(<<y, x>> \in OpToRel(<, Nat))
    BY NatLessThanWellFounded, WFMin
  <1>2. \A y \in S : ~(y < x)
    BY <1>1 DEF OpToRel
  <1>3. \A y \in S : x =< y
    BY <1>2
  <1> QED
    BY <1>3 DEF Min

(* Taking the last element off again gives back the sequence.              *)
LEMMA AppendIsUndone ==
    ASSUME NEW S, NEW q \in Seq(S), NEW x \in S
    PROVE  /\ Append(q, x) \in Seq(S)
           /\ Last(Append(q, x)) = x /\ Front(Append(q, x)) = q
  BY DEF Last, Front

-------------------------------------------------------------------------------
(* One side of the state *)

GraphValue(g) ==
    /\ g.kinds \in Seq(ToSet(g.kinds))
    /\ \A e \in g.edges : e.source \in NodesOf(g) /\ e.target \in NodesOf(g)

Adjacent(g, n) == Successors(g, n) \cup Predecessors(g, n)

SideValues(g) ==
    [mapping: [NodesOf(g) -> Nat], terminal: SUBSET NodesOf(g), count: [NodesOf(g) -> Nat]]

(* A node is on the fringe as long as something gives it a reason to be,   *)
(* and that is so exactly when it has a mapped neighbour.                  *)
SideFine(g, side) ==
    /\ side \in SideValues(g)
    /\ side.terminal = {n \in Unmapped(side) : side.count[n] > 0}
    /\ \A n \in Unmapped(side) :
          side.count[n] > 0 <=> \E m \in NodesOf(g) \ Unmapped(side) : m \in Adjacent(g, n)

(* Adjacency does not depend on the direction of the edges.                *)
LEMMA AdjacentIsSymmetric ==
    ASSUME NEW g, GraphValue(g), NEW n, NEW m \in Adjacent(g, n)
    PROVE  n \in Adjacent(g, m) /\ m \in NodesOf(g)
  BY DEF Adjacent, Successors, Predecessors, EdgesFrom, EdgesTo, GraphValue

(* What is written when a node gets its image.                             *)
IsExtended(g, side, node, image, delta, after) ==
    /\ after \in SideValues(g)
    /\ after.mapping = [side.mapping EXCEPT ![node] = image]
    /\ after.terminal = (side.terminal \ {node}) \cup {n \in delta : side.count[n] = 0}
    /\ \A n \in NodesOf(g) : after.count[n] = side.count[n] + IF n \in delta THEN 1 ELSE 0
    /\ Unmapped(after) = Unmapped(side) \ {node}

(* That is what push_mapping writes.                                      *)
LEMMA ExtendedFields ==
    ASSUME NEW g, GraphValue(g), NEW side, SideFine(g, side),
           NEW node \in Unmapped(side), NEW image \in Nat \ {0}
    PROVE  IsExtended(g, side, node, image, Delta(g, side, node), Extended(g, side, node, image))
  <1> DEFINE after == Extended(g, side, node, image)
             delta == Delta(g, side, node)
             count == [n \in NodesOf(g) |-> side.count[n] + IF n \in delta THEN 1 ELSE 0]
             mapping == [side.mapping EXCEPT ![node] = image]
             terminal == (side.terminal \ {node}) \cup {n \in delta : side.count[n] = 0}
  <1>1. /\ side.mapping \in [NodesOf(g) -> Nat] /\ side.count \in [NodesOf(g) -> Nat]
        /\ side.terminal \in SUBSET NodesOf(g)
    BY DEF SideFine, SideValues
  <1>2. node \in NodesOf(g) /\ side.mapping[node] = UNMAPPED
    BY <1>1 DEF Unmapped
  <1>3. delta \in SUBSET NodesOf(g)
    BY AdjacentIsSymmetric DEF Delta, Adjacent
  <1>4. after = [mapping |-> mapping, terminal |-> terminal, count |-> count]
    BY <1>1 DEF Extended
  <1> HIDE DEF delta
  <1>5. mapping \in [NodesOf(g) -> Nat] /\ count \in [NodesOf(g) -> Nat] /\ terminal \in SUBSET NodesOf(g)
    BY <1>1, <1>2, <1>3
  <1> HIDE DEF after, mapping, terminal, count
  <1>6. /\ after \in SideValues(g)
        /\ after.mapping = mapping /\ after.terminal = terminal /\ after.count = count
    BY <1>4, <1>5 DEF SideValues
  <1>7. \A n \in NodesOf(g) : mapping[n] = IF n = node THEN image ELSE side.mapping[n]
    BY <1>1, <1>2 DEF mapping
  <1>8. Unmapped(after) = Unmapped(side) \ {node}
    BY <1>1, <1>5, <1>6, <1>7 DEF Unmapped, UNMAPPED
  <1>9. \A n \in NodesOf(g) : after.count[n] = side.count[n] + IF n \in delta THEN 1 ELSE 0
    BY <1>6 DEF count
  <1> QED
    BY <1>6, <1>8, <1>9 DEF IsExtended, after, delta, mapping, terminal

(* The fringe of the larger mapping.                                       *)
LEMMA ExtendedIsFine ==
    ASSUME NEW g, GraphValue(g), NEW side, SideFine(g, side),
           NEW node \in Unmapped(side), NEW image \in Nat \ {0}
    PROVE  SideFine(g, Extended(g, side, node, image))
  <1> DEFINE after == Extended(g, side, node, image)
             delta == Delta(g, side, node)
  <1>0. IsExtended(g, side, node, image, delta, after)
    BY ExtendedFields
  <1>1. /\ after \in SideValues(g)
        /\ after.terminal = (side.terminal \ {node}) \cup {n \in delta : side.count[n] = 0}
        /\ \A n \in NodesOf(g) : after.count[n] = side.count[n] + IF n \in delta THEN 1 ELSE 0
    BY <1>0 DEF IsExtended
  <1>7. Unmapped(after) = Unmapped(side) \ {node}
    BY <1>0 DEF IsExtended
  <1>2. /\ side.mapping \in [NodesOf(g) -> Nat] /\ side.count \in [NodesOf(g) -> Nat]
        /\ node \in NodesOf(g) /\ Unmapped(side) \in SUBSET NodesOf(g)
    BY DEF SideFine, SideValues, Unmapped
  <1>3. /\ \A n \in delta : n \in Unmapped(side) /\ n # node /\ n \in Adjacent(g, node)
        /\ \A n \in Unmapped(side) \ {node} : n \in Adjacent(g, node) => n \in delta
    <2>1. Unmapped(side) = {n \in NodesOf(g) : side.mapping[n] = UNMAPPED}
      BY <1>2 DEF Unmapped
    <2>2. \A n \in delta : n \in NodesOf(g)
      BY AdjacentIsSymmetric DEF Delta, Adjacent
    <2> QED
      BY <2>1, <2>2 DEF Delta, Adjacent
  <1>4. /\ side.terminal = {n \in Unmapped(side) : side.count[n] > 0}
        /\ \A n \in Unmapped(side) :
              side.count[n] > 0 <=> \E m \in NodesOf(g) \ Unmapped(side) : m \in Adjacent(g, n)
    BY DEF SideFine
  <1> HIDE DEF after, delta
  <1>5. after.terminal = {n \in Unmapped(after) : after.count[n] > 0}
    <2>1. ASSUME NEW n \in Unmapped(after) PROVE n \in after.terminal <=> after.count[n] > 0
      <3>1. n \in Unmapped(side) /\ n # node /\ n \in NodesOf(g) /\ side.count[n] \in Nat
        BY <1>1, <1>2, <1>7, <2>1
      <3> QED
        BY <1>1, <1>4, <3>1
    <2>2. after.terminal \subseteq Unmapped(after)
      BY <1>1, <1>3, <1>4, <1>7
    <2> QED
      BY <2>1, <2>2
  <1>6. ASSUME NEW n \in Unmapped(after)
        PROVE  after.count[n] > 0 <=> \E m \in NodesOf(g) \ Unmapped(after) : m \in Adjacent(g, n)
    <2>1. n \in Unmapped(side) /\ n # node /\ n \in NodesOf(g) /\ side.count[n] \in Nat
      BY <1>1, <1>2, <1>6, <1>7
    <2>2. CASE n \in delta
      <3>1. after.count[n] > 0
        BY <1>1, <2>1, <2>2
      <3>2. node \in NodesOf(g) \ Unmapped(after) /\ node \in Adjacent(g, n)
        BY <1>1, <1>2, <1>3, <1>7, <2>2, AdjacentIsSymmetric
      <3> QED
        BY <3>1, <3>2
    <2>3. CASE n \notin delta
      <3>1. after.count[n] = side.count[n]
        BY <1>1, <2>1, <2>3
      <3>2. node \notin Adjacent(g, n)
        BY <1>3, <2>1, <2>3, AdjacentIsSymmetric
      <3>3. NodesOf(g) \ Unmapped(after) = (NodesOf(g) \ Unmapped(side)) \cup {node}
        BY <1>2, <1>7
      <3> QED
        BY <1>4, <2>1, <3>1, <3>2, <3>3
    <2> QED
      BY <2>2, <2>3
  <1> QED
    BY <1>1, <1>5, <1>6 DEF SideFine, after

(* A pop takes back what its push did, fringe included.                    *)
LEMMA UndoneRestores ==
    ASSUME NEW g, GraphValue(g), NEW side, SideFine(g, side),
           NEW node \in Unmapped(side), NEW image \in Nat \ {0}
    PROVE  Undone(Extended(g, side, node, image), node, Delta(g, side, node)) = side
  <1> DEFINE after == Extended(g, side, node, image)
             delta == Delta(g, side, node)
             count == [n \in DOMAIN after.count |-> after.count[n] - IF n \in delta THEN 1 ELSE 0]
             mapping == [after.mapping EXCEPT ![node] = UNMAPPED]
             terminal == (after.terminal \ {n \in delta : count[n] = 0}) \cup {n \in {node} : count[n] > 0}
  <1>0. IsExtended(g, side, node, image, delta, after)
    BY ExtendedFields
  <1>1. /\ after \in SideValues(g)
        /\ after.mapping = [side.mapping EXCEPT ![node] = image]
        /\ after.terminal = (side.terminal \ {node}) \cup {n \in delta : side.count[n] = 0}
        /\ \A n \in NodesOf(g) : after.count[n] = side.count[n] + IF n \in delta THEN 1 ELSE 0
    BY <1>0 DEF IsExtended
  <1>2. /\ side.mapping \in [NodesOf(g) -> Nat] /\ side.count \in [NodesOf(g) -> Nat]
        /\ node \in NodesOf(g) /\ side.mapping[node] = UNMAPPED
        /\ side.terminal = {n \in Unmapped(side) : side.count[n] > 0}
        /\ side = [mapping |-> side.mapping, terminal |-> side.terminal, count |-> side.count]
    BY DEF SideFine, SideValues, Unmapped
  <1>3. delta \in SUBSET NodesOf(g) /\ node \notin delta
    BY AdjacentIsSymmetric DEF Delta, Adjacent
  <1>4. Undone(after, node, delta) = [mapping |-> mapping, terminal |-> terminal, count |-> count]
    BY DEF Undone
  <1>5. DOMAIN after.count = NodesOf(g)
    BY <1>1 DEF SideValues
  <1> HIDE DEF after, delta
  <1>6. count = side.count
    BY <1>1, <1>2, <1>5
  <1>7. mapping = side.mapping
    BY <1>1, <1>2
  <1>8. terminal = side.terminal
    <2>1. \A n \in delta : side.count[n] = 0 => n \notin side.terminal
      BY <1>2, <1>3
    <2>2. node \in side.terminal <=> side.count[node] > 0
      BY <1>2
    <2> HIDE DEF count
    <2> QED
      BY <1>1, <1>3, <1>6, <2>1, <2>2
  <1> HIDE DEF count, mapping, terminal
  <1> QED
    BY <1>2, <1>4, <1>6, <1>7, <1>8 DEF after, delta

-------------------------------------------------------------------------------
(* The call and the state it is in, as arguments *)

SoughtValue(s) ==
    /\ GraphValue(s.pattern) /\ GraphValue(s.target)
    /\ s.max_matches \in Nat /\ s.limit \in Nat

KindFits(s, p, t) ==
    \/ NodeKindTag(s.pattern.kinds[p]) = NodeKindTag(s.target.kinds[t])
    \/ ~s.strict_kinds /\ \E S \in {Declarations, Expressions, Statements} :
                              {s.pattern.kinds[p], s.target.kinds[t]} \subseteq S

EdgeFits(s, from, to, kind) ==
    \E e \in EdgesFrom(s.target, from) :
        /\ e.target = to
        /\ \/ kind = e.kind
           \/ ~s.strict_edges /\ \E S \in {AstKinds, CfgKinds, CallKinds} : {kind, e.kind} \subseteq S

ImageIn(st, n, p, t) == IF n = p THEN t ELSE st.pattern.mapping[n]

DegreesFit(s, p, t) ==
    /\ Cardinality(Successors(s.pattern, p)) <= Cardinality(Successors(s.target, t))
    /\ Cardinality(Predecessors(s.pattern, p)) <= Cardinality(Predecessors(s.target, t))

EdgesFit(s, st, p, t) ==
    /\ \A e \in EdgesFrom(s.pattern, p) :
          ImageIn(st, e.target, p, t) # UNMAPPED => EdgeFits(s, t, ImageIn(st, e.target, p, t), e.kind)
    /\ \A e \in EdgesTo(s.pattern, p) :
          ImageIn(st, e.source, p, t) # UNMAPPED => EdgeFits(s, ImageIn(st, e.source, p, t), t, e.kind)

FeasibleIn(s, st, p, t) == KindFits(s, p, t) /\ DegreesFit(s, p, t) /\ EdgesFit(s, st, p, t)

PushedFrame(s, st, p, t) ==
    [pattern |-> p, target |-> t,
     pattern_delta |-> Delta(s.pattern, st.pattern, p),
     target_delta |-> Delta(s.target, st.target, t)]

PushedIn(s, st, p, t) ==
    [pattern |-> Extended(s.pattern, st.pattern, p, t),
     target |-> Extended(s.target, st.target, t, p),
     order |-> Append(st.order, PushedFrame(s, st, p, t))]

EmbeddingsOf(s) ==
    {f \in [NodesOf(s.pattern) -> NodesOf(s.target)] :
        /\ IsInjective(f)
        /\ \A n \in DOMAIN f : KindFits(s, n, f[n])
        /\ \A e \in s.pattern.edges : EdgeFits(s, f[e.source], f[e.target], e.kind)}

CapOf(s) == IF s.max_matches = 0 THEN s.limit ELSE Min({s.max_matches, s.limit})

(* The definitions of the search are these, of the call it is in.          *)
LEMMA ArgumentsAreTheCall ==
    /\ \A p, t : IsFeasible(p, t) <=> FeasibleIn(sought, state, p, t)
    /\ \A st, p, t : Pushed(st, p, t) = PushedIn(sought, st, p, t)
    /\ Embeddings = EmbeddingsOf(sought)
    /\ Cap = CapOf(sought)
  <1>1. \A p, t : NodesCompatible(sought.pattern.kinds[p], sought.target.kinds[t]) <=> KindFits(sought, p, t)
    BY DEF NodesCompatible, KindFits
  <1>2. \A from, to, kind : EdgeOnto(from, to, kind) <=> EdgeFits(sought, from, to, kind)
    BY DEF EdgeOnto, EdgesCompatible, EdgeFits
  <1>3. \A n, p, t : ImageOf(n, p, t) = ImageIn(state, n, p, t)
    BY DEF ImageOf, ImageIn
  <1>4. \A p, t : IsFeasible(p, t) <=> FeasibleIn(sought, state, p, t)
    BY <1>1, <1>2, <1>3 DEF IsFeasible, FeasibleIn, DegreesFit, EdgesFit
  <1>5. \A st, p, t : Pushed(st, p, t) = PushedIn(sought, st, p, t)
    BY DEF Pushed, PushedIn, PushedFrame
  <1>6. Embeddings = EmbeddingsOf(sought)
    BY <1>1, <1>2 DEF Embeddings, EmbeddingsOf
  <1>7. Cap = CapOf(sought)
    BY DEF Cap, CapOf
  <1> QED
    BY <1>4, <1>5, <1>6, <1>7

(* Nodes are counted from 1, so that 0 can stand for no image.             *)
LEMMA NodesAreNaturals ==
    ASSUME NEW g, GraphValue(g)
    PROVE  NodesOf(g) \in SUBSET (Nat \ {0}) /\ IsFiniteSet(NodesOf(g))
  <1>1. NodesOf(g) = 1..Len(g.kinds) /\ Len(g.kinds) \in Nat
    BY DEF GraphValue, NodesOf
  <1>2. IsFiniteSet(1..Len(g.kinds))
    BY <1>1, FS_Interval
  <1>3. NodesOf(g) \in SUBSET (Nat \ {0})
    BY <1>1
  <1> QED
    BY <1>1, <1>2, <1>3

-------------------------------------------------------------------------------
(* The state of the search *)

OrderFrames(s) ==
    [pattern: NodesOf(s.pattern), target: NodesOf(s.target),
     pattern_delta: SUBSET NodesOf(s.pattern), target_delta: SUBSET NodesOf(s.target)]

StateValues(s) ==
    [pattern: SideValues(s.pattern), target: SideValues(s.target), order: Seq(OrderFrames(s))]

Mapped(g, side) == NodesOf(g) \ Unmapped(side)

(* The mapping is a part of an embedding, as far as it goes.               *)
Fine(s, st) ==
    /\ st \in StateValues(s)
    /\ SideFine(s.pattern, st.pattern) /\ SideFine(s.target, st.target)
    /\ \A p \in Mapped(s.pattern, st.pattern) :
          /\ st.pattern.mapping[p] \in NodesOf(s.target)
          /\ st.target.mapping[st.pattern.mapping[p]] = p
          /\ KindFits(s, p, st.pattern.mapping[p])
    /\ \A t \in Mapped(s.target, st.target) :
          /\ st.target.mapping[t] \in Mapped(s.pattern, st.pattern)
          /\ st.pattern.mapping[st.target.mapping[t]] = t
    /\ \A e \in s.pattern.edges :
          {e.source, e.target} \subseteq Mapped(s.pattern, st.pattern)
          => EdgeFits(s, st.pattern.mapping[e.source], st.pattern.mapping[e.target], e.kind)

Extends(s, f, st) ==
    \A p \in Mapped(s.pattern, st.pattern) : f[p] = st.pattern.mapping[p]

(* The search starts from nothing.                                         *)
LEMMA NewStateIsFine ==
    ASSUME NEW s, SoughtValue(s)
    PROVE  /\ Fine(s, NewState(s.pattern, s.target))
           /\ Unmapped(NewState(s.pattern, s.target).pattern) = NodesOf(s.pattern)
  <1> DEFINE Side(g) == [mapping |-> [n \in NodesOf(g) |-> UNMAPPED], terminal |-> {},
                         count |-> [n \in NodesOf(g) |-> 0]]
             st == NewState(s.pattern, s.target)
  <1>1. st = [pattern |-> Side(s.pattern), target |-> Side(s.target), order |-> <<>>]
    BY DEF NewState
  <1>2. ASSUME NEW g PROVE Side(g) \in SideValues(g) /\ Unmapped(Side(g)) = NodesOf(g)
    BY DEF SideValues, Unmapped, UNMAPPED
  <1>3. ASSUME NEW g PROVE SideFine(g, Side(g))
    <2>1. \A n \in NodesOf(g) : Side(g).count[n] = 0
      OBVIOUS
    <2>2. Side(g).terminal = {}
      OBVIOUS
    <2> HIDE DEF Side
    <2> QED
      BY <1>2, <2>1, <2>2 DEF SideFine
  <1> HIDE DEF Side
  <1>4. st.pattern = Side(s.pattern) /\ st.target = Side(s.target) /\ st \in StateValues(s)
    BY <1>1, <1>2 DEF StateValues
  <1>5. Mapped(s.pattern, st.pattern) = {} /\ Mapped(s.target, st.target) = {}
    BY <1>2, <1>4 DEF Mapped
  <1> HIDE DEF st
  <1>6. Fine(s, st)
    BY <1>3, <1>4, <1>5 DEF Fine
  <1> QED
    BY <1>2, <1>4, <1>6 DEF st

(* What a push writes.                                                     *)
IsPushed(s, st, p, t, after) ==
    /\ after \in StateValues(s)
    /\ p \in NodesOf(s.pattern) /\ t \in NodesOf(s.target) /\ p # 0 /\ t # 0
    /\ SideFine(s.pattern, after.pattern) /\ SideFine(s.target, after.target)
    /\ after.pattern.mapping = [st.pattern.mapping EXCEPT ![p] = t]
    /\ after.target.mapping = [st.target.mapping EXCEPT ![t] = p]
    /\ Unmapped(after.pattern) = Unmapped(st.pattern) \ {p}
    /\ Unmapped(after.target) = Unmapped(st.target) \ {t}
    /\ Popped(after) = st

(* Both sides are written, and a pop takes both back.                      *)
LEMMA PushedFields ==
    ASSUME NEW s, SoughtValue(s), NEW st, Fine(s, st),
           NEW p \in Unmapped(st.pattern), NEW t \in Unmapped(st.target)
    PROVE  IsPushed(s, st, p, t, PushedIn(s, st, p, t))
  <1> DEFINE after == PushedIn(s, st, p, t)
             frame == PushedFrame(s, st, p, t)
             pattern == Extended(s.pattern, st.pattern, p, t)
             target == Extended(s.target, st.target, t, p)
  <1>1. /\ st = [pattern |-> st.pattern, target |-> st.target, order |-> st.order]
        /\ st.order \in Seq(OrderFrames(s))
        /\ st.pattern \in SideValues(s.pattern) /\ st.target \in SideValues(s.target)
        /\ SideFine(s.pattern, st.pattern) /\ SideFine(s.target, st.target)
        /\ GraphValue(s.pattern) /\ GraphValue(s.target)
    BY DEF Fine, StateValues, SoughtValue
  <1>2. p \in NodesOf(s.pattern) /\ t \in NodesOf(s.target)
    BY <1>1 DEF SideValues, Unmapped
  <1>3. p \in Nat \ {0} /\ t \in Nat \ {0}
    BY <1>1, <1>2, NodesAreNaturals
  <1>4. IsExtended(s.pattern, st.pattern, p, t, Delta(s.pattern, st.pattern, p), pattern)
    BY <1>1, <1>3, ExtendedFields
  <1>5. IsExtended(s.target, st.target, t, p, Delta(s.target, st.target, t), target)
    BY <1>1, <1>3, ExtendedFields
  <1>6. SideFine(s.pattern, pattern) /\ SideFine(s.target, target)
    BY <1>1, <1>3, ExtendedIsFine
  <1>7. /\ Undone(pattern, p, Delta(s.pattern, st.pattern, p)) = st.pattern
        /\ Undone(target, t, Delta(s.target, st.target, t)) = st.target
    BY <1>1, <1>3, UndoneRestores
  <1>8. /\ Delta(s.pattern, st.pattern, p) \in SUBSET NodesOf(s.pattern)
        /\ Delta(s.target, st.target, t) \in SUBSET NodesOf(s.target)
    BY <1>1, AdjacentIsSymmetric DEF Delta, Adjacent
  <1>9. frame \in OrderFrames(s)
    BY <1>2, <1>8 DEF OrderFrames, PushedFrame
  <1>10. /\ frame.pattern = p /\ frame.target = t
         /\ frame.pattern_delta = Delta(s.pattern, st.pattern, p)
         /\ frame.target_delta = Delta(s.target, st.target, t)
    BY DEF PushedFrame
  <1>11. /\ after = [pattern |-> pattern, target |-> target, order |-> Append(st.order, frame)]
         /\ after.pattern = pattern /\ after.target = target
    BY DEF PushedIn
  <1> HIDE DEF after, frame, pattern, target
  <1>12. /\ Append(st.order, frame) \in Seq(OrderFrames(s))
         /\ Last(Append(st.order, frame)) = frame /\ Front(Append(st.order, frame)) = st.order
    BY <1>1, <1>9, AppendIsUndone
  <1>13. after \in StateValues(s)
    BY <1>4, <1>5, <1>11, <1>12 DEF StateValues, IsExtended
  <1>14. Popped(after) = st
    BY <1>1, <1>7, <1>10, <1>11, <1>12 DEF Popped
  <1> QED
    BY <1>2, <1>3, <1>4, <1>5, <1>6, <1>11, <1>13, <1>14 DEF IsExtended, IsPushed, after

(* A feasible pair keeps the mapping a part of an embedding.               *)
LEMMA PushedIsFine ==
    ASSUME NEW s, SoughtValue(s), NEW st, Fine(s, st),
           NEW p \in Unmapped(st.pattern), NEW t \in Unmapped(st.target), FeasibleIn(s, st, p, t)
    PROVE  Fine(s, PushedIn(s, st, p, t))
  <1> DEFINE after == PushedIn(s, st, p, t)
  <1>0. IsPushed(s, st, p, t, after)
    BY PushedFields
  <1>1. /\ after \in StateValues(s)
        /\ p \in NodesOf(s.pattern) /\ t \in NodesOf(s.target) /\ p # 0 /\ t # 0
        /\ SideFine(s.pattern, after.pattern) /\ SideFine(s.target, after.target)
        /\ after.pattern.mapping = [st.pattern.mapping EXCEPT ![p] = t]
        /\ after.target.mapping = [st.target.mapping EXCEPT ![t] = p]
        /\ Unmapped(after.pattern) = Unmapped(st.pattern) \ {p}
        /\ Unmapped(after.target) = Unmapped(st.target) \ {t}
    BY <1>0 DEF IsPushed
  <1> HIDE DEF after
  <1>2. /\ Mapped(s.pattern, after.pattern) = Mapped(s.pattern, st.pattern) \cup {p}
        /\ Mapped(s.target, after.target) = Mapped(s.target, st.target) \cup {t}
        /\ p \notin Mapped(s.pattern, st.pattern) /\ t \notin Mapped(s.target, st.target)
    BY <1>1 DEF Mapped
  <1>3. /\ st.pattern.mapping \in [NodesOf(s.pattern) -> Nat]
        /\ st.target.mapping \in [NodesOf(s.target) -> Nat]
    BY DEF Fine, StateValues, SideValues
  <1>4. /\ \A n \in NodesOf(s.pattern) :
              after.pattern.mapping[n] = IF n = p THEN t ELSE st.pattern.mapping[n]
        /\ \A n \in NodesOf(s.target) :
              after.target.mapping[n] = IF n = t THEN p ELSE st.target.mapping[n]
    BY <1>1, <1>3
  <1>5. /\ Mapped(s.pattern, st.pattern) \subseteq NodesOf(s.pattern)
        /\ Mapped(s.target, st.target) \subseteq NodesOf(s.target)
    BY DEF Mapped
  <1>6. ASSUME NEW n \in Mapped(s.pattern, after.pattern)
        PROVE  /\ after.pattern.mapping[n] \in NodesOf(s.target)
               /\ after.target.mapping[after.pattern.mapping[n]] = n
               /\ KindFits(s, n, after.pattern.mapping[n])
    <2>1. CASE n = p
      BY <1>1, <1>4, <2>1 DEF FeasibleIn
    <2>2. CASE n \in Mapped(s.pattern, st.pattern)
      <3>1. /\ st.pattern.mapping[n] \in NodesOf(s.target)
            /\ st.target.mapping[st.pattern.mapping[n]] = n
            /\ KindFits(s, n, st.pattern.mapping[n])
        BY <2>2 DEF Fine
      <3>2. st.pattern.mapping[n] # t
        <4>1. st.target.mapping[t] = 0 /\ n # 0
          BY <1>5, <2>2, NodesAreNaturals DEF Unmapped, UNMAPPED, SoughtValue
        <4> QED
          BY <3>1, <4>1
      <3> QED
        BY <1>2, <1>4, <1>5, <2>2, <3>1, <3>2
    <2> QED
      BY <1>2, <2>1, <2>2
  <1>7. ASSUME NEW n \in Mapped(s.target, after.target)
        PROVE  /\ after.target.mapping[n] \in Mapped(s.pattern, after.pattern)
               /\ after.pattern.mapping[after.target.mapping[n]] = n
    <2>1. CASE n = t
      BY <1>1, <1>2, <1>4, <2>1
    <2>2. CASE n \in Mapped(s.target, st.target)
      <3>1. /\ st.target.mapping[n] \in Mapped(s.pattern, st.pattern)
            /\ st.pattern.mapping[st.target.mapping[n]] = n
        BY <2>2 DEF Fine
      <3> QED
        BY <1>2, <1>4, <1>5, <2>2, <3>1
    <2> QED
      BY <1>2, <2>1, <2>2
  <1>8. ASSUME NEW e \in s.pattern.edges, {e.source, e.target} \subseteq Mapped(s.pattern, after.pattern)
        PROVE  EdgeFits(s, after.pattern.mapping[e.source], after.pattern.mapping[e.target], e.kind)
    <2>1. /\ \A n \in Mapped(s.pattern, st.pattern) : st.pattern.mapping[n] # UNMAPPED
          /\ EdgesFit(s, st, p, t)
      BY <1>5 DEF Mapped, Unmapped, FeasibleIn, Fine, StateValues, SideValues
    <2>2. CASE e.source = p
      BY <1>1, <1>2, <1>4, <1>5, <1>8, <2>1, <2>2 DEF EdgesFit, EdgesFrom, ImageIn, UNMAPPED
    <2>3. CASE e.source # p /\ e.target = p
      BY <1>1, <1>2, <1>4, <1>5, <1>8, <2>1, <2>3 DEF EdgesFit, EdgesTo, ImageIn, UNMAPPED
    <2>4. CASE {e.source, e.target} \subseteq Mapped(s.pattern, st.pattern)
      <3>1. EdgeFits(s, st.pattern.mapping[e.source], st.pattern.mapping[e.target], e.kind)
        BY <2>4 DEF Fine
      <3> QED
        BY <1>2, <1>4, <1>5, <2>4, <3>1
    <2> QED
      BY <1>2, <1>8, <2>2, <2>3, <2>4
  <1>9. Fine(s, after)
    BY <1>1, <1>6, <1>7, <1>8 DEF Fine
  <1> QED
    BY <1>9 DEF after

-------------------------------------------------------------------------------
(* What the pruning may not lose *)

(* An embedding takes neighbours to neighbours, in the same direction.     *)
LEMMA NeighboursFollow ==
    ASSUME NEW s, SoughtValue(s), NEW f \in EmbeddingsOf(s), NEW p \in NodesOf(s.pattern)
    PROVE  /\ f[p] \in NodesOf(s.target)
           /\ \A n \in Successors(s.pattern, p) :
                 n \in NodesOf(s.pattern) /\ f[n] \in Successors(s.target, f[p])
           /\ \A n \in Predecessors(s.pattern, p) :
                 n \in NodesOf(s.pattern) /\ f[n] \in Predecessors(s.target, f[p])
  <1>1. /\ f \in [NodesOf(s.pattern) -> NodesOf(s.target)]
        /\ \A e \in s.pattern.edges : EdgeFits(s, f[e.source], f[e.target], e.kind)
        /\ \A e \in s.pattern.edges : e.source \in NodesOf(s.pattern) /\ e.target \in NodesOf(s.pattern)
    BY DEF EmbeddingsOf, SoughtValue, GraphValue
  <1>2. ASSUME NEW from, NEW to, NEW kind, EdgeFits(s, from, to, kind)
        PROVE  to \in Successors(s.target, from) /\ from \in Predecessors(s.target, to)
    BY <1>2 DEF EdgeFits, Successors, Predecessors, EdgesFrom, EdgesTo
  <1>3. ASSUME NEW n \in Successors(s.pattern, p)
        PROVE  n \in NodesOf(s.pattern) /\ f[n] \in Successors(s.target, f[p])
    BY <1>1, <1>2 DEF Successors, EdgesFrom
  <1>4. ASSUME NEW n \in Predecessors(s.pattern, p)
        PROVE  n \in NodesOf(s.pattern) /\ f[n] \in Predecessors(s.target, f[p])
    BY <1>1, <1>2 DEF Predecessors, EdgesTo
  <1> QED
    BY <1>1, <1>3, <1>4

(* Different neighbours have different images, so there is room for all.   *)
LEMMA DegreesFollow ==
    ASSUME NEW s, SoughtValue(s), NEW f \in EmbeddingsOf(s), NEW p \in NodesOf(s.pattern)
    PROVE  DegreesFit(s, p, f[p])
  <1>1. /\ f \in [NodesOf(s.pattern) -> NodesOf(s.target)]
        /\ \A a, b \in NodesOf(s.pattern) : f[a] = f[b] => a = b
    BY DEF EmbeddingsOf, IsInjective
  <1>2. ASSUME NEW S \in SUBSET NodesOf(s.pattern), NEW T \in SUBSET NodesOf(s.target),
               \A n \in S : f[n] \in T
        PROVE  Cardinality(S) <= Cardinality(T)
    <2> DEFINE on == [n \in S |-> f[n]]
    <2>1. on \in [S -> T] /\ \A a, b \in S : on[a] = on[b] => a = b
      BY <1>1, <1>2
    <2> HIDE DEF on
    <2>2. on \in Injection(S, T)
      BY <2>1 DEF Injection, IsInjective
    <2>3. IsFiniteSet(T)
      BY NodesAreNaturals, FS_Subset DEF SoughtValue
    <2> QED
      BY <2>2, <2>3, FS_Injection
  <1>3. /\ \A n \in Successors(s.pattern, p) :
              n \in NodesOf(s.pattern) /\ f[n] \in Successors(s.target, f[p])
        /\ \A n \in Predecessors(s.pattern, p) :
              n \in NodesOf(s.pattern) /\ f[n] \in Predecessors(s.target, f[p])
    BY NeighboursFollow
  <1>4. /\ Successors(s.target, f[p]) \in SUBSET NodesOf(s.target)
        /\ Predecessors(s.target, f[p]) \in SUBSET NodesOf(s.target)
    BY DEF Successors, Predecessors, EdgesFrom, EdgesTo, SoughtValue, GraphValue
  <1>5. Cardinality(Successors(s.pattern, p)) <= Cardinality(Successors(s.target, f[p]))
    BY <1>2, <1>3, <1>4
  <1>6. Cardinality(Predecessors(s.pattern, p)) <= Cardinality(Predecessors(s.target, f[p]))
    BY <1>2, <1>3, <1>4
  <1> QED
    BY <1>5, <1>6 DEF DegreesFit

(* No rule of is_feasible refuses the image an embedding gives.            *)
LEMMA EmbeddingsAreFeasible ==
    ASSUME NEW s, SoughtValue(s), NEW st, Fine(s, st),
           NEW f \in EmbeddingsOf(s), Extends(s, f, st), NEW p \in Unmapped(st.pattern)
    PROVE  f[p] \in Unmapped(st.target) /\ FeasibleIn(s, st, p, f[p])
  <1>1. /\ f \in [NodesOf(s.pattern) -> NodesOf(s.target)]
        /\ \A a, b \in NodesOf(s.pattern) : f[a] = f[b] => a = b
        /\ \A n \in NodesOf(s.pattern) : KindFits(s, n, f[n])
        /\ \A e \in s.pattern.edges : EdgeFits(s, f[e.source], f[e.target], e.kind)
    BY DEF EmbeddingsOf, IsInjective
  <1>2. /\ st.pattern.mapping \in [NodesOf(s.pattern) -> Nat]
        /\ st.target.mapping \in [NodesOf(s.target) -> Nat]
    BY DEF Fine, StateValues, SideValues
  <1>3. p \in NodesOf(s.pattern) /\ p \notin Mapped(s.pattern, st.pattern)
    BY <1>2 DEF Unmapped, Mapped
  <1>4. f[p] \in Unmapped(st.target)
    <2>1. SUFFICES ASSUME f[p] \in Mapped(s.target, st.target) PROVE FALSE
      BY <1>1, <1>3 DEF Mapped
    <2> DEFINE q == st.target.mapping[f[p]]
    <2>2. q \in Mapped(s.pattern, st.pattern) /\ st.pattern.mapping[q] = f[p]
      BY <2>1 DEF Fine
    <2> HIDE DEF q
    <2>3. f[q] = f[p] /\ q \in NodesOf(s.pattern)
      BY <2>2 DEF Extends, Mapped
    <2> QED
      BY <1>1, <1>3, <2>2, <2>3
  <1>5. ASSUME NEW n \in NodesOf(s.pattern), ImageIn(st, n, p, f[p]) # UNMAPPED
        PROVE  ImageIn(st, n, p, f[p]) = f[n]
    BY <1>2, <1>5 DEF ImageIn, Extends, Mapped, Unmapped
  <1>6. EdgesFit(s, st, p, f[p])
    <2>1. \A e \in s.pattern.edges : e.source \in NodesOf(s.pattern) /\ e.target \in NodesOf(s.pattern)
      BY DEF SoughtValue, GraphValue
    <2> QED
      BY <1>1, <1>5, <2>1 DEF EdgesFit, EdgesFrom, EdgesTo
  <1> QED
    BY <1>1, <1>3, <1>4, <1>6, DegreesFollow DEF FeasibleIn

(* A node of the pattern's fringe has its image on the target's.           *)
LEMMA FringeIsFollowed ==
    ASSUME NEW s, SoughtValue(s), NEW st, Fine(s, st),
           NEW f \in EmbeddingsOf(s), Extends(s, f, st), NEW p \in st.pattern.terminal
    PROVE  f[p] \in st.target.terminal
  <1>1. p \in Unmapped(st.pattern) /\ p \in NodesOf(s.pattern)
    BY DEF Fine, SideFine, SideValues, Unmapped
  <1>2. PICK m \in Mapped(s.pattern, st.pattern) : m \in Adjacent(s.pattern, p)
    BY <1>1 DEF Fine, SideFine, Mapped
  <1>3. f[m] \in Adjacent(s.target, f[p])
    BY <1>1, <1>2, NeighboursFollow DEF Adjacent
  <1>4. f[m] \in Mapped(s.target, st.target)
    <2>1. f[m] \in NodesOf(s.target) /\ st.target.mapping[f[m]] = m
      BY <1>2 DEF Extends, Fine
    <2>2. m # 0
      BY <1>2, NodesAreNaturals DEF Mapped, SoughtValue
    <2> QED
      BY <2>1, <2>2 DEF Mapped, Unmapped, UNMAPPED
  <1>5. f[p] \in Unmapped(st.target)
    BY <1>1, EmbeddingsAreFeasible
  <1> QED
    BY <1>3, <1>4, <1>5 DEF Fine, SideFine, Mapped

(* A mapping of every node is an embedding, and the only one it extends to. *)
LEMMA CompleteIsEmbedding ==
    ASSUME NEW s, SoughtValue(s), NEW st, Fine(s, st), IsComplete(st)
    PROVE  /\ st.pattern.mapping \in EmbeddingsOf(s) /\ Extends(s, st.pattern.mapping, st)
           /\ \A f \in EmbeddingsOf(s) : Extends(s, f, st) => f = st.pattern.mapping
  <1> DEFINE g == st.pattern.mapping
  <1>1. Mapped(s.pattern, st.pattern) = NodesOf(s.pattern) /\ g \in [NodesOf(s.pattern) -> Nat]
    BY DEF Mapped, IsComplete, Fine, StateValues, SideValues
  <1>2. /\ \A p \in NodesOf(s.pattern) :
              g[p] \in NodesOf(s.target) /\ st.target.mapping[g[p]] = p /\ KindFits(s, p, g[p])
        /\ \A e \in s.pattern.edges :
              {e.source, e.target} \subseteq NodesOf(s.pattern) => EdgeFits(s, g[e.source], g[e.target], e.kind)
    BY <1>1 DEF Fine
  <1> HIDE DEF g
  <1>3. g \in [NodesOf(s.pattern) -> NodesOf(s.target)] /\ DOMAIN g = NodesOf(s.pattern)
    BY <1>1, <1>2
  <1>4. IsInjective(g)
    BY <1>2, <1>3 DEF IsInjective
  <1>5. \A e \in s.pattern.edges : {e.source, e.target} \subseteq NodesOf(s.pattern)
    BY DEF SoughtValue, GraphValue
  <1>6. g \in EmbeddingsOf(s)
    BY <1>2, <1>3, <1>4, <1>5 DEF EmbeddingsOf
  <1>7. \A f \in EmbeddingsOf(s) : Extends(s, f, st) => f = g
    <2> SUFFICES ASSUME NEW f \in EmbeddingsOf(s), Extends(s, f, st) PROVE f = g
      OBVIOUS
    <2>1. f \in [NodesOf(s.pattern) -> NodesOf(s.target)] /\ \A p \in NodesOf(s.pattern) : f[p] = g[p]
      BY <1>1 DEF EmbeddingsOf, Extends, g
    <2> QED
      BY <1>3, <2>1
  <1>8. Extends(s, g, st)
    BY DEF Extends, g
  <1> QED
    BY <1>6, <1>7, <1>8 DEF g

(* To extend a push is to extend what it was done to, and to agree with it. *)
LEMMA ExtendsPushed ==
    ASSUME NEW s, SoughtValue(s), NEW st, Fine(s, st), NEW f \in EmbeddingsOf(s),
           NEW p \in Unmapped(st.pattern), NEW t \in Unmapped(st.target)
    PROVE  Extends(s, f, PushedIn(s, st, p, t)) <=> Extends(s, f, st) /\ f[p] = t
  <1> DEFINE after == PushedIn(s, st, p, t)
  <1>0. IsPushed(s, st, p, t, after)
    BY PushedFields
  <1>1. /\ after.pattern.mapping = [st.pattern.mapping EXCEPT ![p] = t]
        /\ Unmapped(after.pattern) = Unmapped(st.pattern) \ {p}
        /\ p \in NodesOf(s.pattern)
    BY <1>0 DEF IsPushed
  <1>2. st.pattern.mapping \in [NodesOf(s.pattern) -> Nat]
    BY DEF Fine, StateValues, SideValues
  <1> HIDE DEF after
  <1>3. Extends(s, f, after) <=> Extends(s, f, st) /\ f[p] = t
    BY <1>1, <1>2 DEF Extends, Mapped
  <1> QED
    BY <1>3 DEF after

-------------------------------------------------------------------------------
(* The stack of the search *)

FrameValues(s) ==
    [pattern_index: NodesOf(s.pattern), next_target: Nat \ {0},
     terminal_only: BOOLEAN, owns_mapping: BOOLEAN]

CandidatesIn(st, frame) ==
    {t \in IF frame.terminal_only THEN st.target.terminal ELSE Unmapped(st.target) :
        t >= frame.next_target}

(* The node a frame looks for an image of, and, under another frame, the   *)
(* image it has given that node.                                           *)
FrameFine(st, frame) ==
    /\ frame.pattern_index \in Unmapped(st.pattern)
    /\ frame.terminal_only => frame.pattern_index \in st.pattern.terminal

Choice(frame) == frame.next_target - 1

(* chain[k] is the state when the k-th of n frames was put on the stack:   *)
(* each is the one before with its frame's choice pushed, and every frame  *)
(* above keeps that choice.                                                *)
Path(s, stack, chain, n) ==
    /\ n > 0 => chain[1] = NewState(s.pattern, s.target)
    /\ \A k \in 1..n :
          /\ stack[k] \in FrameValues(s)
          /\ Fine(s, chain[k]) /\ FrameFine(chain[k], stack[k])
          /\ stack[k].owns_mapping <=> k # 1
          /\ k < n => /\ Choice(stack[k]) \in Unmapped(chain[k].target)
                      /\ chain[k + 1] = PushedIn(s, chain[k], stack[k].pattern_index, Choice(stack[k]))
    /\ \A k \in 1..n : \A j \in 1..n : j < k =>
          /\ stack[j].pattern_index \in Mapped(s.pattern, chain[k].pattern)
          /\ chain[k].pattern.mapping[stack[j].pattern_index] = Choice(stack[j])

(* An embedding the search has passed: it makes the choices up to some     *)
(* frame, and there takes one that was tried to the end.                   *)
Tried(stack, n, k) == IF k = n THEN stack[k].next_target ELSE Choice(stack[k])

Behind(s, f, stack, chain, n) ==
    \E k \in 1..n : Extends(s, f, chain[k]) /\ f[stack[k].pattern_index] < Tried(stack, n, k)

WalkFine(s, st, stack, chain) ==
    /\ stack \in Seq(FrameValues(s))
    /\ Path(s, stack, chain, Len(stack))
    /\ st = IF stack = <<>> THEN NewState(s.pattern, s.target) ELSE chain[Len(stack)]

(* The matches are the embeddings passed, each of them once.               *)
Collected(s, stack, chain, found, on) ==
    /\ found \in Seq(EmbeddingsOf(s)) /\ IsInjective(found) /\ Len(found) <= CapOf(s)
    /\ on /\ Len(found) < CapOf(s) =>
          \A f \in EmbeddingsOf(s) :
              f \in ToSet(found) <=> (stack # <<>> => Behind(s, f, stack, chain, Len(stack)))
    /\ ~on => /\ stack = <<>>
              /\ Hopeless(s) \/ Len(found) >= CapOf(s) \/ \A f \in EmbeddingsOf(s) : f \in ToSet(found)

SearchInv(s, st, stack, found, on, chain) ==
    SoughtValue(s) /\ WalkFine(s, st, stack, chain) /\ Collected(s, stack, chain, found, on)

(* A frame is put where there is a node to map, on the fringe if it must.  *)
LEMMA FramesAreFine ==
    ASSUME NEW s, SoughtValue(s), NEW st, Fine(s, st), ~IsComplete(st), NEW owns \in BOOLEAN
    PROVE  /\ SearchFrame(st, owns) \in FrameValues(s) /\ FrameFine(st, SearchFrame(st, owns))
           /\ SearchFrame(st, owns).owns_mapping = owns /\ SearchFrame(st, owns).next_target = 1
  <1> DEFINE fringed == st.pattern.terminal # {} /\ st.target.terminal # {}
             nodes == IF fringed THEN st.pattern.terminal ELSE Unmapped(st.pattern)
  <1>1. /\ Unmapped(st.pattern) # {} /\ Unmapped(st.pattern) \in SUBSET NodesOf(s.pattern)
        /\ st.pattern.terminal \in SUBSET Unmapped(st.pattern)
    BY DEF IsComplete, Fine, SideFine, StateValues, SideValues, Unmapped
  <1>2. NodesOf(s.pattern) \in SUBSET Nat
    BY NodesAreNaturals DEF SoughtValue
  <1>3. nodes \in SUBSET Nat /\ nodes # {}
    BY <1>1, <1>2
  <1>4. Min(nodes) \in nodes
    BY <1>3, LeastOfNaturals
  <1>5. SearchFrame(st, owns) = [pattern_index |-> Min(nodes), next_target |-> 1,
                                 terminal_only |-> fringed, owns_mapping |-> owns]
    BY DEF SearchFrame
  <1>6. /\ Min(nodes) \in Unmapped(st.pattern)
        /\ fringed => Min(nodes) \in st.pattern.terminal
    BY <1>1, <1>4
  <1>7. fringed \in BOOLEAN /\ Min(nodes) \in NodesOf(s.pattern)
    BY <1>1, <1>6
  <1> HIDE DEF nodes, fringed
  <1> QED
    BY <1>5, <1>6, <1>7 DEF FrameFine, FrameValues

(* Whatever image an embedding gives the node of a frame is a candidate.   *)
LEMMA EmbeddingsAreCandidates ==
    ASSUME NEW s, SoughtValue(s), NEW st, Fine(s, st), NEW frame, FrameFine(st, frame),
           NEW f \in EmbeddingsOf(s), Extends(s, f, st), f[frame.pattern_index] >= frame.next_target
    PROVE  f[frame.pattern_index] \in CandidatesIn(st, frame)
  <1>1. f[frame.pattern_index] \in Unmapped(st.target)
    BY EmbeddingsAreFeasible DEF FrameFine
  <1>2. frame.terminal_only => f[frame.pattern_index] \in st.target.terminal
    BY FringeIsFollowed DEF FrameFine
  <1> QED
    BY <1>1, <1>2 DEF CandidatesIn

(* Candidates have no image yet.                                           *)
LEMMA CandidatesAreFree ==
    ASSUME NEW s, SoughtValue(s), NEW st, Fine(s, st), NEW frame
    PROVE  /\ CandidatesIn(st, frame) \in SUBSET Unmapped(st.target)
           /\ CandidatesIn(st, frame) \in SUBSET Nat
  <1>1. /\ Unmapped(st.target) \in SUBSET NodesOf(s.target)
        /\ st.target.terminal \in SUBSET Unmapped(st.target)
    BY DEF Fine, SideFine, StateValues, SideValues, Unmapped
  <1>2. NodesOf(s.target) \in SUBSET Nat
    BY NodesAreNaturals DEF SoughtValue
  <1> QED
    BY <1>1, <1>2 DEF CandidatesIn

-------------------------------------------------------------------------------
(* The stack grows, advances and shrinks *)

(* The n-th frame goes on to a later candidate.                            *)
Advanced(stack, after, n, next) ==
    /\ \A k \in 1..n : k # n => after[k] = stack[k]
    /\ after[n] = [stack[n] EXCEPT !.next_target = next]

(* The candidate a frame takes.                                            *)
IsNext(st, frame, t) == CandidatesIn(st, frame) # {} /\ t = Min(CandidatesIn(st, frame))

(* A path depends on the frames it has, and on the last one only for the   *)
(* node and the way it looks for the image.                                *)
LEMMA PathAdvances ==
    ASSUME NEW s, NEW stack, NEW chain, NEW n \in Nat \ {0}, Path(s, stack, chain, n),
           NEW after, NEW next \in Nat \ {0}, Advanced(stack, after, n, next)
    PROVE  Path(s, after, chain, n)
  <1>1. ASSUME NEW k \in 1..n
        PROVE  /\ after[k].pattern_index = stack[k].pattern_index
               /\ after[k].owns_mapping = stack[k].owns_mapping
               /\ after[k].terminal_only = stack[k].terminal_only
               /\ k # n => Choice(after[k]) = Choice(stack[k])
               /\ after[k] \in FrameValues(s)
    <2>1. stack[k] \in FrameValues(s)
      BY DEF Path
    <2>2. CASE k # n
      BY <2>1, <2>2 DEF Advanced
    <2>3. CASE k = n
      BY <2>1, <2>3 DEF Advanced, FrameValues
    <2> QED
      BY <2>2, <2>3
  <1>2. \A k \in 1..n :
           /\ Fine(s, chain[k]) /\ FrameFine(chain[k], after[k])
           /\ after[k].owns_mapping <=> k # 1
           /\ k < n => /\ Choice(after[k]) \in Unmapped(chain[k].target)
                       /\ chain[k + 1] = PushedIn(s, chain[k], after[k].pattern_index, Choice(after[k]))
    BY <1>1 DEF Path, FrameFine
  <1>3. \A k \in 1..n : \A j \in 1..n : j < k =>
           /\ after[j].pattern_index \in Mapped(s.pattern, chain[k].pattern)
           /\ chain[k].pattern.mapping[after[j].pattern_index] = Choice(after[j])
    BY <1>1 DEF Path
  <1> QED
    BY <1>1, <1>2, <1>3 DEF Path

(* Without its last frame a path is a path.                                *)
LEMMA PathShortens ==
    ASSUME NEW s, NEW stack, NEW chain, NEW n \in Nat, Path(s, stack, chain, n + 1),
           NEW after, \A k \in 1..n : after[k] = stack[k]
    PROVE  Path(s, after, chain, n)
  <1>1. \A k \in 1..n : k \in 1..(n + 1) /\ (k < n => k < n + 1)
    OBVIOUS
  <1> QED
    BY <1>1 DEF Path

(* A frame joins the stack on the state that was pushed.                   *)
Joined(stack, chain, n, pushed, after, longer) ==
    /\ \A k \in 1..n : after[k] = stack[k] /\ longer[k] = chain[k]
    /\ after[n + 1] = SearchFrame(pushed, TRUE) /\ longer[n + 1] = pushed

(* A frame's choice that is feasible and does not complete the mapping is  *)
(* what the next frame stands on.                                          *)
LEMMA PathGrows ==
    ASSUME NEW s, SoughtValue(s), NEW stack, NEW chain, NEW n \in Nat \ {0}, Path(s, stack, chain, n),
           Choice(stack[n]) \in Unmapped(chain[n].target),
           FeasibleIn(s, chain[n], stack[n].pattern_index, Choice(stack[n])),
           NEW pushed, pushed = PushedIn(s, chain[n], stack[n].pattern_index, Choice(stack[n])),
           ~IsComplete(pushed),
           NEW after, NEW longer, Joined(stack, chain, n, pushed, after, longer)
    PROVE  Path(s, after, longer, n + 1)
  <1> DEFINE p == stack[n].pattern_index
             t == Choice(stack[n])
  <1>0. /\ \A k \in 1..n : after[k] = stack[k] /\ longer[k] = chain[k]
        /\ after[n + 1] = SearchFrame(pushed, TRUE) /\ longer[n + 1] = pushed
    BY DEF Joined
  <1>1. Fine(s, chain[n]) /\ p \in Unmapped(chain[n].pattern)
    BY DEF Path, FrameFine
  <1>2. /\ Fine(s, pushed)
        /\ pushed.pattern.mapping = [chain[n].pattern.mapping EXCEPT ![p] = t]
        /\ Unmapped(pushed.pattern) = Unmapped(chain[n].pattern) \ {p}
        /\ p \in NodesOf(s.pattern)
    <2>1. Fine(s, PushedIn(s, chain[n], p, t))
      BY <1>1, PushedIsFine
    <2>2. IsPushed(s, chain[n], p, t, PushedIn(s, chain[n], p, t))
      BY <1>1, PushedFields
    <2> QED
      BY <2>1, <2>2 DEF IsPushed
  <1>3. /\ after[n + 1] \in FrameValues(s) /\ FrameFine(pushed, after[n + 1])
        /\ after[n + 1].owns_mapping
    <2>1. /\ SearchFrame(pushed, TRUE) \in FrameValues(s) /\ FrameFine(pushed, SearchFrame(pushed, TRUE))
          /\ SearchFrame(pushed, TRUE).owns_mapping = TRUE
      BY <1>2, FramesAreFine
    <2> QED
      BY <1>0, <2>1
  <1> HIDE DEF p, t
  <1>4. chain[n].pattern.mapping \in [NodesOf(s.pattern) -> Nat]
    BY <1>1 DEF Fine, StateValues, SideValues
  <1>5. \A k \in 1..n :
           /\ after[k] \in FrameValues(s) /\ Fine(s, longer[k]) /\ FrameFine(longer[k], after[k])
           /\ after[k].owns_mapping <=> k # 1
    BY <1>0 DEF Path
  <1>6. \A k \in 1..n :
           /\ Choice(after[k]) \in Unmapped(longer[k].target)
           /\ longer[k + 1] = PushedIn(s, longer[k], after[k].pattern_index, Choice(after[k]))
    <2> SUFFICES ASSUME NEW k \in 1..n
                 PROVE  /\ Choice(after[k]) \in Unmapped(longer[k].target)
                        /\ longer[k + 1] = PushedIn(s, longer[k], after[k].pattern_index, Choice(after[k]))
      OBVIOUS
    <2>1. CASE k = n
      BY <1>0, <2>1
    <2>2. CASE k < n
      <3>1. k + 1 \in 1..n
        BY <2>2
      <3> QED
        BY <1>0, <2>2, <3>1 DEF Path
    <2> QED
      BY <2>1, <2>2
  <1>7. ASSUME NEW k \in 1..(n + 1), NEW j \in 1..(n + 1), j < k
        PROVE  /\ after[j].pattern_index \in Mapped(s.pattern, longer[k].pattern)
               /\ longer[k].pattern.mapping[after[j].pattern_index] = Choice(after[j])
    <2>1. j \in 1..n
      BY <1>7
    <2>2. CASE k \in 1..n
      BY <1>0, <1>7, <2>1, <2>2 DEF Path
    <2>3. CASE k = n + 1 /\ j = n
      <3>1. p \in Mapped(s.pattern, pushed.pattern) /\ pushed.pattern.mapping[p] = t
        BY <1>2, <1>4 DEF Mapped
      <3> QED
        BY <1>0, <2>1, <2>3, <3>1 DEF p, t
    <2>4. CASE k = n + 1 /\ j < n
      <3>1. /\ stack[j].pattern_index \in Mapped(s.pattern, chain[n].pattern)
            /\ chain[n].pattern.mapping[stack[j].pattern_index] = Choice(stack[j])
        BY <2>1, <2>4 DEF Path
      <3>2. /\ stack[j].pattern_index \in Mapped(s.pattern, pushed.pattern)
            /\ pushed.pattern.mapping[stack[j].pattern_index] = Choice(stack[j])
        BY <1>1, <1>2, <1>4, <3>1 DEF Mapped
      <3> QED
        BY <1>0, <2>1, <2>4, <3>2
    <2> QED
      BY <1>7, <2>1, <2>2, <2>3, <2>4
  <1>8. longer[1] = NewState(s.pattern, s.target)
    BY <1>0 DEF Path
  <1>9. \A k \in 1..(n + 1) : k \in 1..n \/ k = n + 1
    OBVIOUS
  <1>10. ASSUME NEW k \in 1..(n + 1)
         PROVE  /\ after[k] \in FrameValues(s)
                /\ Fine(s, longer[k]) /\ FrameFine(longer[k], after[k])
                /\ after[k].owns_mapping <=> k # 1
                /\ k < n + 1 => /\ Choice(after[k]) \in Unmapped(longer[k].target)
                                /\ longer[k + 1] = PushedIn(s, longer[k], after[k].pattern_index, Choice(after[k]))
    <2>1. CASE k \in 1..n
      BY <1>5, <1>6, <2>1
    <2>2. CASE k = n + 1
      <3>1. longer[k] = pushed /\ k # 1 /\ ~(k < n + 1)
        BY <1>0, <2>2
      <3>2. Fine(s, longer[k]) /\ FrameFine(longer[k], after[k]) /\ after[k] \in FrameValues(s) /\ after[k].owns_mapping
        BY <1>2, <1>3, <2>2, <3>1
      <3> QED
        BY <3>1, <3>2
    <2> QED
      BY <1>9, <2>1, <2>2
  <1> QED
    BY <1>7, <1>8, <1>10 DEF Path

-------------------------------------------------------------------------------
(* What is behind the search *)

(* The least candidate passes over no embedding.                           *)
LEMMA NothingIsPassedOver ==
    ASSUME NEW s, SoughtValue(s), NEW st, Fine(s, st), NEW frame \in FrameValues(s), FrameFine(st, frame),
           NEW t, IsNext(st, frame, t)
    PROVE  /\ t \in Unmapped(st.target) /\ t \in Nat /\ frame.next_target <= t
           /\ frame.pattern_index \in NodesOf(s.pattern)
           /\ \A f \in EmbeddingsOf(s) : f[frame.pattern_index] \in Nat \ {0}
           /\ \A f \in EmbeddingsOf(s) : Extends(s, f, st) =>
                 f[frame.pattern_index] < frame.next_target \/ t <= f[frame.pattern_index]
  <1> DEFINE C == CandidatesIn(st, frame)
             p == frame.pattern_index
  <1>1. C \in SUBSET Unmapped(st.target) /\ C \in SUBSET Nat
    BY CandidatesAreFree
  <1>2. t \in C /\ \A c \in C : t <= c
    BY <1>1, LeastOfNaturals DEF IsNext
  <1>3. frame.next_target <= t
    BY <1>2 DEF CandidatesIn
  <1>4. p \in NodesOf(s.pattern) /\ frame.next_target \in Nat
    BY DEF FrameValues
  <1>5. \A f \in EmbeddingsOf(s) : f[p] \in Nat \ {0}
    <2>1. NodesOf(s.target) \in SUBSET (Nat \ {0})
      BY NodesAreNaturals DEF SoughtValue
    <2> QED
      BY <1>4, <2>1 DEF EmbeddingsOf
  <1>6. ASSUME NEW f \in EmbeddingsOf(s), Extends(s, f, st)
        PROVE  f[p] < frame.next_target \/ t <= f[p]
    <2>1. f[p] >= frame.next_target => f[p] \in C
      BY <1>6, EmbeddingsAreCandidates
    <2> QED
      BY <1>2, <1>4, <1>5, <2>1
  <1> QED
    BY <1>1, <1>2, <1>3, <1>4, <1>5, <1>6

(* A candidate that was tried to the end puts its embeddings behind.       *)
LEMMA BehindAdvances ==
    ASSUME NEW s, SoughtValue(s), NEW stack, NEW chain, NEW n \in Nat \ {0}, Path(s, stack, chain, n),
           NEW t, IsNext(chain[n], stack[n], t), NEW after, Advanced(stack, after, n, t + 1),
           NEW f \in EmbeddingsOf(s)
    PROVE  Behind(s, f, after, chain, n)
           <=> \/ Behind(s, f, stack, chain, n)
               \/ Extends(s, f, chain[n]) /\ f[stack[n].pattern_index] = t
  <1>1. n \in 1..n /\ Fine(s, chain[n]) /\ stack[n] \in FrameValues(s) /\ FrameFine(chain[n], stack[n])
    BY DEF Path
  <1>2. /\ t \in Nat /\ stack[n].next_target <= t /\ f[stack[n].pattern_index] \in Nat
        /\ Extends(s, f, chain[n]) =>
              f[stack[n].pattern_index] < stack[n].next_target \/ t <= f[stack[n].pattern_index]
    BY <1>1, NothingIsPassedOver
  <1>3. /\ stack[n].next_target \in Nat
        /\ after[n].next_target = t + 1 /\ after[n].pattern_index = stack[n].pattern_index
    BY <1>1 DEF FrameValues, Advanced
  <1>4. \A k \in 1..n : k # n =>
           /\ after[k].pattern_index = stack[k].pattern_index
           /\ Tried(after, n, k) = Tried(stack, n, k)
    BY DEF Tried, Advanced
  <1>5. Tried(after, n, n) = t + 1 /\ Tried(stack, n, n) = stack[n].next_target
    BY <1>3 DEF Tried
  <1>6. Extends(s, f, chain[n]) =>
           (f[after[n].pattern_index] < Tried(after, n, n)
            <=> f[stack[n].pattern_index] < Tried(stack, n, n) \/ f[stack[n].pattern_index] = t)
    BY <1>2, <1>3, <1>5
  <1>7. f[stack[n].pattern_index] = t => f[after[n].pattern_index] < Tried(after, n, n)
    BY <1>2, <1>3, <1>5
  <1> QED
    BY <1>1, <1>4, <1>6, <1>7 DEF Behind

(* A new frame has tried nothing, and what is above it waits.              *)
LEMMA BehindGrows ==
    ASSUME NEW s, SoughtValue(s), NEW stack, NEW chain, NEW n \in Nat \ {0}, Path(s, stack, chain, n),
           NEW t, IsNext(chain[n], stack[n], t), NEW after, Advanced(stack, after, n, t + 1),
           after[n + 1].next_target = 1, after[n + 1].pattern_index \in NodesOf(s.pattern),
           NEW longer, \A k \in 1..n : longer[k] = chain[k],
           NEW f \in EmbeddingsOf(s)
    PROVE  Behind(s, f, after, longer, n + 1) <=> Behind(s, f, stack, chain, n)
  <1>1. n \in 1..n /\ Fine(s, chain[n]) /\ stack[n] \in FrameValues(s) /\ FrameFine(chain[n], stack[n])
    BY DEF Path
  <1>2. /\ t \in Nat /\ stack[n].next_target <= t /\ f[stack[n].pattern_index] \in Nat
        /\ Extends(s, f, chain[n]) =>
              f[stack[n].pattern_index] < stack[n].next_target \/ t <= f[stack[n].pattern_index]
    BY <1>1, NothingIsPassedOver
  <1>3. /\ stack[n].next_target \in Nat
        /\ after[n].next_target = t + 1 /\ after[n].pattern_index = stack[n].pattern_index
    BY <1>1 DEF FrameValues, Advanced
  <1>4. \A k \in 1..n : k # n =>
           /\ after[k].pattern_index = stack[k].pattern_index
           /\ Tried(after, n + 1, k) = Tried(stack, n, k)
    BY DEF Tried, Advanced
  <1>5. Tried(after, n + 1, n) = t /\ Tried(stack, n, n) = stack[n].next_target
    BY <1>2, <1>3 DEF Tried, Choice
  <1>6. Extends(s, f, chain[n]) =>
           (f[after[n].pattern_index] < Tried(after, n + 1, n)
            <=> f[stack[n].pattern_index] < Tried(stack, n, n))
    BY <1>2, <1>3, <1>5
  <1>7. ~(f[after[n + 1].pattern_index] < Tried(after, n + 1, n + 1))
    <2>1. Tried(after, n + 1, n + 1) = 1
      BY DEF Tried
    <2>2. NodesOf(s.target) \in SUBSET (Nat \ {0})
      BY NodesAreNaturals DEF SoughtValue
    <2>3. f[after[n + 1].pattern_index] \in Nat \ {0}
      BY <2>2 DEF EmbeddingsOf
    <2> QED
      BY <2>1, <2>3
  <1>8. \A k \in 1..n :
           (Extends(s, f, longer[k]) /\ f[after[k].pattern_index] < Tried(after, n + 1, k))
           <=> (Extends(s, f, chain[k]) /\ f[stack[k].pattern_index] < Tried(stack, n, k))
    BY <1>4, <1>6
  <1>9. \A k : k \in 1..(n + 1) <=> k \in 1..n \/ k = n + 1
    OBVIOUS
  <1> QED
    BY <1>7, <1>8, <1>9 DEF Behind

(* A frame without candidates is behind with all its embeddings, and they  *)
(* are those of the choice above it.                                       *)
LEMMA BehindShrinks ==
    ASSUME NEW s, SoughtValue(s), NEW stack, NEW chain, NEW n \in Nat \ {0}, Path(s, stack, chain, n + 1),
           CandidatesIn(chain[n + 1], stack[n + 1]) = {},
           NEW after, \A k \in 1..n : after[k] = stack[k],
           NEW f \in EmbeddingsOf(s)
    PROVE  Behind(s, f, after, chain, n) <=> Behind(s, f, stack, chain, n + 1)
  <1>1. /\ Fine(s, chain[n]) /\ stack[n] \in FrameValues(s) /\ FrameFine(chain[n], stack[n])
        /\ Fine(s, chain[n + 1]) /\ stack[n + 1] \in FrameValues(s) /\ FrameFine(chain[n + 1], stack[n + 1])
        /\ Choice(stack[n]) \in Unmapped(chain[n].target)
        /\ chain[n + 1] = PushedIn(s, chain[n], stack[n].pattern_index, Choice(stack[n]))
    <2>1. n \in 1..(n + 1) /\ n + 1 \in 1..(n + 1) /\ n < n + 1
      OBVIOUS
    <2> QED
      BY <2>1 DEF Path
  <1>2. Extends(s, f, chain[n + 1]) <=> Extends(s, f, chain[n]) /\ f[stack[n].pattern_index] = Choice(stack[n])
    BY <1>1, ExtendsPushed DEF FrameFine
  <1>3. f[stack[n].pattern_index] \in Nat /\ f[stack[n + 1].pattern_index] \in Nat
    <2>1. NodesOf(s.target) \in SUBSET (Nat \ {0})
      BY NodesAreNaturals DEF SoughtValue
    <2>2. stack[n].pattern_index \in NodesOf(s.pattern) /\ stack[n + 1].pattern_index \in NodesOf(s.pattern)
      BY <1>1 DEF FrameValues
    <2> QED
      BY <2>1, <2>2 DEF EmbeddingsOf
  <1>4. stack[n].next_target \in Nat /\ stack[n + 1].next_target \in Nat
    BY <1>1 DEF FrameValues
  <1>5. Extends(s, f, chain[n + 1]) => f[stack[n + 1].pattern_index] < stack[n + 1].next_target
    <2>1. ASSUME Extends(s, f, chain[n + 1]), f[stack[n + 1].pattern_index] >= stack[n + 1].next_target
          PROVE  FALSE
      BY <1>1, <2>1, EmbeddingsAreCandidates
    <2> QED
      BY <1>3, <1>4, <2>1
  <1>6. /\ Tried(after, n, n) = stack[n].next_target
        /\ Tried(stack, n + 1, n) = stack[n].next_target - 1
        /\ Tried(stack, n + 1, n + 1) = stack[n + 1].next_target
        /\ \A k \in 1..n : k # n => Tried(after, n, k) = Tried(stack, n + 1, k)
    BY DEF Tried, Choice
  <1>7. (Extends(s, f, chain[n]) /\ f[after[n].pattern_index] < Tried(after, n, n))
        <=> \/ Extends(s, f, chain[n]) /\ f[stack[n].pattern_index] < Tried(stack, n + 1, n)
            \/ Extends(s, f, chain[n + 1]) /\ f[stack[n + 1].pattern_index] < Tried(stack, n + 1, n + 1)
    BY <1>2, <1>3, <1>4, <1>5, <1>6 DEF Choice
  <1>8. \A k : k \in 1..(n + 1) <=> k \in 1..n \/ k = n + 1
    OBVIOUS
  <1>9. n \in 1..n
    OBVIOUS
  <1> QED
    BY <1>6, <1>7, <1>8, <1>9 DEF Behind

(* When the first frame runs out of candidates, everything is behind.      *)
LEMMA AllIsBehind ==
    ASSUME NEW s, SoughtValue(s), NEW stack, NEW chain, Path(s, stack, chain, 1),
           CandidatesIn(chain[1], stack[1]) = {}, NEW f \in EmbeddingsOf(s)
    PROVE  Behind(s, f, stack, chain, 1)
  <1>1. /\ chain[1] = NewState(s.pattern, s.target)
        /\ Fine(s, chain[1]) /\ stack[1] \in FrameValues(s) /\ FrameFine(chain[1], stack[1])
    BY DEF Path
  <1>2. Extends(s, f, chain[1])
    BY <1>1, NewStateIsFine DEF Extends, Mapped
  <1>3. f[stack[1].pattern_index] \in Nat
    <2>1. NodesOf(s.target) \in SUBSET (Nat \ {0})
      BY NodesAreNaturals DEF SoughtValue
    <2> QED
      BY <1>1, <2>1 DEF EmbeddingsOf, FrameValues
  <1>4. ~(f[stack[1].pattern_index] >= stack[1].next_target)
    BY <1>1, <1>2, EmbeddingsAreCandidates
  <1>5. f[stack[1].pattern_index] < stack[1].next_target
    BY <1>1, <1>3, <1>4 DEF FrameValues
  <1> QED
    BY <1>2, <1>5 DEF Behind, Tried

(* The mapping that a choice completes is the one embedding of the choice, *)
(* and the search has not passed it.                                       *)
OnlyNew(s, g, stack, chain, n, t) ==
    /\ g \in EmbeddingsOf(s) /\ ~Behind(s, g, stack, chain, n)
    /\ \A f \in EmbeddingsOf(s) : Extends(s, f, chain[n]) /\ f[stack[n].pattern_index] = t <=> f = g

(* So an embedding is emitted once.                                        *)
LEMMA EmittedIsNew ==
    ASSUME NEW s, SoughtValue(s), NEW stack, NEW chain, NEW n \in Nat \ {0}, Path(s, stack, chain, n),
           NEW t, IsNext(chain[n], stack[n], t),
           FeasibleIn(s, chain[n], stack[n].pattern_index, t),
           NEW pushed, pushed = PushedIn(s, chain[n], stack[n].pattern_index, t), IsComplete(pushed)
    PROVE  OnlyNew(s, pushed.pattern.mapping, stack, chain, n, t)
  <1> DEFINE g == pushed.pattern.mapping
             p == stack[n].pattern_index
  <1>1. n \in 1..n /\ Fine(s, chain[n]) /\ stack[n] \in FrameValues(s) /\ FrameFine(chain[n], stack[n])
    BY DEF Path
  <1>2. t \in Unmapped(chain[n].target) /\ t \in Nat /\ stack[n].next_target <= t /\ stack[n].next_target \in Nat
    BY <1>1, NothingIsPassedOver DEF FrameValues
  <1>3. p \in Unmapped(chain[n].pattern) /\ Fine(s, pushed)
    BY <1>1, <1>2, PushedIsFine DEF FrameFine
  <1>4. /\ g \in EmbeddingsOf(s) /\ Extends(s, g, pushed)
        /\ \A f \in EmbeddingsOf(s) : Extends(s, f, pushed) => f = g
    BY <1>3, CompleteIsEmbedding
  <1>5. ASSUME NEW f \in EmbeddingsOf(s)
        PROVE  Extends(s, f, pushed) <=> Extends(s, f, chain[n]) /\ f[p] = t
    <2> HIDE DEF p
    <2>1. Extends(s, f, PushedIn(s, chain[n], p, t)) <=> Extends(s, f, chain[n]) /\ f[p] = t
      BY <1>1, <1>2, <1>3, ExtendsPushed
    <2> QED
      BY <2>1 DEF p
  <1>6. Extends(s, g, chain[n]) /\ g[p] = t
    BY <1>4, <1>5
  <1>7. ASSUME NEW k \in 1..n PROVE ~(g[stack[k].pattern_index] < Tried(stack, n, k))
    <2>1. CASE k = n
      BY <1>2, <1>6, <2>1 DEF Tried
    <2>2. CASE k # n
      <3>1. k < n
        BY <2>2
      <3>2. /\ stack[k].pattern_index \in Mapped(s.pattern, chain[n].pattern)
            /\ chain[n].pattern.mapping[stack[k].pattern_index] = Choice(stack[k])
        BY <1>1, <3>1 DEF Path
      <3>3. g[stack[k].pattern_index] = Choice(stack[k])
        BY <1>6, <3>2 DEF Extends
      <3>4. stack[k] \in FrameValues(s)
        BY DEF Path
      <3>5. Choice(stack[k]) \in Int /\ Tried(stack, n, k) = Choice(stack[k])
        BY <2>2, <3>4 DEF Choice, Tried, FrameValues
      <3> QED
        BY <3>3, <3>5
    <2> QED
      BY <2>1, <2>2
  <1>8. ~Behind(s, g, stack, chain, n)
    BY <1>7 DEF Behind
  <1> QED
    BY <1>4, <1>5, <1>8 DEF OnlyNew

-------------------------------------------------------------------------------
(* Each step keeps the search on its path *)

(* The cap of the search, wherever it comes from, is a natural.            *)
LEMMA CapIsNatural ==
    ASSUME NEW s, SoughtValue(s)
    PROVE  CapOf(s) \in Nat
  <1>1. Min({s.max_matches, s.limit}) \in {s.max_matches, s.limit}
    <2>1. {s.max_matches, s.limit} \in SUBSET Nat /\ {s.max_matches, s.limit} # {}
      BY DEF SoughtValue
    <2> QED
      BY <2>1, LeastOfNaturals
  <1> QED
    BY <1>1 DEF CapOf, SoughtValue

(* The top frame goes on to the candidate after the one it took.           *)
LEMMA TopAdvances ==
    ASSUME NEW s, NEW stack \in Seq(FrameValues(s)), stack # <<>>, NEW next \in Nat \ {0}
    PROVE  LET after == [stack EXCEPT ![Len(stack)].next_target = next]
           IN /\ Len(after) = Len(stack) /\ after # <<>> /\ after \in Seq(FrameValues(s))
              /\ Advanced(stack, after, Len(stack), next)
  <1> DEFINE n == Len(stack)
             top == [stack[n] EXCEPT !.next_target = next]
             after == [stack EXCEPT ![n] = top]
  <1>1. n \in Nat \ {0} /\ n \in 1..n
    BY EmptySeq
  <1>2. top \in FrameValues(s)
    <2>1. stack[n] \in FrameValues(s)
      BY <1>1
    <2> QED
      BY <2>1 DEF FrameValues
  <1> HIDE DEF top
  <1>3. /\ after \in Seq(FrameValues(s)) /\ Len(after) = n
        /\ \A k \in 1..n : k # n => after[k] = stack[k]
        /\ after[n] = top
    BY <1>1, <1>2
  <1>4. after # <<>>
    BY <1>1, <1>3, Zenon
  <1> QED
    BY <1>1, <1>3, <1>4 DEF top, Advanced

(* What the lemmas below have in common.                                   *)
Taking(s, st, stack, found, chain, t) ==
    /\ SearchInv(s, st, stack, found, TRUE, chain)
    /\ stack # <<>> /\ Len(found) < CapOf(s)
    /\ IsNext(st, stack[Len(stack)], t)

OnPath(s, st, stack, found, chain, t, n) ==
    /\ SoughtValue(s) /\ stack \in Seq(FrameValues(s)) /\ stack # <<>> /\ n = Len(stack) /\ n \in Nat \ {0}
    /\ Path(s, stack, chain, n) /\ st = chain[n] /\ Fine(s, st)
    /\ stack[n].pattern_index \in Unmapped(st.pattern)
    /\ t \in Unmapped(st.target) /\ t \in Nat
    /\ IsNext(chain[n], stack[n], t)
    /\ \A f \in EmbeddingsOf(s) : f \in ToSet(found) <=> Behind(s, f, stack, chain, n)
    /\ found \in Seq(EmbeddingsOf(s)) /\ IsInjective(found) /\ Len(found) < CapOf(s)

(* A step starts on the path, with a candidate that is free.               *)
LEMMA TakingIsOnPath ==
    ASSUME NEW s, NEW st, NEW stack, NEW found, NEW chain, NEW t, Taking(s, st, stack, found, chain, t)
    PROVE  OnPath(s, st, stack, found, chain, t, Len(stack))
  <1> DEFINE n == Len(stack)
  <1>1. /\ SoughtValue(s) /\ stack \in Seq(FrameValues(s)) /\ stack # <<>>
        /\ Path(s, stack, chain, n) /\ st = chain[n]
    BY DEF Taking, SearchInv, WalkFine
  <1>2. n \in Nat \ {0} /\ n \in 1..n
    BY <1>1, EmptySeq
  <1>3. /\ \A f \in EmbeddingsOf(s) : f \in ToSet(found) <=> Behind(s, f, stack, chain, n)
        /\ found \in Seq(EmbeddingsOf(s)) /\ IsInjective(found)
    BY DEF Taking, SearchInv, Collected
  <1> HIDE DEF n
  <1>4. Fine(s, st) /\ stack[n] \in FrameValues(s) /\ FrameFine(st, stack[n])
    BY <1>1, <1>2 DEF Path
  <1>5. t \in Unmapped(st.target) /\ t \in Nat
    <2>1. IsNext(st, stack[n], t)
      BY DEF Taking, n
    <2> QED
      BY <1>1, <1>4, <2>1, NothingIsPassedOver
  <1>6. stack[n].pattern_index \in Unmapped(st.pattern)
    BY <1>4 DEF FrameFine
  <1>7. IsNext(st, stack[n], t) /\ Len(found) < CapOf(s)
    BY DEF Taking, n
  <1> QED
    BY <1>1, <1>2, <1>3, <1>4, <1>5, <1>6, <1>7 DEF OnPath, n

(* A candidate that is not feasible is the image in no embedding.          *)
LEMMA SkipStays ==
    ASSUME NEW s, NEW st, NEW stack, NEW found, NEW chain, NEW t, Taking(s, st, stack, found, chain, t),
           ~FeasibleIn(s, st, stack[Len(stack)].pattern_index, t)
    PROVE  SearchInv(s, st, [stack EXCEPT ![Len(stack)].next_target = t + 1], found, TRUE, chain)
  <1> DEFINE n == Len(stack)
             after == [stack EXCEPT ![Len(stack)].next_target = t + 1]
             p == stack[n].pattern_index
  <1>0. OnPath(s, st, stack, found, chain, t, n)
    BY TakingIsOnPath
  <1>1. /\ SoughtValue(s) /\ stack \in Seq(FrameValues(s)) /\ n \in Nat \ {0} /\ n = Len(stack) /\ stack # <<>>
        /\ Path(s, stack, chain, n) /\ st = chain[n] /\ Fine(s, st)
        /\ p \in Unmapped(st.pattern) /\ t + 1 \in Nat \ {0}
        /\ IsNext(chain[n], stack[n], t)
        /\ \A f \in EmbeddingsOf(s) : f \in ToSet(found) <=> Behind(s, f, stack, chain, n)
    BY <1>0 DEF OnPath
  <1>2. Collected(s, stack, chain, found, TRUE)
    BY DEF Taking, SearchInv
  <1>3. /\ Len(after) = n /\ after # <<>> /\ after \in Seq(FrameValues(s))
        /\ Advanced(stack, after, n, t + 1)
    BY <1>1, TopAdvances
  <1>4. ~FeasibleIn(s, st, p, t)
    OBVIOUS
  <1> HIDE DEF n, after, p
  <1>5. Path(s, after, chain, n)
    BY <1>1, <1>3, PathAdvances
  <1>6. ASSUME NEW f \in EmbeddingsOf(s) PROVE Behind(s, f, after, chain, n) <=> Behind(s, f, stack, chain, n)
    <2>1. ~(Extends(s, f, chain[n]) /\ f[p] = t)
      BY <1>1, <1>4, EmbeddingsAreFeasible
    <2>2. Behind(s, f, after, chain, n)
          <=> \/ Behind(s, f, stack, chain, n)
              \/ Extends(s, f, chain[n]) /\ f[stack[n].pattern_index] = t
      BY <1>1, <1>3, BehindAdvances
    <2> QED
      BY <2>1, <2>2 DEF p
  <1>7. Collected(s, after, chain, found, TRUE)
    BY <1>1, <1>2, <1>3, <1>6 DEF Collected
  <1>8. WalkFine(s, st, after, chain)
    BY <1>1, <1>3, <1>5 DEF WalkFine
  <1>9. SearchInv(s, st, after, found, TRUE, chain)
    BY <1>1, <1>7, <1>8 DEF SearchInv
  <1> QED
    BY <1>9 DEF after

(* A feasible candidate that completes nothing gets a frame of its own.    *)
LEMMA ExtendGrows ==
    ASSUME NEW s, NEW st, NEW stack, NEW found, NEW chain, NEW t, Taking(s, st, stack, found, chain, t),
           FeasibleIn(s, st, stack[Len(stack)].pattern_index, t),
           NEW pushed, pushed = PushedIn(s, st, stack[Len(stack)].pattern_index, t), ~IsComplete(pushed)
    PROVE  \E longer : SearchInv(s, pushed, Append([stack EXCEPT ![Len(stack)].next_target = t + 1],
                                                   SearchFrame(pushed, TRUE)),
                                 found, TRUE, longer)
  <1> DEFINE n == Len(stack)
             top == [stack EXCEPT ![Len(stack)].next_target = t + 1]
             frame == SearchFrame(pushed, TRUE)
             after == Append(top, frame)
             longer == [k \in 1..(n + 1) |-> IF k = n + 1 THEN pushed ELSE chain[k]]
             p == stack[n].pattern_index
  <1>0. OnPath(s, st, stack, found, chain, t, n)
    BY TakingIsOnPath
  <1>1. /\ SoughtValue(s) /\ stack \in Seq(FrameValues(s)) /\ n \in Nat \ {0} /\ n = Len(stack) /\ stack # <<>>
        /\ Path(s, stack, chain, n) /\ st = chain[n] /\ Fine(s, st)
        /\ p \in Unmapped(st.pattern) /\ t + 1 \in Nat \ {0} /\ t \in Nat /\ t \in Unmapped(st.target)
        /\ IsNext(chain[n], stack[n], t)
        /\ \A f \in EmbeddingsOf(s) : f \in ToSet(found) <=> Behind(s, f, stack, chain, n)
    BY <1>0 DEF OnPath
  <1>2. Collected(s, stack, chain, found, TRUE)
    BY DEF Taking, SearchInv
  <1>3. Len(top) = n /\ top # <<>> /\ top \in Seq(FrameValues(s)) /\ Advanced(stack, top, n, t + 1)
    BY <1>1, TopAdvances
  <1>4. FeasibleIn(s, st, p, t) /\ pushed = PushedIn(s, st, p, t)
    OBVIOUS
  <1> HIDE DEF n, top, p
  <1>5. Fine(s, pushed)
    BY <1>1, <1>4, PushedIsFine
  <1>6. frame \in FrameValues(s) /\ frame.next_target = 1 /\ frame.pattern_index \in NodesOf(s.pattern)
    <2>1. frame \in FrameValues(s) /\ frame.next_target = 1
      BY <1>1, <1>5, FramesAreFine
    <2> QED
      BY <2>1 DEF FrameValues
  <1>7. Path(s, top, chain, n)
    BY <1>1, <1>3, PathAdvances
  <1> HIDE DEF frame
  <1>8. /\ after \in Seq(FrameValues(s)) /\ Len(after) = n + 1 /\ after # <<>>
        /\ \A k \in 1..n : after[k] = top[k]
        /\ after[n + 1] = frame
    BY <1>1, <1>3, <1>6
  <1>9. (\A k \in 1..n : longer[k] = chain[k]) /\ longer[n + 1] = pushed
    BY <1>1
  <1> HIDE DEF after, longer
  <1>10. top[n].pattern_index = p /\ Choice(top[n]) = t
    <2>1. stack[n] \in FrameValues(s)
      BY <1>1 DEF Path
    <2>2. top[n] = [stack[n] EXCEPT !.next_target = t + 1]
      BY <1>3 DEF Advanced
    <2> QED
      BY <1>1, <2>1, <2>2 DEF FrameValues, Choice, p
  <1>11. Path(s, after, longer, n + 1)
    <2>1. FeasibleIn(s, chain[n], top[n].pattern_index, Choice(top[n]))
      BY <1>1, <1>4, <1>10
    <2>2. pushed = PushedIn(s, chain[n], top[n].pattern_index, Choice(top[n]))
      BY <1>1, <1>4, <1>10
    <2>3. Choice(top[n]) \in Unmapped(chain[n].target)
      BY <1>1, <1>10
    <2>4. Joined(top, chain, n, pushed, after, longer)
      BY <1>8, <1>9 DEF Joined, frame
    <2> QED
      BY <1>1, <1>7, <2>1, <2>2, <2>3, <2>4, PathGrows
  <1>12. Advanced(stack, after, n, t + 1)
    BY <1>1, <1>3, <1>8 DEF Advanced
  <1>13. ASSUME NEW f \in EmbeddingsOf(s)
         PROVE  Behind(s, f, after, longer, n + 1) <=> Behind(s, f, stack, chain, n)
    <2>1. after[n + 1].next_target = 1 /\ after[n + 1].pattern_index \in NodesOf(s.pattern)
      BY <1>6, <1>8
    <2> QED
      BY <1>1, <1>9, <1>12, <2>1, BehindGrows
  <1>14. Collected(s, after, longer, found, TRUE)
    BY <1>1, <1>2, <1>8, <1>13 DEF Collected
  <1>15. WalkFine(s, pushed, after, longer)
    BY <1>8, <1>9, <1>11 DEF WalkFine
  <1>16. SearchInv(s, pushed, after, found, TRUE, longer)
    BY <1>1, <1>14, <1>15 DEF SearchInv
  <1> QED
    BY <1>16 DEF after, top, frame

(* One more match, and no embedding twice.                                 *)
LEMMA MatchesGrow ==
    ASSUME NEW S, NEW found \in Seq(S), IsInjective(found), NEW g \in S, g \notin ToSet(found)
    PROVE  /\ Append(found, g) \in Seq(S) /\ IsInjective(Append(found, g))
           /\ Len(Append(found, g)) = Len(found) + 1
           /\ ToSet(Append(found, g)) = ToSet(found) \cup {g}
  <1> DEFINE n == Len(found)
             more == Append(found, g)
  <1>1. /\ n \in Nat /\ DOMAIN found = 1..n
        /\ more \in Seq(S) /\ Len(more) = n + 1 /\ DOMAIN more = 1..(n + 1)
        /\ more[n + 1] = g /\ \A i \in 1..n : more[i] = found[i]
    OBVIOUS
  <1> HIDE DEF n, more
  <1>2. \A i \in 1..(n + 1) : i \in 1..n \/ i = n + 1
    BY <1>1
  <1>3. \A i \in 1..n : found[i] # g
    BY <1>1 DEF ToSet
  <1>4. IsInjective(more)
    BY <1>1, <1>2, <1>3 DEF IsInjective
  <1>5. ToSet(more) = ToSet(found) \cup {g}
    BY <1>1, <1>2 DEF ToSet
  <1> QED
    BY <1>1, <1>4, <1>5 DEF n, more

(* A choice that completes the mapping adds the embedding it completes.    *)
LEMMA EmitCollects ==
    ASSUME NEW s, NEW st, NEW stack, NEW found, NEW chain, NEW t, Taking(s, st, stack, found, chain, t),
           FeasibleIn(s, st, stack[Len(stack)].pattern_index, t),
           NEW pushed, pushed = PushedIn(s, st, stack[Len(stack)].pattern_index, t), IsComplete(pushed)
    PROVE  SearchInv(s, Popped(pushed), [stack EXCEPT ![Len(stack)].next_target = t + 1],
                     Append(found, pushed.pattern.mapping), TRUE, chain)
  <1> DEFINE n == Len(stack)
             after == [stack EXCEPT ![Len(stack)].next_target = t + 1]
             g == pushed.pattern.mapping
             more == Append(found, g)
             p == stack[n].pattern_index
  <1>0. OnPath(s, st, stack, found, chain, t, n)
    BY TakingIsOnPath
  <1>1. /\ SoughtValue(s) /\ stack \in Seq(FrameValues(s)) /\ n \in Nat \ {0} /\ n = Len(stack) /\ stack # <<>>
        /\ Path(s, stack, chain, n) /\ st = chain[n] /\ Fine(s, st)
        /\ p \in Unmapped(st.pattern) /\ t + 1 \in Nat \ {0} /\ t \in Unmapped(st.target)
        /\ IsNext(chain[n], stack[n], t)
        /\ \A f \in EmbeddingsOf(s) : f \in ToSet(found) <=> Behind(s, f, stack, chain, n)
        /\ found \in Seq(EmbeddingsOf(s)) /\ IsInjective(found) /\ Len(found) < CapOf(s)
    BY <1>0 DEF OnPath
  <1>2. Len(after) = n /\ after # <<>> /\ after \in Seq(FrameValues(s)) /\ Advanced(stack, after, n, t + 1)
    BY <1>1, TopAdvances
  <1>3. FeasibleIn(s, st, p, t) /\ pushed = PushedIn(s, st, p, t)
    OBVIOUS
  <1> HIDE DEF n, after, p
  <1>4. Popped(pushed) = st
    <2>1. IsPushed(s, st, p, t, PushedIn(s, st, p, t))
      BY <1>1, PushedFields
    <2> QED
      BY <1>3, <2>1 DEF IsPushed
  <1>5. Path(s, after, chain, n)
    BY <1>1, <1>2, PathAdvances
  <1>6. /\ g \in EmbeddingsOf(s) /\ ~Behind(s, g, stack, chain, n)
        /\ \A f \in EmbeddingsOf(s) : Extends(s, f, chain[n]) /\ f[p] = t <=> f = g
    <2>1. FeasibleIn(s, chain[n], stack[n].pattern_index, t)
      BY <1>1, <1>3 DEF p
    <2>2. pushed = PushedIn(s, chain[n], stack[n].pattern_index, t)
      BY <1>1, <1>3 DEF p
    <2>3. OnlyNew(s, pushed.pattern.mapping, stack, chain, n, t)
      BY <1>1, <2>1, <2>2, EmittedIsNew
    <2> QED
      BY <2>3 DEF OnlyNew, p
  <1> HIDE DEF g
  <1>7. /\ more \in Seq(EmbeddingsOf(s)) /\ IsInjective(more) /\ Len(more) = Len(found) + 1
        /\ ToSet(more) = ToSet(found) \cup {g}
    BY <1>1, <1>6, MatchesGrow
  <1> HIDE DEF more
  <1>8. ASSUME NEW f \in EmbeddingsOf(s) PROVE f \in ToSet(more) <=> Behind(s, f, after, chain, n)
    <2>1. Behind(s, f, after, chain, n)
          <=> \/ Behind(s, f, stack, chain, n)
              \/ Extends(s, f, chain[n]) /\ f[stack[n].pattern_index] = t
      BY <1>1, <1>2, BehindAdvances
    <2> QED
      BY <1>1, <1>6, <1>7, <2>1 DEF p
  <1>9. Len(more) <= CapOf(s)
    <2>1. Len(found) \in Nat /\ CapOf(s) \in Nat
      BY <1>1, CapIsNatural
    <2> QED
      BY <1>1, <1>7, <2>1
  <1>10. Collected(s, after, chain, more, TRUE)
    BY <1>2, <1>7, <1>8, <1>9 DEF Collected
  <1>11. WalkFine(s, st, after, chain)
    BY <1>1, <1>2, <1>5 DEF WalkFine
  <1>12. SearchInv(s, st, after, more, TRUE, chain)
    BY <1>1, <1>10, <1>11 DEF SearchInv
  <1> QED
    BY <1>4, <1>12 DEF after, more, g

(* What is left of a stack whose top frame is taken off.                   *)
LEMMA FrontFields ==
    ASSUME NEW S, NEW stack \in Seq(S), NEW n \in Nat, Len(stack) = n + 1
    PROVE  /\ Front(stack) \in Seq(S) /\ Len(Front(stack)) = n /\ Last(stack) = stack[n + 1]
           /\ \A k \in 1..n : Front(stack)[k] = stack[k]
           /\ Front(stack) = <<>> <=> n = 0
  <1>1. Front(stack) = SubSeq(stack, 1, n) /\ Last(stack) = stack[n + 1]
    BY DEF Front, Last
  <1>2. /\ SubSeq(stack, 1, n) \in Seq(S) /\ Len(SubSeq(stack, 1, n)) = n
        /\ \A k \in 1..n : SubSeq(stack, 1, n)[k] = stack[k]
    OBVIOUS
  <1>3. SubSeq(stack, 1, n) = <<>> <=> n = 0
    BY <1>2, EmptySeq
  <1> QED
    BY <1>1, <1>2, <1>3

(* A frame that is left takes its mapping with it, unless it is the first. *)
LEMMA LeavingIsFine ==
    ASSUME NEW s, SoughtValue(s), NEW st, NEW stack, NEW chain, WalkFine(s, st, stack, chain),
           NEW n \in Nat, Len(stack) = n + 1,
           NEW before, before = IF Last(stack).owns_mapping THEN Popped(st) ELSE st
    PROVE  WalkFine(s, before, Front(stack), chain)
  <1>1. /\ stack \in Seq(FrameValues(s)) /\ stack # <<>> /\ Path(s, stack, chain, n + 1) /\ st = chain[n + 1]
    BY DEF WalkFine
  <1>2. /\ Front(stack) \in Seq(FrameValues(s)) /\ Len(Front(stack)) = n /\ Last(stack) = stack[n + 1]
        /\ \A k \in 1..n : Front(stack)[k] = stack[k]
        /\ Front(stack) = <<>> <=> n = 0
    BY <1>1, FrontFields
  <1>3. Path(s, Front(stack), chain, n)
    BY <1>1, <1>2, PathShortens
  <1>4. n + 1 \in 1..(n + 1) /\ (Last(stack).owns_mapping <=> n # 0)
    <2>1. n + 1 \in 1..(n + 1)
      OBVIOUS
    <2>2. stack[n + 1].owns_mapping <=> n + 1 # 1
      BY <1>1, <2>1 DEF Path
    <2> QED
      BY <1>2, <2>1, <2>2
  <1>5. CASE n = 0
    <2>1. before = NewState(s.pattern, s.target)
      BY <1>1, <1>4, <1>5 DEF Path
    <2> QED
      BY <1>2, <1>3, <1>5, <2>1 DEF WalkFine
  <1>6. CASE n # 0
    <2>1. n \in 1..(n + 1) /\ n < n + 1
      BY <1>6
    <2>2. /\ Fine(s, chain[n]) /\ stack[n].pattern_index \in Unmapped(chain[n].pattern)
          /\ Choice(stack[n]) \in Unmapped(chain[n].target)
          /\ chain[n + 1] = PushedIn(s, chain[n], stack[n].pattern_index, Choice(stack[n]))
      BY <1>1, <2>1 DEF Path, FrameFine
    <2>3. IsPushed(s, chain[n], stack[n].pattern_index, Choice(stack[n]), chain[n + 1])
      BY <2>2, PushedFields
    <2>4. before = chain[n]
      BY <1>1, <1>4, <1>6, <2>3 DEF IsPushed
    <2> QED
      BY <1>2, <1>3, <1>6, <2>4 DEF WalkFine
  <1> QED
    BY <1>5, <1>6

(* A frame that has no candidate left leaves nothing unseen.               *)
LEMMA BacktrackStays ==
    ASSUME NEW s, NEW st, NEW stack, NEW found, NEW chain, SearchInv(s, st, stack, found, TRUE, chain),
           stack # <<>>, Len(found) < CapOf(s), CandidatesIn(st, Last(stack)) = {},
           NEW before, before = IF Last(stack).owns_mapping THEN Popped(st) ELSE st
    PROVE  SearchInv(s, before, Front(stack), found, TRUE, chain)
  <1> DEFINE n == Len(stack) - 1
  <1>1. /\ SoughtValue(s) /\ WalkFine(s, st, stack, chain) /\ Collected(s, stack, chain, found, TRUE)
        /\ stack \in Seq(FrameValues(s))
    BY DEF SearchInv, WalkFine
  <1>2. n \in Nat /\ Len(stack) = n + 1
    BY <1>1, EmptySeq
  <1> HIDE DEF n
  <1>3. /\ Path(s, stack, chain, n + 1) /\ st = chain[n + 1]
        /\ \A f \in EmbeddingsOf(s) : f \in ToSet(found) <=> Behind(s, f, stack, chain, n + 1)
    BY <1>1, <1>2 DEF WalkFine, Collected
  <1>4. WalkFine(s, before, Front(stack), chain)
    BY <1>1, <1>2, LeavingIsFine
  <1>5. /\ Len(Front(stack)) = n /\ Last(stack) = stack[n + 1]
        /\ \A k \in 1..n : Front(stack)[k] = stack[k]
        /\ Front(stack) = <<>> <=> n = 0
    BY <1>1, <1>2, FrontFields
  <1>6. CandidatesIn(chain[n + 1], stack[n + 1]) = {}
    BY <1>3, <1>5
  <1>7. ASSUME NEW f \in EmbeddingsOf(s)
        PROVE  f \in ToSet(found) <=> (Front(stack) # <<>> => Behind(s, f, Front(stack), chain, n))
    <2>1. CASE n = 0
      <3>1. Path(s, stack, chain, 1) /\ CandidatesIn(chain[1], stack[1]) = {}
        BY <1>3, <1>6, <2>1
      <3>2. Behind(s, f, stack, chain, 1)
        BY <1>1, <3>1, AllIsBehind
      <3> QED
        BY <1>3, <1>5, <2>1, <3>2
    <2>2. CASE n # 0
      <3>1. Behind(s, f, Front(stack), chain, n) <=> Behind(s, f, stack, chain, n + 1)
        BY <1>1, <1>2, <1>3, <1>5, <1>6, <2>2, BehindShrinks
      <3> QED
        BY <1>3, <1>5, <2>2, <3>1
    <2> QED
      BY <2>1, <2>2
  <1>8. Collected(s, Front(stack), chain, found, TRUE)
    BY <1>1, <1>5, <1>7 DEF Collected
  <1> QED
    BY <1>1, <1>4, <1>8 DEF SearchInv

(* Under a cap that is reached the frames are left one by one.             *)
LEMMA UnwindStays ==
    ASSUME NEW s, NEW st, NEW stack, NEW found, NEW chain, SearchInv(s, st, stack, found, TRUE, chain),
           stack # <<>>, ~(Len(found) < CapOf(s)),
           NEW before, before = IF Last(stack).owns_mapping THEN Popped(st) ELSE st
    PROVE  SearchInv(s, before, Front(stack), found, TRUE, chain)
  <1> DEFINE n == Len(stack) - 1
  <1>1. /\ SoughtValue(s) /\ WalkFine(s, st, stack, chain) /\ Collected(s, stack, chain, found, TRUE)
        /\ stack \in Seq(FrameValues(s))
    BY DEF SearchInv, WalkFine
  <1>2. n \in Nat /\ Len(stack) = n + 1
    BY <1>1, EmptySeq
  <1>3. WalkFine(s, before, Front(stack), chain)
    BY <1>1, <1>2, LeavingIsFine
  <1>4. Collected(s, Front(stack), chain, found, TRUE)
    BY <1>1 DEF Collected
  <1> QED
    BY <1>1, <1>3, <1>4 DEF SearchInv

(* The search is over when the stack is empty.                             *)
LEMMA EndIsFine ==
    ASSUME NEW s, NEW st, NEW found, NEW chain, SearchInv(s, st, <<>>, found, TRUE, chain)
    PROVE  SearchInv(s, st, <<>>, found, FALSE, chain)
  <1>1. /\ SoughtValue(s) /\ WalkFine(s, st, <<>>, chain) /\ Collected(s, <<>>, chain, found, TRUE)
    BY DEF SearchInv
  <1>2. Len(found) \in Nat /\ CapOf(s) \in Nat
    BY <1>1, CapIsNatural DEF Collected
  <1>3. Len(found) < CapOf(s) => \A f \in EmbeddingsOf(s) : f \in ToSet(found)
    BY <1>1 DEF Collected
  <1>4. Collected(s, <<>>, chain, found, FALSE)
    BY <1>1, <1>2, <1>3 DEF Collected
  <1> QED
    BY <1>1, <1>4 DEF SearchInv

(* At the start the first frame stands on nothing, and has tried nothing.  *)
LEMMA StartIsFine ==
    ASSUME NEW s, SoughtValue(s), NEW st, st = NewState(s.pattern, s.target), ~Hopeless(s)
    PROVE  SearchInv(s, st, <<SearchFrame(st, FALSE)>>, <<>>, TRUE, [k \in {1} |-> st])
  <1> DEFINE frame == SearchFrame(st, FALSE)
             stack == <<frame>>
             chain == [k \in {1} |-> st]
  <1>1. Fine(s, st) /\ Unmapped(st.pattern) = NodesOf(s.pattern)
    BY NewStateIsFine
  <1>2. NodesOf(s.pattern) # {}
    <2>1. s.pattern.kinds # <<>> /\ s.pattern.kinds \in Seq(ToSet(s.pattern.kinds))
      BY DEF Hopeless, SoughtValue, GraphValue
    <2>2. 1 \in DOMAIN s.pattern.kinds
      BY <2>1, EmptySeq
    <2> QED
      BY <2>2 DEF NodesOf
  <1>3. /\ frame \in FrameValues(s) /\ FrameFine(st, frame)
        /\ frame.owns_mapping = FALSE /\ frame.next_target = 1
    BY <1>1, <1>2, FramesAreFine DEF IsComplete
  <1> HIDE DEF frame
  <1>4. stack \in Seq(FrameValues(s)) /\ Len(stack) = 1 /\ stack # <<>> /\ stack[1] = frame /\ chain[1] = st
    BY <1>3
  <1> HIDE DEF stack, chain
  <1>5. Path(s, stack, chain, 1)
    <2>1. \A k \in 1..1 : k = 1
      OBVIOUS
    <2> QED
      BY <1>1, <1>3, <1>4, <2>1 DEF Path
  <1>6. ASSUME NEW f \in EmbeddingsOf(s) PROVE ~Behind(s, f, stack, chain, 1)
    <2>1. NodesOf(s.target) \in SUBSET (Nat \ {0})
      BY NodesAreNaturals DEF SoughtValue
    <2>2. f[frame.pattern_index] \in Nat \ {0}
      BY <1>3, <2>1 DEF EmbeddingsOf, FrameValues
    <2>3. Tried(stack, 1, 1) = 1
      BY <1>3, <1>4 DEF Tried
    <2>4. \A k \in 1..1 : k = 1
      OBVIOUS
    <2> QED
      BY <1>4, <2>2, <2>3, <2>4 DEF Behind
  <1>7. Collected(s, stack, chain, <<>>, TRUE)
    <2>1. <<>> \in Seq(EmbeddingsOf(s)) /\ Len(<<>>) = 0 /\ IsInjective(<<>>) /\ ToSet(<<>>) = {}
      BY DEF IsInjective, ToSet
    <2>2. CapOf(s) \in Nat
      BY CapIsNatural
    <2> QED
      BY <1>4, <1>6, <2>1, <2>2 DEF Collected
  <1>8. WalkFine(s, st, stack, chain)
    BY <1>4, <1>5 DEF WalkFine
  <1>9. SearchInv(s, st, stack, <<>>, TRUE, chain)
    BY <1>7, <1>8 DEF SearchInv
  <1> QED
    BY <1>9 DEF stack, chain, frame

(* A call that cannot have an answer does not search.                      *)
LEMMA HopelessIsFine ==
    ASSUME NEW s, SoughtValue(s), NEW chain, Hopeless(s)
    PROVE  SearchInv(s, NewState(s.pattern, s.target), <<>>, <<>>, FALSE, chain)
  <1>1. <<>> \in Seq(EmbeddingsOf(s)) /\ Len(<<>>) = 0 /\ IsInjective(<<>>) /\ <<>> \in Seq(FrameValues(s))
    BY DEF IsInjective
  <1>2. CapOf(s) \in Nat
    BY CapIsNatural
  <1>3. Collected(s, <<>>, chain, <<>>, FALSE)
    BY <1>1, <1>2 DEF Collected
  <1>4. Path(s, <<>>, chain, 0)
    BY DEF Path
  <1>5. WalkFine(s, NewState(s.pattern, s.target), <<>>, chain)
    BY <1>1, <1>4 DEF WalkFine
  <1> QED
    BY <1>3, <1>5 DEF SearchInv

-------------------------------------------------------------------------------
(* Counting the embeddings *)

(* There are finitely many functions between finite sets: their graphs are *)
(* sets of pairs.                                                          *)
LEMMA FunctionsAreFinite ==
    ASSUME NEW A, NEW B, IsFiniteSet(A), IsFiniteSet(B)
    PROVE  IsFiniteSet([A -> B])
  <1> DEFINE Pairs(f) == {x \in A \X B : x[2] = f[x[1]]}
             pairs == [f \in [A -> B] |-> Pairs(f)]
  <1>1. IsFiniteSet(SUBSET (A \X B))
    BY FS_Product, FS_SUBSET
  <1>2. pairs \in [[A -> B] -> SUBSET (A \X B)]
    OBVIOUS
  <1>3. ASSUME NEW f \in [A -> B], NEW g \in [A -> B], Pairs(f) = Pairs(g) PROVE f = g
    <2>1. ASSUME NEW a \in A PROVE f[a] = g[a]
      <3>1. <<a, f[a]>> \in Pairs(f)
        OBVIOUS
      <3>2. <<a, f[a]>> \in Pairs(g)
        BY <1>3, <3>1
      <3> QED
        BY <3>2
    <2> QED
      BY <2>1
  <1>4. \A f \in [A -> B] : pairs[f] = Pairs(f)
    OBVIOUS
  <1> HIDE DEF pairs, Pairs
  <1>5. pairs \in Injection([A -> B], SUBSET (A \X B))
    BY <1>2, <1>3, <1>4 DEF Injection, IsInjective
  <1> QED
    BY <1>1, <1>5, FS_Injection

(* A list without repetitions is as long as the set of its members.        *)
LEMMA ListsAreCounted ==
    ASSUME NEW S, IsFiniteSet(S), NEW found \in Seq(S), IsInjective(found)
    PROVE  /\ Len(found) \in Nat /\ Cardinality(S) \in Nat /\ Len(found) <= Cardinality(S)
           /\ (\A f \in S : f \in ToSet(found)) => Len(found) = Cardinality(S)
  <1> DEFINE n == Len(found)
  <1>1. n \in Nat /\ found \in [1..n -> S] /\ DOMAIN found = 1..n
    OBVIOUS
  <1>2. found \in Injection(1..n, S)
    BY <1>1 DEF Injection
  <1>3. /\ Cardinality(1..n) <= Cardinality(S)
        /\ Cardinality(1..n) = Cardinality(S) <=> found \in Surjection(1..n, S)
    BY <1>2, FS_Injection
  <1>4. Cardinality(1..n) = n /\ Cardinality(S) \in Nat
    <2> HIDE DEF n
    <2>1. Cardinality(1..n) = n
      BY <1>1, FS_Interval
    <2> QED
      BY <2>1, FS_CardinalityType
  <1>5. (\A f \in S : f \in ToSet(found)) => found \in Surjection(1..n, S)
    BY <1>1 DEF Surjection, ToSet
  <1> HIDE DEF n
  <1>6. n <= Cardinality(S) /\ ((\A f \in S : f \in ToSet(found)) => n = Cardinality(S))
    BY <1>3, <1>4, <1>5
  <1> QED
    BY <1>1, <1>4, <1>6 DEF n

(* The cap is the smaller of the two limits.                               *)
LEMMA SmallerOfTwo ==
    ASSUME NEW a \in Nat, NEW b \in Nat
    PROVE  Min({a, b}) = IF a <= b THEN a ELSE b
  <1>1. Min({a, b}) \in {a, b} /\ \A x \in {a, b} : Min({a, b}) <= x
    <2>1. {a, b} \in SUBSET Nat /\ {a, b} # {}
      OBVIOUS
    <2> QED
      BY <2>1, LeastOfNaturals
  <1> QED
    BY <1>1

(* What the search has when it is over.                                    *)
LEMMA OverIsExact ==
    ASSUME NEW s, NEW st, NEW stack, NEW found, NEW chain,
           SearchInv(s, st, stack, found, FALSE, chain), ~Hopeless(s)
    PROVE  /\ ToSet(found) \subseteq EmbeddingsOf(s) /\ IsInjective(found)
           /\ Len(found) = Min({CapOf(s), Cardinality(EmbeddingsOf(s))})
           /\ st = NewState(s.pattern, s.target)
  <1> DEFINE E == EmbeddingsOf(s)
  <1>1. /\ SoughtValue(s) /\ stack = <<>> /\ st = NewState(s.pattern, s.target)
        /\ found \in Seq(E) /\ IsInjective(found) /\ Len(found) <= CapOf(s)
        /\ Len(found) >= CapOf(s) \/ \A f \in E : f \in ToSet(found)
    BY DEF SearchInv, Collected, WalkFine
  <1>2. IsFiniteSet(E)
    <2>1. IsFiniteSet([NodesOf(s.pattern) -> NodesOf(s.target)])
      BY <1>1, NodesAreNaturals, FunctionsAreFinite DEF SoughtValue
    <2>2. E \in SUBSET [NodesOf(s.pattern) -> NodesOf(s.target)]
      BY DEF EmbeddingsOf
    <2> QED
      BY <2>1, <2>2, FS_Subset
  <1> HIDE DEF E
  <1>3. /\ Len(found) \in Nat /\ Cardinality(E) \in Nat /\ Len(found) <= Cardinality(E)
        /\ (\A f \in E : f \in ToSet(found)) => Len(found) = Cardinality(E)
    BY <1>1, <1>2, ListsAreCounted
  <1>4. CapOf(s) \in Nat
    BY <1>1, CapIsNatural
  <1>5. Len(found) = Min({CapOf(s), Cardinality(E)})
    BY <1>1, <1>3, <1>4, SmallerOfTwo
  <1>6. ToSet(found) \subseteq E
    BY <1>1 DEF ToSet
  <1> QED
    BY <1>1, <1>5, <1>6 DEF E

-------------------------------------------------------------------------------
(* The specification *)

MatchInv == \E chain : SearchInv(sought, state, search_stack, matches, searching, chain)

(* Every call starts on the path.                                          *)
LEMMA InitIsOnPath == InitMatching => MatchInv
  <1> SUFFICES ASSUME InitMatching PROVE MatchInv
    OBVIOUS
  <1>1. SoughtValue(sought)
    BY SearchAssumption DEF InitMatching, SoughtValue, GraphValue
  <1>2. CASE Hopeless(sought)
    <2>1. SearchInv(sought, state, search_stack, matches, searching, <<>>)
      BY <1>1, <1>2, HopelessIsFine DEF InitMatching
    <2> QED
      BY <2>1 DEF MatchInv
  <1>3. CASE ~Hopeless(sought)
    <2>1. /\ state = NewState(sought.pattern, sought.target) /\ searching = TRUE
          /\ search_stack = <<SearchFrame(state, FALSE)>> /\ matches = <<>>
      BY <1>3 DEF InitMatching
    <2>2. SearchInv(sought, state, search_stack, matches, searching, [k \in {1} |-> state])
      BY <1>1, <1>3, <2>1, StartIsFine
    <2> QED
      BY <2>2 DEF MatchInv
  <1> QED
    BY <1>2, <1>3

(* And every step of the search stays there.                               *)
LEMMA StepsStayOnPath == MatchInv /\ [NextMatching]_matchVars => MatchInv'
  <1> SUFFICES ASSUME MatchInv, [NextMatching]_matchVars PROVE MatchInv'
    OBVIOUS
  <1>1. PICK chain : SearchInv(sought, state, search_stack, matches, searching, chain)
    BY DEF MatchInv
  <1>2. SUFFICES \E after : SearchInv(sought', state', search_stack', matches', searching', after)
    BY DEF MatchInv
  <1>3. Cap = CapOf(sought) /\ CapOf(sought) \in Nat /\ Len(matches) \in Nat
    BY <1>1, ArgumentsAreTheCall, CapIsNatural DEF SearchInv, Collected
  <1>4. CASE NextCandidate
    <2> DEFINE p == TopFrame.pattern_index
               t == Min(Candidates(TopFrame))
               pushed == PushedIn(sought, state, p, t)
    <2>1. /\ searching = TRUE /\ search_stack # <<>> /\ ~Full /\ Candidates(TopFrame) # {}
          /\ Skip(p, t) \/ Extend(p, t) \/ Emit(p, t)
          /\ sought' = sought /\ searching' = searching
      BY <1>4 DEF NextCandidate, Continue
    <2>2. TopFrame = search_stack[Len(search_stack)] /\ Candidates(TopFrame) = CandidatesIn(state, TopFrame)
      BY DEF TopFrame, Last, Candidates, CandidatesIn
    <2>3. Taking(sought, state, search_stack, matches, chain, t)
      <3>1. SearchInv(sought, state, search_stack, matches, TRUE, chain)
        BY <1>1, <2>1
      <3>2. Len(matches) < CapOf(sought)
        BY <1>3, <2>1 DEF Full
      <3>3. IsNext(state, search_stack[Len(search_stack)], t)
        BY <2>1, <2>2 DEF IsNext
      <3> QED
        BY <2>1, <3>1, <3>2, <3>3 DEF Taking
    <2>4. /\ IsFeasible(p, t) <=> FeasibleIn(sought, state, p, t)
          /\ Pushed(state, p, t) = pushed
      BY ArgumentsAreTheCall
    <2>5. p = search_stack[Len(search_stack)].pattern_index
      BY <2>2
    <2> HIDE DEF p, t
    <2>6. CASE Skip(p, t)
      <3>1. SearchInv(sought, state, PastCandidate(t), matches, TRUE, chain)
        BY <2>3, <2>4, <2>5, <2>6, SkipStays DEF Skip, PastCandidate
      <3> QED
        BY <2>1, <2>6, <3>1 DEF Skip
    <2>7. CASE Extend(p, t)
      <3>1. FeasibleIn(sought, state, p, t) /\ ~IsComplete(pushed)
        BY <2>4, <2>7 DEF Extend
      <3>2. /\ state' = pushed /\ matches' = matches
            /\ search_stack' = Append(PastCandidate(t), SearchFrame(pushed, TRUE))
        BY <2>4, <2>7 DEF Extend
      <3> HIDE DEF pushed
      <3>3. pushed = PushedIn(sought, state, search_stack[Len(search_stack)].pattern_index, t)
        BY <2>5 DEF pushed
      <3>4. \E longer : SearchInv(sought, pushed, Append(PastCandidate(t), SearchFrame(pushed, TRUE)),
                                  matches, TRUE, longer)
        BY <2>3, <2>5, <3>1, <3>3, ExtendGrows DEF PastCandidate
      <3> QED
        BY <2>1, <3>2, <3>4
    <2>8. CASE Emit(p, t)
      <3>1. FeasibleIn(sought, state, p, t) /\ IsComplete(pushed)
        BY <2>4, <2>8 DEF Emit
      <3>2. /\ matches' = Append(matches, pushed.pattern.mapping)
            /\ state' = Popped(pushed) /\ search_stack' = PastCandidate(t)
        BY <2>4, <2>8 DEF Emit
      <3> HIDE DEF pushed
      <3>3. pushed = PushedIn(sought, state, search_stack[Len(search_stack)].pattern_index, t)
        BY <2>5 DEF pushed
      <3>4. SearchInv(sought, Popped(pushed), PastCandidate(t), Append(matches, pushed.pattern.mapping), TRUE, chain)
        BY <2>3, <2>5, <3>1, <3>3, EmitCollects DEF PastCandidate
      <3> QED
        BY <2>1, <3>2, <3>4
    <2> QED
      BY <2>1, <2>6, <2>7, <2>8
  <1>5. CASE Backtrack
    <2>1. /\ searching = TRUE /\ search_stack # <<>> /\ Len(matches) < CapOf(sought)
          /\ CandidatesIn(state, Last(search_stack)) = {}
      BY <1>3, <1>5 DEF Backtrack, Continue, Full, TopFrame, Candidates, CandidatesIn
    <2>2. /\ sought' = sought /\ matches' = matches /\ searching' = TRUE
          /\ search_stack' = Front(search_stack)
          /\ state' = IF Last(search_stack).owns_mapping THEN Popped(state) ELSE state
      BY <1>5, <2>1 DEF Backtrack, LeaveFrame, TopFrame
    <2>3. SearchInv(sought, state', Front(search_stack), matches, TRUE, chain)
      BY <1>1, <2>1, <2>2, BacktrackStays
    <2> QED
      BY <2>2, <2>3
  <1>6. CASE Unwind
    <2>1. searching = TRUE /\ search_stack # <<>> /\ ~(Len(matches) < CapOf(sought))
      BY <1>3, <1>6 DEF Unwind, Full
    <2>2. /\ sought' = sought /\ matches' = matches /\ searching' = TRUE
          /\ search_stack' = Front(search_stack)
          /\ state' = IF Last(search_stack).owns_mapping THEN Popped(state) ELSE state
      BY <1>6, <2>1 DEF Unwind, LeaveFrame, TopFrame
    <2>3. SearchInv(sought, state', Front(search_stack), matches, TRUE, chain)
      BY <1>1, <2>1, <2>2, UnwindStays
    <2> QED
      BY <2>2, <2>3
  <1>7. CASE EndSearch
    <2>1. SearchInv(sought, state, <<>>, matches, TRUE, chain)
      BY <1>1, <1>7 DEF EndSearch
    <2>2. SearchInv(sought, state, <<>>, matches, FALSE, chain)
      BY <2>1, EndIsFine
    <2> QED
      BY <1>7, <2>2 DEF EndSearch
  <1>8. CASE UNCHANGED matchVars
    BY <1>1, <1>8 DEF matchVars
  <1> QED
    BY <1>4, <1>5, <1>6, <1>7, <1>8 DEF NextMatching

(* On the path the fringe is the one the mapping has, and the end is exact. *)
LEMMA PathIsExact == MatchInv => SearchIsExact
  <1> SUFFICES ASSUME MatchInv PROVE SearchIsExact
    OBVIOUS
  <1>1. PICK chain : SearchInv(sought, state, search_stack, matches, searching, chain)
    BY DEF MatchInv
  <1>2. Fine(sought, state)
    <2>1. SoughtValue(sought) /\ WalkFine(sought, state, search_stack, chain)
      BY <1>1 DEF SearchInv
    <2>2. CASE search_stack = <<>>
      BY <2>1, <2>2, NewStateIsFine DEF WalkFine
    <2>3. CASE search_stack # <<>>
      <3>1. search_stack \in Seq(FrameValues(sought)) /\ Path(sought, search_stack, chain, Len(search_stack))
        BY <2>1 DEF WalkFine
      <3>2. Len(search_stack) \in 1..Len(search_stack)
        BY <2>3, <3>1, EmptySeq
      <3> QED
        BY <2>1, <2>3, <3>1, <3>2 DEF WalkFine, Path
    <2> QED
      BY <2>2, <2>3
  <1>3. ASSUME NEW g, NEW side, SideFine(g, side)
        PROVE  side.terminal = {n \in Unmapped(side) : \E m \in DOMAIN side.mapping \ Unmapped(side) :
                                   m \in Successors(g, n) \cup Predecessors(g, n)}
    <2>1. DOMAIN side.mapping = NodesOf(g)
      BY <1>3 DEF SideFine, SideValues
    <2> QED
      BY <1>3, <2>1 DEF SideFine, Adjacent
  <1>4. FringeIsExact
    BY <1>2, <1>3 DEF FringeIsExact, Fine
  <1>5. ASSUME ~searching, ~Hopeless(sought)
        PROVE  /\ ToSet(matches) \subseteq Embeddings /\ IsInjective(matches)
               /\ Len(matches) = Min({Cap, Cardinality(Embeddings)})
               /\ state = NewState(sought.pattern, sought.target)
    <2>1. SearchInv(sought, state, search_stack, matches, FALSE, chain)
      BY <1>1, <1>5 DEF SearchInv, Collected
    <2>2. Embeddings = EmbeddingsOf(sought) /\ Cap = CapOf(sought)
      BY ArgumentsAreTheCall
    <2> QED
      BY <1>5, <2>1, <2>2, OverIsExact
  <1> QED
    BY <1>4, <1>5 DEF SearchIsExact, AllAreFound

(* For every pattern, target, kinds and limits, find_matches_limited keeps *)
(* the fringe that the mapping has, and ends with every embedding once, as *)
(* many as the cap lets it.                                                *)
THEOREM SearchesAreExact == MatchingSpec => []SearchIsExact
  <1>1. InitMatching => MatchInv
    BY InitIsOnPath
  <1>2. MatchInv /\ [NextMatching]_matchVars => MatchInv'
    BY StepsStayOnPath
  <1>3. MatchInv => SearchIsExact
    BY PathIsExact
  <1> QED
    BY <1>1, <1>2, <1>3, PTL DEF MatchingSpec

-------------------------------------------------------------------------------
(* Numbers *)

(* A bounded set of naturals has a greatest member.                        *)
LEMMA MaxOfNaturals ==
    ASSUME NEW S \in SUBSET Nat, S # {}, NEW bound \in Nat, \A x \in S : x <= bound
    PROVE  Max(S) \in S /\ \A x \in S : Max(S) >= x
  <1> DEFINE U == {n \in Nat : \A x \in S : x <= n}
  <1>1. U \in SUBSET Nat /\ U # {}
    OBVIOUS
  <1>2. PICK least \in U : \A n \in U : least <= n
    BY <1>1, LeastOfNaturals
  <1>3. least \in S
    <2>1. SUFFICES ASSUME least \notin S PROVE FALSE
      OBVIOUS
    <2>2. \A x \in S : x <= least - 1
      BY <1>2, <2>1
    <2>3. least - 1 \in Nat
      <3>1. PICK x : x \in S
        OBVIOUS
      <3> QED
        BY <1>2, <2>2, <3>1
    <2>4. least - 1 \in U
      BY <2>2, <2>3
    <2> QED
      BY <1>2, <2>4
  <1>4. \A x \in S : least >= x
    BY <1>2
  <1> QED
    BY <1>3, <1>4 DEF Max

LEMMA LargerIsNatural ==
    ASSUME NEW x \in Nat, NEW y \in Nat
    PROVE  Max({x, y}) \in Nat
  <1>1. \E m \in {x, y} : \A z \in {x, y} : m >= z
    OBVIOUS
  <1>2. Max({x, y}) \in {x, y}
    BY <1>1 DEF Max
  <1> QED
    BY <1>2

(* Costs are natural numbers: sums, products and halves of such.           *)
LEMMA SumIsNatural ==
    ASSUME NEW x \in Nat, NEW y \in Nat
    PROVE  x + y \in Nat
  OBVIOUS

LEMMA ProductIsNatural ==
    ASSUME NEW x \in Nat, NEW y \in Nat
    PROVE  x * y \in Nat /\ (x * y) \div 2 \in Nat
  <1>1. x * y \in Nat
    OBVIOUS
  <1> DEFINE product == x * y
  <1> HIDE DEF product
  <1>2. product \in Nat => product \div 2 \in Nat
    OBVIOUS
  <1> QED
    BY <1>1, <1>2 DEF product

-------------------------------------------------------------------------------
(* The matrix of star costs *)

(* Graphs and costs of a call, and of the same call the other way round.   *)
EditedGraph(g) == g.nodes \in Seq(ToSet(g.nodes)) /\ g.edges \in Seq(ToSet(g.edges))
CostValue(c) == c \in [node_sub: Nat, node_ins_del: Nat, edge_ins_del: Nat]

LEMMA GraphsAreFinite ==
    ASSUME NEW g, EditedGraph(g)
    PROVE  /\ Len(g.nodes) \in Nat /\ NodesIn(g) = 1..Len(g.nodes)
           /\ Len(g.edges) \in Nat /\ EdgesIn(g) = 1..Len(g.edges)
  BY DEF EditedGraph, NodesIn, EdgesIn

(* Degrees are bounded by the number of edges.                             *)
LEMMA DegreesAreNatural ==
    ASSUME NEW g, EditedGraph(g), NEW n
    PROVE  TotalDegree(g, n) \in Nat /\ TotalDegree(g, n) <= Len(g.edges) + Len(g.edges)
  <1> DEFINE out == {i \in EdgesIn(g) : g.edges[i].source = n}
             in == {i \in EdgesIn(g) : g.edges[i].target = n}
  <1>1. EdgesIn(g) = 1..Len(g.edges) /\ Len(g.edges) \in Nat
    BY GraphsAreFinite
  <1>2. IsFiniteSet(EdgesIn(g)) /\ Cardinality(EdgesIn(g)) = Len(g.edges)
    BY <1>1, FS_Interval
  <1>3. out \in SUBSET EdgesIn(g) /\ in \in SUBSET EdgesIn(g)
    OBVIOUS
  <1> HIDE DEF out, in
  <1>4. /\ IsFiniteSet(out) /\ Cardinality(out) <= Len(g.edges)
        /\ IsFiniteSet(in) /\ Cardinality(in) <= Len(g.edges)
    BY <1>2, <1>3, FS_Subset
  <1>5. Cardinality(out) \in Nat /\ Cardinality(in) \in Nat
    BY <1>4, FS_CardinalityType
  <1>6. TotalDegree(g, n) = Cardinality(out) + Cardinality(in)
    BY DEF TotalDegree, out, in
  <1> QED
    BY <1>1, <1>4, <1>5, <1>6

(* The cost of deleting one graph and inserting the other.                 *)
LEMMA DeleteAllIsNatural ==
    ASSUME NEW first, NEW second, EditedGraph(first), EditedGraph(second), NEW c, CostValue(c)
    PROVE  DeleteAllCost(first, second, c) \in Nat
  <1> DEFINE nodes == Len(first.nodes) + Len(second.nodes)
             arcs == Len(first.edges) + Len(second.edges)
  <1>1. nodes \in Nat /\ arcs \in Nat
    <2>1. Len(first.nodes) \in Nat /\ Len(first.edges) \in Nat
      BY GraphsAreFinite
    <2>2. Len(second.nodes) \in Nat /\ Len(second.edges) \in Nat
      BY GraphsAreFinite
    <2> QED
      BY <2>1, <2>2, SumIsNatural, Zenon
  <1>2. c.node_ins_del \in Nat /\ c.edge_ins_del \in Nat
    BY DEF CostValue
  <1>3. DeleteAllCost(first, second, c) = nodes * c.node_ins_del + arcs * c.edge_ins_del
    BY DEF DeleteAllCost
  <1> HIDE DEF nodes, arcs
  <1>4. nodes * c.node_ins_del \in Nat /\ arcs * c.edge_ins_del \in Nat
    BY <1>1, <1>2, ProductIsNatural
  <1> QED
    BY <1>3, <1>4

(* Degrees of all nodes together have a greatest one.                      *)
Degrees(source, target) ==
    {TotalDegree(source, n) : n \in NodesIn(source)}
        \cup {TotalDegree(target, n) : n \in NodesIn(target)}

LEMMA GreatestDegree ==
    ASSUME NEW source, NEW target, EditedGraph(source), EditedGraph(target),
           Len(source.nodes) + Len(target.nodes) # 0
    PROVE  Max(Degrees(source, target)) \in Nat
  <1> DEFINE here == {TotalDegree(source, n) : n \in NodesIn(source)}
             there == {TotalDegree(target, n) : n \in NodesIn(target)}
             small == Len(source.edges) + Len(source.edges)
             large == Len(target.edges) + Len(target.edges)
  <1>1. small \in Nat /\ NodesIn(source) = 1..Len(source.nodes) /\ Len(source.nodes) \in Nat
    BY GraphsAreFinite
  <1>2. large \in Nat /\ NodesIn(target) = 1..Len(target.nodes) /\ Len(target.nodes) \in Nat
    BY GraphsAreFinite
  <1>3. here \in SUBSET Nat /\ \A x \in here : x <= small
    BY DegreesAreNatural
  <1>4. there \in SUBSET Nat /\ \A x \in there : x <= large
    BY DegreesAreNatural
  <1>5. here \cup there # {}
    <2>1. CASE Len(source.nodes) # 0
      <3>1. 1 \in NodesIn(source)
        BY <1>1, <2>1
      <3>2. TotalDegree(source, 1) \in here
        BY <3>1
      <3> QED
        BY <3>2
    <2>2. CASE Len(target.nodes) # 0
      <3>1. 1 \in NodesIn(target)
        BY <1>2, <2>2
      <3>2. TotalDegree(target, 1) \in there
        BY <3>1
      <3> QED
        BY <3>2
    <2>3. Len(source.nodes) = 0 => Len(target.nodes) # 0
      <3> DEFINE m == Len(source.nodes)
                 n == Len(target.nodes)
      <3>1. m + n # 0
        OBVIOUS
      <3> HIDE DEF m, n
      <3>2. m = 0 => n # 0
        BY <3>1
      <3> QED
        BY <3>2 DEF m, n
    <2> QED
      BY <2>1, <2>2, <2>3
  <1> HIDE DEF here, there, small, large
  <1>6. \A x \in here \cup there : x <= small + large
    BY <1>1, <1>2, <1>3, <1>4
  <1>7. Max(here \cup there) \in here \cup there
    BY <1>1, <1>2, <1>3, <1>4, <1>5, <1>6, MaxOfNaturals
  <1> QED
    BY <1>3, <1>4, <1>7 DEF here, there, Degrees

(* The matrix is square and holds natural numbers.                         *)
Matrix(n) == [1..n -> [1..n -> Nat]]

THEOREM MatrixIsNatural ==
    ASSUME NEW source, NEW target, EditedGraph(source), EditedGraph(target),
           Len(source.nodes) + Len(target.nodes) # 0,
           NEW c, CostValue(c), NEW upper \in Nat
    PROVE  LET n == Len(source.nodes) + Len(target.nodes)
           IN /\ n \in Nat
              /\ CostMatrix(source, target, c, upper) \in Matrix(n)
              /\ Len(CostMatrix(source, target, c, upper)) = n
  <1> DEFINE s == Len(source.nodes)
             t == Len(target.nodes)
             greatest == Max(Degrees(source, target))
             forbidden == upper + Max({c.node_sub, c.node_ins_del})
                              + (c.edge_ins_del * greatest) \div 2 + 4
             substitution(i, j) ==
                (IF source.nodes[i].tag = target.nodes[j].tag THEN 0 ELSE c.node_sub)
                    + (Difference(TotalDegree(source, i), TotalDegree(target, j))
                          * c.edge_ins_del) \div 2
             entry(i, j) ==
                CASE i <= s /\ j <= t -> substitution(i, j)
                  [] j = t + i /\ i <= s -> StarCost(source, i, c)
                  [] i = s + j /\ j <= t -> StarCost(target, j, c)
                  [] i > s /\ j > t -> 0
                  [] OTHER -> forbidden
  <1>1. s \in Nat /\ t \in Nat
    <2>1. s \in Nat
      BY GraphsAreFinite
    <2>2. t \in Nat
      BY GraphsAreFinite
    <2> QED
      BY <2>1, <2>2
  <1>2. c.node_sub \in Nat /\ c.node_ins_del \in Nat /\ c.edge_ins_del \in Nat
    BY DEF CostValue
  <1>3. forbidden \in Nat
    <2>1. greatest \in Nat
      BY GreatestDegree
    <2>2. (c.edge_ins_del * greatest) \div 2 \in Nat
      BY <1>2, <2>1, ProductIsNatural
    <2>3. Max({c.node_sub, c.node_ins_del}) \in Nat
      BY <1>2, LargerIsNatural
    <2> QED
      BY <2>2, <2>3
  <1>4. ASSUME NEW g, EditedGraph(g), NEW i PROVE StarCost(g, i, c) \in Nat
    <2>1. (TotalDegree(g, i) * c.edge_ins_del) \div 2 \in Nat
      BY <1>2, <1>4, DegreesAreNatural, ProductIsNatural
    <2> QED
      BY <1>2, <2>1 DEF StarCost
  <1>5. ASSUME NEW i, NEW j PROVE substitution(i, j) \in Nat
    <2>1. TotalDegree(source, i) \in Nat /\ TotalDegree(target, j) \in Nat
      BY DegreesAreNatural
    <2>2. Difference(TotalDegree(source, i), TotalDegree(target, j)) \in Nat
      BY <2>1 DEF Difference
    <2>3. (Difference(TotalDegree(source, i), TotalDegree(target, j)) * c.edge_ins_del) \div 2 \in Nat
      BY <1>2, <2>2, ProductIsNatural
    <2> QED
      BY <1>2, <2>3
  <1>6. StarCost(source, 1, c) \in Nat /\ \A i : StarCost(source, i, c) \in Nat /\ StarCost(target, i, c) \in Nat
    BY <1>4
  <1>7. CostMatrix(source, target, c, upper)
            = [i \in 1..(s + t) |-> [j \in 1..(s + t) |-> entry(i, j)]]
    BY DEF CostMatrix, Degrees
  <1> HIDE DEF s, t, forbidden, substitution
  <1>8. ASSUME NEW i \in 1..(s + t), NEW j \in 1..(s + t) PROVE entry(i, j) \in Nat
    BY <1>1, <1>3, <1>5, <1>6
  <1> HIDE DEF entry
  <1>9. CostMatrix(source, target, c, upper) \in Matrix(s + t)
    BY <1>7, <1>8 DEF Matrix
  <1>10. Len(CostMatrix(source, target, c, upper)) = s + t
    BY <1>1, <1>7
  <1>11. s + t \in Nat
    BY <1>1
  <1> QED
    BY <1>9, <1>10, <1>11 DEF s, t

-------------------------------------------------------------------------------
(* The inductive invariant of the assignment *)

(* The working state over a matrix of n rows.                              *)
Working(n) ==
    [row: 0..n, column: 0..n, row_potential: [0..n -> Int], column_potential: [0..n -> Int],
     column_row: [0..n -> 0..n], predecessor: [0..n -> 0..n], available: [0..n -> Int],
     used: SUBSET (0..n)]

(* The reduced cost of an entry: what it costs above what is promised.     *)
Slack(h, c, i, j) == c[i][j] - h.row_potential[i] - h.column_potential[j]

Feasible(h, c, n) == \A i, j \in 1..n : 0 <= Slack(h, c, i, j)

(* Only columns that hold a row are ever lowered.                          *)
Lowered(h, n) ==
    \A j \in 1..n : /\ h.column_potential[j] <= 0
                    /\ h.column_row[j] = 0 => h.column_potential[j] = 0

(* The columns other than the hole hold the rows up to the current one,    *)
(* each once and at its promised cost. Column 0 is the hole between rows,  *)
(* nothing is while a path is sought, and Augment moves the hole along it. *)
Matched(h, c, n, hole) ==
    /\ \A j \in 0..n : h.column_row[j] <= h.row
    /\ \A j, k \in (0..n) \ {hole} :
          h.column_row[j] = h.column_row[k] /\ h.column_row[j] # 0 => j = k
    /\ \A i \in 1..h.row : \E j \in (0..n) \ {hole} : h.column_row[j] = i
    /\ \A j \in (1..n) \ {hole} :
          h.column_row[j] # 0 => Slack(h, c, h.column_row[j], j) = 0

(* The way back from a column of the path goes over promised costs only.   *)
BackFrom(h, c, j) ==
    /\ h.predecessor[j] \in h.used
    /\ Slack(h, c, h.column_row[h.predecessor[j]], j) = 0

(* What the used columns offer to one that is not used is their cheapest.  *)
Offer(h, c, j) ==
    IF h.used = {} THEN h.available[j] = Unreached
    ELSE /\ h.predecessor[j] \in h.used
         /\ h.available[j] = Slack(h, c, h.column_row[h.predecessor[j]], j)
         /\ \A k \in h.used : h.available[j] <= Slack(h, c, h.column_row[k], j)

(* While a path is sought. The ranks say that it runs in no circle.        *)
Alternates(h, c, n) ==
    /\ h.column_row[0] = h.row /\ h.row # 0
    /\ h.column \notin h.used
    /\ h.used = {} => h.column = 0
    /\ h.used # {} => 0 \in h.used
    /\ \A j \in h.used \cup {h.column} : h.column_row[j] # 0
    /\ \A j \in (h.used \cup {h.column}) \ {0} : BackFrom(h, c, j)
    /\ \A j \in (1..n) \ h.used : Offer(h, c, j)
    /\ \E rank \in [0..n -> Nat] :
          /\ \A k \in h.used : rank[k] < rank[h.column]
          /\ \A j \in (h.used \cup {h.column}) \ {0} : rank[h.predecessor[j]] < rank[j]

(* While the path is walked back: what is left of it is still promised.    *)
Trail(h, c, n) ==
    /\ h.column # 0
    /\ \A j \in h.used : h.column_row[j] # 0
    /\ \E rank \in [0..n -> Nat] :
          \A j \in (h.used \cup {h.column}) \ {0} :
             rank[j] <= rank[h.column] =>
                 BackFrom(h, c, j) /\ rank[h.predecessor[j]] < rank[j]

(* A slack is an integer.                                                  *)
LEMMA SlackIsInteger ==
    ASSUME NEW n \in Nat, NEW h \in Working(n), NEW c \in Matrix(n), NEW i \in 1..n, NEW j \in 1..n
    PROVE  Slack(h, c, i, j) \in Int
  <1>1. c[i][j] \in Nat
    BY DEF Matrix
  <1>2. h.row_potential[i] \in Int /\ h.column_potential[j] \in Int
    <2>1. h.row_potential \in [0..n -> Int] /\ h.column_potential \in [0..n -> Int]
      BY DEF Working
    <2>2. i \in 0..n /\ j \in 0..n
      OBVIOUS
    <2> QED
      BY <2>1, <2>2
  <1> QED
    BY <1>1, <1>2 DEF Slack

(* Before the first row everything is promised nothing.                    *)
LEMMA UnsolvedFacts ==
    ASSUME NEW n \in Nat, NEW c \in Matrix(n)
    PROVE  /\ Unsolved(n) \in Working(n) /\ Unsolved(n).row = 0
           /\ Feasible(Unsolved(n), c, n) /\ Lowered(Unsolved(n), n)
           /\ Matched(Unsolved(n), c, n, 0)
  <1> DEFINE h == Unsolved(n)
  <1>1. h \in Working(n) /\ h.row = 0
    <2> DEFINE zero == [i \in 0..n |-> 0]
    <2>1. zero \in [0..n -> 0..n] /\ zero \in [0..n -> Int] /\ 0 \in 0..n
      OBVIOUS
    <2>2. h = [row |-> 0, column |-> 0, row_potential |-> zero, column_potential |-> zero,
               column_row |-> zero, predecessor |-> zero, available |-> zero, used |-> {}]
      BY DEF Unsolved
    <2> HIDE DEF zero, h
    <2> QED
      BY <2>1, <2>2 DEF Working
  <1>2. \A i \in 0..n : /\ h.row_potential[i] = 0 /\ h.column_potential[i] = 0
                        /\ h.column_row[i] = 0
    BY DEF Unsolved
  <1>3. \A i, j \in 1..n : c[i][j] \in Nat
    BY DEF Matrix
  <1> HIDE DEF h
  <1>4. Feasible(h, c, n)
    BY <1>2, <1>3 DEF Feasible, Slack
  <1>5. Lowered(h, n)
    BY <1>2 DEF Lowered
  <1>6. Matched(h, c, n, 0)
    BY <1>1, <1>2 DEF Matched
  <1> QED
    BY <1>1, <1>4, <1>5, <1>6 DEF h

(* A new row enters at column 0.                                           *)
RowEntered(h, n) ==
    [h EXCEPT !.row = @ + 1, !.column = 0, !.used = {}, !.column_row[0] = h.row + 1,
              !.available = [j \in 0..n |-> Unreached]]

LEMMA RowsEnter ==
    ASSUME NEW n \in Nat, NEW c \in Matrix(n), NEW h \in Working(n),
           Feasible(h, c, n), Lowered(h, n), Matched(h, c, n, 0), h.row < n
    PROVE  LET h2 == RowEntered(h, n)
           IN /\ h2 \in Working(n)
              /\ Feasible(h2, c, n) /\ Lowered(h2, n)
              /\ Matched(h2, c, n, -1) /\ Alternates(h2, c, n)
  <1> DEFINE h2 == RowEntered(h, n)
  <1>1. /\ h2 = [h EXCEPT !.row = h.row + 1, !.column = 0, !.used = {},
                          !.column_row = [h.column_row EXCEPT ![0] = h.row + 1],
                          !.available = [j \in 0..n |-> Unreached]]
        /\ h.row + 1 \in 0..n /\ 0 \in 0..n
    <2>1. h.row \in 0..n
      BY DEF Working
    <2> QED
      BY <2>1 DEF RowEntered
  <1> HIDE DEF h2
  <1>2. /\ [h.column_row EXCEPT ![0] = h.row + 1] \in [0..n -> 0..n]
        /\ [j \in 0..n |-> Unreached] \in [0..n -> Int]
    <2>1. h.column_row \in [0..n -> 0..n]
      BY DEF Working
    <2> QED
      BY <1>1, <2>1 DEF Unreached
  <1>3. h2 \in Working(n)
    BY <1>1, <1>2 DEF Working
  <1>4. /\ h2.row = h.row + 1 /\ h2.column = 0 /\ h2.used = {}
        /\ h2.row_potential = h.row_potential /\ h2.column_potential = h.column_potential
        /\ h2.column_row = [h.column_row EXCEPT ![0] = h.row + 1]
        /\ \A j \in 0..n : h2.available[j] = Unreached
    BY <1>1 DEF Working
  <1>5. /\ h2.column_row[0] = h.row + 1
        /\ \A j \in 1..n : h2.column_row[j] = h.column_row[j]
        /\ h.row \in Nat /\ \A j \in 0..n : h.column_row[j] \in 0..n
    <2>1. h.column_row \in [0..n -> 0..n] /\ h.row \in 0..n
      BY DEF Working
    <2>2. h2.column_row[0] = h.row + 1
      BY <1>1, <1>4, <2>1
    <2>3. \A j \in 0..n : j # 0 => h2.column_row[j] = h.column_row[j]
      BY <1>1, <1>4, <2>1
    <2>4. \A j \in 1..n : j \in 0..n /\ j # 0
      OBVIOUS
    <2>5. h.row \in Nat /\ \A j \in 0..n : h.column_row[j] \in 0..n
      BY <2>1
    <2> QED
      BY <2>2, <2>3, <2>4, <2>5
  <1>6. Feasible(h2, c, n)
    BY <1>4 DEF Feasible, Slack
  <1>7. Lowered(h2, n)
    BY <1>4, <1>5 DEF Lowered
  <1>8. Matched(h2, c, n, -1)
    <2>1. \A j \in 0..n : h2.column_row[j] <= h2.row
      <3>1. \A j \in 1..n : h.column_row[j] <= h.row
        BY DEF Matched
      <3> QED
        BY <1>4, <1>5, <3>1
    <2>2. \A j \in 1..n : h2.column_row[j] # h2.row
      BY <1>4, <1>5 DEF Matched
    <2>3. ASSUME NEW j \in 0..n, NEW k \in 0..n,
                 h2.column_row[j] = h2.column_row[k], h2.column_row[j] # 0
          PROVE  j = k
      <3>1. CASE j = 0 \/ k = 0
        BY <1>4, <1>5, <2>2, <2>3, <3>1
      <3>2. CASE j # 0 /\ k # 0
        BY <1>5, <2>3, <3>2 DEF Matched
      <3> QED
        BY <3>1, <3>2
    <2>4. ASSUME NEW i \in 1..h2.row PROVE \E j \in 0..n : h2.column_row[j] = i
      <3>1. CASE i = h.row + 1
        BY <1>5, <3>1
      <3>2. CASE i \in 1..h.row
        BY <1>5, <3>2 DEF Matched
      <3> QED
        BY <1>4, <1>5, <3>1, <3>2
    <2>5. ASSUME NEW j \in 1..n, h2.column_row[j] # 0
          PROVE  Slack(h2, c, h2.column_row[j], j) = 0
      BY <1>4, <1>5, <2>5 DEF Matched, Slack
    <2>6. (0..n) \ {-1} = 0..n /\ (1..n) \ {-1} = 1..n
      OBVIOUS
    <2> QED
      BY <2>1, <2>3, <2>4, <2>5, <2>6 DEF Matched
  <1>9. Alternates(h2, c, n)
    <2>1. \A j \in (1..n) \ h2.used : Offer(h2, c, j)
      BY <1>4 DEF Offer
    <2>2. [j \in 0..n |-> 0] \in [0..n -> Nat]
      OBVIOUS
    <2>3. h2.used \cup {h2.column} = {0}
      BY <1>4
    <2>4. \E rank \in [0..n -> Nat] :
             /\ \A k \in h2.used : rank[k] < rank[h2.column]
             /\ \A j \in (h2.used \cup {h2.column}) \ {0} : rank[h2.predecessor[j]] < rank[j]
      BY <1>4, <2>2, <2>3
    <2>5. \A j \in h2.used \cup {h2.column} : h2.column_row[j] # 0
      BY <1>5, <2>3
    <2> QED
      BY <1>4, <1>5, <2>1, <2>3, <2>4, <2>5 DEF Alternates
  <1> QED
    BY <1>3, <1>6, <1>7, <1>8, <1>9 DEF h2

-------------------------------------------------------------------------------
(* One turn of the inner loop *)

Visited(h) == h.used \cup {h.column}
Free(h, n) == (1..n) \ Visited(h)
Reduced(h, c, j) == Slack(h, c, h.column_row[h.column], j)
Better(h, c, n) ==
    {j \in Free(h, n) : h.available[j] = Unreached \/ Reduced(h, c, j) < h.available[j]}
Offered(h, c, n) ==
    [j \in 0..n |-> IF j \in Better(h, c, n) THEN Reduced(h, c, j) ELSE h.available[j]]
Led(h, c, n) ==
    [j \in 0..n |-> IF j \in Better(h, c, n) THEN h.column ELSE h.predecessor[j]]
Cheapest(h, c, n) == Min({Offered(h, c, n)[j] : j \in Free(h, n)})
Following(h, c, n) == Min({j \in Free(h, n) : Offered(h, c, n)[j] = Cheapest(h, c, n)})

Scanned(h, c, n) ==
    LET potentials == Raised(h, Visited(h), Cheapest(h, c, n))
    IN [h EXCEPT !.used = Visited(h), !.column = Following(h, c, n),
                 !.row_potential = potentials.row, !.column_potential = potentials.column,
                 !.predecessor = Led(h, c, n),
                 !.available = [j \in 0..n |-> Offered(h, c, n)[j]
                                    - IF j \in Free(h, n) THEN Cheapest(h, c, n) ELSE 0]]

LEMMA IntervalsCount ==
    ASSUME NEW n \in Nat
    PROVE  /\ IsFiniteSet(0..n) /\ Cardinality(0..n) = n + 1
           /\ IsFiniteSet(1..n) /\ Cardinality(1..n) = n
  <1>1. IsFiniteSet(0..n) /\ Cardinality(0..n) = IF 0 > n THEN 0 ELSE n - 0 + 1
    BY FS_Interval
  <1>2. IsFiniteSet(1..n) /\ Cardinality(1..n) = IF 1 > n THEN 0 ELSE n - 1 + 1
    BY FS_Interval
  <1> QED
    BY <1>1, <1>2

(* There are more columns than rows placed before: some column is free to  *)
(* take the row, and no used column is.                                    *)
LEMMA SomeColumnIsFree ==
    ASSUME NEW n \in Nat, NEW c, NEW h \in Working(n), Matched(h, c, n, -1), Alternates(h, c, n)
    PROVE  \E j \in Free(h, n) : h.column_row[j] = 0
  <1>1. SUFFICES ASSUME \A j \in 1..n : h.column_row[j] # 0 PROVE FALSE
    <2>1. \A j \in Visited(h) : h.column_row[j] # 0
      BY DEF Alternates, Visited
    <2> QED
      BY <2>1 DEF Free
  <1> DEFINE p == h.column_row
  <1>2. p \in [0..n -> 0..n] /\ h.row \in 0..n
    BY DEF Working
  <1>3. p[0] # 0
    BY DEF Alternates
  <1>4. \A j \in 0..n : p[j] \in 1..h.row
    <2>1. \A j \in 0..n : p[j] # 0
      <3>1. \A j \in 0..n : j \in 1..n \/ j = 0
        OBVIOUS
      <3> HIDE DEF p
      <3> QED
        BY <1>1, <1>3, <3>1 DEF p
    <2>2. \A j \in 0..n : p[j] <= h.row
      BY DEF Matched
    <2>3. \A j \in 0..n : p[j] \in 0..n
      BY <1>2
    <2> HIDE DEF p
    <2> QED
      BY <1>2, <2>1, <2>2, <2>3
  <1>5. \A j, k \in 0..n : p[j] = p[k] => j = k
    <2>1. (0..n) \ {-1} = 0..n
      OBVIOUS
    <2> QED
      BY <1>1, <1>3, <2>1 DEF Matched
  <1> HIDE DEF p
  <1>6. p \in Injection(0..n, 1..h.row)
    <2>1. p \in [0..n -> 1..h.row]
      BY <1>2, <1>4
    <2> QED
      BY <1>5, <2>1 DEF Injection, IsInjective
  <1>7. /\ IsFiniteSet(0..n) /\ Cardinality(0..n) = n + 1
        /\ IsFiniteSet(1..h.row) /\ Cardinality(1..h.row) = h.row
    <2>1. IsFiniteSet(0..n) /\ Cardinality(0..n) = n + 1
      BY IntervalsCount
    <2>2. h.row \in Nat
      BY <1>2
    <2>3. IsFiniteSet(1..h.row) /\ Cardinality(1..h.row) = h.row
      BY <2>2, IntervalsCount
    <2> QED
      BY <2>1, <2>3
  <1>8. Cardinality(0..n) <= Cardinality(1..h.row)
    BY <1>6, <1>7, FS_Injection
  <1> QED
    BY <1>2, <1>7, <1>8

(* After the offers of the active row, each free column knows the cheapest *)
(* way to it from all the columns visited.                                 *)
LEMMA OffersAreCheapest ==
    ASSUME NEW n \in Nat, NEW c \in Matrix(n), NEW h \in Working(n),
           Feasible(h, c, n), Matched(h, c, n, -1), Alternates(h, c, n),
           NEW j \in Free(h, n)
    PROVE  LET way == Led(h, c, n)[j]
           IN /\ way \in Visited(h)
              /\ Offered(h, c, n)[j] = Slack(h, c, h.column_row[way], j)
              /\ Offered(h, c, n)[j] \in Nat
              /\ \A k \in Visited(h) : Offered(h, c, n)[j] <= Slack(h, c, h.column_row[k], j)
  <1>1. j \in 1..n /\ j \in 0..n /\ j \notin h.used
    BY DEF Free, Visited
  <1>2. \A k \in Visited(h) : h.column_row[k] \in 1..n
    <2>1. \A k \in Visited(h) : k \in 0..n /\ h.column_row[k] # 0
      BY DEF Alternates, Visited, Working
    <2>2. \A k \in 0..n : h.column_row[k] \in 0..n
      BY DEF Working
    <2> QED
      BY <2>1, <2>2
  <1>3. \A k \in Visited(h) : /\ Slack(h, c, h.column_row[k], j) \in Int
                             /\ 0 <= Slack(h, c, h.column_row[k], j)
    BY <1>1, <1>2, SlackIsInteger DEF Feasible
  <1>4. Offer(h, c, j) /\ h.available[j] \in Int
    BY <1>1 DEF Alternates, Working
  <1>5. h.column \in Visited(h) /\ \A k \in Visited(h) : k \in h.used \/ k = h.column
    BY DEF Visited
  <1>6. CASE j \in Better(h, c, n)
    <2>1. /\ Led(h, c, n)[j] = h.column
          /\ Offered(h, c, n)[j] = Slack(h, c, h.column_row[h.column], j)
      BY <1>1, <1>6 DEF Led, Offered, Reduced
    <2>2. ASSUME NEW k \in h.used PROVE Offered(h, c, n)[j] <= Slack(h, c, h.column_row[k], j)
      <3>1. /\ h.available[j] <= Slack(h, c, h.column_row[k], j) /\ k \in Visited(h)
            /\ h.predecessor[j] \in Visited(h)
            /\ h.available[j] = Slack(h, c, h.column_row[h.predecessor[j]], j)
        BY <1>4, <2>2 DEF Offer, Visited
      <3>2. h.available[j] # Unreached
        BY <1>3, <3>1 DEF Unreached
      <3>3. Offered(h, c, n)[j] < h.available[j]
        BY <1>6, <2>1, <3>2 DEF Better, Reduced
      <3> QED
        BY <1>3, <1>4, <1>5, <2>1, <3>1, <3>3
    <2> QED
      BY <1>3, <1>5, <2>1, <2>2
  <1>7. CASE j \notin Better(h, c, n)
    <2>1. Led(h, c, n)[j] = h.predecessor[j] /\ Offered(h, c, n)[j] = h.available[j]
      BY <1>1, <1>7 DEF Led, Offered
    <2>2. h.available[j] # Unreached /\ ~(Slack(h, c, h.column_row[h.column], j) < h.available[j])
      BY <1>7 DEF Better, Reduced
    <2>3. /\ h.predecessor[j] \in h.used
          /\ h.available[j] = Slack(h, c, h.column_row[h.predecessor[j]], j)
          /\ \A k \in h.used : h.available[j] <= Slack(h, c, h.column_row[k], j)
      BY <1>4, <2>2 DEF Offer
    <2>4. h.predecessor[j] \in Visited(h)
      BY <2>3 DEF Visited
    <2>5. h.available[j] <= Slack(h, c, h.column_row[h.column], j)
      BY <1>3, <1>4, <1>5, <2>2
    <2> QED
      BY <1>3, <1>5, <2>1, <2>3, <2>4, <2>5
  <1> QED
    BY <1>6, <1>7

(* The next column is a free one, and no free column is offered less.      *)
LEMMA NextIsCheapest ==
    ASSUME NEW n \in Nat, NEW c \in Matrix(n), NEW h \in Working(n),
           Feasible(h, c, n), Matched(h, c, n, -1), Alternates(h, c, n)
    PROVE  /\ Cheapest(h, c, n) \in Nat
           /\ \A j \in Free(h, n) : Cheapest(h, c, n) <= Offered(h, c, n)[j]
           /\ Following(h, c, n) \in Free(h, n)
           /\ Offered(h, c, n)[Following(h, c, n)] = Cheapest(h, c, n)
  <1> DEFINE free == Free(h, n)
             offers == Offered(h, c, n)
             values == {offers[j] : j \in free}
             least == Min(values)
             ties == {j \in free : offers[j] = least}
  <1>1. free # {} /\ free \in SUBSET Nat
    BY SomeColumnIsFree DEF Free
  <1>2. \A j \in free : offers[j] \in Nat
    BY OffersAreCheapest
  <1>3. Cheapest(h, c, n) = least /\ Following(h, c, n) = Min(ties)
    BY DEF Cheapest, Following
  <1> HIDE DEF free, offers
  <1>4. least \in values /\ \A x \in values : least <= x
    <2>1. values # {} /\ values \in SUBSET Nat
      BY <1>1, <1>2
    <2> HIDE DEF values
    <2> QED
      BY <2>1, LeastOfNaturals
  <1> HIDE DEF least
  <1>5. ties # {} /\ ties \in SUBSET Nat
    BY <1>1, <1>4
  <1>6. Min(ties) \in ties
    BY <1>5, LeastOfNaturals
  <1>7. /\ least \in Nat /\ \A j \in free : least <= offers[j]
        /\ Min(ties) \in free /\ offers[Min(ties)] = least
    BY <1>2, <1>4, <1>6
  <1> QED
    BY <1>3, <1>7 DEF free, offers

(* What a turn writes.                                                     *)
LEMMA ScannedFields ==
    ASSUME NEW n \in Nat, NEW c \in Matrix(n), NEW h \in Working(n),
           Feasible(h, c, n), Matched(h, c, n, -1), Alternates(h, c, n)
    PROVE  LET h2 == Scanned(h, c, n)
               delta == Cheapest(h, c, n)
           IN /\ h2 \in Working(n)
              /\ h2.row = h.row /\ h2.column_row = h.column_row
              /\ h2.used = Visited(h) /\ h2.column = Following(h, c, n)
              /\ \A i \in 0..n : h2.row_potential[i] = h.row_potential[i]
                     + IF i \in {h.column_row[k] : k \in Visited(h)} THEN delta ELSE 0
              /\ \A j \in 0..n : h2.column_potential[j] = h.column_potential[j]
                     - IF j \in Visited(h) THEN delta ELSE 0
              /\ \A j \in Free(h, n) : /\ h2.available[j] = Offered(h, c, n)[j] - delta
                                       /\ h2.predecessor[j] = Led(h, c, n)[j]
              /\ \A j \in Visited(h) : h2.predecessor[j] = h.predecessor[j]
  <1> DEFINE delta == Cheapest(h, c, n)
             next == Following(h, c, n)
             visited == Visited(h)
             rows == {h.column_row[k] : k \in visited}
             u == [i \in 0..n |-> h.row_potential[i] + IF i \in rows THEN delta ELSE 0]
             v == [j \in 0..n |-> h.column_potential[j] - IF j \in visited THEN delta ELSE 0]
             led == Led(h, c, n)
             offers == Offered(h, c, n)
             left == [j \in 0..n |-> offers[j] - IF j \in Free(h, n) THEN delta ELSE 0]
  <1>1. delta \in Nat /\ next \in Free(h, n)
    BY NextIsCheapest
  <1>2. visited \in SUBSET (0..n) /\ h.column \in 0..n
    BY DEF Visited, Working
  <1>3. Free(h, n) \in SUBSET (0..n) /\ \A j \in visited : j \in 0..n /\ j \notin Free(h, n)
    BY <1>2 DEF Free
  <1>4. u \in [0..n -> Int] /\ v \in [0..n -> Int]
    <2>1. \A j \in 0..n : h.row_potential[j] \in Int /\ h.column_potential[j] \in Int
      BY DEF Working
    <2> HIDE DEF delta, rows, visited
    <2> QED
      BY <1>1, <2>1
  <1>5. led \in [0..n -> 0..n]
    BY <1>2 DEF Led, Working
  <1>6. \A j \in 0..n : offers[j] \in Int
    <2>1. \A j \in Free(h, n) : offers[j] \in Nat
      BY OffersAreCheapest
    <2>2. \A j \in (0..n) \ Free(h, n) : offers[j] = h.available[j]
      BY DEF Offered, Better
    <2>3. \A j \in 0..n : h.available[j] \in Int
      BY DEF Working
    <2> HIDE DEF offers
    <2> QED
      BY <2>1, <2>2, <2>3
  <1>7. left \in [0..n -> Int]
    BY <1>1, <1>6
  <1>8. Scanned(h, c, n) = [h EXCEPT !.used = visited, !.column = next,
                                     !.row_potential = u, !.column_potential = v,
                                     !.predecessor = led, !.available = left]
    <2>1. DOMAIN h.row_potential = 0..n /\ DOMAIN h.column_potential = 0..n
      BY DEF Working
    <2> HIDE DEF visited, delta
    <2>2. Raised(h, visited, delta) = [row |-> u, column |-> v]
      BY <2>1, Zenon DEF Raised
    <2> HIDE DEF u, v
    <2>3. Raised(h, visited, delta).row = u /\ Raised(h, visited, delta).column = v
      BY <2>2
    <2> QED
      BY <2>3 DEF Scanned, visited, delta
  <1>9. \A j \in visited : led[j] = h.predecessor[j]
    BY <1>3 DEF Led, Better
  <1> DEFINE h2 == Scanned(h, c, n)
  <1>10. /\ h2.row = h.row /\ h2.column_row = h.column_row
         /\ h2.used = visited /\ h2.column = next
         /\ h2.row_potential = u /\ h2.column_potential = v
         /\ h2.predecessor = led /\ h2.available = left
         /\ h2 \in Working(n)
    <2> HIDE DEF h2, u, v, led, left, visited, next
    <2>1. next \in 0..n
      BY <1>1, <1>3
    <2> QED
      BY <1>2, <1>4, <1>5, <1>7, <1>8, <2>1 DEF Working, h2
  <1> HIDE DEF h2, led, offers, next, delta, visited
  <1>11. /\ \A j \in Free(h, n) : h2.available[j] = offers[j] - delta
         /\ \A j \in 0..n : h2.row_potential[j] = h.row_potential[j] + IF j \in rows THEN delta ELSE 0
         /\ \A j \in 0..n : h2.column_potential[j] = h.column_potential[j]
                                - IF j \in visited THEN delta ELSE 0
    BY <1>3, <1>10
  <1> QED
    BY <1>9, <1>10, <1>11 DEF h2, led, offers, next, delta, visited

(* Raising takes delta off the rows of the path and gives it back on its   *)
(* columns.                                                                *)
LEMMA RaisedSlack ==
    ASSUME NEW n \in Nat, NEW c \in Matrix(n), NEW h \in Working(n),
           Feasible(h, c, n), Matched(h, c, n, -1), Alternates(h, c, n),
           NEW i \in 1..n, NEW j \in 1..n
    PROVE  Slack(Scanned(h, c, n), c, i, j)
               = Slack(h, c, i, j)
                     - (IF i \in {h.column_row[k] : k \in Visited(h)} THEN Cheapest(h, c, n) ELSE 0)
                     + (IF j \in Visited(h) THEN Cheapest(h, c, n) ELSE 0)
  <1> DEFINE h2 == Scanned(h, c, n)
             delta == Cheapest(h, c, n)
             up == IF i \in {h.column_row[k] : k \in Visited(h)} THEN delta ELSE 0
             down == IF j \in Visited(h) THEN delta ELSE 0
  <1>1. i \in 0..n /\ j \in 0..n
    OBVIOUS
  <1>2. h2.row_potential[i] = h.row_potential[i] + up /\ h2.column_potential[j] = h.column_potential[j] - down
    BY <1>1, ScannedFields
  <1>3. delta \in Nat
    BY NextIsCheapest
  <1> HIDE DEF delta, h2
  <1>4. up \in Int /\ down \in Int
    BY <1>3
  <1>5. c[i][j] \in Int /\ h.row_potential[i] \in Int /\ h.column_potential[j] \in Int
    <2>1. c[i][j] \in Nat
      BY DEF Matrix
    <2>2. h.row_potential \in [0..n -> Int] /\ h.column_potential \in [0..n -> Int]
      BY DEF Working
    <2> QED
      BY <1>1, <2>1, <2>2
  <1> HIDE DEF up, down
  <1>6. Slack(h2, c, i, j) = Slack(h, c, i, j) - up + down
    BY <1>2, <1>4, <1>5 DEF Slack
  <1> QED
    BY <1>6 DEF up, down, h2, delta

(* A turn keeps the promises: none above the matrix, none of the placed    *)
(* rows broken, and no column lowered that holds no row.                   *)
LEMMA TurnsKeepPromises ==
    ASSUME NEW n \in Nat, NEW c \in Matrix(n), NEW h \in Working(n),
           Feasible(h, c, n), Lowered(h, n), Matched(h, c, n, -1), Alternates(h, c, n)
    PROVE  LET h2 == Scanned(h, c, n)
           IN Feasible(h2, c, n) /\ Lowered(h2, n) /\ Matched(h2, c, n, -1)
  <1> DEFINE h2 == Scanned(h, c, n)
             delta == Cheapest(h, c, n)
             rows == {h.column_row[k] : k \in Visited(h)}
  <1>1. delta \in Nat
    BY NextIsCheapest
  <1>2. /\ h2.row = h.row /\ h2.column_row = h.column_row
        /\ \A j \in 0..n : h2.column_potential[j] = h.column_potential[j]
               - IF j \in Visited(h) THEN delta ELSE 0
    BY ScannedFields
  <1>3. ASSUME NEW i \in 1..n, NEW j \in 1..n
        PROVE  /\ Slack(h, c, i, j) \in Int
               /\ Slack(h2, c, i, j) = Slack(h, c, i, j) - (IF i \in rows THEN delta ELSE 0)
                                           + (IF j \in Visited(h) THEN delta ELSE 0)
    <2>1. Slack(h, c, i, j) \in Int
      BY SlackIsInteger
    <2>2. Slack(h2, c, i, j) = Slack(h, c, i, j) - (IF i \in rows THEN delta ELSE 0)
                                           + (IF j \in Visited(h) THEN delta ELSE 0)
      BY RaisedSlack
    <2> QED
      BY <2>1, <2>2
  <1>4. \A j \in 0..n : h.column_row[j] \in 0..n /\ h.column_potential[j] \in Int
    BY DEF Working
  <1> HIDE DEF h2, delta
  <1>5. Feasible(h2, c, n)
    <2>1. SUFFICES ASSUME NEW i \in 1..n, NEW j \in 1..n PROVE 0 <= Slack(h2, c, i, j)
      BY DEF Feasible
    <2>2. 0 <= Slack(h, c, i, j)
      BY DEF Feasible
    <2>3. CASE i \in rows /\ j \notin Visited(h)
      <3>1. PICK k \in Visited(h) : i = h.column_row[k]
        BY <2>3
      <3>2. j \in Free(h, n)
        BY <2>3 DEF Free
      <3>3. /\ Offered(h, c, n)[j] \in Nat
            /\ Offered(h, c, n)[j] <= Slack(h, c, i, j)
        BY <3>1, <3>2, OffersAreCheapest
      <3>4. delta <= Offered(h, c, n)[j]
        BY <3>2, NextIsCheapest DEF delta
      <3> QED
        BY <1>1, <1>3, <2>3, <3>3, <3>4
    <2>4. CASE ~(i \in rows /\ j \notin Visited(h))
      BY <1>1, <1>3, <2>2, <2>4
    <2> QED
      BY <2>3, <2>4
  <1>6. Lowered(h2, n)
    <2>1. SUFFICES ASSUME NEW j \in 1..n
                   PROVE  /\ h2.column_potential[j] <= 0
                          /\ h2.column_row[j] = 0 => h2.column_potential[j] = 0
      BY DEF Lowered
    <2>2. /\ h.column_potential[j] <= 0
          /\ h.column_row[j] = 0 => h.column_potential[j] = 0
      BY DEF Lowered
    <2>3. h.column_row[j] = 0 => j \notin Visited(h)
      BY DEF Alternates, Visited
    <2>4. j \in 0..n
      OBVIOUS
    <2> QED
      BY <1>1, <1>2, <1>4, <2>2, <2>3, <2>4
  <1>7. Matched(h2, c, n, -1)
    <2>1. ASSUME NEW j \in (1..n) \ {-1}, h.column_row[j] # 0
          PROVE  Slack(h2, c, h.column_row[j], j) = 0
      <3>1. Slack(h, c, h.column_row[j], j) = 0
        BY <2>1 DEF Matched
      <3>2. h.column_row[j] \in rows => j \in Visited(h)
        <4>1. \A k \in Visited(h) : k \in (0..n) \ {-1}
          <5>1. h.used \in SUBSET (0..n) /\ h.column \in 0..n
            BY DEF Working
          <5> QED
            BY <5>1 DEF Visited
        <4>2. ASSUME NEW k \in Visited(h), h.column_row[j] = h.column_row[k] PROVE j = k
          <5>1. j \in (0..n) \ {-1}
            BY <2>1
          <5> QED
            BY <2>1, <4>1, <4>2, <5>1 DEF Matched
        <4> QED
          BY <4>2
      <3>3. h.column_row[j] \in 1..n /\ j \in 1..n
        BY <1>4, <2>1
      <3>4. j \in Visited(h) => h.column_row[j] \in rows
        OBVIOUS
      <3> QED
        BY <1>1, <1>3, <3>1, <3>2, <3>3, <3>4
    <2> QED
      BY <1>2, <2>1 DEF Matched
  <1> QED
    BY <1>5, <1>6, <1>7 DEF h2

(* A turn grows the path by the next column.                               *)
LEMMA TurnsGrowThePath ==
    ASSUME NEW n \in Nat, NEW c \in Matrix(n), NEW h \in Working(n),
           Feasible(h, c, n), Matched(h, c, n, -1), Alternates(h, c, n)
    PROVE  LET h2 == Scanned(h, c, n)
               grown == (Visited(h) \cup {h2.column}) \ {0}
           IN /\ \A j \in grown : BackFrom(h2, c, j)
              /\ \A j \in (1..n) \ h2.used : Offer(h2, c, j)
              /\ \E rank \in [0..n -> Nat] :
                    /\ \A k \in h2.used : rank[k] < rank[h2.column]
                    /\ \A j \in grown : rank[h2.predecessor[j]] < rank[j]
  <1> DEFINE h2 == Scanned(h, c, n)
             delta == Cheapest(h, c, n)
             next == Following(h, c, n)
             rows == {h.column_row[k] : k \in Visited(h)}
  <1>1. delta \in Nat /\ next \in Free(h, n) /\ Offered(h, c, n)[next] = delta
    BY NextIsCheapest
  <1>2. /\ h2.column_row = h.column_row /\ h2.used = Visited(h) /\ h2.column = next
        /\ \A j \in Free(h, n) : /\ h2.available[j] = Offered(h, c, n)[j] - delta
                                 /\ h2.predecessor[j] = Led(h, c, n)[j]
        /\ \A j \in Visited(h) : h2.predecessor[j] = h.predecessor[j]
    BY ScannedFields
  <1>3. ASSUME NEW i \in 1..n, NEW j \in 1..n
        PROVE  /\ Slack(h, c, i, j) \in Int
               /\ Slack(h2, c, i, j) = Slack(h, c, i, j) - (IF i \in rows THEN delta ELSE 0)
                                           + (IF j \in Visited(h) THEN delta ELSE 0)
    <2>1. Slack(h, c, i, j) \in Int
      BY SlackIsInteger
    <2>2. Slack(h2, c, i, j) = Slack(h, c, i, j) - (IF i \in rows THEN delta ELSE 0)
                                           + (IF j \in Visited(h) THEN delta ELSE 0)
      BY RaisedSlack
    <2> QED
      BY <2>1, <2>2
  <1>4. \A k \in Visited(h) : k \in 0..n /\ h.column_row[k] \in 1..n /\ h.column_row[k] \in rows
    <2>1. \A k \in Visited(h) : k \in 0..n /\ h.column_row[k] # 0
      BY DEF Alternates, Visited, Working
    <2>2. \A k \in 0..n : h.column_row[k] \in 0..n
      BY DEF Working
    <2> QED
      BY <2>1, <2>2
  <1>5. \A j \in Free(h, n) : j \in 1..n /\ j \notin Visited(h)
    BY DEF Free
  <1>6. ASSUME NEW j \in Free(h, n)
        PROVE  LET way == Led(h, c, n)[j]
               IN /\ way \in Visited(h)
                  /\ Offered(h, c, n)[j] = Slack(h, c, h.column_row[way], j)
                  /\ Offered(h, c, n)[j] \in Nat
                  /\ \A k \in Visited(h) : Offered(h, c, n)[j] <= Slack(h, c, h.column_row[k], j)
    BY OffersAreCheapest
  <1> HIDE DEF h2, delta, next
  <1>7. ASSUME NEW j \in Visited(h) \ {0} PROVE BackFrom(h2, c, j)
    <2>1. /\ h.predecessor[j] \in Visited(h) /\ Slack(h, c, h.column_row[h.predecessor[j]], j) = 0
      BY DEF Alternates, BackFrom, Visited
    <2>2. j \in 1..n
      BY <1>4
    <2> DEFINE i == h.column_row[h.predecessor[j]]
    <2>3. i \in 1..n /\ i \in rows
      BY <1>4, <2>1
    <2>4. Slack(h2, c, i, j) = Slack(h, c, i, j) - delta + delta
      BY <1>3, <2>2, <2>3
    <2>5. Slack(h2, c, i, j) = 0
      BY <1>1, <2>1, <2>4
    <2> QED
      BY <1>2, <2>1, <2>5 DEF BackFrom
  <1>8. ASSUME NEW j \in Free(h, n), NEW k \in Visited(h)
        PROVE  Slack(h2, c, h.column_row[k], j) = Slack(h, c, h.column_row[k], j) - delta
               /\ Slack(h, c, h.column_row[k], j) \in Int
    BY <1>1, <1>3, <1>4, <1>5
  <1>9. BackFrom(h2, c, next)
    <2>1. h2.predecessor[next] \in Visited(h)
      BY <1>1, <1>2, <1>6
    <2>2. Slack(h, c, h.column_row[h2.predecessor[next]], next) = delta
      <3>1. h2.predecessor[next] = Led(h, c, n)[next]
        BY <1>1, <1>2
      <3> QED
        BY <1>1, <1>6, <3>1
    <2>3. Slack(h2, c, h.column_row[h2.predecessor[next]], next) = 0
      BY <1>1, <1>8, <2>1, <2>2
    <2> QED
      BY <1>2, <2>1, <2>3 DEF BackFrom
  <1>10. ASSUME NEW j \in (1..n) \ h2.used PROVE Offer(h2, c, j)
    <2>1. j \in Free(h, n) /\ h2.used # {}
      BY <1>2 DEF Free, Visited
    <2>2. /\ h2.predecessor[j] \in Visited(h)
          /\ h2.available[j] = Slack(h, c, h.column_row[h2.predecessor[j]], j) - delta
          /\ Offered(h, c, n)[j] \in Nat
      BY <1>2, <1>6, <2>1
    <2>3. h2.available[j] = Slack(h2, c, h.column_row[h2.predecessor[j]], j)
      BY <1>8, <2>1, <2>2
    <2>4. ASSUME NEW k \in Visited(h) PROVE h2.available[j] <= Slack(h2, c, h.column_row[k], j)
      <3>1. Offered(h, c, n)[j] <= Slack(h, c, h.column_row[k], j)
        BY <1>6, <2>1
      <3>2. h2.available[j] = Offered(h, c, n)[j] - delta
        BY <1>2, <2>1
      <3> QED
        BY <1>1, <1>8, <2>1, <2>2, <3>1, <3>2
    <2> QED
      BY <1>2, <2>1, <2>2, <2>3, <2>4 DEF Offer
  <1>11. PICK rank \in [0..n -> Nat] :
           /\ \A k \in h.used : rank[k] < rank[h.column]
           /\ \A j \in Visited(h) \ {0} : rank[h.predecessor[j]] < rank[j]
    BY DEF Alternates, Visited
  <1> DEFINE longer == [rank EXCEPT ![next] = rank[h.column] + 1]
  <1>12. next \in 0..n /\ next \notin Visited(h) /\ h.column \in Visited(h)
    BY <1>1, <1>5 DEF Visited
  <1>13. /\ longer \in [0..n -> Nat]
         /\ longer[next] = rank[h.column] + 1
         /\ \A k \in Visited(h) : longer[k] = rank[k] /\ rank[k] \in Nat
    <2>1. rank[h.column] + 1 \in Nat /\ DOMAIN rank = 0..n /\ Visited(h) \subseteq 0..n
      BY <1>4, <1>12
    <2>2. longer \in [0..n -> Nat] /\ longer[next] = rank[h.column] + 1
      BY <1>12, <2>1
    <2>3. \A k \in Visited(h) : longer[k] = rank[k] /\ rank[k] \in Nat
      BY <1>12, <2>1
    <2> QED
      BY <2>2, <2>3
  <1> HIDE DEF longer
  <1>14. \A k \in Visited(h) : longer[k] < longer[next]
    <2>1. ASSUME NEW k \in Visited(h) PROVE rank[k] <= rank[h.column]
      <3>1. rank[k] \in Nat /\ rank[h.column] \in Nat
        BY <1>12, <1>13
      <3>2. rank[k] < rank[h.column] \/ k = h.column
        BY <1>11 DEF Visited
      <3> QED
        BY <3>1, <3>2
    <2>2. \A k \in Visited(h) : longer[k] = rank[k] /\ rank[k] \in Nat
      BY <1>13
    <2>3. longer[next] = rank[h.column] + 1 /\ rank[h.column] \in Nat
      BY <1>12, <1>13
    <2> HIDE DEF next
    <2> QED
      BY <2>1, <2>2, <2>3
  <1>15. ASSUME NEW j \in (Visited(h) \cup {next}) \ {0}
         PROVE  longer[h2.predecessor[j]] < longer[j]
    <2>1. CASE j = next
      BY <1>1, <1>2, <1>6, <1>14, <2>1
    <2>2. CASE j \in Visited(h)
      <3>1. h2.predecessor[j] = h.predecessor[j] /\ h.predecessor[j] \in Visited(h)
        BY <1>2, <1>15, <2>2 DEF Alternates, BackFrom, Visited
      <3> QED
        BY <1>11, <1>13, <1>15, <2>2, <3>1
    <2> QED
      BY <2>1, <2>2
  <1>16. \E r \in [0..n -> Nat] :
            /\ \A k \in h2.used : r[k] < r[h2.column]
            /\ \A j \in (Visited(h) \cup {h2.column}) \ {0} : r[h2.predecessor[j]] < r[j]
    BY <1>2, <1>13, <1>14, <1>15
  <1>17. \A j \in (Visited(h) \cup {h2.column}) \ {0} : BackFrom(h2, c, j)
    BY <1>2, <1>7, <1>9
  <1> QED
    BY <1>10, <1>16, <1>17 DEF h2

(* Together: the search goes on, or the path is complete.                  *)
LEMMA ScansKeep ==
    ASSUME NEW n \in Nat, NEW c \in Matrix(n), NEW h \in Working(n),
           Feasible(h, c, n), Lowered(h, n), Matched(h, c, n, -1), Alternates(h, c, n)
    PROVE  LET h2 == Scanned(h, c, n)
           IN /\ h2 \in Working(n) /\ Feasible(h2, c, n) /\ Lowered(h2, n)
              /\ IF h.column_row[h2.column] = 0
                 THEN Matched(h2, c, n, h2.column) /\ Trail(h2, c, n)
                 ELSE Matched(h2, c, n, -1) /\ Alternates(h2, c, n)
  <1> DEFINE h2 == Scanned(h, c, n)
             grown == (Visited(h) \cup {h2.column}) \ {0}
  <1>1. h2 \in Working(n) /\ Feasible(h2, c, n) /\ Lowered(h2, n) /\ Matched(h2, c, n, -1)
    BY ScannedFields, TurnsKeepPromises
  <1>2. /\ \A j \in grown : BackFrom(h2, c, j)
        /\ \A j \in (1..n) \ h2.used : Offer(h2, c, j)
        /\ \E rank \in [0..n -> Nat] :
              /\ \A k \in h2.used : rank[k] < rank[h2.column]
              /\ \A j \in grown : rank[h2.predecessor[j]] < rank[j]
    BY TurnsGrowThePath
  <1>3. /\ h2.row = h.row /\ h2.column_row = h.column_row
        /\ h2.used = Visited(h) /\ h2.column \in Free(h, n)
    BY ScannedFields, NextIsCheapest
  <1> HIDE DEF h2
  <1>4. h2.column \in 1..n /\ h2.column # 0 /\ h2.column \notin h2.used
    BY <1>3 DEF Free
  <1>5. /\ h.column_row[0] = h.row /\ h.row # 0 /\ 0 \in h2.used
        /\ \A j \in h2.used : h.column_row[j] # 0
    BY <1>3 DEF Alternates, Visited
  <1>6. ASSUME h.column_row[h2.column] = 0
        PROVE  Matched(h2, c, n, h2.column) /\ Trail(h2, c, n)
    <2>1. \A i \in 1..h2.row : \E j \in (0..n) \ {h2.column} : h2.column_row[j] = i
      BY <1>1, <1>3, <1>6 DEF Matched
    <2>2. Matched(h2, c, n, h2.column)
      BY <1>1, <1>4, <2>1 DEF Matched
    <2>3. Trail(h2, c, n)
      BY <1>2, <1>3, <1>4, <1>5 DEF Trail
    <2> QED
      BY <2>2, <2>3
  <1>7. ASSUME h.column_row[h2.column] # 0 PROVE Alternates(h2, c, n)
    BY <1>2, <1>3, <1>4, <1>5, <1>7 DEF Alternates
  <1> QED
    BY <1>1, <1>6, <1>7 DEF h2

-------------------------------------------------------------------------------
(* One step back along the path *)

Augmented(h) ==
    [h EXCEPT !.column = h.predecessor[h.column],
              !.column_row[h.column] = h.column_row[h.predecessor[h.column]]]

(* The hole moves to the column before, whose row the column takes.        *)
LEMMA HolesMoveBack ==
    ASSUME NEW n \in Nat, NEW c \in Matrix(n), NEW h \in Working(n),
           Feasible(h, c, n), Lowered(h, n), Matched(h, c, n, h.column), Trail(h, c, n)
    PROVE  LET h2 == Augmented(h)
           IN /\ h2 \in Working(n) /\ Feasible(h2, c, n) /\ Lowered(h2, n)
              /\ Matched(h2, c, n, h2.column)
              /\ h2.column # 0 => Trail(h2, c, n)
  <1> DEFINE h2 == Augmented(h)
             at == h.column
             previous == h.predecessor[at]
  <1>1. /\ at \in 1..n /\ at \in 0..n /\ previous \in 0..n
        /\ \A j \in 0..n : h.column_row[j] \in 0..n
        /\ h.used \in SUBSET (0..n) /\ h.row \in 0..n
    <2>1. /\ h.column \in 0..n /\ h.predecessor \in [0..n -> 0..n]
          /\ h.column_row \in [0..n -> 0..n] /\ h.used \in SUBSET (0..n) /\ h.row \in 0..n
      BY DEF Working
    <2>2. at \in 1..n
      <3>1. h.column # 0
        BY DEF Trail
      <3>2. h.column \in 0..n /\ h.column # 0 => h.column \in 1..n
        OBVIOUS
      <3> QED
        BY <2>1, <3>1, <3>2
    <2>3. previous \in 0..n /\ \A j \in 0..n : h.column_row[j] \in 0..n
      BY <2>1
    <2> HIDE DEF at, previous
    <2> QED
      BY <2>1, <2>2, <2>3
  <1>2. PICK rank \in [0..n -> Nat] :
           \A j \in (h.used \cup {at}) \ {0} :
             rank[j] <= rank[at] => BackFrom(h, c, j) /\ rank[h.predecessor[j]] < rank[j]
    BY DEF Trail
  <1>3. /\ previous \in h.used /\ Slack(h, c, h.column_row[previous], at) = 0
        /\ rank[previous] < rank[at] /\ h.column_row[previous] # 0
    <2>1. rank[at] \in Nat
      BY <1>1
    <2>2. BackFrom(h, c, at) /\ rank[previous] < rank[at]
      <3>1. at \in (h.used \cup {at}) \ {0} /\ rank[at] <= rank[at]
        BY <1>1, <2>1
      <3> QED
        BY <1>2, <3>1
    <2> QED
      BY <2>2 DEF BackFrom, Trail
  <1>4. previous # at
    BY <1>1, <1>3
  <1>5. /\ h2 \in Working(n) /\ h2.row = h.row /\ h2.column = previous /\ h2.used = h.used
        /\ h2.row_potential = h.row_potential /\ h2.column_potential = h.column_potential
        /\ h2.predecessor = h.predecessor
        /\ h2.column_row = [h.column_row EXCEPT ![at] = h.column_row[previous]]
    <2> DEFINE rows == [h.column_row EXCEPT ![at] = h.column_row[previous]]
    <2>1. rows \in [0..n -> 0..n]
      BY <1>1 DEF Working
    <2>2. h2 = [h EXCEPT !.column = previous, !.column_row = rows]
      BY DEF Augmented
    <2> HIDE DEF rows, h2, previous, at
    <2>3. h2 \in Working(n) /\ h2.column_row = rows /\ h2.column = previous
      BY <1>1, <2>1, <2>2 DEF Working
    <2>4. /\ h2.row = h.row /\ h2.used = h.used
          /\ h2.row_potential = h.row_potential /\ h2.column_potential = h.column_potential
          /\ h2.predecessor = h.predecessor
      BY <2>2 DEF Working
    <2> QED
      BY <2>3, <2>4 DEF rows
  <1> HIDE DEF h2
  <1>6. /\ h2.column_row[at] = h.column_row[previous]
        /\ \A j \in 0..n : j # at => h2.column_row[j] = h.column_row[j]
    <2>1. h.column_row \in [0..n -> 0..n]
      BY DEF Working
    <2> HIDE DEF at, previous
    <2> QED
      BY <1>1, <1>5, <2>1
  <1> HIDE DEF previous, at
  <1>7. \A i, j : Slack(h2, c, i, j) = Slack(h, c, i, j)
    BY <1>5 DEF Slack
  <1>8. Feasible(h2, c, n)
    BY <1>7 DEF Feasible
  <1>9. Lowered(h2, n)
    <2>1. \A j \in 1..n : h2.column_row[j] = 0 => h.column_row[j] = 0
      BY <1>3, <1>6
    <2> QED
      BY <1>5, <2>1 DEF Lowered
  <1>10. Matched(h2, c, n, previous)
    <2>1. Matched(h, c, n, at)
      BY DEF at
    <2>2. \A j \in 0..n : h2.column_row[j] <= h2.row
      BY <1>1, <1>5, <1>6, <2>1 DEF Matched
    <2>3. ASSUME NEW j \in (0..n) \ {previous}, NEW k \in (0..n) \ {previous},
                 h2.column_row[j] = h2.column_row[k], h2.column_row[j] # 0
          PROVE  j = k
      <3>1. \A m \in (0..n) \ {at} : h.column_row[m] = h.column_row[previous] => m = previous
        BY <1>1, <1>3, <1>4, <2>1 DEF Matched
      <3>2. CASE j = at \/ k = at
        BY <1>6, <2>3, <3>1, <3>2
      <3>3. CASE j # at /\ k # at
        BY <1>6, <2>1, <2>3, <3>3 DEF Matched
      <3> QED
        BY <3>2, <3>3
    <2>4. ASSUME NEW i \in 1..h2.row
          PROVE  \E j \in (0..n) \ {previous} : h2.column_row[j] = i
      <3>1. PICK j \in (0..n) \ {at} : h.column_row[j] = i
        BY <1>5, <2>1 DEF Matched
      <3>2. CASE j = previous
        BY <1>1, <1>4, <1>6, <3>1, <3>2
      <3>3. CASE j # previous
        BY <1>6, <3>1, <3>3
      <3> QED
        BY <3>2, <3>3
    <2>5. ASSUME NEW j \in (1..n) \ {previous}, h2.column_row[j] # 0
          PROVE  Slack(h2, c, h2.column_row[j], j) = 0
      <3>1. CASE j = at
        BY <1>3, <1>6, <1>7, <3>1
      <3>2. CASE j # at
        BY <1>6, <1>7, <2>1, <2>5, <3>2 DEF Matched
      <3> QED
        BY <3>1, <3>2
    <2> QED
      BY <2>2, <2>3, <2>4, <2>5 DEF Matched
  <1>11. ASSUME previous # 0 PROVE Trail(h2, c, n)
    <2>1. \A j \in h.used : h2.column_row[j] # 0
      BY <1>1, <1>3, <1>6 DEF Trail
    <2>2. ASSUME NEW j \in (h.used \cup {previous}) \ {0}, rank[j] <= rank[previous]
          PROVE  BackFrom(h2, c, j) /\ rank[h.predecessor[j]] < rank[j]
      <3>1. j \in h.used /\ j \in 0..n
        BY <1>1, <1>3, <2>2
      <3>2. rank[j] \in Nat /\ rank[previous] \in Nat /\ rank[at] \in Nat
        BY <1>1, <3>1
      <3>3. rank[j] <= rank[at] /\ rank[j] < rank[at]
        BY <1>3, <2>2, <3>2
      <3>4. BackFrom(h, c, j) /\ rank[h.predecessor[j]] < rank[j]
        BY <1>2, <2>2, <3>1, <3>3
      <3>5. h.predecessor[j] \in h.used /\ h.predecessor[j] \in 0..n
        BY <1>1, <3>4 DEF BackFrom
      <3>6. h.predecessor[j] # at
        <4>1. rank[h.predecessor[j]] \in Nat
          BY <3>5
        <4> QED
          BY <3>2, <3>3, <3>4, <4>1
      <3>7. h2.column_row[h.predecessor[j]] = h.column_row[h.predecessor[j]]
        BY <1>6, <3>5, <3>6
      <3> QED
        BY <1>5, <1>7, <3>4, <3>5, <3>7 DEF BackFrom
    <2> QED
      BY <1>5, <1>11, <2>1, <2>2 DEF Trail
  <1> QED
    BY <1>5, <1>8, <1>9, <1>10, <1>11 DEF h2

-------------------------------------------------------------------------------
(* The steps of the specification *)

Assigning == editing \in {"row", "scan", "augment"}

(* The call keeps its graphs, of which the matrix has as many rows as they *)
(* have nodes; the working state is that of the step it is in.             *)
HungarianInv ==
    LET n == Size
        h == hungarian
    IN /\ compared \in Comparisons
       /\ editing \in {"row", "scan", "augment", "spell", "done"}
       /\ n \in Nat /\ costs \in Matrix(n) /\ h \in Working(n)
       /\ Assigning => /\ n = Len(compared.first.nodes) + Len(compared.second.nodes)
                       /\ n # 0
       /\ Feasible(h, costs, n) /\ Lowered(h, n)
       /\ editing = "row" => Matched(h, costs, n, 0)
       /\ editing = "scan" => Matched(h, costs, n, -1) /\ Alternates(h, costs, n)
       /\ editing = "augment" => Matched(h, costs, n, h.column) /\ Trail(h, costs, n)

LEMMA ComparisonsAreValues ==
    ASSUME NEW x \in Comparisons
    PROVE  EditedGraph(x.first) /\ EditedGraph(x.second) /\ CostValue(x.costs)
  BY ComparisonAssumption DEF EditedGraph, CostValue

LEMMA LengthsAdd ==
    ASSUME NEW x \in Comparisons
    PROVE  Len(x.first.nodes) + Len(x.second.nodes) \in Nat
  <1>1. Len(x.first.nodes) \in Nat
    BY ComparisonsAreValues, GraphsAreFinite
  <1>2. Len(x.second.nodes) \in Nat
    BY ComparisonsAreValues, GraphsAreFinite
  <1> QED
    BY <1>1, <1>2, SumIsNatural, Zenon

(* The matrix of either orientation has a row for each node.               *)
LEMMA EitherWayAMatrix ==
    ASSUME NEW first, NEW second, EditedGraph(first), EditedGraph(second),
           Len(first.nodes) + Len(second.nodes) # 0,
           NEW c, CostValue(c), NEW upper \in Nat
    PROVE  LET n == Len(first.nodes) + Len(second.nodes)
           IN /\ CostMatrix(second, first, c, upper) \in Matrix(n)
              /\ Len(CostMatrix(second, first, c, upper)) = n
  <1> DEFINE a == Len(first.nodes)
             b == Len(second.nodes)
             back == CostMatrix(second, first, c, upper)
  <1>1. a \in Nat
    BY GraphsAreFinite
  <1>2. b \in Nat
    BY GraphsAreFinite
  <1>3. b + a # 0 => back \in Matrix(b + a) /\ Len(back) = b + a
    BY MatrixIsNatural
  <1>4. a + b # 0
    OBVIOUS
  <1> HIDE DEF a, b, back
  <1>5. b + a = a + b
    BY <1>1, <1>2
  <1>6. back \in Matrix(a + b) /\ Len(back) = a + b
    BY <1>3, <1>4, <1>5
  <1> QED
    BY <1>6 DEF a, b, back

LEMMA CallsHaveAMatrix ==
    ASSUME NEW x \in Comparisons, x = compared,
           Len(x.first.nodes) + Len(x.second.nodes) # 0
    PROVE  LET n == Len(x.first.nodes) + Len(x.second.nodes)
               there == CostMatrix(x.first, x.second, x.costs, DeleteAll)
               back == CostMatrix(x.second, x.first, x.costs, DeleteAll)
           IN /\ n \in Nat
              /\ there \in Matrix(n) /\ Len(there) = n
              /\ back \in Matrix(n) /\ Len(back) = n
  <1>1. EditedGraph(x.first) /\ EditedGraph(x.second) /\ CostValue(x.costs)
    BY ComparisonsAreValues
  <1>2. DeleteAll \in Nat
    BY <1>1, DeleteAllIsNatural DEF DeleteAll
  <1> DEFINE n == Len(x.first.nodes) + Len(x.second.nodes)
             there == CostMatrix(x.first, x.second, x.costs, DeleteAll)
             back == CostMatrix(x.second, x.first, x.costs, DeleteAll)
  <1>3. n \in Nat
    BY LengthsAdd
  <1>4. there \in Matrix(n) /\ Len(there) = n
    BY <1>1, <1>2, MatrixIsNatural, Zenon
  <1>5. back \in Matrix(n) /\ Len(back) = n
    BY <1>1, <1>2, EitherWayAMatrix, Zenon
  <1> QED
    BY <1>3, <1>4, <1>5

(* A call starts before the first row, or has nothing to assign.           *)
LEMMA CallsStart == InitEdits => HungarianInv
  <1> SUFFICES ASSUME InitEdits PROVE HungarianInv
    OBVIOUS
  <1>1. compared \in Comparisons /\ hungarian = Unsolved(Size)
    BY DEF InitEdits, Size
  <1>2. CASE costs = <<>>
    <2>1. Size = 0 /\ costs \in Matrix(0)
      BY <1>2 DEF Size, Matrix
    <2>2. editing \in {"spell", "done"}
      BY <1>2 DEF InitEdits
    <2>3. /\ Unsolved(0) \in Working(0)
          /\ Feasible(Unsolved(0), costs, 0) /\ Lowered(Unsolved(0), 0)
      BY <2>1, UnsolvedFacts
    <2> QED
      BY <1>1, <2>1, <2>2, <2>3 DEF HungarianInv, Assigning
  <1>3. CASE costs # <<>>
    <2> DEFINE n == Len(compared.first.nodes) + Len(compared.second.nodes)
    <2>1. /\ ~NothingToAssign
          /\ costs = CostMatrix(compared.first, compared.second, compared.costs, DeleteAll)
      BY <1>3 DEF InitEdits
    <2>2. n # 0
      BY <2>1 DEF NothingToAssign
    <2>3. n \in Nat /\ costs \in Matrix(n) /\ Size = n
      BY <1>1, <2>1, <2>2, CallsHaveAMatrix DEF Size
    <2> HIDE DEF n
    <2>4. /\ Unsolved(n) \in Working(n)
          /\ Feasible(Unsolved(n), costs, n) /\ Lowered(Unsolved(n), n)
          /\ Matched(Unsolved(n), costs, n, 0)
      BY <2>3, UnsolvedFacts
    <2>5. editing \in {"row", "done"}
      BY <1>3 DEF InitEdits
    <2>6. Assigning => Size = n /\ n # 0
      BY <2>2, <2>3
    <2> QED
      BY <1>1, <2>3, <2>4, <2>5, <2>6 DEF HungarianInv, n
  <1> QED
    BY <1>2, <1>3

(* The facts of one step, for the size of its matrix.                      *)
LEMMA RowSteps ==
    ASSUME HungarianInv, StartRow
    PROVE  HungarianInv'
  <1> DEFINE n == Size
             h == hungarian
             h2 == RowEntered(h, n)
  <1>1. /\ hungarian' = h2 /\ editing = "row" /\ editing' = "scan" /\ h.row < n
        /\ compared' = compared /\ costs' = costs /\ Size' = n
    BY DEF StartRow, Size, RowEntered
  <1>2. /\ compared \in Comparisons /\ n \in Nat /\ costs \in Matrix(n) /\ h \in Working(n)
        /\ Feasible(h, costs, n) /\ Lowered(h, n) /\ Matched(h, costs, n, 0)
        /\ n = Len(compared.first.nodes) + Len(compared.second.nodes) /\ n # 0
    BY <1>1 DEF HungarianInv, Assigning
  <1>3. /\ h2 \in Working(n) /\ Feasible(h2, costs, n) /\ Lowered(h2, n)
        /\ Matched(h2, costs, n, -1) /\ Alternates(h2, costs, n)
    BY <1>1, <1>2, RowsEnter
  <1> HIDE DEF n, h2
  <1> QED
    BY <1>1, <1>2, <1>3 DEF HungarianInv, Assigning

LEMMA ScanSteps ==
    ASSUME HungarianInv, Scan
    PROVE  HungarianInv'
  <1> DEFINE n == Size
             h == hungarian
             h2 == Scanned(h, costs, n)
  <1>1. /\ editing = "scan" /\ hungarian' = h2
        /\ editing' = IF h.column_row[h2.column] = 0 THEN "augment" ELSE "scan"
        /\ compared' = compared /\ costs' = costs /\ Size' = n
    <2> DEFINE visited == h.used \cup {h.column}
               active_row == h.column_row[h.column]
               free == (1..n) \ visited
               reduced(j) == costs[active_row][j] - h.row_potential[active_row] - h.column_potential[j]
               better == {j \in free : h.available[j] = Unreached \/ reduced(j) < h.available[j]}
               available == [j \in 0..n |-> IF j \in better THEN reduced(j) ELSE h.available[j]]
               led == [j \in 0..n |-> IF j \in better THEN h.column ELSE h.predecessor[j]]
               least == Min({available[j] : j \in free})
               next == Min({j \in free : available[j] = least})
               potentials == Raised(h, visited, least)
    <2>1. /\ editing = "scan"
          /\ hungarian' = [h EXCEPT !.used = visited, !.column = next,
                                    !.row_potential = potentials.row,
                                    !.column_potential = potentials.column,
                                    !.predecessor = led,
                                    !.available = [j \in 0..n |->
                                        available[j] - IF j \in free THEN least ELSE 0]]
          /\ editing' = IF h.column_row[next] = 0 THEN "augment" ELSE "scan"
          /\ compared' = compared /\ costs' = costs /\ Size' = n
      BY Zenon DEF Scan, Size
    <2>2. visited = Visited(h) /\ free = Free(h, n)
      BY Zenon DEF Visited, Free
    <2>3. better = Better(h, costs, n)
      BY <2>2, Zenon DEF Better, Reduced, Slack
    <2>4. available = Offered(h, costs, n) /\ led = Led(h, costs, n)
      BY <2>3, Zenon DEF Offered, Led, Reduced, Slack
    <2> HIDE DEF visited, free, better, available, led
    <2>5. least = Cheapest(h, costs, n)
      BY <2>2, <2>4, Zenon DEF Cheapest
    <2> HIDE DEF least
    <2>6. next = Following(h, costs, n)
      BY <2>2, <2>4, <2>5, Zenon DEF Following
    <2> HIDE DEF next
    <2>7. hungarian' = h2
      BY <2>1, <2>2, <2>4, <2>5, <2>6, Zenon DEF Scanned
    <2>8. Following(h, costs, n) = h2.column
      BY <2>7 DEF HungarianInv, Working, Scanned
    <2> QED
      BY <2>1, <2>6, <2>7, <2>8, Zenon
  <1>2. /\ compared \in Comparisons /\ n \in Nat /\ costs \in Matrix(n) /\ h \in Working(n)
        /\ Feasible(h, costs, n) /\ Lowered(h, n) /\ Matched(h, costs, n, -1) /\ Alternates(h, costs, n)
        /\ n = Len(compared.first.nodes) + Len(compared.second.nodes) /\ n # 0
    BY <1>1 DEF HungarianInv, Assigning
  <1>3. /\ h2 \in Working(n) /\ Feasible(h2, costs, n) /\ Lowered(h2, n)
        /\ IF h.column_row[h2.column] = 0
           THEN Matched(h2, costs, n, h2.column) /\ Trail(h2, costs, n)
           ELSE Matched(h2, costs, n, -1) /\ Alternates(h2, costs, n)
    BY <1>2, ScansKeep
  <1> HIDE DEF n, h2
  <1> QED
    BY <1>1, <1>2, <1>3 DEF HungarianInv, Assigning

LEMMA AugmentSteps ==
    ASSUME HungarianInv, Augment
    PROVE  HungarianInv'
  <1> DEFINE n == Size
             h == hungarian
             h2 == Augmented(h)
  <1>1. /\ editing = "augment" /\ hungarian' = h2
        /\ editing' = IF h.predecessor[h.column] = 0 THEN "row" ELSE "augment"
        /\ compared' = compared /\ costs' = costs /\ Size' = n
    BY DEF Augment, Augmented, Size
  <1>2. /\ compared \in Comparisons /\ n \in Nat /\ costs \in Matrix(n) /\ h \in Working(n)
        /\ Feasible(h, costs, n) /\ Lowered(h, n)
        /\ Matched(h, costs, n, h.column) /\ Trail(h, costs, n)
        /\ n = Len(compared.first.nodes) + Len(compared.second.nodes) /\ n # 0
    BY <1>1 DEF HungarianInv, Assigning
  <1>3. /\ h2 \in Working(n) /\ Feasible(h2, costs, n) /\ Lowered(h2, n)
        /\ Matched(h2, costs, n, h2.column)
        /\ h2.column # 0 => Trail(h2, costs, n)
    BY <1>2, HolesMoveBack
  <1>4. h2.column = h.predecessor[h.column]
    BY <1>2 DEF Augmented, Working
  <1> HIDE DEF n, h2
  <1> QED
    BY <1>1, <1>2, <1>3, <1>4 DEF HungarianInv, Assigning

LEMMA OrientationSteps ==
    ASSUME HungarianInv, FinishOrientation
    PROVE  HungarianInv'
  <1> DEFINE n == Size
             x == compared
             back == CostMatrix(x.second, x.first, x.costs, DeleteAll)
  <1>1. /\ editing = "row" /\ compared' = compared
        /\ costs' = IF Forward THEN back ELSE costs
        /\ hungarian' = IF Forward THEN Unsolved(n) ELSE hungarian
        /\ editing' = IF Forward THEN "row" ELSE "spell"
    BY DEF FinishOrientation
  <1>2. /\ compared \in Comparisons /\ n \in Nat /\ costs \in Matrix(n) /\ hungarian \in Working(n)
        /\ Feasible(hungarian, costs, n) /\ Lowered(hungarian, n)
        /\ n = Len(x.first.nodes) + Len(x.second.nodes) /\ n # 0
    BY <1>1 DEF HungarianInv, Assigning
  <1>3. CASE Forward
    <2>1. back \in Matrix(n) /\ Len(back) = n
      BY <1>2, CallsHaveAMatrix
    <2>2. costs' = back /\ Size' = n
      BY <1>1, <1>3, <2>1 DEF Size
    <2> HIDE DEF n, back
    <2>3. /\ Unsolved(n) \in Working(n)
          /\ Feasible(Unsolved(n), back, n) /\ Lowered(Unsolved(n), n)
          /\ Matched(Unsolved(n), back, n, 0)
      BY <1>2, <2>1, UnsolvedFacts
    <2> QED
      BY <1>1, <1>2, <1>3, <2>1, <2>2, <2>3 DEF HungarianInv, Assigning
  <1>4. CASE ~Forward
    <2>1. costs' = costs /\ hungarian' = hungarian /\ Size' = n /\ editing' = "spell"
      BY <1>1, <1>4 DEF Size
    <2> HIDE DEF n, back
    <2> QED
      BY <1>1, <1>2, <2>1 DEF HungarianInv, Assigning
  <1> QED
    BY <1>3, <1>4

(* The call never loses the invariant, whatever it compares.               *)
THEOREM HungarianInvHolds == EditsSpec => []HungarianInv
  <1>1. InitEdits => HungarianInv
    BY CallsStart
  <1>2. HungarianInv /\ [NextEdits]_editVars => HungarianInv'
    <2> SUFFICES ASSUME HungarianInv, [NextEdits]_editVars PROVE HungarianInv'
      OBVIOUS
    <2>1. CASE StartRow
      BY <2>1, RowSteps
    <2>2. CASE Scan
      BY <2>2, ScanSteps
    <2>3. CASE Augment
      BY <2>3, AugmentSteps
    <2>4. CASE FinishOrientation
      BY <2>4, OrientationSteps
    <2>5. CASE Spell
      <3>1. /\ compared' = compared /\ costs' = costs /\ hungarian' = hungarian
            /\ editing' = "done" /\ Size' = Size
        BY <2>5 DEF Spell, Size
      <3> QED
        BY <3>1 DEF HungarianInv, Assigning
    <2>6. CASE UNCHANGED editVars
      <3>1. /\ compared' = compared /\ costs' = costs /\ hungarian' = hungarian
            /\ editing' = editing /\ Size' = Size
        BY <2>6 DEF editVars, Size
      <3> QED
        BY <3>1 DEF HungarianInv, Assigning
    <2> QED
      BY <2>1, <2>2, <2>3, <2>4, <2>5, <2>6 DEF NextEdits
  <1> QED
    BY <1>1, <1>2, PTL DEF EditsSpec

(* The rows placed so far are exactly the first ones, one column each.     *)
LEMMA PlacedRowsCount ==
    ASSUME NEW n \in Nat, NEW c, NEW h \in Working(n), Matched(h, c, n, 0)
    PROVE  LET placed == {j \in 1..n : h.column_row[j] # 0}
           IN /\ {h.column_row[j] : j \in placed} = 1..h.row
              /\ Cardinality(placed) = h.row
  <1> DEFINE placed == {j \in 1..n : h.column_row[j] # 0}
             p == [j \in placed |-> h.column_row[j]]
  <1>1. h.row \in Nat /\ \A j \in placed : h.column_row[j] \in 1..h.row
    <2>1. h.row \in 0..n /\ \A j \in 0..n : h.column_row[j] \in 0..n /\ h.column_row[j] <= h.row
      BY DEF Matched, Working
    <2> QED
      BY <2>1
  <1>2. \A i \in 1..h.row : \E j \in placed : h.column_row[j] = i
    BY DEF Matched
  <1>3. \A j, k \in placed : h.column_row[j] = h.column_row[k] => j = k
    BY DEF Matched
  <1> HIDE DEF placed
  <1>4. p \in Injection(placed, 1..h.row) /\ p \in Surjection(placed, 1..h.row)
    BY <1>1, <1>2, <1>3 DEF Injection, IsInjective, Surjection
  <1>5. IsFiniteSet(1..h.row) /\ Cardinality(1..h.row) = h.row
    BY <1>1, IntervalsCount
  <1>6. Cardinality(placed) = Cardinality(1..h.row)
    BY <1>4, <1>5, FS_Injection
  <1> QED
    BY <1>1, <1>2, <1>5, <1>6 DEF placed

(* For any two graphs and any costs, the potentials of the Hungarian       *)
(* algorithm stay below the matrix and are met at every placed row, which  *)
(* is what makes the assignment at hand a cheapest one.                    *)
THEOREM PotentialsAlwaysProve == EditsSpec => []PotentialsProveTheAssignment
  <1>1. HungarianInv => PotentialsProveTheAssignment
    <2> DEFINE n == Size
               h == hungarian
               placed == {j \in 1..n : h.column_row[j] # 0}
               promised(i, j) == h.row_potential[i] + h.column_potential[j]
    <2>1. SUFFICES ASSUME HungarianInv PROVE PotentialsProveTheAssignment
      OBVIOUS
    <2>2. /\ n \in Nat /\ costs \in Matrix(n) /\ h \in Working(n)
          /\ Feasible(h, costs, n) /\ Lowered(h, n)
          /\ editing = "row" => Matched(h, costs, n, 0)
      BY <2>1 DEF HungarianInv
    <2>3. ASSUME NEW i \in 1..n, NEW j \in 1..n
          PROVE  /\ promised(i, j) <= costs[i][j]
                 /\ Slack(h, costs, i, j) = 0 => promised(i, j) = costs[i][j]
      <3>1. costs[i][j] \in Int
        BY <2>2 DEF Matrix
      <3>2. h.row_potential[i] \in Int /\ h.column_potential[j] \in Int
        <4>1. h.row_potential \in [0..n -> Int] /\ h.column_potential \in [0..n -> Int]
          BY <2>2 DEF Working
        <4> QED
          BY <2>2, <4>1
      <3>3. 0 <= Slack(h, costs, i, j)
        BY <2>2 DEF Feasible
      <3> QED
        BY <3>1, <3>2, <3>3 DEF Slack
    <2>4. \A j \in 1..n : h.column_potential[j] <= 0
      BY <2>2 DEF Lowered
    <2>5. ASSUME editing = "row"
          PROVE  /\ {h.column_row[j] : j \in placed} = 1..h.row /\ Cardinality(placed) = h.row
                 /\ \A j \in placed : promised(h.column_row[j], j) = costs[h.column_row[j]][j]
                 /\ \A j \in (1..n) \ placed : h.column_potential[j] = 0
      <3>1. {h.column_row[j] : j \in placed} = 1..h.row /\ Cardinality(placed) = h.row
        BY <2>2, <2>5, PlacedRowsCount
      <3>2. \A j \in placed : h.column_row[j] \in 1..n /\ Slack(h, costs, h.column_row[j], j) = 0
        <4>1. \A j \in 0..n : h.column_row[j] \in 0..n
          BY <2>2 DEF Working
        <4> QED
          BY <2>2, <2>5, <4>1 DEF Matched
      <3>3. \A j \in placed : promised(h.column_row[j], j) = costs[h.column_row[j]][j]
        BY <2>3, <3>2
      <3>4. \A j \in (1..n) \ placed : h.column_potential[j] = 0
        BY <2>2 DEF Lowered
      <3> QED
        BY <3>1, <3>3, <3>4
    <2> QED
      BY <2>3, <2>4, <2>5 DEF PotentialsProveTheAssignment
  <1> QED
    BY <1>1, HungarianInvHolds, PTL

================================================================================
