------------------------------- MODULE Vf2Matcher -------------------------------
(***************************************************************************)
(* Vf2Matcher::find_matches_limited: every embedding of a pattern graph in *)
(* a target graph, by depth-first search over a partial mapping. The fringe *)
(* of both graphs, the unmapped neighbours of mapped nodes, is kept with   *)
(* counts, grown by push_mapping and taken back by pop_mapping, and tells  *)
(* where to look next. A graph is its node kinds in the order of their     *)
(* identifiers and its edges; a node is its place in that order. The dense *)
(* sets are the sets their Fenwick trees index.                            *)
(***************************************************************************)
EXTENDS Naturals, Sequences, FiniteSets, SequencesExt, FiniteSetsExt

CONSTANT Searches

\* sought is the call and state the Vf2State.
VARIABLES sought, state, search_stack, matches, searching

matchVars == <<sought, state, search_stack, matches, searching>>

UNMAPPED == 0

-------------------------------------------------------------------------------
(* Graphs *)

NodesOf(g) == DOMAIN g.kinds
EdgesFrom(g, n) == {e \in g.edges : e.source = n}
EdgesTo(g, n) == {e \in g.edges : e.target = n}
Successors(g, n) == {e.target : e \in EdgesFrom(g, n)}
Predecessors(g, n) == {e.source : e \in EdgesTo(g, n)}

NoGraph == [kinds |-> <<>>, edges |-> {}]

\* Graphs are finite, and edges are between nodes they have.
ASSUME SearchAssumption ==
    \A s \in Searches :
        /\ \A g \in {s.pattern, s.target} :
              /\ g.kinds \in Seq(ToSet(g.kinds))
              /\ \A e \in g.edges : {e.source, e.target} \subseteq NodesOf(g)
        /\ {s.max_matches, s.limit} \subseteq Nat

-------------------------------------------------------------------------------
(* Compatibility *)

\* The tags know these kinds by name; every other kind is Unknown.
NodeKindTag(kind) ==
    IF kind \in {"Function", "Variable", "Block", "If", "While", "Return", "Call", "Identifier"}
    THEN kind ELSE "Unknown"

Declarations == {"Function", "Variable"}
Expressions == {"Call", "Identifier"}
Statements == {"Return", "If", "While", "Break", "Continue"}

NodesCompatible(p, t) ==
    \/ NodeKindTag(p) = NodeKindTag(t)
    \/ ~sought.strict_kinds /\ \E S \in {Declarations, Expressions, Statements} : {p, t} \subseteq S

\* Control flow and data flow stand for one of their kinds each.
AstKinds == {"AstChild", "AstNextSibling"}
CfgKinds == {"Sequential", "LoopBack"}
CallKinds == {"StaticCall", "CallSite"}

EdgesCompatible(p, t) ==
    \/ p = t
    \/ ~sought.strict_edges /\ \E S \in {AstKinds, CfgKinds, CallKinds} : {p, t} \subseteq S

-------------------------------------------------------------------------------
(* The partial mapping and its fringe *)

NewState(pattern, target) ==
    LET side(g) == [mapping |-> [n \in NodesOf(g) |-> UNMAPPED], terminal |-> {},
                    count |-> [n \in NodesOf(g) |-> 0]]
    IN [pattern |-> side(pattern), target |-> side(target), order |-> <<>>]

Unmapped(side) == {n \in DOMAIN side.mapping : side.mapping[n] = UNMAPPED}
IsComplete(st) == Unmapped(st.pattern) = {}

\* One side of push_mapping: node is given its image, and its unmapped
\* neighbours gain a reason to be on the fringe.
Delta(g, side, node) ==
    {n \in Successors(g, node) \cup Predecessors(g, node) : n # node /\ side.mapping[n] = UNMAPPED}

Extended(g, side, node, image) ==
    LET delta == Delta(g, side, node)
    IN [mapping |-> [side.mapping EXCEPT ![node] = image],
        terminal |-> (side.terminal \ {node}) \cup {n \in delta : side.count[n] = 0},
        count |-> [n \in DOMAIN side.count |-> side.count[n] + IF n \in delta THEN 1 ELSE 0]]

Pushed(st, p, t) ==
    [pattern |-> Extended(sought.pattern, st.pattern, p, t),
     target |-> Extended(sought.target, st.target, t, p),
     order |-> Append(st.order, [pattern |-> p, target |-> t,
                                 pattern_delta |-> Delta(sought.pattern, st.pattern, p),
                                 target_delta |-> Delta(sought.target, st.target, t)])]

\* Mutant: a node that is popped never returns to the fringe.
UndoneForever(side, node, delta) ==
    LET count == [n \in DOMAIN side.count |-> side.count[n] - IF n \in delta THEN 1 ELSE 0]
    IN [mapping |-> [side.mapping EXCEPT ![node] = UNMAPPED],
        terminal |-> side.terminal \ {n \in delta : count[n] = 0},
        count |-> count]

\* One side of pop_mapping: the delta is undone before node itself returns.
Undone(side, node, delta) ==
    LET count == [n \in DOMAIN side.count |-> side.count[n] - IF n \in delta THEN 1 ELSE 0]
    IN [mapping |-> [side.mapping EXCEPT ![node] = UNMAPPED],
        terminal |-> (side.terminal \ {n \in delta : count[n] = 0})
                         \cup {n \in {node} : count[n] > 0},
        count |-> count]

Popped(st) ==
    LET frame == Last(st.order)
    IN [pattern |-> Undone(st.pattern, frame.pattern, frame.pattern_delta),
        target |-> Undone(st.target, frame.target, frame.target_delta),
        order |-> Front(st.order)]

-------------------------------------------------------------------------------
(* The search *)

\* Where the embedding may grow: along the fringe if both graphs have one.
SearchFrame(st, owns_mapping) ==
    LET terminal_only == st.pattern.terminal # {} /\ st.target.terminal # {}
    IN [pattern_index |-> Min(IF terminal_only THEN st.pattern.terminal ELSE Unmapped(st.pattern)),
        next_target |-> 1, terminal_only |-> terminal_only, owns_mapping |-> owns_mapping]

Candidates(frame) ==
    {t \in IF frame.terminal_only THEN state.target.terminal ELSE Unmapped(state.target) :
        t >= frame.next_target}

\* The edge's other end has an image already, or is the node being mapped.
ImageOf(n, p, t) == IF n = p THEN t ELSE state.pattern.mapping[n]
EdgeOnto(from, to, kind) ==
    \E e \in EdgesFrom(sought.target, from) : e.target = to /\ EdgesCompatible(kind, e.kind)

IsFeasible(p, t) ==
    LET out == EdgesFrom(sought.pattern, p)
        in == EdgesTo(sought.pattern, p)
    IN /\ NodesCompatible(sought.pattern.kinds[p], sought.target.kinds[t])
       /\ Cardinality(Successors(sought.pattern, p)) <= Cardinality(Successors(sought.target, t))
       /\ Cardinality(Predecessors(sought.pattern, p)) <= Cardinality(Predecessors(sought.target, t))
       /\ \A e \in out : LET to == ImageOf(e.target, p, t) IN to # UNMAPPED => EdgeOnto(t, to, e.kind)
       /\ \A e \in in : LET from == ImageOf(e.source, p, t) IN from # UNMAPPED => EdgeOnto(from, t, e.kind)

\* find_matches_limited: the smaller of the two limits, where 0 is none for the
\* matcher and an empty answer for the call; a call without one has a large limit.
Cap == IF sought.max_matches = 0 THEN sought.limit ELSE Min({sought.max_matches, sought.limit})
Full == Len(matches) >= Cap

Hopeless(s) ==
    s.limit = 0 \/ s.pattern.kinds = <<>> \/ Len(s.target.kinds) < Len(s.pattern.kinds)

NoMatching ==
    /\ sought = [pattern |-> NoGraph, target |-> NoGraph, strict_kinds |-> FALSE,
                 strict_edges |-> FALSE, max_matches |-> 0, limit |-> 0]
    /\ state = NewState(NoGraph, NoGraph)
    /\ search_stack = <<>> /\ matches = <<>> /\ searching = FALSE

InitMatching ==
    /\ sought \in Searches
    /\ state = NewState(sought.pattern, sought.target)
    /\ searching = ~Hopeless(sought)
    /\ search_stack = IF searching THEN <<SearchFrame(state, FALSE)>> ELSE <<>>
    /\ matches = <<>>

Continue == searching /\ search_stack # <<>> /\ ~Full
TopFrame == Last(search_stack)
PastCandidate(t) == [search_stack EXCEPT ![Len(search_stack)].next_target = t + 1]

\* The next candidate of the deepest frame: skipped, added to the mapping, or
\* the end of an embedding, which is taken out again at once.
Skip(p, t) == ~IsFeasible(p, t) /\ search_stack' = PastCandidate(t) /\ UNCHANGED <<state, matches>>

Extend(p, t) ==
    /\ IsFeasible(p, t) /\ ~IsComplete(Pushed(state, p, t))
    /\ state' = Pushed(state, p, t)
    /\ search_stack' = Append(PastCandidate(t), SearchFrame(Pushed(state, p, t), TRUE))
    /\ UNCHANGED matches

Emit(p, t) ==
    /\ IsFeasible(p, t) /\ IsComplete(Pushed(state, p, t))
    /\ matches' = Append(matches, Pushed(state, p, t).pattern.mapping)
    /\ state' = Popped(Pushed(state, p, t))
    /\ search_stack' = PastCandidate(t)

NextCandidate ==
    /\ Continue /\ Candidates(TopFrame) # {}
    /\ LET t == Min(Candidates(TopFrame))
       IN Skip(TopFrame.pattern_index, t) \/ Extend(TopFrame.pattern_index, t) \/ Emit(TopFrame.pattern_index, t)
    /\ UNCHANGED <<sought, searching>>

LeaveFrame ==
    /\ search_stack' = Front(search_stack)
    /\ state' = IF TopFrame.owns_mapping THEN Popped(state) ELSE state

\* Back to the frame above, and the mapping that led here is undone.
Backtrack ==
    /\ Continue /\ Candidates(TopFrame) = {}
    /\ LeaveFrame
    /\ UNCHANGED <<sought, matches, searching>>

\* A cap leaves frames behind, and each of them undoes its mapping.
Unwind ==
    /\ searching /\ Full /\ search_stack # <<>>
    /\ LeaveFrame
    /\ UNCHANGED <<sought, matches, searching>>

EndSearch ==
    /\ searching /\ search_stack = <<>>
    /\ searching' = FALSE
    /\ UNCHANGED <<sought, state, search_stack, matches>>

NextMatching == NextCandidate \/ Backtrack \/ Unwind \/ EndSearch

MatchingSpec == InitMatching /\ [][NextMatching]_matchVars

-------------------------------------------------------------------------------
(* Properties *)

\* An embedding takes different nodes to different nodes of a compatible kind,
\* and every edge to some edge of a compatible kind.
Embeddings ==
    {f \in [NodesOf(sought.pattern) -> NodesOf(sought.target)] :
        /\ IsInjective(f)
        /\ \A n \in DOMAIN f : NodesCompatible(sought.pattern.kinds[n], sought.target.kinds[f[n]])
        /\ \A e \in sought.pattern.edges : EdgeOnto(f[e.source], f[e.target], e.kind)}

\* The fringe kept with deltas is the one the mapping has, after every mixture
\* of pushes and pops: on a fringe that lost a node the search skips embeddings.
FringeIsExact ==
    \A s \in {<<sought.pattern, state.pattern>>, <<sought.target, state.target>>} :
        s[2].terminal = {n \in Unmapped(s[2]) : \E m \in DOMAIN s[2].mapping \ Unmapped(s[2]) :
                             m \in Successors(s[1], n) \cup Predecessors(s[1], n)}

\* The search emits every embedding once, as many as the cap lets it, and
\* leaves the state as it found it.
AllAreFound ==
    searching \/ Hopeless(sought) \/
        /\ ToSet(matches) \subseteq Embeddings /\ IsInjective(matches)
        /\ Len(matches) = Min({Cap, Cardinality(Embeddings)})
        /\ state = NewState(sought.pattern, sought.target)

SearchIsExact == FringeIsExact /\ AllAreFound
===============================================================================
