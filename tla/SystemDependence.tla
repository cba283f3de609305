---------------------------- MODULE SystemDependence ---------------------------
(***************************************************************************)
(* What follows the effect summaries (SummarySolver): summary edges from   *)
(* the arguments of a call to the call (build_summary_edges,               *)
(* src/src/analysis/sdg.rs) and slices in two passes over the dependences, *)
(* the parameters and the returned values (two_pass_slice there and        *)
(* slice_phase, src/src/builder/pdg.rs).  A step expands one node of the   *)
(* queue; every neighbour it may reach is relaxed in order of its id.      *)
(*                                                                         *)
(* Node n of function f is 100 * f + n.  The dependences inside a function *)
(* are those of its body, as the builder of the PDG emits them; the edges  *)
(* between functions are those of build_parameter_edges and                *)
(* build_return_edges (DfgExtractor).                                      *)
(***************************************************************************)
EXTENDS SummarySolver

VARIABLES
    summary_edges,   \* the dependences added for the calls
    slice,           \* the slice asked for, once it is
    pass,            \* 0 before it, 1 ascends, 2 descends, 3 is over
    best_depth,      \* [nodes found in this pass -> calls crossed]
    queue,           \* <<node, depth>>
    reached

sliceVars == <<slice, pass, best_depth, queue, reached>>
allVars == <<vars, summary_edges, sliceVars>>

-------------------------------------------------------------------------------
(* The graph *)

Name(f, n) == 100 * f + n

\* A slice starts from a node of the program; without nodes to return it is not begun.
ASSUME SliceAssumption ==
    \A prog \in Programs : \A now \in {prog} \cup Rewrites(prog) :
        \A request \in JobsFor(now) :
            request.slices \subseteq [criterion: {Name(f, n) : f \in DOMAIN now, n \in LocalNames},
                                     direction: {"Incoming", "Outgoing"},
                                     max_call_depth: Nat, max_nodes: Nat \ {0}]

Within(f, pairs) == {<<Name(f, e[1]), Name(f, e[2])>> : e \in pairs}

\* <<function, site, callee>>: the call edges.
CallEdges ==
    UNION {UNION {{<<f, s, g>> : g \in program[f].sites[s]} : s \in DOMAIN program[f].sites} :
              f \in Callables}

Dependences ==
    summary_edges
        \cup UNION {Within(f, program[f].data \cup program[f].control) : f \in Callables}

ParameterInEdges ==
    {<<Name(c[1], Arguments[c[2]][i]), Name(c[3], i)>> : c \in CallEdges, i \in Formals}

ReturnValueEdges ==
    UNION {{<<Name(c[3], r), Name(c[1], Calls[c[2]])>> : r \in program[c[3]].returned} :
              c \in CallEdges}

-------------------------------------------------------------------------------
(* build_summary_edges *)

\* Mutant: only a settled callee speaks for an ambiguous call.
SummaryOfSettled(known) ==
    UNION {{<<Name(c[1], Arguments[c[2]][i]), Name(c[1], Calls[c[2]])>> :
               i \in IF Capped \in known[c[3]] THEN Formals ELSE Masked(known[c[3]])} :
              c \in {c \in CallEdges : c[3] \in DOMAIN known /\ Resolved(program[c[1]].sites[c[2]])}}

\* Every callee that has a summary connects what it may return; a capped one
\* connects every argument.
SummaryEdges(known) ==
    UNION {{<<Name(c[1], Arguments[c[2]][i]), Name(c[1], Calls[c[2]])>> :
               i \in IF Capped \in known[c[3]] THEN Formals ELSE Masked(known[c[3]])} :
              c \in {c \in CallEdges : c[3] \in DOMAIN known}}

-------------------------------------------------------------------------------
(* Initial states *)

NothingSliced ==
    /\ summary_edges = {}
    /\ slice = <<>> /\ pass = 0 /\ best_depth = <<>> /\ queue = <<>> /\ reached = {}

InitSlices == Init /\ NothingSliced

-------------------------------------------------------------------------------
(* Actions *)

Summarise == Next /\ UNCHANGED <<summary_edges, sliceVars>>

\* The criterion is a node of the graph; max_nodes is positive (zero returns {}).
BeginSlice ==
    /\ phase = "done" /\ pass = 0
    /\ slice' \in job.slices
    /\ summary_edges' = SummaryEdges(summaries)
    /\ pass' = 1
    /\ best_depth' = [n \in {slice'.criterion} |-> 0]
    /\ queue' = << <<slice'.criterion, 0>> >>
    /\ reached' = {slice'.criterion}
    /\ UNCHANGED vars

\* The edges between functions that a pass admits, in the direction of the slice.
Crossing(direction, number) ==
    IF (direction = "Incoming") = (number = 1) THEN ParameterInEdges ELSE ReturnValueEdges

\* Neighbours of n and the cost of the edge, as 2 * neighbour + cost: the order of
\* these numbers is that of the pairs.
Neighbours(n) ==
    LET ends(edges) == IF slice.direction = "Incoming"
                       THEN {e[1] : e \in {e \in edges : e[2] = n}}
                       ELSE {e[2] : e \in {e \in edges : e[1] = n}}
    IN {2 * m : m \in ends(Dependences)}
           \cup {2 * m + 1 : m \in ends(Crossing(slice.direction, pass))}

\* Mutant: a node keeps the depth it was found at first.
FirstDepthStays(known, m, depth) == m \in DOMAIN known

\* A node found at no greater depth before needs no second visit.
AlreadyBetter(known, m, depth) == m \in DOMAIN known /\ known[m] <= depth

\* One neighbour: acc is [depth of the nodes found, queue, reached].
Relax(acc, m, depth) ==
    IF \/ depth > slice.max_call_depth
       \/ AlreadyBetter(acc.best, m, depth)
       \/ m \notin acc.reached /\ Cardinality(acc.reached) >= slice.max_nodes
    THEN acc
    ELSE [best |-> [x \in DOMAIN acc.best \cup {m} |-> IF x = m THEN depth ELSE acc.best[x]],
          queue |-> Append(acc.queue, <<m, depth>>),
          reached |-> acc.reached \cup {m}]

Expand ==
    /\ pass \in {1, 2} /\ queue # <<>>
    /\ LET n == Head(queue)[1] depth == Head(queue)[2]
           start == [best |-> best_depth, queue |-> Tail(queue), reached |-> reached]
           end == IF depth > best_depth[n] THEN start
                  ELSE FoldLeft(LAMBDA acc, x : Relax(acc, x \div 2, depth + (x % 2)), start,
                                Ascending(Neighbours(n)))
       IN /\ best_depth' = end.best /\ queue' = end.queue /\ reached' = end.reached
    /\ UNCHANGED <<vars, summary_edges, slice, pass>>

\* The second pass starts from every node of the first, at its depth.
SecondPass ==
    /\ pass = 1 /\ queue = <<>>
    /\ pass' = 2
    /\ queue' = LET found == Ascending(DOMAIN best_depth)
                IN [i \in DOMAIN found |-> <<found[i], best_depth[found[i]]>>]
    /\ UNCHANGED <<vars, summary_edges, slice, best_depth, reached>>

EndSlice ==
    /\ pass = 2 /\ queue = <<>>
    /\ pass' = 3
    /\ UNCHANGED <<vars, summary_edges, slice, best_depth, queue, reached>>

SliceNext == Summarise \/ BeginSlice \/ Expand \/ SecondPass \/ EndSlice

SliceSpec == InitSlices /\ [][SliceNext]_allVars

-------------------------------------------------------------------------------
(* Properties *)

SdgNodes == UNION {{Name(f, n) : n \in LocalNames} : f \in Callables}

Turned(edges) ==
    IF slice.direction = "Outgoing" THEN edges ELSE {<<e[2], e[1]>> : e \in edges}

Image(S, edges) == {e[2] : e \in {e \in edges : e[1] \in S}}

\* Every node the edges lead to from a set of nodes.
Closure(from, edges) ==
    LET grown[S \in SUBSET SdgNodes] ==
            LET next == S \cup Image(S, edges) IN IF next = S THEN S ELSE grown[next]
    IN grown[from]

\* The nodes that two passes reach over the represented edges: those found while
\* ascending, and from them those found while descending, in places <<node, pass>>
\* grown one crossed call at a time; at counts the calls still to cross.
TwoPasses ==
    LET flat == Turned(Dependences)
        up == Turned(Crossing(slice.direction, 1))
        down == Turned(Crossing(slice.direction, 2))
        level(S) == LET one == Closure(S[1], flat) IN <<one, Closure(one \cup S[2], flat)>>
        crossed(S) == level(<<S[1] \cup Image(S[1], up), S[2] \cup Image(S[2], down)>>)
        within[at \in (0..slice.max_call_depth) \X ((SUBSET SdgNodes) \X (SUBSET SdgNodes))] ==
            LET next == crossed(at[2])
            IN IF at[1] = 0 \/ next = at[2] THEN at[2] ELSE within[<<at[1] - 1, next>>]
    IN within[<<slice.max_call_depth, level(<<{slice.criterion}, {}>>)>>][2]

\* The depth a node is first found at may be greater than the one it needs, and
\* the two passes share one set and one cap on its size: yet a slice below the
\* cap is all that can be reached within the depth, and one at the cap is a part
\* of it.
SliceIsExact ==
    pass = 3 =>
        /\ reached \subseteq TwoPasses
        /\ Cardinality(reached) <= slice.max_nodes
        /\ Cardinality(reached) < slice.max_nodes => reached = TwoPasses

\* Which arguments reach the result of their call by data dependences alone, each
\* return taken back to the call it answers: summary paths without summary edges.
SteppedOver ==
    LET data == UNION {Within(f, program[f].data) : f \in Callables}
        over[k \in 0..(2 * Len(program))] ==
            IF k = 0 THEN {}
            ELSE LET edges == data \cup over[k - 1]
                     through == [g \in Callables |-> {i \in Formals :
                                    Closure({Name(g, i)}, edges)
                                        \cap {Name(g, r) : r \in program[g].returned} # {}}]
                 IN UNION {{<<Name(c[1], Arguments[c[2]][i]), Name(c[1], Calls[c[2]])>> :
                               i \in through[c[3]]} : c \in CallEdges}
    IN over[2 * Len(program)]

\* Where the effects are complete, no cap cuts the slice, and calls pass data
\* on, the slice misses no dependence along a path that returns where it was
\* called from, through whatever recursion: the masks of the effects, the
\* summary edges and the two passes fit together.
SliceCoversContexts ==
    pass = 3 /\ cap_events = {} /\ issues = {} /\ Cardinality(reached) < slice.max_nodes
           /\ slice.max_call_depth >= 2 * Cardinality(SdgNodes) =>
        LET level == Turned(Dependences \cup SteppedOver)
            ascended == Closure({slice.criterion},
                                level \cup Turned(Crossing(slice.direction, 1)))
        IN Closure(ascended, level \cup Turned(Crossing(slice.direction, 2))) \subseteq reached
===============================================================================
