------------------------------- MODULE LoopForest ------------------------------
(***************************************************************************)
(* loop_forest (src/src/analysis/loops.rs): natural loops are drafted      *)
(* header by header, then a region for each irreducible component, then    *)
(* the drafts are ordered and linked into a nesting forest.                *)
(***************************************************************************)
EXTENDS LoopRegions

CONSTANTS Functions, None

VARIABLES
    function,
    pending,     \* headers, then components, yet to be drafted
    drafts,
    phase,       \* "natural", "irreducible", "link", "done"
    loops,       \* the drafts in the order of their ids
    parent,      \* [ids -> id or None]
    depth,
    loop_of_node

vars == <<function, pending, drafts, phase, loops, parent, depth, loop_of_node>>

Init ==
    /\ function \in Functions
    /\ pending = NaturalHeaders(function)
    /\ drafts = {} /\ phase = "natural"
    /\ loops = <<>> /\ parent = <<>> /\ depth = <<>> /\ loop_of_node = <<>>

DraftNatural ==
    /\ phase = "natural" /\ pending # {}
    /\ LET header == Least(pending)
       IN /\ drafts' = drafts \cup {NaturalLoop(function, header)}
          /\ pending' = pending \ {header}
    /\ UNCHANGED <<function, phase, loops, parent, depth, loop_of_node>>

AppendIrreducible ==
    /\ phase = "natural" /\ pending = {}
    /\ phase' = "irreducible"
    /\ pending' = IrreducibleComponents(function)
    /\ UNCHANGED <<function, drafts, loops, parent, depth, loop_of_node>>

\* The components come in the order of the decomposition; the forest sorts them.
DraftIrreducible ==
    /\ phase = "irreducible"
    /\ \E body \in pending :
          /\ drafts' = drafts \cup {IrreducibleRegion(function, body)}
          /\ pending' = pending \ {body}
    /\ UNCHANGED <<function, phase, loops, parent, depth, loop_of_node>>

-------------------------------------------------------------------------------
(* build_forest *)

\* No two drafts share both: headers are distinct, and components disjoint.
DraftOrder(a, b) ==
    \/ a.header < b.header
    \/ a.header = b.header /\ ~a.irreducible /\ b.irreducible

OrderDrafts ==
    /\ phase = "irreducible" /\ pending = {}
    /\ phase' = "link"
    /\ loops' = SetToSortSeq(drafts, DraftOrder)
    /\ UNCHANGED <<function, pending, drafts, parent, depth, loop_of_node>>

Size(id) == Cardinality(loops[id].body)
\* The smallest of these loops, of the lowest id among equals.
Smallest(ids) ==
    CHOOSE i \in ids : \A j \in ids : Size(i) < Size(j) \/ (Size(i) = Size(j) /\ i <= j)


ParentOf(child) ==
    LET wider == {i \in DOMAIN loops : loops[child].body \subseteq loops[i].body
                                         /\ Size(i) > Size(child)}
    IN IF wider = {} THEN None ELSE Smallest(wider)

Link ==
    /\ phase = "link"
    /\ phase' = "done"
    /\ parent' = [id \in DOMAIN loops |-> ParentOf(id)]
    /\ depth' = LET level[id \in DOMAIN loops] ==
                        IF ParentOf(id) = None THEN 1 ELSE 1 + level[ParentOf(id)]
                IN level
    /\ loop_of_node' = [n \in UNION {loops[id].body : id \in DOMAIN loops} |->
                          Smallest({id \in DOMAIN loops : n \in loops[id].body})]
    /\ UNCHANGED <<function, pending, drafts, loops>>

Next == DraftNatural \/ AppendIrreducible \/ DraftIrreducible \/ OrderDrafts \/ Link

Spec == Init /\ [][Next]_vars

-------------------------------------------------------------------------------
(* Properties *)

Done == phase = "done"

Acyclic(edges) ==
    LET linked == ConnectionsIn([node |-> LocalNodes, edge |-> edges])
    IN \A e \in edges : ~linked[e[2], e[1]]

(* Loops are disjoint or nested: only then is the smallest enclosing body  *)
(* that build_forest takes the one parent a loop can have. Its depth       *)
(* counts the distinct bodies around it, and the innermost loop of a node  *)
(* is the deepest that holds it.                                           *)
NestingIsExact ==
    Done =>
        /\ \A i, j \in DOMAIN loops :
              loops[i].body \cap loops[j].body \in {{}, loops[i].body, loops[j].body}
        /\ \A i \in DOMAIN loops :
              depth[i] = 1 + Cardinality({loops[j].body : j \in {k \in DOMAIN loops :
                                  loops[i].body \subseteq loops[k].body /\ loops[i].body # loops[k].body}})
        /\ \A n \in DOMAIN loop_of_node : \A i \in DOMAIN loops :
              n \in loops[i].body => depth[i] <= depth[loop_of_node[n]]

(* A region is reported irreducible exactly where control flow stays       *)
(* cyclic without its back edges; everywhere else the headers meet every   *)
(* cycle, which is what the data-flow solver widens by.                    *)
IrreducibilityIsExact ==
    Done =>
        /\ (\E i \in DOMAIN loops : loops[i].irreducible)
              <=> ~Acyclic(ViewEdges(function) \ BackEdges(function))
        /\ (\A i \in DOMAIN loops : ~loops[i].irreducible) =>
              Acyclic({e \in ViewEdges(function) :
                          \A i \in DOMAIN loops : loops[i].header \notin {e[1], e[2]}})

===============================================================================
