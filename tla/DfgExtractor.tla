------------------------------ MODULE DfgExtractor -------------------------------
(***************************************************************************)
(* Data-flow construction (src/src/builder/dfg.rs). For each function a    *)
(* machine of Enter, Bind and Exit frames sweeps the syntax in execution   *)
(* order and keeps the definitions reaching each name: a definition kills  *)
(* the earlier ones in straight-line code and joins them under a branch or *)
(* a loop, and the children of a loop are swept twice. Its pairs become    *)
(* def-use edges, to which parameter and return edges are added.           *)
(*                                                                         *)
(* Modelled with include_field_access off. Source ranges are in node order.*)
(***************************************************************************)
EXTENDS SyntaxTree

VARIABLES
    dfgPending, dfgCurrent,
    work,        \* frames, the top first
    reaching,    \* ReachingEnv: the definitions kept for each name, in order
    pairs,       \* (definition, use) pairs of the sweep
    swept,       \* on_path
    dfgPlans,    \* finished plans: sequences of edges
    dfg          \* the overlay in the graph: a set of edges

dfgVars == <<dfgPending, dfgCurrent, work, reaching, pairs, swept, dfgPlans, dfg>>

NothingReaches == [x \in Names |-> <<>>]

Conditional == {"If", "Else", "While", "For", "Loop", "Match", "MatchArm", "Try", "Catch", "Finally"}
Repeated == {"While", "For", "Loop"}
Bindings == {"Variable", "Parameter"}
Assignments == {"Assignment", "CompoundAssignment"}

-------------------------------------------------------------------------------
(* Names and binders *)

IsNamed(n, x) == IsKind(n, {"Identifier"}) /\ ast.name[n] = x

\* The identifier that is the bound name of a declaration.
BinderOf(n) ==
    LET i == SelectInSeq(Children(n), LAMBDA c : IsNamed(c, ast.name[n]))
    IN IF ast.name[n] = NoName \/ i = 0 THEN NoNode ELSE Children(n)[i]

AssignsName(n) == Children(n) # <<>> /\ IsKind(Children(n)[1], {"Identifier"})

\* What a definition binds, NoName when it is not a plain name.
BoundName(n) ==
    IF IsKind(n, Bindings) THEN ast.name[n]
    ELSE IF IsKind(n, Assignments) /\ AssignsName(n) THEN ast.name[Children(n)[1]] ELSE NoName

\* The children evaluated before the name is bound: all but the binder of a
\* declaration, or the target of an assignment that does not read it.
Operands(n) ==
    LET binder == IF IsKind(n, Bindings) THEN BinderOf(n)
                  ELSE IF IsKind(n, {"Assignment"}) /\ AssignsName(n) THEN Children(n)[1] ELSE NoNode
    IN SelectSeq(Children(n), LAMBDA c : c # binder)

-------------------------------------------------------------------------------
(* The sweep: visit_reaching *)

Sweep(n, weak) == [do |-> "Enter", node |-> n, weak |-> weak]
SweepAll(s, weak) == [i \in DOMAIN s |-> Sweep(s[i], weak)]
Bind(n, weak) == [do |-> "Bind", node |-> n, weak |-> weak]
Exit(n) == [do |-> "Exit", node |-> n, weak |-> FALSE]

Swept == Head(work)
Doing(do) == work # <<>> /\ Swept.do = do

SweepCut ==
    /\ Doing("Enter")
    /\ IsKind(Swept.node, {"Missing"}) \/ Swept.node \in swept
    /\ work' = Tail(work)
    /\ UNCHANGED <<reaching, pairs, swept>>

Admitted(kinds) ==
    /\ Doing("Enter")
    /\ ast.kind[Swept.node] \in kinds /\ Swept.node \notin swept
    /\ swept' = swept \cup {Swept.node}

Replace(frames_) == work' = frames_ \o <<Exit(Swept.node)>> \o Tail(work)

\* A nested function has an environment of its own.
SweepFunction ==
    /\ Admitted({"Function"})
    /\ Replace(<<>>)
    /\ UNCHANGED <<reaching, pairs>>

SweepDefinition ==
    /\ Admitted(Bindings \cup Assignments)
    /\ LET n == Swept.node
           binding == IF BoundName(n) = NoName THEN <<>> ELSE <<Bind(n, Swept.weak)>>
       IN Replace(SweepAll(Operands(n), Swept.weak) \o binding)
    /\ UNCHANGED <<reaching, pairs>>

SweepUse ==
    /\ Admitted({"Identifier"})
    /\ Replace(<<>>)
    /\ LET n == Swept.node
           found == IF ast.name[n] = NoName THEN <<>> ELSE reaching[ast.name[n]]
       IN pairs' = pairs \o [i \in DOMAIN found |-> <<found[i], n>>]
    /\ UNCHANGED reaching

SweepRegion ==
    /\ Doing("Enter")
    /\ Admitted({ast.kind[Swept.node]}
                    \ ({"Missing", "Function", "Identifier"} \cup Bindings \cup Assignments))
    /\ LET n == Swept.node
           once == SweepAll(Children(n), Swept.weak \/ IsKind(n, Conditional))
       IN Replace(IF IsKind(n, Repeated) THEN once \o once ELSE once)
    /\ UNCHANGED <<reaching, pairs>>

\* Mutant: an assignment kills wherever it is written.
BoundAlwaysKilling(defs, n, weak) == <<n>>

\* bind_definition: add without killing where the code may not be executed.
Bound(defs, n, weak) ==
    IF ~weak THEN <<n>> ELSE IF n \in ToSet(defs) THEN defs ELSE Append(defs, n)

BindName ==
    /\ Doing("Bind")
    /\ reaching' = [reaching EXCEPT ![BoundName(Swept.node)] = Bound(@, Swept.node, Swept.weak)]
    /\ work' = Tail(work)
    /\ UNCHANGED <<pairs, swept>>

ExitNode ==
    /\ Doing("Exit")
    /\ swept' = swept \ {Swept.node}
    /\ work' = Tail(work)
    /\ UNCHANGED <<reaching, pairs>>

\* The seed is over: its pairs are dropped and the function itself is swept.
StartBody ==
    /\ Doing("Body")
    /\ work' = SweepAll(Children(Swept.node), FALSE)
    /\ pairs' = <<>>
    /\ swept' = {Swept.node}
    /\ UNCHANGED reaching

-------------------------------------------------------------------------------
(* seed_lexical_environment *)

LexicalPath(f) ==
    LET Up[k \in 0..Cardinality(Nodes)] ==
            IF k = 0 THEN <<f>>
            ELSE LET path == Up[k - 1]
                     p == Parent(Head(path))
                 IN IF p = NoNode \/ p \in ToSet(path) THEN path ELSE <<p>> \o path
    IN Up[Cardinality(Nodes)]

InOrder(s) == SortSeq(s, <)

\* The siblings before each node of the path from the outermost scope to f.
SeedsOf(f) ==
    LET path == LexicalPath(f)
        before(i) == SelectSeq(InOrder(Children(path[i])), LAMBDA c : c < path[i + 1])
    IN FlattenSeq([i \in 1..Len(path) - 1 |-> before(i)])

-------------------------------------------------------------------------------
(* Edges beside the sweep *)

Edge(n, kind, m) == <<n, kind, m>>
CallersOf(f) ==
    InNodeOrder({n \in Nodes : IsKind(n, {"Call"}) /\ ast.callee[n] = f})
InScope(f, kind) == InNodeOrder({n \in FunctionScope(f) : IsKind(n, {kind})})

\* call_arguments: the children but the callee, argument lists opened.
CallArguments(n) ==
    LET kids == InOrder(Children(n))
        named == SelectSeq(kids, LAMBDA c : IsKind(c, {"Identifier"}) /\ ast.callee[c] # NoNode
                                                /\ ast.callee[c] = ast.callee[n])
        callee == IF Len(named) = 1 THEN named[1] ELSE kids[1]
        given == SelectSeq(kids, LAMBDA c : c # callee)
    IN IF kids = <<>> THEN <<>>
       ELSE InOrder(FlattenSeq([i \in DOMAIN given |->
                IF IsKind(given[i], {"Arguments"}) THEN Children(given[i]) ELSE <<given[i]>>]))

\* Every identifier of the name below f, unless it is assigned; nested
\* functions and binders of declarations are included.
NamedUses(f, x) ==
    InNodeOrder({n \in Descendants(f) :
        /\ IsNamed(n, x)
        /\ LET p == Parent(n)
           IN ~(p # NoNode /\ IsKind(p, Assignments) /\ Children(p)[1] = n)})

DefUses(defUses) ==
    [i \in DOMAIN defUses |-> Edge(defUses[i][1], "DefUse", defUses[i][2])]

\* build_def_use_edges: what the graph does not hold yet.
SweepEdges == SelectSeq(DefUses(pairs), LAMBDA e : e[1] # e[3] /\ e \notin dfg)

\* build_parameter_edges: arguments to parameters, then parameters to every
\* use of their names, whatever was assigned in between.
ParameterEdges(f) ==
    LET params == InScope(f, "Parameter")
        callers == CallersOf(f)
        passed(c) == LET args == CallArguments(c)
                     IN [i \in 1..Min({Len(args), Len(params)}) |->
                            Edge(args[i], "Parameter", params[i])]
        used(p) == LET uses == IF ast.name[p] = NoName THEN <<>> ELSE NamedUses(f, ast.name[p])
                   IN DefUses([i \in DOMAIN uses |-> <<p, uses[i]>>])
    IN FlattenSeq([i \in DOMAIN callers |-> passed(callers[i])])
           \o SelectSeq(FlattenSeq([i \in DOMAIN params |-> used(params[i])]),
                        LAMBDA e : e[1] # e[3] /\ e \notin dfg)

\* build_return_edges: a returned expression flows to every call of f.
ReturnEdges(f) ==
    LET returns == SelectSeq(InScope(f, "Return"), LAMBDA r : Children(r) # <<>>)
        callers == CallersOf(f)
        back(r) == [i \in DOMAIN callers |-> Edge(Children(r)[1], "ReturnValue", callers[i])]
    IN FlattenSeq([i \in DOMAIN returns |-> back(returns[i])])

-------------------------------------------------------------------------------
(* extract: plan every function over the same graph, then emit in order *)

BeginSweep ==
    /\ dfgCurrent = NoNode /\ dfgPending # <<>>
    /\ dfgCurrent' = Head(dfgPending)
    /\ reaching' = NothingReaches
    /\ work' = Append(SweepAll(SeedsOf(Head(dfgPending)), FALSE),
                      [do |-> "Body", node |-> Head(dfgPending), weak |-> FALSE])
    /\ UNCHANGED <<dfgPending, pairs, swept, dfgPlans, dfg>>

EndSweep ==
    /\ dfgCurrent # NoNode /\ work = <<>>
    /\ dfgPlans' = Append(dfgPlans,
                          SweepEdges \o ParameterEdges(dfgCurrent) \o ReturnEdges(dfgCurrent))
    /\ dfgPending' = Tail(dfgPending)
    /\ dfgCurrent' = NoNode /\ pairs' = <<>> /\ swept' = {} /\ reaching' = NothingReaches
    /\ UNCHANGED <<work, dfg>>

EmitDfg ==
    /\ dfgCurrent = NoNode /\ dfgPending = <<>> /\ dfgPlans # <<>>
    /\ dfg' = dfg \cup UNION {ToSet(dfgPlans[i]) : i \in DOMAIN dfgPlans}
    /\ dfgPlans' = <<>>
    /\ UNCHANGED <<dfgPending, dfgCurrent, work, reaching, pairs, swept>>

InitDfg ==
    /\ dfgPending = Functions /\ dfgCurrent = NoNode
    /\ work = <<>> /\ reaching = NothingReaches /\ pairs = <<>> /\ swept = {}
    /\ dfgPlans = <<>> /\ dfg = {}

VisitReaching ==
    /\ \/ SweepCut \/ SweepFunction \/ SweepDefinition \/ SweepUse \/ SweepRegion
       \/ BindName \/ ExitNode \/ StartBody
    /\ UNCHANGED <<dfgPending, dfgCurrent, dfgPlans, dfg>>

ExtractDfg == BeginSweep \/ VisitReaching \/ EndSweep \/ EmitDfg
===============================================================================
