-------------------------- MODULE MCDataflowIntervals --------------------------
(* Functions for IntervalAnalysis: one counter on every reducible control  *)
(* flow of four blocks, two variables on a branch and a loop with any      *)
(* condition, and control flow nothing widens on.                          *)
EXTENDS IntervalAnalysis, LoopRegions, TLC

\* What a run may start from; the rest of the domain is too large to enumerate.
Environments == UNION {[names -> {Top}] : names \in SUBSET {"x", "y"}}

Literal(k) == [kind |-> "int", value |-> k]
Var(name) == [kind |-> "name", name |-> name]
Op(kind) == [kind |-> kind]
Def(name, operator, rhs) == [name |-> name, operator |-> operator, rhs |-> rhs]

Guarded(operator, constant, reversed, truth) ==
    [name |-> "x", operator |-> operator, constant |-> constant,
     reversed |-> reversed, truth |-> truth]

Flow(edges) == [edges |-> edges, stops |-> {}, exits |-> {}, flows |-> {}]

Problem(shape, names, does, guards) ==
    shape @@ [boundary |-> [v \in names |-> Top], variables |-> names, does |-> does,
              guards |-> guards]

-------------------------------------------------------------------------------
(* One counter *)

Keep == <<>>
Reset == <<Def("x", "=", <<Literal(0)>>)>>
Count == <<Def("x", "=", <<Var("x"), Literal(1), Op("add")>>)>>

Counters == {m \in [LocalNodes -> {Keep, Reset, Count}] : m[1] = Reset}

Starts == {-2, 0, 3}

NestedEdges ==
    {<<1, 2>>, <<2, 3>>, <<3, 2>>, <<3, 4>>, <<4, 2>>, <<4, 3>>, <<2, 4>>, <<3, 3>>}

CountersOver(shapes, guarded) ==
    {Problem(shape, {"x"}, does, [e \in edges |-> Guarded("<=", 0, FALSE, TRUE)]) :
        shape \in shapes, does \in Counters, edges \in guarded}

ReducibleShapes ==
    {BlockCfg(Flow(edges), "Forward") : edges \in
        {s \in SUBSET NestedEdges :
            s = ViewEdges(Flow(s)) /\ IrreducibleComponents(Flow(s)) = {}}}

\* Control flow without an irreducible region.
ReducibleProblems ==
    CountersOver(ReducibleShapes, {{}, {<<3, 4>>}, {<<3, 2>>, <<4, 2>>}})

\* A loop with header 2 around a cycle of 3 and 4 that is entered at both.
TangledShape ==
    BlockCfg(Flow({<<1, 2>>, <<2, 3>>, <<2, 4>>, <<3, 4>>, <<4, 3>>, <<4, 2>>}), "Forward")

TangledProblems == CountersOver({TangledShape}, {{<<4, 2>>}})

-------------------------------------------------------------------------------
(* Two variables *)

LoopShape == BlockCfg(Flow({<<1, 2>>, <<2, 3>>, <<3, 2>>, <<2, 4>>}), "Forward")
BranchShape == BlockCfg(Flow({<<1, 2>>, <<2, 3>>, <<2, 4>>, <<3, 4>>}), "Forward")

Before1 == {Keep, <<Def("x", "=", <<Literal(2)>>), Def("y", "=", <<Var("x"), Op("neg")>>)>>,
            <<Def("x", "=", <<Op("unknown")>>), Def("y", "=", <<Literal(1), Var("x"), Op("add")>>)>>}
Inside == {<<Def("x", "+=", <<Literal(1)>>)>>, <<Def("x", "-=", <<Literal(2)>>)>>, <<Def("x", "*=", <<Literal(2)>>)>>,
           <<Def("y", "=", <<Var("x"), Literal(1), Op("sub")>>), Def("x", "=", <<Var("y")>>)>>,
           <<Def("x", "=", <<Literal(3), Var("y"), Op("sub")>>)>>,
           <<Def("x", "-=", <<Var("y")>>), Def("y", "=", <<Var("y"), Var("x"), Op("mul")>>)>>}

Conditional ==
    {Problem(shape, {"x", "y"}, <<first, Keep, inside, <<Def("y", "=", <<Var("x"), Op("neg")>>)>> >>,
             (<<2, 3>> :> Guarded(operator, constant, reversed, TRUE))
                 @@ (<<2, 4>> :> Guarded(operator, constant, reversed, FALSE))) :
        shape \in {LoopShape, BranchShape}, first \in Before1, inside \in Inside,
        operator \in {"<", "<=", ">", ">=", "=="}, constant \in {-1, 2}, reversed \in BOOLEAN}

EveryProblem == ReducibleProblems \cup TangledProblems \cup Conditional
===============================================================================
