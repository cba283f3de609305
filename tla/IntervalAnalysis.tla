---------------------------- MODULE IntervalAnalysis -----------------------------
(***************************************************************************)
(* Interval analysis (src/src/analysis/dataflow/intervals.rs): environments*)
(* of intervals as a problem of DataflowSolver, whose constants a          *)
(* configuration gives the operators of this module. Then the analysed     *)
(* function runs, on integers without bound.                               *)
(*                                                                         *)
(* A problem has besides the fields DataflowSolver names                   *)
(*   variables  the universe of its variables                              *)
(*   does       the definitions of each block in order: a variable, "=" or *)
(*              a compound operator, and an expression                     *)
(*   guards     the comparison each guarded edge is taken on: variable,    *)
(*              operator, constant, whether the constant stands left, and  *)
(*              the truth the edge stands for                              *)
(* An expression is the sequence of its nodes in postorder, the order in   *)
(* which eval_expr leaves them; a node it cannot evaluate, a missing       *)
(* operand or a cycle of the syntax is an "unknown".                       *)
(***************************************************************************)
EXTENDS IntervalArithmetic, DataflowSolver, SequencesExt

CONSTANTS
    StartValues,   \* what a variable or an unknown may be when the function runs
    Reach          \* bound on the values of a run

VARIABLES
    place,   \* the block the run is in and its next definition
    store

runVars == <<place, store>>

-------------------------------------------------------------------------------
(* IntervalEnv: a function of its variables, bottom when it has none *)

NoEnv == [v \in {} |-> Top]
IsBottom(env) == DOMAIN env = {}

Get(env, v) == IF v \in DOMAIN env THEN env[v] ELSE Top
Set(env, v, i) == [w \in DOMAIN env \cup {v} |-> IF w = v THEN i ELSE env[w]]

MeetVariable(env, v, constraint) ==
    IF IsBottom(env) THEN env
    ELSE IF IsInterval(Common(Get(env, v), constraint))
         THEN Set(env, v, Common(Get(env, v), constraint))
         ELSE NoEnv

Shared(x, y) == DOMAIN x \cap DOMAIN y

EnvJoin(x, y) == [v \in Shared(x, y) |-> Hull(x[v], y[v])] @@ x @@ y
EnvJoinOf(envs) == FoldSet(EnvJoin, NoEnv, envs)
EnvWiden(x, y) == [v \in Shared(x, y) |-> Widened(x[v], y[v])] @@ x @@ y

EnvLeq(x, y) == \A v \in DOMAIN x : v \in DOMAIN y /\ IsSubsetOf(x[v], y[v])

-------------------------------------------------------------------------------
(* eval_expr, definition_value and transfer_block *)

Eval(expr, env) ==
    LET apply(values, node) ==
            LET top == Last(values)
                under == values[Len(values) - 1]
                one == Front(values)
                two == Front(one)
            IN CASE node.kind = "int" -> Append(values, Singleton(node.value))
                 [] node.kind = "name" -> Append(values, Get(env, node.name))
                 [] node.kind = "unknown" -> Append(values, Top)
                 [] node.kind = "neg" -> Append(one, Negate(top))
                 [] node.kind = "add" -> Append(two, AddIntervals(under, top))
                 [] node.kind = "sub" -> Append(two, SubtractIntervals(under, top))
                 [] node.kind = "mul" -> Append(two, Top)
    IN Last(FoldLeft(apply, <<>>, expr))

Value(env, d) ==
    LET rhs == Eval(d.rhs, env)
    IN CASE d.operator = "=" -> rhs
         [] d.operator = "+=" /\ IsSingleton(rhs) -> Shift(Get(env, d.name), rhs.lo)
         [] d.operator = "-=" /\ IsSingleton(rhs) -> Shift(Get(env, d.name), SaturatingNeg(rhs.lo))
         [] OTHER -> Top

Define(env, d) == IF IsBottom(env) THEN env ELSE Set(env, d.name, Value(env, d))

Transfer(p, b, env) == FoldLeft(Define, env, p.does[b])

-------------------------------------------------------------------------------
(* edge_constraint and transfer_edge *)

\* Mutant: a constant on the left is taken for one on the right.
SameSide(g) == g.operator

Normalized(g) == IF g.reversed THEN ReverseComparison(g.operator) ELSE g.operator

\* condition_expression: edges on == and != tell nothing.
Constrains(p, e) == e \in DOMAIN p.guards /\ p.guards[e].operator \in {"<", "<=", ">", ">="}

\* comparison_interval: a guard that leaves one region constrains its variable.
Refine(p, e, env) ==
    IF ~Constrains(p, e) THEN env
    ELSE LET g == p.guards[e]
             regions == Regions(Normalized(g), g.constant, g.truth)
         IN IF Cardinality(regions) = 1
            THEN MeetVariable(env, g.name, CHOOSE r \in regions : TRUE) ELSE env

-------------------------------------------------------------------------------
(* The function runs *)

\* node_value_ranges: the environment before the i-th definition of a block.
EnvBefore(b, i) == FoldLeft(Define, input[b], SubSeq(problem.does[b], 1, i - 1))

\* The value of an expression where every unknown is any.
Result(expr, any) ==
    LET apply(values, node) ==
            LET top == Last(values)
                under == values[Len(values) - 1]
                one == Front(values)
                two == Front(one)
            IN CASE node.kind = "int" -> Append(values, node.value)
                 [] node.kind = "name" -> Append(values, store[node.name])
                 [] node.kind = "unknown" -> Append(values, any)
                 [] node.kind = "neg" -> Append(one, -top)
                 [] node.kind = "add" -> Append(two, under + top)
                 [] node.kind = "sub" -> Append(two, under - top)
                 [] node.kind = "mul" -> Append(two, under * top)
    IN Last(FoldLeft(apply, <<>>, expr))

Nowhere == <<>>

Enter ==
    /\ phase = "done" /\ place = Nowhere
    /\ place' = <<problem.entry, 1>>
    /\ store' \in [problem.variables -> StartValues]

Assigned(d, any) ==
    LET value == Result(d.rhs, any)
    IN CASE d.operator = "=" -> value
         [] d.operator = "+=" -> store[d.name] + value
         [] d.operator = "-=" -> store[d.name] - value
         [] d.operator = "*=" -> store[d.name] * value

Perform ==
    /\ place # Nowhere /\ place[2] <= Len(problem.does[place[1]])
    /\ LET d == problem.does[place[1]][place[2]]
       IN \E any \in StartValues :
             /\ Assigned(d, any) \in -Reach..Reach
             /\ store' = [store EXCEPT ![d.name] = Assigned(d, any)]
    /\ place' = <<place[1], place[2] + 1>>

Open(g) ==
    (IF g.reversed THEN Holds(g.operator, g.constant, store[g.name])
     ELSE Holds(g.operator, store[g.name], g.constant)) <=> g.truth

Follow ==
    /\ place # Nowhere /\ place[2] > Len(problem.does[place[1]])
    /\ \E e \in problem.edges :
          /\ e[1] = place[1]
          /\ e \in DOMAIN problem.guards => Open(problem.guards[e])
          /\ place' = <<e[2], 1>>
    /\ UNCHANGED store

IntervalInit == Init /\ place = Nowhere /\ store = <<>>

IntervalNext ==
    \/ Next /\ UNCHANGED runVars
    \/ (Enter \/ Perform \/ Follow) /\ UNCHANGED vars

IntervalSpec == IntervalInit /\ [][IntervalNext]_<<vars, runVars>>

-------------------------------------------------------------------------------
(* Properties *)

\* "Computes sound integer value ranges": whatever way the function runs, each
\* variable has a value in the interval reported for the point, loops whose
\* bounds were widened and narrowed and branches left by their guards included.
ValuesAreContained ==
    place # Nowhere =>
        LET env == EnvBefore(place[1], place[2])
        IN ~IsBottom(env) /\ \A v \in DOMAIN store : Includes(Get(env, v), store[v])
===============================================================================
