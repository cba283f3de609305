------------------------------ MODULE CfgEquations -------------------------------
(***************************************************************************)
(* The recursive equations of control-flow construction                   *)
(* (src/src/builder/cfg.rs, process_node_recursive and its handlers), the  *)
(* specification the frame machine replaced and is tested against. The    *)
(* flow of a node is its edges in order, its exits in order and the breaks *)
(* it leaves to the loop around it; scope holds what the code keeps in     *)
(* CfgContext: the innermost loop, the innermost handlers, the open nodes. *)
(***************************************************************************)
EXTENDS CfgExtractor

NoLoop == [loop |-> NoNode, target |-> NoNode]
OuterScope == [inner |-> NoLoop, handlers |-> <<>>, open |-> {}]

Flow(edges, exits, breaks) == [links |-> edges, exits |-> exits, breaks |-> breaks]

\* g after f, reached over the given edges; f's exits are then spent.
Followed(f, edges, g) == Flow(f.links \o edges \o g.links, g.exits, f.breaks \o g.breaks)
Before(edges, f) == Flow(edges \o f.links, f.exits, f.breaks)
WithExits(f, exits) == Flow(f.links, exits, f.breaks)

RECURSIVE NodeFlow(_, _)
RECURSIVE BlockFlow(_, _, _, _)
RECURSIVE SequenceFlow(_, _, _)
RECURSIVE ArmFlows(_, _, _)
RECURSIVE CatchFlows(_, _, _)
RECURSIVE ArgumentFlows(_, _, _)

\* process_block from its i-th child on; state is what earlier children left.
BlockFlow(n, i, state, scope) ==
    LET kids == Children(n)
        f == NodeFlow(kids[i], scope)
        ends == Terminates(kids[i], f.exits)
        kept == IF ends THEN state.exits \o f.exits ELSE state.exits
        now == [exits |-> kept, closed |-> state.closed \/ ends]
        through == IF ends THEN <<>> ELSE f.exits
    IN IF i = Len(kids)
       THEN WithExits(f, ExitsOrNode(IF now.closed THEN kept ELSE kept \o through, n))
       ELSE Followed(f, Continuations(through, kids[i + 1]), BlockFlow(n, i + 1, now, scope))

SequenceFlow(n, i, scope) ==
    LET f == NodeFlow(Children(n)[i], scope)
    IN IF i = Len(Children(n)) THEN f
       ELSE Followed(f, LinkAll(f.exits, "Sequential", Children(n)[i + 1]),
                     SequenceFlow(n, i + 1, scope))

IfFlow(n, scope) ==
    LET kids == Children(n)
        test == <<Link(n, "Sequential", kids[1])>>
        then == Before(test \o <<Link(kids[1], "ConditionalTrue", kids[2])>>,
                       NodeFlow(kids[2], scope))
        else == NodeFlow(ElseTarget(n), scope)
        both == Followed(then, <<Link(kids[1], "ConditionalFalse", ElseTarget(n))>>, else)
    IN CASE Len(kids) = 0 -> Flow(<<>>, <<n>>, <<>>)
         [] Len(kids) = 1 -> Flow(test, <<kids[1]>>, <<>>)
         [] Len(kids) = 2 -> WithExits(then, Append(then.exits, kids[1]))
         [] OTHER -> WithExits(both, ExitsOrNode(then.exits \o else.exits, n))

LoopFlow(n, scope) ==
    LET p == LoopParts(n)
        body == NodeFlow(p.body, [scope EXCEPT !.inner = [loop |-> n, target |-> p.again]])
        leaving == IF IsKind(n, {"Loop"}) THEN <<>> ELSE <<p.again>>
    IN IF p.body = NoNode \/ p.again = NoNode THEN Flow(<<>>, <<n>>, <<>>)
       ELSE Flow(LoopEntry(n, p) \o body.links \o LinkAll(body.exits, "LoopBack", p.again),
                 leaving \o body.breaks, <<>>)

\* The arms from the i-th on, their exits together.
ArmFlows(n, i, scope) ==
    LET arm == Arms(n)[i]
        chosen == Link(MatchSource(n), "Case", arm)
        body == Last(Children(arm))
        f == IF Children(arm) = <<>> THEN Flow(<<chosen>>, <<arm>>, <<>>)
             ELSE Before(<<chosen, Link(arm, "Sequential", body)>>, NodeFlow(body, scope))
        rest == ArmFlows(n, i + 1, scope)
    IN IF i > Len(Arms(n)) THEN Flow(<<>>, <<>>, <<>>)
       ELSE WithExits(Followed(f, <<>>, rest), f.exits \o rest.exits)

MatchFlow(n, scope) ==
    LET test == IF HasScrutinee(n) THEN <<Link(n, "Sequential", Children(n)[1])>> ELSE <<>>
        arms == ArmFlows(n, 1, scope)
    IN WithExits(Before(test, arms), ExitsOrNode(arms.exits, n))

\* Return and Throw evaluate their operand aside.
OperandFlow(n, exits, after, scope) ==
    IF Children(n) = <<>> THEN Flow(after, exits, <<>>)
    ELSE LET operand == NodeFlow(Children(n)[1], scope)
         IN Flow(<<Link(n, "Sequential", Children(n)[1])>> \o operand.links \o after,
                 exits, operand.breaks)

BreakFlow(n, scope) ==
    IF scope.inner = NoLoop THEN Flow(<<>>, <<>>, <<>>)
    ELSE Flow(<<Link(n, "Break", scope.inner.loop)>>, <<>>, <<n>>)

ContinueFlow(n, scope) ==
    IF scope.inner = NoLoop THEN Flow(<<>>, <<>>, <<>>)
    ELSE Flow(<<Link(n, "Continue", scope.inner.target)>>, <<>>, <<>>)

\* The handlers from the i-th on, each funnelled into the finally block.
CatchFlows(n, i, scope) ==
    LET catch == Catches(n)[i]
        body == Last(Children(catch))
        f == Before(<<Link(catch, "Catch", body)>>, NodeFlow(body, scope))
        out == Funnel(<<>>, f.exits, n)
        rest == CatchFlows(n, i + 1, scope)
    IN IF i > Len(Catches(n)) THEN Flow(<<>>, <<>>, <<>>)
       ELSE IF Children(catch) = <<>> THEN rest
       ELSE WithExits(Followed(f, out.links, rest), out.exits \o rest.exits)

TryFlow(n, scope) ==
    LET body == TryBody(n)
        tried == Before(<<Link(n, "Sequential", body)>>,
                        NodeFlow(body, [scope EXCEPT !.handlers = Catches(n)]))
        out == Funnel(<<>>, tried.exits, n)
        first == IF body = NoNode THEN Flow(<<>>, <<>>, <<>>)
                 ELSE Flow(tried.links \o out.links, out.exits, tried.breaks)
        caught == CatchFlows(n, 1, scope)
        last == IF FinallyOf(n) = NoNode THEN Flow(<<>>, <<>>, <<>>)
                ELSE NodeFlow(FinallyOf(n), scope)
    IN WithExits(Followed(Followed(first, <<>>, caught), <<>>, last),
                 ExitsOrNode(first.exits \o caught.exits \o last.exits, n))

ArgumentFlows(n, i, scope) ==
    IF i > Len(Children(n)) THEN Flow(CallLinks(n), <<n>>, <<>>)
    ELSE Followed(Before(<<Link(n, "Sequential", Children(n)[i])>>,
                         NodeFlow(Children(n)[i], scope)),
                  <<>>, ArgumentFlows(n, i + 1, scope))

NodeFlow(n, outer) ==
    LET scope == [outer EXCEPT !.open = @ \cup {n}]
    IN IF IsKind(n, {"Missing"}) \/ n \in outer.open THEN Flow(<<>>, <<n>>, <<>>)
       ELSE CASE Construct(n) = "Block" ->
                     IF Children(n) = <<>> THEN Flow(<<>>, <<n>>, <<>>)
                     ELSE Before(<<Link(n, "Sequential", Children(n)[1])>>,
                                 BlockFlow(n, 1, [exits |-> <<>>, closed |-> FALSE], scope))
              [] Construct(n) = "If" -> IfFlow(n, scope)
              [] Construct(n) \in {"While", "For", "Loop"} -> LoopFlow(n, scope)
              [] Construct(n) = "Match" -> MatchFlow(n, scope)
              [] Construct(n) = "Return" -> OperandFlow(n, <<n>>, <<>>, scope)
              [] Construct(n) = "Break" -> BreakFlow(n, scope)
              [] Construct(n) = "Continue" -> ContinueFlow(n, scope)
              [] Construct(n) = "Try" -> TryFlow(n, scope)
              [] Construct(n) = "Throw" ->
                     OperandFlow(n, <<>>, ThrowLinks(n, scope.handlers), scope)
              [] Construct(n) = "PlainThrow" -> Flow(<<>>, <<n>>, <<>>)
              [] Construct(n) = "Call" -> ArgumentFlows(n, 1, scope)
              [] Construct(n) = "Sequence" ->
                     IF Children(n) = <<>> THEN Flow(<<>>, <<n>>, <<>>)
                     ELSE Before(<<Link(n, "Sequential", Children(n)[1])>>,
                                 SequenceFlow(n, 1, scope))

\* extract_function_cfg_recursive_oracle as a plan.
PlanOf(f) ==
    LET kids == Children(f)
        flow == Before(<<Link(f, "Sequential", Last(kids))>>, NodeFlow(Last(kids), OuterScope))
    IN IF kids = <<>> THEN [function |-> f, links |-> <<>>, exits |-> <<>>]
       ELSE [function |-> f, links |-> flow.links, exits |-> flow.exits]
===============================================================================
