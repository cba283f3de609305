------------------------------ MODULE CfgExtractor -------------------------------
(***************************************************************************)
(* Control-flow construction (src/src/builder/cfg.rs). CfgExtractor walks *)
(* the body of each function with an explicit stack of frames and a stack  *)
(* of the exits of the constructs it has finished, and writes a plan of    *)
(* edges; the plans of all functions are emitted in order at the end, so   *)
(* extract and extract_parallel leave the same graph.                      *)
(*                                                                         *)
(* A frame names a node and where its construct resumes: "Enter" and      *)
(* "Leave" are those of the code, every other tag stands for the CfgFrame  *)
(* that runs once a child is finished. Both stacks have their top first.   *)
(***************************************************************************)
EXTENDS SyntaxTree

VARIABLES
    config,      \* CfgExtractorConfig: include_exceptions, include_call_edges
    pending,     \* the functions still to plan
    current,     \* the function being planned, NoNode between two
    frames, values,
    loops, tries, onPath,   \* CfgContext
    links,       \* edges of the plan being written
    plans,       \* finished plans, in order
    cfg          \* the overlay in the graph: edges, entries and exits

planVars == <<frames, values, loops, tries, onPath, links>>
cfgVars == <<config, pending, current, planVars, plans, cfg>>

Link(n, kind, m) == <<n, kind, m>>
LinkAll(from, kind, m) == [i \in DOMAIN from |-> Link(from[i], kind, m)]

Frame(at, n, i, exits) == [at |-> at, node |-> n, index |-> i, exits |-> exits]
Enter(n) == Frame("Enter", n, 0, <<>>)
Leave(n) == Frame("Leave", n, 0, <<>>)

ExitsOrNode(exits, n) == IF exits = <<>> THEN <<n>> ELSE exits

-------------------------------------------------------------------------------
(* What a construct reads of the syntax *)

FirstWhere(s, kinds) ==
    LET i == SelectInSeq(s, LAMBDA c : IsKind(c, kinds)) IN IF i = 0 THEN NoNode ELSE s[i]
LastWhere(s, kinds) ==
    LET i == SelectLastInSeq(s, LAMBDA c : IsKind(c, kinds)) IN IF i = 0 THEN NoNode ELSE s[i]
FirstOr(s, other) == IF s = <<>> THEN other ELSE Head(s)
Without(s, n) == SelectSeq(s, LAMBDA c : c # n)

\* A parser may keep keywords and delimiters among the children of a loop.
WhileBody(n) ==
    LET blocks == LastWhere(Children(n), {"Block"})
    IN IF Len(Children(n)) < 2 THEN NoNode
       ELSE IF blocks = NoNode THEN Last(Children(n)) ELSE blocks
WhileCondition(n) ==
    LET others == Without(Children(n), WhileBody(n))
    IN FirstOr(SelectSeq(others, LAMBDA c : ~IsKind(c, {"Token"})), FirstOr(others, NoNode))
LoopBody(n) ==
    LET blocks == LastWhere(Children(n), {"Block"})
    IN IF blocks = NoNode THEN FirstOr(Children(n), NoNode) ELSE blocks

\* The scrutinee, when there is one, is where the arms are chosen.
HasScrutinee(n) == Len(Children(n)) > 1 /\ ~IsKind(Children(n)[1], {"MatchArm"})
MatchSource(n) == IF HasScrutinee(n) THEN Children(n)[1] ELSE n
Arms(n) == SelectSeq(IF HasScrutinee(n) THEN Tail(Children(n)) ELSE Children(n),
                     LAMBDA c : IsKind(c, {"MatchArm"}))

TryBody(n) == FirstWhere(Children(n), {"Block"})
Catches(n) == SelectSeq(Children(n), LAMBDA c : IsKind(c, {"Catch"}))
FinallyOf(n) == LastWhere(Children(n), {"Finally"})

ElseTarget(n) ==
    LET branch == Children(n)[3]
    IN IF IsKind(branch, {"Else"}) THEN FirstOr(Children(branch), branch) ELSE branch

\* Mutant: one exit that returns is taken for all of them.
TerminatesPartly(child, exits) ==
    \/ IsKind(child, {"Return", "Break", "Continue", "Throw"})
    \/ \E i \in DOMAIN exits : IsKind(exits[i], {"Return", "Throw"})

\* A statement that never hands control to the next one of its block.
Terminates(child, exits) ==
    \/ IsKind(child, {"Return", "Break", "Continue", "Throw"})
    \/ exits # <<>> /\ \A i \in DOMAIN exits : IsKind(exits[i], {"Return", "Throw"})

WellFormedLoop(n) ==
    \/ IsKind(n, {"While"}) /\ Len(Children(n)) >= 2
    \/ IsKind(n, {"For", "Loop"}) /\ Children(n) # <<>>

\* continuation_edge_kind: control leaves a loop that does not hold the target.
ContinuationKind(n, m) ==
    IF \E l \in Ancestors(n) \cup {n} : WellFormedLoop(l) /\ l \notin Ancestors(m) \cup {m}
    THEN "LoopExit" ELSE "Sequential"
Continuations(from, m) ==
    [i \in DOMAIN from |-> Link(from[i], ContinuationKind(from[i], m), m)]

CallLinks(n) ==
    IF ast.callee[n] = NoNode THEN <<>> ELSE <<Link(n, "Call", ast.callee[n])>>
\* Only the handlers of the innermost try are linked.
ThrowLinks(n, handlers) == [i \in DOMAIN handlers |-> Link(n, "Throw", handlers[i])]

Handled == {"Block", "If", "While", "For", "Loop", "Match", "Return", "Break", "Continue"}

\* The handler a kind selects under the configuration.
Construct(n) ==
    IF IsKind(n, Handled \cup (IF config.exceptions THEN {"Try", "Throw"} ELSE {})
                         \cup (IF config.calls THEN {"Call"} ELSE {}))
    THEN ast.kind[n]
    ELSE IF IsKind(n, {"Throw"}) THEN "PlainThrow" ELSE "Sequence"

-------------------------------------------------------------------------------
(* The frame machine of process_node *)

Top == Head(frames)
Here == Top.node
Kids == Children(Here)
Finished == Head(values)   \* the exits of the child just finished

Entering(construct) ==
    /\ frames # <<>> /\ Top.at = "Enter"
    /\ ~IsKind(Here, {"Missing"}) /\ Here \notin onPath
    /\ Construct(Here) = construct

\* Enters the node and leaves its children and continuations in its place.
Schedule(pushed, new) ==
    /\ onPath' = onPath \cup {Here}
    /\ frames' = pushed \o <<Leave(Here)>> \o Tail(frames)
    /\ links' = links \o new
    /\ UNCHANGED values

\* Enters the node and has its exits at once.
Complete(exits, new) ==
    /\ onPath' = onPath \cup {Here}
    /\ frames' = <<Leave(Here)>> \o Tail(frames)
    /\ links' = links \o new
    /\ values' = <<exits>> \o values

Resuming(at) == frames # <<>> /\ Top.at \in at

\* Consumes the exits of a child and goes on with another one.
GoOn(pushed, new) ==
    /\ frames' = pushed \o Tail(frames)
    /\ values' = Tail(values)
    /\ links' = links \o new
    /\ UNCHANGED onPath

\* Consumes the exits of the last child and has those of the construct.
Conclude(exits, new) ==
    /\ frames' = Tail(frames)
    /\ values' = <<exits>> \o Tail(values)
    /\ links' = links \o new
    /\ UNCHANGED onPath

\* A node the graph lacks, or one still open above: its own exit.
EnterCut ==
    /\ frames # <<>> /\ Top.at = "Enter"
    /\ IsKind(Here, {"Missing"}) \/ Here \in onPath
    /\ frames' = Tail(frames)
    /\ values' = <<<<Here>>>> \o values
    /\ UNCHANGED <<onPath, links, loops, tries>>

LeaveNode ==
    /\ Resuming({"Leave"})
    /\ onPath' = onPath \ {Here}
    /\ frames' = Tail(frames)
    /\ UNCHANGED <<values, links, loops, tries>>

EnterBlock ==
    /\ Entering("Block")
    /\ IF Kids = <<>> THEN Complete(<<Here>>, <<>>)
       ELSE Schedule(<<Enter(Kids[1]), Frame("Open", Here, 1, <<>>)>>,
                     <<Link(Here, "Sequential", Kids[1])>>)
    /\ UNCHANGED <<loops, tries>>

\* BlockAfterChild; "Open" until a child has terminated, then "Closed".
BlockAfterChild ==
    /\ Resuming({"Open", "Closed"})
    /\ LET ends == Terminates(Kids[Top.index], Finished)
           kept == IF ends THEN Top.exits \o Finished ELSE Top.exits
           through == IF ends THEN <<>> ELSE Finished
           at == IF ends THEN "Closed" ELSE Top.at
       IN IF Top.index < Len(Kids)
          THEN LET next == Kids[Top.index + 1]
               IN GoOn(<<Enter(next), Frame(at, Here, Top.index + 1, kept)>>,
                       Continuations(through, next))
          ELSE Conclude(ExitsOrNode(IF at = "Closed" THEN kept ELSE kept \o through, Here), <<>>)
    /\ UNCHANGED <<loops, tries>>

EnterIf ==
    /\ Entering("If")
    /\ LET test == <<Link(Here, "Sequential", Kids[1])>>
           branch == test \o <<Link(Kids[1], "ConditionalTrue", Kids[2])>>
       IN CASE Len(Kids) = 0 -> Complete(<<Here>>, <<>>)
            [] Len(Kids) = 1 -> Complete(<<Kids[1]>>, test)
            [] Len(Kids) = 2 -> Schedule(<<Enter(Kids[2]), Frame("OnlyThen", Here, 0, <<>>)>>, branch)
            [] OTHER -> Schedule(<<Enter(Kids[2]), Frame("Then", Here, 0, <<>>)>>, branch)
    /\ UNCHANGED <<loops, tries>>

IfAfterThenWithoutElse ==
    /\ Resuming({"OnlyThen"})
    /\ Conclude(Append(Finished, Kids[1]), <<>>)
    /\ UNCHANGED <<loops, tries>>

IfAfterThen ==
    /\ Resuming({"Then"})
    /\ GoOn(<<Enter(ElseTarget(Here)), Frame("Else", Here, 0, Finished)>>,
            <<Link(Kids[1], "ConditionalFalse", ElseTarget(Here))>>)
    /\ UNCHANGED <<loops, tries>>

IfAfterElse ==
    /\ Resuming({"Else"})
    /\ Conclude(ExitsOrNode(Top.exits \o Finished, Here), <<>>)
    /\ UNCHANGED <<loops, tries>>

\* The body of a loop and the node its iterations return to.
LoopParts(n) ==
    CASE IsKind(n, {"While"}) -> [body |-> WhileBody(n), again |-> WhileCondition(n)]
      [] IsKind(n, {"For"}) -> [body |-> IF Children(n) = <<>> THEN NoNode ELSE Last(Children(n)),
                                again |-> n]
      [] IsKind(n, {"Loop"}) -> [body |-> LoopBody(n), again |-> n]

LoopEntry(n, p) ==
    CASE IsKind(n, {"While"}) -> <<Link(n, "Sequential", p.again),
                                   Link(p.again, "ConditionalTrue", p.body)>>
      [] IsKind(n, {"For"}) -> <<Link(n, "ConditionalTrue", p.body)>>
      [] IsKind(n, {"Loop"}) -> <<Link(n, "Sequential", p.body)>>

EnterLoop ==
    /\ \E construct \in {"While", "For", "Loop"} : Entering(construct)
    /\ LET p == LoopParts(Here)
       IN IF p.body = NoNode \/ p.again = NoNode
          THEN Complete(<<Here>>, <<>>) /\ UNCHANGED loops
          ELSE /\ Schedule(<<Enter(p.body), Frame("Body", Here, 0, <<>>)>>, LoopEntry(Here, p))
               /\ loops' = <<[loop |-> Here, target |-> p.again, breaks |-> <<>>]>> \o loops
    /\ UNCHANGED tries

\* WhileAfterBody, ForAfterBody and LoopAfterBody; only breaks leave a Loop.
LoopAfterBody ==
    /\ Resuming({"Body"})
    /\ LET again == LoopParts(Here).again
           leaving == IF IsKind(Here, {"Loop"}) THEN <<>> ELSE <<again>>
       IN Conclude(leaving \o Head(loops).breaks, LinkAll(Finished, "LoopBack", again))
    /\ loops' = Tail(loops)
    /\ UNCHANGED tries

EnterBreak ==
    /\ Entering("Break")
    /\ IF loops = <<>> THEN Complete(<<>>, <<>>) /\ UNCHANGED loops
       ELSE /\ Complete(<<>>, <<Link(Here, "Break", Head(loops).loop)>>)
            /\ loops' = [loops EXCEPT ![1].breaks = Append(@, Here)]
    /\ UNCHANGED tries

EnterContinue ==
    /\ Entering("Continue")
    /\ Complete(<<>>, IF loops = <<>> THEN <<>> ELSE <<Link(Here, "Continue", Head(loops).target)>>)
    /\ UNCHANGED <<loops, tries>>

\* Mutant: an arm without a body does not leave the match.
ScanArmsDroppingBare(n, i, exits) ==
    LET arms == Arms(n)
        bodied == {j \in i..Len(arms) : Children(arms[j]) # <<>>}
        stop == IF bodied = {} THEN Len(arms) + 1 ELSE Min(bodied)
        cases == [j \in 1..stop - i |-> Link(MatchSource(n), "Case", arms[i + j - 1])]
        body == Last(Children(arms[stop]))
    IN IF bodied = {}
       THEN [pushed |-> <<>>, exits |-> ExitsOrNode(exits, n), links |-> cases]
       ELSE [pushed |-> <<Enter(body), Frame("Arm", n, stop + 1, exits)>>, exits |-> <<>>,
             links |-> cases \o <<Link(MatchSource(n), "Case", arms[stop]),
                                  Link(arms[stop], "Sequential", body)>>]

\* MatchNext: links the arms from the i-th on, up to one that has a body; then
\* that body is scheduled, or the match is over.
ScanArms(n, i, exits) ==
    LET arms == Arms(n)
        bodied == {j \in i..Len(arms) : Children(arms[j]) # <<>>}
        stop == IF bodied = {} THEN Len(arms) + 1 ELSE Min(bodied)
        passed == SubSeq(arms, i, stop - 1)
        cases == [j \in DOMAIN passed |-> Link(MatchSource(n), "Case", passed[j])]
    IN IF bodied = {}
       THEN [pushed |-> <<>>, exits |-> ExitsOrNode(exits \o passed, n), links |-> cases]
       ELSE LET body == Last(Children(arms[stop]))
            IN [pushed |-> <<Enter(body), Frame("Arm", n, stop + 1, exits \o passed)>>,
                exits |-> <<>>,
                links |-> cases \o <<Link(MatchSource(n), "Case", arms[stop]),
                                     Link(arms[stop], "Sequential", body)>>]

EnterMatch ==
    /\ Entering("Match")
    /\ LET test == IF HasScrutinee(Here) THEN <<Link(Here, "Sequential", Kids[1])>> ELSE <<>>
           scan == ScanArms(Here, 1, <<>>)
       IN IF scan.pushed = <<>> THEN Complete(scan.exits, test \o scan.links)
          ELSE Schedule(scan.pushed, test \o scan.links)
    /\ UNCHANGED <<loops, tries>>

MatchAfterArm ==
    /\ Resuming({"Arm"})
    /\ LET scan == ScanArms(Here, Top.index, Top.exits \o Finished)
       IN IF scan.pushed = <<>> THEN Conclude(scan.exits, scan.links)
          ELSE GoOn(scan.pushed, scan.links)
    /\ UNCHANGED <<loops, tries>>

EnterReturn ==
    /\ Entering("Return")
    /\ IF Kids = <<>> THEN Complete(<<Here>>, <<>>)
       ELSE Schedule(<<Enter(Kids[1]), Frame("Returned", Here, 0, <<>>)>>,
                     <<Link(Here, "Sequential", Kids[1])>>)
    /\ UNCHANGED <<loops, tries>>

ReturnAfterExpression ==
    /\ Resuming({"Returned"})
    /\ Conclude(<<Here>>, <<>>)
    /\ UNCHANGED <<loops, tries>>

Handlers == IF tries = <<>> THEN <<>> ELSE Head(tries)

EnterThrow ==
    /\ Entering("Throw")
    /\ IF Kids = <<>> THEN Complete(<<>>, ThrowLinks(Here, Handlers))
       ELSE Schedule(<<Enter(Kids[1]), Frame("Thrown", Here, 0, <<>>)>>,
                     <<Link(Here, "Sequential", Kids[1])>>)
    /\ UNCHANGED <<loops, tries>>

ThrowAfterExpression ==
    /\ Resuming({"Thrown"})
    /\ Conclude(<<>>, ThrowLinks(Here, Handlers))
    /\ UNCHANGED <<loops, tries>>

EnterPlainThrow ==
    /\ Entering("PlainThrow")
    /\ Complete(<<Here>>, <<>>)
    /\ UNCHANGED <<loops, tries>>

\* The handlers are in force for the body alone.
EnterTry ==
    /\ Entering("Try")
    /\ LET body == TryBody(Here)
       IN IF body = NoNode
          THEN /\ Schedule(<<Frame("Handlers", Here, 1, <<>>)>>, <<>>)
               /\ UNCHANGED tries
          ELSE /\ Schedule(<<Enter(body), Frame("Tried", Here, 1, <<>>)>>,
                           <<Link(Here, "Sequential", body)>>)
               /\ tries' = <<Catches(Here)>> \o tries
    /\ UNCHANGED loops

\* Exits of the body or of a handler run into the finally block, if any.
Funnel(exits, finished, n) ==
    IF FinallyOf(n) = NoNode THEN [exits |-> exits \o finished, links |-> <<>>]
    ELSE [exits |-> exits, links |-> LinkAll(finished, "Sequential", FinallyOf(n))]

TryAfterBody ==
    /\ Resuming({"Tried"})
    /\ LET f == Funnel(Top.exits, Finished, Here)
       IN GoOn(<<Frame("Handlers", Here, 1, f.exits)>>, f.links)
    /\ tries' = Tail(tries)
    /\ UNCHANGED loops

\* TryCatchNext: the next handler that has a body, then the finally block.
TryCatchNext ==
    /\ Resuming({"Handlers"})
    /\ LET catches == Catches(Here)
           bodied == {i \in Top.index..Len(catches) : Children(catches[i]) # <<>>}
       IN IF bodied # {}
          THEN LET i == CHOOSE j \in bodied : \A k \in bodied : j <= k
                   body == Last(Children(catches[i]))
               IN /\ frames' = <<Enter(body), Frame("Caught", Here, i + 1, Top.exits)>>
                                    \o Tail(frames)
                  /\ links' = Append(links, Link(catches[i], "Catch", body))
                  /\ UNCHANGED values
          ELSE IF FinallyOf(Here) # NoNode
          THEN /\ frames' = <<Enter(FinallyOf(Here)), Frame("Finally", Here, 0, Top.exits)>>
                                \o Tail(frames)
               /\ UNCHANGED <<links, values>>
          ELSE /\ frames' = Tail(frames)
               /\ values' = <<ExitsOrNode(Top.exits, Here)>> \o values
               /\ UNCHANGED links
    /\ UNCHANGED <<onPath, loops, tries>>

TryAfterCatch ==
    /\ Resuming({"Caught"})
    /\ LET f == Funnel(Top.exits, Finished, Here)
       IN GoOn(<<Frame("Handlers", Here, Top.index, f.exits)>>, f.links)
    /\ UNCHANGED <<loops, tries>>

TryAfterFinally ==
    /\ Resuming({"Finally"})
    /\ Conclude(ExitsOrNode(Top.exits \o Finished, Here), <<>>)
    /\ UNCHANGED <<loops, tries>>

EnterCall ==
    /\ Entering("Call")
    /\ IF Kids = <<>> THEN Complete(<<Here>>, CallLinks(Here))
       ELSE Schedule(<<Enter(Kids[1]), Frame("Argument", Here, 1, <<>>)>>,
                     <<Link(Here, "Sequential", Kids[1])>>)
    /\ UNCHANGED <<loops, tries>>

CallAfterArgument ==
    /\ Resuming({"Argument"})
    /\ IF Top.index < Len(Kids)
       THEN GoOn(<<Enter(Kids[Top.index + 1]), Frame("Argument", Here, Top.index + 1, <<>>)>>,
                 <<Link(Here, "Sequential", Kids[Top.index + 1])>>)
       ELSE Conclude(<<Here>>, CallLinks(Here))
    /\ UNCHANGED <<loops, tries>>

EnterSequence ==
    /\ Entering("Sequence")
    /\ IF Kids = <<>> THEN Complete(<<Here>>, <<>>)
       ELSE Schedule(<<Enter(Kids[1]), Frame("Sequence", Here, 1, <<>>)>>,
                     <<Link(Here, "Sequential", Kids[1])>>)
    /\ UNCHANGED <<loops, tries>>

SequentialAfterChild ==
    /\ Resuming({"Sequence"})
    /\ IF Top.index < Len(Kids)
       THEN LET next == Kids[Top.index + 1]
            IN GoOn(<<Enter(next), Frame("Sequence", Here, Top.index + 1, <<>>)>>,
                    LinkAll(Finished, "Sequential", next))
       ELSE Conclude(Finished, <<>>)
    /\ UNCHANGED <<loops, tries>>

ProcessNode ==
    /\ \/ EnterCut \/ LeaveNode
       \/ EnterBlock \/ BlockAfterChild
       \/ EnterIf \/ IfAfterThenWithoutElse \/ IfAfterThen \/ IfAfterElse
       \/ EnterLoop \/ LoopAfterBody \/ EnterBreak \/ EnterContinue
       \/ EnterMatch \/ MatchAfterArm
       \/ EnterReturn \/ ReturnAfterExpression
       \/ EnterThrow \/ ThrowAfterExpression \/ EnterPlainThrow
       \/ EnterTry \/ TryAfterBody \/ TryCatchNext \/ TryAfterCatch \/ TryAfterFinally
       \/ EnterCall \/ CallAfterArgument
       \/ EnterSequence \/ SequentialAfterChild
    /\ UNCHANGED <<config, pending, current, plans, cfg>>

-------------------------------------------------------------------------------
(* extract: one plan per function, emitted together *)

\* plan_function_cfg up to its call of process_node.
BeginFunction ==
    /\ current = NoNode /\ pending # <<>>
    /\ current' = Head(pending)
    /\ LET kids == Children(Head(pending))
       IN IF kids = <<>> THEN UNCHANGED <<frames, links>>
          ELSE /\ frames' = <<Enter(Last(kids))>>
               /\ links' = <<Link(Head(pending), "Sequential", Last(kids))>>
    /\ UNCHANGED <<config, pending, values, loops, tries, onPath, plans, cfg>>

EndFunction ==
    /\ current # NoNode /\ frames = <<>>
    /\ plans' = Append(plans, [function |-> current, links |-> links,
                               exits |-> IF values = <<>> THEN <<>> ELSE Head(values)])
    /\ pending' = Tail(pending)
    /\ current' = NoNode /\ values' = <<>> /\ links' = <<>>
    /\ UNCHANGED <<config, frames, loops, tries, onPath, cfg>>

Planned == pending = <<>> /\ current = NoNode

\* CfgPlan::emit for every plan in turn; the graph keeps an edge once.
EmitCfg ==
    /\ Planned /\ plans # <<>>
    /\ cfg' = [edges |-> cfg.edges \cup UNION {ToSet(plans[i].links) : i \in DOMAIN plans},
               entries |-> cfg.entries \cup {plans[i].function : i \in DOMAIN plans},
               exits |-> cfg.exits \cup UNION {ToSet(plans[i].exits) : i \in DOMAIN plans}]
    /\ plans' = <<>>
    /\ UNCHANGED <<config, pending, current, planVars>>

NoCfg == [edges |-> {}, entries |-> {}, exits |-> {}]

InitCfg ==
    /\ pending = Functions /\ current = NoNode
    /\ frames = <<>> /\ values = <<>> /\ loops = <<>> /\ tries = <<>>
    /\ onPath = {} /\ links = <<>> /\ plans = <<>> /\ cfg = NoCfg

ExtractCfg == BeginFunction \/ ProcessNode \/ EndFunction \/ EmitCfg
===============================================================================
