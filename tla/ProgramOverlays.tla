----------------------------- MODULE ProgramOverlays -----------------------------
(***************************************************************************)
(* The two overlays of one graph, built one after the other as the        *)
(* builders do, and then a run of the program they describe. The run asks  *)
(* of the overlays what an analysis that walks them relies on: that what   *)
(* the program does is among what they say it may do.                      *)
(*                                                                         *)
(* The run is no part of the code: it gives the constructs the builders    *)
(* tell apart their usual meaning, at the grain of the control-flow        *)
(* overlay, where a node is a step of its own. Conditions are              *)
(* nondeterministic; a match always has an arm that fits. control holds    *)
(* what is left to do, the next task first.                                *)
(***************************************************************************)
EXTENDS CfgEquations, DfgExtractor

CONSTANTS
    Builds,        \* the syntax graphs, each with an extractor configuration
    BlockScoped    \* whether a block is a scope of its own for its variables

VARIABLES
    control,
    at,        \* the node control is at
    scopes,    \* the definition each name has, the innermost scope first
    step,      \* the last move of control
    use        \* the last read of a variable: its definition and the reading node

runVars == <<control, at, scopes, step, use>>

NoStep == <<NoNode, NoNode>>
Empty == [x \in Names |-> NoNode]

Task(what, n) == [what |-> what, node |-> n]
Tasks(what, s) == [i \in DOMAIN s |-> Task(what, s[i])]
Running(what) == control # <<>> /\ Head(control).what = what
Subject == Head(control).node
AndThen(tasks) == control' = tasks \o Tail(control)

-------------------------------------------------------------------------------
(* The parts of a well-formed construct *)

Only(n, kind) == SelectSeq(Children(n), LAMBDA c : IsKind(c, {kind}))
BodyOf(n) == Head(Only(n, "Block"))
TestOf(n) == Head(SelectSeq(Children(n), LAMBDA c : ~IsKind(c, {"Token", "Variable"})))

\* A declaration or an assignment writes its name once its value is known.
IsWrite(n) == IsKind(n, {"Variable", "Assignment", "CompoundAssignment"})
Written(n) == IF IsKind(n, {"Variable"}) THEN ast.name[n] ELSE ast.name[Children(n)[1]]
OnlyWritten(n, i) == i = 1 /\ ~IsKind(n, {"CompoundAssignment"})

Asides(n) == FlattenSeq([i \in DOMAIN Children(n) |->
                            <<Task("Visit", Children(n)[i]), Task("Return to", n)>>])

\* What a node has done once control is at it.
Doings(n) ==
    CASE IsKind(n, {"Block"}) -> Tasks("Visit", Children(n)) \o <<Task("Close", n)>>
      [] IsKind(n, {"If"}) -> <<Task("Look", TestOf(n)), Task("Choose", n)>>
      [] IsKind(n, {"While"}) -> <<Task("Look", TestOf(n)), Task("Decide", n)>>
      [] IsKind(n, {"For"}) -> <<Task("Read", TestOf(n)), Task("Decide", n)>>
      [] IsKind(n, {"Loop"}) -> <<Task("Decide", n)>>
      [] IsKind(n, {"Match"}) -> <<Task("Look", TestOf(n)), Task("Pick", n)>>
      [] IsKind(n, {"Try"}) -> <<Task("Visit", BodyOf(n)), Task("Guard", n)>>
                                   \o Tasks("Finally", Only(n, "Finally"))
      [] IsKind(n, {"Return", "Throw", "Break", "Continue"}) ->
             Asides(n) \o <<Task("Jump", n)>>
      [] IsKind(n, {"Call"}) -> Asides(n)
      [] IsWrite(n) ->
             [i \in DOMAIN Children(n) |->
                 Task(IF OnlyWritten(n, i) THEN "Name" ELSE "Visit", Children(n)[i])]
                 \o <<Task("Write", n)>>
      [] IsKind(n, {"Function"}) -> <<>>
      [] OTHER -> Tasks("Visit", Children(n))

-------------------------------------------------------------------------------
(* Tasks *)

Holding(x) == {i \in DOMAIN scopes : scopes[i][x] # NoNode}
DefinitionOf(x) == IF Holding(x) = {} THEN NoNode ELSE scopes[Min(Holding(x))][x]

StepTo(n) == step' = <<at, n>> /\ at' = n
StayAt(n) == step' = NoStep /\ at' = n
Reads(n) == use' = IF IsKind(n, {"Identifier"}) THEN <<DefinitionOf(ast.name[n]), n>> ELSE NoStep
ReadsNothing == use' = NoStep

VisitNode ==
    /\ Running("Visit") \/ Running("Finally")
    /\ StepTo(Subject) /\ Reads(Subject)
    /\ AndThen(Doings(Subject))
    /\ scopes' = IF BlockScoped /\ IsKind(Subject, {"Block"}) THEN <<Empty>> \o scopes ELSE scopes

\* A step whose node has nothing more to do than, perhaps, to be read.
LookAt ==
    /\ Running("Look") \/ Running("Name") \/ Running("Read")
    /\ IF Running("Read") THEN StayAt(at) ELSE StepTo(Subject)
    /\ IF Running("Name") THEN ReadsNothing ELSE Reads(Subject)
    /\ AndThen(<<>>)
    /\ UNCHANGED scopes

WriteName ==
    /\ Running("Write")
    /\ LET x == Written(Subject)
           scope == IF IsKind(Subject, {"Variable"}) THEN 1
                    ELSE IF Holding(x) = {} THEN Len(scopes) ELSE Min(Holding(x))
       IN scopes' = [scopes EXCEPT ![scope][x] = Subject]
    /\ StayAt(at) /\ ReadsNothing
    /\ AndThen(<<>>)

ReturnTo ==
    /\ Running("Return to")
    /\ StayAt(Subject) /\ ReadsNothing
    /\ AndThen(<<>>)
    /\ UNCHANGED scopes

\* The end of a block, or of the part of a try its handlers watch.
CloseNode ==
    /\ Running("Close") \/ Running("Guard")
    /\ StayAt(at) /\ ReadsNothing
    /\ AndThen(<<>>)
    /\ scopes' = IF BlockScoped /\ Running("Close") THEN Tail(scopes) ELSE scopes

ElseBranch(n) ==
    LET branch == Children(n)[3]
    IN IF IsKind(branch, {"Else"}) THEN Children(branch)[1] ELSE branch

ChooseBranch ==
    /\ Running("Choose")
    /\ \/ AndThen(<<Task("Visit", Children(Subject)[2])>>)
       \/ Len(Children(Subject)) < 3 /\ AndThen(<<>>)
       \/ Len(Children(Subject)) = 3 /\ AndThen(<<Task("Visit", ElseBranch(Subject))>>)
    /\ StayAt(at) /\ ReadsNothing /\ UNCHANGED scopes

\* A for loop takes its next value each time round.
DecideLoop ==
    /\ Running("Decide")
    /\ \/ AndThen(Tasks("Write", Only(Subject, "Variable"))
                      \o <<Task("Visit", BodyOf(Subject)), Task("Again", Subject)>>)
       \/ ~IsKind(Subject, {"Loop"}) /\ AndThen(<<>>)
    /\ StayAt(at) /\ ReadsNothing /\ UNCHANGED scopes

LoopAgain ==
    /\ Running("Again")
    /\ LET where == IF IsKind(Subject, {"While"}) THEN TestOf(Subject) ELSE Subject
       IN StepTo(where) /\ Reads(where)
    /\ AndThen(<<Task("Decide", Subject)>>)
    /\ UNCHANGED scopes

PickArm ==
    /\ Running("Pick")
    /\ \E arm \in ToSet(Only(Subject, "MatchArm")) :
           /\ StepTo(arm)
           /\ AndThen(Tasks("Visit", Children(arm)))
    /\ ReadsNothing /\ UNCHANGED scopes

-------------------------------------------------------------------------------
(* Jumps: one task after the other is given up *)

Jumping == Running("Jump")
Rest == Tail(control)
Met(what) == Rest # <<>> /\ Head(Rest).what = what
JumpOver(tasks) == control' = <<Head(control)>> \o tasks

\* Where the jump ends: after the loop, at its next round, out of the program.
Land ==
    /\ Jumping
    /\ \/ Rest = <<>> /\ control' = <<>> /\ StayAt(Subject)
       \/ Met("Again") /\ IsKind(Subject, {"Break"}) /\ control' = Tail(Rest) /\ StayAt(at)
       \/ Met("Again") /\ IsKind(Subject, {"Continue"}) /\ control' = Rest /\ StayAt(at)
    /\ ReadsNothing /\ UNCHANGED scopes

Catchable == Met("Guard") /\ IsKind(Subject, {"Throw"}) /\ Only(Head(Rest).node, "Catch") # <<>>

Caught ==
    /\ Jumping /\ Catchable
    /\ \E catch \in ToSet(Only(Head(Rest).node, "Catch")) :
           /\ StepTo(catch)
           /\ control' = Tasks("Visit", Children(catch)) \o Tail(Rest)
    /\ ReadsNothing /\ UNCHANGED scopes

\* A finally block runs before the jump goes on.
RunFinally ==
    /\ Jumping /\ Met("Finally")
    /\ control' = <<Task("Visit", Head(Rest).node), Head(control)>> \o Tail(Rest)
    /\ StayAt(at) /\ ReadsNothing /\ UNCHANGED scopes

GiveUp ==
    /\ Jumping /\ Rest # <<>> /\ ~Catchable /\ ~Met("Finally")
    /\ ~(Met("Again") /\ IsKind(Subject, {"Break", "Continue"}))
    /\ JumpOver(Tail(Rest))
    /\ scopes' = IF BlockScoped /\ Met("Close") THEN Tail(scopes) ELSE scopes
    /\ StayAt(at) /\ ReadsNothing

-------------------------------------------------------------------------------
(* A run of one function *)

InitRun == control = <<>> /\ at = NoNode /\ scopes = <<>> /\ step = NoStep /\ use = NoStep

\* A call of f: its parameters are bound and its body runs.
RunFunction(f) ==
    /\ StayAt(f) /\ ReadsNothing
    /\ control' = <<Task("Visit", BodyOf(f))>>
    /\ scopes' = <<[x \in Names |->
           LET params == SelectSeq(Only(f, "Parameter"), LAMBDA p : ast.name[p] = x)
           IN IF params = <<>> THEN NoNode ELSE Last(params)]>>

RunOn ==
    \/ VisitNode \/ LookAt \/ WriteName \/ ReturnTo \/ CloseNode
    \/ ChooseBranch \/ DecideLoop \/ LoopAgain \/ PickArm
    \/ Land \/ Caught \/ RunFinally \/ GiveUp

-------------------------------------------------------------------------------
(* The overlays and the run *)

overlayVars == <<ast, cfgVars, dfgVars, runVars>>

CfgDone == pending = <<>> /\ current = NoNode /\ plans = <<>>
DfgDone == dfgPending = <<>> /\ dfgCurrent = NoNode /\ dfgPlans = <<>>
Built == CfgDone /\ DfgDone

-------------------------------------------------------------------------------
(* The programs the overlays are answerable for *)

Enclosing(n, kinds) == {m \in Ancestors(n) : IsKind(m, kinds)}
Innermost(S) == CHOOSE s \in S : \A t \in S : s \notin Ancestors(t)

\* The construct a jump stops at, none when it leaves the function.
Watching(n) == {t \in Enclosing(n, {"Try"}) : n \in Descendants(BodyOf(t))}
StopsAt(n) ==
    IF IsKind(n, {"Return"}) THEN {}
    ELSE IF IsKind(n, {"Throw"}) THEN Watching(n)
    ELSE Enclosing(n, {"While", "For", "Loop"})

\* The finally blocks that run while a jump from n unwinds.
Crossed(n) ==
    LET left == IF StopsAt(n) = {} THEN Ancestors(n) ELSE Ancestors(n) \cap Descendants(Innermost(StopsAt(n)))
    IN {t \in left : /\ IsKind(t, {"Try"}) /\ FinallyOf(t) # NoNode
                     /\ n \notin Descendants(FinallyOf(t))}

\* A return that ends the body or a handler of the only try it leaves.
EndsTry(n) ==
    /\ IsKind(n, {"Return"})
    /\ \E t \in Nodes : Crossed(n) = {t} /\ t \in {Parent(Parent(n)), Parent(Parent(Parent(n)))}
    /\ Last(Children(Parent(n))) = n /\ IsKind(Parent(n), {"Block"})

\* A tree of whole constructs, without nested functions, whose handlers have
\* bodies and whose jumps the control flow follows: a throw is caught by the
\* innermost try around it, a break has a loop, and no jump crosses a finally
\* block but a return that ends the try.
Supported ==
    /\ IsInjective(FlattenSeq(ast.children)) /\ \A n \in Nodes : ~IsKind(n, {"Missing"})
    /\ \A n \in Nodes : IsKind(n, {"Function"}) => Parent(n) = NoNode
    /\ \A n \in Nodes : IsKind(n, {"Function", "While", "For", "Loop", "Try"}) =>
           Len(Only(n, "Block")) = 1
    /\ \A n \in Nodes : IsKind(n, {"If", "While", "For", "Match"}) => Len(Children(n)) >= 2
    /\ \A n \in Nodes : IsKind(n, {"Catch"}) => Children(n) # <<>>
    /\ \A n \in Nodes : IsKind(n, {"Break", "Continue"}) => StopsAt(n) # {}
    /\ \A n \in Nodes : IsKind(n, {"Throw"}) /\ StopsAt(n) # {} =>
           Catches(Innermost(StopsAt(n))) # <<>>
    /\ \A n \in Nodes : IsKind(n, {"Return", "Break", "Continue", "Throw"}) =>
           Crossed(n) = {} \/ EndsTry(n)
    /\ config.exceptions \/ \A n \in Nodes : ~IsKind(n, {"Try", "Throw"})
    /\ config.calls \/ \A n \in Nodes : ~IsKind(n, {"Call"})

-------------------------------------------------------------------------------

NoOverlays == InitCfg /\ InitDfg /\ InitRun

InitOverlays ==
    /\ \E build \in Builds : ast = build.ast /\ config = build.config
    /\ NoOverlays

Extract ==
    \/ ExtractCfg /\ UNCHANGED <<ast, dfgVars, runVars>>
    \/ CfgDone /\ ExtractDfg /\ UNCHANGED <<ast, cfgVars, runVars>>

Execute ==
    /\ Built
    /\ RunOn \/ (at = NoNode /\ Supported /\ RunFunction(Head(Functions)))
    /\ UNCHANGED <<ast, cfgVars, dfgVars>>

\* The only rest there is; a walk stuck anywhere else is a deadlock.
Over ==
    /\ Built
    /\ IF at = NoNode THEN ~Supported ELSE control = <<>>
    /\ UNCHANGED overlayVars

NextOverlays == Extract \/ Execute \/ Over

SpecOverlays == InitOverlays /\ [][NextOverlays]_overlayVars

-------------------------------------------------------------------------------
(* Properties *)

\* The frame machine writes, edge for edge and in the same order, what the
\* recursive equations it replaced give, also where the syntax is shared,
\* cyclic, empty or lacks nodes.
PlansMatchEquations ==
    Planned => \A i \in DOMAIN plans : plans[i] = PlanOf(plans[i].function)

\* Every move of a run is an edge the intraprocedural view of the control flow
\* keeps, and a run that reaches the end of the body ends at an exit: an
\* analysis of the paths of the overlay misses no run.
RunsFollowTheOverlay ==
    LET f == Head(Functions)
        ended == at # NoNode /\ control = <<>> /\ ~IsKind(at, {"Return", "Throw"})
    IN /\ step # NoStep =>
              /\ \E e \in cfg.edges : e[1] = step[1] /\ e[3] = step[2] /\ e[2] # "Call"
              /\ ToSet(step) \subseteq FunctionScope(f)
       /\ ended => at \in cfg.exits

\* A variable that is read has the value of a definition the data flow links
\* to the read: joins, loops and jumps lose none.
NoDefinitionMissed ==
    use # NoStep /\ use[1] # NoNode => Edge(use[1], "DefUse", use[2]) \in dfg

\* Wherever a function returns is one of its control-flow exits.
ReturnsAreExits ==
    control = <<>> /\ at # NoNode /\ IsKind(at, {"Return"}) => at \in cfg.exits
===============================================================================
