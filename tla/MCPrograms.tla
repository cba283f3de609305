------------------------------- MODULE MCPrograms -------------------------------
(***************************************************************************)
(* Programs as data. For ProgramOverlays: constructs of the control-flow   *)
(* builder around small blocks of every kind, nested once, with a variable *)
(* x that is declared, assigned and read; and graphs that are no trees.    *)
(* For ConcurrentRun: strands that share a cell under two locks, functions *)
(* that take locks in nested sections and through calls, and processes     *)
(* that exchange messages over two channels.                               *)
(***************************************************************************)
EXTENDS SyntaxTree

\* A tree is the sequence of its nodes, the root first, in the order a parser
\* creates them; its kids are positions in that sequence.
Shift(tree, by) == [n \in DOMAIN tree |-> [tree[n] EXCEPT !.kids = [i \in DOMAIN @ |-> @[i] + by]]]
Lay(acc, tree) ==
    [nodes |-> acc.nodes \o Shift(tree, Len(acc.nodes)),
     roots |-> Append(acc.roots, Len(acc.nodes) + 1)]
Forest(trees) == FoldLeft(Lay, [nodes |-> <<>>, roots |-> <<>>], trees)
Grow(row, trees) ==
    LET below == FoldLeft(Lay, [nodes |-> <<row>>, roots |-> <<>>], trees)
    IN [below.nodes EXCEPT ![1].kids = below.roots]

Ast(trees) ==
    LET nodes == Forest(trees).nodes
    IN [kind |-> [n \in DOMAIN nodes |-> nodes[n].kind],
        children |-> [n \in DOMAIN nodes |-> nodes[n].kids],
        name |-> [n \in DOMAIN nodes |-> nodes[n].name],
        callee |-> [n \in DOMAIN nodes |-> nodes[n].callee]]

-------------------------------------------------------------------------------
(* Syntax *)

Tree(kind, name, kids) ==
    Grow([kind |-> kind, name |-> name, callee |-> NoNode, kids |-> <<>>], kids)
Node(kind, kids) == Tree(kind, NoName, kids)
Leaf(kind) == Node(kind, <<>>)
X == Tree("Identifier", "x", <<>>)
Block(s) == Node("Block", s)

Let == Tree("Variable", "x", <<X, Leaf("Other")>>)
Copy == Node("Assignment", <<X, X>>)
Bump == Node("CompoundAssignment", <<X, Leaf("Other")>>)
Give == Node("Return", <<X>>)
Raise == Node("Throw", <<X>>)
Call(f, args) == [Node("Call", <<Tree("Identifier", "f", <<>>)>> \o args) EXCEPT ![1].callee = f]

If(b) == Node("If", <<X, Block(b)>>)
IfElse(b, c) == Node("If", <<X, Block(b), Node("Else", <<Block(c)>>)>>)
While(b) == Node("While", <<Leaf("Token"), X, Block(b)>>)
For(b) == Node("For", <<Tree("Variable", "x", <<>>), X, Block(b)>>)
Loop(b) == Node("Loop", <<Leaf("Token"), Block(b)>>)
Match(b, c) == Node("Match", <<X, Node("MatchArm", <<Block(b)>>), Node("MatchArm", <<Block(c)>>),
                               Leaf("MatchArm")>>)
TryCatch(b, c) == Node("Try", <<Block(b), Node("Catch", <<Block(c)>>)>>)
TryFinally(b, c) == Node("Try", <<Block(b), Node("Finally", <<Block(c)>>)>>)
TryAll(b, c, d) == Node("Try", <<Block(b), Node("Catch", <<Block(c)>>),
                                 Node("Finally", <<Block(d)>>)>>)

Simple == {<<X>>, <<Copy>>, <<Leaf("Break")>>, <<Leaf("Continue")>>, <<Give>>, <<Raise>>,
           <<Bump, Leaf("Break")>>, <<Copy, Leaf("Continue")>>, <<Call(1, <<X>>), Let>>}
Few == {<<X>>, <<Copy>>, <<Leaf("Break")>>, <<Give>>, <<Raise>>}

Loops(S) == {While(b) : b \in S} \cup {For(b) : b \in S} \cup {Loop(b) : b \in S}
Branches(S, T) ==
    {If(b) : b \in S} \cup {IfElse(b, c) : b \in S, c \in T} \cup {Match(b, c) : b \in S, c \in T}
Tries(S, T) ==
    {TryCatch(b, c) : b \in S, c \in T} \cup {TryFinally(b, c) : b \in S, c \in T}
        \cup {TryAll(b, c, <<Bump>>) : b \in S, c \in T}

Once == Loops(Simple) \cup Branches(Simple, Few) \cup Tries(Simple, Few)
Nested(S) == {<<c, Copy>> : c \in S}
Inner == Loops(Few) \cup Branches(Few, {<<Copy>>}) \cup Tries(Few, {<<Copy>>})
Twice == Loops(Nested(Inner)) \cup Branches(Nested(Inner), {<<X>>})
             \cup Tries(Nested(Inner), {<<X>>})

Function(body) == Node("Function", <<Tree("Parameter", "x", <<>>), Block(body)>>)
Program(construct) == <<Function(<<Let, construct, X>>)>>

Full == [exceptions |-> TRUE, calls |-> TRUE]
Plain == [exceptions |-> FALSE, calls |-> FALSE]
Build(trees, options) == [ast |-> Ast(trees), config |-> options]

Runnable ==
    {Build(Program(c), Full) : c \in Once \cup Twice}
        \cup {Build(Program(c), Plain) : c \in Loops(Simple) \cup Tries(Few, {<<X>>})}
        \cup {Build(<<Function(<<Call(1, <<X>>), Copy, X>>),
                     Function(<<Call(1, <<Node("Arguments", <<X, Leaf("Other")>>)>>), Give>>)>>, Full)}

-------------------------------------------------------------------------------
(* Syntax no run is asked of: what a parser leaves of a broken source *)

\* A child replaced by another node: the graph shares it or has a cycle.
Graft(syntax, n, i, m) == [syntax EXCEPT !.children[n][i] = m]
Grafts(syntax) ==
    UNION {{Graft(syntax, n, i, m) : i \in DOMAIN syntax.children[n], m \in DOMAIN syntax.kind} :
           n \in DOMAIN syntax.kind}
Lost(syntax) == {[syntax EXCEPT !.kind[n] = "Missing"] : n \in DOMAIN syntax.kind}

Stubs ==
    {Leaf(k) : k \in {"Block", "If", "While", "For", "Loop", "Match", "Return", "Throw", "Try",
                       "Call", "Catch", "Break", "Continue", "Function"}}
        \cup {Node(k, <<X>>) : k \in {"If", "While", "For", "Loop", "Match", "Try"}}
        \cup {Node("Try", <<Block(<<Raise>>), Leaf("Catch"), Node("Finally", <<Block(<<X>>)>>)>>),
               Function(<<Copy, Give>>), Node("Match", <<Node("MatchArm", <<X>>)>>)}

Broken ==
    {Build(Program(c), Full) : c \in Stubs \cup {If(<<c>>) : c \in Stubs}}
        \cup {[ast |-> a, config |-> Full] :
               a \in UNION {Grafts(Ast(<<Function(<<c, X>>)>>)) \cup Lost(Ast(<<Function(<<c, X>>)>>)) :
                            c \in {While(<<Bump>>), IfElse(<<X>>, <<Give>>),
                                   TryAll(<<Raise>>, <<X>>, <<>>)}}}

SomeBuilds == Runnable \cup Broken

-------------------------------------------------------------------------------
(* Programs that show where the overlays fall short *)

EarlyReturn == {Build(Program(If(<<Give>>)), Full)}

-------------------------------------------------------------------------------
(* Syntax. The definitions come first: nodes 1 to 6. *)

Cell == 1
Scratch == 2
K == 3
L == 4
Ping == 5
Pong == 6
Definitions == 6

Row(kind, kids) ==
    Grow([kind |-> kind, kids |-> <<>>, message |-> "none", lock |-> "none", refers |-> {},
          call |-> 0, does |-> "none"], kids)
Use(d) == [Row("Identifier", <<>>) EXCEPT ![1].refers = {d}]
Member(f, does) == [Row("Member", <<>>) EXCEPT ![1].refers = {f}, ![1].does = does]

Read(f) == Row("Assignment", <<Use(Scratch), Member(f, "Read")>>)
Write(f) == Row("Assignment", <<Member(f, "Write")>>)
Update(f) == Row("Assignment", <<Member(f, "Write"), Member(f, "Read")>>)
Lock(d, mode) == [Row("Call", <<Use(d)>>) EXCEPT ![1].lock = mode]
Unlock(d) == Lock(d, "Release")
Message(kind, c) == [Row("Call", <<Use(c)>>) EXCEPT ![1].message = kind]
Par(operands) == [Row("Block", [i \in DOMAIN operands |-> Row("Block", operands[i])])
                     EXCEPT ![1].message = "Spawn"]
\* A call of the i-th function.
CallTo(i) == [Row("Call", <<>>) EXCEPT ![1].call = i]

R == "AcquireRead"
W == "AcquireWrite"
Section(d, mode, body) == <<Lock(d, mode)>> \o body \o <<Unlock(d)>>

\* A program starts its first functions, as many as started says.
Strands(bodies, started, max_pairs) ==
    LET functions == [i \in DOMAIN bodies |-> Row("Function", bodies[i])]
        flat == Forest([i \in 1..Definitions |-> Row(IF i = Cell THEN "Field" ELSE "Variable", <<>>)]
                           \o functions)
        nodes == flat.nodes
        function(i) == IF i = 0 THEN NoNode ELSE flat.roots[Definitions + i]
        every(field(_)) == [n \in DOMAIN nodes |-> field(nodes[n])]
        holder(n) == CHOOSE p \in DOMAIN nodes : n \in ToSet(nodes[p].kids)
    IN [ast |-> [kind |-> every(LAMBDA r : r.kind), children |-> every(LAMBDA r : r.kids),
                 name |-> every(LAMBDA r : NoName), callee |-> every(LAMBDA r : function(r.call)),
                 message |-> every(LAMBDA r : r.message), lock |-> every(LAMBDA r : r.lock),
                 refers |-> every(LAMBDA r : r.refers),
                 fields |-> {IF nodes[n].does = "Read" THEN <<n, "Read", holder(n)>>
                             ELSE <<holder(n), "Write", n>> :
                                 n \in {n \in DOMAIN nodes : nodes[n].does # "none"}}],
        roots |-> {function(i) : i \in 1..started},
        max_pairs |-> max_pairs]

NoCap == 1000000

-------------------------------------------------------------------------------
(* Strands that share a cell *)

Bodies == {<<Write(Cell)>>, <<Read(Cell), Write(Cell)>>}
Split(d, first, second) == Section(d, first, <<Read(Cell)>>) \o Section(d, second, <<Write(Cell)>>)

Halves ==
    Bodies \cup {<<Read(Cell)>>, <<Update(Cell)>>}
        \cup {Section(L, mode, body) : mode \in {R, W}, body \in Bodies}
        \cup {Split(L, first, second) : first \in {R, W}, second \in {R, W}}
        \cup {Section(K, mode, Split(L, W, W)) : mode \in {R, W}}
        \cup {Section(K, W, <<Write(Cell)>>), Section(K, W, Section(L, W, <<Write(Cell)>>)),
              Section(L, W, <<Read(Cell)>>) \o Section(L, W, <<Read(Cell)>>) \o Section(L, W, <<Write(Cell)>>),
              Section(L, W, <<Par(<<<<Read(Cell)>>, <<Write(Cell)>>>>)>>),
              Section(L, R, Section(L, W, <<Read(Cell)>>) \o <<Write(Cell)>>)}

Sharing ==
    {Strands(<<<<Read(Cell), Par(<<p, q>>), Write(Cell)>>>>, 1, NoCap) : p \in Halves, q \in Halves}
        \cup {Strands(<<<<Par(<<<<Par(<<p, q>>)>>, <<Update(Cell)>>>>)>>>>, 1, cap) :
                  p \in Bodies, q \in Bodies, cap \in {1, 4, NoCap}}

-------------------------------------------------------------------------------
(* Locks in nested sections and through calls. Functions 3 and 4 take K and *)
(* L, function 5 calls function 4.                                         *)

Helpers(mode) == <<Section(K, mode, <<>>), Section(L, mode, <<>>), <<CallTo(4)>>>>

Upwards ==
    {Section(K, mode, inner) :
         mode \in {R, W}, inner \in {Section(L, R, <<>>), Section(L, W, <<>>), <<CallTo(4)>>, <<CallTo(5)>>}}
Downwards ==
    {Section(L, mode, inner) :
         mode \in {R, W}, inner \in {Section(K, R, <<>>), Section(K, W, <<>>), <<CallTo(3)>>}}
\* Hand over hand: L is taken before K is given up.
Chained == {<<Lock(K, W), Lock(L, W), Unlock(K), Unlock(L)>>, Section(L, W, <<>>) \o Section(K, W, <<>>),
            <<Lock(L, W), Lock(Ping, W), Unlock(L), Lock(K, W), Unlock(Ping), Unlock(K)>>,
            <<Lock(K, R), Lock(K, W), Unlock(K), Lock(L, W), Unlock(L), Unlock(K)>>}

Locking ==
    {Strands(<<p, q>> \o Helpers(mode), 2, NoCap) :
         p \in Upwards \cup Chained, q \in Downwards \cup Chained, mode \in {R, W}}
        \cup {Strands(<<<<Par(<<p, q>>)>>, <<>>>> \o Helpers(W), 1, NoCap) :
                  p \in Upwards, q \in Downwards}

\* Functions that take a lock in one mode and then in the other.
TwoModes(d) == Section(d, R, <<>>) \o Section(d, W, <<>>)
Upgrading ==
    {Strands(<<Section(K, R, <<CallTo(4)>>), Section(L, R, <<CallTo(3)>>), TwoModes(K), TwoModes(L)>>,
             2, NoCap)}

-------------------------------------------------------------------------------
(* Processes and messages *)

Dialogues ==
    {<<Message("Recv", c), Message("Send", d)>> : c \in {Ping, Pong}, d \in {Ping, Pong}}
        \cup {<<Message("Send", c), Message("Recv", d)>> : c \in {Ping, Pong}, d \in {Ping, Pong}}
        \cup {<<Message(look, Ping), Message("Recv", Pong), Message("SendSync", Ping)>> :
                  look \in {"Peek", "RecvPersistent"}}
        \cup {<<Message("Send", Ping)>>, <<Message("Recv", Pong)>>}

Talking == {Strands(<<p, q, r>>, 3, NoCap) : p \in Dialogues, q \in Dialogues, r \in Dialogues}

Everything == Sharing \cup Locking \cup Talking
===============================================================================
