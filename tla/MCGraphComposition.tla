-------------------------- MODULE MCGraphComposition --------------------------
(***************************************************************************)
(* Small instances of GraphComposition and of ProgramLinking for TLC.      *)
(***************************************************************************)
EXTENDS ProgramLinking

\* Selections without and with a repeated identifier.
Distinct == {ids \in UNION {[1..n -> 1..3] : n \in 0..2} : IsInjective(ids)}

-------------------------------------------------------------------------------
(* Syntax trees, and the graph the builder makes of one: in preorder, an edge *)
(* from every parent.                                                         *)

Row == [id |-> 0, parent |-> None, children |-> <<>>, refs |-> {}, kind |-> "Root",
        name |-> None, text |-> <<>>, braces |-> FALSE, method |-> FALSE, means |-> None]

Tree(row, kids) == [row |-> row, kids |-> kids]
Named(kind, name, kids) == Tree([Row EXCEPT !.kind = kind, !.name = name], kids)

Function(name, kids) == Named("Function", name, kids)
Class(name, kids) == Named("Class", name, kids)
Block(kids) == Named("Block", None, kids)
Module(name, kids) ==
    Tree([Row EXCEPT !.kind = "Module", !.name = name, !.text = <<name>>], kids)

Call(name) ==
    Tree([Row EXCEPT !.kind = "Call"],
         <<Named("Identifier", name, <<>>), Named("Identifier", "x", <<>>)>>)
MethodCall(name) ==
    Tree([Row EXCEPT !.kind = "Call", !.method = TRUE],
         <<Named("Member", name, <<Named("Identifier", "x", <<>>)>>)>>)

Import(text, braces, path, names) ==
    Tree([Row EXCEPT !.kind = "Import", !.text = text, !.braces = braces,
                     !.means = [file |-> path, names |-> names]], <<>>)

RECURSIVE Grown(_, _, _)
Grown(g, parent, tree) ==
    LET id == g.next_node_id
        added == AddNode(g, tree.row)
        linked == IF parent = None THEN added
                  ELSE AddEdge(added, [id |-> 0, kind |-> AstChild, source |-> parent, target |-> id])
    IN FoldLeft(LAMBDA h, kid : Grown(h, id, kid), linked, tree.kids)

File(path, kids) == [path |-> path, graph |-> Grown(EmptyStore, None, Tree(Row, kids))]

-------------------------------------------------------------------------------
(* Files *)

MathPath == <<<<"src">>, <<"math", "rs">>>>
Math == File(MathPath, <<Function("add", <<>>), Function("sub", <<>>)>>)

\* Declares under its own root what others import from elsewhere.
Rival == File(<<<<"src">>, <<"rival", "rs">>>>,
              <<Function("add", <<>>), Function("sum", <<>>)>>)

\* Two files of one name.
Left == File(<<<<"src">>, <<"left">>, <<"math", "rs">>>>, <<Function("add", <<>>)>>)

\* A file that stands for its directory, a module in a file of another name,
\* and declarations no import reaches.
Index == File(<<<<"src">>, <<"math">>, <<"mod", "rs">>>>,
              <<Function("add", <<Function("sum", <<>>)>>), Class("Sum", <<Function("sub", <<>>)>>)>>)
Inner == File(<<<<"src">>, <<"geometry", "rs">>>>,
              <<Module("math", <<Function("add", <<Call("sub")>>)>>)>>)

\* Two declarations of one name.
Twice == File(MathPath, <<Function("add", <<>>), Function("add", <<>>)>>)

Libraries ==
    {<<Math>>, <<Math, Rival>>, <<Math, Left>>, <<Index, Rival>>, <<Inner, Rival>>, <<Twice>>}

FileOfMath(libraries) ==
    CASE Math \in ToSet(libraries) \/ Twice \in ToSet(libraries) -> MathPath
      [] Index \in ToSet(libraries) -> Index.path
      [] OTHER -> Inner.path

From(path) == Import(<<"from", "math", "import", "add">>, FALSE, path, {<<"add", "add">>})
Renaming(path) ==
    Import(<<"from", "math", "import", "add", "as", "sum">>, FALSE, path, {<<"add", "sum">>})
Use(path) == Import(<<"use", "crate", "math", "add">>, FALSE, path, {<<"add", "add">>})
Braces(path) ==
    Import(<<"import", "add", "as", "sum", "from", "math", "js">>, TRUE, path, {<<"add", "sum">>})
Plain(path) ==
    Import(<<"import", "math">>, FALSE, path, {<<"add", "add">>, <<"sub", "sub">>})
Absent == Import(<<"from", "nowhere", "import", "sum">>, FALSE, <<>>, {<<"sum", "sum">>})

Imports(path) ==
    {<<>>, <<From(path)>>, <<Renaming(path)>>, <<Use(path), Plain(path)>>, <<Braces(path)>>,
     <<Plain(path), Absent>>}

Bodies ==
    {<<Function("caller", <<Call("add"), Call("sum")>>)>>,
     <<Function("add", <<>>), Function("caller", <<Block(<<Function("sum", <<>>), Call("sum"), Call("add")>>)>>)>>,
     <<Class("Sum", <<Function("sum", <<MethodCall("add"), MethodCall("sum")>>)>>), Call("sum")>>}

Application(path, imps, body) == File(path, imps \o body)

\* Every order of two files or its reverse, and the orders of three in which
\* each file is once in the middle.
Rotations(s) == {SubSeq(s, i + 1, Len(s)) \o SubSeq(s, 1, i) : i \in 0..Len(s) - 2}

SomePrograms ==
    UNION {UNION {Rotations(<<Application(<<<<"src">>, <<"app", "rs">>>>, imps, body)>> \o libraries) :
                     imps \in Imports(FileOfMath(libraries)), body \in Bodies} :
               libraries \in Libraries}

SomeConfigs ==
    {[max_scope_depth |-> 30, max_candidates_per_name |-> 2, max_calls |-> 9, resolve_methods |-> TRUE],
     [max_scope_depth |-> 1, max_candidates_per_name |-> 1, max_calls |-> 2, resolve_methods |-> FALSE]}

Dictionary ==
    <<"Sum", "add", "app", "as", "caller", "crate", "from", "geometry", "import", "js", "left",
      "math", "mod", "nowhere", "rival", "src", "sub", "sum", "use", "x">>
===============================================================================
