----------------------------- MODULE ProgramLinking ------------------------------
(***************************************************************************)
(* Programs of several files (src/src/analysis/program.rs, resolve.rs).    *)
(* merge_programs merges the graphs of the files one after the other;      *)
(* then the caller asks, in any order and repeatedly, for                  *)
(*   build_import_graph  which file an import names and what it binds      *)
(*   resolve_calls       which function a call calls                       *)
(* both of which add edges that the other one or its own repetition reads. *)
(*                                                                         *)
(* The graph is dst of GraphComposition. Its nodes carry, besides what     *)
(* GraphStore names,                                                       *)
(*   kind, name  of a declaration, an identifier or a member access        *)
(*   text        the tokens of an import or of the name of a module        *)
(*   braces      whether an import is written with them                    *)
(*   method      whether a call is one                                     *)
(*   means       of an import: the file its author means and the names it  *)
(*               binds; no code reads it                                   *)
(* and a file has a path, the tokens of its components in order. Source    *)
(* ranges ascend with identifiers, as a parser leaves them.                *)
(***************************************************************************)
EXTENDS GraphComposition

CONSTANTS
    Programs,    \* the files of a program, in the order of the caller
    Configs,     \* ResolveConfig
    Spelling,    \* the tokens in their order as strings
    MaxPasses    \* bound on the passes over one program

VARIABLES
    program,
    config,
    files,       \* FileScope: the root and the node map of each merged file
    labels,      \* the labels of edges that have one
    imports,     \* the last ImportGraph
    calls,       \* the last CallGraphResolution
    passes       \* the passes so far, "imports" or "calls"

linkVars == <<program, config, files, labels, imports, calls, passes>>

\* A ProgramCpg.
Whole == [cpg |-> dst, labels |-> labels, files |-> files, imports |-> imports, calls |-> calls]

-------------------------------------------------------------------------------
(* The graph *)

At(p, id) == NodeAt(p.cpg, id)
OfKind(p, kind) == {id \in NodeIds(p.cpg) : At(p, id).kind = kind}
IsFunction(p, id) == id \in NodeIds(p.cpg) /\ At(p, id).kind = "Function"
NodesOf(file) == Range(file.map)

LabelOf(p, e) == IF e.id \in DOMAIN p.labels THEN p.labels[e.id] ELSE None
Between(p, source, target) ==
    {e \in ToSet(p.cpg.edges) : e.source = source /\ e.target = target}

Before(s, t) == \E i \in DOMAIN s : s[i] < t[i] /\ \A j \in 1..i - 1 : s[j] = t[j]
SpellingOf(token) == IF token = None THEN 0 ELSE SelectInSeq(Spelling, LAMBDA t : t = token)
Spelled(tokens) == [i \in DOMAIN tokens |-> SpellingOf(tokens[i])]

Arrow(source, kind, target, label) ==
    [id |-> 0, source |-> source, kind |-> kind, target |-> target, label |-> label]

Insert(p, e) ==
    [p EXCEPT !.cpg = AddEdge(@, e), !.labels = (p.cpg.next_edge_id :> e.label) @@ @]

\* connect_new and connect_labeled_unique look at the kind alone,
\* connect_labeled_new also at the label.
ConnectNew(p, e) ==
    IF \E old \in Between(p, e.source, e.target) : old.kind = e.kind THEN p ELSE Insert(p, e)
ConnectLabeledNew(p, e) ==
    IF \E old \in Between(p, e.source, e.target) : old.kind = e.kind /\ LabelOf(p, old) = e.label
    THEN p ELSE Insert(p, e)

\* By source, then by target, then by label.
InOrder(p, arrows) ==
    LET nodes == InNodeIdOrder(p.cpg.nodes)
        of(id) == SetToSortSeq({e \in arrows : e.source = id},
                      LAMBDA e, f : Before(<<e.target, SpellingOf(e.label)>>,
                                           <<f.target, SpellingOf(f.label)>>))
    IN FlattenSeq([i \in DOMAIN p.cpg.nodes |-> of(nodes[i].id)])

\* What follows `first` by `next`, at most `most` nodes and none of them twice.
Chain(next, first, most) ==
    LET walk[k \in 0..most] ==
            IF k = 0 THEN <<>>
            ELSE LET known == walk[k - 1]
                     up == IF known = <<>> THEN first ELSE next[Last(known)]
                 IN IF up \in ToSet(known) \cup {None} THEN known ELSE Append(known, up)
    IN walk[most]

Parents(p) == [id \in NodeIds(p.cpg) |-> At(p, id).parent]
AncestorsIn(p, id) == Chain(Parents(p), Parents(p)[id], Len(p.cpg.nodes))

-------------------------------------------------------------------------------
(* merge_programs, one file *)

NoProgram == [cpg |-> EmptyStore, labels |-> <<>>, files |-> <<>>, imports |-> <<>>, calls |-> <<>>]

WithFile(p, file) ==
    LET merged == MergeFrom(p.cpg, file.graph)
        root == IF file.graph.root \in DOMAIN merged.remap THEN merged.remap[file.graph.root] ELSE None
    IN [p EXCEPT !.cpg = merged.graph,
                 !.files = Append(@, [path |-> file.path, root |-> root, map |-> merged.remap])]

-------------------------------------------------------------------------------
(* alias_index and strongest_file_matches *)

\* The last component loses its extension, and counts only if it says more than
\* that the file stands for its directory.
SourcePathAliases(path) ==
    LET bare == [path EXCEPT ![Len(path)] = IF Len(@) > 1 THEN Front(@) ELSE @]
        conventional == Last(bare) \in {<<"mod">>, <<"lib">>, <<"index">>, <<"__init__">>}
    IN Suffixes(FlattenSeq(IF conventional THEN Front(bare) ELSE bare)) \ {<<>>}

Aliases(p, file) ==
    SourcePathAliases(file.path)
        \cup UNION {Suffixes(At(p, id).text) \ {<<>>} : id \in NodesOf(file) \cap OfKind(p, "Module")}

\* Where an alias of file i occurs in the tokens.
Matches(p, tokens, i) ==
    LET aliases == Aliases(p, p.files[i])
    IN {m \in [file: {i}, start: DOMAIN tokens, end: DOMAIN tokens] :
           m.start <= m.end /\ SubSeq(tokens, m.start, m.end) \in aliases}

Length(m) == m.end + 1 - m.start
Stronger(tokens, m, n) ==
    LET alias(o) == Spelled(SubSeq(tokens, o.start, o.end))
    IN \/ Length(m) > Length(n)
       \/ Length(m) = Length(n) /\ Before(alias(m) \o <<m.end>>, alias(n) \o <<n.end>>)

MatchOfEach(p, tokens, importer) ==
    LET strongest(S) == {m \in S : \A n \in S \ {m} : Stronger(tokens, m, n)}
    IN UNION {strongest(Matches(p, tokens, i)) : i \in DOMAIN p.files \ {importer}}

\* Mutant: of files that match equally well, the first is taken.
FirstFileMatch(p, tokens, importer) ==
    LET each == MatchOfEach(p, tokens, importer)
        better(n, m) == Length(n) > Length(m) \/ (Length(n) = Length(m) /\ n.file < m.file)
    IN {m \in each : \A n \in each : ~better(n, m)}

StrongestFileMatches(p, tokens, importer) ==
    LET each == MatchOfEach(p, tokens, importer)
    IN {m \in each : \A n \in each : Length(n) <= Length(m)}

-------------------------------------------------------------------------------
(* collect_exports and selected_exports *)

Declarations == {"Module", "Class", "Function", "Variable"}

NamespaceVisible(p, root, id) ==
    /\ At(p, id).kind \in Declarations
    /\ LET up == AncestorsIn(p, id)
       IN \/ id = root
          \/ \E i \in DOMAIN up : up[i] = root /\ \A j \in 1..i - 1 : At(p, up[j]).kind = "Module"
          \/ root = None /\ up = <<>>

Exports(p, file) == {id \in NodesOf(file) : NamespaceVisible(p, file.root, id)}

\* In lower case, which is all an instance uses.
ImportKeywords ==
    {"as", "from", "import", "use", "include", "require", "export", "type", "crate", "self", "super",
     "rs", "py", "js", "jsx", "ts", "tsx", "java", "go", "c", "h", "cc", "cpp", "hpp", "cs", "rb",
     "php", "swift", "kt", "kts", "scala", "lua", "sh"}

\* A name after `as` is local.
ExplicitExportNames(tokens) ==
    {tokens[i] : i \in {i \in DOMAIN tokens : tokens[i] \notin ImportKeywords
                                              /\ (i > 1 => tokens[i - 1] # "as")}}

\* The names after the path, or before `from` in braces; everything the file
\* exports if that names none of it.
SelectedExports(p, exported, import, match) ==
    LET after == ExplicitExportNames(SubSeq(import.text, match.end + 1, Len(import.text)))
        from == {i \in 1..match.start - 1 : import.text[i] = "from"}
        named == IF after = {} /\ import.braces /\ from # {}
                 THEN ExplicitExportNames(SubSeq(import.text, 1, Max(from) - 1)) ELSE after
        selected == {id \in exported : At(p, id).name \in named}
    IN IF selected = {} THEN exported ELSE selected

\* Mutant: a declaration is bound to its own name.
OwnName(name, tokens) == {name}

ImportedBindingNames(name, tokens) ==
    LET renamed == {tokens[i + 2] : i \in {i \in 1..Len(tokens) - 2 :
                                              tokens[i] = name /\ tokens[i + 1] = "as"}}
    IN IF renamed = {} THEN {name} ELSE renamed

-------------------------------------------------------------------------------
(* build_import_graph *)

FileOf(p, id) == CHOOSE i \in DOMAIN p.files : id \in NodesOf(p.files[i])

ImportResolution(p, id) ==
    LET matches == StrongestFileMatches(p, At(p, id).text, FileOf(p, id))
        match == CHOOSE m \in matches : TRUE
        exact == Cardinality(matches) = 1
    IN [kind |-> IF matches = {} THEN "External" ELSE IF exact THEN "Exact" ELSE "Ambiguous",
        target_files |-> {m.file : m \in matches},
        imported_nodes |-> IF exact
            THEN SelectedExports(p, Exports(p, p.files[match.file]), At(p, id), match) ELSE {}]

ExportEdges(p) ==
    {Arrow(file.root, "Exports", id, None) :
        <<file, id>> \in {e \in ToSet(p.files) \X NodeIds(p.cpg) :
                             e[2] \in Exports(p, e[1]) \ {e[1].root} /\ e[1].root # None}}

\* From root to root, and from the import to what it binds, for each binding.
ImportEdges(p, resolutions) ==
    LET root(i) == p.files[i].root
        exact == {id \in DOMAIN resolutions : resolutions[id].kind = "Exact"}
        target(id) == CHOOSE i \in resolutions[id].target_files : TRUE
    IN {Arrow(root(FileOf(p, id)), "Imports", root(target(id)), None) : id \in exact}
           \cup UNION {{Arrow(id, "Imports", d, binding) :
                           binding \in ImportedBindingNames(At(p, d).name, At(p, id).text)} :
                       <<id, d>> \in {e \in exact \X NodeIds(p.cpg) :
                                         e[2] \in resolutions[e[1]].imported_nodes}}

BuildImportGraph(p) ==
    LET resolutions == [id \in OfKind(p, "Import") |-> ImportResolution(p, id)]
        exported == FoldLeft(ConnectNew, p, InOrder(p, ExportEdges(p)))
    IN [FoldLeft(ConnectLabeledNew, exported, InOrder(p, ImportEdges(p, resolutions)))
            EXCEPT !.imports = resolutions]

-------------------------------------------------------------------------------
(* build_symbol_table *)

Scopes(p) ==
    {id \in NodeIds(p.cpg) : At(p, id).kind \in {"Root", "Module", "Class", "Function", "Block"}}

EnclosingScope(p) ==
    LET scopes == Scopes(p)
        within(id) == SelectSeq(Chain(Parents(p), Parents(p)[id], config.max_scope_depth + 1),
                                LAMBDA s : s \in scopes)
    IN [id \in NodeIds(p.cpg) |-> IF within(id) = <<>> THEN None ELSE Head(within(id))]

\* The last token that is no keyword.
TerminalName(tokens) ==
    LET names == SelectSeq(tokens, LAMBDA t : t \notin
                     {"as", "from", "import", "use", "include", "require", "export"})
    IN IF names = <<>> THEN None ELSE Last(names)

\* <<scope, name, function>> for each function an import binds, and
\* <<scope, name>> for each name an import makes visible.
ImportedFunctions(p, enclosing) ==
    {<<enclosing[e.source], IF LabelOf(p, e) = None THEN At(p, e.target).name ELSE LabelOf(p, e), e.target>> :
        e \in {e \in ToSet(p.cpg.edges) : /\ e.kind = "Imports" /\ IsFunction(p, e.target)
                                          /\ At(p, e.source).kind = "Import"}}

SymbolTable(p) ==
    LET enclosing == EnclosingScope(p)
        imported == ImportedFunctions(p, enclosing)
    IN [enclosing_scope |-> enclosing,
        functions |-> {<<enclosing[id], At(p, id).name, id>> : id \in OfKind(p, "Function")},
        imported_functions |-> imported,
        imports |-> {<<i[1], i[2]>> : i \in imported}
            \cup {<<enclosing[id], TerminalName(At(p, id).text)>> : id \in OfKind(p, "Import")}]

WithScopeEdges(p, enclosing) ==
    LET kind(id) == IF id \in Scopes(p) THEN "EnclosingScope" ELSE "ContainedIn"
    IN FoldLeft(ConnectNew, p,
           InOrder(p, {Arrow(id, kind(id), enclosing[id], None) :
                          id \in {id \in DOMAIN enclosing : enclosing[id] # None}}))

-------------------------------------------------------------------------------
(* decide_call *)

\* The confidence tiers, from the weakest.
Tiers == <<"Unresolved", "External", "BareNameAmbiguous", "BareNameUnique",
           "ExactViaBinding", "ExactViaImport", "ExactInFile">>
CreatesTopology == {"BareNameUnique", "ExactViaBinding", "ExactViaImport", "ExactInFile"}
Rank(tier) == SelectInSeq(Tiers, LAMBDA t : t = tier)

AstChildren(p, id) == SetToSortSeq(ToSet(At(p, id).children), <)

\* The first name below the first child, none inside another call.
CalleeName(p, call) ==
    LET named[depth \in 0..config.max_scope_depth, id \in NodeIds(p.cpg)] ==
            IF At(p, id).kind \in {"Identifier", "Member"} THEN <<At(p, id).name>>
            ELSE IF At(p, id).kind = "Call" \/ depth = config.max_scope_depth THEN <<>>
            ELSE FlattenSeq([i \in DOMAIN AstChildren(p, id) |-> named[depth + 1, AstChildren(p, id)[i]]])
        found == IF AstChildren(p, call) = <<>> THEN <<>> ELSE named[0, Head(AstChildren(p, call))]
    IN IF found = <<>> THEN None ELSE Head(found)

Decision(tier, target, candidates, count) ==
    [confidence |-> tier, target |-> target, candidates |-> candidates, count |-> count]
NoDecision(tier) == Decision(tier, None, {}, 0)

\* At most max_candidates_per_name are kept, all are counted.
FromCandidates(found, unique) ==
    LET kept == {id \in found : Cardinality({o \in found : o < id}) < config.max_candidates_per_name}
    IN IF Cardinality(found) > 1 THEN Decision("BareNameAmbiguous", None, kept, Cardinality(found))
       ELSE IF kept = {} THEN NoDecision("Unresolved")
       ELSE Decision(unique, CHOOSE id \in kept : TRUE, kept, 1)

\* Mutant: the label of an earlier pass is not read.
NoExistingConfidence(p, call, target) == "ExactViaBinding"

\* The strongest label on the edges of an earlier pass.
ExistingConfidence(p, call, target) ==
    LET found == {LabelOf(p, e) : e \in
                    {e \in Between(p, call, target) :
                        e.kind \in {"StaticCall", "DynamicCall", "CallSite"}}} \cap ToSet(Tiers)
    IN IF found = {} THEN "ExactViaBinding"
       ELSE CHOOSE t \in found : \A u \in found : Rank(u) <= Rank(t)

\* The functions of the nearest scope that has one under this name.
NearestIn(symbols, scopes, name) ==
    LET has(s) == {f \in symbols : f[1] = s /\ f[2] = name}
        first == SelectInSeq(scopes, LAMBDA s : has(s) # {})
    IN IF first = 0 THEN {} ELSE {f[3] : f \in has(scopes[first])}

DecideCall(p, table, call) ==
    LET name == CalleeName(p, call)
        bound == {id \in At(p, call).refs : IsFunction(p, id)}
        scopes == Chain(table.enclosing_scope, table.enclosing_scope[call], config.max_scope_depth + 1)
        lexical == NearestIn(table.functions, scopes, name)
        imported == NearestIn(table.imported_functions, scopes, name)
        visible == \E s \in ToSet(scopes) : <<s, name>> \in table.imports
        global == {f[3] : f \in {f \in table.functions : f[2] = name}}
    IN CASE bound # {} ->
                LET target == CHOOSE id \in bound : TRUE
                IN Decision(ExistingConfidence(p, call, target), target, {target}, 1)
         [] bound = {} /\ (name = None \/ (At(p, call).method /\ ~config.resolve_methods)) ->
                NoDecision("Unresolved")
         [] OTHER ->
                IF lexical # {} THEN FromCandidates(lexical, "ExactInFile")
                ELSE IF imported # {} THEN FromCandidates(imported, "ExactViaImport")
                ELSE IF global # {}
                     THEN FromCandidates(global, IF visible THEN "ExactViaImport" ELSE "BareNameUnique")
                ELSE NoDecision(IF visible THEN "External" ELSE "Unresolved")

-------------------------------------------------------------------------------
(* resolve_calls *)

\* A decision sets the target and three edges; without one, a target that is no
\* function is cleared.
ResolveCall(p, table, call) ==
    LET decision == DecideCall(p, table, call)
        node == At(p, call)
        static == IF node.method THEN "DynamicCall" ELSE "StaticCall"
        link(q, kind) == ConnectNew(q, Arrow(call, kind, decision.target, decision.confidence))
        bind(q, refs) == [q EXCEPT !.cpg = SetNode(@, call, [node EXCEPT !.refs = refs])]
        resolved == IF decision.confidence \in CreatesTopology
                    THEN FoldLeft(link, bind(p, {decision.target}), <<"Reference", static, "CallSite">>)
                    ELSE bind(p, {})
    IN [resolved EXCEPT !.calls = (call :> decision) @@ @]

ResolveCalls(p) ==
    LET table == SymbolTable(p)
        processed == SelectSeq(SetToSortSeq(OfKind(p, "Call"), <),
                               LAMBDA c : Cardinality({d \in OfKind(p, "Call") : d < c}) < config.max_calls)
    IN FoldLeft(LAMBDA q, call : ResolveCall(q, table, call),
                [WithScopeEdges(p, table.enclosing_scope) EXCEPT !.calls = <<>>], processed)

-------------------------------------------------------------------------------
(* Actions *)

NothingLinked ==
    files = <<>> /\ labels = <<>> /\ imports = <<>> /\ calls = <<>> /\ passes = <<>>

Becomes(p) ==
    /\ dst' = p.cpg /\ labels' = p.labels /\ files' = p.files
    /\ imports' = p.imports /\ calls' = p.calls

MergeFile ==
    /\ Len(files) < Len(program)
    /\ LET file == program[Len(files) + 1]
           p == WithFile(Whole, file)
       IN Becomes(p) /\ src' = file.graph /\ remap' = Last(p.files).map
    /\ before' = dst
    /\ phase' = "merged"
    /\ UNCHANGED <<program, config, request, sub, passes>>

Ask(pass, p) ==
    /\ program # <<>> /\ Len(files) = Len(program) /\ Len(passes) < MaxPasses
    /\ Becomes(p)
    /\ passes' = Append(passes, pass)
    /\ phase' = "linked"
    /\ UNCHANGED <<program, config, src, before, remap, request, sub>>

AskForImports == Ask("imports", BuildImportGraph(Whole))
AskForCalls == Ask("calls", ResolveCalls(Whole))

LinkInit ==
    /\ dst = EmptyStore /\ src = EmptyStore /\ sub = EmptyStore /\ before = EmptyStore
    /\ remap = <<>> /\ request = <<>>
    /\ \/ program = <<>> /\ config = None /\ phase = "building"
       \/ program \in Programs /\ config \in Configs /\ phase = "linking"
    /\ NothingLinked

LinkNext ==
    \/ Next /\ UNCHANGED linkVars
    \/ MergeFile
    \/ AskForImports
    \/ AskForCalls

LinkSpec == LinkInit /\ [][LinkNext]_<<vars, linkVars>>

-------------------------------------------------------------------------------
(* Properties *)

\* A call was resolved after the imports were linked.
Linked(done) == \E i, j \in DOMAIN done : i < j /\ done[i] = "imports" /\ done[j] = "calls"

\* A pass that repeats the last one, or any pass once calls have been resolved
\* with the imports in place, changes nothing and reports the same evidence:
\* "its per-call records remain stable rather than degrading to
\* ExactViaBinding", though the calls now have targets and the graph new edges.
RepetitionAddsNothing ==
    [][passes' # passes /\ passes # <<>> =>
           (Last(passes') = Last(passes) \/ Linked(passes) => UNCHANGED <<dst, labels, imports, calls>>)
      ]_<<vars, linkVars>>

\* A node by its file and its identifier there.
OriginIn(p, order, id) ==
    IF id = None THEN None
    ELSE LET i == FileOf(p, id)
         IN <<order[i].path, CHOOSE own \in DOMAIN p.files[i].map : p.files[i].map[own] = id>>

Outcome(p, order) ==
    LET origin(id) == OriginIn(p, order, id)
        origins(S) == {origin(id) : id \in S}
    IN [edges |-> {<<origin(e.source), e.kind, origin(e.target), LabelOf(p, e)>> : e \in ToSet(p.cpg.edges)},
        imports |-> {<<origin(id), p.imports[id].kind, {order[i].path : i \in p.imports[id].target_files},
                       origins(p.imports[id].imported_nodes)>> : id \in DOMAIN p.imports},
        calls |-> {<<origin(id), p.calls[id].confidence, origin(p.calls[id].target), p.calls[id].count>> :
                       id \in DOMAIN p.calls}]

Replay(order) ==
    FoldLeft(LAMBDA p, pass : IF pass = "imports" THEN BuildImportGraph(p) ELSE ResolveCalls(p),
             FoldLeft(WithFile, NoProgram, order), passes)

\* The order in which a caller lists the files decides identifiers and nothing
\* else: the same imports are exact and the same calls resolved, by the same
\* evidence, as long as every call is processed.
OrderIsImmaterial ==
    passes # <<>> /\ config.max_calls >= Cardinality(OfKind(Whole, "Call")) =>
        Outcome(Whole, program) = Outcome(Replay(Reverse(program)), Reverse(program))

ScopeAround(p, id) ==
    LET around == SelectSeq(AncestorsIn(p, id), LAMBDA s : s \in Scopes(p))
    IN IF around = <<>> THEN None ELSE Head(around)

\* The functions of this name in the innermost scope around the node that
\* declares one.
InnermostFunctions(p, id, name) ==
    LET visible == {f \in OfKind(p, "Function") :
                       At(p, f).name = name /\ ScopeAround(p, f) \in ToSet(AncestorsIn(p, id))}
        outside(f) == ToSet(AncestorsIn(p, ScopeAround(p, f)))
    IN {f \in visible : \A g \in visible : ScopeAround(p, f) \notin outside(g)}

\* The imports around the node that bind the name, and what they mean by it.
BindingImports(p, id, name) ==
    {i \in OfKind(p, "Import") :
        /\ ScopeAround(p, i) \in ToSet(AncestorsIn(p, id))
        /\ \E pair \in At(p, i).means.names : pair[2] = name}

MeantFunctions(p, imps, name) ==
    {f \in OfKind(p, "Function") : \E i \in imps :
        LET file == p.files[FileOf(p, f)]
        IN /\ file.path = At(p, i).means.file /\ f \in Exports(p, file)
           /\ <<At(p, f).name, name>> \in At(p, i).means.names}

\* "Materializes call topology only when the available evidence identifies one
\* target": once imports are linked, a call whose name is declared around it
\* reaches the function of the innermost scope that does, and a call of an
\* imported name the function its import means, whatever the other files call
\* by that name; where there are several, it reaches none.
CallsReachTheirFunctions ==
    /\ passes # <<>> /\ Head(passes) = "imports"
    /\ config.max_scope_depth >= Len(dst.nodes) /\ config.max_candidates_per_name > 0
    =>
    \A call \in DOMAIN calls :
        LET name == CalleeName(Whole, call)
            declared == InnermostFunctions(Whole, call, name)
            binding == BindingImports(Whole, call, name)
            meant == IF declared # {} THEN declared ELSE MeantFunctions(Whole, binding, name)
            tier == IF declared # {} THEN "ExactInFile" ELSE "ExactViaImport"
        IN /\ name # None /\ (At(Whole, call).method => config.resolve_methods)
           /\ declared # {} \/ (binding # {} /\ \A i \in binding : imports[i].kind = "Exact")
           => IF Cardinality(meant) = 1
              THEN calls[call].confidence = tier /\ calls[call].target \in meant
              ELSE calls[call].target = None
===============================================================================
