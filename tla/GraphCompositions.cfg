\* merge_from of every small source into every small destination, and subgraph
\* of every small source for selections without repetition; then programs of
\* two and three files, linked by passes in every order.
SPECIFICATION LinkSpec
CONSTANTS
    None = None
    MaxId = 200
    Kinds = {"AstChild", "Exports", "Imports", "EnclosingScope", "ContainedIn", "Reference",
             "StaticCall", "DynamicCall", "CallSite"}
    SourceKinds = {"AstChild"}
    SourceIds = {1, 2, 3}
    SourceRefs = {{0, 2}}
    SourceParents = {2}
    BoundaryIds = {2}
    Requests <- Distinct
    MaxSource = 3
    MaxSourceEdges = 2
    MaxDestination = 1
    Programs <- SomePrograms
    Configs <- SomeConfigs
    Spelling <- Dictionary
    MaxPasses = 3
CHECK_DEADLOCK FALSE
INVARIANTS AppendedPartIsIsomorphic CompositionsAreClosed SubgraphIsInduced
           OrderIsImmaterial CallsReachTheirFunctions
PROPERTY RepetitionAddsNothing
