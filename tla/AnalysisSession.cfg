\* Overlays of nested constructs and broken syntax; strands, locks and messages;
\* from the call structure of a program to its slices, with one
\* edit; patterns sought in graphs, and the distance and the diff of two graphs.
SPECIFICATION SessionSpec
CONSTANTS
    BlockScoped = FALSE
    Builds <- SessionBuilds
    StrandPrograms <- SessionStrands
    Programs <- SomePrograms
    MaxIndex = 99
    Edits <- Rewritten
    JobsFor <- Requests
    Searches <- SomeSearches
    Comparisons <- SomeComparisons
INVARIANTS
    PlansMatchEquations
    RunsFollowTheOverlay
    NoDefinitionMissed
    ConflictsAreReported
    DeadlocksAreReported
    ComponentsAreExact
    KeptIsSound
    CompletionIsExact
    SliceIsExact
    SliceCoversContexts
    SearchIsExact
    DistanceIsSound
    ScriptIsExact
CHECK_DEADLOCK FALSE
