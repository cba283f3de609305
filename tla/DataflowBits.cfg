SPECIFICATION Spec
CONSTANTS
    MaxNode = 3
    Problems <- BitProblems
    Domain <- FactSets
    Bottom = {}
    JoinOf <- UnionOf
    Leq <- Subset
    Widen <- Union
    TransferBlock <- GenKill
    TransferEdge <- Unchanged
    MaxVisitsPerBlock = 256
    WidenAfter = NoWidening
    NoWidening = NoWidening
    NarrowPasses = 1
INVARIANTS
    SolutionIsLeast
CHECK_DEADLOCK FALSE
