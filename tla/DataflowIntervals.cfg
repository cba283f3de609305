SPECIFICATION IntervalSpec
CONSTANTS
    MaxNode = 4
    MaxInt = 1000
    StartValues <- Starts
    Reach = 6
    Problems <- EveryProblem
    Domain <- Environments
    Bottom <- NoEnv
    JoinOf <- EnvJoinOf
    Leq <- EnvLeq
    Widen <- EnvWiden
    TransferBlock <- Transfer
    TransferEdge <- Refine
    MaxVisitsPerBlock = 64
    WidenAfter = 3
    NoWidening = NoWidening
    NarrowPasses = 2
INVARIANTS
    SolverInv
    SolutionIsSound
    GivesUpOnlyUnwidened
    ValuesAreContained
PROPERTIES
    AscendThenDescend
CHECK_DEADLOCK FALSE
