SPECIFICATION IntervalSpec
CONSTANTS
    MaxNode = 4
    MaxInt = 1000
    StartValues <- Starts
    Reach = 6
    Problems <- TangledProblems
    Domain <- Environments
    Bottom <- NoEnv
    JoinOf <- EnvJoinOf
    Leq <- EnvLeq
    Widen <- EnvWiden
    TransferBlock <- Transfer
    TransferEdge <- Refine
    MaxVisitsPerBlock = 64
    WidenAfter = 3
    NoWidening = NoWidening
    NarrowPasses = 2
INVARIANTS
    NeverGivesUp
CHECK_DEADLOCK FALSE
