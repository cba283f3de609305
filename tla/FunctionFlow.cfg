\* Every subset of eleven edges among four nodes, with and without a recorded exit.
SPECIFICATION FairFlowSpec
CONSTANTS
    MaxNode = 4
    CfgEdges <- TangledEdges
    Stops = {3}
    ExitSets = {{}, {2}}
    None = None
INVARIANTS
    ImmediateDominatorsAreExact
    ControlDependenceIsExact
    LoopsAreExact
PROPERTIES
    DominatorsComplete
CHECK_DEADLOCK FALSE
