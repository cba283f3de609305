SPECIFICATION Spec
CONSTANTS
    loop = loop
    edited = edited
    outer = outer
    iso = iso
    seen = seen
    Texts = {loop}
    Surroundings = {iso}
    Isolated = iso
    NestedTexts = {}
    ShapeOf <- Shapes
    StopsOf <- ShapeStops
    CfgOf <- Cfgs
    FlowsOf <- Flows
    CallerExits <- DisturbingExits
    MaxNode = 3
    MaxEntries = 2
    None = None
    Revisions <- Alone
    MaxBuilds = 4
INVARIANTS
    CachedEqualsFresh
CHECK_DEADLOCK FALSE
