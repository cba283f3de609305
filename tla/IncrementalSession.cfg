\* Sessions of four builds over graphs of two functions.
SPECIFICATION Spec
CONSTANTS
    loop = loop
    edited = edited
    outer = outer
    iso = iso
    seen = seen
    Texts = {loop, edited, outer}
    Surroundings = {iso, seen}
    Isolated = iso
    NestedTexts = {outer}
    ShapeOf <- Shapes
    StopsOf <- ShapeStops
    CfgOf <- Cfgs
    FlowsOf <- Flows
    CallerExits <- NeutralExits
    MaxNode = 3
    MaxEntries = 2
    None = None
    Revisions <- AfterAnother
    MaxBuilds = 4
INVARIANTS
    CachedEqualsFresh
    OverlaysEqualUncached
CHECK_DEADLOCK FALSE
