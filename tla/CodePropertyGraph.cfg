\* Two threads share a small multigraph and race to build its caches.
SPECIFICATION FairSpec
CONSTANTS
    None = None
    MaxId = 1
    Kinds = {"AstChild", "ControlFlow"}
    r1 = r1
    r2 = r2
    Readers = {r1, r2}
    Queries <- MixedQueries
    NewNodes <- NewlyParsed
    NewKinds = {"AstChild", "ControlFlow"}
    Boundary = {0}
    MaxNodes = 2
    MaxEdges = 2
INVARIANTS TypeOK TreeFollowsEdges IdentifiersAreUnique ViewsAreScans CacheIsCurrent
PROPERTIES IdsNeverShift ReadsComplete
CHECK_DEADLOCK FALSE
