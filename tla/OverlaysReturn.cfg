\* A function that returns early.
SPECIFICATION SessionSpec
CONSTANTS
    BlockScoped = FALSE
    Builds <- EarlyReturn
    StrandPrograms = {}
    Programs = {}
    MaxIndex = 99
    Edits <- Rewritten
    JobsFor <- Requests
    Searches = {}
    Comparisons = {}
INVARIANTS
    ReturnsAreExits
CHECK_DEADLOCK FALSE
