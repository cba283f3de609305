\* Functions that take a lock for reading and then for writing.
SPECIFICATION SessionSpec
CONSTANTS
    BlockScoped = FALSE
    Builds = {}
    StrandPrograms <- Upgrading
    Programs = {}
    MaxIndex = 99
    Edits <- Rewritten
    JobsFor <- Requests
    Searches = {}
    Comparisons = {}
INVARIANTS
    LockDeadlocksAreReported
CHECK_DEADLOCK FALSE
