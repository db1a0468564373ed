CONSTANTS
    Workers = {}
    Caller = caller
    UseCaller = TRUE
    Tasks = {a, b, c}
    Fibers = {}
    MaxYields = 1
    NoTask = NoTask
SPECIFICATION IOFairSpec
INVARIANTS LeavesNoWaiter
PROPERTIES StopServes
