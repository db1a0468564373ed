CONSTANTS
    Workers = {w1, w2}
    Caller = caller
    UseCaller = FALSE
    Tasks = {a, b}
    Fibers = {}
    MaxYields = 1
    NoTask = NoTask
SPECIFICATION IOSpec
SYMMETRY Symmetry
INVARIANTS WakeUpsKept LeavesNoTask
