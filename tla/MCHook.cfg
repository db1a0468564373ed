CONSTANTS
    Workers = {w1, w2}
    Caller = caller
    UseCaller = TRUE
    Tasks = {a, b}
    Fibers = {a}
    MaxYields = 1
    NoTask = NoTask
    Calls = {c1, c2}
    Timed = {c1}
    MaxConn = 2
    NoCall = NoCall
SPECIFICATION FiberSpec
INVARIANTS CountersExact OneThreadPerFiber NothingLost Drained NothingLeftBehind NoFalseConnect
PROPERTIES QueuedIsTaken StopReturns ImplementsPool CallsEnd
