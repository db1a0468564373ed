CONSTANTS
    Fds = {fd}
    Threads = {t1, t2}
    UseDel = FALSE
SPECIFICATION Spec
INVARIANTS TriggerAssert
CHECK_DEADLOCK FALSE
