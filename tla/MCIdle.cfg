CONSTANTS
    Timers = {one, rec}
    Recurring = {rec}
    IdleThreads = {t1, t2}
    Delays = {0, 2}
    MaxTimeout = 2
    MaxTime = 2
    Fds = {fd}
    Threads = {t1, t2}
    UseDel = TRUE
SPECIFICATION IdleSpec
INVARIANTS SetInv WakesInTime CancelIsFinal AllTablesAgree NoMissedEvent
PROPERTIES Fires WokenOnce ReadyIsWoken
CHECK_DEADLOCK FALSE
