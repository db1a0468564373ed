CONSTANTS
    t1 = t1
    Threads = {t1}
    Paths <- FilePaths
    Dirs = {}
    Sends <- LockOnly
    Timeouts = {3}
    MaxLocks = 4
    MaxEntries = 5
    MaxClock = 5
SPECIFICATION MCDavSpec
INVARIANT LocksStay
CHECK_DEADLOCK FALSE
