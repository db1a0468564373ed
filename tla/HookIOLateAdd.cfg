CONSTANTS
    Calls = {c1, c2}
    Timed = {c1}
    MaxConn = 1
    NoCall = NoCall
SPECIFICATION HookFairSpec
PROPERTIES TimeoutAlwaysReturns
CHECK_DEADLOCK FALSE
