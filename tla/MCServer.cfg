CONSTANTS
    Socks = {s1}
    Clients = {c1, c2}
    MaxStarts = 2
    Lengths = {1, 2, 3}
    BufferLen = 3
    MaxEvents = 4
    Holders = {h1, h2}
    Fds = {1, 2}
    Invocations = {i1, i2}
    MaxForks = 5
    MaxSignals = 2
    MaxCrashes = 1
SPECIFICATION PartsSpec
INVARIANTS AcceptorInv SocketInv LogKept Reachable
PROPERTIES BusyServerEnds LogFlushed Supervised
CHECK_DEADLOCK FALSE
