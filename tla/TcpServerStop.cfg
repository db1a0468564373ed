CONSTANTS
    Socks = {s1}
    Clients = {c1}
    MaxStarts = 1
SPECIFICATION FairSpec
PROPERTIES StopEnds
CHECK_DEADLOCK FALSE
