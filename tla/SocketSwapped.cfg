CONSTANTS
    Holders = {h1, h2}
    Fds = {1, 2}
SPECIFICATION SocketSpec
INVARIANT FlagIsTrue
CHECK_DEADLOCK FALSE
