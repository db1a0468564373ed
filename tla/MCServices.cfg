CONSTANTS
    t1 = t1  t2 = t2  t3 = t3
    Threads = {t1, t2, t3}
    Paths <- DavPaths
    Dirs <- DavDirs
    Sends <- DavSends
    Timeouts = {1, 2}
    MaxLocks = 2
    MaxEntries = 3
    MaxClock = 1
    Users = {u1, u2}
    Names = {n1, n2}
    Nobody = Nobody
    Callers = {c1, c2}
    PoolSize = 1
    CheckAfter = 1
    MaxConns = 2
    MaxSeconds = 2
    HeadLen = 2
    Requests <- HttpRequests
    Responses <- HttpResponses
    Radix = 2
    BufferSize = 4
    m_baseSize = 2
    Bytes = {1, 2}
    MaxBlocks = 2
    MaxOnce = 2
    Members <- BencodeNames
    Leaves <- BencodeLeaves
    MaxItems = 2
    ParamNames <- QueryNames
    ParamValues <- QueryValues
    PlainNames <- FormNames
    PlainValues <- FormValues
    ReqPaths <- UrlPaths
    MaxParams = 3
    TextBytes = {0, 37, 43, 47, 50, 97, 255}
    MaxText = 4
    UriStarts <- UriBegins
    UriChars = {2, 37, 35, 47, 49, 50, 53, 46, 58, 63, 64, 91, 93, 97, 118, 45, 200}
    MaxMore = 3
    Width = 8
    Methods <- HttpMethods
    RequestStarts <- RequestBegins
    RequestChars = {0, 4, 6, 10, 13, 32, 35, 37, 46, 47, 49, 58, 63, 64, 65, 91, 93, 97, 123, 200}
    MaxRequestMore = 3
    ResponseStarts <- ResponseBegins
    ResponseChars = {10, 13, 32, 34, 46, 49, 50, 58, 59, 61, 67, 72, 97, 99, 116, 200}
    MaxResponseMore = 3
    IntBits = 8
    JsonKeys <- JsonNames
    JsonLeaves <- JsonValues
    JsonTexts <- JsonInputs
    MaxJsonItems = 2
    stackLimit = 4
    PatternChars = {"%", "{", "}", "d", "x", "1"}
    MaxPattern = 5
    Payloads <- WsPayloads
    Masks <- WsMasks
    Types = {"TEXT_FRAME"}
    Short = 2
    Medium = 3
    MaxMessage = 5
    MaxSends = 3
    Sizes = {0, 5}
    Ranges <- AnswerRanges
    None = None
    block_size = 3
    HeadSize = 1
    rate_after = 1
    Ticks = 2
    MaxChanges = 2
    MaxAsks = 2
    MaxNow = 3
    Lookups = {r1}
    Uris = {"p", "q"}
    Globs = {"g1", "g2"}
    GlobMatches <- ServletGlobs
    Servlets_ = {v1, v2}
    m_default = m_default
    Askers = {r1, r2}
    People = {p1}
    Passwords = {1, 2}
    MaxMtime = 2
    Setters = {a, b}
    Keys = {k1}
    Settings = {1, 2}
    Listeners = {l1, l2}
    MaxObjects = 2
SPECIFICATION ServicesSpec
INVARIANTS LockTable Room PoolInv MessagesArrive AnswersRight DispatchRight FileKnown ListenersAgree TextsReadBack
PROPERTIES GuardedWrites ImplementsStore
CHECK_DEADLOCK FALSE
