CONSTANTS
    m_baseSize = 2
    Bytes = {1, 2}
    MaxBlocks = 3
    MaxOnce = 3
SPECIFICATION BufferSpec
INVARIANT PositionInRange
CHECK_DEADLOCK FALSE
