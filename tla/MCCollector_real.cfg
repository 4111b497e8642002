\* The code's geometry: 32-byte lanes, 4-byte prefixes; polled until None.
SPECIFICATION CollectSpec
CONSTANTS
    PREFIX = 4
    LANES = 32
    MAX_PATTERNS = 16
    Haystacks <- RealHaystacks
    PatternLists <- RealPatternLists
INVARIANTS
    Frontier
PROPERTIES
    StreamSpec
    NextReturns
    CollectCompletes
