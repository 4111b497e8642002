\* Every haystack of up to 8 bytes over {a, b}; one-byte half-blocks.
SPECIFICATION Spec
CONSTANTS
    PREFIX = 2
    LANES = 1
    MAX_PATTERNS = 2
    Haystacks <- SmallHaystacks
    PatternLists <- SmallPatternLists
INVARIANTS
    TypeOK
    MaskGeometry
    Drained
    Frontier
    NoPanic
PROPERTIES
    StreamSpec
