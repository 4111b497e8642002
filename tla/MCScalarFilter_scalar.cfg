\* Two-byte words, two per turn, blocks of four positions.
SPECIFICATION ScalarSpec
CONSTANTS
    PREFIX = 2
    BLOCK = 4
    UNROLL = 2
    Blocks <- SmallBlocks
    PatternLists <- SmallLists
INVARIANTS
    ScalarTypeOK
    MaskSoFar
    ScalarFilterIsExact
PROPERTIES
    FilterReturns
\* A call returns once.
CHECK_DEADLOCK FALSE
