\* The code's registers: 64, 32 and 16 bytes; four-byte prefixes.
SPECIFICATION Spec
CONSTANTS
    PREFIX = 4
    Blocks <- RealBlocks
    PatternLists <- RealLists
INVARIANTS
    TypeOK
    LoadsInBounds
    FilterIsExact
\* A call returns once.
CHECK_DEADLOCK FALSE
