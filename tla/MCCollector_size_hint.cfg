\* size_hint's upper bound while a block's candidates are pending; the code's
\* geometry, for the bound is right on what the tail loop alone scans.
SPECIFICATION Spec
CONSTANTS
    PREFIX = 4
    LANES = 32
    MAX_PATTERNS = 16
    Haystacks <- Dense
    PatternLists <- OnePattern
INVARIANTS
    SizeHintUpperBound
