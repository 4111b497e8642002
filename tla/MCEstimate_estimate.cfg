\* Every input of up to 7 bytes over {a, b}, seen through a 6-byte window.
SPECIFICATION Spec
CONSTANTS
    PREFIX = 2
    LANES = 1
    MAX_PATTERNS = 2
    WINDOW = 6
    Inputs <- AllInputs
    RawLists <- AllRawLists
INVARIANTS
    TypeOK
    CountIsExact
    RecallPreserved
    LongTailInBounds
PROPERTIES
    EstimateReturns
\* estimate_match_count returns once.
CHECK_DEADLOCK FALSE
