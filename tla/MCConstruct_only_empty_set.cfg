\* MultiSieve's doc comment: only an empty pattern set can fail.
SPECIFICATION Spec
CONSTANTS
    PREFIX = 2
    MAX_PATTERNS = 2
    RawLists <- FewLists
    Cpus <- OneCpu
INVARIANTS
    OnlyEmptySetFails
CHECK_DEADLOCK FALSE
