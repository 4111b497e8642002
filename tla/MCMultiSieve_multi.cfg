\* One to four sieves of two patterns each, stepping through one merge.
SPECIFICATION CollectSpec
CONSTANTS
    PREFIX = 2
    LANES = 1
    MAX_PATTERNS = 2
    Tiers <- FewTiers
    Haystacks <- FewHaystacks
    RawLists <- FewLists
INVARIANTS
    TypeOK
PROPERTIES
    MergeSpec
    StreamSpec
    CollectCompletes
