\* One to four sieves, every set of matches among three offsets.
SPECIFICATION CollectSpec
CONSTANTS
    SieveCounts <- UpTo4
    MatchSets <- Positions3
INVARIANTS
    TypeOK
    OneHeadPerSieve
    MergeFrontier
PROPERTIES
    StreamSpec
    NextReturns
    CollectCompletes
