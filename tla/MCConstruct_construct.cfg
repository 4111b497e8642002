\* Two patterns to a sieve, lists of up to five, ten processors.
SPECIFICATION Spec
CONSTANTS
    PREFIX = 2
    MAX_PATTERNS = 2
    RawLists <- AllLists
    Cpus <- AllCpus
INVARIANTS
    TypeOK
    SievesAsAsked
    TierIsRunnable
    ReportsCause
\* A constructor returns once.
CHECK_DEADLOCK FALSE
