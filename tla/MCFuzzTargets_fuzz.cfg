\* Eight patterns to a sieve, and offsets up to two past the haystack.
SPECIFICATION Spec
CONSTANTS
    PREFIX = 4
    MAX_PATTERNS = 8
    Beyond = 2
    Data <- SmallData
INVARIANTS
    TypeOK
    CutsInBounds
PROPERTIES
    OracleIsExact
\* A harness returns or panics.
CHECK_DEADLOCK FALSE
