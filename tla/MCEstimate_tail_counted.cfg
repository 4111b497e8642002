\* The tests' account of the estimate: nothing counted in the tail.
SPECIFICATION Spec
CONSTANTS
    PREFIX = 2
    LANES = 1
    MAX_PATTERNS = 2
    WINDOW = 6
    Inputs <- FewInputs
    RawLists <- AllRawLists
PROPERTIES
    TailNotCounted
CHECK_DEADLOCK FALSE
