SPECIFICATION Spec
CONSTANTS
    BASE = 2
    DIGITS = 3
    ROM_END = 4
    CHUNK = 5
    RUNS = {1, 2}
    SCENARIOS <- const_SCENARIOS
    NAMES <- const_NAMES
    RECORDED <- const_RECORDED
    None = None
INVARIANTS Directories SeedsRecorded
PROPERTY OwnBuild
CHECK_DEADLOCK FALSE
