SPECIFICATION Spec
CONSTANTS
    ROM_END = 8
    PC_MOD = 9
    SP_MOD = 2
    CYCLE_MOD = 32
    Lines = 2
    Vectors <- MCVectors
    Images <- MCImages
    RamInstructions <- MCRamInstructions
    PushValues = {4}
    GB_CYCLES_PER_FRAME = 5
    Frames = 2
INVARIANT
    ReturnsAtDeadline
