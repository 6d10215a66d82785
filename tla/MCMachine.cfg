SPECIFICATION FairSpec
CONSTANTS
    ROM_END = 8
    PC_MOD = 9
    SP_MOD = 2
    CYCLE_MOD = 32
    Lines = 2
    Vectors <- MCVectors
    Images <- MCAllImages
    RamInstructions <- MCRamInstructions
    PushValues = {4}
    GB_CYCLES_PER_FRAME = 5
    Frames = 2
INVARIANTS
    TypeOK
    BlockPc
    Overshoot
    ProfileFresh
PROPERTIES
    ImplementsCpu
    ServicedFirst
    FrameEnds
