SPECIFICATION Spec
CONSTANTS
    FRAME_SEQ_PERIOD = 2
    LENGTH <- const_LENGTH
    FREQ_LOW = 2
    FREQ_MOD = 4
    SWEEP_IDLE = 2
    FRAME = 3
    CHANNEL = {"ch1", "ch3", "ch4"}
    SWEEPS <- const_SWEEPS
INVARIANT PlaysSoundly
PROPERTY NoteEnds
