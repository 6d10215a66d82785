SPECIFICATION Spec
CONSTANTS
    CYCLE_MOD = 16
    CLOCKS = 2
    DIV_MOD = 4
    TIMA_MOD = 4
    PERIOD <- const_PERIOD
    FRAME = 3
    OVERRUN = 1
    TIMA_VALUES = {0, 3}
    TAC_VALUES <- const_TAC
    BUTTONS = {0, 3, 4, 7}
    GAMES <- const_GAMES
    OVERFLOW_MOD = 2
INVARIANT DueByFrameEnd
PROPERTIES LateIsUnseen PressSeen
