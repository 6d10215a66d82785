SPECIFICATION Spec
CONSTANTS
    CYCLE_MOD = 16
    CLOCKS = 1
    DOTS_PER_LINE = 3
    MODE2_DOTS = 1
    MODE3_DOTS = 1
    GB_LCD_HEIGHT = 3
    LINES_PER_FRAME = 4
    ROW_MOD = 3
    FRAME = 12
    OVERRUN = 1
    WRITES <- const_WRITES
VIEW View
INVARIANTS AsIfDotByDot PictureEveryFrame WindowRows
PROPERTY StatSound
