------------------------------ MODULE Screen ------------------------------
(***************************************************************************)
(* The picture unit in the frame loop: the game runs for a frame of        *)
(* machine cycles and touches the unit's registers as it likes; the unit   *)
(* is brought up to date then, and when the frame ends.                    *)
(***************************************************************************)
EXTENDS Integers, FiniteSets, Ppu

CONSTANTS FRAME,          \* GB_CYCLES_PER_FRAME
          OVERRUN,        \* cycles a frame may take beyond it: one block
          WRITES          \* what a game of each kind writes: <<register, value>>

ASSUME ScreenAssumption ==
    /\ {CYCLE_MOD, CLOCKS, DOTS_PER_LINE, GB_LCD_HEIGHT, LINES_PER_FRAME, ROW_MOD, FRAME} \subseteq Nat \ {0}
    /\ {MODE2_DOTS, MODE3_DOTS, OVERRUN} \subseteq Nat
    \* A frame is one picture long, and the dots since the last tick fit in dt.
    /\ CLOCKS * FRAME = DOTS_PER_LINE * LINES_PER_FRAME
    /\ DOTS_PER_LINE % CLOCKS = 0
    /\ DOTS_PER_LINE + (CLOCKS * (FRAME + OVERRUN)) <= CYCLE_MOD
    \* A block is not longer than a frame, and every line ends with a cycle of mode 0.
    /\ OVERRUN <= FRAME
    /\ MODE2_DOTS + MODE3_DOTS + CLOCKS <= DOTS_PER_LINE
    /\ GB_LCD_HEIGHT < LINES_PER_FRAME /\ GB_LCD_HEIGHT <= ROW_MOD
    /\ \A kind \in DOMAIN WRITES :
          WRITES[kind] \subseteq ({"LCDC"} \X [on : BOOLEAN, window : BOOLEAN, background : BOOLEAN])
                                 \cup ({"STAT"} \X SUBSET (0..LYC_SOURCE)) \cup ({"WX"} \X BOOLEAN)
                                 \cup ({"LYC", "WY", "look"} \X Nat)

VARIABLES
    game,         \* what it writes: in DOMAIN WRITES
    loc,          \* "poll": between two frames; "run": in rom_main
    spent,        \* machine cycles since the frame began
    cycles,       \* the runtime's counter
    ppu,          \* the unit
    pictures,     \* given to the frontend since the frame began
    lit,          \* the LCD was on since the frame began
    whole,        \* the LCD was on since the picture began
    regs, ly, dot, row, reached, picture,   \* a unit that is always up to date
    rose          \* its STAT interrupt's level has risen since the last tick of this one

beam == <<regs, ly, dot, row, reached, picture>>
vars == <<game, loc, spent, cycles, ppu, pictures, lit, whole, beam, rose>>

Beam == INSTANCE DotPpu
    WITH Registers <- [on : BOOLEAN, window : BOOLEAN, background : BOOLEAN, wx : BOOLEAN, wy : Int, look : Int]

Init ==
    /\ game \in DOMAIN WRITES /\ loc = "run" /\ spent = 0 /\ cycles = 0
    /\ ppu = ppu_init /\ pictures = 0 /\ lit = TRUE /\ whole = TRUE
    /\ Beam!Init /\ rose = FALSE

\* The level, for the sources that this unit's STAT enables.
Level == Beam!Level(ppu.stat, ppu.lyc)

\* A machine cycle passes.
Cycle ==
    /\ loc = "run" /\ spent < FRAME + OVERRUN
    /\ spent' = spent + 1
    /\ cycles' = (cycles + 1) % CYCLE_MOD
    /\ UNCHANGED <<game, loc, ppu, pictures, lit>>
    /\ \/ Beam!MCycle
       \/ ~regs.on /\ UNCHANGED beam
    /\ rose' = (rose \/ (Level' /\ ~Level))
    /\ whole' = (whole \/ (regs.on /\ ly' = 0 /\ dot' = 0))

\* The unit is brought up to date and becomes r.p.
Update(r) ==
    /\ ppu' = r.p
    /\ pictures' = pictures + r.vblanks

\* The game reads a register.
ppu_read ==
    /\ loc = "run"
    /\ Update(ppu_tick(ppu, cycles))
    /\ rose' = FALSE
    /\ UNCHANGED <<game, loc, spent, cycles, lit, whole, beam>>

\* The game writes one.
write_ppu(reg, val) ==
    /\ loc = "run"
    /\ Update(ppu_write(ppu, cycles, reg, val))
    /\ lit' = (lit /\ ppu'.lcdc.on)
    /\ whole' = (whole /\ ppu'.lcdc.on)
    /\ Beam!Write([on |-> ppu'.lcdc.on, window |-> ppu'.lcdc.window, background |-> ppu'.lcdc.background,
                   wx |-> ppu'.wx, wy |-> ppu'.wy, look |-> ppu'.look])
    /\ rose' = (Level' /\ ~Level)
    /\ UNCHANGED <<game, loc, spent, cycles>>

\* Mutant: the frame ends without a tick of the picture unit.
gb_step_without_ppu ==
    /\ loc = "run" /\ spent >= FRAME
    /\ loc' = "poll"
    /\ UNCHANGED <<game, spent, cycles, ppu, pictures, lit, whole, beam, rose>>

\* rom_main returns, and gb_step ticks the unit.
gb_step ==
    /\ loc = "run" /\ spent >= FRAME
    /\ loc' = "poll"
    /\ Update(ppu_tick(ppu, cycles))
    /\ rose' = FALSE
    /\ UNCHANGED <<game, spent, cycles, lit, whole, beam>>

\* The frontend polls, and the next frame begins.
gb_run ==
    /\ loc = "poll" /\ loc' = "run"
    /\ spent' = 0 /\ pictures' = 0 /\ lit' = ppu.lcdc.on
    /\ UNCHANGED <<game, cycles, ppu, whole, beam, rose>>

Next == Cycle \/ ppu_read \/ (\E w \in WRITES[game] : write_ppu(w[1], w[2])) \/ gb_step \/ gb_run
Spec == Init /\ [][Next]_vars
-----------------------------------------------------------------------------
(* Properties *)

\* That the unit is late is never seen: brought up to date at any cycle, the beam, the
\* window's rows and every line of the picture are those of a unit that moves with every
\* cycle and draws each line with the registers of its end, also when several lines are
\* caught up at once, across frames, and with the LCD off in between (ppu_tick and
\* ppu_write).
AsIfDotByDot ==
    LET p == ppu_tick(ppu, cycles).p
    IN  <<p.ly, p.dot, p.win_line, p.win_y_cond, p.framebuffer>> = <<ly, dot, row, reached, picture>>

\* Sampling may lose a STAT interrupt but never makes one up: when a tick requests it,
\* the line of a unit that is always up to date has risen since the tick before
\* (update_mode_and_stat runs once per line and once per tick, and takes the dots of all
\* the lines still to catch up for those of the first).
StatSound ==
    [][ppu' # ppu /\ ppu_tick(ppu, cycles).stat => rose]_vars

\* The frontend gets a picture, and at most two, in every frame in which the LCD stays
\* on, wherever in the frame it was switched on before (gb_step's budget against the
\* unit's lines).
PictureEveryFrame == loc = "poll" /\ lit => pictures \in {1, 2}

\* In a picture that begins with LY at zero while the LCD is on, the window's rows follow
\* one another from the first, whatever the game does to WX, WY and LCDC: a line that
\* shows the window shows the row after those of the lines above that show it, and a row
\* is passed over only for a line above that bit 0 of LCDC left blank (win_line in
\* ppu_tick, which counts such a line if the window would have been on it).
WindowRows ==
    LET p == ppu_tick(ppu, cycles).p
        Shows  == {line \in Lines : line < p.ly /\ p.framebuffer[line].row \notin {NoWindow, Blank}}
        Blanks == {line \in Lines : line < p.ly /\ p.framebuffer[line].row = Blank}
    IN  whole => \E Passed \in SUBSET Blanks : \A line \in Shows :
            p.framebuffer[line].row = Cardinality({above \in Shows \cup Passed : above < line})
=============================================================================
