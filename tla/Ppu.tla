-------------------------------- MODULE Ppu --------------------------------
(***************************************************************************)
(* The picture unit of the runtime (ppu.c), which is only brought up to    *)
(* date when the game touches one of its registers and when a frame ends:  *)
(* p is its record `ppu', now the value of `cycles'.                       *)
(*                                                                         *)
(* Pixels are left out.  A line of the framebuffer is what it was drawn    *)
(* with: the look, which stands for SCX, SCY, the palettes and the bits of *)
(* LCDC that choose tiles and sprites, and the row of the window it shows, *)
(* or NoWindow, or Blank.  LCDC's other bits are on (7), window (5) and    *)
(* background (0), without which a line shows neither background nor       *)
(* window.  wx tells whether WX puts the window on the screen.             *)
(***************************************************************************)
EXTENDS Integers

CONSTANTS CYCLE_MOD,        \* 2^32, of `cycles' and dt
          CLOCKS,           \* 4, dots in a machine cycle
          DOTS_PER_LINE,    \* 456
          MODE2_DOTS,       \* 80
          MODE3_DOTS,       \* 172
          GB_LCD_HEIGHT,    \* 144, also VBLANK_LINE
          LINES_PER_FRAME,  \* 154
          ROW_MOD           \* 2^8, of win_line

NoWindow == -1        \* background only
Blank == -2           \* bit 0 of LCDC is off: neither background nor window
LYC_SOURCE == 6      \* in STAT, beside the modes 0, 1 and 2
Lines == 0..GB_LCD_HEIGHT - 1

\* The LCD is on, with the background but no window; nothing is drawn yet.
ppu_init ==
    [lcdc |-> [on |-> TRUE, window |-> FALSE, background |-> TRUE], stat |-> {}, look |-> 0,
     ly |-> 0, lyc |-> 0, wy |-> 0, wx |-> TRUE, last_cycles |-> 0, dot |-> 0, mode |-> 0, stat_line |-> FALSE,
     win_line |-> 0, win_y_cond |-> FALSE,
     framebuffer |-> [ly \in Lines |-> [look |-> 0, row |-> NoWindow]]]

\* Mutant: drawing is taken to begin with the line.
ModeAt_drawing_first(p) == IF p.ly >= GB_LCD_HEIGHT THEN 1
                           ELSE IF p.dot < MODE2_DOTS THEN 2
                           ELSE IF p.dot < MODE3_DOTS THEN 3
                           ELSE 0

ModeAt(p) == IF p.ly >= GB_LCD_HEIGHT THEN 1
             ELSE IF p.dot < MODE2_DOTS THEN 2
             ELSE IF p.dot < MODE2_DOTS + MODE3_DOTS THEN 3
             ELSE 0

\* Does a source that STAT enables hold its line up?
StatLine(p) == ModeAt(p) \in p.stat \/ (LYC_SOURCE \in p.stat /\ p.ly = p.lyc)

\* A run of ppu_tick is under way: p is the unit, stat whether it has requested
\* INT_STAT, vblanks how often INT_VBLANK, with a picture each time.
update_mode_and_stat(r) ==
    [r EXCEPT !.p.mode = ModeAt(r.p), !.p.stat_line = StatLine(r.p),
              !.stat = @ \/ (StatLine(r.p) /\ ~r.p.stat_line)]

\* Does the line take a row of the window?  Bit 0 of LCDC has no say in that.
win_shown(p) == p.win_y_cond /\ p.lcdc.window /\ p.wx

render_scanline(p) ==
    [p EXCEPT !.framebuffer[p.ly] =
        [look |-> p.look,
         row  |-> IF ~p.lcdc.background THEN Blank ELSE IF win_shown(p) THEN p.win_line ELSE NoWindow]]

\* A visible line is over: the window may begin with it, and it is drawn.
visible_line(p) ==
    LET q == [p EXCEPT !.win_y_cond = @ \/ p.ly = p.wy]
    IN  [render_scanline(q) EXCEPT !.win_line = IF win_shown(q) THEN (@ + 1) % ROW_MOD ELSE @]

\* Mutant: the rows of the window go on from one frame to the next.
next_line_keeping_rows(p) == [p EXCEPT !.ly = (@ + 1) % LINES_PER_FRAME]

\* The line after it.
next_line(p) == IF p.ly + 1 < LINES_PER_FRAME THEN [p EXCEPT !.ly = @ + 1]
                ELSE [p EXCEPT !.ly = 0, !.win_line = 0, !.win_y_cond = FALSE]

\* One turn of ppu_tick's loop.
end_of_line(r) ==
    LET p == [r.p EXCEPT !.dot = @ - DOTS_PER_LINE]
        q == next_line(IF p.ly < GB_LCD_HEIGHT THEN visible_line(p) ELSE p)
    IN  update_mode_and_stat([r EXCEPT !.p = q, !.vblanks = IF q.ly = GB_LCD_HEIGHT THEN @ + 1 ELSE @])

Elapsed(p, now) == (((now - p.last_cycles) % CYCLE_MOD) * CLOCKS) % CYCLE_MOD

ppu_tick(p, now) ==
    LET idle  == [p EXCEPT !.last_cycles = now, !.ly = 0, !.dot = 0, !.mode = 0, !.stat_line = FALSE]
        lit   == [p EXCEPT !.last_cycles = now, !.dot = @ + Elapsed(p, now)]
        lines == lit.dot \div DOTS_PER_LINE
        after[n \in 0..lines] ==
            IF n = 0 THEN [p |-> lit, stat |-> FALSE, vblanks |-> 0] ELSE end_of_line(after[n - 1])
    IN  IF p.lcdc.on THEN update_mode_and_stat(after[lines])
        ELSE [p |-> idle, stat |-> FALSE, vblanks |-> 0]

\* The registers a game writes.
set_register(p, reg, val) ==
    CASE reg = "LCDC" -> [p EXCEPT !.lcdc = val]
      [] reg = "STAT" -> [p EXCEPT !.stat = val]
      [] reg = "LYC"  -> [p EXCEPT !.lyc = val]
      [] reg = "WY"   -> [p EXCEPT !.wy = val]
      [] reg = "WX"   -> [p EXCEPT !.wx = val]
      [] reg = "look" -> [p EXCEPT !.look = val]

\* Mutant: the register is written before the lines that passed are drawn.
ppu_write_late(p, now, reg, val) == ppu_tick(set_register(p, reg, val), now)

\* A write first brings the unit up to date, as a read does.
ppu_write(p, now, reg, val) ==
    LET r == ppu_tick(p, now) IN [r EXCEPT !.p = set_register(r.p, reg, val)]
=============================================================================
