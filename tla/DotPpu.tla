------------------------------- MODULE DotPpu -------------------------------
(***************************************************************************)
(* What the picture unit promises: a beam that moves with every machine    *)
(* cycle and draws a line, when it gets to its end, with the registers of  *)
(* that moment.  While the LCD is off the beam waits in the corner.        *)
(*                                                                         *)
(* Switching the LCD off in the middle of a picture does not forget the    *)
(* window: its rows go on in the next one (ppu.c:213).  And a line that    *)
(* the background's bit of LCDC leaves blank takes its row of the window   *)
(* all the same (ppu.c:230).                                               *)
(***************************************************************************)
EXTENDS Integers

CONSTANTS CLOCKS, DOTS_PER_LINE, MODE2_DOTS, MODE3_DOTS, GB_LCD_HEIGHT, LINES_PER_FRAME, ROW_MOD, LYC_SOURCE,
          NoWindow, Blank,
          Registers      \* what the registers of the unit may hold

VARIABLES regs,          \* on, window, background, wx, wy, look
          ly, dot,       \* the beam
          row,           \* of the window, on the next line that shows it
          reached,       \* LY has been WY in this frame
          picture        \* what each line was last drawn with
vars == <<regs, ly, dot, row, reached, picture>>

Init == /\ regs = [on |-> TRUE, window |-> FALSE, background |-> TRUE, wx |-> TRUE, wy |-> 0, look |-> 0]
        /\ ly = 0 /\ dot = 0 /\ row = 0 /\ reached = FALSE
        /\ picture = [line \in 0..GB_LCD_HEIGHT - 1 |-> [look |-> 0, row |-> NoWindow]]

DrawLine ==
    LET begun == reached \/ ly = regs.wy
        shown == begun /\ regs.window /\ regs.wx
    IN  /\ reached' = begun
        /\ picture' = [picture EXCEPT ![ly] =
               [look |-> regs.look, row |-> IF ~regs.background THEN Blank ELSE IF shown THEN row ELSE NoWindow]]
        /\ row' = IF shown THEN (row + 1) % ROW_MOD ELSE row

EndOfLine ==
    /\ dot' = 0
    /\ \/ ly < GB_LCD_HEIGHT /\ ly' = ly + 1 /\ DrawLine
       \/ ly \in GB_LCD_HEIGHT..LINES_PER_FRAME - 2 /\ ly' = ly + 1 /\ UNCHANGED <<row, reached, picture>>
       \/ ly = LINES_PER_FRAME - 1 /\ ly' = 0 /\ row' = 0 /\ reached' = FALSE /\ UNCHANGED picture

MCycle ==
    /\ regs.on
    /\ IF dot + CLOCKS < DOTS_PER_LINE THEN dot' = dot + CLOCKS /\ UNCHANGED <<ly, row, reached, picture>>
       ELSE EndOfLine
    /\ UNCHANGED regs

Write(v) ==
    /\ regs' = v
    /\ IF v.on THEN UNCHANGED <<ly, dot>> ELSE ly' = 0 /\ dot' = 0
    /\ UNCHANGED <<row, reached, picture>>

Next == MCycle \/ \E v \in Registers : Write(v)
Spec == Init /\ [][Next]_vars

\* The modes a line goes through, and the level of the STAT interrupt for the sources
\* and the LYC given.
Mode == CASE ly >= GB_LCD_HEIGHT -> 1
          [] ly < GB_LCD_HEIGHT /\ dot \in 0..MODE2_DOTS - 1 -> 2
          [] ly < GB_LCD_HEIGHT /\ dot \in MODE2_DOTS..MODE2_DOTS + MODE3_DOTS - 1 -> 3
          [] OTHER -> 0
Level(sources, lyc) == regs.on /\ (Mode \in sources \/ (LYC_SOURCE \in sources /\ ly = lyc))
=============================================================================
