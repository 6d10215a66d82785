---------------------------- MODULE ScreenProofs ----------------------------
(***************************************************************************)
(* For every geometry of the screen and every width of counters: the late  *)
(* picture unit draws what a beam draws that moves with every cycle, the   *)
(* frontend gets a picture in every frame, the rows of the window follow   *)
(* one another, and no STAT interrupt is made up.                          *)
(*                                                                         *)
(* Everything rests on one comparison (OneCycle): a tick that comes a      *)
(* cycle later does the same turns of its loop, except that it sees the    *)
(* last line a cycle further on, or takes one turn more.                   *)
(***************************************************************************)
EXTENDS Screen, FiniteSetTheorems, WellFoundedInduction, TLAPS

-----------------------------------------------------------------------------
(* Induction and division with remainder *)

\* Induction, for a set instead of a predicate.
LEMMA NatSetInduction ==
    ASSUME NEW S, 0 \in S, \A n \in Nat : n \in S => n + 1 \in S
    PROVE  \A n \in Nat : n \in S
<1> DEFINE R == OpToRel(<, Nat)
           T == Nat \ S
<1>1. IsWellFoundedOn(R, Nat)
  BY NatLessThanWellFounded
<1>2. \A i, j \in Nat : i < j => <<i, j>> \in R
  BY DEF OpToRel
<1> HIDE DEF R
<1>3. ASSUME T # {} PROVE FALSE
  <2>1. PICK x \in T : \A y \in T : ~ (<<y, x>> \in R)
    BY <1>1, <1>3, WFMin
  <2>2. x \in Nat /\ x # 0
    OBVIOUS
  <2>3. x - 1 \in Nat /\ x - 1 < x
    BY <2>2
  <2>4. x - 1 \notin T
    BY <2>1, <2>2, <2>3, <1>2
  <2>5. (x - 1) + 1 \in S
    BY <2>3, <2>4
  <2> QED
    BY <2>2, <2>5
<1> QED
  BY <1>3

\* A multiple that is not zero is at least one.
LEMMA AtLeastOnce ==
    ASSUME NEW d \in Nat \ {0}, NEW q \in Int, q >= 1
    PROVE  d * q >= d
OBVIOUS

\* Division with remainder.
LEMMA DivMod ==
    ASSUME NEW r \in Int, NEW d \in Nat \ {0}
    PROVE  /\ r \div d \in Int /\ r % d \in 0..(d - 1) /\ r % d \in Nat
           /\ r = d * (r \div d) + (r % d)
OBVIOUS

\* Quotient and remainder are the only ones.
LEMMA DivUnique ==
    ASSUME NEW r \in Int, NEW d \in Nat \ {0}, NEW q \in Int, NEW m \in 0..(d - 1),
           r = d * q + m
    PROVE  r \div d = q /\ r % d = m
<1> DEFINE p == r \div d
           n == r % d
<1>1. p \in Int /\ n \in 0..(d - 1) /\ r = d * p + n
  BY DivMod
<1> HIDE DEF p, n
<1>2. d * (q - p) = n - m /\ d * (p - q) = m - n
  BY <1>1
<1>3. ~(q - p >= 1)
  BY <1>1, <1>2, AtLeastOnce
<1>4. ~(p - q >= 1)
  BY <1>1, <1>2, AtLeastOnce
<1>5. p = q
  BY <1>1, <1>3, <1>4
<1> QED
  BY <1>1, <1>5 DEF p, n

\* Below the divisor nothing is divided.
LEMMA SmallMod ==
    ASSUME NEW d \in Nat \ {0}, NEW r \in 0..(d - 1)
    PROVE  r % d = r /\ r \div d = 0
BY DivUnique

\* What is not negative has a quotient that is not.
LEMMA DivNat ==
    ASSUME NEW r \in Nat, NEW d \in Nat \ {0}
    PROVE  r \div d \in Nat
<1>1. r \div d \in Int /\ r % d \in 0..(d - 1) /\ r = d * (r \div d) + (r % d)
  BY DivMod
<1>2. CASE r \div d >= 0
  BY <1>1, <1>2
<1>3. CASE ~(r \div d >= 0)
  <2>1. d * (0 - (r \div d)) >= d
    BY <1>1, <1>3, AtLeastOnce
  <2> QED
    BY <1>1, <2>1
<1> QED
  BY <1>2, <1>3

\* Dividing a sum: first one part of it, then its remainder and the other part.
LEMMA DivAdd ==
    ASSUME NEW r \in Int, NEW e \in Int, NEW d \in Nat \ {0}
    PROVE  /\ (r + e) % d = ((r % d) + e) % d
           /\ (r + e) \div d = (r \div d) + (((r % d) + e) \div d)
<1> DEFINE m == r % d
           q == r \div d
           x == m + e
<1>1. q \in Int /\ m \in 0..(d - 1) /\ r = d * q + m
  BY DivMod
<1>2. x \in Int
  BY <1>1
<1>3. x \div d \in Int /\ x % d \in 0..(d - 1) /\ x = d * (x \div d) + (x % d)
  BY <1>2, DivMod
<1> DEFINE y == x \div d
           z == x % d
<1>4. r + e = d * q + x
  BY <1>1
<1> HIDE DEF m, q, x
<1>5. d * (q + y) = d * q + d * y
  <2>1. y \in Int
    BY <1>3
  <2> HIDE DEF y
  <2> QED
    BY <1>1, <2>1
<1>6. r + e = d * (q + y) + z
  BY <1>1, <1>2, <1>3, <1>4, <1>5
<1>7. q + y \in Int /\ r + e \in Int /\ z \in 0..(d - 1)
  BY <1>1, <1>3
<1> HIDE DEF y, z
<1>8. (r + e) \div d = q + y /\ (r + e) % d = z
  BY <1>6, <1>7, DivUnique
<1> QED
  BY <1>8 DEF m, q, x, y, z

\* More of the same.
LEMMA TimesMono ==
    ASSUME NEW c \in Nat, NEW a \in Nat, NEW b \in Nat, a <= b
    PROVE  a * c <= b * c /\ a * c \in Nat
<1>1. (b - a) * c \in Nat /\ a * c \in Nat /\ b * c = a * c + (b - a) * c
  OBVIOUS
<1> QED
  BY <1>1

\* A counter that wraps around: a cycle more since the last time.
LEMMA OneLater ==
    ASSUME NEW m \in Nat \ {0}, NEW now \in Int, NEW last \in Int, ((now - last) % m) + 1 < m
    PROVE  (((now + 1) % m) - last) % m = ((now - last) % m) + 1
<1> DEFINE back == 0 - last
           d == now - last
           next == (now + 1) % m
           l == d % m
<1>1. next \in Int /\ l \in Nat
  BY DivMod
<1>2. next - last = next + back /\ (now + 1) + back = d + 1 /\ back \in Int /\ now + 1 \in Int /\ d \in Int
  BY <1>1
<1>3. ((now + 1) + back) % m = (next + back) % m
  <2> HIDE DEF back
  <2> QED
    BY <1>2, DivAdd
<1>4. (d + 1) % m = (l + 1) % m
  <2>1. d \in Int /\ 1 \in Int
    BY <1>2
  <2> HIDE DEF d
  <2> QED
    BY <2>1, DivAdd, Zenon
<1>5. l + 1 \in 0..(m - 1)
  BY <1>1
<1> HIDE DEF l, d, next, back
<1>6. (l + 1) % m = l + 1
  BY <1>5, SmallMod
<1>7. (next - last) % m = l + 1
  BY <1>2, <1>3, <1>4, <1>6
<1> QED
  BY <1>7 DEF l, d, next

\* What divides without remainder.
LEMMA Multiple ==
    ASSUME NEW x \in Int, NEW c \in Nat \ {0}
    PROVE  x % c = 0 <=> \E k \in Int : x = c * k
<1>1. ASSUME x % c = 0 PROVE \E k \in Int : x = c * k
  <2> DEFINE q == x \div c
  <2>1. q \in Int /\ x = c * q + (x % c)
    BY DivMod
  <2>2. c * q \in Int
    BY <2>1
  <2> HIDE DEF q
  <2>3. x = c * q
    BY <1>1, <2>1, <2>2
  <2> QED
    BY <2>1, <2>3
<1>2. ASSUME NEW k \in Int, x = c * k PROVE x % c = 0
  <2>1. x = c * k + 0 /\ 0 \in 0..(c - 1)
    BY <1>2
  <2> QED
    BY <2>1, DivUnique
<1> QED
  BY <1>1, <1>2
-----------------------------------------------------------------------------

Row  == {NoWindow, Blank} \cup (0..ROW_MOD - 1)

\* What a line shows of the window, when r is its next row.
RowDrawn(background, shown, r) == IF ~background THEN Blank ELSE IF shown THEN r ELSE NoWindow
Line == [look : Nat, row : Row]
PpuType ==
    [lcdc : [on : BOOLEAN, window : BOOLEAN, background : BOOLEAN], stat : SUBSET (0..LYC_SOURCE),
     look : Nat, ly : 0..LINES_PER_FRAME - 1, lyc : Nat, wy : Nat, wx : BOOLEAN,
     last_cycles : 0..CYCLE_MOD - 1, dot : Nat, mode : 0..3, stat_line : BOOLEAN,
     win_line : 0..ROW_MOD - 1, win_y_cond : BOOLEAN, framebuffer : [Lines -> Line]]

\* Cycles since the unit was brought up to date.
Late(p, now) == (now - p.last_cycles) % CYCLE_MOD

\* The unit as a tick leaves it: the line is not over, and a cycle never ends one in between.
AtTick(p) == p \in PpuType /\ p.dot < DOTS_PER_LINE /\ p.dot % CLOCKS = 0

TypeOK ==
    /\ game \in DOMAIN WRITES /\ loc \in {"poll", "run"} /\ spent \in 0..FRAME + OVERRUN /\ cycles \in 0..CYCLE_MOD - 1
    /\ AtTick(ppu) /\ pictures \in Nat /\ rose \in BOOLEAN
    /\ lit \in BOOLEAN /\ whole \in BOOLEAN

InTime ==
    /\ Late(ppu, cycles) <= spent
    /\ loc = "poll" => ppu.last_cycles = cycles /\ spent >= FRAME

\* The beam has the registers of the unit.
SameRegisters ==
    regs = [on |-> ppu.lcdc.on, window |-> ppu.lcdc.window, background |-> ppu.lcdc.background,
            wx |-> ppu.wx, wy |-> ppu.wy, look |-> ppu.look]

\* A tick that requests INT_STAT has seen a rise that the beam has seen too.
StatOwed == ppu_tick(ppu, cycles).stat => rose

\* Dots from the begin of VBlank to dot d of line l, and dots of a picture.
SinceAt(l, d) == d + (DOTS_PER_LINE * (IF l >= GB_LCD_HEIGHT THEN l - GB_LCD_HEIGHT
                                       ELSE l + LINES_PER_FRAME - GB_LCD_HEIGHT))
Since   == SinceAt(ly, dot)
PICTURE == DOTS_PER_LINE * LINES_PER_FRAME

\* The pictures so far, with those of the tick to come, against the dots of the frame.
Total == pictures + ppu_tick(ppu, cycles).vblanks
Paced == lit => /\ regs.on
                /\ \E start \in 0..PICTURE - 1 : start + (CLOCKS * spent) = Since + (PICTURE * Total)

\* The lines above l that show the window, and those that are blank.
Showing(pic, l)   == {line \in Lines : line < l /\ pic[line].row \notin {NoWindow, Blank}}
LeftBlank(pic, l) == {line \in Lines : line < l /\ pic[line].row = Blank}

\* Each line of A shows the row after those of the lines of C above it.
InOrder(pic, A, C) == \A line \in A : pic[line].row = Cardinality({above \in C : above < line})

\* Row r comes next on line l, when the lines of P took their rows without showing them.
Follows(pic, l, r, P) ==
    /\ l < GB_LCD_HEIGHT => r = Cardinality(Showing(pic, l) \cup P)
    /\ InOrder(pic, Showing(pic, l), Showing(pic, l) \cup P)
RowsFollow ==
    whole => regs.on /\ \E P \in SUBSET LeftBlank(picture, ly) : Follows(picture, ly, row, P)

ScreenInv ==
    /\ TypeOK /\ InTime /\ SameRegisters /\ AsIfDotByDot /\ StatOwed /\ Paced /\ RowsFollow
-----------------------------------------------------------------------------
LEMMA Sizes ==
    /\ CYCLE_MOD \in Nat \ {0} /\ CLOCKS \in Nat \ {0} /\ DOTS_PER_LINE \in Nat \ {0}
    /\ GB_LCD_HEIGHT \in Nat \ {0} /\ LINES_PER_FRAME \in Nat \ {0} /\ ROW_MOD \in Nat \ {0}
    /\ FRAME \in Nat \ {0} /\ MODE2_DOTS \in Nat /\ MODE3_DOTS \in Nat /\ OVERRUN \in Nat
    /\ GB_LCD_HEIGHT < LINES_PER_FRAME /\ GB_LCD_HEIGHT <= ROW_MOD /\ OVERRUN <= FRAME
    /\ MODE2_DOTS + MODE3_DOTS + CLOCKS <= DOTS_PER_LINE
BY ScreenAssumption

\* A run of the loop of ppu_tick.
RunType == [p : PpuType, stat : BOOLEAN, vblanks : Nat]

\* What a turn does before it looks at the mode.
Ended(r) ==
    LET p == [r.p EXCEPT !.dot = @ - DOTS_PER_LINE]
        q == next_line(IF p.ly < GB_LCD_HEIGHT THEN visible_line(p) ELSE p)
    IN  [r EXCEPT !.p = q, !.vblanks = IF q.ly = GB_LCD_HEIGHT THEN @ + 1 ELSE @]

\* The same run in a tick that comes a cycle later.
Later(r, now) == [r EXCEPT !.p = [r.p EXCEPT !.dot = @ + CLOCKS, !.last_cycles = now]]

LEMMA EndIsEnded == ASSUME NEW r PROVE end_of_line(r) = update_mode_and_stat(Ended(r))
BY DEF end_of_line, Ended

LEMMA ModeType == ASSUME NEW p PROVE ModeAt(p) \in 0..3
BY DEF ModeAt

\* The line that is over, field by field.
LEMMA EndedFields ==
    ASSUME NEW r \in RunType, r.p.dot >= DOTS_PER_LINE
    PROVE  LET p == r.p
               q == Ended(r).p
               begun == p.win_y_cond \/ p.ly = p.wy
               shown == begun /\ p.lcdc.window /\ p.wx
           IN  /\ Ended(r) \in RunType
               /\ q.lcdc = p.lcdc /\ q.stat = p.stat /\ q.look = p.look /\ q.lyc = p.lyc
               /\ q.wy = p.wy /\ q.wx = p.wx /\ q.last_cycles = p.last_cycles
               /\ q.mode = p.mode /\ q.stat_line = p.stat_line
               /\ q.dot = p.dot - DOTS_PER_LINE
               /\ q.ly = IF p.ly + 1 < LINES_PER_FRAME THEN p.ly + 1 ELSE 0
               /\ Ended(r).stat = r.stat
               /\ Ended(r).vblanks = IF q.ly = GB_LCD_HEIGHT THEN r.vblanks + 1 ELSE r.vblanks
               /\ p.ly < GB_LCD_HEIGHT =>
                    /\ q.framebuffer = [p.framebuffer EXCEPT ![p.ly] =
                            [look |-> p.look, row |-> RowDrawn(p.lcdc.background, shown, p.win_line)]]
                    /\ q.win_y_cond = begun
                    /\ q.win_line = IF shown THEN (p.win_line + 1) % ROW_MOD ELSE p.win_line
               /\ ~(p.ly < GB_LCD_HEIGHT) =>
                    /\ q.framebuffer = p.framebuffer
                    /\ q.win_y_cond = IF p.ly + 1 < LINES_PER_FRAME THEN p.win_y_cond ELSE FALSE
                    /\ q.win_line = IF p.ly + 1 < LINES_PER_FRAME THEN p.win_line ELSE 0
<1> DEFINE p == r.p
           p1 == [p EXCEPT !.dot = @ - DOTS_PER_LINE]
           begun == p.win_y_cond \/ p.ly = p.wy
           shown == begun /\ p.lcdc.window /\ p.wx
           drawn == [look |-> p.look, row |-> RowDrawn(p.lcdc.background, shown, p.win_line)]
           p2 == [p1 EXCEPT !.win_y_cond = begun, !.framebuffer = [p.framebuffer EXCEPT ![p.ly] = drawn],
                            !.win_line = IF shown THEN (p.win_line + 1) % ROW_MOD ELSE p.win_line]
           p3 == IF p.ly < GB_LCD_HEIGHT THEN p2 ELSE p1
           q  == next_line(p3)
<1>1. p \in PpuType /\ r.stat \in BOOLEAN /\ r.vblanks \in Nat
  BY DEF RunType
<1>2. /\ p.lcdc \in [on : BOOLEAN, window : BOOLEAN, background : BOOLEAN] /\ p.ly \in 0..LINES_PER_FRAME - 1 /\ p.dot \in Nat
      /\ p.win_line \in 0..ROW_MOD - 1 /\ p.win_y_cond \in BOOLEAN /\ p.framebuffer \in [Lines -> Line]
      /\ p.look \in Nat /\ p.wy \in Nat /\ p.wx \in BOOLEAN
  BY <1>1 DEF PpuType
<1>3. p.dot - DOTS_PER_LINE \in Nat
  BY <1>2, Sizes
<1>4. p1 \in PpuType
  BY <1>1, <1>3 DEF PpuType
<1>5. p1 = [r.p EXCEPT !.dot = @ - DOTS_PER_LINE]
  OBVIOUS
<1>6. ASSUME p.ly < GB_LCD_HEIGHT PROVE visible_line(p1) = p2
  BY <1>1, <1>4, <1>6 DEF visible_line, render_scanline, win_shown, PpuType, RowDrawn
<1>7. p1.ly = p.ly
  BY <1>1 DEF PpuType
<1> DEFINE q1 == next_line(IF p1.ly < GB_LCD_HEIGHT THEN visible_line(p1) ELSE p1)
<1>8. Ended(r) = [r EXCEPT !.p = q1, !.vblanks = IF q1.ly = GB_LCD_HEIGHT THEN @ + 1 ELSE @]
  BY DEF Ended
<1>9. q1 = q
  <2> HIDE DEF p1, p2
  <2> QED
    BY <1>6, <1>7
<1>10. (p.win_line + 1) % ROW_MOD \in 0..ROW_MOD - 1
  <2>1. p.win_line + 1 \in Int
    BY <1>2, Sizes
  <2> QED
    BY <2>1, Sizes, DivMod, Zenon
<1>11. p.ly < GB_LCD_HEIGHT => p.ly \in Lines
  BY <1>2, Sizes DEF Lines
<1>12. p.win_line \in Row /\ drawn \in Line
  BY <1>2 DEF Row, Line, RowDrawn
<1> DEFINE fb == [p.framebuffer EXCEPT ![p.ly] = drawn]
           rows == IF shown THEN (p.win_line + 1) % ROW_MOD ELSE p.win_line
<1>13. fb \in [Lines -> Line] /\ rows \in 0..ROW_MOD - 1 /\ begun \in BOOLEAN
  BY <1>2, <1>10, <1>12
<1> DEFINE Kept(u) == /\ u.lcdc = p.lcdc /\ u.stat = p.stat /\ u.look = p.look /\ u.lyc = p.lyc
                      /\ u.wy = p.wy /\ u.wx = p.wx /\ u.last_cycles = p.last_cycles
                      /\ u.mode = p.mode /\ u.stat_line = p.stat_line
                      /\ u.dot = p.dot - DOTS_PER_LINE
<1>14. p1 \in PpuType /\ Kept(p1) /\ p1.ly = p.ly /\ p1.framebuffer = p.framebuffer
       /\ p1.win_y_cond = p.win_y_cond /\ p1.win_line = p.win_line
  BY <1>1, <1>4 DEF PpuType
<1>15. p2 = [p1 EXCEPT !.win_y_cond = begun, !.framebuffer = fb, !.win_line = rows]
  OBVIOUS
<1> HIDE DEF p1, p2, fb, rows, begun, drawn, shown, q1
<1>16. p2 \in PpuType /\ Kept(p2) /\ p2.ly = p.ly /\ p2.framebuffer = fb
       /\ p2.win_y_cond = begun /\ p2.win_line = rows
  BY <1>13, <1>14, <1>15 DEF PpuType
<1>17. p3 \in PpuType /\ Kept(p3) /\ p3.ly = p.ly
  BY <1>14, <1>16
<1> HIDE DEF p3
<1>18. /\ q \in PpuType /\ Kept(q) /\ q.ly = IF p.ly + 1 < LINES_PER_FRAME THEN p.ly + 1 ELSE 0
       /\ q.framebuffer = p3.framebuffer
       /\ q.win_y_cond = IF p.ly + 1 < LINES_PER_FRAME THEN p3.win_y_cond ELSE FALSE
       /\ q.win_line = IF p.ly + 1 < LINES_PER_FRAME THEN p3.win_line ELSE 0
  <2>1. CASE p.ly + 1 < LINES_PER_FRAME
    <3>1. p.ly + 1 \in 0..LINES_PER_FRAME - 1
      BY <1>2, <2>1, Sizes
    <3>2. q = [p3 EXCEPT !.ly = p.ly + 1]
      BY <1>17, <2>1 DEF next_line
    <3> HIDE DEF q
    <3> QED
      BY <1>17, <2>1, <3>1, <3>2 DEF PpuType
  <2>2. CASE ~(p.ly + 1 < LINES_PER_FRAME)
    <3>1. 0 \in 0..LINES_PER_FRAME - 1 /\ 0 \in 0..ROW_MOD - 1
      BY Sizes
    <3>2. q = [p3 EXCEPT !.ly = 0, !.win_line = 0, !.win_y_cond = FALSE]
      BY <1>17, <2>2 DEF next_line
    <3> HIDE DEF q
    <3> QED
      BY <1>17, <2>2, <3>1, <3>2 DEF PpuType
  <2> QED
    BY <2>1, <2>2
<1> HIDE DEF q
<1>19. /\ Ended(r) \in RunType /\ Ended(r).p = q /\ Ended(r).stat = r.stat
       /\ Ended(r).vblanks = IF q.ly = GB_LCD_HEIGHT THEN r.vblanks + 1 ELSE r.vblanks
  <2> DEFINE v == IF q.ly = GB_LCD_HEIGHT THEN r.vblanks + 1 ELSE r.vblanks
  <2>1. v \in Nat
    BY <1>1
  <2>2. Ended(r) = [r EXCEPT !.p = q, !.vblanks = v]
    BY <1>8, <1>9
  <2> HIDE DEF v, p
  <2>3. Ended(r) \in RunType /\ Ended(r).p = q /\ Ended(r).stat = r.stat /\ Ended(r).vblanks = v
    BY <1>18, <2>1, <2>2 DEF RunType
  <2> QED
    BY <2>3 DEF v
<1>20. p.ly < GB_LCD_HEIGHT => p.ly + 1 < LINES_PER_FRAME
  BY <1>2, Sizes
<1>21. p.ly < GB_LCD_HEIGHT => q.framebuffer = fb /\ q.win_y_cond = begun /\ q.win_line = rows
  BY <1>16, <1>18, <1>20 DEF p3
<1>22. ~(p.ly < GB_LCD_HEIGHT) =>
         /\ q.framebuffer = p.framebuffer
         /\ q.win_y_cond = IF p.ly + 1 < LINES_PER_FRAME THEN p.win_y_cond ELSE FALSE
         /\ q.win_line = IF p.ly + 1 < LINES_PER_FRAME THEN p.win_line ELSE 0
  BY <1>14, <1>18 DEF p3
<1> QED
  BY <1>18, <1>19, <1>21, <1>22 DEF fb, rows, begun, drawn, shown

\* Records of the unit are the same if their fields are.
LEMMA SamePpu ==
    ASSUME NEW p \in PpuType, NEW q \in PpuType,
           p.lcdc = q.lcdc, p.stat = q.stat, p.look = q.look, p.ly = q.ly, p.lyc = q.lyc, p.wy = q.wy,
           p.wx = q.wx, p.last_cycles = q.last_cycles, p.dot = q.dot, p.mode = q.mode,
           p.stat_line = q.stat_line, p.win_line = q.win_line, p.win_y_cond = q.win_y_cond,
           p.framebuffer = q.framebuffer
    PROVE  p = q
BY DEF PpuType

LEMMA SameRun ==
    ASSUME NEW r \in RunType, NEW s \in RunType, r.p = s.p, r.stat = s.stat, r.vblanks = s.vblanks
    PROVE  r = s
BY DEF RunType

LEMMA LaterFields ==
    ASSUME NEW r \in RunType, NEW now \in 0..CYCLE_MOD - 1
    PROVE  LET p == r.p
               q == Later(r, now).p
           IN  /\ Later(r, now) \in RunType
               /\ q.lcdc = p.lcdc /\ q.stat = p.stat /\ q.look = p.look /\ q.lyc = p.lyc
               /\ q.wy = p.wy /\ q.wx = p.wx /\ q.last_cycles = now
               /\ q.mode = p.mode /\ q.stat_line = p.stat_line
               /\ q.dot = p.dot + CLOCKS /\ q.ly = p.ly
               /\ q.framebuffer = p.framebuffer /\ q.win_y_cond = p.win_y_cond
               /\ q.win_line = p.win_line
               /\ Later(r, now).stat = r.stat /\ Later(r, now).vblanks = r.vblanks
<1> DEFINE q == [r.p EXCEPT !.dot = @ + CLOCKS, !.last_cycles = now]
<1>1. r.p \in PpuType /\ r.p.dot \in Nat /\ r.p.dot + CLOCKS \in Nat
  BY Sizes DEF RunType, PpuType
<1>2. q \in PpuType
  BY <1>1 DEF PpuType
<1>3. Later(r, now) \in RunType /\ Later(r, now).p = q /\ Later(r, now).stat = r.stat
      /\ Later(r, now).vblanks = r.vblanks
  <2> HIDE DEF q
  <2>1. Later(r, now) = [r EXCEPT !.p = q]
    BY DEF Later, q
  <2> QED
    BY <1>2, <2>1 DEF RunType
<1>4. /\ q.lcdc = r.p.lcdc /\ q.stat = r.p.stat /\ q.look = r.p.look /\ q.lyc = r.p.lyc
      /\ q.wy = r.p.wy /\ q.wx = r.p.wx /\ q.last_cycles = now
      /\ q.mode = r.p.mode /\ q.stat_line = r.p.stat_line
      /\ q.dot = r.p.dot + CLOCKS /\ q.ly = r.p.ly
      /\ q.framebuffer = r.p.framebuffer /\ q.win_y_cond = r.p.win_y_cond
      /\ q.win_line = r.p.win_line
  BY <1>1 DEF PpuType
<1> HIDE DEF q
<1> QED
  BY <1>3, <1>4

LEMMA UpdatedFields ==
    ASSUME NEW r \in RunType
    PROVE  LET p == r.p
               u == update_mode_and_stat(r)
               q == u.p
           IN  /\ u \in RunType
               /\ q.lcdc = p.lcdc /\ q.stat = p.stat /\ q.look = p.look /\ q.lyc = p.lyc
               /\ q.wy = p.wy /\ q.wx = p.wx /\ q.last_cycles = p.last_cycles
               /\ q.mode = ModeAt(p) /\ q.stat_line = StatLine(p)
               /\ q.dot = p.dot /\ q.ly = p.ly
               /\ q.framebuffer = p.framebuffer /\ q.win_y_cond = p.win_y_cond
               /\ q.win_line = p.win_line
               /\ u.stat = (r.stat \/ (StatLine(p) /\ ~p.stat_line)) /\ u.vblanks = r.vblanks
<1> DEFINE m == ModeAt(r.p)
           s == StatLine(r.p)
           q == [r.p EXCEPT !.mode = m, !.stat_line = s]
           t == r.stat \/ (s /\ ~r.p.stat_line)
<1>1. r.p \in PpuType /\ m \in 0..3
  BY ModeType DEF RunType
<1>2. s \in BOOLEAN /\ t \in BOOLEAN
  BY DEF StatLine
<1>3. update_mode_and_stat(r) = [r EXCEPT !.p = q, !.stat = t]
  BY DEF update_mode_and_stat, RunType
<1> HIDE DEF m, s, t
<1>4. q \in PpuType
  BY <1>1, <1>2 DEF PpuType
<1>5. /\ q.lcdc = r.p.lcdc /\ q.stat = r.p.stat /\ q.look = r.p.look /\ q.lyc = r.p.lyc
      /\ q.wy = r.p.wy /\ q.wx = r.p.wx /\ q.last_cycles = r.p.last_cycles
      /\ q.mode = m /\ q.stat_line = s
      /\ q.dot = r.p.dot /\ q.ly = r.p.ly
      /\ q.framebuffer = r.p.framebuffer /\ q.win_y_cond = r.p.win_y_cond
      /\ q.win_line = r.p.win_line
  BY <1>1 DEF PpuType
<1> HIDE DEF q
<1>6. /\ update_mode_and_stat(r) \in RunType /\ update_mode_and_stat(r).p = q
      /\ update_mode_and_stat(r).stat = t /\ update_mode_and_stat(r).vblanks = r.vblanks
  BY <1>2, <1>3, <1>4 DEF RunType
<1> QED
  BY <1>5, <1>6 DEF m, s, t

\* Both look at the line and the dot, at STAT and at LYC only.
LEMMA SameSample ==
    ASSUME NEW p, NEW q, p.ly = q.ly, p.stat = q.stat, p.lyc = q.lyc,
           \/ p.dot = q.dot
           \/ /\ p.dot \in Nat /\ q.dot \in Nat
              /\ p.dot >= MODE2_DOTS + MODE3_DOTS /\ q.dot >= MODE2_DOTS + MODE3_DOTS
    PROVE  ModeAt(p) = ModeAt(q) /\ StatLine(p) = StatLine(q)
<1>1. ModeAt(p) = ModeAt(q)
  <2>1. CASE p.dot = q.dot
    BY <2>1 DEF ModeAt
  <2>2. CASE /\ p.dot \in Nat /\ q.dot \in Nat
             /\ p.dot >= MODE2_DOTS + MODE3_DOTS /\ q.dot >= MODE2_DOTS + MODE3_DOTS
    <3>1. /\ ~(p.dot < MODE2_DOTS) /\ ~(p.dot < MODE2_DOTS + MODE3_DOTS)
          /\ ~(q.dot < MODE2_DOTS) /\ ~(q.dot < MODE2_DOTS + MODE3_DOTS)
      BY <2>2, Sizes
    <3> QED
      BY <3>1 DEF ModeAt
  <2> QED
    BY <2>1, <2>2
<1> QED
  BY <1>1 DEF StatLine

LEMMA UpdateTwice ==
    ASSUME NEW r \in RunType
    PROVE  update_mode_and_stat(update_mode_and_stat(r)) = update_mode_and_stat(r)
<1> DEFINE u == update_mode_and_stat(r)
           v == update_mode_and_stat(u)
<1>1. /\ u \in RunType /\ u.p.ly = r.p.ly /\ u.p.stat = r.p.stat /\ u.p.lyc = r.p.lyc
      /\ u.p.dot = r.p.dot /\ u.p.mode = ModeAt(r.p) /\ u.p.stat_line = StatLine(r.p)
  BY UpdatedFields
<1> HIDE DEF u
<1>2. ModeAt(u.p) = ModeAt(r.p) /\ StatLine(u.p) = StatLine(r.p)
  BY <1>1, SameSample
<1>3. v = [u EXCEPT !.p.mode = ModeAt(u.p), !.p.stat_line = StatLine(u.p),
                    !.stat = @ \/ (StatLine(u.p) /\ ~u.p.stat_line)]
  BY DEF update_mode_and_stat
<1>4. v \in RunType /\ u.p \in PpuType /\ v.p \in PpuType
  BY <1>1, UpdatedFields DEF RunType
<1>5. v.p = u.p
  <2> HIDE DEF v
  <2>1. /\ v.p.lcdc = u.p.lcdc /\ v.p.stat = u.p.stat /\ v.p.look = u.p.look /\ v.p.lyc = u.p.lyc
        /\ v.p.wy = u.p.wy /\ v.p.wx = u.p.wx /\ v.p.last_cycles = u.p.last_cycles
        /\ v.p.mode = ModeAt(u.p) /\ v.p.stat_line = StatLine(u.p)
        /\ v.p.dot = u.p.dot /\ v.p.ly = u.p.ly
        /\ v.p.framebuffer = u.p.framebuffer /\ v.p.win_y_cond = u.p.win_y_cond
        /\ v.p.win_line = u.p.win_line
    BY <1>1, UpdatedFields DEF v
  <2> QED
    BY <1>1, <1>2, <1>4, <2>1, SamePpu
<1>6. v.stat = u.stat /\ v.vblanks = u.vblanks
  <2>1. v.stat = (u.stat \/ (StatLine(u.p) /\ ~u.p.stat_line)) /\ v.vblanks = u.vblanks
    BY <1>1, UpdatedFields
  <2>2. u.stat \in BOOLEAN
    BY <1>1 DEF RunType
  <2>3. ~(StatLine(u.p) /\ ~u.p.stat_line)
    BY <1>1, <1>2
  <2> HIDE DEF v
  <2>4. (u.stat \/ (StatLine(u.p) /\ ~u.p.stat_line)) = u.stat
    BY <2>2, <2>3
  <2> QED
    BY <2>1, <2>4
<1> HIDE DEF v
<1>7. v = u
  BY <1>1, <1>4, <1>5, <1>6, SameRun
<1> QED
  BY <1>7 DEF u, v

\* In mode 0 and in VBlank it does not matter that the tick comes a cycle later.
LEMMA UpdateLater ==
    ASSUME NEW r \in RunType, NEW now \in 0..CYCLE_MOD - 1, r.p.dot >= MODE2_DOTS + MODE3_DOTS
    PROVE  update_mode_and_stat(Later(r, now)) = Later(update_mode_and_stat(r), now)
<1> DEFINE a == Later(r, now)
           u == update_mode_and_stat(r)
           v == update_mode_and_stat(a)
           w == Later(u, now)
<1>1. /\ a \in RunType
      /\ a.p.lcdc = r.p.lcdc /\ a.p.stat = r.p.stat /\ a.p.look = r.p.look /\ a.p.lyc = r.p.lyc
      /\ a.p.wy = r.p.wy /\ a.p.wx = r.p.wx /\ a.p.last_cycles = now
      /\ a.p.stat_line = r.p.stat_line
      /\ a.p.dot = r.p.dot + CLOCKS /\ a.p.ly = r.p.ly
      /\ a.p.framebuffer = r.p.framebuffer /\ a.p.win_y_cond = r.p.win_y_cond
      /\ a.p.win_line = r.p.win_line
      /\ a.stat = r.stat /\ a.vblanks = r.vblanks
  BY LaterFields
<1>2. /\ u \in RunType
      /\ u.p.lcdc = r.p.lcdc /\ u.p.stat = r.p.stat /\ u.p.look = r.p.look /\ u.p.lyc = r.p.lyc
      /\ u.p.wy = r.p.wy /\ u.p.wx = r.p.wx
      /\ u.p.mode = ModeAt(r.p) /\ u.p.stat_line = StatLine(r.p)
      /\ u.p.dot = r.p.dot /\ u.p.ly = r.p.ly
      /\ u.p.framebuffer = r.p.framebuffer /\ u.p.win_y_cond = r.p.win_y_cond
      /\ u.p.win_line = r.p.win_line
      /\ u.stat = (r.stat \/ (StatLine(r.p) /\ ~r.p.stat_line)) /\ u.vblanks = r.vblanks
  BY UpdatedFields
<1> HIDE DEF a, u
<1>3. r.p.dot \in Nat /\ r.p.dot + CLOCKS \in Nat /\ r.p.dot + CLOCKS >= MODE2_DOTS + MODE3_DOTS
  BY Sizes DEF RunType, PpuType
<1>4. ModeAt(a.p) = ModeAt(r.p) /\ StatLine(a.p) = StatLine(r.p)
  BY <1>1, <1>3, SameSample
<1>5. /\ v \in RunType
      /\ v.p.lcdc = a.p.lcdc /\ v.p.stat = a.p.stat /\ v.p.look = a.p.look /\ v.p.lyc = a.p.lyc
      /\ v.p.wy = a.p.wy /\ v.p.wx = a.p.wx /\ v.p.last_cycles = a.p.last_cycles
      /\ v.p.mode = ModeAt(a.p) /\ v.p.stat_line = StatLine(a.p)
      /\ v.p.dot = a.p.dot /\ v.p.ly = a.p.ly
      /\ v.p.framebuffer = a.p.framebuffer /\ v.p.win_y_cond = a.p.win_y_cond
      /\ v.p.win_line = a.p.win_line
      /\ v.stat = (a.stat \/ (StatLine(a.p) /\ ~a.p.stat_line)) /\ v.vblanks = a.vblanks
  BY <1>1, UpdatedFields
<1>6. /\ w \in RunType
      /\ w.p.lcdc = u.p.lcdc /\ w.p.stat = u.p.stat /\ w.p.look = u.p.look /\ w.p.lyc = u.p.lyc
      /\ w.p.wy = u.p.wy /\ w.p.wx = u.p.wx /\ w.p.last_cycles = now
      /\ w.p.mode = u.p.mode /\ w.p.stat_line = u.p.stat_line
      /\ w.p.dot = u.p.dot + CLOCKS /\ w.p.ly = u.p.ly
      /\ w.p.framebuffer = u.p.framebuffer /\ w.p.win_y_cond = u.p.win_y_cond
      /\ w.p.win_line = u.p.win_line
      /\ w.stat = u.stat /\ w.vblanks = u.vblanks
  BY <1>2, LaterFields
<1> HIDE DEF v, w
<1>7. v.p \in PpuType /\ w.p \in PpuType
  BY <1>5, <1>6 DEF RunType
<1>8. v.p = w.p
  BY <1>1, <1>2, <1>4, <1>5, <1>6, <1>7, SamePpu
<1>9. v.stat = w.stat /\ v.vblanks = w.vblanks
  BY <1>1, <1>2, <1>4, <1>5, <1>6
<1> QED
  BY <1>5, <1>6, <1>8, <1>9, SameRun DEF a, u, v, w

LEMMA EndedLater ==
    ASSUME NEW r \in RunType, NEW now \in 0..CYCLE_MOD - 1, r.p.dot >= DOTS_PER_LINE
    PROVE  Ended(Later(r, now)) = Later(Ended(r), now)
<1> DEFINE a == Later(r, now)
           e == Ended(r)
           v == Ended(a)
           w == Later(e, now)
<1>1. /\ a \in RunType
      /\ a.p.lcdc = r.p.lcdc /\ a.p.stat = r.p.stat /\ a.p.look = r.p.look /\ a.p.lyc = r.p.lyc
      /\ a.p.wy = r.p.wy /\ a.p.wx = r.p.wx /\ a.p.last_cycles = now
      /\ a.p.mode = r.p.mode /\ a.p.stat_line = r.p.stat_line
      /\ a.p.dot = r.p.dot + CLOCKS /\ a.p.ly = r.p.ly
      /\ a.p.framebuffer = r.p.framebuffer /\ a.p.win_y_cond = r.p.win_y_cond
      /\ a.p.win_line = r.p.win_line
      /\ a.stat = r.stat /\ a.vblanks = r.vblanks
  BY LaterFields
<1> HIDE DEF a
<1>2. r.p.dot \in Nat /\ a.p.dot >= DOTS_PER_LINE
  BY <1>1, Sizes DEF RunType, PpuType
<1> DEFINE Fields(x, q) ==
               /\ q.p.lcdc = x.p.lcdc /\ q.p.stat = x.p.stat /\ q.p.look = x.p.look /\ q.p.lyc = x.p.lyc
               /\ q.p.wy = x.p.wy /\ q.p.wx = x.p.wx /\ q.p.last_cycles = x.p.last_cycles
               /\ q.p.mode = x.p.mode /\ q.p.stat_line = x.p.stat_line
               /\ q.p.dot = x.p.dot - DOTS_PER_LINE
               /\ q.p.ly = IF x.p.ly + 1 < LINES_PER_FRAME THEN x.p.ly + 1 ELSE 0
               /\ q.stat = x.stat
               /\ q.vblanks = IF q.p.ly = GB_LCD_HEIGHT THEN x.vblanks + 1 ELSE x.vblanks
               /\ x.p.ly < GB_LCD_HEIGHT =>
                    /\ q.p.framebuffer = [x.p.framebuffer EXCEPT ![x.p.ly] =
                            [look |-> x.p.look,
                             row |-> RowDrawn(x.p.lcdc.background,
                                              (x.p.win_y_cond \/ x.p.ly = x.p.wy) /\ x.p.lcdc.window /\ x.p.wx,
                                              x.p.win_line)]]
                    /\ q.p.win_y_cond = (x.p.win_y_cond \/ x.p.ly = x.p.wy)
                    /\ q.p.win_line = IF (x.p.win_y_cond \/ x.p.ly = x.p.wy) /\ x.p.lcdc.window /\ x.p.wx
                                      THEN (x.p.win_line + 1) % ROW_MOD ELSE x.p.win_line
               /\ ~(x.p.ly < GB_LCD_HEIGHT) =>
                    /\ q.p.framebuffer = x.p.framebuffer
                    /\ q.p.win_y_cond = IF x.p.ly + 1 < LINES_PER_FRAME THEN x.p.win_y_cond ELSE FALSE
                    /\ q.p.win_line = IF x.p.ly + 1 < LINES_PER_FRAME THEN x.p.win_line ELSE 0
<1>3. e \in RunType /\ Fields(r, e)
  BY EndedFields
<1>4. v \in RunType /\ Fields(a, v)
  BY <1>1, <1>2, EndedFields
<1> HIDE DEF e, v
<1>5. /\ w \in RunType
      /\ w.p.lcdc = e.p.lcdc /\ w.p.stat = e.p.stat /\ w.p.look = e.p.look /\ w.p.lyc = e.p.lyc
      /\ w.p.wy = e.p.wy /\ w.p.wx = e.p.wx /\ w.p.last_cycles = now
      /\ w.p.mode = e.p.mode /\ w.p.stat_line = e.p.stat_line
      /\ w.p.dot = e.p.dot + CLOCKS /\ w.p.ly = e.p.ly
      /\ w.p.framebuffer = e.p.framebuffer /\ w.p.win_y_cond = e.p.win_y_cond
      /\ w.p.win_line = e.p.win_line
      /\ w.stat = e.stat /\ w.vblanks = e.vblanks
  BY <1>3, LaterFields
<1> HIDE DEF w
<1>6. v.p \in PpuType /\ w.p \in PpuType
  BY <1>4, <1>5 DEF RunType
<1>7. v.p.dot = w.p.dot
  BY <1>1, <1>2, <1>3, <1>4, <1>5, Sizes
<1>8. v.p.ly = w.p.ly /\ v.stat = w.stat /\ v.vblanks = w.vblanks
  BY <1>1, <1>3, <1>4, <1>5
<1>9. /\ v.p.framebuffer = w.p.framebuffer /\ v.p.win_y_cond = w.p.win_y_cond
      /\ v.p.win_line = w.p.win_line
  <2>1. CASE r.p.ly < GB_LCD_HEIGHT
    BY <1>1, <1>3, <1>4, <1>5, <2>1
  <2>2. CASE ~(r.p.ly < GB_LCD_HEIGHT)
    BY <1>1, <1>3, <1>4, <1>5, <2>2
  <2> QED
    BY <2>1, <2>2
<1>10. v.p = w.p
  BY <1>1, <1>3, <1>4, <1>5, <1>6, <1>7, <1>8, <1>9, SamePpu
<1> QED
  BY <1>4, <1>5, <1>8, <1>10, SameRun DEF a, e, v, w
-----------------------------------------------------------------------------
\* Ticks that are not too late: the dots since the last one fit CYCLE_MOD.
InBounds(p, now) ==
    AtTick(p) /\ now \in 0..CYCLE_MOD - 1 /\ Late(p, now) <= FRAME + OVERRUN

LEMMA FrameFits == FRAME + OVERRUN < CYCLE_MOD /\ (FRAME + OVERRUN) * CLOCKS < CYCLE_MOD
<1> DEFINE s == FRAME + OVERRUN
<1>1. DOTS_PER_LINE + (CLOCKS * s) <= CYCLE_MOD /\ s \in Nat
  BY ScreenAssumption, Sizes
<1> HIDE DEF s
<1>2. CLOCKS * s >= s /\ CLOCKS * s \in Nat /\ s * CLOCKS = CLOCKS * s
  <2>1. (CLOCKS - 1) * s \in Nat /\ CLOCKS * s = s + (CLOCKS - 1) * s
    BY <1>1, Sizes
  <2> QED
    BY <1>1, <2>1, Sizes
<1>3. s < CYCLE_MOD /\ s * CLOCKS < CYCLE_MOD
  BY <1>1, <1>2, Sizes
<1> QED
  BY <1>3 DEF s

LEMMA LateType ==
    ASSUME NEW p \in PpuType, NEW now \in 0..CYCLE_MOD - 1
    PROVE  Late(p, now) \in 0..CYCLE_MOD - 1 /\ Late(p, now) \in Nat
<1>1. now - p.last_cycles \in Int
  BY Sizes DEF PpuType
<1> QED
  BY <1>1, Sizes, DivMod DEF Late

LEMMA ElapsedDots ==
    ASSUME NEW p, NEW now, InBounds(p, now)
    PROVE  Elapsed(p, now) = Late(p, now) * CLOCKS /\ Late(p, now) \in Nat /\ Late(p, now) * CLOCKS \in Nat
<1> DEFINE l == Late(p, now)
<1>1. l \in Nat /\ l <= FRAME + OVERRUN
  BY LateType DEF InBounds, AtTick
<1>2. Elapsed(p, now) = (l * CLOCKS) % CYCLE_MOD
  BY DEF Elapsed, Late
<1> HIDE DEF l
<1>3. l * CLOCKS <= (FRAME + OVERRUN) * CLOCKS /\ l * CLOCKS \in Nat
  BY <1>1, Sizes, TimesMono
<1>4. (FRAME + OVERRUN) * CLOCKS \in Nat /\ (FRAME + OVERRUN) * CLOCKS < CYCLE_MOD
  BY FrameFits, Sizes
<1> DEFINE c == l * CLOCKS
<1>5. c \in Nat /\ c < CYCLE_MOD
  <2> DEFINE most == (FRAME + OVERRUN) * CLOCKS
  <2>1. c \in Nat /\ most \in Nat /\ c <= most /\ most < CYCLE_MOD
    BY <1>3, <1>4
  <2> HIDE DEF c, most
  <2> QED
    BY <2>1, Sizes
<1> HIDE DEF c
<1>6. c \in 0..(CYCLE_MOD - 1)
  BY <1>5, Sizes
<1>7. c % CYCLE_MOD = c
  BY <1>6, Sizes, SmallMod
<1> QED
  BY <1>1, <1>2, <1>5, <1>7 DEF c, l

LEMMA NextLate ==
    ASSUME NEW p, NEW now, InBounds(p, now), Late(p, now) < FRAME + OVERRUN
    PROVE  LET next == (now + 1) % CYCLE_MOD
           IN  next \in 0..CYCLE_MOD - 1 /\ Late(p, next) = Late(p, now) + 1 /\ InBounds(p, next)
<1> DEFINE next == (now + 1) % CYCLE_MOD
           l == Late(p, now)
<1>1. p \in PpuType /\ now \in 0..CYCLE_MOD - 1 /\ l \in Nat
  BY LateType DEF InBounds, AtTick
<1>2. next \in 0..CYCLE_MOD - 1
  <2>1. now + 1 \in Int
    BY <1>1, Sizes
  <2> QED
    BY <2>1, Sizes, DivMod
<1>3. Late(p, next) = l + 1
  <2>1. l + 1 < CYCLE_MOD /\ now \in Int /\ p.last_cycles \in Int /\ CYCLE_MOD \in Nat \ {0}
    BY <1>1, FrameFits, Sizes DEF PpuType
  <2>2. ((now - p.last_cycles) % CYCLE_MOD) + 1 < CYCLE_MOD
    BY <2>1 DEF Late
  <2>3. (((now + 1) % CYCLE_MOD) - p.last_cycles) % CYCLE_MOD = ((now - p.last_cycles) % CYCLE_MOD) + 1
    BY <2>1, <2>2, OneLater
  <2> QED
    BY <2>3 DEF Late
<1>4. InBounds(p, next)
  <2>1. l + 1 <= FRAME + OVERRUN
    BY <1>1, Sizes
  <2> HIDE DEF next, l
  <2> QED
    BY <1>2, <1>3, <2>1 DEF InBounds
<1> QED
  BY <1>2, <1>3, <1>4

\* A cycle ends a line or not; it never ends one in between.
LEMMA CycleDots ==
    ASSUME NEW d \in Nat, d < DOTS_PER_LINE, d % CLOCKS = 0
    PROVE  /\ d + CLOCKS < DOTS_PER_LINE \/ d + CLOCKS = DOTS_PER_LINE
           /\ (d + CLOCKS) % CLOCKS = 0
<1>0. d \in Int /\ DOTS_PER_LINE \in Int /\ CLOCKS \in Nat \ {0} /\ DOTS_PER_LINE % CLOCKS = 0
  BY Sizes, ScreenAssumption
<1>1. PICK k \in Int : d = CLOCKS * k
  BY <1>0, Multiple, Zenon
<1>2. PICK m \in Int : DOTS_PER_LINE = CLOCKS * m
  BY <1>0, Multiple, Zenon
<1>3. d + CLOCKS = CLOCKS * (k + 1) /\ k + 1 \in Int
  BY <1>1, Sizes
<1>4. k < m
  <2> SUFFICES ASSUME k >= m PROVE FALSE
    BY <1>1, <1>2
  <2>1. CLOCKS * (k - m) \in Nat /\ CLOCKS * k = CLOCKS * m + CLOCKS * (k - m)
    BY <1>1, <1>2, Sizes
  <2> QED
    BY <1>1, <1>2, <2>1, Sizes
<1>5. d + CLOCKS <= DOTS_PER_LINE
  <2>1. CLOCKS * (m - (k + 1)) \in Nat /\ CLOCKS * m = CLOCKS * (k + 1) + CLOCKS * (m - (k + 1))
        /\ CLOCKS * (k + 1) \in Int
    BY <1>1, <1>2, <1>4, Sizes
  <2> QED
    BY <1>2, <1>3, <2>1, Sizes
<1>6. (d + CLOCKS) % CLOCKS = 0
  <2>1. d + CLOCKS \in Int
    BY Sizes
  <2> QED
    BY <1>3, <2>1, Sizes, Multiple
<1> QED
  BY <1>5, <1>6, Sizes

-----------------------------------------------------------------------------
\* The recursive function of ppu_tick.
Begun(p) == [p |-> p, stat |-> FALSE, vblanks |-> 0]
RunOf(p, n, f) == [j \in 0..n |-> IF j = 0 THEN Begun(p) ELSE end_of_line(f[j - 1])]
Runs(p, n) == CHOOSE f : f = RunOf(p, n, f)

LEMMA RunsDefined == ASSUME NEW p, NEW k \in Nat PROVE Runs(p, k) = RunOf(p, k, Runs(p, k))
<1> DEFINE S == {n \in Nat : \E f : f = RunOf(p, n, f)}
<1>1. 0 \in S
  <2> DEFINE f == [j \in 0..0 |-> Begun(p)]
  <2>1. f = RunOf(p, 0, f)
    BY DEF RunOf
  <2> QED
    BY <2>1
<1>2. ASSUME NEW n \in Nat, n \in S PROVE n + 1 \in S
  <2>1. PICK f : f = RunOf(p, n, f)
    BY <1>2
  <2> DEFINE g == [j \in 0..n + 1 |-> IF j = n + 1 THEN end_of_line(f[n]) ELSE f[j]]
  <2>2. ASSUME NEW j \in 0..n + 1 PROVE g[j] = RunOf(p, n + 1, g)[j]
    <3>1. CASE j = n + 1
      <4>1. j # 0 /\ j - 1 = n /\ n \in 0..n + 1 /\ n # n + 1
        BY <3>1
      <4>2. g[j - 1] = f[n] /\ g[j] = end_of_line(f[n])
        BY <3>1, <4>1
      <4> QED
        BY <4>1, <4>2 DEF RunOf
    <3>2. CASE j # n + 1 /\ j = 0
      <4>1. 0 \in 0..n
        OBVIOUS
      <4>2. f[0] = Begun(p)
        BY <2>1, <4>1 DEF RunOf
      <4> QED
        BY <3>2, <4>2 DEF RunOf
    <3>3. CASE j # n + 1 /\ j # 0
      <4>1. j \in 0..n /\ j - 1 \in 0..n + 1 /\ j - 1 # n + 1
        BY <3>3
      <4>2. f[j] = end_of_line(f[j - 1])
        BY <2>1, <3>3, <4>1 DEF RunOf
      <4>3. g[j] = f[j] /\ g[j - 1] = f[j - 1]
        BY <3>3, <4>1
      <4> QED
        BY <3>3, <4>2, <4>3 DEF RunOf
    <3> QED
      BY <3>1, <3>2, <3>3
  <2>3. g = RunOf(p, n + 1, g)
    BY <2>2 DEF RunOf
  <2> QED
    BY <2>3
<1> HIDE DEF S
<1>3. \A n \in Nat : n \in S
  BY <1>1, <1>2, NatSetInduction
<1> QED
  BY <1>3 DEF S, Runs

\* The turns one by one.
LEMMA RunsTurn ==
    ASSUME NEW p, NEW n \in Nat
    PROVE  /\ Runs(p, n)[0] = Begun(p)
           /\ \A j \in Nat : j + 1 <= n => Runs(p, n)[j + 1] = end_of_line(Runs(p, n)[j])
<1> DEFINE f == Runs(p, n)
<1>1. f = RunOf(p, n, f)
  BY RunsDefined
<1> HIDE DEF f
<1>2. f[0] = Begun(p)
  BY <1>1 DEF RunOf
<1>3. ASSUME NEW j \in Nat, j + 1 <= n PROVE f[j + 1] = end_of_line(f[j])
  <2>1. j + 1 \in 0..n /\ j + 1 # 0 /\ (j + 1) - 1 = j
    BY <1>3
  <2>2. f[j + 1] = RunOf(p, n, f)[j + 1]
    BY <1>1
  <2> QED
    BY <2>1, <2>2 DEF RunOf
<1> QED
  BY <1>2, <1>3 DEF f

\* As long as lines are due, every turn has a line to end.
LEMMA RunsFields ==
    ASSUME NEW p \in PpuType, NEW n \in Nat, DOTS_PER_LINE * n <= p.dot
    PROVE  \A j \in Nat : j <= n =>
              LET r == Runs(p, n)[j] IN
              /\ r \in RunType /\ r.p.dot = p.dot - DOTS_PER_LINE * j
              /\ r.p.lcdc = p.lcdc /\ r.p.stat = p.stat /\ r.p.look = p.look /\ r.p.lyc = p.lyc
              /\ r.p.wy = p.wy /\ r.p.wx = p.wx /\ r.p.last_cycles = p.last_cycles
<1> DEFINE f == Runs(p, n)
           Fields(r, j) ==
              /\ r \in RunType /\ r.p.dot = p.dot - DOTS_PER_LINE * j
              /\ r.p.lcdc = p.lcdc /\ r.p.stat = p.stat /\ r.p.look = p.look /\ r.p.lyc = p.lyc
              /\ r.p.wy = p.wy /\ r.p.wx = p.wx /\ r.p.last_cycles = p.last_cycles
           S == {j \in Nat : j <= n => Fields(f[j], j)}
<1>1. p.dot \in Nat
  BY DEF PpuType
<1>2. 0 \in S
  <2>1. f[0] = Begun(p)
    BY RunsTurn
  <2>2. Begun(p) \in RunType /\ Begun(p).p = p
    BY DEF Begun, RunType
  <2>3. p.dot - DOTS_PER_LINE * 0 = p.dot
    BY <1>1, Sizes
  <2> HIDE DEF f
  <2> QED
    BY <2>1, <2>2, <2>3
<1>3. ASSUME NEW j \in Nat, j \in S PROVE j + 1 \in S
  <2> SUFFICES ASSUME j + 1 <= n PROVE Fields(f[j + 1], j + 1)
    OBVIOUS
  <2>1. Fields(f[j], j)
    BY <1>3
  <2>2. f[j + 1] = end_of_line(f[j])
    BY RunsTurn
  <2> DEFINE r == f[j]
             e == Ended(r)
             u == update_mode_and_stat(e)
  <2>3. DOTS_PER_LINE * (j + 1) <= DOTS_PER_LINE * n
        /\ DOTS_PER_LINE * (j + 1) = DOTS_PER_LINE * j + DOTS_PER_LINE
        /\ DOTS_PER_LINE * j \in Nat /\ DOTS_PER_LINE * n \in Nat
    <3>1. DOTS_PER_LINE * (n - (j + 1)) \in Nat
          /\ DOTS_PER_LINE * n = DOTS_PER_LINE * (j + 1) + DOTS_PER_LINE * (n - (j + 1))
          /\ DOTS_PER_LINE * (j + 1) = DOTS_PER_LINE * j + DOTS_PER_LINE
          /\ DOTS_PER_LINE * j \in Nat /\ DOTS_PER_LINE * n \in Nat
      BY Sizes
    <3> QED
      BY <3>1, Sizes
  <2> HIDE DEF f
  <2>4. r.p.dot >= DOTS_PER_LINE
    BY <1>1, <2>1, <2>3, Sizes
  <2>5. /\ e \in RunType /\ e.p.dot = r.p.dot - DOTS_PER_LINE
        /\ e.p.lcdc = p.lcdc /\ e.p.stat = p.stat /\ e.p.look = p.look /\ e.p.lyc = p.lyc
        /\ e.p.wy = p.wy /\ e.p.wx = p.wx /\ e.p.last_cycles = p.last_cycles
    BY <2>1, <2>4, EndedFields
  <2> HIDE DEF e
  <2>6. /\ u \in RunType /\ u.p.dot = e.p.dot
        /\ u.p.lcdc = e.p.lcdc /\ u.p.stat = e.p.stat /\ u.p.look = e.p.look /\ u.p.lyc = e.p.lyc
        /\ u.p.wy = e.p.wy /\ u.p.wx = e.p.wx /\ u.p.last_cycles = e.p.last_cycles
    BY <2>5, UpdatedFields
  <2>7. f[j + 1] = u
    BY <2>2, EndIsEnded DEF e
  <2>8. u.p.dot = p.dot - DOTS_PER_LINE * (j + 1)
    BY <1>1, <2>1, <2>3, <2>5, <2>6, Sizes
  <2> HIDE DEF u, r
  <2> QED
    BY <2>5, <2>6, <2>7, <2>8
<1> HIDE DEF S
<1>4. \A j \in Nat : j \in S
  BY <1>2, <1>3, NatSetInduction
<1> QED
  BY <1>4 DEF S, f
-----------------------------------------------------------------------------
\* The unit with its dots of now, the lines that are over, and the run before it looks
\* at the mode for the last time.
Lit(p, now)  == [p EXCEPT !.last_cycles = now, !.dot = @ + Elapsed(p, now)]
Due(p, now)  == Lit(p, now).dot \div DOTS_PER_LINE
Turn(p, now) == Runs(Lit(p, now), Due(p, now))
Last(p, now) == IF Due(p, now) = 0 THEN Begun(Lit(p, now)) ELSE Ended(Turn(p, now)[Due(p, now) - 1])

LEMMA LitFields ==
    ASSUME NEW p, NEW now, InBounds(p, now)
    PROVE  LET q == Lit(p, now) IN
           /\ q \in PpuType /\ q.dot = p.dot + Late(p, now) * CLOCKS /\ q.last_cycles = now
           /\ q.lcdc = p.lcdc /\ q.stat = p.stat /\ q.look = p.look /\ q.lyc = p.lyc
           /\ q.wy = p.wy /\ q.wx = p.wx /\ q.ly = p.ly
           /\ q.mode = p.mode /\ q.stat_line = p.stat_line /\ q.win_line = p.win_line
           /\ q.win_y_cond = p.win_y_cond /\ q.framebuffer = p.framebuffer
<1> DEFINE e == Elapsed(p, now)
<1>1. p \in PpuType /\ p.dot \in Nat /\ now \in 0..CYCLE_MOD - 1
  BY DEF InBounds, AtTick, PpuType
<1>2. e \in Nat /\ e = Late(p, now) * CLOCKS
  BY ElapsedDots
<1> HIDE DEF e
<1>3. p.dot + e \in Nat
  BY <1>1, <1>2
<1>4. Lit(p, now) = [p EXCEPT !.last_cycles = now, !.dot = p.dot + e]
  BY <1>1 DEF Lit, e, PpuType
<1> QED
  BY <1>1, <1>2, <1>3, <1>4 DEF PpuType

\* What is known of the turns, with numbers for their dots.
LEMMA Turns ==
    ASSUME NEW p, NEW now, InBounds(p, now)
    PROVE  LET q == Lit(p, now)
               n == Due(p, now)
           IN  /\ n \in Nat /\ q.dot \in Nat
               /\ q.dot - DOTS_PER_LINE * n \in 0..DOTS_PER_LINE - 1
               /\ DOTS_PER_LINE * n <= q.dot
               /\ \A j \in Nat : j <= n =>
                    LET r == Turn(p, now)[j] IN
                    /\ r \in RunType /\ r.p.dot = q.dot - DOTS_PER_LINE * j
                    /\ r.p.lcdc = p.lcdc /\ r.p.stat = p.stat /\ r.p.look = p.look /\ r.p.lyc = p.lyc
                    /\ r.p.wy = p.wy /\ r.p.wx = p.wx /\ r.p.last_cycles = now
               /\ \A j \in Nat : j < n => Turn(p, now)[j].p.dot >= DOTS_PER_LINE
               /\ Turn(p, now)[0] = Begun(q)
               /\ \A j \in Nat : j + 1 <= n =>
                    Turn(p, now)[j + 1] = update_mode_and_stat(Ended(Turn(p, now)[j]))
<1> DEFINE q == Lit(p, now)
           n == Due(p, now)
           d == q.dot
<1>1. q \in PpuType /\ d \in Nat /\ q.last_cycles = now
      /\ q.lcdc = p.lcdc /\ q.stat = p.stat /\ q.look = p.look /\ q.lyc = p.lyc
      /\ q.wy = p.wy /\ q.wx = p.wx
  BY LitFields DEF PpuType
<1>2. n = d \div DOTS_PER_LINE
  BY DEF Due
<1> HIDE DEF q, n, d
<1>3. n \in Nat /\ d - DOTS_PER_LINE * n \in 0..DOTS_PER_LINE - 1 /\ DOTS_PER_LINE * n <= d
      /\ DOTS_PER_LINE * n \in Nat
  <2> DEFINE m == d % DOTS_PER_LINE
             k == DOTS_PER_LINE * n
  <2>1. d \in Int /\ DOTS_PER_LINE \in Nat \ {0}
    BY <1>1, Sizes
  <2>2. n \in Nat /\ m \in 0..(DOTS_PER_LINE - 1) /\ d = k + m
    BY <1>1, <1>2, <2>1, DivMod, DivNat
  <2>3. k \in Nat
    BY <2>1, <2>2
  <2> HIDE DEF m, k
  <2>4. d - k \in 0..DOTS_PER_LINE - 1 /\ k <= d
    BY <2>1, <2>2, <2>3, Sizes
  <2> QED
    BY <2>2, <2>3, <2>4 DEF k
<1>4. DOTS_PER_LINE * n <= q.dot
  BY <1>3 DEF d
<1>5. \A j \in Nat : j <= n =>
        LET r == Runs(q, n)[j] IN
        /\ r \in RunType /\ r.p.dot = q.dot - DOTS_PER_LINE * j
        /\ r.p.lcdc = q.lcdc /\ r.p.stat = q.stat /\ r.p.look = q.look /\ r.p.lyc = q.lyc
        /\ r.p.wy = q.wy /\ r.p.wx = q.wx /\ r.p.last_cycles = q.last_cycles
  BY <1>1, <1>3, <1>4, RunsFields
<1>6. Turn(p, now) = Runs(q, n)
  BY DEF Turn, q, n
<1>7. ASSUME NEW j \in Nat, j < n PROVE Turn(p, now)[j].p.dot >= DOTS_PER_LINE
  <2>1. Turn(p, now)[j].p.dot = d - DOTS_PER_LINE * j
    BY <1>3, <1>5, <1>6, <1>7 DEF d
  <2>2. /\ DOTS_PER_LINE * (n - (j + 1)) \in Nat /\ DOTS_PER_LINE * j \in Nat
        /\ DOTS_PER_LINE * n = DOTS_PER_LINE * j + DOTS_PER_LINE + DOTS_PER_LINE * (n - (j + 1))
    BY <1>3, <1>7, Sizes
  <2> QED
    BY <1>1, <1>3, <2>1, <2>2, Sizes
<1>8. Runs(q, n)[0] = Begun(q) /\ \A j \in Nat : j + 1 <= n => Runs(q, n)[j + 1] = end_of_line(Runs(q, n)[j])
  BY <1>3, RunsTurn
<1>9. \A j \in Nat : j + 1 <= n => Turn(p, now)[j + 1] = update_mode_and_stat(Ended(Turn(p, now)[j]))
  BY <1>6, <1>8, EndIsEnded
<1>10. \A j \in Nat : j <= n =>
         LET r == Turn(p, now)[j] IN
         /\ r \in RunType /\ r.p.dot = q.dot - DOTS_PER_LINE * j
         /\ r.p.lcdc = p.lcdc /\ r.p.stat = p.stat /\ r.p.look = p.look /\ r.p.lyc = p.lyc
         /\ r.p.wy = p.wy /\ r.p.wx = p.wx /\ r.p.last_cycles = now
  BY <1>1, <1>5, <1>6
<1> QED
  BY <1>1, <1>3, <1>6, <1>7, <1>8, <1>9, <1>10 DEF q, n, d

LEMMA TickIsLast ==
    ASSUME NEW p, NEW now, InBounds(p, now), p.lcdc.on
    PROVE  LET b == Last(p, now) IN
           /\ ppu_tick(p, now) = update_mode_and_stat(b)
           /\ b \in RunType /\ b.p.dot = Lit(p, now).dot - DOTS_PER_LINE * Due(p, now)
           /\ b.p.dot \in 0..DOTS_PER_LINE - 1
           /\ b.p.lcdc = p.lcdc /\ b.p.stat = p.stat /\ b.p.look = p.look /\ b.p.lyc = p.lyc
           /\ b.p.wy = p.wy /\ b.p.wx = p.wx /\ b.p.last_cycles = now
<1> DEFINE q == Lit(p, now)
           n == Due(p, now)
           f == Turn(p, now)
           b == Last(p, now)
<1>1. /\ n \in Nat /\ q.dot \in Nat /\ q.dot - DOTS_PER_LINE * n \in 0..DOTS_PER_LINE - 1
      /\ \A j \in Nat : j <= n =>
           /\ f[j] \in RunType /\ f[j].p.dot = q.dot - DOTS_PER_LINE * j
           /\ f[j].p.lcdc = p.lcdc /\ f[j].p.stat = p.stat /\ f[j].p.look = p.look /\ f[j].p.lyc = p.lyc
           /\ f[j].p.wy = p.wy /\ f[j].p.wx = p.wx /\ f[j].p.last_cycles = now
      /\ \A j \in Nat : j < n => f[j].p.dot >= DOTS_PER_LINE
      /\ f[0] = Begun(q)
      /\ \A j \in Nat : j + 1 <= n => f[j + 1] = update_mode_and_stat(Ended(f[j]))
  BY Turns
<1>2. ppu_tick(p, now) = update_mode_and_stat(f[n])
  <2>1. ppu_tick(p, now) = update_mode_and_stat(Runs(q, q.dot \div DOTS_PER_LINE)[q.dot \div DOTS_PER_LINE])
    BY DEF ppu_tick, Runs, RunOf, Begun, Lit
  <2> QED
    BY <2>1 DEF Turn, Due
<1>3. b = IF n = 0 THEN Begun(q) ELSE Ended(f[n - 1])
  BY DEF Last
<1> HIDE DEF q, n, f, b
<1>4. CASE n = 0
  BY <1>1, <1>2, <1>3, <1>4, Sizes DEF q, n, b
<1>5. CASE n # 0
  <2>1. n - 1 \in Nat /\ (n - 1) + 1 = n /\ n - 1 < n /\ n - 1 <= n /\ (n - 1) + 1 <= n
    BY <1>1, <1>5
  <2> DEFINE r == f[n - 1]
  <2>2. r \in RunType /\ r.p.dot >= DOTS_PER_LINE /\ f[n] = update_mode_and_stat(Ended(r)) /\ b = Ended(r)
        /\ r.p.dot = q.dot - DOTS_PER_LINE * (n - 1)
        /\ r.p.lcdc = p.lcdc /\ r.p.stat = p.stat /\ r.p.look = p.look /\ r.p.lyc = p.lyc
        /\ r.p.wy = p.wy /\ r.p.wx = p.wx /\ r.p.last_cycles = now
    BY <1>1, <1>3, <1>5, <2>1
  <2> HIDE DEF r
  <2>3. /\ b \in RunType /\ b.p.dot = r.p.dot - DOTS_PER_LINE
        /\ b.p.lcdc = p.lcdc /\ b.p.stat = p.stat /\ b.p.look = p.look /\ b.p.lyc = p.lyc
        /\ b.p.wy = p.wy /\ b.p.wx = p.wx /\ b.p.last_cycles = now
    BY <2>2, EndedFields
  <2>4. b.p.dot = q.dot - DOTS_PER_LINE * n
    <3>1. DOTS_PER_LINE * n = DOTS_PER_LINE * (n - 1) + DOTS_PER_LINE
          /\ DOTS_PER_LINE * n \in Int /\ DOTS_PER_LINE * (n - 1) \in Int
      BY <1>1, <2>1, Sizes
    <3> QED
      BY <1>1, <2>2, <2>3, <3>1, Sizes
  <2>5. ppu_tick(p, now) = update_mode_and_stat(b)
    BY <1>2, <2>2, <2>3, UpdateTwice
  <2> QED
    BY <1>1, <2>3, <2>4, <2>5 DEF q, n, b
<1> QED
  BY <1>4, <1>5

\* The dots that are left are whole cycles.
LEMMA Aligned ==
    ASSUME NEW p, NEW now, InBounds(p, now)
    PROVE  (Lit(p, now).dot - DOTS_PER_LINE * Due(p, now)) % CLOCKS = 0
<1> DEFINE d == Lit(p, now).dot
           n == Due(p, now)
           left == d - DOTS_PER_LINE * n
           l == Late(p, now)
<1>1. d = p.dot + l * CLOCKS
  BY LitFields
<1>2. p.dot \in Nat /\ p.dot % CLOCKS = 0 /\ l \in Nat
  BY LateType DEF InBounds, AtTick, PpuType
<1>3. n \in Nat /\ left \in 0..DOTS_PER_LINE - 1 /\ d \in Nat
  BY Turns
<1> HIDE DEF d, n, l
<1>4. left \in Nat
  BY <1>3, Sizes
<1>5. left % CLOCKS = 0
  <2>0. p.dot \in Int /\ DOTS_PER_LINE \in Int /\ CLOCKS \in Nat \ {0} /\ DOTS_PER_LINE % CLOCKS = 0
        /\ left \in Int
    BY <1>2, <1>4, Sizes, ScreenAssumption
  <2>1. PICK k \in Int : p.dot = CLOCKS * k
    BY <1>2, <2>0, Multiple, Zenon
  <2>2. PICK m \in Int : DOTS_PER_LINE = CLOCKS * m
    BY <2>0, Multiple, Zenon
  <2>3. left = CLOCKS * (k + l - m * n) /\ k + l - m * n \in Int
    <3>1. d = CLOCKS * k + CLOCKS * l
      BY <1>1, <1>2, <2>0, <2>1
    <3>2. DOTS_PER_LINE * n = CLOCKS * (m * n) /\ m * n \in Int
      BY <1>3, <2>0, <2>2
    <3>3. CLOCKS * (k + l - m * n) = CLOCKS * k + CLOCKS * l - CLOCKS * (m * n)
      BY <1>2, <2>0, <3>2
    <3> DEFINE x == CLOCKS * k
               y == CLOCKS * l
               z == CLOCKS * (m * n)
    <3>4. x \in Int /\ y \in Int /\ z \in Int
      BY <1>2, <2>0, <3>2
    <3>5. left = d - z /\ d = x + y /\ CLOCKS * (k + l - m * n) = x + y - z
      BY <3>1, <3>2, <3>3
    <3> HIDE DEF x, y, z
    <3>6. left = CLOCKS * (k + l - m * n)
      BY <3>4, <3>5
    <3> QED
      BY <1>2, <3>2, <3>6
  <2> QED
    BY <2>0, <2>3, Multiple
<1> QED
  BY <1>5 DEF left, d, n

\* One cycle more: the dots, and the lines that are over.
LEMMA NextDue ==
    ASSUME NEW p, NEW now, InBounds(p, now), Late(p, now) < FRAME + OVERRUN
    PROVE  LET next == (now + 1) % CYCLE_MOD
               left == Lit(p, now).dot - DOTS_PER_LINE * Due(p, now)
           IN  /\ Lit(p, next).dot = Lit(p, now).dot + CLOCKS
               /\ left % CLOCKS = 0
               /\ \/ left + CLOCKS < DOTS_PER_LINE /\ Due(p, next) = Due(p, now)
                  \/ left + CLOCKS = DOTS_PER_LINE /\ Due(p, next) = Due(p, now) + 1
<1> DEFINE next == (now + 1) % CYCLE_MOD
           d == Lit(p, now).dot
           n == Due(p, now)
           left == d - DOTS_PER_LINE * n
           l == Late(p, now)
<1>1. InBounds(p, next) /\ Late(p, next) = l + 1
  BY NextLate
<1>2. d = p.dot + l * CLOCKS /\ Lit(p, next).dot = p.dot + (l + 1) * CLOCKS
  BY <1>1, LitFields
<1>3. p.dot \in Nat /\ p.dot % CLOCKS = 0 /\ l \in Nat
  BY LateType DEF InBounds, AtTick, PpuType
<1>4. n \in Nat /\ left \in 0..DOTS_PER_LINE - 1 /\ d \in Nat
  BY Turns
<1>5. Due(p, next) = Lit(p, next).dot \div DOTS_PER_LINE
  BY DEF Due
<1> HIDE DEF next, d, n, l
<1>6. Lit(p, next).dot = d + CLOCKS
  BY <1>2, <1>3, Sizes
<1>7. left \in Nat /\ left < DOTS_PER_LINE /\ d = DOTS_PER_LINE * n + left
  <2>1. DOTS_PER_LINE * n \in Nat
    BY <1>4, Sizes
  <2> QED
    BY <1>4, <2>1, Sizes
<1>8. left % CLOCKS = 0
  BY Aligned DEF left, d, n
<1> HIDE DEF left
<1>9. left + CLOCKS < DOTS_PER_LINE \/ left + CLOCKS = DOTS_PER_LINE
  BY <1>7, <1>8, CycleDots
<1>10. d + CLOCKS \in Int /\ DOTS_PER_LINE \in Nat \ {0}
  BY <1>4, Sizes
<1>11. CASE left + CLOCKS < DOTS_PER_LINE
  <2>1. d + CLOCKS = DOTS_PER_LINE * n + (left + CLOCKS) /\ left + CLOCKS \in 0..(DOTS_PER_LINE - 1) /\ n \in Int
    BY <1>4, <1>7, <1>11, Sizes
  <2>2. (d + CLOCKS) \div DOTS_PER_LINE = n
    BY <1>10, <2>1, DivUnique
  <2> QED
    BY <1>5, <1>6, <1>8, <1>11, <2>2 DEF left, d, n, next
<1>12. CASE left + CLOCKS = DOTS_PER_LINE
  <2>1. d + CLOCKS = DOTS_PER_LINE * (n + 1) + 0 /\ 0 \in 0..(DOTS_PER_LINE - 1) /\ n + 1 \in Int
    BY <1>4, <1>7, <1>12, Sizes
  <2>2. (d + CLOCKS) \div DOTS_PER_LINE = n + 1
    BY <1>10, <2>1, DivUnique
  <2> QED
    BY <1>5, <1>6, <1>8, <1>12, <2>2 DEF left, d, n, next
<1> QED
  BY <1>9, <1>11, <1>12

LEMMA BegunFields ==
    ASSUME NEW p \in PpuType
    PROVE  Begun(p) \in RunType /\ Begun(p).p = p /\ Begun(p).stat = FALSE /\ Begun(p).vblanks = 0
BY DEF Begun, RunType

LEMMA LaterLit ==
    ASSUME NEW p, NEW now, NEW next, InBounds(p, now), InBounds(p, next), Late(p, next) = Late(p, now) + 1
    PROVE  Begun(Lit(p, next)) = Later(Begun(Lit(p, now)), next)
<1> DEFINE a == Lit(p, now)
           c == Lit(p, next)
           w == Later(Begun(a), next)
           l == Late(p, now)
<1>1. /\ a \in PpuType /\ a.dot = p.dot + l * CLOCKS
      /\ a.lcdc = p.lcdc /\ a.stat = p.stat /\ a.look = p.look /\ a.lyc = p.lyc
      /\ a.wy = p.wy /\ a.wx = p.wx /\ a.ly = p.ly
      /\ a.mode = p.mode /\ a.stat_line = p.stat_line /\ a.win_line = p.win_line
      /\ a.win_y_cond = p.win_y_cond /\ a.framebuffer = p.framebuffer
  BY LitFields
<1>2. /\ c \in PpuType /\ c.dot = p.dot + (l + 1) * CLOCKS /\ c.last_cycles = next
      /\ c.lcdc = p.lcdc /\ c.stat = p.stat /\ c.look = p.look /\ c.lyc = p.lyc
      /\ c.wy = p.wy /\ c.wx = p.wx /\ c.ly = p.ly
      /\ c.mode = p.mode /\ c.stat_line = p.stat_line /\ c.win_line = p.win_line
      /\ c.win_y_cond = p.win_y_cond /\ c.framebuffer = p.framebuffer
  BY LitFields
<1>3. p.dot \in Nat /\ l \in Nat /\ next \in 0..CYCLE_MOD - 1
  BY LateType DEF InBounds, AtTick, PpuType
<1> HIDE DEF a, c, l
<1>4. c.dot = a.dot + CLOCKS
  BY <1>1, <1>2, <1>3, Sizes
<1>5. Begun(a) \in RunType /\ Begun(a).p = a /\ Begun(a).stat = FALSE /\ Begun(a).vblanks = 0
  BY <1>1, BegunFields
<1>6. Begun(c) \in RunType /\ Begun(c).p = c /\ Begun(c).stat = FALSE /\ Begun(c).vblanks = 0
  BY <1>2, BegunFields
<1>7. /\ w \in RunType
      /\ w.p.lcdc = a.lcdc /\ w.p.stat = a.stat /\ w.p.look = a.look /\ w.p.lyc = a.lyc
      /\ w.p.wy = a.wy /\ w.p.wx = a.wx /\ w.p.last_cycles = next
      /\ w.p.mode = a.mode /\ w.p.stat_line = a.stat_line
      /\ w.p.dot = a.dot + CLOCKS /\ w.p.ly = a.ly
      /\ w.p.framebuffer = a.framebuffer /\ w.p.win_y_cond = a.win_y_cond
      /\ w.p.win_line = a.win_line
      /\ w.stat = FALSE /\ w.vblanks = 0
  BY <1>3, <1>5, LaterFields
<1> HIDE DEF w
<1>8. w.p \in PpuType
  BY <1>7 DEF RunType
<1>9. w.p = c
  BY <1>1, <1>2, <1>4, <1>7, <1>8, SamePpu
<1> QED
  BY <1>6, <1>7, <1>9, SameRun DEF w, a, c

\* A tick a cycle later does the same turns, except for the last one.
LEMMA SameTurns ==
    ASSUME NEW p, NEW now, InBounds(p, now), Late(p, now) < FRAME + OVERRUN
    PROVE  LET next == (now + 1) % CYCLE_MOD
           IN  \A j \in Nat : j < Due(p, next) \/ j = 0
                    => j <= Due(p, now) /\ Turn(p, next)[j] = Later(Turn(p, now)[j], next)
<1> DEFINE next == (now + 1) % CYCLE_MOD
           d == Lit(p, now).dot
           n == Due(p, now)
           m == Due(p, next)
           f == Turn(p, now)
           g == Turn(p, next)
           left == d - DOTS_PER_LINE * n
           S == {j \in Nat : j < m \/ j = 0 => g[j] = Later(f[j], next)}
<1>1. InBounds(p, next) /\ next \in 0..CYCLE_MOD - 1
  BY NextLate DEF InBounds
<1>2. /\ Lit(p, next).dot = d + CLOCKS
      /\ \/ left + CLOCKS < DOTS_PER_LINE /\ m = n
         \/ left + CLOCKS = DOTS_PER_LINE /\ m = n + 1
  BY NextDue
<1>3. /\ n \in Nat /\ d \in Nat /\ left \in 0..DOTS_PER_LINE - 1
      /\ \A j \in Nat : j <= n => f[j] \in RunType /\ f[j].p.dot = d - DOTS_PER_LINE * j
      /\ \A j \in Nat : j < n => f[j].p.dot >= DOTS_PER_LINE
      /\ f[0] = Begun(Lit(p, now))
      /\ \A j \in Nat : j + 1 <= n => f[j + 1] = update_mode_and_stat(Ended(f[j]))
  BY Turns
<1>4. /\ m \in Nat /\ g[0] = Begun(Lit(p, next))
      /\ \A j \in Nat : j + 1 <= m => g[j + 1] = update_mode_and_stat(Ended(g[j]))
  BY <1>1, Turns
<1>5. \A j \in Nat : j < m \/ j = 0 => j <= n
  BY <1>2, <1>3, <1>4
<1>6. Late(p, next) = Late(p, now) + 1
  BY NextLate
<1>7. g[0] = Later(f[0], next)
  BY <1>1, <1>3, <1>4, <1>6, LaterLit
<1>8. 0 \in S
  BY <1>7
<1>9. ASSUME NEW j \in Nat, j \in S PROVE j + 1 \in S
  <2> SUFFICES ASSUME j + 1 < m PROVE g[j + 1] = Later(f[j + 1], next)
    OBVIOUS
  <2>1. j < m /\ j + 1 <= n /\ j <= n /\ j < n /\ j + 1 <= m /\ j + 1 < m
    BY <1>2, <1>3, <1>4
  <2>2. g[j] = Later(f[j], next)
    BY <1>9, <2>1
  <2> DEFINE r == f[j]
             e == Ended(r)
  <2>3. /\ r \in RunType /\ r.p.dot >= DOTS_PER_LINE /\ r.p.dot = d - DOTS_PER_LINE * j
        /\ f[j + 1] = update_mode_and_stat(e) /\ g[j + 1] = update_mode_and_stat(Ended(Later(r, next)))
    BY <1>3, <1>4, <2>1, <2>2
  <2> HIDE DEF r, f, g, n, m, d, left, next
  <2>4. Ended(Later(r, next)) = Later(e, next)
    BY <1>1, <2>3, EndedLater
  <2>5. e \in RunType /\ e.p.dot = r.p.dot - DOTS_PER_LINE
    BY <2>3, EndedFields
  <2>6. e.p.dot >= MODE2_DOTS + MODE3_DOTS
    <3> DEFINE k == n - (j + 1)
               x == DOTS_PER_LINE * j
               z == DOTS_PER_LINE * k
    <3>1. n \in Nat /\ j \in Nat /\ DOTS_PER_LINE \in Nat \ {0} /\ k \in Nat /\ n = j + 1 + k
      BY <1>3, <2>1, Sizes
    <3>2. d \in Nat /\ e.p.dot = (d - x) - DOTS_PER_LINE /\ left \in Nat
      BY <1>3, <2>3, <2>5
    <3>3. left = d - DOTS_PER_LINE * n
      BY DEF left
    <3> HIDE DEF k
    <3>4. DOTS_PER_LINE * n = x + DOTS_PER_LINE + z /\ x \in Nat /\ z \in Nat
      BY <3>1
    <3>5. k >= 1 => z >= DOTS_PER_LINE
      BY <3>1, AtLeastOnce
    <3> HIDE DEF x, z
    <3>6. e.p.dot = left + z
      BY <3>1, <3>2, <3>3, <3>4
    <3>7. CASE left + CLOCKS < DOTS_PER_LINE /\ m = n
      <4>1. k >= 1
        BY <2>1, <3>1, <3>7
      <4>2. z >= DOTS_PER_LINE
        BY <3>5, <4>1
      <4> QED
        BY <3>2, <3>4, <3>6, <4>2, Sizes
    <3>8. CASE left + CLOCKS = DOTS_PER_LINE /\ m = n + 1
      BY <3>2, <3>4, <3>6, <3>8, Sizes
    <3> QED
      BY <1>2, <3>7, <3>8
  <2>7. update_mode_and_stat(Later(e, next)) = Later(update_mode_and_stat(e), next)
    BY <1>1, <2>5, <2>6, UpdateLater
  <2> QED
    BY <2>3, <2>4, <2>7
<1> HIDE DEF S
<1>10. \A j \in Nat : j \in S
  BY <1>8, <1>9, NatSetInduction
<1> QED
  BY <1>5, <1>10 DEF S

LEMMA OneCycle ==
    ASSUME NEW p, NEW now, InBounds(p, now), Late(p, now) < FRAME + OVERRUN, p.lcdc.on
    PROVE  LET next == (now + 1) % CYCLE_MOD
               b == Last(p, now)
               c == Last(p, next)
           IN  \/ b.p.dot + CLOCKS < DOTS_PER_LINE /\ c = Later(b, next)
               \/ /\ b.p.dot + CLOCKS = DOTS_PER_LINE
                  /\ \E a \in {b, update_mode_and_stat(b)} : c = Ended(Later(a, next))
<1> DEFINE next == (now + 1) % CYCLE_MOD
           b == Last(p, now)
           c == Last(p, next)
           n == Due(p, now)
           m == Due(p, next)
           f == Turn(p, now)
           g == Turn(p, next)
<1>1. InBounds(p, next) /\ next \in 0..CYCLE_MOD - 1
  BY NextLate DEF InBounds
<1>2. b.p.dot = Lit(p, now).dot - DOTS_PER_LINE * n
  BY TickIsLast
<1>3. \/ b.p.dot + CLOCKS < DOTS_PER_LINE /\ m = n
      \/ b.p.dot + CLOCKS = DOTS_PER_LINE /\ m = n + 1
  BY <1>2, NextDue
<1>4. \A j \in Nat : j < m \/ j = 0 => j <= n /\ g[j] = Later(f[j], next)
  BY SameTurns
<1>5. /\ n \in Nat /\ f[0] = Begun(Lit(p, now))
      /\ \A j \in Nat : j <= n => f[j] \in RunType
      /\ \A j \in Nat : j < n => f[j].p.dot >= DOTS_PER_LINE
      /\ \A j \in Nat : j + 1 <= n => f[j + 1] = update_mode_and_stat(Ended(f[j]))
  BY Turns
<1>6. m \in Nat /\ g[0] = Begun(Lit(p, next))
  BY <1>1, Turns
<1>7. b = IF n = 0 THEN f[0] ELSE Ended(f[n - 1])
  BY <1>5 DEF Last
<1>8. c = IF m = 0 THEN g[0] ELSE Ended(g[m - 1])
  BY <1>6 DEF Last
<1> HIDE DEF b, c, n, m, f, g, next
<1>9. CASE b.p.dot + CLOCKS < DOTS_PER_LINE /\ m = n
  <2>1. CASE n = 0
    BY <1>4, <1>5, <1>7, <1>8, <1>9, <2>1 DEF b, c, next
  <2>2. CASE n # 0
    <3>1. n - 1 \in Nat /\ n - 1 < m /\ n - 1 <= n /\ n - 1 < n
      BY <1>5, <1>9, <2>2
    <3>2. g[n - 1] = Later(f[n - 1], next) /\ f[n - 1] \in RunType /\ f[n - 1].p.dot >= DOTS_PER_LINE
      BY <1>4, <1>5, <3>1
    <3>3. Ended(g[n - 1]) = Later(Ended(f[n - 1]), next)
      BY <1>1, <3>2, EndedLater
    <3>4. c = Later(b, next)
      BY <1>7, <1>8, <1>9, <2>2, <3>3
    <3> QED
      BY <1>9, <3>4 DEF b, c, next
  <2> QED
    BY <2>1, <2>2
<1>10. CASE b.p.dot + CLOCKS = DOTS_PER_LINE /\ m = n + 1
  <2>1. m # 0 /\ m - 1 = n /\ n < m
    BY <1>5, <1>10
  <2>2. c = Ended(Later(f[n], next))
    BY <1>4, <1>5, <1>8, <2>1
  <2>3. f[n] \in {b, update_mode_and_stat(b)}
    <3>1. CASE n = 0
      BY <1>7, <3>1
    <3>2. CASE n # 0
      <4>1. n - 1 \in Nat /\ (n - 1) + 1 = n /\ (n - 1) + 1 <= n
        BY <1>5, <3>2
      <4>2. f[(n - 1) + 1] = update_mode_and_stat(Ended(f[n - 1]))
        BY <1>5, <4>1
      <4> QED
        BY <1>7, <3>2, <4>1, <4>2
    <3> QED
      BY <3>1, <3>2
  <2> QED
    BY <1>10, <2>2, <2>3 DEF b, c, next
<1> QED
  BY <1>3, <1>9, <1>10
-----------------------------------------------------------------------------
\* What a game sees of a unit: its registers, and the beam with what it has drawn.
SameRegs(p, q) == q.lcdc = p.lcdc /\ q.stat = p.stat /\ q.look = p.look /\ q.lyc = p.lyc /\ q.wy = p.wy /\ q.wx = p.wx
SameRows(p, q) == q.framebuffer = p.framebuffer /\ q.win_y_cond = p.win_y_cond /\ q.win_line = p.win_line
SameBeam(p, q) == q.ly = p.ly /\ q.dot = p.dot /\ SameRows(p, q)

\* A unit whose LCD is off.
LEMMA IdleFields ==
    ASSUME NEW p \in PpuType, NEW now \in 0..CYCLE_MOD - 1, ~p.lcdc.on
    PROVE  LET t == ppu_tick(p, now) IN
           /\ t \in RunType /\ t.p.last_cycles = now /\ SameRegs(p, t.p) /\ SameRows(p, t.p)
           /\ t.p.ly = 0 /\ t.p.dot = 0 /\ ~t.p.stat_line /\ ~t.stat /\ t.vblanks = 0
<1> DEFINE q == [p EXCEPT !.last_cycles = now, !.ly = 0, !.dot = 0, !.mode = 0, !.stat_line = FALSE]
<1>1. ppu_tick(p, now) = [p |-> q, stat |-> FALSE, vblanks |-> 0]
  BY DEF ppu_tick
<1>2. 0 \in 0..LINES_PER_FRAME - 1 /\ 0 \in 0..3
  BY Sizes
<1>3. /\ q \in PpuType /\ q.last_cycles = now /\ SameRegs(p, q) /\ SameRows(p, q)
      /\ q.ly = 0 /\ q.dot = 0 /\ q.stat_line = FALSE
  BY <1>2 DEF PpuType, SameRegs, SameRows
<1> HIDE DEF q
<1> QED
  BY <1>1, <1>3 DEF RunType

\* What a tick leaves behind.
LEMMA TickFields ==
    ASSUME NEW p, NEW now, InBounds(p, now)
    PROVE  LET t == ppu_tick(p, now) IN
           /\ t \in RunType /\ AtTick(t.p) /\ t.p.last_cycles = now /\ SameRegs(p, t.p)
           /\ t.p.stat_line <=> p.lcdc.on /\ StatLine(t.p)
<1>1. p \in PpuType /\ now \in 0..CYCLE_MOD - 1
  BY DEF InBounds, AtTick
<1>2. CASE ~p.lcdc.on
  <2> DEFINE t == ppu_tick(p, now)
  <2>1. /\ t \in RunType /\ t.p.last_cycles = now /\ SameRegs(p, t.p)
        /\ t.p.dot = 0 /\ ~t.p.stat_line
    BY <1>1, <1>2, IdleFields
  <2> HIDE DEF t
  <2>2. 0 < DOTS_PER_LINE /\ 0 % CLOCKS = 0
    <3>1. CLOCKS \in Nat \ {0} /\ 0 \in 0..(CLOCKS - 1)
      BY Sizes
    <3> QED
      BY <3>1, Sizes, SmallMod
  <2>3. AtTick(t.p)
    BY <2>1, <2>2 DEF AtTick, RunType
  <2> QED
    BY <1>2, <2>1, <2>3 DEF t
<1>3. CASE p.lcdc.on
  <2> DEFINE b == Last(p, now)
             t == ppu_tick(p, now)
  <2>1. /\ t = update_mode_and_stat(b) /\ b \in RunType
        /\ b.p.dot = Lit(p, now).dot - DOTS_PER_LINE * Due(p, now)
        /\ b.p.dot \in 0..DOTS_PER_LINE - 1
        /\ b.p.lcdc = p.lcdc /\ b.p.stat = p.stat /\ b.p.look = p.look /\ b.p.lyc = p.lyc
        /\ b.p.wy = p.wy /\ b.p.wx = p.wx /\ b.p.last_cycles = now
    BY <1>3, TickIsLast
  <2>2. b.p.dot % CLOCKS = 0
    BY <2>1, Aligned
  <2> HIDE DEF b
  <2>3. /\ t \in RunType
        /\ t.p.lcdc = b.p.lcdc /\ t.p.stat = b.p.stat /\ t.p.look = b.p.look /\ t.p.lyc = b.p.lyc
        /\ t.p.wy = b.p.wy /\ t.p.wx = b.p.wx /\ t.p.last_cycles = b.p.last_cycles
        /\ t.p.stat_line = StatLine(b.p) /\ t.p.dot = b.p.dot /\ t.p.ly = b.p.ly
    BY <2>1, UpdatedFields
  <2> HIDE DEF t
  <2>4. StatLine(t.p) = StatLine(b.p)
    BY <2>3, SameSample
  <2>5. AtTick(t.p)
    BY <2>1, <2>2, <2>3, Sizes DEF AtTick, RunType
  <2>6. SameRegs(p, t.p)
    BY <2>1, <2>3 DEF SameRegs
  <2> QED
    BY <1>3, <2>1, <2>3, <2>4, <2>5, <2>6 DEF t
<1> QED
  BY <1>2, <1>3

\* A tick in the cycle of the last one finds nothing to do.
LEMMA AgainFields ==
    ASSUME NEW p, AtTick(p), p.lcdc.on
    PROVE  LET t == ppu_tick(p, p.last_cycles) IN
           /\ Late(p, p.last_cycles) = 0 /\ SameBeam(p, t.p) /\ t.vblanks = 0
           /\ t.stat <=> StatLine(p) /\ ~p.stat_line
<1> DEFINE now == p.last_cycles
           l == Late(p, now)
           d == Lit(p, now).dot
           n == Due(p, now)
<1>1. p \in PpuType /\ now \in 0..CYCLE_MOD - 1 /\ p.dot \in 0..DOTS_PER_LINE - 1 /\ now \in Int
  BY Sizes DEF AtTick, PpuType
<1>2. l = 0
  <2>1. CYCLE_MOD \in Nat \ {0} /\ 0 \in 0..(CYCLE_MOD - 1)
    BY Sizes
  <2>2. 0 % CYCLE_MOD = 0
    BY <2>1, SmallMod
  <2>3. now - now = 0
    BY <1>1
  <2> QED
    BY <2>2, <2>3 DEF Late
<1>3. InBounds(p, now)
  BY <1>1, <1>2, Sizes DEF InBounds
<1> DEFINE q == Lit(p, now)
<1>4. q \in PpuType /\ q.dot = p.dot + l * CLOCKS /\ q.stat = p.stat /\ q.lyc = p.lyc /\ q.ly = p.ly
      /\ q.stat_line = p.stat_line /\ q.framebuffer = p.framebuffer /\ q.win_y_cond = p.win_y_cond
      /\ q.win_line = p.win_line
  BY <1>3, LitFields
<1>5. n = q.dot \div DOTS_PER_LINE
  BY DEF Due
<1>6. ppu_tick(p, now) = update_mode_and_stat(Last(p, now)) /\ Last(p, now) = IF n = 0 THEN Begun(q) ELSE Ended(Turn(p, now)[n - 1])
  BY <1>3, TickIsLast DEF Last
<1> HIDE DEF q, n, l, now
<1>7. q.dot = p.dot
  BY <1>1, <1>2, <1>4, Sizes
<1>8. n = 0
  <2>1. p.dot \in 0..(DOTS_PER_LINE - 1) /\ DOTS_PER_LINE \in Nat \ {0}
    BY <1>1, Sizes
  <2>2. p.dot \div DOTS_PER_LINE = 0
    BY <2>1, SmallMod
  <2> QED
    BY <1>5, <1>7, <2>2
<1> DEFINE b == Begun(q)
           t == update_mode_and_stat(b)
<1>9. b \in RunType /\ b.p = q /\ b.stat = FALSE /\ b.vblanks = 0
  BY <1>4, BegunFields
<1> HIDE DEF b
<1>10. /\ t.p.dot = b.p.dot /\ t.p.ly = b.p.ly
       /\ t.p.framebuffer = b.p.framebuffer /\ t.p.win_y_cond = b.p.win_y_cond
       /\ t.p.win_line = b.p.win_line
       /\ t.stat = (b.stat \/ (StatLine(b.p) /\ ~b.p.stat_line)) /\ t.vblanks = b.vblanks
  BY <1>9, UpdatedFields
<1>11. StatLine(q) = StatLine(p)
  BY <1>4, <1>7, SameSample
<1>12. ppu_tick(p, now) = t
  BY <1>6, <1>8 DEF b
<1> HIDE DEF t
<1>13. SameBeam(p, t.p) /\ t.vblanks = 0
  BY <1>4, <1>7, <1>9, <1>10 DEF SameBeam, SameRows
<1>14. t.stat <=> StatLine(p) /\ ~p.stat_line
  BY <1>4, <1>9, <1>10, <1>11
<1> QED
  BY <1>2, <1>12, <1>13, <1>14 DEF now, l

\* A line is over between p and q.
LineOver(p, q) ==
    LET begun == p.win_y_cond \/ p.ly = p.wy
        shown == begun /\ p.lcdc.window /\ p.wx
    IN  /\ q.ly = IF p.ly + 1 < LINES_PER_FRAME THEN p.ly + 1 ELSE 0
        /\ p.ly < GB_LCD_HEIGHT =>
             /\ q.framebuffer = [p.framebuffer EXCEPT ![p.ly] =
                     [look |-> p.look, row |-> RowDrawn(p.lcdc.background, shown, p.win_line)]]
             /\ q.win_y_cond = begun
             /\ q.win_line = IF shown THEN (p.win_line + 1) % ROW_MOD ELSE p.win_line
        /\ ~(p.ly < GB_LCD_HEIGHT) =>
             /\ q.framebuffer = p.framebuffer
             /\ q.win_y_cond = IF p.ly + 1 < LINES_PER_FRAME THEN p.win_y_cond ELSE FALSE
             /\ q.win_line = IF p.ly + 1 < LINES_PER_FRAME THEN p.win_line ELSE 0

LEMMA SameOver ==
    ASSUME NEW p, NEW q, NEW x, NEW y, LineOver(p, q), SameRegs(x, p), SameRows(x, p), p.ly = x.ly,
           y.ly = q.ly, SameRows(q, y)
    PROVE  LineOver(x, y)
<1>1. /\ p.win_y_cond = x.win_y_cond /\ p.ly = x.ly /\ p.wy = x.wy /\ p.lcdc = x.lcdc /\ p.wx = x.wx
      /\ p.framebuffer = x.framebuffer /\ p.win_line = x.win_line /\ p.look = x.look
      /\ y.ly = q.ly /\ y.framebuffer = q.framebuffer /\ y.win_y_cond = q.win_y_cond /\ y.win_line = q.win_line
  BY DEF SameRegs, SameRows
<1>2. CASE p.ly < GB_LCD_HEIGHT
  BY <1>1, <1>2 DEF LineOver
<1>3. CASE ~(p.ly < GB_LCD_HEIGHT)
  BY <1>1, <1>3 DEF LineOver
<1> QED
  BY <1>2, <1>3

\* What a tick shows that comes a cycle later.
LEMMA CycleFields ==
    ASSUME NEW p, NEW now, InBounds(p, now), Late(p, now) < FRAME + OVERRUN, p.lcdc.on
    PROVE  LET t == ppu_tick(p, now)
               u == ppu_tick(p, (now + 1) % CYCLE_MOD)
           IN  /\ u.stat => t.stat \/ (StatLine(u.p) /\ ~StatLine(t.p))
               /\ \/ /\ t.p.dot + CLOCKS < DOTS_PER_LINE
                     /\ u.p.dot = t.p.dot + CLOCKS /\ u.p.ly = t.p.ly /\ SameRows(t.p, u.p)
                     /\ u.vblanks = t.vblanks
                  \/ /\ t.p.dot + CLOCKS = DOTS_PER_LINE
                     /\ u.p.dot = 0 /\ LineOver(t.p, u.p)
                     /\ u.vblanks = IF u.p.ly = GB_LCD_HEIGHT THEN t.vblanks + 1 ELSE t.vblanks
<1> DEFINE next == (now + 1) % CYCLE_MOD
           b == Last(p, now)
           c == Last(p, next)
           t == ppu_tick(p, now)
           u == ppu_tick(p, next)
           Fields(r, s) == /\ s \in RunType /\ SameRegs(r.p, s.p) /\ SameBeam(r.p, s.p) /\ s.vblanks = r.vblanks
<1>1. InBounds(p, next) /\ next \in 0..CYCLE_MOD - 1
  BY NextLate DEF InBounds
<1>2. b \in RunType /\ t = update_mode_and_stat(b) /\ b.p.dot \in 0..DOTS_PER_LINE - 1
  BY TickIsLast
<1>3. c \in RunType /\ u = update_mode_and_stat(c)
  BY <1>1, TickIsLast
<1>4. \/ b.p.dot + CLOCKS < DOTS_PER_LINE /\ c = Later(b, next)
      \/ /\ b.p.dot + CLOCKS = DOTS_PER_LINE
         /\ \E a \in {b, update_mode_and_stat(b)} : c = Ended(Later(a, next))
  BY OneCycle
<1> HIDE DEF b, c, next
<1>5. /\ Fields(b, t) /\ t.p.stat_line = StatLine(b.p)
      /\ t.stat = (b.stat \/ (StatLine(b.p) /\ ~b.p.stat_line))
  BY <1>2, UpdatedFields DEF SameRegs, SameBeam, SameRows
<1>6. Fields(c, u) /\ u.stat = (c.stat \/ (StatLine(c.p) /\ ~c.p.stat_line))
  BY <1>3, UpdatedFields DEF SameRegs, SameBeam, SameRows
<1> HIDE DEF t, u
<1>7. StatLine(t.p) = StatLine(b.p) /\ StatLine(u.p) = StatLine(c.p)
  BY <1>5, <1>6, SameSample DEF SameRegs, SameBeam
<1>8. CASE b.p.dot + CLOCKS < DOTS_PER_LINE /\ c = Later(b, next)
  <2>1. /\ c.p.dot = b.p.dot + CLOCKS /\ c.p.ly = b.p.ly /\ SameRows(b.p, c.p)
        /\ c.vblanks = b.vblanks /\ c.stat = b.stat /\ c.p.stat_line = b.p.stat_line
    BY <1>1, <1>2, <1>8, LaterFields DEF SameRows
  <2>2. u.stat => t.stat \/ (StatLine(u.p) /\ ~StatLine(t.p))
    BY <1>5, <1>6, <1>7, <2>1
  <2>3. /\ t.p.dot + CLOCKS < DOTS_PER_LINE
        /\ u.p.dot = t.p.dot + CLOCKS /\ u.p.ly = t.p.ly /\ SameRows(t.p, u.p)
        /\ u.vblanks = t.vblanks
    BY <1>5, <1>6, <1>8, <2>1 DEF SameBeam, SameRows
  <2> QED
    BY <2>2, <2>3 DEF t, u, next
<1>9. ASSUME b.p.dot + CLOCKS = DOTS_PER_LINE,
             NEW a \in {b, update_mode_and_stat(b)}, c = Ended(Later(a, next))
      PROVE  /\ u.stat => t.stat \/ (StatLine(u.p) /\ ~StatLine(t.p))
             /\ t.p.dot + CLOCKS = DOTS_PER_LINE
             /\ u.p.dot = 0 /\ LineOver(t.p, u.p)
             /\ u.vblanks = IF u.p.ly = GB_LCD_HEIGHT THEN t.vblanks + 1 ELSE t.vblanks
  <2> DEFINE r == Later(a, next)
  <2>1. /\ Fields(t, a)
        /\ \/ a.stat = b.stat /\ a.p.stat_line = b.p.stat_line
           \/ a.stat = t.stat /\ a.p.stat_line = t.p.stat_line
    <3>1. CASE a = b
      BY <1>2, <1>5, <3>1 DEF SameRegs, SameBeam, SameRows
    <3>2. CASE a = t
      BY <1>5, <3>2 DEF SameRegs, SameBeam, SameRows
    <3> QED
      BY <1>2, <1>9, <3>1, <3>2
  <2>2. /\ r \in RunType /\ SameRegs(a.p, r.p) /\ SameRows(a.p, r.p) /\ r.p.ly = a.p.ly
        /\ r.p.dot = a.p.dot + CLOCKS /\ r.vblanks = a.vblanks
        /\ r.stat = a.stat /\ r.p.stat_line = a.p.stat_line
    BY <1>1, <2>1, LaterFields DEF SameRegs, SameRows
  <2> HIDE DEF r
  <2>3. a.p.dot = b.p.dot /\ t.p.dot = b.p.dot /\ r.p.dot = DOTS_PER_LINE
    BY <1>5, <1>9, <2>1, <2>2 DEF SameBeam
  <2>4. /\ LineOver(r.p, c.p) /\ c.p.dot = r.p.dot - DOTS_PER_LINE
        /\ c.vblanks = (IF c.p.ly = GB_LCD_HEIGHT THEN r.vblanks + 1 ELSE r.vblanks)
        /\ c.stat = r.stat /\ c.p.stat_line = r.p.stat_line
    <3>1. r.p.dot >= DOTS_PER_LINE /\ c = Ended(r)
      BY <1>9, <2>3, Sizes DEF r
    <3> QED
      BY <2>2, <3>1, EndedFields DEF LineOver
  <2>5. LineOver(t.p, u.p)
    <3>1. SameRegs(t.p, r.p) /\ SameRows(t.p, r.p) /\ r.p.ly = t.p.ly /\ u.p.ly = c.p.ly /\ SameRows(c.p, u.p)
      BY <1>6, <2>1, <2>2 DEF SameRegs, SameBeam, SameRows
    <3> QED
      BY <2>4, <3>1, SameOver
  <2>6. u.vblanks = IF u.p.ly = GB_LCD_HEIGHT THEN t.vblanks + 1 ELSE t.vblanks
    BY <1>6, <2>1, <2>2, <2>4 DEF SameBeam
  <2>7. u.p.dot = 0
    BY <1>6, <2>3, <2>4, Sizes DEF SameBeam
  <2>8. u.stat => t.stat \/ (StatLine(u.p) /\ ~StatLine(t.p))
    <3>1. u.stat = (a.stat \/ (StatLine(u.p) /\ ~a.p.stat_line))
      BY <1>6, <1>7, <2>2, <2>4
    <3> QED
      BY <1>5, <1>7, <2>1, <3>1
  <2> QED
    BY <1>9, <2>3, <2>5, <2>6, <2>7, <2>8
<1> QED
  BY <1>4, <1>8, <1>9 DEF t, u, next
-----------------------------------------------------------------------------
\* A unit that was brought up to date in this cycle.
LEMMA Settled ==
    ASSUME NEW q, AtTick(q)
    PROVE  LET t == ppu_tick(q, q.last_cycles) IN
           /\ Late(q, q.last_cycles) = 0 /\ t.vblanks = 0 /\ SameRows(q, t.p)
           /\ t.stat <=> q.lcdc.on /\ StatLine(q) /\ ~q.stat_line
           /\ q.lcdc.on => t.p.ly = q.ly /\ t.p.dot = q.dot
           /\ ~q.lcdc.on => t.p.ly = 0 /\ t.p.dot = 0
<1>1. CASE q.lcdc.on
  BY <1>1, AgainFields DEF SameBeam
<1>2. CASE ~q.lcdc.on
  <2>1. q \in PpuType /\ q.last_cycles \in 0..CYCLE_MOD - 1 /\ q.last_cycles - q.last_cycles = 0
    BY Sizes DEF AtTick, PpuType
  <2>2. CYCLE_MOD \in Nat \ {0} /\ 0 \in 0..(CYCLE_MOD - 1)
    BY Sizes
  <2>3. 0 % CYCLE_MOD = 0
    BY <2>2, SmallMod
  <2>4. Late(q, q.last_cycles) = 0
    BY <2>1, <2>3 DEF Late
  <2> QED
    BY <1>2, <2>1, <2>4, IdleFields
<1> QED
  BY <1>1, <1>2

\* The beam's level is the unit's.
LEMMA SameLevel ==
    ASSUME NEW q \in PpuType, NEW l, NEW d, l = q.ly, d = q.dot
    PROVE  LET mode == CASE l >= GB_LCD_HEIGHT -> 1
                         [] l < GB_LCD_HEIGHT /\ d \in 0..MODE2_DOTS - 1 -> 2
                         [] l < GB_LCD_HEIGHT /\ d \in MODE2_DOTS..MODE2_DOTS + MODE3_DOTS - 1 -> 3
                         [] OTHER -> 0
           IN  mode \in q.stat \/ (LYC_SOURCE \in q.stat /\ l = q.lyc) <=> StatLine(q)
<1> DEFINE mode == CASE l >= GB_LCD_HEIGHT -> 1
                     [] l < GB_LCD_HEIGHT /\ d \in 0..MODE2_DOTS - 1 -> 2
                     [] l < GB_LCD_HEIGHT /\ d \in MODE2_DOTS..MODE2_DOTS + MODE3_DOTS - 1 -> 3
                     [] OTHER -> 0
<1>1. q.ly \in Nat /\ q.dot \in Nat
  BY Sizes DEF PpuType
<1>2. mode = ModeAt(q)
  <2>1. CASE l >= GB_LCD_HEIGHT
    BY <2>1, <1>1, Sizes DEF ModeAt
  <2>2. CASE l < GB_LCD_HEIGHT /\ d < MODE2_DOTS
    BY <2>2, <1>1, Sizes DEF ModeAt
  <2>3. CASE l < GB_LCD_HEIGHT /\ ~(d < MODE2_DOTS) /\ d < MODE2_DOTS + MODE3_DOTS
    BY <2>3, <1>1, Sizes DEF ModeAt
  <2>4. CASE l < GB_LCD_HEIGHT /\ ~(d < MODE2_DOTS) /\ ~(d < MODE2_DOTS + MODE3_DOTS)
    BY <2>4, <1>1, Sizes DEF ModeAt
  <2> QED
    BY <2>1, <2>2, <2>3, <2>4, <1>1, Sizes
<1> HIDE DEF mode
<1>3. mode \in q.stat \/ (LYC_SOURCE \in q.stat /\ l = q.lyc) <=> StatLine(q)
  BY <1>2 DEF StatLine
<1> QED
  BY <1>3 DEF mode

\* What the invariant says of the tick to come and of the beam.
LEMMA Now ==
    ASSUME ScreenInv
    PROVE  LET t == ppu_tick(ppu, cycles) IN
           /\ InBounds(ppu, cycles) /\ ppu \in PpuType
           /\ t \in RunType /\ AtTick(t.p) /\ t.p.last_cycles = cycles /\ SameRegs(ppu, t.p)
           /\ t.p.stat_line <=> ppu.lcdc.on /\ StatLine(t.p)
           /\ ly = t.p.ly /\ dot = t.p.dot /\ row = t.p.win_line /\ reached = t.p.win_y_cond
           /\ picture = t.p.framebuffer
           /\ regs = [on |-> ppu.lcdc.on, window |-> ppu.lcdc.window, background |-> ppu.lcdc.background,
                      wx |-> ppu.wx, wy |-> ppu.wy, look |-> ppu.look]
           /\ Level <=> t.p.stat_line
           /\ t.stat => rose
           /\ ly \in 0..LINES_PER_FRAME - 1 /\ dot \in 0..DOTS_PER_LINE - 1 /\ row \in 0..ROW_MOD - 1
           /\ picture \in [Lines -> Line]
<1> DEFINE t == ppu_tick(ppu, cycles)
<1>1. /\ AtTick(ppu) /\ cycles \in 0..CYCLE_MOD - 1 /\ Late(ppu, cycles) <= spent /\ spent \in 0..FRAME + OVERRUN
      /\ ppu \in PpuType
  BY DEF ScreenInv, TypeOK, InTime, AtTick
<1>2. InBounds(ppu, cycles)
  BY <1>1, LateType, Sizes DEF InBounds
<1>3. /\ t \in RunType /\ AtTick(t.p) /\ t.p.last_cycles = cycles /\ SameRegs(ppu, t.p)
      /\ t.p.stat_line <=> ppu.lcdc.on /\ StatLine(t.p)
  BY <1>2, TickFields
<1>4. /\ ly = t.p.ly /\ dot = t.p.dot /\ row = t.p.win_line /\ reached = t.p.win_y_cond
      /\ picture = t.p.framebuffer
  BY DEF ScreenInv, AsIfDotByDot
<1>5. /\ regs = [on |-> ppu.lcdc.on, window |-> ppu.lcdc.window, background |-> ppu.lcdc.background,
                 wx |-> ppu.wx, wy |-> ppu.wy, look |-> ppu.look]
      /\ t.stat => rose
  BY DEF ScreenInv, SameRegisters, StatOwed
<1> HIDE DEF t
<1>6. Level <=> t.p.stat_line
  <2>1. t.p \in PpuType /\ t.p.stat = ppu.stat /\ t.p.lyc = ppu.lyc
    BY <1>3 DEF RunType, SameRegs
  <2>2. Level <=> regs.on /\ StatLine(t.p)
    BY <1>4, <2>1, SameLevel DEF Level, Beam!Level, Beam!Mode
  <2> QED
    BY <1>3, <1>5, <2>2
<1>7. /\ ly \in 0..LINES_PER_FRAME - 1 /\ dot \in 0..DOTS_PER_LINE - 1 /\ row \in 0..ROW_MOD - 1
      /\ picture \in [Lines -> Line]
  BY <1>3, <1>4, Sizes DEF AtTick, PpuType
<1> QED
  BY <1>1, <1>2, <1>3, <1>4, <1>5, <1>6, <1>7 DEF t

LEMMA SinceRange ==
    ASSUME NEW l \in 0..LINES_PER_FRAME - 1, NEW d \in 0..DOTS_PER_LINE - 1
    PROVE  SinceAt(l, d) \in 0..PICTURE - 1
<1> DEFINE x == IF l >= GB_LCD_HEIGHT THEN l - GB_LCD_HEIGHT ELSE l + LINES_PER_FRAME - GB_LCD_HEIGHT
           y == LINES_PER_FRAME - 1 - x
           v == DOTS_PER_LINE * x
           w == DOTS_PER_LINE * y
<1>1. x \in Nat /\ y \in Nat /\ LINES_PER_FRAME = x + y + 1 /\ d \in Nat /\ d < DOTS_PER_LINE
  BY Sizes
<1> HIDE DEF x, y
<1>2. v \in Nat /\ w \in Nat /\ PICTURE = v + w + DOTS_PER_LINE
  BY <1>1, Sizes DEF PICTURE
<1> HIDE DEF v, w
<1>3. d + v \in 0..PICTURE - 1
  BY <1>1, <1>2, Sizes
<1> QED
  BY <1>3 DEF v, x, SinceAt

LEMMA InitTick ==
    /\ AtTick(ppu_init) /\ ppu_init.last_cycles = 0 /\ ppu_init.lcdc.on /\ ~StatLine(ppu_init)
    /\ ppu_init.framebuffer = [line \in 0..GB_LCD_HEIGHT - 1 |-> [look |-> 0, row |-> NoWindow]]
<1> DEFINE fb == [line \in Lines |-> [look |-> 0, row |-> NoWindow]]
<1>1. fb \in [Lines -> Line]
  BY DEF Line, Row
<1>2. ppu_init \in PpuType
  <2>1. /\ 0 \in 0..LINES_PER_FRAME - 1 /\ 0 \in 0..CYCLE_MOD - 1 /\ 0 \in 0..ROW_MOD - 1 /\ 0 \in 0..3
        /\ [on |-> TRUE, window |-> FALSE, background |-> TRUE] \in [on : BOOLEAN, window : BOOLEAN, background : BOOLEAN]
        /\ {} \in SUBSET (0..LYC_SOURCE)
    BY Sizes
  <2> HIDE DEF fb
  <2> QED
    BY <1>1, <2>1 DEF ppu_init, PpuType, fb
<1>3. 0 % CLOCKS = 0 /\ 0 < DOTS_PER_LINE
  <2>1. CLOCKS \in Nat \ {0} /\ 0 \in 0..(CLOCKS - 1)
    BY Sizes
  <2> QED
    BY <2>1, Sizes, SmallMod
<1>4. ppu_init.dot = 0 /\ ppu_init.last_cycles = 0 /\ ppu_init.lcdc.on /\ ppu_init.stat = {}
      /\ ppu_init.framebuffer = fb
  BY DEF ppu_init
<1>5. ~StatLine(ppu_init)
  BY <1>4 DEF StatLine
<1> QED
  BY <1>2, <1>3, <1>4, <1>5 DEF AtTick, Lines

LEMMA InitInv == Init => ScreenInv
<1> SUFFICES ASSUME Init PROVE ScreenInv
  OBVIOUS
<1> DEFINE t == ppu_tick(ppu, cycles)
<1>1. /\ loc = "run" /\ spent = 0 /\ cycles = 0 /\ ppu = ppu_init /\ pictures = 0
      /\ lit = TRUE /\ whole = TRUE /\ rose = FALSE
      /\ regs = [on |-> TRUE, window |-> FALSE, background |-> TRUE, wx |-> TRUE, wy |-> 0, look |-> 0]
      /\ ly = 0 /\ dot = 0 /\ row = 0 /\ reached = FALSE
      /\ picture = [line \in 0..GB_LCD_HEIGHT - 1 |-> [look |-> 0, row |-> NoWindow]]
  BY DEF Init, Beam!Init
<1>2. /\ AtTick(ppu) /\ ppu.last_cycles = cycles /\ ppu.lcdc.on /\ ~StatLine(ppu) /\ picture = ppu.framebuffer
  BY <1>1, InitTick
<1>3. /\ Late(ppu, cycles) = 0 /\ t.vblanks = 0 /\ SameRows(ppu, t.p) /\ ~t.stat
      /\ t.p.ly = ppu.ly /\ t.p.dot = ppu.dot
  BY <1>2, Settled
<1>4. ppu.ly = 0 /\ ppu.dot = 0 /\ ppu.win_line = 0 /\ ppu.win_y_cond = FALSE
      /\ ppu.lcdc = [on |-> TRUE, window |-> FALSE, background |-> TRUE] /\ ppu.wx = TRUE /\ ppu.wy = 0 /\ ppu.look = 0
  BY <1>1 DEF ppu_init
<1> HIDE DEF t
<1>5. TypeOK
  <2>1. spent \in 0..FRAME + OVERRUN /\ cycles \in 0..CYCLE_MOD - 1 /\ pictures \in Nat /\ loc \in {"poll", "run"}
    BY <1>1, Sizes
  <2>2. rose \in BOOLEAN /\ lit \in BOOLEAN /\ whole \in BOOLEAN /\ game \in DOMAIN WRITES
    BY <1>1 DEF Init
  <2> QED
    BY <1>2, <2>1, <2>2, Zenon DEF TypeOK
<1>6. InTime
  BY <1>1, <1>3 DEF InTime
<1>7. SameRegisters
  <2>1. ppu.lcdc.on = TRUE /\ ppu.lcdc.window = FALSE /\ ppu.lcdc.background = TRUE
    BY <1>4
  <2> QED
    BY <1>1, <1>4, <2>1, Zenon DEF SameRegisters
<1>8. AsIfDotByDot
  BY <1>1, <1>2, <1>3, <1>4 DEF AsIfDotByDot, SameRows, t
<1>9. StatOwed
  BY <1>3 DEF StatOwed, t
<1>10. Paced
  <2>1. Total = 0
    BY <1>1, <1>3 DEF Total, t
  <2>2. Since \in 0..PICTURE - 1
    <3>1. ly \in 0..LINES_PER_FRAME - 1 /\ dot \in 0..DOTS_PER_LINE - 1
      BY <1>1, Sizes
    <3> QED
      BY <3>1, SinceRange DEF Since
  <2> DEFINE s == Since
  <2>3. PICTURE \in Int /\ CLOCKS \in Int /\ s \in 0..PICTURE - 1
    BY <2>2, Sizes DEF PICTURE
  <2> HIDE DEF s
  <2>4. s + (CLOCKS * spent) = s + (PICTURE * Total)
    BY <1>1, <2>1, <2>3
  <2> QED
    BY <1>1, <2>3, <2>4 DEF Paced, s
<1>11. RowsFollow
  <2>1. Showing(picture, ly) = {} /\ Showing(picture, ly) \cup {} = {}
    BY <1>1, Sizes DEF Showing, Lines
  <2>2. Follows(picture, ly, row, {})
    BY <1>1, <2>1, FS_EmptySet DEF Follows, InOrder
  <2> QED
    BY <1>1, <2>2 DEF RowsFollow
<1> QED
  BY <1>5, <1>6, <1>7, <1>8, <1>9, <1>10, <1>11 DEF ScreenInv

\* The unit is brought up to date, by a read or at the end of the frame.
LEMMA Refresh ==
    ASSUME ScreenInv, Update(ppu_tick(ppu, cycles)), rose' = FALSE,
           UNCHANGED <<game, spent, cycles, lit, whole, beam>>,
           loc' \in {"run", "poll"}, loc' = "poll" => spent >= FRAME
    PROVE  ScreenInv'
<1> DEFINE t == ppu_tick(ppu, cycles)
           u == ppu_tick(ppu', cycles')
<1>1. /\ InBounds(ppu, cycles)
      /\ t \in RunType /\ AtTick(t.p) /\ t.p.last_cycles = cycles /\ SameRegs(ppu, t.p)
      /\ t.p.stat_line <=> ppu.lcdc.on /\ StatLine(t.p)
      /\ ly = t.p.ly /\ dot = t.p.dot /\ row = t.p.win_line /\ reached = t.p.win_y_cond
      /\ picture = t.p.framebuffer
      /\ regs = [on |-> ppu.lcdc.on, window |-> ppu.lcdc.window, background |-> ppu.lcdc.background,
                 wx |-> ppu.wx, wy |-> ppu.wy, look |-> ppu.look]
  BY Now
<1>2. /\ ppu' = t.p /\ pictures' = pictures + t.vblanks /\ cycles' = cycles /\ spent' = spent /\ game' = game
      /\ lit' = lit /\ whole' = whole
      /\ regs' = regs /\ ly' = ly /\ dot' = dot /\ row' = row /\ reached' = reached /\ picture' = picture
  BY DEF Update, beam
<1>3. TypeOK /\ RowsFollow /\ Paced /\ InTime
  BY DEF ScreenInv
<1>4. ~ppu.lcdc.on => t.p.ly = 0 /\ t.p.dot = 0
  <2>1. ppu \in PpuType /\ cycles \in 0..CYCLE_MOD - 1
    BY <1>1 DEF InBounds, AtTick
  <2> QED
    BY <2>1, IdleFields
<1> HIDE DEF t
<1>5. AtTick(ppu') /\ ppu'.last_cycles = cycles'
  BY <1>1, <1>2
<1>6. /\ Late(ppu', cycles') = 0 /\ u.vblanks = 0 /\ SameRows(ppu', u.p)
      /\ u.stat <=> ppu'.lcdc.on /\ StatLine(ppu') /\ ~ppu'.stat_line
      /\ ppu'.lcdc.on => u.p.ly = ppu'.ly /\ u.p.dot = ppu'.dot
      /\ ~ppu'.lcdc.on => u.p.ly = 0 /\ u.p.dot = 0
  BY <1>5, Settled
<1> HIDE DEF u
<1>7. TypeOK'
  <2>1. pictures' \in Nat /\ loc' \in {"poll", "run"} /\ spent' \in 0..FRAME + OVERRUN /\ cycles' \in 0..CYCLE_MOD - 1
    BY <1>1, <1>2, <1>3 DEF TypeOK, RunType
  <2>2. rose' \in BOOLEAN /\ lit' \in BOOLEAN /\ whole' \in BOOLEAN /\ game' \in DOMAIN WRITES
    BY <1>2, <1>3 DEF TypeOK
  <2> QED
    BY <1>5, <2>1, <2>2, Zenon DEF TypeOK
<1>8. InTime'
  BY <1>2, <1>3, <1>5, <1>6 DEF InTime, TypeOK
<1>9. SameRegisters'
  BY <1>1, <1>2 DEF SameRegisters, SameRegs
<1>10. AsIfDotByDot'
  <2>1. u.p.ly = ly' /\ u.p.dot = dot'
    BY <1>1, <1>2, <1>4, <1>6 DEF SameRegs
  <2> QED
    BY <1>1, <1>2, <1>6, <2>1 DEF AsIfDotByDot, SameRows, u
<1>11. StatOwed'
  <2>1. ~u.stat
    BY <1>1, <1>2, <1>6 DEF SameRegs
  <2> QED
    BY <2>1 DEF StatOwed, u
<1>12. Total' = Total
  <2>1. Total' = pictures' + u.vblanks /\ pictures' \in Nat
    BY <1>7 DEF Total, TypeOK, u
  <2> QED
    BY <1>2, <1>6, <2>1 DEF Total, t
<1>13. Paced'
  BY <1>2, <1>3, <1>12 DEF Paced, Since
<1>14. RowsFollow'
  BY <1>2, <1>3 DEF RowsFollow
<1> QED
  BY <1>7, <1>8, <1>9, <1>10, <1>11, <1>13, <1>14 DEF ScreenInv

\* The frontend polls, and the next frame begins.
LEMMA Polled == ScreenInv /\ gb_run => ScreenInv'
<1> SUFFICES ASSUME ScreenInv, gb_run PROVE ScreenInv'
  OBVIOUS
<1> DEFINE t == ppu_tick(ppu, cycles)
<1>1. /\ loc = "poll" /\ loc' = "run" /\ spent' = 0 /\ pictures' = 0 /\ lit' = ppu.lcdc.on
      /\ game' = game /\ cycles' = cycles /\ ppu' = ppu /\ whole' = whole /\ rose' = rose
      /\ regs' = regs /\ ly' = ly /\ dot' = dot /\ row' = row /\ reached' = reached /\ picture' = picture
  BY DEF gb_run, beam
<1>2. /\ TypeOK /\ InTime /\ SameRegisters /\ AsIfDotByDot /\ StatOwed /\ RowsFollow
      /\ AtTick(ppu) /\ ppu.last_cycles = cycles
  BY <1>1 DEF ScreenInv, InTime, TypeOK
<1>3. Late(ppu, cycles) = 0 /\ t.vblanks = 0
  BY <1>2, Settled
<1>4. TypeOK'
  <2>1. ppu.lcdc.on \in BOOLEAN
    BY <1>2 DEF AtTick, PpuType
  <2>2. pictures' \in Nat /\ loc' \in {"poll", "run"} /\ spent' \in 0..FRAME + OVERRUN /\ cycles' \in 0..CYCLE_MOD - 1
    BY <1>1, <1>2, Sizes DEF TypeOK
  <2>3. rose' \in BOOLEAN /\ lit' \in BOOLEAN /\ whole' \in BOOLEAN /\ game' \in DOMAIN WRITES
    BY <1>1, <1>2, <2>1 DEF TypeOK
  <2> QED
    BY <1>1, <1>2, <2>2, <2>3, Zenon DEF TypeOK
<1>5. InTime'
  BY <1>1, <1>2, <1>3 DEF InTime
<1>6. SameRegisters' /\ AsIfDotByDot' /\ StatOwed' /\ RowsFollow'
  BY <1>1, <1>2 DEF SameRegisters, AsIfDotByDot, StatOwed, RowsFollow
<1>7. Paced'
  <2>1. Total' = 0
    BY <1>1, <1>3 DEF Total
  <2>2. Since' = Since /\ regs'.on = ppu.lcdc.on
    BY <1>1, <1>2 DEF Since, SameRegisters
  <2>3. Since \in 0..PICTURE - 1
    <3>1. ly \in 0..LINES_PER_FRAME - 1 /\ dot \in 0..DOTS_PER_LINE - 1
      BY Now
    <3> QED
      BY <3>1, SinceRange DEF Since
  <2> DEFINE s == Since
  <2>4. s \in Int /\ PICTURE \in Int /\ CLOCKS \in Int
    BY <2>3, Sizes DEF PICTURE
  <2> HIDE DEF s
  <2>5. s + (CLOCKS * spent') = s + (PICTURE * Total')
    BY <1>1, <2>1, <2>4
  <2> QED
    BY <1>1, <2>2, <2>3, <2>5 DEF Paced, s
<1> QED
  BY <1>4, <1>5, <1>6, <1>7 DEF ScreenInv

LEMMA Stutters == ScreenInv /\ UNCHANGED vars => ScreenInv'
BY DEF ScreenInv, TypeOK, InTime, SameRegisters, AsIfDotByDot, StatOwed, Paced, RowsFollow,
       Total, Since, vars, beam
-----------------------------------------------------------------------------
LEMMA SetFields ==
    ASSUME NEW p \in PpuType, NEW kind \in DOMAIN WRITES, NEW w \in WRITES[kind]
    PROVE  LET q == set_register(p, w[1], w[2]) IN
           q \in PpuType /\ q.last_cycles = p.last_cycles /\ SameBeam(p, q) /\ q.stat_line = p.stat_line
<1> DEFINE q == set_register(p, w[1], w[2])
           Set(x) == x \in PpuType /\ x.last_cycles = p.last_cycles /\ SameBeam(p, x) /\ x.stat_line = p.stat_line
<1>1. \/ w[1] = "LCDC" /\ w[2] \in [on : BOOLEAN, window : BOOLEAN, background : BOOLEAN]
      \/ w[1] = "STAT" /\ w[2] \in SUBSET (0..LYC_SOURCE)
      \/ w[1] = "WX" /\ w[2] \in BOOLEAN
      \/ w[1] \in {"LYC", "WY", "look"} /\ w[2] \in Nat
  BY ScreenAssumption
<1>2. CASE w[1] = "LCDC" /\ w[2] \in [on : BOOLEAN, window : BOOLEAN, background : BOOLEAN]
  <2>1. q = [p EXCEPT !.lcdc = w[2]]
    BY <1>2 DEF set_register
  <2> HIDE DEF q
  <2>2. Set(q)
    BY <1>2, <2>1 DEF PpuType, SameBeam, SameRows
  <2> QED
    BY <2>2 DEF q
<1>3. CASE w[1] = "STAT" /\ w[2] \in SUBSET (0..LYC_SOURCE)
  <2>1. q = [p EXCEPT !.stat = w[2]]
    BY <1>3 DEF set_register
  <2> HIDE DEF q
  <2>2. Set(q)
    BY <1>3, <2>1 DEF PpuType, SameBeam, SameRows
  <2> QED
    BY <2>2 DEF q
<1>4. CASE w[1] = "WX" /\ w[2] \in BOOLEAN
  <2>1. q = [p EXCEPT !.wx = w[2]]
    BY <1>4 DEF set_register
  <2> HIDE DEF q
  <2>2. Set(q)
    BY <1>4, <2>1 DEF PpuType, SameBeam, SameRows
  <2> QED
    BY <2>2 DEF q
<1>5. CASE w[1] \in {"LYC", "WY", "look"} /\ w[2] \in Nat
  <2>1. q = [p EXCEPT !.lyc = w[2]] \/ q = [p EXCEPT !.wy = w[2]] \/ q = [p EXCEPT !.look = w[2]]
    BY <1>5 DEF set_register
  <2> HIDE DEF q
  <2>2. Set(q)
    BY <1>5, <2>1 DEF PpuType, SameBeam, SameRows
  <2> QED
    BY <2>2 DEF q
<1> QED
  BY <1>1, <1>2, <1>3, <1>4, <1>5

\* The game writes a register.
LEMMA Written ==
    ASSUME ScreenInv, NEW w \in WRITES[game], write_ppu(w[1], w[2])
    PROVE  ScreenInv'
<1> DEFINE t == ppu_tick(ppu, cycles)
           s == set_register(t.p, w[1], w[2])
           u == ppu_tick(ppu', cycles')
           v == [on |-> ppu'.lcdc.on, window |-> ppu'.lcdc.window, background |-> ppu'.lcdc.background,
                wx |-> ppu'.wx, wy |-> ppu'.wy, look |-> ppu'.look]
<1>1. /\ InBounds(ppu, cycles)
      /\ t \in RunType /\ AtTick(t.p) /\ t.p.last_cycles = cycles /\ SameRegs(ppu, t.p)
      /\ ly = t.p.ly /\ dot = t.p.dot /\ row = t.p.win_line /\ reached = t.p.win_y_cond
      /\ picture = t.p.framebuffer
      /\ Level <=> t.p.stat_line
  BY Now
<1>2. TypeOK /\ RowsFollow /\ Paced /\ InTime
  BY DEF ScreenInv
<1>3. s \in PpuType /\ s.last_cycles = t.p.last_cycles /\ SameBeam(t.p, s) /\ s.stat_line = t.p.stat_line
  BY <1>1, <1>2, SetFields DEF TypeOK, RunType
<1>4. ppu_write(ppu, cycles, w[1], w[2]) = [t EXCEPT !.p = s]
  BY DEF ppu_write
<1>5. /\ loc = "run" /\ Update(ppu_write(ppu, cycles, w[1], w[2]))
      /\ lit' = (lit /\ ppu'.lcdc.on) /\ whole' = (whole /\ ppu'.lcdc.on)
      /\ rose' = (Level' /\ ~Level)
      /\ game' = game /\ loc' = loc /\ spent' = spent /\ cycles' = cycles
  BY DEF write_ppu
<1>6. /\ regs' = v /\ v.on = ppu'.lcdc.on
      /\ v.on => ly' = ly /\ dot' = dot
      /\ ~v.on => ly' = 0 /\ dot' = 0
      /\ row' = row /\ reached' = reached /\ picture' = picture
  BY DEF write_ppu, Beam!Write
<1> HIDE DEF t, s
<1>7. ppu' = s /\ pictures' = pictures + t.vblanks
  BY <1>1, <1>4, <1>5 DEF Update, RunType
<1>8. AtTick(ppu') /\ ppu'.last_cycles = cycles'
  BY <1>1, <1>3, <1>5, <1>7 DEF AtTick, SameBeam
<1>9. /\ Late(ppu', cycles') = 0 /\ u.vblanks = 0 /\ SameRows(ppu', u.p)
      /\ u.stat <=> ppu'.lcdc.on /\ StatLine(ppu') /\ ~ppu'.stat_line
      /\ ppu'.lcdc.on => u.p.ly = ppu'.ly /\ u.p.dot = ppu'.dot
      /\ ~ppu'.lcdc.on => u.p.ly = 0 /\ u.p.dot = 0
  BY <1>8, Settled
<1> HIDE DEF u
<1>10. ppu'.lcdc.on \in BOOLEAN
  BY <1>3, <1>7 DEF PpuType
<1>11. TypeOK'
  <2>1. pictures' \in Nat /\ loc' \in {"poll", "run"} /\ spent' \in 0..FRAME + OVERRUN /\ cycles' \in 0..CYCLE_MOD - 1
    BY <1>1, <1>2, <1>5, <1>7 DEF TypeOK, RunType
  <2>2. lit' \in BOOLEAN /\ whole' \in BOOLEAN /\ game' \in DOMAIN WRITES
    BY <1>2, <1>5 DEF TypeOK
  <2>3. rose' \in BOOLEAN
    BY <1>5
  <2> QED
    BY <1>8, <2>1, <2>2, <2>3, Zenon DEF TypeOK
<1>12. InTime'
  BY <1>2, <1>5, <1>8, <1>9 DEF InTime, TypeOK
<1>13. SameRegisters'
  BY <1>6 DEF SameRegisters
<1>14. AsIfDotByDot'
  <2>1. u.p.ly = ly' /\ u.p.dot = dot'
    <3>1. CASE ppu'.lcdc.on
      BY <1>1, <1>3, <1>6, <1>7, <1>9, <3>1 DEF SameBeam
    <3>2. CASE ~ppu'.lcdc.on
      BY <1>6, <1>9, <3>2
    <3> QED
      BY <3>1, <3>2
  <2>2. u.p.win_line = row' /\ u.p.win_y_cond = reached' /\ u.p.framebuffer = picture'
    <3>1. SameRows(t.p, s) /\ SameRows(s, u.p)
      BY <1>3, <1>7, <1>9 DEF SameBeam
    <3> QED
      BY <1>1, <1>6, <3>1, Zenon DEF SameRows
  <2> QED
    BY <2>1, <2>2, Zenon DEF AsIfDotByDot, u
<1>15. StatOwed'
  <2> SUFFICES ASSUME u.stat PROVE rose'
    BY DEF StatOwed, u
  <2>1. ppu'.lcdc.on /\ StatLine(ppu') /\ ~Level /\ regs'.on
    <3>1. ppu'.lcdc.on /\ StatLine(ppu') /\ ~ppu'.stat_line
      BY <1>9, Zenon
    <3>2. ppu'.stat_line <=> Level
      BY <1>1, <1>3, <1>7, Zenon
    <3>3. regs'.on = ppu'.lcdc.on
      BY <1>6
    <3> QED
      BY <3>1, <3>2, <3>3, Zenon
  <2>2. ly' = ppu'.ly /\ dot' = ppu'.dot /\ ppu' \in PpuType
    BY <1>1, <1>3, <1>6, <1>7, <2>1 DEF SameBeam
  <2>3. Level' <=> regs'.on /\ StatLine(ppu')
    BY <2>2, SameLevel DEF Level, Beam!Level, Beam!Mode
  <2> QED
    BY <1>5, <2>1, <2>3
<1>16. Paced'
  <2> SUFFICES ASSUME lit' PROVE Paced'
    BY DEF Paced
  <2>1. lit /\ ppu'.lcdc.on /\ regs'.on /\ Since' = Since
    BY <1>5, <1>6 DEF Since
  <2>2. Total' = Total
    <3>1. Total' = pictures' + u.vblanks /\ pictures' \in Nat
      BY <1>11 DEF Total, TypeOK, u
    <3> QED
      BY <1>7, <1>9, <3>1 DEF Total, t
  <2> QED
    BY <1>2, <1>5, <2>1, <2>2 DEF Paced
<1>17. RowsFollow'
  <2> SUFFICES ASSUME whole' PROVE RowsFollow'
    BY DEF RowsFollow
  <2>1. whole /\ ppu'.lcdc.on /\ regs'.on /\ ly' = ly
    BY <1>5, <1>6
  <2> QED
    BY <1>2, <1>6, <2>1 DEF RowsFollow
<1> QED
  BY <1>11, <1>12, <1>13, <1>14, <1>15, <1>16, <1>17 DEF ScreenInv
-----------------------------------------------------------------------------
\* A cycle, in dots since VBlank: line l and dot d, then l2 and d2.
Moves(l, d, l2, d2) ==
    \/ d + CLOCKS < DOTS_PER_LINE /\ d2 = d + CLOCKS /\ l2 = l
    \/ d + CLOCKS = DOTS_PER_LINE /\ d2 = 0 /\ l2 = IF l + 1 < LINES_PER_FRAME THEN l + 1 ELSE 0
EntersVBlank(d, l2) == d + CLOCKS = DOTS_PER_LINE /\ l2 = GB_LCD_HEIGHT

LEMMA SinceCycle ==
    ASSUME NEW l \in 0..LINES_PER_FRAME - 1, NEW d \in 0..DOTS_PER_LINE - 1, NEW l2, NEW d2,
           Moves(l, d, l2, d2)
    PROVE  /\ SinceAt(l, d) \in Nat /\ SinceAt(l2, d2) \in Nat
           /\ IF EntersVBlank(d, l2) THEN SinceAt(l, d) + CLOCKS = SinceAt(l2, d2) + PICTURE
              ELSE SinceAt(l, d) + CLOCKS = SinceAt(l2, d2)
<1> DEFINE Past(i) == IF i >= GB_LCD_HEIGHT THEN i - GB_LCD_HEIGHT ELSE i + LINES_PER_FRAME - GB_LCD_HEIGHT
           x == Past(l)
           y == Past(l2)
           v == DOTS_PER_LINE * x
           w == DOTS_PER_LINE * y
<1>1. SinceAt(l, d) = d + v /\ SinceAt(l2, d2) = d2 + w
  BY DEF SinceAt
<1>2. x \in Nat /\ l2 \in 0..LINES_PER_FRAME - 1 /\ y \in Nat
  BY Sizes DEF Moves
<1>3. CASE d + CLOCKS < DOTS_PER_LINE /\ d2 = d + CLOCKS /\ l2 = l
  <2>1. v = w /\ v \in Nat /\ d \in Nat
    BY <1>2, <1>3, Sizes
  <2> HIDE DEF v, w
  <2>2. ~EntersVBlank(d, l2)
    BY <1>3, <2>1, Sizes DEF EntersVBlank
  <2> QED
    BY <1>1, <1>3, <2>1, <2>2, Sizes
<1>4. CASE d + CLOCKS = DOTS_PER_LINE /\ d2 = 0 /\ l2 = IF l + 1 < LINES_PER_FRAME THEN l + 1 ELSE 0
  <2>1. CASE l2 = GB_LCD_HEIGHT
    <3>1. x = LINES_PER_FRAME - 1 /\ y = 0
      BY <1>4, <2>1, Sizes
    <3> HIDE DEF x, y
    <3>2. v + DOTS_PER_LINE = PICTURE /\ w = 0 /\ v \in Nat
      BY <1>2, <3>1, Sizes DEF PICTURE
    <3> HIDE DEF v, w
    <3> QED
      BY <1>1, <1>4, <2>1, <3>2, Sizes DEF EntersVBlank
  <2>2. CASE l2 # GB_LCD_HEIGHT
    <3>1. y = x + 1
      BY <1>4, <2>2, Sizes
    <3> HIDE DEF x, y
    <3>2. w = v + DOTS_PER_LINE /\ v \in Nat
      BY <1>2, <3>1, Sizes
    <3> HIDE DEF v, w
    <3> QED
      BY <1>1, <1>4, <2>2, <3>2, Sizes DEF EntersVBlank
  <2> QED
    BY <2>1, <2>2
<1> QED
  BY <1>3, <1>4 DEF Moves

\* One more line is drawn, with row r of the window, without the window, or blank.
LEMMA RowsNext ==
    ASSUME NEW pic \in [Lines -> Line], NEW l \in Lines, NEW r \in 0..ROW_MOD - 1,
           NEW shown \in BOOLEAN, NEW background \in BOOLEAN,
           NEW drawn, drawn.row = RowDrawn(background, shown, r),
           NEW P \in SUBSET LeftBlank(pic, l), Follows(pic, l, r, P)
    PROVE  LET pic2 == [pic EXCEPT ![l] = drawn] IN
           \E Q \in SUBSET LeftBlank(pic2, l + 1) :
              Follows(pic2, l + 1, IF shown THEN (r + 1) % ROW_MOD ELSE r, Q)
<1> DEFINE pic2 == [pic EXCEPT ![l] = drawn]
           Q == IF shown /\ ~background THEN P \cup {l} ELSE P
           A == Showing(pic, l)
           B == Showing(pic2, l + 1)
           C == A \cup P
           D == B \cup Q
<1>1. l \in Nat /\ l < GB_LCD_HEIGHT /\ Lines \subseteq Nat
  BY Sizes DEF Lines
<1>2. pic2[l] = drawn /\ \A line \in Lines : line # l => pic2[line] = pic[line]
  OBVIOUS
<1>3. r \notin {NoWindow, Blank} /\ NoWindow # Blank
  BY Sizes DEF NoWindow, Blank
<1>4. \A line \in Lines : line < l + 1 <=> line < l \/ line = l
  BY <1>1
<1>5. B = IF shown /\ background THEN A \cup {l} ELSE A
  <2> HIDE DEF pic2
  <2>1. ASSUME NEW line \in Lines PROVE line \in B <=> line \in A \/ (shown /\ background /\ line = l)
    BY <1>1, <1>2, <1>3, <1>4 DEF Showing, RowDrawn
  <2>2. A \subseteq Lines /\ B \subseteq Lines /\ l \in Lines
    BY DEF Showing
  <2> HIDE DEF A, B
  <2> QED
    BY <2>1, <2>2
<1>11. Q \in SUBSET LeftBlank(pic2, l + 1)
  <2> HIDE DEF pic2
  <2>1. ASSUME NEW line \in P PROVE line \in LeftBlank(pic2, l + 1)
    <3>1. line \in Lines /\ line < l /\ pic[line].row = Blank
      BY <2>1 DEF LeftBlank
    <3>2. line # l /\ line < l + 1
      BY <1>1, <3>1
    <3> QED
      BY <1>2, <3>1, <3>2 DEF LeftBlank
  <2>2. shown /\ ~background => l \in LeftBlank(pic2, l + 1)
    BY <1>1, <1>2 DEF LeftBlank, RowDrawn
  <2> QED
    BY <2>1, <2>2
<1>12. D = IF shown THEN C \cup {l} ELSE C
  <2> HIDE DEF A, B
  <2> QED
    BY <1>5
<1>13. /\ r = Cardinality(C)
       /\ \A line \in A : pic[line].row = Cardinality({above \in C : above < line})
  BY <1>1 DEF Follows, InOrder
<1>6. C \subseteq 0..l - 1 /\ l \notin C /\ A \subseteq C
  <2>1. \A line \in C : line \in Nat /\ line < l
    BY <1>1 DEF Showing, LeftBlank
  <2> HIDE DEF A
  <2>2. A \subseteq C
    OBVIOUS
  <2> HIDE DEF C
  <2> QED
    BY <1>1, <2>1, <2>2
<1> HIDE DEF C, D
<1>7. IsFiniteSet(C) /\ Cardinality(C) \in Nat /\ Cardinality(C) <= l
  <2>1. 0 \in Int /\ l - 1 \in Int
    BY <1>1
  <2>2. IsFiniteSet(0..l - 1) /\ Cardinality(0..l - 1) = l
    <3>1. IsFiniteSet(0..l - 1) /\ Cardinality(0..l - 1) = IF 0 > l - 1 THEN 0 ELSE (l - 1) - 0 + 1
      BY <2>1, FS_Interval
    <3> QED
      BY <1>1, <3>1
  <2>3. IsFiniteSet(C) /\ Cardinality(C) <= Cardinality(0..l - 1)
    BY <1>6, <2>2, FS_Subset
  <2>4. Cardinality(C) \in Nat
    BY <2>3, FS_CardinalityType
  <2> QED
    BY <2>2, <2>3, <2>4
<1>8. Cardinality(C \cup {l}) = Cardinality(C) + 1
  BY <1>6, <1>7, FS_AddElement
<1>9. ASSUME NEW line \in B PROVE pic2[line].row = Cardinality({above \in D : above < line})
  <2> DEFINE Above(S) == {above \in S : above < line}
  <2>1. line \in Lines /\ line < l + 1
    BY DEF Showing
  <2> HIDE DEF pic2
  <2>2. CASE line # l
    <3>1. line \in A /\ line < l /\ pic2[line] = pic[line]
      BY <1>2, <1>4, <1>5, <2>1, <2>2 DEF Showing
    <3>2. ~(l < line)
      <4>1. line \in Nat
        BY <1>1, <2>1
      <4> HIDE DEF A, B, Q
      <4> QED
        BY <1>1, <3>1, <4>1
    <3>3. Above(D) = Above(C)
      <4>1. \A above \in D : above \in C \/ above = l
        BY <1>12
      <4>2. C \subseteq D
        BY <1>12
      <4> QED
        BY <3>2, <4>1, <4>2
    <3>4. pic[line].row = Cardinality(Above(C))
      BY <3>1, <1>13
    <3> QED
      BY <3>1, <3>3, <3>4
  <2>3. CASE line = l
    <3>1. shown /\ background
      BY <1>5, <1>6, <2>3
    <3>2. pic2[line].row = r
      BY <1>2, <2>3, <3>1 DEF RowDrawn
    <3>3. ~(l < l) /\ \A above \in C : above < l
      BY <1>1, <1>6
    <3>4. Above(D) = C
      BY <1>12, <2>3, <3>1, <3>3
    <3> QED
      BY <1>13, <3>2, <3>4
  <2> QED
    BY <2>2, <2>3
<1>10. ASSUME l + 1 < GB_LCD_HEIGHT
       PROVE  (IF shown THEN (r + 1) % ROW_MOD ELSE r) = Cardinality(D)
  <2>1. CASE shown
    <3>1. r = Cardinality(C) /\ Cardinality(D) = r + 1
      BY <1>8, <1>12, <1>13, <2>1
    <3> DEFINE more == r + 1
    <3>2. more \in 0..(ROW_MOD - 1) /\ ROW_MOD \in Nat \ {0}
      BY <1>1, <1>7, <1>10, <3>1, Sizes
    <3> HIDE DEF more
    <3>3. more % ROW_MOD = more
      BY <3>2, SmallMod
    <3> QED
      BY <2>1, <3>1, <3>3 DEF more
  <2>2. CASE ~shown
    BY <1>12, <1>13, <2>2
  <2> QED
    BY <2>1, <2>2
<1>14. Follows(pic2, l + 1, IF shown THEN (r + 1) % ROW_MOD ELSE r, Q)
  BY <1>9, <1>10 DEF Follows, InOrder, D
<1> HIDE DEF pic2, Q
<1> QED
  BY <1>11, <1>14 DEF pic2
-----------------------------------------------------------------------------
\* A machine cycle passes, for the unit and for the beam.
LEMMA CycleSeen ==
    ASSUME ScreenInv, Cycle
    PROVE  LET t == ppu_tick(ppu, cycles)
               u == ppu_tick(ppu', cycles')
           IN  /\ ppu' = ppu /\ cycles' \in 0..CYCLE_MOD - 1 /\ Late(ppu', cycles') <= spent'
               /\ regs' = regs /\ regs.on = ppu.lcdc.on
               /\ AsIfDotByDot'
               /\ Level' <=> ppu.lcdc.on /\ StatLine(u.p)
               /\ u.stat => t.stat \/ (ppu.lcdc.on /\ StatLine(u.p) /\ ~StatLine(t.p))
               /\ ~regs.on => u.vblanks = 0 /\ t.vblanks = 0 /\ UNCHANGED beam
               /\ regs.on =>
                    \/ /\ dot + CLOCKS < DOTS_PER_LINE /\ dot' = dot + CLOCKS
                       /\ ly' = ly /\ row' = row /\ picture' = picture
                       /\ u.vblanks = t.vblanks
                    \/ /\ dot + CLOCKS = DOTS_PER_LINE /\ dot' = 0
                       /\ LineOver(t.p, u.p)
                       /\ ly' = u.p.ly /\ row' = u.p.win_line /\ picture' = u.p.framebuffer
                       /\ u.vblanks = IF ly' = GB_LCD_HEIGHT THEN t.vblanks + 1 ELSE t.vblanks
<1> DEFINE t == ppu_tick(ppu, cycles)
           next == (cycles + 1) % CYCLE_MOD
           u == ppu_tick(ppu, next)
<1>1. /\ InBounds(ppu, cycles) /\ ppu \in PpuType
      /\ t \in RunType /\ AtTick(t.p) /\ t.p.last_cycles = cycles /\ SameRegs(ppu, t.p)
      /\ ly = t.p.ly /\ dot = t.p.dot /\ row = t.p.win_line /\ reached = t.p.win_y_cond
      /\ picture = t.p.framebuffer
      /\ regs = [on |-> ppu.lcdc.on, window |-> ppu.lcdc.window, background |-> ppu.lcdc.background,
                 wx |-> ppu.wx, wy |-> ppu.wy, look |-> ppu.look]
      /\ ly \in 0..LINES_PER_FRAME - 1 /\ dot \in 0..DOTS_PER_LINE - 1
  BY Now
<1>2. /\ spent < FRAME + OVERRUN /\ spent' = spent + 1 /\ cycles' = next /\ ppu' = ppu
      /\ \/ Beam!MCycle
         \/ ~regs.on /\ UNCHANGED beam
  BY DEF Cycle
<1>3. spent \in 0..FRAME + OVERRUN /\ Late(ppu, cycles) <= spent
  BY DEF ScreenInv, TypeOK, InTime
<1>4. Late(ppu, cycles) \in Nat /\ Late(ppu, cycles) < FRAME + OVERRUN
  BY <1>1, <1>2, <1>3, LateType, Sizes DEF InBounds
<1>5. next \in 0..CYCLE_MOD - 1 /\ Late(ppu, next) = Late(ppu, cycles) + 1 /\ InBounds(ppu, next)
  BY <1>1, <1>4, NextLate
<1>6. u \in RunType /\ SameRegs(ppu, u.p)
  BY <1>5, TickFields
<1>7. ppu' = ppu /\ cycles' \in 0..CYCLE_MOD - 1 /\ Late(ppu', cycles') <= spent'
  BY <1>2, <1>3, <1>4, <1>5, Sizes
<1>8. regs.on = ppu.lcdc.on
  BY <1>1
<1>9. ppu_tick(ppu', cycles') = u
  BY <1>2
<1> DEFINE Good == /\ AsIfDotByDot' /\ regs' = regs
                   /\ u.stat => t.stat \/ (ppu.lcdc.on /\ StatLine(u.p) /\ ~StatLine(t.p))
                   /\ ~regs.on => u.vblanks = 0 /\ t.vblanks = 0 /\ UNCHANGED beam
                   /\ regs.on =>
                        \/ /\ dot + CLOCKS < DOTS_PER_LINE /\ dot' = dot + CLOCKS
                           /\ ly' = ly /\ row' = row /\ picture' = picture
                           /\ u.vblanks = t.vblanks
                        \/ /\ dot + CLOCKS = DOTS_PER_LINE /\ dot' = 0
                           /\ LineOver(t.p, u.p)
                           /\ ly' = u.p.ly /\ row' = u.p.win_line /\ picture' = u.p.framebuffer
                           /\ u.vblanks = IF ly' = GB_LCD_HEIGHT THEN t.vblanks + 1 ELSE t.vblanks
           Matches == /\ ly' = u.p.ly /\ dot' = u.p.dot /\ row' = u.p.win_line
                      /\ reached' = u.p.win_y_cond /\ picture' = u.p.framebuffer
<1>10. Matches => AsIfDotByDot'
  <2> HIDE DEF u
  <2> QED
    BY <1>9 DEF AsIfDotByDot
<1>11. ASSUME ~regs.on PROVE Good
  <2>1. UNCHANGED beam /\ regs' = regs
    BY <1>2, <1>11 DEF Beam!MCycle, beam
  <2>2. cycles \in 0..CYCLE_MOD - 1 /\ ~ppu.lcdc.on
    BY <1>1, <1>8, <1>11 DEF InBounds
  <2>3. SameRows(ppu, t.p) /\ t.p.ly = 0 /\ t.p.dot = 0 /\ t.vblanks = 0
    BY <1>1, <2>2, IdleFields
  <2>4. SameRows(ppu, u.p) /\ u.p.ly = 0 /\ u.p.dot = 0 /\ u.vblanks = 0 /\ ~u.stat
    BY <1>1, <1>5, <2>2, IdleFields
  <2> HIDE DEF u, t
  <2>5. Matches
    BY <1>1, <2>1, <2>3, <2>4, Zenon DEF beam, SameRows
  <2> QED
    BY <1>10, <1>11, <2>1, <2>3, <2>4, <2>5
<1>12. ASSUME regs.on PROVE Good
  <2>1. /\ u.stat => t.stat \/ (StatLine(u.p) /\ ~StatLine(t.p))
        /\ \/ /\ t.p.dot + CLOCKS < DOTS_PER_LINE
              /\ u.p.dot = t.p.dot + CLOCKS /\ u.p.ly = t.p.ly /\ SameRows(t.p, u.p)
              /\ u.vblanks = t.vblanks
           \/ /\ t.p.dot + CLOCKS = DOTS_PER_LINE
              /\ u.p.dot = 0 /\ LineOver(t.p, u.p)
              /\ u.vblanks = IF u.p.ly = GB_LCD_HEIGHT THEN t.vblanks + 1 ELSE t.vblanks
    <3>1. ppu.lcdc.on
      BY <1>8, <1>12
    <3> QED
      BY <1>1, <1>4, <3>1, CycleFields
  <2> HIDE DEF u, t
  <2>2. /\ regs' = regs
        /\ IF dot + CLOCKS < DOTS_PER_LINE THEN dot' = dot + CLOCKS /\ UNCHANGED <<ly, row, reached, picture>>
           ELSE Beam!EndOfLine
    BY <1>2, <1>12 DEF Beam!MCycle
  <2>3. CASE /\ t.p.dot + CLOCKS < DOTS_PER_LINE
             /\ u.p.dot = t.p.dot + CLOCKS /\ u.p.ly = t.p.ly /\ SameRows(t.p, u.p)
             /\ u.vblanks = t.vblanks
    <3>1. dot + CLOCKS < DOTS_PER_LINE /\ dot' = dot + CLOCKS /\ UNCHANGED <<ly, row, reached, picture>>
      BY <1>1, <2>2, <2>3
    <3>2. Matches
      BY <1>1, <2>3, <3>1, Zenon DEF SameRows
    <3>3. regs' = regs /\ ppu.lcdc.on
      BY <1>8, <1>12, <2>2
    <3> HIDE DEF Matches
    <3> QED
      BY <1>10, <1>12, <2>1, <2>3, <3>1, <3>2, <3>3
  <2>4. CASE /\ t.p.dot + CLOCKS = DOTS_PER_LINE
             /\ u.p.dot = 0 /\ LineOver(t.p, u.p)
             /\ u.vblanks = IF u.p.ly = GB_LCD_HEIGHT THEN t.vblanks + 1 ELSE t.vblanks
    <3>1. dot + CLOCKS = DOTS_PER_LINE /\ Beam!EndOfLine
      <4>1. dot + CLOCKS = DOTS_PER_LINE /\ ~(dot + CLOCKS < DOTS_PER_LINE)
        BY <1>1, <2>4, Sizes
      <4> QED
        BY <2>2, <4>1
    <3>2. /\ t.p.wy = regs.wy /\ t.p.lcdc.window = regs.window /\ t.p.wx = regs.wx /\ t.p.look = regs.look
          /\ t.p.lcdc.background = regs.background
      BY <1>1 DEF SameRegs
    <3>3. Matches
      <4>1. CASE ly < GB_LCD_HEIGHT
        <5>1. ly + 1 < LINES_PER_FRAME /\ t.p.ly < GB_LCD_HEIGHT /\ t.p.ly = ly
              /\ ~(ly \in GB_LCD_HEIGHT..LINES_PER_FRAME - 2) /\ ly # LINES_PER_FRAME - 1
          BY <1>1, <4>1, Sizes
        <5>2. dot' = 0 /\ ly' = ly + 1 /\ Beam!DrawLine
          BY <3>1, <5>1 DEF Beam!EndOfLine
        <5> DEFINE begun == reached \/ ly = regs.wy
                   shown == begun /\ regs.window /\ regs.wx
        <5>3. /\ reached' = begun
              /\ picture' = [picture EXCEPT ![ly] = [look |-> regs.look, row |-> RowDrawn(regs.background, shown, row)]]
              /\ row' = IF shown THEN (row + 1) % ROW_MOD ELSE row
          BY <5>2 DEF Beam!DrawLine, RowDrawn
        <5> DEFINE start == t.p.win_y_cond \/ t.p.ly = t.p.wy
                   draws == start /\ t.p.lcdc.window /\ t.p.wx
        <5>4. /\ u.p.ly = t.p.ly + 1
              /\ u.p.framebuffer = [t.p.framebuffer EXCEPT ![t.p.ly] =
                      [look |-> t.p.look, row |-> RowDrawn(t.p.lcdc.background, draws, t.p.win_line)]]
              /\ u.p.win_y_cond = start
              /\ u.p.win_line = IF draws THEN (t.p.win_line + 1) % ROW_MOD ELSE t.p.win_line
          BY <2>4, <5>1 DEF LineOver
        <5>5. t.p.win_y_cond = reached /\ t.p.ly = ly /\ t.p.framebuffer = picture /\ t.p.win_line = row
          BY <1>1
        <5>6. start = begun /\ draws = shown
          BY <3>2, <5>5
        <5> HIDE DEF begun, shown, start, draws
        <5>7. dot' = u.p.dot
          BY <2>4, <5>2
        <5> QED
          BY <3>2, <5>2, <5>3, <5>4, <5>5, <5>6, <5>7
      <4>2. CASE ~(ly < GB_LCD_HEIGHT) /\ ly + 1 < LINES_PER_FRAME
        <5>1. ~(t.p.ly < GB_LCD_HEIGHT) /\ t.p.ly + 1 < LINES_PER_FRAME /\ ly # LINES_PER_FRAME - 1
          BY <1>1, <4>2, Sizes
        <5>2. dot' = 0 /\ ly' = ly + 1 /\ UNCHANGED <<row, reached, picture>>
          BY <3>1, <4>2, <5>1 DEF Beam!EndOfLine
        <5>3. /\ u.p.ly = t.p.ly + 1 /\ u.p.framebuffer = t.p.framebuffer
              /\ u.p.win_y_cond = t.p.win_y_cond /\ u.p.win_line = t.p.win_line
          BY <2>4, <5>1 DEF LineOver
        <5>4. dot' = u.p.dot
          BY <2>4, <5>2
        <5> QED
          BY <1>1, <5>2, <5>3, <5>4, Zenon
      <4>3. CASE ~(ly < GB_LCD_HEIGHT) /\ ~(ly + 1 < LINES_PER_FRAME)
        <5>1. ~(t.p.ly < GB_LCD_HEIGHT) /\ ~(t.p.ly + 1 < LINES_PER_FRAME)
              /\ ~(ly \in GB_LCD_HEIGHT..LINES_PER_FRAME - 2)
          BY <1>1, <4>3, Sizes
        <5>2. dot' = 0 /\ ly' = 0 /\ row' = 0 /\ reached' = FALSE /\ UNCHANGED picture
          BY <3>1, <4>3, <5>1 DEF Beam!EndOfLine
        <5>3. /\ u.p.ly = 0 /\ u.p.framebuffer = t.p.framebuffer
              /\ u.p.win_y_cond = FALSE /\ u.p.win_line = 0
          BY <2>4, <5>1 DEF LineOver
        <5>4. dot' = u.p.dot
          BY <2>4, <5>2
        <5> QED
          BY <1>1, <5>2, <5>3, <5>4, Zenon
      <4> QED
        BY <4>1, <4>2, <4>3
    <3>4. AsIfDotByDot' /\ dot' = 0 /\ ly' = u.p.ly /\ row' = u.p.win_line /\ picture' = u.p.framebuffer
      BY <1>10, <2>4, <3>3
    <3>5. regs' = regs /\ ppu.lcdc.on
      BY <1>8, <1>12, <2>2
    <3> QED
      BY <1>12, <2>1, <2>4, <3>1, <3>4, <3>5
  <2> QED
    BY <2>1, <2>3, <2>4
<1>13. Good
  BY <1>11, <1>12
<1>14. Level' <=> ppu.lcdc.on /\ StatLine(u.p)
  <2> HIDE DEF u
  <2>1. AsIfDotByDot' /\ regs' = regs
    BY <1>13
  <2>2. ly' = u.p.ly /\ dot' = u.p.dot
    BY <1>9, <2>1 DEF AsIfDotByDot
  <2>3. u.p \in PpuType /\ u.p.stat = ppu'.stat /\ u.p.lyc = ppu'.lyc
    BY <1>6, <1>7 DEF RunType, SameRegs
  <2>4. Level' <=> regs'.on /\ StatLine(u.p)
    BY <2>2, <2>3, SameLevel DEF Level, Beam!Level, Beam!Mode
  <2> QED
    BY <1>8, <2>1, <2>4, Zenon
<1> HIDE DEF u, t
<1> QED
  BY <1>7, <1>8, <1>9, <1>13, <1>14 DEF t

LEMMA Cycled == ScreenInv /\ Cycle => ScreenInv'
<1> SUFFICES ASSUME ScreenInv, Cycle PROVE ScreenInv'
  OBVIOUS
<1> DEFINE t == ppu_tick(ppu, cycles)
           u == ppu_tick(ppu', cycles')
<1>1. /\ t \in RunType /\ SameRegs(ppu, t.p)
      /\ t.p.stat_line <=> ppu.lcdc.on /\ StatLine(t.p)
      /\ ly = t.p.ly /\ dot = t.p.dot /\ row = t.p.win_line /\ reached = t.p.win_y_cond
      /\ picture = t.p.framebuffer
      /\ regs = [on |-> ppu.lcdc.on, window |-> ppu.lcdc.window, background |-> ppu.lcdc.background,
                 wx |-> ppu.wx, wy |-> ppu.wy, look |-> ppu.look]
      /\ Level <=> t.p.stat_line
      /\ t.stat => rose
      /\ ly \in 0..LINES_PER_FRAME - 1 /\ dot \in 0..DOTS_PER_LINE - 1 /\ row \in 0..ROW_MOD - 1
      /\ picture \in [Lines -> Line]
  BY Now
<1>2. /\ loc = "run" /\ spent < FRAME + OVERRUN /\ spent' = spent + 1 /\ loc' = loc /\ game' = game
      /\ ppu' = ppu /\ pictures' = pictures /\ lit' = lit
      /\ rose' = (rose \/ (Level' /\ ~Level))
      /\ whole' = (whole \/ (regs.on /\ ly' = 0 /\ dot' = 0))
  BY DEF Cycle
<1>3. /\ cycles' \in 0..CYCLE_MOD - 1 /\ Late(ppu', cycles') <= spent'
      /\ regs' = regs /\ regs.on = ppu.lcdc.on
      /\ AsIfDotByDot'
      /\ Level' <=> ppu.lcdc.on /\ StatLine(u.p)
      /\ u.stat => t.stat \/ (ppu.lcdc.on /\ StatLine(u.p) /\ ~StatLine(t.p))
      /\ ~regs.on => u.vblanks = 0 /\ t.vblanks = 0 /\ UNCHANGED beam
      /\ regs.on =>
           \/ /\ dot + CLOCKS < DOTS_PER_LINE /\ dot' = dot + CLOCKS
              /\ ly' = ly /\ row' = row /\ picture' = picture
              /\ u.vblanks = t.vblanks
           \/ /\ dot + CLOCKS = DOTS_PER_LINE /\ dot' = 0
              /\ LineOver(t.p, u.p)
              /\ ly' = u.p.ly /\ row' = u.p.win_line /\ picture' = u.p.framebuffer
              /\ u.vblanks = IF ly' = GB_LCD_HEIGHT THEN t.vblanks + 1 ELSE t.vblanks
  BY CycleSeen
<1>4. TypeOK /\ InTime /\ Paced /\ RowsFollow
  BY DEF ScreenInv
<1>5. Total = pictures + t.vblanks /\ Total' = pictures' + u.vblanks
  BY DEF Total
<1> HIDE DEF t, u
<1>6. TypeOK'
  <2>1. pictures' \in Nat /\ loc' \in {"poll", "run"} /\ spent' \in 0..FRAME + OVERRUN
    BY <1>2, <1>4, Sizes DEF TypeOK
  <2>2. rose' \in BOOLEAN /\ whole' \in BOOLEAN
    BY <1>2
  <2>3. lit' \in BOOLEAN /\ game' \in DOMAIN WRITES /\ AtTick(ppu')
    BY <1>2, <1>4, Zenon DEF TypeOK
  <2> QED
    BY <1>3, <2>1, <2>2, <2>3, Zenon DEF TypeOK
<1>7. InTime'
  BY <1>2, <1>3 DEF InTime
<1>8. SameRegisters'
  BY <1>1, <1>2, <1>3 DEF SameRegisters
<1>9. StatOwed'
  <2> SUFFICES ASSUME u.stat PROVE rose'
    BY DEF StatOwed, u
  <2>1. CASE t.stat
    <3>1. rose
      BY <1>1, <2>1, Zenon
    <3> QED
      BY <1>2, <3>1
  <2>2. CASE ppu.lcdc.on /\ StatLine(u.p) /\ ~StatLine(t.p)
    <3>1. Level' /\ ~Level
      BY <1>1, <1>3, <2>2, Zenon
    <3> QED
      BY <1>2, <3>1
  <2> QED
    BY <1>3, <2>1, <2>2, Zenon
<1>10. Paced'
  <2> SUFFICES ASSUME lit PROVE Paced'
    BY <1>2 DEF Paced
  <2>1. /\ regs.on /\ regs'.on
        /\ \E start \in 0..PICTURE - 1 : start + (CLOCKS * spent) = Since + (PICTURE * Total)
    BY <1>3, <1>4 DEF Paced
  <2>2. PICK start \in 0..PICTURE - 1 : start + (CLOCKS * spent) = Since + (PICTURE * Total)
    BY <2>1
  <2>3. Moves(ly, dot, ly', dot')
    BY <1>1, <1>3, <2>1 DEF LineOver, Moves
  <2> DEFINE total == Total
             since == Since
             after == SinceAt(ly', dot')
             c == CLOCKS * spent
             last == EntersVBlank(dot, ly')
  <2>4. ly \in 0..LINES_PER_FRAME - 1 /\ dot \in 0..DOTS_PER_LINE - 1
    BY <1>1
  <2>5. since \in Nat /\ after \in Nat /\ since + CLOCKS = IF last THEN after + PICTURE ELSE after
    BY <2>3, <2>4, SinceCycle DEF Since
  <2>6. total \in Nat /\ Total' = IF last THEN total + 1 ELSE total
    <3>1. t.vblanks \in Nat /\ pictures \in Nat
      BY <1>1, <1>4 DEF RunType, TypeOK
    <3>2. u.vblanks = IF last THEN t.vblanks + 1 ELSE t.vblanks
      <4>1. CASE dot + CLOCKS < DOTS_PER_LINE
        <5>1. dot + CLOCKS # DOTS_PER_LINE
          BY <1>1, <4>1, Sizes
        <5> QED
          BY <1>3, <2>1, <5>1 DEF EntersVBlank
      <4>2. CASE dot + CLOCKS = DOTS_PER_LINE
        <5>1. ~(dot + CLOCKS < DOTS_PER_LINE)
          BY <1>1, <4>2, Sizes
        <5> QED
          BY <1>3, <2>1, <4>2, <5>1 DEF EntersVBlank
      <4> QED
        BY <2>3, <4>1, <4>2 DEF Moves
    <3> HIDE DEF last
    <3> QED
      BY <1>2, <1>5, <3>1, <3>2
  <2>7. c \in Nat /\ CLOCKS * spent' = c + CLOCKS /\ PICTURE \in Nat /\ start \in Nat
    <3>1. spent \in Nat
      BY <1>4, Sizes DEF TypeOK
    <3> QED
      BY <1>2, <3>1, Sizes DEF PICTURE
  <2>8. start + c = since + (PICTURE * total)
    BY <2>2
  <2>9. start + (CLOCKS * spent') = after + (PICTURE * Total')
    <3> DEFINE x == PICTURE * total
    <3>1. start + c = since + x
      BY <2>8
    <3> HIDE DEF total, since, after, c, last
    <3>2. x \in Nat /\ PICTURE * (total + 1) = x + PICTURE
      BY <2>6, <2>7
    <3>3. x \in Int /\ c \in Int /\ start \in Int /\ since \in Int /\ after \in Int /\ CLOCKS \in Int /\ PICTURE \in Int
      BY <2>5, <2>7, <3>2, Sizes
    <3>4. PICTURE * Total' = IF last THEN x + PICTURE ELSE x
      BY <2>6, <3>2
    <3> HIDE DEF x
    <3>5. start + (c + CLOCKS) = after + IF last THEN x + PICTURE ELSE x
      <4>1. CASE last
        BY <2>5, <3>1, <3>3, <4>1
      <4>2. CASE ~last
        BY <2>5, <3>1, <3>3, <4>2
      <4> QED
        BY <4>1, <4>2
    <3> QED
      BY <2>7, <3>4, <3>5
  <2>10. Since' = after
    BY DEF Since
  <2> HIDE DEF after
  <2> QED
    BY <1>2, <2>1, <2>9, <2>10 DEF Paced
<1>11. RowsFollow'
  <2> SUFFICES ASSUME whole'
               PROVE  /\ regs'.on
                      /\ \E P \in SUBSET LeftBlank(picture', ly') : Follows(picture', ly', row', P)
    BY DEF RowsFollow
  <2>1. ASSUME ly' = 0, row' = 0, regs.on
        PROVE  /\ regs'.on
               /\ \E P \in SUBSET LeftBlank(picture', ly') : Follows(picture', ly', row', P)
    <3>1. Showing(picture', ly') = {} /\ Showing(picture', ly') \cup {} = {}
      BY <2>1, Sizes DEF Showing, Lines
    <3>2. Follows(picture', ly', row', {})
      BY <2>1, <3>1, FS_EmptySet DEF Follows, InOrder
    <3> QED
      BY <1>3, <2>1, <3>2
  <2>2. CASE regs.on /\ dot + CLOCKS < DOTS_PER_LINE
    <3>1. dot' = dot + CLOCKS /\ ly' = ly /\ row' = row /\ picture' = picture
      <4>1. dot + CLOCKS # DOTS_PER_LINE
        BY <1>1, <2>2, Sizes
      <4> QED
        BY <1>3, <2>2, <4>1
    <3>2. dot' # 0
      BY <1>1, <3>1, Sizes
    <3>3. whole
      BY <1>2, <3>2
    <3> QED
      BY <1>3, <1>4, <3>1, <3>3 DEF RowsFollow
  <2>3. CASE regs.on /\ dot + CLOCKS = DOTS_PER_LINE
    <3>1. dot' = 0 /\ LineOver(t.p, u.p) /\ ly' = u.p.ly /\ row' = u.p.win_line /\ picture' = u.p.framebuffer
      <4>1. ~(dot + CLOCKS < DOTS_PER_LINE)
        BY <1>1, <2>3, Sizes
      <4> QED
        BY <1>3, <2>3, <4>1
    <3> DEFINE begun == t.p.win_y_cond \/ t.p.ly = t.p.wy
               shown == begun /\ t.p.lcdc.window /\ t.p.wx
               drawn == [look |-> t.p.look, row |-> RowDrawn(t.p.lcdc.background, shown, row)]
    <3>2. /\ ly' = IF ly + 1 < LINES_PER_FRAME THEN ly + 1 ELSE 0
          /\ ly < GB_LCD_HEIGHT =>
               /\ picture' = [picture EXCEPT ![ly] = drawn]
               /\ row' = IF shown THEN (row + 1) % ROW_MOD ELSE row
          /\ ~(ly < GB_LCD_HEIGHT) =>
               /\ picture' = picture
               /\ row' = IF ly + 1 < LINES_PER_FRAME THEN row ELSE 0
      BY <1>1, <3>1 DEF LineOver
    <3>3. shown \in BOOLEAN /\ drawn.row = RowDrawn(t.p.lcdc.background, shown, row)
      OBVIOUS
    <3>7. t.p.lcdc.background \in BOOLEAN
      BY <1>1 DEF RunType, PpuType
    <3> HIDE DEF drawn, shown, begun
    <3>4. CASE ly < GB_LCD_HEIGHT
      <4>1. ly' = ly + 1 /\ ly' # 0 /\ ly \in Lines
        BY <1>1, <3>2, <3>4, Sizes DEF Lines
      <4>2. whole
        BY <1>2, <4>1
      <4>3. PICK P \in SUBSET LeftBlank(picture, ly) : Follows(picture, ly, row, P)
        BY <1>4, <4>2 DEF RowsFollow
      <4>4. \E Q \in SUBSET LeftBlank([picture EXCEPT ![ly] = drawn], ly + 1) :
               Follows([picture EXCEPT ![ly] = drawn], ly + 1, IF shown THEN (row + 1) % ROW_MOD ELSE row, Q)
        BY <1>1, <3>3, <3>7, <4>1, <4>3, RowsNext
      <4>5. ly' = ly + 1 /\ picture' = [picture EXCEPT ![ly] = drawn]
            /\ row' = IF shown THEN (row + 1) % ROW_MOD ELSE row
        BY <3>2, <3>4, <4>1
      <4>6. regs'.on
        BY <1>3, <2>3
      <4> QED
        BY <4>4, <4>5, <4>6
    <3>5. CASE ~(ly < GB_LCD_HEIGHT) /\ ly + 1 < LINES_PER_FRAME
      <4>1. ly' = ly + 1 /\ ly' # 0 /\ ~(ly' < GB_LCD_HEIGHT) /\ picture' = picture
        BY <1>1, <3>2, <3>5, Sizes
      <4>2. whole
        BY <1>2, <4>1
      <4>3. Showing(picture, ly') = Showing(picture, ly) /\ LeftBlank(picture, ly') = LeftBlank(picture, ly)
        <5>1. \A line \in Lines : line < ly /\ line < ly + 1
          BY <1>1, <3>5, Sizes DEF Lines
        <5> QED
          BY <4>1, <5>1 DEF Showing, LeftBlank
      <4>4. PICK P \in SUBSET LeftBlank(picture, ly) : Follows(picture, ly, row, P)
        BY <1>4, <4>2 DEF RowsFollow
      <4>5. Follows(picture', ly', row', P)
        BY <4>1, <4>3, <4>4 DEF Follows
      <4> QED
        BY <1>3, <2>3, <4>1, <4>3, <4>5
    <3>6. CASE ~(ly < GB_LCD_HEIGHT) /\ ~(ly + 1 < LINES_PER_FRAME)
      <4>1. ly' = 0 /\ row' = 0
        BY <3>2, <3>6
      <4> QED
        BY <2>1, <2>3, <4>1
    <3> QED
      BY <3>4, <3>5, <3>6
  <2>4. CASE ~regs.on
    <3>1. whole
      BY <1>2, <2>4
    <3> QED
      BY <1>4, <2>4, <3>1 DEF RowsFollow
  <2> QED
    BY <1>3, <2>2, <2>3, <2>4
<1> QED
  BY <1>3, <1>6, <1>7, <1>8, <1>9, <1>10, <1>11 DEF ScreenInv
-----------------------------------------------------------------------------
LEMMA StepInv == ScreenInv /\ [Next]_vars => ScreenInv'
<1> SUFFICES ASSUME ScreenInv, [Next]_vars PROVE ScreenInv'
  OBVIOUS
<1>1. CASE Cycle
  BY <1>1, Cycled
<1>2. CASE ppu_read
  <2>1. loc = "run" /\ loc' = loc
    BY <1>2 DEF ppu_read
  <2>2. /\ Update(ppu_tick(ppu, cycles)) /\ rose' = FALSE
        /\ UNCHANGED <<game, spent, cycles, lit, whole, beam>>
    BY <1>2 DEF ppu_read
  <2>3. loc' \in {"run", "poll"} /\ loc' # "poll"
    BY <2>1
  <2> QED
    BY <2>2, <2>3, Refresh
<1>3. CASE \E w \in WRITES[game] : write_ppu(w[1], w[2])
  BY <1>3, Written
<1>4. CASE gb_step
  <2>1. /\ Update(ppu_tick(ppu, cycles)) /\ rose' = FALSE
        /\ UNCHANGED <<game, spent, cycles, lit, whole, beam>>
        /\ loc' \in {"run", "poll"} /\ spent >= FRAME
    BY <1>4 DEF gb_step
  <2> QED
    BY <2>1, Refresh
<1>5. CASE gb_run
  BY <1>5, Polled
<1>6. CASE UNCHANGED vars
  BY <1>6, Stutters
<1> QED
  BY <1>1, <1>2, <1>3, <1>4, <1>5, <1>6 DEF Next

\* The late unit, the beam and what they owe each other, in every reachable state
\* (ppu_tick and ppu_write against a unit that moves with every cycle).
THEOREM ScreenInvariant == Spec => []ScreenInv
BY InitInv, StepInv, PTL DEF Spec

\* Brought up to date at any cycle, the unit shows what a beam shows that is never late:
\* AsIfDotByDot, for every geometry (ppu_tick's loop over the lines to catch up).
THEOREM DotByDot == Spec => []AsIfDotByDot
<1>1. ScreenInv => AsIfDotByDot
  BY DEF ScreenInv
<1> QED
  BY <1>1, ScreenInvariant, PTL

\* The frontend gets one or two pictures in every frame in which the LCD stays on:
\* PictureEveryFrame (the budget of gb_step against the lines of ppu_tick).
THEOREM PicturesCome == Spec => []PictureEveryFrame
<1>1. ScreenInv => PictureEveryFrame
  <2> SUFFICES ASSUME ScreenInv, loc = "poll", lit PROVE pictures \in {1, 2}
    BY DEF PictureEveryFrame
  <2>1. TypeOK /\ InTime /\ Paced
    BY DEF ScreenInv
  <2>2. AtTick(ppu) /\ ppu.last_cycles = cycles /\ spent >= FRAME /\ spent \in 0..FRAME + OVERRUN /\ pictures \in Nat
    BY <2>1 DEF TypeOK, InTime
  <2>3. ppu_tick(ppu, cycles).vblanks = 0
    BY <2>2, Settled
  <2>4. Total = pictures
    BY <2>2, <2>3 DEF Total
  <2>5. PICK start \in 0..PICTURE - 1 : start + (CLOCKS * spent) = Since + (PICTURE * pictures)
    BY <2>1, <2>4 DEF Paced
  <2>6. ly \in 0..LINES_PER_FRAME - 1 /\ dot \in 0..DOTS_PER_LINE - 1
    BY Now
  <2>7. Since \in 0..PICTURE - 1
    BY <2>6, SinceRange DEF Since
  <2>8. CLOCKS * FRAME = PICTURE /\ PICTURE \in Nat \ {0}
    <3>1. DOTS_PER_LINE * LINES_PER_FRAME > 0
      BY Sizes
    <3> QED
      BY <3>1, ScreenAssumption, Sizes DEF PICTURE
  <2> DEFINE since == Since
             more == spent - FRAME
             c == CLOCKS * more
             n == pictures
  <2>9. more \in Nat /\ more <= FRAME /\ spent = FRAME + more
    BY <2>2, Sizes
  <2> HIDE DEF more, since
  <2>10. c \in Nat /\ c <= PICTURE /\ CLOCKS * spent = PICTURE + c
    <3> DEFINE less == FRAME - more
    <3>1. less \in Nat /\ FRAME = more + less
      BY <2>9, Sizes
    <3> HIDE DEF less
    <3>2. CLOCKS * less \in Nat /\ c \in Nat /\ CLOCKS * FRAME = c + CLOCKS * less
      BY <2>9, <3>1, Sizes
    <3>3. CLOCKS * spent = CLOCKS * FRAME + c
      BY <2>9, Sizes
    <3> QED
      BY <2>8, <3>2, <3>3
  <2> HIDE DEF c
  <2>11. start + PICTURE + c = since + (PICTURE * n)
    <3>1. start + (CLOCKS * spent) = since + (PICTURE * n)
      BY <2>5 DEF since
    <3> QED
      BY <2>8, <2>10, <3>1
  <2>12. since \in Nat /\ since < PICTURE /\ start \in Nat /\ start < PICTURE /\ n \in Nat
    BY <2>2, <2>7, <2>8 DEF since
  <2> HIDE DEF n
  <2>13. n # 0
    <3> SUFFICES ASSUME n = 0 PROVE FALSE
      OBVIOUS
    <3>1. PICTURE * n = 0
      BY <2>8
    <3> QED
      BY <2>8, <2>10, <2>11, <2>12, <3>1
  <2>14. n < 3
    <3> SUFFICES ASSUME n >= 3 PROVE FALSE
      BY <2>12
    <3> DEFINE k == n - 3
    <3>1. k \in Nat /\ n = k + 3
      BY <2>12
    <3> HIDE DEF k
    <3>2. PICTURE * n = PICTURE * k + PICTURE + PICTURE + PICTURE /\ PICTURE * k \in Nat
      BY <2>8, <3>1
    <3> QED
      BY <2>8, <2>10, <2>11, <2>12, <3>2
  <2> QED
    BY <2>12, <2>13, <2>14 DEF n
<1> QED
  BY <1>1, ScreenInvariant, PTL

\* In every picture that is whole, the rows of the window follow one another, and none is
\* passed over but for a line that bit 0 of LCDC left blank: WindowRows (win_line in
\* ppu_tick).
THEOREM RowsInOrder == Spec => []WindowRows
<1>1. ScreenInv => WindowRows
  <2> SUFFICES ASSUME ScreenInv, whole PROVE WindowRows
    BY DEF WindowRows
  <2>1. ly = ppu_tick(ppu, cycles).p.ly /\ picture = ppu_tick(ppu, cycles).p.framebuffer
    BY Now
  <2>2. PICK P \in SUBSET LeftBlank(picture, ly) : InOrder(picture, Showing(picture, ly), Showing(picture, ly) \cup P)
    BY DEF ScreenInv, RowsFollow, Follows
  <2> QED
    BY <2>1, <2>2 DEF WindowRows, InOrder, Showing, LeftBlank
<1> QED
  BY <1>1, ScreenInvariant, PTL

\* A tick requests INT_STAT only if the interrupt's line has risen since the tick before:
\* StatSound (update_mode_and_stat, once per line and once per tick).
THEOREM StatNeverMadeUp == Spec => StatSound
<1>1. ScreenInv => (ppu' # ppu /\ ppu_tick(ppu, cycles).stat => rose)
  BY DEF ScreenInv, StatOwed
<1> QED
  BY <1>1, ScreenInvariant, PTL DEF StatSound
=============================================================================
