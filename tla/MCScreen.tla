------------------------------ MODULE MCScreen ------------------------------
(* A screen of three lines and one of VBlank, of three dots each, one in each mode; a
   frame of twelve machine cycles and one of overrun.  Some games use the window, some
   turn the background off under it, some use the LCD switch too, some the STAT interrupt,
   some the registers that only affect how a line looks. *)
EXTENDS Screen

Lcdc(On, Window, Background) ==
    {<<"LCDC", [on |-> b, window |-> w, background |-> bg]>> : b \in On, w \in Window, bg \in Background}
const_WRITES ==
    [window |-> Lcdc({TRUE}, BOOLEAN, {TRUE}) \cup ({"WY"} \X {1, 9}) \cup ({"WX"} \X BOOLEAN),
     blank  |-> Lcdc({TRUE}, {TRUE}, BOOLEAN) \cup ({"WX"} \X BOOLEAN),
     switch |-> Lcdc(BOOLEAN, {TRUE}, {TRUE}) \cup ({"WY"} \X {1}),
     stat   |-> Lcdc(BOOLEAN, {FALSE}, {TRUE}) \cup ({"STAT"} \X {{}, {0}, {2, LYC_SOURCE}, {0, 1}})
                \cup ({"LYC"} \X {0, 2}),
     look   |-> Lcdc(BOOLEAN, {FALSE}, {TRUE}) \cup ({"look"} \X {0, 1})]

\* Only how long ago the last tick was matters of the two counters.
View == <<game, loc, spent, (cycles - ppu.last_cycles) % CYCLE_MOD, [ppu EXCEPT !.last_cycles = 0],
          pictures, lit, whole, beam, rose>>
==============================================================================
