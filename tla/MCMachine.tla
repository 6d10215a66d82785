----------------------------- MODULE MCMachine -----------------------------
(***************************************************************************)
(* Machine on ROMs of eight bytes and all the ways to recompile a part of  *)
(* them: any set of block starts whose blocks keep the contract.           *)
(***************************************************************************)
EXTENDS Machine

Op(type, len, cost, taken, imm) ==
    [type |-> type, len |-> len, cycles |-> cost, extra |-> taken, imm |-> imm]

NOP == Op("NOP", 1, 1, 0, 0)
NONE == Op("UNKNOWN", 0, 0, 0, 0)

\* A ROM from its instructions: the bytes behind the first of each are not
\* instructions, so that a jump there runs undefined opcodes.
ROMS == {
    \* EI; RST 5; JR 0 | handler at 5: LDH (n),A; RETI
    [a \in Rom |-> CASE a = 0 -> Op("EI", 1, 1, 0, 0)
                     [] a = 1 -> Op("RST_N", 1, 2, 0, 5)
                     [] a = 2 -> Op("JR_E", 2, 1, 0, -4)
                     [] a = 4 -> NOP
                     [] a = 5 -> Op("LDH_N_A", 2, 1, 0, 0)
                     [] a = 7 -> Op("RETI", 1, 1, 0, 0)
                     [] OTHER -> NONE],
    \* LDH (n),A; CALL NZ,5; | NOP; RET NZ; EI, and off the end of the ROM
    [a \in Rom |-> CASE a = 0 -> Op("LDH_N_A", 2, 1, 0, 0)
                     [] a = 2 -> Op("CALL_CC_NN", 3, 1, 1, 5)
                     [] a = 5 -> NOP
                     [] a = 6 -> Op("RET_CC", 1, 1, 1, 0)
                     [] a = 7 -> Op("EI", 1, 1, 0, 0)
                     [] OTHER -> NONE],
    \* PUSH; POP; JP NZ,0; DI; JP (HL)
    [a \in Rom |-> CASE a = 0 -> Op("PUSH_R16", 1, 2, 0, 0)
                     [] a = 1 -> Op("LDH_A_N", 2, 1, 0, 0)
                     [] a = 3 -> Op("JP_CC_NN", 3, 1, 1, 0)
                     [] a = 6 -> Op("DI", 1, 1, 0, 0)
                     [] a = 7 -> Op("JP_HL", 1, 1, 0, 0)
                     [] OTHER -> NONE],
    \* LD SP,HL; CALL 5; RET | EI; JR NZ,4, and off the end
    [a \in Rom |-> CASE a = 0 -> Op("LD_SP_HL", 1, 1, 0, 0)
                     [] a = 1 -> Op("CALL_NN", 3, 2, 0, 5)
                     [] a = 4 -> Op("RET", 1, 1, 0, 0)
                     [] a = 5 -> Op("EI", 1, 1, 0, 0)
                     [] a = 6 -> Op("JR_CC_E", 2, 1, 1, -4)
                     [] OTHER -> NONE],
    \* LDH (n),A; JP 4 | POP; EI; and off the end of the ROM into RAM
    [a \in Rom |-> CASE a = 0 -> Op("LDH_N_A", 1, 1, 0, 0)
                     [] a = 1 -> Op("JP_NN", 3, 2, 0, 4)
                     [] a = 4 -> Op("EI", 1, 1, 0, 0)
                     [] a = 5 -> Op("POP_R16", 1, 1, 0, 0)
                     [] a = 6 -> NOP
                     [] a = 7 -> NOP
                     [] OTHER -> NONE]}

\* The block at s: up to a terminator, the next start, or what does not decode.
Block(code, starts, s) ==
    LET next(a) == a + code[a].len
        Extends(a) == ~IsBlockTerminator(code[a]) /\ next(a) < ROM_END
                      /\ next(a) \notin starts /\ code[next(a)].type # "UNKNOWN"
        Run[a \in Rom] == {a} \cup IF Extends(a) THEN Run[next(a)] ELSE {}
        instrs == Run[s]
        last == Max(instrs)
    IN  [instrs |-> instrs, last |-> last,
         succ |-> IF ~IsBlockTerminator(code[last]) /\ next(last) < ROM_END THEN <<next(last)>> ELSE <<>>]

Compilations(code) ==
    {[code |-> code, blocks |-> [s \in starts |-> Block(code, starts, s)]] :
        starts \in SUBSET {a \in Rom : code[a].type # "UNKNOWN"} \ {{}}}

MCImages == UNION {Compilations(code) : code \in ROMS}

\* A ROM in which nothing decodes gives a program without a block.
NoBlock == [code |-> [a \in Rom |-> NONE], blocks |-> [s \in {} |-> NONE]]
MCAllImages == MCImages \cup {NoBlock}
MCVectors == [i \in Line |-> IF i = 0 THEN 5 ELSE 4]
MCRamInstructions == {Op("JP_NN", 3, 2, 0, 0), NOP}

\* The longest of these blocks costs five cycles; with a counter of five bits, two frames with as much
\* overrun do not wrap it.
ASSUME CounterIsWideEnough == CYCLE_MOD = 32 => Roomy(5)
=============================================================================
