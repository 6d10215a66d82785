------------------------------ MODULE Emulated ------------------------------
(***************************************************************************)
(* What the fallback interpreter does to the machine (emulator.c): one     *)
(* turn of its loop after the block-start, budget and interrupt checks, as *)
(* an operator from machines to machines (see Bus).  pc stands for p.      *)
(*                                                                         *)
(* Interpreter says which operation a case of the switch is and which      *)
(* registers it names; here is what the operation does, and in which order *)
(* it adds cycles and accesses memory.                                     *)
(***************************************************************************)
EXTENDS Interpreter, Bus, Bits

spend(m, n) == [m EXCEPT !.cycles = @ + n]
skip(m, n)  == [m EXCEPT !.pc = Trunc16(@ + n)]
set_reg8(m, r, val) == [m EXCEPT !.reg[r] = val]
set_flags(m, z, n, h, c) == [m EXCEPT !.flag = [Z |-> z, N |-> n, H |-> h, C |-> c]]

get_bc(m) == Join(m.reg["B"], m.reg["C"])
get_de(m) == Join(m.reg["D"], m.reg["E"])
get_hl(m) == Join(m.reg["H"], m.reg["L"])
\* F, of which only the high four bits exist.
get_f(m)  == Or(Or(Or(IF m.flag.Z THEN 128 ELSE 0, IF m.flag.N THEN 64 ELSE 0),
                   IF m.flag.H THEN 32 ELSE 0), IF m.flag.C THEN 16 ELSE 0)
get_af(m) == Join(m.reg["A"], get_f(m))
get16(m, r) == CASE r = "BC" -> get_bc(m) [] r = "DE" -> get_de(m) [] r = "HL" -> get_hl(m)
                 [] r = "AF" -> get_af(m) [] r = "SP" -> m.sp

\* Mutant: POP AF takes H and C from the wrong bits.
set16_low_flags(m, r, w) ==
    CASE r = "BC" -> [m EXCEPT !.reg["B"] = High(w), !.reg["C"] = Low(w)]
      [] r = "DE" -> [m EXCEPT !.reg["D"] = High(w), !.reg["E"] = Low(w)]
      [] r = "HL" -> [m EXCEPT !.reg["H"] = High(w), !.reg["L"] = Low(w)]
      [] r = "SP" -> [m EXCEPT !.sp = w]
      [] r = "AF" -> set_flags([m EXCEPT !.reg["A"] = High(w)],
                               And(w, 128) # 0, And(w, 64) # 0, And(w, 16) # 0, And(w, 32) # 0)

\* set_bc, set_de, set_hl, set_af and the assignments to sp.
set16(m, r, w) ==
    CASE r = "BC" -> [m EXCEPT !.reg["B"] = High(w), !.reg["C"] = Low(w)]
      [] r = "DE" -> [m EXCEPT !.reg["D"] = High(w), !.reg["E"] = Low(w)]
      [] r = "HL" -> [m EXCEPT !.reg["H"] = High(w), !.reg["L"] = Low(w)]
      [] r = "SP" -> [m EXCEPT !.sp = w]
      [] r = "AF" -> set_flags([m EXCEPT !.reg["A"] = High(w)],
                               And(w, 128) # 0, And(w, 64) # 0, And(w, 32) # 0, And(w, 16) # 0)

read16(m, addr) == Join(read_ram(m, Trunc16(addr + 1)), read_ram(m, addr))
AfterRead16(m, addr) ==
    IF m.lowFirst THEN AfterRead(AfterRead(m, addr), Trunc16(addr + 1))
                  ELSE AfterRead(AfterRead(m, Trunc16(addr + 1)), addr)
write16(m, addr, w) == write_ram(write_ram(m, addr, Low(w)), Trunc16(addr + 1), High(w))

push16(m, w) == write16([m EXCEPT !.sp = Trunc16(@ - 2)], Trunc16(m.sp - 2), w)
pop16(m) == read16(m, m.sp)
AfterPop16(m) == [AfterRead16(m, m.sp) EXCEPT !.sp = Trunc16(@ + 2)]
-----------------------------------------------------------------------------
(* 8-bit arithmetic *)

Carry(m) == IF m.flag.C THEN 1 ELSE 0

alu_add(m, n, carry) ==
    LET a == m.reg["A"]
        c == IF carry THEN Carry(m) ELSE 0
        r == a + n + c
    IN  set_flags(set_reg8(m, "A", r % 256), r % 256 = 0, FALSE, And(a, 15) + And(n, 15) + c > 15, r > 255)

alu_sub(m, n, borrow) ==
    LET a == m.reg["A"]
        c == IF borrow THEN Carry(m) ELSE 0
        r == a - n - c
    IN  set_flags(set_reg8(m, "A", r % 256), r % 256 = 0, TRUE, And(a, 15) < And(n, 15) + c, r < 0)

alu_and(m, n) == LET r == And(m.reg["A"], n) IN set_flags(set_reg8(m, "A", r), r = 0, FALSE, TRUE, FALSE)
alu_xor(m, n) == LET r == Xor(m.reg["A"], n) IN set_flags(set_reg8(m, "A", r), r = 0, FALSE, FALSE, FALSE)
alu_or(m, n)  == LET r == Or(m.reg["A"], n) IN set_flags(set_reg8(m, "A", r), r = 0, FALSE, FALSE, FALSE)
alu_cp(m, n)  == LET a == m.reg["A"] IN set_flags(m, a = n, TRUE, And(a, 15) < And(n, 15), a < n)

\* inc8 and dec8 return the byte and set the flags but C.
inc8(v) == (v + 1) % 256
inc8_flags(m, v) == set_flags(m, inc8(v) = 0, FALSE, And(v, 15) = 15, m.flag.C)
dec8(v) == (v - 1) % 256
dec8_flags(m, v) == set_flags(m, dec8(v) = 0, TRUE, And(v, 15) = 0, m.flag.C)

add_hl(m, n) ==
    LET hl == get_hl(m)
        r  == hl + n
    IN  set_flags(set16(m, "HL", Trunc16(r)), m.flag.Z, FALSE, (hl % 4096) + (n % 4096) > 4095, r > 65535)

\* ADD SP,e and LD HL,SP+e, e8 the offset byte.
sp_plus(m, dest, e8) ==
    set_flags(set16(m, dest, Trunc16(m.sp + SExt8(e8))), FALSE, FALSE,
              (m.sp % 16) + (e8 % 16) > 15, (m.sp % 256) + e8 > 255)

\* Mutant: a high digit above nine is adjusted, but is no carry for the next two digits.
daa_without_carry(m) ==
    LET f   == m.flag
        a1  == IF f.N THEN (IF f.C THEN m.reg["A"] - 96 ELSE m.reg["A"]) % 256
                      ELSE IF f.C \/ m.reg["A"] > 153 THEN (m.reg["A"] + 96) % 256 ELSE m.reg["A"]
        a2  == (CASE f.N /\ f.H -> a1 - 6
                  [] ~f.N /\ (f.H \/ a1 % 16 > 9) -> a1 + 6
                  [] OTHER -> a1) % 256
    IN  set_flags(set_reg8(m, "A", a2), a2 = 0, f.N, FALSE, f.C)

\* The high digit first, and the low one looked at after that.
daa(m) ==
    LET f   == m.flag
        a1  == IF f.N THEN (IF f.C THEN m.reg["A"] - 96 ELSE m.reg["A"]) % 256
                      ELSE IF f.C \/ m.reg["A"] > 153 THEN (m.reg["A"] + 96) % 256 ELSE m.reg["A"]
        c1  == f.C \/ (~f.N /\ m.reg["A"] > 153)
        a2  == (CASE f.N /\ f.H -> a1 - 6
                  [] ~f.N /\ (f.H \/ a1 % 16 > 9) -> a1 + 6
                  [] OTHER -> a1) % 256
    IN  set_flags(set_reg8(m, "A", a2), a2 = 0, f.N, FALSE, c1)
-----------------------------------------------------------------------------
(* Rotates and shifts: the byte that comes out, and the bit that goes into C *)

cb_rlc(v)    == [v |-> Or(2 * v, v \div 128) % 256, c |-> And(v, 128) # 0]
cb_rrc(v)    == [v |-> Or(v \div 2, 128 * v) % 256, c |-> And(v, 1) # 0]
cb_rl(v, c)  == [v |-> Or(2 * v, c) % 256, c |-> And(v, 128) # 0]
cb_rr(v, c)  == [v |-> Or(v \div 2, 128 * c), c |-> And(v, 1) # 0]
cb_sla(v)    == [v |-> (2 * v) % 256, c |-> And(v, 128) # 0]
cb_sra(v)    == [v |-> Or(v \div 2, And(v, 128)), c |-> And(v, 1) # 0]
cb_swap(v)   == [v |-> Or(16 * v, v \div 16) % 256, c |-> FALSE]
cb_srl(v)    == [v |-> v \div 2, c |-> And(v, 1) # 0]

Shifted(group, v, c) ==
    CASE group = 0 -> cb_rlc(v) [] group = 1 -> cb_rrc(v) [] group = 2 -> cb_rl(v, c)
      [] group = 3 -> cb_rr(v, c) [] group = 4 -> cb_sla(v) [] group = 5 -> cb_sra(v)
      [] group = 6 -> cb_swap(v) [] OTHER -> cb_srl(v)

\* cb_exec: the cycles come first; groups 0 to 7 shift, then BIT, RES and SET.
cb_exec_at(m0, cb) ==
    LET reg   == get_reg8(cb)
        inMem == reg = "(HL)"
        group == cb \div 8
        mask  == 2^(group % 8)
        m1    == spend(m0, cb_cycles(cb))
        v     == IF inMem THEN read_ram(m1, get_hl(m1)) ELSE m1.reg[reg]
        m     == IF inMem THEN AfterRead(m1, get_hl(m1)) ELSE m1
        back(n, nv) == IF inMem THEN write_ram(n, get_hl(n), nv) ELSE set_reg8(n, reg, nv)
    IN  CASE group < 8 ->
                 LET s == Shifted(group, v, Carry(m))
                 IN  back(set_flags(m, s.v = 0, FALSE, FALSE, s.c), s.v)
          [] group \in 8..15 -> set_flags(m, And(v, mask) = 0, FALSE, TRUE, m.flag.C)
          [] group \in 16..23 -> back(m, And(v, 255 - mask))
          [] OTHER -> back(m, Or(v, mask))

\* RLCA and its siblings: the same rotations of A, but Z stays.
rotate_a(m, s) == set_flags(set_reg8(m, "A", s.v), m.flag.Z, FALSE, FALSE, s.c)
-----------------------------------------------------------------------------
(* The cases of the switch that go on to the end of the loop *)

\* ALU operations by row of the opcode map: on a register, on memory at HL, on a byte.
Row8(operation) ==
    CASE operation \in {"ADD_R8", "ADD_HL", "ADD_N"} -> 0 [] operation \in {"ADC_R8", "ADC_HL", "ADC_N"} -> 1
      [] operation \in {"SUB_R8", "SUB_HL", "SUB_N"} -> 2 [] operation \in {"SBC_R8", "SBC_HL", "SBC_N"} -> 3
      [] operation \in {"AND_R8", "AND_HL", "AND_N"} -> 4 [] operation \in {"XOR_R8", "XOR_HL", "XOR_N"} -> 5
      [] operation \in {"OR_R8", "OR_HL", "OR_N"} -> 6    [] operation \in {"CP_R8", "CP_HL", "CP_N"} -> 7
      [] OTHER -> 8
alu(m, row, n) ==
    CASE row = 0 -> alu_add(m, n, FALSE) [] row = 1 -> alu_add(m, n, TRUE)
      [] row = 2 -> alu_sub(m, n, FALSE) [] row = 3 -> alu_sub(m, n, TRUE)
      [] row = 4 -> alu_and(m, n) [] row = 5 -> alu_xor(m, n)
      [] row = 6 -> alu_or(m, n)  [] row = 7 -> alu_cp(m, n)

load_from(m, r, addr) == set_reg8(AfterRead(m, addr), r, read_ram(m, addr))
store_to(m, addr, v) == write_ram(m, addr, v)
\* INC (HL) and DEC (HL): read, change, write.
inc_hl(m) == LET v == read_ram(m, get_hl(m))
             IN  write_ram(inc8_flags(AfterRead(m, get_hl(m)), v), get_hl(m), inc8(v))
dec_hl(m) == LET v == read_ram(m, get_hl(m))
             IN  write_ram(dec8_flags(AfterRead(m, get_hl(m)), v), get_hl(m), dec8(v))

byte(m) == ram(m, m.pc)
word(m) == read16(m, m.pc)

loads(m, operation, o) ==
    CASE operation = "LD_R8_R8" -> set_reg8(m, o[1], m.reg[o[2]])
      [] operation = "LD_R8_N"  -> set_reg8(m, o[1], byte(m))
      [] operation = "LD_R8_HL" -> load_from(m, o[1], get_hl(m))
      [] operation = "LD_HL_R8" -> store_to(m, get_hl(m), m.reg[o[1]])
      [] operation = "LD_HL_N"  -> store_to(m, get_hl(m), byte(m))
      [] operation = "LD_A_BC"  -> load_from(m, "A", get_bc(m))
      [] operation = "LD_A_DE"  -> load_from(m, "A", get_de(m))
      [] operation = "LD_BC_A"  -> store_to(m, get_bc(m), m.reg["A"])
      [] operation = "LD_DE_A"  -> store_to(m, get_de(m), m.reg["A"])
      [] operation = "LD_A_NN"  -> load_from(AfterRead16(m, m.pc), "A", word(m))
      [] operation = "LD_NN_A"  -> store_to(AfterRead16(m, m.pc), word(m), m.reg["A"])
      [] operation = "LDH_A_C"  -> load_from(m, "A", 65280 + m.reg["C"])
      [] operation = "LDH_C_A"  -> store_to(m, 65280 + m.reg["C"], m.reg["A"])
      [] operation = "LDH_A_N"  -> load_from(m, "A", 65280 + byte(m))
      [] operation = "LDH_N_A"  -> store_to(m, 65280 + byte(m), m.reg["A"])
      [] operation = "LD_A_HL_INC" -> set16(load_from(m, "A", get_hl(m)), "HL", Trunc16(get_hl(m) + 1))
      [] operation = "LD_A_HL_DEC" -> set16(load_from(m, "A", get_hl(m)), "HL", Trunc16(get_hl(m) - 1))
      [] operation = "LD_HL_INC_A" -> set16(store_to(m, get_hl(m), m.reg["A"]), "HL", Trunc16(get_hl(m) + 1))
      [] operation = "LD_HL_DEC_A" -> set16(store_to(m, get_hl(m), m.reg["A"]), "HL", Trunc16(get_hl(m) - 1))
      [] operation = "LD_R16_NN" -> set16(AfterRead16(m, m.pc), o[1], word(m))
      [] operation = "LD_NN_SP"  -> write16(AfterRead16(m, m.pc), word(m), m.sp)
      [] operation = "LD_SP_HL"  -> set16(m, "SP", get_hl(m))
      [] operation = "PUSH_R16"  -> push16(m, get16(m, o[1]))
      [] operation = "POP_R16"   -> set16(AfterPop16(m), o[1], pop16(m))

arithmetic(m, operation, o) ==
    CASE operation = "INC_R8" -> set_reg8(inc8_flags(m, m.reg[o[1]]), o[1], inc8(m.reg[o[1]]))
      [] operation = "DEC_R8" -> set_reg8(dec8_flags(m, m.reg[o[1]]), o[1], dec8(m.reg[o[1]]))
      [] operation = "INC_HL" -> inc_hl(m)
      [] operation = "DEC_HL" -> dec_hl(m)
      [] operation = "INC_R16" -> set16(m, o[1], Trunc16(get16(m, o[1]) + 1))
      [] operation = "DEC_R16" -> set16(m, o[1], Trunc16(get16(m, o[1]) - 1))
      [] operation = "ADD_HL_R16" -> add_hl(m, get16(m, o[1]))
      [] operation = "ADD_SP_E"   -> sp_plus(m, "SP", byte(m))
      [] operation = "LD_HL_SP_E" -> sp_plus(m, "HL", byte(m))
      [] operation = "RLCA" -> rotate_a(m, cb_rlc(m.reg["A"]))
      [] operation = "RRCA" -> rotate_a(m, cb_rrc(m.reg["A"]))
      [] operation = "RLA"  -> rotate_a(m, cb_rl(m.reg["A"], Carry(m)))
      [] operation = "RRA"  -> rotate_a(m, cb_rr(m.reg["A"], Carry(m)))
      [] operation = "DAA"  -> daa(m)
      [] operation = "CPL"  -> set_flags(set_reg8(m, "A", 255 - m.reg["A"]), m.flag.Z, TRUE, TRUE, m.flag.C)
      [] operation = "SCF"  -> set_flags(m, m.flag.Z, FALSE, FALSE, TRUE)
      [] operation = "CCF"  -> set_flags(m, m.flag.Z, FALSE, FALSE, ~m.flag.C)

ArithmeticOperations ==
    {"INC_R8", "DEC_R8", "INC_HL", "DEC_HL", "INC_R16", "DEC_R16", "ADD_HL_R16", "ADD_SP_E",
     "LD_HL_SP_E", "RLCA", "RRCA", "RLA", "RRA", "DAA", "CPL", "SCF", "CCF"}

\* The work of a case, p being just past the opcode.
Work(m, c, op) ==
    LET o   == CaseOperands(op)
        row == Row8(c.operation)
    IN  CASE c.operation \in {"NOP", "HALT", "STOP", "UNKNOWN"} -> m
          [] c.operation = "DI" -> [m EXCEPT !.ime = 0]
          [] c.operation = "EI" -> [m EXCEPT !.ime = 1]
          [] row < 8 /\ c.len = 2 -> alu(m, row, byte(m))
          [] row < 8 /\ c.len = 1 /\ op % 8 = 6 -> alu(AfterRead(m, get_hl(m)), row, read_ram(m, get_hl(m)))
          [] row < 8 /\ c.len = 1 /\ op % 8 # 6 -> alu(m, row, m.reg[o[1]])
          [] c.operation \in ArithmeticOperations -> arithmetic(m, c.operation, o)
          [] OTHER -> loads(m, c.operation, o)
-----------------------------------------------------------------------------
(* The cases that set p themselves and continue *)

Holds(m, cc) ==
    CASE cc = "NZ" -> ~m.flag.Z [] cc = "Z" -> m.flag.Z [] cc = "NC" -> ~m.flag.C [] cc = "C" -> m.flag.C
goto(m, target) == [m EXCEPT !.pc = target]

\* CALL, RST and RET use the stack before they add their cycles; CALL cc and RET cc
\* after they have added all of them.
transfer(m, c, op) ==
    LET o        == CaseOperands(op)
        past     == Trunc16(m.pc + c.len - 1)
        target   == word(m)
        fetched  == IF c.len = 3 THEN AfterRead16(m, m.pc) ELSE m
        relative == Trunc16(m.pc + 1 + SExt8(byte(m)))
        least    == spend(goto(fetched, past), c.cycles)
        most     == spend(least, c.extra)
        taken    == c.extra = 0 \/ Holds(m, o[1])
    IN  IF ~taken THEN least ELSE
        CASE c.operation \in {"JP_NN", "JP_CC_NN"} -> goto(most, target)
          [] c.operation \in {"JR_E", "JR_CC_E"}   -> goto(most, relative)
          [] c.operation = "JP_HL"      -> goto(most, get_hl(m))
          [] c.operation = "CALL_CC_NN" -> goto(push16(most, past), target)
          [] c.operation = "CALL_NN"    -> spend(goto(push16(fetched, past), target), c.cycles)
          [] c.operation = "RST_N"      -> spend(goto(push16(m, past), o[1]), c.cycles)
          [] c.operation = "RET_CC"     -> goto(AfterPop16(most), pop16(most))
          [] c.operation = "RET"        -> spend(goto(AfterPop16(m), pop16(m)), c.cycles)
          [] c.operation = "RETI"       -> spend([goto(AfterPop16(m), pop16(m)) EXCEPT !.ime = 1], c.cycles)

\* Fetch through the array, go past the opcode, do the case.
Run(m0) ==
    LET op == ram(m0, m0.pc)
        c  == Switch[op]
        m  == skip(m0, 1)
    IN  IF op = 203 THEN skip(cb_exec_at(m, byte(m)), 1)
        ELSE IF c.continue THEN transfer(m, c, op)
        ELSE skip(spend(Work(m, c, op), c.cycles), c.len - 1)
=============================================================================
