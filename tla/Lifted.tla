------------------------------- MODULE Lifted -------------------------------
(***************************************************************************)
(* What compiled code does to the machine: the LLVM function the code      *)
(* generator builds for an instruction (opcodes.go, arithmetic.go,         *)
(* helpers.go) and the code joinBlocks puts at the end of a block, as      *)
(* operators from machines to machines (see Bus).                          *)
(*                                                                         *)
(* An instruction i has the fields of Decoder's rows, its operands and the *)
(* constant imm.  i is emitted for the address the machine's pc has        *)
(* (Machine!BlockPc), which is what the generator writes for i.Address.    *)
(***************************************************************************)
EXTENDS Decoder, Instructions, Bus, Bits

increaseCycles(m, n) == [m EXCEPT !.cycles = @ + n]

updateMemory(m, addr, val) == write_ram(m, addr, val)
readMemory(m, addr) == cg_read_memory(m, addr)

\* Flag bits of F, and what POP AF makes of it: the low four bits are dropped.
buildFReg(m) == (IF m.flag.Z THEN 128 ELSE 0) + (IF m.flag.N THEN 64 ELSE 0)
                + (IF m.flag.H THEN 32 ELSE 0) + (IF m.flag.C THEN 16 ELSE 0)
Bit(val, n) == (val \div 2^n) % 2 = 1
updateFReg(m, val) ==
    [m EXCEPT !.flag = [Z |-> Bit(val, 7), N |-> Bit(val, 6), H |-> Bit(val, 5), C |-> Bit(val, 4)]]

SplitUp == [BC |-> <<"B", "C">>, DE |-> <<"D", "E">>, HL |-> <<"H", "L">>]
readReg16(m, r) ==
    CASE r = "SP" -> m.sp
      [] r = "AF" -> Join(m.reg["A"], buildFReg(m))
      [] OTHER    -> Join(m.reg[SplitUp[r][1]], m.reg[SplitUp[r][2]])
updateReg16(m, r, w) ==
    CASE r = "SP" -> [m EXCEPT !.sp = w]
      [] r = "AF" -> updateFReg([m EXCEPT !.reg["A"] = High(w)], Low(w))
      [] OTHER    -> [m EXCEPT !.reg[SplitUp[r][1]] = High(w), !.reg[SplitUp[r][2]] = Low(w)]

HL(m) == readReg16(m, "HL")
set(m, r, val) == [m EXCEPT !.reg[r] = val]
calculateHighPageAddress(val) == 65280 + val
-----------------------------------------------------------------------------
(* 8-bit arithmetic and logic *)

\* The operand of an instruction: a register, memory at HL, or the constant.
UsesMemory(i) == i.operands # <<>> /\ i.operands[Len(i.operands)] = "(HL)"
Operand(m, i) ==
    CASE i.operands = <<>> -> i.imm
      [] UsesMemory(i)     -> readMemory(m, HL(m))
      [] OTHER             -> m.reg[i.operands[Len(i.operands)]]
AfterOperand(m, i) == IF UsesMemory(i) THEN AfterRead(m, HL(m)) ELSE m
\* destReg or destHL: where the operand came from.
Back(m, i, val) ==
    IF UsesMemory(i) THEN updateMemory(m, HL(m), val) ELSE set(m, i.operands[Len(i.operands)], val)

bit8ArithmeticInstrTypeToOpType(type) ==
    CASE type \in {"ADD_R8", "ADD_HL", "ADD_N", "ADC_R8", "ADC_HL", "ADC_N"} -> "Add"
      [] type \in {"SUB_R8", "SUB_HL", "SUB_N", "SBC_R8", "SBC_HL", "SBC_N"} -> "Sub"
      [] type \in {"CP_R8", "CP_HL", "CP_N"} -> "Compare"
      [] type \in {"INC_R8", "INC_HL"} -> "Increase"
      [] type \in {"DEC_R8", "DEC_HL"} -> "Decrease"
      [] type \in {"AND_R8", "AND_HL", "AND_N"} -> "And"
      [] type \in {"OR_R8", "OR_HL", "OR_N"} -> "Or"
      [] type \in {"XOR_R8", "XOR_HL", "XOR_N"} -> "Xor"
\* Mutant: SBC does not take the borrow of the byte below.
onlyAdcTakesCarry(type) == type \in {"ADC_R8", "ADC_HL", "ADC_N"}

toIncludeCarryFlag(type) == type \in {"ADC_R8", "ADC_HL", "ADC_N", "SBC_R8", "SBC_HL", "SBC_N"}

Result(r, n, h, c) == [r |-> r, n |-> n, h |-> h, c |-> c]

\* Mutant: the half carry forgets the carry that goes in.
Bit8ResultHalf(op, a, x, c, carry) ==
    CASE op = "Add"      -> Result((a + x + c) % 256, FALSE, (a % 16) + (x % 16) >= 16, a + x + c >= 256)
      [] op \in {"Sub", "Compare"}
                         -> Result((a - x - c) % 256, TRUE, a % 16 < (x % 16) + c, a < x + c)
      [] op = "Increase" -> Result((x + 1) % 256, FALSE, (x % 16) + 1 >= 16, carry)
      [] op = "Decrease" -> Result((x - 1) % 256, TRUE, x % 16 < 1, carry)
      [] op = "And"      -> Result(And(a, x), FALSE, TRUE, FALSE)
      [] op = "Or"       -> Result(Or(a, x), FALSE, FALSE, FALSE)
      [] op = "Xor"      -> Result(Xor(a, x), FALSE, FALSE, FALSE)

\* Result and flags of a on x with carry in c; INC and DEC leave C as it is.
Bit8Result(op, a, x, c, carry) ==
    CASE op = "Add"      -> Result((a + x + c) % 256, FALSE, (a % 16) + (x % 16) + c >= 16, a + x + c >= 256)
      [] op \in {"Sub", "Compare"}
                         -> Result((a - x - c) % 256, TRUE, a % 16 < (x % 16) + c, a < x + c)
      [] op = "Increase" -> Result((x + 1) % 256, FALSE, (x % 16) + 1 >= 16, carry)
      [] op = "Decrease" -> Result((x - 1) % 256, TRUE, x % 16 < 1, carry)
      [] op = "And"      -> Result(And(a, x), FALSE, TRUE, FALSE)
      [] op = "Or"       -> Result(Or(a, x), FALSE, FALSE, FALSE)
      [] op = "Xor"      -> Result(Xor(a, x), FALSE, FALSE, FALSE)

perform8BitArithmetic(m, i, op, x, c) ==
    LET res    == Bit8Result(op, m.reg["A"], x, c, m.flag.C)
        stored == CASE op = "Compare" -> m
                    [] op \in {"Increase", "Decrease"} -> Back(m, i, res.r)
                    [] OTHER -> set(m, "A", res.r)
    IN  [stored EXCEPT !.flag = [Z |-> res.r = 0, N |-> res.n, H |-> res.h, C |-> res.c]]

\* The builders of register, memory and constant operands.
bit8_arithmetic(m, i) ==
    perform8BitArithmetic(AfterOperand(m, i), i, bit8ArithmeticInstrTypeToOpType(i.type), Operand(m, i),
                          IF toIncludeCarryFlag(i.type) /\ m.flag.C THEN 1 ELSE 0)
-----------------------------------------------------------------------------
(* Rotates, shifts and bits *)

bitwiseOpFromInstrType(type) ==
    CASE type \in {"RLA", "CB_RL_R8", "CB_RL_HL"}    -> "RotateLeft"
      [] type \in {"RLCA", "CB_RLC_R8", "CB_RLC_HL"} -> "RotateLeftCircular"
      [] type \in {"RRA", "CB_RR_R8", "CB_RR_HL"}    -> "RotateRight"
      [] type \in {"RRCA", "CB_RRC_R8", "CB_RRC_HL"} -> "RotateRightCircular"
      [] type \in {"CB_SLA_R8", "CB_SLA_HL"} -> "ShiftLeft"
      [] type \in {"CB_SRA_R8", "CB_SRA_HL"} -> "ShiftRightArithmetic"
      [] type \in {"CB_SRL_R8", "CB_SRL_HL"} -> "ShiftRightLogical"
      [] type \in {"CB_SWAP_R8", "CB_SWAP_HL"} -> "Swap"

Shl(x, n) == (x * 2^n) % 256
LShr(x, n) == x \div 2^n

BitwiseResult(op, x, c) ==
    CASE op = "RotateLeft"           -> [r |-> Or(Shl(x, 1), c), c |-> LShr(x, 7)]
      [] op = "RotateLeftCircular"   -> [r |-> Or(Shl(x, 1), LShr(x, 7)), c |-> LShr(x, 7)]
      [] op = "RotateRight"          -> [r |-> Or(Shl(c, 7), LShr(x, 1)), c |-> And(x, 1)]
      [] op = "RotateRightCircular"  -> [r |-> Or(Shl(And(x, 1), 7), LShr(x, 1)), c |-> And(x, 1)]
      [] op = "ShiftLeft"            -> [r |-> Shl(x, 1), c |-> LShr(x, 7)]
      [] op = "ShiftRightArithmetic" -> [r |-> Or(LShr(x, 1), And(x, 128)), c |-> And(x, 1)]
      [] op = "ShiftRightLogical"    -> [r |-> LShr(x, 1), c |-> And(x, 1)]
      [] op = "Swap"                 -> [r |-> Or(Shl(x, 4), LShr(x, 4)), c |-> 0]

performBitwise(m, i, op, x, updateZeroFlag) ==
    LET res == BitwiseResult(op, x, IF m.flag.C THEN 1 ELSE 0)
    IN  [Back(m, i, res.r) EXCEPT !.flag = [Z |-> IF updateZeroFlag THEN res.r = 0 ELSE @.Z,
                                            N |-> FALSE, H |-> FALSE, C |-> res.c = 1]]

\* The unprefixed rotates work on A and leave Z alone.
IsCbPrefixed(i) == i.len = 2
bitwise(m, i0) ==
    LET i == IF IsCbPrefixed(i0) THEN i0 ELSE [i0 EXCEPT !.operands = <<"A">>]
    IN  performBitwise(AfterOperand(m, i), i, bitwiseOpFromInstrType(i.type), Operand(m, i), IsCbPrefixed(i0))

bitOpFromInstrType(type) ==
    CASE type \in {"CB_BIT_R8", "CB_BIT_HL"} -> "Test"
      [] type \in {"CB_RES_R8", "CB_RES_HL"} -> "Reset"
      [] type \in {"CB_SET_R8", "CB_SET_HL"} -> "Set"

performBitOp(m, i, op, index, x) ==
    LET mask == Shl(1, index)
    IN  CASE op = "Test"  -> [m EXCEPT !.flag = [Z |-> And(x, mask) = 0, N |-> FALSE, H |-> TRUE, C |-> @.C]]
          [] op = "Reset" -> Back(m, i, And(x, Xor(mask, 255)))
          [] op = "Set"   -> Back(m, i, Or(x, mask))
bit_op(m, i) == performBitOp(AfterOperand(m, i), i, bitOpFromInstrType(i.type), i.operands[1], Operand(m, i))
-----------------------------------------------------------------------------
(* The other arithmetic *)

daa(m) ==
    LET a     == m.reg["A"]
        f     == m.flag
        adjHi == f.C \/ a > 153
        addResult == a + (IF f.H \/ a % 16 > 9 THEN 6 ELSE 0) + (IF adjHi THEN 96 ELSE 0)
        subResult == a - (IF f.C THEN 96 ELSE 0) - (IF f.H THEN 6 ELSE 0)
        result    == (IF f.N THEN subResult ELSE addResult) % 256
    IN  [set(m, "A", result) EXCEPT
            !.flag = [Z |-> result = 0, N |-> f.N, H |-> FALSE, C |-> IF f.N THEN f.C ELSE adjHi]]

\* The carries out of bits 3 and 7 of sp + e, found where operands and sum differ.
calculateOffsetFlags(sp, e) ==
    LET differ == Xor(Xor(sp, e), Trunc16(sp + e))
    IN  [h |-> And(differ, 16) # 0, c |-> And(differ, 256) # 0]

\* ADD SP,e and LD HL,SP+e.
offset(m, i, dest) ==
    LET e == Trunc16(SExt8(i.imm))
        f == calculateOffsetFlags(m.sp, e)
    IN  [updateReg16(m, dest, Trunc16(m.sp + e)) EXCEPT !.flag = [Z |-> FALSE, N |-> FALSE, H |-> f.h, C |-> f.c]]

add_hl_r16(m, r) ==
    LET hl == HL(m)
        w  == readReg16(m, r)
    IN  [updateReg16(m, "HL", Trunc16(hl + w)) EXCEPT
            !.flag = [Z |-> @.Z, N |-> FALSE, H |-> (hl % 4096) + (w % 4096) >= 4096, C |-> hl + w >= 65536]]
-----------------------------------------------------------------------------
(* The stack *)

\* Mutant: the low byte goes first, as in the interpreter.
pushLowByteFirst(m, w) ==
    LET s1 == Trunc16(m.sp - 1)
        s2 == Trunc16(m.sp - 2)
        m1 == updateMemory([m EXCEPT !.sp = s2], s2, Low(w))
    IN  updateMemory(m1, s1, High(w))

\* The high byte goes first.
pushReturnAddress(m, w) ==
    LET s1 == Trunc16(m.sp - 1)
        s2 == Trunc16(m.sp - 2)
        m1 == updateMemory([m EXCEPT !.sp = s1], s1, High(w))
    IN  updateMemory([m1 EXCEPT !.sp = s2], s2, Low(w))

popReturnAddress(m) == Join(readMemory(m, Trunc16(m.sp + 1)), readMemory(m, m.sp))
AfterPop(m) ==
    LET s1 == Trunc16(m.sp + 1)
    IN  [AfterRead(AfterRead(m, m.sp), s1) EXCEPT !.sp = Trunc16(s1 + 1)]
-----------------------------------------------------------------------------
(* Loads *)

step_hl(m, d) == updateReg16(m, "HL", Trunc16(HL(m) + d))
load_a(m, addr)  == set(AfterRead(m, addr), "A", readMemory(m, addr))
store_a(m, addr) == updateMemory(m, addr, m.reg["A"])

r8_loads(m, i) ==
    CASE i.type = "LD_R8_R8" -> set(m, i.operands[1], m.reg[i.operands[2]])
      [] i.type = "LD_R8_N"  -> set(m, i.operands[1], i.imm)
      [] i.type = "LD_R8_HL" -> set(AfterRead(m, HL(m)), i.operands[1], readMemory(m, HL(m)))
      [] i.type = "LD_HL_R8" -> updateMemory(m, HL(m), m.reg[i.operands[1]])
      [] i.type = "LD_HL_N"  -> updateMemory(m, HL(m), i.imm)

a_loads(m, i) ==
    CASE i.type = "LD_A_BC"  -> load_a(m, readReg16(m, "BC"))
      [] i.type = "LD_A_DE"  -> load_a(m, readReg16(m, "DE"))
      [] i.type = "LD_A_NN"  -> load_a(m, i.imm)
      [] i.type = "LDH_A_C"  -> load_a(m, calculateHighPageAddress(m.reg["C"]))
      [] i.type = "LDH_A_N"  -> load_a(m, calculateHighPageAddress(i.imm))
      [] i.type = "LD_BC_A"  -> store_a(m, readReg16(m, "BC"))
      [] i.type = "LD_DE_A"  -> store_a(m, readReg16(m, "DE"))
      [] i.type = "LD_NN_A"  -> store_a(m, i.imm)
      [] i.type = "LDH_C_A"  -> store_a(m, calculateHighPageAddress(m.reg["C"]))
      [] i.type = "LDH_N_A"  -> store_a(m, calculateHighPageAddress(i.imm))

\* These access memory, then step HL.
hl_loads(m, i) ==
    CASE i.type = "LD_A_HL_INC" -> step_hl(load_a(m, HL(m)), 1)
      [] i.type = "LD_A_HL_DEC" -> step_hl(load_a(m, HL(m)), -1)
      [] i.type = "LD_HL_INC_A" -> step_hl(store_a(m, HL(m)), 1)
      [] i.type = "LD_HL_DEC_A" -> step_hl(store_a(m, HL(m)), -1)

r16_loads(m, i) ==
    CASE i.type = "LD_R16_NN" -> updateReg16(m, i.operands[1], i.imm)
      [] i.type = "LD_NN_SP"  -> updateMemory(updateMemory(m, i.imm, Low(m.sp)), Trunc16(i.imm + 1), High(m.sp))
      [] i.type = "LD_SP_HL"  -> [m EXCEPT !.sp = HL(m)]
      [] i.type = "LD_HL_SP_E" -> offset(m, i, "HL")
      [] i.type = "PUSH_R16"  -> pushReturnAddress(m, readReg16(m, i.operands[1]))
      [] i.type = "POP_R16"   -> updateReg16(AfterPop(m), i.operands[1], popReturnAddress(m))

step_r16(m, r, d) == updateReg16(m, r, Trunc16(readReg16(m, r) + d))
r16_arithmetic(m, i) ==
    CASE i.type = "INC_R16"    -> step_r16(m, i.operands[1], 1)
      [] i.type = "DEC_R16"    -> step_r16(m, i.operands[1], -1)
      [] i.type = "ADD_HL_R16" -> add_hl_r16(m, i.operands[1])
      [] i.type = "ADD_SP_E"   -> offset(m, i, "SP")

flag_ops(m, i) ==
    CASE i.type = "CCF" -> [m EXCEPT !.flag = [Z |-> @.Z, N |-> FALSE, H |-> FALSE, C |-> ~@.C]]
      [] i.type = "SCF" -> [m EXCEPT !.flag = [Z |-> @.Z, N |-> FALSE, H |-> FALSE, C |-> TRUE]]
      [] i.type = "CPL" -> [m EXCEPT !.reg["A"] = Xor(@, 255),
                                     !.flag = [Z |-> @.Z, N |-> TRUE, H |-> TRUE, C |-> @.C]]
      [] i.type = "DAA" -> daa(m)

di(m) == [m EXCEPT !.ime = 0]
ei(m) == [m EXCEPT !.ime = 1]
-----------------------------------------------------------------------------
(* One instruction *)

R8Loads == {"LD_R8_R8", "LD_R8_N", "LD_R8_HL", "LD_HL_R8", "LD_HL_N"}
ALoads  == {"LD_A_BC", "LD_A_DE", "LD_A_NN", "LDH_A_C", "LDH_A_N",
            "LD_BC_A", "LD_DE_A", "LD_NN_A", "LDH_C_A", "LDH_N_A"}
HlLoads == {"LD_A_HL_INC", "LD_A_HL_DEC", "LD_HL_INC_A", "LD_HL_DEC_A"}
R16Loads == {"LD_R16_NN", "LD_NN_SP", "LD_SP_HL", "LD_HL_SP_E", "PUSH_R16", "POP_R16"}
R16Arithmetic == {"INC_R16", "DEC_R16", "ADD_HL_R16", "ADD_SP_E"}
FlagOps == {"CCF", "SCF", "CPL", "DAA"}
Rotates == {"RLCA", "RLA", "RRCA", "RRA"} \cup UNION {{CbGroups[g][1], CbGroups[g][2]} : g \in 1..8}
BitOps  == {"CB_BIT_R8", "CB_BIT_HL", "CB_RES_R8", "CB_RES_HL", "CB_SET_R8", "CB_SET_HL"}

\* emitInstruction's choice of a builder: what the instruction's function does.
emitInstruction(m, i) ==
    CASE i.type \in {"NOP", "HALT", "STOP"} -> m
      [] i.type \in R8Loads  -> r8_loads(m, i)
      [] i.type \in ALoads   -> a_loads(m, i)
      [] i.type \in HlLoads  -> hl_loads(m, i)
      [] i.type \in R16Loads -> r16_loads(m, i)
      [] i.type \in R16Arithmetic -> r16_arithmetic(m, i)
      [] i.type \in FlagOps  -> flag_ops(m, i)
      [] i.type = "DI"       -> di(m)
      [] i.type = "EI"       -> ei(m)
      [] i.type \in Rotates  -> bitwise(m, i)
      [] i.type \in BitOps   -> bit_op(m, i)
      [] OTHER               -> bit8_arithmetic(m, i)

\* Mutant: the cycles are added before the instruction does its work.
buildCyclesFirst(m, i) ==
    LET done == emitInstruction(increaseCycles(m, i.cycles), i)
    IN  [done EXCEPT !.pc = Trunc16(@ + i.len)]

\* buildOpcodeFunc adds the cycles when the work is done; emitCalls moves pc on.
buildOpcodeFunc(m, i) ==
    LET done == increaseCycles(emitInstruction(m, i), i.cycles)
    IN  [done EXCEPT !.pc = Trunc16(@ + i.len)]

loadCondition(m, cc) ==
    CASE cc = "C" -> m.flag.C [] cc = "NC" -> ~m.flag.C [] cc = "Z" -> m.flag.Z [] OTHER -> ~m.flag.Z

Goto(m, target) == [m EXCEPT !.pc = target]

\* A terminator has added the cycles it takes at least; behind(m, i) is the address
\* after it.  Those of a condition that holds come when the stack has been used.
extra(m, i)  == increaseCycles(m, i.extra)
behind(m, i) == Trunc16(m.pc + i.len)
relative(m, i) == Trunc16(behind(m, i) + SExt8(i.imm))
taken(m, i)  == loadCondition(m, i.operands[1])

jumps(m, i) ==
    CASE i.type = "JP_NN"    -> Goto(m, i.imm)
      [] i.type = "JP_CC_NN" -> IF taken(m, i) THEN extra(Goto(m, i.imm), i) ELSE Goto(m, behind(m, i))
      [] i.type = "JR_E"     -> Goto(m, relative(m, i))
      [] i.type = "JR_CC_E"  -> IF taken(m, i) THEN extra(Goto(m, relative(m, i)), i) ELSE Goto(m, behind(m, i))

\* CALL cc sets pc before it pushes, CALL and RST after.
calls(m, i) ==
    CASE i.type = "CALL_NN"    -> Goto(pushReturnAddress(m, behind(m, i)), i.imm)
      [] i.type = "CALL_CC_NN" -> IF taken(m, i) THEN extra(pushReturnAddress(Goto(m, i.imm), behind(m, i)), i)
                                                 ELSE Goto(m, behind(m, i))
rst_n(m, i) == Goto(pushReturnAddress(m, behind(m, i)), i.operands[1])

returns(m, i) ==
    CASE i.type = "RET"    -> Goto(AfterPop(m), popReturnAddress(m))
      [] i.type = "RETI"   -> [Goto(AfterPop(m), popReturnAddress(m)) EXCEPT !.ime = 1]
      [] i.type = "RET_CC" -> IF taken(m, i) THEN Goto(extra(AfterPop(m), i), popReturnAddress(m))
                                             ELSE Goto(m, behind(m, i))
jp_hl(m) == Goto(m, HL(m))

joinBlocks(m0, i) ==
    LET m == increaseCycles(m0, i.cycles)
    IN  CASE i.type \in {"JP_NN", "JP_CC_NN", "JR_E", "JR_CC_E"} -> jumps(m, i)
          [] i.type \in {"CALL_NN", "CALL_CC_NN"}  -> calls(m, i)
          [] i.type \in {"RET", "RETI", "RET_CC"}  -> returns(m, i)
          [] i.type = "RST_N" -> rst_n(m, i)
          [] i.type = "JP_HL" -> jp_hl(m)

Run(m, i) == IF IsBlockTerminator(i) THEN joinBlocks(m, i) ELSE buildOpcodeFunc(m, i)
=============================================================================
