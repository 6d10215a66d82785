---------------------------- MODULE Interpreter ----------------------------
(***************************************************************************)
(* The opcode switch of the fallback interpreter (emulator.c), as a table: *)
(* what each case does, named by the InstructionType that does the same,   *)
(* on which registers; how far it moves p past the opcode; what it adds to *)
(* `cycles', at least (cycles) and when a condition holds (extra); and     *)
(* whether it leaves the switch with `continue', having set p itself.      *)
(*                                                                         *)
(* It is written from the switch alone: Opcodes compares it with Decoder.  *)
(***************************************************************************)
EXTENDS Naturals, Sequences, TLC

Case(operation, len, cycles, ops) ==
    [operation |-> operation, len |-> len, cycles |-> cycles, extra |-> 0,
     continue |-> FALSE, ops |-> ops]
Continue(operation, len, cycles, extra, ops) ==
    [operation |-> operation, len |-> len, cycles |-> cycles, extra |-> extra,
     continue |-> TRUE, ops |-> ops]

\* Case labels: every step-th opcode from a first to a last one.
Every(first, last, step) == {op \in first..last : (op - first) % step = 0}
Registers(base) == base..(base + 7) \ {base + 6}

\* 0x00 to 0x3F.
LowCases == {
    Case("NOP", 1, 1, {0}), Case("STOP", 2, 1, {16}),
    Case("LD_R16_NN", 3, 3, Every(1, 49, 16)), Case("LD_NN_SP", 3, 5, {8}),
    Case("LD_BC_A", 1, 2, {2}), Case("LD_DE_A", 1, 2, {18}),
    Case("LD_A_BC", 1, 2, {10}), Case("LD_A_DE", 1, 2, {26}),
    Case("LD_HL_INC_A", 1, 2, {34}), Case("LD_HL_DEC_A", 1, 2, {50}),
    Case("LD_A_HL_INC", 1, 2, {42}), Case("LD_A_HL_DEC", 1, 2, {58}),
    Case("INC_R16", 1, 2, Every(3, 51, 16)), Case("DEC_R16", 1, 2, Every(11, 59, 16)),
    Case("ADD_HL_R16", 1, 2, Every(9, 57, 16)),
    Case("INC_R8", 1, 1, Every(4, 60, 8) \ {52}), Case("INC_HL", 1, 3, {52}),
    Case("DEC_R8", 1, 1, Every(5, 61, 8) \ {53}), Case("DEC_HL", 1, 3, {53}),
    Case("LD_R8_N", 2, 2, Every(6, 62, 8) \ {54}), Case("LD_HL_N", 2, 3, {54}),
    Case("RLCA", 1, 1, {7}), Case("RRCA", 1, 1, {15}), Case("RLA", 1, 1, {23}), Case("RRA", 1, 1, {31}),
    Case("DAA", 1, 1, {39}), Case("CPL", 1, 1, {47}), Case("SCF", 1, 1, {55}), Case("CCF", 1, 1, {63}),
    Continue("JR_E", 2, 3, 0, {24}), Continue("JR_CC_E", 2, 2, 1, Every(32, 56, 8))}

\* 0x40 to 0x7F.
LoadCases == {
    Case("LD_R8_R8", 1, 1, (64..127 \ 112..119) \ Every(70, 126, 8)),
    Case("LD_R8_HL", 1, 2, Every(70, 126, 8) \ {118}),
    Case("LD_HL_R8", 1, 2, Registers(112)), Case("HALT", 1, 4, {118})}

\* 0x80 to 0xBF.
AluCases == {
    Case("ADD_R8", 1, 1, Registers(128)), Case("ADD_HL", 1, 2, {134}),
    Case("ADC_R8", 1, 1, Registers(136)), Case("ADC_HL", 1, 2, {142}),
    Case("SUB_R8", 1, 1, Registers(144)), Case("SUB_HL", 1, 2, {150}),
    Case("SBC_R8", 1, 1, Registers(152)), Case("SBC_HL", 1, 2, {158}),
    Case("AND_R8", 1, 1, Registers(160)), Case("AND_HL", 1, 2, {166}),
    Case("XOR_R8", 1, 1, Registers(168)), Case("XOR_HL", 1, 2, {174}),
    Case("OR_R8",  1, 1, Registers(176)), Case("OR_HL",  1, 2, {182}),
    Case("CP_R8",  1, 1, Registers(184)), Case("CP_HL",  1, 2, {190})}

\* 0xC0 to 0xFF; 0xCB is cb_exec's.
HighCases == {
    Continue("RET_CC", 1, 2, 3, Every(192, 216, 8)), Continue("RET", 1, 4, 0, {201}),
    Continue("RETI", 1, 4, 0, {217}),
    Continue("JP_CC_NN", 3, 3, 1, Every(194, 218, 8)), Continue("JP_NN", 3, 4, 0, {195}),
    Continue("CALL_CC_NN", 3, 3, 3, Every(196, 220, 8)), Continue("CALL_NN", 3, 6, 0, {205}),
    Continue("RST_N", 1, 4, 0, Every(199, 255, 8)), Continue("JP_HL", 1, 1, 0, {233}),
    Case("POP_R16", 1, 3, Every(193, 241, 16)), Case("PUSH_R16", 1, 4, Every(197, 245, 16)),
    Case("ADD_N", 2, 2, {198}), Case("ADC_N", 2, 2, {206}), Case("SUB_N", 2, 2, {214}),
    Case("SBC_N", 2, 2, {222}), Case("AND_N", 2, 2, {230}), Case("XOR_N", 2, 2, {238}),
    Case("OR_N", 2, 2, {246}), Case("CP_N", 2, 2, {254}),
    Case("LDH_N_A", 2, 3, {224}), Case("LDH_A_N", 2, 3, {240}),
    Case("LDH_C_A", 1, 2, {226}), Case("LDH_A_C", 1, 2, {242}),
    Case("LD_NN_A", 3, 4, {234}), Case("LD_A_NN", 3, 4, {250}),
    Case("ADD_SP_E", 2, 4, {232}), Case("LD_HL_SP_E", 2, 3, {248}), Case("LD_SP_HL", 1, 2, {249}),
    Case("DI", 1, 1, {243}), Case("EI", 1, 1, {251})}

Cases == LowCases \cup LoadCases \cup AluCases \cup HighCases

\* default: p has gone past the opcode, one cycle is spent.
Default == Case("UNKNOWN", 1, 1, {})

Switch ==
    [op \in 0..255 |-> IF \E c \in Cases : op \in c.ops
                       THEN CHOOSE c \in Cases : op \in c.ops
                       ELSE Default]

\* The registers that the cases of a column of the opcode map spell out, in order.
R8Names    == <<"B", "C", "D", "E", "H", "L", "(HL)", "A">>
PairNames  == <<"BC", "DE", "HL", "SP">>
StackNames == <<"BC", "DE", "HL", "AF">>

\* The other cases look their register up: REG8, where "(HL)" stands for the case
\* that reads or writes memory at HL instead of using hl_dummy.
get_reg8(op) == R8Names[1 + (op % 8)]

\* cond tests Z, then C, each negated first.
cond(cc) == <<"NZ", "Z", "NC", "C">>[1 + cc]

\* The operands of a case, in the order of the decoder's mnemonic; LDs between
\* registers write the one encoded in bits 3 to 5, set_reg8(op >> 3).
CaseOperands(op) ==
    LET c == Switch[op] IN
    CASE c.operation \in {"LD_HL_N", "UNKNOWN"} -> <<>>
      [] c.operation = "LD_R8_R8" -> <<get_reg8(op \div 8), get_reg8(op)>>
      [] c.operation = "LD_R8_HL" -> <<get_reg8(op \div 8)>>
      [] c.operation = "LD_HL_R8" \/ op \in 128..191 -> <<get_reg8(op)>>
      [] c.extra > 0 -> <<cond((op \div 8) % 4)>>
      [] c.operation = "RST_N" -> <<8 * ((op \div 8) % 8)>>
      [] op < 64 /\ op % 8 \in {4, 5, 6} /\ c.operation # "LD_HL_N" -> <<R8Names[1 + op \div 8]>>
      [] op < 64 /\ op % 16 \in {1, 3, 9, 11} -> <<PairNames[1 + op \div 16]>>
      [] op >= 192 /\ op % 16 \in {1, 5} -> <<StackNames[1 + (op - 192) \div 16]>>
      [] OTHER -> <<>>

\* Mutant: BIT b,(HL) only reads memory, and is one cycle cheaper.
cb_cyclesOfBit(op) == IF op % 8 # 6 THEN 2 ELSE IF op \div 64 = 1 THEN 3 ELSE 4

cb_cycles(op) == IF op % 8 = 6 THEN 4 ELSE 2

\* cb_exec: the operation of a second opcode byte, on a register and on memory at HL,
\* by group: shifts and rotates by bits 3 to 5 (a switch), then BIT, RES and SET.
CbOperations == <<
    <<"CB_RLC_R8", "CB_RLC_HL">>, <<"CB_RRC_R8", "CB_RRC_HL">>, <<"CB_RL_R8", "CB_RL_HL">>,
    <<"CB_RR_R8", "CB_RR_HL">>, <<"CB_SLA_R8", "CB_SLA_HL">>, <<"CB_SRA_R8", "CB_SRA_HL">>,
    <<"CB_SWAP_R8", "CB_SWAP_HL">>, <<"CB_SRL_R8", "CB_SRL_HL">>,
    <<"CB_BIT_R8", "CB_BIT_HL">>, <<"CB_RES_R8", "CB_RES_HL">>, <<"CB_SET_R8", "CB_SET_HL">>>>
cb_exec(op) ==
    LET group == op \div 8
        forms == CbOperations[CASE group < 8  -> 1 + group
                                [] group \in 8..15  -> 9
                                [] group \in 16..23 -> 10
                                [] OTHER -> 11]
    IN  [operation |-> forms[IF op % 8 = 6 THEN 2 ELSE 1],
         operands  |-> (IF group < 8 THEN <<>> ELSE <<group % 8>>) \o <<get_reg8(op)>>,
         len |-> 2, cycles |-> cb_cycles(op), extra |-> 0, continue |-> FALSE]
=============================================================================
