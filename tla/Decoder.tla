------------------------------ MODULE Decoder ------------------------------
(***************************************************************************)
(* The instruction decoder (internal/decoder/decoder.go).                  *)
(*                                                                         *)
(* An opcode table is a set of rows, one per case of decodeOpcode: the     *)
(* opcodes of the case, the InstructionType it assigns, the length in      *)
(* bytes and the M-cycles.  `extra' is AdditionalMCycles, what a           *)
(* conditional instruction costs on top when it is taken.                  *)
(***************************************************************************)
EXTENDS Naturals, Sequences, TLC

Byte == 0..255
Word == 0..65535

\* The register and condition fields of an opcode select a column of the
\* opcode map; encoding 6 of a register field is (HL) and has a type of its own.
Column(base, steps) == {base + s : s \in steps}
R8Src  == {0, 1, 2, 3, 4, 5, 7}
R8Dest == {8 * r : r \in R8Src}
R16    == {0, 16, 32, 48}
CC     == {0, 8, 16, 24}

Row(type, len, cycles, ops) ==
    [type |-> type, len |-> len, cycles |-> cycles, extra |-> 0, ops |-> ops]
CondRow(type, len, cycles, extra, ops) ==
    [type |-> type, len |-> len, cycles |-> cycles, extra |-> extra, ops |-> ops]

LD_R8_R8_Ops == UNION {Column(64 + d, R8Src) : d \in R8Dest}

LoadRows == {
    Row("NOP",         1, 1, {0}),
    Row("LD_R8_R8",    1, 1, LD_R8_R8_Ops),
    Row("LD_R8_N",     2, 2, Column(6, R8Dest)),
    Row("LD_R8_HL",    1, 2, Column(70, R8Dest)),
    Row("LD_HL_R8",    1, 2, Column(112, R8Src)),
    Row("HALT",        1, 4, {118}),
    Row("STOP",        2, 1, {16}),
    Row("LD_HL_N",     2, 3, {54}),
    Row("LD_A_BC",     1, 2, {10}),
    Row("LD_A_DE",     1, 2, {26}),
    Row("LD_BC_A",     1, 2, {2}),
    Row("LD_DE_A",     1, 2, {18}),
    Row("LD_A_NN",     3, 4, {250}),
    Row("LD_NN_A",     3, 4, {234}),
    Row("LDH_A_C",     1, 2, {242}),
    Row("LDH_C_A",     1, 2, {226}),
    Row("LDH_A_N",     2, 3, {240}),
    Row("LDH_N_A",     2, 3, {224}),
    Row("LD_A_HL_DEC", 1, 2, {58}),
    Row("LD_HL_DEC_A", 1, 2, {50}),
    Row("LD_A_HL_INC", 1, 2, {42}),
    Row("LD_HL_INC_A", 1, 2, {34})}

WordRows == {
    Row("LD_R16_NN",   3, 3, Column(1, R16)),
    Row("LD_NN_SP",    3, 5, {8}),
    Row("LD_SP_HL",    1, 2, {249}),
    Row("PUSH_R16",    1, 4, Column(197, R16)),
    Row("POP_R16",     1, 3, Column(193, R16)),
    Row("LD_HL_SP_E",  2, 3, {248}),
    Row("INC_R16",     1, 2, Column(3, R16)),
    Row("DEC_R16",     1, 2, Column(11, R16)),
    Row("ADD_HL_R16",  1, 2, Column(9, R16)),
    Row("ADD_SP_E",    2, 4, {232})}

ArithmeticRows == {
    Row("ADD_R8", 1, 1, Column(128, R8Src)), Row("ADD_HL", 1, 2, {134}), Row("ADD_N", 2, 2, {198}),
    Row("ADC_R8", 1, 1, Column(136, R8Src)), Row("ADC_HL", 1, 2, {142}), Row("ADC_N", 2, 2, {206}),
    Row("SUB_R8", 1, 1, Column(144, R8Src)), Row("SUB_HL", 1, 2, {150}), Row("SUB_N", 2, 2, {214}),
    Row("SBC_R8", 1, 1, Column(152, R8Src)), Row("SBC_HL", 1, 2, {158}), Row("SBC_N", 2, 2, {222}),
    Row("CP_R8",  1, 1, Column(184, R8Src)), Row("CP_HL",  1, 2, {190}), Row("CP_N",  2, 2, {254}),
    Row("INC_R8", 1, 1, Column(4, R8Dest)),  Row("INC_HL", 1, 3, {52}),
    Row("DEC_R8", 1, 1, Column(5, R8Dest)),  Row("DEC_HL", 1, 3, {53})}

LogicRows == {
    Row("AND_R8", 1, 1, Column(160, R8Src)), Row("AND_HL", 1, 2, {166}), Row("AND_N", 2, 2, {230}),
    Row("OR_R8",  1, 1, Column(176, R8Src)), Row("OR_HL",  1, 2, {182}), Row("OR_N",  2, 2, {246}),
    Row("XOR_R8", 1, 1, Column(168, R8Src)), Row("XOR_HL", 1, 2, {174}), Row("XOR_N", 2, 2, {238}),
    Row("CCF", 1, 1, {63}), Row("SCF", 1, 1, {55}), Row("DAA", 1, 1, {39}), Row("CPL", 1, 1, {47}),
    Row("RLCA", 1, 1, {7}), Row("RRCA", 1, 1, {15}), Row("RLA", 1, 1, {23}), Row("RRA", 1, 1, {31})}

JumpRows == {
    Row("JP_NN",          3, 4, {195}),
    Row("JP_HL",          1, 1, {233}),
    CondRow("JP_CC_NN",   3, 3, 1, Column(194, CC)),
    Row("JR_E",           2, 3, {24}),
    CondRow("JR_CC_E",    2, 2, 1, Column(32, CC)),
    Row("CALL_NN",        3, 6, {205}),
    CondRow("CALL_CC_NN", 3, 3, 3, Column(196, CC)),
    Row("RET",            1, 4, {201}),
    CondRow("RET_CC",     1, 2, 3, Column(192, CC)),
    Row("RETI",           1, 4, {217}),
    Row("RST_N",          1, 4, Column(199, {8 * i : i \in 0..7})),
    Row("DI",             1, 1, {243}),
    Row("EI",             1, 1, {251})}

Rows == LoadRows \cup WordRows \cup ArithmeticRows \cup LogicRows \cup JumpRows

\* default: the type is UNKNOWN and every other field keeps Go's zero value.
UnknownRow == Row("UNKNOWN", 0, 0, {})

decodeOpcode ==
    [op \in Byte |-> IF \E r \in Rows : op \in r.ops
                     THEN CHOOSE r \in Rows : op \in r.ops
                     ELSE UnknownRow]

\* The second byte of a CB-prefixed instruction: the rotate and shift groups
\* below 64, BIT, RES and SET above, each with a register and an (HL) form.
CbGroups == <<
    <<"CB_RLC_R8", "CB_RLC_HL">>, <<"CB_RRC_R8", "CB_RRC_HL">>,
    <<"CB_RL_R8",  "CB_RL_HL">>,  <<"CB_RR_R8",  "CB_RR_HL">>,
    <<"CB_SLA_R8", "CB_SLA_HL">>, <<"CB_SRA_R8", "CB_SRA_HL">>,
    <<"CB_SWAP_R8", "CB_SWAP_HL">>, <<"CB_SRL_R8", "CB_SRL_HL">>,
    <<"CB_BIT_R8", "CB_BIT_HL">>, <<"CB_RES_R8", "CB_RES_HL">>, <<"CB_SET_R8", "CB_SET_HL">>>>
decodeCbPrefixedOpcode ==
    [op \in Byte |->
        LET group == CbGroups[1 + (IF op < 64 THEN op \div 8 ELSE 8 + (op - 64) \div 64)]
        IN  IF op % 8 = 6 THEN Row(group[2], 2, 4, {}) ELSE Row(group[1], 2, 2, {})]

\* rom.Read: zero past the end of the image.
Read(rom, addr) == IF addr \in DOMAIN rom THEN rom[addr] ELSE 0

MergeBytes(low, high) == 256 * high + low

\* RST_N's CallFunctionAddress: bits 3..5 of the opcode, in place.
CallFunctionAddress(op) == 8 * ((op \div 8) % 8)

\* The instruction at addr, with the operand bytes that follow it.  A two-byte
\* instruction carries an Imm8Bit (a CB-prefixed one its second opcode byte), a
\* three-byte one an Imm16Bit, RST its vector.
DecodeAt(rom, addr) ==
    LET op   == Read(rom, addr)
        arg1 == Read(rom, addr + 1)
        row  == IF op = 203 THEN decodeCbPrefixedOpcode[arg1] ELSE decodeOpcode[op]
    IN  [type   |-> row.type,
         len    |-> row.len,
         cycles |-> row.cycles,
         extra  |-> row.extra,
         imm    |-> CASE row.len = 3         -> MergeBytes(arg1, Read(rom, addr + 2))
                      [] row.len = 2         -> arg1
                      [] row.type = "RST_N"  -> CallFunctionAddress(op)
                      [] OTHER               -> 0]
-----------------------------------------------------------------------------
(* Registers and mnemonics *)

\* An encoded register; the sixth is memory at HL, written "(HL)" here.
reg8FromEncoding(enc)  == <<"B", "C", "D", "E", "H", "L", "(HL)", "A">>[1 + (enc % 8)]
reg16FromEncoding(enc) == <<"BC", "DE", "HL", "SP">>[1 + (enc % 4)]
JumpCondition(op)      == <<"NZ", "Z", "NC", "C">>[1 + ((op \div 8) % 4)]
BitOpIndex(op)         == (op \div 8) % 8

\* Mutant: PUSH and POP take the third register pair from its encoding too.
StackRegisterEncoded(op) == reg16FromEncoding(op \div 16)

\* PUSH and POP: AF is where the other instructions have SP.
StackRegister(op) == IF op \in {241, 245} THEN "AF" ELSE reg16FromEncoding(op \div 16)

AluTypes  == {"ADD_R8", "ADC_R8", "SUB_R8", "SBC_R8", "CP_R8", "AND_R8", "OR_R8", "XOR_R8"}
AluMemory == {"ADD_HL", "ADC_HL", "SUB_HL", "SBC_HL", "CP_HL", "AND_HL", "OR_HL", "XOR_HL"}

\* What an unprefixed opcode's instruction works on, beside its immediate operand.
Operands(type, op) ==
    CASE type = "LD_R8_R8" -> <<reg8FromEncoding(op \div 8), reg8FromEncoding(op)>>
      [] type \in {"LD_R8_N", "LD_R8_HL", "INC_R8", "DEC_R8"} -> <<reg8FromEncoding(op \div 8)>>
      [] type \in AluTypes \cup {"LD_HL_R8"} -> <<reg8FromEncoding(op)>>
      [] type \in AluMemory \cup {"INC_HL", "DEC_HL"} -> <<"(HL)">>
      [] type \in {"LD_R16_NN", "INC_R16", "DEC_R16", "ADD_HL_R16"} -> <<reg16FromEncoding(op \div 16)>>
      [] type \in {"PUSH_R16", "POP_R16"} -> <<StackRegister(op)>>
      [] type \in {"JP_CC_NN", "JR_CC_E", "CALL_CC_NN", "RET_CC"} -> <<JumpCondition(op)>>
      [] type = "RST_N" -> <<8 * BitOpIndex(op)>>
      [] OTHER -> <<>>

\* A CB-prefixed one works on a register or (HL), and above 63 on one bit of it.
CbOperands(op) ==
    (IF op < 64 THEN <<>> ELSE <<BitOpIndex(op)>>) \o <<reg8FromEncoding(op)>>

\* The format string of a mnemonic, named by the type that has it for a register:
\* the (HL) forms print "(HL)" in the register's place, INC and DEC a pair.
SameFormat ==
    [ADD_HL |-> "ADD_R8", ADC_HL |-> "ADC_R8", SUB_HL |-> "SUB_R8", SBC_HL |-> "SBC_R8",
     CP_HL |-> "CP_R8", AND_HL |-> "AND_R8", OR_HL |-> "OR_R8", XOR_HL |-> "XOR_R8",
     INC_HL |-> "INC_R8", DEC_HL |-> "DEC_R8", INC_R16 |-> "INC_R8", DEC_R16 |-> "DEC_R8",
     CB_RLC_HL |-> "CB_RLC_R8", CB_RRC_HL |-> "CB_RRC_R8", CB_RL_HL |-> "CB_RL_R8",
     CB_RR_HL |-> "CB_RR_R8", CB_SLA_HL |-> "CB_SLA_R8", CB_SRA_HL |-> "CB_SRA_R8",
     CB_SWAP_HL |-> "CB_SWAP_R8", CB_SRL_HL |-> "CB_SRL_R8", CB_BIT_HL |-> "CB_BIT_R8",
     CB_RES_HL |-> "CB_RES_R8", CB_SET_HL |-> "CB_SET_R8"]

\* Mutant: all of arithmetic prints memory at HL the way ADC does, "HL".
PrintedAsAdc(type, operand) ==
    IF type \in AluMemory \cup {"INC_HL", "DEC_HL"} THEN "HL" ELSE operand

\* The text of an operand: all (HL) forms print "(HL)" but ADC, which prints "HL".
Printed(type, operand) == IF type = "ADC_HL" THEN "HL" ELSE operand

Mnemonic(type, operands) ==
    <<IF type \in DOMAIN SameFormat THEN SameFormat[type] ELSE type>>
        \o [i \in DOMAIN operands |-> Printed(type, operands[i])]
============================================================================
