------------------------------ MODULE Opcodes ------------------------------
(***************************************************************************)
(* The instruction set is written down five times: the decoder's opcode    *)
(* tables (decoder.go), the list of block terminators (analyzer/helpers.go)*)
(* and that of joinBlocks, the functions the code generator can emit with  *)
(* their parameters (codegen.go, opcodes.go), and the interpreter's switch *)
(* (emulator.c).  A ROM is run by two of them in turn, so they must agree  *)
(* on every opcode.                                                        *)
(*                                                                         *)
(* `code' goes through the unprefixed opcodes and then the CB-prefixed     *)
(* ones, which are numbered from 256 on.                                   *)
(***************************************************************************)
EXTENDS Decoder, Instructions

I == INSTANCE Interpreter

VARIABLE code

Codes == 0..511 \ {203}
Prefixed(c) == c >= 256

Init == code = 0
Next == /\ \E c \in Codes : c > code
        /\ code' = CHOOSE c \in Codes : c > code /\ \A d \in Codes : d > code => c <= d
Spec == Init /\ [][Next]_code
-----------------------------------------------------------------------------
(* The instruction the decoder makes of a code, and what the interpreter does *)

WithOperands(row, operands) ==
    [type |-> row.type, len |-> row.len, cycles |-> row.cycles, extra |-> row.extra,
     operands |-> operands]
Decoded(c) ==
    IF Prefixed(c)
    THEN WithOperands(decodeCbPrefixedOpcode[c - 256], CbOperands(c - 256))
    ELSE WithOperands(decodeOpcode[c], Operands(decodeOpcode[c].type, c))

Interpreted(c) ==
    IF Prefixed(c) THEN I!cb_exec(c - 256)
    ELSE LET case == I!Switch[c]
         IN  [operation |-> case.operation, operands |-> I!CaseOperands(c), len |-> case.len,
              cycles |-> case.cycles, extra |-> case.extra, continue |-> case.continue]
-----------------------------------------------------------------------------
(* The code generator's lists *)

\* The types joinBlocks has a case for.
JoinTypes == {"JP_NN", "JP_CC_NN", "JR_E", "JR_CC_E", "CALL_NN", "CALL_CC_NN",
              "RET", "RETI", "RET_CC", "JP_HL", "RST_N"}

RotateTypes == {"RLCA", "RRCA", "RLA", "RRA"}
               \cup UNION {{CbGroups[g][1], CbGroups[g][2]} : g \in 1..8}
BitTypes == UNION {{CbGroups[g][1], CbGroups[g][2]} : g \in 9..11}
AluImmediate == {"ADD_N", "ADC_N", "SUB_N", "SBC_N", "CP_N", "AND_N", "OR_N", "XOR_N"}

\* The types whose function buildParamFunc builds, with a parameter n, e or nn...
ParamTypes ==
    {"LD_R8_N", "LD_HL_N", "LD_A_NN", "LD_NN_A", "LDH_A_N", "LDH_N_A", "LD_R16_NN",
     "LD_NN_SP", "LD_HL_SP_E", "ADD_SP_E"} \cup AluImmediate \cup BitTypes

\* ... and those buildVoidFunc does: emitInstruction has a case for both.
VoidTypes ==
    {"NOP", "HALT", "STOP", "LD_R8_R8", "LD_R8_HL", "LD_HL_R8", "LD_A_BC", "LD_A_DE",
     "LD_BC_A", "LD_DE_A", "LDH_A_C", "LDH_C_A", "LD_A_HL_DEC", "LD_HL_DEC_A",
     "LD_A_HL_INC", "LD_HL_INC_A", "LD_SP_HL", "PUSH_R16", "POP_R16", "INC_R8", "DEC_R8",
     "INC_HL", "DEC_HL", "CCF", "SCF", "CPL", "DAA", "DI", "EI", "INC_R16", "DEC_R16",
     "ADD_HL_R16"} \cup AluTypes \cup AluMemory \cup RotateTypes

\* Mutant: the constant of ADD SP,e is not passed.
ArgTypesWithoutOffset ==
    {"LD_R8_N", "LD_HL_N", "LDH_A_N", "LDH_N_A", "LD_HL_SP_E"} \cup AluImmediate
        \cup BitTypes \cup {"LD_A_NN", "LD_NN_A", "LD_R16_NN", "LD_NN_SP"}

\* The types emitInstruction passes a constant to: Imm8Bit, BitOpIndex or Imm16Bit.
ArgTypes ==
    {"LD_R8_N", "LD_HL_N", "LDH_A_N", "LDH_N_A", "LD_HL_SP_E", "ADD_SP_E"} \cup AluImmediate
        \cup BitTypes \cup {"LD_A_NN", "LD_NN_A", "LD_R16_NN", "LD_NN_SP"}
-----------------------------------------------------------------------------
cur == Decoded(code)
Defined(i) == i.type # "UNKNOWN"

\* Compiled or interpreted, an instruction has the same length and takes the same
\* machine cycles, taken and not: where a block starts does not change timing.
SameCost ==
    LET i == Interpreted(code) IN
    Defined(cur) => cur.len = i.len /\ cur.cycles = i.cycles /\ cur.extra = i.extra

\* Both backends do the same operation on the same registers: what the decoder
\* computes from the opcode's bits is what the interpreter's cases spell out.
SameOperation ==
    LET i == Interpreted(code) IN
    cur.type = i.operation /\ cur.operands = i.operands

\* The three notions of a control transfer coincide: what ends a block, what
\* joinBlocks has code for, and what sets p in the interpreter.
SameTransfers ==
    /\ IsBlockTerminator(cur) <=> cur.type \in JoinTypes
    /\ IsBlockTerminator(cur) <=> Interpreted(code).continue

\* Whatever ends up inside a block can be emitted, and its function is called with
\* as many arguments as it was built with parameters.
Callable ==
    Defined(cur) /\ ~IsBlockTerminator(cur) =>
        /\ cur.type \in ParamTypes \cup VoidTypes
        /\ cur.type \in ParamTypes <=> cur.type \in ArgTypes

\* A function is built once per mnemonic: two instructions that share one differ
\* in nothing the function's body depends on.
OwnFunction ==
    \A c \in Codes :
        LET other == Decoded(c) IN
        Mnemonic(cur.type, cur.operands) = Mnemonic(other.type, other.operands) =>
            /\ cur.type = other.type /\ cur.operands = other.operands
            /\ cur.cycles = other.cycles
=============================================================================
