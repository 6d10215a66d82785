---------------------------- MODULE Instructions ----------------------------
(***************************************************************************)
(* The classes of decoder.InstructionType that the analyzer, the code      *)
(* generator and the runtime tell apart.  An instruction is a record       *)
(* [type, len, cycles, extra, imm]: `extra' is AdditionalMCycles and `imm' *)
(* is Imm8Bit, Imm16Bit or CallFunctionAddress.                            *)
(***************************************************************************)
\* Mutant: RST is not recognised as a call.
TerminatorsButRst == {"JP_NN", "JP_HL", "JR_E", "RET", "RETI", "JP_CC_NN", "JR_CC_E",
                      "RET_CC", "CALL_NN", "CALL_CC_NN"}

Terminators == {"JP_NN", "JP_HL", "JR_E", "RET", "RETI", "JP_CC_NN", "JR_CC_E",
                "RET_CC", "CALL_NN", "CALL_CC_NN", "RST_N"}
IsBlockTerminator(instr) == instr.type \in Terminators

\* Instructions that read memory through the bus, and so may read a register of
\* the hardware; those that write memory may write one, IF and IE included.
Loads == {"LD_R8_HL", "LD_A_BC", "LD_A_DE", "LD_A_NN", "LDH_A_C", "LDH_A_N", "LD_A_HL_DEC",
          "LD_A_HL_INC", "ADD_HL", "ADC_HL", "SUB_HL", "SBC_HL", "CP_HL", "AND_HL", "OR_HL",
          "XOR_HL", "CB_BIT_HL"}
Stores == {"LD_HL_R8", "LD_HL_N", "LD_BC_A", "LD_DE_A", "LD_NN_A", "LDH_C_A", "LDH_N_A",
           "LD_HL_DEC_A", "LD_HL_INC_A", "LD_NN_SP", "INC_HL", "DEC_HL", "CB_RLC_HL",
           "CB_RRC_HL", "CB_RL_HL", "CB_RR_HL", "CB_SLA_HL", "CB_SRA_HL", "CB_SWAP_HL",
           "CB_SRL_HL", "CB_RES_HL", "CB_SET_HL"}
=============================================================================
