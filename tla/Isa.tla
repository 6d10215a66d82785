-------------------------------- MODULE Isa --------------------------------
(***************************************************************************)
(* What the abstract processor (Cpu) and the recompiled program (Machine)  *)
(* have in common: the sizes of the machine, scaled down for TLC, and the  *)
(* compiled images they run.                                               *)
(*                                                                         *)
(* The ROM is [0, ROM_END): what it decodes to never changes.  The other   *)
(* addresses are RAM, whose contents the program writes at will: any       *)
(* instruction of RamInstructions may be found there.  The stack is a word *)
(* memory of its own, apart from the code and the hardware registers.      *)
(*                                                                         *)
(* An image is what the analyzer hands to the code generator: `code', the  *)
(* decoded ROM, and `blocks', the basic blocks by start.                   *)
(***************************************************************************)
EXTENDS Integers, Sequences, Instructions

CONSTANTS
    ROM_END,          \* 0x8000
    PC_MOD,           \* 2^16
    SP_MOD,           \* words of stack memory
    CYCLE_MOD,        \* 2^32
    Lines,            \* interrupt lines 0..Lines-1, in priority order
    Vectors,          \* the vector of each line
    Images,           \* compiled ROMs
    RamInstructions,  \* what may be found in RAM
    PushValues        \* register values PUSH may push

Pc    == 0..(PC_MOD - 1)
Sp    == 0..(SP_MOD - 1)
Rom   == 0..(ROM_END - 1)
Cycle == 0..(CYCLE_MOD - 1)
Line  == 0..(Lines - 1)

\* An instruction as it is executed; an undefined opcode is UNKNOWN, and what
\* the decoder says of its length and cycles (0) is not what running it takes.
Instr == [type : STRING, len : 1..3, cycles : Nat \ {0}, extra : Nat, imm : Int]
Undefined == [type |-> "UNKNOWN", len |-> 1, cycles |-> 1, extra |-> 0, imm |-> 0]

Fetch(code, a) ==
    IF a >= ROM_END THEN RamInstructions
    ELSE IF code[a].type = "UNKNOWN" THEN {Undefined}
    ELSE {code[a]}

Plus(a, n) == (a + n) % PC_MOD

\* A block as the analyzer builds it (Analyzer!Contiguous, Analyzer!JoinContract):
\* its instructions follow one another from its start, only the last may be a
\* terminator, and a block without one falls through to the next address, if
\* that is in the ROM.
BlockContract(code, s, b) ==
    /\ s \in b.instrs /\ b.instrs \subseteq Rom /\ b.last \in b.instrs
    /\ \A i \in b.instrs :
        /\ code[i].type # "UNKNOWN"
        /\ s <= i /\ i <= b.last
        /\ i # b.last => /\ ~IsBlockTerminator(code[i])
                         /\ i + code[i].len \in b.instrs
                         /\ \A j \in b.instrs : j > i => j >= i + code[i].len
    /\ ~IsBlockTerminator(code[b.last]) =>
        LET next == b.last + code[b.last].len IN
        b.succ = IF next < ROM_END THEN <<next>> ELSE <<>>

\* A constant operand is an address unless it is an offset, and only what may go two ways takes
\* longer one way.
OperandAndCost(i) ==
    /\ i.imm \in Pc \/ i.type \in {"JR_E", "JR_CC_E"}
    /\ i.extra = 0 \/ i.type \in {"JP_CC_NN", "JR_CC_E", "CALL_CC_NN", "RET_CC"}

ASSUME IsaAssumption ==
    /\ PC_MOD \in Nat /\ ROM_END \in 1..PC_MOD
    /\ SP_MOD \in Nat \ {0} /\ CYCLE_MOD \in Nat \ {0} /\ Lines \in Nat \ {0}
    /\ Vectors \in [Line -> Pc]
    /\ RamInstructions \subseteq Instr /\ PushValues \subseteq Pc
    /\ \A i \in RamInstructions : OperandAndCost(i)

\* Every image decodes within the ROM and its blocks keep the contract.
ASSUME ImageAssumption ==
    \A im \in Images :
        /\ DOMAIN im.code = Rom /\ DOMAIN im.blocks \subseteq Rom
        /\ \A a \in Rom : im.code[a].type # "UNKNOWN" =>
            /\ im.code[a] \in Instr /\ a + im.code[a].len <= ROM_END
            /\ OperandAndCost(im.code[a])
        /\ \A s \in DOMAIN im.blocks : BlockContract(im.code, s, im.blocks[s])
=============================================================================
