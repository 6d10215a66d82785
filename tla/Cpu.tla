-------------------------------- MODULE Cpu --------------------------------
(***************************************************************************)
(* What a recompiled program promises to be: a processor that executes     *)
(* whole instructions one after the other at its program counter, and may  *)
(* between two of them service the pending interrupt of highest priority.  *)
(* It knows nothing of blocks, of the dispatcher, of the interpreter or of *)
(* frames.  The outcome of a condition, the value of HL and what an access *)
(* to a hardware register changes in IF and IE are nondeterministic.       *)
(***************************************************************************)
EXTENDS Isa

VARIABLES code, pc, sp, stack, IME, if_reg, ie_reg, cycles

vars == <<code, pc, sp, stack, IME, if_reg, ie_reg, cycles>>

Init ==
    /\ code \in {im.code : im \in Images}
    /\ pc = 0 /\ sp = 0 /\ stack = [w \in Sp |-> 0]
    /\ IME = FALSE /\ if_reg = {} /\ ie_reg = {}
    /\ cycles = 0

Spend(n) == cycles' = (cycles + n) % CYCLE_MOD

Push(v) == LET top == (sp - 1) % SP_MOD IN
           sp' = top /\ stack' = [stack EXCEPT ![top] = v]
Pop == sp' = (sp + 1) % SP_MOD /\ UNCHANGED stack
NoStack == UNCHANGED <<sp, stack>>

\* What a non-terminator does beside going on to the next instruction.
Effect(i) ==
    CASE i.type \in {"EI", "DI"} ->
            IME' = (i.type = "EI") /\ NoStack /\ UNCHANGED <<if_reg, ie_reg>>
      [] i.type = "PUSH_R16" ->
            (\E v \in PushValues : Push(v)) /\ UNCHANGED <<IME, if_reg, ie_reg>>
      [] i.type = "POP_R16" -> Pop /\ UNCHANGED <<IME, if_reg, ie_reg>>
      [] i.type = "LD_SP_HL" -> sp' \in Sp /\ UNCHANGED <<stack, IME, if_reg, ie_reg>>
      [] i.type \in Loads ->
            if_reg' \in {r \in SUBSET Line : if_reg \subseteq r} /\ NoStack /\ UNCHANGED <<IME, ie_reg>>
      [] i.type \in Stores ->
            if_reg' \in SUBSET Line /\ ie_reg' \in SUBSET Line /\ NoStack /\ UNCHANGED IME
      [] OTHER -> NoStack /\ UNCHANGED <<IME, if_reg, ie_reg>>

Sequential(i) ==
    /\ ~IsBlockTerminator(i)
    /\ Effect(i)
    /\ pc' = Plus(pc, i.len)
    /\ Spend(i.cycles)

\* A control transfer: not taken, a conditional one goes on to the next instruction.
NotTaken(i) ==
    /\ i.type \in {"JP_CC_NN", "JR_CC_E", "CALL_CC_NN", "RET_CC"}
    /\ pc' = Plus(pc, i.len)
    /\ NoStack /\ UNCHANGED IME
    /\ Spend(i.cycles)

Taken(i) ==
    /\ IsBlockTerminator(i)
    /\ CASE i.type \in {"JP_NN", "JP_CC_NN"} -> pc' = i.imm /\ NoStack
         [] i.type \in {"JR_E", "JR_CC_E"}   -> pc' = Plus(pc, i.len + i.imm) /\ NoStack
         [] i.type = "JP_HL"                 -> pc' \in Pc /\ NoStack
         [] i.type \in {"CALL_NN", "CALL_CC_NN", "RST_N"} -> pc' = i.imm /\ Push(Plus(pc, i.len))
         [] i.type \in {"RET", "RETI", "RET_CC"}          -> pc' = stack[sp] /\ Pop
    /\ IME' = (IME \/ i.type = "RETI")
    /\ Spend(i.cycles + i.extra)

Execute ==
    /\ \E i \in Fetch(code, pc) :
        \/ Sequential(i)
        \/ (NotTaken(i) \/ Taken(i)) /\ UNCHANGED <<if_reg, ie_reg>>
    /\ UNCHANGED code

Pending == if_reg \cap ie_reg

\* The lowest line is serviced: it is acknowledged, interrupts are disabled, and
\* the address of the instruction that was to be executed is pushed.
Service ==
    /\ IME
    /\ \E i \in Pending :
        /\ \A j \in Pending : i <= j
        /\ if_reg' = if_reg \ {i}
        /\ pc' = Vectors[i]
    /\ Push(pc)
    /\ IME' = FALSE
    /\ UNCHANGED <<code, ie_reg, cycles>>

\* The hardware requests interrupts between two instructions.
Request ==
    /\ if_reg' \in {r \in SUBSET Line : if_reg \subseteq r}
    /\ UNCHANGED <<code, pc, sp, stack, IME, ie_reg, cycles>>

Next == Execute \/ Service \/ Request

Spec == Init /\ [][Next]_vars
=============================================================================
