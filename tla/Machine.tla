------------------------------ MODULE Machine ------------------------------
(***************************************************************************)
(* The recompiled program at run time: gb_run's frame loop (gbrc.h), the   *)
(* rom_main function the code generator emits (codegen.go, opcodes.go,     *)
(* helpers.go), the fallback interpreter (emulator.c), the interrupt       *)
(* controller (interrupt.c) and the profile (profile.c).                   *)
(*                                                                         *)
(* `loc' is the point the thread of control is at:                         *)
(*   "poll", "step", "tick"      in gb_run and gb_step                     *)
(*   "dispatch", "int", "lookup" in rom_main's return dispatcher           *)
(*   "block", "join"             in a compiled block, and behind its last  *)
(*                               instruction if that is no terminator      *)
(*   "emu", "emu_int", "emu_exec" in emulator_run's loop                   *)
(*   "quit"                      gb_run has returned                       *)
(* In block `blk', `ip' is the address of the instruction whose code runs  *)
(* next: both are known when the block is compiled, the program counter    *)
(* `pc' only when it runs.                                                 *)
(* `p' is emulator_run's local program counter.                            *)
(***************************************************************************)
EXTENDS Isa, FiniteSetsExt

CONSTANTS
    GB_CYCLES_PER_FRAME,
    Frames               \* bound on the frames before the user quits

ASSUME FrameAssumption == GB_CYCLES_PER_FRAME \in Nat \ {0} /\ Frames \in Nat

VARIABLES
    image, pc, sp, stack, IME, if_reg, ie_reg, cycles, g_budget,
    loc, blk, ip, p, profile_map, frame

cpu  == <<pc, sp, stack, IME, if_reg, ie_reg, cycles>>
vars == <<image, pc, sp, stack, IME, if_reg, ie_reg, cycles, g_budget,
          loc, blk, ip, p, profile_map, frame>>

InRomMain  == {"dispatch", "int", "lookup", "block", "join", "emu", "emu_int", "emu_exec"}
InEmulator == {"emu", "emu_int", "emu_exec"}

Starts == DOMAIN image.blocks

TypeOK ==
    /\ pc \in Pc /\ p \in Pc /\ sp \in Sp /\ stack \in [Sp -> Pc]
    /\ IME \in BOOLEAN /\ if_reg \subseteq Line /\ ie_reg \subseteq Line
    /\ cycles \in Cycle /\ g_budget \in Cycle
    /\ loc \in InRomMain \cup {"poll", "step", "tick", "quit"}
    /\ loc \in {"block", "join"} => blk \in Starts /\ ip \in image.blocks[blk].instrs
    /\ profile_map \subseteq Pc
    /\ frame \in 0..Frames

\* gb_attach: the ROM is copied to memory, the hardware is reset, and the first
\* frame gets its budget.  The globals start at zero, pc among them.
Init ==
    /\ image \in Images
    /\ pc = 0 /\ sp = 0 /\ stack = [w \in Sp |-> 0]
    /\ IME = FALSE /\ if_reg = {} /\ ie_reg = {}
    /\ cycles = 0 /\ g_budget = GB_CYCLES_PER_FRAME % CYCLE_MOD
    /\ loc = "poll" /\ blk = 0 /\ ip = 0 /\ p = 0
    /\ profile_map = {} /\ frame = 0
-----------------------------------------------------------------------------
(* gb_run and gb_step *)

\* gb_poll: a key press may request the joypad interrupt; then the user quits, at
\* the latest after Frames frames, or one more frame runs.
gb_poll ==
    /\ loc = "poll"
    /\ if_reg' \in {if_reg} \cup {if_reg \cup {Lines - 1}}
    /\ loc' \in {"quit"} \cup IF frame < Frames THEN {"step"} ELSE {}
    /\ UNCHANGED <<image, pc, sp, stack, IME, ie_reg, cycles, g_budget, blk, ip, p, profile_map, frame>>

\* gb_step calls rom_main, whose boot_entry branches to the dispatcher; in a program
\* without a block it returns at once.
boot_entry ==
    /\ loc = "step"
    /\ loc' = IF Starts # {} THEN "dispatch" ELSE "tick"
    /\ UNCHANGED <<image, cpu, g_budget, blk, ip, p, profile_map, frame>>

\* The rest of gb_step and gb_run's loop: the hardware catches up, and the next
\* frame gets its budget.
gb_step ==
    /\ loc = "tick"
    /\ if_reg' \in {r \in SUBSET Line : if_reg \subseteq r}
    /\ g_budget' = (cycles + GB_CYCLES_PER_FRAME) % CYCLE_MOD
    /\ frame' = frame + 1
    /\ loc' = "poll"
    /\ UNCHANGED <<image, pc, sp, stack, IME, ie_reg, cycles, blk, ip, p, profile_map>>
-----------------------------------------------------------------------------
(* Interrupts *)

Pending == if_reg \cap ie_reg

PushWord(v) == LET top == (sp - 1) % SP_MOD IN
               sp' = top /\ stack' = [stack EXCEPT ![top] = v]
PopWord == sp' = (sp + 1) % SP_MOD /\ UNCHANGED stack

\* interrupt_service finds a pending interrupt: its bit, the lowest, is cleared and
\* so is IME, the global pc (ret) is pushed, and the vector returned.
interrupt_service(ret, vec) ==
    /\ \E i \in Pending : (\A j \in Pending : i <= j) /\ if_reg' = if_reg \ {i} /\ vec = Vectors[i]
    /\ PushWord(ret)
    /\ IME' = FALSE
    /\ UNCHANGED <<ie_reg, cycles>>
-----------------------------------------------------------------------------
(* rom_main's return dispatcher *)

\* Mutant: rom_main returns when the counter meets the budget exactly.
OverAtEquality == cycles = g_budget

over == cycles >= g_budget

\* ret_dispatch: the budget is checked before anything else.
ret_dispatch ==
    /\ loc = "dispatch"
    /\ loc' = IF over THEN "tick" ELSE "int"
    /\ UNCHANGED <<image, cpu, g_budget, blk, ip, p, profile_map, frame>>

\* Mutant: with interrupts enabled and one pending, the block at pc runs first.
DispatchIgnoresInterrupts ==
    /\ loc = "int"
    /\ loc' = "lookup"
    /\ UNCHANGED <<image, cpu, g_budget, blk, ip, p, profile_map, frame>>

\* ret_dispatch_int, ret_dispatch_int_service, ret_dispatch_load_vector.
ret_dispatch_int ==
    /\ loc = "int"
    /\ loc' = "lookup"
    /\ \/ /\ IME /\ Pending # {}
          /\ \E vec \in Pc : interrupt_service(pc, vec) /\ pc' = vec
       \/ /\ ~(IME /\ Pending # {})
          /\ UNCHANGED cpu
    /\ UNCHANGED <<image, g_budget, blk, ip, p, profile_map, frame>>

\* Mutant: the chain of comparisons stops before its last block.
FoundButLast(a) == a \in Starts /\ \E s \in Starts : s > a

\* ret_dispatch_lookup: one comparison per block.
Found(a) == a \in Starts

lookup_block ==
    /\ loc = "lookup" /\ Found(pc)
    /\ loc' = "block" /\ blk' = pc /\ ip' = pc
    /\ UNCHANGED <<image, cpu, g_budget, p, profile_map, frame>>

profile_record(a) == profile_map' = profile_map \cup {a}

\* ret_dispatch_end: emulator_run is called with pc.
lookup_end ==
    /\ loc = "lookup" /\ ~Found(pc)
    /\ loc' = "emu" /\ p' = pc
    /\ profile_record(pc)
    /\ UNCHANGED <<image, cpu, g_budget, blk, ip, frame>>
-----------------------------------------------------------------------------
(* What the function of an instruction does, compiled or interpreted *)

NoStack == UNCHANGED <<sp, stack>>

Effect(i) ==
    CASE i.type \in {"EI", "DI"} ->
            IME' = (i.type = "EI") /\ NoStack /\ UNCHANGED <<if_reg, ie_reg>>
      [] i.type = "PUSH_R16" ->
            (\E v \in PushValues : PushWord(v)) /\ UNCHANGED <<IME, if_reg, ie_reg>>
      [] i.type = "POP_R16" -> PopWord /\ UNCHANGED <<IME, if_reg, ie_reg>>
      [] i.type = "LD_SP_HL" -> sp' \in Sp /\ UNCHANGED <<stack, IME, if_reg, ie_reg>>
      [] i.type \in Loads ->
            if_reg' \in {r \in SUBSET Line : if_reg \subseteq r} /\ NoStack /\ UNCHANGED <<IME, ie_reg>>
      [] i.type \in Stores ->
            if_reg' \in SUBSET Line /\ ie_reg' \in SUBSET Line /\ NoStack /\ UNCHANGED IME
      [] OTHER -> NoStack /\ UNCHANGED <<IME, if_reg, ie_reg>>

increaseCycles(n) == cycles' = (cycles + n) % CYCLE_MOD
-----------------------------------------------------------------------------
(* Compiled blocks *)

Cur == image.code[ip]
Blk == image.blocks[blk]

\* Mutant: pc goes on by one byte, whatever the length.
PcByOne(i) == Plus(pc, 1)

PcInc(i) == Plus(pc, i.len)

\* emitCalls: every instruction but a terminator is called, and pc goes past it.
emitCalls ==
    /\ loc = "block" /\ ~IsBlockTerminator(Cur)
    /\ Effect(Cur)
    /\ increaseCycles(Cur.cycles)
    /\ pc' = PcInc(Cur)
    /\ IF ip = Blk.last THEN loc' = "join" /\ UNCHANGED ip
       ELSE ip' = Min({j \in Blk.instrs : j > ip}) /\ UNCHANGED loc
    /\ UNCHANGED <<image, g_budget, blk, p, profile_map, frame>>

\* joinBlocks, default: a block without a terminator stores its successor and
\* dispatches; without a successor it returns from rom_main.
joinBlocks ==
    /\ loc = "join"
    /\ IF Len(Blk.succ) = 1 THEN pc' = Blk.succ[1] /\ loc' = "dispatch"
       ELSE UNCHANGED pc /\ loc' = "tick"
    /\ UNCHANGED <<image, sp, stack, IME, if_reg, ie_reg, cycles, g_budget, blk, ip, p, profile_map, frame>>

\* Mutant: the return address is that of the terminator itself.
AtTerminator == ip

\* The address behind the terminator, a constant of the compiled code.
Behind == Plus(ip, Cur.len)

\* A terminator's code: pc is stored, and control goes back to the dispatcher.
Terminator(types, target, cost) ==
    /\ loc = "block" /\ Cur.type \in types
    /\ pc' = target /\ increaseCycles(cost)
    /\ loc' = "dispatch"
    /\ UNCHANGED <<image, if_reg, ie_reg, g_budget, blk, ip, p, profile_map, frame>>

calculateRelativeJumpAddress == Plus(ip, Cur.len + Cur.imm)

jp_nn    == Terminator({"JP_NN"}, Cur.imm, Cur.cycles) /\ NoStack /\ UNCHANGED IME
jp_cc_nn == \E taken \in BOOLEAN :
    /\ Terminator({"JP_CC_NN"}, IF taken THEN Cur.imm ELSE Behind,
                  Cur.cycles + IF taken THEN Cur.extra ELSE 0)
    /\ NoStack /\ UNCHANGED IME
jr_e     == Terminator({"JR_E"}, calculateRelativeJumpAddress, Cur.cycles) /\ NoStack /\ UNCHANGED IME
jr_cc_e  == \E taken \in BOOLEAN :
    /\ Terminator({"JR_CC_E"}, IF taken THEN calculateRelativeJumpAddress ELSE Behind,
                  Cur.cycles + IF taken THEN Cur.extra ELSE 0)
    /\ NoStack /\ UNCHANGED IME
call_nn  == Terminator({"CALL_NN"}, Cur.imm, Cur.cycles) /\ PushWord(Behind) /\ UNCHANGED IME
call_cc_nn == \E taken \in BOOLEAN :
    /\ Terminator({"CALL_CC_NN"}, IF taken THEN Cur.imm ELSE Behind,
                  Cur.cycles + IF taken THEN Cur.extra ELSE 0)
    /\ IF taken THEN PushWord(Behind) ELSE NoStack
    /\ UNCHANGED IME
rst_n    == Terminator({"RST_N"}, Cur.imm, Cur.cycles) /\ PushWord(Behind) /\ UNCHANGED IME
ret      == Terminator({"RET"}, stack[sp], Cur.cycles) /\ PopWord /\ UNCHANGED IME
reti     == Terminator({"RETI"}, stack[sp], Cur.cycles) /\ PopWord /\ IME' = TRUE
ret_cc   == \E taken \in BOOLEAN :
    /\ Terminator({"RET_CC"}, IF taken THEN stack[sp] ELSE Behind,
                  Cur.cycles + IF taken THEN Cur.extra ELSE 0)
    /\ IF taken THEN PopWord ELSE NoStack
    /\ UNCHANGED IME
jp_hl    == \E hl \in Pc : Terminator({"JP_HL"}, hl, Cur.cycles) /\ NoStack /\ UNCHANGED IME
-----------------------------------------------------------------------------
(* The fallback interpreter *)

\* Mutant: only a block start ends the interpreter's loop.
AtBlockOnly == p \in Starts

Leaves == p \in Starts \/ cycles >= g_budget

\* The head of emulator_run's loop: at a block start or at the end of the budget
\* it returns p, which rom_main stores in pc before it dispatches.
emulator_head ==
    /\ loc = "emu"
    /\ IF Leaves THEN loc' = "dispatch" /\ pc' = p /\ p' = 0
       ELSE loc' = "emu_int" /\ UNCHANGED <<pc, p>>
    /\ UNCHANGED <<image, sp, stack, IME, if_reg, ie_reg, cycles, g_budget, blk, ip, profile_map, frame>>

\* With IME set, pc is brought up to date and interrupt_service called; p goes on
\* at the vector, which is not looked up among the block starts.
emulator_int ==
    /\ loc = "emu_int"
    /\ loc' = "emu_exec"
    /\ pc' = IF IME THEN p ELSE pc
    /\ \/ IME /\ \E vec \in Pc : interrupt_service(p, vec) /\ p' = vec
       \/ ~(IME /\ Pending # {}) /\ UNCHANGED <<p, sp, stack, IME, if_reg, ie_reg, cycles>>
    /\ UNCHANGED <<image, g_budget, blk, ip, profile_map, frame>>

\* Mutant: p is wider than 16 bits.
PBehindWide(i) == p + i.len

PBehind(i) == Plus(p, i.len)

\* The switch on the opcode at p: it leaves p at the next instruction to run.
Switch(next, cost) ==
    /\ loc = "emu_exec" /\ loc' = "emu"
    /\ p' = next /\ increaseCycles(cost)
    /\ UNCHANGED <<image, pc, g_budget, blk, ip, profile_map, frame>>

At(types) == {i \in Fetch(image.code, p) : i.type \in types}
NoEffect == NoStack /\ UNCHANGED <<IME, if_reg, ie_reg>>

emu_plain == \E i \in Fetch(image.code, p) :
    /\ ~IsBlockTerminator(i)
    /\ Effect(i) /\ Switch(PBehind(i), i.cycles)

emu_untaken == \E i \in At({"JP_CC_NN", "JR_CC_E", "CALL_CC_NN", "RET_CC"}) :
    Switch(PBehind(i), i.cycles) /\ NoEffect

emu_jp == \E i \in At({"JP_NN", "JP_CC_NN"}) : Switch(i.imm, i.cycles + i.extra) /\ NoEffect
emu_jr == \E i \in At({"JR_E", "JR_CC_E"}) : Switch(Plus(p, i.len + i.imm), i.cycles + i.extra) /\ NoEffect
emu_jp_hl == \E i \in At({"JP_HL"}), hl \in Pc : Switch(hl, i.cycles) /\ NoEffect

emu_call == \E i \in At({"CALL_NN", "CALL_CC_NN", "RST_N"}) :
    /\ Switch(i.imm, i.cycles + i.extra)
    /\ PushWord(PBehind(i)) /\ UNCHANGED <<IME, if_reg, ie_reg>>

emu_ret == \E i \in At({"RET", "RET_CC", "RETI"}) :
    /\ Switch(stack[sp], i.cycles + i.extra)
    /\ PopWord
    /\ IME' = (IME \/ i.type = "RETI")
    /\ UNCHANGED <<if_reg, ie_reg>>

emulator_switch ==
    emu_plain \/ emu_untaken \/ emu_jp \/ emu_jr \/ emu_jp_hl \/ emu_call \/ emu_ret
-----------------------------------------------------------------------------
terminators == jp_nn \/ jp_cc_nn \/ jr_e \/ jr_cc_e \/ call_nn \/ call_cc_nn
               \/ rst_n \/ ret \/ reti \/ ret_cc \/ jp_hl

\* gb_run has returned.
Quit == loc = "quit" /\ UNCHANGED vars

Next ==
    \/ gb_poll \/ boot_entry \/ gb_step
    \/ ret_dispatch \/ ret_dispatch_int \/ lookup_block \/ lookup_end
    \/ emitCalls \/ joinBlocks \/ terminators
    \/ emulator_head \/ emulator_int \/ emulator_switch
    \/ Quit

Spec == Init /\ [][Next]_vars

\* One thread runs it all: it takes its next step until the user quits.
FairSpec == Spec /\ WF_vars(Next)
-----------------------------------------------------------------------------
\* The program counter of the processor the program runs on.
cpuPc == IF loc \in InEmulator THEN p ELSE pc

\* The recompiled program is a processor: compiled or interpreted, it executes
\* every instruction once and whole, in the order of the program counter, and an
\* interrupt never returns into the middle of a block already run.
C == INSTANCE Cpu WITH code <- image.code, pc <- cpuPc
ImplementsCpu == C!Spec

\* What was compiled into a block is what pc says is being executed, although pc
\* is only ever added to while the block runs.
BlockPc ==
    /\ loc = "block" => pc = ip
    /\ loc = "join" => pc = Plus(ip, image.code[ip].len)

\* What the instructions of a block cost that lie below each address.
Cost(i) == i.cycles + i.extra
CostBelow(code, b) ==
    LET cost[n \in 0..ROM_END] ==
            IF n = 0 THEN 0 ELSE cost[n - 1] + IF n - 1 \in b.instrs THEN Cost(code[n - 1]) ELSE 0
    IN  cost

\* The most machine cycles that pass between two looks at the budget: a whole
\* block, or one interpreted instruction.
Costs(im) ==
    {Cost(i) : i \in UNION {Fetch(im.code, a) : a \in Pc}}
    \cup {CostBelow(im.code, im.blocks[s])[ROM_END] : s \in DOMAIN im.blocks}
Longest == Max(Costs(image))

\* A frame never overruns its budget by more than one block.
Overshoot == cycles < g_budget + Longest

\* Nothing costs more than L between two looks at the budget, and the cycle counter is wide enough for
\* the frames of a session, each overrun by as much.
Roomy(L) ==
    /\ L \in Nat
    /\ \A im \in Images : \A n \in Costs(im) : n <= L
    /\ Frames * (GB_CYCLES_PER_FRAME + L) + GB_CYCLES_PER_FRAME < CYCLE_MOD

\* An enabled, pending interrupt is serviced before the next block runs.
ServicedFirst == [][loc # "block" /\ loc' = "block" => ~IME' \/ if_reg' \cap ie_reg' = {}]_vars

\* The profile only names addresses that no block starts at, so that every one
\* of them is code the next recompilation does not know yet.
ProfileFresh == profile_map \cap Starts = {}

\* Every frame ends: rom_main returns, whatever the program does.
FrameEnds == loc = "step" ~> loc = "tick"

\* The runtime gives every frame its budget, so rom_main has something to run.
FrameHasBudget == loc = "step" => cycles < g_budget

\* rom_main returns only when the cycle deadline is exhausted.
ReturnsAtDeadline == loc = "tick" => cycles >= g_budget

\* The interpreter keeps running only until it reaches a recompiled block.
NeverInterpretsBlock == loc = "emu_exec" => p \notin Starts
=============================================================================
