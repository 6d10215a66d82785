--------------------------- MODULE MachineProofs ---------------------------
(***************************************************************************)
(* For every compiled image whose blocks keep BlockContract, every budget  *)
(* and every behaviour of hardware and user: the program counter is right  *)
(* inside blocks, interrupts are serviced before the next block, the       *)
(* program implements the processor of Cpu, and no frame overruns its      *)
(* budget by more than a block.                                            *)
(*                                                                         *)
(* The inductive invariant adds what control flow guarantees at a few      *)
(* points (Inside): behind which instruction a block joins, that the       *)
(* dispatcher has looked for interrupts before it looks for a block.       *)
(* A second one (InBudget) relates the counter to the budget and to what   *)
(* the instructions of the block executed so far cost.                     *)
(***************************************************************************)
EXTENDS Machine, WellFoundedInduction, TLAPS

Inside ==
    /\ image \in Images
    /\ loc = "join" => ip = Blk.last /\ ~IsBlockTerminator(Cur)
    /\ loc \notin {"poll", "quit"} => frame < Frames
    /\ loc = "lookup" => ~IME \/ Pending = {}

IInv == TypeOK /\ BlockPc /\ Inside /\ ProfileFresh

\* The part of the types that an instruction may change.
CpuOK ==
    /\ sp \in Sp /\ stack \in [Sp -> Pc] /\ IME \in BOOLEAN
    /\ if_reg \subseteq Line /\ ie_reg \subseteq Line /\ cycles \in Cycle

-----------------------------------------------------------------------------
(* The operators *)

LEMMA Sizes ==
    /\ PC_MOD \in Nat \ {0} /\ SP_MOD \in Nat \ {0} /\ CYCLE_MOD \in Nat \ {0}
    /\ ROM_END \in Nat /\ ROM_END <= PC_MOD
    /\ Lines - 1 \in Line /\ 0 \in Pc /\ 0 \in Sp /\ 0 \in Cycle
BY IsaAssumption DEF Pc, Sp, Cycle, Line

LEMMA PlusType == ASSUME NEW a \in Int, NEW n \in Int PROVE Plus(a, n) \in Pc
BY Sizes DEF Plus, Pc

LEMMA PlusSmall == ASSUME NEW a \in Int, NEW n \in Int, a + n \in 0..(PC_MOD - 1) PROVE Plus(a, n) = a + n
BY Sizes DEF Plus

\* An instruction that runs has a length, a cost, and a constant that is an address unless it is
\* an offset.
LEMMA FetchType ==
    ASSUME NEW im \in Images, NEW a \in Pc, NEW i \in Fetch(im.code, a)
    PROVE  /\ i.len \in 1..3 /\ i.cycles \in Nat /\ i.extra \in Nat /\ i.imm \in Int
           /\ OperandAndCost(i)
<1>1. CASE a >= ROM_END
  BY <1>1, IsaAssumption DEF Fetch, Instr
<1>2. CASE a < ROM_END
  <2>1. a \in Rom
    BY <1>2, Sizes DEF Rom, Pc
  <2>2. CASE im.code[a].type = "UNKNOWN"
    BY <1>2, <2>2, Sizes DEF Fetch, Undefined, Pc, OperandAndCost
  <2>3. CASE im.code[a].type # "UNKNOWN"
    <3>1. i = im.code[a]
      BY <1>2, <2>3, Sizes DEF Fetch, Pc
    <3>2. im.code[a] \in Instr /\ OperandAndCost(im.code[a])
      BY <2>1, <2>3, ImageAssumption
    <3> QED
      BY <3>1, <3>2 DEF Instr
  <2> QED
    BY <2>2, <2>3
<1> QED
  BY <1>1, <1>2, Sizes DEF Pc

LEMMA PushType ==
    ASSUME CpuOK, NEW v \in Pc, PushWord(v) PROVE sp' \in Sp /\ stack' \in [Sp -> Pc]
BY Sizes DEF CpuOK, PushWord, Sp

LEMMA PopType ==
    ASSUME CpuOK, PopWord PROVE sp' \in Sp /\ stack' \in [Sp -> Pc] /\ stack[sp] \in Pc
BY Sizes DEF CpuOK, PopWord, Sp

\* The cases of Effect exclude each other.
LEMMA Apart ==
    /\ Loads \cap Stores = {}
    /\ {"EI", "DI", "PUSH_R16", "POP_R16", "LD_SP_HL"} \cap (Loads \cup Stores) = {}
BY DEF Loads, Stores

LEMMA EffectType ==
    ASSUME CpuOK, NEW i, Effect(i)
    PROVE  sp' \in Sp /\ stack' \in [Sp -> Pc] /\ IME' \in BOOLEAN /\ if_reg' \subseteq Line /\ ie_reg' \subseteq Line
<1>1. CASE i.type \in {"EI", "DI"}
  BY <1>1 DEF Effect, CpuOK, NoStack
<1>2. CASE i.type = "PUSH_R16"
  <2>1. (\E v \in PushValues : PushWord(v)) /\ UNCHANGED <<IME, if_reg, ie_reg>>
    BY <1>2, Apart DEF Effect
  <2> QED
    BY <2>1, PushType, IsaAssumption DEF CpuOK
<1>3. CASE i.type = "POP_R16"
  <2>1. PopWord /\ UNCHANGED <<IME, if_reg, ie_reg>>
    BY <1>3, Apart DEF Effect
  <2> QED
    BY <2>1, PopType DEF CpuOK
<1>4. CASE i.type = "LD_SP_HL"
  <2>1. sp' \in Sp /\ UNCHANGED <<stack, IME, if_reg, ie_reg>>
    BY <1>4, Apart DEF Effect
  <2> QED
    BY <2>1 DEF CpuOK
<1>5. CASE i.type \in Loads
  <2>1. i.type \notin {"EI", "DI", "PUSH_R16", "POP_R16", "LD_SP_HL"} \cup Stores
    BY <1>5, Apart
  <2>2. if_reg' \in {r \in SUBSET Line : if_reg \subseteq r} /\ NoStack /\ UNCHANGED <<IME, ie_reg>>
    BY <1>5, <2>1 DEF Effect
  <2> QED
    BY <2>2 DEF CpuOK, NoStack
<1>6. CASE i.type \in Stores
  <2>1. i.type \notin {"EI", "DI", "PUSH_R16", "POP_R16", "LD_SP_HL"} \cup Loads
    BY <1>6, Apart
  <2> QED
    BY <1>6, <2>1 DEF Effect, CpuOK, NoStack
<1>7. CASE i.type \notin {"EI", "DI", "PUSH_R16", "POP_R16", "LD_SP_HL"} \cup Loads \cup Stores
  BY <1>7 DEF Effect, CpuOK, NoStack
<1> QED
  BY <1>1, <1>2, <1>3, <1>4, <1>5, <1>6, <1>7

LEMMA CostType ==
    ASSUME CpuOK, NEW n \in Nat, increaseCycles(n) PROVE cycles' \in Cycle
BY Sizes DEF CpuOK, increaseCycles, Cycle

LEMMA ServiceType ==
    ASSUME CpuOK, NEW at \in Pc, NEW vec, interrupt_service(at, vec)
    PROVE  CpuOK' /\ vec \in Pc /\ IME' = FALSE
<1>1. sp' \in Sp /\ stack' \in [Sp -> Pc]
  BY PushType DEF interrupt_service
<1>2. vec \in Pc
  BY IsaAssumption DEF interrupt_service, Pending, CpuOK
<1> QED
  BY <1>1, <1>2 DEF interrupt_service, CpuOK

\* The instruction a block is at.
LEMMA BlockInstr ==
    ASSUME IInv, loc \in {"block", "join"}
    PROVE  /\ blk \in Starts /\ BlockContract(image.code, blk, Blk)
           /\ ip \in Blk.instrs /\ ip \in Rom /\ ip \in Pc
           /\ Cur \in Fetch(image.code, ip) /\ Fetch(image.code, ip) = {Cur}
           /\ Cur.type # "UNKNOWN" /\ ip + Cur.len <= ROM_END
<1>1. blk \in Starts /\ ip \in Blk.instrs /\ image \in Images
  BY DEF IInv, TypeOK, Inside, Blk
<1>2. BlockContract(image.code, blk, Blk)
  BY <1>1, ImageAssumption DEF Blk, Starts
<1>3. ip \in Rom /\ Cur.type # "UNKNOWN"
  BY <1>1, <1>2 DEF BlockContract, Cur
<1>4. ip \in Pc /\ ip < ROM_END
  BY <1>3, Sizes DEF Rom, Pc
<1>5. Fetch(image.code, ip) = {Cur}
  BY <1>3, <1>4, Sizes DEF Fetch, Cur, Rom
<1> QED
  BY <1>1, <1>2, <1>3, <1>4, <1>5, ImageAssumption DEF Cur
-----------------------------------------------------------------------------
(* Every action keeps the invariant *)

\* What holds between the instructions: a step to such a point keeps the invariant if it keeps the types.
Between == {"poll", "step", "tick", "quit", "dispatch", "int", "emu", "emu_int", "emu_exec"}

LEMMA ToBetween ==
    ASSUME IInv, CpuOK', image' = image, pc' \in Pc, p' \in Pc, g_budget' \in Cycle, profile_map' = profile_map,
           loc' \in Between, frame' \in 0..Frames, loc' \notin {"poll", "quit"} => frame' < Frames
    PROVE  IInv'
<1>1. TypeOK'
  BY DEF IInv, TypeOK, CpuOK, Between, InRomMain, Starts
<1>2. BlockPc'
  BY DEF BlockPc, Between
<1>3. Inside'
  BY DEF IInv, Inside, Between
<1>4. ProfileFresh'
  BY DEF IInv, ProfileFresh, Starts
<1> QED
  BY <1>1, <1>2, <1>3, <1>4 DEF IInv

LEMMA InitHolds == Init => IInv
<1> SUFFICES ASSUME Init PROVE IInv
  OBVIOUS
<1>1. TypeOK
  <2>1. g_budget \in Cycle /\ frame \in 0..Frames
    BY Sizes, FrameAssumption DEF Init, Cycle
  <2>2. stack \in [Sp -> Pc] /\ pc \in Pc /\ p \in Pc /\ sp \in Sp /\ cycles \in Cycle
    BY Sizes DEF Init
  <2> QED
    BY <2>1, <2>2 DEF Init, TypeOK
<1>2. BlockPc /\ Inside /\ ProfileFresh
  BY DEF Init, BlockPc, Inside, ProfileFresh
<1> QED
  BY <1>1, <1>2 DEF IInv

LEMMA FrameLoop == ASSUME IInv, gb_poll \/ boot_entry \/ gb_step \/ ret_dispatch PROVE IInv'
<1>1. CpuOK /\ pc \in Pc /\ p \in Pc /\ g_budget \in Cycle /\ frame \in 0..Frames /\ Frames \in Nat
  BY FrameAssumption DEF IInv, TypeOK, CpuOK
<1>2. CASE gb_poll
  <2>1. CpuOK'
    BY <1>1, <1>2, Sizes DEF gb_poll, CpuOK
  <2> QED
    BY <1>1, <1>2, <2>1, ToBetween DEF gb_poll, Between
<1>3. CASE boot_entry
  <2>1. CpuOK' /\ frame < Frames
    BY <1>1, <1>3 DEF boot_entry, CpuOK, cpu, IInv, Inside
  <2> QED
    BY <1>1, <1>3, <2>1, ToBetween DEF boot_entry, Between, cpu
<1>4. CASE gb_step
  <2>1. CpuOK' /\ frame < Frames
    BY <1>1, <1>4 DEF gb_step, CpuOK, IInv, Inside
  <2>2. g_budget' \in Cycle
    BY <1>1, <1>4, Sizes, FrameAssumption DEF gb_step, Cycle, CpuOK
  <2> QED
    BY <1>1, <1>4, <2>1, <2>2, ToBetween DEF gb_step, Between
<1>5. CASE ret_dispatch
  <2>1. CpuOK' /\ frame < Frames
    BY <1>1, <1>5 DEF ret_dispatch, CpuOK, cpu, IInv, Inside
  <2> QED
    BY <1>1, <1>5, <2>1, ToBetween DEF ret_dispatch, Between, cpu
<1> QED
  BY <1>2, <1>3, <1>4, <1>5

LEMMA DispatchInt == ASSUME IInv, ret_dispatch_int PROVE IInv'
<1>1. CpuOK /\ pc \in Pc
  BY DEF IInv, TypeOK, CpuOK
<1>2. CpuOK' /\ pc' \in Pc /\ (~IME' \/ Pending' = {})
  <2>1. CASE IME /\ Pending # {}
    BY <1>1, <2>1, ServiceType DEF ret_dispatch_int
  <2>2. CASE ~(IME /\ Pending # {})
    BY <1>1, <2>2 DEF ret_dispatch_int, cpu, CpuOK, Pending
  <2> QED
    BY <2>1, <2>2
<1>3. TypeOK'
  BY <1>2 DEF IInv, TypeOK, CpuOK, ret_dispatch_int, InRomMain
<1>4. BlockPc' /\ Inside' /\ ProfileFresh'
  BY <1>2 DEF IInv, BlockPc, Inside, ProfileFresh, ret_dispatch_int, Starts
<1> QED
  BY <1>3, <1>4 DEF IInv

LEMMA LookupBlock == ASSUME IInv, lookup_block PROVE IInv'
<1>1. pc \in Starts /\ pc \in image.blocks[pc].instrs
  BY ImageAssumption DEF IInv, Inside, lookup_block, Found, Starts, BlockContract
<1>2. TypeOK'
  BY <1>1 DEF IInv, TypeOK, lookup_block, InRomMain, cpu, Starts
<1>3. BlockPc' /\ Inside' /\ ProfileFresh'
  BY DEF IInv, BlockPc, Inside, ProfileFresh, lookup_block, Starts, cpu
<1> QED
  BY <1>2, <1>3 DEF IInv

LEMMA LookupEnd == ASSUME IInv, lookup_end PROVE IInv'
<1>1. TypeOK'
  BY DEF IInv, TypeOK, lookup_end, InRomMain, cpu, profile_record
<1>2. BlockPc' /\ Inside' /\ ProfileFresh'
  BY DEF IInv, BlockPc, Inside, ProfileFresh, lookup_end, Starts, cpu, profile_record, Found
<1> QED
  BY <1>1, <1>2 DEF IInv

\* The next instruction of a block lies right behind the one before: it is what emitCalls goes on to,
\* and what the program counter is increased to.
LEMMA NextInstr ==
    ASSUME IInv, loc = "block", ip # Blk.last
    PROVE  /\ Min({j \in Blk.instrs : j > ip}) = ip + Cur.len
           /\ ip + Cur.len \in Blk.instrs /\ Plus(ip, Cur.len) = ip + Cur.len
<1> DEFINE n == ip + Cur.len
           S == {j \in Blk.instrs : j > ip}
<1>1. /\ ip \in Blk.instrs /\ Blk.instrs \subseteq Rom /\ ip \in Rom
      /\ n \in Blk.instrs /\ \A j \in Blk.instrs : j > ip => j >= n
  BY BlockInstr DEF BlockContract, Cur
<1>2. Cur.len \in 1..3 /\ image \in Images
  BY BlockInstr, FetchType DEF IInv, Inside
<1>3. Rom \subseteq Int
  BY Sizes DEF Rom
<1>4. n \in S /\ \A j \in S : n <= j
  BY <1>1, <1>2, <1>3
<1>5. \A x \in S : (\A j \in S : x <= j) => x = n
  <2>1. ASSUME NEW x \in S, \A j \in S : x <= j PROVE x = n
    <3>1. x <= n /\ n <= x
      BY <1>4, <2>1
    <3>2. x \in Int /\ n \in Int
      BY <1>1, <1>3
    <3> QED
      BY <3>1, <3>2
  <2> QED
    BY <2>1
<1>6. Min(S) = n
  BY <1>4, <1>5 DEF Min
<1>7. Plus(ip, Cur.len) = n
  BY <1>1, <1>2, <1>3, PlusSmall, Sizes DEF Rom
<1> QED
  BY <1>1, <1>6, <1>7

LEMMA EmitCalls == ASSUME IInv, emitCalls PROVE IInv'
<1>1. /\ CpuOK /\ image \in Images /\ frame < Frames /\ loc = "block" /\ pc = ip
      /\ blk \in Starts /\ ip \in Blk.instrs /\ p \in Pc /\ g_budget \in Cycle /\ profile_map \subseteq Pc
      /\ frame \in 0..Frames
  BY DEF IInv, TypeOK, CpuOK, Inside, BlockPc, emitCalls, Blk
<1>2. Cur.len \in 1..3 /\ Cur.cycles \in Nat /\ ip \in Pc
  BY <1>1, BlockInstr, FetchType
<1>3. CpuOK'
  BY <1>1, <1>2, EffectType, CostType DEF emitCalls, CpuOK
<1>4. pc' = Plus(ip, Cur.len) /\ pc' \in Pc
  <2>1. ip \in Int
    BY <1>2, Sizes DEF Pc
  <2> QED
    BY <1>1, <1>2, <2>1, PlusType DEF emitCalls, PcInc
<1>5. UNCHANGED <<image, blk, g_budget, p, profile_map, frame>>
  BY DEF emitCalls
<1>6. CASE ip = Blk.last
  <2>1. loc' = "join" /\ ip' = ip /\ ~IsBlockTerminator(Cur)
    BY <1>6 DEF emitCalls
  <2>2. TypeOK'
    BY <1>1, <1>3, <1>4, <1>5, <2>1 DEF TypeOK, CpuOK, InRomMain, Blk, Starts
  <2>3. BlockPc' /\ Inside' /\ ProfileFresh'
    BY <1>1, <1>4, <1>5, <1>6, <2>1 DEF IInv, BlockPc, Inside, ProfileFresh, Blk, Cur, Starts
  <2> QED
    BY <2>2, <2>3 DEF IInv
<1>7. CASE ip # Blk.last
  <2>1. loc' = "block" /\ ip' = ip + Cur.len /\ ip' \in Blk.instrs /\ pc' = ip'
    BY <1>1, <1>4, <1>7, NextInstr DEF emitCalls
  <2>2. TypeOK'
    BY <1>1, <1>3, <1>4, <1>5, <2>1 DEF TypeOK, CpuOK, InRomMain, Blk, Starts
  <2>3. BlockPc' /\ Inside' /\ ProfileFresh'
    BY <1>1, <1>5, <2>1 DEF IInv, BlockPc, Inside, ProfileFresh, Starts
  <2> QED
    BY <2>2, <2>3 DEF IInv
<1> QED
  BY <1>6, <1>7

\* A block without a terminator goes on where pc already is.
LEMMA Joined ==
    ASSUME IInv, joinBlocks
    PROVE  pc' = pc /\ loc' \in {"dispatch", "tick"}
<1>1. loc = "join" /\ ip = Blk.last /\ ~IsBlockTerminator(Cur) /\ pc = Plus(ip, Cur.len)
  BY DEF IInv, Inside, BlockPc, joinBlocks, Cur
<1>2. /\ Blk.succ = IF ip + Cur.len < ROM_END THEN <<ip + Cur.len>> ELSE <<>>
      /\ ip \in Rom /\ Cur.len \in 1..3
  BY <1>1, BlockInstr, FetchType DEF BlockContract, Cur, IInv, Inside
<1>3. CASE ip + Cur.len < ROM_END
  <2>1. Plus(ip, Cur.len) = ip + Cur.len
    BY <1>2, <1>3, PlusSmall, Sizes DEF Rom
  <2>2. Len(Blk.succ) = 1 /\ Blk.succ[1] = ip + Cur.len
    BY <1>2, <1>3
  <2> QED
    BY <1>1, <2>1, <2>2 DEF joinBlocks
<1>4. CASE ~(ip + Cur.len < ROM_END)
  BY <1>2, <1>4 DEF joinBlocks
<1> QED
  BY <1>3, <1>4

LEMMA JoinBlocks == ASSUME IInv, joinBlocks PROVE IInv'
<1>1. CpuOK' /\ frame < Frames
  BY DEF IInv, TypeOK, CpuOK, Inside, joinBlocks
<1>2. pc' \in Pc /\ loc' \in Between /\ loc' \notin {"poll", "quit"}
  BY Joined DEF IInv, TypeOK, Between
<1> QED
  BY <1>1, <1>2, ToBetween DEF IInv, TypeOK, joinBlocks

\* A terminator goes to the dispatcher, with an address in pc and a type for all else.
LEMMA TerminatorsTypes == ASSUME IInv, terminators PROVE CpuOK' /\ pc' \in Pc
<1>1. CpuOK /\ image \in Images /\ loc = "block"
  BY DEF IInv, TypeOK, CpuOK, Inside, terminators, Terminator, jp_nn, jp_cc_nn, jr_e, jr_cc_e, call_nn,
         call_cc_nn, rst_n, ret, reti, ret_cc, jp_hl
<1>2. /\ Cur.len \in 1..3 /\ Cur.cycles \in Nat /\ Cur.extra \in Nat /\ Cur.imm \in Int
      /\ Cur.imm \in Pc \/ Cur.type \in {"JR_E", "JR_CC_E"}
      /\ ip \in Int
  BY <1>1, BlockInstr, FetchType, Sizes DEF Rom, OperandAndCost
<1>3. Behind \in Pc /\ calculateRelativeJumpAddress \in Pc
  BY <1>2, PlusType DEF Behind, calculateRelativeJumpAddress
<1>4. ASSUME NEW types, NEW target \in Pc, NEW cost \in Nat, Terminator(types, target, cost)
      PROVE  pc' \in Pc /\ cycles' \in Cycle /\ if_reg' \subseteq Line /\ ie_reg' \subseteq Line
  BY <1>1, <1>4, CostType DEF Terminator, CpuOK
<1>5. NoStack => sp' \in Sp /\ stack' \in [Sp -> Pc]
  BY <1>1 DEF NoStack, CpuOK
<1>6. PushWord(Behind) => sp' \in Sp /\ stack' \in [Sp -> Pc]
  BY <1>1, <1>3, PushType
<1>7. /\ PopWord => sp' \in Sp /\ stack' \in [Sp -> Pc]
      /\ stack[sp] \in Pc
  BY <1>1, PopType DEF CpuOK
<1>8. Cur.cycles + Cur.extra \in Nat /\ Cur.cycles + 0 \in Nat
  BY <1>2
<1>9. IME \in BOOLEAN
  BY <1>1 DEF CpuOK
<1>10. CASE jp_nn
  BY <1>2, <1>4, <1>5, <1>9, <1>10 DEF jp_nn, CpuOK, Terminator
<1>11. CASE jp_cc_nn
  BY <1>2, <1>3, <1>4, <1>5, <1>8, <1>9, <1>11 DEF jp_cc_nn, CpuOK, Terminator
<1>12. CASE jr_e
  BY <1>2, <1>3, <1>4, <1>5, <1>9, <1>12 DEF jr_e, CpuOK
<1>13. CASE jr_cc_e
  BY <1>2, <1>3, <1>4, <1>5, <1>8, <1>9, <1>13 DEF jr_cc_e, CpuOK
<1>14. CASE call_nn
  BY <1>2, <1>4, <1>6, <1>9, <1>14 DEF call_nn, CpuOK, Terminator
<1>15. CASE call_cc_nn
  BY <1>2, <1>3, <1>4, <1>5, <1>6, <1>8, <1>9, <1>15 DEF call_cc_nn, CpuOK, Terminator
<1>16. CASE rst_n
  BY <1>2, <1>4, <1>6, <1>9, <1>16 DEF rst_n, CpuOK, Terminator
<1>17. CASE ret
  BY <1>2, <1>4, <1>7, <1>9, <1>17 DEF ret, CpuOK
<1>18. CASE reti
  BY <1>2, <1>4, <1>7, <1>9, <1>18 DEF reti, CpuOK
<1>19. CASE ret_cc
  BY <1>2, <1>3, <1>4, <1>5, <1>7, <1>8, <1>9, <1>19 DEF ret_cc, CpuOK
<1>20. CASE jp_hl
  BY <1>2, <1>4, <1>5, <1>9, <1>20 DEF jp_hl, CpuOK
<1> QED
  BY <1>10, <1>11, <1>12, <1>13, <1>14, <1>15, <1>16, <1>17, <1>18, <1>19, <1>20 DEF terminators

LEMMA TerminatorsKeep == ASSUME IInv, terminators PROVE IInv'
<1>1. /\ loc = "block" /\ loc' = "dispatch"
      /\ UNCHANGED <<image, g_budget, p, profile_map, frame>>
  BY DEF terminators, Terminator, jp_nn, jp_cc_nn, jr_e, jr_cc_e, call_nn, call_cc_nn, rst_n, ret, reti, ret_cc, jp_hl
<1>2. frame < Frames
  BY <1>1 DEF IInv, Inside
<1> QED
  BY <1>1, <1>2, TerminatorsTypes, ToBetween DEF IInv, TypeOK, Between

LEMMA EmulatorHead == ASSUME IInv, emulator_head PROVE IInv'
<1>1. CpuOK' /\ frame < Frames
  BY DEF IInv, TypeOK, CpuOK, Inside, emulator_head
<1>2. pc' \in Pc /\ p' \in Pc /\ loc' \in Between /\ loc' \notin {"poll", "quit"}
  BY Sizes DEF IInv, TypeOK, Between, emulator_head
<1> QED
  BY <1>1, <1>2, ToBetween DEF IInv, TypeOK, emulator_head

LEMMA EmulatorInt == ASSUME IInv, emulator_int PROVE IInv'
<1>1. CpuOK /\ frame < Frames /\ p \in Pc /\ pc \in Pc
  BY DEF IInv, TypeOK, CpuOK, Inside, emulator_int
<1>2. CpuOK' /\ p' \in Pc /\ pc' \in Pc
  <2>1. ASSUME NEW vec \in Pc, interrupt_service(p, vec), p' = vec PROVE CpuOK' /\ p' \in Pc
    BY <1>1, <2>1, ServiceType
  <2>2. ASSUME UNCHANGED <<p, sp, stack, IME, if_reg, ie_reg, cycles>> PROVE CpuOK' /\ p' \in Pc
    BY <1>1, <2>2 DEF CpuOK
  <2> QED
    BY <1>1, <2>1, <2>2 DEF emulator_int
<1> QED
  BY <1>1, <1>2, ToBetween DEF IInv, TypeOK, Between, emulator_int

LEMMA SwitchTypes == ASSUME IInv, emulator_switch PROVE CpuOK' /\ p' \in Pc
<1>1. CpuOK /\ image \in Images /\ p \in Pc /\ p \in Int
  BY Sizes DEF IInv, TypeOK, CpuOK, Inside, Pc
<1>2. ASSUME NEW i \in Fetch(image.code, p)
      PROVE  /\ i.len \in 1..3 /\ i.cycles \in Nat /\ i.extra \in Nat /\ i.imm \in Int
             /\ i.imm \in Pc \/ i.type \in {"JR_E", "JR_CC_E"}
             /\ PBehind(i) \in Pc /\ Plus(p, i.len + i.imm) \in Pc /\ i.cycles + i.extra \in Nat
  <2>1. /\ i.len \in 1..3 /\ i.cycles \in Nat /\ i.extra \in Nat /\ i.imm \in Int
        /\ i.imm \in Pc \/ i.type \in {"JR_E", "JR_CC_E"}
    BY <1>1, FetchType DEF OperandAndCost
  <2> QED
    BY <1>1, <2>1, PlusType DEF PBehind
<1>3. ASSUME NEW next \in Pc, NEW cost \in Nat, Switch(next, cost) PROVE p' \in Pc /\ cycles' \in Cycle
  BY <1>1, <1>3, CostType DEF Switch
<1>4. NoEffect => sp' \in Sp /\ stack' \in [Sp -> Pc] /\ UNCHANGED <<IME, if_reg, ie_reg>>
  BY <1>1 DEF NoEffect, NoStack, CpuOK
<1>5. IME \in BOOLEAN /\ if_reg \subseteq Line /\ ie_reg \subseteq Line /\ stack[sp] \in Pc
  BY <1>1 DEF CpuOK
<1>6. CASE emu_plain
  <2>1. PICK i \in Fetch(image.code, p) : Effect(i) /\ Switch(PBehind(i), i.cycles)
    BY <1>6 DEF emu_plain
  <2> QED
    BY <1>1, <1>2, <1>3, <2>1, EffectType DEF CpuOK
<1>7. CASE emu_untaken
  <2>1. PICK i \in Fetch(image.code, p) : Switch(PBehind(i), i.cycles) /\ NoEffect
    BY <1>7 DEF emu_untaken, At
  <2> QED
    BY <1>2, <1>3, <1>4, <1>5, <2>1 DEF CpuOK
<1>8. CASE emu_jp
  <2>1. PICK i \in Fetch(image.code, p) :
            i.type \in {"JP_NN", "JP_CC_NN"} /\ Switch(i.imm, i.cycles + i.extra) /\ NoEffect
    BY <1>8 DEF emu_jp, At
  <2> QED
    BY <1>2, <1>3, <1>4, <1>5, <2>1 DEF CpuOK
<1>9. CASE emu_jr
  <2>1. PICK i \in Fetch(image.code, p) : Switch(Plus(p, i.len + i.imm), i.cycles + i.extra) /\ NoEffect
    BY <1>9 DEF emu_jr, At
  <2> QED
    BY <1>2, <1>3, <1>4, <1>5, <2>1 DEF CpuOK
<1>10. CASE emu_jp_hl
  <2>1. PICK i \in Fetch(image.code, p), hl \in Pc : Switch(hl, i.cycles) /\ NoEffect
    BY <1>10 DEF emu_jp_hl, At
  <2> QED
    BY <1>2, <1>3, <1>4, <1>5, <2>1 DEF CpuOK
<1>11. CASE emu_call
  <2>1. PICK i \in Fetch(image.code, p) :
            /\ i.type \in {"CALL_NN", "CALL_CC_NN", "RST_N"} /\ Switch(i.imm, i.cycles + i.extra)
            /\ PushWord(PBehind(i)) /\ UNCHANGED <<IME, if_reg, ie_reg>>
    BY <1>11 DEF emu_call, At
  <2> QED
    BY <1>1, <1>2, <1>3, <1>5, <2>1, PushType DEF CpuOK
<1>12. CASE emu_ret
  <2>1. PICK i \in Fetch(image.code, p) :
            /\ Switch(stack[sp], i.cycles + i.extra) /\ PopWord
            /\ IME' = (IME \/ i.type = "RETI") /\ UNCHANGED <<if_reg, ie_reg>>
    BY <1>12 DEF emu_ret, At
  <2>2. IME' \in BOOLEAN
    BY <1>5, <2>1
  <2> QED
    BY <1>1, <1>2, <1>3, <1>5, <2>1, <2>2, PopType DEF CpuOK
<1> QED
  BY <1>6, <1>7, <1>8, <1>9, <1>10, <1>11, <1>12 DEF emulator_switch

LEMMA EmulatorSwitch == ASSUME IInv, emulator_switch PROVE IInv'
<1>1. loc = "emu_exec" /\ loc' = "emu" /\ UNCHANGED <<image, pc, g_budget, profile_map, frame>>
  BY DEF emulator_switch, Switch, emu_plain, emu_untaken, emu_jp, emu_jr, emu_jp_hl, emu_call, emu_ret
<1>2. frame < Frames
  BY <1>1 DEF IInv, Inside
<1> QED
  BY <1>1, <1>2, SwitchTypes, ToBetween DEF IInv, TypeOK, Between

LEMMA NextHolds == IInv /\ [Next]_vars => IInv'
<1> SUFFICES ASSUME IInv, [Next]_vars PROVE IInv'
  OBVIOUS
<1>1. CASE UNCHANGED vars
  BY <1>1 DEF vars, IInv, TypeOK, BlockPc, Inside, ProfileFresh, Blk, Cur, Pending, Starts
<1>2. CASE Quit
  BY <1>1, <1>2 DEF Quit
<1> QED
  BY <1>1, <1>2, FrameLoop, DispatchInt, LookupBlock, LookupEnd, EmitCalls, JoinBlocks, TerminatorsKeep,
     EmulatorHead, EmulatorInt, EmulatorSwitch DEF Next

LEMMA Invariant == Spec => []IInv
BY InitHolds, NextHolds, PTL DEF Spec

\* Whatever image runs and whatever the hardware does, the program counter, the stack pointer and the
\* cycle counter stay in their widths, and compiled code only runs inside a block.
THEOREM TypeCorrect == Spec => []TypeOK
<1>1. IInv => TypeOK
  BY DEF IInv
<1> QED
  BY <1>1, Invariant, PTL

\* pc, to which a compiled instruction only adds its length, is the address of the instruction that
\* runs: emitCalls and joinBlocks agree with the analyzer about where the next one lies.
THEOREM PcInBlocks == Spec => []BlockPc
<1>1. IInv => BlockPc
  BY DEF IInv
<1> QED
  BY <1>1, Invariant, PTL

\* Only addresses no block starts at are ever recorded for the next recompilation.
THEOREM ProfileStaysFresh == Spec => []ProfileFresh
<1>1. IInv => ProfileFresh
  BY DEF IInv
<1> QED
  BY <1>1, Invariant, PTL

\* Only the dispatcher enters a block, and it has serviced a pending interrupt before it looks for one.
THEOREM InterruptsFirst == Spec => ServicedFirst
<1>1. ASSUME IInv, [Next]_vars, loc # "block", loc' = "block" PROVE ~IME' \/ if_reg' \cap ie_reg' = {}
  <2>1. CASE lookup_block
    BY <1>1, <2>1 DEF IInv, Inside, lookup_block, cpu, Pending
  <2>2. CASE ~lookup_block
    BY <1>1, <2>2 DEF Next, vars, gb_poll, boot_entry, gb_step, ret_dispatch, ret_dispatch_int, lookup_end,
       emitCalls, joinBlocks, terminators, Terminator, jp_nn, jp_cc_nn, jr_e, jr_cc_e, call_nn, call_cc_nn,
       rst_n, ret, reti, ret_cc, jp_hl, emulator_head, emulator_int, emulator_switch, Switch, emu_plain,
       emu_untaken, emu_jp, emu_jr, emu_jp_hl, emu_call, emu_ret, Quit
  <2> QED
    BY <2>1, <2>2
<1>2. IInv /\ [Next]_vars => [loc # "block" /\ loc' = "block" => ~IME' \/ if_reg' \cap ie_reg' = {}]_vars
  BY <1>1
<1> QED
  BY <1>2, Invariant, PTL DEF Spec, ServicedFirst
-----------------------------------------------------------------------------
(* The program implements the processor *)

LEMMA SameOperators ==
    /\ \A code, a : C!Fetch(code, a) = Fetch(code, a)
    /\ \A a, n : C!Plus(a, n) = Plus(a, n)
    /\ \A i : C!IsBlockTerminator(i) <=> IsBlockTerminator(i)
<1>1. \A code, a : C!Fetch(code, a) = Fetch(code, a)
  BY DEF C!Fetch, Fetch, C!Undefined, Undefined
<1>2. \A a, n : C!Plus(a, n) = Plus(a, n)
  BY DEF C!Plus, Plus
<1>3. \A i : C!IsBlockTerminator(i) <=> IsBlockTerminator(i)
  BY DEF C!IsBlockTerminator, IsBlockTerminator, C!Terminators, Terminators
<1> QED
  BY <1>1, <1>2, <1>3

LEMMA SameStack ==
    /\ NoStack <=> C!NoStack
    /\ PopWord <=> C!Pop
    /\ \A v : PushWord(v) <=> C!Push(v)
BY DEF NoStack, C!NoStack, PopWord, C!Pop, PushWord, C!Push

LEMMA SameEffect == ASSUME NEW i, Effect(i) PROVE C!Effect(i)
BY SameStack DEF Effect, C!Effect, C!Loads, Loads, C!Stores, Stores, C!Line, Line, C!Sp, Sp

LEMMA InitRefines == Init => C!Init
BY DEF Init, C!Init, cpuPc, InEmulator, C!Sp, Sp

\* The dispatcher, the head of the interpreter and the end of a block hand the program counter from one
\* variable to the other, and do nothing a processor knows of.
LEMMA Stutters ==
    ASSUME IInv, boot_entry \/ ret_dispatch \/ lookup_block \/ lookup_end \/ joinBlocks \/ emulator_head \/ Quit
    PROVE  UNCHANGED C!vars
<1>1. CASE boot_entry \/ ret_dispatch
  BY <1>1 DEF boot_entry, ret_dispatch, cpu, C!vars, cpuPc, InEmulator
<1>2. CASE lookup_block \/ lookup_end
  BY <1>2 DEF lookup_block, lookup_end, cpu, C!vars, cpuPc, InEmulator
<1>3. CASE joinBlocks
  BY <1>3, Joined DEF joinBlocks, C!vars, cpuPc, InEmulator
<1>4. CASE emulator_head
  BY <1>4 DEF emulator_head, C!vars, cpuPc, InEmulator
<1>5. CASE Quit
  BY <1>5 DEF Quit, vars, C!vars, cpuPc, InEmulator
<1> QED
  BY <1>1, <1>2, <1>3, <1>4, <1>5

\* Between two frames the hardware requests interrupts.
LEMMA Requests == ASSUME IInv, gb_poll \/ gb_step PROVE C!Request
<1>1. if_reg' \in {r \in SUBSET Line : if_reg \subseteq r}
  <2>1. if_reg \subseteq Line /\ Lines - 1 \in Line
    BY Sizes DEF IInv, TypeOK
  <2> QED
    BY <2>1 DEF gb_poll, gb_step
<1>2. UNCHANGED <<image, pc, sp, stack, IME, ie_reg, cycles>> /\ cpuPc' = cpuPc
  BY DEF gb_poll, gb_step, cpuPc, InEmulator
<1> QED
  BY <1>1, <1>2 DEF C!Request, C!Line, Line

\* Wherever an interrupt is serviced, what is pushed is the processor's program counter.
LEMMA Services == ASSUME IInv, ret_dispatch_int \/ emulator_int PROVE C!Service \/ UNCHANGED C!vars
<1>1. ASSUME NEW at, NEW vec, IME, interrupt_service(at, vec), cpuPc = at, cpuPc' = vec, image' = image
      PROVE  C!Service
  BY <1>1, SameStack DEF interrupt_service, C!Service, C!Pending, Pending
<1>2. CASE ret_dispatch_int
  <2>1. cpuPc = pc /\ cpuPc' = pc' /\ image' = image
    BY <1>2 DEF ret_dispatch_int, cpuPc, InEmulator
  <2>2. CASE IME /\ Pending # {}
    BY <1>1, <1>2, <2>1, <2>2 DEF ret_dispatch_int
  <2>3. CASE ~(IME /\ Pending # {})
    BY <1>2, <2>1, <2>3 DEF ret_dispatch_int, cpu, C!vars
  <2> QED
    BY <2>2, <2>3
<1>3. CASE emulator_int
  <2>1. cpuPc = p /\ cpuPc' = p' /\ image' = image
    BY <1>3 DEF emulator_int, cpuPc, InEmulator
  <2>2. CASE IME /\ \E vec \in Pc : interrupt_service(p, vec) /\ p' = vec
    BY <1>1, <2>1, <2>2
  <2>3. CASE UNCHANGED <<p, sp, stack, IME, if_reg, ie_reg, cycles>>
    BY <2>1, <2>3 DEF C!vars
  <2> QED
    BY <1>3, <2>2, <2>3 DEF emulator_int
<1> QED
  BY <1>2, <1>3

\* A processor at the address of the instruction a block is at can only execute that one.
LEMMA BlockExecutes ==
    ASSUME IInv, loc = "block", image' = image,
           C!Sequential(Cur) \/ ((C!NotTaken(Cur) \/ C!Taken(Cur)) /\ UNCHANGED <<if_reg, ie_reg>>)
    PROVE  C!Execute
<1>1. Cur \in Fetch(image.code, ip) /\ cpuPc = ip
  BY BlockInstr DEF IInv, BlockPc, cpuPc, InEmulator
<1>2. Cur \in C!Fetch(image.code, cpuPc)
  BY <1>1, SameOperators
<1> QED
  BY <1>2 DEF C!Execute

LEMMA Calls == ASSUME IInv, emitCalls PROVE C!Execute
<1>1. /\ loc = "block" /\ ~IsBlockTerminator(Cur) /\ Effect(Cur) /\ increaseCycles(Cur.cycles)
      /\ pc' = Plus(pc, Cur.len) /\ image' = image
  BY DEF emitCalls, PcInc
<1>2. cpuPc = pc /\ cpuPc' = pc'
  BY DEF emitCalls, cpuPc, InEmulator
<1>3. C!Sequential(Cur)
  BY <1>1, <1>2, SameOperators, SameEffect DEF C!Sequential, C!Spend, increaseCycles
<1> QED
  BY <1>1, <1>3, BlockExecutes

\* Compiled or not, a transfer of control goes where the processor goes, for what it costs there.
LEMMA Transfers ==
    ASSUME NEW i, NEW at, cpuPc = at, NoStack, UNCHANGED IME, cycles' = (cycles + i.cycles) % CYCLE_MOD,
           cpuPc' = Plus(at, i.len), i.type \in {"JP_CC_NN", "JR_CC_E", "CALL_CC_NN", "RET_CC"}
    PROVE  C!NotTaken(i)
BY SameOperators, SameStack DEF C!NotTaken, C!Spend

LEMMA Transferred ==
    ASSUME NEW i, NEW at, cpuPc = at, IME' = (IME \/ i.type = "RETI"),
           cycles' = (cycles + (i.cycles + i.extra)) % CYCLE_MOD,
           \/ i.type \in {"JP_NN", "JP_CC_NN"} /\ cpuPc' = i.imm /\ NoStack
           \/ i.type \in {"JR_E", "JR_CC_E"} /\ cpuPc' = Plus(at, i.len + i.imm) /\ NoStack
           \/ i.type = "JP_HL" /\ cpuPc' \in Pc /\ NoStack
           \/ i.type \in {"CALL_NN", "CALL_CC_NN", "RST_N"} /\ cpuPc' = i.imm /\ PushWord(Plus(at, i.len))
           \/ i.type \in {"RET", "RETI", "RET_CC"} /\ cpuPc' = stack[sp] /\ PopWord
    PROVE  C!Taken(i)
<1>1. C!IsBlockTerminator(i)
  BY SameOperators DEF IsBlockTerminator, Terminators
<1>2. C!Spend(i.cycles + i.extra)
  BY DEF C!Spend
<1>3. CASE i.type \in {"JP_NN", "JP_CC_NN"}
  BY <1>1, <1>2, <1>3, SameStack DEF C!Taken
<1>4. CASE i.type \in {"JR_E", "JR_CC_E"}
  BY <1>1, <1>2, <1>4, SameStack, SameOperators DEF C!Taken
<1>5. CASE i.type = "JP_HL"
  BY <1>1, <1>2, <1>5, SameStack DEF C!Taken, C!Pc, Pc
<1>6. CASE i.type \in {"CALL_NN", "CALL_CC_NN", "RST_N"}
  BY <1>1, <1>2, <1>6, SameStack, SameOperators DEF C!Taken
<1>7. CASE i.type \in {"RET", "RETI", "RET_CC"}
  BY <1>1, <1>2, <1>7, SameStack DEF C!Taken
<1> QED
  BY <1>3, <1>4, <1>5, <1>6, <1>7

\* Each terminator is one step of the processor; one that always transfers control costs no more than
\* its m-cycles.
LEMMA TerminatorsExecute == ASSUME IInv, terminators PROVE C!Execute
<1>1. loc = "block" /\ loc' = "dispatch" /\ UNCHANGED <<image, if_reg, ie_reg>>
  BY DEF terminators, Terminator, jp_nn, jp_cc_nn, jr_e, jr_cc_e, call_nn, call_cc_nn, rst_n, ret, reti, ret_cc, jp_hl
<1>2. /\ cpuPc = ip /\ cpuPc' = pc' /\ IME \in BOOLEAN
      /\ Cur.cycles \in Nat /\ Cur.extra \in Nat
      /\ Cur.extra = 0 \/ Cur.type \in {"JP_CC_NN", "JR_CC_E", "CALL_CC_NN", "RET_CC"}
  BY <1>1, BlockInstr, FetchType DEF IInv, TypeOK, Inside, BlockPc, cpuPc, InEmulator, OperandAndCost
<1> DEFINE Done == C!NotTaken(Cur) \/ C!Taken(Cur)
<1> SUFFICES Done
  BY <1>1, BlockExecutes
<1>3. ASSUME NEW types, NEW target, NEW cost, Terminator(types, target, cost)
      PROVE  Cur.type \in types /\ cpuPc' = target /\ cycles' = (cycles + cost) % CYCLE_MOD
  BY <1>2, <1>3 DEF Terminator, increaseCycles
<1>4. ASSUME NEW type, type \in {"JP_NN", "JR_E", "JP_HL", "CALL_NN", "RST_N", "RET", "RETI"},
             NEW target, Terminator({type}, target, Cur.cycles)
      PROVE  /\ Cur.type = type /\ cpuPc' = target
             /\ cycles' = (cycles + (Cur.cycles + Cur.extra)) % CYCLE_MOD
  <2>1. Cur.type = type /\ cpuPc' = target /\ cycles' = (cycles + Cur.cycles) % CYCLE_MOD
    BY <1>3, <1>4
  <2>2. Cur.extra = 0
    BY <1>2, <1>4, <2>1
  <2> QED
    BY <1>2, <2>1, <2>2
<1>5. CASE jp_nn
  BY <1>2, <1>4, <1>5, Transferred DEF jp_nn
<1>6. CASE jr_e
  <2>1. /\ Cur.type = "JR_E" /\ cpuPc' = Plus(ip, Cur.len + Cur.imm)
        /\ cycles' = (cycles + (Cur.cycles + Cur.extra)) % CYCLE_MOD
    BY <1>4, <1>6 DEF jr_e, calculateRelativeJumpAddress
  <2>2. NoStack /\ IME' = (IME \/ Cur.type = "RETI")
    BY <1>2, <1>6, <2>1 DEF jr_e
  <2> QED
    BY <1>2, <2>1, <2>2, Transferred
<1>7. CASE jp_hl
  <2>1. /\ Cur.type = "JP_HL" /\ cpuPc' \in Pc
        /\ cycles' = (cycles + (Cur.cycles + Cur.extra)) % CYCLE_MOD
    BY <1>4, <1>7 DEF jp_hl
  <2>2. NoStack /\ IME' = (IME \/ Cur.type = "RETI")
    BY <1>2, <1>7, <2>1 DEF jp_hl
  <2> QED
    BY <1>2, <2>1, <2>2, Transferred
<1>8. CASE call_nn
  BY <1>2, <1>4, <1>8, Transferred DEF call_nn, Behind
<1>9. CASE rst_n
  BY <1>2, <1>4, <1>9, Transferred DEF rst_n, Behind
<1>10. CASE ret
  BY <1>2, <1>4, <1>10, Transferred DEF ret
<1>11. CASE reti
  BY <1>2, <1>4, <1>11, Transferred DEF reti
<1>12. ASSUME NEW type, type \in {"JP_CC_NN", "JR_CC_E", "CALL_CC_NN", "RET_CC"}, NEW there,
              Terminator({type}, IF FALSE THEN there ELSE Behind, Cur.cycles + IF FALSE THEN Cur.extra ELSE 0),
              NoStack, UNCHANGED IME
       PROVE  Done
  <2>1. Cur.type = type /\ cpuPc' = Plus(ip, Cur.len) /\ cycles' = (cycles + Cur.cycles) % CYCLE_MOD
    BY <1>2, <1>3, <1>12 DEF Behind
  <2> QED
    BY <1>2, <1>12, <2>1, Transfers
<1>13. CASE jp_cc_nn
  <2>1. PICK taken \in BOOLEAN :
          /\ Terminator({"JP_CC_NN"}, IF taken THEN Cur.imm ELSE Behind,
                        Cur.cycles + IF taken THEN Cur.extra ELSE 0)
          /\ NoStack /\ UNCHANGED IME
    BY <1>13 DEF jp_cc_nn
  <2>2. CASE taken
    BY <1>2, <1>3, <2>1, <2>2, Transferred
  <2>3. CASE ~taken
    BY <1>12, <2>1, <2>3
  <2> QED
    BY <2>2, <2>3
<1>14. CASE jr_cc_e
  <2>1. PICK taken \in BOOLEAN :
          /\ Terminator({"JR_CC_E"}, IF taken THEN calculateRelativeJumpAddress ELSE Behind,
                        Cur.cycles + IF taken THEN Cur.extra ELSE 0)
          /\ NoStack /\ UNCHANGED IME
    BY <1>14 DEF jr_cc_e
  <2>2. CASE taken
    BY <1>2, <1>3, <2>1, <2>2, Transferred DEF calculateRelativeJumpAddress
  <2>3. CASE ~taken
    BY <1>12, <2>1, <2>3
  <2> QED
    BY <2>2, <2>3
<1>15. CASE call_cc_nn
  <2>1. PICK taken \in BOOLEAN :
          /\ Terminator({"CALL_CC_NN"}, IF taken THEN Cur.imm ELSE Behind,
                        Cur.cycles + IF taken THEN Cur.extra ELSE 0)
          /\ IF taken THEN PushWord(Behind) ELSE NoStack
          /\ UNCHANGED IME
    BY <1>15 DEF call_cc_nn
  <2>2. CASE taken
    BY <1>2, <1>3, <2>1, <2>2, Transferred DEF Behind
  <2>3. CASE ~taken
    BY <1>12, <2>1, <2>3
  <2> QED
    BY <2>2, <2>3
<1>16. CASE ret_cc
  <2>1. PICK taken \in BOOLEAN :
          /\ Terminator({"RET_CC"}, IF taken THEN stack[sp] ELSE Behind,
                        Cur.cycles + IF taken THEN Cur.extra ELSE 0)
          /\ IF taken THEN PopWord ELSE NoStack
          /\ UNCHANGED IME
    BY <1>16 DEF ret_cc
  <2>2. CASE taken
    BY <1>2, <1>3, <2>1, <2>2, Transferred
  <2>3. CASE ~taken
    BY <1>12, <2>1, <2>3
  <2> QED
    BY <2>2, <2>3
<1> QED
  BY <1>5, <1>6, <1>7, <1>8, <1>9, <1>10, <1>11, <1>13, <1>14, <1>15, <1>16 DEF terminators

\* The interpreter's switch executes one of the instructions p may be at.
LEMMA SwitchExecutes == ASSUME IInv, emulator_switch PROVE C!Execute
<1>1. ASSUME NEW i \in Fetch(image.code, p), NEW next, NEW cost, Switch(next, cost)
      PROVE  /\ cpuPc = p /\ cpuPc' = next /\ image' = image
             /\ cycles' = (cycles + cost) % CYCLE_MOD
             /\ i \in C!Fetch(image.code, cpuPc)
  BY <1>1, SameOperators DEF Switch, cpuPc, InEmulator, increaseCycles
<1>2. ASSUME NEW i \in C!Fetch(image.code, cpuPc), image' = image,
             C!Sequential(i) \/ ((C!NotTaken(i) \/ C!Taken(i)) /\ UNCHANGED <<if_reg, ie_reg>>)
      PROVE  C!Execute
  BY <1>2 DEF C!Execute
<1>3. IME \in BOOLEAN
  BY DEF IInv, TypeOK
<1>4. CASE emu_plain
  <2>1. PICK i \in Fetch(image.code, p) :
            ~IsBlockTerminator(i) /\ Effect(i) /\ Switch(PBehind(i), i.cycles)
    BY <1>4 DEF emu_plain
  <2>2. C!Sequential(i)
    BY <1>1, <2>1, SameOperators, SameEffect DEF C!Sequential, C!Spend, PBehind
  <2> QED
    BY <1>1, <1>2, <2>1, <2>2
<1>5. CASE emu_untaken
  <2>1. PICK i \in Fetch(image.code, p) :
            /\ i.type \in {"JP_CC_NN", "JR_CC_E", "CALL_CC_NN", "RET_CC"}
            /\ Switch(PBehind(i), i.cycles) /\ NoEffect
    BY <1>5 DEF emu_untaken, At
  <2>2. C!NotTaken(i)
    BY <1>1, <2>1, Transfers DEF PBehind, NoEffect
  <2> QED
    BY <1>1, <1>2, <2>1, <2>2 DEF NoEffect
<1>6. CASE emu_jp
  <2>1. PICK i \in Fetch(image.code, p) :
            i.type \in {"JP_NN", "JP_CC_NN"} /\ Switch(i.imm, i.cycles + i.extra) /\ NoEffect
    BY <1>6 DEF emu_jp, At
  <2>2. C!Taken(i)
    BY <1>1, <1>3, <2>1, Transferred DEF NoEffect
  <2> QED
    BY <1>1, <1>2, <2>1, <2>2 DEF NoEffect
<1>7. CASE emu_jr
  <2>1. PICK i \in Fetch(image.code, p) :
            i.type \in {"JR_E", "JR_CC_E"} /\ Switch(Plus(p, i.len + i.imm), i.cycles + i.extra) /\ NoEffect
    BY <1>7 DEF emu_jr, At
  <2>2. C!Taken(i)
    BY <1>1, <1>3, <2>1, Transferred DEF NoEffect
  <2> QED
    BY <1>1, <1>2, <2>1, <2>2 DEF NoEffect
<1>8. CASE emu_jp_hl
  <2>1. PICK i \in Fetch(image.code, p), hl \in Pc : i.type = "JP_HL" /\ Switch(hl, i.cycles) /\ NoEffect
    BY <1>8 DEF emu_jp_hl, At
  <2>2. C!Taken(i)
    <3>1. cpuPc = p /\ cpuPc' \in Pc /\ cycles' = (cycles + (i.cycles + i.extra)) % CYCLE_MOD
      <4>1. i.cycles \in Nat /\ i.extra = 0
        BY <2>1, FetchType DEF OperandAndCost, IInv, TypeOK, Inside
      <4>2. cpuPc = p /\ cpuPc' = hl /\ cycles' = (cycles + i.cycles) % CYCLE_MOD
        BY <1>1, <2>1
      <4> QED
        BY <4>1, <4>2
    <3>2. NoStack /\ IME' = (IME \/ i.type = "RETI")
      BY <1>3, <2>1 DEF NoEffect
    <3> QED
      BY <2>1, <3>1, <3>2, Transferred
  <2> QED
    BY <1>1, <1>2, <2>1, <2>2 DEF NoEffect
<1>9. CASE emu_call
  <2>1. PICK i \in Fetch(image.code, p) :
            /\ i.type \in {"CALL_NN", "CALL_CC_NN", "RST_N"} /\ Switch(i.imm, i.cycles + i.extra)
            /\ PushWord(PBehind(i)) /\ UNCHANGED <<IME, if_reg, ie_reg>>
    BY <1>9 DEF emu_call, At
  <2>2. C!Taken(i)
    BY <1>1, <1>3, <2>1, Transferred DEF PBehind
  <2> QED
    BY <1>1, <1>2, <2>1, <2>2
<1>10. CASE emu_ret
  <2>1. PICK i \in Fetch(image.code, p) :
            /\ i.type \in {"RET", "RET_CC", "RETI"} /\ Switch(stack[sp], i.cycles + i.extra) /\ PopWord
            /\ IME' = (IME \/ i.type = "RETI") /\ UNCHANGED <<if_reg, ie_reg>>
    BY <1>10 DEF emu_ret, At
  <2>2. C!Taken(i)
    BY <1>1, <2>1, Transferred
  <2> QED
    BY <1>1, <1>2, <2>1, <2>2
<1> QED
  BY <1>4, <1>5, <1>6, <1>7, <1>8, <1>9, <1>10 DEF emulator_switch

\* The recompiled program is a processor: what it does with blocks, dispatcher, interpreter and frames
\* is, seen through its program counter, one whole instruction after the other.
THEOREM Refinement == Spec => ImplementsCpu
<1>1. ASSUME IInv, [Next]_vars PROVE [C!Next]_(C!vars)
  <2>1. CASE UNCHANGED vars
    BY <2>1 DEF vars, C!vars, cpuPc, InEmulator
  <2>2. CASE Next
    <3>1. C!Request \/ C!Service \/ C!Execute \/ UNCHANGED C!vars
      BY <1>1, <2>2, Stutters, Requests, Services, Calls, TerminatorsExecute, SwitchExecutes DEF Next
    <3> QED
      BY <3>1 DEF C!Next
  <2> QED
    BY <1>1, <2>1, <2>2
<1>2. IInv /\ [Next]_vars => [C!Next]_(C!vars)
  BY <1>1
<1> QED
  BY <1>2, InitRefines, Invariant, PTL DEF Spec, C!Spec, ImplementsCpu
-----------------------------------------------------------------------------
(* What a block costs *)

\* Induction, for a set instead of a predicate.
LEMMA NatSetInduction ==
    ASSUME NEW S, 0 \in S, \A n \in Nat : n \in S => n + 1 \in S
    PROVE  \A n \in Nat : n \in S
<1> DEFINE R == OpToRel(<, Nat)
           T == Nat \ S
<1>1. IsWellFoundedOn(R, Nat)
  BY NatLessThanWellFounded
<1>2. \A i, j \in Nat : i < j => <<i, j>> \in R
  BY DEF OpToRel
<1> HIDE DEF R
<1>3. ASSUME T # {} PROVE FALSE
  <2>1. PICK x \in T : \A y \in T : ~ (<<y, x>> \in R)
    BY <1>1, <1>3, WFMin
  <2>2. x \in Nat /\ x # 0
    OBVIOUS
  <2>3. x - 1 \in Nat /\ x - 1 < x
    BY <2>2
  <2>4. x - 1 \notin T
    BY <2>1, <2>2, <2>3, <1>2
  <2>5. (x - 1) + 1 \in S
    BY <2>3, <2>4
  <2> QED
    BY <2>2, <2>5
<1> QED
  BY <1>3

\* A set of naturals with a bound has a greatest element.
LEMMA Greatest ==
    ASSUME NEW S, S \subseteq Nat, S # {}, NEW L \in Nat, \A x \in S : x <= L
    PROVE  Max(S) \in S /\ \A x \in S : x <= Max(S)
<1> DEFINE N == {n \in Nat : (\A x \in S : x <= n) => \E y \in S : \A x \in S : x <= y}
<1>1. 0 \in N
  <2> SUFFICES ASSUME \A x \in S : x <= 0 PROVE \E y \in S : \A x \in S : x <= y
    OBVIOUS
  <2>1. PICK y \in S : TRUE
    OBVIOUS
  <2>2. y = 0
    BY <2>1
  <2> QED BY <2>1, <2>2
<1>2. ASSUME NEW n \in Nat, n \in N PROVE n + 1 \in N
  <2> SUFFICES ASSUME \A x \in S : x <= n + 1 PROVE \E y \in S : \A x \in S : x <= y
    OBVIOUS
  <2>1. CASE n + 1 \in S
    BY <2>1
  <2>2. CASE n + 1 \notin S
    <3>1. \A x \in S : x <= n
      BY <2>2
    <3> QED BY <1>2, <3>1
  <2> QED BY <2>1, <2>2
<1> HIDE DEF N
<1>3. L \in N
  BY <1>1, <1>2, NatSetInduction
<1>4. \E y \in S : \A x \in S : x <= y
  BY <1>3 DEF N
<1> QED BY <1>4 DEF Max

\* The recursive function of CostBelow.
CostOf(code, b, k, f) ==
    [n \in 0..k |-> IF n = 0 THEN 0 ELSE f[n - 1] + IF n - 1 \in b.instrs THEN Cost(code[n - 1]) ELSE 0]

LEMMA CostDefined == ASSUME NEW code, NEW b, NEW k \in Nat PROVE \E f : f = CostOf(code, b, k, f)
<1> DEFINE S == {n \in Nat : \E f : f = CostOf(code, b, n, f)}
           own(j) == IF j \in b.instrs THEN Cost(code[j]) ELSE 0
<1>0. \A n, f : CostOf(code, b, n, f) = [j \in 0..n |-> IF j = 0 THEN 0 ELSE f[j - 1] + own(j - 1)]
  BY DEF CostOf
<1> HIDE DEF own
<1>1. 0 \in S
  <2> DEFINE f == [j \in 0..0 |-> 0]
  <2>1. f = CostOf(code, b, 0, f)
    BY <1>0
  <2> QED BY <2>1
<1>2. ASSUME NEW n \in Nat, n \in S PROVE n + 1 \in S
  <2>1. PICK f : f = CostOf(code, b, n, f)
    BY <1>2
  <2>2. f = [j \in 0..n |-> IF j = 0 THEN 0 ELSE f[j - 1] + own(j - 1)]
    BY <1>0, <2>1
  <2> DEFINE g == [j \in 0..n + 1 |-> IF j = n + 1 THEN f[n] + own(n) ELSE f[j]]
  <2>3. ASSUME NEW j \in 0..n + 1 PROVE g[j] = IF j = 0 THEN 0 ELSE g[j - 1] + own(j - 1)
    <3>1. CASE j = n + 1
      <4>1. j # 0 /\ j - 1 = n /\ n \in 0..n + 1 /\ n # n + 1
        BY <3>1
      <4>2. g[j - 1] = f[n] /\ g[j] = f[n] + own(n)
        BY <3>1, <4>1
      <4> QED BY <4>1, <4>2
    <3>2. CASE j # n + 1 /\ j = 0
      <4>1. 0 \in 0..n
        OBVIOUS
      <4>2. f[0] = 0
        BY <2>2, <4>1
      <4> QED BY <3>2, <4>2
    <3>3. CASE j # n + 1 /\ j # 0
      <4>1. j \in 0..n /\ j - 1 \in 0..n + 1 /\ j - 1 # n + 1
        BY <3>3
      <4>2. f[j] = f[j - 1] + own(j - 1)
        BY <2>2, <3>3, <4>1
      <4>3. g[j] = f[j] /\ g[j - 1] = f[j - 1]
        BY <3>3, <4>1
      <4> QED BY <3>3, <4>2, <4>3
    <3> QED BY <3>1, <3>2, <3>3
  <2>4. g = [j \in 0..n + 1 |-> IF j = 0 THEN 0 ELSE g[j - 1] + own(j - 1)]
    BY <2>3
  <2> HIDE DEF g
  <2>5. g = CostOf(code, b, n + 1, g)
    BY <1>0, <2>4
  <2> QED BY <2>5
<1> HIDE DEF S
<1>3. \A n \in Nat : n \in S
  BY <1>1, <1>2, NatSetInduction
<1> QED BY <1>3 DEF S

\* Address by address, the cost is that of the instruction there, or nothing.
LEMMA CostTurn ==
    ASSUME NEW code, NEW b
    PROVE  LET c == CostBelow(code, b)
           IN  /\ c[0] = 0
               /\ \A n \in Nat : n + 1 <= ROM_END =>
                      c[n + 1] = c[n] + IF n \in b.instrs THEN Cost(code[n]) ELSE 0
<1> DEFINE c == CostBelow(code, b)
<1>1. ROM_END \in Nat
  BY Sizes
<1>2. CostBelow(code, b) = CHOOSE f : f = CostOf(code, b, ROM_END, f)
  BY DEF CostBelow, CostOf
<1>3. c = CostOf(code, b, ROM_END, c)
  BY <1>1, <1>2, CostDefined
<1> HIDE DEF c
<1>4. c[0] = 0
  <2>1. 0 \in 0..ROM_END
    BY <1>1
  <2>2. c[0] = CostOf(code, b, ROM_END, c)[0]
    BY <1>3
  <2> QED BY <2>1, <2>2 DEF CostOf
<1>5. ASSUME NEW n \in Nat, n + 1 <= ROM_END
      PROVE  c[n + 1] = c[n] + IF n \in b.instrs THEN Cost(code[n]) ELSE 0
  <2>1. n + 1 \in 0..ROM_END /\ n + 1 # 0 /\ (n + 1) - 1 = n
    BY <1>1, <1>5
  <2>2. c[n + 1] = CostOf(code, b, ROM_END, c)[n + 1]
    BY <1>3
  <2> QED BY <2>1, <2>2 DEF CostOf
<1> QED BY <1>4, <1>5 DEF c

\* An instruction of the ROM costs something, and is one that is fetched.
LEMMA BlockCosts ==
    ASSUME NEW im \in Images, NEW s \in DOMAIN im.blocks, NEW a \in im.blocks[s].instrs
    PROVE  /\ a \in Nat /\ a < ROM_END /\ im.code[a].len \in 1..3 /\ Cost(im.code[a]) \in Nat
           /\ Fetch(im.code, a) = {im.code[a]} /\ a + im.code[a].len <= ROM_END
<1>1. BlockContract(im.code, s, im.blocks[s])
  BY ImageAssumption
<1>2. a \in Rom /\ im.code[a].type # "UNKNOWN"
  BY <1>1 DEF BlockContract
<1>3. a \in Nat /\ a < ROM_END /\ a \in Pc /\ ~(a >= ROM_END)
  BY <1>2, Sizes DEF Rom, Pc
<1>4. Fetch(im.code, a) = {im.code[a]}
  BY <1>2, <1>3 DEF Fetch
<1>5. im.code[a].len \in 1..3 /\ im.code[a].cycles \in Nat /\ im.code[a].extra \in Nat
  BY <1>3, <1>4, FetchType
<1> QED BY <1>2, <1>3, <1>4, <1>5, ImageAssumption DEF Cost

\* The cost of a block grows with the address, and only at its instructions.
LEMMA CostGrows ==
    ASSUME NEW im \in Images, NEW s \in DOMAIN im.blocks, NEW n \in Nat, NEW k \in Nat, n + k <= ROM_END
    PROVE  LET c == CostBelow(im.code, im.blocks[s])
           IN  /\ c[n] \in Nat /\ c[n + k] \in Nat /\ c[n] <= c[n + k]
               /\ (\A j \in im.blocks[s].instrs : ~(n <= j /\ j < n + k)) => c[n + k] = c[n]
<1> DEFINE b == im.blocks[s]
           c == CostBelow(im.code, b)
           own(j) == IF j \in b.instrs THEN Cost(im.code[j]) ELSE 0
<1>0. /\ c[0] = 0
      /\ \A i \in Nat : i + 1 <= ROM_END => c[i + 1] = c[i] + own(i)
  BY CostTurn
<1>1. \A j \in Nat : own(j) \in Nat /\ (j \notin b.instrs => own(j) = 0)
  BY BlockCosts
<1>2. ROM_END \in Nat
  BY Sizes
<1> HIDE DEF c, own, b
<1>3. \A i \in Nat : i <= ROM_END => c[i] \in Nat
  <2> DEFINE S == {i \in Nat : i <= ROM_END => c[i] \in Nat}
  <2>1. 0 \in S
    BY <1>0
  <2>2. ASSUME NEW i \in Nat, i \in S PROVE i + 1 \in S
    <3> SUFFICES ASSUME i + 1 <= ROM_END PROVE c[i + 1] \in Nat
      OBVIOUS
    <3>1. c[i] \in Nat
      BY <1>2, <2>2
    <3>2. c[i + 1] = c[i] + own(i) /\ own(i) \in Nat
      BY <1>0, <1>1
    <3> QED BY <3>1, <3>2
  <2> HIDE DEF S
  <2>3. \A i \in Nat : i \in S
    BY <2>1, <2>2, NatSetInduction
  <2> QED BY <2>3 DEF S
<1>4. \A j \in Nat : n + j <= ROM_END => c[n] <= c[n + j]
  <2> DEFINE S == {j \in Nat : n + j <= ROM_END => c[n] <= c[n + j]}
  <2>1. 0 \in S
    <3>1. n + 0 = n
      OBVIOUS
    <3> QED BY <1>3, <3>1
  <2>2. ASSUME NEW j \in Nat, j \in S PROVE j + 1 \in S
    <3> SUFFICES ASSUME n + (j + 1) <= ROM_END PROVE c[n] <= c[n + (j + 1)]
      OBVIOUS
    <3>1. c[n] <= c[n + j] /\ c[n] \in Nat /\ c[n + j] \in Nat
      BY <1>2, <1>3, <2>2
    <3>2. n + (j + 1) = (n + j) + 1 /\ n + j \in Nat
      OBVIOUS
    <3>3. c[(n + j) + 1] = c[n + j] + own(n + j) /\ own(n + j) \in Nat
      BY <1>0, <1>1, <3>2
    <3> QED BY <3>1, <3>2, <3>3
  <2> HIDE DEF S
  <2>3. \A j \in Nat : j \in S
    BY <2>1, <2>2, NatSetInduction
  <2> QED BY <2>3 DEF S
<1>5. ASSUME \A j \in b.instrs : ~(n <= j /\ j < n + k) PROVE c[n + k] = c[n]
  <2> DEFINE S == {j \in Nat : j <= k => c[n + j] = c[n]}
  <2>1. 0 \in S
    <3>1. n + 0 = n
      OBVIOUS
    <3> QED BY <3>1
  <2>2. ASSUME NEW j \in Nat, j \in S PROVE j + 1 \in S
    <3> SUFFICES ASSUME j + 1 <= k PROVE c[n + (j + 1)] = c[n]
      OBVIOUS
    <3>1. c[n + j] = c[n] /\ c[n] \in Nat
      BY <1>2, <1>3, <2>2
    <3>2. n + (j + 1) = (n + j) + 1 /\ n + j \in Nat /\ n <= n + j /\ n + j < n + k
      OBVIOUS
    <3>3. n + j \notin b.instrs
      BY <1>5, <3>2
    <3>4. own(n + j) = 0
      BY <1>1, <3>2, <3>3
    <3>5. (n + j) + 1 <= ROM_END
      BY <1>2
    <3>6. c[(n + j) + 1] = c[n + j] + own(n + j)
      BY <1>0, <3>2, <3>5
    <3> QED BY <1>3, <3>1, <3>2, <3>4, <3>6
  <2> HIDE DEF S
  <2>3. k \in S
    BY <2>1, <2>2, NatSetInduction
  <2> QED BY <2>3 DEF S
<1>6. n <= ROM_END /\ n + k \in Nat
  BY <1>2
<1> QED BY <1>3, <1>4, <1>5, <1>6 DEF c, b
-----------------------------------------------------------------------------
(* No frame overruns its budget by more than a block *)

\* The budgets of the frames so far, and how far the counter may have come where the thread of
\* control is: below the budget where it has just been looked at, and past it by what the block has
\* executed already.
InBudget(L) ==
    /\ g_budget <= frame * (GB_CYCLES_PER_FRAME + L) + GB_CYCLES_PER_FRAME
    /\ loc \in {"int", "lookup", "emu_int", "emu_exec"} => cycles < g_budget
    /\ loc = "block" => cycles < g_budget + CostBelow(image.code, Blk)[ip]
    /\ loc = "join" => cycles < g_budget + CostBelow(image.code, Blk)[ip + Cur.len]
    /\ Overshoot

\* The costs have a greatest one.
LEMMA LongestIs ==
    ASSUME NEW L, Roomy(L), NEW im \in Images
    PROVE  /\ Max(Costs(im)) \in Nat /\ Max(Costs(im)) <= L
           /\ \A n \in Costs(im) : n \in Nat /\ n <= Max(Costs(im))
<1>1. ASSUME NEW a \in Pc, NEW i \in Fetch(im.code, a) PROVE Cost(i) \in Nat
  BY FetchType DEF Cost
<1>2. ASSUME NEW s \in DOMAIN im.blocks PROVE CostBelow(im.code, im.blocks[s])[ROM_END] \in Nat
  <2>1. 0 \in Nat /\ ROM_END \in Nat /\ 0 + ROM_END = ROM_END
    BY Sizes
  <2>2. 0 + ROM_END <= ROM_END
    BY <2>1
  <2> HIDE DEF Costs
  <2> QED
    BY <2>1, <2>2, CostGrows
<1>3. Costs(im) \subseteq Nat
  BY <1>1, <1>2 DEF Costs
<1>4. Costs(im) # {}
  <2>1. 0 \in Pc /\ 0 \in Rom /\ ~(0 >= ROM_END)
    BY Sizes, IsaAssumption DEF Rom
  <2>2. Fetch(im.code, 0) # {}
    BY <2>1 DEF Fetch
  <2> QED
    BY <2>1, <2>2 DEF Costs
<1>5. L \in Nat /\ \A n \in Costs(im) : n <= L
  BY DEF Roomy
<1> HIDE DEF Costs
<1>6. Max(Costs(im)) \in Costs(im) /\ \A n \in Costs(im) : n <= Max(Costs(im))
  BY <1>3, <1>4, <1>5, Greatest
<1> QED
  BY <1>3, <1>5, <1>6

\* What is counted in a frame fits the counter.
LEMMA NoWrap ==
    ASSUME NEW L, Roomy(L), NEW f \in Nat, f < Frames, NEW c \in Nat,
           c <= f * (GB_CYCLES_PER_FRAME + L) + GB_CYCLES_PER_FRAME + L + GB_CYCLES_PER_FRAME
    PROVE  c % CYCLE_MOD = c
<1> DEFINE K == GB_CYCLES_PER_FRAME + L
           d == Frames - (f + 1)
<1>1. /\ K \in Nat /\ d \in Nat /\ Frames \in Nat /\ GB_CYCLES_PER_FRAME \in Nat /\ CYCLE_MOD \in Nat
      /\ L \in Nat /\ Frames * K + GB_CYCLES_PER_FRAME < CYCLE_MOD
  BY FrameAssumption, Sizes DEF Roomy
<1>2. Frames = (f + 1) + d
  BY <1>1
<1>3. c <= f * K + K + GB_CYCLES_PER_FRAME
  BY <1>1
<1> HIDE DEF K, d
<1>4. d * K \in Nat /\ f * K \in Nat
  BY <1>1
<1>5. ((f + 1) + d) * K = f * K + K + d * K
  BY <1>1
<1>6. Frames * K = f * K + K + d * K
  BY <1>2, <1>5
<1>7. Frames * K \in Nat
  BY <1>1
<1>8. c < CYCLE_MOD
  BY <1>1, <1>3, <1>4, <1>6, <1>7
<1> QED
  BY <1>1, <1>8

\* The instruction a block is at is counted behind it, and the whole block in the greatest cost.
LEMMA BlockTurn ==
    ASSUME NEW L, Roomy(L), IInv, loc = "block"
    PROVE  LET c == CostBelow(image.code, Blk)
           IN  /\ c[ip] \in Nat /\ c[ip + Cur.len] \in Nat /\ Cost(Cur) \in Nat
               /\ c[ip] + Cost(Cur) <= c[ip + Cur.len]
               /\ c[ip + Cur.len] <= Longest
<1> DEFINE c == CostBelow(image.code, Blk)
<1>1. /\ image \in Images /\ blk \in DOMAIN image.blocks /\ Blk = image.blocks[blk]
      /\ ip \in Blk.instrs /\ Cur = image.code[ip]
  BY DEF IInv, TypeOK, Inside, Starts, Blk, Cur
<1>2. ip \in Nat /\ ip < ROM_END /\ Cur.len \in 1..3 /\ Cost(Cur) \in Nat /\ ip + Cur.len <= ROM_END
  BY <1>1, BlockCosts
<1>3. ROM_END \in Nat /\ ip + 1 <= ROM_END /\ ip + 1 \in Nat /\ ip + 0 = ip /\ ip + 0 <= ROM_END
  BY <1>2, Sizes
<1>4. c[ip + 1] = c[ip] + Cost(Cur)
  BY <1>1, <1>2, <1>3, CostTurn
<1>5. \A n, k \in Nat : n + k <= ROM_END => c[n] \in Nat /\ c[n + k] \in Nat /\ c[n] <= c[n + k]
  BY <1>1, CostGrows
<1>6. c[ROM_END] \in Costs(image)
  BY <1>1 DEF Costs
<1>7. c[ROM_END] <= Longest /\ Longest \in Nat
  BY <1>1, <1>6, LongestIs DEF Longest
<1> HIDE DEF c
<1>8. c[ip] \in Nat /\ c[ip + 1] \in Nat
  BY <1>2, <1>3, <1>5
<1>9. c[ip + Cur.len] \in Nat /\ c[ip + 1] <= c[ip + Cur.len]
  <2>1. Cur.len - 1 \in Nat /\ (ip + 1) + (Cur.len - 1) = ip + Cur.len
    BY <1>2
  <2> QED
    BY <1>2, <1>3, <1>5, <2>1
<1>10. c[ROM_END] \in Nat /\ c[ip + Cur.len] <= c[ROM_END]
  <2>1. /\ ip + Cur.len \in Nat /\ ROM_END - (ip + Cur.len) \in Nat
        /\ (ip + Cur.len) + (ROM_END - (ip + Cur.len)) = ROM_END
    BY <1>2, <1>3
  <2>2. ROM_END <= ROM_END
    BY <1>3
  <2> QED
    BY <1>5, <2>1, <2>2
<1>11. c[ip] + Cost(Cur) <= c[ip + Cur.len]
  BY <1>2, <1>4, <1>8, <1>9
<1>12. c[ip + Cur.len] <= Longest
  BY <1>7, <1>9, <1>10
<1> QED
  BY <1>2, <1>8, <1>9, <1>11, <1>12 DEF c

\* A block has executed nothing at its start.
LEMMA NothingYet ==
    ASSUME NEW im \in Images, NEW s \in DOMAIN im.blocks
    PROVE  CostBelow(im.code, im.blocks[s])[s] = 0
<1>1. BlockContract(im.code, s, im.blocks[s]) /\ s \in Rom
  BY ImageAssumption
<1>2. s \in Nat /\ 0 + s = s /\ s <= ROM_END
  BY <1>1, Sizes DEF Rom
<1>3. ASSUME NEW j \in im.blocks[s].instrs PROVE ~(0 <= j /\ j < 0 + s)
  <2>1. s <= j /\ j \in Rom
    BY <1>1 DEF BlockContract
  <2>2. j \in Int
    BY <2>1, Sizes DEF Rom
  <2> QED
    BY <1>2, <2>1, <2>2
<1>4. CostBelow(im.code, im.blocks[s])[0 + s] = CostBelow(im.code, im.blocks[s])[0]
  BY <1>2, <1>3, CostGrows
<1>5. CostBelow(im.code, im.blocks[s])[0] = 0
  BY CostTurn
<1> QED
  BY <1>2, <1>4, <1>5

\* The numbers that are compared.
LEMMA Numbers ==
    ASSUME NEW L, Roomy(L), IInv
    PROVE  /\ cycles \in Nat /\ g_budget \in Nat /\ frame \in Nat /\ L \in Nat
           /\ GB_CYCLES_PER_FRAME \in Nat \ {0}
           /\ frame * (GB_CYCLES_PER_FRAME + L) \in Nat
           /\ Longest \in Nat /\ Longest <= L /\ image \in Images
<1>1. image \in Images /\ L \in Nat /\ Frames \in Nat /\ GB_CYCLES_PER_FRAME \in Nat \ {0}
  BY FrameAssumption DEF IInv, Inside, Roomy
<1>2. cycles \in Nat /\ g_budget \in Nat /\ frame \in Nat
  BY <1>1, Sizes DEF IInv, TypeOK, Cycle
<1>3. Longest \in Nat /\ Longest <= L
  BY <1>1, LongestIs DEF Longest
<1> QED
  BY <1>1, <1>2, <1>3

\* Within a frame the counter goes up by what is spent, if it stays below the budget and one block.
LEMMA Spent ==
    ASSUME NEW L, Roomy(L), IInv, InBudget(L), frame < Frames,
           NEW n \in Nat, cycles + n < g_budget + Longest, increaseCycles(n)
    PROVE  cycles' = cycles + n
<1> DEFINE K == frame * (GB_CYCLES_PER_FRAME + L)
<1>1. /\ cycles \in Nat /\ g_budget \in Nat /\ L \in Nat /\ GB_CYCLES_PER_FRAME \in Nat /\ K \in Nat
      /\ Longest \in Nat /\ Longest <= L /\ g_budget <= K + GB_CYCLES_PER_FRAME
  BY Numbers DEF InBudget
<1> HIDE DEF K
<1>2. cycles + n \in Nat /\ cycles + n <= K + GB_CYCLES_PER_FRAME + L + GB_CYCLES_PER_FRAME
  BY <1>1
<1>3. (cycles + n) % CYCLE_MOD = cycles + n
  <2>1. frame \in Nat
    BY Numbers
  <2> QED
    BY <1>2, <2>1, NoWrap DEF K
<1> QED
  BY <1>3 DEF increaseCycles

\* Outside blocks only the budget and the greatest cost count.
LEMMA ToOpen ==
    ASSUME NEW L, InBudget(L), UNCHANGED <<image, g_budget, frame>>,
           loc' \notin {"block", "join"}, cycles' < g_budget + Longest,
           loc' \in {"int", "lookup", "emu_int", "emu_exec"} => cycles' < g_budget
    PROVE  InBudget(L)'
<1>1. Longest' = Longest
  BY DEF Longest
<1> QED
  BY <1>1 DEF InBudget, Overshoot

LEMMA BudgetInit == ASSUME NEW L, Roomy(L), Init PROVE InBudget(L)
<1>1. IInv
  BY InitHolds
<1>2. /\ L \in Nat /\ GB_CYCLES_PER_FRAME \in Nat \ {0} /\ Longest \in Nat
      /\ CYCLE_MOD \in Nat /\ Frames \in Nat
  BY <1>1, Numbers, Sizes, FrameAssumption
<1>3. Frames * (GB_CYCLES_PER_FRAME + L) \in Nat
  BY <1>2
<1>4. GB_CYCLES_PER_FRAME < CYCLE_MOD
  BY <1>2, <1>3 DEF Roomy
<1>5. g_budget = GB_CYCLES_PER_FRAME /\ cycles = 0 /\ frame = 0 /\ loc = "poll"
  BY <1>2, <1>4 DEF Init
<1>6. 0 * (GB_CYCLES_PER_FRAME + L) = 0
  BY <1>2
<1> QED
  BY <1>2, <1>5, <1>6 DEF InBudget, Overshoot

\* gb_step gives the next frame its budget from where the counter is.
LEMMA BudgetFrame == ASSUME NEW L, Roomy(L), IInv, InBudget(L), gb_step PROVE InBudget(L)'
<1> DEFINE G == GB_CYCLES_PER_FRAME
           K == frame * (G + L)
<1>1. /\ cycles \in Nat /\ g_budget \in Nat /\ frame \in Nat /\ L \in Nat /\ G \in Nat \ {0} /\ K \in Nat
      /\ Longest \in Nat /\ Longest <= L /\ g_budget <= K + G /\ cycles < g_budget + Longest
  BY Numbers DEF InBudget, Overshoot
<1>2. frame < Frames /\ frame' = frame + 1 /\ cycles' = cycles /\ image' = image /\ loc' = "poll"
  BY DEF gb_step, IInv, Inside
<1>3. g_budget' = cycles + G
  <2>1. cycles + G \in Nat /\ cycles + G <= K + G + L + G
    BY <1>1
  <2>2. (cycles + G) % CYCLE_MOD = cycles + G
    BY <1>1, <1>2, <2>1, NoWrap
  <2> QED
    BY <2>2 DEF gb_step
<1>4. (frame + 1) * (G + L) = K + G + L
  BY <1>1
<1>5. g_budget' <= frame' * (G + L) + G
  <2>1. cycles + G <= (K + G + L) + G
    BY <1>1
  <2> QED
    BY <1>2, <1>3, <1>4, <2>1
<1>6. Longest' = Longest
  BY <1>2 DEF Longest
<1>7. cycles < (cycles + G) + Longest
  BY <1>1
<1> QED
  BY <1>2, <1>3, <1>5, <1>6, <1>7 DEF InBudget, Overshoot

\* These steps spend nothing: what they reach, they have looked at the budget for, or came from there.
LEMMA BudgetFree ==
    ASSUME NEW L, Roomy(L), IInv, InBudget(L),
           \/ gb_poll \/ boot_entry \/ ret_dispatch \/ ret_dispatch_int \/ lookup_end
           \/ joinBlocks \/ emulator_head \/ emulator_int
    PROVE  InBudget(L)'
<1>1. /\ cycles \in Nat /\ g_budget \in Nat /\ cycles < g_budget + Longest
      /\ loc \in {"int", "lookup", "emu_int", "emu_exec"} => cycles < g_budget
  BY Numbers DEF InBudget, Overshoot
<1>2. CASE gb_poll \/ boot_entry \/ joinBlocks
  BY <1>1, <1>2, ToOpen DEF gb_poll, boot_entry, joinBlocks, cpu
<1>3. CASE ret_dispatch
  BY <1>1, <1>3, ToOpen DEF ret_dispatch, over, cpu
<1>4. CASE ret_dispatch_int
  <2>1. cycles' = cycles
    BY <1>4 DEF ret_dispatch_int, interrupt_service, cpu
  <2> QED
    BY <1>1, <1>4, <2>1, ToOpen DEF ret_dispatch_int
<1>5. CASE lookup_end
  BY <1>1, <1>5, ToOpen DEF lookup_end, cpu
<1>6. CASE emulator_head
  BY <1>1, <1>6, ToOpen DEF emulator_head, Leaves
<1>7. CASE emulator_int
  <2>1. cycles' = cycles
    BY <1>7 DEF emulator_int, interrupt_service
  <2> QED
    BY <1>1, <1>7, <2>1, ToOpen DEF emulator_int
<1> QED
  BY <1>2, <1>3, <1>4, <1>5, <1>6, <1>7

LEMMA BudgetLookup == ASSUME NEW L, Roomy(L), IInv, InBudget(L), lookup_block PROVE InBudget(L)'
<1>1. /\ image \in Images /\ pc \in DOMAIN image.blocks /\ cycles < g_budget
      /\ UNCHANGED <<image, cycles, g_budget, frame>> /\ loc' = "block" /\ blk' = pc /\ ip' = pc
  BY DEF IInv, Inside, InBudget, lookup_block, Found, Starts, cpu
<1>2. CostBelow(image.code, image.blocks[pc])[pc] = 0
  BY <1>1, NothingYet
<1>3. CostBelow(image.code, Blk)[ip]' = 0
  BY <1>1, <1>2 DEF Blk
<1>4. cycles < g_budget + 0
  BY <1>1, Numbers
<1>5. Longest' = Longest
  BY <1>1 DEF Longest
<1> QED
  BY <1>1, <1>3, <1>4, <1>5 DEF InBudget, Overshoot

LEMMA BudgetCalls == ASSUME NEW L, Roomy(L), IInv, InBudget(L), emitCalls PROVE InBudget(L)'
<1> DEFINE c == CostBelow(image.code, Blk)
<1>1. /\ loc = "block" /\ frame < Frames /\ UNCHANGED <<image, blk, g_budget, frame>>
      /\ increaseCycles(Cur.cycles) /\ cycles < g_budget + c[ip]
  BY DEF emitCalls, IInv, Inside, InBudget
<1>2. /\ c[ip] \in Nat /\ c[ip + Cur.len] \in Nat /\ Cost(Cur) \in Nat
      /\ c[ip] + Cost(Cur) <= c[ip + Cur.len] /\ c[ip + Cur.len] <= Longest
  BY <1>1, BlockTurn
<1>3. Cur.cycles \in Nat /\ Cur.extra \in Nat /\ Cost(Cur) = Cur.cycles + Cur.extra
  BY <1>1, BlockInstr, FetchType DEF Cost, IInv, Inside
<1>4. cycles \in Nat /\ g_budget \in Nat /\ Longest \in Nat
  BY Numbers
<1> HIDE DEF c
<1>5. cycles + Cur.cycles < g_budget + c[ip + Cur.len] /\ cycles + Cur.cycles < g_budget + Longest
  BY <1>1, <1>2, <1>3, <1>4
<1>6. cycles' = cycles + Cur.cycles
  BY <1>1, <1>3, <1>5, Spent
<1>7. Longest' = Longest /\ (g_budget <= frame * (GB_CYCLES_PER_FRAME + L) + GB_CYCLES_PER_FRAME)'
  BY <1>1 DEF Longest, InBudget
<1>8. CASE ip = Blk.last
  <2>1. loc' = "join" /\ ip' = ip
    BY <1>8 DEF emitCalls
  <2>2. CostBelow(image.code, Blk)[ip + Cur.len]' = c[ip + Cur.len]
    BY <1>1, <2>1 DEF Blk, Cur, c
  <2> QED
    BY <1>1, <1>5, <1>6, <1>7, <2>1, <2>2 DEF InBudget, Overshoot
<1>9. CASE ip # Blk.last
  <2>1. loc' = "block" /\ ip' = ip + Cur.len
    BY <1>1, <1>9, NextInstr DEF emitCalls
  <2>2. CostBelow(image.code, Blk)[ip]' = c[ip + Cur.len]
    BY <1>1, <2>1 DEF Blk, c
  <2> QED
    BY <1>1, <1>5, <1>6, <1>7, <2>1, <2>2 DEF InBudget, Overshoot
<1> QED
  BY <1>8, <1>9

LEMMA BudgetTerminators == ASSUME NEW L, Roomy(L), IInv, InBudget(L), terminators PROVE InBudget(L)'
<1> DEFINE c == CostBelow(image.code, Blk)
<1>1. /\ loc = "block" /\ loc' = "dispatch" /\ UNCHANGED <<image, g_budget, frame>>
  BY DEF terminators, Terminator, jp_nn, jp_cc_nn, jr_e, jr_cc_e, call_nn, call_cc_nn, rst_n, ret, reti, ret_cc, jp_hl
<1>2. /\ c[ip] \in Nat /\ Cost(Cur) \in Nat /\ c[ip] + Cost(Cur) <= Longest
  <2>1. /\ c[ip] \in Nat /\ c[ip + Cur.len] \in Nat /\ Cost(Cur) \in Nat
        /\ c[ip] + Cost(Cur) <= c[ip + Cur.len] /\ c[ip + Cur.len] <= Longest
    BY <1>1, BlockTurn
  <2>2. Longest \in Nat
    BY Numbers
  <2> HIDE DEF c
  <2> QED
    BY <2>1, <2>2
<1>3. Cur.cycles \in Nat /\ Cur.extra \in Nat /\ Cost(Cur) = Cur.cycles + Cur.extra
  BY <1>1, BlockInstr, FetchType DEF Cost, IInv, Inside
<1>4. Cur.cycles + 0 = Cur.cycles /\ Cur.cycles + Cur.extra \in Nat
  BY <1>3
<1>5. increaseCycles(Cur.cycles) \/ increaseCycles(Cur.cycles + Cur.extra)
  BY <1>4 DEF terminators, Terminator, jp_nn, jp_cc_nn, jr_e, jr_cc_e, call_nn, call_cc_nn, rst_n, ret, reti,
              ret_cc, jp_hl
<1>6. cycles \in Nat /\ g_budget \in Nat /\ Longest \in Nat /\ cycles < g_budget + c[ip] /\ frame < Frames
  BY <1>1, Numbers DEF InBudget, IInv, Inside
<1> HIDE DEF c
<1>7. cycles + Cur.cycles < g_budget + Longest /\ cycles + (Cur.cycles + Cur.extra) < g_budget + Longest
  BY <1>2, <1>3, <1>6
<1>8. cycles' < g_budget + Longest
  BY <1>3, <1>4, <1>5, <1>6, <1>7, Spent
<1> QED
  BY <1>1, <1>8, ToOpen

\* One interpreted instruction costs no more than the greatest cost.
LEMMA BudgetSwitch == ASSUME NEW L, Roomy(L), IInv, InBudget(L), emulator_switch PROVE InBudget(L)'
<1>1. /\ loc = "emu_exec" /\ loc' = "emu" /\ UNCHANGED <<image, g_budget, frame>>
  BY DEF emulator_switch, Switch, emu_plain, emu_untaken, emu_jp, emu_jr, emu_jp_hl, emu_call, emu_ret
<1>2. PICK i \in Fetch(image.code, p) : increaseCycles(i.cycles) \/ increaseCycles(i.cycles + i.extra)
  BY DEF emulator_switch, Switch, At, emu_plain, emu_untaken, emu_jp, emu_jr, emu_jp_hl, emu_call, emu_ret
<1>3. p \in Pc /\ image \in Images /\ frame < Frames /\ cycles < g_budget
  BY <1>1 DEF IInv, TypeOK, Inside, InBudget
<1>4. Cost(i) \in Costs(image)
  BY <1>3 DEF Costs
<1>5. Cost(i) <= Longest
  BY <1>3, <1>4, LongestIs DEF Longest
<1>6. i.cycles \in Nat /\ i.extra \in Nat /\ Cost(i) = i.cycles + i.extra
  BY <1>3, FetchType DEF Cost
<1>7. cycles \in Nat /\ g_budget \in Nat /\ Longest \in Nat
  BY Numbers
<1>8. /\ cycles + i.cycles < g_budget + Longest /\ cycles + (i.cycles + i.extra) < g_budget + Longest
      /\ i.cycles + i.extra \in Nat
  BY <1>3, <1>5, <1>6, <1>7
<1>9. cycles' < g_budget + Longest
  BY <1>2, <1>3, <1>6, <1>8, Spent
<1> QED
  BY <1>1, <1>9, ToOpen

LEMMA BudgetNext == ASSUME NEW L, Roomy(L) PROVE IInv /\ InBudget(L) /\ [Next]_vars => InBudget(L)'
<1> SUFFICES ASSUME IInv, InBudget(L), [Next]_vars PROVE InBudget(L)'
  OBVIOUS
<1>1. CASE UNCHANGED vars
  BY <1>1 DEF vars, InBudget, Overshoot, Longest, Blk, Cur
<1>2. CASE Quit
  BY <1>1, <1>2 DEF Quit
<1> QED
  BY <1>1, <1>2, BudgetFrame, BudgetFree, BudgetLookup, BudgetCalls, BudgetTerminators, BudgetSwitch DEF Next

\* No frame overruns its budget by more than one block or one interpreted instruction, whatever the
\* image, the budget and the program: in a session short enough for the cycle counter.
THEOREM FramesEndInTime == ASSUME NEW L, Roomy(L) PROVE Spec => []Overshoot
<1>1. Init => InBudget(L)
  BY BudgetInit
<1>2. InBudget(L) => Overshoot
  BY DEF InBudget
<1>3. IInv /\ InBudget(L) /\ [Next]_vars => InBudget(L)'
  BY BudgetNext
<1> QED
  BY <1>1, <1>2, <1>3, Invariant, PTL DEF Spec
=============================================================================
