------------------------------ MODULE Analyzer ------------------------------
(***************************************************************************)
(* Control-flow recovery (internal/analyzer/analyzer.go): a worklist pass  *)
(* that starts from the known entry points and splits the ROM into basic   *)
(* blocks.                                                                 *)
(*                                                                         *)
(* A program is what the decoder answers at every ROM address, so `code'   *)
(* is a function from addresses to instructions.  A *Block is identified   *)
(* by its Start: `block' is the heap of blocks indexed by start, `ownedBy' *)
(* maps a byte to the start of the block that owns it, and `blocks' is the *)
(* slice the pass returns, as a set because it is sorted at the end.  A    *)
(* block's Instructions slice is the set of their addresses: they are      *)
(* appended in address order and cut from the end.                         *)
(***************************************************************************)
EXTENDS Integers, Sequences, Instructions

CONSTANTS
    ROM_END,     \* first address past the ROM
    Types,       \* decoder.InstructionType
    Programs,    \* the programs to analyse
    seeds,       \* the reset and interrupt vectors, ROM_ENTRY and USER_CODE
    ExtraSeeds   \* the addresses a profile adds

Addr == 0..(ROM_END - 1)
Word16 == {n \in Nat : n < 65536}
None == -1

Instruction == [type : Types, len : 0..3, cycles : Nat, extra : Nat, imm : Word16]

ASSUME AnalyzerAssumption ==
    /\ ROM_END \in 1..32768
    /\ Programs \subseteq [Addr -> Instruction]
    /\ seeds \in Seq(Word16) /\ ExtraSeeds \in Seq(Word16)

VARIABLES
    code,        \* the decoded program
    queue,       \* the worklist
    blockStart,  \* addresses ever enqueued
    ownedBy,     \* the block that owns a byte, or None
    block,       \* the blocks, by start
    blocks,      \* starts of the blocks appended to the result
    cur,         \* the block being collected, or None
    addr,        \* collectBlock's cursor
    todo,        \* the addresses the enqueue loop has still to visit
    loc          \* "enqueue", "dequeue", "collect" or "done"

vars == <<code, queue, blockStart, ownedBy, block, blocks, cur, addr, todo, loc>>

Block == [end : Addr, instrs : SUBSET Addr, succ : Seq(Addr)]

TypeOK ==
    /\ code \in [Addr -> Instruction]
    /\ queue \in Seq(Addr)
    /\ blockStart \subseteq Addr
    /\ ownedBy \in [Addr -> Addr \cup {None}]
    /\ block \in [Addr -> Block]
    /\ blocks \subseteq Addr
    /\ cur \in Addr \cup {None}
    /\ addr \in Nat
    /\ todo \in Seq(Word16)
    /\ loc \in {"enqueue", "dequeue", "collect", "done"}
    /\ loc = "collect" => cur # None
-----------------------------------------------------------------------------
Undecodable(instr) == instr.type = "UNKNOWN" \/ instr.len = 0

\* The last ROM byte of the instruction at a.
LastByte(a) == IF a + code[a].len > ROM_END THEN ROM_END - 1 ELSE a + code[a].len - 1

\* The wrap-around sum uint16(int16(addr) + int16(len) + int16(int8(imm))).
SignExtend8(imm) == IF imm < 128 THEN imm ELSE imm - 256
calculateRelativeJumpAddress(a) == (a + code[a].len + SignExtend8(code[a].imm)) % 65536

\* Mutant: targets past the ROM are kept as successors.
InRomUnchecked(t) == <<t>>

InRom(t) == IF t < ROM_END THEN <<t>> ELSE <<>>

findSuccessors(a) ==
    LET type == code[a].type
        imm  == code[a].imm
        next == a + code[a].len
    IN  CASE type = "JP_NN"                              -> InRom(imm)
          [] type \in {"JP_CC_NN", "CALL_NN", "CALL_CC_NN", "RST_N"} -> InRom(imm) \o InRom(next)
          [] type = "JR_E"                               -> InRom(calculateRelativeJumpAddress(a))
          [] type = "JR_CC_E"  -> InRom(calculateRelativeJumpAddress(a)) \o InRom(next)
          [] type = "RET_CC"                             -> InRom(next)
          [] OTHER                                       -> <<>>

\* A byte that another block owns or that some edge targets ends a block.
Known(a) == ownedBy[a] # None \/ a \in blockStart
spansKnownStart(a) == \E i \in (a + 1)..LastByte(a) : Known(i)

isInstructionBoundary(s, a) == a \in block[s].instrs
-----------------------------------------------------------------------------
NoBlock == [end |-> 0, instrs |-> {}, succ |-> <<>>]

Init ==
    /\ code \in Programs
    /\ queue = <<>>
    /\ blockStart = {}
    /\ ownedBy = [a \in Addr |-> None]
    /\ block = [a \in Addr |-> NoBlock]
    /\ blocks = {}
    /\ cur = None
    /\ addr = 0
    /\ todo = seeds \o ExtraSeeds
    /\ loc = "enqueue"

\* Mutant: the last ROM byte is taken to be past the end.
EnqueueBelowLast ==
    /\ loc = "enqueue" /\ todo # <<>>
    /\ todo' = Tail(todo)
    /\ LET t == Head(todo) IN
       IF t < ROM_END - 1 /\ t \notin blockStart
       THEN queue' = Append(queue, t) /\ blockStart' = blockStart \cup {t}
       ELSE UNCHANGED <<queue, blockStart>>
    /\ UNCHANGED <<code, ownedBy, block, blocks, cur, addr, loc>>

\* enqueue: every address enters the worklist at most once.
Enqueue ==
    /\ loc = "enqueue" /\ todo # <<>>
    /\ todo' = Tail(todo)
    /\ LET t == Head(todo) IN
       IF t < ROM_END /\ t \notin blockStart
       THEN queue' = Append(queue, t) /\ blockStart' = blockStart \cup {t}
       ELSE UNCHANGED <<queue, blockStart>>
    /\ UNCHANGED <<code, ownedBy, block, blocks, cur, addr, loc>>

\* The enqueue loop is over: the collected block, if there is one, is appended.
Collected ==
    /\ loc = "enqueue" /\ todo = <<>>
    /\ blocks' = IF cur = None THEN blocks ELSE blocks \cup {cur}
    /\ cur' = None
    /\ loc' = "dequeue"
    /\ UNCHANGED <<code, queue, blockStart, ownedBy, block, addr, todo>>

StartCollecting(start) ==
    /\ queue' = Tail(queue)
    /\ cur' = start
    /\ addr' = start
    /\ loc' = "collect"

\* The dequeued address is free: a new block starts there.
Begin ==
    /\ loc = "dequeue" /\ queue # <<>> /\ ownedBy[Head(queue)] = None
    /\ StartCollecting(Head(queue))
    /\ block' = [block EXCEPT ![Head(queue)] = NoBlock]
    /\ UNCHANGED <<code, blockStart, ownedBy, blocks, todo>>

\* Mutant: whatever another block owns is dropped, so nothing is ever cut.
SkipAllOwned ==
    /\ loc = "dequeue" /\ queue # <<>> /\ ownedBy[Head(queue)] # None
    /\ queue' = Tail(queue)
    /\ UNCHANGED <<code, blockStart, ownedBy, block, blocks, cur, addr, todo, loc>>

\* It starts a block already, or lies inside an instruction of one: it is dropped.
Skip ==
    /\ loc = "dequeue" /\ queue # <<>>
    /\ LET start == Head(queue)
           owner == ownedBy[start]
       IN  /\ owner # None
           /\ ~ (owner # start /\ isInstructionBoundary(owner, start))
    /\ queue' = Tail(queue)
    /\ UNCHANGED <<code, blockStart, ownedBy, block, blocks, cur, addr, todo, loc>>

\* Mutants: the instruction at the cut stays in the block; the cut block keeps
\* the successors of the terminator it lost.
CutKeepsTarget(s, a) ==
    [end |-> a - 1, instrs |-> {i \in block[s].instrs : i <= a}, succ |-> <<a>>]
CutKeepsSuccessors(s, a) ==
    [block[s] EXCEPT !.end = a - 1, !.instrs = {i \in @ : i < a}]

cutBlock(s, a) == [end |-> a - 1, instrs |-> {i \in block[s].instrs : i < a}, succ |-> <<a>>]

\* Mutant: the first byte past the cut keeps its owner.
ReleasedShort(s, a) == [i \in Addr |-> IF i \in (a + 1)..block[s].end THEN None ELSE ownedBy[i]]
Released(s, a) == [i \in Addr |-> IF i \in a..block[s].end THEN None ELSE ownedBy[i]]

\* It is an instruction inside another block, which is cut there.
Cut ==
    /\ loc = "dequeue" /\ queue # <<>>
    /\ LET start == Head(queue)
           owner == ownedBy[start]
       IN  /\ owner # None /\ owner # start
           /\ isInstructionBoundary(owner, start)
           /\ ownedBy' = Released(owner, start)
           /\ block' = [block EXCEPT ![owner] = cutBlock(owner, start), ![start] = NoBlock]
           /\ StartCollecting(start)
    /\ UNCHANGED <<code, blockStart, blocks, todo>>

\* collectBlock returns a block: its successors are enqueued.
Return(b) ==
    /\ block' = [block EXCEPT ![cur] = b]
    /\ todo' = b.succ
    /\ loc' = "enqueue"
    /\ UNCHANGED <<code, queue, blockStart, blocks, cur, addr>>

\* Mutant: an undecodable byte is collected.
BlockedBySpan == addr < ROM_END /\ spansKnownStart(addr)

AtKnown == addr < ROM_END /\ addr # cur /\ Known(addr)
Blocked == addr < ROM_END /\ (Undecodable(code[addr]) \/ spansKnownStart(addr))

\* The cursor reaches a byte another block owns or another edge targets.
StopAtKnown ==
    /\ loc = "collect" /\ AtKnown
    /\ Return([block[cur] EXCEPT !.end = addr - 1, !.succ = <<addr>>])
    /\ UNCHANGED ownedBy

\* Mutant: the block stops there and says nothing of where control goes on.
StopForgetsSuccessor ==
    /\ loc = "collect" /\ ~AtKnown /\ Blocked /\ block[cur].instrs # {}
    /\ Return(block[cur])
    /\ UNCHANGED ownedBy

\* No instruction can be taken at the cursor, after at least one was.
StopBlocked ==
    /\ loc = "collect" /\ ~AtKnown /\ Blocked /\ block[cur].instrs # {}
    /\ Return([block[cur] EXCEPT !.succ = <<addr>>])
    /\ UNCHANGED ownedBy

\* collectBlock returns nil: not even the first instruction can be taken.
Abandon ==
    /\ loc = "collect" /\ ~AtKnown /\ Blocked /\ block[cur].instrs = {}
    /\ cur' = None
    /\ loc' = "dequeue"
    /\ UNCHANGED <<code, queue, blockStart, ownedBy, block, blocks, addr, todo>>

\* The cursor runs past the ROM: the block is returned without successors.
RunOff ==
    /\ loc = "collect" /\ addr >= ROM_END
    /\ Return(block[cur])
    /\ UNCHANGED ownedBy

Taken == [block[cur] EXCEPT !.end = LastByte(addr), !.instrs = @ \cup {addr}]
claimBytes == [i \in Addr |-> IF i \in addr..LastByte(addr) THEN cur ELSE ownedBy[i]]

CanTake == loc = "collect" /\ addr < ROM_END /\ ~AtKnown /\ ~Blocked

\* An instruction joins the block.
Take ==
    /\ CanTake /\ ~IsBlockTerminator(code[addr])
    /\ block' = [block EXCEPT ![cur] = Taken]
    /\ ownedBy' = claimBytes
    /\ addr' = addr + code[addr].len
    /\ UNCHANGED <<code, queue, blockStart, blocks, cur, todo, loc>>

\* A terminator joins the block and ends it.
TakeTerminator ==
    /\ CanTake /\ IsBlockTerminator(code[addr])
    /\ Return([Taken EXCEPT !.succ = findSuccessors(addr)])
    /\ ownedBy' = claimBytes

\* The worklist is empty: the blocks are sorted and returned.
Finish ==
    /\ loc = "dequeue" /\ queue = <<>>
    /\ loc' = "done"
    /\ UNCHANGED <<code, queue, blockStart, ownedBy, block, blocks, cur, addr, todo>>

Done == loc = "done" /\ UNCHANGED vars

Next ==
    \/ Enqueue \/ Collected
    \/ Begin \/ Skip \/ Cut
    \/ StopAtKnown \/ StopBlocked \/ Abandon \/ RunOff
    \/ Take \/ TakeTerminator
    \/ Finish \/ Done

Spec == Init /\ [][Next]_vars

\* The pass is one sequential function: it takes its next step until it returns.
FairSpec == Spec /\ WF_vars(Next)
-----------------------------------------------------------------------------
Bytes(s) == UNION {i..LastByte(i) : i \in block[s].instrs}

\* ownedBy agrees with the blocks: a byte is owned by exactly the block one of
\* whose instructions covers it.  So no byte is compiled into two blocks, and
\* neither a cut nor an abandoned block leaves a stale owner behind.
Ownership == \A s, a \in Addr : ownedBy[a] = s <=> a \in Bytes(s)

\* A block's instructions tile it: each starts where the one before it ends, they
\* cover Start to End and nothing else.  The code generator's fall-through from
\* one call to the next, and from the last one to End + 1, relies on it.
Contiguous ==
    \A s \in Addr : block[s].instrs # {} =>
        /\ s \in block[s].instrs
        /\ Bytes(s) = s..block[s].end
        /\ \A i, j \in block[s].instrs : j \notin (i + 1)..LastByte(i)

Queued == {queue[k] : k \in DOMAIN queue}

\* Control enters a block only at its Start: an address known to be the target
\* of an edge may lie at an instruction inside a block only while it is still
\* on the worklist, and then no longer at the end of the pass.
SingleEntry ==
    \A s \in Addr : \A i \in block[s].instrs :
        i \in blockStart /\ i # s => i \in Queued

\* What joinBlocks and emitCalls assume of every block they are given: it is not
\* empty, a terminator is its last instruction, and a block that ends otherwise
\* has the next address as its only successor, unless it runs off the ROM.
JoinContract ==
    loc = "done" =>
        \A s \in blocks : \E last \in block[s].instrs :
            /\ LastByte(last) = block[s].end
            /\ \A i \in block[s].instrs \ {last} : i < last /\ ~IsBlockTerminator(code[i])
            /\ IF IsBlockTerminator(code[last]) THEN block[s].succ = findSuccessors(last)
               ELSE IF block[s].end = ROM_END - 1 THEN block[s].succ = <<>>
               ELSE block[s].succ = <<block[s].end + 1>>

\* t's instruction and another one the ROM can be read as share a byte.  The other one need
\* not be in a block when the pass is over: the block it was in may have been cut before it
\* and what was cut off abandoned.
Overlaps(t) ==
    \/ \E u \in blockStart : u \in (t + 1)..LastByte(t)
    \/ \E i \in Addr : i < t /\ ~Undecodable(code[i]) /\ t \in i..LastByte(i)

\* Every static edge is followed: at the end of the pass the target of an edge
\* out of a block starts a block, unless there is no instruction there or the ROM
\* overlaps there: some start lies inside the target's instruction, or some address before
\* the target decodes to an instruction that covers it, whether or not a block has it.
EdgesFollowed ==
    loc = "done" =>
        \A s \in blocks : \A k \in DOMAIN block[s].succ :
            LET t == block[s].succ[k] IN
            t \in blocks \/ Undecodable(code[t]) \/ Overlaps(t)

\* A returned block is only ever changed by cutting it: it keeps a prefix of its
\* instructions and falls through to the cut.
OnlyCut ==
    [][\A s \in blocks :
         \/ block'[s] = block[s]
         \/ /\ block'[s].instrs = {i \in block[s].instrs : i <= block'[s].end}
            /\ block'[s].end < block[s].end
            /\ block'[s].succ = <<block'[s].end + 1>>]_vars

\* The pass terminates, although a cut puts bytes back and collects them again.
Terminates == <>(loc = "done")

\* Instructions with static targets never need the fallback emulator: the target
\* of every edge out of a block, if it decodes, is itself a block.
StaticTargetsCompiled ==
    loc = "done" =>
        \A s \in blocks : \A k \in DOMAIN block[s].succ :
            LET t == block[s].succ[k] IN t \in blocks \/ Undecodable(code[t])
=============================================================================
