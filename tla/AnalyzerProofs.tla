--------------------------- MODULE AnalyzerProofs ---------------------------
(***************************************************************************)
(* For every ROM size, program and list of entry points: the analyzer is   *)
(* type correct, its ownership table is exact, its blocks are contiguous   *)
(* and disjoint, and control enters a block only at its start.             *)
(*                                                                         *)
(* The inductive invariant adds to these what the collecting loop keeps    *)
(* between two instructions: where the cursor is relative to the bytes     *)
(* already claimed (Cursor), and that only decodable instructions are ever *)
(* taken (Decodable).                                                      *)
(*                                                                         *)
(* A second one is about what the analyzer returns: blocks that end the    *)
(* way the code generator assumes, whose static edges were followed, and   *)
(* which were changed by cutting only.                                     *)
(***************************************************************************)
EXTENDS Analyzer, TLAPS

Decodable == \A s \in Addr : \A i \in block[s].instrs : i >= s /\ ~Undecodable(code[i])

\* An empty block under collection starts at a free byte; once it is not empty
\* the cursor stands right behind its End, or past the ROM.
Cursor ==
    loc = "collect" =>
        IF block[cur].instrs = {}
        THEN addr = cur /\ ownedBy[cur] = None
        ELSE /\ addr > cur
             /\ block[cur].end = IF addr < ROM_END THEN addr - 1 ELSE ROM_END - 1

IInv == TypeOK /\ Decodable /\ Cursor /\ Contiguous /\ Ownership /\ SingleEntry

LEMMA RomEndType == ROM_END \in Nat /\ ROM_END >= 1 /\ ROM_END <= 32768
BY AnalyzerAssumption

LEMMA AddrType == Addr \subseteq Word16 /\ Addr \subseteq Nat
BY RomEndType DEF Addr, Word16

LEMMA AddrInt == \A a \in Addr : a \in Int /\ 0 <= a /\ a < ROM_END
BY RomEndType DEF Addr

LEMMA NoneType == None \in Int /\ None \notin Addr
BY DEF Addr, None

\* A sequence over a set is one over a larger set.
LEMMA SeqMono == ASSUME NEW S, NEW T, S \subseteq T, NEW q \in Seq(S) PROVE q \in Seq(T)
<1>1. q \in [1..Len(q) -> S] /\ Len(q) \in Nat
  OBVIOUS
<1>2. q \in [1..Len(q) -> T]
  BY <1>1
<1> QED
  BY <1>1, <1>2

\* The last byte of a decodable instruction is in the ROM, not before its first.
LEMMA LastByteType ==
    ASSUME TypeOK, NEW a \in Addr, ~Undecodable(code[a])
    PROVE  LastByte(a) \in Addr /\ a <= LastByte(a) /\ code[a].len \in 1..3
           /\ LastByte(a) = IF a + code[a].len < ROM_END
                            THEN a + code[a].len - 1 ELSE ROM_END - 1
<1>1. code[a] \in Instruction
  BY DEF TypeOK
<1>2. code[a].len \in 1..3
  BY <1>1 DEF Undecodable, Instruction
<1> QED
  BY <1>2, RomEndType DEF LastByte, Addr

\* The successors of a terminator are ROM addresses.
LEMMA SuccessorsType ==
    ASSUME TypeOK, NEW a \in Addr
    PROVE  findSuccessors(a) \in Seq(Addr)
<1>1. code[a] \in Instruction
  BY DEF TypeOK
<1>2. code[a].len \in Nat /\ code[a].imm \in Nat
  BY <1>1 DEF Instruction, Word16
<1>3. ASSUME NEW t \in Nat PROVE InRom(t) \in Seq(Addr)
  <2>1. CASE t < ROM_END
    BY <1>3, <2>1, RomEndType DEF InRom, Addr
  <2>2. CASE ~(t < ROM_END)
    BY <2>2 DEF InRom
  <2> QED
    BY <2>1, <2>2
<1>4. calculateRelativeJumpAddress(a) \in Nat
  BY <1>2 DEF calculateRelativeJumpAddress, SignExtend8, Addr
<1>5. a + code[a].len \in Nat
  BY <1>2 DEF Addr
<1> DEFINE jr   == InRom(calculateRelativeJumpAddress(a))
           imm  == InRom(code[a].imm)
           next == InRom(a + code[a].len)
<1>6. jr \in Seq(Addr) /\ imm \in Seq(Addr) /\ next \in Seq(Addr)
  BY <1>2, <1>3, <1>4, <1>5
<1>7. findSuccessors(a) \in {imm, imm \o next, jr, jr \o next, next, <<>>}
  BY DEF findSuccessors
<1> HIDE DEF jr, imm, next
<1>8. imm \o next \in Seq(Addr) /\ jr \o next \in Seq(Addr) /\ <<>> \in Seq(Addr)
  BY <1>6
<1> QED
  BY <1>6, <1>7, <1>8
-----------------------------------------------------------------------------
\* An instruction of a block lies in the ROM and its bytes are that block's.
LEMMA InstrOwned ==
    ASSUME IInv, NEW s \in Addr, NEW i \in block[s].instrs
    PROVE  i \in Addr /\ i >= s /\ ownedBy[i] = s /\ LastByte(i) \in Addr
           /\ i <= LastByte(i) /\ \A a \in i..LastByte(i) : a \in Addr /\ ownedBy[a] = s
<1>1. i \in Addr
  BY DEF IInv, TypeOK, Block
<1>2. ~Undecodable(code[i]) /\ i >= s
  BY DEF IInv, Decodable
<1>3. LastByte(i) \in Addr /\ i <= LastByte(i)
  BY <1>1, <1>2, LastByteType DEF IInv
<1>4. ASSUME NEW a \in i..LastByte(i) PROVE a \in Addr /\ ownedBy[a] = s
  <2>1. a \in Addr
    BY <1>1, <1>3, RomEndType DEF Addr
  <2>2. a \in Bytes(s)
    BY DEF Bytes
  <2> QED
    BY <2>1, <2>2 DEF IInv, Ownership
<1>5. i \in i..LastByte(i)
  BY <1>1, <1>3, AddrType
<1> QED
  BY <1>1, <1>2, <1>3, <1>4, <1>5

\* A block whose start it does not own is empty.
LEMMA UnownedEmpty ==
    ASSUME IInv, NEW s \in Addr, ownedBy[s] # s
    PROVE  block[s].instrs = {}
<1> SUFFICES ASSUME block[s].instrs # {} PROVE FALSE
  OBVIOUS
<1>1. s \in block[s].instrs
  BY DEF IInv, Contiguous
<1> QED
  BY <1>1, InstrOwned

LEMMA NoBlockType == NoBlock \in Block /\ NoBlock.instrs = {}
BY RomEndType DEF NoBlock, Block, Addr

LEMMA InitIInv == Init => IInv
<1> SUFFICES ASSUME Init PROVE IInv
  OBVIOUS
<1> USE DEF Init
<1>1. \A s \in Addr : block[s].instrs = {} /\ ownedBy[s] = None
  BY DEF NoBlock
<1>2. \A s \in Addr : Bytes(s) = {}
  BY <1>1 DEF Bytes
<1>3. TypeOK
  <2>1. code \in [Addr -> Instruction]
    BY AnalyzerAssumption
  <2>2. todo \in Seq(Word16)
    BY AnalyzerAssumption
  <2>3. NoBlock \in Block
    BY NoBlockType
  <2>4. queue \in Seq(Addr) /\ 0 \in Nat
    OBVIOUS
  <2> QED
    BY <2>1, <2>2, <2>3, <2>4 DEF TypeOK
<1>4. Decodable /\ Contiguous /\ SingleEntry
  BY <1>1 DEF Decodable, Contiguous, SingleEntry
<1>5. Cursor
  BY DEF Cursor
<1>6. Ownership
  BY <1>1, <1>2, NoneType DEF Ownership
<1> QED
  BY <1>3, <1>4, <1>5, <1>6 DEF IInv
-----------------------------------------------------------------------------
\* The worklist: what a dequeue leaves on it, what an enqueue adds.
LEMMA Dequeued ==
    ASSUME NEW q \in Seq(Addr), q # <<>>
    PROVE  /\ Head(q) \in Addr /\ Tail(q) \in Seq(Addr)
           /\ \A k \in DOMAIN q : q[k] # Head(q) => \E j \in DOMAIN Tail(q) : Tail(q)[j] = q[k]
<1>1. Head(q) \in Addr /\ Tail(q) \in Seq(Addr)
  OBVIOUS
<1>2. ASSUME NEW k \in DOMAIN q, q[k] # Head(q)
      PROVE  \E j \in DOMAIN Tail(q) : Tail(q)[j] = q[k]
  <2>1. k \in 2..Len(q)
    BY <1>2
  <2>2. k - 1 \in DOMAIN Tail(q) /\ Tail(q)[k - 1] = q[k]
    BY <2>1
  <2> QED
    BY <2>2
<1> QED
  BY <1>1, <1>2

LEMMA Enqueued ==
    ASSUME NEW q \in Seq(Addr), NEW t \in Addr
    PROVE  /\ Append(q, t) \in Seq(Addr)
           /\ \E k \in DOMAIN Append(q, t) : Append(q, t)[k] = t
           /\ \A k \in DOMAIN q : \E j \in DOMAIN Append(q, t) : Append(q, t)[j] = q[k]
<1>1. Append(q, t) \in Seq(Addr) /\ Len(q) + 1 \in DOMAIN Append(q, t)
      /\ Append(q, t)[Len(q) + 1] = t
  OBVIOUS
<1>2. \A k \in DOMAIN q : k \in DOMAIN Append(q, t) /\ Append(q, t)[k] = q[k]
  OBVIOUS
<1> QED
  BY <1>1, <1>2

\* What is queued stays queued when it is not the one dequeued.
LEMMA QueuedAfterDequeue ==
    ASSUME IInv, queue # <<>>, queue' = Tail(queue), NEW i \in Queued, i # Head(queue)
    PROVE  i \in Queued'
<1>1. queue \in Seq(Addr)
  BY DEF IInv, TypeOK
<1>2. PICK k \in DOMAIN queue : queue[k] = i
  BY DEF Queued
<1>3. PICK j \in DOMAIN Tail(queue) : Tail(queue)[j] = i
  BY <1>1, <1>2, Dequeued
<1> QED
  BY <1>3 DEF Queued

\* Steps that change no instruction list, End or owner.
LEMMA SameBlocks ==
    ASSUME IInv, code' = code, ownedBy' = ownedBy,
           \A s \in Addr : block'[s].instrs = block[s].instrs /\ block'[s].end = block[s].end
    PROVE  Decodable' /\ Contiguous' /\ Ownership'
<1>1. \A a : LastByte(a)' = LastByte(a)
  BY DEF LastByte
<1>2. \A s \in Addr : Bytes(s)' = Bytes(s)
  BY <1>1 DEF Bytes
<1>3. Decodable'
  BY DEF IInv, Decodable, Undecodable
<1>4. Contiguous'
  BY <1>1, <1>2 DEF IInv, Contiguous
<1>5. Ownership'
  BY <1>2 DEF IInv, Ownership
<1> QED
  BY <1>3, <1>4, <1>5

LEMMA EnqueueStep == IInv /\ Enqueue => IInv'
<1> SUFFICES ASSUME IInv, Enqueue PROVE IInv'
  OBVIOUS
<1> USE DEF Enqueue
<1>1. Head(todo) \in Word16 /\ Tail(todo) \in Seq(Word16)
  BY DEF IInv, TypeOK
<1>2. CASE Head(todo) < ROM_END /\ Head(todo) \notin blockStart
  <2>1. Head(todo) \in Addr
    BY <1>1, <1>2, RomEndType DEF Addr, Word16
  <2>2. queue' = Append(queue, Head(todo)) /\ blockStart' = blockStart \cup {Head(todo)}
    BY <1>2
  <2>3. queue \in Seq(Addr)
    BY DEF IInv, TypeOK
  <2>4. TypeOK'
    BY <1>1, <2>1, <2>2, <2>3, Enqueued DEF IInv, TypeOK
  <2>5. SingleEntry'
    <3> SUFFICES ASSUME NEW s \in Addr, NEW i \in block[s].instrs, i \in blockStart', i # s
                 PROVE  i \in Queued'
      BY DEF SingleEntry
    <3>1. CASE i = Head(todo)
      BY <2>1, <2>2, <2>3, <3>1, Enqueued DEF Queued
    <3>2. CASE i # Head(todo)
      <4>1. PICK k \in DOMAIN queue : queue[k] = i
        BY <2>2, <3>2 DEF IInv, SingleEntry, Queued
      <4>2. PICK j \in DOMAIN Append(queue, Head(todo)) : Append(queue, Head(todo))[j] = i
        BY <2>1, <2>3, <4>1, Enqueued
      <4> QED
        BY <2>2, <4>2 DEF Queued
    <3> QED
      BY <3>1, <3>2
  <2> QED
    BY <2>4, <2>5, SameBlocks DEF IInv, Cursor
<1>3. CASE ~(Head(todo) < ROM_END /\ Head(todo) \notin blockStart)
  <2>1. UNCHANGED <<queue, blockStart>>
    BY <1>3
  <2>2. TypeOK'
    BY <1>1, <2>1 DEF IInv, TypeOK
  <2>3. SingleEntry'
    BY <2>1 DEF IInv, SingleEntry, Queued
  <2> QED
    BY <2>2, <2>3, SameBlocks DEF IInv, Cursor
<1> QED
  BY <1>2, <1>3

LEMMA CollectedStep == IInv /\ Collected => IInv'
<1> SUFFICES ASSUME IInv, Collected PROVE IInv'
  OBVIOUS
<1> USE DEF Collected
<1>1. TypeOK'
  BY DEF IInv, TypeOK
<1>2. SingleEntry'
  BY DEF IInv, SingleEntry, Queued
<1> QED
  BY <1>1, <1>2, SameBlocks DEF IInv, Cursor

LEMMA FinishStep == IInv /\ Finish => IInv'
<1> SUFFICES ASSUME IInv, Finish PROVE IInv'
  OBVIOUS
<1> USE DEF Finish
<1>1. TypeOK'
  BY DEF IInv, TypeOK
<1>2. SingleEntry'
  BY DEF IInv, SingleEntry, Queued
<1> QED
  BY <1>1, <1>2, SameBlocks DEF IInv, Cursor

LEMMA AbandonStep == IInv /\ Abandon => IInv'
<1> SUFFICES ASSUME IInv, Abandon PROVE IInv'
  OBVIOUS
<1> USE DEF Abandon
<1>1. TypeOK'
  BY DEF IInv, TypeOK
<1>2. SingleEntry'
  BY DEF IInv, SingleEntry, Queued
<1> QED
  BY <1>1, <1>2, SameBlocks DEF IInv, Cursor

\* The dropped address is an instruction of no block but the one it starts.
LEMMA SkipStep == IInv /\ Skip => IInv'
<1> SUFFICES ASSUME IInv, Skip PROVE IInv'
  OBVIOUS
<1> USE DEF Skip
<1>0. queue \in Seq(Addr)
  BY DEF IInv, TypeOK
<1>1. TypeOK'
  BY <1>0, Dequeued DEF IInv, TypeOK
<1>2. SingleEntry'
  <2> SUFFICES ASSUME NEW s \in Addr, NEW i \in block[s].instrs, i \in blockStart, i # s
               PROVE  i \in Queued'
    BY DEF SingleEntry
  <2>1. i \in Queued
    BY DEF IInv, SingleEntry
  <2>2. ownedBy[i] = s
    BY InstrOwned
  <2>3. i # Head(queue)
    BY <2>2 DEF isInstructionBoundary
  <2> QED
    BY <2>1, <2>3, QueuedAfterDequeue
<1> QED
  BY <1>1, <1>2, SameBlocks DEF IInv, Cursor

-----------------------------------------------------------------------------
\* What collectBlock returns when it stops: the block as collected so far, its
\* End unchanged or set to the byte before the cursor, and some successor.
LEMMA ReturnStep ==
    ASSUME IInv, loc = "collect", UNCHANGED ownedBy, NEW b \in Block, Return(b),
           b.instrs = block[cur].instrs, b.end = block[cur].end
    PROVE  IInv'
<1> USE DEF Return
<1>0. cur \in Addr
  BY DEF IInv, TypeOK
<1>1. \A s \in Addr : block'[s].instrs = block[s].instrs /\ block'[s].end = block[s].end
  BY <1>0 DEF IInv, TypeOK
<1>2. TypeOK'
  <2>1. b.succ \in Seq(Addr)
    BY DEF Block
  <2>2. b.succ \in Seq(Word16)
    BY <2>1, AddrType, SeqMono
  <2> QED
    BY <1>0, <2>2 DEF IInv, TypeOK
<1>3. SingleEntry'
  BY <1>1 DEF IInv, SingleEntry, Queued
<1>4. Cursor'
  BY DEF Cursor
<1> QED
  BY <1>1, <1>2, <1>3, <1>4, SameBlocks DEF IInv

LEMMA StopAtKnownStep == IInv /\ StopAtKnown => IInv'
<1> SUFFICES ASSUME IInv, StopAtKnown PROVE IInv'
  OBVIOUS
<1> USE DEF StopAtKnown, AtKnown
<1>1. cur \in Addr /\ block[cur] \in Block /\ addr \in Addr
  BY RomEndType DEF IInv, TypeOK, Addr
<1>2. block[cur].end = addr - 1
  BY DEF IInv, Cursor
<1> DEFINE b == [block[cur] EXCEPT !.end = addr - 1, !.succ = <<addr>>]
<1>3. <<addr>> \in Seq(Addr) /\ addr - 1 \in Addr
  BY <1>1, <1>2 DEF Block
<1>4. b \in Block /\ b.instrs = block[cur].instrs /\ b.end = block[cur].end
  BY <1>1, <1>2, <1>3 DEF Block
<1> QED
  BY <1>4, ReturnStep

LEMMA StopBlockedStep == IInv /\ StopBlocked => IInv'
<1> SUFFICES ASSUME IInv, StopBlocked PROVE IInv'
  OBVIOUS
<1> USE DEF StopBlocked, Blocked
<1>1. cur \in Addr /\ block[cur] \in Block /\ addr \in Addr
  BY RomEndType DEF IInv, TypeOK, Addr
<1> DEFINE b == [block[cur] EXCEPT !.succ = <<addr>>]
<1>2. <<addr>> \in Seq(Addr)
  BY <1>1
<1>3. b \in Block /\ b.instrs = block[cur].instrs /\ b.end = block[cur].end
  BY <1>1, <1>2 DEF Block
<1> QED
  BY <1>3, ReturnStep

LEMMA RunOffStep == IInv /\ RunOff => IInv'
<1> SUFFICES ASSUME IInv, RunOff PROVE IInv'
  OBVIOUS
<1>1. block[cur] \in Block
  BY DEF IInv, TypeOK, RunOff
<1> QED
  BY <1>1, ReturnStep DEF RunOff

\* The dequeued byte is free: it starts an empty block, and no block has an
\* instruction there.
LEMMA BeginStep == IInv /\ Begin => IInv'
<1> SUFFICES ASSUME IInv, Begin PROVE IInv'
  OBVIOUS
<1> USE DEF Begin, StartCollecting
<1> DEFINE start == Head(queue)
<1>0. queue \in Seq(Addr)
  BY DEF IInv, TypeOK
<1>1. start \in Addr /\ Tail(queue) \in Seq(Addr)
  BY <1>0, Dequeued
<1>2. block[start].instrs = {}
  BY <1>1, UnownedEmpty, NoneType
<1>3. \A s \in Addr : block'[s].instrs = block[s].instrs
                      /\ (s # start => block'[s] = block[s])
  BY <1>1, <1>2 DEF IInv, TypeOK, NoBlock
<1>4. TypeOK'
  BY <1>1, AddrType, NoneType, NoBlockType DEF IInv, TypeOK
<1>5. \A a : LastByte(a)' = LastByte(a)
  BY DEF LastByte
<1>6. \A s \in Addr : Bytes(s)' = Bytes(s)
  BY <1>3, <1>5 DEF Bytes
<1>7. Decodable' /\ Ownership'
  BY <1>3, <1>6 DEF IInv, Decodable, Undecodable, Ownership
<1>8. Contiguous'
  BY <1>2, <1>3, <1>5, <1>6 DEF IInv, Contiguous
<1>9. Cursor'
  BY <1>1, <1>2, <1>3 DEF Cursor
<1>10. SingleEntry'
  <2> SUFFICES ASSUME NEW s \in Addr, NEW i \in block[s].instrs, i \in blockStart, i # s
               PROVE  i \in Queued'
    BY <1>3 DEF SingleEntry
  <2>1. i \in Queued
    BY DEF IInv, SingleEntry
  <2>2. i # start
    BY InstrOwned, NoneType
  <2> QED
    BY <2>1, <2>2, QueuedAfterDequeue
<1> QED
  BY <1>4, <1>7, <1>8, <1>9, <1>10 DEF IInv

-----------------------------------------------------------------------------
\* Where an instruction can be taken: it decodes, its bytes are free, and the
\* block so far ends right before it.
LEMMA CanTakeFacts ==
    ASSUME IInv, CanTake
    PROVE  /\ cur \in Addr /\ addr \in Addr /\ addr >= cur
           /\ ~Undecodable(code[addr])
           /\ LastByte(addr) \in Addr /\ addr <= LastByte(addr)
           /\ \A a \in addr..LastByte(addr) : a \in Addr /\ ownedBy[a] = None
           /\ IF block[cur].instrs = {} THEN addr = cur ELSE block[cur].end = addr - 1
           /\ addr # cur => addr \notin blockStart
<1> USE DEF CanTake
<1>1. cur \in Addr /\ addr \in Addr
  BY RomEndType DEF IInv, TypeOK, Addr
<1>2. ~Undecodable(code[addr]) /\ ~spansKnownStart(addr)
  BY DEF Blocked
<1>3. LastByte(addr) \in Addr /\ addr <= LastByte(addr)
  BY <1>1, <1>2, LastByteType DEF IInv
<1>4. addr # cur => ownedBy[addr] = None /\ addr \notin blockStart
  BY DEF AtKnown, Known
<1>5. IF block[cur].instrs = {} THEN addr = cur /\ ownedBy[cur] = None
                                ELSE addr > cur /\ block[cur].end = addr - 1
  BY DEF IInv, Cursor
<1>6. addr >= cur
  BY <1>1, <1>5, AddrType
<1>7. ownedBy[addr] = None
  BY <1>1, <1>4, <1>5, AddrType
<1>8. ASSUME NEW a \in addr..LastByte(addr) PROVE a \in Addr /\ ownedBy[a] = None
  <2>1. a \in Addr
    BY <1>1, <1>3, RomEndType DEF Addr
  <2>2. a = addr \/ a \in (addr + 1)..LastByte(addr)
    BY <1>1, AddrType
  <2> QED
    BY <1>2, <1>7, <2>1, <2>2 DEF spansKnownStart, Known
<1> QED
  BY <1>1, <1>2, <1>3, <1>4, <1>5, <1>6, <1>8

\* Taking the instruction at the cursor keeps the blocks disjoint and tiled.
LEMMA TakeBlocks ==
    ASSUME IInv, CanTake, NEW b \in Block, UNCHANGED <<code, queue, blockStart>>,
           b.instrs = block[cur].instrs \cup {addr}, b.end = LastByte(addr),
           block' = [block EXCEPT ![cur] = b], ownedBy' = claimBytes
    PROVE  /\ Decodable' /\ Contiguous' /\ Ownership' /\ SingleEntry'
           /\ block' \in [Addr -> Block] /\ ownedBy' \in [Addr -> Addr \cup {None}]
<1> DEFINE new == addr..LastByte(addr)
<1>1. /\ cur \in Addr /\ addr \in Addr /\ addr >= cur
      /\ ~Undecodable(code[addr])
      /\ LastByte(addr) \in Addr /\ addr <= LastByte(addr)
      /\ \A a \in new : a \in Addr /\ ownedBy[a] = None
      /\ IF block[cur].instrs = {} THEN addr = cur ELSE block[cur].end = addr - 1
      /\ addr # cur => addr \notin blockStart
  BY CanTakeFacts
<1>2. block \in [Addr -> Block] /\ ownedBy \in [Addr -> Addr \cup {None}]
  BY DEF IInv, TypeOK
<1>3. /\ block'[cur] = b
      /\ \A s \in Addr : s # cur => block'[s] = block[s]
  BY <1>1, <1>2
<1>4. \A a \in Addr : ownedBy'[a] = IF a \in new THEN cur ELSE ownedBy[a]
  BY DEF claimBytes
<1>5. \A a : LastByte(a)' = LastByte(a)
  BY DEF LastByte
<1>6. ASSUME NEW s \in Addr, s = cur PROVE Bytes(s)' = Bytes(s) \cup new
  <2>1. block'[s].instrs = block[s].instrs \cup {addr}
    BY <1>3, <1>6
  <2>2. Bytes(s)' = UNION {i..LastByte(i) : i \in block'[s].instrs}
    BY <1>5 DEF Bytes
  <2> QED
    BY <2>1, <2>2, Zenon DEF Bytes
<1>7. \A s \in Addr : s # cur => Bytes(s)' = Bytes(s)
  BY <1>3, <1>5 DEF Bytes
<1> HIDE DEF new
<1>8. Decodable'
  BY <1>1, <1>3 DEF IInv, Decodable, Undecodable
<1>9. Ownership'
  <2> SUFFICES ASSUME NEW s \in Addr, NEW a \in Addr
               PROVE  ownedBy'[a] = s <=> a \in Bytes(s)'
    BY DEF Ownership
  <2>1. ownedBy[a] = s <=> a \in Bytes(s)
    BY DEF IInv, Ownership
  <2>2. a \in Bytes(s)' <=> a \in Bytes(s) \/ (s = cur /\ a \in new)
    <3>1. CASE s = cur
      BY <1>6, <3>1
    <3>2. CASE s # cur
      BY <1>7, <3>2
    <3> QED
      BY <3>1, <3>2
  <2>3. CASE a \in new
    <3>1. ownedBy'[a] = cur /\ ownedBy[a] = None
      BY <1>1, <1>4, <2>3
    <3> QED
      BY <2>1, <2>2, <2>3, <3>1, NoneType
  <2>4. CASE a \notin new
    <3>1. ownedBy'[a] = ownedBy[a]
      BY <1>4, <2>4
    <3> QED
      BY <2>1, <2>2, <2>4, <3>1
  <2> QED
    BY <2>3, <2>4
<1>10. Contiguous'
  <2> SUFFICES ASSUME NEW s \in Addr, block'[s].instrs # {}
               PROVE  /\ s \in block'[s].instrs
                      /\ Bytes(s)' = s..block'[s].end
                      /\ \A i, j \in block'[s].instrs : j \notin (i + 1)..LastByte(i)
    BY <1>5 DEF Contiguous
  <2>1. CASE s # cur
    BY <1>3, <1>7, <2>1 DEF IInv, Contiguous
  <2>2. CASE s = cur /\ block[cur].instrs = {}
    <3>1. Bytes(s) = {} /\ block'[s].instrs = {addr} /\ addr = cur
      BY <1>1, <1>3, <2>2 DEF Bytes
    <3>2. Bytes(s)' = cur..LastByte(addr)
      <4>1. Bytes(s)' = {} \cup new
        BY <1>6, <2>2, <3>1
      <4> QED
        BY <3>1, <4>1 DEF new
    <3>3. addr \notin (addr + 1)..LastByte(addr)
      BY <1>1, AddrInt
    <3> QED
      BY <1>3, <2>2, <3>1, <3>2, <3>3
  <2>3. CASE s = cur /\ block[cur].instrs # {}
    <3>1. cur \in block[cur].instrs /\ Bytes(s) = cur..(addr - 1)
          /\ \A i, j \in block[cur].instrs : j \notin (i + 1)..LastByte(i)
      BY <1>1, <2>3 DEF IInv, Contiguous
    <3>2. Bytes(s)' = cur..LastByte(addr)
      <4>1. cur..(addr - 1) \cup new = cur..LastByte(addr)
        BY <1>1, AddrInt DEF new
      <4>2. Bytes(s)' = Bytes(s) \cup new
        BY <1>6, <2>3
      <4> QED
        BY <3>1, <4>1, <4>2
    <3>3. ASSUME NEW i \in block[cur].instrs
          PROVE  i \in Addr /\ LastByte(i) \in Addr /\ i <= LastByte(i) /\ LastByte(i) <= addr - 1
      <4>1. i \in Addr /\ LastByte(i) \in Addr /\ i <= LastByte(i)
        BY <1>1, InstrOwned
      <4>2. LastByte(i) \in i..LastByte(i)
        BY <4>1, AddrInt
      <4>3. LastByte(i) \in Bytes(s)
        BY <2>3, <4>2 DEF Bytes
      <4> QED
        BY <3>1, <4>1, <4>3
    <3>4. ASSUME NEW i \in block'[s].instrs, NEW j \in block'[s].instrs
          PROVE  j \notin (i + 1)..LastByte(i)
      <4>1. i \in block[cur].instrs \/ i = addr
        BY <1>3, <2>3
      <4>2. j \in block[cur].instrs \/ j = addr
        BY <1>3, <2>3
      <4>3. CASE i \in block[cur].instrs /\ j \in block[cur].instrs
        BY <3>1, <4>3
      <4>4. CASE i = addr
        <5>1. j <= addr /\ j \in Int
          BY <1>1, <3>3, <4>2, AddrInt
        <5> QED
          BY <1>1, <4>4, <5>1, AddrInt
      <4>5. CASE i \in block[cur].instrs /\ j = addr
        BY <1>1, <3>3, <4>5, AddrInt
      <4> QED
        BY <4>1, <4>2, <4>3, <4>4, <4>5
    <3> QED
      BY <1>3, <2>3, <3>1, <3>2, <3>4
  <2> QED
    BY <2>1, <2>2, <2>3
<1>11. SingleEntry'
  BY <1>1, <1>3 DEF IInv, SingleEntry, Queued
<1>12. block' \in [Addr -> Block] /\ ownedBy' \in [Addr -> Addr \cup {None}]
  BY <1>1, <1>2 DEF claimBytes
<1> QED
  BY <1>8, <1>9, <1>10, <1>11, <1>12

LEMMA TakenType == ASSUME IInv, CanTake PROVE
    /\ Taken \in Block
    /\ Taken.instrs = block[cur].instrs \cup {addr}
    /\ Taken.end = LastByte(addr)
<1>1. block[cur] \in Block /\ addr \in Addr /\ LastByte(addr) \in Addr
  BY CanTakeFacts DEF IInv, TypeOK
<1> QED
  BY <1>1 DEF Taken, Block

LEMMA TakeStep == IInv /\ Take => IInv'
<1> SUFFICES ASSUME IInv, Take PROVE IInv'
  OBVIOUS
<1> USE DEF Take
<1>1. /\ Decodable' /\ Contiguous' /\ Ownership' /\ SingleEntry'
      /\ block' \in [Addr -> Block] /\ ownedBy' \in [Addr -> Addr \cup {None}]
  BY TakenType, TakeBlocks
<1>2. cur \in Addr /\ addr \in Addr /\ addr >= cur /\ code[addr].len \in 1..3
      /\ LastByte(addr) = IF addr + code[addr].len < ROM_END
                         THEN addr + code[addr].len - 1 ELSE ROM_END - 1
  BY CanTakeFacts, LastByteType DEF IInv
<1>3. addr' \in Nat
  BY <1>2, AddrType
<1>4. TypeOK'
  BY <1>1, <1>3 DEF IInv, TypeOK
<1>5. block'[cur].instrs # {} /\ block'[cur].end = LastByte(addr)
  BY <1>2, TakenType DEF IInv, TypeOK
<1>6. Cursor'
  BY <1>2, <1>5, AddrInt DEF Cursor
<1> QED
  BY <1>1, <1>4, <1>6 DEF IInv

LEMMA TakeTerminatorStep == IInv /\ TakeTerminator => IInv'
<1> SUFFICES ASSUME IInv, TakeTerminator PROVE IInv'
  OBVIOUS
<1> USE DEF TakeTerminator, Return
<1> DEFINE b == [Taken EXCEPT !.succ = findSuccessors(addr)]
<1>1. addr \in Addr /\ findSuccessors(addr) \in Seq(Addr)
  BY CanTakeFacts, SuccessorsType DEF IInv
<1>2. b \in Block /\ b.instrs = Taken.instrs /\ b.end = Taken.end /\ b.succ \in Seq(Addr)
  BY <1>1, TakenType DEF Block
<1>3. block' = [block EXCEPT ![cur] = b] /\ todo' = b.succ
  OBVIOUS
<1> HIDE DEF b
<1>4. /\ Decodable' /\ Contiguous' /\ Ownership' /\ SingleEntry'
      /\ block' \in [Addr -> Block] /\ ownedBy' \in [Addr -> Addr \cup {None}]
  BY <1>2, <1>3, TakenType, TakeBlocks
<1>5. b.succ \in Seq(Word16)
  BY <1>2, AddrType, SeqMono
<1>6. TypeOK'
  BY <1>3, <1>4, <1>5 DEF IInv, TypeOK
<1>7. Cursor'
  BY DEF Cursor
<1> QED
  BY <1>4, <1>6, <1>7 DEF IInv
-----------------------------------------------------------------------------
\* Cutting a block at one of its instructions leaves what lies before it, ended
\* by the byte before the cut, and frees exactly the bytes from the cut on.
LEMMA CutStep == IInv /\ Cut => IInv'
<1> SUFFICES ASSUME IInv, Cut PROVE IInv'
  OBVIOUS
<1> USE DEF Cut, StartCollecting
<1> DEFINE start == Head(queue)
           owner == ownedBy[start]
           kept  == {i \in block[owner].instrs : i < start}
<1>0. queue \in Seq(Addr) /\ block \in [Addr -> Block]
      /\ ownedBy \in [Addr -> Addr \cup {None}]
  BY DEF IInv, TypeOK
<1>1. start \in Addr /\ Tail(queue) \in Seq(Addr)
  BY <1>0, Dequeued
<1>2. owner \in Addr /\ owner # start /\ start \in block[owner].instrs
  BY <1>0, <1>1 DEF isInstructionBoundary
<1>3. block[start].instrs = {}
  BY <1>1, <1>2, UnownedEmpty
<1>4. owner < start
  BY <1>1, <1>2, InstrOwned, AddrInt
<1>5. /\ owner \in block[owner].instrs
      /\ Bytes(owner) = owner..block[owner].end
      /\ \A i, j \in block[owner].instrs : j \notin (i + 1)..LastByte(i)
  BY <1>2 DEF IInv, Contiguous
<1>6. block[owner].end \in Addr
  BY <1>0, <1>2 DEF Block
<1>7. /\ block'[owner] = [end |-> start - 1, instrs |-> kept, succ |-> <<start>>]
      /\ block'[start] = NoBlock
      /\ \A s \in Addr : s # owner /\ s # start => block'[s] = block[s]
  BY <1>0, <1>1, <1>2 DEF cutBlock
<1>8. \A a \in Addr : ownedBy'[a] = IF a \in start..block[owner].end THEN None ELSE ownedBy[a]
  BY DEF Released
<1>9. \A a : LastByte(a)' = LastByte(a)
  BY DEF LastByte
<1>10. block'[owner].instrs = kept /\ block'[owner].end = start - 1
       /\ block'[start].instrs = {}
  <2>1. block'[owner] = cutBlock(owner, start)
    BY <1>0, <1>1, <1>2
  <2>2. cutBlock(owner, start).instrs = kept /\ cutBlock(owner, start).end = start - 1
    BY DEF cutBlock
  <2> QED
    BY <1>7, <2>1, <2>2, NoBlockType
<1> HIDE DEF start, owner, kept
<1>11. ASSUME NEW i \in kept
       PROVE  i \in Addr /\ LastByte(i) \in Addr /\ i <= LastByte(i) /\ LastByte(i) < start
  <2>1. i \in block[owner].instrs /\ i < start
    BY DEF kept
  <2>2. i \in Addr /\ LastByte(i) \in Addr /\ i <= LastByte(i)
    BY <1>2, <2>1, InstrOwned
  <2> QED
    BY <1>1, <1>2, <1>5, <2>1, <2>2, AddrInt
<1>12. ASSUME NEW i \in block[owner].instrs, i \notin kept
       PROVE  i \in Addr /\ i >= start
  BY <1>1, <1>2, <1>12, InstrOwned, AddrInt DEF kept
<1>13. UNION {i..LastByte(i) : i \in kept} = owner..(start - 1)
  <2>1. ASSUME NEW i \in kept, NEW a \in i..LastByte(i) PROVE a \in owner..(start - 1)
    <3>1. i >= owner
      BY <1>2, InstrOwned DEF kept
    <3> QED
      BY <1>1, <1>2, <1>11, <3>1, AddrInt
  <2>2. ASSUME NEW a \in owner..(start - 1)
        PROVE  \E i \in kept : a \in i..LastByte(i)
    <3>1. start \in start..LastByte(start)
      BY <1>1, <1>2, InstrOwned, AddrInt
    <3>2. start \in Bytes(owner)
      BY <1>2, <3>1 DEF Bytes
    <3>3. a \in Bytes(owner)
      BY <1>1, <1>2, <1>5, <1>6, <3>2, AddrInt
    <3>4. PICK i \in block[owner].instrs : a \in i..LastByte(i)
      BY <3>3 DEF Bytes
    <3>5. i \in kept
      BY <1>1, <1>2, <1>12, <3>4, AddrInt
    <3> QED
      BY <3>4, <3>5
  <2> QED
    BY <2>1, <2>2
<1>14. ASSUME NEW s \in Addr, s = owner PROVE Bytes(s)' = owner..(start - 1)
  <2>1. Bytes(s)' = UNION {i..LastByte(i) : i \in block'[s].instrs}
    BY <1>9 DEF Bytes
  <2> QED
    BY <1>10, <1>13, <1>14, <2>1
<1>15. ASSUME NEW s \in Addr, s = start PROVE Bytes(s)' = {} /\ Bytes(s) = {}
  BY <1>3, <1>10, <1>15 DEF Bytes
<1>16. ASSUME NEW s \in Addr, s # owner, s # start PROVE Bytes(s)' = Bytes(s)
  BY <1>7, <1>9, <1>16 DEF Bytes
<1>17. TypeOK'
  <2>1. block'[owner] \in Block /\ block'[start] \in Block
    <3>1. start - 1 \in Addr
      BY <1>1, <1>2, <1>4, RomEndType DEF Addr
    <3>2. kept \in SUBSET Addr
      BY <1>11
    <3>3. <<start>> \in Seq(Addr)
      BY <1>1
    <3>4. [end |-> start - 1, instrs |-> kept, succ |-> <<start>>] \in Block
      BY <3>1, <3>2, <3>3, Zenon DEF Block
    <3> QED
      BY <1>7, <3>4, NoBlockType, Zenon
  <2>2. block' \in [Addr -> Block]
    <3>1. \A s \in Addr : block'[s] \in Block
      BY <1>0, <1>7, <2>1
    <3>2. block' = [s \in Addr |-> block'[s]]
      BY <1>0
    <3> QED
      BY <3>1, <3>2
  <2>3. ownedBy' \in [Addr -> Addr \cup {None}]
    BY <1>0 DEF Released
  <2>4. cur' = start /\ addr' = start /\ queue' = Tail(queue) /\ loc' = "collect"
    BY DEF start
  <2> QED
    BY <1>1, <2>2, <2>3, <2>4, AddrType, NoneType DEF IInv, TypeOK
<1>18. Decodable'
  <2> SUFFICES ASSUME NEW s \in Addr, NEW i \in block'[s].instrs
               PROVE  i >= s /\ ~Undecodable(code[i])
    BY DEF Decodable, Undecodable
  <2>1. i \in block[s].instrs
    BY <1>7, <1>10 DEF kept
  <2> QED
    BY <2>1 DEF IInv, Decodable
<1>19. Ownership'
  <2> SUFFICES ASSUME NEW s \in Addr, NEW a \in Addr
               PROVE  ownedBy'[a] = s <=> a \in Bytes(s)'
    BY DEF Ownership
  <2>1. ownedBy[a] = s <=> a \in Bytes(s)
    BY DEF IInv, Ownership
  <2>2. a \in start..block[owner].end => ownedBy[a] = owner
    <3>1. a \in start..block[owner].end => a \in Bytes(owner)
      BY <1>1, <1>2, <1>4, <1>5, <1>6, AddrInt
    <3> QED
      BY <1>2, <3>1 DEF IInv, Ownership
  <2>3. CASE s = owner
    <3>1. a \in Bytes(s) <=> a \in owner..block[owner].end
      BY <1>5, <2>3
    <3>2. a \in owner..(start - 1)
             <=> a \in owner..block[owner].end /\ a \notin start..block[owner].end
      <4>1. start \in owner..block[owner].end
        <5>1. start \in start..LastByte(start)
          BY <1>1, <1>2, InstrOwned, AddrInt
        <5> QED
          BY <1>2, <1>5, <5>1 DEF Bytes
      <4>2. a \in Int /\ start \in Int /\ owner \in Int /\ block[owner].end \in Int
        BY <1>1, <1>2, <1>6, AddrInt
      <4> QED
        BY <4>1, <4>2
    <3> QED
      BY <1>8, <1>14, <2>1, <2>3, <3>1, <3>2, NoneType
  <2>4. CASE s = start
    BY <1>2, <1>8, <1>15, <2>1, <2>4, NoneType
  <2>5. CASE s # owner /\ s # start
    BY <1>8, <1>16, <2>1, <2>2, <2>5, NoneType
  <2> QED
    BY <2>3, <2>4, <2>5
<1>20. Contiguous'
  <2> SUFFICES ASSUME NEW s \in Addr, block'[s].instrs # {}
               PROVE  /\ s \in block'[s].instrs
                      /\ Bytes(s)' = s..block'[s].end
                      /\ \A i, j \in block'[s].instrs : j \notin (i + 1)..LastByte(i)
    BY <1>9 DEF Contiguous
  <2>1. CASE s = owner
    <3>1. owner \in kept
      BY <1>4, <1>5 DEF kept
    <3>2. \A i, j \in kept : j \notin (i + 1)..LastByte(i)
      BY <1>5 DEF kept
    <3> QED
      BY <1>10, <1>14, <2>1, <3>1, <3>2
  <2>2. CASE s # owner
    BY <1>7, <1>10, <1>16, <2>2 DEF IInv, Contiguous
  <2> QED
    BY <2>1, <2>2
<1>21. Cursor'
  <2>1. cur' = start /\ addr' = start
    BY DEF start
  <2>2. start \in start..block[owner].end
    <3>1. start \in start..LastByte(start)
      BY <1>1, <1>2, InstrOwned, AddrInt
    <3>2. start \in Bytes(owner)
      BY <1>2, <3>1 DEF Bytes
    <3> QED
      BY <1>1, <1>5, <1>6, <3>2, AddrInt
  <2> QED
    BY <1>1, <1>8, <1>10, <2>1, <2>2 DEF Cursor
<1>22. SingleEntry'
  <2> SUFFICES ASSUME NEW s \in Addr, NEW i \in block'[s].instrs, i \in blockStart, i # s
               PROVE  i \in Queued'
    BY DEF SingleEntry
  <2>1. i \in block[s].instrs
    BY <1>7, <1>10 DEF kept
  <2>2. i \in Queued
    BY <2>1 DEF IInv, SingleEntry
  <2>3. i # start
    <3>1. CASE s = owner
      BY <1>1, <1>10, <1>11, <3>1, AddrInt
    <3>2. CASE s # owner
      BY <2>1, <3>2, InstrOwned DEF owner
    <3> QED
      BY <3>1, <3>2
  <2> QED
    BY <2>2, <2>3, QueuedAfterDequeue DEF start
<1> QED
  BY <1>17, <1>18, <1>19, <1>20, <1>21, <1>22 DEF IInv
-----------------------------------------------------------------------------
LEMMA StutterStep == IInv /\ UNCHANGED vars => IInv'
<1> SUFFICES ASSUME IInv, UNCHANGED vars PROVE IInv'
  OBVIOUS
<1> USE DEF vars
<1>1. TypeOK'
  BY DEF IInv, TypeOK
<1>2. SingleEntry'
  BY DEF IInv, SingleEntry, Queued
<1> QED
  BY <1>1, <1>2, SameBlocks DEF IInv, Cursor

LEMMA NextIInv == IInv /\ [Next]_vars => IInv'
<1> SUFFICES ASSUME IInv, [Next]_vars PROVE IInv'
  OBVIOUS
<1>1. CASE Enqueue
  BY <1>1, EnqueueStep
<1>2. CASE Collected
  BY <1>2, CollectedStep
<1>3. CASE Begin
  BY <1>3, BeginStep
<1>4. CASE Skip
  BY <1>4, SkipStep
<1>5. CASE Cut
  BY <1>5, CutStep
<1>6. CASE StopAtKnown
  BY <1>6, StopAtKnownStep
<1>7. CASE StopBlocked
  BY <1>7, StopBlockedStep
<1>8. CASE Abandon
  BY <1>8, AbandonStep
<1>9. CASE RunOff
  BY <1>9, RunOffStep
<1>10. CASE Take
  BY <1>10, TakeStep
<1>11. CASE TakeTerminator
  BY <1>11, TakeTerminatorStep
<1>12. CASE Finish
  BY <1>12, FinishStep
<1>13. CASE Done
  BY <1>13, StutterStep DEF Done
<1>14. CASE UNCHANGED vars
  BY <1>14, StutterStep
<1> QED
  BY <1>1, <1>2, <1>3, <1>4, <1>5, <1>6, <1>7, <1>8, <1>9, <1>10, <1>11, <1>12,
     <1>13, <1>14 DEF Next

LEMMA Invariance == Spec => []IInv
BY InitIInv, NextIInv, PTL DEF Spec

\* The analyzer's variables keep their types: no successor, End or owner ever
\* leaves the ROM (AnalyzeBlocks, collectBlock, cutBlock).
THEOREM TypeCorrect == Spec => []TypeOK
<1>1. IInv => TypeOK
  BY DEF IInv
<1> QED
  BY <1>1, Invariance, PTL

\* A byte is owned by exactly the block one of whose instructions covers it
\* (claimBytes, cutBlock), so no byte is compiled into two blocks.
THEOREM OwnershipExact == Spec => []Ownership
<1>1. IInv => Ownership
  BY DEF IInv
<1> QED
  BY <1>1, Invariance, PTL

\* The instructions of a block tile it from Start to End (collectBlock, cutBlock).
THEOREM BlocksContiguous == Spec => []Contiguous
<1>1. IInv => Contiguous
  BY DEF IInv
<1> QED
  BY <1>1, Invariance, PTL

\* No known target of an edge stays at an instruction inside a block, unless it
\* is still on the worklist (enqueue, spansKnownStart, cutBlock).
THEOREM EnteredAtStart == Spec => []SingleEntry
<1>1. IInv => SingleEntry
  BY DEF IInv
<1> QED
  BY <1>1, Invariance, PTL
-----------------------------------------------------------------------------
(* What the analyzer returns: IInv says where blocks lie; ResultInv adds how a block
   ends (EndsRight), which blocks are complete (Progress), and where every known start
   has gone (Reached, Placed). *)

\* collectBlock is not done with the block.
Open(s) == loc = "collect" /\ s = cur

\* A terminator ends its block; a block that ends without one falls through to
\* the next address, if there is one.
EndsRight(s) ==
    \A i \in block[s].instrs :
        /\ IsBlockTerminator(code[i]) => LastByte(i) = block[s].end
        /\ LastByte(i) = block[s].end =>
            IF IsBlockTerminator(code[i]) THEN block[s].succ = findSuccessors(i)
            ELSE IF block[s].end = ROM_END - 1 THEN block[s].succ = <<>>
            ELSE block[s].succ = <<block[s].end + 1>>

\* An open block has neither terminator nor successors yet.
NotEnded(s) ==
    /\ block[s].succ = <<>>
    /\ \A i \in block[s].instrs : ~IsBlockTerminator(code[i])

Ends == \A s \in Addr : IF Open(s) THEN NotEnded(s) ELSE EndsRight(s)

\* Which blocks have instructions: those returned, the one whose successors are
\* being enqueued, and perhaps the open one, which is not returned yet.
Progress ==
    /\ \A s \in Addr : block[s].instrs # {} => s \in blocks \/ s = cur
    /\ \A s \in blocks : block[s].instrs # {}
    /\ loc = "enqueue" /\ cur # None => block[cur].instrs # {}
    /\ loc = "collect" => cur \notin blocks
    /\ loc \in {"dequeue", "done"} => cur = None
    /\ loc = "done" => queue = <<>>

Pending(t) == loc = "enqueue" /\ \E k \in DOMAIN todo : todo[k] = t

\* Only known starts are queued and made blocks, and the target of every edge is
\* one, unless it is about to be enqueued.
Reached ==
    /\ Queued \subseteq blockStart
    /\ cur # None => cur \in blockStart
    /\ blocks \subseteq blockStart
    /\ \A s \in Addr : block[s].instrs # {} =>
        \A k \in DOMAIN block[s].succ :
            LET t == block[s].succ[k] IN t \in blockStart \/ Pending(t)

\* A known start is still to be looked at, or starts a block, or cannot.
Placed ==
    \A t \in blockStart :
        t \in Queued \/ t = cur \/ t \in blocks \/ Undecodable(code[t]) \/ Overlaps(t)

ResultInv == IInv /\ Ends /\ Progress /\ Reached /\ Placed
-----------------------------------------------------------------------------
\* Reading a block: its instructions end within it, and the one that ends it is the
\* last.
LEMMA WithinEnd ==
    ASSUME IInv, NEW s \in Addr, NEW i \in block[s].instrs
    PROVE  /\ i \in Addr /\ s <= i /\ LastByte(i) \in Addr /\ i <= LastByte(i)
           /\ block[s].end \in Addr /\ LastByte(i) <= block[s].end
<1>1. i \in Addr /\ i >= s /\ LastByte(i) \in Addr /\ i <= LastByte(i)
  BY InstrOwned
<1>2. block[s].end \in Addr /\ Bytes(s) = s..block[s].end
  BY DEF IInv, TypeOK, Block, Contiguous
<1>3. LastByte(i) \in i..LastByte(i)
  BY <1>1, AddrInt
<1>4. LastByte(i) \in s..block[s].end
  BY <1>2, <1>3 DEF Bytes
<1> QED
  BY <1>1, <1>2, <1>4, AddrInt

LEMMA LastInstr ==
    ASSUME IInv, NEW s \in Addr, block[s].instrs # {}
    PROVE  \E last \in block[s].instrs :
               /\ LastByte(last) = block[s].end
               /\ \A i \in block[s].instrs \ {last} : LastByte(i) < last
<1>1. /\ s \in block[s].instrs /\ Bytes(s) = s..block[s].end
      /\ \A i, j \in block[s].instrs : j \notin (i + 1)..LastByte(i)
  BY DEF IInv, Contiguous
<1>2. s <= block[s].end /\ block[s].end \in Addr
  BY <1>1, WithinEnd, AddrInt
<1>3. block[s].end \in Bytes(s)
  BY <1>1, <1>2, AddrInt
<1>4. PICK last \in block[s].instrs : block[s].end \in last..LastByte(last)
  BY <1>3 DEF Bytes
<1>5. LastByte(last) = block[s].end
  BY <1>2, <1>4, WithinEnd, AddrInt
<1>6. ASSUME NEW i \in block[s].instrs, i # last PROVE LastByte(i) < last
  <2>1. i \notin (last + 1)..LastByte(last) /\ last \notin (i + 1)..LastByte(i)
    BY <1>1
  <2> QED
    BY <1>5, <1>6, <2>1, WithinEnd, AddrInt
<1> QED
  BY <1>5, <1>6

\* A step that leaves the code and a block alone leaves it as it ends.
LEMMA SameCode ==
    ASSUME code' = code
    PROVE  \A a : /\ LastByte(a)' = LastByte(a)
                  /\ findSuccessors(a)' = findSuccessors(a)
                  /\ Undecodable(code[a])' = Undecodable(code[a])
BY DEF LastByte, findSuccessors, calculateRelativeJumpAddress, Undecodable

LEMMA SameEnd ==
    ASSUME code' = code, NEW s \in Addr, block'[s] = block[s]
    PROVE  EndsRight(s)' = EndsRight(s) /\ NotEnded(s)' = NotEnded(s)
BY SameCode DEF EndsRight, NotEnded

LEMMA EmptyEnds ==
    ASSUME NEW s \in Addr, block[s].instrs = {} PROVE EndsRight(s)
BY DEF EndsRight
-----------------------------------------------------------------------------
LEMMA InitResult == Init => Ends /\ Progress /\ Reached /\ Placed
<1> SUFFICES ASSUME Init PROVE Ends /\ Progress /\ Reached /\ Placed
  OBVIOUS
<1>1. \A s \in Addr : block[s].instrs = {}
  BY DEF Init, NoBlock
<1>2. Ends
  BY <1>1, EmptyEnds DEF Ends, Open, Init
<1>3. Progress /\ Reached /\ Placed
  BY <1>1 DEF Progress, Reached, Placed, Init, Queued
<1> QED
  BY <1>2, <1>3

\* Ends is kept by steps that touch no block and open none.
LEMMA EndsSame ==
    ASSUME Ends, code' = code, block' = block, loc' # "collect",
           loc = "collect" => block[cur].instrs = {}
    PROVE  Ends'
<1> SUFFICES ASSUME NEW s \in Addr PROVE EndsRight(s)'
  BY DEF Ends, Open
<1>1. EndsRight(s)
  BY EmptyEnds DEF Ends, Open
<1> QED
  BY <1>1, SameEnd

LEMMA EnqueueEnds == ResultInv /\ Enqueue => Ends'
BY EndsSame DEF ResultInv, Enqueue

LEMMA CollectedEnds == ResultInv /\ Collected => Ends'
BY EndsSame DEF ResultInv, Collected

LEMMA SkipEnds == ResultInv /\ Skip => Ends'
BY EndsSame DEF ResultInv, Skip

LEMMA FinishEnds == ResultInv /\ Finish => Ends'
BY EndsSame DEF ResultInv, Finish

LEMMA AbandonEnds == ResultInv /\ Abandon => Ends'
BY EndsSame DEF ResultInv, Abandon

LEMMA StutterEnds == ResultInv /\ UNCHANGED vars => Ends'
<1> SUFFICES ASSUME ResultInv, UNCHANGED vars, NEW s \in Addr
             PROVE  IF Open(s)' THEN NotEnded(s)' ELSE EndsRight(s)'
  BY DEF Ends
<1>1. code' = code /\ block'[s] = block[s] /\ Open(s)' = Open(s)
  BY DEF vars, Open
<1> QED
  BY <1>1, SameEnd DEF ResultInv, Ends

LEMMA BeginEnds == ResultInv /\ Begin => Ends'
<1> SUFFICES ASSUME ResultInv, Begin, NEW s \in Addr
             PROVE  IF Open(s)' THEN NotEnded(s)' ELSE EndsRight(s)'
  BY DEF Ends
<1> USE DEF Begin, StartCollecting
<1>1. queue \in Seq(Addr) /\ block \in [Addr -> Block]
  BY DEF ResultInv, IInv, TypeOK
<1>2. Head(queue) \in Addr
  BY <1>1, Dequeued
<1>3. CASE s = Head(queue)
  <2>1. block'[s] = NoBlock /\ Open(s)'
    BY <1>1, <1>2, <1>3 DEF Open
  <2> QED
    BY <2>1 DEF NotEnded, NoBlock
<1>4. CASE s # Head(queue)
  <2>1. block'[s] = block[s] /\ ~Open(s)' /\ ~Open(s)
    BY <1>1, <1>2, <1>4 DEF Open
  <2> QED
    BY <2>1, SameEnd DEF ResultInv, Ends
<1> QED
  BY <1>3, <1>4

\* The kept part of a cut block has no terminator, as the cut is behind it, and
\* falls through to the cut.
LEMMA CutEnds == ResultInv /\ Cut => Ends'
<1> SUFFICES ASSUME ResultInv, Cut, NEW s \in Addr
             PROVE  IF Open(s)' THEN NotEnded(s)' ELSE EndsRight(s)'
  BY DEF Ends
<1> DEFINE start == Head(queue)
           owner == ownedBy[start]
<1>1. queue \in Seq(Addr) /\ block \in [Addr -> Block] /\ ownedBy \in [Addr -> Addr \cup {None}]
  BY DEF ResultInv, IInv, TypeOK
<1>2. start \in Addr
  BY <1>1, Dequeued DEF Cut
<1>3. owner \in Addr /\ owner # start /\ start \in block[owner].instrs
  BY <1>1, <1>2 DEF Cut, isInstructionBoundary
<1>4. code' = code /\ loc = "dequeue" /\ loc' = "collect" /\ cur' = start
      /\ block' = [block EXCEPT ![owner] = cutBlock(owner, start), ![start] = NoBlock]
  BY DEF Cut, StartCollecting
<1> HIDE DEF start, owner
<1>5. CASE s = start
  <2>1. block'[s] = NoBlock /\ Open(s)'
    BY <1>1, <1>2, <1>4, <1>5 DEF Open
  <2> QED
    BY <2>1 DEF NotEnded, NoBlock
<1>6. CASE s = owner
  <2>1. ~Open(s)' /\ ~Open(s)
    BY <1>3, <1>4, <1>6 DEF Open
  <2>2. EndsRight(s)
    BY <2>1 DEF ResultInv, Ends
  <2>3. block'[s] = cutBlock(s, start)
    BY <1>1, <1>2, <1>3, <1>4, <1>6
  <2>4. /\ block'[s].instrs = {i \in block[s].instrs : i < start}
        /\ block'[s].end = start - 1 /\ block'[s].succ = <<start>>
    BY <2>3 DEF cutBlock
  <2>5. start - 1 # ROM_END - 1 /\ (start - 1) + 1 = start /\ start <= block[s].end
    BY <1>2, <1>3, <1>6, WithinEnd, AddrInt, RomEndType DEF ResultInv
  <2>6. ASSUME NEW i \in block[s].instrs, i < start PROVE ~IsBlockTerminator(code[i])
    <3>1. start \notin (i + 1)..LastByte(i)
      BY <1>3, <1>6 DEF ResultInv, IInv, Contiguous
    <3>2. LastByte(i) < start
      BY <1>2, <2>6, <3>1, WithinEnd, AddrInt DEF ResultInv
    <3>3. LastByte(i) # block[s].end
      BY <1>2, <2>5, <2>6, <3>2, WithinEnd, AddrInt DEF ResultInv
    <3> QED
      BY <2>2, <3>3 DEF EndsRight
  <2>7. EndsRight(s)'
    BY <1>4, <2>4, <2>5, <2>6, SameCode DEF EndsRight
  <2> QED
    BY <2>1, <2>7
<1>7. CASE s # start /\ s # owner
  <2>1. block'[s] = block[s] /\ ~Open(s)' /\ ~Open(s)
    BY <1>1, <1>2, <1>3, <1>4, <1>7 DEF Open
  <2> QED
    BY <1>4, <2>1, SameEnd DEF ResultInv, Ends
<1> QED
  BY <1>5, <1>6, <1>7

\* A returned block is judged by how it ends itself.
LEMMA ReturnEnds ==
    ASSUME ResultInv, loc = "collect", code' = code, NEW b, block' = [block EXCEPT ![cur] = b],
           loc' = "enqueue", cur' = cur, EndsRight(cur)'
    PROVE  Ends'
<1> SUFFICES ASSUME NEW s \in Addr PROVE EndsRight(s)'
  BY DEF Ends, Open
<1> SUFFICES ASSUME s # cur PROVE EndsRight(s)'
  OBVIOUS
<1>0. block \in [Addr -> Block] /\ cur \in Addr
  BY DEF ResultInv, IInv, TypeOK
<1>1. block'[s] = block[s] /\ ~Open(s)
  BY <1>0 DEF Open
<1> QED
  BY <1>1, SameEnd DEF ResultInv, Ends

\* An open block that stops without a terminator falls through to its successor.
LEMMA FallsThrough ==
    ASSUME ResultInv, loc = "collect", code' = code, cur' = cur, NEW b \in Block,
           block' = [block EXCEPT ![cur] = b], loc' = "enqueue",
           b.instrs = block[cur].instrs, b.end = block[cur].end,
           b.succ = IF b.end = ROM_END - 1 THEN <<>> ELSE <<b.end + 1>>
    PROVE  Ends'
<1>1. block \in [Addr -> Block] /\ cur \in Addr
  BY DEF ResultInv, IInv, TypeOK
<1>2. block'[cur] = b
  BY <1>1
<1>3. \A i \in b.instrs : ~IsBlockTerminator(code[i])
  BY <1>1 DEF ResultInv, Ends, Open, NotEnded
<1>4. EndsRight(cur)'
  BY <1>2, <1>3 DEF EndsRight
<1> QED
  BY <1>4, ReturnEnds

LEMMA StopAtKnownEnds == ResultInv /\ StopAtKnown => Ends'
<1> SUFFICES ASSUME ResultInv, StopAtKnown PROVE Ends'
  OBVIOUS
<1>1. /\ cur \in Addr /\ block[cur] \in Block /\ addr \in Addr /\ addr # cur
      /\ loc = "collect"
  BY RomEndType DEF ResultInv, IInv, TypeOK, Addr, StopAtKnown, AtKnown
<1>2. block[cur].end = addr - 1
  BY <1>1, AddrInt DEF ResultInv, IInv, Cursor
<1> DEFINE b == [block[cur] EXCEPT !.end = addr - 1, !.succ = <<addr>>]
<1>3. addr - 1 \in Addr /\ <<addr>> \in Seq(Addr)
  BY <1>1, <1>2 DEF Block
<1>4. b \in Block /\ b.instrs = block[cur].instrs /\ b.end = addr - 1 /\ b.succ = <<addr>>
  BY <1>1, <1>3 DEF Block
<1>5. block' = [block EXCEPT ![cur] = b] /\ code' = code /\ cur' = cur /\ loc' = "enqueue"
  BY DEF StopAtKnown, Return
<1> HIDE DEF b
<1>6. addr - 1 # ROM_END - 1 /\ (addr - 1) + 1 = addr
  BY <1>1, AddrInt, RomEndType
<1> QED
  BY <1>1, <1>2, <1>4, <1>5, <1>6, FallsThrough

LEMMA StopBlockedEnds == ResultInv /\ StopBlocked => Ends'
<1> SUFFICES ASSUME ResultInv, StopBlocked PROVE Ends'
  OBVIOUS
<1>1. /\ cur \in Addr /\ block[cur] \in Block /\ addr \in Addr /\ block[cur].instrs # {}
      /\ loc = "collect"
  BY RomEndType DEF ResultInv, IInv, TypeOK, Addr, StopBlocked, Blocked
<1>2. block[cur].end = addr - 1
  BY <1>1, AddrInt DEF ResultInv, IInv, Cursor
<1> DEFINE b == [block[cur] EXCEPT !.succ = <<addr>>]
<1>3. <<addr>> \in Seq(Addr)
  BY <1>1
<1>4. b \in Block /\ b.instrs = block[cur].instrs /\ b.end = addr - 1 /\ b.succ = <<addr>>
  BY <1>1, <1>2, <1>3 DEF Block
<1>5. block' = [block EXCEPT ![cur] = b] /\ code' = code /\ cur' = cur /\ loc' = "enqueue"
  BY DEF StopBlocked, Return
<1> HIDE DEF b
<1>6. addr - 1 # ROM_END - 1 /\ (addr - 1) + 1 = addr
  BY <1>1, AddrInt, RomEndType
<1> QED
  BY <1>1, <1>2, <1>4, <1>5, <1>6, FallsThrough

\* The cursor is past the ROM only behind an instruction at its end.
LEMMA RunOffEnds == ResultInv /\ RunOff => Ends'
<1> SUFFICES ASSUME ResultInv, RunOff PROVE Ends'
  OBVIOUS
<1>1. cur \in Addr /\ block[cur] \in Block /\ addr >= ROM_END /\ addr \in Nat /\ loc = "collect"
  BY DEF ResultInv, IInv, TypeOK, RunOff
<1>2. block[cur].instrs # {} /\ block[cur].end = ROM_END - 1
  BY <1>1, AddrInt, RomEndType DEF ResultInv, IInv, Cursor
<1>3. block[cur].succ = <<>>
  BY <1>1 DEF ResultInv, Ends, Open, NotEnded
<1>4. block' = [block EXCEPT ![cur] = block[cur]] /\ code' = code /\ cur' = cur
      /\ loc' = "enqueue"
  BY DEF RunOff, Return
<1> QED
  BY <1>1, <1>2, <1>3, <1>4, FallsThrough

LEMMA TakeEnds == ResultInv /\ Take => Ends'
<1> SUFFICES ASSUME ResultInv, Take, NEW s \in Addr
             PROVE  IF Open(s)' THEN NotEnded(s)' ELSE EndsRight(s)'
  BY DEF Ends
<1>1. /\ block \in [Addr -> Block] /\ cur \in Addr /\ loc = "collect"
      /\ block' = [block EXCEPT ![cur] = Taken]
      /\ code' = code /\ cur' = cur /\ loc' = loc /\ ~IsBlockTerminator(code[addr])
  BY DEF ResultInv, IInv, TypeOK, Take, CanTake
<1>2. Open(s)' = Open(s)
  BY <1>1 DEF Open
<1>3. CASE s = cur
  <2>1. Open(s)
    BY <1>1, <1>3 DEF Open
  <2>2. NotEnded(s)
    BY <2>1 DEF ResultInv, Ends
  <2>3. block'[s] = Taken
    BY <1>1, <1>3
  <2>4. Taken.instrs = block[s].instrs \cup {addr} /\ Taken.succ = block[s].succ
    <3>1. block[cur] \in [end : Addr, instrs : SUBSET Addr, succ : Seq(Addr)]
      BY <1>1 DEF Block
    <3> QED
      BY <1>3, <3>1 DEF Taken
  <2>5. NotEnded(s)'
    BY <1>1, <2>2, <2>3, <2>4 DEF NotEnded
  <2> QED
    BY <1>2, <2>1, <2>5
<1>4. CASE s # cur
  <2>1. block'[s] = block[s]
    BY <1>1, <1>4
  <2> QED
    BY <1>1, <1>2, <2>1, SameEnd DEF ResultInv, Ends
<1> QED
  BY <1>3, <1>4

\* The terminator is the one instruction of its block that ends it.
LEMMA TakeTerminatorEnds == ResultInv /\ TakeTerminator => Ends'
<1> SUFFICES ASSUME ResultInv, TakeTerminator PROVE Ends'
  OBVIOUS
<1> DEFINE b == [Taken EXCEPT !.succ = findSuccessors(addr)]
<1>1. IInv /\ CanTake /\ IsBlockTerminator(code[addr]) /\ loc = "collect"
  BY DEF ResultInv, TakeTerminator, CanTake
<1>2. block' = [block EXCEPT ![cur] = b] /\ code' = code /\ cur' = cur /\ loc' = "enqueue"
  BY DEF TakeTerminator, Return
<1>3. /\ cur \in Addr /\ addr \in Addr /\ LastByte(addr) \in Addr /\ addr <= LastByte(addr)
      /\ IF block[cur].instrs = {} THEN addr = cur ELSE block[cur].end = addr - 1
  BY <1>1, CanTakeFacts
<1>4. /\ b.instrs = block[cur].instrs \cup {addr} /\ b.end = LastByte(addr)
      /\ b.succ = findSuccessors(addr)
  <2>1. Taken \in [end : Addr, instrs : SUBSET Addr, succ : Seq(Addr)]
    BY <1>1, TakenType DEF Block
  <2> QED
    BY <1>1, <2>1, TakenType
<1>5. block \in [Addr -> Block]
  BY <1>1 DEF IInv, TypeOK
<1> HIDE DEF b
<1>6. block'[cur] = b
  BY <1>2, <1>3, <1>5
<1>7. ASSUME NEW i \in block[cur].instrs
      PROVE  ~IsBlockTerminator(code[i]) /\ LastByte(i) # LastByte(addr)
  <2>1. ~IsBlockTerminator(code[i])
    BY <1>1, <1>3 DEF ResultInv, Ends, Open, NotEnded
  <2> QED
    BY <1>1, <1>3, <2>1, WithinEnd, AddrInt
<1>8. EndsRight(cur)'
  BY <1>1, <1>2, <1>4, <1>6, <1>7, SameCode DEF EndsRight
<1> QED
  BY <1>1, <1>2, <1>8, ReturnEnds
-----------------------------------------------------------------------------
\* The worklist as a set.
LEMMA QueuedAppend ==
    ASSUME queue \in Seq(Addr), NEW t \in Addr, queue' = Append(queue, t)
    PROVE  Queued' = Queued \cup {t}
<1> DEFINE q == Append(queue, t)
<1>1. DOMAIN q = DOMAIN queue \cup {Len(queue) + 1} /\ q[Len(queue) + 1] = t
      /\ \A k \in DOMAIN queue : q[k] = queue[k]
  OBVIOUS
<1>2. queue' = q
  OBVIOUS
<1> HIDE DEF q
<1> QED
  BY <1>1, <1>2 DEF Queued

LEMMA QueuedTail ==
    ASSUME queue \in Seq(Addr), queue # <<>>, queue' = Tail(queue)
    PROVE  Head(queue) \in Queued /\ Queued' \subseteq Queued /\ Queued \subseteq Queued' \cup {Head(queue)}
<1>1. Head(queue) \in Queued
  <2>1. 1 \in DOMAIN queue /\ queue[1] = Head(queue)
    OBVIOUS
  <2> QED
    BY <2>1 DEF Queued
<1>2. ASSUME NEW k \in DOMAIN Tail(queue) PROVE Tail(queue)[k] \in Queued
  <2>1. k + 1 \in DOMAIN queue /\ Tail(queue)[k] = queue[k + 1]
    OBVIOUS
  <2> QED
    BY <2>1 DEF Queued
<1>3. ASSUME NEW k \in DOMAIN queue, queue[k] # Head(queue) PROVE queue[k] \in Queued'
  <2>1. PICK j \in DOMAIN Tail(queue) : Tail(queue)[j] = queue[k]
    BY <1>3, Dequeued
  <2> QED
    BY <2>1 DEF Queued
<1> QED
  BY <1>1, <1>2, <1>3 DEF Queued

\* Why a start cannot be placed does not go away.
LEMMA StillUnplaceable ==
    ASSUME code' = code, blockStart \subseteq blockStart', NEW t,
           Undecodable(code[t]) \/ Overlaps(t)
    PROVE  Undecodable(code[t])' \/ Overlaps(t)'
BY SameCode DEF Overlaps

LEMMA ResultTypes ==
    ASSUME ResultInv
    PROVE  /\ queue \in Seq(Addr) /\ block \in [Addr -> Block] /\ todo \in Seq(Word16)
           /\ ownedBy \in [Addr -> Addr \cup {None}] /\ cur \in Addr \cup {None}
           /\ blockStart \subseteq Addr /\ blocks \subseteq Addr
           /\ loc = "collect" => cur \in Addr
           /\ \A s \in Addr : \A k \in DOMAIN block[s].succ : block[s].succ[k] \in Addr
<1>1. TypeOK
  BY DEF ResultInv, IInv
<1>2. ASSUME NEW s \in Addr, NEW k \in DOMAIN block[s].succ PROVE block[s].succ[k] \in Addr
  <2>1. block[s].succ \in Seq(Addr)
    BY <1>1 DEF TypeOK, Block
  <2> QED
    BY <2>1
<1> QED
  BY <1>1, <1>2 DEF TypeOK

LEMMA InTail ==
    ASSUME NEW S, NEW q \in Seq(S), q # <<>>, NEW k \in DOMAIN q, q[k] # Head(q)
    PROVE  \E j \in DOMAIN Tail(q) : Tail(q)[j] = q[k]
<1>1. k \in 2..Len(q)
  OBVIOUS
<1>2. k - 1 \in DOMAIN Tail(q) /\ Tail(q)[k - 1] = q[k]
  BY <1>1
<1> QED
  BY <1>2

LEMMA EnqueueResult == ResultInv /\ Enqueue => Progress' /\ Reached' /\ Placed'
<1> SUFFICES ASSUME ResultInv, Enqueue PROVE Progress' /\ Reached' /\ Placed'
  OBVIOUS
<1> USE ResultTypes
<1> DEFINE t == Head(todo)
<1>1. /\ loc = "enqueue" /\ loc' = loc /\ todo # <<>> /\ todo' = Tail(todo)
      /\ code' = code /\ block' = block /\ blocks' = blocks /\ cur' = cur
      /\ IF t < ROM_END /\ t \notin blockStart
         THEN queue' = Append(queue, t) /\ blockStart' = blockStart \cup {t}
         ELSE queue' = queue /\ blockStart' = blockStart
  BY DEF Enqueue
<1>2. t \in Word16
  BY <1>1
<1>3. t < ROM_END => t \in Addr
  BY <1>2, RomEndType DEF Addr, Word16
<1>4. blockStart' = (IF t < ROM_END THEN blockStart \cup {t} ELSE blockStart)
      /\ Queued \subseteq Queued' /\ Queued' \subseteq Queued \cup (blockStart' \ blockStart)
      /\ (blockStart' \ blockStart) \subseteq Queued'
  <2>1. CASE t < ROM_END /\ t \notin blockStart
    <3>1. Queued' = Queued \cup {t} /\ blockStart' = blockStart \cup {t}
      BY <1>1, <1>3, <2>1, QueuedAppend
    <3> QED
      BY <2>1, <3>1
  <2>2. CASE ~(t < ROM_END /\ t \notin blockStart)
    <3>1. Queued' = Queued
      BY <1>1, <2>2 DEF Queued
    <3> QED
      BY <1>1, <2>2, <3>1
  <2> QED
    BY <2>1, <2>2
<1>5. Progress'
  BY <1>1 DEF ResultInv, Progress
<1>6. Reached'
  <2> SUFFICES ASSUME NEW s \in Addr, block[s].instrs # {}, NEW k \in DOMAIN block[s].succ,
                      NEW u, u = block[s].succ[k]
               PROVE  u \in blockStart' \/ Pending(u)'
    BY <1>1, <1>4 DEF ResultInv, Reached
  <2>1. u \in Addr
    OBVIOUS
  <2>2. u \in blockStart \/ Pending(u)
    BY DEF ResultInv, Reached
  <2>3. ASSUME Pending(u), u # t PROVE Pending(u)'
    <3>1. PICK j \in DOMAIN todo : todo[j] = u
      BY <2>3 DEF Pending
    <3>2. PICK i \in DOMAIN Tail(todo) : Tail(todo)[i] = u
      BY <1>1, <2>3, <3>1, InTail
    <3> QED
      BY <1>1, <3>2 DEF Pending
  <2>4. u = t => u \in blockStart'
    BY <1>4, <2>1, AddrInt
  <2> QED
    BY <1>4, <2>2, <2>3, <2>4
<1>7. Placed'
  BY <1>1, <1>4, StillUnplaceable DEF ResultInv, Placed
<1> QED
  BY <1>5, <1>6, <1>7

LEMMA CollectedResult == ResultInv /\ Collected => Progress' /\ Reached' /\ Placed'
<1> SUFFICES ASSUME ResultInv, Collected PROVE Progress' /\ Reached' /\ Placed'
  OBVIOUS
<1> USE ResultTypes, NoneType
<1>1. /\ loc = "enqueue" /\ loc' = "dequeue" /\ todo = <<>> /\ queue' = queue
      /\ code' = code /\ block' = block /\ cur' = None /\ blockStart' = blockStart
      /\ blocks' = IF cur = None THEN blocks ELSE blocks \cup {cur}
  BY DEF Collected
<1>2. Progress'
  BY <1>1 DEF ResultInv, Progress
<1>3. \A t : ~Pending(t)
  BY <1>1 DEF Pending
<1>4. Queued' = Queued
  BY <1>1 DEF Queued
<1>5. Reached'
  BY <1>1, <1>3, <1>4 DEF ResultInv, Reached
<1>6. Placed'
  BY <1>1, <1>4, StillUnplaceable DEF ResultInv, Placed
<1> QED
  BY <1>2, <1>5, <1>6

LEMMA BeginResult == ResultInv /\ Begin => Progress' /\ Reached' /\ Placed'
<1> SUFFICES ASSUME ResultInv, Begin PROVE Progress' /\ Reached' /\ Placed'
  OBVIOUS
<1> USE ResultTypes, NoneType
<1> DEFINE start == Head(queue)
<1>1. /\ loc = "dequeue" /\ loc' = "collect" /\ queue # <<>> /\ queue' = Tail(queue)
      /\ code' = code /\ cur' = start /\ blockStart' = blockStart /\ blocks' = blocks
      /\ block' = [block EXCEPT ![start] = NoBlock] /\ ownedBy[start] = None
  BY DEF Begin, StartCollecting
<1>2. start \in Addr /\ start \in Queued /\ Queued' \subseteq Queued /\ Queued \subseteq Queued' \cup {start}
  BY <1>1, Dequeued, QueuedTail
<1> HIDE DEF start
<1>3. block[start].instrs = {}
  BY <1>1, <1>2, UnownedEmpty DEF ResultInv
<1>4. block'[start].instrs = {} /\ \A s \in Addr : s # start => block'[s] = block[s]
  BY <1>1, <1>2, NoBlockType
<1>5. cur = None /\ start \notin blocks
  BY <1>1, <1>3 DEF ResultInv, Progress
<1>6. Progress'
  BY <1>1, <1>3, <1>4, <1>5 DEF ResultInv, Progress
<1>7. \A t : ~Pending(t)
  BY <1>1 DEF Pending
<1>8. Reached'
  BY <1>1, <1>2, <1>4, <1>7 DEF ResultInv, Reached
<1>9. Placed'
  BY <1>1, <1>2, <1>5, StillUnplaceable DEF ResultInv, Placed
<1> QED
  BY <1>6, <1>8, <1>9

\* The dropped address starts a block, or lies inside an instruction of one.
LEMMA SkipResult == ResultInv /\ Skip => Progress' /\ Reached' /\ Placed'
<1> SUFFICES ASSUME ResultInv, Skip PROVE Progress' /\ Reached' /\ Placed'
  OBVIOUS
<1> USE ResultTypes, NoneType
<1> DEFINE start == Head(queue)
           owner == ownedBy[start]
<1>1. /\ loc = "dequeue" /\ loc' = "dequeue" /\ queue # <<>> /\ queue' = Tail(queue)
      /\ code' = code /\ cur' = cur /\ blockStart' = blockStart /\ blocks' = blocks
      /\ block' = block /\ owner # None /\ (owner = start \/ start \notin block[owner].instrs)
  BY DEF Skip, isInstructionBoundary
<1>2. start \in Addr /\ start \in Queued /\ Queued' \subseteq Queued /\ Queued \subseteq Queued' \cup {start}
  BY <1>1, Dequeued, QueuedTail
<1>3. owner \in Addr
  BY <1>1, <1>2
<1>4. start \in Bytes(owner)
  BY <1>2, <1>3 DEF ResultInv, IInv, Ownership
<1> HIDE DEF start, owner
<1>5. cur = None
  BY <1>1 DEF ResultInv, Progress
<1>6. start \in blocks \/ Overlaps(start)
  <2>1. PICK i \in block[owner].instrs : start \in i..LastByte(i)
    BY <1>4 DEF Bytes
  <2>2. owner \in blocks
    BY <1>3, <1>5, <2>1 DEF ResultInv, Progress
  <2>3. CASE owner = start
    BY <2>2, <2>3
  <2>4. CASE start \notin block[owner].instrs
    <3>1. i \in Addr /\ ~Undecodable(code[i])
      BY <1>3, WithinEnd DEF ResultInv, IInv, Decodable
    <3>2. i < start
      BY <1>2, <2>1, <2>4, <3>1, AddrInt
    <3> QED
      BY <2>1, <3>1, <3>2 DEF Overlaps
  <2> QED
    BY <1>1, <2>3, <2>4
<1>7. Progress'
  BY <1>1 DEF ResultInv, Progress
<1>8. \A t : ~Pending(t)
  BY <1>1 DEF Pending
<1>9. Reached'
  BY <1>1, <1>2, <1>8 DEF ResultInv, Reached
<1>10. Placed'
  BY <1>1, <1>2, <1>6, StillUnplaceable DEF ResultInv, Placed
<1> QED
  BY <1>7, <1>9, <1>10

LEMMA CutResult == ResultInv /\ Cut => Progress' /\ Reached' /\ Placed'
<1> SUFFICES ASSUME ResultInv, Cut PROVE Progress' /\ Reached' /\ Placed'
  OBVIOUS
<1> USE ResultTypes, NoneType
<1> DEFINE start == Head(queue)
           owner == ownedBy[start]
<1>1. /\ loc = "dequeue" /\ loc' = "collect" /\ queue # <<>> /\ queue' = Tail(queue)
      /\ code' = code /\ cur' = start /\ blockStart' = blockStart /\ blocks' = blocks
      /\ owner # None /\ owner # start /\ start \in block[owner].instrs
      /\ block' = [block EXCEPT ![owner] = cutBlock(owner, start), ![start] = NoBlock]
  BY DEF Cut, StartCollecting, isInstructionBoundary
<1>2. start \in Addr /\ start \in Queued /\ Queued' \subseteq Queued /\ Queued \subseteq Queued' \cup {start}
  BY <1>1, Dequeued, QueuedTail
<1>3. owner \in Addr
  BY <1>1, <1>2
<1>4. block[start].instrs = {}
  BY <1>1, <1>2, UnownedEmpty DEF ResultInv
<1> HIDE DEF start, owner
<1>5. block'[start].instrs = {} /\ block'[owner] = cutBlock(owner, start)
      /\ \A s \in Addr : s # start /\ s # owner => block'[s] = block[s]
  BY <1>1, <1>2, <1>3, NoBlockType
<1>6. owner < start /\ owner \in block[owner].instrs
  BY <1>1, <1>2, <1>3, WithinEnd, AddrInt DEF ResultInv, IInv, Contiguous
<1>7. block'[owner].instrs # {} /\ block'[owner].succ = <<start>>
  <2>1. owner \in cutBlock(owner, start).instrs /\ cutBlock(owner, start).succ = <<start>>
    BY <1>6 DEF cutBlock
  <2> QED
    BY <1>5, <2>1
<1>8. cur = None /\ start \notin blocks
  BY <1>1, <1>4 DEF ResultInv, Progress
<1>9. Progress'
  BY <1>1, <1>3, <1>4, <1>5, <1>6, <1>7, <1>8 DEF ResultInv, Progress
<1>10. \A t : ~Pending(t)
  BY <1>1 DEF Pending
<1>11. Reached'
  <2> SUFFICES ASSUME NEW s \in Addr, block'[s].instrs # {}, NEW k \in DOMAIN block'[s].succ
               PROVE  block'[s].succ[k] \in blockStart
    BY <1>1, <1>2 DEF ResultInv, Reached
  <2>1. CASE s = owner
    <3>1. block'[s].succ[k] = start
      BY <1>7, <2>1
    <3> QED
      BY <1>2, <3>1 DEF ResultInv, Reached
  <2>2. CASE s # owner
    BY <1>5, <1>10, <2>2 DEF ResultInv, Reached
  <2> QED
    BY <2>1, <2>2
<1>12. Placed'
  BY <1>1, <1>2, <1>8, StillUnplaceable DEF ResultInv, Placed
<1> QED
  BY <1>9, <1>11, <1>12

\* An abandoned block is empty: its start does not decode, or the bytes of the
\* instruction there are another block's or hold another start.
LEMMA AbandonResult == ResultInv /\ Abandon => Progress' /\ Reached' /\ Placed'
<1> SUFFICES ASSUME ResultInv, Abandon PROVE Progress' /\ Reached' /\ Placed'
  OBVIOUS
<1> USE ResultTypes, NoneType
<1>1. /\ loc = "collect" /\ loc' = "dequeue" /\ queue' = queue
      /\ code' = code /\ cur' = None /\ blockStart' = blockStart /\ blocks' = blocks
      /\ block' = block /\ block[cur].instrs = {} /\ Blocked
  BY DEF Abandon
<1>2. cur \in Addr /\ addr = cur /\ ownedBy[cur] = None
  BY <1>1 DEF ResultInv, IInv, Cursor
<1>3. Undecodable(code[cur]) \/ Overlaps(cur)
  <2> SUFFICES ASSUME ~Undecodable(code[cur]) PROVE Overlaps(cur)
    OBVIOUS
  <2>1. PICK u \in (cur + 1)..LastByte(cur) : ownedBy[u] # None \/ u \in blockStart
    BY <1>1, <1>2 DEF Blocked, spansKnownStart, Known
  <2>2. CASE u \in blockStart
    BY <2>1, <2>2 DEF Overlaps
  <2>3. CASE ownedBy[u] # None
    <3>1. LastByte(cur) \in Addr
      BY <1>2, LastByteType DEF ResultInv, IInv
    <3>2. u \in Addr /\ u > cur
      BY <1>2, <2>1, <3>1, RomEndType DEF Addr
    <3> DEFINE s == ownedBy[u]
    <3>3. s \in Addr
      BY <2>3, <3>2
    <3>4. u \in Bytes(s) /\ cur \notin Bytes(s)
      BY <1>2, <3>2, <3>3 DEF ResultInv, IInv, Ownership
    <3> HIDE DEF s
    <3>5. block[s].instrs # {}
      BY <3>4 DEF Bytes
    <3>6. Bytes(s) = s..block[s].end /\ block[s].end \in Addr
      BY <3>3, <3>5, WithinEnd DEF ResultInv, IInv, Contiguous
    <3>7. s \in (cur + 1)..LastByte(cur)
      BY <1>2, <2>1, <3>1, <3>2, <3>3, <3>4, <3>6, AddrInt
    <3>8. s \in blockStart
      BY <1>1, <1>2, <3>3, <3>5 DEF ResultInv, Progress, Reached
    <3> QED
      BY <3>7, <3>8 DEF Overlaps
  <2> QED
    BY <2>1, <2>2, <2>3
<1>4. Progress'
  BY <1>1 DEF ResultInv, Progress
<1>5. \A t : ~Pending(t)
  BY <1>1 DEF Pending
<1>6. Queued' = Queued
  BY <1>1 DEF Queued
<1>7. Reached'
  BY <1>1, <1>5, <1>6 DEF ResultInv, Reached
<1>8. Placed'
  BY <1>1, <1>3, <1>6, StillUnplaceable DEF ResultInv, Placed
<1> QED
  BY <1>4, <1>7, <1>8

\* A returned block is not empty and its successors are enqueued next.
LEMMA ReturnResult ==
    ASSUME ResultInv, loc = "collect", NEW b, Return(b), b.instrs # {}
    PROVE  Progress' /\ Reached' /\ Placed'
<1> USE ResultTypes, NoneType
<1>1. /\ block' = [block EXCEPT ![cur] = b] /\ todo' = b.succ /\ loc' = "enqueue"
      /\ UNCHANGED <<code, queue, blockStart, blocks, cur>>
  BY DEF Return
<1>2. cur \in Addr /\ block'[cur] = b /\ \A s \in Addr : s # cur => block'[s] = block[s]
  BY <1>1
<1>3. Progress'
  BY <1>1, <1>2 DEF ResultInv, Progress
<1>4. \A t : ~Pending(t)
  BY DEF Pending
<1>5. Queued' = Queued
  BY <1>1 DEF Queued
<1>6. Reached'
  <2> SUFFICES ASSUME NEW s \in Addr, block'[s].instrs # {}, NEW k \in DOMAIN block'[s].succ,
                      NEW t, t = block'[s].succ[k]
               PROVE  t \in blockStart' \/ Pending(t)'
    BY <1>1, <1>5 DEF ResultInv, Reached
  <2>1. CASE s = cur
    BY <1>1, <1>2, <2>1 DEF Pending
  <2>2. CASE s # cur
    BY <1>1, <1>2, <1>4, <2>2 DEF ResultInv, Reached
  <2> QED
    BY <2>1, <2>2
<1>7. Placed'
  BY <1>1, <1>5, StillUnplaceable DEF ResultInv, Placed
<1> QED
  BY <1>3, <1>6, <1>7

LEMMA StopAtKnownResult == ResultInv /\ StopAtKnown => Progress' /\ Reached' /\ Placed'
<1> SUFFICES ASSUME ResultInv, StopAtKnown PROVE Progress' /\ Reached' /\ Placed'
  OBVIOUS
<1> DEFINE b == [block[cur] EXCEPT !.end = addr - 1, !.succ = <<addr>>]
<1>1. loc = "collect" /\ Return(b) /\ addr # cur
  BY DEF StopAtKnown, AtKnown
<1>2. block[cur] \in [end : Addr, instrs : SUBSET Addr, succ : Seq(Addr)]
  BY <1>1, ResultTypes DEF Block
<1>3. block[cur].instrs # {}
  BY <1>1 DEF ResultInv, IInv, Cursor
<1>4. b.instrs # {}
  BY <1>2, <1>3
<1> QED
  BY <1>1, <1>4, ReturnResult

LEMMA StopBlockedResult == ResultInv /\ StopBlocked => Progress' /\ Reached' /\ Placed'
<1> SUFFICES ASSUME ResultInv, StopBlocked PROVE Progress' /\ Reached' /\ Placed'
  OBVIOUS
<1> DEFINE b == [block[cur] EXCEPT !.succ = <<addr>>]
<1>1. loc = "collect" /\ Return(b) /\ block[cur].instrs # {}
  BY DEF StopBlocked
<1>2. block[cur] \in [end : Addr, instrs : SUBSET Addr, succ : Seq(Addr)]
  BY <1>1, ResultTypes DEF Block
<1>3. b.instrs # {}
  BY <1>1, <1>2
<1> QED
  BY <1>1, <1>3, ReturnResult

LEMMA RunOffResult == ResultInv /\ RunOff => Progress' /\ Reached' /\ Placed'
<1> SUFFICES ASSUME ResultInv, RunOff PROVE Progress' /\ Reached' /\ Placed'
  OBVIOUS
<1>1. loc = "collect" /\ Return(block[cur]) /\ addr >= ROM_END
  BY DEF RunOff
<1>2. block[cur].instrs # {}
  BY <1>1, ResultTypes, AddrInt, RomEndType DEF ResultInv, IInv, Cursor
<1> QED
  BY <1>1, <1>2, ReturnResult

LEMMA TakeTerminatorResult == ResultInv /\ TakeTerminator => Progress' /\ Reached' /\ Placed'
<1> SUFFICES ASSUME ResultInv, TakeTerminator PROVE Progress' /\ Reached' /\ Placed'
  OBVIOUS
<1> DEFINE b == [Taken EXCEPT !.succ = findSuccessors(addr)]
<1>1. CanTake /\ Return(b) /\ loc = "collect"
  BY DEF TakeTerminator, CanTake
<1>2. Taken \in [end : Addr, instrs : SUBSET Addr, succ : Seq(Addr)] /\ addr \in Taken.instrs
  BY <1>1, TakenType DEF Block, ResultInv
<1>3. b.instrs # {}
  BY <1>2
<1> QED
  BY <1>1, <1>3, ReturnResult

LEMMA TakeResult == ResultInv /\ Take => Progress' /\ Reached' /\ Placed'
<1> SUFFICES ASSUME ResultInv, Take PROVE Progress' /\ Reached' /\ Placed'
  OBVIOUS
<1> USE ResultTypes, NoneType
<1>1. /\ loc = "collect" /\ block' = [block EXCEPT ![cur] = Taken]
      /\ UNCHANGED <<code, queue, blockStart, blocks, cur, todo, loc>>
  BY DEF Take, CanTake
<1>2. cur \in Addr /\ block'[cur] = Taken /\ \A s \in Addr : s # cur => block'[s] = block[s]
  BY <1>1
<1>3. Taken.succ = <<>>
  <2>1. block[cur] \in [end : Addr, instrs : SUBSET Addr, succ : Seq(Addr)]
    BY <1>2 DEF Block
  <2>2. block[cur].succ = <<>>
    BY <1>1, <1>2 DEF ResultInv, Ends, Open, NotEnded
  <2> QED
    BY <2>1, <2>2 DEF Taken
<1>4. Progress'
  BY <1>1, <1>2 DEF ResultInv, Progress
<1>5. \A t : ~Pending(t)
  BY <1>1 DEF Pending
<1>6. Queued' = Queued
  BY <1>1 DEF Queued
<1>7. Reached'
  <2> SUFFICES ASSUME NEW s \in Addr, block'[s].instrs # {}, NEW k \in DOMAIN block'[s].succ
               PROVE  block'[s].succ[k] \in blockStart
    BY <1>1, <1>6 DEF ResultInv, Reached
  <2>1. s # cur
    BY <1>2, <1>3
  <2> QED
    BY <1>2, <1>5, <2>1 DEF ResultInv, Reached
<1>8. Placed'
  BY <1>1, <1>6, StillUnplaceable DEF ResultInv, Placed
<1> QED
  BY <1>4, <1>7, <1>8

LEMMA FinishResult == ResultInv /\ Finish => Progress' /\ Reached' /\ Placed'
<1> SUFFICES ASSUME ResultInv, Finish PROVE Progress' /\ Reached' /\ Placed'
  OBVIOUS
<1>1. /\ loc = "dequeue" /\ queue = <<>> /\ loc' = "done"
      /\ UNCHANGED <<code, queue, blockStart, block, blocks, cur, todo>>
  BY DEF Finish
<1>2. (\A t : ~Pending(t)) /\ Queued' = Queued
  BY <1>1 DEF Pending, Queued
<1>3. Progress'
  BY <1>1 DEF ResultInv, Progress
<1>4. Reached'
  BY <1>1, <1>2 DEF ResultInv, Reached
<1>5. Placed'
  BY <1>1, <1>2, StillUnplaceable DEF ResultInv, Placed
<1> QED
  BY <1>3, <1>4, <1>5

LEMMA StutterResult == ResultInv /\ UNCHANGED vars => Progress' /\ Reached' /\ Placed'
<1> SUFFICES ASSUME ResultInv, UNCHANGED vars PROVE Progress' /\ Reached' /\ Placed'
  OBVIOUS
<1>1. UNCHANGED <<code, queue, blockStart, block, blocks, cur, todo, loc>>
  BY DEF vars
<1>2. Queued' = Queued /\ \A t : Pending(t)' = Pending(t)
  BY <1>1 DEF Pending, Queued
<1>3. Progress'
  BY <1>1 DEF ResultInv, Progress
<1>4. Reached'
  BY <1>1, <1>2 DEF ResultInv, Reached
<1>5. Placed'
  BY <1>1, <1>2, StillUnplaceable DEF ResultInv, Placed
<1> QED
  BY <1>3, <1>4, <1>5
-----------------------------------------------------------------------------
LEMMA NextResult == ResultInv /\ [Next]_vars => ResultInv'
<1> SUFFICES ASSUME ResultInv, [Next]_vars PROVE ResultInv'
  OBVIOUS
<1>0. IInv'
  BY NextIInv DEF ResultInv
<1> SUFFICES Ends' /\ Progress' /\ Reached' /\ Placed'
  BY <1>0 DEF ResultInv
<1>1. CASE Enqueue
  BY <1>1, EnqueueEnds, EnqueueResult
<1>2. CASE Collected
  BY <1>2, CollectedEnds, CollectedResult
<1>3. CASE Begin
  BY <1>3, BeginEnds, BeginResult
<1>4. CASE Skip
  BY <1>4, SkipEnds, SkipResult
<1>5. CASE Cut
  BY <1>5, CutEnds, CutResult
<1>6. CASE StopAtKnown
  BY <1>6, StopAtKnownEnds, StopAtKnownResult
<1>7. CASE StopBlocked
  BY <1>7, StopBlockedEnds, StopBlockedResult
<1>8. CASE Abandon
  BY <1>8, AbandonEnds, AbandonResult
<1>9. CASE RunOff
  BY <1>9, RunOffEnds, RunOffResult
<1>10. CASE Take
  BY <1>10, TakeEnds, TakeResult
<1>11. CASE TakeTerminator
  BY <1>11, TakeTerminatorEnds, TakeTerminatorResult
<1>12. CASE Finish
  BY <1>12, FinishEnds, FinishResult
<1>13. CASE Done
  BY <1>13, StutterEnds, StutterResult DEF Done
<1>14. CASE UNCHANGED vars
  BY <1>14, StutterEnds, StutterResult
<1> QED
  BY <1>1, <1>2, <1>3, <1>4, <1>5, <1>6, <1>7, <1>8, <1>9, <1>10, <1>11, <1>12,
     <1>13, <1>14 DEF Next

LEMMA ResultInvariance == Spec => []ResultInv
<1>1. Init => ResultInv
  BY InitIInv, InitResult DEF ResultInv
<1> QED
  BY <1>1, NextResult, PTL DEF Spec

\* joinBlocks and emitCalls get blocks that are not empty, whose only terminator
\* is the last instruction, and which name the next address as successor where
\* they have none (collectBlock, cutBlock).
THEOREM JoinsAssumed == Spec => []JoinContract
<1>1. ResultInv => JoinContract
  <2> SUFFICES ASSUME ResultInv, loc = "done", NEW s \in blocks
               PROVE  \E last \in block[s].instrs :
                        /\ LastByte(last) = block[s].end
                        /\ \A i \in block[s].instrs \ {last} : i < last /\ ~IsBlockTerminator(code[i])
                        /\ IF IsBlockTerminator(code[last]) THEN block[s].succ = findSuccessors(last)
                           ELSE IF block[s].end = ROM_END - 1 THEN block[s].succ = <<>>
                           ELSE block[s].succ = <<block[s].end + 1>>
    BY DEF JoinContract
  <2>1. s \in Addr /\ block[s].instrs # {}
    BY ResultTypes DEF ResultInv, Progress
  <2>2. EndsRight(s)
    BY <2>1 DEF ResultInv, Ends, Open
  <2>3. PICK last \in block[s].instrs :
          LastByte(last) = block[s].end /\ \A i \in block[s].instrs \ {last} : LastByte(i) < last
    BY <2>1, LastInstr DEF ResultInv
  <2>4. ASSUME NEW i \in block[s].instrs, i # last PROVE i < last /\ ~IsBlockTerminator(code[i])
    <3>1. LastByte(i) < last /\ i < last /\ last <= LastByte(last)
      BY <2>1, <2>3, <2>4, WithinEnd, AddrInt DEF ResultInv
    <3>2. LastByte(i) # block[s].end
      BY <2>1, <2>3, <3>1, WithinEnd, AddrInt DEF ResultInv
    <3> QED
      BY <2>2, <3>1, <3>2 DEF EndsRight
  <2> QED
    BY <2>2, <2>3, <2>4 DEF EndsRight
<1> QED
  BY <1>1, ResultInvariance, PTL

\* At the end of the pass the target of every edge starts a block, unless no
\* instruction there can be taken (enqueue, collectBlock's early returns).
THEOREM EdgesAreFollowed == Spec => []EdgesFollowed
<1>1. ResultInv => EdgesFollowed
  <2> SUFFICES ASSUME ResultInv, loc = "done", NEW s \in blocks, NEW k \in DOMAIN block[s].succ,
                      NEW t, t = block[s].succ[k]
               PROVE  t \in blocks \/ Undecodable(code[t]) \/ Overlaps(t)
    BY DEF EdgesFollowed
  <2>1. s \in Addr /\ block[s].instrs # {} /\ t \in Addr
    BY ResultTypes DEF ResultInv, Progress
  <2>2. t \in blockStart
    BY <2>1 DEF ResultInv, Reached, Pending
  <2>3. t \notin Queued /\ t # cur
    BY <2>1, NoneType DEF ResultInv, Progress, Queued
  <2> QED
    BY <2>2, <2>3 DEF ResultInv, Placed
<1> QED
  BY <1>1, ResultInvariance, PTL

\* What a step may do to returned blocks (OnlyCut's action).
Untouched(s) ==
    \/ block'[s] = block[s]
    \/ /\ block'[s].instrs = {i \in block[s].instrs : i <= block'[s].end}
       /\ block'[s].end < block[s].end
       /\ block'[s].succ = <<block'[s].end + 1>>

\* Collecting changes the open block, which is not returned yet.
LEMMA OpenUntouched ==
    ASSUME ResultInv, loc = "collect", NEW b, block' = [block EXCEPT ![cur] = b],
           NEW s \in blocks
    PROVE  Untouched(s)
<1>1. s # cur /\ s \in Addr /\ cur \in Addr /\ block \in [Addr -> Block]
  BY ResultTypes DEF ResultInv, Progress
<1> QED
  BY <1>1 DEF Untouched

LEMMA CutUntouched == ASSUME ResultInv, Cut, NEW s \in blocks PROVE Untouched(s)
<1> USE ResultTypes, NoneType
<1> DEFINE start == Head(queue)
           owner == ownedBy[start]
<1>1. /\ queue # <<>> /\ owner # None /\ owner # start /\ start \in block[owner].instrs
      /\ block' = [block EXCEPT ![owner] = cutBlock(owner, start), ![start] = NoBlock]
  BY DEF Cut, isInstructionBoundary
<1>2. start \in Addr
  BY <1>1, Dequeued
<1>3. owner \in Addr
  BY <1>1, <1>2
<1>4. block[start].instrs = {}
  BY <1>1, <1>2, UnownedEmpty DEF ResultInv
<1> HIDE DEF start, owner
<1>5. s # start /\ s \in Addr
  BY <1>4 DEF ResultInv, Progress
<1>6. CASE s # owner
  <2>1. block'[s] = block[s]
    BY <1>1, <1>2, <1>3, <1>5, <1>6
  <2> QED
    BY <2>1 DEF Untouched
<1>7. CASE s = owner
  <2>1. block'[s] = cutBlock(s, start)
    BY <1>1, <1>2, <1>3, <1>5, <1>7
  <2>2. /\ block'[s].instrs = {i \in block[s].instrs : i < start}
        /\ block'[s].end = start - 1 /\ block'[s].succ = <<start>>
    BY <2>1 DEF cutBlock
  <2>3. start <= block[s].end /\ block[s].end \in Addr
    BY <1>1, <1>2, <1>5, <1>7, WithinEnd, AddrInt DEF ResultInv
  <2>4. start - 1 < block[s].end /\ (start - 1) + 1 = start
    BY <1>2, <2>3, AddrInt
  <2>5. ASSUME NEW i \in block[s].instrs PROVE i < start <=> i <= start - 1
    BY <1>2, <1>5, WithinEnd, AddrInt DEF ResultInv
  <2> QED
    BY <2>2, <2>4, <2>5 DEF Untouched
<1> QED
  BY <1>6, <1>7

\* Once collectBlock has returned a block, only cutBlock changes it: it keeps the
\* instructions before the cut and falls through to it.
THEOREM BlocksOnlyCut == Spec => OnlyCut
<1>1. ASSUME ResultInv, Next, NEW s \in blocks PROVE Untouched(s)
  <2>1. s \in Addr /\ block[s].instrs # {} /\ block \in [Addr -> Block]
    BY <1>1, ResultTypes DEF ResultInv, Progress
  <2>2. CASE Enqueue \/ Collected \/ Skip \/ Abandon \/ Finish \/ Done
    BY <2>2 DEF Enqueue, Collected, Skip, Abandon, Finish, Done, vars, Untouched
  <2>3. CASE Begin
    <3>1. Head(queue) \in Addr /\ ownedBy[Head(queue)] # Head(queue)
      BY <1>1, <2>3, Dequeued, ResultTypes, NoneType DEF Begin
    <3>2. s # Head(queue)
      BY <1>1, <2>1, <3>1, UnownedEmpty DEF ResultInv
    <3>3. block'[s] = block[s]
      BY <2>1, <2>3, <3>1, <3>2 DEF Begin
    <3> QED
      BY <3>3 DEF Untouched
  <2>4. CASE Cut
    BY <1>1, <2>4, CutUntouched
  <2>5. CASE StopAtKnown \/ StopBlocked \/ RunOff \/ Take \/ TakeTerminator
    BY <1>1, <2>5, OpenUntouched
       DEF StopAtKnown, StopBlocked, RunOff, Take, TakeTerminator, CanTake, Return
  <2> QED
    BY <1>1, <2>2, <2>3, <2>4, <2>5 DEF Next
<1>2. ASSUME UNCHANGED vars, NEW s \in blocks PROVE Untouched(s)
  BY <1>2 DEF vars, Untouched
<1>3. ResultInv /\ [Next]_vars => [\A s \in blocks : Untouched(s)]_vars
  BY <1>1, <1>2
<1> QED
  BY <1>3, ResultInvariance, PTL DEF Spec, OnlyCut, Untouched
-----------------------------------------------------------------------------
\* The form in which Machine takes blocks; the sizes are the Game Boy's, the contract
\* depends on ROM_END only.
I == INSTANCE Isa WITH
    PC_MOD <- 65536, SP_MOD <- 32768, CYCLE_MOD <- 4294967296,
    Lines <- 5, Vectors <- [l \in 0..4 |-> 64 + 8 * l],
    Images <- {}, RamInstructions <- {}, PushValues <- {}

\* A block as the code generator reads it.
Compiled(s) == [instrs |-> block[s].instrs,
                last   |-> CHOOSE i \in block[s].instrs : LastByte(i) = block[s].end,
                succ   |-> block[s].succ]

\* The instruction behind one that is not the last is the block's next.
LEMMA NextInBlock ==
    ASSUME IInv, NEW s \in Addr, NEW i \in block[s].instrs, NEW last \in block[s].instrs,
           LastByte(i) < last
    PROVE  /\ i + code[i].len \in block[s].instrs
           /\ \A j \in block[s].instrs : j > i => j >= i + code[i].len
<1> DEFINE next == i + code[i].len
<1>1. \A j \in block[s].instrs : j \in Addr /\ LastByte(j) \in Addr /\ j <= LastByte(j)
                              /\ s <= j /\ LastByte(j) <= block[s].end
  BY WithinEnd
<1>2. block[s].end \in Addr /\ Bytes(s) = s..block[s].end
      /\ \A j, k \in block[s].instrs : k \notin (j + 1)..LastByte(j)
  BY WithinEnd DEF IInv, Contiguous
<1>3. ~Undecodable(code[i]) /\ i \in Addr /\ TypeOK
  BY <1>1 DEF IInv, Decodable
<1>4. /\ code[i].len \in 1..3
      /\ LastByte(i) = IF i + code[i].len < ROM_END THEN i + code[i].len - 1 ELSE ROM_END - 1
  BY <1>3, LastByteType, Zenon
<1>5. next \in Int /\ LastByte(i) = next - 1 /\ next <= last
  BY <1>1, <1>4, AddrInt, RomEndType
<1> HIDE DEF next
<1>6. next \in Bytes(s)
  BY <1>1, <1>2, <1>5, AddrInt
<1>7. PICK j \in block[s].instrs : next \in j..LastByte(j)
  BY <1>6 DEF Bytes
<1>8. j = next
  <2>1. j \notin (i + 1)..LastByte(i) /\ i \notin (j + 1)..LastByte(j)
    BY <1>2
  <2> QED
    BY <1>1, <1>5, <1>7, <2>1, AddrInt
<1>9. ASSUME NEW k \in block[s].instrs, k > i PROVE k >= next
  BY <1>1, <1>2, <1>5, <1>9, AddrInt
<1> QED
  BY <1>7, <1>8, <1>9 DEF next

\* AnalyzeBlocks hands to the code generator what Machine assumes of its images
\* (joinBlocks, emitCalls): every returned block keeps the contract of blocks.
THEOREM ContractKept ==
    Spec => [](loc = "done" => \A s \in blocks : I!BlockContract(code, s, Compiled(s)))
<1>1. ResultInv => (loc = "done" => \A s \in blocks : I!BlockContract(code, s, Compiled(s)))
  <2> SUFFICES ASSUME ResultInv, loc = "done", NEW s \in blocks
               PROVE  I!BlockContract(code, s, Compiled(s))
    OBVIOUS
  <2> DEFINE last == CHOOSE i \in block[s].instrs : LastByte(i) = block[s].end
  <2>1. s \in Addr /\ block[s].instrs # {} /\ block[s].instrs \subseteq Addr /\ code \in [Addr -> Instruction]
    BY ResultTypes DEF ResultInv, Progress, IInv, TypeOK, Block
  <2>2. EndsRight(s)
    BY <2>1 DEF ResultInv, Ends, Open
  <2>3. PICK x \in block[s].instrs :
          LastByte(x) = block[s].end /\ \A i \in block[s].instrs \ {x} : LastByte(i) < x
    BY <2>1, LastInstr DEF ResultInv
  <2>4. last \in block[s].instrs /\ LastByte(last) = block[s].end
    BY <2>3
  <2>5. /\ Compiled(s).instrs = block[s].instrs /\ Compiled(s).last = last
        /\ Compiled(s).succ = block[s].succ
    BY DEF Compiled
  <2> HIDE DEF last
  <2>6. last = x
    BY <2>1, <2>3, <2>4, WithinEnd, AddrInt DEF ResultInv
  <2>7. s \in block[s].instrs
    BY <2>1 DEF ResultInv, IInv, Contiguous
  <2>8. ASSUME NEW i \in block[s].instrs
        PROVE  code[i].type # "UNKNOWN" /\ s <= i /\ i <= last
    <3>1. code[i].type # "UNKNOWN"
      BY <2>1 DEF ResultInv, IInv, Decodable, Undecodable
    <3> QED
      BY <2>1, <2>3, <2>6, <3>1, WithinEnd, AddrInt DEF ResultInv
  <2>9. ASSUME NEW i \in block[s].instrs, i # last
        PROVE  /\ ~IsBlockTerminator(code[i]) /\ i + code[i].len \in block[s].instrs
               /\ \A j \in block[s].instrs : j > i => j >= i + code[i].len
    <3>1. LastByte(i) < last
      BY <2>3, <2>6, <2>9
    <3>2. LastByte(i) # block[s].end
      BY <2>1, <2>4, <3>1, WithinEnd, AddrInt DEF ResultInv
    <3> QED
      BY <2>1, <2>2, <2>4, <3>1, <3>2, NextInBlock DEF EndsRight, ResultInv
  <2>10. ASSUME ~IsBlockTerminator(code[last])
         PROVE  block[s].succ = IF last + code[last].len < ROM_END
                                THEN <<last + code[last].len>> ELSE <<>>
    <3>1. block[s].succ = IF block[s].end = ROM_END - 1 THEN <<>> ELSE <<block[s].end + 1>>
      BY <2>2, <2>4, <2>10 DEF EndsRight
    <3>2. ~Undecodable(code[last]) /\ last \in Addr
      BY <2>1, <2>4 DEF ResultInv, IInv, Decodable
    <3>3. code[last].len \in 1..3
          /\ block[s].end = IF last + code[last].len < ROM_END
                            THEN last + code[last].len - 1 ELSE ROM_END - 1
      BY <2>4, <3>2, LastByteType DEF ResultInv, IInv
    <3>4. CASE last + code[last].len < ROM_END
      <4>1. block[s].end # ROM_END - 1 /\ block[s].end + 1 = last + code[last].len
        BY <3>2, <3>3, <3>4, AddrInt, RomEndType
      <4> QED
        BY <3>1, <3>4, <4>1
    <3>5. CASE ~(last + code[last].len < ROM_END)
      BY <3>1, <3>3, <3>5
    <3> QED
      BY <3>4, <3>5
  <2>11. \A i : I!IsBlockTerminator(i) = IsBlockTerminator(i)
    BY DEF I!IsBlockTerminator, IsBlockTerminator, I!Terminators, Terminators
  <2>12. I!Rom = Addr
    BY DEF I!Rom, Addr
  <2> QED
    BY <2>1, <2>4, <2>5, <2>7, <2>8, <2>9, <2>10, <2>11, <2>12 DEF I!BlockContract
<1> QED
  BY <1>1, ResultInvariance, PTL
=============================================================================
